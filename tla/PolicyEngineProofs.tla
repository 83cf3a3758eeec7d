------------------------- MODULE PolicyEngineProofs -------------------------
(***************************************************************************)
(* What evaluate() guarantees whatever the bundle: the facts about every   *)
(* possible policy file that Pep takes as VerdictAssumption, and that a    *)
(* test of one bundle cannot show.                                         *)
(***************************************************************************)
EXTENDS PolicyEngine, WellFoundedInduction, TLAPS

\* The two effects of a rule are told apart.
LEMMA DenyIsNotAllow == DENY # ALLOW
BY DEF DENY, ALLOW

\* Policy alone never gives a verdict between DENY and ALLOW.
THEOREM VerdictIsBinary ==
  ASSUME NEW rules, NEW q, NEW taint
  PROVE  Evaluate(rules, q, taint).decision \in {DENY, ALLOW}
BY DEF Evaluate, Result

\* The taint ceiling is structural: in a tainted session no bundle allows a
\* tool that writes out, a rule without any session_taint condition included.
THEOREM TaintedWriteIsDenied ==
  ASSUME NEW rules, NEW q, q.tool \in WRITE_TOOLS
  PROVE  Evaluate(rules, q, "tainted").decision = DENY
BY DenyIsNotAllow DEF Evaluate, Result, TaintCeiling

\* The two facts together are what Pep assumes of its Verdict, here for the
\* verdicts of any bundle.
THEOREM EvaluateMeetsVerdictAssumption ==
  ASSUME NEW Reqs, NEW rules
  PROVE  LET V == [r \in Reqs |-> [t \in Taints |-> Evaluate(rules, r, t)]]
         IN \A r \in Reqs :
              /\ \A t \in Taints : V[r][t].decision \in {DENY, ALLOW}
              /\ r.tool \in WRITE_TOOLS => V[r]["tainted"].decision = DENY
BY VerdictIsBinary, TaintedWriteIsDenied DEF Taints

\* Deny overrides: one matching DENY rule decides, whatever its priority and
\* whatever allows the call beside it.
THEOREM MatchingDenyDenies ==
  ASSUME NEW rules, NEW q, NEW taint, NEW i \in Candidates(rules, q, taint),
         rules[i].effect = DENY
  PROVE  Evaluate(rules, q, taint).decision = DENY
<1>1. OfEffect(rules, Candidates(rules, q, taint), DENY) # {}
  BY DEF OfEffect
<1> QED
  BY <1>1 DEF Evaluate, Result

\* No implicit allow: an ALLOW always has a matching ALLOW rule behind it and
\* no matching DENY rule against it.
THEOREM AllowHasRule ==
  ASSUME NEW rules, NEW q, NEW taint, Evaluate(rules, q, taint).decision = ALLOW
  PROVE  /\ \E i \in Candidates(rules, q, taint) : rules[i].effect = ALLOW
         /\ \A i \in Candidates(rules, q, taint) : rules[i].effect # DENY
<1>1. OfEffect(rules, Candidates(rules, q, taint), ALLOW) # {}
  BY DenyIsNotAllow DEF Evaluate, Result
<1>2. \A i \in Candidates(rules, q, taint) : rules[i].effect # DENY
  BY DenyIsNotAllow, MatchingDenyDenies
<1> QED
  BY <1>1, <1>2 DEF OfEffect

\* A rule appended to a bundle leaves the rules before it where they were.
LEMMA AppendedCandidates ==
  ASSUME NEW R, NEW rules \in Seq(R), NEW r \in R, NEW q, NEW taint,
         NEW i \in DOMAIN rules
  PROVE  /\ Append(rules, r)[i] = rules[i]
         /\ i \in Candidates(rules, q, taint)
              <=> i \in Candidates(Append(rules, r), q, taint)
<1>1. Append(rules, r)[i] = rules[i] /\ i \in DOMAIN Append(rules, r)
  OBVIOUS
<1> QED
  BY <1>1 DEF Candidates

\* A bundle can grow without opening what it closes: once a DENY rule stops a
\* call, no rule appended later, of whatever priority, lets the call through.
THEOREM AppendKeepsDeny ==
  ASSUME NEW R, NEW rules \in Seq(R), NEW r \in R, NEW q, NEW taint,
         NEW i \in Candidates(rules, q, taint), rules[i].effect = DENY
  PROVE  Evaluate(Append(rules, r), q, taint).decision = DENY
<1>1. i \in DOMAIN rules
  BY DEF Candidates
<1>2. /\ i \in Candidates(Append(rules, r), q, taint)
      /\ Append(rules, r)[i].effect = DENY
  BY <1>1, AppendedCandidates
<1> QED
  BY <1>2, MatchingDenyDenies

\* The same for agent-to-agent calls: an ALLOW has a matching ALLOW rule for
\* exactly that pair and action, and no matching DENY rule.
THEOREM EastWestAllowHasRule ==
  ASSUME NEW rules, NEW source, NEW dest, NEW action,
         EvaluateEastWest(rules, source, dest, action).decision = ALLOW
  PROVE  LET S == EastWestCandidates(rules, source, dest, action)
         IN (\E i \in S : rules[i].effect = ALLOW) /\ (\A i \in S : rules[i].effect # DENY)
BY DenyIsNotAllow DEF EvaluateEastWest, OfEffect, Result

-----------------------------------------------------------------------------
(* The rule that wins.                                                     *)

\* Induction over the naturals, for a set instead of a predicate.
LEMMA NatSetInduction ==
  ASSUME NEW S, 0 \in S, \A n \in Nat : n \in S => n + 1 \in S
  PROVE  Nat \subseteq S
<1> DEFINE T == Nat \ S
           R == {p \in Nat \X Nat : p[1] < p[2]}
<1> SUFFICES ASSUME T # {} PROVE FALSE
  OBVIOUS
<1>1. IsWellFoundedOn(R, Nat)
  BY NatLessThanWellFounded DEF OpToRel
<1>2. T \subseteq Nat
  OBVIOUS
<1>3. PICK x \in T : \A y \in T : ~ (<<y, x>> \in R)
  <2> HIDE DEF T, R
  <2> QED
    BY <1>1, <1>2, WFMin
<1>4. \A y \in T : ~ (y < x)
  BY <1>3
<1>5. x \in Nat /\ x # 0 /\ x - 1 \in Nat
  OBVIOUS
<1>6. x - 1 \in S
  BY <1>4, <1>5
<1> QED
  BY <1>5, <1>6

LEMMA PrecedesIsOrder ==
  ASSUME NEW rules, NEW i \in Int, NEW j \in Int, NEW k \in Int,
         \A x \in {i, j, k} : rules[x].priority \in Int /\ rules[x].id \in Int
  PROVE  /\ Precedes(rules, i, i)
         /\ Precedes(rules, i, j) \/ Precedes(rules, j, i)
         /\ Precedes(rules, i, j) /\ Precedes(rules, j, k) => Precedes(rules, i, k)
         /\ Precedes(rules, i, j) /\ Precedes(rules, j, i) => i = j
BY DEF Precedes

\* min() finds its rule: whatever the bundle, a nonempty set of its rules has
\* one that precedes them all.
LEMMA WinnerExists ==
  ASSUME NEW rules, NEW n \in Nat, NEW S \in SUBSET (1 .. n), S # {},
         \A i \in S : rules[i].priority \in Int /\ rules[i].id \in Int
  PROVE  /\ PickWinner(rules, S) \in S
         /\ \A j \in S : Precedes(rules, PickWinner(rules, S), j)
<1> DEFINE HasFirst(T) == \E i \in T : \A j \in T : Precedes(rules, i, j)
           G == {m \in Nat : \A T \in SUBSET S : T \subseteq 1 .. m /\ T # {} => HasFirst(T)}
<1>1. 0 \in G
  <2>1. 1 .. 0 = {}
    OBVIOUS
  <2>2. \A T \in SUBSET S : ~ (T \subseteq 1 .. 0 /\ T # {})
    BY <2>1
  <2> QED
    BY <2>2
<1>2. ASSUME NEW m \in Nat, m \in G PROVE m + 1 \in G
  <2> SUFFICES ASSUME NEW T \in SUBSET S, T \subseteq 1 .. m + 1, T # {}
               PROVE  HasFirst(T)
    OBVIOUS
  <2>1. CASE m + 1 \notin T
    <3>1. T \subseteq 1 .. m
      BY <2>1
    <3> QED
      BY <1>2, <3>1
  <2>2. CASE T = {m + 1}
    BY <2>2, PrecedesIsOrder
  <2>3. CASE m + 1 \in T /\ T # {m + 1}
    <3> DEFINE U == T \ {m + 1}
    <3>1. U \in SUBSET S /\ U \subseteq 1 .. m /\ U # {}
      BY <2>3
    <3>2. PICK i \in U : \A j \in U : Precedes(rules, i, j)
      BY <1>2, <3>1
    <3>3. CASE Precedes(rules, i, m + 1)
      BY <3>2, <3>3
    <3>4. CASE ~ Precedes(rules, i, m + 1)
      <4>1. Precedes(rules, m + 1, i)
        BY <2>3, <3>1, <3>4, PrecedesIsOrder
      <4>2. \A j \in U : Precedes(rules, m + 1, j)
        BY <2>3, <3>1, <3>2, <4>1, PrecedesIsOrder
      <4>3. Precedes(rules, m + 1, m + 1)
        BY <2>3, PrecedesIsOrder
      <4> QED
        BY <2>3, <4>2, <4>3
    <3> QED
      BY <3>3, <3>4
  <2> QED
    BY <2>1, <2>2, <2>3
<1>3. Nat \subseteq G
  <2> HIDE DEF G
  <2> QED
    BY <1>1, <1>2, NatSetInduction
<1>4. HasFirst(S)
  BY <1>3
<1> QED
  BY <1>4 DEF PickWinner
=============================================================================
