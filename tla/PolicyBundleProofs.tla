------------------------- MODULE PolicyBundleProofs -------------------------
(***************************************************************************)
(* The properties of PolicyBundle, for every set of rules and queries and  *)
(* bundles of any length.  OrderIndependence and ShadowedNeverDecides rest *)
(* on WinnerExists: min() finds a rule, and with distinct identifiers only *)
(* one.                                                                    *)
(***************************************************************************)
EXTENDS PolicyBundle, PolicyEngineProofs, FiniteSetTheorems

\* A verdict in a clean session, without the winner.
LEMMA CleanVerdict ==
  ASSUME NEW s, NEW q
  PROVE  Evaluate(s, q, "clean").decision = ALLOW <=>
           /\ OfEffect(s, Candidates(s, q, "clean"), ALLOW) # {}
           /\ OfEffect(s, Candidates(s, q, "clean"), DENY) = {}
<1>1. "clean" # "tainted"
  OBVIOUS
<1> QED
  BY <1>1, DenyIsNotAllow DEF Evaluate, Result, TaintCeiling

LEMMA EastWestVerdict ==
  ASSUME NEW s, NEW source, NEW dest, NEW action,
         OfEffect(s, EastWestCandidates(s, source, dest, action), DENY) # {}
  PROVE  EvaluateEastWest(s, source, dest, action).decision = DENY
BY DEF EvaluateEastWest, Result

LEMMA AppendedEastWest ==
  ASSUME NEW R, NEW s \in Seq(R), NEW r \in R, NEW source, NEW dest, NEW action,
         OfEffect(s, EastWestCandidates(s, source, dest, action), DENY) # {}
  PROVE  OfEffect(Append(s, r), EastWestCandidates(Append(s, r), source, dest, action), DENY) # {}
<1>1. PICK i \in DOMAIN s : /\ i \in EastWestCandidates(s, source, dest, action)
                            /\ s[i].effect = DENY
  BY DEF OfEffect, EastWestCandidates
<1>2. Append(s, r)[i] = s[i] /\ i \in DOMAIN Append(s, r)
  OBVIOUS
<1> QED
  BY <1>1, <1>2 DEF OfEffect, EastWestCandidates

LEMMA TablesAreSequences == Spec => [](rules \in Seq(Rules) /\ table \in Seq(EastWestRules))
<1> DEFINE I == rules \in Seq(Rules) /\ table \in Seq(EastWestRules)
<1>1. Init => I
  BY DEF Init
<1>2. I /\ [Next]_vars => I'
  <2> SUFFICES ASSUME I, [Next]_vars PROVE I'
    OBVIOUS
  <2>1. ASSUME NEW r \in Rules, AddRule(r) PROVE I'
    BY <2>1 DEF AddRule
  <2>2. ASSUME NEW r \in EastWestRules, AddEastWestRule(r) PROVE I'
    BY <2>2 DEF AddEastWestRule
  <2>3. CASE UNCHANGED vars
    BY <2>3 DEF vars
  <2> QED
    BY <2>1, <2>2, <2>3 DEF Next
<1> QED
  BY <1>1, <1>2, PTL DEF Spec

\* The taint ceiling of evaluate() holds of every bundle anyone can write.
THEOREM TaintedNeverWritesOutHolds == Spec => []TaintedNeverWritesOut
<1>1. TaintedNeverWritesOut
  BY TaintedWriteIsDenied DEF TaintedNeverWritesOut
<1> QED
  BY <1>1, PTL

\* A bundle that allows nothing to the tainted alone and denies nothing to the
\* clean alone never gives a tainted session more than a clean one.
THEOREM TaintNarrowsHolds == Spec => []TaintNarrows
<1>1. TaintNarrows
  <2> SUFFICES ASSUME \A i \in DOMAIN rules :
                 /\ rules[i].effect = ALLOW /\ MatchesTaint(rules[i], "tainted")
                      => MatchesTaint(rules[i], "clean")
                 /\ rules[i].effect = DENY /\ MatchesTaint(rules[i], "clean")
                      => MatchesTaint(rules[i], "tainted"),
                 NEW q \in Queries,
                 Evaluate(rules, q, "tainted").decision = ALLOW
               PROVE Evaluate(rules, q, "clean").decision = ALLOW
    <3>1. \A q, t : \/ Evaluate(rules, q, t).decision = DENY
                    \/ Evaluate(rules, q, t).decision = ALLOW
      BY VerdictIsBinary
    <3>2. DENY = 0 /\ ALLOW = 5
      BY DEF DENY, ALLOW
    <3> QED
      BY <3>1, <3>2 DEF TaintNarrows
  <2>1. PICK i \in Candidates(rules, q, "tainted") : rules[i].effect = ALLOW
    BY AllowHasRule
  <2>2. i \in OfEffect(rules, Candidates(rules, q, "clean"), ALLOW)
    BY <2>1 DEF Candidates, OfEffect
  <2>3. \A j \in Candidates(rules, q, "tainted") : rules[j].effect # DENY
    BY AllowHasRule
  <2>4. OfEffect(rules, Candidates(rules, q, "clean"), DENY) = {}
    BY <2>3 DEF Candidates, OfEffect
  <2> QED
    BY <2>2, <2>4, CleanVerdict
<1> QED
  BY <1>1, PTL

\* No later rule, of any priority, lets through what a DENY rule stops.
THEOREM DenialsSurviveEditsHolds == Spec => DenialsSurviveEdits
<1> DEFINE I == rules \in Seq(Rules) /\ table \in Seq(EastWestRules)
           NorthSouth == \A q \in Queries, t \in Taints :
             OfEffect(rules, Candidates(rules, q, t), DENY) # {}
               => Evaluate(rules', q, t).decision = DENY
           EastWest == \A c \in Pairs :
             OfEffect(table, EastWestCandidates(table, c.source, c.dest, c.action), DENY) # {}
               => EvaluateEastWest(table', c.source, c.dest, c.action).decision = DENY
<1>1. I /\ [Next]_vars => NorthSouth /\ EastWest
  <2> SUFFICES ASSUME I, [Next]_vars PROVE NorthSouth /\ EastWest
    OBVIOUS
  <2>1. NorthSouth
    <3> SUFFICES ASSUME NEW q \in Queries, NEW t \in Taints,
                        OfEffect(rules, Candidates(rules, q, t), DENY) # {}
                 PROVE  Evaluate(rules', q, t).decision = DENY
      OBVIOUS
    <3>1. PICK i \in Candidates(rules, q, t) : rules[i].effect = DENY
      BY DEF OfEffect
    <3>2. ASSUME NEW r \in Rules, rules' = Append(rules, r)
          PROVE  Evaluate(rules', q, t).decision = DENY
      BY <3>1, <3>2, AppendKeepsDeny
    <3>3. ASSUME rules' = rules PROVE Evaluate(rules', q, t).decision = DENY
      BY <3>1, <3>3, MatchingDenyDenies
    <3> QED
      BY <3>2, <3>3 DEF Next, AddRule, AddEastWestRule, vars
  <2>2. EastWest
    <3> SUFFICES ASSUME NEW c \in Pairs,
                 OfEffect(table, EastWestCandidates(table, c.source, c.dest, c.action), DENY) # {}
                 PROVE EvaluateEastWest(table', c.source, c.dest, c.action).decision = DENY
      OBVIOUS
    <3>1. ASSUME NEW r \in EastWestRules, table' = Append(table, r)
          PROVE  EvaluateEastWest(table', c.source, c.dest, c.action).decision = DENY
      BY <3>1, AppendedEastWest, EastWestVerdict
    <3>2. ASSUME table' = table
          PROVE  EvaluateEastWest(table', c.source, c.dest, c.action).decision = DENY
      BY <3>2, EastWestVerdict
    <3> QED
      BY <3>1, <3>2 DEF Next, AddRule, AddEastWestRule, vars
  <2> QED
    BY <2>1, <2>2
<1> QED
  BY <1>1, TablesAreSequences, PTL DEF Spec, DenialsSurviveEdits

\* In a clean session only a DENY rule takes a permission away.
THEOREM AllowsAddUpHolds == Spec => AllowsAddUp
<1> DEFINE I == rules \in Seq(Rules) /\ table \in Seq(EastWestRules)
           AddUp == \A q \in Queries :
             (/\ Evaluate(rules, q, "clean").decision = ALLOW
              /\ Evaluate(rules', q, "clean").decision = DENY)
               => rules'[Len(rules')].effect = DENY
<1>1. I /\ [Next]_vars => AddUp
  <2> SUFFICES ASSUME I, [Next]_vars, NEW q \in Queries,
                      Evaluate(rules, q, "clean").decision = ALLOW,
                      Evaluate(rules', q, "clean").decision = DENY
               PROVE  rules'[Len(rules')].effect = DENY
    OBVIOUS
  <2>1. rules' # rules
    BY DenyIsNotAllow
  <2>2. PICK r \in Rules : rules' = Append(rules, r)
    BY <2>1 DEF Next, AddRule, AddEastWestRule, vars
  <2>3. rules'[Len(rules')] = r /\ DOMAIN rules' = DOMAIN rules \union {Len(rules')}
    BY <2>2
  <2>4. SUFFICES ASSUME r.effect # DENY PROVE FALSE
    BY <2>3
  <2>5. PICK i \in Candidates(rules, q, "clean") : rules[i].effect = ALLOW
    BY AllowHasRule
  <2>6. i \in OfEffect(rules', Candidates(rules', q, "clean"), ALLOW)
    <3>1. i \in DOMAIN rules
      BY DEF Candidates
    <3> QED
      BY <2>2, <2>5, <3>1, AppendedCandidates DEF OfEffect
  <2>7. OfEffect(rules', Candidates(rules', q, "clean"), DENY) = {}
    <3> SUFFICES ASSUME NEW j \in Candidates(rules', q, "clean"), rules'[j].effect = DENY
                 PROVE FALSE
      BY DEF OfEffect
    <3>1. j \in DOMAIN rules
      BY <2>3, <2>4 DEF Candidates
    <3>2. j \in Candidates(rules, q, "clean") /\ rules[j].effect = DENY
      BY <2>2, <3>1, AppendedCandidates
    <3> QED
      BY <3>2, AllowHasRule
  <2> QED
    BY <2>6, <2>7, CleanVerdict, DenyIsNotAllow
<1> QED
  BY <1>1, TablesAreSequences, PTL DEF Spec, AllowsAddUp

-----------------------------------------------------------------------------
(* The order of the file.                                                  *)

\* A rule table as the engine has it: numbered from 1, with identifiers and
\* priorities that can be compared.
IsTable(s) ==
  /\ \E n \in Nat : DOMAIN s = 1 .. n
  /\ \A i \in DOMAIN s : s[i].id \in Nat \ {DEFAULT_DENY} /\ s[i].priority \in Int

LEMMA TableOfRules ==
  ASSUME NEW s \in Seq(Rules) \union Seq(EastWestRules)
  PROVE  IsTable(s)
<1>1. PICK n \in Nat : DOMAIN s = 1 .. n
  OBVIOUS
<1>2. \A i \in DOMAIN s : s[i] \in Rules \union EastWestRules
  OBVIOUS
<1>3. \A i \in DOMAIN s : s[i].id \in Nat \ {DEFAULT_DENY} /\ s[i].priority \in Int
  BY <1>2, RulesAssumption, Zenon
<1> QED
  BY <1>1, <1>3 DEF IsTable

\* What min() finds among some rules of a table.
LEMMA Winner ==
  ASSUME NEW s, IsTable(s), NEW S \in SUBSET DOMAIN s, S # {}
  PROVE  /\ PickWinner(s, S) \in S
         /\ \A j \in S : Precedes(s, PickWinner(s, S), j)
<1>1. PICK n \in Nat : DOMAIN s = 1 .. n
  BY DEF IsTable
<1>2. S \in SUBSET (1 .. n) /\ \A i \in S : s[i].priority \in Int /\ s[i].id \in Int
  BY <1>1 DEF IsTable
<1> QED
  BY <1>2, WinnerExists

\* With distinct identifiers, only one rule precedes all of them.
LEMMA OneWinner ==
  ASSUME NEW s, IsTable(s), NEW S \in SUBSET DOMAIN s, NEW i \in S,
         \A j \in S : Precedes(s, i, j)
  PROVE  PickWinner(s, S) = i
<1> DEFINE w == PickWinner(s, S)
<1>1. w \in S /\ \A j \in S : Precedes(s, w, j)
  BY Winner
<1> HIDE DEF w
<1>2. Precedes(s, i, w) /\ Precedes(s, w, i)
  BY <1>1
<1>3. i \in Int /\ w \in Int /\ \A x \in {i, w} : s[x].priority \in Int /\ s[x].id \in Int
  BY <1>1 DEF IsTable
<1>4. w = i
  BY <1>2, <1>3, PrecedesIsOrder
<1> QED
  BY <1>4 DEF w

\* A reordering reaches every rule.
LEMMA OrderIsOnto ==
  ASSUME NEW s, IsTable(s), NEW p \in Orders(s), NEW j \in DOMAIN s
  PROVE  \E i \in DOMAIN s : p[i] = j
<1>1. PICK n \in Nat : DOMAIN s = 1 .. n
  BY DEF IsTable
<1>2. IsFiniteSet(DOMAIN s)
  BY <1>1, FS_Interval
<1>3. p \in Injection(DOMAIN s, DOMAIN s)
  BY DEF Orders, Injection, IsInjective
<1>4. p \in Surjection(DOMAIN s, DOMAIN s)
  BY <1>2, <1>3, FS_Injection
<1> QED
  BY <1>4 DEF Surjection

\* Reordering the file does not change which rule wins among some of them.
LEMMA ReorderedWinner ==
  ASSUME NEW s, IsTable(s), UniqueIds(s), NEW p \in Orders(s),
         NEW S \in SUBSET DOMAIN s, NEW T, T = {i \in DOMAIN s : p[i] \in S}
  PROVE  /\ S = {} <=> T = {}
         /\ S # {} => Reordered(s, p)[PickWinner(Reordered(s, p), T)] = s[PickWinner(s, S)]
<1> DEFINE R == Reordered(s, p)
           w == PickWinner(R, T)
<1>1. /\ p \in [DOMAIN s -> DOMAIN s]
      /\ DOMAIN R = DOMAIN s /\ \A i \in DOMAIN s : R[i] = s[p[i]]
  BY DEF Orders, Reordered
<1>2. \A j \in S : \E i \in T : p[i] = j
  BY OrderIsOnto
<1>3. S = {} <=> T = {}
  BY <1>2
<1>4. ASSUME S # {} PROVE R[w] = s[PickWinner(s, S)]
  <2>1. IsTable(R) /\ T \in SUBSET DOMAIN R
    BY <1>1 DEF IsTable
  <2>2. w \in T /\ \A i \in T : Precedes(R, w, i)
    BY <1>3, <1>4, <2>1, Winner
  <2> HIDE DEF R, w
  <2>3. p[w] \in S /\ w \in DOMAIN s
    BY <2>2
  <2>4. ASSUME NEW j \in S PROVE Precedes(s, p[w], j)
    <3>1. PICK i \in T : p[i] = j
      BY <1>2
    <3>2. Precedes(R, w, i) /\ R[w] = s[p[w]] /\ R[i] = s[j]
      BY <1>1, <2>2, <2>3, <3>1
    <3>3. s[p[w]].id = s[j].id => p[w] = j
      BY <2>3 DEF UniqueIds
    <3>4. p[w] \in Int /\ j \in Int
      BY <2>3 DEF IsTable
    <3> QED
      BY <3>2, <3>3, <3>4 DEF Precedes
  <2>5. PickWinner(s, S) = p[w]
    BY <2>3, <2>4, OneWinner
  <2> QED
    BY <1>1, <2>3, <2>5
<1> QED
  BY <1>3, <1>4
\* So that evaluate() does not see the order, and evaluate_east_west() neither.
LEMMA EvaluateReordered ==
  ASSUME NEW s, IsTable(s), UniqueIds(s), NEW p \in Orders(s), NEW q, NEW t
  PROVE  Evaluate(Reordered(s, p), q, t) = Evaluate(s, q, t)
<1> DEFINE R == Reordered(s, p)
           C == Candidates(s, q, t)
           D == Candidates(R, q, t)
<1>1. /\ p \in [DOMAIN s -> DOMAIN s] /\ DOMAIN R = DOMAIN s
      /\ \A i \in DOMAIN s : R[i] = s[p[i]]
  BY DEF Orders, Reordered
<1>2. \A i \in DOMAIN s : i \in D <=> p[i] \in C
  BY <1>1 DEF Candidates
<1>3. C \subseteq DOMAIN s /\ D \subseteq DOMAIN s
  BY <1>1 DEF Candidates
<1> HIDE DEF R, C, D
<1>4. \A e : /\ OfEffect(s, C, e) \in SUBSET DOMAIN s
             /\ OfEffect(R, D, e) = {i \in DOMAIN s : p[i] \in OfEffect(s, C, e)}
  BY <1>1, <1>2, <1>3 DEF OfEffect
<1>5. \A e : /\ OfEffect(s, C, e) = {} <=> OfEffect(R, D, e) = {}
             /\ OfEffect(s, C, e) # {} => R[PickWinner(R, OfEffect(R, D, e))]
                                            = s[PickWinner(s, OfEffect(s, C, e))]
  BY <1>4, ReorderedWinner DEF R
<1>6. Evaluate(R, q, t) = Evaluate(s, q, t)
  BY <1>5 DEF Evaluate, C, D
<1> QED
  BY <1>6 DEF R

LEMMA EastWestReordered ==
  ASSUME NEW s, IsTable(s), UniqueIds(s), NEW p \in Orders(s),
         NEW source, NEW dest, NEW action
  PROVE  EvaluateEastWest(Reordered(s, p), source, dest, action)
           = EvaluateEastWest(s, source, dest, action)
<1> DEFINE R == Reordered(s, p)
           C == EastWestCandidates(s, source, dest, action)
           D == EastWestCandidates(R, source, dest, action)
<1>1. /\ p \in [DOMAIN s -> DOMAIN s] /\ DOMAIN R = DOMAIN s
      /\ \A i \in DOMAIN s : R[i] = s[p[i]]
  BY DEF Orders, Reordered
<1>2. \A i \in DOMAIN s : i \in D <=> p[i] \in C
  BY <1>1 DEF EastWestCandidates
<1>3. C \subseteq DOMAIN s /\ D \subseteq DOMAIN s
  BY <1>1 DEF EastWestCandidates
<1> HIDE DEF R, C, D
<1>4. \A e : /\ OfEffect(s, C, e) \in SUBSET DOMAIN s
             /\ OfEffect(R, D, e) = {i \in DOMAIN s : p[i] \in OfEffect(s, C, e)}
  BY <1>1, <1>2, <1>3 DEF OfEffect
<1>5. \A e : /\ OfEffect(s, C, e) = {} <=> OfEffect(R, D, e) = {}
             /\ OfEffect(s, C, e) # {} => R[PickWinner(R, OfEffect(R, D, e))]
                                            = s[PickWinner(s, OfEffect(s, C, e))]
  BY <1>4, ReorderedWinner DEF R
<1>6. EvaluateEastWest(R, source, dest, action) = EvaluateEastWest(s, source, dest, action)
  BY <1>5 DEF EvaluateEastWest, C, D
<1> QED
  BY <1>6 DEF R

\* Determinism, for every bundle: with distinct identifiers the order of the
\* file decides nothing (policy/engine.py's sort key).
THEOREM OrderIndependenceHolds == Spec => []OrderIndependence
<1>1. rules \in Seq(Rules) /\ table \in Seq(EastWestRules) => OrderIndependence
  <2> SUFFICES ASSUME rules \in Seq(Rules), table \in Seq(EastWestRules)
               PROVE  OrderIndependence
    OBVIOUS
  <2>1. IsTable(rules) /\ IsTable(table)
    BY TableOfRules
  <2> QED
    BY <2>1, EvaluateReordered, EastWestReordered DEF OrderIndependence
<1> QED
  BY <1>1, TablesAreSequences, PTL

-----------------------------------------------------------------------------
(* Shadowed rules.                                                         *)

\* The rule behind a verdict's policy_id: it is a candidate, and it precedes
\* every candidate of its effect; an ALLOW rule decides without any DENY.
LEMMA DecidingRule ==
  ASSUME NEW s, IsTable(s), UniqueIds(s), NEW q, NEW t, NEW i \in DOMAIN s,
         Evaluate(s, q, t).policy_id = s[i].id
  PROVE  LET C == Candidates(s, q, t)
         IN /\ i \in C /\ s[i].effect \in {DENY, ALLOW}
            /\ \A j \in C : s[j].effect = s[i].effect => Precedes(s, i, j)
            /\ s[i].effect = ALLOW => \A j \in C : s[j].effect # DENY
<1> DEFINE C == Candidates(s, q, t)
           Chosen(e) == PickWinner(s, OfEffect(s, C, e))
<1>1. C \subseteq DOMAIN s
  BY DEF Candidates
<1>2. \A e : OfEffect(s, C, e) \in SUBSET DOMAIN s /\ OfEffect(s, C, e) \subseteq C
  BY <1>1 DEF OfEffect
<1>3. \A e : OfEffect(s, C, e) # {} =>
               /\ Chosen(e) \in OfEffect(s, C, e)
               /\ \A j \in OfEffect(s, C, e) : Precedes(s, Chosen(e), j)
  BY <1>2, Winner
<1>4. s[i].id # DEFAULT_DENY
  BY DEF IsTable
<1>5. CASE OfEffect(s, C, DENY) # {}
  <2>1. s[i].id = s[Chosen(DENY)].id
    BY <1>5 DEF Evaluate, Result
  <2> HIDE DEF C, Chosen
  <2>2. i = Chosen(DENY)
    BY <1>2, <1>3, <1>5, <2>1 DEF UniqueIds
  <2> QED
    BY <1>2, <1>3, <1>5, <2>2, DenyIsNotAllow DEF OfEffect, C
<1>6. CASE OfEffect(s, C, DENY) = {} /\ OfEffect(s, C, ALLOW) # {}
  <2>1. s[i].id = s[Chosen(ALLOW)].id
    BY <1>6 DEF Evaluate, Result
  <2> HIDE DEF C, Chosen
  <2>2. i = Chosen(ALLOW)
    BY <1>2, <1>3, <1>6, <2>1 DEF UniqueIds
  <2> QED
    BY <1>2, <1>3, <1>6, <2>2, DenyIsNotAllow DEF OfEffect, C
<1>7. CASE OfEffect(s, C, DENY) = {} /\ OfEffect(s, C, ALLOW) = {}
  BY <1>4, <1>7 DEF Evaluate, Result
<1> QED
  BY <1>5, <1>6, <1>7

\* A rule that another, unconditional on taint, is said to shadow decides no
\* request (policy/compiler.py's SHADOWED_RULE).
THEOREM ShadowedNeverDecidesHolds == Spec => []ShadowedNeverDecides
<1>1. rules \in Seq(Rules) => ShadowedNeverDecides
  <2> SUFFICES ASSUME rules \in Seq(Rules), UniqueIds(rules),
                      NEW w \in ShadowWarnings(rules), rules[w[2]].session_taint = {},
                      NEW q \in Queries, NEW t \in Taints,
                      Evaluate(rules, q, t).policy_id = rules[w[1]].id
               PROVE  FALSE
    BY DEF ShadowedNeverDecides
  <2> DEFINE i == w[1]
             j == w[2]
             C == Candidates(rules, q, t)
  <2>1. IsTable(rules)
    BY TableOfRules
  <2>2. i \in DOMAIN rules /\ j \in DOMAIN rules /\ Shadows(rules, j, i)
    BY DEF ShadowWarnings
  <2> HIDE DEF i, j
  <2>3. /\ i \in C /\ rules[i].effect \in {DENY, ALLOW}
        /\ \A k \in C : rules[k].effect = rules[i].effect => Precedes(rules, i, k)
        /\ rules[i].effect = ALLOW => \A k \in C : rules[k].effect # DENY
    BY <2>1, <2>2, DecidingRule DEF i
  <2>4. j \in C
    BY <2>2, <2>3 DEF Candidates, Shadows, Unrestricted, MatchesTarget, MatchesTaint, j
  <2>5. rules[j].effect = rules[i].effect /\ Outranks(rules[j], rules[i])
    BY <2>2, <2>3, <2>4 DEF Shadows
  <2>6. Precedes(rules, i, j)
    BY <2>3, <2>4, <2>5
  <2> QED
    BY <2>1, <2>2, <2>5, <2>6 DEF Precedes, Outranks, IsTable
<1> QED
  BY <1>1, TablesAreSequences, PTL
=============================================================================
