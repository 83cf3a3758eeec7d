---------------------------- MODULE PolicyBundle ----------------------------
(***************************************************************************)
(* A policy bundle under authorship: rules are appended to the two tables  *)
(* of a bundle file, and after every edit every request is evaluated       *)
(* (policy/engine.py) and the bundle is compiled (policy/compiler.py).     *)
(* A property of every reachable state is thus a property of every bundle  *)
(* over the given rules; an action property compares a bundle with the     *)
(* same bundle one rule longer.                                            *)
(***************************************************************************)
EXTENDS PolicyCompiler, FiniteSets

CONSTANTS
  Rules,          \* rules an author may write
  EastWestRules,  \* the same for agent-to-agent calls
  Queries,        \* requests [role, tool, fqdn, resource]
  Pairs,          \* agent-to-agent calls [source, dest, action]
  MaxRules        \* bound on the length of a bundle, both tables together

\* No rule has the identifier of the verdict without one.
ASSUME RulesAssumption ==
  \A r \in Rules \union EastWestRules : r.id \in Nat \ {DEFAULT_DENY} /\ r.priority \in Int

VARIABLES rules, table

vars == <<rules, table>>

Init == rules = <<>> /\ table = <<>>

Room == Len(rules) + Len(table) < MaxRules

AddRule(r) == Room /\ rules' = Append(rules, r) /\ UNCHANGED table

AddEastWestRule(r) == Room /\ table' = Append(table, r) /\ UNCHANGED rules

Next == \/ \E r \in Rules : AddRule(r)
        \/ \E r \in EastWestRules : AddEastWestRule(r)

Spec == Init /\ [][Next]_vars

-----------------------------------------------------------------------------
UniqueIds(s) == \A i, j \in DOMAIN s : s[i].id = s[j].id => i = j

Orders(s) == {p \in [DOMAIN s -> DOMAIN s] : \A i, j \in DOMAIN s : p[i] = p[j] => i = j}

Reordered(s, p) == [i \in DOMAIN s |-> s[p[i]]]

\* Determinism (AGENTFW_CONTEXT.md section 3.3), strongest form: with distinct
\* identifiers the verdict, its policy_id and its inspect flag do not depend on
\* the order of the file at all.
OrderIndependence ==
  /\ UniqueIds(rules) =>
       \A p \in Orders(rules), q \in Queries, t \in Taints :
         Evaluate(Reordered(rules, p), q, t) = Evaluate(rules, q, t)
  /\ UniqueIds(table) =>
       \A p \in Orders(table), c \in Pairs :
         EvaluateEastWest(Reordered(table, p), c.source, c.dest, c.action)
           = EvaluateEastWest(table, c.source, c.dest, c.action)

\* Deny overrides, across edits: what a DENY rule stops, no rule added later
\* lets through, of whatever priority and in either table.
DenialsSurviveEdits ==
  [][/\ \A q \in Queries, t \in Taints :
          OfEffect(rules, Candidates(rules, q, t), DENY) # {}
            => Evaluate(rules', q, t).decision = DENY
     /\ \A c \in Pairs :
          OfEffect(table, EastWestCandidates(table, c.source, c.dest, c.action), DENY) # {}
            => EvaluateEastWest(table', c.source, c.dest, c.action).decision = DENY]_vars

\* In a clean session a further ALLOW rule never takes a permission away.  (In
\* a tainted one it can: it may win with a higher data class.)
AllowsAddUp ==
  [][\A q \in Queries :
       (/\ Evaluate(rules, q, "clean").decision = ALLOW
        /\ Evaluate(rules', q, "clean").decision = DENY)
         => rules'[Len(rules')].effect = DENY]_vars

\* The structural taint ceiling: no bundle lets a tainted session write out.
TaintedNeverWritesOut ==
  \A q \in Queries : q.tool \in WRITE_TOOLS => Evaluate(rules, q, "tainted").decision = DENY

\* Taint only narrows, for an author who never allows the tainted alone and
\* never denies the clean alone - which is all the discipline it takes.
TaintNarrows ==
  (\A i \in DOMAIN rules : LET r == rules[i] IN
     /\ r.effect = ALLOW /\ MatchesTaint(r, "tainted") => MatchesTaint(r, "clean")
     /\ r.effect = DENY  /\ MatchesTaint(r, "clean") => MatchesTaint(r, "tainted"))
  => \A q \in Queries :
       Evaluate(rules, q, "tainted").decision <= Evaluate(rules, q, "clean").decision

\* A rule reported as shadowed by a rule without a taint condition decides
\* nothing: deleting it changes no verdict's policy_id.
ShadowedNeverDecides ==
  UniqueIds(rules) =>
    \A w \in ShadowWarnings(rules) : rules[w[2]].session_taint = {} =>
      \A q \in Queries, t \in Taints :
        Evaluate(rules, q, t).policy_id # rules[w[1]].id
=============================================================================
