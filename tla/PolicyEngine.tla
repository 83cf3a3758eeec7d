---------------------------- MODULE PolicyEngine ----------------------------
(***************************************************************************)
(* policy/engine.py: the evaluation of one request against a bundle.       *)
(*                                                                         *)
(* A bundle is a sequence of rules in file order.  An identifier stands    *)
(* for its rank among the identifiers in lexicographic order, a glob       *)
(* pattern for the set of names it matches, and an optional field of a     *)
(* rule (Python's None, or a value) for the empty set or the singleton of  *)
(* its value.  No target is the model value-like string "none".            *)
(***************************************************************************)
EXTENDS Lattice, Sequences

WRITE_TOOLS       == {"http.post", "email.send"}
HIGH_DATA_CLASSES == {"confidential", "secret"}
Taints            == {"clean", "tainted"}
NoTarget          == "none"
DEFAULT_DENY      == 0      \* the policy_id when no rule matched

\* A declared destination decides alone; a resource counts only without one.
MatchesTarget(rule, fqdn, resource) ==
  \/ /\ rule.destination # {}
     /\ fqdn # NoTarget
     /\ fqdn \in UNION rule.destination
  \/ /\ rule.destination = {}
     /\ rule.resource # {}
     /\ resource # NoTarget
     /\ resource \in UNION rule.resource
  \/ rule.destination = {} /\ rule.resource = {}

MatchesTaint(rule, taint) ==
  rule.session_taint = {} \/ taint \in UNION rule.session_taint

\* Mutant: equal priorities are resolved by the order of the file.
FileOrder(rules, i, j) ==
  \/ rules[i].priority > rules[j].priority
  \/ rules[i].priority = rules[j].priority /\ i <= j

\* Sort key (-priority, id); min() keeps the first in file order of equals.
Precedes(rules, i, j) ==
  \/ rules[i].priority > rules[j].priority
  \/ /\ rules[i].priority = rules[j].priority
     /\ \/ rules[i].id < rules[j].id
        \/ rules[i].id = rules[j].id /\ i <= j

PickWinner(rules, S) == CHOOSE i \in S : \A j \in S : Precedes(rules, i, j)

Candidates(rules, q, taint) ==
  {i \in DOMAIN rules : /\ rules[i].role = q.role
                        /\ q.tool \in rules[i].tool
                        /\ MatchesTarget(rules[i], q.fqdn, q.resource)
                        /\ MatchesTaint(rules[i], taint)}

OfEffect(rules, S, effect) == {i \in S : rules[i].effect = effect}

Result(decision, policy_id, class, inspect) ==
  [decision |-> decision, policy_id |-> policy_id,
   max_data_class |-> class, inspect |-> inspect]

\* Mutants: the ceiling trusts the rule's data class; it ignores the taint;
\* its test is inverted.
ClassCeiling(rule, q, taint) ==
  taint = "tainted" /\ rule.max_data_class \in HIGH_DATA_CLASSES
UntaintedCeiling(rule, q, taint) ==
  q.tool \in WRITE_TOOLS \/ rule.max_data_class \in HIGH_DATA_CLASSES
CleanCeiling(rule, q, taint) ==
  taint = "clean" /\ UntaintedCeiling(rule, q, taint)

\* Structural, whatever the winning rule declares about taint.
TaintCeiling(rule, q, taint) ==
  /\ taint = "tainted"
  /\ q.tool \in WRITE_TOOLS \/ rule.max_data_class \in HIGH_DATA_CLASSES

\* Mutant: priority decides between ALLOW and DENY as well.
EvaluateByPriority(rules, q, taint) ==
  LET matching == Candidates(rules, q, taint)
      winner == rules[PickWinner(rules, matching)]
  IN IF matching = {} THEN Result(DENY, DEFAULT_DENY, "unset", FALSE)
     ELSE Result(IF TaintCeiling(winner, q, taint) THEN DENY ELSE winner.effect,
                 winner.id, winner.max_data_class, winner.inspect)

Evaluate(rules, q, taint) ==
  LET matching == Candidates(rules, q, taint)
      deny  == OfEffect(rules, matching, DENY)
      allow == OfEffect(rules, matching, ALLOW)
      Of(decision, rule) ==
        Result(decision, rule.id, rule.max_data_class, rule.inspect)
  IN IF deny # {} THEN Of(DENY, rules[PickWinner(rules, deny)])
     ELSE IF allow = {} THEN Result(DENY, DEFAULT_DENY, "unset", FALSE)
     ELSE LET winner == rules[PickWinner(rules, allow)]
          IN Of(IF TaintCeiling(winner, q, taint) THEN DENY ELSE ALLOW, winner)

-----------------------------------------------------------------------------
(* Agent-to-agent calls: the same resolution over another rule table.      *)

EastWestCandidates(rules, source, dest, action) ==
  {i \in DOMAIN rules : /\ rules[i].action = action
                        /\ rules[i].source_workload \in {"*", source}
                        /\ rules[i].dest_workload \in {"*", dest}}

EvaluateEastWest(rules, source, dest, action) ==
  LET matching == EastWestCandidates(rules, source, dest, action)
      deny  == OfEffect(rules, matching, DENY)
      allow == OfEffect(rules, matching, ALLOW)
      Of(decision, i) == Result(decision, rules[i].id, "unset", FALSE)
  IN IF deny # {} THEN Of(DENY, PickWinner(rules, deny))
     ELSE IF allow = {} THEN Result(DENY, DEFAULT_DENY, "unset", FALSE)
     ELSE Of(ALLOW, PickWinner(rules, allow))
=============================================================================
