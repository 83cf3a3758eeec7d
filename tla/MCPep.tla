------------------------------- MODULE MCPep -------------------------------
(***************************************************************************)
(* Small instances of Pep.  The verdicts are not made up: they are what    *)
(* PolicyEngine's Evaluate gives on a small bundle of the shape of         *)
(* policy/bundles/default.yaml, in which one role may read a news host,    *)
(* post to an inspected host in a rule that forgot its taint condition,    *)
(* may not read files, and may invoke another agent.                       *)
(***************************************************************************)
EXTENDS PepInvariant, TLC

CONSTANTS c1, c2, c3

Symmetry == Permutations(Calls)

Rule(id, priority, tool, effect, destination, inspect) ==
  [id |-> id, priority |-> priority, role |-> "agent", tool |-> tool,
   effect |-> effect, destination |-> destination, resource |-> {},
   session_taint |-> {}, max_data_class |-> "internal", inspect |-> inspect]

Bundle == << Rule(1, 100, {"http.get"}, ALLOW, {{"news", "bad"}}, FALSE),
             Rule(2, 100, {"http.post"}, ALLOW, {{"erp"}}, TRUE),
             Rule(3, 200, {"file.read"}, DENY, {}, FALSE) >>

Request(w, tool, fqdn, scan) ==
  [workload |-> w, session |-> "s", tool |-> tool, fqdn |-> fqdn,
   resource |-> NoTarget, role |-> "agent", bound |-> TRUE, wellFormed |-> TRUE,
   external |-> fqdn # NoTarget, knownBad |-> fqdn = "bad", scan |-> scan]

Get   == Request("w1", "http.get", "news", "PASS")
Post  == Request("w1", "http.post", "erp", "PASS")
Redact == Request("w1", "http.post", "erp", "REDACT")
Leak  == Request("w1", "http.post", "erp", "BLOCK")
Bad   == Request("w1", "http.get", "bad", "PASS")
Invoke == Request("w1", "agent.invoke", NoTarget, "BLOCK")
Forged   == [Get EXCEPT !.bound = FALSE]
Unparsed == [Get EXCEPT !.wellFormed = FALSE]
Other    == [Post EXCEPT !.workload = "w2"]

AllRequests  == {Get, Redact, Leak, Invoke, Bad, Forged, Unparsed}
TaintRequests == {Get, Post, Other}

EastWest == <<[id |-> 1, priority |-> 100, source_workload |-> "w1",
               dest_workload |-> "*", action |-> "invoke", effect |-> ALLOW]>>

MCVerdict ==
  [r \in Requests |-> [t \in Taints |->
     IF r.tool = "agent.invoke" THEN EvaluateEastWest(EastWest, r.workload, "w2", "invoke")
     ELSE Evaluate(Bundle, r, t)]]
=============================================================================
