--------------------------- MODULE MCPolicyBundle ---------------------------
(***************************************************************************)
(* Bundles of up to MaxRules rules over one role: reads and writes, with   *)
(* and without a target, a taint condition and a high data class, at two   *)
(* priorities and with identifiers that may clash.                         *)
(***************************************************************************)
EXTENDS PolicyBundle

Rule(id, priority, tool, effect, destination, taint, class) ==
  [id |-> id, priority |-> priority, role |-> "agent", tool |-> tool,
   effect |-> effect, critical_path |-> TRUE, destination |-> destination,
   resource |-> {}, session_taint |-> taint, max_data_class |-> class,
   inspect |-> class = "secret"]

Http == {"http.get", "http.post"}
News == {{"news"}}

RulePool ==
  UNION {{Rule(id, p, Http, ALLOW, {}, {}, "internal"),
          Rule(id, p, {"http.get"}, ALLOW, News, {}, "secret"),
          Rule(id, p, {"http.post"}, ALLOW, {}, {{"clean"}}, "internal"),
          Rule(id, p, Http, DENY, News, {}, "internal"),
          Rule(id, p, {"http.post"}, DENY, {}, {{"tainted"}}, "internal"),
          Rule(id, p, Http, DENY, {}, {}, "internal")} : id \in 1 .. 3, p \in {100, 200}}

EastWestPool ==
  {[id |-> id, priority |-> p, source_workload |-> s, dest_workload |-> "finance",
    action |-> "ask", effect |-> e] :
      id \in 1 .. 2, p \in {100, 200}, s \in {"*", "agent"}, e \in {ALLOW, DENY}}

AllQueries ==
  {[role |-> "agent", tool |-> tool, fqdn |-> host, resource |-> NoTarget] :
     tool \in Http, host \in {"news", "other"}}

AllPairs == {[source |-> s, dest |-> d, action |-> "ask"] :
               s \in {"agent", "support"}, d \in {"finance", "support"}}
=============================================================================
