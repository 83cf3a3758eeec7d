---------------------------- MODULE MCRiskScorer ----------------------------
(***************************************************************************)
(* Instances of RiskScorer: two workloads, requests that differ in tool,   *)
(* destination and verdict, and a baseline with a role of its own.         *)
(***************************************************************************)
EXTENDS RiskScorer, TLC

CONSTANTS c1, c2, c3

Symmetry == Permutations(Calls)

Request(agent, role, tool, destination, denied) ==
  [agent |-> agent, role |-> role, tool |-> tool, destination |-> destination, denied |-> denied]

Get     == Request("agent", "research", "http.get", "news", FALSE)
Post    == Request("agent", "research", "http.post", "news", TRUE)
Invoke  == Request("agent", "research", "agent.invoke", NoDestination, TRUE)
Finance == Request("finance", "finance", "http.get", "news", FALSE)

MCRequests == [times        |-> {Get, Finance},
               destinations |-> {Get, Post, Invoke, Finance},
               bigrams      |-> {Get, Post, Finance},
               streaks      |-> {Get, Post, Finance}]

\* The line of a role without a service has no agent.
MCBaseline ==
  <<Request("agent", "research", "http.get", "news", FALSE),
    Request("none", "admin", "db.query", "ledger", FALSE),
    Request("agent", "research", "http.post", "arxiv", FALSE)>>
=============================================================================
