---------------------------- MODULE PepInvariant ----------------------------
(***************************************************************************)
(* The inductive invariant behind Pep's safety properties.  It says, for   *)
(* each stage of a call, what the stages before it have established; TLC   *)
(* checks it on MCPep's instances and PepProofs proves it.                 *)
(***************************************************************************)
EXTENDS Pep

\* No verdict exists before the pipeline has computed one.
UndecidedInv ==
  \A c \in Calls :
    pc[c] \in {"idle", "identity", "gate", "evaluate", "logDenial", "done", "lost"}
      => decision[c] = DENY

\* What the event store, the effect and the answer know about one call.
AuditInv ==
  /\ LogOrDeny
  /\ AnswerIsTruthful
  /\ \A c \in executed : pc[c] \in {"respond", "done", "lost"}
  /\ \A c \in Calls :
       /\ pc[c] = "execute" => /\ decision[c] \in EXECUTABLE_DECISIONS
                               /\ Event(c, decision[c]) \in events
       /\ pc[c] = "respond" => (decision[c] \in EXECUTABLE_DECISIONS <=> c \in executed)
       /\ pc[c] = "done" <=> answer[c] # Gate!PENDING

\* An executable decision has every stage behind it.
AgreedInv ==
  \A c \in Calls :
    /\ (pc[c] \in {"record", "enter", "log", "execute"}
        /\ decision[c] \in EXECUTABLE_DECISIONS)
         => /\ Verdict[req[c]][seen[c]].decision = ALLOW
            /\ DlpDecision(req[c], Verdict[req[c]][seen[c]]) # DENY
            /\ band[c] \in {"LOW", "MODERATE"}
    /\ pc[c] = "record" => band[c] \in RiskBands(req[c])

TriggerInv ==
  \A c \in triggered :
    /\ c \notin executed
    /\ pc[c] \notin {"idle", "identity", "gate", "evaluate", "record", "execute"}
    /\ decision[c] \notin EXECUTABLE_DECISIONS

\* A barred call never gets past the gate.
BarredInv ==
  \A c \in barred :
    /\ c \notin executed
    /\ quarantine[req[c].workload] # Free
    /\ pc[c] \notin {"idle", "evaluate", "record", "enter", "execute"}
    /\ decision[c] = DENY

\* While the process lives: whatever served or will serve content has tainted
\* its session, and a call made after content sees the taint.
TaintInv ==
  restarts = 0 =>
    /\ \A c \in Calls :
         (/\ \/ c \in executed
             \/ /\ pc[c] \in {"enter", "log", "execute"}
                /\ decision[c] \in EXECUTABLE_DECISIONS
          /\ pc[c] # "idle"
          /\ req[c].tool = "http.get")
           => taint[req[c].session] = "tainted"
    /\ \A c \in afterContent :
         /\ pc[c] # "idle"
         /\ taint[req[c].session] = "tainted"
         /\ req[c].tool \in WRITE_TOOLS =>
              c \notin executed /\ decision[c] \notin EXECUTABLE_DECISIONS

IInv == /\ TypeOK /\ UndecidedInv /\ AuditInv /\ AgreedInv
        /\ TriggerInv /\ BarredInv /\ TaintInv
=============================================================================
