---------------------------- MODULE AuditedGate ----------------------------
(***************************************************************************)
(* What the enforcement point promises its operator, without saying how:   *)
(* a call takes effect only after a durable record of an executable        *)
(* verdict for that very call and before its caller is answered, and a     *)
(* caller that gets an answer is told the truth about whether its call     *)
(* took effect.  Pep.tla implements this specification.                    *)
(***************************************************************************)
EXTENDS Lattice

CONSTANT Calls

PENDING == -2   \* not answered yet
FAULT   == -1   \* answered by an HTTP 500

VARIABLES
  audit,    \* records [call, decision] durable in the event store
  effects,  \* calls whose action was performed
  answers   \* answers[c]: the decision returned to the caller

gateVars == <<audit, effects, answers>>

Init ==
  /\ audit   = {}
  /\ effects = {}
  /\ answers = [c \in Calls |-> PENDING]

\* A verdict for c becomes durable, whenever the store gets to it.
Record(c) ==
  /\ \E d \in Decision : audit' = audit \union {[call |-> c, decision |-> d]}
  /\ UNCHANGED <<effects, answers>>

\* c takes effect, on the strength of a durable executable verdict.
Perform(c) ==
  /\ c \notin effects
  /\ answers[c] = PENDING
  /\ \E d \in EXECUTABLE_DECISIONS : [call |-> c, decision |-> d] \in audit
  /\ effects' = effects \union {c}
  /\ UNCHANGED <<audit, answers>>

\* The caller learns an executable verdict exactly when c took effect.
Answer(c) ==
  /\ answers[c] = PENDING
  /\ \E a \in Decision \union {FAULT} :
       /\ (a \in EXECUTABLE_DECISIONS) <=> (c \in effects)
       /\ answers' = [answers EXCEPT ![c] = a]
  /\ UNCHANGED <<audit, effects>>

Next == \E c \in Calls : Record(c) \/ Perform(c) \/ Answer(c)

Spec == Init /\ [][Next]_gateVars
=============================================================================
