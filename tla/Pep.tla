-------------------------------- MODULE Pep --------------------------------
(***************************************************************************)
(* The policy enforcement point: pep/proxy.py's tool_call handler and the  *)
(* pipeline it runs (pep/pipeline.py), with the quarantine client          *)
(* (pep/quarantine.py) and the event store (events/app.py, store.py).      *)
(*                                                                         *)
(* tool_call is a plain def, so the server runs each call on a pool        *)
(* thread: the calls in Calls are concurrent processes over the globals of *)
(* the PEP process.  An action is the code of one call between two points  *)
(* where another thread, the event store or a crash can be seen: a round   *)
(* trip to a service, or an access to _SESSION_TAINT.                      *)
(*                                                                         *)
(* Abstractions.  The attributes of a request that the code computes from  *)
(* strings (is its token bound to this peer, is the host external, is it   *)
(* on the threat list, what does the DLP scan find, does its URL parse)    *)
(* are fields of the request.  The risk score is any total the scorer can  *)
(* give, and whether this denial crosses the threshold is any answer of    *)
(* record_denial (DenialWindow.tla).                                       *)
(***************************************************************************)
EXTENDS PolicyEngine, FiniteSets

CONSTANTS
  Calls,       \* the tool calls made, each on a thread of its own
  Requests,    \* the requests callers may send
  Workloads,   \* values of the token's service claim
  Sessions,    \* values of session_id
  Verdict,     \* Verdict[r][taint]: the policy result for r in the bundle
  MaxRestarts, \* bound on the crashes of the PEP process
  NoRequest

Tools   == {"http.get", "http.post", "db.query", "file.read", "email.send",
            "agent.invoke"}
Scans   == {"PASS", "REDACT", "BLOCK"}
Reasons == {"denials", "critical", "threat_intel"}
Free    == "free"       \* no row in the quarantine table

ASSUME RequestsAssumption ==
  \A r \in Requests :
    /\ r.workload \in Workloads /\ r.session \in Sessions
    /\ r.tool \in Tools /\ r.scan \in Scans
    /\ {r.bound, r.wellFormed, r.external, r.knownBad} \subseteq BOOLEAN

ASSUME NoRequestAssumption == NoRequest \notin Requests

\* What policy/engine.py guarantees for any bundle (PolicyEngineProofs).
ASSUME VerdictAssumption ==
  \A r \in Requests :
    /\ \A t \in Taints : Verdict[r][t].decision \in {DENY, ALLOW}
    /\ r.tool \in WRITE_TOOLS => Verdict[r]["tainted"].decision = DENY

ASSUME MaxRestartsAssumption == MaxRestarts \in Nat

VARIABLES
  pc,           \* pc[c]: where the thread of call c stands
  req,          \* req[c]: its request
  decision,     \* decision[c]: result.decision so far
  seen,         \* seen[c]: the session taint its pipeline read
  band,         \* band[c]: its risk band
  todo,         \* todo[c]: the quarantine triggers still to be posted
  taint,        \* _SESSION_TAINT, memory of the PEP process
  quarantine,   \* the event store's quarantine table: reason, or Free
  events,       \* the event store's events table
  lateEnters,   \* quarantine posts that failed for the PEP: some of them
                \* only timed out, and may land later or never
  lateEvents,   \* event posts that failed for the PEP, likewise
  executed,     \* the calls whose action _execute performed
  answer,       \* answer[c]: the decision in the HTTP response
  restarts,     \* crashes of the PEP so far
  triggered,    \* history: calls that met a quarantine trigger
  barred,       \* history: calls that arrived after their workload was
                \* quarantined, with no release since
  afterContent  \* history: calls that arrived after their session had
                \* already been served external content

perCall == <<pc, req, decision, seen, band, todo>>
store   == <<quarantine, events, lateEnters, lateEvents>>
outcome == <<executed, answer>>
history == <<triggered, barred, afterContent>>
vars    == <<perCall, taint, store, outcome, restarts, history>>

Gate == INSTANCE AuditedGate
          WITH audit <- events, effects <- executed, answers <- answer

Stages == {"idle", "identity", "gate", "evaluate", "record", "enter", "log",
           "logDenial", "execute", "respond", "done", "lost"}

InFlight(c) == pc[c] \notin {"idle", "done", "lost"}

Goto(c, stage) == pc' = [pc EXCEPT ![c] = stage]

Event(c, d) == [call |-> c, decision |-> d]
Enter(c, reason) == [workload |-> req[c].workload, reason |-> reason]

\* Sessions into which the result of an http.get has been returned.
ContentSessions == {req[d].session : d \in {x \in executed : req[x].tool = "http.get"}}

Init ==
  /\ pc       = [c \in Calls |-> "idle"]
  /\ req      = [c \in Calls |-> NoRequest]
  /\ decision = [c \in Calls |-> DENY]
  /\ seen     = [c \in Calls |-> "clean"]
  /\ band     = [c \in Calls |-> "LOW"]
  /\ todo     = [c \in Calls |-> <<>>]
  /\ taint    = [s \in Sessions |-> "clean"]
  /\ quarantine = [w \in Workloads |-> Free]
  /\ events = {} /\ lateEnters = {} /\ lateEvents = {}
  /\ executed = {}
  /\ answer   = [c \in Calls |-> Gate!PENDING]
  /\ restarts = 0
  /\ triggered = {} /\ barred = {} /\ afterContent = {}

-----------------------------------------------------------------------------
(* The thread of one call.                                                 *)

\* POST /tool-call reaches the PEP.
Arrive(c, r) ==
  /\ pc[c] = "idle"
  /\ Goto(c, "identity")
  /\ req' = [req EXCEPT ![c] = r]
  /\ barred' = IF quarantine[r.workload] # Free THEN barred \union {c} ELSE barred
  /\ afterContent' =
       IF r.session \in ContentSessions THEN afterContent \union {c} ELSE afterContent
  /\ UNCHANGED <<decision, seen, band, todo, taint, store, outcome, restarts,
                 triggered>>

\* _deny_early: DENY, no policy, no risk, no denial counted; still logged.
DenyEarly(c) ==
  /\ Goto(c, "log")
  /\ decision' = [decision EXCEPT ![c] = DENY]
  /\ UNCHANGED <<req, seen, band, todo>>

\* Stage 1.  A good token is refused too when the issuer is unreachable.
Identify(c) ==
  /\ pc[c] = "identity"
  /\ \/ DenyEarly(c)
     \/ /\ req[c].bound
        /\ Goto(c, "gate")
        /\ UNCHANGED <<req, decision, seen, band, todo>>
  /\ UNCHANGED <<taint, store, outcome, restarts, history>>

\* Mutant: an unreachable event store lets the call through.
CheckQuarantineFailOpen(c) ==
  /\ pc[c] = "gate"
  /\ \/ DenyEarly(c)
     \/ Goto(c, "evaluate") /\ UNCHANGED <<req, decision, seen, band, todo>>
  /\ UNCHANGED <<taint, store, outcome, restarts, history>>

\* The quarantine gate: GET /quarantine, which may be unavailable.
CheckQuarantine(c) ==
  /\ pc[c] = "gate"
  /\ \/ DenyEarly(c)    \* AGENT_QUARANTINED, or quarantine_check_unavailable
     \/ /\ quarantine[req[c].workload] = Free
        /\ Goto(c, "evaluate")
        /\ UNCHANGED <<req, decision, seen, band, todo>>
  /\ UNCHANGED <<taint, store, outcome, restarts, history>>

\* Stage 5 runs only on a policy ALLOW of an inspected or external call.
DlpDecision(r, policy) ==
  IF /\ policy.decision = ALLOW
     /\ policy.inspect \/ r.external \/ r.tool = "agent.invoke"
  THEN CASE r.scan = "PASS"   -> ALLOW
         [] r.scan = "REDACT" -> ALLOW_REDACTED
         [] r.scan = "BLOCK"  -> DENY
  ELSE ALLOW

\* Mutant: the threat-intelligence factor is lost.
AnyBand(r) == Bands

\* A threat-intelligence hit alone is at least HIGH (HitIsHigh in RiskScorerProofs).
RiskBands(r) == IF r.knownBad THEN {"HIGH", "CRITICAL"} ELSE Bands

\* Mutant: the minimum leaves DLP out.
PolicyAndRiskOnly(policy, dlp, b) == Narrowest({policy.decision, Ceiling[b]})

\* Stage 7: the narrowest of the three.
FinalDecision(policy, dlp, b) ==
  Narrowest({policy.decision, dlp, Ceiling[b]})

\* Stages 2 to 7: normalization, then the session taint is read once.
Decide(c) ==
  LET policy == Verdict[req[c]][taint[req[c].session]]
  IN
  /\ pc[c] = "evaluate"
  /\ req[c].wellFormed
  /\ seen' = [seen EXCEPT ![c] = taint[req[c].session]]
  /\ \E b \in RiskBands(req[c]) :
       /\ band' = [band EXCEPT ![c] = b]
       /\ decision' = [decision EXCEPT
            ![c] = FinalDecision(policy, DlpDecision(req[c], policy), b)]
  /\ Goto(c, "record")
  /\ UNCHANGED <<req, todo, taint, store, outcome, restarts, history>>

\* The three triggers, in the order the code posts them.
Triggers(c, crossed) ==
     (IF crossed THEN <<"denials">> ELSE <<>>)
  \o (IF band[c] = "CRITICAL" THEN <<"critical">> ELSE <<>>)
  \o (IF req[c].knownBad THEN <<"threat_intel">> ELSE <<>>)

\* Mutant: an executable verdict other than ALLOW and ALLOW_REDACTED is forgotten.
TaintAfterAllow(c) ==
  IF req[c].tool = "http.get" /\ decision[c] \in {ALLOW, ALLOW_REDACTED}
  THEN [taint EXCEPT ![req[c].session] = "tainted"]
  ELSE taint

\* _SESSION_TAINT once the decision is known.
TaintAfter(c) ==
  IF req[c].tool = "http.get" /\ decision[c] \in EXECUTABLE_DECISIONS
  THEN [taint EXCEPT ![req[c].session] = "tainted"]
  ELSE taint

\* The session is tainted before anything is fetched; the denial is counted.
RecordOutcome(c) ==
  /\ pc[c] = "record"
  /\ taint' = TaintAfter(c)
  /\ \E crossed \in IF decision[c] \in BLOCKED_DECISIONS THEN BOOLEAN ELSE {FALSE} :
       LET posts == Triggers(c, crossed)
       IN /\ todo' = [todo EXCEPT ![c] = posts]
          /\ Goto(c, IF posts = <<>> THEN "log" ELSE "enter")
          /\ triggered' = IF posts = <<>> THEN triggered ELSE triggered \union {c}
  /\ UNCHANGED <<req, decision, seen, band, store, outcome, restarts,
                 barred, afterContent>>

\* Mutant: INSERT OR REPLACE.
Replaced(w, reason) == [quarantine EXCEPT ![w] = reason]

\* INSERT OR IGNORE: the first reason stays.
Inserted(w, reason) ==
  IF quarantine[w] = Free THEN [quarantine EXCEPT ![w] = reason] ELSE quarantine

\* quarantine.enter, once per trigger: one best-effort POST.  Any failure is
\* swallowed, and a post that timed out may still land.
PostEnter(c) ==
  /\ pc[c] = "enter"
  /\ LET m == Enter(c, Head(todo[c]))
     IN \/ /\ quarantine' = Inserted(m.workload, m.reason)
           /\ UNCHANGED lateEnters
        \/ /\ lateEnters' = lateEnters \union {m}
           /\ UNCHANGED quarantine
  /\ todo' = [todo EXCEPT ![c] = Tail(@)]
  /\ Goto(c, IF Tail(todo[c]) = <<>> THEN "log" ELSE "enter")
  /\ UNCHANGED <<req, decision, seen, band, taint, events, lateEvents, outcome,
                 restarts, history>>

\* The post of one event: acknowledged with a 201, or not.
EventStored(e)  == events' = events \union {e} /\ UNCHANGED lateEvents
EventUnacked(e) == lateEvents' = lateEvents \union {e} /\ UNCHANGED events

\* Mutants of the log failure: go on; forget the decision; ask a human.
PerformUnlogged(c) ==
  /\ Goto(c, IF decision[c] \in EXECUTABLE_DECISIONS THEN "execute" ELSE "respond")
  /\ UNCHANGED decision
AnswerUnlogged(c) == Goto(c, "logDenial") /\ UNCHANGED decision
AskUnlogged(c) ==
  Goto(c, "logDenial") /\ decision' = [decision EXCEPT ![c] = REQUIRE_APPROVAL]

\* The event could not be confirmed: the decision becomes DENY.
DenyUnlogged(c) ==
  Goto(c, "logDenial") /\ decision' = [decision EXCEPT ![c] = DENY]

\* Stage 8: log, or deny.
LogEvent(c) ==
  /\ pc[c] = "log"
  /\ req[c].wellFormed
  /\ \/ /\ EventStored(Event(c, decision[c]))
        /\ Goto(c, IF decision[c] \in EXECUTABLE_DECISIONS THEN "execute" ELSE "respond")
        /\ UNCHANGED decision
     \/ /\ EventUnacked(Event(c, decision[c]))
        /\ DenyUnlogged(c)
  /\ UNCHANGED <<req, seen, band, todo, taint, quarantine, lateEnters, outcome,
                 restarts, history>>

\* Mutant: the log of the denial is retried until it is confirmed.
LogDenialUntilStored(c) ==
  /\ pc[c] = "logDenial"
  /\ \/ EventStored(Event(c, decision[c])) /\ Goto(c, "respond")
     \/ EventUnacked(Event(c, decision[c])) /\ UNCHANGED pc
  /\ UNCHANGED <<req, decision, seen, band, todo, taint, quarantine, lateEnters,
                 outcome, restarts, history>>

\* The denial is logged too, as far as possible.
LogDenial(c) ==
  /\ pc[c] = "logDenial"
  /\ EventStored(Event(c, decision[c])) \/ EventUnacked(Event(c, decision[c]))
  /\ Goto(c, "respond")
  /\ UNCHANGED <<req, decision, seen, band, todo, taint, quarantine, lateEnters,
                 outcome, restarts, history>>

\* _execute: the call takes effect; a failing destination is just a result.
Execute(c) ==
  /\ pc[c] = "execute"
  /\ executed' = executed \union {c}
  /\ Goto(c, "respond")
  /\ UNCHANGED <<req, decision, seen, band, todo, taint, store, answer, restarts,
                 history>>

\* The handler returns; its local variables are gone.
Return(c, a) ==
  /\ answer' = [answer EXCEPT ![c] = a]
  /\ Goto(c, "done")
  /\ decision' = [decision EXCEPT ![c] = DENY]
  /\ seen' = [seen EXCEPT ![c] = "clean"]
  /\ band' = [band EXCEPT ![c] = "LOW"]
  /\ todo' = [todo EXCEPT ![c] = <<>>]

Respond(c) ==
  /\ pc[c] = "respond"
  /\ Return(c, decision[c])
  /\ UNCHANGED <<req, taint, store, executed, restarts,
                 history>>

\* A URL that does not parse raises out of normalization, or out of the
\* event's construction when the call was denied before normalization: the
\* framework answers 500 and no event is written.
Raise(c) ==
  /\ pc[c] \in {"evaluate", "log"}
  /\ ~req[c].wellFormed
  /\ Return(c, Gate!FAULT)
  /\ UNCHANGED <<req, taint, store, executed, restarts,
                 history>>

Serve(c) ==
  \/ Identify(c) \/ CheckQuarantine(c) \/ Decide(c) \/ RecordOutcome(c)
  \/ PostEnter(c) \/ LogEvent(c) \/ LogDenial(c) \/ Execute(c)
  \/ Respond(c) \/ Raise(c)

-----------------------------------------------------------------------------
(* The rest of the world.                                                  *)

\* A post the PEP timed out on reaches the database after all.
LandEnter(m) ==
  /\ m \in lateEnters
  /\ lateEnters' = lateEnters \ {m}
  /\ quarantine' = Inserted(m.workload, m.reason)
  /\ UNCHANGED <<perCall, taint, events, lateEvents, outcome, restarts, history>>

LandEvent(e) ==
  /\ e \in lateEvents
  /\ lateEvents' = lateEvents \ {e}
  /\ events' = events \union {e}
  /\ UNCHANGED <<perCall, taint, quarantine, lateEnters, outcome, restarts, history>>

\* The operator's DELETE /quarantine/<workload>: the only way out.
Release(w) ==
  /\ quarantine[w] # Free
  /\ quarantine' = [quarantine EXCEPT ![w] = Free]
  /\ barred' = {c \in barred : req[c].workload # w}
  /\ UNCHANGED <<perCall, taint, events, lateEnters, lateEvents, outcome, restarts,
                 triggered, afterContent>>

\* The PEP container dies and comes back: its memory is gone, the database
\* is not, and the connections of the calls in flight are dropped.
Restart ==
  /\ restarts < MaxRestarts
  /\ restarts' = restarts + 1
  /\ pc' = [c \in Calls |-> IF InFlight(c) THEN "lost" ELSE pc[c]]
  /\ decision' = [c \in Calls |-> DENY]
  /\ seen' = [c \in Calls |-> "clean"]
  /\ band' = [c \in Calls |-> "LOW"]
  /\ todo' = [c \in Calls |-> <<>>]
  /\ taint' = [s \in Sessions |-> "clean"]
  /\ UNCHANGED <<req, store, outcome, history>>

Next ==
  \/ \E c \in Calls : \E r \in Requests : Arrive(c, r)
  \/ \E c \in Calls : Serve(c)
  \/ \E m \in lateEnters : LandEnter(m)
  \/ \E e \in lateEvents : LandEvent(e)
  \/ \E w \in Workloads : Release(w)
  \/ Restart

Spec == Init /\ [][Next]_vars

\* Every step of a call ends: each round trip has a timeout, and the pool
\* thread is scheduled by the operating system.
FairSpec == Spec /\ \A c \in Calls : WF_vars(Serve(c))
-----------------------------------------------------------------------------
(* Properties.                                                             *)

Posts == [workload : Workloads, reason : Reasons]

TypeOK ==
  /\ pc \in [Calls -> Stages]
  /\ req \in [Calls -> Requests \union {NoRequest}]
  /\ decision \in [Calls -> Decision]
  /\ seen \in [Calls -> Taints]
  /\ band \in [Calls -> Bands]
  /\ todo \in [Calls -> Seq(Reasons)]
  /\ taint \in [Sessions -> Taints]
  /\ quarantine \in [Workloads -> Reasons \union {Free}]
  /\ events \subseteq [call : Calls, decision : Decision]
  /\ lateEvents \subseteq [call : Calls, decision : Decision]
  /\ lateEnters \subseteq Posts
  /\ executed \subseteq Calls
  /\ answer \in [Calls -> Decision \union {Gate!PENDING, Gate!FAULT}]
  /\ restarts \in 0 .. MaxRestarts
  /\ triggered \subseteq Calls
  /\ barred \subseteq Calls /\ afterContent \subseteq Calls
  /\ \A c \in Calls : pc[c] # "idle" => req[c] \in Requests
  /\ \A c \in Calls : pc[c] = "enter" => todo[c] # <<>>

\* Log-or-deny: no call takes effect before an executable verdict for that
\* call is durable in the event store, however late or lost other writes are.
LogOrDeny ==
  \A c \in executed : \E d \in EXECUTABLE_DECISIONS : Event(c, d) \in events

\* The caller's answer and the effect agree: a caller told ALLOW, REDACTED or
\* RATE_LIMIT had its call performed, a caller told anything else had not.
AnswerIsTruthful ==
  \A c \in Calls : answer[c] # Gate!PENDING =>
    (answer[c] \in EXECUTABLE_DECISIONS <=> c \in executed)

\* A call about to be performed was allowed by every stage: by policy under
\* the taint its session was read with, and by risk; and what DLP would block
\* leaves neither for an external host, nor for another agent, nor where the
\* deciding rule asks for inspection.
EveryStageAgreed ==
  \A c \in Calls : pc[c] = "execute" =>
    /\ Verdict[req[c]][seen[c]].decision = ALLOW
    /\ req[c].scan = "BLOCK" => /\ ~req[c].external
                               /\ req[c].tool # "agent.invoke"
                               /\ ~Verdict[req[c]][seen[c]].inspect
    /\ band[c] \in {"LOW", "MODERATE"}

\* quarantine.enter's premise: a call that met a trigger is never itself
\* performed, so losing its best-effort post releases nothing by itself.
TriggerIsNotPerformed == triggered \intersect executed = {}

\* The quarantine gate is absolute: a call that arrived while its workload was
\* quarantined is not performed, unless an operator released the workload
\* meanwhile - through lost, late and repeated posts and restarts of the PEP.
QuarantineIsAbsolute == barred \intersect executed = {}

\* Once decided, a call's decision only moves down the lattice, log failures
\* included.
OnlyNarrows ==
  [][\A c \in Calls :
       pc[c] \notin {"idle", "identity", "gate", "evaluate"}
         => decision'[c] <= decision[c]]_vars

\* A quarantined workload keeps its first reason until an operator's release:
\* no restart, duplicate or late post changes or removes the row.
ExitIsManual ==
  [][\A w \in Workloads : quarantine[w] # Free =>
       quarantine'[w] = quarantine[w] \/ Release(w)]_vars

\* A call made after its session was served external content is not performed
\* if it could carry data out (a write tool).
TaintOutlivesFetch ==
  \A c \in afterContent \intersect executed : req[c].tool \notin WRITE_TOOLS

\* The same while the PEP process has not restarted, whatever threads do.
TaintBeforeContent == restarts = 0 => TaintOutlivesFetch

\* Every call that arrives is answered, unless the PEP dies under it.
EveryCallIsAnswered ==
  \A c \in Calls : (pc[c] = "identity") ~> (pc[c] \in {"done", "lost"})

\* The pipeline is an implementation of the audited gate.
ImplementsGate == Gate!Spec
=============================================================================
