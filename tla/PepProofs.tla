----------------------------- MODULE PepProofs -----------------------------
(***************************************************************************)
(* Proofs, for any set of calls, requests, workloads and sessions and any  *)
(* number of restarts, of the safety properties of Pep.tla.                *)
(***************************************************************************)
EXTENDS PepInvariant, TLAPS

LEMMA DecisionSets ==
  /\ Decision = {0, 1, 2, 3, 4, 5}
  /\ EXECUTABLE_DECISIONS = {3, 4, 5}
  /\ BLOCKED_DECISIONS = {0, 1}
  /\ DENY = 0 /\ ALLOW = 5
BY DEF Decision, EXECUTABLE_DECISIONS, BLOCKED_DECISIONS, DENY, QUARANTINE,
       REQUIRE_APPROVAL, RATE_LIMIT, ALLOW_REDACTED, ALLOW

LEMMA AnswerCodes ==
  /\ Gate!PENDING \notin Decision /\ Gate!FAULT \notin Decision
  /\ Gate!PENDING # Gate!FAULT
BY DecisionSets DEF Gate!PENDING, Gate!FAULT

\* min over the three candidates of stage 7.
LEMMA NarrowestOfThree ==
  ASSUME NEW a \in Decision, NEW b \in Decision, NEW c \in Decision
  PROVE  /\ Narrowest({a, b, c}) \in {a, b, c}
         /\ Narrowest({a, b, c}) <= a
         /\ Narrowest({a, b, c}) <= b
         /\ Narrowest({a, b, c}) <= c
<1>1. \E d \in {a, b, c} : \A e \in {a, b, c} : d <= e
  BY DecisionSets
<1>2. QED
  BY <1>1 DEF Narrowest

LEMMA CeilingFacts ==
  /\ \A b \in Bands : Ceiling[b] \in Decision
  /\ \A b \in Bands : Ceiling[b] \in EXECUTABLE_DECISIONS => b \in {"LOW", "MODERATE"}
  /\ \A b \in Bands : Ceiling[b] <= 2 => b \in {"HIGH", "CRITICAL"}
BY DecisionSets DEF Bands, Ceiling, QUARANTINE, REQUIRE_APPROVAL, RATE_LIMIT

LEMMA DlpFacts ==
  ASSUME NEW r \in Requests, NEW t \in Taints
  PROVE  DlpDecision(r, Verdict[r][t]) \in Decision
BY RequestsAssumption, DecisionSets DEF DlpDecision, Scans, ALLOW_REDACTED

\* What stage 7 computes is a decision, and an executable one has all three
\* stages behind it.
LEMMA FinalDecisionFacts ==
  ASSUME NEW r \in Requests, NEW t \in Taints, NEW b \in Bands
  PROVE  LET p == Verdict[r][t]
             f == FinalDecision(p, DlpDecision(r, p), b)
         IN /\ f \in Decision
            /\ f \in EXECUTABLE_DECISIONS =>
                 /\ p.decision = ALLOW
                 /\ DlpDecision(r, p) # DENY
                 /\ b \in {"LOW", "MODERATE"}
<1> DEFINE p == Verdict[r][t]
           f == FinalDecision(p, DlpDecision(r, p), b)
<1>1. p.decision \in {0, 5}
  BY VerdictAssumption, DecisionSets
<1>2. DlpDecision(r, p) \in Decision
  BY DlpFacts
<1>3. Ceiling[b] \in Decision
  BY CeilingFacts
<1>p. p.decision \in Decision
  BY <1>1, DecisionSets
<1>4. /\ f \in {p.decision, DlpDecision(r, p), Ceiling[b]}
      /\ f <= p.decision /\ f <= DlpDecision(r, p) /\ f <= Ceiling[b]
  <2> HIDE DEF p
  <2> QED
    BY <1>p, <1>2, <1>3, NarrowestOfThree DEF FinalDecision
<1>5. f \in EXECUTABLE_DECISIONS => Ceiling[b] \in EXECUTABLE_DECISIONS
  BY <1>3, <1>4, DecisionSets
<1>6. f \in EXECUTABLE_DECISIONS => b \in {"LOW", "MODERATE"}
  BY <1>5, CeilingFacts
<1>7. f \in EXECUTABLE_DECISIONS => p.decision = ALLOW /\ DlpDecision(r, p) # DENY
  BY <1>1, <1>2, <1>4, DecisionSets
<1>8. f \in Decision
  BY <1>1, <1>2, <1>3, <1>4, DecisionSets
<1> HIDE DEF f, p
<1> QED
  BY <1>6, <1>7, <1>8 DEF f, p

-----------------------------------------------------------------------------
(* Type correctness.                                                       *)

LEMMA InitTypeOK == Init => TypeOK
BY DecisionSets, MaxRestartsAssumption
   DEF Init, TypeOK, Stages, Taints, Bands, Reasons, Free, Posts, Gate!PENDING

LEMMA TriggersType ==
  ASSUME NEW c \in Calls, NEW x \in BOOLEAN
  PROVE  Triggers(c, x) \in Seq(Reasons)
<1> DEFINE s1 == IF x THEN <<"denials">> ELSE <<>>
           s2 == IF band[c] = "CRITICAL" THEN <<"critical">> ELSE <<>>
           s3 == IF req[c].knownBad THEN <<"threat_intel">> ELSE <<>>
<1>e. <<>> \in Seq(Reasons)
  OBVIOUS
<1>r. \A a \in Reasons : <<a>> \in Seq(Reasons)
  OBVIOUS
<1>1. s1 \in Seq(Reasons) /\ s2 \in Seq(Reasons) /\ s3 \in Seq(Reasons)
  BY <1>e, <1>r DEF Reasons
<1> HIDE DEF s1, s2, s3
<1>2. s1 \o s2 \in Seq(Reasons)
  BY <1>1
<1>3. (s1 \o s2) \o s3 \in Seq(Reasons)
  BY <1>1, <1>2
<1> QED
  BY <1>3 DEF Triggers, s1, s2, s3

LEMMA NextTypeOK == TypeOK /\ [Next]_vars => TypeOK'
<1> SUFFICES ASSUME TypeOK, [Next]_vars PROVE TypeOK'
  OBVIOUS
<1> USE DEF TypeOK, Goto
<1>1. ASSUME NEW c \in Calls, NEW r \in Requests, Arrive(c, r) PROVE TypeOK'
  BY <1>1 DEF Arrive, Stages, store, outcome
<1>2. ASSUME NEW c \in Calls, Identify(c) PROVE TypeOK'
  BY <1>2, DecisionSets DEF Identify, DenyEarly, Stages, store, outcome, history
<1>3. ASSUME NEW c \in Calls, CheckQuarantine(c) PROVE TypeOK'
  BY <1>3, DecisionSets DEF CheckQuarantine, DenyEarly, Stages, store, outcome, history
<1>4. ASSUME NEW c \in Calls, Decide(c) PROVE TypeOK'
  <2>1. req[c] \in Requests /\ taint[req[c].session] \in Taints
    BY <1>4, RequestsAssumption DEF Decide
  <2>2. PICK b \in RiskBands(req[c]) :
          /\ band' = [band EXCEPT ![c] = b]
          /\ decision' = [decision EXCEPT ![c] =
               FinalDecision(Verdict[req[c]][taint[req[c].session]],
                 DlpDecision(req[c], Verdict[req[c]][taint[req[c].session]]), b)]
    BY <1>4 DEF Decide
  <2>3. b \in Bands
    BY <2>2 DEF RiskBands, Bands
  <2>4. decision' \in [Calls -> Decision] /\ band' \in [Calls -> Bands]
    BY <2>1, <2>2, <2>3, FinalDecisionFacts
  <2>5. seen' \in [Calls -> Taints]
    BY <1>4, <2>1 DEF Decide
  <2> QED
    BY <1>4, <2>4, <2>5 DEF Decide, Stages, store, outcome, history
<1>5. ASSUME NEW c \in Calls, RecordOutcome(c) PROVE TypeOK'
  <2>1. PICK x \in BOOLEAN :
          /\ todo' = [todo EXCEPT ![c] = Triggers(c, x)]
          /\ Goto(c, IF Triggers(c, x) = <<>> THEN "log" ELSE "enter")
          /\ triggered' = IF Triggers(c, x) = <<>> THEN triggered ELSE triggered \union {c}
    BY <1>5 DEF RecordOutcome
  <2>2. todo' \in [Calls -> Seq(Reasons)]
    BY <2>1, TriggersType
  <2>3. req[c] \in Requests /\ req[c].session \in Sessions
    BY <1>5, RequestsAssumption DEF RecordOutcome
  <2>4. taint' \in [Sessions -> Taints]
    BY <1>5, <2>3 DEF RecordOutcome, TaintAfter, Taints
  <2>5. pc' \in [Calls -> Stages] /\ triggered' \subseteq Calls
    BY <2>1 DEF Stages
  <2>6. \A d \in Calls : pc'[d] = "enter" => todo'[d] # <<>>
    BY <2>1
  <2> QED
    BY <1>5, <2>2, <2>4, <2>5, <2>6 DEF RecordOutcome, store, outcome
<1>6. ASSUME NEW c \in Calls, PostEnter(c) PROVE TypeOK'
  <2>1. /\ req[c] \in Requests /\ req[c].workload \in Workloads
        /\ todo[c] \in Seq(Reasons) /\ todo[c] # <<>>
    BY <1>6, RequestsAssumption DEF PostEnter
  <2>2. Head(todo[c]) \in Reasons /\ Tail(todo[c]) \in Seq(Reasons)
    BY <2>1
  <2>3. Enter(c, Head(todo[c])) \in Posts
    BY <2>1, <2>2 DEF Enter, Posts
  <2>4. lateEnters' \subseteq Posts /\ quarantine' \in [Workloads -> Reasons \union {Free}]
    BY <1>6, <2>1, <2>2, <2>3 DEF PostEnter, Inserted, Enter
  <2>5. todo' \in [Calls -> Seq(Reasons)] /\ pc' \in [Calls -> Stages]
    BY <1>6, <2>2 DEF PostEnter, Stages
  <2>6. \A d \in Calls : pc'[d] = "enter" => todo'[d] # <<>>
    BY <1>6 DEF PostEnter
  <2> QED
    BY <1>6, <2>4, <2>5, <2>6 DEF PostEnter, outcome, history
<1>7. ASSUME NEW c \in Calls, LogEvent(c) PROVE TypeOK'
  <2>1. Event(c, decision[c]) \in [call : Calls, decision : Decision]
    BY DEF Event
  <2>2. /\ events' \subseteq [call : Calls, decision : Decision]
        /\ lateEvents' \subseteq [call : Calls, decision : Decision]
    BY <1>7, <2>1 DEF LogEvent, DenyUnlogged, EventStored, EventUnacked
  <2>3. decision' \in [Calls -> Decision]
    BY <1>7, DecisionSets DEF LogEvent, DenyUnlogged
  <2>4. pc' \in [Calls -> Stages] /\ \A d \in Calls : pc'[d] # "idle" => req[d] \in Requests
    BY <1>7 DEF LogEvent, DenyUnlogged, Stages
  <2>5. \A d \in Calls : pc'[d] = "enter" => todo[d] # <<>>
    BY <1>7 DEF LogEvent, DenyUnlogged
  <2> QED
    BY <1>7, <2>2, <2>3, <2>4, <2>5 DEF LogEvent, DenyUnlogged, outcome, history
<1>8. ASSUME NEW c \in Calls, LogDenial(c) PROVE TypeOK'
  BY <1>8 DEF LogDenial, EventStored, EventUnacked, Event, Stages, outcome, history
<1>9. ASSUME NEW c \in Calls, Execute(c) PROVE TypeOK'
  BY <1>9 DEF Execute, Stages, store, history
<1>10. ASSUME NEW c \in Calls, Respond(c) \/ Raise(c) PROVE TypeOK'
  <2>1. PICK a \in Decision \union {Gate!FAULT} : Return(c, a)
    BY <1>10 DEF Respond, Raise
  <2>2. /\ answer' \in [Calls -> Decision \union {Gate!PENDING, Gate!FAULT}]
        /\ decision' \in [Calls -> Decision] /\ pc' \in [Calls -> Stages]
    BY <2>1, DecisionSets DEF Return, Stages
  <2>3. /\ seen' \in [Calls -> Taints] /\ band' \in [Calls -> Bands]
        /\ todo' \in [Calls -> Seq(Reasons)]
    BY <2>1 DEF Return, Taints, Bands
  <2>4. UNCHANGED <<req, taint, store, executed, restarts, history>> /\ pc[c] # "idle"
    BY <1>10 DEF Respond, Raise
  <2>5. \A d \in Calls : /\ pc'[d] # "idle" => req'[d] \in Requests
                         /\ pc'[d] = "enter" => todo'[d] # <<>>
    BY <2>1, <2>4 DEF Return
  <2> QED
    BY <2>2, <2>3, <2>4, <2>5 DEF store, history
<1>11. ASSUME NEW m \in lateEnters, LandEnter(m) PROVE TypeOK'
  BY <1>11 DEF LandEnter, Inserted, Posts, perCall, outcome, history
<1>12. ASSUME NEW e \in lateEvents, LandEvent(e) PROVE TypeOK'
  BY <1>12 DEF LandEvent, perCall, outcome, history
<1>13. ASSUME NEW w \in Workloads, Release(w) PROVE TypeOK'
  BY <1>13 DEF Release, perCall, outcome
<1>14. CASE Restart
  BY <1>14, DecisionSets, MaxRestartsAssumption
     DEF Restart, InFlight, Stages, Taints, Bands, store, outcome, history
<1>15. CASE UNCHANGED vars
  BY <1>15 DEF vars, perCall, store, outcome, history
<1> QED
  BY <1>1, <1>2, <1>3, <1>4, <1>5, <1>6, <1>7, <1>8, <1>9, <1>10, <1>11, <1>12,
     <1>13, <1>14, <1>15 DEF Next, Serve

\* Every variable keeps its type, and a thread that posts a quarantine always
\* has a trigger left to post.
THEOREM TypeCorrect == Spec => []TypeOK
BY InitTypeOK, NextTypeOK, PTL DEF Spec

-----------------------------------------------------------------------------
(* The invariant, part by part.                                            *)

LEMMA InitIInv == Init => IInv
BY InitTypeOK, DecisionSets
   DEF Init, IInv, UndecidedInv, AuditInv, LogOrDeny, AnswerIsTruthful, AgreedInv,
       TriggerInv, BarredInv, TaintInv, Gate!PENDING

LEMMA UndecidedStep == TypeOK /\ UndecidedInv /\ [Next]_vars => UndecidedInv'
<1> SUFFICES ASSUME TypeOK, UndecidedInv, [Next]_vars PROVE UndecidedInv'
  OBVIOUS
<1> USE DEF TypeOK, UndecidedInv, Goto
<1>1. ASSUME NEW c \in Calls, NEW r \in Requests, Arrive(c, r) PROVE UndecidedInv'
  BY <1>1 DEF Arrive
<1>2. ASSUME NEW c \in Calls, Identify(c) \/ CheckQuarantine(c) PROVE UndecidedInv'
  BY <1>2 DEF Identify, CheckQuarantine, DenyEarly
<1>3. ASSUME NEW c \in Calls, Decide(c) PROVE UndecidedInv'
  <2> PICK f : decision' = [decision EXCEPT ![c] = f]
    BY <1>3 DEF Decide
  <2> QED
    BY <1>3 DEF Decide
<1>4. ASSUME NEW c \in Calls, RecordOutcome(c) PROVE UndecidedInv'
  <2> PICK stage \in {"log", "enter"} : Goto(c, stage)
    BY <1>4 DEF RecordOutcome
  <2> QED
    BY <1>4 DEF RecordOutcome
<1>5. ASSUME NEW c \in Calls, PostEnter(c) PROVE UndecidedInv'
  BY <1>5 DEF PostEnter
<1>6. ASSUME NEW c \in Calls, LogEvent(c) PROVE UndecidedInv'
  BY <1>6 DEF LogEvent, DenyUnlogged
<1>7. ASSUME NEW c \in Calls, LogDenial(c) \/ Execute(c) PROVE UndecidedInv'
  BY <1>7 DEF LogDenial, Execute
<1>8. ASSUME NEW c \in Calls, Respond(c) \/ Raise(c) PROVE UndecidedInv'
  BY <1>8 DEF Respond, Raise, Return
<1>9. ASSUME NEW m, LandEnter(m) \/ LandEvent(m) \/ Release(m) PROVE UndecidedInv'
  BY <1>9 DEF LandEnter, LandEvent, Release, perCall
<1>10. CASE Restart
  BY <1>10 DEF Restart
<1>11. CASE UNCHANGED vars
  BY <1>11 DEF vars, perCall
<1> QED
  BY <1>1, <1>2, <1>3, <1>4, <1>5, <1>6, <1>7, <1>8, <1>9, <1>10, <1>11
     DEF Next, Serve

LEMMA AuditStep ==
  TypeOK /\ UndecidedInv /\ AuditInv /\ [Next]_vars => AuditInv'
<1> SUFFICES ASSUME TypeOK, UndecidedInv, AuditInv, [Next]_vars PROVE AuditInv'
  OBVIOUS
<1> USE DecisionSets
    DEF TypeOK, UndecidedInv, AuditInv, LogOrDeny, AnswerIsTruthful, Goto
<1>1. ASSUME NEW c \in Calls, NEW r \in Requests, Arrive(c, r) PROVE AuditInv'
  BY <1>1 DEF Arrive, store, outcome, Event
<1>2. ASSUME NEW c \in Calls, Identify(c) \/ CheckQuarantine(c) PROVE AuditInv'
  BY <1>2 DEF Identify, CheckQuarantine, DenyEarly, store, outcome, Event
<1>3. ASSUME NEW c \in Calls, Decide(c) PROVE AuditInv'
  <2> PICK f : decision' = [decision EXCEPT ![c] = f]
    BY <1>3 DEF Decide
  <2> QED
    BY <1>3 DEF Decide, store, outcome, Event
<1>4. ASSUME NEW c \in Calls, RecordOutcome(c) PROVE AuditInv'
  <2> PICK stage \in {"log", "enter"} : Goto(c, stage)
    BY <1>4 DEF RecordOutcome
  <2> QED
    BY <1>4 DEF RecordOutcome, store, outcome, Event
<1>5. ASSUME NEW c \in Calls, PostEnter(c) PROVE AuditInv'
  BY <1>5 DEF PostEnter, outcome, Event
<1>6. ASSUME NEW c \in Calls, LogEvent(c) PROVE AuditInv'
  <2>1. CASE UNCHANGED decision
    BY <1>6, <2>1 DEF LogEvent, DenyUnlogged, EventStored, EventUnacked, outcome, Event
  <2>2. CASE pc' = [pc EXCEPT ![c] = "logDenial"]
    BY <1>6, <2>2 DEF LogEvent, DenyUnlogged, EventStored, EventUnacked, outcome, Event
  <2> QED
    BY <1>6, <2>1, <2>2 DEF LogEvent, DenyUnlogged
<1>7. ASSUME NEW c \in Calls, LogDenial(c) PROVE AuditInv'
  BY <1>7 DEF LogDenial, EventStored, EventUnacked, outcome, Event
<1>8. ASSUME NEW c \in Calls, Execute(c) PROVE AuditInv'
  BY <1>8 DEF Execute, store, Event
<1>9. ASSUME NEW c \in Calls, Respond(c) \/ Raise(c) PROVE AuditInv'
  <2>1. CASE Respond(c)
    <3>1. /\ answer' = [answer EXCEPT ![c] = decision[c]]
          /\ pc[c] = "respond" /\ pc' = [pc EXCEPT ![c] = "done"]
          /\ decision' = [decision EXCEPT ![c] = DENY]
          /\ UNCHANGED <<events, executed>>
      BY <2>1 DEF Respond, Return, store
    <3>2. decision[c] # Gate!PENDING
      BY AnswerCodes
    <3> QED
      BY <3>1, <3>2 DEF Event
  <2>2. CASE Raise(c)
    <3>1. /\ answer' = [answer EXCEPT ![c] = Gate!FAULT]
          /\ pc[c] \in {"evaluate", "log"} /\ pc' = [pc EXCEPT ![c] = "done"]
          /\ decision' = [decision EXCEPT ![c] = DENY]
          /\ UNCHANGED <<events, executed>>
      BY <2>2 DEF Raise, Return, store
    <3>2. Gate!FAULT # Gate!PENDING /\ Gate!FAULT \notin EXECUTABLE_DECISIONS
      BY AnswerCodes
    <3> QED
      BY <3>1, <3>2 DEF Event
  <2> QED
    BY <1>9, <2>1, <2>2
<1>10. ASSUME NEW m, LandEnter(m) \/ LandEvent(m) \/ Release(m) PROVE AuditInv'
  BY <1>10 DEF LandEnter, LandEvent, Release, perCall, outcome, Event
<1>11. CASE Restart
  BY <1>11 DEF Restart, InFlight, store, outcome, Event
<1>12. CASE UNCHANGED vars
  BY <1>12 DEF vars, perCall, store, outcome, Event
<1> QED
  BY <1>1, <1>2, <1>3, <1>4, <1>5, <1>6, <1>7, <1>8, <1>9, <1>10, <1>11, <1>12
     DEF Next, Serve

LEMMA AgreedStep == TypeOK /\ UndecidedInv /\ AgreedInv /\ [Next]_vars => AgreedInv'
<1> SUFFICES ASSUME TypeOK, UndecidedInv, AgreedInv, [Next]_vars PROVE AgreedInv'
  OBVIOUS
<1> USE DecisionSets DEF TypeOK, UndecidedInv, AgreedInv, Goto
<1>1. ASSUME NEW c \in Calls, NEW r \in Requests, Arrive(c, r) PROVE AgreedInv'
  BY <1>1 DEF Arrive
<1>2. ASSUME NEW c \in Calls, Identify(c) \/ CheckQuarantine(c) PROVE AgreedInv'
  BY <1>2 DEF Identify, CheckQuarantine, DenyEarly
<1>3. ASSUME NEW c \in Calls, Decide(c) PROVE AgreedInv'
  <2> DEFINE t == taint[req[c].session]
             p == Verdict[req[c]][t]
  <2>1. req[c] \in Requests /\ t \in Taints
    BY <1>3, RequestsAssumption DEF Decide
  <2>2. PICK b \in RiskBands(req[c]) :
          /\ band' = [band EXCEPT ![c] = b]
          /\ decision' = [decision EXCEPT ![c] =
                            FinalDecision(p, DlpDecision(req[c], p), b)]
    BY <1>3 DEF Decide
  <2>3. decision'[c] \in EXECUTABLE_DECISIONS =>
          p.decision = ALLOW /\ DlpDecision(req[c], p) # DENY /\ b \in {"LOW", "MODERATE"}
    <3>1. b \in Bands
      BY <2>2 DEF RiskBands, Bands
    <3> QED
      BY <2>1, <2>2, <3>1, FinalDecisionFacts
  <2>4. /\ seen' = [seen EXCEPT ![c] = t] /\ req' = req
        /\ pc' = [pc EXCEPT ![c] = "record"]
    BY <1>3 DEF Decide
  <2>5. seen'[c] = t /\ band'[c] = b
    BY <2>2, <2>4
  <2>6. ASSUME NEW d \in Calls, d # c
        PROVE  /\ pc'[d] = pc[d] /\ decision'[d] = decision[d]
               /\ seen'[d] = seen[d] /\ band'[d] = band[d]
    BY <2>2, <2>4, <2>6
  <2> HIDE DEF t
  <2> QED
    BY <2>2, <2>3, <2>4, <2>5, <2>6
<1>4. ASSUME NEW c \in Calls, RecordOutcome(c) PROVE AgreedInv'
  <2> PICK stage \in {"log", "enter"} : Goto(c, stage)
    BY <1>4 DEF RecordOutcome
  <2> QED
    BY <1>4 DEF RecordOutcome
<1>5. ASSUME NEW c \in Calls, PostEnter(c) PROVE AgreedInv'
  BY <1>5 DEF PostEnter
<1>6. ASSUME NEW c \in Calls, LogEvent(c) PROVE AgreedInv'
  BY <1>6 DEF LogEvent, DenyUnlogged
<1>7. ASSUME NEW c \in Calls, LogDenial(c) \/ Execute(c) PROVE AgreedInv'
  BY <1>7 DEF LogDenial, Execute
<1>8. ASSUME NEW c \in Calls, Respond(c) \/ Raise(c) PROVE AgreedInv'
  BY <1>8 DEF Respond, Raise, Return
<1>9. ASSUME NEW m, LandEnter(m) \/ LandEvent(m) \/ Release(m) PROVE AgreedInv'
  BY <1>9 DEF LandEnter, LandEvent, Release, perCall
<1>10. CASE Restart
  BY <1>10 DEF Restart, InFlight
<1>11. CASE UNCHANGED vars
  BY <1>11 DEF vars, perCall
<1> QED
  BY <1>1, <1>2, <1>3, <1>4, <1>5, <1>6, <1>7, <1>8, <1>9, <1>10, <1>11
     DEF Next, Serve

\* A call that meets a trigger has no executable decision: a blocked call has
\* none, and neither has one whose band is HIGH or CRITICAL.
LEMMA TriggeredIsNotExecutable ==
  ASSUME NEW c \in Calls, NEW crossed \in BOOLEAN, TypeOK, AgreedInv,
         pc[c] = "record",
         crossed => decision[c] \in BLOCKED_DECISIONS,
         Triggers(c, crossed) # <<>>
  PROVE  decision[c] \notin EXECUTABLE_DECISIONS
<1>1. crossed \/ band[c] = "CRITICAL" \/ req[c].knownBad
  BY DEF Triggers
<1>2. CASE crossed
  BY <1>2, DecisionSets
<1>3. CASE band[c] \in {"HIGH", "CRITICAL"}
  BY <1>3 DEF AgreedInv
<1>4. CASE req[c].knownBad
  BY <1>3, <1>4 DEF AgreedInv, RiskBands
<1> QED
  BY <1>1, <1>2, <1>3, <1>4

LEMMA TriggerStep ==
  TypeOK /\ UndecidedInv /\ AuditInv /\ AgreedInv /\ TriggerInv /\ [Next]_vars
    => TriggerInv'
<1> SUFFICES ASSUME TypeOK, UndecidedInv, AuditInv, AgreedInv, TriggerInv, [Next]_vars
             PROVE TriggerInv'
  OBVIOUS
<1> USE DecisionSets DEF TypeOK, UndecidedInv, TriggerInv, Goto
<1>1. ASSUME NEW c \in Calls, NEW r \in Requests, Arrive(c, r) PROVE TriggerInv'
  BY <1>1 DEF Arrive, outcome
<1>2. ASSUME NEW c \in Calls, Identify(c) \/ CheckQuarantine(c) PROVE TriggerInv'
  BY <1>2 DEF Identify, CheckQuarantine, DenyEarly, outcome, history
<1>3. ASSUME NEW c \in Calls, Decide(c) PROVE TriggerInv'
  <2> PICK f : decision' = [decision EXCEPT ![c] = f]
    BY <1>3 DEF Decide
  <2> QED
    BY <1>3 DEF Decide, outcome, history
<1>4. ASSUME NEW c \in Calls, RecordOutcome(c) PROVE TriggerInv'
  <2>1. PICK x \in BOOLEAN :
          /\ x => decision[c] \in BLOCKED_DECISIONS
          /\ Goto(c, IF Triggers(c, x) = <<>> THEN "log" ELSE "enter")
          /\ triggered' = IF Triggers(c, x) = <<>> THEN triggered ELSE triggered \union {c}
    BY <1>4 DEF RecordOutcome
  <2>2. pc[c] = "record" /\ UNCHANGED <<decision, executed>>
    BY <1>4 DEF RecordOutcome, outcome
  <2>3. c \notin executed /\ c \notin triggered
    BY <2>2 DEF AuditInv
  <2>4. c \in triggered' => decision[c] \notin EXECUTABLE_DECISIONS
    BY <2>1, <2>2, <2>3, TriggeredIsNotExecutable
  <2>5. triggered' \subseteq triggered \union {c}
    BY <2>1
  <2>6. pc'[c] \in {"log", "enter"} /\ \A d \in Calls : d # c => pc'[d] = pc[d]
    BY <2>1
  <2> QED
    BY <2>2, <2>3, <2>4, <2>5, <2>6
<1>5. ASSUME NEW c \in Calls, PostEnter(c) PROVE TriggerInv'
  BY <1>5 DEF PostEnter, outcome, history
<1>6. ASSUME NEW c \in Calls, LogEvent(c) PROVE TriggerInv'
  BY <1>6 DEF LogEvent, DenyUnlogged, outcome, history
<1>7. ASSUME NEW c \in Calls, LogDenial(c) \/ Execute(c) PROVE TriggerInv'
  BY <1>7 DEF LogDenial, Execute, outcome, history
<1>8. ASSUME NEW c \in Calls, Respond(c) \/ Raise(c) PROVE TriggerInv'
  BY <1>8 DEF Respond, Raise, Return, history
<1>9. ASSUME NEW m, LandEnter(m) \/ LandEvent(m) \/ Release(m) PROVE TriggerInv'
  BY <1>9 DEF LandEnter, LandEvent, Release, perCall, outcome, history
<1>10. CASE Restart
  BY <1>10 DEF Restart, InFlight, outcome, history
<1>11. CASE UNCHANGED vars
  BY <1>11 DEF vars, perCall, outcome, history
<1> QED
  BY <1>1, <1>2, <1>3, <1>4, <1>5, <1>6, <1>7, <1>8, <1>9, <1>10, <1>11
     DEF Next, Serve

LEMMA BarredStep == TypeOK /\ UndecidedInv /\ AuditInv /\ BarredInv /\ [Next]_vars => BarredInv'
<1> SUFFICES ASSUME TypeOK, UndecidedInv, AuditInv, BarredInv, [Next]_vars
             PROVE BarredInv'
  OBVIOUS
<1> USE DecisionSets DEF TypeOK, UndecidedInv, BarredInv, Goto
<1>1. ASSUME NEW c \in Calls, NEW r \in Requests, Arrive(c, r) PROVE BarredInv'
  <2>1. /\ pc[c] = "idle" /\ pc' = [pc EXCEPT ![c] = "identity"]
        /\ req' = [req EXCEPT ![c] = r]
        /\ UNCHANGED <<decision, quarantine, executed>>
    BY <1>1 DEF Arrive, store, outcome
  <2>2. c \notin executed /\ c \notin barred
    BY <2>1 DEF AuditInv
  <2>3. \A d \in barred' : d \in barred \/ (d = c /\ quarantine[r.workload] # Free)
    BY <1>1 DEF Arrive
  <2> QED
    BY <2>1, <2>2, <2>3
<1>2. ASSUME NEW c \in Calls, Identify(c) \/ CheckQuarantine(c) PROVE BarredInv'
  BY <1>2 DEF Identify, CheckQuarantine, DenyEarly, store, outcome, history
<1>3. ASSUME NEW c \in Calls, Decide(c) PROVE BarredInv'
  <2> PICK f : decision' = [decision EXCEPT ![c] = f]
    BY <1>3 DEF Decide
  <2> QED
    BY <1>3 DEF Decide, store, outcome, history
<1>4. ASSUME NEW c \in Calls, RecordOutcome(c) PROVE BarredInv'
  <2> PICK stage \in {"log", "enter"} : Goto(c, stage)
    BY <1>4 DEF RecordOutcome
  <2> QED
    BY <1>4 DEF RecordOutcome, store, outcome
<1>5. ASSUME NEW c \in Calls, PostEnter(c) PROVE BarredInv'
  <2>1. \A w \in Workloads : quarantine[w] # Free => quarantine'[w] # Free
    BY <1>5 DEF PostEnter, Inserted
  <2>2. \A d \in barred : req[d].workload \in Workloads
    BY RequestsAssumption
  <2> QED
    BY <1>5, <2>1, <2>2 DEF PostEnter, outcome, history
<1>6. ASSUME NEW c \in Calls, LogEvent(c) PROVE BarredInv'
  BY <1>6 DEF LogEvent, DenyUnlogged, outcome, history
<1>7. ASSUME NEW c \in Calls, LogDenial(c) \/ Execute(c) PROVE BarredInv'
  BY <1>7 DEF LogDenial, Execute, store, outcome, history
<1>8. ASSUME NEW c \in Calls, Respond(c) \/ Raise(c) PROVE BarredInv'
  BY <1>8 DEF Respond, Raise, Return, store, history
<1>9. ASSUME NEW m \in lateEnters, LandEnter(m) PROVE BarredInv'
  <2>1. \A w \in Workloads : quarantine[w] # Free => quarantine'[w] # Free
    BY <1>9 DEF LandEnter, Inserted, Posts
  <2>2. \A d \in barred : req[d].workload \in Workloads
    BY RequestsAssumption
  <2> QED
    BY <1>9, <2>1, <2>2 DEF LandEnter, perCall, outcome, history
<1>10. ASSUME NEW e, LandEvent(e) PROVE BarredInv'
  BY <1>10 DEF LandEvent, perCall, outcome, history
<1>11. ASSUME NEW w \in Workloads, Release(w) PROVE BarredInv'
  <2>1. \A d \in barred' : d \in barred /\ req[d].workload \in Workloads \ {w}
    BY <1>11, RequestsAssumption DEF Release
  <2> QED
    BY <1>11, <2>1 DEF Release, perCall, outcome
<1>12. CASE Restart
  BY <1>12 DEF Restart, InFlight, store, outcome, history
<1>13. CASE UNCHANGED vars
  BY <1>13 DEF vars, perCall, store, outcome, history
<1> QED
  BY <1>1, <1>2, <1>3, <1>4, <1>5, <1>6, <1>7, <1>8, <1>9, <1>10, <1>11, <1>12,
     <1>13 DEF Next, Serve

LEMMA TaintStep ==
  TypeOK /\ UndecidedInv /\ AuditInv /\ TaintInv /\ [Next]_vars => TaintInv'
<1> SUFFICES ASSUME TypeOK, UndecidedInv, AuditInv, TaintInv, [Next]_vars, restarts' = 0
             PROVE TaintInv'
  BY DEF TaintInv
<1>a. ~Restart /\ restarts = 0
  <2>1. ~Restart
    BY MaxRestartsAssumption DEF Restart, TypeOK
  <2>2. UNCHANGED restarts
    BY <2>1 DEF Next, Serve, vars, Arrive, Identify, CheckQuarantine, Decide,
       RecordOutcome, PostEnter, LogEvent, DenyUnlogged, LogDenial, Execute, Respond, Raise,
       LandEnter, LandEvent, Release
  <2> QED
    BY <2>1, <2>2
<1>b. \A c \in Calls : c \in executed => pc[c] \in {"respond", "done", "lost"}
  BY DEF AuditInv
<1>c. /\ pc \in [Calls -> Stages] /\ req \in [Calls -> Requests \union {NoRequest}]
      /\ decision \in [Calls -> Decision] /\ taint \in [Sessions -> Taints]
      /\ executed \subseteq Calls /\ afterContent \subseteq Calls
  BY DEF TypeOK
<1>d. \A c \in Calls : pc[c] # "idle" => req[c] \in Requests /\ req[c].session \in Sessions
  BY RequestsAssumption DEF TypeOK
<1>e. \A c \in Calls : c \in afterContent \/ c \in executed => pc[c] # "idle"
  BY <1>a, <1>b DEF TaintInv
<1> USE <1>a, <1>b, <1>c, DecisionSets DEF UndecidedInv, TaintInv, Goto
<1>1. ASSUME NEW c \in Calls, NEW r \in Requests, Arrive(c, r) PROVE TaintInv'
  <2>1. /\ pc[c] = "idle" /\ pc' = [pc EXCEPT ![c] = "identity"]
        /\ req' = [req EXCEPT ![c] = r]
        /\ UNCHANGED <<decision, taint, executed>>
    BY <1>1 DEF Arrive, outcome
  <2>2. c \notin executed /\ c \notin afterContent /\ decision[c] = DENY
    BY <2>1
  <2>3. \A d \in afterContent' :
          d \in afterContent \/ (d = c /\ r.session \in ContentSessions)
    BY <1>1 DEF Arrive
  <2>4. r.session \in ContentSessions => taint[r.session] = "tainted"
    BY <1>e DEF ContentSessions
  <2>5. \A d \in Calls : /\ decision'[d] = decision[d]
                         /\ d # c => pc'[d] = pc[d] /\ req'[d] = req[d]
    BY <2>1
  <2>6. pc'[c] = "identity" /\ req'[c] = r /\ decision'[c] = DENY
    BY <2>1, <2>2
  <2> QED
    BY <1>e, <2>1, <2>2, <2>3, <2>4, <2>5, <2>6
<1>2. ASSUME NEW c \in Calls, Identify(c) \/ CheckQuarantine(c) PROVE TaintInv'
  BY <1>2 DEF Identify, CheckQuarantine, DenyEarly, outcome, history
<1>3. ASSUME NEW c \in Calls, Decide(c) PROVE TaintInv'
  <2> DEFINE t == taint[req[c].session]
             p == Verdict[req[c]][t]
  <2>1. req[c] \in Requests /\ t \in Taints
    BY <1>3, <1>d DEF Decide
  <2>2. PICK b \in RiskBands(req[c]) :
          decision' = [decision EXCEPT ![c] =
                        FinalDecision(p, DlpDecision(req[c], p), b)]
    BY <1>3 DEF Decide
  <2>3. ASSUME t = "tainted", req[c].tool \in WRITE_TOOLS
        PROVE  decision'[c] \notin EXECUTABLE_DECISIONS
    <3>1. b \in Bands
      BY <2>2 DEF RiskBands, Bands
    <3>2. p.decision = DENY
      BY <2>1, <2>3, VerdictAssumption
    <3> QED
      BY <2>1, <2>2, <3>1, <3>2, FinalDecisionFacts
  <2>4. /\ pc[c] = "evaluate" /\ pc' = [pc EXCEPT ![c] = "record"]
        /\ UNCHANGED <<req, taint, executed, afterContent>>
    BY <1>3 DEF Decide, outcome, history
  <2>5. \A d \in Calls : d # c => pc'[d] = pc[d] /\ decision'[d] = decision[d]
    BY <2>2, <2>4
  <2>6. c \notin executed /\ pc'[c] = "record"
    BY <2>4
  <2> QED
    BY <2>3, <2>4, <2>5, <2>6
<1>4. ASSUME NEW c \in Calls, RecordOutcome(c) PROVE TaintInv'
  <2>1. PICK stage \in {"log", "enter"} : Goto(c, stage)
    BY <1>4 DEF RecordOutcome
  <2>2. pc[c] = "record" /\ UNCHANGED <<req, decision, executed, afterContent>>
    BY <1>4 DEF RecordOutcome, outcome
  <2>3. req[c].session \in Sessions
    BY <2>2, <1>d
  <2>4. \A s \in Sessions : taint[s] = "tainted" => taint'[s] = "tainted"
    BY <1>4, <2>3 DEF RecordOutcome, TaintAfter
  <2>5. req[c].tool = "http.get" /\ decision[c] \in EXECUTABLE_DECISIONS
          => taint'[req[c].session] = "tainted"
    BY <1>4, <2>3 DEF RecordOutcome, TaintAfter
  <2>6. \A d \in Calls : d # c => pc'[d] = pc[d]
    BY <2>1
  <2>7. pc'[c] \in {"log", "enter"}
    BY <2>1
  <2> QED
    BY <1>d, <2>2, <2>4, <2>5, <2>6, <2>7
<1>5. ASSUME NEW c \in Calls, PostEnter(c) PROVE TaintInv'
  BY <1>5 DEF PostEnter, outcome, history
<1>6. ASSUME NEW c \in Calls, LogEvent(c) PROVE TaintInv'
  BY <1>6 DEF LogEvent, DenyUnlogged, outcome, history
<1>7. ASSUME NEW c \in Calls, LogDenial(c) PROVE TaintInv'
  BY <1>7 DEF LogDenial, outcome, history
<1>8. ASSUME NEW c \in Calls, Execute(c) PROVE TaintInv'
  <2>1. decision[c] \in EXECUTABLE_DECISIONS
    BY <1>8 DEF Execute, AuditInv
  <2> QED
    BY <1>8, <2>1 DEF Execute, store, history
<1>9. ASSUME NEW c \in Calls, Respond(c) \/ Raise(c) PROVE TaintInv'
  BY <1>9 DEF Respond, Raise, Return, history
<1>10. ASSUME NEW m, LandEnter(m) \/ LandEvent(m) \/ Release(m) PROVE TaintInv'
  BY <1>10 DEF LandEnter, LandEvent, Release, perCall, outcome, history
<1>11. CASE UNCHANGED vars
  BY <1>11 DEF vars, perCall, store, outcome, history
<1> QED
  BY <1>1, <1>2, <1>3, <1>4, <1>5, <1>6, <1>7, <1>8, <1>9, <1>10, <1>11
     DEF Next, Serve

THEOREM InvariantHolds == Spec => []IInv
<1>1. IInv /\ [Next]_vars => IInv'
  BY NextTypeOK, UndecidedStep, AuditStep, AgreedStep, TriggerStep, BarredStep, TaintStep
     DEF IInv
<1> QED
  BY InitIInv, <1>1, PTL DEF Spec

-----------------------------------------------------------------------------
(* What the invariant gives: the safety and action properties for every    *)
(* policy that satisfies VerdictAssumption, and the refinement.            *)

\* Log-or-deny (pep/proxy.py tool_call): whatever was performed has an
\* executable verdict of its own in the event store.
THEOREM LogOrDenyHolds == Spec => []LogOrDeny
<1>1. IInv => LogOrDeny
  BY DEF IInv, AuditInv
<1> QED
  BY <1>1, InvariantHolds, PTL

\* The HTTP response says ALLOW, REDACTED or RATE_LIMIT exactly to the callers
\* whose call was performed.
THEOREM AnswerIsTruthfulHolds == Spec => []AnswerIsTruthful
<1>1. IInv => AnswerIsTruthful
  BY DEF IInv, AuditInv
<1> QED
  BY <1>1, InvariantHolds, PTL

\* Nothing is handed to _execute that policy, DLP or risk would have stopped
\* (the min of run_pipeline's stage 7).
THEOREM EveryStageAgreedHolds == Spec => []EveryStageAgreed
<1>1. \A r, p : /\ p.decision = ALLOW /\ DlpDecision(r, p) # DENY
                 /\ r.scan = "BLOCK"
                 => ~(p.inspect \/ r.external \/ r.tool = "agent.invoke")
  BY DEF DlpDecision
<1>2. IInv => EveryStageAgreed
  BY <1>1 DEF IInv, AuditInv, AgreedInv, EveryStageAgreed
<1> QED
  BY <1>2, InvariantHolds, PTL

\* A call that set off quarantine.enter is itself never performed.
THEOREM TriggerIsNotPerformedHolds == Spec => []TriggerIsNotPerformed
<1>1. IInv => TriggerIsNotPerformed
  BY DEF IInv, TriggerInv, TriggerIsNotPerformed
<1> QED
  BY <1>1, InvariantHolds, PTL

\* A call that arrives while its workload is quarantined is not performed
\* unless an operator releases the workload.
THEOREM QuarantineIsAbsoluteHolds == Spec => []QuarantineIsAbsolute
<1>1. IInv => QuarantineIsAbsolute
  BY DEF IInv, BarredInv, QuarantineIsAbsolute
<1> QED
  BY <1>1, InvariantHolds, PTL

\* As long as the PEP has not restarted, no write tool is performed for a
\* session that had already been served external content.
THEOREM TaintBeforeContentHolds == Spec => []TaintBeforeContent
<1>1. IInv => TaintBeforeContent
  BY DEF IInv, TaintInv, TaintBeforeContent, TaintOutlivesFetch
<1> QED
  BY <1>1, InvariantHolds, PTL

-----------------------------------------------------------------------------

\* After run_pipeline's minimum a decision only moves down the lattice, a
\* failed log write included.
THEOREM OnlyNarrowsHolds == Spec => OnlyNarrows
<1> DEFINE Narrows == \A c \in Calls :
       pc[c] \notin {"idle", "identity", "gate", "evaluate"}
         => decision'[c] <= decision[c]
<1>1. IInv /\ [Next]_vars => Narrows
  <2> SUFFICES ASSUME IInv, [Next]_vars PROVE Narrows
    OBVIOUS
  <2>0. pc \in [Calls -> Stages] /\ decision \in [Calls -> Decision]
    BY DEF IInv, TypeOK
  <2>1. \A c \in Calls : decision[c] \in Int /\ decision[c] >= DENY
    BY <2>0 DEF Decision, DENY, ALLOW
  <2> USE <2>0, <2>1
  <2>2. ASSUME NEW d \in Calls, Identify(d) \/ CheckQuarantine(d) PROVE Narrows
    BY <2>2 DEF Identify, CheckQuarantine, DenyEarly, Goto
  <2>3. ASSUME NEW d \in Calls, Decide(d) PROVE Narrows
    <3> PICK f : decision' = [decision EXCEPT ![d] = f]
      BY <2>3 DEF Decide
    <3> QED
      BY <2>3 DEF Decide
  <2>4. ASSUME NEW d \in Calls, LogEvent(d) PROVE Narrows
    BY <2>4 DEF LogEvent, DenyUnlogged
  <2>5. ASSUME NEW d \in Calls, Respond(d) \/ Raise(d) PROVE Narrows
    BY <2>5 DEF Respond, Raise, Return
  <2>6. CASE Restart
    BY <2>6 DEF Restart
  <2>7. CASE UNCHANGED decision
    BY <2>7
  <2> QED
    BY <2>2, <2>3, <2>4, <2>5, <2>6, <2>7
       DEF Next, Serve, Arrive, RecordOutcome, PostEnter, LogDenial, Execute,
           LandEnter, LandEvent, Release, vars, perCall
<1> QED
  BY <1>1, InvariantHolds, PTL DEF Spec, OnlyNarrows

\* The row of a quarantined workload changes only by an operator's release.
THEOREM ExitIsManualHolds == Spec => ExitIsManual
<1> DEFINE Manual == \A w \in Workloads : quarantine[w] # Free =>
       quarantine'[w] = quarantine[w] \/ Release(w)
<1>1. IInv /\ [Next]_vars => Manual
  <2> SUFFICES ASSUME IInv, [Next]_vars PROVE Manual
    OBVIOUS
  <2>1. quarantine \in [Workloads -> Reasons \union {Free}]
    BY DEF IInv, TypeOK
  <2> USE <2>1
  <2>2. ASSUME NEW v, NEW reason, quarantine' = Inserted(v, reason) PROVE Manual
    BY <2>2 DEF Inserted
  <2>3. CASE UNCHANGED quarantine
    BY <2>3
  <2>4. ASSUME NEW c \in Calls, PostEnter(c) PROVE Manual
    BY <2>2, <2>3, <2>4 DEF PostEnter
  <2>5. ASSUME NEW m, LandEnter(m) PROVE Manual
    BY <2>2, <2>5 DEF LandEnter
  <2>6. ASSUME NEW v \in Workloads, Release(v) PROVE Manual
    BY <2>6 DEF Release
  <2> QED
    BY <2>3, <2>4, <2>5, <2>6
       DEF Next, Serve, Arrive, Identify, CheckQuarantine, Decide, RecordOutcome,
           LogEvent, LogDenial, Execute, Respond, Raise, LandEvent, Restart, vars,
           store
<1> QED
  BY <1>1, InvariantHolds, PTL DEF Spec, ExitIsManual

-----------------------------------------------------------------------------
(* The refinement.                                                         *)

LEMMA GateDecisions == /\ Gate!Decision = Decision
                       /\ Gate!EXECUTABLE_DECISIONS = EXECUTABLE_DECISIONS
BY DEF Gate!Decision, Decision, Gate!EXECUTABLE_DECISIONS, EXECUTABLE_DECISIONS,
   Gate!DENY, DENY, Gate!RATE_LIMIT, RATE_LIMIT, Gate!ALLOW_REDACTED, ALLOW_REDACTED,
   Gate!ALLOW, ALLOW

LEMMA InitRefines == Init => Gate!Init
BY DEF Init, Gate!Init

\* A step of Pep is a step of the audited gate, or changes none of its variables.
LEMMA StepRefines == IInv /\ [Next]_vars => [Gate!Next]_(Gate!gateVars)
<1> SUFFICES ASSUME IInv, [Next]_vars PROVE [Gate!Next]_(Gate!gateVars)
  OBVIOUS
<1>t. /\ pc \in [Calls -> Stages]
      /\ decision \in [Calls -> Decision]
      /\ \A e \in lateEvents : \E c \in Calls, d \in Decision : e = Event(c, d)
  BY DEF IInv, TypeOK, Event
<1> USE <1>t DEF Goto
<1>1. ASSUME NEW c \in Calls, NEW d \in Decision,
             events' = events \union {Event(c, d)}, UNCHANGED outcome
      PROVE  Gate!Next
  <2> Gate!Record(c)
    BY <1>1, GateDecisions DEF Gate!Record, Event, outcome
  <2> QED
    BY DEF Gate!Next
<1>2. CASE UNCHANGED <<events, outcome>>
  BY <1>2 DEF Gate!gateVars, outcome
<1>3. ASSUME NEW c \in Calls, LogEvent(c) PROVE [Gate!Next]_(Gate!gateVars)
  BY <1>1, <1>2, <1>3 DEF LogEvent, DenyUnlogged, EventStored, EventUnacked
<1>4. ASSUME NEW c \in Calls, LogDenial(c) PROVE [Gate!Next]_(Gate!gateVars)
  BY <1>1, <1>2, <1>4 DEF LogDenial, EventStored, EventUnacked
<1>5. ASSUME NEW e \in lateEvents, LandEvent(e) PROVE Gate!Next
  BY <1>1, <1>5 DEF LandEvent
<1>6. ASSUME NEW c \in Calls, Execute(c) PROVE Gate!Next
  <2>1. /\ c \notin executed /\ answer[c] = Gate!PENDING
        /\ Event(c, decision[c]) \in events
        /\ decision[c] \in EXECUTABLE_DECISIONS
    BY <1>6 DEF Execute, IInv, AuditInv
  <2>2. Gate!Perform(c)
    BY <1>6, <2>1, GateDecisions DEF Gate!Perform, Execute, Event, store
  <2> QED
    BY <2>2 DEF Gate!Next
<1>7. ASSUME NEW c \in Calls, Respond(c) PROVE Gate!Next
  <2>1. /\ answer[c] = Gate!PENDING /\ decision[c] \in Decision
        /\ answer' = [answer EXCEPT ![c] = decision[c]]
        /\ decision[c] \in EXECUTABLE_DECISIONS <=> c \in executed
    BY <1>7 DEF Respond, Return, IInv, AuditInv
  <2>2. Gate!Answer(c)
    BY <1>7, <2>1, GateDecisions DEF Gate!Answer, Respond, store
  <2> QED
    BY <2>2 DEF Gate!Next
<1>8. ASSUME NEW c \in Calls, Raise(c) PROVE Gate!Next
  <2>1. /\ answer[c] = Gate!PENDING /\ c \notin executed
        /\ answer' = [answer EXCEPT ![c] = Gate!FAULT]
    BY <1>8 DEF Raise, Return, IInv, AuditInv
  <2>2. Gate!FAULT \notin EXECUTABLE_DECISIONS
    BY AnswerCodes, DecisionSets
  <2>3. Gate!Answer(c)
    BY <1>8, <2>1, <2>2, GateDecisions DEF Gate!Answer, Raise, store
  <2> QED
    BY <2>3 DEF Gate!Next
<1> QED
  BY <1>2, <1>3, <1>4, <1>5, <1>6, <1>7, <1>8
     DEF Next, Serve, Arrive, Identify, CheckQuarantine, Decide, RecordOutcome,
         PostEnter, LandEnter, Release, Restart, vars, store

\* The enforcement point implements the audited gate: no effect without a
\* durable executable verdict of its own, no effect twice, no false answer.
THEOREM PepImplementsGate == Spec => ImplementsGate
<1> QED
  BY InitRefines, StepRefines, InvariantHolds, PTL DEF Spec, ImplementsGate, Gate!Spec
=============================================================================
