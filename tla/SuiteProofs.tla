----------------------------- MODULE SuiteProofs -----------------------------
(***************************************************************************)
(* The suite's results are what it says they are, for every selection and  *)
(* order of the scenarios, any number of remembered denials and of faults. *)
(*                                                                         *)
(* The properties speak of results, long after the calls that earned them. *)
(* The invariant therefore carries, from the call to the report: where a   *)
(* row of the table may come from (FreshInv) and which row a call met      *)
(* (RowInv), how a call came by its verdict (ReasonInv), that the cascade  *)
(* leaves a row behind (CascadeInv), what the running script has proved    *)
(* (ScriptInv) and what a result stands for (ResultInv); UnsentInv and     *)
(* ClientInv keep the calls of one scenario apart from those of another.   *)
(* What the deployed bundle says of each graded call is proved last, from  *)
(* its rules.                                                              *)
(***************************************************************************)
EXTENDS Suite, PolicyEngineProofs, SequenceTheorems

Names == {Attacks[i] : i \in DOMAIN Attacks}

-----------------------------------------------------------------------------
(* The inductive invariant.                                                *)

Answered(id) == call[id].client = "answered"
Gone(id)     == call[id].client = "gone"
Waiting(id)  == call[id].client = "waiting"
Expected(id) == CallOf(id).expected

\* The script has its answer, or it still waits for it.
Live(id) == Answered(id) \/ (Waiting(id) /\ phase = "wait")

PolicyReasons ==
  {"matched_explicit_allow", "no_matching_rule", "matched_explicit_deny", "taint_ceiling",
   "matched_explicit_east_west_allow", "no_matching_east_west_rule",
   "matched_explicit_east_west_deny"}
StageReasons ==
  {"dlp_block", "dlp_pass", "risk_band_low", "risk_band_moderate", "risk_band_high",
   "risk_band_critical"}
Quarantining == {"AGENT_QUARANTINED", "event_store_write_failed"}
Reasons == {"none", "BYPASS_ATTEMPTED"} \union Quarantining \union Unavailable
             \union PolicyReasons \union StageReasons

CallType == [stage : Stages, client : {"none", "waiting", "answered", "gone"},
             decision : Decision, reason : Reasons,
             posts : Seq({"denials", "critical", "threat_intel"}), row : Rows]

\* What TypeOK says, part by part, functions and sequences named as such.
HostShape ==
  /\ phase \in Phases /\ at \in 1 .. Len(Attacks) + 1
  /\ listed \subseteq Services
  /\ script \in [step : Nat, ok : BOOLEAN, match : BOOLEAN]
  /\ InScript => at <= Len(Attacks) /\ script.step \in DOMAIN Current.calls
  /\ result \in [Names -> {"none", "VERIFIED", "MISMATCH", "UNVERIFIED"}]
  /\ exit \in {"running", "success", "failure", "crash"}

CallShape ==
  /\ call \in [Ids -> CallType]
  /\ \A id \in Ids : call[id].stage = "enter" <=> call[id].posts # <<>>

TableShape ==
  /\ tainted \subseteq Names /\ late \subseteq Ids
  /\ denials \in [Services -> Seq(Ids \union Earlier)]
  /\ quarantine \in [Services -> Rows]

FaultShape == faults \in 0 .. MaxFaults

\* The suite has not come to an attack's calls before it runs its script, nor
\* to a call before the script's step.
NotReached(i, k) ==
  \/ i > at
  \/ i = at /\ phase # "ended" /\ ~ InScript
  \/ i = at /\ InScript /\ k > script.step
  \/ i = at /\ phase \in {"attest", "send"} /\ k = script.step

UnsentInv ==
  \A i \in DOMAIN Attacks : \A k \in DOMAIN ScenarioOf(Attacks[i]).calls :
    NotReached(i, k) => call[<<Attacks[i], k>>] = Unsent

\* Only the script's current call is waited for, and an answer comes last.
ClientInv ==
  /\ phase = "dispatch" => at <= Len(Attacks)
  /\ phase = "wait" => Waiting(Id)
  /\ \A id \in Ids :
       /\ Waiting(id) => phase \in {"wait", "ended"} /\ at <= Len(Attacks) /\ id = Id
       /\ Answered(id) => call[id].stage = "done"
       /\ call[id].client = "none" <=> call[id].stage = "unsent"

\* Where a row may come from once the table has been found empty.
Since(row, i) ==
  /\ row.since = i
  /\ row.by \in Ids
  /\ row.late \/ row.by[1] = Attacks[i] \/ Gone(row.by)

FreshInv ==
  phase = "dispatch" \/ InScript =>
    \A s \in Services : quarantine[s] # NoRow => Since(quarantine[s], at)

\* A call that was not given up was stopped by such a row only.
RowInv ==
  \A i \in DOMAIN Attacks : \A k \in DOMAIN ScenarioOf(Attacks[i]).calls :
    call[<<Attacks[i], k>>].row # NoRow /\ Live(<<Attacks[i], k>>)
      => Since(call[<<Attacks[i], k>>].row, i)

\* A session is tainted by a page only.
Reads(a) == \E k \in DOMAIN ScenarioOf(a).calls : ScenarioOf(a).calls[k].tool = "http.get"
TaintInv == \A a \in tainted : Reads(a)

\* How a call came by its verdict.
Verdicted(id) ==
  \E t \in Taints : \E b \in BandsOf(CallOf(id)) :
    LET v == FinalVerdict(RoleOf(id), ServiceOf(id), CallOf(id), t, b)
    IN /\ t = "tainted" => Reads(id[1])
       /\ v.decision = call[id].decision /\ v.reason = call[id].reason

Outcome(id) ==
  LET c == call[id]
  IN \/ c.row # NoRow /\ c.decision = DENY /\ c.reason \in Quarantining
     \/ c.row = NoRow /\ c.decision = DENY /\ c.reason \in Unavailable
     \/ c.row = NoRow /\ Verdicted(id)

Unjudged == {"unsent", "queued", "bypassLog", "gate", "decide"}
RawStages == {"unsent", "queued", "bypassLog", "answer", "done"}

RawReason(id) ==
  LET c == call[id]
  IN /\ c.row = NoRow /\ c.stage \in RawStages
     /\ c.stage \in {"answer", "done"} => c.decision = DENY /\ c.reason = "BYPASS_ATTEMPTED"

ReasonInv ==
  \A id \in Ids :
    /\ call[id].stage \in Unjudged \union {"enter"} => call[id].row = NoRow
    /\ IsRaw(id) => RawReason(id)
    /\ ~ IsRaw(id) => call[id].stage # "bypassLog"
    /\ ~ IsRaw(id) /\ call[id].stage \notin Unjudged => Outcome(id)

\* The first call of the cascade leaves its quarantine behind unless a
\* service fails, so that the second meets it.
PastEnter == {"log", "answer", "done"}
Admitted == {"decide", "enter", "log", "answer", "done"}
LeavesRow(i) ==
  i = at /\ InScript /\ call[<<Attacks[i], 1>>].stage \in PastEnter /\ faults = 0
    => quarantine[ScenarioOf(Attacks[i]).service] # NoRow
MeetsRow(i) ==
  Answered(<<Attacks[i], 1>>) /\ Live(<<Attacks[i], 2>>) /\ faults = 0
    => call[<<Attacks[i], 2>>].stage \notin Admitted \/ call[<<Attacks[i], 2>>].row # NoRow
CascadeInv ==
  \A i \in DOMAIN Attacks : ScenarioOf(Attacks[i]).how = "cascade" => LeavesRow(i) /\ MeetsRow(i)

RoleIsRight(a) == AGENT_REGISTRY[ScenarioOf(a).service] = ScenarioOf(a).role

\* The calls of the running script that are behind it, and how they went.
Behind == {k \in DOMAIN Current.calls : k < script.step \/ phase \in {"reattest", "report"}}
Proved(id) == Assess(call[id], Expected(id))

ScriptInv ==
  InScript =>
    /\ phase \in {"send", "wait"} /\ Current.how \in {"single", "cascade"} => RoleMatches
    /\ phase = "attest" => Current.how # "raw"
    /\ phase = "reattest" => Current.how = "loop"
    /\ Current.how = "loop" /\ phase # "report" => script.ok
    /\ script.ok =>
       /\ \A k \in Behind : Answered(<<Attack, k>>)
       /\ script.match <=> \A k \in Behind \intersect Graded(Attack) : Proved(<<Attack, k>>)
       /\ phase = "report" => RoleMatches \/ Current.how = "raw"

\* A result stands for what the calls show.
ResultInv ==
  \A a \in Names : result[a] \in {"VERIFIED", "MISMATCH"} =>
    /\ RoleIsRight(a) \/ ScenarioOf(a).how = "raw"
    /\ \A k \in DOMAIN ScenarioOf(a).calls : Answered(<<a, k>>)
    /\ result[a] = "VERIFIED" <=> \A k \in Graded(a) : Proved(<<a, k>>)

IInv == /\ HostShape /\ CallShape /\ TableShape /\ FaultShape
        /\ UnsentInv /\ ClientInv /\ FreshInv /\ RowInv /\ TaintInv
        /\ ReasonInv /\ CascadeInv /\ ScriptInv /\ ResultInv

-----------------------------------------------------------------------------
(* The scenarios and their calls.                                          *)

\* What the suite relies on in every scenario, one by one.
LEMMA ScenarioFacts ==
  ASSUME NEW a \in DOMAIN ATTACK_SPECS
  PROVE  LET s == ScenarioOf(a)
             n == Len(s.calls)
         IN /\ s.how \in {"single", "loop", "raw", "cascade"}
            /\ s.service \in Services
            /\ n \in 1 .. 3 /\ DOMAIN s.calls = 1 .. n
            /\ s.how \in {"single", "raw"} => n = 1
            /\ s.how = "raw" => s.calls[1].expected = "BYPASS_ATTEMPTED"
            /\ s.how = "cascade" => /\ n = 2
                                    /\ s.calls[1].fqdn \in KnownBadHosts
                                    /\ s.calls[1].expected = "no_matching_rule"
                                    /\ s.calls[2].expected = "AGENT_QUARANTINED"
            /\ \A k \in 1 .. n : /\ s.calls[k].expected \notin Unavailable
                                 /\ s.calls[k].expected = "AGENT_QUARANTINED"
                                      => s.how = "cascade" /\ k = 2
<1> USE DEF ScenarioOf, Services, AGENT_REGISTRY, KnownBadHosts, Unavailable,
            Scenario, Call, Fetch, Query, Ungraded
<1>1. CASE a = "A1"
  BY <1>1 DEF ATTACK_SPECS, A1
<1>2. CASE a = "A2"
  BY <1>2 DEF ATTACK_SPECS, A2
<1>3. CASE a = "A3"
  BY <1>3 DEF ATTACK_SPECS, A3
<1>4. CASE a = "A4"
  BY <1>4 DEF ATTACK_SPECS, A4
<1>5. CASE a = "A5"
  BY <1>5 DEF ATTACK_SPECS, A5
<1>6. CASE a = "A6"
  BY <1>6 DEF ATTACK_SPECS, A6
<1>7. CASE a = "A7"
  BY <1>7 DEF ATTACK_SPECS, A7
<1>8. CASE a = "A8"
  BY <1>8 DEF ATTACK_SPECS, A8
<1>9. CASE a = "A9"
  BY <1>9 DEF ATTACK_SPECS, A9
<1>10. CASE a = "A10"
  BY <1>10 DEF ATTACK_SPECS, A10
<1>11. DOMAIN ATTACK_SPECS = {"A1", "A2", "A3", "A4", "A5", "A6", "A7", "A8", "A9", "A10"}
  BY DEF ATTACK_SPECS
<1> QED
  BY <1>1, <1>2, <1>3, <1>4, <1>5, <1>6, <1>7, <1>8, <1>9, <1>10, <1>11

\* The attacks dispatched are scenarios of the suite.
LEMMA Dispatched ==
  /\ DOMAIN Attacks = 1 .. Len(Attacks) /\ Len(Attacks) \in Nat
  /\ \A i \in DOMAIN Attacks : Attacks[i] \in Names /\ Attacks[i] \in DOMAIN ATTACK_SPECS
  /\ \A a \in Names : a \in DOMAIN ATTACK_SPECS /\ \E i \in DOMAIN Attacks : a = Attacks[i]
  /\ \A i, j \in DOMAIN Attacks : Attacks[i] = Attacks[j] => i = j
<1>1. Attacks \in Seq(DOMAIN ATTACK_SPECS)
  BY AttacksAssumption
<1>2. DOMAIN Attacks = 1 .. Len(Attacks) /\ Len(Attacks) \in Nat
  BY <1>1
<1>3. \A i \in DOMAIN Attacks : Attacks[i] \in DOMAIN ATTACK_SPECS
  BY <1>1, <1>2
<1> QED
  BY <1>2, <1>3, AttacksAssumption DEF Names

\* An identifier is a scenario dispatched and one of its calls.
LEMMA IdIsCall ==
  /\ \A i \in DOMAIN Attacks : \A k \in DOMAIN ScenarioOf(Attacks[i]).calls :
       <<Attacks[i], k>> \in Ids
  /\ \A id \in Ids : \E i \in DOMAIN Attacks : \E k \in DOMAIN ScenarioOf(Attacks[i]).calls :
       id = <<Attacks[i], k>>
  /\ \A id \in Ids : id[1] \in Names /\ ServiceOf(id) \in Services
<1>1. \A id : id \in Ids <=> \E i \in DOMAIN Attacks :
        \E k \in DOMAIN ScenarioOf(Attacks[i]).calls : id = <<Attacks[i], k>>
  BY DEF Ids
<1>2. \A id \in Ids : id[1] \in Names
  BY <1>1, Dispatched
<1>3. \A id \in Ids : ServiceOf(id) \in Services
  BY <1>2, Dispatched, ScenarioFacts DEF ServiceOf
<1> QED
  BY <1>1, <1>2, <1>3

\* A row of the table is not the absence of one.
LEMMA RowIsNoRow ==
  /\ NoRow \in Rows
  /\ \A by \in Ids \union Earlier, isLate \in BOOLEAN, i \in Nat :
       [by |-> by, late |-> isLate, since |-> i] # NoRow
  /\ \A by \in Ids \union Earlier, isLate \in BOOLEAN, i \in 0 .. Len(Attacks) + 1 :
       [by |-> by, late |-> isLate, since |-> i] \in Rows
<1>1. \A by \in Ids \union Earlier, isLate \in BOOLEAN, i \in Nat :
        [by |-> by, late |-> isLate, since |-> i]
          \in [by : Ids \union Earlier, late : BOOLEAN, since : Nat]
  OBVIOUS
<1>2. \A by \in Ids \union Earlier, isLate \in BOOLEAN, i \in Nat :
        [by |-> by, late |-> isLate, since |-> i] # NoRow
  BY <1>1, NoRowAssumption
<1>3. NoRow \in Rows
  BY DEF Rows
<1>4. \A by \in Ids \union Earlier, isLate \in BOOLEAN, i \in 0 .. Len(Attacks) + 1 :
        [by |-> by, late |-> isLate, since |-> i] \in Rows
  BY DEF Rows
<1> QED
  BY <1>2, <1>3, <1>4

-----------------------------------------------------------------------------
(* The initial states.                                                     *)

\* A call that was not made is well-formed.
LEMMA UnsentIsCall == Unsent \in CallType
<1>1. DENY \in Decision /\ "unsent" \in Stages /\ NoRow \in Rows
  BY RowIsNoRow DEF Decision, DENY, ALLOW, Stages
<1>2. "none" \in Reasons
  BY DEF Reasons
<1> QED
  BY <1>1, <1>2 DEF Unsent, CallType

\* The suite starts in the invariant: nothing was dispatched, no call made, and
\* the table is empty or holds a quarantine from before (run_all.py's main).
THEOREM SuiteInit == Init => IInv
<1> SUFFICES ASSUME Init PROVE IInv
  OBVIOUS
<1>1. HostShape
  BY Dispatched DEF Init, HostShape, Phases, InScript, Names
<1>2. call = [id \in Ids |-> Unsent] /\ call \in [Ids -> CallType]
  BY UnsentIsCall DEF Init
<1>3. \A id \in Ids : call[id] = Unsent /\ call[id].stage = "unsent" /\ call[id].client = "none"
                      /\ call[id].row = NoRow /\ call[id].posts = <<>>
  BY <1>2 DEF Unsent
<1>4. CallShape
  BY <1>2, <1>3 DEF CallShape
<1>5. TableShape
  <2>1. PICK n \in 0 .. MaxEarlier :
          denials = [s \in Services |->
                       IF s = "agent" THEN [k \in 1 .. n |-> <<"earlier", k>>] ELSE <<>>]
    BY DEF Init
  <2>2. [k \in 1 .. n |-> <<"earlier", k>>] \in Seq(Ids \union Earlier)
    BY BoundsAssumption DEF Earlier
  <2>3. denials \in [Services -> Seq(Ids \union Earlier)]
    BY <2>1, <2>2
  <2>4. quarantine \in [Services -> Rows]
    <3>1. <<"earlier", 1>> \in Earlier
      BY BoundsAssumption DEF Earlier
    <3>2. [by |-> <<"earlier", 1>>, late |-> FALSE, since |-> 0] \in Rows
      BY <3>1, Dispatched DEF Rows
    <3>3. CASE quarantine = [s \in Services |-> NoRow]
      BY <3>3, RowIsNoRow
    <3>4. CASE quarantine = [s \in Services |-> IF s = "agent"
                               THEN [by |-> <<"earlier", 1>>, late |-> FALSE, since |-> 0]
                               ELSE NoRow]
      BY <3>2, <3>4, RowIsNoRow
    <3> QED
      BY <3>3, <3>4 DEF Init
  <2> QED
    BY <2>3, <2>4 DEF Init, TableShape
<1>6. UnsentInv
  BY <1>3, IdIsCall DEF UnsentInv
<1>7. ClientInv
  BY <1>3 DEF ClientInv, Waiting, Answered, Init
<1>8. FreshInv /\ ScriptInv
  BY DEF Init, FreshInv, ScriptInv, InScript
<1>9. RowInv
  BY <1>3, IdIsCall DEF RowInv
<1>10. ReasonInv
  BY <1>3 DEF ReasonInv, RawReason, RawStages, Unjudged
<1>11. CascadeInv
  <2> SUFFICES ASSUME NEW i \in DOMAIN Attacks, ScenarioOf(Attacks[i]).how = "cascade"
               PROVE  LeavesRow(i) /\ MeetsRow(i)
    BY DEF CascadeInv
  <2>1. <<Attacks[i], 1>> \in Ids
    BY IdIsCall, Dispatched, ScenarioFacts
  <2> QED
    BY <1>3, <2>1 DEF LeavesRow, MeetsRow, Answered, InScript, Init
<1>12. TaintInv /\ FaultShape
  BY BoundsAssumption DEF Init, TaintInv, FaultShape
<1>13. ResultInv
  BY DEF Init, ResultInv, Names
<1> QED
  BY <1>1, <1>4, <1>5, <1>6, <1>7, <1>8, <1>9, <1>10, <1>11, <1>12, <1>13 DEF IInv
-----------------------------------------------------------------------------
(* The steps of the enforcement point.                                     *)

\* The call a script is at, and the calls it may have out.
LEMMA CurrentCall ==
  ASSUME HostShape
  PROVE  /\ at <= Len(Attacks) => at \in DOMAIN Attacks /\ Attack \in Names
         /\ InScript => Id \in Ids
<1>1. at <= Len(Attacks) => at \in DOMAIN Attacks
  BY Dispatched DEF HostShape
<1>2. InScript => Id \in Ids
  BY <1>1, IdIsCall DEF HostShape, Id, Attack, Current
<1> QED
  BY <1>1, <1>2, Dispatched DEF Attack

\* A call that is being served has been sent, and its script has no answer.
LEMMA Served ==
  ASSUME IInv, NEW id \in Ids, call[id].stage \notin {"unsent", "done"}
  PROVE  /\ Waiting(id) \/ Gone(id)
         /\ ~ Answered(id)
         /\ Waiting(id) => at \in DOMAIN Attacks /\ id = Id /\ id[1] = Attack
         /\ Live(id) => InScript /\ Waiting(id)
<1>1. call[id].client \in {"none", "waiting", "answered", "gone"}
  BY DEF IInv, CallShape, CallType
<1>2. /\ Answered(id) => call[id].stage = "done"
      /\ call[id].client = "none" <=> call[id].stage = "unsent"
      /\ Waiting(id) => at <= Len(Attacks) /\ id = Id
  BY DEF IInv, ClientInv
<1>3. at <= Len(Attacks) => at \in DOMAIN Attacks
  BY CurrentCall DEF IInv
<1> QED
  BY <1>1, <1>2, <1>3 DEF Waiting, Gone, Answered, Live, InScript, Id

\* What a step of one call leaves alone: the suite, the other calls, and
\* whatever is said of the calls that have been answered.
LEMMA ServeFrame ==
  ASSUME IInv, NEW id \in Ids, UNCHANGED host,
         \A x \in Ids : x # id => call'[x] = call[x],
         call'[id].client = call[id].client,
         call[id].stage \notin {"unsent", "done"}, call'[id].stage # "unsent"
  PROVE  /\ HostShape' /\ UnsentInv' /\ ClientInv' /\ ScriptInv' /\ ResultInv'
         /\ InScript' = InScript
         /\ \A x \in Ids : /\ Live(x)' <=> Live(x)
                           /\ Gone(x)' <=> Gone(x)
                           /\ Answered(x)' <=> Answered(x)
                           /\ Waiting(x)' <=> Waiting(x)
<1>0. /\ phase' = phase /\ at' = at /\ listed' = listed /\ script' = script
      /\ result' = result /\ exit' = exit
  BY DEF host
<1>1. /\ InScript' = InScript /\ Attack' = Attack /\ Current' = Current /\ Id' = Id
      /\ RoleMatches' = RoleMatches /\ Behind' = Behind
  BY <1>0 DEF InScript, Attack, Current, Id, RoleMatches, Behind
<1>2. \A x \in Ids : call'[x].client = call[x].client
  OBVIOUS
<1>3. \A x \in Ids : /\ Live(x)' <=> Live(x)
                     /\ Gone(x)' <=> Gone(x)
                     /\ Answered(x)' <=> Answered(x)
                     /\ Waiting(x)' <=> Waiting(x)
  BY <1>0, <1>2 DEF Live, Gone, Answered, Waiting
<1>4. \A x \in Ids : Answered(x) => call'[x] = call[x]
  BY Served
<1>5. HostShape'
  BY <1>0, <1>1 DEF IInv, HostShape
<1>6. UnsentInv'
  <2> SUFFICES ASSUME NEW i \in DOMAIN Attacks, NEW k \in DOMAIN ScenarioOf(Attacks[i]).calls,
                      NotReached(i, k)'
               PROVE  call'[<<Attacks[i], k>>] = Unsent
    BY DEF UnsentInv
  <2>1. NotReached(i, k)
    BY <1>0, <1>1 DEF NotReached
  <2>2. call[<<Attacks[i], k>>] = Unsent /\ <<Attacks[i], k>> \in Ids
    BY <2>1, IdIsCall DEF IInv, UnsentInv
  <2> QED
    BY <2>2 DEF Unsent
<1>7. ClientInv'
  <2>1. \A x \in Ids : call'[x].client = "none" <=> call'[x].stage = "unsent"
    BY <1>2 DEF IInv, ClientInv
  <2>2. \A x \in Ids : Answered(x)' => call'[x].stage = "done"
    BY <1>3, <1>4 DEF IInv, ClientInv
  <2>3. phase = "wait" => Waiting(Id)'
    BY <1>1, <1>3, CurrentCall DEF IInv, ClientInv, InScript
  <2> QED
    BY <1>0, <1>1, <1>3, <2>1, <2>2, <2>3 DEF IInv, ClientInv
<1>8. ScriptInv'
  <2> SUFFICES ASSUME InScript PROVE ScriptInv'
    BY <1>1 DEF ScriptInv
  <2>1. \A k \in DOMAIN Current.calls : <<Attack, k>> \in Ids
    BY CurrentCall, IdIsCall DEF IInv, HostShape, Current, Attack
  <2>2. \A k \in Behind : <<Attack, k>> \in Ids
    BY <2>1 DEF Behind
  <2>3. ASSUME script.ok, NEW k \in Behind
        PROVE  Answered(<<Attack, k>>)' /\ (Proved(<<Attack, k>>)' <=> Proved(<<Attack, k>>))
    BY <1>1, <1>3, <1>4, <2>2, <2>3 DEF IInv, ScriptInv, Proved
  <2>4. script.ok => \A k \in Behind' : Answered(<<Attack, k>>)'
    BY <1>1, <2>3
  <2>5. script.ok => (script.match <=> \A k \in Behind' \intersect Graded(Attack) :
                                         Proved(<<Attack, k>>)')
    BY <1>1, <2>3 DEF IInv, ScriptInv
  <2>6. /\ phase \in {"send", "wait"} /\ Current.how \in {"single", "cascade"} => RoleMatches
        /\ phase = "attest" => Current.how # "raw"
        /\ phase = "reattest" => Current.how = "loop"
        /\ Current.how = "loop" /\ phase # "report" => script.ok
        /\ script.ok /\ phase = "report" => RoleMatches \/ Current.how = "raw"
    BY DEF IInv, ScriptInv
  <2> QED
    BY <1>0, <1>1, <2>4, <2>5, <2>6 DEF ScriptInv
<1>9. ResultInv'
  <2> SUFFICES ASSUME NEW a \in Names, result[a] \in {"VERIFIED", "MISMATCH"}
               PROVE  /\ \A k \in DOMAIN ScenarioOf(a).calls : Answered(<<a, k>>)'
                      /\ \A k \in Graded(a) : Proved(<<a, k>>)' <=> Proved(<<a, k>>)
    BY <1>0 DEF IInv, ResultInv
  <2>1. \A k \in DOMAIN ScenarioOf(a).calls : <<a, k>> \in Ids /\ Answered(<<a, k>>)
    BY Dispatched, IdIsCall DEF IInv, ResultInv
  <2> QED
    BY <1>3, <1>4, <2>1 DEF Graded, Proved
<1> QED
  BY <1>1, <1>3, <1>5, <1>6, <1>7, <1>8, <1>9

\* The quarantine may gain rows that began with the attack that is running.
LEMMA ServeRows ==
  ASSUME IInv, UNCHANGED host, \A x \in Ids : Gone(x)' <=> Gone(x),
         \A s \in Services : quarantine'[s] # quarantine[s] /\ (phase = "dispatch" \/ InScript)
           => Since(quarantine'[s], at)
  PROVE  FreshInv'
<1>1. phase' = phase /\ at' = at /\ InScript' = InScript
  BY DEF host, InScript
<1>2. \A row : Since(row, at) => Since(row, at)'
  BY <1>1 DEF Since
<1> QED
  BY <1>1, <1>2 DEF IInv, FreshInv

\* A call meets a row only while it is served by the gate.
LEMMA ServeMet ==
  ASSUME IInv, NEW id \in Ids, UNCHANGED host,
         \A x \in Ids : Gone(x)' <=> Gone(x), \A x \in Ids : Live(x)' <=> Live(x),
         \A x \in Ids : x # id => call'[x] = call[x],
         \/ call'[id].row \in {NoRow, call[id].row}
         \/ call'[id].row = quarantine[ServiceOf(id)] /\ call[id].stage = "gate"
  PROVE  RowInv'
<1> SUFFICES ASSUME NEW i \in DOMAIN Attacks, NEW k \in DOMAIN ScenarioOf(Attacks[i]).calls,
                    call'[<<Attacks[i], k>>].row # NoRow, Live(<<Attacks[i], k>>)
             PROVE  \A row : row = call'[<<Attacks[i], k>>].row => Since(row, i)'
  BY IdIsCall DEF RowInv
<1> DEFINE x == <<Attacks[i], k>>
<1>1. x \in Ids
  BY IdIsCall
<1>2. \A row : Since(row, i) => Since(row, i)'
  BY DEF Since
<1>3. CASE call'[x].row = call[x].row
  BY <1>2, <1>3 DEF IInv, RowInv
<1>4. CASE x = id /\ call'[id].row = quarantine[ServiceOf(id)] /\ call[id].stage = "gate"
  <2>1. at \in DOMAIN Attacks /\ Attacks[i] = Attacks[at] /\ InScript
    BY <1>1, <1>4, Served DEF Attack
  <2>2. i = at
    BY <2>1, Dispatched
  <2> QED
    BY <1>2, <1>4, <2>1, <2>2, IdIsCall DEF IInv, FreshInv
<1> QED
  BY <1>1, <1>3, <1>4
\* The cascade's calls, when the table keeps its rows: the first may pass the
\* posting of its triggers only if its row is there, and the second may pass
\* the gate only if there was none.
LEMMA ServeCascade ==
  ASSUME IInv, NEW id \in Ids, UNCHANGED host,
         \A x \in Ids : /\ Live(x)' <=> Live(x)
                        /\ Answered(x)' <=> Answered(x),
         \A x \in Ids : x # id => call'[x] = call[x],
         call[id].stage \notin {"unsent", "done"},
         faults' = 0 => faults = 0,
         \A s \in Services : quarantine[s] # NoRow => quarantine'[s] # NoRow,
         (/\ id = <<id[1], 1>> /\ ScenarioOf(id[1]).how = "cascade" /\ faults' = 0
          /\ call'[id].stage \in PastEnter)
           => call[id].stage \in PastEnter \/ quarantine'[ServiceOf(id)] # NoRow,
         \/ ScenarioOf(id[1]).how # "cascade"
         \/ call[id].stage \in Admitted /\ call'[id].row = call[id].row
         \/ call'[id].stage \notin Admitted
         \/ quarantine[ServiceOf(id)] = NoRow
         \/ call'[id].row # NoRow
         \/ faults' # 0
  PROVE  CascadeInv'
<1>0. phase' = phase /\ at' = at /\ InScript' = InScript
  BY DEF host, InScript
<1> SUFFICES ASSUME NEW i \in DOMAIN Attacks, ScenarioOf(Attacks[i]).how = "cascade"
             PROVE  LeavesRow(i)' /\ MeetsRow(i)'
  BY DEF CascadeInv
<1> DEFINE first  == <<Attacks[i], 1>>
           second == <<Attacks[i], 2>>
<1>1. /\ first \in Ids /\ second \in Ids /\ first # second
      /\ first = <<first[1], 1>> /\ ScenarioOf(first[1]).how = "cascade"
      /\ ServiceOf(first) = ScenarioOf(Attacks[i]).service
      /\ ServiceOf(second) = ScenarioOf(Attacks[i]).service
      /\ ScenarioOf(Attacks[i]).service \in Services
  BY IdIsCall, Dispatched, ScenarioFacts DEF CallOf, ServiceOf
<1>2. LeavesRow(i) /\ MeetsRow(i)
  BY DEF IInv, CascadeInv
<1>3. LeavesRow(i)'
  BY <1>0, <1>1, <1>2 DEF LeavesRow
<1>4. MeetsRow(i)'
  <2> SUFFICES ASSUME Answered(first), Live(second), faults' = 0, call'[second].stage \in Admitted
               PROVE  call'[second].row # NoRow
    BY <1>1 DEF MeetsRow
  <2>1. CASE id # second \/ (call[id].stage \in Admitted /\ call'[id].row = call[id].row)
    BY <1>1, <1>2, <2>1 DEF MeetsRow
  <2>2. CASE id = second
    <3>1. at \in DOMAIN Attacks /\ id[1] = Attack /\ InScript
      BY <2>2, Served
    <3>2. i = at
      BY <2>2, <3>1, Dispatched DEF Attack
    <3>3. call[first].stage = "done"
      BY <1>1 DEF IInv, ClientInv
    <3>4. quarantine[ServiceOf(id)] # NoRow
      BY <1>1, <1>2, <2>2, <3>1, <3>2, <3>3 DEF LeavesRow, PastEnter
    <3> QED
      BY <1>1, <1>2, <2>1, <2>2, <3>4
  <2> QED
    BY <2>1, <2>2
<1> QED
  BY <1>3, <1>4

\* The reasons and decisions that the pipeline writes itself are well-formed.
LEMMA Literals ==
  /\ DENY \in Decision /\ "BYPASS_ATTEMPTED" \in Reasons
  /\ Unavailable \subseteq Reasons /\ Quarantining \subseteq Reasons
  /\ PolicyReasons \subseteq Reasons /\ StageReasons \subseteq Reasons
  /\ {"gate", "bypassLog", "decide", "enter", "log", "answer", "done"} \subseteq Stages
BY DEF Decision, DENY, ALLOW, Reasons, Stages

\* One call written anew.
LEMMA CallWritten ==
  ASSUME IInv, NEW id \in Ids, NEW c \in CallType, c.stage = "enter" <=> c.posts # <<>>,
         call' = [call EXCEPT ![id] = c]
  PROVE  /\ CallShape' /\ call'[id] = c
         /\ \A x \in Ids : x # id => call'[x] = call[x]
BY DEF IInv, CallShape

\* How a call came by its verdict is a matter of that call alone.
LEMMA ReasonOfOne ==
  ASSUME ReasonInv, NEW id \in Ids, \A x \in Ids : x # id => call'[x] = call[x],
         /\ call'[id].stage \in Unjudged \union {"enter"} => call'[id].row = NoRow
         /\ IsRaw(id) => RawReason(id)'
         /\ ~ IsRaw(id) => call'[id].stage # "bypassLog"
         /\ ~ IsRaw(id) /\ call'[id].stage \notin Unjudged => Outcome(id)'
  PROVE  ReasonInv'
<1> SUFFICES ASSUME NEW x \in Ids, x # id
             PROVE  /\ call'[x].stage \in Unjudged \union {"enter"} => call'[x].row = NoRow
                    /\ IsRaw(x) => RawReason(x)'
                    /\ ~ IsRaw(x) => call'[x].stage # "bypassLog"
                    /\ ~ IsRaw(x) /\ call'[x].stage \notin Unjudged => Outcome(x)'
  BY DEF ReasonInv
<1>1. call'[x] = call[x]
  OBVIOUS
<1>2. RawReason(x)' <=> RawReason(x)
  BY <1>1 DEF RawReason
<1>3. Outcome(x)' <=> Outcome(x)
  BY <1>1 DEF Outcome, Verdicted
<1> QED
  BY <1>1, <1>2, <1>3 DEF ReasonInv

\* A step of one call, all in all: what is left to show of an action.
LEMMA ServeStep ==
  ASSUME IInv, NEW id \in Ids, UNCHANGED host,
         CallShape', TableShape', FaultShape', TaintInv',
         \A x \in Ids : x # id => call'[x] = call[x],
         call'[id].client = call[id].client,
         call[id].stage \notin {"unsent", "done"}, call'[id].stage # "unsent",
         \/ call'[id].row \in {NoRow, call[id].row}
         \/ call'[id].row = quarantine[ServiceOf(id)] /\ call[id].stage = "gate",
         \* the table
         \A s \in Services : quarantine[s] # NoRow => quarantine'[s] = quarantine[s],
         \A s \in Services : quarantine'[s] # quarantine[s] /\ (phase = "dispatch" \/ InScript)
           => Since(quarantine'[s], at),
         \* the cascade
         faults' = 0 => faults = 0,
         (/\ id = <<id[1], 1>> /\ ScenarioOf(id[1]).how = "cascade" /\ faults' = 0
          /\ call'[id].stage \in PastEnter)
           => call[id].stage \in PastEnter \/ quarantine'[ServiceOf(id)] # NoRow,
         \/ ScenarioOf(id[1]).how # "cascade"
         \/ call[id].stage \in Admitted /\ call'[id].row = call[id].row
         \/ call'[id].stage \notin Admitted
         \/ quarantine[ServiceOf(id)] = NoRow
         \/ call'[id].row # NoRow
         \/ faults' # 0,
         \* the verdict
         call'[id].stage \in Unjudged \union {"enter"} => call'[id].row = NoRow,
         IsRaw(id) => RawReason(id)',
         ~ IsRaw(id) => call'[id].stage # "bypassLog",
         ~ IsRaw(id) /\ call'[id].stage \notin Unjudged => Outcome(id)'
  PROVE  IInv'
<1>1. /\ HostShape' /\ UnsentInv' /\ ClientInv' /\ ScriptInv' /\ ResultInv'
      /\ \A x \in Ids : /\ Live(x)' <=> Live(x)
                        /\ Gone(x)' <=> Gone(x)
                        /\ Answered(x)' <=> Answered(x)
  BY ServeFrame
<1>2. FreshInv'
  BY <1>1, ServeRows
<1>3. RowInv'
  BY <1>1, ServeMet
<1>4. \A s \in Services : quarantine[s] # NoRow => quarantine'[s] # NoRow
  OBVIOUS
<1>5. CascadeInv'
  BY <1>1, <1>4, ServeCascade
<1>6. ReasonInv'
  BY ReasonOfOne DEF IInv
<1> QED
  BY <1>1, <1>2, <1>3, <1>5, <1>6 DEF IInv

\* A call is accepted by the PEP or by its bypass listener.
LEMMA AcceptStep ==
  ASSUME IInv, NEW id \in Ids, Accept(id)
  PROVE  IInv'
<1> DEFINE c == [call[id] EXCEPT !.stage = IF IsRaw(id) THEN "bypassLog" ELSE "gate"]
<1>1. /\ call[id].stage = "queued" /\ call' = [call EXCEPT ![id] = c]
      /\ UNCHANGED <<host, pep, quarantine, late, faults>>
  BY DEF Accept
<1>2. /\ call[id] \in CallType /\ call[id].posts = <<>> /\ call[id].row = NoRow
      /\ c \in CallType /\ c.stage = (IF IsRaw(id) THEN "bypassLog" ELSE "gate")
      /\ c.posts = <<>> /\ c.row = NoRow /\ c.client = call[id].client
  BY <1>1 DEF IInv, CallShape, CallType, ReasonInv, Unjudged, Stages
<1> HIDE DEF c
<1>3. CallShape' /\ call'[id] = c /\ \A x \in Ids : x # id => call'[x] = call[x]
  BY <1>1, <1>2, CallWritten
<1>4. TableShape' /\ FaultShape' /\ TaintInv'
  BY <1>1 DEF IInv, TableShape, FaultShape, TaintInv, pep
<1>5. /\ IsRaw(id) => RawReason(id)'
      /\ ~ IsRaw(id) => call'[id].stage \notin {"bypassLog"} /\ call'[id].stage \in Unjudged
  BY <1>2, <1>3 DEF RawReason, RawStages, Unjudged
<1> QED
  BY <1>1, <1>2, <1>3, <1>4, <1>5, ServeStep DEF PastEnter, Admitted

\* The bypass listener refuses a raw connection.
LEMMA LogBypassStep ==
  ASSUME IInv, NEW id \in Ids, LogBypass(id)
  PROVE  IInv'
<1> DEFINE c == [call[id] EXCEPT !.stage = "answer", !.decision = DENY,
                                 !.reason = "BYPASS_ATTEMPTED"]
<1>1. /\ call[id].stage = "bypassLog" /\ call' = [call EXCEPT ![id] = c]
      /\ UNCHANGED <<host, pep, quarantine, late, faults>>
  BY DEF LogBypass
<1>2. /\ IsRaw(id) /\ call[id].posts = <<>> /\ call[id].row = NoRow
      /\ call[id] \in CallType
  BY <1>1 DEF IInv, CallShape, ReasonInv, Unjudged
<1>6. /\ c \in CallType /\ c.stage = "answer" /\ c.decision = DENY
      /\ c.reason = "BYPASS_ATTEMPTED"
      /\ c.posts = <<>> /\ c.row = NoRow /\ c.client = call[id].client
  BY <1>2, Literals DEF CallType
<1> HIDE DEF c
<1>3. CallShape' /\ call'[id] = c /\ \A x \in Ids : x # id => call'[x] = call[x]
  BY <1>1, <1>6, CallWritten
<1>4. TableShape' /\ FaultShape' /\ TaintInv'
  BY <1>1 DEF IInv, TableShape, FaultShape, TaintInv, pep
<1>5. RawReason(id)'
  BY <1>6, <1>3 DEF RawReason, RawStages
<1>7. ScenarioOf(id[1]).how # "cascade"
  BY <1>2 DEF IsRaw
<1> QED
  BY <1>1, <1>2, <1>3, <1>4, <1>5, <1>6, <1>7, ServeStep DEF PastEnter, Admitted

\* Identity and the quarantine gate: a denial here remembers the row it met, and
\* a call that goes on met none.
LEMMA GateStep ==
  ASSUME IInv, NEW id \in Ids, Gate(id)
  PROVE  IInv'
<1> DEFINE row == quarantine[ServiceOf(id)]
<1>1. /\ call[id].stage = "gate" /\ UNCHANGED <<host, pep, quarantine, late>>
      /\ faults' = faults \/ (faults < MaxFaults /\ faults' = faults + 1)
  BY DEF Gate, Fault
<1>2. /\ call[id] \in CallType /\ call[id].posts = <<>> /\ ~ IsRaw(id) /\ row \in Rows
      /\ faults \in Nat
  <2>1. call[id] \in CallType
    BY DEF IInv, CallShape
  <2>2. call[id].posts = <<>>
    BY <1>1 DEF IInv, CallShape
  <2>3. ~ IsRaw(id)
    BY <1>1 DEF IInv, ReasonInv, RawReason, RawStages
  <2>4. row \in Rows
    BY IdIsCall DEF IInv, TableShape
  <2>5. faults \in Nat
    BY BoundsAssumption DEF IInv, FaultShape
  <2> QED
    BY <2>1, <2>2, <2>3, <2>4, <2>5
<1>3. TableShape' /\ FaultShape' /\ TaintInv' /\ (faults' = 0 => faults = 0)
  BY <1>1, <1>2, BoundsAssumption DEF IInv, TableShape, FaultShape, TaintInv, pep
<1>4. ASSUME NEW reason \in Unavailable \union {"AGENT_QUARANTINED"}, NEW met \in {NoRow, row},
             Deny(id, reason, met),
             \/ met = NoRow /\ reason \in Unavailable /\ faults' = faults + 1
             \/ met = row /\ met # NoRow /\ reason = "AGENT_QUARANTINED"
      PROVE  IInv'
  <2> DEFINE c == [call[id] EXCEPT !.stage = "log", !.decision = DENY,
                                   !.reason = reason, !.row = met]
  <2>1. call' = [call EXCEPT ![id] = c]
    BY <1>4 DEF Deny
  <2>2. reason \in Reasons /\ met \in Rows
    BY <1>2, RowIsNoRow, Literals DEF Quarantining
  <2>3. /\ c \in CallType /\ c.stage = "log" /\ c.decision = DENY /\ c.reason = reason
        /\ c.row = met /\ c.posts = <<>> /\ c.client = call[id].client
    BY <1>2, <2>2, Literals DEF CallType
  <2> HIDE DEF c
  <2>4. CallShape' /\ call'[id] = c /\ \A x \in Ids : x # id => call'[x] = call[x]
    BY <2>1, <2>3, CallWritten
  <2>5. Outcome(id)'
    BY <1>4, <2>3, <2>4 DEF Outcome, Quarantining
  <2>6. met # NoRow \/ faults' # 0
    BY <1>2, <1>4
  <2> QED
    BY <1>1, <1>2, <1>3, <2>3, <2>4, <2>5, <2>6, ServeStep DEF Unjudged
<1>5. CASE row = NoRow /\ call' = [call EXCEPT ![id].stage = "decide"]
  <2> DEFINE c == [call[id] EXCEPT !.stage = "decide"]
  <2>1. call' = [call EXCEPT ![id] = c] /\ call[id].row = NoRow
    BY <1>1, <1>5 DEF IInv, ReasonInv, Unjudged
  <2>2. /\ c \in CallType /\ c.stage = "decide" /\ c.row = NoRow /\ c.posts = <<>>
        /\ c.client = call[id].client
    BY <1>2, <2>1, Literals DEF CallType
  <2> HIDE DEF c
  <2>3. CallShape' /\ call'[id] = c /\ \A x \in Ids : x # id => call'[x] = call[x]
    BY <2>1, <2>2, CallWritten
  <2> QED
    BY <1>1, <1>2, <1>3, <1>5, <2>2, <2>3, ServeStep DEF PastEnter, Unjudged
<1> QED
  <2>1. CASE Fault /\ \E reason \in {"identity_verification_failed",
                                    "quarantine_check_unavailable"} :
               Deny(id, reason, NoRow)
    BY <1>4, <2>1 DEF Unavailable, Fault
  <2>2. CASE row # NoRow /\ Deny(id, "AGENT_QUARANTINED", row)
    BY <1>4, <2>2
  <2> QED
    BY <1>5, <2>1, <2>2 DEF Gate

\* min() over three candidates: the first of the narrowest, one of the three.
LEMMA FirstOfThree ==
  ASSUME NEW u, NEW v, NEW w, u.decision \in Int, v.decision \in Int, w.decision \in Int
  PROVE  LET r == FirstOfNarrowest(<<u, v, w>>)
         IN /\ r \in {u, v, w}
            /\ u.decision <= v.decision /\ u.decision <= w.decision => r = u
            /\ v.decision < u.decision /\ v.decision <= w.decision => r = v
<1> DEFINE s == <<u, v, w>>
           narrowest == {i \in DOMAIN s : \A j \in DOMAIN s : s[i].decision <= s[j].decision}
           First(i) == \A j \in narrowest : i <= j
           first == CHOOSE i \in narrowest : First(i)
<1>1. DOMAIN s = {1, 2, 3} /\ s[1] = u /\ s[2] = v /\ s[3] = w
  OBVIOUS
<1>2. FirstOfNarrowest(s) = s[first]
  BY DEF FirstOfNarrowest
<1>3. narrowest \subseteq {1, 2, 3}
  BY <1>1
<1>4. /\ 1 \in narrowest <=> u.decision <= v.decision /\ u.decision <= w.decision
      /\ 2 \in narrowest <=> v.decision <= u.decision /\ v.decision <= w.decision
      /\ 3 \in narrowest <=> w.decision <= u.decision /\ w.decision <= v.decision
  BY <1>1
<1>5. 1 \in narrowest \/ 2 \in narrowest \/ 3 \in narrowest
  BY <1>4
<1> HIDE DEF s, narrowest
<1>6. \E i \in narrowest : First(i)
  BY <1>3, <1>5
<1>7. first \in narrowest /\ First(first)
  BY <1>6
<1> HIDE DEF first
<1>8. /\ first \in {1, 2, 3}
      /\ 1 \in narrowest => first = 1
      /\ 1 \notin narrowest /\ 2 \in narrowest => first = 2
  BY <1>3, <1>7
<1>9. s[first] \in {u, v, w} /\ s[first] = FirstOfNarrowest(<<u, v, w>>)
  BY <1>1, <1>2, <1>8 DEF s
<1> QED
  BY <1>1, <1>4, <1>8, <1>9

\* The final verdict has a reason of the policy or of a later stage, a denial of
\* the policy is final, and so is one of the DLP stage when the policy allows.
LEMMA VerdictShape ==
  ASSUME NEW role, NEW service, NEW c, NEW taint, NEW band \in Bands
  PROVE  LET p == Policy(role, service, c, taint)
             v == FinalVerdict(role, service, c, taint, band)
         IN /\ PolicyVerdict(c, p).decision \in {DENY, ALLOW}
            /\ v.decision \in Decision /\ v.reason \in PolicyReasons \union StageReasons
            /\ PolicyVerdict(c, p).decision = DENY => v = PolicyVerdict(c, p)
            /\ /\ PolicyVerdict(c, p).decision = ALLOW
               /\ DlpVerdict(c, p).decision = DENY
               => v = DlpVerdict(c, p)
<1> DEFINE p  == Policy(role, service, c, taint)
           v1 == PolicyVerdict(c, p)
           v2 == DlpVerdict(c, p)
           v3 == RiskVerdict(band)
           v  == FinalVerdict(role, service, c, taint, band)
<1>1. v = FirstOfNarrowest(<<v1, v2, v3>>)
  BY DEF FinalVerdict
<1>2. p.decision \in {DENY, ALLOW}
  BY VerdictIsBinary DEF Policy, EvaluateEastWest, Result
<1>3. v1.decision \in {DENY, ALLOW} /\ v1.reason \in PolicyReasons
  BY <1>2 DEF PolicyVerdict, Verdict, EastWestReason, PolicyReason, PolicyReasons
<1>4. v2.decision \in {DENY, ALLOW} /\ v2.reason \in StageReasons
  BY DEF DlpVerdict, Verdict, StageReasons
<1>5. v3.decision \in Decision /\ v3.reason \in StageReasons
  BY DEF RiskVerdict, Verdict, StageReasons, Bands, Ceiling, Decision, DENY, QUARANTINE,
         REQUIRE_APPROVAL, RATE_LIMIT, ALLOW
<1>6. /\ DENY = 0 /\ ALLOW = 5 /\ Decision = 0 .. 5
  BY DEF DENY, ALLOW, Decision
<1> HIDE DEF p, v1, v2, v3, v
<1>7. v1.decision \in Int /\ v2.decision \in Int /\ v3.decision \in Int
      /\ 0 <= v2.decision /\ 0 <= v3.decision
  BY <1>3, <1>4, <1>5, <1>6
<1>8. /\ v \in {v1, v2, v3}
      /\ v1.decision = DENY => v = v1
      /\ v1.decision = ALLOW /\ v2.decision = DENY => v = v2
  BY <1>1, <1>6, <1>7, FirstOfThree
<1> QED
  BY <1>3, <1>4, <1>5, <1>6, <1>8 DEF p, v1, v2, v

Kinds == {"denials", "critical", "threat_intel"}

\* A call to a listed host is never without a trigger.
LEMMA PostsShape ==
  ASSUME NEW id, NEW band, NEW crossed \in BOOLEAN
  PROVE  /\ Posts(id, band, crossed) \in Seq(Kinds)
         /\ CallOf(id).fqdn \in KnownBadHosts => Posts(id, band, crossed) # <<>>
<1> DEFINE s1 == IF crossed THEN <<"denials">> ELSE <<>>
           s2 == IF band = "CRITICAL" THEN <<"critical">> ELSE <<>>
           s3 == IF CallOf(id).fqdn \in KnownBadHosts THEN <<"threat_intel">> ELSE <<>>
<1>1. s1 \in Seq(Kinds) /\ s2 \in Seq(Kinds) /\ s3 \in Seq(Kinds)
  <2>1. <<"denials">> \in Seq(Kinds)
    BY DEF Kinds
  <2>2. <<"critical">> \in Seq(Kinds)
    BY DEF Kinds
  <2>3. <<"threat_intel">> \in Seq(Kinds)
    BY DEF Kinds
  <2>4. <<>> \in Seq(Kinds)
    OBVIOUS
  <2> QED
    BY <2>1, <2>2, <2>3, <2>4
<1>2. CallOf(id).fqdn \in KnownBadHosts => Len(s3) = 1
  OBVIOUS
<1>3. Posts(id, band, crossed) = s1 \o s2 \o s3
  BY DEF Posts
<1> HIDE DEF s1, s2, s3
<1>4. Len(s1 \o s2 \o s3) = Len(s1) + Len(s2) + Len(s3) /\ s1 \o s2 \o s3 \in Seq(Kinds)
  BY <1>1
<1> QED
  BY <1>1, <1>2, <1>3, <1>4

\* The denials counted for a service are calls.
LEMMA CountedShape ==
  ASSUME TableShape, NEW id \in Ids, NEW n \in 0 .. Len(denials[ServiceOf(id)])
  PROVE  Counted(id, n) \in Seq(Ids \union Earlier)
<1> DEFINE times == denials[ServiceOf(id)]
<1>1. times \in Seq(Ids \union Earlier)
  BY IdIsCall DEF TableShape
<1>2. SubSeq(times, Len(times) - n + 1, Len(times)) \in Seq(Ids \union Earlier)
  BY <1>1, SubSeqProperties
<1> QED
  BY <1>2 DEF Counted

\* The verdict that Decide picks is the one that the stages give its call.
LEMMA JudgedOf ==
  ASSUME NEW id \in Ids, NEW judged \in Verdicts, judged.id = id
  PROVE  \E t \in Taints, b \in BandsOf(CallOf(id)) :
           /\ judged.sessionTaint = t /\ judged.band = b /\ b \in Bands
           /\ judged.verdict = FinalVerdict(RoleOf(id), ServiceOf(id), CallOf(id), t, b)
<1>1. PICK x \in Ids : \E t \in Taints, b \in BandsOf(CallOf(x)) :
        judged = [id |-> x, sessionTaint |-> t, band |-> b,
                  verdict |-> FinalVerdict(RoleOf(x), ServiceOf(x), CallOf(x), t, b)]
  BY DEF Verdicts
<1>2. BandsOf(CallOf(id)) \subseteq Bands
  BY DEF BandsOf, Bands
<1> QED
  BY <1>1, <1>2

\* Stages 2 to 7: the verdict is one the stages give, and the triggers are those
\* of the call; a listed host leaves at least one.
LEMMA DecideStep ==
  ASSUME IInv, NEW id \in Ids, Decide(id)
  PROVE  IInv'
<1>1. /\ call[id].stage = "decide" /\ UNCHANGED <<host, quarantine, late, faults>>
  BY DEF Decide
<1>2. PICK judged \in Verdicts, n \in 0 .. Len(denials[ServiceOf(id)]) :
        LET v == judged.verdict
            counted == Counted(id, n)
            blocked == v.decision \in BLOCKED_DECISIONS
            posts == Posts(id, judged.band, blocked /\ Len(counted) >= DENIAL_THRESHOLD)
        IN /\ judged.id = id
           /\ judged.sessionTaint = IF id[1] \in tainted THEN "tainted" ELSE "clean"
           /\ denials' = IF blocked THEN [denials EXCEPT ![ServiceOf(id)] = counted]
                         ELSE denials
           /\ tainted' = IF /\ CallOf(id).tool = "http.get"
                            /\ v.decision \in EXECUTABLE_DECISIONS
                         THEN tainted \union {id[1]} ELSE tainted
           /\ call' = [call EXCEPT ![id].stage = IF posts = <<>> THEN "log" ELSE "enter",
                                   ![id].decision = v.decision, ![id].reason = v.reason,
                                   ![id].posts = posts]
  BY DEF Decide
<1> DEFINE v == judged.verdict
           crossed == v.decision \in BLOCKED_DECISIONS
                        /\ Len(Counted(id, n)) >= DENIAL_THRESHOLD
           posts == Posts(id, judged.band, crossed)
           c == [call[id] EXCEPT !.stage = IF posts = <<>> THEN "log" ELSE "enter",
                                 !.decision = v.decision, !.reason = v.reason,
                                 !.posts = posts]
<1>3. PICK t \in Taints, b \in BandsOf(CallOf(id)) :
        /\ judged.sessionTaint = t /\ judged.band = b /\ b \in Bands
        /\ v = FinalVerdict(RoleOf(id), ServiceOf(id), CallOf(id), t, b)
  BY <1>2, JudgedOf
<1>4. v.decision \in Decision /\ v.reason \in Reasons
  BY <1>3, VerdictShape, Literals
<1>5. /\ posts \in Seq(Kinds)
      /\ CallOf(id).fqdn \in KnownBadHosts => posts # <<>>
  <2>1. crossed \in BOOLEAN
    OBVIOUS
  <2> QED
    BY <2>1, PostsShape
<1>6. call' = [call EXCEPT ![id] = c]
  BY <1>2
<1>7. call[id] \in CallType /\ call[id].row = NoRow /\ ~ IsRaw(id)
  BY <1>1 DEF IInv, CallShape, ReasonInv, RawReason, RawStages, Unjudged
<1> HIDE DEF v, crossed, posts
<1>8. /\ c \in CallType /\ c.stage = (IF posts = <<>> THEN "log" ELSE "enter")
      /\ c.decision = v.decision /\ c.reason = v.reason /\ c.posts = posts
      /\ c.row = NoRow /\ c.client = call[id].client
  BY <1>4, <1>5, <1>7, Literals DEF CallType, Kinds
<1> HIDE DEF c
<1>9. CallShape' /\ call'[id] = c /\ \A x \in Ids : x # id => call'[x] = call[x]
  BY <1>6, <1>8, CallWritten
<1>10. TableShape'
  <2>1. tainted' \subseteq Names
    BY <1>2, IdIsCall DEF IInv, TableShape
  <2>2. denials' \in [Services -> Seq(Ids \union Earlier)]
    BY <1>2, CountedShape, IdIsCall DEF IInv, TableShape
  <2> QED
    BY <1>1, <2>1, <2>2 DEF IInv, TableShape
<1>11. TaintInv'
  <2>1. CallOf(id).tool = "http.get" => Reads(id[1])
    BY IdIsCall DEF CallOf, Reads
  <2> QED
    BY <1>2, <2>1 DEF IInv, TaintInv
<1>12. Verdicted(id)'
  <2>1. t = "tainted" => Reads(id[1])
    BY <1>2, <1>3 DEF IInv, TaintInv
  <2> QED
    BY <1>3, <1>8, <1>9, <2>1 DEF Verdicted
<1>13. Outcome(id)'
  BY <1>8, <1>9, <1>12 DEF Outcome
<1>14. /\ id = <<id[1], 1>> /\ ScenarioOf(id[1]).how = "cascade" => call'[id].stage \notin PastEnter
       /\ call'[id].stage \in {"log", "enter"}
  <2>1. id = <<id[1], 1>> /\ ScenarioOf(id[1]).how = "cascade" => CallOf(id).fqdn \in KnownBadHosts
    BY IdIsCall, Dispatched, ScenarioFacts DEF CallOf
  <2> QED
    BY <1>5, <1>8, <1>9, <2>1 DEF PastEnter
<1> QED
  BY <1>1, <1>7, <1>8, <1>9, <1>10, <1>11, <1>13, <1>14, ServeStep
     DEF IInv, FaultShape, Admitted

\* A quarantine is entered, or its post fails.
LEMMA EnterStep ==
  ASSUME IInv, NEW id \in Ids, Enter(id)
  PROVE  IInv'
<1> DEFINE rest == Tail(call[id].posts)
           c == [call[id] EXCEPT !.posts = rest,
                                 !.stage = IF rest = <<>> THEN "log" ELSE @]
           row == Row(id, FALSE)
<1>1. /\ call[id].stage = "enter" /\ UNCHANGED <<host, pep>> /\ call' = [call EXCEPT ![id] = c]
      /\ \/ /\ quarantine' = Inserted(ServiceOf(id), row)
            /\ UNCHANGED <<late, faults>>
         \/ /\ faults < MaxFaults /\ faults' = faults + 1
            /\ late' = late \union {id}
            /\ UNCHANGED quarantine
  BY DEF Enter, Fault
<1>2. /\ call[id] \in CallType /\ call[id].row = NoRow /\ ~ IsRaw(id)
      /\ call[id].posts # <<>> /\ Outcome(id)
      /\ faults \in Nat /\ ServiceOf(id) \in Services
      /\ at \in 0 .. Len(Attacks) + 1 /\ quarantine \in [Services -> Rows]
  <2>1. /\ call[id] \in CallType /\ call[id].row = NoRow /\ ~ IsRaw(id)
        /\ call[id].posts # <<>> /\ Outcome(id)
    BY <1>1 DEF IInv, CallShape, ReasonInv, RawReason, RawStages, Unjudged
  <2>2. /\ faults \in Nat /\ ServiceOf(id) \in Services
        /\ at \in 0 .. Len(Attacks) + 1 /\ quarantine \in [Services -> Rows]
    BY IdIsCall, BoundsAssumption, Dispatched DEF IInv, HostShape, TableShape, FaultShape
  <2> QED
    BY <2>1, <2>2
<1>3. rest \in Seq(Kinds)
  BY <1>2 DEF CallType, Kinds
<1> HIDE DEF rest
<1>4. /\ c \in CallType /\ c.stage = (IF rest = <<>> THEN "log" ELSE "enter")
      /\ c.decision = call[id].decision /\ c.reason = call[id].reason /\ c.posts = rest
      /\ c.row = NoRow /\ c.client = call[id].client
  <2>1. CASE rest = <<>>
    BY <1>2, <1>3, <2>1, Literals DEF CallType, Kinds
  <2>2. CASE rest # <<>>
    BY <1>1, <1>2, <1>3, <2>2, Literals DEF CallType, Kinds
  <2> QED
    BY <2>1, <2>2
<1> HIDE DEF c
<1>5. CallShape' /\ call'[id] = c /\ \A x \in Ids : x # id => call'[x] = call[x]
  BY <1>1, <1>4, CallWritten
<1>6. /\ row \in Rows /\ row # NoRow /\ row.since = at /\ row.by = id
  <2>1. row = [by |-> id, late |-> FALSE, since |-> at] /\ at \in Nat
    BY <1>2, Dispatched DEF Row
  <2>2. row \in Rows
    BY <1>2, <2>1 DEF Row, Rows
  <2>3. row # NoRow
    BY <2>1, RowIsNoRow DEF Row
  <2> QED
    BY <2>1, <2>2, <2>3 DEF Row
<1>7. InScript \/ phase = "dispatch" => Since(row, at)
  <2>1. Waiting(id) \/ Gone(id)
    BY <1>1, Served
  <2>2. Waiting(id) => row.by[1] = Attacks[at]
    BY <1>1, <1>6, Served DEF Attack
  <2> QED
    BY <1>6, <2>1, <2>2 DEF Since
<1> HIDE DEF row
<1>8. /\ quarantine' \in [Services -> Rows]
      /\ \A s \in Services : quarantine[s] # NoRow => quarantine'[s] = quarantine[s]
      /\ \A s \in Services : quarantine'[s] # quarantine[s] => quarantine'[s] = row
      /\ faults' # 0 => TRUE
      /\ faults' = 0 => faults = 0 /\ quarantine'[ServiceOf(id)] # NoRow
  BY <1>1, <1>2, <1>6 DEF Inserted
<1>9. TableShape' /\ FaultShape' /\ TaintInv'
  BY <1>1, <1>2, <1>8, BoundsAssumption DEF IInv, TableShape, FaultShape, TaintInv, pep
<1>10. Outcome(id)'
  BY <1>2, <1>4, <1>5 DEF Outcome, Verdicted
<1> QED
  BY <1>1, <1>2, <1>4, <1>5, <1>7, <1>8, <1>9, <1>10, ServeStep DEF PastEnter, Admitted

\* The event is logged, or the call is denied.
LEMMA LogStep ==
  ASSUME IInv, NEW id \in Ids, Log(id)
  PROVE  IInv'
<1>1. /\ call[id].stage = "log" /\ UNCHANGED <<host, pep, quarantine, late>>
      /\ faults' = faults \/ (faults < MaxFaults /\ faults' = faults + 1)
  BY DEF Log, Fault
<1>2. /\ call[id] \in CallType /\ call[id].posts = <<>> /\ ~ IsRaw(id) /\ Outcome(id)
      /\ faults \in Nat
  BY <1>1, BoundsAssumption
     DEF IInv, CallShape, FaultShape, ReasonInv, RawReason, RawStages, Unjudged
<1>3. TableShape' /\ FaultShape' /\ TaintInv' /\ (faults' = 0 => faults = 0)
  BY <1>1, <1>2, BoundsAssumption DEF IInv, TableShape, FaultShape, TaintInv, pep
<1>4. ASSUME NEW c \in CallType, call' = [call EXCEPT ![id] = c],
             c.stage = "answer", c.posts = <<>>, c.client = call[id].client,
             c.row = call[id].row,
             \/ c.decision = call[id].decision /\ c.reason = call[id].reason
             \/ c.decision = DENY /\ c.reason = "event_store_write_failed"
      PROVE  IInv'
  <2>1. CallShape' /\ call'[id] = c /\ \A x \in Ids : x # id => call'[x] = call[x]
    BY <1>4, CallWritten
  <2>2. Outcome(id)'
    BY <1>2, <1>4, <2>1 DEF Outcome, Verdicted, Quarantining, Unavailable
  <2> QED
    BY <1>1, <1>2, <1>3, <1>4, <2>1, <2>2, ServeStep DEF PastEnter, Admitted, Unjudged
<1>5. CASE call' = [call EXCEPT ![id].stage = "answer"]
  <2>1. [call[id] EXCEPT !.stage = "answer"] \in CallType
    BY <1>2, Literals DEF CallType
  <2> QED
    BY <1>2, <1>4, <1>5, <2>1 DEF CallType
<1>6. CASE call' = [call EXCEPT ![id].stage = "answer", ![id].decision = DENY,
                                ![id].reason = "event_store_write_failed"]
  <2>1. [call[id] EXCEPT !.stage = "answer", !.decision = DENY,
                         !.reason = "event_store_write_failed"] \in CallType
    BY <1>2, Literals DEF CallType, Quarantining
  <2> QED
    BY <1>2, <1>4, <1>6, <2>1 DEF CallType
<1> QED
  BY <1>5, <1>6 DEF Log

\* The answer leaves the PEP.
LEMMA AnswerStep ==
  ASSUME IInv, NEW id \in Ids, Answer(id)
  PROVE  IInv'
<1> DEFINE c == [call[id] EXCEPT !.stage = "done"]
<1>1. /\ call[id].stage = "answer" /\ call' = [call EXCEPT ![id] = c]
      /\ UNCHANGED <<host, pep, quarantine, late, faults>>
  BY DEF Answer
<1>2. /\ call[id] \in CallType /\ call[id].posts = <<>>
      /\ IsRaw(id) => RawReason(id)
      /\ ~ IsRaw(id) => Outcome(id)
  BY <1>1 DEF IInv, CallShape, ReasonInv, Unjudged
<1>3. /\ c \in CallType /\ c.stage = "done" /\ c.decision = call[id].decision
      /\ c.reason = call[id].reason
      /\ c.posts = <<>> /\ c.row = call[id].row /\ c.client = call[id].client
  BY <1>2, Literals DEF CallType
<1> HIDE DEF c
<1>4. CallShape' /\ call'[id] = c /\ \A x \in Ids : x # id => call'[x] = call[x]
  BY <1>1, <1>3, CallWritten
<1>5. TableShape' /\ FaultShape' /\ TaintInv'
  BY <1>1 DEF IInv, TableShape, FaultShape, TaintInv, pep
<1>6. /\ IsRaw(id) => RawReason(id)'
      /\ ~ IsRaw(id) => Outcome(id)'
  BY <1>1, <1>2, <1>3, <1>4 DEF RawReason, RawStages, Outcome, Verdicted
<1> QED
  BY <1>1, <1>3, <1>4, <1>5, <1>6, ServeStep DEF PastEnter, Admitted, Unjudged

\* Every step of the PEP keeps the invariant.
LEMMA ServeKeeps ==
  ASSUME IInv, NEW id \in Ids, Serve(id)
  PROVE  IInv'
BY AcceptStep, LogBypassStep, GateStep, DecideStep, EnterStep, LogStep, AnswerStep DEF Serve

\* What is said of the suite and its calls holds as long as neither moves.
LEMMA Idle ==
  ASSUME IInv, UNCHANGED <<host, call>>
  PROVE  /\ HostShape' /\ CallShape' /\ UnsentInv' /\ ClientInv' /\ RowInv' /\ ReasonInv'
         /\ ScriptInv' /\ ResultInv'
         /\ InScript' = InScript
         /\ \A x \in Ids : /\ Live(x)' <=> Live(x)
                           /\ Gone(x)' <=> Gone(x)
                           /\ Answered(x)' <=> Answered(x)
<1>1. /\ phase' = phase /\ at' = at /\ listed' = listed /\ script' = script
      /\ result' = result /\ exit' = exit /\ call' = call
  BY DEF host
<1>2. /\ InScript' = InScript /\ Attack' = Attack /\ Current' = Current /\ Id' = Id
      /\ RoleMatches' = RoleMatches /\ Behind' = Behind
  BY <1>1 DEF InScript, Attack, Current, Id, RoleMatches, Behind
<1>3. \A x : /\ Live(x)' <=> Live(x)
             /\ Gone(x)' <=> Gone(x)
             /\ Answered(x)' <=> Answered(x)
             /\ Waiting(x)' <=> Waiting(x)
             /\ Proved(x)' <=> Proved(x)
  BY <1>1 DEF Live, Gone, Answered, Waiting, Proved
<1>4. HostShape' /\ CallShape'
  BY <1>1, <1>2 DEF IInv, HostShape, CallShape
<1>5. UnsentInv'
  BY <1>1, <1>2 DEF IInv, UnsentInv, NotReached
<1>6. ClientInv'
  BY <1>1, <1>2, <1>3 DEF IInv, ClientInv
<1>7. RowInv'
  BY <1>1, <1>3 DEF IInv, RowInv, Since
<1>8. ReasonInv'
  BY <1>1 DEF IInv, ReasonInv, RawReason, Outcome, Verdicted
<1>9. ScriptInv'
  <2>1. \A k : (Answered(<<Attack, k>>)' <=> Answered(<<Attack, k>>))
               /\ (Proved(<<Attack, k>>)' <=> Proved(<<Attack, k>>))
    BY <1>1, <1>2 DEF Answered, Proved
  <2> QED
    BY <1>1, <1>2, <2>1 DEF IInv, ScriptInv
<1>10. ResultInv'
  BY <1>1, <1>3 DEF IInv, ResultInv
<1> QED
  BY <1>2, <1>3, <1>4, <1>5, <1>6, <1>7, <1>8, <1>9, <1>10

\* A post that had timed out lands: the row it inserts says so.
LEMMA LateEnterStep ==
  ASSUME IInv, NEW id \in Ids, LateEnter(id)
  PROVE  IInv'
<1> DEFINE row == Row(id, TRUE)
<1>1. /\ UNCHANGED <<host, call, pep, faults>> /\ late' = late \ {id}
      /\ quarantine' = Inserted(ServiceOf(id), row)
  BY DEF LateEnter
<1>2. /\ HostShape' /\ CallShape' /\ UnsentInv' /\ ClientInv' /\ RowInv' /\ ReasonInv'
      /\ ScriptInv' /\ ResultInv'
      /\ InScript' = InScript
      /\ \A x \in Ids : /\ Live(x)' <=> Live(x)
                        /\ Gone(x)' <=> Gone(x)
                        /\ Answered(x)' <=> Answered(x)
  BY <1>1, Idle
<1>3. row \in Rows /\ Since(row, at)
  BY Dispatched DEF IInv, HostShape, Row, Rows, Since
<1>4. ServiceOf(id) \in Services /\ quarantine \in [Services -> Rows]
  BY IdIsCall DEF IInv, TableShape
<1> HIDE DEF row
<1>5. /\ quarantine' \in [Services -> Rows]
      /\ \A s \in Services : quarantine[s] # NoRow => quarantine'[s] = quarantine[s]
      /\ \A s \in Services : quarantine'[s] # quarantine[s] => quarantine'[s] = row
  BY <1>1, <1>3, <1>4 DEF Inserted
<1>6. TableShape' /\ FaultShape' /\ TaintInv'
  BY <1>1, <1>5 DEF IInv, TableShape, FaultShape, TaintInv, pep
<1>7. FreshInv'
  BY <1>1, <1>2, <1>3, <1>5, ServeRows
<1>8. CascadeInv'
  <2> SUFFICES ASSUME NEW i \in DOMAIN Attacks, ScenarioOf(Attacks[i]).how = "cascade"
               PROVE  LeavesRow(i)' /\ MeetsRow(i)'
    BY DEF CascadeInv
  <2>1. <<Attacks[i], 1>> \in Ids /\ <<Attacks[i], 2>> \in Ids
        /\ ScenarioOf(Attacks[i]).service \in Services
    BY IdIsCall, Dispatched, ScenarioFacts
  <2>2. LeavesRow(i) /\ MeetsRow(i)
    BY DEF IInv, CascadeInv
  <2>3. at' = at
    BY <1>1 DEF host
  <2> QED
    BY <1>1, <1>2, <1>5, <2>1, <2>2, <2>3 DEF LeavesRow, MeetsRow
<1> QED
  BY <1>2, <1>6, <1>7, <1>8 DEF IInv

\* Stuttering keeps the invariant.
LEMMA StutterStep ==
  ASSUME IInv, UNCHANGED vars
  PROVE  IInv'
<1>1. /\ UNCHANGED <<host, call, pep, quarantine, late, faults>>
      /\ tainted' = tainted /\ denials' = denials /\ phase' = phase /\ at' = at
  BY DEF vars, host, pep
<1>2. /\ HostShape' /\ CallShape' /\ UnsentInv' /\ ClientInv' /\ RowInv' /\ ReasonInv'
      /\ ScriptInv' /\ ResultInv'
      /\ InScript' = InScript
  BY <1>1, Idle
<1>3. TableShape' /\ FaultShape' /\ TaintInv'
  BY <1>1 DEF IInv, TableShape, FaultShape, TaintInv
<1>4. FreshInv' /\ CascadeInv'
  BY <1>1, <1>2 DEF IInv, FreshInv, Since, Gone, CascadeInv, LeavesRow, MeetsRow, Live,
                    Answered, Waiting
<1> QED
  BY <1>2, <1>3, <1>4 DEF IInv

-----------------------------------------------------------------------------
(* The steps of the orchestrator and of its scripts.                       *)

\* The steps that touch neither a call nor a table, all in all.
LEMMA QuietStep ==
  ASSUME IInv, UNCHANGED <<call, pep, quarantine, late>>,
         HostShape', FaultShape', ScriptInv', ResultInv',
         faults' = 0 => faults = 0,
         phase' # "wait",
         phase' = "dispatch" => Quarantined = {} /\ at' <= Len(Attacks),
         InScript' => (InScript \/ phase = "dispatch") /\ at' = at,
         \A i \in DOMAIN Attacks : \A k \in DOMAIN ScenarioOf(Attacks[i]).calls :
           NotReached(i, k)' => NotReached(i, k),
         \/ phase \notin {"wait", "ended"}
         \/ phase' = "ended" /\ at' = at /\ script' = script
  PROVE  IInv'
<1>1. \A x : /\ Gone(x)' <=> Gone(x)
             /\ Answered(x)' <=> Answered(x)
             /\ Waiting(x)' <=> Waiting(x)
             /\ Live(x)' => Live(x)
  BY DEF Live, Gone, Answered, Waiting
<1>2. CallShape' /\ TableShape' /\ TaintInv' /\ ReasonInv'
  BY DEF IInv, CallShape, TableShape, TaintInv, ReasonInv, RawReason, Outcome, Verdicted, pep
<1>3. UnsentInv'
  BY DEF IInv, UnsentInv
<1>4. ClientInv'
  <2>1. ASSUME NEW x \in Ids, Waiting(x)'
        PROVE  phase' = "ended" /\ at' <= Len(Attacks) /\ x = Id'
    <3>1. phase \in {"wait", "ended"} /\ at <= Len(Attacks) /\ x = Id
      BY <1>1, <2>1 DEF IInv, ClientInv
    <3>2. phase' = "ended" /\ at' = at /\ script' = script
      BY <3>1
    <3> QED
      BY <3>1, <3>2 DEF Id, Attack
  <2> QED
    BY <1>1, <2>1 DEF IInv, ClientInv
<1>5. FreshInv'
  <2>1. CASE phase' = "dispatch"
    BY <2>1 DEF FreshInv, Quarantined
  <2>2. CASE InScript'
    BY <1>1, <2>2 DEF IInv, FreshInv, Since
  <2> QED
    BY <2>1, <2>2 DEF FreshInv
<1>6. RowInv'
  BY <1>1 DEF IInv, RowInv, Since
<1>7. CascadeInv'
  <2> SUFFICES ASSUME NEW i \in DOMAIN Attacks, ScenarioOf(Attacks[i]).how = "cascade"
               PROVE  LeavesRow(i)' /\ MeetsRow(i)'
    BY DEF CascadeInv
  <2>1. LeavesRow(i) /\ MeetsRow(i)
    BY DEF IInv, CascadeInv
  <2>2. 1 \in DOMAIN ScenarioOf(Attacks[i]).calls
    BY Dispatched, ScenarioFacts
  <2>3. phase = "dispatch" /\ i = at => call[<<Attacks[i], 1>>].stage = "unsent"
    BY <2>2 DEF IInv, UnsentInv, NotReached, InScript, Unsent
  <2>4. LeavesRow(i)'
    BY <2>1, <2>3 DEF LeavesRow, PastEnter
  <2>5. MeetsRow(i)'
    BY <1>1, <2>1 DEF MeetsRow
  <2> QED
    BY <2>4, <2>5
<1> QED
  BY <1>2, <1>3, <1>4, <1>5, <1>6, <1>7 DEF IInv

\* ResultInv looks at nothing but results and calls.
LEMMA ResultKept ==
  ASSUME IInv, UNCHANGED <<result, call>>
  PROVE  ResultInv'
BY DEF IInv, ResultInv, Answered, Proved

\* A step that fails stays within the bound on faults.
LEMMA FaultBudget ==
  ASSUME IInv, \/ UNCHANGED faults
               \/ Fault
  PROVE  FaultShape' /\ (faults' = 0 => faults = 0)
BY BoundsAssumption DEF IInv, FaultShape, Fault

\* The stack is found, or it is not and every scenario is unverified.
LEMMA StartStep ==
  ASSUME IInv, Start
  PROVE  IInv'
<1>1. /\ phase = "start" /\ phase' \in {"list", "ended"}
      /\ UNCHANGED <<at, listed, script, call, pep, quarantine, late, faults>>
      /\ ~ InScript /\ ~ InScript'
  BY DEF Start, Goto, InScript
<1>2. HostShape' /\ ResultInv'
  <2>1. CASE UNCHANGED <<result, exit>>
    BY <1>1, <2>1, ResultKept DEF IInv, HostShape, Phases
  <2>2. CASE result' = [a \in DOMAIN result |-> "UNVERIFIED"] /\ exit' = "failure"
    BY <1>1, <2>2 DEF IInv, HostShape, Phases, ResultInv
  <2> QED
    BY <2>1, <2>2 DEF Start
<1>3. ScriptInv' /\ FaultShape'
  BY <1>1, FaultBudget DEF ScriptInv
<1>4. \A i, k : NotReached(i, k)' => NotReached(i, k)
  BY <1>1 DEF NotReached
<1> QED
  BY <1>1, <1>2, <1>3, <1>4, QuietStep

\* A command of the host fails, and the suite with it.
LEMMA CommandFailsStep ==
  ASSUME IInv, CommandFails
  PROVE  IInv'
<1>1. /\ phase' = "ended" /\ exit' = "crash" /\ Fault
      /\ UNCHANGED <<at, listed, script, result, call, pep, quarantine, late>>
      /\ ~ InScript'
  BY DEF CommandFails, Goto, InScript
<1>2. HostShape' /\ ResultInv'
  BY <1>1, ResultKept DEF IInv, HostShape, Phases
<1>3. ScriptInv' /\ FaultShape' /\ (faults' = 0 => faults = 0)
  BY <1>1, FaultBudget DEF ScriptInv
<1>4. \A i, k : NotReached(i, k)' => NotReached(i, k)
  BY <1>1 DEF NotReached
<1> QED
  BY <1>1, <1>2, <1>3, <1>4, QuietStep

\* The table is listed.
LEMMA ListStep ==
  ASSUME IInv, List \/ Relist
  PROVE  IInv'
<1>1. /\ phase \in {"list", "relist"} /\ phase' \in {"verify", "relist", "delete"}
      /\ UNCHANGED <<at, script, result, exit, call, pep, quarantine, late, faults>>
      /\ listed' \in {listed, Quarantined}
      /\ ~ InScript /\ ~ InScript'
  BY DEF List, Relist, Goto, InScript
<1>2. HostShape' /\ ResultInv'
  BY <1>1, ResultKept DEF IInv, HostShape, Phases, Quarantined
<1>3. ScriptInv' /\ FaultShape'
  BY <1>1, FaultBudget DEF ScriptInv
<1>4. \A i, k : NotReached(i, k)' => NotReached(i, k)
  BY <1>1 DEF NotReached
<1> QED
  BY <1>1, <1>2, <1>3, <1>4, QuietStep

\* A table found empty lets the next scenario be dispatched.
LEMMA VerifyStep ==
  ASSUME IInv, Verify
  PROVE  IInv'
<1>1. /\ phase = "verify" /\ phase' \in {"dispatch", "ended"}
      /\ phase' = "dispatch" => Quarantined = {} /\ at <= Len(Attacks) /\ exit' = exit
      /\ exit' \in {exit, "crash", "success", "failure"}
      /\ UNCHANGED <<at, listed, script, result, call, pep, quarantine, late, faults>>
      /\ ~ InScript /\ ~ InScript'
  BY DEF Verify, Goto, InScript, ExitCode
<1>2. HostShape' /\ ResultInv'
  BY <1>1, ResultKept DEF IInv, HostShape, Phases
<1>3. ScriptInv' /\ FaultShape'
  BY <1>1, FaultBudget DEF ScriptInv
<1>4. \A i, k : NotReached(i, k)' => NotReached(i, k)
  BY <1>1 DEF NotReached
<1> QED
  BY <1>1, <1>2, <1>3, <1>4, QuietStep

\* A container is started for the scenario's service.
LEMMA DispatchStep ==
  ASSUME IInv, Dispatch
  PROVE  IInv'
<1>1. /\ phase = "dispatch" /\ at \in DOMAIN Attacks /\ at <= Len(Attacks)
      /\ script' = [step |-> 1, ok |-> TRUE, match |-> TRUE]
      /\ phase' = IF Current.how = "raw" THEN "send" ELSE "attest"
      /\ UNCHANGED <<at, listed, result, exit, call, pep, quarantine, late, faults>>
      /\ ~ InScript /\ InScript'
  BY CurrentCall DEF Dispatch, Goto, InScript, IInv, ClientInv
<1>2. /\ Attack' = Attack /\ Current' = Current /\ RoleMatches' = RoleMatches
      /\ Current.how \in {"single", "loop", "raw", "cascade"}
      /\ 1 \in DOMAIN Current.calls /\ DOMAIN Current.calls = 1 .. Len(Current.calls)
  BY <1>1, Dispatched, ScenarioFacts DEF Attack, Current, RoleMatches
<1>3. HostShape' /\ ResultInv'
  BY <1>1, <1>2, ResultKept DEF IInv, HostShape, Phases
<1>4. ScriptInv'
  <2>1. Behind' = {}
    BY <1>1, <1>2 DEF Behind
  <2> QED
    BY <1>1, <1>2, <2>1 DEF ScriptInv
<1>5. FaultShape'
  BY <1>1, FaultBudget
<1>6. \A i, k : NotReached(i, k)' => NotReached(i, k)
  BY <1>1 DEF NotReached
<1> QED
  BY <1>1, <1>3, <1>4, <1>5, <1>6, QuietStep

\* The script reports: the result stands for what its calls show.
LEMMA ReportStep ==
  ASSUME IInv, Report
  PROVE  IInv'
<1>1. /\ phase = "report" /\ phase' = "list" /\ at' = at + 1
      /\ result' = [result EXCEPT ![Attack] = Status]
      /\ UNCHANGED <<listed, script, exit, call, pep, quarantine, late, faults>>
      /\ InScript /\ ~ InScript'
  BY DEF Report, Goto, InScript
<1>2. at \in DOMAIN Attacks /\ at \in 1 .. Len(Attacks) /\ Attack \in Names
  BY <1>1, CurrentCall DEF IInv, HostShape
<1>3. Status \in {"VERIFIED", "MISMATCH", "UNVERIFIED"}
  BY DEF Status
<1>4. HostShape'
  BY <1>1, <1>2, <1>3, Dispatched DEF IInv, HostShape, Phases
<1>5. ResultInv'
  <2> SUFFICES ASSUME NEW a \in Names, result'[a] \in {"VERIFIED", "MISMATCH"}
               PROVE  /\ RoleIsRight(a) \/ ScenarioOf(a).how = "raw"
                      /\ \A k \in DOMAIN ScenarioOf(a).calls : Answered(<<a, k>>)
                      /\ result'[a] = "VERIFIED" <=> \A k \in Graded(a) : Proved(<<a, k>>)
    BY <1>1 DEF ResultInv, Answered, Proved
  <2>1. CASE a # Attack
    BY <1>1, <2>1 DEF IInv, HostShape, ResultInv
  <2>2. CASE a = Attack
    <3>1. /\ Current = ScenarioOf(a) /\ Behind = DOMAIN ScenarioOf(a).calls
          /\ Graded(a) \subseteq DOMAIN ScenarioOf(a).calls
          /\ RoleMatches <=> RoleIsRight(a)
      BY <1>1, <2>2 DEF Current, Behind, Graded, RoleMatches, RoleIsRight
    <3>2. result'[a] = Status
      BY <1>1, <2>2 DEF IInv, HostShape
    <3>3. script.ok /\ (script.match <=> result'[a] = "VERIFIED")
      BY <3>2 DEF Status, IInv, HostShape
    <3>4. Behind \intersect Graded(a) = Graded(a)
      BY <3>1
    <3>5. /\ RoleMatches \/ Current.how = "raw"
          /\ \A k \in Behind : Answered(<<Attack, k>>)
          /\ script.match <=> \A k \in Behind \intersect Graded(Attack) : Proved(<<Attack, k>>)
      BY <1>1, <3>3 DEF IInv, ScriptInv
    <3> QED
      BY <2>2, <3>1, <3>3, <3>4, <3>5
  <2> QED
    BY <2>1, <2>2
<1>6. ScriptInv' /\ FaultShape'
  BY <1>1, FaultBudget DEF ScriptInv
<1>7. \A i \in DOMAIN Attacks : \A k : NotReached(i, k)' => NotReached(i, k)
  BY <1>1, <1>2, Dispatched DEF NotReached
<1> QED
  BY <1>1, <1>4, <1>5, <1>6, <1>7, QuietStep

\* The rows listed are deleted.
LEMMA DeleteListedStep ==
  ASSUME IInv, DeleteListed
  PROVE  IInv'
<1>1. /\ phase = "delete" /\ phase' = "verify" /\ listed' = {}
      /\ quarantine' = [s \in Services |-> IF s \in listed THEN NoRow ELSE quarantine[s]]
      /\ UNCHANGED <<at, script, result, exit, call, pep, late, faults>>
      /\ ~ InScript /\ ~ InScript'
  BY DEF DeleteListed, Goto, InScript
<1>2. \A x : /\ Answered(x)' <=> Answered(x)
             /\ Waiting(x)' <=> Waiting(x)
             /\ Live(x)' <=> Live(x)
             /\ Gone(x)' <=> Gone(x)
  BY <1>1 DEF Live, Answered, Waiting, Gone
<1>3. HostShape' /\ ResultInv' /\ CallShape' /\ ReasonInv'
  BY <1>1, ResultKept DEF IInv, HostShape, Phases, CallShape, ReasonInv, RawReason, Outcome,
                          Verdicted
<1>4. TableShape' /\ TaintInv' /\ FaultShape'
  BY <1>1, RowIsNoRow, FaultBudget DEF IInv, TableShape, TaintInv, pep
<1>5. ScriptInv' /\ FreshInv'
  BY <1>1 DEF ScriptInv, FreshInv
<1>6. UnsentInv' /\ ClientInv' /\ RowInv'
  BY <1>1, <1>2 DEF IInv, UnsentInv, NotReached, ClientInv, RowInv, Since
<1>7. CascadeInv'
  BY <1>1, <1>2 DEF IInv, CascadeInv, LeavesRow, MeetsRow
<1> QED
  BY <1>3, <1>4, <1>5, <1>6, <1>7 DEF IInv

\* Where a script goes that was not answered.
LEMMA UnreachedFacts ==
  ASSUME HostShape, InScript, Unreached, at' = at
  PROVE  /\ phase' \in {"attest", "report"}
         /\ script'.ok = FALSE /\ script' \in [step : Nat, ok : BOOLEAN, match : BOOLEAN]
         /\ script'.step \in DOMAIN Current.calls /\ Current' = Current
         /\ phase' = "attest" => script'.step = script.step + 1 /\ Current.how = "cascade"
         /\ phase' = "report" => script'.step = script.step
<1>1. at \in DOMAIN Attacks /\ Attack \in DOMAIN ATTACK_SPECS
  BY CurrentCall, Dispatched DEF HostShape
<1>2. /\ DOMAIN Current.calls = 1 .. Len(Current.calls) /\ Len(Current.calls) \in Nat
      /\ Current' = Current
  BY <1>1, ScenarioFacts DEF Current, Attack
<1>3. script.step \in 1 .. Len(Current.calls)
  BY <1>2 DEF HostShape
<1>4. script \in [step : Nat, ok : BOOLEAN, match : BOOLEAN]
  BY DEF HostShape
<1>5. CASE Current.how = "cascade" /\ script.step < Len(Current.calls)
  <2>1. script' = [script EXCEPT !.ok = FALSE, !.step = script.step + 1] /\ phase' = "attest"
    BY <1>5 DEF Unreached, Goto
  <2>2. script.step + 1 \in DOMAIN Current.calls /\ script.step + 1 \in Nat
    BY <1>2, <1>3, <1>5
  <2>3. /\ script'.ok = FALSE /\ script' \in [step : Nat, ok : BOOLEAN, match : BOOLEAN]
        /\ script'.step = script.step + 1
    BY <1>4, <2>1, <2>2
  <2> QED
    BY <1>2, <1>5, <2>1, <2>2, <2>3
<1>6. CASE ~ (Current.how = "cascade" /\ script.step < Len(Current.calls))
  <2>1. script' = [script EXCEPT !.ok = FALSE, !.step = script.step] /\ phase' = "report"
    BY <1>4, <1>6 DEF Unreached, Goto
  <2> QED
    BY <1>2, <1>3, <1>4, <2>1
<1> QED
  BY <1>5, <1>6

\* The script attests for its next call.
LEMMA AttestStep ==
  ASSUME IInv, Attest
  PROVE  IInv'
<1>1. /\ phase = "attest" /\ InScript
      /\ UNCHANGED <<at, listed, result, exit, call, pep, quarantine, late>>
      /\ UNCHANGED faults \/ Fault
  BY DEF Attest, InScript
<1>2. at <= Len(Attacks) /\ script.step \in DOMAIN Current.calls /\ at \in DOMAIN Attacks
  BY <1>1, CurrentCall DEF IInv, HostShape
<1>3. FaultShape' /\ (faults' = 0 => faults = 0) /\ ResultInv'
  BY <1>1, FaultBudget, ResultKept
<1>4. /\ Current' = Current /\ RoleMatches' = RoleMatches /\ Attack' = Attack
  BY <1>1 DEF Current, Attack, RoleMatches
<1>5. CASE Unreached
  <2>1. /\ phase' \in {"attest", "report"} /\ InScript'
        /\ script'.ok = FALSE /\ script' \in [step : Nat, ok : BOOLEAN, match : BOOLEAN]
        /\ script'.step \in DOMAIN Current.calls
        /\ phase' = "attest" => script'.step = script.step + 1 /\ Current.how = "cascade"
        /\ phase' = "report" => script'.step = script.step
    BY <1>1, <1>5, UnreachedFacts DEF IInv, InScript
  <2>2. HostShape'
    BY <1>1, <1>2, <1>4, <2>1 DEF IInv, HostShape, Phases
  <2>3. ScriptInv'
    BY <1>4, <2>1 DEF ScriptInv
  <2>4. \A i \in DOMAIN Attacks : \A k \in DOMAIN ScenarioOf(Attacks[i]).calls :
          NotReached(i, k)' => NotReached(i, k)
    <3> SUFFICES ASSUME NEW i \in DOMAIN Attacks, NEW k \in DOMAIN ScenarioOf(Attacks[i]).calls,
                        NotReached(i, k)', i = at
                 PROVE  NotReached(i, k)
      BY <1>1, <2>1 DEF NotReached
    <3>1. k \in Nat /\ script.step \in Nat
      BY Dispatched, ScenarioFacts DEF IInv, HostShape
    <3> QED
      BY <1>1, <2>1, <3>1 DEF NotReached
  <2> QED
    BY <1>1, <1>3, <2>1, <2>2, <2>3, <2>4, QuietStep
<1>6. CASE (Current.how = "loop" \/ RoleMatches) /\ phase' = "send" /\ script' = script
  <2>1. InScript'
    BY <1>6 DEF InScript
  <2>2. HostShape'
    BY <1>1, <1>2, <1>4, <1>6 DEF IInv, HostShape, Phases
  <2>3. Behind' = Behind
    BY <1>1, <1>4, <1>6 DEF Behind
  <2>4. \A k : /\ Answered(<<Attack, k>>)' <=> Answered(<<Attack, k>>)
               /\ Proved(<<Attack, k>>)' <=> Proved(<<Attack, k>>)
    BY <1>1, <1>4 DEF Answered, Proved
  <2>5. ScriptInv'
    BY <1>1, <1>4, <1>6, <2>3, <2>4 DEF IInv, ScriptInv
  <2>6. \A i, k : NotReached(i, k)' => NotReached(i, k)
    BY <1>1, <1>6, <2>1 DEF NotReached
  <2> QED
    BY <1>1, <1>3, <1>6, <2>1, <2>2, <2>5, <2>6, QuietStep
<1> QED
  BY <1>5, <1>6 DEF Attest, Goto

\* After the agent loop the script attests for itself.
LEMMA ReattestStep ==
  ASSUME IInv, Reattest
  PROVE  IInv'
<1>1. /\ phase = "reattest" /\ phase' = "report" /\ InScript /\ InScript'
      /\ UNCHANGED <<at, listed, result, exit, call, pep, quarantine, late>>
      /\ UNCHANGED faults \/ Fault
      /\ script' = [script EXCEPT !.ok = FALSE] \/ script' = [script EXCEPT !.ok = RoleMatches]
  BY DEF Reattest, Goto, InScript
<1>2. FaultShape' /\ (faults' = 0 => faults = 0) /\ ResultInv'
  BY <1>1, FaultBudget, ResultKept
<1>3. /\ Current' = Current /\ RoleMatches' = RoleMatches /\ Attack' = Attack
  BY <1>1 DEF Current, Attack, RoleMatches
<1>4. /\ script' \in [step : Nat, ok : BOOLEAN, match : BOOLEAN]
      /\ script'.step = script.step /\ script'.match = script.match
      /\ script'.ok => RoleMatches
  BY <1>1 DEF IInv, HostShape, RoleMatches
<1>5. HostShape'
  BY <1>1, <1>3, <1>4 DEF IInv, HostShape, Phases
<1>6. ScriptInv'
  <2>1. script.ok /\ Current.how = "loop"
    BY <1>1 DEF IInv, ScriptInv
  <2>2. Behind' = Behind
    BY <1>1, <1>3, <1>4 DEF Behind
  <2>3. \A k : /\ Answered(<<Attack, k>>)' <=> Answered(<<Attack, k>>)
               /\ Proved(<<Attack, k>>)' <=> Proved(<<Attack, k>>)
    BY <1>1, <1>3 DEF Answered, Proved
  <2> QED
    BY <1>1, <1>3, <1>4, <2>1, <2>2, <2>3 DEF IInv, ScriptInv
<1>7. \A i, k : NotReached(i, k)' => NotReached(i, k)
  BY <1>1, <1>4 DEF NotReached
<1> QED
  BY <1>1, <1>2, <1>5, <1>6, <1>7, QuietStep

\* A script that sends a call, or is done with one, changes that call alone,
\* and not a call that was answered or given up.
LEMMA ScriptFrame ==
  ASSUME IInv, InScript, UNCHANGED <<at, result, quarantine>>,
         \A x \in Ids : x # Id => call'[x] = call[x],
         ~ Answered(Id), ~ Gone(Id), phase' # "dispatch"
  PROVE  /\ ResultInv' /\ FreshInv'
         /\ \A x \in Ids : Gone(x) => Gone(x)'
<1>1. \A x \in Ids : Answered(x) \/ Gone(x) => call'[x] = call[x]
  OBVIOUS
<1>2. \A x \in Ids : Gone(x) => Gone(x)'
  BY <1>1 DEF Gone
<1>3. FreshInv'
  BY <1>2 DEF IInv, FreshInv, Since
<1>4. ResultInv'
  <2> SUFFICES ASSUME NEW a \in Names, result[a] \in {"VERIFIED", "MISMATCH"}
               PROVE  /\ \A k \in DOMAIN ScenarioOf(a).calls : Answered(<<a, k>>)'
                      /\ \A k \in Graded(a) : Proved(<<a, k>>)' <=> Proved(<<a, k>>)
    BY DEF IInv, ResultInv
  <2>1. \A k \in DOMAIN ScenarioOf(a).calls :
          <<a, k>> \in Ids /\ Answered(<<a, k>>) /\ call'[<<a, k>>] = call[<<a, k>>]
    BY <1>1, Dispatched, IdIsCall DEF IInv, ResultInv
  <2> QED
    BY <2>1 DEF Graded, Answered, Proved
<1> QED
  BY <1>2, <1>3, <1>4

\* The script's position in the suite.
LEMMA AtCall ==
  ASSUME IInv, InScript
  PROVE  /\ at \in DOMAIN Attacks /\ at <= Len(Attacks) /\ Attack = Attacks[at]
         /\ script.step \in DOMAIN Current.calls /\ script.step \in Nat
         /\ DOMAIN Current.calls = 1 .. Len(Current.calls) /\ Len(Current.calls) \in Nat
         /\ Id \in Ids /\ Id = <<Attack, script.step>> /\ Current = ScenarioOf(Attack)
         /\ call[Id] \in CallType
         /\ \A i \in DOMAIN Attacks : \A k \in DOMAIN ScenarioOf(Attacks[i]).calls :
              /\ k \in Nat
              /\ <<Attacks[i], k>> = Id <=> i = at /\ k = script.step
<1>1. at \in DOMAIN Attacks /\ at <= Len(Attacks) /\ script.step \in DOMAIN Current.calls
  BY CurrentCall DEF IInv, HostShape
<1>2. DOMAIN Current.calls = 1 .. Len(Current.calls) /\ Len(Current.calls) \in Nat
  BY <1>1, Dispatched, ScenarioFacts DEF Current, Attack
<1>3. Id \in Ids
  BY CurrentCall DEF IInv
<1>4. call[Id] \in CallType
  BY <1>3 DEF IInv, CallShape
<1>5. \A i \in DOMAIN Attacks : \A k \in DOMAIN ScenarioOf(Attacks[i]).calls :
        /\ k \in Nat
        /\ <<Attacks[i], k>> = Id <=> i = at /\ k = script.step
  BY <1>1, Dispatched, ScenarioFacts DEF Id, Attack
<1> QED
  BY <1>1, <1>2, <1>3, <1>4, <1>5 DEF Id, Attack, Current

\* The script makes its call.
LEMMA SendStep ==
  ASSUME IInv, Send
  PROVE  IInv'
<1> DEFINE c == [call[Id] EXCEPT !.stage = "queued", !.client = "waiting"]
<1>1. /\ phase = "send" /\ phase' = "wait" /\ InScript /\ InScript'
      /\ call' = [call EXCEPT ![Id] = c]
      /\ UNCHANGED <<at, listed, script, result, exit, pep, quarantine, late, faults>>
  BY DEF Send, Goto, InScript
<1>2. /\ at \in DOMAIN Attacks /\ at <= Len(Attacks) /\ Attack = Attacks[at]
      /\ script.step \in DOMAIN Current.calls /\ script.step \in Nat
      /\ Id \in Ids /\ Id = <<Attack, script.step>> /\ Current = ScenarioOf(Attack)
      /\ call[Id] \in CallType
      /\ \A i \in DOMAIN Attacks : \A k \in DOMAIN ScenarioOf(Attacks[i]).calls :
           /\ k \in Nat
           /\ <<Attacks[i], k>> = Id <=> i = at /\ k = script.step
  BY <1>1, AtCall
<1>3. call[Id] = Unsent
  BY <1>1, <1>2 DEF IInv, UnsentInv, NotReached
<1>4. /\ ~ Answered(Id) /\ ~ Gone(Id) /\ ~ Waiting(Id)
      /\ call[Id].row = NoRow /\ call[Id].posts = <<>>
  BY <1>3 DEF Answered, Gone, Waiting, Unsent
<1>5. /\ c \in CallType /\ c.stage = "queued" /\ c.client = "waiting" /\ c.posts = <<>>
      /\ c.row = NoRow
  BY <1>2, <1>4 DEF CallType, Stages
<1> HIDE DEF c
<1>6. CallShape' /\ call'[Id] = c /\ \A x \in Ids : x # Id => call'[x] = call[x]
  BY <1>1, <1>2, <1>5, CallWritten
<1>7. /\ Attack' = Attack /\ Current' = Current /\ Id' = Id /\ RoleMatches' = RoleMatches
      /\ Behind' = Behind
  BY <1>1 DEF Attack, Current, Id, RoleMatches, Behind
<1>8. /\ ResultInv' /\ FreshInv'
      /\ \A x \in Ids : Gone(x) => Gone(x)'
  BY <1>1, <1>4, <1>6, ScriptFrame
<1>9. HostShape'
  BY <1>1, <1>2, <1>7 DEF IInv, HostShape, Phases
<1>10. TableShape' /\ TaintInv' /\ FaultShape'
  BY <1>1 DEF IInv, TableShape, TaintInv, FaultShape, pep
<1>11. UnsentInv'
  <2> SUFFICES ASSUME NEW i \in DOMAIN Attacks, NEW k \in DOMAIN ScenarioOf(Attacks[i]).calls,
                      NotReached(i, k)'
               PROVE  call'[<<Attacks[i], k>>] = Unsent
    BY DEF UnsentInv
  <2>1. NotReached(i, k) /\ ~ (i = at /\ k = script.step)
    BY <1>1, <1>2, Dispatched DEF NotReached
  <2> QED
    BY <1>2, <1>6, <2>1, IdIsCall DEF IInv, UnsentInv
<1>12. \A x \in Ids : x # Id => /\ Answered(x)' <=> Answered(x)
                                /\ Waiting(x)' <=> Waiting(x)
                                /\ ~ Waiting(x)
  BY <1>1, <1>6 DEF IInv, ClientInv, Answered, Waiting
<1>13. Waiting(Id)' /\ ~ Answered(Id)' /\ \A x : x = Id => Waiting(x)' /\ ~ Answered(x)'
  BY <1>5, <1>6, <1>7 DEF Waiting, Answered
<1>14. ClientInv'
  <2>1. \A x \in Ids : /\ Waiting(x)' => x = Id'
                       /\ Answered(x)' => call'[x].stage = "done"
                       /\ call'[x].client = "none" <=> call'[x].stage = "unsent"
    BY <1>5, <1>6, <1>7, <1>12, <1>13 DEF IInv, ClientInv
  <2>2. phase' = "wait" /\ at' = at /\ at <= Len(Attacks)
    BY <1>1, <1>2
  <2> QED
    BY <1>7, <1>13, <2>1, <2>2 DEF ClientInv
<1>15. RowInv'
  <2> SUFFICES ASSUME NEW i \in DOMAIN Attacks, NEW k \in DOMAIN ScenarioOf(Attacks[i]).calls,
                      call'[<<Attacks[i], k>>].row # NoRow, Live(<<Attacks[i], k>>)'
               PROVE  \A row : row = call'[<<Attacks[i], k>>].row => Since(row, i)'
    BY DEF RowInv
  <2>1. <<Attacks[i], k>> \in Ids /\ <<Attacks[i], k>> # Id
    BY <1>5, <1>6, IdIsCall
  <2>2. Answered(<<Attacks[i], k>>) /\ call'[<<Attacks[i], k>>] = call[<<Attacks[i], k>>]
    BY <1>6, <1>12, <2>1 DEF Live
  <2>3. Since(call[<<Attacks[i], k>>].row, i)
    BY <2>2 DEF IInv, RowInv, Live
  <2> QED
    BY <1>8, <2>2, <2>3 DEF Since
<1>16. ReasonInv'
  <2>1. ~ IsRaw(Id) => call'[Id].stage \in Unjudged
    BY <1>5, <1>6 DEF Unjudged
  <2>2. IsRaw(Id) => \A x : x = Id => RawReason(x)'
    BY <1>5, <1>6 DEF RawReason, RawStages
  <2>3. \A x \in Ids : x = Id \/ call'[x] = call[x]
    BY <1>6
  <2> QED
    BY <1>5, <1>6, <2>1, <2>2, <2>3
       DEF IInv, ReasonInv, RawReason, Outcome, Verdicted, Unjudged
<1>17. CascadeInv'
  <2> SUFFICES ASSUME NEW i \in DOMAIN Attacks, ScenarioOf(Attacks[i]).how = "cascade"
               PROVE  LeavesRow(i)' /\ MeetsRow(i)'
    BY DEF CascadeInv
  <2>1. <<Attacks[i], 1>> \in Ids /\ <<Attacks[i], 2>> \in Ids
    BY IdIsCall, Dispatched, ScenarioFacts
  <2>2. LeavesRow(i) /\ MeetsRow(i)
    BY DEF IInv, CascadeInv
  <2>3. LeavesRow(i)'
    BY <1>1, <1>5, <1>6, <2>1, <2>2 DEF LeavesRow, PastEnter
  <2>4. MeetsRow(i)'
    BY <1>1, <1>5, <1>6, <1>12, <1>13, <2>1, <2>2 DEF MeetsRow, Live, Admitted
  <2> QED
    BY <2>3, <2>4
<1>18. ScriptInv'
  <2>1. \A k \in Behind : <<Attack, k>> \in Ids /\ <<Attack, k>> # Id
    BY <1>1, <1>2, IdIsCall DEF Behind
  <2>2. \A k \in Behind : /\ Answered(<<Attack, k>>)' <=> Answered(<<Attack, k>>)
                          /\ Proved(<<Attack, k>>)' <=> Proved(<<Attack, k>>)
    BY <1>6, <1>7, <2>1 DEF Answered, Proved
  <2> QED
    BY <1>1, <1>7, <2>2 DEF IInv, ScriptInv
<1> QED
  BY <1>6, <1>8, <1>9, <1>10, <1>11, <1>14, <1>15, <1>16, <1>17, <1>18 DEF IInv

\* A script stops waiting, with an answer or without.
LEMMA WaitIsOver ==
  ASSUME IInv, phase = "wait", phase' \in {"attest", "send", "reattest", "report"},
         NEW end \in {"answered", "gone"},
         end = "answered" => call[Id].stage = "done",
         call' = [call EXCEPT ![Id].client = end],
         UNCHANGED <<at, listed, result, exit, pep, quarantine, late>>,
         \A i \in DOMAIN Attacks : \A k \in DOMAIN ScenarioOf(Attacks[i]).calls :
           NotReached(i, k)' => NotReached(i, k)
  PROVE  /\ CallShape' /\ TableShape' /\ TaintInv' /\ ReasonInv' /\ ResultInv' /\ FreshInv'
         /\ UnsentInv' /\ ClientInv' /\ RowInv'
         /\ \A x \in Ids : x # Id => call'[x] = call[x]
         /\ call'[Id] = [call[Id] EXCEPT !.client = end]
<1> DEFINE c == [call[Id] EXCEPT !.client = end]
<1>1. InScript /\ InScript' /\ call' = [call EXCEPT ![Id] = c]
  BY DEF InScript
<1>2. /\ at <= Len(Attacks) /\ Attack = Attacks[at] /\ Id \in Ids /\ call[Id] \in CallType
      /\ \A i \in DOMAIN Attacks : \A k \in DOMAIN ScenarioOf(Attacks[i]).calls :
           <<Attacks[i], k>> = Id <=> i = at /\ k = script.step
  BY <1>1, AtCall
<1>3. /\ Waiting(Id) /\ call[Id].stage # "unsent" /\ ~ Answered(Id) /\ ~ Gone(Id)
  BY <1>2 DEF IInv, ClientInv, Waiting, Answered, Gone
<1>4. /\ c \in CallType /\ c.stage = call[Id].stage /\ c.client = end
      /\ c.decision = call[Id].decision /\ c.reason = call[Id].reason
      /\ c.posts = call[Id].posts /\ c.row = call[Id].row
  BY <1>2 DEF CallType
<1>5. c.stage = "enter" <=> c.posts # <<>>
  BY <1>2, <1>4 DEF IInv, CallShape
<1> HIDE DEF c
<1>6. CallShape' /\ call'[Id] = c /\ \A x \in Ids : x # Id => call'[x] = call[x]
  BY <1>1, <1>2, <1>4, <1>5, CallWritten
<1>7. /\ ResultInv' /\ FreshInv'
      /\ \A x \in Ids : Gone(x) => Gone(x)'
  BY <1>1, <1>3, <1>6, ScriptFrame
<1>8. TableShape' /\ TaintInv'
  BY DEF IInv, TableShape, TaintInv, pep
<1>9. UnsentInv'
  <2> SUFFICES ASSUME NEW i \in DOMAIN Attacks, NEW k \in DOMAIN ScenarioOf(Attacks[i]).calls,
                      NotReached(i, k)'
               PROVE  call'[<<Attacks[i], k>>] = Unsent
    BY DEF UnsentInv
  <2>1. call[<<Attacks[i], k>>] = Unsent /\ <<Attacks[i], k>> \in Ids
    BY IdIsCall DEF IInv, UnsentInv
  <2>2. <<Attacks[i], k>> # Id
    BY <1>3, <2>1 DEF Unsent
  <2> QED
    BY <1>6, <2>1, <2>2
<1>10. \A x \in Ids : /\ ~ Waiting(x)'
                      /\ Answered(x)' => call'[x].stage = "done"
                      /\ call'[x].client = "none" <=> call'[x].stage = "unsent"
  <2> SUFFICES ASSUME NEW x \in Ids
               PROVE  /\ ~ Waiting(x)'
                      /\ Answered(x)' => call'[x].stage = "done"
                      /\ call'[x].client = "none" <=> call'[x].stage = "unsent"
    OBVIOUS
  <2>1. CASE x = Id
    BY <1>3, <1>4, <1>6, <2>1 DEF Waiting, Answered
  <2>2. CASE x # Id
    BY <1>6, <2>2 DEF IInv, ClientInv, Waiting, Answered
  <2> QED
    BY <2>1, <2>2
<1>11. ClientInv'
  BY <1>2, <1>10 DEF ClientInv
<1>12. RowInv'
  <2> SUFFICES ASSUME NEW i \in DOMAIN Attacks, NEW k \in DOMAIN ScenarioOf(Attacks[i]).calls,
                      call'[<<Attacks[i], k>>].row # NoRow, Live(<<Attacks[i], k>>)'
               PROVE  \A row : row = call'[<<Attacks[i], k>>].row => Since(row, i)'
    BY DEF RowInv
  <2>1. <<Attacks[i], k>> \in Ids
    BY IdIsCall
  <2>2. call'[<<Attacks[i], k>>].row = call[<<Attacks[i], k>>].row
    BY <1>4, <1>6, <2>1
  <2>3. Live(<<Attacks[i], k>>)
    BY <1>3, <1>6, <1>10, <2>1 DEF Live, Answered
  <2>4. Since(call[<<Attacks[i], k>>].row, i)
    BY <2>2, <2>3 DEF IInv, RowInv
  <2> QED
    BY <1>7, <2>2, <2>4 DEF Since
<1>13. ReasonInv'
  <2>1. \A x \in Ids : /\ call'[x].stage = call[x].stage /\ call'[x].row = call[x].row
                       /\ call'[x].decision = call[x].decision
                       /\ call'[x].reason = call[x].reason
    BY <1>4, <1>6
  <2> QED
    BY <2>1 DEF IInv, ReasonInv, RawReason, Outcome, Verdicted
<1> QED
  BY <1>6, <1>7, <1>8, <1>9, <1>11, <1>12, <1>13 DEF c

\* The script stops waiting; its call may still be served.
LEMMA GiveUpStep ==
  ASSUME IInv, GiveUp
  PROVE  IInv'
<1>1. /\ phase = "wait" /\ InScript /\ Fault /\ Unreached
      /\ call' = [call EXCEPT ![Id].client = "gone"]
      /\ UNCHANGED <<at, listed, result, exit, pep, quarantine, late>>
  BY DEF GiveUp, InScript
<1>2. /\ at <= Len(Attacks) /\ script.step \in Nat
      /\ \A i \in DOMAIN Attacks : \A k \in DOMAIN ScenarioOf(Attacks[i]).calls : k \in Nat
  BY <1>1, AtCall
<1>3. /\ phase' \in {"attest", "report"}
      /\ script'.ok = FALSE /\ script' \in [step : Nat, ok : BOOLEAN, match : BOOLEAN]
      /\ script'.step \in DOMAIN Current.calls /\ Current' = Current
      /\ phase' = "attest" => script'.step = script.step + 1 /\ Current.how = "cascade"
      /\ phase' = "report" => script'.step = script.step
  BY <1>1, UnreachedFacts DEF IInv
<1>4. \A i \in DOMAIN Attacks : \A k \in DOMAIN ScenarioOf(Attacks[i]).calls :
        NotReached(i, k)' => NotReached(i, k)
  BY <1>1, <1>2, <1>3 DEF NotReached, InScript
<1>5. /\ CallShape' /\ TableShape' /\ TaintInv' /\ ReasonInv' /\ ResultInv' /\ FreshInv'
      /\ UnsentInv' /\ ClientInv' /\ RowInv'
  BY <1>1, <1>3, <1>4, WaitIsOver
<1>6. HostShape'
  BY <1>1, <1>2, <1>3 DEF IInv, HostShape, Phases
<1>7. FaultShape' /\ faults' # 0
  BY <1>1, FaultBudget, BoundsAssumption DEF IInv, FaultShape, Fault
<1>8. ScriptInv'
  BY <1>3 DEF ScriptInv
<1>9. CascadeInv'
  BY <1>7 DEF CascadeInv, LeavesRow, MeetsRow
<1> QED
  BY <1>5, <1>6, <1>7, <1>8, <1>9 DEF IInv

\* The script has its answer, and grades it.
LEMMA ReceiveStep ==
  ASSUME IInv, Receive
  PROVE  IInv'
<1> DEFINE passed == Step.expected # Ungraded => Assess(call[Id], Step.expected)
           match  == script.match /\ passed
           step   == IF script.step < Len(Current.calls) THEN script.step + 1 ELSE script.step
           last == script.step = Len(Current.calls)
<1>1. /\ phase = "wait" /\ InScript /\ call[Id].stage = "done"
      /\ call' = [call EXCEPT ![Id].client = "answered"]
      /\ script' = [script EXCEPT !.match = match, !.step = step]
      /\ phase' = AfterCall
      /\ UNCHANGED <<at, listed, result, exit, pep, quarantine, late, faults>>
  BY DEF Receive, Goto, InScript
<1>2. /\ at \in DOMAIN Attacks /\ at <= Len(Attacks) /\ Attack = Attacks[at]
      /\ script.step \in DOMAIN Current.calls /\ script.step \in Nat
      /\ DOMAIN Current.calls = 1 .. Len(Current.calls) /\ Len(Current.calls) \in Nat
      /\ Id \in Ids /\ Id = <<Attack, script.step>> /\ Current = ScenarioOf(Attack)
      /\ \A i \in DOMAIN Attacks : \A k \in DOMAIN ScenarioOf(Attacks[i]).calls :
           /\ k \in Nat
           /\ <<Attacks[i], k>> = Id <=> i = at /\ k = script.step
  BY <1>1, AtCall
<1>3. /\ Current.how \in {"single", "loop", "raw", "cascade"}
      /\ Current.how \in {"single", "raw"} => last
  BY <1>2, Dispatched, ScenarioFacts
<1>4. /\ last => phase' = (IF Current.how = "loop" THEN "reattest" ELSE "report")
      /\ ~ last => phase' = (IF Current.how = "loop" THEN "send" ELSE "attest")
  BY <1>1 DEF AfterCall
<1>5. /\ script' \in [step : Nat, ok : BOOLEAN, match : BOOLEAN]
      /\ script'.ok = script.ok
      /\ script'.match <=> script.match /\ passed
      /\ last => script'.step = script.step
      /\ ~ last => script'.step = script.step + 1 /\ script.step + 1 \in DOMAIN Current.calls
  <2>1. script \in [step : Nat, ok : BOOLEAN, match : BOOLEAN]
    BY DEF IInv, HostShape
  <2>2. /\ last => step = script.step
        /\ ~ last => step = script.step + 1 /\ script.step + 1 \in DOMAIN Current.calls
        /\ step \in Nat
    BY <1>2
  <2>3. match \in BOOLEAN
    OBVIOUS
  <2> HIDE DEF match, step
  <2>4. /\ script' \in [step : Nat, ok : BOOLEAN, match : BOOLEAN]
        /\ script'.ok = script.ok /\ script'.match = match /\ script'.step = step
    BY <1>1, <2>1, <2>2, <2>3
  <2> QED
    BY <2>2, <2>4 DEF match
<1> HIDE DEF match, step
<1> HIDE DEF passed
<1>6. /\ Attack' = Attack /\ Current' = Current /\ RoleMatches' = RoleMatches
      /\ phase' \in {"attest", "send", "reattest", "report"}
      /\ InScript'
  BY <1>1, <1>4 DEF Attack, Current, RoleMatches, InScript
<1>7. \A i \in DOMAIN Attacks : \A k \in DOMAIN ScenarioOf(Attacks[i]).calls :
        NotReached(i, k)' => NotReached(i, k)
  <2> SUFFICES ASSUME NEW i \in DOMAIN Attacks, NEW k \in DOMAIN ScenarioOf(Attacks[i]).calls,
                      NotReached(i, k)'
               PROVE  NotReached(i, k)
    OBVIOUS
  <2>1. k \in Nat /\ i \in Nat /\ at \in Nat
    BY <1>2, Dispatched
  <2>2. CASE last
    BY <1>1, <1>2, <1>4, <1>5, <1>6, <2>1, <2>2 DEF NotReached
  <2>3. CASE ~ last
    BY <1>1, <1>2, <1>4, <1>5, <1>6, <2>1, <2>3 DEF NotReached
  <2> QED
    BY <2>2, <2>3
<1>8. /\ CallShape' /\ TableShape' /\ TaintInv' /\ ReasonInv' /\ ResultInv' /\ FreshInv'
      /\ UnsentInv' /\ ClientInv' /\ RowInv'
      /\ \A x \in Ids : x # Id => call'[x] = call[x]
      /\ call'[Id] = [call[Id] EXCEPT !.client = "answered"]
  BY <1>1, <1>6, <1>7, WaitIsOver
<1>9. /\ call[Id] \in CallType /\ Waiting(Id) /\ Live(Id)
  BY <1>1, <1>2 DEF IInv, CallShape, ClientInv, Live
<1>10. /\ call'[Id].client = "answered" /\ call'[Id].stage = call[Id].stage
       /\ call'[Id].row = call[Id].row /\ call'[Id].decision = call[Id].decision
       /\ call'[Id].reason = call[Id].reason
  BY <1>8, <1>9 DEF CallType
<1>11. HostShape'
  BY <1>1, <1>2, <1>5, <1>6 DEF IInv, HostShape, Phases
<1>12. FaultShape'
  BY <1>1 DEF IInv, FaultShape
<1>13. CascadeInv'
  <2> SUFFICES ASSUME NEW i \in DOMAIN Attacks, ScenarioOf(Attacks[i]).how = "cascade"
               PROVE  LeavesRow(i)' /\ MeetsRow(i)'
    BY DEF CascadeInv
  <2>1. /\ <<Attacks[i], 1>> \in Ids /\ <<Attacks[i], 2>> \in Ids
        /\ <<Attacks[i], 1>> # <<Attacks[i], 2>>
        /\ {1, 2} \subseteq DOMAIN ScenarioOf(Attacks[i]).calls
    BY IdIsCall, Dispatched, ScenarioFacts
  <2>2. LeavesRow(i) /\ MeetsRow(i)
    BY DEF IInv, CascadeInv
  <2>3. LeavesRow(i)'
    BY <1>1, <1>8, <1>10, <2>1, <2>2 DEF LeavesRow
  <2>4. CASE <<Attacks[i], 1>> = Id
    <3>1. i = at /\ script.step = 1
      BY <1>2, <2>1, <2>4
    <3>2. call[<<Attacks[i], 2>>] = Unsent
      BY <1>1, <2>1, <3>1 DEF IInv, UnsentInv, NotReached
    <3>3. call'[<<Attacks[i], 2>>] = Unsent
      BY <1>8, <2>1, <2>4, <3>2
    <3> QED
      BY <2>3, <3>3 DEF MeetsRow, Live, Answered, Waiting, Unsent
  <2>5. CASE <<Attacks[i], 1>> # Id
    <3>1. Answered(<<Attacks[i], 1>>)' <=> Answered(<<Attacks[i], 1>>)
      BY <1>8, <2>1, <2>5 DEF Answered
    <3>2. Live(<<Attacks[i], 2>>)' => Live(<<Attacks[i], 2>>)
      BY <1>6, <1>8, <1>9, <2>1 DEF Live, Answered
    <3> QED
      BY <1>1, <1>8, <1>10, <2>1, <2>2, <2>3, <3>1, <3>2 DEF MeetsRow
  <2> QED
    BY <2>4, <2>5
<1>14. ScriptInv'
  <2>1. Behind' = Behind \union {script.step}
    <3>1. Behind = {k \in DOMAIN Current.calls : k < script.step}
      BY <1>1 DEF Behind
    <3>2. CASE last
      <4>1. Behind' = DOMAIN Current.calls
        BY <1>3, <1>4, <1>6, <3>2 DEF Behind
      <4> QED
        BY <1>2, <3>1, <3>2, <4>1
    <3>3. CASE ~ last
      <4>1. Behind' = {k \in DOMAIN Current.calls : k < script.step + 1}
        BY <1>3, <1>4, <1>5, <1>6, <3>3 DEF Behind
      <4> QED
        BY <1>2, <3>1, <4>1
    <3> QED
      BY <3>2, <3>3
  <2>2. \A k \in Behind : <<Attack, k>> \in Ids /\ <<Attack, k>> # Id
    BY <1>1, <1>2, IdIsCall DEF Behind
  <2>3. \A k \in Behind : /\ Answered(<<Attack, k>>)' <=> Answered(<<Attack, k>>)
                          /\ Proved(<<Attack, k>>)' <=> Proved(<<Attack, k>>)
    BY <1>6, <1>8, <2>2 DEF Answered, Proved
  <2>4. \A k : k = script.step => Answered(<<Attack, k>>)'
    BY <1>2, <1>6, <1>10 DEF Answered
  <2>5. \A k : k = script.step =>
          (passed <=> (k \in Graded(Attack) => Proved(<<Attack, k>>)'))
    <3> SUFFICES ASSUME NEW k, k = script.step
                 PROVE  passed <=> (k \in Graded(Attack) => Proved(<<Attack, k>>)')
      OBVIOUS
    <3>1. Step = ScenarioOf(Attack).calls[k]
      BY <1>2 DEF Step
    <3>2. Expected(<<Attack, k>>) = Step.expected
      BY <3>1 DEF Expected, CallOf
    <3>3. k \in Graded(Attack) <=> Step.expected # Ungraded
      BY <1>2, <3>1 DEF Graded
    <3>4. Proved(<<Attack, k>>)' <=> Assess(call[Id], Step.expected)
      BY <1>2, <1>6, <1>10, <3>2 DEF Proved, Assess, Expected
    <3> QED
      BY <3>3, <3>4 DEF passed
  <2>6. script.ok => /\ \A k \in Behind : Answered(<<Attack, k>>)
                     /\ script.match <=> \A k \in Behind \intersect Graded(Attack) :
                                           Proved(<<Attack, k>>)
    BY <1>1 DEF IInv, ScriptInv
  <2>7. script.ok => /\ \A k \in Behind' : Answered(<<Attack, k>>)'
                     /\ script'.match <=> \A k \in Behind' \intersect Graded(Attack) :
                                            Proved(<<Attack, k>>)'
    BY <1>5, <2>1, <2>3, <2>4, <2>5, <2>6
  <2>8. /\ Current.how \in {"single", "cascade"} => RoleMatches
        /\ Current.how = "loop" => script.ok
    BY <1>1 DEF IInv, ScriptInv
  <2>9. /\ phase' = "attest" => Current.how = "cascade"
        /\ phase' = "reattest" => Current.how = "loop"
        /\ phase' = "send" => Current.how = "loop"
        /\ phase' = "report" => Current.how # "loop"
        /\ phase' # "wait"
    BY <1>3, <1>4
  <2> QED
    BY <1>3, <1>5, <1>6, <2>7, <2>8, <2>9 DEF ScriptInv
<1> QED
  BY <1>8, <1>11, <1>12, <1>13, <1>14 DEF IInv

-----------------------------------------------------------------------------
\* Every step of the suite keeps the invariant.
THEOREM SuiteInductive == IInv /\ [Next]_vars => IInv'
<1> SUFFICES ASSUME IInv, [Next]_vars PROVE IInv'
  OBVIOUS
<1>1. CASE Host
  BY <1>1, StartStep, CommandFailsStep, ListStep, DeleteListedStep, VerifyStep, DispatchStep,
     ReportStep, AttestStep, SendStep, ReceiveStep, GiveUpStep, ReattestStep DEF Host
<1>2. ASSUME NEW id \in Ids, Serve(id) \/ LateEnter(id) PROVE IInv'
  BY <1>2, ServeKeeps, LateEnterStep
<1>3. CASE UNCHANGED vars
  BY <1>3, StutterStep
<1> QED
  BY <1>1, <1>2, <1>3 DEF Next

\* The invariant holds in every state the suite can be in.
THEOREM SuiteInvariant == Spec => []IInv
<1> QED
  BY SuiteInit, SuiteInductive, PTL DEF Spec
-----------------------------------------------------------------------------
(* The rules of the deployed bundle.                                       *)

\* Sequences of two and of four elements, and the sets of their elements.
LEMMA PairRange ==
  ASSUME NEW a, NEW b
  PROVE  /\ <<a, b>> \in Seq({a, b})
         /\ Range(<<a, b>>) = {a, b}
<1>1. DOMAIN <<a, b>> = {1, 2}
  OBVIOUS
<1> QED
  BY <1>1 DEF Range

\* The same for a sequence of four elements.
LEMMA QuadRange ==
  ASSUME NEW a, NEW b, NEW c, NEW d
  PROVE  /\ <<a, b, c, d>> \in Seq(Range(<<a, b, c, d>>))
         /\ Range(<<a, b, c, d>>) = {a, b, c, d}
<1>1. DOMAIN <<a, b, c, d>> = {1, 2, 3, 4}
  OBVIOUS
<1>2. <<a, b, c, d>> \in Seq({a, b, c, d})
  OBVIOUS
<1> QED
  BY <1>1, <1>2, SeqOfRange DEF Range

\* Appending a sequence to another joins their elements.
LEMMA JoinRange ==
  ASSUME NEW s, NEW t, s \in Seq(Range(s)), t \in Seq(Range(t))
  PROVE  /\ s \o t \in Seq(Range(s \o t))
         /\ Range(s \o t) = Range(s) \union Range(t)
<1> DEFINE S == Range(s)
           T == Range(t)
           U == S \union T
<1>1. s \in Seq(S) /\ t \in Seq(T)
  OBVIOUS
<1> HIDE DEF S, T
<1>2. s \in Seq(U) /\ t \in Seq(U)
  BY <1>1
<1> HIDE DEF U
<1>3. s \o t \in Seq(U)
  BY <1>2
<1>4. Range(s \o t) = Range(s) \cup Range(t)
  BY <1>2, RangeConcatenation
<1> QED
  BY <1>3, <1>4 DEF U, S, T

ResearchSet == Range(ResearchRules)
FinanceSet  == Range(FinanceRules)
SupportSet  == Range(SupportRules)
AdminSet    == Range(AdminRules)
GlobalSet   == Range(GlobalRules)
RuleSet == (((ResearchSet \union FinanceSet) \union SupportSet) \union AdminSet) \union GlobalSet

\* Each section is a sequence of its own rules.
LEMMA Sections ==
  /\ ResearchRules \in Seq(ResearchSet) /\ FinanceRules \in Seq(FinanceSet)
  /\ SupportRules \in Seq(SupportSet) /\ AdminRules \in Seq(AdminSet)
  /\ GlobalRules \in Seq(GlobalSet)
<1>1. \A a, b, s : s = <<a, b>> => s \in Seq(Range(s))
  BY PairRange
<1>2. \A a, b, c, d, s : s = <<a, b, c, d>> => s \in Seq(Range(s))
  <2> SUFFICES ASSUME NEW a, NEW b, NEW c, NEW d
               PROVE  <<a, b, c, d>> \in Seq(Range(<<a, b, c, d>>))
    OBVIOUS
  <2> QED
    BY QuadRange
<1>3. ResearchRules \in Seq(ResearchSet)
  <2> DEFINE s == ResearchRules
  <2>1. \E a, b : s = <<a, b>>
    BY Zenon DEF ResearchRules
  <2> HIDE DEF s
  <2> QED
    BY <1>1, <2>1 DEF s, ResearchSet
<1>4. GlobalRules \in Seq(GlobalSet)
  <2> DEFINE s == GlobalRules
  <2>1. \E a, b : s = <<a, b>>
    BY Zenon DEF GlobalRules
  <2> HIDE DEF s
  <2> QED
    BY <1>1, <2>1 DEF s, GlobalSet
<1>5. FinanceRules \in Seq(FinanceSet)
  <2> DEFINE s == FinanceRules
  <2>1. \E a, b, c, d : s = <<a, b, c, d>>
    BY Zenon DEF FinanceRules
  <2> HIDE DEF s
  <2> QED
    BY <1>2, <2>1 DEF s, FinanceSet
<1>6. SupportRules \in Seq(SupportSet)
  <2> DEFINE s == SupportRules
  <2>1. \E a, b, c, d : s = <<a, b, c, d>>
    BY Zenon DEF SupportRules
  <2> HIDE DEF s
  <2> QED
    BY <1>2, <2>1 DEF s, SupportSet
<1>7. AdminRules \in Seq(AdminSet)
  <2> DEFINE s == AdminRules
  <2>1. \E a, b, c, d : s = <<a, b, c, d>>
    BY Zenon DEF AdminRules
  <2> HIDE DEF s
  <2> QED
    BY <1>2, <2>1 DEF s, AdminSet
<1> QED
  BY <1>3, <1>4, <1>5, <1>6, <1>7

\* The rules of the bundle are those of its sections.
LEMMA BundleRules == BUNDLE \in Seq(RuleSet) /\ Range(BUNDLE) = RuleSet
<1> DEFINE s1 == ResearchRules \o FinanceRules
           s2 == s1 \o SupportRules
           s3 == s2 \o AdminRules
<1>1. s1 \in Seq(Range(s1)) /\ Range(s1) = ResearchSet \union FinanceSet
  BY Sections, JoinRange DEF ResearchSet, FinanceSet
<1> HIDE DEF s1
<1>2. s2 \in Seq(Range(s2)) /\ Range(s2) = Range(s1) \union SupportSet
  BY <1>1, Sections, JoinRange DEF SupportSet
<1> HIDE DEF s2
<1>3. s3 \in Seq(Range(s3)) /\ Range(s3) = Range(s2) \union AdminSet
  BY <1>2, Sections, JoinRange DEF AdminSet
<1> HIDE DEF s3
<1>4. /\ s3 \o GlobalRules \in Seq(Range(s3 \o GlobalRules))
      /\ Range(s3 \o GlobalRules) = Range(s3) \union GlobalSet
  BY <1>3, Sections, JoinRange DEF GlobalSet
<1>5. BUNDLE = s3 \o GlobalRules
  BY DEF BUNDLE, s1, s2, s3
<1> QED
  BY <1>1, <1>2, <1>3, <1>4, <1>5 DEF RuleSet

\* The elements of each section.
LEMMA SectionRules ==
  /\ ResearchSet = {ResearchRules[1], ResearchRules[2]}
  /\ FinanceSet = {FinanceRules[1], FinanceRules[2], FinanceRules[3], FinanceRules[4]}
  /\ SupportSet = {SupportRules[1], SupportRules[2], SupportRules[3], SupportRules[4]}
  /\ AdminSet = {AdminRules[1], AdminRules[2], AdminRules[3], AdminRules[4]}
  /\ GlobalSet = {GlobalRules[1], GlobalRules[2]}
<1>1. \A s : (\E a, b : s = <<a, b>>) => Range(s) = {s[1], s[2]}
  <2> SUFFICES ASSUME NEW a, NEW b, NEW s, s = <<a, b>>
               PROVE  Range(s) = {s[1], s[2]}
    OBVIOUS
  <2>1. Range(<<a, b>>) = {a, b}
    BY PairRange
  <2>2. s[1] = a /\ s[2] = b
    OBVIOUS
  <2> QED
    BY <2>1, <2>2, Zenon
<1>2. \A s : (\E a, b, c, d : s = <<a, b, c, d>>) => Range(s) = {s[1], s[2], s[3], s[4]}
  <2> SUFFICES ASSUME NEW a, NEW b, NEW c, NEW d, NEW s, s = <<a, b, c, d>>
               PROVE  Range(s) = {s[1], s[2], s[3], s[4]}
    OBVIOUS
  <2>1. Range(<<a, b, c, d>>) = {a, b, c, d}
    BY QuadRange
  <2>2. s[1] = a /\ s[2] = b /\ s[3] = c /\ s[4] = d
    OBVIOUS
  <2> QED
    BY <2>1, <2>2, Zenon
<1>3. ResearchSet = {ResearchRules[1], ResearchRules[2]}
  <2> DEFINE s == ResearchRules
  <2>1. \E a, b : s = <<a, b>>
    BY Zenon DEF ResearchRules
  <2> HIDE DEF s
  <2>2. ResearchSet = Range(s)
    BY DEF s, ResearchSet
  <2> QED
    BY <1>1, <2>1, <2>2 DEF s
<1>4. FinanceSet = {FinanceRules[1], FinanceRules[2], FinanceRules[3], FinanceRules[4]}
  <2> DEFINE s == FinanceRules
  <2>1. \E a, b, c, d : s = <<a, b, c, d>>
    BY Zenon DEF FinanceRules
  <2> HIDE DEF s
  <2>2. FinanceSet = Range(s)
    BY DEF s, FinanceSet
  <2> QED
    BY <1>2, <2>1, <2>2 DEF s
<1>5. SupportSet = {SupportRules[1], SupportRules[2], SupportRules[3], SupportRules[4]}
  <2> DEFINE s == SupportRules
  <2>1. \E a, b, c, d : s = <<a, b, c, d>>
    BY Zenon DEF SupportRules
  <2> HIDE DEF s
  <2>2. SupportSet = Range(s)
    BY DEF s, SupportSet
  <2> QED
    BY <1>2, <2>1, <2>2 DEF s
<1>6. AdminSet = {AdminRules[1], AdminRules[2], AdminRules[3], AdminRules[4]}
  <2> DEFINE s == AdminRules
  <2>1. \E a, b, c, d : s = <<a, b, c, d>>
    BY Zenon DEF AdminRules
  <2> HIDE DEF s
  <2>2. AdminSet = Range(s)
    BY DEF s, AdminSet
  <2> QED
    BY <1>2, <2>1, <2>2 DEF s
<1>7. GlobalSet = {GlobalRules[1], GlobalRules[2]}
  <2> DEFINE s == GlobalRules
  <2>1. \E a, b : s = <<a, b>>
    BY Zenon DEF GlobalRules
  <2> HIDE DEF s
  <2>2. GlobalSet = Range(s)
    BY DEF s, GlobalSet
  <2> QED
    BY <1>1, <2>1, <2>2 DEF s
<1> QED
  BY <1>3, <1>4, <1>5, <1>6, <1>7

\* The identifiers of the rules that allow; no two rules of different effect
\* share one.
AllowIds == {1, 2, 5, 6, 11, 13, 14}

\* Identifiers and priorities are integers, and an identifier tells the effect.
LEMMA RuleTable ==
  \A r \in RuleSet : /\ r.id \in 1 .. 16 /\ r.priority \in 1 .. 500
                     /\ r.effect = IF r.id \in AllowIds THEN ALLOW ELSE DENY
<1> SUFFICES ASSUME NEW r \in RuleSet
             PROVE  /\ r.id \in 1 .. 16 /\ r.priority \in 1 .. 500
                    /\ r.effect = IF r.id \in AllowIds THEN ALLOW ELSE DENY
  OBVIOUS
<1>1. CASE r \in ResearchSet
  BY <1>1, SectionRules DEF ResearchRules, Grant, Ban, Rule, AllowIds
<1>2. CASE r \in FinanceSet
  BY <1>2, SectionRules DEF FinanceRules, Grant, Ban, Rule, AllowIds
<1>3. CASE r \in SupportSet
  BY <1>3, SectionRules DEF SupportRules, Grant, Ban, Rule, AllowIds
<1>4. CASE r \in AdminSet
  BY <1>4, SectionRules DEF AdminRules, Grant, Ban, Rule, AllowIds
<1>5. CASE r \in GlobalSet
  BY <1>5, SectionRules DEF GlobalRules, Grant, Ban, Rule, AllowIds
<1> QED
  BY <1>1, <1>2, <1>3, <1>4, <1>5 DEF RuleSet

\* The bundle holds a rule at every place, and every rule at some place.
LEMMA BundlePlaces ==
  /\ DOMAIN BUNDLE = 1 .. Len(BUNDLE) /\ Len(BUNDLE) \in Nat
  /\ \A i \in DOMAIN BUNDLE : BUNDLE[i] \in RuleSet
  /\ \A r \in RuleSet : \E i \in DOMAIN BUNDLE : BUNDLE[i] = r
<1>1. Range(BUNDLE) = RuleSet /\ BUNDLE \in Seq(RuleSet)
  BY BundleRules
<1> HIDE DEF RuleSet
<1>2. DOMAIN BUNDLE = 1 .. Len(BUNDLE) /\ Len(BUNDLE) \in Nat
  BY <1>1
<1> QED
  BY <1>1, <1>2, Zenon DEF Range

\* Among rules of the bundle min() finds one.
LEMMA BundleWinner ==
  ASSUME NEW S \in SUBSET DOMAIN BUNDLE, S # {}
  PROVE  PickWinner(BUNDLE, S) \in S
<1>1. Len(BUNDLE) \in Nat /\ S \in SUBSET (1 .. Len(BUNDLE))
  BY BundlePlaces
<1>2. \A i \in S : BUNDLE[i].priority \in Int /\ BUNDLE[i].id \in Int
  <2> SUFFICES ASSUME NEW i \in S PROVE BUNDLE[i].priority \in Int /\ BUNDLE[i].id \in Int
    OBVIOUS
  <2>1. BUNDLE[i] \in RuleSet
    BY BundlePlaces
  <2> QED
    BY <2>1, RuleTable
<1> QED
  BY <1>1, <1>2, WinnerExists

\* The effect of a rule can be read off its identifier.
LEMMA EffectOfRule ==
  ASSUME NEW i \in DOMAIN BUNDLE
  PROVE  EffectOf(BUNDLE[i].id) = BUNDLE[i].effect
<1> DEFINE id == BUNDLE[i].id
           j == CHOOSE k \in DOMAIN BUNDLE : BUNDLE[k].id = id
<1>1. j \in DOMAIN BUNDLE /\ BUNDLE[j].id = id
  OBVIOUS
<1>2. EffectOf(id) = BUNDLE[j].effect
  BY DEF EffectOf
<1> HIDE DEF j
<1>3. BUNDLE[i] \in RuleSet /\ BUNDLE[j] \in RuleSet
  BY <1>1, BundlePlaces
<1> QED
  BY <1>1, <1>2, <1>3, RuleTable

Matches(r, q, taint) ==
  /\ r.role = q.role /\ q.tool \in r.tool
  /\ MatchesTarget(r, q.fqdn, q.resource) /\ MatchesTaint(r, taint)

\* A request that a denying rule matches is denied explicitly.
LEMMA DeniedByRule ==
  ASSUME NEW q, NEW taint, NEW r \in RuleSet, r.effect = DENY, Matches(r, q, taint)
  PROVE  /\ Evaluate(BUNDLE, q, taint).decision = DENY
         /\ PolicyReason(Evaluate(BUNDLE, q, taint)) = "matched_explicit_deny"
<1> DEFINE deny == OfEffect(BUNDLE, Candidates(BUNDLE, q, taint), DENY)
           w == PickWinner(BUNDLE, deny)
           p == Evaluate(BUNDLE, q, taint)
<1>1. deny \in SUBSET DOMAIN BUNDLE /\ deny # {}
  BY BundlePlaces DEF OfEffect, Candidates, Matches
<1>2. w \in deny
  BY <1>1, BundleWinner
<1>3. p = Result(DENY, BUNDLE[w].id, BUNDLE[w].max_data_class, BUNDLE[w].inspect)
  BY <1>1 DEF Evaluate
<1> HIDE DEF w, p
<1>4. w \in DOMAIN BUNDLE /\ BUNDLE[w].effect = DENY
  BY <1>2 DEF OfEffect, Candidates
<1>5. EffectOf(BUNDLE[w].id) = DENY
  BY <1>4, EffectOfRule
<1>6. BUNDLE[w].id # DEFAULT_DENY
  BY <1>4, BundlePlaces, RuleTable DEF DEFAULT_DENY
<1>7. p.decision = DENY /\ p.policy_id = BUNDLE[w].id
  BY <1>3 DEF Result
<1>8. PolicyReason(p) = "matched_explicit_deny"
  BY <1>5, <1>6, <1>7 DEF PolicyReason, DENY, ALLOW
<1> QED
  BY <1>7, <1>8 DEF p

\* A request that no rule matches is denied by default.
LEMMA DeniedByDefault ==
  ASSUME NEW q, NEW taint, \A r \in RuleSet : ~ Matches(r, q, taint)
  PROVE  /\ Evaluate(BUNDLE, q, taint).decision = DENY
         /\ PolicyReason(Evaluate(BUNDLE, q, taint)) = "no_matching_rule"
<1> DEFINE p == Evaluate(BUNDLE, q, taint)
<1>1. Candidates(BUNDLE, q, taint) = {}
  BY BundlePlaces DEF Candidates, Matches
<1>2. p = Result(DENY, DEFAULT_DENY, "unset", FALSE)
  BY <1>1 DEF Evaluate, OfEffect
<1> HIDE DEF p
<1>3. p.decision = DENY /\ p.policy_id = DEFAULT_DENY
  BY <1>2 DEF Result
<1>4. PolicyReason(p) = "no_matching_rule"
  BY <1>3 DEF PolicyReason, DENY, ALLOW
<1> QED
  BY <1>3, <1>4 DEF p

-----------------------------------------------------------------------------
(* What the deployed stack says of the graded calls, on their merits.      *)

\* What a call asks of the policy.
Asked(role, c) == [role |-> role, tool |-> c.tool, fqdn |-> c.fqdn, resource |-> c.resource]

\* A call that the policy denies is denied for the policy's reason.
LEMMA PolicyDenies ==
  ASSUME NEW role, NEW service, NEW c, NEW taint, NEW band \in Bands, NEW reason,
         c.tool # "agent.invoke",
         Evaluate(BUNDLE, Asked(role, c), taint).decision = DENY,
         PolicyReason(Evaluate(BUNDLE, Asked(role, c), taint)) = reason
  PROVE  /\ FinalVerdict(role, service, c, taint, band).decision = DENY
         /\ FinalVerdict(role, service, c, taint, band).reason = reason
<1> DEFINE p == Policy(role, service, c, taint)
<1>1. p = Evaluate(BUNDLE, Asked(role, c), taint)
  BY DEF Policy, Asked
<1>2. PolicyVerdict(c, p) = Verdict(DENY, reason)
  BY <1>1 DEF PolicyVerdict
<1>3. Verdict(DENY, reason).decision = DENY /\ Verdict(DENY, reason).reason = reason
  BY DEF Verdict
<1>4. FinalVerdict(role, service, c, taint, band) = PolicyVerdict(c, p)
  BY <1>2, <1>3, VerdictShape
<1> QED
  BY <1>2, <1>3, <1>4

\* The research agent has no rule for the market data host, nor for the
\* command and control host.
LEMMA NoRuleForHost ==
  ASSUME NEW f \in {"premium-market-data", "known-c2"}, NEW expected, NEW taint,
         NEW r \in RuleSet
  PROVE  ~ Matches(r, Asked("research_agent", Fetch(f, expected)), taint)
<1> DEFINE q == Asked("research_agent", Fetch(f, expected))
<1>1. q.role = "research_agent" /\ q.tool = "http.get" /\ q.fqdn = f
  BY DEF Asked, Fetch, Call
<1> SUFFICES ~ Matches(r, q, taint)
  OBVIOUS
<1> HIDE DEF q
<1>2. CASE r \in ResearchSet
  <2>1. CASE r = ResearchRules[1]
    <3>1. r.destination = {{"trusted-news", "arxiv"}}
      BY <2>1 DEF ResearchRules, Grant, Rule
    <3>2. f \notin UNION r.destination
      BY <3>1
    <3> QED
      BY <1>1, <3>1, <3>2 DEF Matches, MatchesTarget
  <2>2. CASE r = ResearchRules[2]
    <3>1. r.tool = {"http.post", "http.put", "db.query"}
      BY <2>2 DEF ResearchRules, Ban, Rule
    <3> QED
      BY <1>1, <3>1 DEF Matches
  <2> QED
    BY <1>2, <2>1, <2>2, SectionRules
<1>3. CASE r \in FinanceSet
  <2>1. r.role = "finance_agent"
    BY <1>3, SectionRules DEF FinanceRules, Grant, Ban, Rule
  <2> QED
    BY <1>1, <2>1 DEF Matches
<1>4. CASE r \in SupportSet
  <2>1. r.role = "support_agent"
    BY <1>4, SectionRules DEF SupportRules, Grant, Ban, Rule
  <2> QED
    BY <1>1, <2>1 DEF Matches
<1>5. CASE r \in AdminSet
  <2>1. r.role = "admin_agent"
    BY <1>5, SectionRules DEF AdminRules, Grant, Ban, Rule
  <2> QED
    BY <1>1, <2>1 DEF Matches
<1>6. CASE r \in GlobalSet
  <2>1. "http.get" \notin r.tool
    BY <1>6, SectionRules DEF GlobalRules, Ban, Rule
  <2> QED
    BY <1>1, <2>1 DEF Matches
<1> QED
  BY <1>2, <1>3, <1>4, <1>5, <1>6 DEF RuleSet

\* So that a fetch from either is denied by default.
LEMMA FetchDenied ==
  ASSUME NEW f \in {"premium-market-data", "known-c2"}, NEW expected, NEW service, NEW taint,
         NEW band \in Bands
  PROVE  LET v == FinalVerdict("research_agent", service, Fetch(f, expected), taint, band)
         IN v.decision = DENY /\ v.reason = "no_matching_rule"
<1> DEFINE c == Fetch(f, expected)
<1>1. c.tool # "agent.invoke"
  BY DEF Fetch, Call
<1>2. \A r \in RuleSet : ~ Matches(r, Asked("research_agent", c), taint)
  BY NoRuleForHost
<1> HIDE DEF c
<1>3. /\ Evaluate(BUNDLE, Asked("research_agent", c), taint).decision = DENY
      /\ PolicyReason(Evaluate(BUNDLE, Asked("research_agent", c), taint)) = "no_matching_rule"
  BY <1>2, DeniedByDefault
<1> QED
  BY <1>1, <1>3, PolicyDenies DEF c

\* A denial names no host, and no taint.
Bans(r, role, c) ==
  /\ c.tool # "agent.invoke"
  /\ r.effect = DENY /\ r.role = role /\ c.tool \in r.tool
  /\ r.session_taint = {} /\ r.destination = {}
  /\ r.resource # {} => c.resource # NoTarget /\ c.resource \in UNION r.resource

\* A call that one of the bundle's denials names is denied explicitly.
LEMMA BanDenies ==
  ASSUME NEW c, NEW role, NEW service, NEW taint, NEW band \in Bands, NEW r \in RuleSet,
         Bans(r, role, c)
  PROVE  LET v == FinalVerdict(role, service, c, taint, band)
         IN v.decision = DENY /\ v.reason = "matched_explicit_deny"
<1>1. Matches(r, Asked(role, c), taint)
  BY DEF Bans, Matches, Asked, MatchesTarget, MatchesTaint
<1>2. /\ Evaluate(BUNDLE, Asked(role, c), taint).decision = DENY
      /\ PolicyReason(Evaluate(BUNDLE, Asked(role, c), taint)) = "matched_explicit_deny"
  BY <1>1, DeniedByRule DEF Bans
<1> QED
  BY <1>2, PolicyDenies DEF Bans

\* Of the rules only the finance agent's first one matches its post to the
\* ERP, in a clean session.
LEMMA OnlyErpRule ==
  ASSUME NEW c, c.tool = "http.post", c.fqdn = "erp", NEW r \in RuleSet
  PROVE  Matches(r, Asked("finance_agent", c), "clean") <=> r = FinanceRules[1]
<1> DEFINE q == Asked("finance_agent", c)
<1>1. q.role = "finance_agent" /\ q.tool = "http.post" /\ q.fqdn = "erp"
  BY DEF Asked
<1> SUFFICES Matches(r, q, "clean") <=> r = FinanceRules[1]
  OBVIOUS
<1> HIDE DEF q
<1>2. /\ FinanceRules[1].role = "finance_agent" /\ FinanceRules[1].tool = {"http.post"}
      /\ FinanceRules[1].destination = {{"erp"}} /\ FinanceRules[1].session_taint = {{"clean"}}
  BY DEF FinanceRules, Grant, Rule
<1>3. r = FinanceRules[1] => Matches(r, q, "clean")
  <2>1. "erp" \in UNION {{"erp"}} /\ "clean" \in UNION {{"clean"}}
    OBVIOUS
  <2> QED
    BY <1>1, <1>2, <2>1 DEF Matches, MatchesTarget, MatchesTaint, NoTarget
<1>4. CASE r \in FinanceSet
  <2>1. /\ FinanceRules[2].tool = {"db.query"} /\ FinanceRules[3].tool = {"http.get"}
        /\ FinanceRules[4].tool = {"email.send"}
    BY DEF FinanceRules, Grant, Ban, Rule
  <2>2. r \in {FinanceRules[1], FinanceRules[2], FinanceRules[3], FinanceRules[4]}
    BY <1>4, SectionRules
  <2> QED
    BY <1>1, <1>3, <2>1, <2>2 DEF Matches
<1>5. CASE r \notin FinanceSet
  <2>1. r.role # "finance_agent" \/ r.tool = {"file.read"}
    <3>1. CASE r \in ResearchSet
      BY <3>1, SectionRules DEF ResearchRules, Grant, Ban, Rule
    <3>2. CASE r \in SupportSet
      BY <3>2, SectionRules DEF SupportRules, Grant, Ban, Rule
    <3>3. CASE r \in AdminSet
      BY <3>3, SectionRules DEF AdminRules, Grant, Ban, Rule
    <3>4. CASE r \in GlobalSet
      BY <3>4, SectionRules DEF GlobalRules, Ban, Rule
    <3> QED
      BY <1>5, <3>1, <3>2, <3>3, <3>4 DEF RuleSet
  <2>2. ~ Matches(r, q, "clean")
    BY <1>1, <2>1 DEF Matches
  <2> QED
    BY <1>3, <2>2
<1> QED
  BY <1>4, <1>5

\* So that the policy allows it, to be inspected, and the key in its body is
\* what stops it.
LEMMA PostBlocked ==
  ASSUME NEW c, c.tool = "http.post", c.fqdn = "erp", c.scan = "BLOCK", NEW service,
         NEW band \in Bands
  PROVE  LET v == FinalVerdict("finance_agent", service, c, "clean", band)
         IN v.decision = DENY /\ v.reason = "dlp_block"
<1> DEFINE q == Asked("finance_agent", c)
           allow == OfEffect(BUNDLE, Candidates(BUNDLE, q, "clean"), ALLOW)
           deny == OfEffect(BUNDLE, Candidates(BUNDLE, q, "clean"), DENY)
           w == PickWinner(BUNDLE, allow)
           p == Policy("finance_agent", service, c, "clean")
<1>1. FinanceRules[1].effect = ALLOW /\ FinanceRules[1].max_data_class = "confidential"
  BY DEF FinanceRules, Grant, Rule
<1>2. \A i \in DOMAIN BUNDLE : i \in Candidates(BUNDLE, q, "clean")
                                 <=> BUNDLE[i] = FinanceRules[1]
  BY BundlePlaces, OnlyErpRule DEF Candidates, Matches
<1>3. FinanceRules[1] \in RuleSet
  BY SectionRules DEF RuleSet
<1>4. \E i \in DOMAIN BUNDLE : BUNDLE[i] = FinanceRules[1]
  BY <1>3, BundlePlaces
<1>5. Candidates(BUNDLE, q, "clean") \in SUBSET DOMAIN BUNDLE
  BY DEF Candidates
<1> HIDE DEF q
<1>6. deny = {}
  BY <1>1, <1>2, <1>5 DEF OfEffect, ALLOW, DENY
<1>7. allow # {} /\ allow \in SUBSET DOMAIN BUNDLE
  BY <1>1, <1>2, <1>4, <1>5 DEF OfEffect
<1>8. w \in allow
  BY <1>7, BundleWinner
<1>9. BUNDLE[w] = FinanceRules[1]
  BY <1>2, <1>5, <1>8 DEF OfEffect
<1>10. ~ TaintCeiling(BUNDLE[w], q, "clean")
  BY DEF TaintCeiling
<1>11. Evaluate(BUNDLE, q, "clean")
         = Result(ALLOW, BUNDLE[w].id, BUNDLE[w].max_data_class, BUNDLE[w].inspect)
  BY <1>6, <1>7, <1>10 DEF Evaluate
<1>12. p = Evaluate(BUNDLE, q, "clean")
  BY DEF Policy, Asked, q
<1> HIDE DEF p, w
<1>13. p.decision = ALLOW
  BY <1>11, <1>12 DEF Result
<1>14. PolicyVerdict(c, p).decision = ALLOW
  BY <1>13 DEF PolicyVerdict, Verdict
<1>15. DlpVerdict(c, p) = Verdict(DENY, "dlp_block")
  BY <1>13 DEF DlpVerdict, NoTarget
<1>16. Verdict(DENY, "dlp_block").decision = DENY /\ Verdict(DENY, "dlp_block").reason = "dlp_block"
  BY DEF Verdict
<1>17. FinalVerdict("finance_agent", service, c, "clean", band) = DlpVerdict(c, p)
  BY <1>14, <1>15, <1>16, VerdictShape DEF p
<1> QED
  BY <1>15, <1>16, <1>17

\* No agent may call another one.
LEMMA InvokeDenied ==
  ASSUME NEW c, c.tool = "agent.invoke", NEW role, NEW service, NEW taint, NEW band \in Bands
  PROVE  LET v == FinalVerdict(role, service, c, taint, band)
         IN v.decision = DENY /\ v.reason = "no_matching_east_west_rule"
<1> DEFINE p == Policy(role, service, c, taint)
<1>1. DOMAIN EAST_WEST_RULES = {}
  BY DEF EAST_WEST_RULES
<1>2. EastWestCandidates(EAST_WEST_RULES, service, c.resource, "invoke") = {}
  BY <1>1 DEF EastWestCandidates
<1>3. p = Result(DENY, DEFAULT_DENY, "unset", FALSE)
  BY <1>2 DEF Policy, EvaluateEastWest, OfEffect
<1> HIDE DEF p
<1>4. p.decision = DENY /\ p.policy_id = DEFAULT_DENY
  BY <1>3 DEF Result
<1>5. EastWestReason(p) = "no_matching_east_west_rule"
  BY <1>4 DEF EastWestReason, DENY, ALLOW
<1>6. PolicyVerdict(c, p) = Verdict(DENY, "no_matching_east_west_rule")
  BY <1>4, <1>5 DEF PolicyVerdict
<1>7. /\ Verdict(DENY, "no_matching_east_west_rule").decision = DENY
      /\ Verdict(DENY, "no_matching_east_west_rule").reason = "no_matching_east_west_rule"
  BY DEF Verdict
<1>8. FinalVerdict(role, service, c, taint, band) = PolicyVerdict(c, p)
  BY <1>6, <1>7, VerdictShape DEF p
<1> QED
  BY <1>6, <1>7, <1>8

\* What a graded call is denied for when a script in the right role makes it
\* and neither a quarantine nor a failing service is in its way.
Merited(expected) == IF expected = "AGENT_QUARANTINED" THEN "no_matching_rule" ELSE expected

\* Every graded call is denied on its merits, whatever the risk band, and for
\* the reason that its scenario expects; the cascade's second call would be
\* denied by default.
LEMMA MeritVerdict ==
  ASSUME NEW a \in DOMAIN ATTACK_SPECS, RoleIsRight(a), NEW k \in Graded(a), NEW t \in Taints,
         t = "tainted" => Reads(a), NEW b \in Bands
  PROVE  LET s == ScenarioOf(a)
             v == FinalVerdict(AGENT_REGISTRY[s.service], s.service, s.calls[k], t, b)
         IN v.decision = DENY /\ v.reason = Merited(s.calls[k].expected)
<1> DEFINE s == ScenarioOf(a)
           c == s.calls[k]
           role == AGENT_REGISTRY[s.service]
           v == FinalVerdict(role, s.service, c, t, b)
<1> SUFFICES v.decision = DENY /\ v.reason = Merited(c.expected)
  OBVIOUS
<1>1. k \in DOMAIN s.calls /\ c.expected # Ungraded /\ role = s.role
  BY DEF Graded, RoleIsRight
<1>2. DOMAIN s.calls = 1 .. Len(s.calls) /\ Len(s.calls) \in 1 .. 3
  BY ScenarioFacts
<1>3. /\ SupportRules[3] \in RuleSet /\ FinanceRules[3] \in RuleSet /\ ResearchRules[2] \in RuleSet
  BY SectionRules DEF RuleSet
<1> USE DEF Scenario
<1>4. CASE a \in {"A1", "A7"}
  <2>1. s.role = "research_agent" /\ \E f \in {"premium-market-data", "known-c2"} :
           c = Fetch(f, "no_matching_rule")
    BY <1>1, <1>2, <1>4 DEF ScenarioOf, ATTACK_SPECS, A1, A7
  <2>2. c.expected = "no_matching_rule"
    BY <2>1 DEF Fetch, Call
  <2> QED
    BY <1>1, <2>1, <2>2, FetchDenied DEF Merited
<1>5. CASE a = "A10"
  <2>1. s.role = "research_agent" /\ \E f \in {"premium-market-data", "known-c2"} :
           \E e \in {"no_matching_rule", "AGENT_QUARANTINED"} : c = Fetch(f, e)
    BY <1>1, <1>2, <1>5 DEF ScenarioOf, ATTACK_SPECS, A10
  <2>2. c.expected \in {"no_matching_rule", "AGENT_QUARANTINED"}
    BY <2>1 DEF Fetch, Call
  <2> QED
    BY <1>1, <2>1, <2>2, FetchDenied DEF Merited
<1>6. CASE a = "A2"
  <2>1. /\ s.role = "finance_agent" /\ k = 1
        /\ s.calls = <<Call("http.post", "erp", NoTarget, "BLOCK", "dlp_block")>>
    BY <1>1, <1>2, <1>6 DEF ScenarioOf, ATTACK_SPECS, A2
  <2>2. /\ c.tool = "http.post" /\ c.fqdn = "erp" /\ c.scan = "BLOCK"
        /\ c.expected = "dlp_block"
    BY <2>1 DEF Call
  <2>3. t = "clean"
    <3>1. ~ Reads(a)
      BY <2>1 DEF Reads, Call
    <3> QED
      BY <3>1 DEF Taints
  <2> QED
    BY <1>1, <2>1, <2>2, <2>3, PostBlocked DEF Merited
<1>7. CASE a = "A3"
  BY <1>7 DEF RoleIsRight, ScenarioOf, ATTACK_SPECS, A3, AGENT_REGISTRY
<1>8. CASE a = "A4"
  <2>1. c.tool = "agent.invoke" /\ c.expected = "no_matching_east_west_rule"
    BY <1>1, <1>2, <1>8 DEF ScenarioOf, ATTACK_SPECS, A4, Call
  <2> QED
    BY <2>1, InvokeDenied DEF Merited
<1>9. CASE a = "A5"
  <2>1. /\ s.role = "support_agent" /\ c.tool = "db.query" /\ c.resource = "credentials"
        /\ c.expected = "matched_explicit_deny"
    BY <1>1, <1>2, <1>9 DEF ScenarioOf, ATTACK_SPECS, A5, Query, Call
  <2> DEFINE r == SupportRules[3]
  <2>2. /\ r.effect = DENY /\ r.role = "support_agent" /\ r.tool = {"db.query"}
        /\ r.session_taint = {} /\ r.destination = {} /\ r.resource = {{"hr", "credentials"}}
    BY DEF SupportRules, Ban, Rule
  <2>3. "credentials" \in UNION {{"hr", "credentials"}}
    OBVIOUS
  <2>9. r \in RuleSet
    BY <1>3
  <2>10. role = r.role
    BY <1>1, <2>1, <2>2
  <2> HIDE DEF r, c, role
  <2>11. /\ c.tool # "agent.invoke" /\ c.tool \in r.tool
         /\ r.resource # {} => c.resource # NoTarget /\ c.resource \in UNION r.resource
    BY <2>1, <2>2 DEF NoTarget
  <2>12. Bans(r, role, c)
    BY <2>2, <2>10, <2>11 DEF Bans
  <2>13. v.decision = DENY /\ v.reason = "matched_explicit_deny"
    BY <2>9, <2>12, BanDenies
  <2> QED
    BY <2>1, <2>13 DEF Merited
<1>10. CASE a = "A6"
  <2>1. /\ s.role = "research_agent" /\ c.tool = "http.post"
        /\ c.expected = "matched_explicit_deny"
    BY <1>1, <1>2, <1>10 DEF ScenarioOf, ATTACK_SPECS, A6, Query, Fetch, Call, Ungraded
  <2> DEFINE r == ResearchRules[2]
  <2>2. /\ r.effect = DENY /\ r.role = "research_agent" /\ "http.post" \in r.tool
        /\ r.session_taint = {} /\ r.destination = {} /\ r.resource = {}
    BY DEF ResearchRules, Ban, Rule
  <2>9. r \in RuleSet
    BY <1>3
  <2>10. role = r.role
    BY <1>1, <2>1, <2>2
  <2> HIDE DEF r, c, role
  <2>11. /\ c.tool # "agent.invoke" /\ c.tool \in r.tool
         /\ r.resource # {} => c.resource # NoTarget /\ c.resource \in UNION r.resource
    BY <2>1, <2>2 DEF NoTarget
  <2>12. Bans(r, role, c)
    BY <2>2, <2>10, <2>11 DEF Bans
  <2>13. v.decision = DENY /\ v.reason = "matched_explicit_deny"
    BY <2>9, <2>12, BanDenies
  <2> QED
    BY <2>1, <2>13 DEF Merited
<1>11. CASE a = "A8"
  <2>1. /\ s.role = "finance_agent" /\ c.tool = "http.get"
        /\ c.expected = "matched_explicit_deny"
    BY <1>1, <1>2, <1>11 DEF ScenarioOf, ATTACK_SPECS, A8, Fetch, Call
  <2> DEFINE r == FinanceRules[3]
  <2>2. /\ r.effect = DENY /\ r.role = "finance_agent" /\ "http.get" \in r.tool
        /\ r.session_taint = {} /\ r.destination = {} /\ r.resource = {}
    BY DEF FinanceRules, Ban, Rule
  <2>9. r \in RuleSet
    BY <1>3
  <2>10. role = r.role
    BY <1>1, <2>1, <2>2
  <2> HIDE DEF r, c, role
  <2>11. /\ c.tool # "agent.invoke" /\ c.tool \in r.tool
         /\ r.resource # {} => c.resource # NoTarget /\ c.resource \in UNION r.resource
    BY <2>1, <2>2 DEF NoTarget
  <2>12. Bans(r, role, c)
    BY <2>2, <2>10, <2>11 DEF Bans
  <2>13. v.decision = DENY /\ v.reason = "matched_explicit_deny"
    BY <2>9, <2>12, BanDenies
  <2> QED
    BY <2>1, <2>13 DEF Merited
<1>12. CASE a = "A9"
  BY <1>12 DEF RoleIsRight, ScenarioOf, ATTACK_SPECS, A9, AGENT_REGISTRY
<1>13. DOMAIN ATTACK_SPECS = {"A1", "A2", "A3", "A4", "A5", "A6", "A7", "A8", "A9", "A10"}
  BY DEF ATTACK_SPECS
<1> QED
  BY <1>4, <1>5, <1>6, <1>7, <1>8, <1>9, <1>10, <1>11, <1>12, <1>13

-----------------------------------------------------------------------------
(* The properties of the suite, from the invariant.                        *)

\* A dispatched attack has one place in the order.
LEMMA IndexOf ==
  ASSUME NEW i \in DOMAIN Attacks
  PROVE  Index(Attacks[i]) = i
BY AttacksAssumption DEF Index

\* How an answered call of a script in the right role came by its answer.
LEMMA AnsweredCall ==
  ASSUME IInv, NEW i \in DOMAIN Attacks, NEW k \in DOMAIN ScenarioOf(Attacks[i]).calls,
         Answered(<<Attacks[i], k>>), ~ IsRaw(<<Attacks[i], k>>)
  PROVE  LET c == call[<<Attacks[i], k>>]
         IN /\ c.row # NoRow => Since(c.row, i)
            /\ \/ c.row # NoRow /\ c.decision = DENY /\ c.reason \in Quarantining
               \/ c.row = NoRow /\ c.decision = DENY /\ c.reason \in Unavailable
               \/ c.row = NoRow /\ Verdicted(<<Attacks[i], k>>)
<1>1. <<Attacks[i], k>> \in Ids
  BY IdIsCall, Dispatched
<1>2. call[<<Attacks[i], k>>].stage = "done" /\ Live(<<Attacks[i], k>>)
  BY <1>1 DEF IInv, ClientInv, Live
<1>3. Outcome(<<Attacks[i], k>>)
  BY <1>1, <1>2 DEF IInv, ReasonInv, Unjudged
<1>4. call[<<Attacks[i], k>>].row # NoRow => Since(call[<<Attacks[i], k>>].row, i)
  BY <1>2 DEF IInv, RowInv
<1> QED
  BY <1>3, <1>4 DEF Outcome

\* A raw connection is refused, and nothing else.
LEMMA RawCall ==
  ASSUME IInv, NEW i \in DOMAIN Attacks, NEW k \in DOMAIN ScenarioOf(Attacks[i]).calls,
         Answered(<<Attacks[i], k>>), IsRaw(<<Attacks[i], k>>)
  PROVE  LET c == call[<<Attacks[i], k>>]
         IN c.row = NoRow /\ c.decision = DENY /\ c.reason = "BYPASS_ATTEMPTED"
<1>1. <<Attacks[i], k>> \in Ids
  BY IdIsCall, Dispatched
<1>2. call[<<Attacks[i], k>>].stage = "done"
  BY <1>1 DEF IInv, ClientInv
<1> QED
  BY <1>1, <1>2 DEF IInv, ReasonInv, RawReason

\* A result that stands for what the calls show is an earned one: the invariant
\* says how each call came by its answer, and which row it met.
LEMMA VerifiedFromInvariant == IInv => VerifiedIsEarned
<1> SUFFICES ASSUME IInv, NEW a \in Names, result[a] = "VERIFIED", NEW k \in Graded(a)
             PROVE  LET c == call[<<a, k>>]
                    IN /\ c.client = "answered" /\ c.reason = ScenarioOf(a).calls[k].expected
                       /\ IsRaw(<<a, k>>) \/ RoleOf(<<a, k>>) = ScenarioOf(a).role
                       /\ c.row # NoRow =>
                            /\ k > 1 /\ ScenarioOf(a).how = "cascade"
                            /\ c.row.since = Index(a)
                            /\ call[<<a, 1>>].row = NoRow
                            /\ ScenarioOf(a).calls[1].fqdn \in KnownBadHosts
  BY DEF VerifiedIsEarned, IInv, HostShape
<1> DEFINE s == ScenarioOf(a)
           c == call[<<a, k>>]
<1>1. PICK i \in DOMAIN Attacks : Attacks[i] = a
  BY DEF Names
<1>2. a \in DOMAIN ATTACK_SPECS
  BY <1>1, Dispatched
<1>3. k \in DOMAIN s.calls
  BY DEF Graded
<1>4. /\ RoleIsRight(a) \/ s.how = "raw"
      /\ \A j \in DOMAIN s.calls : Answered(<<a, j>>)
      /\ \A j \in Graded(a) : Proved(<<a, j>>)
  BY DEF IInv, ResultInv
<1>5. c.client = "answered" /\ c.reason = s.calls[k].expected
  BY <1>3, <1>4 DEF Answered, Proved, Assess, Expected, CallOf
<1>6. IsRaw(<<a, k>>) \/ RoleOf(<<a, k>>) = s.role
  BY <1>4 DEF IsRaw, RoleOf, ServiceOf, RoleIsRight
<1>7. ASSUME c.row # NoRow
      PROVE  /\ k > 1 /\ s.how = "cascade" /\ c.row.since = Index(a)
             /\ call[<<a, 1>>].row = NoRow /\ s.calls[1].fqdn \in KnownBadHosts
  <2>1. ~ IsRaw(<<a, k>>)
    BY <1>1, <1>3, <1>4, <1>7, RawCall
  <2>2. Since(c.row, i) /\ c.reason \in Quarantining
    BY <1>1, <1>3, <1>4, <1>7, <2>1, AnsweredCall
  <2>3. s.calls[k].expected \notin Unavailable
    BY <1>2, <1>3, ScenarioFacts
  <2>4. s.calls[k].expected = "AGENT_QUARANTINED"
    BY <1>5, <2>2, <2>3 DEF Quarantining, Unavailable
  <2>5. /\ s.how = "cascade" /\ k = 2 /\ 1 \in DOMAIN s.calls
        /\ s.calls[1].expected = "no_matching_rule" /\ s.calls[1].fqdn \in KnownBadHosts
    BY <1>2, <1>3, <2>4, ScenarioFacts
  <2>6. 1 \in Graded(a)
    BY <2>5 DEF Graded, Ungraded
  <2>7. call[<<a, 1>>].reason = "no_matching_rule"
    BY <1>4, <2>5, <2>6 DEF Proved, Assess, Expected, CallOf
  <2>8. ~ IsRaw(<<a, 1>>)
    BY <2>5 DEF IsRaw
  <2>9. call[<<a, 1>>].row # NoRow => call[<<a, 1>>].reason \in Quarantining
    BY <1>1, <1>4, <2>5, <2>8, AnsweredCall
  <2>10. call[<<a, 1>>].row = NoRow
    BY <2>7, <2>9 DEF Quarantining
  <2>11. c.row.since = Index(a)
    BY <1>1, <2>2, IndexOf DEF Since
  <2> QED
    BY <2>5, <2>10, <2>11
<1> QED
  BY <1>5, <1>6, <1>7

\* Likewise for a mismatch: a call that met no row and no failing service was
\* denied on its merits, which is what its scenario expects.
LEMMA MismatchFromInvariant == IInv => MismatchHasCause
<1> SUFFICES ASSUME IInv, NEW a \in Names, result[a] = "MISMATCH"
             PROVE  \E k \in Graded(a) :
                      LET c == call[<<a, k>>]
                          quarantineExpected ==
                            ScenarioOf(a).calls[k].expected = "AGENT_QUARANTINED"
                      IN /\ c.client = "answered"
                         /\ \/ c.reason \in Unavailable
                            \/ /\ ~ quarantineExpected /\ c.reason = "AGENT_QUARANTINED"
                               /\ c.row.since = Index(a)
                               /\ c.row.late \/ c.row.by[1] = a \/ call[c.row.by].client = "gone"
                            \/ quarantineExpected /\ c.reason = "no_matching_rule" /\ faults > 0
  BY DEF MismatchHasCause, IInv, HostShape
<1> DEFINE s == ScenarioOf(a)
<1>1. PICK i \in DOMAIN Attacks : Attacks[i] = a
  BY DEF Names
<1>2. a \in DOMAIN ATTACK_SPECS
  BY <1>1, Dispatched
<1>3. /\ RoleIsRight(a) \/ s.how = "raw"
      /\ \A j \in DOMAIN s.calls : Answered(<<a, j>>)
      /\ ~ \A j \in Graded(a) : Proved(<<a, j>>)
  BY DEF IInv, ResultInv
<1>4. PICK k \in Graded(a) : ~ Proved(<<a, k>>)
  BY <1>3
<1> DEFINE c == call[<<a, k>>]
           quarantineExpected == s.calls[k].expected = "AGENT_QUARANTINED"
<1>5. k \in DOMAIN s.calls /\ Answered(<<a, k>>) /\ c.client = "answered"
  BY <1>3 DEF Graded, Answered
<1>6. c.decision = DENY => c.reason # s.calls[k].expected
  BY <1>4 DEF Proved, Assess, Expected, CallOf
<1>7. ~ IsRaw(<<a, k>>)
  <2> SUFFICES ASSUME IsRaw(<<a, k>>) PROVE FALSE
    OBVIOUS
  <2>1. c.decision = DENY /\ c.reason = "BYPASS_ATTEMPTED"
    BY <1>1, <1>5, RawCall
  <2>2. s.how = "raw"
    BY DEF IsRaw
  <2>3. k = 1
    BY <1>2, <1>5, <2>2, ScenarioFacts
  <2>4. s.calls[k].expected = "BYPASS_ATTEMPTED"
    BY <1>2, <2>2, <2>3, ScenarioFacts
  <2> QED
    BY <1>6, <2>1, <2>4
<1>8. RoleIsRight(a)
  BY <1>3, <1>7 DEF IsRaw
<1> SUFFICES \/ c.reason \in Unavailable
             \/ /\ ~ quarantineExpected /\ c.reason = "AGENT_QUARANTINED"
                /\ c.row.since = Index(a)
                /\ c.row.late \/ c.row.by[1] = a \/ call[c.row.by].client = "gone"
             \/ quarantineExpected /\ c.reason = "no_matching_rule" /\ faults > 0
  BY <1>5
<1>9. CASE c.row # NoRow
  <2>1. Since(c.row, i) /\ c.decision = DENY /\ c.reason \in Quarantining
    BY <1>1, <1>5, <1>7, <1>9, AnsweredCall
  <2>2. /\ c.row.since = Index(a)
        /\ c.row.late \/ c.row.by[1] = a \/ call[c.row.by].client = "gone"
    BY <1>1, <2>1, IndexOf DEF Since, Gone
  <2>3. c.reason = "AGENT_QUARANTINED" => ~ quarantineExpected
    BY <1>6, <2>1
  <2> QED
    BY <2>1, <2>2, <2>3 DEF Quarantining, Unavailable
<1>10. CASE c.row = NoRow /\ Verdicted(<<a, k>>)
  <2>1. PICK t \in Taints, b \in BandsOf(CallOf(<<a, k>>)) :
          LET v == FinalVerdict(RoleOf(<<a, k>>), ServiceOf(<<a, k>>), CallOf(<<a, k>>), t, b)
          IN /\ t = "tainted" => Reads(a)
             /\ v.decision = c.decision /\ v.reason = c.reason
    BY <1>10 DEF Verdicted
  <2>2. b \in Bands
    BY DEF BandsOf, Bands
  <2>3. c.decision = DENY /\ c.reason = Merited(s.calls[k].expected)
    BY <1>2, <1>8, <2>1, <2>2, MeritVerdict DEF RoleOf, ServiceOf, CallOf
  <2>4. quarantineExpected /\ c.reason = "no_matching_rule"
    BY <1>6, <2>3 DEF Merited
  <2>5. s.how = "cascade" /\ k = 2 /\ 1 \in DOMAIN s.calls
    BY <1>2, <1>5, <2>4, ScenarioFacts
  <2>6. MeetsRow(i)
    BY <1>1, <2>5 DEF IInv, CascadeInv
  <2>7. c.stage = "done"
    BY <1>1, <1>5, IdIsCall, Dispatched DEF IInv, ClientInv
  <2>8. faults # 0
    BY <1>1, <1>3, <1>5, <1>10, <2>5, <2>6, <2>7 DEF MeetsRow, Live, Admitted
  <2>9. faults > 0
    BY <2>8, BoundsAssumption DEF IInv, FaultShape
  <2> QED
    BY <2>4, <2>9
<1>11. c.row # NoRow \/ c.reason \in Unavailable \/ (c.row = NoRow /\ Verdicted(<<a, k>>))
  BY <1>1, <1>5, <1>7, AnsweredCall
<1> QED
  BY <1>9, <1>10, <1>11

\* The invariant has TypeOK in it, with the functions and sequences named.
LEMMA TypeFromInvariant == IInv => TypeOK
<1> SUFFICES ASSUME IInv PROVE TypeOK
  OBVIOUS
<1>1. /\ phase \in Phases /\ at \in 1 .. Len(Attacks) + 1 /\ listed \subseteq Services
      /\ script \in [step : Nat, ok : BOOLEAN, match : BOOLEAN]
      /\ InScript => at <= Len(Attacks) /\ script.step \in DOMAIN Current.calls
      /\ \A a \in DOMAIN result : result[a] \in {"none", "VERIFIED", "MISMATCH", "UNVERIFIED"}
      /\ exit \in {"running", "success", "failure", "crash"}
  BY DEF IInv, HostShape
<1>2. \A id \in Ids :
        /\ call[id].stage \in Stages /\ call[id].decision \in Decision
        /\ call[id].client \in {"none", "waiting", "answered", "gone"}
        /\ call[id].row \in Rows
        /\ call[id].stage = "enter" <=> call[id].posts # <<>>
  BY DEF IInv, CallShape, CallType
<1>3. tainted \subseteq DOMAIN result /\ late \subseteq Ids
  BY DEF IInv, TableShape, HostShape
<1>4. \A x \in Services : \A i \in DOMAIN denials[x] : denials[x][i] \in Ids \union Earlier
  <2> SUFFICES ASSUME NEW x \in Services
               PROVE  \A i \in DOMAIN denials[x] : denials[x][i] \in Ids \union Earlier
    OBVIOUS
  <2>1. denials[x] \in Seq(Ids \union Earlier)
    BY DEF IInv, TableShape
  <2> QED
    BY <2>1
<1>5. quarantine \in [Services -> Rows] /\ faults \in 0 .. MaxFaults
  BY DEF IInv, TableShape, FaultShape
<1> QED
  BY <1>1, <1>2, <1>3, <1>4, <1>5 DEF TypeOK

\* The variables of the suite keep their types, whatever the attacks, their order
\* and the bounds (run_all.py, a10.py).
THEOREM SuiteTypeOK == Spec => []TypeOK
<1> QED
  BY SuiteInvariant, TypeFromInvariant, PTL

\* For every selection and order of the scenarios and any number of faults, a
\* scenario reported verified was judged on its merits (common.py's
\* genuinely_verified, a10.py's demonstrates_cascade).
THEOREM VerifiedIsEarnedHolds == Spec => []VerifiedIsEarned
<1> QED
  BY SuiteInvariant, VerifiedFromInvariant, PTL

\* For every selection and order of the scenarios and any number of faults, a
\* mismatch has one of the named causes (clear_and_verify_quarantine).
THEOREM MismatchHasCauseHolds == Spec => []MismatchHasCause
<1> QED
  BY SuiteInvariant, MismatchFromInvariant, PTL
=============================================================================
