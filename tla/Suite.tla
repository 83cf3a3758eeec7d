-------------------------------- MODULE Suite --------------------------------
(***************************************************************************)
(* A run of the attack suite against the deployed stack (attacks/          *)
(* run_all.py, common.py, a1.py ... a10.py and the agent loop): the        *)
(* orchestrator on the host, the script it has dispatched into a           *)
(* container, the enforcement point with its bypass listener               *)
(* (pep/bypass_proxy.py) and the event store's quarantine table.           *)
(*                                                                         *)
(* The suite is sequential, but a script stops waiting for an answer after *)
(* its own timeout, shorter than those of the PEP, which then serves the   *)
(* abandoned call while the suite goes on; and the PEP keeps the denials   *)
(* of the last minute over the suite's resets.                             *)
(*                                                                         *)
(* Abstractions.  Time passes between two denials of a service by as much  *)
(* as it likes: any of the oldest ones may have left the window.  A        *)
(* concurrent update of the denial list is DenialWindow.tla's.  The        *)
(* scorer's total is any it can give.  Faults bounds the steps at which a  *)
(* service fails, a client gives up or a command of the host fails.        *)
(***************************************************************************)
EXTENDS Scenarios, FiniteSets

CONSTANTS
  Attacks,     \* the scenarios dispatched, in order
  MaxEarlier,  \* bound on the denials the PEP remembers from before
  MaxFaults,   \* bound on faults
  NoRow        \* no row in the quarantine table

Services == DOMAIN AGENT_REGISTRY
ScenarioOf(a) == ATTACK_SPECS[a]
Ids == UNION {{<<a, k>> : k \in DOMAIN ScenarioOf(a).calls} : a \in {Attacks[i] : i \in DOMAIN Attacks}}
Earlier == {<<"earlier", k>> : k \in 1 .. MaxEarlier}

ASSUME AttacksAssumption ==
  /\ Attacks \in Seq(DOMAIN ATTACK_SPECS)
  /\ \A i, j \in DOMAIN Attacks : Attacks[i] = Attacks[j] => i = j
ASSUME BoundsAssumption == MaxEarlier \in Nat \ {0} /\ MaxFaults \in Nat
ASSUME NoRowAssumption ==
  NoRow \notin [by : Ids \union Earlier, late : BOOLEAN, since : Nat]

VARIABLES
  phase,       \* what the orchestrator, or the script it waits for, does next
  at,          \* the index of the attack dispatched or about to be
  listed,      \* the services the clearing command has read from the table
  script,      \* the running script: its call, and its grade so far
  result,      \* result[a]: what the script reported
  exit,        \* the exit of run_all
  call,        \* call[id]: the call as the PEP has it
  tainted,     \* sessions (one per scenario) that were served content
  denials,     \* denials[s]: _DENIAL_TIMES, the calls that still count
  quarantine,  \* the quarantine table
  late,        \* posts that timed out for the PEP and may still land
  faults

host == <<phase, at, listed, script, result, exit>>
pep  == <<tainted, denials>>
vars == <<host, call, pep, quarantine, late, faults>>

DENIAL_THRESHOLD == 5

Attack == Attacks[at]
Current == ScenarioOf(Attack)
Step == Current.calls[script.step]
Id == <<Attack, script.step>>

Unsent == [stage |-> "unsent", client |-> "none", decision |-> DENY,
           reason |-> "none", posts |-> <<>>, row |-> NoRow]

Init ==
  /\ phase = "start" /\ at = 1 /\ listed = {} /\ exit = "running"
  /\ script = [step |-> 1, ok |-> TRUE, match |-> TRUE]
  /\ result = [a \in {Attacks[i] : i \in DOMAIN Attacks} |-> "none"]
  /\ call = [id \in Ids |-> Unsent]
  /\ tainted = {}
  /\ \E n \in 0 .. MaxEarlier :
       denials = [s \in Services |->
                    IF s = "agent" THEN [k \in 1 .. n |-> <<"earlier", k>>] ELSE <<>>]
  /\ quarantine \in {[s \in Services |-> NoRow],
                     [s \in Services |-> IF s = "agent"
                        THEN [by |-> <<"earlier", 1>>, late |-> FALSE, since |-> 0]
                        ELSE NoRow]}
  /\ late = {} /\ faults = 0

Fault == faults < MaxFaults /\ faults' = faults + 1

Goto(p) == phase' = p

Quarantined == {s \in Services : quarantine[s] # NoRow}

-----------------------------------------------------------------------------
(* The orchestrator.                                                       *)

\* _stack_reachable: without the stack every script runs in this process,
\* and finds no live path.
Start ==
  /\ phase = "start"
  /\ \/ Goto("list") /\ UNCHANGED <<result, exit>>
     \/ /\ Goto("ended") /\ exit' = "failure"
        /\ result' = [a \in DOMAIN result |-> "UNVERIFIED"]
  /\ UNCHANGED <<at, listed, script, call, pep, quarantine, late, faults>>

\* A docker command that fails or outlives its timeout raises out of main.
CommandFails ==
  /\ phase \notin {"start", "ended"}
  /\ Fault
  /\ Goto("ended") /\ exit' = "crash"
  /\ UNCHANGED <<at, listed, script, result, call, pep, quarantine, late>>

\* Mutant: the table is looked at, and the attack dispatched.
ListOnly ==
  /\ phase = "list"
  /\ Goto(IF at > Len(Attacks) THEN "verify" ELSE "dispatch")
  /\ UNCHANGED <<at, listed, script, result, exit, call, pep, quarantine, late, faults>>

\* clear_and_verify_quarantine: list; if anything is listed, list again and
\* delete each one read; list again.
List ==
  /\ phase = "list"
  /\ Goto(IF Quarantined = {} THEN "verify" ELSE "relist")
  /\ UNCHANGED <<at, listed, script, result, exit, call, pep, quarantine, late, faults>>

Relist ==
  /\ phase = "relist"
  /\ listed' = Quarantined
  /\ Goto("delete")
  /\ UNCHANGED <<at, script, result, exit, call, pep, quarantine, late, faults>>

DeleteListed ==
  /\ phase = "delete"
  /\ quarantine' = [s \in Services |-> IF s \in listed THEN NoRow ELSE quarantine[s]]
  /\ listed' = {}
  /\ Goto("verify")
  /\ UNCHANGED <<at, script, result, exit, call, pep, late, faults>>

\* Exit code 0 only when everything counted was verified.
ExitCode ==
  IF \A a \in DOMAIN result : result[a] = "VERIFIED" THEN "success" ELSE "failure"

\* A row that is still there is fatal; after the last attack the suite ends.
Verify ==
  /\ phase = "verify"
  /\ \/ Quarantined # {} /\ Goto("ended") /\ exit' = "crash"
     \/ /\ Quarantined = {} /\ at <= Len(Attacks)
        /\ Goto("dispatch") /\ UNCHANGED exit
     \/ /\ Quarantined = {} /\ at > Len(Attacks)
        /\ Goto("ended") /\ exit' = ExitCode
  /\ UNCHANGED <<at, listed, script, result, call, pep, quarantine, late, faults>>

\* docker compose run: a fresh container for the service.
Dispatch ==
  /\ phase = "dispatch"
  /\ script' = [step |-> 1, ok |-> TRUE, match |-> TRUE]
  /\ Goto(IF Current.how = "raw" THEN "send" ELSE "attest")
  /\ UNCHANGED <<at, listed, result, exit, call, pep, quarantine, late, faults>>

\* genuinely_verified, and for the cascade demonstrates_cascade.
Status == CASE ~ script.ok                   -> "UNVERIFIED"
            [] script.ok /\ ~ script.match -> "MISMATCH"
            [] script.ok /\ script.match   -> "VERIFIED"

\* RESULT_JSON is read from the script's output; the next attack is due.
Report ==
  /\ phase = "report"
  /\ result' = [result EXCEPT ![Attack] = Status]
  /\ at' = at + 1
  /\ Goto("list")
  /\ UNCHANGED <<listed, script, exit, call, pep, quarantine, late, faults>>

-----------------------------------------------------------------------------
(* The script in its container.                                            *)

RoleMatches == AGENT_REGISTRY[Current.service] = Current.role

\* Mutant: the next call, whether there is one or not.
UnreachedPast ==
  /\ script' = [script EXCEPT !.ok = FALSE, !.step = @ + 1]
  /\ Goto(IF Current.how = "cascade" THEN "attest" ELSE "report")

\* The live path was not reached: the cascade goes on to its next call.
Unreached ==
  /\ script' = [script EXCEPT !.ok = FALSE,
                              !.step = IF Current.how = "cascade" /\ @ < Len(Current.calls)
                                       THEN @ + 1 ELSE @]
  /\ Goto(IF Current.how = "cascade" /\ script.step < Len(Current.calls)
          THEN "attest" ELSE "report")

\* The token is fetched and verified; no call is made in another role's
\* name.  The agent loop only fetches it.
Attest ==
  /\ phase = "attest"
  /\ \/ Unreached /\ Fault
     \/ /\ Current.how # "loop" /\ ~ RoleMatches
        /\ Unreached /\ UNCHANGED faults
     \/ /\ Current.how = "loop" \/ RoleMatches
        /\ Goto("send") /\ UNCHANGED <<script, faults>>
  /\ UNCHANGED <<at, listed, result, exit, call, pep, quarantine, late>>

Send ==
  /\ phase = "send"
  /\ call' = [call EXCEPT ![Id].stage = "queued", ![Id].client = "waiting"]
  /\ Goto("wait")
  /\ UNCHANGED <<at, listed, script, result, exit, pep, quarantine, late, faults>>

\* Mutant: being denied is enough.
AssessDecision(c, expected) == c.decision = DENY

\* assess_mechanism.
Assess(c, expected) == c.decision = DENY /\ c.reason = expected

AfterCall ==
  LET last == script.step = Len(Current.calls)
      loop == Current.how = "loop"
  IN CASE last /\ loop     -> "reattest"
       [] last /\ ~ loop   -> "report"
       [] ~ last /\ loop   -> "send"
       [] ~ last /\ ~ loop -> "attest"

Receive ==
  /\ phase = "wait"
  /\ call[Id].stage = "done"
  /\ call' = [call EXCEPT ![Id].client = "answered"]
  /\ script' = [script EXCEPT
       !.match = @ /\ (Step.expected # Ungraded => Assess(call[Id], Step.expected)),
       !.step  = IF @ < Len(Current.calls) THEN @ + 1 ELSE @]
  /\ Goto(AfterCall)
  /\ UNCHANGED <<at, listed, result, exit, pep, quarantine, late, faults>>

\* The script's timeout, or a broken connection.
GiveUp ==
  /\ phase = "wait"
  /\ Fault
  /\ call' = [call EXCEPT ![Id].client = "gone"]
  /\ Unreached
  /\ UNCHANGED <<at, listed, result, exit, pep, quarantine, late>>

\* After the loop the script attests for itself and checks the role.
Reattest ==
  /\ phase = "reattest"
  /\ \/ Fault /\ script' = [script EXCEPT !.ok = FALSE]
     \/ script' = [script EXCEPT !.ok = RoleMatches] /\ UNCHANGED faults
  /\ Goto("report")
  /\ UNCHANGED <<at, listed, result, exit, call, pep, quarantine, late>>

Host ==
  \/ Start \/ CommandFails \/ List \/ Relist \/ DeleteListed \/ Verify \/ Dispatch
  \/ Report \/ Attest \/ Send \/ Receive \/ GiveUp \/ Reattest

-----------------------------------------------------------------------------
(* The enforcement point, one call of it.                                  *)

CallOf(id) == ScenarioOf(id[1]).calls[id[2]]
ServiceOf(id) == ScenarioOf(id[1]).service
RoleOf(id) == AGENT_REGISTRY[ServiceOf(id)]
IsRaw(id) == ScenarioOf(id[1]).how = "raw"

\* _log_bypass posts its event from the event loop: meanwhile nothing is
\* accepted and nothing answered.
LoopIsFree == \A id \in Ids : call[id].stage # "bypassLog"

Deny(id, reason, row) ==
  call' = [call EXCEPT ![id].stage = "log", ![id].decision = DENY,
                       ![id].reason = reason, ![id].row = row]

Accept(id) ==
  /\ call[id].stage = "queued" /\ LoopIsFree
  /\ call' = [call EXCEPT ![id].stage = IF IsRaw(id) THEN "bypassLog" ELSE "gate"]
  /\ UNCHANGED <<host, pep, quarantine, late, faults>>

\* Mutant: the post has no timeout, and the event store does not answer.
LogBypassUntimed(id) ==
  /\ call[id].stage = "bypassLog"
  /\ faults = 0
  /\ call' = [call EXCEPT ![id].stage = "answer", ![id].decision = DENY,
                          ![id].reason = "BYPASS_ATTEMPTED"]
  /\ UNCHANGED <<host, pep, quarantine, late, faults>>

\* Logged on the console, posted as far as possible, and refused.
LogBypass(id) ==
  /\ call[id].stage = "bypassLog"
  /\ call' = [call EXCEPT ![id].stage = "answer", ![id].decision = DENY,
                          ![id].reason = "BYPASS_ATTEMPTED"]
  /\ UNCHANGED <<host, pep, quarantine, late, faults>>

\* Identity and the quarantine gate, either of which may find its service
\* down: these denials are not counted.
Gate(id) ==
  /\ call[id].stage = "gate"
  /\ LET row == quarantine[ServiceOf(id)]
     IN \/ /\ Fault
           /\ \E reason \in {"identity_verification_failed", "quarantine_check_unavailable"} :
                Deny(id, reason, NoRow)
        \/ /\ row # NoRow
           /\ Deny(id, "AGENT_QUARANTINED", row)
           /\ UNCHANGED faults
        \/ /\ row = NoRow
           /\ call' = [call EXCEPT ![id].stage = "decide"]
           /\ UNCHANGED faults
  /\ UNCHANGED <<host, pep, quarantine, late>>

\* record_denial: the denials of the last minute, this one included.
Counted(id, n) ==
  LET times == denials[ServiceOf(id)]
  IN Append(SubSeq(times, Len(times) - n + 1, Len(times)), id)

Posts(id, band, crossed) ==
     (IF crossed THEN <<"denials">> ELSE <<>>)
  \o (IF band = "CRITICAL" THEN <<"critical">> ELSE <<>>)
  \o (IF CallOf(id).fqdn \in KnownBadHosts THEN <<"threat_intel">> ELSE <<>>)

\* Stages 2 to 6: the verdicts on every call, one for each taint of its
\* session and each risk band that it may get.
Verdicts ==
  UNION {{[id |-> id, sessionTaint |-> t, band |-> b,
           verdict |-> FinalVerdict(RoleOf(id), ServiceOf(id), CallOf(id), t, b)] :
            t \in Taints, b \in BandsOf(CallOf(id))} : id \in Ids}

\* Stages 2 to 7, the outcome recorded and the triggers found.
Decide(id) ==
  /\ call[id].stage = "decide"
  /\ \E judged \in Verdicts, n \in 0 .. Len(denials[ServiceOf(id)]) :
       LET v == judged.verdict
           counted == Counted(id, n)
           blocked == v.decision \in BLOCKED_DECISIONS
           posts == Posts(id, judged.band, blocked /\ Len(counted) >= DENIAL_THRESHOLD)
       IN /\ judged.id = id
          /\ judged.sessionTaint = IF id[1] \in tainted THEN "tainted" ELSE "clean"
          /\ denials' = IF blocked THEN [denials EXCEPT ![ServiceOf(id)] = counted]
                        ELSE denials
          /\ tainted' = IF /\ CallOf(id).tool = "http.get"
                         /\ v.decision \in EXECUTABLE_DECISIONS
                      THEN tainted \union {id[1]} ELSE tainted
          /\ call' = [call EXCEPT ![id].stage = IF posts = <<>> THEN "log" ELSE "enter",
                                  ![id].decision = v.decision, ![id].reason = v.reason,
                                  ![id].posts = posts]
  /\ UNCHANGED <<host, quarantine, late, faults>>

\* INSERT OR IGNORE.
Inserted(service, row) ==
  IF quarantine[service] = NoRow THEN [quarantine EXCEPT ![service] = row] ELSE quarantine

Row(id, isLate) == [by |-> id, late |-> isLate, since |-> at]

\* quarantine.enter, once for each trigger: the post lands, or it fails for
\* the PEP and lands later or never.
Enter(id) ==
  /\ call[id].stage = "enter"
  /\ \/ /\ quarantine' = Inserted(ServiceOf(id), Row(id, FALSE))
        /\ UNCHANGED <<late, faults>>
     \/ /\ Fault
        /\ late' = late \union {id}
        /\ UNCHANGED quarantine
  /\ call' = [call EXCEPT ![id].posts = Tail(@),
                          ![id].stage = IF Tail(call[id].posts) = <<>> THEN "log" ELSE @]
  /\ UNCHANGED <<host, pep>>

\* Log, or deny.
Log(id) ==
  /\ call[id].stage = "log"
  /\ \/ /\ call' = [call EXCEPT ![id].stage = "answer"]
        /\ UNCHANGED faults
     \/ /\ Fault
        /\ call' = [call EXCEPT ![id].stage = "answer", ![id].decision = DENY,
                                ![id].reason = "event_store_write_failed"]
  /\ UNCHANGED <<host, pep, quarantine, late>>

Answer(id) ==
  /\ call[id].stage = "answer" /\ LoopIsFree
  /\ call' = [call EXCEPT ![id].stage = "done"]
  /\ UNCHANGED <<host, pep, quarantine, late, faults>>

Serve(id) ==
  \/ Accept(id) \/ LogBypass(id) \/ Gate(id) \/ Decide(id)
  \/ Enter(id) \/ Log(id) \/ Answer(id)

\* A post that had timed out is executed by the event store after all.
LateEnter(id) ==
  /\ id \in late
  /\ late' = late \ {id}
  /\ quarantine' = Inserted(ServiceOf(id), Row(id, TRUE))
  /\ UNCHANGED <<host, call, pep, faults>>

Next == Host \/ \E id \in Ids : Serve(id) \/ LateEnter(id)

ServeSome == \E id \in Ids : Serve(id)

\* The orchestrator and its script go on; every command and request has a
\* timeout.  So does the PEP: a call has finitely many steps, so that none is
\* left behind for ever.  The event store owes nothing to a post that timed
\* out.
Fairness == WF_vars(Host) /\ WF_vars(ServeSome)

Spec == Init /\ [][Next]_vars /\ Fairness

-----------------------------------------------------------------------------
(* Properties.                                                             *)

Phases == {"start", "list", "relist", "delete", "verify", "dispatch", "attest", "send",
           "wait", "reattest", "report", "ended"}
InScript == phase \in {"attest", "send", "wait", "reattest", "report"}
Stages == {"unsent", "queued", "bypassLog", "gate", "decide", "enter", "log", "answer", "done"}
Rows == [by : Ids \union Earlier, late : BOOLEAN, since : 0 .. Len(Attacks) + 1]
            \union {NoRow}

\* The variables of the suite keep their types: a script never steps past
\* its last call (run_all.py, a10.py).
TypeOK ==
  /\ phase \in Phases /\ at \in 1 .. Len(Attacks) + 1
  /\ listed \subseteq Services
  /\ script \in [step : Nat, ok : BOOLEAN, match : BOOLEAN]
  /\ InScript => at <= Len(Attacks) /\ script.step \in DOMAIN Current.calls
  /\ \A a \in DOMAIN result : result[a] \in {"none", "VERIFIED", "MISMATCH", "UNVERIFIED"}
  /\ exit \in {"running", "success", "failure", "crash"}
  /\ \A id \in Ids :
       /\ call[id].stage \in Stages /\ call[id].decision \in Decision
       /\ call[id].client \in {"none", "waiting", "answered", "gone"}
       /\ call[id].row \in Rows
       /\ call[id].stage = "enter" <=> call[id].posts # <<>>
  /\ tainted \subseteq DOMAIN result /\ late \subseteq Ids
  /\ \A s \in Services : \A i \in DOMAIN denials[s] : denials[s][i] \in Ids \union Earlier
  /\ quarantine \in [Services -> Rows]
  /\ faults \in 0 .. MaxFaults

Index(a) == CHOOSE i \in DOMAIN Attacks : Attacks[i] = a
Graded(a) == {k \in DOMAIN ScenarioOf(a).calls : ScenarioOf(a).calls[k].expected # Ungraded}

\* A scenario that is reported verified proved its own mechanism: each call
\* it is graded by was made in its own role and judged on its merits, by the
\* stage that was to deny it, not by a quarantine left over or by a service
\* that was down.  Only the cascade's second call is stopped by a quarantine,
\* one that began in this scenario and that its first call had asked for
\* (common.py's genuinely_verified, a10.py's demonstrates_cascade).
VerifiedIsEarned ==
  \A a \in DOMAIN result : result[a] = "VERIFIED" =>
    \A k \in Graded(a) :
      LET c == call[<<a, k>>]
      IN /\ c.client = "answered" /\ c.reason = ScenarioOf(a).calls[k].expected
         /\ IsRaw(<<a, k>>) \/ RoleOf(<<a, k>>) = ScenarioOf(a).role
         /\ c.row # NoRow =>
              /\ k > 1 /\ ScenarioOf(a).how = "cascade"
              /\ c.row.since = Index(a)
              /\ call[<<a, 1>>].row = NoRow
              /\ ScenarioOf(a).calls[1].fqdn \in KnownBadHosts

Unavailable == {"identity_verification_failed", "quarantine_check_unavailable",
                "event_store_write_failed"}

\* A scenario stopped by the wrong mechanism met a service that was down, or
\* a quarantine that began after the suite had found the table empty: caused
\* by its own earlier calls, by a call whose script had stopped waiting for
\* it, or by a post that had timed out.  The cascade may also miss its
\* quarantine, when a post was lost (clear_and_verify_quarantine).
MismatchHasCause ==
  \A a \in DOMAIN result : result[a] = "MISMATCH" =>
    \E k \in Graded(a) :
      LET c == call[<<a, k>>]
          quarantineExpected == ScenarioOf(a).calls[k].expected = "AGENT_QUARANTINED"
      IN /\ c.client = "answered"
         /\ \/ c.reason \in Unavailable
            \/ /\ ~ quarantineExpected /\ c.reason = "AGENT_QUARANTINED"
               /\ c.row.since = Index(a)
               /\ c.row.late \/ c.row.by[1] = a \/ call[c.row.by].client = "gone"
            \/ quarantineExpected /\ c.reason = "no_matching_rule" /\ faults > 0

\* The suite comes to an end, and so does every call it made, the ones its
\* scripts gave up and those that waited for the event loop included
\* (run_all.py's timeouts, bypass_proxy.py's _log_bypass).
SuiteEnds ==
  <>[](exit # "running" /\ \A id \in Ids : call[id].stage \in {"unsent", "done"})
=============================================================================
