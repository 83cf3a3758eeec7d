----------------------------- MODULE RiskScorer -----------------------------
(***************************************************************************)
(* The behavioural state of risk/scorer.py: what score() reads on a pool   *)
(* thread, and record_outcome() writes once the call is decided, without   *)
(* a lock.  A step is one operation on a shared dictionary, set or list.   *)
(*                                                                         *)
(* The state has four parts - call times, destinations, bigrams, denial    *)
(* streaks - and both functions go through all of them.  No statement      *)
(* reads one part and writes another, and what is written does not depend  *)
(* on the score: of the decision only "was it a DENY" is used, and no      *)
(* ceiling is a DENY (RiskNeverDenies).  So the machine of one part is the *)
(* projection of the whole, and "part" says which one a behaviour follows. *)
(*                                                                         *)
(* A call may overlap another of its workload: the agent gives up on a     *)
(* call after ten seconds, and several containers can run one service.     *)
(***************************************************************************)
EXTENDS RiskScore, FiniteSets, SequencesExt

CONSTANTS
  Calls,          \* calls that reach stage 6
  Requests,       \* Requests[p]: records [agent, role, tool, destination, denied]
                  \* that differ in what part p of the state tells apart
  Baseline,       \* the events of risk/baseline.jsonl
  NoTool, NoDestination,
  RATE_WINDOW, RATE_THRESHOLD,
  MaxClock        \* bound on the clock

ASSUME ScorerAssumption ==
  RATE_WINDOW \in Nat /\ RATE_THRESHOLD \in Nat \ {0} /\ MaxClock \in Nat
ASSUME CallsAssumption == IsFiniteSet(Calls)
ASSUME BaselineAssumption == Baseline \in Seq(Range(Baseline))

Parts  == {"times", "destinations", "bigrams", "streaks"}
AllRequests == UNION {Requests[p] : p \in Parts}
Agents == {r.agent : r \in AllRequests}
Roles  == {r.role : r \in AllRequests}
Tools  == {r.tool : r \in AllRequests \union Range(Baseline)}

\* What stands for "no last tool" is no tool.
ASSUME NoToolAssumption == NoTool \notin Tools

\* A list object, named by the call that created it.
Lists  == Calls \X {"default", "trimmed"}
NoList == <<"none", "none">>

VARIABLES
  part,       \* the part of the state this behaviour follows
  seed,       \* history: the events warm_up replayed
  clock,
  step,       \* step[c]: where call c stands
  req,        \* req[c]: what it asks
  mine,       \* mine[c]: its local variables
  points,     \* points[c]: what score() gave it for this part
  current,    \* _CALL_TIMES: the list of each agent
  list,       \* contents of each list object: the calls whose times it holds
  byOrg,      \* _SEEN_BY_ORG
  byAgent,    \* _SEEN_BY_AGENT, as pairs
  lastTool,   \* _LAST_TOOL
  bigrams,    \* _SEEN_BIGRAMS, as triples
  streak,     \* _DENIAL_STREAK
  log,        \* history: the calls in the order they were done
  before,     \* history: before[c], what the log held when c began
  overlapped  \* history: two calls have been in progress at once

times        == <<current, list>>
destinations == <<byOrg, byAgent>>
chain        == <<lastTool, bigrams>>
history      == <<seed, log, before, overlapped>>
vars == <<part, clock, step, req, mine, points, times, destinations, chain, streak, history>>

Steps == {"idle", "score", "times", "count", "agent", "pair", "scored", "hold", "append",
          "look", "trim", "store", "addAgent", "addPair", "setLast", "write", "done"}

Locals == [scoredAt |-> 0, stamp |-> 0, times |-> NoList, last |-> NoTool, streak |-> 0]

Running == {c \in Calls : step[c] \notin {"idle", "done"}}

\* warm_up: destinations and bigrams, in file order.
Destinations(S) == {e.destination : e \in S} \ {NoDestination}
OfRole(h, role) == {i \in DOMAIN h : h[i].role = role}
LastOf(h, role) == IF OfRole(h, role) = {} THEN NoTool ELSE h[Max(OfRole(h, role))].tool
Pairs(h, role)  ==
  {<<role, h[p[1]].tool, h[p[2]].tool>> :
     p \in {q \in OfRole(h, role) \X OfRole(h, role) :
             q[1] < q[2] /\ \A i \in OfRole(h, role) : i <= q[1] \/ q[2] <= i}}

Seeded(h) ==
  /\ byOrg = Destinations(Range(h))
  /\ byAgent = {<<e.agent, e.destination>> : e \in Range(h)} \intersect (Agents \X byOrg)
  /\ lastTool = [r \in Roles |-> LastOf(h, r)]
  /\ bigrams = UNION {Pairs(h, r) : r \in Roles}

Init ==
  /\ part \in Parts
  /\ seed \in {<<>>, Baseline}
  /\ clock = 0
  /\ step = [c \in Calls |-> "idle"]
  /\ req \in [Calls -> Requests[part]]
  /\ mine = [c \in Calls |-> Locals]
  /\ points = [c \in Calls |-> 0]
  /\ current = [a \in Agents |-> NoList]
  /\ list = [l \in Lists |-> {}]
  /\ Seeded(seed)
  /\ streak = [a \in Agents |-> 0]
  /\ log = <<>>
  /\ before = [c \in Calls |-> <<>>]
  /\ overlapped = FALSE

Advance(c, from, to) == step[c] = from /\ step' = [step EXCEPT ![c] = to]

Score(c, n) == points' = [points EXCEPT ![c] = n]

\* The last statement of record_outcome for this part.
Done(c, from) ==
  /\ Advance(c, from, "done")
  /\ log' = Append(log, c)

-----------------------------------------------------------------------------
fixed == <<part, clock, req, seed, before, overlapped>>

Tick ==
  /\ part = "times" /\ clock < MaxClock
  /\ clock' = clock + 1
  /\ UNCHANGED <<part, step, req, mine, points, times, destinations, chain, streak, history>>

\* Stage 6 is reached.  The harnesses, which warm up, make one call at a time.
Begin(c) ==
  /\ Advance(c, "idle", "score")
  /\ seed # <<>> => Running = {}
  /\ before' = [before EXCEPT ![c] = log]
  /\ overlapped' = (overlapped \/ Running # {})
  /\ UNCHANGED <<part, clock, req, mine, points, times, destinations, chain, streak, seed, log>>

-----------------------------------------------------------------------------
(* score(): reads only.                                                    *)

Reads(c) == UNCHANGED <<fixed, times, destinations, chain, streak, log>>

ScoreOrg(c) ==
  LET d == req[c].destination
  IN
  /\ part = "destinations"
  /\ \/ Advance(c, "score", "agent") /\ d \in byOrg /\ UNCHANGED points
     \/ /\ d \notin byOrg
        /\ Advance(c, "score", "scored")
        /\ Score(c, IF d = NoDestination THEN 0 ELSE DEST_UNKNOWN_TO_ORG)
  /\ UNCHANGED mine /\ Reads(c)

ScoreAgent(c) ==
  /\ Advance(c, "agent", "scored")
  /\ Score(c, IF <<req[c].agent, req[c].destination>> \in byAgent THEN 0
              ELSE DEST_NEVER_SEEN_BY_AGENT)
  /\ UNCHANGED mine /\ Reads(c)

\* _is_rate_anomalous: the clock, the agent's list, the comprehension.
ReadClock(c) ==
  /\ part = "times"
  /\ Advance(c, "score", "times")
  /\ mine' = [mine EXCEPT ![c].scoredAt = clock]
  /\ UNCHANGED points /\ Reads(c)

GetTimes(c) ==
  /\ Advance(c, "times", "count")
  /\ mine' = [mine EXCEPT ![c].times = current[req[c].agent]]
  /\ UNCHANGED points /\ Reads(c)

\* Mutant: one second too many.
RecentLong(l, now) == {d \in list[l] : now - mine[d].stamp <= RATE_WINDOW + 1}

Recent(l, now) == {d \in list[l] : now - mine[d].stamp <= RATE_WINDOW}

CountTimes(c) ==
  LET recent == IF mine[c].times = NoList THEN {} ELSE Recent(mine[c].times, mine[c].scoredAt)
  IN
  /\ Advance(c, "count", "scored")
  /\ Score(c, IF Cardinality(recent) >= RATE_THRESHOLD THEN RATE_ANOMALY ELSE 0)
  /\ UNCHANGED mine /\ Reads(c)

\* _is_unseen_bigram: the first call of a role has nothing to follow.
ReadLast(c) ==
  LET last == lastTool[req[c].role]
  IN
  /\ part = "bigrams"
  /\ Advance(c, "score", IF last = NoTool THEN "scored" ELSE "pair")
  /\ mine' = [mine EXCEPT ![c].last = last]
  /\ UNCHANGED points /\ Reads(c)

ScorePair(c) ==
  /\ Advance(c, "pair", "scored")
  /\ Score(c, IF <<req[c].role, mine[c].last, req[c].tool>> \in bigrams THEN 0 ELSE UNSEEN_BIGRAM)
  /\ UNCHANGED mine /\ Reads(c)

ScoreStreak(c) ==
  /\ part = "streaks"
  /\ Advance(c, "score", "scored")
  /\ Score(c, StreakPoints(streak[req[c].agent]))
  /\ UNCHANGED mine /\ Reads(c)

-----------------------------------------------------------------------------
(* record_outcome().                                                       *)

\* now = _clock()
Stamp(c) ==
  /\ part = "times"
  /\ Advance(c, "scored", "hold")
  /\ mine' = [mine EXCEPT ![c].stamp = clock]
  /\ UNCHANGED points /\ Reads(c)

\* Mutant: get instead of setdefault.
HoldExisting(c) ==
  /\ Advance(c, "hold", "append")
  /\ mine' = [mine EXCEPT ![c].times = current[req[c].agent]]
  /\ UNCHANGED points /\ Reads(c)

\* _CALL_TIMES.setdefault(agent_id, [])
Hold(c) ==
  LET a == req[c].agent
  IN
  /\ Advance(c, "hold", "append")
  /\ current' = IF current[a] = NoList THEN [current EXCEPT ![a] = <<c, "default">>] ELSE current
  /\ mine' = [mine EXCEPT ![c].times = current'[a]]
  /\ UNCHANGED <<fixed, points, list, destinations, chain, streak, log>>

\* .append(now), to a list the dictionary may have dropped meanwhile
AppendTime(c) ==
  /\ Advance(c, "append", "look")
  /\ list' = [list EXCEPT ![mine[c].times] = @ \union {c}]
  /\ UNCHANGED <<fixed, mine, points, current, destinations, chain, streak, log>>

\* for t in _CALL_TIMES[agent_id]: the dictionary is asked again
Look(c) ==
  /\ Advance(c, "look", "trim")
  /\ mine' = [mine EXCEPT ![c].times = current[req[c].agent]]
  /\ UNCHANGED points /\ Reads(c)

Trim(c) ==
  /\ Advance(c, "trim", "store")
  /\ list' = [list EXCEPT ![<<c, "trimmed">>] = Recent(mine[c].times, mine[c].stamp)]
  /\ UNCHANGED <<fixed, mine, points, current, destinations, chain, streak, log>>

Store(c) ==
  /\ Done(c, "store")
  /\ current' = [current EXCEPT ![req[c].agent] = <<c, "trimmed">>]
  /\ UNCHANGED <<fixed, mine, points, list, destinations, chain, streak>>

\* Mutant: only what was not denied is learned.
AddOrgAllowed(c) ==
  /\ part = "destinations"
  /\ \/ /\ req[c].destination = NoDestination \/ req[c].denied
        /\ Done(c, "scored") /\ UNCHANGED byOrg
     \/ /\ req[c].destination # NoDestination /\ ~req[c].denied
        /\ Advance(c, "scored", "addAgent")
        /\ byOrg' = byOrg \union {req[c].destination}
        /\ UNCHANGED log
  /\ UNCHANGED <<fixed, mine, points, times, byAgent, chain, streak>>

\* _SEEN_BY_ORG.add
AddOrg(c) ==
  /\ part = "destinations"
  /\ \/ req[c].destination = NoDestination /\ Done(c, "scored") /\ UNCHANGED byOrg
     \/ /\ req[c].destination # NoDestination
        /\ Advance(c, "scored", "addAgent")
        /\ byOrg' = byOrg \union {req[c].destination}
        /\ UNCHANGED log
  /\ UNCHANGED <<fixed, mine, points, times, byAgent, chain, streak>>

AddAgent(c) ==
  /\ Done(c, "addAgent")
  /\ byAgent' = byAgent \union {<<req[c].agent, req[c].destination>>}
  /\ UNCHANGED <<fixed, mine, points, times, byOrg, chain, streak>>

\* last = _LAST_TOOL.get(role), read again
RecordLast(c) ==
  LET last == lastTool[req[c].role]
  IN
  /\ part = "bigrams"
  /\ Advance(c, "scored", IF last = NoTool THEN "setLast" ELSE "addPair")
  /\ mine' = [mine EXCEPT ![c].last = last]
  /\ UNCHANGED points /\ Reads(c)

AddPair(c) ==
  /\ Advance(c, "addPair", "setLast")
  /\ bigrams' = bigrams \union {<<req[c].role, mine[c].last, req[c].tool>>}
  /\ UNCHANGED <<fixed, mine, points, times, destinations, lastTool, streak, log>>

\* Mutant: setdefault instead of an assignment.
SetLastOnce(c) ==
  /\ Done(c, "setLast")
  /\ lastTool' = IF lastTool[req[c].role] = NoTool
                 THEN [lastTool EXCEPT ![req[c].role] = req[c].tool] ELSE lastTool
  /\ UNCHANGED <<fixed, mine, points, times, destinations, bigrams, streak>>

SetLast(c) ==
  /\ Done(c, "setLast")
  /\ lastTool' = [lastTool EXCEPT ![req[c].role] = req[c].tool]
  /\ UNCHANGED <<fixed, mine, points, times, destinations, bigrams, streak>>

\* Only a DENY lengthens the streak; a QUARANTINE ends it like an ALLOW.
ReadStreak(c) ==
  /\ part = "streaks" /\ req[c].denied
  /\ Advance(c, "scored", "write")
  /\ mine' = [mine EXCEPT ![c].streak = streak[req[c].agent]]
  /\ UNCHANGED points /\ Reads(c)

\* Mutant: a denial is counted twice.
WriteTwice(c) ==
  /\ Done(c, "write")
  /\ streak' = [streak EXCEPT ![req[c].agent] = mine[c].streak + 2]
  /\ UNCHANGED <<fixed, mine, points, times, destinations, chain>>

WriteStreak(c) ==
  /\ Done(c, "write")
  /\ streak' = [streak EXCEPT ![req[c].agent] = mine[c].streak + 1]
  /\ UNCHANGED <<fixed, mine, points, times, destinations, chain>>

ResetStreak(c) ==
  /\ part = "streaks" /\ ~req[c].denied
  /\ Done(c, "scored")
  /\ streak' = [streak EXCEPT ![req[c].agent] = 0]
  /\ UNCHANGED <<fixed, mine, points, times, destinations, chain>>

-----------------------------------------------------------------------------
ScoreCall(c) ==
  \/ ScoreOrg(c) \/ ScoreAgent(c) \/ ReadClock(c) \/ GetTimes(c) \/ CountTimes(c)
  \/ ReadLast(c) \/ ScorePair(c) \/ ScoreStreak(c)

RecordOutcome(c) ==
  \/ Stamp(c) \/ Hold(c) \/ AppendTime(c) \/ Look(c) \/ Trim(c) \/ Store(c)
  \/ AddOrg(c) \/ AddAgent(c)
  \/ RecordLast(c) \/ AddPair(c) \/ SetLast(c)
  \/ ReadStreak(c) \/ WriteStreak(c) \/ ResetStreak(c)

Next == Tick \/ \E c \in Calls : Begin(c) \/ ScoreCall(c) \/ RecordOutcome(c)

Spec == Init /\ [][Next]_vars

-----------------------------------------------------------------------------
TypeOK ==
  /\ part \in Parts
  /\ clock \in 0 .. MaxClock
  /\ step \in [Calls -> Steps]
  /\ req \in [Calls -> Requests[part]]
  /\ \A c \in Calls : /\ mine[c].scoredAt \in 0 .. MaxClock /\ mine[c].stamp \in 0 .. MaxClock
                      /\ mine[c].times \in Lists \union {NoList}
                      /\ mine[c].last \in Tools \union {NoTool}
                      /\ mine[c].streak \in 0 .. Cardinality(Calls)
                      /\ step[c] \in {"append", "trim"} => mine[c].times # NoList
  /\ points \in [Calls -> 0 .. DENIAL_STREAK_CAP]
  /\ current \in [Agents -> Lists \union {NoList}]
  /\ list \in [Lists -> SUBSET Calls]
  /\ byAgent \subseteq Agents \X byOrg
  /\ streak \in [Agents -> 0 .. Cardinality(Calls)]
  /\ Range(log) = {c \in Calls : step[c] = "done"} /\ IsInjective(log)

Scored == {c \in Calls : step[c] \notin {"idle", "score", "times", "count", "agent", "pair"}}

\* What was replayed, and then what the calls of s asked; and so what had
\* happened when c reached stage 6.
Story(s)   == seed \o [i \in DOMAIN s |-> req[s[i]]]
History(c) == Story(before[c])

\* The factors as the history says they should be.
ExpectedRate(c) ==
  LET recent == {d \in Range(before[c]) : req[d].agent = req[c].agent
                                          /\ mine[c].scoredAt - mine[d].stamp <= RATE_WINDOW}
  IN IF Cardinality(recent) >= RATE_THRESHOLD THEN RATE_ANOMALY ELSE 0

ExpectedNovelty(c) ==
  LET there == {e \in Range(History(c)) : e.destination = req[c].destination}
  IN IF req[c].destination = NoDestination \/ \E e \in there : e.agent = req[c].agent THEN 0
     ELSE IF there # {} THEN DEST_NEVER_SEEN_BY_AGENT ELSE DEST_UNKNOWN_TO_ORG

ExpectedBigram(c) ==
  LET role == req[c].role
      last == LastOf(History(c), role)
  IN IF last = NoTool \/ <<role, last, req[c].tool>> \in Pairs(History(c), role) THEN 0
     ELSE UNSEEN_BIGRAM

\* Where s ends in denials of a: those with no other outcome of a after them.
Trailing(s, a) ==
  LET own == {i \in DOMAIN s : req[s[i]].agent = a}
  IN {i \in own : \A j \in own : i <= j => req[s[j]].denied}

ExpectedStreak(c) == StreakPoints(Cardinality(Trailing(before[c], req[c].agent)))

Expected(c) ==
  CASE part = "times"        -> ExpectedRate(c)
    [] part = "destinations" -> ExpectedNovelty(c)
    [] part = "bigrams"      -> ExpectedBigram(c)
    [] part = "streaks"      -> ExpectedStreak(c)

\* One call at a time, every behavioural factor is what the whole history of
\* the process, or of the baseline it was warmed with, says it should be: the
\* incremental state loses and invents nothing.
ExactWhenAlone == ~overlapped => \A c \in Scored : points[c] = Expected(c)

\* However calls overlap, a destination that a finished call has named is new
\* to no one, and not new to the agent that named it, denied or not.
LearnedForGood ==
  part = "destinations" =>
    \A c \in Scored : \A e \in Range(History(c)) :
      e.destination = req[c].destination =>
        points[c] <= (IF e.agent = req[c].agent THEN 0 ELSE DEST_NEVER_SEEN_BY_AGENT)

\* However calls overlap, nobody is scored for a burst that was not there: an
\* anomalous rate has that many calls of the workload within the window.
RateIsReal ==
  part = "times" =>
    \A c \in Scored : points[c] = RATE_ANOMALY =>
      RATE_THRESHOLD <=
        Cardinality({d \in Calls : /\ step[d] \in {"look", "trim", "store", "done"}
                                   /\ req[d].agent = req[c].agent
                                   /\ mine[c].scoredAt - mine[d].stamp <= RATE_WINDOW})

\* However calls overlap, a streak is never longer than the denials of the
\* workload that have been decided.
StreakIsEarned ==
  part = "streaks" =>
    \A c \in Scored :
      points[c] <= StreakPoints(Cardinality(
        {d \in Calls : step[d] = "done" /\ req[d].agent = req[c].agent /\ req[d].denied}))
=============================================================================
