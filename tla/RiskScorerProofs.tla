-------------------------- MODULE RiskScorerProofs -------------------------
(***************************************************************************)
(* What the risk band can do to a verdict, whatever the factors; what      *)
(* overlapping calls can do to the behavioural factors; and that without   *)
(* overlaps each factor is what the history says: for any requests,        *)
(* baseline, window and threshold and any finite set of calls.             *)
(***************************************************************************)
EXTENDS RiskScorer, FiniteSetTheorems, NaturalsInduction, WellFoundedInduction, TLAPS

\* The sum of the capped factors is a natural number below the cap.
LEMMA TotalIsNatural ==
  ASSUME NEW f \in Factors
  PROVE  Total(f) \in 0 .. TOTAL_CAP
BY DEF Factors, Total, Capped, AtMost, THREAT_INTEL_HIT, DEST_NEVER_SEEN_BY_AGENT,
       DEST_UNKNOWN_TO_ORG, ACTION_POINTS, DATA_CLASS_POINTS, TAINTED_AND_EXTERNAL,
       RATE_ANOMALY, UNSEEN_BIGRAM, DENIAL_STREAK_CAP, CATEGORY_CAP, TOTAL_CAP

\* Every score has a band.
LEMMA BandIsBand ==
  ASSUME NEW n \in Int
  PROVE  Band(n) \in Bands
BY DEF Band, Bands

\* A threat-intelligence hit alone is at least HIGH: what Pep assumes of the
\* scorer (RiskBands), so that a listed destination is never reached.
THEOREM HitIsHigh ==
  ASSUME NEW f \in Factors, f.intel = THREAT_INTEL_HIT
  PROVE  /\ Band(Total(f)) \in {"HIGH", "CRITICAL"}
         /\ Ceiling[Band(Total(f))] \notin EXECUTABLE_DECISIONS
<1>1. Total(f) \in Int /\ Total(f) >= 60
  BY DEF Factors, Total, Capped, AtMost, THREAT_INTEL_HIT, DEST_NEVER_SEEN_BY_AGENT,
         DEST_UNKNOWN_TO_ORG, ACTION_POINTS, DATA_CLASS_POINTS, TAINTED_AND_EXTERNAL,
         RATE_ANOMALY, UNSEEN_BIGRAM, DENIAL_STREAK_CAP, CATEGORY_CAP, TOTAL_CAP
<1>2. Band(Total(f)) \in {"HIGH", "CRITICAL"}
  BY <1>1 DEF Band
<1>3. Ceiling["HIGH"] = REQUIRE_APPROVAL /\ Ceiling["CRITICAL"] = QUARANTINE
  BY DEF Ceiling
<1> QED
  BY <1>2, <1>3 DEF EXECUTABLE_DECISIONS, QUARANTINE, REQUIRE_APPROVAL, RATE_LIMIT,
                    ALLOW_REDACTED, ALLOW

\* No score denies: a DENY always comes from policy or DLP, so the scorer's own
\* verdicts never lengthen the denial streak it scores.
THEOREM RiskNeverDenies ==
  ASSUME NEW f \in Factors, NEW policy \in Decision, NEW dlp \in Decision
  PROVE  LET final == Narrowest({policy, dlp, Ceiling[Band(Total(f))]})
         IN  final = DENY <=> policy = DENY \/ dlp = DENY
<1> DEFINE risk  == Ceiling[Band(Total(f))]
           final == Narrowest({policy, dlp, risk})
<1>1. Band(Total(f)) \in Bands
  BY TotalIsNatural, BandIsBand
<1>2. risk \in QUARANTINE .. ALLOW
  BY <1>1 DEF Bands, Ceiling, QUARANTINE, REQUIRE_APPROVAL, RATE_LIMIT, ALLOW
<1>3. \E d \in {policy, dlp, risk} : \A e \in {policy, dlp, risk} : d <= e
  BY <1>2 DEF Decision, QUARANTINE, DENY, ALLOW
<1>4. final \in {policy, dlp, risk} /\ \A e \in {policy, dlp, risk} : final <= e
  BY <1>3 DEF Narrowest
<1> QED
  BY <1>2, <1>4 DEF Decision, QUARANTINE, DENY, ALLOW

\* One more point never widens the ceiling: every factor that fires can only
\* narrow the verdict (the lattice is monotone in the evidence).
THEOREM EvidenceNarrows ==
  ASSUME NEW f \in Factors, NEW g \in Factors,
         f.intel <= g.intel, f.destination <= g.destination, f.action <= g.action,
         f.data <= g.data, f.tainted <= g.tainted, f.rate <= g.rate,
         f.bigram <= g.bigram, f.streak <= g.streak
  PROVE  Ceiling[Band(Total(g))] <= Ceiling[Band(Total(f))]
<1>1. /\ f.intel \in Nat /\ f.destination \in Nat /\ f.action \in Nat /\ f.data \in Nat
      /\ f.tainted \in Nat /\ f.rate \in Nat /\ f.bigram \in Nat /\ f.streak \in Nat
  BY DEF Factors, THREAT_INTEL_HIT, DEST_NEVER_SEEN_BY_AGENT, DEST_UNKNOWN_TO_ORG,
         ACTION_POINTS, DATA_CLASS_POINTS, TAINTED_AND_EXTERNAL, RATE_ANOMALY,
         UNSEEN_BIGRAM, DENIAL_STREAK_CAP
<1>2. /\ g.intel \in Nat /\ g.destination \in Nat /\ g.action \in Nat /\ g.data \in Nat
      /\ g.tainted \in Nat /\ g.rate \in Nat /\ g.bigram \in Nat /\ g.streak \in Nat
  BY DEF Factors, THREAT_INTEL_HIT, DEST_NEVER_SEEN_BY_AGENT, DEST_UNKNOWN_TO_ORG,
         ACTION_POINTS, DATA_CLASS_POINTS, TAINTED_AND_EXTERNAL, RATE_ANOMALY,
         UNSEEN_BIGRAM, DENIAL_STREAK_CAP
<1>3. \A m, n \in Nat : m <= n => Capped(m) <= Capped(n) /\ Capped(m) \in Nat /\ Capped(n) \in Nat
  BY DEF Capped, AtMost, CATEGORY_CAP
<1> DEFINE Sum(h) == Capped(h.intel) + Capped(h.destination) + Capped(h.action) + Capped(h.data)
                       + Capped(h.tainted) + Capped(h.rate) + Capped(h.bigram) + Capped(h.streak)
<1>4. Total(f) \in Nat /\ Total(g) \in Nat /\ Total(f) <= Total(g)
  <2>1. /\ Capped(f.intel) <= Capped(g.intel) /\ Capped(f.destination) <= Capped(g.destination)
        /\ Capped(f.action) <= Capped(g.action) /\ Capped(f.data) <= Capped(g.data)
        /\ Capped(f.tainted) <= Capped(g.tainted) /\ Capped(f.rate) <= Capped(g.rate)
        /\ Capped(f.bigram) <= Capped(g.bigram) /\ Capped(f.streak) <= Capped(g.streak)
    BY <1>1, <1>2, <1>3
  <2>2. /\ Capped(f.intel) \in Nat /\ Capped(f.destination) \in Nat /\ Capped(f.action) \in Nat
        /\ Capped(f.data) \in Nat /\ Capped(f.tainted) \in Nat /\ Capped(f.rate) \in Nat
        /\ Capped(f.bigram) \in Nat /\ Capped(f.streak) \in Nat
    BY <1>1, <1>3
  <2>3. /\ Capped(g.intel) \in Nat /\ Capped(g.destination) \in Nat /\ Capped(g.action) \in Nat
        /\ Capped(g.data) \in Nat /\ Capped(g.tainted) \in Nat /\ Capped(g.rate) \in Nat
        /\ Capped(g.bigram) \in Nat /\ Capped(g.streak) \in Nat
    BY <1>2, <1>3
  <2>4. Sum(f) \in Nat /\ Sum(g) \in Nat /\ Sum(f) <= Sum(g)
    BY <2>1, <2>2, <2>3
  <2>5. Total(f) = AtMost(Sum(f), TOTAL_CAP) /\ Total(g) = AtMost(Sum(g), TOTAL_CAP)
    BY DEF Total
  <2> QED
    BY <2>4, <2>5 DEF AtMost, TOTAL_CAP
<1>5. ASSUME NEW n \in Nat
      PROVE  Ceiling[Band(n)] = IF n >= 75 THEN 1 ELSE IF n >= 50 THEN 2
                                ELSE IF n >= 25 THEN 3 ELSE 5
  BY DEF Band, Ceiling, ALLOW, RATE_LIMIT, REQUIRE_APPROVAL, QUARANTINE
<1>6. /\ Ceiling[Band(Total(f))] = IF Total(f) >= 75 THEN 1 ELSE IF Total(f) >= 50 THEN 2
                                  ELSE IF Total(f) >= 25 THEN 3 ELSE 5
      /\ Ceiling[Band(Total(g))] = IF Total(g) >= 75 THEN 1 ELSE IF Total(g) >= 50 THEN 2
                                  ELSE IF Total(g) >= 25 THEN 3 ELSE 5
  BY <1>4, <1>5
<1> QED
  BY <1>4, <1>6

\* A streak of denials by itself never blocks: the most it does is RATE_LIMIT, so a
\* workload whose calls are otherwise without risk is never locked out by it.
THEOREM StreakAloneExecutes ==
  ASSUME NEW n \in Nat, NEW f \in Factors,
         f.streak = StreakPoints(n),
         f.intel = 0, f.destination = 0, f.action = 0, f.data = 0,
         f.tainted = 0, f.rate = 0, f.bigram = 0
  PROVE  Ceiling[Band(Total(f))] \in EXECUTABLE_DECISIONS
<1>1. StreakPoints(n) \in 0 .. 25
  BY DEF StreakPoints, AtMost, DENIAL_STREAK_PER_HIT, DENIAL_STREAK_CAP
<1>2. Total(f) \in 0 .. 25
  BY <1>1 DEF Total, Capped, AtMost, CATEGORY_CAP, TOTAL_CAP
<1>3. Band(Total(f)) \in {"LOW", "MODERATE"}
  BY <1>2 DEF Band
<1> QED
  BY <1>3 DEF Ceiling, EXECUTABLE_DECISIONS, ALLOW, RATE_LIMIT

-----------------------------------------------------------------------------
(* The behavioural factors.                                                *)

\* No step changes the part a behaviour follows.
LEMMA PartIsFixed == [Next]_vars => part' = part
BY DEF Next, Tick, Begin, ScoreCall, RecordOutcome, ScoreOrg, ScoreAgent, ReadClock, GetTimes,
       CountTimes, ReadLast, ScorePair, ScoreStreak, Stamp, Hold, AppendTime, Look, Trim,
       Store, AddOrg, AddAgent, RecordLast, AddPair, SetLast, ReadStreak, WriteStreak,
       ResetStreak, Reads, fixed, vars

Shape(S) ==
  /\ step \in [Calls -> S]
  /\ req \in [Calls -> Requests[part]]
  /\ points \in [Calls -> Nat]

\* The workload of a request is one of the workloads.
LEMMA AgentsAreAgents ==
  ASSUME part \in Parts, NEW c \in Calls, req \in [Calls -> Requests[part]]
  PROVE  req[c].agent \in Agents
BY DEF Agents, AllRequests

-----------------------------------------------------------------------------
(* Destinations: nothing learned is forgotten.                             *)

DestinationSteps == {"idle", "score", "agent", "scored", "addAgent", "done"}

\* Both sets hold the destination of e.  A line of the baseline may belong
\* to a workload that never calls.
Known(e) ==
  e.destination # NoDestination =>
    /\ e.destination \in byOrg
    /\ e.agent \in Agents => <<e.agent, e.destination>> \in byAgent

SeedKnown  == \A e \in Range(seed) : Known(e)
LogKnown   == \A i \in DOMAIN log : Known(req[log[i]])
FoundKnown == \A c \in Calls : \A i \in DOMAIN before[c] : Known(req[before[c][i]])

\* Everything replayed and every finished call is known, and so is what a
\* call found finished when it began.
DestinationInv ==
  /\ Shape(DestinationSteps)
  /\ seed \in {<<>>, Baseline}
  /\ log \in Seq(Calls) /\ before \in [Calls -> Seq(Calls)]
  /\ NoDestination \notin byOrg
  /\ SeedKnown /\ LogKnown /\ FoundKnown
  /\ \A c \in Calls : step[c] \in {"agent", "addAgent"} => req[c].destination \in byOrg
  /\ LearnedForGood

\* The history of a call is what was replayed and what it found finished.
LEMMA HistoryIsKnown ==
  ASSUME DestinationInv, NEW c \in Calls, NEW e \in Range(History(c))
  PROVE  Known(e)
<1> DEFINE found == [i \in DOMAIN before[c] |-> req[before[c][i]]]
<1>1. seed \in Seq(Range(seed))
  <2>1. CASE seed = <<>>
    BY <2>1
  <2>2. CASE seed = Baseline
    BY <2>2, BaselineAssumption
  <2> QED
    BY <2>1, <2>2 DEF DestinationInv
<1>2. before[c] \in Seq(Calls) /\ DOMAIN before[c] = 1 .. Len(before[c])
  BY DEF DestinationInv
<1>3. found \in Seq(Requests[part]) /\ Len(found) = Len(before[c])
  <2>1. \A i \in 1 .. Len(before[c]) : req[before[c][i]] \in Requests[part]
    BY <1>2 DEF DestinationInv, Shape
  <2>2. found = [i \in 1 .. Len(before[c]) |-> req[before[c][i]]] /\ Len(before[c]) \in Nat
    BY <1>2
  <2> QED
    BY <2>1, <2>2
<1>4. PICK j \in DOMAIN History(c) : e = History(c)[j]
  BY DEF Range
<1>5. History(c) = seed \o found
  BY DEF History, Story
<1>6. DOMAIN History(c) = 1 .. Len(seed) + Len(found)
  BY <1>1, <1>3, <1>5
<1>7. CASE j <= Len(seed)
  <2>1. j \in DOMAIN seed /\ e = seed[j]
    BY <1>1, <1>3, <1>4, <1>5, <1>6, <1>7
  <2>2. e \in Range(seed)
    BY <2>1 DEF Range
  <2> QED
    BY <2>2 DEF DestinationInv, SeedKnown
<1>8. CASE j > Len(seed)
  <2>1. j - Len(seed) \in DOMAIN before[c] /\ e = found[j - Len(seed)]
    BY <1>1, <1>2, <1>3, <1>4, <1>5, <1>6, <1>8
  <2>2. e = req[before[c][j - Len(seed)]]
    BY <2>1
  <2> QED
    BY <2>1, <2>2 DEF DestinationInv, FoundKnown
<1>9. j \in Int /\ Len(seed) \in Int
  BY <1>1, <1>3, <1>4, <1>6
<1> QED
  BY <1>7, <1>8, <1>9

\* While destinations are followed, only these actions can be taken.
LEMMA DestinationActions ==
  ASSUME part = "destinations", step \in [Calls -> DestinationSteps], Next
  PROVE  \E c \in Calls : Begin(c) \/ ScoreOrg(c) \/ ScoreAgent(c) \/ AddOrg(c) \/ AddAgent(c)
<1>1. ~ Tick
  BY DEF Tick
<1>2. ASSUME NEW c \in Calls
      PROVE  /\ ~ ReadClock(c) /\ ~ GetTimes(c) /\ ~ CountTimes(c) /\ ~ ReadLast(c)
             /\ ~ ScorePair(c) /\ ~ ScoreStreak(c)
  BY DEF ReadClock, GetTimes, CountTimes, ReadLast, ScorePair, ScoreStreak, Advance,
         DestinationSteps
<1>3. ASSUME NEW c \in Calls
      PROVE  /\ ~ Stamp(c) /\ ~ Hold(c) /\ ~ AppendTime(c) /\ ~ Look(c) /\ ~ Trim(c)
             /\ ~ Store(c) /\ ~ RecordLast(c) /\ ~ AddPair(c) /\ ~ SetLast(c)
             /\ ~ ReadStreak(c) /\ ~ WriteStreak(c) /\ ~ ResetStreak(c)
  BY DEF Stamp, Hold, AppendTime, Look, Trim, Store, RecordLast, AddPair, SetLast,
         ReadStreak, WriteStreak, ResetStreak, Done, Advance, DestinationSteps
<1> QED
  BY <1>1, <1>2, <1>3 DEF Next, ScoreCall, RecordOutcome

\* What an extended sequence holds, index by index.
LEMMA AppendElements ==
  ASSUME NEW S, NEW s \in Seq(S), NEW x \in S
  PROVE  /\ Append(s, x) \in Seq(S)
         /\ \A i \in DOMAIN Append(s, x) :
              (i \in DOMAIN s /\ Append(s, x)[i] = s[i]) \/ Append(s, x)[i] = x
<1>1. /\ DOMAIN s = 1 .. Len(s) /\ Len(s) \in Nat
      /\ Append(s, x) \in Seq(S) /\ DOMAIN Append(s, x) = 1 .. Len(s) + 1
      /\ \A i \in 1 .. Len(s) : Append(s, x)[i] = s[i]
      /\ Append(s, x)[Len(s) + 1] = x
  OBVIOUS
<1>2. \A i \in 1 .. Len(s) + 1 : i \in 1 .. Len(s) \/ i = Len(s) + 1
  BY <1>1
<1> QED
  BY <1>1, <1>2

\* What is known stays known.
LEMMA KnownKept ==
  ASSUME byOrg \subseteq byOrg', byAgent \subseteq byAgent', req' = req, seed' = seed
  PROVE  /\ SeedKnown => SeedKnown'
         /\ before' = before /\ FoundKnown => FoundKnown'
         /\ log' = log /\ LogKnown => LogKnown'
BY DEF Known, SeedKnown, FoundKnown, LogKnown

Learned(c) ==
  \A e \in Range(History(c)) :
    e.destination = req[c].destination =>
      points[c] <= (IF e.agent = req[c].agent THEN 0 ELSE DEST_NEVER_SEEN_BY_AGENT)

\* A call that has its score keeps it, and keeps what it is compared with.
LEMMA LearnedKept ==
  ASSUME req' = req, seed' = seed, NEW c \in Calls, Learned(c),
         points'[c] = points[c], before'[c] = before[c]
  PROVE  Learned(c)'
<1>1. History(c)' = History(c)
  BY DEF History, Story
<1> QED
  BY <1>1 DEF Learned

\* Before the first call, what is known is what was replayed.
LEMMA InitDestinationInv == Init /\ part = "destinations" => DestinationInv
<1> SUFFICES ASSUME Init, part = "destinations" PROVE DestinationInv
  OBVIOUS
<1>1. Shape(DestinationSteps)
  BY DEF Init, Shape, DestinationSteps
<1>2. seed \in {<<>>, Baseline} /\ log \in Seq(Calls) /\ before \in [Calls -> Seq(Calls)]
  BY DEF Init
<1>3. NoDestination \notin byOrg
  BY DEF Init, Seeded, Destinations
<1>4. SeedKnown
  BY DEF Init, Seeded, Destinations, Known, SeedKnown
<1>5. LogKnown /\ FoundKnown
  BY DEF Init, LogKnown, FoundKnown
<1>6. \A c \in Calls : step[c] \notin {"agent", "addAgent"} /\ c \notin Scored
  BY DEF Init, Scored
<1>7. LearnedForGood
  BY <1>6 DEF LearnedForGood, Scored
<1> QED
  BY <1>1, <1>2, <1>3, <1>4, <1>5, <1>6, <1>7 DEF DestinationInv

\* A step in which the calls with a score keep it, and one may get its own.
LEMMA LearnedForGoodKept ==
  ASSUME part = "destinations", part' = part, req' = req, seed' = seed, LearnedForGood,
         \A d \in Calls : d \in Scored' =>
           \/ d \in Scored /\ points'[d] = points[d] /\ before'[d] = before[d]
           \/ Learned(d)'
  PROVE  LearnedForGood'
<1>1. ASSUME NEW d \in Calls, d \in Scored' PROVE Learned(d)'
  BY <1>1, LearnedKept DEF LearnedForGood, Learned
<1> QED
  BY <1>1 DEF LearnedForGood, Learned, Scored

\* No step, of any interleaving, forgets a destination.
LEMMA NextDestinationInv ==
  ASSUME part = "destinations", DestinationInv, [Next]_vars
  PROVE  DestinationInv' /\ part' = part
<1>t. /\ step \in [Calls -> DestinationSteps] /\ req \in [Calls -> Requests[part]]
      /\ points \in [Calls -> Nat] /\ before \in [Calls -> Seq(Calls)] /\ log \in Seq(Calls)
      /\ \A d \in Calls : req[d].agent \in Agents
  BY AgentsAreAgents DEF DestinationInv, Shape, Parts
<1>1. ASSUME NEW c \in Calls, Begin(c) PROVE DestinationInv' /\ part' = part
  <2>1. UNCHANGED <<part, req, seed, points, byOrg, byAgent, log>>
    BY <1>1 DEF Begin, destinations
  <2>2. /\ before' = [before EXCEPT ![c] = log] /\ step[c] = "idle"
        /\ step' = [step EXCEPT ![c] = "score"]
    BY <1>1 DEF Begin, Advance
  <2>3. Shape(DestinationSteps)' /\ before' \in [Calls -> Seq(Calls)]
    BY <2>1, <2>2, <1>t DEF Shape, DestinationSteps
  <2>4. FoundKnown'
    BY <2>1, <2>2, <1>t DEF DestinationInv, FoundKnown, LogKnown, Known
  <2>5. SeedKnown' /\ LogKnown'
    BY <2>1, KnownKept DEF DestinationInv
  <2>6. LearnedForGood'
    BY <2>1, <2>2, <1>t, LearnedForGoodKept DEF DestinationInv, Scored
  <2>7. \A d \in Calls : step'[d] \in {"agent", "addAgent"} => req'[d].destination \in byOrg'
    BY <2>1, <2>2, <1>t DEF DestinationInv
  <2> QED
    BY <2>1, <2>3, <2>4, <2>5, <2>6, <2>7 DEF DestinationInv
<1>2. ASSUME NEW c \in Calls, ScoreOrg(c) PROVE DestinationInv' /\ part' = part
  <2>1. UNCHANGED <<part, req, seed, before, byOrg, byAgent, log>>
    BY <1>2 DEF ScoreOrg, Reads, fixed, destinations
  <2>2. \/ /\ step' = [step EXCEPT ![c] = "agent"]
           /\ req[c].destination \in byOrg /\ points' = points
        \/ /\ step' = [step EXCEPT ![c] = "scored"]
           /\ req[c].destination \notin byOrg
           /\ points' = [points EXCEPT ![c] = IF req[c].destination = NoDestination THEN 0
                                              ELSE DEST_UNKNOWN_TO_ORG]
    BY <1>2 DEF ScoreOrg, Advance, Score
  <2>3. Shape(DestinationSteps)'
    <3>1. step' \in [Calls -> DestinationSteps]
      BY <2>2, <1>t DEF DestinationSteps
    <3>2. points' \in [Calls -> Nat]
      <4>1. CASE points' = points
        BY <4>1, <1>t
      <4>2. ASSUME NEW n \in Nat, points' = [points EXCEPT ![c] = n]
            PROVE  points' \in [Calls -> Nat]
        BY <4>2, <1>t
      <4>3. 0 \in Nat /\ DEST_UNKNOWN_TO_ORG \in Nat
        BY DEF DEST_UNKNOWN_TO_ORG
      <4> QED
        BY <2>2, <4>1, <4>2, <4>3
    <3> QED
      BY <2>1, <3>1, <3>2, <1>t DEF Shape
  <2>4. SeedKnown' /\ LogKnown' /\ FoundKnown'
    BY <2>1, KnownKept DEF DestinationInv
  <2>5. step'[c] = "scored" => Learned(c)'
    <3>1. SUFFICES ASSUME step'[c] = "scored", NEW e \in Range(History(c)),
                          e.destination = req[c].destination
                   PROVE  points'[c] <= (IF e.agent = req[c].agent THEN 0
                                         ELSE DEST_NEVER_SEEN_BY_AGENT)
      <4>1. History(c)' = History(c)
        BY <2>1 DEF History, Story
      <4> QED
        BY <4>1, <2>1 DEF Learned
    <3>2. req[c].destination \notin byOrg
      BY <2>2, <3>1, <1>t
    <3>3. req[c].destination = NoDestination
      BY <3>1, <3>2, HistoryIsKnown DEF Known
    <3>4. points'[c] = 0
      BY <2>2, <3>2, <3>3, <1>t
    <3> QED
      BY <3>4 DEF DEST_NEVER_SEEN_BY_AGENT
  <2>6. LearnedForGood'
    BY <2>1, <2>2, <2>5, <1>t, LearnedForGoodKept DEF DestinationInv, Scored
  <2>7. \A d \in Calls : step'[d] \in {"agent", "addAgent"} => req'[d].destination \in byOrg'
    BY <2>1, <2>2, <1>t DEF DestinationInv
  <2> QED
    BY <2>1, <2>3, <2>4, <2>6, <2>7 DEF DestinationInv
<1>3. ASSUME NEW c \in Calls, ScoreAgent(c) PROVE DestinationInv' /\ part' = part
  <2>1. UNCHANGED <<part, req, seed, before, byOrg, byAgent, log>>
    BY <1>3 DEF ScoreAgent, Reads, fixed, destinations
  <2>2. /\ step[c] = "agent" /\ step' = [step EXCEPT ![c] = "scored"]
        /\ points' = [points EXCEPT ![c] = IF <<req[c].agent, req[c].destination>> \in byAgent
                                           THEN 0 ELSE DEST_NEVER_SEEN_BY_AGENT]
    BY <1>3 DEF ScoreAgent, Advance, Score
  <2>3. Shape(DestinationSteps)'
    BY <2>1, <2>2, <1>t DEF Shape, DestinationSteps, DEST_NEVER_SEEN_BY_AGENT
  <2>4. SeedKnown' /\ LogKnown' /\ FoundKnown'
    BY <2>1, KnownKept DEF DestinationInv
  <2>5. Learned(c)'
    <3>1. SUFFICES ASSUME NEW e \in Range(History(c)),
                          e.destination = req[c].destination
                   PROVE  points'[c] <= (IF e.agent = req[c].agent THEN 0
                                         ELSE DEST_NEVER_SEEN_BY_AGENT)
      <4>1. History(c)' = History(c)
        BY <2>1 DEF History, Story
      <4> QED
        BY <4>1, <2>1 DEF Learned
    <3>2. req[c].destination \in byOrg /\ req[c].destination # NoDestination
      BY <2>2 DEF DestinationInv
    <3>3. e.agent = req[c].agent => <<req[c].agent, req[c].destination>> \in byAgent
      BY <3>1, <3>2, <1>t, HistoryIsKnown DEF Known
    <3> QED
      BY <2>2, <3>3, <1>t DEF DEST_NEVER_SEEN_BY_AGENT
  <2>6. LearnedForGood'
    BY <2>1, <2>2, <2>5, <1>t, LearnedForGoodKept DEF DestinationInv, Scored
  <2>7. \A d \in Calls : step'[d] \in {"agent", "addAgent"} => req'[d].destination \in byOrg'
    BY <2>1, <2>2, <1>t DEF DestinationInv
  <2> QED
    BY <2>1, <2>3, <2>4, <2>6, <2>7 DEF DestinationInv
<1>4. ASSUME NEW c \in Calls, AddOrg(c) PROVE DestinationInv' /\ part' = part
  <2>1. UNCHANGED <<part, req, seed, before, points, byAgent>>
    BY <1>4 DEF AddOrg, fixed
  <2>2. \/ /\ req[c].destination = NoDestination /\ byOrg' = byOrg
           /\ step' = [step EXCEPT ![c] = "done"] /\ log' = Append(log, c)
        \/ /\ req[c].destination # NoDestination
           /\ byOrg' = byOrg \union {req[c].destination}
           /\ step' = [step EXCEPT ![c] = "addAgent"] /\ log' = log
    BY <1>4 DEF AddOrg, Advance, Done
  <2>s. step[c] = "scored"
    BY <1>4 DEF AddOrg, Advance, Done
  <2>3. Shape(DestinationSteps)' /\ log' \in Seq(Calls) /\ NoDestination \notin byOrg'
    <3>1. step' \in [Calls -> DestinationSteps]
      BY <2>2, <1>t DEF DestinationSteps
    <3>2. log' \in Seq(Calls)
      <4>1. CASE log' = log
        BY <4>1, <1>t
      <4>2. CASE log' = Append(log, c)
        BY <4>2, <1>t, AppendElements
      <4> QED
        BY <2>2, <4>1, <4>2
    <3>3. NoDestination \notin byOrg'
      BY <2>2 DEF DestinationInv
    <3> QED
      BY <2>1, <3>1, <3>2, <3>3, <1>t DEF Shape
  <2>4. SeedKnown' /\ FoundKnown'
    BY <2>1, <2>2, KnownKept DEF DestinationInv
  <2>5. LogKnown'
    <3>1. CASE log' = log
      BY <2>1, <2>2, <3>1, KnownKept DEF DestinationInv
    <3>2. CASE log' = Append(log, c) /\ req[c].destination = NoDestination /\ byOrg' = byOrg
      BY <2>1, <3>2, <1>t DEF DestinationInv, LogKnown, Known
    <3> QED
      BY <2>2, <3>1, <3>2
  <2>6. LearnedForGood'
    BY <2>1, <2>2, <2>s, <1>t, LearnedForGoodKept DEF DestinationInv, Scored
  <2>7. \A d \in Calls : step'[d] \in {"agent", "addAgent"} => req'[d].destination \in byOrg'
    BY <2>1, <2>2, <1>t DEF DestinationInv
  <2> QED
    BY <2>1, <2>3, <2>4, <2>5, <2>6, <2>7, <1>t DEF DestinationInv
<1>5. ASSUME NEW c \in Calls, AddAgent(c) PROVE DestinationInv' /\ part' = part
  <2>1. UNCHANGED <<part, req, seed, before, points, byOrg>>
    BY <1>5 DEF AddAgent, fixed
  <2>2. /\ step[c] = "addAgent" /\ step' = [step EXCEPT ![c] = "done"]
        /\ log' = Append(log, c)
        /\ byAgent' = byAgent \union {<<req[c].agent, req[c].destination>>}
    BY <1>5 DEF AddAgent, Advance, Done
  <2>3. Shape(DestinationSteps)' /\ log' \in Seq(Calls)
    BY <2>1, <2>2, <1>t DEF Shape, DestinationSteps
  <2>4. SeedKnown' /\ FoundKnown'
    BY <2>1, <2>2, KnownKept DEF DestinationInv
  <2>5. LogKnown'
    <3>1. req[c].destination \in byOrg
      BY <2>2 DEF DestinationInv
    <3>2. \A i \in DOMAIN log' : (i \in DOMAIN log /\ log'[i] = log[i]) \/ log'[i] = c
      BY <2>2, <1>t, AppendElements
    <3>3. Known(req[c])'
      BY <2>1, <2>2, <3>1 DEF Known
    <3>4. ASSUME NEW i \in DOMAIN log PROVE Known(req[log[i]])'
      BY <2>1, <2>2 DEF DestinationInv, LogKnown, Known
    <3> QED
      BY <2>1, <3>2, <3>3, <3>4 DEF LogKnown, Known
  <2>6. LearnedForGood'
    BY <2>1, <2>2, <1>t, LearnedForGoodKept DEF DestinationInv, Scored
  <2>7. \A d \in Calls : step'[d] \in {"agent", "addAgent"} => req'[d].destination \in byOrg'
    BY <2>1, <2>2, <1>t DEF DestinationInv
  <2> QED
    BY <2>1, <2>3, <2>4, <2>5, <2>6, <2>7, <1>t DEF DestinationInv
<1>6. ASSUME UNCHANGED vars PROVE DestinationInv' /\ part' = part
  <2>1. UNCHANGED <<part, step, req, seed, before, points, byOrg, byAgent, log>>
    BY <1>6 DEF vars, destinations, history
  <2>2. SeedKnown' /\ FoundKnown' /\ LogKnown'
    BY <2>1, KnownKept DEF DestinationInv
  <2>3. LearnedForGood'
    BY <2>1, LearnedForGoodKept DEF DestinationInv, Scored
  <2> QED
    BY <2>1, <2>2, <2>3 DEF DestinationInv, Shape
<1> QED
  BY <1>t, <1>1, <1>2, <1>3, <1>4, <1>5, <1>6, DestinationActions

\* However calls overlap, what a finished call named is new to nobody, for
\* any requests, baseline and number of calls.
THEOREM LearnedForGoodHolds == Spec => []LearnedForGood
<1> DEFINE DInv == part = "destinations" => DestinationInv
<1>1. Init => DInv
  BY InitDestinationInv
<1>2. DInv /\ [Next]_vars => DInv'
  BY PartIsFixed, NextDestinationInv
<1>3. DInv => LearnedForGood
  BY DEF DestinationInv, LearnedForGood
<1>4. Spec => []DInv
  <2> HIDE DEF DInv
  <2> QED
    BY <1>1, <1>2, PTL DEF Spec
<1> QED
  <2> HIDE DEF DInv
  <2> QED
    BY <1>3, <1>4, PTL

-----------------------------------------------------------------------------
(* Denial streaks: no denial is invented.                                  *)

StreakSteps == {"idle", "score", "scored", "write", "done"}

\* The locals of a call; this part uses only the streak.
StreakLocals ==
  [scoredAt : {0}, stamp : {0}, times : {NoList}, last : {NoTool}, streak : Nat]

Denials(a) == {d \in Calls : step[d] = "done" /\ req[d].agent = a /\ req[d].denied}

\* A streak, and one that a call is about to lengthen, is at most the number
\* of denials of its workload.
StreakInv ==
  /\ Shape(StreakSteps)
  /\ streak \in [Agents -> Nat]
  /\ mine \in [Calls -> StreakLocals]
  /\ \A a \in Agents : streak[a] <= Cardinality(Denials(a))
  /\ \A c \in Calls : step[c] = "write" =>
       /\ req[c].denied
       /\ mine[c].streak <= Cardinality(Denials(req[c].agent))
  /\ StreakIsEarned

\* There are finitely many denials, and a streak scores no less when longer.
LEMMA DenialsAreFinite ==
  ASSUME NEW a
  PROVE  IsFiniteSet(Denials(a)) /\ Cardinality(Denials(a)) \in Nat
<1>1. Denials(a) \subseteq Calls
  BY DEF Denials
<1>2. IsFiniteSet(Denials(a))
  BY <1>1, CallsAssumption, FS_Subset
<1> QED
  BY <1>2, FS_CardinalityType

\* A longer streak scores no less.
LEMMA StreakPointsMonotone ==
  ASSUME NEW m \in Nat, NEW n \in Nat, m <= n
  PROVE  /\ StreakPoints(m) \in Nat /\ StreakPoints(n) \in Nat
         /\ StreakPoints(m) <= StreakPoints(n)
BY DEF StreakPoints, AtMost, DENIAL_STREAK_PER_HIT, DENIAL_STREAK_CAP

\* Denials are for good: there are only more of them.
LEMMA DenialsGrow ==
  ASSUME NEW a, Denials(a) \subseteq Denials(a)'
  PROVE  /\ Cardinality(Denials(a)) \in Nat /\ Cardinality(Denials(a)') \in Nat
         /\ Cardinality(Denials(a)) <= Cardinality(Denials(a)')
<1>1. Denials(a)' \subseteq Calls
  BY DEF Denials
<1>2. IsFiniteSet(Denials(a)')
  BY <1>1, CallsAssumption, FS_Subset
<1> QED
  BY <1>2, FS_Subset, FS_CardinalityType, DenialsAreFinite

\* The actions of the streaks' machine.
LEMMA StreakActions ==
  ASSUME part = "streaks", step \in [Calls -> StreakSteps], Next
  PROVE  \E c \in Calls :
           Begin(c) \/ ScoreStreak(c) \/ ReadStreak(c) \/ WriteStreak(c) \/ ResetStreak(c)
<1>1. ~ Tick
  BY DEF Tick
<1>2. ASSUME NEW c \in Calls
      PROVE  /\ ~ ScoreOrg(c) /\ ~ ScoreAgent(c) /\ ~ ReadClock(c) /\ ~ GetTimes(c)
             /\ ~ CountTimes(c) /\ ~ ReadLast(c) /\ ~ ScorePair(c)
  BY DEF ScoreOrg, ScoreAgent, ReadClock, GetTimes, CountTimes, ReadLast, ScorePair, Advance,
         StreakSteps
<1>3. ASSUME NEW c \in Calls
      PROVE  /\ ~ Stamp(c) /\ ~ Hold(c) /\ ~ AppendTime(c) /\ ~ Look(c) /\ ~ Trim(c)
             /\ ~ Store(c) /\ ~ RecordLast(c) /\ ~ AddPair(c) /\ ~ SetLast(c)
             /\ ~ AddOrg(c) /\ ~ AddAgent(c)
  BY DEF Stamp, Hold, AppendTime, Look, Trim, Store, RecordLast, AddPair, SetLast,
         AddOrg, AddAgent, Done, Advance, StreakSteps
<1> QED
  BY <1>1, <1>2, <1>3 DEF Next, ScoreCall, RecordOutcome

\* There is no streak before the first call.
LEMMA InitStreakInv == Init /\ part = "streaks" => StreakInv
<1> SUFFICES ASSUME Init, part = "streaks" PROVE StreakInv
  OBVIOUS
<1>1. /\ Shape(StreakSteps) /\ mine \in [Calls -> StreakLocals]
      /\ \A c \in Calls : step[c] = "idle"
  BY DEF Init, Shape, StreakSteps, Locals, StreakLocals
<1>2. streak \in [Agents -> Nat] /\ \A a \in Agents : streak[a] = 0
  BY DEF Init
<1>3. StreakIsEarned
  BY <1>1 DEF StreakIsEarned, Scored
<1>4. \A a \in Agents : streak[a] <= Cardinality(Denials(a))
  BY <1>2, DenialsAreFinite
<1> QED
  BY <1>1, <1>2, <1>3, <1>4 DEF StreakInv

\* No step, of any interleaving, makes a streak longer than the denials.
LEMMA NextStreakInv ==
  ASSUME part = "streaks", StreakInv, [Next]_vars
  PROVE  StreakInv'
<1>t. /\ step \in [Calls -> StreakSteps] /\ req \in [Calls -> Requests[part]]
      /\ points \in [Calls -> Nat] /\ streak \in [Agents -> Nat]
      /\ mine \in [Calls -> StreakLocals]
      /\ \A d \in Calls : req[d].agent \in Agents
  BY AgentsAreAgents DEF StreakInv, Shape, Parts
<1>p. part' = part /\ req' = req
  <2>1. part' = part
    BY PartIsFixed
  <2>2. CASE UNCHANGED vars
    BY <2>2 DEF vars
  <2>3. ASSUME NEW c \in Calls,
               Begin(c) \/ ScoreStreak(c) \/ ReadStreak(c) \/ WriteStreak(c) \/ ResetStreak(c)
        PROVE  req' = req
    BY <2>3 DEF Begin, ScoreStreak, ReadStreak, WriteStreak, ResetStreak, Reads, fixed
  <2> QED
    BY <2>1, <2>2, <2>3, <1>t, StreakActions
<1>e. ASSUME \A a \in Agents : Denials(a) \subseteq Denials(a)',
             \A d \in Calls : d \in Scored' =>
               \/ d \in Scored /\ points'[d] = points[d]
               \/ points'[d] <= StreakPoints(Cardinality(Denials(req[d].agent))),
             points' \in [Calls -> Nat]
      PROVE  StreakIsEarned'
  <2>1. ASSUME NEW d \in Calls, d \in Scored'
        PROVE  points'[d] <= StreakPoints(Cardinality(Denials(req[d].agent)'))
    <3>a. PICK a \in Agents : a = req[d].agent
      BY <1>t
    <3>1. points'[d] <= StreakPoints(Cardinality(Denials(a)))
      BY <1>e, <2>1, <1>t, <3>a DEF StreakInv, StreakIsEarned, Denials
    <3>2. /\ Cardinality(Denials(a)) \in Nat /\ Cardinality(Denials(a)') \in Nat
          /\ Cardinality(Denials(a)) <= Cardinality(Denials(a)')
      BY <1>e, DenialsGrow
    <3>3. /\ StreakPoints(Cardinality(Denials(a))) \in Nat
          /\ StreakPoints(Cardinality(Denials(a)')) \in Nat
          /\ StreakPoints(Cardinality(Denials(a))) <= StreakPoints(Cardinality(Denials(a)'))
      BY <3>2, StreakPointsMonotone
    <3>4. points'[d] <= StreakPoints(Cardinality(Denials(a)'))
      BY <3>1, <3>3, <1>e
    <3> QED
      BY <3>4, <3>a, <1>p DEF Denials
  <2> QED
    BY <2>1, <1>p DEF StreakIsEarned, Scored, Denials
\* The streaks of the other workloads, and what their calls have read.
<1>b. ASSUME NEW a \in Agents, Denials(a) \subseteq Denials(a)', NEW n \in Nat,
             n <= Cardinality(Denials(a))
      PROVE  n <= Cardinality(Denials(a)')
  BY <1>b, DenialsGrow
<1>1. ASSUME NEW c \in Calls, Begin(c) PROVE StreakInv'
  <2>1. UNCHANGED <<points, streak, mine>> /\ step[c] = "idle"
        /\ step' = [step EXCEPT ![c] = "score"]
    BY <1>1 DEF Begin, Advance
  <2>2. \A a \in Agents : Denials(a)' = Denials(a)
    BY <2>1, <1>p, <1>t DEF Denials
  <2>3. Shape(StreakSteps)'
    BY <2>1, <1>p, <1>t DEF Shape, StreakSteps
  <2>4. StreakIsEarned'
    BY <2>1, <2>2, <1>t, <1>e DEF Scored
  <2>5. \A d \in Calls : step'[d] = "write" => step[d] = "write"
    BY <2>1, <1>t
  <2> QED
    BY <2>1, <2>2, <2>3, <2>4, <2>5, <1>p, <1>t DEF StreakInv, Denials
<1>2. ASSUME NEW c \in Calls, ScoreStreak(c) PROVE StreakInv'
  <2>1. /\ UNCHANGED <<streak, mine>> /\ step[c] = "score"
        /\ step' = [step EXCEPT ![c] = "scored"]
        /\ points' = [points EXCEPT ![c] = StreakPoints(streak[req[c].agent])]
    BY <1>2 DEF ScoreStreak, Advance, Score, Reads
  <2>2. \A a \in Agents : Denials(a)' = Denials(a)
    BY <2>1, <1>p, <1>t DEF Denials
  <2>3. /\ StreakPoints(streak[req[c].agent]) \in Nat
        /\ StreakPoints(streak[req[c].agent]) <= StreakPoints(Cardinality(Denials(req[c].agent)))
    <3>1. /\ streak[req[c].agent] \in Nat /\ Cardinality(Denials(req[c].agent)) \in Nat
          /\ streak[req[c].agent] <= Cardinality(Denials(req[c].agent))
      BY <1>t, DenialsAreFinite DEF StreakInv
    <3> QED
      BY <3>1, StreakPointsMonotone
  <2>4. step' \in [Calls -> StreakSteps] /\ points' \in [Calls -> Nat]
    BY <2>1, <2>3, <1>t DEF StreakSteps
  <2>5. StreakIsEarned'
    BY <2>1, <2>2, <2>3, <2>4, <1>t, <1>e DEF Scored
  <2>6. \A d \in Calls : step'[d] = "write" => step[d] = "write"
    BY <2>1, <1>t
  <2> QED
    BY <2>1, <2>2, <2>4, <2>5, <2>6, <1>p, <1>t DEF StreakInv, Shape, Denials
<1>3. ASSUME NEW c \in Calls, ReadStreak(c) PROVE StreakInv'
  <2>1. /\ UNCHANGED <<points, streak>> /\ step[c] = "scored" /\ req[c].denied
        /\ step' = [step EXCEPT ![c] = "write"]
        /\ mine' = [mine EXCEPT ![c].streak = streak[req[c].agent]]
    BY <1>3 DEF ReadStreak, Advance, Reads
  <2>2. \A a \in Agents : Denials(a)' = Denials(a)
    BY <2>1, <1>p, <1>t DEF Denials
  <2>3. Shape(StreakSteps)'
    BY <2>1, <1>p, <1>t DEF Shape, StreakSteps
  <2>4. StreakIsEarned'
    BY <2>1, <2>2, <1>t, <1>e DEF Scored
  <2>5. mine' \in [Calls -> StreakLocals] /\ mine'[c].streak = streak[req[c].agent]
    BY <2>1, <1>t DEF StreakLocals
  <2>6. \A d \in Calls \ {c} : mine'[d] = mine[d] /\ step'[d] = step[d]
    BY <2>1, <1>t
  <2>7. ASSUME NEW d \in Calls, step'[d] = "write"
        PROVE  req[d].denied /\ mine'[d].streak <= Cardinality(Denials(req[d].agent))
    <3>1. CASE d = c
      BY <3>1, <2>1, <2>5, <1>t DEF StreakInv
    <3>2. CASE d # c
      BY <3>2, <2>6, <2>7 DEF StreakInv
    <3> QED
      BY <3>1, <3>2
  <2> QED
    BY <2>1, <2>2, <2>3, <2>4, <2>5, <2>7, <1>p, <1>t DEF StreakInv, Denials
<1>4. ASSUME NEW c \in Calls, WriteStreak(c) PROVE StreakInv'
  <2>a. PICK a \in Agents : a = req[c].agent
    BY <1>t
  <2>1. /\ UNCHANGED <<points, mine>> /\ step[c] = "write"
        /\ step' = [step EXCEPT ![c] = "done"]
        /\ streak' = [streak EXCEPT ![a] = mine[c].streak + 1]
    BY <1>4, <2>a DEF WriteStreak, Advance, Done
  <2>2. req[c].denied /\ mine[c].streak \in Nat /\ mine[c].streak <= Cardinality(Denials(a))
    BY <2>1, <2>a, <1>t DEF StreakInv, StreakLocals
  <2>3. Denials(a)' = Denials(a) \union {c} /\ c \notin Denials(a)
    BY <2>1, <2>2, <2>a, <1>p, <1>t DEF Denials
  <2>4. Cardinality(Denials(a)') = Cardinality(Denials(a)) + 1
    BY <2>3, DenialsAreFinite, FS_AddElement
  <2>5. \A b \in Agents : Denials(b) \subseteq Denials(b)'
    BY <2>1, <1>p, <1>t DEF Denials
  <2>6. Shape(StreakSteps)' /\ streak' \in [Agents -> Nat]
    BY <2>1, <2>2, <1>p, <1>t DEF Shape, StreakSteps
  <2>7. StreakIsEarned'
    BY <2>1, <2>5, <1>t, <1>e DEF Scored
  <2>8. ASSUME NEW b \in Agents PROVE streak'[b] <= Cardinality(Denials(b)')
    <3>1. CASE b = a
      BY <3>1, <2>1, <2>2, <2>4, <1>t, DenialsAreFinite
    <3>2. CASE b # a
      BY <3>2, <2>1, <2>5, <1>b, <1>t DEF StreakInv
    <3> QED
      BY <3>1, <3>2
  <2>9. ASSUME NEW d \in Calls, step'[d] = "write"
        PROVE  req'[d].denied /\ mine'[d].streak <= Cardinality(Denials(req[d].agent)')
    <3>1. step[d] = "write" /\ mine' = mine
      BY <2>1, <2>9, <1>t
    <3>2. PICK b \in Agents : b = req[d].agent
      BY <1>t
    <3>3. mine[d].streak \in Nat /\ mine[d].streak <= Cardinality(Denials(b)) /\ req[d].denied
      BY <3>1, <3>2, <1>t DEF StreakInv, StreakLocals
    <3>4. mine[d].streak <= Cardinality(Denials(b)')
      BY <3>3, <2>5, <1>b
    <3> QED
      BY <3>1, <3>2, <3>3, <3>4, <1>p DEF Denials
  <2> QED
    BY <2>1, <2>6, <2>7, <2>8, <2>9, <1>p, <1>t DEF StreakInv, Denials
<1>5. ASSUME NEW c \in Calls, ResetStreak(c) PROVE StreakInv'
  <2>1. /\ UNCHANGED <<points, mine>> /\ step[c] = "scored"
        /\ step' = [step EXCEPT ![c] = "done"]
        /\ streak' = [streak EXCEPT ![req[c].agent] = 0] /\ ~ req[c].denied
    BY <1>5 DEF ResetStreak, Advance, Done
  <2>2. \A a \in Agents : Denials(a)' = Denials(a)
    BY <2>1, <1>p, <1>t DEF Denials
  <2>3. Shape(StreakSteps)' /\ streak' \in [Agents -> Nat]
    BY <2>1, <1>p, <1>t DEF Shape, StreakSteps
  <2>4. StreakIsEarned'
    BY <2>1, <2>2, <1>t, <1>e DEF Scored
  <2>5. \A d \in Calls : step'[d] = "write" => step[d] = "write"
    BY <2>1, <1>t
  <2>6. \A a \in Agents : streak'[a] <= Cardinality(Denials(a))
    BY <2>1, <1>t, DenialsAreFinite DEF StreakInv
  <2> QED
    BY <2>1, <2>2, <2>3, <2>4, <2>5, <2>6, <1>p, <1>t DEF StreakInv, Denials
<1>6. CASE UNCHANGED vars
  <2>1. UNCHANGED <<step, points, streak, mine>>
    BY <1>6 DEF vars
  <2>2. \A a \in Agents : Denials(a)' = Denials(a)
    BY <2>1, <1>p DEF Denials
  <2>3. StreakIsEarned'
    BY <2>1, <2>2, <1>t, <1>e DEF Scored
  <2> QED
    BY <2>1, <2>2, <2>3, <1>p, <1>t DEF StreakInv, Shape, Denials
<1> QED
  BY <1>1, <1>2, <1>3, <1>4, <1>5, <1>6, <1>t, StreakActions

\* However calls overlap, nobody is scored for a denial that was not, for any
\* requests and number of calls.
THEOREM StreakIsEarnedHolds == Spec => []StreakIsEarned
<1> DEFINE SInv == part = "streaks" => StreakInv
<1>1. Init => SInv
  BY InitStreakInv
<1>2. SInv /\ [Next]_vars => SInv'
  BY PartIsFixed, NextStreakInv
<1>3. SInv => StreakIsEarned
  BY DEF StreakInv, StreakIsEarned
<1>4. Spec => []SInv
  <2> HIDE DEF SInv
  <2> QED
    BY <1>1, <1>2, PTL DEF Spec
<1> QED
  <2> HIDE DEF SInv
  <2> QED
    BY <1>3, <1>4, PTL

-----------------------------------------------------------------------------
(* Call times: no burst is invented.                                       *)

TimesSteps == {"idle", "score", "times", "count", "scored", "hold", "append", "look", "trim",
               "store", "done"}
RecordedSteps == {"look", "trim", "store", "done"}

\* The locals of a call; this part uses the two times and the list.
TimesLocals ==
  [scoredAt : Int, stamp : Int, times : Lists \union {NoList}, last : {NoTool}, streak : {0}]

Burst(c) == {d \in Calls : /\ step[d] \in RecordedSteps
                           /\ req[d].agent = req[c].agent
                           /\ mine[c].scoredAt - mine[d].stamp <= RATE_WINDOW}

TimesShape ==
  /\ Shape(TimesSteps)
  /\ clock \in Int
  /\ mine \in [Calls -> TimesLocals]
  /\ current \in [Agents -> Lists \union {NoList}]
  /\ list \in [Lists -> SUBSET Calls]

\* The dictionary, and a call, hold a list of their own workload.
OwnershipInv ==
  /\ \A a \in Agents : current[a] \in Lists => req[current[a][1]].agent = a
  /\ \A c \in Calls : mine[c].times \in Lists => req[mine[c].times[1]].agent = req[c].agent

\* A list holds recorded calls of its workload only.
ContentsInv ==
  \A l \in Lists : \A d \in list[l] :
    step[d] \in RecordedSteps /\ req[d].agent = req[l[1]].agent

\* A call that appends, or trims, has a list to do it to.
ListInv ==
  \A c \in Calls :
    /\ step[c] \in {"append", "trim"} => mine[c].times \in Lists
    /\ step[c] \in {"append", "look"} => current[req[c].agent] \in Lists

RateInv == TimesShape /\ OwnershipInv /\ ContentsInv /\ ListInv /\ RateIsReal

\* What the names of the list objects are.
LEMMA ListFacts ==
  /\ NoList \notin Lists
  /\ \A l \in Lists : l[1] \in Calls
  /\ \A c \in Calls : /\ <<c, "default">> \in Lists /\ <<c, "default">>[1] = c
                      /\ <<c, "trimmed">> \in Lists /\ <<c, "trimmed">>[1] = c
BY DEF Lists, NoList

\* The actions of the times' machine.
LEMMA TimesActions ==
  ASSUME part = "times", step \in [Calls -> TimesSteps], Next
  PROVE  \/ Tick
         \/ \E c \in Calls :
              \/ Begin(c) \/ ReadClock(c) \/ GetTimes(c) \/ CountTimes(c) \/ Stamp(c)
              \/ Hold(c) \/ AppendTime(c) \/ Look(c) \/ Trim(c) \/ Store(c)
<1>1. ASSUME NEW c \in Calls
      PROVE  /\ ~ ScoreOrg(c) /\ ~ ScoreAgent(c) /\ ~ ReadLast(c) /\ ~ ScorePair(c)
             /\ ~ ScoreStreak(c)
  BY DEF ScoreOrg, ScoreAgent, ReadLast, ScorePair, ScoreStreak, Advance, TimesSteps
<1>2. ASSUME NEW c \in Calls
      PROVE  /\ ~ AddOrg(c) /\ ~ AddAgent(c) /\ ~ RecordLast(c) /\ ~ AddPair(c) /\ ~ SetLast(c)
             /\ ~ ReadStreak(c) /\ ~ WriteStreak(c) /\ ~ ResetStreak(c)
  BY DEF AddOrg, AddAgent, RecordLast, AddPair, SetLast, ReadStreak, WriteStreak, ResetStreak,
         Done, Advance, TimesSteps
<1> QED
  BY <1>1, <1>2 DEF Next, ScoreCall, RecordOutcome

\* Before the first call there is no list.
LEMMA InitRateInv == Init /\ part = "times" => RateInv
<1> SUFFICES ASSUME Init, part = "times" PROVE RateInv
  OBVIOUS
<1>1. Shape(TimesSteps) /\ \A c \in Calls : step[c] = "idle"
  BY DEF Init, Shape, TimesSteps
<1>2. mine \in [Calls -> TimesLocals] /\ \A c \in Calls : mine[c].times = NoList
  BY DEF Init, TimesLocals, Locals
<1>3. /\ current \in [Agents -> Lists \union {NoList}] /\ list \in [Lists -> SUBSET Calls]
      /\ \A a \in Agents : current[a] = NoList
      /\ \A l \in Lists : list[l] = {}
      /\ clock \in Int
  <2>1. current = [a \in Agents |-> NoList]
    BY DEF Init
  <2>2. current \in [Agents -> Lists \union {NoList}] /\ \A a \in Agents : current[a] = NoList
    BY <2>1, Zenon
  <2> QED
    BY <2>2 DEF Init
<1>4. RateIsReal
  BY <1>1 DEF RateIsReal, Scored
<1> QED
  BY <1>1, <1>2, <1>3, <1>4, ListFacts
     DEF RateInv, TimesShape, OwnershipInv, ContentsInv, ListInv

\* Calls recorded stay recorded, with their times: a burst only grows.
LEMMA BurstGrows ==
  ASSUME NEW c \in Calls, req' = req, mine'[c].scoredAt = mine[c].scoredAt,
         \A d \in Calls : step[d] \in RecordedSteps =>
           step'[d] \in RecordedSteps /\ mine'[d].stamp = mine[d].stamp,
         RATE_THRESHOLD <= Cardinality(Burst(c))
  PROVE  RATE_THRESHOLD <= Cardinality(Burst(c)')
<1>1. Burst(c) \subseteq Burst(c)' /\ Burst(c)' \subseteq Calls
  BY DEF Burst
<1>2. IsFiniteSet(Burst(c)') /\ IsFiniteSet(Burst(c))
  BY <1>1, CallsAssumption, FS_Subset
<1>3. /\ Cardinality(Burst(c)) \in Nat /\ Cardinality(Burst(c)') \in Nat
      /\ Cardinality(Burst(c)) <= Cardinality(Burst(c)')
  BY <1>1, <1>2, FS_Subset, FS_CardinalityType
<1> QED
  BY <1>3, ScorerAssumption

\* No step, of any interleaving, puts on a list what is not of its workload.
LEMMA NextRateInv ==
  ASSUME part = "times", RateInv, [Next]_vars
  PROVE  RateInv'
<1>t. /\ step \in [Calls -> TimesSteps] /\ req \in [Calls -> Requests[part]]
      /\ points \in [Calls -> Nat] /\ clock \in Int
      /\ mine \in [Calls -> TimesLocals]
      /\ current \in [Agents -> Lists \union {NoList}] /\ list \in [Lists -> SUBSET Calls]
      /\ \A d \in Calls : req[d].agent \in Agents
      /\ OwnershipInv /\ ContentsInv /\ ListInv /\ RateIsReal
  BY AgentsAreAgents DEF RateInv, TimesShape, Shape, Parts
<1>p. part' = part /\ req' = req
  <2>1. part' = part
    BY PartIsFixed
  <2>2. CASE UNCHANGED vars
    BY <2>2 DEF vars
  <2>3. CASE Tick
    BY <2>3 DEF Tick
  <2>4. ASSUME NEW c \in Calls,
               \/ Begin(c) \/ ReadClock(c) \/ GetTimes(c) \/ CountTimes(c) \/ Stamp(c)
               \/ Hold(c) \/ AppendTime(c) \/ Look(c) \/ Trim(c) \/ Store(c)
        PROVE  req' = req
    BY <2>4 DEF Begin, ReadClock, GetTimes, CountTimes, Stamp, Hold, AppendTime, Look, Trim,
                Store, Reads, fixed
  <2> QED
    BY <2>1, <2>2, <2>3, <2>4, <1>t, TimesActions
<1>e. ASSUME \A d \in Calls : step[d] \in RecordedSteps =>
               step'[d] \in RecordedSteps /\ mine'[d].stamp = mine[d].stamp,
             \A d \in Calls : d \in Scored' => mine'[d].scoredAt = mine[d].scoredAt,
             \A d \in Calls : d \in Scored' /\ points'[d] = RATE_ANOMALY =>
               \/ d \in Scored /\ points'[d] = points[d]
               \/ RATE_THRESHOLD <= Cardinality(Burst(d))
      PROVE  RateIsReal'
  <2>1. ASSUME NEW d \in Calls, d \in Scored', points'[d] = RATE_ANOMALY
        PROVE  RATE_THRESHOLD <= Cardinality(Burst(d)')
    <3>1. RATE_THRESHOLD <= Cardinality(Burst(d))
      BY <1>e, <1>t, <2>1 DEF RateIsReal, Burst, RecordedSteps
    <3> QED
      BY <3>1, <1>e, <1>p, <2>1, BurstGrows
  <2> QED
    BY <2>1 DEF RateIsReal, Scored, Burst, RecordedSteps
<1>l. ASSUME NEW c \in Calls, NEW to \in TimesSteps, step' = [step EXCEPT ![c] = to]
      PROVE  /\ step' \in [Calls -> TimesSteps] /\ step'[c] = to
             /\ \A d \in Calls : d # c => step'[d] = step[d]
  BY <1>l, <1>t
<1>1. CASE Tick
  <2>1. /\ UNCHANGED <<step, points, mine, current, list>> /\ clock' \in Int
    BY <1>1, <1>t DEF Tick, times
  <2>2. RateIsReal'
    BY <2>1, <1>e DEF Scored
  <2> QED
    BY <2>1, <2>2, <1>p, <1>t
       DEF RateInv, TimesShape, Shape, OwnershipInv, ContentsInv, ListInv
<1>2. ASSUME NEW c \in Calls, Begin(c) PROVE RateInv'
  <2>1. /\ UNCHANGED <<clock, points, mine, current, list>> /\ step[c] = "idle"
        /\ step' = [step EXCEPT ![c] = "score"]
    BY <1>2 DEF Begin, Advance, times
  <2>2. /\ step' \in [Calls -> TimesSteps] /\ step'[c] = "score"
        /\ \A d \in Calls : d # c => step'[d] = step[d]
    BY <2>1, <1>l DEF TimesSteps
  <2>3. RateIsReal'
    BY <2>1, <2>2, <1>e DEF Scored, RecordedSteps
  <2> QED
    BY <2>1, <2>2, <2>3, <1>p, <1>t
       DEF RateInv, TimesShape, Shape, OwnershipInv, ContentsInv, ListInv, RecordedSteps
<1>3. ASSUME NEW c \in Calls, ReadClock(c) PROVE RateInv'
  <2>1. /\ UNCHANGED <<clock, points, current, list>> /\ step[c] = "score"
        /\ step' = [step EXCEPT ![c] = "times"]
        /\ mine' = [mine EXCEPT ![c].scoredAt = clock]
    BY <1>3 DEF ReadClock, Advance, Reads, fixed, times
  <2>2. /\ step' \in [Calls -> TimesSteps] /\ step'[c] = "times"
        /\ \A d \in Calls : d # c => step'[d] = step[d]
    BY <2>1, <1>l DEF TimesSteps
  <2>3. /\ mine' \in [Calls -> TimesLocals]
        /\ \A d \in Calls : mine'[d].times = mine[d].times /\ mine'[d].stamp = mine[d].stamp
        /\ \A d \in Calls : d # c => mine'[d] = mine[d]
    BY <2>1, <1>t DEF TimesLocals
  <2>4. RateIsReal'
    BY <2>1, <2>2, <2>3, <1>e DEF Scored, RecordedSteps
  <2> QED
    BY <2>1, <2>2, <2>3, <2>4, <1>p, <1>t
       DEF RateInv, TimesShape, Shape, OwnershipInv, ContentsInv, ListInv, RecordedSteps
<1>4. ASSUME NEW c \in Calls, GetTimes(c) PROVE RateInv'
  <2>1. /\ UNCHANGED <<clock, points, current, list>> /\ step[c] = "times"
        /\ step' = [step EXCEPT ![c] = "count"]
        /\ mine' = [mine EXCEPT ![c].times = current[req[c].agent]]
    BY <1>4 DEF GetTimes, Advance, Reads, fixed, times
  <2>2. /\ step' \in [Calls -> TimesSteps] /\ step'[c] = "count"
        /\ \A d \in Calls : d # c => step'[d] = step[d]
    BY <2>1, <1>l DEF TimesSteps
  <2>3. /\ mine' \in [Calls -> TimesLocals] /\ mine'[c].times = current[req[c].agent]
        /\ \A d \in Calls : mine'[d].scoredAt = mine[d].scoredAt /\ mine'[d].stamp = mine[d].stamp
        /\ \A d \in Calls : d # c => mine'[d] = mine[d]
    BY <2>1, <1>t DEF TimesLocals
  <2>4. RateIsReal'
    BY <2>1, <2>2, <2>3, <1>e DEF Scored, RecordedSteps
  <2> QED
    BY <2>1, <2>2, <2>3, <2>4, <1>p, <1>t
       DEF RateInv, TimesShape, Shape, OwnershipInv, ContentsInv, ListInv, RecordedSteps
<1>5. ASSUME NEW c \in Calls, CountTimes(c) PROVE RateInv'
  <2> DEFINE recent == IF mine[c].times = NoList THEN {}
                       ELSE Recent(mine[c].times, mine[c].scoredAt)
  <2>1. /\ UNCHANGED <<clock, mine, current, list>> /\ step[c] = "count"
        /\ step' = [step EXCEPT ![c] = "scored"]
        /\ points' = [points EXCEPT ![c] = IF Cardinality(recent) >= RATE_THRESHOLD
                                           THEN RATE_ANOMALY ELSE 0]
    BY <1>5 DEF CountTimes, Advance, Score, Reads, fixed, times
  <2>2. /\ step' \in [Calls -> TimesSteps] /\ step'[c] = "scored"
        /\ \A d \in Calls : d # c => step'[d] = step[d]
    BY <2>1, <1>l DEF TimesSteps
  <2>3. recent \subseteq Burst(c)
    <3>1. CASE mine[c].times = NoList
      BY <3>1
    <3>2. CASE mine[c].times \in Lists
      <4>1. \A d \in list[mine[c].times] : /\ d \in Calls /\ step[d] \in RecordedSteps
                                          /\ req[d].agent = req[c].agent
        BY <3>2, <1>t DEF OwnershipInv, ContentsInv
      <4> QED
        BY <4>1, <3>2, ListFacts DEF Recent, Burst
    <3> QED
      BY <3>1, <3>2, <1>t DEF TimesLocals
  <2>4. Cardinality(recent) >= RATE_THRESHOLD => RATE_THRESHOLD <= Cardinality(Burst(c))
    <3>1. IsFiniteSet(Burst(c))
      BY CallsAssumption, FS_Subset DEF Burst
    <3>2. /\ Cardinality(recent) <= Cardinality(Burst(c))
          /\ Cardinality(recent) \in Nat /\ Cardinality(Burst(c)) \in Nat
      <4> HIDE DEF recent
      <4> QED
        BY <2>3, <3>1, FS_Subset, FS_CardinalityType
    <3> HIDE DEF recent
    <3> QED
      BY <3>2, ScorerAssumption
  <2>5. /\ points' \in [Calls -> Nat] /\ \A d \in Calls : d # c => points'[d] = points[d]
        /\ points'[c] = RATE_ANOMALY => Cardinality(recent) >= RATE_THRESHOLD
    <3> HIDE DEF recent
    <3> QED
      BY <2>1, <1>t DEF RATE_ANOMALY
  <2>6. RateIsReal'
    <3> HIDE DEF recent
    <3>1. \A d \in Calls : d \in Scored' /\ points'[d] = RATE_ANOMALY =>
             \/ d \in Scored /\ points'[d] = points[d]
             \/ RATE_THRESHOLD <= Cardinality(Burst(d))
      BY <2>2, <2>4, <2>5 DEF Scored
    <3> QED
      BY <3>1, <2>1, <2>2, <1>e DEF RecordedSteps
  <2> HIDE DEF recent
  <2> QED
    BY <2>1, <2>2, <2>5, <2>6, <1>p, <1>t
       DEF RateInv, TimesShape, Shape, OwnershipInv, ContentsInv, ListInv, RecordedSteps
<1>6. ASSUME NEW c \in Calls, Stamp(c) PROVE RateInv'
  <2>1. /\ UNCHANGED <<clock, points, current, list>> /\ step[c] = "scored"
        /\ step' = [step EXCEPT ![c] = "hold"]
        /\ mine' = [mine EXCEPT ![c].stamp = clock]
    BY <1>6 DEF Stamp, Advance, Reads, fixed, times
  <2>2. /\ step' \in [Calls -> TimesSteps] /\ step'[c] = "hold"
        /\ \A d \in Calls : d # c => step'[d] = step[d]
    BY <2>1, <1>l DEF TimesSteps
  <2>3. /\ mine' \in [Calls -> TimesLocals]
        /\ \A d \in Calls : mine'[d].times = mine[d].times /\ mine'[d].scoredAt = mine[d].scoredAt
        /\ \A d \in Calls : d # c => mine'[d] = mine[d]
    BY <2>1, <1>t DEF TimesLocals
  <2>4. RateIsReal'
    BY <2>1, <2>2, <2>3, <1>e DEF Scored, RecordedSteps
  <2> QED
    BY <2>1, <2>2, <2>3, <2>4, <1>p, <1>t
       DEF RateInv, TimesShape, Shape, OwnershipInv, ContentsInv, ListInv, RecordedSteps
<1>7. ASSUME NEW c \in Calls, Hold(c) PROVE RateInv'
  <2>a. PICK a \in Agents : a = req[c].agent
    BY <1>t
  <2>1. /\ UNCHANGED <<clock, points, list>> /\ step[c] = "hold"
        /\ step' = [step EXCEPT ![c] = "append"]
        /\ current' = IF current[a] = NoList THEN [current EXCEPT ![a] = <<c, "default">>]
                      ELSE current
        /\ mine' = [mine EXCEPT ![c].times = current'[a]]
    BY <1>7, <2>a DEF Hold, Advance, fixed
  <2>2. /\ step' \in [Calls -> TimesSteps] /\ step'[c] = "append"
        /\ \A d \in Calls : d # c => step'[d] = step[d]
    BY <2>1, <1>l DEF TimesSteps
  <2>3. /\ current' \in [Agents -> Lists \union {NoList}] /\ current'[a] \in Lists
        /\ req[current'[a][1]].agent = a
        /\ \A b \in Agents : b # a => current'[b] = current[b]
    <3>1. CASE current[a] = NoList
      BY <3>1, <2>1, <2>a, <1>t, ListFacts
    <3>2. CASE current[a] \in Lists
      BY <3>2, <2>1, <2>a, <1>t, ListFacts DEF OwnershipInv
    <3> QED
      BY <3>1, <3>2, <1>t
  <2>4. /\ mine' \in [Calls -> TimesLocals] /\ mine'[c].times = current'[a]
        /\ \A d \in Calls : mine'[d].stamp = mine[d].stamp /\ mine'[d].scoredAt = mine[d].scoredAt
        /\ \A d \in Calls : d # c => mine'[d] = mine[d]
    <3>1. PICK l \in Lists : l = current'[a]
      BY <2>3
    <3>2. mine' = [mine EXCEPT ![c].times = l]
      BY <2>1, <3>1
    <3> QED
      BY <3>1, <3>2, <1>t DEF TimesLocals
  <2>5. RateIsReal'
    BY <2>1, <2>2, <2>4, <1>e DEF Scored, RecordedSteps
  <2>6. OwnershipInv'
    BY <2>a, <2>3, <2>4, <1>p, <1>t DEF OwnershipInv
  <2>7. ContentsInv'
    BY <2>1, <2>2, <1>p, <1>t DEF ContentsInv, RecordedSteps
  <2>8. ListInv'
    BY <2>a, <2>1, <2>2, <2>3, <2>4, <1>p, <1>t DEF ListInv
  <2> QED
    BY <2>1, <2>2, <2>3, <2>4, <2>5, <2>6, <2>7, <2>8, <1>p, <1>t DEF RateInv, TimesShape, Shape
<1>8. ASSUME NEW c \in Calls, AppendTime(c) PROVE RateInv'
  <2>a. PICK l \in Lists : l = mine[c].times
    BY <1>8, <1>t DEF AppendTime, Advance, ListInv
  <2>1. /\ UNCHANGED <<clock, points, mine, current>> /\ step[c] = "append"
        /\ step' = [step EXCEPT ![c] = "look"]
        /\ list' = [list EXCEPT ![l] = @ \union {c}]
    BY <1>8, <2>a DEF AppendTime, Advance, fixed
  <2>2. /\ step' \in [Calls -> TimesSteps] /\ step'[c] = "look"
        /\ \A d \in Calls : d # c => step'[d] = step[d]
    BY <2>1, <1>l DEF TimesSteps
  <2>3. /\ list' \in [Lists -> SUBSET Calls] /\ list'[l] = list[l] \union {c}
        /\ \A m \in Lists : m # l => list'[m] = list[m]
    BY <2>1, <1>t
  <2>4. RateIsReal'
    BY <2>1, <2>2, <1>e DEF Scored, RecordedSteps
  <2>5. ContentsInv'
    <3>1. req[c].agent = req[l[1]].agent
      BY <2>a, <1>t DEF OwnershipInv
    <3>2. \A d \in Calls : step[d] \in RecordedSteps => step'[d] \in RecordedSteps
      BY <2>1, <2>2 DEF RecordedSteps
    <3> QED
      BY <3>1, <3>2, <2>2, <2>3, <1>p, <1>t DEF ContentsInv, RecordedSteps
  <2> QED
    BY <2>1, <2>2, <2>3, <2>4, <2>5, <1>p, <1>t
       DEF RateInv, TimesShape, Shape, OwnershipInv, ListInv
<1>9. ASSUME NEW c \in Calls, Look(c) PROVE RateInv'
  <2>1. /\ UNCHANGED <<clock, points, current, list>> /\ step[c] = "look"
        /\ step' = [step EXCEPT ![c] = "trim"]
        /\ mine' = [mine EXCEPT ![c].times = current[req[c].agent]]
    BY <1>9 DEF Look, Advance, Reads, fixed, times
  <2>2. /\ step' \in [Calls -> TimesSteps] /\ step'[c] = "trim"
        /\ \A d \in Calls : d # c => step'[d] = step[d]
    BY <2>1, <1>l DEF TimesSteps
  <2>3. /\ mine' \in [Calls -> TimesLocals] /\ mine'[c].times = current[req[c].agent]
        /\ \A d \in Calls : mine'[d].scoredAt = mine[d].scoredAt /\ mine'[d].stamp = mine[d].stamp
        /\ \A d \in Calls : d # c => mine'[d] = mine[d]
    BY <2>1, <1>t DEF TimesLocals
  <2>4. RateIsReal'
    BY <2>1, <2>2, <2>3, <1>e DEF Scored, RecordedSteps
  <2> QED
    BY <2>1, <2>2, <2>3, <2>4, <1>p, <1>t
       DEF RateInv, TimesShape, Shape, OwnershipInv, ContentsInv, ListInv, RecordedSteps
<1>10. ASSUME NEW c \in Calls, Trim(c) PROVE RateInv'
  <2>a. PICK m \in Lists : m = mine[c].times
    BY <1>10, <1>t DEF Trim, Advance, ListInv
  <2>b. PICK l \in Lists : l = <<c, "trimmed">> /\ l[1] = c
    BY ListFacts
  <2>1. /\ UNCHANGED <<clock, points, mine, current>> /\ step[c] = "trim"
        /\ step' = [step EXCEPT ![c] = "store"]
        /\ list' = [list EXCEPT ![l] = Recent(m, mine[c].stamp)]
    BY <1>10, <2>a, <2>b DEF Trim, Advance, fixed
  <2>2. /\ step' \in [Calls -> TimesSteps] /\ step'[c] = "store"
        /\ \A d \in Calls : d # c => step'[d] = step[d]
    BY <2>1, <1>l DEF TimesSteps
  <2>3. /\ list' \in [Lists -> SUBSET Calls] /\ list'[l] \subseteq list[m]
        /\ \A k \in Lists : k # l => list'[k] = list[k]
    <3>1. Recent(m, mine[c].stamp) \subseteq list[m] /\ list[m] \subseteq Calls
      BY <1>t DEF Recent
    <3> QED
      BY <3>1, <2>1, <1>t
  <2>4. RateIsReal'
    BY <2>1, <2>2, <1>e DEF Scored, RecordedSteps
  <2>5. ContentsInv'
    <3>1. req[m[1]].agent = req[l[1]].agent
      BY <2>a, <2>b, <1>t DEF OwnershipInv
    <3>2. \A d \in Calls : step[d] \in RecordedSteps => step'[d] \in RecordedSteps
      BY <2>1, <2>2 DEF RecordedSteps
    <3> QED
      BY <3>1, <3>2, <2>3, <1>p, <1>t DEF ContentsInv
  <2> QED
    BY <2>1, <2>2, <2>3, <2>4, <2>5, <1>p, <1>t
       DEF RateInv, TimesShape, Shape, OwnershipInv, ListInv
<1>11. ASSUME NEW c \in Calls, Store(c) PROVE RateInv'
  <2>a. PICK a \in Agents : a = req[c].agent
    BY <1>t
  <2>b. PICK l \in Lists : l = <<c, "trimmed">> /\ l[1] = c
    BY ListFacts
  <2>1. /\ UNCHANGED <<clock, points, mine, list>> /\ step[c] = "store"
        /\ step' = [step EXCEPT ![c] = "done"]
        /\ current' = [current EXCEPT ![a] = l]
    BY <1>11, <2>a, <2>b DEF Store, Done, Advance, fixed
  <2>2. /\ step' \in [Calls -> TimesSteps] /\ step'[c] = "done"
        /\ \A d \in Calls : d # c => step'[d] = step[d]
    BY <2>1, <1>l DEF TimesSteps
  <2>3. /\ current' \in [Agents -> Lists \union {NoList}] /\ current'[a] = l
        /\ \A b \in Agents : b # a => current'[b] = current[b]
    BY <2>1, <1>t
  <2>4. RateIsReal'
    BY <2>1, <2>2, <1>e DEF Scored, RecordedSteps
  <2>5. OwnershipInv'
    BY <2>a, <2>b, <2>1, <2>3, <1>p, <1>t DEF OwnershipInv
  <2>6. ContentsInv'
    BY <2>1, <2>2, <1>p, <1>t DEF ContentsInv, RecordedSteps
  <2>7. ListInv'
    BY <2>1, <2>2, <2>3, <1>p, <1>t DEF ListInv
  <2> QED
    BY <2>1, <2>2, <2>3, <2>4, <2>5, <2>6, <2>7, <1>p, <1>t DEF RateInv, TimesShape, Shape
<1>12. CASE UNCHANGED vars
  <2>1. UNCHANGED <<clock, step, points, mine, current, list>>
    BY <1>12 DEF vars, times
  <2>2. RateIsReal'
    BY <2>1, <1>e DEF Scored
  <2> QED
    BY <2>1, <2>2, <1>p, <1>t
       DEF RateInv, TimesShape, Shape, OwnershipInv, ContentsInv, ListInv
<1> QED
  BY <1>1, <1>2, <1>3, <1>4, <1>5, <1>6, <1>7, <1>8, <1>9, <1>10, <1>11, <1>12, <1>t,
     TimesActions

\* However calls overlap, and whichever list a lost update leaves in the
\* dictionary, nobody is scored for a burst that was not there: every time a
\* list holds is that of a recorded call of its own workload.
THEOREM RateIsRealHolds == Spec => []RateIsReal
<1> DEFINE RInv == part = "times" => RateInv
<1>1. Init => RInv
  BY InitRateInv
<1>2. RInv /\ [Next]_vars => RInv'
  BY PartIsFixed, NextRateInv
<1>3. RInv => RateIsReal
  BY DEF RateInv, RateIsReal
<1>4. Spec => []RInv
  <2> HIDE DEF RInv
  <2> QED
    BY <1>1, <1>2, PTL DEF Spec
<1> QED
  <2> HIDE DEF RInv
  <2> QED
    BY <1>3, <1>4, PTL

-----------------------------------------------------------------------------
(* Types.                                                                  *)

BigramSteps == {"idle", "score", "pair", "scored", "addPair", "setLast", "done"}

LocalsType ==
  [scoredAt : 0 .. MaxClock, stamp : 0 .. MaxClock, times : Lists \union {NoList},
   last : Tools \union {NoTool}, streak : 0 .. Cardinality(Calls)]

\* The log lists the finished calls, each once.
LogInv ==
  /\ log \in Seq(Calls)
  /\ Range(log) = {c \in Calls : step[c] = "done"} /\ IsInjective(log)

\* A call stands where its part has a statement.
StepsInv ==
  /\ part = "times" => step \in [Calls -> TimesSteps]
  /\ part = "destinations" => step \in [Calls -> DestinationSteps]
  /\ part = "bigrams" => step \in [Calls -> BigramSteps]
  /\ part = "streaks" => step \in [Calls -> StreakSteps]

\* A call that appends, or trims, has a list to do it to; and the destination
\* of a call becomes known to all before it becomes known to its workload.
ReadyInv ==
  \A c \in Calls : /\ step[c] \in {"append", "trim"} => mine[c].times \in Lists
                   /\ step[c] \in {"append", "look"} => current[req[c].agent] \in Lists
                   /\ step[c] = "addAgent" => req[c].destination \in byOrg

TypeInv ==
  /\ part \in Parts
  /\ clock \in 0 .. MaxClock
  /\ step \in [Calls -> Steps] /\ StepsInv
  /\ req \in [Calls -> Requests[part]]
  /\ mine \in [Calls -> LocalsType]
  /\ points \in [Calls -> 0 .. DENIAL_STREAK_CAP]
  /\ current \in [Agents -> Lists \union {NoList}]
  /\ list \in [Lists -> SUBSET Calls]
  /\ byAgent \subseteq Agents \X byOrg
  /\ lastTool \in [Roles -> Tools \union {NoTool}]
  /\ streak \in [Agents -> 0 .. Cardinality(Calls)]
  /\ ReadyInv /\ LogInv

\* There is a last index in any nonempty set of them.
LEMMA MaxIsLast ==
  ASSUME NEW n \in Nat, NEW S \in SUBSET (1 .. n), S # {}
  PROVE  Max(S) \in S /\ \A i \in S : i <= Max(S)
<1> DEFINE R == {p \in Nat \X Nat : p[1] < p[2]}
           T == {k \in Nat : n - k \in S}
<1>1. IsWellFoundedOn(R, Nat)
  BY NatLessThanWellFounded DEF OpToRel
<1>2. T \subseteq Nat /\ T # {}
  <2>1. PICK i \in S : TRUE
    OBVIOUS
  <2>2. n - i \in Nat /\ n - (n - i) = i
    OBVIOUS
  <2>3. n - i \in T
    BY <2>1, <2>2
  <2> QED
    BY <2>3
<1>3. PICK x \in T : \A y \in T : ~ (<<y, x>> \in R)
  <2> HIDE DEF T, R
  <2> QED
    BY <1>1, <1>2, WFMin
<1>4. x \in Nat /\ n - x \in S
  OBVIOUS
<1>5. ASSUME NEW i \in S PROVE n - x >= i
  <2>1. i \in Int /\ n - i \in Nat /\ n - (n - i) = i
    OBVIOUS
  <2>2. n - i \in T
    BY <2>1
  <2>3. ~ (n - i < x)
    BY <2>1, <2>2, <1>3
  <2> QED
    BY <2>1, <2>3, <1>4
<1>6. \E m \in S : \A i \in S : m >= i
  BY <1>4, <1>5
<1>7. Max(S) \in S /\ \A i \in S : Max(S) >= i
  BY <1>6 DEF Max
<1> QED
  BY <1>7

\* What ends a story is its last index.
LEMMA MaxIs ==
  ASSUME NEW S \in SUBSET Int, NEW m \in S, \A i \in S : i <= m
  PROVE  Max(S) = m
<1>1. \E x \in S : \A y \in S : x >= y
  OBVIOUS
<1>2. Max(S) \in S /\ \A y \in S : Max(S) >= y
  BY <1>1 DEF Max
<1>3. Max(S) \in Int /\ m \in Int /\ Max(S) >= m /\ Max(S) <= m
  BY <1>2
<1> QED
  BY <1>3

\* An extended sequence holds what it held, and the new element.
LEMMA RangeOfAppend ==
  ASSUME NEW S, NEW s \in Seq(S), NEW x \in S
  PROVE  Range(Append(s, x)) = Range(s) \union {x}
<1>1. /\ DOMAIN s = 1 .. Len(s) /\ Len(s) \in Nat
      /\ DOMAIN Append(s, x) = 1 .. Len(s) + 1
      /\ \A i \in 1 .. Len(s) : Append(s, x)[i] = s[i]
      /\ Append(s, x)[Len(s) + 1] = x
  OBVIOUS
<1>2. \A i \in 1 .. Len(s) + 1 : i \in 1 .. Len(s) \/ i = Len(s) + 1
  BY <1>1
<1>3. 1 .. Len(s) \subseteq 1 .. Len(s) + 1 /\ Len(s) + 1 \in 1 .. Len(s) + 1
  BY <1>1
<1> QED
  BY <1>1, <1>2, <1>3 DEF Range

\* A call that is done is logged, once.
LEMMA LogGrows ==
  ASSUME LogInv, step \in [Calls -> Steps], NEW c \in Calls, NEW from, from # "done", Done(c, from)
  PROVE  LogInv'
<1>1. /\ step[c] # "done" /\ step' = [step EXCEPT ![c] = "done"] /\ log' = Append(log, c)
      /\ log \in Seq(Calls)
  BY DEF LogInv, Done, Advance
<1>2. log' \in Seq(Calls) /\ Range(log') = Range(log) \union {c}
  BY <1>1, RangeOfAppend
<1>3. Range(log') = {d \in Calls : step'[d] = "done"}
  BY <1>1, <1>2 DEF LogInv
<1>4. IsInjective(log')
  <2>1. /\ DOMAIN log = 1 .. Len(log) /\ Len(log) \in Nat
        /\ DOMAIN log' = 1 .. Len(log) + 1
        /\ \A i \in 1 .. Len(log) : log'[i] = log[i]
        /\ log'[Len(log) + 1] = c
    BY <1>1
  <2>2. \A i \in 1 .. Len(log) + 1 : i \in 1 .. Len(log) \/ i = Len(log) + 1
    BY <2>1
  <2>3. \A i \in DOMAIN log : log[i] # c
    BY <1>1 DEF LogInv, Range
  <2>4. \A i, j \in DOMAIN log : log[i] = log[j] => i = j
    BY DEF LogInv, IsInjective
  <2>5. \A i, j \in 1 .. Len(log) + 1 : log'[i] = log'[j] => i = j
    BY <2>1, <2>2, <2>3, <2>4
  <2> QED
    BY <2>1, <2>5 DEF IsInjective
<1> QED
  BY <1>2, <1>3, <1>4 DEF LogInv

\* A step of a call that is not done after it leaves the log exact.
LEMMA LogKeptBy ==
  ASSUME LogInv, step \in [Calls -> Steps], NEW c \in Calls, NEW from, NEW to,
         from # "done", to # "done", Advance(c, from, to), log' = log
  PROVE  LogInv'
BY DEF LogInv, Advance

\* The last tool of a role is that of its last event, if it has one.
LEMMA LastOfIsLast ==
  ASSUME NEW S, NEW h \in Seq(S), NEW role
  PROVE  \/ OfRole(h, role) = {} /\ LastOf(h, role) = NoTool
         \/ \E i \in DOMAIN h : /\ i = Max(OfRole(h, role)) /\ h[i].role = role
                               /\ LastOf(h, role) = h[i].tool
                               /\ \A j \in OfRole(h, role) : j <= i
<1>1. DOMAIN h = 1 .. Len(h) /\ Len(h) \in Nat /\ OfRole(h, role) \in SUBSET (1 .. Len(h))
  BY DEF OfRole
<1>2. CASE OfRole(h, role) = {}
  BY <1>2 DEF LastOf
<1>3. CASE OfRole(h, role) # {}
  <2>1. /\ Max(OfRole(h, role)) \in OfRole(h, role)
        /\ \A i \in OfRole(h, role) : i <= Max(OfRole(h, role))
    BY <1>1, <1>3, MaxIsLast
  <2>2. Max(OfRole(h, role)) \in DOMAIN h /\ h[Max(OfRole(h, role))].role = role
    BY <2>1 DEF OfRole
  <2>3. LastOf(h, role) = h[Max(OfRole(h, role))].tool
    BY <1>3 DEF LastOf
  <2> QED
    BY <2>1, <2>2, <2>3
<1> QED
  BY <1>2, <1>3

\* Whose a request is, and for what.
LEMMA RequestFacts ==
  ASSUME TypeInv, NEW c \in Calls
  PROVE  req[c].agent \in Agents /\ req[c].role \in Roles /\ req[c].tool \in Tools
BY DEF TypeInv, Agents, Roles, Tools, AllRequests

\* What the process starts with, warmed up or not, is well typed.
LEMMA InitTypeInv == Init => TypeInv
<1> SUFFICES ASSUME Init PROVE TypeInv
  OBVIOUS
<1>1. step \in [Calls -> Steps] /\ StepsInv /\ \A c \in Calls : step[c] = "idle"
  BY DEF Init, Steps, StepsInv, TimesSteps, DestinationSteps, BigramSteps, StreakSteps
<1>2. Cardinality(Calls) \in Nat
  BY CallsAssumption, FS_CardinalityType
<1>3. mine \in [Calls -> LocalsType]
  BY <1>2, ScorerAssumption DEF Init, Locals, LocalsType
<1>4. points \in [Calls -> 0 .. DENIAL_STREAK_CAP] /\ clock \in 0 .. MaxClock
  BY ScorerAssumption DEF Init, DENIAL_STREAK_CAP
<1>5. current \in [Agents -> Lists \union {NoList}]
  <2>1. current = [a \in Agents |-> NoList]
    BY DEF Init
  <2> QED
    BY <2>1, Zenon
<1>6. list \in [Lists -> SUBSET Calls] /\ streak \in [Agents -> 0 .. Cardinality(Calls)]
  BY <1>2 DEF Init
<1>7. byAgent \subseteq Agents \X byOrg
  BY DEF Init, Seeded
<1>8. lastTool \in [Roles -> Tools \union {NoTool}]
  <2>1. seed \in Seq(Range(Baseline))
    <3>1. CASE seed = <<>>
      BY <3>1
    <3>2. CASE seed = Baseline
      BY <3>2, BaselineAssumption
    <3> QED
      BY <3>1, <3>2 DEF Init
  <2>2. ASSUME NEW r \in Roles PROVE LastOf(seed, r) \in Tools \union {NoTool}
    <3>1. \A i \in DOMAIN seed : seed[i] \in Range(Baseline)
      BY <2>1
    <3>2. \A i \in DOMAIN seed : seed[i].tool \in Tools
      BY <3>1 DEF Tools
    <3>3. \/ LastOf(seed, r) = NoTool
          \/ \E i \in DOMAIN seed : LastOf(seed, r) = seed[i].tool
      BY <2>1, LastOfIsLast
    <3> QED
      BY <3>2, <3>3
  <2>3. lastTool = [r \in Roles |-> LastOf(seed, r)]
    BY DEF Init, Seeded
  <2> QED
    BY <2>2, <2>3
<1>9. ReadyInv
  BY <1>1 DEF ReadyInv
<1>10. LogInv
  BY <1>1 DEF Init, LogInv, Range, IsInjective
<1>11. part \in Parts /\ req \in [Calls -> Requests[part]]
  BY DEF Init
<1> QED
  BY <1>1, <1>3, <1>4, <1>5, <1>6, <1>7, <1>8, <1>9, <1>10, <1>11 DEF TypeInv

\* A step of one call that neither finishes it nor touches the shared state.
LEMMA ReadKeepsType ==
  ASSUME TypeInv, NEW c \in Calls, NEW from \in Steps \ {"done"}, NEW to \in Steps \ {"done"},
         Advance(c, from, to), StepsInv',
         UNCHANGED <<fixed, times, destinations, chain, streak, log>>,
         to \in {"append", "trim"} => mine'[c].times \in Lists,
         to \in {"append", "look"} => current[req[c].agent] \in Lists,
         to # "addAgent",
         mine' \in [Calls -> LocalsType], \A d \in Calls : d # c => mine'[d] = mine[d],
         points' \in [Calls -> 0 .. DENIAL_STREAK_CAP]
  PROVE  TypeInv'
<1>1. /\ UNCHANGED <<part, clock, req, current, list, byOrg, byAgent, lastTool, streak, log>>
      /\ step' = [step EXCEPT ![c] = to] /\ step \in [Calls -> Steps]
  BY DEF fixed, times, destinations, chain, Advance, TypeInv
<1>2. step' \in [Calls -> Steps] /\ step'[c] = to /\ \A d \in Calls : d # c => step'[d] = step[d]
  BY <1>1
<1>3. LogInv'
  BY <1>1, LogKeptBy DEF TypeInv
<1>4. ReadyInv'
  BY <1>1, <1>2 DEF TypeInv, ReadyInv
<1> QED
  BY <1>1, <1>2, <1>3, <1>4 DEF TypeInv

\* While bigrams are followed, only these actions can be taken.
LEMMA BigramActions ==
  ASSUME part = "bigrams", step \in [Calls -> BigramSteps], Next
  PROVE  \E c \in Calls : Begin(c) \/ ReadLast(c) \/ ScorePair(c) \/ RecordLast(c) \/ AddPair(c)
                         \/ SetLast(c)
<1>1. ~ Tick
  BY DEF Tick
<1>2. ASSUME NEW c \in Calls
      PROVE  /\ ~ ScoreOrg(c) /\ ~ ScoreAgent(c) /\ ~ ReadClock(c) /\ ~ GetTimes(c)
             /\ ~ CountTimes(c) /\ ~ ScoreStreak(c)
  BY DEF ScoreOrg, ScoreAgent, ReadClock, GetTimes, CountTimes, ScoreStreak, Advance, BigramSteps
<1>3. ASSUME NEW c \in Calls
      PROVE  /\ ~ Stamp(c) /\ ~ Hold(c) /\ ~ AppendTime(c) /\ ~ Look(c) /\ ~ Trim(c)
             /\ ~ Store(c) /\ ~ AddOrg(c) /\ ~ AddAgent(c)
             /\ ~ ReadStreak(c) /\ ~ WriteStreak(c) /\ ~ ResetStreak(c)
  BY DEF Stamp, Hold, AppendTime, Look, Trim, Store, AddOrg, AddAgent, ReadStreak, WriteStreak,
         ResetStreak, Done, Advance, BigramSteps
<1> QED
  BY <1>1, <1>2, <1>3 DEF Next, ScoreCall, RecordOutcome

\* A step of one call goes to a statement of its part.
LEMMA StepsKept ==
  ASSUME StepsInv, part' = part, NEW c \in Calls, NEW to, step' = [step EXCEPT ![c] = to],
         part = "times" => to \in TimesSteps,
         part = "destinations" => to \in DestinationSteps,
         part = "bigrams" => to \in BigramSteps,
         part = "streaks" => to \in StreakSteps
  PROVE  StepsInv'
BY DEF StepsInv

\* Each part keeps the types: the bigrams,
LEMMA BigramsKeepType ==
  ASSUME part = "bigrams", TypeInv, [Next]_vars
  PROVE  TypeInv'
<1>t. /\ step \in [Calls -> BigramSteps] /\ mine \in [Calls -> LocalsType] /\ StepsInv
      /\ points \in [Calls -> 0 .. DENIAL_STREAK_CAP]
      /\ lastTool \in [Roles -> Tools \union {NoTool}] /\ LogInv
      /\ \A d \in Calls : req[d].role \in Roles /\ req[d].tool \in Tools
  BY RequestFacts DEF TypeInv, StepsInv
<1>p. part' = part
  BY PartIsFixed
<1>1. ASSUME NEW c \in Calls, Begin(c) PROVE TypeInv'
  <2>1. /\ UNCHANGED <<clock, req, mine, points, times, destinations, chain, streak, log>>
        /\ Advance(c, "idle", "score")
    BY <1>1 DEF Begin
  <2>2. StepsInv'
    BY <2>1, <1>t, <1>p, StepsKept DEF Advance, BigramSteps
  <2>3. LogInv'
    BY <2>1, LogKeptBy DEF TypeInv
  <2> QED
    BY <2>1, <2>2, <2>3, <1>p DEF TypeInv, ReadyInv, Advance, Steps, times, destinations, chain
<1>2. ASSUME NEW c \in Calls, ReadLast(c) PROVE TypeInv'
  <2> DEFINE to == IF lastTool[req[c].role] = NoTool THEN "scored" ELSE "pair"
  <2>1. /\ UNCHANGED <<fixed, times, destinations, chain, streak, log, points>>
        /\ Advance(c, "score", to) /\ mine' = [mine EXCEPT ![c].last = lastTool[req[c].role]]
    BY <1>2 DEF ReadLast, Reads
  <2>2. to \in {"scored", "pair"}
    OBVIOUS
  <2> HIDE DEF to
  <2>3. StepsInv'
    BY <2>1, <2>2, <1>t, <1>p, StepsKept DEF Advance, BigramSteps
  <2>4. /\ mine' \in [Calls -> LocalsType] /\ \A d \in Calls : d # c => mine'[d] = mine[d]
    BY <2>1, <1>t DEF LocalsType
  <2> QED
    BY <2>1, <2>2, <2>3, <2>4, <1>t, ReadKeepsType DEF Steps
<1>3. ASSUME NEW c \in Calls, ScorePair(c) PROVE TypeInv'
  <2>1. /\ UNCHANGED <<fixed, times, destinations, chain, streak, log, mine>>
        /\ Advance(c, "pair", "scored")
    BY <1>3 DEF ScorePair, Reads
  <2> DEFINE n == IF <<req[c].role, mine[c].last, req[c].tool>> \in bigrams THEN 0
                  ELSE UNSEEN_BIGRAM
  <2>2. n \in 0 .. DENIAL_STREAK_CAP /\ points' = [points EXCEPT ![c] = n]
    BY <1>3 DEF ScorePair, Score, UNSEEN_BIGRAM, DENIAL_STREAK_CAP
  <2> HIDE DEF n
  <2>3. StepsInv'
    BY <2>1, <1>t, <1>p, StepsKept DEF Advance, BigramSteps
  <2>4. points' \in [Calls -> 0 .. DENIAL_STREAK_CAP]
    BY <2>2, <1>t
  <2> QED
    BY <2>1, <2>3, <2>4, <1>t, ReadKeepsType DEF Steps
<1>4. ASSUME NEW c \in Calls, RecordLast(c) PROVE TypeInv'
  <2> DEFINE to == IF lastTool[req[c].role] = NoTool THEN "setLast" ELSE "addPair"
  <2>1. /\ UNCHANGED <<fixed, times, destinations, chain, streak, log, points>>
        /\ Advance(c, "scored", to) /\ mine' = [mine EXCEPT ![c].last = lastTool[req[c].role]]
    BY <1>4 DEF RecordLast, Reads
  <2>2. to \in {"setLast", "addPair"}
    OBVIOUS
  <2> HIDE DEF to
  <2>3. StepsInv'
    BY <2>1, <2>2, <1>t, <1>p, StepsKept DEF Advance, BigramSteps
  <2>4. /\ mine' \in [Calls -> LocalsType] /\ \A d \in Calls : d # c => mine'[d] = mine[d]
    BY <2>1, <1>t DEF LocalsType
  <2> QED
    BY <2>1, <2>2, <2>3, <2>4, <1>t, ReadKeepsType DEF Steps
<1>5. ASSUME NEW c \in Calls, AddPair(c) PROVE TypeInv'
  <2>1. /\ UNCHANGED <<fixed, mine, points, times, destinations, lastTool, streak, log>>
        /\ Advance(c, "addPair", "setLast")
    BY <1>5 DEF AddPair
  <2>2. StepsInv'
    BY <2>1, <1>t, <1>p, StepsKept DEF Advance, BigramSteps
  <2>3. LogInv'
    BY <2>1, LogKeptBy DEF TypeInv
  <2> QED
    BY <2>1, <2>2, <2>3, <1>p DEF TypeInv, ReadyInv, Advance, Steps, fixed, times, destinations
<1>6. ASSUME NEW c \in Calls, SetLast(c) PROVE TypeInv'
  <2>1. /\ UNCHANGED <<fixed, mine, points, times, destinations, bigrams, streak>>
        /\ Done(c, "setLast") /\ lastTool' = [lastTool EXCEPT ![req[c].role] = req[c].tool]
    BY <1>6 DEF SetLast
  <2>2. StepsInv'
    BY <2>1, <1>t, <1>p, StepsKept DEF Done, Advance, BigramSteps
  <2>3. LogInv'
    BY <2>1, LogGrows DEF TypeInv
  <2>4. lastTool' \in [Roles -> Tools \union {NoTool}]
    BY <2>1, <1>t
  <2> QED
    BY <2>1, <2>2, <2>3, <2>4, <1>p
       DEF TypeInv, ReadyInv, Done, Advance, Steps, fixed, times, destinations
<1>7. CASE UNCHANGED vars
  BY <1>7 DEF vars, times, destinations, chain, history, TypeInv, ReadyInv, StepsInv, LogInv
<1> QED
  BY <1>t, <1>1, <1>2, <1>3, <1>4, <1>5, <1>6, <1>7, BigramActions

\* the destinations,
LEMMA DestinationsKeepType ==
  ASSUME part = "destinations", TypeInv, [Next]_vars
  PROVE  TypeInv'
<1>t. /\ step \in [Calls -> DestinationSteps] /\ StepsInv /\ mine \in [Calls -> LocalsType]
      /\ points \in [Calls -> 0 .. DENIAL_STREAK_CAP]
      /\ byAgent \subseteq Agents \X byOrg
      /\ \A d \in Calls : req[d].agent \in Agents
  BY RequestFacts DEF TypeInv, StepsInv
<1>p. part' = part
  BY PartIsFixed
<1>1. ASSUME NEW c \in Calls, Begin(c) PROVE TypeInv'
  <2>1. /\ UNCHANGED <<clock, req, mine, points, times, destinations, chain, streak, log>>
        /\ Advance(c, "idle", "score")
    BY <1>1 DEF Begin
  <2>2. StepsInv'
    BY <2>1, <1>t, <1>p, StepsKept DEF Advance, DestinationSteps
  <2>3. LogInv'
    BY <2>1, LogKeptBy DEF TypeInv
  <2> QED
    BY <2>1, <2>2, <2>3, <1>p DEF TypeInv, ReadyInv, Advance, Steps, times, destinations, chain
<1>2. ASSUME NEW c \in Calls, ScoreOrg(c) PROVE TypeInv'
  <2> DEFINE n == IF req[c].destination \in byOrg THEN points[c]
                  ELSE IF req[c].destination = NoDestination THEN 0 ELSE DEST_UNKNOWN_TO_ORG
  <2>1. UNCHANGED <<fixed, times, destinations, chain, streak, log, mine>>
    BY <1>2 DEF ScoreOrg, Reads
  <2>2. PICK to \in {"agent", "scored"} : Advance(c, "score", to)
    BY <1>2 DEF ScoreOrg
  <2>3. n \in 0 .. DENIAL_STREAK_CAP /\ points' = [points EXCEPT ![c] = n]
    BY <1>2, <1>t DEF ScoreOrg, Score, DEST_UNKNOWN_TO_ORG, DENIAL_STREAK_CAP
  <2> HIDE DEF n
  <2>4. StepsInv'
    BY <2>2, <1>t, <1>p, StepsKept DEF Advance, DestinationSteps
  <2>5. points' \in [Calls -> 0 .. DENIAL_STREAK_CAP]
    BY <2>3, <1>t
  <2> QED
    BY <2>1, <2>2, <2>4, <2>5, <1>t, ReadKeepsType DEF Steps
<1>3. ASSUME NEW c \in Calls, ScoreAgent(c) PROVE TypeInv'
  <2> DEFINE n == IF <<req[c].agent, req[c].destination>> \in byAgent THEN 0
                  ELSE DEST_NEVER_SEEN_BY_AGENT
  <2>1. /\ UNCHANGED <<fixed, times, destinations, chain, streak, log, mine>>
        /\ Advance(c, "agent", "scored")
    BY <1>3 DEF ScoreAgent, Reads
  <2>2. n \in 0 .. DENIAL_STREAK_CAP /\ points' = [points EXCEPT ![c] = n]
    BY <1>3 DEF ScoreAgent, Score, DEST_NEVER_SEEN_BY_AGENT, DENIAL_STREAK_CAP
  <2> HIDE DEF n
  <2>3. StepsInv'
    BY <2>1, <1>t, <1>p, StepsKept DEF Advance, DestinationSteps
  <2>4. points' \in [Calls -> 0 .. DENIAL_STREAK_CAP]
    BY <2>2, <1>t
  <2> QED
    BY <2>1, <2>3, <2>4, <1>t, ReadKeepsType DEF Steps
<1>4. ASSUME NEW c \in Calls, AddOrg(c) PROVE TypeInv'
  <2>1. UNCHANGED <<fixed, mine, points, times, byAgent, chain, streak>>
    BY <1>4 DEF AddOrg
  <2>2. CASE Done(c, "scored") /\ UNCHANGED byOrg
    <3>1. StepsInv' /\ LogInv'
      BY <2>2, <1>t, <1>p, StepsKept, LogGrows DEF Done, Advance, DestinationSteps, TypeInv
    <3> QED
      BY <2>1, <2>2, <3>1, <1>p DEF TypeInv, ReadyInv, Done, Advance, Steps, fixed, times, chain
  <2>3. CASE /\ Advance(c, "scored", "addAgent") /\ UNCHANGED log
             /\ byOrg' = byOrg \union {req[c].destination}
    <3>1. StepsInv' /\ LogInv'
      BY <2>3, <1>t, <1>p, StepsKept, LogKeptBy DEF Advance, DestinationSteps, TypeInv
    <3>2. byAgent' \subseteq Agents \X byOrg'
      BY <2>1, <2>3, <1>t
    <3> QED
      BY <2>1, <2>3, <3>1, <3>2, <1>p DEF TypeInv, ReadyInv, Advance, Steps, fixed, times, chain
  <2> QED
    BY <1>4, <2>2, <2>3 DEF AddOrg
<1>5. ASSUME NEW c \in Calls, AddAgent(c) PROVE TypeInv'
  <2>1. /\ UNCHANGED <<fixed, mine, points, times, byOrg, chain, streak>>
        /\ Done(c, "addAgent")
        /\ byAgent' = byAgent \union {<<req[c].agent, req[c].destination>>}
    BY <1>5 DEF AddAgent
  <2>2. StepsInv' /\ LogInv'
    BY <2>1, <1>t, <1>p, StepsKept, LogGrows DEF Done, Advance, DestinationSteps, TypeInv
  <2>3. req[c].destination \in byOrg
    BY <2>1 DEF TypeInv, ReadyInv, Done, Advance
  <2>4. byAgent' \subseteq Agents \X byOrg'
    BY <2>1, <2>3, <1>t
  <2> QED
    BY <2>1, <2>2, <2>4, <1>p DEF TypeInv, ReadyInv, Done, Advance, Steps, fixed, times, chain
<1>6. CASE UNCHANGED vars
  BY <1>6 DEF vars, times, destinations, chain, history, TypeInv, ReadyInv, StepsInv, LogInv
<1> QED
  BY <1>t, <1>1, <1>2, <1>3, <1>4, <1>5, <1>6, DestinationActions

\* the streaks, which the denials bound,
LEMMA StreaksKeepType ==
  ASSUME part = "streaks", TypeInv, StreakInv, StreakInv', [Next]_vars
  PROVE  TypeInv'
<1>t. /\ step \in [Calls -> StreakSteps] /\ StepsInv /\ mine \in [Calls -> LocalsType]
      /\ points \in [Calls -> 0 .. DENIAL_STREAK_CAP]
      /\ streak \in [Agents -> 0 .. Cardinality(Calls)]
      /\ \A d \in Calls : req[d].agent \in Agents
      /\ Cardinality(Calls) \in Nat
  BY RequestFacts, CallsAssumption, FS_CardinalityType DEF TypeInv, StepsInv
<1>p. part' = part
  BY PartIsFixed
<1>s. streak' \in [Agents -> 0 .. Cardinality(Calls)]
  <2>1. streak' \in [Agents -> Nat] /\ \A a \in Agents : streak'[a] <= Cardinality(Denials(a)')
    BY DEF StreakInv, Denials
  <2>2. ASSUME NEW a \in Agents
        PROVE  /\ Cardinality(Denials(a)') \in Nat
               /\ Cardinality(Denials(a)') <= Cardinality(Calls)
    <3>1. Denials(a)' \subseteq Calls
      BY DEF Denials
    <3> QED
      BY <3>1, CallsAssumption, FS_Subset, FS_CardinalityType
  <2>3. ASSUME NEW a \in Agents PROVE streak'[a] \in 0 .. Cardinality(Calls)
    BY <2>1, <2>2, <1>t
  <2> QED
    BY <2>1, <2>3
<1>1. ASSUME NEW c \in Calls, Begin(c) PROVE TypeInv'
  <2>1. /\ UNCHANGED <<clock, req, mine, points, times, destinations, chain, streak, log>>
        /\ Advance(c, "idle", "score")
    BY <1>1 DEF Begin
  <2>2. StepsInv'
    BY <2>1, <1>t, <1>p, StepsKept DEF Advance, StreakSteps
  <2>3. LogInv'
    BY <2>1, LogKeptBy DEF TypeInv
  <2> QED
    BY <2>1, <2>2, <2>3, <1>p DEF TypeInv, ReadyInv, Advance, Steps, times, destinations, chain
<1>2. ASSUME NEW c \in Calls, ScoreStreak(c) PROVE TypeInv'
  <2>1. /\ UNCHANGED <<fixed, times, destinations, chain, streak, log, mine>>
        /\ Advance(c, "score", "scored")
        /\ points' = [points EXCEPT ![c] = StreakPoints(streak[req[c].agent])]
    BY <1>2 DEF ScoreStreak, Score, Reads
  <2>2. streak[req[c].agent] \in Nat
    BY <1>t
  <2>3. StreakPoints(streak[req[c].agent]) \in 0 .. DENIAL_STREAK_CAP
    BY <2>2 DEF StreakPoints, AtMost, DENIAL_STREAK_PER_HIT, DENIAL_STREAK_CAP
  <2>4. StepsInv'
    BY <2>1, <1>t, <1>p, StepsKept DEF Advance, StreakSteps
  <2>5. points' \in [Calls -> 0 .. DENIAL_STREAK_CAP]
    BY <2>1, <2>3, <1>t
  <2> QED
    BY <2>1, <2>4, <2>5, <1>t, ReadKeepsType DEF Steps
<1>3. ASSUME NEW c \in Calls, ReadStreak(c) PROVE TypeInv'
  <2>1. /\ UNCHANGED <<fixed, times, destinations, chain, streak, log, points>>
        /\ Advance(c, "scored", "write")
        /\ mine' = [mine EXCEPT ![c].streak = streak[req[c].agent]]
    BY <1>3 DEF ReadStreak, Reads
  <2>2. StepsInv'
    BY <2>1, <1>t, <1>p, StepsKept DEF Advance, StreakSteps
  <2>3. /\ mine' \in [Calls -> LocalsType] /\ \A d \in Calls : d # c => mine'[d] = mine[d]
    BY <2>1, <1>t DEF LocalsType
  <2> QED
    BY <2>1, <2>2, <2>3, <1>t, ReadKeepsType DEF Steps
<1>4. ASSUME NEW c \in Calls, WriteStreak(c) \/ ResetStreak(c) PROVE TypeInv'
  <2>1. /\ UNCHANGED <<fixed, mine, points, times, destinations, chain>>
        /\ Done(c, "write") \/ Done(c, "scored")
    BY <1>4 DEF WriteStreak, ResetStreak
  <2>2. StepsInv' /\ LogInv'
    BY <2>1, <1>t, <1>p, StepsKept, LogGrows DEF Done, Advance, StreakSteps, TypeInv
  <2> QED
    BY <2>1, <2>2, <1>p, <1>s
       DEF TypeInv, ReadyInv, Done, Advance, Steps, fixed, times, destinations, chain
<1>5. CASE UNCHANGED vars
  BY <1>5 DEF vars, times, destinations, chain, history, TypeInv, ReadyInv, StepsInv, LogInv
<1> QED
  BY <1>t, <1>1, <1>2, <1>3, <1>4, <1>5, StreakActions

\* and the call times.
LEMMA TimesKeepType ==
  ASSUME part = "times", TypeInv, [Next]_vars
  PROVE  TypeInv'
<1>t. /\ step \in [Calls -> TimesSteps] /\ StepsInv /\ mine \in [Calls -> LocalsType]
      /\ clock \in 0 .. MaxClock
      /\ points \in [Calls -> 0 .. DENIAL_STREAK_CAP]
      /\ current \in [Agents -> Lists \union {NoList}] /\ list \in [Lists -> SUBSET Calls]
      /\ ReadyInv
      /\ \A d \in Calls : req[d].agent \in Agents
  BY RequestFacts DEF TypeInv, StepsInv
<1>p. part' = part
  BY PartIsFixed
\* A step that moves one call, from a step to another of these.
<1>a. ASSUME NEW c \in Calls, NEW from \in TimesSteps, NEW to \in TimesSteps, Advance(c, from, to)
      PROVE  /\ step' \in [Calls -> Steps] /\ StepsInv' /\ step[c] = from /\ step'[c] = to
             /\ \A d \in Calls : d # c => step'[d] = step[d]
  <2>1. step' = [step EXCEPT ![c] = to] /\ step[c] = from
    BY <1>a DEF Advance
  <2>2. StepsInv'
    BY <2>1, <1>t, <1>p, StepsKept
  <2> QED
    BY <2>1, <2>2, <1>t DEF TimesSteps, Steps
<1> USE DEF TimesSteps
<1>1. CASE Tick
  <2>1. clock' \in 0 .. MaxClock
    BY <1>1, <1>t, ScorerAssumption DEF Tick
  <2> QED
    BY <1>1, <2>1 DEF Tick, times, destinations, chain, history, TypeInv, ReadyInv, StepsInv, LogInv
<1>2. ASSUME NEW c \in Calls, Begin(c) PROVE TypeInv'
  <2>1. /\ UNCHANGED <<clock, req, mine, points, times, destinations, chain, streak, log>>
        /\ Advance(c, "idle", "score")
    BY <1>2 DEF Begin
  <2>2. LogInv'
    BY <2>1, LogKeptBy DEF TypeInv
  <2> QED
    BY <2>1, <2>2, <1>a, <1>p DEF TypeInv, ReadyInv, times, destinations, chain
<1>3. ASSUME NEW c \in Calls, ReadClock(c) PROVE TypeInv'
  <2>1. /\ UNCHANGED <<fixed, times, destinations, chain, streak, log, points>>
        /\ Advance(c, "score", "times") /\ mine' = [mine EXCEPT ![c].scoredAt = clock]
    BY <1>3 DEF ReadClock, Reads
  <2>2. /\ mine' \in [Calls -> LocalsType] /\ \A d \in Calls : d # c => mine'[d] = mine[d]
    BY <2>1, <1>t DEF LocalsType
  <2> QED
    BY <2>1, <2>2, <1>a, <1>t, ReadKeepsType DEF Steps
<1>4. ASSUME NEW c \in Calls, GetTimes(c) PROVE TypeInv'
  <2>1. /\ UNCHANGED <<fixed, times, destinations, chain, streak, log, points>>
        /\ Advance(c, "times", "count")
        /\ mine' = [mine EXCEPT ![c].times = current[req[c].agent]]
    BY <1>4 DEF GetTimes, Reads
  <2>2. /\ mine' \in [Calls -> LocalsType] /\ \A d \in Calls : d # c => mine'[d] = mine[d]
    BY <2>1, <1>t DEF LocalsType
  <2> QED
    BY <2>1, <2>2, <1>a, <1>t, ReadKeepsType DEF Steps
<1>5. ASSUME NEW c \in Calls, CountTimes(c) PROVE TypeInv'
  <2>1. /\ UNCHANGED <<fixed, times, destinations, chain, streak, log, mine>>
        /\ Advance(c, "count", "scored")
    BY <1>5 DEF CountTimes, Reads
  <2>2. PICK n \in 0 .. DENIAL_STREAK_CAP : points' = [points EXCEPT ![c] = n]
    <3>1. \/ points' = [points EXCEPT ![c] = RATE_ANOMALY] \/ points' = [points EXCEPT ![c] = 0]
      BY <1>5 DEF CountTimes, Score
    <3> QED
      BY <3>1 DEF RATE_ANOMALY, DENIAL_STREAK_CAP
  <2>3. points' \in [Calls -> 0 .. DENIAL_STREAK_CAP]
    BY <2>2, <1>t
  <2> QED
    BY <2>1, <2>3, <1>a, <1>t, ReadKeepsType DEF Steps
<1>6. ASSUME NEW c \in Calls, Stamp(c) PROVE TypeInv'
  <2>1. /\ UNCHANGED <<fixed, times, destinations, chain, streak, log, points>>
        /\ Advance(c, "scored", "hold") /\ mine' = [mine EXCEPT ![c].stamp = clock]
    BY <1>6 DEF Stamp, Reads
  <2>2. /\ mine' \in [Calls -> LocalsType] /\ \A d \in Calls : d # c => mine'[d] = mine[d]
    BY <2>1, <1>t DEF LocalsType
  <2> QED
    BY <2>1, <2>2, <1>a, <1>t, ReadKeepsType DEF Steps
<1>7. ASSUME NEW c \in Calls, Hold(c) PROVE TypeInv'
  <2>a. PICK a \in Agents : a = req[c].agent
    BY <1>t
  <2>1. /\ UNCHANGED <<fixed, points, list, destinations, chain, streak, log>>
        /\ Advance(c, "hold", "append") /\ mine' = [mine EXCEPT ![c].times = current'[a]]
        /\ current' = IF current[a] = NoList THEN [current EXCEPT ![a] = <<c, "default">>]
                      ELSE current
    BY <1>7, <2>a DEF Hold
  <2>2. PICK l \in Lists : current' = [current EXCEPT ![a] = l]
    <3>1. CASE current[a] = NoList
      BY <3>1, <2>1, ListFacts
    <3>2. CASE current[a] \in Lists
      BY <3>2, <2>1, <1>t, ListFacts
    <3> QED
      BY <3>1, <3>2, <1>t
  <2>3. /\ current' \in [Agents -> Lists \union {NoList}] /\ current'[a] = l
        /\ \A b \in Agents : b # a => current'[b] = current[b]
    BY <2>2, <1>t
  <2>4. mine' = [mine EXCEPT ![c].times = l]
    BY <2>1, <2>3
  <2>5. /\ mine' \in [Calls -> LocalsType] /\ mine'[c].times = l
        /\ \A d \in Calls : d # c => mine'[d] = mine[d]
    BY <2>4, <1>t DEF LocalsType
  <2>6. LogInv'
    BY <2>1, LogKeptBy DEF TypeInv
  <2>7. ReadyInv'
    BY <2>1, <2>3, <2>5, <2>a, <1>a, <1>t DEF ReadyInv, fixed, destinations
  <2> QED
    BY <2>1, <2>3, <2>5, <2>6, <2>7, <1>a, <1>p DEF TypeInv, fixed, destinations, chain
<1>8. ASSUME NEW c \in Calls, AppendTime(c) PROVE TypeInv'
  <2>1. /\ UNCHANGED <<fixed, mine, points, current, destinations, chain, streak, log>>
        /\ Advance(c, "append", "look")
        /\ list' = [list EXCEPT ![mine[c].times] = @ \union {c}]
    BY <1>8 DEF AppendTime
  <2>2. mine[c].times \in Lists
    BY <2>1, <1>t DEF ReadyInv, Advance
  <2>3. list' \in [Lists -> SUBSET Calls]
    BY <2>1, <2>2, <1>t
  <2>4. LogInv'
    BY <2>1, LogKeptBy DEF TypeInv
  <2>5. ReadyInv'
    BY <2>1, <1>a, <1>t DEF ReadyInv, fixed, destinations
  <2> QED
    BY <2>1, <2>3, <2>4, <2>5, <1>a, <1>p DEF TypeInv, fixed, destinations, chain
<1>9. ASSUME NEW c \in Calls, Look(c) PROVE TypeInv'
  <2>1. /\ UNCHANGED <<fixed, times, destinations, chain, streak, log, points>>
        /\ Advance(c, "look", "trim")
        /\ mine' = [mine EXCEPT ![c].times = current[req[c].agent]]
    BY <1>9 DEF Look, Reads
  <2>2. /\ mine' \in [Calls -> LocalsType] /\ \A d \in Calls : d # c => mine'[d] = mine[d]
        /\ mine'[c].times \in Lists
    BY <2>1, <1>t DEF LocalsType, ReadyInv, Advance
  <2> QED
    BY <2>1, <2>2, <1>a, <1>t, ReadKeepsType DEF Steps
<1>10. ASSUME NEW c \in Calls, Trim(c) PROVE TypeInv'
  <2>1. /\ UNCHANGED <<fixed, mine, points, current, destinations, chain, streak, log>>
        /\ Advance(c, "trim", "store")
        /\ list' = [list EXCEPT ![<<c, "trimmed">>] = Recent(mine[c].times, mine[c].stamp)]
    BY <1>10 DEF Trim
  <2>2. mine[c].times \in Lists /\ <<c, "trimmed">> \in Lists
    BY <2>1, <1>t, ListFacts DEF ReadyInv, Advance
  <2>3. Recent(mine[c].times, mine[c].stamp) \subseteq Calls
    BY <2>2, <1>t DEF Recent
  <2>4. list' \in [Lists -> SUBSET Calls]
    BY <2>1, <2>2, <2>3, <1>t
  <2>5. LogInv'
    BY <2>1, LogKeptBy DEF TypeInv
  <2>6. ReadyInv'
    BY <2>1, <1>a, <1>t DEF ReadyInv, fixed, destinations
  <2> QED
    BY <2>1, <2>4, <2>5, <2>6, <1>a, <1>p DEF TypeInv, fixed, destinations, chain
<1>11. ASSUME NEW c \in Calls, Store(c) PROVE TypeInv'
  <2>1. /\ UNCHANGED <<fixed, mine, points, list, destinations, chain, streak>>
        /\ Done(c, "store")
        /\ current' = [current EXCEPT ![req[c].agent] = <<c, "trimmed">>]
    BY <1>11 DEF Store
  <2>2. /\ current' \in [Agents -> Lists \union {NoList}]
        /\ \A b \in Agents : current[b] \in Lists => current'[b] \in Lists
    BY <2>1, <1>t, ListFacts
  <2>3. LogInv'
    BY <2>1, LogGrows DEF TypeInv
  <2>4. ReadyInv'
    BY <2>1, <2>2, <1>a, <1>t DEF ReadyInv, Done, fixed, destinations
  <2> QED
    BY <2>1, <2>2, <2>3, <2>4, <1>a, <1>p DEF TypeInv, Done, fixed, destinations, chain
<1>12. CASE UNCHANGED vars
  BY <1>12 DEF vars, times, destinations, chain, history, TypeInv, ReadyInv, StepsInv, LogInv
<1> QED
  BY <1>t, <1>1, <1>2, <1>3, <1>4, <1>5, <1>6, <1>7, <1>8, <1>9, <1>10, <1>11, <1>12, TimesActions

\* So does the machine, whichever part it follows.
LEMMA NextTypeInv ==
  ASSUME TypeInv, part = "streaks" => StreakInv, [Next]_vars
  PROVE  TypeInv'
<1>1. part \in {"times", "destinations", "bigrams", "streaks"}
  BY DEF TypeInv, Parts
<1>2. part = "streaks" => StreakInv /\ StreakInv'
  BY PartIsFixed, NextStreakInv
<1> QED
  BY <1>1, <1>2, TimesKeepType, DestinationsKeepType, BigramsKeepType, StreaksKeepType

\* Every variable keeps its type, whichever part of the state is followed: a
\* trimmed list holds calls, a streak is at most the number of calls, and what
\* the log lists is what is done, each call once.
THEOREM ScorerTypeCorrect == Spec => []TypeOK
<1> DEFINE SInv == part = "streaks" => StreakInv
<1>1. Init => TypeInv /\ SInv
  BY InitTypeInv, InitStreakInv
<1>2. TypeInv /\ SInv /\ [Next]_vars => TypeInv' /\ SInv'
  BY PartIsFixed, NextStreakInv, NextTypeInv
<1>3. TypeInv => TypeOK
  BY ListFacts DEF TypeInv, TypeOK, ReadyInv, LogInv, LocalsType
<1>4. Spec => []TypeInv
  <2> HIDE DEF SInv
  <2> QED
    BY <1>1, <1>2, PTL DEF Spec
<1> QED
  BY <1>3, <1>4, PTL

-----------------------------------------------------------------------------
(* One call at a time, every behavioural factor is exact.                  *)

\* One call runs; it found the calls that are finished, and no other has
\* finished since.
OneRuns  == \A c, d \in Running : c = d
FoundInv ==
  /\ seed \in {<<>>, Baseline}
  /\ before \in [Calls -> Seq(Calls)]
  /\ \A c \in Running : before[c] = log
  /\ \A c \in Calls : Range(before[c]) \subseteq Range(log)
ScoreInv == \A c \in Scored : points[c] = Expected(c)

At(s) == {c \in Calls : step[c] = s}

\* The destinations are those of the story so far, and that of a call which is
\* between its two writes.
DestinationsAlone ==
  LET told == Range(Story(log))
  IN
  /\ At("addAgent") = {} => byOrg = Destinations(told)
  /\ \A c \in At("addAgent") : /\ req[c].destination # NoDestination
                               /\ byOrg = Destinations(told) \union {req[c].destination}
  /\ byAgent = {<<e.agent, e.destination>> : e \in told} \intersect (Agents \X Destinations(told))
  /\ \A c \in At("agent") : req[c].destination \in byOrg

\* So are the bigrams; and what a call has read of its role is still so.
Following(c) ==
  LET last == LastOf(Story(log), req[c].role)
  IN  IF last = NoTool THEN {} ELSE {<<req[c].role, last, req[c].tool>>}

BigramsAlone ==
  LET told == UNION {Pairs(Story(log), r) : r \in Roles}
  IN
  /\ lastTool = [r \in Roles |-> LastOf(Story(log), r)]
  /\ \A c \in At("pair") \union At("addPair") :
       mine[c].last = LastOf(Story(log), req[c].role) /\ mine[c].last # NoTool
  /\ \A c \in At("idle") \union At("score") : points[c] = 0
  /\ At("setLast") = {} => bigrams = told
  /\ \A c \in At("setLast") : bigrams = told \union Following(c)

\* A streak is the length of the run of denials the log ends with.
StreaksAlone ==
  /\ \A a \in Agents : streak[a] = Cardinality(Trailing(log, a))
  /\ \A c \in At("write") : req[c].denied /\ mine[c].streak = streak[req[c].agent]

\* Every finished call whose time still counts is on the list of its workload,
\* and on a list that is about to replace it.
Own(a)  == {d \in Calls : step[d] = "done" /\ req[d].agent = a}
Kept(a) == IF current[a] = NoList THEN {} ELSE list[current[a]]

ListsComplete ==
  \A a \in Agents : \A d \in Own(a) : clock - mine[d].stamp <= RATE_WINDOW => d \in Kept(a)

\* So it was when the call that is being scored read the clock.
ScoringComplete ==
  \A c \in At("times") \union At("count") : \A d \in Own(req[c].agent) :
    mine[c].scoredAt - mine[d].stamp <= RATE_WINDOW => d \in Kept(req[c].agent)

\* The list a call has in its hands is the one the dictionary has.
HoldsCurrent ==
  \A c \in At("count") \union At("append") \union At("trim") :
    mine[c].times = current[req[c].agent]

StampedBefore ==
  \A c \in At("hold") \union At("append") \union At("look") \union At("trim") \union At("store") :
    mine[c].stamp <= clock

OwnTimeListed == \A c \in At("look") \union At("trim") : c \in Kept(req[c].agent)

TrimmedComplete ==
  \A c \in At("store") : \A d \in Own(req[c].agent) \union {c} :
    clock - mine[d].stamp <= RATE_WINDOW => d \in list[<<c, "trimmed">>]

\* Nobody has the trimmed list of a call before the call stores it.
TrimmedUnused ==
  \A a \in Agents : \A c \in Calls : current[a] = <<c, "trimmed">> => step[c] = "done"

TimesAlone ==
  /\ ListsComplete /\ ScoringComplete /\ HoldsCurrent /\ StampedBefore
  /\ OwnTimeListed /\ TrimmedComplete /\ TrimmedUnused

PartAlone ==
  /\ part = "destinations" => DestinationsAlone
  /\ part = "bigrams" => BigramsAlone
  /\ part = "streaks" => StreaksAlone
  /\ part = "times" => TimesAlone

ExactInv == OneRuns /\ FoundInv /\ ScoreInv /\ PartAlone
AloneInv == ~ overlapped => ExactInv

\* What has overlapped, has for good.
LEMMA OverlapsForGood == [Next]_vars /\ ~ overlapped' => ~ overlapped
BY DEF Next, Tick, Begin, ScoreCall, RecordOutcome, ScoreOrg, ScoreAgent, ReadClock, GetTimes,
       CountTimes, ReadLast, ScorePair, ScoreStreak, Stamp, Hold, AppendTime, Look, Trim,
       Store, AddOrg, AddAgent, RecordLast, AddPair, SetLast, ReadStreak, WriteStreak,
       ResetStreak, Reads, fixed, vars, history

\* A call that begins, alone, finds what is finished.
LEMMA BeginsAlone ==
  ASSUME TypeInv, OneRuns, FoundInv, NEW c \in Calls, Begin(c), ~ overlapped'
  PROVE  /\ \A d \in Calls : step[d] \in {"idle", "done"}
         /\ \A d \in Calls : d # c => step'[d] \in {"idle", "done"} /\ step'[d] = step[d]
         /\ step[c] = "idle" /\ step'[c] = "score"
         /\ OneRuns' /\ FoundInv'
<1>1. /\ step[c] = "idle" /\ step' = [step EXCEPT ![c] = "score"] /\ Running = {}
      /\ before' = [before EXCEPT ![c] = log] /\ UNCHANGED <<seed, log>>
      /\ step \in [Calls -> Steps] /\ log \in Seq(Calls) /\ before \in [Calls -> Seq(Calls)]
  BY DEF Begin, Advance, TypeInv, LogInv, FoundInv
<1>2. /\ step'[c] = "score" /\ \A d \in Calls : d # c => step'[d] = step[d]
      /\ \A d \in Calls : step[d] \in {"idle", "done"}
  BY <1>1 DEF Running
<1>3. /\ before'[c] = log /\ \A d \in Calls : d # c => before'[d] = before[d]
      /\ before' \in [Calls -> Seq(Calls)]
  BY <1>1
<1>4. Running' = {c}
  BY <1>2 DEF Running
<1>5. FoundInv'
  BY <1>1, <1>3, <1>4 DEF FoundInv
<1> QED
  BY <1>1, <1>2, <1>4, <1>5 DEF OneRuns

\* A call in progress is the only one, and what it found is still the log.
LEMMA RunsAlone ==
  ASSUME TypeInv, OneRuns, FoundInv, NEW c \in Calls, step[c] \notin {"idle", "done"}
  PROVE  /\ before[c] = log
         /\ \A d \in Calls : d # c => step[d] \in {"idle", "done"}
BY DEF OneRuns, FoundInv, Running

\* It stays so until it is done.
LEMMA GoesOnAlone ==
  ASSUME TypeInv, OneRuns, FoundInv, NEW c \in Calls, NEW from, NEW to, Advance(c, from, to),
         from \notin {"idle", "done"}, to # "idle", UNCHANGED <<seed, before>>,
         IF to = "done" THEN log' = Append(log, c) ELSE log' = log
  PROVE  OneRuns' /\ FoundInv'
<1>1. /\ step[c] = from /\ step' = [step EXCEPT ![c] = to] /\ step \in [Calls -> Steps]
      /\ log \in Seq(Calls)
  BY DEF Advance, TypeInv, LogInv
<1>2. /\ step'[c] = to /\ \A d \in Calls : d # c => step'[d] = step[d]
      /\ \A d \in Calls : d # c => step[d] \in {"idle", "done"}
  BY <1>1, RunsAlone
<1>3. Running' \subseteq {c} /\ (to = "done" => Running' = {})
  BY <1>2 DEF Running
<1>4. Range(log) \subseteq Range(log')
  <2>1. CASE log' = log
    BY <2>1
  <2>2. CASE log' = Append(log, c)
    BY <2>2, <1>1, RangeOfAppend
  <2> QED
    BY <2>1, <2>2
<1>5. FoundInv'
  <2>1. \A d \in Running' : before'[d] = log'
    BY <1>1, <1>3, RunsAlone
  <2>2. \A d \in Calls : Range(before'[d]) \subseteq Range(log')
    BY <1>4 DEF FoundInv
  <2> QED
    BY <2>1, <2>2 DEF FoundInv
<1> QED
  BY <1>3, <1>5 DEF OneRuns

\* What is expected of a call depends on nothing that changes once it is
\* scored.
LEMMA ExpectedKept ==
  ASSUME part' = part, req' = req, seed' = seed, NEW d \in Calls,
         before'[d] = before[d], mine'[d].scoredAt = mine[d].scoredAt,
         \A e \in Range(before[d]) : mine'[e].stamp = mine[e].stamp
  PROVE  Expected(d)' = Expected(d)
<1>1. History(d)' = History(d)
  BY DEF History, Story
<1>2. ExpectedRate(d)' = ExpectedRate(d)
  <2>1. Range(before[d])' = Range(before[d])
    BY DEF Range
  <2>2. {e \in Range(before[d]) : req[e].agent = req[d].agent
                                  /\ mine[d].scoredAt - mine[e].stamp <= RATE_WINDOW}'
        = {e \in Range(before[d]) : req[e].agent = req[d].agent
                                    /\ mine[d].scoredAt - mine[e].stamp <= RATE_WINDOW}
    BY <2>1
  <2> QED
    BY <2>2 DEF ExpectedRate
<1>3. ExpectedNovelty(d)' = ExpectedNovelty(d)
  BY <1>1 DEF ExpectedNovelty
<1>4. ExpectedBigram(d)' = ExpectedBigram(d)
  BY <1>1 DEF ExpectedBigram
<1>5. ExpectedStreak(d)' = ExpectedStreak(d)
  BY DEF ExpectedStreak, Trailing
<1> QED
  BY <1>2, <1>3, <1>4, <1>5 DEF Expected

\* The scores that were exact stay so, if the call that moves gets an exact one.
LEMMA ScoresKept ==
  ASSUME TypeInv, FoundInv, ScoreInv, NEW c \in Calls, NEW from, NEW to, Advance(c, from, to),
         from # "done", UNCHANGED <<part, req, seed>>,
         \A d \in Calls : d # c => /\ mine'[d] = mine[d] /\ points'[d] = points[d]
                                   /\ before'[d] = before[d],
         c \in Scored' => /\ before'[c] = before[c] /\ mine'[c].scoredAt = mine[c].scoredAt
                          /\ \/ c \in Scored /\ points'[c] = points[c]
                             \/ points'[c] = Expected(c)
  PROVE  ScoreInv'
<1>1. step[c] = from /\ step' = [step EXCEPT ![c] = to] /\ step \in [Calls -> Steps]
  BY DEF Advance, TypeInv
<1>2. \A d \in Calls : d # c => step'[d] = step[d]
  BY <1>1
<1>3. ASSUME NEW d \in Calls, NEW e \in Range(before[d]) PROVE mine'[e].stamp = mine[e].stamp
  <2>1. e \in Calls /\ step[e] = "done"
    BY DEF FoundInv, TypeInv, LogInv
  <2> QED
    BY <2>1, <1>1
<1>4. ASSUME NEW d \in Calls, d \in Scored' PROVE points'[d] = Expected(d)'
  <2>1. /\ before'[d] = before[d] /\ mine'[d].scoredAt = mine[d].scoredAt
        /\ \/ d \in Scored /\ points'[d] = points[d]
           \/ points'[d] = Expected(d)
    BY <1>2, <1>4 DEF Scored
  <2>2. Expected(d)' = Expected(d)
    BY <2>1, <1>3, ExpectedKept
  <2> QED
    BY <2>1, <2>2 DEF ScoreInv
<1> QED
  BY <1>4 DEF ScoreInv, Scored

\* What a story is made of.
Told == Range(Baseline) \union Requests[part]

\* A call that is done ends the story with what it asked.
LEMMA StoryGrows ==
  ASSUME TypeInv, FoundInv, NEW c \in Calls
  PROVE  /\ Story(log) \in Seq(Told) /\ req[c] \in Told
         /\ Story(Append(log, c)) = Append(Story(log), req[c])
<1>1. seed \in Seq(Told)
  <2>1. CASE seed = <<>>
    BY <2>1
  <2>2. CASE seed = Baseline
    <3>1. Range(Baseline) \subseteq Told
      BY DEF Told
    <3> QED
      BY <2>2, <3>1, BaselineAssumption
  <2> QED
    BY <2>1, <2>2 DEF FoundInv
<1>2. /\ req[c] \in Told /\ \A d \in Calls : req[d] \in Told
      /\ log \in Seq(Calls) /\ DOMAIN log = 1 .. Len(log) /\ Len(log) \in Nat
      /\ \A i \in 1 .. Len(log) : log[i] \in Calls
  BY DEF TypeInv, LogInv, Told
<1> DEFINE asked(s) == [i \in DOMAIN s |-> req[s[i]]]
<1>3. asked(log) = [i \in 1 .. Len(log) |-> req[log[i]]] /\ asked(log) \in Seq(Told)
  BY <1>2
<1>4. asked(Append(log, c)) = Append(asked(log), req[c])
  <2>1. /\ DOMAIN Append(log, c) = 1 .. Len(log) + 1
        /\ \A i \in 1 .. Len(log) : Append(log, c)[i] = log[i]
        /\ Append(log, c)[Len(log) + 1] = c
    BY <1>2
  <2>2. Len(asked(log)) = Len(log) /\ DOMAIN Append(asked(log), req[c]) = 1 .. Len(log) + 1
    BY <1>2, <1>3
  <2>3. ASSUME NEW i \in 1 .. Len(log) + 1
        PROVE  Append(asked(log), req[c])[i] = req[Append(log, c)[i]]
    <3>1. CASE i \in 1 .. Len(log)
      BY <3>1, <2>1, <2>2, <1>2, <1>3
    <3>2. CASE i = Len(log) + 1
      BY <3>2, <2>1, <2>2, <1>2, <1>3
    <3> QED
      BY <3>1, <3>2, <1>2
  <2>4. Append(asked(log), req[c]) = [i \in 1 .. Len(log) + 1 |-> Append(asked(log), req[c])[i]]
    <3>1. Append(asked(log), req[c]) \in Seq(Told)
      BY <1>2, <1>3
    <3> QED
      BY <3>1, <2>2
  <2> QED
    BY <2>1, <2>3, <2>4
<1>5. seed \o Append(asked(log), req[c]) = Append(seed \o asked(log), req[c])
  <2> HIDE DEF asked
  <2> QED
    BY <1>1, <1>2, <1>3
<1>6. seed \o asked(log) \in Seq(Told)
  <2> HIDE DEF asked
  <2> QED
    BY <1>1, <1>3
<1> QED
  BY <1>2, <1>4, <1>5, <1>6 DEF Story

-----------------------------------------------------------------------------
(* Alone, the destinations.                                                *)

\* The story begins with what was replayed.
LEMMA StoryBegins == Init => Story(log) = seed
<1> SUFFICES ASSUME Init PROVE Story(log) = seed
  OBVIOUS
<1>1. [i \in DOMAIN log |-> req[log[i]]] = <<>>
  BY DEF Init
<1>2. seed \in Seq(Range(Baseline))
  <2>1. CASE seed = <<>>
    BY <2>1
  <2>2. CASE seed = Baseline
    BY <2>2, BaselineAssumption
  <2> QED
    BY <2>1, <2>2 DEF Init
<1> QED
  BY <1>1, <1>2 DEF Story

\* The sets begin as warm_up leaves them.
LEMMA DestinationsBeginExact ==
  ASSUME Init
  PROVE  DestinationsAlone
<1>1. At("addAgent") = {} /\ At("agent") = {}
  BY DEF Init, At
<1>2. Story(log) = seed
  BY StoryBegins
<1> QED
  BY <1>1, <1>2 DEF Init, Seeded, DestinationsAlone

\* The factor of a call that finds the sets as the story left them.
LEMMA NoveltyIsExact ==
  ASSUME NEW c \in Calls, before[c] = log, part = "destinations",
         NEW told, told = Range(Story(log))
  PROVE  Expected(c) = IF req[c].destination \notin Destinations(told)
                       THEN IF req[c].destination = NoDestination THEN 0 ELSE DEST_UNKNOWN_TO_ORG
                       ELSE IF \E e \in told : /\ e.destination = req[c].destination
                                              /\ e.agent = req[c].agent
                       THEN 0 ELSE DEST_NEVER_SEEN_BY_AGENT
<1> DEFINE d     == req[c].destination
           there == {e \in told : e.destination = d}
<1>1. Expected(c) = ExpectedNovelty(c)
  BY DEF Expected
<1>2. ExpectedNovelty(c) = IF d = NoDestination \/ \E e \in there : e.agent = req[c].agent THEN 0
                           ELSE IF there # {} THEN DEST_NEVER_SEEN_BY_AGENT
                           ELSE DEST_UNKNOWN_TO_ORG
  BY DEF ExpectedNovelty, History
<1>3. d \in Destinations(told) <=> d # NoDestination /\ there # {}
  BY DEF Destinations
<1>4. (\E e \in there : e.agent = req[c].agent)
      <=> \E e \in told : e.destination = d /\ e.agent = req[c].agent
  OBVIOUS
<1>5. (\E e \in there : e.agent = req[c].agent) => there # {}
  OBVIOUS
<1> HIDE DEF there
<1>6. CASE d \notin Destinations(told)
  BY <1>1, <1>2, <1>3, <1>5, <1>6
<1>7. CASE d \in Destinations(told)
  BY <1>1, <1>2, <1>3, <1>4, <1>7
<1> QED
  BY <1>6, <1>7

\* The sets grow with the story.
LEMMA DestinationsGrow ==
  ASSUME NEW T, NEW e
  PROVE  /\ e.destination = NoDestination => Destinations(T \union {e}) = Destinations(T)
         /\ e.destination # NoDestination =>
              Destinations(T \union {e}) = Destinations(T) \union {e.destination}
         /\ \A f \in T : f.destination # NoDestination => f.destination \in Destinations(T)
         /\ NoDestination \notin Destinations(T)
<1>1. {f.destination : f \in T \union {e}} = {f.destination : f \in T} \union {e.destination}
  OBVIOUS
<1> QED
  BY <1>1 DEF Destinations

\* Alone, each step leaves the two sets what the story says.
LEMMA DestinationsStayExact ==
  ASSUME part = "destinations", TypeInv, ExactInv, [Next]_vars, ~ overlapped'
  PROVE  OneRuns' /\ FoundInv' /\ ScoreInv' /\ DestinationsAlone'
<1>t. /\ step \in [Calls -> DestinationSteps] /\ TypeInv
      /\ points \in [Calls -> 0 .. DENIAL_STREAK_CAP]
      /\ OneRuns /\ FoundInv /\ ScoreInv /\ DestinationsAlone
      /\ \A d \in Calls : req[d].agent \in Agents
  BY RequestFacts DEF TypeInv, StepsInv, ExactInv, PartAlone
<1>p. part' = part
  BY PartIsFixed
<1> DEFINE told == Range(Story(log))
<1>l. ASSUME NEW c \in Calls, NEW from, NEW to, Advance(c, from, to)
      PROVE  /\ step[c] = from /\ step'[c] = to
             /\ \A d \in Calls : d # c => step'[d] = step[d]
  BY <1>l, <1>t DEF Advance
\* A step that leaves the sets and the story as they are.
<1>s. ASSUME UNCHANGED <<log, seed, req, byOrg, byAgent>>,
             At("addAgent") = {} /\ At("addAgent")' = {},
             \A d \in At("agent")' : d \in At("agent") \/ req[d].destination \in byOrg
      PROVE  DestinationsAlone'
  <2>1. Story(log)' = Story(log)
    BY <1>s DEF Story
  <2> QED
    BY <1>s, <2>1, <1>t DEF DestinationsAlone, At, Destinations
<1>1. ASSUME NEW c \in Calls, Begin(c)
      PROVE  OneRuns' /\ FoundInv' /\ ScoreInv' /\ DestinationsAlone'
  <2>1. /\ UNCHANGED <<part, req, mine, points, seed, log, byOrg, byAgent>>
        /\ Advance(c, "idle", "score") /\ before' = [before EXCEPT ![c] = log]
    BY <1>1 DEF Begin, destinations
  <2>2. /\ \A d \in Calls : step[d] \in {"idle", "done"}
        /\ \A d \in Calls : d # c => step'[d] \in {"idle", "done"} /\ step'[d] = step[d]
        /\ step[c] = "idle" /\ step'[c] = "score" /\ OneRuns' /\ FoundInv'
    BY <1>1, <1>t, BeginsAlone
  <2>3. \A d \in Calls : d # c => before'[d] = before[d]
    BY <2>1, <1>t DEF FoundInv
  <2>4. ScoreInv'
    BY <2>1, <2>2, <2>3, <1>t, ScoresKept DEF Scored
  <2>5. DestinationsAlone'
    BY <2>1, <2>2, <1>s DEF At
  <2> QED
    BY <2>2, <2>4, <2>5
<1>2. ASSUME NEW c \in Calls, ScoreOrg(c)
      PROVE  OneRuns' /\ FoundInv' /\ ScoreInv' /\ DestinationsAlone'
  <2>1. /\ UNCHANGED <<part, req, mine, seed, log, byOrg, byAgent, before>>
        /\ step[c] = "score"
    BY <1>2 DEF ScoreOrg, Reads, fixed, destinations, Advance
  <2>2. /\ before[c] = log /\ \A d \in Calls : d # c => step[d] \in {"idle", "done"}
    BY <2>1, <1>t, RunsAlone
  <2>3. At("addAgent") = {}
    BY <2>1, <2>2 DEF At
  <2>4. byOrg = Destinations(told)
    BY <2>3, <1>t DEF DestinationsAlone
  <2>5. CASE /\ Advance(c, "score", "agent") /\ req[c].destination \in byOrg /\ UNCHANGED points
    <3>1. OneRuns' /\ FoundInv'
      BY <2>1, <2>5, <1>t, GoesOnAlone
    <3>2. ScoreInv'
      BY <2>1, <2>5, <1>t, <1>l, ScoresKept DEF Scored
    <3>3. DestinationsAlone'
      BY <2>1, <2>2, <2>3, <2>5, <1>l, <1>s DEF At
    <3> QED
      BY <3>1, <3>2, <3>3
  <2>6. CASE /\ Advance(c, "score", "scored") /\ req[c].destination \notin byOrg
             /\ points' = [points EXCEPT ![c] = IF req[c].destination = NoDestination THEN 0
                                                ELSE DEST_UNKNOWN_TO_ORG]
    <3>1. OneRuns' /\ FoundInv'
      BY <2>1, <2>6, <1>t, GoesOnAlone
    <3>2. points'[c] = Expected(c)
      BY <2>2, <2>4, <2>6, <1>t, NoveltyIsExact
    <3>3. \A d \in Calls : d # c => points'[d] = points[d]
      BY <2>6, <1>t
    <3>4. ScoreInv'
      BY <2>1, <2>6, <3>2, <3>3, <1>t, ScoresKept
    <3>5. DestinationsAlone'
      BY <2>1, <2>2, <2>3, <2>6, <1>l, <1>s DEF At
    <3> QED
      BY <3>1, <3>4, <3>5
  <2> QED
    BY <1>2, <2>5, <2>6 DEF ScoreOrg, Score
<1>3. ASSUME NEW c \in Calls, ScoreAgent(c)
      PROVE  OneRuns' /\ FoundInv' /\ ScoreInv' /\ DestinationsAlone'
  <2>1. /\ UNCHANGED <<part, req, mine, seed, log, byOrg, byAgent, before>>
        /\ Advance(c, "agent", "scored")
        /\ points' = [points EXCEPT ![c] = IF <<req[c].agent, req[c].destination>> \in byAgent
                                           THEN 0 ELSE DEST_NEVER_SEEN_BY_AGENT]
    BY <1>3 DEF ScoreAgent, Score, Reads, fixed, destinations
  <2>2. /\ step[c] = "agent" /\ before[c] = log
        /\ \A d \in Calls : d # c => step[d] \in {"idle", "done"}
    BY <2>1, <1>l, <1>t, RunsAlone
  <2>3. At("addAgent") = {} /\ c \in At("agent")
    BY <2>2 DEF At
  <2>4. byOrg = Destinations(told) /\ req[c].destination \in byOrg
    BY <2>3, <1>t DEF DestinationsAlone
  <2>5. <<req[c].agent, req[c].destination>> \in byAgent
        <=> \E e \in told : e.destination = req[c].destination /\ e.agent = req[c].agent
    BY <2>4, <1>t DEF DestinationsAlone
  <2>6. points'[c] = Expected(c)
    BY <2>1, <2>2, <2>4, <2>5, <1>t, NoveltyIsExact
  <2>7. \A d \in Calls : d # c => points'[d] = points[d]
    BY <2>1, <1>t
  <2>8. OneRuns' /\ FoundInv'
    BY <2>1, <1>t, GoesOnAlone
  <2>9. ScoreInv'
    BY <2>1, <2>6, <2>7, <1>t, ScoresKept
  <2>10. DestinationsAlone'
    BY <2>1, <2>2, <2>3, <1>l, <1>s DEF At
  <2> QED
    BY <2>8, <2>9, <2>10
\* A step that ends the story with a call.
<1>d. ASSUME NEW c \in Calls, log' = Append(log, c), seed' = seed, req' = req,
             At("addAgent")' = {}, At("agent")' = {}
      PROVE  told' = told \union {req[c]}
  <2>1. /\ Story(log) \in Seq(Told) /\ req[c] \in Told
        /\ Story(Append(log, c)) = Append(Story(log), req[c])
    BY <1>t, StoryGrows
  <2>2. Story(log)' = Story(Append(log, c))
    BY <1>d DEF Story
  <2> QED
    BY <2>1, <2>2, RangeOfAppend
<1>4. ASSUME NEW c \in Calls, AddOrg(c)
      PROVE  OneRuns' /\ FoundInv' /\ ScoreInv' /\ DestinationsAlone'
  <2>1. /\ UNCHANGED <<part, req, mine, points, seed, byAgent, before>>
        /\ step[c] = "scored"
    BY <1>4 DEF AddOrg, fixed, Done, Advance
  <2>2. \A d \in Calls : d # c => step[d] \in {"idle", "done"}
    BY <2>1, <1>t, RunsAlone
  <2>3. At("addAgent") = {} /\ At("agent") = {}
    BY <2>1, <2>2 DEF At
  <2>4. byOrg = Destinations(told)
    BY <2>3, <1>t DEF DestinationsAlone
  <2>5. CASE req[c].destination = NoDestination /\ Done(c, "scored") /\ UNCHANGED byOrg
    <3>1. Advance(c, "scored", "done") /\ log' = Append(log, c)
      BY <2>5 DEF Done
    <3>2. OneRuns' /\ FoundInv'
      BY <2>1, <3>1, <1>t, GoesOnAlone
    <3>3. ScoreInv'
      BY <2>1, <3>1, <1>t, ScoresKept DEF Scored
    <3>4. At("addAgent")' = {} /\ At("agent")' = {}
      BY <2>2, <3>1, <1>l DEF At
    <3>5. told' = told \union {req[c]}
      BY <2>1, <3>1, <3>4, <1>d
    <3>6. Destinations(told') = Destinations(told) /\ NoDestination \notin Destinations(told)
      BY <3>5, <2>5 DEF Destinations
    <3>7. byAgent' = {<<e.agent, e.destination>> : e \in told'}
                       \intersect (Agents \X Destinations(told'))
      <4> HIDE DEF told
      <4>1. byAgent = {<<e.agent, e.destination>> : e \in told}
                        \intersect (Agents \X Destinations(told))
        BY <1>t DEF DestinationsAlone, told
      <4> QED
        BY <4>1, <2>1, <2>5, <3>5, <3>6
    <3>8. DestinationsAlone'
      BY <2>4, <2>5, <3>4, <3>6, <3>7 DEF DestinationsAlone
    <3> QED
      BY <3>2, <3>3, <3>8
  <2>6. CASE /\ req[c].destination # NoDestination /\ Advance(c, "scored", "addAgent")
             /\ byOrg' = byOrg \union {req[c].destination} /\ UNCHANGED log
    <3>1. OneRuns' /\ FoundInv'
      BY <2>1, <2>6, <1>t, GoesOnAlone
    <3>2. ScoreInv'
      BY <2>1, <2>6, <1>t, ScoresKept DEF Scored
    <3>3. At("addAgent")' = {c} /\ At("agent")' = {}
      BY <2>2, <2>6, <1>l DEF At
    <3>4. told' = told
      BY <2>1, <2>6 DEF Story
    <3>5. DestinationsAlone'
      <4> HIDE DEF told
      <4>1. byAgent = {<<e.agent, e.destination>> : e \in told}
                        \intersect (Agents \X Destinations(told))
        BY <1>t DEF DestinationsAlone, told
      <4>2. /\ byAgent' = {<<e.agent, e.destination>> : e \in told'}
                             \intersect (Agents \X Destinations(told'))
            /\ byOrg' = Destinations(told') \union {req'[c].destination}
        BY <4>1, <2>1, <2>4, <2>6, <3>4
      <4> QED
        BY <4>2, <3>3, <2>1, <2>6 DEF DestinationsAlone, told
    <3> QED
      BY <3>1, <3>2, <3>5
  <2> QED
    BY <1>4, <2>5, <2>6 DEF AddOrg
<1>5. ASSUME NEW c \in Calls, AddAgent(c)
      PROVE  OneRuns' /\ FoundInv' /\ ScoreInv' /\ DestinationsAlone'
  <2>1. /\ UNCHANGED <<part, req, mine, points, seed, byOrg, before>>
        /\ Advance(c, "addAgent", "done") /\ log' = Append(log, c)
        /\ byAgent' = byAgent \union {<<req[c].agent, req[c].destination>>}
    BY <1>5 DEF AddAgent, fixed, Done
  <2>2. /\ step[c] = "addAgent" /\ \A d \in Calls : d # c => step[d] \in {"idle", "done"}
    BY <2>1, <1>l, <1>t, RunsAlone
  <2>3. c \in At("addAgent")
    BY <2>2 DEF At
  <2>4. byOrg = Destinations(told) \union {req[c].destination} /\ req[c].destination # NoDestination
    BY <2>3, <1>t DEF DestinationsAlone
  <2>5. OneRuns' /\ FoundInv'
    BY <2>1, <1>t, GoesOnAlone
  <2>6. ScoreInv'
    BY <2>1, <2>2, <1>t, ScoresKept DEF Scored
  <2>7. At("addAgent")' = {} /\ At("agent")' = {}
    BY <2>1, <2>2, <1>l DEF At
  <2>8. told' = told \union {req[c]}
    BY <2>1, <2>7, <1>d
  <2>9. Destinations(told') = Destinations(told) \union {req[c].destination}
    <3>1. Destinations(told \union {req[c]}) = Destinations(told) \union {req[c].destination}
      BY <2>4, DestinationsGrow
    <3> QED
      BY <2>8, <3>1
  <2>10. byAgent' = {<<e.agent, e.destination>> : e \in told'}
                      \intersect (Agents \X Destinations(told'))
    <3> HIDE DEF told
    <3>1. byAgent = {<<e.agent, e.destination>> : e \in told}
                      \intersect (Agents \X Destinations(told))
      BY <1>t DEF DestinationsAlone, told
    <3>2. \A e \in told : e.destination = req[c].destination => e.destination \in Destinations(told)
      <4> HIDE DEF told
      <4> QED
        BY <2>4, DestinationsGrow
    <3>3. {<<e.agent, e.destination>> : e \in told'}
          = {<<e.agent, e.destination>> : e \in told} \union {<<req[c].agent, req[c].destination>>}
      BY <2>8
    <3> DEFINE pairs == {<<e.agent, e.destination>> : e \in told}
               pair  == <<req[c].agent, req[c].destination>>
               D     == Destinations(told)
    <3>4. \A p \in pairs : p \in Agents \X (D \union {req[c].destination}) => p \in Agents \X D
      BY <3>2
    <3>5. pair \in Agents \X (D \union {req[c].destination})
      BY <1>t
    <3>6. Agents \X D \subseteq Agents \X (D \union {req[c].destination})
      OBVIOUS
    <3> HIDE DEF pairs, pair
    <3>7. (pairs \union {pair}) \intersect (Agents \X (D \union {req[c].destination}))
          = (pairs \intersect (Agents \X D)) \union {pair}
      BY <3>4, <3>5, <3>6
    <3> QED
      BY <3>1, <3>3, <3>7, <2>1, <2>9 DEF pairs, pair
  <2>11. DestinationsAlone'
    BY <2>1, <2>4, <2>7, <2>9, <2>10 DEF DestinationsAlone
  <2> QED
    BY <2>5, <2>6, <2>11
<1>6. ASSUME UNCHANGED vars
      PROVE  OneRuns' /\ FoundInv' /\ ScoreInv' /\ DestinationsAlone'
  <2>1. UNCHANGED <<part, seed, clock, step, req, mine, points, byOrg, byAgent, log, before>>
    BY <1>6 DEF vars, destinations, history
  <2>2. Story(log)' = Story(log)
    BY <2>1 DEF Story
  <2>3. OneRuns' /\ FoundInv'
    BY <2>1, <1>t DEF OneRuns, FoundInv, Running
  <2>4. \A d \in Calls : Expected(d)' = Expected(d)
    BY <2>1, ExpectedKept
  <2>5. ScoreInv'
    BY <2>1, <2>4, <1>t DEF ScoreInv, Scored
  <2> QED
    BY <2>1, <2>2, <2>3, <2>5, <1>t DEF DestinationsAlone, At, Destinations
<1> QED
  BY <1>t, <1>1, <1>2, <1>3, <1>4, <1>5, <1>6, DestinationActions

-----------------------------------------------------------------------------
(* Alone, the bigrams.                                                     *)

\* One more event: the last of its role, and the partner of what was.
LEMMA OneMoreEvent ==
  ASSUME NEW S, NEW h \in Seq(S), NEW e \in S, NEW role
  PROVE  /\ e.role # role => LastOf(Append(h, e), role) = LastOf(h, role)
                             /\ Pairs(Append(h, e), role) = Pairs(h, role)
         /\ e.role = role => LastOf(Append(h, e), role) = e.tool
         /\ e.role = role /\ OfRole(h, role) = {} => Pairs(Append(h, e), role) = Pairs(h, role)
         /\ e.role = role /\ OfRole(h, role) # {} =>
              Pairs(Append(h, e), role) = Pairs(h, role) \union {<<role, LastOf(h, role), e.tool>>}
<1> DEFINE n == Len(h)
           g == Append(h, e)
           O == OfRole(h, role)
           P == OfRole(g, role)
           Consecutive(T) == {q \in T \X T : q[1] < q[2] /\ \A i \in T : i <= q[1] \/ q[2] <= i}
<1>1. /\ n \in Nat /\ DOMAIN h = 1 .. n /\ DOMAIN g = 1 .. n + 1
      /\ \A i \in 1 .. n : g[i] = h[i]
      /\ g[n + 1] = e
  OBVIOUS
<1>2. O \subseteq 1 .. n
  BY <1>1 DEF OfRole
<1>3. P = IF e.role = role THEN O \union {n + 1} ELSE O
  <2>1. \A i \in 1 .. n + 1 : i \in 1 .. n \/ i = n + 1
    BY <1>1
  <2>2. 1 .. n \subseteq 1 .. n + 1 /\ n + 1 \in 1 .. n + 1 /\ n + 1 \notin 1 .. n
    BY <1>1
  <2> QED
    BY <1>1, <2>1, <2>2 DEF OfRole
<1> DEFINE Names(f, T) == {<<role, f[p[1]].tool, f[p[2]].tool>> : p \in Consecutive(T)}
<1>4. Pairs(h, role) = Names(h, O) /\ Pairs(g, role) = Names(g, P)
  BY DEF Pairs
<1>5. Names(g, O) = Names(h, O)
  <2>1. \A p \in Consecutive(O) : p[1] \in 1 .. n /\ p[2] \in 1 .. n
    BY <1>2
  <2> HIDE DEF Consecutive, g
  <2> QED
    BY <1>1, <2>1
<1>o. OfRole(h, role) = O /\ OfRole(g, role) = P
  OBVIOUS
<1> HIDE DEF g, O, P, n
<1>6. ASSUME e.role # role
      PROVE  LastOf(g, role) = LastOf(h, role) /\ Pairs(g, role) = Pairs(h, role)
  <2>1. P = O
    BY <1>3, <1>6
  <2>2. Pairs(g, role) = Pairs(h, role)
    BY <1>4, <1>5, <2>1
  <2>3. CASE O = {}
    BY <1>o, <2>1, <2>2, <2>3 DEF LastOf
  <2>4. CASE O # {}
    <3>1. Max(O) \in O
      BY <2>4, <1>1, <1>2, MaxIsLast
    <3>2. g[Max(O)] = h[Max(O)]
      BY <3>1, <1>1, <1>2
    <3> QED
      BY <1>o, <2>1, <2>2, <2>4, <3>2 DEF LastOf
  <2> QED
    BY <2>2, <2>3, <2>4
<1>7. ASSUME e.role = role
      PROVE  LastOf(g, role) = e.tool
  <2>1. P = O \union {n + 1}
    BY <1>3, <1>7
  <2>2. Max(P) = n + 1
    <3>1. P \in SUBSET Int /\ n + 1 \in P /\ \A i \in P : i <= n + 1
      BY <1>1, <1>2, <2>1
    <3> QED
      BY <3>1, MaxIs
  <2>3. P # {}
    BY <2>1
  <2> QED
    BY <1>o, <2>2, <2>3, <1>1 DEF LastOf
<1>8. ASSUME e.role = role, O = {}
      PROVE  Pairs(g, role) = Pairs(h, role)
  <2>1. P = {n + 1}
    BY <1>3, <1>8
  <2>2. Consecutive(P) = {}
    BY <2>1, <1>1
  <2>3. Consecutive(O) = {}
    BY <1>8
  <2>4. Names(g, P) = {} /\ Names(h, O) = {}
    BY <2>2, <2>3
  <2> QED
    BY <1>4, <2>4
<1>9. ASSUME e.role = role, O # {}
      PROVE  Pairs(g, role) = Pairs(h, role) \union {<<role, LastOf(h, role), e.tool>>}
  <2> DEFINE m == Max(O)
  <2>1. m \in O /\ \A i \in O : i <= m
    BY <1>1, <1>2, <1>9, MaxIsLast
  <2>2. P = O \union {n + 1}
    BY <1>3, <1>9
  <2>3. LastOf(h, role) = h[m].tool /\ m \in 1 .. n
    BY <1>o, <2>1, <1>2, <1>9 DEF LastOf
  <2> HIDE DEF m
  <2>4. Consecutive(P) = Consecutive(O) \union {<<m, n + 1>>}
    <3>1. ASSUME NEW q \in Consecutive(P) PROVE q \in Consecutive(O) \union {<<m, n + 1>>}
      <4>1. PICK i \in P, j \in P : /\ q = <<i, j>> /\ i < j
                                   /\ \A k \in P : k <= i \/ j <= k
        <5>1. /\ q \in P \X P /\ q[1] < q[2]
              /\ \A k \in P : k <= q[1] \/ q[2] <= k
          BY <3>1
        <5>2. q = <<q[1], q[2]>> /\ q[1] \in P /\ q[2] \in P
          BY <5>1
        <5> QED
          BY <5>1, <5>2
      <4>2. i \in 1 .. n + 1 /\ j \in 1 .. n + 1
        <5>1. n \in Nat
          BY <1>1
        <5>2. 1 .. n \subseteq 1 .. n + 1 /\ n + 1 \in 1 .. n + 1
          BY <5>1
        <5> QED
          BY <5>2, <1>2, <2>2
      <4>3. i \in O
        <5>1. n \in Nat /\ i < j
          BY <1>1, <4>1
        <5>2. i # n + 1
          BY <4>2, <5>1
        <5> QED
          BY <2>2, <5>2
      <4>4. CASE j \in O
        BY <4>1, <4>3, <4>4, <2>2
      <4>5. CASE j = n + 1
        <5>1. m <= i
          BY <4>1, <4>5, <2>1, <2>2, <2>3, <1>1
        <5>2. i = m
          BY <5>1, <4>2, <4>3, <2>1, <2>3
        <5> QED
          BY <5>2, <4>1, <4>5
      <4> QED
        BY <4>1, <4>4, <4>5, <2>2
    <3>2. ASSUME NEW q \in Consecutive(O) PROVE q \in Consecutive(P)
      <4>1. /\ q \in O \X O /\ q[1] < q[2] /\ q[1] \in 1 .. n /\ q[2] \in 1 .. n
            /\ \A i \in O : i <= q[1] \/ q[2] <= i
        BY <3>2, <1>2
      <4>2. q[2] <= n + 1
        BY <4>1, <1>1
      <4> QED
        BY <4>1, <4>2, <2>2
    <3>3. <<m, n + 1>> \in Consecutive(P)
      <4>1. m < n + 1
        BY <2>3, <1>1
      <4> QED
        BY <4>1, <2>1, <2>2, <1>1
    <3> HIDE DEF Consecutive
    <3> QED
      BY <3>1, <3>2, <3>3
  <2>5. Names(g, P) = Names(g, O) \union {<<role, g[m].tool, g[n + 1].tool>>}
    <3>1. <<m, n + 1>>[1] = m /\ <<m, n + 1>>[2] = n + 1
      OBVIOUS
    <3> HIDE DEF Consecutive, g
    <3> QED
      BY <2>4, <3>1
  <2>6. g[m] = h[m]
    BY <2>3, <1>1
  <2> QED
    BY <1>1, <1>4, <1>5, <2>3, <2>5, <2>6
<1> QED
  BY <1>6, <1>7, <1>8, <1>9 DEF g, O

\* The case that adds a pair, for the role of the event.
LEMMA OneMoreOfRole ==
  ASSUME NEW S, NEW h \in Seq(S), NEW e \in S, OfRole(h, e.role) # {}
  PROVE  Pairs(Append(h, e), e.role) =
           Pairs(h, e.role) \union {<<e.role, LastOf(h, e.role), e.tool>>}
<1> DEFINE role == e.role
<1>1. e.role = role /\ OfRole(h, role) # {}
  OBVIOUS
<1> HIDE DEF role
<1>2. Pairs(Append(h, e), role) = Pairs(h, role) \union {<<role, LastOf(h, role), e.tool>>}
  BY <1>1, OneMoreEvent
<1> QED
  BY <1>1, <1>2

\* Nothing is told with "no tool" for a tool, so there is a last tool of a role
\* as soon as the role has done anything.
LEMMA LastIsATool ==
  ASSUME part \in Parts, NEW h \in Seq(Told), NEW role
  PROVE  OfRole(h, role) = {} <=> LastOf(h, role) = NoTool
<1>1. \A e \in Told : e.tool \in Tools
  BY DEF Told, Tools, AllRequests
<1>2. \A i \in DOMAIN h : h[i].tool # NoTool
  BY <1>1, NoToolAssumption
<1>3. CASE OfRole(h, role) = {}
  BY <1>3 DEF LastOf
<1>4. CASE OfRole(h, role) # {}
  <2>1. PICK i \in DOMAIN h : LastOf(h, role) = h[i].tool
    BY <1>4, LastOfIsLast
  <2> QED
    BY <2>1, <1>2, <1>4
<1> QED
  BY <1>3, <1>4

\* The bigrams begin as warm_up leaves them.
LEMMA BigramsBeginExact ==
  ASSUME Init
  PROVE  BigramsAlone
<1>1. At("pair") = {} /\ At("addPair") = {} /\ At("setLast") = {}
  BY DEF Init, At
<1>2. Story(log) = seed
  BY StoryBegins
<1> QED
  BY <1>1, <1>2 DEF Init, Seeded, BigramsAlone, At

\* The factor of a call that finds its role as the story left it.
LEMMA BigramIsExact ==
  ASSUME NEW c \in Calls, before[c] = log, part = "bigrams", req[c].role \in Roles,
         NEW last, last = LastOf(Story(log), req[c].role),
         NEW told, told = UNION {Pairs(Story(log), r) : r \in Roles}
  PROVE  Expected(c) = IF last = NoTool \/ <<req[c].role, last, req[c].tool>> \in told
                       THEN 0 ELSE UNSEEN_BIGRAM
<1> DEFINE h == Story(log)
           t == <<req[c].role, last, req[c].tool>>
<1>1. Expected(c) = IF last = NoTool \/ t \in Pairs(h, req[c].role) THEN 0 ELSE UNSEEN_BIGRAM
  BY DEF Expected, ExpectedBigram, History
<1>2. ASSUME NEW r \in Roles, t \in Pairs(h, r) PROVE r = req[c].role
  BY <1>2 DEF Pairs
<1>3. t \in told <=> t \in Pairs(h, req[c].role)
  BY <1>2
<1> QED
  BY <1>1, <1>3

\* Alone, each step leaves the bigrams what the story says.
LEMMA BigramsStayExact ==
  ASSUME part = "bigrams", TypeInv, ExactInv, [Next]_vars, ~ overlapped'
  PROVE  OneRuns' /\ FoundInv' /\ ScoreInv' /\ BigramsAlone'
<1>t. /\ step \in [Calls -> BigramSteps] /\ TypeInv /\ mine \in [Calls -> LocalsType]
      /\ points \in [Calls -> 0 .. DENIAL_STREAK_CAP]
      /\ OneRuns /\ FoundInv /\ ScoreInv /\ BigramsAlone
      /\ \A d \in Calls : req[d].role \in Roles
  BY RequestFacts DEF TypeInv, StepsInv, ExactInv, PartAlone
<1>p. part' = part
  BY PartIsFixed
<1> DEFINE told    == UNION {Pairs(Story(log), r) : r \in Roles}
           last(c) == LastOf(Story(log), req[c].role)
<1>b. lastTool = [r \in Roles |-> LastOf(Story(log), r)]
  BY <1>t DEF BigramsAlone
<1>c. \A c \in Calls : lastTool[req[c].role] = last(c)
  BY <1>b, <1>t
<1>l. ASSUME NEW c \in Calls, NEW from, NEW to, Advance(c, from, to)
      PROVE  /\ step[c] = from /\ step'[c] = to
             /\ \A d \in Calls : d # c => step'[d] = step[d]
  BY <1>l, <1>t DEF Advance
<1>z. \A d \in Calls : step[d] \in {"idle", "score"} => points[d] = 0
  BY <1>t DEF BigramsAlone, At
\* A step of c that leaves the bigrams and the story as they are.
<1>s. ASSUME NEW c \in Calls, UNCHANGED <<log, seed, req, lastTool>>,
             \A d \in Calls : d # c => step'[d] \in {"idle", "done"},
             \A d \in Calls : step'[d] \in {"idle", "score"} => points'[d] = 0,
             step'[c] \in {"pair", "addPair"} => mine'[c].last = last(c) /\ mine'[c].last # NoTool,
             bigrams' = IF step'[c] = "setLast" THEN told \union Following(c) ELSE told
      PROVE  BigramsAlone'
  <2>1. Story(log)' = Story(log)
    BY <1>s DEF Story
  <2>2. /\ told' = told /\ \A d \in Calls : last(d)' = last(d) /\ Following(d)' = Following(d)
    BY <2>1, <1>s DEF Following
  <2>3. /\ \A d \in At("pair")' \union At("addPair")' : d = c
        /\ \A d \in At("setLast")' : d = c
        /\ step'[c] = "setLast" <=> c \in At("setLast")'
    BY <1>s DEF At
  <2>4. lastTool' = [r \in Roles |-> LastOf(Story(log), r)]'
    BY <1>s, <2>1, <1>b
  <2>5. \A d \in At("pair")' \union At("addPair")' : mine'[d].last = last(d)' /\ mine'[d].last # NoTool
    BY <2>2, <2>3, <1>s DEF At
  <2>6. /\ At("setLast")' = {} => bigrams' = told'
        /\ \A d \in At("setLast")' : bigrams' = told' \union Following(d)'
    BY <2>2, <2>3, <1>s
  <2> QED
    BY <1>s, <2>4, <2>5, <2>6 DEF BigramsAlone, At
<1>1. ASSUME NEW c \in Calls, Begin(c)
      PROVE  OneRuns' /\ FoundInv' /\ ScoreInv' /\ BigramsAlone'
  <2>1. /\ UNCHANGED <<part, req, mine, points, seed, log, lastTool, bigrams>>
        /\ Advance(c, "idle", "score") /\ before' = [before EXCEPT ![c] = log]
    BY <1>1 DEF Begin, chain
  <2>2. /\ \A d \in Calls : step[d] \in {"idle", "done"}
        /\ \A d \in Calls : d # c => step'[d] \in {"idle", "done"} /\ step'[d] = step[d]
        /\ step[c] = "idle" /\ step'[c] = "score" /\ OneRuns' /\ FoundInv'
    BY <1>1, <1>t, BeginsAlone
  <2>3. \A d \in Calls : d # c => before'[d] = before[d]
    BY <2>1, <1>t DEF FoundInv
  <2>4. ScoreInv'
    BY <2>1, <2>2, <2>3, <1>t, ScoresKept DEF Scored
  <2>5. bigrams = told
    BY <2>2, <1>t DEF BigramsAlone, At
  <2>6. \A d \in Calls : step'[d] \in {"idle", "score"} => points'[d] = 0
    BY <2>1, <2>2, <1>t DEF BigramsAlone, At
  <2>7. BigramsAlone'
    BY <2>1, <2>2, <2>5, <2>6, <1>s
  <2> QED
    BY <2>2, <2>4, <2>7
<1>2. ASSUME NEW c \in Calls, ReadLast(c)
      PROVE  OneRuns' /\ FoundInv' /\ ScoreInv' /\ BigramsAlone'
  <2> DEFINE to == IF last(c) = NoTool THEN "scored" ELSE "pair"
  <2>1. /\ UNCHANGED <<part, req, points, seed, log, lastTool, bigrams, before>>
        /\ Advance(c, "score", to) /\ mine' = [mine EXCEPT ![c].last = last(c)]
    BY <1>2, <1>c DEF ReadLast, Reads, fixed, chain
  <2>2. /\ step[c] = "score" /\ before[c] = log
        /\ \A d \in Calls : d # c => step[d] \in {"idle", "done"}
    BY <2>1, <1>l, <1>t, RunsAlone
  <2>3. bigrams = told
    BY <2>2, <1>t DEF BigramsAlone, At
  <2>4. OneRuns' /\ FoundInv'
    BY <2>1, <1>t, GoesOnAlone
  <2>5. /\ mine'[c].last = last(c) /\ mine'[c].scoredAt = mine[c].scoredAt
        /\ \A d \in Calls : d # c => mine'[d] = mine[d]
    BY <2>1, <1>t DEF LocalsType
  <2>6. ScoreInv'
    <3>1. CASE last(c) # NoTool
      <4>1. c \notin Scored'
        BY <2>1, <3>1, <1>l DEF Scored
      <4> QED
        BY <2>1, <2>5, <4>1, <1>t, ScoresKept
    <3>2. CASE last(c) = NoTool
      <4>1. Expected(c) = 0
        BY <3>2, <2>2, <1>t, BigramIsExact
      <4>2. points[c] = 0
        BY <2>2, <1>t DEF BigramsAlone, At
      <4> QED
        BY <2>1, <2>5, <4>1, <4>2, <1>t, ScoresKept
    <3> QED
      BY <3>1, <3>2
  <2>7. step'[c] \in {"scored", "pair"} /\ (step'[c] = "pair" => last(c) # NoTool)
    BY <2>1, <1>l
  <2>8. BigramsAlone'
    BY <2>1, <2>2, <2>3, <2>5, <2>7, <1>l, <1>s, <1>z
  <2> QED
    BY <2>4, <2>6, <2>8
<1>3. ASSUME NEW c \in Calls, ScorePair(c)
      PROVE  OneRuns' /\ FoundInv' /\ ScoreInv' /\ BigramsAlone'
  <2>1. /\ UNCHANGED <<part, req, mine, seed, log, lastTool, bigrams, before>>
        /\ Advance(c, "pair", "scored")
        /\ points' = [points EXCEPT ![c] =
                        IF <<req[c].role, mine[c].last, req[c].tool>> \in bigrams THEN 0
                        ELSE UNSEEN_BIGRAM]
    BY <1>3 DEF ScorePair, Score, Reads, fixed, chain
  <2>2. /\ step[c] = "pair" /\ before[c] = log
        /\ \A d \in Calls : d # c => step[d] \in {"idle", "done"}
    BY <2>1, <1>l, <1>t, RunsAlone
  <2>3. bigrams = told /\ mine[c].last = last(c) /\ mine[c].last # NoTool
    BY <2>2, <1>t DEF BigramsAlone, At
  <2>4. OneRuns' /\ FoundInv'
    BY <2>1, <1>t, GoesOnAlone
  <2>5. points'[c] = Expected(c) /\ \A d \in Calls : d # c => points'[d] = points[d]
    <3>1. Expected(c) = IF <<req[c].role, last(c), req[c].tool>> \in told THEN 0 ELSE UNSEEN_BIGRAM
      BY <2>2, <2>3, <1>t, BigramIsExact
    <3> QED
      BY <2>1, <2>3, <3>1, <1>t
  <2>6. ScoreInv'
    BY <2>1, <2>5, <1>t, ScoresKept
  <2>7. BigramsAlone'
    BY <2>1, <2>2, <2>3, <2>5, <1>l, <1>s, <1>z
  <2> QED
    BY <2>4, <2>6, <2>7
<1>4. ASSUME NEW c \in Calls, RecordLast(c)
      PROVE  OneRuns' /\ FoundInv' /\ ScoreInv' /\ BigramsAlone'
  <2> DEFINE to == IF last(c) = NoTool THEN "setLast" ELSE "addPair"
  <2>1. /\ UNCHANGED <<part, req, points, seed, log, lastTool, bigrams, before>>
        /\ Advance(c, "scored", to) /\ mine' = [mine EXCEPT ![c].last = last(c)]
    BY <1>4, <1>c DEF RecordLast, Reads, fixed, chain
  <2>2. /\ step[c] = "scored" /\ before[c] = log
        /\ \A d \in Calls : d # c => step[d] \in {"idle", "done"}
    BY <2>1, <1>l, <1>t, RunsAlone
  <2>3. bigrams = told
    BY <2>2, <1>t DEF BigramsAlone, At
  <2>4. OneRuns' /\ FoundInv'
    BY <2>1, <1>t, GoesOnAlone
  <2>5. /\ mine'[c].last = last(c) /\ mine'[c].scoredAt = mine[c].scoredAt
        /\ \A d \in Calls : d # c => mine'[d] = mine[d]
    BY <2>1, <1>t DEF LocalsType
  <2>6. ScoreInv'
    BY <2>1, <2>2, <2>5, <1>t, ScoresKept DEF Scored
  <2>7. step'[c] = to
    BY <2>1, <1>l
  <2>8. last(c) = NoTool => Following(c) = {}
    BY DEF Following
  <2>9. BigramsAlone'
    BY <2>1, <2>2, <2>3, <2>5, <2>7, <2>8, <1>l, <1>s, <1>z
  <2> QED
    BY <2>4, <2>6, <2>9
<1>5. ASSUME NEW c \in Calls, AddPair(c)
      PROVE  OneRuns' /\ FoundInv' /\ ScoreInv' /\ BigramsAlone'
  <2>1. /\ UNCHANGED <<part, req, mine, points, seed, log, lastTool, before>>
        /\ Advance(c, "addPair", "setLast")
        /\ bigrams' = bigrams \union {<<req[c].role, mine[c].last, req[c].tool>>}
    BY <1>5 DEF AddPair, fixed
  <2>2. /\ step[c] = "addPair" /\ \A d \in Calls : d # c => step[d] \in {"idle", "done"}
    BY <2>1, <1>l, <1>t, RunsAlone
  <2>3. bigrams = told /\ mine[c].last = last(c) /\ mine[c].last # NoTool
    BY <2>2, <1>t DEF BigramsAlone, At
  <2>4. Following(c) = {<<req[c].role, mine[c].last, req[c].tool>>}
    BY <2>3 DEF Following
  <2>5. OneRuns' /\ FoundInv'
    BY <2>1, <1>t, GoesOnAlone
  <2>6. ScoreInv'
    BY <2>1, <2>2, <1>t, ScoresKept DEF Scored
  <2>7. BigramsAlone'
    BY <2>1, <2>2, <2>3, <2>4, <1>l, <1>s, <1>z
  <2> QED
    BY <2>5, <2>6, <2>7
<1>6. ASSUME NEW c \in Calls, SetLast(c)
      PROVE  OneRuns' /\ FoundInv' /\ ScoreInv' /\ BigramsAlone'
  <2>1. /\ UNCHANGED <<part, req, mine, points, seed, bigrams, before>>
        /\ Advance(c, "setLast", "done") /\ log' = Append(log, c)
        /\ lastTool' = [lastTool EXCEPT ![req[c].role] = req[c].tool]
    BY <1>6 DEF SetLast, Done, fixed
  <2>2. /\ step[c] = "setLast" /\ \A d \in Calls : d # c => step[d] \in {"idle", "done"}
    BY <2>1, <1>l, <1>t, RunsAlone
  <2>3. bigrams = told \union Following(c)
    BY <2>2, <1>t DEF BigramsAlone, At
  <2>4. OneRuns' /\ FoundInv'
    BY <2>1, <1>t, GoesOnAlone
  <2>5. ScoreInv'
    BY <2>1, <2>2, <1>t, ScoresKept DEF Scored
  <2> DEFINE h == Story(log)
             e == req[c]
  <2>6. /\ h \in Seq(Told) /\ e \in Told /\ Story(log)' = Append(h, e)
    <3>1. /\ h \in Seq(Told) /\ e \in Told /\ Story(Append(log, c)) = Append(h, e)
      BY <1>t, StoryGrows
    <3>2. Story(log)' = Story(Append(log, c))
      BY <2>1 DEF Story
    <3> QED
      BY <3>1, <3>2
  <2>7. \A r \in Roles : LastOf(Append(h, e), r) = IF r = e.role THEN e.tool ELSE LastOf(h, r)
    BY <2>6, OneMoreEvent
  <2>8. lastTool' = [r \in Roles |-> LastOf(Append(h, e), r)]
    BY <2>1, <2>7, <1>b
  <2>9. \A r \in Roles : Pairs(Append(h, e), r) =
                        Pairs(h, r) \union (IF r = e.role THEN Following(c) ELSE {})
    <3>1. ASSUME NEW r \in Roles, r # e.role PROVE Pairs(Append(h, e), r) = Pairs(h, r)
      BY <2>6, <3>1, OneMoreEvent
    <3>2. OfRole(h, e.role) = {} <=> LastOf(h, e.role) = NoTool
      BY <2>6, <1>t, LastIsATool DEF TypeInv
    <3>3. Pairs(Append(h, e), e.role) = Pairs(h, e.role) \union Following(c)
      <4>1. CASE OfRole(h, e.role) = {}
        <5>1. Following(c) = {}
          BY <3>2, <4>1 DEF Following
        <5> QED
          BY <5>1, <4>1, <2>6, OneMoreEvent
      <4>2. CASE OfRole(h, e.role) # {}
        <5>1. Following(c) = {<<e.role, LastOf(h, e.role), e.tool>>}
          BY <3>2, <4>2 DEF Following
        <5>2. Pairs(Append(h, e), e.role) =
                Pairs(h, e.role) \union {<<e.role, LastOf(h, e.role), e.tool>>}
          <6> HIDE DEF h, e
          <6> QED
            BY <4>2, <2>6, OneMoreOfRole
        <5> QED
          BY <5>1, <5>2
      <4> QED
        BY <4>1, <4>2
    <3> HIDE DEF h, e
    <3> QED
      BY <3>1, <3>3
  <2>10. (UNION {Pairs(Append(h, e), r) : r \in Roles}) = told \union Following(c)
    <3>1. e.role \in Roles
      BY <1>t
    <3> DEFINE Q(r) == Pairs(Append(h, e), r)
               P(r) == Pairs(h, r)
               role == e.role
    <3>2. \A r \in Roles : Q(r) = P(r) \union (IF r = role THEN Following(c) ELSE {})
      BY <2>9
    <3> HIDE DEF Q, P, role
    <3>3. (UNION {Q(r) : r \in Roles}) = (UNION {P(r) : r \in Roles}) \union Following(c)
      BY <3>1, <3>2 DEF role
    <3> QED
      BY <3>3 DEF Q, P
  <2>11. /\ At("setLast")' = {} /\ At("pair")' = {} /\ At("addPair")' = {}
         /\ \A d \in At("idle")' \union At("score")' : points'[d] = 0
    BY <2>1, <2>2, <1>l, <1>z DEF At
  <2>12. /\ bigrams' = UNION {Pairs(Story(log)', r) : r \in Roles}
         /\ lastTool' = [r \in Roles |-> LastOf(Story(log)', r)]
    <3> DEFINE g == Append(h, e)
    <3>1. /\ bigrams' = UNION {Pairs(g, r) : r \in Roles}
          /\ lastTool' = [r \in Roles |-> LastOf(g, r)]
      BY <2>1, <2>3, <2>8, <2>10
    <3>2. Story(log)' = g
      BY <2>6
    <3> HIDE DEF g
    <3> QED
      BY <3>1, <3>2
  <2>13. BigramsAlone'
    BY <2>11, <2>12 DEF BigramsAlone
  <2> QED
    BY <2>4, <2>5, <2>13
<1>7. ASSUME UNCHANGED vars
      PROVE  OneRuns' /\ FoundInv' /\ ScoreInv' /\ BigramsAlone'
  <2>1. UNCHANGED <<part, seed, clock, step, req, mine, points, lastTool, bigrams, log, before>>
    BY <1>7 DEF vars, chain, history
  <2>2. Story(log)' = Story(log)
    BY <2>1 DEF Story
  <2>3. OneRuns' /\ FoundInv'
    BY <2>1, <1>t DEF OneRuns, FoundInv, Running
  <2>4. \A d \in Calls : Expected(d)' = Expected(d)
    BY <2>1, ExpectedKept
  <2>5. ScoreInv'
    BY <2>1, <2>4, <1>t DEF ScoreInv, Scored
  <2> QED
    BY <2>1, <2>2, <2>3, <2>5, <1>t DEF BigramsAlone, At, Following
<1> QED
  BY <1>t, <1>1, <1>2, <1>3, <1>4, <1>5, <1>6, <1>7, BigramActions

-----------------------------------------------------------------------------
(* Alone, the denial streaks.                                              *)

\* One more outcome: it ends the run of denials of its workload, or is one more
\* of it, and is nothing to the others.
LEMMA TrailingGrows ==
  ASSUME NEW s \in Seq(Calls), NEW c \in Calls, NEW a
  PROVE  /\ req[c].agent # a => Trailing(Append(s, c), a) = Trailing(s, a)
         /\ req[c].agent = a /\ ~ req[c].denied => Trailing(Append(s, c), a) = {}
         /\ req[c].agent = a /\ req[c].denied =>
              Cardinality(Trailing(Append(s, c), a)) = Cardinality(Trailing(s, a)) + 1
         /\ Cardinality(Trailing(s, a)) \in Nat
<1> DEFINE n == Len(s)
           g == Append(s, c)
           own(f) == {i \in DOMAIN f : req[f[i]].agent = a}
           O == own(s)
           P == own(g)
<1>1. /\ n \in Nat /\ DOMAIN s = 1 .. n /\ DOMAIN g = 1 .. n + 1
      /\ \A i \in 1 .. n : g[i] = s[i]
      /\ g[n + 1] = c
  OBVIOUS
<1>2. /\ O \subseteq 1 .. n /\ n + 1 \notin O
      /\ P = IF req[c].agent = a THEN O \union {n + 1} ELSE O
  <2>1. \A i \in 1 .. n + 1 : i \in 1 .. n \/ i = n + 1
    BY <1>1
  <2>2. 1 .. n \subseteq 1 .. n + 1 /\ n + 1 \in 1 .. n + 1 /\ n + 1 \notin 1 .. n
    BY <1>1
  <2>3. O \subseteq 1 .. n
    BY <1>1
  <2>4. P = {i \in 1 .. n + 1 : req[g[i]].agent = a} /\ O = {i \in 1 .. n : req[s[i]].agent = a}
    BY <1>1
  <2> HIDE DEF g, O, P, n
  <2> QED
    BY <1>1, <2>1, <2>2, <2>3, <2>4
<1>3. /\ Trailing(s, a) = {i \in O : \A j \in O : i <= j => req[s[j]].denied}
      /\ Trailing(g, a) = {i \in P : \A j \in P : i <= j => req[g[j]].denied}
  BY DEF Trailing
<1> HIDE DEF g, O, P, n
<1>4. /\ IsFiniteSet(Trailing(s, a)) /\ Cardinality(Trailing(s, a)) \in Nat
      /\ Trailing(s, a) \subseteq 1 .. n
  <2>1. Trailing(s, a) \subseteq 1 .. n
    BY <1>2, <1>3
  <2>2. IsFiniteSet(1 .. n)
    BY <1>1, FS_Interval
  <2> QED
    BY <2>1, <2>2, FS_Subset, FS_CardinalityType
<1>5. ASSUME req[c].agent # a PROVE Trailing(g, a) = Trailing(s, a)
  <2>1. P = O /\ \A j \in O : g[j] = s[j]
    BY <1>1, <1>2, <1>5
  <2> QED
    BY <1>3, <2>1
<1>6. ASSUME req[c].agent = a, ~ req[c].denied PROVE Trailing(g, a) = {}
  <2>1. n + 1 \in P /\ ~ req[g[n + 1]].denied
    BY <1>1, <1>2, <1>6
  <2>2. \A i \in P : i <= n + 1
    <3>1. P \subseteq (1 .. n) \union {n + 1}
      BY <1>2, <1>6
    <3> QED
      BY <3>1, <1>1
  <2> QED
    BY <1>3, <2>1, <2>2
<1>7. ASSUME req[c].agent = a, req[c].denied
      PROVE  Cardinality(Trailing(g, a)) = Cardinality(Trailing(s, a)) + 1
  <2>1. P = O \union {n + 1} /\ req[g[n + 1]].denied
    BY <1>1, <1>2, <1>7
  <2>2. \A j \in O : g[j] = s[j] /\ j < n + 1 /\ ~ (n + 1 <= j)
    BY <1>1, <1>2
  <2>3. Trailing(g, a) = Trailing(s, a) \union {n + 1}
    <3>1. ASSUME NEW i \in Trailing(g, a) PROVE i \in Trailing(s, a) \union {n + 1}
      BY <3>1, <1>3, <2>1, <2>2
    <3>2. ASSUME NEW i \in Trailing(s, a) PROVE i \in Trailing(g, a)
      BY <3>2, <1>3, <2>1, <2>2
    <3>3. n + 1 \in Trailing(g, a)
      BY <1>3, <2>1, <2>2
    <3> QED
      BY <3>1, <3>2, <3>3
  <2>4. n + 1 \notin Trailing(s, a)
    BY <1>2, <1>3
  <2> QED
    BY <1>4, <2>3, <2>4, FS_AddElement
<1> QED
  BY <1>4, <1>5, <1>6, <1>7 DEF g

\* No workload begins with a streak.
LEMMA StreaksBeginExact ==
  ASSUME Init
  PROVE  StreaksAlone
<1>1. At("write") = {}
  BY DEF Init, At
<1>2. ASSUME NEW a \in Agents PROVE streak[a] = Cardinality(Trailing(log, a))
  <2>1. Trailing(log, a) = {}
    BY DEF Init, Trailing
  <2>2. streak[a] = 0
    BY DEF Init
  <2> QED
    BY <2>1, <2>2, FS_EmptySet
<1> QED
  BY <1>1, <1>2 DEF StreaksAlone

\* Alone, each step leaves the streaks what the log says.
LEMMA StreaksStayExact ==
  ASSUME part = "streaks", TypeInv, ExactInv, [Next]_vars, ~ overlapped'
  PROVE  OneRuns' /\ FoundInv' /\ ScoreInv' /\ StreaksAlone'
<1>t. /\ step \in [Calls -> StreakSteps] /\ TypeInv /\ mine \in [Calls -> LocalsType]
      /\ points \in [Calls -> 0 .. DENIAL_STREAK_CAP] /\ log \in Seq(Calls)
      /\ streak \in [Agents -> 0 .. Cardinality(Calls)]
      /\ OneRuns /\ FoundInv /\ ScoreInv /\ StreaksAlone
      /\ \A d \in Calls : req[d].agent \in Agents
  BY RequestFacts DEF TypeInv, LogInv, StepsInv, ExactInv, PartAlone
<1>p. part' = part
  BY PartIsFixed
<1>l. ASSUME NEW c \in Calls, NEW from, NEW to, Advance(c, from, to)
      PROVE  /\ step[c] = from /\ step'[c] = to
             /\ \A d \in Calls : d # c => step'[d] = step[d]
  BY <1>l, <1>t DEF Advance
<1>a. \A a \in Agents : streak[a] = Cardinality(Trailing(log, a))
  BY <1>t DEF StreaksAlone
\* A step of c that leaves the streaks and the log as they are.
<1>s. ASSUME NEW c \in Calls, UNCHANGED <<log, req, streak>>,
             \A d \in Calls : d # c => step'[d] \in {"idle", "done"},
             step'[c] = "write" => req[c].denied /\ mine'[c].streak = streak[req[c].agent]
      PROVE  StreaksAlone'
  <2>1. \A a \in Agents : Trailing(log, a)' = Trailing(log, a)
    BY <1>s DEF Trailing
  <2>2. \A a \in Agents : streak'[a] = Cardinality(Trailing(log, a)')
    BY <2>1, <1>s, <1>a
  <2>3. \A d \in At("write")' : d = c
    BY <1>s DEF At
  <2>4. \A d \in At("write")' : req'[d].denied /\ mine'[d].streak = streak'[req'[d].agent]
    BY <2>3, <1>s DEF At
  <2> QED
    BY <2>2, <2>4, <1>p DEF StreaksAlone, Agents, AllRequests
\* A step that ends the log with c.
<1>d. ASSUME NEW c \in Calls, log' = Append(log, c), req' = req, At("write")' = {},
             streak' = [streak EXCEPT ![req[c].agent] =
                          IF req[c].denied THEN streak[req[c].agent] + 1 ELSE 0]
      PROVE  StreaksAlone'
  <2>1. ASSUME NEW a \in Agents PROVE streak'[a] = Cardinality(Trailing(log, a)')
    <3>1. Trailing(log, a)' = Trailing(Append(log, c), a)
      BY <1>d DEF Trailing
    <3>2. /\ req[c].agent # a => Trailing(Append(log, c), a) = Trailing(log, a)
          /\ req[c].agent = a /\ ~ req[c].denied => Trailing(Append(log, c), a) = {}
          /\ req[c].agent = a /\ req[c].denied =>
               Cardinality(Trailing(Append(log, c), a)) = Cardinality(Trailing(log, a)) + 1
      BY <1>t, TrailingGrows
    <3>3. CASE req[c].agent # a
      BY <3>1, <3>2, <3>3, <1>d, <1>a, <1>t
    <3>4. CASE req[c].agent = a /\ ~ req[c].denied
      BY <3>1, <3>2, <3>4, <1>d, <1>t, FS_EmptySet
    <3>5. CASE req[c].agent = a /\ req[c].denied
      BY <3>1, <3>2, <3>5, <1>d, <1>a, <1>t
    <3> QED
      BY <3>3, <3>4, <3>5
  <2> QED
    BY <2>1, <1>d DEF StreaksAlone
<1>1. ASSUME NEW c \in Calls, Begin(c)
      PROVE  OneRuns' /\ FoundInv' /\ ScoreInv' /\ StreaksAlone'
  <2>1. /\ UNCHANGED <<part, req, mine, points, seed, log, streak>>
        /\ Advance(c, "idle", "score") /\ before' = [before EXCEPT ![c] = log]
    BY <1>1 DEF Begin
  <2>2. /\ \A d \in Calls : d # c => step'[d] \in {"idle", "done"} /\ step'[d] = step[d]
        /\ step[c] = "idle" /\ step'[c] = "score" /\ OneRuns' /\ FoundInv'
    BY <1>1, <1>t, BeginsAlone
  <2>3. \A d \in Calls : d # c => before'[d] = before[d]
    BY <2>1, <1>t DEF FoundInv
  <2>4. ScoreInv'
    BY <2>1, <2>2, <2>3, <1>t, ScoresKept DEF Scored
  <2>5. StreaksAlone'
    BY <2>1, <2>2, <1>s
  <2> QED
    BY <2>2, <2>4, <2>5
<1>2. ASSUME NEW c \in Calls, ScoreStreak(c)
      PROVE  OneRuns' /\ FoundInv' /\ ScoreInv' /\ StreaksAlone'
  <2>1. /\ UNCHANGED <<part, req, mine, seed, log, streak, before>>
        /\ Advance(c, "score", "scored")
        /\ points' = [points EXCEPT ![c] = StreakPoints(streak[req[c].agent])]
    BY <1>2 DEF ScoreStreak, Score, Reads, fixed
  <2>2. /\ step[c] = "score" /\ before[c] = log
        /\ \A d \in Calls : d # c => step[d] \in {"idle", "done"}
    BY <2>1, <1>l, <1>t, RunsAlone
  <2>3. OneRuns' /\ FoundInv'
    BY <2>1, <1>t, GoesOnAlone
  <2>4. points'[c] = Expected(c) /\ \A d \in Calls : d # c => points'[d] = points[d]
    <3>1. Expected(c) = StreakPoints(Cardinality(Trailing(log, req[c].agent)))
      BY <2>2 DEF Expected, ExpectedStreak
    <3> QED
      BY <2>1, <3>1, <1>a, <1>t
  <2>5. ScoreInv'
    BY <2>1, <2>4, <1>t, ScoresKept
  <2>6. StreaksAlone'
    BY <2>1, <2>2, <1>l, <1>s
  <2> QED
    BY <2>3, <2>5, <2>6
<1>3. ASSUME NEW c \in Calls, ReadStreak(c)
      PROVE  OneRuns' /\ FoundInv' /\ ScoreInv' /\ StreaksAlone'
  <2>d. req[c].denied
    BY <1>3 DEF ReadStreak
  <2>1. /\ UNCHANGED <<part, req, points, seed, log, streak, before>>
        /\ Advance(c, "scored", "write")
        /\ mine' = [mine EXCEPT ![c].streak = streak[req[c].agent]]
    BY <1>3 DEF ReadStreak, Reads, fixed
  <2>2. /\ step[c] = "scored" /\ \A d \in Calls : d # c => step[d] \in {"idle", "done"}
    BY <2>1, <1>l, <1>t, RunsAlone
  <2>3. OneRuns' /\ FoundInv'
    BY <2>1, <1>t, GoesOnAlone
  <2>4. /\ mine'[c].streak = streak[req[c].agent] /\ mine'[c].scoredAt = mine[c].scoredAt
        /\ \A d \in Calls : d # c => mine'[d] = mine[d]
    BY <2>1, <1>t DEF LocalsType
  <2>5. ScoreInv'
    BY <2>1, <2>2, <2>4, <1>t, ScoresKept DEF Scored
  <2>6. StreaksAlone'
    BY <2>d, <2>1, <2>2, <2>4, <1>l, <1>s
  <2> QED
    BY <2>3, <2>5, <2>6
\* The last statement, either way.
<1>e. ASSUME NEW c \in Calls, NEW from \in {"scored", "write"}, Done(c, from),
             UNCHANGED <<part, req, mine, points, seed, before>>,
             streak' = [streak EXCEPT ![req[c].agent] =
                          IF req[c].denied THEN streak[req[c].agent] + 1 ELSE 0]
      PROVE  OneRuns' /\ FoundInv' /\ ScoreInv' /\ StreaksAlone'
  <2>1. Advance(c, from, "done") /\ log' = Append(log, c) /\ from \notin {"idle", "done", "score"}
    BY <1>e DEF Done
  <2>2. /\ step[c] = from /\ \A d \in Calls : d # c => step[d] \in {"idle", "done"}
    BY <2>1, <1>l, <1>t, RunsAlone
  <2>3. OneRuns' /\ FoundInv'
    BY <2>1, <1>e, <1>t, GoesOnAlone
  <2>4. ScoreInv'
    BY <2>1, <2>2, <1>e, <1>t, ScoresKept DEF Scored
  <2>5. At("write")' = {}
    BY <2>1, <2>2, <1>l DEF At
  <2>6. StreaksAlone'
    BY <2>1, <2>5, <1>e, <1>d
  <2> QED
    BY <2>3, <2>4, <2>6
<1>4. ASSUME NEW c \in Calls, WriteStreak(c)
      PROVE  OneRuns' /\ FoundInv' /\ ScoreInv' /\ StreaksAlone'
  <2>1. /\ UNCHANGED <<part, req, mine, points, seed, before>> /\ Done(c, "write")
        /\ streak' = [streak EXCEPT ![req[c].agent] = mine[c].streak + 1]
    BY <1>4 DEF WriteStreak, fixed
  <2>2. c \in At("write")
    BY <2>1 DEF At, Done, Advance
  <2>3. req[c].denied /\ mine[c].streak = streak[req[c].agent]
    BY <2>2, <1>t DEF StreaksAlone
  <2>4. streak' = [streak EXCEPT ![req[c].agent] =
                     IF req[c].denied THEN streak[req[c].agent] + 1 ELSE 0]
    BY <2>1, <2>3
  <2> QED
    BY <2>1, <2>4, <1>e
<1>5. ASSUME NEW c \in Calls, ResetStreak(c)
      PROVE  OneRuns' /\ FoundInv' /\ ScoreInv' /\ StreaksAlone'
  <2>1. /\ UNCHANGED <<part, req, mine, points, seed, before>> /\ Done(c, "scored")
        /\ ~ req[c].denied /\ streak' = [streak EXCEPT ![req[c].agent] = 0]
    BY <1>5 DEF ResetStreak, fixed
  <2>2. streak' = [streak EXCEPT ![req[c].agent] =
                     IF req[c].denied THEN streak[req[c].agent] + 1 ELSE 0]
    BY <2>1
  <2> QED
    BY <2>1, <2>2, <1>e
<1>6. ASSUME UNCHANGED vars
      PROVE  OneRuns' /\ FoundInv' /\ ScoreInv' /\ StreaksAlone'
  <2>1. UNCHANGED <<part, seed, clock, step, req, mine, points, streak, log, before>>
    BY <1>6 DEF vars, history
  <2>2. OneRuns' /\ FoundInv'
    BY <2>1, <1>t DEF OneRuns, FoundInv, Running
  <2>3. \A d \in Calls : Expected(d)' = Expected(d)
    BY <2>1, ExpectedKept
  <2>4. ScoreInv'
    BY <2>1, <2>3, <1>t DEF ScoreInv, Scored
  <2> QED
    BY <2>1, <2>2, <2>4, <1>t DEF StreaksAlone, At, Trailing
<1> QED
  BY <1>t, <1>1, <1>2, <1>3, <1>4, <1>5, <1>6, StreakActions

-----------------------------------------------------------------------------
(* Alone, the call times.                                                  *)

\* There is no time to list before the first call.
LEMMA TimesBeginExact ==
  ASSUME Init
  PROVE  TimesAlone
<1>1. \A c \in Calls : step[c] = "idle"
  BY DEF Init
<1>2. \A s : s # "idle" => At(s) = {}
  BY <1>1 DEF At
<1>3. \A a : Own(a) = {}
  BY <1>1 DEF Own
<1>4. \A a \in Agents : current[a] \notin Lists
  BY ListFacts DEF Init
<1>5. TrimmedUnused
  BY <1>4, ListFacts DEF TrimmedUnused
<1> QED
  BY <1>2, <1>3, <1>5 DEF TimesAlone, ListsComplete, ScoringComplete, HoldsCurrent,
     StampedBefore, OwnTimeListed, TrimmedComplete

\* A call that counts finds, on the list it has in its hands, the finished
\* calls of its workload that are within the window, and no other call.
LEMMA RateIsExact ==
  ASSUME TypeInv, RateInv, OneRuns, FoundInv, TimesAlone, part = "times",
         NEW c \in Calls, step[c] = "count", NEW recent,
         recent = IF mine[c].times = NoList THEN {} ELSE Recent(mine[c].times, mine[c].scoredAt)
  PROVE  Expected(c) = IF Cardinality(recent) >= RATE_THRESHOLD THEN RATE_ANOMALY ELSE 0
<1> DEFINE a == req[c].agent
           within(d) == mine[c].scoredAt - mine[d].stamp <= RATE_WINDOW
           expected == {d \in Range(before[c]) : req[d].agent = a /\ within(d)}
<1>1. a \in Agents /\ mine[c].times = current[a] /\ current[a] \in Lists \union {NoList}
      /\ c \in At("count")
  BY RequestFacts DEF TimesAlone, HoldsCurrent, At, TypeInv
<1>2. before[c] = log /\ \A d \in Calls : d # c => step[d] \in {"idle", "done"}
  BY RunsAlone
<1>3. expected = {d \in Own(a) : within(d)}
  BY <1>2 DEF TypeInv, LogInv, Own
<1>4. ASSUME NEW d \in expected PROVE d \in recent
  <2>1. d \in Kept(a) /\ within(d)
    BY <1>1, <1>3, <1>4 DEF TimesAlone, ScoringComplete
  <2> QED
    BY <1>1, <2>1, ListFacts DEF Kept, Recent
<1>5. ASSUME NEW d \in recent PROVE d \in expected
  <2>1. current[a] \in Lists /\ d \in list[current[a]] /\ within(d)
    BY <1>1, <1>5 DEF Recent
  <2>2. d \in Calls /\ step[d] \in RecordedSteps /\ req[d].agent = a
    BY <2>1, <1>1, ListFacts DEF RateInv, ContentsInv, OwnershipInv, TypeInv
  <2>3. d # c
    BY <2>2 DEF RecordedSteps
  <2>4. step[d] = "done"
    BY <2>2, <2>3, <1>2 DEF RecordedSteps
  <2> QED
    BY <2>1, <2>2, <2>4, <1>3 DEF Own
<1>6. recent = expected
  BY <1>4, <1>5
<1>7. Expected(c) = IF Cardinality(expected) >= RATE_THRESHOLD THEN RATE_ANOMALY ELSE 0
  BY DEF Expected, ExpectedRate
<1> QED
  BY <1>6, <1>7

\* Alone, no time that still counts is missing from a list.
LEMMA TimesStayExact ==
  ASSUME part = "times", TypeInv, RateInv, ExactInv, [Next]_vars, ~ overlapped'
  PROVE  OneRuns' /\ FoundInv' /\ ScoreInv' /\ TimesAlone'
<1>t. /\ step \in [Calls -> TimesSteps] /\ TypeInv /\ mine \in [Calls -> LocalsType]
      /\ points \in [Calls -> 0 .. DENIAL_STREAK_CAP] /\ clock \in Int
      /\ current \in [Agents -> Lists \union {NoList}] /\ list \in [Lists -> SUBSET Calls]
      /\ OneRuns /\ FoundInv /\ ScoreInv /\ TimesAlone /\ ReadyInv
      /\ \A d \in Calls : req[d].agent \in Agents
  BY RequestFacts DEF TypeInv, StepsInv, ExactInv, PartAlone
<1>i. \A d \in Calls : mine[d].stamp \in Int /\ mine[d].scoredAt \in Int
  BY <1>t DEF LocalsType
<1>w. RATE_WINDOW \in Int
  BY ScorerAssumption
<1>p. part' = part
  BY PartIsFixed
<1>a. /\ ListsComplete /\ ScoringComplete /\ HoldsCurrent /\ StampedBefore
      /\ OwnTimeListed /\ TrimmedComplete /\ TrimmedUnused
  BY <1>t DEF TimesAlone
<1>l. ASSUME NEW c \in Calls, NEW from, NEW to, Advance(c, from, to)
      PROVE  /\ step[c] = from /\ step'[c] = to
             /\ \A d \in Calls : d # c => step'[d] = step[d]
  BY <1>l, <1>t DEF Advance
\* Only c is anywhere between the first and the last step.
<1>k. ASSUME NEW c \in Calls, NEW from, NEW to, Advance(c, from, to),
             \A d \in Calls : d # c => step[d] \in {"idle", "done"}
      PROVE  \A s : s \notin {"idle", "done"} => At(s)' = IF s = to THEN {c} ELSE {}
  BY <1>k, <1>l DEF At
\* A step of c, which is not done after it, and loses no time from a list that
\* the dictionary has.
<1>s. ASSUME NEW c \in Calls, NEW from, NEW to, Advance(c, from, to),
             from # "done", to # "done", UNCHANGED <<clock, req>>,
             \A d \in Calls : d # c => step[d] \in {"idle", "done"} /\ mine'[d] = mine[d],
             \A a \in Agents : Kept(a) \subseteq Kept(a)',
             \A a \in Agents : \A d \in Calls : current'[a] = <<d, "trimmed">> => step[d] = "done",
             to \in {"times", "count"} =>
               \A d \in Own(req[c].agent) :
                 mine'[c].scoredAt - mine[d].stamp <= RATE_WINDOW => d \in Kept(req[c].agent)',
             to \in {"count", "append", "trim"} => mine'[c].times = current'[req[c].agent],
             to \in {"hold", "append", "look", "trim", "store"} => mine'[c].stamp <= clock,
             to \in {"look", "trim"} => c \in Kept(req[c].agent)',
             to = "store" =>
               \A d \in Own(req[c].agent) \union {c} :
                 clock - mine'[d].stamp <= RATE_WINDOW => d \in list'[<<c, "trimmed">>]
      PROVE  TimesAlone'
  <2>1. \A s : s \notin {"idle", "done"} => At(s)' = IF s = to THEN {c} ELSE {}
    BY <1>s, <1>k
  <2>2. \A a : Own(a)' = Own(a) /\ \A d \in Own(a) : mine'[d] = mine[d] /\ d \in Calls
    BY <1>s, <1>l DEF Own
  <2>3. ListsComplete'
    BY <2>2, <1>s, <1>a DEF ListsComplete, Agents, AllRequests
  <2>4. ScoringComplete'
    <3>1. \A d \in At("times")' \union At("count")' : d = c /\ to \in {"times", "count"}
      BY <2>1
    <3> QED
      BY <3>1, <2>2, <1>s DEF ScoringComplete, Kept
  <2>5. HoldsCurrent'
    <3>1. \A d \in At("count")' \union At("append")' \union At("trim")' :
            d = c /\ to \in {"count", "append", "trim"}
      BY <2>1
    <3> QED
      BY <3>1, <1>s DEF HoldsCurrent
  <2>6. StampedBefore'
    <3>1. \A d \in At("hold")' \union At("append")' \union At("look")' \union At("trim")'
                   \union At("store")' :
            d = c /\ to \in {"hold", "append", "look", "trim", "store"}
      BY <2>1
    <3> QED
      BY <3>1, <1>s DEF StampedBefore
  <2>7. OwnTimeListed'
    <3>1. \A d \in At("look")' \union At("trim")' : d = c /\ to \in {"look", "trim"}
      BY <2>1
    <3> QED
      BY <3>1, <1>s DEF OwnTimeListed, Kept
  <2>8. TrimmedComplete'
    <3>1. \A d \in At("store")' : d = c /\ to = "store"
      BY <2>1
    <3> QED
      BY <3>1, <2>2, <1>s DEF TrimmedComplete
  <2>9. TrimmedUnused'
    BY <1>s, <1>l DEF TrimmedUnused
  <2> QED
    BY <2>3, <2>4, <2>5, <2>6, <2>7, <2>8, <2>9 DEF TimesAlone
\* What a step that leaves the dictionary and its lists alone keeps.
<1>u. ASSUME UNCHANGED <<current, list>>
      PROVE  /\ \A a \in Agents : Kept(a)' = Kept(a)
             /\ \A a \in Agents : \A d \in Calls :
                  current'[a] = <<d, "trimmed">> => step[d] = "done"
  BY <1>u, <1>a DEF Kept, TrimmedUnused
<1>1. CASE Tick
  <2>1. /\ UNCHANGED <<part, req, mine, points, seed, log, step, before, current, list>>
        /\ clock' = clock + 1
    BY <1>1 DEF Tick, times, history
  <2>2. OneRuns' /\ FoundInv'
    BY <2>1, <1>t DEF OneRuns, FoundInv, Running
  <2>3. \A d \in Calls : Expected(d)' = Expected(d)
    BY <2>1, ExpectedKept
  <2>4. ScoreInv'
    BY <2>1, <2>3, <1>t DEF ScoreInv, Scored
  <2>5. /\ \A a : Own(a)' = Own(a) /\ Kept(a)' = Kept(a) /\ Own(a) \subseteq Calls
        /\ \A s : At(s)' = At(s) /\ At(s) \subseteq Calls
    BY <2>1 DEF Own, Kept, At
  <2>6. \A d \in Calls : clock' - mine[d].stamp <= RATE_WINDOW =>
                           clock - mine[d].stamp <= RATE_WINDOW
    BY <2>1, <1>t, <1>i, <1>w
  <2>7. ListsComplete' /\ TrimmedComplete'
    <3>1. ListsComplete'
      BY <2>1, <2>5, <2>6, <1>a DEF ListsComplete, Agents, AllRequests
    <3>2. TrimmedComplete'
      BY <2>1, <2>5, <2>6, <1>a DEF TrimmedComplete
    <3> QED
      BY <3>1, <3>2
  <2>8. StampedBefore'
    <3>1. \A d \in Calls : mine[d].stamp <= clock => mine[d].stamp <= clock'
      BY <2>1, <1>t, <1>i
    <3> QED
      BY <2>1, <2>5, <3>1, <1>a DEF StampedBefore
  <2>9. ScoringComplete' /\ HoldsCurrent' /\ OwnTimeListed' /\ TrimmedUnused'
    BY <2>1, <2>5, <1>a
       DEF ScoringComplete, HoldsCurrent, OwnTimeListed, TrimmedUnused, Agents, AllRequests
  <2> QED
    BY <2>2, <2>4, <2>7, <2>8, <2>9 DEF TimesAlone
<1>2. ASSUME NEW c \in Calls, Begin(c)
      PROVE  OneRuns' /\ FoundInv' /\ ScoreInv' /\ TimesAlone'
  <2>1. /\ UNCHANGED <<part, req, mine, points, seed, log, clock, current, list>>
        /\ Advance(c, "idle", "score") /\ before' = [before EXCEPT ![c] = log]
    BY <1>2 DEF Begin, times
  <2>2. /\ \A d \in Calls : step[d] \in {"idle", "done"}
        /\ step'[c] = "score" /\ OneRuns' /\ FoundInv'
    BY <1>2, <1>t, BeginsAlone
  <2>3. \A d \in Calls : d # c => before'[d] = before[d]
    BY <2>1, <1>t DEF FoundInv
  <2>4. ScoreInv'
    BY <2>1, <2>2, <2>3, <1>t, ScoresKept DEF Scored
  <2>5. TimesAlone'
    BY <2>1, <2>2, <1>s, <1>u
  <2> QED
    BY <2>2, <2>4, <2>5
<1>3. ASSUME NEW c \in Calls, ReadClock(c)
      PROVE  OneRuns' /\ FoundInv' /\ ScoreInv' /\ TimesAlone'
  <2>1. /\ UNCHANGED <<part, req, points, seed, log, clock, current, list, before>>
        /\ Advance(c, "score", "times") /\ mine' = [mine EXCEPT ![c].scoredAt = clock]
    BY <1>3 DEF ReadClock, Reads, fixed, times
  <2>2. /\ step[c] = "score" /\ \A d \in Calls : d # c => step[d] \in {"idle", "done"}
    BY <2>1, <1>l, <1>t, RunsAlone
  <2>3. /\ mine'[c].scoredAt = clock /\ \A d \in Calls : d # c => mine'[d] = mine[d]
    BY <2>1, <1>t DEF LocalsType
  <2>4. OneRuns' /\ FoundInv'
    BY <2>1, <1>t, GoesOnAlone
  <2>5. c \notin Scored'
    BY <2>1, <1>l DEF Scored
  <2>6. ScoreInv'
    BY <2>1, <2>3, <2>5, <1>t, ScoresKept
  <2>7. \A d \in Own(req[c].agent) :
          mine'[c].scoredAt - mine[d].stamp <= RATE_WINDOW => d \in Kept(req[c].agent)'
    BY <2>1, <2>3, <1>a, <1>t, <1>u DEF ListsComplete
  <2>8. TimesAlone'
    BY <2>1, <2>2, <2>3, <2>7, <1>s, <1>u
  <2> QED
    BY <2>4, <2>6, <2>8
<1>4. ASSUME NEW c \in Calls, GetTimes(c)
      PROVE  OneRuns' /\ FoundInv' /\ ScoreInv' /\ TimesAlone'
  <2>1. /\ UNCHANGED <<part, req, points, seed, log, clock, current, list, before>>
        /\ Advance(c, "times", "count")
        /\ mine' = [mine EXCEPT ![c].times = current[req[c].agent]]
    BY <1>4 DEF GetTimes, Reads, fixed, times
  <2>2. /\ step[c] = "times" /\ \A d \in Calls : d # c => step[d] \in {"idle", "done"}
    BY <2>1, <1>l, <1>t, RunsAlone
  <2>3. /\ mine'[c].times = current[req[c].agent] /\ mine'[c].scoredAt = mine[c].scoredAt
        /\ \A d \in Calls : d # c => mine'[d] = mine[d]
    BY <2>1, <1>t DEF LocalsType
  <2>4. OneRuns' /\ FoundInv'
    BY <2>1, <1>t, GoesOnAlone
  <2>5. c \notin Scored'
    BY <2>1, <1>l DEF Scored
  <2>6. ScoreInv'
    BY <2>1, <2>3, <2>5, <1>t, ScoresKept
  <2>7. \A d \in Own(req[c].agent) :
          mine'[c].scoredAt - mine[d].stamp <= RATE_WINDOW => d \in Kept(req[c].agent)'
    <3>1. c \in At("times")
      BY <2>2 DEF At
    <3> QED
      BY <3>1, <2>1, <2>3, <1>a, <1>t, <1>u DEF ScoringComplete
  <2>8. TimesAlone'
    BY <2>1, <2>2, <2>3, <2>7, <1>s, <1>u
  <2> QED
    BY <2>4, <2>6, <2>8
<1>5. ASSUME NEW c \in Calls, CountTimes(c)
      PROVE  OneRuns' /\ FoundInv' /\ ScoreInv' /\ TimesAlone'
  <2> DEFINE recent == IF mine[c].times = NoList THEN {}
                       ELSE Recent(mine[c].times, mine[c].scoredAt)
  <2>1. /\ UNCHANGED <<part, req, mine, seed, log, clock, current, list, before>>
        /\ Advance(c, "count", "scored")
        /\ points' = [points EXCEPT ![c] = IF Cardinality(recent) >= RATE_THRESHOLD
                                           THEN RATE_ANOMALY ELSE 0]
    BY <1>5 DEF CountTimes, Score, Reads, fixed, times
  <2> HIDE DEF recent
  <2>2. /\ step[c] = "count" /\ \A d \in Calls : d # c => step[d] \in {"idle", "done"}
    BY <2>1, <1>l, <1>t, RunsAlone
  <2>3. OneRuns' /\ FoundInv'
    BY <2>1, <1>t, GoesOnAlone
  <2>4. points'[c] = Expected(c) /\ \A d \in Calls : d # c => points'[d] = points[d]
    <3>1. Expected(c) = IF Cardinality(recent) >= RATE_THRESHOLD THEN RATE_ANOMALY ELSE 0
      BY <2>2, <1>t, RateIsExact DEF recent
    <3> QED
      BY <2>1, <3>1, <1>t
  <2>5. ScoreInv'
    BY <2>1, <2>4, <1>t, ScoresKept
  <2>6. TimesAlone'
    BY <2>1, <2>2, <1>s, <1>u
  <2> QED
    BY <2>3, <2>5, <2>6
<1>6. ASSUME NEW c \in Calls, Stamp(c)
      PROVE  OneRuns' /\ FoundInv' /\ ScoreInv' /\ TimesAlone'
  <2>1. /\ UNCHANGED <<part, req, points, seed, log, clock, current, list, before>>
        /\ Advance(c, "scored", "hold") /\ mine' = [mine EXCEPT ![c].stamp = clock]
    BY <1>6 DEF Stamp, Reads, fixed, times
  <2>2. /\ step[c] = "scored" /\ \A d \in Calls : d # c => step[d] \in {"idle", "done"}
    BY <2>1, <1>l, <1>t, RunsAlone
  <2>3. /\ mine'[c].stamp = clock /\ mine'[c].scoredAt = mine[c].scoredAt
        /\ \A d \in Calls : d # c => mine'[d] = mine[d]
    BY <2>1, <1>t DEF LocalsType
  <2>4. OneRuns' /\ FoundInv'
    BY <2>1, <1>t, GoesOnAlone
  <2>5. c \in Scored
    BY <2>2 DEF Scored
  <2>6. ScoreInv'
    BY <2>1, <2>3, <2>5, <1>t, ScoresKept
  <2>7. mine'[c].stamp <= clock
    BY <2>3, <1>t
  <2>8. TimesAlone'
    BY <2>1, <2>2, <2>3, <2>7, <1>s, <1>u
  <2> QED
    BY <2>4, <2>6, <2>8
<1>7. ASSUME NEW c \in Calls, Hold(c)
      PROVE  OneRuns' /\ FoundInv' /\ ScoreInv' /\ TimesAlone'
  <2>a. PICK a \in Agents : a = req[c].agent
    BY <1>t
  <2>1. /\ UNCHANGED <<part, req, points, seed, log, clock, list, before>>
        /\ Advance(c, "hold", "append")
        /\ current' = IF current[a] = NoList THEN [current EXCEPT ![a] = <<c, "default">>]
                      ELSE current
        /\ mine' = [mine EXCEPT ![c].times = current'[a]]
    BY <1>7, <2>a DEF Hold, fixed
  <2>2. /\ step[c] = "hold" /\ \A d \in Calls : d # c => step[d] \in {"idle", "done"}
    BY <2>1, <1>l, <1>t, RunsAlone
  <2>3. PICK l \in Lists : /\ l = current'[a]
                           /\ IF current[a] = NoList THEN l = <<c, "default">> ELSE l = current[a]
    BY <2>1, <1>t, ListFacts
  <2>4. /\ mine'[c].times = l /\ mine'[c].stamp = mine[c].stamp
        /\ mine'[c].scoredAt = mine[c].scoredAt
        /\ \A d \in Calls : d # c => mine'[d] = mine[d]
    BY <2>1, <2>3, <1>t DEF LocalsType
  <2>5. OneRuns' /\ FoundInv'
    BY <2>1, <1>t, GoesOnAlone
  <2>6. c \in Scored
    BY <2>2 DEF Scored
  <2>7. ScoreInv'
    BY <2>1, <2>4, <2>6, <1>t, ScoresKept
  <2>8. \A b \in Agents : b # a => current'[b] = current[b]
    BY <2>1, <1>t
  <2>9. \A b \in Agents : Kept(b) \subseteq Kept(b)'
    BY <2>1, <2>3, <2>8, ListFacts DEF Kept
  <2>10. \A b \in Agents : \A d \in Calls : current'[b] = <<d, "trimmed">> => step[d] = "done"
    <3>1. \A d \in Calls : <<c, "default">> # <<d, "trimmed">>
      OBVIOUS
    <3> QED
      BY <3>1, <2>3, <2>8, <1>a DEF TrimmedUnused
  <2>11. mine'[c].stamp <= clock
    <3>1. c \in At("hold")
      BY <2>2 DEF At
    <3> QED
      BY <3>1, <2>4, <1>a DEF StampedBefore
  <2>12. TimesAlone'
    BY <2>a, <2>1, <2>2, <2>3, <2>4, <2>9, <2>10, <2>11, <1>s
  <2> QED
    BY <2>5, <2>7, <2>12
<1>8. ASSUME NEW c \in Calls, AppendTime(c)
      PROVE  OneRuns' /\ FoundInv' /\ ScoreInv' /\ TimesAlone'
  <2>1. /\ UNCHANGED <<part, req, points, mine, seed, log, clock, current, before>>
        /\ Advance(c, "append", "look")
        /\ list' = [list EXCEPT ![mine[c].times] = @ \union {c}]
    BY <1>8 DEF AppendTime, fixed
  <2>2. /\ step[c] = "append" /\ \A d \in Calls : d # c => step[d] \in {"idle", "done"}
    BY <2>1, <1>l, <1>t, RunsAlone
  <2>3. c \in At("append")
    BY <2>2 DEF At
  <2>4. PICK l \in Lists : l = mine[c].times /\ l = current[req[c].agent]
    BY <2>2, <2>3, <1>a, <1>t DEF ReadyInv, HoldsCurrent
  <2>5. /\ list'[l] = list[l] \union {c}
        /\ \A m \in Lists : m # l => list'[m] = list[m]
    BY <2>1, <2>4, <1>t
  <2>6. OneRuns' /\ FoundInv'
    BY <2>1, <1>t, GoesOnAlone
  <2>7. c \in Scored
    BY <2>2 DEF Scored
  <2>8. ScoreInv'
    BY <2>1, <2>7, <1>t, ScoresKept
  <2>9. \A b \in Agents : Kept(b) \subseteq Kept(b)'
    BY <2>1, <2>5, <1>t DEF Kept
  <2>10. c \in Kept(req[c].agent)'
    BY <2>1, <2>4, <2>5, ListFacts DEF Kept
  <2>11. mine'[c].stamp <= clock
    BY <2>1, <2>3, <1>a DEF StampedBefore
  <2>12. \A b \in Agents : \A d \in Calls : current'[b] = <<d, "trimmed">> => step[d] = "done"
    BY <2>1, <1>a DEF TrimmedUnused
  <2>13. TimesAlone'
    BY <2>1, <2>2, <2>9, <2>10, <2>11, <2>12, <1>s
  <2> QED
    BY <2>6, <2>8, <2>13
<1>9. ASSUME NEW c \in Calls, Look(c)
      PROVE  OneRuns' /\ FoundInv' /\ ScoreInv' /\ TimesAlone'
  <2>1. /\ UNCHANGED <<part, req, points, seed, log, clock, current, list, before>>
        /\ Advance(c, "look", "trim")
        /\ mine' = [mine EXCEPT ![c].times = current[req[c].agent]]
    BY <1>9 DEF Look, Reads, fixed, times
  <2>2. /\ step[c] = "look" /\ \A d \in Calls : d # c => step[d] \in {"idle", "done"}
    BY <2>1, <1>l, <1>t, RunsAlone
  <2>3. /\ mine'[c].times = current[req[c].agent] /\ mine'[c].scoredAt = mine[c].scoredAt
        /\ mine'[c].stamp = mine[c].stamp
        /\ \A d \in Calls : d # c => mine'[d] = mine[d]
    BY <2>1, <1>t DEF LocalsType
  <2>4. OneRuns' /\ FoundInv'
    BY <2>1, <1>t, GoesOnAlone
  <2>5. c \in Scored
    BY <2>2 DEF Scored
  <2>6. ScoreInv'
    BY <2>1, <2>3, <2>5, <1>t, ScoresKept
  <2>7. c \in At("look")
    BY <2>2 DEF At
  <2>8. mine'[c].stamp <= clock /\ c \in Kept(req[c].agent)'
    BY <2>1, <2>3, <2>7, <1>a, <1>t, <1>u DEF StampedBefore, OwnTimeListed
  <2>9. TimesAlone'
    BY <2>1, <2>2, <2>3, <2>8, <1>s, <1>u
  <2> QED
    BY <2>4, <2>6, <2>9
<1>10. ASSUME NEW c \in Calls, Trim(c)
       PROVE  OneRuns' /\ FoundInv' /\ ScoreInv' /\ TimesAlone'
  <2>b. PICK l \in Lists : l = <<c, "trimmed">>
    BY ListFacts
  <2>1. /\ UNCHANGED <<part, req, points, mine, seed, log, clock, current, before>>
        /\ Advance(c, "trim", "store")
        /\ list' = [list EXCEPT ![l] = Recent(mine[c].times, mine[c].stamp)]
    BY <1>10, <2>b DEF Trim, fixed
  <2>2. /\ step[c] = "trim" /\ \A d \in Calls : d # c => step[d] \in {"idle", "done"}
    BY <2>1, <1>l, <1>t, RunsAlone
  <2>3. c \in At("trim")
    BY <2>2 DEF At
  <2>4. PICK m \in Lists : m = mine[c].times /\ m = current[req[c].agent]
    BY <2>2, <2>3, <1>a, <1>t DEF ReadyInv, HoldsCurrent
  <2>5. \A a \in Agents : current[a] # l
    BY <2>2, <2>b, <1>a DEF TrimmedUnused
  <2>6. /\ list'[l] = Recent(m, mine[c].stamp)
        /\ \A k \in Lists : k # l => list'[k] = list[k]
    BY <2>1, <2>4, <1>t
  <2>7. OneRuns' /\ FoundInv'
    BY <2>1, <1>t, GoesOnAlone
  <2>8. c \in Scored
    BY <2>2 DEF Scored
  <2>9. ScoreInv'
    BY <2>1, <2>8, <1>t, ScoresKept
  <2>10. \A b \in Agents : Kept(b) \subseteq Kept(b)'
    BY <2>1, <2>5, <2>6, <1>t DEF Kept
  <2>11. mine[c].stamp <= clock /\ c \in Kept(req[c].agent)
    BY <2>3, <1>a DEF StampedBefore, OwnTimeListed
  <2>12. ASSUME NEW d \in Own(req[c].agent) \union {c}, clock - mine[d].stamp <= RATE_WINDOW
         PROVE  d \in list'[l]
    <3>1. d \in Kept(req[c].agent) /\ d \in Calls
      BY <2>11, <2>12, <1>a, <1>t DEF ListsComplete, Own
    <3>2. d \in list[m]
      BY <3>1, <2>4 DEF Kept
    <3>3. mine[c].stamp - mine[d].stamp <= RATE_WINDOW
      BY <2>11, <2>12, <3>1, <1>i, <1>t, <1>w
    <3> QED
      BY <3>2, <3>3, <2>6 DEF Recent
  <2>13. \A b \in Agents : \A d \in Calls : current'[b] = <<d, "trimmed">> => step[d] = "done"
    BY <2>1, <1>a DEF TrimmedUnused
  <2>14. TimesAlone'
    BY <2>b, <2>1, <2>2, <2>10, <2>11, <2>12, <2>13, <1>s
  <2> QED
    BY <2>7, <2>9, <2>14
<1>11. ASSUME NEW c \in Calls, Store(c)
       PROVE  OneRuns' /\ FoundInv' /\ ScoreInv' /\ TimesAlone'
  <2>a. PICK a \in Agents : a = req[c].agent
    BY <1>t
  <2>b. PICK l \in Lists : l = <<c, "trimmed">>
    BY ListFacts
  <2>1. /\ UNCHANGED <<part, req, points, mine, seed, clock, list, before>>
        /\ Advance(c, "store", "done") /\ log' = Append(log, c)
        /\ current' = [current EXCEPT ![a] = l]
    BY <1>11, <2>a, <2>b DEF Store, Done, fixed
  <2>2. /\ step[c] = "store" /\ \A d \in Calls : d # c => step[d] \in {"idle", "done"}
    <3>1. step[c] = "store"
      BY <2>1, <1>l
    <3> QED
      BY <3>1, <1>t, RunsAlone
  <2>3. current'[a] = l /\ \A b \in Agents : b # a => current'[b] = current[b]
    BY <2>1, <1>t
  <2>4. OneRuns' /\ FoundInv'
    BY <2>1, <1>t, GoesOnAlone
  <2>5. c \in Scored
    BY <2>2 DEF Scored
  <2>6. ScoreInv'
    BY <2>1, <2>5, <1>t, ScoresKept
  <2>7. c \in At("store")
    BY <2>2 DEF At
  <2>8. /\ Own(a)' = Own(a) \union {c} /\ \A b \in Agents : b # a => Own(b)' = Own(b)
    BY <2>a, <2>1, <1>l DEF Own
  <2>9. Kept(a)' = list[l] /\ \A b \in Agents : b # a => Kept(b)' = Kept(b)
    BY <2>1, <2>3, ListFacts DEF Kept
  <2>10. ListsComplete'
    <3>1. ASSUME NEW b \in Agents, NEW d \in Own(b)', clock - mine[d].stamp <= RATE_WINDOW
          PROVE  d \in Kept(b)'
      <4>1. CASE b = a
        <5>1. d \in Own(req[c].agent) \union {c}
          BY <2>a, <2>8, <3>1, <4>1
        <5>2. d \in list[<<c, "trimmed">>]
          BY <5>1, <2>7, <3>1, <1>a DEF TrimmedComplete
        <5> QED
          BY <5>2, <2>b, <2>9, <4>1
      <4>2. CASE b # a
        BY <2>8, <2>9, <3>1, <4>2, <1>a DEF ListsComplete
      <4> QED
        BY <4>1, <4>2
    <3> QED
      BY <3>1, <2>1 DEF ListsComplete, Agents, AllRequests
  <2>11. TrimmedUnused'
    <3>1. \A d \in Calls : l = <<d, "trimmed">> => d = c
      BY <2>b
    <3>2. step'[c] = "done" /\ \A d \in Calls : step[d] = "done" => step'[d] = "done"
      BY <2>1, <1>l
    <3> QED
      BY <3>1, <3>2, <2>3, <1>a DEF TrimmedUnused
  <2>12. \A s : s \notin {"idle", "done"} => At(s)' = {}
    BY <2>1, <2>2, <1>k
  <2>13. TimesAlone'
    BY <2>10, <2>11, <2>12 DEF TimesAlone, ScoringComplete, HoldsCurrent, StampedBefore,
       OwnTimeListed, TrimmedComplete
  <2> QED
    BY <2>4, <2>6, <2>13
<1>12. CASE UNCHANGED vars
  <2>1. UNCHANGED <<part, seed, clock, step, req, mine, points, current, list, log, before>>
    BY <1>12 DEF vars, times, history
  <2>2. OneRuns' /\ FoundInv'
    BY <2>1, <1>t DEF OneRuns, FoundInv, Running
  <2>3. \A d \in Calls : Expected(d)' = Expected(d)
    BY <2>1, ExpectedKept
  <2>4. ScoreInv'
    BY <2>1, <2>3, <1>t DEF ScoreInv, Scored
  <2>5. /\ \A a : Own(a)' = Own(a) /\ Kept(a)' = Kept(a)
        /\ \A s : At(s)' = At(s)
    BY <2>1 DEF Own, Kept, At
  <2>6. TimesAlone'
    BY <2>1, <2>5, <1>a
       DEF TimesAlone, ListsComplete, ScoringComplete, HoldsCurrent, StampedBefore,
           OwnTimeListed, TrimmedComplete, TrimmedUnused, Agents, AllRequests
  <2> QED
    BY <2>2, <2>4, <2>6
<1> QED
  BY <1>t, <1>1, <1>2, <1>3, <1>4, <1>5, <1>6, <1>7, <1>8, <1>9, <1>10, <1>11, <1>12,
     TimesActions

-----------------------------------------------------------------------------
(* Alone, all of it.                                                       *)

\* All four parts begin exact.
LEMMA InitAloneInv == Init => AloneInv
<1> SUFFICES ASSUME Init PROVE ExactInv
  BY DEF AloneInv
<1>1. /\ \A c \in Calls : step[c] = "idle"
      /\ log = <<>> /\ before = [c \in Calls |-> <<>>] /\ seed \in {<<>>, Baseline}
  BY DEF Init
<1>2. Running = {} /\ Scored = {}
  BY <1>1 DEF Running, Scored
<1>3. OneRuns /\ FoundInv /\ ScoreInv
  BY <1>1, <1>2 DEF OneRuns, FoundInv, ScoreInv
<1>4. PartAlone
  BY DestinationsBeginExact, BigramsBeginExact, StreaksBeginExact, TimesBeginExact DEF PartAlone
<1> QED
  BY <1>3, <1>4 DEF ExactInv

\* All four stay so, for as long as no two calls overlap.
LEMMA NextAloneInv ==
  ASSUME TypeInv, part = "times" => RateInv, AloneInv, [Next]_vars
  PROVE  AloneInv'
<1> SUFFICES ASSUME ~ overlapped' PROVE ExactInv'
  BY DEF AloneInv
<1>1. ExactInv
  BY OverlapsForGood DEF AloneInv
<1>2. part' = part /\ part \in Parts
  BY PartIsFixed DEF TypeInv
<1>3. CASE part = "destinations"
  BY <1>1, <1>2, <1>3, DestinationsStayExact DEF ExactInv, PartAlone
<1>4. CASE part = "bigrams"
  BY <1>1, <1>2, <1>4, BigramsStayExact DEF ExactInv, PartAlone
<1>5. CASE part = "streaks"
  BY <1>1, <1>2, <1>5, StreaksStayExact DEF ExactInv, PartAlone
<1>6. CASE part = "times"
  BY <1>1, <1>2, <1>6, TimesStayExact DEF ExactInv, PartAlone
<1> QED
  BY <1>2, <1>3, <1>4, <1>5, <1>6 DEF Parts

\* One call at a time, the score of every call is what the whole story of the
\* process says, for any requests, baseline, window and threshold: the sets,
\* lists and counters record_outcome keeps lose and invent nothing.
THEOREM ExactWhenAloneHolds == Spec => []ExactWhenAlone
<1> DEFINE RInv == part = "times" => RateInv
           SInv == part = "streaks" => StreakInv
           Inv  == TypeInv /\ RInv /\ SInv /\ AloneInv
<1>1. Init => Inv
  BY InitTypeInv, InitRateInv, InitStreakInv, InitAloneInv
<1>2. Inv /\ [Next]_vars => Inv'
  <2> SUFFICES ASSUME Inv, [Next]_vars PROVE Inv'
    OBVIOUS
  <2>1. TypeInv'
    BY NextTypeInv
  <2>2. RInv'
    BY PartIsFixed, NextRateInv
  <2>3. SInv'
    BY PartIsFixed, NextStreakInv
  <2>4. AloneInv'
    BY NextAloneInv
  <2> QED
    BY <2>1, <2>2, <2>3, <2>4
<1>3. Inv => ExactWhenAlone
  BY DEF AloneInv, ExactInv, ScoreInv, ExactWhenAlone
<1>4. Spec => []Inv
  <2> HIDE DEF Inv
  <2> QED
    BY <1>1, <1>2, PTL DEF Spec
<1> QED
  <2> HIDE DEF Inv
  <2> QED
    BY <1>3, <1>4, PTL
=============================================================================
