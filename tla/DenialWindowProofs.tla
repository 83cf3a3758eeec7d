------------------------- MODULE DenialWindowProofs -------------------------
(***************************************************************************)
(* Proofs, for any finite set of calls, window, threshold and clock, of    *)
(* the denial counter: however threads interleave, no threshold is         *)
(* reported that was not met; and one call at a time, it is reported       *)
(* exactly when it is met.                                                 *)
(***************************************************************************)
EXTENDS DenialWindow, FiniteSetTheorems, TLAPS

\* A recorded denial has its time on some list, and nobody else has.
ListsInv == \A l \in Lists : list[l] \subseteq Denied

\* No thread is preempted for longer than the window.
PromptInv ==
  /\ \A c \in Calls : now[c] <= clock
  /\ \A c \in Running : clock - now[c] <= DENIAL_WINDOW

\* The list a call stores has, from then on, only times in its window: what
\* the call kept, and what calls that began in the meantime append.
RecentInv ==
  \A c \in Calls : step[c] \in {"filtered", "stored", "returned"} =>
    \A d \in list[<<c, "recent">>] : Within(c, d)

\* Only a call that has returned can have reported the threshold.
ReportInv == crossed \subseteq Returned

IInv == TypeOK /\ ListsInv /\ PromptInv /\ RecentInv /\ ReportInv /\ CrossingIsReal

\* The lists a call creates are its own, and are lists.
LEMMA ListFacts ==
  /\ \A c \in Calls : <<c, "default">> \in Lists /\ <<c, "recent">> \in Lists
  /\ \A c, d \in Calls : c # d => <<c, "recent">> # <<d, "recent">>
BY DEF Lists

-----------------------------------------------------------------------------
(* Type correctness.                                                       *)

\* Nothing is recorded yet.
LEMMA InitTypeOK == Init => TypeOK
<1> SUFFICES ASSUME Init PROVE TypeOK
  OBVIOUS
<1>1. clock \in 0 .. MaxClock /\ now \in [Calls -> 0 .. MaxClock]
  BY WindowAssumption DEF Init
<1>2. step \in [Calls -> Steps] /\ \A c \in Calls : step[c] = "idle"
  BY DEF Init, Steps
<1>3. times \in [Calls -> Lists \union {NoList}]
  BY Zenon DEF Init
<1>4. list \in [Lists -> SUBSET Calls] /\ prior \in [Calls -> SUBSET Calls]
  BY DEF Init
<1> QED
  BY <1>1, <1>2, <1>3, <1>4 DEF Init, TypeOK

\* Every step of a thread keeps the types.
LEMMA NextTypeOK == TypeOK /\ [Next]_vars => TypeOK'
<1> SUFFICES ASSUME TypeOK, [Next]_vars PROVE TypeOK'
  OBVIOUS
<1> USE DEF TypeOK, Advance, Steps
<1>1. CASE Tick
  BY <1>1, WindowAssumption DEF Tick
<1>2. ASSUME NEW c \in Calls, Stamp(c) PROVE TypeOK'
  BY <1>2 DEF Stamp, Returned, Running
<1>3. ASSUME NEW c \in Calls, Hold(c) PROVE TypeOK'
  <2>1. <<c, "default">> \in Lists
    BY ListFacts
  <2>2. current' \in Lists /\ current' # NoList
    <3>1. <<c, "default">> # NoList
      BY DEF NoList
    <3> QED
      BY <1>3, <2>1, <3>1 DEF Hold
  <2> QED
    BY <1>3, <2>2 DEF Hold
<1>4. ASSUME NEW c \in Calls, Record(c) PROVE TypeOK'
  <2>1. times[c] \in Lists
    BY <1>4 DEF Record
  <2>2. list' \in [Lists -> SUBSET Calls]
    BY <1>4, <2>1 DEF Record
  <2> QED
    BY <1>4, <2>2 DEF Record
<1>5. ASSUME NEW c \in Calls, Filter(c) PROVE TypeOK'
  <2>1. times[c] \in Lists /\ <<c, "recent">> \in Lists
    BY <1>5, ListFacts DEF Filter
  <2>2. {d \in list[times[c]] : Within(c, d)} \subseteq Calls
    BY <2>1
  <2>3. list' \in [Lists -> SUBSET Calls]
    BY <1>5, <2>1, <2>2 DEF Filter
  <2> QED
    BY <1>5, <2>3 DEF Filter
<1>6. ASSUME NEW c \in Calls, Store(c) PROVE TypeOK'
  BY <1>6, ListFacts DEF Store
<1>7. ASSUME NEW c \in Calls, Return(c) PROVE TypeOK'
  BY <1>7 DEF Return
<1>8. CASE UNCHANGED vars
  BY <1>8 DEF vars
<1> QED
  BY <1>1, <1>2, <1>3, <1>4, <1>5, <1>6, <1>7, <1>8 DEF Next, RecordDenial

\* Every variable of the counter keeps its type, and a thread that appends
\* has a list to append to.
THEOREM DenialTypeCorrect == Spec => []TypeOK
BY InitTypeOK, NextTypeOK, PTL DEF Spec

-----------------------------------------------------------------------------
(* No threshold is invented.                                               *)

\* No call, no list with a time.
LEMMA InitIInv == Init => IInv
<1> SUFFICES ASSUME Init PROVE IInv
  OBVIOUS
<1>1. TypeOK
  BY InitTypeOK
<1>2. ListsInv
  BY DEF Init, ListsInv
<1>3. PromptInv
  BY DEF Init, PromptInv, Running
<1>4. RecentInv
  BY DEF Init, RecentInv
<1>5. ReportInv /\ CrossingIsReal
  BY DEF Init, ReportInv, CrossingIsReal
<1> QED
  BY <1>1, <1>2, <1>3, <1>4, <1>5 DEF IInv

\* Only a denial that stamps the clock puts its time on a list.
LEMMA NextListsInv ==
  ASSUME TypeOK, TypeOK', ListsInv, [Next]_vars
  PROVE  ListsInv'
<1> USE DEF ListsInv, Advance, Denied
<1>1. CASE Tick
  BY <1>1 DEF Tick
<1>2. ASSUME NEW c \in Calls, Stamp(c) PROVE ListsInv'
  BY <1>2 DEF Stamp, TypeOK
<1>3. ASSUME NEW c \in Calls, Hold(c) PROVE ListsInv'
  BY <1>3 DEF Hold, TypeOK
<1>4. ASSUME NEW c \in Calls, Record(c) PROVE ListsInv'
  <2>1. c \in Denied' /\ Denied \subseteq Denied'
    BY <1>4 DEF Record, TypeOK
  <2>2. \A l \in Lists : list'[l] \subseteq list[l] \union {c}
    BY <1>4 DEF Record, TypeOK
  <2> QED
    BY <2>1, <2>2
<1>5. ASSUME NEW c \in Calls, Filter(c) PROVE ListsInv'
  <2>1. Denied \subseteq Denied'
    BY <1>5 DEF Filter, TypeOK
  <2>2. times[c] \in Lists
    BY <1>5 DEF Filter, TypeOK
  <2>3. \A l \in Lists : list'[l] \subseteq list[l] \union list[times[c]]
    BY <1>5, <2>2 DEF Filter, TypeOK
  <2> QED
    BY <2>1, <2>2, <2>3
<1>6. ASSUME NEW c \in Calls, Store(c) PROVE ListsInv'
  BY <1>6 DEF Store, TypeOK
<1>7. ASSUME NEW c \in Calls, Return(c) PROVE ListsInv'
  BY <1>7 DEF Return, TypeOK
<1>8. CASE UNCHANGED vars
  BY <1>8 DEF vars
<1> QED
  BY <1>1, <1>2, <1>3, <1>4, <1>5, <1>6, <1>7, <1>8 DEF Next, RecordDenial

\* The clock waits for a thread that would outlive its window.
LEMMA NextPromptInv ==
  ASSUME TypeOK, TypeOK', PromptInv, [Next]_vars
  PROVE  PromptInv'
<1> USE WindowAssumption DEF PromptInv, Advance, Running
<1>1. CASE Tick
  BY <1>1 DEF Tick, TypeOK
<1>2. ASSUME NEW c \in Calls, Stamp(c) PROVE PromptInv'
  BY <1>2 DEF Stamp, TypeOK
<1>3. ASSUME NEW c \in Calls, Hold(c) PROVE PromptInv'
  BY <1>3 DEF Hold, TypeOK
<1>4. ASSUME NEW c \in Calls, Record(c) PROVE PromptInv'
  BY <1>4 DEF Record, TypeOK
<1>5. ASSUME NEW c \in Calls, Filter(c) PROVE PromptInv'
  BY <1>5 DEF Filter, TypeOK
<1>6. ASSUME NEW c \in Calls, Store(c) PROVE PromptInv'
  BY <1>6 DEF Store, TypeOK
<1>7. ASSUME NEW c \in Calls, Return(c) PROVE PromptInv'
  BY <1>7 DEF Return, TypeOK
<1>8. CASE UNCHANGED vars
  BY <1>8 DEF vars
<1> QED
  BY <1>1, <1>2, <1>3, <1>4, <1>5, <1>6, <1>7, <1>8 DEF Next, RecordDenial

\* Filtering, appending and storing keep a stored list within its window.
LEMMA NextRecentInv ==
  ASSUME TypeOK, TypeOK', PromptInv, ListsInv, RecentInv, [Next]_vars
  PROVE  RecentInv'
<1> USE DEF RecentInv, Advance
<1>1. CASE Tick
  BY <1>1 DEF Tick, Within
<1>2. ASSUME NEW c \in Calls, Stamp(c) PROVE RecentInv'
  <2>1. c \notin Denied
    BY <1>2 DEF Stamp, TypeOK, Denied
  <2>2. \A d \in Denied : now'[d] = now[d]
    BY <1>2, <2>1 DEF Stamp, TypeOK, Denied
  <2>3. \A e \in Calls : step'[e] \in {"filtered", "stored", "returned"} =>
          step[e] = step'[e] /\ e \in Denied
    BY <1>2 DEF Stamp, TypeOK, Denied
  <2>4. \A e \in Calls : list[<<e, "recent">>] \subseteq Denied
    BY ListFacts DEF ListsInv
  <2> QED
    BY <1>2, <2>2, <2>3, <2>4 DEF Stamp, Within
<1>3. ASSUME NEW c \in Calls, Hold(c) PROVE RecentInv'
  BY <1>3 DEF Hold, TypeOK, Within
<1>4. ASSUME NEW c \in Calls, Record(c) PROVE RecentInv'
  <2>1. \A e \in Calls : Within(e, c)
    BY <1>4, WindowAssumption DEF Record, PromptInv, Running, Within, TypeOK
  <2>2. \A e \in Calls : list'[<<e, "recent">>] \subseteq list[<<e, "recent">>] \union {c}
    BY <1>4, ListFacts DEF Record, TypeOK
  <2>3. \A e \in Calls : step'[e] \in {"filtered", "stored", "returned"} => step'[e] = step[e]
    BY <1>4 DEF Record, TypeOK
  <2>4. now' = now
    BY <1>4 DEF Record
  <2> QED
    BY <2>1, <2>2, <2>3, <2>4 DEF Within
<1>5. ASSUME NEW c \in Calls, Filter(c) PROVE RecentInv'
  <2>1. list'[<<c, "recent">>] = {d \in list[times[c]] : Within(c, d)}
    BY <1>5, ListFacts DEF Filter, TypeOK
  <2>2. \A e \in Calls \ {c} : list'[<<e, "recent">>] = list[<<e, "recent">>] /\ step'[e] = step[e]
    BY <1>5, ListFacts DEF Filter, TypeOK
  <2>3. now' = now
    BY <1>5 DEF Filter
  <2> QED
    BY <2>1, <2>2, <2>3 DEF Within
<1>6. ASSUME NEW c \in Calls, Store(c) PROVE RecentInv'
  BY <1>6 DEF Store, TypeOK, Within
<1>7. ASSUME NEW c \in Calls, Return(c) PROVE RecentInv'
  BY <1>7 DEF Return, TypeOK, Within
<1>8. CASE UNCHANGED vars
  BY <1>8 DEF vars, Within
<1> QED
  BY <1>1, <1>2, <1>3, <1>4, <1>5, <1>6, <1>7, <1>8 DEF Next, RecordDenial

\* A denial that was recorded stays recorded, with its time.
LEMMA DeniedForGood ==
  ASSUME TypeOK, [Next]_vars
  PROVE  Denied \subseteq Denied' /\ \A d \in Denied : now'[d] = now[d]
<1> USE DEF Denied, Advance, TypeOK
<1>1. CASE Tick
  BY <1>1 DEF Tick
<1>2. ASSUME NEW c \in Calls, Stamp(c)
      PROVE  Denied \subseteq Denied' /\ \A d \in Denied : now'[d] = now[d]
  BY <1>2 DEF Stamp
<1>3. ASSUME NEW c \in Calls, Hold(c) \/ Record(c) \/ Filter(c) \/ Store(c) \/ Return(c)
      PROVE  Denied \subseteq Denied' /\ \A d \in Denied : now'[d] = now[d]
  BY <1>3 DEF Hold, Record, Filter, Store, Return
<1>4. CASE UNCHANGED vars
  BY <1>4 DEF vars
<1> QED
  BY <1>1, <1>2, <1>3, <1>4 DEF Next, RecordDenial

\* The report is the last thing a call does.
LEMMA NextReportInv ==
  ASSUME TypeOK, ReportInv, [Next]_vars
  PROVE  ReportInv'
<1> USE DEF ReportInv, Returned, Advance, TypeOK
<1>1. CASE Tick
  BY <1>1 DEF Tick
<1>2. ASSUME NEW c \in Calls, Stamp(c) PROVE ReportInv'
  BY <1>2 DEF Stamp
<1>3. ASSUME NEW c \in Calls, Hold(c) \/ Record(c) \/ Filter(c) \/ Store(c)
      PROVE  ReportInv'
  BY <1>3 DEF Hold, Record, Filter, Store
<1>4. ASSUME NEW c \in Calls, Return(c) PROVE ReportInv'
  BY <1>4 DEF Return
<1>5. CASE UNCHANGED vars
  BY <1>5 DEF vars
<1> QED
  BY <1>1, <1>2, <1>3, <1>4, <1>5 DEF Next, RecordDenial

\* A set of denials that meets the threshold goes on meeting it as it grows.
LEMMA Enough ==
  ASSUME NEW S, NEW T \in SUBSET Calls, S \subseteq T,
         Cardinality(S) >= DENIAL_THRESHOLD
  PROVE  Cardinality(T) >= DENIAL_THRESHOLD
<1>1. IsFiniteSet(T)
  BY CallsAssumption, FS_Subset
<1>2. IsFiniteSet(S) /\ Cardinality(S) <= Cardinality(T)
  BY <1>1, FS_Subset
<1>3. Cardinality(S) \in Nat /\ Cardinality(T) \in Nat
  BY <1>1, <1>2, FS_CardinalityType
<1> QED
  BY <1>2, <1>3, WindowAssumption

\* What a call counts is what its list holds, all of it recorded denials.
LEMMA NextCrossingIsReal ==
  ASSUME IInv, [Next]_vars
  PROVE  CrossingIsReal'
<1> DEFINE InWindow(c) == {d \in Denied : now[c] - now[d] <= DENIAL_WINDOW}
<1>t. TypeOK /\ ListsInv /\ RecentInv /\ ReportInv /\ CrossingIsReal
  BY DEF IInv
<1>d. Denied \subseteq Denied' /\ \A d \in Denied : now'[d] = now[d]
  BY <1>t, DeniedForGood
<1>s. ASSUME NEW c \in Denied PROVE InWindow(c) \subseteq InWindow(c)'
  BY <1>d, <1>s
<1>f. \A c \in Calls : InWindow(c)' \in SUBSET Calls
  BY DEF Denied
<1>1. ASSUME NEW c \in crossed
      PROVE  Cardinality(InWindow(c)') >= DENIAL_THRESHOLD
  <2>1. c \in Denied /\ c \in Calls
    BY <1>t, <1>1 DEF ReportInv, Returned, Denied
  <2>2. Cardinality(InWindow(c)) >= DENIAL_THRESHOLD
    BY <1>t, <1>1 DEF CrossingIsReal
  <2> QED
    BY <2>1, <2>2, <1>s, <1>f, Enough
<1>2. ASSUME NEW c \in Calls, Return(c), c \in crossed', c \notin crossed
      PROVE  Cardinality(InWindow(c)') >= DENIAL_THRESHOLD
  <2>1. step[c] = "stored"
    BY <1>2 DEF Return, Advance
  <2>2. list[<<c, "recent">>] \subseteq InWindow(c)
    BY <2>1, <1>t, ListFacts DEF ListsInv, RecentInv, Within
  <2>3. Cardinality(list[<<c, "recent">>]) >= DENIAL_THRESHOLD
    BY <1>2 DEF Return
  <2>4. c \in Denied
    BY <2>1 DEF Denied
  <2> QED
    BY <2>2, <2>3, <2>4, <1>s, <1>f, Enough
<1>3. ASSUME NEW c \in crossed', c \notin crossed
      PROVE  c \in Calls /\ Return(c)
  <2>1. CASE Tick
    BY <1>3, <2>1 DEF Tick
  <2>2. ASSUME NEW d \in Calls,
               Stamp(d) \/ Hold(d) \/ Record(d) \/ Filter(d) \/ Store(d)
        PROVE  FALSE
    BY <1>3, <2>2 DEF Stamp, Hold, Record, Filter, Store
  <2>3. ASSUME NEW d \in Calls, Return(d) PROVE c \in Calls /\ Return(c)
    <3>1. crossed' \subseteq crossed \union {d}
      BY <2>3 DEF Return
    <3>2. c = d
      BY <1>3, <3>1
    <3> QED
      BY <2>3, <3>2
  <2>4. CASE UNCHANGED vars
    BY <1>3, <2>4 DEF vars
  <2> QED
    BY <2>1, <2>2, <2>3, <2>4 DEF Next, RecordDenial
<1>4. \A c \in crossed' : Cardinality(InWindow(c)') >= DENIAL_THRESHOLD
  BY <1>1, <1>2, <1>3
<1> QED
  BY <1>4 DEF CrossingIsReal

\* The conjuncts together are inductive.
LEMMA NextIInv == IInv /\ [Next]_vars => IInv'
<1> SUFFICES ASSUME IInv, [Next]_vars PROVE IInv'
  OBVIOUS
<1>1. TypeOK'
  BY NextTypeOK DEF IInv
<1> QED
  BY <1>1, NextListsInv, NextPromptInv, NextRecentInv, NextReportInv, NextCrossingIsReal DEF IInv

\* What every step of every thread keeps true.
THEOREM DenialInvariant == Spec => []IInv
<1> QED
  BY InitIInv, NextIInv, PTL DEF Spec

\* No workload is quarantined for denials it did not have, whatever the
\* interleaving of the threads that count them.
THEOREM CrossingIsRealHolds == Spec => []CrossingIsReal
<1>1. IInv => CrossingIsReal
  BY DEF IInv
<1> QED
  BY <1>1, DenialInvariant, PTL

-----------------------------------------------------------------------------
(* One call at a time, the count is exact.                                 *)

\* The list the next call will get from the dictionary.
Kept == IF current = NoList THEN {} ELSE list[current]

\* The denials a call should count: those before it, and its own.
Due(c) == {d \in prior[c] \union {c} : Within(c, d)}

\* Between two calls the dictionary's list holds every denial that can still
\* be in a window.
RestInv ==
  Running = {} => /\ Kept \subseteq Returned
                  /\ \A d \in Returned : clock - now[d] <= DENIAL_WINDOW => d \in Kept

\* What a call has before it has recorded itself, and afterwards.
StartInv ==
  \A c \in Calls : step[c] \in {"stamped", "holding"} =>
    /\ Kept \subseteq prior[c] /\ \A d \in prior[c] : Within(c, d) => d \in Kept
    /\ step[c] = "holding" => times[c] = current

CountInv ==
  \A c \in Calls :
    /\ step[c] = "appended" => /\ list[times[c]] \subseteq prior[c] \union {c}
                               /\ Due(c) \subseteq list[times[c]]
    /\ step[c] \in {"filtered", "stored"} => list[<<c, "recent">>] = Due(c)
    /\ step[c] = "stored" => current = <<c, "recent">>
    /\ step[c] = "returned" => (c \in crossed <=> Cardinality(Due(c)) >= DENIAL_THRESHOLD)

\* A call that has not asked the dictionary yet has put no list into it.
UnusedInv ==
  \A c \in Calls : step[c] \in {"idle", "stamped"} =>
    list[<<c, "default">>] = {} /\ current # <<c, "default">>

OneRuns ==
  /\ \A c, d \in Running : c = d
  /\ \A c \in Running : prior[c] = Returned
  /\ \A c \in Calls : prior[c] \subseteq Returned \ Running

AloneInv == ~ overlapped => OneRuns /\ RestInv /\ StartInv /\ CountInv /\ UnusedInv

\* Before the first call nothing is due and every list is unused.
LEMMA InitAloneInv == Init => AloneInv
<1> SUFFICES ASSUME Init PROVE AloneInv
  OBVIOUS
<1>1. /\ \A c \in Calls : step[c] = "idle" /\ prior[c] = {}
      /\ current = NoList /\ \A l \in Lists : list[l] = {}
  BY DEF Init
<1>2. Running = {} /\ Returned = {}
  BY <1>1 DEF Running, Returned
<1>3. \A c \in Calls : <<c, "default">> # NoList
  BY DEF NoList
<1> QED
  BY <1>1, <1>2, <1>3, ListFacts
     DEF AloneInv, OneRuns, RestInv, StartInv, CountInv, UnusedInv, Kept

\* A call that runs, runs alone.
LEMMA Alone ==
  ASSUME TypeOK, AloneInv, ~ overlapped, NEW c \in Calls, step[c] \notin {"idle", "returned"}
  PROVE  /\ Running = {c} /\ prior[c] = Returned /\ c \notin Returned
         /\ \A d \in Calls \ {c} : step[d] \in {"idle", "returned"}
BY DEF AloneInv, OneRuns, Running, Returned, TypeOK, Steps

\* A step of a call in progress that changes neither clock, time stamps nor
\* history.
LEMMA AloneFrame ==
  ASSUME TypeOK, AloneInv, ~ overlapped, NEW c \in Calls, step[c] \notin {"idle", "returned"},
         NEW s \in Steps \ {"idle", "stamped", "returned"}, step' = [step EXCEPT ![c] = s],
         UNCHANGED <<clock, now, prior, overlapped>>
  PROVE  /\ OneRuns' /\ Returned' = Returned /\ Running' = {c} /\ step'[c] = s
         /\ \A d \in Calls \ {c} : step'[d] = step[d] /\ step[d] \in {"idle", "returned"}
         /\ \A d \in Calls : Due(d)' = Due(d)
         /\ prior[c] = Returned /\ prior' = prior /\ now' = now
<1>1. /\ Running = {c} /\ prior[c] = Returned /\ c \notin Returned
      /\ \A d \in Calls \ {c} : step[d] \in {"idle", "returned"}
  BY Alone
<1>2. step'[c] = s /\ \A d \in Calls \ {c} : step'[d] = step[d]
  BY DEF TypeOK
<1>3. Returned' = Returned /\ Running' = {c}
  BY <1>1, <1>2 DEF Running, Returned
<1>4. OneRuns'
  BY <1>1, <1>3 DEF OneRuns, AloneInv
<1>5. \A d \in Calls : Due(d)' = Due(d)
  BY DEF Due, Within
<1> QED
  BY <1>1, <1>2, <1>3, <1>4, <1>5

\* Every step of a call that runs alone keeps the count exact.
LEMMA NextAloneInv ==
  ASSUME IInv, TypeOK', AloneInv, [Next]_vars
  PROVE  AloneInv'
<1> SUFFICES ASSUME ~ overlapped' PROVE AloneInv'
  BY DEF AloneInv
<1>t. TypeOK /\ PromptInv
  BY DEF IInv
<1>o. ~ overlapped
  BY DEF Next, RecordDenial, Tick, Stamp, Hold, Record, Filter, Store, Return, vars
<1>a. OneRuns /\ RestInv /\ StartInv /\ CountInv /\ UnusedInv
  BY <1>o DEF AloneInv
<1>1. CASE Tick
  <2>1. /\ UNCHANGED <<step, now, times, list, current, crossed, overlapped, prior>>
        /\ clock' = clock + 1 /\ clock \in Int
    BY <1>1, <1>t DEF Tick, TypeOK
  <2>2. \A d \in Calls : now[d] \in Int
    BY <1>t DEF TypeOK
  <2>3. Returned' = Returned /\ Running' = Running /\ Kept' = Kept /\ Returned \subseteq Calls
    BY <2>1 DEF Returned, Running, Kept
  <2>4. RestInv'
    BY <2>1, <2>2, <2>3, <1>a, WindowAssumption DEF RestInv
  <2>5. \A d \in Calls : Due(d)' = Due(d)
    BY <2>1 DEF Due, Within
  <2>6. OneRuns' /\ UnusedInv'
    BY <2>1, <2>3, <1>a DEF OneRuns, UnusedInv
  <2>7. StartInv' /\ CountInv'
    BY <2>1, <2>3, <2>5, <1>a DEF StartInv, CountInv, Within
  <2> QED
    BY <2>4, <2>6, <2>7 DEF AloneInv
<1>2. ASSUME NEW c \in Calls, Stamp(c) PROVE AloneInv'
  <2>1. /\ step[c] = "idle" /\ step' = [step EXCEPT ![c] = "stamped"]
        /\ now' = [now EXCEPT ![c] = clock] /\ prior' = [prior EXCEPT ![c] = Returned]
        /\ Running = {} /\ UNCHANGED <<clock, times, list, current, crossed>>
    BY <1>2 DEF Stamp, Advance
  <2>2. /\ step'[c] = "stamped" /\ now'[c] = clock /\ prior'[c] = Returned
        /\ \A d \in Calls \ {c} : step'[d] = step[d] /\ now'[d] = now[d] /\ prior'[d] = prior[d]
    BY <2>1, <1>t DEF TypeOK
  <2>3. /\ Returned' = Returned /\ Running' = {c} /\ c \notin Returned
        /\ Kept' = Kept
    BY <2>1, <2>2 DEF Returned, Running, Kept
  <2>4. OneRuns'
    BY <2>2, <2>3, <1>a DEF OneRuns
  <2>5. RestInv'
    BY <2>3 DEF RestInv
  <2>6. \A d \in Calls \ {c} : step[d] \in {"idle", "returned"}
    BY <2>1 DEF Running
  <2>7. \A d \in Returned : now'[d] = now[d]
    BY <2>2, <2>3 DEF Returned
  <2>8. StartInv'
    BY <2>1, <2>2, <2>3, <2>6, <2>7, <1>a DEF StartInv, RestInv, Within
  <2>9. \A d \in Calls \ {c} : Due(d)' = Due(d)
    <3>1. \A d \in Calls : c \notin prior[d]
      BY <2>3, <1>a DEF OneRuns
    <3> QED
      BY <2>2, <3>1, <1>t DEF Due, Within, TypeOK
  <2>10. CountInv'
    BY <2>1, <2>2, <2>6, <2>9, <1>a DEF CountInv
  <2>11. UnusedInv'
    BY <2>1, <2>2, <1>a DEF UnusedInv
  <2> QED
    BY <2>4, <2>5, <2>8, <2>10, <2>11 DEF AloneInv
<1>3. ASSUME NEW c \in Calls, Hold(c) PROVE AloneInv'
  <2>1. /\ step[c] = "stamped" /\ step' = [step EXCEPT ![c] = "holding"]
        /\ current' = IF current = NoList THEN <<c, "default">> ELSE current
        /\ times' = [times EXCEPT ![c] = current']
        /\ UNCHANGED <<clock, now, list, crossed, overlapped, prior>>
    BY <1>3 DEF Hold, Advance
  <2>2. /\ OneRuns' /\ Returned' = Returned /\ Running' = {c} /\ step'[c] = "holding"
        /\ \A d \in Calls \ {c} : step'[d] = step[d] /\ step[d] \in {"idle", "returned"}
        /\ \A d \in Calls : Due(d)' = Due(d)
    BY <2>1, <1>t, <1>o, AloneFrame DEF Steps
  <2>3. times'[c] = current'
    BY <2>1, <1>t DEF TypeOK
  <2>4. Kept' = Kept
    <3>1. list[<<c, "default">>] = {}
      BY <2>1, <1>a DEF UnusedInv
    <3>2. <<c, "default">> # NoList
      BY DEF NoList
    <3> QED
      BY <2>1, <3>1, <3>2 DEF Kept
  <2>5. StartInv'
    BY <2>1, <2>2, <2>3, <2>4, <1>a DEF StartInv, Within
  <2>6. CountInv'
    BY <2>1, <2>2, <1>a DEF CountInv
  <2>7. UnusedInv'
    <3>1. \A d \in Calls \ {c} : <<d, "default">> # <<c, "default">>
      OBVIOUS
    <3> QED
      BY <2>1, <2>2, <3>1, <1>a DEF UnusedInv
  <2>8. RestInv'
    BY <2>2 DEF RestInv
  <2> QED
    BY <2>2, <2>5, <2>6, <2>7, <2>8 DEF AloneInv
<1>4. ASSUME NEW c \in Calls, Record(c) PROVE AloneInv'
  <2>1. /\ step[c] = "holding" /\ step' = [step EXCEPT ![c] = "appended"]
        /\ list' = [list EXCEPT ![times[c]] = @ \union {c}]
        /\ UNCHANGED <<clock, now, times, current, crossed, overlapped, prior>>
    BY <1>4 DEF Record, Advance
  <2>2. /\ OneRuns' /\ Returned' = Returned /\ Running' = {c} /\ step'[c] = "appended"
        /\ \A d \in Calls \ {c} : step'[d] = step[d] /\ step[d] \in {"idle", "returned"}
        /\ \A d \in Calls : Due(d)' = Due(d)
    BY <2>1, <1>t, <1>o, AloneFrame DEF Steps
  <2>3. times[c] \in Lists /\ times[c] = current /\ times[c] # NoList
    BY <2>1, <1>t, <1>a DEF TypeOK, StartInv
  <2>4. list'[times[c]] = Kept \union {c} /\ \A l \in Lists : l # times[c] => list'[l] = list[l]
    BY <2>1, <2>3, <1>t DEF TypeOK, Kept
  <2>5. Kept \subseteq prior[c] /\ \A d \in prior[c] : Within(c, d) => d \in Kept
    BY <2>1, <1>a DEF StartInv
  <2>6. CountInv'
    BY <2>1, <2>2, <2>4, <2>5, <1>a DEF CountInv, Due
  <2>7. StartInv'
    BY <2>2 DEF StartInv
  <2>8. UnusedInv'
    BY <2>1, <2>2, <2>3, <2>4, <1>a, ListFacts DEF UnusedInv
  <2>9. RestInv'
    BY <2>2 DEF RestInv
  <2> QED
    BY <2>2, <2>6, <2>7, <2>8, <2>9 DEF AloneInv
<1>5. ASSUME NEW c \in Calls, Filter(c) PROVE AloneInv'
  <2>1. /\ step[c] = "appended" /\ step' = [step EXCEPT ![c] = "filtered"]
        /\ list' = [list EXCEPT ![<<c, "recent">>] = {d \in list[times[c]] : Within(c, d)}]
        /\ UNCHANGED <<clock, now, times, current, crossed, overlapped, prior>>
    BY <1>5 DEF Filter, Advance
  <2>2. /\ OneRuns' /\ Returned' = Returned /\ Running' = {c} /\ step'[c] = "filtered"
        /\ \A d \in Calls \ {c} : step'[d] = step[d] /\ step[d] \in {"idle", "returned"}
        /\ \A d \in Calls : Due(d)' = Due(d)
    BY <2>1, <1>t, <1>o, AloneFrame DEF Steps
  <2>3. {d \in list[times[c]] : Within(c, d)} = Due(c)
    BY <2>1, <1>a DEF CountInv, Due
  <2>4. /\ list'[<<c, "recent">>] = Due(c)
        /\ \A d \in Calls : list'[<<d, "default">>] = list[<<d, "default">>]
    <3>1. \A d \in Calls : <<d, "default">> # <<c, "recent">>
      OBVIOUS
    <3> QED
      BY <2>1, <2>3, <3>1, <1>t, ListFacts DEF TypeOK
  <2>5. CountInv'
    BY <2>1, <2>2, <2>4, <1>a DEF CountInv
  <2>6. StartInv'
    BY <2>2 DEF StartInv
  <2>7. UnusedInv'
    BY <2>1, <2>2, <2>4, <1>a DEF UnusedInv
  <2>8. RestInv'
    BY <2>2 DEF RestInv
  <2> QED
    BY <2>2, <2>5, <2>6, <2>7, <2>8 DEF AloneInv
<1>6. ASSUME NEW c \in Calls, Store(c) PROVE AloneInv'
  <2>1. /\ step[c] = "filtered" /\ step' = [step EXCEPT ![c] = "stored"]
        /\ current' = <<c, "recent">>
        /\ UNCHANGED <<clock, now, times, list, crossed, overlapped, prior>>
    BY <1>6 DEF Store, Advance
  <2>2. /\ OneRuns' /\ Returned' = Returned /\ Running' = {c} /\ step'[c] = "stored"
        /\ \A d \in Calls \ {c} : step'[d] = step[d] /\ step[d] \in {"idle", "returned"}
        /\ \A d \in Calls : Due(d)' = Due(d)
    BY <2>1, <1>t, <1>o, AloneFrame DEF Steps
  <2>3. CountInv'
    BY <2>1, <2>2, <1>a DEF CountInv
  <2>4. StartInv'
    BY <2>2 DEF StartInv
  <2>5. UnusedInv'
    BY <2>1, <2>2, <1>a DEF UnusedInv
  <2>6. RestInv'
    BY <2>2 DEF RestInv
  <2> QED
    BY <2>2, <2>3, <2>4, <2>5, <2>6 DEF AloneInv
<1>7. ASSUME NEW c \in Calls, Return(c) PROVE AloneInv'
  <2>1. /\ step[c] = "stored" /\ step' = [step EXCEPT ![c] = "returned"]
        /\ crossed' = IF Cardinality(list[<<c, "recent">>]) >= DENIAL_THRESHOLD
                      THEN crossed \union {c} ELSE crossed
        /\ UNCHANGED <<clock, now, times, list, current, overlapped, prior>>
    BY <1>7 DEF Return, Advance
  <2>2. /\ Running = {c} /\ prior[c] = Returned /\ c \notin Returned
        /\ \A d \in Calls \ {c} : step[d] \in {"idle", "returned"}
    BY <2>1, <1>t, <1>o, Alone
  <2>3. step'[c] = "returned" /\ \A d \in Calls \ {c} : step'[d] = step[d]
    BY <2>1, <1>t DEF TypeOK
  <2>4. Returned' = Returned \union {c} /\ Running' = {} /\ Returned \subseteq Calls
    BY <2>2, <2>3 DEF Returned, Running
  <2>5. \A d \in Calls : Due(d)' = Due(d)
    BY <2>1 DEF Due, Within
  <2>6. OneRuns'
    BY <2>1, <2>2, <2>4, <1>a DEF OneRuns
  <2>7. current = <<c, "recent">> /\ list[<<c, "recent">>] = Due(c) /\ current # NoList
    BY <2>1, <1>a DEF CountInv, NoList
  <2>8. Kept' = Due(c)
    BY <2>1, <2>7 DEF Kept
  <2>9. RestInv'
    <3>1. \A d \in Returned' : clock - now[d] <= DENIAL_WINDOW => Within(c, d)
      BY <2>4, <1>t, WindowAssumption DEF Within, PromptInv, TypeOK
    <3> QED
      BY <2>1, <2>2, <2>4, <2>8, <3>1 DEF RestInv, Due
  <2>10. c \notin crossed
    BY <2>2 DEF IInv, ReportInv
  <2>11. CountInv'
    BY <2>1, <2>2, <2>3, <2>5, <2>7, <2>10, <1>a DEF CountInv
  <2>12. StartInv' /\ UnusedInv'
    BY <2>1, <2>2, <2>3, <1>a DEF StartInv, UnusedInv
  <2> QED
    BY <2>6, <2>9, <2>11, <2>12 DEF AloneInv
<1>8. CASE UNCHANGED vars
  BY <1>8, <1>a DEF vars, AloneInv, OneRuns, RestInv, StartInv, CountInv, UnusedInv,
                    Running, Returned, Kept, Due, Within
<1> QED
  BY <1>1, <1>2, <1>3, <1>4, <1>5, <1>6, <1>7, <1>8 DEF Next, RecordDenial

\* For any number of calls made one at a time, the threshold is reported
\* exactly when it is met (record_denial).
THEOREM ExactWhenAloneHolds == Spec => []ExactWhenAlone
<1>1. Init => IInv /\ AloneInv
  BY InitIInv, InitAloneInv
<1>2. (IInv /\ AloneInv) /\ [Next]_vars => (IInv /\ AloneInv)'
  BY NextIInv, NextAloneInv DEF IInv
<1>3. IInv /\ AloneInv => ExactWhenAlone
  BY DEF AloneInv, CountInv, Due, Within, Returned, ExactWhenAlone
<1> QED
  BY <1>1, <1>2, <1>3, PTL DEF Spec
=============================================================================
