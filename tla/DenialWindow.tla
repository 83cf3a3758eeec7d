---------------------------- MODULE DenialWindow ----------------------------
(***************************************************************************)
(* record_denial in pep/quarantine.py: the denials of one workload in a    *)
(* sliding window, counted by pool threads that share _DENIAL_TIMES and    *)
(* take no lock.  A step is what runs between two points where the         *)
(* interpreter may switch threads and another one can notice: the clock    *)
(* read, setdefault, append, the comprehension, the assignment, len.       *)
(*                                                                         *)
(* Python lists are objects: a thread keeps appending to the list it got,  *)
(* whichever list the dictionary holds by then.  A list is named by the    *)
(* call that created it and holds the calls whose times were appended.     *)
(* The comprehension is one step because a list iterator sees what is      *)
(* appended while it runs, and these lists never shrink.                   *)
(***************************************************************************)
EXTENDS Integers, FiniteSets

CONSTANTS
  Calls,              \* calls of record_denial for this workload
  DENIAL_WINDOW,      \* DENIAL_WINDOW_SECONDS
  DENIAL_THRESHOLD,
  MaxClock            \* bound on the clock

ASSUME WindowAssumption ==
  DENIAL_WINDOW \in Nat /\ DENIAL_THRESHOLD \in Nat \ {0} /\ MaxClock \in Nat

ASSUME CallsAssumption == IsFiniteSet(Calls)

Lists  == Calls \X {"default", "recent"}
NoList == <<"none", "none">>

VARIABLES
  clock,     \* time.time()
  step,      \* step[c]: where call c stands
  now,       \* now[c]: its time stamp
  times,     \* times[c]: the list it got from the dictionary
  list,      \* list[l]: contents of each list object
  current,   \* _DENIAL_TIMES[workload_key]
  crossed,   \* the calls that returned True
  overlapped, \* history: two calls have been in progress at once
  prior      \* history, until two overlap: prior[c] had returned when c began

vars == <<clock, step, now, times, list, current, crossed, overlapped, prior>>

Steps == {"idle", "stamped", "holding", "appended", "filtered", "stored", "returned"}

Returned == {c \in Calls : step[c] = "returned"}
Running == {c \in Calls : step[c] \notin {"idle", "returned"}}

Init ==
  /\ clock = 0
  /\ step = [c \in Calls |-> "idle"]
  /\ now = [c \in Calls |-> 0]
  /\ times = [c \in Calls |-> NoList]
  /\ list = [l \in Lists |-> {}]
  /\ current = NoList
  /\ crossed = {}
  /\ overlapped = FALSE
  /\ prior = [c \in Calls |-> {}]

Advance(c, from, to) == step[c] = from /\ step' = [step EXCEPT ![c] = to]

\* A thread may be preempted anywhere, but not for a whole window.
Tick ==
  /\ clock < MaxClock
  /\ \A c \in Running : clock - now[c] < DENIAL_WINDOW
  /\ clock' = clock + 1
  /\ UNCHANGED <<step, now, times, list, current, crossed, overlapped, prior>>

\* now = time.time()
Stamp(c) ==
  /\ Advance(c, "idle", "stamped")
  /\ now' = [now EXCEPT ![c] = clock]
  /\ overlapped' = (overlapped \/ Running # {})
  /\ prior' = IF overlapped' THEN [d \in Calls |-> {}]
              ELSE [prior EXCEPT ![c] = Returned]
  /\ UNCHANGED <<clock, times, list, current, crossed>>

\* Mutant: get instead of setdefault.
HoldExisting(c) ==
  /\ Advance(c, "stamped", "holding")
  /\ times' = [times EXCEPT ![c] = current]
  /\ UNCHANGED <<clock, now, list, current, crossed, overlapped, prior>>

\* times = _DENIAL_TIMES.setdefault(workload_key, [])
Hold(c) ==
  /\ Advance(c, "stamped", "holding")
  /\ current' = IF current = NoList THEN <<c, "default">> ELSE current
  /\ times' = [times EXCEPT ![c] = current']
  /\ UNCHANGED <<clock, now, list, crossed, overlapped, prior>>

\* times.append(now)
Record(c) ==
  /\ Advance(c, "holding", "appended")
  /\ list' = [list EXCEPT ![times[c]] = @ \union {c}]
  /\ UNCHANGED <<clock, now, times, current, crossed, overlapped, prior>>

\* Mutant: the window includes one second too many.
WithinLong(c, d) == now[c] - now[d] <= DENIAL_WINDOW + 1

Within(c, d) == now[c] - now[d] <= DENIAL_WINDOW

\* recent = [t for t in times if now - t <= DENIAL_WINDOW_SECONDS]
Filter(c) ==
  /\ Advance(c, "appended", "filtered")
  /\ list' = [list EXCEPT ![<<c, "recent">>] = {d \in list[times[c]] : Within(c, d)}]
  /\ UNCHANGED <<clock, now, times, current, crossed, overlapped, prior>>

\* Mutant: the entry is dropped instead of replaced.
StoreNothing(c) ==
  /\ Advance(c, "filtered", "stored")
  /\ current' = NoList
  /\ UNCHANGED <<clock, now, times, list, crossed, overlapped, prior>>

\* _DENIAL_TIMES[workload_key] = recent
Store(c) ==
  /\ Advance(c, "filtered", "stored")
  /\ current' = <<c, "recent">>
  /\ UNCHANGED <<clock, now, times, list, crossed, overlapped, prior>>

\* return len(recent) >= DENIAL_THRESHOLD
Return(c) ==
  /\ Advance(c, "stored", "returned")
  /\ crossed' = IF Cardinality(list[<<c, "recent">>]) >= DENIAL_THRESHOLD
                THEN crossed \union {c} ELSE crossed
  /\ UNCHANGED <<clock, now, times, list, current, overlapped, prior>>

RecordDenial(c) ==
  \/ Stamp(c) \/ Hold(c) \/ Record(c) \/ Filter(c) \/ Store(c) \/ Return(c)

Next == Tick \/ \E c \in Calls : RecordDenial(c)

Spec == Init /\ [][Next]_vars

-----------------------------------------------------------------------------
TypeOK ==
  /\ clock \in 0 .. MaxClock
  /\ step \in [Calls -> Steps]
  /\ now \in [Calls -> 0 .. MaxClock]
  /\ times \in [Calls -> Lists \union {NoList}]
  /\ list \in [Lists -> SUBSET Calls]
  /\ current \in Lists \union {NoList}
  /\ crossed \subseteq Calls
  /\ overlapped \in BOOLEAN
  /\ prior \in [Calls -> SUBSET Calls]
  /\ \A c \in Calls : step[c] \notin {"idle", "stamped"} => times[c] # NoList

Denied   == {c \in Calls : step[c] \in {"appended", "filtered", "stored", "returned"}}

\* No workload is quarantined for denials it did not have: whatever the
\* interleaving, a call that reports the threshold has that many denials
\* recorded no longer than the window before it.
CrossingIsReal ==
  \A c \in crossed :
    Cardinality({d \in Denied : now[c] - now[d] <= DENIAL_WINDOW}) >= DENIAL_THRESHOLD

\* One call at a time, the count is exact: a call reports the threshold
\* exactly when it is met, however many old entries were trimmed before it.
ExactWhenAlone ==
  ~overlapped =>
    \A c \in Returned :
      c \in crossed <=>
        Cardinality({d \in prior[c] \union {c} : now[c] - now[d] <= DENIAL_WINDOW})
          >= DENIAL_THRESHOLD

-----------------------------------------------------------------------------
\* pep/quarantine.py:99 - the call that crosses the threshold returns True: once
\* that many denials of one window have been counted, some call has said so.
ThresholdIsReported ==
  \A c \in Returned :
    (/\ Running = {}
     /\ Cardinality({d \in Returned : now[d] <= now[c] /\ now[c] - now[d] <= DENIAL_WINDOW})
          >= DENIAL_THRESHOLD)
      => crossed # {}
=============================================================================
