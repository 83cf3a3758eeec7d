# A formal model of AgentFW

AgentFW puts a firewall between AI agents and the world: an agent has no route
out but the policy enforcement point (PEP), which decides each tool call in a
pipeline of stages, records the decision, and only then performs the call.
This directory holds TLA+ modules translated from the source, the TLC
configurations that check them on small instances, and theorems checked by
TLAPS.

Run `tlc -config <run>.cfg <module>` and `tlapm <module>.tla` here; which
configuration belongs to which module is in `PROJECT.json` under `runs`, and
which lines of source a definition stands for under `map`.

## 1. Inventory

| Component | State it keeps | Operations | Talks to |
|---|---|---|---|
| enforcement point: `pep/proxy.py`, `pep/pipeline.py` | `_SESSION_TAINT`, `_ISSUER_PUBLIC_KEY`, the compiled bundle; all in memory | `tool_call` -> `run_pipeline` (identity, quarantine gate, normalization, policy, taint, DLP, intel, risk, minimum), `_log_event`, `_execute` | issuer, event store, destinations |
| quarantine client: `pep/quarantine.py` | `_DENIAL_TIMES`, in memory | `is_quarantined`, `enter`, `release`, `record_denial` | event store over HTTP, 5 s timeouts |
| event store: `events/app.py`, `events/store.py` | SQLite tables `events`, `quarantine` | `POST /events`, `POST`, `GET` and `DELETE /quarantine` | PEP, dashboard, operator |
| policy engine: `policy/engine.py` | none (a `Bundle` is immutable) | `load_bundle`, `evaluate`, `evaluate_east_west` | called by the pipeline |
| policy compiler: `policy/compiler.py` | none | `compile_bundle` at PEP import and from the command line | engine |
| risk scorer: `risk/scorer.py` | per-workload call times, seen destinations, bigrams, denial streak; in memory | `score`, `record_outcome`, `warm_up` | called by the pipeline |
| identity: `identity/issuer.py`, `store.py`, `tokens.py`, `admin_cli.py` | signing key (fresh at every start), SQLite table `digest_pins` | `/attest`, `/public-key`, `verify_token`, clear a pin | Docker socket, agents, PEP |
| deployed bundle: `policy/bundles/default.yaml` | none | read once at PEP import | engine, compiler |
| normalization: `pep/normalize.py` | none | `normalize_url`, `normalize_path` | called by the pipeline |
| DLP: `dlp/detectors.py` | none | `scan`, `outcome` | called by the pipeline |
| threat intelligence: `threat_intel/feed.py` | a static list | `is_known_bad` | called by the pipeline |
| bypass listener: `pep/bypass_proxy.py` | none | answers 403 to any proxied connection, logs an event, on the PEP's event loop | event store |
| agent: `agent/*.py` | cached token, conversation | the loop, `dispatch` | issuer, PEP |
| attack suite: `attacks/*.py` | the results so far | `main` clears the quarantine table, runs each scenario in a container, grades its answers | Docker, issuer, PEP, event store |
| evaluation harness: `evals/*.py` | none | measures verdicts and latency in one process | pipeline |
| dashboard: `dashboard/app.py` | none | reads and draws events | event store |

What is hard about it, and where it bites (each with its line under `hazards`):

- **Threads.** `tool_call` is a plain `def`, so each call runs on a pool thread
  over shared, unlocked globals. One call's pipeline reads the session's taint
  and its workload's quarantine long before it acts on them, and other calls
  of the same session or workload move both meanwhile. The bypass listener
  shares the PEP's event loop and posts from it without awaiting.
- **Partial failure.** Each call makes up to seven round trips to services
  that may be down, slow, or slow enough that a request the PEP gave up on is
  carried out later. The order of these round trips is the design.
- **Crash and restart.** Taint, streaks and denial windows are memory of one
  process; events, quarantine and pins are on disk. A crash separates them.
- **Resolution.** Priorities, identifiers, deny-overrides, optional conditions
  and a structural ceiling interact; the file's author sees one rule at a time.

What makes each component correct:

- *Enforcement point*: nothing is performed without a durable executable
  verdict of its own; the caller is told the truth; no stage's objection is
  lost; a quarantined workload performs nothing; no write follows external
  content; every call is answered.
- *Quarantine*: entered only for a cause, left only by an operator, and the
  denial counter reports a threshold exactly when there is one.
- *Policy*: the verdict does not depend on file order; denials survive edits;
  taint only narrows; what the compiler calls dead is dead.
- *Identity*: a token names the container it is handed to, and whoever presents
  it is not accepted as a container that runs elsewhere; trust on first use
  gives one image per pin; revocation is bounded by a token's lifetime; a
  container's own token is refused only for its age.
- *Scorer*: without overlap every factor is what the history says; with it,
  nothing learned is forgotten and nothing is invented; evidence only narrows.
- *Normalization*: requests that mean the same are judged, and forwarded, as the
  same; a canonical path has no parent reference; a canonical form read again is
  the same form.
- *DLP, threat intelligence*: a card number is told from a mistyped one; a listed
  domain covers everything below it and nothing beside it.
- *Attack suite*: what it reports as verified did prove its mechanism; when it
  reports another mechanism, something outside the scenario's control happened;
  it comes to an end.

## 2. Modules

```
Lattice <- PolicyEngine <- PolicyCompiler <- PolicyBundle <- MCPolicyBundle
                ^               ^                  ^
                |               +------------------+-- PolicyBundleProofs
                +-- PolicyEngineProofs ----------------^
                |
                +-- Pep <- PepInvariant <- PepProofs
                     |          ^
   AuditedGate <-----+          +-- MCPep
Lattice <- RiskScore <- RiskScorer <- MCRiskScorer
                           ^------- RiskScorerProofs
PolicyEngine <- DefaultBundle <- Scenarios <- Suite <- MCSuite
                                              ^--------- SuiteProofs
Inspection <- MCInspection
    ^-------- InspectionProofs
DenialWindow <- MCDenialWindow
    ^---------- DenialWindowProofs
Identity <- IdentityProofs
    ^------ MCIdentity
```

**Lattice** is `Decision` (an `IntEnum`, so its order is the integers'), the
two sets of verdicts the code branches on, and the ceilings of the risk bands.

**PolicyEngine** is `evaluate` and `evaluate_east_west` as operators on a rule
sequence. A glob is the set of names it matches; an optional field is the empty
set or a singleton; an identifier is its rank in string order, which is all that
the sort key `(-priority, id)` uses. `min()` returns the first of equal keys,
so two rules with one identifier are resolved by file order; the compiler does
not reject this, and the model keeps it.

**PolicyCompiler** is `compile_bundle`: the errors that reject a bundle and the
shadow warnings that do not. The critical-path check is satisfied by any rule
so flagged, a DENY rule included, as in the code.

**PolicyBundle** is a state machine whose state is a bundle and whose steps
append a rule. It turns statements about all bundles into invariants, and
statements about an edit into action properties. The edits are an author's, on
the bundle file, and external to the code, which only ever loads a whole file.

**Pep** is the core: one process per call. The correspondence with the code:

| Action | Code |
|---|---|
| `Arrive` | `tool_call` is entered |
| `Identify` | stage 1, `_verify_identity`; refusing a good token stands for an unreachable issuer |
| `CheckQuarantine` | the gate; refusing a free workload stands for `QuarantineCheckUnavailable` |
| `Decide` | stages 2-7 up to `final = min(...)`: it reads the taint once and touches nothing else shared |
| `RecordOutcome` | the taint write, `record_denial`, and which triggers fired |
| `PostEnter` | one `quarantine.enter`; a call posts up to three, in the code's order |
| `LogEvent` | `_build_event`, `_log_event`, the fall back to DENY |
| `LogDenial` | the second, best-effort log |
| `Execute`, `Respond` | `_execute`; the response |
| `Raise` | a `ValueError` of URL parsing leaves the handler as a 500 |
| `LandEnter`, `LandEvent` | a post the PEP timed out on is committed after all |
| `Release` | the operator's `DELETE /quarantine/<workload>` |
| `Restart` | the PEP container dies: memory and calls in flight are gone |

A step is what runs between two points at which another thread, a service or
a crash can be observed. The bind of a token to its peer, whether a host is
external or listed, the DLP scan's result and whether a URL parses are
attributes of the request. The risk score is any the scorer could give: only a
threat-intelligence hit is known to bound it from below (60 points, so HIGH or
CRITICAL; `HitIsHigh` proves it of the scorer). Whether a denial crosses the
threshold is free; `DenialWindow` models that function. The policy is a constant,
assumed only what `PolicyEngineProofs` proves of every bundle
(`VerdictAssumption`).

**AuditedGate** is the abstract specification: an audit trail, effects and
answers, with three actions. `Pep` implements it with `audit <- events`,
`effects <- executed`, `answers <- answer`.

**DenialWindow** is `record_denial` statement by statement, with Python's
list objects: `setdefault` gives a thread a list it goes on appending to even
after another thread replaced it in the dictionary. `ThresholdIsReported`
compares what was counted with what was reported. `Tick` lets no thread be
preempted for longer than the window (60 s in the code) and time never runs
backwards; with a clock step, or a thread asleep for a minute, fewer denials
are counted still.

**RiskScore** is the arithmetic of the scorer: points, caps, bands. **RiskScorer**
is its state, one action per operation on a shared dictionary, set or list.
`score()` goes through `ScoreOrg`, `ScoreAgent` (destinations), `ReadClock`,
`GetTimes`, `CountTimes` (rate), `ReadLast`, `ScorePair` (bigrams), `ScoreStreak`;
`record_outcome()` through `Stamp` to `Store` (call times), `AddOrg`, `AddAgent`,
`RecordLast`, `AddPair`, `SetLast`, `ReadStreak`, `WriteStreak`, `ResetStreak`. Both
functions do all four parts; no statement reads one part and writes another,
and a recorded outcome depends on the score in nothing, for no score denies
(`RiskNeverDenies`). The machine is thus a product of four, and a behaviour of
the module follows one of them (`part`), the others being projected away. The
reference (`Expected`) computes each factor from the history alone. `warm_up`
is a choice of the initial state; only the harnesses call it, from one thread.

**Identity** is who a call is. Its processes are the issuer's event loop, the
operator's command, agent processes in containers, and threads of stage 1:

| Action | Code |
|---|---|
| `Start`, `Stop`, `Tick` | Docker gives an address, takes it back; time passes (external) |
| `Ask` | `_attest` in the agent finds no cached token |
| `Lookup` | the only await of `/attest`: Docker's answer, or its failure |
| `InsertPin`, `ReadBack` | the rest of the handler, cut at the commit between the two statements of `get_or_set`, where the operator's process can come in; the event loop cannot |
| `ClearPin` | `admin_cli clear-pin` |
| `IssuerRestart` | a new key pair, the same pin table |
| `Present`, `FetchKey`, `StoreKey`, `Verify` | a tool call with a token; stage 1, cut where another thread can see `_ISSUER_PUBLIC_KEY` |
| `PepRestart` | the cached key and the calls in flight are gone |

Every token ever signed stays in `minted`, and every one that reached an agent in
`received`. These are bearer tokens: `Present` lets any running container send any of
them, from the address it has, so that the comparison in `Verifies` decides and
not the model. `ReadBack` hands a token to the container that still waits for it, if
one does. A refusal (`Refuse`) ends the agent's process, for `raise_for_status`
does. The issuer's handler, from Docker's answer to the signed token, takes less
than a tick. `Pep` takes from this module that a call is either refused or bound to a
workload; when an address was taken over, the workload may be that of the container
that had it before (`TokenDiesWithContainer` is violated).

**Inspection** is what the PEP computes from the text of one request, one action
per stage: `Normalize` (stage 2), `LookUp` (stage 4), `Inspect` (stage 5). A path
is a sequence of tokens with the number of times each is percent-encoded, so the
decoding rounds, the segments and the stack of `normpath` are those of the code
and the characters are not. `Segments`, `Collapse`, `Join` and `Checksum` are the loops
of the code, as recursive functions with their step as an operator; `Sorted` is `sorted()`
by what it promises. A host goes through `Idna`: the codec is a function on labels
(`ToAscii`), a host with a label it does not take keeps its labels, in lower case. A regular expression or the entropy threshold of DLP
is the kind of word it finds; the Luhn checksum is on digits. `ReadBack` is
`urlsplit` on the text of a canonical URL, which the code reads again to get the
resource and the event's destination.

**DefaultBundle** is the deployed policy, rule by rule. **Scenarios** is what each
of the ten attack scripts sends, as whom, and what it expects, with the verdict
stages 3 to 7 give it. **Suite** runs them: the orchestrator on the host, the
script in its container, and the PEP with its event loop, its memory of denials
and the quarantine table, all three going on after a script's timeout.

| Action | Code |
|---|---|
| `Start` | `_stack_reachable`; without the stack everything runs in process and is not verified live |
| `List`, `Relist`, `DeleteListed`, `Verify` | `clear_and_verify_quarantine`: one `docker compose exec` each |
| `Dispatch`, `Report` | `_dispatch`: `docker compose run`, and the result read from its output |
| `CommandFails` | a command fails or times out, and `main` raises |
| `Attest`, `Reattest` | the script's token and the check of its role |
| `Send`, `Receive`, `GiveUp` | one call of the script; its answer and its grade; its timeout |
| `Accept`, `Answer` | the PEP's event loop takes a call, sends an answer |
| `LogBypass` | `_log_bypass`: the post during which the loop does neither |
| `Gate`, `Decide`, `Enter`, `Log` | `run_pipeline` and the rest of `tool_call`, coarser than in `Pep` |
| `LateEnter` | a quarantine post that timed out lands |

Time is not counted: between two denials any of the oldest may have left the
window. When `main` raises, the model ends the script with it, although a
`docker compose run` that is killed may leave its container running.

## 3. Runs

| Run | Question | Instance |
|---|---|---|
| `pep_safety` | is anything performed that should not be? | 2 calls, 7 kinds of request, 1 restart |
| `pep_progress` | can a write follow content? is every call answered? | 2 calls, two workloads sharing a session, no restart |
| `pep_taint_restart` | does taint outlive the process? *no* | as above with 1 restart |
| `policy_resolution` | is resolution what authors think it is? | all bundles of up to 3 rules out of 36 + 16 |
| `denial_window` | is a reported threshold real, and exact without overlap? | 4 threads, threshold 3, window 1 |
| `denial_lost` | is every threshold reported? *no* | 3 threads, threshold 3 |
| `risk_scorer` | are the behavioural factors what the history says? what can overlap do to them? | 3 calls, 2 workloads, 4 requests, threshold 2, window 1 of 2 ticks, cold or warm |
| `identity` | is a token for the right image, and in the right hands? whom can a caller pass for? does a revocation end access? is only age a reason to refuse a container's own token? | 3 containers, two of which take over one address and one beside them, 2 attestations, 2 calls, 2 issuer processes, 1 tick |
| `identity_reuse` | does a token die with its container? *no* | as `identity`, 1 call |
| `inspection` | is a request judged as its plainest spelling? when is a canonical form stable? are listed domains and card numbers told from their neighbours? | every path of up to 4 tokens encoded 0, 5 or 6 times, hosts of up to 4 labels, queries of up to 3 pairs, numbers of 12, 13, 16 and 19 digits |
| `inspection_idempotent` | does normalizing twice change nothing? *it may* | paths of up to 2 tokens |
| `suite` | is what the suite reports verified earned? has a mismatch a cause? does the suite end? | six scenarios on shared workloads, up to 2 denials from before, a quarantine from before, 1 fault |

Why the bounds are enough. What one call can do to another goes through one of
`taint`, `quarantine`, `events`; two calls already give every order of one's
reads and the other's writes, and the safety properties relate at most two
calls (`afterContent` the reader and the writer, `barred` the trigger and the
late-comer). They are also proved for any number of calls. The seven requests
are one per path through the pipeline: tainting, redacted, blocked, agent to
agent, threat-listed, forged, unparsable. One restart is enough to lose memory.
A rule's interaction with the resolution is pairwise, the third rule
is there so that one can be shadowed by the second while the third decides.
A threshold of three (5 in the code) and a window of one tick (60 s) keep the
two boundaries; four calls leave one to be trimmed. The scorer's
threshold of two (5) and window of one tick (60 s) keep its boundaries with three
calls, which also give a chain of two bigrams and a streak of two. For identity,
one address taken over by containers of two services, a container at another
address, and one service with two images are what the lookup, the binding and the pin
can confuse; two attestations race, two calls race for the key, a second issuer
process has another key, and a tick in which a token's lifetime (`TTL = 0`, 15 minutes
in the code) just ends leaves it at its boundary before and expired after it.

For normalization, five and six encodings are the two sides of the bound on the
rounds, and four tokens are the shortest path in which a parent reference
removes a segment between two slashes. Four labels exceed the longest listed name by
two, one that is looked up and one that is cut off. The digits
vary where the parity of the length moves the doubling: at the front, next to last and
last. For the suite, the six scenarios are one of each way to run (`single`, `loop`,
`raw`, `cascade`), one sent to a container of another role, and enough of them on one
service for the denials of one to reach the threshold in the next: with two from
before, A1, A4 and A6 make five. One fault already gives an abandoned call, a
late post or a failing service; the scenarios left out (A2, A5, A7, A8) run as the
single ones do. `MaxEarlier` and `MaxFaults` bound the denials and the faults.

`CHECK_DEADLOCK FALSE` because every instance makes a fixed number of calls (or
writes a bounded number of rules) and then rightly stops.

Each violation is a disagreement between a comment or document and the code,
quoted under `findings`. In short:

- `pep_taint_restart`: a PEP restart washes every session clean;
- `denial_lost`: two threads that trim the denial list together lose a denial;
- `identity_reuse`: the binding compares addresses, so a token outlives its container
  and is good for whoever is given its address within the token's lifetime;
- `inspection_idempotent`: a `?` decoded in a URL's path is a query when the canonical URL
  is read again: `/%3F` becomes `/?`, and that `/`.

Behaviour of the code that the model keeps and a reader may want to know:

- a URL such as one with an out-of-range port, sent with a genuine token, passes identity
  and the gate and then raises out of `run_pipeline` (`pep/pipeline.py:122`; the
  docstring at line 88 says "Never raises for a bad caller, bad tool, or bad request
  shape"): the `Raise` of `Pep`, a 500 that leaves no event and performs nothing;
- the shadow check does not look at the shadowing rule's taint condition, so an ALLOW for
  clean sessions is reported as shadowed by a DENY for tainted ones, although they never
  match together (`policy/compiler.py:169` says that they do); hence the premise of
  `ShadowedNeverDecides`;
- a post of `quarantine.enter` answered with an HTTP error is swallowed without a
  log line; one that lands late can quarantine a workload again after its release;
- a call past the gate when its workload is quarantined is finished;
- a `RATE_LIMIT` call is performed by the PEP, while `agent/tools.py` shows it to
  the agent as denied;
- in a tainted session one more ALLOW rule may take a permission away, by winning
  with a higher data class;
- a `QUARANTINE` verdict ends a denial streak as an ALLOW does, and a late denial
  may write back a streak that another call has ended;
- a crash between the post of a quarantine and the log of the call leaves the row
  without the event that would say why;
- after the issuer restarts the PEP verifies with the key it cached: old tokens stay
  good and new ones are refused until it restarts too (finding H1 of
  `docs/hostile-review.md`);
- normalization is idempotent for a path encoded at most five times out of which no
  `?` or `#` is decoded; `CanonicalIsStable` says that these are exactly the cases;
- the suite clears the quarantine table but not the PEP's memory of denials: run
  again within a minute, A6's own second call may cross the threshold, and its third is
  denied as `AGENT_QUARANTINED` instead;
- a quarantine post that timed out may land after the suite has found the table empty;
- no service attests as `admin_agent`, so A3 is never verified live and the suite
  never exits with 0;
- while `_log_bypass` waits for a dead event store, five seconds, no other call
  is accepted or answered; a raw connection's 403 then arrives after the two seconds
  of the scripts' own timeout (`attacks/a9.py` waits eight in its own check);
- the running PEP never calls `warm_up`, so it starts cold
  (`docs/architecture.md:174` reads as if it did not).

### Fairness

`EveryCallIsAnswered` assumes weak fairness of each call's own next step
(`WF_vars(Serve(c))`) and nothing else. The code justifies it: the operating
system schedules pool threads, every round trip has a timeout, no step waits for
another call, and a started handler is never cancelled. Nothing is assumed of
late posts, operators, restarts or new calls. `Serve(c)` is never disabled once
enabled except by a restart, so weak fairness is enough.

`SuiteEnds` assumes `WF_vars(Host)`, for every command and every request of the
suite has a timeout and what raises ends it, and `WF_vars(ServeSome)`: that the PEP
goes on with some call. A call has finitely many steps, none of which goes back, and the
suite makes finitely many calls, so none is left behind. Nothing is assumed of
faults or of late posts: the event store owes them nothing.

## 4. Proofs

| Theorem | Module | States |
|---|---|---|
| `TypeCorrect`, `InvariantHolds` | PepProofs | `[]TypeOK`, `[]IInv` |
| `LogOrDenyHolds`, `AnswerIsTruthfulHolds`, `EveryStageAgreedHolds`, `TriggerIsNotPerformedHolds`, `QuarantineIsAbsoluteHolds`, `TaintBeforeContentHolds` | PepProofs | the invariants of `pep_safety` and `pep_progress` |
| `OnlyNarrowsHolds`, `ExitIsManualHolds` | PepProofs | the action properties |
| `PepImplementsGate` | PepProofs | `Spec => Gate!Spec` |
| `EvaluateMeetsVerdictAssumption`, `VerdictIsBinary`, `TaintedWriteIsDenied`, `MatchingDenyDenies`, `AppendKeepsDeny`, `AllowHasRule`, `EastWestAllowHasRule` | PolicyEngineProofs | facts about `Evaluate` for any rules |
| `TaintedNeverWritesOutHolds`, `TaintNarrowsHolds`, `DenialsSurviveEditsHolds`, `AllowsAddUpHolds` | PolicyBundleProofs | for any pool of rules and any length |
| `OrderIndependenceHolds`, `ShadowedNeverDecidesHolds` | PolicyBundleProofs | two files with the same rules decide alike; a rule the compiler warns of never decides |
| `IdentityInvariant`, `IdentityTypeCorrect`, `OneImagePerPinHolds`, `SeedDecidesHolds`, `TokenIsOwnHolds`, `BoundToItsAddressHolds` | IdentityProofs | `[]IInv` and the invariants of `identity` |
| `RevocationIsBoundedHolds`, `RefusedOnlyForAgeHolds` | IdentityProofs | the action properties of `identity` |
| `HitIsHigh`, `RiskNeverDenies`, `EvidenceNarrows`, `StreakAloneExecutes` | RiskScorerProofs | for every factor vector |
| `LearnedForGoodHolds`, `StreakIsEarnedHolds`, `RateIsRealHolds` | RiskScorerProofs | what overlapping calls cannot do to the factors |
| `ScorerTypeCorrect` | RiskScorerProofs | `[]TypeOK`, the bound on streaks included |
| `ExactWhenAloneHolds` | RiskScorerProofs | with calls one at a time, every factor is what the whole history says |
| `DenialInvariant`, `DenialTypeCorrect`, `CrossingIsRealHolds` | DenialWindowProofs | `[]IInv` and two invariants of `denial_window` |
| `ExactWhenAloneHolds` | DenialWindowProofs | with calls one at a time, the count is the number of denials in the window |
| `SuiteInvariant`, `SuiteTypeOK` | SuiteProofs | `[]IInv`, `[]TypeOK` |
| `VerifiedIsEarnedHolds`, `MismatchHasCauseHolds` | SuiteProofs | the two safety properties of `suite`, for every selection and order of scenarios |
| `SubdomainsAreCovered` | InspectionProofs | a fact about `IsKnownBad` for any list |
| `InspectionInvariant` | InspectionProofs | what each stage knows of the ones before |
| `ListingCoversSubdomainsHolds`, `TypoIsNotACardHolds`, `SpellingIsIrrelevantHolds`, `CanonicalIsStableHolds` | InspectionProofs | the four invariants of `inspection`, for paths, queries, hosts, lists and texts of any length |

They hold for every set of calls, requests, workloads and sessions, every policy
that meets `VerdictAssumption`, any list of bad names and any number of restarts; those
that count, for every finite set of calls (`CallsAssumption`), any window and threshold;
those of the suite, for every selection of its scenarios, each at most once and in
any order (`AttacksAssumption`, as `ATTACK_SPECS` lists each once), any bounds on earlier denials (at least one, `BoundsAssumption`) and on faults. The other
assumptions name what the code makes so: priorities are integers and identifiers are
ranks other than the default's (`RulesAssumption`); a role that has not called yet reads
as no tool (`NoToolAssumption`, `_LAST_TOOL.get(role)` is `None`); a workload without a
quarantine row reads as no row (`NoRowAssumption`).

**The argument for Pep.** None of the safety properties is inductive: `LogOrDeny`
says nothing of a call about to be performed, `QuarantineIsAbsolute` nothing of
one still in the pipeline. `IInv` (module `PepInvariant`) has the types (`TypeOK`) and says
what each stage of a call may rely on:

- `UndecidedInv`: before the minimum is taken, and after a log failure, the
  decision is DENY;
- `AuditInv`: at `execute` the verdict is executable and stored; at `respond`
  the verdict is executable exactly when the call was performed; answers exist
  exactly for calls that are done;
- `AgreedInv`: an executable decision has policy, DLP and risk behind it;
- `TriggerInv`: a call that met a trigger has no executable decision - a streak
  comes of a blocked one, CRITICAL caps at QUARANTINE, and an intelligence hit
  caps at REQUIRE_APPROVAL or below;
- `BarredInv`: a barred call is never past the gate, and its workload's row is
  still there, for every removal clears `barred`;
- `TaintInv`: without a restart, a call whose content is or will be returned has
  tainted its session, so a call made after content reads `tainted`, and the
  policy assumption denies a write.

`PepProofs` proves one lemma per action. The refinement maps `LogEvent`,
`LogDenial` and `LandEvent` to `Record` (or a stutter), `Execute` to `Perform`,
`Respond` and `Raise` to `Answer`, and everything else to stuttering; `AuditInv`
gives the abstract guards.

**The argument for bundles.** `Candidates` does not depend on effects or on later
rules, so an appended rule leaves the old candidates candidates: the DENY that
stopped a query still matches. `TaintNarrows` needs its premise: a rule that
allows only the tainted, or denies only the clean, makes taint useful.
`OrderIndependence` compares the winners of two files. `Precedes`, the sort key with
the file position behind it, is a strict total order on positions, and a finite
non-empty set of positions has a least element; so the winner exists, is unique, and
no candidate's key is smaller than its. A permutation of the file carries candidates to
candidates with the same keys; with unique identifiers the smallest key belongs to one rule, so
both files choose that rule. `ShadowedNeverDecides`: every request a shadowed rule
matches, its shadow matches with a higher priority, so the shadowed rule is never the least.

**The argument for identity.** `OneImagePerPin` compares two tokens, and is not
inductive: nothing in it says what the pin is when a token is signed. `IInv`
adds it: a token of the current epoch has the pinned image (`MintedInv`), so a
second one has the same, and a clearing starts an epoch. `PinInv` says that the
pin of a seeded service is its seed or nothing. `TokenIsOwn` needs
`ConnectionInv`: a connection that still has somebody to answer belongs to a
running container that kept its address, so the container Docker found there is
the one that asks, although it may be gone and its address reused before the
token exists; then nobody is handed the token. `BoundToItsAddress` joins two facts:
an accepted call's token was signed for the caller's address (`CallInv`), which is that of the
container it names (`MintedInv`), and two running containers never share an
address (`ConnectionInv`); a caller other than that container can only have taken its
address over. `RevocationIsBounded` follows
from the last conjunct of `MintedInv`: a token whose image is not pinned was
signed before the last clearing, and is accepted only while fresh.
`RefusedOnlyForAge` follows from `KeyInv`, with one issuer process there is one
key, whichever thread stores it last, and from the same equality of addresses. The
theorems hold for any containers, addresses, seeds, clocks, lifetimes and numbers of restarts.

**The argument for the denial counter.** `CrossingIsReal` counts the denials of
the window of the call that reported, while the code counts a list that other
threads go on changing. `IInv` says: lists hold recorded denials only (`ListsInv`);
no thread is preempted for longer than the window, which is `Tick`'s guard (`PromptInv`);
so that a list a call has filtered holds from then on only times in its own window, its
own and those appended since (`RecentInv`). The counted list is thus part of the set
the property counts, and inclusion bounds the count. `ExactWhenAlone` is the other
inclusion, for runs without overlap (`AloneInv`): at most one call is inside the function
(`OneRuns`), and between calls the dictionary's list still holds every denial that a
later window can reach (`RestInv`), for what filtering drops has left every later
window too. From there `StartInv` and `CountInv` follow the one call through its
steps: after the filter its list is exactly the set of denials due.

**The argument for the scorer.** `PartIsFixed` lets each property be proved for the part
of the state it is about. *Destinations*: what a finished call added is in the sets for
good, since nothing removes from them, and a baseline is in them from the start.
*Streaks*: a streak, and the value a thread is about to write, is at most the
number of denials decided, and writing one more decides one more (`StreakInv`). *Rate*:
lists are shared, replaced and trimmed from other lists, so `RateInv` follows
ownership: the dictionary, and the local variable of a call, only ever lead to a list made by a
call of the same workload, and such a list holds recorded calls of that workload.
A lost update can then drop a call time, but what is counted is always a part of the
real burst. *Types*: `TypeInv` carries what a call's steps have read and not yet written, and
the bound on a streak is the number of denials decided, again from `StreakInv`.

`ExactWhenAlone` compares the dictionaries, updated call by call, with a definition on
the whole history. Its invariant says that without overlap each part of the state is a function
of the story told so far, and that a call between two writes has told its
half: destinations and bigrams are the sets of the story (`DestinationsAlone`,
`BigramsAlone`), a streak is the length of the trailing run of denials
(`StreaksAlone`), and a list of call times is complete for the window of every call yet to come,
whatever was trimmed (`TimesAlone`). Each step then appends at most one event to
the story, and a few lemmas say what one event does to the definition
(`DestinationsGrow`, `TrailingGrows`); no induction over the history is needed, the
invariant is the induction.

**The argument for the suite.** `VerifiedIsEarned` and `MismatchHasCause` look at
the script's verdict on a call that is long over, so `IInv` follows the evidence from
where it arises: where a quarantine row may come from (`FreshInv`) and which row a call met
(`RowInv`); how each call got its verdict, given what it met (`ReasonInv`); which
calls of a scenario can only be refused because an earlier one was (`CascadeInv`); where
the script stands and what it has stored (`ScriptInv`, `ResultInv`); and what has not
been sent, or was sent and not yet served (`UnsentInv`, `ClientInv`). What is left is what the
deployed bundle says of each graded call on its merits (`MeritVerdict`), and this is proved
from the bundle's rules, scenario by scenario. A row that exists without a fault or an
earlier scenario's denials is impossible by `FreshInv`, which is what
`MismatchHasCause` names as its cause.

**The argument for inspection.** `IInv` is plain here: what the stages store is
`NormalizeArguments`, `IsKnownBad` and `Outcome` of what came before. The work is in what these
compute on inputs of any length, and they are loops.

*Loops.* The library states induction with an operator as a parameter, which no installed
prover can instantiate. `NatSetInduction`, `UpToInduction` and `SeqSetInduction` state it
for a set: one that has the base and is closed under the step has everything; the first comes from
the least element of a well-founded order, and the others follow. `LoopIsIt` and `LoopUnfolds`
then say that a recursive function over a sequence takes its values step by step.

*Threat intelligence.* That the loop over the parent domains finds a listed name exactly when
the name is a suffix is a lemma about sequences. The name is that of the normalized host,
which normalizing again leaves as it is (`HostIsStable`): the codec takes its own output and
returns it (`IdnaAssumption`), and a host it refused is refused again.

*DLP.* Changing one digit changes the checksum by the change of that position's weight
(`ChecksumChanges`), the weights of different digits differ by one to nine
(`DoubledIsInjective`), and a multiple of ten so changed is none.

*Spelling.* Five rounds peel five layers off every token (`DecodeIsPeeled`), so a path that is
encoded at most five times decodes to its plain form, which decodes to itself. The query
without its disputed pairs has the same keys and the same last occurrences
(`UndisputedKeepsLast`), for a finite set of keys can be listed in order, and each once
(`SortedListsAll`).

*Stability.* A canonical path is empty, the root, or a stack of clean segments joined
(`Forms`). Splitting a joined stack gives back its segments (`SegmentsOfJoin`) and
collapsing clean segments changes nothing (`CollapseOfClean`), so a path with nothing to decode
is left alone; a canonical query is in order with one pair for a key (`QueryIsStable`). For the
converse, suppose the path comes back from being read and normalized again: decoding takes a layer off
every token that has one, and collapsing adds none, so a path with at most n + 1 layers has
at most n (`StableIsDecoded`), and so none. A question mark in it would be cut off when it
is read and, with nothing left to decode, would not come back (`CutStaysCut`).

**Only model-checked.** Liveness (`EveryCallIsAnswered`, `SuiteEnds`), which the prover's
temporal logic does not cover. Every other property of a passing run is proved.

## 5. Not modelled

- YAML and JSON parsing, HTTP framing, event formatting, the dashboard: pure I/O
  or reading.
- The evaluation harness (`evals/score.py`, `evals/bench_pep.py`): a single-threaded
  measurement of the pipeline over a labelled corpus, and a latency benchmark. It keeps
  no state of the system; the verdicts it tallies are the modelled ones.
- The supplementary replays of the attack scripts inside one process: they call the
  same functions with services replaced by stubs, and only fill the printed notes.
- A live model provider of the agent: `Suite` follows the scripted one.
- The contents of a destination's answer; a destination that fails is a result
  like any other (`_execute` catches `httpx.HTTPError`). Exceptions of `_execute`
  on arguments that lack a key are outside the model.
- Hosts that are IPv6 literals, and in `Inspection` URLs that do not parse (`Pep` has
  them). `normalize_url` drops the brackets of a literal, so its canonical URL does
  not parse again.
- The regular expressions and the entropy of DLP, and the glob matcher, as algorithms.
- Concurrency inside SQLite: each statement of the store commits alone.

## 6. Plan

In this order, what matters most to the running system first:

1. *(done)* Lattice, PolicyEngine, AuditedGate, Pep, its invariant and proofs.
2. *(done)* PolicyCompiler, PolicyBundle and proofs; DenialWindow and proofs.
3. *(done)* Identity and its proofs.
4. *(done)* RiskScore, RiskScorer and proofs.
5. *(done)* Inspection: normalization, threat intelligence, DLP, and proofs.
6. *(done)* DefaultBundle, Scenarios, Suite: the deployed policy, the agent's loop and
   the attack suite against the PEP.
7. *(done)* An inductive invariant for `Suite`; exactness of the two sets of counters; the
   properties of bundles that compare winners.
8. Left: the local replays of the attack scripts, and a refinement of `Suite`'s coarse
   pipeline by `Pep`.
