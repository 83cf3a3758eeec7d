------------------------------ MODULE Identity ------------------------------
(***************************************************************************)
(* Workload identity: the issuer (identity/issuer.py) with its pin store   *)
(* (store.py) and its operator (admin_cli.py), the agents that cache a     *)
(* token (agent/tools.py), and the enforcement point's stage 1             *)
(* (pep/pipeline.py, tokens.py).                                           *)
(*                                                                         *)
(* /attest is async and awaits only Docker: requests interleave at that    *)
(* await, and from there to the minted token the event loop runs one of    *)
(* them.  The operator's command is a process of its own and may come      *)
(* between the two statements of get_or_set.  Stage 1 runs on pool         *)
(* threads that share the cached key without a lock.                       *)
(*                                                                         *)
(* A container is a record with the service label, image digest and        *)
(* address Docker gave it; a key is the number of the issuer process that  *)
(* generated it.  A token is a bearer token: once an agent has received    *)
(* it, any container may present it, from the address it has then.         *)
(***************************************************************************)
EXTENDS Integers

CONSTANTS
  Containers,     \* records [service, image, ip, ...]
  AGENT_REGISTRY, \* registered services
  Seed,           \* Seed[s]: EXPECTED_DIGEST of s, or NoImage
  NoImage, NoOne, NoToken,
  Attests,        \* the attestation requests made
  Calls,          \* the tool calls made
  TTL,            \* TOKEN_TTL_SECONDS
  MaxClock,       \* bound on the clock
  MaxKey          \* bound on the issuer's processes

Services == {k.service : k \in Containers}
Images   == {k.image : k \in Containers} \union {Seed[s] : s \in AGENT_REGISTRY}

ASSUME IdentityAssumption ==
  /\ AGENT_REGISTRY \subseteq Services
  /\ NoImage \notin {k.image : k \in Containers}
  /\ NoOne \notin Containers
  /\ TTL \in Nat /\ MaxClock \in Nat /\ MaxKey \in Nat \ {0}

NoKey == 0
NEVER == -1

Token == [service : Services, container : Containers, image : Images, ip : {k.ip : k \in Containers},
          key : 1 .. MaxKey, iat : 0 .. MaxClock, epoch : Nat]

ASSUME NoTokenAssumption == NoToken \notin Token

VARIABLES
  clock,
  running,  \* containers Docker has running
  held,     \* held[k]: _token_cache of the agent process in k
  key,      \* the key pair of the issuer's process
  pins,     \* the digest_pins table
  att,      \* att[a]: where request a stands, who waits for it, what was found
  minted,   \* every token signed so far
  received, \* those that reached an agent: from then on anyone may hold them
  pepKey,   \* _ISSUER_PUBLIC_KEY
  call,     \* call[c]: a thread of stage 1
  epoch,    \* history: how often the pin of a service was cleared
  cleared   \* history: when it was cleared last

issuer  == <<key, pins, att, minted>>
agents  == <<held, received>>
history == <<epoch, cleared>>
vars    == <<clock, running, agents, issuer, pepKey, call, history>>

AttestStages == {"idle", "lookup", "pin", "readback", "done"}
CallStages   == {"idle", "key", "store", "verify", "accepted", "refused",
                 "unavailable", "lost"}

\* A thread that has no call, or is done with one it did not accept.
NoCall(stage) == [stage |-> stage, caller |-> NoOne, token |-> NoToken, fetched |-> NoKey]

Init ==
  /\ clock = 0
  /\ running = {}
  /\ held = [k \in Containers |-> NoToken]
  /\ key = 1
  /\ pins = [s \in AGENT_REGISTRY |-> NoImage]
  /\ att = [a \in Attests |-> [stage |-> "idle", asker |-> NoOne, ip |-> NoOne, info |-> NoOne]]
  /\ minted = {} /\ received = {}
  /\ pepKey = NoKey
  /\ call = [c \in Calls |-> NoCall("idle")]
  /\ epoch = [s \in AGENT_REGISTRY |-> 0]
  /\ cleared = [s \in AGENT_REGISTRY |-> NEVER]

\* The event loop is inside a handler that does not await.
IssuerBusy == \E a \in Attests : att[a].stage = "readback"

-----------------------------------------------------------------------------
(* Docker.  The connections of a container that stops are closed.          *)

Closed(K) == [a \in Attests |-> IF att[a].asker \in K THEN [att[a] EXCEPT !.asker = NoOne]
                                ELSE att[a]]

Start(k) ==
  /\ k \notin running
  /\ \A j \in running : j.ip # k.ip
  /\ running' = running \union {k}
  /\ UNCHANGED <<clock, agents, issuer, pepKey, call, history>>

Stop(k) ==
  /\ k \in running
  /\ running' = running \ {k}
  /\ held' = [held EXCEPT ![k] = NoToken]
  /\ att' = Closed({k})
  /\ UNCHANGED <<clock, received, key, pins, minted, pepKey, call, history>>

\* The issuer's handler takes far less than a token's lifetime.
Tick ==
  /\ clock < MaxClock
  /\ ~IssuerBusy
  /\ clock' = clock + 1
  /\ UNCHANGED <<running, agents, issuer, pepKey, call, history>>

-----------------------------------------------------------------------------
(* POST /attest.                                                           *)

\* _attest in the agent: asked once, the token is kept as long as the process.
Ask(k, a) ==
  /\ k \in running /\ held[k] = NoToken
  /\ att[a].stage = "idle"
  /\ \A b \in Attests : att[b].asker # k
  /\ att' = [att EXCEPT ![a] = [stage |-> "lookup", asker |-> k, ip |-> k.ip, info |-> NoOne]]
  /\ UNCHANGED <<clock, running, agents, key, pins, minted, pepKey, call, history>>

\* A refusal or a fault: raise_for_status ends the agent's process.
Refuse(a) ==
  /\ att' = [att EXCEPT ![a] = [stage |-> "done", asker |-> NoOne, ip |-> NoOne, info |-> NoOne]]
  /\ running' = running \ {att[a].asker}
  /\ UNCHANGED <<clock, agents, key, minted, pepKey, call, history>>

\* Mutant: the listing includes stopped containers.
ListedAt(ip) == {k \in Containers : k.ip = ip}

\* GET /containers/json lists what runs now.
RunningAt(ip) == {k \in running : k.ip = ip}

\* The await of Docker's answer; it may fail or find nobody.
Lookup(a) ==
  /\ att[a].stage = "lookup"
  /\ \/ Refuse(a) /\ UNCHANGED pins
     \/ \E k \in RunningAt(att[a].ip) :
          /\ att' = [att EXCEPT ![a].stage = "pin", ![a].info = k]
          /\ UNCHANGED <<clock, running, agents, key, pins, minted, pepKey, call, history>>

\* registered.image_digest or info["image_digest"]
SeedDigest(k) == IF Seed[k.service] # NoImage THEN Seed[k.service] ELSE k.image

\* Mutants: INSERT OR REPLACE; the pre-seed is forgotten; columns swapped.
PinReplaced(k) == [pins EXCEPT ![k.service] = SeedDigest(k)]
PinUnseeded(k) == IF pins[k.service] = NoImage THEN [pins EXCEPT ![k.service] = k.image] ELSE pins
PinSwapped(k) == IF pins[k.service] = NoImage THEN [pins EXCEPT ![k.service] = k.service] ELSE pins

\* INSERT OR IGNORE
Pinned(k) ==
  IF pins[k.service] = NoImage THEN [pins EXCEPT ![k.service] = SeedDigest(k)] ELSE pins

\* The handler resumes: the registry, then the first statement of get_or_set.
InsertPin(a) ==
  /\ att[a].stage = "pin"
  /\ ~IssuerBusy
  /\ \/ Refuse(a) /\ UNCHANGED pins     \* not registered, or the store fails
     \/ /\ att[a].info.service \in AGENT_REGISTRY
        /\ pins' = Pinned(att[a].info)
        /\ att' = [att EXCEPT ![a].stage = "readback"]
        /\ UNCHANGED <<clock, running, agents, key, minted, pepKey, call, history>>

\* mint_token for the container that was found.
Mint(k, ip) ==
  [service |-> k.service, container |-> k, image |-> k.image, ip |-> ip,
   key |-> key, iat |-> clock, epoch |-> epoch[k.service]]

\* The read-back: a pin cleared meanwhile is a fault, another digest a refusal.
ReadBack(a) ==
  LET k == att[a].info
  IN
  /\ att[a].stage = "readback"
  /\ \/ Refuse(a) /\ UNCHANGED pins     \* so is a store that fails
     \/ /\ pins[k.service] = k.image
        /\ minted' = minted \union {Mint(k, att[a].ip)}
        /\ IF att[a].asker = NoOne THEN UNCHANGED agents
           ELSE /\ held' = [held EXCEPT ![att[a].asker] = Mint(k, att[a].ip)]
                /\ received' = received \union {Mint(k, att[a].ip)}
        /\ att' = [att EXCEPT ![a] = [stage |-> "done", asker |-> NoOne, ip |-> NoOne, info |-> NoOne]]
        /\ UNCHANGED <<clock, running, key, pins, pepKey, call, history>>

\* admin_cli clear-pin: the only way to change a pin.
ClearPin(s) ==
  /\ pins[s] # NoImage
  /\ pins' = [pins EXCEPT ![s] = NoImage]
  /\ epoch' = [epoch EXCEPT ![s] = @ + 1]
  /\ cleared' = [cleared EXCEPT ![s] = clock]
  /\ UNCHANGED <<clock, running, agents, key, att, minted, pepKey, call>>

\* A new process: a new key pair, the same pins, no requests; who waited for
\* an answer ends.
IssuerRestart ==
  /\ key < MaxKey
  /\ key' = key + 1
  /\ running' = running \ {att[a].asker : a \in Attests}
  /\ att' = [a \in Attests |-> IF att[a].stage = "idle" THEN att[a]
               ELSE [stage |-> "done", asker |-> NoOne, ip |-> NoOne, info |-> NoOne]]
  /\ UNCHANGED <<clock, agents, pins, minted, pepKey, call, history>>

-----------------------------------------------------------------------------
(* Stage 1 of the pipeline.                                                *)

world == <<clock, running, agents, issuer, history>>

\* A tool call from a running container, with any token that was handed out.
Present(c, k) ==
  /\ call[c].stage = "idle"
  /\ k \in running
  /\ \E t \in received :
       call' = [call EXCEPT ![c] = [stage |-> IF pepKey = NoKey THEN "key" ELSE "verify",
                                    caller |-> k, token |-> t, fetched |-> NoKey]]
  /\ UNCHANGED <<world, pepKey>>

\* GET /public-key, when there was none cached.
FetchKey(c) ==
  /\ call[c].stage = "key"
  /\ \/ call' = [call EXCEPT ![c] = NoCall("unavailable")]
     \/ call' = [call EXCEPT ![c].stage = "store", ![c].fetched = key]
  /\ UNCHANGED <<world, pepKey>>

StoreKey(c) ==
  /\ call[c].stage = "store"
  /\ pepKey' = call[c].fetched
  /\ call' = [call EXCEPT ![c].stage = "verify", ![c].fetched = NoKey]
  /\ UNCHANGED world

\* Mutants of verify_token: no expiry; expired a tick early.
NeverExpires(t) == TRUE
StrictlyFresh(t) == clock < t.iat + TTL

\* exp < time.time() is expired.
Fresh(t) == clock <= t.iat + TTL

\* Mutant: the container binding is not compared.
VerifiesAnywhere(c) == call[c].token.key = pepKey /\ Fresh(call[c].token)

\* Signature, expiry and container binding: the address of the connection.
Verifies(c) == LET t == call[c].token IN
  /\ t.key = pepKey /\ Fresh(t) /\ t.ip = call[c].caller.ip

Verify(c) ==
  /\ call[c].stage = "verify"
  /\ call' = [call EXCEPT ![c] = IF Verifies(c) THEN [@ EXCEPT !.stage = "accepted"]
                                 ELSE NoCall("refused")]
  /\ UNCHANGED <<world, pepKey>>

PepRestart ==
  /\ pepKey' = NoKey
  /\ call' = [c \in Calls |-> IF call[c].stage \in {"key", "store", "verify"}
                              THEN NoCall("lost") ELSE call[c]]
  /\ UNCHANGED world

-----------------------------------------------------------------------------
Next ==
  \/ \E k \in Containers : Start(k)
  \/ \E k \in Containers : Stop(k)
  \/ Tick
  \/ \E k \in Containers, a \in Attests : Ask(k, a)
  \/ \E a \in Attests : Lookup(a)
  \/ \E a \in Attests : InsertPin(a)
  \/ \E a \in Attests : ReadBack(a)
  \/ \E s \in AGENT_REGISTRY : ClearPin(s)
  \/ IssuerRestart
  \/ \E c \in Calls, k \in Containers : Present(c, k)
  \/ \E c \in Calls : FetchKey(c)
  \/ \E c \in Calls : StoreKey(c)
  \/ \E c \in Calls : Verify(c)
  \/ PepRestart

Spec == Init /\ [][Next]_vars

-----------------------------------------------------------------------------
AttestRecord == [stage : AttestStages, asker : Containers \union {NoOne},
                 ip : {k.ip : k \in Containers} \union {NoOne}, info : Containers \union {NoOne}]
CallRecord   == [stage : CallStages, caller : Containers \union {NoOne},
                 token : Token \union {NoToken}, fetched : NoKey .. MaxKey]

TypeOK ==
  /\ clock \in 0 .. MaxClock
  /\ running \subseteq Containers
  /\ held \in [Containers -> Token \union {NoToken}]
  /\ key \in 1 .. MaxKey
  /\ pins \in [AGENT_REGISTRY -> Images \union {NoImage}]
  /\ att \in [Attests -> AttestRecord]
  /\ minted \subseteq Token /\ received \subseteq minted
  /\ pepKey \in NoKey .. MaxKey
  /\ call \in [Calls -> CallRecord]
  /\ epoch \in [AGENT_REGISTRY -> Nat]
  /\ cleared \in [AGENT_REGISTRY -> NEVER .. MaxClock]

\* Trust on first use (identity/store.py): between two clearings by the
\* operator every token of a service is for one image, whichever containers
\* attested at once and however often the issuer restarted.
OneImagePerPin ==
  \A t, u \in minted : t.service = u.service /\ t.epoch = u.epoch => t.image = u.image

\* A pre-seeded digest closes the first-use window: no token of that service
\* is ever for another image, cleared pins included.
SeedDecides ==
  \A t \in minted : Seed[t.service] # NoImage => t.image = Seed[t.service]

\* A container is never handed a token that names another one, while requests
\* are abandoned and addresses reused between the connection, Docker's answer
\* and the signed token.
TokenIsOwn ==
  \A k \in Containers : held[k] # NoToken => held[k].container = k

\* Container binding: whatever token a call carries, it is not accepted as a
\* container that is running other than its caller.  What can share a token's
\* address is a container that took it over, never one that runs beside it.
BoundToItsAddress ==
  \A c \in Calls : call[c].stage = "accepted" =>
    LET k == call[c].token.container IN
    /\ k.service \in AGENT_REGISTRY
    /\ {k, call[c].caller} \subseteq running => k = call[c].caller

Judged(c, verdict) == call[c].stage # verdict /\ call'[c].stage = verdict

\* Revocation takes effect within a lifetime of a token: a call whose image is
\* no longer the pinned one is accepted only within TTL of the clearing.
RevocationIsBounded ==
  [][\A c \in Calls : Judged(c, "accepted") =>
       LET t == call[c].token IN
         \/ pins[t.service] = t.image
         \/ cleared[t.service] # NEVER /\ clock <= cleared[t.service] + TTL]_vars

\* While the issuer has not restarted, a container's own token is refused only
\* for its age: two threads that both find no key cached do no harm.
RefusedOnlyForAge ==
  [][\A c \in Calls :
       Judged(c, "refused") /\ key = 1 /\ call[c].token.container = call[c].caller
         => clock > call[c].token.iat + TTL]_vars

-----------------------------------------------------------------------------
(* What a comment of the code says and the code does not ensure.            *)

\* identity/issuer.py:181 - a stolen token dies with its container; :186 - and
\* replayed from a different container it fails.
TokenDiesWithContainer ==
  \A c \in Calls : call[c].stage = "accepted" => call[c].token.container = call[c].caller

-----------------------------------------------------------------------------
(* The inductive invariant (proved in IdentityProofs).                     *)

\* A connection that is still open belongs to a running container, which kept
\* its address: so the container Docker found there is the one that asks.
ConnectionInv ==
  /\ \A j, k \in running : j.ip = k.ip => j = k
  /\ \A a, b \in Attests : att[a].asker = att[b].asker /\ att[a].asker # NoOne => a = b
  /\ \A a \in Attests :
       /\ att[a].asker # NoOne =>
            /\ att[a].stage \in {"lookup", "pin", "readback"}
            /\ att[a].asker \in running /\ att[a].ip = att[a].asker.ip
       /\ att[a].stage \in {"pin", "readback"} =>
            /\ att[a].info \in Containers /\ att[a].info.ip = att[a].ip
            /\ att[a].asker \in {NoOne, att[a].info}
       /\ att[a].stage = "readback" => att[a].info.service \in AGENT_REGISTRY

PinInv ==
  \A s \in AGENT_REGISTRY : Seed[s] # NoImage => pins[s] \in {NoImage, Seed[s]}

\* What is known of every token ever signed.
MintedInv ==
  \A t \in minted :
    /\ t.service \in AGENT_REGISTRY /\ t.container.service = t.service
    /\ t.ip = t.container.ip /\ t.key <= key /\ t.iat <= clock
    /\ t.image # NoImage
    /\ t.epoch <= epoch[t.service]
    /\ t.epoch = epoch[t.service] => pins[t.service] = t.image
    /\ \/ pins[t.service] = t.image
       \/ cleared[t.service] # NEVER /\ t.iat <= cleared[t.service]

\* What a call presents was signed; where it was accepted it was attested.
CallInv ==
  \A c \in Calls : call[c].stage \in {"key", "store", "verify", "accepted"} =>
    /\ call[c].token \in minted
    /\ call[c].stage = "accepted" => call[c].token.ip = call[c].caller.ip

KeyInv ==
  /\ pepKey <= key
  /\ \A c \in Calls :
       /\ call[c].stage = "store" => call[c].fetched \in 1 .. key
       /\ call[c].stage = "verify" => pepKey # NoKey

IInv == /\ TypeOK /\ ConnectionInv /\ PinInv /\ MintedInv /\ CallInv /\ KeyInv
        /\ OneImagePerPin /\ SeedDecides /\ TokenIsOwn

=============================================================================
