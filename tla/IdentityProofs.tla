--------------------------- MODULE IdentityProofs ---------------------------
(***************************************************************************)
(* Proofs, for any containers, registry, pre-seeds, requests and clocks,   *)
(* of the safety properties of Identity.tla.                               *)
(***************************************************************************)
EXTENDS Identity, TLAPS

LEMMA ImageFacts ==
  /\ \A k \in Containers : k.image \in Images /\ k.image # NoImage
  /\ \A k \in Containers : k.service \in Services
  /\ \A k \in Containers : k.service \in AGENT_REGISTRY => SeedDigest(k) \in Images
BY IdentityAssumption DEF Images, Services, SeedDigest

LEMMA KeyFacts == NoKey = 0 /\ NEVER = -1 /\ NEVER \in Int
BY DEF NoKey, NEVER

\* mint_token yields a token.
LEMMA MintType ==
  ASSUME TypeOK, NEW k \in Containers, NEW ip \in {j.ip : j \in Containers},
         k.service \in AGENT_REGISTRY
  PROVE  Mint(k, ip) \in Token
BY ImageFacts DEF TypeOK, Mint, Token

-----------------------------------------------------------------------------
(* Type correctness.                                                       *)

LEMMA InitTypeOK == Init => TypeOK
BY IdentityAssumption, KeyFacts
   DEF Init, NoCall, TypeOK, AttestRecord, CallRecord, AttestStages, CallStages

\* A request that is refused.
LEMMA RefuseType ==
  ASSUME TypeOK, NEW a \in Attests, Refuse(a), UNCHANGED pins
  PROVE  TypeOK'
BY DEF TypeOK, Refuse, AttestRecord, AttestStages, agents, history

LEMMA NextTypeOK == IInv /\ [Next]_vars => TypeOK'
<1> SUFFICES ASSUME IInv, [Next]_vars PROVE TypeOK'
  OBVIOUS
<1>t. TypeOK
  BY DEF IInv
<1>c. ConnectionInv
  BY DEF IInv
<1>1. ASSUME NEW k \in Containers, Start(k) PROVE TypeOK'
  BY <1>1, <1>t DEF TypeOK, Start, agents, issuer, history
<1>2. ASSUME NEW k \in Containers, Stop(k) PROVE TypeOK'
  <2>1. Closed({k}) \in [Attests -> AttestRecord]
    BY <1>t DEF TypeOK, Closed, AttestRecord
  <2> QED
    BY <1>2, <2>1, <1>t DEF TypeOK, Stop, history
<1>3. CASE Tick
  BY <1>3, <1>t, IdentityAssumption DEF TypeOK, Tick, agents, issuer, history
<1>4. ASSUME NEW k \in Containers, NEW a \in Attests, Ask(k, a) PROVE TypeOK'
  BY <1>4, <1>t DEF TypeOK, Ask, AttestRecord, AttestStages, agents, history
<1>5. ASSUME NEW a \in Attests, Lookup(a) PROVE TypeOK'
  <2>1. CASE Refuse(a) /\ UNCHANGED pins
    BY <2>1, <1>t, RefuseType
  <2>2. ASSUME NEW k \in RunningAt(att[a].ip),
               att' = [att EXCEPT ![a].stage = "pin", ![a].info = k],
               UNCHANGED <<clock, running, agents, key, pins, minted, pepKey, call, history>>
        PROVE  TypeOK'
    <3>1. k \in Containers
      BY <1>t, <2>2 DEF RunningAt, TypeOK
    <3>2. att' \in [Attests -> AttestRecord]
      BY <1>t, <2>2, <3>1 DEF TypeOK, AttestRecord, AttestStages
    <3> QED
      BY <1>t, <2>2, <3>2 DEF TypeOK, agents, history
  <2> QED
    BY <1>5, <2>1, <2>2 DEF Lookup
<1>6. ASSUME NEW a \in Attests, InsertPin(a) PROVE TypeOK'
  <2>1. CASE Refuse(a) /\ UNCHANGED pins
    BY <2>1, <1>t, RefuseType
  <2>2. CASE ~(Refuse(a) /\ UNCHANGED pins)
    <3>1. att[a].info \in Containers /\ att[a].info.service \in AGENT_REGISTRY
      BY <1>6, <2>2, <1>c DEF InsertPin, ConnectionInv
    <3>2. pins' \in [AGENT_REGISTRY -> Images \union {NoImage}]
      BY <1>6, <2>2, <1>t, <3>1, ImageFacts DEF InsertPin, Pinned, TypeOK
    <3> QED
      BY <1>6, <2>2, <1>t, <3>2 DEF InsertPin, TypeOK, AttestRecord, AttestStages, agents, history
  <2> QED
    BY <1>6, <2>1, <2>2 DEF InsertPin
<1>7. ASSUME NEW a \in Attests, ReadBack(a) PROVE TypeOK'
  <2>1. CASE Refuse(a) /\ UNCHANGED pins
    BY <2>1, <1>t, RefuseType
  <2>2. CASE ~(Refuse(a) /\ UNCHANGED pins)
    <3>1. /\ att[a].info \in Containers /\ att[a].info.service \in AGENT_REGISTRY
          /\ att[a].ip = att[a].info.ip
      BY <1>7, <1>c DEF ReadBack, ConnectionInv
    <3>2. Mint(att[a].info, att[a].ip) \in Token
      BY <1>t, <3>1, MintType
    <3>3. /\ held' \in [Containers -> Token \union {NoToken}]
          /\ minted' \subseteq Token /\ received' \subseteq minted'
      BY <1>7, <2>2, <1>t, <3>2 DEF ReadBack, TypeOK, agents
    <3> QED
      BY <1>7, <2>2, <1>t, <3>3 DEF ReadBack, TypeOK, AttestRecord, AttestStages, history
  <2> QED
    BY <1>7, <2>1, <2>2 DEF ReadBack
<1>8. ASSUME NEW s \in AGENT_REGISTRY, ClearPin(s) PROVE TypeOK'
  BY <1>8, <1>t, KeyFacts, IdentityAssumption DEF TypeOK, ClearPin, agents
<1>9. CASE IssuerRestart
  <2>1. att' \in [Attests -> AttestRecord]
    BY <1>9, <1>t DEF TypeOK, IssuerRestart, AttestRecord, AttestStages
  <2> QED
    BY <1>9, <2>1, <1>t, IdentityAssumption DEF TypeOK, IssuerRestart, agents, history
<1>m. \A st \in CallStages : NoCall(st) \in CallRecord
  BY KeyFacts, IdentityAssumption DEF NoCall, CallRecord
<1>n. \A c \in Calls : call[c] \in CallRecord
  BY <1>t DEF TypeOK
<1>10. ASSUME NEW c \in Calls, NEW k \in Containers, Present(c, k) PROVE TypeOK'
  <2>1. call' \in [Calls -> CallRecord]
    BY <1>10, <1>t, KeyFacts, IdentityAssumption DEF TypeOK, Present, CallRecord, CallStages
  <2> QED
    BY <1>10, <2>1, <1>t DEF TypeOK, Present, world, agents, issuer, history
<1>11. ASSUME NEW c \in Calls, FetchKey(c) PROVE TypeOK'
  <2>1. NoCall("unavailable") \in CallRecord
    BY <1>m DEF CallStages
  <2>2. key \in NoKey .. MaxKey
    BY <1>t, KeyFacts, IdentityAssumption DEF TypeOK
  <2>3. [call[c] EXCEPT !.stage = "store", !.fetched = key] \in CallRecord
    BY <1>n, <2>2 DEF CallRecord, CallStages
  <2>4. call' \in [Calls -> CallRecord]
    BY <1>11, <1>t, <2>1, <2>3 DEF TypeOK, FetchKey
  <2> QED
    BY <1>11, <2>4, <1>t DEF TypeOK, FetchKey, world, agents, issuer, history
<1>12. ASSUME NEW c \in Calls, StoreKey(c) PROVE TypeOK'
  <2>1. /\ [call[c] EXCEPT !.stage = "verify", !.fetched = NoKey] \in CallRecord
        /\ call[c].fetched \in NoKey .. MaxKey
    <3>1. NoKey \in NoKey .. MaxKey
      BY KeyFacts, IdentityAssumption
    <3> QED
      BY <1>n, <3>1 DEF CallRecord, CallStages
  <2>2. call' \in [Calls -> CallRecord]
    BY <1>12, <1>t, <2>1 DEF TypeOK, StoreKey
  <2> QED
    BY <1>12, <2>1, <2>2, <1>t DEF TypeOK, StoreKey, world, agents, issuer, history
<1>13. ASSUME NEW c \in Calls, Verify(c) PROVE TypeOK'
  <2>1. NoCall("refused") \in CallRecord
    BY <1>m DEF CallStages
  <2>2. [call[c] EXCEPT !.stage = "accepted"] \in CallRecord
    BY <1>n DEF CallRecord, CallStages
  <2>3. call' \in [Calls -> CallRecord]
    BY <1>13, <1>t, <2>1, <2>2 DEF TypeOK, Verify
  <2> QED
    BY <1>13, <2>3, <1>t DEF TypeOK, Verify, world, agents, issuer, history
<1>14. CASE PepRestart
  <2>0. NoCall("lost") \in CallRecord
    BY <1>m DEF CallStages
  <2>1. call' \in [Calls -> CallRecord]
    BY <1>14, <1>n, <2>0 DEF PepRestart
  <2> QED
    BY <1>14, <2>1, <1>t, KeyFacts, IdentityAssumption
       DEF TypeOK, PepRestart, world, agents, issuer, history
<1>15. CASE UNCHANGED vars
  BY <1>15, <1>t DEF TypeOK, vars, agents, issuer, history
<1> QED
  BY <1>1, <1>2, <1>3, <1>4, <1>5, <1>6, <1>7, <1>8, <1>9, <1>10, <1>11, <1>12,
     <1>13, <1>14, <1>15 DEF Next

-----------------------------------------------------------------------------
(* The invariant, one conjunct at a time.                                  *)

LEMMA InitIInv == Init => IInv
BY InitTypeOK, KeyFacts, IdentityAssumption
   DEF Init, NoCall, IInv, ConnectionInv, PinInv, MintedInv, CallInv, KeyInv,
       OneImagePerPin, SeedDecides, TokenIsOwn

LEMMA ConnectionStep == IInv /\ [Next]_vars => ConnectionInv'
<1> SUFFICES ASSUME IInv, [Next]_vars PROVE ConnectionInv'
  OBVIOUS
<1>t. TypeOK /\ ConnectionInv
  BY DEF IInv
<1>n. \A a \in Attests : att[a] \in AttestRecord
  BY <1>t DEF TypeOK
<1> USE <1>n DEF AttestRecord
<1>0. ASSUME NEW a \in Attests, Refuse(a), UNCHANGED pins PROVE ConnectionInv'
  BY <1>0, <1>t DEF TypeOK, ConnectionInv, Refuse
<1>1. ASSUME NEW k \in Containers, Start(k) PROVE ConnectionInv'
  BY <1>1, <1>t DEF ConnectionInv, Start, issuer
<1>2. ASSUME NEW k \in Containers, Stop(k) PROVE ConnectionInv'
  <2>1. /\ running' = running \ {k}
        /\ \A a \in Attests :
             att'[a] = IF att[a].asker = k THEN [att[a] EXCEPT !.asker = NoOne] ELSE att[a]
    BY <1>2 DEF Stop, Closed
  <2>2. \A a \in Attests :
          /\ att'[a].stage = att[a].stage /\ att'[a].ip = att[a].ip /\ att'[a].info = att[a].info
          /\ att'[a].asker = IF att[a].asker = k THEN NoOne ELSE att[a].asker
    BY <2>1, <1>n
  <2>3. \A a \in Attests : att'[a].asker # NoOne =>
          att[a].asker # NoOne /\ att'[a].asker = att[a].asker /\ att[a].asker # k
    BY <2>2
  <2> QED
    BY <2>1, <2>2, <2>3, <1>t DEF ConnectionInv
<1>4. ASSUME NEW k \in Containers, NEW a \in Attests, Ask(k, a) PROVE ConnectionInv'
  BY <1>4, <1>t DEF TypeOK, ConnectionInv, Ask
<1>5. ASSUME NEW a \in Attests, Lookup(a) PROVE ConnectionInv'
  <2>2. ASSUME NEW k \in RunningAt(att[a].ip),
               att' = [att EXCEPT ![a].stage = "pin", ![a].info = k],
               UNCHANGED <<clock, running, agents, key, pins, minted, pepKey, call, history>>
        PROVE  ConnectionInv'
    <3>1. k \in running /\ k \in Containers /\ k.ip = att[a].ip
      BY <1>t, <2>2 DEF RunningAt, TypeOK
    <3>2. att[a].asker # NoOne => att[a].asker = k
      BY <3>1, <1>t DEF ConnectionInv
    <3>3. /\ att'[a].stage = "pin" /\ att'[a].info = k
          /\ att'[a].asker = att[a].asker /\ att'[a].ip = att[a].ip
          /\ \A b \in Attests : b # a => att'[b] = att[b]
          /\ running' = running
      BY <2>2, <1>t DEF TypeOK
    <3>4. att[a].asker # NoOne => att[a].stage \in {"lookup", "pin", "readback"}
      BY <1>t DEF ConnectionInv
    <3> QED
      BY <3>1, <3>2, <3>3, <3>4, <1>t DEF ConnectionInv
  <2> QED
    BY <1>0, <1>5, <2>2 DEF Lookup
<1>6. ASSUME NEW a \in Attests, InsertPin(a) PROVE ConnectionInv'
  <2>1. CASE Refuse(a) /\ UNCHANGED pins
    BY <2>1, <1>0
  <2>2. CASE ~(Refuse(a) /\ UNCHANGED pins)
    <3>1. /\ att'[a].stage = "readback" /\ att'[a].info = att[a].info
          /\ att'[a].asker = att[a].asker /\ att'[a].ip = att[a].ip
          /\ \A b \in Attests : b # a => att'[b] = att[b]
          /\ running' = running
          /\ att[a].stage = "pin" /\ att[a].info.service \in AGENT_REGISTRY
      BY <1>6, <2>2, <1>t DEF TypeOK, InsertPin
    <3> QED
      BY <3>1, <1>t DEF ConnectionInv
  <2> QED
    BY <2>1, <2>2
<1>7. ASSUME NEW a \in Attests, ReadBack(a) PROVE ConnectionInv'
  <2>1. CASE Refuse(a) /\ UNCHANGED pins
    BY <2>1, <1>0
  <2>2. CASE ~(Refuse(a) /\ UNCHANGED pins)
    <3>1. /\ att'[a].stage = "done" /\ att'[a].asker = NoOne
          /\ \A b \in Attests : b # a => att'[b] = att[b]
          /\ running' = running
      BY <1>7, <2>2, <1>t DEF TypeOK, ReadBack
    <3> QED
      BY <3>1, <1>t DEF ConnectionInv
  <2> QED
    BY <2>1, <2>2
<1>9. CASE IssuerRestart
  <2>1. \A a \in Attests : att'[a].asker = NoOne /\ att'[a].stage \in {"idle", "done"}
    BY <1>9, <1>t DEF TypeOK, ConnectionInv, IssuerRestart
  <2>2. running' \subseteq running
    BY <1>9 DEF IssuerRestart
  <2> QED
    BY <2>1, <2>2, <1>t DEF ConnectionInv
<1>10. CASE UNCHANGED <<running, att>>
  BY <1>10, <1>t DEF ConnectionInv
<1>11. ASSUME NEW c \in Calls, NEW k \in Containers,
              Present(c, k) \/ FetchKey(c) \/ StoreKey(c) \/ Verify(c)
       PROVE  UNCHANGED <<running, att>>
  BY <1>11 DEF Present, FetchKey, StoreKey, Verify, world, issuer
<1> QED
  BY <1>1, <1>2, <1>4, <1>5, <1>6, <1>7, <1>9, <1>10, <1>11
     DEF Next, Tick, ClearPin, Present, FetchKey, StoreKey, Verify, PepRestart,
         world, issuer, vars

\* The pin of a pre-seeded service is its seed.
LEMMA PinStep == IInv /\ [Next]_vars => PinInv'
<1> SUFFICES ASSUME IInv, [Next]_vars PROVE PinInv'
  OBVIOUS
<1>t. TypeOK /\ ConnectionInv /\ PinInv
  BY DEF IInv
<1>1. ASSUME NEW a \in Attests, InsertPin(a) PROVE PinInv'
  BY <1>1, <1>t DEF InsertPin, Pinned, SeedDigest, PinInv, TypeOK
<1>2. ASSUME NEW s \in AGENT_REGISTRY, ClearPin(s) PROVE PinInv'
  BY <1>2, <1>t DEF ClearPin, PinInv, TypeOK
<1>3. CASE UNCHANGED pins
  BY <1>3, <1>t DEF PinInv
<1> QED
  BY <1>1, <1>2, <1>3
     DEF Next, Start, Stop, Tick, Ask, Lookup, ReadBack, IssuerRestart, Present,
         FetchKey, StoreKey, Verify, PepRestart, world, issuer, vars

\* What a handler reads back is what it signs for.
LEMMA ReadBackSigns ==
  ASSUME IInv, NEW a \in Attests, ReadBack(a)
  PROVE  LET t == Mint(att[a].info, att[a].ip) IN
         \/ UNCHANGED <<minted, agents>>
         \/ /\ minted' = minted \union {t}
            /\ \/ held' = held
               \/ att[a].asker # NoOne /\ held' = [held EXCEPT ![att[a].asker] = t]
            /\ att[a].asker # NoOne => att[a].asker = att[a].info
            /\ t.service \in AGENT_REGISTRY /\ t.container = att[a].info
            /\ t.container.service = t.service
            /\ t.ip = t.container.ip /\ t.key = key /\ t.iat = clock
            /\ t.epoch = epoch[t.service]
            /\ t.image # NoImage /\ t.image = pins[t.service]
<1>1. CASE Refuse(a)
  BY <1>1 DEF Refuse, agents
<1>2. CASE ~Refuse(a)
  <2>1. /\ att[a].info \in Containers /\ att[a].info.service \in AGENT_REGISTRY
        /\ att[a].asker \in {NoOne, att[a].info} /\ att[a].ip = att[a].info.ip
    BY <1>2 DEF ReadBack, IInv, ConnectionInv
  <2> QED
    BY <1>2, <2>1, ImageFacts DEF ReadBack, Mint, agents
<1> QED
  BY <1>1, <1>2

LEMMA MintedStep == IInv /\ [Next]_vars => MintedInv' /\ OneImagePerPin' /\ SeedDecides'
<1> DEFINE Inv == MintedInv /\ OneImagePerPin /\ SeedDecides
<1> SUFFICES ASSUME IInv, [Next]_vars PROVE Inv'
  OBVIOUS
<1>t. TypeOK /\ ConnectionInv /\ PinInv /\ Inv
  BY DEF IInv
<1>k. \A t \in minted : /\ t.key \in Int /\ t.iat \in Int /\ t.epoch \in Int
                        /\ t.service \in AGENT_REGISTRY
  BY <1>t DEF TypeOK, Token, MintedInv
<1>y. /\ key \in Int /\ clock \in Int
      /\ \A s \in AGENT_REGISTRY : epoch[s] \in Int /\ cleared[s] \in Int
  BY <1>t, KeyFacts DEF TypeOK
<1>1. ASSUME NEW a \in Attests, InsertPin(a) PROVE Inv'
  <2>1. UNCHANGED <<minted, key, epoch, cleared, clock>>
    BY <1>1 DEF InsertPin, Refuse, history
  <2>2. \A s \in AGENT_REGISTRY : pins[s] # NoImage => pins'[s] = pins[s]
    BY <1>1, <1>t DEF InsertPin, Pinned, TypeOK
  <2> QED
    BY <1>t, <1>k, <2>1, <2>2 DEF MintedInv, OneImagePerPin, SeedDecides
<1>2. ASSUME NEW a \in Attests, ReadBack(a) PROVE Inv'
  <2>0. UNCHANGED <<key, epoch, cleared, pins, clock>>
    BY <1>2 DEF ReadBack, Refuse, history
  <2>1. CASE UNCHANGED minted
    BY <1>t, <2>0, <2>1 DEF MintedInv, OneImagePerPin, SeedDecides
  <2>2. CASE ~UNCHANGED minted
    <3>1. PICK t : /\ minted' = minted \union {t}
                   /\ t.service \in AGENT_REGISTRY /\ t.container.service = t.service
                   /\ t.ip = t.container.ip /\ t.key = key /\ t.iat = clock
                   /\ t.epoch = epoch[t.service]
                   /\ t.image # NoImage /\ t.image = pins[t.service]
      BY <1>2, <2>2, ReadBackSigns
    <3>2. Seed[t.service] # NoImage => t.image = Seed[t.service]
      BY <3>1, <1>t DEF PinInv
    <3>3. MintedInv'
      BY <1>t, <1>y, <2>0, <3>1 DEF MintedInv
    <3>4. OneImagePerPin'
      BY <1>t, <3>1 DEF OneImagePerPin, MintedInv
    <3>5. SeedDecides'
      BY <1>t, <3>1, <3>2 DEF SeedDecides
    <3> QED
      BY <3>3, <3>4, <3>5
  <2> QED
    BY <2>1, <2>2
<1>3. ASSUME NEW s \in AGENT_REGISTRY, ClearPin(s) PROVE Inv'
  <2>1. UNCHANGED <<minted, key, clock>>
    BY <1>3 DEF ClearPin
  <2>2. \A t \in minted : t.iat <= clock
    BY <1>t DEF MintedInv
  <2>3. /\ epoch'[s] = epoch[s] + 1 /\ cleared'[s] = clock
        /\ \A r \in AGENT_REGISTRY : r # s => /\ epoch'[r] = epoch[r]
                                             /\ cleared'[r] = cleared[r]
                                             /\ pins'[r] = pins[r]
    BY <1>3, <1>t DEF ClearPin, TypeOK
  <2>4. clock # NEVER
    BY <1>t, KeyFacts DEF TypeOK
  <2> QED
    BY <1>t, <1>k, <1>y, <2>1, <2>2, <2>3, <2>4 DEF MintedInv, OneImagePerPin, SeedDecides
<1>4. CASE IssuerRestart
  <2>1. UNCHANGED <<minted, pins, epoch, cleared, clock>> /\ key' = key + 1
    BY <1>4 DEF IssuerRestart, history
  <2> QED
    BY <1>t, <1>k, <1>y, <2>1 DEF MintedInv, OneImagePerPin, SeedDecides
<1>5. CASE Tick
  <2>1. UNCHANGED <<minted, pins, epoch, cleared, key>> /\ clock' = clock + 1
    BY <1>5 DEF Tick, issuer, history
  <2> QED
    BY <1>t, <1>k, <1>y, <2>1 DEF MintedInv, OneImagePerPin, SeedDecides
<1>6. CASE UNCHANGED <<minted, pins, key, epoch, cleared, clock>>
  BY <1>6, <1>t DEF MintedInv, OneImagePerPin, SeedDecides
<1> QED
  BY <1>1, <1>2, <1>3, <1>4, <1>5, <1>6
     DEF Next, Start, Stop, Ask, Lookup, Refuse, Present,
         FetchKey, StoreKey, Verify, PepRestart, world, issuer, history, vars

\* What is handed out is handed to the container it names.
LEMMA HeldStep == IInv /\ [Next]_vars => TokenIsOwn'
<1> SUFFICES ASSUME IInv, [Next]_vars PROVE TokenIsOwn'
  OBVIOUS
<1>t. TypeOK /\ TokenIsOwn
  BY DEF IInv
<1>1. ASSUME NEW k \in Containers, Stop(k) PROVE TokenIsOwn'
  BY <1>1, <1>t DEF Stop, TokenIsOwn, TypeOK
<1>2. ASSUME NEW a \in Attests, ReadBack(a) PROVE TokenIsOwn'
  <2>1. CASE held' = held
    BY <2>1, <1>t DEF TokenIsOwn
  <2>2. CASE held' # held
    <3>1. PICK t : /\ held' = [held EXCEPT ![att[a].asker] = t]
                   /\ t.container = att[a].asker
      BY <1>2, <2>2, ReadBackSigns DEF agents
    <3> QED
      BY <3>1, <1>t DEF TokenIsOwn, TypeOK
  <2> QED
    BY <2>1, <2>2
<1>3. CASE UNCHANGED held
  BY <1>3, <1>t DEF TokenIsOwn
<1> QED
  BY <1>1, <1>2, <1>3
     DEF Next, Start, Tick, Ask, Lookup, InsertPin, Refuse, ClearPin, IssuerRestart,
         Present, FetchKey, StoreKey, Verify, PepRestart, world, agents, issuer, vars

\* A thread carries a signed token, and is past Verify only with the right
\* address.
LEMMA CallStep == IInv /\ [Next]_vars => CallInv'
<1> SUFFICES ASSUME IInv, [Next]_vars PROVE CallInv'
  OBVIOUS
<1>t. TypeOK /\ CallInv
  BY DEF IInv
<1>n. call \in [Calls -> CallRecord] /\ \A c \in Calls : call[c] \in CallRecord
  BY <1>t DEF TypeOK
<1>1. ASSUME NEW a \in Attests, ReadBack(a) PROVE CallInv'
  <2>1. call' = call /\ minted \subseteq minted'
    BY <1>1 DEF ReadBack, Refuse
  <2> QED
    BY <2>1, <1>t DEF CallInv
<1>2. ASSUME NEW c \in Calls, NEW k \in Containers, Present(c, k) PROVE CallInv'
  <2>1. minted' = minted
    BY <1>2 DEF Present, world, issuer
  <2>2. PICK t \in received :
          call' = [call EXCEPT ![c] = [stage |-> IF pepKey = NoKey THEN "key" ELSE "verify",
                                       caller |-> k, token |-> t, fetched |-> NoKey]]
    BY <1>2 DEF Present
  <2>3. t \in minted
    BY <2>2, <1>t DEF TypeOK
  <2>4. /\ call'[c].token = t /\ call'[c].stage # "accepted"
        /\ \A d \in Calls : d # c => call'[d] = call[d]
    BY <2>2, <1>n
  <2> QED
    BY <2>1, <2>3, <2>4, <1>t DEF CallInv
<1>3. ASSUME NEW c \in Calls, FetchKey(c) \/ StoreKey(c) \/ Verify(c) PROVE CallInv'
  <2>1. minted' = minted
    BY <1>3 DEF FetchKey, StoreKey, Verify, world, issuer
  <2>2. /\ \A d \in Calls : d # c => call'[d] = call[d]
        /\ call[c].stage \in {"key", "store", "verify"}
        /\ \/ call'[c].stage \in {"unavailable", "refused"}
           \/ /\ call'[c].token = call[c].token /\ call'[c].caller = call[c].caller
              /\ call'[c].stage = "accepted" => Verifies(c)
    BY <1>3, <1>n DEF FetchKey, StoreKey, Verify, NoCall, CallRecord
  <2> QED
    BY <2>1, <2>2, <1>t DEF CallInv, Verifies
<1>4. CASE PepRestart
  <2>1. minted' = minted
    BY <1>4 DEF PepRestart, world, issuer
  <2>2. \A d \in Calls : call'[d] = call[d] \/ call'[d].stage = "lost"
    BY <1>4, <1>n DEF PepRestart, NoCall
  <2> QED
    BY <2>1, <2>2, <1>t DEF CallInv
<1>5. CASE UNCHANGED <<minted, call>>
  BY <1>5, <1>t DEF CallInv
<1> QED
  BY <1>1, <1>2, <1>3, <1>4, <1>5
     DEF Next, Start, Stop, Tick, Ask, Lookup, InsertPin, Refuse, ClearPin, IssuerRestart,
         issuer, history, vars

LEMMA KeyStep == IInv /\ [Next]_vars => KeyInv'
<1> SUFFICES ASSUME IInv, [Next]_vars PROVE KeyInv'
  OBVIOUS
<1>t. TypeOK /\ KeyInv
  BY DEF IInv
<1>n. /\ \A c \in Calls : call[c] \in CallRecord
      /\ key \in Int /\ key >= 1 /\ pepKey \in Int
  BY <1>t, KeyFacts DEF TypeOK
<1>1. CASE IssuerRestart
  <2>1. UNCHANGED <<pepKey, call>> /\ key' = key + 1
    BY <1>1 DEF IssuerRestart
  <2> QED
    BY <2>1, <1>n, <1>t DEF KeyInv
<1>2. ASSUME NEW c \in Calls, NEW k \in Containers, Present(c, k) PROVE KeyInv'
  BY <1>2, <1>t DEF Present, KeyInv, TypeOK, world, issuer
<1>3. ASSUME NEW c \in Calls, FetchKey(c) PROVE KeyInv'
  <2>1. UNCHANGED <<key, pepKey>>
    BY <1>3 DEF FetchKey, world, issuer
  <2>2. /\ \A d \in Calls : d # c => call'[d] = call[d]
        /\ \/ call'[c].stage = "unavailable"
           \/ call'[c].stage = "store" /\ call'[c].fetched = key
    BY <1>3, <1>n, <1>t DEF FetchKey, NoCall, TypeOK, CallRecord
  <2> QED
    BY <2>1, <2>2, <1>n, <1>t DEF KeyInv
<1>4. ASSUME NEW c \in Calls, StoreKey(c) PROVE KeyInv'
  <2>1. key' = key /\ pepKey' = call[c].fetched /\ call[c].stage = "store"
    BY <1>4 DEF StoreKey, world, issuer
  <2>2. /\ \A d \in Calls : d # c => call'[d] = call[d]
        /\ call'[c].stage = "verify"
    BY <1>4, <1>n, <1>t DEF StoreKey, TypeOK, CallRecord
  <2> QED
    BY <2>1, <2>2, <1>n, <1>t, KeyFacts DEF KeyInv
<1>5. ASSUME NEW c \in Calls, Verify(c) PROVE KeyInv'
  <2>1. UNCHANGED <<key, pepKey>>
    BY <1>5 DEF Verify, world, issuer
  <2>2. /\ \A d \in Calls : d # c => call'[d] = call[d]
        /\ call'[c].stage \in {"accepted", "refused"}
    BY <1>5, <1>n, <1>t DEF Verify, NoCall, TypeOK, CallRecord
  <2> QED
    BY <2>1, <2>2, <1>t DEF KeyInv
<1>6. CASE PepRestart
  <2>1. key' = key /\ pepKey' = 0
    BY <1>6, KeyFacts DEF PepRestart, world, issuer
  <2>2. \A c \in Calls : call'[c].stage \notin {"key", "store", "verify"}
    BY <1>6, <1>n DEF PepRestart, NoCall, CallRecord
  <2> QED
    BY <2>1, <2>2, <1>n DEF KeyInv
<1>7. CASE UNCHANGED <<key, pepKey, call>>
  BY <1>7, <1>t DEF KeyInv
<1> QED
  BY <1>1, <1>2, <1>3, <1>4, <1>5, <1>6, <1>7
     DEF Next, Start, Stop, Tick, Ask, Lookup, InsertPin, ReadBack, Refuse, ClearPin,
         issuer, history, vars

-----------------------------------------------------------------------------
(* The theorems.                                                           *)

LEMMA NextIInv == IInv /\ [Next]_vars => IInv'
BY NextTypeOK, ConnectionStep, PinStep, MintedStep, HeldStep, CallStep, KeyStep DEF IInv

\* The invariant: what holds of every open connection, pin and token.
THEOREM IdentityInvariant == Spec => []IInv
BY InitIInv, NextIInv, PTL DEF Spec

\* Every variable of identity keeps its type: in particular what stage 1 checks
\* against is a key or none, and a token is one the issuer signed.
THEOREM IdentityTypeCorrect == Spec => []TypeOK
<1>1. IInv => TypeOK
  BY DEF IInv
<1> QED
  BY <1>1, IdentityInvariant, PTL

\* Between two clearings of its pin a service has tokens for one image only.
THEOREM OneImagePerPinHolds == Spec => []OneImagePerPin
<1>1. IInv => OneImagePerPin
  BY DEF IInv
<1> QED
  BY <1>1, IdentityInvariant, PTL

\* A pre-seeded service never has a token for another image.
THEOREM SeedDecidesHolds == Spec => []SeedDecides
<1>1. IInv => SeedDecides
  BY DEF IInv
<1> QED
  BY <1>1, IdentityInvariant, PTL

\* A container is handed only tokens that name it.
THEOREM TokenIsOwnHolds == Spec => []TokenIsOwn
<1>1. IInv => TokenIsOwn
  BY DEF IInv
<1> QED
  BY <1>1, IdentityInvariant, PTL

\* A call with any token is accepted only where the token was attested, and an
\* address belongs to one running container.
THEOREM BoundToItsAddressHolds == Spec => []BoundToItsAddress
<1>1. IInv => BoundToItsAddress
  <2> SUFFICES ASSUME IInv, NEW c \in Calls, call[c].stage = "accepted"
               PROVE  LET k == call[c].token.container IN
                        /\ k.service \in AGENT_REGISTRY
                        /\ {k, call[c].caller} \subseteq running => k = call[c].caller
    BY DEF BoundToItsAddress
  <2> DEFINE t == call[c].token
  <2>1. t \in minted /\ t.ip = call[c].caller.ip
    BY DEF IInv, CallInv
  <2>2. t.ip = t.container.ip /\ t.container.service \in AGENT_REGISTRY
    BY <2>1 DEF IInv, MintedInv
  <2>3. \A j, k \in running : j.ip = k.ip => j = k
    BY DEF IInv, ConnectionInv
  <2> QED
    BY <2>1, <2>2, <2>3
<1> QED
  BY <1>1, IdentityInvariant, PTL

\* A verdict of stage 1 is Verify's, on a token that was signed.
LEMMA JudgedBy ==
  ASSUME IInv, [Next]_vars, NEW c \in Calls, NEW v \in {"accepted", "refused"}, Judged(c, v)
  PROVE  /\ Verify(c) /\ (v = "accepted" <=> Verifies(c))
         /\ call[c].token \in minted
<1>n. \A d \in Calls : call[d] \in CallRecord
  BY DEF IInv, TypeOK
<1>u. call' # call
  BY DEF Judged
<1>f. call \in [Calls -> CallRecord]
  BY DEF IInv, TypeOK
<1>1. ASSUME NEW d \in Calls, NEW k \in Containers, Present(d, k) PROVE FALSE
  BY <1>1, <1>f DEF Present, Judged
<1>2. ASSUME NEW d \in Calls, FetchKey(d) PROVE FALSE
  BY <1>2, <1>n, <1>f DEF FetchKey, NoCall, Judged, CallRecord
<1>3. ASSUME NEW d \in Calls, StoreKey(d) PROVE FALSE
  BY <1>3, <1>n, <1>f DEF StoreKey, Judged, CallRecord
<1>4. CASE PepRestart
  BY <1>4, <1>n, <1>f DEF PepRestart, NoCall, Judged, CallRecord
<1>5. ASSUME NEW d \in Calls, Verify(d) PROVE d = c
  BY <1>5, <1>n, <1>f DEF Verify, NoCall, Judged, CallRecord
<1>6. Verify(c)
  BY <1>u, <1>1, <1>2, <1>3, <1>4, <1>5
     DEF Next, Start, Stop, Tick, Ask, Lookup, InsertPin, ReadBack, Refuse, ClearPin,
         IssuerRestart, issuer, history, vars
<1>7. call[c].stage = "verify" /\ call'[c].stage = IF Verifies(c) THEN "accepted" ELSE "refused"
  BY <1>6, <1>n, <1>f DEF Verify, NoCall, CallRecord
<1> QED
  BY <1>6, <1>7 DEF Judged, IInv, CallInv

\* A revoked image is accepted no longer than a token lives.
THEOREM RevocationIsBoundedHolds == Spec => RevocationIsBounded
<1>1. IInv /\ [Next]_vars =>
        [\A c \in Calls : Judged(c, "accepted") =>
           LET t == call[c].token IN
             \/ pins[t.service] = t.image
             \/ cleared[t.service] # NEVER /\ clock <= cleared[t.service] + TTL]_vars
  <2> SUFFICES ASSUME IInv, [Next]_vars, NEW c \in Calls, Judged(c, "accepted")
               PROVE  LET t == call[c].token IN
                        \/ pins[t.service] = t.image
                        \/ cleared[t.service] # NEVER /\ clock <= cleared[t.service] + TTL
    OBVIOUS
  <2> DEFINE t == call[c].token
  <2>1. t \in minted /\ Fresh(t)
    BY JudgedBy DEF Verifies
  <2>2. \/ pins[t.service] = t.image
        \/ cleared[t.service] # NEVER /\ t.iat <= cleared[t.service]
    BY <2>1 DEF IInv, MintedInv
  <2>3. t.service \in AGENT_REGISTRY /\ t.iat \in Int
    BY <2>1 DEF IInv, MintedInv, TypeOK, Token
  <2>4. cleared[t.service] \in Int /\ clock \in Int /\ TTL \in Int
    BY <2>3, KeyFacts, IdentityAssumption DEF IInv, TypeOK
  <2>5. clock <= t.iat + TTL
    BY <2>1 DEF Fresh
  <2> HIDE DEF t
  <2>6. \/ pins[t.service] = t.image
        \/ cleared[t.service] # NEVER /\ clock <= cleared[t.service] + TTL
    BY <2>2, <2>3, <2>4, <2>5
  <2> QED
    BY <2>6 DEF t
<1> QED
  BY <1>1, IdentityInvariant, PTL DEF Spec, RevocationIsBounded

\* Before the issuer's first restart a container's own token is refused only
\* when it has expired.
THEOREM RefusedOnlyForAgeHolds == Spec => RefusedOnlyForAge
<1>1. IInv /\ [Next]_vars =>
        [\A c \in Calls :
           Judged(c, "refused") /\ key = 1 /\ call[c].token.container = call[c].caller
             => clock > call[c].token.iat + TTL]_vars
  <2> SUFFICES ASSUME IInv, [Next]_vars, NEW c \in Calls, Judged(c, "refused"), key = 1,
                      call[c].token.container = call[c].caller
               PROVE  clock > call[c].token.iat + TTL
    OBVIOUS
  <2> DEFINE t == call[c].token
  <2>1. t \in minted /\ Verify(c) /\ ~Verifies(c)
    BY JudgedBy
  <2>2. t.iat \in Int /\ t.key \in 1 .. MaxKey /\ t.key <= key
    BY <2>1 DEF IInv, MintedInv, TypeOK, Token
  <2>3. call[c].stage = "verify"
    BY <2>1 DEF Verify
  <2>4. pepKey # 0 /\ pepKey <= key /\ pepKey \in 0 .. MaxKey
    BY <2>3, KeyFacts DEF IInv, KeyInv, TypeOK
  <2>5. t.key = pepKey
    BY <2>2, <2>4, IdentityAssumption
  <2>6. t.ip = call[c].caller.ip
    BY <2>1 DEF IInv, MintedInv
  <2>7. ~Fresh(t)
    BY <2>1, <2>5, <2>6 DEF Verifies
  <2>8. clock \in Int /\ TTL \in Int
    BY IdentityAssumption DEF IInv, TypeOK
  <2> QED
    BY <2>2, <2>7, <2>8 DEF Fresh
<1> QED
  BY <1>1, IdentityInvariant, PTL DEF Spec, RefusedOnlyForAge
=============================================================================
