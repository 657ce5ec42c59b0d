---------------------- MODULE SubscriptionManagerProofs ----------------------
(* Proofs about SubscriptionManager for any number of subscriptions,          *)
(* providers, ids and calls under way, with failing requests and callers that *)
(* wait for nothing.                                                          *)
EXTENDS MCSubscriptionManager, TLAPS

(* A new manager satisfies the invariant.                                    *)
LEMMA InitEstablishes == Init => Inv
BY ConstantsAssumption, IdleAssumption
   DEF Init, Inv, TypeOK, RegisteredIsHeard, Registered, Busy, Heard

(* The parts of the invariant, by name.                                       *)
HeldIdsHeard == \A s \in Subs : id[s] # NoId => Heard(id[s])
SubscribersHeard == \A c \in Busy : calls[c].kind = "subscribe" => listeners[calls[c].at] > 0
CurrentHeard == provider \in Streaming => listeners[provider] > 0
LiveIssued == \A i \in live : source[i] # NoProvider
RemovalsSound ==
    \A c \in Busy : calls[c].kind = "unsubscribe" =>
       /\ source[calls[c].of] # NoProvider
       /\ calls[c].stage = "answered" => calls[c].of \notin live

(* The invariant is the conjunction of its named parts.                      *)
LEMMA InvParts ==
    /\ Inv <=> /\ TypeOK /\ RegisteredIsHeard /\ HeldIdsHeard /\ SubscribersHeard
               /\ CurrentHeard /\ LiveIssued /\ RemovalsSound
    /\ Inv' <=> /\ TypeOK' /\ RegisteredIsHeard' /\ HeldIdsHeard' /\ SubscribersHeard'
                /\ CurrentHeard' /\ LiveIssued' /\ RemovalsSound'
BY DEF Inv, HeldIdsHeard, SubscribersHeard, CurrentHeard, LiveIssued, RemovalsSound

(* Starting removals fills idle slots with unsubscribe calls for ids that     *)
(* their subscriptions hold, and leaves the other slots alone.                *)
LEMMA RemoveLemma ==
    ASSUME TypeOK, NEW E \in SUBSET Registered, NEW a \in BOOLEAN, Remove(E, a)
    PROVE  /\ calls' \in [Slots -> Call \cup {Idle}]
           /\ \A c \in Slots : calls'[c] = calls[c] \/
                 \E s \in Subs : /\ id[s] \in Ids /\ provider \in Providers
                                 /\ calls'[c] = RemovalOf(s, a)
<1> DEFINE sending == {i \in E : Removable(subs[i])}
<1>1. PICK slot \in Injection(sending, Slots \ Busy) :
         calls' = [c \in Slots |-> IF c \in Range(slot)
                                   THEN RemovalOf(subs[CHOOSE i \in sending : slot[i] = c], a)
                                   ELSE calls[c]]
  BY DEF Remove
<1>2. DOMAIN slot = sending
  BY DEF Injection
<1>3. ASSUME NEW i \in sending
      PROVE  subs[i] \in Subs /\ id[subs[i]] \in Ids /\ provider \in Providers
  BY DEF TypeOK, Registered, Removable
<1>4. ASSUME NEW c \in Slots, c \in Range(slot)
      PROVE  (CHOOSE i \in sending : slot[i] = c) \in sending
  <2>1. \E i \in sending : slot[i] = c
    BY <1>4, <1>2 DEF Range
  <2> HIDE DEF sending
  <2> QED BY <2>1
<1> HIDE DEF sending
<1>5. ASSUME NEW c \in Slots
      PROVE  calls'[c] = calls[c] \/ \E s \in Subs : /\ id[s] \in Ids /\ provider \in Providers
                                                     /\ calls'[c] = RemovalOf(s, a)
  <2>1. CASE c \in Range(slot)
    <3> DEFINE s == subs[CHOOSE i \in sending : slot[i] = c]
    <3>1. s \in Subs /\ id[s] \in Ids /\ provider \in Providers
      BY <2>1, <1>3, <1>4
    <3>2. calls'[c] = RemovalOf(s, a)
      BY <1>1, <2>1
    <3> HIDE DEF s
    <3> QED BY <3>1, <3>2
  <2>2. CASE c \notin Range(slot)
    BY <1>1, <2>2
  <2> QED BY <2>1, <2>2
<1>6. ASSUME NEW c \in Slots PROVE calls'[c] \in Call \cup {Idle}
  <2>1. calls[c] \in Call \cup {Idle}
    BY DEF TypeOK
  <2>2. ASSUME NEW s \in Subs, id[s] \in Ids, provider \in Providers
        PROVE  RemovalOf(s, a) \in Call
    BY <2>2 DEF RemovalOf, Call, Unsubscribing
  <2> QED BY <1>5, <2>1, <2>2
<1>7. calls' \in [Slots -> Call \cup {Idle}]
  <2>1. calls' = [c \in Slots |-> calls'[c]]
    BY <1>1
  <2> QED BY <2>1, <1>6
<1> QED BY <1>5, <1>7

(* A step that only lets calls start removals, or change nothing, keeps the   *)
(* parts of the invariant that speak of calls.                                *)
LEMMA CallPartsLemma ==
    ASSUME Inv, UNCHANGED <<source, live>>,
           \A p \in Providers : listeners'[p] >= listeners[p],
           listeners' \in [Providers -> 0..MaxListeners],
           NEW a \in BOOLEAN,
           \A c \in Slots : calls'[c] = calls[c] \/
              \E s \in Subs : id[s] \in Ids /\ provider \in Providers /\ calls'[c] = RemovalOf(s, a)
    PROVE  SubscribersHeard' /\ RemovalsSound'
<1>1. ASSUME NEW c \in Slots, calls'[c] # Idle, calls'[c].kind = "subscribe"
      PROVE  listeners'[calls'[c].at] > 0
  <2>1. CASE calls'[c] = calls[c]
    <3>1. c \in Busy /\ calls[c] \in Call
      BY <1>1, <2>1 DEF Busy, Inv, TypeOK
    <3>2. calls[c].at \in Providers
      BY <3>1 DEF Call, Subscribing, Unsubscribing
    <3>3. listeners[calls[c].at] > 0 /\ listeners[calls[c].at] \in 0..MaxListeners
      BY <1>1, <2>1, <3>1, <3>2 DEF Inv, TypeOK
    <3>4. listeners'[calls[c].at] \in 0..MaxListeners
      BY <3>2
    <3> QED BY <2>1, <3>2, <3>3, <3>4, ConstantsAssumption
  <2>2. CASE \E s \in Subs : calls'[c] = RemovalOf(s, a)
    BY <1>1, <2>2 DEF RemovalOf
  <2> QED BY <2>1, <2>2
<1>2. ASSUME NEW c \in Slots, calls'[c] # Idle, calls'[c].kind = "unsubscribe"
      PROVE  /\ source'[calls'[c].of] # NoProvider
             /\ calls'[c].stage = "answered" => calls'[c].of \notin live'
  <2>1. CASE calls'[c] = calls[c]
    BY <1>2, <2>1 DEF Busy, Inv
  <2>2. CASE \E s \in Subs : id[s] \in Ids /\ calls'[c] = RemovalOf(s, a)
    <3>1. PICK s \in Subs : id[s] \in Ids /\ calls'[c] = RemovalOf(s, a)
      BY <2>2
    <3>2. Heard(id[s])
      BY <3>1, ConstantsAssumption DEF Inv
    <3> QED BY <3>1, <3>2, ConstantsAssumption DEF RemovalOf, Heard
  <2> QED BY <2>1, <2>2
<1> QED BY <1>1, <1>2 DEF SubscribersHeard, RemovalsSound, Busy

(* With the streams and the listeners unchanged, registrations and held ids   *)
(* stay heard as long as they come from heard ones.                           *)
LEMMA HeardLemma ==
    ASSUME UNCHANGED <<source, listeners>>
    PROVE  \A i \in Ids : Heard(i)' <=> Heard(i)
BY DEF Heard

-----------------------------------------------------------------------------
(* A new addSubscription() goes to the present provider, which is heard.     *)
LEMMA SubscribePreserves ==
    ASSUME Inv, NEW s \in Subs, Subscribe(s)
    PROVE  Inv'
<1>1. PICK c \in Slots :
         calls' = [calls EXCEPT ![c] = [kind |-> "subscribe", sub |-> s,
                                        at |-> provider, stage |-> "sent"]]
  BY DEF Subscribe
<1>2. /\ UNCHANGED <<provider, listeners, subs, id, source, live, emitted>>
      /\ provider \in Providers /\ listeners[provider] > 0
  BY ConstantsAssumption DEF Subscribe, Inv
<1>3. \A d \in Slots : calls'[d] = IF d = c THEN [kind |-> "subscribe", sub |-> s,
                                                  at |-> provider, stage |-> "sent"]
                                   ELSE calls[d]
  BY <1>1 DEF Inv, TypeOK
<1>4. TypeOK'
  <2>1. [kind |-> "subscribe", sub |-> s, at |-> provider, stage |-> "sent"] \in Call
    BY <1>2 DEF Call, Subscribing
  <2> QED BY <1>1, <1>2, <2>1 DEF Inv, TypeOK
<1>5. SubscribersHeard' /\ RemovalsSound'
  BY <1>2, <1>3 DEF Inv, SubscribersHeard, RemovalsSound, Busy
<1>6. RegisteredIsHeard' /\ HeldIdsHeard' /\ CurrentHeard' /\ LiveIssued'
  BY <1>2 DEF Inv, RegisteredIsHeard, HeldIdsHeard, CurrentHeard, LiveIssued, Registered, Heard
<1> QED BY <1>4, <1>5, <1>6, InvParts

(* A call that was sent is answered or ends: the other calls stay.            *)
LEMMA StepOfCall ==
    ASSUME TypeOK, NEW c \in Slots, Answer(c) \/ Finish(c), calls[c] # Idle
    PROVE  /\ calls' \in [Slots -> Call \cup {Idle}]
           /\ \A d \in Slots \ {c} : calls'[d] = calls[d]
           /\ Finish(c) => calls'[c] = Idle
           /\ Answer(c) => /\ calls'[c].kind = calls[c].kind
                           /\ calls'[c].at = calls[c].at
                           /\ calls[c].kind = "unsubscribe" => calls'[c].of = calls[c].of
           /\ ~(Answer(c) /\ Finish(c))
<1>1. calls[c] \in Call /\ calls \in [Slots -> Call \cup {Idle}]
  BY DEF TypeOK
<1> DEFINE r == [calls[c] EXCEPT !.stage = "answered"]
<1>2. /\ r \in Call /\ r.kind = calls[c].kind /\ r.at = calls[c].at
      /\ calls[c].kind = "unsubscribe" => r.of = calls[c].of
  <2>1. CASE calls[c] \in Subscribing
    BY <2>1 DEF Call, Subscribing
  <2>2. CASE calls[c] \in Unsubscribing
    BY <2>2 DEF Call, Unsubscribing
  <2> QED BY <1>1, <2>1, <2>2 DEF Call
<1>3. Answer(c) => calls' = [calls EXCEPT ![c] = r]
  BY DEF Answer
<1> HIDE DEF r
<1>4. r # Idle
  BY <1>2, IdleAssumption
<1>5. CASE Finish(c)
  <2>1. calls'[c] = Idle /\ \A d \in Slots \ {c} : calls'[d] = calls[d]
    BY <1>1, <1>5 DEF Finish
  <2>2. ~Answer(c)
    BY <2>1, <1>1, <1>3, <1>4
  <2>3. calls' \in [Slots -> Call \cup {Idle}]
    BY <1>1, <1>5 DEF Finish
  <2> QED BY <2>1, <2>2, <2>3
<1>6. CASE Answer(c)
  <2>1. calls'[c] = r /\ \A d \in Slots \ {c} : calls'[d] = calls[d]
    BY <1>1, <1>3, <1>6
  <2>2. ~Finish(c)
    BY <2>1, <1>1, <1>4 DEF Finish
  <2>3. calls' \in [Slots -> Call \cup {Idle}]
    BY <1>1, <1>2, <1>3, <1>6
  <2> QED BY <1>2, <2>1, <2>2, <2>3
<1> QED BY <1>5, <1>6

(* A step that opens a stream for a subscribe call under way.                 *)
LEMMA OpenStreamLemma ==
    ASSUME Inv, NEW c \in Slots, Sent(c, "subscribe"), NEW i \in Ids, OpenStream(c, i),
           UNCHANGED listeners
    PROVE  /\ source' \in [Ids -> Providers \cup {NoProvider}] /\ live' \subseteq Ids
           /\ Heard(i)' /\ LiveIssued'
           /\ \A j \in Ids : source[j] # NoProvider =>
                 j # i /\ source'[j] = source[j] /\ (j \in live' <=> j \in live)
           /\ \A j \in Ids : Heard(j) => Heard(j)'
<1>1. calls[c] \in Call /\ calls[c].kind = "subscribe" /\ c \in Busy
  BY DEF Inv, TypeOK, Sent, Busy
<1>2. calls[c].at \in Providers /\ listeners[calls[c].at] > 0
  BY <1>1 DEF Inv, Call, Subscribing, Unsubscribing
<1>3. source \in [Ids -> Providers \cup {NoProvider}] /\ live \subseteq Ids
  BY DEF Inv, TypeOK
<1>4. \A j \in Ids : source'[j] = IF j = i THEN calls[c].at ELSE source[j]
  BY <1>3 DEF OpenStream
<1>5. source' \in [Ids -> Providers \cup {NoProvider}] /\ live' \subseteq Ids
  BY <1>2, <1>3 DEF OpenStream
<1>6. Heard(i)'
  BY <1>2, <1>4 DEF Heard
<1>7. \A j \in Ids : source[j] # NoProvider =>
         j # i /\ source'[j] = source[j] /\ (j \in live' <=> j \in live)
  BY <1>4 DEF OpenStream
<1>8. \A j \in Ids : Heard(j) => Heard(j)'
  BY <1>7, ConstantsAssumption DEF Heard
<1>9. LiveIssued'
  <2> SUFFICES ASSUME NEW j \in live' PROVE source'[j] # NoProvider
    BY DEF LiveIssued
  <2>1. CASE j = i
    BY <2>1, <1>2, <1>4, ConstantsAssumption
  <2>2. CASE j # i
    BY <2>2, <1>3, <1>4 DEF OpenStream, Inv
  <2> QED BY <2>1, <2>2
<1> QED BY <1>5, <1>6, <1>7, <1>8, <1>9

(* An answer, a registration or a failure of addSubscription().              *)
LEMMA SubscribeEndsPreserve ==
    ASSUME Inv, NEW c \in Slots,
           SubscribeAnswered(c) \/ SubscribeRegisters(c) \/ SubscribeFails(c)
    PROVE  Inv'
<1>1. CASE SubscribeAnswered(c)
  <2>1. PICK i \in Ids : OpenStream(c, i) /\ id' = [id EXCEPT ![calls[c].sub] = i]
    BY <1>1 DEF SubscribeAnswered
  <2>2. /\ Sent(c, "subscribe") /\ Answer(c) /\ calls[c] # Idle
        /\ UNCHANGED <<provider, listeners, subs, emitted>>
    BY <1>1 DEF SubscribeAnswered, Sent
  <2>3. calls[c].kind = "subscribe" /\ c \in Busy /\ TypeOK
    BY <2>2 DEF Sent, Busy, Inv
  <2>4. /\ source' \in [Ids -> Providers \cup {NoProvider}] /\ live' \subseteq Ids
        /\ Heard(i)' /\ LiveIssued'
        /\ \A j \in Ids : source[j] # NoProvider =>
              j # i /\ source'[j] = source[j] /\ (j \in live' <=> j \in live)
        /\ \A j \in Ids : Heard(j) => Heard(j)'
    BY <2>1, <2>2, OpenStreamLemma
  <2>5. /\ calls' \in [Slots -> Call \cup {Idle}]
        /\ \A d \in Slots \ {c} : calls'[d] = calls[d]
        /\ calls'[c].kind = "subscribe" /\ calls'[c].at = calls[c].at
    BY <2>2, <2>3, StepOfCall
  <2>6. TypeOK'
    BY <2>1, <2>2, <2>3, <2>4, <2>5 DEF TypeOK
  <2>7. RegisteredIsHeard' /\ CurrentHeard'
    BY <2>2, <2>3, <2>4 DEF Inv, RegisteredIsHeard, Registered, CurrentHeard
  <2>8. HeldIdsHeard'
    BY <2>1, <2>3, <2>4 DEF Inv, HeldIdsHeard, TypeOK
  <2>9. SubscribersHeard'
    BY <2>2, <2>3, <2>5 DEF Inv, SubscribersHeard, Busy
  <2>10. RemovalsSound'
    <3> SUFFICES ASSUME NEW d \in Slots, calls'[d] # Idle, calls'[d].kind = "unsubscribe"
                 PROVE  /\ source'[calls'[d].of] # NoProvider
                        /\ calls'[d].stage = "answered" => calls'[d].of \notin live'
      BY DEF RemovalsSound, Busy
    <3>1. d # c /\ calls'[d] = calls[d] /\ d \in Busy /\ calls[d] \in Call
      BY <2>3, <2>5 DEF Busy, TypeOK
    <3>2. calls[d].of \in Ids
      BY <3>1 DEF Call, Subscribing, Unsubscribing
    <3> QED BY <3>1, <3>2, <2>4 DEF Inv
  <2> QED BY <2>4, <2>6, <2>7, <2>8, <2>9, <2>10, InvParts
<1>2. CASE SubscribeRegisters(c)
  <2>1. /\ Answered(c, "subscribe") /\ Finish(c) /\ calls[c] # Idle /\ TypeOK
        /\ UNCHANGED <<provider, listeners, id, source, live, emitted>>
    BY <1>2 DEF SubscribeRegisters, Answered, Inv
  <2>2. /\ calls' \in [Slots -> Call \cup {Idle}]
        /\ \A d \in Slots \ {c} : calls'[d] = calls[d]
        /\ calls'[c] = Idle
    BY <2>1, StepOfCall
  <2> DEFINE s == calls[c].sub
  <2>3. s \in Subs
    <3>1. calls[c] \in Call
      BY <2>1 DEF TypeOK
    <3> QED BY <3>1 DEF Call, Subscribing, Unsubscribing
  <2>4. subs' = IF id[s] = NoId THEN subs ELSE [subs EXCEPT ![id[s]] = s]
    BY <1>2 DEF SubscribeRegisters
  <2> HIDE DEF s
  <2>5. TypeOK'
    BY <2>1, <2>2, <2>3, <2>4 DEF TypeOK
  <2>6. RegisteredIsHeard'
    <3> SUFFICES ASSUME NEW i \in Ids, subs'[i] # NoSub PROVE Heard(i)
      BY <2>1, HeardLemma DEF RegisteredIsHeard, Registered
    <3>1. CASE i \in Registered
      BY <3>1 DEF Inv, RegisteredIsHeard
    <3>2. CASE i \notin Registered
      <4>1. id[s] # NoId /\ i = id[s]
        BY <3>2, <2>1, <2>4 DEF Registered, TypeOK
      <4> QED BY <4>1, <2>3 DEF Inv
    <3> QED BY <3>1, <3>2
  <2>7. HeldIdsHeard' /\ CurrentHeard' /\ LiveIssued'
    BY <2>1, HeardLemma DEF Inv, TypeOK, HeldIdsHeard, CurrentHeard, LiveIssued, Heard
  <2>8. SubscribersHeard' /\ RemovalsSound'
    BY <2>1, <2>2 DEF Inv, SubscribersHeard, RemovalsSound, Busy
  <2> QED BY <2>5, <2>6, <2>7, <2>8, InvParts
<1>3. CASE SubscribeFails(c)
  <2>1. /\ Sent(c, "subscribe") /\ Finish(c) /\ calls[c] # Idle /\ TypeOK
        /\ UNCHANGED <<provider, listeners, subs, id, emitted>>
    BY <1>3 DEF SubscribeFails, Sent, Inv
  <2>2. /\ calls' \in [Slots -> Call \cup {Idle}]
        /\ \A d \in Slots \ {c} : calls'[d] = calls[d]
        /\ calls'[c] = Idle
    BY <2>1, StepOfCall
  <2>3. /\ source' \in [Ids -> Providers \cup {NoProvider}] /\ live' \subseteq Ids
        /\ LiveIssued'
        /\ \A j \in Ids : source[j] # NoProvider =>
              source'[j] = source[j] /\ (j \in live' <=> j \in live)
        /\ \A j \in Ids : Heard(j) => Heard(j)'
    <3>1. CASE UNCHANGED <<source, live>>
      BY <3>1, <2>1, HeardLemma DEF Inv, TypeOK, LiveIssued
    <3>2. CASE \E i \in Ids : OpenStream(c, i)
      <4>1. PICK i \in Ids : OpenStream(c, i)
        BY <3>2
      <4> QED BY <4>1, <2>1, OpenStreamLemma
    <3> QED BY <1>3, <3>1, <3>2 DEF SubscribeFails
  <2>4. TypeOK'
    BY <2>1, <2>2, <2>3 DEF TypeOK
  <2>5. RegisteredIsHeard' /\ CurrentHeard' /\ HeldIdsHeard'
    BY <2>1, <2>3 DEF Inv, TypeOK, RegisteredIsHeard, Registered, CurrentHeard, HeldIdsHeard
  <2>6. SubscribersHeard'
    BY <2>1, <2>2 DEF Inv, SubscribersHeard, Busy
  <2>7. RemovalsSound'
    <3> SUFFICES ASSUME NEW d \in Slots, calls'[d] # Idle, calls'[d].kind = "unsubscribe"
                 PROVE  /\ source'[calls'[d].of] # NoProvider
                        /\ calls'[d].stage = "answered" => calls'[d].of \notin live'
      BY DEF RemovalsSound, Busy
    <3>1. calls'[d] = calls[d] /\ d \in Busy /\ calls[d] \in Call
      BY <2>1, <2>2 DEF Busy, TypeOK
    <3>2. calls[d].of \in Ids
      BY <3>1 DEF Call, Subscribing, Unsubscribing
    <3> QED BY <3>1, <3>2, <2>3 DEF Inv
  <2> QED BY <2>3, <2>4, <2>5, <2>6, <2>7, InvParts
<1> QED BY <1>1, <1>2, <1>3

-----------------------------------------------------------------------------
(* Starting one removal or several, with nothing else changed.                *)
LEMMA RemovalsStartPreserve ==
    ASSUME Inv, (\E s \in Subs : Unsubscribe(s)) \/ UnsubscribeMany
    PROVE  Inv'
<1>1. UNCHANGED <<provider, listeners, subs, id, source, live, emitted>> /\ TypeOK
  BY DEF Unsubscribe, UnsubscribeMany, Inv
<1>2. /\ calls' \in [Slots -> Call \cup {Idle}]
      /\ \A c \in Slots : calls'[c] = calls[c] \/
            \E s \in Subs : id[s] \in Ids /\ provider \in Providers /\ calls'[c] = RemovalOf(s, TRUE)
  <2>1. CASE UnsubscribeMany
    <3>1. PICK E \in SUBSET Registered : Remove(E, TRUE)
      BY <2>1 DEF UnsubscribeMany
    <3> QED BY <3>1, <1>1, RemoveLemma
  <2>2. ASSUME NEW s \in Subs, Unsubscribe(s)
        PROVE  /\ calls' \in [Slots -> Call \cup {Idle}]
               /\ \A c \in Slots : calls'[c] = calls[c] \/
                     (id[s] \in Ids /\ provider \in Providers /\ calls'[c] = RemovalOf(s, TRUE))
    <3>1. PICK c \in Slots : calls' = [calls EXCEPT ![c] = RemovalOf(s, TRUE)]
      BY <2>2 DEF Unsubscribe
    <3>2. id[s] \in Ids /\ provider \in Providers
      BY <2>2, <1>1 DEF Unsubscribe, Removable, TypeOK
    <3>3. RemovalOf(s, TRUE) \in Call
      BY <3>2 DEF RemovalOf, Call, Unsubscribing
    <3>4. calls \in [Slots -> Call \cup {Idle}]
      BY <1>1 DEF TypeOK
    <3> QED BY <3>1, <3>2, <3>3, <3>4
  <2> QED BY <2>1, <2>2
<1>3. TypeOK'
  BY <1>1, <1>2 DEF TypeOK
<1>4. SubscribersHeard' /\ RemovalsSound'
  <2>1. /\ listeners' \in [Providers -> 0..MaxListeners]
        /\ \A p \in Providers : listeners'[p] >= listeners[p]
    BY <1>1, ConstantsAssumption DEF TypeOK
  <2> QED BY <1>1, <1>2, <2>1, CallPartsLemma
<1>5. RegisteredIsHeard' /\ HeldIdsHeard' /\ CurrentHeard' /\ LiveIssued'
  BY <1>1 DEF Inv, RegisteredIsHeard, HeldIdsHeard, CurrentHeard, LiveIssued, Registered, Heard
<1> QED BY <1>3, <1>4, <1>5, InvParts

(* An answer, a removal or a failure of removeSubscription().                *)
LEMMA UnsubscribeEndsPreserve ==
    ASSUME Inv, NEW c \in Slots,
           UnsubscribeAnswered(c) \/ UnsubscribeRemoves(c) \/ UnsubscribeFails(c)
    PROVE  Inv'
<1>0. /\ TypeOK /\ calls[c] # Idle /\ calls[c].kind = "unsubscribe" /\ c \in Busy
      /\ UNCHANGED <<provider, listeners, source, emitted>>
      /\ live' \subseteq live
  BY DEF Inv, UnsubscribeAnswered, UnsubscribeRemoves, UnsubscribeFails, Sent, Answered, Busy
<1>1. calls[c] \in Call /\ calls[c].sub \in Subs /\ calls[c].of \in Ids
  <2>1. calls[c] \in Call
    BY <1>0 DEF TypeOK
  <2> QED BY <1>0, <2>1 DEF Call, Subscribing, Unsubscribing
<1>2. Answer(c) \/ Finish(c)
  BY DEF UnsubscribeAnswered, UnsubscribeRemoves, UnsubscribeFails
<1>3. /\ calls' \in [Slots -> Call \cup {Idle}]
      /\ \A d \in Slots \ {c} : calls'[d] = calls[d]
      /\ Finish(c) => calls'[c] = Idle
      /\ Answer(c) => /\ calls'[c].kind = calls[c].kind
                      /\ calls'[c].at = calls[c].at
                      /\ calls[c].kind = "unsubscribe" => calls'[c].of = calls[c].of
      /\ ~(Answer(c) /\ Finish(c))
  BY <1>0, <1>2, StepOfCall
<1>4. /\ id' \in [Subs -> Ids \cup {NoId}]
      /\ \A s \in Subs : id'[s] # NoId => id'[s] = id[s]
  BY <1>0, <1>1 DEF TypeOK, UnsubscribeAnswered, UnsubscribeRemoves, UnsubscribeFails
<1>5. /\ subs' \in [Ids -> Subs \cup {NoSub}]
      /\ \A i \in Ids : subs'[i] # NoSub => subs'[i] = subs[i]
  BY <1>0, <1>1 DEF TypeOK, UnsubscribeAnswered, UnsubscribeRemoves, UnsubscribeFails
<1>6. Answer(c) => calls[c].of \notin live'
  <2>1. CASE UnsubscribeAnswered(c)
    BY <2>1 DEF UnsubscribeAnswered
  <2>2. CASE Finish(c)
    BY <2>2, <1>3
  <2> QED BY <2>1, <2>2 DEF UnsubscribeRemoves, UnsubscribeFails
<1>7. TypeOK'
  BY <1>0, <1>3, <1>4, <1>5 DEF TypeOK
<1>8. RegisteredIsHeard' /\ HeldIdsHeard' /\ CurrentHeard' /\ LiveIssued'
  BY <1>0, <1>4, <1>5
     DEF Inv, RegisteredIsHeard, HeldIdsHeard, CurrentHeard, LiveIssued, Registered, Heard
<1>9. SubscribersHeard'
  BY <1>0, <1>2, <1>3 DEF Inv, SubscribersHeard, Busy
<1>10. RemovalsSound'
  <2> SUFFICES ASSUME NEW d \in Slots, calls'[d] # Idle, calls'[d].kind = "unsubscribe"
               PROVE  /\ source'[calls'[d].of] # NoProvider
                      /\ calls'[d].stage = "answered" => calls'[d].of \notin live'
    BY DEF RemovalsSound, Busy
  <2>1. CASE d = c
    BY <2>1, <1>0, <1>2, <1>3, <1>6 DEF Inv
  <2>2. CASE d # c
    BY <2>2, <1>0, <1>3 DEF Inv, Busy
  <2> QED BY <2>1, <2>2
<1> QED BY <1>7, <1>8, <1>9, <1>10, InvParts

(* A new provider is listened to, and no listener is taken off the old one.  *)
LEMMA SetProviderPreserves ==
    ASSUME Inv, NEW p \in Providers \cup {NoProvider}, SetProvider(p)
    PROVE  Inv'
<1>1. /\ TypeOK /\ Remove(Registered, FALSE) /\ provider' = p
      /\ subs' = [i \in Ids |-> NoSub] /\ listeners' = Listening(p)
      /\ p \in Streaming => listeners[p] < MaxListeners
      /\ UNCHANGED <<id, source, live, emitted>>
  BY DEF Inv, SetProvider
<1>2. /\ calls' \in [Slots -> Call \cup {Idle}]
      /\ \A c \in Slots : calls'[c] = calls[c] \/
            \E s \in Subs : id[s] \in Ids /\ provider \in Providers /\ calls'[c] = RemovalOf(s, FALSE)
  BY <1>1, RemoveLemma
<1>3. /\ listeners' \in [Providers -> 0..MaxListeners]
      /\ \A q \in Providers : listeners'[q] >= listeners[q]
      /\ p \in Streaming => listeners'[p] > 0
  BY <1>1, ConstantsAssumption DEF TypeOK, Listening
<1>4. TypeOK'
  BY <1>1, <1>2, <1>3 DEF TypeOK
<1>5. SubscribersHeard' /\ RemovalsSound'
  BY <1>1, <1>2, <1>3, CallPartsLemma
<1>6. RegisteredIsHeard' /\ CurrentHeard' /\ LiveIssued'
  BY <1>1, <1>3 DEF Inv, RegisteredIsHeard, Registered, CurrentHeard, LiveIssued
<1>7. HeldIdsHeard'
  <2> SUFFICES ASSUME NEW s \in Subs, id[s] # NoId
               PROVE  source[id[s]] \in Providers /\ listeners'[source[id[s]]] > 0
    BY <1>1 DEF HeldIdsHeard, Heard
  <2>1. source[id[s]] \in Providers /\ listeners[source[id[s]]] > 0
    BY DEF Inv, Heard
  <2>2. listeners[source[id[s]]] \in 0..MaxListeners /\ listeners'[source[id[s]]] \in 0..MaxListeners
    BY <2>1, <1>1, <1>3 DEF TypeOK
  <2> QED BY <2>1, <2>2, <1>3, ConstantsAssumption
<1> QED BY <1>4, <1>5, <1>6, <1>7, InvParts

(* A notification of a node only makes events.                               *)
LEMMA NotificationPreserves ==
    ASSUME Inv, NEW i \in Ids, Notification(i)
    PROVE  Inv'
<1>1. UNCHANGED <<provider, listeners, subs, id, calls, source, live>> /\ TypeOK
  BY DEF Notification, Inv
<1>2. emitted' \in 0..MaxListeners
  <2>1. CASE i \in Registered
    <3>1. emitted' = listeners[source[i]] /\ source[i] \in Providers
      BY <2>1 DEF Notification, Inv, RegisteredIsHeard, Heard
    <3> QED BY <3>1, <1>1 DEF TypeOK
  <2>2. CASE i \notin Registered
    BY <2>2, ConstantsAssumption DEF Notification
  <2> QED BY <2>1, <2>2
<1>3. TypeOK'
  BY <1>1, <1>2 DEF TypeOK
<1>4. /\ RegisteredIsHeard' /\ HeldIdsHeard' /\ CurrentHeard' /\ LiveIssued'
      /\ SubscribersHeard' /\ RemovalsSound'
  BY <1>1 DEF Inv, RegisteredIsHeard, HeldIdsHeard, CurrentHeard, LiveIssued, SubscribersHeard,
              RemovalsSound, Registered, Heard, Busy
<1> QED BY <1>3, <1>4, InvParts

(* Every step of the manager preserves the invariant.                        *)
LEMMA NextPreserves ==
    ASSUME Inv, [Next]_vars
    PROVE  Inv'
<1>1. CASE UNCHANGED vars
  <2>1. TypeOK'
    BY <1>1 DEF Inv, TypeOK, vars
  <2>2. /\ RegisteredIsHeard' /\ HeldIdsHeard' /\ CurrentHeard' /\ LiveIssued'
        /\ SubscribersHeard' /\ RemovalsSound'
    BY <1>1 DEF vars, Inv, RegisteredIsHeard, HeldIdsHeard, CurrentHeard, LiveIssued,
                SubscribersHeard, RemovalsSound, Registered, Heard, Busy
  <2> QED BY <2>1, <2>2, InvParts
<1> QED
  BY <1>1, SubscribePreserves, SubscribeEndsPreserve, RemovalsStartPreserve,
     UnsubscribeEndsPreserve, SetProviderPreserves, NotificationPreserves DEF Next, Uses, Manages

-----------------------------------------------------------------------------
(* The inductive invariant holds in every behaviour, whatever the callers do  *)
(* and whichever requests fail.                                               *)
THEOREM InvHolds == Spec => []Inv
<1>1. Inv /\ [Next]_vars => Inv'
  BY NextPreserves
<1> QED BY InitEstablishes, <1>1, PTL DEF Spec

(* Every registered subscription has a listener on the provider that serves   *)
(* its stream, also across provider changes.                                  *)
THEOREM HeardHolds == Spec => []RegisteredIsHeard
<1>1. Inv => RegisteredIsHeard
  BY DEF Inv
<1> QED BY InvHolds, <1>1, PTL

(* The manager lets go of a registered subscription only once its stream has  *)
(* stopped or the provider is replaced.                                       *)
THEOREM DropsAreSound == Spec => DroppedOnlyWhenStopped
<1> DEFINE Sound == \A i \in Ids : i \in Registered /\ subs'[i] = NoSub =>
                       i \notin live \/ \E p \in Providers \cup {NoProvider} : SetProvider(p)
<1>1. Inv /\ [Next]_vars => [Sound]_vars
  <2> SUFFICES ASSUME Inv, Next, NEW i \in Ids, i \in Registered, subs'[i] = NoSub,
                      ~ \E p \in Providers \cup {NoProvider} : SetProvider(p)
               PROVE  i \notin live
    OBVIOUS
  <2>1. subs[i] # NoSub /\ subs \in [Ids -> Subs \cup {NoSub}] /\ TypeOK
    BY DEF Registered, Inv, TypeOK
  <2>2. ASSUME NEW c \in Slots, UnsubscribeRemoves(c) PROVE i \notin live
    <3>1. c \in Busy /\ calls[c].kind = "unsubscribe" /\ calls[c].stage = "answered"
      BY <2>2 DEF UnsubscribeRemoves, Answered, Busy
    <3>2. i = calls[c].of
      BY <2>1, <2>2 DEF UnsubscribeRemoves
    <3> QED BY <3>1, <3>2 DEF Inv
  <2>3. ASSUME NEW c \in Slots, SubscribeRegisters(c) PROVE FALSE
    <3>1. calls[c] \in Call
      BY <2>1, <2>3 DEF SubscribeRegisters, Answered, TypeOK
    <3>2. calls[c].sub \in Subs
      BY <3>1 DEF Call, Subscribing, Unsubscribing
    <3> QED BY <2>1, <2>3, <3>2, ConstantsAssumption DEF SubscribeRegisters
  <2>4. subs' = subs \/ \E c \in Slots : UnsubscribeRemoves(c) \/ SubscribeRegisters(c)
    BY DEF Next, Uses, Manages, Subscribe, Unsubscribe, UnsubscribeMany, SubscribeAnswered, SubscribeFails,
           UnsubscribeAnswered, UnsubscribeFails, Notification
  <2> QED BY <2>1, <2>2, <2>3, <2>4
<1> QED BY InvHolds, <1>1, PTL DEF Spec, DroppedOnlyWhenStopped

-----------------------------------------------------------------------------
(* Every stream a node still serves can be stopped or is being handled.       *)
Accounted ==
    \A i \in live :
       \/ Stoppable(i)
       \/ \E c \in Busy : Serves(c) /\ calls[c].of = i
       \/ \E c \in Busy : Answered(c, "subscribe") /\ id[calls[c].sub] = i

(* What a tidy application keeps true.                                        *)
Settled ==
    /\ EntriesServed /\ RemovalsServed /\ RemovalsApart /\ UnawaitedApart
    /\ SubscribesAlone /\ Accounted

(* The invariant of a tidy application, in its two parts.                     *)
LEMMA OrderlyParts ==
    /\ OrderlyInv <=> Inv /\ (discipline = "tidy" => Settled)
    /\ OrderlyInv' <=> Inv' /\ (discipline' = "tidy" => Settled')
BY DEF OrderlyInv, NoOrphanStreams, Settled, Accounted

(* The shapes of a call under way.                                            *)
LEMMA CallShapes ==
    ASSUME TypeOK, NEW c \in Busy
    PROVE  /\ c \in Slots /\ calls[c] \in Call
           /\ calls[c].sub \in Subs /\ calls[c].at \in Providers
           /\ calls[c].kind \in {"subscribe", "unsubscribe"}
           /\ calls[c].kind = "unsubscribe" => calls[c].of \in Ids
<1>1. c \in Slots /\ calls[c] \in Call
  BY DEF TypeOK, Busy
<1> QED BY <1>1 DEF Call, Subscribing, Unsubscribing

(* An answer changes the stage of its call and nothing else of the calls.     *)
LEMMA AnswerLemma ==
    ASSUME TypeOK, NEW c \in Busy, Answer(c)
    PROVE  /\ Busy' = Busy /\ Own' = Own
           /\ \A d \in Busy \ {c} : calls'[d] = calls[d]
           /\ calls'[c].stage = "answered" /\ calls'[c].kind = calls[c].kind
           /\ calls'[c].sub = calls[c].sub /\ calls'[c].at = calls[c].at
           /\ calls[c].kind = "unsubscribe" => calls'[c].of = calls[c].of
<1> DEFINE r == [calls[c] EXCEPT !.stage = "answered"]
<1>1. c \in Slots /\ calls[c] \in Call
  BY CallShapes
<1>2. /\ r \in Call /\ r.stage = "answered" /\ r.kind = calls[c].kind
      /\ r.sub = calls[c].sub /\ r.at = calls[c].at
      /\ calls[c].kind = "unsubscribe" => r.of = calls[c].of /\ (r.awaited <=> calls[c].awaited)
  <2>1. CASE calls[c] \in Subscribing
    BY <2>1 DEF Call, Subscribing
  <2>2. CASE calls[c] \in Unsubscribing
    BY <2>2 DEF Call, Unsubscribing
  <2> QED BY <1>1, <2>1, <2>2 DEF Call
<1>3. calls' = [calls EXCEPT ![c] = r]
  BY DEF Answer
<1> HIDE DEF r
<1>4. calls'[c] = r /\ r # Idle /\ \A d \in Slots \ {c} : calls'[d] = calls[d]
  BY <1>1, <1>2, <1>3, IdleAssumption DEF TypeOK
<1>5. Busy' = Busy /\ \A d \in Busy \ {c} : calls'[d] = calls[d]
  BY <1>4 DEF Busy
<1>6. Own' = Own
  BY <1>2, <1>4, <1>5 DEF Own
<1> QED BY <1>2, <1>4, <1>5, <1>6

(* A call that ends frees its slot.                                           *)
LEMMA FinishLemma ==
    ASSUME TypeOK, NEW c \in Busy, Finish(c)
    PROVE  /\ Busy' = Busy \ {c} /\ Own' = Own \ {c}
           /\ \A d \in Busy \ {c} : calls'[d] = calls[d]
<1>1. calls'[c] = Idle /\ \A d \in Slots \ {c} : calls'[d] = calls[d]
  BY DEF TypeOK, Busy, Finish
<1>2. Busy' = Busy \ {c} /\ \A d \in Busy \ {c} : calls'[d] = calls[d]
  BY <1>1 DEF Busy
<1> QED BY <1>2 DEF Own

(* What holds between two calls of the application: every entry of the map is *)
(* a stream that can be stopped, every other stream is being stopped, and the *)
(* calls under way are removals of others than the entries.                   *)
LEMMA AtRest ==
    ASSUME Settled, Own = {}
    PROVE  /\ \A i \in Registered : i \in live /\ Stoppable(i)
           /\ \A i \in live : i \in Registered \/ \E c \in Busy : Serves(c) /\ calls[c].of = i
           /\ \A c \in Busy : /\ calls[c].kind = "unsubscribe" /\ ~calls[c].awaited
                              /\ calls[c].of \notin Registered
<1>1. \A c \in Busy : calls[c].kind = "unsubscribe" /\ ~calls[c].awaited
  BY DEF Own
<1>2. \A i \in Registered : i \in live /\ Stoppable(i)
  BY DEF Settled, EntriesServed
<1>3. \A i \in live : i \in Registered \/ \E c \in Busy : Serves(c) /\ calls[c].of = i
  BY <1>1 DEF Settled, Accounted, Stoppable, Answered
<1>4. \A c \in Busy : calls[c].of \notin Registered
  BY DEF Settled, UnawaitedApart
<1> QED BY <1>1, <1>2, <1>3, <1>4

(* `calls' becomes what it was and one new removal for each entry in E.       *)
Started(E, a) ==
    /\ \A c \in Slots : \/ calls'[c] = calls[c]
                        \/ /\ calls[c] = Idle
                           /\ \E s \in Subs : id[s] \in E /\ calls'[c] = RemovalOf(s, a)
    /\ \A i \in E : \E c \in Slots : calls[c] = Idle /\ calls'[c] # Idle /\ calls'[c].of = i
    /\ \A c, d \in Slots :
          /\ calls[c] = Idle /\ calls'[c] # Idle /\ calls[d] = Idle /\ calls'[d] # Idle
          /\ calls'[c].of = calls'[d].of
          => c = d

(* Removing entries E of a map at rest starts one call for each of them.      *)
LEMMA RemoveExact ==
    ASSUME TypeOK, NEW E \in SUBSET Registered, NEW a \in BOOLEAN, Remove(E, a),
           \A i \in E : id[subs[i]] = i /\ provider # NoProvider
    PROVE  Started(E, a)
<1> DEFINE sending == {i \in E : Removable(subs[i])}
<1>1. PICK slot \in Injection(sending, Slots \ Busy) :
         calls' = [c \in Slots |-> IF c \in Range(slot)
                                   THEN RemovalOf(subs[CHOOSE i \in sending : slot[i] = c], a)
                                   ELSE calls[c]]
  BY DEF Remove
<1>2. sending = E
  <2>1. \A i \in E : i \in Ids /\ i # NoId /\ i \in Registered
    BY ConstantsAssumption DEF Registered
  <2> QED BY <2>1 DEF Removable
<1> HIDE DEF sending
<1>3. /\ slot \in [E -> Slots \ Busy] /\ DOMAIN slot = E
      /\ \A i, j \in E : slot[i] = slot[j] => i = j
  BY <1>2 DEF Injection, IsInjective
<1>4. ASSUME NEW i \in E
      PROVE  /\ subs[i] \in Subs /\ id[subs[i]] = i /\ RemovalOf(subs[i], a) # Idle
             /\ RemovalOf(subs[i], a).of = i
  <2>1. subs[i] \in Subs /\ i \in Ids /\ provider \in Providers
    BY DEF TypeOK, Registered
  <2>2. RemovalOf(subs[i], a).of = i
    BY DEF RemovalOf
  <2>3. RemovalOf(subs[i], a) \in Call
    BY <2>1 DEF RemovalOf, Call, Unsubscribing
  <2> QED BY <2>1, <2>2, <2>3, IdleAssumption
<1>5. ASSUME NEW i \in E
      PROVE  /\ slot[i] \in Slots /\ calls[slot[i]] = Idle
             /\ calls'[slot[i]] = RemovalOf(subs[i], a)
  <2>1. slot[i] \in Slots /\ calls[slot[i]] = Idle /\ slot[i] \in Range(slot)
    BY <1>3 DEF Range, Busy
  <2>2. (CHOOSE j \in sending : slot[j] = slot[i]) = i
    BY <1>2, <1>3
  <2> QED BY <1>1, <2>1, <2>2
<1>6. ASSUME NEW c \in Slots
      PROVE  calls'[c] = calls[c] \/ \E i \in E : slot[i] = c
  BY <1>1, <1>3 DEF Range
<1>7. ASSUME NEW c \in Slots
      PROVE  \/ calls'[c] = calls[c]
             \/ calls[c] = Idle /\ \E s \in Subs : id[s] \in E /\ calls'[c] = RemovalOf(s, a)
  BY <1>4, <1>5, <1>6
<1>8. ASSUME NEW i \in E
      PROVE  \E c \in Slots : calls[c] = Idle /\ calls'[c] # Idle /\ calls'[c].of = i
  BY <1>4, <1>5
<1>9. ASSUME NEW c \in Slots, NEW d \in Slots, calls[c] = Idle, calls'[c] # Idle,
             calls[d] = Idle, calls'[d] # Idle, calls'[c].of = calls'[d].of
      PROVE  c = d
  <2>1. PICK i \in E : slot[i] = c
    BY <1>6, <1>9
  <2>2. PICK j \in E : slot[j] = d
    BY <1>6, <1>9
  <2>3. calls'[c].of = i /\ calls'[d].of = j
    BY <2>1, <2>2, <1>4, <1>5
  <2> QED BY <2>1, <2>2, <2>3, <1>9
<1> QED BY <1>7, <1>8, <1>9 DEF Started

(* Removals started at rest: by the application, or for it when the provider  *)
(* is replaced, and then of the whole map.                                    *)
LEMMA RemovalsKeepOrder ==
    ASSUME TypeOK, Settled, Own = {}, NEW E \in SUBSET Registered, NEW a \in BOOLEAN,
           Started(E, a), UNCHANGED <<id, source, live>>,
           \/ a /\ UNCHANGED <<subs, provider>>
           \/ Registered' = {} /\ E = Registered
    PROVE  Settled'
<1>1. /\ \A i \in Registered : i \in live /\ Stoppable(i)
      /\ \A i \in live : i \in Registered \/ \E c \in Busy : Serves(c) /\ calls[c].of = i
      /\ \A c \in Busy : /\ calls[c].kind = "unsubscribe" /\ ~calls[c].awaited
                         /\ calls[c].of \notin Registered
  BY AtRest
<1>2. Busy \subseteq Busy' /\ \A c \in Busy : calls'[c] = calls[c]
  BY DEF Started, Busy
<1>3. ASSUME NEW c \in Busy' \ Busy
      PROVE  /\ calls'[c].kind = "unsubscribe" /\ calls'[c].stage = "sent"
             /\ calls'[c].of \in E /\ calls'[c].of = id[calls'[c].sub]
             /\ calls'[c].at = provider /\ calls'[c].awaited = a
  <2>1. c \in Slots /\ calls'[c] # Idle /\ calls[c] = Idle
    BY DEF Busy
  <2>2. PICK s \in Subs : id[s] \in E /\ calls'[c] = RemovalOf(s, a)
    BY <2>1 DEF Started
  <2> QED BY <2>2 DEF RemovalOf
<1>4. ASSUME NEW i \in E PROVE \E c \in Busy' \ Busy : calls'[c].of = i
  <2>1. PICK c \in Slots : calls[c] = Idle /\ calls'[c] # Idle /\ calls'[c].of = i
    BY DEF Started
  <2> QED BY <2>1 DEF Busy
<1>5. ASSUME NEW c \in Busy' \ Busy, NEW d \in Busy' \ Busy, calls'[c].of = calls'[d].of
      PROVE  c = d
  BY <1>5 DEF Started, Busy
<1>6. ASSUME NEW c \in Busy' \ Busy PROVE Serves(c)'
  <2>1. calls'[c].of \in live /\ source[calls'[c].of] = provider /\ calls'[c] # Idle
    BY <1>1, <1>3 DEF Stoppable, Busy
  <2> QED BY <2>1, <1>3 DEF Serves, Sent
<1>7. ASSUME NEW c \in Busy, Serves(c) PROVE Serves(c)'
  BY <1>2, <1>7 DEF Serves, Sent
<1>8. Registered' \subseteq Registered
  BY DEF Registered
<1>9. ASSUME NEW i \in Registered' PROVE i \in live' /\ Stoppable(i)'
  <2>1. UNCHANGED <<subs, provider>> /\ i \in Registered
    BY <1>8
  <2> QED BY <1>1, <2>1 DEF Stoppable
<1>10. EntriesServed'
  BY <1>9 DEF EntriesServed
<1>11. RemovalsServed'
  <2> SUFFICES ASSUME NEW c \in Busy', Sent(c, "unsubscribe")'
               PROVE  Serves(c)' /\ id[calls'[c].sub] = calls'[c].of
    BY DEF RemovalsServed
  <2>1. CASE c \in Busy
    <3>1. calls'[c] = calls[c] /\ Sent(c, "unsubscribe")
      BY <2>1, <1>2 DEF Sent
    <3>2. Serves(c) /\ id[calls[c].sub] = calls[c].of
      BY <2>1, <3>1 DEF Settled, RemovalsServed
    <3> QED BY <2>1, <3>1, <3>2, <1>7
  <2>2. CASE c \notin Busy
    BY <2>2, <1>3, <1>6
  <2> QED BY <2>1, <2>2
<1>12. RemovalsApart'
  <2> SUFFICES ASSUME NEW c \in Busy', NEW d \in Busy', calls'[c].of = calls'[d].of
               PROVE  c = d
    BY DEF RemovalsApart
  <2>1. CASE c \in Busy /\ d \in Busy
    BY <2>1, <1>1, <1>2 DEF Settled, RemovalsApart
  <2>2. CASE c \notin Busy /\ d \notin Busy
    BY <2>2, <1>5
  <2>3. CASE c \in Busy /\ d \notin Busy
    BY <2>3, <1>1, <1>2, <1>3
  <2>4. CASE c \notin Busy /\ d \in Busy
    BY <2>4, <1>1, <1>2, <1>3
  <2> QED BY <2>1, <2>2, <2>3, <2>4
<1>13. UnawaitedApart'
  <2> SUFFICES ASSUME NEW c \in Busy', c \notin Own', calls'[c].of \in Registered'
               PROVE  FALSE
    BY DEF UnawaitedApart
  <2>1. c \notin Busy
    BY <1>1, <1>2, <1>8
  <2>2. calls'[c].kind = "unsubscribe" /\ calls'[c].awaited = a /\ a
    BY <2>1, <1>3
  <2> QED BY <2>2 DEF Own
<1>14. SubscribesAlone'
  <2>1. \A c \in Busy' : calls'[c].kind = "unsubscribe"
    BY <1>1, <1>2, <1>3
  <2> QED BY <2>1 DEF SubscribesAlone
<1>15. Accounted'
  <2> SUFFICES ASSUME NEW i \in live
               PROVE  Stoppable(i)' \/ \E c \in Busy' : Serves(c)' /\ calls'[c].of = i
    BY DEF Accounted
  <2>1. CASE i \notin Registered
    <3>1. PICK c \in Busy : Serves(c) /\ calls[c].of = i
      BY <2>1, <1>1
    <3> QED BY <3>1, <1>2, <1>7
  <2>2. CASE i \in Registered /\ E = Registered
    BY <2>2, <1>4, <1>6
  <2>3. CASE i \in Registered /\ UNCHANGED <<subs, provider>>
    <3>1. i \in Registered'
      BY <2>3 DEF Registered
    <3> QED BY <3>1, <1>9
  <2> QED BY <2>1, <2>2, <2>3
<1> QED BY <1>10, <1>11, <1>12, <1>13, <1>14, <1>15 DEF Settled

(* A removal, several of them, or a new provider, between two calls.          *)
LEMMA RemovalsStartInOrder ==
    ASSUME Inv, Settled, Own = {}, (\E s \in Subs : Unsubscribe(s)) \/ Manages
    PROVE  Settled'
<1>1. /\ TypeOK /\ \A i \in Registered : provider # NoProvider
      /\ \A i \in Registered : id[subs[i]] = i
  <2>1. \A i \in Registered : Stoppable(i)
    BY AtRest
  <2>2. \A i \in Registered : Heard(i)
    BY DEF Inv, RegisteredIsHeard
  <2> QED BY <2>1, <2>2, ConstantsAssumption DEF Inv, Stoppable, Heard
<1>2. ASSUME NEW E \in SUBSET Registered, NEW a \in BOOLEAN, Remove(E, a)
      PROVE  Started(E, a)
  BY <1>1, <1>2, RemoveExact
<1>3. ASSUME NEW s \in Subs, Unsubscribe(s) PROVE Settled'
  <2>1. PICK c \in Slots \ Busy : calls' = [calls EXCEPT ![c] = RemovalOf(s, TRUE)]
    BY <1>3 DEF Unsubscribe
  <2>2. id[s] \in Registered /\ UNCHANGED <<provider, subs, id, source, live>>
    BY <1>3 DEF Unsubscribe, Removable
  <2>3. id[s] \in Ids /\ provider \in Providers /\ RemovalOf(s, TRUE).of = id[s]
    BY <1>1, <2>2 DEF TypeOK, Registered, RemovalOf
  <2>4. RemovalOf(s, TRUE) # Idle
    <3>1. RemovalOf(s, TRUE) \in Call
      BY <2>3 DEF RemovalOf, Call, Unsubscribing
    <3> QED BY <3>1, IdleAssumption
  <2>5. calls[c] = Idle /\ \A d \in Slots : calls'[d] = IF d = c THEN RemovalOf(s, TRUE)
                                                         ELSE calls[d]
    BY <1>1, <2>1 DEF TypeOK, Busy
  <2>6. {id[s]} \in SUBSET Registered /\ Started({id[s]}, TRUE)
    BY <2>2, <2>3, <2>4, <2>5 DEF Started
  <2> QED BY <1>1, <2>2, <2>6, RemovalsKeepOrder
<1>4. CASE UnsubscribeMany
  <2>1. PICK E \in SUBSET Registered : Remove(E, TRUE)
    BY <1>4 DEF UnsubscribeMany
  <2>2. UNCHANGED <<provider, subs, id, source, live>>
    BY <1>4 DEF UnsubscribeMany
  <2>3. Started(E, TRUE)
    BY <2>1, <1>2
  <2> QED BY <1>1, <2>2, <2>3, RemovalsKeepOrder
<1>5. ASSUME NEW p \in Providers \cup {NoProvider}, SetProvider(p) PROVE Settled'
  <2>1. Remove(Registered, FALSE) /\ UNCHANGED <<id, source, live>> /\ Registered' = {}
    BY <1>5 DEF SetProvider, Registered
  <2>2. Started(Registered, FALSE)
    BY <2>1, <1>2
  <2> QED BY <1>1, <2>1, <2>2, RemovalsKeepOrder
<1> QED BY <1>3, <1>4, <1>5 DEF Manages

(* Between two calls, a subscription without an id is registered nowhere.     *)
LEMMA SubscribeInOrder ==
    ASSUME Inv, Settled, Own = {}, NEW s \in Subs, id[s] = NoId, Subscribe(s)
    PROVE  Settled'
<1> DEFINE r == [kind |-> "subscribe", sub |-> s, at |-> provider, stage |-> "sent"]
<1>1. /\ \A i \in Registered : i \in live /\ Stoppable(i)
      /\ \A i \in live : i \in Registered \/ \E c \in Busy : Serves(c) /\ calls[c].of = i
      /\ \A c \in Busy : /\ calls[c].kind = "unsubscribe" /\ ~calls[c].awaited
                         /\ calls[c].of \notin Registered
  BY AtRest
<1>2. /\ UNCHANGED <<provider, subs, id, source, live>>
      /\ provider \in Providers /\ TypeOK
  BY ConstantsAssumption DEF Subscribe, Inv
<1>3. PICK c \in Slots \ Busy : calls' = [calls EXCEPT ![c] = r]
  BY DEF Subscribe
<1>4. r # Idle /\ r.kind = "subscribe" /\ r.sub = s /\ r.at = provider /\ r.stage = "sent"
  <2>1. r \in Call
    BY <1>2 DEF Call, Subscribing
  <2> QED BY <2>1, IdleAssumption
<1> HIDE DEF r
<1>5. calls'[c] = r /\ \A d \in Slots \ {c} : calls'[d] = calls[d]
  BY <1>2, <1>3 DEF TypeOK
<1>6. Busy' = Busy \cup {c} /\ \A d \in Busy : calls'[d] = calls[d]
  BY <1>3, <1>4, <1>5 DEF Busy
<1>7. Own' = {c}
  BY <1>1, <1>4, <1>5, <1>6 DEF Own
<1>8. Registered' = Registered /\ \A i \in Ids : Stoppable(i)' <=> Stoppable(i)
  BY <1>2 DEF Registered, Stoppable
<1>9. \A d \in Busy : (Serves(d)' <=> Serves(d)) /\ (Sent(d, "unsubscribe")' <=> Sent(d, "unsubscribe"))
  BY <1>2, <1>6 DEF Serves, Sent
<1>10. Registered \subseteq Ids /\ live \subseteq Ids
  BY <1>2 DEF Registered, TypeOK
<1>11. EntriesServed'
  BY <1>1, <1>2, <1>8, <1>10 DEF EntriesServed
<1>12. RemovalsServed'
  <2> SUFFICES ASSUME NEW d \in Busy', Sent(d, "unsubscribe")'
               PROVE  Serves(d)' /\ id[calls'[d].sub] = calls'[d].of
    BY <1>2 DEF RemovalsServed
  <2>1. d \in Busy
    BY <1>4, <1>5, <1>6 DEF Sent
  <2> QED BY <2>1, <1>6, <1>9 DEF Settled, RemovalsServed
<1>13. RemovalsApart'
  BY <1>4, <1>5, <1>6 DEF Settled, RemovalsApart
<1>14. UnawaitedApart'
  BY <1>1, <1>6, <1>7, <1>8 DEF UnawaitedApart
<1>15. SubscribesAlone'
  <2>1. \A i \in Registered : subs[i] # s
    BY <1>1, <1>10, ConstantsAssumption DEF Stoppable
  <2>2. \A d \in Busy' : calls'[d].kind = "subscribe" => d = c
    BY <1>1, <1>6
  <2>3. calls'[c].sub = s /\ calls'[c].at = provider /\ calls'[c].stage = "sent"
    BY <1>4, <1>5
  <2> QED BY <2>1, <2>2, <2>3, <1>2, <1>7, <1>8 DEF SubscribesAlone
<1>16. Accounted'
  BY <1>1, <1>2, <1>6, <1>8, <1>9, <1>10 DEF Accounted
<1> QED BY <1>11, <1>12, <1>13, <1>14, <1>15, <1>16 DEF Settled

(* While a subscribe call is under way, it is the only one the application    *)
(* waits for.                                                                 *)
LEMMA SubscriberAlone ==
    ASSUME TypeOK, Settled, NEW c \in Busy, calls[c].kind = "subscribe"
    PROVE  /\ Own = {c} /\ calls[c].at = provider
           /\ calls[c].sub \in Subs /\ provider \in Providers
           /\ \A d \in Busy \ {c} : calls[d].kind = "unsubscribe" /\ calls[d].of \in Ids
           /\ \A i \in Registered : i \in live /\ Stoppable(i) /\ subs[i] # calls[c].sub
           /\ calls[c].stage = "sent" => id[calls[c].sub] = NoId
           /\ calls[c].stage = "answered" =>
                 /\ id[calls[c].sub] \in live /\ source[id[calls[c].sub]] = provider
                 /\ \A d \in Busy \ {c} : calls[d].of # id[calls[c].sub]
<1>1. /\ Own = {c} /\ calls[c].at = provider
      /\ \A i \in Registered : subs[i] # calls[c].sub
      /\ calls[c].stage = "sent" => id[calls[c].sub] = NoId
      /\ calls[c].stage = "answered" =>
            /\ id[calls[c].sub] \in live /\ source[id[calls[c].sub]] = provider
            /\ \A d \in Busy \ {c} : calls[d].of # id[calls[c].sub]
  BY DEF Settled, SubscribesAlone
<1>2. calls[c].sub \in Subs /\ calls[c].at \in Providers
  BY CallShapes
<1>3. \A d \in Busy \ {c} : calls[d].kind = "unsubscribe"
  BY <1>1 DEF Own
<1>4. \A d \in Busy \ {c} : calls[d].of \in Ids
  BY <1>3, CallShapes
<1>5. \A i \in Registered : i \in live /\ Stoppable(i)
  BY <1>1 DEF Settled, EntriesServed, Answered
<1> QED BY <1>1, <1>2, <1>3, <1>4, <1>5

(* The stream the node opens belongs to the one subscribe call under way.     *)
LEMMA SubscribeAnsweredInOrder ==
    ASSUME Inv, Settled, NEW c \in Slots, SubscribeAnswered(c)
    PROVE  Settled'
<1> DEFINE s == calls[c].sub
<1>1. /\ TypeOK /\ c \in Busy /\ calls[c].kind = "subscribe" /\ calls[c].stage = "sent"
      /\ Answer(c) /\ UNCHANGED <<provider, subs>>
  BY DEF Inv, SubscribeAnswered, Sent, Busy
<1>2. PICK i \in Ids : OpenStream(c, i) /\ id' = [id EXCEPT ![s] = i]
  BY DEF SubscribeAnswered
<1>3. /\ Own = {c} /\ calls[c].at = provider
      /\ s \in Subs /\ provider \in Providers
      /\ \A d \in Busy \ {c} : calls[d].kind = "unsubscribe" /\ calls[d].of \in Ids
      /\ \A j \in Registered : j \in live /\ Stoppable(j) /\ subs[j] # s
      /\ id[s] = NoId
  BY <1>1, SubscriberAlone
<1>4. /\ Busy' = Busy /\ Own' = Own
      /\ \A d \in Busy \ {c} : calls'[d] = calls[d]
      /\ calls'[c].stage = "answered" /\ calls'[c].kind = "subscribe"
      /\ calls'[c].sub = s /\ calls'[c].at = provider
  BY <1>1, <1>3, AnswerLemma
<1> HIDE DEF s
<1>5. /\ id'[s] = i /\ \A t \in Subs : t # s => id'[t] = id[t]
      /\ source'[i] = provider /\ \A j \in Ids : j # i => source'[j] = source[j]
      /\ source[i] = NoProvider /\ live' = live \cup {i}
  BY <1>1, <1>2, <1>3 DEF TypeOK, OpenStream
<1>6. /\ i \notin live /\ i \notin Registered
      /\ \A d \in Busy \ {c} : calls[d].of # i
  <2>1. i \notin live
    BY <1>5 DEF Inv
  <2>2. \A d \in Busy \ {c} : source[calls[d].of] # NoProvider
    BY <1>3 DEF Inv
  <2> QED BY <2>1, <2>2, <1>3, <1>5
<1>7. Registered' = Registered
  BY <1>1 DEF Registered
<1>8. ASSUME NEW j \in Ids, j # i, Stoppable(j) PROVE Stoppable(j)'
  <2>1. j \in Registered /\ id[subs[j]] = j /\ source[j] = provider
    BY <1>8 DEF Stoppable
  <2>2. subs[j] \in Subs /\ subs[j] # s
    BY <2>1, <1>1, <1>3 DEF Registered, TypeOK
  <2> QED BY <2>1, <2>2, <1>1, <1>5, <1>7, <1>8 DEF Stoppable
<1>9. ASSUME NEW d \in Busy, Serves(d) PROVE Serves(d)'
  <2>1. d # c
    BY <1>1, <1>9 DEF Serves, Sent
  <2>2. calls'[d] = calls[d] /\ calls[d].of \in Ids /\ calls[d].of # i
    BY <2>1, <1>3, <1>4, <1>6
  <2> QED BY <2>2, <1>5, <1>9 DEF Serves, Sent
<1>10. EntriesServed'
  <2> SUFFICES ASSUME NEW j \in Registered PROVE j \in live' /\ Stoppable(j)'
    BY <1>7 DEF EntriesServed
  <2>1. j \in Ids /\ j # i
    BY <1>6 DEF Registered
  <2> QED BY <2>1, <1>3, <1>5, <1>8
<1>11. RemovalsServed'
  <2> SUFFICES ASSUME NEW d \in Busy, Sent(d, "unsubscribe")'
               PROVE  Serves(d)' /\ id'[calls'[d].sub] = calls'[d].of
    BY <1>4 DEF RemovalsServed
  <2>1. d # c /\ calls'[d] = calls[d] /\ Sent(d, "unsubscribe")
    BY <1>4 DEF Sent
  <2>2. Serves(d) /\ id[calls[d].sub] = calls[d].of
    BY <2>1 DEF Settled, RemovalsServed
  <2>3. calls[d].sub \in Subs /\ calls[d].of \in Ids
    BY <2>1, <1>1, <1>3, CallShapes
  <2>4. calls[d].sub # s
    BY <2>2, <2>3, <1>3, ConstantsAssumption
  <2> QED BY <2>1, <2>2, <2>3, <2>4, <1>5, <1>9
<1>12. RemovalsApart'
  <2>1. \A d \in Busy : d # c => calls'[d] = calls[d]
    BY <1>4
  <2> QED BY <2>1, <1>4 DEF Settled, RemovalsApart
<1>13. UnawaitedApart'
  BY <1>3, <1>4, <1>7 DEF Settled, UnawaitedApart
<1>14. SubscribesAlone'
  <2>1. \A d \in Busy' : calls'[d].kind = "subscribe" => d = c
    BY <1>3, <1>4
  <2>2. \A d \in Busy' \ {c} : calls'[d].of # i
    BY <1>4, <1>6
  <2>3. i \in live' /\ source'[i] = provider
    BY <1>5
  <2> QED BY <2>1, <2>2, <2>3, <1>1, <1>3, <1>4, <1>5, <1>7 DEF SubscribesAlone
<1>15. Accounted'
  <2> SUFFICES ASSUME NEW j \in live'
               PROVE  \/ Stoppable(j)'
                      \/ \E d \in Busy : Serves(d)' /\ calls'[d].of = j
                      \/ \E d \in Busy : Answered(d, "subscribe")' /\ id'[calls'[d].sub] = j
    BY <1>4 DEF Accounted
  <2>1. CASE j = i
    <3>1. calls'[c] # Idle
      BY <1>1, <1>4 DEF Busy
    <3> QED BY <2>1, <3>1, <1>1, <1>4, <1>5 DEF Answered
  <2>2. CASE j # i
    <3>1. j \in live /\ j \in Ids
      BY <2>2, <1>1, <1>5 DEF TypeOK
    <3>2. \A d \in Busy : ~Answered(d, "subscribe")
      BY <1>1, <1>3 DEF Answered
    <3>3. ASSUME NEW d \in Busy, Serves(d), calls[d].of = j
          PROVE  Serves(d)' /\ calls'[d].of = j
      <4>1. d # c
        BY <1>1, <3>3 DEF Serves, Sent
      <4> QED BY <4>1, <3>3, <1>4, <1>9
    <3> QED BY <2>2, <3>1, <3>2, <3>3, <1>8 DEF Settled, Accounted
  <2> QED BY <2>1, <2>2
<1> QED BY <1>10, <1>11, <1>12, <1>13, <1>14, <1>15 DEF Settled

(* The registration takes over the stream its call has opened.               *)
LEMMA SubscribeRegistersInOrder ==
    ASSUME Inv, Settled, NEW c \in Slots, SubscribeRegisters(c)
    PROVE  Settled'
<1> DEFINE s == calls[c].sub
           k == id[s]
<1>1. /\ TypeOK /\ c \in Busy /\ calls[c].kind = "subscribe" /\ calls[c].stage = "answered"
      /\ Finish(c) /\ UNCHANGED <<provider, id, source, live>>
  BY DEF Inv, SubscribeRegisters, Answered, Busy
<1>2. /\ Own = {c} /\ s \in Subs
      /\ \A d \in Busy \ {c} : calls[d].kind = "unsubscribe" /\ calls[d].of \in Ids
      /\ \A j \in Registered : j \in live /\ Stoppable(j) /\ subs[j] # s
      /\ k \in live /\ source[k] = provider
      /\ \A d \in Busy \ {c} : calls[d].of # k
  BY <1>1, SubscriberAlone
<1>3. subs' = IF k = NoId THEN subs ELSE [subs EXCEPT ![k] = s]
  BY DEF SubscribeRegisters
<1>4. k = id[s]
  OBVIOUS
<1>5. /\ Busy' = Busy \ {c} /\ Own' = {}
      /\ \A d \in Busy \ {c} : calls'[d] = calls[d]
  BY <1>1, <1>2, FinishLemma
<1>6. \A d \in Busy : Answered(d, "subscribe") => d = c
  BY <1>2 DEF Answered
<1>7. \A j \in live : Stoppable(j) \/ (\E d \in Busy : Serves(d) /\ calls[d].of = j) \/ j = k
  <2>1. \A d \in Busy : Answered(d, "subscribe") /\ id[calls[d].sub] \in Ids
           => id[calls[d].sub] = k
    BY <1>6
  <2> QED BY <1>1, <2>1 DEF Settled, Accounted, TypeOK
<1> HIDE DEF s, k
<1>8. k \in Ids /\ k # NoId
  BY <1>1, <1>2, ConstantsAssumption DEF TypeOK
<1>9. /\ subs'[k] = s /\ \A j \in Ids : j # k => subs'[j] = subs[j]
      /\ Registered' = Registered \cup {k}
  BY <1>1, <1>2, <1>3, <1>8, ConstantsAssumption DEF TypeOK, Registered
<1>10. ASSUME NEW j \in Ids, j = k PROVE Stoppable(j)'
  BY <1>10, <1>1, <1>2, <1>4, <1>9 DEF Stoppable
<1>11. ASSUME NEW j \in Ids, Stoppable(j) PROVE Stoppable(j)'
  <2>1. CASE j = k
    BY <2>1, <1>10
  <2>2. CASE j # k
    BY <2>2, <1>1, <1>9, <1>11 DEF Stoppable
  <2> QED BY <2>1, <2>2
<1>12. ASSUME NEW d \in Busy \ {c}
       PROVE  /\ Serves(d)' <=> Serves(d)
              /\ Sent(d, "unsubscribe")' <=> Sent(d, "unsubscribe")
              /\ calls'[d] = calls[d]
  BY <1>1, <1>5 DEF Serves, Sent
<1>13. EntriesServed'
  <2> SUFFICES ASSUME NEW j \in Registered' PROVE j \in live /\ Stoppable(j)'
    BY <1>1 DEF EntriesServed
  <2>1. j \in Ids
    BY DEF Registered
  <2> QED BY <2>1, <1>2, <1>9, <1>10, <1>11
<1>14. RemovalsServed'
  <2> SUFFICES ASSUME NEW d \in Busy \ {c}, Sent(d, "unsubscribe")'
               PROVE  Serves(d)' /\ id[calls'[d].sub] = calls'[d].of
    BY <1>1, <1>5 DEF RemovalsServed
  <2>1. Serves(d) /\ id[calls[d].sub] = calls[d].of
    BY <1>12 DEF Settled, RemovalsServed
  <2> QED BY <2>1, <1>12
<1>15. RemovalsApart'
  BY <1>5, <1>12 DEF Settled, RemovalsApart
<1>16. UnawaitedApart'
  <2> SUFFICES ASSUME NEW d \in Busy \ {c} PROVE calls[d].of \notin Registered \cup {k}
    BY <1>5, <1>9, <1>12 DEF UnawaitedApart
  <2>1. d \in Busy \ Own
    BY <1>2
  <2> QED BY <2>1, <1>2 DEF Settled, UnawaitedApart
<1>17. SubscribesAlone'
  BY <1>2, <1>5, <1>12 DEF SubscribesAlone
<1>18. Accounted'
  <2> SUFFICES ASSUME NEW j \in live
               PROVE  Stoppable(j)' \/ \E d \in Busy' : Serves(d)' /\ calls'[d].of = j
    BY <1>1 DEF Accounted
  <2>1. CASE Stoppable(j)
    <3>1. j \in Ids
      BY <1>1 DEF TypeOK
    <3> QED BY <2>1, <3>1, <1>11
  <2>2. ASSUME NEW d \in Busy, Serves(d), calls[d].of = j
        PROVE  \E e \in Busy' : Serves(e)' /\ calls'[e].of = j
    <3>1. d # c
      BY <1>1, <2>2 DEF Serves, Sent
    <3> QED BY <3>1, <2>2, <1>5, <1>12
  <2>3. CASE j = k
    BY <2>3, <1>8, <1>10
  <2> QED BY <2>1, <2>2, <2>3, <1>7
<1> QED BY <1>13, <1>14, <1>15, <1>16, <1>17, <1>18 DEF Settled

-----------------------------------------------------------------------------
(* A removal stops its own stream, and its own subscription loses the id.    *)
LEMMA UnsubscribeAnsweredInOrder ==
    ASSUME Inv, Settled, NEW c \in Slots, UnsubscribeAnswered(c)
    PROVE  Settled'
<1> DEFINE o == calls[c].of
           s == calls[c].sub
<1>1. /\ TypeOK /\ c \in Busy /\ calls[c].kind = "unsubscribe" /\ calls[c].stage = "sent"
      /\ Answer(c) /\ Sent(c, "unsubscribe")
      /\ live' = live \ {o} /\ id' = [id EXCEPT ![s] = NoId]
      /\ UNCHANGED <<provider, subs, source>>
  BY DEF Inv, UnsubscribeAnswered, Sent, Busy
<1>2. o \in Ids /\ s \in Subs
  BY <1>1, CallShapes
<1>3. id[s] = o
  BY <1>1 DEF Settled, RemovalsServed
<1>4. /\ Busy' = Busy /\ Own' = Own
      /\ \A d \in Busy \ {c} : calls'[d] = calls[d]
      /\ calls'[c].stage = "answered" /\ calls'[c].kind = "unsubscribe"
      /\ calls'[c].sub = s /\ calls'[c].of = o
  BY <1>1, AnswerLemma
<1>5. \A d \in Busy \ {c} : calls[d].kind = "unsubscribe" => calls[d].of # o
  BY <1>1 DEF Settled, RemovalsApart
<1>6. c \notin Own => o \notin Registered
  BY <1>1 DEF Settled, UnawaitedApart
<1>7. \A d \in Busy : calls[d].kind = "subscribe" => c # d /\
         (calls[d].stage = "answered" => o # id[calls[d].sub])
  BY <1>1 DEF Settled, SubscribesAlone
<1> HIDE DEF o, s
<1>8. id'[s] = NoId /\ \A t \in Subs : t # s => id'[t] = id[t]
  BY <1>1, <1>2 DEF TypeOK
<1>9. Registered' = Registered
  BY <1>1 DEF Registered
<1>10. ASSUME NEW i \in Ids, i # o, Stoppable(i) PROVE Stoppable(i)'
  <2>1. i \in Registered /\ id[subs[i]] = i /\ source[i] = provider
    BY <1>10 DEF Stoppable
  <2>2. subs[i] \in Subs /\ subs[i] # s
    BY <2>1, <1>1, <1>3, <1>10 DEF Registered, TypeOK
  <2> QED BY <2>1, <2>2, <1>1, <1>8, <1>9 DEF Stoppable
<1>11. ASSUME NEW d \in Busy, Serves(d), d # c PROVE Serves(d)' /\ calls'[d] = calls[d]
  <2>1. calls'[d] = calls[d] /\ calls[d].of # o
    BY <1>4, <1>5, <1>11 DEF Serves, Sent
  <2> QED BY <2>1, <1>1, <1>11 DEF Serves, Sent
<1>12. ASSUME NEW d \in Busy, calls[d].kind = "subscribe"
       PROVE  /\ calls[d].sub \in Subs /\ calls[d].sub # s
              /\ id'[calls[d].sub] = id[calls[d].sub] /\ calls'[d] = calls[d]
  <2>1. calls[d].sub \in Subs /\ calls[d].stage \in {"sent", "answered"} /\ d # c
    <3>1. calls[d] \in Call
      BY <1>1, CallShapes
    <3> QED BY <3>1, <1>1, <1>12 DEF Call, Subscribing, Unsubscribing
  <2>2. calls[d].stage = "sent" => id[calls[d].sub] = NoId
    BY <1>12 DEF Settled, SubscribesAlone
  <2>3. calls[d].sub # s
    BY <2>1, <2>2, <1>2, <1>3, <1>7, <1>12, ConstantsAssumption
  <2> QED BY <2>1, <2>3, <1>4, <1>8
<1>13. EntriesServed'
  <2> SUFFICES ASSUME NEW i \in Registered
               PROVE  \/ i \in live' /\ Stoppable(i)'
                      \/ \E d \in Own : Answered(d, "unsubscribe")' /\ calls'[d].of = i
    BY <1>4, <1>9 DEF EntriesServed
  <2>0. i \in Ids /\ Own \subseteq Busy
    BY DEF Registered, Own
  <2>1. CASE i = o
    <3>1. c \in Own /\ calls'[c] # Idle
      BY <2>1, <1>1, <1>4, <1>6 DEF Busy
    <3> QED BY <2>1, <3>1, <1>4 DEF Answered
  <2>2. CASE i # o
    <3>1. ASSUME NEW d \in Own, Answered(d, "unsubscribe"), calls[d].of = i
          PROVE  Answered(d, "unsubscribe")' /\ calls'[d].of = i
      <4>1. d # c
        BY <3>1, <1>1 DEF Answered
      <4> QED BY <4>1, <3>1, <2>0, <1>4 DEF Answered
    <3> QED BY <2>0, <2>2, <3>1, <1>1, <1>10 DEF Settled, EntriesServed
  <2> QED BY <2>1, <2>2
<1>14. RemovalsServed'
  <2> SUFFICES ASSUME NEW d \in Busy, Sent(d, "unsubscribe")'
               PROVE  Serves(d)' /\ id'[calls'[d].sub] = calls'[d].of
    BY <1>4 DEF RemovalsServed
  <2>1. d # c
    BY <1>4 DEF Sent
  <2>2. calls'[d] = calls[d] /\ Sent(d, "unsubscribe")
    BY <2>1, <1>4 DEF Sent
  <2>3. Serves(d) /\ id[calls[d].sub] = calls[d].of
    BY <2>2 DEF Settled, RemovalsServed
  <2>4. calls[d].sub \in Subs /\ calls[d].of # o
    BY <2>1, <2>2, <1>1, <1>5, CallShapes DEF Sent
  <2>5. id'[calls[d].sub] = id[calls[d].sub]
    BY <2>3, <2>4, <1>3, <1>8
  <2> QED BY <2>1, <2>2, <2>3, <2>5, <1>11
<1>15. RemovalsApart'
  <2>1. ASSUME NEW d \in Busy PROVE calls'[d].kind = calls[d].kind
                                    /\ (calls[d].kind = "unsubscribe" => calls'[d].of = calls[d].of)
    BY <1>1, <1>4 DEF o
  <2> QED BY <2>1, <1>4 DEF Settled, RemovalsApart
<1>16. UnawaitedApart'
  <2>1. ASSUME NEW d \in Busy PROVE calls'[d].of = calls[d].of
    BY <1>4 DEF o
  <2> QED BY <2>1, <1>4, <1>9 DEF Settled, UnawaitedApart
<1>17. SubscribesAlone'
  <2> SUFFICES ASSUME NEW d \in Busy, calls'[d].kind = "subscribe"
               PROVE  /\ Own = {d} /\ calls'[d].at = provider
                      /\ \A i \in Registered : subs[i] # calls'[d].sub
                      /\ calls'[d].stage = "sent" => id'[calls'[d].sub] = NoId
                      /\ calls'[d].stage = "answered" =>
                            /\ id'[calls'[d].sub] \in live'
                            /\ source[id'[calls'[d].sub]] = provider
                            /\ \A e \in Busy \ {d} : calls'[e].of # id'[calls'[d].sub]
    BY <1>1, <1>4, <1>9 DEF SubscribesAlone
  <2>1. calls[d].kind = "subscribe"
    BY <1>1, <1>4
  <2>2. id'[calls[d].sub] = id[calls[d].sub] /\ calls'[d] = calls[d]
    BY <2>1, <1>12
  <2>3. /\ Own = {d} /\ calls[d].at = provider
        /\ \A i \in Registered : subs[i] # calls[d].sub
        /\ calls[d].stage = "sent" => id[calls[d].sub] = NoId
        /\ calls[d].stage = "answered" =>
              /\ id[calls[d].sub] \in live /\ source[id[calls[d].sub]] = provider
              /\ \A e \in Busy \ {d} : calls[e].of # id[calls[d].sub]
    BY <2>1 DEF Settled, SubscribesAlone
  <2>4. \A e \in Busy : calls'[e].of = calls[e].of
    BY <1>4 DEF o
  <2>5. calls[d].stage = "answered" => id[calls[d].sub] \in live'
    BY <2>1, <2>3, <1>1, <1>7
  <2> QED BY <2>2, <2>3, <2>4, <2>5
<1>18. Accounted'
  <2> SUFFICES ASSUME NEW i \in live, i # o
               PROVE  \/ Stoppable(i)'
                      \/ \E d \in Busy : Serves(d)' /\ calls'[d].of = i
                      \/ \E d \in Busy : Answered(d, "subscribe")' /\ id'[calls'[d].sub] = i
    BY <1>1, <1>4 DEF Accounted
  <2>1. CASE Stoppable(i)
    <3>1. i \in Ids
      BY <1>1 DEF TypeOK
    <3> QED BY <2>1, <3>1, <1>10
  <2>2. ASSUME NEW d \in Busy, Serves(d), calls[d].of = i
        PROVE  Serves(d)' /\ calls'[d].of = i
    <3>1. d # c
      BY <2>2 DEF o
    <3> QED BY <2>2, <3>1, <1>11
  <2>3. ASSUME NEW d \in Busy, Answered(d, "subscribe"), id[calls[d].sub] = i
        PROVE  Answered(d, "subscribe")' /\ id'[calls'[d].sub] = i
    BY <2>3, <1>12 DEF Answered
  <2> QED BY <2>1, <2>2, <2>3 DEF Settled, Accounted
<1> QED BY <1>13, <1>14, <1>15, <1>16, <1>17, <1>18 DEF Settled

(* The entry deleted is one whose stream has stopped.                        *)
LEMMA UnsubscribeRemovesInOrder ==
    ASSUME Inv, Settled, NEW c \in Slots, UnsubscribeRemoves(c)
    PROVE  Settled'
<1> DEFINE o == calls[c].of
<1>1. /\ TypeOK /\ c \in Busy /\ calls[c].kind = "unsubscribe" /\ calls[c].stage = "answered"
      /\ Finish(c) /\ subs' = [subs EXCEPT ![o] = NoSub]
      /\ UNCHANGED <<provider, id, source, live>>
  BY DEF Inv, UnsubscribeRemoves, Answered, Busy
<1>2. o \in Ids /\ o \notin live
  <2>1. o \notin live
    BY <1>1 DEF Inv
  <2> QED BY <2>1, <1>1, CallShapes
<1>3. /\ Busy' = Busy \ {c} /\ Own' = Own \ {c}
      /\ \A d \in Busy \ {c} : calls'[d] = calls[d]
  BY <1>1, FinishLemma
<1> HIDE DEF o
<1>4. Registered' = Registered \ {o} /\ \A i \in Registered' : subs'[i] = subs[i]
  BY <1>1, <1>2 DEF TypeOK, Registered
<1>5. ASSUME NEW i \in Ids, i # o, Stoppable(i) PROVE Stoppable(i)'
  BY <1>5, <1>1, <1>4 DEF Stoppable
<1>6. ASSUME NEW d \in Busy \ {c}
      PROVE  /\ Serves(d)' <=> Serves(d)
             /\ Sent(d, "unsubscribe")' <=> Sent(d, "unsubscribe")
             /\ Answered(d, "unsubscribe")' <=> Answered(d, "unsubscribe")
             /\ Answered(d, "subscribe")' <=> Answered(d, "subscribe")
             /\ calls'[d] = calls[d]
  BY <1>1, <1>3 DEF Serves, Sent, Answered
<1>7. EntriesServed'
  <2> SUFFICES ASSUME NEW i \in Registered'
               PROVE  \/ i \in live /\ Stoppable(i)'
                      \/ \E d \in Own \ {c} : Answered(d, "unsubscribe")' /\ calls'[d].of = i
    BY <1>1, <1>3 DEF EntriesServed
  <2>1. i \in Registered /\ i # o /\ i \in Ids /\ Own \subseteq Busy
    BY <1>4 DEF Registered, Own
  <2>2. ASSUME NEW d \in Own, Answered(d, "unsubscribe"), calls[d].of = i
        PROVE  d # c /\ Answered(d, "unsubscribe")' /\ calls'[d].of = i
    BY <2>1, <2>2, <1>6 DEF o
  <2> QED BY <2>1, <2>2, <1>5 DEF Settled, EntriesServed
<1>8. RemovalsServed'
  <2> SUFFICES ASSUME NEW d \in Busy \ {c}, Sent(d, "unsubscribe")'
               PROVE  Serves(d)' /\ id[calls'[d].sub] = calls'[d].of
    BY <1>1, <1>3 DEF RemovalsServed
  <2>1. Serves(d) /\ id[calls[d].sub] = calls[d].of
    BY <1>6 DEF Settled, RemovalsServed
  <2> QED BY <2>1, <1>6
<1>9. RemovalsApart'
  BY <1>3, <1>6 DEF Settled, RemovalsApart
<1>10. UnawaitedApart'
  BY <1>3, <1>4, <1>6 DEF Settled, UnawaitedApart
<1>11. SubscribesAlone'
  <2> SUFFICES ASSUME NEW d \in Busy \ {c}, calls[d].kind = "subscribe"
               PROVE  /\ Own \ {c} = {d} /\ calls[d].at = provider
                      /\ \A i \in Registered' : subs'[i] # calls[d].sub
                      /\ calls[d].stage = "sent" => id[calls[d].sub] = NoId
                      /\ calls[d].stage = "answered" =>
                            /\ id[calls[d].sub] \in live
                            /\ source[id[calls[d].sub]] = provider
                            /\ \A e \in (Busy \ {c}) \ {d} : calls'[e].of # id[calls[d].sub]
    BY <1>1, <1>3, <1>6 DEF SubscribesAlone
  <2>1. /\ Own = {d} /\ calls[d].at = provider
        /\ \A i \in Registered : subs[i] # calls[d].sub
        /\ calls[d].stage = "sent" => id[calls[d].sub] = NoId
        /\ calls[d].stage = "answered" =>
              /\ id[calls[d].sub] \in live /\ source[id[calls[d].sub]] = provider
              /\ \A e \in Busy \ {d} : calls[e].of # id[calls[d].sub]
    BY DEF Settled, SubscribesAlone
  <2> QED BY <2>1, <1>4, <1>6
<1>12. Accounted'
  <2> SUFFICES ASSUME NEW i \in live
               PROVE  \/ Stoppable(i)'
                      \/ \E d \in Busy \ {c} : Serves(d)' /\ calls'[d].of = i
                      \/ \E d \in Busy \ {c} : Answered(d, "subscribe")' /\ id[calls'[d].sub] = i
    BY <1>1, <1>3 DEF Accounted
  <2>1. CASE Stoppable(i)
    <3>1. i \in Ids /\ i # o
      BY <1>1, <1>2 DEF TypeOK
    <3> QED BY <2>1, <3>1, <1>5
  <2>2. ASSUME NEW d \in Busy, Serves(d) \/ Answered(d, "subscribe") PROVE d # c
    BY <2>2, <1>1 DEF Serves, Sent, Answered
  <2> QED BY <2>1, <2>2, <1>6 DEF Settled, Accounted
<1> QED BY <1>7, <1>8, <1>9, <1>10, <1>11, <1>12 DEF Settled

-----------------------------------------------------------------------------
(* A new manager has no stream and no call.                                   *)
LEMMA OrderlyEstablished == MCInit => OrderlyInv
<1>1. Init => Settled
  BY DEF Init, Settled, EntriesServed, RemovalsServed, RemovalsApart, UnawaitedApart,
         SubscribesAlone, Accounted, Registered, Busy
<1> QED BY <1>1, InitEstablishes, OrderlyParts DEF MCInit

(* A step that leaves alone all that the invariant speaks of.                 *)
LEMMA NothingInOrder ==
    ASSUME Settled, UNCHANGED <<provider, subs, id, calls, source, live>>
    PROVE  Settled'
BY DEF Settled, EntriesServed, RemovalsServed, RemovalsApart, UnawaitedApart, SubscribesAlone,
       Accounted, Stoppable, Own, Registered, Busy, Answered, Sent, Serves

(* A step of the requests under way: none of them fails.                      *)
LEMMA ProgressInOrder ==
    ASSUME Inv, Settled, Progress
    PROVE  Settled'
<1>1. ASSUME NEW i \in Ids, Notification(i) PROVE Settled'
  BY <1>1, NothingInOrder DEF Notification
<1>2. ASSUME NEW c \in Busy, ~Serves(c), UnsubscribeFails(c) PROVE FALSE
  BY <1>2 DEF UnsubscribeFails, Settled, RemovalsServed
<1>3. Busy \subseteq Slots
  BY DEF Busy
<1> QED
  BY <1>1, <1>2, <1>3, SubscribeAnsweredInOrder, SubscribeRegistersInOrder,
     UnsubscribeAnsweredInOrder, UnsubscribeRemovesInOrder DEF Progress

(* Every step of the instance preserves the invariant.                       *)
LEMMA OrderlyPreserved ==
    ASSUME OrderlyInv, [MCNext]_<<vars, discipline>>
    PROVE  OrderlyInv'
<1>1. UNCHANGED discipline /\ [Next]_vars
  <2>1. Progress => Next
    BY DEF Progress, Next, Busy
  <2> QED BY <2>1 DEF MCNext, Next, Uses
<1>2. Inv /\ Inv'
  BY <1>1, NextPreserves DEF OrderlyInv
<1>3. ASSUME discipline = "tidy" PROVE Settled'
  <2>1. Settled
    BY <1>3, OrderlyParts
  <2>2. CASE UNCHANGED vars
    BY <2>1, <2>2, NothingInOrder DEF vars
  <2>3. CASE Progress
    BY <1>2, <2>1, <2>3, ProgressInOrder
  <2>4. CASE /\ Own = {}
             /\ \/ Manages
                \/ \E s \in Subs : id[s] = NoId /\ Subscribe(s)
                \/ \E s \in Subs : Unsubscribe(s)
    BY <1>2, <2>1, <2>4, SubscribeInOrder, RemovalsStartInOrder
  <2> QED BY <1>3, <2>2, <2>3, <2>4 DEF MCNext
<1> QED BY <1>1, <1>2, <1>3, OrderlyParts

(* The inductive invariant of a tidy application, and of any other, holds in  *)
(* every behaviour.                                                           *)
THEOREM OrderlyInvHolds == MCSpec => []OrderlyInv
<1> QED BY OrderlyEstablished, OrderlyPreserved, PTL DEF MCSpec

(* An application that awaits each call it makes, and subscribes an object    *)
(* only while the object has no id, leaks no stream: whatever sequence of     *)
(* subscriptions, removals and provider changes it makes, and however late    *)
(* the answers to the removals that a change of provider starts.              *)
THEOREM NoStreamLeaks == MCSpec => []NoOrphanStreams
<1>1. OrderlyInv => NoOrphanStreams
  BY DEF OrderlyInv
<1> QED BY OrderlyInvHolds, <1>1, PTL
=============================================================================
