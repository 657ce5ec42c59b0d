------------------------ MODULE SocketProviderProofs ------------------------
(***************************************************************************)
(* Proofs about SocketProvider for any number of callers, ids and sockets,  *)
(* any cap and any reconnection setting.                                    *)
(***************************************************************************)
EXTENDS SocketProvider, TLAPS, FiniteSetTheorems

\* The part of Inv that only reads the request table.
TableInv ==
    /\ pending \in [Ids -> Items \cup {NoItem}]
    /\ sent \in [Ids -> Items \cup {NoItem}]
    /\ owned \in [Items -> SUBSET Ids]
    /\ deadline \in [Items -> BOOLEAN]
    /\ outcome \in [Items -> Outcomes]
    /\ Bookkeeping
    /\ OneQueuePerId
    /\ OwnIdsOnly
    /\ BatchMovesTogether

-----------------------------------------------------------------------------

\* NoItem is not a request.
LEMMA NoItemIsNoItem == NoItem \notin Items
BY CallersAssumption

\* The queues only hold requests.
LEMMA QueueItems ==
    ASSUME NEW q \in [Ids -> Items \cup {NoItem}]
    PROVE  ItemsOf(q) \subseteq Items
BY NoItemIsNoItem DEF ItemsOf, KeysOf

\* _settleRequest keeps the table consistent, whichever requests it settles.
LEMMA SettleKeepsTable ==
    ASSUME TableInv, NEW S \in SUBSET Items, NEW how \in {"resolved", "rejected"},
           Settle(S, how)
    PROVE  TableInv'
<1> USE NoItemIsNoItem
<1>1. /\ pending' \in [Ids -> Items \cup {NoItem}]
      /\ sent' \in [Ids -> Items \cup {NoItem}]
      /\ owned' \in [Items -> SUBSET Ids]
      /\ deadline' \in [Items -> BOOLEAN]
      /\ outcome' \in [Items -> Outcomes]
  BY DEF TableInv, Settle, Released, Outcomes
<1>2. Bookkeeping'
  <2> SUFFICES ASSUME NEW i \in Items
               PROVE  /\ outcome'[i] = "waiting" <=> deadline'[i]
                      /\ outcome'[i] = "waiting" <=> owned'[i] # {}
                      /\ \A id \in Ids : id \in owned'[i] <=> (pending'[id] = i \/ sent'[id] = i)
    BY DEF Bookkeeping
  <2>1. /\ outcome[i] = "waiting" <=> deadline[i]
        /\ outcome[i] = "waiting" <=> owned[i] # {}
        /\ \A j \in Items, id \in Ids : id \in owned[j] <=> (pending[id] = j \/ sent[id] = j)
    BY DEF TableInv, Bookkeeping
  <2>2. outcome'[i] = "waiting" <=> outcome[i] = "waiting" /\ i \notin S
    BY DEF TableInv, Settle
  <2>3. deadline'[i] <=> deadline[i] /\ i \notin S
    BY DEF TableInv, Settle
  <2>4. owned'[i] = IF i \in S THEN {} ELSE owned[i]
    BY DEF TableInv, Settle
  <2>5. ASSUME NEW id \in Ids
        PROVE  id \in owned'[i] <=> (pending'[id] = i \/ sent'[id] = i)
    <3>1. OneQueuePerId
      BY DEF TableInv
    <3>2. pending'[id] = (IF \E j \in S : id \in owned[j] THEN NoItem ELSE pending[id])
      BY DEF Settle, Released
    <3>3. sent'[id] = (IF \E j \in S : id \in owned[j] THEN NoItem ELSE sent[id])
      BY DEF Settle, Released
    <3> QED BY <2>1, <2>4, <3>1, <3>2, <3>3 DEF OneQueuePerId
  <2> QED BY <2>1, <2>2, <2>3, <2>4, <2>5
<1>3. OneQueuePerId'
  BY DEF TableInv, Settle, Released, OneQueuePerId
<1>4. OwnIdsOnly'
  BY DEF TableInv, Settle, OwnIdsOnly, Items
<1>5. BatchMovesTogether'
  BY DEF TableInv, Settle, Released, BatchMovesTogether, Bookkeeping
<1> QED BY <1>1, <1>2, <1>3, <1>4, <1>5 DEF TableInv

-----------------------------------------------------------------------------
(* The cap.                                                                 *)

\* There are finitely many ids, so the queues are finite.
LEMMA IdsFinite == IsFiniteSet(Ids)
<1>1. IsFiniteSet(Sockets)
  BY BoundsAssumption, FS_Interval DEF Sockets
<1>2. IsFiniteSet({"chainId", "accounts"})
  <2>1. IsFiniteSet({"chainId"})
    BY FS_Singleton
  <2>2. IsFiniteSet({"chainId"} \cup {"accounts"})
    BY <2>1, FS_AddElement
  <2>3. {"chainId"} \cup {"accounts"} = {"chainId", "accounts"}
    OBVIOUS
  <2> QED BY <2>2, <2>3
<1>3. IsFiniteSet(Handshakes)
  BY <1>1, <1>2, FS_Product DEF Handshakes
<1> QED BY <1>3, IdsAssumption, FS_Union DEF Ids

\* The number of keys of a queue.
LEMMA KeysFinite ==
    ASSUME NEW q
    PROVE  IsFiniteSet(KeysOf(q)) /\ Cardinality(KeysOf(q)) \in Nat
<1>1. KeysOf(q) \subseteq Ids
  BY DEF KeysOf
<1> QED BY <1>1, IdsFinite, FS_Subset, FS_CardinalityType

\* A queue that lost keys is no longer.
LEMMA FewerKeys ==
    ASSUME NEW q, NEW r, KeysOf(q) \subseteq KeysOf(r)
    PROVE  Cardinality(KeysOf(q)) <= Cardinality(KeysOf(r))
BY KeysFinite, FS_Subset

\* A queue whose new keys are all in I grew by no more than I.
LEMMA MoreKeys ==
    ASSUME NEW q, NEW r, NEW I, IsFiniteSet(I), KeysOf(q) \subseteq KeysOf(r) \cup I
    PROVE  /\ Cardinality(I) \in Nat
           /\ Cardinality(KeysOf(q)) <= Cardinality(KeysOf(r)) + Cardinality(I)
<1>1. IsFiniteSet(KeysOf(r)) /\ Cardinality(KeysOf(r)) \in Nat /\ Cardinality(KeysOf(q)) \in Nat
  BY KeysFinite
<1>2. Cardinality(I) \in Nat
  BY FS_CardinalityType
<1>3. /\ IsFiniteSet(KeysOf(r) \cup I)
      /\ Cardinality(KeysOf(r) \cup I)
           = Cardinality(KeysOf(r)) + Cardinality(I) - Cardinality(KeysOf(r) \cap I)
  BY <1>1, FS_Union
<1>4. Cardinality(KeysOf(r) \cap I) \in Nat
  BY <1>1, FS_Intersection, FS_CardinalityType
<1>5. Cardinality(KeysOf(q)) <= Cardinality(KeysOf(r) \cup I)
  BY <1>3, FS_Subset
<1>6. Cardinality(KeysOf(r) \cup I) \in Nat
  BY <1>3, FS_CardinalityType
<1> QED BY <1>1, <1>2, <1>3, <1>4, <1>5, <1>6

\* What Inv says of the in-flight count.
CapInv == peak \in Nat /\ InFlightWithinCap

\* Settling requests keeps the count under the cap.
LEMMA SettleKeepsCap ==
    ASSUME TableInv, CapInv, NEW S \in SUBSET Items, NEW how, Settle(S, how)
    PROVE  CapInv'
<1>1. KeysOf(pending') \subseteq KeysOf(pending) /\ KeysOf(sent') \subseteq KeysOf(sent)
  BY DEF Settle, Released, KeysOf
<1>2. /\ Cardinality(KeysOf(pending')) <= Cardinality(KeysOf(pending))
      /\ Cardinality(KeysOf(sent')) <= Cardinality(KeysOf(sent))
  BY <1>1, FewerKeys
<1>3. /\ Cardinality(KeysOf(pending)) \in Nat /\ Cardinality(KeysOf(sent)) \in Nat
      /\ Cardinality(KeysOf(pending')) \in Nat /\ Cardinality(KeysOf(sent')) \in Nat
  BY KeysFinite
<1>4. peak' = peak
  BY DEF Settle
<1>5. InFlight' = Cardinality(KeysOf(pending')) + Cardinality(KeysOf(sent'))
  BY DEF InFlight, KeysOf
<1> QED BY <1>2, <1>3, <1>4, <1>5, BoundsAssumption DEF CapInv, InFlightWithinCap, InFlight

-----------------------------------------------------------------------------
(* Admission.                                                               *)

\* A request that enters one of the queues under free ids keeps the table
\* consistent.
LEMMA AdmissionKeepsTable ==
    ASSUME TableInv,
           NEW i \in Callers, outcome[i] = "unused",
           NEW I \in SUBSET CallerIds, I # {},
           \A id \in I : pending[id] = NoItem /\ sent[id] = NoItem,
           owned' = [owned EXCEPT ![i] = I],
           deadline' = [deadline EXCEPT ![i] = TRUE],
           outcome' = [outcome EXCEPT ![i] = "waiting"],
           \/ pending' = Enter(pending, i, I) /\ sent' = sent
           \/ sent' = Enter(sent, i, I) /\ pending' = pending
    PROVE  TableInv'
<1> USE NoItemIsNoItem
<1>0. i \in Items /\ I \subseteq Ids
  BY DEF Items, Ids
<1>1. /\ pending' \in [Ids -> Items \cup {NoItem}]
      /\ sent' \in [Ids -> Items \cup {NoItem}]
      /\ owned' \in [Items -> SUBSET Ids]
      /\ deadline' \in [Items -> BOOLEAN]
      /\ outcome' \in [Items -> Outcomes]
  BY <1>0 DEF TableInv, Enter, Outcomes
<1>2. owned[i] = {}
  BY <1>0 DEF TableInv, Bookkeeping
<1>3. \A j \in Items, id \in I : id \notin owned[j]
  BY <1>0 DEF TableInv, Bookkeeping
<1>5. \/ (\A id \in I : pending'[id] = i /\ sent'[id] = NoItem)
      \/ (\A id \in I : sent'[id] = i /\ pending'[id] = NoItem)
  BY <1>0 DEF TableInv, Enter
<1>6. \A id \in Ids \ I : pending'[id] = pending[id] /\ sent'[id] = sent[id]
  BY <1>0 DEF TableInv, Enter
<1>7. Bookkeeping'
  <2> SUFFICES ASSUME NEW j \in Items
               PROVE  /\ outcome'[j] = "waiting" <=> deadline'[j]
                      /\ outcome'[j] = "waiting" <=> owned'[j] # {}
                      /\ \A id \in Ids : id \in owned'[j] <=> (pending'[id] = j \/ sent'[id] = j)
    BY DEF Bookkeeping
  <2>1. /\ outcome[j] = "waiting" <=> deadline[j]
        /\ outcome[j] = "waiting" <=> owned[j] # {}
        /\ \A id \in Ids : id \in owned[j] <=> (pending[id] = j \/ sent[id] = j)
    BY DEF TableInv, Bookkeeping
  <2>2. CASE j = i
    <3>1. outcome'[j] = "waiting" /\ deadline'[j] /\ owned'[j] = I
      BY <1>0, <2>2 DEF TableInv
    <3> QED BY <2>1, <2>2, <3>1, <1>0, <1>2, <1>5, <1>6
  <2>3. CASE j # i
    <3>1. outcome'[j] = outcome[j] /\ deadline'[j] = deadline[j] /\ owned'[j] = owned[j]
      BY <1>0, <2>3 DEF TableInv
    <3> QED BY <2>1, <2>3, <3>1, <1>3, <1>5, <1>6
  <2> QED BY <2>2, <2>3
<1>8. OneQueuePerId'
  BY <1>5, <1>6 DEF TableInv, OneQueuePerId
<1>9. OwnIdsOnly'
  BY <1>0, CallersAssumption DEF TableInv, OwnIdsOnly, Items
<1>10. BatchMovesTogether'
  <2> SUFFICES ASSUME NEW j \in Items
               PROVE  \/ \A id \in owned'[j] : pending'[id] = j /\ sent'[id] = NoItem
                      \/ \A id \in owned'[j] : sent'[id] = j /\ pending'[id] = NoItem
    BY DEF BatchMovesTogether
  <2>1. CASE j = i
    BY <2>1, <1>0, <1>5 DEF TableInv
  <2>2. CASE j # i
    <3>1. owned'[j] = owned[j] /\ owned[j] \subseteq Ids \ I
      BY <2>2, <1>0, <1>3 DEF TableInv
    <3> QED BY <3>1, <1>6 DEF TableInv, BatchMovesTogether
  <2> QED BY <2>1, <2>2
<1> QED BY <1>1, <1>7, <1>8, <1>9, <1>10 DEF TableInv

\* An admission that took |I| slots under the cap keeps the count under it.
LEMMA AdmissionKeepsCap ==
    ASSUME CapInv, NEW I, IsFiniteSet(I), InFlight + Cardinality(I) <= MaxInFlight,
           peak' = (IF InFlight + Cardinality(I) > peak THEN InFlight + Cardinality(I) ELSE peak),
           \/ /\ KeysOf(pending') \subseteq KeysOf(pending) \cup I
              /\ KeysOf(sent') \subseteq KeysOf(sent)
           \/ /\ KeysOf(pending') \subseteq KeysOf(pending)
              /\ KeysOf(sent') \subseteq KeysOf(sent) \cup I
    PROVE  CapInv'
<1>1. Cardinality(I) \in Nat
  BY FS_CardinalityType
<1>2. /\ Cardinality(KeysOf(pending)) \in Nat /\ Cardinality(KeysOf(sent)) \in Nat
      /\ Cardinality(KeysOf(pending')) \in Nat /\ Cardinality(KeysOf(sent')) \in Nat
  BY KeysFinite
<1>3. Cardinality(KeysOf(pending')) + Cardinality(KeysOf(sent'))
        <= Cardinality(KeysOf(pending)) + Cardinality(KeysOf(sent)) + Cardinality(I)
  <2>1. CASE /\ KeysOf(pending') \subseteq KeysOf(pending) \cup I
             /\ KeysOf(sent') \subseteq KeysOf(sent)
    <3>1. Cardinality(KeysOf(pending')) <= Cardinality(KeysOf(pending)) + Cardinality(I)
      BY <2>1, MoreKeys
    <3>2. Cardinality(KeysOf(sent')) <= Cardinality(KeysOf(sent))
      BY <2>1, FewerKeys
    <3> QED BY <3>1, <3>2, <1>1, <1>2
  <2>2. CASE /\ KeysOf(pending') \subseteq KeysOf(pending)
             /\ KeysOf(sent') \subseteq KeysOf(sent) \cup I
    <3>1. Cardinality(KeysOf(sent')) <= Cardinality(KeysOf(sent)) + Cardinality(I)
      BY <2>2, MoreKeys
    <3>2. Cardinality(KeysOf(pending')) <= Cardinality(KeysOf(pending))
      BY <2>2, FewerKeys
    <3> QED BY <3>1, <3>2, <1>1, <1>2
  <2> QED BY <2>1, <2>2
<1>4. InFlight' = Cardinality(KeysOf(pending')) + Cardinality(KeysOf(sent'))
  BY DEF InFlight, KeysOf
<1> QED BY <1>1, <1>2, <1>3, <1>4, BoundsAssumption DEF CapInv, InFlightWithinCap, InFlight

-----------------------------------------------------------------------------
(* A handshake completes.                                                   *)

\* The handshake requests admitted are those of the socket, and fit.
LEMMA HandshakesFit ==
    ASSUME CapInv, NEW s \in Sockets
    PROVE  /\ AdmittedHandshakes(s) \subseteq {<<"chainId", s>>, <<"accounts", s>>}
           /\ AdmittedHandshakes(s) \subseteq Handshakes
           /\ IsFiniteSet(AdmittedHandshakes(s))
           /\ InFlight + Cardinality(AdmittedHandshakes(s)) <= MaxInFlight
<1>1. InFlight \in Nat
  BY KeysFinite DEF InFlight
<1>2. InFlight <= MaxInFlight
  BY <1>1, BoundsAssumption DEF CapInv, InFlightWithinCap
<1>3. IsFiniteSet({}) /\ Cardinality({}) = 0
  BY FS_EmptySet
<1>4. IsFiniteSet({<<"chainId", s>>}) /\ Cardinality({<<"chainId", s>>}) = 1
  BY FS_Singleton
<1>5. <<"accounts", s>> \notin {<<"chainId", s>>}
  BY "accounts" # "chainId"
<1>6. /\ IsFiniteSet({<<"chainId", s>>} \cup {<<"accounts", s>>})
      /\ Cardinality({<<"chainId", s>>} \cup {<<"accounts", s>>}) = 2
  <2> DEFINE C == {<<"chainId", s>>}
             a == <<"accounts", s>>
  <2>1. IsFiniteSet(C) /\ Cardinality(C) = 1 /\ a \notin C
    BY <1>4, <1>5
  <2> HIDE DEF C, a
  <2>2. IsFiniteSet(C \cup {a}) /\ Cardinality(C \cup {a}) = 1 + 1
    BY <2>1, FS_AddElement
  <2> QED BY <2>2 DEF C, a
<1>7. {<<"chainId", s>>} \cup {<<"accounts", s>>} = {<<"chainId", s>>, <<"accounts", s>>}
  OBVIOUS
<1>8. CASE InFlight >= MaxInFlight
  BY <1>8, <1>1, <1>2, <1>3, BoundsAssumption DEF AdmittedHandshakes
<1>9. CASE InFlight + 1 = MaxInFlight
  BY <1>9, <1>1, <1>4, BoundsAssumption DEF AdmittedHandshakes, Handshakes
<1>10. CASE ~(InFlight >= MaxInFlight) /\ InFlight + 1 # MaxInFlight
  <2>1. AdmittedHandshakes(s) = {<<"chainId", s>>} \cup {<<"accounts", s>>}
    BY <1>10, <1>7 DEF AdmittedHandshakes
  <2>2. InFlight + 2 <= MaxInFlight
    BY <1>10, <1>1, BoundsAssumption
  <2> QED BY <2>1, <2>2, <1>6 DEF Handshakes
<1> QED BY <1>8, <1>9, <1>10

\* _sendPendingRequests keeps the table consistent: H enters the sent queue, the
\* parked requests F are settled and the others move over.
LEMMA PromotionKeepsTable ==
    ASSUME TableInv,
           NEW H \in SUBSET Handshakes, \A h \in H : outcome[h] = "unused",
           NEW F \in SUBSET ItemsOf(pending),
           pending' = [id \in Ids |-> NoItem],
           sent' = [id \in Ids |->
                      IF id \in H THEN id
                      ELSE IF pending[id] \in (ItemsOf(pending) \ F) \cup H THEN pending[id]
                      ELSE sent[id]],
           owned' = [i \in Items |-> IF i \in H THEN {i} ELSE IF i \in F THEN {} ELSE owned[i]],
           deadline' = [i \in Items |-> (deadline[i] \/ i \in H) /\ i \notin F],
           outcome' = [i \in Items |-> IF i \in H THEN "waiting"
                                      ELSE IF i \in F THEN "rejected" ELSE outcome[i]]
    PROVE  TableInv'
<1> USE NoItemIsNoItem
<1>0. H \subseteq Items /\ H \subseteq Ids /\ F \subseteq Items
  BY QueueItems DEF Items, Ids, TableInv
<1>1. \A i \in F : \E id \in Ids : pending[id] = i /\ id \in owned[i]
  BY <1>0 DEF ItemsOf, KeysOf, TableInv, Bookkeeping
<1>2. \A i \in F : \A id \in owned[i] : pending[id] = i /\ sent[id] = NoItem
  BY <1>0, <1>1 DEF TableInv, BatchMovesTogether
<1>3. \A h \in H : owned[h] = {} /\ h \notin F
  BY <1>0, <1>1 DEF TableInv, Bookkeeping
<1>4. \A h \in H, i \in Items : h \notin owned[i]
  BY <1>0, <1>3, CallersAssumption, IdsAssumption DEF TableInv, OwnIdsOnly, Items
<1>5. \A h \in H : pending[h] = NoItem /\ sent[h] = NoItem
  BY <1>0, <1>4 DEF TableInv, Bookkeeping
<1>6. \A id \in Ids : pending[id] \notin H
  BY <1>0, <1>3 DEF TableInv, Bookkeeping
<1>7. \A id \in Ids : sent'[id] = IF id \in H THEN id
                                ELSE IF pending[id] # NoItem /\ pending[id] \notin F THEN pending[id]
                                ELSE sent[id]
  BY <1>6 DEF ItemsOf, KeysOf, TableInv
<1>8. /\ pending' \in [Ids -> Items \cup {NoItem}]
      /\ owned' \in [Items -> SUBSET Ids]
      /\ outcome' \in [Items -> Outcomes]
      /\ deadline' \in [Items -> BOOLEAN]
  BY <1>0 DEF TableInv, Outcomes
<1>9. sent' \in [Ids -> Items \cup {NoItem}]
  BY <1>0, <1>7 DEF TableInv
<1>10. \A i \in Items : \A id \in Ids : id \in owned'[i] <=> (pending'[id] = i \/ sent'[id] = i)
  <2> SUFFICES ASSUME NEW i \in Items, NEW id \in Ids
               PROVE  id \in owned'[i] <=> sent'[id] = i
    OBVIOUS
  <2>1. /\ id \in owned[i] <=> (pending[id] = i \/ sent[id] = i)
        /\ pending[id] = NoItem \/ sent[id] = NoItem
    BY DEF TableInv, Bookkeeping, OneQueuePerId
  <2>2. owned'[i] = IF i \in H THEN {i} ELSE IF i \in F THEN {} ELSE owned[i]
    OBVIOUS
  <2>3. CASE id \in H
    BY <2>3, <2>2, <1>4, <1>7, <1>0
  <2>4. CASE id \notin H
    BY <2>4, <2>1, <2>2, <1>2, <1>3, <1>6, <1>7
  <2> QED BY <2>3, <2>4
<1>11. Bookkeeping'
  <2> SUFFICES ASSUME NEW i \in Items
               PROVE  /\ outcome'[i] = "waiting" <=> deadline'[i]
                      /\ outcome'[i] = "waiting" <=> owned'[i] # {}
                      /\ \A id \in Ids : id \in owned'[i] <=> (pending'[id] = i \/ sent'[id] = i)
    BY DEF Bookkeeping
  <2>1. \A id \in Ids : id \in owned'[i] <=> (pending'[id] = i \/ sent'[id] = i)
    BY <1>10
  <2>2. /\ outcome[i] = "waiting" <=> deadline[i]
        /\ outcome[i] = "waiting" <=> owned[i] # {}
    BY DEF TableInv, Bookkeeping
  <2>3. owned'[i] = IF i \in H THEN {i} ELSE IF i \in F THEN {} ELSE owned[i]
    OBVIOUS
  <2>4. deadline'[i] <=> (deadline[i] \/ i \in H) /\ i \notin F
    OBVIOUS
  <2>5. outcome'[i] = IF i \in H THEN "waiting" ELSE IF i \in F THEN "rejected" ELSE outcome[i]
    OBVIOUS
  <2> QED BY <2>1, <2>2, <2>3, <2>4, <2>5, <1>3
<1>12. OneQueuePerId'
  BY DEF OneQueuePerId
<1>13. OwnIdsOnly'
  BY <1>0, CallersAssumption DEF TableInv, OwnIdsOnly, Items
<1>14. BatchMovesTogether'
  <2>1. ASSUME NEW i \in Items, NEW id \in owned'[i]
        PROVE  sent'[id] = i /\ pending'[id] = NoItem
    <3>1. id \in Ids
      BY <1>8
    <3> QED BY <3>1, <1>10
  <2> QED BY <2>1 DEF BatchMovesTogether
<1> QED BY <1>8, <1>9, <1>11, <1>12, <1>13, <1>14 DEF TableInv

\* The requests that move to the sent queue were counted already.
LEMMA PromotionKeepsCap ==
    ASSUME CapInv, NEW H, IsFiniteSet(H), InFlight + Cardinality(H) <= MaxInFlight,
           peak' = (IF InFlight + Cardinality(H) > peak THEN InFlight + Cardinality(H) ELSE peak),
           KeysOf(pending') = {},
           KeysOf(sent') \subseteq KeysOf(sent) \cup (KeysOf(pending) \cup H)
    PROVE  CapInv'
<1>1. /\ IsFiniteSet(KeysOf(pending))
      /\ Cardinality(KeysOf(pending)) \in Nat /\ Cardinality(KeysOf(sent)) \in Nat
      /\ Cardinality(KeysOf(sent')) \in Nat
  BY KeysFinite
<1>2. Cardinality(H) \in Nat
  BY FS_CardinalityType
<1>3. IsFiniteSet(KeysOf(pending) \cup H)
  BY <1>1, FS_Union
<1>4. Cardinality(KeysOf(pending) \cup H)
        = Cardinality(KeysOf(pending)) + Cardinality(H) - Cardinality(KeysOf(pending) \cap H)
  BY <1>1, FS_Union
<1>5. Cardinality(KeysOf(pending) \cap H) \in Nat
  BY <1>1, FS_Intersection, FS_CardinalityType
<1>6. Cardinality(KeysOf(sent')) <= Cardinality(KeysOf(sent)) + Cardinality(KeysOf(pending) \cup H)
  BY <1>3, MoreKeys
<1>7. Cardinality({}) = 0
  BY FS_EmptySet
<1>8. InFlight' = Cardinality(KeysOf(sent'))
  <2>1. InFlight' = Cardinality(KeysOf(pending')) + Cardinality(KeysOf(sent'))
    BY DEF InFlight, KeysOf
  <2> QED BY <2>1, <1>1, <1>7
<1> QED BY <1>1, <1>2, <1>4, <1>5, <1>6, <1>8, BoundsAssumption
        DEF CapInv, InFlightWithinCap, InFlight

\* The same when a replaced socket opens and everything parked is rejected.
LEMMA StalePromotionKeepsTable ==
    ASSUME TableInv,
           NEW H \in SUBSET Handshakes, \A h \in H : outcome[h] = "unused",
           NEW F, F = ItemsOf(pending),
           pending' = [id \in Ids |-> NoItem],
           sent' = sent,
           owned' = [i \in Items |-> IF i \in F THEN {} ELSE owned[i]],
           deadline' = [i \in Items |-> deadline[i] /\ i \notin F],
           outcome' = [i \in Items |-> IF i \in H \cup F THEN "rejected" ELSE outcome[i]]
    PROVE  TableInv'
<1> USE NoItemIsNoItem
<1>0. H \subseteq Items /\ F \subseteq Items
  BY QueueItems DEF Items, TableInv
<1>1. \A i \in F : \E id \in Ids : pending[id] = i /\ id \in owned[i]
  BY <1>0 DEF ItemsOf, KeysOf, TableInv, Bookkeeping
<1>2. \A i \in F : \A id \in owned[i] : pending[id] = i /\ sent[id] = NoItem
  BY <1>0, <1>1 DEF TableInv, BatchMovesTogether
<1>3. \A id \in Ids : pending[id] # NoItem => pending[id] \in F
  BY DEF ItemsOf, KeysOf
<1>4. /\ pending' \in [Ids -> Items \cup {NoItem}]
      /\ sent' \in [Ids -> Items \cup {NoItem}]
      /\ owned' \in [Items -> SUBSET Ids]
      /\ outcome' \in [Items -> Outcomes]
      /\ deadline' \in [Items -> BOOLEAN]
  BY <1>0 DEF TableInv, Outcomes
<1>5. \A i \in Items, id \in Ids : id \in owned'[i] <=> (pending'[id] = i \/ sent'[id] = i)
  <2> SUFFICES ASSUME NEW i \in Items, NEW id \in Ids
               PROVE  id \in owned'[i] <=> sent[id] = i
    OBVIOUS
  <2>1. id \in owned[i] <=> (pending[id] = i \/ sent[id] = i)
    BY DEF TableInv, Bookkeeping
  <2>2. owned'[i] = IF i \in F THEN {} ELSE owned[i]
    OBVIOUS
  <2> QED BY <2>1, <2>2, <1>2, <1>3
<1>6. Bookkeeping'
  <2> SUFFICES ASSUME NEW i \in Items
               PROVE  /\ outcome'[i] = "waiting" <=> deadline'[i]
                      /\ outcome'[i] = "waiting" <=> owned'[i] # {}
                      /\ \A id \in Ids : id \in owned'[i] <=> (pending'[id] = i \/ sent'[id] = i)
    BY DEF Bookkeeping
  <2>1. \A id \in Ids : id \in owned'[i] <=> (pending'[id] = i \/ sent'[id] = i)
    BY <1>5
  <2>2. /\ outcome[i] = "waiting" <=> deadline[i]
        /\ outcome[i] = "waiting" <=> owned[i] # {}
    BY DEF TableInv, Bookkeeping
  <2>3. owned'[i] = IF i \in F THEN {} ELSE owned[i]
    OBVIOUS
  <2>4. deadline'[i] <=> deadline[i] /\ i \notin F
    OBVIOUS
  <2>5. outcome'[i] = IF i \in H \cup F THEN "rejected" ELSE outcome[i]
    OBVIOUS
  <2>6. i \in H => outcome[i] = "unused"
    OBVIOUS
  <2> QED BY <2>1, <2>2, <2>3, <2>4, <2>5, <2>6
<1>7. OneQueuePerId'
  BY DEF OneQueuePerId
<1>8. OwnIdsOnly'
  BY <1>0 DEF TableInv, OwnIdsOnly, Items
<1>9. BatchMovesTogether'
  <2>1. ASSUME NEW i \in Items, NEW id \in owned'[i]
        PROVE  sent'[id] = i /\ pending'[id] = NoItem
    <3>1. id \in Ids
      BY <1>4
    <3> QED BY <3>1, <1>5
  <2> QED BY <2>1 DEF BatchMovesTogether
<1> QED BY <1>4, <1>6, <1>7, <1>8, <1>9 DEF TableInv

-----------------------------------------------------------------------------
(* The steps of the specification.                                          *)

\* The part of Inv about sockets, timers and the parser.
ControlInv ==
    /\ readyState \in [Sockets -> {"none", "connecting", "open", "closing", "closed"}]
    /\ listening \in [Sockets -> BOOLEAN]
    /\ errorListener \in [Sockets -> {"off", "on", "emitted", "swallowed"}]
    /\ cur \in Sockets
    /\ connTimer \in BOOLEAN
    /\ isReconnecting \in BOOLEAN
    /\ reconnectAttempts \in 0 .. MaxAttempts
    /\ lastChunk \in Sockets \cup {0}
    /\ chunkTimer \in BOOLEAN

\* Inv, split by the variables its parts read.
LEMMA InvParts ==
    /\ Inv <=> TableInv /\ CapInv /\ ControlInv /\ FreshSockets
    /\ Inv' <=> TableInv' /\ CapInv' /\ ControlInv' /\ FreshSockets'
BY DEF Inv, TypeOK, TableInv, CapInv, ControlInv

\* A step that leaves the table alone keeps what Inv says of it.
LEMMA TableUnchanged ==
    ASSUME TableInv, CapInv, UNCHANGED tableVars
    PROVE  TableInv' /\ CapInv' /\ (\A i \in Items : outcome[i] = "unused" => outcome'[i] = "unused")
BY DEF tableVars, TableInv, CapInv, Bookkeeping, OneQueuePerId, OwnIdsOnly, BatchMovesTogether,
       InFlightWithinCap, InFlight, KeysOf

\* A step that settles some requests keeps what Inv says of the table.
LEMMA SettleStep ==
    ASSUME TableInv, CapInv, NEW S \in SUBSET Items, NEW how \in {"resolved", "rejected"},
           Settle(S, how)
    PROVE  TableInv' /\ CapInv' /\ (\A i \in Items : outcome[i] = "unused" => outcome'[i] = "unused")
<1>1. TableInv'
  BY SettleKeepsTable
<1>2. CapInv'
  BY SettleKeepsCap
<1>3. \A i \in Items : outcome[i] = "unused" => outcome'[i] = "unused"
  BY DEF Settle
<1> QED BY <1>1, <1>2, <1>3

\* In particular the step that rejects everything.
LEMMA RejectAllStep ==
    ASSUME TableInv, CapInv, RejectAll
    PROVE  TableInv' /\ CapInv' /\ (\A i \in Items : outcome[i] = "unused" => outcome'[i] = "unused")
<1>1. ItemsOf(pending) \cup ItemsOf(sent) \in SUBSET Items
  BY QueueItems DEF TableInv
<1> QED BY <1>1, SettleStep DEF RejectAll

\* _reconnect keeps Inv, whatever happens to the states of the sockets.
LEMMA ReconnectStep ==
    ASSUME TableInv, CapInv, ControlInv, Reconnect
    PROVE  /\ TableInv' /\ CapInv'
           /\ \A i \in Items : outcome[i] = "unused" => outcome'[i] = "unused"
           /\ listening' \in [Sockets -> BOOLEAN]
           /\ connTimer' \in BOOLEAN
           /\ isReconnecting' \in BOOLEAN
           /\ reconnectAttempts' \in 0 .. MaxAttempts
<1>1. CASE isReconnecting /\ UNCHANGED <<timerVars, listening, tableVars>>
  BY <1>1, TableUnchanged DEF ControlInv, timerVars
<1>2. CASE /\ ~isReconnecting
           /\ AttemptsLeft
           /\ isReconnecting' = TRUE
           /\ reconnectAttempts' = reconnectAttempts + 1
           /\ Settle(ItemsOf(sent), "rejected")
           /\ UNCHANGED <<connTimer, listening>>
  <2>1. ItemsOf(sent) \in SUBSET Items
    BY QueueItems DEF TableInv
  <2>2. reconnectAttempts' \in 0 .. MaxAttempts
    BY <1>2, BoundsAssumption DEF ControlInv, AttemptsLeft
  <2> QED BY <1>2, <2>1, <2>2, SettleStep DEF ControlInv
<1>3. CASE /\ ~isReconnecting
           /\ ~AttemptsLeft
           /\ ClearQueues
           /\ UNCHANGED <<isReconnecting, reconnectAttempts>>
  BY <1>3, RejectAllStep DEF ControlInv, ClearQueues, Deafen
<1> QED BY <1>1, <1>2, <1>3 DEF Reconnect

\* connect() keeps what Inv says of the sockets.
LEMMA ConnectStep ==
    ASSUME ControlInv, FreshSockets,
           NEW rs \in [Sockets -> {"none", "connecting", "open", "closing", "closed"}],
           NEW ls \in [Sockets -> BOOLEAN],
           \A s \in Sockets : s > cur => rs[s] = "none",
           \A h \in Handshakes :
               rs[h[2]] \in {"none", "connecting"} => outcome'[h] = "unused",
           Connect(rs, ls)
    PROVE  /\ readyState' \in [Sockets -> {"none", "connecting", "open", "closing", "closed"}]
           /\ listening' \in [Sockets -> BOOLEAN]
           /\ errorListener' \in [Sockets -> {"off", "on", "emitted", "swallowed"}]
           /\ cur' \in Sockets
           /\ connTimer' \in BOOLEAN
           /\ FreshSockets'
<1>1. cur + 1 \in Sockets /\ cur \in Int /\ rs[cur + 1] = "none"
  BY BoundsAssumption DEF Connect, ControlInv, Sockets
<1>2. /\ readyState' \in [Sockets -> {"none", "connecting", "open", "closing", "closed"}]
      /\ listening' \in [Sockets -> BOOLEAN]
      /\ errorListener' \in [Sockets -> {"off", "on", "emitted", "swallowed"}]
      /\ cur' \in Sockets
      /\ connTimer' \in BOOLEAN
  BY <1>1 DEF Connect, ControlInv
<1>3. \A s \in Sockets : s > cur' => readyState'[s] = "none"
  BY <1>1, BoundsAssumption DEF Connect, Sockets
<1>4. \A h \in Handshakes : readyState'[h[2]] \in {"none", "connecting"} => outcome'[h] = "unused"
  <2> SUFFICES ASSUME NEW h \in Handshakes, readyState'[h[2]] \in {"none", "connecting"}
               PROVE  outcome'[h] = "unused"
    OBVIOUS
  <2>1. h[2] \in Sockets
    BY DEF Handshakes
  <2>2. rs[h[2]] \in {"none", "connecting"}
    BY <1>1, <2>1 DEF Connect
  <2> QED BY <2>2
<1> QED BY <1>2, <1>3, <1>4 DEF FreshSockets

\* The constructor establishes the invariant.
LEMMA InitEstablishesInv == Init => Inv
<1> SUFFICES ASSUME Init PROVE Inv
  OBVIOUS
<1> USE NoItemIsNoItem
<1>1. TableInv
  BY DEF Init, TableInv, Outcomes, Bookkeeping, OneQueuePerId, OwnIdsOnly, BatchMovesTogether, Items
<1>2. CapInv
  <2>1. KeysOf(pending) = {} /\ KeysOf(sent) = {}
    BY DEF Init, KeysOf
  <2>2. Cardinality({}) = 0
    BY FS_EmptySet
  <2>3. InFlight = 0
    BY <2>1, <2>2 DEF InFlight
  <2> QED BY <2>3, BoundsAssumption DEF Init, CapInv, InFlightWithinCap
<1>3. ControlInv
  <2>1. 1 \in Sockets /\ 0 \in 0 .. MaxAttempts
    BY BoundsAssumption DEF Sockets
  <2> QED BY <2>1 DEF Init, ControlInv
<1>4. FreshSockets
  BY BoundsAssumption DEF Init, FreshSockets, Sockets, Items
<1> QED BY <1>1, <1>2, <1>3, <1>4, InvParts

\* request(): every way a call of it can end.
LEMMA RequestStep == Inv /\ (Request \/ RequestRefused) => Inv'
<1> SUFFICES ASSUME Inv, Request \/ RequestRefused PROVE Inv'
  OBVIOUS
<1> USE NoItemIsNoItem
<1>0. TableInv /\ CapInv /\ ControlInv /\ FreshSockets
  BY InvParts
<1>f. \A h \in Handshakes : h[2] \in Sockets /\ h \in Items /\ h \notin Callers
  BY CallersAssumption DEF Handshakes, Items
<1>1. ASSUME NEW i \in Callers, NEW I \in (SUBSET CallerIds) \ {{}}, RequestParked(i, I)
      PROVE  Inv'
  <2>1. IsFiniteSet(I) /\ I \subseteq Ids
    BY IdsAssumption, FS_Subset DEF Ids
  <2>2. TableInv'
    <3>1. /\ outcome[i] = "unused" /\ I \in SUBSET CallerIds /\ I # {}
          /\ \A id \in I : pending[id] = NoItem /\ sent[id] = NoItem
          /\ owned' = [owned EXCEPT ![i] = I]
          /\ deadline' = [deadline EXCEPT ![i] = TRUE]
          /\ outcome' = [outcome EXCEPT ![i] = "waiting"]
          /\ pending' = Enter(pending, i, I) /\ sent' = sent
      BY <1>1 DEF RequestParked, Register, Admissible
    <3> QED BY <3>1, <1>0, AdmissionKeepsTable
  <2>3. CapInv'
    <3>1. KeysOf(pending') \subseteq KeysOf(pending) \cup I /\ KeysOf(sent') \subseteq KeysOf(sent)
      BY <1>1 DEF RequestParked, KeysOf, Enter
    <3> QED BY <1>1, <1>0, <2>1, <3>1, AdmissionKeepsCap DEF RequestParked, Admissible, Register
  <2>4. \A h \in Handshakes : outcome'[h] = outcome[h]
    BY <1>1, <1>0, <1>f DEF RequestParked, Register, TableInv
  <2>5. CASE Connect(readyState, listening)
    <3>1. /\ readyState' \in [Sockets -> {"none", "connecting", "open", "closing", "closed"}]
          /\ listening' \in [Sockets -> BOOLEAN]
          /\ errorListener' \in [Sockets -> {"off", "on", "emitted", "swallowed"}]
          /\ cur' \in Sockets
          /\ connTimer' \in BOOLEAN
          /\ FreshSockets'
      BY <2>5, <2>4, <1>0, ConnectStep DEF ControlInv, FreshSockets
    <3>2. ControlInv'
      BY <3>1, <1>1, <1>0 DEF RequestParked, ControlInv, parserVars
    <3> QED BY <2>2, <2>3, <3>1, <3>2, InvParts
  <2>6. CASE UNCHANGED <<socketVars, listening, connTimer>>
    <3>1. ControlInv'
      BY <2>6, <1>1, <1>0 DEF RequestParked, ControlInv, parserVars, socketVars
    <3>2. FreshSockets'
      BY <2>6, <2>4, <1>0 DEF FreshSockets, socketVars
    <3> QED BY <2>2, <2>3, <3>1, <3>2, InvParts
  <2> QED BY <1>1, <2>5, <2>6 DEF RequestParked, ReconnectForRequest
<1>2. ASSUME NEW i \in Callers, NEW I \in (SUBSET CallerIds) \ {{}}, RequestSent(i, I)
      PROVE  Inv'
  <2>1. IsFiniteSet(I) /\ I \subseteq Ids
    BY IdsAssumption, FS_Subset DEF Ids
  <2>2. TableInv'
    <3>1. /\ outcome[i] = "unused" /\ I \in SUBSET CallerIds /\ I # {}
          /\ \A id \in I : pending[id] = NoItem /\ sent[id] = NoItem
          /\ owned' = [owned EXCEPT ![i] = I]
          /\ deadline' = [deadline EXCEPT ![i] = TRUE]
          /\ outcome' = [outcome EXCEPT ![i] = "waiting"]
          /\ sent' = Enter(sent, i, I) /\ pending' = pending
      BY <1>2 DEF RequestSent, Register, Admissible
    <3> QED BY <3>1, <1>0, AdmissionKeepsTable
  <2>3. CapInv'
    <3>1. KeysOf(sent') \subseteq KeysOf(sent) \cup I /\ KeysOf(pending') \subseteq KeysOf(pending)
      BY <1>2 DEF RequestSent, KeysOf, Enter
    <3> QED BY <1>2, <1>0, <2>1, <3>1, AdmissionKeepsCap DEF RequestSent, Admissible, Register
  <2>4. ControlInv'
    BY <1>2, <1>0 DEF RequestSent, ControlInv, parserVars, socketVars, timerVars
  <2>5. FreshSockets'
    BY <1>2, <1>0, <1>f DEF RequestSent, Register, TableInv, FreshSockets, socketVars
  <2> QED BY <2>2, <2>3, <2>4, <2>5, InvParts
<1>3. ASSUME NEW i \in Callers, NEW I \in (SUBSET CallerIds) \ {{}}, RequestUnsendable(i, I)
      PROVE  Inv'
  <2>0. i \in Items
    BY DEF Items
  <2>1. IsFiniteSet(I)
    BY IdsAssumption, FS_Subset
  <2>2. TableInv'
    <3>1. Bookkeeping'
      <4> SUFFICES ASSUME NEW j \in Items
                   PROVE  /\ outcome'[j] = "waiting" <=> outcome[j] = "waiting"
        BY <1>3, <1>0 DEF RequestUnsendable, Bookkeeping, TableInv
      <4> QED BY <1>3, <1>0 DEF RequestUnsendable, TableInv
    <3>2. OneQueuePerId' /\ OwnIdsOnly' /\ BatchMovesTogether'
      BY <1>3, <1>0 DEF RequestUnsendable, TableInv, OneQueuePerId, OwnIdsOnly, BatchMovesTogether
    <3> QED BY <3>1, <3>2, <1>3, <1>0, <2>0 DEF RequestUnsendable, TableInv, Outcomes
  <2>3. CapInv'
    <3>1. KeysOf(sent') \subseteq KeysOf(sent) \cup I /\ KeysOf(pending') \subseteq KeysOf(pending)
      BY <1>3 DEF RequestUnsendable, KeysOf
    <3> QED BY <1>3, <1>0, <2>1, <3>1, AdmissionKeepsCap DEF RequestUnsendable, Admissible
  <2>4. ControlInv'
    BY <1>3, <1>0 DEF RequestUnsendable, ControlInv, parserVars, socketVars, timerVars
  <2>5. FreshSockets'
    BY <1>3, <1>0, <1>f DEF RequestUnsendable, TableInv, FreshSockets, socketVars
  <2> QED BY <2>2, <2>3, <2>4, <2>5, InvParts
<1>4. CASE RequestRefused
  <2>1. TableInv' /\ CapInv'
    BY <1>4, <1>0, TableUnchanged DEF RequestRefused
  <2>2. outcome' = outcome
    BY <1>4 DEF RequestRefused, tableVars
  <2>3. /\ readyState' \in [Sockets -> {"none", "connecting", "open", "closing", "closed"}]
        /\ listening' \in [Sockets -> BOOLEAN]
        /\ errorListener' \in [Sockets -> {"off", "on", "emitted", "swallowed"}]
        /\ cur' \in Sockets
        /\ connTimer' \in BOOLEAN
        /\ FreshSockets'
    BY <1>4, <2>2, <1>0, ConnectStep DEF ControlInv, FreshSockets, RequestRefused
  <2>4. ControlInv'
    BY <2>3, <1>4, <1>0 DEF RequestRefused, ControlInv, parserVars
  <2> QED BY <2>1, <2>3, <2>4, InvParts
<1> QED BY <1>1, <1>2, <1>3, <1>4 DEF Request

\* A step that keeps the table consistent, resets no socket to an earlier state
\* and stays within the types keeps the invariant.
LEMMA SocketsAdvance ==
    ASSUME Inv, TableInv', CapInv', ControlInv',
           \A i \in Items : outcome[i] = "unused" => outcome'[i] = "unused",
           cur' = cur,
           \A s \in Sockets :
               \/ readyState'[s] = readyState[s]
               \/ readyState[s] # "none" /\ readyState'[s] \in {"open", "closing", "closed"}
    PROVE  Inv'
<1>1. FreshSockets /\ \A h \in Handshakes : h[2] \in Sockets /\ h \in Items
  BY InvParts DEF Handshakes, Items
<1>2. FreshSockets'
  <2>1. \A s \in Sockets : s > cur' => readyState'[s] = "none"
    BY <1>1 DEF FreshSockets
  <2>2. \A h \in Handshakes : readyState'[h[2]] \in {"none", "connecting"} => outcome'[h] = "unused"
    BY <1>1 DEF FreshSockets
  <2> QED BY <2>1, <2>2 DEF FreshSockets
<1> QED BY <1>2, InvParts

\* The calls connect, disconnect and reset, and the deadline of a request.
LEMMA CallStep ==
    Inv /\ (UserConnect \/ UserDisconnect \/ UserReset \/ \E i \in Items : RequestAborted(i)) => Inv'
<1> SUFFICES ASSUME Inv,
                    UserConnect \/ UserDisconnect \/ UserReset \/ \E i \in Items : RequestAborted(i)
             PROVE  Inv'
  OBVIOUS
<1>0. TableInv /\ CapInv /\ ControlInv /\ FreshSockets
  BY InvParts
<1>1. CASE UserConnect
  <2>1. TableInv' /\ CapInv'
    BY <1>1, <1>0, TableUnchanged DEF UserConnect
  <2>2. outcome' = outcome
    BY <1>1 DEF UserConnect, tableVars
  <2>3. /\ readyState' \in [Sockets -> {"none", "connecting", "open", "closing", "closed"}]
        /\ listening' \in [Sockets -> BOOLEAN]
        /\ errorListener' \in [Sockets -> {"off", "on", "emitted", "swallowed"}]
        /\ cur' \in Sockets
        /\ connTimer' \in BOOLEAN
        /\ FreshSockets'
    BY <1>1, <2>2, <1>0, ConnectStep DEF ControlInv, FreshSockets, UserConnect
  <2>4. ControlInv'
    BY <2>3, <1>1, <1>0 DEF UserConnect, ControlInv, parserVars
  <2> QED BY <2>1, <2>3, <2>4, InvParts
<1>2. CASE UserDisconnect
  <2>1. TableInv' /\ CapInv' /\ (\A i \in Items : outcome[i] = "unused" => outcome'[i] = "unused")
    BY <1>2, <1>0, RejectAllStep DEF UserDisconnect
  <2>2. ControlInv'
    BY <1>2, <1>0 DEF UserDisconnect, ControlInv, Deafen, parserVars
  <2>3. readyState' # readyState => readyState[cur] # "none"
    BY <1>2 DEF UserDisconnect, Status, StatusIn
  <2>4. \A s \in Sockets :
          \/ readyState'[s] = readyState[s]
          \/ readyState[s] # "none" /\ readyState'[s] \in {"open", "closing", "closed"}
    BY <1>2, <1>0, <2>3 DEF UserDisconnect, ControlInv
  <2>5. cur' = cur
    BY <1>2 DEF UserDisconnect
  <2> QED BY <2>1, <2>2, <2>4, <2>5, SocketsAdvance
<1>3. CASE UserReset
  <2>1. TableInv' /\ CapInv' /\ (\A i \in Items : outcome[i] = "unused" => outcome'[i] = "unused")
    BY <1>3, <1>0, RejectAllStep DEF UserReset
  <2>2. ControlInv'
    <3>1. errorListener' \in [Sockets -> {"off", "on", "emitted", "swallowed"}]
      BY <1>3, <1>0 DEF UserReset, ControlInv
    <3>2. reconnectAttempts' \in 0 .. MaxAttempts
      BY <1>3, BoundsAssumption DEF UserReset
    <3> QED BY <1>3, <1>0, <3>1, <3>2 DEF UserReset, ControlInv, parserVars
  <2>3. cur' = cur /\ readyState' = readyState
    BY <1>3 DEF UserReset
  <2> QED BY <2>1, <2>2, <2>3, SocketsAdvance
<1>4. ASSUME NEW i \in Items, RequestAborted(i)
      PROVE  Inv'
  <2>1. PICK id \in owned[i] : IF Lookup(id) = NoItem THEN UNCHANGED tableVars
                              ELSE Settle({Lookup(id)}, "rejected")
    BY <1>4 DEF RequestAborted
  <2>2. Lookup(id) # NoItem => {Lookup(id)} \in SUBSET Items
    BY <1>0 DEF TableInv, Lookup
  <2>3. TableInv' /\ CapInv' /\ (\A j \in Items : outcome[j] = "unused" => outcome'[j] = "unused")
    BY <2>1, <2>2, <1>0, SettleStep, TableUnchanged
  <2>4. ControlInv' /\ cur' = cur /\ readyState' = readyState
    BY <1>4, <1>0 DEF RequestAborted, ControlInv, socketVars, timerVars, parserVars
  <2> QED BY <2>3, <2>4, SocketsAdvance
<1> QED BY <1>1, <1>2, <1>3, <1>4

\* The three timers.
LEMMA TimerStep == Inv /\ (ChunkTimeout \/ BackoffEnds \/ ConnectionTimeout) => Inv'
<1> SUFFICES ASSUME Inv, ChunkTimeout \/ BackoffEnds \/ ConnectionTimeout PROVE Inv'
  OBVIOUS
<1>0. TableInv /\ CapInv /\ ControlInv /\ FreshSockets
  BY InvParts
<1>1. CASE ChunkTimeout
  <2>1. TableInv' /\ CapInv' /\ (\A i \in Items : outcome[i] = "unused" => outcome'[i] = "unused")
    BY <1>1, <1>0, RejectAllStep DEF ChunkTimeout, ClearQueues
  <2>2. ControlInv' /\ cur' = cur /\ readyState' = readyState
    BY <1>1, <1>0 DEF ChunkTimeout, ClearQueues, Deafen, ControlInv, socketVars
  <2> QED BY <2>1, <2>2, SocketsAdvance
<1>2. CASE BackoffEnds
  <2>1. TableInv' /\ CapInv'
    BY <1>2, <1>0, TableUnchanged DEF BackoffEnds
  <2>2. outcome' = outcome
    BY <1>2 DEF BackoffEnds, tableVars
  <2>3. [listening EXCEPT ![cur] = FALSE] \in [Sockets -> BOOLEAN]
    BY <1>0 DEF ControlInv
  <2>4. /\ readyState' \in [Sockets -> {"none", "connecting", "open", "closing", "closed"}]
        /\ listening' \in [Sockets -> BOOLEAN]
        /\ errorListener' \in [Sockets -> {"off", "on", "emitted", "swallowed"}]
        /\ cur' \in Sockets
        /\ connTimer' \in BOOLEAN
        /\ FreshSockets'
    BY <1>2, <2>2, <2>3, <1>0, ConnectStep DEF ControlInv, FreshSockets, BackoffEnds
  <2>5. ControlInv'
    BY <2>4, <1>2, <1>0 DEF BackoffEnds, ControlInv, parserVars
  <2> QED BY <2>1, <2>4, <2>5, InvParts
<1>3. CASE ConnectionTimeout
  <2>1. TableInv' /\ CapInv' /\ (\A i \in Items : outcome[i] = "unused" => outcome'[i] = "unused")
    BY <1>3, <1>0, RejectAllStep, TableUnchanged DEF ConnectionTimeout
  <2>2. ControlInv' /\ cur' = cur /\ readyState' = readyState
    BY <1>3, <1>0 DEF ConnectionTimeout, ControlInv, socketVars, parserVars
  <2> QED BY <2>1, <2>2, SocketsAdvance
<1> QED BY <1>1, <1>2, <1>3

\* The events of a socket, messages included.
LEMMA SocketStep == Inv /\ SocketEvent => Inv'
<1> SUFFICES ASSUME Inv, SocketEvent PROVE Inv'
  OBVIOUS
<1>0. TableInv /\ CapInv /\ ControlInv /\ FreshSockets
  BY InvParts
<1> SUFFICES ASSUME NEW s \in Sockets,
                    \/ SocketOpensUnheard(s)
                    \/ \E F \in SUBSET Callers : SocketOpens(s, F)
                    \/ StaleSocketOpens(s)
                    \/ SocketFails(s)
                    \/ SocketError(s)
                    \/ SocketClosesUnheard(s)
                    \/ \E clean \in BOOLEAN : SocketCloses(s, clean)
                    \/ \E id \in Ids, valid, tail \in BOOLEAN : MessageAnswers(s, id, valid, tail)
                    \/ MessagePartial(s)
                    \/ MessageOverflows(s)
             PROVE  Inv'
  BY DEF SocketEvent
<1> DEFINE Kept == \A i \in Items : outcome[i] = "unused" => outcome'[i] = "unused"
           Forward == /\ cur' = cur
                      /\ \A t \in Sockets :
                            \/ readyState'[t] = readyState[t]
                            \/ /\ readyState[t] # "none"
                               /\ readyState'[t] \in {"open", "closing", "closed"}
<1>a. ASSUME TableInv', CapInv', ControlInv', Kept, Forward
      PROVE  Inv'
  BY <1>a, SocketsAdvance
<1>1. CASE SocketOpensUnheard(s) \/ SocketFails(s) \/ SocketClosesUnheard(s)
  <2>1. TableInv' /\ CapInv' /\ Kept
    BY <1>1, <1>0, TableUnchanged DEF SocketOpensUnheard, SocketFails, SocketClosesUnheard
  <2>2. ControlInv'
    BY <1>1, <1>0 DEF SocketOpensUnheard, SocketFails, SocketClosesUnheard, ControlInv,
                      timerVars, parserVars
  <2>3. Forward
    BY <1>1, <1>0 DEF SocketOpensUnheard, SocketFails, SocketClosesUnheard, ControlInv
  <2> QED BY <1>a, <2>1, <2>2, <2>3
<1>2. CASE SocketError(s)
  <2>1. TableInv' /\ CapInv' /\ Kept
    BY <1>2, <1>0, TableUnchanged DEF SocketError
  <2>2. ControlInv'
    BY <1>2, <1>0 DEF SocketError, ControlInv, timerVars, parserVars
  <2>3. Forward
    BY <1>2 DEF SocketError
  <2> QED BY <1>a, <2>1, <2>2, <2>3
<1>3. ASSUME NEW clean \in BOOLEAN, SocketCloses(s, clean)
      PROVE  Inv'
  <2>1. Forward
    BY <1>3, <1>0 DEF SocketCloses, ControlInv
  <2>2. readyState' \in [Sockets -> {"none", "connecting", "open", "closing", "closed"}]
    BY <1>3, <1>0 DEF SocketCloses, ControlInv
  <2>3. CASE Reconnect /\ UNCHANGED errorListener
    <3>1. /\ TableInv' /\ CapInv' /\ Kept
          /\ listening' \in [Sockets -> BOOLEAN] /\ connTimer' \in BOOLEAN
          /\ isReconnecting' \in BOOLEAN /\ reconnectAttempts' \in 0 .. MaxAttempts
      BY <2>3, <1>0, ReconnectStep
    <3>2. ControlInv'
      BY <3>1, <2>2, <2>3, <1>3, <1>0 DEF SocketCloses, ControlInv, parserVars
    <3> QED BY <1>a, <2>1, <3>1, <3>2
  <2>4. CASE /\ ClearQueues
             /\ errorListener' = [errorListener EXCEPT ![cur] = IF @ = "on" THEN "off" ELSE @]
             /\ UNCHANGED <<isReconnecting, reconnectAttempts>>
    <3>1. TableInv' /\ CapInv' /\ Kept
      BY <2>4, <1>0, RejectAllStep DEF ClearQueues
    <3>2. errorListener' \in [Sockets -> {"off", "on", "emitted", "swallowed"}]
      BY <2>4, <1>0 DEF ControlInv
    <3>3. ControlInv'
      BY <3>2, <2>2, <2>4, <1>3, <1>0 DEF SocketCloses, ControlInv, parserVars, ClearQueues, Deafen
    <3> QED BY <1>a, <2>1, <3>1, <3>3
  <2> QED BY <1>3, <2>3, <2>4 DEF SocketCloses
<1>4. ASSUME NEW id \in Ids, NEW valid \in BOOLEAN, NEW tail \in BOOLEAN,
             MessageAnswers(s, id, valid, tail)
      PROVE  Inv'
  <2>1. Answered(id) # NoItem => {Answered(id)} \in SUBSET Items
    BY <1>0 DEF TableInv, Answered
  <2>2. (IF valid THEN "resolved" ELSE "rejected") \in {"resolved", "rejected"}
    OBVIOUS
  <2>3. TableInv' /\ CapInv' /\ Kept
    <3>1. CASE UNCHANGED tableVars
      BY <3>1, <1>0, TableUnchanged
    <3>2. CASE Answered(id) # NoItem /\ Settle({Answered(id)}, IF valid THEN "resolved" ELSE "rejected")
      BY <3>2, <2>1, <2>2, <1>0, SettleStep
    <3> QED BY <1>4, <3>1, <3>2 DEF MessageAnswers
  <2>4. ControlInv'
    <3>1. lastChunk' \in Sockets \cup {0} /\ chunkTimer' \in BOOLEAN
      BY <1>4 DEF MessageAnswers
    <3> QED BY <3>1, <1>4, <1>0 DEF MessageAnswers, ControlInv, socketVars, timerVars
  <2>5. Forward
    BY <1>4 DEF MessageAnswers, socketVars
  <2> QED BY <1>a, <2>3, <2>4, <2>5
<1>5. CASE MessagePartial(s)
  <2>1. /\ TableInv' /\ CapInv' /\ Kept
        /\ listening' \in [Sockets -> BOOLEAN] /\ connTimer' \in BOOLEAN
        /\ isReconnecting' \in BOOLEAN /\ reconnectAttempts' \in 0 .. MaxAttempts
    <3>1. CASE Reconnect
      BY <3>1, <1>0, ReconnectStep
    <3>2. CASE UNCHANGED <<timerVars, listening, tableVars>>
      BY <3>2, <1>0, TableUnchanged DEF timerVars, ControlInv
    <3> QED BY <1>5, <3>1, <3>2 DEF MessagePartial
  <2>2. lastChunk' \in Sockets \cup {0} /\ chunkTimer' \in BOOLEAN
    BY <1>5, <1>0 DEF MessagePartial, ControlInv
  <2>3. ControlInv'
    BY <2>1, <2>2, <1>5, <1>0 DEF MessagePartial, ControlInv, socketVars
  <2>4. Forward
    BY <1>5 DEF MessagePartial, socketVars
  <2> QED BY <1>a, <2>1, <2>3, <2>4
<1>6. CASE MessageOverflows(s)
  <2>1. TableInv' /\ CapInv' /\ Kept
    BY <1>6, <1>0, RejectAllStep DEF MessageOverflows, ClearQueues
  <2>2. reconnectAttempts' \in 0 .. MaxAttempts /\ isReconnecting' \in BOOLEAN
    <3>1. isReconnecting' \in BOOLEAN
      BY <1>6, <1>0 DEF MessageOverflows, ControlInv
    <3>2. \/ AttemptsLeft /\ reconnectAttempts' = reconnectAttempts + 1
          \/ reconnectAttempts' = reconnectAttempts
      BY <1>6 DEF MessageOverflows
    <3>3. reconnectAttempts \in 0 .. MaxAttempts
      BY <1>0 DEF ControlInv
    <3>4. reconnectAttempts' \in 0 .. MaxAttempts
      BY <3>2, <3>3, BoundsAssumption DEF AttemptsLeft
    <3> QED BY <3>1, <3>4
  <2>3. ControlInv'
    BY <2>2, <1>6, <1>0 DEF MessageOverflows, ControlInv, ClearQueues, Deafen, socketVars
  <2>4. Forward
    BY <1>6 DEF MessageOverflows, socketVars
  <2> QED BY <1>a, <2>1, <2>3, <2>4
<1> DEFINE H == AdmittedHandshakes(s)
<1>h. /\ H \in SUBSET Handshakes
      /\ \A h \in H : h[2] = s
      /\ IsFiniteSet(H)
      /\ InFlight + Cardinality(H) <= MaxInFlight
  BY <1>0, HandshakesFit
<1>7. ASSUME NEW F \in SUBSET Callers, SocketOpens(s, F)
      PROVE  Inv'
  <2>1. \A h \in H : outcome[h] = "unused"
    BY <1>7, <1>0, <1>h DEF SocketOpens, FreshSockets
  <2> HIDE DEF H
  <2>2. F \in SUBSET ItemsOf(pending)
    BY <1>7 DEF SocketOpens
  <2>3. /\ pending' = [id \in Ids |-> NoItem]
        /\ sent' = [id \in Ids |->
                      IF id \in H THEN id
                      ELSE IF pending[id] \in (ItemsOf(pending) \ F) \cup H THEN pending[id]
                      ELSE sent[id]]
        /\ owned' = [i \in Items |-> IF i \in H THEN {i} ELSE IF i \in F THEN {} ELSE owned[i]]
        /\ deadline' = [i \in Items |-> (deadline[i] \/ i \in H) /\ i \notin F]
        /\ outcome' = [i \in Items |-> IF i \in H THEN "waiting"
                                      ELSE IF i \in F THEN "rejected" ELSE outcome[i]]
        /\ peak' = (IF InFlight + Cardinality(H) > peak THEN InFlight + Cardinality(H) ELSE peak)
    BY <1>7 DEF SocketOpens, H
  <2>4. TableInv'
    BY <1>0, <1>h, <2>1, <2>2, <2>3, PromotionKeepsTable
  <2>5. CapInv'
    <3>1. KeysOf(pending') = {}
      BY <2>3 DEF KeysOf
    <3>2. KeysOf(sent') \subseteq KeysOf(sent) \cup (KeysOf(pending) \cup H)
      BY <2>3, NoItemIsNoItem DEF KeysOf, ItemsOf, TableInv
    <3> QED BY <3>1, <3>2, <1>0, <1>h, <2>3, PromotionKeepsCap
  <2>6. ControlInv'
    <3>1. reconnectAttempts' \in 0 .. MaxAttempts
      BY <1>7, BoundsAssumption DEF SocketOpens
    <3> QED BY <3>1, <1>7, <1>0 DEF SocketOpens, ControlInv, parserVars
  <2>7. FreshSockets'
    <3>1. readyState' = [readyState EXCEPT ![s] = "open"] /\ cur' = cur
      BY <1>7 DEF SocketOpens
    <3>2. readyState[s] = "connecting"
      BY <1>7 DEF SocketOpens
    <3>3. \A t \in Sockets : t > cur' => readyState'[t] = "none"
      BY <3>1, <3>2, <1>0 DEF FreshSockets, ControlInv
    <3>4. ASSUME NEW h \in Handshakes, readyState'[h[2]] \in {"none", "connecting"}
          PROVE  outcome'[h] = "unused"
      <4>1. h \in Items /\ h[2] \in Sockets /\ h \notin F
        BY CallersAssumption DEF Handshakes, Items
      <4>2. h[2] # s /\ readyState[h[2]] \in {"none", "connecting"}
        BY <4>1, <3>1, <3>4, <1>0 DEF ControlInv
      <4>3. h \notin H /\ outcome[h] = "unused"
        BY <4>2, <1>h, <1>0 DEF FreshSockets
      <4> QED BY <4>1, <4>3, <2>3
    <3> QED BY <3>3, <3>4 DEF FreshSockets
  <2> QED BY <2>4, <2>5, <2>6, <2>7, InvParts
<1>8. CASE StaleSocketOpens(s)
  <2>1. \A h \in H : outcome[h] = "unused"
    BY <1>8, <1>0, <1>h DEF StaleSocketOpens, FreshSockets
  <2> HIDE DEF H
  <2> DEFINE F == ItemsOf(pending)
             rs == [readyState EXCEPT ![s] = "open"]
  <2>2. /\ pending' = [id \in Ids |-> NoItem]
        /\ sent' = sent
        /\ owned' = [i \in Items |-> IF i \in F THEN {} ELSE owned[i]]
        /\ deadline' = [i \in Items |-> deadline[i] /\ i \notin F]
        /\ outcome' = [i \in Items |-> IF i \in H \cup F THEN "rejected" ELSE outcome[i]]
        /\ peak' = (IF InFlight + Cardinality(H) > peak THEN InFlight + Cardinality(H) ELSE peak)
    BY <1>8 DEF StaleSocketOpens, H
  <2>3. TableInv'
    BY <1>0, <1>h, <2>1, <2>2, StalePromotionKeepsTable
  <2>4. CapInv'
    <3>1. KeysOf(pending') \subseteq KeysOf(pending) /\ KeysOf(sent') \subseteq KeysOf(sent) \cup H
      BY <2>2 DEF KeysOf
    <3> QED BY <3>1, <1>0, <1>h, <2>2, AdmissionKeepsCap
  <2>5. /\ rs \in [Sockets -> {"none", "connecting", "open", "closing", "closed"}]
        /\ readyState[s] = "connecting"
        /\ reconnectAttempts' \in 0 .. MaxAttempts
    BY <1>8, <1>0, BoundsAssumption DEF StaleSocketOpens, ControlInv
  <2>6. \A t \in Sockets : t > cur => rs[t] = "none"
    BY <2>5, <1>0 DEF FreshSockets, ControlInv
  <2>7. ASSUME NEW h \in Handshakes, rs[h[2]] \in {"none", "connecting"}
        PROVE  outcome'[h] = "unused"
    <3>1. h \in Items /\ h[2] \in Sockets
      BY DEF Handshakes, Items
    <3>2. h[2] # s /\ readyState[h[2]] \in {"none", "connecting"}
      BY <3>1, <2>7, <1>0 DEF ControlInv
    <3>3. h \notin H /\ outcome[h] = "unused"
      BY <3>2, <1>h, <1>0 DEF FreshSockets
    <3>4. h \notin F
      <4>1. owned[h] = {}
        BY <3>1, <3>3, <1>0 DEF TableInv, Bookkeeping
      <4> QED BY <3>1, <4>1, <1>0 DEF ItemsOf, KeysOf, TableInv, Bookkeeping
    <3> QED BY <3>1, <3>3, <3>4, <2>2
  <2>8. CASE readyState' = rs /\ connTimer' = FALSE /\ UNCHANGED <<errorListener, cur, listening>>
    <3>1. ControlInv'
      BY <2>8, <2>5, <1>8, <1>0 DEF StaleSocketOpens, ControlInv, parserVars
    <3>2. FreshSockets'
      BY <2>8, <2>6, <2>7 DEF FreshSockets
    <3> QED BY <2>3, <2>4, <3>1, <3>2, InvParts
  <2>9. CASE Connect(rs, listening)
    <3> HIDE DEF rs, F
    <3>1. /\ readyState' \in [Sockets -> {"none", "connecting", "open", "closing", "closed"}]
          /\ listening' \in [Sockets -> BOOLEAN]
          /\ errorListener' \in [Sockets -> {"off", "on", "emitted", "swallowed"}]
          /\ cur' \in Sockets
          /\ connTimer' \in BOOLEAN
          /\ FreshSockets'
      <4>1. listening \in [Sockets -> BOOLEAN]
        BY <1>0 DEF ControlInv
      <4> QED BY <2>9, <2>5, <2>6, <2>7, <1>0, <4>1, ConnectStep
    <3>2. ControlInv'
      BY <3>1, <2>5, <1>8, <1>0 DEF StaleSocketOpens, ControlInv, parserVars
    <3> QED BY <2>3, <2>4, <3>1, <3>2, InvParts
  <2> QED BY <1>8, <2>8, <2>9 DEF StaleSocketOpens
<1> QED BY <1>1, <1>2, <1>3, <1>4, <1>5, <1>6, <1>7, <1>8

-----------------------------------------------------------------------------
(* What a step may do to one request: the facts that NoneForgotten and the  *)
(* refinement of RequestTable follow from.                                  *)

\* A promise moves forward; a request keeps its ids, gives up all of them, or
\* has just taken them; only a request on the wire is resolved, and it leaves the
\* wire only by being settled.
Fate(i) ==
    /\ Table!Allowed(outcome[i], outcome'[i])
    /\ outcome[i] = "unused" \/ owned'[i] = {} \/ owned'[i] = owned[i]
    /\ outcome[i] # "resolved" /\ outcome'[i] = "resolved" => i \in ItemsOf(sent)
    /\ i \in ItemsOf(sent) => i \in ItemsOf(sent') \/ outcome'[i] # "waiting"

\* A request is among those of a queue if the queue maps some id to it.
LEMMA InQueue ==
    ASSUME NEW q, NEW i \in Items
    PROVE  i \in ItemsOf(q) <=> \E id \in Ids : q[id] = i
BY NoItemIsNoItem DEF ItemsOf, KeysOf

\* A step that leaves the table alone does nothing to any request.
LEMMA UnchangedFates ==
    ASSUME TableInv, UNCHANGED tableVars
    PROVE  \A i \in Items : Fate(i)
BY DEF Fate, Table!Allowed, tableVars, ItemsOf, KeysOf

\* _settleRequest settles requests that wait, and resolves only what is on the
\* wire if that is what it is called for.
LEMMA SettleFates ==
    ASSUME TableInv, NEW S \in SUBSET Items, NEW how \in {"resolved", "rejected"},
           how = "resolved" => S \subseteq ItemsOf(sent),
           Settle(S, how)
    PROVE  \A i \in Items : Fate(i)
<1> SUFFICES ASSUME NEW i \in Items PROVE Fate(i)
  OBVIOUS
<1>1. outcome'[i] = (IF i \in S /\ outcome[i] = "waiting" THEN how ELSE outcome[i])
  BY DEF Settle
<1>2. owned'[i] = (IF i \in S THEN {} ELSE owned[i])
  BY DEF Settle
<1>3. Table!Allowed(outcome[i], outcome'[i])
  BY <1>1 DEF Table!Allowed
<1>4. ASSUME i \in ItemsOf(sent) PROVE i \in ItemsOf(sent') \/ outcome'[i] # "waiting"
  <2>1. PICK id \in Ids : sent[id] = i
    BY <1>4, InQueue
  <2>2. pending[id] = NoItem
    BY <2>1, NoItemIsNoItem DEF TableInv, OneQueuePerId
  <2>3. CASE \E j \in S : id \in owned[j]
    <3>1. i \in S
      BY <2>1, <2>2, <2>3, NoItemIsNoItem DEF TableInv, Bookkeeping
    <3> QED BY <3>1, <1>1
  <2>4. CASE ~ \E j \in S : id \in owned[j]
    <3>1. sent'[id] = i
      BY <2>1, <2>4 DEF Settle, Released
    <3> QED BY <3>1, InQueue
  <2> QED BY <2>3, <2>4
<1> QED BY <1>1, <1>2, <1>3, <1>4 DEF Fate

\* _rejectAllRequests rejects what waits and leaves nothing parked.
LEMMA RejectAllFates ==
    ASSUME TableInv, RejectAll
    PROVE  (\A i \in Items : Fate(i)) /\ KeysOf(pending') = {}
<1>1. ItemsOf(pending) \cup ItemsOf(sent) \in SUBSET Items
  BY QueueItems DEF TableInv
<1>2. \A i \in Items : Fate(i)
  BY <1>1, SettleFates DEF RejectAll
<1>3. ASSUME NEW id \in Ids PROVE pending'[id] = NoItem
  <2>1. pending'[id] = (IF \E j \in ItemsOf(pending) \cup ItemsOf(sent) : id \in owned[j]
                        THEN NoItem ELSE pending[id])
    BY DEF RejectAll, Settle, Released
  <2>2. CASE pending[id] # NoItem
    <3>1. pending[id] \in Items /\ pending[id] \in ItemsOf(pending)
      BY <2>2 DEF TableInv, ItemsOf, KeysOf
    <3>2. id \in owned[pending[id]]
      BY <3>1 DEF TableInv, Bookkeeping
    <3> QED BY <2>1, <3>1, <3>2
  <2> QED BY <2>1, <2>2
<1> QED BY <1>2, <1>3 DEF KeysOf

\* _settleRequest parks nothing.
LEMMA SettleParksNothing ==
    ASSUME NEW S, NEW how, Settle(S, how)
    PROVE  KeysOf(pending') \subseteq KeysOf(pending)
BY DEF Settle, Released, KeysOf

\* _reconnect rejects what is on the wire, or everything, and parks nothing.
LEMMA ReconnectFates ==
    ASSUME TableInv, ControlInv, Reconnect
    PROVE  /\ \A i \in Items : Fate(i)
           /\ KeysOf(pending') \subseteq KeysOf(pending)
           /\ \A s \in Sockets : listening'[s] => listening[s]
<1>1. CASE isReconnecting /\ UNCHANGED <<timerVars, listening, tableVars>>
  BY <1>1, UnchangedFates DEF tableVars
<1>2. CASE Settle(ItemsOf(sent), "rejected") /\ UNCHANGED <<connTimer, listening>>
  <2>1. ItemsOf(sent) \in SUBSET Items
    BY QueueItems DEF TableInv
  <2>2. \A i \in Items : Fate(i)
    BY <1>2, <2>1, SettleFates
  <2> QED BY <1>2, <2>2, SettleParksNothing
<1>3. CASE ClearQueues
  <2>1. (\A i \in Items : Fate(i)) /\ KeysOf(pending') = {}
    BY <1>3, RejectAllFates DEF ClearQueues
  <2>2. listening' = [listening EXCEPT ![cur] = FALSE]
    BY <1>3 DEF ClearQueues, Deafen
  <2> QED BY <2>1, <2>2 DEF ControlInv
<1> QED BY <1>1, <1>2, <1>3 DEF Reconnect

\* A call of request(), admitted or not.
LEMMA RequestFates ==
    ASSUME TableInv, Request \/ RequestRefused
    PROVE  \A i \in Items : Fate(i)
<1>1. ASSUME NEW i \in Callers, NEW I \in (SUBSET CallerIds) \ {{}}, RequestParked(i, I)
      PROVE  \A j \in Items : Fate(j)
  <2>1. /\ outcome[i] = "unused" /\ i \in Items
        /\ owned' = [owned EXCEPT ![i] = I]
        /\ outcome' = [outcome EXCEPT ![i] = "waiting"]
        /\ sent' = sent
    BY <1>1 DEF RequestParked, Register, Items
  <2> QED BY <2>1 DEF Fate, TableInv, Table!Allowed, ItemsOf, KeysOf
<1>2. ASSUME NEW i \in Callers, NEW I \in (SUBSET CallerIds) \ {{}}, RequestSent(i, I)
      PROVE  \A j \in Items : Fate(j)
  <2>1. /\ outcome[i] = "unused" /\ i \in Items
        /\ owned' = [owned EXCEPT ![i] = I]
        /\ outcome' = [outcome EXCEPT ![i] = "waiting"]
        /\ sent' = Enter(sent, i, I)
        /\ \A id \in I : sent[id] = NoItem
    BY <1>2 DEF RequestSent, Register, Admissible, Items
  <2>2. ASSUME NEW j \in Items, j \in ItemsOf(sent) PROVE j \in ItemsOf(sent')
    <3>1. PICK id \in Ids : sent[id] = j
      BY <2>2, InQueue
    <3>2. sent'[id] = j
      BY <2>1, <3>1, NoItemIsNoItem DEF Enter
    <3> QED BY <3>2, InQueue
  <2> QED BY <2>1, <2>2 DEF Fate, TableInv, Table!Allowed
<1>3. ASSUME NEW i \in Callers, NEW I \in (SUBSET CallerIds) \ {{}}, RequestUnsendable(i, I)
      PROVE  \A j \in Items : Fate(j)
  <2>1. /\ outcome[i] = "unused" /\ i \in Items
        /\ owned' = owned /\ sent' = sent
        /\ outcome' = [outcome EXCEPT ![i] = "rejected"]
    BY <1>3 DEF RequestUnsendable, Items
  <2> QED BY <2>1 DEF Fate, TableInv, Table!Allowed, ItemsOf, KeysOf
<1>4. CASE RequestRefused
  BY <1>4, UnchangedFates DEF RequestRefused
<1> QED BY <1>1, <1>2, <1>3, <1>4 DEF Request

\* _onConnect on the current socket: parked requests go on the wire.
LEMMA PromotionFates ==
    ASSUME Inv, NEW s \in Sockets, NEW F \in SUBSET Callers, SocketOpens(s, F)
    PROVE  \A i \in Items : Fate(i)
<1>0. TableInv /\ CapInv /\ ControlInv /\ FreshSockets
  BY InvParts
<1> DEFINE H == AdmittedHandshakes(s)
<1>1. H \in SUBSET Handshakes /\ \A h \in H : h \in Items /\ h[2] = s
  BY <1>0, HandshakesFit DEF Items
<1>2. \A h \in H : outcome[h] = "unused"
  BY <1>0, <1>1 DEF SocketOpens, FreshSockets
<1> HIDE DEF H
<1>3. F \in SUBSET ItemsOf(pending)
  BY DEF SocketOpens
<1>4. /\ sent' = [id \in Ids |->
                    IF id \in H THEN id
                    ELSE IF pending[id] \in (ItemsOf(pending) \ F) \cup H THEN pending[id]
                    ELSE sent[id]]
      /\ owned' = [i \in Items |-> IF i \in H THEN {i} ELSE IF i \in F THEN {} ELSE owned[i]]
      /\ outcome' = [i \in Items |-> IF i \in H THEN "waiting"
                                    ELSE IF i \in F THEN "rejected" ELSE outcome[i]]
  BY DEF SocketOpens, H
<1> SUFFICES ASSUME NEW i \in Items PROVE Fate(i)
  OBVIOUS
<1>5. ASSUME i \in F PROVE outcome[i] = "waiting"
  <2>1. PICK id \in Ids : pending[id] = i
    BY <1>3, <1>5, InQueue
  <2> QED BY <2>1, <1>0 DEF TableInv, Bookkeeping
<1>6. outcome'[i] = IF i \in H THEN "waiting" ELSE IF i \in F THEN "rejected" ELSE outcome[i]
  BY <1>4
<1>7. owned'[i] = IF i \in H THEN {i} ELSE IF i \in F THEN {} ELSE owned[i]
  BY <1>4
<1>8. Table!Allowed(outcome[i], outcome'[i])
  BY <1>2, <1>5, <1>6 DEF Table!Allowed
<1>9. ASSUME i \in ItemsOf(sent) PROVE i \in ItemsOf(sent')
  <2>1. PICK id \in Ids : sent[id] = i
    BY <1>9, InQueue
  <2>2. pending[id] = NoItem
    BY <2>1, <1>0, NoItemIsNoItem DEF TableInv, OneQueuePerId
  <2>3. id \in owned[i] /\ outcome[i] = "waiting"
    BY <2>1, <1>0 DEF TableInv, Bookkeeping
  <2>4. id \notin H
    <3> SUFFICES ASSUME id \in H PROVE FALSE
      OBVIOUS
    <3>1. id \in Handshakes /\ outcome[id] = "unused"
      BY <1>1, <1>2
    <3>2. CASE i \in Callers
      BY <3>1, <3>2, <2>3, <1>0, IdsAssumption DEF TableInv, OwnIdsOnly
    <3>3. CASE i \in Handshakes
      BY <3>1, <3>3, <2>3, <1>0 DEF TableInv, OwnIdsOnly
    <3> QED BY <3>2, <3>3 DEF Items
  <2>5. pending[id] \notin (ItemsOf(pending) \ F) \cup H
    <3>1. NoItem \notin H
      BY <1>1, NoItemIsNoItem
    <3>2. NoItem \notin ItemsOf(pending)
      BY DEF ItemsOf, KeysOf
    <3> QED BY <2>2, <3>1, <3>2
  <2>6. sent'[id] = i
    BY <1>4, <2>1, <2>4, <2>5
  <2> QED BY <2>6, InQueue
<1> QED BY <1>2, <1>6, <1>7, <1>8, <1>9 DEF Fate

\* _onConnect of a replaced socket: parked requests are rejected.
LEMMA StalePromotionFates ==
    ASSUME Inv, NEW s \in Sockets, StaleSocketOpens(s)
    PROVE  \A i \in Items : Fate(i)
<1>0. TableInv /\ CapInv /\ ControlInv /\ FreshSockets
  BY InvParts
<1> DEFINE H == AdmittedHandshakes(s)
<1>1. H \in SUBSET Handshakes /\ \A h \in H : h \in Items /\ h[2] = s
  BY <1>0, HandshakesFit DEF Items
<1>2. \A h \in H : outcome[h] = "unused"
  BY <1>0, <1>1 DEF StaleSocketOpens, FreshSockets
<1> HIDE DEF H
<1>3. /\ sent' = sent
      /\ owned' = [i \in Items |-> IF i \in ItemsOf(pending) THEN {} ELSE owned[i]]
      /\ outcome' = [i \in Items |-> IF i \in H \cup ItemsOf(pending) THEN "rejected" ELSE outcome[i]]
  BY DEF StaleSocketOpens, H
<1> SUFFICES ASSUME NEW i \in Items PROVE Fate(i)
  OBVIOUS
<1>4. ASSUME i \in ItemsOf(pending) PROVE outcome[i] = "waiting"
  <2>1. PICK id \in Ids : pending[id] = i
    BY <1>4, InQueue
  <2> QED BY <2>1, <1>0 DEF TableInv, Bookkeeping
<1>5. Table!Allowed(outcome[i], outcome'[i])
  BY <1>2, <1>3, <1>4 DEF Table!Allowed
<1>6. ItemsOf(sent') = ItemsOf(sent)
  BY <1>3
<1> QED BY <1>3, <1>5, <1>6 DEF Fate

\* No step of the provider does anything else to a request.
LEMMA StepFates == Inv /\ [Next]_vars => \A i \in Items : Fate(i)
<1> SUFFICES ASSUME Inv, [Next]_vars PROVE \A i \in Items : Fate(i)
  OBVIOUS
<1>0. TableInv /\ CapInv /\ ControlInv /\ FreshSockets
  BY InvParts
<1>1. CASE UNCHANGED tableVars
  BY <1>0, <1>1, UnchangedFates
<1>2. CASE UNCHANGED vars
  BY <1>1, <1>2 DEF vars
<1>3. CASE Request \/ RequestRefused
  BY <1>0, <1>3, RequestFates
<1>4. ASSUME NEW i \in Items, RequestAborted(i)
      PROVE  \A j \in Items : Fate(j)
  <2>1. PICK id \in owned[i] : IF Lookup(id) = NoItem THEN UNCHANGED tableVars
                               ELSE Settle({Lookup(id)}, "rejected")
    BY <1>4 DEF RequestAborted
  <2>2. Lookup(id) \in Items \cup {NoItem}
    BY <1>0 DEF TableInv, Lookup
  <2>3. CASE Settle({Lookup(id)}, "rejected") /\ Lookup(id) \in Items
    BY <1>0, <2>3, SettleFates
  <2> QED BY <1>1, <2>1, <2>2, <2>3
<1>5. CASE RejectAll
  BY <1>0, <1>5, RejectAllFates
<1>6. CASE UserConnect \/ UserDisconnect \/ UserReset \/ ChunkTimeout \/ BackoffEnds \/ ConnectionTimeout
  BY <1>1, <1>5, <1>6 DEF UserConnect, UserDisconnect, UserReset, ChunkTimeout, ClearQueues,
                          BackoffEnds, ConnectionTimeout
<1>7. ASSUME NEW s \in Sockets,
             \/ SocketOpensUnheard(s) \/ SocketFails(s) \/ SocketError(s) \/ SocketClosesUnheard(s)
             \/ \E clean \in BOOLEAN : SocketCloses(s, clean)
             \/ MessagePartial(s) \/ MessageOverflows(s)
      PROVE  \A j \in Items : Fate(j)
  <2>1. UNCHANGED tableVars \/ RejectAll \/ Reconnect
    BY <1>7 DEF SocketOpensUnheard, SocketFails, SocketError, SocketClosesUnheard, SocketCloses,
                MessagePartial, MessageOverflows, ClearQueues
  <2> QED BY <1>0, <1>1, <1>5, <2>1, ReconnectFates
<1>8. ASSUME NEW s \in Sockets, NEW id \in Ids, NEW valid \in BOOLEAN, NEW tail \in BOOLEAN,
             MessageAnswers(s, id, valid, tail)
      PROVE  \A j \in Items : Fate(j)
  <2>1. CASE Answered(id) # NoItem
    <3>1. {Answered(id)} \subseteq ItemsOf(sent) /\ {Answered(id)} \in SUBSET Items
      BY <1>0, <2>1 DEF Answered, TableInv, ItemsOf, KeysOf
    <3>2. PICK how \in {"resolved", "rejected"} : Settle({Answered(id)}, how)
      BY <1>8, <2>1 DEF MessageAnswers
    <3> QED BY <1>0, <3>1, <3>2, SettleFates
  <2>2. CASE Answered(id) = NoItem
    BY <1>1, <1>8, <2>2 DEF MessageAnswers
  <2> QED BY <2>1, <2>2
<1>9. CASE SocketEvent
  BY <1>7, <1>8, <1>9, PromotionFates, StalePromotionFates DEF SocketEvent
<1> QED BY <1>2, <1>3, <1>4, <1>6, <1>9 DEF Next

-----------------------------------------------------------------------------
(* Nothing is parked behind an open socket.                                 *)

\* A step after which the current socket is not open and listened to, or nothing
\* is parked, or neither the socket nor the pending queue gained anything, parks
\* nothing behind an open socket.
LEMMA StaysUnparked ==
    ASSUME NothingParkedBehindOpenSocket,
           \/ readyState'[cur'] # "open"
           \/ ~listening'[cur']
           \/ KeysOf(pending') = {}
           \/ /\ KeysOf(pending') \subseteq KeysOf(pending)
              /\ readyState'[cur'] = "open" => readyState[cur] = "open"
              /\ listening'[cur'] => listening[cur]
    PROVE  NothingParkedBehindOpenSocket'
BY DEF NothingParkedBehindOpenSocket

\* connect() leaves the provider with a socket that is still connecting.
LEMMA ConnectNotOpen ==
    ASSUME ControlInv, NEW rs, NEW ls, Connect(rs, ls),
           rs \in [Sockets -> {"none", "connecting", "open", "closing", "closed"}]
    PROVE  readyState'[cur'] # "open"
BY BoundsAssumption DEF Connect, ControlInv, Sockets

\* NothingParkedBehindOpenSocket is inductive relative to Inv.
LEMMA NextParksNothing ==
    Inv /\ NothingParkedBehindOpenSocket /\ [Next]_vars => NothingParkedBehindOpenSocket'
<1> SUFFICES ASSUME Inv, NothingParkedBehindOpenSocket, [Next]_vars
             PROVE  NothingParkedBehindOpenSocket'
  OBVIOUS
<1>0. TableInv /\ CapInv /\ ControlInv /\ FreshSockets
  BY InvParts
<1> DEFINE Drained == KeysOf(pending') = {}
           Shrunk == KeysOf(pending') \subseteq KeysOf(pending)
           NotOpened == readyState'[cur'] = "open" => readyState[cur] = "open"
           NotHeard == listening'[cur'] => listening[cur]
<1>s. UNCHANGED tableVars => Shrunk
  BY DEF tableVars
<1>r. RejectAll => Drained
  BY <1>0, RejectAllFates
<1>1. CASE UNCHANGED vars
  <2>1. Shrunk /\ NotOpened /\ NotHeard
    BY <1>1, <1>s DEF vars, socketVars
  <2> QED BY <2>1, StaysUnparked
<1>2. ASSUME NEW i \in Callers, NEW I \in (SUBSET CallerIds) \ {{}},
             RequestParked(i, I) \/ RequestSent(i, I) \/ RequestUnsendable(i, I)
      PROVE  NothingParkedBehindOpenSocket'
  <2>1. CASE RequestParked(i, I)
    <3>1. CASE Connect(readyState, listening)
      BY <3>1, <1>0, ConnectNotOpen, StaysUnparked DEF ControlInv
    <3>2. CASE UNCHANGED socketVars
      <4>1. readyState[cur] # "open"
        BY <2>1 DEF RequestParked, Status, StatusIn
      <4> QED BY <3>2, <4>1, StaysUnparked DEF socketVars
    <3> QED BY <2>1, <3>1, <3>2 DEF RequestParked, ReconnectForRequest
  <2>2. CASE RequestSent(i, I) \/ RequestUnsendable(i, I)
    <3>1. Shrunk /\ NotOpened /\ NotHeard
      BY <2>2 DEF RequestSent, RequestUnsendable, socketVars
    <3> QED BY <3>1, StaysUnparked
  <2> QED BY <1>2, <2>1, <2>2
<1>3. CASE RequestRefused \/ UserConnect \/ BackoffEnds
  <2>1. PICK ls : Connect(readyState, ls)
    BY <1>3 DEF RequestRefused, UserConnect, BackoffEnds
  <2> QED BY <2>1, <1>0, ConnectNotOpen, StaysUnparked DEF ControlInv
<1>4. ASSUME NEW i \in Items, RequestAborted(i)
      PROVE  NothingParkedBehindOpenSocket'
  <2>1. Shrunk
    <3>1. PICK id \in owned[i] : IF Lookup(id) = NoItem THEN UNCHANGED tableVars
                                 ELSE Settle({Lookup(id)}, "rejected")
      BY <1>4 DEF RequestAborted
    <3> QED BY <3>1, <1>s, SettleParksNothing
  <2>2. NotOpened /\ NotHeard
    BY <1>4 DEF RequestAborted, socketVars
  <2> QED BY <2>1, <2>2, StaysUnparked
<1>5. CASE UserDisconnect \/ UserReset \/ ChunkTimeout
  <2>1. RejectAll
    BY <1>5 DEF UserDisconnect, UserReset, ChunkTimeout, ClearQueues
  <2> QED BY <2>1, <1>r, StaysUnparked
<1>6. CASE ConnectionTimeout
  <2>1. Shrunk \/ Drained
    BY <1>6, <1>s, <1>r DEF ConnectionTimeout
  <2>2. NotOpened /\ NotHeard
    BY <1>6 DEF ConnectionTimeout, socketVars
  <2> QED BY <2>1, <2>2, StaysUnparked
<1>7. CASE SocketEvent
  <2> SUFFICES ASSUME NEW s \in Sockets,
                      \/ SocketOpensUnheard(s)
                      \/ \E F \in SUBSET Callers : SocketOpens(s, F)
                      \/ StaleSocketOpens(s)
                      \/ SocketFails(s)
                      \/ SocketError(s)
                      \/ SocketClosesUnheard(s)
                      \/ \E clean \in BOOLEAN : SocketCloses(s, clean)
                      \/ \E id \in Ids, valid, tail \in BOOLEAN : MessageAnswers(s, id, valid, tail)
                      \/ MessagePartial(s)
                      \/ MessageOverflows(s)
               PROVE  NothingParkedBehindOpenSocket'
    BY <1>7 DEF SocketEvent
  <2>1. CASE SocketOpensUnheard(s)
    <3>1. Shrunk /\ NotHeard
      BY <2>1, <1>s DEF SocketOpensUnheard
    <3>2. NotOpened \/ ~listening'[cur']
      BY <2>1, <1>0 DEF SocketOpensUnheard, ControlInv
    <3> QED BY <3>1, <3>2, StaysUnparked
  <2>2. CASE SocketFails(s) \/ SocketError(s) \/ SocketClosesUnheard(s)
    <3>1. Shrunk /\ NotHeard
      BY <2>2, <1>s DEF SocketFails, SocketError, SocketClosesUnheard
    <3>2. NotOpened
      BY <2>2, <1>0 DEF SocketFails, SocketError, SocketClosesUnheard, ControlInv
    <3> QED BY <3>1, <3>2, StaysUnparked
  <2>3. CASE (\E F \in SUBSET Callers : SocketOpens(s, F)) \/ StaleSocketOpens(s)
    <3>1. pending' = [id \in Ids |-> NoItem]
      BY <2>3 DEF SocketOpens, StaleSocketOpens
    <3>2. Drained
      BY <3>1 DEF KeysOf
    <3> QED BY <3>2, StaysUnparked
  <2>4. ASSUME NEW clean \in BOOLEAN, SocketCloses(s, clean)
        PROVE  NothingParkedBehindOpenSocket'
    <3>1. CASE RejectAll
      BY <3>1, <1>r, StaysUnparked
    <3>2. CASE Reconnect
      <4>1. NotOpened
        BY <2>4, <1>0 DEF SocketCloses, ControlInv
      <4>2. Shrunk /\ NotHeard
        BY <2>4, <3>2, <1>0, ReconnectFates DEF SocketCloses, ControlInv
      <4> QED BY <4>1, <4>2, StaysUnparked
    <3> QED BY <2>4, <3>1, <3>2 DEF SocketCloses, ClearQueues
  <2>5. ASSUME NEW id \in Ids, NEW valid \in BOOLEAN, NEW tail \in BOOLEAN,
               MessageAnswers(s, id, valid, tail)
        PROVE  NothingParkedBehindOpenSocket'
    <3>1. Shrunk
      BY <2>5, <1>s, SettleParksNothing DEF MessageAnswers
    <3>2. NotOpened /\ NotHeard
      BY <2>5 DEF MessageAnswers, socketVars
    <3> QED BY <3>1, <3>2, StaysUnparked
  <2>6. CASE MessagePartial(s)
    <3>1. NotOpened
      BY <2>6 DEF MessagePartial, socketVars
    <3>2. Shrunk /\ NotHeard
      <4>1. CASE Reconnect
        BY <2>6, <4>1, <1>0, ReconnectFates DEF MessagePartial, socketVars, ControlInv
      <4>2. CASE UNCHANGED <<timerVars, listening, tableVars>>
        BY <2>6, <4>2, <1>s DEF MessagePartial, socketVars
      <4> QED BY <2>6, <4>1, <4>2 DEF MessagePartial
    <3> QED BY <3>1, <3>2, StaysUnparked
  <2>7. CASE MessageOverflows(s)
    BY <2>7, <1>r, StaysUnparked DEF MessageOverflows, ClearQueues
  <2> QED BY <2>1, <2>2, <2>3, <2>4, <2>5, <2>6, <2>7
<1> QED BY <1>1, <1>2, <1>3, <1>4, <1>5, <1>6, <1>7 DEF Next, Request

-----------------------------------------------------------------------------
(* The abstract table.                                                      *)

\* The abstract holder of an id is the request that owns it.
LEMMA HolderOwns ==
    ASSUME TableInv, NEW id \in Ids, NEW i \in Items
    PROVE  Lookup(id) = i <=> id \in owned[i]
BY NoItemIsNoItem DEF Lookup, TableInv, Bookkeeping, OneQueuePerId

\* The instance of RequestTable brings its own copy of Cardinality.
LEMMA TableCardinality == ASSUME NEW S PROVE Table!Cardinality(S) = Cardinality(S)
BY DEF Table!Cardinality, Table!IsFiniteSet, Cardinality, IsFiniteSet

\* The ids somebody holds are those of the two queues, so no more than the cap.
LEMMA HeldWithinCap ==
    ASSUME TableInv, CapInv
    PROVE  Cardinality(Table!HeldIds) <= MaxInFlight
<1>1. Table!HeldIds \subseteq KeysOf(pending) \cup KeysOf(sent)
  BY DEF Table!HeldIds, Lookup, KeysOf
<1>2. /\ IsFiniteSet(KeysOf(pending)) /\ Cardinality(KeysOf(pending)) \in Nat
      /\ IsFiniteSet(KeysOf(sent)) /\ Cardinality(KeysOf(sent)) \in Nat
  BY KeysFinite
<1>3. /\ IsFiniteSet(KeysOf(pending) \cup KeysOf(sent))
      /\ Cardinality(KeysOf(pending) \cup KeysOf(sent))
           = Cardinality(KeysOf(pending)) + Cardinality(KeysOf(sent))
             - Cardinality(KeysOf(pending) \cap KeysOf(sent))
  BY <1>2, FS_Union
<1>4. Cardinality(KeysOf(pending) \cap KeysOf(sent)) \in Nat
  BY <1>2, FS_Intersection, FS_CardinalityType
<1>5. /\ Cardinality(Table!HeldIds) \in Nat
      /\ Cardinality(Table!HeldIds) <= Cardinality(KeysOf(pending) \cup KeysOf(sent))
  BY <1>1, <1>3, FS_Subset, FS_CardinalityType
<1> QED BY <1>2, <1>3, <1>4, <1>5, BoundsAssumption DEF CapInv, InFlightWithinCap, InFlight

\* Every step of the provider, a step that changes nothing included, is a step of
\* the abstract table.
LEMMA StepOfTable ==
    ASSUME Inv, Inv', [Next]_vars
    PROVE  Table!Next
<1>1. TableInv /\ TableInv' /\ CapInv'
  BY InvParts
<1>2. \A i \in Items : Fate(i)
  BY StepFates
<1>3. outcome' \in [Items -> {"unused", "waiting", "resolved", "rejected"}]
  BY <1>1 DEF TableInv, Outcomes
<1>4. [id \in Ids |-> Lookup(id)]' \in [Ids -> Items \cup {NoItem}]
  BY <1>1 DEF TableInv, Lookup
<1>5. \A i \in Items : Table!Allowed(outcome[i], outcome'[i])
  BY <1>2 DEF Fate
<1>6. \A id \in Ids, i \in Items : Lookup(id)' = i <=> id \in owned'[i]
  BY <1>1, NoItemIsNoItem DEF Lookup, TableInv, Bookkeeping, OneQueuePerId
<1>7. ASSUME NEW id \in Ids, Lookup(id)' # Lookup(id)
      PROVE  /\ Lookup(id) # NoItem => outcome'[Lookup(id)] # "waiting"
             /\ Lookup(id)' # NoItem => outcome[Lookup(id)'] = "unused"
  <2>1. ASSUME NEW i \in Items, Lookup(id) = i PROVE outcome'[i] # "waiting"
    <3>1. id \in owned[i] /\ id \notin owned'[i]
      BY <2>1, <1>1, <1>6, <1>7, HolderOwns
    <3>2. outcome[i] # "unused"
      BY <3>1, <1>1 DEF TableInv, Bookkeeping
    <3>3. owned'[i] = {}
      BY <3>1, <3>2, <1>2 DEF Fate
    <3> QED BY <3>3, <1>1 DEF TableInv, Bookkeeping
  <2>2. ASSUME NEW i \in Items, Lookup(id)' = i PROVE outcome[i] = "unused"
    <3>1. id \in owned'[i] /\ id \notin owned[i]
      BY <2>2, <1>1, <1>6, <1>7, HolderOwns
    <3> QED BY <3>1, <1>2 DEF Fate
  <2>3. Lookup(id) \in Items \cup {NoItem} /\ Lookup(id)' \in Items \cup {NoItem}
    BY <1>1 DEF TableInv, Lookup
  <2> QED BY <2>1, <2>2, <2>3
<1>8. \A i \in Items : outcome'[i] = "waiting" <=> \E id \in Ids : Lookup(id)' = i
  <2>1. \A i \in Items : outcome'[i] = "waiting" <=> owned'[i] # {}
    BY <1>1 DEF TableInv, Bookkeeping
  <2>2. \A i \in Items : owned'[i] \subseteq Ids
    BY <1>1 DEF TableInv
  <2> QED BY <2>1, <2>2, <1>6
<1>9. Table!Cardinality(Table!HeldIds') <= MaxInFlight
  <2>1. (TableInv /\ CapInv => Cardinality(Table!HeldIds) <= MaxInFlight)'
    BY HeldWithinCap, PTL
  <2> QED BY <1>1, <2>1, TableCardinality
<1> QED BY <1>3, <1>4, <1>5, <1>7, <1>8, <1>9 DEF Table!Next

-----------------------------------------------------------------------------
(* The theorems.                                                            *)

\* Inv is inductive.
LEMMA NextKeepsInv == Inv /\ [Next]_vars => Inv'
<1> SUFFICES ASSUME Inv, [Next]_vars PROVE Inv'
  OBVIOUS
<1>1. CASE UNCHANGED vars
  <2>1. TableInv /\ CapInv /\ ControlInv /\ FreshSockets
    BY InvParts
  <2>2. UNCHANGED tableVars /\ UNCHANGED <<socketVars, listening, timerVars, parserVars>>
    BY <1>1 DEF vars
  <2>3. TableInv' /\ CapInv'
    BY <2>1, <2>2, TableUnchanged
  <2>4. ControlInv'
    BY <2>1, <2>2 DEF ControlInv, socketVars, timerVars, parserVars
  <2>5. FreshSockets'
    BY <2>1, <2>2 DEF FreshSockets, socketVars, tableVars
  <2> QED BY <2>3, <2>4, <2>5, InvParts
<1>2. CASE Next
  BY <1>2, RequestStep, CallStep, SocketStep, TimerStep DEF Next
<1> QED BY <1>1, <1>2

\* In every behaviour of the provider the inductive invariant holds.
THEOREM InvHolds == Spec => []Inv
<1>1. Init => Inv
  BY InitEstablishesInv
<1>2. Inv /\ [Next]_vars => Inv'
  BY NextKeepsInv
<1> QED BY <1>1, <1>2, PTL DEF Spec

\* The variables keep their types: in particular the reconnection counter never
\* exceeds maxAttempts.
THEOREM TypeCorrect == Spec => []TypeOK
<1>1. Inv => TypeOK
  BY DEF Inv
<1> QED BY <1>1, InvHolds, PTL

\* _settleRequest is the single cleanup primitive: no stale map entry and no stale
\* deadline in any reachable state, for any number of requests, ids and sockets.
THEOREM BookkeepingHolds == Spec => []Bookkeeping
<1>1. Inv => Bookkeeping
  BY DEF Inv
<1> QED BY <1>1, InvHolds, PTL

\* The ids of a batch are always together in one queue.
THEOREM BatchesMoveTogether == Spec => []BatchMovesTogether
<1>1. Inv => BatchMovesTogether
  BY DEF Inv
<1> QED BY <1>1, InvHolds, PTL

\* maxInFlightRequests is never exceeded.
THEOREM CapHolds == Spec => []InFlightWithinCap
<1>1. Inv => InFlightWithinCap
  BY DEF Inv
<1> QED BY <1>1, InvHolds, PTL

\* No request is lost between the queues (socket_provider.ts:802, :853): none is
\* parked behind an open socket that is listened to, only a request on the wire is
\* resolved, and it leaves the wire only by being settled.
THEOREM NoneForgottenHolds == Spec => NoneForgotten
<1>1. Init => NothingParkedBehindOpenSocket
  BY DEF Init, NothingParkedBehindOpenSocket, KeysOf
<1>2. Inv /\ NothingParkedBehindOpenSocket /\ [Next]_vars => NothingParkedBehindOpenSocket'
  BY NextParksNothing
<1>3. Inv /\ [Next]_vars =>
        [\A i \in Items :
            /\ outcome[i] # "resolved" /\ outcome'[i] = "resolved" => i \in ItemsOf(sent)
            /\ i \in ItemsOf(sent) => i \in ItemsOf(sent') \/ outcome'[i] # "waiting"]_vars
  BY StepFates DEF Fate
<1> QED BY <1>1, <1>2, <1>3, InvHolds, PTL DEF Spec, NoneForgotten, SentUntilSettled

\* The two queues, their promotions, releases and teardowns implement the abstract
\* table: every step of the provider maps to a step of it or to a stutter
\* (_settleRequest: "every terminal path for a request goes through here").
THEOREM TableImplemented == Spec => ImplementsRequestTable
<1>1. Init => Table!Init
  BY DEF Init, Table!Init, Lookup
<1>2. Inv /\ Inv' /\ [Next]_vars => [Table!Next]_<<[id \in Ids |-> Lookup(id)], outcome>>
  BY StepOfTable
<1> QED BY <1>1, <1>2, InvHolds, PTL DEF Spec, ImplementsRequestTable, Table!Spec

=============================================================================
