------------------------ MODULE OverlayLoaderProofs ------------------------
(***************************************************************************)
(* The safety of the self-heal loader for any sets of functions and any     *)
(* contents: types, the ownership of requests, the exclusive fates, the     *)
(* exact counter and the wake-up of a sleeping worker are one inductive     *)
(* invariant, and with it every step of the loader is a step of its life    *)
(* cycle specification.                                                     *)
(***************************************************************************)
EXTENDS OverlayLoader, TLAPS

\* The worker is about to block only over an empty queue: an item cannot be
\* pushed while it holds the mutex.  This is what the notification rests on.
BlockingSeesEmpty == wpc = "blocking" => work = <<>>

\* The game thread serves no guest code once it has stored the stop flag.
StopEndsService == stop => gpc \in {"stopping", "joining", "stopped"}

Inv == /\ TypeOK
       /\ InflightOwnedOnce
       /\ FatesExclusive
       /\ PendingCountsReady
       /\ SleeperIsNotified
       /\ BlockingSeesEmpty
       /\ StopEndsService

-----------------------------------------------------------------------------
\* What appending to and taking from a queue does to its set of keys.

LEMMA AppendKeys ==
  ASSUME NEW S, NEW q \in Seq(S), NEW e \in S
  PROVE  /\ KeysOf(Append(q, e)) = KeysOf(q) \cup {e.key}
         /\ Distinct(q) /\ e.key \notin KeysOf(q) => Distinct(Append(q, e))
<1>1. /\ DOMAIN Append(q, e) = 1..Len(q) + 1 /\ DOMAIN q = 1..Len(q) /\ Len(q) \in Nat
      /\ \A i \in 1..Len(q) : Append(q, e)[i] = q[i]
      /\ Append(q, e)[Len(q) + 1] = e
  OBVIOUS
<1>2. KeysOf(Append(q, e)) = KeysOf(q) \cup {e.key}
  <2>1. ASSUME NEW x \in KeysOf(Append(q, e)) PROVE x \in KeysOf(q) \cup {e.key}
    <3>1. PICK i \in 1..Len(q) + 1 : x = Append(q, e)[i].key
      BY <1>1, <2>1 DEF KeysOf
    <3>2. CASE i = Len(q) + 1
      BY <1>1, <3>1, <3>2
    <3>3. CASE i \in 1..Len(q)
      BY <1>1, <3>1, <3>3 DEF KeysOf
    <3> QED BY <1>1, <3>1, <3>2, <3>3
  <2>2. ASSUME NEW x \in KeysOf(q) PROVE x \in KeysOf(Append(q, e))
    <3>1. PICK i \in 1..Len(q) : x = q[i].key
      BY <1>1, <2>2 DEF KeysOf
    <3> QED BY <1>1, <3>1 DEF KeysOf
  <2>3. e.key \in KeysOf(Append(q, e))
    BY <1>1 DEF KeysOf
  <2> QED BY <2>1, <2>2, <2>3
<1>3. ASSUME Distinct(q), e.key \notin KeysOf(q) PROVE Distinct(Append(q, e))
  BY <1>1, <1>3 DEF Distinct, KeysOf
<1> QED BY <1>2, <1>3

LEMMA TakeKeys ==
  ASSUME NEW S, NEW q \in Seq(S), q # <<>>, Distinct(q)
  PROVE  /\ Head(q) \in S /\ Tail(q) \in Seq(S)
         /\ KeysOf(Tail(q)) = KeysOf(q) \ {Head(q).key}
         /\ Head(q).key \in KeysOf(q)
         /\ Distinct(Tail(q))
<1>1. /\ Len(q) \in Nat /\ Len(q) # 0 /\ DOMAIN q = 1..Len(q)
      /\ Head(q) = q[1] /\ Head(q) \in S /\ Tail(q) \in Seq(S)
      /\ DOMAIN Tail(q) = 1..Len(q) - 1
      /\ \A i \in 1..Len(q) - 1 : Tail(q)[i] = q[i + 1]
  OBVIOUS
<1>2. Head(q).key \in KeysOf(q)
  BY <1>1 DEF KeysOf
<1>3. ASSUME NEW x \in KeysOf(Tail(q)) PROVE x \in KeysOf(q) \ {Head(q).key}
  <2>1. PICK i \in 1..Len(q) - 1 : x = Tail(q)[i].key
    BY <1>1, <1>3 DEF KeysOf
  <2>2. i + 1 \in 1..Len(q) /\ x = q[i + 1].key /\ i + 1 # 1
    BY <1>1, <2>1
  <2> QED BY <1>1, <2>2 DEF KeysOf, Distinct
<1>4. ASSUME NEW x \in KeysOf(q) \ {Head(q).key} PROVE x \in KeysOf(Tail(q))
  <2>1. PICK i \in 1..Len(q) : x = q[i].key
    BY <1>1, <1>4 DEF KeysOf
  <2>2. i # 1
    BY <1>1, <1>4, <2>1
  <2>3. i - 1 \in 1..Len(q) - 1 /\ Tail(q)[i - 1] = q[i]
    BY <1>1, <2>1, <2>2
  <2> QED BY <1>1, <2>1, <2>3 DEF KeysOf
<1>5. Distinct(Tail(q))
  BY <1>1 DEF Distinct
<1> QED BY <1>1, <1>2, <1>3, <1>4, <1>5

-----------------------------------------------------------------------------
\* Types

LEMMA InitType == Init => TypeOK
<1> SUFFICES ASSUME Init PROVE TypeOK
  OBVIOUS
<1>1. healed \in [Keys -> Codes \cup {None}]
  <2>1. PICK warm \in SUBSET RomKeys :
          healed = [k \in Keys |-> IF k \in warm THEN image[k] ELSE None]
    BY DEF Init
  <2> QED BY <2>1 DEF Init
<1>2. env.on \in BOOLEAN /\ env.strict \in BOOLEAN
  BY DEF Init, Env
<1>3. active \in BOOLEAN
  BY <1>2 DEF Init, Enabled
<1>4. wpc \in {"none", "lock"}
  BY DEF Init
<1>5. work \in Seq(Item) /\ ready \in Seq(Result)
  BY DEF Init
<1> QED BY <1>1, <1>3, <1>4, <1>5 DEF Init, TypeOK, GamePC, WorkerPC, Ran

\* Draining keeps the types of what it touches.
LEMMA DrainedType ==
  ASSUME TypeOK, Drained
  PROVE  /\ inflight' \in SUBSET Keys /\ failed' \in SUBSET Keys
         /\ healed' \in [Keys -> Codes \cup {None}]
         /\ ready' \in Seq(Result) /\ pending' \in Nat
<1> DEFINE good(k) == \E i \in DOMAIN ready : ready[i].key = k /\ ready[i].ok
           code(k) == ready[CHOOSE i \in DOMAIN ready : ready[i].key = k /\ ready[i].ok].code
<1>1. \A i \in DOMAIN ready : ready[i] \in Result
  BY DEF TypeOK
<1>2. \A k \in Keys : good(k) => code(k) \in Codes
  BY <1>1 DEF Result
<1>3. healed' = [k \in Keys |-> IF good(k) THEN code(k) ELSE healed[k]]
  BY DEF Drained
<1>4. healed' \in [Keys -> Codes \cup {None}]
  BY <1>2, <1>3 DEF TypeOK
<1> QED BY <1>4 DEF Drained, TypeOK

LEMMA NextType == TypeOK /\ [Next]_vars => TypeOK'
<1> SUFFICES ASSUME TypeOK, [Next]_vars PROVE TypeOK'
  OBVIOUS
<1> USE DEF TypeOK, gameVars, queueVars, workerVars, guestVars, GamePC, WorkerPC, Ran
<1>1. ASSUME NEW k \in Keys, DispatchNative(k) PROVE TypeOK'
  BY <1>1 DEF DispatchNative
<1>2. ASSUME NEW k \in Keys, Miss(k) PROVE TypeOK'
  <2>1. CASE MissStrict(k)   BY <2>1 DEF MissStrict
  <2>2. CASE MissBridged(k)  BY <2>2 DEF MissBridged
  <2>3. CASE MissNoRegion(k) BY <2>3 DEF MissNoRegion
  <2>4. CASE MissSync(k)     BY <2>4 DEF MissSync
  <2>5. CASE MissEnqueue(k)
    <3>1. [key |-> k, code |-> image[k]] \in Item
      BY DEF Item
    <3>2. work' \in Seq(Item)
      BY <2>5, <3>1 DEF MissEnqueue
    <3> QED BY <2>5, <3>2 DEF MissEnqueue
  <2> QED BY <1>2, <2>1, <2>2, <2>3, <2>4, <2>5 DEF Miss
<1>3. ASSUME NEW k \in RamKeys, GuestWrite(k) PROVE TypeOK'
  BY <1>3 DEF GuestWrite
<1>4. CASE NotifyOne
  BY <1>4 DEF NotifyOne, Woken
<1>5. CASE DrainTest
  BY <1>5 DEF DrainTest
<1>6. CASE DrainSwap
  <2>1. Drained
    BY <1>6 DEF DrainSwap
  <2> HIDE DEF TypeOK
  <2>2. /\ inflight' \in SUBSET Keys /\ failed' \in SUBSET Keys
        /\ healed' \in [Keys -> Codes \cup {None}]
        /\ ready' \in Seq(Result) /\ pending' \in Nat
    BY <2>1, DrainedType
  <2> QED BY <1>6, <2>2 DEF DrainSwap, TypeOK
<1>7. CASE StoreStop
  BY <1>7 DEF StoreStop
<1>8. CASE NotifyAll
  BY <1>8 DEF NotifyAll, Woken
<1>9. CASE JoinAndDrain
  <2>1. CASE pending = 0
    BY <1>9, <2>1 DEF JoinAndDrain
  <2>2. CASE pending # 0
    <3>1. Drained
      BY <1>9, <2>2 DEF JoinAndDrain
    <3> HIDE DEF TypeOK
    <3>2. /\ inflight' \in SUBSET Keys /\ failed' \in SUBSET Keys
          /\ healed' \in [Keys -> Codes \cup {None}]
          /\ ready' \in Seq(Result) /\ pending' \in Nat
      BY <3>1, DrainedType
    <3> QED BY <1>9, <3>2 DEF JoinAndDrain, TypeOK
  <2> QED BY <2>1, <2>2
<1>10. CASE WorkerExit
  BY <1>10 DEF WorkerExit
<1>11. CASE WorkerTake
  <2>1. Head(work) \in Item /\ Tail(work) \in Seq(Item)
    BY <1>11 DEF WorkerTake
  <2> QED BY <1>11, <2>1 DEF WorkerTake
<1>12. CASE WorkerTestFails
  BY <1>12 DEF WorkerTestFails
<1>13. CASE WorkerBlock
  BY <1>13 DEF WorkerBlock
<1>14. CASE WorkerCompile
  <2>1. item' \in Result
    BY <1>14 DEF WorkerCompile, Item, Result
  <2> QED BY <1>14, <2>1 DEF WorkerCompile
<1>15. CASE WorkerPush
  <2>1. Append(ready, item) \in Seq(Result)
    BY <1>15 DEF WorkerPush
  <2> QED BY <1>15, <2>1 DEF WorkerPush
<1>16. CASE SpuriousWake
  BY <1>16 DEF SpuriousWake
<1>17. CASE UNCHANGED vars
  BY <1>17 DEF vars
<1> QED
  BY <1>1, <1>2, <1>3, <1>4, <1>5, <1>6, <1>7, <1>8, <1>9, <1>10, <1>11, <1>12, <1>13,
     <1>14, <1>15, <1>16, <1>17 DEF Next, GameNext, WorkerStep, Ended

\* The two queues, the worker's hands and both threads' positions keep their
\* types, for any sets of functions (overlay_loader.cpp:109-123).
THEOREM TypeCorrect == Spec => []TypeOK
<1> QED BY InitType, NextType, PTL DEF Spec

-----------------------------------------------------------------------------
\* The ownership of requests, the fates, the counter and the sleeper

LEMMA InitInv == Init => Inv
<1> SUFFICES ASSUME Init PROVE Inv
  OBVIOUS
<1>1. KeysOf(work) = {} /\ KeysOf(ready) = {} /\ InHand = {}
  BY DEF Init, KeysOf, InHand
<1>2. Distinct(work) /\ Distinct(ready)
  BY DEF Init, Distinct
<1>3. Len(ready) = 0
  BY DEF Init
<1> QED
  BY InitType, <1>1, <1>2, <1>3
  DEF Init, Inv, InflightOwnedOnce, FatesExclusive, PendingCountsReady,
      SleeperIsNotified, BlockingSeesEmpty, StopEndsService

\* A step that moves no request keeps who owns what, and one that settles
\* nothing keeps the fates too.
LEMMA NothingChangesHands ==
  ASSUME Inv, UNCHANGED <<inflight, work, ready, pending, wpc, item>>
  PROVE  InflightOwnedOnce' /\ PendingCountsReady'
BY DEF Inv, InflightOwnedOnce, PendingCountsReady, InHand

LEMMA NothingMoves ==
  ASSUME Inv, UNCHANGED <<healed, inflight, failed, work, ready, pending>>, InHand' = InHand
  PROVE  InflightOwnedOnce' /\ FatesExclusive' /\ PendingCountsReady'
BY DEF Inv, InflightOwnedOnce, FatesExclusive, PendingCountsReady, Native

\* What a drain of the ready queue does: its keys leave the flight, and each is
\* installed or refused, not both.
LEMMA DrainedSettles ==
  ASSUME Inv, Drained
  PROVE  /\ inflight' = inflight \ KeysOf(ready)
         /\ failed' \subseteq failed \cup KeysOf(ready)
         /\ \A k \in Keys : healed'[k] # healed[k] => k \in KeysOf(ready) /\ k \notin failed'
         /\ \A k \in KeysOf(ready) : k \in failed' <=> ~Native(k)'
         /\ KeysOf(ready)' = {} /\ Distinct(ready)' /\ PendingCountsReady'
<1> DEFINE good(k) == \E i \in DOMAIN ready : ready[i].key = k /\ ready[i].ok
           bad(k)  == \E i \in DOMAIN ready : ready[i].key = k /\ ~ready[i].ok
           code(k) == ready[CHOOSE i \in DOMAIN ready : ready[i].key = k /\ ready[i].ok].code
<1>1. /\ \A i \in DOMAIN ready : ready[i] \in Result
      /\ healed \in [Keys -> Codes \cup {None}]
      /\ KeysOf(ready) \subseteq inflight /\ Distinct(ready)
      /\ \A k \in inflight : k \notin failed /\ ~Native(k)
      /\ inflight \subseteq Keys
  BY DEF Inv, TypeOK, InflightOwnedOnce, FatesExclusive
<1>2. /\ healed' = [k \in Keys |-> IF good(k) THEN code(k) ELSE healed[k]]
      /\ failed' = failed \cup {k \in Keys : bad(k)}
      /\ inflight' = inflight \ KeysOf(ready)
      /\ ready' = <<>> /\ pending' = 0
  BY DEF Drained
<1>3. \A k \in Keys : good(k) => code(k) \in Codes /\ k \in KeysOf(ready)
  BY <1>1 DEF Result, KeysOf
<1>4. \A k \in Keys : bad(k) => k \in KeysOf(ready)
  BY DEF KeysOf
<1>5. \A k \in Keys : ~(good(k) /\ bad(k))
  BY <1>1 DEF Distinct
<1>6. \A k \in KeysOf(ready) : good(k) \/ bad(k)
  BY DEF KeysOf
<1>7. \A k \in Keys : healed'[k] # healed[k] => k \in KeysOf(ready) /\ k \notin failed'
  BY <1>1, <1>2, <1>3, <1>5
<1>8. ASSUME NEW k \in KeysOf(ready) PROVE k \in failed' <=> ~Native(k)'
  <2>1. k \in Keys /\ k \notin failed /\ healed[k] = None
    BY <1>1 DEF Native
  <2>2. k \in failed' <=> bad(k)
    BY <1>2, <2>1
  <2>3. healed'[k] # None <=> good(k)
    BY <1>2, <1>3, <2>1, NoneIsNotCode
  <2> QED BY <1>5, <1>6, <2>1, <2>2, <2>3 DEF Native
<1>9. KeysOf(ready)' = {} /\ Distinct(ready)' /\ PendingCountsReady'
  BY <1>2 DEF KeysOf, Distinct, PendingCountsReady
<1> QED BY <1>2, <1>4, <1>7, <1>8, <1>9

LEMMA DrainedKeeps ==
  ASSUME Inv, Drained, UNCHANGED work, InHand' = InHand
  PROVE  InflightOwnedOnce' /\ FatesExclusive' /\ PendingCountsReady'
<1>1. InflightOwnedOnce'
  <2>1. KeysOf(work)' = KeysOf(work) /\ Distinct(work)'
    BY DEF Inv, InflightOwnedOnce, KeysOf, Distinct
  <2> QED BY <2>1, DrainedSettles DEF Inv, InflightOwnedOnce
<1>2. FatesExclusive'
  <2>1. ASSUME NEW k \in inflight' PROVE k \notin failed' /\ ~Native(k)'
    <3>1. k \in inflight /\ k \notin KeysOf(ready) /\ k \in Keys
      BY <2>1, DrainedSettles DEF Inv, TypeOK
    <3>2. k \notin failed /\ ~Native(k)
      BY <3>1 DEF Inv, FatesExclusive
    <3> QED BY <3>1, <3>2, DrainedSettles DEF Native
  <2>2. ASSUME NEW k \in failed' PROVE ~Native(k)'
    <3>1. CASE k \in KeysOf(ready)
      BY <2>2, <3>1, DrainedSettles
    <3>2. CASE k \notin KeysOf(ready)
      <4>1. k \in failed /\ k \in Keys /\ ~Native(k)
        BY <2>2, <3>2, DrainedSettles DEF Inv, TypeOK, FatesExclusive
      <4> QED BY <3>2, <4>1, DrainedSettles DEF Native
    <3> QED BY <3>1, <3>2
  <2> QED BY <2>1, <2>2 DEF FatesExclusive
<1> QED BY <1>1, <1>2, DrainedSettles

LEMMA NextService == Inv /\ [Next]_vars => StopEndsService'
<1> SUFFICES ASSUME Inv, [Next]_vars PROVE StopEndsService'
  OBVIOUS
<1> USE DEF Inv, StopEndsService, gameVars, queueVars, workerVars, guestVars
<1>1. ASSUME GameNext PROVE StopEndsService'
  <2>1. ASSUME NEW k \in Keys, DispatchNative(k) \/ Miss(k) PROVE StopEndsService'
    BY <2>1 DEF DispatchNative, Miss, MissStrict, MissBridged, MissNoRegion, MissSync,
                MissEnqueue, FirstMiss
  <2>2. ASSUME NEW k \in RamKeys, GuestWrite(k) PROVE StopEndsService'
    BY <2>2 DEF GuestWrite
  <2>3. CASE NotifyOne \/ DrainTest \/ DrainSwap
    BY <2>3 DEF NotifyOne, DrainTest, DrainSwap
  <2>4. CASE StoreStop \/ NotifyAll \/ JoinAndDrain
    BY <2>4 DEF StoreStop, NotifyAll, JoinAndDrain
  <2> QED BY <1>1, <2>1, <2>2, <2>3, <2>4 DEF GameNext
<1>2. CASE WorkerStep \/ SpuriousWake
  BY <1>2 DEF WorkerStep, WorkerExit, WorkerTake, WorkerTestFails, WorkerBlock,
              WorkerCompile, WorkerPush, SpuriousWake
<1>3. CASE UNCHANGED vars
  BY <1>3 DEF vars
<1> QED BY <1>1, <1>2, <1>3 DEF Next, Ended

LEMMA NextInv == Inv /\ [Next]_vars => Inv'
<1> SUFFICES ASSUME Inv, [Next]_vars PROVE Inv'
  OBVIOUS
<1> DEFINE Requests == InflightOwnedOnce' /\ FatesExclusive' /\ PendingCountsReady'
           Sleeper  == SleeperIsNotified' /\ BlockingSeesEmpty'
<1>t. TypeOK' /\ StopEndsService'
  BY NextType, NextService DEF Inv
<1> SUFFICES Requests /\ Sleeper
  BY <1>t DEF Inv
<1> USE DEF gameVars, queueVars, workerVars, guestVars
<1>1. ASSUME NEW k \in Keys, DispatchNative(k) PROVE Requests /\ Sleeper
  <2>1. Requests  BY <1>1, NothingMoves DEF DispatchNative, InHand
  <2>2. Sleeper   BY <1>1 DEF DispatchNative, Inv, SleeperIsNotified, BlockingSeesEmpty
  <2> QED BY <2>1, <2>2
<1>2. ASSUME NEW k \in Keys, Miss(k) PROVE Requests /\ Sleeper
  <2>1. CASE MissStrict(k)
    <3>1. Requests  BY <2>1, NothingMoves DEF MissStrict, InHand
    <3>2. Sleeper   BY <2>1 DEF MissStrict, Inv, SleeperIsNotified, BlockingSeesEmpty
    <3> QED BY <3>1, <3>2
  <2>2. CASE MissBridged(k)
    <3>1. Requests  BY <2>2, NothingMoves DEF MissBridged, InHand
    <3>2. Sleeper   BY <2>2 DEF MissBridged, Inv, SleeperIsNotified, BlockingSeesEmpty
    <3> QED BY <3>1, <3>2
  <2>3. CASE MissNoRegion(k)
    <3>1. Requests
      <4>1. FirstMiss(k) /\ failed' = failed \cup {k}
            /\ UNCHANGED <<healed, inflight, work, ready, pending, wpc, item>>
        BY <2>3 DEF MissNoRegion
      <4>2. InflightOwnedOnce' /\ PendingCountsReady'
        BY <4>1, NothingChangesHands
      <4>3. FatesExclusive'
        BY <4>1 DEF Inv, FatesExclusive, FirstMiss, Native
      <4> QED BY <4>2, <4>3
    <3>2. Sleeper   BY <2>3 DEF MissNoRegion, Inv, SleeperIsNotified, BlockingSeesEmpty
    <3> QED BY <3>1, <3>2
  <2>4. CASE MissSync(k)
    <3>1. FirstMiss(k) /\ UNCHANGED <<inflight, work, ready, pending, wpc, item, gpc>>
      BY <2>4 DEF MissSync
    <3>2. \/ healed' = [healed EXCEPT ![k] = image[k]] /\ UNCHANGED failed
          \/ failed' = failed \cup {k} /\ UNCHANGED healed
      BY <2>4 DEF MissSync
    <3>3. InflightOwnedOnce' /\ PendingCountsReady'
      BY <3>1, NothingChangesHands
    <3>4. FatesExclusive'
      BY <3>1, <3>2 DEF Inv, TypeOK, FatesExclusive, FirstMiss, Native
    <3>5. Sleeper   BY <3>1 DEF Inv, SleeperIsNotified, BlockingSeesEmpty
    <3> QED BY <3>3, <3>4, <3>5
  <2>5. CASE MissEnqueue(k)
    <3> DEFINE e == [key |-> k, code |-> image[k]]
    <3>1. /\ FirstMiss(k) /\ wpc # "blocking" /\ gpc' = "notify"
          /\ inflight' = inflight \cup {k} /\ work' = Append(work, e)
          /\ UNCHANGED <<healed, failed, ready, pending, wpc, item>>
      BY <2>5 DEF MissEnqueue
    <3>2. e \in Item /\ e.key = k /\ work \in Seq(Item)
      BY DEF Inv, TypeOK, Item
    <3>3. k \notin inflight /\ k \notin failed /\ ~Native(k)
      BY <3>1 DEF FirstMiss
    <3>4. KeysOf(work') = KeysOf(work) \cup {k} /\ Distinct(work')
      BY <3>1, <3>2, <3>3, AppendKeys DEF Inv, InflightOwnedOnce
    <3>5. InHand' = InHand /\ KeysOf(ready') = KeysOf(ready) /\ Distinct(ready')
      BY <3>1 DEF InHand, Inv, InflightOwnedOnce
    <3>6. InflightOwnedOnce'
      BY <3>1, <3>3, <3>4, <3>5 DEF Inv, InflightOwnedOnce
    <3>7. FatesExclusive' /\ PendingCountsReady'
      BY <3>1, <3>3 DEF Inv, FatesExclusive, Native, PendingCountsReady
    <3>8. Sleeper
      BY <3>1 DEF SleeperIsNotified, BlockingSeesEmpty
    <3> QED BY <3>6, <3>7, <3>8
  <2> QED BY <1>2, <2>1, <2>2, <2>3, <2>4, <2>5 DEF Miss
<1>3. ASSUME NEW k \in RamKeys, GuestWrite(k) PROVE Requests /\ Sleeper
  <2>1. Requests  BY <1>3, NothingMoves DEF GuestWrite, InHand
  <2>2. Sleeper   BY <1>3 DEF GuestWrite, Inv, SleeperIsNotified, BlockingSeesEmpty
  <2> QED BY <2>1, <2>2
<1>4. CASE NotifyOne
  <2>1. Requests  BY <1>4, NothingMoves DEF NotifyOne, Woken, InHand
  <2>2. Sleeper   BY <1>4 DEF NotifyOne, Woken, Inv, SleeperIsNotified, BlockingSeesEmpty
  <2> QED BY <2>1, <2>2
<1>5. CASE DrainTest
  <2>1. Requests  BY <1>5, NothingMoves DEF DrainTest, InHand
  <2>2. Sleeper   BY <1>5 DEF DrainTest, Inv, SleeperIsNotified, BlockingSeesEmpty
  <2> QED BY <2>1, <2>2
<1>6. CASE DrainSwap
  <2>1. Requests  BY <1>6, DrainedKeeps DEF DrainSwap, InHand
  <2>2. Sleeper   BY <1>6 DEF DrainSwap, Inv, SleeperIsNotified, BlockingSeesEmpty
  <2> QED BY <2>1, <2>2
<1>7. CASE StoreStop
  <2>1. Requests  BY <1>7, NothingMoves DEF StoreStop, InHand
  <2>2. Sleeper   BY <1>7 DEF StoreStop, Inv, SleeperIsNotified, BlockingSeesEmpty
  <2> QED BY <2>1, <2>2
<1>8. CASE NotifyAll
  <2>1. Requests  BY <1>8, NothingMoves DEF NotifyAll, Woken, InHand
  <2>2. Sleeper   BY <1>8 DEF NotifyAll, Woken, Inv, SleeperIsNotified, BlockingSeesEmpty
  <2> QED BY <2>1, <2>2
<1>9. CASE JoinAndDrain
  <2>1. UNCHANGED <<work, wpc, item>> /\ wpc = "exited"
    BY <1>9 DEF JoinAndDrain
  <2>2. Requests
    <3>1. CASE pending = 0
      BY <1>9, <2>1, <3>1, NothingMoves DEF JoinAndDrain, InHand
    <3>2. CASE pending # 0
      BY <1>9, <2>1, <3>2, DrainedKeeps DEF JoinAndDrain, InHand
    <3> QED BY <3>1, <3>2
  <2>3. Sleeper   BY <2>1 DEF SleeperIsNotified, BlockingSeesEmpty
  <2> QED BY <2>2, <2>3
<1>10. CASE WorkerExit
  <2>1. Requests  BY <1>10, NothingMoves DEF WorkerExit, InHand
  <2>2. Sleeper   BY <1>10 DEF WorkerExit, SleeperIsNotified, BlockingSeesEmpty
  <2> QED BY <2>1, <2>2
<1>11. CASE WorkerTake
  <2>1. /\ work # <<>> /\ item' = Head(work) /\ work' = Tail(work)
        /\ wpc = "lock" /\ wpc' = "compile"
        /\ UNCHANGED <<healed, inflight, failed, ready, pending>>
    BY <1>11 DEF WorkerTake
  <2>2. work \in Seq(Item) /\ Distinct(work)
    BY DEF Inv, TypeOK, InflightOwnedOnce
  <2>3. /\ KeysOf(work') = KeysOf(work) \ {item'.key} /\ item'.key \in KeysOf(work)
        /\ Distinct(work')
    BY <2>1, <2>2, TakeKeys
  <2>4. InHand = {} /\ InHand' = {item'.key}
    BY <2>1 DEF InHand
  <2>5. InflightOwnedOnce'
    BY <2>1, <2>3, <2>4 DEF Inv, InflightOwnedOnce
  <2>6. FatesExclusive' /\ PendingCountsReady'
    BY <2>1 DEF Inv, FatesExclusive, Native, PendingCountsReady
  <2>7. Sleeper
    BY <2>1 DEF SleeperIsNotified, BlockingSeesEmpty
  <2> QED BY <2>5, <2>6, <2>7
<1>12. CASE WorkerTestFails
  <2>1. Requests  BY <1>12, NothingMoves DEF WorkerTestFails, InHand
  <2>2. Sleeper   BY <1>12 DEF WorkerTestFails, SleeperIsNotified, BlockingSeesEmpty
  <2> QED BY <2>1, <2>2
<1>13. CASE WorkerBlock
  <2>1. Requests  BY <1>13, NothingMoves DEF WorkerBlock, InHand
  <2>2. Sleeper   BY <1>13 DEF WorkerBlock, Inv, SleeperIsNotified, BlockingSeesEmpty
  <2> QED BY <2>1, <2>2
<1>14. CASE WorkerCompile
  <2>1. item'.key = item.key /\ wpc = "compile" /\ wpc' = "push"
        /\ UNCHANGED <<healed, inflight, failed, work, ready, pending>>
    BY <1>14 DEF WorkerCompile
  <2>2. Requests  BY <2>1, NothingMoves DEF InHand
  <2>3. Sleeper   BY <2>1 DEF SleeperIsNotified, BlockingSeesEmpty
  <2> QED BY <2>2, <2>3
<1>15. CASE WorkerPush
  <2>1. /\ ready' = Append(ready, item) /\ pending' = pending + 1
        /\ wpc = "push" /\ wpc' = "lock"
        /\ UNCHANGED <<healed, inflight, failed, work>>
    BY <1>15 DEF WorkerPush
  <2>2. ready \in Seq(Result) /\ item \in Result
    BY <2>1 DEF Inv, TypeOK
  <2>3. InHand = {item.key} /\ InHand' = {}
    BY <2>1 DEF InHand
  <2>4. KeysOf(ready') = KeysOf(ready) \cup {item.key} /\ Distinct(ready')
    BY <2>1, <2>2, <2>3, AppendKeys DEF Inv, InflightOwnedOnce
  <2>5. KeysOf(work') = KeysOf(work) /\ Distinct(work')
    BY <2>1 DEF Inv, InflightOwnedOnce
  <2>6. InflightOwnedOnce'
    BY <2>1, <2>3, <2>4, <2>5 DEF Inv, InflightOwnedOnce
  <2>7. FatesExclusive'
    BY <2>1 DEF Inv, FatesExclusive, Native
  <2>8. PendingCountsReady'
    BY <2>1, <2>2 DEF Inv, PendingCountsReady
  <2>9. Sleeper
    BY <2>1 DEF SleeperIsNotified, BlockingSeesEmpty
  <2> QED BY <2>6, <2>7, <2>8, <2>9
<1>16. CASE SpuriousWake
  <2>1. Requests  BY <1>16, NothingMoves DEF SpuriousWake, InHand
  <2>2. Sleeper   BY <1>16 DEF SpuriousWake, SleeperIsNotified, BlockingSeesEmpty
  <2> QED BY <2>1, <2>2
<1>17. CASE UNCHANGED vars
  <2>1. Requests  BY <1>17, NothingMoves DEF vars, InHand
  <2>2. Sleeper   BY <1>17 DEF vars, Inv, SleeperIsNotified, BlockingSeesEmpty
  <2> QED BY <2>1, <2>2
<1> QED
  BY <1>1, <1>2, <1>3, <1>4, <1>5, <1>6, <1>7, <1>8, <1>9, <1>10, <1>11, <1>12, <1>13,
     <1>14, <1>15, <1>16, <1>17 DEF Next, GameNext, WorkerStep, Ended

\* The conjunction above is an invariant of the loader.
THEOREM Invariance == Spec => []Inv
<1> QED BY InitInv, NextInv, PTL DEF Spec

\* Every request in flight is in exactly one place, and only those are in
\* flight: none is lost, none compiled twice (worker_main, overlay_drain_ready).
THEOREM RequestsOwned == Spec => []InflightOwnedOnce
<1>1. Inv => InflightOwnedOnce
  BY DEF Inv
<1> QED BY <1>1, Invariance, PTL

\* No function is native, in flight and refused at once.
THEOREM ExclusiveFates == Spec => []FatesExclusive
<1>1. Inv => FatesExclusive
  BY DEF Inv
<1> QED BY <1>1, Invariance, PTL

\* A zero counter never hides a result from overlay_drain_ready's lock-free test.
THEOREM CounterExact == Spec => []PendingCountsReady
<1>1. Inv => PendingCountsReady
  BY DEF Inv
<1> QED BY <1>1, Invariance, PTL

\* The worker never sleeps over a queued request that nobody is about to announce.
THEOREM NoSleepOverWork == Spec => []SleeperIsNotified
<1>1. Inv => SleeperIsNotified
  BY DEF Inv
<1> QED BY <1>1, Invariance, PTL

-----------------------------------------------------------------------------
\* The loader implements the life cycle of a missed function

FateMap == [k \in Keys |-> Fate(k)]
OpenMap == active /\ ~stop

LEMMA InitRefines == Init => Lifecycle!Init
<1> SUFFICES ASSUME Init PROVE Lifecycle!Init
  OBVIOUS
<1>1. \A k \in Keys : Fate(k) \in {"cold", "native"}
  BY DEF Init, Fate
<1>2. FateMap \in [Keys -> {"cold", "native"}]
  BY <1>1 DEF FateMap
<1>3. OpenMap \in BOOLEAN
  BY InitType DEF TypeOK, OpenMap
<1> QED BY <1>2, <1>3 DEF Lifecycle!Init, FateMap, OpenMap

LEMMA Stutters ==
  ASSUME UNCHANGED <<healed, inflight, failed, active, stop>>
  PROVE  UNCHANGED Lifecycle!vars
BY DEF Lifecycle!vars, Fate, Native

\* A first miss that changes the fate of one function is the Ask of the cycle.
LEMMA MissAsks ==
  ASSUME Inv, NEW k \in Keys, FirstMiss(k), UNCHANGED <<active, stop>>, Fate(k)' # "cold",
         \A j \in Keys \ {k} : Fate(j)' = Fate(j)
  PROVE  Lifecycle!Ask(k)
<1>1. active /\ ~stop /\ Fate(k) = "cold"
  BY DEF Inv, StopEndsService, FirstMiss, Fate
<1>2. Fate(k)' \in {"pending", "native", "refused"}
  BY DEF Fate
<1>3. FateMap' = [FateMap EXCEPT ![k] = Fate(k)']
  BY DEF FateMap
<1>4. FateMap[k] = "cold"
  BY <1>1 DEF FateMap
<1> QED BY <1>1, <1>2, <1>3, <1>4 DEF Lifecycle!Ask, Lifecycle!Fates, FateMap

\* A drain settles exactly the keys of the ready queue.
LEMMA DrainRefines ==
  ASSUME Inv, Drained, OpenMap' \in {OpenMap, FALSE}
  PROVE  Lifecycle!Next \/ UNCHANGED Lifecycle!vars
<1> DEFINE S == KeysOf(ready)
<1>1. S \subseteq Keys /\ S \subseteq inflight
  BY DEF Inv, TypeOK, InflightOwnedOnce
<1>2. \A k \in S : Fate(k) = "pending"
  BY <1>1 DEF Inv, FatesExclusive, Fate
<1>3. \A k \in S : Fate(k)' \in {"native", "refused"}
  BY <1>1, DrainedSettles DEF Fate
<1>4. ASSUME NEW k \in Keys \ S PROVE Fate(k)' = Fate(k)
  <2>1. /\ healed'[k] = healed[k] /\ (k \in inflight' <=> k \in inflight)
        /\ (k \in failed' <=> k \in failed)
    BY DrainedSettles DEF Drained
  <2> QED BY <2>1 DEF Fate, Native
<1>5. FateMap' = [k \in Keys |-> IF k \in S THEN [j \in S |-> Fate(j)'][k] ELSE FateMap[k]]
  BY <1>1, <1>4 DEF FateMap
<1>6. [j \in S |-> Fate(j)'] \in [S -> {"native", "refused"}]
  BY <1>3
<1>7. CASE S = {}
  <2>1. FateMap' = FateMap
    BY <1>4, <1>7 DEF FateMap
  <2>2. CASE OpenMap' = OpenMap
    BY <2>1, <2>2 DEF Lifecycle!vars, FateMap, OpenMap
  <2>3. CASE OpenMap /\ OpenMap' = FALSE
    BY <2>1, <2>3 DEF Lifecycle!Next, Lifecycle!Close, FateMap, OpenMap
  <2> QED BY <2>2, <2>3 DEF OpenMap
<1>8. CASE S # {}
  <2>1. \A k \in S : FateMap[k] = "pending"
    BY <1>1, <1>2 DEF FateMap
  <2>2. Lifecycle!Settle(S)
    BY <1>5, <1>6, <1>8, <2>1 DEF Lifecycle!Settle, FateMap, OpenMap
  <2> QED BY <1>1, <2>2 DEF Lifecycle!Next
<1> QED BY <1>7, <1>8

LEMMA NextRefines == Inv /\ [Next]_vars => [Lifecycle!Next]_(Lifecycle!vars)
<1> SUFFICES ASSUME Inv, [Next]_vars PROVE Lifecycle!Next \/ UNCHANGED Lifecycle!vars
  OBVIOUS
<1> USE DEF gameVars, queueVars, workerVars, guestVars
<1>1. ASSUME NEW k \in Keys, MissNoRegion(k) \/ MissSync(k) \/ MissEnqueue(k)
      PROVE  Lifecycle!Next
  <2>1. FirstMiss(k) /\ UNCHANGED <<active, stop>>
    BY <1>1 DEF MissNoRegion, MissSync, MissEnqueue
  <2>2. Fate(k)' # "cold"
    BY <1>1, NoneIsNotCode
    DEF Inv, TypeOK, MissNoRegion, MissSync, MissEnqueue, Fate, Native, FirstMiss
  <2>3. ASSUME NEW j \in Keys \ {k} PROVE Fate(j)' = Fate(j)
    BY <1>1 DEF Inv, TypeOK, MissNoRegion, MissSync, MissEnqueue, Fate, Native
  <2> QED BY <2>1, <2>2, <2>3, MissAsks DEF Lifecycle!Next
<1>2. ASSUME NEW k \in Keys, DispatchNative(k) \/ MissStrict(k) \/ MissBridged(k)
      PROVE  UNCHANGED Lifecycle!vars
  BY <1>2, Stutters DEF DispatchNative, MissStrict, MissBridged
<1>3. ASSUME NEW k \in RamKeys, GuestWrite(k) PROVE UNCHANGED Lifecycle!vars
  BY <1>3, Stutters DEF GuestWrite
<1>4. CASE NotifyOne \/ DrainTest \/ NotifyAll
  BY <1>4, Stutters DEF NotifyOne, DrainTest, NotifyAll
<1>5. CASE DrainSwap
  <2>1. Drained /\ OpenMap' = OpenMap
    BY <1>5 DEF DrainSwap, OpenMap
  <2> QED BY <2>1, DrainRefines
<1>6. CASE StoreStop
  <2>1. CASE UNCHANGED stop
    BY <1>6, <2>1, Stutters DEF StoreStop
  <2>2. CASE stop' = TRUE
    <3>1. FateMap' = FateMap /\ OpenMap' = FALSE
      BY <1>6, <2>2 DEF StoreStop, FateMap, OpenMap, Fate, Native
    <3> QED BY <3>1 DEF Lifecycle!Next, Lifecycle!Close, Lifecycle!vars, FateMap, OpenMap
  <2> QED BY <1>6, <2>1, <2>2 DEF StoreStop
<1>7. CASE JoinAndDrain
  <2>1. OpenMap' = FALSE
    BY <1>7 DEF JoinAndDrain, OpenMap
  <2>2. CASE Drained
    BY <2>1, <2>2, DrainRefines
  <2>3. CASE UNCHANGED <<healed, inflight, failed>>
    <3>1. FateMap' = FateMap
      BY <2>3 DEF FateMap, Fate, Native
    <3> QED
      BY <2>1, <3>1 DEF Lifecycle!Next, Lifecycle!Close, Lifecycle!vars, FateMap, OpenMap
  <2> QED BY <1>7, <2>2, <2>3 DEF JoinAndDrain
<1>8. CASE WorkerStep \/ SpuriousWake
  BY <1>8, Stutters DEF WorkerStep, WorkerExit, WorkerTake, WorkerTestFails, WorkerBlock,
                        WorkerCompile, WorkerPush, SpuriousWake
<1>9. CASE UNCHANGED vars
  BY <1>9, Stutters DEF vars
<1> QED
  BY <1>1, <1>2, <1>3, <1>4, <1>5, <1>6, <1>7, <1>8, <1>9
  DEF Next, GameNext, WorkerStep, Ended, Miss

\* Whatever the interleaving of the two threads, a missed function settles at
\* most once and stays settled: the loader implements HealLifecycle.
THEOREM LoaderImplementsLifecycle == Spec => ImplementsLifecycle
<1> QED
  BY InitRefines, NextRefines, Invariance, PTL DEF Spec, ImplementsLifecycle, Lifecycle!Spec

\* What the life cycle allows of one function: it leaves "cold" only while the loader
\* accepts requests, "pending" only to be settled, and a settled one never.
FateAdvances ==
  \A k \in Keys :
    /\ Fate(k) \in {"native", "refused"} => Fate(k)' = Fate(k)
    /\ Fate(k) = "pending" => Fate(k)' # "cold"
    /\ Fate(k) = "cold" /\ Fate(k)' # "cold" => OpenMap

LEMMA CycleAdvances == [Lifecycle!Next]_(Lifecycle!vars) => FateAdvances
<1> SUFFICES ASSUME [Lifecycle!Next]_(Lifecycle!vars), NEW k \in Keys
             PROVE  /\ Fate(k) \in {"native", "refused"} => Fate(k)' = Fate(k)
                    /\ Fate(k) = "pending" => Fate(k)' # "cold"
                    /\ Fate(k) = "cold" /\ Fate(k)' # "cold" => OpenMap
  BY DEF FateAdvances
<1>1. FateMap[k] = Fate(k) /\ FateMap'[k] = Fate(k)'
  BY DEF FateMap
<1>2. ASSUME NEW j \in Keys, Lifecycle!Ask(j)
      PROVE  OpenMap /\ FateMap[j] = "cold" /\ (k # j => FateMap'[k] = FateMap[k])
  BY <1>2 DEF Lifecycle!Ask, FateMap, OpenMap
<1>3. ASSUME NEW S \in SUBSET Keys, Lifecycle!Settle(S)
      PROVE  IF k \in S THEN FateMap[k] = "pending" /\ FateMap'[k] \in {"native", "refused"}
                       ELSE FateMap'[k] = FateMap[k]
  <2>1. PICK f \in [S -> {"native", "refused"}] :
             FateMap' = [j \in Keys |-> IF j \in S THEN f[j] ELSE FateMap[j]]
    BY <1>3 DEF Lifecycle!Settle, FateMap
  <2>2. \A j \in S : FateMap[j] = "pending"
    BY <1>3 DEF Lifecycle!Settle, FateMap
  <2> QED BY <2>1, <2>2
<1>4. CASE UNCHANGED FateMap
  BY <1>1, <1>4
<1>5. CASE \E j \in Keys : Lifecycle!Ask(j)
  BY <1>1, <1>2, <1>5
<1>6. CASE \E S \in SUBSET Keys : Lifecycle!Settle(S)
  BY <1>1, <1>3, <1>6
<1> QED
  BY <1>4, <1>5, <1>6 DEF Lifecycle!Next, Lifecycle!Close, Lifecycle!vars, FateMap

\* The loader inherits what the life cycle promises: whatever its threads and queues do,
\* a settled function stays settled to the end of the session, a request in flight is not
\* forgotten, and none is taken once the loader is stopped
\* (overlay_request_compile, overlay_drain_ready, overlay_loader_shutdown).
THEOREM SettledIsFinal == Spec => [][FateAdvances]_vars
<1>1. Inv /\ [Next]_vars => FateAdvances
  BY NextRefines, CycleAdvances
<1> QED BY <1>1, Invariance, PTL DEF Spec
=============================================================================
