--------------------------- MODULE OverlayLoader ---------------------------
(***************************************************************************)
(* The self-heal overlay loader of runtime/overlay_loader.cpp: the game     *)
(* thread misses a function that has no statically compiled entry, hands    *)
(* it to a background compile worker, keeps interpreting it, and installs   *)
(* the worker's result at the next step boundary.                           *)
(*                                                                         *)
(* Two threads.  The game thread owns healed, inflight and failed; the     *)
(* work queue (mutex + condition variable), the ready queue (mutex), the   *)
(* pending counter and the stop flag are shared.  gpc and wpc are the      *)
(* threads' positions between two of their atomic steps.  The worker tests *)
(* the condition variable's predicate with the work mutex held, and blocks *)
(* in a second step ("blocking" is that gap: the mutex is held and the     *)
(* worker cannot hear a notification yet).                                 *)
(***************************************************************************)
EXTENDS Naturals, Sequences

CONSTANTS RomKeys,     \* missed functions in the BIOS or ROM image (immutable)
          RamKeys,     \* missed functions in EWRAM or IWRAM
          VoidKeys,    \* missed functions in no region the loader can compile
          Codes,       \* what a function's guest bytes may hold
          None         \* no code: not healed

ASSUME DisjointKeys == /\ RomKeys \cap RamKeys = {}
                       /\ RomKeys \cap VoidKeys = {}
                       /\ RamKeys \cap VoidKeys = {}
ASSUME NoneIsNotCode == None \notin Codes

Keys == RomKeys \cup RamKeys \cup VoidKeys

VARIABLES
  env,       \* environment switches read at run time: strict, on, sync, ramHeal
  active,    \* s_active
  healed,    \* g_healed: the code the installed native function was compiled from
  inflight,  \* s_inflight
  failed,    \* s_failed
  work,      \* s_work: items [key, code] waiting for the worker
  stop,      \* s_stop
  ready,     \* s_ready: the worker's results [key, ok, code]
  pending,   \* s_ready_pending
  gpc,       \* the game thread's position
  wpc,       \* the worker's position
  item,      \* the work item or result in the worker's hands
  image,     \* guest memory: the code each function's bytes hold now
  ran        \* what the last dispatch of a missed function executed

gameVars   == <<active, healed, inflight, failed>>
queueVars  == <<work, ready, pending, stop>>
workerVars == <<wpc, item>>
guestVars  == <<image, ran>>
vars == <<env, active, healed, inflight, failed, work, stop, ready, pending,
          gpc, wpc, item, image, ran>>

Env  == [strict : BOOLEAN, on : BOOLEAN, sync : BOOLEAN, ramHeal : BOOLEAN]
Item == [key : Keys, code : Codes]
Result == [key : Keys, ok : BOOLEAN, code : Codes]
Idle == [key |-> None]           \* the worker holds nothing

GamePC   == {"run", "notify", "swap", "stopping", "joining", "stopped", "aborted"}
WorkerPC == {"none", "lock", "blocking", "asleep", "compile", "push", "exited"}
Ran      == {"nothing", "bridge", "fresh", "stale"}

KeysOf(q) == {q[i].key : i \in DOMAIN q}
Native(k) == healed[k] # None
Enabled   == env.on /\ ~env.strict

(***************************************************************************)
(* overlay_loader_init: strict or opted-out sessions stay inactive with no  *)
(* worker; otherwise the cached shards of immutable images are warm-loaded  *)
(* (those that are on disk and load) and the worker starts.                 *)
(***************************************************************************)
Init ==
  /\ env \in Env
  /\ image \in [Keys -> Codes]
  /\ active = Enabled
  /\ \E warm \in SUBSET RomKeys :
       /\ Enabled \/ warm = {}
       /\ healed = [k \in Keys |-> IF k \in warm THEN image[k] ELSE None]
  /\ inflight = {} /\ failed = {}
  /\ work = <<>> /\ ready = <<>> /\ pending = 0 /\ stop = FALSE
  /\ gpc = "run" /\ item = Idle /\ ran = "nothing"
  /\ wpc = IF Enabled THEN "lock" ELSE "none"

-----------------------------------------------------------------------------
\* The game thread

\* region_bytes / snapshot_ram_region: is there an image to compile from?
HasRegion(k) == k \in RomKeys \/ (k \in RamKeys /\ env.ramHeal)

\* Dispatching k runs native code (overlay_try_dispatch), or misses.
DispatchNative(k) ==
  /\ gpc = "run" /\ active /\ Native(k)
  /\ ran' = IF healed[k] = image[k] THEN "fresh" ELSE "stale"
  /\ UNCHANGED <<env, gameVars, queueVars, workerVars, gpc, image>>

\* A miss in strict mode aborts the process.
MissStrict(k) ==
  /\ gpc = "run" /\ env.strict
  /\ gpc' = "aborted"
  /\ UNCHANGED <<env, gameVars, queueVars, workerVars, guestVars>>

\* A miss the loader does not take: inactive, in flight already, or refused.
MissBridged(k) ==
  /\ gpc = "run" /\ ~env.strict
  /\ ~active \/ (~Native(k) /\ k \in inflight \cup failed)
  /\ ran' = "bridge"
  /\ UNCHANGED <<env, gameVars, queueVars, workerVars, gpc, image>>

\* Mutant: overlay_request_compile without its s_inflight test.
FirstMissForgetsInflight(k) == gpc = "run" /\ active /\ ~Native(k) /\ k \notin failed

\* Mutant: overlay_request_compile without its s_failed test.
FirstMissForgetsFailed(k) == gpc = "run" /\ active /\ ~Native(k) /\ k \notin inflight

\* The guard every first request passes.
FirstMiss(k) == gpc = "run" /\ active /\ ~Native(k) /\ k \notin inflight \cup failed

MissNoRegion(k) ==
  /\ FirstMiss(k) /\ ~HasRegion(k)
  /\ failed' = failed \cup {k}
  /\ ran' = "bridge"
  /\ UNCHANGED <<env, active, healed, inflight, queueVars, workerVars, gpc, image>>

\* GBARECOMP_SYNC_OVERLAY_HEAL: the game thread compiles and dispatches at once.
MissSync(k) ==
  /\ FirstMiss(k) /\ HasRegion(k) /\ env.sync
  /\ \/ /\ healed' = [healed EXCEPT ![k] = image[k]]
        /\ ran' = "fresh" /\ UNCHANGED failed
     \/ /\ failed' = failed \cup {k}
        /\ ran' = "bridge" /\ UNCHANGED healed
  /\ UNCHANGED <<env, active, inflight, queueVars, workerVars, gpc, image>>

\* Mutant: the item is pushed without the work mutex, so it can fall between
\* the worker's test and its sleep, and one notification later it is lost.
MissEnqueueUnlocked(k) ==
  /\ FirstMiss(k) /\ HasRegion(k) /\ ~env.sync
  /\ inflight' = inflight \cup {k}
  /\ work' = Append(work, [key |-> k, code |-> image[k]])
  /\ gpc' = "notify"
  /\ UNCHANGED <<env, active, healed, failed, stop, ready, pending, workerVars,
                 guestVars>>

\* The production path: snapshot the bytes, push the item under the work
\* mutex (free unless the worker is about to block), then notify.
MissEnqueue(k) ==
  /\ FirstMiss(k) /\ HasRegion(k) /\ ~env.sync
  /\ wpc # "blocking"
  /\ inflight' = inflight \cup {k}
  /\ work' = Append(work, [key |-> k, code |-> image[k]])
  /\ gpc' = "notify"
  /\ UNCHANGED <<env, active, healed, failed, stop, ready, pending, workerVars,
                 guestVars>>

\* Mutant: a push whose notification is dropped.
NeverWoken == wpc

Woken == IF wpc = "asleep" THEN "lock" ELSE wpc

NotifyOne ==
  /\ gpc = "notify"
  /\ gpc' = "run" /\ wpc' = Woken /\ ran' = "bridge"
  /\ UNCHANGED <<env, gameVars, queueVars, item, image>>

\* overlay_drain_ready: a lock-free test of the counter, then the swap.
DrainTest ==
  /\ gpc = "run" /\ pending # 0
  /\ gpc' = "swap"
  /\ UNCHANGED <<env, gameVars, queueVars, workerVars, guestVars>>

\* Mutant: the drain takes the results and leaves the counter.
DrainedKeepsCount ==
  LET good(k) == \E i \in DOMAIN ready : ready[i].key = k /\ ready[i].ok
      code(k) == ready[CHOOSE i \in DOMAIN ready : ready[i].key = k /\ ready[i].ok].code
      bad(k)  == \E i \in DOMAIN ready : ready[i].key = k /\ ~ready[i].ok
  IN /\ inflight' = inflight \ KeysOf(ready)
     /\ healed' = [k \in Keys |-> IF good(k) THEN code(k) ELSE healed[k]]
     /\ failed' = failed \cup {k \in Keys : bad(k)}
     /\ ready' = <<>> /\ UNCHANGED pending

\* Mutant: a refused function is taken off the in-flight set and not recorded.
DrainedForgetsRefusal ==
  LET good(k) == \E i \in DOMAIN ready : ready[i].key = k /\ ready[i].ok
      code(k) == ready[CHOOSE i \in DOMAIN ready : ready[i].key = k /\ ready[i].ok].code
  IN /\ inflight' = inflight \ KeysOf(ready)
     /\ healed' = [k \in Keys |-> IF good(k) THEN code(k) ELSE healed[k]]
     /\ ready' = <<>> /\ pending' = 0 /\ UNCHANGED failed

Drained ==
  LET good(k) == \E i \in DOMAIN ready : ready[i].key = k /\ ready[i].ok
      code(k) == ready[CHOOSE i \in DOMAIN ready : ready[i].key = k /\ ready[i].ok].code
      bad(k)  == \E i \in DOMAIN ready : ready[i].key = k /\ ~ready[i].ok
  IN /\ inflight' = inflight \ KeysOf(ready)
     /\ healed' = [k \in Keys |-> IF good(k) THEN code(k) ELSE healed[k]]
     /\ failed' = failed \cup {k \in Keys : bad(k)}
     /\ ready' = <<>> /\ pending' = 0

DrainSwap ==
  /\ gpc = "swap"
  /\ Drained
  /\ gpc' = "run"
  /\ UNCHANGED <<env, active, work, stop, workerVars, guestVars>>

\* Guest code rewrites a function that lives in RAM.
GuestWrite(k) ==
  /\ gpc = "run"
  /\ \E c \in Codes \ {image[k]} : image' = [image EXCEPT ![k] = c]
  /\ UNCHANGED <<env, gameVars, queueVars, workerVars, gpc, ran>>

\* overlay_loader_shutdown: the stop flag is stored WITHOUT the work mutex,
\* then the worker is notified and joined.  With no worker it only clears
\* s_active.
StoreStop ==
  /\ gpc = "run"
  /\ IF wpc = "none" THEN gpc' = "stopped" /\ UNCHANGED stop
                     ELSE gpc' = "stopping" /\ stop' = TRUE
  /\ UNCHANGED <<env, gameVars, work, ready, pending, workerVars, guestVars>>

NotifyAll ==
  /\ gpc = "stopping"
  /\ gpc' = "joining" /\ wpc' = Woken
  /\ UNCHANGED <<env, gameVars, queueVars, item, guestVars>>

JoinAndDrain ==
  /\ gpc = "joining" /\ wpc = "exited"
  /\ IF pending = 0 THEN UNCHANGED <<healed, inflight, failed, ready, pending>>
                    ELSE Drained
  /\ active' = FALSE /\ gpc' = "stopped"
  /\ UNCHANGED <<env, work, stop, workerVars, guestVars>>

-----------------------------------------------------------------------------
\* The worker thread (worker_main)

\* With the work mutex: leave, take the oldest item, or go to sleep.
WorkerExit ==
  /\ wpc = "lock" /\ stop /\ work = <<>>
  /\ wpc' = "exited"
  /\ UNCHANGED <<env, gameVars, queueVars, gpc, item, guestVars>>

WorkerTake ==
  /\ wpc = "lock" /\ work # <<>>
  /\ item' = Head(work) /\ work' = Tail(work)
  /\ wpc' = "compile"
  /\ UNCHANGED <<env, gameVars, stop, ready, pending, gpc, guestVars>>

WorkerTestFails ==
  /\ wpc = "lock" /\ ~stop /\ work = <<>>
  /\ wpc' = "blocking"
  /\ UNCHANGED <<env, gameVars, queueVars, gpc, item, guestVars>>

WorkerBlock ==
  /\ wpc = "blocking"
  /\ wpc' = "asleep"
  /\ UNCHANGED <<env, gameVars, queueVars, gpc, item, guestVars>>

\* A condition variable may wake without a notification; nothing makes it.
SpuriousWake ==
  /\ wpc = "asleep"
  /\ wpc' = "lock"
  /\ UNCHANGED <<env, gameVars, queueVars, gpc, item, guestVars>>

\* overlay_compile_one on the item's own bytes: succeeds, fails or throws.
WorkerCompile ==
  /\ wpc = "compile"
  /\ \E ok \in BOOLEAN : item' = [key |-> item.key, ok |-> ok, code |-> item.code]
  /\ wpc' = "push"
  /\ UNCHANGED <<env, gameVars, queueVars, gpc, guestVars>>

\* Mutant: the result is pushed and the worker keeps it.
WorkerPushKeepsItem ==
  /\ wpc = "push"
  /\ ready' = Append(ready, item) /\ pending' = pending + 1
  /\ wpc' = "lock"
  /\ UNCHANGED <<env, gameVars, work, stop, gpc, guestVars, item>>

\* The result and the counter change together, under the ready mutex.
WorkerPush ==
  /\ wpc = "push"
  /\ ready' = Append(ready, item) /\ pending' = pending + 1
  /\ item' = Idle /\ wpc' = "lock"
  /\ UNCHANGED <<env, gameVars, work, stop, gpc, guestVars>>

-----------------------------------------------------------------------------
Miss(k) == MissStrict(k) \/ MissBridged(k) \/ MissNoRegion(k) \/ MissSync(k)
           \/ MissEnqueue(k)

\* The process has ended; the rest of the session is stuttering.
Ended == gpc \in {"stopped", "aborted"} /\ UNCHANGED vars

GameNext == \/ \E k \in Keys : DispatchNative(k) \/ Miss(k)
            \/ \E k \in RamKeys : GuestWrite(k)
            \/ NotifyOne \/ DrainTest \/ DrainSwap
            \/ StoreStop \/ NotifyAll \/ JoinAndDrain

WorkerStep == WorkerExit \/ WorkerTake \/ WorkerTestFails \/ WorkerBlock
              \/ WorkerCompile \/ WorkerPush

Next == GameNext \/ WorkerStep \/ SpuriousWake \/ Ended

\* The game thread finishes what it has begun and drains once per step; the
\* worker is scheduled.  Nobody has to miss, write, shut down or wake
\* spuriously.
Fairness == /\ WF_vars(NotifyOne) /\ WF_vars(DrainTest) /\ WF_vars(DrainSwap)
            /\ WF_vars(NotifyAll) /\ WF_vars(JoinAndDrain)
            /\ WF_vars(WorkerStep)

Spec == Init /\ [][Next]_vars
FairSpec == Spec /\ Fairness
-----------------------------------------------------------------------------
\* Properties

\* Every variable keeps its type: the shapes of the two queues' entries and
\* the positions of the two threads (overlay_loader.cpp:109-123).
TypeOK ==
  /\ env \in Env /\ active \in BOOLEAN /\ stop \in BOOLEAN
  /\ healed \in [Keys -> Codes \cup {None}]
  /\ inflight \in SUBSET Keys /\ failed \in SUBSET Keys
  /\ work \in Seq(Item) /\ ready \in Seq(Result) /\ pending \in Nat
  /\ gpc \in GamePC /\ wpc \in WorkerPC
  /\ item \in (IF wpc = "compile" THEN Item
               ELSE IF wpc = "push" THEN Result ELSE {Idle})
  /\ image \in [Keys -> Codes] /\ ran \in Ran

\* The keys in the worker's hands.
InHand == IF wpc \in {"compile", "push"} THEN {item.key} ELSE {}

Distinct(q) == \A i, j \in DOMAIN q : q[i].key = q[j].key => i = j

\* A request that is in flight is in exactly one place (the work queue, the
\* worker's hands or the ready queue), and nothing else is: no request is lost
\* and no function is compiled twice, whatever the two threads' interleaving
\* (overlay_request_compile's inflight test, worker_main, overlay_drain_ready).
InflightOwnedOnce ==
  /\ inflight = KeysOf(work) \cup InHand \cup KeysOf(ready)
  /\ Distinct(work) /\ Distinct(ready)
  /\ KeysOf(work) \cap InHand = {}
  /\ KeysOf(work) \cap KeysOf(ready) = {}
  /\ InHand \cap KeysOf(ready) = {}

\* No function is native, in flight and refused at once: a refused function is
\* never retried and a native one never recompiled (the three early returns of
\* overlay_request_compile and the exclusive outcomes of overlay_drain_ready).
FatesExclusive ==
  /\ inflight \cap failed = {}
  /\ \A k \in inflight \cup failed : ~Native(k)

\* The lock-free counter the game thread polls is exactly the number of results
\* waiting, so a zero never hides a result (s_ready_pending).
PendingCountsReady == pending = Len(ready)

\* The worker never sleeps over a queued request: whenever it is asleep with
\* work queued, the notification that wakes it is the game thread's next step.
SleeperIsNotified == (wpc = "asleep" /\ work # <<>>) => gpc = "notify"

\* The refinement mapping: a function's fate, and whether requests are taken.
Fate(k) == IF Native(k) THEN "native"
           ELSE IF k \in failed THEN "refused"
           ELSE IF k \in inflight THEN "pending" ELSE "cold"

Lifecycle == INSTANCE HealLifecycle
               WITH fate <- [k \in Keys |-> Fate(k)],
                    open <- active /\ ~stop

\* The loader implements the per-function life cycle: each key settles once,
\* and a settled key stays settled to the end of the session
\* (overlay_request_compile, overlay_drain_ready, overlay_loader_shutdown).
ImplementsLifecycle == Lifecycle!Spec

\* Every request in flight is settled, unless the session is shut down first:
\* the worker takes it and the game thread's drain installs or refuses it.
RequestsResolve == \A k \in Keys : k \in inflight ~> (k \notin inflight \/ stop)

\* overlay_loader.h:57 says of overlay_loader_shutdown "Stop + join the worker":
\* once the stop flag is stored, the worker is joined and shutdown returns.
ShutdownCompletes == gpc = "stopping" ~> gpc = "stopped"

\* overlay_compile.h:38 says of the code a request is compiled from "the image
\* is immutable for the run": native code that is dispatched was then compiled
\* from the bytes the guest has at that address now.
NativeCodeIsCurrent == ran # "stale"
=============================================================================
