----------------------------- MODULE CallReturn -----------------------------
(***************************************************************************)
(* How recompiled code runs guest calls on the host's C stack               *)
(* (armv4t/runtime_arm.cpp and the code armv4t/arm_codegen.cpp emits).      *)
(*                                                                         *)
(* A guest BL pushes its return address on the call-return stack and calls  *)
(* the callee as a C function.  A guest return asks that stack whether a C  *)
(* return leads there; if not, the target is dispatched as one more C call. *)
(* A C function may also return early - to yield, after a SWI, after an     *)
(* exception return - and then the host stack unwinds: every BL site on the *)
(* way compares R15 with its own return address, continues if they agree    *)
(* and cancels its entry otherwise, down to the loop that dispatches R15    *)
(* again.  An IRQ runs its handler under a loop of its own, above a floor   *)
(* in the call-return stack that the handler must not look below.           *)
(*                                                                         *)
(* The guest is any program that nests properly: it returns to the address  *)
(* it was called from, by an idiom the recompiler recognises for a BL, and  *)
(* an IRQ handler ends with an exception return to the interrupted code.    *)
(* It recurses through one call site at a time, but in the contexts of       *)
(* CrossRecursion through several in any order.                             *)
(* A host frame that dispatches and then returns whatever happened is no    *)
(* more than its callee, and is left out of the host stack.                 *)
(***************************************************************************)
EXTENDS Naturals, SequencesExt

CONSTANTS BlRets,    \* return addresses of BL sites
          JumpRets,  \* return addresses of calls by mov lr, pc and a jump
          SwiRets,   \* addresses behind an SWI
          Elsewhere, \* any other guest address
          None,      \* no savestate
          CrossRecursion, \* contexts with recursion through more than one call site
          MaxCalls,  \* bound: guest calls in progress, over all contexts
          MaxIrqs,   \* bound: nested IRQs
          PresentInPlace \* windowed play with its default frame-present hook

ASSUME RetsAssumption ==
  /\ BlRets \cap JumpRets = {} /\ BlRets \cap SwiRets = {}
  /\ JumpRets \cap SwiRets = {}
  /\ Elsewhere \notin BlRets \cup JumpRets \cup SwiRets
ASSUME BoundAssumption == MaxCalls \in Nat /\ MaxIrqs \in Nat
ASSUME HookAssumption == PresentInPlace \in BOOLEAN
ASSUME RecursionAssumption == CrossRecursion \subseteq {"mainline", "handler"}

VARIABLES
  pc,      \* R15
  guest,   \* the guest's own return addresses, one stack per context: the
           \* mainline, then each IRQ handler in progress
  stacked, \* the interrupted address of each IRQ handler in progress
  crs,     \* g_call_return_stack[0 .. g_call_return_depth)
  floor,   \* g_call_return_floor
  nest,    \* g_irq_nest_depth
  iret,    \* g_irq_iret_depth
  host,    \* the host frames that wait for a callee, the bottom one first
  mode,    \* native code runs, the host stack unwinds, or the outer loop is reached
  native,  \* the guest address whose native code runs, or ran last
  slot     \* a savestate

vars == <<pc, guest, stacked, crs, floor, nest, iret, host, mode, native, slot>>
irqVars == <<floor, nest, iret, stacked>>

Rets == BlRets \cup JumpRets \cup SwiRets
Addresses == Rets \cup {Elsewhere}

\* A BL site that waits for its callee, and runtime_irq with its locals.
BlFrame(r)  == [kind |-> "bl", ret |-> r]
IrqFrame(d) == [kind |-> "irq", depth |-> d, floor |-> floor, iret |-> iret, at |-> pc]

Context  == IF Len(guest) = 1 THEN "mainline" ELSE "handler"
Calls    == Last(guest)                \* the current context's return addresses
WithCalls(c) == Append(Front(guest), c)

Init ==
  /\ pc = Elsewhere /\ guest = <<<<>>>> /\ stacked = <<>>
  /\ crs = <<>> /\ floor = 0 /\ nest = 0 /\ iret = 0
  /\ host = <<>> /\ mode = "loop" /\ native = Elsewhere /\ slot = None

-----------------------------------------------------------------------------
\* What native code does

Running == mode = "run"
MayCall(r) ==
  /\ Running /\ Len(FlattenSeq(guest)) < MaxCalls
  /\ Context \in CrossRecursion \/ \A i \in DOMAIN Calls : Calls[i] = r => Last(Calls) = r
Goto(a) == pc' = a /\ native' = a

\* Any instruction that is no call and no return; a jump or a tail call too.
Step ==
  /\ Running /\ pc # Elsewhere
  /\ Goto(Elsewhere)
  /\ UNCHANGED <<guest, crs, irqVars, host, mode, slot>>

\* BL: runtime_call_push_return, then the callee.
Call(r) ==
  /\ MayCall(r)
  /\ guest' = WithCalls(Append(Calls, r))
  /\ crs' = Append(crs, r)
  /\ host' = Append(host, BlFrame(r))
  /\ Goto(Elsewhere)
  /\ UNCHANGED <<irqVars, mode, slot>>

\* A call the recompiler does not see as one: dispatched, nothing is pushed.
\* An SWI enters the BIOS the same way.
JumpCall(r) ==
  /\ MayCall(r)
  /\ guest' = WithCalls(Append(Calls, r))
  /\ Goto(Elsewhere)
  /\ UNCHANGED <<crs, irqVars, host, mode, slot>>

\* Mutant: the scan goes below the floor of the IRQ in progress.
EntriesAnywhere(r) == {i \in 1..Len(crs) : crs[i] = r}

\* runtime_call_should_return: the entries above the floor that match.
Entries(r) == {i \in floor + 1..Len(crs) : crs[i] = r}

\* Mutant: the scan starts at the bottom and finds the oldest match.
OldestEntry(i) == \A k \in Entries(Last(Calls)) : k >= i

\* The scan starts at the top and finds the youngest match.
FoundEntry(i) == \A k \in Entries(Last(Calls)) : k <= i

\* bx lr, pop {pc} and their kin: a C return if the stack knows the address,
\* dropping the entries above it, else a dispatch of the target.
Return ==
  LET r == Last(Calls)
  IN /\ Running /\ Calls # <<>> /\ r \notin SwiRets
     /\ guest' = WithCalls(Front(Calls))
     /\ pc' = r
     /\ \/ /\ Entries(r) = {}
           /\ native' = r
           /\ UNCHANGED <<crs, mode>>
        \/ \E i \in Entries(r) :
             /\ FoundEntry(i)
             /\ crs' = SubSeq(crs, 1, i - 1)
             /\ mode' = "unwind"
             /\ UNCHANGED native
     /\ UNCHANGED <<irqVars, host, slot>>

\* The BIOS leaves an SWI by an exception return, and the SWI site returns.
SwiReturn ==
  /\ Running /\ Calls # <<>> /\ Last(Calls) \in SwiRets
  /\ guest' = WithCalls(Front(Calls))
  /\ pc' = Last(Calls)
  /\ mode' = "unwind"
  /\ UNCHANGED <<crs, irqVars, host, native, slot>>

\* runtime_should_yield in a function's prologue: vertical blank, HALT,
\* breakpoint, forced interpretation.
Yield ==
  /\ Running
  /\ mode' = "unwind"
  /\ UNCHANGED <<pc, guest, crs, irqVars, host, native, slot>>

\* Mutant: runtime_irq leaves the floor where the enclosing context has it.
IrqKeepsFloor ==
  /\ Running /\ nest < MaxIrqs
  /\ host' = Append(host, IrqFrame(nest + 1))
  /\ nest' = nest + 1 /\ iret' = 0
  /\ guest' = Append(guest, <<>>) /\ stacked' = Append(stacked, pc)
  /\ Goto(Elsewhere)
  /\ UNCHANGED <<crs, mode, slot, floor>>

\* runtime_irq: a new floor, no exception return seen yet, vector 0x18.
Irq ==
  /\ Running /\ nest < MaxIrqs
  /\ host' = Append(host, IrqFrame(nest + 1))
  /\ floor' = Len(crs) /\ nest' = nest + 1 /\ iret' = 0
  /\ guest' = Append(guest, <<>>) /\ stacked' = Append(stacked, pc)
  /\ Goto(Elsewhere)
  /\ UNCHANGED <<crs, mode, slot>>

\* runtime_exception_return from IRQ mode: the handler is over.
ExceptionReturn ==
  /\ Running /\ stacked # <<>> /\ Calls = <<>>
  /\ pc' = Last(stacked)
  /\ guest' = Front(guest) /\ stacked' = Front(stacked)
  /\ iret' = nest
  /\ mode' = "unwind"
  /\ UNCHANGED <<crs, floor, nest, host, native, slot>>

-----------------------------------------------------------------------------
\* What the host stack does while it unwinds

Unwinding == mode = "unwind" /\ host # <<>>

\* The waiting BL site finds its callee returned: it continues.
Resume ==
  LET f == Last(host)
  IN /\ Unwinding /\ f.kind = "bl" /\ pc = f.ret
     /\ host' = Front(host) /\ mode' = "run" /\ native' = f.ret
     /\ UNCHANGED <<pc, guest, crs, irqVars, slot>>

\* It finds R15 elsewhere: runtime_call_cancel_return, and it returns too.
GiveUp ==
  LET f == Last(host)
  IN /\ Unwinding /\ f.kind = "bl" /\ pc # f.ret
     /\ host' = Front(host)
     /\ crs' = IF Len(crs) > floor /\ Last(crs) = f.ret THEN Front(crs) ELSE crs
     /\ UNCHANGED <<pc, guest, irqVars, mode, native, slot>>

\* runtime_irq's loop: its handler has not returned, dispatch R15 again ...
Redrive ==
  LET f == Last(host)
  IN /\ Unwinding /\ f.kind = "irq" /\ iret # f.depth
     /\ mode' = "run" /\ native' = pc
     /\ UNCHANGED <<pc, guest, crs, irqVars, host, slot>>

\* Mutant: runtime_irq returns after one dispatch, whatever the handler did.
IrqDoneEarly ==
  LET f == Last(host)
  IN /\ Unwinding /\ f.kind = "irq"
     /\ iret' = f.iret /\ floor' = f.floor /\ nest' = nest - 1
     /\ host' = Front(host) /\ mode' = "run" /\ native' = f.at
     /\ UNCHANGED <<pc, guest, stacked, crs, slot>>

\* ... or it has: the interrupted native code goes on where it was.
IrqDone ==
  LET f == Last(host)
  IN /\ Unwinding /\ f.kind = "irq" /\ iret = f.depth
     /\ iret' = f.iret /\ floor' = f.floor /\ nest' = nest - 1
     /\ host' = Front(host) /\ mode' = "run" /\ native' = f.at
     /\ UNCHANGED <<pc, guest, stacked, crs, slot>>

ReachLoop ==
  /\ mode = "unwind" /\ host = <<>>
  /\ mode' = "loop"
  /\ UNCHANGED <<pc, guest, crs, irqVars, host, native, slot>>

\* step_once: the outer loop dispatches R15.
Dispatch ==
  /\ mode = "loop"
  /\ mode' = "run" /\ native' = pc
  /\ UNCHANGED <<pc, guest, crs, irqVars, host, slot>>

-----------------------------------------------------------------------------
\* Savestates (debug/snapshot.cpp): asked for in the outer loop, or from the
\* frame-present hook inside a prologue's yield test when there is one.

Sampled == mode = "loop" \/ (PresentInPlace /\ Running /\ nest = 0)

SaveState ==
  /\ Sampled /\ slot = None
  /\ slot' = [pc |-> pc, guest |-> guest, crs |-> crs]
  /\ UNCHANGED <<pc, guest, crs, irqVars, host, mode, native>>

\* The CPU, the guest's memory and the call-return stack are replaced; the
\* host stack and the native code on it are not.
LoadState ==
  /\ Sampled /\ slot # None
  /\ pc' = slot.pc /\ guest' = slot.guest /\ crs' = slot.crs
  /\ UNCHANGED <<irqVars, host, mode, native, slot>>

Next ==
  \/ Step \/ (\E r \in BlRets : Call(r)) \/ (\E r \in JumpRets \cup SwiRets : JumpCall(r))
  \/ Return \/ SwiReturn \/ Yield \/ Irq \/ ExceptionReturn
  \/ Resume \/ GiveUp \/ Redrive \/ IrqDone \/ ReachLoop \/ Dispatch
  \/ SaveState \/ LoadState

Spec == Init /\ [][Next]_vars
-----------------------------------------------------------------------------
\* Properties

Frame == [kind : {"bl"}, ret : BlRets]
         \cup [kind : {"irq"}, depth : Nat, floor : Nat, iret : Nat, at : Addresses]

\* Types: one guest context and one host frame per IRQ in progress, and the
\* floor inside the call-return stack (runtime_arm.cpp:75-86).
TypeOK ==
  /\ pc \in Addresses /\ native \in Addresses
  /\ guest \in Seq(Seq(Rets)) /\ stacked \in Seq(Addresses)
  /\ crs \in Seq(BlRets) /\ floor \in 0..Len(crs)
  /\ nest \in Nat /\ iret \in Nat
  /\ host \in Seq(Frame) /\ mode \in {"run", "unwind", "loop"}
  /\ Len(guest) = Len(stacked) + 1

\* Unless an IRQ ends, the entries below the floor stay.
KeepsInterrupted ==
  nest' >= nest => Len(crs') >= floor /\ SubSeq(crs', 1, floor) = SubSeq(crs, 1, floor)

\* The frames of the code an IRQ interrupted are never matched, dropped or
\* cancelled while its handler runs (the comment on g_call_return_floor: the
\* handler's tail would be skipped).
InterruptedFramesKept == [][KeepsInterrupted]_vars

\* Native code only ever runs the guest code R15 points at: after a return, an
\* early unwind, an IRQ at any point, nested or not, and a savestate load.
NativeFollowsGuest == Running => native = pc

\* A finished IRQ leaves the interrupted code's call frames exactly as they
\* were: its handler's entries are gone and no other is.
IrqLeavesNoFrames ==
  [][IrqDone => Len(crs) = floor /\ Len(guest) = nest]_vars

\* One activation of a call site is directly on top of the other.
OneSite(c) == \A x, y, z \in DOMAIN c : x < y /\ y < z /\ c[x] = c[z] => c[y] = c[x]

\* A return idiom is a C return only when it matches the top direct-call return
\* address (runtime_arm.h:184-187): although the scan goes on below the top, it
\* never drops the entry of a call that is still in progress, unless the returning
\* context has recursed across sites.
ReturnsTakeTheTop ==
  [][Return /\ mode' = "unwind" /\ OneSite(Calls) => crs' = Front(crs)]_vars

\* s is a subsequence of t.
SubsequenceOf(s, t) ==
  \E f \in [DOMAIN s -> DOMAIN t] :
    /\ \A i, j \in DOMAIN s : i < j => f[i] < f[j]
    /\ \A i \in DOMAIN s : s[i] = t[f[i]]

\* The current context's entries, its own calls, and the BL sites that wait.
TopSegment == SubSeq(crs, floor + 1, Len(crs))
OwnCalls   == IF Len(guest) = nest + 1 THEN Calls ELSE <<>>
Waiting    == {i \in DOMAIN host : host[i].kind = "bl"}

\* The call-return stack only holds return addresses the guest still has on its
\* own stack, in the same order, so it is never deeper than the guest's calls
\* and cannot leak entries towards its fatal overflow (runtime_arm.cpp:832).
StackFollowsGuest == SubsequenceOf(TopSegment, OwnCalls)

\* The waiting BL sites of the contexts that do not recurse across sites.
SiteContext(i) == IF \E m \in 1..i : host[m].kind = "irq" THEN "handler" ELSE "mainline"
PlainSites     == {i \in Waiting : SiteContext(i) \notin CrossRecursion}

\* While native code runs, each of them still has its entry: the callee's return
\* comes back to it as a C return and is not dispatched on top of it, so the host
\* stack never outgrows the guest's (runtime_call_should_return,
\* runtime_call_cancel_return).
WaitingSitesKnown ==
  Running => SubsequenceOf([i \in PlainSites |-> host[i].ret], crs)
=============================================================================
