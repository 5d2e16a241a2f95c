-------------------------- MODULE CallReturnProofs --------------------------
(***************************************************************************)
(* Proofs about CallReturn, for every set of return addresses and any depth  *)
(* of calls and IRQs.                                                      *)
(*                                                                         *)
(* First, whatever the guest calls: while an IRQ handler runs, the entries   *)
(* of the code it interrupted are never matched, dropped or cancelled.  The  *)
(* floors and depths that runtime_irq saves form a stack of their own, in    *)
(* the host frames (IInv).                                                 *)
(*                                                                         *)
(* Then, for IRQ handlers without recursion across sites (the mainline may   *)
(* recurse as it likes) and savestates taken at the outer loop only           *)
(* (~PresentInPlace), the other properties of the module.  The invariant     *)
(* (CallInv) ties each entry of the call-return stack to a call that the     *)
(* guest has in progress (Own), and each BL site that waits in a context      *)
(* without such recursion to an entry (Known).  Its core is MatchIsTop: an    *)
(* older match would be below another call of the same context, and that     *)
(* one between two calls of the returning site.                             *)
(***************************************************************************)
EXTENDS CallReturn, TLAPS, SequenceTheorems

IsSequence(s) == s \in Seq({s[i] : i \in DOMAIN s})
Irqs == {i \in DOMAIN host : host[i].kind = "irq"}

\* The call-return stack, now and in a savestate, and the floor inside it.
StackTypes ==
  /\ crs \in Seq(BlRets) /\ (slot # None => slot.crs \in Seq(BlRets))
  /\ floor \in 0..Len(crs) /\ nest \in Nat
  /\ IsSequence(host) /\ \A i \in DOMAIN host : host[i].kind \in {"bl", "irq"}

\* What runtime_irq's frames have saved: depths from 1 to the present one, each
\* once, and floors that rise with them, from the mainline's floor 0
\* (runtime_arm.cpp:1277-1284).
Nested ==
  /\ \A i \in Irqs : host[i].depth \in 1..nest /\ host[i].floor \in 0..floor
  /\ \A i \in Irqs : host[i].depth = 1 => host[i].floor = 0
  /\ \A i, j \in Irqs : i < j => host[i].depth < host[j].depth /\ host[i].floor <= host[j].floor
  /\ \A d \in 1..nest : \E i \in Irqs : host[i].depth = d

\* The mainline runs above floor 0, and the outer loop with no host frame waiting.
Mainline == (nest = 0 => floor = 0) /\ (mode = "loop" => host = <<>>)

IInv == StackTypes /\ Nested /\ Mainline

-----------------------------------------------------------------------------
\* Sequences

\* A function from the first n numbers is a sequence.
LEMMA FunctionIsSequence ==
  ASSUME NEW T, NEW n \in Nat, NEW t \in [1..n -> T] PROVE t \in Seq(T)
  OBVIOUS

\* One element more.
LEMMA Longer ==
  ASSUME NEW s, IsSequence(s), NEW x
  PROVE LET t == Append(s, x)
        IN /\ IsSequence(t) /\ Len(s) \in Nat /\ DOMAIN s = 1..Len(s)
           /\ DOMAIN t = 1..(Len(s) + 1)
           /\ t[Len(s) + 1] = x /\ \A i \in DOMAIN s : t[i] = s[i]
<1> DEFINE S == {s[i] : i \in DOMAIN s} \cup {x}
           t == Append(s, x)
<1>1. s \in Seq(S)
  BY SeqMonotonic DEF IsSequence
<1>2. Len(s) \in Nat /\ DOMAIN s = 1..Len(s)
  BY <1>1, LenProperties
<1>3. /\ t \in Seq(S) /\ Len(t) = Len(s) + 1 /\ t[Len(s) + 1] = x
      /\ \A i \in 1..Len(s) : t[i] = s[i]
  <2> HIDE DEF S
  <2>1. x \in S
    BY DEF S
  <2>2. QED BY <1>1, <2>1
<1>4. DOMAIN t = 1..Len(t)
  BY <1>3, LenProperties
<1>5. t \in Seq({t[i] : i \in DOMAIN t})
  <2> DEFINE T == {t[i] : i \in DOMAIN t}
  <2>1. t \in [1..Len(t) -> S]
    BY <1>3, LenProperties
  <2>2. t \in [1..Len(t) -> T]
    BY <2>1, <1>4
  <2>3. Len(t) \in Nat
    BY <1>2, <1>3
  <2>4. QED BY <2>2, <2>3, FunctionIsSequence
<1>6. QED BY <1>2, <1>3, <1>4, <1>5 DEF IsSequence

\* The last element off.
LEMMA Shorter ==
  ASSUME NEW s, IsSequence(s), s # <<>>
  PROVE /\ IsSequence(Front(s)) /\ Len(s) \in Nat \ {0} /\ DOMAIN s = 1..Len(s)
        /\ DOMAIN Front(s) = 1..(Len(s) - 1)
        /\ \A i \in DOMAIN Front(s) : Front(s)[i] = s[i]
<1> DEFINE S == {s[i] : i \in DOMAIN s}
           t == SubSeq(s, 1, Len(s) - 1)
<1>1. s \in Seq(S)
  BY DEF IsSequence
<1>2. DOMAIN s = 1..Len(s) /\ Len(s) \in Nat \ {0}
  BY <1>1, LenProperties, EmptySeq
<1>3. /\ t \in Seq(S) /\ Len(t) = Len(s) - 1
      /\ \A i \in 1..(Len(s) - 1) : t[i] = s[i]
  <2> HIDE DEF S
  <2>1. \A i \in 1..(Len(s) - 1) : s[i] \in S
    BY <1>1, <1>2, ElementOfSeq
  <2>2. QED BY <1>2, <2>1, SubSeqProperties
<1>4. DOMAIN t = 1..(Len(s) - 1)
  BY <1>3, LenProperties
<1>5. t \in Seq({t[i] : i \in DOMAIN t})
  <2> DEFINE T == {t[i] : i \in DOMAIN t}
  <2>1. t \in [1..Len(t) -> S]
    BY <1>3, LenProperties
  <2>2. t \in [1..Len(t) -> T]
    BY <2>1, <1>3, <1>4
  <2>3. Len(t) \in Nat
    BY <1>2, <1>3
  <2>4. QED BY <2>2, <2>3, FunctionIsSequence
<1>6. QED BY <1>2, <1>3, <1>4, <1>5 DEF IsSequence, Front

\* Two stacks that agree up to the floor have the same entries under it.
LEMMA SameUnder ==
  ASSUME NEW S, NEW s \in Seq(S), NEW t \in Seq(S), NEW n \in Nat,
         n <= Len(s), n <= Len(t), \A k \in 1..n : s[k] = t[k]
  PROVE SubSeq(s, 1, n) = SubSeq(t, 1, n)
<1>1. /\ SubSeq(s, 1, n) \in Seq(S) /\ Len(SubSeq(s, 1, n)) = n
      /\ \A i \in 1..n : SubSeq(s, 1, n)[i] = s[i]
  <2>1. \A i \in 1..n : s[i] \in S
    BY LenProperties, ElementOfSeq
  <2>2. QED BY <2>1, SubSeqProperties
<1>2. /\ SubSeq(t, 1, n) \in Seq(S) /\ Len(SubSeq(t, 1, n)) = n
      /\ \A i \in 1..n : SubSeq(t, 1, n)[i] = t[i]
  <2>1. \A i \in 1..n : t[i] \in S
    BY LenProperties, ElementOfSeq
  <2>2. QED BY <2>1, SubSeqProperties
<1>3. QED BY <1>1, <1>2, SeqEqual

-----------------------------------------------------------------------------
\* Steps

\* What a step may do to the call-return stack and a savestate: nothing under the
\* floor.
StackKept ==
  /\ crs' \in Seq(BlRets) /\ (slot' # None => slot'.crs \in Seq(BlRets))
  /\ floor <= Len(crs') /\ \A k \in 1..floor : crs'[k] = crs[k]

\* Then the entries under the floor are the same.
LEMMA KeptUnder ==
  ASSUME StackTypes, StackKept
  PROVE Len(crs') >= floor /\ SubSeq(crs', 1, floor) = SubSeq(crs, 1, floor)
<1>1. floor \in Nat /\ floor <= Len(crs) /\ crs \in Seq(BlRets) /\ Len(crs') \in Nat
  BY LenProperties DEF StackTypes, StackKept
<1>2. QED BY <1>1, SameUnder DEF StackKept

\* A step that leaves the host frames where they are.
LEMMA SameHost ==
  ASSUME IInv, StackKept, host' = host, nest' = nest, floor' = floor,
         mode' = "loop" => host = <<>>
  PROVE IInv' /\ KeepsInterrupted
<1>1. floor \in 0..Len(crs')
  BY LenProperties DEF IInv, StackTypes, StackKept
<1>2. StackTypes'
  BY <1>1 DEF IInv, StackTypes, StackKept, IsSequence
<1>3. Nested'
  BY DEF IInv, Nested, Irqs
<1>4. Mainline'
  BY DEF IInv, Mainline
<1>5. KeepsInterrupted
  BY KeptUnder DEF IInv, KeepsInterrupted
<1>6. QED BY <1>2, <1>3, <1>4, <1>5 DEF IInv

\* A BL site is added to the host stack.
LEMMA Pushed ==
  ASSUME IInv, NEW f, f.kind = "bl", StackKept, host' = Append(host, f),
         nest' = nest, floor' = floor, mode' = "run"
  PROVE IInv' /\ KeepsInterrupted
<1> DEFINE n == Len(host)
<1>1. IsSequence(host)
  BY DEF IInv, StackTypes
<1>2. /\ IsSequence(host') /\ n \in Nat /\ DOMAIN host = 1..n
      /\ DOMAIN host' = 1..(n + 1) /\ host'[n + 1] = f
      /\ \A i \in DOMAIN host : host'[i] = host[i]
  BY <1>1, Longer
<1> HIDE DEF n
<1>3. \A i \in DOMAIN host' : i \in DOMAIN host \/ i = n + 1
  BY <1>2
<1>4. Irqs' = Irqs /\ \A i \in Irqs : host'[i] = host[i]
  BY <1>2, <1>3 DEF Irqs
<1>5. floor \in 0..Len(crs')
  BY LenProperties DEF IInv, StackTypes, StackKept
<1>6. StackTypes'
  BY <1>2, <1>3, <1>5 DEF IInv, StackTypes, StackKept
<1>7. Nested'
  BY <1>4 DEF IInv, Nested
<1>8. Mainline'
  BY DEF IInv, Mainline
<1>9. KeepsInterrupted
  BY KeptUnder DEF IInv, KeepsInterrupted
<1>10. QED BY <1>6, <1>7, <1>8, <1>9 DEF IInv

\* A BL site leaves the host stack.
LEMMA Popped ==
  ASSUME IInv, host # <<>>, Last(host).kind = "bl", StackKept, host' = Front(host),
         nest' = nest, floor' = floor, mode' # "loop"
  PROVE IInv' /\ KeepsInterrupted
<1> DEFINE n == Len(host)
<1>1. IsSequence(host)
  BY DEF IInv, StackTypes
<1>2. /\ IsSequence(host') /\ n \in Nat \ {0} /\ DOMAIN host = 1..n
      /\ DOMAIN host' = 1..(n - 1) /\ host[n].kind = "bl"
      /\ \A i \in DOMAIN host' : host'[i] = host[i]
  BY <1>1, Shorter DEF Last
<1> HIDE DEF n
<1>3. /\ \A i \in DOMAIN host : i \in DOMAIN host' \/ i = n
      /\ \A i \in DOMAIN host' : i \in DOMAIN host
  BY <1>2
<1>4. Irqs' = Irqs /\ \A i \in Irqs : host'[i] = host[i]
  BY <1>2, <1>3 DEF Irqs
<1>5. floor \in 0..Len(crs')
  BY LenProperties DEF IInv, StackTypes, StackKept
<1>6. StackTypes'
  BY <1>2, <1>3, <1>5 DEF IInv, StackTypes, StackKept
<1>7. Nested'
  BY <1>4 DEF IInv, Nested
<1>8. Mainline'
  BY DEF IInv, Mainline
<1>9. KeepsInterrupted
  BY KeptUnder DEF IInv, KeepsInterrupted
<1>10. QED BY <1>6, <1>7, <1>8, <1>9 DEF IInv

\* runtime_irq raises the floor to the top of the call-return stack.
LEMMA IrqEnters ==
  ASSUME IInv, Irq PROVE IInv' /\ KeepsInterrupted
<1> DEFINE n == Len(host)
           f == IrqFrame(nest + 1)
<1>1. /\ Running /\ host' = Append(host, f) /\ floor' = Len(crs) /\ nest' = nest + 1
      /\ crs' = crs /\ mode' = mode /\ slot' = slot
  BY DEF Irq
<1>2. f.kind = "irq" /\ f.depth = nest + 1 /\ f.floor = floor
  BY DEF IrqFrame
<1> HIDE DEF f
<1>3. IsSequence(host) /\ nest \in Nat /\ floor \in 0..Len(crs) /\ Len(crs) \in Nat
  BY LenProperties DEF IInv, StackTypes
<1>4. /\ IsSequence(host') /\ n \in Nat /\ DOMAIN host = 1..n
      /\ DOMAIN host' = 1..(n + 1) /\ host'[n + 1] = f
      /\ \A i \in DOMAIN host : host'[i] = host[i]
  BY <1>1, <1>3, Longer
<1> HIDE DEF n
<1>5. \A i \in DOMAIN host' : i \in DOMAIN host \/ i = n + 1
  BY <1>4
<1>6. Irqs' = Irqs \cup {n + 1} /\ \A i \in Irqs : host'[i] = host[i] /\ i < n + 1
  BY <1>2, <1>4, <1>5 DEF Irqs
<1>7. StackTypes'
  BY <1>1, <1>2, <1>3, <1>4, <1>5 DEF IInv, StackTypes
<1>8. Nested'
  <2>1. \A i \in Irqs' : host'[i].depth \in 1..nest' /\ host'[i].floor \in 0..floor'
    <3> SUFFICES ASSUME NEW i \in Irqs'
                 PROVE host'[i].depth \in 1..nest' /\ host'[i].floor \in 0..floor'
      OBVIOUS
    <3>1. CASE i \in Irqs
      <4>1. host'[i] = host[i] /\ host[i].depth \in 1..nest /\ host[i].floor \in 0..floor
        BY <1>6, <3>1 DEF IInv, Nested
      <4>2. QED BY <1>1, <1>3, <4>1
    <3>2. CASE i = n + 1
      BY <1>1, <1>2, <1>3, <1>4, <3>2
    <3>3. QED BY <1>6, <3>1, <3>2
  <2>2. \A i \in Irqs' : host'[i].depth = 1 => host'[i].floor = 0
    BY <1>2, <1>3, <1>4, <1>6 DEF IInv, Nested, Mainline
  <2>3. \A i, j \in Irqs' :
          i < j => host'[i].depth < host'[j].depth /\ host'[i].floor <= host'[j].floor
    <3> SUFFICES ASSUME NEW i \in Irqs', NEW j \in Irqs', i < j
                 PROVE host'[i].depth < host'[j].depth /\ host'[i].floor <= host'[j].floor
      OBVIOUS
    <3>1. CASE j \in Irqs
      <4>1. i \in Irqs
        BY <1>4, <1>6, <3>1 DEF Irqs
      <4>2. QED BY <1>6, <3>1, <4>1 DEF IInv, Nested
    <3>2. CASE j = n + 1
      <4>1. i \in Irqs
        BY <1>4, <1>6, <3>2
      <4>2. host[i].depth \in 1..nest /\ host[i].floor \in 0..floor /\ host'[i] = host[i]
        BY <1>6, <4>1 DEF IInv, Nested
      <4>3. QED BY <1>2, <1>3, <1>4, <3>2, <4>2
    <3>3. QED BY <1>6, <3>1, <3>2
  <2>4. \A d \in 1..nest' : \E i \in Irqs' : host'[i].depth = d
    <3> SUFFICES ASSUME NEW d \in 1..nest' PROVE \E i \in Irqs' : host'[i].depth = d
      OBVIOUS
    <3>1. d \in 1..nest \/ d = nest + 1
      BY <1>1, <1>3
    <3>2. CASE d \in 1..nest
      BY <1>6, <3>2 DEF IInv, Nested
    <3>3. CASE d = nest + 1
      BY <1>2, <1>4, <1>6, <3>3
    <3>4. QED BY <3>1, <3>2, <3>3
  <2>5. QED BY <2>1, <2>2, <2>3, <2>4 DEF Nested
<1>9. Mainline'
  BY <1>1, <1>3 DEF Mainline, Running
<1>10. KeepsInterrupted
  BY <1>1, <1>3 DEF KeepsInterrupted
<1>11. QED BY <1>7, <1>8, <1>9, <1>10 DEF IInv

\* runtime_irq returns and lowers the floor to the one it saved.
LEMMA IrqLeaves ==
  ASSUME IInv, IrqDone PROVE IInv' /\ KeepsInterrupted
<1> DEFINE n == Len(host)
           f == Last(host)
<1>1. /\ host # <<>> /\ f.kind = "irq" /\ host' = Front(host)
      /\ floor' = f.floor /\ nest' = nest - 1 /\ mode' = "run"
      /\ crs' = crs /\ slot' = slot
  BY DEF IrqDone, Unwinding
<1>2. IsSequence(host) /\ nest \in Nat /\ floor \in 0..Len(crs) /\ Len(crs) \in Nat
  BY LenProperties DEF IInv, StackTypes
<1>3. /\ IsSequence(host') /\ n \in Nat \ {0} /\ DOMAIN host = 1..n
      /\ DOMAIN host' = 1..(n - 1) /\ host[n] = f
      /\ \A i \in DOMAIN host' : host'[i] = host[i]
  BY <1>1, <1>2, Shorter DEF Last
<1> HIDE DEF n, f
<1>4. /\ \A i \in DOMAIN host : i \in DOMAIN host' \/ i = n
      /\ \A i \in DOMAIN host' : i \in DOMAIN host /\ i < n
  BY <1>3
<1>5. n \in Irqs /\ Irqs' = Irqs \ {n} /\ \A i \in Irqs' : host'[i] = host[i] /\ i < n
  BY <1>1, <1>3, <1>4 DEF Irqs
<1>6. f.depth \in 1..nest /\ f.floor \in 0..floor
  BY <1>3, <1>5 DEF IInv, Nested
<1>7. \A i \in Irqs' : host[i].depth < f.depth /\ host[i].floor <= f.floor
                       /\ host[i].depth \in 1..nest /\ host[i].floor \in 0..floor
  BY <1>3, <1>5 DEF IInv, Nested
<1>8. f.depth = nest
  <2>1. PICK i \in Irqs : host[i].depth = nest
    BY <1>2, <1>6 DEF IInv, Nested
  <2>2. CASE i = n
    BY <1>3, <2>1, <2>2
  <2>3. CASE i # n
    <3>1. host[i].depth < f.depth
      BY <1>5, <1>7, <2>3
    <3>2. QED BY <1>2, <1>6, <2>1, <3>1
  <2>4. QED BY <2>2, <2>3
<1>9. nest' \in Nat /\ nest \in Nat \ {0} /\ floor' \in 0..Len(crs)
  BY <1>1, <1>2, <1>6
<1>10. StackTypes'
  BY <1>1, <1>3, <1>4, <1>9 DEF IInv, StackTypes
<1>11. Nested'
  <2>1. \A i \in Irqs' : host'[i].depth \in 1..nest' /\ host'[i].floor \in 0..floor'
    BY <1>1, <1>2, <1>5, <1>6, <1>7, <1>8
  <2>2. \A i \in Irqs' : host'[i].depth = 1 => host'[i].floor = 0
    BY <1>5 DEF IInv, Nested
  <2>3. \A i, j \in Irqs' :
          i < j => host'[i].depth < host'[j].depth /\ host'[i].floor <= host'[j].floor
    BY <1>5 DEF IInv, Nested
  <2>4. \A d \in 1..nest' : \E i \in Irqs' : host'[i].depth = d
    <3> SUFFICES ASSUME NEW d \in 1..nest' PROVE \E i \in Irqs' : host'[i].depth = d
      OBVIOUS
    <3>1. d \in 1..nest /\ d # nest
      BY <1>1, <1>2, <1>9
    <3>2. PICK i \in Irqs : host[i].depth = d
      BY <3>1 DEF IInv, Nested
    <3>3. i # n
      BY <1>3, <1>8, <3>1, <3>2
    <3>4. QED BY <1>5, <3>2, <3>3
  <2>5. QED BY <2>1, <2>2, <2>3, <2>4 DEF Nested
<1>12. Mainline'
  <2>1. nest' = 0 => f.depth = 1
    BY <1>1, <1>8, <1>9
  <2>2. f.depth = 1 => f.floor = 0
    BY <1>3, <1>5 DEF IInv, Nested
  <2>3. QED BY <1>1, <2>1, <2>2 DEF Mainline
<1>13. KeepsInterrupted
  BY <1>1, <1>9 DEF KeepsInterrupted
<1>14. QED BY <1>10, <1>11, <1>12, <1>13 DEF IInv

\* A cancelled entry was above the floor, and so was every one dropped.
LEMMA CutAbove ==
  ASSUME StackTypes, slot' = slot, NEW m \in floor..Len(crs), crs' = SubSeq(crs, 1, m)
  PROVE StackKept
<1>1. floor \in Nat /\ crs \in Seq(BlRets) /\ Len(crs) \in Nat /\ m \in Nat /\ m <= Len(crs)
  BY LenProperties DEF StackTypes
<1>2. \A i \in 1..m : crs[i] \in BlRets
  BY <1>1, ElementOfSeq
<1>3. crs' \in Seq(BlRets) /\ Len(crs') = m /\ \A k \in 1..m : crs'[k] = crs[k]
  BY <1>1, <1>2, SubSeqProperties
<1>4. QED BY <1>1, <1>3 DEF StackKept, StackTypes

\* A stack that is left alone is kept.
LEMMA Unchanged ==
  ASSUME StackTypes, slot' = slot, crs' = crs PROVE StackKept
  BY LenProperties DEF StackTypes, StackKept

\* Every step keeps the invariant, and what is under the floor.
LEMMA NextStep ==
  ASSUME IInv, [Next]_vars PROVE IInv' /\ (KeepsInterrupted \/ UNCHANGED vars)
<1>0. /\ StackTypes /\ floor \in Nat /\ floor <= Len(crs) /\ Len(crs) \in Nat
      /\ crs \in Seq(BlRets)
  BY LenProperties DEF IInv, StackTypes
<1>1. ASSUME NEW r \in BlRets, Call(r) PROVE IInv' /\ KeepsInterrupted
  <2>1. /\ mode' = "run" /\ host' = Append(host, BlFrame(r)) /\ crs' = Append(crs, r)
        /\ UNCHANGED <<irqVars, slot>>
    BY <1>1 DEF Call, MayCall, Running
  <2>2. StackKept
    <3>1. crs' \in Seq(BlRets) /\ Len(crs') = Len(crs) + 1
          /\ \A k \in 1..Len(crs) : crs'[k] = crs[k]
      BY <1>0, <2>1
    <3>2. QED BY <1>0, <2>1, <3>1 DEF StackKept, StackTypes
  <2>3. BlFrame(r).kind = "bl"
    BY DEF BlFrame
  <2>4. QED BY <2>1, <2>2, <2>3, Pushed DEF irqVars
<1>2. ASSUME Return PROVE IInv' /\ KeepsInterrupted
  <2>1. UNCHANGED <<irqVars, host, slot>> /\ mode' \in {"run", "unwind"}
    BY <1>2 DEF Return, Running
  <2>2. StackKept
    <3>1. CASE crs' = crs
      BY <1>0, <2>1, <3>1, Unchanged
    <3>2. ASSUME NEW i \in Entries(Last(Calls)), crs' = SubSeq(crs, 1, i - 1)
          PROVE StackKept
      <4>1. i - 1 \in floor..Len(crs)
        BY <1>0, <3>2 DEF Entries
      <4>2. QED BY <1>0, <2>1, <3>2, <4>1, CutAbove
    <3>3. QED BY <1>2, <3>1, <3>2 DEF Return
  <2>3. QED BY <2>1, <2>2, SameHost DEF irqVars
<1>3. ASSUME Irq PROVE IInv' /\ KeepsInterrupted
  BY <1>3, IrqEnters
<1>4. ASSUME IrqDone PROVE IInv' /\ KeepsInterrupted
  BY <1>4, IrqLeaves
<1>5. ASSUME Resume PROVE IInv' /\ KeepsInterrupted
  <2>1. /\ host # <<>> /\ Last(host).kind = "bl" /\ host' = Front(host) /\ mode' = "run"
        /\ UNCHANGED <<crs, irqVars, slot>>
    BY <1>5 DEF Resume, Unwinding
  <2>2. StackKept
    BY <1>0, <2>1, Unchanged
  <2>3. QED BY <2>1, <2>2, Popped DEF irqVars
<1>6. ASSUME GiveUp PROVE IInv' /\ KeepsInterrupted
  <2>1. /\ host # <<>> /\ Last(host).kind = "bl" /\ host' = Front(host) /\ mode' = "unwind"
        /\ crs' = crs \/ (Len(crs) > floor /\ crs' = SubSeq(crs, 1, Len(crs) - 1))
        /\ UNCHANGED <<irqVars, slot>>
    BY <1>6 DEF GiveUp, Unwinding, Front
  <2>2. StackKept
    <3>1. CASE crs' = crs
      BY <1>0, <2>1, <3>1, Unchanged
    <3>2. CASE Len(crs) > floor /\ crs' = SubSeq(crs, 1, Len(crs) - 1)
      <4>1. Len(crs) - 1 \in floor..Len(crs)
        BY <1>0, <3>2
      <4>2. QED BY <1>0, <2>1, <3>2, <4>1, CutAbove
    <3>3. QED BY <2>1, <3>1, <3>2
  <2>3. QED BY <2>1, <2>2, Popped DEF irqVars
<1>7. ASSUME LoadState PROVE IInv' /\ KeepsInterrupted
  <2>1. /\ slot # None /\ crs' = slot.crs /\ slot' = slot
        /\ UNCHANGED <<irqVars, host, mode>>
    BY <1>7 DEF LoadState
  <2>2. nest = 0
    <3>1. CASE mode = "loop"
      <4>1. Irqs = {}
        BY <3>1, EmptySeq DEF IInv, Mainline, Irqs
      <4>2. QED BY <4>1 DEF IInv, Nested, StackTypes
    <3>2. QED BY <1>7, <3>1 DEF LoadState, Sampled
  <2>3. floor = 0
    BY <2>2 DEF IInv, Mainline
  <2>4. StackKept
    BY <1>0, <2>1, <2>3, LenProperties DEF StackKept, StackTypes
  <2>5. QED BY <2>1, <2>4, SameHost DEF irqVars, IInv, Mainline
<1>8. ASSUME SaveState PROVE IInv' /\ KeepsInterrupted
  <2>1. /\ slot' = [pc |-> pc, guest |-> guest, crs |-> crs]
        /\ UNCHANGED <<crs, irqVars, host, mode>>
    BY <1>8 DEF SaveState
  <2>2. StackKept
    BY <1>0, <2>1 DEF StackKept
  <2>3. QED BY <2>1, <2>2, SameHost DEF irqVars, IInv, Mainline
<1>9. ASSUME ReachLoop PROVE IInv' /\ KeepsInterrupted
  <2>1. host = <<>> /\ UNCHANGED <<crs, irqVars, host, slot>>
    BY <1>9 DEF ReachLoop
  <2>2. StackKept
    BY <1>0, <2>1, Unchanged
  <2>3. QED BY <2>1, <2>2, SameHost DEF irqVars
<1>10. ASSUME ExceptionReturn PROVE IInv' /\ KeepsInterrupted
  <2>1. mode' = "unwind" /\ UNCHANGED <<crs, floor, nest, host, slot>>
    BY <1>10 DEF ExceptionReturn
  <2>2. StackKept
    BY <1>0, <2>1, Unchanged
  <2>3. QED BY <2>1, <2>2, SameHost
<1>11. ASSUME \/ Step \/ (\E r \in JumpRets \cup SwiRets : JumpCall(r))
              \/ SwiReturn \/ Yield \/ Redrive \/ Dispatch
       PROVE IInv' /\ KeepsInterrupted
  <2>1. mode' \in {"run", "unwind"} /\ UNCHANGED <<crs, irqVars, host, slot>>
    BY <1>11 DEF Step, JumpCall, MayCall, Running, SwiReturn, Yield, Redrive, Dispatch
  <2>2. StackKept
    BY <1>0, <2>1, Unchanged
  <2>3. QED BY <2>1, <2>2, SameHost DEF irqVars
<1>12. ASSUME UNCHANGED vars PROVE IInv'
  <2>1. UNCHANGED <<crs, irqVars, host, mode, slot>>
    BY <1>12 DEF vars, irqVars
  <2>2. StackKept
    BY <1>0, <2>1, Unchanged
  <2>3. QED BY <2>1, <2>2, SameHost DEF irqVars, IInv, Mainline
<1>13. QED BY <1>1, <1>2, <1>3, <1>4, <1>5, <1>6, <1>7, <1>8, <1>9, <1>10, <1>11, <1>12
           DEF Next

-----------------------------------------------------------------------------
\* The invariant holds in every reachable state.
THEOREM Invariance == Spec => []IInv
<1>1. Init => IInv
  <2> SUFFICES ASSUME Init PROVE IInv
    OBVIOUS
  <2>1. /\ crs = <<>> /\ floor = 0 /\ nest = 0 /\ host = <<>> /\ slot = None
    BY DEF Init
  <2>2. Irqs = {} /\ IsSequence(host) /\ DOMAIN host = {}
    BY <2>1, EmptySeq DEF Irqs, IsSequence
  <2>3. StackTypes
    BY <2>1, <2>2, EmptySeq DEF StackTypes
  <2>4. Nested /\ Mainline
    BY <2>1, <2>2 DEF Nested, Mainline
  <2>5. QED BY <2>3, <2>4 DEF IInv
<1>2. IInv /\ [Next]_vars => IInv'
  BY NextStep
<1>3. QED BY <1>1, <1>2, PTL DEF Spec

\* Whatever the guest does, at any depth of calls and IRQs, and wherever savestates
\* are sampled: the call frames of the code that an IRQ interrupted stay until the
\* IRQ ends (runtime_arm.cpp:844-874, 1277-1323).
THEOREM FramesUnderTheFloorStay == Spec => InterruptedFramesKept
<1>1. IInv /\ [Next]_vars => [KeepsInterrupted]_vars
  BY NextStep
<1>2. QED BY <1>1, Invariance, PTL DEF Spec, InterruptedFramesKept

-----------------------------------------------------------------------------
\* Typed sequences

\* One element more, of the same type.
LEMMA Appended ==
  ASSUME NEW S, NEW s \in Seq(S), NEW x \in S
  PROVE LET t == Append(s, x)
        IN /\ Len(s) \in Nat /\ DOMAIN s = 1..Len(s)
           /\ t \in Seq(S) /\ Len(t) = Len(s) + 1 /\ DOMAIN t = 1..(Len(s) + 1)
           /\ t[Len(s) + 1] = x /\ \A i \in 1..Len(s) : t[i] = s[i]
  BY LenProperties

\* The first m elements.
LEMMA Cut ==
  ASSUME NEW S, NEW s \in Seq(S), NEW m \in 0..Len(s)
  PROVE LET t == SubSeq(s, 1, m)
        IN /\ t \in Seq(S) /\ Len(t) = m /\ DOMAIN t = 1..m
           /\ \A i \in 1..m : t[i] = s[i]
<1>1. Len(s) \in Nat /\ m \in Nat /\ m <= Len(s)
  BY LenProperties
<1>2. \A i \in 1..m : s[i] \in S
  BY <1>1, ElementOfSeq
<1>3. QED BY <1>1, <1>2, SubSeqProperties, LenProperties

\* All elements but the last.
LEMMA Fronted ==
  ASSUME NEW S, NEW s \in Seq(S), s # <<>>
  PROVE /\ Len(s) \in Nat \ {0} /\ DOMAIN s = 1..Len(s) /\ Last(s) = s[Len(s)]
        /\ Last(s) \in S
        /\ Front(s) \in Seq(S) /\ Len(Front(s)) = Len(s) - 1
        /\ DOMAIN Front(s) = 1..(Len(s) - 1)
        /\ \A i \in 1..(Len(s) - 1) : Front(s)[i] = s[i]
<1>1. Len(s) \in Nat \ {0} /\ DOMAIN s = 1..Len(s)
  BY LenProperties, EmptySeq
<1>2. Len(s) - 1 \in 0..Len(s)
  BY <1>1
<1>3. Last(s) = s[Len(s)] /\ Last(s) \in S
  BY <1>1, ElementOfSeq DEF Last
<1>4. QED BY <1>1, <1>2, <1>3, Cut DEF Front

\* Another last element.
LEMMA Replaced ==
  ASSUME NEW S, NEW s \in Seq(S), s # <<>>, NEW x \in S
  PROVE LET t == Append(Front(s), x)
        IN /\ t \in Seq(S) /\ Len(t) = Len(s) /\ t # <<>>
           /\ Len(s) \in Nat \ {0} /\ DOMAIN s = 1..Len(s) /\ DOMAIN t = 1..Len(s)
           /\ t[Len(s)] = x /\ \A i \in 1..(Len(s) - 1) : t[i] = s[i]
<1>1. Len(s) \in Nat \ {0} /\ Front(s) \in Seq(S) /\ Len(Front(s)) = Len(s) - 1
      /\ \A i \in 1..(Len(s) - 1) : Front(s)[i] = s[i]
      /\ DOMAIN s = 1..Len(s)
  BY Fronted
<1>2. LET t == Append(Front(s), x)
      IN /\ t \in Seq(S) /\ Len(t) = Len(s) /\ DOMAIN t = 1..Len(s)
         /\ t[Len(s)] = x /\ \A i \in 1..(Len(s) - 1) : t[i] = Front(s)[i]
  BY <1>1, Appended
<1>3. QED BY <1>1, <1>2

-----------------------------------------------------------------------------
\* The guest's calls, the call-return stack and the BL sites that wait

\* The handler has returned, and runtime_irq's frame has not seen it yet.
Done == mode = "unwind" /\ nest > 0 /\ iret = nest

\* The contexts that do not recurse across sites: the handlers, and the mainline if
\* CrossRecursion says so.
Plain(m) == m > 1 \/ "mainline" \notin CrossRecursion

\* A savestate is of the mainline, and its call-return stack follows its guest.
SlotShape ==
  slot # None =>
    /\ slot.pc \in Addresses /\ slot.guest \in Seq(Seq(Rets)) /\ slot.crs \in Seq(BlRets)
    /\ Len(slot.guest) = 1 /\ (Plain(1) => OneSite(slot.guest[1]))
    /\ SubsequenceOf(slot.crs, slot.guest[1])

\* One guest context for each IRQ in progress, whose frame knows where it goes on;
\* a plain context has no recursion across sites.
Shape ==
  /\ Len(stacked) = IF Done THEN nest - 1 ELSE nest
  /\ Running /\ nest > 0 => iret # nest
  /\ \A i \in Irqs : /\ host[i].depth = 1 \/ host[i].iret # host[i].depth - 1
                     /\ host[i].depth <= Len(stacked) => stacked[host[i].depth] = host[i].at
  /\ Done => host # <<>> /\ Last(host).kind = "irq" /\ Last(host).at = pc
  /\ \A m \in DOMAIN guest : Plain(m) => OneSite(guest[m])

\* Each entry of the call-return stack belongs to a call that the guest has in
\* progress, in the context between whose floors it lies: entry x to call g[x] of
\* context c[x].
Belongs(c, g) ==
  /\ c \in [DOMAIN crs -> DOMAIN guest] /\ g \in [DOMAIN crs -> Nat]
  /\ \A x \in DOMAIN crs : g[x] \in DOMAIN guest[c[x]] /\ guest[c[x]][g[x]] = crs[x]
  /\ \A x, y \in DOMAIN crs : x < y /\ c[x] = c[y] => g[x] < g[y]
  /\ \A x \in DOMAIN crs : x > floor <=> c[x] = nest + 1
  /\ \A x \in DOMAIN crs, i \in Irqs : x > host[i].floor <=> c[x] >= host[i].depth
Own == \E c, g : Belongs(c, g)

\* Each BL site that waits in a plain context has an entry of its own in t, in the
\* order of the host stack, between the floors of its context: site i has entry e[i].
Sits(e, t) ==
  /\ e \in [PlainSites -> DOMAIN t]
  /\ \A i \in PlainSites : t[e[i]] = host[i].ret
  /\ \A i, j \in PlainSites : i < j => e[i] < e[j]
  /\ \A i \in PlainSites : e[i] > floor <=> \A m \in Irqs : m < i
  /\ \A i \in PlainSites, k \in Irqs :
       i < k => (e[i] > host[k].floor <=> \A m \in Irqs : m < i \/ m >= k)
Embeds(t) == \E e : Sits(e, t)

\* The sites have their entries, or all but the one that a C return has just
\* popped on the way to its site.
Known == \/ Embeds(crs)
         \/ mode = "unwind" /\ ~Done /\ Embeds(Append(crs, pc))

CallInv == TypeOK /\ NativeFollowsGuest /\ SlotShape /\ Shape /\ Own /\ Known
Both == IInv /\ CallInv

\* The types, once more, as the steps need them.
LEMMA Facts ==
  ASSUME Both
  PROVE /\ crs \in Seq(BlRets) /\ Len(crs) \in Nat /\ DOMAIN crs = 1..Len(crs)
        /\ floor \in Nat /\ floor <= Len(crs) /\ nest \in Nat /\ iret \in Nat
        /\ guest \in Seq(Seq(Rets)) /\ Len(guest) \in Nat \ {0} /\ guest # <<>>
        /\ DOMAIN guest = 1..Len(guest) /\ Len(guest) = Len(stacked) + 1
        /\ Calls = guest[Len(guest)] /\ Calls \in Seq(Rets) /\ Len(Calls) \in Nat
        /\ DOMAIN Calls = 1..Len(Calls)
        /\ stacked \in Seq(Addresses) /\ Len(stacked) \in Nat
        /\ host \in Seq(Frame) /\ Len(host) \in Nat /\ DOMAIN host = 1..Len(host)
        /\ Irqs \subseteq 1..Len(host) /\ Waiting = 1..Len(host) \ Irqs
        /\ pc \in Addresses
<1>1. TypeOK
  BY DEF Both, CallInv
<1>2. /\ crs \in Seq(BlRets) /\ Len(crs) \in Nat /\ DOMAIN crs = 1..Len(crs)
      /\ floor \in Nat /\ floor <= Len(crs) /\ nest \in Nat /\ iret \in Nat /\ pc \in Addresses
  BY <1>1, LenProperties DEF TypeOK
<1>3. guest \in Seq(Seq(Rets)) /\ Len(guest) = Len(stacked) + 1
      /\ stacked \in Seq(Addresses) /\ host \in Seq(Frame)
  BY <1>1 DEF TypeOK
<1>4. /\ Len(guest) \in Nat /\ DOMAIN guest = 1..Len(guest)
      /\ Len(stacked) \in Nat /\ Len(host) \in Nat /\ DOMAIN host = 1..Len(host)
  BY <1>3, LenProperties
<1>5. guest # <<>> /\ Len(guest) \in Nat \ {0}
  BY <1>3, <1>4, EmptySeq
<1>6. Calls = guest[Len(guest)] /\ Calls \in Seq(Rets)
  BY <1>3, <1>5, Fronted DEF Calls
<1>7. Len(Calls) \in Nat /\ DOMAIN Calls = 1..Len(Calls)
  BY <1>6, LenProperties
<1>8. \A i \in 1..Len(host) : host[i].kind \in {"bl", "irq"}
  BY <1>4 DEF Both, IInv, StackTypes
<1>9. Irqs \subseteq 1..Len(host) /\ Waiting = 1..Len(host) \ Irqs
  BY <1>4, <1>8 DEF Irqs, Waiting
<1>10. QED BY <1>2, <1>3, <1>4, <1>5, <1>6, <1>7, <1>9

\* What the frames hold.
LEMMA Frames ==
  ASSUME Both
  PROVE /\ \A i \in Irqs : /\ host[i].depth \in 1..nest /\ host[i].floor \in 0..floor
                           /\ host[i].iret \in Nat /\ host[i].at \in Addresses
                           /\ host[i].kind = "irq"
        /\ \A i \in Waiting : host[i].ret \in BlRets /\ host[i].kind = "bl"
<1>1. \A i \in DOMAIN host : host[i] \in Frame
  BY Facts, ElementOfSeq
<1>2. \A i \in Irqs : host[i].iret \in Nat /\ host[i].at \in Addresses /\ host[i].kind = "irq"
  BY <1>1 DEF Irqs, Frame
<1>3. \A i \in Waiting : host[i].ret \in BlRets /\ host[i].kind = "bl"
  BY <1>1 DEF Waiting, Frame
<1>4. QED BY <1>2, <1>3 DEF Both, IInv, Nested

\* The plain sites: those of the handlers, and those of the mainline or none.
LEMMA PlainSitesAre ==
  ASSUME "handler" \notin CrossRecursion, Both
  PROVE  PlainSites = {i \in Waiting : Plain(1) \/ \E m \in Irqs : m < i}
<1>1. ASSUME NEW i \in Waiting
      PROVE (\E m \in 1..i : host[m].kind = "irq") <=> \E m \in Irqs : m < i
  <2>1. /\ Irqs \subseteq 1..Len(host) /\ Len(host) \in Nat /\ DOMAIN host = 1..Len(host)
        /\ i \in 1..Len(host) /\ i \notin Irqs
    BY <1>1, Facts
  <2>2. \A m \in 1..i : m \in DOMAIN host /\ (m = i \/ m < i)
    BY <2>1
  <2>3. \A m \in Irqs : m < i => m \in 1..i
    BY <2>1
  <2>4. QED BY <2>1, <2>2, <2>3 DEF Irqs
<1>2. "mainline" \notin CrossRecursion <=> Plain(1)
  BY DEF Plain
<1>3. QED BY <1>1, <1>2 DEF PlainSites, SiteContext

\* The youngest frame of runtime_irq is the one of the present depth.
LEMMA TopIrq ==
  ASSUME Both, NEW n \in Irqs, \A m \in Irqs : m <= n
  PROVE host[n].depth = nest /\ nest > 0
<1>1. nest \in Nat /\ host[n].depth \in 1..nest /\ Irqs \subseteq Nat
  BY Facts, Frames
<1>2. PICK i \in Irqs : host[i].depth = nest
  BY <1>1 DEF Both, IInv, Nested
<1>3. i = n \/ i < n
  BY <1>1
<1>4. i < n => host[i].depth < host[n].depth
  BY DEF Both, IInv, Nested
<1>5. QED BY <1>1, <1>2, <1>3, <1>4

\* A frame is pushed.
LEMMA FramePushed ==
  ASSUME Both, NEW f \in Frame, host' = Append(host, f)
  PROVE LET n == Len(host)
        IN /\ host' \in Seq(Frame) /\ Len(host') = n + 1 /\ host'[n + 1] = f
           /\ host' # <<>>
           /\ \A i \in 1..n : host'[i] = host[i]
           /\ f.kind = "bl" => Irqs' = Irqs /\ Waiting' = Waiting \cup {n + 1}
           /\ f.kind = "irq" => Irqs' = Irqs \cup {n + 1} /\ Waiting' = Waiting
<1> DEFINE n == Len(host)
<1>1. /\ n \in Nat /\ DOMAIN host = 1..n /\ host' \in Seq(Frame) /\ Len(host') = n + 1
      /\ DOMAIN host' = 1..(n + 1) /\ host'[n + 1] = f /\ \A i \in 1..n : host'[i] = host[i]
  BY Facts, Appended
<1>2. host' # <<>>
  BY <1>1, EmptySeq
<1> HIDE DEF n
<1>3. \A i \in 1..(n + 1) : i \in 1..n \/ i = n + 1
  BY <1>1
<1>4. 1..n \subseteq 1..(n + 1) /\ n + 1 \in 1..(n + 1) /\ n + 1 \notin 1..n
  BY <1>1
<1>5. f.kind = "bl" => Irqs' = Irqs /\ Waiting' = Waiting \cup {n + 1}
  BY <1>1, <1>3, <1>4 DEF Irqs, Waiting
<1>6. f.kind = "irq" => Irqs' = Irqs \cup {n + 1} /\ Waiting' = Waiting
  BY <1>1, <1>3, <1>4 DEF Irqs, Waiting
<1>7. QED BY <1>1, <1>2, <1>5, <1>6 DEF n

\* The last frame is popped.
LEMMA FramePopped ==
  ASSUME Both, host # <<>>, host' = Front(host)
  PROVE LET n == Len(host)
        IN /\ host' \in Seq(Frame) /\ n \in Nat \ {0} /\ Len(host') = n - 1 /\ Last(host) = host[n]
           /\ \A i \in 1..(n - 1) : host'[i] = host[i]
           /\ Irqs' = Irqs \ {n} /\ Waiting' = Waiting \ {n}
           /\ n \in Irqs \/ n \in Waiting
<1> DEFINE n == Len(host)
<1>1. /\ n \in Nat \ {0} /\ DOMAIN host = 1..n /\ host' \in Seq(Frame) /\ Len(host') = n - 1
      /\ DOMAIN host' = 1..(n - 1) /\ Last(host) = host[n]
      /\ \A i \in 1..(n - 1) : host'[i] = host[i]
  <2>1. host \in Seq(Frame)
    BY Facts
  <2>2. QED BY <2>1, Fronted
<1>2. n \in Irqs \/ n \in Waiting
  <2>1. Waiting = 1..n \ Irqs
    BY Facts
  <2>2. n \in 1..n
    BY <1>1
  <2>3. QED BY <2>1, <2>2
<1> HIDE DEF n
<1>3. \A i \in 1..n : i \in 1..(n - 1) <=> i # n
  BY <1>1
<1>4. 1..(n - 1) \subseteq 1..n
  BY <1>1
<1>5. Irqs' = Irqs \ {n} /\ Waiting' = Waiting \ {n}
  BY <1>1, <1>3, <1>4 DEF Irqs, Waiting
<1>6. QED BY <1>1, <1>2, <1>5 DEF n

\* A pushed site is plain if its context is, and the others stay what they were.
LEMMA PlainPushed ==
  ASSUME "handler" \notin CrossRecursion, Both, NEW f \in Frame, host' = Append(host, f)
  PROVE /\ f.kind = "irq" => PlainSites' = PlainSites
        /\ f.kind = "bl" => IF Plain(1) \/ Irqs # {} THEN PlainSites' = PlainSites \cup {Len(host) + 1}
                                                    ELSE PlainSites' = {}
<1> DEFINE n == Len(host)
<1>1. /\ n \in Nat /\ host'[n + 1] = f /\ \A i \in 1..n : host'[i] = host[i]
      /\ f.kind = "bl" => Irqs' = Irqs /\ Waiting' = Waiting \cup {n + 1}
      /\ f.kind = "irq" => Irqs' = Irqs \cup {n + 1} /\ Waiting' = Waiting
      /\ Waiting \subseteq 1..n /\ Irqs \subseteq 1..n /\ DOMAIN host = 1..n
  BY FramePushed, Facts
<1> HIDE DEF n
<1>2. \A i \in Waiting : SiteContext(i)' = SiteContext(i)
  <2> SUFFICES ASSUME NEW i \in Waiting PROVE SiteContext(i)' = SiteContext(i)
    OBVIOUS
  <2>1. \A m \in 1..i : m \in 1..n
    BY <1>1
  <2>2. \A m \in 1..i : host'[m] = host[m]
    BY <1>1, <2>1
  <2>3. QED BY <2>2 DEF SiteContext
<1>3. f.kind = "irq" => PlainSites' = PlainSites
  BY <1>1, <1>2 DEF PlainSites
<1>4. PICK k : k = n + 1
  OBVIOUS
<1>5. ASSUME f.kind = "bl" PROVE SiteContext(k)' = IF Irqs = {} THEN "mainline" ELSE "handler"
  <2>1. \A m \in 1..k : m = k \/ m \in 1..n
    BY <1>1, <1>4
  <2>2. \A m \in 1..n : m \in 1..k
    BY <1>1, <1>4
  <2>3. host'[k].kind # "irq"
    BY <1>1, <1>4, <1>5
  <2>4. (\E m \in 1..k : host'[m].kind = "irq") <=> \E m \in 1..n : host[m].kind = "irq"
    BY <1>1, <2>1, <2>2, <2>3
  <2>5. (\E m \in 1..n : host[m].kind = "irq") <=> Irqs # {}
    BY <1>1 DEF Irqs
  <2>6. (\E m \in 1..k : host'[m].kind = "irq") <=> Irqs # {}
    BY <2>4, <2>5
  <2>7. SiteContext(k)' = IF \E m \in 1..k : host'[m].kind = "irq" THEN "handler" ELSE "mainline"
    BY DEF SiteContext
  <2>8. QED BY <2>6, <2>7
<1>6. f.kind = "bl" => Waiting' = Waiting \cup {k} /\ k \notin Waiting
  BY <1>1, <1>4
<1>7. ASSUME f.kind = "bl", Plain(1) \/ Irqs # {} PROVE PlainSites' = PlainSites \cup {k}
  <2>1. SiteContext(k)' \notin CrossRecursion
    BY <1>5, <1>7 DEF Plain
  <2>2. QED BY <1>2, <1>6, <1>7, <2>1 DEF PlainSites
<1>8. ASSUME f.kind = "bl", ~(Plain(1) \/ Irqs # {}) PROVE PlainSites' = {}
  <2>1. SiteContext(k)' \in CrossRecursion
    BY <1>5, <1>8 DEF Plain
  <2>2. PlainSites = {}
    BY <1>8, PlainSitesAre
  <2>3. QED BY <1>2, <1>6, <1>8, <2>1, <2>2 DEF PlainSites
<1>9. QED BY <1>3, <1>4, <1>7, <1>8 DEF n

\* A pop leaves the other sites what they were.
LEMMA PlainPopped ==
  ASSUME Both, host # <<>>, host' = Front(host)
  PROVE PlainSites' = PlainSites \ {Len(host)}
<1> DEFINE n == Len(host)
<1>1. /\ n \in Nat \ {0} /\ Waiting' = Waiting \ {n} /\ \A i \in 1..(n - 1) : host'[i] = host[i]
      /\ Waiting \subseteq 1..n
  BY FramePopped, Facts
<1> HIDE DEF n
<1>2. \A i \in Waiting' : SiteContext(i)' = SiteContext(i)
  <2> SUFFICES ASSUME NEW i \in Waiting' PROVE SiteContext(i)' = SiteContext(i)
    OBVIOUS
  <2>1. \A m \in 1..i : m \in 1..(n - 1)
    BY <1>1
  <2>2. \A m \in 1..i : host'[m] = host[m]
    BY <1>1, <2>1
  <2>3. QED BY <2>2 DEF SiteContext
<1>3. QED BY <1>1, <1>2 DEF PlainSites, n

\* A step that keeps the frames.
LEMMA FramesKept ==
  ASSUME host' = host PROVE Irqs' = Irqs /\ Waiting' = Waiting /\ PlainSites' = PlainSites
<1>1. Irqs' = Irqs /\ Waiting' = Waiting
  BY DEF Irqs, Waiting
<1>2. \A i : SiteContext(i)' = SiteContext(i)
  BY DEF SiteContext
<1>3. QED BY <1>1, <1>2 DEF PlainSites

\* The outer loop is reached with no IRQ in progress and nothing waiting.
LEMMA AtLoop ==
  ASSUME Both, mode = "loop" \/ host = <<>>
  PROVE host = <<>> /\ Irqs = {} /\ Waiting = {} /\ nest = 0 /\ floor = 0 /\ Len(guest) = 1
        /\ stacked = <<>>
<1>1. host = <<>>
  BY DEF Both, IInv, Mainline
<1>2. Irqs = {} /\ Waiting = {}
  BY <1>1, EmptySeq DEF Irqs, Waiting
<1>3. nest = 0
  BY <1>2, Facts DEF Both, IInv, Nested
<1>4. floor = 0
  BY <1>3 DEF Both, IInv, Mainline
<1>5. Len(stacked) = 0
  BY <1>3, Facts DEF Both, CallInv, Shape, Done
<1>6. stacked \in Seq(Addresses) /\ Len(guest) = Len(stacked) + 1
  BY Facts
<1>7. QED BY <1>1, <1>2, <1>3, <1>4, <1>5, <1>6, EmptySeq

\* The current context's calls are replaced.
LEMMA CallsReplaced ==
  ASSUME Both, NEW t \in Seq(Rets), guest' = WithCalls(t)
  PROVE /\ guest' \in Seq(Seq(Rets)) /\ Len(guest') = Len(guest) /\ DOMAIN guest' = DOMAIN guest
        /\ guest'[Len(guest)] = t
        /\ \A m \in DOMAIN guest : m # Len(guest) => guest'[m] = guest[m]
<1>1. guest \in Seq(Seq(Rets)) /\ guest # <<>>
  BY Facts
<1>2. guest' = Append(Front(guest), t)
  BY DEF WithCalls
<1>3. /\ guest' \in Seq(Seq(Rets)) /\ Len(guest') = Len(guest)
      /\ Len(guest) \in Nat \ {0} /\ DOMAIN guest = 1..Len(guest) /\ DOMAIN guest' = 1..Len(guest)
      /\ guest'[Len(guest)] = t /\ \A i \in 1..(Len(guest) - 1) : guest'[i] = guest[i]
  BY <1>1, <1>2, Replaced
<1>4. \A m \in DOMAIN guest : m # Len(guest) => m \in 1..(Len(guest) - 1)
  BY <1>3
<1>5. QED BY <1>3, <1>4

\* A return takes the last of the current context's calls.
LEMMA LastCall ==
  ASSUME Both, Calls # <<>>
  PROVE /\ Last(Calls) = Calls[Len(Calls)] /\ Last(Calls) \in Rets /\ Len(Calls) \in Nat \ {0}
        /\ DOMAIN Calls = 1..Len(Calls)
        /\ Front(Calls) \in Seq(Rets) /\ DOMAIN Front(Calls) = 1..(Len(Calls) - 1)
        /\ \A i \in 1..(Len(Calls) - 1) : Front(Calls)[i] = Calls[i]
<1>1. Calls \in Seq(Rets)
  BY Facts
<1>2. QED BY <1>1, Fronted

\* Every step keeps the types.
LEMMA TypesKept ==
  ASSUME ~PresentInPlace, Both, Next, IInv' PROVE TypeOK'
<1>1. /\ crs' \in Seq(BlRets) /\ floor' \in 0..Len(crs') /\ nest' \in Nat
  BY DEF IInv, StackTypes
<1>2. TypeOK
  BY DEF Both, CallInv
<1>3. Elsewhere \in Addresses /\ Rets \subseteq Addresses /\ BlRets \subseteq Rets
      /\ JumpRets \subseteq Rets /\ SwiRets \subseteq Rets
  BY DEF Addresses, Rets
<1>4. ASSUME Step \/ Yield \/ Redrive \/ ReachLoop \/ Dispatch \/ SaveState PROVE TypeOK'
  BY <1>1, <1>2, <1>3, <1>4
     DEF TypeOK, Step, Yield, Redrive, ReachLoop, Dispatch, SaveState, Goto, irqVars, Running
<1>5. ASSUME NEW r \in Rets, guest' = WithCalls(Append(Calls, r)),
             UNCHANGED <<irqVars, mode>>, Goto(Elsewhere), host' \in Seq(Frame)
      PROVE TypeOK'
  <2>1. Append(Calls, r) \in Seq(Rets)
    BY Facts
  <2>2. guest' \in Seq(Seq(Rets)) /\ Len(guest') = Len(guest)
    BY <1>5, <2>1, CallsReplaced
  <2>3. QED BY <1>1, <1>2, <1>3, <1>5, <2>2 DEF TypeOK, Goto, irqVars
<1>6. ASSUME NEW r \in BlRets, Call(r) PROVE TypeOK'
  <2>1. BlFrame(r) \in Frame
    BY DEF BlFrame, Frame
  <2>2. host' \in Seq(Frame)
    BY <1>6, <2>1, FramePushed DEF Call
  <2>3. QED BY <1>3, <1>5, <1>6, <2>2 DEF Call
<1>7. ASSUME NEW r \in JumpRets \cup SwiRets, JumpCall(r) PROVE TypeOK'
  BY <1>2, <1>3, <1>5, <1>7 DEF JumpCall, TypeOK
<1>8. ASSUME Return \/ SwiReturn PROVE TypeOK'
  <2>1. /\ Calls # <<>> /\ guest' = WithCalls(Front(Calls)) /\ pc' = Last(Calls)
        /\ native' \in {native, Last(Calls)} /\ mode' \in {mode, "unwind"}
        /\ UNCHANGED <<irqVars, host>>
    BY <1>8 DEF Return, SwiReturn
  <2>2. guest' \in Seq(Seq(Rets)) /\ Len(guest') = Len(guest)
    BY <2>1, LastCall, CallsReplaced
  <2>3. Last(Calls) \in Addresses
    BY <1>3, <2>1, LastCall
  <2>4. QED BY <1>1, <1>2, <2>1, <2>2, <2>3 DEF TypeOK, irqVars
<1>9. ASSUME Irq PROVE TypeOK'
  <2>1. IrqFrame(nest + 1) \in Frame
    BY <1>2, Facts DEF IrqFrame, Frame
  <2>2. host' \in Seq(Frame)
    BY <1>9, <2>1, FramePushed DEF Irq
  <2>3. <<>> \in Seq(Rets)
    BY EmptySeq
  <2>4. guest' \in Seq(Seq(Rets)) /\ Len(guest') = Len(guest) + 1
    BY <1>9, <2>3, Facts, Appended DEF Irq
  <2>5. stacked' \in Seq(Addresses) /\ Len(stacked') = Len(stacked) + 1
    BY <1>9, Facts, Appended DEF Irq
  <2>6. Len(guest') = Len(stacked') + 1
    BY <2>4, <2>5, Facts
  <2>7. QED BY <1>1, <1>2, <1>3, <1>9, <2>2, <2>4, <2>5, <2>6 DEF TypeOK, Irq, Goto
<1>10. ASSUME ExceptionReturn PROVE TypeOK'
  <2>1. stacked # <<>> /\ stacked \in Seq(Addresses) /\ guest \in Seq(Seq(Rets)) /\ guest # <<>>
    BY <1>10, Facts DEF ExceptionReturn
  <2>2. guest' \in Seq(Seq(Rets)) /\ Len(guest') = Len(guest) - 1
    BY <1>10, <2>1, Fronted DEF ExceptionReturn
  <2>3. stacked' \in Seq(Addresses) /\ Len(stacked') = Len(stacked) - 1 /\ pc' \in Addresses
    BY <1>10, <2>1, Fronted DEF ExceptionReturn
  <2>4. Len(guest') = Len(stacked') + 1
    BY <2>2, <2>3, Facts
  <2>5. QED BY <1>1, <1>2, <1>10, <2>2, <2>3, <2>4 DEF TypeOK, ExceptionReturn
<1>11. ASSUME Resume \/ GiveUp PROVE TypeOK'
  <2>1. /\ host # <<>> /\ host' = Front(host) /\ native' \in {native, pc}
        /\ mode' \in {"run", "unwind"} /\ UNCHANGED <<pc, guest, irqVars>>
    BY <1>2, <1>11 DEF Resume, GiveUp, Unwinding, TypeOK
  <2>2. host' \in Seq(Frame)
    BY <2>1, FramePopped
  <2>3. QED BY <1>1, <1>2, <2>1, <2>2 DEF TypeOK, irqVars
<1>12. ASSUME IrqDone PROVE TypeOK'
  <2>1. /\ host # <<>> /\ Last(host).kind = "irq" /\ host' = Front(host) /\ mode' = "run"
        /\ iret' = Last(host).iret /\ native' = Last(host).at
        /\ UNCHANGED <<pc, guest, stacked>>
    BY <1>12 DEF IrqDone, Unwinding
  <2>2. /\ host' \in Seq(Frame) /\ Last(host) = host[Len(host)]
        /\ Len(host) \in Irqs \/ Len(host) \in Waiting
    BY <2>1, FramePopped
  <2>3. Len(host) \in Irqs
    BY <2>1, <2>2, Frames
  <2>4. iret' \in Nat /\ native' \in Addresses
    BY <2>1, <2>2, <2>3, Frames
  <2>5. QED BY <1>1, <1>2, <2>1, <2>2, <2>4 DEF TypeOK
<1>13. ASSUME LoadState PROVE TypeOK'
  <2>1. /\ mode = "loop" /\ slot # None /\ pc' = slot.pc /\ guest' = slot.guest
        /\ UNCHANGED <<irqVars, host, mode, native>>
    BY <1>13 DEF LoadState, Sampled
  <2>2. pc' \in Addresses /\ guest' \in Seq(Seq(Rets)) /\ Len(guest') = 1
    BY <2>1 DEF Both, CallInv, SlotShape
  <2>3. Len(guest') = Len(stacked) + 1
    BY <2>1, <2>2, AtLoop, EmptySeq
  <2>4. QED BY <1>1, <1>2, <2>1, <2>2, <2>3 DEF TypeOK, irqVars
<1>14. QED
  BY <1>4, <1>6, <1>7, <1>8, <1>9, <1>10, <1>11, <1>12, <1>13 DEF Next

\* The entries of the current context are a subsequence of its calls.
LEMMA TopFollows ==
  ASSUME Both PROVE StackFollowsGuest
<1>1. PICK c, g : Belongs(c, g)
  BY DEF Both, CallInv, Own
<1> DEFINE s == TopSegment
<1>2. /\ crs \in Seq(BlRets) /\ Len(crs) \in Nat /\ DOMAIN crs = 1..Len(crs)
      /\ floor \in Nat /\ floor <= Len(crs) /\ nest \in Nat
      /\ Len(guest) \in Nat \ {0} /\ DOMAIN guest = 1..Len(guest)
      /\ Calls = guest[Len(guest)]
  BY Facts
<1>0. Len(crs) \in Nat /\ floor \in Nat /\ floor <= Len(crs) /\ nest \in Nat /\ Len(guest) \in Nat
  BY <1>2
<1>3. DOMAIN s = 1..(Len(crs) - floor) /\ \A x \in DOMAIN s : s[x] = crs[x + floor]
  <2>1. \A i \in (floor + 1)..Len(crs) : crs[i] \in BlRets
    BY <1>2, ElementOfSeq
  <2>2. /\ s \in Seq(BlRets)
        /\ Len(s) = IF floor + 1 <= Len(crs) THEN Len(crs) - (floor + 1) + 1 ELSE 0
        /\ \A i \in 1..(Len(crs) - (floor + 1) + 1) : s[i] = crs[(floor + 1) + i - 1]
    BY <1>2, <2>1, SubSeqProperties DEF TopSegment
  <2> HIDE DEF s
  <2>3. Len(s) = Len(crs) - floor
    <3>1. Len(s) = IF floor + 1 <= Len(crs) THEN Len(crs) - (floor + 1) + 1 ELSE 0
      BY <2>2
    <3>2. QED BY <1>0, <3>1
  <2>4. DOMAIN s = 1..Len(s)
    BY <2>2, LenProperties
  <2>5. (Len(crs) - (floor + 1)) + 1 = Len(crs) - floor
        /\ \A i \in 1..(Len(crs) - floor) : ((floor + 1) + i) - 1 = i + floor
    BY <1>0
  <2>6. \A i \in 1..(Len(crs) - (floor + 1) + 1) : s[i] = crs[(floor + 1) + i - 1]
    BY <2>2
  <2>7. \A i \in 1..(Len(crs) - floor) : s[i] = crs[i + floor]
    <3> SUFFICES ASSUME NEW i \in 1..(Len(crs) - floor) PROVE s[i] = crs[i + floor]
      OBVIOUS
    <3>1. s[i] = crs[((floor + 1) + i) - 1]
      BY <1>0, <2>6
    <3>2. ((floor + 1) + i) - 1 = i + floor
      BY <2>5
    <3>3. QED BY <3>1, <3>2
  <2>8. QED BY <2>3, <2>4, <2>7
<1>4. ASSUME NEW x \in DOMAIN s
      PROVE x + floor \in DOMAIN crs /\ c[x + floor] = nest + 1 /\ nest + 1 \in DOMAIN guest
  <2>1. x + floor \in DOMAIN crs /\ x + floor > floor
    BY <1>2, <1>3
  <2>2. QED BY <1>1, <2>1 DEF Belongs
<1>5. CASE DOMAIN s = {}
  <2>1. PICK f : f = [x \in DOMAIN s |-> 1]
    OBVIOUS
  <2>2. f \in [DOMAIN s -> DOMAIN OwnCalls]
    BY <1>5, <2>1
  <2>3. QED BY <1>5, <2>2 DEF StackFollowsGuest, SubsequenceOf
<1>6. CASE DOMAIN s # {}
  <2>1. Len(guest) = nest + 1
    <3>1. nest + 1 <= Len(guest)
      BY <1>2, <1>4, <1>6
    <3>2. Len(guest) <= nest + 1
      <4>1. Len(stacked) = IF Done THEN nest - 1 ELSE nest
        BY DEF Both, CallInv, Shape
      <4>2. Len(stacked) \in {nest - 1, nest} /\ Len(guest) = Len(stacked) + 1
        BY <4>1, Facts
      <4>3. QED BY <1>2, <4>2
    <3>3. QED BY <1>0, <3>1, <3>2
  <2>2. OwnCalls = guest[nest + 1]
    BY <1>2, <2>1 DEF OwnCalls
  <2>3. PICK f : f = [x \in DOMAIN s |-> g[x + floor]]
    OBVIOUS
  <2>4. \A x \in DOMAIN s : f[x] \in DOMAIN OwnCalls /\ s[x] = OwnCalls[f[x]]
    BY <1>1, <1>3, <1>4, <2>2, <2>3 DEF Belongs
  <2>5. \A x, y \in DOMAIN s : x < y => f[x] < f[y]
    <3> SUFFICES ASSUME NEW x \in DOMAIN s, NEW y \in DOMAIN s, x < y PROVE f[x] < f[y]
      OBVIOUS
    <3>1. x + floor < y + floor
      BY <1>2, <1>3
    <3>2. g[x + floor] < g[y + floor]
      BY <1>1, <1>4, <3>1 DEF Belongs
    <3>3. QED BY <2>3, <3>2
  <2>6. f \in [DOMAIN s -> DOMAIN OwnCalls]
    BY <2>3, <2>4
  <2>7. QED BY <2>4, <2>5, <2>6 DEF StackFollowsGuest, SubsequenceOf
<1>7. QED BY <1>5, <1>6

\* Savestates are whole.
LEMMA SlotKept ==
  ASSUME ~PresentInPlace, Both, Next PROVE SlotShape'
<1>1. CASE slot' = slot
  BY <1>1 DEF SlotShape, Both, CallInv
<1>2. CASE SaveState
  <2>1. slot' = [pc |-> pc, guest |-> guest, crs |-> crs] /\ mode = "loop"
    BY <1>2 DEF SaveState, Sampled
  <2>2. nest = 0 /\ floor = 0 /\ Len(guest) = 1
    BY <2>1, AtLoop
  <2>3. guest \in Seq(Seq(Rets)) /\ crs \in Seq(BlRets) /\ pc \in Addresses
        /\ Calls = guest[1] /\ DOMAIN guest = 1..1
    BY <2>2, Facts
  <2>4. Plain(1) => OneSite(guest[1])
    BY <2>3 DEF Both, CallInv, Shape
  <2>5. TopSegment = crs /\ OwnCalls = guest[1]
    <3>1. Len(crs) \in Nat
      BY Facts
    <3>2. SubSeq(crs, 1, Len(crs)) = crs
      BY <2>3, <3>1
    <3>3. QED BY <2>2, <2>3, <3>2 DEF TopSegment, OwnCalls
  <2>6. SubsequenceOf(crs, guest[1])
    BY <2>5, TopFollows DEF StackFollowsGuest
  <2>7. QED BY <2>1, <2>2, <2>3, <2>4, <2>6 DEF SlotShape
<1>3. QED
  BY <1>1, <1>2
     DEF Next, Step, Call, JumpCall, Return, SwiReturn, Yield, Irq, ExceptionReturn, Resume,
         GiveUp, Redrive, IrqDone, ReachLoop, Dispatch, LoadState

\* While native code runs, the current context is the last one.
LEMMA RunContext ==
  ASSUME Both, ~Done PROVE Len(guest) = nest + 1 /\ Len(stacked) = nest
<1>1. Len(stacked) = nest
  BY DEF Both, CallInv, Shape
<1>2. QED BY <1>1, Facts

\* Without recursion across sites, a return whose address the stack knows finds it
\* on top: an older activation would be below another call of the same context, and
\* that call between two of the returning site.
LEMMA MatchIsTop ==
  ASSUME Both, Running, Calls # <<>>, OneSite(Calls),
         NEW i \in Entries(Last(Calls)), FoundEntry(i)
  PROVE i = Len(crs)
<1> DEFINE n == Len(crs)
           r == Last(Calls)
<1>1. PICK c, g : Belongs(c, g)
  BY DEF Both, CallInv, Own
<1>2. n \in Nat /\ DOMAIN crs = 1..n /\ floor \in Nat /\ nest \in Nat
      /\ Calls = guest[Len(guest)] /\ DOMAIN guest = 1..Len(guest) /\ Len(guest) \in Nat \ {0}
  BY Facts
<1>3. Len(guest) = nest + 1
  BY RunContext DEF Running, Done
<1>4. i \in DOMAIN crs /\ i > floor /\ crs[i] = r /\ i <= n /\ i \in Nat
  BY <1>2 DEF Entries
<1> SUFFICES ASSUME i < n PROVE FALSE
  BY <1>4, <1>2
<1>5. n \in DOMAIN crs /\ n > floor
  BY <1>2, <1>4
<1>6. c[i] = nest + 1 /\ c[n] = nest + 1 /\ g[i] < g[n]
  BY <1>1, <1>4, <1>5 DEF Belongs
<1>7. /\ g[i] \in DOMAIN Calls /\ Calls[g[i]] = r
      /\ g[n] \in DOMAIN Calls /\ Calls[g[n]] = crs[n]
  BY <1>1, <1>2, <1>3, <1>4, <1>5, <1>6 DEF Belongs
<1>8. crs[n] # r
  <2>1. ASSUME crs[n] = r PROVE FALSE
    <3>1. n \in Entries(r)
      BY <1>2, <1>5, <2>1 DEF Entries
    <3>2. QED BY <3>1, <1>2, <1>4 DEF FoundEntry
  <2>2. QED BY <2>1
<1>9. r = Calls[Len(Calls)] /\ Len(Calls) \in DOMAIN Calls /\ DOMAIN Calls = 1..Len(Calls)
      /\ Len(Calls) \in Nat
  BY LastCall
<1>10. g[n] # Len(Calls)
  BY <1>7, <1>8, <1>9
<1>11. g[n] < Len(Calls)
  BY <1>7, <1>9, <1>10
<1>12. Calls[g[n]] = Calls[g[i]]
  BY <1>6, <1>7, <1>9, <1>11 DEF OneSite
<1>13. QED BY <1>7, <1>8, <1>12

\* Entries leave the top of the stack, or none, and the calls that the others
\* belong to stay.
LEMMA Trimmed ==
  ASSUME Both, NEW c, NEW g, Belongs(c, g),
         DOMAIN crs' \subseteq DOMAIN crs, \A x \in DOMAIN crs' : crs'[x] = crs[x],
         floor' = floor, nest' = nest, Irqs' = Irqs, \A i \in Irqs : host'[i] = host[i],
         DOMAIN guest' = DOMAIN guest,
         \A x \in DOMAIN crs' : /\ g[x] \in DOMAIN guest'[c[x]]
                                /\ guest'[c[x]][g[x]] = guest[c[x]][g[x]]
  PROVE Own'
<1>1. PICK c2 : c2 = [x \in DOMAIN crs' |-> c[x]]
  OBVIOUS
<1>2. PICK g2 : g2 = [x \in DOMAIN crs' |-> g[x]]
  OBVIOUS
<1>3. c2 \in [DOMAIN crs' -> DOMAIN guest'] /\ g2 \in [DOMAIN crs' -> Nat]
  BY <1>1, <1>2 DEF Belongs
<1>4. \A x \in DOMAIN crs' : c2[x] = c[x] /\ g2[x] = g[x]
  BY <1>1, <1>2
<1>5. \A x \in DOMAIN crs' : g2[x] \in DOMAIN guest'[c2[x]] /\ guest'[c2[x]][g2[x]] = crs'[x]
  BY <1>4 DEF Belongs
<1>6. \A x, y \in DOMAIN crs' : x < y /\ c2[x] = c2[y] => g2[x] < g2[y]
  BY <1>4 DEF Belongs
<1>7. \A x \in DOMAIN crs' : x > floor' <=> c2[x] = nest' + 1
  BY <1>4 DEF Belongs
<1>8. \A x \in DOMAIN crs', i \in Irqs' : x > host'[i].floor <=> c2[x] >= host'[i].depth
  BY <1>4 DEF Belongs
<1>9. Belongs(c2, g2)'
  BY <1>3, <1>5, <1>6, <1>7, <1>8 DEF Belongs
<1>10. QED BY <1>9 DEF Own

\* A step that takes entries off the top at most, and leaves the guest alone.
LEMMA OwnKept ==
  ASSUME Both, DOMAIN crs' \subseteq DOMAIN crs, \A x \in DOMAIN crs' : crs'[x] = crs[x],
         floor' = floor, nest' = nest, Irqs' = Irqs, \A i \in Irqs : host'[i] = host[i],
         guest' = guest
  PROVE Own'
<1>1. PICK c, g : Belongs(c, g)
  BY DEF Both, CallInv, Own
<1>2. \A x \in DOMAIN crs' : g[x] \in DOMAIN guest'[c[x]] /\ guest'[c[x]][g[x]] = guest[c[x]][g[x]]
  BY <1>1 DEF Belongs
<1>3. QED BY <1>1, <1>2, Trimmed

\* A call that pushes nothing.
LEMMA OwnJumpCall ==
  ASSUME Both, NEW r \in JumpRets \cup SwiRets, JumpCall(r) PROVE Own'
<1>1. PICK c, g : Belongs(c, g)
  BY DEF Both, CallInv, Own
<1>2. r \in Rets /\ Calls \in Seq(Rets) /\ Calls = guest[Len(guest)]
  BY Facts DEF Rets
<1>3. LET t == Append(Calls, r)
      IN t \in Seq(Rets) /\ \A k \in DOMAIN Calls : k \in DOMAIN t /\ t[k] = Calls[k]
  BY <1>2, Appended
<1>4. /\ DOMAIN guest' = DOMAIN guest /\ guest'[Len(guest)] = Append(Calls, r)
      /\ \A m \in DOMAIN guest : m # Len(guest) => guest'[m] = guest[m]
  BY <1>3, CallsReplaced DEF JumpCall
<1>5. \A m \in DOMAIN guest : \A k \in DOMAIN guest[m] :
        k \in DOMAIN guest'[m] /\ guest'[m][k] = guest[m][k]
  BY <1>2, <1>3, <1>4
<1>6. UNCHANGED <<crs, floor, nest, host>>
  BY DEF JumpCall, irqVars
<1>7. \A x \in DOMAIN crs : c[x] \in DOMAIN guest /\ g[x] \in DOMAIN guest[c[x]]
  BY <1>1 DEF Belongs
<1>8. QED BY <1>1, <1>4, <1>5, <1>6, <1>7, FramesKept, Trimmed

\* A BL: the new entry belongs to the new call.
LEMMA OwnCall ==
  ASSUME Both, NEW r \in BlRets, Call(r) PROVE Own'
<1> DEFINE n == Len(crs)
           p == Len(guest)
           q == Len(Calls)
<1>1. PICK c, g : Belongs(c, g)
  BY DEF Both, CallInv, Own
<1>2. /\ n \in Nat /\ DOMAIN crs = 1..n /\ crs \in Seq(BlRets) /\ floor \in Nat /\ floor <= n
      /\ nest \in Nat /\ p \in Nat \ {0} /\ DOMAIN guest = 1..p /\ Calls = guest[p]
      /\ Calls \in Seq(Rets) /\ q \in Nat /\ DOMAIN Calls = 1..q
  BY Facts
<1>3. p = nest + 1
  BY RunContext DEF Call, MayCall, Running, Done
<1>4. /\ DOMAIN crs' = 1..(n + 1) /\ crs'[n + 1] = r /\ \A x \in 1..n : crs'[x] = crs[x]
  BY <1>2, Appended DEF Call
<1>5. r \in Rets
  BY DEF Rets
<1>6. LET t == Append(Calls, r)
      IN t \in Seq(Rets) /\ DOMAIN t = 1..(q + 1) /\ t[q + 1] = r /\ \A k \in 1..q : t[k] = Calls[k]
  BY <1>2, <1>5, Appended
<1>7. /\ DOMAIN guest' = DOMAIN guest /\ guest'[p] = Append(Calls, r)
      /\ \A m \in DOMAIN guest : m # p => guest'[m] = guest[m]
  BY <1>6, CallsReplaced DEF Call
<1>8. host' = Append(host, BlFrame(r)) /\ UNCHANGED <<floor, nest>>
  BY DEF Call, irqVars
<1>9. BlFrame(r) \in Frame /\ BlFrame(r).kind = "bl"
  BY DEF BlFrame, Frame
<1>10. Irqs' = Irqs /\ \A i \in Irqs : host'[i] = host[i]
  BY <1>8, <1>9, FramePushed, Facts
<1> HIDE DEF n, p, q
<1>11. PICK c2 : c2 = [x \in 1..(n + 1) |-> IF x = n + 1 THEN p ELSE c[x]]
  OBVIOUS
<1>12. PICK g2 : g2 = [x \in 1..(n + 1) |-> IF x = n + 1 THEN q + 1 ELSE g[x]]
  OBVIOUS
<1>13. /\ \A x \in 1..n : x \in 1..(n + 1) /\ x # n + 1 /\ c2[x] = c[x] /\ g2[x] = g[x]
       /\ c2[n + 1] = p /\ g2[n + 1] = q + 1
       /\ \A x \in 1..(n + 1) : x = n + 1 \/ x \in 1..n
  BY <1>2, <1>11, <1>12
<1>14. \A x \in 1..n : c[x] \in 1..p /\ g[x] \in Nat /\ g[x] \in DOMAIN guest[c[x]]
                       /\ guest[c[x]][g[x]] = crs[x]
  BY <1>1, <1>2 DEF Belongs
<1>15. c2 \in [DOMAIN crs' -> DOMAIN guest'] /\ g2 \in [DOMAIN crs' -> Nat]
  <2>1. \A x \in 1..(n + 1) : c2[x] \in 1..p /\ g2[x] \in Nat
    <3>1. p \in 1..p /\ q + 1 \in Nat
      BY <1>2
    <3>2. QED BY <1>13, <1>14, <3>1
  <2>2. QED BY <1>2, <1>4, <1>7, <1>11, <1>12, <2>1
<1>16. \A m \in DOMAIN guest : \A k \in DOMAIN guest[m] :
         k \in DOMAIN guest'[m] /\ guest'[m][k] = guest[m][k]
  <2>1. \A k \in 1..q : k \in 1..(q + 1)
    BY <1>2
  <2>2. QED BY <1>2, <1>6, <1>7, <2>1
<1>17. \A x \in DOMAIN crs' : g2[x] \in DOMAIN guest'[c2[x]] /\ guest'[c2[x]][g2[x]] = crs'[x]
  <2>1. q + 1 \in 1..(q + 1)
    BY <1>2
  <2>2. \A x \in 1..n : g2[x] \in DOMAIN guest'[c2[x]] /\ guest'[c2[x]][g2[x]] = crs'[x]
    <3> SUFFICES ASSUME NEW x \in 1..n
                 PROVE g2[x] \in DOMAIN guest'[c2[x]] /\ guest'[c2[x]][g2[x]] = crs'[x]
      OBVIOUS
    <3>1. c2[x] = c[x] /\ g2[x] = g[x] /\ crs'[x] = crs[x]
      BY <1>4, <1>13
    <3>2. c[x] \in DOMAIN guest /\ g[x] \in DOMAIN guest[c[x]] /\ guest[c[x]][g[x]] = crs[x]
      BY <1>2, <1>14
    <3>3. QED BY <1>16, <3>1, <3>2
  <2>3. QED BY <1>4, <1>6, <1>7, <1>13, <2>1, <2>2
<1>18. \A x, y \in DOMAIN crs' : x < y /\ c2[x] = c2[y] => g2[x] < g2[y]
  <2> SUFFICES ASSUME NEW x \in 1..(n + 1), NEW y \in 1..(n + 1), x < y, c2[x] = c2[y]
               PROVE g2[x] < g2[y]
    BY <1>4
  <2>1. x \in 1..n
    BY <1>2
  <2>2. CASE y \in 1..n
    BY <1>1, <1>2, <1>13, <2>1, <2>2 DEF Belongs
  <2>3. CASE y = n + 1
    <3>1. c[x] = p /\ g[x] \in 1..q
      BY <1>2, <1>13, <1>14, <2>1, <2>3
    <3>2. QED BY <1>2, <1>13, <2>1, <2>3, <3>1
  <2>4. QED BY <1>13, <2>2, <2>3
<1>19. \A x \in DOMAIN crs' : x > floor' <=> c2[x] = nest' + 1
  <2>1. n + 1 > floor /\ c2[n + 1] = nest + 1
    BY <1>2, <1>3, <1>13
  <2>2. \A x \in 1..n : x > floor <=> c2[x] = nest + 1
    BY <1>1, <1>2, <1>13 DEF Belongs
  <2>3. QED BY <1>4, <1>8, <1>13, <2>1, <2>2
<1>20. \A x \in DOMAIN crs', i \in Irqs' : x > host'[i].floor <=> c2[x] >= host'[i].depth
  <2>1. ASSUME NEW i \in Irqs PROVE n + 1 > host[i].floor /\ c2[n + 1] >= host[i].depth
    <3>1. host[i].floor \in 0..floor /\ host[i].depth \in 1..nest
      BY Frames
    <3>2. QED BY <1>2, <1>3, <1>13, <3>1
  <2>2. \A x \in 1..n, i \in Irqs : x > host[i].floor <=> c2[x] >= host[i].depth
    BY <1>1, <1>2, <1>13 DEF Belongs
  <2>3. QED BY <1>4, <1>10, <1>13, <2>1, <2>2
<1>21. Belongs(c2, g2)'
  BY <1>15, <1>17, <1>18, <1>19, <1>20 DEF Belongs
<1>22. QED BY <1>21 DEF Own

\* A return, by a BL's idiom or of an SWI: no entry is left that belongs to the
\* call that has returned.
LEMMA OwnReturn ==
  ASSUME Both, Return \/ SwiReturn PROVE Own'
<1> DEFINE n == Len(crs)
           p == Len(guest)
           q == Len(Calls)
           r == Last(Calls)
<1>1. PICK c, g : Belongs(c, g)
  BY DEF Both, CallInv, Own
<1>2. /\ n \in Nat /\ DOMAIN crs = 1..n /\ crs \in Seq(BlRets) /\ floor \in Nat /\ floor <= n
      /\ nest \in Nat /\ p \in Nat \ {0} /\ DOMAIN guest = 1..p /\ Calls = guest[p]
  BY Facts
<1>3. p = nest + 1
  BY RunContext DEF Return, SwiReturn, Running, Done
<1>4. Calls # <<>> /\ guest' = WithCalls(Front(Calls)) /\ UNCHANGED <<floor, nest, host>>
  BY DEF Return, SwiReturn, irqVars
<1>5. /\ r = Calls[q] /\ q \in Nat \ {0} /\ DOMAIN Calls = 1..q
      /\ Front(Calls) \in Seq(Rets) /\ DOMAIN Front(Calls) = 1..(q - 1)
      /\ \A k \in 1..(q - 1) : Front(Calls)[k] = Calls[k]
  BY <1>4, LastCall
<1>6. /\ DOMAIN guest' = DOMAIN guest /\ guest'[p] = Front(Calls)
      /\ \A m \in DOMAIN guest : m # p => guest'[m] = guest[m]
  BY <1>4, <1>5, CallsReplaced
<1>7. ASSUME NEW x \in DOMAIN crs, c[x] = p
      PROVE x > floor /\ g[x] \in 1..q /\ Calls[g[x]] = crs[x]
  BY <1>1, <1>2, <1>3, <1>5, <1>7 DEF Belongs
<1>8. /\ DOMAIN crs' \subseteq DOMAIN crs /\ \A x \in DOMAIN crs' : crs'[x] = crs[x]
      /\ \A x \in DOMAIN crs' : c[x] = p => g[x] # q
  <2>1. CASE crs' = crs /\ (r \in SwiRets \/ Entries(r) = {})
    <3>1. ASSUME NEW x \in DOMAIN crs, c[x] = p, g[x] = q PROVE FALSE
      <4>1. crs[x] = r /\ x > floor
        BY <1>5, <1>7, <3>1
      <4>2. x \in Entries(r)
        BY <1>2, <3>1, <4>1 DEF Entries
      <4>3. r \notin SwiRets
        BY <1>2, <3>1, <4>1, ElementOfSeq, RetsAssumption
      <4>4. QED BY <2>1, <4>2, <4>3
    <3>2. QED BY <2>1, <3>1
  <2>2. ASSUME NEW i \in Entries(r), crs' = SubSeq(crs, 1, i - 1)
        PROVE /\ DOMAIN crs' \subseteq DOMAIN crs /\ \A x \in DOMAIN crs' : crs'[x] = crs[x]
              /\ \A x \in DOMAIN crs' : c[x] = p => g[x] # q
    <3>1. i \in 1..n /\ i > floor /\ i - 1 \in 0..n
      BY <1>2, <2>2 DEF Entries
    <3>2. DOMAIN crs' = 1..(i - 1) /\ \A x \in 1..(i - 1) : crs'[x] = crs[x]
      BY <1>2, <2>2, <3>1, Cut
    <3>3. i \in DOMAIN crs /\ c[i] = p
      BY <1>1, <1>2, <1>3, <3>1 DEF Belongs
    <3>4. g[i] \in 1..q
      BY <1>7, <3>3
    <3>5. ASSUME NEW x \in 1..(i - 1), c[x] = p PROVE g[x] # q
      <4>1. x \in DOMAIN crs /\ x < i
        BY <1>2, <3>1
      <4>2. g[x] < g[i] /\ g[x] \in 1..q
        BY <1>1, <1>7, <3>3, <3>5, <4>1 DEF Belongs
      <4>3. QED BY <1>5, <3>4, <4>2
    <3>6. DOMAIN crs' \subseteq DOMAIN crs
      BY <1>2, <3>1, <3>2
    <3>7. QED BY <3>2, <3>5, <3>6
  <2>3. QED BY <2>1, <2>2 DEF Return, SwiReturn
<1>9. ASSUME NEW x \in DOMAIN crs'
      PROVE g[x] \in DOMAIN guest'[c[x]] /\ guest'[c[x]][g[x]] = guest[c[x]][g[x]]
  <2>1. c[x] \in DOMAIN guest /\ g[x] \in DOMAIN guest[c[x]]
    BY <1>1, <1>8, <1>9 DEF Belongs
  <2>2. CASE c[x] = p
    <3>1. g[x] \in 1..q /\ g[x] # q
      BY <1>7, <1>8, <1>9, <2>2
    <3>2. g[x] \in 1..(q - 1)
      BY <1>5, <3>1
    <3>3. guest'[c[x]] = Front(Calls) /\ guest[c[x]] = Calls
      BY <1>2, <1>6, <2>2
    <3>4. QED BY <1>5, <3>2, <3>3
  <2>3. CASE c[x] # p
    BY <1>6, <2>1, <2>3
  <2>4. QED BY <2>2, <2>3
<1>10. Irqs' = Irqs /\ \A i \in Irqs : host'[i] = host[i]
  BY <1>4, FramesKept
<1>11. QED BY <1>1, <1>4, <1>6, <1>8, <1>9, <1>10, Trimmed

\* An IRQ begins: every entry lies under the new floor.
LEMMA OwnIrq ==
  ASSUME Both, Irq PROVE Own'
<1> DEFINE n == Len(host)
           p == Len(guest)
<1>1. PICK c, g : Belongs(c, g)
  BY DEF Both, CallInv, Own
<1>2. /\ DOMAIN crs = 1..Len(crs) /\ Len(crs) \in Nat /\ floor \in Nat /\ nest \in Nat /\ n \in Nat
      /\ p \in Nat \ {0} /\ DOMAIN guest = 1..p /\ guest \in Seq(Seq(Rets)) /\ Irqs \subseteq 1..n
  BY Facts
<1>3. p = nest + 1
  BY RunContext DEF Irq, Running, Done
<1>4. /\ crs' = crs /\ floor' = Len(crs) /\ nest' = nest + 1
      /\ guest' = Append(guest, <<>>) /\ host' = Append(host, IrqFrame(nest + 1))
  BY DEF Irq
<1>5. DOMAIN guest' = 1..(p + 1) /\ \A m \in 1..p : guest'[m] = guest[m]
  <2>1. <<>> \in Seq(Rets)
    BY EmptySeq
  <2>2. QED BY <1>2, <1>4, <2>1, Appended
<1>6. /\ IrqFrame(nest + 1).kind = "irq" /\ IrqFrame(nest + 1).depth = nest + 1
      /\ IrqFrame(nest + 1).floor = floor
  BY DEF IrqFrame
<1>7. IrqFrame(nest + 1) \in Frame
  BY Facts DEF IrqFrame, Frame
<1>8. /\ Irqs' = Irqs \cup {n + 1} /\ host'[n + 1] = IrqFrame(nest + 1)
      /\ \A i \in Irqs : host'[i] = host[i]
  BY <1>2, <1>4, <1>6, <1>7, FramePushed
<1> HIDE DEF n, p
<1>9. c \in [DOMAIN crs -> 1..(p + 1)] /\ g \in [DOMAIN crs -> Nat]
      /\ \A x \in DOMAIN crs : c[x] \in 1..p
  <2>1. 1..p \subseteq 1..(p + 1)
    BY <1>2
  <2>2. QED BY <1>1, <1>2, <2>1 DEF Belongs
<1>10. \A x \in DOMAIN crs : g[x] \in DOMAIN guest'[c[x]] /\ guest'[c[x]][g[x]] = crs[x]
  BY <1>1, <1>5, <1>9 DEF Belongs
<1>11. \A x \in DOMAIN crs : x > floor' <=> c[x] = nest' + 1
  BY <1>2, <1>3, <1>4, <1>9
<1>12. \A x \in DOMAIN crs, i \in Irqs' : x > host'[i].floor <=> c[x] >= host'[i].depth
  <2>1. \A x \in DOMAIN crs : x > floor <=> c[x] >= nest + 1
    BY <1>1, <1>2, <1>3, <1>9 DEF Belongs
  <2>2. QED BY <1>1, <1>6, <1>8, <2>1 DEF Belongs
<1>13. Belongs(c, g)'
  BY <1>1, <1>4, <1>5, <1>9, <1>10, <1>11, <1>12 DEF Belongs
<1>14. QED BY <1>13 DEF Own

\* A handler that has returned has no entry of its own.
LEMMA HandlerEmpty ==
  ASSUME Both, ~Done, Calls = <<>>, NEW c, NEW g, Belongs(c, g)
  PROVE \A x \in DOMAIN crs : x <= floor /\ c[x] \in 1..nest
<1>1. /\ DOMAIN crs = 1..Len(crs) /\ Len(crs) \in Nat /\ floor \in Nat /\ nest \in Nat
      /\ DOMAIN guest = 1..Len(guest) /\ Calls = guest[Len(guest)]
  BY Facts
<1>2. Len(guest) = nest + 1
  BY RunContext
<1>3. ASSUME NEW x \in DOMAIN crs, c[x] = nest + 1 PROVE FALSE
  <2>1. g[x] \in DOMAIN Calls
    BY <1>1, <1>2, <1>3 DEF Belongs
  <2>2. QED BY <2>1, EmptySeq
<1>4. ASSUME NEW x \in DOMAIN crs PROVE x <= floor /\ c[x] \in 1..nest
  <2>1. c[x] \in 1..(nest + 1) /\ c[x] # nest + 1
    BY <1>1, <1>2, <1>3, <1>4 DEF Belongs
  <2>2. ~(x > floor)
    BY <1>4, <2>1 DEF Belongs
  <2>3. QED BY <1>1, <1>4, <2>1, <2>2
<1>5. QED BY <1>4

\* The handler returns: nothing belonged to its context any more.
LEMMA OwnExceptionReturn ==
  ASSUME Both, ExceptionReturn PROVE Own'
<1>1. PICK c, g : Belongs(c, g)
  BY DEF Both, CallInv, Own
<1>2. Len(guest) = nest + 1 /\ ~Done
  BY RunContext DEF ExceptionReturn, Running, Done
<1>3. \A x \in DOMAIN crs : c[x] \in 1..nest
  BY <1>1, <1>2, HandlerEmpty DEF ExceptionReturn
<1>4. DOMAIN guest' = 1..nest /\ \A m \in 1..nest : guest'[m] = guest[m]
  <2>1. guest \in Seq(Seq(Rets)) /\ guest # <<>> /\ nest \in Nat /\ guest' = Front(guest)
    BY Facts DEF ExceptionReturn
  <2>2. (nest + 1) - 1 = nest
    BY <2>1
  <2>3. QED BY <1>2, <2>1, <2>2, Fronted
<1>5. UNCHANGED <<crs, floor, nest, host>>
  BY DEF ExceptionReturn
<1>6. c \in [DOMAIN crs -> 1..nest]
  BY <1>1, <1>3 DEF Belongs
<1>7. \A x \in DOMAIN crs : g[x] \in DOMAIN guest'[c[x]] /\ guest'[c[x]][g[x]] = crs[x]
  BY <1>1, <1>3, <1>4 DEF Belongs
<1>8. Irqs' = Irqs
  BY <1>5, FramesKept
<1>9. Belongs(c, g)'
  BY <1>1, <1>4, <1>5, <1>6, <1>7, <1>8 DEF Belongs
<1>10. QED BY <1>9 DEF Own

\* runtime_irq returns: the entries above the restored floor are those of the
\* context that it interrupted.
LEMMA OwnIrqDone ==
  ASSUME Both, IrqDone PROVE Own'
<1> DEFINE n == Len(host)
<1>1. PICK c, g : Belongs(c, g)
  BY DEF Both, CallInv, Own
<1>2. /\ host # <<>> /\ host' = Front(host) /\ Last(host).kind = "irq" /\ mode = "unwind"
      /\ iret = Last(host).depth
      /\ floor' = Last(host).floor /\ nest' = nest - 1 /\ UNCHANGED <<crs, guest>>
  BY DEF IrqDone, Unwinding
<1>3. /\ Last(host) = host[n] /\ \A i \in 1..(n - 1) : host'[i] = host[i]
      /\ Irqs' = Irqs \ {n} /\ (n \in Irqs \/ n \in Waiting) /\ n \in Nat \ {0}
  BY <1>2, FramePopped
<1>4. Irqs \subseteq 1..n /\ nest \in Nat /\ DOMAIN guest = 1..Len(guest) /\ Len(guest) \in Nat
  BY Facts
<1> HIDE DEF n
<1>5. n \in Irqs /\ \A m \in Irqs : m <= n
  BY <1>2, <1>3, <1>4, Frames
<1>6. host[n].depth = nest /\ nest > 0
  BY <1>5, TopIrq
<1>7. Len(guest) = nest
  <2>1. Done
    BY <1>2, <1>3, <1>6 DEF Done
  <2>2. Len(stacked) = nest - 1 /\ Len(guest) = Len(stacked) + 1
    BY <2>1, Facts DEF Both, CallInv, Shape
  <2>3. QED BY <1>4, <2>2
<1>8. \A x \in DOMAIN crs : c[x] \in 1..nest
  BY <1>1, <1>4, <1>7 DEF Belongs
<1>9. \A x \in DOMAIN crs : x > floor' <=> c[x] = nest' + 1
  <2>1. \A x \in DOMAIN crs : x > floor' <=> c[x] >= nest
    BY <1>1, <1>2, <1>3, <1>5, <1>6 DEF Belongs
  <2>2. QED BY <1>2, <1>4, <1>6, <1>8, <2>1
<1>10. \A i \in Irqs' : i \in Irqs /\ host'[i] = host[i]
  <2>1. \A i \in 1..n : i # n => i \in 1..(n - 1)
    BY <1>3
  <2>2. QED BY <1>3, <1>4, <2>1
<1>11. Belongs(c, g)'
  BY <1>1, <1>2, <1>9, <1>10 DEF Belongs
<1>12. QED BY <1>11 DEF Own

\* A savestate's entries belong to its mainline.
LEMMA OwnLoadState ==
  ASSUME ~PresentInPlace, Both, LoadState PROVE Own'
<1>1. /\ mode = "loop" /\ slot # None /\ guest' = slot.guest /\ crs' = slot.crs
      /\ UNCHANGED <<floor, nest, host>>
  BY DEF LoadState, Sampled, irqVars
<1>2. Irqs = {} /\ nest = 0 /\ floor = 0
  BY <1>1, AtLoop
<1>3. /\ guest' \in Seq(Seq(Rets)) /\ Len(guest') = 1 /\ crs' \in Seq(BlRets)
      /\ SubsequenceOf(crs', guest'[1])
  BY <1>1 DEF Both, CallInv, SlotShape
<1>4. PICK f \in [DOMAIN crs' -> DOMAIN guest'[1]] :
        /\ \A x, y \in DOMAIN crs' : x < y => f[x] < f[y]
        /\ \A x \in DOMAIN crs' : crs'[x] = guest'[1][f[x]]
  BY <1>3 DEF SubsequenceOf
<1>5. DOMAIN guest' = 1..1 /\ guest'[1] \in Seq(Rets)
  <2>1. DOMAIN guest' = 1..1
    BY <1>3, LenProperties
  <2>2. 1 \in 1..Len(guest')
    BY <1>3
  <2>3. QED BY <1>3, <2>1, <2>2, ElementOfSeq
<1>6. PICK c : c = [x \in DOMAIN crs' |-> 1]
  OBVIOUS
<1>7. DOMAIN guest'[1] = 1..Len(guest'[1]) /\ DOMAIN crs' = 1..Len(crs') /\ Len(crs') \in Nat
      /\ Len(guest'[1]) \in Nat
  BY <1>3, <1>5, LenProperties
<1>8. c \in [DOMAIN crs' -> DOMAIN guest'] /\ f \in [DOMAIN crs' -> Nat]
  BY <1>4, <1>5, <1>6, <1>7
<1>9. \A x \in DOMAIN crs' : c[x] = 1 /\ x > floor'
  BY <1>1, <1>2, <1>6, <1>7
<1>10. Irqs' = {}
  BY <1>1, <1>2, FramesKept
<1>11. Belongs(c, f)'
  BY <1>1, <1>2, <1>4, <1>8, <1>9, <1>10 DEF Belongs
<1>12. QED BY <1>11 DEF Own

\* Every step keeps the entries with the guest's calls.
LEMMA OwnStep ==
  ASSUME ~PresentInPlace, Both, Next PROVE Own'
<1>1. CASE Step \/ Yield \/ Redrive \/ ReachLoop \/ Dispatch \/ SaveState
  <2>1. UNCHANGED <<crs, guest, floor, nest, host>>
    BY <1>1 DEF Step, Yield, Redrive, ReachLoop, Dispatch, SaveState, irqVars
  <2>2. QED BY <2>1, FramesKept, OwnKept
<1>2. CASE Resume \/ GiveUp
  <2>1. /\ host # <<>> /\ Last(host).kind = "bl" /\ host' = Front(host)
        /\ UNCHANGED <<guest, floor, nest>>
        /\ crs' = crs \/ (Len(crs) > floor /\ crs' = SubSeq(crs, 1, Len(crs) - 1))
    BY <1>2 DEF Resume, GiveUp, Unwinding, irqVars, Front
  <2>2. /\ Irqs' = Irqs \ {Len(host)} /\ Last(host) = host[Len(host)]
        /\ \A i \in 1..(Len(host) - 1) : host'[i] = host[i]
        /\ Len(host) \in Nat \ {0}
    BY <2>1, FramePopped
  <2>3. Len(host) \notin Irqs
    BY <2>1, <2>2, Frames
  <2>4. Irqs' = Irqs /\ \A i \in Irqs : host'[i] = host[i]
    <3>1. Irqs \subseteq 1..Len(host)
      BY Facts
    <3>2. \A i \in Irqs : i \in 1..(Len(host) - 1)
      BY <2>2, <2>3, <3>1
    <3>3. QED BY <2>2, <2>3, <3>2
  <2>5. DOMAIN crs' \subseteq DOMAIN crs /\ \A x \in DOMAIN crs' : crs'[x] = crs[x]
    <3>1. crs \in Seq(BlRets) /\ Len(crs) \in Nat /\ DOMAIN crs = 1..Len(crs) /\ floor \in Nat
      BY Facts
    <3>2. CASE Len(crs) > floor /\ crs' = SubSeq(crs, 1, Len(crs) - 1)
      <4>1. Len(crs) - 1 \in 0..Len(crs)
        BY <3>1, <3>2
      <4>2. DOMAIN crs' = 1..(Len(crs) - 1)
            /\ \A x \in 1..(Len(crs) - 1) : crs'[x] = crs[x]
        BY <3>1, <3>2, <4>1, Cut
      <4>3. QED BY <3>1, <4>1, <4>2
    <3>3. QED BY <2>1, <3>2
  <2>6. QED BY <2>1, <2>4, <2>5, OwnKept
<1>3. QED
  BY <1>1, <1>2, OwnCall, OwnJumpCall, OwnReturn, OwnIrq, OwnExceptionReturn, OwnIrqDone,
     OwnLoadState DEF Next

-----------------------------------------------------------------------------
\* The sites that wait

\* Nothing is to be known of the sites when none waits in a plain context.
LEMMA NothingWaits ==
  ASSUME PlainSites' = {} PROVE Known'
<1>1. PICK e : e = [i \in {} |-> 0]
  OBVIOUS
<1>2. Sits(e, crs)'
  BY <1>1 DEF Sits
<1>3. QED BY <1>2 DEF Known, Embeds

\* A step that moves neither the stacks nor the floors.
LEMMA SitsKept ==
  ASSUME UNCHANGED <<host, floor>>, NEW e, NEW t, Sits(e, t), NEW u, u = t
  PROVE /\ e \in [PlainSites' -> DOMAIN u]
        /\ \A i \in PlainSites' : u[e[i]] = host'[i].ret
        /\ \A i, j \in PlainSites' : i < j => e[i] < e[j]
        /\ \A i \in PlainSites' : e[i] > floor' <=> \A m \in Irqs' : m < i
        /\ \A i \in PlainSites', k \in Irqs' :
             i < k => (e[i] > host'[k].floor <=> \A m \in Irqs' : m < i \/ m >= k)
  BY FramesKept DEF Sits

\* The sites keep their entries when the stack stays, or loses the entry of the site
\* that a C return leads to.
LEMMA KnownKept ==
  ASSUME Embeds(crs), UNCHANGED <<host, floor>>,
         crs' = crs \/ (mode' = "unwind" /\ ~Done' /\ Append(crs', pc') = crs)
  PROVE Known'
<1>1. PICK e : Sits(e, crs)
  BY DEF Embeds
<1>2. CASE crs' = crs
  <2>1. Sits(e, crs)'
    BY <1>1, <1>2, SitsKept DEF Sits
  <2>2. QED BY <2>1 DEF Known, Embeds
<1>3. CASE mode' = "unwind" /\ ~Done' /\ Append(crs', pc') = crs
  <2>1. Sits(e, Append(crs, pc))'
    BY <1>1, <1>3, SitsKept DEF Sits
  <2>2. QED BY <1>3, <2>1 DEF Known, Embeds
<1>4. QED BY <1>2, <1>3

\* A BL site is left: whatever the cancel took was not the entry of another.
LEMMA KnownPopped ==
  ASSUME "handler" \notin CrossRecursion, Both, Resume \/ GiveUp PROVE Known'
<1> DEFINE n == Len(host)
           f == Last(host)
<1>1. /\ host # <<>> /\ f.kind = "bl" /\ host' = Front(host) /\ floor' = floor
      /\ \/ pc = f.ret /\ crs' = crs
         \/ pc # f.ret
            /\ \/ crs' = crs
               \/ Len(crs) > floor /\ crs' = SubSeq(crs, 1, Len(crs) - 1)
  BY DEF Resume, GiveUp, Unwinding, irqVars, Front
<1>2. /\ n \in Nat \ {0} /\ f = host[n] /\ Irqs' = Irqs \ {n} /\ Waiting' = Waiting \ {n}
      /\ n \in Irqs \/ n \in Waiting
      /\ \A i \in 1..(n - 1) : host'[i] = host[i]
  BY <1>1, FramePopped
<1> HIDE DEF n, f
<1>3. n \in Waiting /\ n \notin Irqs
  BY <1>1, <1>2, Frames
<1>4. /\ crs \in Seq(BlRets) /\ Len(crs) \in Nat /\ DOMAIN crs = 1..Len(crs) /\ floor \in Nat
      /\ pc \in Addresses /\ Irqs \subseteq 1..n /\ Waiting \subseteq 1..n
  BY Facts DEF n
<1>5. PlainSites' = PlainSites \ {n} /\ PlainSites \subseteq Waiting
  BY <1>1, PlainPopped DEF PlainSites, n
<1>6. CASE n \notin PlainSites
  <2>1. ~Plain(1) /\ \A m \in Irqs : ~(m < n)
    BY <1>3, <1>6, PlainSitesAre
  <2>2. Irqs = {}
    <3>1. \A m \in 1..n : m # n => m < n
      BY <1>2
    <3>2. QED BY <1>3, <1>4, <2>1, <3>1
  <2>3. PlainSites' = {}
    BY <1>5, <2>1, <2>2, PlainSitesAre
  <2>4. QED BY <2>3, NothingWaits
<1> SUFFICES ASSUME n \in PlainSites PROVE Known'
  BY <1>6
<1>7. /\ Irqs' = Irqs /\ \A i \in Irqs \cup PlainSites' : i \in 1..n /\ i < n /\ host'[i] = host[i]
      /\ \A i \in PlainSites' : i \in PlainSites
  <2>1. \A i \in 1..n : i # n => i < n /\ i \in 1..(n - 1)
    BY <1>2
  <2>2. QED BY <1>2, <1>3, <1>4, <1>5, <2>1
<1>8. \E e : /\ e \in [PlainSites -> Nat]
             /\ \A i \in PlainSites' : e[i] \in DOMAIN crs' /\ crs'[e[i]] = host[i].ret
             /\ \A i, j \in PlainSites : i < j => e[i] < e[j]
             /\ \A i \in PlainSites : e[i] > floor <=> \A m \in Irqs : m < i
             /\ \A i \in PlainSites, k \in Irqs :
                  i < k => (e[i] > host[k].floor <=> \A m \in Irqs : m < i \/ m >= k)
  <2>1. \A m \in 1..Len(crs) : crs' = crs => m \in DOMAIN crs' /\ crs'[m] = crs[m]
    BY <1>4
  <2>2. \A m \in 1..Len(crs) :
          crs' = SubSeq(crs, 1, Len(crs) - 1) /\ m < Len(crs) => m \in DOMAIN crs' /\ crs'[m] = crs[m]
    <3> SUFFICES ASSUME NEW m \in 1..Len(crs), crs' = SubSeq(crs, 1, Len(crs) - 1), m < Len(crs)
                 PROVE m \in DOMAIN crs' /\ crs'[m] = crs[m]
      OBVIOUS
    <3>1. Len(crs) - 1 \in 0..Len(crs) /\ m \in 1..(Len(crs) - 1)
      BY <1>4
    <3>2. QED BY <1>4, <3>1, Cut
  <2>3. CASE Embeds(crs)
    <3>1. PICK e : Sits(e, crs)
      BY <2>3 DEF Embeds
    <3>2. \A i \in PlainSites : e[i] \in 1..Len(crs) /\ crs[e[i]] = host[i].ret
      BY <1>4, <3>1 DEF Sits
    <3>3. \A i \in PlainSites' : e[i] < e[n] /\ e[n] \in 1..Len(crs)
      BY <1>3, <1>7, <3>1, <3>2 DEF Sits
    <3>4. \A i \in PlainSites' : e[i] < Len(crs)
      <4> SUFFICES ASSUME NEW i \in PlainSites' PROVE e[i] < Len(crs)
        OBVIOUS
      <4>1. e[i] \in 1..Len(crs) /\ e[n] \in 1..Len(crs) /\ e[i] < e[n]
        BY <1>7, <3>2, <3>3
      <4>2. Len(crs) \in Nat
        BY <1>4
      <4>3. QED BY <4>1, <4>2
    <3>5. \A i \in PlainSites' : e[i] \in DOMAIN crs' /\ crs'[e[i]] = host[i].ret
      BY <1>1, <1>7, <2>1, <2>2, <3>2, <3>4
    <3>6. e \in [PlainSites -> Nat]
      BY <3>1, <3>2 DEF Sits
    <3>7. QED BY <3>1, <3>5, <3>6 DEF Sits
  <2>4. CASE Embeds(Append(crs, pc))
    <3> DEFINE t == Append(crs, pc)
    <3>1. PICK e : Sits(e, t)
      BY <2>4 DEF Embeds
    <3>2. crs \in Seq(Addresses)
      <4>1. BlRets \subseteq Addresses
        BY DEF Addresses, Rets
      <4>2. QED BY <1>4, <4>1, SeqMonotonic
    <3>3. DOMAIN t = 1..(Len(crs) + 1) /\ t[Len(crs) + 1] = pc
          /\ \A m \in 1..Len(crs) : t[m] = crs[m]
      BY <1>4, <3>2, Appended
    <3> HIDE DEF t
    <3>4. \A i \in PlainSites : e[i] \in 1..(Len(crs) + 1) /\ t[e[i]] = host[i].ret
      BY <3>1, <3>3 DEF Sits
    <3>5. \A i \in PlainSites' : e[i] < e[n] /\ e[n] \in 1..(Len(crs) + 1)
      BY <1>3, <1>7, <3>1, <3>4 DEF Sits
    <3>6. \A i \in PlainSites' : e[i] \in 1..Len(crs) /\ crs[e[i]] = host[i].ret
      <4> SUFFICES ASSUME NEW i \in PlainSites'
                   PROVE e[i] \in 1..Len(crs) /\ crs[e[i]] = host[i].ret
        OBVIOUS
      <4>1. e[i] \in 1..Len(crs)
        <5>1. e[i] \in 1..(Len(crs) + 1) /\ e[n] \in 1..(Len(crs) + 1) /\ e[i] < e[n]
          BY <1>7, <3>4, <3>5
        <5>2. Len(crs) \in Nat
          BY <1>4
        <5>3. QED BY <5>1, <5>2
      <4>2. QED BY <1>7, <3>3, <3>4, <4>1
    <3>7. pc # f.ret => \A i \in PlainSites' : e[i] < Len(crs)
      <4> SUFFICES ASSUME pc # f.ret, NEW i \in PlainSites' PROVE e[i] < Len(crs)
        OBVIOUS
      <4>1. e[n] # Len(crs) + 1
        BY <1>2, <1>3, <3>3, <3>4
      <4>2. QED BY <1>4, <3>5, <3>6, <4>1
    <3>8. \A i \in PlainSites' : e[i] \in DOMAIN crs' /\ crs'[e[i]] = host[i].ret
      BY <1>1, <2>1, <2>2, <3>6, <3>7
    <3>9. e \in [PlainSites -> Nat]
      BY <1>4, <3>1, <3>4 DEF Sits
    <3>10. QED BY <3>1, <3>8, <3>9 DEF Sits
  <2>5. QED BY <2>3, <2>4 DEF Both, CallInv, Known
<1>9. PICK e : /\ e \in [PlainSites -> Nat]
               /\ \A i \in PlainSites' : e[i] \in DOMAIN crs' /\ crs'[e[i]] = host[i].ret
               /\ \A i, j \in PlainSites : i < j => e[i] < e[j]
               /\ \A i \in PlainSites : e[i] > floor <=> \A m \in Irqs : m < i
               /\ \A i \in PlainSites, k \in Irqs :
                    i < k => (e[i] > host[k].floor <=> \A m \in Irqs : m < i \/ m >= k)
  BY <1>8
<1>10. PICK d : d = [i \in PlainSites' |-> e[i]]
  OBVIOUS
<1>11. Sits(d, crs)'
  BY <1>1, <1>7, <1>9, <1>10 DEF Sits
<1>12. QED BY <1>11 DEF Known, Embeds

\* While native code runs, every plain site has its entry.
LEMMA RunKnown ==
  ASSUME Both, mode # "unwind" \/ Done PROVE Embeds(crs)
  BY DEF Both, CallInv, Known

\* A BL: the new site's entry is the new one.
LEMMA KnownCall ==
  ASSUME "handler" \notin CrossRecursion, Both, NEW r \in BlRets, Call(r) PROVE Known'
<1> DEFINE n == Len(host)
           l == Len(crs)
<1>1. PICK e : Sits(e, crs)
  BY RunKnown DEF Embeds, Call, MayCall, Running
<1>2. /\ n \in Nat /\ Irqs \subseteq 1..n /\ Waiting = 1..n \ Irqs /\ floor \in Nat /\ floor <= l
      /\ crs \in Seq(BlRets) /\ l \in Nat /\ DOMAIN crs = 1..l
  BY Facts
<1>3. DOMAIN crs' = 1..(l + 1) /\ crs'[l + 1] = r /\ \A x \in 1..l : crs'[x] = crs[x]
  BY <1>2, Appended DEF Call
<1>4. /\ host' = Append(host, BlFrame(r)) /\ floor' = floor
      /\ BlFrame(r) \in Frame /\ BlFrame(r).kind = "bl" /\ BlFrame(r).ret = r
  BY DEF Call, irqVars, BlFrame, Frame
<1>5. /\ Irqs' = Irqs /\ Waiting' = Waiting \cup {n + 1} /\ host'[n + 1].ret = r
      /\ \A i \in 1..n : host'[i] = host[i]
  BY <1>4, FramePushed
<1>6. CASE ~(Plain(1) \/ Irqs # {})
  BY <1>4, <1>6, PlainPushed, NothingWaits
<1> SUFFICES ASSUME Plain(1) \/ Irqs # {} PROVE Known'
  BY <1>6
<1>7. PlainSites' = PlainSites \cup {n + 1} /\ PlainSites \subseteq 1..n
  BY <1>2, <1>4, PlainPushed DEF PlainSites
<1> HIDE DEF n, l
<1>8. \A i \in 1..n : i < n + 1 /\ i # n + 1
  BY <1>2
<1>9. PICK d : d = [i \in PlainSites' |-> IF i = n + 1 THEN l + 1 ELSE e[i]]
  OBVIOUS
<1>10. d[n + 1] = l + 1 /\ \A i \in PlainSites : d[i] = e[i] /\ i \in PlainSites'
  BY <1>2, <1>5, <1>7, <1>8, <1>9
<1>11. \A i \in PlainSites : e[i] \in 1..l /\ crs[e[i]] = host[i].ret
  BY <1>1, <1>2 DEF Sits
<1>12. \A x \in 1..l : x \in 1..(l + 1) /\ x < l + 1
  BY <1>2
<1>13. l + 1 \in 1..(l + 1) /\ l + 1 > floor
  BY <1>2
<1>14. d \in [PlainSites' -> DOMAIN crs']
  BY <1>3, <1>5, <1>7, <1>9, <1>10, <1>11, <1>12, <1>13
<1>15. \A i \in PlainSites' : crs'[d[i]] = host'[i].ret
  BY <1>2, <1>3, <1>5, <1>7, <1>10, <1>11
<1>16. \A i, j \in PlainSites' : i < j => d[i] < d[j]
  <2> SUFFICES ASSUME NEW i \in PlainSites', NEW j \in PlainSites', i < j PROVE d[i] < d[j]
    OBVIOUS
  <2>1. i \in PlainSites
    BY <1>2, <1>5, <1>7
  <2>2. CASE j \in PlainSites
    BY <1>1, <1>10, <2>1, <2>2 DEF Sits
  <2>3. CASE j = n + 1
    BY <1>10, <1>11, <1>12, <2>1, <2>3
  <2>4. QED BY <1>5, <1>7, <2>2, <2>3
<1>17. \A i \in PlainSites' : d[i] > floor' <=> \A m \in Irqs' : m < i
  <2>1. \A i \in PlainSites : d[i] > floor <=> \A m \in Irqs : m < i
    BY <1>1, <1>10 DEF Sits
  <2>2. d[n + 1] > floor /\ \A m \in Irqs : m < n + 1
    BY <1>2, <1>8, <1>10, <1>13
  <2>3. QED BY <1>4, <1>5, <1>7, <2>1, <2>2
<1>18. \A i \in PlainSites', k \in Irqs' :
         i < k => (d[i] > host'[k].floor <=> \A m \in Irqs' : m < i \/ m >= k)
  <2> SUFFICES ASSUME NEW i \in PlainSites', NEW k \in Irqs, i < k
               PROVE d[i] > host'[k].floor <=> \A m \in Irqs : m < i \/ m >= k
    BY <1>5, <1>7
  <2>1. i \in PlainSites
    BY <1>2, <1>5, <1>7
  <2>2. d[i] = e[i] /\ host'[k] = host[k]
    BY <1>2, <1>5, <1>7, <1>10, <2>1
  <2>3. QED BY <1>1, <2>1, <2>2 DEF Sits
<1>19. Sits(d, crs)'
  BY <1>14, <1>15, <1>16, <1>17, <1>18 DEF Sits
<1>20. QED BY <1>19 DEF Known, Embeds

\* An IRQ begins: every site's entry lies under the new floor.
LEMMA KnownIrq ==
  ASSUME "handler" \notin CrossRecursion, Both, Irq PROVE Known'
<1> DEFINE n == Len(host)
<1>1. PICK e : Sits(e, crs)
  BY RunKnown DEF Embeds, Irq, Running
<1>2. /\ n \in Nat /\ Irqs \subseteq 1..n /\ Waiting = 1..n \ Irqs
      /\ Len(crs) \in Nat /\ DOMAIN crs = 1..Len(crs)
  BY Facts
<1>3. /\ crs' = crs /\ floor' = Len(crs) /\ host' = Append(host, IrqFrame(nest + 1))
      /\ IrqFrame(nest + 1).kind = "irq" /\ IrqFrame(nest + 1).floor = floor
  BY DEF Irq, IrqFrame
<1>4. IrqFrame(nest + 1) \in Frame
  BY Facts DEF IrqFrame, Frame
<1>5. /\ Irqs' = Irqs \cup {n + 1} /\ host'[n + 1].floor = floor
      /\ \A i \in 1..n : host'[i] = host[i]
      /\ PlainSites' = PlainSites /\ PlainSites \subseteq 1..n
  BY <1>2, <1>3, <1>4, FramePushed, PlainPushed DEF PlainSites
<1> HIDE DEF n
<1>6. \A i \in 1..n : i < n + 1 /\ ~(n + 1 < i) /\ i \in Nat
  BY <1>2
<1>7. \A i \in PlainSites : ~(e[i] > floor')
  BY <1>1, <1>2, <1>3 DEF Sits
<1>8. \A i \in PlainSites : e[i] > floor' <=> \A m \in Irqs' : m < i
  BY <1>2, <1>5, <1>6, <1>7
<1>9. \A i \in PlainSites, k \in Irqs' :
        i < k => (e[i] > host'[k].floor <=> \A m \in Irqs' : m < i \/ m >= k)
  <2> SUFFICES ASSUME NEW i \in PlainSites, NEW k \in Irqs', i < k
               PROVE e[i] > host'[k].floor <=> \A m \in Irqs' : m < i \/ m >= k
    OBVIOUS
  <2>1. CASE k \in Irqs
    <3>1. n + 1 >= k /\ host'[k] = host[k]
      BY <1>2, <1>5, <2>1
    <3>2. QED BY <1>1, <1>5, <2>1, <3>1 DEF Sits
  <2>2. CASE k = n + 1
    <3>1. \A m \in Irqs : ~(m >= k)
      BY <1>2, <2>2
    <3>2. k >= k
      BY <1>2, <2>2
    <3>3. QED BY <1>1, <1>5, <2>2, <3>1, <3>2 DEF Sits
  <2>3. QED BY <1>5, <2>1, <2>2
<1>10. Sits(e, crs)'
  BY <1>1, <1>2, <1>3, <1>5, <1>8, <1>9 DEF Sits
<1>11. QED BY <1>10 DEF Known, Embeds

\* The frame of runtime_irq is the last one.
LEMMA IrqOnTop ==
  ASSUME Both, host # <<>>, Last(host).kind = "irq"
  PROVE LET n == Len(host)
        IN n \in Nat \ {0} /\ n \in Irqs /\ Last(host) = host[n] /\ (\A i \in 1..n : i <= n)
           /\ Irqs \subseteq 1..n /\ Waiting \subseteq 1..n /\ n \notin Waiting
           /\ host[n].depth = nest /\ nest > 0
<1> DEFINE n == Len(host)
<1>1. host \in Seq(Frame) /\ Irqs \subseteq 1..n /\ Waiting = 1..n \ Irqs
  BY Facts
<1>2. n \in Nat \ {0} /\ DOMAIN host = 1..n /\ Last(host) = host[n]
  BY <1>1, Fronted
<1>3. n \in Irqs /\ n \notin Waiting
  BY <1>1, <1>2 DEF Irqs
<1> HIDE DEF n
<1>4. \A m \in Irqs : m <= n
  BY <1>1, <1>2
<1>5. host[n].depth = nest /\ nest > 0
  BY <1>3, <1>4, TopIrq
<1>6. QED BY <1>1, <1>2, <1>3, <1>5 DEF n

\* runtime_irq returns.
LEMMA KnownIrqDone ==
  ASSUME Both, IrqDone PROVE Known'
<1> DEFINE n == Len(host)
<1>1. /\ host # <<>> /\ host' = Front(host) /\ Last(host).kind = "irq" /\ mode = "unwind"
      /\ iret = Last(host).depth /\ floor' = Last(host).floor /\ crs' = crs
  BY DEF IrqDone, Unwinding
<1>2. /\ n \in Nat \ {0} /\ n \in Irqs /\ Last(host) = host[n] /\ Irqs \subseteq 1..n
      /\ Waiting \subseteq 1..n /\ n \notin Waiting /\ host[n].depth = nest /\ nest > 0
  BY <1>1, IrqOnTop
<1>3. PICK e : Sits(e, crs)
  BY <1>1, <1>2, RunKnown DEF Done, Embeds
<1>4. /\ Irqs' = Irqs \ {n} /\ \A i \in 1..(n - 1) : host'[i] = host[i]
      /\ PlainSites \subseteq 1..n /\ n \notin PlainSites /\ PlainSites' = PlainSites
  BY <1>1, <1>2, FramePopped, PlainPopped DEF PlainSites
<1> HIDE DEF n
<1>5. \A i \in 1..n : i # n => i < n /\ i \in 1..(n - 1) /\ ~(i >= n)
  BY <1>2
<1>6. \A i \in Irqs' \cup PlainSites : host'[i] = host[i] /\ i < n /\ ~(i >= n)
  BY <1>2, <1>4, <1>5
<1>7. \A i \in PlainSites : e[i] > floor' <=> \A m \in Irqs' : m < i
  <2>1. \A i \in PlainSites : e[i] > host[n].floor <=> \A m \in Irqs : m < i \/ m >= n
    BY <1>2, <1>3, <1>6 DEF Sits
  <2>2. n >= n
    BY <1>2
  <2>3. QED BY <1>1, <1>2, <1>4, <1>6, <2>1, <2>2
<1>8. \A i \in PlainSites, k \in Irqs' :
        i < k => (e[i] > host'[k].floor <=> \A m \in Irqs' : m < i \/ m >= k)
  <2> SUFFICES ASSUME NEW i \in PlainSites, NEW k \in Irqs', i < k
               PROVE e[i] > host'[k].floor <=> \A m \in Irqs' : m < i \/ m >= k
    OBVIOUS
  <2>1. n >= k /\ k \in Irqs /\ host'[k] = host[k]
    BY <1>2, <1>4, <1>6
  <2>2. QED BY <1>3, <1>4, <2>1 DEF Sits
<1>9. Sits(e, crs)'
  BY <1>1, <1>3, <1>4, <1>6, <1>7, <1>8 DEF Sits
<1>10. QED BY <1>9 DEF Known, Embeds

\* A handler that is dispatched again waits for no C return of the interrupted code.
LEMMA KnownRedrive ==
  ASSUME Both, Redrive PROVE Known'
<1>1. host # <<>> /\ Last(host).kind = "irq" /\ UNCHANGED <<crs, host, floor>>
  BY DEF Redrive, Unwinding, irqVars
<1>2. Embeds(crs)
  <2>1. CASE Embeds(Append(crs, pc))
    <3> DEFINE t == Append(crs, pc)
               n == Len(host)
    <3>1. PICK e : Sits(e, t)
      BY <2>1 DEF Embeds
    <3>2. crs \in Seq(BlRets) /\ Len(crs) \in Nat /\ DOMAIN crs = 1..Len(crs)
          /\ floor \in Nat /\ floor <= Len(crs) /\ pc \in Addresses
      BY Facts
    <3>3. crs \in Seq(Addresses)
      <4>1. BlRets \subseteq Addresses
        BY DEF Addresses, Rets
      <4>2. QED BY <3>2, <4>1, SeqMonotonic
    <3>4. DOMAIN t = 1..(Len(crs) + 1) /\ \A m \in 1..Len(crs) : t[m] = crs[m]
      BY <3>2, <3>3, Appended
    <3>5. n \in Nat /\ n \in Irqs /\ PlainSites \subseteq 1..n
      BY <1>1, IrqOnTop DEF PlainSites
    <3> HIDE DEF t, n
    <3>6. \A i \in PlainSites : e[i] \in 1..(Len(crs) + 1) /\ ~(e[i] > floor)
      <4>1. \A i \in PlainSites : ~(n < i)
        BY <3>5
      <4>2. QED BY <3>1, <3>4, <3>5, <4>1 DEF Sits
    <3>7. \A x \in 1..(Len(crs) + 1) : ~(x > floor) => x \in 1..Len(crs)
      BY <3>2
    <3>8. \A i \in PlainSites : e[i] \in DOMAIN crs /\ crs[e[i]] = t[e[i]]
      BY <3>2, <3>4, <3>6, <3>7
    <3>9. Sits(e, crs)
      BY <3>1, <3>8 DEF Sits
    <3>10. QED BY <3>9 DEF Embeds
  <2>2. QED BY <2>1 DEF Both, CallInv, Known
<1>3. QED BY <1>1, <1>2, KnownKept

\* A C return pops the entry of the site that it leads to.
LEMMA KnownReturn ==
  ASSUME "handler" \notin CrossRecursion, Both, Return PROVE Known'
<1>1. Running /\ Calls # <<>> /\ pc' = Last(Calls) /\ UNCHANGED <<irqVars, host>>
  BY DEF Return
<1>2. Embeds(crs)
  BY <1>1, RunKnown DEF Running
<1>3. CASE PlainSites = {}
  BY <1>1, <1>3, FramesKept, NothingWaits
<1> SUFFICES ASSUME PlainSites # {} PROVE Known'
  BY <1>3
<1>4. OneSite(Calls)
  <2>1. Calls = guest[Len(guest)] /\ Len(guest) \in DOMAIN guest
    BY Facts
  <2>2. Plain(Len(guest))
    <3>1. CASE Plain(1)
      BY <3>1 DEF Plain
    <3>2. CASE ~Plain(1)
      <4>1. PICK m \in Irqs : host[m].depth \in 1..nest
        BY <3>2, PlainSitesAre, Frames
      <4>2. Len(guest) = nest + 1 /\ nest \in Nat
        BY <1>1, RunContext, Facts DEF Running, Done
      <4>3. QED BY <4>1, <4>2 DEF Plain
    <3>3. QED BY <3>1, <3>2
  <2>3. QED BY <2>1, <2>2 DEF Both, CallInv, Shape
<1>5. CASE crs' = crs
  BY <1>1, <1>2, <1>5, KnownKept DEF irqVars
<1>6. ASSUME NEW i \in Entries(Last(Calls)), FoundEntry(i), crs' = SubSeq(crs, 1, i - 1),
             mode' = "unwind"
      PROVE Known'
  <2>1. i = Len(crs)
    BY <1>1, <1>6, <1>4, MatchIsTop
  <2>2. crs[Len(crs)] = Last(Calls) /\ Len(crs) \in 1..Len(crs)
    BY <1>6, <2>1, Facts DEF Entries
  <2>3. crs \in Seq(BlRets) /\ Len(crs) \in Nat
    BY Facts
  <2>4. Append(crs', pc') = crs
    <3> DEFINE n == Len(crs)
               s == crs'
               r == pc'
    <3>1. n - 1 \in 0..n /\ (n - 1) + 1 = n
      BY <2>2, <2>3
    <3>2. s \in Seq(BlRets) /\ Len(s) = n - 1 /\ \A k \in 1..(n - 1) : s[k] = crs[k]
      BY <1>6, <2>1, <2>3, <3>1, Cut
    <3>3. r = crs[n] /\ r \in BlRets
      BY <1>1, <2>2, <2>3, ElementOfSeq
    <3> HIDE DEF n, s, r
    <3>4. LET t == Append(s, r)
          IN t \in Seq(BlRets) /\ Len(t) = n /\ t[n] = r /\ \A k \in 1..(n - 1) : t[k] = s[k]
      BY <3>1, <3>2, <3>3, Appended
    <3>5. \A k \in 1..n : k = n \/ k \in 1..(n - 1)
      BY <3>1
    <3>6. \A k \in 1..n : Append(s, r)[k] = crs[k]
      BY <3>2, <3>3, <3>4, <3>5
    <3>7. QED BY <2>3, <3>4, <3>6, SeqEqual DEF n, s, r
  <2>5. ~Done'
    <3>1. iret' = iret /\ nest' = nest
      BY <1>1 DEF irqVars
    <3>2. nest > 0 => iret # nest
      BY <1>1 DEF Both, CallInv, Shape
    <3>3. QED BY <3>1, <3>2 DEF Done
  <2>6. QED BY <1>1, <1>2, <1>6, <2>4, <2>5, KnownKept DEF irqVars
<1>7. QED BY <1>5, <1>6 DEF Return

\* Every step keeps the sites with their entries.
LEMMA KnownStep ==
  ASSUME "handler" \notin CrossRecursion, ~PresentInPlace, Both, Next PROVE Known'
<1>1. CASE \/ Step \/ (\E r \in JumpRets \cup SwiRets : JumpCall(r)) \/ SwiReturn \/ Yield
           \/ ExceptionReturn
  <2>1. Running /\ UNCHANGED <<crs, floor, host>>
    BY <1>1 DEF Step, JumpCall, MayCall, SwiReturn, Yield, ExceptionReturn, irqVars
  <2>2. Embeds(crs)
    BY <2>1, RunKnown DEF Running
  <2>3. QED BY <2>1, <2>2, KnownKept
<1>2. CASE ReachLoop \/ Dispatch \/ SaveState \/ LoadState
  <2>1. (mode = "loop" \/ host = <<>>) /\ host' = host
    BY <1>2 DEF ReachLoop, Dispatch, SaveState, LoadState, Sampled
  <2>2. PlainSites' = {}
    BY <2>1, AtLoop, FramesKept DEF PlainSites
  <2>3. QED BY <2>2, NothingWaits
<1>3. QED
  BY <1>1, <1>2, KnownCall, KnownReturn, KnownIrq, KnownIrqDone, KnownRedrive, KnownPopped
     DEF Next

-----------------------------------------------------------------------------
\* The contexts, and what runs

\* One more call; in a plain context, of a site that is not in progress or is on top.
LEMMA OneSiteCall ==
  ASSUME "handler" \notin CrossRecursion, Both, NEW r \in Rets, MayCall(r), guest' = WithCalls(Append(Calls, r))
  PROVE \A m \in DOMAIN guest' : Plain(m) => OneSite(guest'[m])
<1> DEFINE q == Len(Calls)
           t == Append(Calls, r)
<1>1. /\ Calls \in Seq(Rets) /\ q \in Nat /\ DOMAIN Calls = 1..q /\ Calls = guest[Len(guest)]
      /\ DOMAIN guest = 1..Len(guest) /\ Len(guest) \in Nat \ {0}
  BY Facts
<1>2. t \in Seq(Rets) /\ DOMAIN t = 1..(q + 1) /\ t[q + 1] = r /\ \A k \in 1..q : t[k] = Calls[k]
  BY <1>1, Appended
<1>3. /\ DOMAIN guest' = DOMAIN guest /\ guest'[Len(guest)] = t
      /\ \A m \in DOMAIN guest : m # Len(guest) => guest'[m] = guest[m]
  BY <1>2, CallsReplaced
<1>4. \A m \in DOMAIN guest : Plain(m) => OneSite(guest[m])
  BY DEF Both, CallInv, Shape
<1>5. Plain(Len(guest)) => OneSite(Calls)
  BY <1>1, <1>4
<1>6. Plain(Len(guest)) => \A i \in 1..q : Calls[i] = r => Calls[q] = r
  BY <1>1 DEF MayCall, Last, Context, Plain
<1> HIDE DEF q, t
<1>7. ASSUME Plain(Len(guest)) PROVE OneSite(t)
  <2> SUFFICES ASSUME NEW x \in 1..(q + 1), NEW y \in 1..(q + 1), NEW z \in 1..(q + 1),
                      x < y, y < z, t[x] = t[z]
               PROVE t[y] = t[x]
    BY <1>2 DEF OneSite
  <2>1. x \in 1..q /\ y \in 1..q /\ t[x] = Calls[x] /\ t[y] = Calls[y]
    BY <1>1, <1>2
  <2>2. CASE z \in 1..q
    BY <1>1, <1>2, <1>5, <1>7, <2>1, <2>2 DEF OneSite
  <2>3. CASE z = q + 1
    <3>1. Calls[x] = r /\ Calls[q] = r /\ q \in 1..q
      <4>1. Calls[x] = r
        BY <1>2, <2>1, <2>3
      <4>2. q \in 1..q
        BY <1>1, <2>1
      <4>3. QED BY <1>6, <1>7, <2>1, <4>1, <4>2
    <3>2. CASE y = q
      BY <2>1, <3>1, <3>2
    <3>3. CASE y # q
      <4>1. y < q
        BY <1>1, <2>1, <3>3
      <4>2. QED BY <1>1, <1>5, <1>7, <2>1, <3>1, <4>1 DEF OneSite
    <3>4. QED BY <3>2, <3>3
  <2>4. z \in 1..q \/ z = q + 1
    BY <1>1
  <2>5. QED BY <2>2, <2>3, <2>4
<1>8. QED BY <1>3, <1>4, <1>7

\* One call less.
LEMMA OneSiteReturn ==
  ASSUME Both, Calls # <<>>, guest' = WithCalls(Front(Calls))
  PROVE \A m \in DOMAIN guest' : Plain(m) => OneSite(guest'[m])
<1> DEFINE q == Len(Calls)
           t == Front(Calls)
<1>1. Calls = guest[Len(guest)] /\ DOMAIN guest = 1..Len(guest) /\ Len(guest) \in Nat \ {0}
  BY Facts
<1>2. /\ q \in Nat \ {0} /\ DOMAIN Calls = 1..q
      /\ t \in Seq(Rets) /\ DOMAIN t = 1..(q - 1) /\ \A k \in 1..(q - 1) : t[k] = Calls[k]
  BY LastCall
<1>3. /\ DOMAIN guest' = DOMAIN guest /\ guest'[Len(guest)] = t
      /\ \A m \in DOMAIN guest : m # Len(guest) => guest'[m] = guest[m]
  BY <1>2, CallsReplaced
<1>4. \A m \in DOMAIN guest : Plain(m) => OneSite(guest[m])
  BY DEF Both, CallInv, Shape
<1>5. Plain(Len(guest)) => OneSite(Calls)
  BY <1>1, <1>4
<1> HIDE DEF q, t
<1>6. \A k \in 1..(q - 1) : k \in 1..q
  BY <1>2
<1>7. Plain(Len(guest)) => OneSite(t)
  BY <1>2, <1>5, <1>6 DEF OneSite
<1>8. QED BY <1>3, <1>4, <1>7

\* Every step keeps the plain contexts free of recursion across sites.
LEMMA OneSiteStep ==
  ASSUME "handler" \notin CrossRecursion, ~PresentInPlace, Both, Next
  PROVE \A m \in DOMAIN guest' : Plain(m) => OneSite(guest'[m])
<1>1. \A m \in DOMAIN guest : Plain(m) => OneSite(guest[m])
  BY DEF Both, CallInv, Shape
<1>2. CASE guest' = guest
  BY <1>1, <1>2
<1>3. CASE \/ \E r \in BlRets : Call(r)
           \/ \E r \in JumpRets \cup SwiRets : JumpCall(r)
  <2>1. PICK r \in Rets : MayCall(r) /\ guest' = WithCalls(Append(Calls, r))
    BY <1>3 DEF Call, JumpCall, Rets
  <2>2. QED BY <2>1, OneSiteCall
<1>4. CASE Return \/ SwiReturn
  BY <1>4, OneSiteReturn DEF Return, SwiReturn
<1>5. CASE Irq
  <2>1. guest \in Seq(Seq(Rets)) /\ guest' = Append(guest, <<>>) /\ <<>> \in Seq(Rets)
        /\ DOMAIN guest = 1..Len(guest)
    BY <1>5, Facts, EmptySeq DEF Irq
  <2>2. /\ DOMAIN guest' = 1..(Len(guest) + 1) /\ guest'[Len(guest) + 1] = <<>>
        /\ \A m \in 1..Len(guest) : guest'[m] = guest[m] /\ Len(guest) \in Nat
    BY <2>1, Appended
  <2>3. Len(guest) \in Nat
    BY Facts
  <2>4. OneSite(<<>>)
    BY EmptySeq DEF OneSite
  <2>5. \A m \in 1..(Len(guest) + 1) : m \in 1..Len(guest) \/ m = Len(guest) + 1
    BY <2>3
  <2>6. QED BY <1>1, <2>1, <2>2, <2>4, <2>5
<1>6. CASE ExceptionReturn
  <2>1. guest \in Seq(Seq(Rets)) /\ guest # <<>> /\ guest' = Front(guest)
        /\ DOMAIN guest = 1..Len(guest) /\ Len(guest) \in Nat
    BY <1>6, Facts DEF ExceptionReturn
  <2>2. DOMAIN guest' = 1..(Len(guest) - 1)
        /\ \A m \in 1..(Len(guest) - 1) : guest'[m] = guest[m]
    BY <2>1, Fronted
  <2>3. 1..(Len(guest) - 1) \subseteq 1..Len(guest)
    BY <2>1
  <2>4. QED BY <1>1, <2>1, <2>2, <2>3
<1>7. CASE LoadState
  <2>1. slot # None /\ guest' = slot.guest
    BY <1>7 DEF LoadState
  <2>2. guest' \in Seq(Seq(Rets)) /\ Len(guest') = 1 /\ (Plain(1) => OneSite(guest'[1]))
    BY <2>1 DEF Both, CallInv, SlotShape
  <2>3. DOMAIN guest' = 1..1
    BY <2>2, LenProperties
  <2>4. QED BY <2>2, <2>3
<1>8. QED
  BY <1>2, <1>3, <1>4, <1>5, <1>6, <1>7
     DEF Next, Step, Yield, Resume, GiveUp, Redrive, IrqDone, ReachLoop, Dispatch, SaveState

\* When a handler returns, no BL site of it waits: the last frame is runtime_irq's,
\* and the guest goes on where that interrupted it.
LEMMA HandlerReturns ==
  ASSUME "handler" \notin CrossRecursion, Both, ExceptionReturn
  PROVE host # <<>> /\ Last(host).kind = "irq" /\ Last(host).at = pc'
        /\ nest > 0 /\ Len(stacked') = nest - 1
        /\ \A d \in 1..(nest - 1) : stacked'[d] = stacked[d]
<1> DEFINE n == Len(host)
<1>1. /\ Running /\ Calls = <<>> /\ stacked # <<>> /\ stacked' = Front(stacked)
      /\ pc' = Last(stacked)
  BY DEF ExceptionReturn
<1>2. ~Done /\ Len(stacked) = nest
  BY <1>1, RunContext DEF Running, Done
<1>3. /\ stacked \in Seq(Addresses) /\ host \in Seq(Frame) /\ n \in Nat /\ Irqs \subseteq 1..n
      /\ Waiting = 1..n \ Irqs /\ nest \in Nat
  BY Facts
<1>4. /\ nest \in Nat \ {0} /\ Last(stacked) = stacked[nest] /\ Len(stacked') = nest - 1
      /\ \A d \in 1..(nest - 1) : stacked'[d] = stacked[d]
  BY <1>1, <1>2, <1>3, Fronted
<1>5. nest \in 1..nest
  BY <1>4
<1>6. PICK k \in Irqs : host[k].depth = nest
  BY <1>5 DEF Both, IInv, Nested
<1>7. n \in 1..n /\ host # <<>>
  <2>1. n \in 1..n
    BY <1>3, <1>6
  <2>2. QED BY <1>3, <2>1, EmptySeq
<1>8. Last(host) = host[n]
  BY <1>3, <1>7, Fronted
<1>9. n \in Irqs
  <2> SUFFICES ASSUME n \in Waiting PROVE FALSE
    BY <1>3, <1>7
  <2>1. PICK e : Sits(e, crs)
    BY <1>1, RunKnown DEF Embeds, Running
  <2>2. \A m \in Irqs : m < n
    BY <1>3
  <2>3. e[n] > floor /\ e[n] \in DOMAIN crs
    <3>1. k < n
      BY <1>6, <2>2
    <3>2. n \in PlainSites
      BY <1>6, <3>1, PlainSitesAre
    <3>3. QED BY <2>1, <2>2, <3>2 DEF Sits
  <2>4. PICK c, g : Belongs(c, g)
    BY DEF Both, CallInv, Own
  <2>5. e[n] <= floor
    BY <1>1, <1>2, <2>3, <2>4, HandlerEmpty
  <2>6. e[n] \in Nat /\ floor \in Nat
    BY <2>3, Facts
  <2>7. QED BY <2>3, <2>5, <2>6
<1>10. host[n].depth = nest /\ host[n].kind = "irq"
  <2>1. \A m \in Irqs : m <= n
    BY <1>3
  <2>2. QED BY <1>9, <2>1, TopIrq, Frames
<1>11. nest <= Len(stacked)
  BY <1>2, <1>3
<1>12. stacked[nest] = host[n].at
  BY <1>9, <1>10, <1>11 DEF Both, CallInv, Shape
<1>13. QED BY <1>1, <1>4, <1>7, <1>8, <1>10, <1>12

\* Every step keeps a context for each IRQ in progress.
LEMMA ShapeStep ==
  ASSUME "handler" \notin CrossRecursion, ~PresentInPlace, Both, Next PROVE Shape'
<1>1. \A m \in DOMAIN guest' : Plain(m) => OneSite(guest'[m])
  BY OneSiteStep
<1>2. /\ Len(stacked) = IF Done THEN nest - 1 ELSE nest
      /\ Running /\ nest > 0 => iret # nest
      /\ \A i \in Irqs : /\ host[i].depth = 1 \/ host[i].iret # host[i].depth - 1
                         /\ host[i].depth <= Len(stacked) => stacked[host[i].depth] = host[i].at
      /\ Done => host # <<>> /\ Last(host).kind = "irq" /\ Last(host).at = pc
  BY DEF Both, CallInv, Shape
<1>3. ASSUME UNCHANGED <<stacked, nest, iret>>, nest > 0 => iret # nest,
             Irqs' \subseteq Irqs, \A i \in Irqs' : host'[i] = host[i]
      PROVE Shape'
  <2>1. ~Done /\ ~Done'
    BY <1>3 DEF Done
  <2>2. QED BY <1>1, <1>2, <1>3, <2>1 DEF Shape
<1>4. CASE \/ Step \/ (\E r \in JumpRets \cup SwiRets : JumpCall(r)) \/ Return \/ SwiReturn \/ Yield
  <2>1. Running /\ UNCHANGED <<stacked, nest, iret, host>>
    BY <1>4 DEF Step, JumpCall, MayCall, Return, SwiReturn, Yield, irqVars
  <2>2. QED BY <1>2, <1>3, <2>1, FramesKept
<1>5. CASE ReachLoop \/ Dispatch \/ SaveState \/ LoadState
  <2>1. (mode = "loop" \/ host = <<>>) /\ UNCHANGED <<stacked, nest, iret, host>>
    BY <1>5 DEF ReachLoop, Dispatch, SaveState, LoadState, Sampled, irqVars
  <2>2. nest = 0
    BY <2>1, AtLoop
  <2>3. QED BY <1>3, <2>1, <2>2, FramesKept
<1>6. CASE \E r \in BlRets : Call(r)
  <2>1. PICK r \in BlRets : Call(r)
    BY <1>6
  <2>2. Running /\ UNCHANGED <<stacked, nest, iret>> /\ host' = Append(host, BlFrame(r))
    BY <2>1 DEF Call, MayCall, irqVars
  <2>3. BlFrame(r) \in Frame /\ BlFrame(r).kind = "bl"
    BY DEF BlFrame, Frame
  <2>4. Irqs' = Irqs /\ \A i \in Irqs : host'[i] = host[i]
    BY <2>2, <2>3, FramePushed, Facts
  <2>5. QED BY <1>2, <1>3, <2>2, <2>4
<1>7. CASE Resume \/ GiveUp
  <2>1. /\ mode = "unwind" /\ host # <<>> /\ Last(host).kind = "bl" /\ host' = Front(host)
        /\ UNCHANGED <<stacked, nest, iret>>
    BY <1>7 DEF Resume, GiveUp, Unwinding, irqVars
  <2>2. ~Done
    BY <1>2, <2>1
  <2>3. Irqs' = Irqs \ {Len(host)} /\ \A i \in 1..(Len(host) - 1) : host'[i] = host[i]
    BY <2>1, FramePopped
  <2>4. \A i \in Irqs' : host'[i] = host[i]
    <3>1. Irqs \subseteq 1..Len(host) /\ Len(host) \in Nat
      BY Facts
    <3>2. \A i \in 1..Len(host) : i # Len(host) => i \in 1..(Len(host) - 1)
      BY <3>1
    <3>3. QED BY <2>3, <3>1, <3>2
  <2>5. nest > 0 => iret # nest
    BY <2>1, <2>2 DEF Done
  <2>6. QED BY <1>3, <2>1, <2>3, <2>4, <2>5
<1>8. CASE Redrive
  <2>1. /\ host # <<>> /\ Last(host).kind = "irq" /\ iret # Last(host).depth
        /\ UNCHANGED <<stacked, nest, iret, host>>
    BY <1>8 DEF Redrive, Unwinding, irqVars
  <2>2. iret # nest
    BY <2>1, IrqOnTop
  <2>3. QED BY <1>3, <2>1, <2>2, FramesKept
<1>9. CASE Irq
  <2> DEFINE n == Len(host)
  <2>1. /\ Running /\ host' = Append(host, IrqFrame(nest + 1)) /\ nest' = nest + 1 /\ iret' = 0
        /\ stacked' = Append(stacked, pc) /\ mode' = mode
    BY <1>9 DEF Irq
  <2>2. /\ stacked \in Seq(Addresses) /\ pc \in Addresses /\ nest \in Nat /\ n \in Nat
        /\ Irqs \subseteq 1..n
    BY Facts
  <2>3. Len(stacked) = nest
    BY <1>2, <2>1 DEF Running, Done
  <2>4. Len(stacked') = nest + 1 /\ stacked'[nest + 1] = pc
        /\ \A d \in 1..nest : stacked'[d] = stacked[d]
    BY <2>1, <2>2, <2>3, Appended
  <2>5. /\ IrqFrame(nest + 1).kind = "irq" /\ IrqFrame(nest + 1).depth = nest + 1
        /\ IrqFrame(nest + 1).iret = iret /\ IrqFrame(nest + 1).at = pc
    BY DEF IrqFrame
  <2>6. IrqFrame(nest + 1) \in Frame
    BY Facts DEF IrqFrame, Frame
  <2>7. /\ Irqs' = Irqs \cup {n + 1} /\ host'[n + 1] = IrqFrame(nest + 1)
        /\ \A i \in Irqs : host'[i] = host[i]
    BY <2>1, <2>2, <2>5, <2>6, FramePushed
  <2>8. ~Done'
    BY <2>1 DEF Done, Running
  <2>9. Len(stacked') = nest' /\ iret' # nest'
    BY <2>1, <2>2, <2>4
  <2>10. ASSUME NEW i \in Irqs'
         PROVE /\ host'[i].depth = 1 \/ host'[i].iret # host'[i].depth - 1
               /\ host'[i].depth <= Len(stacked') => stacked'[host'[i].depth] = host'[i].at
    <3>1. CASE i \in Irqs
      <4>1. host[i].depth \in 1..nest /\ host[i].depth <= Len(stacked)
        BY <2>2, <2>3, <3>1, Frames
      <4>2. QED BY <1>2, <2>4, <2>7, <3>1, <4>1
    <3>2. CASE i = n + 1
      <4>1. nest + 1 = 1 \/ iret # (nest + 1) - 1
        BY <1>2, <2>1, <2>2
      <4>2. QED BY <2>4, <2>5, <2>7, <3>2, <4>1
    <3>3. QED BY <2>7, <2>10, <3>1, <3>2
  <2>11. QED BY <1>1, <2>8, <2>9, <2>10 DEF Shape
<1>10. CASE ExceptionReturn
  <2>1. /\ iret' = nest /\ nest' = nest /\ host' = host /\ mode' = "unwind"
    BY <1>10 DEF ExceptionReturn
  <2>2. /\ host # <<>> /\ Last(host).kind = "irq" /\ Last(host).at = pc'
        /\ nest > 0 /\ Len(stacked') = nest - 1 /\ nest \in Nat
        /\ \A d \in 1..(nest - 1) : stacked'[d] = stacked[d]
    BY <1>10, HandlerReturns, Facts
  <2>3. Done' /\ ~Running'
    BY <2>1, <2>2 DEF Done, Running
  <2>4. Len(stacked) = nest
    BY <1>2, <1>10 DEF ExceptionReturn, Running, Done
  <2>5. ASSUME NEW i \in Irqs, host[i].depth <= Len(stacked')
        PROVE stacked'[host[i].depth] = host[i].at
    <3>1. host[i].depth \in 1..(nest - 1) /\ host[i].depth <= Len(stacked)
      <4>1. host[i].depth \in 1..nest
        BY Frames
      <4>2. QED BY <2>2, <2>4, <2>5, <4>1
    <3>2. QED BY <1>2, <2>2, <3>1
  <2>6. Irqs' = Irqs
    BY <2>1, FramesKept
  <2>7. QED BY <1>1, <1>2, <2>1, <2>2, <2>3, <2>5, <2>6 DEF Shape
<1>11. CASE IrqDone
  <2> DEFINE n == Len(host)
  <2>1. /\ host # <<>> /\ Last(host).kind = "irq" /\ host' = Front(host) /\ mode = "unwind"
        /\ iret = Last(host).depth /\ iret' = Last(host).iret /\ nest' = nest - 1
        /\ mode' = "run" /\ stacked' = stacked
    BY <1>11 DEF IrqDone, Unwinding
  <2>2. /\ n \in Nat \ {0} /\ n \in Irqs /\ Last(host) = host[n] /\ Irqs \subseteq 1..n
        /\ host[n].depth = nest /\ nest > 0 /\ nest \in Nat
    BY <2>1, IrqOnTop, Facts
  <2>3. Done /\ ~Done'
    BY <2>1, <2>2 DEF Done
  <2>4. Len(stacked') = nest'
    BY <1>2, <2>1, <2>3
  <2>5. nest' > 0 => iret' # nest'
    BY <1>2, <2>1, <2>2
  <2>6. Irqs' = Irqs \ {n} /\ \A i \in 1..(n - 1) : host'[i] = host[i]
    BY <2>1, FramePopped
  <2>7. \A i \in Irqs' : i \in Irqs /\ host'[i] = host[i]
    <3>1. \A i \in 1..n : i # n => i \in 1..(n - 1)
      BY <2>2
    <3>2. QED BY <2>2, <2>6, <3>1
  <2>8. QED BY <1>1, <1>2, <2>1, <2>3, <2>4, <2>5, <2>7 DEF Shape
<1>12. QED
  BY <1>4, <1>5, <1>6, <1>7, <1>8, <1>9, <1>10, <1>11 DEF Next

\* Every step runs the code that R15 points at, or none.
LEMMA NativeStep ==
  ASSUME ~PresentInPlace, Both, Next PROVE NativeFollowsGuest'
<1>1. NativeFollowsGuest
  BY DEF Both, CallInv
<1>2. CASE IrqDone
  <2>1. /\ host # <<>> /\ Last(host).kind = "irq" /\ mode = "unwind" /\ iret = Last(host).depth
        /\ native' = Last(host).at /\ pc' = pc
    BY <1>2 DEF IrqDone, Unwinding
  <2>2. Last(host).depth = nest /\ nest > 0
    BY <2>1, IrqOnTop
  <2>3. Done
    BY <2>1, <2>2 DEF Done
  <2>4. QED BY <2>1, <2>3 DEF Both, CallInv, Shape, NativeFollowsGuest
<1>3. CASE Return
  BY <1>3 DEF Return, NativeFollowsGuest, Running
<1>4. CASE LoadState
  BY <1>4 DEF LoadState, Sampled, NativeFollowsGuest, Running
<1>5. QED
  BY <1>1, <1>2, <1>3, <1>4
     DEF Next, Step, Call, JumpCall, SwiReturn, Yield, Irq, ExceptionReturn, Resume, GiveUp,
         Redrive, ReachLoop, Dispatch, SaveState, Goto, Running, Unwinding, NativeFollowsGuest

-----------------------------------------------------------------------------
\* What a return and a finished IRQ leave

\* Without recursion across sites, a C return takes the top entry and no other.
LEMMA TopReturned ==
  ASSUME Both, Return, OneSite(Calls), mode' = "unwind" PROVE crs' = Front(crs)
<1>1. Running /\ Calls # <<>>
  BY DEF Return
<1>2. PICK i \in Entries(Last(Calls)) : FoundEntry(i) /\ crs' = SubSeq(crs, 1, i - 1)
  BY DEF Return, Running
<1>3. i = Len(crs)
  BY <1>1, <1>2, MatchIsTop
<1>4. QED BY <1>2, <1>3 DEF Front

\* When runtime_irq returns, no entry and no context of its handler is left.
LEMMA NothingLeft ==
  ASSUME Both, IrqDone PROVE Len(crs) = floor /\ Len(guest) = nest
<1>1. /\ host # <<>> /\ Last(host).kind = "irq" /\ mode = "unwind" /\ iret = Last(host).depth
  BY DEF IrqDone, Unwinding
<1>2. Last(host).depth = nest /\ nest > 0
  BY <1>1, IrqOnTop
<1>3. Done
  BY <1>1, <1>2 DEF Done
<1>4. /\ nest \in Nat /\ Len(crs) \in Nat /\ DOMAIN crs = 1..Len(crs) /\ floor \in Nat
      /\ floor <= Len(crs) /\ DOMAIN guest = 1..Len(guest) /\ Len(guest) = Len(stacked) + 1
  BY Facts
<1>5. Len(guest) = nest
  <2>1. Len(stacked) = nest - 1
    BY <1>3 DEF Both, CallInv, Shape
  <2>2. QED BY <1>4, <2>1
<1>6. PICK c, g : Belongs(c, g)
  BY DEF Both, CallInv, Own
<1>7. ASSUME Len(crs) > floor PROVE FALSE
  <2>1. Len(crs) \in DOMAIN crs
    BY <1>4, <1>7
  <2>2. c[Len(crs)] = nest + 1 /\ c[Len(crs)] \in 1..nest
    BY <1>4, <1>5, <1>6, <1>7, <2>1 DEF Belongs
  <2>3. QED BY <1>4, <2>2
<1>8. Len(crs) = floor
  <2>1. ~(Len(crs) > floor)
    BY <1>7
  <2>2. Len(crs) \in Nat /\ floor \in Nat /\ floor <= Len(crs)
    BY <1>4
  <2>3. QED BY <2>1, <2>2
<1>9. QED BY <1>5, <1>8

-----------------------------------------------------------------------------
\* If no handler recurses across sites, whatever the mainline does, and savestates
\* are taken at the outer loop only, the invariant holds in every reachable state.
THEOREM CallInvariance ==
  ASSUME "handler" \notin CrossRecursion, ~PresentInPlace PROVE Spec => []Both
<1>1. Init => CallInv
  <2> SUFFICES ASSUME Init PROVE CallInv
    OBVIOUS
  <2>1. /\ pc = Elsewhere /\ guest = <<<<>>>> /\ stacked = <<>> /\ crs = <<>> /\ floor = 0
        /\ nest = 0 /\ iret = 0 /\ host = <<>> /\ mode = "loop" /\ native = Elsewhere
        /\ slot = None
    BY DEF Init
  <2>2. TypeOK
    <3>1. <<>> \in Seq(Rets) /\ <<>> \in Seq(Addresses) /\ <<>> \in Seq(BlRets)
          /\ <<>> \in Seq(Frame) /\ Len(<<>>) = 0
      BY EmptySeq
    <3>2. guest \in Seq(Seq(Rets)) /\ Len(guest) = 1
      BY <2>1, <3>1
    <3>3. QED BY <2>1, <3>1, <3>2 DEF TypeOK, Addresses
  <2>3. NativeFollowsGuest /\ SlotShape
    BY <2>1 DEF NativeFollowsGuest, Running, SlotShape
  <2>4. Irqs = {} /\ PlainSites = {} /\ DOMAIN crs = {} /\ Len(stacked) = 0
    BY <2>1, EmptySeq DEF Irqs, Waiting, PlainSites
  <2>5. Shape
    <3>1. DOMAIN guest = {1} /\ guest[1] = <<>>
      BY <2>1
    <3>2. \A m \in DOMAIN guest : Plain(m) => OneSite(guest[m])
      BY <3>1, EmptySeq DEF OneSite
    <3>3. QED BY <2>1, <2>4, <3>2 DEF Shape, Done, Running
  <2>6. Own
    <3>1. PICK c : c = [x \in {} |-> 1]
      OBVIOUS
    <3>2. Belongs(c, c)
      BY <2>4, <3>1 DEF Belongs
    <3>3. QED BY <3>2 DEF Own
  <2>7. Known
    <3>1. PICK e : e = [i \in {} |-> 0]
      OBVIOUS
    <3>2. Sits(e, crs)
      BY <2>4, <3>1 DEF Sits
    <3>3. QED BY <3>2 DEF Known, Embeds
  <2>8. QED BY <2>2, <2>3, <2>5, <2>6, <2>7 DEF CallInv
<1>2. IInv /\ CallInv /\ IInv' /\ [Next]_vars => CallInv'
  <2> SUFFICES ASSUME Both, IInv', [Next]_vars PROVE CallInv'
    BY DEF Both
  <2>1. CASE Next
    BY <2>1, TypesKept, NativeStep, SlotKept, ShapeStep, OwnStep, KnownStep DEF CallInv
  <2>2. CASE UNCHANGED vars
    <3>1. CallInv
      BY DEF Both
    <3>2. UNCHANGED <<pc, guest, stacked, crs, floor, nest, iret, host, mode, native, slot>>
      BY <2>2 DEF vars
    <3>3. Irqs' = Irqs /\ PlainSites' = PlainSites /\ Done' = Done /\ Calls' = Calls
      BY <3>2, FramesKept DEF Done, Calls
    <3>4. TypeOK' /\ NativeFollowsGuest' /\ SlotShape' /\ Shape'
      BY <3>1, <3>2, <3>3 DEF CallInv, TypeOK, NativeFollowsGuest, Running, SlotShape, Shape
    <3>5. Own'
      BY <3>1, <3>2, <3>3 DEF CallInv, Own, Belongs
    <3>6. Known'
      BY <3>1, <3>2, <3>3 DEF CallInv, Known, Embeds, Sits
    <3>7. QED BY <3>4, <3>5, <3>6 DEF CallInv
  <2>3. QED BY <2>1, <2>2
<1>3. QED BY <1>1, <1>2, Invariance, PTL DEF Spec, Both

\* Every variable keeps its type, for any return addresses and depths.
THEOREM TypeCorrect ==
  ASSUME "handler" \notin CrossRecursion, ~PresentInPlace PROVE Spec => []TypeOK
<1>1. Both => TypeOK
  BY DEF Both, CallInv
<1>2. QED BY <1>1, CallInvariance, PTL

\* Native code only runs the guest code that R15 points at, however calls, early
\* unwinds, IRQs and savestates follow each other.
THEOREM NativeCodeFollows ==
  ASSUME "handler" \notin CrossRecursion, ~PresentInPlace PROVE Spec => []NativeFollowsGuest
<1>1. Both => NativeFollowsGuest
  BY DEF Both, CallInv
<1>2. QED BY <1>1, CallInvariance, PTL

\* The call-return stack holds nothing but calls that the guest has in progress.
THEOREM StackFollows ==
  ASSUME "handler" \notin CrossRecursion, ~PresentInPlace PROVE Spec => []StackFollowsGuest
<1>1. Both => StackFollowsGuest
  BY TopFollows
<1>2. QED BY <1>1, CallInvariance, PTL

\* Every BL site that waits in a context without recursion across sites is known to
\* the call-return stack.
THEOREM SitesAreKnown ==
  ASSUME "handler" \notin CrossRecursion, ~PresentInPlace PROVE Spec => []WaitingSitesKnown
<1>1. Both => WaitingSitesKnown
  <2> SUFFICES ASSUME Both, Running
               PROVE SubsequenceOf([i \in PlainSites |-> host[i].ret], crs)
    BY DEF WaitingSitesKnown
  <2>1. PICK e : Sits(e, crs)
    BY RunKnown DEF Embeds, Running
  <2>2. DOMAIN [i \in PlainSites |-> host[i].ret] = PlainSites
    OBVIOUS
  <2>3. QED BY <2>1, <2>2 DEF Sits, SubsequenceOf
<1>2. QED BY <1>1, CallInvariance, PTL

\* A C return pops the top entry: older matches, which the scan allows, only occur
\* when the returning context has recursed across sites.
THEOREM TopOnlyReturns ==
  ASSUME "handler" \notin CrossRecursion, ~PresentInPlace PROVE Spec => ReturnsTakeTheTop
<1>1. Both /\ [Next]_vars => [Return /\ mode' = "unwind" /\ OneSite(Calls) => crs' = Front(crs)]_vars
  BY TopReturned
<1>2. QED BY <1>1, CallInvariance, PTL DEF Spec, ReturnsTakeTheTop

\* A finished IRQ leaves the interrupted code's frames and no other.
THEOREM FinishedIrqLeavesNoFrames ==
  ASSUME "handler" \notin CrossRecursion, ~PresentInPlace PROVE Spec => IrqLeavesNoFrames
<1>1. Both /\ [Next]_vars => [IrqDone => Len(crs) = floor /\ Len(guest) = nest]_vars
  BY NothingLeft
<1>2. QED BY <1>1, CallInvariance, PTL DEF Spec, IrqLeavesNoFrames
=============================================================================
