-------------------------- MODULE LazyClockProofs --------------------------
(***************************************************************************)
(* Proofs about LazyClock, for every period and length of the devices'      *)
(* events: the clock's types, that the event budget the runtime keeps is    *)
(* always exact, and that batching the cycles cannot be told from living    *)
(* every one of them (EagerClock).                                          *)
(*                                                                         *)
(* tick_devices is a loop, modelled as a recursive function; that it lives  *)
(* its cycles is shown by induction on the least round that would break it: *)
(* a round, and the rest lived after it, come to the same as all of it.     *)
(***************************************************************************)
EXTENDS LazyClock, TLAPS, WellFoundedInduction, FiniteSetTheorems

\* Every nonempty set of naturals has a least element.
LEMMA LeastNat ==
  ASSUME NEW T \in SUBSET Nat, T # {} PROVE \E x \in T : \A y \in T : x <= y
<1>1. IsWellFoundedOn({ss \in Nat \X Nat : ss[1] < ss[2]}, Nat)
  BY NatLessThanWellFounded DEF OpToRel
<1>2. PICK x \in T : \A y \in T : ~ (<<y, x>> \in {ss \in Nat \X Nat : ss[1] < ss[2]})
  BY <1>1, WFMin
<1>3. ASSUME NEW y \in T PROVE x <= y
  <2>1. <<y, x>> \in Nat \X Nat
    OBVIOUS
  <2>2. ~(y < x)
    BY <1>2, <2>1
  <2>3. QED
    BY <2>2
<1>4. QED
  BY <1>3

LEMMA MinIsLeast ==
  ASSUME NEW T \in SUBSET Nat, T # {} PROVE Min(T) \in T /\ \A y \in T : Min(T) <= y
  BY LeastNat DEF Min

LEMMA Cycles ==
  /\ PpuPeriod \in Nat \ {0} /\ SioCycles \in Nat \ {0} /\ DmaCost \in Nat \ {0}
  /\ WakeDelay \in Nat \ {0} /\ MaxCycles \in Nat \ {0}
  /\ TimerReloads \subseteq Nat \ {0} /\ TimerReloads # {}
  BY CyclesAssumption

-----------------------------------------------------------------------------
\* The devices.

\* The next event lies ahead, and no device's event comes before it.
LEMMA NextEventIsNext ==
  ASSUME NEW h \in Machines, NEW D
  PROVE  /\ NextEvent(h, D) \in Nat \ {0}
         /\ \A d \in Running(h) \cap D : NextEvent(h, D) <= h.left[d]
         /\ Running(h) \cap D # {} => \E d \in Running(h) \cap D : NextEvent(h, D) = h.left[d]
<1> DEFINE ahead == {h.left[d] : d \in Running(h) \cap D}
<1>1. h.left \in [Devices -> Nat]
  BY DEF Machines
<1>2. ahead \in SUBSET (Nat \ {0})
  BY <1>1 DEF Running
<1>3. CASE ahead = {}
  BY <1>3 DEF NextEvent
<1>4. CASE ahead # {}
  <2>1. NextEvent(h, D) = Min(ahead)
    BY <1>4 DEF NextEvent
  <2>2. Min(ahead) \in ahead /\ \A y \in ahead : Min(ahead) <= y
    BY <1>2, <1>4, MinIsLeast
  <2>3. QED
    BY <1>2, <2>1, <2>2
<1>5. QED
  BY <1>3, <1>4

\* Cycles that end no later than the next event leave a machine.
LEMMA ElapseType ==
  ASSUME NEW h \in Machines, NEW k \in Nat, \A d \in Running(h) : k <= h.left[d]
  PROVE  Elapse(h, k) \in Machines
<1> DEFINE events  == {d \in Running(h) : h.left[d] <= k}
           dmaRuns == {d \in events : \/ d = "ppu" /\ h.dma # "off"
                                      \/ d = "timer" /\ h.fifo}
           restart == [ppu |-> PpuPeriod, timer |-> h.reload, sio |-> 0]
           raised  == events \cup (IF dmaRuns # {} THEN {"dma"} ELSE {})
           left    == [d \in Devices |-> IF d \in events THEN restart[d]
                                         ELSE IF d \in Running(h) THEN h.left[d] - k ELSE 0]
<1>1. /\ h.left \in [Devices -> Nat] /\ h.reload \in TimerReloads
      /\ h.dma \in {"off", "once", "repeat"} /\ h.fifo \in BOOLEAN /\ h.steal \in Nat
      /\ h.flags \in SUBSET Irqs /\ h.halted \in BOOLEAN
  BY DEF Machines
<1>2. left \in [Devices -> Nat]
  <2>1. ASSUME NEW d \in Devices PROVE left[d] \in Nat
    <3>1. restart[d] \in Nat
      <4>1. d = "ppu" \/ d = "timer" \/ d = "sio"
        BY DEF Devices
      <4>2. h.reload \in Nat /\ PpuPeriod \in Nat
        BY <1>1, Cycles
      <4>3. /\ d = "ppu" => restart[d] = PpuPeriod
            /\ d = "timer" => restart[d] = h.reload
            /\ d = "sio" => restart[d] = 0
        OBVIOUS
      <4>4. QED
        BY <4>1, <4>2, <4>3
    <3>2. d \in Running(h) /\ d \notin events => h.left[d] - k \in Nat
      BY <1>1
    <3>3. QED
      BY <3>1, <3>2
  <2>2. QED
    BY <2>1
<1>3. Cardinality(dmaRuns) \in Nat
  <2>1. IsFiniteSet(Devices)
    <3>1. IsFiniteSet({"ppu"})
      BY FS_Singleton
    <3>2. IsFiniteSet({"ppu"} \cup {"timer"})
      BY <3>1, FS_AddElement
    <3>3. IsFiniteSet(({"ppu"} \cup {"timer"}) \cup {"sio"})
      BY <3>2, FS_AddElement
    <3>4. ({"ppu"} \cup {"timer"}) \cup {"sio"} = Devices
      BY DEF Devices
    <3>5. QED
      BY <3>3, <3>4
  <2>2. dmaRuns \in SUBSET Devices
    BY DEF Running
  <2>3. QED
    BY <2>1, <2>2, FS_Subset, FS_CardinalityType
<1>4. h.steal + DmaCost * Cardinality(dmaRuns) \in Nat
  BY <1>1, <1>3, Cycles
<1>5. h.flags \cup Requested(raised) \in SUBSET Irqs
  BY <1>1 DEF Requested
<1>6. (IF "ppu" \in events /\ h.dma = "once" THEN "off" ELSE h.dma) \in {"off", "once", "repeat"}
  BY <1>1
<1>7. Elapse(h, k) = [h EXCEPT !.left = left, !.flags = @ \cup Requested(raised),
                              !.steal = @ + DmaCost * Cardinality(dmaRuns),
                              !.dma = IF "ppu" \in events /\ @ = "once" THEN "off" ELSE @]
  BY DEF Elapse
<1> HIDE DEF events, dmaRuns, restart, raised, left
<1>8. QED
  BY <1>1, <1>2, <1>4, <1>5, <1>6, <1>7 DEF Machines

\* Cycles that end before the next event only bring it nearer.
LEMMA ElapseShort ==
  ASSUME NEW h \in Machines, NEW k \in Nat, k < Horizon(h)
  PROVE  Horizon(Elapse(h, k)) = Horizon(h) - k
<1> DEFINE e == Elapse(h, k)
<1>1. h.left \in [Devices -> Nat] /\ h \in Machines
  BY DEF Machines
<1>2. /\ Horizon(h) \in Nat \ {0}
      /\ \A d \in Running(h) : Horizon(h) <= h.left[d]
      /\ Running(h) # {} => \E d \in Running(h) : Horizon(h) = h.left[d]
  BY NextEventIsNext DEF Horizon, Running
<1>3. \A d \in Running(h) : k < h.left[d]
  BY <1>1, <1>2 DEF Running
<1>4. e.left = [d \in Devices |-> IF d \in Running(h) THEN h.left[d] - k ELSE 0]
  <2>1. {d \in Running(h) : h.left[d] <= k} = {}
    BY <1>1, <1>3 DEF Running
  <2>2. QED
    BY <2>1 DEF Elapse, Machines
<1>5. e \in Machines
  BY <1>1, <1>3, ElapseType DEF Running
<1> HIDE DEF e
<1>6. Running(e) = Running(h)
  BY <1>1, <1>3, <1>4 DEF Running
<1>7. \A d \in Running(h) : e.left[d] = h.left[d] - k
  BY <1>4 DEF Running
<1>8. /\ Horizon(e) \in Nat \ {0}
      /\ \A d \in Running(e) : Horizon(e) <= e.left[d]
      /\ Running(e) # {} => \E d \in Running(e) : Horizon(e) = e.left[d]
  BY <1>5, NextEventIsNext DEF Horizon, Running
<1>9. CASE Running(h) = {}
  <2>1. Horizon(h) = 1 /\ Horizon(e) = 1
    BY <1>6, <1>9 DEF Horizon, NextEvent
  <2>2. k = 0
    BY <2>1
  <2>3. QED
    BY <2>1, <2>2 DEF e
<1>10. CASE Running(h) # {}
  <2>1. PICK d \in Running(h) : Horizon(h) = h.left[d]
    BY <1>2, <1>10
  <2>2. PICK c \in Running(h) : Horizon(e) = e.left[c]
    BY <1>6, <1>8, <1>10
  <2>3. Horizon(e) <= Horizon(h) - k
    BY <1>6, <1>7, <1>8, <2>1
  <2>4. Horizon(h) - k <= Horizon(e)
    BY <1>1, <1>2, <1>7, <2>2 DEF Running
  <2>5. QED
    <3>1. Horizon(e) = Horizon(h) - k
      BY <1>2, <1>8, <2>3, <2>4
    <3>2. QED
      BY <3>1 DEF e
<1>11. QED
  BY <1>9, <1>10

-----------------------------------------------------------------------------
\* tick_devices.

Rounds == [hw : Machines, remaining : Nat]

\* The rounds of a call are defined, however many there are.
LEMMA RoundsExist ==
  ASSUME NEW x, NEW N \in Nat
  PROVE  \E f : f = [i \in 0..N |-> IF i = 0 THEN x ELSE Round(f[i - 1])]
<1> DEFINE Good(n) == \E f : f = [i \in 0..n |-> IF i = 0 THEN x ELSE Round(f[i - 1])]
           Bad == {n \in Nat : n <= N /\ ~Good(n)}
<1>1. SUFFICES ASSUME Bad # {} PROVE FALSE
  <2>1. ASSUME ~Good(N) PROVE N \in Bad
    BY <2>1
  <2>2. QED
    BY <2>1
<1>2. PICK n \in Bad : \A m \in Bad : n <= m
  BY <1>1, LeastNat
<1>3. CASE n = 0
  <2> DEFINE g == [i \in 0..0 |-> x]
  <2>1. g = [i \in 0..0 |-> IF i = 0 THEN x ELSE Round(g[i - 1])]
    OBVIOUS
  <2>2. Good(0)
    BY <2>1
  <2>3. QED
    BY <1>3, <2>2
<1>4. CASE n # 0
  <2>1. n - 1 \in Nat /\ n - 1 \notin Bad /\ n - 1 <= N
    <3>1. n \in Nat /\ n <= N
      BY <1>2
    <3> HIDE DEF Bad
    <3>2. QED
      BY <1>2, <1>4, <3>1
  <2>2. PICK f : f = [i \in 0..(n - 1) |-> IF i = 0 THEN x ELSE Round(f[i - 1])]
    BY <2>1
  <2> DEFINE g == [i \in 0..n |-> IF i = n THEN Round(f[n - 1]) ELSE f[i]]
  <2>3. ASSUME NEW i \in 0..n PROVE g[i] = IF i = 0 THEN x ELSE Round(g[i - 1])
    <3>1. CASE i = n
      BY <1>4, <2>1, <3>1
    <3>2. CASE i # n
      <4>1. i \in 0..(n - 1)
        BY <3>2
      <4>2. g[i] = IF i = 0 THEN x ELSE Round(f[i - 1])
        BY <2>2, <3>2, <4>1
      <4>3. i # 0 => i - 1 \in 0..n /\ i - 1 # n
        BY <4>1
      <4>4. QED
        BY <4>2, <4>3
    <3>3. QED
      BY <3>1, <3>2
  <2>4. g = [i \in 0..n |-> IF i = 0 THEN x ELSE Round(g[i - 1])]
    BY <2>3
  <2>5. Good(n)
    BY <2>4
  <2>6. QED
    BY <2>5
<1>5. QED
  BY <1>3, <1>4

\* A round takes no more cycles than there are, and none beyond the next event.
LEMMA ChunkBounds ==
  ASSUME NEW h \in Machines, NEW n \in Nat
  PROVE  /\ Chunk(h, n) \in Nat /\ Chunk(h, n) <= n /\ Chunk(h, n) <= Horizon(h)
         /\ n < Horizon(h) => Chunk(h, n) = n
<1>1. Horizon(h) \in Nat
  BY NextEventIsNext DEF Horizon
<1>2. {n, Horizon(h)} \in SUBSET Nat /\ {n, Horizon(h)} # {}
  BY <1>1
<1>3. Chunk(h, n) \in {n, Horizon(h)} /\ \A y \in {n, Horizon(h)} : Chunk(h, n) <= y
  BY <1>2, MinIsLeast DEF Chunk
<1>4. QED
  BY <1>1, <1>3

LEMMA RoundType == ASSUME NEW s \in Rounds PROVE Round(s) \in Rounds
<1>1. s.hw \in Machines /\ s.remaining \in Nat
  BY DEF Rounds
<1> DEFINE k == Chunk(s.hw, s.remaining)
<1>2. k \in Nat /\ k <= s.remaining /\ k <= Horizon(s.hw)
  BY <1>1, ChunkBounds
<1> HIDE DEF k
<1>3. \A d \in Running(s.hw) : k <= s.hw.left[d]
  <2>1. ASSUME NEW d \in Running(s.hw) PROVE k <= s.hw.left[d]
    <3>1. Horizon(s.hw) \in Nat /\ Horizon(s.hw) <= s.hw.left[d] /\ s.hw.left[d] \in Nat
      BY <1>1, NextEventIsNext DEF Horizon, Running, Machines
    <3>2. QED
      BY <1>2, <3>1
  <2>2. QED
    BY <2>1
<1>4. Elapse(s.hw, k) \in Machines
  BY <1>1, <1>2, <1>3, ElapseType
<1>5. s.remaining - k \in Nat
  BY <1>1, <1>2
<1>6. [hw |-> Elapse(s.hw, k), remaining |-> s.remaining - k] \in Rounds
  BY <1>4, <1>5 DEF Rounds
<1>7. QED
  BY <1>6 DEF Round, k

\* Clocks as the runtime keeps them.
Clocks == [hw : Machines, pending : Nat, budget : Int, epoch : 0 .. 2]

LEMMA DisturbType ==
  ASSUME NEW c \in Clocks
  PROVE  /\ Disturb(c) \in Clocks /\ Disturb(c).hw = c.hw
         /\ Disturb(c).pending = c.pending /\ Disturb(c).budget = c.budget
<1>1. 2 \in 0..2
  OBVIOUS
<1>2. QED
  BY <1>1 DEF Disturb, Clocks

LEMMA TickRounds ==
  ASSUME NEW c \in Clocks, NEW n \in Nat
  PROVE  \E f : /\ f = [i \in 0..n |-> IF i = 0 THEN [hw |-> c.hw, remaining |-> n]
                                       ELSE Round(f[i - 1])]
                /\ TickDevices(c, n) = Disturb([c EXCEPT !.hw = f[n].hw])
<1> DEFINE x == [hw |-> c.hw, remaining |-> n]
           f == CHOOSE f : f = [i \in 0..n |-> IF i = 0 THEN x ELSE Round(f[i - 1])]
<1>1. f = [i \in 0..n |-> IF i = 0 THEN x ELSE Round(f[i - 1])]
  <2> HIDE DEF x
  <2>1. QED
    BY RoundsExist
<1>2. TickDevices(c, n) = Disturb([c EXCEPT !.hw = f[n].hw])
  BY DEF TickDevices
<1>3. QED
  BY <1>1, <1>2

\* tick_devices leaves machines, and everything else but the epoch alone.
LEMMA TickDevicesType ==
  ASSUME NEW c \in Clocks, NEW n \in Nat
  PROVE  /\ TickDevices(c, n) \in Clocks
         /\ TickDevices(c, n).pending = c.pending /\ TickDevices(c, n).budget = c.budget
<1>1. PICK f : /\ f = [i \in 0..n |-> IF i = 0 THEN [hw |-> c.hw, remaining |-> n]
                                      ELSE Round(f[i - 1])]
               /\ TickDevices(c, n) = Disturb([c EXCEPT !.hw = f[n].hw])
  BY TickRounds
<1> DEFINE Bad == {i \in Nat : i <= n /\ f[i] \notin Rounds}
<1>2. Bad = {}
  <2>1. SUFFICES ASSUME Bad # {} PROVE FALSE
    OBVIOUS
  <2>2. PICK i \in Bad : \A m \in Bad : i <= m
    BY <2>1, LeastNat
  <2>3. i \in 0..n /\ f[i] = IF i = 0 THEN [hw |-> c.hw, remaining |-> n] ELSE Round(f[i - 1])
    BY <1>1
  <2>4. i # 0
    BY <2>3 DEF Rounds, Clocks
  <2>5. i - 1 \in Nat /\ i - 1 <= n /\ i - 1 \notin Bad
    <3> HIDE DEF Bad
    <3> QED
      BY <2>2, <2>3, <2>4
  <2>6. f[i - 1] \in Rounds
    BY <2>5
  <2>7. QED
    BY <2>3, <2>4, <2>6, RoundType
<1>3. f[n] \in Rounds
  BY <1>2
<1>4. f[n].hw \in Machines
  BY <1>3 DEF Rounds
<1> DEFINE d == [c EXCEPT !.hw = f[n].hw]
<1>5. d \in Clocks /\ d.pending = c.pending /\ d.budget = c.budget
  BY <1>4 DEF Clocks
<1>6. TickDevices(c, n) = Disturb(d)
  BY <1>1
<1> HIDE DEF d
<1>7. QED
  BY <1>5, <1>6, DisturbType

\* Ticking less than the distance to the next event fires none: the next event is
\* that much nearer.
LEMMA TickDevicesShort ==
  ASSUME NEW c \in Clocks, NEW n \in Nat, n < Horizon(c.hw), n # 0
  PROVE  Horizon(TickDevices(c, n).hw) = Horizon(c.hw) - n
<1>1. PICK f : /\ f = [i \in 0..n |-> IF i = 0 THEN [hw |-> c.hw, remaining |-> n]
                                      ELSE Round(f[i - 1])]
               /\ TickDevices(c, n) = Disturb([c EXCEPT !.hw = f[n].hw])
  BY TickRounds
<1> DEFINE done == [hw |-> Elapse(c.hw, n), remaining |-> 0]
<1>2. Round([hw |-> c.hw, remaining |-> n]) = done
  <2>1. Chunk(c.hw, n) = n
    BY ChunkBounds DEF Clocks
  <2>2. QED
    BY <2>1 DEF Round
<1>3. Round(done) = done
  BY DEF Round
<1> HIDE DEF done
<1> DEFINE Bad == {i \in Nat : i <= n /\ i # 0 /\ f[i] # done}
<1>4. Bad = {}
  <2>1. SUFFICES ASSUME Bad # {} PROVE FALSE
    OBVIOUS
  <2>2. PICK i \in Bad : \A m \in Bad : i <= m
    BY <2>1, LeastNat
  <2>3. i \in 0..n /\ i # 0 /\ f[i] = Round(f[i - 1])
    BY <1>1
  <2>4. CASE i = 1
    <3>1. f[0] = [hw |-> c.hw, remaining |-> n]
      BY <1>1
    <3>2. QED
      BY <1>2, <2>3, <2>4, <3>1
  <2>5. CASE i # 1
    <3>1. i - 1 \in Nat /\ i - 1 <= n /\ i - 1 # 0 /\ i - 1 \notin Bad
      <4> HIDE DEF Bad
      <4> QED
        BY <2>2, <2>3, <2>5
    <3>2. f[i - 1] = done
      BY <3>1
    <3>3. QED
      BY <1>3, <2>3, <3>2
  <2>6. QED
    BY <2>4, <2>5
<1>5. f[n] = done
  BY <1>4
<1>6. TickDevices(c, n).hw = Elapse(c.hw, n)
  BY <1>1, <1>5 DEF Disturb, done, Clocks
<1>7. QED
  BY <1>6, ElapseShort DEF Clocks

-----------------------------------------------------------------------------
\* The clock's operations.

\* The budget is what is left of the distance to the next event.
Exact(c) ==
  \/ c.pending < Horizon(c.hw) /\ c.budget = Horizon(c.hw) - c.pending
  \/ c.pending = 0 /\ c.budget = 0

\* A clock that has just been re-armed.
Armed(c) == c \in Clocks /\ c.pending = 0 /\ c.budget = Horizon(c.hw)

LEMMA ArmedIsExact == ASSUME NEW c, Armed(c) PROVE c \in Clocks /\ Exact(c)
<1>1. Horizon(c.hw) \in Nat \ {0}
  BY NextEventIsNext DEF Horizon, Armed, Clocks
<1>2. QED
  BY <1>1 DEF Armed, Exact

LEMMA RearmArms == ASSUME NEW c \in Clocks, c.pending = 0 PROVE Armed(Rearm(c))
<1>1. Horizon(c.hw) \in Int
  BY NextEventIsNext DEF Horizon, Clocks
<1>2. QED
  BY <1>1 DEF Rearm, Armed, Clocks

LEMMA FlushType ==
  ASSUME NEW c \in Clocks
  PROVE  Flush(c) \in Clocks /\ Flush(c).pending = 0 /\ Flush(c).budget = c.budget
<1> DEFINE t == TickDevices(c, c.pending)
<1>1. t \in Clocks /\ t.budget = c.budget
  BY TickDevicesType DEF Clocks
<1> HIDE DEF t
<1>2. Flush(c) = [t EXCEPT !.pending = 0]
  BY DEF Flush, t
<1>3. QED
  BY <1>1, <1>2 DEF Clocks

LEMMA CatchUpType ==
  ASSUME NEW c \in Clocks
  PROVE  CatchUp(c) \in Clocks /\ CatchUp(c).pending = 0 /\ CatchUp(c).budget = c.budget
  BY FlushType DEF CatchUp

\* Catching up fires no event, and so keeps the budget exact without re-arming.
LEMMA CatchUpExact ==
  ASSUME NEW c \in Clocks, Exact(c) PROVE Exact(CatchUp(c))
<1>1. CASE c.pending = 0
  BY <1>1 DEF CatchUp
<1>2. CASE c.pending # 0
  <2> DEFINE t == TickDevices(c, c.pending)
  <2>1. c.pending \in Nat /\ c.pending < Horizon(c.hw) /\ c.budget = Horizon(c.hw) - c.pending
    BY <1>2 DEF Exact, Clocks
  <2>2. t \in Clocks /\ t.budget = c.budget /\ Horizon(t.hw) = Horizon(c.hw) - c.pending
    BY <1>2, <2>1, TickDevicesType, TickDevicesShort
  <2>3. CatchUp(c) = [t EXCEPT !.pending = 0]
    BY <1>2 DEF CatchUp, Flush
  <2> HIDE DEF t
  <2>4. CatchUp(c).pending = 0 /\ CatchUp(c).budget = c.budget /\ CatchUp(c).hw = t.hw
    BY <2>2, <2>3 DEF Clocks
  <2>5. Horizon(t.hw) \in Nat \ {0}
    BY <2>2, NextEventIsNext DEF Horizon, Clocks
  <2>6. QED
    BY <2>1, <2>2, <2>4, <2>5 DEF Exact
<1>3. QED
  BY <1>1, <1>2

\* The stolen cycles are charged to a clock that is armed, or armed then.
LEMMA DrainExact ==
  ASSUME NEW c \in Clocks
  PROVE  Drain(c) = c \/ Armed(Drain(c))
<1>1. CASE c.hw.steal = 0
  BY <1>1 DEF Drain
<1>2. CASE c.hw.steal # 0
  <2> DEFINE paid == [c EXCEPT !.hw.steal = 0]
             t == TickDevices(CatchUp(paid), c.hw.steal)
  <2>1. c.hw \in Machines /\ c.hw.steal \in Nat
    BY DEF Clocks, Machines
  <2>2. [c.hw EXCEPT !.steal = 0] \in Machines
    BY <2>1 DEF Machines
  <2>3. paid \in Clocks
    BY <2>2 DEF Clocks
  <2> HIDE DEF paid
  <2>4. CatchUp(paid) \in Clocks /\ CatchUp(paid).pending = 0
    BY <2>3, CatchUpType
  <2>5. t \in Clocks /\ t.pending = 0
    BY <2>1, <2>4, TickDevicesType
  <2>6. Drain(c) = Rearm(t)
    BY <1>2 DEF Drain, paid
  <2>7. QED
    BY <2>5, <2>6, RearmArms
<1>3. QED
  BY <1>1, <1>2

LEMMA TickedExact ==
  ASSUME NEW c \in Clocks, Exact(c), NEW n \in Nat \ {0}
  PROVE  Ticked(c, n) \in Clocks /\ Exact(Ticked(c, n))
<1> DEFINE later == [c EXCEPT !.pending = @ + n, !.budget = @ - n]
           armed == Rearm(Flush(later))
<1>1. /\ later \in Clocks /\ later.hw = c.hw
      /\ later.pending = c.pending + n /\ later.budget = c.budget - n
  <2>1. c.pending + n \in Nat /\ c.budget - n \in Int
    BY DEF Clocks
  <2>2. QED
    BY <2>1 DEF Clocks
<1>2. Armed(armed)
  BY <1>1, FlushType, RearmArms
<1>3. later.budget > 0 => Exact(later)
  <2>1. c.pending \in Nat /\ c.budget \in Int /\ Horizon(c.hw) \in Nat
    BY NextEventIsNext DEF Clocks, Horizon
  <2>2. QED
    BY <1>1, <2>1 DEF Exact
<1>4. Ticked(c, n) = Drain(IF later.budget <= 0 THEN armed ELSE later)
  BY DEF Ticked
<1> HIDE DEF later, armed
<1>5. CASE later.budget <= 0
  BY <1>2, <1>4, <1>5, ArmedIsExact, DrainExact
<1>6. CASE ~(later.budget <= 0)
  <2>1. later.budget > 0
    BY <1>1, <1>6 DEF Clocks
  <2>2. QED
    BY <1>1, <1>3, <1>4, <1>6, <2>1, ArmedIsExact, DrainExact
<1>7. QED
  BY <1>5, <1>6

LEMMA WakeExact ==
  ASSUME NEW c \in Clocks, Exact(c) PROVE Wake(c) \in Clocks /\ Exact(Wake(c))
<1>1. CASE ~c.hw.halted
  BY <1>1 DEF Wake
<1>2. CASE c.hw.halted
  <2> DEFINE woken == [c EXCEPT !.hw.halted = FALSE]
             t == TickDevices(CatchUp(woken), WakeDelay)
  <2>1. [c.hw EXCEPT !.halted = FALSE] \in Machines
    BY DEF Clocks, Machines
  <2>2. woken \in Clocks
    BY <2>1 DEF Clocks
  <2> HIDE DEF woken
  <2>3. CatchUp(woken) \in Clocks /\ CatchUp(woken).pending = 0
    BY <2>2, CatchUpType
  <2>4. t \in Clocks /\ t.pending = 0
    BY <2>3, TickDevicesType, Cycles
  <2>5. Wake(c) = Rearm(t)
    BY <1>2 DEF Wake, woken
  <2>6. QED
    BY <2>4, <2>5, RearmArms, ArmedIsExact
<1>3. QED
  BY <1>1, <1>2

-----------------------------------------------------------------------------
\* The guest's steps.

LEMMA WrittenType ==
  ASSUME NEW h \in Machines, NEW w \in Writes PROVE Written(h, w) \in Machines
<1>0. /\ h.left \in [Devices -> Nat] /\ "timer" \in Devices /\ "sio" \in Devices
      /\ h.reload \in TimerReloads /\ h.steal \in Nat /\ h.flags \in SUBSET Irqs
  BY DEF Machines, Devices
<1>1. CASE w \in [reg : {"timer"}, reload : TimerReloads, on : BOOLEAN]
  <2> DEFINE n == IF ~w.on THEN 0 ELSE IF h.left["timer"] = 0 THEN w.reload ELSE h.left["timer"]
  <2>1. w.reg = "timer" /\ w.reload \in TimerReloads /\ w.reload \in Nat
    BY <1>1, Cycles
  <2>2. n \in Nat
    BY <1>0, <2>1
  <2>3. Written(h, w) = [h EXCEPT !.reload = w.reload, !.left["timer"] = n]
    BY <2>1 DEF Written, WrittenTimer
  <2> HIDE DEF n
  <2>4. [h.left EXCEPT !["timer"] = n] \in [Devices -> Nat]
    BY <1>0, <2>2
  <2>5. QED
    BY <2>1, <2>3, <2>4 DEF Machines
<1>2. CASE w \in [reg : {"fifo"}, on : BOOLEAN]
  BY <1>2 DEF Written, Machines
<1>3. CASE w \in [reg : {"dma"}, mode : {"off", "once", "repeat"}]
  BY <1>3 DEF Written, Machines
<1>4. CASE w \in [reg : {"if"}, ack : Irqs]
  <2>1. Written(h, w) = [h EXCEPT !.flags = @ \ {w.ack}]
    BY <1>4 DEF Written
  <2>2. QED
    BY <1>0, <2>1 DEF Machines
<1>5. CASE w.reg = "sio"
  <2> DEFINE n == IF h.left["sio"] = 0 THEN SioCycles ELSE h.left["sio"]
  <2>1. n \in Nat
    BY <1>0, Cycles
  <2>2. Written(h, w) = [h EXCEPT !.left["sio"] = n]
    BY <1>5 DEF Written
  <2> HIDE DEF n
  <2>3. [h.left EXCEPT !["sio"] = n] \in [Devices -> Nat]
    BY <1>0, <2>1
  <2>4. QED
    BY <2>2, <2>3 DEF Machines
<1>6. CASE w.reg = "dmanow"
  <2>1. h.steal + DmaCost \in Nat /\ h.flags \cup Requested({"dma"}) \in SUBSET Irqs
    BY <1>0, Cycles DEF Requested
  <2>2. Written(h, w) = [h EXCEPT !.steal = @ + DmaCost, !.flags = @ \cup Requested({"dma"})]
    BY <1>6 DEF Written
  <2>3. QED
    BY <2>1, <2>2 DEF Machines
<1>7. CASE w.reg = "halt"
  BY <1>7 DEF Written, Machines
<1>8. QED
  BY <1>1, <1>2, <1>3, <1>4, <1>5, <1>6, <1>7 DEF Writes

\* The clock and its site, the part of the invariant that takes arithmetic.
ClockInv == clk \in Clocks /\ Exact(clk) /\ site \in [period : Nat, since : Nat]

LEMMA KeptType ==
  ASSUME NEW c, NEW s \in [period : Nat, since : Nat]
  PROVE  Kept(c, s) \in [period : Nat, since : Nat]
  BY DEF Kept, NoSite

LEMMA TickStep ==
  ASSUME ClockInv, NEW n \in Nat \ {0}, NEW mask, NEW stores, Tick(n, mask, stores)
  PROVE  ClockInv'
<1> DEFINE c0 == IF stores THEN Disturb(clk) ELSE clk
           c  == Ticked(c0, n)
<1>1. c0 \in Clocks /\ Exact(c0)
  BY DisturbType DEF ClockInv, Exact
<1> HIDE DEF c0
<1>2. c \in Clocks /\ Exact(c)
  BY <1>1, TickedExact
<1>3. clk' = c \/ clk' = Wake(c)
  BY DEF Tick, c0
<1> HIDE DEF c
<1>4. clk' \in Clocks /\ Exact(clk')
  BY <1>2, <1>3, WakeExact
<1>5. [site EXCEPT !.since = @ + n] \in [period : Nat, since : Nat]
  BY DEF ClockInv
<1>6. \E next : site' = Kept(next, [site EXCEPT !.since = @ + n])
  BY DEF Tick
<1>7. site' \in [period : Nat, since : Nat]
  BY <1>5, <1>6, KeptType
<1>8. QED
  BY <1>4, <1>7 DEF ClockInv, Exact

LEMMA ReadStep ==
  ASSUME ClockInv, NEW vcount \in BOOLEAN, Read(vcount) PROVE ClockInv'
<1> DEFINE c == CatchUp(clk)
           next == IF vcount /\ c.epoch = 0 THEN [c EXCEPT !.epoch = 1] ELSE Disturb(c)
<1>1. c \in Clocks /\ Exact(c)
  BY CatchUpType, CatchUpExact DEF ClockInv
<1> HIDE DEF c
<1>2. next \in Clocks /\ next.hw = c.hw /\ next.pending = c.pending /\ next.budget = c.budget
  <2>1. 1 \in 0..2
    OBVIOUS
  <2>2. [c EXCEPT !.epoch = 1] \in Clocks
    BY <1>1, <2>1 DEF Clocks
  <2>3. QED
    BY <1>1, <2>2, DisturbType DEF Clocks
<1>3. clk' = next /\ site' = Kept(next, site)
  BY DEF Read, c
<1> HIDE DEF next
<1>4. Exact(next)
  BY <1>1, <1>2 DEF Exact
<1>5. site' \in [period : Nat, since : Nat]
  BY <1>3, KeptType DEF ClockInv
<1>6. QED
  BY <1>2, <1>3, <1>4, <1>5 DEF ClockInv, Exact

LEMMA WriteStep ==
  ASSUME ClockInv, NEW w \in Writes, Write(w) PROVE ClockInv'
<1> DEFINE c == CatchUp(clk)
           v == [c EXCEPT !.hw = Written(@, w)]
           d == Disturb(v)
<1>1. c \in Clocks /\ c.pending = 0
  BY CatchUpType DEF ClockInv
<1> HIDE DEF c
<1>2. v \in Clocks /\ v.pending = 0
  BY <1>1, WrittenType DEF Clocks
<1> HIDE DEF v
<1>3. d \in Clocks /\ d.pending = 0
  BY <1>2, DisturbType
<1>4. clk' = Rearm(Drain(d)) /\ site' = NoSite
  BY DEF Write, Resync, c, v
<1> HIDE DEF d
<1>5. Drain(d) \in Clocks /\ Drain(d).pending = 0
  BY <1>3, DrainExact DEF Armed
<1>6. clk' \in Clocks /\ Exact(clk')
  BY <1>4, <1>5, RearmArms, ArmedIsExact
<1>7. QED
  BY <1>4, <1>6 DEF ClockInv, Exact, NoSite

\* Whole iterations fit in what is left of the budget, with a cycle to spare.
LEMMA IdleCyclesFit ==
  ASSUME NEW b \in Nat \ {0}, NEW p \in Nat \ {0}
  PROVE  ((b - 1) \div p) * p \in Nat /\ ((b - 1) \div p) * p < b
<1> DEFINE q == (b - 1) \div p
           r == (b - 1) % p
<1>1. b - 1 = p * q + r /\ r \in 0..p - 1 /\ q \in Nat
  OBVIOUS
<1> HIDE DEF q, r
<1>2. p * q = q * p /\ q * p \in Nat
  BY <1>1
<1>3. q * p < b
  BY <1>1, <1>2
<1>4. QED
  BY <1>2, <1>3 DEF q

LEMMA BackEdgeStep ==
  ASSUME ClockInv, NEW same \in BOOLEAN, NEW poll \in BOOLEAN, BackEdge(same, poll)
  PROVE  ClockInv'
<1> DEFINE proof == same /\ (clk.epoch = 0 \/ (clk.epoch = 1 /\ poll))
           confirmed == proof /\ site.since # 0 /\ site.since = site.period
           skipped == IF confirmed /\ clk.budget > site.period THEN IdleCycles(site.period) ELSE 0
<1>1. site.period \in Nat /\ site.since \in Nat /\ clk.budget \in Int /\ clk.pending \in Nat
  BY DEF ClockInv, Clocks
<1>2. skipped = 0 \/ (skipped \in Nat /\ skipped < clk.budget)
  <2>1. CASE confirmed /\ clk.budget > site.period
    <3>1. skipped = IdleCycles(site.period)
      BY <2>1
    <3>2. site.period \in Nat \ {0}
      BY <1>1, <2>1
    <3>3. clk.budget \in Nat \ {0}
      BY <1>1, <2>1, <3>2
    <3>4. QED
      BY <3>1, <3>2, <3>3, IdleCyclesFit DEF IdleCycles
  <2>2. CASE ~(confirmed /\ clk.budget > site.period)
    BY <2>2
  <2>3. QED
    BY <2>1, <2>2
<1>3. /\ clk' = [clk EXCEPT !.pending = @ + skipped, !.budget = @ - skipped, !.epoch = 0]
      /\ site' = [period |-> IF proof THEN site.since ELSE 0, since |-> 0]
  BY DEF BackEdge
<1> HIDE DEF skipped, proof, confirmed
<1>4. /\ clk' \in Clocks /\ clk'.hw = clk.hw
      /\ clk'.pending = clk.pending + skipped /\ clk'.budget = clk.budget - skipped
  <2>1. clk.pending + skipped \in Nat /\ clk.budget - skipped \in Int /\ 0 \in 0..2
    BY <1>1, <1>2
  <2>2. QED
    BY <1>3, <2>1 DEF ClockInv, Clocks
<1>5. Exact(clk')
  <2>1. Exact(clk) /\ Horizon(clk.hw) \in Nat
    BY NextEventIsNext DEF ClockInv, Clocks, Horizon
  <2>2. QED
    BY <1>1, <1>2, <1>4, <2>1 DEF Exact
<1>6. site' \in [period : Nat, since : Nat]
  BY <1>1, <1>3
<1>7. QED
  BY <1>4, <1>5, <1>6 DEF ClockInv, Exact

LEMMA ClockInit == Init => ClockInv
<1> SUFFICES ASSUME Init PROVE ClockInv
  OBVIOUS
<1>1. PowerOn \in Machines
  <2>1. (CHOOSE r \in TimerReloads : TRUE) \in TimerReloads
    BY Cycles
  <2>2. QED
    BY <2>1, Cycles DEF PowerOn, Machines
<1> HIDE DEF PowerOn
<1>2. clk \in Clocks /\ clk.pending = 0 /\ clk.budget = 0
  <2>1. 2 \in 0..2
    OBVIOUS
  <2>2. QED
    BY <1>1, <2>1 DEF Init, Clocks
<1>3. QED
  BY <1>2 DEF Init, ClockInv, Exact, NoSite

-----------------------------------------------------------------------------
\* What EagerClock!Live computes, in the words of this module.

\* The devices whose event comes within m cycles, and how often it does.
Came(h, m) == {d \in Running(h) : h.left[d] <= m}

Period(h, d) == IF d = "ppu" THEN PpuPeriod ELSE h.reload

Times(h, d, m) == IF d \in Came(h, m) THEN 1 + (m - h.left[d]) \div Period(h, d) ELSE 0

\* How far its next event is then.
Ahead(h, d, m) ==
  IF d \notin Running(h) THEN 0
  ELSE IF d \notin Came(h, m) THEN h.left[d] - m
  ELSE IF d = "sio" THEN 0 ELSE Period(h, d) - ((m - h.left[d]) % Period(h, d))

\* The DMA transfers those events run.
PpuDma(h, m) ==
  IF h.dma = "off" \/ "ppu" \notin Came(h, m) THEN 0
  ELSE IF h.dma = "once" THEN 1 ELSE Times(h, "ppu", m)

TimerDma(h, m) == IF h.fifo THEN Times(h, "timer", m) ELSE 0

DmaRuns(h, m) == PpuDma(h, m) + TimerDma(h, m)

Raised(h, m) == Came(h, m) \cup (IF DmaRuns(h, m) > 0 THEN {"dma"} ELSE {})

StillArmed(h, m) == IF "ppu" \in Came(h, m) /\ h.dma = "once" THEN "off" ELSE h.dma

\* The machine after events of which these are the distances left, the requests,
\* the transfers and what is armed still.
Lived(h, left, raised, runs, armed) ==
  [h EXCEPT !.left = left, !.flags = @ \cup Requested(raised),
            !.steal = @ + DmaCost * runs, !.dma = armed]

LEMMA MachineFields ==
  ASSUME NEW h \in Machines
  PROVE  /\ h.left \in [Devices -> Nat] /\ h.reload \in Nat \ {0}
         /\ h.dma \in {"off", "once", "repeat"} /\ h.fifo \in BOOLEAN
         /\ h.steal \in Nat /\ h.flags \in SUBSET Irqs /\ h.halted \in BOOLEAN
  BY Cycles DEF Machines

LEMMA SameOperators ==
  /\ \A h : Eager!Running(h) = Running(h)
  /\ \A S : Eager!Requested(S) = Requested(S)
  /\ \A S : Eager!Min(S) = Min(S)
  /\ Eager!Devices = Devices
  BY DEF Eager!Running, Running, Eager!Requested, Requested, Eager!Min, Min,
         Eager!Devices, Devices

\* A periodic device's events do come a natural number of times.
LEMMA TimesType ==
  ASSUME NEW h \in Machines, NEW m \in Nat, NEW d \in {"ppu", "timer"}
  PROVE  /\ Times(h, d, m) \in Nat /\ (d \in Came(h, m) => Times(h, d, m) > 0)
         /\ Period(h, d) \in Nat \ {0}
<1>1. Period(h, d) \in Nat \ {0}
  BY MachineFields, Cycles DEF Period
<1>2. CASE d \in Came(h, m)
  <2> DEFINE past == m - h.left[d]
             p == Period(h, d)
  <2>1. past \in Nat /\ p \in Nat \ {0}
    BY <1>1, <1>2, MachineFields DEF Came, Running
  <2>2. Times(h, d, m) = 1 + past \div p
    BY <1>2 DEF Times
  <2> HIDE DEF past, p
  <2>3. past \div p \in Nat
    BY <2>1
  <2>4. QED
    BY <1>1, <2>2, <2>3
<1>3. CASE d \notin Came(h, m)
  BY <1>1, <1>3 DEF Times
<1>4. QED
  BY <1>2, <1>3

LEMMA DmaRunsType ==
  ASSUME NEW h \in Machines, NEW m \in Nat
  PROVE  PpuDma(h, m) \in Nat /\ TimerDma(h, m) \in Nat /\ DmaRuns(h, m) \in Nat
<1>1. Times(h, "ppu", m) \in Nat /\ Times(h, "timer", m) \in Nat
  BY TimesType
<1>2. QED
  BY <1>1 DEF PpuDma, TimerDma, DmaRuns

\* Live, as Lived.
LEMMA LiveIs ==
  ASSUME NEW h \in Machines, NEW m \in Nat
  PROVE  Eager!Live(h, m) = Lived(h, [d \in Devices |-> Ahead(h, d, m)], Raised(h, m),
                                  DmaRuns(h, m), StillArmed(h, m))
<1> DEFINE period   == [ppu |-> PpuPeriod, timer |-> h.reload]
           came     == {d \in Eager!Running(h) : h.left[d] <= m}
           past(d)  == m - h.left[d]
           times(d) == IF d \in came THEN 1 + past(d) \div period[d] ELSE 0
           dmaRuns  == (CASE h.dma = "off"    -> 0
                          [] h.dma = "once"   -> Eager!Min({1, times("ppu")})
                          [] h.dma = "repeat" -> times("ppu"))
                       + (IF h.fifo THEN times("timer") ELSE 0)
           next(d)  == IF d \notin came THEN h.left[d] - m
                       ELSE IF d = "sio" THEN 0 ELSE period[d] - (past(d) % period[d])
           left     == [d \in Eager!Devices |-> IF d \in Eager!Running(h) THEN next(d) ELSE 0]
<1>0. Eager!Live(h, m) =
        [h EXCEPT !.left  = left,
                  !.flags = @ \cup Eager!Requested(came)
                              \cup (IF dmaRuns > 0 THEN Eager!Requested({"dma"}) ELSE {}),
                  !.steal = @ + DmaCost * dmaRuns,
                  !.dma   = IF "ppu" \in came /\ @ = "once" THEN "off" ELSE @]
  BY DEF Eager!Live
<1>1. came = Came(h, m)
  BY SameOperators DEF Came
<1>2. period["ppu"] = Period(h, "ppu") /\ period["timer"] = Period(h, "timer")
  BY DEF Period
<1>3. times("ppu") = Times(h, "ppu", m) /\ times("timer") = Times(h, "timer", m)
  BY <1>1, <1>2 DEF Times
<1>4. dmaRuns = DmaRuns(h, m)
  <2>1. Times(h, "ppu", m) \in Nat /\ ("ppu" \in Came(h, m) => Times(h, "ppu", m) > 0)
        /\ ("ppu" \notin Came(h, m) => Times(h, "ppu", m) = 0)
    BY TimesType DEF Times
  <2>2. Eager!Min({1, times("ppu")}) = IF "ppu" \in Came(h, m) THEN 1 ELSE 0
    <3>1. {1, Times(h, "ppu", m)} \in SUBSET Nat /\ {1, Times(h, "ppu", m)} # {}
      BY <2>1
    <3>2. /\ Min({1, Times(h, "ppu", m)}) \in {1, Times(h, "ppu", m)}
          /\ \A y \in {1, Times(h, "ppu", m)} : Min({1, Times(h, "ppu", m)}) <= y
      BY <3>1, MinIsLeast
    <3>3. Eager!Min({1, times("ppu")}) = Min({1, Times(h, "ppu", m)})
      BY <1>3, SameOperators
    <3>4. QED
      BY <2>1, <3>2, <3>3
  <2> HIDE DEF came, times
  <2>3. h.dma \in {"off", "once", "repeat"}
    BY MachineFields
  <2>4. QED
    BY <1>3, <2>1, <2>2, <2>3 DEF DmaRuns, PpuDma, TimerDma
<1>5. left = [d \in Devices |-> Ahead(h, d, m)]
  <2>1. ASSUME NEW d \in Devices, d \in Running(h) PROVE next(d) = Ahead(h, d, m)
    <3>1. CASE d = "sio"
      BY <1>1, <2>1, <3>1 DEF Ahead
    <3>2. CASE d = "ppu" \/ d = "timer"
      <4>1. period[d] = Period(h, d)
        BY <1>2, <3>2
      <4> HIDE DEF period, came
      <4>2. QED
        BY <1>1, <2>1, <3>2, <4>1 DEF Ahead
    <3>3. QED
      BY <3>1, <3>2 DEF Devices
  <2>2. ASSUME NEW d \in Devices, d \notin Running(h) PROVE Ahead(h, d, m) = 0
    BY <2>2 DEF Ahead
  <2> HIDE DEF next
  <2>3. QED
    BY <2>1, <2>2, SameOperators
<1>6. Requested(Raised(h, m)) = Eager!Requested(came)
                                \cup (IF dmaRuns > 0 THEN Eager!Requested({"dma"}) ELSE {})
  <2> HIDE DEF came, dmaRuns
  <2>1. QED
    BY <1>1, <1>4, SameOperators DEF Raised, Requested
<1> HIDE DEF came, dmaRuns, left
<1>7. QED
  BY <1>0, <1>1, <1>4, <1>5, <1>6 DEF Lived, StillArmed

LEMMA Pair == Cardinality({}) = 0 /\ Cardinality({"ppu"}) = 1 /\ Cardinality({"timer"}) = 1
              /\ Cardinality({"ppu", "timer"}) = 2
<1>1. Cardinality({}) = 0
  BY FS_EmptySet
<1>2. IsFiniteSet({"ppu"}) /\ Cardinality({"ppu"}) = 1 /\ Cardinality({"timer"}) = 1
  BY FS_Singleton
<1>3. Cardinality({"ppu"} \cup {"timer"}) = 1 + 1
  BY <1>2, FS_AddElement
<1>4. {"ppu"} \cup {"timer"} = {"ppu", "timer"}
  OBVIOUS
<1>5. QED
  BY <1>1, <1>2, <1>3, <1>4

\* The cycles of a round reach no event before the last of them.
Reaches(h, k) == \A d \in Running(h) : k <= h.left[d]

\* In a round, an event comes once.
LEMMA RoundTimes ==
  ASSUME NEW h \in Machines, NEW k \in Nat, Reaches(h, k), NEW d \in {"ppu", "timer"}
  PROVE  /\ d \in Came(h, k) => k = h.left[d] /\ Times(h, d, k) = 1
                                /\ Ahead(h, d, k) = Period(h, d)
         /\ d \notin Came(h, k) => Times(h, d, k) = 0
<1>1. CASE d \in Came(h, k)
  <2>1. d \in Running(h) /\ h.left[d] \in Nat /\ h.left[d] = k /\ k - h.left[d] = 0
    BY <1>1, MachineFields DEF Reaches, Came, Running
  <2>2. Period(h, d) \in Nat \ {0}
    BY TimesType
  <2>3. 0 \div Period(h, d) = 0 /\ 0 % Period(h, d) = 0
    BY <2>2
  <2>4. Times(h, d, k) = 1
    BY <1>1, <2>1, <2>3 DEF Times
  <2>5. Ahead(h, d, k) = Period(h, d)
    BY <1>1, <2>1, <2>2, <2>3 DEF Ahead
  <2>6. QED
    BY <1>1, <2>1, <2>4, <2>5
<1>2. CASE d \notin Came(h, k)
  BY <1>2 DEF Times
<1>3. QED
  BY <1>1, <1>2

\* A round of tick_devices is that many cycles lived.
LEMMA RoundIsLived ==
  ASSUME NEW h \in Machines, NEW k \in Nat, Reaches(h, k)
  PROVE  Elapse(h, k) = Lived(h, [d \in Devices |-> Ahead(h, d, k)], Raised(h, k),
                              DmaRuns(h, k), StillArmed(h, k))
<1> DEFINE events  == {d \in Running(h) : h.left[d] <= k}
           dmaRuns == {d \in events : \/ d = "ppu" /\ h.dma # "off"
                                      \/ d = "timer" /\ h.fifo}
           restart == [ppu |-> PpuPeriod, timer |-> h.reload, sio |-> 0]
           raised  == events \cup (IF dmaRuns # {} THEN {"dma"} ELSE {})
           left    == [d \in Devices |-> IF d \in events THEN restart[d]
                                         ELSE IF d \in Running(h) THEN h.left[d] - k ELSE 0]
<1>0. Elapse(h, k) = [h EXCEPT !.left = left, !.flags = @ \cup Requested(raised),
                              !.steal = @ + DmaCost * Cardinality(dmaRuns),
                              !.dma = IF "ppu" \in events /\ @ = "once" THEN "off" ELSE @]
  BY MachineFields DEF Elapse
<1>1. events = Came(h, k)
  BY DEF Came
<1>2. h.dma \in {"off", "once", "repeat"} /\ h.fifo \in BOOLEAN
  BY MachineFields
<1>3. Cardinality(dmaRuns) = DmaRuns(h, k) /\ (dmaRuns # {} <=> DmaRuns(h, k) > 0)
  <2>1. PpuDma(h, k) = IF h.dma # "off" /\ "ppu" \in events THEN 1 ELSE 0
    BY <1>1, <1>2, RoundTimes DEF PpuDma
  <2>2. TimerDma(h, k) = IF h.fifo /\ "timer" \in events THEN 1 ELSE 0
    BY <1>1, <1>2, RoundTimes DEF TimerDma
  <2>3. CASE "ppu" \in dmaRuns /\ "timer" \in dmaRuns
    <3>1. dmaRuns = {"ppu", "timer"}
      BY <2>3
    <3>2. DmaRuns(h, k) = 2
      BY <2>1, <2>2, <2>3 DEF DmaRuns
    <3> HIDE DEF dmaRuns
    <3>3. QED
      BY <3>1, <3>2, Pair
  <2>4. CASE "ppu" \in dmaRuns /\ "timer" \notin dmaRuns
    <3>1. dmaRuns = {"ppu"}
      BY <2>4
    <3>2. DmaRuns(h, k) = 1
      BY <2>1, <2>2, <2>4 DEF DmaRuns
    <3> HIDE DEF dmaRuns
    <3>3. QED
      BY <3>1, <3>2, Pair
  <2>5. CASE "ppu" \notin dmaRuns /\ "timer" \in dmaRuns
    <3>1. dmaRuns = {"timer"}
      BY <2>5
    <3>2. DmaRuns(h, k) = 1
      BY <2>1, <2>2, <2>5 DEF DmaRuns
    <3> HIDE DEF dmaRuns
    <3>3. QED
      BY <3>1, <3>2, Pair
  <2>6. CASE "ppu" \notin dmaRuns /\ "timer" \notin dmaRuns
    <3>1. dmaRuns = {}
      BY <2>6
    <3>2. DmaRuns(h, k) = 0
      BY <2>1, <2>2, <2>6 DEF DmaRuns
    <3> HIDE DEF dmaRuns
    <3>3. QED
      BY <3>1, <3>2, Pair
  <2>7. QED
    BY <2>3, <2>4, <2>5, <2>6
<1>4. left = [d \in Devices |-> Ahead(h, d, k)]
  <2>1. ASSUME NEW d \in Devices PROVE left[d] = Ahead(h, d, k)
    <3>1. CASE d \in events /\ d = "sio"
      BY <1>1, <3>1 DEF Ahead, Devices
    <3>2. CASE d \in events /\ d # "sio"
      <4>1. d \in {"ppu", "timer"} /\ left[d] = restart[d]
        BY <3>2 DEF Devices
      <4>2. restart[d] = Period(h, d)
        BY <4>1 DEF Period
      <4> HIDE DEF events, left, restart
      <4>3. QED
        BY <1>1, <3>2, <4>1, <4>2, RoundTimes
    <3>3. CASE d \notin events
      BY <1>1, <3>3 DEF Ahead
    <3>4. QED
      BY <3>1, <3>2, <3>3
  <2>2. QED
    BY <2>1
<1>5. raised = Raised(h, k)
  <2> HIDE DEF events, dmaRuns
  <2>1. QED
    BY <1>1, <1>3 DEF Raised
<1> HIDE DEF events, dmaRuns, left, raised
<1>6. QED
  BY <1>0, <1>1, <1>3, <1>4, <1>5 DEF Lived, StillArmed

\* Lived leaves a machine.
LEMMA LivedType ==
  ASSUME NEW h \in Machines, NEW left \in [Devices -> Nat], NEW raised, NEW runs \in Nat,
         NEW armed \in {"off", "once", "repeat"}
  PROVE  Lived(h, left, raised, runs, armed) \in Machines
<1>1. h.steal + DmaCost * runs \in Nat
  BY MachineFields, Cycles
<1>2. h.flags \cup Requested(raised) \in SUBSET Irqs
  BY MachineFields DEF Requested
<1>3. QED
  BY <1>1, <1>2 DEF Lived, Machines

LEMMA AheadType ==
  ASSUME NEW h \in Machines, NEW m \in Nat, NEW d \in Devices
  PROVE  Ahead(h, d, m) \in Nat /\ (d = "ppu" /\ d \in Running(h) => Ahead(h, d, m) > 0)
<1>1. CASE d \in Came(h, m) /\ d # "sio"
  <2> DEFINE past == m - h.left[d]
             p == Period(h, d)
  <2>1. d \in {"ppu", "timer"} /\ d \in Running(h)
    BY <1>1 DEF Devices, Came
  <2>2. past \in Nat /\ p \in Nat \ {0}
    BY <1>1, <2>1, TimesType, MachineFields DEF Came, Running
  <2>3. Ahead(h, d, m) = p - (past % p)
    BY <1>1, <2>1 DEF Ahead
  <2> HIDE DEF past, p
  <2>4. past % p \in 0 .. p - 1
    BY <2>2
  <2>5. QED
    BY <2>2, <2>3, <2>4
<1>2. CASE ~(d \in Came(h, m) /\ d # "sio")
  BY <1>2, MachineFields DEF Ahead, Came, Running
<1>3. QED
  BY <1>1, <1>2

LEMMA LiveType ==
  ASSUME NEW h \in Machines, NEW m \in Nat
  PROVE  /\ Eager!Live(h, m) \in Machines
         /\ "ppu" \in Running(h) => Eager!Live(h, m).left["ppu"] > 0
<1>1. [d \in Devices |-> Ahead(h, d, m)] \in [Devices -> Nat]
  BY AheadType
<1>2. StillArmed(h, m) \in {"off", "once", "repeat"}
  BY MachineFields DEF StillArmed
<1>3. DmaRuns(h, m) \in Nat
  BY DmaRunsType
<1>4. Eager!Live(h, m) \in Machines
  BY <1>1, <1>2, <1>3, LiveIs, LivedType
<1>5. Eager!Live(h, m).left["ppu"] = Ahead(h, "ppu", m)
  <2> DEFINE left == [d \in Devices |-> Ahead(h, d, m)]
  <2>1. Eager!Live(h, m) = Lived(h, left, Raised(h, m), DmaRuns(h, m), StillArmed(h, m))
    BY LiveIs
  <2>2. left["ppu"] = Ahead(h, "ppu", m)
    BY DEF Devices
  <2> HIDE DEF left
  <2>3. QED
    BY <2>1, <2>2 DEF Lived, Machines
<1>6. QED
  BY <1>4, <1>5, AheadType DEF Devices

\* No cycles change nothing.
LEMMA LiveNone == ASSUME NEW h \in Machines PROVE Eager!Live(h, 0) = h
<1>1. Came(h, 0) = {}
  BY MachineFields DEF Came, Running
<1>2. \A d \in Devices : Ahead(h, d, 0) = h.left[d]
  BY <1>1, MachineFields DEF Ahead, Running
<1>3. DmaRuns(h, 0) = 0
  BY <1>1 DEF DmaRuns, PpuDma, TimerDma, Times
<1>4. Requested(Raised(h, 0)) = {}
  BY <1>1, <1>3 DEF Raised, Requested
<1>5. [d \in Devices |-> Ahead(h, d, 0)] = h.left
  BY <1>2, MachineFields
<1>6. StillArmed(h, 0) = h.dma
  BY <1>1 DEF StillArmed
<1>7. h.steal + DmaCost * 0 = h.steal /\ h.flags \cup {} = h.flags
  BY MachineFields, Cycles
<1>8. Lived(h, h.left, Raised(h, 0), 0, h.dma) = h
  BY <1>4, <1>7 DEF Lived, Machines
<1>9. QED
  BY <1>3, <1>5, <1>6, <1>8, LiveIs

\* How often a period fits in a stretch of cycles, and in what is left of it
\* after the first.
LEMMA OnePeriodLess ==
  ASSUME NEW n \in Nat, NEW p \in Nat \ {0}
  PROVE  /\ p <= n => /\ n \div p = 1 + (n - p) \div p
                      /\ n % p = (n - p) % p
         /\ n < p => n \div p = 0 /\ n % p = n
<1>1. ASSUME p <= n PROVE n \div p = 1 + (n - p) \div p /\ n % p = (n - p) % p
  <2> DEFINE q == (n - p) \div p
             r == (n - p) % p
             t == n \div p
             u == n % p
  <2>1. n - p \in Nat
    BY <1>1
  <2>2. n - p = p * q + r /\ q \in Nat /\ r \in 0 .. p - 1
    BY <2>1
  <2>3. n = p * t + u /\ t \in Nat /\ u \in 0 .. p - 1
    OBVIOUS
  <2> HIDE DEF q, r, t, u
  <2>4. p * (t - q - 1) = r - u
    BY <2>2, <2>3
  <2>5. r - u < p /\ u - r < p
    BY <2>2, <2>3
  <2> DEFINE z == t - q - 1
  <2>6. z \in Int
    BY <2>2, <2>3
  <2>7. p * z = r - u
    BY <2>4
  <2> HIDE DEF z
  <2>8. z >= 1 => p * z >= p
    BY <2>6
  <2>9. z <= -1 => p * z <= -p
    BY <2>6
  <2>10. z = 0
    BY <2>2, <2>3, <2>5, <2>6, <2>7, <2>8, <2>9
  <2>11. r - u = 0
    BY <2>7, <2>10
  <2>12. t = 1 + q /\ u = r
    BY <2>2, <2>3, <2>10, <2>11 DEF z
  <2>13. QED
    BY <2>12 DEF q, r, t, u
<1>2. ASSUME n < p PROVE n \div p = 0 /\ n % p = n
  BY <1>2
<1>3. QED
  BY <1>1, <1>2

\* Of one device: its events in a stretch of cycles are those of the first round
\* and those of the rest.
LEMMA DeviceAfterRound ==
  ASSUME NEW h \in Machines, NEW k \in Nat, NEW n \in Nat, Reaches(h, k),
         NEW e \in Machines, e.left = [d \in Devices |-> Ahead(h, d, k)], e.reload = h.reload,
         NEW d \in Devices
  PROVE  /\ Ahead(h, d, k + n) = Ahead(e, d, n)
         /\ d \in Came(h, k + n) <=> d \in Came(h, k) \/ d \in Came(e, n)
         /\ d # "sio" => Times(h, d, k + n) = Times(h, d, k) + Times(e, d, n)
<1>0. /\ h.left[d] \in Nat /\ e.left[d] = Ahead(h, d, k)
      /\ Period(e, d) = Period(h, d) /\ k + n \in Nat
  BY MachineFields DEF Period
<1>1. CASE d \notin Running(h)
  <2>1. e.left[d] = 0
    BY <1>0, <1>1 DEF Ahead
  <2>2. d \notin Running(e)
    BY <2>1 DEF Running
  <2>3. QED
    BY <1>1, <2>2 DEF Ahead, Came, Times
<1>2. CASE d \in Running(h) /\ d \notin Came(h, k)
  <2>1. ~(h.left[d] <= k) /\ h.left[d] # 0
    BY <1>2 DEF Came, Running
  <2>2. e.left[d] = h.left[d] - k /\ e.left[d] # 0
    BY <1>0, <1>2, <2>1 DEF Ahead
  <2>3. d \in Running(e)
    BY <2>2 DEF Running
  <2>4. d \in Came(h, k + n) <=> d \in Came(e, n)
    BY <1>0, <1>2, <2>2, <2>3 DEF Came
  <2>5. (k + n) - h.left[d] = n - e.left[d] /\ h.left[d] - (k + n) = e.left[d] - n
    BY <1>0, <2>2
  <2>6. Ahead(h, d, k + n) = Ahead(e, d, n)
    BY <1>0, <1>2, <2>3, <2>4, <2>5 DEF Ahead
  <2>7. d # "sio" => Times(h, d, k + n) = Times(h, d, k) + Times(e, d, n)
    <3>1. Times(h, d, k) = 0
      BY <1>2 DEF Times
    <3>2. Times(h, d, k + n) = Times(e, d, n)
      BY <1>0, <2>4, <2>5 DEF Times
    <3>3. d # "sio" => Times(e, d, n) \in Nat
      BY TimesType DEF Devices
    <3>4. QED
      BY <3>1, <3>2, <3>3
  <2>8. QED
    BY <1>2, <2>4, <2>6, <2>7
<1>3. CASE d \in Came(h, k) /\ d # "sio"
  <2> DEFINE p == Period(h, d)
  <2>1. d \in {"ppu", "timer"} /\ p \in Nat \ {0}
    BY <1>3, TimesType DEF Devices
  <2>2. h.left[d] = k /\ Times(h, d, k) = 1 /\ e.left[d] = p
    BY <1>0, <1>3, <2>1, RoundTimes
  <2>3. d \in Running(h) /\ d \in Running(e) /\ (k + n) - h.left[d] = n
    BY <1>0, <1>3, <2>1, <2>2 DEF Came, Running
  <2>4. d \in Came(h, k + n)
    BY <1>0, <2>2, <2>3 DEF Came
  <2>5. Times(h, d, k + n) = 1 + n \div p /\ Ahead(h, d, k + n) = p - (n % p)
    BY <1>3, <2>3, <2>4 DEF Times, Ahead
  <2>6. CASE p <= n
    <3>1. d \in Came(e, n)
      BY <2>2, <2>3, <2>6 DEF Came
    <3>2. Times(e, d, n) = 1 + (n - p) \div p /\ Ahead(e, d, n) = p - ((n - p) % p)
      BY <1>0, <1>3, <2>2, <2>3, <3>1 DEF Times, Ahead
    <3>3. n \div p = 1 + (n - p) \div p /\ n % p = (n - p) % p
      BY <2>1, <2>6, OnePeriodLess
    <3> HIDE DEF p
    <3>4. QED
      BY <1>3, <2>2, <2>4, <2>5, <3>2, <3>3
  <2>7. CASE n < p
    <3>1. d \notin Came(e, n)
      BY <2>1, <2>2, <2>7 DEF Came
    <3>2. Times(e, d, n) = 0 /\ Ahead(e, d, n) = p - n
      BY <2>2, <2>3, <3>1 DEF Times, Ahead
    <3>3. n \div p = 0 /\ n % p = n
      BY <2>1, <2>7, OnePeriodLess
    <3> HIDE DEF p
    <3>4. QED
      BY <1>3, <2>2, <2>4, <2>5, <3>2, <3>3
  <2>8. QED
    BY <2>1, <2>6, <2>7
<1>4. CASE d \in Came(h, k) /\ d = "sio"
  <2>1. d \in Running(h) /\ d \in Came(h, k + n)
    BY <1>0, <1>4 DEF Came
  <2>2. e.left[d] = 0
    BY <1>0, <1>4, <2>1 DEF Ahead
  <2>3. d \notin Running(e)
    BY <2>2 DEF Running
  <2>4. QED
    BY <1>4, <2>1, <2>3 DEF Ahead
<1>5. QED
  BY <1>1, <1>2, <1>3, <1>4

\* Cycles lived are a round of tick_devices, and the rest of them after it.
LEMMA LiveAfterRound ==
  ASSUME NEW h \in Machines, NEW k \in Nat, NEW n \in Nat, Reaches(h, k)
  PROVE  /\ Elapse(h, k) \in Machines
         /\ Eager!Live(h, k + n) = Eager!Live(Elapse(h, k), n)
<1> DEFINE e == Elapse(h, k)
<1>0. e \in Machines /\ k + n \in Nat
  BY ElapseType DEF Reaches
<1>1. e = Lived(h, [d \in Devices |-> Ahead(h, d, k)], Raised(h, k), DmaRuns(h, k),
                StillArmed(h, k))
  BY RoundIsLived
<1> HIDE DEF e
<1>2. /\ e.left = [d \in Devices |-> Ahead(h, d, k)] /\ e.reload = h.reload
      /\ e.dma = StillArmed(h, k) /\ e.fifo = h.fifo
      /\ e.flags = h.flags \cup Requested(Raised(h, k))
      /\ e.steal = h.steal + DmaCost * DmaRuns(h, k) /\ e.halted = h.halted
  BY <1>1 DEF Lived, Machines
<1>3. \A d \in Devices :
         /\ Ahead(h, d, k + n) = Ahead(e, d, n)
         /\ d \in Came(h, k + n) <=> d \in Came(h, k) \/ d \in Came(e, n)
         /\ d # "sio" => Times(h, d, k + n) = Times(h, d, k) + Times(e, d, n)
  BY <1>0, <1>2, DeviceAfterRound
<1>4. Came(h, k + n) = Came(h, k) \cup Came(e, n)
  BY <1>3 DEF Came, Running
<1>5. "ppu" \in Devices /\ "timer" \in Devices
  BY DEF Devices
<1>6. /\ Times(h, "ppu", k) \in Nat /\ Times(e, "ppu", n) \in Nat
      /\ Times(h, "timer", k) \in Nat /\ Times(e, "timer", n) \in Nat
      /\ "ppu" \notin Came(h, k) => Times(h, "ppu", k) = 0
      /\ "ppu" \notin Came(e, n) => Times(e, "ppu", n) = 0
  BY <1>0, TimesType DEF Times
<1>7. h.dma \in {"off", "once", "repeat"} /\ h.fifo \in BOOLEAN /\ h.steal \in Nat
  BY MachineFields
<1>8. PpuDma(h, k + n) = PpuDma(h, k) + PpuDma(e, n)
  <2>1. "ppu" \in Came(h, k + n) <=> "ppu" \in Came(h, k) \/ "ppu" \in Came(e, n)
    BY <1>4
  <2>2. Times(h, "ppu", k + n) = Times(h, "ppu", k) + Times(e, "ppu", n)
    BY <1>3, <1>5
  <2>3. CASE h.dma = "off"
    BY <1>2, <2>3 DEF PpuDma, StillArmed
  <2>4. CASE h.dma = "once"
    BY <1>2, <2>1, <2>4 DEF PpuDma, StillArmed
  <2>5. CASE h.dma = "repeat"
    <3>1. e.dma = "repeat"
      BY <1>2, <2>5 DEF StillArmed
    <3>2. PpuDma(h, k) = Times(h, "ppu", k) /\ PpuDma(e, n) = Times(e, "ppu", n)
      BY <1>6, <2>5, <3>1 DEF PpuDma
    <3>3. PpuDma(h, k + n) = Times(h, "ppu", k + n)
      BY <2>5 DEF PpuDma, Times
    <3>4. QED
      BY <2>2, <3>2, <3>3
  <2>6. QED
    BY <1>7, <2>3, <2>4, <2>5
<1>9. TimerDma(h, k + n) = TimerDma(h, k) + TimerDma(e, n)
  BY <1>2, <1>3, <1>5, <1>6 DEF TimerDma
<1>10. /\ PpuDma(h, k) \in Nat /\ TimerDma(h, k) \in Nat /\ DmaRuns(h, k) \in Nat
       /\ PpuDma(e, n) \in Nat /\ TimerDma(e, n) \in Nat /\ DmaRuns(e, n) \in Nat
  BY <1>0, DmaRunsType
<1>11. DmaRuns(h, k + n) = DmaRuns(h, k) + DmaRuns(e, n)
  BY <1>8, <1>9, <1>10 DEF DmaRuns
<1>12. Raised(h, k + n) = Raised(h, k) \cup Raised(e, n)
  <2>1. DmaRuns(h, k + n) > 0 <=> DmaRuns(h, k) > 0 \/ DmaRuns(e, n) > 0
    BY <1>10, <1>11
  <2>2. QED
    BY <1>4, <2>1 DEF Raised
<1>13. StillArmed(h, k + n) = StillArmed(e, n)
  BY <1>2, <1>4 DEF StillArmed
<1>14. [d \in Devices |-> Ahead(h, d, k + n)] = [d \in Devices |-> Ahead(e, d, n)]
  BY <1>3
<1>15. h.flags \cup Requested(Raised(h, k + n)) = e.flags \cup Requested(Raised(e, n))
  BY <1>2, <1>12 DEF Requested
<1>16. h.steal + DmaCost * DmaRuns(h, k + n) = e.steal + DmaCost * DmaRuns(e, n)
  <2> DEFINE a == DmaRuns(h, k)
             b == DmaRuns(e, n)
  <2>1. a \in Nat /\ b \in Nat /\ DmaCost \in Nat /\ h.steal \in Nat
    BY <1>7, <1>10, Cycles
  <2> HIDE DEF a, b
  <2>2. DmaCost * (a + b) = DmaCost * a + DmaCost * b
    BY <2>1
  <2>3. DmaCost * a \in Nat /\ DmaCost * b \in Nat
    BY <2>1
  <2>4. h.steal + DmaCost * (a + b) = (h.steal + DmaCost * a) + DmaCost * b
    BY <2>1, <2>2, <2>3
  <2>5. QED
    BY <1>2, <1>11, <2>4 DEF a, b
<1>17. Lived(h, [d \in Devices |-> Ahead(h, d, k + n)], Raised(h, k + n), DmaRuns(h, k + n),
             StillArmed(h, k + n))
       = Lived(e, [d \in Devices |-> Ahead(e, d, n)], Raised(e, n), DmaRuns(e, n),
               StillArmed(e, n))
  BY <1>0, <1>2, <1>13, <1>14, <1>15, <1>16 DEF Lived, Machines
<1>18. QED
  BY <1>0, <1>17, LiveIs DEF e

-----------------------------------------------------------------------------
\* The clock's operations, in cycles lived.

\* Before the next event, and at it, no event has been passed over.
LEMMA HorizonReaches ==
  ASSUME NEW h \in Machines, NEW k \in Nat, k <= Horizon(h) PROVE Reaches(h, k)
<1>1. Horizon(h) \in Nat /\ \A d \in Running(h) : Horizon(h) <= h.left[d]
  BY NextEventIsNext DEF Horizon, Running
<1>2. \A d \in Running(h) : h.left[d] \in Nat
  BY MachineFields DEF Running
<1>3. QED
  BY <1>1, <1>2 DEF Reaches

\* tick_devices lives its cycles: what it goes through in rounds, from event to
\* event, comes to what all of them do in one go.
THEOREM TickDevicesLives ==
  ASSUME NEW c \in Clocks, NEW n \in Nat
  PROVE  TickDevices(c, n).hw = Eager!Live(c.hw, n)
<1>1. PICK f : /\ f = [i \in 0..n |-> IF i = 0 THEN [hw |-> c.hw, remaining |-> n]
                                      ELSE Round(f[i - 1])]
               /\ TickDevices(c, n) = Disturb([c EXCEPT !.hw = f[n].hw])
  BY TickRounds
<1> DEFINE Good(i) == /\ f[i] \in Rounds
                      /\ f[i].remaining <= n - i
                      /\ Eager!Live(f[i].hw, f[i].remaining) = Eager!Live(c.hw, n)
           Bad == {i \in Nat : i <= n /\ ~Good(i)}
<1>2. Good(0)
  <2>1. f[0] = [hw |-> c.hw, remaining |-> n]
    BY <1>1
  <2>2. QED
    BY <2>1 DEF Rounds, Clocks
<1>3. ASSUME NEW i \in Nat, i # 0, i <= n, Good(i - 1) PROVE Good(i)
  <2> DEFINE s == f[i - 1]
             k == Chunk(s.hw, s.remaining)
  <2>1. f[i] = Round(s)
    BY <1>1, <1>3
  <2>2. /\ s \in Rounds /\ s.hw \in Machines /\ s.remaining \in Nat
        /\ s.remaining <= n - i + 1
        /\ Eager!Live(s.hw, s.remaining) = Eager!Live(c.hw, n)
    BY <1>3 DEF Rounds
  <2>3. f[i] \in Rounds
    BY <2>1, <2>2, RoundType
  <2> HIDE DEF s
  <2>4. CASE s.remaining = 0
    <3>1. f[i] = s
      BY <2>1, <2>4 DEF Round
    <3>2. QED
      BY <1>3, <2>2, <2>3, <2>4, <3>1
  <2>5. CASE s.remaining # 0
    <3>1. k \in Nat /\ k <= s.remaining /\ k <= Horizon(s.hw) /\ k # 0
      <4>1. /\ k \in Nat /\ k <= s.remaining /\ k <= Horizon(s.hw)
            /\ s.remaining < Horizon(s.hw) => k = s.remaining
        BY <2>2, ChunkBounds
      <4>2. k \in {s.remaining, Horizon(s.hw)} /\ Horizon(s.hw) \in Nat \ {0}
        <5>1. Horizon(s.hw) \in Nat \ {0}
          BY <2>2, NextEventIsNext DEF Horizon
        <5>2. {s.remaining, Horizon(s.hw)} \in SUBSET Nat
          BY <2>2, <5>1
        <5>3. QED
          BY <5>1, <5>2, MinIsLeast DEF Chunk
      <4>3. QED
        BY <2>5, <4>1, <4>2
    <3>2. f[i] = [hw |-> Elapse(s.hw, k), remaining |-> s.remaining - k]
      BY <2>1, <2>5 DEF Round
    <3> HIDE DEF k
    <3>3. Reaches(s.hw, k)
      BY <2>2, <3>1, HorizonReaches
    <3>4. s.remaining - k \in Nat /\ k + (s.remaining - k) = s.remaining
      BY <2>2, <3>1
    <3>5. Eager!Live(s.hw, s.remaining) = Eager!Live(Elapse(s.hw, k), s.remaining - k)
      BY <2>2, <3>1, <3>3, <3>4, LiveAfterRound
    <3>6. s.remaining - k <= n - i
      BY <1>3, <2>2, <3>1
    <3>7. QED
      BY <2>2, <2>3, <3>2, <3>5, <3>6
  <2>6. QED
    BY <2>4, <2>5
<1> HIDE DEF Good
<1>4. Bad = {}
  <2>1. SUFFICES ASSUME Bad # {} PROVE FALSE
    OBVIOUS
  <2>2. PICK i \in Bad : \A m \in Bad : i <= m
    BY <2>1, LeastNat
  <2>3. i \in Nat /\ i <= n /\ ~Good(i) /\ i # 0
    BY <1>2, <2>2
  <2>4. i - 1 \in Nat /\ i - 1 <= n /\ i - 1 \notin Bad
    <3> HIDE DEF Bad
    <3> QED
      BY <2>2, <2>3
  <2>5. Good(i - 1)
    BY <2>4
  <2>6. QED
    BY <1>3, <2>3, <2>5
<1>5. Good(n)
  BY <1>4
<1>6. f[n].hw \in Machines /\ f[n].remaining = 0 /\ Eager!Live(f[n].hw, 0) = Eager!Live(c.hw, n)
  <2>1. f[n] \in Rounds /\ f[n].remaining <= n - n
    BY <1>5 DEF Good
  <2>2. f[n].hw \in Machines /\ f[n].remaining = 0
    BY <2>1 DEF Rounds
  <2>3. QED
    BY <1>5, <2>2 DEF Good
<1>7. TickDevices(c, n).hw = f[n].hw
  BY <1>1 DEF Disturb, Clocks
<1>8. QED
  BY <1>6, <1>7, LiveNone

\* Pending cycles that do not reach the next event.
Short(c) == c.pending < Horizon(c.hw)

LEMMA ExactIsShort ==
  ASSUME NEW c \in Clocks, Exact(c) PROVE Short(c)
<1>1. Horizon(c.hw) \in Nat \ {0} /\ c.pending \in Nat
  BY NextEventIsNext DEF Horizon, Clocks
<1>2. QED
  BY <1>1 DEF Exact, Short

\* They only shorten the distances to the events: the devices as the guest sees
\* them are the devices with the pending cycles lived.
LEMMA NowIsLive ==
  ASSUME NEW c \in Clocks, Short(c)
  PROVE  /\ Now(c) \in Machines
         /\ Now(c) = Eager!Live(c.hw, c.pending) /\ Now(c) = Elapse(c.hw, c.pending)
         /\ \A n \in Nat : Eager!Live(Now(c), n) = Eager!Live(c.hw, c.pending + n)
         /\ Horizon(Now(c)) = Horizon(c.hw) - c.pending
<1> DEFINE h == c.hw
           k == c.pending
<1>1. h \in Machines /\ k \in Nat /\ Horizon(h) \in Nat /\ k < Horizon(h)
  BY NextEventIsNext DEF Clocks, Horizon, Short
<1>2. Reaches(h, k)
  BY <1>1, HorizonReaches
<1>3. Came(h, k) = {}
  <2>1. \A d \in Running(h) : Horizon(h) <= h.left[d] /\ h.left[d] \in Nat
    BY <1>1, MachineFields, NextEventIsNext DEF Horizon, Running
  <2>2. QED
    BY <1>1, <2>1 DEF Came
<1>4. Elapse(h, k) = Now(c)
  <2>1. DmaRuns(h, k) = 0 /\ Requested(Raised(h, k)) = {} /\ StillArmed(h, k) = h.dma
    BY <1>3 DEF DmaRuns, PpuDma, TimerDma, Times, Raised, Requested, StillArmed
  <2>2. [d \in Devices |-> Ahead(h, d, k)]
        = [d \in Devices |-> IF h.left[d] = 0 THEN 0 ELSE h.left[d] - k]
    BY <1>3 DEF Ahead, Running
  <2>3. h.steal + DmaCost * 0 = h.steal /\ h.flags \cup {} = h.flags
    BY <1>1, MachineFields, Cycles
  <2> DEFINE left == [d \in Devices |-> IF h.left[d] = 0 THEN 0 ELSE h.left[d] - k]
  <2>4. Now(c) = [h EXCEPT !.left = left]
    BY DEF Now
  <2>5. Elapse(h, k) = Lived(h, left, Raised(h, k), 0, h.dma)
    BY <1>1, <1>2, <2>1, <2>2, RoundIsLived
  <2> HIDE DEF left
  <2>6. Lived(h, left, Raised(h, k), 0, h.dma) = [h EXCEPT !.left = left]
    BY <1>1, <2>1, <2>3 DEF Lived, Machines
  <2>7. QED
    BY <2>4, <2>5, <2>6
<1>5. Elapse(h, k) \in Machines /\ \A n \in Nat : Eager!Live(h, k + n) = Eager!Live(Elapse(h, k), n)
  BY <1>1, <1>2, LiveAfterRound
<1>6. Eager!Live(h, k) = Elapse(h, k)
  <2>1. Eager!Live(h, k + 0) = Eager!Live(Elapse(h, k), 0) /\ k + 0 = k
    BY <1>1, <1>5
  <2>2. QED
    BY <1>5, <2>1, LiveNone
<1>7. Horizon(Elapse(h, k)) = Horizon(h) - k
  BY <1>1, ElapseShort
<1>8. QED
  BY <1>4, <1>5, <1>6, <1>7

LEMMA NothingPending ==
  ASSUME NEW c \in Clocks, c.pending = 0 PROVE Short(c) /\ Now(c) = c.hw
<1>1. Short(c)
  BY NextEventIsNext DEF Short, Horizon, Clocks
<1>2. c.hw \in Machines
  BY DEF Clocks
<1>3. QED
  BY <1>1, <1>2, NowIsLive, LiveNone

\* What the guest sees depends on the devices and the pending cycles alone.
LEMMA NowOf ==
  ASSUME NEW c, NEW e, c.hw = e.hw, c.pending = e.pending
  PROVE  Now(c) = Now(e) /\ (Short(c) <=> Short(e))
  BY DEF Now, Short

LEMMA RearmNow ==
  ASSUME NEW c \in Clocks
  PROVE  Now(Rearm(c)) = Now(c) /\ (Short(Rearm(c)) <=> Short(c))
<1>1. Rearm(c).hw = c.hw /\ Rearm(c).pending = c.pending
  BY DEF Rearm, Clocks
<1>2. QED
  BY <1>1, NowOf

LEMMA FlushLives ==
  ASSUME NEW c \in Clocks PROVE Flush(c).hw = Eager!Live(c.hw, c.pending)
<1> DEFINE t == TickDevices(c, c.pending)
<1>1. t \in Clocks /\ t.hw = Eager!Live(c.hw, c.pending)
  BY TickDevicesType, TickDevicesLives DEF Clocks
<1> HIDE DEF t
<1>2. Flush(c).hw = t.hw
  <2>1. Flush(c) = [t EXCEPT !.pending = 0]
    BY DEF Flush, t
  <2>2. QED
    BY <1>1, <2>1 DEF Clocks
<1>3. QED
  BY <1>1, <1>2

\* Catching up changes nothing that the guest can see.
LEMMA CatchUpNow ==
  ASSUME NEW c \in Clocks, Short(c)
  PROVE  CatchUp(c).hw = Now(c) /\ Now(CatchUp(c)) = Now(c)
<1>1. CatchUp(c) \in Clocks /\ CatchUp(c).pending = 0
  BY CatchUpType
<1>2. CatchUp(c).hw = Now(c)
  <2>1. CASE c.pending = 0
    BY <2>1, NothingPending DEF CatchUp
  <2>2. CASE c.pending # 0
    BY <2>2, FlushLives, NowIsLive DEF CatchUp
  <2>3. QED
    BY <2>1, <2>2
<1>3. QED
  BY <1>1, <1>2, NothingPending

\* Cycles charged to a clock that is caught up are lived, on top of the pending
\* ones.
LEMMA ChargeNow ==
  ASSUME NEW c \in Clocks, Short(c), NEW n \in Nat
  PROVE  LET e == Rearm(TickDevices(CatchUp(c), n))
         IN  e \in Clocks /\ Armed(e) /\ Now(e) = Eager!Live(Now(c), n)
<1> DEFINE t == TickDevices(CatchUp(c), n)
<1>1. CatchUp(c) \in Clocks /\ CatchUp(c).pending = 0 /\ CatchUp(c).hw = Now(c)
  BY CatchUpType, CatchUpNow
<1>2. t \in Clocks /\ t.pending = 0 /\ t.hw = Eager!Live(Now(c), n)
  BY <1>1, TickDevicesType, TickDevicesLives
<1> HIDE DEF t
<1>3. Armed(Rearm(t)) /\ Rearm(t) \in Clocks
  BY <1>2, RearmArms DEF Armed
<1>4. Now(Rearm(t)) = t.hw
  BY <1>2, RearmNow, NothingPending
<1>5. QED
  BY <1>2, <1>3, <1>4 DEF t

\* The machine with one field of no device's set, on both sides.
LEMMA NowExcept ==
  ASSUME NEW c \in Clocks, Short(c)
  PROVE  /\ LET e == [c EXCEPT !.hw.steal = 0]
            IN  e \in Clocks /\ Short(e) /\ Now(e) = [Now(c) EXCEPT !.steal = 0]
         /\ LET e == [c EXCEPT !.hw.halted = FALSE]
            IN  e \in Clocks /\ Short(e) /\ Now(e) = [Now(c) EXCEPT !.halted = FALSE]
<1> DEFINE h == c.hw
           left == [d \in Devices |-> IF h.left[d] = 0 THEN 0 ELSE h.left[d] - c.pending]
<1>0. h \in Machines /\ Now(c) = [h EXCEPT !.left = left]
  BY DEF Now, Clocks
<1>1. ASSUME NEW g \in Machines, NEW e, e = [c EXCEPT !.hw = g], g.left = h.left
      PROVE  e \in Clocks /\ Short(e) /\ Now(e) = [g EXCEPT !.left = left]
  <2>1. e \in Clocks /\ e.hw = g /\ e.pending = c.pending
    BY <1>1 DEF Clocks
  <2>2. Running(g) = Running(h)
    BY <1>1 DEF Running
  <2>3. Horizon(g) = Horizon(h)
    BY <1>1, <2>2 DEF Horizon, NextEvent
  <2>4. QED
    BY <1>1, <2>1, <2>3 DEF Now, Short
<1> HIDE DEF left
<1>2. /\ [h EXCEPT !.steal = 0] \in Machines /\ [h EXCEPT !.steal = 0].left = h.left
      /\ [[h EXCEPT !.steal = 0] EXCEPT !.left = left] = [Now(c) EXCEPT !.steal = 0]
  BY <1>0 DEF Machines
<1>3. /\ [h EXCEPT !.halted = FALSE] \in Machines /\ [h EXCEPT !.halted = FALSE].left = h.left
      /\ [[h EXCEPT !.halted = FALSE] EXCEPT !.left = left] = [Now(c) EXCEPT !.halted = FALSE]
  BY <1>0 DEF Machines
<1>4. /\ [c EXCEPT !.hw.steal = 0] = [c EXCEPT !.hw = [h EXCEPT !.steal = 0]]
      /\ [c EXCEPT !.hw.halted = FALSE] = [c EXCEPT !.hw = [h EXCEPT !.halted = FALSE]]
  BY DEF Clocks
<1>5. QED
  BY <1>1, <1>2, <1>3, <1>4

\* What is no distance is as it was.
LEMMA NowFields ==
  ASSUME NEW c \in Clocks, Short(c)
  PROVE  /\ Now(c).steal = c.hw.steal /\ Now(c).flags = c.hw.flags
         /\ Now(c).halted = c.hw.halted
<1> DEFINE left == [d \in Devices |-> IF c.hw.left[d] = 0 THEN 0 ELSE c.hw.left[d] - c.pending]
<1>1. Now(c) = [c.hw EXCEPT !.left = left] /\ c.hw \in Machines
  BY DEF Now, Clocks
<1> HIDE DEF left
<1>2. QED
  BY <1>1 DEF Machines

\* Charging the stolen cycles is what paying them means.
LEMMA DrainNow ==
  ASSUME NEW c \in Clocks, Short(c)
  PROVE  Now(Drain(c)) = Eager!PaySteal(Now(c))
<1>1. Now(c) \in Machines /\ Now(c).steal = c.hw.steal /\ c.hw.steal \in Nat
  BY NowIsLive, NowFields, MachineFields DEF Clocks
<1>2. Eager!PaySteal(Now(c)) = Eager!Live([Now(c) EXCEPT !.steal = 0], c.hw.steal)
  BY <1>1 DEF Eager!PaySteal
<1>3. CASE c.hw.steal = 0
  <2>1. [Now(c) EXCEPT !.steal = 0] = Now(c)
    BY <1>1, <1>3 DEF Machines
  <2>2. Eager!PaySteal(Now(c)) = Now(c)
    BY <1>1, <1>2, <1>3, <2>1, LiveNone
  <2>3. QED
    BY <1>3, <2>2 DEF Drain
<1>4. CASE c.hw.steal # 0
  <2> DEFINE paid == [c EXCEPT !.hw.steal = 0]
  <2>1. paid \in Clocks /\ Short(paid) /\ Now(paid) = [Now(c) EXCEPT !.steal = 0]
    BY NowExcept
  <2>2. Drain(c) = Rearm(TickDevices(CatchUp(paid), c.hw.steal))
    BY <1>4 DEF Drain
  <2> HIDE DEF paid
  <2>3. QED
    BY <1>1, <1>2, <2>1, <2>2, ChargeNow
<1>5. QED
  BY <1>3, <1>4

\* The end of an instruction: its cycles are lived, whether they stay pending or
\* reach an event, and the cycles stolen are paid.
LEMMA TickedNow ==
  ASSUME NEW c \in Clocks, Exact(c), NEW n \in Nat \ {0}
  PROVE  Now(Ticked(c, n)) = Eager!PaySteal(Eager!Live(Now(c), n))
<1> DEFINE later == [c EXCEPT !.pending = @ + n, !.budget = @ - n]
           armed == Rearm(Flush(later))
<1>1. /\ later \in Clocks /\ later.hw = c.hw
      /\ later.pending = c.pending + n /\ later.budget = c.budget - n
  <2>1. c.pending + n \in Nat /\ c.budget - n \in Int
    BY DEF Clocks
  <2>2. QED
    BY <2>1 DEF Clocks
<1>2. Short(c) /\ Eager!Live(Now(c), n) = Eager!Live(c.hw, c.pending + n)
  BY ExactIsShort, NowIsLive
<1>3. armed \in Clocks /\ Short(armed) /\ Now(armed) = Eager!Live(Now(c), n)
  <2>1. Flush(later) \in Clocks /\ Flush(later).pending = 0
    BY <1>1, FlushType
  <2>2. Flush(later).hw = Eager!Live(Now(c), n)
    BY <1>1, <1>2, FlushLives
  <2>3. armed \in Clocks
    BY <2>1, RearmArms DEF Armed
  <2>4. QED
    BY <2>1, <2>2, <2>3, RearmNow, NothingPending
<1>4. later.budget > 0 => Short(later) /\ Now(later) = Eager!Live(Now(c), n)
  <2>1. c.pending \in Nat /\ c.budget \in Int /\ Horizon(c.hw) \in Nat
    BY NextEventIsNext DEF Clocks, Horizon
  <2>2. ASSUME later.budget > 0 PROVE Short(later)
    BY <1>1, <2>1, <2>2 DEF Exact, Short
  <2>3. QED
    BY <1>1, <1>2, <2>2, NowIsLive
<1>5. Ticked(c, n) = Drain(IF later.budget <= 0 THEN armed ELSE later)
  BY DEF Ticked
<1> HIDE DEF later, armed
<1>6. CASE later.budget <= 0
  BY <1>3, <1>5, <1>6, DrainNow
<1>7. CASE ~(later.budget <= 0)
  <2>1. later.budget > 0
    BY <1>1, <1>7 DEF Clocks
  <2>2. QED
    BY <1>1, <1>4, <1>5, <1>7, <2>1, DrainNow
<1>8. QED
  BY <1>6, <1>7

LEMMA WakeNow ==
  ASSUME NEW c \in Clocks, Exact(c)
  PROVE  Now(Wake(c)) = IF c.hw.halted
                        THEN Eager!Live([Now(c) EXCEPT !.halted = FALSE], WakeDelay) ELSE Now(c)
<1>1. CASE ~c.hw.halted
  BY <1>1 DEF Wake
<1>2. CASE c.hw.halted
  <2> DEFINE woken == [c EXCEPT !.hw.halted = FALSE]
  <2>1. woken \in Clocks /\ Short(woken) /\ Now(woken) = [Now(c) EXCEPT !.halted = FALSE]
    BY ExactIsShort, NowExcept
  <2>2. Wake(c) = Rearm(TickDevices(CatchUp(woken), WakeDelay))
    BY <1>2 DEF Wake
  <2> HIDE DEF woken
  <2>3. WakeDelay \in Nat
    BY Cycles
  <2>4. QED
    BY <1>2, <2>1, <2>2, <2>3, ChargeNow
<1>3. QED
  BY <1>1, <1>2

-----------------------------------------------------------------------------
\* What else holds at every moment.

\* A picture event is never further away than the last one was.
PictureIn(c) == c.hw.left["ppu"] \in 1 .. PpuPeriod

LEMMA LivePicture ==
  ASSUME NEW h \in Machines, NEW m \in Nat, h.left["ppu"] \in 1 .. PpuPeriod
  PROVE  Eager!Live(h, m).left["ppu"] \in 1 .. PpuPeriod
<1> DEFINE left == [d \in Devices |-> Ahead(h, d, m)]
<1>1. "ppu" \in Running(h) /\ Ahead(h, "ppu", m) \in Nat /\ Ahead(h, "ppu", m) > 0
  BY AheadType, Cycles DEF Running, Devices
<1>2. Ahead(h, "ppu", m) <= PpuPeriod
  <2>1. CASE "ppu" \in Came(h, m)
    <3> DEFINE past == m - h.left["ppu"]
    <3>1. past \in Nat /\ PpuPeriod \in Nat \ {0}
      BY <2>1, Cycles, MachineFields DEF Came, Devices
    <3>2. Ahead(h, "ppu", m) = PpuPeriod - (past % PpuPeriod)
      BY <1>1, <2>1 DEF Ahead, Period
    <3> HIDE DEF past
    <3>3. past % PpuPeriod \in 0 .. PpuPeriod - 1
      BY <3>1
    <3>4. QED
      BY <3>1, <3>2, <3>3
  <2>2. CASE "ppu" \notin Came(h, m)
    <3>1. Ahead(h, "ppu", m) = h.left["ppu"] - m
      BY <1>1, <2>2 DEF Ahead
    <3>2. QED
      BY <3>1, Cycles
  <2>3. QED
    BY <2>1, <2>2
<1>3. left["ppu"] = Ahead(h, "ppu", m)
  BY DEF Devices
<1>4. Eager!Live(h, m) = Lived(h, left, Raised(h, m), DmaRuns(h, m), StillArmed(h, m))
  BY LiveIs
<1> HIDE DEF left
<1>5. Eager!Live(h, m).left = left
  BY <1>4 DEF Lived, Machines
<1>6. QED
  BY <1>1, <1>2, <1>3, <1>5, Cycles

LEMMA ClockPicture ==
  ASSUME NEW c \in Clocks, PictureIn(c)
  PROVE  /\ PictureIn(CatchUp(c)) /\ PictureIn(Drain(c)) /\ PictureIn(Wake(c))
         /\ PictureIn(Flush(c)) /\ PictureIn(Rearm(c)) /\ PictureIn(Disturb(c))
<1>1. ASSUME NEW e \in Clocks, PictureIn(e), NEW n \in Nat
      PROVE  TickDevices(e, n) \in Clocks /\ PictureIn(TickDevices(e, n))
  BY <1>1, TickDevicesType, TickDevicesLives, LivePicture DEF PictureIn, Clocks
<1>2. ASSUME NEW e \in Clocks, PictureIn(e) PROVE PictureIn(Rearm(e)) /\ PictureIn(Disturb(e))
  <2>1. Rearm(e).hw = e.hw /\ Disturb(e).hw = e.hw
    BY DisturbType DEF Rearm, Clocks
  <2>2. QED
    BY <1>2, <2>1 DEF PictureIn
<1>3. ASSUME NEW e \in Clocks, PictureIn(e)
      PROVE  PictureIn(Flush(e)) /\ CatchUp(e) \in Clocks /\ PictureIn(CatchUp(e))
  <2>1. Flush(e).hw = Eager!Live(e.hw, e.pending) /\ e.hw \in Machines /\ e.pending \in Nat
    BY FlushLives DEF Clocks
  <2>2. PictureIn(Flush(e))
    BY <1>3, <2>1, LivePicture DEF PictureIn
  <2>3. QED
    BY <1>3, <2>2, CatchUpType DEF CatchUp
<1>4. PictureIn(Drain(c))
  <2>1. CASE c.hw.steal = 0
    BY <2>1 DEF Drain
  <2>2. CASE c.hw.steal # 0
    <3> DEFINE paid == [c EXCEPT !.hw.steal = 0]
    <3>1. [c.hw EXCEPT !.steal = 0] \in Machines /\ c.hw.steal \in Nat
      BY DEF Clocks, Machines
    <3>2. paid \in Clocks /\ paid.hw.left = c.hw.left
      BY <3>1 DEF Clocks, Machines
    <3>3. PictureIn(paid)
      BY <3>2 DEF PictureIn
    <3>4. Drain(c) = Rearm(TickDevices(CatchUp(paid), c.hw.steal))
      BY <2>2 DEF Drain
    <3> HIDE DEF paid
    <3>5. QED
      BY <1>1, <1>2, <1>3, <3>1, <3>2, <3>3, <3>4
  <2>3. QED
    BY <2>1, <2>2
<1>5. PictureIn(Wake(c))
  <2>1. CASE ~c.hw.halted
    BY <2>1 DEF Wake
  <2>2. CASE c.hw.halted
    <3> DEFINE woken == [c EXCEPT !.hw.halted = FALSE]
    <3>1. [c.hw EXCEPT !.halted = FALSE] \in Machines /\ WakeDelay \in Nat
      BY Cycles DEF Clocks, Machines
    <3>2. woken \in Clocks /\ woken.hw.left = c.hw.left
      BY <3>1 DEF Clocks, Machines
    <3>3. PictureIn(woken)
      BY <3>2 DEF PictureIn
    <3>4. Wake(c) = Rearm(TickDevices(CatchUp(woken), WakeDelay))
      BY <2>2 DEF Wake
    <3> HIDE DEF woken
    <3>5. QED
      BY <1>1, <1>2, <1>3, <3>1, <3>2, <3>3, <3>4
  <2>3. QED
    BY <2>1, <2>2
<1>6. QED
  BY <1>2, <1>3, <1>4, <1>5

LEMMA TickedPicture ==
  ASSUME NEW c \in Clocks, PictureIn(c), NEW n \in Nat \ {0}
  PROVE  PictureIn(Ticked(c, n))
<1> DEFINE later == [c EXCEPT !.pending = @ + n, !.budget = @ - n]
<1>1. later \in Clocks /\ later.hw = c.hw
  <2>1. c.pending + n \in Nat /\ c.budget - n \in Int
    BY DEF Clocks
  <2>2. QED
    BY <2>1 DEF Clocks
<1>2. PictureIn(later)
  BY <1>1 DEF PictureIn
<1>3. Flush(later) \in Clocks /\ PictureIn(Flush(later)) /\ Flush(later).pending = 0
  BY <1>1, <1>2, FlushType, ClockPicture
<1>4. Rearm(Flush(later)) \in Clocks /\ PictureIn(Rearm(Flush(later)))
  BY <1>3, RearmArms, ClockPicture DEF Armed
<1>5. Ticked(c, n) = Drain(IF later.budget <= 0 THEN Rearm(Flush(later)) ELSE later)
  BY DEF Ticked
<1> HIDE DEF later
<1>6. QED
  BY <1>1, <1>2, <1>4, <1>5, ClockPicture

\* Between instructions, an interrupt that is requested is masked.
Answered == ~mid => (IrqPending(clk.hw) => masked)

\* The loop's cycles since its back-edge count only while no DMA is owed.
NothingOwed == clk.epoch = 2 \/ site.since = 0 \/ clk.hw.steal = 0

FlagsOK == masked \in BOOLEAN /\ mid \in BOOLEAN /\ took \in BOOLEAN

LazyInv == ClockInv /\ FlagsOK /\ PictureIn(clk) /\ Answered /\ NothingOwed

LEMMA TickDevicesDisturbs ==
  ASSUME NEW c \in Clocks, NEW n \in Nat
  PROVE  /\ TickDevices(c, n).epoch = 2 /\ Rearm(TickDevices(c, n)).epoch = 2
         /\ Flush(c).epoch = 2
<1>1. ASSUME NEW e \in Clocks, NEW m \in Nat
      PROVE  TickDevices(e, m) \in Clocks /\ TickDevices(e, m).epoch = 2
  <2>1. \E g : TickDevices(e, m) = Disturb([e EXCEPT !.hw = g])
    BY DEF TickDevices
  <2>2. QED
    BY <2>1, TickDevicesType DEF Disturb, Clocks
<1>2. Rearm(TickDevices(c, n)).epoch = 2
  <2>1. TickDevices(c, n) \in Clocks /\ TickDevices(c, n).epoch = 2
    BY <1>1
  <2>2. QED
    BY <2>1 DEF Rearm, Clocks
<1>3. Flush(c).epoch = 2
  <2>1. TickDevices(c, c.pending) \in Clocks /\ TickDevices(c, c.pending).epoch = 2
    BY <1>1 DEF Clocks
  <2>2. QED
    BY <2>1 DEF Flush, Clocks
<1>4. QED
  BY <1>1, <1>2, <1>3

LEMMA DrainPays ==
  ASSUME NEW c \in Clocks PROVE Drain(c).epoch = 2 \/ Drain(c).hw.steal = 0
<1>1. CASE c.hw.steal = 0
  BY <1>1 DEF Drain
<1>2. CASE c.hw.steal # 0
  <2> DEFINE paid == [c EXCEPT !.hw.steal = 0]
  <2>1. [c.hw EXCEPT !.steal = 0] \in Machines /\ c.hw.steal \in Nat
    BY DEF Clocks, Machines
  <2>2. paid \in Clocks
    BY <2>1 DEF Clocks, Machines
  <2>3. Drain(c) = Rearm(TickDevices(CatchUp(paid), c.hw.steal))
    BY <1>2 DEF Drain
  <2> HIDE DEF paid
  <2>4. CatchUp(paid) \in Clocks
    BY <2>2, CatchUpType
  <2>5. QED
    BY <2>1, <2>3, <2>4, TickDevicesDisturbs
<1>3. QED
  BY <1>1, <1>2

LEMMA WakePays ==
  ASSUME NEW c \in Clocks, c.epoch = 2 \/ c.hw.steal = 0
  PROVE  Wake(c).epoch = 2 \/ Wake(c).hw.steal = 0
<1>1. CASE ~c.hw.halted
  BY <1>1 DEF Wake
<1>2. CASE c.hw.halted
  <2> DEFINE woken == [c EXCEPT !.hw.halted = FALSE]
  <2>1. [c.hw EXCEPT !.halted = FALSE] \in Machines /\ WakeDelay \in Nat
    BY Cycles DEF Clocks, Machines
  <2>2. woken \in Clocks
    BY <2>1 DEF Clocks, Machines
  <2>3. Wake(c) = Rearm(TickDevices(CatchUp(woken), WakeDelay))
    BY <1>2 DEF Wake
  <2> HIDE DEF woken
  <2>4. CatchUp(woken) \in Clocks
    BY <2>2, CatchUpType
  <2>5. QED
    BY <2>1, <2>3, <2>4, TickDevicesDisturbs
<1>3. QED
  BY <1>1, <1>2

LEMMA TickKeeps ==
  ASSUME LazyInv, NEW n \in Nat \ {0}, NEW mask \in BOOLEAN, NEW stores \in BOOLEAN,
         Tick(n, mask, stores)
  PROVE  LazyInv'
<1> DEFINE c0    == IF stores THEN Disturb(clk) ELSE clk
           c     == Ticked(c0, n)
           takes == IrqPending(c.hw) /\ ~mask
<1>1. /\ clk' = IF takes THEN Wake(c) ELSE c
      /\ masked' = (mask \/ takes) /\ took' = takes /\ mid' = FALSE
      /\ site' = Kept(clk', [site EXCEPT !.since = @ + n])
  BY DEF Tick
<1>2. takes \in BOOLEAN
  OBVIOUS
<1>3. c0 \in Clocks /\ Exact(c0) /\ PictureIn(c0)
  BY DisturbType DEF LazyInv, ClockInv, Exact, PictureIn
<1> HIDE DEF c0
<1>4. c \in Clocks /\ Exact(c) /\ PictureIn(c)
  BY <1>3, TickedExact, TickedPicture
<1>5. c.epoch = 2 \/ c.hw.steal = 0
  <2> DEFINE later == [c0 EXCEPT !.pending = @ + n, !.budget = @ - n]
  <2>1. later \in Clocks
    <3>1. c0.pending + n \in Nat /\ c0.budget - n \in Int
      BY <1>3 DEF Clocks
    <3>2. QED
      BY <1>3, <3>1 DEF Clocks
  <2>2. Rearm(Flush(later)) \in Clocks
    BY <2>1, FlushType, RearmArms DEF Armed
  <2>3. c = Drain(IF later.budget <= 0 THEN Rearm(Flush(later)) ELSE later)
    BY DEF Ticked
  <2> HIDE DEF later, c
  <2>4. QED
    BY <2>1, <2>2, <2>3, DrainPays
<1> HIDE DEF c
<1>6. ClockInv'
  BY TickStep DEF LazyInv
<1>7. FlagsOK'
  BY <1>1, <1>2, Zenon DEF FlagsOK
<1>8. PictureIn(clk)'
  <2>1. PictureIn(clk')
    BY <1>1, <1>4, ClockPicture
  <2>2. QED
    BY <2>1 DEF PictureIn
<1>9. Answered'
  <2>1. CASE takes
    BY <1>1, <2>1 DEF Answered
  <2>2. CASE ~takes
    <3>1. clk' = c /\ (IrqPending(c.hw) => mask)
      BY <1>1, <2>2
    <3>2. IrqPending(clk'.hw) => masked'
      BY <1>1, <3>1
    <3>3. QED
      BY <3>2 DEF Answered, IrqPending
  <2>3. QED
    BY <2>1, <2>2
<1>10. NothingOwed'
  <2>1. clk'.epoch = 2 \/ clk'.hw.steal = 0
    BY <1>1, <1>4, <1>5, WakePays
  <2>2. QED
    BY <2>1 DEF NothingOwed
<1>11. QED
  BY <1>6, <1>7, <1>8, <1>9, <1>10 DEF LazyInv

LEMMA ReadKeeps ==
  ASSUME LazyInv, NEW vcount \in BOOLEAN, Read(vcount) PROVE LazyInv'
<1> DEFINE c == CatchUp(clk)
           next == IF vcount /\ c.epoch = 0 THEN [c EXCEPT !.epoch = 1] ELSE Disturb(c)
<1>1. clk' = next /\ site' = Kept(next, site) /\ mid' = TRUE /\ took' = FALSE /\ masked' = masked
  BY DEF Read
<1>2. clk \in Clocks /\ c \in Clocks /\ PictureIn(c)
  BY CatchUpType, ClockPicture DEF LazyInv, ClockInv
<1>3. c.epoch = 0 => c = clk
  BY <1>2, TickDevicesDisturbs DEF CatchUp
<1> HIDE DEF c
<1>4. next.hw = c.hw /\ (next.epoch = 2 \/ (next.epoch = 1 /\ c.epoch = 0))
  BY <1>2 DEF Disturb, Clocks
<1> HIDE DEF next
<1>5. ClockInv'
  BY ReadStep DEF LazyInv
<1>6. FlagsOK' /\ Answered'
  BY <1>1 DEF LazyInv, FlagsOK, Answered
<1>7. PictureIn(clk)'
  BY <1>1, <1>2, <1>4 DEF PictureIn
<1>8. NothingOwed'
  <2>1. CASE next.epoch = 2
    BY <1>1, <2>1 DEF NothingOwed
  <2>2. CASE next.epoch = 1 /\ c.epoch = 0
    <3>1. c = clk /\ clk.epoch = 0 /\ next.hw = clk.hw /\ site' = site
      BY <1>1, <1>3, <1>4, <2>2 DEF Kept
    <3>2. site.since = 0 \/ clk.hw.steal = 0
      BY <3>1 DEF LazyInv, NothingOwed
    <3>3. QED
      BY <1>1, <3>1, <3>2 DEF NothingOwed
  <2>3. QED
    BY <1>4, <2>1, <2>2
<1>9. QED
  BY <1>5, <1>6, <1>7, <1>8 DEF LazyInv

\* The clock after a register write, before it is synchronised.
LEMMA WriteCharges ==
  ASSUME ClockInv, NEW w \in Writes
  PROVE  LET d == Disturb([CatchUp(clk) EXCEPT !.hw = Written(@, w)])
         IN  /\ d \in Clocks /\ d.pending = 0 /\ d.hw = Written(CatchUp(clk).hw, w)
             /\ Drain(d) \in Clocks /\ Drain(d).pending = 0
<1> DEFINE c == CatchUp(clk)
           v == [c EXCEPT !.hw = Written(@, w)]
           d == Disturb(v)
<1>1. c \in Clocks /\ c.pending = 0
  BY CatchUpType DEF ClockInv
<1> HIDE DEF c
<1>2. v \in Clocks /\ v.pending = 0 /\ v.hw = Written(c.hw, w)
  BY <1>1, WrittenType DEF Clocks
<1> HIDE DEF v
<1>3. d \in Clocks /\ d.pending = 0 /\ d.hw = v.hw
  BY <1>2, DisturbType
<1> HIDE DEF d
<1>4. Drain(d) \in Clocks /\ Drain(d).pending = 0
  BY <1>3, DrainExact DEF Armed
<1>5. QED
  BY <1>2, <1>3, <1>4 DEF c, v, d

\* A register write starts no picture event and stops none.
LEMMA WrittenPicture ==
  ASSUME NEW h \in Machines, NEW w \in Writes
  PROVE  Written(h, w).left["ppu"] = h.left["ppu"]
<1>1. h.left \in [Devices -> Nat] /\ "ppu" \in Devices
  BY DEF Machines, Devices
<1>2. CASE w.reg = "timer"
  <2> DEFINE n == IF ~w.on THEN 0 ELSE IF h.left["timer"] = 0 THEN w.reload ELSE h.left["timer"]
  <2>1. Written(h, w) = [h EXCEPT !.reload = w.reload, !.left["timer"] = n]
    BY <1>2 DEF Written, WrittenTimer
  <2> HIDE DEF n
  <2>2. Written(h, w).left = [h.left EXCEPT !["timer"] = n]
    BY <2>1 DEF Machines
  <2>3. QED
    BY <1>1, <2>2
<1>3. CASE w.reg = "sio"
  <2> DEFINE n == IF h.left["sio"] = 0 THEN SioCycles ELSE h.left["sio"]
  <2>1. Written(h, w) = [h EXCEPT !.left["sio"] = n]
    BY <1>3 DEF Written
  <2> HIDE DEF n
  <2>2. Written(h, w).left = [h.left EXCEPT !["sio"] = n]
    BY <2>1 DEF Machines
  <2>3. QED
    BY <1>1, <2>2
<1>4. CASE w.reg \in {"fifo", "dma", "dmanow", "if", "halt"}
  BY <1>4 DEF Written, Machines
<1>5. w.reg \in {"timer", "sio", "fifo", "dma", "dmanow", "if", "halt"}
  BY DEF Writes
<1>6. QED
  BY <1>2, <1>3, <1>4, <1>5

LEMMA WriteKeeps ==
  ASSUME LazyInv, NEW w \in Writes, Write(w) PROVE LazyInv'
<1> DEFINE d == Disturb([CatchUp(clk) EXCEPT !.hw = Written(@, w)])
<1>1. /\ clk' = Rearm(Drain(d)) /\ site' = NoSite /\ mid' = TRUE /\ took' = FALSE
      /\ masked' = masked
  BY DEF Write, Resync
<1>2. d \in Clocks /\ Drain(d) \in Clocks /\ d.hw = Written(CatchUp(clk).hw, w)
  BY WriteCharges DEF LazyInv
<1> HIDE DEF d
<1>3. PictureIn(d)
  <2>1. CatchUp(clk) \in Clocks /\ PictureIn(CatchUp(clk))
    BY CatchUpType, ClockPicture DEF LazyInv, ClockInv
  <2>2. QED
    BY <1>2, <2>1, WrittenPicture DEF PictureIn, Clocks
<1>4. PictureIn(clk)'
  <2>1. PictureIn(Rearm(Drain(d)))
    BY <1>2, <1>3, ClockPicture
  <2>2. QED
    BY <1>1, <2>1 DEF PictureIn
<1>5. ClockInv'
  BY WriteStep DEF LazyInv
<1>6. FlagsOK' /\ Answered' /\ NothingOwed'
  BY <1>1 DEF LazyInv, FlagsOK, Answered, NothingOwed, NoSite
<1>7. QED
  BY <1>4, <1>5, <1>6 DEF LazyInv

\* What is skipped at a back-edge: whole iterations that end before the next event,
\* of a loop that owes no DMA.
LEMMA BackEdgeSkips ==
  ASSUME LazyInv, NEW same \in BOOLEAN, NEW poll \in BOOLEAN, BackEdge(same, poll)
  PROVE  \E skipped \in Nat :
           /\ clk' \in Clocks /\ clk'.hw = clk.hw /\ clk'.pending = clk.pending + skipped
           /\ clk.pending + skipped < Horizon(clk.hw)
           /\ skipped > 0 => clk.hw.steal = 0
           /\ site'.since = 0
<1> DEFINE proof == same /\ (clk.epoch = 0 \/ (clk.epoch = 1 /\ poll))
           confirmed == proof /\ site.since # 0 /\ site.since = site.period
           skipped == IF confirmed /\ clk.budget > site.period THEN IdleCycles(site.period) ELSE 0
<1>1. /\ site.period \in Nat /\ site.since \in Nat /\ clk.budget \in Int /\ clk.pending \in Nat
      /\ clk \in Clocks /\ Exact(clk) /\ Short(clk) /\ Horizon(clk.hw) \in Nat
  BY ExactIsShort, NextEventIsNext DEF LazyInv, ClockInv, Clocks, Horizon
<1>2. skipped = 0 \/ (skipped \in Nat /\ skipped < clk.budget /\ confirmed)
  <2>1. CASE confirmed /\ clk.budget > site.period
    <3>1. skipped = IdleCycles(site.period) /\ confirmed
      BY <2>1
    <3>2. site.period \in Nat \ {0}
      BY <1>1, <2>1
    <3>3. clk.budget \in Nat \ {0}
      BY <1>1, <2>1, <3>2
    <3> HIDE DEF skipped, confirmed
    <3>4. QED
      BY <3>1, <3>2, <3>3, IdleCyclesFit DEF IdleCycles
  <2>2. CASE ~(confirmed /\ clk.budget > site.period)
    BY <2>2
  <2>3. QED
    BY <2>1, <2>2
<1>3. /\ clk' = [clk EXCEPT !.pending = @ + skipped, !.budget = @ - skipped, !.epoch = 0]
      /\ site'.since = 0
  BY DEF BackEdge
<1>4. confirmed => clk.hw.steal = 0
  <2>1. confirmed => clk.epoch # 2 /\ site.since # 0
    OBVIOUS
  <2>2. QED
    BY <2>1 DEF LazyInv, NothingOwed
<1> HIDE DEF skipped, confirmed, proof
<1>5. clk' \in Clocks /\ clk'.hw = clk.hw /\ clk'.pending = clk.pending + skipped
  <2>1. clk.pending + skipped \in Nat /\ clk.budget - skipped \in Int /\ 0 \in 0..2
    BY <1>1, <1>2
  <2>2. QED
    BY <1>1, <1>3, <2>1 DEF Clocks
<1>6. clk.pending + skipped < Horizon(clk.hw) /\ skipped \in Nat
  BY <1>1, <1>2 DEF Exact, Short
<1>7. QED
  BY <1>2, <1>3, <1>4, <1>5, <1>6

LEMMA BackEdgeKeeps ==
  ASSUME LazyInv, NEW same \in BOOLEAN, NEW poll \in BOOLEAN, BackEdge(same, poll)
  PROVE  LazyInv'
<1>1. clk'.hw = clk.hw /\ site'.since = 0
  BY BackEdgeSkips
<1>2. mid' = mid /\ masked' = masked /\ took' = FALSE
  BY DEF BackEdge
<1>3. ClockInv'
  BY BackEdgeStep DEF LazyInv
<1>4. PictureIn(clk)' /\ NothingOwed'
  BY <1>1 DEF LazyInv, PictureIn, NothingOwed
<1>5. FlagsOK' /\ Answered'
  BY <1>1, <1>2 DEF LazyInv, FlagsOK, Answered, IrqPending
<1>6. QED
  BY <1>3, <1>4, <1>5 DEF LazyInv

LEMMA PumpChunkFits ==
  ASSUME LazyInv PROVE PumpChunk \in 1 .. PpuPeriod
<1>1. clk.hw \in Machines /\ clk.hw.left["ppu"] \in 1 .. PpuPeriod
  BY DEF LazyInv, ClockInv, Clocks, PictureIn
<1>2. "ppu" \in Running(clk.hw) \cap {"ppu", "timer"}
  BY <1>1, Cycles DEF Running, Devices
<1>3. PumpChunk \in Nat \ {0} /\ PumpChunk <= clk.hw.left["ppu"]
  BY <1>1, <1>2, NextEventIsNext DEF PumpChunk
<1>4. QED
  BY <1>1, <1>3, Cycles

LEMMA LazyStep == LazyInv /\ [Next]_vars => LazyInv'
<1> SUFFICES ASSUME LazyInv, [Next]_vars PROVE LazyInv'
  OBVIOUS
<1>1. ASSUME NEW n \in 1 .. MaxCycles, NEW mask \in BOOLEAN, NEW stores \in BOOLEAN,
             Execute(n, mask, stores)
      PROVE  LazyInv'
  <2>1. n \in Nat \ {0}
    BY Cycles
  <2>2. QED
    BY <1>1, <2>1, TickKeeps DEF Execute
<1>2. ASSUME NEW vcount \in BOOLEAN, Read(vcount) PROVE LazyInv'
  BY <1>2, ReadKeeps
<1>3. ASSUME NEW w \in Writes, Write(w) PROVE LazyInv'
  BY <1>3, WriteKeeps
<1>4. CASE PumpIdle
  <2>1. PumpChunk \in Nat \ {0}
    BY PumpChunkFits, Cycles
  <2>2. masked \in BOOLEAN /\ FALSE \in BOOLEAN
    BY DEF LazyInv, FlagsOK
  <2>3. QED
    BY <1>4, <2>1, <2>2, TickKeeps DEF PumpIdle
<1>5. ASSUME NEW same \in BOOLEAN, NEW poll \in BOOLEAN, BackEdge(same, poll) PROVE LazyInv'
  BY <1>5, BackEdgeKeeps
<1>6. CASE UNCHANGED vars
  BY <1>6 DEF vars, LazyInv, ClockInv, Exact, FlagsOK, PictureIn, Answered, IrqPending,
              NothingOwed
<1>7. QED
  BY <1>1, <1>2, <1>3, <1>4, <1>5, <1>6 DEF Next

LEMMA LazyInit == Init => LazyInv
<1> SUFFICES ASSUME Init PROVE LazyInv
  OBVIOUS
<1>1. ClockInv
  BY ClockInit
<1>2. clk.hw = PowerOn /\ clk.epoch = 2
  BY DEF Init
<1>3. PictureIn(clk)
  <2>1. PowerOn.left["ppu"] = PpuPeriod
    BY DEF PowerOn, Devices
  <2>2. QED
    BY <1>2, <2>1, Cycles DEF PictureIn
<1>4. FlagsOK /\ NothingOwed
  BY <1>2 DEF Init, FlagsOK, NothingOwed
<1>5. Answered
  BY <1>2 DEF PowerOn, Answered, IrqPending
<1>6. QED
  BY <1>1, <1>3, <1>4, <1>5 DEF LazyInv

LEMMA LazyInvariant == Spec => []LazyInv
  BY LazyInit, LazyStep, PTL DEF Spec

\* The budget is exact at every moment: no event of a device is passed over, however
\* long a batch of instructions is and whatever skips a loop.
THEOREM BudgetIsExact == Spec => []BudgetExact
<1>1. LazyInv => BudgetExact
  BY DEF LazyInv, ClockInv, Exact, BudgetExact
<1>2. QED
  BY <1>1, LazyInvariant, PTL

\* Types of the clock and of its idle-loop memory.
THEOREM TypeCorrect == Spec => []TypeOK
<1>1. LazyInv => TypeOK
  BY DEF LazyInv, FlagsOK, ClockInv, Clocks, TypeOK
<1>2. QED
  BY <1>1, LazyInvariant, PTL

-----------------------------------------------------------------------------
\* Every step of the lazy clock is one of the eager clock, of the devices with the
\* pending cycles lived.

LEMMA TickMaps ==
  ASSUME LazyInv, NEW n \in Nat \ {0}, NEW mask \in BOOLEAN, NEW stores \in BOOLEAN,
         Tick(n, mask, stores)
  PROVE  Eager!Step(n, mask)
<1> DEFINE c0 == IF stores THEN Disturb(clk) ELSE clk
           c  == Ticked(c0, n)
           takes == IrqPending(c.hw) /\ ~mask
           h == Eager!PaySteal(Eager!Live(Now(clk), n))
<1>1. /\ clk' = IF takes THEN Wake(c) ELSE c
      /\ masked' = (mask \/ takes) /\ took' = takes /\ mid' = FALSE /\ seen' = None
  BY DEF Tick
<1>2. c0 \in Clocks /\ Exact(c0) /\ Now(c0) = Now(clk)
  <2>1. c0 \in Clocks /\ c0.hw = clk.hw /\ c0.pending = clk.pending /\ c0.budget = clk.budget
    BY DisturbType DEF LazyInv, ClockInv
  <2>2. QED
    BY <2>1, NowOf DEF LazyInv, ClockInv, Exact
<1> HIDE DEF c0
<1>3. c \in Clocks /\ Exact(c) /\ Now(c) = h
  BY <1>2, TickedExact, TickedNow
<1> HIDE DEF c
<1>4. c.hw.flags = h.flags /\ c.hw.halted = h.halted
  BY <1>3, ExactIsShort, NowFields
<1>5. takes <=> (Eager!IrqPending(h) /\ ~mask)
  BY <1>4 DEF IrqPending, Eager!IrqPending
<1>6. Now(clk') = IF takes /\ h.halted THEN Eager!Live([h EXCEPT !.halted = FALSE], WakeDelay)
                  ELSE h
  BY <1>1, <1>3, <1>4, WakeNow
<1> HIDE DEF h
<1>7. QED
  BY <1>1, <1>5, <1>6 DEF Eager!Step, h, Now

LEMMA ReadMaps ==
  ASSUME LazyInv, NEW vcount \in BOOLEAN, Read(vcount) PROVE Eager!Read
<1> DEFINE c == CatchUp(clk)
           next == IF vcount /\ c.epoch = 0 THEN [c EXCEPT !.epoch = 1] ELSE Disturb(c)
<1>1. clk' = next /\ mid' = TRUE /\ took' = FALSE /\ masked' = masked /\ seen' = Visible(c.hw)
  BY DEF Read
<1>2. c \in Clocks /\ c.hw = Now(clk) /\ Now(c) = Now(clk)
  BY CatchUpType, CatchUpNow, ExactIsShort DEF LazyInv, ClockInv
<1> HIDE DEF c
<1>3. next.hw = c.hw /\ next.pending = c.pending
  BY <1>2 DEF Disturb, Clocks
<1> HIDE DEF next
<1>4. Now(clk') = Now(clk)
  BY <1>1, <1>2, <1>3, NowOf
<1>5. seen' = Eager!Visible(Now(clk))
  BY <1>1, <1>2 DEF Visible, Eager!Visible
<1>6. QED
  BY <1>1, <1>4, <1>5 DEF Eager!Read, Now

LEMMA SameWritten ==
  ASSUME NEW h, NEW w \in Writes
  PROVE  Eager!Written(h, w) = Written(h, w) /\ Eager!Writes = Writes
  BY DEF Eager!Written, Written, Eager!WrittenTimer, WrittenTimer, Eager!Requested,
         Requested, Eager!Writes, Writes

LEMMA WriteMaps ==
  ASSUME LazyInv, NEW w \in Writes, Write(w) PROVE Eager!Write(w)
<1> DEFINE d == Disturb([CatchUp(clk) EXCEPT !.hw = Written(@, w)])
<1>1. /\ clk' = Rearm(Drain(d)) /\ mid' = TRUE /\ took' = FALSE /\ seen' = None
      /\ masked' = masked
  BY DEF Write, Resync
<1>2. /\ d \in Clocks /\ d.pending = 0 /\ d.hw = Written(CatchUp(clk).hw, w)
      /\ Drain(d) \in Clocks
  BY WriteCharges DEF LazyInv
<1> HIDE DEF d
<1>3. CatchUp(clk).hw = Now(clk)
  BY CatchUpNow, ExactIsShort DEF LazyInv, ClockInv
<1>4. Now(clk') = Eager!PaySteal(Written(Now(clk), w))
  BY <1>1, <1>2, <1>3, RearmNow, DrainNow, NothingPending
<1>5. Now(clk') = Eager!PaySteal(Eager!Written(Now(clk), w))
  BY <1>4, SameWritten
<1>6. QED
  BY <1>1, <1>5 DEF Eager!Write, Now

LEMMA BackEdgeMaps ==
  ASSUME LazyInv, NEW same \in BOOLEAN, NEW poll \in BOOLEAN, BackEdge(same, poll)
  PROVE  \E cycles \in 0 .. Eager!NextEvent(Now(clk), Eager!Devices) - 1 : Eager!Loop(cycles)
<1>1. PICK skipped \in Nat :
           /\ clk' \in Clocks /\ clk'.hw = clk.hw /\ clk'.pending = clk.pending + skipped
           /\ clk.pending + skipped < Horizon(clk.hw)
           /\ skipped > 0 => clk.hw.steal = 0
  BY BackEdgeSkips
<1>2. /\ ~mid /\ ~clk.hw.halted /\ seen' = None /\ took' = FALSE
      /\ masked' = masked /\ mid' = mid
  BY DEF BackEdge
<1>3. clk \in Clocks /\ Short(clk) /\ clk.pending \in Nat
  BY ExactIsShort DEF LazyInv, ClockInv, Clocks
<1>4. /\ Now(clk) \in Machines /\ Horizon(Now(clk)) = Horizon(clk.hw) - clk.pending
      /\ \A n \in Nat : Eager!Live(Now(clk), n) = Eager!Live(clk.hw, clk.pending + n)
  BY <1>3, NowIsLive
<1>5. Eager!NextEvent(Now(clk), Eager!Devices) = Horizon(Now(clk))
  BY SameOperators DEF Eager!NextEvent, NextEvent, Horizon
<1>6. Horizon(clk.hw) \in Nat
  BY <1>3, NextEventIsNext DEF Horizon, Clocks
<1>7. skipped \in 0 .. Horizon(Now(clk)) - 1
  BY <1>1, <1>3, <1>4, <1>6
<1>8. Now(clk') = Eager!Live(Now(clk), skipped)
  <2>1. Short(clk')
    BY <1>1 DEF Short
  <2>2. QED
    BY <1>1, <1>4, <2>1, NowIsLive
<1>9. /\ Now(clk).steal = clk.hw.steal /\ Now(clk).flags = clk.hw.flags
      /\ Now(clk).halted = clk.hw.halted
  BY <1>3, NowFields
<1>10. Eager!IrqPending(Now(clk)) => masked
  BY <1>2, <1>9 DEF LazyInv, Answered, IrqPending, Eager!IrqPending
<1>11. skipped > 0 => Now(clk).steal = 0
  BY <1>1, <1>9
<1>12. Eager!Loop(skipped)
  BY <1>2, <1>8, <1>9, <1>10, <1>11 DEF Eager!Loop, Now
<1>13. QED
  BY <1>5, <1>7, <1>12

\* Cycles that the eager clock may live in one step.
LEMMA StepBound ==
  LET M == Eager!Max({MaxCycles, PpuPeriod})
  IN  M \in Nat /\ MaxCycles <= M /\ PpuPeriod <= M
<1> DEFINE S == {MaxCycles, PpuPeriod}
<1>1. MaxCycles \in Nat /\ PpuPeriod \in Nat
  BY Cycles
<1>2. \E x \in S : \A y \in S : x >= y
  BY <1>1
<1>3. Eager!Max(S) \in S /\ \A y \in S : Eager!Max(S) >= y
  BY <1>2 DEF Eager!Max
<1>4. QED
  BY <1>1, <1>3

LEMMA NextMaps == LazyInv /\ [Next]_vars => [Eager!Next]_(Eager!vars)
<1> SUFFICES ASSUME LazyInv, [Next]_vars PROVE [Eager!Next]_(Eager!vars)
  OBVIOUS
<1>0. Eager!Max({MaxCycles, PpuPeriod}) \in Nat /\ PpuPeriod \in Nat /\ MaxCycles \in Nat
      /\ MaxCycles <= Eager!Max({MaxCycles, PpuPeriod})
      /\ PpuPeriod <= Eager!Max({MaxCycles, PpuPeriod})
  BY StepBound, Cycles
<1>1. ASSUME NEW n \in 1 .. MaxCycles, NEW mask \in BOOLEAN, NEW stores \in BOOLEAN,
             Execute(n, mask, stores)
      PROVE  Eager!Next
  <2>1. n \in Nat \ {0} /\ n \in 1 .. Eager!Max({MaxCycles, PpuPeriod})
    BY <1>0
  <2>2. Eager!Step(n, mask)
    BY <1>1, <2>1, TickMaps DEF Execute
  <2>3. QED
    BY <2>1, <2>2 DEF Eager!Next
<1>2. ASSUME NEW vcount \in BOOLEAN, Read(vcount) PROVE Eager!Next
  BY <1>2, ReadMaps DEF Eager!Next
<1>3. ASSUME NEW w \in Writes, Write(w) PROVE Eager!Next
  BY <1>3, WriteMaps, SameWritten DEF Eager!Next
<1>4. CASE PumpIdle
  <2>1. PumpChunk \in Nat \ {0} /\ PumpChunk \in 1 .. Eager!Max({MaxCycles, PpuPeriod})
    BY <1>0, PumpChunkFits
  <2>2. masked \in BOOLEAN /\ FALSE \in BOOLEAN
    BY DEF LazyInv, FlagsOK
  <2>3. Eager!Step(PumpChunk, masked)
    BY <1>4, <2>1, <2>2, TickMaps DEF PumpIdle
  <2>4. QED
    BY <2>1, <2>2, <2>3 DEF Eager!Next
<1>5. ASSUME NEW same \in BOOLEAN, NEW poll \in BOOLEAN, BackEdge(same, poll) PROVE Eager!Next
  BY <1>5, BackEdgeMaps DEF Eager!Next
<1>6. CASE UNCHANGED vars
  BY <1>6 DEF vars, Eager!vars, Now
<1>7. QED
  BY <1>1, <1>2, <1>3, <1>4, <1>5, <1>6 DEF Next

LEMMA InitMaps == Init => Eager!Init
<1> SUFFICES ASSUME Init PROVE Eager!Init
  OBVIOUS
<1>1. clk \in Clocks /\ clk.pending = 0
  BY LazyInit DEF LazyInv, ClockInv, Init
<1>2. Now(clk) = PowerOn
  BY <1>1, NothingPending DEF Init
<1>3. Eager!PowerOn = PowerOn
  BY DEF Eager!PowerOn, PowerOn, Eager!Devices, Devices
<1>4. QED
  BY <1>2, <1>3 DEF Init, Eager!Init

\* Ticking in batches cannot be told from ticking every cycle: the lazy clock
\* implements the eager one, for every period, every length of an instruction and
\* every set of enabled interrupts.
THEOREM LazyImplementsEager == Spec => ImplementsEager
<1>1. Init => Eager!Init
  BY InitMaps
<1>2. LazyInv /\ [Next]_vars => [Eager!Next]_(Eager!vars)
  BY NextMaps
<1>3. QED
  BY <1>1, <1>2, LazyInvariant, PTL DEF Spec, ImplementsEager

\* Between two instructions no interrupt that is requested and enabled waits unmasked,
\* although requests are only looked at when the batched cycles reach the event budget
\* (runtime_tick, 685-740).
THEOREM NoInterruptWaits == Spec => []Answered
<1>1. LazyInv => Answered
  BY DEF LazyInv
<1>2. QED
  BY <1>1, LazyInvariant, PTL
=============================================================================
