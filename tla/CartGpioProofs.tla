--------------------------- MODULE CartGpioProofs ---------------------------
(***************************************************************************)
(* Proofs about CartGpio, for bytes, registers and samples of any length:   *)
(* its types, that a register is read as it was at its command, that only a  *)
(* whole write sets the clock, that a gyroscope sample is shifted out as it  *)
(* was at its strobe, and that the solar sensor trips at the light of its    *)
(* reset.                                                                   *)
(*                                                                         *)
(* The inductive invariant ties the chip's own counters to the edges the      *)
(* guest has clocked since it selected the chip.                             *)
(***************************************************************************)
EXTENDS CartGpio, TLAPS

\* While a command or a register's bytes are under way, the chip's bit and byte
\* counters say how many edges the guest has clocked (gba_rtc.cpp:185-223).
Counted ==
  /\ phase = "command" => edges = nbits
  /\ phase \in {"read", "write"} =>
       IF byteIdx < Length(reg)
       THEN edges = Bits + Bits * byteIdx + nbits
       ELSE nbits = 0 /\ edges >= Bits + Bits * Length(reg)

\* A read goes on with the register as latched at its command (gba_rtc.cpp:251-258).
KeepsLatch == phase = "read" => buffer = asked

\* The line carries the bit that was clocked last (gba_rtc.cpp:200-206).
LastBitOut ==
  LET k == edges - Bits
  IN (phase = "read" /\ k > 0 /\ k <= Bits * Length(reg)) => sioOut = BitOf(asked, k)

\* What the bits of the clock and the registers of the chips are.
ClockTypes ==
  /\ sck \in BOOLEAN /\ cs \in BOOLEAN /\ lsbFirst \in BOOLEAN
  /\ phase \in {"idle", "command", "read", "write"} /\ (phase = "idle" <=> ~cs)
  /\ nbits \in 0..(Bits - 1) /\ reg \in Regs /\ byteIdx \in 0..Length(reg)
  /\ control \in BOOLEAN /\ offset \in Times /\ edges \in 0..AllBits

ClockInv == ClockTypes /\ Counted /\ KeepsLatch /\ LastBitOut

\* The gyroscope's register has lost one bit more than the falling edges since the
\* strobe, and its line carries the bit lost last (gba_gyro.cpp:67-85).
SampleOut ==
  /\ asked = Nobody <=> shift = Nobody
  /\ asked # Nobody =>
       /\ shift = <<asked[1], IF edges < SampleBits THEN edges + 1 ELSE SampleBits>>
       /\ output = IF edges < SampleBits THEN <<asked[1], edges>> ELSE Nobody

\* The solar sensor's registers, and the guest's count of its pulses.
SolarTypes ==
  /\ counter \in 0..(Counts - 1) /\ threshold \in 0..Darkest
  /\ clockLow \in BOOLEAN /\ selected \in BOOLEAN

\* While a reading is under way, the sensor has counted the guest's pulses, and
\* remembers pin 0 as it was when the sensor last listened (gba_solar.cpp:40-63).
LightOut ==
  lit # Nobody =>
    /\ threshold = Darkest - lit[1] /\ counter = pulses
    /\ (clockLow <=> lit[2] = {}) /\ lit[2] \in SUBSET {0}
    /\ selected <=> 2 \notin data
    /\ 2 \notin data => lit[2] = data \cap {0}

PortTypes ==
  /\ cart \in {"clock", "gyro", "sun"} /\ light \in Lights
  /\ data \subseteq Pin /\ dir \subseteq Pin /\ enabled \in BOOLEAN
  /\ elapsed \in Times /\ clockHigh \in BOOLEAN /\ tilt \in Samples

\* The port holds the levels of the last write (gba_gpio.cpp:22-36).
Held == driven = Latched

IInv ==
  /\ PortTypes /\ Held /\ ClockTypes /\ SolarTypes
  /\ HasClock => ClockInv
  /\ cart = "gyro" => phase = "idle" /\ SampleOut
  /\ cart = "sun" => LightOut

-----------------------------------------------------------------------------
\* Arithmetic

\* The value of a byte count and a bit count, and back.
LEMMA BitAndByte ==
  ASSUME NEW B \in Nat \ {0}, NEW q \in Nat, NEW n \in 0..(B - 1)
  PROVE (B * q + n) \div B = q /\ (B * q + n) % B = n
  OBVIOUS

\* A byte that is not the last leaves at least one byte's bits.
LEMMA BeforeTheEnd ==
  ASSUME NEW B \in Nat \ {0}, NEW q \in Nat, NEW L \in Nat, q < L
  PROVE /\ B * (q + 1) = B * q + B
        /\ B * q + B <= B * L
        /\ B * q \in Nat /\ B * L \in Nat
  OBVIOUS

\* The bits before the one that was just clocked.
LEMMA OneLess ==
  ASSUME NEW x \in Nat, NEW B \in Nat, NEW q \in Nat, NEW n \in Nat, x - B = q + n + 1
  PROVE (x - B) - 1 = q + n
  OBVIOUS

\* Lengths are natural, and no transaction is longer than the bound on edges.
LEMMA Lengths ==
  ASSUME NEW r \in Regs
  PROVE /\ Length(r) \in Nat
        /\ r \notin 1..3 => Length(r) = 0
        /\ AllBits \in Nat
        /\ Bits + Bits * Length(r) <= AllBits
        /\ SampleBits <= AllBits
<1>1. /\ Bits \in Nat \ {0} /\ RegBytes[1] \in Nat \ {0}
      /\ RegBytes[2] \in Nat \ {0} /\ RegBytes[3] \in Nat \ {0}
      /\ SampleBits \in Nat \ {0}
      /\ SampleBits <= Bits * (1 + RegBytes[1] + RegBytes[2] + RegBytes[3])
  BY GpioAssumption
<1>2. /\ Bits * RegBytes[1] \in Nat /\ Bits * RegBytes[2] \in Nat
      /\ Bits * RegBytes[3] \in Nat
  BY <1>1
<1>3. AllBits = Bits + Bits * RegBytes[1] + Bits * RegBytes[2] + Bits * RegBytes[3]
  BY <1>1 DEF AllBits
<1>4. Bits * (1 + RegBytes[1] + RegBytes[2] + RegBytes[3]) = AllBits
  BY <1>1 DEF AllBits
<1>5. CASE r \in 1..3
  <2>1. Length(r) = RegBytes[r] /\ r \in {1, 2, 3}
    BY <1>5 DEF Length
  <2>2. QED BY <2>1, <1>1, <1>2, <1>3, <1>4
<1>6. CASE r \notin 1..3
  <2>1. Length(r) = 0
    BY <1>6 DEF Length
  <2>2. QED BY <2>1, <1>1, <1>2, <1>3, <1>4, <1>6
<1>7. QED BY <1>5, <1>6

-----------------------------------------------------------------------------
\* The clock

\* The clock and its control register are set only when a whole write, or a reset
\* command, is in (gba_rtc.cpp:216-223, 250).
SetWhole ==
  <<control, offset>>' # <<control, offset>> =>
    cs' /\ edges' = Bits + Bits * Length(reg') /\ reg' \in 0..3

\* A write of the pins without a rising clock line sends no bit.
LEMMA NoEdge ==
  ASSUME ClockInv, NEW p \in SUBSET GuestPins, ClockWrite(p), ~Rises(p)
  PROVE ClockInv' /\ SetWhole
<1>a. /\ sck' = (0 \in p) /\ cs' = (2 \in p)
      /\ edges' = IF cs THEN edges ELSE 0
  BY DEF ClockWrite
<1>b. /\ phase' = PhaseOn(p) /\ nbits' = CountOn(p)
      /\ byteIdx' = byteIdx /\ reg' = reg /\ lsbFirst' = lsbFirst
      /\ buffer' = buffer /\ sioOut' = sioOut /\ asked' = asked
      /\ control' = control /\ offset' = offset
  BY DEF ClockWrite
<1>c. sck' \in BOOLEAN /\ (cs' <=> 2 \in p) /\ cs' \in BOOLEAN
  <2>1. sck' \in BOOLEAN
    <3>1. CASE 0 \in p
      BY <1>a, <3>1
    <3>2. CASE 0 \notin p
      BY <1>a, <3>2
    <3>3. QED BY <3>1, <3>2
  <2>2. cs' <=> 2 \in p
    BY <1>a, Zenon
  <2>3. cs' \in BOOLEAN
    <3>1. CASE 2 \in p
      BY <1>a, <3>1
    <3>2. CASE 2 \notin p
      BY <1>a, <3>2
    <3>3. QED BY <3>1, <3>2
  <2>4. QED BY <2>1, <2>2, <2>3
<1>1. /\ sck' \in BOOLEAN /\ (cs' <=> 2 \in p) /\ cs' \in BOOLEAN
      /\ edges' = IF cs THEN edges ELSE 0
      /\ phase' = PhaseOn(p) /\ nbits' = CountOn(p)
      /\ byteIdx' = byteIdx /\ reg' = reg /\ lsbFirst' = lsbFirst
      /\ buffer' = buffer /\ sioOut' = sioOut /\ asked' = asked
      /\ control' = control /\ offset' = offset
  BY <1>a, <1>b, <1>c
<1>2. /\ Bits \in Nat \ {0} /\ AllBits \in Nat /\ Length(reg) \in Nat
  BY GpioAssumption, Lengths DEF ClockInv, ClockTypes
<1>3. SetWhole
  BY <1>1 DEF SetWhole
<1>4. Length(reg') = Length(reg)
  BY <1>1
<1>5. CASE 2 \notin p
  <2>1. phase' = "idle" /\ ~cs' /\ nbits' = nbits
    BY <1>1, <1>5 DEF PhaseOn, CountOn
  <2>2. ClockTypes'
    BY <1>1, <1>2, <1>4, <2>1 DEF ClockInv, ClockTypes
  <2>3. Counted' /\ KeepsLatch' /\ LastBitOut'
    BY <2>1 DEF Counted, KeepsLatch, LastBitOut
  <2>4. QED BY <2>2, <2>3, <1>3 DEF ClockInv
<1>6. CASE 2 \in p /\ ~cs
  <2>1. phase' = "command" /\ cs' /\ nbits' = 0 /\ edges' = 0
    BY <1>1, <1>6 DEF PhaseOn, CountOn
  <2>2. ClockTypes'
    BY <1>1, <1>2, <1>4, <2>1 DEF ClockInv, ClockTypes
  <2>3. Counted' /\ KeepsLatch' /\ LastBitOut'
    BY <2>1 DEF Counted, KeepsLatch, LastBitOut
  <2>4. QED BY <2>2, <2>3, <1>3 DEF ClockInv
<1>7. CASE 2 \in p /\ cs
  <2>1. phase' = phase /\ cs' /\ nbits' = nbits /\ edges' = edges
    BY <1>1, <1>7 DEF PhaseOn, CountOn
  <2>2. ClockTypes'
    BY <1>1, <1>2, <1>4, <1>7, <2>1 DEF ClockInv, ClockTypes
  <2>3. Counted'
    BY <1>1, <1>4, <2>1 DEF Counted, ClockInv
  <2>4. KeepsLatch'
    BY <1>1, <2>1 DEF KeepsLatch, ClockInv
  <2>5. LastBitOut'
    BY <1>1, <1>4, <2>1 DEF LastBitOut, ClockInv, BitOf
  <2>6. QED BY <2>2, <2>3, <2>4, <2>5, <1>3 DEF ClockInv
<1>8. QED BY <1>5, <1>6, <1>7

\* What a rising clock line finds: the chip selected, and as many edges behind it
\* as the counters say.
LEMMA EdgeComes ==
  ASSUME ClockInv, NEW p \in SUBSET GuestPins, ClockWrite(p), Rises(p)
  PROVE /\ Bits \in Nat \ {0} /\ AllBits \in Nat /\ Length(reg) \in Nat
        /\ sck' \in BOOLEAN /\ cs' = TRUE /\ ClockBit(p)
        /\ edges' \in 0..AllBits /\ CountOn(p) \in 0..(Bits - 1)
        /\ PhaseOn(p) = "command" => edges' = CountOn(p) + 1
        /\ PhaseOn(p) \in {"command", "read", "write"}
        /\ PhaseOn(p) # "command" =>
             /\ phase = PhaseOn(p) /\ CountOn(p) = nbits
             /\ edges' = Another(edges)
<1>1. /\ Bits \in Nat \ {0} /\ AllBits \in Nat /\ Length(reg) \in Nat /\ Bits <= AllBits
  <2>1. Bits \in Nat \ {0} /\ Length(reg) \in Nat /\ reg \in Regs
    BY GpioAssumption, Lengths DEF ClockInv, ClockTypes
  <2>2. AllBits \in Nat /\ Bits + Bits * Length(reg) <= AllBits
    BY <2>1, Lengths
  <2>3. Bits * Length(reg) \in Nat
    BY <2>1
  <2>4. QED BY <2>1, <2>2, <2>3
<1>2. 2 \in p /\ sck' \in BOOLEAN /\ cs' = TRUE /\ ClockBit(p)
  BY DEF ClockWrite, Rises
<1>3. edges' = Another(IF cs THEN edges ELSE 0)
  BY DEF ClockWrite
<1>4. edges \in 0..AllBits /\ nbits \in 0..(Bits - 1)
  BY DEF ClockInv, ClockTypes
<1>5. edges' \in 0..AllBits
  BY <1>1, <1>3, <1>4 DEF Another
<1>6. CountOn(p) \in 0..(Bits - 1)
  BY <1>1, <1>4 DEF CountOn
<1>7. PhaseOn(p) = IF ~cs THEN "command" ELSE phase
  BY <1>2 DEF PhaseOn
<1>8. CASE ~cs
  <2>1. CountOn(p) = 0
    BY <1>2, <1>8 DEF CountOn
  <2>2. edges' = 1
    BY <1>1, <1>3, <1>8 DEF Another
  <2>3. QED BY <1>1, <1>2, <1>5, <1>6, <1>7, <1>8, <2>1, <2>2
<1>9. CASE cs
  <2>1. CountOn(p) = nbits /\ edges' = Another(edges) /\ PhaseOn(p) = phase
    BY <1>3, <1>7, <1>9 DEF CountOn
  <2>2. phase \in {"command", "read", "write"}
    BY <1>9 DEF ClockInv, ClockTypes
  <2>3. phase = "command" => edges' = nbits + 1
    BY <1>1, <1>4, <2>1 DEF ClockInv, Counted, Another
  <2>4. QED BY <1>1, <1>2, <1>5, <1>6, <2>1, <2>2, <2>3
<1>10. QED BY <1>8, <1>9

\* A bit of the command, the last of which decodes it.
LEMMA CommandEdge ==
  ASSUME ClockInv, NEW p \in SUBSET GuestPins, ClockWrite(p), Rises(p),
         PhaseOn(p) = "command", CommandBit(CountOn(p))
  PROVE ClockInv' /\ SetWhole
<1>1. /\ Bits \in Nat \ {0} /\ AllBits \in Nat /\ Length(reg) \in Nat
      /\ sck' \in BOOLEAN /\ cs' = TRUE
      /\ edges' \in 0..AllBits /\ CountOn(p) \in 0..(Bits - 1)
      /\ edges' = CountOn(p) + 1
  BY EdgeComes
<1>2. CASE CountOn(p) + 1 # Bits
  <2>1. /\ nbits' = CountOn(p) + 1 /\ phase' = "command"
        /\ UNCHANGED <<byteIdx, reg, lsbFirst, control, offset>>
    BY <1>2 DEF CommandBit
  <2>2. ClockTypes'
    BY <1>1, <1>2, <2>1 DEF ClockInv, ClockTypes, Length
  <2>3. Counted'
    BY <1>1, <2>1 DEF Counted
  <2>4. KeepsLatch' /\ LastBitOut'
    BY <2>1 DEF KeepsLatch, LastBitOut
  <2>5. SetWhole
    BY <2>1 DEF SetWhole
  <2>6. QED BY <2>2, <2>3, <2>4, <2>5 DEF ClockInv
<1>3. CASE CountOn(p) + 1 = Bits
  <2>1. PICK r \in Regs, read \in BOOLEAN, lsb \in BOOLEAN :
          /\ reg' = r /\ lsbFirst' = ~lsb /\ nbits' = 0 /\ byteIdx' = 0
          /\ phase' = IF read THEN "read" ELSE "write"
          /\ IF r = 0 THEN control' = FALSE /\ offset' = 0
                      ELSE UNCHANGED <<control, offset>>
          /\ buffer' = IF read THEN Register(r) ELSE Nobody
          /\ asked' = buffer'
    BY <1>3 DEF CommandBit, DecodeCommand
  <2>2. edges' = Bits /\ Length(r) \in Nat /\ Length(reg') = Length(r)
    BY <1>1, <1>3, <2>1, Lengths
  <2>3. phase' \in {"read", "write"}
    BY <2>1
  <2>4. control' \in BOOLEAN /\ offset' \in Times
    <3>1. control \in BOOLEAN /\ offset \in Times
      BY DEF ClockInv, ClockTypes
    <3>2. 0 \in Times
      BY GpioAssumption DEF Times
    <3>3. QED BY <2>1, <3>1, <3>2
  <2>5. lsbFirst' \in BOOLEAN
    <3>1. CASE lsb
      BY <2>1, <3>1
    <3>2. CASE ~lsb
      BY <2>1, <3>2
    <3>3. QED BY <3>1, <3>2
  <2>6. reg' \in Regs /\ byteIdx' \in 0..Length(reg') /\ nbits' \in 0..(Bits - 1)
    BY <1>1, <2>1, <2>2
  <2>7. ClockTypes'
    BY <1>1, <2>3, <2>4, <2>5, <2>6 DEF ClockTypes
  <2>8. Counted'
    <3>1. Bits * byteIdx' = 0 /\ nbits' = 0 /\ byteIdx' = 0
      BY <1>1, <2>1
    <3>2. ~(byteIdx' < Length(reg')) => Bits * Length(reg') = 0
      BY <1>1, <2>2, <3>1
    <3>3. QED BY <1>1, <2>2, <2>3, <3>1, <3>2 DEF Counted
  <2>9. KeepsLatch'
    BY <2>1 DEF KeepsLatch
  <2>10. LastBitOut'
    <3>1. edges' - Bits = 0
      BY <1>1, <2>2
    <3>2. QED BY <3>1 DEF LastBitOut
  <2>11. SetWhole
    <3>1. r # 0 => <<control, offset>>' = <<control, offset>>
      BY <2>1
    <3>2. r = 0 => Length(r) = 0
      BY DEF Length
    <3>3. r = 0 => edges' = Bits + Bits * Length(reg')
      BY <1>1, <2>2, <3>2
    <3>4. r = 0 => reg' \in 0..3
      BY <2>1
    <3>5. QED BY <1>1, <3>1, <3>3, <3>4 DEF SetWhole
  <2>12. QED BY <2>7, <2>8, <2>9, <2>10, <2>11 DEF ClockInv
<1>4. QED BY <1>2, <1>3

\* What a data bit does to the counters.
LEMMA Advanced ==
  ASSUME ClockInv, NEW p \in SUBSET GuestPins, ClockWrite(p), Rises(p),
         PhaseOn(p) \in {"read", "write"}, byteIdx < Length(reg), Advance,
         phase' = phase, reg' = reg
  PROVE /\ nbits' \in 0..(Bits - 1) /\ byteIdx' \in 0..Length(reg')
        /\ Bits * byteIdx \in Nat
        /\ edges' - Bits = Bits * byteIdx + nbits + 1
        /\ byteIdx' \in {byteIdx, byteIdx + 1}
        /\ ~(byteIdx' < Length(reg')) => edges' = Bits + Bits * Length(reg')
        /\ Counted'
<1>1. /\ Bits \in Nat \ {0} /\ AllBits \in Nat /\ Length(reg) \in Nat
      /\ phase \in {"read", "write"} /\ edges' = Another(edges)
  BY EdgeComes
<1>2. nbits \in 0..(Bits - 1) /\ byteIdx \in 0..Length(reg) /\ edges \in 0..AllBits
      /\ reg \in Regs
  BY DEF ClockInv, ClockTypes
<1>3. edges = Bits + Bits * byteIdx + nbits
  BY <1>1, <1>2 DEF ClockInv, Counted
<1>4. /\ Bits * (byteIdx + 1) = Bits * byteIdx + Bits
      /\ Bits * byteIdx + Bits <= Bits * Length(reg)
      /\ Bits * byteIdx \in Nat /\ Bits * Length(reg) \in Nat
  BY <1>1, <1>2, BeforeTheEnd
<1>5. Bits + Bits * Length(reg) <= AllBits
  BY <1>2, Lengths
<1>6. edges' = edges + 1
  <2>1. edges # AllBits
    BY <1>1, <1>2, <1>3, <1>4, <1>5
  <2>2. QED BY <1>1, <2>1 DEF Another
<1>7. Length(reg') = Length(reg)
  OBVIOUS
<1>8. edges' - Bits = Bits * byteIdx + nbits + 1
  BY <1>1, <1>2, <1>3, <1>4, <1>6
<1>9. CASE nbits + 1 = Bits
  <2>1. nbits' = 0 /\ byteIdx' = byteIdx + 1
    BY <1>9 DEF Advance
  <2>2. edges' = Bits + Bits * byteIdx'
    <3> DEFINE b == Bits * byteIdx
    <3>1. Bits * byteIdx' = b + Bits
      BY <1>4, <2>1
    <3>2. b \in Nat /\ edges = Bits + b + nbits
      BY <1>3, <1>4
    <3>3. edges' = Bits + (b + Bits)
      <4> HIDE DEF b
      <4>1. QED BY <1>1, <1>2, <1>6, <1>9, <3>2
    <3>4. QED BY <3>1, <3>3
  <2>3. byteIdx' \in 0..Length(reg') /\ nbits' \in 0..(Bits - 1)
    BY <1>1, <1>2, <1>7, <2>1
  <2>4. ~(byteIdx' < Length(reg')) => byteIdx' = Length(reg')
    BY <1>1, <1>7, <2>3
  <2>5. ~(byteIdx' < Length(reg')) => edges' = Bits + Bits * Length(reg')
    BY <2>2, <2>4
  <2>6. Bits * byteIdx' \in Nat /\ edges' \in Nat
    BY <1>1, <1>2, <1>4, <2>1, <1>6
  <2>7. Counted'
    <3>1. phase' # "command"
      BY <1>1
    <3>2. byteIdx' < Length(reg') => edges' = Bits + Bits * byteIdx' + nbits'
      BY <1>1, <2>1, <2>2, <2>6
    <3>3. ~(byteIdx' < Length(reg')) => nbits' = 0 /\ edges' >= Bits + Bits * Length(reg')
      BY <2>1, <2>5, <2>6
    <3>4. QED BY <3>1, <3>2, <3>3 DEF Counted
  <2>8. QED BY <1>4, <1>8, <2>1, <2>3, <2>5, <2>7
<1>10. CASE nbits + 1 # Bits
  <2>1. nbits' = nbits + 1 /\ byteIdx' = byteIdx
    BY <1>10 DEF Advance
  <2>2. byteIdx' < Length(reg')
    BY <1>7, <2>1
  <2>3. byteIdx' \in 0..Length(reg') /\ nbits' \in 0..(Bits - 1)
    BY <1>1, <1>2, <1>7, <1>10, <2>1
  <2>4. edges' = Bits + Bits * byteIdx' + nbits'
    <3> DEFINE b == Bits * byteIdx
    <3>1. Bits * byteIdx' = b
      BY <2>1
    <3>2. b \in Nat /\ edges = Bits + b + nbits
      BY <1>3, <1>4
    <3>3. edges' = Bits + b + (nbits + 1)
      <4> HIDE DEF b
      <4>1. QED BY <1>1, <1>2, <1>6, <3>2
    <3>4. QED BY <2>1, <3>1, <3>3
  <2>5. Counted'
    BY <1>1, <2>2, <2>4 DEF Counted
  <2>6. QED BY <1>4, <1>8, <2>1, <2>2, <2>3, <2>5
<1>11. QED BY <1>9, <1>10

\* A bit that the guest writes into a register.
LEMMA WriteEdge ==
  ASSUME ClockInv, NEW p \in SUBSET GuestPins, ClockWrite(p), Rises(p),
         PhaseOn(p) = "write", WriteBit
  PROVE ClockInv' /\ SetWhole
<1>1. /\ phase = "write" /\ cs' = TRUE /\ sck' \in BOOLEAN
      /\ edges' \in 0..AllBits /\ Length(reg) \in Nat
  BY EdgeComes
<1>2. /\ byteIdx < Length(reg) /\ Advance /\ phase' = phase /\ reg' = reg
      /\ lsbFirst' = lsbFirst
  BY DEF WriteBit
<1>3. /\ nbits' \in 0..(Bits - 1) /\ byteIdx' \in 0..Length(reg')
      /\ ~(byteIdx' < Length(reg')) => edges' = Bits + Bits * Length(reg')
      /\ Counted'
  BY <1>1, <1>2, Advanced
<1>4. control \in BOOLEAN /\ offset \in Times /\ reg \in Regs /\ lsbFirst \in BOOLEAN
  BY DEF ClockInv, ClockTypes
<1>5. control' \in BOOLEAN /\ offset' \in Times
  BY <1>4 DEF WriteBit
<1>6. ClockTypes'
  BY <1>1, <1>2, <1>3, <1>4, <1>5 DEF ClockTypes
<1>7. KeepsLatch' /\ LastBitOut'
  BY <1>1, <1>2 DEF KeepsLatch, LastBitOut
<1>8. SetWhole
  <2>1. reg \in 1..3
    BY <1>1, <1>2, <1>4, Lengths DEF ClockInv, ClockTypes
  <2>2. reg' \in 0..3
    BY <1>2, <2>1
  <2>3. byteIdx' < Length(reg') => <<control, offset>>' = <<control, offset>>
    BY <1>2 DEF WriteBit
  <2>4. QED BY <1>1, <1>3, <2>2, <2>3 DEF SetWhole
<1>9. QED BY <1>3, <1>6, <1>7, <1>8 DEF ClockInv

\* A bit that the guest reads of a register.
LEMMA ReadEdge ==
  ASSUME ClockInv, NEW p \in SUBSET GuestPins, ClockWrite(p), Rises(p),
         PhaseOn(p) = "read", ReadBit
  PROVE ClockInv' /\ SetWhole
<1>1. /\ phase = "read" /\ cs' = TRUE /\ sck' \in BOOLEAN
      /\ edges' \in 0..AllBits /\ Bits \in Nat \ {0} /\ AllBits \in Nat
  BY EdgeComes
<1>2. /\ byteIdx < Length(reg) /\ Advance
      /\ sioOut' = <<buffer, byteIdx, BitPos>>
      /\ UNCHANGED <<phase, reg, lsbFirst, buffer, control, offset, asked>>
  BY DEF ReadBit
<1>3. /\ nbits' \in 0..(Bits - 1) /\ byteIdx' \in 0..Length(reg')
      /\ Bits * byteIdx \in Nat
      /\ edges' - Bits = Bits * byteIdx + nbits + 1
      /\ Counted'
  <2>1. phase' = phase /\ reg' = reg
    BY <1>2
  <2>2. QED BY <1>1, <1>2, <2>1, Advanced
<1>4. /\ control \in BOOLEAN /\ offset \in Times /\ reg \in Regs /\ lsbFirst \in BOOLEAN
      /\ nbits \in 0..(Bits - 1) /\ byteIdx \in 0..Length(reg) /\ Length(reg) \in Nat
  BY Lengths DEF ClockInv, ClockTypes
<1>5. ClockTypes'
  BY <1>1, <1>2, <1>3, <1>4 DEF ClockTypes
<1>6. buffer = asked /\ KeepsLatch'
  BY <1>1, <1>2 DEF KeepsLatch, ClockInv
<1>7. LastBitOut'
  <2>1. byteIdx \in Nat
    BY <1>4
  <2>2. (edges' - Bits) - 1 = Bits * byteIdx + nbits
    <3>1. nbits \in Nat /\ Bits \in Nat /\ edges' \in Nat
      BY <1>1, <1>4
    <3>2. QED BY <3>1, <1>3, OneLess
  <2>3. /\ ((edges' - Bits) - 1) \div Bits = byteIdx
        /\ ((edges' - Bits) - 1) % Bits = nbits
    BY <1>1, <1>4, <2>1, <2>2, BitAndByte
  <2>4. sioOut' = <<asked, byteIdx, IF lsbFirst THEN nbits ELSE Bits - 1 - nbits>>
    BY <1>2, <1>6 DEF BitPos
  <2>5. BitOf(asked, edges - Bits)' = sioOut'
    BY <1>2, <2>3, <2>4 DEF BitOf
  <2>6. QED BY <2>5 DEF LastBitOut
<1>8. SetWhole
  BY <1>2 DEF SetWhole
<1>9. QED BY <1>3, <1>5, <1>6, <1>7, <1>8 DEF ClockInv

\* A bit beyond the register.
LEMMA NoBitEdge ==
  ASSUME ClockInv, NEW p \in SUBSET GuestPins, ClockWrite(p), Rises(p), NoBit(PhaseOn(p))
  PROVE ClockInv' /\ SetWhole
<1>1. /\ PhaseOn(p) # "command" /\ byteIdx = Length(reg)
      /\ UNCHANGED <<phase, nbits, byteIdx, reg, lsbFirst, buffer, sioOut, control, offset, asked>>
  BY DEF NoBit
<1>2. /\ phase' = phase /\ phase \in {"read", "write"}
      /\ cs' = TRUE /\ sck' \in BOOLEAN
      /\ edges' \in 0..AllBits /\ edges' = Another(edges)
      /\ Bits \in Nat \ {0} /\ Length(reg) \in Nat /\ AllBits \in Nat
  BY <1>1, EdgeComes
<1>3. /\ control \in BOOLEAN /\ offset \in Times /\ reg \in Regs /\ lsbFirst \in BOOLEAN
      /\ nbits \in 0..(Bits - 1) /\ byteIdx \in 0..Length(reg) /\ edges \in 0..AllBits
  BY DEF ClockInv, ClockTypes
<1>4. ClockTypes'
  BY <1>1, <1>2, <1>3 DEF ClockTypes, Length
<1>5. nbits = 0 /\ edges >= Bits + Bits * Length(reg)
  BY <1>1, <1>2 DEF ClockInv, Counted
<1>6. edges' >= Bits + Bits * Length(reg) /\ (edges' = edges \/ edges' > Bits + Bits * Length(reg))
  <2> DEFINE whole == Bits + Bits * Length(reg)
  <2>1. whole \in Nat /\ edges >= whole
    BY <1>2, <1>5
  <2>2. edges' >= whole /\ (edges' = edges \/ edges' > whole)
    <3> HIDE DEF whole
    <3>1. QED BY <1>2, <1>3, <2>1 DEF Another
  <2>3. QED BY <2>2
<1>7. Length(reg') = Length(reg) /\ ~(byteIdx' < Length(reg'))
  BY <1>1, <1>2
<1>8. Counted'
  <2>1. edges' >= Bits + Bits * Length(reg')
    BY <1>6, <1>7
  <2>2. QED BY <1>1, <1>2, <1>5, <1>7, <2>1 DEF Counted
<1>9. KeepsLatch'
  BY <1>1, <1>2 DEF KeepsLatch, ClockInv
<1>10. LastBitOut'
  <2>1. CASE edges' = edges
    BY <1>1, <1>2, <2>1 DEF LastBitOut, ClockInv, BitOf, Length
  <2>2. CASE edges' > Bits + Bits * Length(reg)
    <3> DEFINE whole == Bits * Length(reg)
    <3>1. whole \in Nat /\ edges' > Bits + whole
      BY <1>2, <2>2
    <3>2. ~(edges' - Bits <= whole)
      <4> HIDE DEF whole
      <4>1. QED BY <1>2, <3>1
    <3>3. Bits' * Length(reg') = whole
      BY <1>7
    <3>4. QED BY <3>2, <3>3, <1>7 DEF LastBitOut
  <2>3. QED BY <1>6, <2>1, <2>2
<1>11. SetWhole
  BY <1>1 DEF SetWhole
<1>12. QED BY <1>4, <1>8, <1>9, <1>10, <1>11 DEF ClockInv

\* Every write of the pins keeps the clock's invariant, and sets the clock only
\* with the last bit of a whole command.
LEMMA ClockStep ==
  ASSUME ClockInv, NEW p \in SUBSET GuestPins, ClockWrite(p)
  PROVE ClockInv' /\ SetWhole
<1>1. CASE ~Rises(p)
  BY <1>1, NoEdge
<1>2. CASE Rises(p)
  <2>1. ClockBit(p)
    BY <1>2, EdgeComes
  <2>2. CASE PhaseOn(p) = "command" /\ CommandBit(CountOn(p))
    BY <1>2, <2>2, CommandEdge
  <2>3. CASE PhaseOn(p) = "write" /\ WriteBit
    BY <1>2, <2>3, WriteEdge
  <2>4. CASE PhaseOn(p) = "read" /\ ReadBit
    BY <1>2, <2>4, ReadEdge
  <2>5. CASE NoBit(PhaseOn(p))
    BY <1>2, <2>5, NoBitEdge
  <2>6. QED BY <2>1, <2>2, <2>3, <2>4, <2>5 DEF ClockBit
<1>3. QED BY <1>1, <1>2

-----------------------------------------------------------------------------
\* The gyroscope

\* A pair is not the empty tuple, and has its parts.
LEMMA Pairs ==
  ASSUME NEW v, NEW n
  PROVE /\ <<v>> # Nobody /\ <<v>>[1] = v
        /\ <<v, n>> # Nobody /\ <<v, n>>[1] = v /\ <<v, n>>[2] = n
  BY DEF Nobody

\* Every write of the pins keeps the gyroscope's invariant.
LEMMA GyroStep ==
  ASSUME SampleOut, edges \in 0..AllBits, NEW p \in SUBSET GuestPins, GyroWrite(p)
  PROVE SampleOut' /\ edges' \in 0..AllBits /\ clockHigh' \in BOOLEAN
<1>1. /\ SampleBits \in Nat \ {0} /\ AllBits \in Nat /\ SampleBits <= AllBits
  <2>1. 0 \in Regs
    BY DEF Regs
  <2>2. QED BY <2>1, GpioAssumption, Lengths
<1>2. clockHigh' \in BOOLEAN
  <2>1. clockHigh' = (1 \in p)
    BY DEF GyroWrite
  <2>2. CASE 1 \in p
    BY <2>1, <2>2
  <2>3. CASE 1 \notin p
    BY <2>1, <2>3
  <2>4. QED BY <2>2, <2>3
<1>3. CASE 0 \in p
  <2>1. /\ asked' = <<tilt>> /\ edges' = 0
        /\ output' = TopBit(<<tilt, 0>>) /\ shift' = Shifted(<<tilt, 0>>)
    BY <1>3 DEF GyroWrite
  <2>2. output' = <<tilt, 0>> /\ shift' = <<tilt, 1>>
    BY <1>1, <2>1, Pairs DEF TopBit, Shifted
  <2>3. SampleOut'
    <3>1. asked' # Nobody /\ shift' # Nobody /\ asked'[1] = tilt
      BY <2>1, <2>2, Pairs
    <3>2. edges' < SampleBits /\ edges' + 1 = 1
      BY <1>1, <2>1
    <3>3. QED BY <2>1, <2>2, <3>1, <3>2 DEF SampleOut, Nobody
  <2>4. QED BY <1>1, <1>2, <2>1, <2>3
<1>4. CASE 0 \notin p /\ clockHigh /\ 1 \notin p /\ asked # Nobody
  <2>1. /\ asked' = asked /\ edges' = Another(edges) /\ shift # Nobody
        /\ output' = TopBit(shift) /\ shift' = Shifted(shift)
    <3>1. shift # Nobody
      BY <1>4 DEF SampleOut
    <3>2. QED BY <1>4, <3>1 DEF GyroWrite
  <2>2. shift = <<asked[1], IF edges < SampleBits THEN edges + 1 ELSE SampleBits>>
    BY <1>4 DEF SampleOut
  <2>3. edges' \in 0..AllBits
    BY <1>1, <2>1 DEF Another
  <2>4. CASE edges + 1 < SampleBits
    <3>1. shift = <<asked[1], edges + 1>> /\ edges' = edges + 1
      BY <1>1, <2>1, <2>2, <2>4 DEF Another
    <3>2. shift[1] = asked[1] /\ shift[2] = edges + 1
      BY <3>1, Pairs
    <3>3. output' = <<asked[1], edges + 1>> /\ shift' = <<asked[1], (edges + 1) + 1>>
      BY <1>1, <2>1, <2>4, <3>1, <3>2 DEF TopBit, Shifted
    <3>4. SampleOut'
      <4>1. edges' < SampleBits
        BY <2>4, <3>1
      <4>2. shift' # Nobody /\ asked' # Nobody
        BY <1>4, <2>1, <3>3, Pairs
      <4>3. QED BY <2>1, <3>1, <3>3, <4>1, <4>2 DEF SampleOut, Nobody
    <3>5. QED BY <1>2, <2>3, <3>4
  <2>5. CASE ~(edges + 1 < SampleBits)
    <3>1. shift = <<asked[1], SampleBits>>
      <4>1. edges < SampleBits => edges + 1 = SampleBits
        BY <1>1, <2>5
      <4>2. QED BY <2>2, <4>1
    <3>2. shift[1] = asked[1] /\ shift[2] = SampleBits
      BY <3>1, Pairs
    <3>3. output' = Nobody /\ shift' = <<asked[1], SampleBits>>
      BY <2>1, <3>2 DEF TopBit, Shifted
    <3>4. ~(edges' < SampleBits)
      BY <1>1, <2>1, <2>5 DEF Another
    <3>5. SampleOut'
      <4>1. shift' # Nobody /\ asked' # Nobody
        BY <1>4, <2>1, <3>3, Pairs
      <4>2. QED BY <2>1, <3>3, <3>4, <4>1 DEF SampleOut, Nobody
    <3>6. QED BY <1>2, <2>3, <3>5
  <2>6. QED BY <2>4, <2>5
<1>5. CASE 0 \notin p /\ ~(clockHigh /\ 1 \notin p /\ asked # Nobody)
  <2>1. asked' = asked /\ edges' = edges
    BY <1>5 DEF GyroWrite
  <2>2. ~(clockHigh /\ 1 \notin p /\ shift # Nobody)
    BY <1>5 DEF SampleOut
  <2>3. UNCHANGED <<output, shift>>
    BY <1>5, <2>2 DEF GyroWrite
  <2>4. SampleOut'
    BY <2>1, <2>3 DEF SampleOut, Nobody
  <2>5. QED BY <1>2, <2>1, <2>4
<1>6. QED BY <1>3, <1>4, <1>5

-----------------------------------------------------------------------------
\* The solar sensor

\* Every write of the pins keeps the sensor's types.
LEMMA SolarTyped ==
  ASSUME SolarTypes, light \in Lights, NEW p \in SUBSET GuestPins, SolarWrite(p)
  PROVE SolarTypes'
<1>1. Counts \in Nat \ {0, 1} /\ Darkest \in Nat /\ light \in 0..Darkest
  BY GpioAssumption
<1>2. selected' \in BOOLEAN
  BY DEF SolarWrite
<1>3. CASE 2 \in p
  BY <1>2, <1>3 DEF SolarWrite, SolarTypes
<1>4. CASE 2 \notin p
  <2>1. /\ threshold' = IF 1 \in p THEN Darkest - light ELSE threshold
        /\ counter' = IF 0 \in p /\ (1 \in p \/ clockLow)
                      THEN ((IF 1 \in p THEN 0 ELSE counter) + 1) % Counts
                      ELSE IF 1 \in p THEN 0 ELSE counter
        /\ clockLow' = (0 \notin p)
    BY <1>4 DEF SolarWrite
  <2>2. threshold' \in 0..Darkest
    BY <1>1, <2>1 DEF SolarTypes
  <2>3. counter' \in 0..(Counts - 1)
    <3>1. counter \in Nat /\ counter < Counts
      BY <1>1 DEF SolarTypes
    <3>2. \A n \in Nat : n % Counts \in 0..(Counts - 1)
      BY <1>1
    <3>3. 1 % Counts \in 0..(Counts - 1) /\ (counter + 1) % Counts \in 0..(Counts - 1)
      BY <3>1, <3>2
    <3>4. QED BY <1>1, <2>1, <3>1, <3>3 DEF SolarTypes
  <2>4. clockLow' \in BOOLEAN
    BY <2>1
  <2>5. QED BY <1>2, <2>2, <2>3, <2>4 DEF SolarTypes
<1>5. QED BY <1>3, <1>4

\* Every write of the pins keeps the sensor's count with the guest's.
LEMMA LightStep ==
  ASSUME LightOut, SolarTypes, NEW p \in SUBSET GuestPins, data' = p,
         SolarWrite(p), Reading(p)
  PROVE LightOut'
<1>1. selected' <=> 2 \notin data'
  BY DEF SolarWrite
<1>2. CASE 2 \in p
  <2>1. UNCHANGED <<counter, threshold, clockLow, lit, pulses>>
    BY <1>2 DEF SolarWrite, Reading
  <2>2. QED BY <1>1, <1>2, <2>1 DEF LightOut, Nobody
<1>3. CASE 2 \notin p /\ 1 \in p
  <2>1. lit' = <<light, p \cap {0}>> /\ pulses' = IF 0 \in p THEN 1 ELSE 0
    BY <1>3 DEF Reading
  <2>2. lit'[1] = light /\ lit'[2] = p \cap {0}
    BY <2>1
  <2>3. /\ threshold' = Darkest - light /\ clockLow' = (0 \notin p)
        /\ counter' = IF 0 \in p THEN (0 + 1) % Counts ELSE 0
    BY <1>3 DEF SolarWrite
  <2>4. (0 + 1) % Counts = 1
    BY GpioAssumption
  <2>5. QED BY <1>1, <2>1, <2>2, <2>3, <2>4 DEF LightOut
<1>4. CASE 2 \notin p /\ 1 \notin p /\ lit' # Nobody
  <2>1. /\ lit # Nobody /\ ~(2 \in data /\ lit[2] # p \cap {0})
        /\ lit' = <<lit[1], p \cap {0}>>
        /\ pulses' = IF 0 \in p /\ 0 \notin data /\ 2 \notin data
                     THEN (pulses + 1) % Counts ELSE pulses
    BY <1>4 DEF Reading
  <2>2. lit'[1] = lit[1] /\ lit'[2] = p \cap {0}
    BY <2>1
  <2>3. /\ threshold' = threshold /\ clockLow' = (0 \notin p)
        /\ counter' = IF 0 \in p /\ clockLow THEN (counter + 1) % Counts ELSE counter
    BY <1>4 DEF SolarWrite
  <2>4. /\ threshold = Darkest - lit[1] /\ counter = pulses
        /\ (clockLow <=> lit[2] = {}) /\ (2 \notin data => lit[2] = data \cap {0})
    BY <2>1 DEF LightOut
  <2>5. 0 \in p /\ clockLow <=> 0 \in p /\ 0 \notin data /\ 2 \notin data
    BY <2>1, <2>4
  <2>6. counter' = pulses'
    BY <2>1, <2>3, <2>4, <2>5
  <2>7. (clockLow' <=> lit'[2] = {}) /\ lit'[2] \in SUBSET {0}
    BY <2>2, <2>3
  <2>8. QED BY <1>1, <2>2, <2>3, <2>4, <2>6, <2>7 DEF LightOut
<1>5. CASE lit' = Nobody
  BY <1>5 DEF LightOut, Nobody
<1>6. QED BY <1>2, <1>3, <1>4, <1>5

-----------------------------------------------------------------------------
\* The cartridge

\* The invariant holds at the start.
LEMMA Start ==
  ASSUME GpioInit PROVE IInv
<1>1. 0 \in Regs /\ Length(0) = 0 /\ Bits \in Nat \ {0} /\ AllBits \in Nat /\ 0 \in Times
  <2>1. 0 \in Regs
    BY DEF Regs
  <2>2. 0 \in Times
    BY GpioAssumption DEF Times
  <2>3. QED BY <2>1, <2>2, GpioAssumption, Lengths DEF Length
<1>2. PortTypes
  BY <1>1 DEF GpioInit, PortTypes, Pin
<1>3. Held
  <2>1. /\ driven = [b \in Pin |-> Nobody] /\ sioOut = Nobody /\ output = Nobody
        /\ selected = FALSE
    BY DEF GpioInit
  <2>2. \A b \in Pin : (IF b \in dir THEN Nobody ELSE Drives(b)) = Nobody
    BY <2>1 DEF Drives
  <2>3. QED BY <2>1, <2>2 DEF Held, Latched
<1>4. ClockTypes
  <2>1. /\ sck = FALSE /\ cs = FALSE /\ lsbFirst = FALSE /\ phase = "idle"
        /\ nbits = 0 /\ reg = 0 /\ byteIdx = 0 /\ control = FALSE /\ offset = 0 /\ edges = 0
    BY DEF GpioInit
  <2>2. byteIdx \in 0..Length(reg) /\ nbits \in 0..(Bits - 1) /\ edges \in 0..AllBits
    BY <1>1, <2>1
  <2>3. QED BY <1>1, <2>1, <2>2 DEF ClockTypes
<1>5. ClockInv
  BY <1>4 DEF GpioInit, ClockInv, Counted, KeepsLatch, LastBitOut
<1>6. phase = "idle" /\ SampleOut
  BY DEF GpioInit, SampleOut
<1>7. SolarTypes /\ LightOut
  <2>1. Counts \in Nat /\ Counts > 1 /\ Darkest \in Nat
    BY GpioAssumption
  <2>2. counter = 0 /\ threshold = Darkest /\ clockLow = FALSE /\ selected = FALSE
        /\ lit = Nobody
    BY DEF GpioInit
  <2>3. 0 \in 0..(Counts - 1) /\ Darkest \in 0..Darkest
    BY <2>1
  <2>4. SolarTypes
    BY <2>2, <2>3 DEF SolarTypes
  <2>5. LightOut
    BY <2>2, Zenon DEF LightOut
  <2>6. QED BY <2>4, <2>5
<1>8. QED BY <1>2, <1>3, <1>4, <1>5, <1>6, <1>7 DEF IInv

\* What a write does to the solar sensor, if there is one.
LEMMA SunStep ==
  ASSUME IInv, NEW p \in SUBSET GuestPins, WriteData(p)
  PROVE SolarTypes' /\ (cart' = "sun" => LightOut')
<1>1. /\ SolarTypes /\ light \in Lights /\ cart' = cart /\ data' = p
      /\ cart = "sun" => LightOut
  BY DEF IInv, PortTypes, WriteData
<1>2. CASE cart = "sun"
  <2>1. SolarWrite(p) /\ Reading(p)
    BY <1>2 DEF WriteData
  <2>2. QED BY <1>1, <1>2, <2>1, SolarTyped, LightStep
<1>3. CASE cart # "sun"
  <2>1. UNCHANGED solarVars
    BY <1>3 DEF WriteData
  <2>2. QED BY <1>1, <1>3, <2>1 DEF SolarTypes, solarVars
<1>4. QED BY <1>2, <1>3

\* One step of the cartridge keeps the invariant, and sets the clock only with a
\* whole write.
LEMMA Step ==
  ASSUME IInv, [GpioNext]_gpioVars PROVE IInv' /\ SetWhole
<1>0. PortTypes /\ Held /\ ClockTypes /\ SolarTypes
  BY DEF IInv
<1>1. ASSUME NEW p \in SUBSET GuestPins, WriteData(p) PROVE IInv' /\ SetWhole
  <2>1. UNCHANGED <<cart, dir, enabled, elapsed, tilt, light>> /\ data' = p /\ Held'
    BY <1>1 DEF WriteData, Latch, Held, hostVars
  <2>2. data' \subseteq Pin
    BY <2>1, GpioAssumption DEF Pin
  <2>3. SolarTypes' /\ (cart' = "sun" => LightOut')
    BY <1>1, SunStep
  <2>4. CASE HasClock /\ ClockWrite(p) /\ UNCHANGED gyroVars
    <3>1. ClockInv' /\ SetWhole
      BY <2>4, ClockStep DEF IInv
    <3>2. PortTypes'
      BY <1>0, <2>1, <2>2, <2>4 DEF PortTypes, gyroVars
    <3>3. cart' # "gyro"
      BY <2>1, <2>4 DEF HasClock
    <3>4. QED BY <2>1, <2>3, <3>1, <3>2, <3>3 DEF IInv, ClockInv
  <2>5. CASE cart = "gyro" /\ GyroWrite(p) /\ UNCHANGED clockVars
    <3>1. edges \in 0..AllBits
      BY <1>0 DEF ClockTypes
    <3>2. SampleOut' /\ edges' \in 0..AllBits /\ clockHigh' \in BOOLEAN
      BY <2>5, <3>1, GyroStep DEF IInv
    <3>3. PortTypes'
      BY <1>0, <2>1, <2>2, <3>2 DEF PortTypes
    <3>4. ClockTypes'
      BY <1>0, <2>5, <3>2 DEF ClockTypes, clockVars, Length
    <3>5. phase' = "idle"
      BY <2>5 DEF IInv, clockVars
    <3>6. SetWhole
      BY <2>5 DEF SetWhole, clockVars
    <3>7. ~HasClock' /\ cart' # "sun"
      BY <2>1, <2>5 DEF HasClock
    <3>8. QED BY <2>1, <2>3, <3>2, <3>3, <3>4, <3>5, <3>6, <3>7 DEF IInv
  <2>6. QED BY <1>1, <2>4, <2>5 DEF WriteData
<1>2. ASSUME UNCHANGED <<cart, data, chipVars>>, PortTypes', Held'
      PROVE IInv' /\ SetWhole
  <2>0. UNCHANGED clockVars /\ UNCHANGED gyroVars /\ UNCHANGED solarVars
        /\ UNCHANGED <<cart, data, asked, edges>> /\ HasClock' = HasClock
    BY <1>2 DEF chipVars, HasClock
  <2>1. ClockTypes' /\ SolarTypes' /\ SetWhole
    BY <1>0, <2>0 DEF ClockTypes, SolarTypes, clockVars, solarVars, Length, SetWhole
  <2>2. ClockInv => ClockInv'
    BY <2>0, <2>1 DEF ClockInv, Counted, KeepsLatch, LastBitOut, BitOf, clockVars, Length
  <2>3. SampleOut => SampleOut'
    BY <2>0 DEF SampleOut, gyroVars, Nobody
  <2>4. phase' = phase
    BY <2>0 DEF clockVars
  <2>5. LightOut => LightOut'
    BY <2>0 DEF LightOut, solarVars, Nobody
  <2>6. QED BY <1>2, <2>0, <2>1, <2>2, <2>3, <2>4, <2>5 DEF IInv
<1>3. ASSUME UNCHANGED <<cart, data, chipVars, dir, driven>>
      PROVE Held'
  <2>1. UNCHANGED <<cart, dir, driven, sioOut, output, selected, counter, threshold>>
    BY <1>3 DEF chipVars, clockVars, gyroVars, solarVars
  <2>2. QED BY <1>0, <2>1 DEF Held, Latched, Drives, HasClock
<1>4. ASSUME NEW d \in Directions, WriteDirection(d) PROVE IInv' /\ SetWhole
  <2>1. clockHigh' = clockHigh
    BY <1>4 DEF WriteDirection, chipVars, gyroVars
  <2>2. PortTypes' /\ Held'
    BY <1>0, <1>4, <2>1, GpioAssumption
       DEF WriteDirection, PortTypes, Latch, Held, Pin, hostVars
  <2>3. QED BY <1>2, <1>4, <2>2 DEF WriteDirection
<1>5. ASSUME UNCHANGED <<cart, portVars, chipVars>>, elapsed' \in Times, tilt' \in Samples,
             light' \in Lights
      PROVE IInv' /\ SetWhole
  <2>1. Held' /\ UNCHANGED <<data, dir, enabled, clockHigh>>
    BY <1>3, <1>5 DEF portVars, chipVars, gyroVars
  <2>2. PortTypes'
    BY <1>0, <1>5, <2>1 DEF PortTypes
  <2>3. QED BY <1>2, <1>5, <2>1, <2>2
<1>6. ASSUME NEW on \in BOOLEAN, WriteControl(on) PROVE IInv' /\ SetWhole
  <2>1. Held' /\ clockHigh' = clockHigh
    BY <1>3, <1>6 DEF WriteControl, chipVars, gyroVars
  <2>2. PortTypes'
    BY <1>0, <1>6, <2>1 DEF WriteControl, PortTypes, hostVars
  <2>3. QED BY <1>2, <1>6, <2>1, <2>2 DEF WriteControl
<1>7. ASSUME Tick PROVE IInv' /\ SetWhole
  <2>1. elapsed' \in Times
    BY <1>0, <1>7, GpioAssumption DEF Tick, PortTypes, Times
  <2>2. QED BY <1>0, <1>5, <1>7, <2>1 DEF Tick, PortTypes
<1>8. ASSUME NEW v \in Samples, Tilt(v) PROVE IInv' /\ SetWhole
  BY <1>0, <1>5, <1>8 DEF Tilt, PortTypes
<1>9. ASSUME NEW v \in Lights, Shine(v) PROVE IInv' /\ SetWhole
  BY <1>0, <1>5, <1>9 DEF Shine, PortTypes
<1>10. CASE UNCHANGED gpioVars
  <2>1. UNCHANGED <<cart, portVars, chipVars, elapsed, tilt, light>>
    BY <1>10 DEF gpioVars, hostVars, chipVars
  <2>2. QED BY <1>0, <1>5, <2>1 DEF PortTypes
<1>11. QED BY <1>1, <1>4, <1>6, <1>7, <1>8, <1>9, <1>10 DEF GpioNext

\* The invariant holds in every reachable state.
THEOREM Invariance == GpioSpec => []IInv
<1>1. GpioInit => IInv
  BY Start
<1>2. IInv /\ [GpioNext]_gpioVars => IInv'
  BY Step
<1>3. QED BY <1>1, <1>2, PTL DEF GpioSpec

-----------------------------------------------------------------------------
\* What the pins show

\* Every variable keeps its type, the chip selected exactly when it is not idle
\* (gba_rtc.cpp:168-183).
THEOREM TypeCorrect == GpioSpec => []GpioTypeOK
<1>1. IInv => GpioTypeOK
  <2> SUFFICES ASSUME IInv PROVE GpioTypeOK
    OBVIOUS
  <2>1. PortTypes /\ ClockTypes /\ SolarTypes /\ Held
    BY DEF IInv
  <2>2. DOMAIN driven = Pin
    BY <2>1 DEF Held, Latched
  <2>3. QED BY <2>1, <2>2 DEF GpioTypeOK, PortTypes, ClockTypes, SolarTypes
<1>2. QED BY <1>1, Invariance, PTL

\* A level the guest reads on an input pin is the one the chip drives now.
LEMMA PinShowsChip ==
  ASSUME Held, NEW b \in Pin, b \notin dir, enabled
  PROVE Reads(b) = Drives(b)
  BY DEF Held, Latched, Reads

\* The guest reads a register of the clock as it was at its command, for bytes and
\* registers of any length (gba_rtc.cpp:200-206, 251-258; gba_gpio.cpp:61-68).
THEOREM ReadIsOneInstant == GpioSpec => []ReadsOneInstant
<1>1. IInv => ReadsOneInstant
  <2> SUFFICES ASSUME IInv, phase = "read", edges - Bits > 0,
                      edges - Bits <= Bits * Length(reg), enabled, 1 \notin dir
               PROVE Reads(1) = BitOf(asked, edges - Bits)
    BY DEF ReadsOneInstant
  <2>1. HasClock /\ ClockInv /\ Held
    BY DEF IInv, PortTypes, HasClock
  <2>2. sioOut = BitOf(asked, edges - Bits)
    BY <2>1 DEF ClockInv, LastBitOut
  <2>3. Reads(1) = Drives(1)
    BY <2>1, PinShowsChip DEF Pin
  <2>4. QED BY <2>1, <2>2, <2>3 DEF Drives
<1>2. QED BY <1>1, Invariance, PTL

\* The clock is set by the last bit of a whole write or by a reset command, and by
\* nothing else (gba_rtc.cpp:173-179, 216-223, 288-318).
THEOREM OnlyAWholeWriteSets == GpioSpec => SetOnlyByWholeWrite
<1>1. IInv /\ [GpioNext]_gpioVars =>
        [ <<control, offset>>' # <<control, offset>> =>
            /\ cs'
            /\ edges' = Bits + Bits * Length(reg')
            /\ reg' \in 0..3 ]_gpioVars
  BY Step DEF SetWhole
<1>2. QED BY <1>1, Invariance, PTL DEF GpioSpec, SetOnlyByWholeWrite

\* The guest shifts out the position at the strobe, highest bit first, for samples
\* of any length (gba_gyro.cpp:67-85), and the solar sensor trips at the pulse that
\* the light at its reset calls for, for any counter (gba_solar.cpp:40-70).
THEOREM ReadIsOneSample == GpioSpec => []ReadsOneSample
<1>1. ASSUME IInv, cart = "gyro", asked # Nobody, enabled, 2 \notin dir
      PROVE Reads(2) = IF edges < SampleBits THEN <<asked[1], edges>> ELSE Nobody
  <2>1. SampleOut /\ Held
    BY <1>1 DEF IInv
  <2>2. Reads(2) = Drives(2)
    BY <1>1, <2>1, PinShowsChip DEF Pin
  <2>3. Drives(2) = output
    BY <1>1 DEF Drives, HasClock
  <2>4. QED BY <1>1, <2>1, <2>2, <2>3 DEF SampleOut
<1>2. ASSUME IInv, cart = "sun", lit # Nobody, 2 \notin data, enabled, 3 \notin dir
      PROVE Reads(3) = Trips <=> pulses >= Darkest - lit[1]
  <2>1. LightOut /\ Held
    BY <1>2 DEF IInv
  <2>2. Reads(3) = Drives(3)
    BY <1>2, <2>1, PinShowsChip DEF Pin
  <2>3. selected /\ counter = pulses /\ threshold = Darkest - lit[1]
    BY <1>2, <2>1 DEF LightOut
  <2>4. Drives(3) = IF pulses >= Darkest - lit[1] THEN Trips ELSE Nobody
    BY <1>2, <2>3 DEF Drives
  <2>5. Trips # Nobody
    BY DEF Trips, Nobody
  <2>6. QED BY <2>2, <2>4, <2>5
<1>3. IInv => ReadsOneSample
  BY <1>1, <1>2 DEF ReadsOneSample
<1>4. QED BY <1>3, Invariance, PTL
=============================================================================
