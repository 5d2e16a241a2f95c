------------------------------ MODULE CartGpio ------------------------------
(***************************************************************************)
(* The cartridge's four GPIO pins (gba/gba_gpio.cpp) and the serial chips on *)
(* them: the Seiko clock (gba/gba_rtc.cpp), alone or with the solar sensor   *)
(* (gba/gba_solar.cpp), or the gyroscope (gba/gba_gyro.cpp).  The guest      *)
(* bit-bangs the pins; every write reaches every chip, and the port then     *)
(* holds the levels the chips drive until the next write.                    *)
(*                                                                         *)
(* A bit the guest reads is the pair of the value it belongs to and its      *)
(* place in it; the bits it sends are abstract, so a command byte selects    *)
(* any register in either bit order, as any byte does in the code.  Time is  *)
(* counted modulo Wrap.                                                     *)
(***************************************************************************)
EXTENDS Naturals

CONSTANTS Bits,        \* bits in a byte of the clock's protocol (8)
          RegBytes,    \* bytes in its registers 1, 2 and 3 (1, 7 and 3)
          Wrap,        \* bound: times are 0..Wrap - 1
          SampleBits,  \* bits in a gyroscope sample (16)
          Samples,     \* the positions of the device
          Counts,      \* the values of the solar sensor's counter (4096)
          Darkest,     \* its threshold in the dark (255)
          Lights,      \* the brightnesses that the host gives
          GuestPins,   \* the pins the guest writes
          Directions   \* the values it gives the direction register

ASSUME GpioAssumption ==
  /\ Bits \in Nat \ {0} /\ Wrap \in Nat \ {0} /\ SampleBits \in Nat \ {0}
  /\ RegBytes \in [1..3 -> Nat \ {0}]
  /\ SampleBits <= Bits * (1 + RegBytes[1] + RegBytes[2] + RegBytes[3])
  /\ Counts \in Nat \ {0, 1} /\ Darkest \in Nat /\ Lights \subseteq 0..Darkest
  /\ GuestPins \subseteq 0..3 /\ Directions \subseteq SUBSET (0..3)

VARIABLES
  cart,      \* the chips on the cartridge: the clock, the gyroscope, or the clock
             \* and the solar sensor
  data, dir, enabled,  \* GpioPort: data_, direction_ and read_enable_
  driven,    \* driven_, by pin
  sck, cs,   \* the clock's lines as last written
  phase, nbits, byteIdx, reg, lsbFirst,  \* its transaction
  buffer,    \* the register a read transaction latched
  sioOut,    \* the bit it drives
  control,   \* control_, reduced to two values
  offset,    \* offset_
  elapsed,   \* seconds since boot
  clockHigh, shift, output,  \* the gyroscope: clock_high_, shift_ and the bit driven
  tilt,      \* sample_offset_, set by the host
  counter, threshold, clockLow, selected,  \* the solar sensor's registers
  light,     \* what the host's light source would answer
  lit,       \* a light reading under way: its brightness and pin 0 as last seen
  pulses,    \* the rising edges of pin 0 since it began
  asked,     \* the value that the guest asked for last, when it asked
  edges      \* bits clocked since the chip was selected, or the sample taken

portVars  == <<data, dir, enabled, driven>>
clockVars == <<sck, cs, phase, nbits, byteIdx, reg, lsbFirst, buffer, sioOut,
               control, offset>>
gyroVars  == <<clockHigh, shift, output>>
solarVars == <<counter, threshold, clockLow, selected, lit, pulses>>
hostVars  == <<elapsed, tilt, light>>
gpioVars  == <<cart, portVars, clockVars, gyroVars, solarVars, hostVars, asked, edges>>

Pin   == 0..3
Nobody == <<>>     \* a pin that no chip drives reads 0; also an empty buffer
Now   == (elapsed + offset) % Wrap
Times == 0..(Wrap - 1)
Regs  == 0..4      \* 4 stands for the registers without data
Length(r) == IF r \in 1..3 THEN RegBytes[r] ELSE 0

GpioInit ==
  /\ cart \in {"clock", "gyro", "sun"}
  /\ data = {} /\ dir = {} /\ enabled = FALSE /\ driven = [b \in Pin |-> Nobody]
  /\ sck = FALSE /\ cs = FALSE /\ phase = "idle" /\ nbits = 0 /\ byteIdx = 0
  /\ reg = 0 /\ lsbFirst = FALSE /\ buffer = Nobody /\ sioOut = Nobody
  /\ control = FALSE /\ offset = 0 /\ elapsed = 0
  /\ clockHigh = FALSE /\ shift = Nobody /\ output = Nobody
  /\ tilt \in Samples /\ asked = Nobody /\ edges = 0
  /\ counter = 0 /\ threshold = Darkest /\ clockLow = FALSE /\ selected = FALSE
  /\ light \in Lights /\ lit = Nobody /\ pulses = 0

-----------------------------------------------------------------------------
\* The clock

\* CS rising starts a command; CS low ends whatever was under way.
PhaseOn(p) == IF 2 \notin p THEN "idle" ELSE IF ~cs THEN "command" ELSE phase

\* Mutant: the count of bits survives a transaction that CS broke off.
CountKept(p) == nbits

CountOn(p) == IF ~cs /\ 2 \in p THEN 0 ELSE nbits
Rises(p)   == 2 \in p /\ ~sck /\ 0 \in p

\* advance_byte, of n bits.
Advance ==
  IF nbits + 1 = Bits THEN nbits' = 0 /\ byteIdx' = byteIdx + 1
                      ELSE nbits' = nbits + 1 /\ UNCHANGED byteIdx

\* What a read latches: the control register, or the time as it is now.
Register(r) == IF r = 1 THEN <<"control", control>>
               ELSE IF r \in {2, 3} THEN <<"time", Now>> ELSE Nobody

\* Mutant: a command that writes goes on at the byte where the last one stopped.
DecodeInPlace ==
  \E r \in Regs, read \in BOOLEAN, lsb \in BOOLEAN :
    /\ reg' = r /\ lsbFirst' = ~lsb /\ nbits' = 0
    /\ IF read THEN byteIdx' = 0 ELSE UNCHANGED byteIdx
    /\ phase' = IF read THEN "read" ELSE "write"
    /\ buffer' = IF read THEN Register(r) ELSE Nobody
    /\ asked' = buffer'
    /\ UNCHANGED <<sioOut, control, offset>>

\* decode_command: register 0 resets the clock at once, for reads and writes.
DecodeCommand ==
  \E r \in Regs, read \in BOOLEAN, lsb \in BOOLEAN :
    /\ reg' = r /\ lsbFirst' = ~lsb /\ nbits' = 0 /\ byteIdx' = 0
    /\ phase' = IF read THEN "read" ELSE "write"
    /\ IF r = 0 THEN control' = FALSE /\ offset' = 0
                ELSE UNCHANGED <<control, offset>>
    /\ buffer' = IF read THEN Register(r) ELSE Nobody
    /\ asked' = buffer'
    /\ UNCHANGED sioOut

CommandBit(n) ==
  IF n + 1 = Bits
  THEN DecodeCommand
  ELSE /\ nbits' = n + 1 /\ phase' = "command"
       /\ UNCHANGED <<byteIdx, reg, lsbFirst, buffer, sioOut, control, offset, asked>>

\* The last bit commits the register; a date or a time becomes an offset.
WriteBit ==
  /\ byteIdx < Length(reg) /\ Advance
  /\ IF byteIdx' < Length(reg) THEN UNCHANGED <<control, offset>>
     ELSE IF reg = 1 THEN control' \in BOOLEAN /\ UNCHANGED offset
     ELSE offset' \in Times /\ UNCHANGED control
  /\ UNCHANGED <<phase, reg, lsbFirst, buffer, sioOut, asked>>

BitPos == IF lsbFirst THEN nbits ELSE Bits - 1 - nbits

\* Mutant: each byte is taken from the clock when its first bit is asked for.
ReadBitLive ==
  /\ byteIdx < Length(reg) /\ Advance
  /\ buffer' = IF nbits = 0 THEN Register(reg) ELSE buffer
  /\ sioOut' = <<buffer', byteIdx, BitPos>>
  /\ UNCHANGED <<phase, reg, lsbFirst, control, offset, asked>>

ReadBit ==
  /\ byteIdx < Length(reg) /\ Advance
  /\ sioOut' = <<buffer, byteIdx, BitPos>>
  /\ UNCHANGED <<phase, reg, lsbFirst, buffer, control, offset, asked>>

\* Bits beyond the register change nothing.
NoBit(ph) ==
  /\ ph # "command" /\ byteIdx = Length(reg)
  /\ UNCHANGED <<phase, nbits, byteIdx, reg, lsbFirst, buffer, sioOut, control,
                 offset, asked>>

ClockBit(p) ==
  \/ PhaseOn(p) = "command" /\ CommandBit(CountOn(p))
  \/ PhaseOn(p) = "write" /\ WriteBit
  \/ PhaseOn(p) = "read" /\ ReadBit
  \/ NoBit(PhaseOn(p))

\* Bound: edges are counted up to one more than the longest transaction.
AllBits == Bits + Bits * (RegBytes[1] + RegBytes[2] + RegBytes[3])
Another(n) == IF n = AllBits THEN n ELSE n + 1

\* GbaRtc::gpio_write
ClockWrite(p) ==
  /\ sck' = (0 \in p) /\ cs' = (2 \in p)
  /\ LET before == IF cs THEN edges ELSE 0
     IN edges' = IF Rises(p) THEN Another(before) ELSE before
  /\ IF Rises(p)
     THEN ClockBit(p)
     ELSE /\ phase' = PhaseOn(p) /\ nbits' = CountOn(p)
          /\ UNCHANGED <<byteIdx, reg, lsbFirst, buffer, sioOut, control, offset, asked>>

-----------------------------------------------------------------------------
\* The gyroscope

\* A sample is shifted out from its highest bit; <<value, n>> has lost n bits.
Shifted(s) == <<s[1], IF s[2] = SampleBits THEN s[2] ELSE s[2] + 1>>
TopBit(s)  == IF s[2] = SampleBits THEN Nobody ELSE s

\* Mutant: the position is sampled at every bit, not at the strobe.
GyroWriteLive(p) ==
  LET strobe == 0 \in p
      falls  == clockHigh /\ 1 \notin p
      from   == IF strobe THEN <<tilt, 0>> ELSE <<tilt, shift[2]>>
  IN /\ clockHigh' = (1 \in p)
     /\ asked' = IF strobe THEN <<tilt>> ELSE asked
     /\ edges' = IF strobe THEN 0 ELSE IF falls /\ asked # Nobody THEN Another(edges) ELSE edges
     /\ IF strobe \/ (falls /\ shift # Nobody)
        THEN output' = TopBit(from) /\ shift' = Shifted(from)
        ELSE UNCHANGED <<output, shift>>

\* GbaGyro::gpio_write: the strobe samples and gives the first bit, a falling
\* clock the next.  Before the first strobe the register holds 0.
GyroWrite(p) ==
  LET strobe == 0 \in p
      falls  == clockHigh /\ 1 \notin p
      from   == IF strobe THEN <<tilt, 0>> ELSE shift
  IN /\ clockHigh' = (1 \in p)
     /\ asked' = IF strobe THEN <<tilt>> ELSE asked
     /\ edges' = IF strobe THEN 0 ELSE IF falls /\ asked # Nobody THEN Another(edges) ELSE edges
     /\ IF strobe \/ (falls /\ shift # Nobody)
        THEN output' = TopBit(from) /\ shift' = Shifted(from)
        ELSE UNCHANGED <<output, shift>>

-----------------------------------------------------------------------------
\* The solar sensor

\* GbaSolarSensor::gpio_write: deaf while the clock is selected.  A reset samples
\* the light and counts the edge that may come with it.
SolarWrite(p) ==
  /\ selected' = (2 \notin p)
  /\ IF 2 \in p THEN UNCHANGED <<counter, threshold, clockLow>>
     ELSE LET reset == 1 \in p
              from  == IF reset THEN 0 ELSE counter
          IN /\ threshold' = IF reset THEN Darkest - light ELSE threshold
             /\ counter' = IF 0 \in p /\ (reset \/ clockLow) THEN (from + 1) % Counts
                                                             ELSE from
             /\ clockLow' = (0 \notin p)

\* The guest's view.  It may talk to the clock between two pulses, if it leaves
\* pin 0 as it found it; otherwise the reading is void.
Reading(p) ==
  IF 2 \in p THEN UNCHANGED <<lit, pulses>>
  ELSE IF 1 \in p
  THEN lit' = <<light, p \cap {0}>> /\ pulses' = IF 0 \in p THEN 1 ELSE 0
  ELSE IF lit = Nobody \/ (2 \in data /\ lit[2] # p \cap {0})
  THEN lit' = Nobody /\ pulses' = 0
  ELSE /\ lit' = <<lit[1], p \cap {0}>>
       /\ pulses' = IF 0 \in p /\ 0 \notin data /\ 2 \notin data
                    THEN (pulses + 1) % Counts ELSE pulses

-----------------------------------------------------------------------------
\* The port

HasClock == cart \in {"clock", "sun"}
Trips    == <<"lit">>    \* the level of the comparator when it has tripped

Drives(b) ==
  IF HasClock /\ b = 1 THEN sioOut
  ELSE IF cart = "gyro" /\ b = 2 THEN output
  ELSE IF cart = "sun" /\ b = 3 /\ selected /\ counter >= threshold THEN Trips
  ELSE Nobody

\* latch_driven: the levels the chips drive on the pins the guest does not.
Latched == [b \in Pin |-> IF b \in dir THEN Nobody ELSE Drives(b)]

Latch == driven' = Latched'

WriteData(p) ==
  /\ data' = p
  /\ \/ HasClock /\ ClockWrite(p) /\ UNCHANGED gyroVars
     \/ cart = "gyro" /\ GyroWrite(p) /\ UNCHANGED clockVars
  /\ IF cart = "sun" THEN SolarWrite(p) /\ Reading(p) ELSE UNCHANGED solarVars
  /\ UNCHANGED <<cart, dir, enabled, hostVars>>
  /\ Latch

chipVars == <<clockVars, gyroVars, solarVars, asked, edges>>

WriteDirection(d) ==
  /\ dir' = d
  /\ UNCHANGED <<cart, data, enabled, chipVars, hostVars>>
  /\ Latch

WriteControl(on) ==
  /\ enabled' = on
  /\ UNCHANGED <<cart, data, dir, driven, chipVars, hostVars>>

\* What the guest reads on a pin it does not drive (GpioPort::read); a port that
\* is not enabled reads as ROM.
Reads(b) == IF enabled /\ b \notin dir THEN driven[b] ELSE Nobody

\* The host's clock runs, the player moves, the sun comes out.
Tick ==
  /\ HasClock
  /\ elapsed' = (elapsed + 1) % Wrap
  /\ UNCHANGED <<cart, portVars, chipVars, tilt, light>>

Tilt(s) ==
  /\ cart = "gyro"
  /\ tilt' = s
  /\ UNCHANGED <<cart, portVars, chipVars, elapsed, light>>

Shine(l) ==
  /\ cart = "sun"
  /\ light' = l
  /\ UNCHANGED <<cart, portVars, chipVars, elapsed, tilt>>

GpioNext == \/ \E p \in SUBSET GuestPins : WriteData(p)
            \/ \E d \in Directions : WriteDirection(d)
            \/ \E on \in BOOLEAN : WriteControl(on)
            \/ Tick \/ (\E s \in Samples : Tilt(s)) \/ \E l \in Lights : Shine(l)

GpioSpec == GpioInit /\ [][GpioNext]_gpioVars
-----------------------------------------------------------------------------
\* Properties

GpioTypeOK ==
  /\ data \subseteq Pin /\ dir \subseteq Pin /\ enabled \in BOOLEAN
  /\ DOMAIN driven = Pin
  /\ sck \in BOOLEAN /\ cs \in BOOLEAN /\ lsbFirst \in BOOLEAN
  /\ phase \in {"idle", "command", "read", "write"} /\ (phase = "idle" <=> ~cs)
  /\ nbits \in 0..(Bits - 1) /\ reg \in Regs /\ byteIdx \in 0..Length(reg)
  /\ control \in BOOLEAN /\ offset \in Times /\ elapsed \in Times
  /\ clockHigh \in BOOLEAN /\ tilt \in Samples /\ edges \in 0..AllBits
  /\ counter \in 0..(Counts - 1) /\ threshold \in 0..Darkest
  /\ clockLow \in BOOLEAN /\ selected \in BOOLEAN /\ light \in Lights

\* The k-th bit of a register, as the order of the command asked for it.
BitOf(v, k) == <<v, (k - 1) \div Bits,
                 IF lsbFirst THEN (k - 1) % Bits ELSE Bits - 1 - ((k - 1) % Bits)>>

\* Whatever rolls over while the register is clocked out, and whatever transaction
\* was broken off before, the k-th bit the guest reads after a command is the k-th
\* bit of the register as it was at the command (gba_rtc.cpp:200-206, 251-258;
\* gba_gpio.cpp:61-68).
ReadsOneInstant ==
  LET k == edges - Bits
  IN (phase = "read" /\ k > 0 /\ k <= Bits * Length(reg) /\ enabled /\ 1 \notin dir) =>
       Reads(1) = BitOf(asked, k)

\* The clock and its control register change only with the last bit of a whole
\* write, sent without letting go of CS, or at a reset command: a transaction that
\* is broken off sets nothing (gba_rtc.cpp:173-179, 216-223, 288-318).
SetOnlyByWholeWrite ==
  [][ <<control, offset>>' # <<control, offset>> =>
        /\ cs'
        /\ edges' = Bits + Bits * Length(reg')
        /\ reg' \in 0..3 ]_gpioVars

\* A reading belongs to one sample.  The bits the guest shifts out of the gyroscope
\* are those of the position at its strobe, each once and from the highest, while
\* the player keeps moving (gba_gyro.cpp:67-85).  The solar sensor's comparator trips
\* at the pulse that the light at the reset calls for, while the light changes and
\* the guest talks to the clock on the same pins in between (gba_solar.cpp:40-70).
ReadsOneSample ==
  /\ (cart = "gyro" /\ asked # Nobody /\ enabled /\ 2 \notin dir) =>
       Reads(2) = IF edges < SampleBits THEN <<asked[1], edges>> ELSE Nobody
  /\ (cart = "sun" /\ lit # Nobody /\ 2 \notin data /\ enabled /\ 3 \notin dir) =>
       (Reads(3) = Trips <=> pulses >= Darkest - lit[1])
=============================================================================
