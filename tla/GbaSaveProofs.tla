--------------------------- MODULE GbaSaveProofs ---------------------------
(***************************************************************************)
(* Proofs about GbaSave, for every size of the three chips and every set of *)
(* commands a game may send.  The one place that needs an induction is the  *)
(* address of an EEPROM command, a number read from its bits: the induction *)
(* is on the least length for which it would fail.                          *)
(***************************************************************************)
EXTENDS GbaSave, TLAPS, WellFoundedInduction, SequenceTheorems

\* Every nonempty set of naturals has a least element.
LEMMA LeastNat ==
  ASSUME NEW T \in SUBSET Nat, T # {} PROVE \E x \in T : \A y \in T : x <= y
<1>1. IsWellFoundedOn({ss \in Nat \X Nat : ss[1] < ss[2]}, Nat)
  BY NatLessThanWellFounded DEF OpToRel
<1>2. PICK x \in T : \A y \in T : ~ (<<y, x>> \in {ss \in Nat \X Nat : ss[1] < ss[2]})
  BY <1>1, WFMin
<1>3. ASSUME NEW y \in T PROVE x <= y
  <2>1. <<y, x>> \in Nat \X Nat
    OBVIOUS
  <2>2. ~(y < x)
    BY <1>2, <2>1
  <2>3. QED
    BY <2>2
<1>4. QED
  BY <1>3

\* The value of the first i address bits, from the value of those before.
Digit(f, c, i) == IF i = 0 THEN 0 ELSE 2 * f[i - 1] + c[2 + i]

LEMMA NumberExists ==
  ASSUME NEW c, NEW N \in Nat, \A i \in 1..N : c[2 + i] \in Nat
  PROVE  \E f : f = [i \in 0..N |-> Digit(f, c, i)]
<1> DEFINE Good(n) == \E f : f = [i \in 0..n |-> Digit(f, c, i)]
           Bad == {n \in Nat : n <= N /\ ~Good(n)}
<1>1. SUFFICES ASSUME Bad # {} PROVE FALSE
  <2>1. ASSUME ~Good(N) PROVE N \in Bad
    BY <2>1
  <2>2. QED
    BY <2>1
<1>2. PICK n \in Bad : \A m \in Bad : n <= m
  BY <1>1, LeastNat
<1>3. CASE n = 0
  <2> DEFINE g == [i \in 0..0 |-> 0]
  <2>1. g = [i \in 0..0 |-> Digit(g, c, i)]
    BY DEF Digit
  <2>2. Good(0)
    BY <2>1
  <2>3. QED
    BY <1>3, <2>2
<1>4. CASE n # 0
  <2>1. n - 1 \in Nat /\ n - 1 \notin Bad /\ n - 1 <= N
    <3>1. n \in Nat /\ n <= N
      BY <1>2
    <3> HIDE DEF Bad
    <3>2. QED
      BY <1>2, <1>4, <3>1
  <2>2. PICK f : f = [i \in 0..(n - 1) |-> Digit(f, c, i)]
    BY <2>1
  <2> DEFINE g == [i \in 0..n |-> IF i = n THEN 2 * f[n - 1] + c[2 + n] ELSE f[i]]
  <2>3. ASSUME NEW i \in 0..n PROVE g[i] = Digit(g, c, i)
    <3>1. CASE i = n
      BY <1>4, <2>1, <3>1 DEF Digit
    <3>2. CASE i # n
      <4>1. i \in 0..(n - 1)
        BY <3>2
      <4>2. g[i] = Digit(f, c, i)
        BY <2>2, <3>2, <4>1
      <4>3. i # 0 => i - 1 \in 0..n /\ i - 1 # n
        BY <4>1
      <4>4. QED
        BY <4>2, <4>3 DEF Digit
    <3>3. QED
      BY <3>1, <3>2
  <2>4. g = [i \in 0..n |-> Digit(g, c, i)]
    BY <2>3
  <2>5. Good(n)
    BY <2>4
  <2>6. QED
    BY <2>5
<1>5. QED
  BY <1>3, <1>4

LEMMA NumberIsNat ==
  ASSUME NEW c, NEW N \in Nat, \A i \in 1..N : c[2 + i] \in Nat,
         NEW f, f = [i \in 0..N |-> Digit(f, c, i)]
  PROVE  f[N] \in Nat
<1> DEFINE Bad == {n \in Nat : n <= N /\ f[n] \notin Nat}
<1>1. SUFFICES ASSUME Bad # {} PROVE FALSE
  OBVIOUS
<1>2. PICK n \in Bad : \A m \in Bad : n <= m
  BY <1>1, LeastNat
<1>3. n \in 0..N /\ f[n] = Digit(f, c, n)
  OBVIOUS
<1>4. n # 0
  BY <1>3 DEF Digit
<1>5. n - 1 \in Nat /\ n - 1 <= N /\ n - 1 \notin Bad
  <2> HIDE DEF Bad
  <2> QED
    BY <1>2, <1>3, <1>4
<1>6. f[n - 1] \in Nat /\ c[2 + n] \in Nat
  BY <1>4, <1>5
<1>7. QED
  BY <1>3, <1>4, <1>6 DEF Digit

\* Whatever bits a command carries, the block it addresses is on the chip.
THEOREM AddressIsABlock ==
  ASSUME NEW c \in Seq(Bit), Len(c) >= 2 + AddrBits
  PROVE  Address(c) \in 0..Blocks - 1
<1>1. \A i \in 1..AddrBits : c[2 + i] \in Nat
  BY EepromAssumption DEF Bit
<1> DEFINE f == CHOOSE f : f = [i \in 0..AddrBits |-> Digit(f, c, i)]
<1>2. f = [i \in 0..AddrBits |-> Digit(f, c, i)]
  <2>1. AddrBits \in Nat
    BY EepromAssumption
  <2>2. \E g : g = [i \in 0..AddrBits |-> Digit(g, c, i)]
    BY <1>1, <2>1, NumberExists
  <2>3. QED
    BY <2>2, Zenon
<1> HIDE DEF f
<1>3. f[AddrBits] \in Nat
  BY <1>1, <1>2, NumberIsNat, EepromAssumption
<1>4. f[AddrBits] % Blocks \in 0..Blocks - 1
  BY <1>3, EepromAssumption
<1>5. Address(c) = f[AddrBits] % Blocks
  BY DEF Address, f, Digit
<1>6. QED
  BY <1>4, <1>5

-----------------------------------------------------------------------------
\* Types.

LEMMA ChipConstants ==
  /\ Banks \in Nat \ {0} /\ 0 \in 0..Banks - 1 /\ 255 \in Bytes
  /\ AddrBits \in Nat \ {0} /\ DataBits \in Nat \ {0}
  /\ Blocks \in Nat \ {0} /\ 0 \in 0..Blocks - 1
<1>1. Banks \in Nat \ {0} /\ 255 \in Bytes
  BY FlashAssumption, ByteAssumption
<1>2. AddrBits \in Nat \ {0} /\ DataBits \in Nat \ {0} /\ Blocks \in Nat \ {0}
  BY EepromAssumption
<1>3. QED
  BY <1>1, <1>2

LEMMA InputType ==
  ASSUME NEW w \in FlashInput \cup ProgramWrites PROVE w[1] \in Offsets /\ w[2] \in Bytes
<1>1. w \in Offsets \X Bytes
  BY FlashAssumption DEF FlashInput
<1>2. QED
  BY <1>1

LEMMA BankInRange == ASSUME NEW v \in Bytes PROVE v % Banks \in 0..Banks - 1
<1>1. v \in 0..255
  BY ByteAssumption
<1>2. v \in Nat
  BY <1>1
<1>3. QED
  BY <1>2, ChipConstants

LEMMA BlankIsContents == ASSUME NEW k \in Kinds PROVE Blank(k) \in Contents(k)
<1>1. k \in {"flash", "eeprom", "sram"} /\ 255 \in Bytes /\ 1 \in Bit
  BY FlashAssumption, ByteAssumption DEF Bit
<1>2. CASE k = "flash"
  BY <1>1, <1>2 DEF Blank, Contents
<1>3. CASE k = "eeprom"
  BY <1>1, <1>3 DEF Blank, Contents
<1>4. CASE k = "sram"
  BY <1>1, <1>4 DEF Blank, Contents
<1>5. QED
  BY <1>1, <1>2, <1>3, <1>4

LEMMA DecodeType ==
  ASSUME fstate \in FlashState \ {"eraseUnlock2", "program", "bank"},
         NEW off, NEW v
  PROVE  Decode(off, v) \in FlashState
<1>1. fstate \in {"idle", "unlock1", "unlock2", "eraseUnlock0", "eraseUnlock1"}
  BY DEF FlashState
<1>2. QED
  BY <1>1 DEF Decode, FlashState

LEMMA FlashType ==
  ASSUME TypeOK, NEW off \in Offsets, NEW v \in Bytes, FlashWrite(off, v)
  PROVE  TypeOK'
<1>0. kind = "flash" /\ mem \in [FlashCells -> Bytes] /\ saved \in [FlashCells -> Bytes]
  BY DEF TypeOK, FlashWrite, Contents
<1>1. typed' \in Seq(Offsets \X Bytes)
  BY DEF TypeOK, FlashWrite
<1>2. /\ kind' = kind /\ saved' = saved /\ cmd' = cmd /\ readActive' = readActive
      /\ readBlock' = readBlock /\ readIndex' = readIndex
  BY DEF FlashWrite, eepromVars
<1>3. dirty \in BOOLEAN /\ fstate \in FlashState /\ idMode \in BOOLEAN /\ bank \in 0..Banks - 1
  BY DEF TypeOK
<1>4. mem' \in [FlashCells -> Bytes]
  <2>1. CASE FlashErase(off, v)
    BY <1>0, <2>1, ChipConstants DEF FlashErase
  <2>2. CASE FlashProgram(off, v)
    <3>1. <<bank, off>> \in FlashCells
      BY <1>3 DEF FlashCells
    <3>2. QED
      BY <1>0, <2>2, <3>1 DEF FlashProgram
  <2>3. CASE FlashReset(off, v) \/ FlashDecode(off, v) \/ FlashBank(off, v)
    BY <1>0, <2>3 DEF FlashReset, FlashDecode, FlashBank
  <2>4. QED
    BY <2>1, <2>2, <2>3 DEF FlashWrite
<1>5. fstate' \in FlashState
  <2>1. CASE FlashDecode(off, v)
    BY <1>3, <2>1, DecodeType DEF FlashDecode
  <2>2. CASE ~FlashDecode(off, v)
    BY <2>2 DEF FlashWrite, FlashReset, FlashErase, FlashProgram, FlashBank, FlashState
  <2>3. QED
    BY <2>1, <2>2
<1>6. bank' \in 0..Banks - 1
  <2>1. CASE FlashBank(off, v)
    BY <2>1, BankInRange DEF FlashBank
  <2>2. CASE ~FlashBank(off, v)
    BY <1>3, <2>2 DEF FlashWrite, FlashReset, FlashErase, FlashProgram, FlashDecode
  <2>3. QED
    BY <2>1, <2>2
<1>7. dirty' \in BOOLEAN
  BY <1>3, Zenon DEF FlashWrite, FlashReset, FlashErase, FlashProgram, FlashDecode, FlashBank
<1>8. idMode' \in BOOLEAN
  BY <1>3, Zenon DEF FlashWrite, FlashReset, FlashErase, FlashProgram, FlashDecode, FlashBank
<1>9. mem' \in Contents(kind') /\ saved' \in Contents(kind')
  BY <1>0, <1>2, <1>4 DEF Contents
<1>10. QED
  BY <1>1, <1>2, <1>5, <1>6, <1>7, <1>8, <1>9 DEF TypeOK

LEMMA EepromType ==
  ASSUME TypeOK, NEW b \in Bit, EepromWriteBit(b)
  PROVE  TypeOK'
<1> DEFINE c == Append(cmd, b)
<1>0. /\ kind = "eeprom" /\ mem \in [0..Blocks - 1 -> [1..DataBits -> Bit]]
      /\ saved \in [0..Blocks - 1 -> [1..DataBits -> Bit]]
  BY DEF TypeOK, EepromWriteBit, Contents
<1>1. c \in Seq(Bit) /\ Len(c) = Len(cmd) + 1 /\ Len(cmd) \in Nat
  BY DEF TypeOK
<1>2. /\ kind' = kind /\ saved' = saved /\ fstate' = fstate /\ idMode' = idMode
      /\ bank' = bank /\ typed' = typed
  BY DEF EepromWriteBit, flashVars
<1>3. mem' \in [0..Blocks - 1 -> [1..DataBits -> Bit]]
  <2>1. CASE EepromStore(c)
    <3> DEFINE data == [i \in 1..DataBits |-> c[2 + AddrBits + i]]
    <3>1. Len(c) = 2 + AddrBits + DataBits + 1
      BY <2>1 DEF EepromStore, WriteBits
    <3>2. data \in [1..DataBits -> Bit]
      BY <1>1, <3>1, ChipConstants
    <3>3. mem' = [mem EXCEPT ![Address(c)] = data]
      BY <2>1 DEF EepromStore
    <3> HIDE DEF data
    <3>4. QED
      BY <1>0, <3>2, <3>3
  <2>2. CASE EepromStartRead(c) \/ EepromReject(c) \/ EepromCollect(c)
    BY <1>0, <2>2 DEF EepromStartRead, EepromReject, EepromCollect
  <2>3. QED
    BY <2>1, <2>2 DEF EepromWriteBit
<1>4. dirty' \in BOOLEAN
  BY Zenon DEF TypeOK, EepromWriteBit, EepromStore, EepromStartRead, EepromReject, EepromCollect
<1>5. readBlock' \in 0..Blocks - 1
  <2>1. CASE EepromStartRead(c)
    <3>1. Len(c) >= 2 + AddrBits
      BY <1>1, <2>1, ChipConstants DEF EepromStartRead, ReadBits
    <3>2. Address(c) \in 0..Blocks - 1
      BY <1>1, <3>1, AddressIsABlock
    <3>3. QED
      BY <2>1, <3>2 DEF EepromStartRead
  <2>2. CASE EepromStore(c) \/ EepromReject(c) \/ EepromCollect(c)
    BY <2>2 DEF TypeOK, EepromStore, EepromReject, EepromCollect
  <2>3. QED
    BY <2>1, <2>2 DEF EepromWriteBit
<1>6. readIndex' \in 0..3 + DataBits
  BY ChipConstants DEF TypeOK, EepromWriteBit, EepromStore, EepromStartRead, EepromReject, EepromCollect
<1>7. readActive' \in BOOLEAN
  BY DEF TypeOK, EepromWriteBit, EepromStore, EepromStartRead, EepromReject, EepromCollect
<1> DEFINE Collected == /\ cmd' \in Seq(Bit) /\ Len(cmd') < WriteBits
                        /\ Len(cmd') >= 2 => Op(cmd') \in {<<1, 1>>, <<1, 0>>}
                        /\ Len(cmd') >= ReadBits => Op(cmd') = <<1, 0>>
<1>8. Collected
  <2>1. CASE cmd' = <<>>
    BY <2>1, ChipConstants DEF WriteBits, ReadBits
  <2>2. CASE EepromCollect(c)
    <3>1. cmd' = c
      BY <2>2 DEF EepromCollect
    <3>2. CASE Len(c) < 2
      BY <1>1, <3>1, <3>2, ChipConstants DEF WriteBits, ReadBits
    <3>3. CASE Len(c) >= 2 /\ Op(c) = <<1, 1>> /\ Len(c) # ReadBits
      <4>1. Len(cmd) < ReadBits
        <5>1. Len(cmd) >= 2 => Op(cmd) = Op(c)
          BY <1>1 DEF Op, TypeOK
        <5>2. Len(cmd) >= ReadBits => Op(cmd) = <<1, 0>> /\ Len(cmd) >= 2
          BY <1>1, ChipConstants DEF TypeOK, ReadBits
        <5>3. <<1, 1>> # <<1, 0>>
          OBVIOUS
        <5>4. ReadBits \in Nat
          BY ChipConstants DEF ReadBits
        <5>5. QED
          BY <1>1, <3>3, <5>1, <5>2, <5>3, <5>4
      <4>2. Len(c) < ReadBits /\ ReadBits < WriteBits
        BY <1>1, <3>3, <4>1, ChipConstants DEF ReadBits, WriteBits
      <4>3. ~(Len(c) >= ReadBits) /\ Len(c) < WriteBits
        BY <1>1, <4>2, ChipConstants DEF ReadBits, WriteBits
      <4>4. QED
        BY <1>1, <3>1, <3>3, <4>3
    <3>4. CASE Len(c) >= 2 /\ Op(c) = <<1, 0>> /\ Len(c) # WriteBits
      <4>1. Len(cmd) < WriteBits
        BY DEF TypeOK
      <4>2. Len(c) < WriteBits
        BY <1>1, <3>4, <4>1, ChipConstants DEF WriteBits
      <4>3. QED
        BY <1>1, <3>1, <3>4, <4>2
    <3>5. QED
      BY <2>2, <3>2, <3>3, <3>4 DEF EepromCollect
  <2>3. QED
    BY <2>1, <2>2 DEF EepromWriteBit, EepromStore, EepromStartRead, EepromReject
<1>9. mem' \in Contents(kind') /\ saved' \in Contents(kind')
  BY <1>0, <1>2, <1>3 DEF Contents
<1>10. QED
  BY <1>2, <1>4, <1>5, <1>6, <1>7, <1>8, <1>9 DEF TypeOK

LEMMA ReadBitType == TypeOK /\ EepromReadBit => TypeOK'
<1> SUFFICES ASSUME TypeOK, EepromReadBit PROVE TypeOK'
  OBVIOUS
<1>1. /\ kind' = kind /\ mem' = mem /\ dirty' = dirty /\ cmd' = cmd /\ readBlock' = readBlock
      /\ saved' = saved /\ fstate' = fstate /\ idMode' = idMode /\ bank' = bank /\ typed' = typed
  BY DEF EepromReadBit, flashVars
<1>2. readActive' \in BOOLEAN
  BY DEF TypeOK, EepromReadBit
<1>3. readIndex' \in 0..3 + DataBits
  <2>1. readIndex \in 0..3 + DataBits /\ DataBits \in Nat
    BY ChipConstants DEF TypeOK
  <2>2. IF readIndex + 1 >= 4 + DataBits THEN readIndex' = 0 ELSE readIndex' = readIndex + 1
    BY Zenon DEF EepromReadBit
  <2>3. QED
    BY <2>1, <2>2
<1>4. QED
  BY <1>1, <1>2, <1>3 DEF TypeOK

LEMMA SramType ==
  ASSUME TypeOK, NEW off \in Offsets, NEW v \in Bytes, SramWrite(off, v)
  PROVE  TypeOK'
<1>1. /\ kind = "sram" /\ mem \in [Offsets -> Bytes]
  BY DEF TypeOK, SramWrite, Contents
<1>2. mem' \in [Offsets -> Bytes]
  BY <1>1 DEF SramWrite
<1>3. mem' \in Contents(kind)
  BY <1>1, <1>2 DEF Contents
<1>4. dirty' \in BOOLEAN
  BY Zenon DEF TypeOK, SramWrite
<1>5. QED
  BY <1>3, <1>4 DEF TypeOK, SramWrite, flashVars, eepromVars

LEMMA FlushType == TypeOK /\ Flush => TypeOK'
  BY DEF TypeOK, Flush, flashVars, eepromVars

LEMMA TypeInit == Init => TypeOK
<1> SUFFICES ASSUME Init PROVE TypeOK
  OBVIOUS
<1>1. mem \in Contents(kind) /\ saved \in Contents(kind)
  BY BlankIsContents DEF Init
<1>2. Len(cmd) < WriteBits /\ ~(Len(cmd) >= 2) /\ ~(Len(cmd) >= ReadBits)
  BY ChipConstants DEF Init, WriteBits, ReadBits
<1>3. readIndex \in 0..3 + DataBits
  BY ChipConstants DEF Init
<1>4. typed \in Seq(Offsets \X Bytes) /\ cmd \in Seq(Bit)
  BY DEF Init
<1>5. bank \in 0..Banks - 1 /\ readBlock \in 0..Blocks - 1
  BY ChipConstants DEF Init
<1>6. kind \in Kinds /\ dirty \in BOOLEAN /\ fstate \in FlashState /\ idMode \in BOOLEAN
      /\ readActive \in BOOLEAN
  BY DEF Init, FlashState
<1>7. QED
  BY <1>1, <1>2, <1>3, <1>4, <1>5, <1>6 DEF TypeOK

LEMMA TypeStep == TypeOK /\ [Next]_vars => TypeOK'
<1> SUFFICES ASSUME TypeOK, [Next]_vars PROVE TypeOK'
  OBVIOUS
<1>1. ASSUME NEW w \in FlashInput, FlashWrite(w[1], w[2]) PROVE TypeOK'
  <2>1. w[1] \in Offsets /\ w[2] \in Bytes
    BY InputType
  <2>2. QED
    BY <1>1, <2>1, FlashType
<1>2. ASSUME NEW b \in Bit, EepromWriteBit(b) PROVE TypeOK'
  BY <1>2, EepromType
<1>3. ASSUME NEW w \in ProgramWrites, SramWrite(w[1], w[2]) PROVE TypeOK'
  <2>1. w[1] \in Offsets /\ w[2] \in Bytes
    BY InputType
  <2>2. QED
    BY <1>3, <2>1, SramType
<1>4. CASE UNCHANGED vars
  BY <1>4 DEF TypeOK, vars
<1>5. QED
  BY <1>1, <1>2, <1>3, <1>4, ReadBitType, FlushType DEF Next

\* Types, and that an unfinished EEPROM command never outgrows the command it can
\* become, for every chip.
THEOREM TypeCorrect == Spec => []TypeOK
  BY TypeInit, TypeStep, PTL DEF Spec

-----------------------------------------------------------------------------
\* The dirty flag.

\* A write that the controller does not flag leaves the memory as it was.
LEMMA CleanStep == TypeOK /\ CleanIsSaved /\ [Next]_vars => CleanIsSaved'
<1> SUFFICES ASSUME TypeOK, CleanIsSaved, [Next]_vars, ~dirty' PROVE mem' = saved'
  BY DEF CleanIsSaved
<1>1. ASSUME NEW w \in FlashInput, FlashWrite(w[1], w[2]) PROVE mem' = saved'
  <2>0. mem \in [FlashCells -> Bytes] /\ saved' = saved
    BY <1>1 DEF TypeOK, FlashWrite, Contents
  <2>1. CASE FlashErase(w[1], w[2])
    <3>1. ~dirty /\ Erased(w[1], w[2]) = {}
      BY <2>1 DEF FlashErase, Erased
    <3>2. mem' = mem
      BY <2>0, <2>1, <3>1 DEF FlashErase
    <3>3. QED
      BY <2>0, <3>1, <3>2 DEF CleanIsSaved
  <2>2. CASE FlashProgram(w[1], w[2])
    <3>1. ~dirty /\ mem[<<bank, w[1]>>] = w[2]
      BY <2>2 DEF FlashProgram
    <3>2. mem' = mem
      BY <2>0, <2>2, <3>1 DEF FlashProgram
    <3>3. QED
      BY <2>0, <3>1, <3>2 DEF CleanIsSaved
  <2>3. CASE FlashReset(w[1], w[2]) \/ FlashDecode(w[1], w[2]) \/ FlashBank(w[1], w[2])
    BY <2>0, <2>3 DEF FlashReset, FlashDecode, FlashBank, CleanIsSaved
  <2>4. QED
    BY <1>1, <2>1, <2>2, <2>3 DEF FlashWrite
<1>2. ASSUME NEW b \in Bit, EepromWriteBit(b) PROVE mem' = saved'
  <2> DEFINE c == Append(cmd, b)
  <2>0. mem \in [0..Blocks - 1 -> [1..DataBits -> Bit]] /\ saved' = saved
    BY <1>2 DEF TypeOK, EepromWriteBit, Contents
  <2>1. CASE EepromStore(c)
    <3> DEFINE data == [i \in 1..DataBits |-> c[2 + AddrBits + i]]
    <3>1. ~dirty /\ mem[Address(c)] = data /\ mem' = [mem EXCEPT ![Address(c)] = data]
      BY <2>1 DEF EepromStore
    <3> HIDE DEF data
    <3>2. mem' = mem
      BY <2>0, <3>1
    <3>3. QED
      BY <2>0, <3>1, <3>2 DEF CleanIsSaved
  <2>2. CASE EepromStartRead(c) \/ EepromReject(c) \/ EepromCollect(c)
    BY <2>0, <2>2 DEF EepromStartRead, EepromReject, EepromCollect, CleanIsSaved
  <2>3. QED
    BY <1>2, <2>1, <2>2 DEF EepromWriteBit
<1>3. ASSUME NEW w \in ProgramWrites, SramWrite(w[1], w[2]) PROVE mem' = saved'
  <2>1. mem \in [Offsets -> Bytes] /\ saved' = saved
    BY <1>3 DEF TypeOK, SramWrite, Contents
  <2>2. ~dirty /\ mem[w[1]] = w[2]
    BY <1>3 DEF SramWrite
  <2>3. QED
    BY <1>3, <2>1, <2>2 DEF SramWrite, CleanIsSaved
<1>4. CASE EepromReadBit
  BY <1>4 DEF EepromReadBit, CleanIsSaved
<1>5. CASE Flush
  BY <1>5 DEF Flush
<1>6. CASE UNCHANGED vars
  BY <1>6 DEF vars, CleanIsSaved
<1>7. QED
  BY <1>1, <1>2, <1>3, <1>4, <1>5, <1>6 DEF Next

\* A clean flag is never a lie, whatever the game writes to whichever chip: a
\* flush_save that skips a clean chip loses nothing.
THEOREM CleanChipIsSaved == Spec => []CleanIsSaved
<1>1. Init => CleanIsSaved
  BY DEF Init, CleanIsSaved
<1>2. QED
  BY <1>1, CleanStep, TypeCorrect, PTL DEF Spec

-----------------------------------------------------------------------------
\* The command decoder.

\* The writes that lead to each state of the controller.
Armed ==
  /\ fstate \in FlashState
  /\ fstate = "idle"    => typed = <<>>
  /\ fstate = "unlock1" => typed = <<<<A1, K1>>>>
  /\ fstate = "unlock2" => typed = <<<<A1, K1>>, <<A2, K2>>>>
  /\ fstate = "eraseUnlock0" => typed = <<<<A1, K1>>, <<A2, K2>>, <<A1, 128>>>>
  /\ fstate = "eraseUnlock1" =>
       typed = <<<<A1, K1>>, <<A2, K2>>, <<A1, 128>>, <<A1, K1>>>>
  /\ ArmedByUnlock

\* What Append does to a short tuple.
LEMMA Append2 == ASSUME NEW a, NEW b PROVE Append(<<a>>, b) = <<a, b>>
<1> DEFINE S == {a, b}
<1>1. <<a>> \in Seq(S) /\ <<a, b>> \in Seq(S) /\ Len(<<a, b>>) = 2
  OBVIOUS
<1>2. Append(<<a>>, b) \in Seq(S) /\ Len(Append(<<a>>, b)) = 2
  BY <1>1
<1>3. \A i \in 1..2 : Append(<<a>>, b)[i] = <<a, b>>[i]
  BY <1>1
<1>4. QED
  BY <1>1, <1>2, <1>3, SeqEqual

LEMMA Append3 == ASSUME NEW a, NEW b, NEW c PROVE Append(<<a, b>>, c) = <<a, b, c>>
<1> DEFINE S == {a, b, c}
<1>1. <<a, b>> \in Seq(S) /\ <<a, b, c>> \in Seq(S) /\ Len(<<a, b, c>>) = 3
  OBVIOUS
<1>2. Append(<<a, b>>, c) \in Seq(S) /\ Len(Append(<<a, b>>, c)) = 3
  BY <1>1
<1>3. \A i \in 1..3 : Append(<<a, b>>, c)[i] = <<a, b, c>>[i]
  BY <1>1
<1>4. QED
  BY <1>1, <1>2, <1>3, SeqEqual

LEMMA Append4 == ASSUME NEW a, NEW b, NEW c, NEW d PROVE Append(<<a, b, c>>, d) = <<a, b, c, d>>
<1> DEFINE S == {a, b, c, d}
<1>1. <<a, b, c>> \in Seq(S) /\ <<a, b, c, d>> \in Seq(S) /\ Len(<<a, b, c, d>>) = 4
  OBVIOUS
<1>2. Append(<<a, b, c>>, d) \in Seq(S) /\ Len(Append(<<a, b, c>>, d)) = 4
  BY <1>1
<1>3. \A i \in 1..4 : Append(<<a, b, c>>, d)[i] = <<a, b, c, d>>[i]
  BY <1>1
<1>4. QED
  BY <1>1, <1>2, <1>3, SeqEqual

LEMMA Append5 == ASSUME NEW a, NEW b, NEW c, NEW d, NEW e PROVE Append(<<a, b, c, d>>, e) = <<a, b, c, d, e>>
<1> DEFINE S == {a, b, c, d, e}
<1>1. <<a, b, c, d>> \in Seq(S) /\ <<a, b, c, d, e>> \in Seq(S) /\ Len(<<a, b, c, d, e>>) = 5
  OBVIOUS
<1>2. Append(<<a, b, c, d>>, e) \in Seq(S) /\ Len(Append(<<a, b, c, d>>, e)) = 5
  BY <1>1
<1>3. \A i \in 1..5 : Append(<<a, b, c, d>>, e)[i] = <<a, b, c, d, e>>[i]
  BY <1>1
<1>4. QED
  BY <1>1, <1>2, <1>3, SeqEqual

LEMMA ArmedInit == Init => Armed
  BY DEF Init, Armed, ArmedByUnlock, FlashState

LEMMA ArmedStep == Armed /\ [Next]_vars => Armed'
<1> SUFFICES ASSUME Armed, [Next]_vars PROVE Armed'
  OBVIOUS
<1>1. ASSUME NEW w \in FlashInput, FlashWrite(w[1], w[2]) PROVE Armed'
  <2>0. typed' = IF fstate' = "idle" THEN <<>> ELSE Append(typed, <<w[1], w[2]>>)
    BY <1>1 DEF FlashWrite
  <2>1. CASE fstate' = "idle"
    BY <2>0, <2>1 DEF Armed, ArmedByUnlock, FlashState
  <2>2. CASE FlashDecode(w[1], w[2]) /\ fstate' # "idle"
    <3>1. fstate \in {"idle", "unlock1", "unlock2", "eraseUnlock0", "eraseUnlock1"}
      BY <2>2 DEF FlashDecode, Armed, FlashState
    <3>2. fstate' = Decode(w[1], w[2]) /\ typed' = Append(typed, <<w[1], w[2]>>)
      BY <2>0, <2>2 DEF FlashDecode
    <3>3. CASE fstate = "idle"
      <4>1. w[1] = A1 /\ w[2] = K1 /\ fstate' = "unlock1"
        BY <2>2, <3>2, <3>3 DEF Decode
      <4>2. typed' = <<<<A1, K1>>>>
        BY <3>2, <3>3, <4>1 DEF Armed
      <4>3. QED
        BY <4>1, <4>2 DEF Armed, ArmedByUnlock, FlashState
    <3>4. CASE fstate = "unlock1"
      <4>1. w[1] = A2 /\ w[2] = K2 /\ fstate' = "unlock2"
        BY <2>2, <3>2, <3>4 DEF Decode
      <4>2. typed' = <<<<A1, K1>>, <<A2, K2>>>>
        <5>1. typed = <<<<A1, K1>>>>
          BY <3>4 DEF Armed
        <5>2. QED
          BY <3>2, <4>1, <5>1, Append2, ZenonT(60)
      <4>3. QED
        BY <4>1, <4>2 DEF Armed, ArmedByUnlock, FlashState
    <3>5. CASE fstate = "unlock2"
      <4>1. /\ w[1] = A1
            /\ \/ w[2] = 160 /\ fstate' = "program"
               \/ w[2] = 176 /\ fstate' = "bank"
               \/ w[2] = 128 /\ fstate' = "eraseUnlock0"
        BY <2>2, <3>2, <3>5 DEF Decode
      <4>2. typed' = <<<<A1, K1>>, <<A2, K2>>, <<A1, w[2]>>>>
        <5>1. typed = <<<<A1, K1>>, <<A2, K2>>>>
          BY <3>5 DEF Armed
        <5>2. QED
          BY <3>2, <4>1, <5>1, Append3, ZenonT(60)
      <4>3. QED
        BY <4>1, <4>2 DEF Armed, ArmedByUnlock, ProgramUnlock, BankUnlock, EraseUnlock, FlashState
    <3>6. CASE fstate = "eraseUnlock0"
      <4>1. w[1] = A1 /\ w[2] = K1 /\ fstate' = "eraseUnlock1"
        BY <2>2, <3>2, <3>6 DEF Decode
      <4>2. typed' = <<<<A1, K1>>, <<A2, K2>>, <<A1, 128>>, <<A1, K1>>>>
        <5>1. typed = <<<<A1, K1>>, <<A2, K2>>, <<A1, 128>>>>
          BY <3>6 DEF Armed
        <5>2. QED
          <6>1. Append(<<<<A1, K1>>, <<A2, K2>>, <<A1, 128>>>>, <<A1, K1>>) = <<<<A1, K1>>, <<A2, K2>>, <<A1, 128>>, <<A1, K1>>>>
            BY Append4, ZenonT(60)
          <6>2. <<w[1], w[2]>> = <<A1, K1>>
            BY <4>1
          <6>3. QED
            BY <3>2, <5>1, <6>1, <6>2, ZenonT(60)
      <4>3. QED
        BY <4>1, <4>2 DEF Armed, ArmedByUnlock, FlashState
    <3>7. CASE fstate = "eraseUnlock1"
      <4>1. w[1] = A2 /\ w[2] = K2 /\ fstate' = "eraseUnlock2"
        BY <2>2, <3>2, <3>7 DEF Decode
      <4>2. typed' = <<<<A1, K1>>, <<A2, K2>>, <<A1, 128>>, <<A1, K1>>, <<A2, K2>>>>
        <5>1. typed = <<<<A1, K1>>, <<A2, K2>>, <<A1, 128>>, <<A1, K1>>>>
          BY <3>7 DEF Armed
        <5>2. QED
          <6>1. Append(<<<<A1, K1>>, <<A2, K2>>, <<A1, 128>>, <<A1, K1>>>>, <<A2, K2>>) = <<<<A1, K1>>, <<A2, K2>>, <<A1, 128>>, <<A1, K1>>, <<A2, K2>>>>
            BY Append5, ZenonT(60)
          <6>2. <<w[1], w[2]>> = <<A2, K2>>
            BY <4>1
          <6>3. QED
            BY <3>2, <5>1, <6>1, <6>2, ZenonT(60)
      <4>3. QED
        BY <4>1, <4>2 DEF Armed, ArmedByUnlock, ProgramUnlock, BankUnlock, EraseUnlock, FlashState
    <3>8. QED
      BY <3>1, <3>3, <3>4, <3>5, <3>6, <3>7
  <2>3. FlashDecode(w[1], w[2]) \/ fstate' = "idle"
    BY <1>1 DEF FlashWrite, FlashReset, FlashErase, FlashProgram, FlashBank
  <2>4. QED
    BY <2>1, <2>2, <2>3
<1>2. CASE fstate' = fstate /\ typed' = typed
  BY <1>2 DEF Armed, ArmedByUnlock
<1>3. QED
  BY <1>1, <1>2 DEF Next, EepromWriteBit, EepromReadBit, SramWrite, Flush, flashVars, vars

\* Only the full run of unlock cycles arms a program, a bank switch or an erase,
\* whatever stray writes reach the save bus.
THEOREM OnlyUnlockArms == Spec => []ArmedByUnlock
<1>1. Init => Armed
  BY ArmedInit
<1>2. Armed => ArmedByUnlock
  BY DEF Armed
<1>3. QED
  BY <1>1, <1>2, ArmedStep, PTL DEF Spec

-----------------------------------------------------------------------------
\* What a command changes.

\* The decoder's state says which command the writes so far have unlocked, if any.
LEMMA ArmedExactly ==
  ASSUME Armed
  PROVE  /\ typed = ProgramUnlock <=> fstate = "program"
         /\ typed = EraseUnlock <=> fstate = "eraseUnlock2"
<1>1. Len(ProgramUnlock) = 3 /\ Len(EraseUnlock) = 5
  BY DEF ProgramUnlock, EraseUnlock
<1>2. ProgramUnlock[3] # BankUnlock[3]
  <2>1. ProgramUnlock[3] = <<A1, 160>> /\ BankUnlock[3] = <<A1, 176>>
    BY DEF ProgramUnlock, BankUnlock
  <2>2. <<A1, 160>>[2] # <<A1, 176>>[2]
    OBVIOUS
  <2>3. QED
    BY <2>1, <2>2
<1>3. ProgramUnlock[3] # <<<<A1, K1>>, <<A2, K2>>, <<A1, 128>>>>[3]
  <2>1. /\ ProgramUnlock[3] = <<A1, 160>>
        /\ <<<<A1, K1>>, <<A2, K2>>, <<A1, 128>>>>[3] = <<A1, 128>>
    BY DEF ProgramUnlock
  <2>2. <<A1, 160>>[2] # <<A1, 128>>[2]
    OBVIOUS
  <2>3. QED
    BY <2>1, <2>2
<1>4. CASE fstate = "program"
  BY <1>1, <1>4 DEF Armed, ArmedByUnlock
<1>5. CASE fstate = "eraseUnlock2"
  BY <1>1, <1>5 DEF Armed, ArmedByUnlock
<1>6. CASE fstate = "bank"
  <2>1. Len(BankUnlock) = 3
    BY DEF BankUnlock
  <2>2. QED
    BY <1>1, <1>2, <1>6, <2>1 DEF Armed, ArmedByUnlock
<1>7. CASE fstate \in {"idle", "unlock1", "unlock2", "eraseUnlock1"}
  <2>1. Len(typed) \in {0, 1, 2, 4}
    BY <1>7 DEF Armed
  <2>2. QED
    <3>1. typed # ProgramUnlock /\ typed # EraseUnlock
      <4>1. Len(typed) # Len(ProgramUnlock) /\ Len(typed) # Len(EraseUnlock)
        <5>1. ASSUME NEW n \in {0, 1, 2, 4} PROVE n # 3 /\ n # 5
          OBVIOUS
        <5>2. QED
          BY <1>1, <2>1, <5>1, Zenon
      <4>2. QED
        BY <4>1, Zenon
    <3>2. fstate # "program" /\ fstate # "eraseUnlock2"
      BY <1>7
    <3>3. QED
      BY <3>1, <3>2
<1>8. CASE fstate = "eraseUnlock0"
  <2>1. Len(typed) = 3
    BY <1>8 DEF Armed
  <2>2. QED
    BY <1>1, <1>3, <1>8, <2>1 DEF Armed
<1>9. QED
  BY <1>4, <1>5, <1>6, <1>7, <1>8 DEF Armed, FlashState

LEMMA WriteIsCommanded ==
  ASSUME TypeOK, Armed, NEW w \in FlashInput, FlashWrite(w[1], w[2])
  PROVE  mem' = Commanded(w)
<1>0. kind = "flash" /\ mem \in [FlashCells -> Bytes]
  BY DEF FlashWrite, TypeOK, Contents
<1>1. /\ typed = ProgramUnlock <=> fstate = "program"
      /\ typed = EraseUnlock <=> fstate = "eraseUnlock2"
  BY ArmedExactly
<1>2. w = <<w[1], w[2]>>
  BY FlashAssumption DEF FlashInput
<1>3. CASE FlashErase(w[1], w[2])
  <2>1. typed = EraseUnlock /\ typed # ProgramUnlock
    BY <1>1, <1>3 DEF FlashErase
  <2>2. mem' = [c \in FlashCells |-> IF c \in Erased(w[1], w[2]) THEN 255 ELSE mem[c]]
    BY <1>3 DEF FlashErase
  <2>3. CASE w[1] = A1 /\ w[2] = 16
    <3>1. w = <<A1, 16>>
      BY <1>2, <2>3
    <3>2. mem' = Blank("flash")
      BY <2>2, <2>3 DEF Erased, Blank
    <3>3. QED
      BY <2>1, <3>1, <3>2 DEF Commanded
  <2>4. CASE ~(w[1] = A1 /\ w[2] = 16)
    <3>1. w # <<A1, 16>>
      BY <2>4
    <3>2. CASE w[2] = 48
      <4>1. mem' = [c \in FlashCells |->
                      IF c[1] = bank /\ Sector(c[2]) = Sector(w[1]) THEN 255 ELSE mem[c]]
        BY <2>2, <2>4, <3>2 DEF Erased
      <4>2. QED
        BY <2>1, <3>1, <3>2, <4>1 DEF Commanded
    <3>3. CASE w[2] # 48
      <4>1. Erased(w[1], w[2]) = {}
        BY <2>4, <3>3 DEF Erased
      <4>2. mem' = mem
        BY <1>0, <2>2, <4>1
      <4>3. QED
        BY <2>1, <3>1, <3>3, <4>2 DEF Commanded
    <3>4. QED
      BY <3>2, <3>3
  <2>5. QED
    BY <2>3, <2>4
<1>4. CASE FlashProgram(w[1], w[2])
  BY <1>1, <1>4 DEF FlashProgram, Commanded
<1>5. CASE FlashReset(w[1], w[2])
  <2>1. mem' = mem /\ w[2] = 240 /\ fstate # "program"
    BY <1>5 DEF FlashReset, Resets
  <2>2. typed # ProgramUnlock /\ w # <<A1, 16>> /\ w[2] # 48
    BY <1>1, <2>1
  <2>3. QED
    BY <2>1, <2>2 DEF Commanded
<1>6. CASE FlashDecode(w[1], w[2]) \/ FlashBank(w[1], w[2])
  <2>1. mem' = mem /\ fstate \notin {"program", "eraseUnlock2"}
    BY <1>6 DEF FlashDecode, FlashBank
  <2>2. QED
    BY <1>1, <2>1 DEF Commanded
<1>7. QED
  BY <1>3, <1>4, <1>5, <1>6 DEF FlashWrite

LEMMA FlashChangeStep == TypeOK /\ Armed /\ [Next]_vars => FlashChange
<1> SUFFICES ASSUME TypeOK, Armed, [Next]_vars, kind = "flash" PROVE FlashChange
  BY DEF FlashChange
<1>1. \A w \in FlashInput : mem' = Commanded(w) \/ ~FlashWrite(w[1], w[2])
  BY WriteIsCommanded
<1>2. mem' # mem => \E w \in FlashInput : FlashWrite(w[1], w[2])
  BY DEF Next, EepromWriteBit, EepromReadBit, SramWrite, Flush, vars
<1>3. QED
  BY <1>1, <1>2 DEF FlashChange

\* Whatever a game writes to the flash window, memory changes exactly as the unlocked
\* command and the address of its operand say.
THEOREM FlashChangesAsTold == Spec => FlashChangesAsCommanded
  BY ArmedInit, ArmedStep, FlashChangeStep, TypeCorrect, PTL
     DEF Spec, FlashChangesAsCommanded

-----------------------------------------------------------------------------
\* The EEPROM read.

ReadInv == out \in Seq(Bit) /\ ReadsOneBlock

LEMMA ReadStep == TypeOK /\ ReadInv /\ [Next]_vars => ReadInv'
<1> SUFFICES ASSUME TypeOK, out \in Seq(Bit), ReadsOneBlock, [Next]_vars
             PROVE  out' \in Seq(Bit) /\ ReadsOneBlock'
  BY DEF ReadInv
<1>1. ASSUME NEW b \in Bit, EepromWriteBit(b) PROVE out' \in Seq(Bit) /\ ReadsOneBlock'
  <2> DEFINE c == Append(cmd, b)
  <2>1. CASE EepromStartRead(c)
    BY <2>1 DEF EepromStartRead, ReadsOneBlock
  <2>2. CASE EepromStore(c) \/ EepromReject(c)
    <3>1. ~readActive' /\ out' = <<>>
      BY <2>2 DEF EepromStore, EepromReject
    <3>2. QED
      BY <3>1 DEF ReadsOneBlock
  <2>3. CASE EepromCollect(c)
    BY <1>1, <2>3 DEF EepromCollect, EepromWriteBit, ReadsOneBlock
  <2>4. QED
    BY <1>1, <2>1, <2>2, <2>3 DEF EepromWriteBit
<1>2. CASE EepromReadBit
  <2> DEFINE bit == IF readIndex < 4 THEN 0 ELSE mem[readBlock][readIndex - 3]
  <2>1. /\ readActive /\ kind = "eeprom" /\ mem' = mem /\ readBlock' = readBlock
        /\ out' = Append(out, bit)
    BY <1>2 DEF EepromReadBit
  <2>2. /\ Len(out) = readIndex
        /\ \A i \in 1..readIndex : out[i] = IF i <= 4 THEN 0 ELSE mem[readBlock][i - 4]
    BY <2>1 DEF ReadsOneBlock
  <2>3. readIndex \in 0..3 + DataBits /\ DataBits \in Nat
    BY ChipConstants DEF TypeOK
  <2>4. bit \in Bit
    <3>1. CASE readIndex < 4
      BY <3>1 DEF Bit
    <3>2. CASE ~(readIndex < 4)
      <4>1. readIndex - 3 \in 1..DataBits
        BY <2>3, <3>2
      <4>2. mem \in [0..Blocks - 1 -> [1..DataBits -> Bit]] /\ readBlock \in 0..Blocks - 1
        BY <2>1 DEF TypeOK, Contents
      <4>3. QED
        BY <3>2, <4>1, <4>2
    <3>3. QED
      BY <3>1, <3>2
  <2> HIDE DEF bit
  <2>5. out' \in Seq(Bit) /\ Len(out') = readIndex + 1
    BY <2>1, <2>2, <2>4
  <2>6. ASSUME NEW i \in 1..readIndex + 1
        PROVE  out'[i] = IF i <= 4 THEN 0 ELSE mem[readBlock][i - 4]
    <3>1. CASE i = readIndex + 1
      <4>1. out'[i] = bit
        BY <2>1, <2>2, <2>4, <3>1
      <4>2. i - 4 = readIndex - 3 /\ (i <= 4 <=> readIndex < 4)
        BY <2>3, <3>1
      <4>3. QED
        BY <4>1, <4>2 DEF bit
    <3>2. CASE i # readIndex + 1
      <4>1. i \in 1..readIndex
        BY <2>3, <3>2
      <4>2. out'[i] = out[i]
        BY <2>1, <2>2, <2>4, <4>1
      <4>3. QED
        BY <2>2, <4>1, <4>2
    <3>3. QED
      BY <3>1, <3>2
  <2>7. readActive' => Len(out') = readIndex'
    BY <1>2, <2>5 DEF EepromReadBit
  <2>8. ~readActive' => Len(out') \in {0, 4 + DataBits}
    <3>1. ~readActive' => readIndex + 1 >= 4 + DataBits
      BY <1>2, <2>1 DEF EepromReadBit
    <3>2. QED
      BY <2>3, <2>5, <3>1
  <2>9. \A i \in 1..Len(out') : out'[i] = IF i <= 4 THEN 0 ELSE mem'[readBlock'][i - 4]
    BY <2>1, <2>5, <2>6
  <2>10. QED
    BY <2>5, <2>7, <2>8, <2>9, Zenon DEF ReadsOneBlock
<1>3. CASE kind' = kind /\ kind # "eeprom" /\ out' = out
  BY <1>3 DEF ReadsOneBlock
<1>4. CASE UNCHANGED <<kind, mem, readActive, readBlock, readIndex, out>>
  BY <1>4 DEF ReadsOneBlock
<1>5. CASE Flush
  BY <1>5 DEF Flush, eepromVars, ReadsOneBlock
<1>6. QED
  BY <1>1, <1>2, <1>3, <1>4, <1>5 DEF Next, FlashWrite, SramWrite, eepromVars, vars

\* An EEPROM read gives four zero bits and then the block it was asked for, whatever
\* the game writes in between.
THEOREM ReadIsOneBlock == Spec => []ReadsOneBlock
<1>1. Init => ReadInv
  BY DEF Init, ReadInv, ReadsOneBlock
<1>2. ReadInv => ReadsOneBlock
  BY DEF ReadInv
<1>3. QED
  BY <1>1, <1>2, ReadStep, TypeCorrect, PTL DEF Spec
=============================================================================
