------------------------------ MODULE GbaSave ------------------------------
(***************************************************************************)
(* The cartridge's save chip (gba/gba_save.cpp): a FLASH controller driven  *)
(* by unlocked command sequences, a serial EEPROM driven one bit at a time, *)
(* or plain SRAM.  The header's save type enables one of the three.  One    *)
(* dirty flag says that the battery memory differs from the save file;      *)
(* every write the game can issue must keep it truthful.                    *)
(*                                                                         *)
(* Offsets and bytes are the numbers the guest drives on the save bus;      *)
(* "game" actions are single bus accesses, in any order a game may issue.   *)
(***************************************************************************)
EXTENDS Integers, Sequences

CONSTANTS Kinds,        \* the chips to explore, of {"flash", "eeprom", "sram"}
          Banks,        \* flash_banks_: 1 (512 Kbit) or 2 (1 Mbit)
          Offsets,      \* offsets in the 64 KB flash window, and in SRAM
          Bytes,        \* byte values
          CommandWrites, \* (offset, byte) pairs a game sends to the controller ...
          ProgramWrites, \* ... and as the operand of a program command
          Blocks,       \* eeprom_size_ / 8
          AddrBits,     \* eeprom_addr_bits_
          DataBits      \* bits of an EEPROM block: 64

ASSUME OffsetAssumption == Offsets \subseteq 0..65535
ASSUME ByteAssumption == Bytes \subseteq 0..255 /\ 255 \in Bytes
ASSUME FlashAssumption ==
  /\ Kinds \subseteq {"flash", "eeprom", "sram"}
  /\ Banks \in Nat \ {0}
  /\ CommandWrites \subseteq Offsets \X Bytes
  /\ ProgramWrites \subseteq Offsets \X Bytes
ASSUME EepromAssumption == /\ Blocks \in Nat \ {0}
                           /\ AddrBits \in Nat \ {0} /\ DataBits \in Nat \ {0}

VARIABLES
  kind,       \* which of sram_enabled_, eeprom_enabled_, flash_enabled_ is set
  mem,        \* flash_data_, eeprom_ or sram_data_
  dirty,      \* dirty_
  fstate,     \* flash_state_
  idMode,     \* flash_id_mode_
  bank,       \* flash_bank_
  cmd,        \* command_bits_
  readActive, \* read_active_
  readBlock,  \* read_byte_offset_ / 8
  readIndex,  \* read_bit_index_
  saved,      \* the contents the save file was last written or read with
  typed,      \* the flash writes since the controller was idle
  out         \* the bits the current EEPROM read has shifted out

flashVars  == <<fstate, idMode, bank, typed>>
eepromVars == <<cmd, readActive, readBlock, readIndex, out>>
vars == <<kind, mem, dirty, fstate, idMode, bank, cmd, readActive, readBlock,
          readIndex, saved, typed, out>>

FlashState == {"idle", "unlock1", "unlock2", "eraseUnlock0", "eraseUnlock1",
               "eraseUnlock2", "program", "bank"}
A1 == 21845      \* 0x5555
A2 == 10922      \* 0x2AAA
K1 == 170        \* 0xAA
K2 == 85         \* 0x55

FlashCells  == (0..Banks - 1) \X Offsets
Sector(off) == off \div 4096
Bit         == {0, 1}

Contents(k) == IF k = "flash" THEN [FlashCells -> Bytes]
               ELSE IF k = "eeprom" THEN [0..Blocks - 1 -> [1..DataBits -> Bit]]
               ELSE [Offsets -> Bytes]

\* A blank chip: every bit set (configure_flash, configure_eeprom,
\* configure_sram).
Blank(k) == IF k = "flash" THEN [c \in FlashCells |-> 255]
            ELSE IF k = "eeprom" THEN [b \in 0..Blocks - 1 |-> [i \in 1..DataBits |-> 1]]
            ELSE [o \in Offsets |-> 255]

\* The chip is configured for the cartridge; a save file that exists was
\* written from the chip by an earlier session, and loading it resets the
\* controllers like configuring does (load_flash_bytes, load_eeprom_bytes,
\* load_sram_bytes), so a session starts from the saved contents.
Init ==
  /\ kind \in Kinds
  /\ mem = Blank(kind) /\ saved = mem /\ dirty = FALSE
  /\ fstate = "idle" /\ idMode = FALSE /\ bank = 0 /\ typed = <<>>
  /\ cmd = <<>> /\ readActive = FALSE /\ readBlock = 0 /\ readIndex = 0
  /\ out = <<>>

-----------------------------------------------------------------------------
\* FLASH

\* Mutant: the second unlock cycle is not checked.
DecodeLax(off, v) ==
  LET on(o, b, next) == IF off = o /\ v = b THEN next ELSE "idle"
      command == CASE v = 160 -> "program"
                   [] v = 176 -> "bank"
                   [] v = 128 -> "eraseUnlock0"
                   [] OTHER   -> "idle"
  IN CASE fstate = "idle"         -> on(A1, K1, "unlock1")
       [] fstate = "unlock1"      -> "unlock2"
       [] fstate = "unlock2"      -> IF off = A1 THEN command ELSE "idle"
       [] fstate = "eraseUnlock0" -> on(A1, K1, "eraseUnlock1")
       [] fstate = "eraseUnlock1" -> on(A2, K2, "eraseUnlock2")

\* The command decoder: the state after a write that is not an operand.
Decode(off, v) ==
  LET on(o, b, next) == IF off = o /\ v = b THEN next ELSE "idle"
      command == CASE v = 160 -> "program"            \* 0xA0
                   [] v = 176 -> "bank"               \* 0xB0
                   [] v = 128 -> "eraseUnlock0"       \* 0x80
                   [] OTHER   -> "idle"               \* 0x90 enters ID mode
  IN CASE fstate = "idle"         -> on(A1, K1, "unlock1")
       [] fstate = "unlock1"      -> on(A2, K2, "unlock2")
       [] fstate = "unlock2"      -> IF off = A1 THEN command ELSE "idle"
       [] fstate = "eraseUnlock0" -> on(A1, K1, "eraseUnlock1")
       [] fstate = "eraseUnlock1" -> on(A2, K2, "eraseUnlock2")

\* 0xF0 leaves ID mode and any unfinished command, except as program data.
Resets(v) == v = 240 /\ fstate # "program"

FlashReset(off, v) ==
  /\ Resets(v)
  /\ fstate' = "idle" /\ idMode' = FALSE
  /\ UNCHANGED <<mem, dirty, bank>>

FlashDecode(off, v) ==
  /\ ~Resets(v) /\ fstate \notin {"eraseUnlock2", "program", "bank"}
  /\ fstate' = Decode(off, v)
  /\ idMode' = (idMode \/ (fstate = "unlock2" /\ off = A1 /\ v = 144))  \* 0x90
  /\ UNCHANGED <<mem, dirty, bank>>

\* The cells an erase command clears: all (0x10), one sector (0x30), or none.
Erased(off, v) ==
  IF off = A1 /\ v = 16 THEN FlashCells
  ELSE IF v = 48 THEN {c \in FlashCells : c[1] = bank /\ Sector(c[2]) = Sector(off)}
  ELSE {}

FlashErase(off, v) ==
  /\ ~Resets(v) /\ fstate = "eraseUnlock2"
  /\ mem' = [c \in FlashCells |-> IF c \in Erased(off, v) THEN 255 ELSE mem[c]]
  /\ dirty' = (dirty \/ v = 48 \/ (off = A1 /\ v = 16))
  /\ fstate' = "idle"
  /\ UNCHANGED <<idMode, bank>>

\* Mutant: a program command lands in bank 0 whatever bank is selected.
FlashProgramBank0(off, v) ==
  /\ fstate = "program"
  /\ mem' = [mem EXCEPT ![<<0, off>>] = v]
  /\ dirty' = (dirty \/ mem[<<0, off>>] # v)
  /\ fstate' = "idle"
  /\ UNCHANGED <<idMode, bank>>

\* Mutant: programming does not mark the chip dirty.
FlashProgramClean(off, v) ==
  /\ fstate = "program"
  /\ mem' = [mem EXCEPT ![<<bank, off>>] = v]
  /\ fstate' = "idle"
  /\ UNCHANGED <<idMode, bank, dirty>>

FlashProgram(off, v) ==
  /\ fstate = "program"
  /\ mem' = [mem EXCEPT ![<<bank, off>>] = v]
  /\ dirty' = (dirty \/ mem[<<bank, off>>] # v)
  /\ fstate' = "idle"
  /\ UNCHANGED <<idMode, bank>>

FlashBank(off, v) ==
  /\ ~Resets(v) /\ fstate = "bank"
  /\ bank' = v % Banks
  /\ fstate' = "idle"
  /\ UNCHANGED <<mem, dirty, idMode>>

FlashWrite(off, v) ==
  /\ kind = "flash"
  /\ \/ FlashReset(off, v)  \/ FlashDecode(off, v) \/ FlashErase(off, v)
     \/ FlashProgram(off, v) \/ FlashBank(off, v)
  /\ typed' = IF fstate' = "idle" THEN <<>> ELSE Append(typed, <<off, v>>)
  /\ UNCHANGED <<kind, eepromVars, saved>>

-----------------------------------------------------------------------------
\* EEPROM

ReadBits  == 2 + AddrBits + 1
WriteBits == 2 + AddrBits + DataBits + 1
Op(c)     == <<c[1], c[2]>>          \* of at least two bits

\* command_address: the address bits, most significant first, folded on the chip.
Address(c) ==
  LET f[i \in 0..AddrBits] == IF i = 0 THEN 0 ELSE 2 * f[i - 1] + c[2 + i]
  IN f[AddrBits] % Blocks

\* finish_eeprom_read
EepromStartRead(c) ==
  /\ Len(c) = ReadBits /\ Op(c) = <<1, 1>>
  /\ readBlock' = Address(c) /\ readIndex' = 0 /\ readActive' = TRUE
  /\ cmd' = <<>> /\ out' = <<>>
  /\ UNCHANGED <<mem, dirty>>

\* Mutant: a write command leaves a read in progress.
EepromStoreKeepsRead(c) ==
  /\ Len(c) = WriteBits /\ Op(c) = <<1, 0>>
  /\ LET data == [i \in 1..DataBits |-> c[2 + AddrBits + i]]
     IN /\ mem' = [mem EXCEPT ![Address(c)] = data]
        /\ dirty' = (dirty \/ mem[Address(c)] # data)
  /\ cmd' = <<>>
  /\ UNCHANGED <<readBlock, readActive, readIndex, out>>

\* finish_eeprom_write
EepromStore(c) ==
  /\ Len(c) = WriteBits /\ Op(c) = <<1, 0>>
  /\ LET data == [i \in 1..DataBits |-> c[2 + AddrBits + i]]
     IN /\ mem' = [mem EXCEPT ![Address(c)] = data]
        /\ dirty' = (dirty \/ mem[Address(c)] # data)
  /\ cmd' = <<>> /\ readActive' = FALSE /\ readIndex' = 0 /\ out' = <<>>
  /\ UNCHANGED readBlock

\* A command that starts with 0 is dropped, and ends a read in progress.
EepromReject(c) ==
  /\ Len(c) >= 2 /\ Op(c) \notin {<<1, 1>>, <<1, 0>>}
  /\ cmd' = <<>> /\ readActive' = FALSE /\ readIndex' = 0 /\ out' = <<>>
  /\ UNCHANGED <<mem, dirty, readBlock>>

\* Mutant: the command bits are collected without a look at the operation.
EepromCollectAny(c) ==
  /\ Len(c) \notin {ReadBits, WriteBits}
  /\ cmd' = c
  /\ UNCHANGED <<mem, dirty, readBlock, readIndex, readActive, out>>

\* A valid command that is not complete yet.
EepromCollect(c) ==
  /\ \/ Len(c) < 2
     \/ Len(c) >= 2 /\ Op(c) = <<1, 1>> /\ Len(c) # ReadBits
     \/ Len(c) >= 2 /\ Op(c) = <<1, 0>> /\ Len(c) # WriteBits
  /\ cmd' = c
  /\ UNCHANGED <<mem, dirty, readBlock, readIndex, readActive, out>>

\* eeprom_write_bit
EepromWriteBit(b) ==
  /\ kind = "eeprom"
  /\ LET c == Append(cmd, b)
     IN EepromStartRead(c) \/ EepromStore(c) \/ EepromReject(c) \/ EepromCollect(c)
  /\ UNCHANGED <<kind, saved, flashVars>>

\* eeprom_read_bit: four zero bits, then the block; idle reads return 1.
EepromReadBit ==
  /\ kind = "eeprom" /\ readActive
  /\ out' = Append(out, IF readIndex < 4 THEN 0 ELSE mem[readBlock][readIndex - 3])
  /\ IF readIndex + 1 >= 4 + DataBits
       THEN readActive' = FALSE /\ readIndex' = 0
       ELSE readIndex' = readIndex + 1 /\ UNCHANGED readActive
  /\ UNCHANGED <<kind, mem, dirty, cmd, readBlock, saved, flashVars>>

-----------------------------------------------------------------------------
\* SRAM, and the save file

SramWrite(off, v) ==
  /\ kind = "sram"
  /\ mem' = [mem EXCEPT ![off] = v]
  /\ dirty' = (dirty \/ mem[off] # v)
  /\ UNCHANGED <<kind, saved, flashVars, eepromVars>>

\* A completed flush_save: the contents are in the file, then clear_dirty.
Flush ==
  /\ dirty
  /\ saved' = mem /\ dirty' = FALSE
  /\ UNCHANGED <<kind, mem, flashVars, eepromVars>>

FlashInput == IF fstate = "program" THEN ProgramWrites ELSE CommandWrites

Next == \/ \E w \in FlashInput : FlashWrite(w[1], w[2])
        \/ \E b \in Bit : EepromWriteBit(b)
        \/ EepromReadBit
        \/ \E w \in ProgramWrites : SramWrite(w[1], w[2])
        \/ Flush

Spec == Init /\ [][Next]_vars
-----------------------------------------------------------------------------
\* Properties

\* Types, and the bounds of the serial protocol: an unfinished command is
\* shorter than the command it can become, so the code's overflow reset of
\* command_bits_ (gba_save.cpp:224-228) never runs.
TypeOK ==
  /\ kind \in Kinds /\ dirty \in BOOLEAN
  /\ mem \in Contents(kind) /\ saved \in Contents(kind)
  /\ fstate \in FlashState /\ idMode \in BOOLEAN /\ bank \in 0..Banks - 1
  /\ typed \in Seq(Offsets \X Bytes)
  /\ cmd \in Seq(Bit) /\ readActive \in BOOLEAN
  /\ readBlock \in 0..Blocks - 1 /\ readIndex \in 0..3 + DataBits
  /\ Len(cmd) < WriteBits
  /\ Len(cmd) >= 2 => Op(cmd) \in {<<1, 1>>, <<1, 0>>}
  /\ Len(cmd) >= ReadBits => Op(cmd) = <<1, 0>>

\* The writes that have to come before the operand of a command.
ProgramUnlock == <<<<A1, K1>>, <<A2, K2>>, <<A1, 160>>>>
BankUnlock    == <<<<A1, K1>>, <<A2, K2>>, <<A1, 176>>>>
EraseUnlock   == <<<<A1, K1>>, <<A2, K2>>, <<A1, 128>>, <<A1, K1>>, <<A2, K2>>>>

\* The controller is armed only by the full sequence of consecutive writes the
\* chip's protocol asks for (gba_save.h:64): whatever a game writes in between
\* disarms it, so stray bus writes cannot program, erase or switch banks.
ArmedByUnlock ==
  /\ fstate = "program"      => typed = ProgramUnlock
  /\ fstate = "bank"         => typed = BankUnlock
  /\ fstate = "eraseUnlock2" => typed = EraseUnlock

\* What the protocol makes of the write w after the writes in typed: the cell at its
\* address in the selected bank is programmed, the chip is erased, or the sector
\* at its address; anything else leaves the memory alone.
Commanded(w) ==
  IF typed = ProgramUnlock THEN [mem EXCEPT ![<<bank, w[1]>>] = w[2]]
  ELSE IF typed = EraseUnlock /\ w = <<A1, 16>> THEN Blank("flash")
  ELSE IF typed = EraseUnlock /\ w[2] = 48
    THEN [c \in FlashCells |->
            IF c[1] = bank /\ Sector(c[2]) = Sector(w[1]) THEN 255 ELSE mem[c]]
  ELSE mem

FlashChange ==
  kind = "flash" =>
    /\ \A w \in FlashInput : mem' = Commanded(w) \/ ~FlashWrite(w[1], w[2])
    /\ mem' # mem => \E w \in FlashInput : FlashWrite(w[1], w[2])

\* A write to the flash window changes the memory exactly as the consecutive writes
\* before it command, at its own address, and nothing else changes it: a full command
\* takes effect, and every other cell, bank and sector survives every sequence of
\* writes (write_flash).
FlashChangesAsCommanded == [][FlashChange]_vars

\* A clean chip is exactly what the save file holds: no write of any chip is
\* lost by the dirty-gated flush_save.
CleanIsSaved == ~dirty => mem = saved

\* An EEPROM read returns four zero bits and then all bits of one block as it is now,
\* most significant bit first, whatever commands the game interleaves with it; a read
\* that ends without its last bit was broken off by a command.
ReadsOneBlock ==
  kind = "eeprom" =>
    /\ readActive => Len(out) = readIndex
    /\ ~readActive => Len(out) \in {0, 4 + DataBits}
    /\ \A i \in 1..Len(out) : out[i] = IF i <= 4 THEN 0 ELSE mem[readBlock][i - 4]
=============================================================================
