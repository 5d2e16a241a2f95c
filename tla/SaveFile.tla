------------------------------ MODULE SaveFile ------------------------------
(***************************************************************************)
(* How the battery memory reaches the disk (flush_save in                   *)
(* runtime/runtime.cpp): write a sibling temporary file, rename it over the *)
(* save file, and fall back to remove-then-rename where renaming over is    *)
(* refused.  flush_save runs on the game thread, between two steps, so the  *)
(* chip does not change under it; the process may be killed at any point,   *)
(* and the next session starts from what is on disk.  A savestate slot      *)
(* (debug/snapshot.cpp) is a second file: save_state truncates it and writes *)
(* in place, load_state takes it only whole.                                *)
(*                                                                         *)
(* The chip's contents are abstract (GbaSave models the chip); the disk and *)
(* the game are external.                                                   *)
(***************************************************************************)
CONSTANTS Contents,   \* complete contents of the chip
          Blank,      \* the contents of a chip with no save file
          Absent,     \* no such file
          Torn,       \* a file that was only partly written
          Faults      \* what the disk may refuse, of AllFaults

AllFaults == {"open",     \* the temporary file cannot be created
              "write",    \* a write fails and the stream reports it
              "close",    \* the bytes still buffered fail to reach the disk
              "rename",   \* renaming over an existing file is refused
              "remove",   \* removing the save file fails
              "rename2"}  \* renaming to a free name is refused

ASSUME ContentsAssumption ==
  /\ Blank \in Contents /\ Absent \notin Contents /\ Torn \notin Contents
  /\ Absent # Torn
ASSUME FaultsAssumption == Faults \subseteq AllFaults

VARIABLES
  mem,    \* the chip's contents; Torn when they were loaded from a torn file
  dirty,  \* GbaSave::dirty_
  file,   \* the save file
  tmp,    \* its ".tmp" sibling
  ppc,    \* position in flush_save; "down" between two sessions
  slot,   \* the slot's file: Absent, Torn, or a chip's [mem, dirty]
  safe,   \* the last completed save: what a flush_save reported, or start-up found
  restored, \* a savestate was loaded since the file was last written or read
  loss    \* how the last completed save has come to be gone from the save file

chipVars == <<mem, dirty>>
diskVars == <<file, tmp>>
vars == <<mem, dirty, file, tmp, ppc, slot, safe, restored, loss>>
ghostVars == <<safe, restored, loss>>

Any   == Contents \cup {Torn}
OnDisk == Any \cup {Absent}
Saved  == [mem : Any, dirty : BOOLEAN]

\* Not at all; both renames were refused; the process was killed between the remove
\* and the second rename; and after that a flush has truncated the temporary file.
Loss == {"none", "refused", "killed", "truncated"}

PC == {"play", "slot", "write", "rename", "remove", "rename2", "discard", "clear", "down"}

Loaded == IF file = Absent THEN Blank ELSE file

\* A first session with no save file, or with the one an earlier session left.
Init ==
  /\ file \in Contents \cup {Absent} /\ tmp = Absent
  /\ mem = Loaded /\ dirty = FALSE /\ safe = mem /\ restored = FALSE
  /\ ppc = "play" /\ slot = Absent /\ loss = "none"

\* A step that the disk refuses.
Refused(fault) == fault \in Faults
RenameRefused  == Refused(IF file = Absent THEN "rename2" ELSE "rename")

-----------------------------------------------------------------------------
\* The game, the savestate hotkeys, the process

\* The game writes the battery memory; a write of the same bytes is no change.
Write(c) ==
  /\ ppc = "play" /\ c # mem
  /\ mem' = c /\ dirty' = TRUE
  /\ UNCHANGED <<diskVars, ppc, slot, ghostVars>>

\* save_state truncates the slot first: what it held is gone.
SlotOpen ==
  /\ ppc = "play"
  /\ slot' = Torn /\ ppc' = "slot"
  /\ UNCHANGED <<chipVars, diskVars, ghostVars>>

\* One write of the whole snapshot, the chip and its dirty flag in it; a failed
\* write is reported, a failed close is not.
SlotWritten ==
  /\ ppc = "slot"
  /\ \/ slot' = [mem |-> mem, dirty |-> dirty]
     \/ (Refused("write") \/ Refused("close")) /\ UNCHANGED slot
  /\ ppc' = "play"
  /\ UNCHANGED <<chipVars, diskVars, ghostVars>>

\* Mutant: the sections are deserialized as they are found, none is checked first.
LoadUnchecked ==
  /\ ppc = "play" /\ slot # Absent
  /\ IF slot = Torn THEN mem' = Torn /\ dirty' = TRUE
                    ELSE mem' = slot.mem /\ dirty' = slot.dirty
  /\ restored' = TRUE
  /\ UNCHANGED <<diskVars, ppc, slot, safe, loss>>

\* load_state checks the header, the framing of every section and that none is
\* missing before it restores any: a torn slot changes nothing.
LoadState ==
  /\ ppc = "play" /\ slot \notin {Absent, Torn}
  /\ mem' = slot.mem /\ dirty' = slot.dirty /\ restored' = TRUE
  /\ UNCHANGED <<diskVars, ppc, slot, safe, loss>>

\* The process dies, in flush_save or out of it.
Crash ==
  /\ ppc # "down"
  /\ ppc' = "down"
  /\ loss' = IF ppc \in {"rename2", "discard"} /\ file = Absent THEN "killed" ELSE loss
  /\ UNCHANGED <<chipVars, diskVars, slot, safe, restored>>

\* Mutant: the save file is loaded without the test that it exists.
BootUnchecked ==
  /\ ppc = "down"
  /\ mem' = file /\ dirty' = FALSE /\ safe' = mem' /\ restored' = FALSE
  /\ ppc' = "play"
  /\ UNCHANGED <<diskVars, slot, loss>>

\* A new session loads the save file, whatever its length up to the chip's size; it
\* never looks at the temporary file.  Finding no save file does not undo the saves
\* that were completed before.
Boot ==
  /\ ppc = "down"
  /\ mem' = Loaded /\ dirty' = FALSE /\ restored' = FALSE
  /\ IF file = Absent THEN UNCHANGED <<safe, loss>> ELSE safe' = file /\ loss' = "none"
  /\ ppc' = "play"
  /\ UNCHANGED <<diskVars, slot>>

-----------------------------------------------------------------------------
\* flush_save

AfterTruncate == IF loss = "killed" THEN "truncated" ELSE loss

\* Mutant: the dirty flag is cleared before the file is in place.
OpenClearsDirty ==
  /\ ppc = "play" /\ dirty
  /\ tmp' = Torn /\ loss' = AfterTruncate /\ ppc' = "write" /\ dirty' = FALSE
  /\ UNCHANGED <<mem, file, slot, safe, restored>>

\* Gated by the dirty flag; opening truncates.
Open ==
  /\ ppc = "play" /\ dirty
  /\ tmp' = Torn /\ loss' = AfterTruncate /\ ppc' = "write"
  /\ UNCHANGED <<chipVars, file, slot, safe, restored>>

\* A failed open gives up and leaves the flag set.
OpenFails ==
  /\ ppc = "play" /\ dirty /\ Refused("open")
  /\ UNCHANGED vars

\* write_file tests the stream after write() and closes it by destruction:
\* an error that only the close meets goes unseen.
Written ==
  /\ ppc = "write"
  /\ \/ tmp' = mem
     \/ Refused("close") /\ UNCHANGED tmp
  /\ ppc' = "rename"
  /\ UNCHANGED <<chipVars, file, slot, ghostVars>>

WriteFails ==
  /\ ppc = "write" /\ Refused("write")
  /\ ppc' = "play"
  /\ UNCHANGED <<chipVars, diskVars, slot, ghostVars>>

\* Mutant: a refused rename is taken for a done one.
RenameUnchecked ==
  /\ ppc = "rename"
  /\ \/ file' = tmp /\ tmp' = Absent
     \/ RenameRefused /\ UNCHANGED diskVars
  /\ ppc' = "clear"
  /\ UNCHANGED <<chipVars, slot, ghostVars>>

\* The rename is atomic: done or refused.
Rename ==
  /\ ppc = "rename"
  /\ \/ file' = tmp /\ tmp' = Absent /\ ppc' = "clear"
     \/ RenameRefused /\ ppc' = "remove" /\ UNCHANGED diskVars
  /\ UNCHANGED <<chipVars, slot, ghostVars>>

\* The fallback's remove; its error is ignored, and the second rename is tried.
Remove ==
  /\ ppc = "remove"
  /\ file' = Absent \/ (Refused("remove") /\ UNCHANGED file)
  /\ ppc' = "rename2"
  /\ UNCHANGED <<chipVars, tmp, slot, ghostVars>>

Rename2 ==
  /\ ppc = "rename2"
  /\ \/ file' = tmp /\ tmp' = Absent /\ ppc' = "clear"
     \/ RenameRefused /\ ppc' = "discard" /\ UNCHANGED diskVars
  /\ UNCHANGED <<chipVars, slot, ghostVars>>

\* Both renames failed: the temporary file is removed, the flag stays set.
Discard ==
  /\ ppc = "discard"
  /\ tmp' = Absent /\ ppc' = "play"
  /\ loss' = IF file = Absent THEN "refused" ELSE loss
  /\ UNCHANGED <<chipVars, file, slot, safe, restored>>

Clear ==
  /\ ppc = "clear"
  /\ dirty' = FALSE /\ safe' = mem /\ restored' = FALSE /\ loss' = "none"
  /\ ppc' = "play"
  /\ UNCHANGED <<mem, diskVars, slot>>

Flush == Open \/ OpenFails \/ Written \/ WriteFails \/ Rename \/ Remove
         \/ Rename2 \/ Discard \/ Clear

Next == \/ \E c \in Contents : Write(c)
        \/ SlotOpen \/ SlotWritten \/ LoadState \/ Crash \/ Boot \/ Flush

Spec == Init /\ [][Next]_vars
-----------------------------------------------------------------------------
\* Properties

\* The files hold nothing, complete contents or a torn write.
TypeOK ==
  /\ loss \in Loss
  /\ mem \in Any /\ safe \in Any /\ dirty \in BOOLEAN /\ restored \in BOOLEAN
  /\ file \in OnDisk /\ tmp \in OnDisk
  /\ ppc \in PC
  /\ slot \in {Absent, Torn} \cup Saved

\* A kill at any point leaves the save file complete or absent, never half
\* written, provided every failed write is reported (runtime.cpp:1682-1688); and
\* nothing half written reaches the chip, neither from the save file nor from a
\* slot cut by a kill or a full disk (snapshot.h:129-130), from where a later
\* flush would carry it into the save file (snapshot.cpp:141-250).
NeverTorn == file # Torn /\ mem # Torn

\* The last completed save stays in the save file while a newer one is written, and
\* once the save file is gone or replaced the newer one is complete, in the save file
\* or in the temporary file.  It is lost in two ways only: both renames are refused
\* (runtime.cpp:1701-1708), or the process is killed between the remove and the second
\* rename (1700-1701).  Then the newer save is still complete in the temporary file,
\* until the next session, which starts blank, truncates it.
NoCompletedSaveIsLost ==
  /\ loss = "none" => \/ file = safe
                      \/ file = Absent /\ safe = Blank
                      \/ ppc \in {"clear", "down"} /\ file = mem
                      \/ ppc \in {"rename2", "discard"} /\ tmp = mem
  /\ loss = "killed" => tmp \in Contents

\* A clean chip holds what the save file holds, so skipping the flush of a
\* clean chip loses nothing, except after a savestate load, which restores the
\* flag of another time (gba_save.cpp:99-101).
CleanIsOnDisk ==
  (ppc = "play" /\ ~dirty /\ ~restored) => (file = mem \/ (file = Absent /\ mem = Blank))

\* runtime.cpp:1682 "A crash / kill mid-write can then only ever lose the temp
\* file - the real save file is either the previous complete state or the new
\* complete state, never a torn/half-written mix".
SaveFileComplete == file \in {safe, mem} \/ (file = Absent /\ safe = Blank)
=============================================================================
