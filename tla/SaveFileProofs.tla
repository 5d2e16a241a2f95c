--------------------------- MODULE SaveFileProofs ---------------------------
(***************************************************************************)
(* Proofs about SaveFile, for every set of contents and every set of faults *)
(* the disk reports: the inductive invariant SaveInv says, for each position *)
(* in flush_save, where the last completed save and the one being written   *)
(* are.                                                                     *)
(***************************************************************************)
EXTENDS SaveFile, TLAPS

\* Every failed write is reported; an unseen failure at the close is the run
\* save_file_close.
FailuresReported == "close" \notin Faults

\* The last completed save is in the save file, or there never was one.
SafeOnDisk == file = safe \/ (file = Absent /\ safe = Blank)

\* No copy the program may still use is half written.
NothingTorn ==
  /\ mem # Torn /\ file # Torn /\ safe # Torn
  /\ slot \notin {Absent, Torn} => slot.mem # Torn

\* Where the two saves are at each position: the newer one is whole before the older
\* one is removed, and unless the older one was lost it is there until then.
WhereSaved ==
  /\ ppc \in {"rename", "remove", "rename2", "discard"} => tmp = mem
  /\ loss = "none" =>
       \/ SafeOnDisk
       \/ ppc \in {"clear", "down"} /\ file = mem
       \/ ppc \in {"rename2", "discard"} /\ file = Absent
  /\ ppc = "clear" => file = mem

\* After a kill in the window there is no save file, but the newer save is whole in
\* the temporary file until a flush begins.
OrphanKept ==
  loss = "killed" => ppc \in {"down", "play", "slot"} /\ file = Absent /\ tmp \in Contents

\* A clean chip is on the disk, also while a slot is written.
CleanSaved ==
  ppc \in {"play", "slot"} /\ ~dirty /\ ~restored =>
    (file = mem \/ (file = Absent /\ mem = Blank))

\* A flush is under way only for a dirty chip.
FlushIsDirty ==
  ppc \in {"write", "rename", "remove", "rename2", "discard", "clear"} => dirty

SaveInv == TypeOK /\ NothingTorn /\ WhereSaved /\ OrphanKept /\ CleanSaved /\ FlushIsDirty

USE ContentsAssumption, FaultsAssumption

-----------------------------------------------------------------------------
\* Types hold whatever the disk refuses.
LEMMA TypeInit == Init => TypeOK
  BY DEF Init, TypeOK, Loaded, Any, OnDisk, PC, Loss

LEMMA TypeStep == TypeOK /\ [Next]_vars => TypeOK'
<1> SUFFICES ASSUME TypeOK, [Next]_vars PROVE TypeOK'
  OBVIOUS
<1> USE DEF TypeOK, Any, OnDisk, Saved, PC, Loss, chipVars, diskVars, ghostVars
<1>1. ASSUME NEW c \in Contents, Write(c) PROVE TypeOK'
  BY <1>1 DEF Write
<1>2. CASE SlotOpen
  BY <1>2 DEF SlotOpen
<1>3. CASE SlotWritten
  BY <1>3 DEF SlotWritten
<1>4. CASE LoadState
  BY <1>4 DEF LoadState
<1>5. CASE Crash
  BY <1>5 DEF Crash
<1>6. CASE Boot
  BY <1>6 DEF Boot, Loaded
<1>7. CASE Flush
  BY <1>7 DEF Flush, Open, AfterTruncate, OpenFails, Written, WriteFails, Rename, Remove,
              Rename2, Discard, Clear, vars
<1>8. CASE UNCHANGED vars
  BY <1>8 DEF vars
<1>9. QED
  BY <1>1, <1>2, <1>3, <1>4, <1>5, <1>6, <1>7, <1>8 DEF Next

\* TypeOK: the chip, the files and the slot hold nothing, complete contents or a
\* torn write, whatever fails.
THEOREM TypeCorrect == Spec => []TypeOK
  BY TypeInit, TypeStep, PTL DEF Spec

-----------------------------------------------------------------------------
\* The inductive invariant.
LEMMA SaveInit == Init => SaveInv
<1> SUFFICES ASSUME Init PROVE SaveInv
  OBVIOUS
<1>1. TypeOK
  BY TypeInit
<1>2. NothingTorn /\ WhereSaved /\ OrphanKept /\ CleanSaved /\ FlushIsDirty
  BY DEF Init, Loaded, NothingTorn, Saved, WhereSaved, SafeOnDisk, OrphanKept,
         CleanSaved, FlushIsDirty
<1>3. QED
  BY <1>1, <1>2 DEF SaveInv

LEMMA SaveStep ==
  ASSUME FailuresReported, SaveInv, [Next]_vars
  PROVE  SaveInv'
<1>0. TypeOK'
  BY TypeStep DEF SaveInv
<1> USE DEF SaveInv, TypeOK, Saved, Any, OnDisk, PC, Loss, NothingTorn, WhereSaved,
            SafeOnDisk, OrphanKept, CleanSaved, FlushIsDirty, chipVars, diskVars, ghostVars
<1>1. ASSUME NEW c \in Contents, Write(c) PROVE SaveInv'
  BY <1>0, <1>1 DEF Write
<1>2. CASE SlotOpen
  BY <1>0, <1>2 DEF SlotOpen
<1>3. CASE SlotWritten
  BY <1>0, <1>3 DEF SlotWritten
<1>4. CASE LoadState
  BY <1>0, <1>4 DEF LoadState
<1>5. CASE Crash
  BY <1>0, <1>5 DEF Crash
<1>6. CASE Boot
  BY <1>0, <1>6 DEF Boot, Loaded
<1>7. CASE Open
  BY <1>0, <1>7 DEF Open, AfterTruncate
<1>8. CASE Written
  BY <1>0, <1>8 DEF Written, Refused, FailuresReported
<1>9. CASE WriteFails
  BY <1>0, <1>9 DEF WriteFails
<1>10. CASE Rename
  BY <1>0, <1>10 DEF Rename
<1>11. CASE Remove
  BY <1>0, <1>11 DEF Remove
<1>12. CASE Rename2
  BY <1>0, <1>12 DEF Rename2
<1>13. CASE Discard
  BY <1>0, <1>13 DEF Discard
<1>14. CASE Clear
  BY <1>0, <1>14 DEF Clear
<1>15. CASE UNCHANGED vars
  BY <1>15 DEF vars
<1>16. QED
  BY <1>1, <1>2, <1>3, <1>4, <1>5, <1>6, <1>7, <1>8, <1>9, <1>10, <1>11, <1>12,
     <1>13, <1>14, <1>15 DEF Next, Flush, OpenFails

LEMMA SaveInvImplies ==
  SaveInv => NeverTorn /\ NoCompletedSaveIsLost /\ CleanIsOnDisk
  BY DEF SaveInv, TypeOK, PC, NothingTorn, WhereSaved, SafeOnDisk, OrphanKept,
         CleanSaved, NeverTorn, NoCompletedSaveIsLost, CleanIsOnDisk

LEMMA SaveInvariant == ASSUME FailuresReported PROVE Spec => []SaveInv
<1>1. SaveInv /\ [Next]_vars => SaveInv'
  BY SaveStep
<1>2. QED
  BY SaveInit, <1>1, PTL DEF Spec

\* A kill at any point, with any reported disk error, leaves the save file
\* complete or absent, and no half-written bytes reach the chip, from the save
\* file or from a slot.
THEOREM NothingIsTorn == ASSUME FailuresReported PROVE Spec => []NeverTorn
  BY SaveInvariant, SaveInvImplies, PTL

\* The last completed save is lost only if both renames of a flush are refused or if
\* the process is killed between the remove and the second rename, and in the second
\* case the newer save stays whole in the temporary file until a flush truncates it.
THEOREM NoSaveIsLost == ASSUME FailuresReported PROVE Spec => []NoCompletedSaveIsLost
  BY SaveInvariant, SaveInvImplies, PTL

\* A flush skipped for a clean chip skips nothing.
THEOREM CleanOnDisk == ASSUME FailuresReported PROVE Spec => []CleanIsOnDisk
  BY SaveInvariant, SaveInvImplies, PTL
=============================================================================
