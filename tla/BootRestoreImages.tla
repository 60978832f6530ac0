--------------------------- MODULE BootRestoreImages ---------------------------
(***************************************************************************)
(* The two images of the boot restore (BMCU_BOOT_RESTORE_LOADED 1 and 0)   *)
(* side by side: the same flash, and the same commands, switches,          *)
(* retractions, saves and power cuts.  "ram" and "pos" are those of the    *)
(* default image, which restores at boot.                                  *)
(***************************************************************************)
EXTENDS LoadedChannel

VARIABLES off, posOff,    \* the image that waits for the printer's first reference
          taken           \* the printer has referenced the restored channel

images == <<vars, off, posOff, taken>>

Off == INSTANCE LoadedChannel WITH ram <- off, pos <- posOff

ImagesInit ==
  /\ Init /\ ram.atBoot
  /\ Off!Init /\ ~off.atBoot
  /\ taken = FALSE

BootBoth == Boot /\ Off!Boot /\ taken' = FALSE

CommandBoth(cmd, late) ==
  /\ Command(cmd, late) /\ Off!Command(cmd, late)
  /\ taken' = (taken \/ (ram.restore # None /\ References(ram.restore, cmd[1], cmd[2])))

MotionBoth ==
  \E error \in BOOLEAN, ended \in SUBSET Channels :
    /\ \A c \in ended : Retracting(c) \/ Off!Retracting(c)
    /\ Motion_control_run(error, ended) /\ Off!Motion_control_run(error, ended)

PowerCutBoth == PowerCut /\ Off!PowerCut /\ taken' = FALSE

ImagesNext ==
  \/ BootBoth \/ PowerCutBoth
  \/ \E cmd \in Commands, late \in BOOLEAN : CommandBoth(cmd, late)
  \/ /\ UNCHANGED taken
     /\ \/ NoCommand /\ Off!NoCommand
        \/ NoSave /\ Off!NoSave
        \/ Save /\ Off!Save
        \/ MotionBoth
        \/ LogCommit /\ Off!LogCommit
        \/ LogAcknowledge /\ Off!LogAcknowledge

ImagesSpec == ImagesInit /\ [][ImagesNext]_images

-----------------------------------------------------------------------------
\* "From the printer's first reference on the same state, command by command, as with 1"
\* (test_boot_restore), the positions of the motors included.
SameOnceTaken == taken => off = [ram EXCEPT !.atBoot = FALSE] /\ posOff = pos

\* What the printer is told: with no active channel the use flag is sent as 0.
Reported(r) == <<r.num, r.motion, IF r.num = None THEN 0 ELSE r.useFlag>>

\* Both images agree at any time on what a power cut would leave; the printer sees a
\* difference only while the restore is pending, which it is in both or in neither.
DifferOnlyWhilePending ==
  /\ off.restore = ram.restore
  /\ off.loaded = ram.loaded /\ off.dirty = ram.dirty /\ off.value = ram.value
  /\ ram.restore = None => Reported(off) = Reported(ram)

\* What a power cut leaves never depends on the image, and from the printer's first reference
\* on nothing does; before it the printer sees a difference only while the restore is pending.
ImagesAgree == SameOnceTaken /\ DifferOnlyWhilePending
==============================================================================
