-------------------------- MODULE CalibrationStore --------------------------
(***************************************************************************)
(* The buffer calibration and the motor directions in the NVM sector, from *)
(* the boot that reads or measures them to the gesture that clears them    *)
(* (Flash_saves.cpp, MC_PULL_calibration_boot, MOTOR_get_dir,              *)
(* calibration_reset_and_reboot).                                          *)
(*                                                                         *)
(* The calibration alternates between two pages and the newer one is read; *)
(* the directions have one page.  A page is written by an erase, then its  *)
(* words, the first one last; in between it cannot be read.  Power may     *)
(* fail, and the flash may fail to do what it is told, at every step.      *)
(***************************************************************************)
EXTENDS Integers, FiniteSets

CONSTANTS Buffers,
          SeqRange   \* sequence numbers: 2^16 in the code

ASSUME StoreAssumption == SeqRange \in Nat /\ SeqRange >= 4 /\ SeqRange % 2 = 0

CONSTANT Unreadable
ASSUME UnreadableAssumption ==
  Unreadable \notin [seq : 0..(SeqRange - 1), valid : SUBSET Buffers] \cup [Buffers -> {0, 1, -1}]

Slots   == {0, 1}
Records == [seq : 0..(SeqRange - 1), valid : SUBSET Buffers]
Dirs    == [Buffers -> {0, 1, -1}]
Stages  == {"off", "measure", "erase cal", "program cal", "learn", "erase dirs", "program dirs",
            "run", "erase cleared", "program cleared", "clear dirs"}

VARIABLES cal,      \* the two calibration pages
          dirs,     \* the page of the motor directions
          stage,    \* what the firmware is doing
          selected, \* filament_channel_inserted at boot
          valid,    \* g_valid_mask
          dir,      \* Motion_control_dir in RAM
          fault,    \* g_flash_fault
          job,      \* the calibration record being written and its slot
          restarted \* history: the gesture, not a power cut, ended the last run

storeVars == <<cal, dirs, stage, selected, valid, dir, fault, job, restarted>>

NoDirs == [c \in Buffers |-> 0]

(* Mutant: the sequence numbers are compared as they are. *)
NewerUnsigned(a, b) == a > b

(* nvm_cal_take: the difference as a signed number is positive.             *)
Newer(a, b) == (a - b) % SeqRange \in 1..(SeqRange \div 2 - 1)

Readable(s) == cal[s] # Unreadable

(* cal_latest: the slot of the newest record.                               *)
Have   == \E s \in Slots : Readable(s)
Latest == IF Readable(0) /\ ~(Readable(1) /\ Newer(cal[1].seq, cal[0].seq)) THEN 0 ELSE 1
Stored == IF Have THEN cal[Latest].valid ELSE {}

nvm_cal_write_slot(have, latest) == IF have /\ latest = 0 THEN 1 ELSE 0

nvm_cal_next_seq(have) == IF have THEN (cal[Latest].seq + 1) % SeqRange ELSE 0

Job(v) == [slot |-> nvm_cal_write_slot(Have, Latest), rec |-> [seq |-> nvm_cal_next_seq(Have), valid |-> v]]

StoreInit ==
  /\ cal = [s \in Slots |-> Unreadable] /\ dirs = Unreadable
  /\ stage = "off" /\ selected = {} /\ valid = {} /\ dir = NoDirs /\ fault = FALSE
  /\ job = [slot |-> 0, rec |-> [seq |-> 0, valid |-> {}]]
  /\ restarted = FALSE
-----------------------------------------------------------------------------

StoredFor(in) == in

(* Boot: the calibration of the inserted channels is stored, or measured.   *)
Boot ==
  /\ stage = "off"
  /\ \E in \in SUBSET Buffers :
       /\ selected' = in
       /\ stage' = IF in = {} \/ (Have /\ in \subseteq Stored) THEN "learn" ELSE "measure"
       /\ valid' = IF Have /\ in \subseteq Stored THEN StoredFor(in) ELSE {}
  /\ fault' = FALSE /\ dir' = NoDirs /\ restarted' = FALSE
  /\ UNCHANGED <<cal, dirs, job>>

Measured ==
  /\ stage = "measure" /\ ~fault /\ stage' = "erase cal" /\ job' = Job(selected)
  /\ UNCHANGED <<cal, dirs, selected, valid, dir, fault, restarted>>

(* The measurement, or the write of it, fails. *)
MeasureFails ==
  /\ stage = "measure" /\ stage' = "learn"
  /\ UNCHANGED <<cal, dirs, selected, valid, dir, fault, job, restarted>>

(* The two halves of cal_commit; ok: the flash did it.  A clear goes on to  *)
(* the directions, a calibration to the rest of the boot.                   *)
EraseCal(ok) ==
  /\ stage \in {"erase cal", "erase cleared"}
  /\ cal' \in IF ok THEN {[cal EXCEPT ![job.slot] = Unreadable]}
              ELSE {cal, [cal EXCEPT ![job.slot] = Unreadable]}
  /\ fault' = ~ok
  /\ stage' = IF ok THEN IF stage = "erase cal" THEN "program cal" ELSE "program cleared"
              ELSE IF stage = "erase cal" THEN "learn" ELSE "run"
  /\ UNCHANGED <<dirs, selected, valid, dir, job, restarted>>

(* The first word, which makes the record readable, is programmed last; the *)
(* verification after it may still fail.                                    *)
ProgramCal(ok) ==
  /\ stage \in {"program cal", "program cleared"}
  /\ cal' \in IF ok THEN {[cal EXCEPT ![job.slot] = job.rec]} ELSE {cal, [cal EXCEPT ![job.slot] = job.rec]}
  /\ fault' = ~ok
  /\ valid' = IF ok /\ stage = "program cal" THEN selected ELSE {}
  /\ stage' = IF stage = "program cal" THEN "learn" ELSE IF ok THEN "clear dirs" ELSE "run"
  /\ UNCHANGED <<dirs, selected, dir, job, restarted>>

Learned(turned, how) ==
  [c \in Buffers |-> IF c \in turned THEN how[c] ELSE IF dirs = Unreadable THEN 0 ELSE dirs[c]]

(* Which channels MOTOR_get_dir turns: the direction is not known.          *)
Unknown == {c \in selected \cap valid : dirs = Unreadable \/ dirs[c] = 0}

(* The directions are read, and learned and saved where they are unknown    *)
(* and the motor is seen to turn.                                           *)
MOTOR_get_dir ==
  /\ stage = "learn"
  /\ \E turned \in SUBSET Unknown : \E how \in [turned -> {1, -1}] :
       /\ dir' = Learned(turned, how)
       /\ stage' = IF turned = {} \/ fault THEN "run" ELSE "erase dirs"
  /\ UNCHANGED <<cal, dirs, selected, valid, fault, job, restarted>>

(* Motion_control_save, whose result is not looked at.                      *)
EraseDirs(ok) ==
  /\ stage = "erase dirs"
  /\ dirs' \in IF ok THEN {Unreadable} ELSE {dirs, Unreadable}
  /\ fault' = ~ok
  /\ stage' = IF ok THEN "program dirs" ELSE "run"
  /\ UNCHANGED <<cal, selected, valid, dir, job, restarted>>

ProgramDirs(ok) ==
  /\ stage = "program dirs"
  /\ dirs' \in IF ok THEN {dir} ELSE {dirs, dir}
  /\ fault' = ~ok
  /\ stage' = "run"
  /\ UNCHANGED <<cal, selected, valid, dir, job, restarted>>

-----------------------------------------------------------------------------
(* The gesture: a calibrated buffer pressed long enough with no filament.   *)
calibration_reset_and_reboot ==
  /\ stage = "run" /\ selected \cap valid # {}
  /\ valid' = {}
  /\ IF fault THEN stage' = "run" /\ UNCHANGED job
     ELSE stage' = "erase cleared" /\ job' = Job({})
  /\ UNCHANGED <<cal, dirs, selected, dir, fault, restarted>>

(* Mutant: the reset goes on when the flash failed. *)
RebootsAnyway(ok) == "off"

AfterClear(ok) == IF ok THEN "off" ELSE "run"

(* Both are cleared: the controller restarts.                               *)
ClearDirs(ok) ==
  /\ stage = "clear dirs"
  /\ dirs' \in IF ok THEN {Unreadable} ELSE {dirs, Unreadable}
  /\ fault' = ~ok
  /\ stage' = AfterClear(ok) /\ restarted' = (stage' = "off")
  /\ UNCHANGED <<cal, selected, valid, dir, job>>

(* Another write of the firmware meets a flash that fails.                  *)
FlashFault ==
  /\ stage \in {"measure", "run"} /\ fault' = TRUE
  /\ UNCHANGED <<cal, dirs, stage, selected, valid, dir, job, restarted>>

(* Power fails.  A page that is being erased may have been.                 *)
PowerCut ==
  /\ stage # "off" /\ stage' = "off"
  /\ cal' \in IF stage \in {"erase cal", "erase cleared"} THEN {cal, [cal EXCEPT ![job.slot] = Unreadable]}
              ELSE {cal}
  /\ dirs' \in IF stage \in {"erase dirs", "clear dirs"} THEN {dirs, Unreadable} ELSE {dirs}
  /\ UNCHANGED <<selected, valid, dir, fault, job, restarted>>

StoreNext ==
  \/ Boot \/ Measured \/ MeasureFails \/ MOTOR_get_dir \/ calibration_reset_and_reboot
  \/ FlashFault \/ PowerCut
  \/ \E ok \in BOOLEAN : EraseCal(ok) \/ ProgramCal(ok) \/ EraseDirs(ok) \/ ProgramDirs(ok) \/ ClearDirs(ok)

StoreSpec == StoreInit /\ [][StoreNext]_storeVars
-----------------------------------------------------------------------------
StoreTypeOK ==
  /\ cal \in [Slots -> Records \cup {Unreadable}] /\ dirs \in Dirs \cup {Unreadable}
  /\ stage \in Stages /\ selected \in SUBSET Buffers /\ valid \in SUBSET selected
  /\ dir \in Dirs /\ fault \in BOOLEAN /\ restarted \in BOOLEAN
  /\ job \in [slot : Slots, rec : Records]

(* Two readable records are in order: one is the successor of the other, so *)
(* the comparison across the wrap says which.                               *)
SlotsInOrder ==
  Readable(0) /\ Readable(1) => (cal[0].seq - cal[1].seq) % SeqRange \in {1, SeqRange - 1}

(* What the next boot reads changes with the word that completes a record,  *)
(* and then it is that record: a power cut or a flash error before it       *)
(* leaves the calibration as it was, also while it is being cleared.        *)
CalibrationIsAtomic ==
  [][IF stage \in {"program cal", "program cleared"} /\ cal'[job.slot] = job.rec
     THEN Have' /\ Stored' = job.rec.valid
     ELSE Have => Have' /\ Stored' = Stored]_storeVars

(* The gesture restarts the controller only with both cleared, and the      *)
(* directions never go before the calibration.                              *)
ResetClearsBoth ==
  /\ stage = "clear dirs" => Have /\ Stored = {}
  /\ restarted => Have /\ Stored = {} /\ dirs = Unreadable

(* What the motors run on is what the flash holds, unless a write failed.   *)
RunsOnStored ==
  stage = "run" /\ ~fault =>
    /\ valid # {} => valid \subseteq Stored
    /\ dirs # Unreadable => dirs = dir

(* The pages agree with each other and with what runs on them.              *)
PagesAgree == SlotsInOrder /\ ResetClearsBoth /\ RunsOnStored
=============================================================================
