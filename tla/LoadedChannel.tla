---------------------------- MODULE LoadedChannel ----------------------------
(***************************************************************************)
(* The main loop around the loaded channel: a printer command, the save of *)
(* the loaded channel, then motor control, pass after pass; with power     *)
(* cuts at any moment and the boot that follows.  The loaded-channel log   *)
(* is NvStore, which FlashSaves implements.                                *)
(***************************************************************************)
EXTENDS AmsState

CONSTANTS Calibrated,    \* channels with a valid buffer calibration
          NoPending

ASSUME CalibratedAssumption == Calibrated \subseteq Channels
ASSUME NoPendingAssumption == NoPending \notin {"sta"} \X Loaded

VARIABLES
  ram,       \* the AMS state
  pos,       \* filament_now_position, as far as pull backs go
  key,       \* MC_ONLINE_key_stu # 0
  pass,      \* where the main loop is: "off", "bus", "nvm" or "motion"
  blank,     \* g_sta_have_saved = 0: the log has no record at all
  stored, known, pending, stuck      \* the loaded-channel log

log  == <<stored, known, pending, stuck>>
vars == <<ram, pos, key, pass, blank, log>>

Log == INSTANCE NvStore WITH Regs <- {"sta"}, Vals <- Loaded

StaReg(l) == [r \in {"sta"} |-> l]

Positions == {"other", "pulling_back", "redetect"}

TypeOK ==
  /\ ram \in RamStates
  /\ pos \in [Channels -> Positions]
  /\ key \in [Channels -> BOOLEAN]
  /\ pass \in {"off", "bus", "nvm", "motion"}
  /\ blank \in BOOLEAN
  /\ Log!TypeOK

NoPos == [c \in Channels |-> "other"]

Init ==
  /\ \E atBoot \in BOOLEAN : ram = RamInit(atBoot, None)
  /\ pos = NoPos
  /\ key = [c \in Channels |-> FALSE]
  /\ pass = "off"
  /\ blank = TRUE
  /\ Log!Init /\ stored = StaReg(None)

-----------------------------------------------------------------------------
\* main, up to its loop.
Boot ==
  /\ pass = "off"
  /\ key' \in [Channels -> BOOLEAN]
  /\ ram' = BootChecked(Restored(RamInit(ram.atBoot, known["sta"])),
                        {c \in Calibrated : key'[c]})
  /\ pass' = "bus"
  /\ UNCHANGED <<pos, blank, log>>

\* bambubus_run: no command on this pass, or one.
NoCommand ==
  /\ pass = "bus" /\ pass' = "nvm"
  /\ UNCHANGED <<ram, pos, key, blank, log>>

Command(cmd, late) ==
  /\ pass = "bus" /\ pass' = "nvm"
  /\ ram' = set_motion(ram, cmd[1], cmd[2], late)
  /\ UNCHANGED <<pos, key, blank, log>>

\* The bus leaves no time for a save, a filament record is under way, or there is none to do.
NoSave ==
  /\ pass = "nvm" /\ pass' = "motion"
  /\ UNCHANGED <<ram, pos, key, blank, log>>

\* Variant for mutation: the save is over once it is queued.
SaveOnce ==
  /\ pass = "nvm" /\ pass' = "motion"
  /\ ram.dirty
  /\ pending = NoPending /\ ~stuck
  /\ ram' = [ram EXCEPT !.dirty = FALSE]
  /\ IF ~blank /\ known["sta"] = ram.value THEN UNCHANGED log
     ELSE Log!Queue /\ pending' = <<"sta", ram.value>>
  /\ UNCHANGED <<pos, key, blank>>

\* ams_state_save_run: asked again every pass until the log says it holds the value.
Save ==
  /\ pass = "nvm" /\ pass' = "motion"
  /\ ram.dirty
  /\ pending = NoPending /\ ~stuck
  /\ IF ~blank /\ known["sta"] = ram.value
     THEN /\ ram' = [ram EXCEPT !.dirty = FALSE]
          /\ UNCHANGED log
     ELSE /\ Log!Queue /\ pending' = <<"sta", ram.value>>
          /\ UNCHANGED ram
  /\ UNCHANGED <<pos, key, blank>>

\* The log does its part, and the watchdog or the power may end it all.
LogCommit == Log!Commit /\ UNCHANGED <<ram, pos, key, pass, blank>>
LogAcknowledge == Log!Acknowledge /\ blank' = FALSE /\ UNCHANGED <<ram, pos, key, pass>>
LogStick == ~stuck /\ Log!Stick /\ UNCHANGED <<ram, pos, key, pass, blank>>

PowerCut ==
  /\ pass # "off" /\ pass' = "off"
  /\ Log!Crash
  /\ blank' \in {blank} \cup (IF pending = NoPending THEN {} ELSE {FALSE})
  /\ blank' => stored' = StaReg(None)
  /\ ram' = RamInit(ram.atBoot, None)
  /\ pos' = NoPos
  /\ key' = [c \in Channels |-> FALSE]

-----------------------------------------------------------------------------
(* Motion_control_run.                                                     *)

Retracting(c) == pos[c] \in {"pulling_back", "redetect"}

\* Variant for mutation: a redetect starts the pull back over while the printer commands it.
RetractPassAgain(r, ended) ==
  /\ \E c \in Channels : Retracting(c)
  /\ pos' = [c \in Channels |->
               IF c \notin ended THEN pos[c]
               ELSE IF pos[c] = "pulling_back" THEN "redetect"
               ELSE IF r.motion[c] = "pull_back" THEN "pulling_back" ELSE "other"]
  /\ ram' = r

\* motor_motion_filamnet_pull_back_to_online_key: each retraction goes on or ends.
RetractPass(r, ended) ==
  /\ \E c \in Channels : Retracting(c)
  /\ pos' = [c \in Channels |->
               IF c \notin ended THEN pos[c]
               ELSE IF pos[c] = "pulling_back" THEN "redetect" ELSE "other"]
  /\ LET idle == {c \in ended : pos[c] = "redetect"}
     IN  ram' = [r EXCEPT !.useFlag = IF idle = {} THEN @ ELSE 0,
                          !.motion = [c \in Channels |-> IF c \in idle THEN "idle" ELSE @[c]]]

\* motor_motion_switch: a pull back starts, or ends at once without a valid calibration.
SwitchPass(r) ==
  /\ \A c \in Channels : ~Retracting(c)
  /\ LET pulls == r.num # None /\ key'[r.num] /\ r.motion[r.num] = "pull_back"
     IN  /\ ram' = IF pulls /\ r.num \notin Calibrated THEN WentIdle(r, r.num) ELSE r
         /\ pos' = IF pulls /\ r.num \in Calibrated
                   THEN [NoPos EXCEPT ![r.num] = "pulling_back"] ELSE NoPos

\* error: the link to the printer is lost.
Motion_control_run(error, ended) ==
  /\ pass = "motion" /\ pass' = "bus"
  /\ key' \in [Channels -> BOOLEAN]
  /\ LET r == EmptyUnloaded(ram, key')
     IN  IF error THEN ram' = r /\ UNCHANGED pos
         ELSE RetractPass(r, ended) \/ SwitchPass(r)
  /\ UNCHANGED <<blank, log>>

Motion ==
  \E error \in BOOLEAN : \E ended \in SUBSET {c \in Channels : Retracting(c)} :
     Motion_control_run(error, ended)

Next ==
  \/ Boot \/ NoCommand \/ NoSave \/ Save \/ Motion
  \/ \E cmd \in Commands, late \in BOOLEAN : Command(cmd, late)
  \/ LogCommit \/ LogAcknowledge \/ LogStick \/ PowerCut

Spec == Init /\ [][Next]_vars

-----------------------------------------------------------------------------
(* What must hold.                                                         *)

\* One channel at a time: only the active one has a motion, whatever order of commands,
\* retractions and unloads led here (motor_motion_switch drives no other).
OneChannelMoves == \A c \in Channels : ram.motion[c] # "idle" => ram.num = c

\* The channel the firmware calls loaded is the active one, unless its restore still
\* waits for the printer (boot_restore.h, option 0).
LoadedIsActive == ram.loaded # None => ram.num = ram.loaded \/ (~ram.atBoot /\ ram.restore = ram.loaded)

\* While the restore is pending the AMS shows what boot_restore.h says: the restored
\* channel in use (option 1) or every channel idle (option 0), and it is the loaded one.
RestoreShown ==
  ram.restore # None =>
    /\ ram.loaded = ram.restore
    /\ IF ram.atBoot
       THEN ram.num = ram.restore /\ ram.useFlag = 4 /\ ram.motion = [AllIdle EXCEPT ![ram.restore] = "on_use"]
       ELSE ram.num = None /\ ram.motion = AllIdle

\* One channel at a time is shown: the one that moves, the loaded one and the restored one
\* are the active one, but for a restore that waits.
OneChannelAtATime == OneChannelMoves /\ LoadedIsActive /\ RestoreShown

\* The value the log ends up with once every save is done.
LogTarget == IF ram.dirty THEN ram.value ELSE known["sta"]

\* The log follows the loaded channel: it will hold the loaded one, or none while the
\* channel is only claimed.  No order of claims, loads, unloads and late flash jobs
\* leaves the two apart for good.
LogFollows ==
  pass # "off" => LogTarget = (IF ram.flashPending THEN None ELSE ram.loaded)

\* A channel the printer prints from, if it is still loaded, is saved or being saved: a
\* print resumes after a power cut.
PrintingIsSaved ==
  ram.num # None /\ ram.motion[ram.num] = "on_use" /\ ram.loaded = ram.num => ~ram.flashPending

\* The log can be relied on after a power cut.
LogIsTrue == LogFollows /\ PrintingIsSaved

-----------------------------------------------------------------------------
(* What must happen.                                                       *)

EveryRetractionEnds == Motion_control_run(FALSE, {c \in Channels : Retracting(c)})

\* The main loop goes round.  A save finds the bus quiet again and again, the flash job it
\* queues ends (FlashSavesStore!JobEnds), and a retraction ends at its distance, time or
\* stall limit while the link is up again and again.
Fairness ==
  /\ WF_vars(Boot) /\ WF_vars(NoCommand) /\ WF_vars(NoSave) /\ WF_vars(Motion)
  /\ SF_vars(Save) /\ WF_vars(LogCommit) /\ WF_vars(LogAcknowledge)
  /\ SF_vars(EveryRetractionEnds)

FairSpec == Spec /\ Fairness

\* Once the loaded channel stays as it is and the power stays on, the log gets it, whatever
\* job for an older value was under way.
LoadedSavedInTheEnd ==
  <>[](pass # "off") /\ <>[][ram'.loaded = ram.loaded /\ ram'.flashPending = ram.flashPending]_ram
    => <>[](stuck \/ (~ram.dirty /\ LogTarget = stored["sta"]))

\* A retraction ends whatever the printer commands meanwhile: until it does, no command
\* reaches any motor.
RetractionEnds == \A c \in Channels : Retracting(c) ~> ~Retracting(c)

\* Neither the log nor a retraction waits for ever.
NothingWaits == LoadedSavedInTheEnd /\ RetractionEnds
==============================================================================
