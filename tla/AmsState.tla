------------------------------ MODULE AmsState ------------------------------
(***************************************************************************)
(* The local AMS in RAM and what the printer's motion commands do to it:   *)
(* struct _ams (ams.h), set_motion (bambu_bus_ams.cpp), the loaded channel *)
(* (ams_state_*, main.cpp) and its restore at boot (boot_restore.h).       *)
(*                                                                         *)
(* The state is a record, and a handler an operator from a state to the    *)
(* next one, as the handlers call each other in the middle of their own    *)
(* assignments.  The feed pressure reported to the printer is left out.    *)
(***************************************************************************)
EXTENDS Integers

CONSTANTS NumChannels,   \* 4 in the firmware
          None           \* channel 0xFF

Channels == 0 .. NumChannels - 1
Loaded   == Channels \cup {None}

ASSUME ChannelAssumption == NumChannels \in Nat /\ None \notin Channels

InUse   == {"on_use", "before_on_use", "stop_on_use"}
Motions == {"idle", "send_out", "before_pull_back", "pull_back"} \cup InUse

RamStates ==
  [atBoot : BOOLEAN,                  \* BMCU_BOOT_RESTORE_LOADED, a constant of the image
   num : Loaded,                      \* now_filament_num
   motion : [Channels -> Motions],    \* filament[].motion
   useFlag : {0, 2, 4},               \* filament_use_flag
   held : [Channels -> BOOLEAN],      \* time_sendout_onuse_ticks[] # 0
   loaded : Loaded,                   \* g_loaded_ch
   flashPending : BOOLEAN,            \* g_loaded_flash_pending
   dirty : BOOLEAN, value : Loaded,   \* g_state_dirty, g_state_write_value
   restore : Loaded]                  \* g_boot_restore.ch

AllIdle == [c \in Channels |-> "idle"]
NotHeld == [c \in Channels |-> FALSE]

\* ams_init, and the loaded channel read from flash.
RamInit(atBoot, stored) ==
  [atBoot |-> atBoot, num |-> None, motion |-> AllIdle, useFlag |-> 0, held |-> NotHeld,
   loaded |-> stored, flashPending |-> FALSE, dirty |-> FALSE, value |-> None, restore |-> stored]

-----------------------------------------------------------------------------
(* The restore at boot (boot_restore.h).                                   *)

\* boot_restore_seed: the in-use state of channel c.
Seeded(r, c) == [r EXCEPT !.num = c, !.useFlag = 4, !.motion = [AllIdle EXCEPT ![c] = "on_use"]]

\* boot_restore_init, where a channel was loaded.
Restored(r) == IF r.restore # None /\ r.atBoot THEN Seeded(r, r.restore) ELSE r

\* boot_restore_references: a command n, k is about the restored channel c.
References(c, n, k) == IF n = None THEN k = "pull_back" ELSE n = c

\* Variant for mutation: a deferred restore is handed over without being applied.
ReferencedUnseeded(r, n, k) ==
  IF r.restore = None \/ ~References(r.restore, n, k) THEN r ELSE [r EXCEPT !.restore = None]

\* boot_restore_on_command: the printer takes the restored channel over.
Referenced(r, n, k) ==
  IF r.restore = None \/ ~References(r.restore, n, k) THEN r
  ELSE [(IF r.atBoot THEN r ELSE Seeded(r, r.restore)) EXCEPT !.restore = None]

\* boot_restore_on_unloaded: the restored state is undone, unless another channel has taken over.
RestoreUndone(r) ==
  LET c == r.restore
      s == [r EXCEPT !.restore = None]
  IN  IF c = None \/ ~r.atBoot THEN s
      ELSE IF s.num = c THEN [s EXCEPT !.num = None, !.useFlag = 0, !.motion[c] = "idle"]
      ELSE [s EXCEPT !.motion[c] = "idle"]

-----------------------------------------------------------------------------
(* The loaded channel (main.cpp).                                          *)

Free(r, c) == r.loaded \in {None, c}

\* ams_state_claim_loaded: in RAM only.
Claimed(r, c) == IF r.loaded = None THEN [r EXCEPT !.loaded = c, !.flashPending = TRUE] ELSE r

\* ams_state_set_loaded: written to flash, once.
SetLoaded(r, c) ==
  IF ~Free(r, c) \/ ~Claimed(r, c).flashPending THEN r
  ELSE [Claimed(r, c) EXCEPT !.value = c, !.dirty = TRUE, !.flashPending = FALSE]

\* ams_state_set_unloaded: of channel c, or of any.
Unloaded(r, c) ==
  IF r.loaded = None \/ (c # None /\ r.loaded # c) THEN r
  ELSE RestoreUndone([r EXCEPT !.loaded = None, !.flashPending = FALSE,
                               !.value = None, !.dirty = TRUE])

-----------------------------------------------------------------------------
(* set_motion, one operator per command.  A command accepted for a channel *)
(* makes it the active one.                                                *)

\* Variant for mutation: the channel active before keeps its motion.
AcceptedBeside(r, c) == [r EXCEPT !.num = c]

Accepted(r, c) ==
  IF r.num = c THEN r
  ELSE IF r.num = None THEN [r EXCEPT !.num = c]
  ELSE [r EXCEPT !.num = c, !.useFlag = 0, !.motion[r.num] = "idle", !.held[r.num] = FALSE]

SendOut(r, c) ==
  LET s == [Accepted(r, c) EXCEPT !.held[c] = FALSE]
      u == IF s.motion[c] # "send_out" THEN Unloaded(s, None) ELSE s
  IN  [u EXCEPT !.motion[c] = "send_out", !.useFlag = 2]

BeforeOnUse(r, c) ==
  IF r.motion[c] \notin {"send_out", "before_on_use"} THEN r
  ELSE IF ~Free(r, c) THEN [r EXCEPT !.held[c] = FALSE]
  ELSE Claimed([Accepted(r, c) EXCEPT !.held[c] = FALSE, !.motion[c] = "before_on_use",
                                      !.useFlag = 4], c)

StopOnUse(r, c) ==
  LET s == [r EXCEPT !.held[c] = FALSE]
  IN  IF r.loaded # c THEN s
      ELSE LET a == Accepted(s, c)
           IN  [a EXCEPT !.useFlag = 4,
                         !.motion[c] = IF @ \in {"on_use", "before_on_use"} THEN "stop_on_use"
                                       ELSE @]

\* late: 15 s have passed since the first on_use after a send_out.
OnUse(r, c, late) ==
  LET a == Accepted(r, c)
  IN  IF ~Free(r, c) THEN r
      ELSE IF a.motion[c] = "send_out" /\ ~(a.held[c] /\ late)
      THEN [a EXCEPT !.held[c] = TRUE, !.useFlag = 4]
      ELSE SetLoaded([a EXCEPT !.held[c] = FALSE, !.motion[c] = "on_use", !.useFlag = 4], c)

BeforePullBack(r, c) ==
  LET s == [r EXCEPT !.held[c] = FALSE]
  IN  IF r.loaded # c THEN s
      ELSE LET a == Accepted(s, c)
           IN  Unloaded([a EXCEPT !.useFlag = 4,
                                  !.motion[c] = IF @ \in InUse THEN "before_pull_back" ELSE @],
                        c)

\* Status 0x09 with any other motion flag.
OtherStatus9(r, c) == [r EXCEPT !.held[c] = FALSE, !.useFlag = 4]

\* 0xFF, 0x03, 0x00: unload the active channel.
PullBack(r) ==
  IF r.num = None THEN r
  ELSE LET c == r.num
           s == [r EXCEPT !.held[c] = FALSE]
       IN  Unloaded(IF s.motion[c] \in InUse \cup {"before_pull_back"}
                    THEN [s EXCEPT !.motion[c] = "pull_back", !.useFlag = 2] ELSE s, c)

\* 0xFF, 0x01.
IdlePoll(r) == IF r.num # None /\ r.useFlag # 4 THEN Unloaded(r, r.num) ELSE r

\* 0xFF with anything else.
Reset(r) ==
  IF \/ r.num # None /\ r.motion[r.num] \in InUse
     \/ ~r.atBoot /\ r.restore # None              \* ams_state_boot_restore_deferred
  THEN r
  ELSE Unloaded([r EXCEPT !.motion = AllIdle, !.held = NotHeld, !.useFlag = 0, !.num = None], None)

ChannelCommands == {"send_out", "before_on_use", "stop_on_use", "on_use", "before_pull_back",
                    "status 9", "other"}
AmsCommands     == {"pull_back", "idle_poll", "reset"}
Commands == (Channels \X ChannelCommands) \cup ({None} \X AmsCommands)

\* set_motion, with the hand-over of a restored channel before it acts.
set_motion(r, n, k, late) ==
  LET s == Referenced(r, n, k)
  IN  CASE k = "send_out"         -> SendOut(s, n)
        [] k = "before_on_use"    -> BeforeOnUse(s, n)
        [] k = "stop_on_use"      -> StopOnUse(s, n)
        [] k = "on_use"           -> OnUse(s, n, late)
        [] k = "before_pull_back" -> BeforePullBack(s, n)
        [] k = "status 9"         -> OtherStatus9(s, n)
        [] k = "pull_back"        -> PullBack(s)
        [] k = "idle_poll"        -> IdlePoll(s)
        [] k = "reset"            -> Reset(s)
        [] OTHER                  -> s

-----------------------------------------------------------------------------
(* What motor control does to it (Motion_control_run).                     *)

\* Motion_control_run: the loaded channel whose switches read empty is unloaded.
EmptyUnloaded(r, key) ==
  IF r.loaded # None /\ ~key[r.loaded] THEN Unloaded(r, r.loaded) ELSE r

\* A pull back or its redetect is over: the channel goes idle.
WentIdle(r, c) == [r EXCEPT !.useFlag = 0, !.motion[c] = "idle"]

\* main, after Motion_control_init: a restored channel that cannot feed is not restored.
BootChecked(r, usable) ==
  IF r.loaded = None \/ r.loaded \in usable THEN r
  ELSE Unloaded([r EXCEPT !.motion[r.loaded] = "idle", !.num = None, !.useFlag = 0], r.loaded)
==============================================================================
