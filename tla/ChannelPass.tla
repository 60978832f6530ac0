---------------------------- MODULE ChannelPass -----------------------------
(***************************************************************************)
(* Everything one main-loop pass does to the motor of one channel, in the  *)
(* order Motion_control_run and motor_motion_run do it: the key, the jam   *)
(* latch, the command of the printer or the BMCU's own retraction, the     *)
(* auto-unload, the motor control.                                         *)
(*                                                                         *)
(* host is what the printer commands for the channel between two passes,   *)
(* or "other" when another channel or none is active.  A pass with fresh   *)
(* readings chooses the key and the buffer; one with stale readings works  *)
(* on the key read last.  The channel is inserted and calibrated.  Which   *)
(* PWM a control asks for is nondeterministic within the bands of its      *)
(* code; drive is the class of the PWM applied since the last pass.        *)
(***************************************************************************)
EXTENDS JamLatch, AutoUnload, TLC

CONSTANTS Hosts,      \* commands the printer gives
          Keys,       \* values of MC_ONLINE_key_stu
          Levels,     \* buffer readings
          Ticks,      \* durations of a pass
          Moves,      \* turns of the gear within a pass
          FastPct,    \* pct_fast_onuse: full force below it
          HoldLoPct, HoldHiPct,   \* hold_load neither pushes nor retracts between them
          DeadbandLoPct, DeadbandHiPct, \* MC_PULL_DEADBAND_PCT_LOW, _HIGH
          HardStopPct \* MC_LOAD_S1_HARD_STOP_PCT

ASSUME PassAssumption ==
  /\ Keys \subseteq 0..3 /\ Levels \subseteq 0..100 /\ Ticks \subseteq Nat \ {0}
  /\ Moves \subseteq 0..(Counts - 1)
  /\ DeadbandLoPct < DeadbandHiPct /\ HoldLoPct <= HoldHiPct

VARIABLES chan,    \* the channel: motion, filament_now_position, PWM class, latch
          au,      \* g_auto_unload
          key,     \* MC_ONLINE_key_stu
          seen     \* history: what the properties remember of earlier passes

vars == <<chan, au, key, seen>>

Motions == {"stop", "on_use", "before_on_use", "stop_on_use", "idle", "send", "pull",
            "before_pull_back", "redetect"}
(* "rest": run() returned early with the brake on. *)
Drives  == {"brake", "rest", "push", "full", "retract", "unload", "empty_pull"}
Pushes  == {"push", "full"}

(* was: g_last_on_use_exit_ms is not 0. *)
Channels == [motion : Motions, pos : {"idle", "using", "sending", "pulling", "redetect"},
             was : BOOLEAN, drive : Drives, jam : Latches]

(* set_motion with a change of motion. *)
set_motion(c, motion) ==
  IF c.motion = motion THEN c
  ELSE [c EXCEPT
    !.motion = motion,
    !.drive  = IF c.motion = "send" /\ motion = "on_use" THEN @ ELSE "brake",
    !.was    = motion \notin {"send", "pull"} /\ (@ \/ motion = "on_use"),
    !.jam    = IF motion # "on_use" /\ @.brake /\ ~@.jam
               THEN [@ EXCEPT !.brake = FALSE, !.hi = 0] ELSE @]

(* No filament at the switches ends a jam and a load. *)
KeyNone(c, host, online) ==
  LET s == IF online /\ host = "send_out" THEN set_motion(c, "stop") ELSE c
  IN [s EXCEPT !.jam = [@ EXCEPT !.brake = s.jam.brake /\ ~c.jam.jam, !.jam = FALSE, !.hi = 0]]

KeyPass(c, ks, host, online) == IF ks = 0 THEN KeyNone(c, host, online) ELSE c

JamPass(c, ks, host, pct) ==
  [c EXCEPT !.jam = jam_latch_pass(@, c.motion = "on_use", ks # 0,
                                   jam_host_from_motion(host # "other", host), pct)]

(* One step of the channel's own pull back or redetect; ends: its guard or  *)
(* its target says so.                                                      *)
OwnRetraction(c, ks, ends) ==
  IF c.pos = "pulling"
  THEN IF ends THEN [set_motion(c, "stop") EXCEPT !.pos = "redetect"] ELSE set_motion(c, "pull")
  ELSE IF ends \/ ks # 0 THEN [set_motion(c, "stop") EXCEPT !.pos = "idle"]
       ELSE set_motion(c, "redetect")

(* A load of a jammed channel waits for the buffer to be lifted. *)
SendOut(c, pct, stale) ==
  IF ~c.jam.jam THEN [set_motion(c, "send") EXCEPT !.pos = "sending"]
  ELSE IF jam_latch_send_out_release(pct, stale)
  THEN LET freed == [c EXCEPT !.jam = [@ EXCEPT !.brake = FALSE, !.jam = FALSE, !.hi = 0]]
       IN [set_motion(freed, "send") EXCEPT !.pos = "sending"]
  ELSE set_motion(c, "stop")

Command(c, host, pct, stale) ==
  CASE host \in {"on_use", "before_on_use", "stop_on_use"} ->
         [set_motion(c, host) EXCEPT !.pos = "using"]
    [] host = "send_out"         -> SendOut(c, pct, stale)
    [] host = "pull_back"        -> [set_motion(c, "pull") EXCEPT !.pos = "pulling"]
    [] host = "before_pull_back" -> [set_motion(c, "before_pull_back") EXCEPT !.pos = "using"]
    [] OTHER -> [set_motion(c, IF c.jam.jam THEN "stop" ELSE "idle") EXCEPT !.pos = "idle"]

(* motor_motion_switch for this channel. *)
motor_motion_switch(c, ks, host, pct, stale) ==
  IF host = "other"
  THEN [set_motion(c, IF ks # 0 \/ c.was THEN "idle" ELSE "stop") EXCEPT !.pos = "idle"]
  ELSE IF ks = 0 THEN [set_motion(c, "idle") EXCEPT !.pos = "idle"]
  ELSE Command(c, host, pct, stale)

(* held: the retraction of another channel holds the commands back. *)
Commanded(c, ks, host, pct, stale, online, held, ends) ==
  IF ~online THEN set_motion(c, "stop")
  ELSE IF c.pos \in {"pulling", "redetect"} THEN OwnRetraction(c, ks, ends)
  ELSE IF held THEN c ELSE motor_motion_switch(c, ks, host, pct, stale)

(* hold_load, in before_on_use and at the end of a load. *)
HoldLoad(pct) ==
  IF pct < HoldLoPct THEN {"push", "full", "rest"}
  ELSE IF pct <= HoldHiPct THEN {"brake", "rest"} ELSE {"brake", "retract", "rest"}

OnUseDrives(pct) ==
  IF pct < FastPct THEN {"full", "rest"}
  ELSE IF pct < BandLoPct THEN {"push", "full", "rest"} ELSE {"brake", "retract", "rest"}

IdleDrives(ks, was, pct) ==
  IF ks = 0 THEN IF was THEN {"brake", "push", "full", "retract", "rest"} ELSE {"rest"}
  ELSE IF pct < DeadbandLoPct THEN {"push", "rest"}
  ELSE IF pct > DeadbandHiPct THEN {"retract"} ELSE {"brake"}

SendDrives(pct) ==
  IF pct >= HardStopPct THEN {"rest"} ELSE {"push", "full", "brake", "retract", "rest"}

(* The PWM the control of a channel asks for. *)
ControlDrives(c, ks, pct) ==
  IF c.motion = "idle" THEN IdleDrives(ks, c.was, pct)
  ELSE IF c.motion = "redetect" THEN {"full"}
  ELSE IF ks = 0 THEN {"brake"}
  ELSE CASE c.motion \in {"stop", "stop_on_use"} -> {"rest"}
         [] c.motion = "before_pull_back" -> {"brake", "retract"}
         [] c.motion = "before_on_use"    -> HoldLoad(pct)
         [] c.motion = "on_use"           -> OnUseDrives(pct)
         [] c.motion = "send"             -> SendDrives(pct)
         [] c.motion = "pull"             -> {"retract", "push", "brake"}

(* The push limit of the on_use control at the end of run(). *)
Limited(c, ks, drive, d) ==
  LET counted == IF c.motion # "on_use" \/ c.jam.brake \/ ks = 0 THEN [c.jam EXCEPT !.hi = 0]
                 ELSE PushCounted(c.jam, drive = "full", d)
  IN IF drive = "rest" THEN [c EXCEPT !.drive = drive]
     ELSE IF PushLimit(counted)
     THEN [c EXCEPT !.jam = [counted EXCEPT !.hi = 0, !.brake = TRUE, !.jam = FALSE],
                    !.drive = "rest"]
     ELSE [c EXCEPT !.jam = counted, !.drive = drive]

(* run(); a motion nobody commands any more runs out. *)
Driven(c, ks, pct, d, held) ==
  (IF held THEN {[c EXCEPT !.motion = "stop", !.drive = "rest"]} ELSE {})
  \cup (IF jam_latch_brakes(c.motion, c.jam)
        THEN {[c EXCEPT !.jam.hi = 0, !.drive = "rest"]}
        ELSE {Limited(c, ks, drive, d) : drive \in ControlDrives(c, ks, pct)})

(* Mutant: a pass with stale readings stops the channel instead of braking  *)
(* it where it is.                                                          *)
StaleStops(c) == [set_motion(c, "stop") EXCEPT !.drive = "brake"]

motor_brake_hold(c) == [c EXCEPT !.drive = "brake"]

motor_brake_now(c) == [set_motion(c, "stop") EXCEPT !.drive = "brake"]

-----------------------------------------------------------------------------
(* What the properties remember: a trip after which no fresh reading has    *)
(* shown the buffer back; how long fresh passes of the on_use control have  *)
(* read it low; how far a lift of the buffer has come since the last pass   *)
(* with a jam; how long the auto-unload has driven; a push that used up its *)
(* time while the printer went on commanding on_use.                        *)
Longest == CHOOSE d \in Ticks : \A e \in Ticks : e <= d

PullBound == MaxMs + EmptyMs + 2 * Longest

Histories == [tangle : BOOLEAN, low : {Never} \cup 0..JamTripMs,
              lift : {"none", "low", "up"}, pulled : 0..(PullBound + 1), spent : BOOLEAN]

LowSeen(ks, pct, d) ==
  IF chan.motion # "on_use" \/ ks = 0 \/ chan.jam.jam \/ pct >= JamTripPct THEN Never
  ELSE IF seen.low = Never THEN 0 ELSE Later(seen.low, d, JamTripMs)

LiftSeen(lift, pct) ==
  IF lift = "none" /\ pct < NeutralHiPct THEN "low"
  ELSE IF lift = "low" /\ pct >= StartPct THEN "up" ELSE lift

PulledFor(d) ==
  IF ~Unloading(au') THEN 0 ELSE IF chan.drive = "unload" THEN Later(seen.pulled, d, PullBound + 1)
  ELSE seen.pulled

SpentNow(host, online, good) ==
  /\ host = "on_use" /\ online /\ good /\ key' # 0 /\ ~chan'.jam.jam
  /\ seen.spent \/ (~chan.jam.brake /\ chan'.jam.brake)

-----------------------------------------------------------------------------
Init ==
  /\ chan = [motion |-> "stop", pos |-> "idle", was |-> FALSE, drive |-> "brake", jam |-> NoJam]
  /\ au = NoAutoUnload
  /\ key \in Keys
  /\ seen = [tangle |-> FALSE, low |-> Never, lift |-> "low", pulled |-> 0, spent |-> FALSE]

Retracting == chan.pos \in {"pulling", "redetect"}

(* The part of a fresh pass before the motor: key, jam latch, hold-off.     *)
Latched(host, ks, pct, online, d) ==
  JamPass(KeyPass([chan EXCEPT !.jam = JamLater(@, d)], ks, host, online), ks, host, pct)

JamOnPass(ks, c) == c.jam.jam \/ (chan.jam.jam /\ ks # 0)

HeldOff(ks, c, d, move) ==
  LET a == AutoUnloadLater(au, d, move) IN IF JamOnPass(ks, c) THEN auto_unload_hold(a) ELSE a

Noticed(host, ks, pct, online, good, d, c) ==
  /\ key' = ks
  /\ seen' = [tangle |-> \/ ~chan.jam.jam /\ c.jam.jam
                         \/ seen.tangle /\ ks # 0 /\ pct < JamTripPct,
              low    |-> LowSeen(ks, pct, d),
              lift   |-> LiftSeen(IF JamOnPass(ks, c) THEN "none" ELSE seen.lift, pct),
              pulled |-> PulledFor(d),
              spent  |-> SpentNow(host, online, good)]

(* A pass with fresh readings and a good AS5600. *)
FreshPass(host, ks, pct, online, held, ends, d, move) ==
  LET c1 == Latched(host, ks, pct, online, d)
      c2 == Commanded(c1, ks, host, pct, FALSE, online, held, ends)
      a  == auto_unload_pass(HeldOff(ks, c1, d, move), online, TRUE, c2.motion = "idle",
                             pct, ks, c2.drive = "unload")
      own == AutoUnloadDrive(a, online, TRUE, pct, ks)
  IN /\ chan' \in IF own = "none" THEN Driven(c2, ks, pct, d, held)
                 ELSE {[c2 EXCEPT !.drive = own]}
     /\ au' = a
     /\ Noticed(host, ks, pct, online, TRUE, d, c1)

(* The AS5600 of the channel cannot be trusted. *)
BadSensorPass(host, ks, pct, online, held, ends, d, move) ==
  LET c1 == Latched(host, ks, pct, online, d)
  IN /\ chan' = motor_brake_now(Commanded(c1, ks, host, pct, FALSE, online, held, ends))
     /\ au' = HeldOff(ks, c1, d, move)
     /\ Noticed(host, ks, pct, online, FALSE, d, c1)

(* The ADC stream has stopped: the readings are the last ones. *)
StalePass(host, online, held, ends, d) ==
  LET c1 == KeyPass([chan EXCEPT !.jam = JamLater(@, d)], key, host, online)
      c2 == [c1 EXCEPT !.jam = jam_latch_skip(@)]
  IN /\ chan' = motor_brake_hold(Commanded(c2, key, host, 0, TRUE, online, held, ends))
     /\ au' = auto_unload_reset(AutoUnloadLater(au, d, 0))
     /\ key' = key
     /\ seen' = [seen EXCEPT !.low = Never, !.pulled = 0, !.spent = SpentNow(host, online, TRUE)]

Next ==
  \E host \in Hosts, online \in BOOLEAN, held \in BOOLEAN, ends \in BOOLEAN, d \in Ticks :
    /\ (online /\ ~Retracting) \/ ~held
    /\ (online /\ Retracting) \/ ~ends
    /\ \/ StalePass(host, online, held, ends, d)
       \/ \E ks \in Keys, pct \in Levels, move \in IF Unloading(au) THEN Moves ELSE {0} :
            \/ FreshPass(host, ks, pct, online, held, ends, d, move)
            \/ BadSensorPass(host, ks, pct, online, held, ends, d, move)

Spec == Init /\ [][Next]_vars
-----------------------------------------------------------------------------
(* Every record stays in its type; the latch, the timed runs and the unload *)
(* exclude one another as the code assumes.                                 *)
TypeOK ==
  /\ chan \in Channels /\ au \in AutoUnloads /\ key \in Keys /\ seen \in Histories
  /\ chan.jam.jam => chan.jam.brake /\ chan.jam.low = Never

(* Until a fresh reading has shown the buffer back up, or the filament has  *)
(* left the switches, nothing the printer commands ends a jam.              *)
ResumeNeverHidesJam == seen.tangle => chan.jam.jam

(* A jammed channel is never pushed: not by the on_use control, a reload,   *)
(* hold_load or the idle control.                                           *)
NoPushIntoJam == chan.jam.jam /\ chan.drive \in Pushes => chan.motion = "pull"

(* A push that used up its 20 s stays braked for as long as the printer     *)
(* goes on commanding on_use, whatever stale spells and retractions of      *)
(* other channels come between.                                             *)
SpentPushStaysBraked == seen.spent => chan.drive \notin Pushes

(* What was braked for good stays so. *)
BrakesHold == NoPushIntoJam /\ SpentPushStaysBraked

(* The auto-unload drives for no longer than its own limits. *)
AutoUnloadIsBounded == seen.pulled <= PullBound

(* The latch trips exactly when fresh readings have shown the buffer low    *)
(* for the whole trip time.                                                 *)
TripsOnFreshReadings ==
  ~chan.jam.jam => (chan'.jam.jam <=> seen'.low = JamTripMs)

(* The latch holds exactly the jams that were read. *)
JamIsTrue == [][ResumeNeverHidesJam' /\ TripsOnFreshReadings]_vars

(* An auto-unload starts only after a lift that began below the neutral     *)
(* band since the last pass with a jam: the lift that releases a jam never  *)
(* unloads the channel.                                                     *)
UnloadNeedsItsOwnLift ==
  [][~Unloading(au) /\ Unloading(au') => seen.lift = "up"]_vars
=============================================================================
