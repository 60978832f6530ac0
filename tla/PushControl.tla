----------------------------- MODULE PushControl -----------------------------
(***************************************************************************)
(* How the motor of one channel pushes: the controls of _MOTOR_CONTROL     *)
(* that push filament (send and the hold at its end, before_on_use,        *)
(* on_use, idle) with everything that is to keep them from pushing against *)
(* a gear that does not turn: the guard of a send, the limits of the idle  *)
(* control's push, the anti-stall and the limit of a push at full force.   *)
(*                                                                         *)
(* Buffer levels are in hundredths of a percent, PWM values those of the   *)
(* code with the sign of a retraction; times are in units of the instance. *)
(* The jam latch, the pull back, the auto-unload and the DM autoload are   *)
(* in modules of their own; the channel is inserted and calibrated.        *)
(***************************************************************************)
EXTENDS MotionLimits

CONSTANTS
  Hosts,     \* what the printer commands for the channel; "other": nothing
  Levels,    \* readings of the buffer
  Keys,      \* filament at the switches, or not
  Ticks,     \* durations of a pass
  Moves,     \* turns of a driven gear within a pass, modulo Counts
  Others,    \* whether another channel's retraction holds the commands back
  SendPwms,  \* how hard the speed control of a send pushes
  FastPct, HardStopPct, HardHys,                      \* MC_LOAD_S1_*
  HoldTarget, HoldBandLo, PushStart, PwmHi, PwmLo,    \* MC_LOAD_S2_*
  UseTarget, UseBandLo, UseBandHi,                    \* MC_ON_USE_*
  SendMax,   \* ML_SEND_MAX_M in counts
  IdleMaxMs, \* ML_IDLE_PUSH_MAX_MS
  PushMaxMs, \* JAM_PUSH_HI_MAX_US
  HandoffMs, \* ON_USE_HANDOFF_MS
  PostMs,    \* post_on_use_10s
  KickMs, StallRestMs, RestMs, \* the anti-stall: kick, rest after, rest for
  OverMs,    \* over_time of a motion the printer commands
  ParkedMs,  \* over_time of the idle control of a channel that is not active
  MaxStale   \* bound: passes with stale readings

Motions == {"stop", "send", "before_on_use", "stop_on_use", "on_use", "idle", "before_pull_back"}

ASSUME InputsAssumption ==
  /\ Hosts \subseteq {"other"} \cup Motions
  /\ Keys \subseteq BOOLEAN /\ Others \subseteq BOOLEAN

ASSUME PushAssumption ==
  /\ Levels \subseteq 0..10000 /\ Ticks \subseteq Nat \ {0} /\ Moves \subseteq 0..(Counts - 1)
  /\ \A t \in Ticks : t <= StepMax
  /\ 2 * SendMax < Counts /\ KickMs < StallRestMs
  /\ PushStart < HoldTarget - HoldBandLo /\ HardHys < HardStopPct

VARIABLES c,     \* the channel
          seen   \* history, for the properties

vars == <<c, seen>>

NoLevel == -1
AtMost(x, limit) == IF x > limit THEN limit ELSE x
Mag(x) == IF x < 0 THEN -x ELSE x
Signed(x, mag) == IF x < 0 THEN -mag ELSE mag
StallPwm == 800
IdleStallPwm == 420
FullPwm == 800

NoPush == [pushing |-> FALSE, fault |-> "run", guard |-> motion_guard_start(IdleMaxMs, 0)]

(* motion; left: until motor_stop_time; aborted, hard, latched: the states *)
(* of a send; send: its guard; thresh, rhys: hold_load's; ceiling, handoff: *)
(* what a load hands over to on_use, and since when; exit: since on_use was *)
(* left; idle: the idle push; stall, rest: the anti-stall; hi, low: the     *)
(* full-force limit; pb: pb_active; ks: the switches; x: the PWM.           *)
Init ==
  /\ c = [motion |-> "stop", left |-> Never, aborted |-> FALSE, hard |-> FALSE, latched |-> FALSE,
          send |-> motion_guard_start(0, SendMax), thresh |-> NoLevel, rhys |-> FALSE,
          ceiling |-> NoLevel, handoff |-> 0, exit |-> Never, idle |-> NoPush,
          stall |-> 0, rest |-> 0, hi |-> 0, low |-> FALSE, pb |-> FALSE, ks |-> FALSE, x |-> 0]
  /\ seen = [loading |-> FALSE, why |-> "none", slips |-> FALSE, stood |-> FALSE, trip |-> 0, spent |-> 0, strain |-> 0,
             strays |-> 0, edge |-> FALSE, hold |-> FALSE, tried |-> 0, stales |-> 0]

Brake(s) == [s EXCEPT !.x = 0]

-----------------------------------------------------------------------------
(* A time d later, the gear having turned by move. *)
PushLater(p, d, move) ==
  IF p.pushing /\ p.fault = "run" THEN [p EXCEPT !.guard = GuardLater(@, d, move)] ELSE p

ChannelLater(s, d, move) ==
  [s EXCEPT !.left    = IF @ >= d THEN @ - d ELSE Never,
            !.send    = IF s.motion = "send" THEN GuardLater(@, d, move) ELSE @,
            !.handoff = IF s.ceiling = NoLevel THEN 0 ELSE Later(@, d, HandoffMs),
            !.exit    = Later(@, d, PostMs),
            !.idle    = PushLater(@, d, move),
            !.rest    = IF @ > d THEN @ - d ELSE 0]

(* What a load or a hold leaves to the on_use control: a buffer above its  *)
(* band is let down slowly.                                                *)
HandedOver(s, pct) ==
  IF s.motion \in {"before_on_use", "stop_on_use", "send"} /\ pct > UseBandHi THEN pct ELSE NoLevel

(* The level hold_load goes by from now on. *)
Threshold(s, motion, pct) ==
  IF motion = "on_use" THEN pct
  ELSE IF motion = "send" \/ s.motion = "on_use" THEN NoLevel
  ELSE IF motion \in {"before_on_use", "stop_on_use"} THEN pct ELSE s.thresh

set_motion(s, motion, pct, over) ==
  LET t == [s EXCEPT !.left = IF motion = "stop" THEN Never ELSE over]
      sends == "send" \in {motion, s.motion}
  IN IF motion = s.motion THEN t ELSE
     [t EXCEPT !.motion  = motion,
               !.idle    = NoPush,
               !.low     = @ /\ motion = "on_use",
               !.hi      = IF s.low /\ motion # "on_use" THEN 0 ELSE @,
               !.aborted = @ /\ ~sends, !.hard = @ /\ ~sends, !.latched = @ /\ ~sends,
               !.send    = motion_guard_start(0, SendMax),
               !.thresh  = Threshold(s, motion, pct),
               !.rhys    = @ /\ motion \notin {"send", "before_on_use", "stop_on_use", "on_use"}
                             /\ s.motion # "on_use",
               !.ceiling = IF motion = "on_use" THEN HandedOver(s, pct) ELSE NoLevel,
               !.handoff = 0,
               !.exit    = IF motion = "send" THEN Never
                           ELSE IF s.motion = "on_use" THEN 0
                           ELSE IF motion = "on_use" /\ @ = Never THEN PostMs ELSE @,
               !.x       = IF s.motion = "send" /\ motion = "on_use" THEN @ ELSE 0]

(* motor_motion_switch. *)
Commanded(s, host, pct) ==
  IF host = "other"
  THEN set_motion(s, IF s.ks \/ s.exit # Never THEN "idle" ELSE "stop", pct, ParkedMs)
  ELSE set_motion(s, IF s.ks THEN host ELSE "idle", pct, OverMs)

(* No filament: the count of full force is forgotten, a load ends. *)
KeyNone(s, host, pct) ==
  IF s.ks THEN s
  ELSE [IF host = "send" THEN set_motion(s, "stop", pct, 0) ELSE s EXCEPT !.hi = 0]

-----------------------------------------------------------------------------
(* What a control asks for: a PWM; whether the gear is to move, and how far *)
(* off the buffer is; whether the PWM is taken as it is.                    *)
Rests == [x |-> 0, move |-> FALSE, err |-> 0, linear |-> FALSE]
Asks(x, err, linear) == [x |-> x, move |-> TRUE, err |-> err, linear |-> linear]

retract_mag_from_err(err) ==
  IF err <= 10 THEN 0
  ELSE IF err < 35 THEN 450 + (100 * (err - 10)) \div 25
  ELSE 550 + (300 * AtMost(err - 35, 200)) \div 200

HoldFor(s) == IF s.thresh < HoldTarget THEN HoldTarget ELSE s.thresh

HoldRetracts(s, pct) == pct > HoldFor(s) /\ (s.rhys \/ pct >= HoldFor(s) + 25)

HoldPush(pct) ==
  IF pct <= PushStart THEN PwmLo
  ELSE PwmHi + ((HoldTarget - HoldBandLo - pct) * (PwmLo - PwmHi))
               \div (HoldTarget - HoldBandLo - PushStart)

hold_load(s, pct) ==
  IF HoldRetracts(s, pct)
  THEN Asks(retract_mag_from_err(pct - HoldFor(s)), pct - HoldFor(s), FALSE)
  ELSE IF pct >= HoldTarget - HoldBandLo THEN Rests
  ELSE Asks(-HoldPush(pct), HoldTarget - pct, TRUE)

PullPctP == 25   \* MC_PULL_PIDP_PCT
PressurePid(err) == (PullPctP * err) \div 100
Limited(x, err) == Signed(x, AtMost(Mag(x), AtMost(500 + (80 * Mag(err)) \div 100, 900)))

UsePush(pct) ==
  IF pct < 5000 THEN 900 ELSE 380 + ((UseTarget - UseBandLo - pct) * 520) \div (UseTarget - UseBandLo - 5000)

(* Does the handoff of a load end on this pass? *)
HandoffOver(s, pct) == s.ceiling # NoLevel /\ (s.handoff >= HandoffMs \/ pct <= UseTarget)

(* Above the band of on_use the multiplier of the code is always 3. *)
UseRetract(pct, ceiling) ==
  IF ceiling # NoLevel THEN Asks(Limited(PressurePid(pct - ceiling), pct - ceiling), pct - ceiling, FALSE)
  ELSE LET err == pct - UseTarget
       IN Asks(AtMost(3 * Limited(PressurePid(err), err), 950), err, FALSE)

OnUse(pct, ceiling) ==
  IF pct < UseTarget - UseBandLo THEN Asks(-UsePush(pct), UseTarget - pct, TRUE)
  ELSE IF pct <= IF ceiling # NoLevel THEN ceiling + 25 ELSE UseBandHi THEN Rests
  ELSE UseRetract(pct, ceiling)

(* before_pull_back follows the retraction of the printer. *)
PullBackActive(s, pct) == IF s.pb THEN pct > 5000 ELSE pct >= 5025
FollowPull(active, pct) == IF active THEN Asks(retract_mag_from_err(pct - 5000), pct - 5000, FALSE) ELSE Rests

(* After a print, with no filament at the switches: the end is pushed on    *)
(* for ten seconds, and later kept within the deadband.                     *)
PostOnUse(s) == s.exit # Never /\ s.exit < PostMs
Rounded(pct) == (pct + 50) \div 100
OutsideDeadband(pct) == Rounded(pct) > 70 \/ Rounded(pct) < 30
Deadband(pct) ==
  IF OutsideDeadband(pct) THEN [Rests EXCEPT !.x = PressurePid(pct - 5000)] ELSE Rests

EmptyIdle(s, pct) ==
  IF ~PostOnUse(s) THEN Deadband(pct)
  ELSE IF Rounded(pct) >= 49 THEN Rests
  ELSE Asks(Limited(PressurePid(pct - 4900), pct - 4900), 4900 - pct, FALSE)

-----------------------------------------------------------------------------
(* The idle control's push. *)
EdgePct == 28

EdgeExits(pct) == Rounded(pct) < EdgePct - 1

\* Variant for mutation: a new push with every pass in the band's last points.
PushBeginsOften(p, pct) == ~p.pushing \/ Rounded(pct) >= EdgePct

PushBegins(p, pct) == ~p.pushing

ml_idle_push_pass(p, push, pct, x) ==
  LET q == IF p.fault = "brake" /\ EdgeExits(pct) THEN NoPush ELSE p
      g == motion_guard_check_at(q.guard, Mag(x) >= IdleStallPwm)
  IN IF ~push THEN NoPush
     ELSE IF q.fault # "run" THEN q
     ELSE IF PushBegins(q, pct) THEN [NoPush EXCEPT !.pushing = TRUE]
     ELSE [q EXCEPT !.guard = g,
                    !.fault = IF ~GuardTripped(g) THEN "run"
                              ELSE IF Rounded(pct) >= EdgePct THEN "brake" ELSE "fault"]

-----------------------------------------------------------------------------
(* The end of run(): the lowest PWM, the anti-stall, the full-force limit.  *)
Raised(x, s, holds) ==
  LET dead == IF holds THEN 1 ELSE 10  least == IF holds THEN 420 ELSE 500
  IN IF s.motion = "before_pull_back" \/ Mag(x) >= least THEN x
     ELSE IF Mag(x) <= dead THEN 0 ELSE Signed(x, least)

Floored(x, s, holds) ==
  Signed(x, AtMost(Mag(Raised(x, s, holds)), IF s.motion = "idle" THEN 800 ELSE 1000))

AtLeastMoves(a, x) ==
  IF a.move /\ x # 0 /\ ~a.linear /\ a.err >= 130 /\ Mag(x) < 500 THEN Signed(x, 500) ELSE x

Strained(a, x, still) == a.move /\ still /\ a.err >= 200 /\ Mag(x) >= 450

RestBegins(s) == [Brake(s) EXCEPT !.stall = 0, !.rest = RestMs]

(* jam_push_limit_pass: brakes the on_use control. *)
FullForce(s, x, d) ==
  IF s.motion # "on_use" \/ s.low \/ ~s.ks THEN [s EXCEPT !.hi = 0, !.x = x]
  ELSE LET hi == IF x < -FullPwm THEN AtMost(s.hi + d, PushMaxMs) ELSE 0
       IN IF hi = PushMaxMs THEN [Brake(s) EXCEPT !.hi = 0, !.low = TRUE]
          ELSE [s EXCEPT !.hi = hi, !.x = x]

(* like: on_use_like at the start of the pass. *)
Driven(s, a, like, holds, still, d) ==
  LET x     == AtLeastMoves(a, Floored(a.x, s, holds))
      stall == IF Strained(a, x, still) THEN s.stall + d ELSE 0
  IN IF ~like
     THEN FullForce([s EXCEPT !.stall = 0, !.rest = 0], Floored(a.x, s, holds), d)
     ELSE IF s.rest > 0 THEN Brake(s)
     ELSE IF stall > StallRestMs THEN RestBegins(s)
     ELSE FullForce([s EXCEPT !.stall = stall], IF stall > KickMs THEN Signed(x, 850) ELSE x, d)

-----------------------------------------------------------------------------
(* run(), control by control. *)
RunOnUse(s, pct, still, d) ==
  LET t == IF HandoffOver(s, pct) THEN [s EXCEPT !.ceiling = NoLevel, !.handoff = 0] ELSE s
  IN Driven([t EXCEPT !.rhys = FALSE], OnUse(pct, t.ceiling), TRUE, TRUE, still, d)

RunHold(s, pct, like, still, d) ==
  Driven([s EXCEPT !.rhys = HoldRetracts(s, pct)], hold_load(s, pct), like, TRUE, still, d)

RunIdle(s, pct, still, d) ==
  IF ~s.ks /\ s.exit = Never THEN [Brake(s) EXCEPT !.idle = NoPush]
  ELSE LET a == IF s.ks THEN Deadband(pct) ELSE EmptyIdle(s, pct)
           t == [s EXCEPT !.idle = ml_idle_push_pass(@, s.ks /\ a.x < 0, pct, s.x)]
       IN IF t.idle.fault # "run" THEN Brake(t)
          ELSE Driven(t, a, ~s.ks /\ PostOnUse(s), TRUE, still, d)

(* A send: its guard; the hard stop with its hysteresis; at speed until the *)
(* buffer is up, then the hold.  like is that of the start of the pass: the *)
(* anti-stall comes with the pass after the latch.                          *)
Hard(s, pct) == pct >= HardStopPct \/ (s.hard /\ pct >= HardStopPct - HardHys)

Latches(s, pct) == ~s.latched /\ pct >= FastPct

RunSend(s, pct, still, d, ask) ==
  LET g == motion_guard_check_at(s.send, Mag(s.x) >= StallPwm)
      t == [s EXCEPT !.send = IF s.aborted THEN @ ELSE g, !.aborted = @ \/ GuardTripped(g)]
      u == [t EXCEPT !.hard = FALSE]
      v == IF Latches(u, pct) THEN [u EXCEPT !.latched = TRUE, !.thresh = pct, !.rhys = FALSE] ELSE u
  IN IF t.aborted THEN Brake(t)
     ELSE IF Hard(t, pct) THEN [Brake(t) EXCEPT !.hard = TRUE]
     ELSE IF v.latched THEN RunHold(v, pct, s.latched, still, d)
     ELSE Driven(v, [Rests EXCEPT !.x = ask], FALSE, FALSE, still, d)

RunFollow(s, pct, still, d) ==
  LET t == [s EXCEPT !.pb = PullBackActive(s, pct)]
  IN Driven(t, FollowPull(t.pb, pct), FALSE, FALSE, still, d)

(* A motion nobody has commanded for its over_time ends. *)
RunOut(s) ==
  [Brake(s) EXCEPT !.motion = "stop", !.exit = IF s.motion = "on_use" THEN 0 ELSE @]

(* With no filament only the idle control goes on. *)
RunEmpty(s, still, d) ==
  Driven(s, Rests, s.motion \in {"on_use", "before_on_use", "stop_on_use"} \/ s.latched,
         TRUE, still, d)

Run(s, pct, still, d, ask) ==
  IF s.motion = "stop" THEN Brake(s)
  ELSE IF s.left = Never THEN RunOut(s)
  ELSE IF s.motion = "on_use" /\ s.low THEN [Brake(s) EXCEPT !.hi = 0]
  ELSE IF s.motion = "idle" THEN RunIdle(s, pct, still, d)
  ELSE IF ~s.ks THEN RunEmpty(s, still, d)
  ELSE CASE s.motion = "on_use"           -> RunOnUse(s, pct, still, d)
         [] s.motion = "before_on_use"    -> RunHold(s, pct, TRUE, still, d)
         [] s.motion = "send"             -> RunSend(s, pct, still, d, ask)
         [] s.motion = "before_pull_back" -> RunFollow(s, pct, still, d)
         [] s.motion = "stop_on_use"      -> Brake(s)

-----------------------------------------------------------------------------
(* What the properties remember: a load that the printer goes on with; how  *)
(* it was stopped, whether the gear ever read as moving without getting     *)
(* anywhere since it began, and whether it stood as the hold began; how far *)
(* it has fed; how long an idle push has driven, and how long without the   *)
(* gear getting anywhere from where it stood, since the buffer was up or    *)
(* far down; that the push was braked at the edge and the buffer has read   *)
(* 27 to 29 % since; that it was braked as a fault, and the printer has not *)
(* moved the channel since; how long on_use has found the buffer below 50 %.*)
Turned(move) == IF move > Counts \div 2 THEN move - Counts ELSE move
Slips(move, still) == ~still /\ ml_cnt_dist(move) < StallMove
StoppedBy(s, t) ==
  IF t.motion # "send" THEN "none"
  ELSE IF s.aborted \/ ~t.aborted THEN seen.why
  ELSE IF s.latched /\ GuardResult(t.send) = "stall" THEN "hold stall" ELSE "limit"

StoodAtHold(s, t) == ~s.latched /\ t.latched /\ t.send.stall > 0 /\ Mag(t.x) >= StallPwm

Excused(t, pct) ==
  t.motion # "idle" \/ ~t.ks \/ Rounded(pct) >= 30 \/ (c.idle.fault = "brake" /\ EdgeExits(pct))

\* Has the idle control pushed, and has the gear got anywhere with that?
IdleDrove == c.motion = "idle" /\ c.ks /\ c.x < 0
DrivenFor(d) == IF IdleDrove THEN d ELSE 0
Strayed(move) == (seen.strays + move) % Counts
GotOn(move) == ~IdleDrove \/ ml_cnt_dist(Strayed(move)) >= StallMove

Noticed(s, t, moved, pct, still, d, move) ==
  seen' = [loading |-> t.motion = "send",
           why    |-> StoppedBy(s, t),
           slips  |-> t.motion = "send" /\ (seen.slips \/ Slips(move, still)),
           stood  |-> t.motion = "send" /\ (seen.stood \/ StoodAtHold(s, t)),
           trip   |-> IF seen.loading /\ t.motion = "send" THEN seen.trip + Turned(move) ELSE 0,
           spent  |-> IF Excused(t, pct) THEN 0 ELSE seen.spent + DrivenFor(d),
           strain |-> IF Excused(t, pct) \/ GotOn(move) THEN 0 ELSE seen.strain + d,
           strays |-> IF Excused(t, pct) \/ GotOn(move) THEN 0 ELSE Strayed(move),
           edge   |-> /\ t.motion = "idle" /\ t.ks /\ Rounded(pct) \in 27..29
                      /\ seen.edge \/ t.idle.fault = "brake",
           hold   |-> /\ ~moved /\ t.ks /\ Rounded(pct) < 30
                      /\ seen.hold \/ t.idle.fault = "fault",
           tried  |-> IF c.motion = "on_use" /\ t.motion = "on_use" /\ t.ks /\ ~t.low /\ pct < 5000
                      THEN seen.tried + d ELSE 0,
           stales |-> seen.stales]

-----------------------------------------------------------------------------
(* The pass before the motors; held: another channel's retraction holds the *)
(* commands back.                                                           *)
Prepared(host, ks, pct, held, d, move) ==
  LET s == KeyNone([ChannelLater(c, d, move) EXCEPT !.ks = ks], host, pct)
  IN IF held THEN s ELSE Commanded(s, host, pct)

Turns == IF c.x = 0 THEN {0} ELSE Moves

Pass ==
  \E host \in Hosts, ks \in Keys, pct \in Levels, held \in Others, d \in Ticks,
     move \in Turns, still \in BOOLEAN :
    LET s == Prepared(host, ks, pct, held, d, move)
    IN /\ still => move = 0
       /\ \E ask \in IF s.motion = "send" THEN SendPwms ELSE {0} : c' = Run(s, pct, still, d, -ask)
       /\ Noticed(s, c', host # "other", pct, still, d, move)

(* The angle sensor cannot be trusted, or there is no host. *)
StoppedPass ==
  \E host \in Hosts, ks \in Keys, pct \in Levels, held \in Others, d \in Ticks, move \in Turns :
    LET s == Prepared(host, ks, pct, held, d, move)
    IN /\ c' = Brake(set_motion(s, "stop", pct, 0))
       /\ Noticed(s, c', TRUE, pct, FALSE, d, move)

\* Variant for mutation: stale readings stop the channel.
StaleStops(s) == Brake(set_motion(s, "stop", 5000, 0))

motor_brake_hold(s) == Brake(s)

(* Is the channel left to what the printer wants of it? *)
Goes(host, held, wanted) == held \/ host = wanted

(* ... and does a load go on, whose filament is still there? *)
GoesOn(host, held) == seen.loading /\ IF c.ks THEN Goes(host, held, "send") ELSE held /\ host # "send"

(* The readings are old: the channel is braked as it is. *)
StalePass ==
  /\ seen.stales < MaxStale
  /\ \E host \in Hosts, pct \in Levels, held \in Others, d \in Ticks \cup {StepMax + 1}, move \in Turns :
       LET s == Prepared(host, c.ks, pct, held, d, move)
       IN /\ d > StepMax => c.x = 0
          /\ c' = motor_brake_hold(s)
          /\ seen' = [seen EXCEPT !.stales = @ + 1,
                                  !.spent  = IF c.motion = "idle" /\ Goes(host, held, "other")
                                             THEN @ + DrivenFor(d) ELSE 0,
                                  !.strain = 0, !.strays = 0,
                                  !.loading = GoesOn(host, held),
                                  !.trip   = IF GoesOn(host, held) THEN @ + Turned(move) ELSE 0,
                                  !.why    = IF c'.motion = "send" THEN @ ELSE "none",
                                  !.slips  = @ /\ c'.motion = "send",
                                  !.stood  = @ /\ c'.motion = "send",
                                  !.edge   = @ /\ c'.motion = "idle",
                                  !.hold   = @ /\ host = "other"]

Next == Pass \/ StoppedPass \/ StalePass

Spec == Init /\ [][Next]_vars
-----------------------------------------------------------------------------
Longest == CHOOSE t \in Ticks : \A u \in Ticks : u <= t

IdlePushes == [pushing : BOOLEAN, fault : {"run", "brake", "fault"}, guard : Guards(IdleMaxMs, 0)]

(* What a load rests on: passes shorter than what the anti-stall leaves of  *)
(* the stall time; a gear that does not turn half its range; a hold that    *)
(* pushes as hard as a stall only where the anti-stall looks at the gear.   *)
ASSUME LoadAssumption ==
  /\ {SendMax, StallRestMs, KickMs, RestMs} \subseteq Nat /\ SendMax # 0
  /\ {PwmHi, PwmLo, HoldTarget, HoldBandLo, PushStart} \subseteq Int
  /\ \A t \in Ticks : StallRestMs + t < StallMs
  /\ \A m \in Moves : ml_cnt_dist(m) <= Counts - 2 * SendMax
  /\ \A p \in Levels : p < HoldTarget - HoldBandLo =>
       HoldPush(p) \in Nat /\ (HoldPush(p) >= StallPwm => HoldTarget - p >= 200)

(* Every field stays in its type; a limit of the idle push or of a send     *)
(* that has been hit belongs to a channel that runs that control or has     *)
(* just been stopped, and keeps the motor off.                              *)
TypeOK ==
  /\ c.motion \in Motions /\ c.left \in {Never} \cup 0..(OverMs + ParkedMs)
  /\ c.send \in Guards(0, SendMax) /\ c.idle \in IdlePushes
  /\ c.thresh \in {NoLevel} \cup Levels /\ c.ceiling \in {NoLevel} \cup Levels
  /\ c.stall \in 0..StallRestMs /\ c.rest \in 0..RestMs /\ c.hi \in 0..(PushMaxMs - 1)
  /\ c.x \in -1000..1000 /\ c.exit \in {Never} \cup 0..PostMs /\ c.handoff \in 0..HandoffMs
  /\ c.motion = "stop" => c.x = 0
  /\ c.low => c.motion \in {"on_use", "stop"} /\ c.x = 0
  /\ c.idle.fault # "run" => c.motion \in {"idle", "stop"} /\ c.x = 0
  /\ c.aborted => c.motion \in {"send", "stop"} /\ c.x = 0

(* The hold at the end of a load pushes or retracts at the level the send's *)
(* guard takes for a stall, for as long as the buffer stays off; the        *)
(* anti-stall rests in time, so that a gear that reads still there never    *)
(* stops the load: only one that jitters without getting anywhere does, or  *)
(* one that stood before the hold.                                          *)
HoldIsNoStall == seen.why = "hold stall" => seen.slips \/ seen.stood

(* One load feeds no more than its limit and what the gear turns in a pass, *)
(* whatever holds, hard stops and stale spells come between.                *)
LoadIsBounded == \E m \in Moves \cup {0} : Mag(seen.trip) < SendMax + ml_cnt_dist(m)

(* A load has one limit over all its stages, and its hold is no stall.      *)
LoadKeepsItsLimit == LoadIsBounded /\ HoldIsNoStall

ASSUME IdleAssumption == IdleMaxMs \in Nat \ {0}

(* The idle control's push ends within its time, and soon when the gear     *)
(* does not turn, until the buffer is up again or far down, however often   *)
(* the readings go stale in between.                                        *)
IdlePushIsBounded ==
  /\ seen.spent <= IdleMaxMs + StepMax * (1 + seen.stales)
  /\ seen.strain <= StallMs + StepMax

(* A push braked at the edge of the deadband is not started again by a      *)
(* reading that flickers between 27 and 29 %.                               *)
EdgeBrakeHolds == seen.edge => c.x = 0

(* "The brake ends when the buffer is back at 30% or above, when the         *)
(* printer moves the channel, or when no filament is at the switches": an   *)
(* idle push braked with the red LED is not driven again before.  False of  *)
(* the code: while another channel retracts, the idle control of this one   *)
(* runs out, and it comes back with a new push.                             *)
BrakeEndsAsDocumented == seen.hold => c.x = 0

(* A push at full force below 50 %, that is looked at more often than the   *)
(* anti-stall rests.                                                        *)
ASSUME UseAssumption ==
  /\ PushMaxMs \in Nat \ {0} /\ {UseTarget, UseBandLo} \subseteq Int /\ 5000 <= UseTarget - UseBandLo
  /\ \E t \in Ticks : \A u \in Ticks : u <= t
  /\ \A t \in Ticks : t < StallRestMs

(* A buffer that stays below 50 % while the channel is in use is pushed for *)
(* no longer than this, the rests of the anti-stall included: each of them  *)
(* follows at least StallRestMs - Longest of push.                          *)
PushEnds == seen.tried * (StallRestMs - Longest) <= (PushMaxMs + StallRestMs) * (StallRestMs + RestMs + 2 * Longest)
=============================================================================
