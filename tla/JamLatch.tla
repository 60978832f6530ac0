------------------------------ MODULE JamLatch ------------------------------
(***************************************************************************)
(* The jam latch of one channel (jam_latch.h): when a low buffer while     *)
(* printing becomes a jam, when a jam is released, the 20 s limit of a     *)
(* push at full force, and which motor controls a latch brakes.            *)
(*                                                                         *)
(* A latch is a record: brake and jam are g_on_use_low_latch and           *)
(* g_on_use_jam_latch, hi is g_on_use_hi_pwm_us, low and full are the ages *)
(* of the two timed runs, left and risen what the release has seen.        *)
(***************************************************************************)
EXTENDS MotionLimits

CONSTANTS JamTripPct,     \* JAM_TRIP_PCT
          BandLoPct,      \* MC_ON_USE_TARGET_PCT - MC_ON_USE_BAND_LO_DELTA
          JamAwayPct,     \* JAM_RELEASE_AWAY_PCT
          JamTripMs,      \* JAM_TRIP_MS
          JamReleaseMs,   \* JAM_RELEASE_MS
          JamPushMaxMs    \* JAM_PUSH_HI_MAX_US

ASSUME JamAssumption ==
  /\ JamTripPct \in Nat /\ BandLoPct \in Nat /\ JamAwayPct \in Nat
  /\ JamTripPct < BandLoPct /\ BandLoPct < JamAwayPct
  /\ JamTripMs \in Nat \ {0} /\ JamReleaseMs \in Nat \ {0} /\ JamPushMaxMs \in Nat \ {0}

Latches ==
  [brake : BOOLEAN, jam : BOOLEAN, hi : 0..JamPushMaxMs,
   low : {Never} \cup 0..JamTripMs, full : {Never} \cup 0..JamReleaseMs,
   left : BOOLEAN, risen : BOOLEAN]

NoJam == [brake |-> FALSE, jam |-> FALSE, hi |-> 0, low |-> Never, full |-> Never,
          left |-> FALSE, risen |-> FALSE]

JamLater(j, d) == [j EXCEPT !.low = Later(@, d, JamTripMs), !.full = Later(@, d, JamReleaseMs)]

jam_host_from_motion(active, motion) ==
  IF active /\ motion \in {"on_use", "stop_on_use", "before_on_use"} THEN motion ELSE "other"

jam_release_reset(j) == [j EXCEPT !.left = FALSE, !.risen = FALSE, !.full = Never]

ReleaseLevel(host) == IF host \in {"on_use", "stop_on_use"} THEN BandLoPct ELSE JamAwayPct

(* One pass of either timed run. *)
Timed(age, holds) == IF ~holds THEN Never ELSE IF age = Never THEN 0 ELSE age

(* jam_release_update: what the release sees on this pass. *)
ReleaseSeen(j, host, pct) ==
  [j EXCEPT !.risen = @ \/ pct >= JamTripPct,
            !.left  = @ \/ host # "on_use",
            !.full  = Timed(@, pct >= ReleaseLevel(host))]

(* Mutant: the printer's resume alone releases the latch. *)
ResumedUnrisen(j, host) == j.left /\ host \in {"on_use", "before_on_use"}

Resumed(j, host) == j.left /\ j.risen /\ host \in {"on_use", "before_on_use"}

Released(j, host) == Resumed(j, host) \/ j.full = JamReleaseMs

(* jam_latch_pass. *)
JamHeld(j, host, pct) ==
  LET seen == ReleaseSeen(j, host, pct)
  IN IF Released(seen, host) THEN NoJam ELSE [seen EXCEPT !.low = Never]

JamClear(j, counts, pct) ==
  LET run == Timed(j.low, counts /\ pct < JamTripPct)
  IN IF run = JamTripMs
     THEN [jam_release_reset(j) EXCEPT !.low = Never, !.brake = TRUE, !.jam = TRUE]
     ELSE [jam_release_reset(j) EXCEPT !.low = run]

jam_latch_pass(j, onUseCtrl, filament, host, pct) ==
  IF j.jam THEN JamHeld(j, host, pct) ELSE JamClear(j, onUseCtrl /\ filament, pct)

(* A pass whose readings are stale. *)
jam_latch_skip(j) == [j EXCEPT !.low = Never, !.full = Never]

jam_latch_send_out_release(pct, stale) == ~stale /\ pct > JamAwayPct

(* jam_push_limit_pass: a push at full force for d more, or any other. *)
PushCounted(j, isFull, d) == [j EXCEPT !.hi = IF isFull THEN Later(@, d, JamPushMaxMs) ELSE 0]

PushLimit(j) == j.hi = JamPushMaxMs

(* Mutant: a jam does not brake the idle control. *)
BrakesOnUseOnly(motion, j) ==
  \/ motion = "on_use" /\ j.brake
  \/ motion = "before_on_use" /\ j.jam

(* run() brakes the channel instead of running this control. *)
jam_latch_brakes(motion, j) ==
  \/ motion = "on_use" /\ j.brake
  \/ motion \in {"before_on_use", "idle"} /\ j.jam
=============================================================================
