---------------------------- MODULE Calibration ----------------------------
(***************************************************************************)
(* The measurement of the buffers at boot (MC_PULL_calibration_boot) and   *)
(* what a stored range makes of a reading (mc_pull_pct.h).                 *)
(*                                                                         *)
(* A person moves the levers: every pass reads anything.  Readings are mV  *)
(* from the centre, offset applied; beyond 1600 mV it is not a voltage.    *)
(* The channels are measured one after the other, then all must rest.      *)
(* Each of the loops has a limit, and any failure ends the whole run with  *)
(* nothing saved.                                                          *)
(***************************************************************************)
EXTENDS Integers, Sequences

CONSTANTS Count,     \* selected channels, in order
          Readings,  \* mV from the centre
          PressMv, EpsMv, MinLowMv, CenteredMv, \* of a press, at rest, of the low side, let go
          Stable, Released, Timeout             \* in passes of a loop

CalibrationAssumption ==
  /\ Count \in Nat \ {0} /\ Readings \subseteq Int /\ 0 \in Readings
  /\ {PressMv, EpsMv, MinLowMv, CenteredMv, Stable, Released, Timeout} \subseteq Nat \ {0}
  /\ EpsMv < PressMv

Levers == 1..Count
Never    == -1
NoRange  == [pol |-> 1, min |-> -150, max |-> 150]

VARIABLES phase,     \* the step of the run
          which,     \* the channel it measures
          ends,      \* the extremes of this step, once the lever was moved
          passes,    \* passes of this loop
          since,     \* passes since the lever is back at rest: stable_t0, centered_since
          range      \* what was measured, normalised

vars == <<phase, which, ends, passes, since, range>>

Phases  == {"baseline", "first", "second", "release", "write", "saved", "failed", "loaded"}
Rest   == [lo |-> 0, hi |-> 0]
Moved  == ends # Rest

Abs(v)     == IF v < 0 THEN -v ELSE v
Lesser(a, b)  == IF a < b THEN a ELSE b
Greater(a, b) == IF a > b THEN a ELSE b

finite_voltage(v) == Abs(v) <= 1600

cal_apply_polarity(v, pol) == IF pol < 0 THEN -v ELSE v

(* Mutant: a press is enough, as it was before the low side had a floor. *)
AnyLow(vmin) == TRUE

mc_pull_cal_low_ok(vmin) == -vmin >= MinLowMv

(* What a step measures is kept.                                            *)
FirstKept(vmin) == mc_pull_cal_low_ok(vmin)

MinMaxKept(vmin, vmax) == -vmin >= 50 /\ vmax >= 50 /\ vmax - vmin >= 120

(* What the next boot asks of a stored range.                               *)
StoredOk(r) == mc_pull_cal_low_ok(r.min) /\ r.max >= 50 /\ r.max - r.min >= 120

Init ==
  /\ phase = "baseline" /\ which = 1 /\ ends = Rest /\ passes = 0 /\ since = Never
  /\ range = [c \in Levers |-> NoRange]
-----------------------------------------------------------------------------
(* A loop begins or ends. *)
Loop(step) == phase' = step /\ passes' = 0 /\ since' = Never /\ ends' = Rest
Fails      == Loop("failed") /\ which' = 1 /\ range' = [c \in Levers |-> NoRange]

(* The 60 samples of the idle readings; they may be unsteady. *)
Baseline ==
  /\ phase = "baseline"
  /\ \/ Loop("first") /\ UNCHANGED <<which, range>>
     \/ Fails

Ends(v) == IF Moved THEN [lo |-> Lesser(ends.lo, v), hi |-> Greater(ends.hi, v)] ELSE [lo |-> v, hi |-> v]

(* The polarity puts the side the lever was moved to further below centre.  *)
PolarityOf(e) == IF e.hi > -e.lo THEN -1 ELSE 1

(* The lever has been back at rest for long enough. *)
Settled(v) == Moved /\ Abs(v) <= EpsMv /\ since + 1 >= Stable

(* The rest of a pass of a capture: a move is seen, the rest is timed. *)
Watch(v, press) ==
  /\ ends' = IF Moved \/ press THEN Ends(v) ELSE ends
  /\ since' = IF Moved /\ Abs(v) <= EpsMv THEN Lesser(since, Stable - 1) + 1 ELSE Never
  /\ passes' = Lesser(passes, Timeout - 1) + 1
  /\ UNCHANGED <<phase, which, range>>

TimedOut(n) == n >= Timeout

(* capture_first_extreme_wait_release *)
FirstPass(v) ==
  /\ phase = "first"
  /\ IF TimedOut(passes) \/ ~finite_voltage(v) THEN Fails
     ELSE IF ~Settled(v) THEN Watch(v, Abs(v) >= PressMv)
     ELSE LET e    == Ends(v)
              pol  == PolarityOf(e)
              vmin == cal_apply_polarity(IF pol < 0 THEN e.hi ELSE e.lo, pol)
          IN IF FirstKept(vmin)
             THEN /\ Loop("second") /\ UNCHANGED which
                  /\ range' = [range EXCEPT ![which].pol = pol, ![which].min = vmin]
             ELSE Fails

OtherSide(v, pol) == cal_apply_polarity(v, pol) > PressMv

(* capture_second_extreme_wait_release and the rest of the channel *)
SecondPass(v) ==
  /\ phase = "second"
  /\ LET pol == range[which].pol IN
     IF TimedOut(passes) \/ ~finite_voltage(v) THEN Fails
     ELSE IF ~Settled(v) THEN Watch(v, OtherSide(v, pol))
     ELSE LET e    == Ends(v)
              vmax == cal_apply_polarity(IF pol < 0 THEN e.lo ELSE e.hi, pol)
          IN IF MinMaxKept(range[which].min, vmax)
             THEN /\ Loop(IF which = Count THEN "release" ELSE "first")
                  /\ which' = IF which = Count THEN which ELSE which + 1
                  /\ range' = [range EXCEPT ![which].max = vmax]
             ELSE Fails

(* All levers are let go; v: the reading of each. *)
ReleasePass(v) ==
  LET centered == \A c \in Levers : finite_voltage(v[c]) /\ Abs(v[c]) <= CenteredMv IN
  /\ phase = "release"
  /\ IF TimedOut(passes) THEN Fails
     ELSE IF centered /\ since + 1 >= Released THEN Loop("write") /\ UNCHANGED <<which, range>>
     ELSE /\ since' = IF centered THEN Lesser(since, Released - 1) + 1 ELSE Never
          /\ passes' = Lesser(passes, Timeout - 1) + 1 /\ UNCHANGED <<phase, which, ends, range>>

(* Flash_MC_PULL_cal_write_all *)
Write ==
  /\ phase = "write"
  /\ \/ Loop("saved") /\ UNCHANGED <<which, range>>
     \/ Fails

(* The next boot with the same channels. *)
NextBoot ==
  \/ /\ phase \in {"saved", "loaded"} /\ which' = 1 /\ UNCHANGED range
     /\ Loop(IF \A c \in Levers : StoredOk(range[c]) THEN "loaded" ELSE "baseline")
  \/ phase = "failed" /\ Loop("baseline") /\ UNCHANGED <<which, range>>

Measure ==
  \/ Baseline \/ Write
  \/ \E v \in Readings : FirstPass(v) \/ SecondPass(v)
  \/ \E v \in [Levers -> Readings] : ReleasePass(v)

Next == Measure \/ NextBoot

Spec     == Init /\ [][Next]_vars
FairSpec == Spec /\ WF_vars(Measure)
-----------------------------------------------------------------------------
(* What the range makes of a reading v, normalised, in half percent.  The   *)
(* widening of a narrow side (vmin above 1.60 V, vmax below 1.70 V) is for  *)
(* channels without a calibration: their ranges are not used here.          *)
mc_pull_v_to_pct(r, v) ==
  LET low  == Greater(-r.min, 50)
      high == Greater(r.max, 50)
      half == IF v <= 0 THEN (100 * (v + low)) \div low ELSE 100 + (100 * v) \div high
  IN Greater(0, Lesser(200, half))

MC_PULL_pct(r, v) == (mc_pull_v_to_pct(r, v) + 1) \div 2

MC_PULL_CAL_RESET_PRESSED(r, v) == MC_PULL_pct(r, v) <= 15 \/ v <= -100 \/ v <= r.min + 30

(* A calibration is usable once it is saved. *)
Usable == phase \in {"saved", "loaded"}

TypeOK ==
  /\ phase \in Phases /\ which \in Levers /\ passes \in 0..Timeout /\ since \in -1..Greater(Stable, Released)
  /\ ends \in [lo : Readings, hi : Readings]
  /\ range \in [Levers -> [pol : {1, -1}, min : Int, max : Int]]
  /\ phase = "second" => -range[which].min >= MinLowMv

(* A lever as far from the centre as the calibration itself takes for let   *)
(* go neither holds the gesture that clears it, nor, at rest, reads as a    *)
(* jam (below 40 %) or a full buffer (90 %).                                *)
RestIsRest ==
  Usable => \A c \in Levers : \A v \in Readings :
    /\ Abs(v) <= CenteredMv => ~MC_PULL_CAL_RESET_PRESSED(range[c], v)
    /\ Abs(v) <= EpsMv => MC_PULL_pct(range[c], v) \in 40..89

(* The boot never waits for the levers for ever. *)
MeasurementEnds == phase \notin {"saved", "failed", "loaded"} ~> phase \in {"saved", "failed"}
=============================================================================
