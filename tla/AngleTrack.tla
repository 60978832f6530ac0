------------------------------ MODULE AngleTrack ------------------------------
(***************************************************************************)
(* One gear's angle sensor: the health gate of its reads                   *)
(* (AS5600_distance_updata, Motion_control.cpp) and the tracker that turns *)
(* angles into distance (as5600_sample.h), against the gear's true motion. *)
(*                                                                         *)
(* Turning the gear's zero changes nothing, so angles are kept relative to *)
(* the tracker's: where the gear is as seen from the last accepted angle.  *)
(* Time is in ms, a poll at most one per ms.                               *)
(***************************************************************************)
EXTENDS Integers

CONSTANTS Half,         \* AS5600_HALF_TURN
          PerMs,        \* AS5600_MAX_COUNTS_PER_MS
          Speed,        \* bound: counts the gear turns in one ms
          Gaps,         \* bound: ms between two polls
          FailTrip, OkRecover,   \* kAS5600_FAIL_TRIP, kAS5600_OK_RECOVER
          JumpRebase,   \* AS5600_JUMP_REBASE
          MaxBad        \* bound: corrupted reads that were answered, since the gate opened

Turn == 2 * Half
LongestGap == CHOOSE g \in Gaps : \A h \in Gaps : h <= g

\* Polls in a row that failed or were impossible, before the gate shuts or a new baseline.
MostHeld == (FailTrip - 1) * JumpRebase + JumpRebase - 1

ASSUME AngleAssumption ==
  /\ Half \in Nat \ {0} /\ PerMs \in Nat \ {0} /\ Speed \in Nat /\ Speed <= PerMs
  /\ Gaps \subseteq Nat \ {0} /\ \E g \in Gaps : \A h \in Gaps : h <= g
  /\ FailTrip \in Nat \ {0} /\ OkRecover \in Nat \ {0} /\ JumpRebase \in Nat \ {0}
  /\ MaxBad \in Nat

\* Meanwhile the gear turns less than half a turn.
ASSUME RoomAssumption == (MostHeld + 1) * (Speed * LongestGap) < Half

VARIABLES
  good, fail, okstreak,   \* g_as5600_good, g_as5600_fail, g_as5600_okstreak
  valid, jumps,           \* as5600_track_t
  elapsed,                \* ms since the last accepted read
  ahead,                  \* ghost: the gear's angle, less the tracker's, 0 .. Turn - 1
  err,                    \* ghost: distance counted less distance turned, since the gate opened
  bad,                    \* ghost: corrupted reads taken by the tracker since the gate opened
  held,                   \* ghost: polls in a row that kept the speed of an earlier one
  calm                    \* ghost: no failed read since the gate opened

gate == <<good, fail, okstreak>>
track == <<valid, jumps, elapsed>>
angleVars == <<gate, track, ahead, err, bad, held, calm>>

\* Motion_control_init: the gate is open if the boot's reads were good; no baseline yet.
AngleInit ==
  /\ good \in BOOLEAN
  /\ fail = IF good THEN 0 ELSE FailTrip
  /\ okstreak = IF good THEN OkRecover ELSE 0
  /\ valid = FALSE /\ jumps = 0 /\ elapsed = 0
  /\ ahead = 0 /\ err = 0 /\ bad = 0 /\ held = 0 /\ calm = TRUE

\* as5600_angle_diff: the shortest way from the last angle to one that is x counts ahead.
as5600_angle_diff(x) == IF x > Half THEN x - Turn ELSE x

\* Variant for mutation: any move the wrap can resolve is believed.
HalfTurn(t) == Half

\* as5600_max_step, after t ms.
as5600_max_step(t) == IF t * PerMs >= Half THEN Half ELSE t * PerMs

\* The driver's mask and the magnet: an answered read within 12 bits.
Answered(read) == read # "failed"

\* The health gate, its counters kept at what they are compared with.
Gate(ok) ==
  /\ fail' = IF ok THEN 0 ELSE IF fail < FailTrip THEN fail + 1 ELSE fail
  /\ okstreak' = IF ~ok THEN 0 ELSE IF okstreak < OkRecover THEN okstreak + 1 ELSE okstreak
  /\ good' = IF ok THEN good \/ okstreak' = OkRecover ELSE good /\ fail' < FailTrip

\* The gate is shut: no baseline, no distance; what turns meanwhile is not counted.
Off == /\ valid' = FALSE /\ jumps' = 0 /\ elapsed' = 0
       /\ ahead' = 0 /\ err' = 0 /\ bad' = 0 /\ held' = 0

\* A failed read: the tracker keeps its baseline and the speed its value.
Skip(now, turned, t) ==
  /\ UNCHANGED <<valid, jumps, bad>>
  /\ IF valid THEN ahead' = now /\ err' = err - turned /\ elapsed' = t /\ held' = held + 1
     ELSE UNCHANGED <<ahead, err, elapsed, held>>

\* A new baseline at an angle x ahead of the old one: no distance.
Rebase(now, turned, x) ==
  /\ valid' = TRUE /\ jumps' = 0 /\ elapsed' = 0
  /\ ahead' = (now - x) % Turn
  /\ err' = IF valid THEN err - turned ELSE 0
  /\ held' = 0

\* An impossible move: the third in a row makes a new baseline.
Jump(now, turned, t, x) ==
  IF jumps + 1 = JumpRebase THEN Rebase(now, turned, x)
  ELSE /\ jumps' = jumps + 1 /\ UNCHANGED valid
       /\ ahead' = now /\ err' = err - turned /\ elapsed' = t
       /\ held' = held + 1

\* The odometer moves by the difference.
Move(now, turned, x) ==
  /\ valid' = TRUE /\ jumps' = 0 /\ elapsed' = 0
  /\ ahead' = (now - x) % Turn
  /\ err' = err - turned + as5600_angle_diff(x)
  /\ held' = 0

\* as5600_track_sample, of an angle x ahead of the last.
as5600_track_sample(read, now, turned, t, x) ==
  IF ~good' THEN Off /\ calm' = TRUE
  ELSE /\ calm' = (calm /\ Answered(read))
       /\ IF ~Answered(read) THEN Skip(now, turned, t)
          ELSE /\ bad' = IF read = "true" THEN bad ELSE bad + 1
               /\ LET d == as5600_angle_diff(x)
                      lim == as5600_max_step(t)
                  IN  IF ~valid THEN Rebase(now, turned, x)
                      ELSE IF d > lim \/ d < -lim THEN Jump(now, turned, t, x)
                      ELSE Move(now, turned, x)

\* A poll after t ms in which the gear turned some counts.
AS5600_distance_updata(ms, turned, read, garbage) ==
  LET now == (ahead + turned) % Turn
  IN  /\ Gate(Answered(read))
      /\ as5600_track_sample(read, now, turned, elapsed + ms,
                             IF read = "true" THEN now ELSE garbage)

AngleNext ==
  \E ms \in Gaps : \E turned \in -(Speed * ms) .. (Speed * ms) :
    \/ AS5600_distance_updata(ms, turned, "true", 0)
    \/ AS5600_distance_updata(ms, turned, "failed", 0)
    \/ bad < MaxBad /\ \E garbage \in 0 .. Turn - 1 : AS5600_distance_updata(ms, turned, "bad", garbage)

AngleSpec == AngleInit /\ [][AngleNext]_angleVars

-----------------------------------------------------------------------------
AngleTypeOK ==
  /\ good \in BOOLEAN /\ fail \in 0 .. FailTrip /\ okstreak \in 0 .. OkRecover
  /\ valid \in BOOLEAN /\ calm \in BOOLEAN /\ jumps \in 0 .. JumpRebase - 1
  /\ elapsed \in 0 .. (MostHeld + 1) * LongestGap
  /\ ahead \in 0 .. Turn - 1 /\ err \in Int /\ bad \in 0 .. MaxBad

\* The motors are steered by a speed that is at most this many polls old, "at most 8 polls
\* in a row", whatever mix of failed and impossible reads comes.
SpeedHeldBriefly == held <= MostHeld

\* Failed reads, late polls and their order cost no distance: until a corrupted read is taken,
\* what the odometer lacks is what the gear has turned since the last accepted read.
FailedReadsCostNothing == valid /\ bad = 0 => err = -as5600_angle_diff(ahead)

\* What corrupted reads can cost for good, as each may be a baseline: twice, when it is taken and
\* when a true angle is believed again, the largest step believed before a new baseline and the
\* motion until then.  That takes three polls, or nine when failed reads come between; with polls
\* in time it is less than the half turn a wrong angle can be off by.
BadReadsCostLittle ==
  LET ms   == LongestGap * IF calm THEN JumpRebase ELSE MostHeld + 1
      cost == 2 * bad * ((PerMs + Speed) * ms) + Speed * ms
  IN  valid => err <= cost /\ -cost <= err

\* Failed, late and corrupted reads cost little distance and keep no old speed for long.
AnglesAreTrue == AngleTypeOK /\ SpeedHeldBriefly /\ FailedReadsCostNothing /\ BadReadsCostLittle
==============================================================================
