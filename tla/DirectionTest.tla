---------------------------- MODULE DirectionTest -----------------------------
(***************************************************************************)
(* The test at boot that finds which way each motor turns its gear          *)
(* (MOTOR_get_dir): a still baseline, full PWM until the angle has moved,   *)
(* then two reads that confirm it, all channels in the same steps of 10 ms. *)
(* What it finds is kept in flash, and every later motion relies on it.     *)
(*                                                                         *)
(* Turning the gear's zero changes nothing, so angles are kept relative to  *)
(* last_angle.  The gear moves only when it is driven.                      *)
(***************************************************************************)
EXTENDS Integers, FiniteSets

CONSTANTS
  Motors,  \* those that are tested: working sensor, calibrated, empty switches
  Half,      \* half a turn, in counts
  Detect,    \* detect_count
  Quarter,   \* detect_count / 4
  Speed,     \* bound: counts a driven gear turns within a step
  Steps,     \* steps of the test
  MaxBad     \* bound: corrupted reads of one channel

ASSUME DirectionAssumption ==
  /\ Speed \in Nat /\ Steps \in Nat /\ MaxBad \in Nat
  /\ Half \in Nat /\ Detect \in Nat /\ Quarter \in 0..Detect
  /\ Detect + (MaxBad + 1) * Speed + Quarter < Half

VARIABLES tests,    \* each channel's test
          stepped,  \* steps done
          over      \* has the test ended?

testVars == <<tests, stepped, over>>

Turn == 2 * Half
Ways == {-1, 1}

(* as5600_angle_diff *)
Diff(d) == IF d > Half THEN d - Turn ELSE d
Mag(d) == IF d < 0 THEN -d ELSE d
Sign(d) == IF d > 0 THEN 1 ELSE -1

(* way: how this motor turns the gear; rel: the gear, from last_angle; bad, *)
(* fair: history, corrupted reads, and was every read good and every drive  *)
(* a motion?                                                                *)
TestInit ==
  /\ tests \in [Motors -> [test : {TRUE}, phase : {0}, rel : {0}, candidate : {0}, dir : {0},
                          pwm : {FALSE}, way : Ways, bad : {0}, fair : {TRUE}]]
  /\ stepped = 0 /\ over = FALSE

-----------------------------------------------------------------------------
(* One channel's part of a step that reads the gear at d. *)
Rebase(s, d) == [s EXCEPT !.rel = (@ - d) % Turn]

Baseline(s, d) == [Rebase(s, d) EXCEPT !.phase = 1]

Still(s, d) ==
  IF Mag(Diff(d)) <= Quarter THEN [Rebase(s, d) EXCEPT !.phase = 2, !.pwm = TRUE] ELSE Rebase(s, d)

Detected(s, d) ==
  IF Mag(Diff(d)) > Detect THEN [s EXCEPT !.pwm = FALSE, !.candidate = Sign(Diff(d)), !.phase = 3] ELSE s

Confirms(s, d) == Sign(Diff(d)) = s.candidate /\ Mag(Diff(d)) > Quarter

\* Variant for mutation: the candidate is taken after any two reads.
ConfirmedUnseen(s, d) ==
  IF s.phase = 3 THEN [s EXCEPT !.phase = 4]
  ELSE [s EXCEPT !.test = FALSE, !.dir = s.candidate]

Confirmed(s, d) ==
  IF ~Confirms(s, d) THEN [s EXCEPT !.test = FALSE]
  ELSE IF s.phase = 3 THEN [s EXCEPT !.phase = 4]
  ELSE [s EXCEPT !.test = FALSE, !.dir = s.candidate]

(* The sensor was lost. *)
Aborted(s) == [s EXCEPT !.test = FALSE, !.pwm = FALSE]

Read(s, d) ==
  CASE s.phase = 0 -> Baseline(s, d)
    [] s.phase = 1 -> Still(s, d)
    [] s.phase = 2 -> Detected(s, d)
    [] s.phase \in 3..4 -> Confirmed(s, d)

Moved(s, v) == IF s.pwm THEN [s EXCEPT !.rel = (@ + s.way * v) % Turn, !.fair = @ /\ v > 0] ELSE s

(* What one step may do to a channel. *)
Tested(s) ==
  IF ~s.test THEN {s}
  ELSE UNION {LET m == Moved(s, v)
              IN {Read(m, m.rel), [Aborted(m) EXCEPT !.fair = FALSE]}
                 \cup (IF m.bad = MaxBad THEN {}
                       ELSE {[Read(m, d) EXCEPT !.bad = @ + 1, !.fair = FALSE] : d \in 0..(Turn - 1)})
              : v \in IF s.pwm THEN 0..Speed ELSE {0}}

Step ==
  /\ ~over /\ stepped < Steps /\ \E i \in Motors : tests[i].test
  /\ stepped' = stepped + 1 /\ UNCHANGED over
  /\ \E new \in [Motors -> UNION {Tested(tests[i]) : i \in Motors}] :
       /\ \A i \in Motors : new[i] \in Tested(tests[i])
       /\ tests' = new

(* The test is over: whatever is not finished is stopped. *)
Halted(s) == IF s.test THEN [s EXCEPT !.pwm = FALSE] ELSE s

End ==
  /\ ~over /\ (stepped = Steps \/ \A i \in Motors : ~tests[i].test)
  /\ over' = TRUE /\ tests' = [i \in Motors |-> Halted(tests[i])] /\ UNCHANGED stepped

TestNext == Step \/ End

TestSpec == TestInit /\ [][TestNext]_testVars
-----------------------------------------------------------------------------
(* A motor runs only in phase 2, and only while its channel is tested; a    *)
(* direction belongs to a test that went through all its phases.            *)
DirectionTypeOK ==
  /\ stepped \in 0..Steps /\ over \in BOOLEAN
  /\ \A i \in Motors :
       /\ tests[i].rel \in 0..(Turn - 1) /\ tests[i].phase \in 0..4 /\ tests[i].dir \in {0} \cup Ways
       /\ tests[i].pwm => tests[i].phase = 2 /\ tests[i].test
       /\ tests[i].dir # 0 => tests[i].phase = 4 /\ ~tests[i].test

(* A wrong direction would be saved and have every later push pull: one     *)
(* corrupted read alone, at any step of the test, costs the direction at    *)
(* most.                                                                    *)
RightDirection ==
  \A i \in Motors : tests[i].dir # 0 /\ tests[i].bad <= 1 => tests[i].dir = tests[i].way

(* When the test is over no motor is left running. *)
EndsBraked == over => \A i \in Motors : ~tests[i].pwm

(* A gear that turns on every driven step and reads true on every one has   *)
(* its direction found, whatever happens to the other channels.             *)
FreeGearIsFound ==
  over /\ Steps >= Detect + 5 => \A i \in Motors : tests[i].fair => tests[i].dir = tests[i].way

(* Whatever one read says, a direction is the motor's own or not known.     *)
DirectionIsRight == RightDirection /\ EndsBraked /\ FreeGearIsFound
=============================================================================
