---------------------------- MODULE MCCalibration ----------------------------
(***************************************************************************)
(* From the levers to the motors: the measurement of the buffers at boot,  *)
(* its readings the limits of the code and one beyond each; the two        *)
(* calibration pages and the page of directions, from boot to the clear;   *)
(* the test of two motors' directions, with gears of 12 counts; one        *)
(* channel with which a hand does anything; and two that are pressed to    *)
(* clear, with short times for the other gesture.  A behaviour is one of   *)
(* one of them, with the others at rest.                                   *)
(***************************************************************************)
EXTENDS BufferGestures, CalibrationStore, DirectionTest

VARIABLES phase, which, ends, passes, since, range,    \* Calibration
          part

Clear == INSTANCE BufferGestures WITH
           Channels <- {0, 1}, Calibrated <- {0, 1}, Hands <- {"down", "rest"}, Keys <- {0, 1},
           Hold <- 3, Settle <- 0, Return <- 1, Load <- 1, Stale <- 2, MaxGap <- 1

One == INSTANCE Calibration WITH
         Count <- 1,
         Readings <- {-300, -190, -189, -100, -99, -80, -25, 0, 25, 80, 100, 101, 190, 2000},
         PressMv <- 100, EpsMv <- 25, MinLowMv <- 190, CenteredMv <- 80,
         Stable <- 2, Released <- 2, Timeout <- 7

Two == INSTANCE Calibration WITH
         Count <- 2, Readings <- {-190, -80, 0, 26, 101, 190, 2000},
         PressMv <- 100, EpsMv <- 25, MinLowMv <- 190, CenteredMv <- 80,
         Stable <- 2, Released <- 2, Timeout <- 7

ASSUME Clear!GestureAssumption /\ One!CalibrationAssumption /\ Two!CalibrationAssumption

calVars == <<phase, which, ends, passes, since, range>>

MCInit ==
  /\ part \in {"load", "clear", "one", "two", "pages", "test"}
  /\ IF part = "clear" THEN Clear!Init ELSE Init
  /\ IF part = "two" THEN Two!Init ELSE One!Init
  /\ StoreInit /\ TestInit
  /\ part # "test" => \A i \in Motors : tests[i].way = 1

MCNext ==
  /\ UNCHANGED part
  /\ \/ part = "load" /\ Next /\ UNCHANGED <<calVars, storeVars, testVars>>
     \/ part = "clear" /\ Clear!Next /\ UNCHANGED <<calVars, storeVars, testVars>>
     \/ part = "one" /\ One!Next /\ UNCHANGED <<vars, storeVars, testVars>>
     \/ part = "two" /\ Two!Next /\ UNCHANGED <<vars, storeVars, testVars>>
     \/ part = "pages" /\ StoreNext /\ UNCHANGED <<vars, calVars, testVars>>
     \/ part = "test" /\ TestNext /\ UNCHANGED <<vars, calVars, storeVars>>

MCSpec == /\ MCInit /\ [][MCNext]_<<part, vars, calVars, storeVars, testVars>>
          /\ WF_vars(part = "clear" /\ Clear!Tick) /\ WF_vars(part = "clear" /\ Clear!SomePass)
          /\ WF_vars(part = "clear" /\ (Clear!Cleared \/ Clear!ClearFails))
          /\ SF_vars(part = "clear" /\ Clear!SomePass /\ at' = "clear")
          /\ WF_calVars(part = "two" /\ Two!Measure)

-----------------------------------------------------------------------------
\* The calibration is cleared only by a press that was held, and a press that is kept up is
\* answered.
ClearsArePresses ==
  /\ [](part = "clear" => Clear!TypeOK /\ Clear!ClearIsAHeldPress)
  /\ \A c \in {0, 1} : <>[](part = "clear" /\ Clear!KeptUp(c)) => []<>(at # "run")

\* A lever at rest reads as one under every calibration that is saved, which is then that of
\* every later boot, and no boot waits for the levers for ever.
MeasuredWell ==
  /\ [](part = "one" => One!TypeOK /\ One!RestIsRest)
  /\ [][part = "one" /\ One!Usable => phase' = "loaded"]_calVars
  /\ part = "two" => Two!MeasurementEnds
==============================================================================
