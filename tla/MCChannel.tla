----------------------------- MODULE MCChannel ------------------------------
(***************************************************************************)
(* One channel with short times, the percentages those of the A1 build: a  *)
(* behaviour is one of its jam latch under every command; of its auto-     *)
(* unload, with a gear that turns; or of the retraction of an unload, with *)
(* a gear that turns one count or none between two passes.                 *)
(***************************************************************************)
EXTENDS ChannelPass, PullBack

VARIABLE part

Lift == INSTANCE ChannelPass WITH
          StepMax <- 1, StallMs <- 2, Counts <- 4,
          JamReleaseMs <- 1, JamPushMaxMs <- 2, MaxMs <- 3,
          Levels <- {20, 50, 60, 85}, Moves <- {0, 1}, Hosts <- {"other", "on_use"}

ASSUME Lift!PassAssumption

MCInit ==
  /\ part \in {"jam", "lift", "unload"}
  /\ IF part = "lift" THEN Lift!Init ELSE Init
  /\ PullInit
  /\ IF part = "unload" THEN key = 0 ELSE ~online /\ calibrated

MCNext ==
  /\ UNCHANGED part
  /\ \/ part = "jam" /\ Next /\ UNCHANGED pullVars
     \/ part = "lift" /\ Lift!Next /\ UNCHANGED pullVars
     \/ part = "unload" /\ PullNext /\ UNCHANGED vars

MCSpec == /\ MCInit /\ [][MCNext]_<<part, vars, pullVars>>
          /\ WF_pullVars(part = "unload" /\ Passes(PullTicks))
          /\ SF_pullVars(part = "unload" /\ TimelyPass)

-----------------------------------------------------------------------------
\* An auto-unload drives for no longer than its limits, and every unload ends.
UnloadsAreBounded == [](part = "lift" => Lift!AutoUnloadIsBounded) /\ UnloadEnds
=============================================================================
