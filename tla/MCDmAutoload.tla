--------------------------- MODULE MCDmAutoload ---------------------------
(***************************************************************************)
(* Short budgets; a gear that turns by one count or none.  Each part keeps *)
(* the history its property reads: a parked filament that hands move; a    *)
(* run of Stage-2 that the key and hands interrupt; a blocked gear; and a  *)
(* blocked gear whose channel is also off at times.                        *)
(***************************************************************************)
EXTENDS DmAutoload

HandAny == {-1, 0, 1}

VARIABLE part

Run     == INSTANCE DmAutoload WITH
             Hand <- {-1, 0}, Kinds <- {"control", "unload"}, RetractCnt <- 1,
             Length <- 3, Stage2Ms <- 6, Kept <- {"net"}
Blocked == INSTANCE DmAutoload WITH
             Hand <- {0}, Moves <- {0}, Kinds <- {"control", "unload"}, RetractCnt <- 1,
             StallMs <- 3, AwayMs <- 2, DebounceMs <- 2, Stage1Ms <- 4, FailMs <- 2,
             ExtraMs <- 2, Length <- 2, Stage2Ms <- 6, Kept <- {"drives"}
Ends    == INSTANCE DmAutoload WITH
             Hand <- {0}, Moves <- {0}, Kinds <- {"control", "unload", "off"}, RetractCnt <- 1,
             AwayMs <- 2, DebounceMs <- 2, Stage1Ms <- 3, Stage2Ms <- 3, Kept <- {}

ASSUME Run!AutoloadAssumption /\ Blocked!AutoloadAssumption /\ Ends!AutoloadAssumption

MCInit == \/ part = "parked" /\ Init
          \/ part = "run" /\ Run!Init
          \/ part = "blocked" /\ Blocked!Init
          \/ part = "ends" /\ Ends!Init

MCNext == /\ UNCHANGED part
          /\ \/ part = "parked" /\ Next
             \/ part = "run" /\ Run!Next
             \/ part = "blocked" /\ Blocked!Next
             \/ part = "ends" /\ Ends!Next

MCSpec == /\ MCInit /\ [][MCNext]_<<vars, part>>
          /\ WF_vars(part = "ends" /\ Ends!OwnPass)
          /\ SF_vars(part = "ends" /\ Ends!TimelyPass)

-----------------------------------------------------------------------------
\* A parked filament counts as inserted only when it was seen to leave, and a failed load is
\* not tried again on its own.
StaysParked ==
  [](part = "parked" => TypeOK /\ ParkedStaysPut) /\ [][part = "parked" => FailureKept]_<<vars, part>>

\* A run pushes no more than its length, whatever interrupts it, and drives into a blocked
\* gear for a bounded time.
RunsAreBounded ==
  /\ part = "run" => Run!RunStaysInLength
  /\ part = "blocked" => Blocked!BlockedGearIsFound

\* Every run ends.
RunsEnd == part = "ends" => Ends!RunEnds
=============================================================================
