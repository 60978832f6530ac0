--------------------------- MODULE MCPushControl ---------------------------
(***************************************************************************)
(* One channel of the A1 build, in steps of 50 ms: being loaded, in use, or *)
(* idle.                                                                   *)
(***************************************************************************)
EXTENDS PushControl

VARIABLE part

Use == INSTANCE PushControl WITH
         Hosts <- {"on_use", "before_on_use"}, Levels <- {3000, 5300, 9000},
         Keys <- BOOLEAN, Others <- BOOLEAN, Ticks <- {1, 2}, Moves <- {0, 1}, SendPwms <- {1000},
         Counts <- 16, SendMax <- 6, ParkedMs <- 4, PushMaxMs <- 14, HandoffMs <- 3, PostMs <- 3,
         MaxStale <- 0

Idle == INSTANCE PushControl WITH
          Hosts <- {"other", "before_pull_back"}, Levels <- {1500, 2600, 2700, 2900, 9000},
          Keys <- BOOLEAN, Ticks <- {1, 2}, Moves <- {0, 1},
          Counts <- 16, SendMax <- 6, ParkedMs <- 4, IdleMaxMs <- 15, MaxStale <- 2

ASSUME Use!InputsAssumption /\ Idle!InputsAssumption /\ Use!PushAssumption /\ Idle!PushAssumption

MCInit == \/ part = "load" /\ Init
          \/ part = "use" /\ Use!Init
          \/ part = "idle" /\ Idle!Init

MCNext == /\ UNCHANGED part
          /\ \/ part = "load" /\ Next
             \/ part = "use" /\ Use!Next
             \/ part = "idle" /\ Idle!Next

MCSpec == MCInit /\ [][MCNext]_<<vars, part>>

\* A channel the printer leaves alone, of the constants as they are.
AloneSpec == Init /\ part = "alone" /\ [][Next /\ UNCHANGED part]_<<vars, part>>

-----------------------------------------------------------------------------
\* No other push goes on for ever: of a channel in use that stays low, or of a parked one,
\* at the edge of the deadband and beyond.
PushesEnd ==
  /\ part = "use" => Use!TypeOK /\ Use!PushEnds
  /\ part = "idle" => Idle!IdlePushIsBounded /\ Idle!EdgeBrakeHolds
=============================================================================
