------------------------------ MODULE MCSensors ------------------------------
(***************************************************************************)
(* What the firmware reads of its sensors, with short times: the stream of *)
(* buffer and switch readings, a smaller one of which the fairness is      *)
(* stated; and the distance a gear has turned.  They share no state: a     *)
(* behaviour is one of one of them, with the other at rest.                *)
(***************************************************************************)
EXTENDS AdcStream, AngleTrack

VARIABLE part

Live == INSTANCE AdcStream WITH NBlocks <- 1, Sums <- {1}, Stale <- 2, Restart <- 3, MaxGap <- 1

ASSUME Live!StreamAssumption

MCInit ==
  /\ part \in {"stream", "live", "angle"}
  /\ IF part = "stream" THEN Init ELSE Live!Init
  /\ AngleInit
  /\ part # "angle" => good

MCNext ==
  /\ UNCHANGED part
  /\ \/ part = "stream" /\ Next /\ UNCHANGED angleVars
     \/ part = "live" /\ Live!Next /\ UNCHANGED angleVars
     \/ part = "angle" /\ AngleNext /\ UNCHANGED vars

MCSpec ==
  /\ MCInit /\ [][MCNext]_<<part, vars, angleVars>>
  /\ WF_vars(part = "live" /\ Live!Tick) /\ WF_vars(part = "live" /\ Live!Pass)
  /\ WF_vars(part = "live" /\ Live!Publish)
  /\ WF_vars(part = "live" /\ \E works \in BOOLEAN : Live!Poll(works))
  /\ WF_vars(part = "live" /\ \E works \in BOOLEAN : Live!Judge(works))
  /\ SF_vars(part = "live" /\ te /\ Live!Poll(TRUE))
  /\ SF_vars(part = "live" /\ halfAge > 2 /\ Live!RestartDue /\ Live!Judge(TRUE))

-----------------------------------------------------------------------------
\* Readings are never averages of nothing nor old ones, and a stream that runs, or can be
\* restarted, is not called stale.
StreamIsTrue ==
  /\ [](AverageIsOfRecent /\ ReadingsAreReal /\ (part = "stream" => TypeOK /\ DrivesOnRecent))
  /\ LiveIsNotStale
  /\ part = "live" => Live!StreamComesBack
==============================================================================
