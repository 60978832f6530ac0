-------------------------- MODULE MCUnitDiscovery --------------------------
(***************************************************************************)
(* Two units: of the AUTO image with requests, an arrange command and a    *)
(* restart; and of either image while the printer only looks for them.     *)
(***************************************************************************)
EXTENDS UnitDiscovery, TLC
CONSTANTS a, b
MCUnits == {a, b}
MCLetter == a :> 0 @@ b :> 1
MCTokens == {"t1"}

VARIABLE part

FindAuto  == INSTANCE UnitDiscovery WITH Requested <- {}, MaxArranges <- 0, Tokens <- {"t1", "t2"}
FindFixed == INSTANCE UnitDiscovery WITH Requested <- {}, MaxArranges <- 0, AmsAuto <- FALSE

MCInit ==
  \/ part = "requests" /\ Init
  \/ part = "find auto" /\ FindAuto!Init
  \/ part = "find fixed" /\ FindFixed!Init

MCNext ==
  /\ UNCHANGED part
  /\ \/ part = "requests" /\ Next
     \/ part = "find auto" /\ FindAuto!Next
     \/ part = "find fixed" /\ FindFixed!Next

MCSpec == MCInit /\ [][MCNext]_<<vars, part>>

-----------------------------------------------------------------------------
\* A unit that the line reaches is found in the end: of the AUTO image, and of the fixed one,
\* which must be probed twice.
UnitsFound == /\ part = "find auto" => FindAuto!AllFound
              /\ part = "find fixed" => FindFixed!AllFound
=============================================================================
