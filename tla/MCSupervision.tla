--------------------------- MODULE MCSupervision ---------------------------
(***************************************************************************)
(* What watches over what: the link to the host, the sample of the receive *)
(* ring, and the record kept for the watchdog's resets.  They share no     *)
(* state: a behaviour is one of one of them, with the others at rest.      *)
(***************************************************************************)
EXTENDS HostLink, RingCounter, BlackBox

VARIABLE part

\* Two places a trap can come from.
MCPlaces == {<<0, 1>>, <<1, 0>>}

MCInit ==
  /\ part \in {"link", "ring", "box"}
  /\ LinkInit /\ RingInit /\ BoxInit
  /\ part # "ring" => ~paced
  /\ part # "link" => speaks = "ams" /\ ~amsAuto

MCNext ==
  /\ UNCHANGED part
  /\ \/ part = "link" /\ LinkNext /\ UNCHANGED <<ringVars, boxVars>>
     \/ part = "ring" /\ RingNext /\ UNCHANGED <<linkVars, boxVars>>
     \/ part = "box" /\ BoxNext /\ UNCHANGED <<linkVars, ringVars>>

MCVars == <<part, linkVars, ringVars, boxVars>>

MCSpec == MCInit /\ [][MCNext]_MCVars
=============================================================================
