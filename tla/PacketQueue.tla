---------------------------- MODULE PacketQueue ----------------------------
(***************************************************************************)
(* What the bus port promises its users: the frames it accepted, handed    *)
(* over one at a time, oldest first, at most Depth of them waiting.  A     *)
(* frame that finds the queue full is lost, never one that waits in it.    *)
(***************************************************************************)
EXTENDS Naturals, Sequences

CONSTANT Depth

VARIABLES queue    \* the frames accepted and not yet released, oldest first

Init == queue = << >>

(* A frame, whatever its bytes, is accepted: there is room for it. *)
Put == /\ Len(queue) < Depth
       /\ Len(queue') = Len(queue) + 1
       /\ SubSeq(queue', 1, Len(queue)) = queue

(* The handlers have dealt with the oldest frame. *)
Get == /\ queue # << >>
       /\ queue' = Tail(queue)

Next == Get \/ Put

Spec == Init /\ [][Next]_queue
============================================================================
