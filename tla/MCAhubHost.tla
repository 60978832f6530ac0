------------------------------ MODULE MCAhubHost ------------------------------
(* Values for model checking the unit at an AHUB host. *)
EXTENDS AhubHost
MCCalibrated == {0}
Entry(num, first) == [ours |-> TRUE, num |-> num,
                      motion |-> [c \in Channels |-> IF c = 0 THEN first ELSE "idle"]]
Foreign == [Entry(1, "idle") EXCEPT !.ours = FALSE]
\* Channel 0 in use; its pull back, as the last entry and the first; none active, in a packet
\* that also names a channel that does not exist; a motion no enumerator names.
MCLists == {<<Entry(0, "on_use")>>,
            <<Foreign, Entry(0, "pull_back")>>,
            <<Entry(0, "pull_back"), Entry(0, "unknown")>>,
            <<Entry(None, "idle"), Entry(7, "idle")>>}
==============================================================================
