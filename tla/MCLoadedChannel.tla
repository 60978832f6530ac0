--------------------------- MODULE MCLoadedChannel ---------------------------
(***************************************************************************)
(* The loaded channel of one image, whichever it is, where the other image *)
(* is no more than its copy; and of both images side by side.              *)
(***************************************************************************)
EXTENDS BootRestoreImages

VARIABLE part

MCCalibrated == {0}

MCInit ==
  \/ part = "one image" /\ Init /\ off = [ram EXCEPT !.atBoot = FALSE] /\ posOff = pos /\ taken = FALSE
  \/ part = "both images" /\ ImagesInit

MCNext ==
  /\ UNCHANGED part
  /\ \/ part = "one image" /\ Next /\ off' = [ram' EXCEPT !.atBoot = FALSE] /\ posOff' = pos'
                              /\ UNCHANGED taken
     \/ part = "both images" /\ ImagesNext

MCSpec == MCInit /\ [][MCNext]_<<part, images>> /\ Fairness
==============================================================================
