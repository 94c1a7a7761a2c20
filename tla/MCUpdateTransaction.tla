------------------------ MODULE MCUpdateTransaction ------------------------
(* Four releases, the third of which changes only the app. *)
EXTENDS UpdateTransaction

MCDigest(v) == IF v < 3 THEN v ELSE v - 1
=============================================================================
