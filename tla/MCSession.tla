----------------------------- MODULE MCSession -----------------------------
(* An instance of Registration, with the pages of Session, for TLC: the    *)
(* run that shows a race needs no more visits than take part in it.        *)
EXTENDS Registration
=============================================================================
