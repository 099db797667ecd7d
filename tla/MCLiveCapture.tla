--------------------------- MODULE MCLiveCapture ---------------------------
(* Values the configurations give to the constants of LiveCapture.         *)
EXTENDS LiveCapture

ThirdRedacted == {3}
=============================================================================
