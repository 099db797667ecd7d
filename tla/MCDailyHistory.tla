-------------------------- MODULE MCDailyHistory --------------------------
(* The configurations of DailyHistory give its constants plain values.    *)
EXTENDS DailyHistory
=============================================================================
