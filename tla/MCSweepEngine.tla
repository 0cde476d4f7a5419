---------------------------- MODULE MCSweepEngine ---------------------------
(* One sweep of two levels and two concurrent stop requests.  Sweeps share *)
(* nothing but the table of sessions, so one shows all there is; a second  *)
(* stop is needed for a stop that is between its check and its assignment  *)
(* while the event is already set.                                         *)
EXTENDS SweepEngine
=============================================================================
