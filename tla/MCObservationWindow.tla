------------------------ MODULE MCObservationWindow ------------------------
(* ObservationWindow on days of a few instants.                            *)
EXTENDS ObservationWindow

\* A key that is idle or busy.
IdleOrBusy == {0, 1}
============================================================================
