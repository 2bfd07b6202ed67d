--------------------------- MODULE MCSyncDispatch ---------------------------
(* An instance of SyncDispatch for TLC: one server process with its queue  *)
(* and its periodic jobs, a second process that runs the periodic jobs,    *)
(* and a request that synchronizes at once.                                *)
EXTENDS SyncDispatch

CONSTANTS p1, p2, o1

QueueCallers == {Worker, p1}
AllCallers == {Worker, p1, p2, o1}
TwoPeriodics == {p1, p2}
OneOther == {o1}
=============================================================================
