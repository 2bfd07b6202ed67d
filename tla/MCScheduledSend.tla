-------------------------- MODULE MCScheduledSend --------------------------
(* An instance of ScheduledSend for TLC.                                   *)
EXTENDS ScheduledSend

\* All messages look alike to the duplicate remover.
SameTexts == [m \in 1..MsgCount |-> 1]
=============================================================================
