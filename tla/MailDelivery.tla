---------------------------- MODULE MailDelivery ----------------------------
(***************************************************************************)
(* What the scheduled sending of mail promises, without locks, rows or     *)
(* transactions.  A message is planned, taken by one run of the sender,    *)
(* and leaves that run sent, planned again, lost or dropped.  Only the run *)
(* that has taken a message gives the provider a copy of it; a message     *)
(* that was sent or lost is never taken again, so no more copies are made. *)
(***************************************************************************)
EXTENDS Integers

CONSTANTS Msgs, Runs

VARIABLES
    stage,    \* the stage every message is in
    taken,    \* the messages each run has taken
    copies    \* how many copies of each message the provider has accepted

vars == <<stage, taken, copies>>

Ends == {"sent", "planned", "lost", "dropped"}
Stages == {"unplanned", "taken"} \union Ends

Init ==
    /\ stage = [m \in Msgs |-> "unplanned"]
    /\ taken = [r \in Runs |-> {}]
    /\ copies = [m \in Msgs |-> 0]

Plan(m) ==
    /\ stage[m] = "unplanned"
    /\ stage' = [stage EXCEPT ![m] = "planned"]
    /\ UNCHANGED <<taken, copies>>

\* Messages no run has taken can be deleted, whatever their stage.
Drop(S) ==
    /\ \A m \in S : stage[m] \in Ends
    /\ stage' = [m \in Msgs |-> IF m \in S THEN "dropped" ELSE stage[m]]
    /\ UNCHANGED <<taken, copies>>

Take(r, S) ==
    /\ taken[r] = {}
    /\ \A m \in S : stage[m] = "planned"
    /\ taken' = [taken EXCEPT ![r] = S]
    /\ stage' = [m \in Msgs |-> IF m \in S THEN "taken" ELSE stage[m]]
    /\ UNCHANGED copies

HandOver(r, m) ==
    /\ m \in taken[r]
    /\ copies' = [copies EXCEPT ![m] = @ + 1]
    /\ UNCHANGED <<stage, taken>>

\* A run ends: each message it had taken comes to one of the ends, and is "sent"
\* only if the provider has a copy.  A run that dies may leave one more copy.
Release(r) ==
    /\ taken' = [taken EXCEPT ![r] = {}]
    /\ \/ UNCHANGED copies
       \/ \E m \in taken[r] : copies' = [copies EXCEPT ![m] = @ + 1]
    /\ stage' \in [Msgs -> Stages]
    /\ \A m \in Msgs :
         IF m \in taken[r]
         THEN stage'[m] \in Ends /\ (stage'[m] = "sent" => copies[m] > 0)
         ELSE stage'[m] = stage[m]

Next ==
    \/ \E m \in Msgs : Plan(m)
    \/ \E S \in SUBSET Msgs : Drop(S)
    \/ \E r \in Runs :
         \/ \E S \in SUBSET Msgs : Take(r, S)
         \/ \E m \in Msgs : HandOver(r, m)
         \/ Release(r)

Spec == Init /\ [][Next]_vars
=============================================================================
