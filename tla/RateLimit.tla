----------------------------- MODULE RateLimit -----------------------------
(***************************************************************************)
(* The attempts to log in or to register that one server process counts    *)
(* for one client and address: _enforce_rate_limit of api/auth.py, a       *)
(* sliding window in the memory of the process.                            *)
(***************************************************************************)
EXTENDS Integers, Sequences, FiniteSets

CONSTANTS
    Limit,         \* attempts that are let through ...
    Window,        \* ... within this time
    MaxTries,      \* bound on the attempts
    MaxTime        \* bound on the time

ASSUME RateAssumptions ==
    /\ Limit \in Nat
    /\ Window \in Nat
    /\ MaxTries \in Nat
    /\ MaxTime \in Nat

VARIABLES
    now,
    passed,     \* times of the attempts let through since the process started (history)
    attempts,   \* those of them that _rate_attempts[key] has, by their numbers
    tries       \* attempts so far

rateVars == <<now, passed, attempts, tries>>

RateInit ==
    /\ now = 0
    /\ passed = <<>>
    /\ attempts = {}
    /\ tries = 0

TimePasses ==
    /\ now < MaxTime
    /\ now' = now + 1
    /\ UNCHANGED <<passed, attempts, tries>>

Recent == {k \in attempts : now - passed[k] < Window}

Attempting == tries < MaxTries /\ tries' = tries + 1 /\ UNCHANGED now

\* A faulty variant: one attempt too many.
Exhausted_Late == Cardinality(Recent) > Limit

Exhausted == Cardinality(Recent) >= Limit

\* The attempt is counted before the password is looked at.
AttemptPasses ==
    /\ Attempting
    /\ ~Exhausted
    /\ passed' = Append(passed, now)
    /\ attempts' = Recent \union {Len(passed')}

\* An attempt that is refused does not count.
AttemptRefused ==
    /\ Attempting
    /\ Exhausted
    /\ attempts' = Recent
    /\ UNCHANGED passed

Restart ==
    /\ passed # <<>>
    /\ passed' = <<>>
    /\ attempts' = {}
    /\ UNCHANGED <<now, tries>>

RateNext == TimePasses \/ AttemptPasses \/ AttemptRefused \/ Restart

RateSpec == RateInit /\ [][RateNext]_rateVars

-----------------------------------------------------------------------------
(* Properties.                                                             *)

RateTypeOK ==
    /\ now \in Nat
    /\ passed \in Seq(Nat)
    /\ attempts \subseteq DOMAIN passed
    /\ tries \in Nat

\* Whatever is forgotten when an attempt is looked at, within any span as long as the
\* window no more attempts pass than the limit allows, as long as the process lives
\* (auth.py 29-36).
RateIsLimited ==
    \A k \in DOMAIN passed :
        Cardinality({l \in DOMAIN passed : l >= k /\ passed[l] < passed[k] + Window}) <= Limit
=============================================================================
