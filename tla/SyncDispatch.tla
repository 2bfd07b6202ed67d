---------------------------- MODULE SyncDispatch ----------------------------
(***************************************************************************)
(* Who calls sync_account_now.  In one server process the requests put     *)
(* accounts into the queue of tasks/inprocess_sync_queue.py, whose single  *)
(* daemon thread synchronizes them one after the other, and the background *)
(* scheduler's thread runs run_periodic_jobs_once, which synchronizes all  *)
(* accounts under an advisory lock of its own.  Other callers - requests   *)
(* that synchronize at once, other processes - run beside them.  The queue *)
(* is memory of the process and is lost with it.                           *)
(***************************************************************************)
EXTENDS AccountSync, Sequences

CONSTANTS
    Worker,        \* the queue's thread
    Periodics,     \* threads that run the periodic jobs, of any process
    Others,        \* other callers of sync_account_now
    Local,         \* the callers that live in the process of the queue
    MaxMishaps     \* bound on crashes of that process and aborted periodic runs

ASSUME DispatchAssumptions ==
    /\ Callers = {Worker} \union Periodics \union Others
    /\ Worker \notin Periodics \union Others
    /\ Periodics \intersect Others = {}
    /\ Worker \in Local
    /\ Local \subseteq Callers
    /\ MaxMishaps \in Nat

VARIABLES
    queue,       \* _queue
    pending,     \* _pending
    started,     \* _worker_started
    putting,     \* the account between enqueue_account_sync's lock and its put
    current,     \* the account the worker has taken from the queue
    called,      \* whether the worker has entered sync_account_now for it
    jobLock,     \* who holds the advisory lock of the periodic jobs
    sending,     \* the periodic runs that are sending the scheduled mail
    remaining,   \* the accounts a periodic run has yet to synchronize
    mishaps      \* crashes and aborted periodic runs so far

queueVars == <<queue, pending, started, putting, current, called>>
jobVars == <<jobLock, sending, remaining>>
vars == <<syncVars, queueVars, jobVars, mishaps>>

Init ==
    /\ SyncInit
    /\ queue = <<>>
    /\ pending = {}
    /\ started = FALSE
    /\ putting = None
    /\ current = None
    /\ called = FALSE
    /\ jobLock = None
    /\ sending = {}
    /\ remaining = [p \in Periodics |-> {}]
    /\ mishaps = 0

-----------------------------------------------------------------------------
(* The queue.  Its callers run on the event loop, one at a time.           *)

\* A faulty variant: nobody asks whether the account is pending.
EnqueueAdd_Unchecked(a) ==
    /\ putting = None
    /\ Len(queue) < 3
    /\ started' = TRUE
    /\ pending' = pending \union {a}
    /\ putting' = a
    /\ UNCHANGED <<syncVars, queue, current, called, jobVars, mishaps>>

\* enqueue_account_sync up to the end of its lock: the account is not pending.
EnqueueAdd(a) ==
    /\ putting = None
    /\ a \notin pending
    /\ started' = TRUE
    /\ pending' = pending \union {a}
    /\ putting' = a
    /\ UNCHANGED <<syncVars, queue, current, called, jobVars, mishaps>>

\* "already-queued": the account is in the queue, or being synchronized.
AlreadyQueued(a) ==
    /\ putting = None
    /\ a \in pending
    /\ started' = TRUE
    /\ UNCHANGED <<syncVars, queue, pending, putting, current, called, jobVars, mishaps>>

EnqueuePut ==
    /\ putting # None
    /\ queue' = Append(queue, putting)
    /\ putting' = None
    /\ UNCHANGED <<syncVars, pending, started, current, called, jobVars, mishaps>>

WorkerGet ==
    /\ started
    /\ current = None
    /\ queue # <<>>
    /\ current' = Head(queue)
    /\ queue' = Tail(queue)
    /\ called' = FALSE
    /\ UNCHANGED <<syncVars, pending, started, putting, jobVars, mishaps>>

WorkerCalls ==
    /\ current # None
    /\ ~called
    /\ called' = TRUE
    /\ IF active[current] THEN LoadAccount(Worker, current) ELSE UNCHANGED syncVars
    /\ UNCHANGED <<queue, pending, started, putting, current, jobVars, mishaps>>

\* A faulty variant: a failed synchronization leaves the account pending.
WorkerDone_KeepsFailed ==
    /\ current # None
    /\ called
    /\ pc[Worker] = "idle"
    /\ pending' = IF status[current] = "error" THEN pending ELSE pending \ {current}
    /\ current' = None
    /\ called' = FALSE
    /\ UNCHANGED <<syncVars, queue, started, putting, jobVars, mishaps>>

\* The finally of the worker's loop: only now can the account be queued again.
WorkerDone ==
    /\ current # None
    /\ called
    /\ pc[Worker] = "idle"
    /\ pending' = pending \ {current}
    /\ current' = None
    /\ called' = FALSE
    /\ UNCHANGED <<syncVars, queue, started, putting, jobVars, mishaps>>

-----------------------------------------------------------------------------
(* The periodic jobs.                                                      *)

\* A faulty variant: accounts with an error are left out.
Selected_Healthy == {a \in Accounts : active[a] /\ status[a] = "active"}

\* The accounts sync_all_accounts_now selects: those with an error as well.
Selected == {a \in Accounts : active[a]}

\* A faulty variant: the lock's answer is not looked at.
PeriodicStart_Unlocked(p) ==
    /\ jobLock # p
    /\ jobLock' = p
    /\ sending' = sending \union {p}
    /\ UNCHANGED <<syncVars, queueVars, remaining, mishaps>>

\* run_periodic_jobs_once: without the lock the run is skipped, with it the scheduled
\* mail goes first (ScheduledSend).
PeriodicStart(p) ==
    /\ jobLock = None
    /\ jobLock' = p
    /\ sending' = sending \union {p}
    /\ UNCHANGED <<syncVars, queueVars, remaining, mishaps>>

PeriodicSelect(p) ==
    /\ p \in sending
    /\ sending' = sending \ {p}
    /\ remaining' = [remaining EXCEPT ![p] = Selected]
    /\ UNCHANGED <<syncVars, queueVars, jobLock, mishaps>>

\* An exception of send_scheduled_emails_now ends the run before any account.
PeriodicAborts(p) ==
    /\ p \in sending
    /\ mishaps < MaxMishaps
    /\ mishaps' = mishaps + 1
    /\ sending' = sending \ {p}
    /\ jobLock' = None
    /\ UNCHANGED <<syncVars, queueVars, remaining>>

PeriodicCalls(p) ==
    /\ pc[p] = "idle"
    /\ \E a \in remaining[p] :
         /\ remaining' = [remaining EXCEPT ![p] = @ \ {a}]
         /\ IF active[a] THEN LoadAccount(p, a) ELSE UNCHANGED syncVars
    /\ UNCHANGED <<queueVars, jobLock, sending, mishaps>>

\* The transaction that holds the jobs' lock ends with the run.
PeriodicEnd(p) ==
    /\ jobLock = p
    /\ pc[p] = "idle"
    /\ p \notin sending
    /\ remaining[p] = {}
    /\ jobLock' = None
    /\ UNCHANGED <<syncVars, queueVars, sending, remaining, mishaps>>

-----------------------------------------------------------------------------
\* The process of the queue dies and starts again, with an empty queue.
Crash ==
    /\ mishaps < MaxMishaps
    /\ mishaps' = mishaps + 1
    /\ Die(Local)
    /\ queue' = <<>>
    /\ pending' = {}
    /\ started' = FALSE
    /\ putting' = None
    /\ current' = None
    /\ called' = FALSE
    /\ jobLock' = IF jobLock \in Local THEN None ELSE jobLock
    /\ sending' = sending \ Local
    /\ remaining' = [p \in Periodics |-> IF p \in Local THEN {} ELSE remaining[p]]

Running(c) == Proceed(c) /\ UNCHANGED <<queueVars, jobVars, mishaps>>

PeriodicRuns(p) == PeriodicSelect(p) \/ PeriodicCalls(p) \/ PeriodicEnd(p)

Requests == \E a \in Accounts : EnqueueAdd(a) \/ AlreadyQueued(a)

DirectCall ==
    /\ \E c \in Others, a \in Accounts : LoadAccount(c, a)
    /\ UNCHANGED <<queueVars, jobVars, mishaps>>

Next ==
    \/ World /\ UNCHANGED <<queueVars, jobVars, mishaps>>
    \/ Requests
    \/ EnqueuePut
    \/ WorkerGet
    \/ WorkerCalls
    \/ WorkerDone
    \/ \E p \in Periodics : PeriodicStart(p) \/ PeriodicAborts(p) \/ PeriodicRuns(p)
    \/ DirectCall
    \/ \E c \in Callers : Running(c)
    \/ Crash

Spec == Init /\ [][Next]_vars

\* Threads that run go on running, and the periodic jobs come round for ever.
\* Nothing is asked of users, requests, failures and mishaps.
Fairness ==
    /\ WF_vars(EnqueuePut)
    /\ WF_vars(WorkerGet) /\ WF_vars(WorkerCalls) /\ WF_vars(WorkerDone)
    /\ \A p \in Periodics :
         WF_vars(PeriodicStart(p)) /\ WF_vars(PeriodicRuns(p))
    /\ \A c \in Callers : WF_vars(Running(c))

FairSpec == Spec /\ Fairness

-----------------------------------------------------------------------------
(* Properties.                                                             *)

TypeOK ==
    /\ SyncTypeOK
    /\ queue \in Seq(Accounts)
    /\ pending \in SUBSET Accounts
    /\ started \in BOOLEAN
    /\ putting \in Accounts \union {None}
    /\ current \in Accounts \union {None}
    /\ called \in BOOLEAN
    /\ jobLock \in Periodics \union {None}
    /\ sending \in SUBSET Periodics
    /\ remaining \in [Periodics -> SUBSET Accounts]
    /\ mishaps \in Nat

\* _pending is exactly what is queued, about to be queued or being synchronized by
\* the worker, and each account is there once: no request is answered
\* "already-queued" (inprocess_sync_queue.py 45-46) for an account nobody will
\* get to, and the queue cannot grow beyond the number of accounts.
PendingIsPromised ==
    /\ pending = {queue[i] : i \in 1..Len(queue)} \union ({putting, current} \ {None})
    /\ \A i \in 1..Len(queue) : queue[i] \notin {putting, current}
    /\ \A i, j \in 1..Len(queue) : queue[i] = queue[j] => i = j
    /\ putting # None => putting # current

\* Periodic runs of all processes exclude each other (sync_tasks.py 950-957): only
\* the holder of the jobs' lock has accounts left or is synchronizing one.
OnePeriodicRun ==
    \A p \in Periodics :
        p \in sending \/ remaining[p] # {} \/ pc[p] # "idle" => jobLock = p

\* Every account a request found or made pending leaves the set again: the worker
\* gets to it whatever fails on the way, unless the process dies.
PendingIsServed == \A a \in Accounts : a \in pending ~> a \notin pending

\* New mail of an active account reaches the mirror in the end, although syncs fail,
\* are skipped for a sync in progress, or are forgotten in a crash.
MailIsMirrored ==
    \A a \in Accounts : stored[a] < remote[a] ~> (stored[a] = remote[a] \/ ~active[a])

\* An error mark heals: an active account does not keep the status "error" once its
\* synchronizations succeed, even one written by a straggler after a success.
ErrorsHeal == \A a \in Accounts : status[a] = "error" ~> (status[a] = "active" \/ ~active[a])
=============================================================================
