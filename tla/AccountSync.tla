---------------------------- MODULE AccountSync ----------------------------
(***************************************************************************)
(* sync_account_now of tasks/sync_tasks.py: the synchronization of one     *)
(* account's mailbox into the local tables, run by any number of callers   *)
(* at once - the in-process queue's worker, the periodic jobs, celery      *)
(* workers, background tasks and requests.  A caller reads the account,    *)
(* tries a PostgreSQL advisory lock that lives as long as its transaction, *)
(* copies what the provider shows into the local mirror of the mailbox and *)
(* commits everything at once.  A failure rolls the transaction back, which*)
(* also frees the lock, and marks the account in a transaction of its own. *)
(*                                                                         *)
(* The mailbox is a version number that grows when mail arrives; the local *)
(* mirror is the version that was last committed.  The provider-specific   *)
(* halves (_sync_imap, _sync_gmail, _sync_outlook) are one read of the     *)
(* provider here.                                                          *)
(***************************************************************************)
EXTENDS Integers

CONSTANTS
    Accounts,
    Callers,       \* threads and processes that call sync_account_now
    None,          \* no caller, no account
    MaxRemote,     \* bound on the mail that arrives in a mailbox
    MaxFailures    \* bound on failing synchronizations

ASSUME SyncAssumptions ==
    /\ None \notin Callers
    /\ None \notin Accounts
    /\ MaxRemote \in Nat
    /\ MaxFailures \in Nat

VARIABLES
    active,    \* email_accounts.is_active
    status,    \* email_accounts.status
    remote,    \* the version of the mailbox at the provider
    stored,    \* the version of the local mirror
    holder,    \* who holds the advisory lock of the account
    pc,        \* where each caller is in sync_account_now
    target,    \* the account it synchronizes
    seen,      \* the status its session has loaded
    base,      \* the mirror it compared the mailbox with
    snap,      \* the mailbox it has read
    failures   \* failed synchronizations so far

accountVars == <<active, status, remote>>
callVars == <<pc, target, seen, base, snap>>
syncVars == <<accountVars, stored, holder, callVars, failures>>

Steps == {"idle", "loaded", "locked", "fetched", "rolled_back", "marking"}
\* AccountStatus.DISABLED exists, and nothing ever assigns it.
Statuses == {"active", "error"}

SyncInit ==
    /\ active = [a \in Accounts |-> TRUE]
    /\ status = [a \in Accounts |-> "active"]
    /\ remote = [a \in Accounts |-> 0]
    /\ stored = [a \in Accounts |-> 0]
    /\ holder = [a \in Accounts |-> None]
    /\ pc = [c \in Callers |-> "idle"]
    /\ target = [c \in Callers |-> None]
    /\ seen = [c \in Callers |-> "active"]
    /\ base = [c \in Callers |-> 0]
    /\ snap = [c \in Callers |-> 0]
    /\ failures = 0

-----------------------------------------------------------------------------
(* The world around it.                                                    *)

MailArrives(a) ==
    /\ remote[a] < MaxRemote
    /\ remote' = [remote EXCEPT ![a] = @ + 1]
    /\ UNCHANGED <<active, status, stored, holder, callVars, failures>>

\* remove_account keeps the row and the mirror.
RemoveAccount(a) ==
    /\ active' = [active EXCEPT ![a] = FALSE]
    /\ UNCHANGED <<status, remote, stored, holder, callVars, failures>>

ReactivateAccount(a) ==
    /\ active' = [active EXCEPT ![a] = TRUE]
    /\ status' = [status EXCEPT ![a] = "active"]
    /\ UNCHANGED <<remote, stored, holder, callVars, failures>>

-----------------------------------------------------------------------------
(* sync_account_now.                                                       *)

\* db.get: an inactive account is skipped, before any lock is tried.
LoadAccount(c, a) ==
    /\ pc[c] = "idle"
    /\ active[a]
    /\ pc' = [pc EXCEPT ![c] = "loaded"]
    /\ target' = [target EXCEPT ![c] = a]
    /\ seen' = [seen EXCEPT ![c] = status[a]]
    /\ UNCHANGED <<accountVars, stored, holder, base, snap, failures>>

\* The callers in S are done with their accounts: their sessions are gone.
Leave(S) ==
    /\ pc' = [c \in Callers |-> IF c \in S THEN "idle" ELSE pc[c]]
    /\ target' = [c \in Callers |-> IF c \in S THEN None ELSE target[c]]
    /\ seen' = [c \in Callers |-> IF c \in S THEN "active" ELSE seen[c]]
    /\ base' = [c \in Callers |-> IF c \in S THEN 0 ELSE base[c]]
    /\ snap' = [c \in Callers |-> IF c \in S THEN 0 ELSE snap[c]]

\* A faulty variant: the answer of the lock is not looked at.
TryLock_Ignored(c) ==
    /\ pc[c] = "loaded"
    /\ holder' = [holder EXCEPT ![target[c]] = c]
    /\ pc' = [pc EXCEPT ![c] = "locked"]
    /\ UNCHANGED <<accountVars, stored, target, seen, base, snap, failures>>

\* pg_try_advisory_xact_lock: it answers at once.  What was read of the account
\* before is not read again.
TryLock(c) ==
    /\ pc[c] = "loaded"
    /\ holder[target[c]] = None
    /\ holder' = [holder EXCEPT ![target[c]] = c]
    /\ pc' = [pc EXCEPT ![c] = "locked"]
    /\ UNCHANGED <<accountVars, stored, target, seen, base, snap, failures>>

SyncInProgress(c) ==
    /\ pc[c] = "loaded"
    /\ holder[target[c]] # None
    /\ Leave({c})
    /\ UNCHANGED <<accountVars, stored, holder, failures>>

\* The provider's half: the mailbox is read and compared with the mirror.
Fetch(c) ==
    /\ pc[c] = "locked"
    /\ base' = [base EXCEPT ![c] = stored[target[c]]]
    /\ snap' = [snap EXCEPT ![c] = remote[target[c]]]
    /\ pc' = [pc EXCEPT ![c] = "fetched"]
    /\ UNCHANGED <<accountVars, stored, holder, target, seen, failures>>

\* The one commit: the mirror, the counts and the account's status; the lock goes
\* with the transaction.  The session writes status only if it loaded another one.
Commit(c) ==
    LET a == target[c] IN
    /\ pc[c] = "fetched"
    /\ stored' = [stored EXCEPT ![a] = snap[c]]
    /\ status' = [status EXCEPT ![a] = IF seen[c] = "active" THEN @ ELSE "active"]
    /\ holder' = [holder EXCEPT ![a] = None]
    /\ Leave({c})
    /\ UNCHANGED <<active, remote, failures>>

\* Anything raises: db.rollback() frees the lock before the error is recorded.
Fail(c) ==
    /\ pc[c] \in {"locked", "fetched"}
    /\ failures < MaxFailures
    /\ failures' = failures + 1
    /\ holder' = [holder EXCEPT ![target[c]] = None]
    /\ pc' = [pc EXCEPT ![c] = "rolled_back"]
    /\ seen' = [seen EXCEPT ![c] = "active"]
    /\ base' = [base EXCEPT ![c] = 0]
    /\ snap' = [snap EXCEPT ![c] = 0]
    /\ UNCHANGED <<accountVars, stored, target>>

\* _mark_sync_error reads the account again, without the lock ...
LoadForMark(c) ==
    /\ pc[c] = "rolled_back"
    /\ seen' = [seen EXCEPT ![c] = status[target[c]]]
    /\ pc' = [pc EXCEPT ![c] = "marking"]
    /\ UNCHANGED <<accountVars, stored, holder, target, base, snap, failures>>

\* A faulty variant: the mark takes the account out of service.
MarkError_Disables(c) ==
    /\ pc[c] = "marking"
    /\ status' = [status EXCEPT ![target[c]] = "disabled"]
    /\ Leave({c})
    /\ UNCHANGED <<active, remote, stored, holder, failures>>

\* ... and commits the error.
MarkError(c) ==
    LET a == target[c] IN
    /\ pc[c] = "marking"
    /\ status' = [status EXCEPT ![a] = IF seen[c] = "error" THEN @ ELSE "error"]
    /\ Leave({c})
    /\ UNCHANGED <<active, remote, stored, holder, failures>>

\* A commit of the error that fails is rolled back and forgotten.
MarkFails(c) ==
    /\ pc[c] = "marking"
    /\ failures < MaxFailures
    /\ failures' = failures + 1
    /\ Leave({c})
    /\ UNCHANGED <<accountVars, stored, holder>>

\* The process of the callers in S dies: PostgreSQL rolls their transactions back.
Die(S) ==
    /\ Leave(S)
    /\ holder' = [a \in Accounts |-> IF holder[a] \in S THEN None ELSE holder[a]]
    /\ UNCHANGED <<accountVars, stored, failures>>

-----------------------------------------------------------------------------
\* What a caller does once it has loaded the account.
Proceed(c) ==
    \/ TryLock(c)
    \/ SyncInProgress(c)
    \/ Fetch(c)
    \/ Commit(c)
    \/ Fail(c)
    \/ LoadForMark(c)
    \/ MarkError(c)
    \/ MarkFails(c)

World ==
    \E a \in Accounts : MailArrives(a) \/ RemoveAccount(a) \/ ReactivateAccount(a)

SyncNext ==
    \/ World
    \/ \E c \in Callers : Proceed(c) \/ \E a \in Accounts : LoadAccount(c, a)
    \/ \E S \in SUBSET Callers : Die(S)

SyncSpec == SyncInit /\ [][SyncNext]_syncVars

-----------------------------------------------------------------------------
(* Properties.                                                             *)

SyncTypeOK ==
    /\ active \in [Accounts -> BOOLEAN]
    /\ status \in [Accounts -> Statuses]
    /\ remote \in [Accounts -> Nat]
    /\ stored \in [Accounts -> Nat]
    /\ holder \in [Accounts -> Callers \union {None}]
    /\ pc \in [Callers -> Steps]
    /\ target \in [Callers -> Accounts \union {None}]
    /\ seen \in [Callers -> Statuses]
    /\ base \in [Callers -> Nat]
    /\ snap \in [Callers -> Nat]
    /\ failures \in Nat

Syncing(c) == pc[c] \in {"locked", "fetched"}

\* The mirror a synchronization has compared the mailbox with (sync_tasks.py 283-288)
\* is the one its commit (294) replaces: no other synchronization of the account has
\* stored anything in between, so no message is inserted twice and none is lost.
MirrorUnchanged ==
    \A c \in Callers : pc[c] = "fetched" => base[c] = stored[target[c]]

\* The mirror never goes back to an older mailbox, however the synchronizations of
\* an account by different callers overlap, fail and die.
NeverOlder == [][\A a \in Accounts : stored'[a] >= stored[a]]_stored
=============================================================================
