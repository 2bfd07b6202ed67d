------------------------------- MODULE Counts -------------------------------
(***************************************************************************)
(* The unread counts of an IMAP inbox and its account: stored in the       *)
(* folder's and the account's row by the synchronization                   *)
(* (_refresh_account_counts of tasks/sync_tasks.py) and by every request   *)
(* that changes a mail (_refresh_counts of api/emails.py), from what the   *)
(* server says or, if it does not answer, from the rows.  Outlook's differ *)
(* only in that no folder is marked read as a whole.                       *)
(*                                                                         *)
(* Each is a transaction whose UPDATEs have the values that differ from    *)
(* what its session has loaded, and take the locks of their rows until it  *)
(* ends: a synchronization the folder, then mails, then the account; a     *)
(* request its mail, then the account, then the folder.  Two that wait for *)
(* each other are parted by PostgreSQL, which aborts one.                  *)
(*                                                                         *)
(* The requests are mark_read; totals are counted like what is unread.     *)
(***************************************************************************)
EXTENDS Integers, Sequences, FiniteSets

CONSTANTS
    Letters,       \* the mails of the inbox
    Recent,        \* those whose flags the synchronization fetches
    Requests,      \* requests served at one time
    MaxChanges,    \* bound on requests and on what other clients do
    MaxLosses      \* bound on calls that fail and transactions that die

ASSUME CountsAssumptions ==
    /\ IsFiniteSet(Letters)
    /\ Recent \subseteq Letters
    /\ MaxChanges \in Nat
    /\ MaxLosses \in Nat

VARIABLES
    unseen,     \* the mails that are unread at the server
    unread,     \* the mails whose rows are unread
    folder,     \* unread_count of the folder
    account,    \* unread_count of the account
    sync,       \* the synchronization
    request,    \* the transaction of each request
    changes,    \* requests and changes of other clients so far
    losses      \* failures so far

stored == <<unread, folder, account>>
countsVars == <<unseen, stored, sync, request, changes, losses>>

\* A transaction has the mails' rows it has written and which of them are unread now,
\* and whether it holds the folder's lock (a synchronization) or the account's (a request).
NoSync == [step |-> "none", locked |-> {}, holds |-> FALSE]
NoRequest == [step |-> "none", locked |-> {}, holds |-> FALSE]

CountsInit ==
    /\ unseen = Letters
    /\ unread = Letters
    /\ folder = Cardinality(Letters)
    /\ account = Cardinality(Letters)
    /\ sync = NoSync
    /\ request = [r \in Requests |-> NoRequest]
    /\ changes = 0
    /\ losses = 0

Changing == changes < MaxChanges /\ changes' = changes + 1 /\ UNCHANGED losses
Losing == losses < MaxLosses /\ losses' = losses + 1 /\ UNCHANGED changes

\* A mail's row, read or not, as a transaction that has written some of them sees it.
Seen(s) == (unread \ s.locked) \union s.mine

ClientMarks(m, read) ==
    /\ Changing
    /\ unseen' = IF read THEN unseen \ {m} ELSE unseen \union {m}
    /\ unseen' # unseen
    /\ UNCHANGED <<stored, sync, request>>

-----------------------------------------------------------------------------
(* A synchronization: the folder's count from the listing, the mails'      *)
(* flags, the counts of the rows, the server's counts, the commit.         *)

\* What the listing of the folders tells of the inbox: a STATUS that fails counts as no
\* unread mail.
Told(n) ==
    \/ n = Cardinality(unseen) /\ UNCHANGED <<changes, losses>>
    \/ n = 0 /\ Losing

\* The session now has n for the folder, and writes it if it had something else.
Counted(s, n) == [s EXCEPT !.folder = n, !.holds = @ \/ n # s.folder]

SyncBegins ==
    /\ sync = NoSync
    /\ \E n \in 0..Cardinality(Letters) :
         /\ Told(n)
         /\ sync' = Counted([step |-> "fetch", fetched |-> {}, flags |-> {}, locked |-> {}, mine |-> {},
                             holds |-> FALSE, folder |-> folder, account |-> account], n)
    /\ UNCHANGED <<unseen, stored, request>>

\* The recent mails; a batch that cannot be fetched is skipped.
SyncFetches ==
    /\ sync.step = "fetch"
    /\ \/ /\ sync' = [sync EXCEPT !.step = "merge", !.fetched = Recent, !.flags = unseen \intersect Recent]
          /\ UNCHANGED <<changes, losses>>
       \/ sync' = [sync EXCEPT !.step = "merge"] /\ Losing
    /\ UNCHANGED <<unseen, stored, request>>

\* A folder without unread mail, as the listing has told, is marked read as a whole.
Cleared == sync.folder = 0

\* The rows that differ from what has been fetched, or are to be marked read.
Differing ==
    {m \in sync.fetched : m \in unread <=> m \notin sync.flags} \union (IF Cleared THEN unread ELSE {})

SyncMerges ==
    /\ sync.step = "merge"
    /\ \A r \in Requests : request[r].locked \intersect Differing = {}
    /\ sync' = [sync EXCEPT !.step = "count", !.locked = Differing,
                            !.mine = IF Cleared THEN {} ELSE sync.flags \intersect Differing]
    /\ UNCHANGED <<unseen, stored, request, changes, losses>>

\* A faulty variant: the rows' count stays.
Remote_Local(local, told) == local

\* _refresh_imap_remote_counts, _refresh_outlook_remote_counts: what the server tells takes
\* the place of the rows' count.
Remote(local, told) == told

\* _refresh_account_counts.
SyncCounts ==
    LET local == Cardinality(Seen(sync)) IN
    /\ sync.step = "count"
    /\ \/ \E n \in 0..Cardinality(Letters) :
            Told(n) /\ sync' = [Counted(Counted(sync, local), Remote(local, n)) EXCEPT !.step = "commit"]
       \/ sync' = [Counted(sync, local) EXCEPT !.step = "commit"] /\ Losing
    /\ UNCHANGED <<unseen, stored, request>>

\* The account's row is written in any case (last_sync_at), its count if it differs.
SyncCommits ==
    /\ sync.step = "commit"
    /\ \A r \in Requests : ~request[r].holds
    /\ unread' = Seen(sync)
    /\ folder' = IF sync.holds THEN sync.folder ELSE folder
    /\ account' = IF sync.folder # sync.account THEN sync.folder ELSE account
    /\ sync' = NoSync
    /\ UNCHANGED <<unseen, request, changes, losses>>

-----------------------------------------------------------------------------
(* A request: it loads its mail, the folder and the account, tells the     *)
(* server, asks it for the counts, and writes.                             *)

RequestLoads(r, m, read) ==
    /\ request[r] = NoRequest
    /\ Changing
    /\ request' = [request EXCEPT ![r] =
                     [step |-> "push", mail |-> m, read |-> read, was |-> m \notin unread, locked |-> {},
                      mine |-> {}, holds |-> FALSE, folder |-> folder, account |-> account, count |-> 0]]
    /\ UNCHANGED <<unseen, stored, sync>>

\* A push that fails is the end of the request.
RequestPushes(r) ==
    LET q == request[r] IN
    /\ q.step = "push"
    /\ \/ /\ unseen' = IF q.read THEN unseen \ {q.mail} ELSE unseen \union {q.mail}
          /\ request' = [request EXCEPT ![r].step = "ask"]
          /\ UNCHANGED <<changes, losses>>
       \/ request' = [request EXCEPT ![r] = NoRequest] /\ Losing /\ UNCHANGED unseen
    /\ UNCHANGED <<stored, sync>>

\* _refresh_provider_counts: the server answers before the next query writes the mail's
\* row; if it does not, _refresh_local_counts counts the rows after that.
RequestAsks(r) ==
    /\ request[r].step = "ask"
    /\ \/ \E n \in 0..Cardinality(Letters) :
            Told(n) /\ request' = [request EXCEPT ![r].step = "flush", ![r].count = n]
       \/ request' = [request EXCEPT ![r].step = "local"] /\ Losing
    /\ UNCHANGED <<unseen, stored, sync>>

\* The mail's row is written unless it was loaded as it is to be.
RequestFlushes(r) ==
    LET q == request[r]
        m == IF q.was = q.read THEN {} ELSE {q.mail}
        s == [q EXCEPT !.locked = m, !.mine = IF q.read THEN {} ELSE m]
    IN
    /\ q.step \in {"flush", "local"}
    /\ m \intersect sync.locked = {}
    /\ \A p \in Requests : m \intersect request[p].locked = {}
    /\ request' = [request EXCEPT ![r] =
                     [s EXCEPT !.step = "account",
                               !.count = IF q.step = "local" THEN Cardinality(Seen(s)) ELSE @]]
    /\ UNCHANGED <<unseen, stored, sync, changes, losses>>

\* The commit writes the account's row and keeps its lock until it has the folder's.
RequestWritesAccount(r) ==
    LET differs == request[r].count # request[r].account IN
    /\ request[r].step = "account"
    /\ differs => \A p \in Requests : ~request[p].holds
    /\ request' = [request EXCEPT ![r].step = "commit", ![r].holds = differs]
    /\ UNCHANGED <<unseen, stored, sync, changes, losses>>

RequestCommits(r) ==
    LET q == request[r] IN
    /\ q.step = "commit"
    /\ q.count # q.folder => ~sync.holds
    /\ unread' = Seen(q)
    /\ account' = IF q.holds THEN q.count ELSE account
    /\ folder' = IF q.count # q.folder THEN q.count ELSE folder
    /\ request' = [request EXCEPT ![r] = NoRequest]
    /\ UNCHANGED <<unseen, sync, changes, losses>>

-----------------------------------------------------------------------------
(* Failures.                                                               *)

SyncEnds ==
    /\ sync # NoSync
    /\ sync' = NoSync
    /\ UNCHANGED <<unseen, stored, request>>

RequestEnds(r) ==
    /\ request[r] # NoRequest
    /\ request' = [request EXCEPT ![r] = NoRequest]
    /\ UNCHANGED <<unseen, stored, sync>>

Dies == Losing /\ (SyncEnds \/ \E r \in Requests : RequestEnds(r))

\* The synchronization waits for the request, and it, by itself or through another that
\* has the account's lock, for the synchronization.
SyncWaitsFor(r) ==
    \/ sync.step = "merge" /\ request[r].locked \intersect Differing # {}
    \/ sync.step = "commit" /\ request[r].holds

WaitsForFolder(r) == sync.holds /\ request[r].step = "commit" /\ request[r].count # request[r].folder

WaitsForAccount(r, p) ==
    request[p].holds /\ request[r].step = "account" /\ request[r].count # request[r].account

InCycle(r) ==
    /\ SyncWaitsFor(r)
    /\ WaitsForFolder(r) \/ \E p \in Requests : WaitsForAccount(r, p) /\ WaitsForFolder(p)

DeadlockEnds ==
    /\ \E r \in Requests : InCycle(r) /\ (SyncEnds \/ RequestEnds(r))
    /\ UNCHANGED <<changes, losses>>

-----------------------------------------------------------------------------
SyncStep == SyncBegins \/ SyncFetches \/ SyncMerges \/ SyncCounts \/ SyncCommits

RequestStep(r) ==
    \/ RequestPushes(r)
    \/ RequestAsks(r)
    \/ RequestFlushes(r)
    \/ RequestWritesAccount(r)
    \/ RequestCommits(r)

CountsNext ==
    \/ \E m \in Letters : \E read \in BOOLEAN :
         ClientMarks(m, read) \/ \E r \in Requests : RequestLoads(r, m, read)
    \/ SyncStep
    \/ \E r \in Requests : RequestStep(r)
    \/ Dies
    \/ DeadlockEnds

\* The account is synchronized again and again (SyncDispatch), PostgreSQL ends deadlocks
\* and gives a lock to those that wait for it in turn, so that a request comes to its end.
CountsFairness ==
    /\ WF_countsVars(SyncStep)
    /\ \A r \in Requests : SF_countsVars(RequestStep(r))
    /\ WF_countsVars(DeadlockEnds)

CountsSpec == CountsInit /\ [][CountsNext]_countsVars /\ CountsFairness

-----------------------------------------------------------------------------
(* Properties.                                                             *)

\* When nothing more is changed, the counts of the folder and the account are those of the
\* server in the end and stay so: whatever requests and synchronizations have overwritten
\* of each other's counts from values loaded before, whichever transaction a deadlock has
\* ended, whatever zero a failing STATUS has told, and although rows of older mails, whose
\* flags are not fetched, stay unread.
CountsComeTrue ==
    <>[](folder = Cardinality(unseen) /\ account = Cardinality(unseen))
=============================================================================
