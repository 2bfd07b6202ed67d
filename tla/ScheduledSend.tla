--------------------------- MODULE ScheduledSend ---------------------------
(***************************************************************************)
(* Scheduled mail.  A user's "send later" leaves a draft row in the        *)
(* messages table (api/emails.py, send_email); any number of workers -     *)
(* celery processes, or the thread of the background scheduler - run       *)
(* send_scheduled_emails_now of tasks/sync_tasks.py against that table,    *)
(* while the users' requests and the duplicate remover change the same     *)
(* rows.  A worker works in two transactions: one claims a batch (the rows *)
(* are locked with SKIP LOCKED and their scheduled_send_at is emptied),    *)
(* the other records what became of every message of the batch.  Between   *)
(* them the mail is handed to the provider, which no rollback undoes.      *)
(***************************************************************************)
EXTENDS Integers, FiniteSets

CONSTANTS
    Workers,      \* the processes and threads that send scheduled mail
    Nobody,       \* the owner of an unlocked row
    MsgCount,     \* how many messages the users schedule (bound)
    Text,         \* Text[m]: what the duplicate remover's fingerprint sees of m
    BatchLimit,   \* the limit(50) of the claiming query
    MaxFailures,  \* bound on failing provider calls
    MaxLosses     \* no worker crashes after this many losses (bound)

ASSUME Assumptions ==
    /\ MsgCount \in Nat
    /\ BatchLimit \in Nat \ {0}
    /\ MaxFailures \in Nat
    /\ MaxLosses \in Nat
    /\ Nobody \notin Workers

VARIABLES
    row,       \* the messages table
    born,      \* how many messages have been scheduled so far
    lock,      \* the worker whose open transaction has locked the row
    pc,        \* where each worker is
    todo,      \* claimed messages of the batch the loop has not reached
    cur,       \* the message being handed to the provider
    outcome,   \* what the worker's session will write about a message
    loaded,    \* messages the worker's session has loaded as drafts
    doomed,    \* rows the duplicate remover has decided to delete
    handed,    \* how often the provider accepted the message (history)
    unsure,    \* how often it accepted one and the call failed all the same
    failures,  \* failing provider calls so far
    losses     \* crashes and aborted recording transactions so far

dbVars == <<row, born, lock, doomed>>
workerVars == <<pc, todo, cur, outcome, loaded>>
providerVars == <<handed, unsure, failures>>
vars == <<dbVars, workerVars, providerVars, losses>>

Msgs == 1..MsgCount
NoMsg == 0
Folders == {"none", "inbox", "drafts", "trash"}

Row == [live: BOOLEAN, is_draft: BOOLEAN, is_deleted: BOOLEAN,
        scheduled_send_at: {"null", "later", "due"},
        sent_at: BOOLEAN, folder: Folders]

NoRow == [live |-> FALSE, is_draft |-> FALSE, is_deleted |-> FALSE,
          scheduled_send_at |-> "null", sent_at |-> FALSE, folder |-> "none"]

Nothing == [m \in Msgs |-> "none"]

Init ==
    /\ row = [m \in Msgs |-> NoRow]
    /\ born = 0
    /\ lock = [m \in Msgs |-> Nobody]
    /\ pc = [w \in Workers |-> "idle"]
    /\ todo = [w \in Workers |-> {}]
    /\ cur = [w \in Workers |-> NoMsg]
    /\ outcome = [w \in Workers |-> Nothing]
    /\ loaded = [w \in Workers |-> {}]
    /\ doomed = {}
    /\ handed = [m \in Msgs |-> 0]
    /\ unsure = [m \in Msgs |-> 0]
    /\ failures = 0
    /\ losses = 0

-----------------------------------------------------------------------------
(* The users' requests and the clock.                                      *)

\* send_email with a future scheduled_send_at: a draft row without a folder.
Schedule ==
    /\ born < MsgCount
    /\ born' = born + 1
    /\ row' = [row EXCEPT ![born + 1] =
                 [live |-> TRUE, is_draft |-> TRUE, is_deleted |-> FALSE,
                  scheduled_send_at |-> "later", sent_at |-> FALSE, folder |-> "none"]]
    /\ UNCHANGED <<lock, doomed, workerVars, providerVars, losses>>

TimeReaches(m) ==
    /\ row[m].live
    /\ row[m].scheduled_send_at = "later"
    /\ row' = [row EXCEPT ![m].scheduled_send_at = "due"]
    /\ UNCHANGED <<born, lock, doomed, workerVars, providerVars, losses>>

\* A request that updates a row waits for the transaction that locked it.
Writable(m) == row[m].live /\ lock[m] = Nobody

\* delete_email: the row goes to the trash and keeps its scheduled_send_at.
DeleteEmail(m) ==
    /\ Writable(m)
    /\ row' = [row EXCEPT ![m].is_deleted = TRUE, ![m].folder = "trash"]
    /\ UNCHANGED <<born, lock, doomed, workerVars, providerVars, losses>>

\* move_email: is_deleted and is_draft follow the type of the target folder.
MoveEmail(m, f) ==
    /\ Writable(m)
    /\ row' = [row EXCEPT ![m].folder = f,
                          ![m].is_deleted = (f = "trash"),
                          ![m].is_draft = (f = "drafts")]
    /\ UNCHANGED <<born, lock, doomed, workerVars, providerVars, losses>>

\* Two unsent messages of the same fingerprint: account, folder scope, subject,
\* sender and recipients.  The body is not part of it.
Alike(a, b) ==
    /\ row[a].live /\ row[b].live
    /\ ~row[a].sent_at /\ ~row[b].sent_at
    /\ Text[a] = Text[b]
    /\ row[a].folder = row[b].folder

\* run_message_dedupe reads the table and keeps the first row of each key ...
DedupeScan ==
    /\ doomed = {}
    /\ doomed' = {m \in Msgs : \E first \in Msgs : first < m /\ Alike(first, m)}
    /\ UNCHANGED <<row, born, lock, workerVars, providerVars, losses>>

\* ... and deletes the others by id, whatever has become of them since.
DedupeDelete ==
    /\ doomed # {}
    /\ \A m \in doomed : lock[m] = Nobody
    /\ row' = [m \in Msgs |-> IF m \in doomed THEN NoRow ELSE row[m]]
    /\ doomed' = {}
    /\ UNCHANGED <<born, lock, workerVars, providerVars, losses>>

-----------------------------------------------------------------------------
(* The worker: send_scheduled_emails_now.                                  *)

\* A faulty variant: the query does not skip locked rows.
Claimable_NoSkip ==
    {m \in Msgs : row[m].live /\ row[m].is_draft /\ row[m].scheduled_send_at = "due"}

\* The rows the claiming query can return: the predicate reads neither
\* is_deleted nor the account.
Claimable ==
    {m \in Msgs : /\ row[m].live
                  /\ row[m].is_draft
                  /\ row[m].scheduled_send_at = "due"
                  /\ lock[m] = Nobody}

\* SELECT ... FOR UPDATE SKIP LOCKED LIMIT 50.
SelectForUpdate(w) ==
    /\ pc[w] = "idle"
    /\ \E batch \in SUBSET Claimable :
         /\ batch # {}
         /\ \/ Cardinality(batch) = BatchLimit
            \/ Cardinality(batch) < BatchLimit /\ batch = Claimable
         /\ todo' = [todo EXCEPT ![w] = batch]
         /\ lock' = [m \in Msgs |-> IF m \in batch THEN w ELSE lock[m]]
    /\ pc' = [pc EXCEPT ![w] = "locked"]
    /\ UNCHANGED <<row, born, doomed, cur, outcome, loaded, providerVars, losses>>

\* A faulty variant: the claim is committed without emptying scheduled_send_at.
CommitClaim_KeepsSchedule(w) ==
    /\ pc[w] = "locked"
    /\ lock' = [m \in Msgs |-> IF m \in todo[w] THEN Nobody ELSE lock[m]]
    /\ pc' = [pc EXCEPT ![w] = "sending"]
    /\ UNCHANGED <<row, born, doomed, todo, cur, outcome, loaded, providerVars, losses>>

\* scheduled_send_at = None for the batch, committed: the locks are gone.
CommitClaim(w) ==
    /\ pc[w] = "locked"
    /\ row' = [m \in Msgs |-> IF m \in todo[w]
                              THEN [row[m] EXCEPT !.scheduled_send_at = "null"]
                              ELSE row[m]]
    /\ lock' = [m \in Msgs |-> IF m \in todo[w] THEN Nobody ELSE lock[m]]
    /\ pc' = [pc EXCEPT ![w] = "sending"]
    /\ UNCHANGED <<born, doomed, todo, cur, outcome, loaded, providerVars, losses>>

\* The messages the session holds new values for.
Dirty(w) == {m \in Msgs : outcome[w][m] # "none"}

\* The state a run of the function leaves behind when it ends, however it ends.
Idle(w) ==
    /\ pc' = [pc EXCEPT ![w] = "idle"]
    /\ todo' = [todo EXCEPT ![w] = {}]
    /\ cur' = [cur EXCEPT ![w] = NoMsg]
    /\ outcome' = [outcome EXCEPT ![w] = Nothing]
    /\ loaded' = [loaded EXCEPT ![w] = {}]
    /\ lock' = [m \in Msgs |-> IF lock[m] = w THEN Nobody ELSE lock[m]]

\* The commit expired every row: the loop's first read of m reloads it, and
\* that query first flushes the new values of the messages before it.
LoadNext(w, m) ==
    /\ pc[w] = "sending"
    /\ cur[w] = NoMsg
    /\ m \in todo[w]
    /\ row[m].live
    /\ \A d \in Dirty(w) : row[d].live /\ lock[d] \in {w, Nobody}
    /\ cur' = [cur EXCEPT ![w] = m]
    /\ todo' = [todo EXCEPT ![w] = @ \ {m}]
    /\ loaded' = [loaded EXCEPT ![w] = IF row[m].is_draft THEN @ \union {m} ELSE @]
    /\ lock' = [d \in Msgs |-> IF d \in Dirty(w) THEN w ELSE lock[d]]
    /\ UNCHANGED <<row, born, doomed, pc, outcome, providerVars, losses>>

\* The row to reload, or a row to flush, was deleted meanwhile: the exception
\* leaves the loop, and what the session knew of the batch is rolled back.
LoadFails(w) ==
    /\ pc[w] = "sending"
    /\ cur[w] = NoMsg
    /\ \E m \in todo[w] : ~row[m].live \/ \E d \in Dirty(w) : ~row[d].live
    /\ Idle(w)
    /\ losses' = losses + 1
    /\ UNCHANGED <<row, born, doomed, providerVars>>

SendOk(w) ==
    LET m == cur[w] IN
    /\ m # NoMsg
    /\ handed' = [handed EXCEPT ![m] = @ + 1]
    /\ outcome' = [outcome EXCEPT ![w][m] = "sent"]
    /\ cur' = [cur EXCEPT ![w] = NoMsg]
    /\ UNCHANGED <<dbVars, pc, todo, loaded, unsure, failures, losses>>

\* The call raised: the provider may have accepted the mail or not (a lost
\* answer).  The session will schedule the message again, in five minutes.
SendFails(w, accepted) ==
    LET m == cur[w] IN
    /\ m # NoMsg
    /\ failures < MaxFailures
    /\ failures' = failures + 1
    /\ handed' = [handed EXCEPT ![m] = IF accepted THEN @ + 1 ELSE @]
    /\ unsure' = [unsure EXCEPT ![m] = IF accepted THEN @ + 1 ELSE @]
    /\ outcome' = [outcome EXCEPT ![w][m] = "retry"]
    /\ cur' = [cur EXCEPT ![w] = NoMsg]
    /\ UNCHANGED <<dbVars, pc, todo, loaded, losses>>

\* Faulty variants: a failed message is not scheduled again; it is scheduled for "now"
\* instead of later.
Recorded_NoRetry(w, m) ==
    IF outcome[w][m] = "sent" THEN [row[m] EXCEPT !.sent_at = TRUE, !.is_draft = FALSE] ELSE row[m]

Recorded_RetryNow(w, m) ==
    IF outcome[w][m] = "sent"
    THEN [row[m] EXCEPT !.sent_at = TRUE, !.is_draft = FALSE]
    ELSE [row[m] EXCEPT !.scheduled_send_at = "now"]

\* The UPDATE of one row: the session writes the attributes that differ from
\* what it loaded.
Recorded(w, m) ==
    IF outcome[w][m] = "sent"
    THEN [row[m] EXCEPT !.sent_at = TRUE,
                        !.is_draft = IF m \in loaded[w] THEN FALSE ELSE @]
    ELSE [row[m] EXCEPT !.scheduled_send_at = "later"]

\* The final commit records the whole batch at once.
CommitOutcome(w) ==
    /\ pc[w] = "sending"
    /\ cur[w] = NoMsg
    /\ todo[w] = {}
    /\ \A d \in Dirty(w) : row[d].live /\ lock[d] \in {w, Nobody}
    /\ row' = [m \in Msgs |-> IF m \in Dirty(w) THEN Recorded(w, m) ELSE row[m]]
    /\ Idle(w)
    /\ UNCHANGED <<born, doomed, providerVars, losses>>

\* A row of the batch is gone: the UPDATE matches nothing and nothing is kept.
CommitFails(w) ==
    /\ pc[w] = "sending"
    /\ cur[w] = NoMsg
    /\ todo[w] = {}
    /\ \E d \in Dirty(w) : ~row[d].live
    /\ Idle(w)
    /\ losses' = losses + 1
    /\ UNCHANGED <<row, born, doomed, providerVars>>

\* The process dies.  A mail in flight may have been accepted already.
Crash(w, accepted) ==
    /\ pc[w] # "idle"
    /\ losses < MaxLosses
    /\ accepted => cur[w] # NoMsg
    /\ handed' = [m \in Msgs |-> IF accepted /\ m = cur[w] THEN handed[m] + 1 ELSE handed[m]]
    /\ Idle(w)
    /\ losses' = losses + 1
    /\ UNCHANGED <<row, born, doomed, unsure, failures>>

-----------------------------------------------------------------------------
Worker(w) ==
    \/ SelectForUpdate(w)
    \/ CommitClaim(w)
    \/ \E m \in Msgs : LoadNext(w, m)
    \/ LoadFails(w)
    \/ SendOk(w)
    \/ \E accepted \in BOOLEAN : SendFails(w, accepted)
    \/ CommitOutcome(w)
    \/ CommitFails(w)

Users ==
    \/ Schedule
    \/ \E m \in Msgs : DeleteEmail(m)
    \/ \E m \in Msgs, f \in Folders \ {"none"} : MoveEmail(m, f)

Next ==
    \/ Users
    \/ \E m \in Msgs : TimeReaches(m)
    \/ DedupeScan
    \/ DedupeDelete
    \/ \E w \in Workers : Worker(w)
    \/ \E w \in Workers, accepted \in BOOLEAN : Crash(w, accepted)

Spec == Init /\ [][Next]_vars

\* The clock runs, the beat schedule starts every worker again and again, and a
\* worker that does not crash runs on.  Users and the duplicate remover owe nothing.
Fairness ==
    /\ \A m \in Msgs : WF_vars(TimeReaches(m))
    /\ \A w \in Workers : WF_vars(Worker(w))

FairSpec == Spec /\ Fairness

-----------------------------------------------------------------------------
(* Properties.                                                             *)

TypeOK ==
    /\ row \in [Msgs -> Row]
    /\ born \in 0..MsgCount
    /\ lock \in [Msgs -> Workers \union {Nobody}]
    /\ pc \in [Workers -> {"idle", "locked", "sending"}]
    /\ todo \in [Workers -> SUBSET Msgs]
    /\ cur \in [Workers -> Msgs \union {NoMsg}]
    /\ outcome \in [Workers -> [Msgs -> {"none", "sent", "retry"}]]
    /\ loaded \in [Workers -> SUBSET Msgs]
    /\ doomed \in SUBSET Msgs
    /\ handed \in [Msgs -> Nat]
    /\ unsure \in [Msgs -> Nat]
    /\ failures \in Nat
    /\ losses \in Nat

\* The messages a worker's run is responsible for.
Batch(w) == {m \in Msgs : m \in todo[w] \/ m = cur[w] \/ outcome[w][m] # "none"}

\* Two workers never work on the same message at the same time: the claim of a
\* batch (sync_tasks.py 909-917) is exclusive, although its locks are released
\* before the mail is sent.
SingleClaim ==
    \A m \in Msgs, v, w \in Workers : m \in Batch(v) /\ m \in Batch(w) => v = w

\* Whatever crashes, failed commits, deletions and overlapping workers do, the
\* provider gets a scheduled message more than once only if, each extra time, it
\* had accepted the mail of a call that then raised (938-940).
HandedOnce == \A m \in Msgs : handed[m] <= 1 + unsure[m]

\* A row that says it was sent was accepted by the provider at least once, even
\* when batches are recorded by several workers and users move rows meanwhile.
SentWasHanded == \A m \in Msgs : row[m].sent_at => handed[m] > 0

\* A claimed message whose worker has ended without an outcome.
Stranded(m) ==
    /\ row[m].live
    /\ ~row[m].sent_at
    /\ row[m].scheduled_send_at = "null"
    /\ \A w \in Workers : m \notin Batch(w)

\* A scheduled message drops out of the schedule without being recorded as sent
\* only if a worker crashed or lost its recording transaction; no failure of the
\* provider and no request of a user strands a message.
StrandedOnlyByLoss == (\E m \in Msgs : Stranded(m)) => losses > 0

\* Without crashes and deletions of rows every scheduled message is handed to the
\* provider in the end, retries included, unless its user moves it out of the
\* drafts before.
EventuallyHanded ==
    \A m \in Msgs :
        (row[m].live /\ row[m].is_draft /\ row[m].scheduled_send_at # "null")
            ~> (handed[m] > 0 \/ ~row[m].is_draft \/ losses > 0)

-----------------------------------------------------------------------------
(* The promise this implements.                                            *)

\* The messages a run has taken, from the commit of its claim to the run's end.
Taken(w) == IF pc[w] = "sending" THEN Batch(w) ELSE {}

StageOf(m) ==
    IF m > born THEN "unplanned"
    ELSE IF \E w \in Workers : m \in Taken(w) THEN "taken"
    ELSE IF ~row[m].live THEN "dropped"
    ELSE IF row[m].scheduled_send_at # "null" THEN "planned"
    ELSE IF row[m].sent_at THEN "sent" ELSE "lost"

Delivery == INSTANCE MailDelivery
              WITH Runs <- Workers,
                   stage <- [m \in Msgs |-> StageOf(m)],
                   taken <- [w \in Workers |-> Taken(w)],
                   copies <- handed

\* The workers together keep the promise of MailDelivery: claims, flushes,
\* commits, failures and crashes of the code (902-947) appear as runs that take
\* messages nobody else has, hand them over, and release them.
DeliveryPromise == Delivery!Spec
=============================================================================
