# Email Agent backend: a verification project

TLA+ models of the Email Agent backend (`src/`: a FastAPI server, a relational
database, mail providers behind IMAP, SMTP, the Gmail and the Outlook API), the
TLC configurations that check them on small instances, and TLAPS proofs for
every value of the constants. `PROJECT.json` is the index: components, runs, the
lines every definition models, hazards, findings and theorems.

    tlc -config MCScheduledSend.cfg MCScheduledSend    check one run
    tlapm ScheduledSendProofs.tla                      check one module of proofs

Line numbers below are those of `src/app/tasks/sync_tasks.py` unless a file is named.

## 1. The system

### Components

| component | state it keeps | operations | talks to |
|---|---|---|---|
| Scheduled sending (`send_scheduled_emails_now`, 902-947) | `messages.scheduled_send_at`, `is_draft`, `sent_at`; in memory the batch of a run | claim a batch, send each message, record the batch | SMTP/Gmail/Outlook; the same rows as users and the duplicate remover |
| Account synchronization (`sync_account_now`, 267-317) | `email_accounts.status`, the mirror in `messages` and `folders`, a PostgreSQL advisory lock per account | load, lock, fetch, commit; rollback and mark the error | called by queue, periodic jobs, celery, requests |
| Queue (`inprocess_sync_queue.py`) and periodic jobs (876-961) | `_queue`, `_pending`, `_worker_started`; an advisory lock of the jobs | enqueue, worker loop; send, select, synchronize all | `sync_account_now`, scheduled sending |
| IMAP synchronization (`_sync_imap`, 556-772; `services/imap.py`) | rows with Message-ID, folder, UID, flags | listing, planning of UID ranges, fetches, merge | IMAP server; users' requests change server and rows too |
| Gmail synchronization (`_sync_gmail`, 446-534, 775-821; `services/gmail.py`) | rows with Gmail id, folder, flags | list, fetch, merge, reconcile, refresh flags | Gmail; users' requests |
| Outlook synchronization (`_sync_outlook`, `services/outlook.py`) | rows with Outlook id, which a move changes | list, merge | Microsoft Graph; users' requests |
| Counts (`_refresh_account_counts`; `_refresh_counts` of `api/emails.py`) | unread and total of folders and accounts | told by the provider, or counted in the rows | every synchronization and every request that changes a mail |
| Message requests (`api/emails.py`) | the same rows | read, flag, archive, move, delete, snooze, send, send later | provider first, database after |
| Duplicate remover (`dedupe_service.py`, `maintenance.py`, `scripts/dedupe_messages.py`) | none but its transaction | scan by stable key, delete, scan by fingerprint, delete | `messages` |
| Rules (`rule_service.py`) | `rules` | applied to a new row in a savepoint | the row |
| Devices and pairing (`api/devices.py`) | `devices` with status and pairing code | register, initiate, confirm, revoke | – |
| Authentication (`api/auth.py`, `auth_service.py`) | users; attempts per client in memory | register, login, sliding-window limit | – |
| Account registry, CSV import, hosting (`api/accounts.py`, `import_accounts.py`, `hosting.py`) | `email_accounts`, display order | add, connect, edit, reorder, remove, import, reactivate | cPanel, providers |
| Mailspring import (`api/maintenance.py`) | rows of `messages` and `folders` | batches of mails, looked up and written over | a desktop client; synchronizations, requests |
| Scheduler life cycle, celery | a task and a stop event; celery's own queue | start, stop, loop | periodic jobs |
| Listing, search, assistant, MCP, webhooks, credentials, configuration | – | read or translate | – |

### How they interact

A request runs on the event loop with one database transaction, committed by
`get_db` after the handler has returned. Handlers that act on mail call the
provider first and change the row afterwards. Synchronizations run in threads
(queue worker, periodic jobs), in celery workers or in background tasks of a
request, each in a session of its own. There is no lock between a request and a
synchronization other than PostgreSQL's row locks; two synchronizations of one
account are kept apart by an advisory lock that lives as long as the
transaction. Scheduled sending locks rows with `FOR UPDATE SKIP LOCKED`, but
only for its claim.

### What is hard

* a mail that goes out twice, or never: claim, send and record are three steps,
  and only two of them are transactions (914-943);
* state that is read before a lock or a call and used after it: the account's
  status (272 against 292), the row a request has loaded, rows a reconciliation has loaded;
* writes of a SQLAlchemy session are only of columns that differ from what it
  loaded, so "setting" a value that was already loaded writes nothing;
* a provider's answers are taken in several calls while the mailbox changes, and
  are cut off at limits;
* an exception in the middle: rollback frees the lock before the error is
  recorded (297), a failing scheduled sending ends the whole periodic run (959),
  a lost IMAP batch is passed over (`imap.py` 85);
* identities that change: Outlook's id with every move, IMAP's UID with the folder;
* row locks taken in different orders: the database ends one of two transactions
  that wait for each other;
* things that are counted or looked up before, and stored after: devices,
  addresses, places in a list, unread mails;
* memory that is lost with a process: queue and pending set, rate limits.

### What makes each part correct

* Scheduled sending: a claim is exclusive; a message is handed over once unless
  an answer was lost; "sent" is true; only a crash or a lost transaction strands
  a message; every message is handed over in the end.
* Synchronization: what was compared with the mailbox is what is replaced; the
  mirror never goes back; new mail arrives in the end; error marks heal.
* Queue: pending means that somebody will get to it; periodic runs exclude each other.
* IMAP: no row twice, no gap that stays, the flags of what is listed become those of
  the server, the mirror does not run ahead of the server; a row's UID names its mail (it does not).
* Gmail: a mail that never left the inbox is never hidden; the inbox becomes
  what it is at Gmail; flags become true.
* Outlook: a row has the id of its mail, one row for one mail unless moves and
  synchronizations meet, the newest mails are shown.
* Counts: those of the server in the end, whoever overwrites whom.
* Duplicate remover: a row goes only for an earlier one like it, so that a mail
  never mistaken for another keeps a row; the limit is kept; only duplicates are
  removed (they are not).
* Devices: never more than the permitted number of trusted devices, no revoked one trusted again.
* Rate limit: in every window at most so many attempts.
* Accounts: one account for one address, in the order of the alphabet; what an
  import reports as added is there. Imported mails: no mail loses its row to another.

The hazards in `PROJECT.json` name the line of each of these and the properties
that would catch it going wrong; those that no property covers say why.

## 2. Plan

Order of the modules: what can lose or double a user's mail first, then what
keeps the mirror true, then the rest.

| | module | composes, implements | state |
|---|---|---|---|
| 1 | `MailDelivery` (abstract), `ScheduledSend` | `ScheduledSend` implements `MailDelivery` | done, proved |
| 2 | `AccountSync`, `SyncDispatch` | `SyncDispatch` extends `AccountSync` and implements it | done, proved |
| 3 | `Dedupe` | – | done, proved |
| 4 | `ImapSync` | relies on the exclusion shown by `AccountSync` | done, proved; the star is one more field like `is_read` |
| 5 | `GmailSync` | the same | done, proved; likewise |
| 6 | `OutlookSync` | the same | done, proved; the flag is one more field like `is_read` |
| 7 | `Counts` | the same, with the row locks that the others abstract | IMAP's and Outlook's unread counts done; Gmail's left |
| 8 | `AccountRegistry`, `MailImport`, `Devices`, `RateLimit` | composed by `MCAdministration` | done, proved, the composition too |
| 9 | scheduler life cycle, celery's retries | – | left |

Every invariant and every action property that a passing run checks has its theorem.
Worth stating next: for the synchronizations a mirror seen from outside (rows
that appear, follow the server and go) as an abstract specification that the
three implement. For `Counts`, whose only property is a liveness property, the
safety that it rests on (who may overwrite whose count).

## 3. Modules

### ScheduledSend, MailDelivery

`row` is the `messages` table as far as sending reads or writes it, `lock` the
row locks, `pc`/`todo`/`cur`/`outcome`/`loaded` the local state and the session of a worker.
`SelectForUpdate` and `CommitClaim` are the first transaction (909-917);
`LoadNext` the reload that the commit makes necessary, with the autoflush of
earlier outcomes, which takes row locks; `SendOk`, `SendFails` the provider's call, which may accept a mail and
raise all the same; `CommitOutcome` the second transaction, which fails as a
whole if a row of the batch is gone (`CommitFails`, `LoadFails`). Users schedule,
delete and move, the duplicate remover reads first and deletes later, a worker
dies anywhere (`Crash`). `handed` and `unsure` are history: how often the
provider took a mail, and how often it did so in a call that raised. Sending through SMTP, Gmail or Outlook
is external: accepted, refused, or accepted with a lost answer.

`MailDelivery` says the same without rows, locks and transactions: a message is
planned, taken by one run, and comes to one of four ends; only the run that has
taken it makes copies. `Delivery` in `ScheduledSend` is the refinement mapping.

### AccountSync, SyncDispatch

`AccountSync` is `sync_account_now` for any set of callers: the mailbox is a
version number, a synchronization reads it (`Fetch`) and replaces the mirror
(`Commit`). `TryLock` and `SyncInProgress` are the two answers of the advisory lock,
`Fail`, `LoadForMark` and `MarkError` the rollback and the marking in a
transaction of its own. `seen` is the status the session has loaded: `Commit`
writes `ACTIVE` only if that differs.

`SyncDispatch` extends it with the callers: `EnqueueAdd`/`EnqueuePut` are the
two halves of `enqueue_account_sync` (inside and after its lock), `WorkerGet`, `WorkerCalls`,
`WorkerDone` the loop of the queue's thread, `PeriodicStart` to `PeriodicEnd`
a periodic run under its own advisory lock, `Crash` the death of the process
with its queue. A step of a caller inside `sync_account_now` is a step of `AccountSync`.

### ImapSync

`box` is the server (UIDs grow, a UID whose mail has gone stays unused), `rows`
the mirror, `updates` and `inserts` the transaction of the synchronization.
`ListFolders` (STATUS of each folder), then per folder `PlanFolder` (which UID
ranges to ask for, 626-662, with the strict mode), `FetchBatch` for every
request, `MergeFolder`, and one `Commit`. Requests load the row (`RequestStarts`), act on the server
(`Push`, `PushFails`) and commit the columns they change (`RequestCommits`); a
commit waits for a synchronization that has updated the row. `Targets` is where
archive, delete and move take a mail: without an archive nothing is archived, without
a trash a deletion marks the mail (`deleted` is the server's `\Deleted` flag) and expunges
whatever is marked in the folder (`Expunges`), or fails after the mark (`MarkedOnly`).
Other clients set and take back both flags (`ClientFlags`). `Merged` takes both from
the server, `AsInserted` is a new row after the rules, which may mark it as read or as
deleted without telling the server, so that a later merge undoes them; `Read` (the bulk
update, 408-423) passes over rows that count as deleted. `returned` is history. One synchronization runs at a time: that is `NothingInBetween`, proved of `AccountSync`.

### GmailSync

`label` is where Gmail has each mail, `mine` the transaction of the
synchronization. For each folder, in the order of a Python set (both are
explored): `ListIds`, `ListMails`, `GetMails`, `MergeFolder`, then `ReconcileRow`
for every row that the ids did not have; after that `LabelStats` and
`UnreadIds` for each folder, and `Commit`. Every call of the provider is a step
of its own; only the messages.get calls that follow one listing are taken together. `Settled` compares
with the row as it was loaded, as the session does. An id that has gone by the time
it is got raises and ends the synchronization (`GetFails`).

### OutlookSync

`place` and `gen` are where Graph has a mail and under which id: an id is the number of the
mail's moves. `ListMails` and `MergeFolder` per folder, then `Commit`;
`Existing` is `_find_existing_message`, which looks in one folder only, by the
id and then by the Message-ID, and `late` the one row whose change the session writes with
its next query. A request is `RequestStarts`, `Push` (or `PushRefused`: Graph
does not know the row's id any more; `PushFails`: done or not, the answer is lost) and `RequestCommits`;
`NewId` is what the provider layer returns: a move tells the new id, a deletion
does not. `excused` and `brought` are history.

### Counts

The unread counts stored in the rows of a folder and its account. A transaction
computes them from the server's answer, or from the rows when that fails, and writes those
that differ from what it had loaded. `Told` is a STATUS or a folder's property: the truth, or
nought where the error is swallowed (`imap.py` 35). `holds` and `locked` are the
row locks: a synchronization has the folder, then mails, then the account; a
request the mail, the account, then the folder. `InCycle` is the deadlock of
these, `DeadlockEnds` PostgreSQL's way out. Written for an IMAP inbox.

### AccountRegistry

`accounts` is the table, `session` what each transaction has read and is to
write. `AddImapAccount`, `OAuthCallback`, `ConnectMailbox` and the CSV import
(`ImportStarts`, `ImportRow` for every row, `ImportEnds`, `ImportFails`) end in
`Sorts` (`_sort_accounts_az`: places for all active accounts it sees, of which
only the changed are written) and `Commits`. `ReorderAccounts`, `UpdateOrder`,
`RemoveAccount`, `ActivateAccount`, `ReactivateAccount` write at once.

### MailImport

`batch` is the transaction of each batch: for every mail `Finds` (folder and row,
`Candidates` is the ladder of `_find_existing_import_message`) and `Writes` (all of
the row becomes the mail's), then `BatchCommits`. `was` is the row as the session has
loaded it: the UPDATE has the columns that differ from it and leaves the others as they
are in the table by then (`Updated`), and a row that is found for two mails one after the other is not loaded again. Beside it requests move
mails, clients move them at the server, the synchronization stores them.

### Devices, RateLimit, MCAdministration

`Devices`: a request is two steps, what it reads (`RegisterFirstDevice`,
`InitiatePairing`, `ConfirmPairing`, `RevokeDevice`) and its commit (`Saves`), with codes that
expire as `clock` goes on. `RateLimit` is `_enforce_rate_limit` with
time and restarts. `MCAdministration` puts these four side by side: they share
no state, so each runs while the others are at their start.

### Dedupe

Rows are numbered in the order of creation and become visible in any order.
A run (`StableScan`, `StableDelete`, `PrintScan`, `PrintDelete`, `Commit`) is one transaction:
its deletions are locked rows and not yet gone for others. `Slice` is
`ids[:max_delete]`. `Content` is the mail itself, which the code does not see. Nothing is
assumed of what a Message-ID, a UID or a fingerprint says of it: `Alike` is what the keys
compare, in any of the folders two rows have been in (`been`, history), since a run that
has read a row before it was moved deletes it all the same. `Mistaken` are the mails with
a row that is like a row of another mail.

### Conventions

Operators whose name ends in `_Something` are faulty variants, used by nothing in
a module: they state the bug that the named property is there to find
(`PROJECT.json`, "mutants"). MC modules only give values to constants.

## 4. Runs

| run | checks | what it shows |
|---|---|---|
| `scheduled_send` | `SingleClaim`, `HandedOnce`, `StrandedOnlyByLoss`, `DeliveryPromise`, `EventuallyHanded` | exclusive claims, no second copy but after a lost answer, the promise is kept, refused mail is tried until it is taken |
| `sync_dispatch` | `PendingIsPromised`, `MirrorUnchanged`, `OnePeriodicRun`, `NeverOlder`, `PendingIsServed`, `MailIsMirrored`, `ErrorsHeal` | the locks keep four callers of two processes apart; queued accounts, new mail and error marks are served in the end |
| `imap_sync` | `DoublesOnlyByReturn`, `MovedAtTheServer` | the mirror has doubles only of mails that were moved into the inbox, and does not run ahead |
| `imap_gaps` | `InboxIsMirrored`, `FlagsAreShown` | gaps are filled although a mail can never be stored, and the flags of what the inbox lists become the server's |
| `gmail_sync` | `NothingIsHidden`, `InboxIsTrue`, `FlagsAreShown` | no mail that stayed is hidden, the inbox becomes true |
| `gmail_return` | `NewestAreShown` | mails that come back are shown again |
| `outlook_sync` | `RowsAreInStep`, `DoublesOnlyByMoves`, `NewestAreShown` | rows keep the id of their mail, doubles come only from moves, the newest are shown |
| `counts` | `CountsComeTrue` | stale counts, swallowed errors and deadlocks are made good by the next synchronization |
| `administration` | `DoublesOnlyByOverlap`, `ReportedIsStored`, `ListIsAlphabetical`, `MailsKeepTheirRows`, `TrustIsGuarded`, `RateIsLimited` | what overlapping requests may do to accounts, imported mails, devices and attempts, and what not |
| `dedupe` | `OnlyLaterCopiesGo`, `MailsKeepARow`, `LimitIsKept` | overlapping runs never delete each other's survivors, nor a row of another mail |
| `imap_uid` (violated) | `UidIsTheRowsMail` | finding 1 |
| `dedupe_drafts` (violated) | `OnlyDuplicatesAreRemoved` | finding 2 |

The first run of each module checks its type invariant as well, except `Counts`, whose state is sets and numbers.

### Bounds, and why they are enough

* `scheduled_send`: two workers, two messages, a batch of both, one failing
  call, one loss. Every conflict is between two workers or between a worker and
  one other writer, about one message; the second message is there for what one
  message's failure does to the other of the same transaction. The texts are
  equal, so that the duplicate remover always has something to delete.
  The invariants are proved for all values.
* `sync_dispatch`: one account, the queue's worker, two periodic runs and a
  direct caller. One arrival makes a stale and a fresh reading differ; two
  failures and a mishap, so that an error can be written by a straggler after a success
  and a crash can follow. The invariants are proved for all values, every number of accounts included.
* `imap_sync`: three folders, two mails, of which a rule marks one as read and one as deleted, both modes; two actions,
  so that a mail leaves the inbox and comes back, and one failure, after which
  the mirror has a mail in two folders or not where it is.
  `imap_gaps`: four mails and a window of two, so that a gap opens below what one
  listing takes, and one mail that can never be stored; one action and two failures,
  a lost batch and a failing listing or search for gaps. There is no archive and no trash
  here: what is deleted is expunged. A mail that can never be stored takes a place in the window, hence
  the assumption that there are fewer of these than `IMAP_FETCH_LIMIT`: with as many, older
  gaps are never filled, and the property does not speak of that. Rules mark one mail as read and one as
  deleted; the one action is another client's flag, its `\Deleted` or a request, before,
  during or after any step of a synchronization, and a failing STATUS marks all as read.
* `gmail_sync`: three mails, of which one cannot be parsed, a listing of messages cut off at one and of ids at
  two, at most two questions per folder; one action by user or client and one failure.
  `gmail_return`: a mail must leave and come back, so two actions, with two mails.
* `outlook_sync`: two mails with a listing of one, so that a mail can drop out of
  it; two actions, so that a mail leaves and comes back, or a request meets another client; one failure.
* `counts`: a mail whose flags are fetched and one that is too old for it, two requests, for
  one to wait for a lock the other has while that waits for the synchronization; two changes and a loss.
* `administration`: three addresses and two overlapping requests of three; one
  import that works and one whose second row fails. Imported mails: two, in
  different folders and with the same UID there, one without Message-ID, two
  batches of at most two mails, one move, one synchronized mail. Devices: two at
  a time, at most two trusted of three, codes of one tick (the proof has no
  bounds). Attempts: five, two let through in a window of two, time up to five.
* `dedupe`: three rows of one mail that are linked only pairwise, by Message-ID
  or by fingerprint, and one of another mail with the UID of the last, inserted in two of
  three folders (two of one type) and moved once, so that the two mails are mistaken for one
  another in some behaviours and not in others; limits 1, 2 and none; two runs.

Deadlock is not checked: with the bounded number of messages, actions and
failures used up a model may stop, as the idle server does.

### Fairness

* Workers of scheduled sending: the beat schedule (`celery_app.py` 20-35) or the
  scheduler (`background_scheduler.py` 36-50) starts them again and again, and a
  running function goes on. Time passes.
* Queue's thread: an endless loop over `queue.get()`. Periodic runs come
  round at every interval. A caller inside `sync_account_now` goes on. Weak
  fairness of each suffices: the advisory lock answers at once and nobody waits for it.
* IMAP, Gmail and Outlook: the account is synchronized again and again (which
  `SyncDispatch` shows for an active account), and a request that was begun comes to its end.
* Counts: the synchronization comes round again (weak fairness of its steps); a
  request goes on whenever the lock it waits for is free again and again (strong
  fairness: PostgreSQL queues those that wait for a lock); a deadlock is ended.
* Nothing is assumed of users, other clients, arriving mail, failures, crashes
  and the duplicate remover. Failures and crashes are finitely many by the
  bounds: a provider that fails for ever keeps no promise.

### Exceptions the liveness properties state

The doubles of `DoublesOnlyByReturn` are real: a synchronization that sees a mail
back in the inbox before the request that moved it has changed the row adds a
second row, and so does one that merges a mail it fetched before the mail was
deleted, once the user takes the first row out of the trash again. Such a second row
nobody looks at again, hence the same exception in `FlagsAreShown` of `ImapSync`. That property
is about rows the inbox lists (`emails.py` 772-778): a row that counts as deleted, by the flag or
by a rule, is passed over by the bulk update (411-417) and fetched again only while some
mail is unread, or as the last of its folder. With a rule that deletes mail 1 and both mails then read
elsewhere it stays unread for good, and it stays hidden if another client takes
`\Deleted` back; the model has these behaviours, and nothing in the repository promises otherwise.
`InboxIsMirrored` leaves out strict accounts (they ask for older mail as long as
the lowest UID is above 1) and mailboxes from which a mail was removed: rows are
never removed, the gap search runs only when the server has more mails than the
mirror has rows, and each stale row hides one gap. `InboxIsTrue` leaves out inboxes
longer than `GMAIL_RECONCILE_LIMIT`, which are not reconciled, and rows of mails gone for good
that fill the round of `GMAIL_STALE_STATE_LIMIT` questions.
`MailIsMirrored` and `ErrorsHeal` leave out removed accounts.

## 5. Findings

1. `imap_uid`: `delete_email` and `move_email` (`api/emails.py` 1255, 1203) change the
   folder of a row and keep its UID, which is the mail's UID in the old folder.
   In the new folder it is another mail's, or nobody's, and the next request acts on that.
2. `dedupe_drafts`: the duplicate remover's table scan includes drafts scheduled
   by users. They have no Message-ID, UID, date or preview, so two with the
   same subject and recipients have one fingerprint whatever their bodies, and
   the later is deleted (`dedupe_service.py` 65).

Observed, without a sentence in the repository that says otherwise: a scheduled
draft that its user deletes is still sent, for the claim reads neither `is_deleted` nor the
folder; a rule's deletion is undone by the next synchronization that fetches the mail
again, for the server is not told; scheduled mail goes out without its bcc (927-934); a Gmail mail that
moves between the listings of two folders can have a row in each.

## 6. Proofs

All theorems hold for every value of the constants that satisfies the named
assumptions (bounds are naturals, `Nobody`/`None` is no process, the callers
are the worker, the periodic threads and the others, and these are different).

* **ScheduledSendProofs.** `SafetyInv` is inductive together with `TypeOK`. The
  properties alone are not: `SingleClaim` needs that a locked row is in its
  worker's batch and that an uncommitted claim holds all its locks (`LockInv`);
  what follows the commit has no locks, and there it is the emptied
  `scheduled_send_at` that keeps others away (`ClaimInv`). `HandedOnce` needs
  `SpentInv`: a message the provider took in a call that did not raise is out
  of the schedule for good and in no worker's way. One lemma per step of the
  worker, one for all steps of users, clock and remover (`TableSteps`).
  `KeepsThePromise`: initial states map to initial states, every step to a step
  of `MailDelivery` or a stutter, from `SafetyInv`. That a row recorded as sent was
  accepted (`SentIsTrue`) is part of that promise in the runs.
* **SyncDispatchProofs.** `SyncInv`: a caller between lock and commit holds the
  lock of its account, the mirror it compared with is unchanged, and the mirror is
  never ahead of the mailbox, nor of what was read of it. From it
  `NothingInBetween`, `MirrorGoesForward`, theorems of `AccountSync` alone.
  `DispatchImplementsSync`: every step of the dispatcher
  is a step of `AccountSync` or leaves it alone, so these carry over.
  `QueueKeepsItsPromises` is inductive with the queue's types;
  `PeriodicRunsExclude` needs that a run that is still sending has selected no account (`SendingFirst`).
* **ImapSyncProofs.** `DoublesNeedAReturn`, for any number of mails, folders and
  any window. That the table has no doubles says nothing of what a
  synchronization is about to insert, so `DoublesInv` says of the inserts of the inbox that
  they are of mails which have no row there (`InsertsAreNew`), each of another
  mail (`InsertsAreDistinct`), and of folders the synchronization is done with
  (`InsertsInOrder`); its updates leave every row its mail, folder and UID
  (`UpdatesAgree`); and a request that brings a mail back is in the history
  before it changes the row (`ReturnIsKnown`). `MovesAreTrue` is about where a
  mail is: `PlacesInv` says of every copy of a row (the table's, a
  synchronization's, a fetched answer's, a request's) that the mail is at the
  row's UID or gone, if the row is of the inbox, and not in the inbox, if it is
  of another folder, unless it came back; with `PushedIsAway` for the request
  between its call to the server and its commit.
* **GmailSyncProofs.** `NoMailIsHidden`, for any mails, order of folders, limits and
  window. `GmailInv` follows a row on its way through the transaction: every row
  of the table, every row written and not committed (`MineShows`) and every copy
  kept for the reconciliation (`StaleShows`) is of a mail that left the inbox, or
  shows it; what a listing found elsewhere has left (`FoundHasLeft`), and so has
  what was fetched with the trash's label (`FetchedHasLeft`), although the label
  may have changed again between listing and fetch; a request has moved the mail
  before its commit says so (`PushedHasLeft`).
* **OutlookSyncProofs.** `RowsStayInStep`, `DoublesComeFromMoves`. `OutlookInv`
  says of the table as the synchronization's transaction sees it what the
  properties say of the table: it changes only flags of old rows (`OnlyFlags`),
  and with its new rows there is one row for each mail (`OneRowEach`), a true one (`RowsAreTrue`), and no
  double in a folder (`DoublesInView`), excused mails apart. Between a
  request's call and its commit the row is wrong, and that is all right because
  no synchronization is under way and the id the request holds is the new one
  (`Underway`, `UnderwayIsThere`); a listing stays true of every mail that nobody
  has moved since (`ListedIsThere`).
* **DedupeProofs.** What is doomed, deleted or gone has an earlier row like it
  (`OnlyLaterRows`), for the two were in folders of one type, or in one folder, when they were read
  (`TogetherNow`), and have been since: `LaterCopiesGo`, without any assumption about keys.
  So the first row of a mail that is not mistaken for another stays, for an earlier row like it would be
  another mail's (`FirstOfMail`, `EveryMailKeepsARow`); what the keys do get wrong is
  finding 2, and the UID a move takes along. What was deleted and what may be deleted add up within the limit (`WithinLimit`), with
  `SliceBound` about prefixes of a set. Neither depends on how runs interleave.
* **AccessProofs.** `DevicesAreGuarded`, for any number of devices and requests.
  The limit alone is not inductive: the invariant `RoomForAll` counts, besides
  the trusted devices, everybody who may yet become one (a valid code, a
  confirmation or a registration under way), and says that they all have room
  until two pairings overlap. For the other half, `BarredStayRevoked`, nobody
  is confirming a device that was barred.
  `AttemptsAreLimited`: attempts come in the order of time (`PassedInOrder`), and
  what the list has forgotten is older than the window (`ForgottenIsOld`); so the
  attempts within a window are among those the list still has, which are fewer
  than the limit when another passes.
* **AdministrationProofs.** `WhatIsReportedIsStored`: what a transaction is to
  report is among its new accounts, which its commit stores, and no other
  transaction takes an address from the table (`AddressesKept`,
  `AddressesCommitted`). `DoublesComeFromOverlaps` needs an invariant about the
  transactions, `LookupInv`: each has looked up what it is about to add
  (`LooksFirst`); what two of them have looked up is marked
  (`OverlapsAreDoubled`); and what one is about to add is in the table
  (`NewAreNew`), or twice among its own (`NewAreOnce`), only if it is marked.
  `AccountsStandInOrder`: the places of a sort grow with the addresses, since
  below those of one address there is room for all smaller ones (`PlacesInOrder`,
  by cardinalities); the sort writes only the places it finds wrong, so `OrderInv` says
  that a session which has missed no change still knows the places there are
  (`PlacesHold`), and that the table will be in order once it has written.
  `ImportedMailsAreKept`: a row must not change its mail, although a batch writes only the columns that differ
  from what it has loaded, and a batch finds it
  by UID, Message-ID, the client's id or looks. `ImportInv`: a UID of a folder,
  at the server, in what a client has told or in a row that is not excused, is
  of one mail, and smaller than the folder's next (`UidsAreForOneMail`); rows say
  the truth about their mail (`RowsSpeakTrue`); so a batch that has found a row
  of a mail that keeps it has found its own (`FoundItsOwn`), what it has loaded is about the same mail
  in the same folder, so that columns of two mails never mix (`UpdatedRow`), and what it is to
  write over it is a row of that mail (`SameMail`), which the lock on the row
  keeps so (`LocksApart`).
  `ComponentsKeepTheirSpecs`: every step of `MCAdministration` is a step of a
  component or leaves it alone, so the theorems of all four hold of the
  composition, their types together above all (`AdministrationTypesAreKept`).

Induction over data is out of the provers' reach (the library's induction
theorems take an operator as a parameter). Where a proof needs to count, or to
take a first or last element, it goes by cardinalities: the rank of a number in
a finite set (`RankFacts`) numbers new rows without a gap and UIDs without a
double, and a least number exists because a least finite set does (`LeastNumber`).

Only model-checked: all liveness properties, for the provers do not reach
ENABLED and fairness, and with them all that is said of `Counts`.

## 7. What is not modelled

* The scheduler's start and stop, celery's retries with back-off. The star of a
  mail is one more field that goes the way of `is_read`; a snooze is a column
  that no synchronization writes.
* Of the hosting requests what happens at the cPanel server; of the Mailspring
  import the counts it recomputes and that it makes its account active.
* Contents of mails, MIME, search, threads, serialization, the assistant, the
  MCP translation, webhooks, credentials: they read, format or call libraries
  and keep no state that others depend on.
* Gmail's counts, label by label, and the totals: they are stored as the unread
  counts of `Counts` are. IMAP's listing counts, on which planning depends, are in `ImapSync`.
* Gmail's labels sent, drafts and spam, and IMAP's other folders: further
  folders of the kind that is modelled. Creation of folders is part of the first synchronization.
* A UIDVALIDITY change: the code does not look at it.
* Databases other than PostgreSQL: the models use its advisory locks, row locks and rollback, as the code does.
