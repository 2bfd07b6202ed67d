----------------------------- MODULE GmailSync -----------------------------
(***************************************************************************)
(* A Gmail account: the labels of its mails, the rows that mirror them in  *)
(* the messages table, the synchronization (_sync_gmail and the refresh of *)
(* the counts in tasks/sync_tasks.py) and the users' requests of           *)
(* api/emails.py, which change the labels first and the rows afterwards.   *)
(* A folder of the mirror is a label; a mail is found again by its Gmail   *)
(* id, and only among the rows of one folder.  The synchronization reads   *)
(* the account in many calls, while the labels change, and the rows it     *)
(* finds under the wrong label it asks Gmail about one by one.             *)
(*                                                                         *)
(* As in ImapSync one synchronization runs at a time, in one transaction.  *)
(* The folders are those of the inbox and the trash; sent mail, drafts and *)
(* spam are further labels of the same kind.                               *)
(***************************************************************************)
EXTENDS Integers, Sequences, FiniteSets

CONSTANTS
    MailCount,       \* mails that arrive (bound); a later mail is newer
    Unparsable,      \* mails _parse_gmail_message makes nothing of
    FetchLimit,      \* GMAIL_FETCH_LIMIT
    ReconcileLimit,  \* GMAIL_RECONCILE_LIMIT
    StaleLimit,      \* GMAIL_STALE_STATE_LIMIT
    MaxActions,      \* bound on what users and other clients do
    MaxFailures      \* bound on calls that fail and processes that die

ASSUME GmailAssumptions ==
    /\ MailCount \in Nat
    /\ Unparsable \subseteq 1..MailCount
    /\ FetchLimit \in Nat \ {0}
    /\ ReconcileLimit \in Nat \ {0}
    /\ StaleLimit \in Nat \ {0}
    /\ MaxActions \in Nat
    /\ MaxFailures \in Nat

VARIABLES
    label,     \* where Gmail has each mail
    unread,    \* the mails with the label UNREAD
    left,      \* mails that have ever been outside the inbox (history)
    rows,      \* the messages table
    pc,        \* where the synchronization is
    order,     \* the folders it has yet to do, the first being worked on
    present,   \* the ids that list_message_ids returned for the folder
    found,     \* the ids that list_messages returned
    fetched,   \* the mails it got for them
    stale,     \* rows to ask Gmail about, as they were loaded
    count,     \* the number of unread mails of the label
    mine,      \* the rows its transaction has changed or inserted
    request,   \* the user's request being served
    actions,   \* actions of users and other clients so far
    failures   \* failures so far

gmailVars == <<label, unread, left>>
syncVars == <<pc, order, present, found, fetched, stale, count, mine>>
events == <<actions, failures>>
vars == <<gmailVars, rows, syncVars, request, events>>

Mails == 1..MailCount
Labels == {"inbox", "trash", "archive"}
SyncFolders == {"inbox", "trash"}
NoRequest == [step |-> "none"]
Empty == [u \in {} |-> 0]

Init ==
    /\ label = [m \in Mails |-> "none"]
    /\ unread = {}
    /\ left = {}
    /\ rows = <<>>
    /\ pc = "idle"
    /\ order = <<>>
    /\ present = {}
    /\ found = {}
    /\ fetched = Empty
    /\ stale = Empty
    /\ count = 0
    /\ mine = Empty
    /\ request = NoRequest
    /\ actions = 0
    /\ failures = 0

-----------------------------------------------------------------------------
(* Gmail and other clients.                                                *)

In(f) == {m \in Mails : label[m] = f}

Newest(S, n) == {m \in S : Cardinality({k \in S : k > m}) < n}

Arrived == Cardinality({m \in Mails : label[m] # "none"})

MailArrives ==
    /\ Arrived < MailCount
    /\ label' = [label EXCEPT ![Arrived + 1] = "inbox"]
    /\ unread' = unread \union {Arrived + 1}
    /\ UNCHANGED <<left, rows, syncVars, request, events>>

Acting == actions < MaxActions /\ actions' = actions + 1 /\ UNCHANGED failures

ClientFlags(m) ==
    /\ Acting
    /\ m \in In("inbox")
    /\ unread' = IF m \in unread THEN unread \ {m} ELSE unread \union {m}
    /\ UNCHANGED <<label, left, rows, syncVars, request>>

\* Another client moves a mail, or deletes it for good.
ClientMoves(m, l) ==
    /\ Acting
    /\ label[m] \in Labels \ {l}
    /\ label' = [label EXCEPT ![m] = l]
    /\ left' = left \union {m}
    /\ UNCHANGED <<unread, rows, syncVars, request>>

-----------------------------------------------------------------------------
(* What the transaction of a synchronization sees and writes.              *)

Failing == failures < MaxFailures /\ failures' = failures + 1 /\ UNCHANGED actions

Folder == Head(order)

Table(own) == DOMAIN rows \union DOMAIN own
Row(own, i) == IF i \in DOMAIN own THEN own[i] ELSE rows[i]
RowsIn(own, f) == {i \in Table(own) : Row(own, i).folder = f}

\* The transaction with the rows of S set to new[i]; rows that stay as they are are
\* not written.
Writing(own, S, new) ==
    LET changed == {i \in S : i \notin Table(own) \/ new[i] # Row(own, i)} IN
    [i \in DOMAIN own \union changed |-> IF i \in changed THEN new[i] ELSE own[i]]

-----------------------------------------------------------------------------
(* A synchronization.                                                      *)

\* GMAIL_SYNC_FOLDER_TYPES is a set: its members come in any order.
ListIds ==
    /\ \/ pc = "idle" /\ order' \in {<<"inbox", "trash">>, <<"trash", "inbox">>}
       \/ pc = "next" /\ UNCHANGED order
    /\ present' = Newest(In(order'[1]), ReconcileLimit)
    /\ pc' = "ids"
    /\ UNCHANGED <<gmailVars, rows, found, fetched, stale, count, mine, request, events>>

\* list_messages first lists the newest mails; pages go on until enough were parsed.
ListMails ==
    /\ pc = "ids"
    /\ found' = Newest(In(Folder) \ Unparsable, FetchLimit)
    /\ pc' = "listed"
    /\ UNCHANGED <<gmailVars, rows, order, present, fetched, stale, count, mine,
                   request, events>>

\* ... and then gets each, with the labels it has by now.
GetMails ==
    /\ pc = "listed"
    /\ \A m \in found : label[m] # "gone"
    /\ fetched' = [m \in found |-> [is_read |-> m \notin unread,
                                    is_deleted |-> label[m] = "trash"]]
    /\ found' = {}
    /\ pc' = "fetched"
    /\ UNCHANGED <<gmailVars, rows, order, present, stale, count, mine, request, events>>

\* A faulty variant: a row is looked for in all folders of the account.
Existing_AnyFolder(f, m) == {i \in Table(mine) : Row(mine, i).mail = m}

\* _find_existing_message: a row of the folder with the Gmail id.
Existing(f, m) == {i \in RowsIn(mine, f) : Row(mine, i).mail = m}

\* _merge_existing_message, or a new row.
Merged(row, m) == [row EXCEPT !.is_read = fetched[m].is_read, !.is_deleted = fetched[m].is_deleted]

NewRow(f, m) ==
    [mail |-> m, folder |-> f, is_read |-> fetched[m].is_read, is_deleted |-> fetched[m].is_deleted]

\* The rows _reconcile_gmail_folder asks about: some of those the listing of ids did
\* not have, unless that was cut off.  Rows already marked as deleted are among them.
StaleRows(own, f) == {i \in RowsIn(own, f) : Row(own, i).mail \notin present}

StaleChoices(own, f) ==
    IF Cardinality(present) >= ReconcileLimit
    THEN {{}}
    ELSE LET all == StaleRows(own, f) IN
         {S \in SUBSET all : \/ S = all /\ Cardinality(S) < StaleLimit
                             \/ Cardinality(S) = StaleLimit}

\* With no row left to ask about comes the next folder, or the counts of all.
Onward ==
    IF stale' # Empty THEN pc' = "reconciling" /\ UNCHANGED order
    ELSE IF Len(order) > 1 THEN pc' = "next" /\ order' = Tail(order)
    ELSE pc' = "counting" /\ order' = <<"inbox", "trash">>

MergeFolder ==
    LET f == Folder
        old == {m \in DOMAIN fetched : Existing(f, m) # {}}
        new == DOMAIN fetched \ old
        Place(m) == Cardinality(Table(mine)) + Cardinality({k \in new : k <= m})
    IN
    /\ pc = "fetched"
    /\ \E row \in [old -> Table(mine)] :
         /\ \A m \in old : row[m] \in Existing(f, m)
         /\ mine' = Writing(mine, {row[m] : m \in old} \union {Place(m) : m \in new},
                            [i \in {row[m] : m \in old} \union {Place(m) : m \in new} |->
                               LET m == CHOOSE m \in DOMAIN fetched :
                                          IF m \in old THEN row[m] = i ELSE Place(m) = i
                               IN IF m \in old THEN Merged(Row(mine, i), m) ELSE NewRow(f, m)])
    /\ \E S \in StaleChoices(mine', f) : stale' = [i \in S |-> Row(mine', i)]
    /\ present' = {}
    /\ fetched' = Empty
    /\ Onward
    /\ UNCHANGED <<gmailVars, rows, found, count, request, events>>

\* A faulty variant: what is neither in the trash nor spam is taken to be archived.
Target_NoInbox(m) == IF label[m] = "trash" THEN "trash" ELSE "archive"

\* The folder for the labels of a mail.
Target(m) == label[m]

\* A faulty variant: a mail that is gone is passed over.
Settled_KeepsGone(now, was) ==
    LET m == was.mail IN
    IF label[m] = "gone" THEN now
    ELSE [now EXCEPT !.folder = Target(m), !.is_read = m \notin unread,
                     !.is_deleted = (Target(m) = "trash")]

\* What get_message_state says of a stale row.  A column the loaded row had already
\* is not written.
Settled(now, was) ==
    LET m == was.mail
        Set(old, new, current) == IF old = new THEN current ELSE new
    IN
    IF label[m] = "gone"
    THEN [now EXCEPT !.is_deleted = Set(was.is_deleted, TRUE, @)]
    ELSE [now EXCEPT !.folder = Set(was.folder, Target(m), @),
                     !.is_read = Set(was.is_read, m \notin unread, @),
                     !.is_deleted = Set(was.is_deleted, Target(m) = "trash", @)]

ReconcileRow ==
    /\ pc = "reconciling"
    /\ \E i \in DOMAIN stale :
         /\ mine' = Writing(mine, {i}, [k \in {i} |-> Settled(Row(mine, i), stale[i])])
         /\ stale' = [k \in DOMAIN stale \ {i} |-> stale[k]]
    /\ Onward
    /\ UNCHANGED <<gmailVars, rows, present, found, fetched, count, request, events>>

\* _refresh_gmail_remote_counts: first the number of unread mails ...
LabelStats ==
    /\ pc = "counting"
    /\ count' = Cardinality(In(Folder) \intersect unread)
    /\ pc' = "counted"
    /\ UNCHANGED <<gmailVars, rows, order, present, found, fetched, stale, mine,
                   request, events>>

Counted ==
    /\ order' = Tail(order)
    /\ pc' = IF Len(order) > 1 THEN "counting" ELSE "done"
    /\ count' = 0

\* A faulty variant: rows are marked as unread and never as read.
Flagged_OnlyUnread(row, ids) == [row EXCEPT !.is_read = @ /\ row.mail \notin ids]

Flagged(row, ids) == [row EXCEPT !.is_read = row.mail \notin ids]

\* ... then as many of them as it has counted; by these all rows of the folder are
\* marked, unless there are too many.
UnreadIds ==
    LET ids == Newest(In(Folder) \intersect unread, count)
        known == RowsIn(mine, Folder)
    IN
    /\ pc = "counted"
    /\ mine' = IF count <= ReconcileLimit
               THEN Writing(mine, known, [i \in known |-> Flagged(Row(mine, i), ids)])
               ELSE mine
    /\ Counted
    /\ UNCHANGED <<gmailVars, rows, present, found, fetched, stale, request, events>>

\* A call that fails leaves the folder out.
StatsFail ==
    /\ pc \in {"counting", "counted"}
    /\ Failing
    /\ Counted
    /\ UNCHANGED <<gmailVars, rows, present, found, fetched, stale, mine, request>>

\* A faulty variant: the transaction is left open.
Ended_Open ==
    /\ pc' = "idle"
    /\ order' = <<>>
    /\ present' = {}
    /\ found' = {}
    /\ fetched' = Empty
    /\ stale' = Empty
    /\ count' = 0
    /\ UNCHANGED mine

Ended ==
    /\ pc' = "idle"
    /\ order' = <<>>
    /\ present' = {}
    /\ found' = {}
    /\ fetched' = Empty
    /\ stale' = Empty
    /\ count' = 0
    /\ mine' = Empty

Commit ==
    /\ pc = "done"
    /\ rows' = [i \in 1..Cardinality(Table(mine)) |-> Row(mine, i)]
    /\ Ended
    /\ UNCHANGED <<gmailVars, request, events>>

\* A listed mail that is gone when it is got raises: the synchronization ends.
GetFails ==
    /\ pc = "listed"
    /\ \E m \in found : label[m] = "gone"
    /\ Ended
    /\ UNCHANGED <<gmailVars, rows, request, events>>

\* Any other exception, and the death of the process.
SyncFails ==
    /\ pc # "idle"
    /\ Failing
    /\ Ended
    /\ UNCHANGED <<gmailVars, rows, request>>

-----------------------------------------------------------------------------
(* A user's request.                                                       *)

Operations == {"read", "unread", "archive", "delete", "move"}

\* Where a request takes its mail.  A move to the trash is a deletion.
Targets(op) ==
    CASE op \in {"read", "unread"} -> {"nowhere"}
      [] op = "archive"            -> {"archive"}
      [] op = "delete"             -> {"trash"}
      [] op = "move"               -> {"inbox", "archive"}

\* The request loads the row and looks for the folder.  The archive's is there once a
\* synchronization has put a row into it; before, archive_email goes on without it.
RequestStarts(op, to, i) ==
    LET archive == \E k \in DOMAIN rows : rows[k].folder = "archive" IN
    /\ request = NoRequest
    /\ Acting
    /\ i \in DOMAIN rows
    /\ op = "move" /\ to = "archive" => archive
    /\ request' = [step |-> "loaded", op |-> op, to |-> IF to = "archive" /\ ~archive THEN "nowhere" ELSE to,
                   id |-> i, row |-> rows[i]]
    /\ UNCHANGED <<gmailVars, rows, syncVars>>

\* What _push_remote_action does to the labels.  To archive a mail takes the inbox from
\* it and nothing else.
Pushed ==
    LET m == request.row.mail
        Leaves(l) == /\ label' = [label EXCEPT ![m] = l]
                     /\ left' = left \union {m}
                     /\ UNCHANGED unread
        archived == request.op = "archive" \/ request.to = "archive"
    IN
    /\ label[m] # "gone"
    /\ CASE request.op = "read"   -> unread' = unread \ {m} /\ UNCHANGED <<label, left>>
         [] request.op = "unread" -> unread' = unread \union {m} /\ UNCHANGED <<label, left>>
         [] request.op = "delete" -> Leaves("trash")
         [] archived              -> IF label[m] = "inbox" THEN Leaves("archive") ELSE UNCHANGED gmailVars
         [] request.to = "inbox"  -> label' = [label EXCEPT ![m] = "inbox"] /\ UNCHANGED <<left, unread>>

Push ==
    /\ request.step = "loaded"
    /\ Pushed
    /\ request' = [request EXCEPT !.step = "pushed"]
    /\ UNCHANGED <<rows, syncVars, events>>

\* Gmail does not know the mail any more: the request ends with an error.
PushRefused ==
    /\ request.step = "loaded"
    /\ label[request.row.mail] = "gone"
    /\ request' = NoRequest
    /\ UNCHANGED <<gmailVars, rows, syncVars, events>>

\* The call raises, whether Gmail has done it or not.
PushFails ==
    /\ request.step = "loaded"
    /\ Failing
    /\ Pushed \/ UNCHANGED gmailVars
    /\ request' = NoRequest
    /\ UNCHANGED <<rows, syncVars>>

\* The request's UPDATE has the columns whose value is not the one that was loaded.
Column(loaded, now, value) == IF loaded = value THEN now ELSE value

Answered(now) ==
    LET was == request.row
        there == IF request.to = "nowhere" THEN now
                 ELSE [now EXCEPT !.folder = Column(was.folder, @, request.to)]
    IN
    CASE request.op = "read"    -> [now EXCEPT !.is_read = Column(was.is_read, @, TRUE)]
      [] request.op = "unread"  -> [now EXCEPT !.is_read = Column(was.is_read, @, FALSE)]
      [] request.op = "archive" -> there
      [] request.op = "delete"  -> [there EXCEPT !.is_deleted = Column(was.is_deleted, @, TRUE)]
      [] request.op = "move"    -> [there EXCEPT !.is_deleted = Column(was.is_deleted, @, FALSE)]

\* It waits for the synchronization that has written the row.
RequestCommits ==
    /\ request.step = "pushed"
    /\ request.id \notin DOMAIN mine
    /\ rows' = [rows EXCEPT ![request.id] = Answered(@)]
    /\ request' = NoRequest
    /\ UNCHANGED <<gmailVars, syncVars, events>>

RequestDies ==
    /\ request.step = "pushed"
    /\ Failing
    /\ request' = NoRequest
    /\ UNCHANGED <<gmailVars, rows, syncVars>>

-----------------------------------------------------------------------------
Sync ==
    \/ ListIds
    \/ ListMails
    \/ GetMails
    \/ GetFails
    \/ MergeFolder
    \/ ReconcileRow
    \/ LabelStats
    \/ UnreadIds
    \/ Commit

Next ==
    \/ MailArrives
    \/ \E m \in Mails : ClientFlags(m)
    \/ \E m \in Mails, l \in Labels \union {"gone"} : ClientMoves(m, l)
    \/ Sync
    \/ StatsFail
    \/ SyncFails
    \/ \E op \in Operations :
         \E to \in Targets(op) : \E i \in DOMAIN rows : RequestStarts(op, to, i)
    \/ Push
    \/ PushRefused
    \/ PushFails
    \/ RequestCommits
    \/ RequestDies

Spec == Init /\ [][Next]_vars

\* The account is synchronized again and again (SyncDispatch), and a request that has
\* begun comes to its end.
FairSpec ==
    Spec /\ WF_vars(Sync) /\ WF_vars(Push) /\ WF_vars(PushRefused) /\ WF_vars(RequestCommits)

-----------------------------------------------------------------------------
(* Properties.                                                             *)

RowType == [mail : Mails, folder : Labels, is_read : BOOLEAN, is_deleted : BOOLEAN]

RequestType ==
    [step : {"loaded", "pushed"}, op : Operations, to : Labels \union {"nowhere"}, id : Nat, row : RowType]

TypeOK ==
    /\ label \in [Mails -> Labels \union {"none", "gone"}]
    /\ unread \subseteq Mails
    /\ left \subseteq Mails
    /\ rows \in Seq(RowType)
    /\ pc \in {"idle", "next", "ids", "listed", "fetched", "reconciling",
               "counting", "counted", "done"}
    /\ order \in Seq(SyncFolders)
    /\ present \subseteq Mails
    /\ found \subseteq Mails
    /\ \A m \in DOMAIN fetched : m \in Mails /\ fetched[m] \in [is_read : BOOLEAN, is_deleted : BOOLEAN]
    /\ \A i \in DOMAIN stale : i \in Table(mine) /\ stale[i] \in RowType
    /\ count \in Nat
    /\ \A i \in DOMAIN mine : mine[i] \in RowType
    /\ pc = "idle" => mine = Empty
    /\ request # NoRequest => request \in RequestType /\ request.id \in DOMAIN rows
    /\ actions \in 0..MaxActions /\ failures \in 0..MaxFailures

\* A mail that has never left the inbox is never hidden from it: listings that are cut
\* off, mail that arrives between two listings, and requests that fail leave its rows
\* where they are (sync_tasks.py 488-534 asks Gmail before it moves a row).
NothingIsHidden ==
    \A i \in DOMAIN rows :
        rows[i].mail \notin left => rows[i].folder = "inbox" /\ ~rows[i].is_deleted

Shown(m) ==
    \E i \in DOMAIN rows : rows[i].mail = m /\ rows[i].folder = "inbox" /\ ~rows[i].is_deleted

\* A mail that stays among the newest of the inbox is shown there in the end, also if it
\* has been archived or trashed before and came back.
NewestAreShown ==
    \A m \in Mails :
        LET new == m \in Newest(In("inbox") \ Unparsable, FetchLimit) IN new ~> (Shown(m) \/ ~new)

\* A mail that has left the inbox, by whatever client, or that a synchronization has put
\* back into the mirror after the user removed it, is shown there no more in the end -
\* unless the inbox is too long to be listed, or rows of mails that are gone for good,
\* which stay stale, use up every round of questions.
InboxIsTrue ==
    \A m \in Mails :
        (Shown(m) /\ label[m] # "inbox") ~>
            \/ ~Shown(m) \/ label[m] = "inbox"
            \/ Cardinality(In("inbox")) >= ReconcileLimit
            \/ Cardinality({i \in DOMAIN rows : rows[i].folder = "inbox" /\ label[rows[i].mail] = "gone"})
                 >= StaleLimit

\* The rows of a mail in the inbox show whether it is unread in the end, although its
\* count and its listing are two calls (sync_tasks.py 457-485).
FlagsAreShown ==
    \A m \in Mails :
        LET right == \A i \in DOMAIN rows :
                        rows[i].mail = m /\ rows[i].folder = "inbox" => (rows[i].is_read <=> m \notin unread)
        IN ~right ~> (right \/ label[m] # "inbox" \/ Cardinality(In("inbox") \intersect unread) > ReconcileLimit)
=============================================================================
