---------------------------- MODULE OutlookSync ----------------------------
(***************************************************************************)
(* An Outlook account: the mails Microsoft Graph has, the rows that mirror *)
(* them, the synchronization (_sync_outlook of tasks/sync_tasks.py) and    *)
(* the users' requests of api/emails.py.  Graph names a mail by an id that *)
(* changes whenever the mail is moved: a request that moves it stores the  *)
(* new id, anyone else's move leaves the row with an id Graph no longer    *)
(* knows.  The synchronization lists the newest mails of each folder and   *)
(* adds or updates rows of that folder; unlike Gmail's it never moves or   *)
(* removes one.                                                            *)
(*                                                                         *)
(* One synchronization runs at a time, in one transaction (AccountSync).   *)
(* An id is the number of moves its mail has made; a Message-ID is the     *)
(* mail, and two mails do not look alike.                                  *)
(* The folders are archive, inbox and trash, flags are is_read: the others *)
(* are more of the same.                                                   *)
(***************************************************************************)
EXTENDS Integers, Sequences, FiniteSets

CONSTANTS
    MailCount,     \* mails that arrive (bound); a later mail is newer
    FetchLimit,    \* OUTLOOK_FETCH_LIMIT
    MaxActions,    \* bound on what users and other clients do
    MaxFailures    \* bound on calls that fail and processes that die

ASSUME OutlookAssumptions ==
    /\ MailCount \in Nat
    /\ FetchLimit \in Nat \ {0}
    /\ MaxActions \in Nat
    /\ MaxFailures \in Nat

VARIABLES
    place,     \* where Graph has each mail
    gen,       \* its id there
    unread,    \* the mails that are not read there
    excused,   \* mails that another client moved, whose answer was lost, or that a
               \* request moved during a synchronization (history)
    brought,   \* where requests have moved mails (history)
    rows,      \* the messages table
    order,     \* the folders a synchronization has yet to do
    fetched,   \* the listing it has of the first of them
    listed,    \* whether it has that listing
    mine,      \* the rows its transaction has written
    late,      \* the one its session writes before its next query
    request,   \* the user's request being served
    actions,   \* actions of users and other clients so far
    failures   \* failures so far

graphVars == <<place, gen, unread>>
history == <<excused, brought>>
syncVars == <<order, fetched, listed, mine, late>>
events == <<actions, failures>>
vars == <<graphVars, history, rows, syncVars, request, events>>

Mails == 1..MailCount
Folders == {"archive", "inbox", "trash"}
NoRequest == [step |-> "none"]
Empty == [u \in {} |-> 0]
Syncing == order # <<>>

Init ==
    /\ place = [m \in Mails |-> "none"]
    /\ gen = [m \in Mails |-> 0]
    /\ unread = {}
    /\ excused = {}
    /\ brought = {}
    /\ rows = <<>>
    /\ order = <<>>
    /\ fetched = Empty
    /\ listed = FALSE
    /\ mine = Empty
    /\ late = Empty
    /\ request = NoRequest
    /\ actions = 0
    /\ failures = 0

-----------------------------------------------------------------------------
(* Graph and other clients.                                                *)

In(f) == {m \in Mails : place[m] = f}
Newest(S, n) == {m \in S : Cardinality({k \in S : k > m}) < n}
Arrived == Cardinality({m \in Mails : place[m] # "none"})
Acting == actions < MaxActions /\ actions' = actions + 1 /\ UNCHANGED failures
Failing == failures < MaxFailures /\ failures' = failures + 1 /\ UNCHANGED actions

MailArrives ==
    /\ Arrived < MailCount
    /\ place' = [place EXCEPT ![Arrived + 1] = "inbox"]
    /\ unread' = unread \union {Arrived + 1}
    /\ UNCHANGED <<gen, history, rows, syncVars, request, events>>

ClientReads(m) ==
    /\ Acting
    /\ m \in unread
    /\ unread' = unread \ {m}
    /\ UNCHANGED <<place, gen, history, rows, syncVars, request>>

Moves(m, f) ==
    /\ place' = [place EXCEPT ![m] = f]
    /\ gen' = [gen EXCEPT ![m] = @ + 1]
    /\ UNCHANGED unread

ClientMoves(m, f) ==
    /\ Acting
    /\ place[m] \in Folders \ {f}
    /\ Moves(m, f)
    /\ excused' = excused \union {m}
    /\ UNCHANGED <<brought, rows, syncVars, request>>

-----------------------------------------------------------------------------
(* A synchronization.                                                      *)

Table(own) == DOMAIN rows \union DOMAIN own
Row(own, i) == IF i \in DOMAIN own THEN own[i] ELSE rows[i]

Operations == {"read", "unread", "delete", "archive", "restore"}

\* Where a request moves the mail: delete_email, and move_email to the trash, delete
\* it; archive_email and move_email move it.
Destination(op) == CASE op = "delete" -> "trash" [] op = "archive" -> "archive" [] op = "restore" -> "inbox"
Moving(op) == op \in {"delete", "archive", "restore"}

\* The mail a request that has begun is to move.
InFlight == IF request # NoRequest /\ Moving(request.op) THEN {request.row.mail} ELSE {}

\* _select_sync_folders has one folder of each type, sorted by type.
Begin ==
    /\ ~Syncing
    /\ order' = <<"archive", "inbox", "trash">>
    /\ excused' = excused \union InFlight
    /\ UNCHANGED <<graphVars, brought, rows, fetched, listed, mine, late, request, events>>

\* list_messages: one page, the newest mails of the folder.
ListMails ==
    /\ Syncing
    /\ ~listed
    /\ Head(order) \in Folders
    /\ fetched' = [m \in Newest(In(Head(order)), FetchLimit) |->
                     [id |-> gen[m], is_read |-> m \notin unread]]
    /\ listed' = TRUE
    /\ UNCHANGED <<graphVars, history, rows, order, mine, late, request, events>>

\* The transaction once the session has flushed.
Flushed ==
    [i \in DOMAIN mine \union DOMAIN late |->
       IF i \in DOMAIN late THEN [Row(mine, i) EXCEPT !.is_read = late[i]] ELSE mine[i]]

\* A faulty variant: without the second lookup, by Message-ID.
Existing_ById(own, f, m) ==
    {i \in Table(own) : /\ Row(own, i).folder = f
                        /\ Row(own, i).mail = m
                        /\ Row(own, i).id = fetched[m].id}

\* A faulty variant: the row may be in any folder of the account.
Existing_AnyFolder(own, f, m) == {i \in Table(own) : Row(own, i).mail = m}

\* _find_existing_message: a row of the folder by the id, or else by the Message-ID.
Existing(own, f, m) ==
    LET here == {i \in Table(own) : Row(own, i).folder = f /\ Row(own, i).mail = m}
        same == {i \in here : Row(own, i).id = fetched[m].id}
    IN IF same # {} THEN same ELSE here

NewRow(f, m) ==
    [mail |-> m, folder |-> f, id |-> fetched[m].id, is_read |-> fetched[m].is_read]

\* _merge_existing_message keeps the id a row has.  The session writes what differs
\* with its next query: the row of the last mail after the next listing.
MergeFolder ==
    LET f == Head(order)
        own == Flushed
        old == {m \in DOMAIN fetched : Existing(own, f, m) # {}}
        new == DOMAIN fetched \ old
        Place(m) == Cardinality(Table(own)) + Cardinality({k \in new : k >= m})
        last == {m \in DOMAIN fetched : \A k \in DOMAIN fetched : m <= k}
    IN
    /\ Syncing
    /\ listed
    /\ \E row \in [old -> Table(own)] :
         /\ \A m \in old : row[m] \in Existing(own, f, m)
         /\ LET differs == {m \in old : Row(own, row[m]).is_read # fetched[m].is_read}
                Of(i) == CHOOSE m \in DOMAIN fetched : IF m \in old THEN row[m] = i ELSE Place(m) = i
                written == {row[m] : m \in differs \ last}
                added == {Place(m) : m \in new}
            IN
            /\ mine' = [i \in DOMAIN own \union written \union added |->
                          IF i \in written THEN [Row(own, i) EXCEPT !.is_read = fetched[Of(i)].is_read]
                          ELSE IF i \in added THEN NewRow(f, Of(i)) ELSE own[i]]
            /\ late' = [i \in {row[m] : m \in differs \intersect last} |-> fetched[Of(i)].is_read]
    /\ fetched' = Empty
    /\ listed' = FALSE
    /\ order' = IF Len(order) > 1 THEN Tail(order) ELSE <<"done">>
    /\ UNCHANGED <<graphVars, history, rows, request, events>>

\* A faulty variant: the transaction is left open.
Ended_Open ==
    /\ order' = <<>>
    /\ fetched' = Empty
    /\ listed' = FALSE
    /\ UNCHANGED <<mine, late>>

Ended ==
    /\ order' = <<>>
    /\ fetched' = Empty
    /\ listed' = FALSE
    /\ mine' = Empty
    /\ late' = Empty

Commit ==
    /\ order = <<"done">>
    /\ rows' = [i \in 1..Cardinality(Table(mine)) |-> Row(Flushed, i)]
    /\ Ended
    /\ UNCHANGED <<graphVars, history, request, events>>

\* Any exception, and the death of the process: nothing is kept.
SyncFails ==
    /\ Syncing
    /\ Failing
    /\ Ended
    /\ UNCHANGED <<graphVars, history, rows, request>>

-----------------------------------------------------------------------------
(* A user's request.                                                       *)

RequestStarts(op, i) ==
    /\ request = NoRequest
    /\ Acting
    /\ i \in DOMAIN rows
    /\ request' = [step |-> "loaded", op |-> op, at |-> i, row |-> rows[i], id |-> rows[i].id]
    /\ UNCHANGED <<graphVars, history, rows, syncVars>>

\* Graph knows the id the row has.
Known == request.row.id = gen[request.row.mail] /\ place[request.row.mail] # "gone"

\* Graph deletes a mail of the trash for good, and others into the trash.
Pushed ==
    LET m == request.row.mail
        op == request.op
    IN
    /\ Known
    /\ CASE op = "read"   -> unread' = unread \ {m} /\ UNCHANGED <<place, gen>>
         [] op = "unread" -> unread' = unread \union {m} /\ UNCHANGED <<place, gen>>
         [] Moving(op)    -> Moves(m, IF op = "delete" /\ place[m] = "trash" THEN "gone"
                                      ELSE Destination(op))

Overlapping == excused' = IF Syncing THEN excused \union InFlight ELSE excused

\* A faulty variant: the id the move returns is not stored.
NewId_Dropped == request.row.id

\* move_message returns the new id, delete_message does not.
NewId == IF request.op \in {"archive", "restore"} THEN gen'[request.row.mail] ELSE request.row.id

Push ==
    /\ request.step = "loaded"
    /\ Pushed
    /\ Overlapping
    /\ request' = [request EXCEPT !.step = "pushed", !.id = NewId]
    /\ UNCHANGED <<brought, rows, syncVars, events>>

\* Graph does not know the id any more: the request ends with an error.
PushRefused ==
    /\ request.step = "loaded"
    /\ ~Known
    /\ request' = NoRequest
    /\ UNCHANGED <<graphVars, history, rows, syncVars, events>>

\* The call raises, whether Graph has done it or not.
PushFails ==
    /\ request.step = "loaded"
    /\ Failing
    /\ Pushed \/ UNCHANGED graphVars
    /\ request' = NoRequest
    /\ excused' = excused \union InFlight
    /\ UNCHANGED <<brought, rows, syncVars>>

\* The request's UPDATE has the columns that differ from what it has loaded.
Answered(now) ==
    LET was == request.row
        op == request.op
    IN
    IF Moving(op)
    THEN [now EXCEPT !.folder = IF was.folder = Destination(op) THEN @ ELSE Destination(op),
                     !.id = IF was.id = request.id THEN @ ELSE request.id]
    ELSE IF was.is_read = (op = "read") THEN now ELSE [now EXCEPT !.is_read = (op = "read")]

\* It waits for the synchronization that has written the row.
RequestCommits ==
    /\ request.step = "pushed"
    /\ request.at \notin DOMAIN mine
    /\ rows' = [rows EXCEPT ![request.at] = Answered(@)]
    /\ brought' = IF Moving(request.op)
                  THEN brought \union {<<request.row.mail, Destination(request.op)>>} ELSE brought
    /\ Overlapping
    /\ request' = NoRequest
    /\ UNCHANGED <<graphVars, syncVars, events>>

\* The process dies, or the commit fails, after Graph has moved the mail.
RequestDies ==
    /\ request.step = "pushed"
    /\ Failing
    /\ request' = NoRequest
    /\ excused' = excused \union InFlight
    /\ UNCHANGED <<graphVars, brought, rows, syncVars>>

-----------------------------------------------------------------------------
Sync == Begin \/ ListMails \/ MergeFolder \/ Commit

Next ==
    \/ MailArrives
    \/ \E m \in Mails : ClientReads(m) \/ \E f \in Folders \union {"gone"} : ClientMoves(m, f)
    \/ Sync
    \/ SyncFails
    \/ \E op \in Operations : \E i \in DOMAIN rows : RequestStarts(op, i)
    \/ Push
    \/ PushRefused
    \/ PushFails
    \/ RequestCommits
    \/ RequestDies

Spec == Init /\ [][Next]_vars

\* The account is synchronized again and again (SyncDispatch), and a request that has
\* begun comes to its end.
FairSpec == Spec /\ WF_vars(Sync) /\ WF_vars(Push \/ PushRefused \/ RequestCommits)

-----------------------------------------------------------------------------
(* Properties.                                                             *)

RowType == [mail : Mails, folder : Folders, id : Nat, is_read : BOOLEAN]
RequestType == [step : {"loaded", "pushed"}, op : Operations, at : Nat, row : RowType, id : Nat]

TypeOK ==
    /\ place \in [Mails -> Folders \union {"none", "gone"}]
    /\ gen \in [Mails -> Nat]
    /\ unread \subseteq Mails
    /\ rows \in Seq(RowType)
    /\ order \in Seq(Folders \union {"done"})
    /\ \A m \in DOMAIN fetched : m \in Mails /\ fetched[m] \in [id : Nat, is_read : BOOLEAN]
    /\ \A i \in DOMAIN mine : mine[i] \in RowType
    /\ \A i \in DOMAIN late : i \in Table(mine) /\ late[i] \in BOOLEAN
    /\ Syncing \/ (mine = Empty /\ late = Empty /\ ~listed)
    /\ request # NoRequest => request \in RequestType /\ request.at \in DOMAIN rows
    /\ actions \in 0..MaxActions /\ failures \in 0..MaxFailures

\* A mail has two rows in one folder only if a request moved it there: mails that other
\* clients move out and back, under a new id each time, find their row again by the
\* Message-ID (sync_tasks.py 173-192), whatever fails and whatever a request does with
\* the row meanwhile.
DoublesOnlyByMoves ==
    \A i, j \in DOMAIN rows :
        i # j /\ rows[i].mail = rows[j].mail /\ rows[i].folder = rows[j].folder
            => <<rows[i].mail, rows[i].folder>> \in brought

\* As long as no other client moves a mail, no answer is lost and no move overlaps a
\* synchronization, the mail has one row, which is in its folder and, unless it was
\* deleted, has the id by which Graph knows it: the next request will not be refused
\* (emails.py 171-200).
RowsAreInStep ==
    \A i \in DOMAIN rows :
        LET m == rows[i].mail IN
        m \notin excused /\ m \notin InFlight =>
            /\ rows[i].folder = place[m] \/ (rows[i].folder = "trash" /\ place[m] = "gone")
            /\ rows[i].folder = "trash" \/ rows[i].id = gen[m]
            /\ \A j \in DOMAIN rows : rows[j].mail = m => j = i

\* A mail that stays among the newest of the inbox is shown there in the end, read or
\* unread as it is, also if it was away under another id.
NewestAreShown ==
    \A m \in Mails :
        LET new == m \in Newest(In("inbox"), FetchLimit)
            shown == \E i \in DOMAIN rows : /\ rows[i].mail = m
                                            /\ rows[i].folder = "inbox"
                                            /\ rows[i].is_read <=> m \notin unread
        IN (new /\ ~shown) ~> (shown \/ ~new)
=============================================================================
