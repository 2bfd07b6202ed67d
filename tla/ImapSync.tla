------------------------------ MODULE ImapSync ------------------------------
(***************************************************************************)
(* An IMAP account: the server's folders, the rows that mirror them in the *)
(* messages table, the synchronization (_sync_imap in tasks/sync_tasks.py) *)
(* that fills the mirror, and the users' requests (mark_read, move_email,  *)
(* archive_email, delete_email in api/emails.py) that act on the server    *)
(* first and on the mirror afterwards.  Other mail clients change the      *)
(* server as well.                                                         *)
(*                                                                         *)
(* One synchronization runs at a time: AccountSync shows that the advisory *)
(* lock sees to it.  Its writes are one transaction, visible when it       *)
(* commits; the rows it has updated are locked until then.  A request and  *)
(* a synchronization, though, know nothing of each other.                  *)
(***************************************************************************)
EXTENDS Integers, Sequences, FiniteSets, SequencesExt

CONSTANTS
    Folders,       \* the folders of the account
    MailCount,     \* mails that arrive in the inbox (bound)
    Refused,       \* mails that are quarantined, or whose insertion always raises
    RuleReads,     \* mails a rule marks as read when they come in
    RuleDeletes,   \* mails a rule marks as deleted
    FetchLimit,    \* IMAP_FETCH_LIMIT
    RecentLimit,   \* the newest mails whose flags are fetched again
    StrictModes,   \* whether the account may be one of imap_strict_clamp_accounts
    MaxActions,    \* bound on the users' and other clients' actions
    MaxFailures    \* bound on failing calls, transactions and requests

ASSUME ImapAssumptions ==
    /\ Folders \subseteq {"archive", "inbox", "trash"}
    /\ "inbox" \in Folders
    /\ MailCount \in Nat
    /\ Refused \subseteq 1..MailCount
    /\ RuleReads \subseteq 1..MailCount /\ RuleDeletes \subseteq 1..MailCount
    /\ FetchLimit \in Nat /\ RecentLimit \in 1..FetchLimit
    /\ Cardinality(Refused) < FetchLimit
    /\ StrictModes \subseteq BOOLEAN
    /\ MaxActions \in Nat /\ MaxFailures \in Nat

VARIABLES
    arrived,   \* how many mails have arrived
    box,       \* box[f][uid]: the mail under that UID in the server's folder f
    seen,      \* the mails with the \Seen flag
    deleted,   \* the mails with the \Deleted flag
    removed,   \* whether a mail has left its place in the inbox (history)
    returned,  \* mails that a request has moved into the inbox, or whose rows (history)
    rows,      \* the messages table
    strict,    \* whether the account is synchronized in strict mode
    pc,        \* where the synchronization is
    at,        \* the number of the folder it works on
    listing,   \* what the server answered about its folders
    batches,   \* the requests it has yet to make for the folder
    fetched,   \* what they returned: UID -> mail and flag
    updates,   \* rows its transaction has updated
    inserts,   \* rows its transaction has inserted
    request,   \* the user's request being served
    actions,   \* actions of users and clients so far
    failures   \* failures so far

serverVars == <<arrived, box, seen, deleted, removed, returned>>
syncVars == <<pc, at, listing, batches, fetched, updates, inserts>>
vars == <<serverVars, rows, strict, syncVars, request, actions, failures>>

Mails == 1..MailCount
Gone == 0
When(condition, b) == IF condition THEN <<b>> ELSE <<>>
FolderList ==
    When("archive" \in Folders, "archive") \o <<"inbox">> \o When("trash" \in Folders, "trash")
NoRequest == [step |-> "none"]
Empty == [u \in {} |-> Gone]

Init ==
    /\ arrived = 0
    /\ box = [f \in Folders |-> <<>>]
    /\ seen = {}
    /\ deleted = {}
    /\ removed = FALSE
    /\ returned = {}
    /\ rows = <<>>
    /\ strict \in StrictModes
    /\ pc = "idle"
    /\ at = 1
    /\ listing = Empty
    /\ batches = <<>>
    /\ fetched = Empty
    /\ updates = Empty
    /\ inserts = <<>>
    /\ request = NoRequest
    /\ actions = 0
    /\ failures = 0

-----------------------------------------------------------------------------
(* The server and other clients.                                           *)

\* The UIDs of the mails in a folder; a UID is never used twice.
Uids(f) == {u \in DOMAIN box[f] : box[f][u] # Gone}
Held(f) == {box[f][u] : u \in Uids(f)}

Newest(S, n) == {u \in S : Cardinality({v \in S : v > u}) < n}

MailArrives ==
    /\ arrived < MailCount
    /\ arrived' = arrived + 1
    /\ box' = [box EXCEPT !["inbox"] = Append(@, arrived')]
    /\ UNCHANGED <<seen, deleted, removed, returned, rows, strict, syncVars, request, actions, failures>>

Acting == actions < MaxActions /\ actions' = actions + 1

Toggled(S, m) == IF m \in S THEN S \ {m} ELSE S \union {m}

ClientFlags(m) ==
    /\ Acting
    /\ m \in Held("inbox")
    /\ \/ seen' = Toggled(seen, m) /\ UNCHANGED deleted
       \/ deleted' = Toggled(deleted, m) /\ UNCHANGED seen
    /\ UNCHANGED <<arrived, box, removed, returned, rows, strict, syncVars, request, failures>>

Without(f, u) == [box EXCEPT ![f][u] = Gone]

ClientRemoves(u) ==
    /\ Acting
    /\ u \in Uids("inbox")
    /\ box' = Without("inbox", u)
    /\ removed' = TRUE
    /\ UNCHANGED <<arrived, seen, deleted, returned, rows, strict, syncVars, request, failures>>

-----------------------------------------------------------------------------
(* A synchronization.                                                      *)

Failing == failures < MaxFailures /\ failures' = failures + 1

\* fetch_folders: the number of mails and of unread mails of each folder.  A
\* STATUS that fails counts as an empty folder.
Status(f) == [total |-> Cardinality(Uids(f)), unread |-> Cardinality(Held(f) \ seen)]

ListFolders ==
    /\ pc = "idle"
    /\ \/ /\ listing' = [f \in Folders |-> Status(f)]
          /\ UNCHANGED failures
       \/ \E broken \in Folders :
            /\ Failing
            /\ listing' = [f \in Folders |->
                             IF f = broken THEN [total |-> 0, unread |-> 0] ELSE Status(f)]
    /\ pc' = "planning"
    /\ at' = 1
    /\ UNCHANGED <<serverVars, rows, strict, batches, fetched, updates, inserts, request, actions>>

Folder == FolderList[at]

\* The UIDs the mirror has for the folder: the count is of rows.
RowsIn(f) == {i \in DOMAIN rows : rows[i].folder = f}
LocalUids(f) == {rows[i].uid : i \in RowsIn(f)}
MaxUid(f) == CHOOSE u \in LocalUids(f) : \A v \in LocalUids(f) : v <= u
MinUid(f) == CHOOSE u \in LocalUids(f) : \A v \in LocalUids(f) : u <= v

Since(u) == [kind |-> "since", uid |-> u]
Before(u) == [kind |-> "before", uid |-> u]
All == [kind |-> "all"]
Recent == [kind |-> "recent"]
Missing(S) == [kind |-> "uids", uids |-> S]

Newer(f) == IF RowsIn(f) = {} THEN All ELSE Since(MaxUid(f) + 1)
Older(f) == RowsIn(f) # {} /\ MinUid(f) > 1
MoreThere(f) == listing[f].total > Cardinality(RowsIn(f))

\* The mails the mirror lacks, as many as one request may ask for.
Gaps(f) == Newest(Uids(f) \ LocalUids(f), FetchLimit)

\* Faulty variants: no search for gaps; no second look at flags.
Plan_NoGapScan(f, searched) ==
    <<Newer(f)>> \o When(Older(f) /\ MoreThere(f), Before(MinUid(f)))
                 \o When(listing[f].unread > 0, Recent)

Plan_NoRecent(f, searched) ==
    <<Newer(f)>> \o When(Older(f) /\ MoreThere(f), Before(MinUid(f)))
                 \o When(searched /\ MoreThere(f) /\ Gaps(f) # {}, Missing(Gaps(f)))

\* The requests for a folder; a search for gaps that fails is left out.  In strict mode
\* there is only one.
Plan(f, searched) ==
    IF strict
    THEN <<IF Older(f) THEN Before(MinUid(f)) ELSE Newer(f)>>
    ELSE <<Newer(f)>> \o When(Older(f) /\ MoreThere(f), Before(MinUid(f)))
                      \o When(listing[f].unread > 0, Recent)
                      \o When(searched /\ MoreThere(f) /\ Gaps(f) # {}, Missing(Gaps(f)))

PlanFolder ==
    /\ pc = "planning"
    /\ \/ batches' = Plan(Folder, TRUE) /\ UNCHANGED failures
       \/ batches' = Plan(Folder, FALSE) /\ Failing
    /\ pc' = "fetching"
    /\ UNCHANGED <<serverVars, rows, strict, at, listing, fetched, updates, inserts, request, actions>>

\* UID n:* always matches the last mail of the folder.
Asked(f, b) ==
    CASE b.kind = "since"  -> Newest({u \in Uids(f) : u >= b.uid} \union Newest(Uids(f), 1), FetchLimit)
      [] b.kind = "before" -> Newest({u \in Uids(f) : u < b.uid}, FetchLimit)
      [] b.kind = "all"    -> Newest(Uids(f), FetchLimit)
      [] b.kind = "recent" -> Newest(Uids(f), RecentLimit)
      [] b.kind = "uids"   -> b.uids \intersect Uids(f)

\* _parse_message.
Copy(m) == [mid |-> m, is_read |-> m \in seen, is_deleted |-> m \in deleted]

\* A request may fail, or lose some of the mails; the others are kept.  A mail that
\* was fetched before is not looked at again.
FetchBatch ==
    /\ pc = "fetching"
    /\ batches # <<>>
    /\ \E got \in SUBSET Asked(Folder, Head(batches)) :
         /\ \/ got = Asked(Folder, Head(batches)) /\ UNCHANGED failures
            \/ got # Asked(Folder, Head(batches)) /\ Failing
         /\ fetched' = [u \in DOMAIN fetched \union got |->
                          IF u \in DOMAIN fetched THEN fetched[u]
                          ELSE Copy(box[Folder][u])]
    /\ batches' = Tail(batches)
    /\ UNCHANGED <<serverVars, rows, strict, pc, at, listing, updates, inserts, request, actions>>

\* A faulty variant: rows are looked up by the provider's id, which IMAP mail has not.
Matches_RemoteId(f, u) == {}

\* _find_existing_message: a row of the folder with the Message-ID, or else with the UID.
Matches(f, u) ==
    LET byId == {i \in RowsIn(f) : rows[i].mid = fetched[u].mid} IN
    IF byId # {} THEN byId ELSE {i \in RowsIn(f) : rows[i].uid = u}

\* _mark_folder_read_when_remote_empty, by the count of the listing; rows that count as
\* deleted are passed over.
AllRead(f) == ~strict /\ listing[f].unread = 0

Read(f, row) ==
    IF AllRead(f) /\ row.folder = f /\ ~row.is_deleted THEN [row EXCEPT !.is_read = TRUE] ELSE row

\* _merge_existing_message: the flags are the server's, the UID stays.
Merged(row, copy) == [row EXCEPT !.is_read = copy.is_read, !.is_deleted = copy.is_deleted]

\* A mail may have been fetched under two UIDs, having been moved back in between: only
\* the first makes a row, and the later ones are merged into it.
Again(u) == {v \in DOMAIN fetched : v > u /\ fetched[v].mid = fetched[u].mid}
FirstOfMail(u) == \A v \in DOMAIN fetched : fetched[v].mid = fetched[u].mid => u <= v

\* A new row of the inbox goes through the user's rules, which do not tell the server.
AsInserted(f, u) ==
    [mid |-> fetched[u].mid, folder |-> f, uid |-> u,
     is_read |-> fetched[u].is_read \/ (f = "inbox" /\ fetched[u].mid \in RuleReads),
     is_deleted |-> fetched[u].is_deleted \/ (f = "inbox" /\ fetched[u].mid \in RuleDeletes)]

LastAgain(u) == CHOOSE v \in Again(u) : \A w \in Again(u) : w <= v

NewRow(f, u) ==
    IF Again(u) = {} THEN AsInserted(f, u) ELSE Merged(AsInserted(f, u), fetched[LastAgain(u)])

\* The fetched mails go into the mirror: known ones are merged (the last one wins where
\* two are taken for the same row), new ones are inserted unless that raises.  The order
\* of the new rows is not observed.
MergeFolder ==
    LET f == Folder
        new == {u \in DOMAIN fetched :
                  Matches(f, u) = {} /\ fetched[u].mid \notin Refused /\ FirstOfMail(u)}
        old == {u \in DOMAIN fetched : Matches(f, u) # {}}
    IN
    /\ pc = "fetching"
    /\ batches = <<>>
    /\ \E match \in [old -> DOMAIN rows] :
         /\ \A u \in old : match[u] \in Matches(f, u)
         /\ \E last \in [{match[u] : u \in old} -> old] :
              /\ \A i \in DOMAIN last : match[last[i]] = i
              /\ LET row(i) == IF i \in DOMAIN last
                               THEN Merged(rows[i], fetched[last[i]]) ELSE rows[i]
                     changed == {i \in RowsIn(f) : Read(f, row(i)) # rows[i]}
                 IN
                 updates' = [i \in DOMAIN updates \union changed |->
                               IF i \in changed THEN Read(f, row(i)) ELSE updates[i]]
    /\ inserts' = inserts \o [i \in 1..Cardinality(new) |->
                                Read(f, NewRow(f, SetToSeq(new)[i]))]
    /\ fetched' = Empty
    /\ IF at < Len(FolderList)
       THEN at' = at + 1 /\ pc' = "planning"
       ELSE at' = at /\ pc' = "merged"
    /\ UNCHANGED <<serverVars, rows, strict, listing, batches, request, actions, failures>>

\* A faulty variant: the transaction is left open.
Ended_Open ==
    /\ pc' = "idle"
    /\ at' = 1
    /\ listing' = Empty
    /\ batches' = <<>>
    /\ fetched' = Empty
    /\ UNCHANGED <<updates, inserts>>

\* It holds no row and no lock any more.
Ended ==
    /\ pc' = "idle"
    /\ at' = 1
    /\ listing' = Empty
    /\ batches' = <<>>
    /\ fetched' = Empty
    /\ updates' = Empty
    /\ inserts' = <<>>

Commit ==
    /\ pc = "merged"
    /\ rows' = [i \in DOMAIN rows |-> IF i \in DOMAIN updates THEN updates[i] ELSE rows[i]] \o inserts
    /\ Ended
    /\ UNCHANGED <<serverVars, strict, request, actions, failures>>

\* Any other exception, a commit that fails, or the death of the process: the
\* transaction is rolled back.
SyncFails ==
    /\ pc # "idle"
    /\ Failing
    /\ Ended
    /\ UNCHANGED <<serverVars, rows, strict, request, actions>>

-----------------------------------------------------------------------------
(* A user's request.                                                       *)

Operations == {"read", "unread", "archive", "delete", "move"}

\* Where a request takes its mail.  A move to the trash is a deletion.
Targets(op) ==
    CASE op \in {"read", "unread"} -> {"nowhere"}
      [] op = "archive"            -> {"archive"}
      [] op = "delete"             -> {"trash"}
      [] op = "move"               -> Folders \ {"trash"}

\* The request loads the row; it is not looked at again.
RequestStarts(op, to, i) ==
    /\ request = NoRequest
    /\ Acting
    /\ i \in DOMAIN rows
    /\ request' = [step |-> "loaded", op |-> op, to |-> to, id |-> i, row |-> rows[i]]
    /\ UNCHANGED <<serverVars, rows, strict, syncVars, failures>>

\* What _push_remote_action does to the server: to the mail under the row's UID.  A mail
\* that is moved gets a new UID.
Moved(f, u, to) == [Without(f, u) EXCEPT ![to] = Append(@, box[f][u])]

\* What is marked as deleted goes, whoever has marked it.
Expunged(f, marked) ==
    [box EXCEPT ![f] = [u \in DOMAIN @ |-> IF @[u] \in marked THEN Gone ELSE @[u]]]

\* The mail under a UID, if there is one.
Under(f, u) == {box[f][v] : v \in Uids(f) \intersect {u}}

Flags(f, u) ==
    /\ seen' = IF request.op = "read" THEN seen \union Under(f, u) ELSE seen \ Under(f, u)
    /\ UNCHANGED <<box, deleted, removed>>

Leaves(f, u) ==
    /\ box' = IF u \in Uids(f) THEN Moved(f, u, request.to) ELSE box
    /\ removed' = (removed \/ (f = "inbox" /\ u \in Uids(f)))
    /\ UNCHANGED <<seen, deleted>>

\* Without a trash what is deleted is marked, and the folder is expunged.
Expunges(f, u) ==
    /\ deleted' = deleted \union Under(f, u)
    /\ box' = Expunged(f, deleted')
    /\ removed' = (removed \/ (f = "inbox" /\ box' # box))
    /\ UNCHANGED seen

\* Without an archive nothing is archived.
Pushed ==
    LET f == request.row.folder
        u == request.row.uid
    IN
    /\ \/ request.op \in {"read", "unread"} /\ Flags(f, u)
       \/ request.to \in Folders /\ Leaves(f, u)
       \/ request.op = "archive" /\ request.to \notin Folders /\ UNCHANGED <<box, seen, deleted, removed>>
       \/ request.op = "delete" /\ request.to \notin Folders /\ Expunges(f, u)
    /\ returned' = IF request.to = "inbox"
                   THEN returned \union {request.row.mid} \union Under(f, u) ELSE returned
    /\ UNCHANGED arrived

\* The server marks the mail, and the call to expunge fails.
MarkedOnly ==
    /\ request.op = "delete" /\ "trash" \notin Folders
    /\ deleted' = deleted \union Under(request.row.folder, request.row.uid)
    /\ UNCHANGED <<arrived, box, seen, removed, returned>>

Push ==
    /\ request.step = "loaded"
    /\ Pushed
    /\ request' = [request EXCEPT !.step = "pushed"]
    /\ UNCHANGED <<rows, strict, syncVars, actions, failures>>

\* A faulty variant: an error of the server is not looked at.
PushFails_Ignored ==
    /\ request.step = "loaded"
    /\ Failing
    /\ UNCHANGED serverVars
    /\ request' = [request EXCEPT !.step = "pushed"]
    /\ UNCHANGED <<rows, strict, syncVars, actions>>

\* The call raises, whether the server has done it, half of it, or nothing: the request
\* ends.
PushFails ==
    /\ request.step = "loaded"
    /\ Failing
    /\ Pushed \/ MarkedOnly \/ UNCHANGED serverVars
    /\ request' = NoRequest
    /\ UNCHANGED <<rows, strict, syncVars, actions>>

\* The request's UPDATE has the columns whose value is not the one that was loaded.
Column(loaded, now, value) == IF loaded = value THEN now ELSE value

\* archive_email leaves is_deleted as it is, also of a mail it takes out of the trash.
Answered(now) ==
    LET was == request.row
        there == [now EXCEPT !.folder = IF request.to \in Folders THEN request.to ELSE @]
    IN
    CASE request.op = "read"    -> [now EXCEPT !.is_read = Column(was.is_read, @, TRUE)]
      [] request.op = "unread"  -> [now EXCEPT !.is_read = Column(was.is_read, @, FALSE)]
      [] request.op = "archive" -> there
      [] request.op = "delete"  -> [there EXCEPT !.is_deleted = Column(was.is_deleted, @, TRUE)]
      [] request.op = "move"    -> [there EXCEPT !.is_deleted = Column(was.is_deleted, @, FALSE)]

\* It waits for the synchronization that has updated the row.
RequestCommits ==
    /\ request.step = "pushed"
    /\ request.id \notin DOMAIN updates
    /\ rows' = [rows EXCEPT ![request.id] = Answered(@)]
    /\ request' = NoRequest
    /\ UNCHANGED <<serverVars, strict, syncVars, actions, failures>>

RequestDies ==
    /\ request.step = "pushed"
    /\ Failing
    /\ request' = NoRequest
    /\ UNCHANGED <<serverVars, rows, strict, syncVars, actions>>

-----------------------------------------------------------------------------
Sync == ListFolders \/ PlanFolder \/ FetchBatch \/ MergeFolder \/ Commit

Next ==
    \/ MailArrives
    \/ \E m \in Mails : ClientFlags(m)
    \/ \E u \in DOMAIN box["inbox"] : ClientRemoves(u)
    \/ Sync
    \/ SyncFails
    \/ \E op \in Operations :
         \E to \in Targets(op) : \E i \in DOMAIN rows : RequestStarts(op, to, i)
    \/ Push
    \/ PushFails
    \/ RequestCommits
    \/ RequestDies

Spec == Init /\ [][Next]_vars

\* The account is synchronized again and again (SyncDispatch), and a request that has
\* begun comes to its end.
FairSpec == Spec /\ WF_vars(Sync) /\ WF_vars(Push) /\ WF_vars(RequestCommits)

-----------------------------------------------------------------------------
(* Properties.                                                             *)

RowType == [mid : Mails, folder : Folders, uid : Nat, is_read : BOOLEAN, is_deleted : BOOLEAN]

BatchType ==
    [kind : {"since", "before"}, uid : Nat] \union [kind : {"all", "recent"}]
        \union [kind : {"uids"}, uids : SUBSET Nat]

RequestType ==
    [step : {"loaded", "pushed"}, op : Operations, to : Folders \union {"nowhere", "archive", "trash"},
     id : Nat, row : RowType]

CopyType == [mid : Mails, is_read : BOOLEAN, is_deleted : BOOLEAN]

TypeOK ==
    /\ arrived \in 0..MailCount
    /\ box \in [Folders -> Seq(Mails \union {Gone})]
    /\ seen \subseteq Mails
    /\ deleted \subseteq Mails
    /\ removed \in BOOLEAN
    /\ returned \subseteq Mails
    /\ rows \in Seq(RowType)
    /\ strict \in BOOLEAN
    /\ pc \in {"idle", "planning", "fetching", "merged"}
    /\ at \in 1..Len(FolderList)
    /\ listing \in IF pc = "idle" THEN {Empty} ELSE [Folders -> [total : Nat, unread : Nat]]
    /\ batches \in Seq(BatchType)
    /\ \A u \in DOMAIN fetched : u \in DOMAIN box[Folder] /\ fetched[u] \in CopyType
    /\ \A i \in DOMAIN updates : i \in DOMAIN rows /\ updates[i] \in RowType
    /\ inserts \in Seq(RowType)
    /\ pc = "idle" => updates = Empty /\ inserts = <<>>
    /\ pc # "fetching" => batches = <<>> /\ fetched = Empty
    /\ request # NoRequest => request \in RequestType /\ request.id \in DOMAIN rows
    /\ actions \in 0..MaxActions
    /\ failures \in 0..MaxFailures

\* The mirror of the inbox has a mail twice only if the mail was moved into the inbox,
\* which a synchronization may see before the request changes the row: neither one that is
\* repeated after a failure, nor overlapping requests of its batches (sync_tasks.py
\* 637-645, 718-735), nor a mail that a request has taken away meanwhile doubles a row.
DoublesOnlyByReturn ==
    \A i, j \in RowsIn("inbox") : rows[i].mid = rows[j].mid => i = j \/ rows[i].mid \in returned

\* A mail the mirror shows in the trash or the archive is not in the inbox of the server,
\* unless somebody moves it back there: what is shown was pushed before (emails.py
\* 1158-1172, 1195-1203, 1241-1257), and on the mail the row is about.
MovedAtTheServer ==
    \A i \in DOMAIN rows :
        rows[i].folder # "inbox" => rows[i].mid \notin Held("inbox") \ returned

\* The UID of a row is a remote identifier (models/message.py 26-27): the server's mail
\* under that UID in the row's folder, if there is one, is the mail of the row.  A move
\* or a deletion changes the folder of a row and leaves it the UID of the old one, so
\* this does not hold: the next request on the row acts on another mail.
UidIsTheRowsMail ==
    \A f \in Folders : \A i \in RowsIn(f) :
        rows[i].uid \in Uids(f) => box[f][rows[i].uid] = rows[i].mid

\* Every mail of the inbox reaches the mirror, although requests lose mails, more arrive
\* than one fetch takes, and synchronizations fail: the gap is found (sync_tasks.py
\* 646-669).  This needs the count of rows to be that of the server: once a mail has
\* left the inbox, rows nobody removes can hide a gap.
InboxIsMirrored ==
    []<>(\A m \in Held("inbox") \ Refused :
           strict \/ removed \/ \E i \in RowsIn("inbox") : rows[i].mid = m)

\* The flag of a mail among the newest of the inbox is shown as the server has it in the
\* end, whatever users, clients and synchronizations do at once (sync_tasks.py 644-645,
\* 408-423).  A row that counts as deleted is not listed in the inbox (emails.py 772-778)
\* and stays as it is while nothing is unread, and a mail that was moved into the inbox
\* may have a second row, which nobody looks at again.
FlagIsShown(m) ==
    \A i \in RowsIn("inbox") :
        rows[i].mid = m /\ ~rows[i].is_deleted => (rows[i].is_read <=> m \in seen)

IsRecent(m) == \E u \in Newest(Uids("inbox"), RecentLimit) : box["inbox"][u] = m

FlagsAreShown ==
    []<>(\A m \in Mails : strict \/ FlagIsShown(m) \/ ~IsRecent(m) \/ m \in returned)
=============================================================================
