------------------------------- MODULE Dedupe -------------------------------
(***************************************************************************)
(* The duplicate remover, run_message_dedupe of services/dedupe_service.py,*)
(* as the maintenance endpoint and scripts/dedupe_messages.py run it: in   *)
(* one transaction it reads the whole messages table in the order of       *)
(* creation, deletes every row whose stable key an earlier row has, reads  *)
(* the table again and deletes every row whose fingerprint an earlier row  *)
(* has.  Several runs may overlap, and meanwhile synchronizations insert   *)
(* rows, which become visible in another order than they were created, and *)
(* requests move them.                                                     *)
(***************************************************************************)
EXTENDS Integers, FiniteSets

CONSTANTS
    RowCount,     \* rows that are inserted (bound); a row is its place in the order of creation
    Folders,      \* folders of the account
    Origins,      \* those in which rows are inserted
    ScopeOf,      \* ScopeOf[f]: the type of the folder, or the folder itself
    MessageId,    \* MessageId[r]: the normalized Message-ID, or None
    Uid,          \* Uid[r]: the UID, or None
    Fingerprint,  \* Fingerprint[r]: subject, sender, recipients, dates and preview
    Content,      \* Content[r]: the mail itself
    None,
    Runs,         \* runs of the remover
    Limits,       \* values of max_delete
    NoLimit,      \* max_delete = None
    MaxMoves,     \* bound on requests that move a row
    MaxFailures   \* bound on runs that are rolled back

Rows == 1..RowCount

ASSUME DedupeAssumptions ==
    /\ RowCount \in Nat
    /\ Origins \subseteq Folders
    /\ Limits \subseteq Nat \union {NoLimit}
    /\ NoLimit \notin Nat
    /\ MaxMoves \in Nat
    /\ MaxFailures \in Nat

VARIABLES
    born,      \* rows inserted so far (history)
    live,      \* rows that are in the table
    folder,    \* the folder of each row
    been,      \* the folders it has been in (history)
    pc,        \* where each run is
    doomed,    \* rows a run has decided to delete
    gone,      \* rows its transaction has deleted
    limit,     \* its max_delete
    left,      \* what remains of it
    moves,     \* moves so far
    failures   \* runs rolled back so far

tableVars == <<born, live, folder, been>>
runVars == <<pc, doomed, gone, limit, left>>
vars == <<tableVars, runVars, moves, failures>>

Init ==
    /\ born = {}
    /\ live = {}
    /\ folder \in [Rows -> Origins]
    /\ been = [r \in Rows |-> {folder[r]}]
    /\ pc = [p \in Runs |-> "idle"]
    /\ doomed = [p \in Runs |-> {}]
    /\ gone = [p \in Runs |-> {}]
    /\ limit = [p \in Runs |-> NoLimit]
    /\ left = [p \in Runs |-> NoLimit]
    /\ moves = 0
    /\ failures = 0

-----------------------------------------------------------------------------
(* The others.                                                             *)

\* The transaction that has created the row commits.
Insert(r) ==
    /\ r \notin born
    /\ born' = born \union {r}
    /\ live' = live \union {r}
    /\ UNCHANGED <<folder, been, runVars, moves, failures>>

\* A row a run has deleted is locked until it ends.
Move(r, f) ==
    /\ moves < MaxMoves
    /\ moves' = moves + 1
    /\ r \in live
    /\ \A p \in Runs : r \notin gone[p]
    /\ folder' = [folder EXCEPT ![r] = f]
    /\ been' = [been EXCEPT ![r] = @ \union {f}]
    /\ UNCHANGED <<born, live, runVars, failures>>

-----------------------------------------------------------------------------
(* A run.                                                                  *)

PrintKey(r) == [of |-> "print", scope |-> ScopeOf[folder[r]], value |-> Fingerprint[r]]

\* A faulty variant: the UID in a type of folders, like the Message-ID.
StableKey_UidInType(r) ==
    IF MessageId[r] # None
    THEN [of |-> "mid", scope |-> ScopeOf[folder[r]], value |-> MessageId[r]]
    ELSE IF Uid[r] # None
    THEN [of |-> "uid", scope |-> ScopeOf[folder[r]], value |-> Uid[r]]
    ELSE PrintKey(r)

\* The Message-ID in a type of folders, or else the UID in one folder.
StableKey(r) ==
    IF MessageId[r] # None
    THEN [of |-> "mid", scope |-> ScopeOf[folder[r]], value |-> MessageId[r]]
    ELSE IF Uid[r] # None
    THEN [of |-> "uid", scope |-> folder[r], value |-> Uid[r]]
    ELSE PrintKey(r)

StableKeys == [r \in Rows |-> StableKey(r)]
PrintKeys == [r \in Rows |-> PrintKey(r)]

\* A faulty variant: the rows are read in the order of their last change.
Duplicates_ByChange(S, key) ==
    {r \in S : \E s \in S :
        /\ key[s] = key[r]
        /\ \/ Cardinality(been[s]) < Cardinality(been[r])
           \/ Cardinality(been[s]) = Cardinality(been[r]) /\ s < r}

\* _collect_duplicate_ids: of the rows with one key the first is kept.
Duplicates(S, key) == {r \in S : \E s \in S : s < r /\ key[s] = key[r]}

\* A faulty variant: one too many.
Slice_OneMore(S, n) ==
    IF n = NoLimit THEN S ELSE {r \in S : Cardinality({s \in S : s < r}) <= n}

\* ids[:n]
Slice(S, n) ==
    IF n = NoLimit THEN S ELSE {r \in S : Cardinality({s \in S : s < r}) < n}

\* A run sees what is committed and its own deletions.
Seen(p) == live \ gone[p]

StableScan(p) ==
    /\ pc[p] = "idle"
    /\ \E n \in Limits :
         /\ limit' = [limit EXCEPT ![p] = n]
         /\ left' = [left EXCEPT ![p] = n]
         /\ doomed' = [doomed EXCEPT ![p] = Slice(Duplicates(Seen(p), StableKeys), n)]
    /\ pc' = [pc EXCEPT ![p] = "stable"]
    /\ UNCHANGED <<tableVars, gone, moves, failures>>

\* DELETE ... WHERE id IN (...) waits for runs that have deleted one of the rows; a row
\* that is gone by then is passed over, and counts all the same.
Delete(p) ==
    /\ \A q \in Runs \ {p} : gone[q] \intersect doomed[p] = {}
    /\ gone' = [gone EXCEPT ![p] = @ \union (doomed[p] \intersect live)]
    /\ left' = [left EXCEPT ![p] = IF @ = NoLimit THEN @ ELSE @ - Cardinality(doomed[p])]
    /\ doomed' = [doomed EXCEPT ![p] = {}]
    /\ UNCHANGED <<tableVars, limit, moves, failures>>

StableDelete(p) ==
    /\ pc[p] = "stable"
    /\ Delete(p)
    /\ pc' = [pc EXCEPT ![p] = "again"]

\* Only what is left of the limit is deleted by fingerprint.
PrintScan(p) ==
    /\ pc[p] = "again"
    /\ left[p] # 0
    /\ doomed' = [doomed EXCEPT ![p] = Slice(Duplicates(Seen(p), PrintKeys), left[p])]
    /\ pc' = [pc EXCEPT ![p] = "print"]
    /\ UNCHANGED <<tableVars, gone, limit, left, moves, failures>>

PrintDelete(p) ==
    /\ pc[p] = "print"
    /\ Delete(p)
    /\ pc' = [pc EXCEPT ![p] = "done"]

Ends(p) ==
    /\ pc' = [pc EXCEPT ![p] = "idle"]
    /\ doomed' = [doomed EXCEPT ![p] = {}]
    /\ gone' = [gone EXCEPT ![p] = {}]
    /\ limit' = [limit EXCEPT ![p] = NoLimit]
    /\ left' = [left EXCEPT ![p] = NoLimit]

Commit(p) ==
    /\ pc[p] = "done" \/ (pc[p] = "again" /\ left[p] = 0)
    /\ live' = live \ gone[p]
    /\ Ends(p)
    /\ UNCHANGED <<born, folder, been, moves, failures>>

\* An error, a deadlock of two runs or a crash: the transaction is rolled back.
Fail(p) ==
    /\ pc[p] # "idle"
    /\ failures < MaxFailures
    /\ failures' = failures + 1
    /\ Ends(p)
    /\ UNCHANGED <<tableVars, moves>>

Next ==
    \/ \E r \in Rows : Insert(r)
    \/ \E r \in Rows, f \in Folders : Move(r, f)
    \/ \E p \in Runs : \/ StableScan(p) \/ StableDelete(p) \/ PrintScan(p) \/ PrintDelete(p)
                       \/ Commit(p) \/ Fail(p)

Spec == Init /\ [][Next]_vars

-----------------------------------------------------------------------------
(* Properties.                                                             *)

TypeOK ==
    /\ born \subseteq Rows
    /\ live \subseteq born
    /\ folder \in [Rows -> Folders]
    /\ been \in [Rows -> SUBSET Folders]
    /\ \A r \in Rows : folder[r] \in been[r]
    /\ pc \in [Runs -> {"idle", "stable", "again", "print", "done"}]
    /\ doomed \in [Runs -> SUBSET born]
    /\ gone \in [Runs -> SUBSET born]
    /\ limit \in [Runs -> Limits \union {NoLimit}]
    /\ left \in [Runs -> Nat \union {NoLimit}]
    /\ moves \in Nat
    /\ failures \in Nat

\* Two rows are alike by what both have had: one Message-ID, or one text, in folders of
\* one type, or no Message-ID and one UID in one folder.
OneType(s, r) == \E f \in been[s], g \in been[r] : ScopeOf[f] = ScopeOf[g]

Alike(s, r) ==
    \/ MessageId[s] = MessageId[r] /\ MessageId[r] # None /\ OneType(s, r)
    \/ /\ MessageId[s] = None /\ MessageId[r] = None
       /\ Uid[s] = Uid[r] /\ Uid[r] # None
       /\ been[s] \intersect been[r] # {}
    \/ Fingerprint[s] = Fingerprint[r] /\ OneType(s, r)

\* A row goes only if there was an earlier row like it, whatever is inserted and moved
\* between the reading of a run and its deleting and however many runs there are
\* (dedupe_service.py 52-75, 101-162).
OnlyLaterCopiesGo == \A r \in born \ live : \E s \in born : s < r /\ Alike(s, r)

\* A mail whose rows were never like a row of another mail keeps a row: runs that
\* overlap, and see different rows in different folders, do not delete each other's
\* survivors, because they agree on the order of the rows (dedupe_service.py 96, 131-162).
Mistaken(m) ==
    \E s, q \in born : Content[s] = m /\ Content[q] # m /\ (Alike(s, q) \/ Alike(q, s))

MailsKeepARow ==
    \A r \in born : Mistaken(Content[r]) \/ \E s \in live : Content[s] = Content[r]

\* A run deletes no more than its max_delete, in both passes together, even if it waits
\* for another run that has deleted some of its rows (dedupe_service.py 147-158).
LimitIsKept == \A p \in Runs : limit[p] # NoLimit => Cardinality(gone[p]) <= limit[p]

\* "Remove duplicate synced email rows" (scripts/dedupe_messages.py 17): a mail of which
\* there was a row keeps a row.  The fingerprint has the body of a mail only as far as
\* its preview, and a scheduled draft has none: of two with the same subject and
\* recipients the later is deleted, though it is neither synced nor a duplicate.
OnlyDuplicatesAreRemoved ==
    \A r \in born : \E s \in live : Content[s] = Content[r]
=============================================================================
