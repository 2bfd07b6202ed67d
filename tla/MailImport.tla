----------------------------- MODULE MailImport -----------------------------
(***************************************************************************)
(* The import of a desktop client's mails into an IMAP account             *)
(* (api/maintenance.py): batches of mails, each a transaction that looks   *)
(* up a folder and a row for every mail and makes the row the mail's,      *)
(* beside the synchronization, the requests that move mails, and other     *)
(* batches.                                                                *)
(*                                                                         *)
(* The server gives a mail a new UID in every folder it is moved to, and a *)
(* request that moves it leaves the UID of its row.  A mail's Message-ID   *)
(* and the id the desktop client has for it are the mail; two mails look   *)
(* alike if subject, sender and second are the same.  Bodies, addresses,   *)
(* flags and the counts at the end of a batch are left out.                *)
(***************************************************************************)
EXTENDS Integers, Sequences, FiniteSets

CONSTANTS
    Mailbox,       \* mails: 1..Mailbox
    Start,         \* the folder each mail is in at first
    NoMessageId,   \* the mails that have no Message-ID
    Look,          \* what each mail looks like
    KeySets,       \* what a batch may tell of its mails: "uid", "message_id", "remote_id"
    Importers,     \* batches served at one time
    MaxBatch,      \* bound on the mails of a batch
    MaxBatches,    \* bound on the batches
    MaxMoves,      \* bound on the moves
    MaxSynced      \* bound on the mails the synchronization looks at

Imported == 1..Mailbox
Names == {"inbox", "trash"}

ASSUME ImportAssumptions ==
    /\ Mailbox \in Nat
    /\ Start \in [Imported -> Names]
    /\ NoMessageId \subseteq Imported
    /\ DOMAIN Look = Imported
    /\ KeySets \subseteq SUBSET {"uid", "message_id", "remote_id"}
    /\ MaxBatch \in Nat /\ MaxBatches \in Nat /\ MaxMoves \in Nat /\ MaxSynced \in Nat

VARIABLES
    at,         \* the server's folder and UID of each mail
    uidnext,    \* the next UID of each folder there
    folders,    \* how many rows the folders table has for each name
    rows,       \* the messages table
    batch,      \* the transaction of each batch
    kept,       \* mails that have had a row (history)
    excused,    \* mails that were moved, or were written over another's row (history)
    spent       \* batches, moves and synchronized mails so far

serverVars == <<at, uidnext>>
importHistory == <<kept, excused>>
importVars == <<serverVars, folders, rows, batch, importHistory, spent>>

NoHit == <<"none", 0>>
NoRows == [i \in {} |-> 0]
NoBatch == [step |-> "none", mine |-> NoRows]
NoRow == [mid |-> 0, rid |-> 0]

ImportInit ==
    /\ at = [m \in Imported |->
               [name |-> Start[m], uid |-> Cardinality({k \in 1..m : Start[k] = Start[m]})]]
    /\ uidnext = [n \in Names |-> 1 + Cardinality({m \in Imported : Start[m] = n})]
    /\ folders = [n \in Names |-> 0]
    /\ rows = <<>>
    /\ batch = [b \in Importers |-> NoBatch]
    /\ kept = {}
    /\ excused = {}
    /\ spent = [batches |-> 0, moves |-> 0, synced |-> 0]

Spends(what, most) == spent[what] < most /\ spent' = [spent EXCEPT ![what] = @ + 1]

MessageId(m) == IF m \in NoMessageId THEN 0 ELSE m
MailsOf(table) == {table[i].mail : i \in DOMAIN table}

-----------------------------------------------------------------------------
(* A batch.  It has the mails yet to do with where they were when the      *)
(* client sent it, the folder rows it has made, the rows it has written,   *)
(* the rows it has added, and the row it has found last: where it is, and  *)
(* as the session has it, which does not look at it again.                 *)

\* import_mailspring_messages begins with a batch of mails.
BatchStarts(b, mails, keys) ==
    /\ batch[b] = NoBatch
    /\ Spends("batches", MaxBatches)
    /\ batch' = [batch EXCEPT ![b] =
                   [step |-> "find", keys |-> keys, made |-> {}, mine |-> NoRows, new |-> <<>>,
                    hit |-> NoHit, was |-> NoRow,
                    todo |-> [k \in DOMAIN mails |->
                                [mail |-> mails[k], name |-> at[mails[k]].name, uid |-> at[mails[k]].uid]]]]
    /\ UNCHANGED <<serverVars, folders, rows, importHistory>>

\* A folder is its name and which row of that name it is; 0 is the batch's own.
FoldersOf(s, n) == folders[n] + Cardinality(s.made \intersect {n})
FolderOf(s, n) == <<n, IF n \in s.made THEN 0 ELSE 1>>

\* The rows a batch sees: those of the table, some of which it has written, and its own.
InView(s) == ({"table"} \X DOMAIN rows) \union ({"own"} \X DOMAIN s.new)
Viewed(s, h) ==
    IF h[1] = "own" THEN s.new[h[2]] ELSE IF h[2] \in DOMAIN s.mine THEN s.mine[h[2]] ELSE rows[h[2]]

Agrees(s, item, row, key) ==
    CASE key = 1 -> "uid" \in s.keys /\ row.uid = item.uid
      [] key = 2 -> "message_id" \in s.keys /\ row.mid = MessageId(item.mail) /\ row.mid # 0
      [] key = 3 -> "remote_id" \in s.keys /\ row.rid = item.mail
      [] key = 4 -> Look[row.mail] = Look[item.mail]

\* A faulty variant: the row may be in any folder of the account.
Matching_AnyFolder(s, item, key) == {h \in InView(s) : Agrees(s, item, Viewed(s, h), key)}

\* The rows of the folder that agree with the mail: in UID, Message-ID, the client's id,
\* or looks.
Matching(s, item, key) ==
    {h \in InView(s) : /\ Viewed(s, h).folder = FolderOf(s, item.name)
                       /\ Agrees(s, item, Viewed(s, h), key)}

\* _find_existing_import_message: the rows of the first kind of agreement there is.
Candidates(s, item) ==
    UNION {Matching(s, item, key) : key \in {k \in 1..4 : \A j \in 1..k - 1 : Matching(s, item, j) = {}}}

\* A mail without any id is skipped.
Skips(b) ==
    /\ batch[b].step = "find"
    /\ batch[b].todo # <<>>
    /\ batch[b].keys = {}
    /\ batch' = [batch EXCEPT ![b].todo = Tail(@)]
    /\ UNCHANGED <<serverVars, folders, rows, importHistory, spent>>

Holds(b, s, h, row) == batch' = [batch EXCEPT ![b] = [s EXCEPT !.step = "write", !.hit = h, !.was = row]]

\* _get_or_create_mailspring_folder and the lookup.  Between two folders, or two rows,
\* there is no choice: scalar_one_or_none raises (BatchFails).  The row that was found for
\* the mail before is still in hand, and stays as the session has it.
Finds(b) ==
    LET item == Head(batch[b].todo)
        s == [batch[b] EXCEPT !.made = IF FoldersOf(batch[b], item.name) = 0 THEN @ \union {item.name} ELSE @]
        found == Candidates(s, item)
    IN
    /\ batch[b].step = "find"
    /\ batch[b].todo # <<>>
    /\ batch[b].keys # {}
    /\ FoldersOf(s, item.name) = 1
    /\ Cardinality(found) <= 1
    /\ \/ found = {} /\ Holds(b, s, NoHit, NoRow)
       \/ s.hit \in found /\ Holds(b, s, s.hit, s.was)
       \/ \E h \in found \ {s.hit} : Holds(b, s, h, Viewed(s, h))
    /\ UNCHANGED <<serverVars, folders, rows, importHistory, spent>>

\* Nobody else holds the lock of a row.
Unlocked(b, i) == \A d \in Importers \ {b} : i \notin DOMAIN batch[d].mine

\* _apply_import_payload: all of the row becomes the mail's; a Message-ID and an id of the
\* client stay if the mail has none, a UID does not.
Applied(s, item, row) ==
    [mail   |-> item.mail,
     folder |-> FolderOf(s, item.name),
     uid    |-> IF "uid" \in s.keys THEN item.uid ELSE 0,
     mid    |-> IF "message_id" \in s.keys /\ MessageId(item.mail) # 0 THEN MessageId(item.mail) ELSE row.mid,
     rid    |-> IF "remote_id" \in s.keys THEN item.mail ELSE row.rid]

Excused(item, row, now) == IF row.mail # now.mail THEN excused \union {item.mail} ELSE excused

\* The UPDATE has the columns whose value is not the one that was loaded; after a wait it
\* writes over the row as it is then.
Column(loaded, now, value) == IF loaded = value THEN now ELSE value

Updated(was, new, now) ==
    [mail   |-> Column(was.mail, now.mail, new.mail),
     folder |-> Column(was.folder, now.folder, new.folder),
     uid    |-> Column(was.uid, now.uid, new.uid),
     mid    |-> Column(was.mid, now.mid, new.mid),
     rid    |-> Column(was.rid, now.rid, new.rid)]

\* The flush before the next lookup, or at the end.
Writes(b) ==
    LET s == batch[b]
        item == Head(s.todo)
        new == Applied(s, item, s.was)
        now == Viewed(s, s.hit)
        row == Updated(s.was, new, now)
        done == [s EXCEPT !.step = "find", !.todo = Tail(@)]
        held == [done EXCEPT !.was = new]
    IN
    /\ s.step = "write"
    /\ \/ /\ s.hit = NoHit
          /\ batch' = [batch EXCEPT ![b] = [done EXCEPT !.new = Append(@, new)]]
          /\ UNCHANGED excused
       \/ /\ s.hit[1] = "own"
          /\ batch' = [batch EXCEPT ![b] = [held EXCEPT !.new[s.hit[2]] = row]]
          /\ excused' = Excused(item, row, now)
       \/ /\ s.hit[1] = "table"
          /\ Unlocked(b, s.hit[2])
          /\ batch' = [batch EXCEPT ![b] = [held EXCEPT !.mine =
                         [i \in DOMAIN @ \union {s.hit[2]} |-> IF i = s.hit[2] THEN row ELSE @[i]]]]
          /\ excused' = Excused(item, row, now)
    /\ UNCHANGED <<serverVars, folders, rows, kept, spent>>

\* The rows of a folder the batch has made get that folder.
Filed(row) == [row EXCEPT !.folder = IF @[2] = 0 THEN <<@[1], folders[@[1]] + 1>> ELSE @]

Stored(table) == rows' = table /\ kept' = kept \union MailsOf(table)

BatchCommits(b) ==
    LET s == batch[b] IN
    /\ s.step = "find"
    /\ s.todo = <<>>
    /\ Stored([i \in DOMAIN rows |-> IF i \in DOMAIN s.mine THEN Filed(s.mine[i]) ELSE rows[i]]
                \o [k \in DOMAIN s.new |-> Filed(s.new[k])])
    /\ folders' = [n \in Names |-> IF n \in s.made THEN folders[n] + 1 ELSE folders[n]]
    /\ batch' = [batch EXCEPT ![b] = NoBatch]
    /\ UNCHANGED <<serverVars, excused, spent>>

\* An exception, a deadlock that PostgreSQL ends, a death: nothing of the batch is kept.
BatchFails(b) ==
    /\ batch[b] # NoBatch
    /\ batch' = [batch EXCEPT ![b] = NoBatch]
    /\ UNCHANGED <<serverVars, folders, rows, importHistory, spent>>

-----------------------------------------------------------------------------
(* The others.                                                             *)

\* A request, or another client, moves a mail at the server.
MovesThere(m, n) ==
    /\ at[m].name # n
    /\ at' = [at EXCEPT ![m] = [name |-> n, uid |-> uidnext[n]]]
    /\ uidnext' = [uidnext EXCEPT ![n] = @ + 1]

\* move_email, delete_email: the row goes with it and keeps its UID.
RequestMoves(i, n) ==
    LET m == rows[i].mail IN
    /\ Spends("moves", MaxMoves)
    /\ rows[i].folder[1] # n
    /\ folders[n] = 1
    /\ \A b \in Importers : i \notin DOMAIN batch[b].mine
    /\ MovesThere(m, n) \/ (at[m].name = n /\ UNCHANGED serverVars)
    /\ rows' = [rows EXCEPT ![i].folder = <<n, 1>>]
    /\ excused' = excused \union {m}
    /\ UNCHANGED <<folders, batch, kept>>

ClientMoves(m, n) ==
    /\ Spends("moves", MaxMoves)
    /\ MovesThere(m, n)
    /\ UNCHANGED <<folders, rows, batch, importHistory>>

\* The synchronization stores a mail it does not find by Message-ID, UID or looks, in a
\* folder it makes if there is none.
Synchronizes(m) ==
    LET n == at[m].name
        Same(row) == row.uid = at[m].uid \/ (row.mid = m /\ m \notin NoMessageId) \/ Look[row.mail] = Look[m]
    IN
    /\ Spends("synced", MaxSynced)
    /\ ~\E i \in DOMAIN rows : rows[i].folder = <<n, 1>> /\ Same(rows[i])
    /\ Stored(Append(rows, [mail |-> m, folder |-> <<n, 1>>, uid |-> at[m].uid, mid |-> MessageId(m), rid |-> 0]))
    /\ folders' = [folders EXCEPT ![n] = IF @ = 0 THEN 1 ELSE @]
    /\ UNCHANGED <<serverVars, batch, excused>>

-----------------------------------------------------------------------------
Batch(b) == Skips(b) \/ Finds(b) \/ Writes(b) \/ BatchCommits(b) \/ BatchFails(b)

Batches == UNION {[1..n -> Imported] : n \in 1..MaxBatch}

ImportNext ==
    \/ \E b \in Importers :
         Batch(b) \/ \E mails \in Batches : \E keys \in KeySets : BatchStarts(b, mails, keys)
    \/ \E n \in Names :
         (\E i \in DOMAIN rows : RequestMoves(i, n)) \/ \E m \in Imported : ClientMoves(m, n)
    \/ \E m \in Imported : Synchronizes(m)

ImportSpec == ImportInit /\ [][ImportNext]_importVars

-----------------------------------------------------------------------------
(* Properties.                                                             *)

FolderType == Names \X Nat
RowType == [mail : Imported, folder : FolderType, uid : Nat, mid : Nat, rid : Nat]

BatchType(s) ==
    /\ s.step \in {"find", "write"}
    /\ s.made \subseteq Names
    /\ DOMAIN s.mine \subseteq DOMAIN rows /\ \A i \in DOMAIN s.mine : s.mine[i] \in RowType
    /\ s.new \in Seq(RowType)
    /\ s.hit \in InView(s) \union {NoHit} /\ s.was \in RowType \union {NoRow}

\* Every row is of a folder the table has.
ImportTypeOK ==
    /\ at \in [Imported -> [name : Names, uid : Nat \ {0}]]
    /\ uidnext \in [Names -> Nat \ {0}]
    /\ folders \in [Names -> Nat]
    /\ rows \in Seq(RowType)
    /\ \A i \in DOMAIN rows : rows[i].folder[2] \in 1..folders[rows[i].folder[1]]
    /\ DOMAIN batch = Importers
    /\ \A b \in Importers : batch[b] = NoBatch \/ BatchType(batch[b])
    /\ kept \union excused \subseteq Imported

\* A mail that has a row keeps one, whichever batches overlap, fail and are sent again,
\* unless a request has moved it (its row has a UID of another folder, and the next import
\* of the mail that has this UID there is written over it), it was itself written over
\* another's row, or another mail looks like it.
MailsKeepTheirRows ==
    \A m \in kept \ excused :
        (\A k \in Imported \ {m} : Look[k] # Look[m]) => m \in MailsOf(rows)
=============================================================================
