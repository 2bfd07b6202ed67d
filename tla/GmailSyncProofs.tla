--------------------------- MODULE GmailSyncProofs --------------------------
(***************************************************************************)
(* Theorems about GmailSync: types, and that a mail which never left the   *)
(* inbox is never hidden from it.                                          *)
(***************************************************************************)
EXTENDS GmailSync, FiniteSetTheorems, SequenceTheorems, TLAPS

-----------------------------------------------------------------------------
(* Places of new rows, and what a transaction writes.                      *)

\* The rank of a number in a finite set: every place from the first to the last is taken
\* once.
LEMMA RankFacts ==
    ASSUME NEW S \in SUBSET Nat, IsFiniteSet(S)
    PROVE  /\ Cardinality(S) \in Nat
           /\ \A x \in S : Cardinality({k \in S : k <= x}) \in 1..Cardinality(S)
           /\ \A x, y \in S : Cardinality({k \in S : k <= x}) = Cardinality({k \in S : k <= y}) => x = y
           /\ \A n \in 1..Cardinality(S) : \E x \in S : Cardinality({k \in S : k <= x}) = n
<1> DEFINE upTo(x) == {k \in S : k <= x}
           n == Cardinality(S)
<1>1. n \in Nat
    BY FS_CardinalityType
<1>2. ASSUME NEW x \in S
      PROVE  IsFiniteSet(upTo(x)) /\ Cardinality(upTo(x)) \in 1..n
  <2>1. upTo(x) \in SUBSET S /\ x \in upTo(x)
    OBVIOUS
  <2> HIDE DEF upTo
  <2>2. IsFiniteSet(upTo(x)) /\ Cardinality(upTo(x)) <= n
    BY <2>1, FS_Subset
  <2>3. Cardinality(upTo(x)) \in Nat /\ Cardinality(upTo(x)) # 0
    BY <2>1, <2>2, FS_CardinalityType, FS_EmptySet
  <2> QED BY <1>1, <2>2, <2>3
<1>3. ASSUME NEW x \in S, NEW y \in S, x < y
      PROVE  Cardinality(upTo(x)) # Cardinality(upTo(y))
  <2>1. upTo(x) \in SUBSET upTo(y) /\ y \in upTo(y) /\ y \notin upTo(x)
    <3>1. \A k \in S : k <= x => k <= y
      BY <1>3
    <3>2. upTo(x) \in SUBSET upTo(y)
      BY <3>1
    <3>3. y <= y /\ ~(y <= x)
      BY <1>3
    <3> QED BY <3>2, <3>3
  <2> HIDE DEF upTo
  <2> QED BY <1>2, <2>1, FS_Subset
<1>4. ASSUME NEW x \in S, NEW y \in S, Cardinality(upTo(x)) = Cardinality(upTo(y))
      PROVE  x = y
  <2>1. ~(x < y) /\ ~(y < x)
    BY <1>3, <1>4
  <2> QED BY <2>1
<1> DEFINE rank == [x \in S |-> Cardinality(upTo(x))]
<1>5. rank \in Injection(S, 1..n)
  <2>1. rank \in [S -> 1..n]
    <3> HIDE DEF upTo
    <3> QED BY <1>2
  <2>2. \A x, y \in S : rank[x] = rank[y] => x = y
    <3> HIDE DEF upTo
    <3> QED BY <1>4
  <2> HIDE DEF rank
  <2> QED BY <2>1, <2>2 DEF Injection, IsInjective
<1>6. IsFiniteSet(1..n) /\ Cardinality(1..n) = n
    BY <1>1, FS_Interval
<1>7. rank \in Surjection(S, 1..n)
  <2> HIDE DEF rank
  <2> QED BY <1>5, <1>6, FS_Injection
<1>8. ASSUME NEW i \in 1..n PROVE \E x \in S : Cardinality(upTo(x)) = i
  <2>1. \E x \in S : rank[x] = i
    <3> HIDE DEF rank
    <3> QED BY <1>7 DEF Surjection
  <2> QED BY <2>1
<1> QED BY <1>1, <1>2, <1>4, <1>8

\* A transaction that has written the rows of S shows them, and the others as before.
LEMMA WritingFacts ==
    ASSUME NEW own, NEW S, NEW new
    PROVE  /\ DOMAIN own \subseteq DOMAIN Writing(own, S, new)
           /\ DOMAIN Writing(own, S, new) \subseteq DOMAIN own \union S
           /\ Table(Writing(own, S, new)) = Table(own) \union S
           /\ \A i \in DOMAIN Writing(own, S, new) :
                Writing(own, S, new)[i] = Row(Writing(own, S, new), i)
           /\ \A i : Row(Writing(own, S, new), i) =
                        IF i \in S THEN new[i] ELSE Row(own, i)
<1> DEFINE changed == {i \in S : i \notin Table(own) \/ new[i] # Row(own, i)}
           w == [i \in DOMAIN own \union changed |-> IF i \in changed THEN new[i] ELSE own[i]]
<1>1. Writing(own, S, new) = w
    BY DEF Writing
<1>2. DOMAIN w = DOMAIN own \union changed
    OBVIOUS
<1>3. changed \subseteq S /\ \A i \in S \ changed : i \in Table(own) /\ new[i] = Row(own, i)
    OBVIOUS
<1>4. \A i \in DOMAIN w : w[i] = IF i \in changed THEN new[i] ELSE own[i]
    OBVIOUS
<1> HIDE DEF w, changed
<1>5. Table(w) = Table(own) \union S
    BY <1>2, <1>3 DEF Table
<1>6. ASSUME NEW i PROVE Row(w, i) = IF i \in S THEN new[i] ELSE Row(own, i)
  <2>1. CASE i \in changed
    BY <1>2, <1>3, <1>4, <2>1 DEF Row
  <2>2. CASE i \notin changed
    <3>1. Row(w, i) = Row(own, i)
      BY <1>2, <1>4, <2>2 DEF Row
    <3> QED BY <1>3, <2>2, <3>1
  <2> QED BY <2>1, <2>2
<1>7. \A i \in DOMAIN w : w[i] = Row(w, i)
    BY DEF Row
<1>8. DOMAIN own \subseteq DOMAIN w /\ DOMAIN w \subseteq DOMAIN own \union S
    BY <1>2, <1>3
<1> QED BY <1>1, <1>5, <1>6, <1>7, <1>8

\* The mails that have a label, or that of a set, are finitely many.
LEMMA MailsAreFinite ==
    /\ IsFiniteSet(Mails)
    /\ \A S \in SUBSET Mails : IsFiniteSet(S) /\ Cardinality(S) \in Nat
<1>1. IsFiniteSet(Mails)
    BY GmailAssumptions, FS_Interval DEF Mails
<1>2. ASSUME NEW S \in SUBSET Mails PROVE IsFiniteSet(S) /\ Cardinality(S) \in Nat
    BY <1>1, FS_Subset, FS_CardinalityType
<1> QED BY <1>1, <1>2

-----------------------------------------------------------------------------
(* The inductive invariant of NothingIsHidden.                             *)

\* A synchronization has a folder to work on until it is done.
OrderFits == pc \notin {"idle", "done"} => order # <<>>

\* The history knows every mail that is, or was, elsewhere than in the inbox.
LeavingIsKnown == \A m \in Mails : m \notin left => label[m] \in {"none", "inbox"}

\* A row is of a mail that has arrived, and hides none that never left.
Shows(row) ==
    /\ label[row.mail] # "none"
    /\ row.mail \notin left => row.folder = "inbox" /\ ~row.is_deleted

RowsShow == \A i \in DOMAIN rows : Shows(rows[i])

\* The rows a transaction has written, and its copies of stale ones, are of the mails
\* the rows are of: a row never changes its mail.
MineShows ==
    \A i \in DOMAIN mine : Shows(mine[i]) /\ (i \in DOMAIN rows => mine[i].mail = rows[i].mail)

StaleShows ==
    \A i \in DOMAIN stale : Shows(stale[i]) /\ stale[i].mail = Row(mine, i).mail

\* The new rows follow the others without a gap.
TableIsFilled == \E n \in Nat : Table(mine) = 1..n

\* What is listed for a folder other than the inbox, or got with the label of the trash,
\* has left the inbox.
FoundHasLeft ==
    pc = "listed" => \A m \in found : label[m] # "none" /\ (m \notin left => Folder = "inbox")

FetchedHasLeft ==
    pc = "fetched" =>
        \A m \in DOMAIN fetched :
            label[m] # "none" /\ (m \notin left => Folder = "inbox" /\ ~fetched[m].is_deleted)

\* A request has a row of its mail, goes where its operation goes, and has taken the mail
\* out of the inbox before it says so.
RequestFits ==
    request # NoRequest =>
        /\ Shows(request.row)
        /\ request.row.mail = rows[request.id].mail
        /\ request.to \in Targets(request.op) \/ (request.op = "archive" /\ request.to = "nowhere")

PushedHasLeft ==
    request.step = "pushed" /\ (request.op \in {"archive", "delete"} \/ request.to = "archive") =>
        request.row.mail \in left

GmailInv ==
    /\ TypeOK
    /\ OrderFits
    /\ LeavingIsKnown
    /\ RowsShow
    /\ MineShows
    /\ StaleShows
    /\ TableIsFilled
    /\ FoundHasLeft
    /\ FetchedHasLeft
    /\ RequestFits
    /\ PushedHasLeft

-----------------------------------------------------------------------------
(* Gmail, other clients and the user's requests.                           *)

\* What any step does to the account: a mail that has arrived stays known, and the
\* history only grows.
GmailStep ==
    /\ \A m \in Mails : label[m] # "none" => label'[m] # "none"
    /\ left \subseteq left'

LEMMA ShowsStays ==
    ASSUME GmailStep, NEW r \in RowType, Shows(r)
    PROVE  Shows(r)'
<1>1. r.mail \in Mails
    BY DEF RowType
<1> QED BY <1>1 DEF GmailStep, Shows

\* A request that is dropped, or not touched, fits.
LEMMA RequestStays ==
    ASSUME GmailInv, GmailStep, UNCHANGED rows, request' \in {request, NoRequest}
    PROVE  RequestFits' /\ PushedHasLeft'
<1> USE DEF GmailInv
<1>1. CASE request' = NoRequest
    BY <1>1 DEF RequestFits, PushedHasLeft, NoRequest
<1>2. CASE request' = request /\ request # NoRequest
  <2>1. PICK r \in RowType : r = request.row
    BY <1>2 DEF TypeOK, RequestType
  <2>2. Shows(r)'
    BY <1>2, <2>1, ShowsStays DEF RequestFits
  <2>3. Shows(request.row)'
    BY <1>2, <2>1, <2>2 DEF Shows
  <2>4. RequestFits'
    BY <1>2, <2>3 DEF RequestFits
  <2>5. PushedHasLeft'
    BY <1>2 DEF PushedHasLeft, GmailStep
  <2> QED BY <2>4, <2>5
<1> QED BY <1>1, <1>2

\* Steps that leave the rows, and what a synchronization has in hand, as they are.
LEMMA GmailQuiet ==
    ASSUME GmailInv, GmailStep, TypeOK', LeavingIsKnown', UNCHANGED <<rows, syncVars>>,
           RequestFits', PushedHasLeft'
    PROVE  GmailInv'
<1> USE DEF GmailInv
<1>0. UNCHANGED <<pc, order, present, found, fetched, stale, count, mine>>
    BY DEF syncVars
<1>1. OrderFits'
    BY <1>0 DEF OrderFits
<1>2. RowsShow'
  <2> SUFFICES ASSUME NEW i \in DOMAIN rows PROVE Shows(rows[i])'
    BY DEF RowsShow
  <2>1. PICK r \in RowType : r = rows[i]
    BY DEF TypeOK
  <2>2. Shows(r)'
    BY <2>1, ShowsStays DEF RowsShow
  <2> QED BY <2>1, <2>2
<1>3. MineShows'
  <2> SUFFICES ASSUME NEW i \in DOMAIN mine
               PROVE  Shows(mine[i])' /\ (i \in DOMAIN rows => mine[i].mail = rows[i].mail)
    BY <1>0 DEF MineShows
  <2>1. PICK r \in RowType : r = mine[i]
    BY DEF TypeOK
  <2>2. Shows(r)'
    BY <2>1, ShowsStays DEF MineShows
  <2>3. Shows(mine[i])'
    BY <1>0, <2>1, <2>2
  <2> QED BY <2>3 DEF MineShows
<1>4. StaleShows'
  <2> SUFFICES ASSUME NEW i \in DOMAIN stale
               PROVE  Shows(stale[i])' /\ stale[i].mail = Row(mine, i).mail
    BY <1>0 DEF StaleShows, Row
  <2>1. PICK r \in RowType : r = stale[i]
    BY DEF TypeOK
  <2>2. Shows(r)'
    BY <2>1, ShowsStays DEF StaleShows
  <2>3. Shows(stale[i])'
    BY <1>0, <2>1, <2>2
  <2> QED BY <2>3 DEF StaleShows
<1>5. TableIsFilled'
    BY <1>0 DEF TableIsFilled, Table
<1>6. FoundHasLeft'
    BY <1>0 DEF FoundHasLeft, Folder, GmailStep, TypeOK
<1>7. FetchedHasLeft'
    BY <1>0 DEF FetchedHasLeft, Folder, GmailStep, TypeOK
<1> QED BY <1>1, <1>2, <1>3, <1>4, <1>5, <1>6, <1>7

\* ... keep the types if what they change has its own.
LEMMA QuietType ==
    ASSUME TypeOK, UNCHANGED <<rows, syncVars>>,
           label' \in [Mails -> Labels \union {"none", "gone"}],
           unread' \subseteq Mails, left' \subseteq Mails,
           request' # NoRequest => request' \in RequestType /\ request'.id \in DOMAIN rows,
           actions' \in 0..MaxActions, failures' \in 0..MaxFailures
    PROVE  TypeOK'
BY DEF TypeOK, syncVars, Table

LEMMA ActingFacts ==
    ASSUME TypeOK
    PROVE  /\ Acting => actions' \in 0..MaxActions /\ failures' \in 0..MaxFailures
           /\ Failing => actions' \in 0..MaxActions /\ failures' \in 0..MaxFailures
           /\ UNCHANGED events => actions' \in 0..MaxActions /\ failures' \in 0..MaxFailures
BY GmailAssumptions DEF Acting, Failing, events, TypeOK

LEMMA GmailArrival ==
    ASSUME GmailInv, MailArrives
    PROVE  GmailInv'
<1> USE DEF GmailInv
<1>1. Arrived + 1 \in Mails
  <2>1. {m \in Mails : label[m] # "none"} \in SUBSET Mails
    OBVIOUS
  <2>2. Arrived \in Nat
    BY <2>1, MailsAreFinite DEF Arrived
  <2> QED BY <2>2, GmailAssumptions DEF MailArrives, Mails
<1>2. PICK k \in Mails : k = Arrived + 1
    BY <1>1
<1>3. /\ label' = [label EXCEPT ![k] = "inbox"]
      /\ unread' = unread \union {k}
      /\ UNCHANGED <<left, rows, syncVars, request, events>>
    BY <1>2 DEF MailArrives
<1>4. GmailStep /\ LeavingIsKnown'
    BY <1>3 DEF GmailStep, LeavingIsKnown, TypeOK
<1>5. TypeOK'
  <2>1. label' \in [Mails -> Labels \union {"none", "gone"}] /\ unread' \subseteq Mails
    BY <1>3 DEF TypeOK, Labels
  <2> QED BY <1>3, <2>1, QuietType, ActingFacts DEF TypeOK
<1>6. RequestFits' /\ PushedHasLeft'
    BY <1>3, <1>4, RequestStays
<1> QED BY <1>3, <1>4, <1>5, <1>6, GmailQuiet

LEMMA GmailClient ==
    ASSUME GmailInv, NEW m \in Mails,
           ClientFlags(m) \/ \E l \in Labels \union {"gone"} : ClientMoves(m, l)
    PROVE  GmailInv'
<1> USE DEF GmailInv
<1>1. UNCHANGED <<rows, syncVars, request>> /\ Acting
    BY DEF ClientFlags, ClientMoves
<1>2. /\ label' \in [Mails -> Labels \union {"none", "gone"}]
      /\ unread' \subseteq Mails /\ left' \subseteq Mails
      /\ GmailStep /\ LeavingIsKnown'
  <2>1. CASE ClientFlags(m)
    BY <2>1 DEF ClientFlags, TypeOK, GmailStep, LeavingIsKnown
  <2>2. ASSUME NEW l \in Labels \union {"gone"}, ClientMoves(m, l)
        PROVE  /\ label' \in [Mails -> Labels \union {"none", "gone"}]
               /\ unread' \subseteq Mails /\ left' \subseteq Mails
               /\ GmailStep /\ LeavingIsKnown'
    <3>1. label' = [label EXCEPT ![m] = l] /\ left' = left \union {m} /\ unread' = unread
      BY <2>2 DEF ClientMoves
    <3>2. l # "none"
      BY DEF Labels
    <3> QED BY <3>1, <3>2 DEF TypeOK, GmailStep, LeavingIsKnown
  <2> QED BY <2>1, <2>2
<1>3. TypeOK'
    BY <1>1, <1>2, QuietType, ActingFacts DEF TypeOK
<1>4. RequestFits' /\ PushedHasLeft'
    BY <1>1, <1>2, RequestStays
<1> QED BY <1>1, <1>2, <1>3, <1>4, GmailQuiet

LEMMA GmailStart ==
    ASSUME GmailInv, NEW op \in Operations, NEW to \in Targets(op), NEW i \in DOMAIN rows,
           RequestStarts(op, to, i)
    PROVE  GmailInv'
<1> USE DEF GmailInv
<1> DEFINE archive == \E k \in DOMAIN rows : rows[k].folder = "archive"
           goal == IF to = "archive" /\ ~archive THEN "nowhere" ELSE to
<1>1. /\ Acting
      /\ op = "move" /\ to = "archive" => archive
      /\ request' = [step |-> "loaded", op |-> op, to |-> goal, id |-> i, row |-> rows[i]]
      /\ UNCHANGED <<gmailVars, rows, syncVars>>
    BY DEF RequestStarts
<1>2. goal \in Targets(op) \/ (op = "archive" /\ goal = "nowhere")
    BY <1>1 DEF Targets, Operations
<1>3. goal \in Labels \union {"nowhere"}
    BY DEF Targets, Operations, Labels
<1> HIDE DEF goal, archive
<1>4. PICK r \in RowType : r = rows[i]
    BY DEF TypeOK
<1>5. i \in Nat
    BY DEF TypeOK
<1>6. request' \in RequestType /\ request'.id \in DOMAIN rows
    BY <1>1, <1>3, <1>4, <1>5 DEF RequestType
<1>7. TypeOK'
    BY <1>1, <1>6, QuietType, ActingFacts DEF TypeOK, gmailVars
<1>8. GmailStep /\ LeavingIsKnown'
    BY <1>1 DEF GmailStep, LeavingIsKnown, gmailVars
<1>9. Shows(r)'
    BY <1>4, <1>8, ShowsStays DEF RowsShow
<1>10. RequestFits'
  <2>1. request'.row = r /\ request'.id = i /\ request'.op = op /\ request'.to = goal
    BY <1>1, <1>4
  <2>2. Shows(request.row)'
    BY <1>9, <2>1 DEF Shows
  <2> QED BY <1>1, <1>2, <1>4, <2>1, <2>2 DEF RequestFits
<1>11. PushedHasLeft'
    BY <1>1 DEF PushedHasLeft
<1> QED BY <1>1, <1>7, <1>8, <1>10, <1>11, GmailQuiet

\* What a push does to the labels, by operation.
LEMMA PushedCases ==
    ASSUME request \in RequestType, RequestFits, request # NoRequest, Pushed
    PROVE  LET m == request.row.mail IN
           /\ label[m] # "gone"
           /\ \/ /\ request.op \in {"read", "unread"} /\ request.to = "nowhere"
                 /\ label' = label /\ left' = left
                 /\ unread' = unread \union {m} \/ unread' = unread \ {m}
              \/ /\ request.op = "archive" \/ request.to = "archive"
                 /\ label[m] # "inbox"
                 /\ UNCHANGED gmailVars
              \/ /\ request.op = "move" /\ request.to = "inbox"
                 /\ label' = [label EXCEPT ![m] = "inbox"]
                 /\ UNCHANGED <<left, unread>>
              \/ \E l \in Labels :
                    /\ label' = [label EXCEPT ![m] = l]
                    /\ left' = left \union {m}
                    /\ UNCHANGED unread
<1> DEFINE m == request.row.mail
<1>1. /\ request.op \in Operations
      /\ request.to \in Targets(request.op) \/ (request.op = "archive" /\ request.to = "nowhere")
    BY DEF RequestFits, RequestType
<1>2. label[m] # "gone"
    BY DEF Pushed
<1>3. CASE request.op = "read"
  <2>0. request.to = "nowhere"
    BY <1>1, <1>3 DEF Targets
  <2>1. label' = label /\ left' = left /\ unread' = unread \ {m}
    BY <1>3, <2>0 DEF Pushed
  <2> QED BY <1>2, <1>3, <2>0, <2>1
<1>4. CASE request.op = "unread"
  <2>0. request.to = "nowhere"
    BY <1>1, <1>4 DEF Targets
  <2>1. label' = label /\ left' = left /\ unread' = unread \union {m}
    BY <1>4, <2>0 DEF Pushed
  <2> QED BY <1>2, <1>4, <2>0, <2>1
<1>5. CASE request.op = "delete"
  <2>0. request.to = "trash"
    BY <1>1, <1>5 DEF Targets
  <2>1. label' = [label EXCEPT ![m] = "trash"] /\ left' = left \union {m} /\ UNCHANGED unread
    BY <1>5, <2>0 DEF Pushed
  <2> QED BY <1>2, <2>1 DEF Labels
<1>6. CASE request.op = "archive" \/ (request.op = "move" /\ request.to = "archive")
  <2>1. request.to # "inbox"
    BY <1>1, <1>6 DEF Targets
  <2>2. IF label[m] = "inbox"
        THEN label' = [label EXCEPT ![m] = "archive"] /\ left' = left \union {m} /\ UNCHANGED unread
        ELSE UNCHANGED gmailVars
    BY <1>6, <2>1 DEF Pushed
  <2> QED BY <1>2, <1>6, <2>2 DEF Labels
<1>7. CASE request.op = "move" /\ request.to = "inbox"
  <2>1. label' = [label EXCEPT ![m] = "inbox"] /\ UNCHANGED <<left, unread>>
    BY <1>7 DEF Pushed
  <2> QED BY <1>2, <1>7, <2>1
<1>8. request.op = "move" => request.to \in {"archive", "inbox"}
    BY <1>1 DEF Targets
<1> QED BY <1>1, <1>3, <1>4, <1>5, <1>6, <1>7, <1>8 DEF Operations

\* A push leaves the history in step with the labels.
LEMMA PushedFacts ==
    ASSUME GmailInv, request # NoRequest, Pushed
    PROVE  /\ label' \in [Mails -> Labels \union {"none", "gone"}]
           /\ unread' \subseteq Mails /\ left' \subseteq Mails
           /\ GmailStep /\ LeavingIsKnown'
           /\ request.op \in {"archive", "delete"} \/ request.to = "archive" =>
                request.row.mail \in left'
<1>1. /\ request \in RequestType /\ RequestFits /\ LeavingIsKnown
      /\ label \in [Mails -> Labels \union {"none", "gone"}]
      /\ unread \subseteq Mails /\ left \subseteq Mails
    BY DEF GmailInv, TypeOK
<1>2. PICK m \in Mails : m = request.row.mail
    BY <1>1 DEF RequestType, RowType
<1>3. label[m] # "none"
    BY <1>1, <1>2 DEF RequestFits, Shows
<1>4. PICK op, to : op = request.op /\ to = request.to
    OBVIOUS
<1>5. /\ label[m] # "gone"
      /\ \/ /\ op \in {"read", "unread"} /\ to = "nowhere"
            /\ label' = label /\ left' = left
            /\ unread' = unread \union {m} \/ unread' = unread \ {m}
         \/ /\ op = "archive" \/ to = "archive"
            /\ label[m] # "inbox"
            /\ UNCHANGED gmailVars
         \/ /\ op = "move" /\ to = "inbox"
            /\ label' = [label EXCEPT ![m] = "inbox"]
            /\ UNCHANGED <<left, unread>>
         \/ \E l \in Labels :
               /\ label' = [label EXCEPT ![m] = l]
               /\ left' = left \union {m}
               /\ UNCHANGED unread
    BY <1>1, <1>2, <1>4, PushedCases
<1>6. /\ label' \in [Mails -> Labels \union {"none", "gone"}]
      /\ unread' \subseteq Mails /\ left' \subseteq Mails
    BY <1>1, <1>5 DEF Labels, gmailVars
<1>7. GmailStep
    BY <1>1, <1>5 DEF GmailStep, Labels, gmailVars
<1>8. LeavingIsKnown'
    BY <1>1, <1>5 DEF LeavingIsKnown, gmailVars
<1>9. op \in {"archive", "delete"} \/ to = "archive" => m \in left'
  <2>1. label[m] # "inbox" => m \in left
    BY <1>1, <1>3, <1>5 DEF LeavingIsKnown
  <2> QED BY <1>5, <2>1 DEF gmailVars
<1> QED BY <1>2, <1>4, <1>6, <1>7, <1>8, <1>9

LEMMA GmailPush ==
    ASSUME GmailInv, Push
    PROVE  GmailInv'
<1> USE DEF GmailInv
<1>1. /\ request # NoRequest /\ Pushed
      /\ request' = [request EXCEPT !.step = "pushed"]
      /\ UNCHANGED <<rows, syncVars, events>>
    BY DEF Push, NoRequest
<1>2. request \in RequestType /\ request.id \in DOMAIN rows
    BY <1>1 DEF TypeOK
<1>3. /\ label' \in [Mails -> Labels \union {"none", "gone"}]
      /\ unread' \subseteq Mails /\ left' \subseteq Mails
      /\ GmailStep /\ LeavingIsKnown'
      /\ request.op \in {"archive", "delete"} \/ request.to = "archive" =>
           request.row.mail \in left'
    BY <1>1, PushedFacts
<1>4. /\ request' \in RequestType
      /\ request'.row = request.row /\ request'.id = request.id
      /\ request'.op = request.op /\ request'.to = request.to
    BY <1>1, <1>2 DEF RequestType
<1>5. TypeOK'
    BY <1>1, <1>2, <1>3, <1>4, QuietType, ActingFacts
<1>6. RequestFits'
  <2>1. PICK r \in RowType : r = request.row
    BY <1>2 DEF RequestType
  <2>2. Shows(r)'
    BY <1>1, <1>3, <2>1, ShowsStays DEF RequestFits
  <2>3. Shows(request.row)'
    BY <1>4, <2>1, <2>2 DEF Shows
  <2> QED BY <1>1, <1>4, <2>3 DEF RequestFits
<1>7. PushedHasLeft'
    BY <1>3, <1>4 DEF PushedHasLeft
<1> QED BY <1>1, <1>3, <1>5, <1>6, <1>7, GmailQuiet

\* A request that ends without a word of it in the table.
LEMMA GmailDrop ==
    ASSUME GmailInv, PushRefused \/ PushFails \/ RequestDies
    PROVE  GmailInv'
<1> USE DEF GmailInv
<1>1. request' = NoRequest /\ UNCHANGED <<rows, syncVars>> /\ request # NoRequest
    BY DEF PushRefused, PushFails, RequestDies, NoRequest
<1>2. actions' \in 0..MaxActions /\ failures' \in 0..MaxFailures
    BY ActingFacts DEF PushRefused, PushFails, RequestDies
<1>3. /\ label' \in [Mails -> Labels \union {"none", "gone"}]
      /\ unread' \subseteq Mails /\ left' \subseteq Mails
      /\ GmailStep /\ LeavingIsKnown'
  <2>1. CASE Pushed
    BY <1>1, <2>1, PushedFacts
  <2>2. CASE UNCHANGED gmailVars
    BY <2>2 DEF gmailVars, TypeOK, GmailStep, LeavingIsKnown
  <2> QED BY <2>1, <2>2 DEF PushRefused, PushFails, RequestDies
<1>4. TypeOK'
    BY <1>1, <1>2, <1>3, QuietType
<1>5. RequestFits' /\ PushedHasLeft'
    BY <1>1, <1>3, RequestStays
<1> QED BY <1>1, <1>3, <1>4, <1>5, GmailQuiet

-----------------------------------------------------------------------------
(* The request writes its row.                                             *)

LEMMA AnsweredFacts ==
    ASSUME GmailInv, request.step = "pushed", request # NoRequest,
           NEW now \in RowType, now.mail = request.row.mail, Shows(now)
    PROVE  Answered(now) \in RowType /\ Answered(now).mail = now.mail /\ Shows(Answered(now))
<1>1. /\ request \in RequestType
      /\ request.to \in Targets(request.op) \/ (request.op = "archive" /\ request.to = "nowhere")
      /\ Shows(request.row)
      /\ request.op \in {"archive", "delete"} \/ request.to = "archive" => request.row.mail \in left
    BY DEF GmailInv, TypeOK, RequestFits, PushedHasLeft
<1>2. PICK was \in RowType : was = request.row
    BY <1>1 DEF RequestType
<1>3. /\ label[now.mail] # "none"
      /\ now.mail \notin left => now.folder = "inbox" /\ ~now.is_deleted
    BY DEF Shows
<1> DEFINE there == IF request.to = "nowhere" THEN now
                    ELSE [now EXCEPT !.folder = Column(was.folder, @, request.to)]
<1>4. request.op \in Operations /\ request.to \in Labels \union {"nowhere"}
    BY <1>1 DEF RequestType
<1>5. /\ there \in RowType
      /\ there.mail = now.mail
      /\ there.is_deleted = now.is_deleted
      /\ there.is_read = now.is_read
      /\ there.folder = now.folder \/ there.folder = request.to
    BY <1>2, <1>4 DEF RowType, Column
<1>6. CASE request.op \in {"read", "unread"}
  <2>1. PICK value \in BOOLEAN : Answered(now) = [now EXCEPT !.is_read = value]
    BY <1>2, <1>6 DEF Answered, Column, RowType
  <2> QED BY <1>3, <2>1 DEF RowType, Shows
<1>7. CASE request.op \in {"archive", "delete"}
  <2>1. now.mail \in left
    BY <1>1, <1>7
  <2>2. \/ Answered(now) = there
        \/ Answered(now) = [there EXCEPT !.is_deleted = Column(was.is_deleted, @, TRUE)]
    BY <1>2, <1>7 DEF Answered
  <2> HIDE DEF there
  <2> QED BY <1>2, <1>3, <1>5, <2>1, <2>2 DEF RowType, Shows, Column
<1>8. CASE request.op = "move"
  <2>1. Answered(now) = [there EXCEPT !.is_deleted = Column(was.is_deleted, @, FALSE)]
    BY <1>2, <1>8 DEF Answered
  <2>2. request.to \in {"inbox", "archive"}
    BY <1>1, <1>8 DEF Targets
  <2> HIDE DEF there
  <2>3. Answered(now) \in RowType /\ Answered(now).mail = now.mail
    BY <1>2, <1>5, <2>1 DEF RowType, Column
  <2>4. Answered(now).folder = there.folder
    BY <1>5, <2>1 DEF RowType
  <2>5. Answered(now).is_deleted \in {now.is_deleted, FALSE}
    BY <1>2, <1>5, <2>1 DEF RowType, Column
  <2>6. now.mail \notin left => there.folder = "inbox"
    BY <1>1, <1>3, <1>5, <2>2
  <2> QED BY <1>3, <2>3, <2>4, <2>5, <2>6 DEF Shows
<1> QED BY <1>4, <1>6, <1>7, <1>8 DEF Operations

LEMMA GmailAnswer ==
    ASSUME GmailInv, RequestCommits
    PROVE  GmailInv'
<1>1. /\ UNCHANGED <<gmailVars, syncVars, events>>
      /\ request' = NoRequest
      /\ request.step = "pushed" /\ request # NoRequest
      /\ request.id \notin DOMAIN mine
    BY DEF RequestCommits, NoRequest
<1>2. UNCHANGED <<label, unread, left, pc, order, present, found, fetched, stale, count, mine>>
    BY <1>1 DEF gmailVars, syncVars
<1>3. PICK i : i = request.id
    OBVIOUS
<1>4. rows \in Seq(RowType) /\ i \in 1..Len(rows) /\ DOMAIN rows = 1..Len(rows)
    BY <1>1, <1>3 DEF GmailInv, TypeOK
<1>5. PICK now \in RowType : now = rows[i]
    BY <1>4
<1>6. Shows(now) /\ now.mail = request.row.mail
    BY <1>1, <1>3, <1>4, <1>5 DEF GmailInv, RowsShow, RequestFits
<1>7. PICK new \in RowType : new = Answered(now) /\ new.mail = now.mail /\ Shows(new)
    BY <1>1, <1>6, AnsweredFacts
<1>8. rows' = [rows EXCEPT ![i] = new]
    BY <1>3, <1>5, <1>7, Zenon DEF RequestCommits
<1>9. /\ rows' \in Seq(RowType) /\ DOMAIN rows' = DOMAIN rows
      /\ \A k \in DOMAIN rows : rows'[k] = IF k = i THEN new ELSE rows[k]
    BY <1>4, <1>7, <1>8, ExceptSeq
<1>10. \A r : Shows(r)' <=> Shows(r)
    BY <1>2 DEF Shows
<1>11. Table(mine)' = Table(mine)
    BY <1>2, <1>9 DEF Table
<1>12. TypeOK'
    BY <1>1, <1>2, <1>9, <1>11, ActingFacts DEF GmailInv, TypeOK, events
<1>13. RowsShow'
  <2> SUFFICES ASSUME NEW k \in DOMAIN rows PROVE Shows(rows[k])'
    BY <1>9 DEF RowsShow
  <2>1. PICK r : r = rows'[k]
    OBVIOUS
  <2>2. Shows(r)
    BY <1>7, <1>9, <2>1 DEF GmailInv, RowsShow
  <2>3. Shows(r)'
    BY <1>10, <2>2
  <2> QED BY <2>1, <2>3 DEF Shows
<1>14. \A k \in DOMAIN rows : rows'[k].mail = rows[k].mail
    BY <1>5, <1>7, <1>9
<1>15. MineShows'
    BY <1>2, <1>9, <1>10, <1>14 DEF GmailInv, MineShows, Shows
<1>16. StaleShows'
  <2>1. \A k \in DOMAIN stale : Row(mine, k).mail' = Row(mine, k).mail
    <3> SUFFICES ASSUME NEW k \in DOMAIN stale, k \notin DOMAIN mine
                 PROVE  rows'[k].mail = rows[k].mail
      BY <1>2 DEF Row
    <3>1. k \in DOMAIN rows
      BY DEF GmailInv, TypeOK, Table
    <3> QED BY <1>14, <3>1
  <2>2. \A k \in DOMAIN stale : Shows(stale[k])'
    BY <1>2 DEF GmailInv, StaleShows, Shows
  <2> QED BY <1>2, <2>1, <2>2 DEF GmailInv, StaleShows
<1>17. OrderFits' /\ LeavingIsKnown' /\ TableIsFilled' /\ FoundHasLeft' /\ FetchedHasLeft'
    BY <1>2, <1>11
    DEF GmailInv, OrderFits, LeavingIsKnown, TableIsFilled, FoundHasLeft, FetchedHasLeft, Folder
<1>18. RequestFits' /\ PushedHasLeft'
    BY <1>1 DEF RequestFits, PushedHasLeft, NoRequest
<1> QED BY <1>12, <1>13, <1>15, <1>16, <1>17, <1>18 DEF GmailInv

-----------------------------------------------------------------------------
(* The steps of a synchronization.                                         *)

\* They leave the account alone, and the table.
LEMMA GmailFrame ==
    ASSUME GmailInv, UNCHANGED <<gmailVars, rows, request>>, TypeOK', OrderFits',
           MineShows', StaleShows', TableIsFilled', FoundHasLeft', FetchedHasLeft'
    PROVE  GmailInv'
<1>1. UNCHANGED <<label, left>>
    BY DEF gmailVars
<1>2. LeavingIsKnown' /\ RowsShow'
    BY <1>1 DEF GmailInv, LeavingIsKnown, RowsShow, Shows
<1>3. RequestFits' /\ PushedHasLeft'
    BY <1>1 DEF GmailInv, RequestFits, PushedHasLeft, Shows
<1> QED BY <1>2, <1>3 DEF GmailInv

LEMMA FrameType ==
    ASSUME TypeOK, UNCHANGED <<gmailVars, rows, request>>,
           pc' \in {"idle", "next", "ids", "listed", "fetched", "reconciling",
                    "counting", "counted", "done"},
           order' \in Seq(SyncFolders), present' \subseteq Mails, found' \subseteq Mails,
           \A m \in DOMAIN fetched' : m \in Mails /\ fetched'[m] \in [is_read : BOOLEAN, is_deleted : BOOLEAN],
           \A i \in DOMAIN stale' : i \in Table(mine') /\ stale'[i] \in RowType,
           count' \in Nat,
           \A i \in DOMAIN mine' : mine'[i] \in RowType,
           pc' = "idle" => mine' = Empty,
           actions' \in 0..MaxActions, failures' \in 0..MaxFailures
    PROVE  TypeOK'
<1>1. Table(mine)' = Table(mine')
    BY DEF Table
<1> QED BY <1>1 DEF TypeOK, gmailVars

\* A transaction that is left as it is.
LEMMA MineStays ==
    ASSUME GmailInv, UNCHANGED <<gmailVars, rows, mine>>
    PROVE  /\ MineShows' /\ TableIsFilled'
           /\ UNCHANGED stale \/ stale' = Empty => StaleShows'
<1>1. UNCHANGED <<label, left>>
    BY DEF gmailVars
<1>2. MineShows' /\ TableIsFilled'
    BY <1>1 DEF GmailInv, MineShows, TableIsFilled, Shows, Table
<1>3. CASE UNCHANGED stale
    BY <1>1, <1>2, <1>3 DEF GmailInv, StaleShows, Shows, Row
<1>4. CASE stale' = Empty
    BY <1>2, <1>4 DEF StaleShows, Empty
<1> QED BY <1>2, <1>3, <1>4

\* The rows as a transaction sees them.
LEMMA TableRows ==
    ASSUME GmailInv, NEW i \in Table(mine)
    PROVE  /\ Row(mine, i) \in RowType
           /\ Shows(Row(mine, i))
           /\ i \in DOMAIN rows => Row(mine, i).mail = rows[i].mail
<1>1. CASE i \in DOMAIN mine
    BY <1>1 DEF GmailInv, TypeOK, MineShows, Row
<1>2. CASE i \notin DOMAIN mine
  <2>1. i \in DOMAIN rows /\ Row(mine, i) = rows[i]
    BY <1>2 DEF Table, Row
  <2> QED BY <2>1 DEF GmailInv, TypeOK, RowsShow
<1> QED BY <1>1, <1>2

\* What a transaction writes are rows of the mails the rows are of.
LEMMA WriteFacts ==
    ASSUME GmailInv, UNCHANGED <<gmailVars, rows>>, NEW S, NEW new,
           mine' = Writing(mine, S, new),
           \A i \in S : /\ new[i] \in RowType /\ Shows(new[i])
                        /\ i \in Table(mine) => new[i].mail = Row(mine, i).mail,
           \E n \in Nat : Table(mine) \union S = 1..n
    PROVE  /\ \A i \in DOMAIN mine' : mine'[i] \in RowType
           /\ MineShows' /\ TableIsFilled'
           /\ Table(mine') = Table(mine) \union S
           /\ \A i \in Table(mine') : Row(mine', i) \in RowType /\ Shows(Row(mine', i))
           /\ \A i \in Table(mine) : Row(mine', i).mail = Row(mine, i).mail
<1>1. /\ DOMAIN mine' \subseteq DOMAIN mine \union S
      /\ Table(mine') = Table(mine) \union S
      /\ \A i \in DOMAIN mine' : mine'[i] = Row(mine', i)
      /\ \A i : Row(mine', i) = IF i \in S THEN new[i] ELSE Row(mine, i)
  <2>1. PICK w : w = Writing(mine, S, new)
    OBVIOUS
  <2>2. /\ DOMAIN w \subseteq DOMAIN mine \union S
        /\ Table(w) = Table(mine) \union S
        /\ \A i \in DOMAIN w : w[i] = Row(w, i)
        /\ \A i : Row(w, i) = IF i \in S THEN new[i] ELSE Row(mine, i)
    BY <2>1, WritingFacts
  <2> QED BY <2>1, <2>2
<1>2. \A i \in Table(mine') : Row(mine', i) \in RowType /\ Shows(Row(mine', i))
    BY <1>1, TableRows
<1>3. \A i \in Table(mine) : Row(mine', i).mail = Row(mine, i).mail
    BY <1>1
<1>4. DOMAIN mine' \subseteq Table(mine')
    BY DEF Table
<1>5. ASSUME NEW i \in DOMAIN mine'
      PROVE  mine'[i] \in RowType /\ Shows(mine'[i]) /\ (i \in DOMAIN rows => mine'[i].mail = rows[i].mail)
  <2>1. mine'[i] \in RowType /\ Shows(mine'[i])
    BY <1>1, <1>2, <1>4
  <2>2. ASSUME i \in DOMAIN rows PROVE mine'[i].mail = rows[i].mail
    <3>1. i \in Table(mine)
      BY <2>2 DEF Table
    <3> QED BY <1>1, <1>3, <2>2, <3>1, TableRows
  <2> QED BY <2>1, <2>2
<1>6. MineShows'
    BY <1>5 DEF MineShows, Shows, gmailVars
<1>7. TableIsFilled'
  <2>1. Table(mine)' = Table(mine')
    BY DEF Table
  <2> QED BY <1>1, <2>1 DEF TableIsFilled
<1> QED BY <1>1, <1>2, <1>3, <1>5, <1>6, <1>7

\* The next folder, or the next thing to do.
LEMMA OnwardFacts ==
    ASSUME TypeOK, OrderFits, pc \notin {"idle", "done"}, Onward
    PROVE  /\ pc' \in {"reconciling", "next", "counting"}
           /\ order' \in Seq(SyncFolders) /\ OrderFits'
<1>1. order \in Seq(SyncFolders) /\ order # <<>>
    BY DEF TypeOK, OrderFits
<1>2. Tail(order) \in Seq(SyncFolders) /\ Len(Tail(order)) = Len(order) - 1 /\ Len(order) \in Nat
    BY <1>1, HeadTailProperties
<1>3. Len(order) > 1 => Tail(order) # <<>>
  <2>1. Len(order) > 1 => Len(Tail(order)) # 0
    BY <1>2
  <2>2. Len(<<>>) = 0
    OBVIOUS
  <2> QED BY <2>1, <2>2
<1>4. <<"inbox", "trash">> \in Seq(SyncFolders) /\ <<"inbox", "trash">> # <<>>
    BY DEF SyncFolders
<1>5. CASE stale' # Empty
    BY <1>1, <1>5 DEF Onward, OrderFits
<1>6. CASE stale' = Empty /\ Len(order) > 1
    BY <1>2, <1>3, <1>6 DEF Onward, OrderFits
<1>7. CASE stale' = Empty /\ ~(Len(order) > 1)
    BY <1>4, <1>7 DEF Onward, OrderFits
<1> QED BY <1>5, <1>6, <1>7

LEMMA CountedFacts ==
    ASSUME TypeOK, OrderFits, pc \notin {"idle", "done"}, Counted
    PROVE  /\ pc' \in {"counting", "done"}
           /\ order' \in Seq(SyncFolders) /\ OrderFits' /\ count' \in Nat
<1>1. order \in Seq(SyncFolders) /\ order # <<>>
    BY DEF TypeOK, OrderFits
<1>2. Tail(order) \in Seq(SyncFolders) /\ Len(Tail(order)) = Len(order) - 1 /\ Len(order) \in Nat
    BY <1>1, HeadTailProperties
<1>3. Len(order) > 1 => Tail(order) # <<>>
  <2>1. Len(order) > 1 => Len(Tail(order)) # 0
    BY <1>2
  <2>2. Len(<<>>) = 0
    OBVIOUS
  <2> QED BY <2>1, <2>2
<1> QED BY <1>2, <1>3 DEF Counted, OrderFits

\* What a listing has are mails of the label.
LEMMA ListingFacts ==
    /\ \A n : \A S \in SUBSET Mails : Newest(S, n) \subseteq S
    /\ \A f : In(f) \subseteq Mails
BY DEF Newest, In

\* In a folder other than the inbox there are only mails that have left.
LEMMA InFacts ==
    ASSUME GmailInv, pc \notin {"idle", "done"}, NEW m \in In(Folder)
    PROVE  label[m] # "none" /\ (m \notin left => Folder = "inbox")
<1>1. order \in Seq(SyncFolders) /\ order # <<>>
    BY DEF GmailInv, TypeOK, OrderFits
<1>2. Folder \in SyncFolders
    BY <1>1, HeadTailProperties DEF Folder
<1>3. m \in Mails /\ label[m] = Folder
    BY DEF In
<1> QED BY <1>2, <1>3 DEF GmailInv, LeavingIsKnown, SyncFolders

LEMMA GmailListing ==
    ASSUME GmailInv, ListIds \/ ListMails
    PROVE  GmailInv'
<1>1. /\ UNCHANGED <<gmailVars, rows, fetched, stale, count, mine, request, events>>
      /\ pc' \in {"ids", "listed"}
    BY DEF ListIds, ListMails
<1>2. order' \in Seq(SyncFolders) /\ order' # <<>>
  <2>1. CASE UNCHANGED order /\ pc \in {"next", "ids"}
    BY <2>1 DEF GmailInv, TypeOK, OrderFits
  <2>2. CASE order' \in {<<"inbox", "trash">>, <<"trash", "inbox">>}
    <3>1. \A f, g \in SyncFolders : <<f, g>> \in Seq(SyncFolders) /\ <<f, g>> # <<>>
      OBVIOUS
    <3> QED BY <2>2, <3>1 DEF SyncFolders
  <2> QED BY <2>1, <2>2 DEF ListIds, ListMails
<1>3. present' \subseteq Mails /\ found' \subseteq Mails
  <2>1. ListIds => present' \subseteq Mails
    BY ListingFacts DEF ListIds
  <2>2. ListMails => found' \subseteq Mails
    <3>1. In(Folder) \ Unparsable \in SUBSET Mails
      BY ListingFacts
    <3> QED BY <3>1, ListingFacts DEF ListMails
  <2> QED BY <2>1, <2>2 DEF ListIds, ListMails, GmailInv, TypeOK
<1>4. TypeOK'
  <2>1. TypeOK
    BY DEF GmailInv
  <2> QED BY <1>1, <1>2, <1>3, <2>1, FrameType, ActingFacts DEF TypeOK
<1>5. OrderFits' /\ FetchedHasLeft'
    BY <1>1, <1>2 DEF OrderFits, FetchedHasLeft
<1>6. FoundHasLeft'
  <2>1. CASE ListIds
    BY <2>1 DEF ListIds, FoundHasLeft
  <2>2. CASE ListMails
    <3>1. UNCHANGED <<label, left, order>> /\ pc = "ids"
      BY <2>2 DEF ListMails, gmailVars
    <3>2. found' \subseteq In(Folder)
      <4>1. In(Folder) \ Unparsable \in SUBSET Mails
        BY ListingFacts
      <4>2. found' \subseteq In(Folder) \ Unparsable
        BY <2>2, <4>1, ListingFacts DEF ListMails
      <4> QED BY <4>2
    <3>3. Folder' = Folder
      BY <3>1 DEF Folder
    <3> QED BY <3>1, <3>2, <3>3, InFacts DEF FoundHasLeft
  <2> QED BY <2>1, <2>2
<1>7. MineShows' /\ StaleShows' /\ TableIsFilled'
    BY <1>1, MineStays
<1> QED BY <1>1, <1>4, <1>5, <1>6, <1>7, GmailFrame

\* A mail that is got with the label of the trash has left the inbox.
LEMMA GmailGet ==
    ASSUME GmailInv, GetMails
    PROVE  GmailInv'
<1>1. /\ UNCHANGED <<gmailVars, rows, order, present, stale, count, mine, request, events>>
      /\ pc = "listed" /\ pc' = "fetched" /\ found' = {}
      /\ fetched' = [m \in found |-> [is_read |-> m \notin unread, is_deleted |-> label[m] = "trash"]]
    BY DEF GetMails
<1>2. found \subseteq Mails /\ DOMAIN fetched' = found
    BY <1>1 DEF GmailInv, TypeOK
<1>3. \A m \in found : /\ fetched'[m] \in [is_read : BOOLEAN, is_deleted : BOOLEAN]
                       /\ fetched'[m].is_deleted => label[m] = "trash"
    BY <1>1
<1>4. TypeOK'
  <2>1. TypeOK
    BY DEF GmailInv
  <2>2. \A m \in DOMAIN fetched' : m \in Mails /\ fetched'[m] \in [is_read : BOOLEAN, is_deleted : BOOLEAN]
    BY <1>2, <1>3
  <2> HIDE DEF TypeOK
  <2>3. /\ order' \in Seq(SyncFolders) /\ present' \subseteq Mails /\ count' \in Nat
        /\ \A i \in DOMAIN stale' : i \in Table(mine') /\ stale'[i] \in RowType
        /\ \A i \in DOMAIN mine' : mine'[i] \in RowType
        /\ actions' \in 0..MaxActions /\ failures' \in 0..MaxFailures
    BY <1>1, <2>1, ActingFacts DEF TypeOK
  <2> QED BY <1>1, <2>1, <2>2, <2>3, FrameType
<1>5. UNCHANGED <<label, left>>
    BY <1>1 DEF gmailVars
<1>6. Folder' = Folder
    BY <1>1 DEF Folder
<1>7. FetchedHasLeft'
  <2>1. \A m \in found : label[m] = "trash" => m \in left
    BY <1>2 DEF GmailInv, LeavingIsKnown
  <2>2. \A m \in found : label[m] # "none" /\ (m \notin left => Folder = "inbox")
    BY <1>1 DEF GmailInv, FoundHasLeft
  <2> QED BY <1>2, <1>3, <1>5, <1>6, <2>1, <2>2 DEF FetchedHasLeft
<1>8. OrderFits' /\ FoundHasLeft'
    BY <1>1 DEF GmailInv, OrderFits, FoundHasLeft
<1>9. MineShows' /\ StaleShows' /\ TableIsFilled'
    BY <1>1, MineStays
<1> QED BY <1>1, <1>4, <1>7, <1>8, <1>9, GmailFrame

LEMMA GmailStats ==
    ASSUME GmailInv, LabelStats \/ StatsFail
    PROVE  GmailInv'
<1>1. /\ UNCHANGED <<gmailVars, rows, present, found, fetched, stale, mine, request>>
      /\ pc \in {"counting", "counted"}
    BY DEF LabelStats, StatsFail
<1>2. TypeOK /\ OrderFits
    BY DEF GmailInv
<1>3. /\ pc' \in {"counting", "counted", "done"}
      /\ order' \in Seq(SyncFolders) /\ OrderFits' /\ count' \in Nat
      /\ actions' \in 0..MaxActions /\ failures' \in 0..MaxFailures
  <2>1. CASE LabelStats
    <3>1. In(Folder) \intersect unread \in SUBSET Mails
      BY ListingFacts
    <3>2. count' \in Nat
      BY <2>1, <3>1, MailsAreFinite DEF LabelStats
    <3> QED BY <1>2, <2>1, <3>2, ActingFacts DEF LabelStats, OrderFits, TypeOK
  <2>2. CASE StatsFail
    BY <1>1, <1>2, <2>2, CountedFacts, ActingFacts DEF StatsFail
  <2> QED BY <2>1, <2>2
<1>4. TypeOK'
    BY <1>1, <1>2, <1>3, FrameType DEF TypeOK
<1>5. FoundHasLeft' /\ FetchedHasLeft'
    BY <1>3 DEF FoundHasLeft, FetchedHasLeft
<1>6. MineShows' /\ StaleShows' /\ TableIsFilled'
    BY <1>1, MineStays
<1> QED BY <1>1, <1>3, <1>4, <1>5, <1>6, GmailFrame

\* What Gmail says of a stale row hides no mail that never left the inbox.
LEMMA SettledFacts ==
    ASSUME GmailInv, NEW now \in RowType, NEW was \in RowType, now.mail = was.mail,
           Shows(now), Shows(was)
    PROVE  /\ Settled(now, was) \in RowType
           /\ Settled(now, was).mail = now.mail
           /\ Shows(Settled(now, was))
<1>1. PICK m \in Mails : m = was.mail
    BY DEF RowType
<1>2. /\ label[m] # "none"
      /\ m \notin left => /\ now.folder = "inbox" /\ ~now.is_deleted
                          /\ was.folder = "inbox" /\ ~was.is_deleted
                          /\ label[m] = "inbox"
    BY <1>1 DEF Shows, GmailInv, LeavingIsKnown
<1>3. CASE label[m] = "gone"
  <2>1. PICK d \in BOOLEAN : Settled(now, was) = [now EXCEPT !.is_deleted = d]
    BY <1>1, <1>3 DEF Settled, RowType
  <2>2. m \in left
    BY <1>2, <1>3
  <2> QED BY <1>1, <1>2, <2>1, <2>2 DEF RowType, Shows
<1>4. CASE label[m] # "gone"
  <2>1. label[m] \in Labels
    BY <1>2, <1>4 DEF GmailInv, TypeOK
  <2>2. PICK f \in Labels, r \in BOOLEAN, d \in BOOLEAN :
           /\ Settled(now, was) = [now EXCEPT !.folder = f, !.is_read = r, !.is_deleted = d]
           /\ f = IF was.folder = label[m] THEN now.folder ELSE label[m]
           /\ d = IF was.is_deleted = (label[m] = "trash") THEN now.is_deleted ELSE (label[m] = "trash")
    <3> DEFINE f == IF was.folder = label[m] THEN now.folder ELSE label[m]
               r == IF was.is_read = (m \notin unread) THEN now.is_read ELSE (m \notin unread)
               d == IF was.is_deleted = (label[m] = "trash") THEN now.is_deleted ELSE (label[m] = "trash")
    <3>1. f \in Labels /\ r \in BOOLEAN /\ d \in BOOLEAN
      BY <2>1 DEF RowType
    <3>2. Settled(now, was) = [now EXCEPT !.folder = f, !.is_read = r, !.is_deleted = d]
      BY <1>1, <1>4, Zenon DEF Settled, Target
    <3>3. /\ f = IF was.folder = label[m] THEN now.folder ELSE label[m]
          /\ d = IF was.is_deleted = (label[m] = "trash") THEN now.is_deleted ELSE (label[m] = "trash")
      OBVIOUS
    <3> HIDE DEF f, r, d
    <3> QED BY <3>1, <3>2, <3>3, Zenon
  <2>3. m \notin left => f = "inbox" /\ ~d
    BY <1>2, <2>2
  <2> QED BY <1>1, <1>2, <2>2, <2>3 DEF RowType, Shows
<1> QED BY <1>3, <1>4

LEMMA GmailReconcile ==
    ASSUME GmailInv, ReconcileRow
    PROVE  GmailInv'
<1>1. /\ pc = "reconciling" /\ Onward
      /\ UNCHANGED <<gmailVars, rows, present, found, fetched, count, request, events>>
    BY DEF ReconcileRow
<1>2. PICK i \in DOMAIN stale :
         /\ mine' = Writing(mine, {i}, [k \in {i} |-> Settled(Row(mine, i), stale[i])])
         /\ stale' = [k \in DOMAIN stale \ {i} |-> stale[k]]
    BY DEF ReconcileRow
<1>3. TypeOK /\ OrderFits
    BY DEF GmailInv
<1>4. \A k \in DOMAIN stale : k \in Table(mine) /\ stale[k] \in RowType
    BY <1>3 DEF TypeOK
<1>5. \A k \in DOMAIN stale : Shows(stale[k]) /\ stale[k].mail = Row(mine, k).mail
    BY DEF GmailInv, StaleShows
<1>6. PICK now \in RowType : now = Row(mine, i) /\ Shows(now)
    BY <1>4, TableRows
<1>7. PICK was \in RowType : was = stale[i] /\ Shows(was) /\ now.mail = was.mail
    BY <1>4, <1>5, <1>6
<1>8. PICK s : s = Settled(now, was)
    OBVIOUS
<1>9. s \in RowType /\ s.mail = now.mail /\ Shows(s)
    BY <1>6, <1>7, <1>8, SettledFacts
<1>10. PICK new : new = [k \in {i} |-> s]
    OBVIOUS
<1>11. mine' = Writing(mine, {i}, new)
    BY <1>2, <1>6, <1>7, <1>8, <1>10, Zenon
<1>12. \A k \in {i} : /\ new[k] \in RowType /\ Shows(new[k])
                      /\ k \in Table(mine) => new[k].mail = Row(mine, k).mail
    BY <1>6, <1>9, <1>10
<1>13. \E n \in Nat : Table(mine) \union {i} = 1..n
  <2>1. Table(mine) \union {i} = Table(mine)
    BY <1>4
  <2> QED BY <2>1 DEF GmailInv, TableIsFilled
<1>14. /\ \A k \in DOMAIN mine' : mine'[k] \in RowType
       /\ MineShows' /\ TableIsFilled'
       /\ Table(mine') = Table(mine) \union {i}
       /\ \A k \in Table(mine) : Row(mine', k).mail = Row(mine, k).mail
    BY <1>1, <1>11, <1>12, <1>13, WriteFacts
<1>15. /\ pc' \in {"reconciling", "next", "counting"}
       /\ order' \in Seq(SyncFolders) /\ OrderFits'
    BY <1>1, <1>3, OnwardFacts
<1>16. \A k \in DOMAIN stale' : k \in DOMAIN stale /\ stale'[k] = stale[k]
    BY <1>2
<1>17. StaleShows'
  <2> SUFFICES ASSUME NEW k \in DOMAIN stale'
               PROVE  Shows(stale[k])' /\ stale'[k].mail = Row(mine, k)'.mail
    BY DEF StaleShows
  <2>1. Row(mine, k)' = Row(mine', k)
    BY <1>1 DEF Row
  <2>2. stale'[k].mail = Row(mine', k).mail
    BY <1>4, <1>5, <1>14, <1>16
  <2>3. Shows(stale[k])'
    BY <1>1, <1>5, <1>16 DEF Shows, gmailVars
  <2> QED BY <2>1, <2>2, <2>3
<1>18. TypeOK'
  <2>1. \A k \in DOMAIN stale' : k \in Table(mine') /\ stale'[k] \in RowType
    BY <1>4, <1>14, <1>16
  <2>2. /\ present' \subseteq Mails /\ found' \subseteq Mails /\ count' \in Nat
        /\ \A m \in DOMAIN fetched' : m \in Mails /\ fetched'[m] \in [is_read : BOOLEAN, is_deleted : BOOLEAN]
        /\ actions' \in 0..MaxActions /\ failures' \in 0..MaxFailures
    BY <1>1, <1>3, ActingFacts DEF TypeOK
  <2> QED BY <1>1, <1>3, <1>14, <1>15, <2>1, <2>2, FrameType
<1>19. FoundHasLeft' /\ FetchedHasLeft'
    BY <1>15 DEF FoundHasLeft, FetchedHasLeft
<1> QED BY <1>1, <1>14, <1>15, <1>17, <1>18, <1>19, GmailFrame

\* The flags of all rows of a folder.
LEMMA GmailFlags ==
    ASSUME GmailInv, UnreadIds
    PROVE  GmailInv'
<1> DEFINE ids == Newest(In(Folder) \intersect unread, count)
           known == RowsIn(mine, Folder)
           flags == [i \in known |-> Flagged(Row(mine, i), ids)]
<1>1. /\ pc = "counted" /\ Counted
      /\ UNCHANGED <<gmailVars, rows, present, found, fetched, stale, request, events>>
    BY DEF UnreadIds
<1>2. mine' = Writing(mine, known, flags) \/ mine' = mine
    BY Zenon DEF UnreadIds
<1>3. TypeOK /\ OrderFits
    BY DEF GmailInv
<1>4. known \subseteq Table(mine)
    BY DEF RowsIn
<1>5. ASSUME NEW i \in known
      PROVE  flags[i] \in RowType /\ Shows(flags[i]) /\ flags[i].mail = Row(mine, i).mail
  <2>1. PICK r \in RowType : r = Row(mine, i) /\ Shows(r)
    BY <1>4, TableRows
  <2>2. flags[i] = [r EXCEPT !.is_read = r.mail \notin ids]
    BY <2>1 DEF Flagged
  <2>3. (r.mail \notin ids) \in BOOLEAN
    OBVIOUS
  <2> HIDE DEF ids, flags
  <2> QED BY <2>1, <2>2, <2>3 DEF RowType, Shows
<1> HIDE DEF ids, flags, known
<1>6. /\ \A i \in DOMAIN mine' : mine'[i] \in RowType
      /\ MineShows' /\ TableIsFilled'
      /\ Table(mine') = Table(mine)
      /\ \A i \in Table(mine) : Row(mine', i).mail = Row(mine, i).mail
  <2>1. CASE mine' = mine
    BY <1>1, <1>3, <2>1, MineStays DEF TypeOK
  <2>2. CASE mine' = Writing(mine, known, flags)
    <3>1. Table(mine) \union known = Table(mine)
      BY <1>4
    <3>2. \E n \in Nat : Table(mine) \union known = 1..n
      BY <3>1 DEF GmailInv, TableIsFilled
    <3> QED BY <1>1, <1>5, <2>2, <3>1, <3>2, WriteFacts
  <2> QED BY <1>2, <2>1, <2>2
<1>7. /\ pc' \in {"counting", "done"}
      /\ order' \in Seq(SyncFolders) /\ OrderFits' /\ count' \in Nat
    BY <1>1, <1>3, CountedFacts
<1>8. StaleShows'
  <2> SUFFICES ASSUME NEW k \in DOMAIN stale
               PROVE  Shows(stale[k])' /\ stale[k].mail = Row(mine, k)'.mail
    BY <1>1 DEF StaleShows
  <2>1. k \in Table(mine) /\ Shows(stale[k]) /\ stale[k].mail = Row(mine, k).mail
    BY <1>3 DEF GmailInv, StaleShows, TypeOK
  <2>2. Row(mine, k)' = Row(mine', k)
    BY <1>1 DEF Row
  <2>3. Shows(stale[k])'
    BY <1>1, <2>1 DEF Shows, gmailVars
  <2> QED BY <1>6, <2>1, <2>2, <2>3
<1>9. TypeOK'
  <2>1. \A k \in DOMAIN stale' : k \in Table(mine') /\ stale'[k] \in RowType
    BY <1>1, <1>3, <1>6 DEF TypeOK
  <2>2. /\ present' \subseteq Mails /\ found' \subseteq Mails
        /\ \A m \in DOMAIN fetched' : m \in Mails /\ fetched'[m] \in [is_read : BOOLEAN, is_deleted : BOOLEAN]
        /\ actions' \in 0..MaxActions /\ failures' \in 0..MaxFailures
    BY <1>1, <1>3, ActingFacts DEF TypeOK
  <2> QED BY <1>1, <1>3, <1>6, <1>7, <2>1, <2>2, FrameType
<1>10. FoundHasLeft' /\ FetchedHasLeft'
    BY <1>7 DEF FoundHasLeft, FetchedHasLeft
<1> QED BY <1>1, <1>6, <1>7, <1>8, <1>9, <1>10, GmailFrame

\* A merge writes rows of the fetched mails: known ones where they are, new ones after
\* all the others.
LEMMA GmailMergeWrites ==
    ASSUME GmailInv, MergeFolder
    PROVE  \E S, new :
             /\ mine' = Writing(mine, S, new)
             /\ \A i \in S : /\ new[i] \in RowType /\ Shows(new[i])
                             /\ i \in Table(mine) => new[i].mail = Row(mine, i).mail
             /\ \E n \in Nat : Table(mine) \union S = 1..n
<1> DEFINE f == Folder
           old == {m \in DOMAIN fetched : Existing(f, m) # {}}
           fresh == DOMAIN fetched \ old
           Place(m) == Cardinality(Table(mine)) + Cardinality({k \in fresh : k <= m})
<1>1. PICK row \in [old -> Table(mine)] :
         /\ \A m \in old : row[m] \in Existing(f, m)
         /\ mine' = Writing(mine, {row[m] : m \in old} \union {Place(m) : m \in fresh},
                            [i \in {row[m] : m \in old} \union {Place(m) : m \in fresh} |->
                               LET m == CHOOSE m \in DOMAIN fetched :
                                          IF m \in old THEN row[m] = i ELSE Place(m) = i
                               IN IF m \in old THEN Merged(Row(mine, i), m) ELSE NewRow(f, m)])
    BY Zenon DEF MergeFolder
<1> DEFINE S == {row[m] : m \in old} \union {Place(m) : m \in fresh}
           Of(i) == CHOOSE m \in DOMAIN fetched : IF m \in old THEN row[m] = i ELSE Place(m) = i
           new == [i \in S |-> IF Of(i) \in old THEN Merged(Row(mine, i), Of(i)) ELSE NewRow(f, Of(i))]
<1>2. mine' = Writing(mine, S, new)
    BY <1>1, Zenon
<1>3. PICK n \in Nat : Table(mine) = 1..n
    BY DEF GmailInv, TableIsFilled
<1>4. Cardinality(Table(mine)) = n
    BY <1>3, FS_Interval
<1>5. /\ pc = "fetched"
      /\ \A m \in DOMAIN fetched : m \in Mails /\ fetched[m] \in [is_read : BOOLEAN, is_deleted : BOOLEAN]
      /\ \A m \in DOMAIN fetched :
           label[m] # "none" /\ (m \notin left => f = "inbox" /\ ~fetched[m].is_deleted)
    BY DEF MergeFolder, GmailInv, TypeOK, FetchedHasLeft
<1>6. f \in SyncFolders
  <2>1. order \in Seq(SyncFolders) /\ order # <<>>
    BY <1>5 DEF GmailInv, TypeOK, OrderFits
  <2> QED BY <2>1, HeadTailProperties DEF Folder
<1>7. /\ Cardinality(fresh) \in Nat
      /\ \A m \in fresh : Cardinality({k \in fresh : k <= m}) \in 1..Cardinality(fresh)
      /\ \A p \in 1..Cardinality(fresh) : \E m \in fresh : Cardinality({k \in fresh : k <= m}) = p
  <2>1. fresh \in SUBSET Mails
    BY <1>5
  <2> HIDE DEF fresh
  <2>2. fresh \in SUBSET Nat /\ IsFiniteSet(fresh)
    BY <2>1, MailsAreFinite, GmailAssumptions DEF Mails
  <2> QED BY <2>2, RankFacts
<1>8. \A m \in fresh : Place(m) \in n + 1..n + Cardinality(fresh)
  <2> HIDE DEF fresh
  <2> QED BY <1>3, <1>4, <1>7
<1>9. \A p \in n + 1..n + Cardinality(fresh) : \E m \in fresh : Place(m) = p
  <2> HIDE DEF fresh
  <2> SUFFICES ASSUME NEW p \in n + 1..n + Cardinality(fresh) PROVE \E m \in fresh : Place(m) = p
    OBVIOUS
  <2>1. p - n \in 1..Cardinality(fresh)
    BY <1>3, <1>7
  <2>2. PICK m \in fresh : Cardinality({k \in fresh : k <= m}) = p - n
    BY <1>7, <2>1
  <2>3. n + (p - n) = p
    BY <1>3
  <2>4. Place(m) = p
    BY <1>4, <2>2, <2>3
  <2> QED BY <2>4
<1> HIDE DEF Place
<1>10. Table(mine) \union S = 1..(n + Cardinality(fresh))
  <2> HIDE DEF fresh, old
  <2>1. \A m \in old : row[m] \in 1..n
    BY <1>1, <1>3
  <2>2. S \subseteq 1..(n + Cardinality(fresh))
    BY <1>3, <1>7, <1>8, <2>1
  <2>3. \A p \in 1..(n + Cardinality(fresh)) : p \in 1..n \/ p \in n + 1..n + Cardinality(fresh)
    BY <1>3, <1>7
  <2>4. \A p \in n + 1..n + Cardinality(fresh) : p \in S
    BY <1>9
  <2>5. 1..n \subseteq 1..(n + Cardinality(fresh))
    BY <1>3, <1>7
  <2> HIDE DEF S
  <2> QED BY <1>3, <2>2, <2>3, <2>4, <2>5
<1>11. ASSUME NEW i \in S
       PROVE  /\ new[i] \in RowType /\ Shows(new[i])
              /\ i \in Table(mine) => new[i].mail = Row(mine, i).mail
  <2>1. \E m \in DOMAIN fetched : IF m \in old THEN row[m] = i ELSE Place(m) = i
    <3>1. CASE \E m \in old : row[m] = i
      BY <3>1
    <3>2. CASE \E m \in fresh : Place(m) = i
      BY <3>2
    <3> QED BY <3>1, <3>2
  <2>2. PICK m : m = Of(i)
    OBVIOUS
  <2>3. m \in DOMAIN fetched /\ (IF m \in old THEN row[m] = i ELSE Place(m) = i)
    BY <2>1, <2>2, Zenon
  <2>4. new[i] = IF m \in old THEN Merged(Row(mine, i), m) ELSE NewRow(f, m)
    <3>1. new[i] = IF Of(i) \in old THEN Merged(Row(mine, i), Of(i)) ELSE NewRow(f, Of(i))
      <4> HIDE DEF S, Of, old
      <4> QED OBVIOUS
    <3> HIDE DEF new, Of, old
    <3> QED BY <2>2, <3>1, Zenon
  <2>5. CASE m \in old
    <3>1. row[m] = i /\ i \in Existing(f, m)
      BY <1>1, <2>3, <2>5
    <3>2. i \in Table(mine) /\ Row(mine, i).folder = f /\ Row(mine, i).mail = m
      BY <3>1 DEF Existing, RowsIn
    <3>3. PICK r \in RowType : r = Row(mine, i)
      BY <3>2, TableRows
    <3>4. PICK read \in BOOLEAN, deleted \in BOOLEAN :
             fetched[m].is_read = read /\ fetched[m].is_deleted = deleted
      BY <1>5, <2>3
    <3>5. new[i] = [r EXCEPT !.is_read = read, !.is_deleted = deleted]
      BY <2>4, <2>5, <3>3, <3>4 DEF Merged
    <3> HIDE DEF new, S, Of, old
    <3> QED BY <1>5, <2>3, <3>2, <3>3, <3>4, <3>5 DEF RowType, Shows
  <2>6. CASE m \notin old
    <3>1. m \in fresh /\ Place(m) = i
      BY <2>3, <2>6
    <3>2. i \notin Table(mine)
      <4> HIDE DEF fresh
      <4> QED BY <1>3, <1>7, <1>8, <3>1
    <3>3. new[i] = NewRow(f, m)
      BY <2>4, <2>6
    <3>4. PICK read \in BOOLEAN, deleted \in BOOLEAN :
             fetched[m].is_read = read /\ fetched[m].is_deleted = deleted
      BY <1>5, <2>3
    <3>5. new[i] = [mail |-> m, folder |-> f, is_read |-> read, is_deleted |-> deleted]
      BY <3>3, <3>4 DEF NewRow
    <3> HIDE DEF new, S, Of, old, fresh
    <3> QED BY <1>5, <1>6, <2>3, <3>2, <3>4, <3>5 DEF RowType, Shows, SyncFolders, Labels
  <2> QED BY <2>5, <2>6
<1>12. \E k \in Nat : Table(mine) \union S = 1..k
  <2> HIDE DEF S, fresh
  <2>1. n + Cardinality(fresh) \in Nat
    BY <1>3, <1>7
  <2> QED BY <1>10, <2>1
<1> HIDE DEF S, new
<1> QED BY <1>2, <1>11, <1>12

LEMMA GmailMerge ==
    ASSUME GmailInv, MergeFolder
    PROVE  GmailInv'
<1>1. /\ pc = "fetched" /\ Onward /\ present' = {} /\ fetched' = Empty
      /\ UNCHANGED <<gmailVars, rows, found, count, request, events>>
    BY Zenon DEF MergeFolder
<1>2. TypeOK /\ OrderFits
    BY DEF GmailInv
<1>3. PICK S, new :
         /\ mine' = Writing(mine, S, new)
         /\ \A i \in S : /\ new[i] \in RowType /\ Shows(new[i])
                         /\ i \in Table(mine) => new[i].mail = Row(mine, i).mail
         /\ \E n \in Nat : Table(mine) \union S = 1..n
    BY GmailMergeWrites
<1>4. /\ \A i \in DOMAIN mine' : mine'[i] \in RowType
      /\ MineShows' /\ TableIsFilled'
      /\ \A i \in Table(mine') : Row(mine', i) \in RowType /\ Shows(Row(mine', i))
    BY <1>1, <1>3, WriteFacts
<1>5. PICK T \in StaleChoices(mine', Folder) : stale' = [i \in T |-> Row(mine', i)]
    BY Zenon DEF MergeFolder
<1>6. T \subseteq Table(mine')
    BY <1>5 DEF StaleChoices, StaleRows, RowsIn
<1>7. /\ pc' \in {"reconciling", "next", "counting"}
      /\ order' \in Seq(SyncFolders) /\ OrderFits'
    BY <1>1, <1>2, OnwardFacts
<1>8. TypeOK'
  <2>1. \A i \in DOMAIN stale' : i \in Table(mine') /\ stale'[i] \in RowType
    BY <1>4, <1>5, <1>6
  <2>2. /\ present' \subseteq Mails /\ found' \subseteq Mails /\ count' \in Nat
        /\ DOMAIN fetched' = {}
        /\ actions' \in 0..MaxActions /\ failures' \in 0..MaxFailures
    BY <1>1, <1>2, ActingFacts DEF TypeOK, Empty
  <2> QED BY <1>1, <1>2, <1>4, <1>7, <2>1, <2>2, FrameType
<1>9. StaleShows'
  <2> SUFFICES ASSUME NEW i \in DOMAIN stale'
               PROVE  Shows(stale[i])' /\ stale'[i].mail = Row(mine, i)'.mail
    BY DEF StaleShows
  <2>1. Row(mine, i)' = Row(mine', i)
    BY <1>1 DEF Row
  <2>2. i \in Table(mine') /\ stale'[i] = Row(mine', i)
    BY <1>5, <1>6
  <2>3. Shows(stale'[i])
    BY <1>4, <2>2
  <2>4. Shows(stale[i])'
    BY <1>1, <2>3 DEF Shows, gmailVars
  <2> QED BY <2>1, <2>2, <2>4
<1>10. FoundHasLeft' /\ FetchedHasLeft'
    BY <1>7 DEF FoundHasLeft, FetchedHasLeft
<1> QED BY <1>1, <1>4, <1>7, <1>8, <1>9, <1>10, GmailFrame

\* The end of a synchronization, with its rows or without.
LEMMA GmailEnd ==
    ASSUME GmailInv, Ended, UNCHANGED <<gmailVars, request>>,
           rows' \in Seq(RowType), \A i \in DOMAIN rows' : Shows(rows'[i]),
           \A i \in DOMAIN rows : i \in DOMAIN rows' /\ rows'[i].mail = rows[i].mail,
           actions' \in 0..MaxActions, failures' \in 0..MaxFailures
    PROVE  GmailInv'
<1>1. UNCHANGED <<label, unread, left>>
    BY DEF gmailVars
<1>2. /\ pc' = "idle" /\ order' = <<>> /\ present' = {} /\ found' = {} /\ count' = 0
      /\ mine' = Empty /\ DOMAIN fetched' = {} /\ DOMAIN stale' = {} /\ DOMAIN mine' = {}
    BY DEF Ended, Empty
<1>3. order' \in Seq(SyncFolders)
    BY <1>2
<1>4. TypeOK'
    BY <1>1, <1>2, <1>3 DEF GmailInv, TypeOK
<1>5. RowsShow'
    BY <1>1 DEF RowsShow, Shows
<1>6. TableIsFilled'
  <2>1. DOMAIN rows' = 1..Len(rows') /\ Len(rows') \in Nat
    OBVIOUS
  <2> QED BY <1>2, <2>1 DEF TableIsFilled, Table
<1>7. RequestFits' /\ PushedHasLeft'
    BY <1>1 DEF GmailInv, TypeOK, RequestFits, PushedHasLeft, Shows
<1>8. /\ OrderFits' /\ LeavingIsKnown' /\ MineShows' /\ StaleShows'
      /\ FoundHasLeft' /\ FetchedHasLeft'
    BY <1>1, <1>2
    DEF GmailInv, OrderFits, LeavingIsKnown, MineShows, StaleShows, FoundHasLeft, FetchedHasLeft
<1> QED BY <1>4, <1>5, <1>6, <1>7, <1>8 DEF GmailInv

LEMMA GmailStopped ==
    ASSUME GmailInv, Commit \/ GetFails \/ SyncFails
    PROVE  GmailInv'
<1>1. Ended /\ UNCHANGED <<gmailVars, request>>
    BY DEF Commit, GetFails, SyncFails
<1>2. TypeOK
    BY DEF GmailInv
<1>3. actions' \in 0..MaxActions /\ failures' \in 0..MaxFailures
    BY <1>2, ActingFacts DEF Commit, GetFails, SyncFails
<1>4. CASE Commit
  <2>1. PICK n \in Nat : Table(mine) = 1..n
    BY DEF GmailInv, TableIsFilled
  <2>2. rows' = [i \in 1..n |-> Row(mine, i)]
    <3>1. Cardinality(Table(mine)) = n
      BY <2>1, FS_Interval
    <3> QED BY <1>4, <3>1 DEF Commit
  <2>3. \A i \in 1..n : /\ Row(mine, i) \in RowType /\ Shows(Row(mine, i))
                        /\ i \in DOMAIN rows => Row(mine, i).mail = rows[i].mail
    BY <2>1, TableRows
  <2>4. rows' \in Seq(RowType) /\ DOMAIN rows' = 1..n
    BY <2>2, <2>3
  <2>5. \A i \in DOMAIN rows' : Shows(rows'[i])
    BY <2>2, <2>3, <2>4
  <2>6. \A i \in DOMAIN rows : i \in DOMAIN rows' /\ rows'[i].mail = rows[i].mail
    <3>1. DOMAIN rows \subseteq 1..n
      BY <2>1 DEF Table
    <3> QED BY <2>2, <2>3, <2>4, <3>1
  <2> QED BY <1>1, <1>3, <2>4, <2>5, <2>6, GmailEnd
<1>5. CASE GetFails \/ SyncFails
  <2>1. UNCHANGED rows
    BY <1>5 DEF GetFails, SyncFails
  <2> QED BY <1>1, <1>2, <1>3, <2>1, GmailEnd DEF TypeOK, GmailInv, RowsShow
<1> QED BY <1>4, <1>5

-----------------------------------------------------------------------------
LEMMA GmailInit == Init => GmailInv
<1> SUFFICES ASSUME Init PROVE GmailInv
    OBVIOUS
<1>1. /\ DOMAIN rows = {} /\ DOMAIN mine = {} /\ DOMAIN stale = {} /\ DOMAIN fetched = {}
      /\ request = NoRequest /\ pc = "idle" /\ left = {} /\ unread = {}
      /\ present = {} /\ found = {} /\ mine = Empty
    BY DEF Init, Empty
<1>2. rows \in Seq(RowType) /\ order \in Seq(SyncFolders)
    BY DEF Init
<1>3. actions \in 0..MaxActions /\ failures \in 0..MaxFailures /\ count \in Nat
    BY GmailAssumptions DEF Init
<1>4. /\ label \in [Mails -> Labels \union {"none", "gone"}]
      /\ \A m \in Mails : label[m] = "none"
    BY DEF Init
<1>5. TypeOK
    BY <1>1, <1>2, <1>3, <1>4 DEF TypeOK
<1>6. TableIsFilled
  <2>1. Table(mine) = 1..0
    BY <1>1 DEF Table
  <2> QED BY <2>1 DEF TableIsFilled
<1>7. OrderFits /\ LeavingIsKnown /\ RowsShow /\ MineShows /\ StaleShows
    BY <1>1, <1>4 DEF OrderFits, LeavingIsKnown, RowsShow, MineShows, StaleShows
<1>8. FoundHasLeft /\ FetchedHasLeft /\ RequestFits /\ PushedHasLeft
    BY <1>1 DEF FoundHasLeft, FetchedHasLeft, RequestFits, PushedHasLeft, NoRequest
<1> QED BY <1>5, <1>6, <1>7, <1>8 DEF GmailInv

LEMMA GmailNext == GmailInv /\ [Next]_vars => GmailInv'
<1> SUFFICES ASSUME GmailInv, [Next]_vars PROVE GmailInv'
    OBVIOUS
<1>1. CASE MailArrives
    BY <1>1, GmailArrival
<1>2. CASE \E m \in Mails : ClientFlags(m)
    BY <1>2, GmailClient
<1>3. CASE \E m \in Mails, l \in Labels \union {"gone"} : ClientMoves(m, l)
    BY <1>3, GmailClient
<1>4. CASE ListIds \/ ListMails
    BY <1>4, GmailListing
<1>5. CASE GetMails
    BY <1>5, GmailGet
<1>6. CASE Commit \/ GetFails \/ SyncFails
    BY <1>6, GmailStopped
<1>7. CASE MergeFolder
    BY <1>7, GmailMerge
<1>8. CASE ReconcileRow
    BY <1>8, GmailReconcile
<1>9. CASE LabelStats \/ StatsFail
    BY <1>9, GmailStats
<1>10. CASE UnreadIds
    BY <1>10, GmailFlags
<1>11. CASE \E op \in Operations : \E to \in Targets(op) : \E i \in DOMAIN rows : RequestStarts(op, to, i)
    BY <1>11, GmailStart
<1>12. CASE Push
    BY <1>12, GmailPush
<1>13. CASE PushRefused \/ PushFails \/ RequestDies
    BY <1>13, GmailDrop
<1>14. CASE RequestCommits
    BY <1>14, GmailAnswer
<1>15. CASE UNCHANGED vars
  <2>1. UNCHANGED <<label, unread, left, rows, syncVars, request, events>>
    BY <1>15 DEF vars, gmailVars
  <2>2. GmailStep /\ LeavingIsKnown'
    BY <2>1 DEF GmailStep, GmailInv, LeavingIsKnown
  <2>3. TypeOK'
    BY <2>1, QuietType, ActingFacts DEF GmailInv, TypeOK
  <2>4. RequestFits' /\ PushedHasLeft'
    BY <2>1, <2>2, RequestStays
  <2> QED BY <2>1, <2>2, <2>3, <2>4, GmailQuiet
<1> QED BY <1>1, <1>2, <1>3, <1>4, <1>5, <1>6, <1>7, <1>8, <1>9, <1>10, <1>11, <1>12, <1>13, <1>14, <1>15
        DEF Next, Sync

\* Labels, rows, the transaction of a synchronization and a request keep their types;
\* among others a request and the stale rows a synchronization asks about are of the
\* table (sync_tasks.py 488-534).
THEOREM GmailTypesAreKept == Spec => []TypeOK
<1>1. GmailInv => TypeOK
    BY DEF GmailInv
<1> QED BY <1>1, GmailInit, GmailNext, PTL DEF Spec

\* A mail that never left the inbox of Gmail is shown there by all its rows, for any
\* limits of the listings and whatever arrives, is moved or fails between the calls of a
\* synchronization (sync_tasks.py 488-534).
THEOREM NoMailIsHidden == Spec => []NothingIsHidden
<1>1. GmailInv => NothingIsHidden
    BY DEF GmailInv, RowsShow, Shows, NothingIsHidden
<1> QED BY <1>1, GmailInit, GmailNext, PTL DEF Spec
=============================================================================
