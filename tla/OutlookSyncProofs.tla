-------------------------- MODULE OutlookSyncProofs -------------------------
(***************************************************************************)
(* Theorems about OutlookSync: types, where two rows of a mail come from,  *)
(* and that rows are in step with Graph as long as nobody else moves their *)
(* mails.  One invariant carries all three: it says of the table as the    *)
(* synchronization's transaction sees it what the properties say of the    *)
(* table, and what a listing, and a request that has moved a mail but not  *)
(* yet its row, may rely on.                                               *)
(***************************************************************************)
EXTENDS OutlookSync, FiniteSetTheorems, SequenceTheorems, TLAPS

-----------------------------------------------------------------------------
(* The inductive invariant.                                                *)

\* What a row is about, and where and under which id it has it: all of it but the flag.
Keys(r) == <<r.mail, r.folder, r.id>>

\* Mails arrive one after the other.
ArriveInOrder == \E n \in 0..MailCount : \A m \in Mails : place[m] # "none" <=> m <= n

\* The new rows follow the others without a gap.
TableIsFilled == \E n \in Nat : Table(mine) = 1..n

\* A synchronization changes nothing but the flag of a row.
OnlyFlags == \A i \in DOMAIN mine \intersect DOMAIN rows : Keys(mine[i]) = Keys(rows[i])

\* What has a row, or was listed, has arrived.
RowsHaveArrived == \A i \in Table(mine) : place[Row(mine, i).mail] # "none"

\* What was listed is still there, under the same id, unless it was moved meanwhile,
\* which is then an excuse.
ListedIsThere ==
    listed =>
        /\ Syncing
        /\ Head(order) \in Folders
        /\ \A m \in DOMAIN fetched :
             /\ place[m] # "none"
             /\ m \notin excused => place[m] = Head(order) /\ fetched[m].id = gen[m]

\* Nobody else moves the row a request has loaded.
RequestFits == request # NoRequest => Keys(request.row) = Keys(rows[request.at])

\* The mail a request has moved and whose row it has yet to write.
Underway == IF request.step = "pushed" THEN InFlight ELSE {}

\* It is where the row will say, and no synchronization has begun, or it is excused.
UnderwayIsThere ==
    \A m \in Underway \ excused :
        /\ ~Syncing
        /\ place[m] = Destination(request.op) \/ (request.op = "delete" /\ place[m] = "gone")
        /\ request.op # "delete" => request.id = gen[m]

\* A row says where Graph has the mail.
InStep(r) ==
    /\ r.folder = place[r.mail] \/ (r.folder = "trash" /\ place[r.mail] = "gone")
    /\ r.folder = "trash" \/ r.id = gen[r.mail]

RowsAreTrue ==
    \A i \in Table(mine) : Row(mine, i).mail \notin excused \union Underway => InStep(Row(mine, i))

OneRowEach ==
    \A i, j \in Table(mine) :
        Row(mine, i).mail = Row(mine, j).mail => i = j \/ Row(mine, i).mail \in excused

\* What DoublesOnlyByMoves says of the table holds of what a transaction makes of it.
DoublesInView ==
    \A i, j \in Table(mine) :
        Row(mine, i).mail = Row(mine, j).mail /\ Row(mine, i).folder = Row(mine, j).folder
            => i = j \/ <<Row(mine, i).mail, Row(mine, i).folder>> \in brought

OutlookInv ==
    /\ TypeOK
    /\ ArriveInOrder
    /\ TableIsFilled
    /\ OnlyFlags
    /\ RowsHaveArrived
    /\ ListedIsThere
    /\ RequestFits
    /\ UnderwayIsThere
    /\ RowsAreTrue
    /\ OneRowEach
    /\ DoublesInView

-----------------------------------------------------------------------------
(* Places of new rows, and rows that differ in the flag.                   *)

\* The rank of a number in a finite set, from the greatest on: every place is taken once.
LEMMA RankFacts ==
    ASSUME NEW S \in SUBSET Nat, IsFiniteSet(S)
    PROVE  /\ Cardinality(S) \in Nat
           /\ \A x \in S : Cardinality({k \in S : k >= x}) \in 1..Cardinality(S)
           /\ \A x, y \in S : Cardinality({k \in S : k >= x}) = Cardinality({k \in S : k >= y}) => x = y
           /\ \A n \in 1..Cardinality(S) : \E x \in S : Cardinality({k \in S : k >= x}) = n
<1> DEFINE downTo(x) == {k \in S : k >= x}
           n == Cardinality(S)
<1>1. n \in Nat
    BY FS_CardinalityType
<1>2. ASSUME NEW x \in S
      PROVE  IsFiniteSet(downTo(x)) /\ Cardinality(downTo(x)) \in 1..n
  <2>1. downTo(x) \in SUBSET S /\ x \in downTo(x)
    OBVIOUS
  <2> HIDE DEF downTo
  <2>2. IsFiniteSet(downTo(x)) /\ Cardinality(downTo(x)) <= n
    BY <2>1, FS_Subset
  <2>3. Cardinality(downTo(x)) \in Nat /\ Cardinality(downTo(x)) # 0
    BY <2>1, <2>2, FS_CardinalityType, FS_EmptySet
  <2> QED BY <1>1, <2>2, <2>3
<1>3. ASSUME NEW x \in S, NEW y \in S, x > y
      PROVE  Cardinality(downTo(x)) # Cardinality(downTo(y))
  <2>1. downTo(x) \in SUBSET downTo(y) /\ y \in downTo(y) /\ y \notin downTo(x)
    <3>1. \A k \in S : k >= x => k >= y
      BY <1>3
    <3>2. downTo(x) \in SUBSET downTo(y)
      BY <3>1
    <3>3. y >= y /\ ~(y >= x)
      BY <1>3
    <3> QED BY <3>2, <3>3
  <2> HIDE DEF downTo
  <2> QED BY <1>2, <2>1, FS_Subset
<1>4. ASSUME NEW x \in S, NEW y \in S, Cardinality(downTo(x)) = Cardinality(downTo(y))
      PROVE  x = y
  <2>1. ~(x > y) /\ ~(y > x)
    BY <1>3, <1>4
  <2> QED BY <2>1
<1> DEFINE rank == [x \in S |-> Cardinality(downTo(x))]
<1>5. rank \in Injection(S, 1..n)
  <2>1. rank \in [S -> 1..n]
    <3> HIDE DEF downTo
    <3> QED BY <1>2
  <2>2. \A x, y \in S : rank[x] = rank[y] => x = y
    <3> HIDE DEF downTo
    <3> QED BY <1>4
  <2> HIDE DEF rank
  <2> QED BY <2>1, <2>2 DEF Injection, IsInjective
<1>6. IsFiniteSet(1..n) /\ Cardinality(1..n) = n
    BY <1>1, FS_Interval
<1>7. rank \in Surjection(S, 1..n)
  <2> HIDE DEF rank
  <2> QED BY <1>5, <1>6, FS_Injection
<1>8. ASSUME NEW i \in 1..n PROVE \E x \in S : Cardinality(downTo(x)) = i
  <2>1. \E x \in S : rank[x] = i
    <3> HIDE DEF rank
    <3> QED BY <1>7 DEF Surjection
  <2> QED BY <2>1
<1> QED BY <1>1, <1>2, <1>4, <1>8

LEMMA MailsAreFinite ==
    /\ IsFiniteSet(Mails)
    /\ \A S \in SUBSET Mails : IsFiniteSet(S) /\ Cardinality(S) \in Nat
<1>1. IsFiniteSet(Mails)
    BY OutlookAssumptions, FS_Interval DEF Mails
<1>2. ASSUME NEW S \in SUBSET Mails PROVE IsFiniteSet(S) /\ Cardinality(S) \in Nat
    BY <1>1, FS_Subset, FS_CardinalityType
<1> QED BY <1>1, <1>2

LEMMA KeysFacts ==
    ASSUME NEW r, NEW s, Keys(r) = Keys(s)
    PROVE  r.mail = s.mail /\ r.folder = s.folder /\ r.id = s.id /\ (InStep(r) <=> InStep(s))
BY DEF Keys, InStep

\* The rows as a transaction sees them.
LEMMA TableRows ==
    ASSUME TypeOK, NEW i \in Table(mine)
    PROVE  Row(mine, i) \in RowType
<1>1. CASE i \in DOMAIN mine
    BY <1>1 DEF TypeOK, Row
<1>2. CASE i \notin DOMAIN mine
    BY <1>2 DEF TypeOK, Row, Table
<1> QED BY <1>1, <1>2

\* What the session flushes is a flag.
LEMMA FlushedFacts ==
    ASSUME TypeOK
    PROVE  /\ Table(Flushed) = Table(mine)
           /\ \A i \in DOMAIN Flushed : Flushed[i] \in RowType
           /\ \A i \in Table(mine) : /\ Row(Flushed, i) \in RowType
                                     /\ Keys(Row(Flushed, i)) = Keys(Row(mine, i))
<1>1. DOMAIN Flushed = DOMAIN mine \union DOMAIN late
    BY DEF Flushed
<1>2. \A i \in DOMAIN late : i \in Table(mine) /\ late[i] \in BOOLEAN
    BY DEF TypeOK
<1>3. Table(Flushed) = Table(mine)
    BY <1>1, <1>2 DEF Table
<1>4. ASSUME NEW i \in DOMAIN Flushed
      PROVE  Flushed[i] \in RowType /\ Keys(Flushed[i]) = Keys(Row(mine, i))
  <2>1. i \in Table(mine)
    BY <1>1, <1>2 DEF Table
  <2>2. PICK r \in RowType : r = Row(mine, i)
    BY <2>1, TableRows
  <2>3. CASE i \in DOMAIN late
    <3>1. Flushed[i] = [r EXCEPT !.is_read = late[i]]
      BY <1>1, <2>2, <2>3 DEF Flushed
    <3> QED BY <1>2, <2>2, <2>3, <3>1 DEF RowType, Keys
  <2>4. CASE i \notin DOMAIN late
    <3>1. Flushed[i] = mine[i] /\ i \in DOMAIN mine
      BY <1>1, <2>4 DEF Flushed
    <3> QED BY <2>2, <3>1 DEF Row
  <2> QED BY <2>3, <2>4
<1>5. ASSUME NEW i \in Table(mine)
      PROVE  Row(Flushed, i) \in RowType /\ Keys(Row(Flushed, i)) = Keys(Row(mine, i))
  <2>1. CASE i \in DOMAIN Flushed
    BY <1>4, <2>1 DEF Row
  <2>2. CASE i \notin DOMAIN Flushed
    <3>1. Row(Flushed, i) = Row(mine, i)
      BY <1>1, <2>2 DEF Row
    <3> QED BY <3>1, TableRows
  <2> QED BY <2>1, <2>2
<1> QED BY <1>3, <1>4, <1>5

-----------------------------------------------------------------------------
(* Graph, other clients and the user's requests.                           *)

\* What such a step may do to the mails: one that has arrived is moved only if it is
\* excused from then on or, between two synchronizations, if a request is under way.
GraphStep ==
    /\ UNCHANGED <<rows, syncVars, brought>>
    /\ excused \subseteq excused'
    /\ Underway \subseteq Underway' \union excused'
    /\ \A m \in Mails : place[m] # "none" =>
         /\ place'[m] # "none"
         /\ m \in excused' \/ (m \in Underway' /\ ~Syncing) \/ (place'[m] = place[m] /\ gen'[m] = gen[m])

LEMMA GraphQuiet ==
    ASSUME OutlookInv, GraphStep, TypeOK', ArriveInOrder', RequestFits', UnderwayIsThere'
    PROVE  OutlookInv'
<1> USE DEF OutlookInv
<1>0. UNCHANGED <<rows, order, fetched, listed, mine, late, brought>>
    BY DEF GraphStep, syncVars
<1>1. Table(mine)' = Table(mine) /\ \A i : Row(mine, i)' = Row(mine, i)
    BY <1>0 DEF Table, Row
<1>2. \A i \in Table(mine) : Row(mine, i) \in RowType /\ Row(mine, i).mail \in Mails
    BY TableRows DEF RowType
<1>3. TableIsFilled' /\ OnlyFlags'
    BY <1>0, <1>1 DEF TableIsFilled, OnlyFlags, Keys
<1>4. RowsHaveArrived'
    BY <1>1, <1>2 DEF RowsHaveArrived, GraphStep
<1>5. ListedIsThere'
    BY <1>0 DEF ListedIsThere, GraphStep, Syncing, TypeOK
<1>6. RowsAreTrue'
  <2> SUFFICES ASSUME NEW i \in Table(mine),
                      Row(mine, i).mail \notin excused' \union Underway'
               PROVE  InStep(Row(mine, i))'
    BY <1>1 DEF RowsAreTrue
  <2>1. PICK r \in RowType : r = Row(mine, i)
    BY <1>2
  <2>2. r.mail \in Mails /\ r.mail \notin excused \union Underway /\ place[r.mail] # "none"
    BY <1>2, <2>1 DEF GraphStep, RowsHaveArrived
  <2>3. InStep(r)
    BY <2>1, <2>2 DEF RowsAreTrue
  <2>4. InStep(r)'
    BY <2>1, <2>2, <2>3 DEF InStep, GraphStep
  <2> QED BY <1>1, <2>1, <2>4 DEF InStep
<1>7. OneRowEach'
    BY <1>1 DEF OneRowEach, GraphStep
<1>8. DoublesInView'
    BY <1>0, <1>1 DEF DoublesInView
<1> QED BY <1>3, <1>4, <1>5, <1>6, <1>7, <1>8

LEMMA QuietType ==
    ASSUME TypeOK, UNCHANGED <<rows, syncVars>>,
           place' \in [Mails -> Folders \union {"none", "gone"}],
           gen' \in [Mails -> Nat], unread' \subseteq Mails,
           request' # NoRequest => request' \in RequestType /\ request'.at \in DOMAIN rows,
           actions' \in 0..MaxActions, failures' \in 0..MaxFailures
    PROVE  TypeOK'
BY DEF TypeOK, syncVars, Table, Syncing

LEMMA ActingFacts ==
    ASSUME TypeOK
    PROVE  /\ Acting => actions' \in 0..MaxActions /\ failures' \in 0..MaxFailures
           /\ Failing => actions' \in 0..MaxActions /\ failures' \in 0..MaxFailures
           /\ UNCHANGED events => actions' \in 0..MaxActions /\ failures' \in 0..MaxFailures
BY OutlookAssumptions DEF Acting, Failing, events, TypeOK

\* A request that is dropped, or not touched, fits.
LEMMA RequestStays ==
    ASSUME RequestFits, UNCHANGED rows, request' \in {request, NoRequest}
    PROVE  RequestFits'
BY DEF RequestFits, Keys

\* Mails arrive in order as long as none goes back to where it was not.
LEMMA OrderStays ==
    ASSUME ArriveInOrder, \A m \in Mails : place'[m] = "none" <=> place[m] = "none"
    PROVE  ArriveInOrder'
BY DEF ArriveInOrder

LEMMA NoneUnderway ==
    /\ Underway \subseteq InFlight
    /\ request.step # "pushed" => Underway = {}
    /\ request = NoRequest => Underway = {} /\ InFlight = {}
BY DEF Underway, InFlight, NoRequest

LEMMA NoneUnderwayNext ==
    /\ request'.step # "pushed" => Underway' = {}
    /\ request' = NoRequest => Underway' = {} /\ InFlight' = {}
BY DEF Underway, InFlight, NoRequest

LEMMA OutlookArrival == OutlookInv /\ MailArrives => OutlookInv'
<1> SUFFICES ASSUME OutlookInv, MailArrives PROVE OutlookInv'
  OBVIOUS
<1> USE DEF OutlookInv
<1>1. PICK n \in 0..MailCount : \A m \in Mails : place[m] # "none" <=> m <= n
    BY DEF ArriveInOrder
<1>2. Arrived = n
  <2>1. {m \in Mails : place[m] # "none"} = 1..n
    BY <1>1, OutlookAssumptions DEF Mails
  <2>2. n \in Nat
    BY <1>1, OutlookAssumptions
  <2>3. Cardinality(1..n) = n
    BY <2>2, FS_Interval
  <2> QED BY <2>1, <2>3 DEF Arrived
<1>3. n + 1 \in Mails /\ n + 1 \in 0..MailCount /\ n \in Nat
    BY <1>1, <1>2, OutlookAssumptions DEF MailArrives, Mails
<1>4. PICK k \in Mails : k = n + 1
    BY <1>3
<1>5. /\ place' = [place EXCEPT ![k] = "inbox"]
      /\ unread' = unread \union {k}
      /\ UNCHANGED <<gen, history, rows, syncVars, request, events>>
    BY <1>2, <1>4 DEF MailArrives
<1>6. place[k] = "none"
    BY <1>1, <1>3, <1>4
<1>7. TypeOK'
  <2>1. place' \in [Mails -> Folders \union {"none", "gone"}] /\ unread' \subseteq Mails
    BY <1>5 DEF TypeOK, Folders
  <2> QED BY <1>5, <2>1, QuietType, ActingFacts DEF TypeOK
<1>8. ArriveInOrder'
  <2>1. \A m \in Mails : place'[m] # "none" <=> m <= n + 1
    BY <1>1, <1>3, <1>4, <1>5 DEF TypeOK, Mails
  <2> QED BY <1>3, <2>1 DEF ArriveInOrder
<1>9. excused' = excused /\ brought' = brought /\ Underway' = Underway
    BY <1>5 DEF history, Underway, InFlight
<1>10. GraphStep
  <2>1. \A m \in Mails : place[m] # "none" => place'[m] = place[m]
    BY <1>5, <1>6 DEF TypeOK
  <2> QED BY <1>5, <1>9, <2>1 DEF GraphStep
<1>11. RequestFits'
    BY <1>5, RequestStays
<1>12. UnderwayIsThere'
  <2> SUFFICES ASSUME NEW m \in Underway \ excused PROVE place'[m] = place[m]
    BY <1>5, <1>9 DEF UnderwayIsThere, Syncing, syncVars
  <2>1. place[m] # "none"
    BY DEF UnderwayIsThere, Destination, Underway, InFlight, Moving
  <2> QED BY <1>5, <1>6, <2>1 DEF TypeOK
<1> QED BY <1>7, <1>8, <1>10, <1>11, <1>12, GraphQuiet

LEMMA OutlookClient ==
    ASSUME OutlookInv, NEW m \in Mails,
           ClientReads(m) \/ \E f \in Folders \union {"gone"} : ClientMoves(m, f)
    PROVE  OutlookInv'
<1> USE DEF OutlookInv
<1>1. /\ UNCHANGED <<rows, syncVars, request, brought>> /\ Acting
      /\ excused' \in {excused, excused \union {m}}
      /\ unread' \subseteq unread
    BY DEF ClientReads, ClientMoves, Moves, history
<1>2. /\ place' \in [Mails -> Folders \union {"none", "gone"}]
      /\ gen' \in [Mails -> Nat]
      /\ \A k \in Mails \ {m} : place'[k] = place[k] /\ gen'[k] = gen[k]
      /\ \/ place' = place /\ gen' = gen
         \/ m \in excused' /\ place[m] # "none" /\ place'[m] # "none"
  <2>1. CASE ClientReads(m)
    BY <2>1 DEF ClientReads, TypeOK
  <2>2. ASSUME NEW f \in Folders \union {"gone"}, ClientMoves(m, f)
        PROVE  /\ place' \in [Mails -> Folders \union {"none", "gone"}]
               /\ gen' \in [Mails -> Nat]
               /\ \A k \in Mails \ {m} : place'[k] = place[k] /\ gen'[k] = gen[k]
               /\ m \in excused' /\ place[m] # "none" /\ place'[m] # "none"
    <3>1. /\ place' = [place EXCEPT ![m] = f] /\ gen' = [gen EXCEPT ![m] = gen[m] + 1]
          /\ excused' = excused \union {m} /\ place[m] \in Folders
      BY <2>2 DEF ClientMoves, Moves
    <3>2. f # "none" /\ "none" \notin Folders
      BY DEF Folders
    <3> QED BY <3>1, <3>2 DEF TypeOK
  <2> QED BY <2>1, <2>2
<1>3. TypeOK'
    BY <1>1, <1>2, QuietType, ActingFacts DEF TypeOK
<1>4. ArriveInOrder'
    BY <1>2, OrderStays
<1>5. Underway' = Underway
    BY <1>1 DEF Underway, InFlight
<1>6. GraphStep
    BY <1>1, <1>2, <1>5 DEF GraphStep
<1>7. RequestFits'
    BY <1>1, RequestStays
<1>8. UnderwayIsThere'
  <2> SUFFICES ASSUME NEW k \in Underway \ excused' PROVE place'[k] = place[k] /\ gen'[k] = gen[k] /\ k \notin excused
    BY <1>1, <1>5 DEF UnderwayIsThere, Syncing, syncVars
  <2>1. k \in Mails
    BY DEF Underway, InFlight, TypeOK, RequestType, RowType
  <2> QED BY <1>1, <1>2, <2>1
<1> QED BY <1>3, <1>4, <1>6, <1>7, <1>8, GraphQuiet

LEMMA OutlookStart ==
    ASSUME OutlookInv, NEW op \in Operations, NEW i \in DOMAIN rows, RequestStarts(op, i)
    PROVE  OutlookInv'
<1> USE DEF OutlookInv
<1>1. /\ request = NoRequest /\ Acting
      /\ request' = [step |-> "loaded", op |-> op, at |-> i, row |-> rows[i], id |-> rows[i].id]
      /\ UNCHANGED <<graphVars, history, rows, syncVars>>
    BY DEF RequestStarts
<1>2. PICK r \in RowType : r = rows[i] /\ i \in Nat
    BY DEF TypeOK
<1>3. /\ request' \in RequestType /\ request'.at = i /\ request'.row = r
      /\ request'.step = "loaded" /\ request'.id = r.id
    BY <1>1, <1>2 DEF RequestType, RowType
<1>4. TypeOK'
    BY <1>1, <1>3, QuietType, ActingFacts DEF graphVars, TypeOK
<1>5. Underway = {} /\ Underway' = {}
    BY <1>1, <1>3, NoneUnderway, NoneUnderwayNext
<1>6. ArriveInOrder'
    BY <1>1, OrderStays DEF graphVars
<1>7. GraphStep
    BY <1>1, <1>5 DEF GraphStep, graphVars, history
<1>8. RequestFits'
    BY <1>1, <1>2, <1>3 DEF RequestFits, Keys
<1>9. UnderwayIsThere'
    BY <1>5 DEF UnderwayIsThere
<1> QED BY <1>4, <1>6, <1>7, <1>8, <1>9, GraphQuiet

\* What a push does to the mails.
LEMMA PushedFacts ==
    ASSUME OutlookInv, request # NoRequest, Pushed
    PROVE  LET m == request.row.mail
               op == request.op
           IN
           /\ m \in Mails /\ place[m] \notin {"none", "gone"}
           /\ place' \in [Mails -> Folders \union {"none", "gone"}]
           /\ gen' \in [Mails -> Nat]
           /\ unread' \subseteq Mails
           /\ \A k \in Mails : place'[k] = "none" <=> place[k] = "none"
           /\ \A k \in Mails : (k = m /\ Moving(op)) \/ (place'[k] = place[k] /\ gen'[k] = gen[k])
           /\ Moving(op) => place'[m] = Destination(op) \/ (op = "delete" /\ place'[m] = "gone")
<1> DEFINE op == request.op
<1>1. /\ request \in RequestType /\ request.at \in DOMAIN rows
      /\ Keys(request.row) = Keys(rows[request.at])
    BY DEF OutlookInv, TypeOK, RequestFits
<1>2. PICK m \in Mails : m = request.row.mail
    BY <1>1 DEF RequestType, RowType
<1>3. place[m] # "none"
  <2>1. PICK i \in DOMAIN rows : i = request.at
    BY <1>1
  <2>2. i \in Table(mine) /\ Keys(Row(mine, i)) = Keys(rows[i])
    <3>1. CASE i \in DOMAIN mine
      BY <3>1 DEF OutlookInv, OnlyFlags, Row, Table
    <3>2. CASE i \notin DOMAIN mine
      BY <3>2 DEF Row, Table
    <3> QED BY <3>1, <3>2
  <2>3. Row(mine, i).mail = m
    BY <1>1, <1>2, <2>1, <2>2, KeysFacts
  <2> QED BY <2>2, <2>3 DEF OutlookInv, RowsHaveArrived
<1>4. place[m] # "gone"
    BY <1>2 DEF Pushed, Known
<1>5. /\ place \in [Mails -> Folders \union {"none", "gone"}] /\ gen \in [Mails -> Nat]
      /\ unread \subseteq Mails
    BY DEF OutlookInv, TypeOK
<1>6. op \in Operations
    BY <1>1 DEF RequestType
<1>7. CASE op \in {"read", "unread"}
  <2>1. place' = place /\ gen' = gen /\ unread' \in {unread \union {m}, unread \ {m}} /\ ~Moving(op)
    BY <1>2, <1>7 DEF Pushed, Moving
  <2> QED BY <1>2, <1>3, <1>4, <1>5, <2>1
<1>8. CASE op \in {"delete", "archive", "restore"}
  <2>1. PICK f : f = IF op = "delete" /\ place[m] = "trash" THEN "gone" ELSE Destination(op)
    OBVIOUS
  <2>2. /\ place' = [place EXCEPT ![m] = f] /\ gen' = [gen EXCEPT ![m] = gen[m] + 1]
        /\ unread' = unread /\ Moving(op)
    BY <1>2, <1>8, <2>1 DEF Pushed, Moving, Moves
  <2>3. f \in Folders \union {"gone"} /\ f # "none"
        /\ (f = Destination(op) \/ (op = "delete" /\ f = "gone"))
    BY <1>8, <2>1 DEF Destination, Folders
  <2> QED BY <1>2, <1>3, <1>4, <1>5, <2>2, <2>3
<1> QED BY <1>6, <1>7, <1>8 DEF Operations

LEMMA OutlookPush == OutlookInv /\ Push => OutlookInv'
<1> SUFFICES ASSUME OutlookInv, Push PROVE OutlookInv'
  OBVIOUS
<1> USE DEF OutlookInv
<1>1. /\ request # NoRequest /\ request.step = "loaded" /\ Pushed /\ Overlapping
      /\ request' = [request EXCEPT !.step = "pushed", !.id = NewId]
      /\ UNCHANGED <<brought, rows, syncVars, events>>
    BY DEF Push, NoRequest
<1>2. request \in RequestType /\ request.at \in DOMAIN rows
    BY <1>1 DEF TypeOK
<1>3. PICK m, op : m = request.row.mail /\ op = request.op
    OBVIOUS
<1>4. /\ m \in Mails /\ place[m] \notin {"none", "gone"}
      /\ place' \in [Mails -> Folders \union {"none", "gone"}]
      /\ gen' \in [Mails -> Nat]
      /\ unread' \subseteq Mails
      /\ \A k \in Mails : place'[k] = "none" <=> place[k] = "none"
      /\ \A k \in Mails : (k = m /\ Moving(op)) \/ (place'[k] = place[k] /\ gen'[k] = gen[k])
      /\ Moving(op) => place'[m] = Destination(op) \/ (op = "delete" /\ place'[m] = "gone")
    BY <1>1, <1>3, PushedFacts
<1>5. NewId \in Nat /\ (op \in {"archive", "restore"} => NewId = gen'[m])
    BY <1>2, <1>3, <1>4 DEF NewId, RequestType, RowType
<1>6. /\ request' \in RequestType /\ request' # NoRequest
      /\ request'.row = request.row /\ request'.at = request.at /\ request'.op = op
      /\ request'.step = "pushed" /\ request'.id = NewId
  <2>1. PICK id \in Nat : id = NewId
    BY <1>5
  <2>2. request' = [request EXCEPT !.step = "pushed", !.id = id]
    BY <1>1, <2>1
  <2> QED BY <1>2, <1>3, <2>1, <2>2 DEF RequestType, NoRequest
<1>7. TypeOK'
    BY <1>1, <1>2, <1>4, <1>6, QuietType, ActingFacts
<1>8. ArriveInOrder'
    BY <1>4, OrderStays
<1>9. InFlight = IF Moving(op) THEN {m} ELSE {}
    BY <1>1, <1>3 DEF InFlight
<1>10. Underway = {} /\ Underway' = InFlight
    BY <1>1, <1>3, <1>6, <1>9 DEF Underway, InFlight
<1>11. excused \subseteq excused' /\ (Syncing => InFlight \subseteq excused')
    BY <1>1 DEF Overlapping
<1>12. GraphStep
    BY <1>1, <1>4, <1>9, <1>10, <1>11 DEF GraphStep
<1>13. RequestFits'
    BY <1>1, <1>6 DEF RequestFits, Keys
<1>14. UnderwayIsThere'
  <2> SUFFICES ASSUME NEW k \in InFlight, k \notin excused'
               PROVE  /\ ~Syncing
                      /\ place'[k] = Destination(op) \/ (op = "delete" /\ place'[k] = "gone")
                      /\ op # "delete" => NewId = gen'[k]
    BY <1>1, <1>6, <1>10 DEF UnderwayIsThere, Syncing, syncVars
  <2> QED BY <1>4, <1>5, <1>9, <1>11 DEF Moving
<1> QED BY <1>7, <1>8, <1>12, <1>13, <1>14, GraphQuiet

\* A request that ends without a word of it in the table.
LEMMA OutlookDrop == OutlookInv /\ (PushRefused \/ PushFails \/ RequestDies) => OutlookInv'
<1> SUFFICES ASSUME OutlookInv, PushRefused \/ PushFails \/ RequestDies PROVE OutlookInv'
  OBVIOUS
<1> USE DEF OutlookInv
<1>1. request' = NoRequest /\ UNCHANGED <<rows, syncVars, brought>> /\ request # NoRequest
    BY DEF PushRefused, PushFails, RequestDies, NoRequest, history
<1>2. actions' \in 0..MaxActions /\ failures' \in 0..MaxFailures
    BY ActingFacts DEF PushRefused, PushFails, RequestDies
<1>3. Underway' = {}
    BY <1>1, NoneUnderwayNext
<1>4. /\ excused \subseteq excused' /\ Underway \subseteq excused'
      /\ \/ UNCHANGED graphVars
         \/ Pushed /\ InFlight \subseteq excused'
  <2>1. CASE PushRefused
    BY <2>1, NoneUnderway DEF PushRefused, history
  <2>2. CASE PushFails
    BY <2>2, NoneUnderway DEF PushFails
  <2>3. CASE RequestDies
    BY <2>3, NoneUnderway DEF RequestDies
  <2> QED BY <2>1, <2>2, <2>3
<1>5. /\ place' \in [Mails -> Folders \union {"none", "gone"}]
      /\ gen' \in [Mails -> Nat] /\ unread' \subseteq Mails
      /\ \A k \in Mails : place'[k] = "none" <=> place[k] = "none"
      /\ \A k \in Mails : k \in excused' \/ (place'[k] = place[k] /\ gen'[k] = gen[k])
  <2>1. CASE UNCHANGED graphVars
    BY <2>1 DEF graphVars, TypeOK
  <2>2. CASE Pushed /\ InFlight \subseteq excused'
    <3>1. PICK m, op : m = request.row.mail /\ op = request.op
      OBVIOUS
    <3>2. Moving(op) => m \in excused'
      BY <1>1, <2>2, <3>1 DEF InFlight
    <3>3. /\ place' \in [Mails -> Folders \union {"none", "gone"}]
          /\ gen' \in [Mails -> Nat]
          /\ unread' \subseteq Mails
          /\ \A k \in Mails : place'[k] = "none" <=> place[k] = "none"
          /\ \A k \in Mails : (k = m /\ Moving(op)) \/ (place'[k] = place[k] /\ gen'[k] = gen[k])
      BY <1>1, <2>2, <3>1, PushedFacts
    <3> QED BY <3>2, <3>3
  <2> QED BY <1>4, <2>1, <2>2
<1>6. TypeOK'
    BY <1>1, <1>2, <1>5, QuietType
<1>7. ArriveInOrder'
    BY <1>5, OrderStays
<1>8. GraphStep
    BY <1>1, <1>3, <1>4, <1>5 DEF GraphStep
<1>9. RequestFits'
    BY <1>1, RequestStays
<1>10. UnderwayIsThere'
    BY <1>3 DEF UnderwayIsThere
<1> QED BY <1>6, <1>7, <1>8, <1>9, <1>10, GraphQuiet

-----------------------------------------------------------------------------
(* The request writes its row.                                             *)

LEMMA AnsweredFacts ==
    ASSUME request \in RequestType, NEW now \in RowType, Keys(now) = Keys(request.row)
    PROVE  /\ Answered(now) \in RowType
           /\ Answered(now).mail = now.mail
           /\ Moving(request.op) => /\ Answered(now).folder = Destination(request.op)
                                    /\ Answered(now).id = request.id
           /\ ~Moving(request.op) => Keys(Answered(now)) = Keys(now)
<1>1. PICK was \in RowType : was = request.row
    BY DEF RequestType
<1>2. now.folder = was.folder /\ now.id = was.id
    BY <1>1, KeysFacts
<1>3. CASE Moving(request.op)
  <2>1. PICK f \in Folders : f = Destination(request.op)
    BY <1>3 DEF Moving, Destination, Folders
  <2>2. PICK n \in Nat : n = request.id
    BY DEF RequestType
  <2>3. Answered(now) = [now EXCEPT !.folder = IF was.folder = f THEN now.folder ELSE f,
                                    !.id = IF was.id = n THEN now.id ELSE n]
    BY <1>1, <1>3, <2>1, <2>2, Zenon DEF Answered
  <2>4. Answered(now) = [now EXCEPT !.folder = f, !.id = n]
    BY <1>2, <2>3
  <2> QED BY <1>3, <2>1, <2>2, <2>4 DEF RowType
<1>4. CASE ~Moving(request.op)
  <2>1. PICK value \in BOOLEAN : Answered(now) = now \/ Answered(now) = [now EXCEPT !.is_read = value]
    BY <1>1, <1>4 DEF Answered
  <2> QED BY <1>4, <2>1 DEF RowType, Keys
<1> QED BY <1>3, <1>4

LEMMA OutlookAnswer == OutlookInv /\ RequestCommits => OutlookInv'
<1> SUFFICES ASSUME OutlookInv, RequestCommits PROVE OutlookInv'
  OBVIOUS
<1>1. /\ request # NoRequest /\ request.step = "pushed" /\ request.at \notin DOMAIN mine
      /\ request' = NoRequest /\ Overlapping
      /\ UNCHANGED <<graphVars, syncVars, events>>
    BY DEF RequestCommits, NoRequest
<1>2. UNCHANGED <<place, gen, unread, order, fetched, listed, mine, late>>
    BY <1>1 DEF graphVars, syncVars
<1>3. TypeOK /\ request \in RequestType /\ request.at \in DOMAIN rows
      /\ rows \in Seq(RowType) /\ Keys(request.row) = Keys(rows[request.at])
    BY <1>1 DEF OutlookInv, TypeOK, RequestFits
<1>4. PICK i \in DOMAIN rows : i = request.at
    BY <1>3
<1>5. PICK op \in Operations, now \in RowType : op = request.op /\ now = rows[i]
    BY <1>3 DEF RequestType
<1>6. PICK new \in RowType :
        /\ new = Answered(now)
        /\ new.mail = now.mail
        /\ Moving(op) => new.folder = Destination(op) /\ new.id = request.id
        /\ ~Moving(op) => Keys(new) = Keys(now)
    BY <1>3, <1>4, <1>5, AnsweredFacts
<1>7. rows' = [rows EXCEPT ![i] = new]
    BY <1>4, <1>5, <1>6, Zenon DEF RequestCommits
<1>8. /\ rows' \in Seq(RowType) /\ DOMAIN rows' = DOMAIN rows
      /\ \A k \in DOMAIN rows : rows'[k] = IF k = i THEN new ELSE rows[k]
  <2>1. DOMAIN rows = 1..Len(rows) /\ Len(rows) \in Nat
    BY <1>3
  <2> QED BY <1>3, <1>6, <1>7, <2>1
<1>9. i \in Table(mine) /\ Row(mine, i) = now
    BY <1>1, <1>4, <1>5 DEF Table, Row
<1>10. Table(mine)' = Table(mine)
    BY <1>2, <1>8 DEF Table
<1>11. \A k \in Table(mine) : Row(mine, k)' = IF k = i THEN new ELSE Row(mine, k)
    BY <1>1, <1>2, <1>4, <1>8 DEF Table, Row
<1>12. \A k \in Table(mine) : Row(mine, k).mail' = Row(mine, k).mail
    BY <1>6, <1>9, <1>11
<1>13. excused \subseteq excused' /\ brought \subseteq brought'
       /\ (Moving(op) => <<new.mail, Destination(op)>> \in brought')
  <2>1. request.row.mail = new.mail
    BY <1>3, <1>4, <1>5, <1>6, KeysFacts
  <2> QED BY <1>1, <1>5, <2>1 DEF RequestCommits, Overlapping
<1>14. Underway = (IF Moving(op) THEN {now.mail} ELSE {}) /\ Underway' = {}
  <2>1. request.row.mail = now.mail
    BY <1>3, <1>4, <1>5, KeysFacts
  <2> QED BY <1>1, <1>5, <2>1, NoneUnderwayNext DEF Underway, InFlight
<1>15. TypeOK'
    BY <1>1, <1>2, <1>3, <1>8, <1>10, ActingFacts DEF TypeOK, events, Syncing
<1>16. ArriveInOrder' /\ TableIsFilled'
    BY <1>2, <1>10 DEF OutlookInv, ArriveInOrder, TableIsFilled
<1>17. OnlyFlags'
  <2> SUFFICES ASSUME NEW k \in DOMAIN mine \intersect DOMAIN rows
               PROVE  Keys(mine[k]) = Keys(rows'[k])
    BY <1>2, <1>8 DEF OnlyFlags, Keys
  <2>1. rows'[k] = rows[k]
    BY <1>1, <1>4, <1>8
  <2> QED BY <2>1 DEF OutlookInv, OnlyFlags
<1>18. RowsHaveArrived'
    BY <1>2, <1>10, <1>12 DEF OutlookInv, RowsHaveArrived
<1>19. ListedIsThere'
    BY <1>2, <1>13 DEF OutlookInv, ListedIsThere, Syncing
<1>20. RequestFits' /\ UnderwayIsThere'
    BY <1>1, <1>14 DEF RequestFits, UnderwayIsThere
<1>21. RowsAreTrue'
  <2> SUFFICES ASSUME NEW k \in Table(mine), Row(mine, k).mail \notin excused
               PROVE  InStep(Row(mine, k))'
    BY <1>10, <1>12, <1>13 DEF RowsAreTrue
  <2>0. PICK r : r = Row(mine, k)'
    OBVIOUS
  <2>1. CASE k # i
    <3>1. r = Row(mine, k)
      BY <1>11, <2>0, <2>1
    <3>2. r.mail # now.mail
      BY <1>9, <2>1, <3>1 DEF OutlookInv, OneRowEach
    <3>3. InStep(r)
      BY <1>14, <3>1, <3>2 DEF OutlookInv, RowsAreTrue
    <3> QED BY <1>2, <2>0, <3>3 DEF InStep
  <2>2. CASE k = i /\ Moving(op)
    <3>1. r = new
      BY <1>11, <2>0, <2>2
    <3>2. now.mail \in Underway \ excused
      BY <1>9, <1>14, <2>2
    <3>3. /\ place[now.mail] = Destination(op) \/ (op = "delete" /\ place[now.mail] = "gone")
          /\ op # "delete" => request.id = gen[now.mail]
      BY <1>5, <3>2 DEF OutlookInv, UnderwayIsThere
    <3>4. InStep(r)
      BY <1>6, <2>2, <3>1, <3>3 DEF InStep, Moving, Destination
    <3> QED BY <1>2, <2>0, <3>4 DEF InStep
  <2>3. CASE k = i /\ ~Moving(op)
    <3>1. r = new
      BY <1>11, <2>0, <2>3
    <3>2. InStep(now)
      BY <1>9, <1>14, <2>3 DEF OutlookInv, RowsAreTrue
    <3>3. InStep(r)
      BY <1>6, <2>3, <3>1, <3>2, KeysFacts
    <3> QED BY <1>2, <2>0, <3>3 DEF InStep
  <2> QED BY <2>1, <2>2, <2>3
<1>22. OneRowEach'
    BY <1>10, <1>12, <1>13 DEF OutlookInv, OneRowEach
<1>23. DoublesInView'
  <2> SUFFICES ASSUME NEW j \in Table(mine), NEW k \in Table(mine), j # k,
                      Row(mine, j).mail' = Row(mine, k).mail',
                      Row(mine, j).folder' = Row(mine, k).folder'
               PROVE  <<Row(mine, j).mail', Row(mine, j).folder'>> \in brought'
    BY <1>10 DEF DoublesInView
  <2>1. CASE i \in {j, k} /\ Moving(op)
    BY <1>6, <1>11, <1>13, <2>1
  <2>2. CASE i \notin {j, k} \/ ~Moving(op)
    <3>1. /\ Row(mine, j).folder' = Row(mine, j).folder
          /\ Row(mine, k).folder' = Row(mine, k).folder
      BY <1>6, <1>9, <1>11, <2>2, KeysFacts
    <3> QED BY <1>12, <1>13, <3>1 DEF OutlookInv, DoublesInView
  <2> QED BY <2>1, <2>2
<1> QED BY <1>15, <1>16, <1>17, <1>18, <1>19, <1>20, <1>21, <1>22, <1>23 DEF OutlookInv

-----------------------------------------------------------------------------
(* The synchronization.                                                    *)

\* Its end, with the rows it has written or without: what the table then has was there
\* in the transaction's view before.
LEMMA ViewEnds ==
    ASSUME OutlookInv, UNCHANGED <<graphVars, history, request>>, Ended,
           rows' \in Seq(RowType), DOMAIN rows' \subseteq Table(mine), DOMAIN rows \subseteq DOMAIN rows',
           \A i \in DOMAIN rows' : Keys(rows'[i]) = Keys(Row(mine, i)),
           actions' \in 0..MaxActions, failures' \in 0..MaxFailures
    PROVE  OutlookInv'
<1> USE DEF OutlookInv
<1>1. /\ UNCHANGED <<place, gen, unread, excused, brought, request>>
      /\ order' = <<>> /\ fetched' = Empty /\ listed' = FALSE /\ mine' = Empty /\ late' = Empty
    BY DEF graphVars, history, Ended
<1>2. Table(mine)' = DOMAIN rows' /\ \A i : Row(mine, i)' = rows'[i]
    BY <1>1 DEF Table, Row, Empty
<1>3. \A i \in DOMAIN rows' :
        /\ rows'[i].mail = Row(mine, i).mail
        /\ rows'[i].folder = Row(mine, i).folder
        /\ InStep(Row(mine, i)) => InStep(rows'[i])
    BY KeysFacts
<1>4. TypeOK'
    BY <1>1, <1>2 DEF TypeOK, Empty, Syncing
<1>5. ArriveInOrder' /\ ListedIsThere' /\ OnlyFlags'
    BY <1>1 DEF ArriveInOrder, ListedIsThere, OnlyFlags, Empty
<1>6. TableIsFilled'
  <2>1. DOMAIN rows' = 1..Len(rows') /\ Len(rows') \in Nat
    OBVIOUS
  <2> QED BY <1>2, <2>1 DEF TableIsFilled
<1>7. RowsHaveArrived'
    BY <1>1, <1>2, <1>3 DEF RowsHaveArrived
<1>8. Underway' = Underway
    BY <1>1 DEF Underway, InFlight
<1>9. RequestFits'
  <2> SUFFICES ASSUME request # NoRequest
               PROVE  Keys(request.row) = Keys(rows'[request.at])
    BY <1>1 DEF RequestFits, Keys
  <2>1. PICK i \in DOMAIN rows : i = request.at
    BY DEF TypeOK
  <2>2. Keys(request.row) = Keys(rows[i])
    BY <2>1 DEF RequestFits
  <2>3. Keys(Row(mine, i)) = Keys(rows[i])
    BY DEF OnlyFlags, Row
  <2> QED BY <2>1, <2>2, <2>3
<1>10. UnderwayIsThere'
    BY <1>1, <1>8 DEF UnderwayIsThere, Syncing
<1>11. RowsAreTrue'
  <2> SUFFICES ASSUME NEW i \in DOMAIN rows', rows'[i].mail \notin excused \union Underway
               PROVE  InStep(Row(mine, i))'
    BY <1>1, <1>2, <1>8 DEF RowsAreTrue
  <2>1. PICK r : r = rows'[i]
    OBVIOUS
  <2>2. InStep(r)
    BY <1>3, <2>1 DEF RowsAreTrue
  <2> QED BY <1>1, <1>2, <2>1, <2>2 DEF InStep
<1>12. OneRowEach' /\ DoublesInView'
    BY <1>1, <1>2, <1>3 DEF OneRowEach, DoublesInView
<1> QED BY <1>4, <1>5, <1>6, <1>7, <1>9, <1>10, <1>11, <1>12

LEMMA OutlookFails == OutlookInv /\ SyncFails => OutlookInv'
<1> SUFFICES ASSUME OutlookInv, SyncFails PROVE OutlookInv'
  OBVIOUS
<1>1. /\ UNCHANGED <<graphVars, history, rows, request>> /\ Ended /\ Failing /\ TypeOK /\ OnlyFlags
    BY DEF SyncFails, OutlookInv
<1>2. rows' \in Seq(RowType) /\ DOMAIN rows' \subseteq Table(mine) /\ DOMAIN rows \subseteq DOMAIN rows'
    BY <1>1 DEF TypeOK, Table
<1>3. \A i \in DOMAIN rows' : Keys(rows'[i]) = Keys(Row(mine, i))
    BY <1>1 DEF OnlyFlags, Row
<1> QED BY <1>1, <1>2, <1>3, ActingFacts, ViewEnds

LEMMA OutlookCommit == OutlookInv /\ Commit => OutlookInv'
<1> SUFFICES ASSUME OutlookInv, Commit PROVE OutlookInv'
  OBVIOUS
<1>1. /\ UNCHANGED <<graphVars, history, request, events>> /\ Ended /\ TypeOK
      /\ rows' = [i \in 1..Cardinality(Table(mine)) |-> Row(Flushed, i)]
    BY DEF Commit, OutlookInv
<1>2. PICK n \in Nat : Table(mine) = 1..n
    BY DEF OutlookInv, TableIsFilled
<1>3. Cardinality(Table(mine)) = n
    BY <1>2, FS_Interval
<1>4. \A i \in 1..n : Row(Flushed, i) \in RowType /\ Keys(Row(Flushed, i)) = Keys(Row(mine, i))
    BY <1>1, <1>2, FlushedFacts
<1>5. rows' \in Seq(RowType) /\ DOMAIN rows' = 1..n /\ \A i \in 1..n : rows'[i] = Row(Flushed, i)
    BY <1>1, <1>3, <1>4
<1>6. DOMAIN rows \subseteq DOMAIN rows'
    BY <1>2, <1>5 DEF Table
<1> QED BY <1>1, <1>2, <1>4, <1>5, <1>6, ActingFacts, ViewEnds

\* A step of it that leaves its transaction as it is.
LEMMA ViewStays ==
    ASSUME OutlookInv, UNCHANGED <<graphVars, brought, rows, request, mine, late>>,
           excused \subseteq excused', TypeOK', ListedIsThere', UnderwayIsThere'
    PROVE  OutlookInv'
<1> USE DEF OutlookInv
<1>1. UNCHANGED <<place, gen>> /\ Underway' = Underway
    BY DEF graphVars, Underway, InFlight
<1>2. Table(mine)' = Table(mine) /\ \A i : Row(mine, i)' = Row(mine, i)
    BY DEF Table, Row
<1>3. ArriveInOrder' /\ TableIsFilled' /\ OnlyFlags' /\ RequestFits'
    BY <1>1, <1>2 DEF ArriveInOrder, TableIsFilled, OnlyFlags, RequestFits, Keys
<1>4. RowsHaveArrived' /\ OneRowEach' /\ DoublesInView'
    BY <1>1, <1>2 DEF RowsHaveArrived, OneRowEach, DoublesInView
<1>5. RowsAreTrue'
    BY <1>1, <1>2 DEF RowsAreTrue, InStep
<1> QED BY <1>3, <1>4, <1>5

LEMMA OutlookBegin == OutlookInv /\ Begin => OutlookInv'
<1> SUFFICES ASSUME OutlookInv, Begin PROVE OutlookInv'
  OBVIOUS
<1>1. /\ ~Syncing /\ order' = <<"archive", "inbox", "trash">>
      /\ excused' = excused \union InFlight
      /\ UNCHANGED <<graphVars, brought, rows, fetched, listed, mine, late, request, events>>
      /\ TypeOK
    BY DEF Begin, OutlookInv
<1>2. mine = Empty /\ late = Empty /\ ~listed
    BY <1>1 DEF TypeOK
<1>3. order' \in Seq(Folders \union {"done"}) /\ order' # <<>>
    BY <1>1 DEF Folders
<1>4. TypeOK'
    BY <1>1, <1>2, <1>3, ActingFacts DEF TypeOK, graphVars, Syncing, Table, events
<1>5. ListedIsThere'
    BY <1>1, <1>2 DEF ListedIsThere
<1>6. UnderwayIsThere'
  <2>1. Underway' \subseteq InFlight
    BY <1>1 DEF Underway, InFlight
  <2> QED BY <1>1, <2>1 DEF UnderwayIsThere
<1> QED BY <1>1, <1>4, <1>5, <1>6, ViewStays

LEMMA OutlookList == OutlookInv /\ ListMails => OutlookInv'
<1> SUFFICES ASSUME OutlookInv, ListMails PROVE OutlookInv'
  OBVIOUS
<1> DEFINE S == Newest(In(Head(order)), FetchLimit)
<1>1. /\ Syncing /\ Head(order) \in Folders /\ listed' = TRUE
      /\ fetched' = [m \in S |-> [id |-> gen[m], is_read |-> m \notin unread]]
      /\ UNCHANGED <<graphVars, history, rows, order, mine, late, request, events>>
      /\ TypeOK
    BY DEF ListMails, OutlookInv
<1>2. \A m \in S : m \in Mails /\ place[m] = Head(order)
    BY DEF Newest, In
<1> HIDE DEF S
<1>3. \A m \in DOMAIN fetched' : /\ m \in Mails /\ place[m] = Head(order)
                                 /\ fetched'[m] \in [id : Nat, is_read : BOOLEAN]
                                 /\ fetched'[m].id = gen[m]
    BY <1>1, <1>2 DEF TypeOK
<1>4. TypeOK'
    BY <1>1, <1>3, ActingFacts DEF TypeOK, graphVars, Syncing, Table, events
<1>5. "none" \notin Folders
    BY DEF Folders
<1>6. ListedIsThere'
    BY <1>1, <1>3, <1>5 DEF ListedIsThere, graphVars, Syncing
<1>7. UnderwayIsThere'
    BY <1>1 DEF OutlookInv, UnderwayIsThere, Underway, InFlight, Syncing, graphVars, history
<1> QED BY <1>1, <1>4, <1>6, <1>7, ViewStays DEF history

\* A merge leaves the rows that were there about what they were about, and adds one row
\* for each listed mail the folder did not have.
LEMMA MergeWrites ==
    ASSUME OutlookInv, MergeFolder
    PROVE  /\ \A i \in DOMAIN mine' : mine'[i] \in RowType
           /\ \A i \in DOMAIN late' : i \in Table(mine') /\ late'[i] \in BOOLEAN
           /\ \E n \in Nat : Table(mine') = 1..n
           /\ Table(mine) \subseteq Table(mine')
           /\ \A i \in Table(mine) : Keys(Row(mine', i)) = Keys(Row(mine, i))
           /\ \A i \in Table(mine') \ Table(mine) :
                LET r == Row(mine', i) IN
                /\ r.mail \in DOMAIN fetched /\ r.folder = Head(order) /\ r.id = fetched[r.mail].id
                /\ \A k \in Table(mine) : Row(mine, k).mail = r.mail => Row(mine, k).folder # Head(order)
           /\ \A i, j \in Table(mine') \ Table(mine) : Row(mine', i).mail = Row(mine', j).mail => i = j
<1> DEFINE f == Head(order)
           own == Flushed
           old == {m \in DOMAIN fetched : Existing(own, f, m) # {}}
           new == DOMAIN fetched \ old
           Place(m) == Cardinality(Table(own)) + Cardinality({k \in new : k >= m})
           last == {m \in DOMAIN fetched : \A k \in DOMAIN fetched : m <= k}
<1>1. PICK row \in [old -> Table(own)] :
         /\ \A m \in old : row[m] \in Existing(own, f, m)
         /\ LET differs == {m \in old : Row(own, row[m]).is_read # fetched[m].is_read}
                Of(i) == CHOOSE m \in DOMAIN fetched : IF m \in old THEN row[m] = i ELSE Place(m) = i
                written == {row[m] : m \in differs \ last}
                added == {Place(m) : m \in new}
            IN
            /\ mine' = [i \in DOMAIN own \union written \union added |->
                          IF i \in written THEN [Row(own, i) EXCEPT !.is_read = fetched[Of(i)].is_read]
                          ELSE IF i \in added THEN NewRow(f, Of(i)) ELSE own[i]]
            /\ late' = [i \in {row[m] : m \in differs \intersect last} |-> fetched[Of(i)].is_read]
    BY Zenon DEF MergeFolder
<1> DEFINE differs == {m \in old : Row(own, row[m]).is_read # fetched[m].is_read}
           Of(i) == CHOOSE m \in DOMAIN fetched : IF m \in old THEN row[m] = i ELSE Place(m) = i
           written == {row[m] : m \in differs \ last}
           added == {Place(m) : m \in new}
           postponed == {row[m] : m \in differs \intersect last}
<1>2. /\ mine' = [i \in DOMAIN own \union written \union added |->
                    IF i \in written THEN [Row(own, i) EXCEPT !.is_read = fetched[Of(i)].is_read]
                    ELSE IF i \in added THEN NewRow(f, Of(i)) ELSE own[i]]
      /\ late' = [i \in postponed |-> fetched[Of(i)].is_read]
    BY <1>1, Zenon
<1>3. PICK n \in Nat : Table(mine) = 1..n
    BY DEF OutlookInv, TableIsFilled
<1>4. /\ Table(own) = 1..n
      /\ \A i \in DOMAIN own : own[i] \in RowType
      /\ \A i \in 1..n : Row(own, i) \in RowType /\ Keys(Row(own, i)) = Keys(Row(mine, i))
    BY <1>3, FlushedFacts DEF OutlookInv
<1>5. Cardinality(Table(own)) = n
    BY <1>4, FS_Interval
<1>6. /\ f \in Folders
      /\ \A m \in DOMAIN fetched : m \in Mails /\ fetched[m] \in [id : Nat, is_read : BOOLEAN]
    BY DEF MergeFolder, OutlookInv, TypeOK, ListedIsThere
<1>7. \A m \in old : row[m] \in 1..n
    BY <1>1, <1>4
<1>8. \A m \in DOMAIN fetched : \A k \in Table(own) :
        Row(own, k).mail = m /\ Row(own, k).folder = f => m \in old
  <2> SUFFICES ASSUME NEW m \in DOMAIN fetched, NEW k \in Table(own),
                      Row(own, k).mail = m, Row(own, k).folder = f
               PROVE  Existing(own, f, m) # {}
    OBVIOUS
  <2> HIDE DEF own, f
  <2> QED BY DEF Existing
<1> HIDE DEF own, f
<1>9. /\ Cardinality(new) \in Nat
      /\ \A m \in new : Cardinality({k \in new : k >= m}) \in 1..Cardinality(new)
      /\ \A x, y \in new : Cardinality({k \in new : k >= x}) = Cardinality({k \in new : k >= y}) => x = y
      /\ \A p \in 1..Cardinality(new) : \E m \in new : Cardinality({k \in new : k >= m}) = p
  <2>1. new \in SUBSET Mails
    BY <1>6
  <2> HIDE DEF new
  <2>2. new \in SUBSET Nat /\ IsFiniteSet(new)
    BY <2>1, MailsAreFinite, OutlookAssumptions DEF Mails
  <2> QED BY <2>2, RankFacts
<1>10. /\ \A m \in new : Place(m) \in n + 1..n + Cardinality(new)
       /\ \A x, y \in new : Place(x) = Place(y) => x = y
  <2> HIDE DEF new
  <2> QED BY <1>3, <1>5, <1>9
<1>11. \A p \in n + 1..n + Cardinality(new) : \E m \in new : Place(m) = p
  <2> HIDE DEF new
  <2> SUFFICES ASSUME NEW p \in n + 1..n + Cardinality(new) PROVE \E m \in new : Place(m) = p
    OBVIOUS
  <2>1. p - n \in 1..Cardinality(new)
    BY <1>3, <1>9
  <2>2. PICK m \in new : Cardinality({k \in new : k >= m}) = p - n
    BY <1>9, <2>1
  <2>3. n + (p - n) = p
    BY <1>3
  <2>4. Place(m) = p
    BY <1>5, <2>2, <2>3
  <2> QED BY <2>4
<1> HIDE DEF Place
<1>12. added = n + 1..n + Cardinality(new)
  <2> HIDE DEF new
  <2>1. \A p \in added : p \in n + 1..n + Cardinality(new)
    BY <1>10
  <2>2. \A p \in n + 1..n + Cardinality(new) : p \in added
    BY <1>11
  <2> HIDE DEF added
  <2> QED BY <2>1, <2>2
<1>13. written \subseteq 1..n /\ postponed \subseteq 1..n
  <2>1. differs \subseteq old
    OBVIOUS
  <2> HIDE DEF old, differs, last
  <2> QED BY <1>7, <2>1
\* The mail of a row that is written or added.
<1>14. ASSUME NEW i \in written \union postponed PROVE Of(i) \in DOMAIN fetched
  <2>1. \E m \in old : row[m] = i
    OBVIOUS
  <2>2. \E m \in DOMAIN fetched : IF m \in old THEN row[m] = i ELSE Place(m) = i
    BY <2>1
  <2> HIDE DEF old
  <2> QED BY <2>2, Zenon
<1>15. ASSUME NEW i \in added PROVE Of(i) \in new /\ Place(Of(i)) = i
  <2>1. \E m \in new : Place(m) = i
    OBVIOUS
  <2>2. \E m \in DOMAIN fetched : IF m \in old THEN row[m] = i ELSE Place(m) = i
    BY <2>1
  <2>3. PICK m : m = Of(i)
    OBVIOUS
  <2>4. m \in DOMAIN fetched /\ (IF m \in old THEN row[m] = i ELSE Place(m) = i)
    <3> HIDE DEF old
    <3> QED BY <2>2, <2>3, Zenon
  <2>5. i \notin 1..n
    <3> HIDE DEF new, added
    <3> QED BY <1>3, <1>9, <1>12
  <2>6. m \notin old
    <3> HIDE DEF old
    <3> QED BY <1>7, <2>4, <2>5
  <2>7. m \in new /\ Place(m) = i
    BY <2>4, <2>6
  <2> HIDE DEF Of
  <2> QED BY <2>3, <2>7
<1>16. \A i \in added : NewRow(f, Of(i)) \in RowType
  <2> SUFFICES ASSUME NEW i \in added PROVE NewRow(f, Of(i)) \in RowType
    OBVIOUS
  <2>1. PICK m \in DOMAIN fetched : m = Of(i)
    BY <1>15
  <2>2. PICK id \in Nat, read \in BOOLEAN : id = fetched[m].id /\ read = fetched[m].is_read
    BY <1>6
  <2>3. NewRow(f, m) = [mail |-> m, folder |-> f, id |-> id, is_read |-> read]
    BY <2>2, Zenon DEF NewRow
  <2>4. NewRow(f, m) \in RowType
    BY <1>6, <2>3 DEF RowType
  <2> HIDE DEF Of
  <2> QED BY <2>1, <2>4
<1>17. ASSUME NEW i \in written
       PROVE  LET r == [Row(own, i) EXCEPT !.is_read = fetched[Of(i)].is_read]
              IN  r \in RowType /\ Keys(r) = Keys(Row(own, i))
  <2>1. PICK read \in BOOLEAN : read = fetched[Of(i)].is_read
    <3>1. PICK m \in DOMAIN fetched : m = Of(i)
      BY <1>14
    <3> HIDE DEF Of
    <3> QED BY <1>6, <3>1
  <2>2. PICK r \in RowType : r = Row(own, i)
    <3> HIDE DEF written
    <3> QED BY <1>4, <1>13
  <2>3. [r EXCEPT !.is_read = read] \in RowType /\ Keys([r EXCEPT !.is_read = read]) = Keys(r)
    BY DEF RowType, Keys
  <2> HIDE DEF Of
  <2> QED BY <2>1, <2>2, <2>3
<1> HIDE DEF written, added, postponed, Of, old
<1>18. added \intersect 1..n = {}
  <2> HIDE DEF new
  <2> QED BY <1>3, <1>9, <1>12
<1>19. DOMAIN own \subseteq 1..n /\ DOMAIN rows \subseteq 1..n /\ 1..n = DOMAIN rows \union DOMAIN own
    BY <1>4 DEF Table
<1>20. PICK w : w = mine'
    OBVIOUS
<1>21. /\ DOMAIN w = DOMAIN own \union written \union added
       /\ \A i \in written : w[i] = [Row(own, i) EXCEPT !.is_read = fetched[Of(i)].is_read]
       /\ \A i \in added : w[i] = NewRow(f, Of(i))
       /\ \A i \in DOMAIN own \ written : w[i] = own[i]
    BY <1>2, <1>13, <1>18, <1>19, <1>20
<1>22. Table(w) = 1..n \union added
    BY <1>13, <1>19, <1>21 DEF Table
<1>23. \A i \in DOMAIN w : w[i] \in RowType
    BY <1>4, <1>16, <1>17, <1>21
<1>24. \A i \in DOMAIN late' : i \in Table(w) /\ late'[i] \in BOOLEAN
    BY <1>2, <1>6, <1>13, <1>14, <1>22
<1>25. \E k \in Nat : Table(w) = 1..k
  <2> HIDE DEF new
  <2>1. PICK c \in Nat : c = Cardinality(new)
    BY <1>9
  <2>2. (1..n) \union (n + 1..n + c) = 1..(n + c) /\ n + c \in Nat
    BY <1>3
  <2> QED BY <1>12, <1>22, <2>1, <2>2
<1>26. ASSUME NEW i \in 1..n PROVE Keys(Row(w, i)) = Keys(Row(mine, i))
  <2>1. CASE i \in written
    <3>1. PICK r : r = [Row(own, i) EXCEPT !.is_read = fetched[Of(i)].is_read]
      OBVIOUS
    <3>2. Keys(r) = Keys(Row(own, i))
      BY <1>17, <2>1, <3>1
    <3>3. Row(w, i) = r
      BY <1>21, <2>1, <3>1 DEF Row
    <3> QED BY <1>4, <3>2, <3>3
  <2>2. CASE i \notin written
    <3>1. Row(w, i) = Row(own, i)
      BY <1>18, <1>21, <2>2 DEF Row
    <3> QED BY <1>4, <3>1
  <2> QED BY <2>1, <2>2
<1>27. ASSUME NEW i \in added
       PROVE  /\ Row(w, i) = NewRow(f, Of(i))
              /\ Row(w, i).mail = Of(i) /\ Row(w, i).folder = f /\ Row(w, i).id = fetched[Of(i)].id
              /\ Of(i) \in new /\ Place(Of(i)) = i
    BY <1>15, <1>21 DEF Row, NewRow
<1>28. ASSUME NEW i \in added, NEW k \in 1..n, Row(mine, k).mail = Of(i)
       PROVE  Row(mine, k).folder # f
  <2>1. Row(own, k).mail = Of(i) /\ (Row(mine, k).folder = f => Row(own, k).folder = f)
    BY <1>4, <1>28, KeysFacts
  <2>2. Of(i) \in DOMAIN fetched /\ Of(i) \notin old
    BY <1>27
  <2> QED BY <1>4, <1>8, <2>1, <2>2
<1>29. \A i, j \in added : Row(w, i).mail = Row(w, j).mail => i = j
    BY <1>27
<1>30. Table(w) \ Table(mine) = added
    BY <1>3, <1>18, <1>22
<1>31. ASSUME NEW i \in added
       PROVE  LET r == Row(w, i) IN
              /\ r.mail \in DOMAIN fetched /\ r.folder = Head(order) /\ r.id = fetched[r.mail].id
              /\ \A k \in Table(mine) : Row(mine, k).mail = r.mail => Row(mine, k).folder # Head(order)
  <2>1. f = Head(order)
    BY DEF f
  <2>2. Of(i) \in DOMAIN fetched
    BY <1>27
  <2> QED BY <1>3, <1>27, <1>28, <2>1, <2>2
<1> QED BY <1>3, <1>20, <1>22, <1>23, <1>24, <1>25, <1>26, <1>29, <1>30, <1>31

LEMMA OutlookMerge == OutlookInv /\ MergeFolder => OutlookInv'
<1> SUFFICES ASSUME OutlookInv, MergeFolder PROVE OutlookInv'
  OBVIOUS
<1> USE DEF OutlookInv
<1> DEFINE old == Table(mine)
           new == Table(mine') \ Table(mine)
<1>1. /\ Syncing /\ listed /\ fetched' = Empty /\ listed' = FALSE
      /\ order' = IF Len(order) > 1 THEN Tail(order) ELSE <<"done">>
      /\ UNCHANGED <<graphVars, history, rows, request, events>>
    BY DEF MergeFolder
<1>2. UNCHANGED <<place, gen, unread, excused, brought, rows, request>>
    BY <1>1 DEF graphVars, history
<1>3. PICK w : w = mine' /\ Table(mine)' = Table(w) /\ \A i : Row(mine, i)' = Row(w, i)
    BY <1>2 DEF Table, Row
<1>4. /\ \A i \in DOMAIN w : w[i] \in RowType
      /\ \A i \in DOMAIN late' : i \in Table(w) /\ late'[i] \in BOOLEAN
      /\ \E n \in Nat : Table(w) = 1..n
      /\ old \subseteq Table(w)
      /\ \A i \in old : Keys(Row(w, i)) = Keys(Row(mine, i))
      /\ \A i \in new :
           LET r == Row(w, i) IN
           /\ r.mail \in DOMAIN fetched /\ r.folder = Head(order) /\ r.id = fetched[r.mail].id
           /\ \A k \in old : Row(mine, k).mail = r.mail => Row(mine, k).folder # Head(order)
      /\ \A i, j \in new : Row(w, i).mail = Row(w, j).mail => i = j
    BY <1>3, MergeWrites, Zenon
<1>5. Table(w) = old \union new
    BY <1>3, <1>4
<1> HIDE DEF new
<1>6. \A i \in old : /\ Row(w, i).mail = Row(mine, i).mail
                     /\ Row(w, i).folder = Row(mine, i).folder
                     /\ InStep(Row(w, i)) <=> InStep(Row(mine, i))
    BY <1>4, KeysFacts
<1>7. Underway \subseteq excused /\ Underway' = Underway
    BY <1>1, <1>2 DEF UnderwayIsThere, Underway, InFlight
\* What is new is where the listing has it.
<1>8. ASSUME NEW i \in new
      PROVE  /\ place[Row(w, i).mail] # "none"
             /\ Row(w, i).mail \notin excused => InStep(Row(w, i))
  <2>1. PICK r : r = Row(w, i)
    OBVIOUS
  <2>2. r.mail \in DOMAIN fetched /\ r.folder = Head(order) /\ r.id = fetched[r.mail].id
    BY <1>4, <2>1
  <2> QED BY <1>1, <2>1, <2>2 DEF ListedIsThere, InStep
\* A mail whose rows are in step had its row in the folder.
<1>9. ASSUME NEW i \in new, NEW k \in old, Row(w, i).mail = Row(mine, k).mail
      PROVE  Row(mine, k).mail \in excused
  <2> SUFFICES ASSUME Row(mine, k).mail \notin excused PROVE FALSE
    OBVIOUS
  <2>1. InStep(Row(mine, k))
    BY <1>7 DEF RowsAreTrue
  <2>2. PICK m \in DOMAIN fetched : m = Row(mine, k).mail
    BY <1>4, <1>9
  <2>3. place[m] = Head(order) /\ Head(order) \in Folders
    BY <1>1, <2>2 DEF ListedIsThere
  <2>4. Row(mine, k).folder = Head(order)
    BY <2>1, <2>2, <2>3 DEF InStep, Folders
  <2> QED BY <1>4, <1>9, <2>4
<1>10. order' \in Seq(Folders \union {"done"}) /\ order' # <<>>
  <2>1. order \in Seq(Folders \union {"done"}) /\ order # <<>>
    BY <1>1 DEF TypeOK, Syncing
  <2>2. CASE Len(order) > 1
    <3>1. order' = Tail(order) /\ Len(Tail(order)) = Len(order) - 1 /\ Tail(order) \in Seq(Folders \union {"done"})
      BY <1>1, <2>1, <2>2
    <3>2. Len(order) \in Nat
      BY <2>1
    <3>3. PICK n \in Nat : n = Len(order) /\ n > 1 /\ Len(Tail(order)) = n - 1
      BY <2>2, <3>1, <3>2
    <3>4. Len(Tail(order)) # 0
      BY <3>3
    <3>5. Tail(order) # <<>>
      BY <3>1, <3>4, EmptySeq
    <3> QED BY <3>1, <3>5
  <2>3. CASE ~(Len(order) > 1)
    BY <1>1, <2>3
  <2> QED BY <2>2, <2>3
<1>11. TypeOK'
    BY <1>1, <1>2, <1>3, <1>4, <1>10, ActingFacts DEF TypeOK, Syncing, Empty
<1>12. ArriveInOrder' /\ ListedIsThere' /\ RequestFits' /\ TableIsFilled'
    BY <1>1, <1>2, <1>3, <1>4 DEF ArriveInOrder, ListedIsThere, RequestFits, Keys, TableIsFilled
<1>13. OnlyFlags'
  <2> SUFFICES ASSUME NEW i \in DOMAIN w \intersect DOMAIN rows
               PROVE  Keys(w[i]) = Keys(rows[i])
    BY <1>2, <1>3 DEF OnlyFlags, Keys
  <2>1. i \in old /\ Row(w, i) = w[i]
    BY DEF Table, Row
  <2>2. Keys(Row(mine, i)) = Keys(rows[i])
    BY DEF OnlyFlags, Row
  <2> QED BY <1>4, <2>1, <2>2
<1>14. RowsHaveArrived'
  <2> SUFFICES ASSUME NEW i \in Table(w) PROVE place[Row(w, i).mail] # "none"
    BY <1>2, <1>3 DEF RowsHaveArrived
  <2> QED BY <1>5, <1>6, <1>8 DEF RowsHaveArrived
<1>15. UnderwayIsThere'
    BY <1>2, <1>7 DEF UnderwayIsThere
<1>16. RowsAreTrue'
  <2> SUFFICES ASSUME NEW i \in Table(w), Row(w, i).mail \notin excused \union Underway
               PROVE  InStep(Row(mine, i))'
    BY <1>2, <1>3, <1>7 DEF RowsAreTrue
  <2>1. PICK r : r = Row(w, i)
    OBVIOUS
  <2>2. InStep(r)
    BY <1>5, <1>6, <1>8, <2>1 DEF RowsAreTrue
  <2> QED BY <1>2, <1>3, <2>1, <2>2 DEF InStep
<1>17. OneRowEach'
  <2> SUFFICES ASSUME NEW i \in Table(w), NEW j \in Table(w), i # j, Row(w, i).mail = Row(w, j).mail
               PROVE  Row(w, i).mail \in excused
    BY <1>2, <1>3 DEF OneRowEach
  <2>1. CASE i \in old /\ j \in old
    BY <1>6, <2>1 DEF OneRowEach
  <2>2. CASE i \in new /\ j \in new
    BY <1>4, <2>2
  <2>3. CASE (i \in old /\ j \in new) \/ (i \in new /\ j \in old)
    BY <1>6, <1>9, <2>3
  <2> QED BY <1>5, <2>1, <2>2, <2>3
<1>18. DoublesInView'
  <2> SUFFICES ASSUME NEW i \in Table(w), NEW j \in Table(w), i # j,
                      Row(w, i).mail = Row(w, j).mail, Row(w, i).folder = Row(w, j).folder
               PROVE  <<Row(w, i).mail, Row(w, i).folder>> \in brought
    BY <1>2, <1>3 DEF DoublesInView
  <2>1. CASE i \in old /\ j \in old
    BY <1>6, <2>1 DEF DoublesInView
  <2>2. CASE i \in new /\ j \in new
    BY <1>4, <2>2
  <2>3. CASE (i \in old /\ j \in new) \/ (i \in new /\ j \in old)
    BY <1>4, <1>6, <2>3
  <2> QED BY <1>5, <2>1, <2>2, <2>3
<1> QED BY <1>11, <1>12, <1>13, <1>14, <1>15, <1>16, <1>17, <1>18

-----------------------------------------------------------------------------
(* The theorems.                                                           *)

LEMMA OutlookInit == Init => OutlookInv
<1> SUFFICES ASSUME Init PROVE OutlookInv
  OBVIOUS
<1>1. /\ place = [m \in Mails |-> "none"] /\ gen = [m \in Mails |-> 0] /\ unread = {}
      /\ rows = <<>> /\ order = <<>> /\ fetched = Empty /\ listed = FALSE
      /\ mine = Empty /\ late = Empty /\ request = NoRequest /\ actions = 0 /\ failures = 0
    BY DEF Init
<1>2. DOMAIN rows = {} /\ DOMAIN mine = {} /\ DOMAIN fetched = {} /\ DOMAIN late = {}
    BY <1>1 DEF Empty
<1>3. Table(mine) = {} /\ {} = 1..0
    BY <1>2 DEF Table
<1>4. TypeOK
    BY <1>1, <1>2, OutlookAssumptions DEF TypeOK, Syncing
<1>5. ArriveInOrder
  <2>1. \A m \in Mails : place[m] # "none" <=> m <= 0
    BY <1>1, OutlookAssumptions DEF Mails
  <2> QED BY <2>1, OutlookAssumptions DEF ArriveInOrder
<1>6. TableIsFilled
    BY <1>3 DEF TableIsFilled
<1>7. OnlyFlags /\ RowsHaveArrived /\ RowsAreTrue /\ OneRowEach /\ DoublesInView
    BY <1>2, <1>3 DEF OnlyFlags, RowsHaveArrived, RowsAreTrue, OneRowEach, DoublesInView
<1>8. ListedIsThere /\ RequestFits /\ UnderwayIsThere
    BY <1>1, NoneUnderway DEF ListedIsThere, RequestFits, UnderwayIsThere
<1> QED BY <1>4, <1>5, <1>6, <1>7, <1>8 DEF OutlookInv

LEMMA OutlookIdle == OutlookInv /\ UNCHANGED vars => OutlookInv'
<1> SUFFICES ASSUME OutlookInv, UNCHANGED vars PROVE OutlookInv'
  OBVIOUS
<1> USE DEF OutlookInv
<1>1. UNCHANGED <<place, gen, unread, order, fetched, listed, mine, late, excused, request, rows>>
      /\ UNCHANGED <<graphVars, brought, rows, request, mine, late, events>>
    BY DEF vars, graphVars, history, syncVars
<1>2. TypeOK'
    BY <1>1, ActingFacts DEF TypeOK, Table, Syncing
<1>3. ListedIsThere' /\ UnderwayIsThere'
    BY <1>1 DEF ListedIsThere, UnderwayIsThere, Underway, InFlight, Syncing
<1> QED BY <1>1, <1>2, <1>3, ViewStays

LEMMA OutlookStep == OutlookInv /\ [Next]_vars => OutlookInv'
<1> SUFFICES ASSUME OutlookInv, [Next]_vars PROVE OutlookInv'
  OBVIOUS
<1>1. CASE MailArrives
    BY <1>1, OutlookArrival
<1>2. CASE \E m \in Mails : ClientReads(m) \/ \E f \in Folders \union {"gone"} : ClientMoves(m, f)
    BY <1>2, OutlookClient
<1>3. CASE Sync
    BY <1>3, OutlookBegin, OutlookList, OutlookMerge, OutlookCommit DEF Sync
<1>4. CASE SyncFails
    BY <1>4, OutlookFails
<1>5. CASE \E op \in Operations : \E i \in DOMAIN rows : RequestStarts(op, i)
    BY <1>5, OutlookStart
<1>6. CASE Push
    BY <1>6, OutlookPush
<1>7. CASE PushRefused \/ PushFails \/ RequestDies
    BY <1>7, OutlookDrop
<1>8. CASE RequestCommits
    BY <1>8, OutlookAnswer
<1>9. CASE UNCHANGED vars
    BY <1>9, OutlookIdle
<1> QED BY <1>1, <1>2, <1>3, <1>4, <1>5, <1>6, <1>7, <1>8, <1>9 DEF Next

\* What holds of the table as a transaction sees it holds of the committed rows: a
\* transaction changes nothing but flags of those.
LEMMA CommittedRows ==
    ASSUME OutlookInv, NEW i \in DOMAIN rows
    PROVE  i \in Table(mine) /\ Keys(Row(mine, i)) = Keys(rows[i])
BY DEF OutlookInv, OnlyFlags, Table, Row

LEMMA DoublesHold == OutlookInv => DoublesOnlyByMoves
<1> SUFFICES ASSUME OutlookInv, NEW i \in DOMAIN rows, NEW j \in DOMAIN rows, i # j,
                    rows[i].mail = rows[j].mail, rows[i].folder = rows[j].folder
             PROVE  <<rows[i].mail, rows[i].folder>> \in brought
  BY DEF DoublesOnlyByMoves
<1>1. /\ Row(mine, i).mail = rows[i].mail /\ Row(mine, i).folder = rows[i].folder
      /\ Row(mine, j).mail = rows[j].mail /\ Row(mine, j).folder = rows[j].folder
      /\ i \in Table(mine) /\ j \in Table(mine)
    BY CommittedRows, KeysFacts
<1> QED BY <1>1 DEF OutlookInv, DoublesInView

LEMMA InStepHolds == OutlookInv => RowsAreInStep
<1> SUFFICES ASSUME OutlookInv, NEW i \in DOMAIN rows,
                    rows[i].mail \notin excused, rows[i].mail \notin InFlight
             PROVE  InStep(rows[i]) /\ \A j \in DOMAIN rows : rows[j].mail = rows[i].mail => j = i
  BY DEF RowsAreInStep, InStep
<1>1. \A j \in DOMAIN rows : /\ j \in Table(mine)
                             /\ Row(mine, j).mail = rows[j].mail
                             /\ InStep(Row(mine, j)) <=> InStep(rows[j])
    BY CommittedRows, KeysFacts
<1>2. InStep(rows[i])
    BY <1>1, NoneUnderway DEF OutlookInv, RowsAreTrue
<1>3. ASSUME NEW j \in DOMAIN rows, rows[j].mail = rows[i].mail PROVE j = i
    BY <1>1, <1>3 DEF OutlookInv, OneRowEach
<1> QED BY <1>2, <1>3

LEMMA OutlookInvariant == Spec => []OutlookInv
<1> QED BY OutlookInit, OutlookStep, PTL DEF Spec

\* OutlookSync keeps the types of its variables; in particular what a session has
\* yet to write is about rows that are there (sync_tasks.py 173-192), and a request's
\* row is (emails.py 171-200).
THEOREM OutlookTypesAreKept == Spec => []TypeOK
<1>1. OutlookInv => TypeOK
    BY DEF OutlookInv
<1> QED BY <1>1, OutlookInvariant, PTL

\* Two rows of a mail in one folder are there because a request moved the mail into the
\* folder: the synchronization never makes a second row of a mail in a folder, also if
\* Graph gave it a new id, if calls fail, or if a request commits between a
\* synchronization's listing and its end (sync_tasks.py 173-192).
THEOREM DoublesComeFromMoves == Spec => []DoublesOnlyByMoves
<1> QED BY OutlookInvariant, DoublesHold, PTL

\* A mail that no other client moved, of which no answer was lost and no move overlapped
\* a synchronization, has one row, in its folder and with the id Graph knows it by
\* (emails.py 171-200): also while a synchronization is under way, whose listing is then
\* still true.
THEOREM RowsStayInStep == Spec => []RowsAreInStep
<1> QED BY OutlookInvariant, InStepHolds, PTL
=============================================================================
