--------------------------- MODULE ImapSyncProofs --------------------------
(***************************************************************************)
(* Theorems about ImapSync: types; a mail doubles only where it came back  *)
(* to the inbox; and what the mirror shows moved has moved at the server.  *)
(***************************************************************************)
EXTENDS ImapSync, FiniteSetTheorems, SequenceTheorems, TLAPS

LEMMA LeastSet ==
    ASSUME NEW C, C # {}, \A S \in C : IsFiniteSet(S)
    PROVE  \E S \in C : \A T \in C : T \subseteq S => T = S
<1> DEFINE U == UNION C
           R == StrictSubsetOrdering(U)
<1>1. C \subseteq FiniteSubsetsOf(U)
    BY DEF FiniteSubsetsOf
<1>2. IsWellFoundedOn(R, FiniteSubsetsOf(U))
    BY FS_StrictSubsetOrderingWellFounded
<1>3. PICK S \in C : \A T \in C : <<T, S>> \notin R
  <2> HIDE DEF R, U
  <2> QED BY <1>1, <1>2, WFMin
<1>4. ASSUME NEW T \in C, T \subseteq S, T # S PROVE <<T, S>> \in R
  <2>1. T \in SUBSET U /\ S \in SUBSET U
    OBVIOUS
  <2> QED BY <2>1, <1>4 DEF StrictSubsetOrdering
<1>5. \A T \in C : T \subseteq S => T = S
  <2> HIDE DEF R, U
  <2> QED BY <1>3, <1>4
<1> QED BY <1>5

LEMMA LeastNumber ==
    ASSUME NEW S \in SUBSET Nat, S # {}
    PROVE  \E n \in S : \A m \in S : n <= m
<1> DEFINE C == {1..n : n \in S}
<1>1. C # {}
  OBVIOUS
<1>2. \A T \in C : IsFiniteSet(T)
  BY FS_Interval
<1>3. PICK T \in C : \A V \in C : V \subseteq T => V = T
  <2> HIDE DEF C
  <2> QED BY <1>1, <1>2, LeastSet
<1>4. PICK n \in S : T = 1..n
  OBVIOUS
<1>5. ASSUME NEW m \in S PROVE n <= m
  <2>1. SUFFICES ASSUME m < n PROVE FALSE
    OBVIOUS
  <2>2. 1..m \in C
    OBVIOUS
  <2>3. 1..m \subseteq 1..n /\ n \in 1..n /\ n \notin 1..m
    BY <2>1
  <2> QED BY <1>3, <1>4, <2>2, <2>3
<1> QED BY <1>5

LEMMA GreatestNumber ==
    ASSUME NEW S \in SUBSET Nat, S # {}, NEW b \in Nat, \A n \in S : n <= b
    PROVE  \E n \in S : \A m \in S : m <= n
<1> DEFINE B == {n \in Nat : \A m \in S : m <= n}
<1>1. PICK n \in B : \A m \in B : n <= m
  BY LeastNumber
<1>2. n \in S
  <2>1. SUFFICES ASSUME n \notin S PROVE FALSE
    OBVIOUS
  <2>2. \A m \in S : m < n
    BY <2>1
  <2>3. n # 0 /\ n \in Nat
    <3>1. PICK m \in S : m \in Nat
      OBVIOUS
    <3> QED BY <2>2, <3>1
  <2>4. n - 1 \in Nat /\ n - 1 < n /\ ~(n <= n - 1)
    BY <2>3
  <2>5. \A m \in S : m <= n - 1
    BY <2>2, <2>3
  <2>6. n - 1 \in B
    BY <2>4, <2>5
  <2> QED BY <1>1, <2>4, <2>6
<1> QED BY <1>2

\* the bound of the values of a function over an initial segment
LEMMA BoundedImage ==
    ASSUME NEW n \in Nat, NEW f, \A i \in 1..n : f[i] \in Nat
    PROVE  \E b \in Nat : \A i \in 1..n : f[i] <= b
<1> DEFINE Bounded(k) == \E b \in Nat : \A i \in 1..k : f[i] <= b
           U == {k \in 0..n : ~Bounded(k)}
<1>1. SUFFICES ASSUME U # {} PROVE FALSE
  <2>1. n \notin U
    BY <1>1
  <2> QED BY <2>1
<1>2. PICK k \in U : \A j \in U : k <= j
  <2> HIDE DEF U
  <2>1. U \in SUBSET Nat
    BY DEF U
  <2> QED BY <1>1, <2>1, LeastNumber
<1>3. CASE k = 0
  BY <1>3
<1>4. CASE k # 0
  <2>0. k \in 0..n /\ k - 1 \in 0..n /\ ~(k <= k - 1) /\ k \in 1..n
    BY <1>4
  <2>1. Bounded(k - 1)
    <3> HIDE DEF Bounded
    <3> QED BY <1>2, <2>0
  <2>2. PICK b \in Nat : \A i \in 1..(k-1) : f[i] <= b
    BY <2>1
  <2>3. f[k] \in Nat
    BY <2>0
  <2>5. PICK c \in Nat : c >= b /\ c >= f[k]
    <3>1. b + f[k] \in Nat /\ b + f[k] >= b /\ b + f[k] >= f[k]
      BY <2>3
    <3> QED BY <3>1
  <2>6. ASSUME NEW i \in 1..k PROVE f[i] <= c
    <3>1. i \in 1..n /\ (i = k \/ i \in 1..(k-1))
      BY <2>0
    <3>2. f[i] \in Nat
      BY <3>1
    <3> QED BY <2>2, <2>3, <2>5, <3>1, <3>2
  <2>4. Bounded(k)
    BY <2>6
  <2> QED BY <2>4
<1> QED BY <1>3, <1>4
-----------------------------------------------------------------------------
(* The folders and what the server holds in them.                          *)

LEMMA AppendedPair ==
    ASSUME NEW x, NEW y
    PROVE  <<x>> \o <<y>> = <<x, y>>
<1> DEFINE S == {x, y}
<1>1. <<x>> \o <<y>> \in Seq(S) /\ <<x, y>> \in Seq(S)
    OBVIOUS
<1>2. Len(<<x>> \o <<y>>) = 2 /\ Len(<<x, y>>) = 2
    OBVIOUS
<1>3. \A i \in 1..2 : (<<x>> \o <<y>>)[i] = <<x, y>>[i]
    OBVIOUS
<1> QED BY <1>1, <1>2, <1>3, SeqEqual

LEMMA AppendedTriple ==
    ASSUME NEW x, NEW y, NEW z
    PROVE  <<x, y>> \o <<z>> = <<x, y, z>>
<1> DEFINE S == {x, y, z}
<1>1. <<x, y>> \o <<z>> \in Seq(S) /\ <<x, y, z>> \in Seq(S)
    OBVIOUS
<1>2. Len(<<x, y>> \o <<z>>) = 3 /\ Len(<<x, y, z>>) = 3
    OBVIOUS
<1>3. \A i \in 1..3 : (<<x, y>> \o <<z>>)[i] = <<x, y, z>>[i]
    OBVIOUS
<1> QED BY <1>1, <1>2, <1>3, SeqEqual

\* The list of folders has every folder once (imap.py lists a folder once).
LEMMA FolderListFacts ==
    /\ FolderList \in Seq(Folders)
    /\ Len(FolderList) \in Nat /\ Len(FolderList) >= 1
    /\ \A a, b \in 1..Len(FolderList) : FolderList[a] = FolderList[b] => a = b
<1>1. "inbox" \in Folders
    BY ImapAssumptions
<1>2. CASE "archive" \in Folders /\ "trash" \in Folders
  <2>1. FolderList = <<"archive", "inbox", "trash">>
    <3>1. FolderList = <<"archive">> \o <<"inbox">> \o <<"trash">>
      BY <1>2 DEF FolderList, When
    <3>2. <<"archive">> \o <<"inbox">> = <<"archive", "inbox">>
      BY AppendedPair
    <3>3. <<"archive", "inbox">> \o <<"trash">> = <<"archive", "inbox", "trash">>
      BY AppendedTriple
    <3> QED BY <3>1, <3>2, <3>3
  <2> QED BY <2>1, <1>1, <1>2
<1>3. CASE "archive" \in Folders /\ "trash" \notin Folders
  <2>1. FolderList = <<"archive", "inbox">>
    <3>1. FolderList = <<"archive">> \o <<"inbox">> \o <<>>
      BY <1>3 DEF FolderList, When
    <3>2. <<"archive", "inbox">> \o <<>> = <<"archive", "inbox">>
      OBVIOUS
    <3> QED BY <3>1, <3>2, AppendedPair, Zenon
  <2> QED BY <2>1, <1>1, <1>3
<1>4. CASE "archive" \notin Folders /\ "trash" \in Folders
  <2>1. FolderList = <<"inbox", "trash">>
    <3>1. FolderList = <<>> \o <<"inbox">> \o <<"trash">>
      BY <1>4 DEF FolderList, When
    <3>2. <<>> \o <<"inbox">> = <<"inbox">>
      OBVIOUS
    <3> QED BY <3>1, <3>2, AppendedPair, Zenon
  <2> QED BY <2>1, <1>1, <1>4
<1>5. CASE "archive" \notin Folders /\ "trash" \notin Folders
  <2>1. FolderList = <<"inbox">>
    BY <1>5 DEF FolderList, When
  <2> QED BY <2>1, <1>1, <1>5
<1> QED BY <1>2, <1>3, <1>4, <1>5

\* The folder a synchronization works on is one of the account.
LEMMA FolderIsOne ==
    ASSUME at \in 1..Len(FolderList)
    PROVE  Folder \in Folders
BY FolderListFacts DEF Folder

\* The UIDs of the mails in a folder are some of those that were given out.
LEMMA UidsFacts ==
    ASSUME TypeOK, NEW f \in Folders
    PROVE  /\ Uids(f) \subseteq 1..Len(box[f])
           /\ DOMAIN box[f] = 1..Len(box[f])
           /\ Len(box[f]) \in Nat
           /\ IsFiniteSet(Uids(f))
           /\ \A u \in Uids(f) : box[f][u] \in Mails
<1>1. box[f] \in Seq(Mails \union {Gone})
    BY DEF TypeOK
<1>2. /\ DOMAIN box[f] = 1..Len(box[f])
      /\ Len(box[f]) \in Nat
      /\ \A u \in DOMAIN box[f] : box[f][u] \in Mails \union {Gone}
  <2> DEFINE s == box[f]
  <2>1. s \in Seq(Mails \union {Gone})
    BY <1>1
  <2> HIDE DEF s
  <2>2. DOMAIN s = 1..Len(s) /\ Len(s) \in Nat /\ \A u \in DOMAIN s : s[u] \in Mails \union {Gone}
    BY <2>1
  <2> QED BY <2>2 DEF s
<1>3. /\ Uids(f) \subseteq 1..Len(box[f])
      /\ \A u \in Uids(f) : box[f][u] \in Mails
    BY <1>2 DEF Uids
<1>4. IsFiniteSet(Uids(f))
  <2>1. IsFiniteSet(1..Len(box[f])) /\ Uids(f) \in SUBSET (1..Len(box[f]))
    BY <1>2, <1>3, FS_Interval
  <2> QED BY <2>1, FS_Subset
<1> QED BY <1>2, <1>3, <1>4

\* STATUS counts mails.
LEMMA StatusType ==
    ASSUME TypeOK, NEW f \in Folders
    PROVE  Status(f) \in [total : Nat, unread : Nat]
<1>1. IsFiniteSet(Uids(f)) /\ Cardinality(Uids(f)) \in Nat
    BY UidsFacts, FS_CardinalityType
<1>2. IsFiniteSet(Mails)
    BY ImapAssumptions, FS_Interval DEF Mails
<1>3. Cardinality(Held(f) \ seen) \in Nat
  <2>1. Held(f) \ seen \in SUBSET Mails
    BY UidsFacts DEF Held
  <2> QED BY <1>2, <2>1, FS_Subset, FS_CardinalityType
<1> QED BY <1>1, <1>3 DEF Status

\* A request of the synchronization returns mails of the folder.
LEMMA AskedFacts ==
    ASSUME NEW f, NEW b \in BatchType
    PROVE  Asked(f, b) \subseteq Uids(f)
<1>1. \A S, n : Newest(S, n) \subseteq S
    BY DEF Newest
<1>2. b.kind \in {"since", "before", "all", "recent", "uids"}
    BY DEF BatchType
<1>3. CASE b.kind = "since"
  <2>1. Asked(f, b) = Newest({u \in Uids(f) : u >= b.uid} \union Newest(Uids(f), 1), FetchLimit)
    BY <1>3 DEF Asked
  <2> QED BY <1>1, <2>1, Zenon
<1>4. CASE b.kind = "before"
  <2>1. Asked(f, b) = Newest({u \in Uids(f) : u < b.uid}, FetchLimit)
    BY <1>4 DEF Asked
  <2> QED BY <1>1, <2>1, Zenon
<1>5. CASE b.kind = "all"
  <2>1. Asked(f, b) = Newest(Uids(f), FetchLimit)
    BY <1>5 DEF Asked
  <2> QED BY <1>1, <2>1, Zenon
<1>6. CASE b.kind = "recent"
  <2>1. Asked(f, b) = Newest(Uids(f), RecentLimit)
    BY <1>6 DEF Asked
  <2> QED BY <1>1, <2>1, Zenon
<1>7. CASE b.kind = "uids"
  <2>1. Asked(f, b) = b.uids \intersect Uids(f)
    BY <1>7 DEF Asked
  <2> QED BY <2>1
<1> QED BY <1>2, <1>3, <1>4, <1>5, <1>6, <1>7

-----------------------------------------------------------------------------
(* The requests a synchronization plans.                                   *)

\* The rows of a folder have UIDs, a greatest one and a least one.
LEMMA ExtremeUids ==
    ASSUME TypeOK, NEW f, RowsIn(f) # {}
    PROVE  MaxUid(f) \in Nat /\ MinUid(f) \in Nat
<1>1. rows \in Seq(RowType)
    BY DEF TypeOK
<1>2. DOMAIN rows = 1..Len(rows) /\ Len(rows) \in Nat /\ \A i \in 1..Len(rows) : rows[i] \in RowType
    BY <1>1
<1> DEFINE uid == [i \in 1..Len(rows) |-> rows[i].uid]
<1>3. \A i \in 1..Len(rows) : uid[i] \in Nat /\ uid[i] = rows[i].uid
    BY <1>2 DEF RowType
<1>4. PICK b \in Nat : \A i \in 1..Len(rows) : uid[i] <= b
  <2> HIDE DEF uid
  <2> QED BY <1>2, <1>3, BoundedImage
<1>5. LocalUids(f) \in SUBSET Nat /\ LocalUids(f) # {} /\ \A u \in LocalUids(f) : u <= b
  <2>1. RowsIn(f) \subseteq 1..Len(rows)
    BY <1>2 DEF RowsIn
  <2>2. PICK i \in RowsIn(f) : TRUE
    OBVIOUS
  <2>3. rows[i].uid \in LocalUids(f)
    BY <2>2 DEF LocalUids
  <2>4. ASSUME NEW u \in LocalUids(f) PROVE u \in Nat /\ u <= b
    <3> HIDE DEF uid
    <3>1. PICK k \in RowsIn(f) : u = rows[k].uid
      BY DEF LocalUids
    <3> QED BY <3>1, <2>1, <1>3, <1>4
  <2> QED BY <2>3, <2>4
<1>6. \E u \in LocalUids(f) : \A v \in LocalUids(f) : v <= u
    BY <1>5, GreatestNumber
<1>7. \E u \in LocalUids(f) : \A v \in LocalUids(f) : u <= v
    BY <1>5, LeastNumber
<1>8. MaxUid(f) \in LocalUids(f)
    BY <1>6, Zenon DEF MaxUid
<1>9. MinUid(f) \in LocalUids(f)
    BY <1>7, Zenon DEF MinUid
<1> QED BY <1>5, <1>8, <1>9

\* What a synchronization plans for a folder are requests.
LEMMA PlanType ==
    ASSUME TypeOK, pc # "idle", NEW f \in Folders, NEW searched \in BOOLEAN
    PROVE  Plan(f, searched) \in Seq(BatchType)
<1>1. Newer(f) \in BatchType
  <2>1. CASE RowsIn(f) = {}
    BY <2>1 DEF Newer, All, BatchType
  <2>2. CASE RowsIn(f) # {}
    BY <2>2, ExtremeUids DEF Newer, Since, BatchType
  <2> QED BY <2>1, <2>2
<1>2. ASSUME Older(f) PROVE Before(MinUid(f)) \in BatchType
    BY <1>2, ExtremeUids DEF Older, Before, BatchType
<1>3. Recent \in BatchType
    BY DEF Recent, BatchType
<1>4. Missing(Gaps(f)) \in BatchType
  <2>1. Gaps(f) \subseteq Uids(f)
    BY DEF Gaps, Newest
  <2>2. Gaps(f) \in SUBSET Nat
    BY <2>1, UidsFacts
  <2> QED BY <2>2 DEF Missing, BatchType
<1>5. ASSUME NEW c \in BOOLEAN, NEW b, c => b \in BatchType
      PROVE  When(c, b) \in Seq(BatchType)
  <2>1. CASE c
    BY <2>1, <1>5 DEF When
  <2>2. CASE ~c
    BY <2>2 DEF When
  <2> QED BY <2>1, <2>2
<1>6. CASE strict
  <2>1. Plan(f, searched) = <<IF Older(f) THEN Before(MinUid(f)) ELSE Newer(f)>>
    BY <1>6 DEF Plan
  <2>2. (IF Older(f) THEN Before(MinUid(f)) ELSE Newer(f)) \in BatchType
    BY <1>1, <1>2
  <2> QED BY <2>1, <2>2
<1>7. CASE ~strict
  <2> DEFINE a == <<Newer(f)>>
             b == When(Older(f) /\ MoreThere(f), Before(MinUid(f)))
             c == When(listing[f].unread > 0, Recent)
             d == When(searched /\ MoreThere(f) /\ Gaps(f) # {}, Missing(Gaps(f)))
  <2>1. Plan(f, searched) = a \o b \o c \o d
    BY <1>7 DEF Plan
  <2>2. a \in Seq(BatchType)
    BY <1>1
  <2>3. b \in Seq(BatchType)
    BY <1>2, <1>5 DEF Older
  <2>4. c \in Seq(BatchType)
    <3>1. listing[f].unread \in Nat
      BY DEF TypeOK
    <3> QED BY <3>1, <1>3 DEF When
  <2>5. d \in Seq(BatchType)
    BY <1>4, <1>5
  <2> QED
    <3> HIDE DEF a, b, c, d
    <3> QED BY <2>1, <2>2, <2>3, <2>4, <2>5
<1> QED BY <1>6, <1>7

-----------------------------------------------------------------------------
(* What a request does to the server.                                      *)

\* A mail that is taken away leaves nothing under its UID, and nothing else changes.
LEMMA WithoutFacts ==
    ASSUME TypeOK, NEW f \in Folders, NEW u \in DOMAIN box[f]
    PROVE  /\ Without(f, u) \in [Folders -> Seq(Mails \union {Gone})]
           /\ \A g \in Folders : Len(Without(f, u)[g]) = Len(box[g])
           /\ \A g \in Folders : \A v \in DOMAIN box[g] :
                Without(f, u)[g][v] = IF g = f /\ v = u THEN Gone ELSE box[g][v]
<1>1. PICK s \in Seq(Mails \union {Gone}) : s = box[f]
    BY DEF TypeOK
<1>2. PICK t : t = [s EXCEPT ![u] = Gone]
    OBVIOUS
<1>3. u \in 1..Len(s)
    BY <1>1
<1>4. /\ t \in Seq(Mails \union {Gone})
      /\ Len(t) = Len(s)
      /\ \A v \in 1..Len(s) : t[v] = IF v = u THEN Gone ELSE s[v]
    BY <1>2, <1>3, ExceptSeq
<1>5. Without(f, u) = [box EXCEPT ![f] = t]
    BY <1>1, <1>2, Zenon DEF Without
<1>6. box \in [Folders -> Seq(Mails \union {Gone})]
    BY DEF TypeOK
<1>7. Without(f, u) \in [Folders -> Seq(Mails \union {Gone})]
    BY <1>4, <1>5, <1>6
<1>8. \A g \in Folders : Without(f, u)[g] = IF g = f THEN t ELSE box[g]
    BY <1>5, <1>6
<1>9. \A g \in Folders : Len(Without(f, u)[g]) = Len(box[g])
    BY <1>1, <1>4, <1>8
<1>10. ASSUME NEW g \in Folders, NEW v \in DOMAIN box[g]
       PROVE  Without(f, u)[g][v] = IF g = f /\ v = u THEN Gone ELSE box[g][v]
  <2>1. CASE g = f
    <3>1. v \in 1..Len(s)
      BY <1>1, <2>1
    <3>2. Without(f, u)[g][v] = t[v]
      BY <1>8, <2>1
    <3> QED BY <1>1, <1>4, <2>1, <3>1, <3>2
  <2>2. CASE g # f
    BY <1>8, <2>2
  <2> QED BY <2>1, <2>2
<1> QED BY <1>7, <1>9, <1>10

\* A mail that is moved is taken away and appended to its target.
LEMMA MovedFacts ==
    ASSUME TypeOK, NEW f \in Folders, NEW u \in Uids(f), NEW to \in Folders
    PROVE  /\ Moved(f, u, to) \in [Folders -> Seq(Mails \union {Gone})]
           /\ \A g \in Folders :
                Len(Moved(f, u, to)[g]) = IF g = to THEN Len(box[g]) + 1 ELSE Len(box[g])
           /\ \A g \in Folders : \A v \in DOMAIN box[g] :
                Moved(f, u, to)[g][v] = IF g = f /\ v = u THEN Gone ELSE box[g][v]
           /\ Moved(f, u, to)[to][Len(box[to]) + 1] = box[f][u]
<1>1. u \in DOMAIN box[f] /\ box[f][u] \in Mails
    BY UidsFacts
<1>2. PICK b : b = Without(f, u)
    OBVIOUS
<1>3. /\ b \in [Folders -> Seq(Mails \union {Gone})]
      /\ \A g \in Folders : Len(b[g]) = Len(box[g])
      /\ \A g \in Folders : \A v \in DOMAIN box[g] :
           b[g][v] = IF g = f /\ v = u THEN Gone ELSE box[g][v]
  <2> HIDE DEF Without
  <2> QED BY <1>1, <1>2, WithoutFacts
<1>4. PICK m : m = box[f][u]
    OBVIOUS
<1>5. PICK s \in Seq(Mails \union {Gone}) : s = b[to]
    BY <1>3
<1>6. PICK t : t = Append(s, m)
    OBVIOUS
<1>7. /\ t \in Seq(Mails \union {Gone})
      /\ Len(t) = Len(s) + 1
      /\ \A v \in 1..Len(s) : t[v] = s[v]
      /\ t[Len(s) + 1] = m
    BY <1>1, <1>4, <1>6
<1>8. Moved(f, u, to) = [b EXCEPT ![to] = t]
    BY <1>2, <1>4, <1>5, <1>6, Zenon DEF Moved
<1>9. \A g \in Folders : Moved(f, u, to)[g] = IF g = to THEN t ELSE b[g]
    BY <1>3, <1>8
<1>10. Moved(f, u, to) \in [Folders -> Seq(Mails \union {Gone})]
    BY <1>3, <1>7, <1>8
<1>11. \A g \in Folders : DOMAIN box[g] = 1..Len(box[g]) /\ Len(box[g]) \in Nat
    BY UidsFacts
<1>12. Len(s) = Len(box[to])
    BY <1>3, <1>5
<1>13. ASSUME NEW g \in Folders
       PROVE  Len(Moved(f, u, to)[g]) = IF g = to THEN Len(box[g]) + 1 ELSE Len(box[g])
    BY <1>3, <1>7, <1>9, <1>12
<1>14. ASSUME NEW g \in Folders, NEW v \in DOMAIN box[g]
       PROVE  Moved(f, u, to)[g][v] = IF g = f /\ v = u THEN Gone ELSE box[g][v]
  <2>1. Moved(f, u, to)[g][v] = b[g][v]
    <3>1. CASE g = to
      <4>1. v \in 1..Len(s)
        BY <1>11, <1>12, <3>1
      <4>2. Moved(f, u, to)[g][v] = t[v]
        BY <1>9, <3>1
      <4>3. b[g][v] = s[v]
        BY <1>5, <3>1
      <4> QED BY <1>7, <4>1, <4>2, <4>3
    <3>2. CASE g # to
      BY <1>9, <3>2
    <3> QED BY <3>1, <3>2
  <2> QED BY <1>3, <2>1
<1>15. Moved(f, u, to)[to][Len(box[to]) + 1] = box[f][u]
    BY <1>4, <1>7, <1>9, <1>12
<1> QED BY <1>10, <1>13, <1>14, <1>15

\* An expunge takes mails away, and nothing else.
LEMMA ExpungedFacts ==
    ASSUME TypeOK, NEW f \in Folders, NEW marked
    PROVE  /\ Expunged(f, marked) \in [Folders -> Seq(Mails \union {Gone})]
           /\ \A g \in Folders : Len(Expunged(f, marked)[g]) = Len(box[g])
           /\ \A g \in Folders : \A v \in DOMAIN box[g] :
                Expunged(f, marked)[g][v] \in {box[g][v], Gone}
<1>1. PICK s \in Seq(Mails \union {Gone}) : s = box[f]
    BY DEF TypeOK
<1>2. PICK t : t = [u \in DOMAIN s |-> IF s[u] \in marked THEN Gone ELSE s[u]]
    OBVIOUS
<1>3. /\ t \in Seq(Mails \union {Gone})
      /\ Len(t) = Len(s)
      /\ \A v \in DOMAIN s : t[v] \in {s[v], Gone}
  <2>1. DOMAIN s = 1..Len(s) /\ Len(s) \in Nat /\ \A u \in DOMAIN s : s[u] \in Mails \union {Gone}
    OBVIOUS
  <2>2. t \in [1..Len(s) -> Mails \union {Gone}]
    BY <1>2, <2>1
  <2>3. \A v \in DOMAIN s : t[v] \in {s[v], Gone}
    BY <1>2
  <2> QED BY <2>1, <2>2, <2>3
<1>4. Expunged(f, marked) = [box EXCEPT ![f] = t]
    BY <1>1, <1>2, Zenon DEF Expunged
<1>5. box \in [Folders -> Seq(Mails \union {Gone})]
    BY DEF TypeOK
<1>6. Expunged(f, marked) \in [Folders -> Seq(Mails \union {Gone})]
    BY <1>3, <1>4, <1>5
<1>7. \A g \in Folders : Expunged(f, marked)[g] = IF g = f THEN t ELSE box[g]
    BY <1>4, <1>5
<1> QED BY <1>1, <1>3, <1>6, <1>7

\* What a push may do to the folders: nothing, or one mail goes to the target, or the
\* folder is expunged.
LEMMA PushedFacts ==
    ASSUME TypeOK, request \in RequestType, Pushed
    PROVE  LET f == request.row.folder
               u == request.row.uid
           IN \/ box' = box
              \/ u \in Uids(f) /\ request.to \in Folders /\ box' = Moved(f, u, request.to)
              \/ box' = Expunged(f, deleted')
BY DEF Pushed, Flags, Leaves, Expunges, RequestType, Operations

-----------------------------------------------------------------------------
(* What a synchronization writes.                                          *)

\* Rows of the same mail, in the same place.
SameMail(r, s) == r.mid = s.mid /\ r.folder = s.folder /\ r.uid = s.uid

LEMMA ReadFacts ==
    ASSUME NEW f, NEW row \in RowType
    PROVE  Read(f, row) \in RowType /\ SameMail(Read(f, row), row)
<1>1. CASE AllRead(f) /\ row.folder = f /\ ~row.is_deleted
  <2>1. Read(f, row) = [row EXCEPT !.is_read = TRUE]
    BY <1>1 DEF Read
  <2> QED BY <2>1 DEF RowType, SameMail
<1>2. CASE ~(AllRead(f) /\ row.folder = f /\ ~row.is_deleted)
  <2>1. Read(f, row) = row
    BY <1>2 DEF Read
  <2> QED BY <2>1 DEF SameMail
<1> QED BY <1>1, <1>2

LEMMA MergedFacts ==
    ASSUME NEW row \in RowType, NEW copy \in CopyType
    PROVE  Merged(row, copy) \in RowType /\ SameMail(Merged(row, copy), row)
BY DEF Merged, RowType, CopyType, SameMail

LEMMA SameMailTransitive ==
    ASSUME NEW r, NEW s, NEW t, SameMail(r, s), SameMail(s, t)
    PROVE  SameMail(r, t)
BY DEF SameMail

\* A row made of a fetched mail is of this mail and under its UID.
LEMMA NewRowFacts ==
    ASSUME TypeOK, pc = "fetching", NEW f \in Folders, NEW u \in DOMAIN fetched
    PROVE  /\ NewRow(f, u) \in RowType
           /\ NewRow(f, u).mid = fetched[u].mid
           /\ NewRow(f, u).folder = f
           /\ NewRow(f, u).uid = u
<1>1. /\ \A v \in DOMAIN fetched : fetched[v] \in CopyType
      /\ DOMAIN fetched \subseteq DOMAIN box[Folder]
    BY DEF TypeOK
<1>2. Folder \in Folders
    BY FolderIsOne DEF TypeOK
<1>3. DOMAIN fetched \in SUBSET Nat /\ Len(box[Folder]) \in Nat
      /\ \A v \in DOMAIN fetched : v <= Len(box[Folder])
    BY <1>1, <1>2, UidsFacts
<1>4. fetched[u].mid \in Mails /\ u \in Nat
    BY <1>1, <1>3 DEF CopyType
<1>5. /\ AsInserted(f, u) \in RowType
      /\ AsInserted(f, u).mid = fetched[u].mid
      /\ AsInserted(f, u).folder = f
      /\ AsInserted(f, u).uid = u
    BY <1>1, <1>4 DEF AsInserted, RowType, CopyType
<1>6. CASE Again(u) = {}
    BY <1>5, <1>6 DEF NewRow
<1>7. CASE Again(u) # {}
  <2>1. Again(u) \subseteq DOMAIN fetched
    BY DEF Again
  <2>2. \E v \in Again(u) : \A w \in Again(u) : w <= v
    BY <1>3, <1>7, <2>1, GreatestNumber
  <2>3. LastAgain(u) \in Again(u)
    BY <2>2, Zenon DEF LastAgain
  <2>4. PICK copy \in CopyType : copy = fetched[LastAgain(u)]
    BY <1>1, <2>1, <2>3
  <2>5. NewRow(f, u) = Merged(AsInserted(f, u), copy)
    BY <1>7, <2>4, Zenon DEF NewRow
  <2> QED BY <1>5, <2>5, MergedFacts DEF SameMail
<1> QED BY <1>6, <1>7

\* The rows that a merge updates stay those of their mails.
LEMMA MergeUpdates ==
    ASSUME TypeOK, MergeFolder
    PROVE  /\ DOMAIN updates' \subseteq DOMAIN updates \union DOMAIN rows
           /\ \A i \in DOMAIN updates' :
                \/ i \in DOMAIN updates /\ updates'[i] = updates[i]
                \/ i \in DOMAIN rows /\ updates'[i] \in RowType /\ SameMail(updates'[i], rows[i])
<1> DEFINE f == Folder
           old == {u \in DOMAIN fetched : Matches(f, u) # {}}
<1>1. PICK match \in [old -> DOMAIN rows] :
         /\ \A u \in old : match[u] \in Matches(f, u)
         /\ \E last \in [{match[u] : u \in old} -> old] :
              /\ \A i \in DOMAIN last : match[last[i]] = i
              /\ LET row(i) == IF i \in DOMAIN last
                               THEN Merged(rows[i], fetched[last[i]]) ELSE rows[i]
                     changed == {i \in RowsIn(f) : Read(f, row(i)) # rows[i]}
                 IN
                 updates' = [i \in DOMAIN updates \union changed |->
                               IF i \in changed THEN Read(f, row(i)) ELSE updates[i]]
    BY Zenon DEF MergeFolder
<1>2. PICK last \in [{match[u] : u \in old} -> old] :
         LET row(i) == IF i \in DOMAIN last
                       THEN Merged(rows[i], fetched[last[i]]) ELSE rows[i]
             changed == {i \in RowsIn(f) : Read(f, row(i)) # rows[i]}
         IN
         updates' = [i \in DOMAIN updates \union changed |->
                       IF i \in changed THEN Read(f, row(i)) ELSE updates[i]]
    BY <1>1, Zenon
<1> DEFINE row(i) == IF i \in DOMAIN last
                     THEN Merged(rows[i], fetched[last[i]]) ELSE rows[i]
           changed == {i \in RowsIn(f) : Read(f, row(i)) # rows[i]}
<1>3. changed \subseteq DOMAIN rows
    BY DEF RowsIn
<1>4. ASSUME NEW i \in DOMAIN rows
      PROVE  row(i) \in RowType /\ SameMail(row(i), rows[i])
  <2>1. rows[i] \in RowType
    BY DEF TypeOK
  <2>2. CASE i \in DOMAIN last
    <3>1. last[i] \in DOMAIN fetched
      BY <2>2
    <3>2. fetched[last[i]] \in CopyType
      BY <3>1 DEF TypeOK
    <3> QED BY <2>1, <2>2, <3>2, MergedFacts
  <2>3. CASE i \notin DOMAIN last
    BY <2>1, <2>3 DEF SameMail
  <2> QED BY <2>2, <2>3
<1>5. ASSUME NEW i \in DOMAIN rows
      PROVE  Read(f, row(i)) \in RowType /\ SameMail(Read(f, row(i)), rows[i])
  <2> HIDE DEF row, f
  <2> QED BY <1>4, ReadFacts, SameMailTransitive
<1>6. updates' = [i \in DOMAIN updates \union changed |->
                    IF i \in changed THEN Read(f, row(i)) ELSE updates[i]]
    BY <1>2, Zenon
<1> QED
  <2> HIDE DEF row, f, changed
  <2> QED BY <1>3, <1>5, <1>6

\* Every element of a finite set is in its sequence once.
LEMMA SetToSeqFacts ==
    ASSUME NEW S, IsFiniteSet(S)
    PROVE  /\ Cardinality(S) \in Nat
           /\ \A k \in 1..Cardinality(S) : SetToSeq(S)[k] \in S
           /\ \A k, l \in 1..Cardinality(S) : SetToSeq(S)[k] = SetToSeq(S)[l] => k = l
<1>1. Cardinality(S) \in Nat
    BY FS_CardinalityType
<1>2. \E b \in [1..Cardinality(S) -> S] : IsInjective(b)
  <2>1. PICK b \in Bijection(1..Cardinality(S), S) : TRUE
    BY FS_CardinalityType DEF ExistsBijection
  <2>2. b \in [1..Cardinality(S) -> S] /\ IsInjective(b)
    BY <2>1 DEF Bijection, Injection, IsInjective
  <2> QED BY <2>2
<1>3. SetToSeq(S) \in [1..Cardinality(S) -> S] /\ IsInjective(SetToSeq(S))
    BY <1>2, Zenon DEF SetToSeq
<1> QED BY <1>1, <1>3 DEF IsInjective

\* The rows that a merge inserts are of mails it has fetched and has no row of, one of
\* each.
LEMMA MergeInserts ==
    ASSUME TypeOK, MergeFolder
    PROVE  \E new \in Seq(RowType) :
             /\ inserts' = inserts \o new
             /\ \A k \in DOMAIN new :
                  /\ new[k].folder = Folder
                  /\ new[k].uid \in DOMAIN fetched
                  /\ new[k].mid = fetched[new[k].uid].mid
                  /\ Matches(Folder, new[k].uid) = {}
                  /\ FirstOfMail(new[k].uid)
             /\ \A k, l \in DOMAIN new : new[k].uid = new[l].uid => k = l
<1> DEFINE f == Folder
           S == {u \in DOMAIN fetched :
                   Matches(f, u) = {} /\ fetched[u].mid \notin Refused /\ FirstOfMail(u)}
           n == Cardinality(S)
           new == [k \in 1..n |-> Read(f, NewRow(f, SetToSeq(S)[k]))]
<1>1. inserts' = inserts \o new
    BY Zenon DEF MergeFolder
<1>2. pc = "fetching" /\ f \in Folders
    BY FolderIsOne DEF MergeFolder, TypeOK
<1>3. IsFiniteSet(S)
  <2>1. Len(box[f]) \in Nat /\ DOMAIN box[f] = 1..Len(box[f])
    BY <1>2, UidsFacts
  <2>2. IsFiniteSet(1..Len(box[f]))
    BY <2>1, FS_Interval
  <2>3. S \in SUBSET (1..Len(box[f]))
    BY <2>1 DEF TypeOK
  <2> QED BY <2>2, <2>3, FS_Subset
<1>4. /\ n \in Nat
      /\ \A k \in 1..n : SetToSeq(S)[k] \in S
      /\ \A k, l \in 1..n : SetToSeq(S)[k] = SetToSeq(S)[l] => k = l
  <2> HIDE DEF S
  <2> QED BY <1>3, SetToSeqFacts
<1>5. ASSUME NEW k \in 1..n
      PROVE  /\ new[k] \in RowType
             /\ new[k].folder = f
             /\ new[k].uid = SetToSeq(S)[k]
             /\ new[k].mid = fetched[new[k].uid].mid
  <2>1. PICK u \in S : u = SetToSeq(S)[k]
    BY <1>4, Zenon
  <2>2. new[k] = Read(f, NewRow(f, u))
    BY <2>1
  <2> HIDE DEF f, new
  <2>3. /\ NewRow(f, u) \in RowType
        /\ NewRow(f, u).mid = fetched[u].mid
        /\ NewRow(f, u).folder = f
        /\ NewRow(f, u).uid = u
    BY <1>2, NewRowFacts
  <2>4. new[k] \in RowType /\ SameMail(new[k], NewRow(f, u))
    BY <2>2, <2>3, ReadFacts
  <2> QED BY <2>1, <2>3, <2>4 DEF SameMail
<1>6. DOMAIN new = 1..n
    OBVIOUS
<1>7. new \in Seq(RowType)
  <2>1. new \in [1..n -> RowType]
    <3> HIDE DEF f, S, n
    <3> QED BY <1>5
  <2> HIDE DEF new, n
  <2> QED BY <1>4, <2>1
<1>8. ASSUME NEW k \in DOMAIN new
      PROVE  /\ new[k].folder = Folder
             /\ new[k].uid \in DOMAIN fetched
             /\ new[k].mid = fetched[new[k].uid].mid
             /\ Matches(Folder, new[k].uid) = {}
             /\ FirstOfMail(new[k].uid)
  <2>1. new[k].uid \in S
    <3> HIDE DEF S, new
    <3> QED BY <1>4, <1>5, <1>6
  <2>2. new[k].folder = f /\ new[k].mid = fetched[new[k].uid].mid
    <3> HIDE DEF S, new
    <3> QED BY <1>5, <1>6
  <2> HIDE DEF new
  <2> QED BY <2>1, <2>2
<1>9. ASSUME NEW k \in DOMAIN new, NEW l \in DOMAIN new, new[k].uid = new[l].uid PROVE k = l
  <2> HIDE DEF S, new
  <2> QED BY <1>4, <1>5, <1>6, <1>9
<1> QED
  <2> HIDE DEF new
  <2> QED BY <1>1, <1>7, <1>8, <1>9

-----------------------------------------------------------------------------
(* Types.                                                                  *)

LEMMA AnsweredFacts ==
    ASSUME TypeOK, request \in RequestType, NEW now \in RowType
    PROVE  /\ Answered(now) \in RowType
           /\ Answered(now).mid = now.mid
           /\ Answered(now).uid = now.uid
           /\ Answered(now).folder \in {now.folder, request.to}
           /\ request.op \in {"archive", "delete", "move"} /\ request.to \in Folders
                => Answered(now).folder = request.to
           /\ Answered(now).folder # now.folder => request.to \in Folders
<1> DEFINE there == [now EXCEPT !.folder = IF request.to \in Folders THEN request.to ELSE @]
<1>1. /\ there \in RowType
      /\ there.mid = now.mid
      /\ there.uid = now.uid
      /\ there.folder = IF request.to \in Folders THEN request.to ELSE now.folder
    BY DEF RowType
<1>2. request.op \in Operations /\ request.row \in RowType
    BY DEF RequestType
<1>3. CASE request.op \in {"read", "unread"}
    BY <1>2, <1>3 DEF Answered, Column, RowType
<1>4. CASE request.op = "archive"
  <2>1. Answered(now) = there
    BY <1>4 DEF Answered
  <2> HIDE DEF there
  <2> QED BY <1>1, <1>4, <2>1
<1>5. CASE request.op = "delete"
  <2>1. Answered(now) = [there EXCEPT !.is_deleted = Column(request.row.is_deleted, @, TRUE)]
    BY <1>5 DEF Answered
  <2> HIDE DEF there
  <2> QED BY <1>1, <1>2, <1>5, <2>1 DEF Column, RowType
<1>6. CASE request.op = "move"
  <2>1. Answered(now) = [there EXCEPT !.is_deleted = Column(request.row.is_deleted, @, FALSE)]
    BY <1>6 DEF Answered
  <2> HIDE DEF there
  <2> QED BY <1>1, <1>2, <1>6, <2>1 DEF Column, RowType
<1> QED BY <1>2, <1>3, <1>4, <1>5, <1>6 DEF Operations

LEMMA InitType == Init => TypeOK
<1> SUFFICES ASSUME Init PROVE TypeOK
    OBVIOUS
<1>1. box \in [Folders -> Seq(Mails \union {Gone})]
    BY DEF Init
<1>2. 1 \in 1..Len(FolderList)
    BY FolderListFacts
<1>3. /\ strict \in BOOLEAN
      /\ arrived \in 0..MailCount
      /\ actions \in 0..MaxActions
      /\ failures \in 0..MaxFailures
    BY ImapAssumptions DEF Init
<1>4. rows \in Seq(RowType) /\ batches \in Seq(BatchType) /\ inserts \in Seq(RowType)
    BY DEF Init
<1>5. DOMAIN fetched = {} /\ DOMAIN updates = {}
    BY DEF Init, Empty
<1> QED BY <1>1, <1>2, <1>3, <1>4, <1>5 DEF Init, TypeOK, NoRequest

\* Steps that leave what a synchronization has in hand as it is, and the request.
LEMMA ServerKeepsType ==
    ASSUME TypeOK, UNCHANGED <<rows, strict, syncVars, request>>,
           arrived' \in 0..MailCount,
           box' \in [Folders -> Seq(Mails \union {Gone})],
           \A f \in Folders : DOMAIN box[f] \subseteq DOMAIN box'[f],
           seen' \subseteq Mails, deleted' \subseteq Mails, removed' \in BOOLEAN,
           returned' \subseteq Mails,
           actions' \in 0..MaxActions, failures' \in 0..MaxFailures
    PROVE  TypeOK'
<1>1. Folder \in Folders /\ Folder' = Folder
    BY FolderIsOne DEF TypeOK, syncVars, Folder
<1>2. \A u \in DOMAIN fetched :
         u \in DOMAIN box'[Folder] /\ fetched[u] \in CopyType
    BY <1>1 DEF TypeOK
<1> QED BY <1>1, <1>2 DEF TypeOK, syncVars

LEMMA ArrivalType == ASSUME TypeOK, MailArrives PROVE TypeOK'
<1>1. "inbox" \in Folders
    BY ImapAssumptions
<1>2. PICK s \in Seq(Mails \union {Gone}) : s = box["inbox"]
    BY <1>1 DEF TypeOK
<1>3. arrived' \in Mails /\ arrived' \in 0..MailCount
    BY ImapAssumptions DEF MailArrives, Mails, TypeOK
<1>4. PICK t : t = Append(s, arrived')
    OBVIOUS
<1>5. t \in Seq(Mails \union {Gone}) /\ DOMAIN s \subseteq DOMAIN t
    BY <1>3, <1>4
<1>6. box' = [box EXCEPT !["inbox"] = t]
    BY <1>2, <1>4, Zenon DEF MailArrives
<1>7. box' \in [Folders -> Seq(Mails \union {Gone})]
      /\ \A f \in Folders : DOMAIN box[f] \subseteq DOMAIN box'[f]
    BY <1>1, <1>2, <1>5, <1>6 DEF TypeOK
<1>8. UNCHANGED <<seen, deleted, removed, returned, rows, strict, syncVars, request, actions, failures>>
    BY DEF MailArrives
<1> QED BY <1>3, <1>7, <1>8, ServerKeepsType DEF TypeOK

LEMMA FlagsType == ASSUME TypeOK, NEW m \in Mails, ClientFlags(m) PROVE TypeOK'
<1>1. \A S \in SUBSET Mails : Toggled(S, m) \subseteq Mails
    BY DEF Toggled
<1>2. seen' \subseteq Mails /\ deleted' \subseteq Mails
    BY <1>1 DEF ClientFlags, TypeOK
<1>3. actions' \in 0..MaxActions
    BY ImapAssumptions, SMTT(30) DEF ClientFlags, Acting, TypeOK
<1>4. UNCHANGED <<arrived, box, removed, returned, rows, strict, syncVars, request, failures>>
    BY DEF ClientFlags
<1> QED BY <1>2, <1>3, <1>4, ServerKeepsType DEF TypeOK

LEMMA RemovalType == ASSUME TypeOK, NEW u \in DOMAIN box["inbox"], ClientRemoves(u) PROVE TypeOK'
<1>1. "inbox" \in Folders
    BY ImapAssumptions
<1>2. box' = Without("inbox", u)
    BY DEF ClientRemoves
<1>3. /\ box' \in [Folders -> Seq(Mails \union {Gone})]
      /\ \A f \in Folders : Len(box'[f]) = Len(box[f])
    BY <1>1, <1>2, WithoutFacts
<1>4. \A f \in Folders : DOMAIN box[f] \subseteq DOMAIN box'[f]
    BY <1>3 DEF TypeOK
<1>5. actions' \in 0..MaxActions /\ removed' \in BOOLEAN
    BY ImapAssumptions DEF ClientRemoves, Acting, TypeOK
<1>6. UNCHANGED <<arrived, seen, deleted, returned, rows, strict, syncVars, request, failures>>
    BY DEF ClientRemoves
<1> QED BY <1>3, <1>4, <1>5, <1>6, ServerKeepsType DEF TypeOK

\* A push leaves the folders folders: they only get longer.
LEMMA PushedType ==
    ASSUME TypeOK, request \in RequestType, Pushed
    PROVE  /\ arrived' \in 0..MailCount
           /\ box' \in [Folders -> Seq(Mails \union {Gone})]
           /\ \A f \in Folders : DOMAIN box[f] \subseteq DOMAIN box'[f]
           /\ seen' \subseteq Mails
           /\ deleted' \subseteq Mails
           /\ removed' \in BOOLEAN
           /\ returned' \subseteq Mails
<1> DEFINE f == request.row.folder
           u == request.row.uid
<1>1. f \in Folders /\ request.row.mid \in Mails
    BY DEF RequestType, RowType
<1>2. box' \in [Folders -> Seq(Mails \union {Gone})]
      /\ \A g \in Folders : Len(box'[g]) \in Nat /\ Len(box'[g]) >= Len(box[g])
  <2>1. CASE box' = box
    BY <2>1, UidsFacts DEF TypeOK
  <2>2. CASE u \in Uids(f) /\ request.to \in Folders /\ box' = Moved(f, u, request.to)
    <3>1. /\ box' \in [Folders -> Seq(Mails \union {Gone})]
          /\ \A g \in Folders : Len(box'[g]) = IF g = request.to THEN Len(box[g]) + 1 ELSE Len(box[g])
      BY <1>1, <2>2, MovedFacts
    <3> QED BY <3>1, UidsFacts
  <2>3. CASE box' = Expunged(f, deleted')
    <3>1. /\ box' \in [Folders -> Seq(Mails \union {Gone})]
          /\ \A g \in Folders : Len(box'[g]) = Len(box[g])
      BY <1>1, <2>3, ExpungedFacts
    <3> QED BY <3>1, UidsFacts
  <2> QED BY <2>1, <2>2, <2>3, PushedFacts
<1>3. \A g \in Folders : DOMAIN box[g] \subseteq DOMAIN box'[g]
  <2>1. \A g \in Folders : DOMAIN box[g] = 1..Len(box[g]) /\ Len(box[g]) \in Nat
    BY UidsFacts
  <2>2. \A g \in Folders : DOMAIN box'[g] = 1..Len(box'[g])
    BY <1>2
  <2> QED BY <1>2, <2>1, <2>2
<1>4. \A v \in Uids(f) : box[f][v] \in Mails
    BY <1>1, UidsFacts
<1>5. seen' \subseteq Mails /\ deleted' \subseteq Mails
  <2>1. seen' \in {seen, seen \union Under(f, u), seen \ Under(f, u)}
    BY DEF Pushed, Flags, Leaves, Expunges
  <2>2. deleted' \in {deleted, deleted \union Under(f, u)}
    BY DEF Pushed, Flags, Leaves, Expunges
  <2>3. Under(f, u) \subseteq Mails
    BY <1>4 DEF Under
  <2> QED BY <2>1, <2>2, <2>3 DEF TypeOK
<1>6. removed' \in BOOLEAN
  <2>1. removed' \in {removed, TRUE}
    BY DEF Pushed, Flags, Leaves, Expunges, RequestType, Operations, TypeOK
  <2> QED BY <2>1 DEF TypeOK
<1>7. returned' \subseteq Mails
  <2>1. returned' \subseteq returned \union {request.row.mid} \union Under(f, u)
    BY DEF Pushed
  <2> QED BY <1>1, <1>4, <2>1 DEF TypeOK, Under
<1>8. arrived' = arrived
    BY DEF Pushed
<1> QED BY <1>2, <1>3, <1>5, <1>6, <1>7, <1>8 DEF TypeOK

LEMMA ListType == ASSUME TypeOK, ListFolders PROVE TypeOK'
<1>1. \A f \in Folders : Status(f) \in [total : Nat, unread : Nat]
    BY StatusType
<1>2. listing' \in [Folders -> [total : Nat, unread : Nat]]
    BY <1>1 DEF ListFolders
<1>3. failures' \in 0..MaxFailures
    BY ImapAssumptions DEF ListFolders, Failing, TypeOK
<1>4. at' \in 1..Len(FolderList)
    BY FolderListFacts DEF ListFolders
<1>5. DOMAIN fetched = {}
    BY DEF ListFolders, TypeOK, Empty
<1>6. /\ pc = "idle" /\ pc' = "planning"
      /\ UNCHANGED <<serverVars, rows, strict, batches, fetched, updates, inserts, request, actions>>
    BY DEF ListFolders
<1> QED BY <1>2, <1>3, <1>4, <1>5, <1>6 DEF TypeOK, serverVars

LEMMA PlanningType == ASSUME TypeOK, PlanFolder PROVE TypeOK'
<1>1. Folder \in Folders
    BY FolderIsOne DEF TypeOK
<1>2. batches' \in Seq(BatchType)
    BY <1>1, PlanType DEF PlanFolder
<1>3. failures' \in 0..MaxFailures
  <2>1. failures' = failures \/ Failing
    BY Zenon DEF PlanFolder
  <2> QED BY <2>1, ImapAssumptions DEF Failing, TypeOK
<1>4. DOMAIN fetched = {}
    BY DEF PlanFolder, TypeOK, Empty
<1>5. /\ pc = "planning" /\ pc' = "fetching"
      /\ UNCHANGED <<serverVars, rows, strict, at, listing, fetched, updates, inserts, request, actions>>
    BY DEF PlanFolder
<1> QED BY <1>2, <1>3, <1>4, <1>5 DEF TypeOK, serverVars

\* What a batch adds is what the folder has under its UIDs.
LEMMA FetchFacts ==
    ASSUME TypeOK, FetchBatch
    PROVE  /\ \A u \in DOMAIN fetched' :
                \/ u \in DOMAIN fetched /\ fetched'[u] = fetched[u]
                \/ /\ u \in Uids(Folder)
                   /\ fetched'[u] = Copy(box[Folder][u])
           /\ batches' \in Seq(BatchType)
           /\ failures' \in 0..MaxFailures
<1>1. batches \in Seq(BatchType) /\ batches # <<>>
    BY DEF FetchBatch, TypeOK
<1>2. Head(batches) \in BatchType /\ Tail(batches) \in Seq(BatchType)
    BY <1>1, HeadTailProperties
<1>3. Asked(Folder, Head(batches)) \subseteq Uids(Folder)
    BY <1>2, AskedFacts
<1>4. PICK got \in SUBSET Asked(Folder, Head(batches)) :
         /\ UNCHANGED failures \/ Failing
         /\ fetched' = [u \in DOMAIN fetched \union got |->
                          IF u \in DOMAIN fetched THEN fetched[u]
                          ELSE Copy(box[Folder][u])]
    BY Zenon DEF FetchBatch
<1>5. failures' \in 0..MaxFailures
    BY <1>4, ImapAssumptions DEF Failing, TypeOK
<1>6. batches' = Tail(batches)
    BY DEF FetchBatch
<1> QED BY <1>2, <1>3, <1>4, <1>5, <1>6

LEMMA FetchType == ASSUME TypeOK, FetchBatch PROVE TypeOK'
<1>1. Folder \in Folders /\ Folder' = Folder
    BY FolderIsOne DEF TypeOK, Folder, FetchBatch
<1>2. \A u \in DOMAIN fetched' :
         u \in DOMAIN box[Folder] /\ fetched'[u] \in CopyType
  <2> SUFFICES ASSUME NEW u \in DOMAIN fetched'
               PROVE  u \in DOMAIN box[Folder] /\ fetched'[u] \in CopyType
    OBVIOUS
  <2>1. CASE u \in DOMAIN fetched /\ fetched'[u] = fetched[u]
    BY <2>1 DEF TypeOK
  <2>2. CASE /\ u \in Uids(Folder)
             /\ fetched'[u] = Copy(box[Folder][u])
    <3>1. u \in DOMAIN box[Folder] /\ box[Folder][u] \in Mails
      BY <1>1, <2>2, UidsFacts
    <3>2. PICK m \in Mails : m = box[Folder][u]
      BY <3>1
    <3>3. Copy(m) \in CopyType
      BY DEF Copy, CopyType
    <3> QED BY <2>2, <3>1, <3>2, <3>3
  <2> QED BY <2>1, <2>2, FetchFacts
<1>3. batches' \in Seq(BatchType) /\ failures' \in 0..MaxFailures
    BY FetchFacts
<1>4. /\ pc = "fetching" /\ pc' = pc
      /\ UNCHANGED <<serverVars, rows, strict, at, listing, updates, inserts, request, actions>>
    BY DEF FetchBatch
<1> QED BY <1>1, <1>2, <1>3, <1>4 DEF TypeOK, serverVars

LEMMA MergeType == ASSUME TypeOK, MergeFolder PROVE TypeOK'
<1>1. \A i \in DOMAIN updates' : i \in DOMAIN rows /\ updates'[i] \in RowType
  <2> SUFFICES ASSUME NEW i \in DOMAIN updates'
               PROVE  i \in DOMAIN rows /\ updates'[i] \in RowType
    OBVIOUS
  <2>1. \/ i \in DOMAIN updates /\ updates'[i] = updates[i]
        \/ i \in DOMAIN rows /\ updates'[i] \in RowType
    BY MergeUpdates, Zenon
  <2> QED BY <2>1 DEF TypeOK
<1>2. inserts' \in Seq(RowType)
  <2>1. PICK new \in Seq(RowType) : inserts' = inserts \o new
    BY MergeInserts, Zenon
  <2> QED BY <2>1 DEF TypeOK
<1>3. at' \in 1..Len(FolderList) /\ pc' \in {"planning", "merged"}
  <2>1. at \in 1..Len(FolderList) /\ Len(FolderList) \in Nat
    BY FolderListFacts DEF TypeOK
  <2>2. IF at < Len(FolderList)
        THEN at' = at + 1 /\ pc' = "planning"
        ELSE at' = at /\ pc' = "merged"
    BY Zenon DEF MergeFolder
  <2> QED BY <2>1, <2>2
<1>4. DOMAIN fetched' = {}
    BY DEF MergeFolder, Empty
<1>5. /\ pc = "fetching" /\ batches = <<>> /\ fetched' = Empty
      /\ UNCHANGED <<serverVars, rows, strict, listing, batches, request, actions, failures>>
    BY DEF MergeFolder
<1> QED BY <1>1, <1>2, <1>3, <1>4, <1>5 DEF TypeOK, serverVars

\* The end of a synchronization has every row where it was, and the new ones after them.
LEMMA CommitFacts ==
    ASSUME TypeOK, Commit
    PROVE  /\ rows' \in Seq(RowType)
           /\ Len(rows') = Len(rows) + Len(inserts)
           /\ \A i \in 1..Len(rows) : rows'[i] = IF i \in DOMAIN updates THEN updates[i] ELSE rows[i]
           /\ \A i \in Len(rows) + 1..Len(rows) + Len(inserts) : rows'[i] = inserts[i - Len(rows)]
<1> DEFINE old == [i \in DOMAIN rows |-> IF i \in DOMAIN updates THEN updates[i] ELSE rows[i]]
<1>1. rows' = old \o inserts
    BY DEF Commit
<1>2. rows \in Seq(RowType) /\ inserts \in Seq(RowType)
    BY DEF TypeOK
<1>3. DOMAIN rows = 1..Len(rows) /\ Len(rows) \in Nat /\ \A i \in 1..Len(rows) : rows[i] \in RowType
    BY <1>2
<1>4. old \in [1..Len(rows) -> RowType]
    BY <1>3 DEF TypeOK
<1>5. \A i \in 1..Len(rows) : old[i] = IF i \in DOMAIN updates THEN updates[i] ELSE rows[i]
    BY <1>3
<1> HIDE DEF old
<1>6. old \in Seq(RowType) /\ Len(old) = Len(rows)
    BY <1>3, <1>4
<1>7. /\ rows' \in Seq(RowType)
      /\ Len(rows') = Len(rows) + Len(inserts)
      /\ \A i \in 1..Len(rows) + Len(inserts) :
           rows'[i] = IF i <= Len(rows) THEN old[i] ELSE inserts[i - Len(rows)]
  <2>1. /\ old \o inserts \in Seq(RowType)
        /\ Len(old \o inserts) = Len(old) + Len(inserts)
        /\ \A i \in 1..Len(old) + Len(inserts) :
             (old \o inserts)[i] = IF i <= Len(old) THEN old[i] ELSE inserts[i - Len(old)]
    BY <1>2, <1>6, ConcatProperties
  <2> QED BY <1>1, <1>6, <2>1
<1>8. Len(inserts) \in Nat
    BY <1>2
<1>9. \A i \in 1..Len(rows) : rows'[i] = IF i \in DOMAIN updates THEN updates[i] ELSE rows[i]
    BY <1>3, <1>5, <1>7, <1>8
<1>10. \A i \in Len(rows) + 1..Len(rows) + Len(inserts) : rows'[i] = inserts[i - Len(rows)]
    BY <1>3, <1>7, <1>8
<1> QED BY <1>7, <1>9, <1>10

LEMMA EndType ==
    ASSUME TypeOK, Ended, rows' \in Seq(RowType), Len(rows') >= Len(rows),
           UNCHANGED <<serverVars, strict, request, actions>>, failures' \in 0..MaxFailures
    PROVE  TypeOK'
<1>1. at' \in 1..Len(FolderList) /\ batches' \in Seq(BatchType) /\ inserts' \in Seq(RowType)
    BY FolderListFacts DEF Ended
<1>2. DOMAIN fetched' = {} /\ DOMAIN updates' = {}
    BY DEF Ended, Empty
<1>3. DOMAIN rows \subseteq DOMAIN rows'
    BY DEF TypeOK
<1>4. request' # NoRequest => request' \in RequestType /\ request'.id \in DOMAIN rows'
    BY <1>3 DEF TypeOK
<1> QED BY <1>1, <1>2, <1>4 DEF Ended, TypeOK, serverVars

LEMMA StartType ==
    ASSUME TypeOK, NEW op \in Operations, NEW to \in Targets(op), NEW i \in DOMAIN rows,
           RequestStarts(op, to, i)
    PROVE  TypeOK'
<1>1. to \in Folders \union {"nowhere", "archive", "trash"}
    BY DEF Targets, Operations
<1>2. i \in Nat /\ rows[i] \in RowType
    BY DEF TypeOK
<1>3. request' \in RequestType /\ request'.id \in DOMAIN rows
    BY <1>1, <1>2 DEF RequestStarts, RequestType
<1>4. actions' \in 0..MaxActions
    BY ImapAssumptions DEF RequestStarts, Acting, TypeOK
<1>5. UNCHANGED <<serverVars, rows, strict, syncVars, failures>>
    BY DEF RequestStarts
<1>6. Folder' = Folder
    BY <1>5 DEF Folder, syncVars
<1> QED BY <1>3, <1>4, <1>5, <1>6 DEF TypeOK, serverVars, syncVars

\* A request that goes on, or ends.
LEMMA RequestKeepsType ==
    ASSUME TypeOK, UNCHANGED <<serverVars, strict, syncVars, actions>>,
           rows' \in Seq(RowType), Len(rows') = Len(rows),
           request' = NoRequest, failures' \in 0..MaxFailures
    PROVE  TypeOK'
<1>1. DOMAIN rows' = DOMAIN rows
    BY DEF TypeOK
<1>2. Folder' = Folder
    BY DEF Folder, syncVars
<1> QED BY <1>1, <1>2 DEF TypeOK, serverVars, syncVars

LEMMA PushType == ASSUME TypeOK, Push \/ PushFails PROVE TypeOK'
<1>1. request \in RequestType /\ request.id \in DOMAIN rows
    BY DEF Push, PushFails, NoRequest, TypeOK
<1>2. request' # NoRequest => request' \in RequestType /\ request'.id \in DOMAIN rows
    BY <1>1 DEF Push, PushFails, RequestType
<1>3. /\ arrived' \in 0..MailCount
      /\ box' \in [Folders -> Seq(Mails \union {Gone})]
      /\ \A f \in Folders : DOMAIN box[f] \subseteq DOMAIN box'[f]
      /\ seen' \subseteq Mails
      /\ deleted' \subseteq Mails
      /\ removed' \in BOOLEAN
      /\ returned' \subseteq Mails
  <2>1. CASE Pushed
    BY <1>1, <2>1, PushedType
  <2>2. CASE UNCHANGED serverVars
    BY <2>2 DEF TypeOK, serverVars
  <2>3. CASE MarkedOnly
    <3>1. request.row.folder \in Folders
      BY <1>1 DEF RequestType, RowType
    <3>2. Under(request.row.folder, request.row.uid) \subseteq Mails
      BY <3>1, UidsFacts DEF Under
    <3> QED BY <2>3, <3>2 DEF MarkedOnly, TypeOK
  <2> QED BY <2>1, <2>2, <2>3 DEF Push, PushFails
<1>4. /\ UNCHANGED <<rows, strict, syncVars, actions>>
      /\ failures' \in 0..MaxFailures
  <2>1. CASE Push
    BY <2>1 DEF Push, TypeOK
  <2>2. CASE PushFails
    BY <2>2, ImapAssumptions DEF PushFails, Failing, TypeOK
  <2> QED BY <2>1, <2>2
<1>5. Folder \in Folders /\ Folder' = Folder
    BY <1>4, FolderIsOne DEF TypeOK, syncVars, Folder
<1>6. \A u \in DOMAIN fetched :
         u \in DOMAIN box'[Folder] /\ fetched[u] \in CopyType
    BY <1>3, <1>5 DEF TypeOK
<1> QED BY <1>2, <1>3, <1>4, <1>5, <1>6 DEF TypeOK, syncVars

LEMMA RequestCommitFacts ==
    ASSUME TypeOK, RequestCommits
    PROVE  /\ request \in RequestType /\ request.id \in 1..Len(rows)
           /\ rows' \in Seq(RowType) /\ Len(rows') = Len(rows)
           /\ \A i \in 1..Len(rows) : rows'[i] = IF i = request.id THEN Answered(rows[i]) ELSE rows[i]
<1>1. request \in RequestType /\ request.id \in 1..Len(rows) /\ rows \in Seq(RowType)
    BY DEF RequestCommits, NoRequest, TypeOK
<1>2. Answered(rows[request.id]) \in RowType
    BY <1>1, AnsweredFacts
<1>3. rows' = [rows EXCEPT ![request.id] = Answered(rows[request.id])]
    BY DEF RequestCommits
<1> QED BY <1>1, <1>2, <1>3, ExceptSeq

LEMMA NextType == ASSUME TypeOK, [Next]_vars PROVE TypeOK'
<1>1. CASE MailArrives
    BY <1>1, ArrivalType
<1>2. ASSUME NEW m \in Mails, ClientFlags(m) PROVE TypeOK'
    BY <1>2, FlagsType
<1>3. ASSUME NEW u \in DOMAIN box["inbox"], ClientRemoves(u) PROVE TypeOK'
    BY <1>3, RemovalType
<1>4. CASE ListFolders
    BY <1>4, ListType
<1>5. CASE PlanFolder
    BY <1>5, PlanningType
<1>6. CASE FetchBatch
    BY <1>6, FetchType
<1>7. CASE MergeFolder
    BY <1>7, MergeType
<1>8. CASE Commit
  <2>1. rows' \in Seq(RowType) /\ Len(rows') >= Len(rows)
    BY <1>8, CommitFacts DEF TypeOK
  <2>2. Ended /\ UNCHANGED <<serverVars, strict, request, actions>> /\ failures' \in 0..MaxFailures
    BY <1>8 DEF Commit, TypeOK
  <2> QED BY <2>1, <2>2, EndType
<1>9. CASE SyncFails
  <2>1. rows' \in Seq(RowType) /\ Len(rows') >= Len(rows)
    BY <1>9 DEF SyncFails, TypeOK
  <2>2. Ended /\ UNCHANGED <<serverVars, strict, request, actions>> /\ failures' \in 0..MaxFailures
    BY <1>9, ImapAssumptions DEF SyncFails, Failing, TypeOK
  <2> QED BY <2>1, <2>2, EndType
<1>10. ASSUME NEW op \in Operations, NEW to \in Targets(op), NEW i \in DOMAIN rows,
              RequestStarts(op, to, i)
       PROVE  TypeOK'
    BY <1>10, StartType
<1>11. CASE Push \/ PushFails
    BY <1>11, PushType
<1>12. CASE RequestCommits
  <2>1. rows' \in Seq(RowType) /\ Len(rows') = Len(rows)
    BY <1>12, RequestCommitFacts
  <2> QED BY <1>12, <2>1, RequestKeepsType DEF RequestCommits, TypeOK
<1>13. CASE RequestDies
  <2>1. failures' \in 0..MaxFailures
    BY <1>13, ImapAssumptions DEF RequestDies, Failing, TypeOK
  <2> QED BY <1>13, <2>1, RequestKeepsType DEF RequestDies, TypeOK
<1>14. CASE UNCHANGED vars
  <2>1. Folder' = Folder
    BY <1>14 DEF vars, syncVars, Folder
  <2> QED BY <1>14, <2>1 DEF vars, serverVars, syncVars, TypeOK
<1> QED BY <1>1, <1>2, <1>3, <1>4, <1>5, <1>6, <1>7, <1>8, <1>9, <1>10, <1>11, <1>12, <1>13, <1>14
        DEF Next, Sync

\* The state of the server, of the mirror, of a synchronization and of a request keep
\* their types, whatever is interleaved: among others a request holds a row that is in
\* the table (emails.py 1128-1172), and what was fetched has a UID of the folder.
THEOREM TypesAreKept == Spec => []TypeOK
<1>1. TypeOK /\ [Next]_vars => TypeOK'
    BY NextType
<1> QED BY <1>1, InitType, PTL DEF Spec

-----------------------------------------------------------------------------
(* The inductive invariant of DoublesOnlyByReturn.                         *)

\* A synchronization updates flags only, and the rows it has updated stay locked.
UpdatesAgree == \A i \in DOMAIN updates : SameMail(updates[i], rows[i])

\* A request goes where its operation goes, with a row of its mail.
RequestFits ==
    request # NoRequest =>
        request.to \in Targets(request.op) /\ request.row.mid = rows[request.id].mid

\* A synchronization has inserted rows of the folders it is done with.
InsertsInOrder ==
    \A k \in DOMAIN inserts : \E a \in DOMAIN FolderList :
        inserts[k].folder = FolderList[a] /\ (a < at \/ pc = "merged")

\* Its new rows of the inbox are of mails that the mirror of the inbox has no row of,
\* but for one that came back meanwhile ...
InsertsAreNew ==
    \A k \in DOMAIN inserts : \A i \in RowsIn("inbox") :
        inserts[k].folder = "inbox" /\ rows[i].mid = inserts[k].mid => rows[i].mid \in returned

\* ... and each of another mail.
InsertsAreDistinct ==
    \A k, l \in DOMAIN inserts :
        inserts[k].folder = "inbox" /\ inserts[l].folder = "inbox" /\ inserts[k].mid = inserts[l].mid
            => k = l

\* The history knows of a mail before its row comes back to the inbox.
ReturnIsKnown ==
    request.step = "pushed" /\ request.to = "inbox" => request.row.mid \in returned

DoublesInv ==
    /\ TypeOK
    /\ UpdatesAgree
    /\ RequestFits
    /\ InsertsInOrder
    /\ InsertsAreNew
    /\ InsertsAreDistinct
    /\ ReturnIsKnown
    /\ DoublesOnlyByReturn

\* Where neither rows nor what a synchronization has in hand change, the history only
\* grows, and the request is at most dropped.
LEMMA DoublesQuiet ==
    ASSUME DoublesInv, TypeOK', UNCHANGED <<rows, updates, inserts, at, pc>>,
           returned \subseteq returned', request' \in {request, NoRequest}
    PROVE  DoublesInv'
<1>1. RowsIn("inbox")' = RowsIn("inbox")
    BY DEF RowsIn
<1>2. UpdatesAgree' /\ InsertsInOrder' /\ InsertsAreDistinct'
    BY DEF DoublesInv, UpdatesAgree, InsertsInOrder, InsertsAreDistinct, SameMail
<1>3. InsertsAreNew' /\ DoublesOnlyByReturn'
    BY <1>1 DEF DoublesInv, InsertsAreNew, DoublesOnlyByReturn
<1>4. RequestFits' /\ ReturnIsKnown'
    BY DEF DoublesInv, RequestFits, ReturnIsKnown, NoRequest
<1> QED BY <1>2, <1>3, <1>4 DEF DoublesInv

LEMMA DoublesMerge ==
    ASSUME DoublesInv, TypeOK', MergeFolder
    PROVE  DoublesInv'
<1> USE DEF DoublesInv
<1>1. UNCHANGED <<rows, returned, request>> /\ pc = "fetching"
    BY DEF MergeFolder, serverVars
<1>2. at \in 1..Len(FolderList) /\ at' \in 1..Len(FolderList)
    BY DEF TypeOK
<1>3. /\ at' = at + 1 \/ (at' = at /\ pc' = "merged")
      /\ Len(FolderList) \in Nat
  <2>1. IF at < Len(FolderList)
        THEN at' = at + 1 /\ pc' = "planning"
        ELSE at' = at /\ pc' = "merged"
    BY Zenon DEF MergeFolder
  <2> QED BY <2>1, FolderListFacts
<1>4. PICK new \in Seq(RowType) :
        /\ inserts' = inserts \o new
        /\ \A k \in DOMAIN new :
             /\ new[k].folder = Folder
             /\ new[k].uid \in DOMAIN fetched
             /\ new[k].mid = fetched[new[k].uid].mid
             /\ Matches(Folder, new[k].uid) = {}
             /\ FirstOfMail(new[k].uid)
        /\ \A k, l \in DOMAIN new : new[k].uid = new[l].uid => k = l
    BY MergeInserts, Zenon
<1>5. inserts \in Seq(RowType) /\ inserts' \in Seq(RowType)
    BY DEF TypeOK
<1>6. \A k \in DOMAIN inserts' :
         \/ k \in DOMAIN inserts /\ inserts'[k] = inserts[k]
         \/ k - Len(inserts) \in DOMAIN new /\ inserts'[k] = new[k - Len(inserts)]
    BY <1>4, <1>5
<1>7. DOMAIN inserts' \subseteq Nat /\ Len(inserts) \in Nat
    BY <1>5
<1>8. UpdatesAgree'
  <2> SUFFICES ASSUME NEW i \in DOMAIN updates'
               PROVE  SameMail(updates'[i], rows[i])
    BY <1>1 DEF UpdatesAgree, SameMail
  <2>1. \/ i \in DOMAIN updates /\ updates'[i] = updates[i]
        \/ SameMail(updates'[i], rows[i])
    BY MergeUpdates, Zenon
  <2> QED BY <2>1 DEF UpdatesAgree
<1>9. InsertsInOrder'
  <2> SUFFICES ASSUME NEW k \in DOMAIN inserts'
               PROVE  \E a \in DOMAIN FolderList :
                        inserts'[k].folder = FolderList[a] /\ (a < at' \/ pc' = "merged")
    BY DEF InsertsInOrder
  <2>1. CASE k \in DOMAIN inserts /\ inserts'[k] = inserts[k]
    <3>1. PICK a \in DOMAIN FolderList : inserts[k].folder = FolderList[a] /\ a < at
      BY <1>1, <2>1 DEF InsertsInOrder
    <3>2. a \in Nat
      BY FolderListFacts
    <3> QED BY <1>2, <1>3, <2>1, <3>1, <3>2
  <2>2. CASE k - Len(inserts) \in DOMAIN new /\ inserts'[k] = new[k - Len(inserts)]
    <3>1. inserts'[k].folder = FolderList[at]
      BY <1>4, <2>2 DEF Folder
    <3>2. at \in DOMAIN FolderList
      BY <1>2, FolderListFacts
    <3> QED BY <1>2, <1>3, <3>1, <3>2
  <2> QED BY <1>6, <2>1, <2>2
<1>10. RowsIn("inbox")' = RowsIn("inbox")
    BY <1>1 DEF RowsIn
<1>11. InsertsAreNew'
  <2> SUFFICES ASSUME NEW k \in DOMAIN inserts', NEW i \in RowsIn("inbox"),
                      inserts'[k].folder = "inbox", rows[i].mid = inserts'[k].mid
               PROVE  rows[i].mid \in returned
    BY <1>1, <1>10 DEF InsertsAreNew
  <2>1. CASE k \in DOMAIN inserts /\ inserts'[k] = inserts[k]
    BY <2>1 DEF InsertsAreNew
  <2>2. CASE k - Len(inserts) \in DOMAIN new /\ inserts'[k] = new[k - Len(inserts)]
    <3>1. PICK u : u = inserts'[k].uid
      OBVIOUS
    <3>2. Folder = "inbox" /\ rows[i].mid = fetched[u].mid /\ Matches(Folder, u) = {}
      BY <1>4, <2>2, <3>1
    <3>3. i \in {j \in RowsIn(Folder) : rows[j].mid = fetched[u].mid}
      BY <3>2
    <3>4. Matches(Folder, u) # {}
      BY <3>3, Zenon DEF Matches
    <3> QED BY <3>2, <3>4
  <2> QED BY <1>6, <2>1, <2>2
<1>12. ASSUME NEW k \in DOMAIN inserts, NEW l \in DOMAIN new,
              inserts[k].folder = "inbox", new[l].folder = "inbox"
       PROVE  FALSE
  <2>1. PICK a \in DOMAIN FolderList : inserts[k].folder = FolderList[a] /\ a < at
    BY <1>1 DEF InsertsInOrder
  <2>2. FolderList[at] = FolderList[a]
    BY <1>4, <1>12, <2>1 DEF Folder
  <2>3. a \in 1..Len(FolderList)
    BY FolderListFacts
  <2>4. a = at
    BY <1>2, <2>2, <2>3, FolderListFacts
  <2> QED BY <1>2, <2>1, <2>4
<1>13. ASSUME NEW k \in DOMAIN new, NEW l \in DOMAIN new, new[k].mid = new[l].mid
       PROVE  k = l
  <2>1. PICK u, v \in DOMAIN fetched : u = new[k].uid /\ v = new[l].uid
    BY <1>4
  <2>2. FirstOfMail(u) /\ FirstOfMail(v) /\ fetched[u].mid = fetched[v].mid
    BY <1>4, <1>13, <2>1
  <2>3. u \in Nat /\ v \in Nat
    <3>1. DOMAIN fetched \subseteq DOMAIN box[Folder] /\ Folder \in Folders
      BY <1>2, FolderIsOne DEF TypeOK
    <3> QED BY <3>1, UidsFacts
  <2>4. u <= v /\ v <= u
    BY <2>2 DEF FirstOfMail
  <2> QED BY <1>4, <2>1, <2>3, <2>4
<1>14. InsertsAreDistinct'
  <2> SUFFICES ASSUME NEW k \in DOMAIN inserts', NEW l \in DOMAIN inserts',
                      inserts'[k].folder = "inbox", inserts'[l].folder = "inbox",
                      inserts'[k].mid = inserts'[l].mid
               PROVE  k = l
    BY DEF InsertsAreDistinct
  <2>1. CASE k \in DOMAIN inserts /\ inserts'[k] = inserts[k]
    <3>1. l \in DOMAIN inserts /\ inserts'[l] = inserts[l]
      BY <1>6, <1>12, <2>1
    <3> QED BY <2>1, <3>1 DEF InsertsAreDistinct
  <2>2. CASE k - Len(inserts) \in DOMAIN new /\ inserts'[k] = new[k - Len(inserts)]
    <3>1. l - Len(inserts) \in DOMAIN new /\ inserts'[l] = new[l - Len(inserts)]
      BY <1>6, <1>12, <2>2
    <3>2. k - Len(inserts) = l - Len(inserts)
      BY <1>13, <2>2, <3>1
    <3> QED BY <1>7, <3>2
  <2> QED BY <1>6, <2>1, <2>2
<1>15. DoublesOnlyByReturn' /\ RequestFits' /\ ReturnIsKnown'
    BY <1>1, <1>10 DEF DoublesOnlyByReturn, RequestFits, ReturnIsKnown
<1> QED BY <1>8, <1>9, <1>11, <1>14, <1>15

LEMMA DoublesEnd ==
    ASSUME DoublesInv, TypeOK', Ended, UNCHANGED <<returned, request>>,
           RequestFits', DoublesOnlyByReturn'
    PROVE  DoublesInv'
<1>1. DOMAIN updates' = {} /\ DOMAIN inserts' = {}
    BY DEF Ended, Empty
<1>2. ReturnIsKnown'
    BY DEF DoublesInv, ReturnIsKnown
<1> QED BY <1>1, <1>2
        DEF DoublesInv, UpdatesAgree, InsertsInOrder, InsertsAreNew, InsertsAreDistinct

\* Every row of the table, after a synchronization, is a row there was or one it inserted.
LEMMA CommittedRows ==
    ASSUME TypeOK, UpdatesAgree, Commit
    PROVE  /\ DOMAIN rows \subseteq DOMAIN rows'
           /\ \A i \in DOMAIN rows' :
                \/ i \in DOMAIN rows /\ SameMail(rows'[i], rows[i])
                \/ i - Len(rows) \in DOMAIN inserts /\ rows'[i] = inserts[i - Len(rows)]
           /\ \A i \in DOMAIN rows : SameMail(rows'[i], rows[i])
<1>1. rows \in Seq(RowType) /\ inserts \in Seq(RowType)
    BY DEF TypeOK
<1>2. /\ DOMAIN rows = 1..Len(rows) /\ Len(rows) \in Nat
      /\ DOMAIN inserts = 1..Len(inserts) /\ Len(inserts) \in Nat
    BY <1>1
<1>3. DOMAIN rows' = 1..Len(rows) + Len(inserts)
    BY <1>2, CommitFacts
<1>4. ASSUME NEW i \in DOMAIN rows PROVE SameMail(rows'[i], rows[i])
  <2>1. CASE i \in DOMAIN updates
    BY <1>2, <2>1, CommitFacts DEF UpdatesAgree
  <2>2. CASE i \notin DOMAIN updates
    BY <1>2, <2>2, CommitFacts DEF SameMail
  <2> QED BY <2>1, <2>2
<1>5. ASSUME NEW i \in DOMAIN rows', i \notin DOMAIN rows
      PROVE  i - Len(rows) \in DOMAIN inserts /\ rows'[i] = inserts[i - Len(rows)]
  <2>1. i \in Len(rows) + 1..Len(rows) + Len(inserts)
    BY <1>2, <1>3, <1>5
  <2> QED BY <1>2, <2>1, CommitFacts
<1> QED BY <1>2, <1>3, <1>4, <1>5

LEMMA DoublesCommit ==
    ASSUME DoublesInv, TypeOK', Commit
    PROVE  DoublesInv'
<1> USE DEF DoublesInv
<1>1. Ended /\ UNCHANGED <<returned, request>>
    BY DEF Commit, serverVars
<1>2. /\ DOMAIN rows \subseteq DOMAIN rows'
      /\ \A i \in DOMAIN rows' :
           \/ i \in DOMAIN rows /\ SameMail(rows'[i], rows[i])
           \/ i - Len(rows) \in DOMAIN inserts /\ rows'[i] = inserts[i - Len(rows)]
      /\ \A i \in DOMAIN rows : SameMail(rows'[i], rows[i])
    BY CommittedRows
<1>3. RequestFits'
    BY <1>1, <1>2 DEF RequestFits, SameMail, TypeOK
<1>4. DoublesOnlyByReturn'
  <2> SUFFICES ASSUME NEW i \in RowsIn("inbox")', NEW j \in RowsIn("inbox")',
                      rows'[i].mid = rows'[j].mid, rows'[i].mid \notin returned
               PROVE  i = j
    BY <1>1 DEF DoublesOnlyByReturn
  <2>1. /\ i \in DOMAIN rows' /\ rows'[i].folder = "inbox"
        /\ j \in DOMAIN rows' /\ rows'[j].folder = "inbox"
    BY DEF RowsIn
  <2>2. CASE i \in DOMAIN rows /\ SameMail(rows'[i], rows[i])
    <3>1. i \in RowsIn("inbox") /\ rows[i].mid = rows'[i].mid
      BY <2>1, <2>2 DEF RowsIn, SameMail
    <3>2. CASE j \in DOMAIN rows /\ SameMail(rows'[j], rows[j])
      <4>1. j \in RowsIn("inbox") /\ rows[j].mid = rows'[j].mid
        BY <2>1, <3>2 DEF RowsIn, SameMail
      <4> QED BY <3>1, <4>1 DEF DoublesOnlyByReturn
    <3>3. CASE j - Len(rows) \in DOMAIN inserts /\ rows'[j] = inserts[j - Len(rows)]
      BY <2>1, <3>1, <3>3 DEF InsertsAreNew
    <3> QED BY <1>2, <2>1, <3>2, <3>3
  <2>3. CASE i - Len(rows) \in DOMAIN inserts /\ rows'[i] = inserts[i - Len(rows)]
    <3>1. CASE j \in DOMAIN rows /\ SameMail(rows'[j], rows[j])
      <4>1. j \in RowsIn("inbox") /\ rows[j].mid = rows'[j].mid
        BY <2>1, <3>1 DEF RowsIn, SameMail
      <4> QED BY <2>1, <2>3, <4>1 DEF InsertsAreNew
    <3>2. CASE j - Len(rows) \in DOMAIN inserts /\ rows'[j] = inserts[j - Len(rows)]
      <4>1. i - Len(rows) = j - Len(rows)
        BY <2>1, <2>3, <3>2 DEF InsertsAreDistinct
      <4>2. rows' \in Seq(RowType) /\ rows \in Seq(RowType)
        BY DEF TypeOK
      <4>3. i \in Nat /\ j \in Nat /\ Len(rows) \in Nat
        BY <2>1, <4>2
      <4> QED BY <4>1, <4>3
    <3> QED BY <1>2, <2>1, <3>1, <3>2
  <2> QED BY <1>2, <2>1, <2>2, <2>3
<1> QED BY <1>1, <1>3, <1>4, DoublesEnd

LEMMA DoublesRequest ==
    ASSUME DoublesInv, TypeOK', RequestCommits
    PROVE  DoublesInv'
<1> USE DEF DoublesInv
<1>1. /\ UNCHANGED <<updates, inserts, at, pc, returned>>
      /\ request' = NoRequest
      /\ request.step = "pushed" /\ request.id \notin DOMAIN updates
    BY DEF RequestCommits, serverVars, syncVars
<1>2. /\ request \in RequestType /\ request.id \in 1..Len(rows)
      /\ DOMAIN rows' = 1..Len(rows) /\ DOMAIN rows = 1..Len(rows)
      /\ \A i \in 1..Len(rows) : rows'[i] = IF i = request.id THEN Answered(rows[i]) ELSE rows[i]
  <2>1. rows \in Seq(RowType)
    BY DEF TypeOK
  <2> HIDE DEF DoublesInv
  <2> QED BY <2>1, RequestCommitFacts DEF DoublesInv
<1>3. \A i \in DOMAIN rows : rows[i] \in RowType
    BY DEF TypeOK
<1>4. \A i \in DOMAIN rows : rows'[i].mid = rows[i].mid
    BY <1>2, <1>3, AnsweredFacts
<1>5. request.row.mid = rows[request.id].mid
    BY <1>1 DEF RequestFits, NoRequest
\* A row that comes to the inbox is of a mail that did.
<1>6. ASSUME NEW i \in RowsIn("inbox")', i \notin RowsIn("inbox")
      PROVE  rows'[i].mid \in returned
  <2>1. i \in DOMAIN rows /\ rows'[i].folder = "inbox" /\ rows[i].folder # "inbox"
    BY <1>2, <1>6 DEF RowsIn
  <2>2. i = request.id /\ rows'[i] = Answered(rows[i])
    BY <1>2, <2>1
  <2>3. request.to = "inbox"
    BY <1>2, <1>3, <2>1, <2>2, AnsweredFacts
  <2> QED BY <1>1, <1>4, <1>5, <2>1, <2>2, <2>3 DEF ReturnIsKnown
<1>7. UpdatesAgree'
    BY <1>1, <1>2 DEF UpdatesAgree, SameMail, TypeOK
<1>8. InsertsInOrder' /\ InsertsAreDistinct'
    BY <1>1 DEF InsertsInOrder, InsertsAreDistinct
<1>9. RowsIn("inbox")' \subseteq DOMAIN rows
    BY <1>2 DEF RowsIn
<1>10. InsertsAreNew'
    BY <1>1, <1>4, <1>6, <1>9 DEF InsertsAreNew
<1>11. DoublesOnlyByReturn'
    BY <1>1, <1>4, <1>6, <1>9 DEF DoublesOnlyByReturn
<1>12. RequestFits' /\ ReturnIsKnown'
    BY <1>1 DEF RequestFits, ReturnIsKnown, NoRequest
<1> QED BY <1>7, <1>8, <1>10, <1>11, <1>12

LEMMA DoublesPush ==
    ASSUME DoublesInv, TypeOK', Push
    PROVE  DoublesInv'
<1> USE DEF DoublesInv
<1>1. /\ UNCHANGED <<rows, updates, inserts, at, pc>>
      /\ request.step = "loaded" /\ request' = [request EXCEPT !.step = "pushed"]
      /\ request # NoRequest
      /\ Pushed
    BY DEF Push, syncVars, NoRequest
<1>2. request \in RequestType
    BY <1>1 DEF TypeOK
<1>3. /\ returned \subseteq returned'
      /\ request.to = "inbox" => request.row.mid \in returned'
    BY <1>1 DEF Pushed
<1>4. /\ request'.to = request.to /\ request'.op = request.op
      /\ request'.row = request.row /\ request'.id = request.id
    BY <1>1, <1>2 DEF RequestType
<1>5. RowsIn("inbox")' = RowsIn("inbox")
    BY <1>1 DEF RowsIn
<1>6. UpdatesAgree' /\ InsertsInOrder' /\ InsertsAreDistinct'
    BY <1>1 DEF UpdatesAgree, InsertsInOrder, InsertsAreDistinct, SameMail
<1>7. InsertsAreNew' /\ DoublesOnlyByReturn'
    BY <1>1, <1>3, <1>5 DEF InsertsAreNew, DoublesOnlyByReturn
<1>8. RequestFits' /\ ReturnIsKnown'
    BY <1>1, <1>3, <1>4 DEF RequestFits, ReturnIsKnown
<1> QED BY <1>6, <1>7, <1>8

LEMMA DoublesStep == ASSUME DoublesInv, TypeOK', [Next]_vars PROVE DoublesInv'
<1>1. CASE \/ MailArrives
           \/ \E m \in Mails : ClientFlags(m)
           \/ \E u \in DOMAIN box["inbox"] : ClientRemoves(u)
  <2>1. UNCHANGED <<rows, updates, inserts, at, pc, returned, request>>
    BY <1>1 DEF MailArrives, ClientFlags, ClientRemoves, syncVars
  <2> QED BY <2>1, DoublesQuiet
<1>2. CASE ListFolders \/ PlanFolder
  <2>1. /\ UNCHANGED <<rows, updates, inserts, returned, request>>
        /\ pc = "idle" => inserts = <<>>
        /\ pc # "merged"
        /\ pc # "idle" => at' = at
    BY <1>2 DEF ListFolders, PlanFolder, serverVars, DoublesInv, TypeOK
  <2>2. InsertsInOrder'
    BY <2>1 DEF DoublesInv, InsertsInOrder
  <2>3. RowsIn("inbox")' = RowsIn("inbox")
    BY <2>1 DEF RowsIn
  <2> QED BY <2>1, <2>2, <2>3
          DEF DoublesInv, UpdatesAgree, SameMail, InsertsAreNew, InsertsAreDistinct, RequestFits,
              ReturnIsKnown, DoublesOnlyByReturn
<1>3. CASE FetchBatch
  <2>1. UNCHANGED <<rows, updates, inserts, at, pc, returned, request>>
    BY <1>3 DEF FetchBatch, serverVars
  <2> QED BY <2>1, DoublesQuiet
<1>4. CASE MergeFolder
    BY <1>4, DoublesMerge
<1>5. CASE Commit
    BY <1>5, DoublesCommit
<1>6. CASE SyncFails
  <2>1. Ended /\ UNCHANGED <<rows, returned, request>>
    BY <1>6 DEF SyncFails, serverVars
  <2>2. RowsIn("inbox")' = RowsIn("inbox")
    BY <2>1 DEF RowsIn
  <2>3. RequestFits' /\ DoublesOnlyByReturn'
    BY <2>1, <2>2 DEF DoublesInv, RequestFits, DoublesOnlyByReturn
  <2> QED BY <2>1, <2>3, DoublesEnd
<1>7. ASSUME NEW op \in Operations, NEW to \in Targets(op), NEW i \in DOMAIN rows,
             RequestStarts(op, to, i)
      PROVE  DoublesInv'
  <2>1. /\ UNCHANGED <<rows, updates, inserts, at, pc, returned>>
        /\ request' = [step |-> "loaded", op |-> op, to |-> to, id |-> i, row |-> rows[i]]
    BY <1>7 DEF RequestStarts, serverVars, syncVars
  <2>2. RowsIn("inbox")' = RowsIn("inbox")
    BY <2>1 DEF RowsIn
  <2>3. RequestFits' /\ ReturnIsKnown'
    BY <2>1 DEF RequestFits, ReturnIsKnown
  <2> QED BY <2>1, <2>2, <2>3
          DEF DoublesInv, UpdatesAgree, SameMail, InsertsInOrder, InsertsAreNew, InsertsAreDistinct,
              DoublesOnlyByReturn
<1>8. CASE Push
    BY <1>8, DoublesPush
<1>9. CASE PushFails
  <2>1. /\ UNCHANGED <<rows, updates, inserts, at, pc>>
        /\ request' = NoRequest
        /\ returned \subseteq returned'
    BY <1>9 DEF PushFails, Pushed, MarkedOnly, serverVars, syncVars
  <2> QED BY <2>1, DoublesQuiet
<1>10. CASE RequestCommits
    BY <1>10, DoublesRequest
<1>11. CASE RequestDies
  <2>1. UNCHANGED <<rows, updates, inserts, at, pc, returned>> /\ request' = NoRequest
    BY <1>11 DEF RequestDies, serverVars, syncVars
  <2> QED BY <2>1, DoublesQuiet
<1>12. CASE UNCHANGED vars
  <2>1. UNCHANGED <<rows, updates, inserts, at, pc, returned, request>>
    BY <1>12 DEF vars, serverVars, syncVars
  <2> QED BY <2>1, DoublesQuiet
<1> QED BY <1>1, <1>2, <1>3, <1>4, <1>5, <1>6, <1>7, <1>8, <1>9, <1>10, <1>11, <1>12 DEF Next, Sync

LEMMA DoublesInit == Init => DoublesInv
<1> SUFFICES ASSUME Init PROVE DoublesInv
    OBVIOUS
<1>1. TypeOK
    BY InitType
<1>2. DOMAIN rows = {} /\ DOMAIN updates = {} /\ DOMAIN inserts = {} /\ request = NoRequest
    BY DEF Init, Empty
<1> QED BY <1>1, <1>2
        DEF DoublesInv, UpdatesAgree, RequestFits, InsertsInOrder, InsertsAreNew, InsertsAreDistinct,
            ReturnIsKnown, DoublesOnlyByReturn, RowsIn, NoRequest

\* The mirror of the inbox has two rows of a mail only if the mail came back to the inbox
\* by a request, whatever fails and is repeated (sync_tasks.py 637-645, 718-735).
THEOREM DoublesNeedAReturn == Spec => []DoublesOnlyByReturn
<1>1. DoublesInv /\ TypeOK' /\ [Next]_vars => DoublesInv'
    BY DoublesStep
<1>2. DoublesInv => DoublesOnlyByReturn
    BY DEF DoublesInv
<1> QED BY <1>1, <1>2, DoublesInit, TypesAreKept, PTL DEF Spec

-----------------------------------------------------------------------------
(* The inductive invariant of MovedAtTheServer.                            *)

\* What a folder holds has arrived, and is at one place only.
HeldHasArrived == \A f \in Folders : \A u \in Uids(f) : box[f][u] \in 1..arrived

OnePlace ==
    \A f, g \in Folders : \A u \in Uids(f), v \in Uids(g) :
        box[f][u] = box[g][v] => f = g /\ u = v

\* What a row says of its mail.  A mail that came back may be anywhere; of any other
\* the row of the inbox has the UID, if it is in the inbox at all, and the rows of
\* other folders are right that it is not.
Away(m) == m \in 1..arrived /\ (m \in Held("inbox") => m \in returned)

AtUid(u, m) ==
    /\ m \in 1..arrived
    /\ m \in Held("inbox") \ returned => u \in DOMAIN box["inbox"] /\ box["inbox"][u] = m

Placed(f, u, m) == IF f = "inbox" THEN AtUid(u, m) ELSE Away(m)

RowPlaced(row) == Placed(row.folder, row.uid, row.mid)

RowsArePlaced == \A i \in DOMAIN rows : RowPlaced(rows[i])
InsertsArePlaced == \A k \in DOMAIN inserts : RowPlaced(inserts[k])
FetchedIsPlaced == \A u \in DOMAIN fetched : Placed(Folder, u, fetched[u].mid)
RequestIsPlaced == request # NoRequest => RowPlaced(request.row)

\* A request takes a mail away at the server before it changes the row.
PushedIsAway ==
    request.step = "pushed" /\ request.to \in Folders \ {"inbox"} => Away(request.row.mid)

PlacesInv ==
    /\ HeldHasArrived
    /\ OnePlace
    /\ RowsArePlaced
    /\ InsertsArePlaced
    /\ FetchedIsPlaced
    /\ RequestIsPlaced
    /\ PushedIsAway

\* What any step may do to the inbox: mails leave their places, and what comes is new or
\* known to come back.
ServerStep ==
    /\ arrived <= arrived'
    /\ returned \subseteq returned'
    /\ \A u \in DOMAIN box["inbox"] :
         u \in DOMAIN box'["inbox"] /\ box'["inbox"][u] \in {box["inbox"][u], Gone}
    /\ \A u \in DOMAIN box'["inbox"] :
         \/ u \in DOMAIN box["inbox"]
         \/ box'["inbox"][u] \in returned'
         \/ box'["inbox"][u] > arrived

LEMMA InboxMails ==
    ASSUME TypeOK
    PROVE  /\ "inbox" \in Folders
           /\ arrived \in Nat
           /\ \A m \in Held("inbox") :
                m \in Mails /\ \E u \in DOMAIN box["inbox"] : box["inbox"][u] = m
           /\ \A u \in DOMAIN box["inbox"] :
                box["inbox"][u] \in Mails => u \in Uids("inbox") /\ box["inbox"][u] \in Held("inbox")
<1>1. "inbox" \in Folders /\ arrived \in Nat /\ MailCount \in Nat
    BY ImapAssumptions DEF TypeOK
<1>2. \A u \in Uids("inbox") : u \in DOMAIN box["inbox"] /\ box["inbox"][u] \in Mails
    BY <1>1, UidsFacts
<1>3. \A u \in DOMAIN box["inbox"] : box["inbox"][u] \in Mails => u \in Uids("inbox")
    BY <1>1 DEF Uids, Gone, Mails
<1> QED BY <1>1, <1>2, <1>3 DEF Held

\* A mail that is in the inbox after a step and has not come back was there before.
LEMMA HeldBefore ==
    ASSUME TypeOK, TypeOK', ServerStep,
           NEW m \in 1..arrived, m \in Held("inbox")', m \notin returned'
    PROVE  m \in Held("inbox") \ returned
<1>1. m \in Mails
    BY ImapAssumptions DEF TypeOK, Mails
<1>2. PICK u \in DOMAIN box'["inbox"] : box'["inbox"][u] = m
  <2>1. \E u \in Uids("inbox")' : box'["inbox"][u] = m
    BY DEF Held
  <2> QED BY <2>1 DEF Uids
<1>3. ~(m > arrived)
    BY <1>1, InboxMails DEF Mails
<1>4. u \in DOMAIN box["inbox"] /\ box["inbox"][u] = m
    BY <1>1, <1>2, <1>3, ImapAssumptions DEF ServerStep, Gone, Mails
<1>5. m \in Held("inbox")
    BY <1>1, <1>4, InboxMails
<1> QED BY <1>5 DEF ServerStep

LEMMA AwayStays ==
    ASSUME TypeOK, TypeOK', ServerStep, NEW m, Away(m)
    PROVE  Away(m)'
<1>1. m \in 1..arrived'
    BY DEF Away, ServerStep, TypeOK
<1> QED BY <1>1, HeldBefore DEF Away

LEMMA AtUidStays ==
    ASSUME TypeOK, TypeOK', OnePlace, ServerStep, NEW u, NEW m, AtUid(u, m)
    PROVE  AtUid(u, m)'
<1>1. m \in 1..arrived'
    BY SMTT(30) DEF AtUid, ServerStep, TypeOK
<1>2. ASSUME m \in Held("inbox")' \ returned'
      PROVE  u \in DOMAIN box'["inbox"] /\ box'["inbox"][u] = m
  <2>1. m \in 1..arrived /\ m \in Mails
    BY ImapAssumptions DEF AtUid, TypeOK, Mails
  <2>2. m \in Held("inbox") \ returned
    BY <1>2, <2>1, HeldBefore
  <2>3. u \in DOMAIN box["inbox"] /\ box["inbox"][u] = m
    BY <2>2 DEF AtUid
  <2>4. PICK v \in DOMAIN box'["inbox"] : box'["inbox"][v] = m
    <3>1. \E v \in Uids("inbox")' : box'["inbox"][v] = m
      BY <1>2 DEF Held
    <3> QED BY <3>1 DEF Uids
  <2>5. v \in DOMAIN box["inbox"] /\ box["inbox"][v] = m
    <3>1. ~(m > arrived)
      BY <2>1, InboxMails DEF Mails
    <3> QED BY <1>2, <2>1, <2>4, <3>1, ImapAssumptions DEF ServerStep, Gone, Mails
  <2>6. "inbox" \in Folders /\ u \in Uids("inbox") /\ v \in Uids("inbox")
    BY <2>1, <2>3, <2>5, InboxMails
  <2>7. v = u
    BY <2>3, <2>5, <2>6 DEF OnePlace
  <2> QED BY <2>4, <2>7
<1> QED BY <1>1, <1>2 DEF AtUid

\* What a row says stays true whatever happens to the server.
LEMMA PlacedStays ==
    ASSUME TypeOK, TypeOK', OnePlace, ServerStep, NEW f, NEW u, NEW m, Placed(f, u, m)
    PROVE  Placed(f, u, m)'
<1>1. CASE f = "inbox"
    BY <1>1, AtUidStays DEF Placed
<1>2. CASE f # "inbox"
    BY <1>2, AwayStays DEF Placed
<1> QED BY <1>1, <1>2

LEMMA ServerStays ==
    ASSUME TypeOK, UNCHANGED <<arrived, box, returned>>
    PROVE  /\ ServerStep
           /\ HeldHasArrived => HeldHasArrived'
           /\ OnePlace => OnePlace'
<1>1. arrived <= arrived'
    BY DEF TypeOK
<1>2. \A f : Uids(f)' = Uids(f)
    BY DEF Uids
<1> QED BY <1>1, <1>2 DEF ServerStep, HeldHasArrived, OnePlace

\* Steps that leave the rows, and what a synchronization has in hand, as they are.
LEMMA PlacesQuiet ==
    ASSUME PlacesInv, TypeOK, TypeOK', ServerStep, HeldHasArrived', OnePlace',
           UNCHANGED <<rows, inserts, fetched, at>>,
           request' = NoRequest \/ (request # NoRequest /\ request'.row = request.row),
           PushedIsAway'
    PROVE  PlacesInv'
<1>1. RowsArePlaced'
  <2> SUFFICES ASSUME NEW i \in DOMAIN rows PROVE RowPlaced(rows[i])'
    BY DEF RowsArePlaced
  <2>1. PICK r : r = rows[i]
    OBVIOUS
  <2>2. Placed(r.folder, r.uid, r.mid)
    BY <2>1 DEF PlacesInv, RowsArePlaced, RowPlaced
  <2>3. Placed(r.folder, r.uid, r.mid)'
    BY <2>2, PlacedStays DEF PlacesInv
  <2> QED BY <2>1, <2>3 DEF RowPlaced
<1>2. InsertsArePlaced'
  <2> SUFFICES ASSUME NEW k \in DOMAIN inserts PROVE RowPlaced(inserts[k])'
    BY DEF InsertsArePlaced
  <2>1. PICK r : r = inserts[k]
    OBVIOUS
  <2>2. Placed(r.folder, r.uid, r.mid)
    BY <2>1 DEF PlacesInv, InsertsArePlaced, RowPlaced
  <2>3. Placed(r.folder, r.uid, r.mid)'
    BY <2>2, PlacedStays DEF PlacesInv
  <2> QED BY <2>1, <2>3 DEF RowPlaced
<1>3. FetchedIsPlaced'
  <2>1. Folder' = Folder
    BY DEF Folder
  <2> SUFFICES ASSUME NEW u \in DOMAIN fetched PROVE Placed(Folder, u, fetched[u].mid)'
    BY DEF FetchedIsPlaced
  <2>2. PICK f, m : f = Folder /\ m = fetched[u].mid
    OBVIOUS
  <2>3. Placed(f, u, m)
    BY <2>2 DEF PlacesInv, FetchedIsPlaced
  <2>4. Placed(f, u, m)'
    BY <2>3, PlacedStays DEF PlacesInv
  <2> QED BY <2>1, <2>2, <2>4
<1>4. RequestIsPlaced'
  <2>1. CASE request' = NoRequest
    BY <2>1 DEF RequestIsPlaced
  <2>2. CASE request # NoRequest /\ request'.row = request.row
    <3>1. PICK r : r = request'.row
      OBVIOUS
    <3>2. Placed(r.folder, r.uid, r.mid)
      BY <2>2, <3>1 DEF PlacesInv, RequestIsPlaced, RowPlaced
    <3>3. Placed(r.folder, r.uid, r.mid)'
      BY <3>2, PlacedStays DEF PlacesInv
    <3> QED BY <3>1, <3>3 DEF RequestIsPlaced, RowPlaced
  <2> QED BY <2>1, <2>2
<1> QED BY <1>1, <1>2, <1>3, <1>4 DEF PlacesInv

LEMMA PushedStays ==
    ASSUME PlacesInv, TypeOK, TypeOK', ServerStep, request' = request \/ request' = NoRequest
    PROVE  PushedIsAway'
<1> SUFFICES ASSUME request.step = "pushed", request.to \in Folders \ {"inbox"}, request' = request
             PROVE  Away(request.row.mid)'
    BY DEF PushedIsAway, NoRequest
<1>1. PICK m : m = request.row.mid
    OBVIOUS
<1>2. Away(m)
    BY <1>1 DEF PlacesInv, PushedIsAway
<1>3. Away(m)'
    BY <1>2, AwayStays
<1> QED BY <1>1, <1>3

\* The mail that arrives is under a new UID, and new.
LEMMA PlacesArrival == ASSUME PlacesInv, TypeOK, TypeOK', MailArrives PROVE PlacesInv'
<1> USE DEF PlacesInv
<1>1. "inbox" \in Folders /\ arrived \in Nat /\ arrived' = arrived + 1
    BY ImapAssumptions DEF MailArrives, TypeOK
<1>2. PICK s \in Seq(Mails \union {Gone}) : s = box["inbox"]
    BY <1>1 DEF TypeOK
<1>3. PICK t : t = Append(s, arrived')
    OBVIOUS
<1>4. /\ DOMAIN t = 1..(Len(s) + 1) /\ DOMAIN s = 1..Len(s) /\ Len(s) \in Nat
      /\ \A v \in 1..Len(s) : t[v] = s[v]
      /\ t[Len(s) + 1] = arrived'
    BY <1>3
<1>5. box' = [box EXCEPT !["inbox"] = t]
    BY <1>2, <1>3, Zenon DEF MailArrives
<1>6. /\ box'["inbox"] = t
      /\ \A f \in Folders : f # "inbox" => box'[f] = box[f]
    BY <1>1, <1>5 DEF TypeOK
<1>7. \A f \in Folders : \A u \in Uids(f)' :
         \/ u \in Uids(f) /\ box'[f][u] = box[f][u]
         \/ f = "inbox" /\ u = Len(s) + 1 /\ box'[f][u] = arrived'
  <2> SUFFICES ASSUME NEW f \in Folders, NEW u \in Uids(f)'
               PROVE  \/ u \in Uids(f) /\ box'[f][u] = box[f][u]
                      \/ f = "inbox" /\ u = Len(s) + 1 /\ box'[f][u] = arrived'
    OBVIOUS
  <2>1. u \in DOMAIN box'[f] /\ box'[f][u] # Gone
    BY DEF Uids
  <2>2. CASE f = "inbox"
    BY <1>2, <1>4, <1>6, <2>1, <2>2 DEF Uids
  <2>3. CASE f # "inbox"
    BY <1>6, <2>1, <2>3 DEF Uids
  <2> QED BY <2>2, <2>3
<1>8. HeldHasArrived'
    BY <1>1, <1>7 DEF HeldHasArrived
<1>9. OnePlace'
  <2> SUFFICES ASSUME NEW f \in Folders, NEW g \in Folders,
                      NEW u \in Uids(f)', NEW v \in Uids(g)', box'[f][u] = box'[g][v]
               PROVE  f = g /\ u = v
    BY DEF OnePlace
  <2>1. \A h \in Folders : \A w \in Uids(h) : box[h][w] # arrived'
    BY <1>1 DEF HeldHasArrived
  <2> QED BY <1>7, <2>1 DEF OnePlace
<1>10. ServerStep
  <2>1. arrived <= arrived' /\ returned' = returned
    BY <1>1 DEF MailArrives
  <2>2. \A u \in DOMAIN box["inbox"] : u \in DOMAIN box'["inbox"] /\ box'["inbox"][u] = box["inbox"][u]
    BY <1>2, <1>4, <1>6
  <2>3. \A u \in DOMAIN box'["inbox"] : u \in DOMAIN box["inbox"] \/ box'["inbox"][u] > arrived
    BY <1>1, <1>2, <1>4, <1>6
  <2> QED BY <2>1, <2>2, <2>3 DEF ServerStep
<1>11. UNCHANGED <<rows, inserts, fetched, at, request>>
    BY DEF MailArrives, syncVars
<1>12. PushedIsAway'
    BY <1>10, <1>11, PushedStays
<1> QED BY <1>8, <1>9, <1>10, <1>11, <1>12, PlacesQuiet

LEMMA PlacesRemoval ==
    ASSUME PlacesInv, TypeOK, TypeOK', NEW u \in DOMAIN box["inbox"], ClientRemoves(u)
    PROVE  PlacesInv'
<1> USE DEF PlacesInv
<1>1. "inbox" \in Folders /\ box' = Without("inbox", u)
    BY ImapAssumptions DEF ClientRemoves
<1>2. /\ \A f \in Folders : DOMAIN box'[f] = DOMAIN box[f]
      /\ \A f \in Folders : \A v \in DOMAIN box[f] : box'[f][v] \in {box[f][v], Gone}
  <2>1. /\ box' \in [Folders -> Seq(Mails \union {Gone})]
        /\ \A f \in Folders : Len(box'[f]) = Len(box[f])
        /\ \A f \in Folders : \A v \in DOMAIN box[f] :
             box'[f][v] = IF f = "inbox" /\ v = u THEN Gone ELSE box[f][v]
    BY <1>1, WithoutFacts
  <2>2. \A f \in Folders : DOMAIN box[f] = 1..Len(box[f])
    BY UidsFacts
  <2> QED BY <2>1, <2>2
<1>3. \A f \in Folders : \A v \in Uids(f)' : v \in Uids(f) /\ box'[f][v] = box[f][v]
    BY <1>2 DEF Uids
<1>4. UNCHANGED <<arrived, returned, rows, inserts, fetched, at, request>>
    BY DEF ClientRemoves, syncVars
<1>5. HeldHasArrived'
    BY <1>3, <1>4 DEF HeldHasArrived
<1>6. OnePlace'
    BY <1>3 DEF OnePlace
<1>7. ServerStep
    BY <1>1, <1>2, <1>4, SMTT(30) DEF ServerStep, TypeOK
<1>8. PushedIsAway'
    BY <1>4, <1>7, PushedStays
<1> QED BY <1>4, <1>5, <1>6, <1>7, <1>8, PlacesQuiet

\* A push leaves every mail at one place.
LEMMA PushedPlaces ==
    ASSUME PlacesInv, TypeOK, request \in RequestType, Pushed
    PROVE  HeldHasArrived' /\ OnePlace' /\ ServerStep
<1> DEFINE f == request.row.folder
           u == request.row.uid
<1> USE DEF PlacesInv
<1>1. f \in Folders /\ "inbox" \in Folders
    BY ImapAssumptions DEF RequestType, RowType
<1>2. arrived' = arrived /\ arrived \in Nat /\ returned \subseteq returned'
    BY DEF Pushed, TypeOK
<1>3. CASE box' = box
  <2>1. \A g : Uids(g)' = Uids(g)
    BY <1>3 DEF Uids
  <2>2. HeldHasArrived' /\ OnePlace'
    BY <1>2, <1>3, <2>1 DEF HeldHasArrived, OnePlace
  <2>3. ServerStep
    BY <1>2, <1>3 DEF ServerStep
  <2> QED BY <2>2, <2>3
<1>4. CASE u \in Uids(f) /\ request.to \in Folders /\ box' = Moved(f, u, request.to)
  <2> DEFINE n == Len(box[request.to]) + 1
  <2>1. /\ box' \in [Folders -> Seq(Mails \union {Gone})]
        /\ \A g \in Folders : Len(box'[g]) = IF g = request.to THEN Len(box[g]) + 1 ELSE Len(box[g])
        /\ \A g \in Folders : \A v \in DOMAIN box[g] :
             box'[g][v] = IF g = f /\ v = u THEN Gone ELSE box[g][v]
        /\ box'[request.to][n] = box[f][u]
    <3>0. PICK ff, uu, tt : ff = f /\ uu = u /\ tt = request.to
      OBVIOUS
    <3>1. /\ Moved(ff, uu, tt) \in [Folders -> Seq(Mails \union {Gone})]
          /\ \A g \in Folders :
               Len(Moved(ff, uu, tt)[g]) = IF g = tt THEN Len(box[g]) + 1 ELSE Len(box[g])
          /\ \A g \in Folders : \A v \in DOMAIN box[g] :
               Moved(ff, uu, tt)[g][v] = IF g = ff /\ v = uu THEN Gone ELSE box[g][v]
          /\ Moved(ff, uu, tt)[tt][Len(box[tt]) + 1] = box[ff][uu]
      <4>1. ff \in Folders /\ uu \in Uids(ff) /\ tt \in Folders
        BY <1>1, <1>4, <3>0
      <4> HIDE DEF f, u
      <4> QED BY <4>1, MovedFacts
    <3>2. box' = Moved(ff, uu, tt)
      BY <1>4, <3>0
    <3> HIDE DEF f, u
    <3> QED BY <3>0, <3>1, <3>2
  <2>2. \A g \in Folders : DOMAIN box[g] = 1..Len(box[g]) /\ Len(box[g]) \in Nat
    BY UidsFacts
  <2>3. \A g \in Folders : DOMAIN box'[g] = 1..Len(box'[g])
    BY <2>1
  <2>4. \A g \in Folders : \A v \in DOMAIN box'[g] : v \in DOMAIN box[g] \/ (g = request.to /\ v = n)
    BY <2>1, <2>2, <2>3
  <2>5. \A g \in Folders : \A v \in Uids(g)' :
           \/ v \in Uids(g) /\ ~(g = f /\ v = u) /\ box'[g][v] = box[g][v]
           \/ g = request.to /\ v = n /\ box'[g][v] = box[f][u]
    <3> SUFFICES ASSUME NEW g \in Folders, NEW v \in Uids(g)'
                 PROVE  \/ v \in Uids(g) /\ ~(g = f /\ v = u) /\ box'[g][v] = box[g][v]
                        \/ g = request.to /\ v = n /\ box'[g][v] = box[f][u]
      OBVIOUS
    <3>1. v \in DOMAIN box'[g] /\ box'[g][v] # Gone
      BY DEF Uids
    <3>2. CASE v \in DOMAIN box[g]
      BY <2>1, <3>1, <3>2 DEF Uids
    <3>3. CASE g = request.to /\ v = n
      BY <2>1, <3>3
    <3> QED BY <2>4, <3>1, <3>2, <3>3
  <2> HIDE DEF n
  <2>6. HeldHasArrived'
    BY <1>1, <1>2, <1>4, <2>5 DEF HeldHasArrived
  <2>7. OnePlace'
    <3> SUFFICES ASSUME NEW g \in Folders, NEW h \in Folders,
                        NEW v \in Uids(g)', NEW w \in Uids(h)', box'[g][v] = box'[h][w]
                 PROVE  g = h /\ v = w
      BY DEF OnePlace
    <3> QED BY <1>1, <1>4, <2>5 DEF OnePlace
  <2>8. ServerStep
    <3>1. \A v \in DOMAIN box["inbox"] :
             v \in DOMAIN box'["inbox"] /\ box'["inbox"][v] \in {box["inbox"][v], Gone}
      BY <1>1, <2>1, <2>2, <2>3
    <3>2. request.to = "inbox" => box[f][u] \in returned'
      BY <1>4 DEF Pushed, Under
    <3>3. \A v \in DOMAIN box'["inbox"] : v \in DOMAIN box["inbox"] \/ box'["inbox"][v] \in returned'
      BY <1>1, <2>1, <2>4, <3>2 DEF n
    <3> QED BY <1>2, <3>1, <3>3 DEF ServerStep
  <2> QED BY <2>6, <2>7, <2>8
<1>5. CASE box' = Expunged(f, deleted')
  <2>1. /\ \A g \in Folders : DOMAIN box'[g] = DOMAIN box[g]
        /\ \A g \in Folders : \A v \in DOMAIN box[g] : box'[g][v] \in {box[g][v], Gone}
    <3>1. /\ box' \in [Folders -> Seq(Mails \union {Gone})]
          /\ \A g \in Folders : Len(box'[g]) = Len(box[g])
          /\ \A g \in Folders : \A v \in DOMAIN box[g] : box'[g][v] \in {box[g][v], Gone}
      BY <1>1, <1>5, ExpungedFacts
    <3>2. \A g \in Folders : DOMAIN box[g] = 1..Len(box[g])
      BY UidsFacts
    <3> QED BY <3>1, <3>2
  <2>2. \A g \in Folders : \A v \in Uids(g)' : v \in Uids(g) /\ box'[g][v] = box[g][v]
    BY <2>1 DEF Uids
  <2>3. HeldHasArrived'
    BY <1>2, <2>2 DEF HeldHasArrived
  <2>4. OnePlace'
    BY <2>2 DEF OnePlace
  <2>5. ServerStep
    BY <1>1, <1>2, <2>1 DEF ServerStep
  <2> QED BY <2>3, <2>4, <2>5
<1> QED BY <1>3, <1>4, <1>5, PushedFacts

\* A request that takes its mail out of the inbox has done so when it goes on.
LEMMA PushTakesAway ==
    ASSUME PlacesInv, DoublesInv, TypeOK, TypeOK', Push, request.to \in Folders \ {"inbox"},
           NEW m, m = request.row.mid
    PROVE  Away(m)'
<1> DEFINE f == request.row.folder
           u == request.row.uid
<1>0. request # NoRequest /\ Pushed
    BY DEF Push, NoRequest
<1>1. request \in RequestType /\ request.to \in Targets(request.op)
    BY <1>0 DEF TypeOK, DoublesInv, RequestFits
<1>2. f \in Folders /\ ServerStep /\ OnePlace' /\ OnePlace
    BY <1>0, <1>1, PushedPlaces DEF RequestType, RowType, PlacesInv
<1>4. Placed(f, u, m)
    BY <1>0 DEF PlacesInv, RequestIsPlaced, RowPlaced
<1>5. CASE f # "inbox"
  <2>1. Away(m)
    BY <1>4, <1>5 DEF Placed
  <2> QED BY <1>2, <2>1, AwayStays
<1>6. CASE f = "inbox"
  <2>1. PICK w : w = u
    OBVIOUS
  <2>2. AtUid(w, m)
    BY <1>4, <1>6, <2>1 DEF Placed
  <2>3. AtUid(w, m)'
    BY <1>2, <2>2, AtUidStays
  <2>4. SUFFICES ASSUME m \in Held("inbox")' \ returned' PROVE FALSE
    BY <2>3 DEF Away, AtUid
  <2>5. w \in DOMAIN box'["inbox"] /\ box'["inbox"][w] = m
    BY <2>3, <2>4 DEF AtUid
  <2>6. m \in 1..arrived /\ m \in Mails
    <3>1. m \in 1..arrived
      BY <2>2 DEF AtUid
    <3>2. arrived \in 0..MailCount
      BY DEF TypeOK
    <3> QED BY <3>1, <3>2, ImapAssumptions DEF Mails
  <2>7. m \in Held("inbox") \ returned
    BY <1>2, <2>4, <2>6, HeldBefore
  <2>8. w \in Uids("inbox") /\ box["inbox"][w] = m
    BY <2>2, <2>6, <2>7, InboxMails DEF AtUid
  <2>9. request.op \in {"archive", "delete", "move"}
    BY <1>1, ImapAssumptions DEF Targets, RequestType, Operations
  <2>10. PICK to \in Folders : to = request.to
    OBVIOUS
  <2>11. box' = Moved("inbox", w, to)
    BY <1>0, <1>6, <2>1, <2>8, <2>9, <2>10 DEF Pushed, Leaves
  <2>12. w \in DOMAIN box["inbox"] /\ "inbox" \in Folders
    BY <2>8, ImapAssumptions DEF Uids
  <2>13. Moved("inbox", w, to)["inbox"][w] = Gone
    BY <2>8, <2>10, <2>12, MovedFacts
  <2> QED BY <2>5, <2>6, <2>11, <2>13, ImapAssumptions DEF Mails, Gone
<1> QED BY <1>5, <1>6

LEMMA PlacesPush ==
    ASSUME PlacesInv, DoublesInv, TypeOK, TypeOK', Push
    PROVE  PlacesInv'
<1>1. /\ request # NoRequest /\ request \in RequestType /\ Pushed
      /\ request' = [request EXCEPT !.step = "pushed"]
      /\ UNCHANGED <<rows, inserts, fetched, at>>
    BY DEF Push, NoRequest, TypeOK, syncVars
<1>2. request'.row = request.row /\ request'.to = request.to
    BY <1>1 DEF RequestType
<1>3. HeldHasArrived' /\ OnePlace' /\ ServerStep
    BY <1>1, PushedPlaces
<1>4. PushedIsAway'
  <2> SUFFICES ASSUME request.to \in Folders \ {"inbox"} PROVE Away(request.row.mid)'
    BY <1>2 DEF PushedIsAway
  <2>1. PICK m : m = request.row.mid
    OBVIOUS
  <2>2. Away(m)'
    BY <2>1, PushTakesAway
  <2> QED BY <1>2, <2>1, <2>2
<1> QED BY <1>1, <1>2, <1>3, <1>4, PlacesQuiet

\* What a row says, stated of the row.
LEMMA RowPlacedStays ==
    ASSUME PlacesInv, TypeOK, TypeOK', ServerStep, NEW r, RowPlaced(r)
    PROVE  RowPlaced(r)'
<1>1. PICK f, u, m : f = r.folder /\ u = r.uid /\ m = r.mid
    OBVIOUS
<1>2. Placed(f, u, m)
    BY <1>1 DEF RowPlaced
<1>3. Placed(f, u, m)'
    BY <1>2, PlacedStays DEF PlacesInv
<1> QED BY <1>1, <1>3 DEF RowPlaced

\* A flag of the mail does not matter.
LEMMA SameMailPlaced ==
    ASSUME NEW r, NEW s, SameMail(r, s), RowPlaced(s)
    PROVE  RowPlaced(r)
BY DEF SameMail, RowPlaced

\* Steps of a synchronization leave the server as it is.
LEMMA PlacesSync ==
    ASSUME PlacesInv, TypeOK, UNCHANGED <<serverVars, request>>,
           RowsArePlaced', InsertsArePlaced', FetchedIsPlaced'
    PROVE  PlacesInv'
<1>1. UNCHANGED <<arrived, box, returned>>
    BY DEF serverVars
<1>2. HeldHasArrived' /\ OnePlace'
    BY <1>1, ServerStays DEF PlacesInv
<1>3. RequestIsPlaced' /\ PushedIsAway'
    BY <1>1 DEF PlacesInv, RequestIsPlaced, PushedIsAway, RowPlaced, Placed, Away, AtUid, Held, Uids
<1> QED BY <1>2, <1>3 DEF PlacesInv

\* The places of rows are of the server and the history alone.
LEMMA PlacedSame ==
    ASSUME UNCHANGED serverVars
    PROVE  \A f, u, m : Placed(f, u, m)' <=> Placed(f, u, m)
BY DEF serverVars, Placed, Away, AtUid, Held, Uids

LEMMA PlacesFetch ==
    ASSUME PlacesInv, TypeOK, FetchBatch
    PROVE  PlacesInv'
<1> USE DEF PlacesInv
<1>1. UNCHANGED <<serverVars, rows, at, inserts, request>>
    BY DEF FetchBatch
<1>2. Folder' = Folder /\ Folder \in Folders
    BY <1>1, FolderIsOne DEF Folder, TypeOK
<1>3. ASSUME NEW u \in Uids(Folder) PROVE Placed(Folder, u, box[Folder][u])
  <2>1. PICK m : m = box[Folder][u]
    OBVIOUS
  <2>2. m \in 1..arrived /\ u \in DOMAIN box[Folder]
    BY <1>2, <2>1 DEF HeldHasArrived, Uids
  <2>3. CASE Folder = "inbox"
    BY <2>1, <2>2, <2>3 DEF Placed, AtUid
  <2>4. CASE Folder # "inbox"
    <3>1. m \notin Held("inbox")
      <4>1. "inbox" \in Folders
        BY ImapAssumptions
      <4>2. \A v \in Uids("inbox") : box["inbox"][v] # m
        BY <1>2, <2>1, <2>4, <4>1 DEF OnePlace
      <4> QED BY <4>2 DEF Held
    <3> QED BY <2>1, <2>2, <2>4, <3>1 DEF Placed, Away
  <2> QED BY <2>3, <2>4
<1>4. ASSUME NEW u \in DOMAIN fetched' PROVE Placed(Folder, u, fetched'[u].mid)
  <2>1. \/ u \in DOMAIN fetched /\ fetched'[u] = fetched[u]
        \/ u \in Uids(Folder) /\ fetched'[u].mid = box[Folder][u]
    BY FetchFacts DEF Copy
  <2> QED BY <1>3, <2>1 DEF FetchedIsPlaced
<1>5. FetchedIsPlaced'
  <2> SUFFICES ASSUME NEW u \in DOMAIN fetched' PROVE Placed(Folder, u, fetched[u].mid)'
    BY DEF FetchedIsPlaced
  <2>1. PICK f, m : f = Folder /\ m = fetched'[u].mid
    OBVIOUS
  <2>2. Placed(f, u, m)
    BY <1>4, <2>1
  <2>3. Placed(f, u, m)'
    BY <1>1, <2>2, PlacedSame
  <2> QED BY <1>2, <2>1, <2>3
<1>6. RowsArePlaced' /\ InsertsArePlaced'
    BY <1>1, PlacedSame DEF RowsArePlaced, InsertsArePlaced, RowPlaced
<1> QED BY <1>1, <1>5, <1>6, PlacesSync

LEMMA PlacesMerge ==
    ASSUME PlacesInv, TypeOK, MergeFolder
    PROVE  PlacesInv'
<1> USE DEF PlacesInv
<1>1. UNCHANGED <<serverVars, rows, request>> /\ fetched' = Empty
    BY DEF MergeFolder
<1>2. PICK new \in Seq(RowType) :
        /\ inserts' = inserts \o new
        /\ \A k \in DOMAIN new :
             /\ new[k].folder = Folder
             /\ new[k].uid \in DOMAIN fetched
             /\ new[k].mid = fetched[new[k].uid].mid
             /\ Matches(Folder, new[k].uid) = {}
             /\ FirstOfMail(new[k].uid)
        /\ \A k, l \in DOMAIN new : new[k].uid = new[l].uid => k = l
    BY MergeInserts, Zenon
<1>3. inserts \in Seq(RowType)
    BY DEF TypeOK
<1>4. \A k \in DOMAIN inserts' :
         \/ k \in DOMAIN inserts /\ inserts'[k] = inserts[k]
         \/ k - Len(inserts) \in DOMAIN new /\ inserts'[k] = new[k - Len(inserts)]
    BY <1>2, <1>3
<1>5. ASSUME NEW k \in DOMAIN inserts' PROVE RowPlaced(inserts'[k])
  <2>1. CASE k \in DOMAIN inserts /\ inserts'[k] = inserts[k]
    BY <2>1 DEF InsertsArePlaced
  <2>2. CASE k - Len(inserts) \in DOMAIN new /\ inserts'[k] = new[k - Len(inserts)]
    <3>1. PICK r : r = inserts'[k]
      OBVIOUS
    <3>2. r.folder = Folder /\ r.uid \in DOMAIN fetched /\ r.mid = fetched[r.uid].mid
      BY <1>2, <2>2, <3>1
    <3> QED BY <3>1, <3>2 DEF FetchedIsPlaced, RowPlaced
  <2> QED BY <1>4, <2>1, <2>2
<1>6. InsertsArePlaced'
  <2> SUFFICES ASSUME NEW k \in DOMAIN inserts' PROVE RowPlaced(inserts[k])'
    BY DEF InsertsArePlaced
  <2>1. PICK r : r = inserts'[k]
    OBVIOUS
  <2>2. Placed(r.folder, r.uid, r.mid)'
    BY <1>1, <1>5, <2>1, PlacedSame DEF RowPlaced
  <2> QED BY <2>1, <2>2 DEF RowPlaced
<1>7. RowsArePlaced'
    BY <1>1, PlacedSame DEF RowsArePlaced, RowPlaced
<1>8. FetchedIsPlaced'
    BY <1>1 DEF FetchedIsPlaced, Empty
<1> QED BY <1>1, <1>6, <1>7, <1>8, PlacesSync

LEMMA PlacesCommit ==
    ASSUME PlacesInv, DoublesInv, TypeOK, Commit
    PROVE  PlacesInv'
<1> USE DEF PlacesInv
<1>1. UNCHANGED <<serverVars, request>> /\ fetched' = Empty /\ inserts' = <<>>
    BY DEF Commit, Ended
<1>2. \A i \in DOMAIN rows' :
         \/ i \in DOMAIN rows /\ SameMail(rows'[i], rows[i])
         \/ i - Len(rows) \in DOMAIN inserts /\ rows'[i] = inserts[i - Len(rows)]
    BY CommittedRows DEF DoublesInv
<1>3. RowsArePlaced'
  <2> SUFFICES ASSUME NEW i \in DOMAIN rows' PROVE RowPlaced(rows[i])'
    BY DEF RowsArePlaced
  <2>1. PICK r : r = rows'[i]
    OBVIOUS
  <2>2. RowPlaced(r)
    <3>1. CASE i \in DOMAIN rows /\ SameMail(rows'[i], rows[i])
      BY <2>1, <3>1, SameMailPlaced DEF RowsArePlaced
    <3>2. CASE i - Len(rows) \in DOMAIN inserts /\ rows'[i] = inserts[i - Len(rows)]
      BY <2>1, <3>2 DEF InsertsArePlaced
    <3> QED BY <1>2, <3>1, <3>2
  <2>3. Placed(r.folder, r.uid, r.mid)'
    BY <1>1, <2>2, PlacedSame DEF RowPlaced
  <2> QED BY <2>1, <2>3 DEF RowPlaced
<1>4. InsertsArePlaced' /\ FetchedIsPlaced'
    BY <1>1 DEF InsertsArePlaced, FetchedIsPlaced, Empty
<1> QED BY <1>1, <1>3, <1>4, PlacesSync

\* The row changes its folder for that of the request, at whose target the mail is.
LEMMA PlacesAnswer ==
    ASSUME PlacesInv, DoublesInv, TypeOK, RequestCommits
    PROVE  PlacesInv'
<1> USE DEF PlacesInv
<1>1. /\ UNCHANGED <<serverVars, fetched, inserts, at>>
      /\ request' = NoRequest
      /\ request.step = "pushed" /\ request # NoRequest
    BY DEF RequestCommits, syncVars, NoRequest
<1>2. /\ request \in RequestType /\ request.id \in 1..Len(rows)
      /\ DOMAIN rows' = 1..Len(rows) /\ DOMAIN rows = 1..Len(rows)
      /\ \A i \in 1..Len(rows) : rows'[i] = IF i = request.id THEN Answered(rows[i]) ELSE rows[i]
  <2>1. rows \in Seq(RowType)
    BY DEF TypeOK
  <2> HIDE DEF PlacesInv
  <2> QED BY <2>1, RequestCommitFacts
<1>3. request.row.mid = rows[request.id].mid
    BY <1>1 DEF DoublesInv, RequestFits
<1>4. PICK r \in RowType : r = rows[request.id]
    BY <1>2 DEF TypeOK
<1>5. RowPlaced(r)
    BY <1>2, <1>4 DEF RowsArePlaced
<1>6. RowPlaced(Answered(r))
  <2>1. PICK s : s = Answered(r)
    OBVIOUS
  <2>2. s.mid = r.mid /\ s.uid = r.uid
        /\ (s.folder = r.folder \/ (s.folder = request.to /\ request.to \in Folders))
    BY <1>2, <2>1, AnsweredFacts
  <2>3. CASE s.folder = r.folder
    BY <1>5, <2>1, <2>2, <2>3 DEF RowPlaced
  <2>4. CASE s.folder = "inbox" /\ request.to = "inbox"
    <3>1. r.mid \in returned
      BY <1>1, <1>3, <1>4, <2>4 DEF DoublesInv, ReturnIsKnown
    <3>2. r.mid \in 1..arrived
      BY <1>5 DEF RowPlaced, Placed, Away, AtUid
    <3> QED BY <2>1, <2>2, <2>4, <3>1, <3>2 DEF RowPlaced, Placed, AtUid
  <2>5. CASE s.folder = request.to /\ request.to \in Folders \ {"inbox"}
    <3>1. Away(r.mid)
      BY <1>1, <1>3, <1>4, <2>5 DEF PushedIsAway
    <3> QED BY <2>1, <2>2, <2>5, <3>1 DEF RowPlaced, Placed
  <2> QED BY <2>2, <2>3, <2>4, <2>5
<1>7. \A i \in DOMAIN rows' : RowPlaced(rows'[i])
  <2> HIDE DEF PlacesInv
  <2>1. \A i \in DOMAIN rows : RowPlaced(rows[i])
    BY DEF PlacesInv, RowsArePlaced
  <2> QED BY <1>2, <1>4, <1>6, <2>1
<1>8. RowsArePlaced'
  <2> SUFFICES ASSUME NEW i \in DOMAIN rows' PROVE RowPlaced(rows[i])'
    BY DEF RowsArePlaced
  <2>1. PICK s : s = rows'[i]
    OBVIOUS
  <2>2. Placed(s.folder, s.uid, s.mid)'
    BY <1>1, <1>7, <2>1, PlacedSame DEF RowPlaced
  <2> QED BY <2>1, <2>2 DEF RowPlaced
<1>9. InsertsArePlaced'
    BY <1>1, PlacedSame DEF InsertsArePlaced, RowPlaced
<1>10. FetchedIsPlaced'
    BY <1>1, PlacedSame DEF FetchedIsPlaced, Folder
<1>11. HeldHasArrived' /\ OnePlace'
    BY <1>1, ServerStays DEF serverVars
<1>12. RequestIsPlaced' /\ PushedIsAway'
    BY <1>1 DEF RequestIsPlaced, PushedIsAway, NoRequest
<1> QED BY <1>8, <1>9, <1>10, <1>11, <1>12

LEMMA PlacesStep ==
    ASSUME PlacesInv, DoublesInv, TypeOK, TypeOK', [Next]_vars
    PROVE  PlacesInv'
<1>1. CASE MailArrives
    BY <1>1, PlacesArrival
<1>2. ASSUME NEW u \in DOMAIN box["inbox"], ClientRemoves(u) PROVE PlacesInv'
    BY <1>2, PlacesRemoval
<1>3. CASE \/ \E m \in Mails : ClientFlags(m)
           \/ RequestDies
           \/ PushFails /\ (MarkedOnly \/ UNCHANGED serverVars)
           \/ UNCHANGED vars
  <2>1. /\ UNCHANGED <<arrived, box, returned, rows, inserts, fetched, at>>
        /\ request' = request \/ request' = NoRequest
    BY <1>3 DEF ClientFlags, RequestDies, PushFails, MarkedOnly, vars, serverVars, syncVars
  <2>2. ServerStep /\ HeldHasArrived' /\ OnePlace'
    BY <2>1, ServerStays DEF PlacesInv
  <2>3. PushedIsAway'
    BY <2>1, <2>2, PushedStays
  <2>4. request' = NoRequest \/ (request # NoRequest /\ request'.row = request.row)
    BY <2>1
  <2> QED BY <2>1, <2>2, <2>3, <2>4, PlacesQuiet
<1>4. CASE ListFolders \/ PlanFolder
  <2>1. /\ UNCHANGED <<serverVars, rows, inserts, fetched, request>>
        /\ fetched = Empty
    BY <1>4 DEF ListFolders, PlanFolder, TypeOK
  <2>2. RowsArePlaced' /\ InsertsArePlaced'
    BY <2>1, PlacedSame DEF PlacesInv, RowsArePlaced, InsertsArePlaced, RowPlaced
  <2>3. FetchedIsPlaced'
    BY <2>1 DEF FetchedIsPlaced, Empty
  <2> QED BY <2>1, <2>2, <2>3, PlacesSync
<1>5. CASE FetchBatch
    BY <1>5, PlacesFetch
<1>6. CASE MergeFolder
    BY <1>6, PlacesMerge
<1>7. CASE Commit
    BY <1>7, PlacesCommit
<1>8. CASE SyncFails
  <2>1. UNCHANGED <<serverVars, rows, request>> /\ fetched' = Empty /\ inserts' = <<>>
    BY <1>8 DEF SyncFails, Ended
  <2>2. RowsArePlaced'
    BY <2>1, PlacedSame DEF PlacesInv, RowsArePlaced, RowPlaced
  <2>3. InsertsArePlaced' /\ FetchedIsPlaced'
    BY <2>1 DEF InsertsArePlaced, FetchedIsPlaced, Empty
  <2> QED BY <2>1, <2>2, <2>3, PlacesSync
<1>9. ASSUME NEW op \in Operations, NEW to \in Targets(op), NEW i \in DOMAIN rows,
             RequestStarts(op, to, i)
      PROVE  PlacesInv'
  <2>1. /\ UNCHANGED <<serverVars, rows, inserts, fetched, at>>
        /\ request'.row = rows[i] /\ request'.step = "loaded"
    BY <1>9 DEF RequestStarts, syncVars
  <2>2. RowsArePlaced' /\ InsertsArePlaced' /\ FetchedIsPlaced'
    BY <2>1, PlacedSame
       DEF PlacesInv, RowsArePlaced, InsertsArePlaced, FetchedIsPlaced, RowPlaced, Folder
  <2>3. RequestIsPlaced' /\ PushedIsAway'
    BY <2>1, <2>2 DEF RowsArePlaced, RequestIsPlaced, PushedIsAway
  <2>4. HeldHasArrived' /\ OnePlace'
    BY <2>1, ServerStays DEF serverVars, PlacesInv
  <2> QED BY <2>2, <2>3, <2>4 DEF PlacesInv
<1>10. CASE Push
    BY <1>10, PlacesPush
<1>11. CASE PushFails /\ Pushed
  <2>1. request \in RequestType
    BY <1>11 DEF PushFails, NoRequest, TypeOK
  <2>2. UNCHANGED <<rows, inserts, fetched, at>> /\ request' = NoRequest
    BY <1>11 DEF PushFails, syncVars
  <2>3. HeldHasArrived' /\ OnePlace' /\ ServerStep
    BY <1>11, <2>1, PushedPlaces
  <2>4. PushedIsAway'
    BY <2>2, <2>3, PushedStays
  <2> QED BY <2>2, <2>3, <2>4, PlacesQuiet
<1>12. CASE RequestCommits
    BY <1>12, PlacesAnswer
<1> QED BY <1>1, <1>2, <1>3, <1>4, <1>5, <1>6, <1>7, <1>8, <1>9, <1>10, <1>11, <1>12
        DEF Next, Sync, PushFails

LEMMA PlacesInit == Init => PlacesInv
<1> SUFFICES ASSUME Init PROVE PlacesInv
    OBVIOUS
<1>1. \A f \in Folders : DOMAIN box[f] = {}
    BY DEF Init
<1>2. HeldHasArrived /\ OnePlace
    BY <1>1 DEF HeldHasArrived, OnePlace, Uids
<1>3. DOMAIN rows = {} /\ DOMAIN fetched = {} /\ DOMAIN inserts = {} /\ request = NoRequest
    BY DEF Init, Empty
<1>4. RowsArePlaced /\ InsertsArePlaced /\ FetchedIsPlaced
    BY <1>3 DEF RowsArePlaced, InsertsArePlaced, FetchedIsPlaced
<1> QED BY <1>2, <1>3, <1>4 DEF PlacesInv, RequestIsPlaced, PushedIsAway, NoRequest

\* What the mirror shows in the trash or the archive has left the inbox of the server, or
\* somebody moved it back: on every account, and however the steps of requests, of
\* synchronizations and of other clients are interleaved (emails.py 1158-1172, 1195-1203,
\* 1241-1257).
THEOREM MovesAreTrue == Spec => []MovedAtTheServer
<1>1. DoublesInv /\ TypeOK' /\ [Next]_vars => DoublesInv'
    BY DoublesStep
<1>2. PlacesInv /\ DoublesInv /\ TypeOK /\ TypeOK' /\ [Next]_vars => PlacesInv'
    BY PlacesStep
<1>3. PlacesInv => MovedAtTheServer
    BY DEF PlacesInv, RowsArePlaced, RowPlaced, Placed, Away, MovedAtTheServer
<1> QED BY <1>1, <1>2, <1>3, DoublesInit, PlacesInit, TypesAreKept, PTL DEF Spec
=============================================================================
