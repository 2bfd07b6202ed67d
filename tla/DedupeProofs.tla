---------------------------- MODULE DedupeProofs ----------------------------
(***************************************************************************)
(* What the duplicate remover guarantees for any number of rows, folders,  *)
(* runs and limits: only later copies go, every mail that is not mistaken  *)
(* for another keeps a row, and no run deletes more than it may.           *)
(***************************************************************************)
EXTENDS Dedupe, FiniteSetTheorems, WellFoundedInduction, TLAPS

\* There is, or was, an earlier row like it.
HasEarlier(r) == \E s \in born : s < r /\ Alike(s, r)

\* Whatever a run is about to delete, has deleted or has deleted for good is a later row
\* of rows that are alike.
OnlyLaterRows ==
    /\ \A p \in Runs : \A r \in doomed[p] \union gone[p] : HasEarlier(r)
    /\ \A r \in born \ live : HasEarlier(r)

\* What a run has deleted and what it still may delete is within its limit.
WithinLimit ==
    \A p \in Runs :
        /\ limit[p] = NoLimit <=> left[p] = NoLimit
        /\ left[p] # NoLimit => /\ Cardinality(doomed[p]) <= left[p]
                                /\ Cardinality(gone[p]) + left[p] <= limit[p]

\* A run that has not begun has deleted nothing.
IdleIsClean == \A p \in Runs : pc[p] = "idle" => gone[p] = {}

IInv == TypeOK /\ OnlyLaterRows /\ WithinLimit

-----------------------------------------------------------------------------
\* A set of rows is finite, and so has a number of elements.
LEMMA RowSets ==
    ASSUME NEW S \in SUBSET Rows
    PROVE  IsFiniteSet(S) /\ Cardinality(S) \in Nat
<1>1. RowCount \in Nat
  BY DedupeAssumptions
<1>2. IsFiniteSet(Rows)
  BY <1>1, FS_Interval DEF Rows
<1>3. IsFiniteSet(S)
  BY <1>2, FS_Subset
<1> QED
  BY <1>3, FS_CardinalityType

\* ids[:n] has at most n elements: the number of smaller ones tells them apart.
LEMMA SliceBound ==
    ASSUME NEW S \in SUBSET Rows, NEW n \in Nat
    PROVE  Cardinality(Slice(S, n)) <= n
<1> DEFINE Below(r) == {s \in S : s < r}
           T == {r \in S : Cardinality(Below(r)) < n}
           place == [r \in T |-> Cardinality(Below(r))]
<1>1. \A r \in S : IsFiniteSet(Below(r)) /\ Cardinality(Below(r)) \in Nat
  BY RowSets
<1>2. \A r \in S : r \in Int
  BY DedupeAssumptions DEF Rows
<1>3. ASSUME NEW r \in S, NEW q \in S, r < q
      PROVE  Cardinality(Below(r)) < Cardinality(Below(q))
  <2>1. Below(r) \in SUBSET Below(q)
    BY <1>2, <1>3
  <2>2. r \in Below(q) /\ r \notin Below(r)
    BY <1>2, <1>3
  <2>3. /\ Cardinality(Below(r)) <= Cardinality(Below(q))
        /\ Cardinality(Below(q)) = Cardinality(Below(r)) => Below(q) = Below(r)
    BY <1>1, <2>1, FS_Subset
  <2> QED
    BY <1>1, <2>2, <2>3
<1> HIDE DEF Below
<1>4. place \in Injection(T, 0..(n - 1))
  <2>1. \A r \in T : place[r] \in 0..(n - 1)
    BY <1>1
  <2>2. ASSUME NEW r \in T, NEW q \in T, place[r] = place[q] PROVE r = q
    <3>1. ~(r < q) /\ ~(q < r)
      BY <1>1, <1>3, <2>2
    <3> QED
      BY <1>2, <3>1
  <2> QED
    BY <2>1, <2>2 DEF Injection, IsInjective
<1>5. IsFiniteSet(0..(n - 1)) /\ Cardinality(0..(n - 1)) = n
  BY FS_Interval
<1>6. Cardinality(T) <= n
  BY <1>4, <1>5, FS_Injection
<1>7. Slice(S, n) = T
  BY DedupeAssumptions DEF Slice, Below
<1> QED
  BY <1>6, <1>7

\* Rows in folders of one type, or in one folder, have been so.
LEMMA TogetherNow ==
    ASSUME TypeOK, NEW s \in Rows, NEW r \in Rows
    PROVE  /\ ScopeOf[folder[s]] = ScopeOf[folder[r]] => OneType(s, r)
           /\ folder[s] = folder[r] => been[s] \intersect been[r] # {}
<1>1. folder[s] \in been[s] /\ folder[r] \in been[r]
  BY DEF TypeOK
<1> QED
  BY <1>1 DEF OneType

\* A row found twice, by either key, has an earlier row like it.
LEMMA DuplicatesAreLater ==
    ASSUME TypeOK, NEW p \in Runs, NEW n,
           NEW key \in {StableKeys, PrintKeys},
           NEW r \in Slice(Duplicates(Seen(p), key), n)
    PROVE  r \in born /\ HasEarlier(r)
<1>1. r \in Duplicates(Seen(p), key)
  BY DEF Slice
<1>2. Seen(p) \subseteq born /\ born \subseteq Rows
  BY DEF TypeOK, Seen
<1>3. PICK s \in Seen(p) : r \in Seen(p) /\ s < r /\ key[s] = key[r]
  BY <1>1 DEF Duplicates
<1>4. r \in Rows /\ s \in Rows
  BY <1>2, <1>3
<1>5. ASSUME PrintKey(s) = PrintKey(r) PROVE Alike(s, r)
  <2>1. Fingerprint[s] = Fingerprint[r] /\ ScopeOf[folder[s]] = ScopeOf[folder[r]]
    BY <1>5 DEF PrintKey
  <2> QED
    BY <1>4, <2>1, TogetherNow DEF Alike
<1>6. ASSUME StableKey(s) = StableKey(r) PROVE Alike(s, r)
  <2>1. CASE MessageId[r] # None
    <3>1. /\ StableKey(s).of = "mid" /\ StableKey(s).value = MessageId[r]
          /\ StableKey(s).scope = ScopeOf[folder[r]]
      BY <1>6, <2>1 DEF StableKey
    <3>2. MessageId[s] = MessageId[r] /\ ScopeOf[folder[s]] = ScopeOf[folder[r]]
      BY <3>1 DEF StableKey, PrintKey
    <3> QED
      BY <1>4, <2>1, <3>2, TogetherNow DEF Alike
  <2>2. CASE MessageId[r] = None /\ Uid[r] # None
    <3>1. StableKey(s).of = "uid" /\ StableKey(s).value = Uid[r] /\ StableKey(s).scope = folder[r]
      BY <1>6, <2>2 DEF StableKey
    <3>2. MessageId[s] = None /\ Uid[s] = Uid[r] /\ folder[s] = folder[r]
      BY <3>1 DEF StableKey, PrintKey
    <3> QED
      BY <1>4, <2>2, <3>2, TogetherNow DEF Alike
  <2>3. CASE MessageId[r] = None /\ Uid[r] = None
    <3>1. StableKey(r) = PrintKey(r) /\ StableKey(s).of = "print"
      BY <1>6, <2>3 DEF StableKey, PrintKey
    <3>2. StableKey(s) = PrintKey(s)
      BY <3>1 DEF StableKey
    <3> QED
      BY <1>5, <1>6, <3>1, <3>2
  <2> QED
    BY <2>1, <2>2, <2>3
<1>7. Alike(s, r)
  <2>1. CASE key = PrintKeys
    BY <1>3, <1>4, <1>5, <2>1 DEF PrintKeys
  <2>2. CASE key = StableKeys
    BY <1>3, <1>4, <1>6, <2>2 DEF StableKeys
  <2> QED
    BY <2>1, <2>2
<1> QED
  BY <1>2, <1>3, <1>7 DEF HasEarlier

\* Rows come, and folders are added to those a row has been in: rows that were alike stay so.
LEMMA EarlierStays ==
    ASSUME TypeOK, born \subseteq born', born' \subseteq Rows, \A r \in Rows : been[r] \subseteq been'[r],
           NEW r \in born, HasEarlier(r)
    PROVE  HasEarlier(r)'
<1>1. PICK s \in born : s < r /\ Alike(s, r)
  BY DEF HasEarlier
<1>2. r \in Rows /\ s \in Rows
  BY DEF TypeOK
<1>3. been[s] \subseteq been'[s] /\ been[r] \subseteq been'[r]
  BY <1>2
<1>4. OneType(s, r) => OneType(s, r)'
  BY <1>3 DEF OneType
<1>5. Alike(s, r)'
  BY <1>1, <1>3, <1>4 DEF Alike
<1> QED
  BY <1>1, <1>5 DEF HasEarlier

\* What a scan finds is in the table.
LEMMA ScanFindsRows ==
    ASSUME TypeOK, NEW p \in Runs, NEW n, NEW key
    PROVE  Slice(Duplicates(Seen(p), key), n) \in SUBSET born
  BY DEF Slice, Duplicates, Seen, TypeOK

-----------------------------------------------------------------------------
\* The empty table satisfies the invariant.
LEMMA InitHolds == Init => IInv /\ IdleIsClean
<1> SUFFICES ASSUME Init PROVE IInv /\ IdleIsClean
  OBVIOUS
<1>1. TypeOK
  BY DedupeAssumptions DEF Init, TypeOK
<1>2. OnlyLaterRows
  BY DEF Init, OnlyLaterRows
<1>3. WithinLimit
  BY FS_EmptySet DEF Init, WithinLimit
<1>4. IdleIsClean
  BY DEF Init, IdleIsClean
<1> QED
  BY <1>1, <1>2, <1>3, <1>4 DEF IInv

\* A run that ends holds nothing; the others are as they were.
LEMMA EndsKeeps ==
    ASSUME IInv, NEW p \in Runs, Ends(p), born' = born, live' \subseteq live,
           \A r \in live \ live' : r \in gone[p],
           folder' = folder, been' = been, moves' \in Nat, failures' \in Nat
    PROVE  IInv'
<1> USE DEF IInv
<1>1. TypeOK'
  BY DEF TypeOK, Ends
<1>2. OnlyLaterRows'
  <2>1. \A r : HasEarlier(r)' <=> HasEarlier(r)
    BY DEF HasEarlier, Alike, OneType
  <2>2. ASSUME NEW q \in Runs, NEW r \in doomed'[q] \union gone'[q] PROVE r \in doomed[q] \union gone[q]
    BY <2>2 DEF Ends, TypeOK
  <2>3. ASSUME NEW r \in born' \ live' PROVE r \in born \ live \/ r \in gone[p]
    BY <2>3
  <2> QED
    BY <2>1, <2>2, <2>3 DEF OnlyLaterRows
<1>3. WithinLimit'
  BY DEF WithinLimit, Ends, TypeOK
<1> QED
  BY <1>1, <1>2, <1>3

\* A scan that may find no more than is left keeps the invariant.
LEMMA ScanKeeps ==
    ASSUME IInv, NEW p \in Runs, NEW n \in Nat \union {NoLimit}, NEW m \in Limits \union {NoLimit},
           NEW key \in {StableKeys, PrintKeys},
           n = NoLimit <=> m = NoLimit,
           n # NoLimit => Cardinality(gone[p]) + n <= m,
           doomed' = [doomed EXCEPT ![p] = Slice(Duplicates(Seen(p), key), n)],
           left' = [left EXCEPT ![p] = n],
           limit' = [limit EXCEPT ![p] = m],
           pc' \in [Runs -> {"idle", "stable", "again", "print", "done"}],
           UNCHANGED <<tableVars, gone, moves, failures>>
    PROVE  IInv'
<1> USE DEF IInv, tableVars
<1> DEFINE found == Slice(Duplicates(Seen(p), key), n)
<1>1. found \in SUBSET born
  BY ScanFindsRows
<1>2. doomed' = [doomed EXCEPT ![p] = found]
  OBVIOUS
<1>3. n # NoLimit => Cardinality(found) <= n
  <2>1. Duplicates(Seen(p), key) \in SUBSET Rows
    BY DEF Duplicates, Seen, TypeOK
  <2> QED
    BY <2>1, SliceBound
<1>4. \A r \in found : HasEarlier(r)
  BY DuplicatesAreLater
<1> HIDE DEF found
<1>5. TypeOK'
  BY <1>1, <1>2 DEF TypeOK
<1>6. OnlyLaterRows'
  <2>1. \A r : HasEarlier(r)' <=> HasEarlier(r)
    BY DEF HasEarlier, Alike, OneType
  <2>2. ASSUME NEW q \in Runs, NEW r \in doomed'[q] \union gone'[q]
        PROVE  r \in found \/ r \in doomed[q] \union gone[q]
    BY <1>2, <2>2 DEF TypeOK
  <2> QED
    BY <1>4, <2>1, <2>2 DEF OnlyLaterRows
<1>7. WithinLimit'
  <2> SUFFICES ASSUME NEW q \in Runs
               PROVE  /\ limit'[q] = NoLimit <=> left'[q] = NoLimit
                      /\ left'[q] # NoLimit => /\ Cardinality(doomed'[q]) <= left'[q]
                                               /\ Cardinality(gone'[q]) + left'[q] <= limit'[q]
    BY DEF WithinLimit
  <2>1. CASE q = p
    BY <1>2, <1>3, <2>1 DEF TypeOK
  <2>2. CASE q # p
    BY <1>2, <2>2 DEF TypeOK, WithinLimit
  <2> QED
    BY <2>1, <2>2
<1> QED
  BY <1>5, <1>6, <1>7

\* A deletion uses up the limit by as many rows as were to be deleted.
LEMMA DeleteKeeps ==
    ASSUME IInv, NEW p \in Runs, Delete(p),
           pc' \in [Runs -> {"idle", "stable", "again", "print", "done"}]
    PROVE  IInv'
<1> USE DEF IInv, tableVars
<1> DEFINE hit == doomed[p] \intersect live
           cost == Cardinality(doomed[p])
<1>1. /\ doomed[p] \in SUBSET Rows /\ gone[p] \in SUBSET Rows
      /\ hit \in SUBSET born /\ hit \in SUBSET doomed[p]
      /\ left[p] \in Nat \union {NoLimit} /\ limit[p] \in Nat \union {NoLimit}
  BY DedupeAssumptions DEF TypeOK
<1>2. /\ IsFiniteSet(doomed[p]) /\ cost \in Nat
      /\ IsFiniteSet(gone[p]) /\ Cardinality(gone[p]) \in Nat
      /\ IsFiniteSet(hit) /\ Cardinality(hit) \in Nat
      /\ IsFiniteSet(gone[p] \intersect hit) /\ Cardinality(gone[p] \intersect hit) \in Nat
  <2>1. hit \in SUBSET Rows /\ gone[p] \intersect hit \in SUBSET Rows
    BY <1>1
  <2> QED
    BY <1>1, <2>1, RowSets
<1>3. Cardinality(hit) <= cost
  BY <1>1, <1>2, FS_Subset
<1>4. Cardinality(gone[p] \union hit) <= Cardinality(gone[p]) + cost
                                         /\ Cardinality(gone[p] \union hit) \in Nat
  <2>1. Cardinality(gone[p] \union hit)
          = Cardinality(gone[p]) + Cardinality(hit) - Cardinality(gone[p] \intersect hit)
    BY <1>2, FS_Union
  <2>2. gone[p] \union hit \in SUBSET Rows
    BY <1>1
  <2>3. Cardinality(gone[p] \union hit) \in Nat
    BY <2>2, RowSets
  <2> QED
    BY <1>2, <1>3, <2>1, <2>3
<1>5. Cardinality({}) = 0
  BY FS_EmptySet
<1>6. left[p] # NoLimit => cost <= left[p] /\ Cardinality(gone[p]) + left[p] <= limit[p]
  BY DEF WithinLimit
<1>7. /\ gone' = [gone EXCEPT ![p] = gone[p] \union hit]
      /\ left' = [left EXCEPT ![p] = IF left[p] = NoLimit THEN left[p] ELSE left[p] - cost]
      /\ doomed' = [doomed EXCEPT ![p] = {}]
      /\ born' = born /\ live' = live /\ folder' = folder /\ been' = been
      /\ limit' = limit /\ moves' = moves /\ failures' = failures
  BY DEF Delete, TypeOK
<1> HIDE DEF hit, cost
<1>8. TypeOK'
  <2>1. left[p] # NoLimit => left[p] - cost \in Nat
    BY <1>1, <1>2, <1>6
  <2> QED
    BY <1>1, <1>7, <2>1 DEF TypeOK
<1>9. OnlyLaterRows'
  <2>1. \A r : HasEarlier(r)' <=> HasEarlier(r)
    BY <1>7 DEF HasEarlier, Alike, OneType
  <2>2. ASSUME NEW q \in Runs, NEW r \in doomed'[q] \union gone'[q] PROVE r \in doomed[q] \union gone[q]
    BY <1>1, <1>7, <2>2 DEF TypeOK
  <2> QED
    BY <1>7, <2>1, <2>2 DEF OnlyLaterRows
<1>10. WithinLimit'
  <2> SUFFICES ASSUME NEW q \in Runs
               PROVE  /\ limit'[q] = NoLimit <=> left'[q] = NoLimit
                      /\ left'[q] # NoLimit => /\ Cardinality(doomed'[q]) <= left'[q]
                                               /\ Cardinality(gone'[q]) + left'[q] <= limit'[q]
    BY DEF WithinLimit
  <2>1. CASE q # p
    BY <1>7, <2>1 DEF TypeOK, WithinLimit
  <2>2. CASE q = p /\ left[p] = NoLimit
    BY <1>7, <2>2 DEF TypeOK, WithinLimit
  <2>3. CASE q = p /\ left[p] # NoLimit
    <3>1. /\ left'[p] = left[p] - cost /\ limit'[p] = limit[p]
          /\ doomed'[p] = {} /\ gone'[p] = gone[p] \union hit
      BY <1>7, <2>3 DEF TypeOK
    <3>2. left[p] \in Nat /\ limit[p] \in Nat
      BY <1>1, <2>3 DEF WithinLimit
    <3>3. left'[p] # NoLimit
      BY <1>2, <1>6, <2>3, <3>1, <3>2, DedupeAssumptions
    <3>4. Cardinality(doomed'[p]) <= left'[p] /\ Cardinality(gone'[p]) + left'[p] <= limit'[p]
      BY <1>2, <1>4, <1>5, <1>6, <2>3, <3>1, <3>2
    <3>5. limit'[p] # NoLimit
      BY <2>3, <3>1 DEF WithinLimit
    <3> QED
      BY <2>3, <3>3, <3>4, <3>5
  <2> QED
    BY <2>1, <2>2, <2>3
<1> QED
  BY <1>8, <1>9, <1>10

\* A run is idle only before its first step and after its last.
LEMMA IdleStaysClean == TypeOK /\ IdleIsClean /\ [Next]_vars => IdleIsClean'
<1> SUFFICES ASSUME TypeOK, IdleIsClean, [Next]_vars PROVE IdleIsClean'
  OBVIOUS
<1>1. ASSUME NEW p \in Runs, StableScan(p) \/ PrintScan(p) PROVE IdleIsClean'
  BY <1>1 DEF IdleIsClean, StableScan, PrintScan, TypeOK
<1>2. ASSUME NEW p \in Runs, StableDelete(p) \/ PrintDelete(p) PROVE IdleIsClean'
  BY <1>2 DEF IdleIsClean, StableDelete, PrintDelete, Delete, TypeOK
<1>3. ASSUME NEW p \in Runs, Commit(p) \/ Fail(p) PROVE IdleIsClean'
  BY <1>3 DEF IdleIsClean, Commit, Fail, Ends, TypeOK
<1>4. ASSUME NEW r \in Rows, Insert(r) PROVE IdleIsClean'
  BY <1>4 DEF IdleIsClean, Insert, runVars
<1>5. ASSUME NEW r \in Rows, NEW f \in Folders, Move(r, f) PROVE IdleIsClean'
  BY <1>5 DEF IdleIsClean, Move, runVars
<1>6. CASE UNCHANGED vars
  BY <1>6 DEF IdleIsClean, vars, runVars
<1> QED
  BY <1>1, <1>2, <1>3, <1>4, <1>5, <1>6 DEF Next

\* Every step keeps the invariant.
LEMMA NextKeeps == IInv /\ IdleIsClean /\ [Next]_vars => IInv'
<1> SUFFICES ASSUME IInv, IdleIsClean, [Next]_vars PROVE IInv'
  OBVIOUS
<1> USE DEF IInv
<1>t. /\ pc \in [Runs -> {"idle", "stable", "again", "print", "done"}]
      /\ moves \in Nat /\ failures \in Nat
  BY DEF TypeOK
<1>1. ASSUME NEW r \in Rows, Insert(r) PROVE IInv'
  <2>1. TypeOK'
    BY <1>1 DEF TypeOK, Insert, runVars
  <2>2. OnlyLaterRows'
    <3>1. \A q \in born : HasEarlier(q) => HasEarlier(q)'
      BY <1>1, EarlierStays DEF Insert, TypeOK
    <3>2. born' \ live' \subseteq born \ live
      BY <1>1 DEF Insert
    <3> QED
      BY <1>1, <3>1, <3>2 DEF OnlyLaterRows, Insert, runVars, TypeOK
  <2>3. WithinLimit'
    BY <1>1 DEF WithinLimit, Insert, runVars
  <2> QED
    BY <2>1, <2>2, <2>3
<1>2. ASSUME NEW r \in Rows, NEW f \in Folders, Move(r, f) PROVE IInv'
  <2>1. TypeOK'
    BY <1>2 DEF TypeOK, Move, runVars
  <2>2. OnlyLaterRows'
    <3>1. \A q \in Rows : been[q] \subseteq been'[q]
      BY <1>2 DEF Move, TypeOK
    <3>2. \A q \in born : HasEarlier(q) => HasEarlier(q)'
      BY <1>2, <3>1, EarlierStays DEF Move, TypeOK
    <3> QED
      BY <1>2, <3>2 DEF OnlyLaterRows, Move, runVars, TypeOK
  <2>3. WithinLimit'
    BY <1>2 DEF WithinLimit, Move, runVars
  <2> QED
    BY <2>1, <2>2, <2>3
<1>3. ASSUME NEW p \in Runs, StableScan(p) PROVE IInv'
  <2>1. PICK n \in Limits :
           /\ limit' = [limit EXCEPT ![p] = n]
           /\ left' = [left EXCEPT ![p] = n]
           /\ doomed' = [doomed EXCEPT ![p] = Slice(Duplicates(Seen(p), StableKeys), n)]
    BY <1>3 DEF StableScan
  <2>2. n \in Nat \union {NoLimit} /\ n \in Limits \union {NoLimit}
    BY DedupeAssumptions
  <2>3. Cardinality(gone[p]) = 0
    BY <1>3, FS_EmptySet DEF StableScan, IdleIsClean
  <2>4. n # NoLimit => Cardinality(gone[p]) + n <= n
    BY <2>2, <2>3
  <2>5. pc' \in [Runs -> {"idle", "stable", "again", "print", "done"}]
    BY <1>3, <1>t DEF StableScan
  <2>6. UNCHANGED <<tableVars, gone, moves, failures>>
    BY <1>3 DEF StableScan
  <2> QED
    BY <2>1, <2>2, <2>4, <2>5, <2>6, ScanKeeps
<1>4. ASSUME NEW p \in Runs, StableDelete(p) PROVE IInv'
  BY <1>4, <1>t, DeleteKeeps DEF StableDelete
<1>5. ASSUME NEW p \in Runs, PrintScan(p) PROVE IInv'
  <2>1. left[p] \in Nat \union {NoLimit} /\ limit[p] \in Limits \union {NoLimit}
    BY DEF TypeOK
  <2>2. /\ left' = [left EXCEPT ![p] = left[p]]
        /\ limit' = [limit EXCEPT ![p] = limit[p]]
    BY <1>5 DEF PrintScan, TypeOK
  <2>3. /\ left[p] = NoLimit <=> limit[p] = NoLimit
        /\ left[p] # NoLimit => Cardinality(gone[p]) + left[p] <= limit[p]
    BY DEF WithinLimit
  <2> QED
    BY <1>5, <1>t, <2>1, <2>2, <2>3, ScanKeeps DEF PrintScan
<1>6. ASSUME NEW p \in Runs, PrintDelete(p) PROVE IInv'
  BY <1>6, <1>t, DeleteKeeps DEF PrintDelete
<1>7. ASSUME NEW p \in Runs, Commit(p) PROVE IInv'
  BY <1>7, <1>t, EndsKeeps DEF Commit
<1>8. ASSUME NEW p \in Runs, Fail(p) PROVE IInv'
  BY <1>8, <1>t, EndsKeeps DEF Fail, tableVars
<1>9. CASE UNCHANGED vars
  <2>1. TypeOK'
    BY <1>9 DEF TypeOK, vars, tableVars, runVars
  <2>2. OnlyLaterRows'
    BY <1>9 DEF OnlyLaterRows, HasEarlier, Alike, OneType, vars, tableVars, runVars
  <2>3. WithinLimit'
    BY <1>9 DEF WithinLimit, vars, tableVars, runVars
  <2> QED
    BY <2>1, <2>2, <2>3
<1> QED
  BY <1>1, <1>2, <1>3, <1>4, <1>5, <1>6, <1>7, <1>8, <1>9 DEF Next

\* The invariant holds in every state of every behaviour of the duplicate remover.
THEOREM Invariance == Spec => [](IInv /\ IdleIsClean)
<1>1. Init => IInv /\ IdleIsClean
  BY InitHolds
<1>2. IInv /\ IdleIsClean /\ [Next]_vars => (IInv /\ IdleIsClean)'
  BY NextKeeps, IdleStaysClean DEF IInv
<1> QED
  BY <1>1, <1>2, PTL DEF Spec

\* The state of the runs is well-formed; in particular what is left of a limit never
\* becomes negative, which remaining == 0 (dedupe_service.py 160) depends on.
THEOREM DedupeTypeCorrect == Spec => []TypeOK
<1>1. IInv => TypeOK
  BY DEF IInv
<1> QED
  BY <1>1, Invariance, PTL

\* A row goes only if there was an earlier row like it (dedupe_service.py 52-75, 101-162).
THEOREM LaterCopiesGo == Spec => []OnlyLaterCopiesGo
<1>1. IInv => OnlyLaterCopiesGo
  BY DEF IInv, OnlyLaterRows, OnlyLaterCopiesGo, HasEarlier
<1> QED
  BY <1>1, Invariance, PTL

\* Some row of a mail that has rows is the first of them.
LEMMA FirstOfMail ==
    ASSUME TypeOK, NEW r \in born
    PROVE  \E f \in born : /\ Content[f] = Content[r]
                           /\ \A s \in born : Content[s] = Content[r] => ~(s < f)
<1>1. PICK T : T = {s \in born : Content[s] = Content[r]}
  OBVIOUS
<1>2. T \subseteq Nat /\ T # {}
  <2>1. Rows \subseteq Nat
    BY DedupeAssumptions DEF Rows
  <2> QED
    BY <1>1, <2>1 DEF TypeOK
<1>3. PICK f \in T : \A s \in T : ~(<<s, f>> \in OpToRel(<, Nat))
  BY <1>2, WFMin, NatLessThanWellFounded
<1>4. \A s \in T : ~(s < f)
  BY <1>2, <1>3 DEF OpToRel
<1> QED
  BY <1>1, <1>4

\* A mail that was never mistaken for another keeps a row, however many runs overlap
\* (dedupe_service.py 131-162): its first row has no earlier row like it.
THEOREM EveryMailKeepsARow == Spec => []MailsKeepARow
<1>1. IInv => MailsKeepARow
  <2> SUFFICES ASSUME IInv, NEW r \in born, ~Mistaken(Content[r])
               PROVE  \E s \in live : Content[s] = Content[r]
    BY DEF MailsKeepARow
  <2>1. PICK f \in born : /\ Content[f] = Content[r]
                          /\ \A s \in born : Content[s] = Content[r] => ~(s < f)
    BY FirstOfMail DEF IInv
  <2>2. ~HasEarlier(f)
    BY <2>1 DEF HasEarlier, Mistaken
  <2> QED
    BY <2>1, <2>2 DEF IInv, OnlyLaterRows
<1> QED
  BY <1>1, Invariance, PTL

\* Both passes of a run together delete no more than its max_delete (dedupe_service.py
\* 147-158).
THEOREM LimitsAreKept == Spec => []LimitIsKept
<1>1. IInv => LimitIsKept
  <2> SUFFICES ASSUME IInv, NEW p \in Runs, limit[p] # NoLimit
               PROVE  Cardinality(gone[p]) <= limit[p]
    BY DEF LimitIsKept
  <2>1. left[p] \in Nat /\ limit[p] \in Nat
    BY DedupeAssumptions DEF IInv, TypeOK, WithinLimit
  <2>2. Cardinality(gone[p]) + left[p] <= limit[p]
    BY DEF IInv, WithinLimit
  <2>3. gone[p] \in SUBSET Rows
    BY DEF IInv, TypeOK
  <2>4. Cardinality(gone[p]) \in Nat
    BY <2>3, RowSets
  <2> QED
    BY <2>1, <2>2, <2>4
<1> QED
  BY <1>1, Invariance, PTL
=============================================================================
