------------------------ MODULE AdministrationProofs ------------------------
(***************************************************************************)
(* Proofs about AccountRegistry, for any addresses, files and number of    *)
(* requests at one time: its type invariant, that an address an import has *)
(* reported has an account, where two accounts of one address can come     *)
(* from, and that the list stands in alphabetical order; about MailImport, *)
(* for any mailbox, batches and moves: its type invariant, and that a mail *)
(* that has a row keeps one; and that all of this holds of what            *)
(* MCAdministration composes.                                              *)
(***************************************************************************)
EXTENDS MCAdministration, AccessProofs, FiniteSetTheorems

AddressesOf(table) == {table[i].address : i \in DOMAIN table}

Busy == {c \in Clients : session[c] # NoSession}

\* A session that has not sorted, and what it has read of places holds.
Fresh(s) == s.step # "sorted" /\ \A i \in DOMAIN s.had : s.had[i] = accounts[i].sort_order

-----------------------------------------------------------------------------
(* Types.                                                                  *)

LEMMA SessionFields ==
    ASSUME NEW step, NEW todo, NEW looked
    PROVE  DOMAIN Opened(step, todo, looked) =
             {"step", "todo", "looked", "new", "revived", "had", "added", "place", "missed"}
BY DEF Opened

\* A session that has just been opened.
LEMMA OpenedType ==
    ASSUME NEW step \in {"import", "sort"}, NEW todo \in Seq(Rows), NEW looked \in SUBSET Addresses
    PROVE  /\ SessionType(Opened(step, todo, looked))
           /\ Refers(Opened(step, todo, looked), accounts)
<1>1. DOMAIN Opened(step, todo, looked) = DOMAIN Opened("sort", <<>>, {})
  BY SessionFields
<1>2. <<>> \in Seq(Account) /\ DOMAIN NoPlaces = {} /\ NoPlaces \in [{} -> Nat]
  BY DEF NoPlaces
<1> QED BY <1>1, <1>2 DEF SessionType, Refers, Opened

LEMMA NewAccount == ASSUME NEW a \in Addresses, NEW cap \in BOOLEAN PROVE New(a, cap) \in Account
BY DEF New, Account

\* A step that changes one session.
LEMMA OneSession ==
    ASSUME RegistryTypeOK, NEW c \in Clients, NEW s, session' = [session EXCEPT ![c] = s]
    PROVE  /\ DOMAIN session' = Clients
           /\ session'[c] = s
           /\ \A d \in Clients \ {c} : session'[d] = session[d]
BY DEF RegistryTypeOK

LEMMA SessionStep ==
    ASSUME RegistryTypeOK, NEW c \in Clients, NEW s, session' = [session EXCEPT ![c] = s],
           s = NoSession \/ (SessionType(s) /\ Refers(s, accounts)),
           accounts' = accounts, requests' \in 0..MaxRequests,
           doubled' \union reported' \subseteq Addresses, untidy' \in BOOLEAN
    PROVE  RegistryTypeOK'
<1>1. \A d \in Clients : session'[d] = NoSession \/ (SessionType(session'[d]) /\ Refers(session'[d], accounts'))
  BY OneSession DEF RegistryTypeOK
<1> QED BY <1>1, OneSession DEF RegistryTypeOK

LEMMA BeginsStep ==
    ASSUME RegistryTypeOK, NEW c \in Clients, NEW s, Begins(c, s),
           s = NoSession \/ (SessionType(s) /\ Refers(s, accounts)),
           accounts' = accounts, reported' = reported, untidy' = untidy, doubled' \subseteq Addresses
    PROVE  RegistryTypeOK'
<1>1. requests' \in 0..MaxRequests
  BY RegistryAssumptions DEF Begins, Serving, RegistryTypeOK
<1> QED BY <1>1, SessionStep DEF Begins, RegistryTypeOK

\* What becomes of a row of a file: it is left out, fails, or is one more new account.
LEMMA RowDoneIs ==
    ASSUME NEW s, SessionType(s), s.todo # <<>>,
           NEW t, t = RowDone(s, Head(s.todo))
    PROVE  /\ DOMAIN t = DOMAIN s
           /\ t.todo = Tail(s.todo)
           /\ t.looked = s.looked \union {Head(s.todo).address}
           /\ t.revived = s.revived /\ t.had = s.had /\ t.place = s.place /\ t.missed = s.missed
           /\ \/ t.new = s.new /\ t.added = s.added /\ t.step \in {s.step, "failed"}
              \/ /\ Known(s.new, Head(s.todo).address) = {}
                 /\ t.new = Append(s.new, New(Head(s.todo).address, FALSE))
                 /\ t.added = s.added \union {Head(s.todo).address}
                 /\ t.step = s.step
<1> DEFINE row == Head(s.todo)
<1>0. DOMAIN s = {"step", "todo", "looked", "new", "revived", "had", "added", "place", "missed"}
  BY SessionFields DEF SessionType
<1>1. PICK q : q = [s EXCEPT !.todo = Tail(s.todo)]
  OBVIOUS
<1>2. PICK next : next = [q EXCEPT !.looked = s.looked \union {row.address}]
  OBVIOUS
<1>3. /\ DOMAIN next = DOMAIN s /\ next.todo = Tail(s.todo) /\ next.looked = s.looked \union {row.address}
      /\ next.revived = s.revived /\ next.had = s.had /\ next.place = s.place /\ next.missed = s.missed
      /\ next.new = s.new /\ next.added = s.added /\ next.step = s.step
  <2>1. /\ DOMAIN q = DOMAIN s /\ q.todo = Tail(s.todo) /\ q.looked = s.looked
        /\ q.revived = s.revived /\ q.had = s.had /\ q.place = s.place /\ q.missed = s.missed
        /\ q.new = s.new /\ q.added = s.added /\ q.step = s.step
    BY <1>0, <1>1
  <2> QED BY <1>0, <1>2, <2>1
<1>4. PICK r : r = [next EXCEPT !.new = Append(s.new, New(row.address, FALSE))]
  OBVIOUS
<1>5. PICK more : more = [r EXCEPT !.added = s.added \union {row.address}]
  OBVIOUS
<1>6. /\ DOMAIN more = DOMAIN next /\ more.todo = next.todo /\ more.looked = next.looked
      /\ more.revived = next.revived /\ more.had = next.had /\ more.place = next.place
      /\ more.missed = next.missed /\ more.step = next.step
      /\ more.new = Append(s.new, New(row.address, FALSE)) /\ more.added = s.added \union {row.address}
  <2>1. /\ DOMAIN r = DOMAIN next /\ r.todo = next.todo /\ r.looked = next.looked
        /\ r.revived = next.revived /\ r.had = next.had /\ r.place = next.place
        /\ r.missed = next.missed /\ r.step = next.step /\ r.added = next.added
        /\ r.new = Append(s.new, New(row.address, FALSE))
    BY <1>0, <1>3, <1>4
  <2> QED BY <1>0, <1>3, <1>5, <2>1
<1>7. PICK fails : fails = [next EXCEPT !.step = "failed"]
  OBVIOUS
<1>8. /\ DOMAIN fails = DOMAIN next /\ fails.todo = next.todo /\ fails.looked = next.looked
      /\ fails.revived = next.revived /\ fails.had = next.had /\ fails.place = next.place
      /\ fails.missed = next.missed /\ fails.new = next.new /\ fails.added = next.added
      /\ fails.step = "failed"
  BY <1>0, <1>3, <1>7
<1>9. t = next \/ t = fails \/ (Known(s.new, row.address) = {} /\ t = more)
  <2>1. next = [s EXCEPT !.todo = Tail(@), !.looked = @ \union {row.address}]
    BY <1>1, <1>2, Zenon
  <2>2. more = [next EXCEPT !.new = Append(@, New(row.address, FALSE)), !.added = @ \union {row.address}]
    BY <1>3, <1>4, <1>5, Zenon
  <2> QED BY <1>7, <2>1, <2>2, Zenon DEF RowDone
<1> QED BY <1>3, <1>6, <1>8, <1>9

\* A new account at the end of the new ones.
LEMMA AppendedAccount ==
    ASSUME NEW new \in Seq(Account), NEW x \in Account
    PROVE  /\ Append(new, x) \in Seq(Account)
           /\ DOMAIN Append(new, x) = DOMAIN new \union {Len(new) + 1}
           /\ Append(new, x)[Len(new) + 1] = x
           /\ \A k \in DOMAIN new : Append(new, x)[k] = new[k]
           /\ AddressesOf(Append(new, x)) = AddressesOf(new) \union {x.address}
<1>1. /\ Append(new, x) \in Seq(Account) /\ Len(new) \in Nat
      /\ Len(Append(new, x)) = Len(new) + 1
      /\ Append(new, x)[Len(new) + 1] = x
      /\ \A k \in 1..Len(new) : Append(new, x)[k] = new[k]
  OBVIOUS
<1>2. DOMAIN new = 1..Len(new) /\ DOMAIN Append(new, x) = 1..Len(new) + 1
  BY <1>1
<1>3. 1..Len(new) + 1 = (1..Len(new)) \union {Len(new) + 1}
  BY <1>1
<1> QED BY <1>1, <1>2, <1>3 DEF AddressesOf

LEMMA FirstRow ==
    ASSUME NEW q \in Seq(Rows), q # <<>>
    PROVE  Head(q).address \in Addresses /\ Tail(q) \in Seq(Rows)
<1>1. Head(q) \in Rows /\ Tail(q) \in Seq(Rows)
  OBVIOUS
<1> QED BY <1>1 DEF Rows

LEMMA RowDoneType ==
    ASSUME NEW s, SessionType(s), Refers(s, accounts), s.todo # <<>>,
           NEW t, t = RowDone(s, Head(s.todo))
    PROVE  SessionType(t) /\ Refers(t, accounts)
<1> DEFINE a == Head(s.todo).address
<1>1. Tail(s.todo) \in Seq(Rows) /\ a \in Addresses
  BY FirstRow DEF SessionType
<1>2. t.new \in Seq(Account) /\ t.added \subseteq AddressesOf(t.new)
  <2>1. CASE t.new = s.new /\ t.added = s.added
    BY <2>1 DEF SessionType, AddressesOf
  <2>2. CASE t.new = Append(s.new, New(a, FALSE)) /\ t.added = s.added \union {a}
    <3>1. New(a, FALSE) \in Account /\ New(a, FALSE).address = a
      BY <1>1, NewAccount DEF New
    <3>2. s.new \in Seq(Account) /\ s.added \subseteq AddressesOf(s.new)
      BY DEF SessionType, AddressesOf
    <3>3. PICK x \in Account : x = New(a, FALSE) /\ x.address = a
      BY <3>1
    <3>4. /\ Append(s.new, x) \in Seq(Account)
          /\ AddressesOf(Append(s.new, x)) = AddressesOf(s.new) \union {x.address}
      BY <3>2, AppendedAccount, Zenon
    <3> QED BY <2>2, <3>2, <3>3, <3>4
  <2> QED BY <2>1, <2>2, RowDoneIs
<1>3. /\ DOMAIN t = DOMAIN s /\ t.todo = Tail(s.todo) /\ t.looked = s.looked \union {a}
      /\ t.revived = s.revived /\ t.had = s.had /\ t.place = s.place /\ t.missed = s.missed
      /\ t.step \in {s.step, "failed"}
  BY RowDoneIs
<1> HIDE DEF a
<1>4. t.added \subseteq {t.new[k].address : k \in DOMAIN t.new}
  BY <1>2 DEF AddressesOf
<1>5. SessionType(t)
  BY <1>1, <1>2, <1>3, <1>4 DEF SessionType
<1> QED BY <1>3, <1>5 DEF Refers

\* The places of a sort are numbers.
LEMMA PlacesAreNumbers ==
    ASSUME NEW table \in Seq(Account), NEW p \in Places(table)
    PROVE  DOMAIN p \subseteq DOMAIN table /\ \A i \in DOMAIN p : p[i] \in Nat
<1> DEFINE active == {i \in DOMAIN table : table[i].is_active}
<1>1. p \in [active -> 0..Cardinality(active) - 1]
  BY DEF Places
<1>2. IsFiniteSet(1..Len(table)) /\ DOMAIN table = 1..Len(table)
  BY FS_Interval
<1>3. IsFiniteSet(active)
  BY <1>2, FS_Subset
<1>4. Cardinality(active) \in Nat
  BY <1>3, FS_CardinalityType
<1> QED BY <1>1, <1>4

\* What a session is after its sort.
LEMMA SortedIs ==
    ASSUME NEW s, SessionType(s), NEW p, NEW t, t = Sorted(s, p)
    PROVE  /\ DOMAIN t = DOMAIN s /\ t.step = "sorted" /\ t.had = NoPlaces
           /\ t.new = Placed(s, p) /\ t.place = Moved(s, p)
           /\ t.todo = s.todo /\ t.looked = s.looked /\ t.revived = s.revived
           /\ t.added = s.added /\ t.missed = s.missed
<1>0. DOMAIN s = {"step", "todo", "looked", "new", "revived", "had", "added", "place", "missed"}
  BY SessionFields DEF SessionType
<1>1. PICK q : q = [s EXCEPT !.step = "sorted"]
  OBVIOUS
<1>2. PICK r : r = [q EXCEPT !.had = NoPlaces]
  OBVIOUS
<1>3. PICK u : u = [r EXCEPT !.new = Placed(s, p)]
  OBVIOUS
<1>4. t = [u EXCEPT !.place = Moved(s, p)]
  BY <1>1, <1>2, <1>3, Zenon DEF Sorted
<1>5. /\ DOMAIN q = DOMAIN s /\ q.step = "sorted" /\ q.todo = s.todo /\ q.looked = s.looked
      /\ q.revived = s.revived /\ q.added = s.added /\ q.missed = s.missed
  BY <1>0, <1>1
<1>6. /\ DOMAIN r = DOMAIN s /\ r.step = "sorted" /\ r.todo = s.todo /\ r.looked = s.looked
      /\ r.revived = s.revived /\ r.added = s.added /\ r.missed = s.missed /\ r.had = NoPlaces
  BY <1>0, <1>2, <1>5
<1>7. /\ DOMAIN u = DOMAIN s /\ u.step = "sorted" /\ u.todo = s.todo /\ u.looked = s.looked
      /\ u.revived = s.revived /\ u.added = s.added /\ u.missed = s.missed /\ u.had = NoPlaces
      /\ u.new = Placed(s, p)
  BY <1>0, <1>3, <1>6
<1> QED BY <1>0, <1>4, <1>7

\* Sorted accounts are what they were but for their places.
LEMMA PlacedType ==
    ASSUME NEW s, SessionType(s), accounts \in Seq(Account), NEW p, \A i \in DOMAIN p : p[i] \in Nat
    PROVE  /\ Placed(s, p) \in Seq(Account) /\ DOMAIN Placed(s, p) = DOMAIN s.new
           /\ \A k \in DOMAIN s.new :
                /\ Placed(s, p)[k].address = s.new[k].address
                /\ Placed(s, p)[k].is_active = s.new[k].is_active
                /\ Len(accounts) + k \in DOMAIN p => Placed(s, p)[k].sort_order = p[Len(accounts) + k]
<1>1. PICK new \in Seq(Account) : new = s.new
  BY DEF SessionType
<1>2. PICK n \in Nat : n = Len(accounts)
  OBVIOUS
<1>3. PICK t : t = Placed(s, p)
  OBVIOUS
<1>4. t = [k \in 1..Len(new) |->
             IF n + k \in DOMAIN p THEN [new[k] EXCEPT !.sort_order = p[n + k]] ELSE new[k]]
  BY <1>1, <1>2, <1>3 DEF Placed
<1>5. \A k \in 1..Len(new) : /\ t[k] \in Account /\ t[k].address = new[k].address
                             /\ t[k].is_active = new[k].is_active
                             /\ n + k \in DOMAIN p => t[k].sort_order = p[n + k]
  <2> TAKE k \in 1..Len(new)
  <2>1. new[k] \in Account
    OBVIOUS
  <2>2. CASE n + k \in DOMAIN p
    BY <1>4, <2>1, <2>2 DEF Account
  <2>3. CASE n + k \notin DOMAIN p
    BY <1>4, <2>1, <2>3
  <2> QED BY <2>2, <2>3
<1>6. DOMAIN t = 1..Len(new) /\ DOMAIN new = 1..Len(new) /\ Len(new) \in Nat
  BY <1>4
<1>7. t \in [1..Len(new) -> Account]
  BY <1>4, <1>5, <1>6
<1>8. t \in Seq(Account)
  BY <1>6, <1>7
<1> QED BY <1>1, <1>2, <1>3, <1>5, <1>6, <1>8

\* What the sort's query returns.
LEMMA ListedType ==
    ASSUME accounts \in Seq(Account), NEW s, SessionType(s), Refers(s, accounts)
    PROVE  Listed(s) \in Seq(Account)
<1>1. accounts \o s.new \in Seq(Account) /\ Len(accounts \o s.new) \in Nat
  BY DEF SessionType
<1>2. \A i \in 1..Len(accounts \o s.new) : i \in s.revived => accounts[i] \in Account
  BY DEF Refers
<1>3. ASSUME NEW i \in 1..Len(accounts \o s.new) PROVE Listed(s)[i] \in Account
  <2>1. (accounts \o s.new)[i] \in Account
    BY <1>1
  <2>2. CASE i \in s.revived
    <3>1. Listed(s)[i] = [accounts[i] EXCEPT !.is_active = TRUE]
      BY <2>2 DEF Listed
    <3>2. accounts[i] \in Account
      BY <1>2, <2>2
    <3>3. [accounts[i] EXCEPT !.is_active = TRUE] \in Account
      BY <3>2 DEF Account
    <3> QED BY <3>1, <3>3
  <2>3. CASE i \notin s.revived
    BY <2>1, <2>3 DEF Listed
  <2> QED BY <2>2, <2>3
<1>4. Listed(s) \in [1..Len(accounts \o s.new) -> Account]
  BY <1>3 DEF Listed
<1> QED BY <1>1, <1>4

\* A session that has sorted is about the accounts it was about.
LEMMA SortedType ==
    ASSUME NEW s, SessionType(s), Refers(s, accounts), accounts \in Seq(Account),
           NEW p \in Places(Listed(s)), NEW t, t = Sorted(s, p)
    PROVE  /\ SessionType(t) /\ Refers(t, accounts)
           /\ t.looked = s.looked /\ t.added = s.added /\ DOMAIN t.new = DOMAIN s.new
           /\ \A k \in DOMAIN s.new : t.new[k].address = s.new[k].address
<1>1. \A i \in DOMAIN p : p[i] \in Nat
  BY ListedType, PlacesAreNumbers
<1>2. Moved(s, p) \in [DOMAIN Moved(s, p) -> Nat] /\ DOMAIN Moved(s, p) \subseteq DOMAIN accounts
  BY <1>1 DEF Moved
<1>3. /\ Placed(s, p) \in Seq(Account) /\ DOMAIN Placed(s, p) = DOMAIN s.new
      /\ \A k \in DOMAIN s.new : Placed(s, p)[k].address = s.new[k].address
  BY <1>1, PlacedType
<1>4. t.added \subseteq {t.new[k].address : k \in DOMAIN t.new}
  <2>1. t.new = Placed(s, p) /\ t.added = s.added
    BY SortedIs
  <2>2. s.added \subseteq {s.new[k].address : k \in DOMAIN s.new}
    BY DEF SessionType
  <2> QED BY <1>3, <2>1, <2>2
<1>5. DOMAIN NoPlaces = {}
  BY DEF NoPlaces
<1>6. SessionType(t)
  BY <1>2, <1>3, <1>4, SortedIs DEF SessionType
<1>7. Refers(t, accounts)
  BY <1>2, <1>5, SortedIs DEF Refers
<1> QED BY <1>3, <1>6, <1>7, SortedIs

\* A session that is at some step is one.
LEMMA ActiveSession ==
    ASSUME RegistryTypeOK, NEW c \in Clients, session[c].step # "none"
    PROVE  /\ session[c] # NoSession /\ SessionType(session[c]) /\ Refers(session[c], accounts)
           /\ accounts \in Seq(Account)
<1>1. session[c] # NoSession
  BY DEF NoSession
<1> QED BY <1>1 DEF RegistryTypeOK

LEMMA SortsIs ==
    ASSUME RegistryTypeOK, NEW c \in Clients, Sorts(c)
    PROVE  /\ session[c] # NoSession
           /\ SessionType(session[c]) /\ Refers(session[c], accounts) /\ accounts \in Seq(Account)
           /\ \E p \in Places(Listed(session[c])) : session' = [session EXCEPT ![c] = Sorted(session[c], p)]
           /\ UNCHANGED <<accounts, requests, doubled, untidy, reported>>
<1>1. session[c].step # "none"
  BY DEF Sorts
<1>2. \E p \in Places(Listed(session[c])) : session' = [session EXCEPT ![c] = Sorted(session[c], p)]
  BY Zenon DEF Sorts
<1>3. UNCHANGED <<accounts, requests, doubled, untidy, reported>>
  BY DEF Sorts, registryHistory
<1> QED BY <1>1, <1>2, <1>3, ActiveSession

LEMMA SortsType == ASSUME RegistryTypeOK, NEW c \in Clients, Sorts(c) PROVE RegistryTypeOK'
<1>1. PICK p \in Places(Listed(session[c])) : session' = [session EXCEPT ![c] = Sorted(session[c], p)]
  BY SortsIs
<1>2. SessionType(Sorted(session[c], p)) /\ Refers(Sorted(session[c], p), accounts)
  BY SortsIs, SortedType
<1> QED BY <1>1, <1>2, SortsIs, SessionStep DEF RegistryTypeOK

\* Sessions that have missed a change are otherwise what they were.
LEMMA MissingIs ==
    ASSUME RegistryTypeOK, NEW d \in Clients, NEW t, t = Missing[d] \/ t = session[d]
    PROVE  /\ t = NoSession <=> session[d] = NoSession
           /\ session[d] # NoSession =>
                /\ SessionType(t)
                /\ t.looked = session[d].looked /\ t.new = session[d].new /\ t.added = session[d].added
                /\ t.revived = session[d].revived /\ t.place = session[d].place /\ t.had = session[d].had
<1>1. CASE t = session[d]
  BY <1>1 DEF RegistryTypeOK
<1>2. CASE t = [session[d] EXCEPT !.missed = TRUE] /\ session[d] # NoSession
  <2>1. PICK s : s = session[d]
    OBVIOUS
  <2>2. SessionType(s) /\ DOMAIN s = {"step", "todo", "looked", "new", "revived", "had", "added", "place", "missed"}
    BY <1>2, <2>1, SessionFields DEF RegistryTypeOK, SessionType
  <2>3. t = [s EXCEPT !.missed = TRUE]
    BY <1>2, <2>1
  <2>4. /\ DOMAIN t = DOMAIN s /\ t.step = s.step /\ t.todo = s.todo /\ t.looked = s.looked
        /\ t.new = s.new /\ t.revived = s.revived /\ t.had = s.had /\ t.added = s.added
        /\ t.place = s.place /\ t.missed = TRUE
    BY <2>2, <2>3
  <2>5. SessionType(t)
    <3>1. s.added \subseteq {s.new[k].address : k \in DOMAIN s.new}
      BY <2>2 DEF SessionType
    <3>2. t.added \subseteq {t.new[k].address : k \in DOMAIN t.new}
      BY <2>4, <3>1
    <3> QED BY <2>2, <2>4, <3>2 DEF SessionType
  <2>6. t # NoSession
    BY <2>2, <2>4 DEF NoSession, SessionType
  <2> QED BY <1>2, <2>1, <2>4, <2>5, <2>6
<1>3. Missing[d] = session[d] \/ (session[d] # NoSession /\ Missing[d] = [session[d] EXCEPT !.missed = TRUE])
  BY DEF Missing, HasRead
<1> QED BY <1>1, <1>2, <1>3

\* The table as a session leaves it: the old accounts and the new.
LEMMA WrittenType ==
    ASSUME accounts \in Seq(Account), NEW s, SessionType(s), NEW t, t = Written(s)
    PROVE  /\ t \in Seq(Account)
           /\ DOMAIN accounts \subseteq DOMAIN t
           /\ \A i \in DOMAIN accounts :
                /\ t[i].address = accounts[i].address
                /\ t[i].is_active = (accounts[i].is_active \/ i \in s.revived)
                /\ t[i].sort_order = IF i \in DOMAIN s.place THEN s.place[i] ELSE accounts[i].sort_order
           /\ \A i \in DOMAIN t \ DOMAIN accounts :
                i - Len(accounts) \in DOMAIN s.new /\ t[i] = s.new[i - Len(accounts)]
           /\ \A k \in DOMAIN s.new : Len(accounts) + k \in DOMAIN t /\ t[Len(accounts) + k] = s.new[k]
<1> DEFINE x(i) == [accounts[i] EXCEPT !.sort_order = IF i \in DOMAIN s.place THEN s.place[i] ELSE @,
                                       !.is_active = @ \/ i \in s.revived]
<1>1. PICK old : old = [i \in 1..Len(accounts) |-> x(i)]
  OBVIOUS
<1>2. ASSUME NEW i \in 1..Len(accounts)
      PROVE  /\ old[i] \in Account /\ old[i].address = accounts[i].address
             /\ old[i].is_active = (accounts[i].is_active \/ i \in s.revived)
             /\ old[i].sort_order = IF i \in DOMAIN s.place THEN s.place[i] ELSE accounts[i].sort_order
  <2>1. accounts[i] \in Account
    OBVIOUS
  <2>2. PICK o \in Nat : o = IF i \in DOMAIN s.place THEN s.place[i] ELSE accounts[i].sort_order
    BY <2>1 DEF SessionType, Account
  <2>3. PICK b \in BOOLEAN : b = (accounts[i].is_active \/ i \in s.revived)
    OBVIOUS
  <2>4. PICK y : y = [accounts[i] EXCEPT !.sort_order = o]
    OBVIOUS
  <2>5. y \in Account /\ y.address = accounts[i].address /\ y.sort_order = o
    BY <2>1, <2>4 DEF Account
  <2>6. x(i) = [y EXCEPT !.is_active = b]
    BY <2>2, <2>3, <2>4, Zenon
  <2> HIDE DEF x
  <2>7. x(i) \in Account /\ x(i).address = accounts[i].address /\ x(i).is_active = b /\ x(i).sort_order = o
    BY <2>5, <2>6 DEF Account
  <2> QED BY <1>1, <2>2, <2>3, <2>7
<1> HIDE DEF x
<1>3. Len(accounts) \in Nat /\ DOMAIN accounts = 1..Len(accounts)
  OBVIOUS
<1>4. old \in Seq(Account) /\ Len(old) = Len(accounts)
  <2>1. old \in [1..Len(accounts) -> Account]
    BY <1>1, <1>2
  <2> QED BY <1>3, <2>1
<1>5. PICK new \in Seq(Account) : new = s.new
  BY DEF SessionType
<1>6. t = old \o new
  BY <1>1, <1>5 DEF Written, x
<1>7. /\ t \in Seq(Account) /\ Len(t) = Len(accounts) + Len(new)
      /\ \A i \in 1..Len(accounts) : t[i] = old[i]
      /\ \A i \in Len(accounts) + 1..Len(t) : t[i] = new[i - Len(accounts)]
  BY <1>3, <1>4, <1>6
<1>8. /\ DOMAIN t = 1..Len(t) /\ DOMAIN new = 1..Len(new) /\ Len(new) \in Nat
  BY <1>7
<1>9. \A i \in DOMAIN t \ DOMAIN accounts : i - Len(accounts) \in DOMAIN new /\ t[i] = new[i - Len(accounts)]
  BY <1>3, <1>7, <1>8
<1>10. \A k \in DOMAIN new : Len(accounts) + k \in DOMAIN t /\ t[Len(accounts) + k] = new[k]
  BY <1>3, <1>7, <1>8
<1> QED BY <1>2, <1>3, <1>5, <1>7, <1>8, <1>9, <1>10

LEMMA CommitsIs ==
    ASSUME RegistryTypeOK, NEW c \in Clients, Commits(c)
    PROVE  /\ session[c] # NoSession /\ SessionType(session[c]) /\ Refers(session[c], accounts)
           /\ accounts \in Seq(Account) /\ accounts' = Written(session[c])
           /\ DOMAIN session' = Clients /\ session'[c] = NoSession
           /\ \A d \in Clients \ {c} : session'[d] = Missing[d] \/ session'[d] = session[d]
           /\ reported' = reported \union session[c].added
           /\ doubled' = doubled /\ requests' = requests /\ untidy' = session[c].missed
<1>1. session[c].step # "none"
  BY DEF Commits
<1>2. /\ accounts' = Written(session[c]) /\ reported' = reported \union session[c].added
      /\ doubled' = doubled /\ requests' = requests /\ untidy' = session[c].missed
  BY DEF Commits
<1>3. DOMAIN session = Clients /\ DOMAIN Missing = Clients
  BY DEF RegistryTypeOK, Missing
<1>4. session' = [session EXCEPT ![c] = NoSession] \/ session' = [Missing EXCEPT ![c] = NoSession]
  BY Zenon DEF Commits
<1> QED BY <1>1, <1>2, <1>3, <1>4, ActiveSession

LEMMA CommitsType == ASSUME RegistryTypeOK, NEW c \in Clients, Commits(c) PROVE RegistryTypeOK'
<1> DEFINE s == session[c]
<1>1. accounts' \in Seq(Account) /\ DOMAIN accounts \subseteq DOMAIN accounts'
  BY CommitsIs, WrittenType
<1>2. ASSUME NEW d \in Clients
      PROVE  session'[d] = NoSession \/ (SessionType(session'[d]) /\ Refers(session'[d], accounts'))
  <2>1. CASE d = c
    BY <2>1, CommitsIs
  <2>2. CASE d # c /\ session[d] = NoSession
    BY <2>2, CommitsIs, MissingIs
  <2>3. CASE d # c /\ session[d] # NoSession
    <3>1. SessionType(session[d]) /\ Refers(session[d], accounts)
      BY <2>3 DEF RegistryTypeOK
    <3>2. session'[d] = Missing[d] \/ session'[d] = session[d]
      BY <2>3, CommitsIs
    <3>3. /\ SessionType(session'[d]) /\ session'[d].revived = session[d].revived
          /\ session'[d].place = session[d].place /\ session'[d].had = session[d].had
      BY <2>3, <3>2, MissingIs
    <3> QED BY <1>1, <3>1, <3>3 DEF Refers
  <2> QED BY <2>1, <2>2, <2>3
<1>3. reported' \subseteq Addresses
  <2>1. PICK new \in Seq(Account) : new = s.new
    BY CommitsIs DEF SessionType
  <2>2. \A k \in DOMAIN new : new[k].address \in Addresses
    <3>1. \A k \in DOMAIN new : new[k] \in Account
      OBVIOUS
    <3> QED BY <3>1 DEF Account
  <2>3. s.added \subseteq {new[k].address : k \in DOMAIN new}
    BY <2>1, CommitsIs DEF SessionType
  <2>4. s.added \subseteq Addresses
    BY <2>2, <2>3
  <2> QED BY <2>4, CommitsIs DEF RegistryTypeOK
<1>4. untidy' \in BOOLEAN
  BY CommitsIs DEF SessionType
<1> QED BY <1>1, <1>2, <1>3, <1>4, CommitsIs DEF RegistryTypeOK

\* Requests that change the accounts they find.
LEMMA ChangesType ==
    ASSUME RegistryTypeOK, NEW table \in Seq(Account), DOMAIN table = DOMAIN accounts,
           Changes(table), untidy' \in BOOLEAN
    PROVE  RegistryTypeOK'
<1>1. /\ accounts' = table /\ session' = Missing /\ requests' \in 0..MaxRequests
      /\ doubled' = doubled /\ reported' = reported
  BY RegistryAssumptions DEF Changes, Serving, RegistryTypeOK
<1>2. DOMAIN session' = Clients
  BY <1>1 DEF Missing
<1>3. ASSUME NEW d \in Clients
      PROVE  session'[d] = NoSession \/ (SessionType(session'[d]) /\ Refers(session'[d], accounts'))
  <2>1. CASE session[d] = NoSession
    BY <1>1, <2>1, MissingIs
  <2>2. CASE session[d] # NoSession
    <3>1. Refers(session[d], accounts)
      BY <2>2 DEF RegistryTypeOK
    <3>2. /\ SessionType(session'[d]) /\ session'[d].revived = session[d].revived
          /\ session'[d].place = session[d].place /\ session'[d].had = session[d].had
      BY <1>1, <2>2, MissingIs
    <3> QED BY <1>1, <3>1, <3>2 DEF Refers
  <2> QED BY <2>1, <2>2
<1> QED BY <1>1, <1>2, <1>3 DEF RegistryTypeOK

\* The accounts an address is known by.
LEMMA KnownIs ==
    ASSUME accounts \in Seq(Account), NEW new \in Seq(Account), NEW a
    PROVE  /\ Known(new, a) = {} => a \notin AddressesOf(accounts) /\ a \notin AddressesOf(new)
           /\ new = <<>> => Known(new, a) \subseteq DOMAIN accounts
<1>0. accounts \o new \in Seq(Account)
  OBVIOUS
<1>1. PICK t \in Seq(Account) : t = accounts \o new
  BY <1>0
<1>2. /\ Len(accounts) \in Nat /\ Len(new) \in Nat /\ Len(t) = Len(accounts) + Len(new)
      /\ \A i \in 1..Len(accounts) : t[i] = accounts[i]
      /\ \A k \in 1..Len(new) : t[Len(accounts) + k] = new[k]
  BY <1>1
<1>3. DOMAIN accounts = 1..Len(accounts) /\ DOMAIN new = 1..Len(new)
  OBVIOUS
<1>4. Known(new, a) = {i \in 1..Len(t) : t[i].address = a}
  BY <1>1 DEF Known
<1>5. ASSUME Known(new, a) = {} PROVE a \notin AddressesOf(accounts) /\ a \notin AddressesOf(new)
  <2>1. \A i \in 1..Len(t) : t[i].address # a
    BY <1>4, <1>5
  <2>2. \A i \in 1..Len(accounts) : accounts[i].address # a
    BY <1>2, <2>1
  <2>3. \A k \in 1..Len(new) : new[k].address # a
    BY <1>2, <2>1
  <2> QED BY <1>3, <2>2, <2>3 DEF AddressesOf
<1>6. new = <<>> => Len(new) = 0
  OBVIOUS
<1> QED BY <1>2, <1>3, <1>4, <1>5, <1>6

\* The sessions of an account that is added, and of one that is connected again.
LEMMA AddingType ==
    ASSUME NEW a \in Addresses, NEW cap \in BOOLEAN,
           NEW s, s = NewlyAdded(a, cap)
    PROVE  /\ SessionType(s) /\ Refers(s, accounts)
           /\ s.looked = {a} /\ s.new = <<New(a, cap)>> /\ s.added = {} /\ Fresh(s)
<1>1. PICK o : o = Opened("sort", <<>>, {a})
  OBVIOUS
<1>2. /\ DOMAIN o = {"step", "todo", "looked", "new", "revived", "had", "added", "place", "missed"}
      /\ o.step = "sort" /\ o.todo = <<>> /\ o.looked = {a} /\ o.revived = {} /\ o.had = NoPlaces
      /\ o.added = {} /\ o.place = NoPlaces /\ o.missed = FALSE
  BY <1>1 DEF Opened
<1>3. PICK x \in Account : x = New(a, cap)
  BY NewAccount
<1>4. s = [o EXCEPT !.new = <<x>>]
  BY <1>1, <1>3, Zenon DEF NewlyAdded
<1>5. /\ DOMAIN s = DOMAIN o /\ s.step = "sort" /\ s.todo = <<>> /\ s.looked = {a} /\ s.revived = {}
      /\ s.had = NoPlaces /\ s.added = {} /\ s.place = NoPlaces /\ s.missed = FALSE /\ s.new = <<x>>
  BY <1>2, <1>4
<1>6. DOMAIN NoPlaces = {} /\ NoPlaces \in [{} -> Nat] /\ <<x>> \in Seq(Account) /\ <<>> \in Seq(Rows)
  BY DEF NoPlaces
<1>7. DOMAIN s = DOMAIN Opened("sort", <<>>, {})
  BY <1>2, <1>5, SessionFields
<1> QED BY <1>3, <1>5, <1>6, <1>7 DEF SessionType, Refers, Fresh

LEMMA RevivingType ==
    ASSUME NEW a \in Addresses, NEW known \in SUBSET DOMAIN accounts,
           NEW s, s = ConnectedAgain(a, known)
    PROVE  /\ SessionType(s) /\ Refers(s, accounts)
           /\ s.looked = {a} /\ s.new = <<>> /\ s.added = {} /\ Fresh(s)
<1> DEFINE revived == {i \in known : ~accounts[i].is_active}
           had == [i \in known |-> accounts[i].sort_order]
<1>1. PICK o : o = Opened("sort", <<>>, {a})
  OBVIOUS
<1>2. /\ DOMAIN o = {"step", "todo", "looked", "new", "revived", "had", "added", "place", "missed"}
      /\ o.step = "sort" /\ o.todo = <<>> /\ o.looked = {a} /\ o.new = <<>>
      /\ o.added = {} /\ o.place = NoPlaces /\ o.missed = FALSE
  BY <1>1 DEF Opened
<1>3. PICK q : q = [o EXCEPT !.revived = revived]
  OBVIOUS
<1>4. s = [q EXCEPT !.had = had]
  BY <1>1, <1>3, Zenon DEF ConnectedAgain
<1>5. /\ DOMAIN q = DOMAIN o /\ q.step = "sort" /\ q.todo = <<>> /\ q.looked = {a} /\ q.new = <<>>
      /\ q.revived = revived /\ q.added = {} /\ q.place = NoPlaces /\ q.missed = FALSE
  BY <1>2, <1>3
<1>6. /\ DOMAIN s = DOMAIN o /\ s.step = "sort" /\ s.todo = <<>> /\ s.looked = {a} /\ s.new = <<>>
      /\ s.revived = revived /\ s.had = had /\ s.added = {} /\ s.place = NoPlaces /\ s.missed = FALSE
  BY <1>2, <1>4, <1>5
<1>7. DOMAIN NoPlaces = {} /\ NoPlaces \in [{} -> Nat] /\ <<>> \in Seq(Account) /\ <<>> \in Seq(Rows)
  BY DEF NoPlaces
<1>8. DOMAIN s = DOMAIN Opened("sort", <<>>, {})
  BY <1>2, <1>6, SessionFields
<1> QED BY <1>6, <1>7, <1>8 DEF SessionType, Refers, Fresh

\* What a request that connects an account opens.
LEMMA ConnectsIs ==
    ASSUME RegistryTypeOK, NEW c \in Clients, NEW a \in Addresses, Connects(c, a)
    PROVE  /\ \E s : /\ Begins(c, s)
                     /\ \/ s = NoSession
                        \/ /\ SessionType(s) /\ Refers(s, accounts) /\ s.looked = {a} /\ s.added = {} /\ Fresh(s)
                           /\ \/ s.new = <<>>
                              \/ s.new = <<New(a, FALSE)>> /\ a \notin AddressesOf(accounts)
           /\ LooksUp(c, a)
           /\ UNCHANGED <<accounts, untidy, reported>>
<1> DEFINE known == Known(<<>>, a)
<1>1. LooksUp(c, a) /\ UNCHANGED <<accounts, untidy, reported>>
  BY DEF Connects
<1>2. accounts \in Seq(Account) /\ <<>> \in Seq(Account)
  BY DEF RegistryTypeOK
<1>3. known \in SUBSET DOMAIN accounts /\ (known = {} => a \notin AddressesOf(accounts))
  BY <1>2, KnownIs
<1>4. IsFiniteSet(known)
  <2>1. IsFiniteSet(DOMAIN accounts)
    BY <1>2, FS_Interval
  <2> QED BY <1>3, <2>1, FS_Subset
<1>5. known = {} \/ Cardinality(known) = 1 \/ Cardinality(known) >= 2
  <2>1. Cardinality(known) \in Nat /\ (Cardinality(known) = 0 <=> known = {})
    BY <1>4, FS_CardinalityType, FS_EmptySet
  <2> QED BY <2>1
<1>6. \/ known = {} /\ Begins(c, NewlyAdded(a, FALSE))
      \/ Begins(c, ConnectedAgain(a, known))
      \/ Begins(c, NoSession)
  BY <1>5 DEF Connects
<1>7. CASE known = {} /\ Begins(c, NewlyAdded(a, FALSE))
  BY <1>1, <1>3, <1>7, AddingType
<1>8. CASE Begins(c, ConnectedAgain(a, known))
  BY <1>1, <1>3, <1>8, RevivingType
<1>9. CASE Begins(c, NoSession)
  BY <1>1, <1>9
<1> QED BY <1>6, <1>7, <1>8, <1>9

LEMMA LooksUpType ==
    ASSUME RegistryTypeOK, NEW c \in Clients, NEW a \in Addresses, LooksUp(c, a)
    PROVE  doubled' \subseteq Addresses /\ doubled \subseteq doubled' /\ (LookedUp(c, a) => a \in doubled')
BY DEF LooksUp, RegistryTypeOK

LEMMA AddImapAccountIs ==
    ASSUME RegistryTypeOK, NEW c \in Clients, NEW a \in Addresses, NEW cap \in BOOLEAN,
           AddImapAccount(c, a, cap)
    PROVE  /\ \E s : /\ Begins(c, s) /\ SessionType(s) /\ Refers(s, accounts)
                     /\ s.looked = {a} /\ s.added = {} /\ s.new = <<New(a, cap)>> /\ Fresh(s)
           /\ doubled \subseteq doubled' /\ doubled' \subseteq Addresses
           /\ LookedUp(c, a) \/ a \in AddressesOf(accounts) => a \in doubled'
           /\ UNCHANGED <<accounts, untidy, reported>>
<1>1. PICK s : s = NewlyAdded(a, cap)
  OBVIOUS
<1>2. /\ SessionType(s) /\ Refers(s, accounts) /\ s.looked = {a} /\ s.added = {} /\ s.new = <<New(a, cap)>>
      /\ Fresh(s)
  BY <1>1, AddingType
<1>3. Begins(c, s)
  BY <1>1 DEF AddImapAccount
<1>4. /\ doubled \subseteq doubled' /\ doubled' \subseteq Addresses
      /\ LookedUp(c, a) \/ a \in AddressesOf(accounts) => a \in doubled'
  BY DEF AddImapAccount, AddressesOf, RegistryTypeOK
<1>5. UNCHANGED <<accounts, untidy, reported>>
  BY DEF AddImapAccount
<1> QED BY <1>2, <1>3, <1>4, <1>5

LEMMA ImportRowIs ==
    ASSUME RegistryTypeOK, NEW c \in Clients, ImportRow(c)
    PROVE  /\ session[c] # NoSession /\ SessionType(session[c]) /\ Refers(session[c], accounts)
           /\ accounts \in Seq(Account) /\ session[c].todo # <<>>
           /\ session' = [session EXCEPT ![c] = RowDone(session[c], Head(session[c].todo))]
           /\ Head(session[c].todo).address \in Addresses
           /\ LooksUp(c, Head(session[c].todo).address)
           /\ UNCHANGED <<accounts, requests, untidy, reported>>
<1>1. session[c].step # "none"
  BY DEF ImportRow
<1>2. /\ session[c].todo # <<>>
      /\ LooksUp(c, Head(session[c].todo).address)
      /\ UNCHANGED <<accounts, requests, untidy, reported>>
  BY DEF ImportRow
<1>3. session' = [session EXCEPT ![c] = RowDone(session[c], Head(session[c].todo))]
  BY Zenon DEF ImportRow
<1>4. Head(session[c].todo).address \in Addresses
  <2>1. PICK q \in Seq(Rows) : q = session[c].todo
    BY <1>1, ActiveSession DEF SessionType
  <2> QED BY <1>2, <2>1, FirstRow
<1> QED BY <1>1, <1>2, <1>3, <1>4, ActiveSession

\* The end of an import: its session sorts, or there is nothing to sort.
LEMMA ImportEndsIs ==
    ASSUME RegistryTypeOK, NEW c \in Clients, ImportEnds(c)
    PROVE  /\ session[c] # NoSession
           /\ \E t : /\ session' = [session EXCEPT ![c] = t]
                     /\ \/ t = NoSession
                        \/ /\ SessionType(t) /\ Refers(t, accounts)
                           /\ t.looked = session[c].looked /\ t.new = session[c].new
                           /\ t.step = "sort" /\ t.had = session[c].had /\ t.missed = session[c].missed
           /\ UNCHANGED <<accounts, requests, doubled, untidy, reported>>
<1>1. /\ session[c] # NoSession /\ SessionType(session[c]) /\ Refers(session[c], accounts)
  <2>1. session[c].step # "none"
    BY DEF ImportEnds
  <2> QED BY <2>1, ActiveSession
<1>2. UNCHANGED <<accounts, requests, doubled, untidy, reported>>
  BY DEF ImportEnds, registryHistory
<1>3. PICK s : s = session[c]
  OBVIOUS
<1>4. PICK t : t = [s EXCEPT !.step = "sort"]
  OBVIOUS
<1>5. session' = [session EXCEPT ![c] = NoSession] \/ session' = [session EXCEPT ![c] = t]
  <2>1. session' = [session EXCEPT ![c] = IF session[c].added = {} THEN NoSession
                                          ELSE [session[c] EXCEPT !.step = "sort"]]
    BY Zenon DEF ImportEnds
  <2> QED BY <1>3, <1>4, <2>1, Zenon
<1>6. /\ SessionType(t) /\ Refers(t, accounts) /\ t.looked = s.looked /\ t.new = s.new
      /\ t.step = "sort" /\ t.had = s.had /\ t.missed = s.missed
  <2>1. DOMAIN s = {"step", "todo", "looked", "new", "revived", "had", "added", "place", "missed"}
    BY <1>1, <1>3, SessionFields DEF SessionType
  <2>2. /\ DOMAIN t = DOMAIN s /\ t.step = "sort" /\ t.todo = s.todo /\ t.looked = s.looked
        /\ t.new = s.new /\ t.revived = s.revived /\ t.had = s.had /\ t.added = s.added
        /\ t.place = s.place /\ t.missed = s.missed
    BY <1>4, <2>1
  <2>3. s.added \subseteq {s.new[k].address : k \in DOMAIN s.new}
    BY <1>1, <1>3 DEF SessionType
  <2>4. t.added \subseteq {t.new[k].address : k \in DOMAIN t.new}
    BY <2>2, <2>3
  <2> QED BY <1>1, <1>3, <2>2, <2>4 DEF SessionType, Refers
<1> QED BY <1>1, <1>2, <1>3, <1>5, <1>6

\* The other steps that open a session or end one.
LEMMA OpeningIs ==
    ASSUME RegistryTypeOK, NEW c \in Clients, SortAz(c) \/ \E file \in Files : ImportStarts(c, file)
    PROVE  /\ \E s : /\ Begins(c, s) /\ SessionType(s) /\ Refers(s, accounts)
                     /\ s.looked = {} /\ s.new = <<>> /\ s.added = {} /\ Fresh(s)
           /\ UNCHANGED <<accounts, doubled, untidy, reported>>
<1>1. CASE SortAz(c)
  <2>1. <<>> \in Seq(Rows)
    OBVIOUS
  <2>2. Begins(c, Opened("sort", <<>>, {})) /\ UNCHANGED <<accounts, doubled, untidy, reported>>
    BY <1>1 DEF SortAz, registryHistory
  <2>3. /\ Opened("sort", <<>>, {}).looked = {} /\ Opened("sort", <<>>, {}).new = <<>>
        /\ Opened("sort", <<>>, {}).added = {} /\ Fresh(Opened("sort", <<>>, {}))
    BY DEF Opened, Fresh, NoPlaces
  <2> QED BY <2>1, <2>2, <2>3, OpenedType
<1>2. ASSUME NEW file \in Files, ImportStarts(c, file)
      PROVE  /\ Begins(c, Opened("import", file, {})) /\ UNCHANGED <<accounts, doubled, untidy, reported>>
             /\ SessionType(Opened("import", file, {})) /\ Refers(Opened("import", file, {}), accounts)
             /\ Opened("import", file, {}).looked = {} /\ Opened("import", file, {}).new = <<>>
             /\ Opened("import", file, {}).added = {} /\ Fresh(Opened("import", file, {}))
  <2>1. file \in Seq(Rows)
    BY RegistryAssumptions
  <2>2. Begins(c, Opened("import", file, {})) /\ UNCHANGED <<accounts, doubled, untidy, reported>>
    BY <1>2 DEF ImportStarts, registryHistory
  <2>3. /\ Opened("import", file, {}).looked = {} /\ Opened("import", file, {}).new = <<>>
        /\ Opened("import", file, {}).added = {} /\ Fresh(Opened("import", file, {}))
    BY DEF Opened, Fresh, NoPlaces
  <2> QED BY <2>1, <2>2, <2>3, OpenedType
<1> QED BY <1>1, <1>2

LEMMA ClosingIs ==
    ASSUME RegistryTypeOK, NEW c \in Clients, ImportFails(c) \/ Breaks(c)
    PROVE  /\ session' = [session EXCEPT ![c] = NoSession]
           /\ UNCHANGED <<accounts, requests, doubled, untidy, reported>>
BY DEF ImportFails, Breaks, registryHistory

\* Changes by hand leave the addresses as they are.
LEMMA ManualIs ==
    ASSUME RegistryTypeOK, Manual
    PROVE  \E table \in Seq(Account) :
             /\ DOMAIN table = DOMAIN accounts
             /\ \A i \in DOMAIN accounts : table[i].address = accounts[i].address
             /\ Changes(table)
             /\ untidy' \in BOOLEAN
<1>0. accounts \in Seq(Account) /\ DOMAIN accounts = 1..Len(accounts) /\ Len(accounts) \in Nat
  BY DEF RegistryTypeOK
<1>1. ASSUME NEW table, DOMAIN table = DOMAIN accounts,
             \A i \in DOMAIN accounts : table[i] \in Account,
             table = [i \in DOMAIN accounts |-> table[i]]
      PROVE  table \in Seq(Account)
  <2>1. table \in [1..Len(accounts) -> Account]
    BY <1>0, <1>1
  <2> QED BY <1>0, <2>1
<1>2. ASSUME NEW i \in DOMAIN accounts, NEW x \in Account, x.address = accounts[i].address
      PROVE  /\ [accounts EXCEPT ![i] = x] \in Seq(Account)
             /\ DOMAIN [accounts EXCEPT ![i] = x] = DOMAIN accounts
             /\ \A j \in DOMAIN accounts : [accounts EXCEPT ![i] = x][j].address = accounts[j].address
  BY <1>0, <1>2
<1>3. \A i \in DOMAIN accounts : accounts[i] \in Account
  BY <1>0
<1>4. ASSUME NEW i \in DOMAIN accounts, NEW active \in BOOLEAN,
             Changes([accounts EXCEPT ![i].is_active = active])
      PROVE  \E table \in Seq(Account) :
               /\ DOMAIN table = DOMAIN accounts
               /\ \A j \in DOMAIN accounts : table[j].address = accounts[j].address
               /\ Changes(table)
  <2>1. PICK x : x = [accounts[i] EXCEPT !.is_active = active]
    OBVIOUS
  <2>2. x \in Account /\ x.address = accounts[i].address
    BY <1>3, <2>1 DEF Account
  <2>3. Changes([accounts EXCEPT ![i] = x])
    BY <1>4, <2>1, Zenon
  <2> QED BY <1>2, <2>2, <2>3
<1>5. ASSUME NEW i \in DOMAIN accounts, NEW n \in Nat,
             Changes([accounts EXCEPT ![i].sort_order = n])
      PROVE  \E table \in Seq(Account) :
               /\ DOMAIN table = DOMAIN accounts
               /\ \A j \in DOMAIN accounts : table[j].address = accounts[j].address
               /\ Changes(table)
  <2>1. PICK x : x = [accounts[i] EXCEPT !.sort_order = n]
    OBVIOUS
  <2>2. x \in Account /\ x.address = accounts[i].address
    BY <1>3, <2>1 DEF Account
  <2>3. Changes([accounts EXCEPT ![i] = x])
    BY <1>5, <2>1, Zenon
  <2> QED BY <1>2, <2>2, <2>3
<1>6. ASSUME NEW list \in Lists, ReorderAccounts(list)
      PROVE  \E table \in Seq(Account) :
               /\ DOMAIN table = DOMAIN accounts
               /\ \A j \in DOMAIN accounts : table[j].address = accounts[j].address
               /\ Changes(table)
  <2> DEFINE last(i) == {k \in DOMAIN list : list[k] = i /\ \A l \in DOMAIN list : list[l] = i => l <= k}
  <2>1. PICK table : table = [i \in DOMAIN accounts |->
                               IF accounts[i].is_active /\ last(i) # {}
                               THEN [accounts[i] EXCEPT !.sort_order = (CHOOSE k \in last(i) : TRUE) - 1]
                               ELSE accounts[i]]
    OBVIOUS
  <2>2. Changes(table)
    BY <1>6, <2>1, Zenon DEF ReorderAccounts
  <2>3. \A k \in DOMAIN list : k - 1 \in Nat
    BY DEF Lists
  <2>4. ASSUME NEW i \in DOMAIN accounts PROVE table[i] \in Account /\ table[i].address = accounts[i].address
    <3>1. CASE accounts[i].is_active /\ last(i) # {}
      <4>1. PICK n \in Nat : n = (CHOOSE k \in last(i) : TRUE) - 1
        BY <2>3, <3>1
      <4>2. table[i] = [accounts[i] EXCEPT !.sort_order = n]
        BY <2>1, <3>1, <4>1
      <4> QED BY <1>3, <4>2 DEF Account
    <3>2. CASE ~(accounts[i].is_active /\ last(i) # {})
      <4>1. table[i] = accounts[i]
        BY <2>1, <3>2
      <4> QED BY <1>3, <4>1
    <3> QED BY <3>1, <3>2
  <2>5. DOMAIN table = DOMAIN accounts /\ table = [i \in DOMAIN accounts |-> table[i]]
    BY <2>1
  <2> QED BY <1>1, <2>2, <2>4, <2>5
<1>7. untidy' \in BOOLEAN
  BY DEF Manual, ReorderAccounts, RemoveAccount, ActivateAccount, UpdateOrder, ReactivateAccount, RegistryTypeOK
<1>8. \/ \E list \in Lists : ReorderAccounts(list)
      \/ \E i \in DOMAIN accounts : \E active \in BOOLEAN : Changes([accounts EXCEPT ![i].is_active = active])
      \/ \E i \in DOMAIN accounts : \E n \in Nat : Changes([accounts EXCEPT ![i].sort_order = n])
  <2>1. 0..MaxListed \subseteq Nat
    BY RegistryAssumptions
  <2> QED BY <2>1, Zenon DEF Manual, RemoveAccount, ActivateAccount, UpdateOrder, ReactivateAccount
<1> QED BY <1>4, <1>5, <1>6, <1>7, <1>8

LEMMA RegistryTypeStep == RegistryTypeOK /\ [RegistryNext]_registryVars => RegistryTypeOK'
<1> SUFFICES ASSUME RegistryTypeOK, [RegistryNext]_registryVars PROVE RegistryTypeOK'
  OBVIOUS
<1>0. /\ requests \in 0..MaxRequests /\ doubled \subseteq Addresses /\ reported \subseteq Addresses
      /\ untidy \in BOOLEAN
  BY DEF RegistryTypeOK
<1>1. CASE UNCHANGED registryVars
  BY <1>1 DEF registryVars, registryHistory, RegistryTypeOK
<1>2. ASSUME NEW c \in Clients, NEW a \in Addresses, Connects(c, a) PROVE RegistryTypeOK'
  BY <1>0, <1>2, ConnectsIs, LooksUpType, BeginsStep
<1>3. ASSUME NEW c \in Clients, NEW a \in Addresses, NEW cap \in BOOLEAN, AddImapAccount(c, a, cap)
      PROVE  RegistryTypeOK'
  BY <1>0, <1>3, AddImapAccountIs, BeginsStep
<1>4. ASSUME NEW c \in Clients, SortAz(c) \/ \E file \in Files : ImportStarts(c, file) PROVE RegistryTypeOK'
  BY <1>0, <1>4, OpeningIs, BeginsStep
<1>5. ASSUME NEW c \in Clients, ImportRow(c) PROVE RegistryTypeOK'
  <2>1. PICK t : t = RowDone(session[c], Head(session[c].todo))
    OBVIOUS
  <2>2. SessionType(t) /\ Refers(t, accounts) /\ session' = [session EXCEPT ![c] = t]
    BY <1>5, <2>1, ImportRowIs, RowDoneType
  <2>3. doubled' \subseteq Addresses /\ UNCHANGED <<accounts, requests, untidy, reported>>
    BY <1>5, ImportRowIs, LooksUpType
  <2> QED BY <1>0, <2>2, <2>3, SessionStep
<1>6. ASSUME NEW c \in Clients, ImportEnds(c) PROVE RegistryTypeOK'
  BY <1>0, <1>6, ImportEndsIs, SessionStep
<1>7. ASSUME NEW c \in Clients, ImportFails(c) \/ Breaks(c) PROVE RegistryTypeOK'
  BY <1>0, <1>7, ClosingIs, SessionStep
<1>8. CASE Manual
  BY <1>8, ManualIs, ChangesType
<1> QED BY <1>1, <1>2, <1>3, <1>4, <1>5, <1>6, <1>7, <1>8, SortsType, CommitsType
        DEF RegistryNext, Additions, OAuthCallback, ConnectMailbox

LEMMA RegistryInitialTypes == RegistryInit => RegistryTypeOK
<1> SUFFICES ASSUME RegistryInit PROVE RegistryTypeOK
  OBVIOUS
<1>1. DOMAIN session = Clients /\ \A c \in Clients : session[c] = NoSession
  BY DEF RegistryInit
<1>2. accounts \in Seq(Account) /\ requests \in 0..MaxRequests
  BY RegistryAssumptions DEF RegistryInit
<1> QED BY <1>1, <1>2 DEF RegistryInit, RegistryTypeOK

\* Every state has the types of AccountRegistry: above all, a session's accounts are in the
\* table when it writes them, and what an import will report is among what it will add
\* (accounts.py 96-103, import_accounts.py 170-232).
THEOREM RegistryTypeCorrect == RegistrySpec => []RegistryTypeOK
BY RegistryInitialTypes, RegistryTypeStep, PTL DEF RegistrySpec

-----------------------------------------------------------------------------
(* Every step but a commit leaves the addresses in the table as they are.  *)

LEMMA AddressesKept ==
    ASSUME RegistryTypeOK, [RegistryNext]_registryVars, ~\E c \in Clients : Commits(c)
    PROVE  /\ AddressesOf(accounts') = AddressesOf(accounts)
           /\ DOMAIN accounts' = DOMAIN accounts
           /\ \A i \in DOMAIN accounts : accounts'[i].address = accounts[i].address
           /\ reported' = reported
<1>1. /\ DOMAIN accounts' = DOMAIN accounts
      /\ \A i \in DOMAIN accounts : accounts'[i].address = accounts[i].address
      /\ reported' = reported
  <2>1. CASE UNCHANGED registryVars
    BY <2>1 DEF registryVars, registryHistory
  <2>2. CASE Manual
    BY <2>2, ManualIs DEF Changes
  <2>3. ASSUME NEW c \in Clients, Additions(c) PROVE UNCHANGED <<accounts, reported>>
    <3>1. ~Commits(c)
      OBVIOUS
    <3> QED BY <2>3, <3>1, Zenon
            DEF Additions, OAuthCallback, ConnectMailbox, Connects, AddImapAccount, ImportStarts,
                ImportRow, ImportEnds, ImportFails, SortAz, Sorts, Breaks, registryHistory
  <2> QED BY <2>1, <2>2, <2>3 DEF RegistryNext
<1> QED BY <1>1 DEF AddressesOf

LEMMA AddressesCommitted ==
    ASSUME RegistryTypeOK, NEW c \in Clients, Commits(c)
    PROVE  AddressesOf(accounts') = AddressesOf(accounts) \union AddressesOf(session[c].new)
<1>1. PICK s : s = session[c]
  OBVIOUS
<1>2. PICK t : t = accounts'
  OBVIOUS
<1>3. /\ DOMAIN accounts \subseteq DOMAIN t
      /\ \A i \in DOMAIN accounts : t[i].address = accounts[i].address
      /\ \A i \in DOMAIN t \ DOMAIN accounts :
           i - Len(accounts) \in DOMAIN s.new /\ t[i] = s.new[i - Len(accounts)]
      /\ \A k \in DOMAIN s.new : Len(accounts) + k \in DOMAIN t /\ t[Len(accounts) + k] = s.new[k]
  BY <1>1, <1>2, CommitsIs, WrittenType
<1>4. AddressesOf(t) = AddressesOf(accounts) \union AddressesOf(s.new)
  BY <1>3 DEF AddressesOf
<1> QED BY <1>1, <1>2, <1>4

LEMMA ReportedStep ==
    ASSUME RegistryTypeOK, ReportedIsStored, [RegistryNext]_registryVars
    PROVE  ReportedIsStored'
<1>1. reported \subseteq AddressesOf(accounts)
  BY DEF ReportedIsStored, AddressesOf
<1>2. reported' \subseteq AddressesOf(accounts')
  <2>1. CASE ~\E c \in Clients : Commits(c)
    BY <1>1, <2>1, AddressesKept
  <2>2. ASSUME NEW c \in Clients, Commits(c) PROVE reported' \subseteq AddressesOf(accounts')
    <3>1. session[c].added \subseteq AddressesOf(session[c].new)
      BY <2>2, CommitsIs DEF SessionType, AddressesOf
    <3> QED BY <1>1, <2>2, <3>1, CommitsIs, AddressesCommitted
  <2> QED BY <2>1, <2>2
<1> QED BY <1>2 DEF ReportedIsStored, AddressesOf

\* What an import has reported as added is there, for any files, failing rows and number of
\* imports at one time (import_accounts.py 170-232): the report is that of the session
\* that commits, and accounts are never taken out of the table.
THEOREM WhatIsReportedIsStored == RegistrySpec => []ReportedIsStored
<1>1. RegistryInit => ReportedIsStored
  BY DEF RegistryInit, ReportedIsStored
<1>2. RegistryTypeOK /\ ReportedIsStored /\ [RegistryNext]_registryVars => ReportedIsStored'
  BY ReportedStep
<1> QED BY <1>1, <1>2, RegistryTypeCorrect, PTL DEF RegistrySpec

-----------------------------------------------------------------------------
(* Two accounts of one address.  What a session is about to add it has     *)
(* looked up; what two sessions have looked up is marked; and what it is   *)
(* about to add is in the table, or is added twice, only if it is marked.  *)

LooksFirst == \A c \in Busy : AddressesOf(session[c].new) \subseteq session[c].looked

OverlapsAreDoubled ==
    \A c, d \in Busy : c # d => session[c].looked \intersect session[d].looked \subseteq doubled

NewAreNew == \A c \in Busy : AddressesOf(session[c].new) \intersect AddressesOf(accounts) \subseteq doubled

\* A table in which only marked addresses are twice.
OnceBut(table, marked) ==
    \A i, j \in DOMAIN table : i # j /\ table[i].address = table[j].address => table[i].address \in marked

NewAreOnce == \A c \in Busy : OnceBut(session[c].new, doubled)

LookupInv == LooksFirst /\ OverlapsAreDoubled /\ NewAreNew /\ NewAreOnce /\ OnceBut(accounts, doubled)

\* A step that changes one session, which has looked up what it adds, and marks what
\* another has looked up too.
LEMMA LookupSession ==
    ASSUME RegistryTypeOK, LookupInv, NEW c \in Clients, NEW t, session' = [session EXCEPT ![c] = t],
           doubled \subseteq doubled', accounts' = accounts,
           t # NoSession =>
             /\ AddressesOf(t.new) \subseteq t.looked
             /\ AddressesOf(t.new) \intersect AddressesOf(accounts) \subseteq doubled'
             /\ OnceBut(t.new, doubled')
             /\ \A d \in Busy \ {c} : t.looked \intersect session[d].looked \subseteq doubled'
    PROVE  LookupInv'
<1>1. /\ session'[c] = t /\ \A d \in Clients \ {c} : session'[d] = session[d]
  BY OneSession
<1>2. Busy' \subseteq Busy \union {c} /\ (c \in Busy' => t # NoSession)
  BY <1>1 DEF Busy
<1>3. \A d \in Busy' \ {c} : d \in Busy /\ session'[d] = session[d]
  BY <1>1, <1>2 DEF Busy
<1>4. LooksFirst'
  BY <1>1, <1>2, <1>3 DEF LookupInv, LooksFirst
<1>5. OverlapsAreDoubled'
  <2> SUFFICES ASSUME NEW d \in Busy', NEW e \in Busy', d # e
               PROVE  session'[d].looked \intersect session'[e].looked \subseteq doubled'
    BY DEF OverlapsAreDoubled
  <2>1. CASE d # c /\ e # c
    BY <1>3, <2>1 DEF LookupInv, OverlapsAreDoubled
  <2>2. CASE d = c
    BY <1>1, <1>2, <1>3, <2>2
  <2>3. CASE e = c
    BY <1>1, <1>2, <1>3, <2>3
  <2> QED BY <2>1, <2>2, <2>3
<1>6. NewAreNew'
  BY <1>1, <1>2, <1>3 DEF LookupInv, NewAreNew
<1>7. NewAreOnce'
  BY <1>1, <1>2, <1>3 DEF LookupInv, NewAreOnce, OnceBut
<1>8. OnceBut(accounts', doubled')
  BY DEF LookupInv, OnceBut
<1> QED BY <1>4, <1>5, <1>6, <1>7, <1>8 DEF LookupInv

\* A step that changes what sessions have missed, and nothing they have looked up.
LEMMA LookupMissing ==
    ASSUME RegistryTypeOK, LookupInv, doubled' = doubled,
           AddressesOf(accounts') = AddressesOf(accounts), OnceBut(accounts', doubled),
           \A d \in Clients : session'[d] = Missing[d] \/ session'[d] = session[d]
    PROVE  LookupInv'
<1>1. \A d \in Clients : session'[d] = NoSession <=> session[d] = NoSession
  BY MissingIs
<1>2. Busy' = Busy
  BY <1>1 DEF Busy
<1>3. \A d \in Busy : session'[d].looked = session[d].looked /\ session'[d].new = session[d].new
  BY MissingIs DEF Busy
<1>4. LooksFirst'
  BY <1>2, <1>3 DEF LookupInv, LooksFirst
<1>5. OverlapsAreDoubled'
  BY <1>2, <1>3 DEF LookupInv, OverlapsAreDoubled
<1>6. NewAreNew'
  BY <1>2, <1>3 DEF LookupInv, NewAreNew
<1>7. NewAreOnce'
  BY <1>2, <1>3 DEF LookupInv, NewAreOnce
<1> QED BY <1>4, <1>5, <1>6, <1>7 DEF LookupInv

LEMMA LookupCommits == ASSUME RegistryTypeOK, LookupInv, NEW c \in Clients, Commits(c) PROVE LookupInv'
<1>1. PICK s : s = session[c]
  OBVIOUS
<1>2. PICK t : t = accounts'
  OBVIOUS
<1>3. c \in Busy /\ doubled' = doubled
  BY CommitsIs DEF Busy
<1>4. /\ DOMAIN accounts \subseteq DOMAIN t
      /\ \A i \in DOMAIN accounts : t[i].address = accounts[i].address
      /\ \A i \in DOMAIN t \ DOMAIN accounts :
           i - Len(accounts) \in DOMAIN s.new /\ t[i] = s.new[i - Len(accounts)]
      /\ t \in Seq(Account) /\ Len(accounts) \in Nat
  BY <1>1, <1>2, CommitsIs, WrittenType
<1>5. /\ AddressesOf(s.new) \intersect AddressesOf(accounts) \subseteq doubled
      /\ OnceBut(s.new, doubled) /\ OnceBut(accounts, doubled)
      /\ AddressesOf(s.new) \subseteq s.looked
  BY <1>1, <1>3 DEF LookupInv, NewAreNew, NewAreOnce, LooksFirst
<1>6. OnceBut(t, doubled)
  <2> SUFFICES ASSUME NEW i \in DOMAIN t, NEW j \in DOMAIN t, i # j, t[i].address = t[j].address
               PROVE  t[i].address \in doubled
    BY DEF OnceBut
  <2>1. i \in Nat /\ j \in Nat
    BY <1>4
  <2>2. CASE i \in DOMAIN accounts /\ j \in DOMAIN accounts
    BY <1>4, <1>5, <2>2 DEF OnceBut
  <2>3. CASE i \notin DOMAIN accounts /\ j \notin DOMAIN accounts
    <3>1. i - Len(accounts) # j - Len(accounts)
      BY <1>4, <2>1
    <3> QED BY <1>4, <1>5, <2>3, <3>1 DEF OnceBut
  <2>4. CASE i \in DOMAIN accounts /\ j \notin DOMAIN accounts
    BY <1>4, <1>5, <2>4 DEF AddressesOf
  <2>5. CASE i \notin DOMAIN accounts /\ j \in DOMAIN accounts
    BY <1>4, <1>5, <2>5 DEF AddressesOf
  <2> QED BY <2>2, <2>3, <2>4, <2>5
<1>7. session'[c] = NoSession
  BY CommitsIs
<1>8. ASSUME NEW d \in Busy'
      PROVE  d \in Busy /\ d # c /\ session'[d].looked = session[d].looked /\ session'[d].new = session[d].new
  BY <1>7, <1>8, CommitsIs, MissingIs DEF Busy
<1>9. LooksFirst' /\ OverlapsAreDoubled' /\ NewAreOnce'
  BY <1>3, <1>8 DEF LookupInv, LooksFirst, OverlapsAreDoubled, NewAreOnce
<1>10. NewAreNew'
  <2> SUFFICES ASSUME NEW d \in Busy', NEW a \in AddressesOf(session'[d].new), a \in AddressesOf(accounts')
               PROVE  a \in doubled
    BY <1>3 DEF NewAreNew
  <2>1. d \in Busy /\ d # c /\ a \in AddressesOf(session[d].new)
    BY <1>8
  <2>2. a \in AddressesOf(accounts) \/ a \in AddressesOf(s.new)
    BY <1>1, AddressesCommitted
  <2>3. CASE a \in AddressesOf(accounts)
    BY <2>1, <2>3 DEF LookupInv, NewAreNew
  <2>4. CASE a \in AddressesOf(s.new)
    BY <1>1, <1>3, <1>5, <2>1, <2>4 DEF LookupInv, LooksFirst, OverlapsAreDoubled
  <2> QED BY <2>2, <2>3, <2>4
<1> QED BY <1>2, <1>3, <1>6, <1>9, <1>10 DEF LookupInv

LEMMA FewAreOnce ==
    ASSUME NEW marked, NEW x \in Account
    PROVE  /\ AddressesOf(<<>>) = {} /\ OnceBut(<<>>, marked)
           /\ AddressesOf(<<x>>) = {x.address} /\ OnceBut(<<x>>, marked)
<1>1. DOMAIN <<x>> = {1} /\ <<x>>[1] = x
  OBVIOUS
<1> QED BY <1>1 DEF AddressesOf, OnceBut

\* Nobody else has looked up an address that is not marked when it is looked up.
LEMMA LookedUpByOthers ==
    ASSUME NEW c \in Clients, NEW a, LookedUp(c, a) => a \in doubled'
    PROVE  \A d \in Busy \ {c} : {a} \intersect session[d].looked \subseteq doubled'
BY DEF LookedUp, Busy

LEMMA LookupConnects ==
    ASSUME RegistryTypeOK, LookupInv, NEW c \in Clients, NEW a \in Addresses, Connects(c, a)
    PROVE  LookupInv'
<1>1. PICK s : /\ Begins(c, s)
               /\ \/ s = NoSession
                  \/ /\ s.looked = {a}
                     /\ \/ s.new = <<>>
                        \/ s.new = <<New(a, FALSE)>> /\ a \notin AddressesOf(accounts)
  BY ConnectsIs
<1>2. doubled \subseteq doubled' /\ (LookedUp(c, a) => a \in doubled') /\ accounts' = accounts
  BY ConnectsIs, LooksUpType
<1>3. New(a, FALSE) \in Account /\ New(a, FALSE).address = a
  BY NewAccount DEF New
<1>4. ASSUME s # NoSession
      PROVE  /\ AddressesOf(s.new) \subseteq s.looked
             /\ AddressesOf(s.new) \intersect AddressesOf(accounts) \subseteq doubled'
             /\ OnceBut(s.new, doubled')
             /\ \A d \in Busy \ {c} : s.looked \intersect session[d].looked \subseteq doubled'
  <2>1. s.looked = {a}
    BY <1>1, <1>4
  <2>2. \A d \in Busy \ {c} : s.looked \intersect session[d].looked \subseteq doubled'
    BY <1>2, <2>1, LookedUpByOthers
  <2>3. CASE s.new = <<>>
    BY <2>2, <2>3, FewAreOnce, <1>3
  <2>4. CASE s.new = <<New(a, FALSE)>> /\ a \notin AddressesOf(accounts)
    <3>1. PICK x \in Account : x = New(a, FALSE) /\ x.address = a
      BY <1>3
    <3>2. AddressesOf(<<x>>) = {a} /\ OnceBut(<<x>>, doubled')
      BY <3>1, FewAreOnce
    <3>3. s.new = <<x>>
      BY <2>4, <3>1
    <3> QED BY <2>1, <2>2, <2>4, <3>2, <3>3
  <2> QED BY <1>1, <1>4, <2>3, <2>4
<1>5. session' = [session EXCEPT ![c] = s]
  BY <1>1 DEF Begins
<1> QED BY <1>2, <1>4, <1>5, LookupSession

LEMMA LookupAdds ==
    ASSUME RegistryTypeOK, LookupInv, NEW c \in Clients, NEW a \in Addresses, NEW cap \in BOOLEAN,
           AddImapAccount(c, a, cap)
    PROVE  LookupInv'
<1>1. PICK s : Begins(c, s) /\ s.looked = {a} /\ s.new = <<New(a, cap)>>
  BY AddImapAccountIs
<1>2. /\ doubled \subseteq doubled' /\ accounts' = accounts
      /\ LookedUp(c, a) \/ a \in AddressesOf(accounts) => a \in doubled'
  BY AddImapAccountIs
<1>3. New(a, cap) \in Account /\ New(a, cap).address = a
  BY NewAccount DEF New
<1>4. /\ AddressesOf(s.new) \subseteq s.looked
      /\ AddressesOf(s.new) \intersect AddressesOf(accounts) \subseteq doubled'
      /\ OnceBut(s.new, doubled')
      /\ \A d \in Busy \ {c} : s.looked \intersect session[d].looked \subseteq doubled'
  BY <1>1, <1>2, <1>3, FewAreOnce, LookedUpByOthers
<1>5. session' = [session EXCEPT ![c] = s]
  BY <1>1 DEF Begins
<1> QED BY <1>2, <1>4, <1>5, LookupSession

LEMMA LookupImports ==
    ASSUME RegistryTypeOK, LookupInv, NEW c \in Clients, ImportRow(c)
    PROVE  LookupInv'
<1>1. PICK s : s = session[c]
  OBVIOUS
<1>2. PICK a \in Addresses : a = Head(s.todo).address
  BY <1>1, ImportRowIs
<1>3. PICK t : t = RowDone(s, Head(s.todo))
  OBVIOUS
<1>4. /\ c \in Busy /\ SessionType(s) /\ s.todo # <<>> /\ accounts \in Seq(Account) /\ accounts' = accounts
      /\ session' = [session EXCEPT ![c] = t] /\ LooksUp(c, a)
  BY <1>1, <1>2, <1>3, ImportRowIs DEF Busy
<1>5. doubled \subseteq doubled' /\ (LookedUp(c, a) => a \in doubled')
  BY <1>4, LooksUpType
<1>6. /\ AddressesOf(s.new) \subseteq s.looked /\ OnceBut(s.new, doubled)
      /\ AddressesOf(s.new) \intersect AddressesOf(accounts) \subseteq doubled
      /\ \A d \in Busy \ {c} : s.looked \intersect session[d].looked \subseteq doubled
  BY <1>1, <1>4 DEF LookupInv, LooksFirst, OverlapsAreDoubled, NewAreNew, NewAreOnce
<1>7. /\ t.looked = s.looked \union {a}
      /\ \/ t.new = s.new
         \/ Known(s.new, a) = {} /\ t.new = Append(s.new, New(a, FALSE))
  BY <1>2, <1>3, <1>4, RowDoneIs
<1>8. /\ AddressesOf(t.new) \subseteq t.looked
      /\ AddressesOf(t.new) \intersect AddressesOf(accounts) \subseteq doubled'
      /\ OnceBut(t.new, doubled')
  <2>1. CASE t.new = s.new
    BY <1>5, <1>6, <1>7, <2>1 DEF OnceBut
  <2>2. CASE Known(s.new, a) = {} /\ t.new = Append(s.new, New(a, FALSE))
    <3>1. PICK new \in Seq(Account) : new = s.new
      BY <1>4 DEF SessionType
    <3>2. PICK x \in Account : x = New(a, FALSE) /\ x.address = a
      BY NewAccount DEF New
    <3>3. PICK more : more = Append(new, x)
      OBVIOUS
    <3>4. /\ DOMAIN more = DOMAIN new \union {Len(new) + 1} /\ more[Len(new) + 1] = x
          /\ \A k \in DOMAIN new : more[k] = new[k]
          /\ AddressesOf(more) = AddressesOf(new) \union {a}
      <4>1. /\ DOMAIN Append(new, x) = DOMAIN new \union {Len(new) + 1}
            /\ Append(new, x)[Len(new) + 1] = x
            /\ \A k \in DOMAIN new : Append(new, x)[k] = new[k]
            /\ AddressesOf(Append(new, x)) = AddressesOf(new) \union {x.address}
        BY AppendedAccount
      <4> QED BY <3>2, <3>3, <4>1
    <3>5. a \notin AddressesOf(accounts) /\ a \notin AddressesOf(new)
      BY <1>4, <2>2, <3>1, KnownIs
    <3>6. OnceBut(more, doubled')
      <4>1. \A k \in DOMAIN new : new[k].address # a
        BY <3>5 DEF AddressesOf
      <4>2. OnceBut(new, doubled')
        BY <1>5, <1>6, <3>1 DEF OnceBut
      <4>3. x.address = a
        BY <3>2
      <4> SUFFICES ASSUME NEW i \in DOMAIN more, NEW j \in DOMAIN more,
                          i # j, more[i].address = more[j].address
                   PROVE  more[i].address \in doubled'
        BY DEF OnceBut
      <4>4. CASE i \in DOMAIN new /\ j \in DOMAIN new
        BY <3>4, <4>2, <4>4 DEF OnceBut
      <4>5. CASE i \notin DOMAIN new \/ j \notin DOMAIN new
        BY <3>4, <4>1, <4>3, <4>5
      <4> QED BY <4>4, <4>5
    <3>7. t.new = more
      BY <2>2, <3>1, <3>2, <3>3
    <3> QED BY <1>5, <1>6, <1>7, <3>1, <3>4, <3>5, <3>6, <3>7
  <2> QED BY <1>7, <2>1, <2>2
<1>9. \A d \in Busy \ {c} : t.looked \intersect session[d].looked \subseteq doubled'
  BY <1>5, <1>6, <1>7, LookedUpByOthers
<1> QED BY <1>4, <1>5, <1>8, <1>9, LookupSession

LEMMA LookupSorts ==
    ASSUME RegistryTypeOK, LookupInv, NEW c \in Clients, Sorts(c)
    PROVE  LookupInv'
<1>1. PICK p \in Places(Listed(session[c])) : session' = [session EXCEPT ![c] = Sorted(session[c], p)]
  BY SortsIs
<1>2. PICK s : s = session[c]
  OBVIOUS
<1>3. PICK t : t = Sorted(s, p)
  OBVIOUS
<1>4. /\ t.looked = s.looked /\ DOMAIN t.new = DOMAIN s.new
      /\ \A k \in DOMAIN s.new : t.new[k].address = s.new[k].address
  BY <1>2, <1>3, SortsIs, SortedType
<1>5. c \in Busy /\ accounts' = accounts /\ doubled' = doubled
  BY SortsIs DEF Busy
<1>6. AddressesOf(t.new) = AddressesOf(s.new) /\ (OnceBut(s.new, doubled) => OnceBut(t.new, doubled))
  BY <1>4 DEF AddressesOf, OnceBut
<1>7. /\ AddressesOf(s.new) \subseteq s.looked /\ OnceBut(s.new, doubled)
      /\ AddressesOf(s.new) \intersect AddressesOf(accounts) \subseteq doubled
      /\ \A d \in Busy \ {c} : s.looked \intersect session[d].looked \subseteq doubled
  BY <1>2, <1>5 DEF LookupInv, LooksFirst, OverlapsAreDoubled, NewAreNew, NewAreOnce
<1>8. session' = [session EXCEPT ![c] = t]
  BY <1>1, <1>2, <1>3
<1> QED BY <1>4, <1>5, <1>6, <1>7, <1>8, LookupSession

LEMMA LookupOthers ==
    ASSUME RegistryTypeOK, LookupInv, NEW c \in Clients,
           \/ SortAz(c) \/ \E file \in Files : ImportStarts(c, file)
           \/ ImportEnds(c) \/ ImportFails(c) \/ Breaks(c)
    PROVE  LookupInv'
<1>1. CASE SortAz(c) \/ \E file \in Files : ImportStarts(c, file)
  <2>1. PICK s : Begins(c, s) /\ s.looked = {} /\ s.new = <<>>
    BY <1>1, OpeningIs
  <2>2. accounts' = accounts /\ doubled' = doubled
    BY <1>1, OpeningIs
  <2>3. AddressesOf(<<>>) = {} /\ OnceBut(<<>>, doubled')
    BY DEF AddressesOf, OnceBut
  <2>4. session' = [session EXCEPT ![c] = s]
    BY <2>1 DEF Begins
  <2> QED BY <2>1, <2>2, <2>3, <2>4, LookupSession
<1>2. CASE ImportEnds(c)
  <2>1. PICK t : /\ session' = [session EXCEPT ![c] = t]
                 /\ t = NoSession \/ (t.looked = session[c].looked /\ t.new = session[c].new)
    BY <1>2, ImportEndsIs
  <2>2. c \in Busy /\ accounts' = accounts /\ doubled' = doubled
    BY <1>2, ImportEndsIs DEF Busy
  <2>3. PICK s : s = session[c]
    OBVIOUS
  <2>4. /\ AddressesOf(s.new) \subseteq s.looked /\ OnceBut(s.new, doubled)
        /\ AddressesOf(s.new) \intersect AddressesOf(accounts) \subseteq doubled
        /\ \A d \in Busy \ {c} : s.looked \intersect session[d].looked \subseteq doubled
    BY <2>2, <2>3 DEF LookupInv, LooksFirst, OverlapsAreDoubled, NewAreNew, NewAreOnce
  <2> QED BY <2>1, <2>2, <2>3, <2>4, LookupSession
<1>3. CASE ImportFails(c) \/ Breaks(c)
  <2>1. session' = [session EXCEPT ![c] = NoSession] /\ accounts' = accounts /\ doubled' = doubled
    BY <1>3, ClosingIs
  <2> QED BY <2>1, LookupSession
<1> QED BY <1>1, <1>2, <1>3

LEMMA LookupManual == ASSUME RegistryTypeOK, LookupInv, Manual PROVE LookupInv'
<1>1. PICK table \in Seq(Account) :
        /\ DOMAIN table = DOMAIN accounts
        /\ \A i \in DOMAIN accounts : table[i].address = accounts[i].address
        /\ Changes(table)
  BY ManualIs
<1>2. accounts' = table /\ session' = Missing /\ doubled' = doubled
  BY <1>1 DEF Changes
<1>3. AddressesOf(table) = AddressesOf(accounts)
  BY <1>1 DEF AddressesOf
<1>4. OnceBut(table, doubled)
  BY <1>1 DEF LookupInv, OnceBut
<1> QED BY <1>2, <1>3, <1>4, LookupMissing

LEMMA LookupStep == RegistryTypeOK /\ LookupInv /\ [RegistryNext]_registryVars => LookupInv'
<1> SUFFICES ASSUME RegistryTypeOK, LookupInv, [RegistryNext]_registryVars PROVE LookupInv'
  OBVIOUS
<1>1. CASE UNCHANGED registryVars
  <2>1. UNCHANGED <<accounts, session, doubled>>
    BY <1>1 DEF registryVars, registryHistory
  <2> QED BY <2>1, LookupMissing DEF LookupInv
<1>2. CASE Manual
  BY <1>2, LookupManual
<1>3. ASSUME NEW c \in Clients, Additions(c) PROVE LookupInv'
  BY <1>3, LookupConnects, LookupAdds, LookupImports, LookupSorts, LookupCommits, LookupOthers
     DEF Additions, OAuthCallback, ConnectMailbox
<1> QED BY <1>1, <1>2, <1>3 DEF RegistryNext

LEMMA InitialLookups == RegistryInit => LookupInv
<1> SUFFICES ASSUME RegistryInit PROVE LookupInv
  OBVIOUS
<1>1. Busy = {} /\ accounts = <<>>
  BY DEF RegistryInit, Busy
<1>2. OnceBut(accounts, doubled)
  BY <1>1 DEF OnceBut
<1> QED BY <1>1, <1>2 DEF LookupInv, LooksFirst, OverlapsAreDoubled, NewAreNew, NewAreOnce

\* Two accounts of one address come only from the form or from requests that overlap
\* (accounts.py 274-308 and 402-441, import_accounts.py 170-220, hosting.py 165-200), for
\* any number of addresses, files and requests at one time.
THEOREM DoublesComeFromOverlaps == RegistrySpec => []DoublesOnlyByOverlap
<1>1. RegistryTypeOK /\ LookupInv => DoublesOnlyByOverlap
  BY DEF LookupInv, OnceBut, DoublesOnlyByOverlap
<1> QED BY <1>1, InitialLookups, LookupStep, RegistryTypeCorrect, PTL DEF RegistrySpec

-----------------------------------------------------------------------------
(* The alphabetical order.  A session that has missed nothing knows the    *)
(* places the table has, and the table will be in order once it has        *)
(* written what its sort has found wrong.                                  *)

InOrder(table) ==
    \A i, j \in DOMAIN table :
        table[i].is_active /\ table[j].is_active /\ table[i].address < table[j].address
            => table[i].sort_order <= table[j].sort_order

PlacesHold(s) ==
    ~s.missed => /\ \A i \in DOMAIN s.had : s.had[i] = accounts[i].sort_order
                 /\ s.step = "sorted" => InOrder(Written(s))

OrderInv == (~untidy => InOrder(accounts)) /\ \A c \in Busy : PlacesHold(session[c])

\* The places of a sort are in the order of the addresses: below the places of an address
\* there is room for those of every smaller one.
LEMMA PlacesInOrder ==
    ASSUME NEW table \in Seq(Account), NEW p \in Places(table)
    PROVE  /\ \A i \in DOMAIN table : table[i].is_active => i \in DOMAIN p
           /\ \A i, j \in DOMAIN p : table[i].address < table[j].address => p[i] <= p[j]
<1> DEFINE active == {i \in DOMAIN table : table[i].is_active}
           Ties(i) == {j \in active : table[j].address = table[i].address}
           Lower(i) == {j \in active : table[j].address < table[i].address}
<1>1. /\ DOMAIN p = active
      /\ \A i \in active : \A j \in Ties(i) :
           p[j] \in Cardinality(Lower(i))..Cardinality(Lower(i)) + Cardinality(Ties(i)) - 1
  BY DEF Places
<1>2. IsFiniteSet(active)
  <2>1. IsFiniteSet(1..Len(table)) /\ DOMAIN table = 1..Len(table)
    BY FS_Interval
  <2> QED BY <2>1, FS_Subset
<1>3. \A i \in active : table[i].address \in Nat
  <2>1. \A i \in DOMAIN table : table[i] \in Account
    OBVIOUS
  <2> QED BY <2>1 DEF Account, Addresses
<1>4. ASSUME NEW i \in active
      PROVE  /\ IsFiniteSet(Ties(i)) /\ IsFiniteSet(Lower(i))
             /\ Cardinality(Ties(i)) \in Nat /\ Cardinality(Lower(i)) \in Nat
             /\ p[i] \in Cardinality(Lower(i))..Cardinality(Lower(i)) + Cardinality(Ties(i)) - 1
  <2>1. Ties(i) \in SUBSET active /\ Lower(i) \in SUBSET active /\ i \in Ties(i)
    OBVIOUS
  <2>2. IsFiniteSet(Ties(i)) /\ IsFiniteSet(Lower(i))
    BY <1>2, <2>1, FS_Subset
  <2> QED BY <1>1, <2>1, <2>2, FS_CardinalityType
<1>5. ASSUME NEW i \in active, NEW j \in active, table[i].address < table[j].address PROVE p[i] <= p[j]
  <2>1. Lower(i) \intersect Ties(i) = {}
    BY <1>3
  <2>2. Lower(i) \union Ties(i) \in SUBSET Lower(j)
    BY <1>3, <1>5
  <2>3. Cardinality(Lower(i) \union Ties(i)) = Cardinality(Lower(i)) + Cardinality(Ties(i))
    <3>1. Cardinality(Lower(i) \union Ties(i)) =
            Cardinality(Lower(i)) + Cardinality(Ties(i)) - Cardinality(Lower(i) \intersect Ties(i))
      BY <1>4, FS_Union
    <3>2. Cardinality(Lower(i) \intersect Ties(i)) = 0
      BY <2>1, FS_EmptySet
    <3>3. Cardinality(Lower(i)) \in Nat /\ Cardinality(Ties(i)) \in Nat
      BY <1>4
    <3> HIDE DEF Lower, Ties, active
    <3> QED BY <3>1, <3>2, <3>3
  <2>4. Cardinality(Lower(i) \union Ties(i)) <= Cardinality(Lower(j))
    BY <1>4, <2>2, FS_Subset
  <2> HIDE DEF Lower, Ties, active
  <2> QED BY <1>4, <2>3, <2>4
<1> QED BY <1>1, <1>5

\* What a sort's query returns: the accounts with those that are made active, and the new ones.
LEMMA ListedIs ==
    ASSUME accounts \in Seq(Account), NEW s, SessionType(s), Refers(s, accounts), NEW l, l = Listed(s)
    PROVE  /\ \A i \in DOMAIN accounts : /\ i \in DOMAIN l /\ l[i].address = accounts[i].address
                                         /\ l[i].is_active = (accounts[i].is_active \/ i \in s.revived)
           /\ \A k \in DOMAIN s.new : Len(accounts) + k \in DOMAIN l /\ l[Len(accounts) + k] = s.new[k]
<1>1. PICK new \in Seq(Account) : new = s.new
  BY DEF SessionType
<1>2. PICK all \in Seq(Account) : all = accounts \o new
  <2>1. accounts \o new \in Seq(Account)
    OBVIOUS
  <2> QED BY <2>1
<1>3. /\ Len(accounts) \in Nat /\ Len(new) \in Nat /\ Len(all) = Len(accounts) + Len(new)
      /\ \A i \in 1..Len(accounts) : all[i] = accounts[i]
      /\ \A k \in 1..Len(new) : all[Len(accounts) + k] = new[k]
  BY <1>2
<1>4. DOMAIN accounts = 1..Len(accounts) /\ DOMAIN new = 1..Len(new)
  OBVIOUS
<1>5. l = [i \in 1..Len(all) |-> IF i \in s.revived THEN [accounts[i] EXCEPT !.is_active = TRUE] ELSE all[i]]
  BY <1>1, <1>2 DEF Listed
<1>6. s.revived \subseteq 1..Len(accounts)
  BY <1>4 DEF Refers
<1>7. ASSUME NEW i \in 1..Len(accounts)
      PROVE  /\ i \in DOMAIN l /\ l[i].address = accounts[i].address
             /\ l[i].is_active = (accounts[i].is_active \/ i \in s.revived)
  <2>1. i \in 1..Len(all) /\ DOMAIN l = 1..Len(all)
    BY <1>3, <1>5
  <2>2. PICK x \in Account : x = accounts[i]
    BY <1>4
  <2>3. CASE i \in s.revived
    <3>1. l[i] = [x EXCEPT !.is_active = TRUE]
      BY <1>5, <2>1, <2>2, <2>3
    <3> QED BY <2>1, <2>2, <2>3, <3>1 DEF Account
  <2>4. CASE i \notin s.revived
    <3>1. l[i] = x
      BY <1>3, <1>5, <2>1, <2>2, <2>4
    <3> QED BY <2>1, <2>2, <2>4, <3>1 DEF Account
  <2> QED BY <2>3, <2>4
<1>8. ASSUME NEW k \in 1..Len(new) PROVE Len(accounts) + k \in DOMAIN l /\ l[Len(accounts) + k] = new[k]
  BY <1>3, <1>5, <1>6
<1> QED BY <1>1, <1>4, <1>7, <1>8

\* A session that knows the places there are writes a table that is in order.
LEMMA SortsInOrder ==
    ASSUME NEW s, SessionType(s), Refers(s, accounts), accounts \in Seq(Account),
           NEW p \in Places(Listed(s)), NEW t, t = Sorted(s, p),
           \A i \in DOMAIN s.had : s.had[i] = accounts[i].sort_order
    PROVE  InOrder(Written(t))
<1>1. PICK l \in Seq(Account) : l = Listed(s)
  BY ListedType
<1>2. PICK w : w = Written(t)
  OBVIOUS
<1>3. /\ \A i \in DOMAIN l : l[i].is_active => i \in DOMAIN p
      /\ \A i, j \in DOMAIN p : l[i].address < l[j].address => p[i] <= p[j]
      /\ \A i \in DOMAIN p : p[i] \in Nat
  BY <1>1, PlacesInOrder, PlacesAreNumbers
<1>4. /\ t.new = Placed(s, p) /\ t.place = Moved(s, p) /\ t.revived = s.revived
      /\ SessionType(t) /\ DOMAIN t.new = DOMAIN s.new
  BY SortedIs, SortedType
<1>5. ASSUME NEW i \in DOMAIN w
      PROVE  /\ i \in DOMAIN l /\ w[i].address = l[i].address /\ w[i].is_active = l[i].is_active
             /\ w[i].is_active => w[i].sort_order = p[i]
  <2>1. CASE i \in DOMAIN accounts
    <3>1. /\ w[i].address = accounts[i].address
          /\ w[i].is_active = (accounts[i].is_active \/ i \in s.revived)
          /\ w[i].sort_order = IF i \in DOMAIN t.place THEN t.place[i] ELSE accounts[i].sort_order
      BY <1>2, <1>4, <2>1, WrittenType
    <3>2. /\ i \in DOMAIN l /\ l[i].address = accounts[i].address
          /\ l[i].is_active = (accounts[i].is_active \/ i \in s.revived)
      BY <1>1, <2>1, ListedIs
    <3>3. Had(s, i) = accounts[i].sort_order
      BY DEF Had
    <3>4. i \in DOMAIN p => (IF i \in DOMAIN t.place THEN t.place[i] ELSE accounts[i].sort_order) = p[i]
      BY <1>4, <2>1, <3>3 DEF Moved
    <3> QED BY <1>3, <3>1, <3>2, <3>4
  <2>2. CASE i \notin DOMAIN accounts
    <3>1. PICK k \in DOMAIN s.new : k = i - Len(accounts) /\ w[i] = t.new[k]
      BY <1>2, <1>4, <2>2, WrittenType
    <3>2. i = Len(accounts) + k
      <4>1. i \in Int
        BY <1>2, <1>4, WrittenType
      <4>2. Len(accounts) \in Nat
        OBVIOUS
      <4> QED BY <3>1, <4>1, <4>2
    <3>3. i \in DOMAIN l /\ l[i] = s.new[k]
      BY <1>1, <3>2, ListedIs
    <3>4. /\ w[i].address = s.new[k].address /\ w[i].is_active = s.new[k].is_active
          /\ i \in DOMAIN p => w[i].sort_order = p[i]
      BY <1>3, <1>4, <3>1, <3>2, PlacedType
    <3> QED BY <1>3, <3>3, <3>4
  <2> QED BY <2>1, <2>2
<1>6. InOrder(w)
  BY <1>3, <1>5 DEF InOrder
<1> QED BY <1>2, <1>6

\* A step that changes one session, and not the table.
LEMMA OrderSession ==
    ASSUME RegistryTypeOK, OrderInv, NEW c \in Clients, NEW t, session' = [session EXCEPT ![c] = t],
           accounts' = accounts, untidy' = untidy,
           t # NoSession => PlacesHold(t)
    PROVE  OrderInv'
<1>1. /\ session'[c] = t /\ \A d \in Clients \ {c} : session'[d] = session[d]
  BY OneSession
<1>2. ASSUME NEW d \in Busy', NEW s, s = session'[d] PROVE PlacesHold(s)'
  <2>1. PlacesHold(s)
    BY <1>1, <1>2 DEF Busy, OrderInv
  <2> QED BY <2>1 DEF PlacesHold, Written
<1>3. ~untidy' => InOrder(accounts')
  BY DEF OrderInv
<1> QED BY <1>2, <1>3 DEF OrderInv, PlacesHold, Written

LEMMA FreshHolds == ASSUME NEW s, Fresh(s) PROVE PlacesHold(s)
BY DEF Fresh, PlacesHold

\* A session that has read a place misses a change; one that has not knows nothing to hold.
LEMMA MissesChange ==
    ASSUME RegistryTypeOK, NEW d \in Clients, NEW t, t = Missing[d], t # NoSession
    PROVE  t.missed \/ (t.step # "sorted" /\ DOMAIN t.had = {})
<1>1. PICK s : s = session[d]
  OBVIOUS
<1>2. s # NoSession /\ SessionType(s)
  BY <1>1, MissingIs DEF RegistryTypeOK
<1>3. CASE HasRead(s)
  <2>1. t = [s EXCEPT !.missed = TRUE]
    BY <1>1, <1>3 DEF Missing
  <2>2. "missed" \in DOMAIN s
    BY <1>2, SessionFields DEF SessionType
  <2> QED BY <2>1, <2>2
<1>4. CASE ~HasRead(s)
  <2>1. t = s
    BY <1>1, <1>4 DEF Missing
  <2>2. s.step # "sorted" /\ s.had = NoPlaces
    BY <1>2, <1>4 DEF HasRead
  <2> QED BY <2>1, <2>2 DEF NoPlaces
<1> QED BY <1>3, <1>4

\* A step that changes the table, which all sessions miss.
LEMMA OrderMissing ==
    ASSUME RegistryTypeOK, OrderInv, ~untidy' => InOrder(accounts'),
           \A d \in Clients : session'[d] = NoSession \/ session'[d] = Missing[d]
                              \/ (session'[d] = session[d] /\ accounts' = accounts)
    PROVE  OrderInv'
<1>1. ASSUME NEW d \in Busy', NEW s, s = session'[d] PROVE PlacesHold(s)'
  <2>1. d \in Clients /\ s # NoSession
    BY <1>1 DEF Busy
  <2>2. CASE s = Missing[d]
    BY <2>1, <2>2, MissesChange DEF PlacesHold
  <2>3. CASE s = session[d] /\ accounts' = accounts
    <3>1. PlacesHold(s)
      BY <2>1, <2>3 DEF OrderInv, Busy
    <3> QED BY <2>3, <3>1 DEF PlacesHold, Written
  <2> QED BY <1>1, <2>1, <2>2, <2>3
<1> QED BY <1>1 DEF OrderInv, PlacesHold, Written

LEMMA OrderSorts == ASSUME RegistryTypeOK, OrderInv, NEW c \in Clients, Sorts(c) PROVE OrderInv'
<1>1. PICK s : s = session[c]
  OBVIOUS
<1>2. PICK p \in Places(Listed(s)) : session' = [session EXCEPT ![c] = Sorted(s, p)]
  BY <1>1, SortsIs
<1>3. PICK t : t = Sorted(s, p)
  OBVIOUS
<1>4. /\ s # NoSession /\ SessionType(s) /\ Refers(s, accounts) /\ accounts \in Seq(Account)
      /\ accounts' = accounts /\ untidy' = untidy
  BY <1>1, SortsIs
<1>5. t.missed = s.missed /\ t.had = NoPlaces
  BY <1>3, <1>4, SortedIs
<1>6. PlacesHold(s)
  BY <1>1, <1>4 DEF OrderInv, Busy
<1>7. ~t.missed => InOrder(Written(t))
  BY <1>3, <1>4, <1>5, <1>6, SortsInOrder DEF PlacesHold
<1>8. PlacesHold(t)
  BY <1>5, <1>7 DEF PlacesHold, NoPlaces
<1> QED BY <1>2, <1>3, <1>4, <1>8, OrderSession

LEMMA OrderCommits == ASSUME RegistryTypeOK, OrderInv, NEW c \in Clients, Commits(c) PROVE OrderInv'
<1>1. PICK s : s = session[c]
  OBVIOUS
<1>2. s # NoSession /\ s.step = "sorted" /\ accounts' = Written(s) /\ untidy' = s.missed
  BY <1>1, CommitsIs DEF Commits
<1>3. PlacesHold(s)
  BY <1>1, <1>2 DEF OrderInv, Busy
<1>4. ~untidy' => InOrder(accounts')
  BY <1>2, <1>3 DEF PlacesHold
<1>5. DOMAIN session = Clients /\ DOMAIN Missing = Clients
  BY DEF RegistryTypeOK, Missing
<1>6. session' = [(IF accounts' = accounts THEN session ELSE Missing) EXCEPT ![c] = NoSession]
  BY Zenon DEF Commits
<1>7. \A d \in Clients : session'[d] = NoSession \/ session'[d] = Missing[d]
                         \/ (session'[d] = session[d] /\ accounts' = accounts)
  BY <1>5, <1>6
<1> QED BY <1>4, <1>7, OrderMissing

LEMMA OrderImports == ASSUME RegistryTypeOK, OrderInv, NEW c \in Clients, ImportRow(c) PROVE OrderInv'
<1>1. PICK s : s = session[c]
  OBVIOUS
<1>2. PICK t : t = RowDone(s, Head(s.todo))
  OBVIOUS
<1>3. /\ c \in Busy /\ SessionType(s) /\ s.todo # <<>> /\ accounts' = accounts /\ untidy' = untidy
      /\ session' = [session EXCEPT ![c] = t]
  BY <1>1, <1>2, ImportRowIs DEF Busy
<1>4. s.step = "import"
  BY <1>1 DEF ImportRow
<1>5. t.had = s.had /\ t.missed = s.missed /\ t.step # "sorted"
  BY <1>2, <1>3, <1>4, RowDoneIs
<1>6. PlacesHold(t)
  BY <1>1, <1>3, <1>5 DEF OrderInv, PlacesHold
<1> QED BY <1>3, <1>6, OrderSession

LEMMA OrderEnds == ASSUME RegistryTypeOK, OrderInv, NEW c \in Clients, ImportEnds(c) PROVE OrderInv'
<1>1. PICK t : /\ session' = [session EXCEPT ![c] = t]
               /\ \/ t = NoSession
                  \/ t.step = "sort" /\ t.had = session[c].had /\ t.missed = session[c].missed
  BY ImportEndsIs
<1>2. c \in Busy /\ accounts' = accounts /\ untidy' = untidy
  BY ImportEndsIs DEF Busy
<1>3. t # NoSession => PlacesHold(t)
  BY <1>1, <1>2 DEF OrderInv, PlacesHold
<1> QED BY <1>1, <1>2, <1>3, OrderSession

\* The requests that open a session or end one.
LEMMA OrderOthers ==
    ASSUME RegistryTypeOK, OrderInv, NEW c \in Clients,
           \/ \E a \in Addresses : Connects(c, a) \/ \E cap \in BOOLEAN : AddImapAccount(c, a, cap)
           \/ SortAz(c) \/ \E file \in Files : ImportStarts(c, file)
           \/ ImportFails(c) \/ Breaks(c)
    PROVE  OrderInv'
<1>1. ASSUME NEW s, Begins(c, s), s = NoSession \/ Fresh(s), UNCHANGED <<accounts, untidy>>
      PROVE  OrderInv'
  BY <1>1, FreshHolds, OrderSession DEF Begins
<1>2. ASSUME NEW a \in Addresses, Connects(c, a) PROVE OrderInv'
  BY <1>1, <1>2, ConnectsIs
<1>3. ASSUME NEW a \in Addresses, NEW cap \in BOOLEAN, AddImapAccount(c, a, cap) PROVE OrderInv'
  BY <1>1, <1>3, AddImapAccountIs
<1>4. CASE SortAz(c) \/ \E file \in Files : ImportStarts(c, file)
  BY <1>1, <1>4, OpeningIs
<1>5. CASE ImportFails(c) \/ Breaks(c)
  BY <1>5, ClosingIs, OrderSession
<1> QED BY <1>2, <1>3, <1>4, <1>5

\* An account that is removed leaves the others in order; any other change by hand is untidy.
LEMMA OrderManual == ASSUME RegistryTypeOK, OrderInv, Manual PROVE OrderInv'
<1>1. session' = Missing
  BY ManualIs DEF Changes
<1>2. \A d \in Clients : session'[d] = Missing[d]
  BY <1>1
<1>3. untidy' \/ \E i \in DOMAIN accounts : RemoveAccount(i)
  BY DEF Manual, ReorderAccounts, ActivateAccount, UpdateOrder, ReactivateAccount
<1>4. ASSUME NEW i \in DOMAIN accounts, RemoveAccount(i), ~untidy' PROVE InOrder(accounts')
  <2>1. accounts' = [accounts EXCEPT ![i].is_active = FALSE] /\ untidy' = untidy
    BY <1>4 DEF RemoveAccount, Changes
  <2>2. PICK x : x = [accounts[i] EXCEPT !.is_active = FALSE]
    OBVIOUS
  <2>3. ~x.is_active /\ DOMAIN accounts' = DOMAIN accounts
    <3>1. accounts[i] \in Account
      BY DEF RegistryTypeOK
    <3> QED BY <2>1, <2>2, <3>1 DEF Account
  <2>4. \A j \in DOMAIN accounts : accounts'[j] = IF j = i THEN x ELSE accounts[j]
    BY <2>1, <2>2
  <2>5. InOrder(accounts)
    BY <1>4, <2>1 DEF OrderInv
  <2> QED BY <2>3, <2>4, <2>5 DEF InOrder
<1>5. ~untidy' => InOrder(accounts')
  BY <1>3, <1>4
<1> QED BY <1>2, <1>5, OrderMissing

LEMMA OrderStep == RegistryTypeOK /\ OrderInv /\ [RegistryNext]_registryVars => OrderInv'
<1> SUFFICES ASSUME RegistryTypeOK, OrderInv, [RegistryNext]_registryVars PROVE OrderInv'
  OBVIOUS
<1>1. CASE UNCHANGED registryVars
  <2>1. UNCHANGED <<accounts, session, untidy>>
    BY <1>1 DEF registryVars, registryHistory
  <2> QED BY <2>1, OrderMissing DEF OrderInv
<1>2. CASE Manual
  BY <1>2, OrderManual
<1>3. ASSUME NEW c \in Clients, Additions(c) PROVE OrderInv'
  BY <1>3, OrderOthers, OrderImports, OrderEnds, OrderSorts, OrderCommits
     DEF Additions, OAuthCallback, ConnectMailbox
<1> QED BY <1>1, <1>2, <1>3 DEF RegistryNext

\* The list of accounts a user sees is in alphabetical order, for any addresses, files and
\* number of requests at one time, unless places were given by hand or the last addition
\* had missed a change (accounts.py 78-103): a sort writes only the places it finds wrong,
\* and what it leaves is right because nobody has changed it since it was read.
THEOREM AccountsStandInOrder == RegistrySpec => []ListIsAlphabetical
<1>1. RegistryInit => OrderInv
  BY DEF RegistryInit, OrderInv, InOrder, Busy
<1>2. OrderInv => ListIsAlphabetical
  BY DEF OrderInv, InOrder, ListIsAlphabetical
<1> QED BY <1>1, <1>2, OrderStep, RegistryTypeCorrect, PTL DEF RegistrySpec

-----------------------------------------------------------------------------
(* Imported mails.  The invariant: who has which UID is known once and for *)
(* all, what the rows say of mails that are not excused is true of them,   *)
(* and a batch that has found or written over a row of such a mail is      *)
(* about that mail.                                                        *)

Item == [mail : Imported, name : Names, uid : Nat \ {0}]

Writings == UNION {[D -> RowType] : D \in SUBSET Nat}

BatchRecord ==
    [step : {"find", "write"}, keys : SUBSET {"uid", "message_id", "remote_id"}, made : SUBSET Names,
     mine : Writings, new : Seq(RowType),
     hit : {"none", "table", "own"} \X Nat, was : RowType \union {NoRow}, todo : Seq(Item)]

\* The rows a batch has written, and all there are.
RowsOf(s) == {s.mine[i] : i \in DOMAIN s.mine} \union {s.new[k] : k \in DOMAIN s.new}
Open == {b \in Importers : batch[b] # NoBatch}
AllRows == {rows[i] : i \in DOMAIN rows} \union UNION {RowsOf(batch[b]) : b \in Open}

\* The folder of a row is in the table, or one that the batch makes.
HasFolder(s, f) == (f[2] = 0 /\ f[1] \in s.made) \/ f[2] \in 1..folders[f[1]]

TableFits ==
    /\ at \in [Imported -> [name : Names, uid : Nat \ {0}]]
    /\ uidnext \in [Names -> Nat \ {0}]
    /\ folders \in [Names -> Nat]
    /\ rows \in Seq(RowType)
    /\ \A i \in DOMAIN rows : rows[i].folder[2] \in 1..folders[rows[i].folder[1]]
    /\ DOMAIN batch = Importers
    /\ kept \union excused \subseteq Imported

BatchFits(s) ==
    /\ s \in BatchRecord
    /\ DOMAIN s.mine \subseteq DOMAIN rows
    /\ s.hit \in InView(s) \union {NoHit}
    /\ IF s.hit = NoHit THEN s.was = NoRow ELSE s.was \in RowType
    /\ \A r \in RowsOf(s) : HasFolder(s, r.folder)
    /\ s.step = "write" => s.todo # <<>> /\ HasFolder(s, FolderOf(s, Head(s.todo).name))

BatchesFit == \A b \in Open : BatchFits(batch[b])

LocksApart == \A b, d \in Open : b # d => DOMAIN batch[b].mine \intersect DOMAIN batch[d].mine = {}

\* Which mail has which UID of which folder: at the server, in what clients have sent, and
\* in the rows of mails that are not excused.
ToldOf(s) == {<<s.todo[k].mail, s.todo[k].name, s.todo[k].uid>> : k \in DOMAIN s.todo}
TrueUids == {<<m, at[m].name, at[m].uid>> : m \in Imported}
ToldUids == UNION {ToldOf(batch[b]) : b \in Open}
RowUids == {<<r.mail, r.folder[1], r.uid>> : r \in {x \in AllRows : x.mail \notin excused /\ x.uid # 0}}
Uids == TrueUids \union ToldUids \union RowUids

UidsAreForOneMail ==
    \A p \in Uids : /\ p[3] < uidnext[p[2]]
                    /\ \A q \in Uids : p[2] = q[2] /\ p[3] = q[3] => p[1] = q[1]

\* What the row of a mail says.
SpeaksOfItsMail(r) ==
    /\ r.mid \in {0, r.mail}
    /\ r.rid \in {0, r.mail}
    /\ r.uid = 0 \/ <<r.mail, r.folder[1], r.uid>> \in Uids

RowsSpeakTrue == \A r \in AllRows : r.mail \in excused \/ SpeaksOfItsMail(r)

\* The mails that are to keep their rows.
Safe == {m \in Imported \ excused : \A k \in Imported \ {m} : Look[k] # Look[m]}

\* What is to be written over a row is a row of the same mail, and in the same folder, or
\* of a mail that is excused.
SameMail ==
    \A b \in Open : \A i \in DOMAIN batch[b].mine :
        LET was == rows[i]
            is == batch[b].mine[i]
        IN /\ is.mail # was.mail => is.mail \in excused
           /\ was.mail \in Safe => is.mail = was.mail
           /\ is.mail \notin excused => is.folder = was.folder

\* The row in hand, unless its mail is excused, is where the batch looked for it and still
\* of the mail that the session has.
FindsItsOwn(s) ==
    LET seen == Viewed(s, s.hit)
        item == Head(s.todo)
    IN
    s.hit # NoHit =>
        /\ s.step = "write" /\ seen.mail \in Safe => item.mail = seen.mail
        /\ seen.mail \notin excused => s.was.mail = seen.mail
        /\ s.step = "write" /\ seen.mail \notin excused => seen.folder = FolderOf(s, item.name)

FoundItsOwn == \A b \in Open : FindsItsOwn(batch[b])

KeptHaveRows == \A m \in kept \intersect Safe : m \in MailsOf(rows)

ImportInv ==
    /\ TableFits
    /\ BatchesFit
    /\ LocksApart
    /\ UidsAreForOneMail
    /\ RowsSpeakTrue
    /\ SameMail
    /\ FoundItsOwn
    /\ KeptHaveRows

LEMMA ImportRowFields ==
    ASSUME NEW r \in RowType
    PROVE  /\ r.mail \in Imported /\ r.folder \in FolderType /\ r.folder[1] \in Names /\ r.folder[2] \in Nat
           /\ r.uid \in Nat /\ r.mid \in Nat /\ r.rid \in Nat
<1>1. r.mail \in Imported /\ r.folder \in FolderType /\ r.uid \in Nat /\ r.mid \in Nat /\ r.rid \in Nat
  BY DEF RowType
<1>2. r.folder[1] \in Names /\ r.folder[2] \in Nat
  BY <1>1 DEF FolderType
<1> QED BY <1>1, <1>2

LEMMA BatchFields ==
    ASSUME NEW s \in BatchRecord
    PROVE  /\ s.step \in {"find", "write"} /\ s.keys \subseteq {"uid", "message_id", "remote_id"}
           /\ s.made \subseteq Names /\ s.new \in Seq(RowType) /\ s.todo \in Seq(Item)
           /\ \A i \in DOMAIN s.mine : i \in Nat /\ s.mine[i] \in RowType
           /\ s.mine \in [DOMAIN s.mine -> RowType]
           /\ \A k \in DOMAIN s.new : k \in Nat /\ s.new[k] \in RowType
           /\ \A r \in RowsOf(s) : r \in RowType
<1>1. /\ s.step \in {"find", "write"} /\ s.keys \subseteq {"uid", "message_id", "remote_id"}
      /\ s.made \subseteq Names /\ s.new \in Seq(RowType) /\ s.todo \in Seq(Item)
      /\ s.mine \in Writings
  BY DEF BatchRecord
<1>2. PICK D \in SUBSET Nat : s.mine \in [D -> RowType]
  BY <1>1 DEF Writings
<1>3. \A i \in DOMAIN s.mine : i \in Nat /\ s.mine[i] \in RowType
  BY <1>2
<1>4. \A k \in DOMAIN s.new : k \in Nat /\ s.new[k] \in RowType
  BY <1>1
<1>5. s.mine \in [DOMAIN s.mine -> RowType]
  BY <1>2
<1> QED BY <1>1, <1>3, <1>4, <1>5 DEF RowsOf

LEMMA RowsAreTyped == ASSUME TableFits, BatchesFit PROVE \A r \in AllRows : r \in RowType
<1>1. \A i \in DOMAIN rows : rows[i] \in RowType
  BY DEF TableFits
<1>2. ASSUME NEW b \in Open, NEW r \in RowsOf(batch[b]) PROVE r \in RowType
  BY BatchFields DEF BatchesFit, BatchFits
<1> QED BY <1>1, <1>2 DEF AllRows

LEMMA UidsAreTyped ==
    ASSUME TableFits, BatchesFit
    PROVE  \A p \in Uids : p[2] \in Names /\ p[3] \in Nat
<1> SUFFICES ASSUME NEW p \in Uids PROVE p[2] \in Names /\ p[3] \in Nat
  OBVIOUS
<1>1. CASE p \in TrueUids
  <2>1. PICK m \in Imported : p = <<m, at[m].name, at[m].uid>>
    BY <1>1 DEF TrueUids
  <2>2. at[m].name \in Names /\ at[m].uid \in Nat
    BY DEF TableFits
  <2> QED BY <2>1, <2>2
<1>2. ASSUME NEW b \in Open, p \in ToldOf(batch[b]) PROVE p[2] \in Names /\ p[3] \in Nat
  <2>1. PICK s \in BatchRecord : s = batch[b]
    BY DEF BatchesFit, BatchFits
  <2>2. PICK k \in DOMAIN s.todo : p = <<s.todo[k].mail, s.todo[k].name, s.todo[k].uid>>
    BY <1>2, <2>1 DEF ToldOf
  <2>3. s.todo[k] \in Item
    BY BatchFields
  <2> QED BY <2>2, <2>3 DEF Item
<1>3. CASE p \in RowUids
  <2>1. PICK r \in AllRows : p = <<r.mail, r.folder[1], r.uid>>
    BY <1>3 DEF RowUids
  <2> QED BY <2>1, RowsAreTyped, ImportRowFields
<1> QED BY <1>1, <1>2, <1>3 DEF Uids, ToldUids

\* A step after which the rows that are not excused say what is known, and all that is
\* told, or true at the server, was known or is one new UID.
LEMMA UidsStep ==
    ASSUME \A r \in AllRows' : r.mail \in excused' \/ SpeaksOfItsMail(r),
           \A b \in Open' : ToldOf(batch'[b]) \subseteq Uids,
           NEW X, \A m \in Imported : <<m, at'[m].name, at'[m].uid>> \in Uids \union X
    PROVE  Uids' \subseteq Uids \union X /\ RowsSpeakTrue'
<1>1. ASSUME NEW r \in AllRows', r.mail \notin excused', r.uid # 0
      PROVE  <<r.mail, r.folder[1], r.uid>> \in Uids
  BY <1>1 DEF SpeaksOfItsMail
<1>2. Uids' \subseteq Uids \union X
  <2> SUFFICES ASSUME NEW p \in Uids' PROVE p \in Uids \union X
    OBVIOUS
  <2>1. CASE p \in TrueUids'
    BY <2>1 DEF TrueUids
  <2>2. CASE p \in ToldUids'
    <3>1. PICK b \in Open' : p \in ToldOf(batch'[b])
      BY <2>2 DEF ToldUids, ToldOf
    <3> QED BY <3>1
  <2>3. CASE p \in RowUids'
    BY <1>1, <2>3 DEF RowUids
  <2> QED BY <2>1, <2>2, <2>3 DEF Uids
<1>3. ASSUME NEW r \in AllRows', r.mail \notin excused' PROVE SpeaksOfItsMail(r)'
  <2>1. r.mid \in {0, r.mail} /\ r.rid \in {0, r.mail}
    BY <1>3 DEF SpeaksOfItsMail
  <2>2. r.uid # 0 => <<r.mail, r.folder[1], r.uid>> \in RowUids'
    BY <1>3 DEF RowUids
  <2> QED BY <2>1, <2>2 DEF SpeaksOfItsMail, Uids
<1> QED BY <1>2, <1>3 DEF RowsSpeakTrue

LEMMA UidsStay ==
    ASSUME UidsAreForOneMail, Uids' \subseteq Uids, uidnext' = uidnext
    PROVE  UidsAreForOneMail'
BY DEF UidsAreForOneMail

\* A folder's next UID is nobody's.
LEMMA UidsGrow ==
    ASSUME TableFits, BatchesFit, UidsAreForOneMail, NEW m, NEW n \in Names,
           Uids' \subseteq Uids \union {<<m, n, uidnext[n]>>}, uidnext' = [uidnext EXCEPT ![n] = @ + 1]
    PROVE  UidsAreForOneMail'
<1>1. PICK u \in Nat : u = uidnext[n]
  BY DEF TableFits
<1>2. \A k \in Names : uidnext[k] \in Nat /\ uidnext'[k] = IF k = n THEN u + 1 ELSE uidnext[k]
  BY <1>1 DEF TableFits
<1>3. \A p \in Uids : p[2] \in Names /\ p[3] \in Nat /\ p[3] < uidnext[p[2]]
  BY UidsAreTyped DEF UidsAreForOneMail
<1> DEFINE new == <<m, n, u>>
<1>4. new[1] = m /\ new[2] = n /\ new[3] = u
  OBVIOUS
<1>5. \A p \in Uids' : p \in Uids \/ p = new
  BY <1>1
<1> HIDE DEF new
<1>6. \A p \in Uids' : p[3] < uidnext'[p[2]]
  BY <1>1, <1>2, <1>3, <1>4, <1>5
<1>7. ASSUME NEW p \in Uids', NEW q \in Uids', p[2] = q[2], p[3] = q[3] PROVE p[1] = q[1]
  <2>1. CASE p \in Uids /\ q \in Uids
    BY <1>7, <2>1 DEF UidsAreForOneMail
  <2>2. CASE p = new /\ q = new
    BY <2>2
  <2>3. CASE (p \in Uids /\ q = new) \/ (p = new /\ q \in Uids)
    BY <1>1, <1>3, <1>4, <1>7, <2>3
  <2> QED BY <1>5, <2>1, <2>2, <2>3
<1> QED BY <1>6, <1>7 DEF UidsAreForOneMail

LEMMA SafeShrinks == ASSUME excused \subseteq excused' PROVE Safe' \subseteq Safe
BY DEF Safe

-----------------------------------------------------------------------------
(* Steps of one batch that leave the table as it is.                       *)

LEMMA ImportTypesHold == ImportInv => ImportTypeOK
<1> SUFFICES ASSUME ImportInv PROVE ImportTypeOK
  OBVIOUS
<1>1. ASSUME NEW s, BatchFits(s) PROVE BatchType(s)
  <2>1. /\ s \in BatchRecord /\ DOMAIN s.mine \subseteq DOMAIN rows /\ s.hit \in InView(s) \union {NoHit}
        /\ s.was \in RowType \union {NoRow}
    BY <1>1 DEF BatchFits
  <2> QED BY <2>1, BatchFields DEF BatchType
<1>2. \A b \in Importers : batch[b] = NoBatch \/ BatchType(batch[b])
  BY <1>1 DEF ImportInv, BatchesFit, Open
<1> QED BY <1>2 DEF ImportInv, TableFits, ImportTypeOK

\* A batch fits as long as rows and folders only come.
LEMMA FitsStays ==
    ASSUME NEW s, BatchFits(s), TableFits, DOMAIN rows \subseteq DOMAIN rows',
           folders' \in [Names -> Nat], \A n \in Names : folders[n] <= folders'[n]
    PROVE  BatchFits(s)'
<1>1. ASSUME NEW f, f[1] \in Names, f[2] \in Nat, HasFolder(s, f) PROVE HasFolder(s, f)'
  <2>1. folders[f[1]] \in Nat /\ folders'[f[1]] \in Nat /\ folders[f[1]] <= folders'[f[1]]
    BY <1>1 DEF TableFits
  <2> QED BY <1>1, <2>1 DEF HasFolder
<1>2. s \in BatchRecord
  BY DEF BatchFits
<1>3. \A r \in RowsOf(s) : HasFolder(s, r.folder)'
  BY <1>1, <1>2, BatchFields, ImportRowFields DEF BatchFits
<1>4. s.step = "write" => HasFolder(s, FolderOf(s, Head(s.todo).name))'
  <2> SUFFICES ASSUME s.step = "write" PROVE HasFolder(s, FolderOf(s, Head(s.todo).name))'
    OBVIOUS
  <2>1. s.todo # <<>> /\ s.todo \in Seq(Item)
    BY <1>2, BatchFields DEF BatchFits
  <2>2. Head(s.todo) \in Item
    BY <2>1
  <2>3. PICK n \in Names : n = Head(s.todo).name
    BY <2>2 DEF Item
  <2>4. PICK f \in Names \X Nat : f = FolderOf(s, n)
    <3>1. FolderOf(s, n) \in {<<n, 0>>, <<n, 1>>}
      BY DEF FolderOf
    <3> QED BY <3>1
  <2>5. HasFolder(s, f)'
    BY <1>1, <2>3, <2>4 DEF BatchFits
  <2> QED BY <2>3, <2>4, <2>5 DEF FolderOf
<1>5. s.hit \in (InView(s) \union {NoHit})'
  BY DEF BatchFits, InView, NoHit
<1> QED BY <1>2, <1>3, <1>4, <1>5 DEF BatchFits, RowsOf, BatchRecord

LEMMA BatchStep ==
    ASSUME ImportInv, NEW b \in Importers, NEW t, batch' = [batch EXCEPT ![b] = t],
           UNCHANGED <<serverVars, folders, rows, kept>>, excused \subseteq excused', excused' \subseteq Imported,
           t # NoBatch =>
             /\ BatchFits(t)
             /\ ToldOf(t) \subseteq Uids
             /\ \A r \in RowsOf(t) : r \in AllRows \/ r.mail \in excused' \/ SpeaksOfItsMail(r)
             /\ \A i \in DOMAIN t.mine :
                  /\ Unlocked(b, i)
                  /\ t.mine[i].mail # rows[i].mail => t.mine[i].mail \in excused'
                  /\ rows[i].mail \in Safe => t.mine[i].mail = rows[i].mail
                  /\ t.mine[i].mail \notin excused' => t.mine[i].folder = rows[i].folder
             /\ FindsItsOwn(t)
    PROVE  ImportInv'
<1>1. /\ TableFits /\ BatchesFit /\ LocksApart /\ UidsAreForOneMail /\ RowsSpeakTrue
      /\ SameMail /\ FoundItsOwn /\ KeptHaveRows
  BY DEF ImportInv
<1>2. UNCHANGED <<at, uidnext, folders, rows, kept>>
  BY DEF serverVars
<1>3. /\ DOMAIN batch' = Importers /\ batch'[b] = t
      /\ \A d \in Importers \ {b} : batch'[d] = batch[d]
  BY <1>1 DEF TableFits
<1>4. Open' \ {b} = Open \ {b} /\ (b \in Open' <=> t # NoBatch)
  BY <1>3 DEF Open
<1>5. BatchesFit'
  <2> SUFFICES ASSUME NEW d \in Open', NEW s, s = batch'[d] PROVE BatchFits(s)'
    BY DEF BatchesFit, BatchFits, HasFolder, FolderOf, InView, RowsOf
  <2>1. BatchFits(s)
    BY <1>1, <1>3, <1>4 DEF BatchesFit
  <2>2. folders \in [Names -> Nat]
    BY <1>1 DEF TableFits
  <2>3. \A n \in Names : folders[n] <= folders'[n]
    BY <1>2, <2>2
  <2> QED BY <1>1, <1>2, <2>1, <2>2, <2>3, FitsStays
<1>6. TableFits'
  BY <1>1, <1>2, <1>3 DEF TableFits
<1>7. LocksApart'
  <2> SUFFICES ASSUME NEW c \in Open', NEW d \in Open', c # d, NEW i \in DOMAIN batch'[c].mine, i \in DOMAIN batch'[d].mine
               PROVE  FALSE
    BY DEF LocksApart
  <2>1. CASE c = b
    BY <1>3, <1>4, <2>1 DEF Unlocked, Open
  <2>2. CASE d = b
    BY <1>3, <1>4, <2>2 DEF Unlocked, Open
  <2>3. CASE c # b /\ d # b
    BY <1>1, <1>3, <1>4, <2>3 DEF LocksApart, Open
  <2> QED BY <2>1, <2>2, <2>3
<1>8. \A r \in AllRows' : r \in AllRows \/ (b \in Open' /\ r \in RowsOf(t))
  <2> SUFFICES ASSUME NEW r \in AllRows', r \notin AllRows PROVE b \in Open' /\ r \in RowsOf(t)
    OBVIOUS
  <2>1. r \notin {rows'[i] : i \in DOMAIN rows'}
    BY <1>2 DEF AllRows
  <2>2. PICK d \in Open' : r \in RowsOf(batch'[d])
    BY <2>1 DEF AllRows, RowsOf
  <2>3. d = b
    BY <1>3, <1>4, <2>2 DEF AllRows, Open
  <2> QED BY <1>3, <2>2, <2>3
<1>9. \A r \in AllRows' : r.mail \in excused' \/ SpeaksOfItsMail(r)
  BY <1>1, <1>4, <1>8 DEF RowsSpeakTrue
<1>10. \A d \in Open' : ToldOf(batch'[d]) \subseteq Uids
  BY <1>3, <1>4 DEF Uids, ToldUids, Open
<1>11. \A m \in Imported : <<m, at'[m].name, at'[m].uid>> \in Uids \union {}
  BY <1>2 DEF Uids, TrueUids
<1>12. Uids' \subseteq Uids /\ RowsSpeakTrue'
  BY <1>9, <1>10, <1>11, UidsStep
<1>13. UidsAreForOneMail'
  BY <1>1, <1>2, <1>12, UidsStay
<1>14. Safe' \subseteq Safe
  BY SafeShrinks
<1>15. SameMail'
  <2> SUFFICES ASSUME NEW d \in Open', NEW i \in DOMAIN batch'[d].mine
               PROVE  /\ batch'[d].mine[i].mail # rows[i].mail => batch'[d].mine[i].mail \in excused'
                      /\ rows[i].mail \in Safe => batch'[d].mine[i].mail = rows[i].mail
                      /\ batch'[d].mine[i].mail \notin excused' => batch'[d].mine[i].folder = rows[i].folder
    BY <1>2, <1>14 DEF SameMail
  <2>1. CASE d = b
    BY <1>3, <1>4, <2>1
  <2>2. CASE d # b
    BY <1>1, <1>3, <1>4, <2>2 DEF SameMail, Open
  <2> QED BY <2>1, <2>2
<1>16. FoundItsOwn'
  <2> SUFFICES ASSUME NEW d \in Open', NEW s, s = batch'[d] PROVE FindsItsOwn(s)'
    BY DEF FoundItsOwn, FindsItsOwn, Viewed, FolderOf
  <2>1. FindsItsOwn(s)
    BY <1>1, <1>3, <1>4 DEF FoundItsOwn
  <2>2. Viewed(s, s.hit)' = Viewed(s, s.hit)
    BY <1>2 DEF Viewed
  <2> QED BY <1>14, <2>1, <2>2 DEF FindsItsOwn, FolderOf
<1>17. KeptHaveRows'
  BY <1>1, <1>2, <1>14 DEF KeptHaveRows, MailsOf
<1> QED BY <1>5, <1>6, <1>7, <1>12, <1>13, <1>15, <1>16, <1>17 DEF ImportInv

LEMMA ImportBegins ==
    ASSUME ImportInv, NEW b \in Importers, NEW mails \in Batches, NEW keys \in KeySets,
           BatchStarts(b, mails, keys)
    PROVE  ImportInv'
<1>1. PICK todo : todo = [k \in DOMAIN mails |-> [mail |-> mails[k], name |-> at[mails[k]].name,
                                                  uid |-> at[mails[k]].uid]]
  OBVIOUS
<1>2. PICK n \in Nat : mails \in [1..n -> Imported]
  BY ImportAssumptions DEF Batches
<1>3. \A k \in 1..n : /\ todo[k] \in Item
                      /\ <<todo[k].mail, todo[k].name, todo[k].uid>> \in TrueUids
  <2> SUFFICES ASSUME NEW k \in 1..n
               PROVE  todo[k] \in Item /\ <<todo[k].mail, todo[k].name, todo[k].uid>> \in TrueUids
    OBVIOUS
  <2>1. PICK m \in Imported : m = mails[k]
    BY <1>2
  <2>2. at[m] \in [name : Names, uid : Nat \ {0}]
    BY DEF ImportInv, TableFits
  <2>3. todo[k] = [mail |-> m, name |-> at[m].name, uid |-> at[m].uid]
    BY <1>1, <1>2, <2>1
  <2> QED BY <2>2, <2>3 DEF Item, TrueUids
<1>4. todo \in Seq(Item) /\ DOMAIN todo = 1..n
  <2>1. DOMAIN todo = 1..n
    BY <1>1, <1>2
  <2>2. todo = [k \in 1..n |-> todo[k]]
    BY <1>1, <2>1
  <2>3. todo \in [1..n -> Item]
    BY <1>3, <2>2
  <2> QED BY <2>1, <2>3
<1>5. PICK t : t = [step |-> "find", keys |-> keys, made |-> {}, mine |-> NoRows, new |-> <<>>,
                    hit |-> NoHit, was |-> NoRow, todo |-> todo]
  OBVIOUS
<1>6. keys \subseteq {"uid", "message_id", "remote_id"}
  BY ImportAssumptions
<1>7. NoRows \in Writings /\ NoHit \in {"none", "table", "own"} \X Nat /\ DOMAIN NoRows = {}
  <2>1. DOMAIN NoRows = {} /\ NoRows \in [{} -> RowType]
    BY DEF NoRows
  <2>2. NoHit \in {"none", "table", "own"} \X Nat
    BY DEF NoHit
  <2> QED BY <2>1, <2>2 DEF Writings
<1>8. t \in BatchRecord
  BY <1>4, <1>5, <1>6, <1>7 DEF BatchRecord
<1>9. /\ DOMAIN t.mine = {} /\ DOMAIN t.new = {} /\ t.step = "find" /\ t.hit = NoHit
      /\ t.was = NoRow /\ t.todo = todo
  BY <1>5, <1>7
<1>10. RowsOf(t) = {}
  BY <1>9 DEF RowsOf
<1>11. BatchFits(t)
  BY <1>8, <1>9, <1>10 DEF BatchFits
<1>12. ToldOf(t) \subseteq Uids
  BY <1>3, <1>4, <1>9 DEF ToldOf, Uids
<1>13. batch' = [batch EXCEPT ![b] = t] /\ UNCHANGED <<serverVars, folders, rows, kept, excused>>
  BY <1>1, <1>5 DEF BatchStarts, importHistory
<1>14. excused \subseteq Imported
  BY DEF ImportInv, TableFits
<1> QED BY <1>9, <1>10, <1>11, <1>12, <1>13, <1>14, BatchStep DEF FindsItsOwn

\* A batch at work.
LEMMA BatchAtWork ==
    ASSUME ImportInv, NEW b \in Importers, batch[b].step # "none",
           NEW s, s = batch[b]
    PROVE  /\ b \in Open /\ BatchFits(s) /\ s \in BatchRecord /\ ToldOf(s) \subseteq Uids
           /\ RowsOf(s) \subseteq AllRows /\ FindsItsOwn(s)
           /\ \A i \in DOMAIN s.mine :
                /\ Unlocked(b, i)
                /\ s.mine[i].mail # rows[i].mail => s.mine[i].mail \in excused
                /\ rows[i].mail \in Safe => s.mine[i].mail = rows[i].mail
                /\ s.mine[i].mail \notin excused => s.mine[i].folder = rows[i].folder
<1>1. b \in Open
  BY DEF Open, NoBatch
<1>2. BatchFits(s) /\ s \in BatchRecord /\ FindsItsOwn(s)
  BY <1>1 DEF ImportInv, BatchesFit, BatchFits, FoundItsOwn
<1>3. ToldOf(s) \subseteq Uids /\ RowsOf(s) \subseteq AllRows
  BY <1>1 DEF Uids, ToldUids, AllRows
<1>4. ASSUME NEW i \in DOMAIN s.mine
      PROVE  /\ s.mine[i].mail # rows[i].mail => s.mine[i].mail \in excused
             /\ rows[i].mail \in Safe => s.mine[i].mail = rows[i].mail
             /\ s.mine[i].mail \notin excused => s.mine[i].folder = rows[i].folder
  BY <1>1 DEF ImportInv, SameMail
<1>5. ASSUME NEW i \in DOMAIN s.mine PROVE Unlocked(b, i)
  <2>1. \A d \in Importers \ Open : DOMAIN batch[d].mine = {}
    BY DEF Open, NoBatch, NoRows
  <2> QED BY <1>1, <2>1 DEF Unlocked, ImportInv, LocksApart
<1> QED BY <1>1, <1>2, <1>3, <1>4, <1>5

\* The first of the mails that are left.
LEMMA FirstItem ==
    ASSUME NEW s \in BatchRecord, s.todo # <<>>
    PROVE  /\ Head(s.todo) \in Item /\ Tail(s.todo) \in Seq(Item)
           /\ <<Head(s.todo).mail, Head(s.todo).name, Head(s.todo).uid>> \in ToldOf(s)
           /\ \A t : t.todo = Tail(s.todo) => ToldOf(t) \subseteq ToldOf(s)
<1>1. PICK todo \in Seq(Item) : todo = s.todo /\ todo # <<>>
  BY BatchFields
<1>2. PICK n \in Nat : n = Len(todo) /\ DOMAIN todo = 1..n /\ 1 \in 1..n
  BY <1>1
<1>3. Head(todo) = todo[1] /\ Head(todo) \in Item /\ Tail(todo) \in Seq(Item)
  BY <1>1, <1>2
<1>4. \A k \in DOMAIN Tail(todo) : k + 1 \in DOMAIN todo /\ Tail(todo)[k] = todo[k + 1]
  BY <1>1, <1>2
<1>5. ASSUME NEW t, t.todo = Tail(todo) PROVE ToldOf(t) \subseteq ToldOf(s)
  BY <1>1, <1>4, <1>5 DEF ToldOf
<1>6. <<Head(todo).mail, Head(todo).name, Head(todo).uid>> \in ToldOf(s)
  BY <1>1, <1>2, <1>3 DEF ToldOf
<1> QED BY <1>1, <1>3, <1>5, <1>6

LEMMA ImportSkips == ASSUME ImportInv, NEW b \in Importers, Skips(b) PROVE ImportInv'
<1>1. PICK s : s = batch[b]
  OBVIOUS
<1>2. /\ s.step = "find" /\ s.todo # <<>>
      /\ batch' = [batch EXCEPT ![b] = [s EXCEPT !.todo = Tail(s.todo)]]
      /\ UNCHANGED <<serverVars, folders, rows, kept, excused>>
  BY <1>1 DEF Skips, importHistory
<1>3. /\ BatchFits(s) /\ s \in BatchRecord /\ ToldOf(s) \subseteq Uids /\ RowsOf(s) \subseteq AllRows
      /\ FindsItsOwn(s)
      /\ \A i \in DOMAIN s.mine :
           /\ Unlocked(b, i)
           /\ s.mine[i].mail # rows[i].mail => s.mine[i].mail \in excused
           /\ rows[i].mail \in Safe => s.mine[i].mail = rows[i].mail
           /\ s.mine[i].mail \notin excused => s.mine[i].folder = rows[i].folder
  BY <1>1, <1>2, BatchAtWork
<1>4. Tail(s.todo) \in Seq(Item)
  BY <1>2, <1>3, FirstItem
<1>5. PICK t : t = [s EXCEPT !.todo = Tail(s.todo)]
  OBVIOUS
<1>6. /\ t \in BatchRecord /\ t.step = "find" /\ t.mine = s.mine /\ t.new = s.new /\ t.made = s.made
      /\ t.hit = s.hit /\ t.was = s.was /\ t.todo = Tail(s.todo)
  BY <1>2, <1>3, <1>4, <1>5 DEF BatchRecord
<1>7. RowsOf(t) = RowsOf(s) /\ InView(t) = InView(s) /\ \A f : HasFolder(t, f) <=> HasFolder(s, f)
  BY <1>6 DEF RowsOf, InView, HasFolder
<1>8. BatchFits(t)
  BY <1>3, <1>6, <1>7 DEF BatchFits
<1>9. ToldOf(t) \subseteq Uids
  BY <1>2, <1>3, <1>6, FirstItem
<1>10. excused \subseteq Imported
  BY DEF ImportInv, TableFits
<1>11. batch' = [batch EXCEPT ![b] = t] /\ UNCHANGED <<serverVars, folders, rows, kept, excused>>
  BY <1>2, <1>5
<1>12. FindsItsOwn(t)
  <2>1. Viewed(t, t.hit) = Viewed(s, s.hit)
    BY <1>6 DEF Viewed
  <2>2. FindsItsOwn(s)
    BY <1>3
  <2>3. s.hit # NoHit => (Viewed(s, s.hit).mail \notin excused => s.was.mail = Viewed(s, s.hit).mail)
    BY <2>2 DEF FindsItsOwn
  <2>4. t.step # "write" /\ t.hit = s.hit /\ t.was = s.was
    BY <1>6
  <2>5. t.hit # NoHit => (Viewed(t, t.hit).mail \notin excused => t.was.mail = Viewed(t, t.hit).mail)
    BY <2>1, <2>3, <2>4
  <2> QED BY <2>4, <2>5, Zenon DEF FindsItsOwn
<1>13. \A i \in DOMAIN t.mine :
         /\ Unlocked(b, i)
         /\ t.mine[i].mail # rows[i].mail => t.mine[i].mail \in excused
         /\ rows[i].mail \in Safe => t.mine[i].mail = rows[i].mail
         /\ t.mine[i].mail \notin excused => t.mine[i].folder = rows[i].folder
  BY <1>3, <1>6
<1>14. \A r \in RowsOf(t) : r \in AllRows
  BY <1>3, <1>7
<1> QED BY <1>8, <1>9, <1>10, <1>11, <1>12, <1>13, <1>14, BatchStep

LEMMA ImportBreaks == ASSUME ImportInv, NEW b \in Importers, BatchFails(b) PROVE ImportInv'
<1>1. excused \subseteq Imported
  BY DEF ImportInv, TableFits
<1>2. batch' = [batch EXCEPT ![b] = NoBatch] /\ UNCHANGED <<serverVars, folders, rows, kept, excused>>
  BY DEF BatchFails, importHistory
<1> QED BY <1>1, <1>2, BatchStep

\* A row that a batch sees.
LEMMA ViewedRow ==
    ASSUME TableFits, NEW s \in BatchRecord, RowsOf(s) \subseteq AllRows, NEW h \in InView(s)
    PROVE  Viewed(s, h) \in AllRows /\ Viewed(s, h) \in RowType
<1>1. CASE h \in {"table"} \X DOMAIN rows
  <2>1. PICK i \in DOMAIN rows : h[1] = "table" /\ h[2] = i
    BY <1>1
  <2>2. CASE i \in DOMAIN s.mine
    <3>1. Viewed(s, h) = s.mine[i]
      BY <2>1, <2>2 DEF Viewed
    <3> QED BY <2>2, <3>1, BatchFields DEF RowsOf
  <2>3. CASE i \notin DOMAIN s.mine
    <3>1. Viewed(s, h) = rows[i]
      BY <2>1, <2>3 DEF Viewed
    <3> QED BY <3>1 DEF AllRows, TableFits
  <2> QED BY <2>2, <2>3
<1>2. CASE h \in {"own"} \X DOMAIN s.new
  <2>1. PICK k \in DOMAIN s.new : h[1] = "own" /\ h[2] = k
    BY <1>2
  <2>2. Viewed(s, h) = s.new[k]
    BY <2>1 DEF Viewed
  <2> QED BY <2>2, BatchFields DEF RowsOf
<1> QED BY <1>1, <1>2 DEF InView

\* The row of a mail that is not excused and looks like no other is found only for it:
\* by a UID, which is its own, by its Message-ID, by the id the client has for it, or by
\* its looks.
LEMMA FoundForItself ==
    ASSUME ImportInv, NEW s \in BatchRecord, RowsOf(s) \subseteq AllRows,
           NEW item \in Item, <<item.mail, item.name, item.uid>> \in Uids,
           NEW h \in Candidates(s, item), Viewed(s, h).mail \in Safe
    PROVE  item.mail = Viewed(s, h).mail
<1>1. PICK key \in 1..4 : h \in Matching(s, item, key)
  BY DEF Candidates
<1>2. PICK r : r = Viewed(s, h)
  OBVIOUS
<1>3. h \in InView(s) /\ r.folder = FolderOf(s, item.name) /\ Agrees(s, item, r, key)
  BY <1>1, <1>2 DEF Matching
<1>4. r \in AllRows /\ r \in RowType
  BY <1>2, <1>3, ViewedRow DEF ImportInv
<1>5. r.mail \in Safe /\ r.mail \notin excused
  BY <1>2 DEF Safe
<1>6. SpeaksOfItsMail(r)
  BY <1>4, <1>5 DEF ImportInv, RowsSpeakTrue
<1>7. /\ item.mail \in Imported /\ item.name \in Names /\ item.uid \in Nat \ {0}
      /\ Imported \subseteq Nat \ {0}
  BY ImportAssumptions DEF Item, Imported
<1>8. CASE key = 1
  <2>1. r.uid = item.uid
    BY <1>3, <1>8 DEF Agrees
  <2>2. r.folder[1] = item.name
    BY <1>3 DEF FolderOf
  <2>3. <<r.mail, item.name, item.uid>> \in Uids
    BY <1>6, <1>7, <2>1, <2>2 DEF SpeaksOfItsMail
  <2>4. \A p, q \in Uids : p[2] = q[2] /\ p[3] = q[3] => p[1] = q[1]
    BY DEF ImportInv, UidsAreForOneMail
  <2> HIDE DEF Uids
  <2>5. <<r.mail, item.name, item.uid>>[1] = <<item.mail, item.name, item.uid>>[1]
    BY <2>3, <2>4
  <2> QED BY <1>2, <2>5
<1>9. CASE key = 2
  <2>1. r.mid = MessageId(item.mail) /\ r.mid # 0
    BY <1>3, <1>9 DEF Agrees
  <2> QED BY <1>2, <1>6, <2>1 DEF MessageId, SpeaksOfItsMail
<1>10. CASE key = 3
  <2>1. r.rid = item.mail
    BY <1>3, <1>10 DEF Agrees
  <2> QED BY <1>2, <1>6, <1>7, <2>1 DEF SpeaksOfItsMail
<1>11. CASE key = 4
  <2>1. Look[r.mail] = Look[item.mail]
    BY <1>3, <1>11 DEF Agrees
  <2> QED BY <1>2, <1>5, <1>7, <2>1 DEF Safe
<1> QED BY <1>8, <1>9, <1>10, <1>11

LEMMA ImportFinds == ASSUME ImportInv, NEW b \in Importers, Finds(b) PROVE ImportInv'
<1>1. PICK s : s = batch[b]
  OBVIOUS
<1>2. PICK item : item = Head(s.todo)
  OBVIOUS
<1>3. PICK made : made = IF FoldersOf(s, item.name) = 0 THEN s.made \union {item.name} ELSE s.made
  OBVIOUS
<1>4. PICK w : w = [s EXCEPT !.made = made]
  OBVIOUS
<1>5. PICK found : found = Candidates(w, item)
  OBVIOUS
<1>6. PICK h, was :
        /\ \/ h = NoHit /\ was = NoRow
           \/ h \in found /\ h = w.hit /\ was = w.was
           \/ h \in found /\ was = Viewed(w, h)
        /\ Holds(b, w, h, was)
  <2>1. \/ found = {} /\ Holds(b, w, NoHit, NoRow)
        \/ w.hit \in found /\ Holds(b, w, w.hit, w.was)
        \/ \E x \in found \ {w.hit} : Holds(b, w, x, Viewed(w, x))
    BY <1>1, <1>2, <1>3, <1>4, <1>5, Zenon DEF Finds
  <2> QED BY <2>1, Zenon
<1>7. /\ s.step = "find" /\ s.todo # <<>> /\ FoldersOf(w, item.name) = 1
      /\ batch' = [batch EXCEPT ![b] = [w EXCEPT !.step = "write", !.hit = h, !.was = was]]
      /\ UNCHANGED <<serverVars, folders, rows, kept, excused>>
  BY <1>1, <1>2, <1>3, <1>4, <1>6, Zenon DEF Finds, Holds, importHistory
<1>8. /\ BatchFits(s) /\ s \in BatchRecord /\ ToldOf(s) \subseteq Uids /\ RowsOf(s) \subseteq AllRows
      /\ FindsItsOwn(s)
      /\ \A i \in DOMAIN s.mine :
           /\ Unlocked(b, i)
           /\ s.mine[i].mail # rows[i].mail => s.mine[i].mail \in excused
           /\ rows[i].mail \in Safe => s.mine[i].mail = rows[i].mail
           /\ s.mine[i].mail \notin excused => s.mine[i].folder = rows[i].folder
  BY <1>1, <1>7, BatchAtWork
<1>9. item \in Item /\ item.name \in Names /\ <<item.mail, item.name, item.uid>> \in Uids
  BY <1>2, <1>7, <1>8, FirstItem DEF Item
<1>10. made \subseteq Names /\ s.made \subseteq made
  BY <1>3, <1>8, <1>9, BatchFields
<1>11. /\ w \in BatchRecord /\ w.step = s.step /\ w.keys = s.keys /\ w.mine = s.mine /\ w.new = s.new
       /\ w.made = made /\ w.todo = s.todo /\ w.hit = s.hit /\ w.was = s.was
  BY <1>4, <1>8, <1>10 DEF BatchRecord
<1>12. RowsOf(w) = RowsOf(s) /\ InView(w) = InView(s)
  BY <1>11 DEF RowsOf, InView
<1>13. h = NoHit \/ h \in Candidates(w, item)
  BY <1>5, <1>6, Zenon
<1>14. /\ h = NoHit \/ h \in InView(w)
       /\ h # NoHit => h \in InView(w) /\ Viewed(w, h).folder = FolderOf(w, item.name)
  BY <1>13 DEF Candidates, Matching
\* What the session has of the row is of the same mail.
<1>27. /\ was \in RowType \union {NoRow}
       /\ h = NoHit => was = NoRow
       /\ h # NoHit => was \in RowType /\ (Viewed(w, h).mail \notin excused => was.mail = Viewed(w, h).mail)
  <2>1. CASE h = NoHit /\ was = NoRow
    BY <2>1
  <2>2. CASE h \in found /\ h = w.hit /\ was = w.was
    <3>1. h = s.hit /\ was = s.was /\ Viewed(w, h) = Viewed(s, s.hit)
      BY <1>11, <2>2 DEF Viewed
    <3>2. was \in RowType \union {NoRow} /\ (IF h = NoHit THEN was = NoRow ELSE was \in RowType)
      BY <1>8, <3>1 DEF BatchFits, BatchRecord
    <3> QED BY <1>8, <3>1, <3>2 DEF FindsItsOwn
  <2>3. CASE h \in found /\ was = Viewed(w, h)
    <3>1. h \in InView(w) /\ h # NoHit
      BY <1>5, <2>3 DEF Candidates, Matching, InView, NoHit
    <3> QED BY <1>8, <1>11, <1>12, <2>3, <3>1, ViewedRow DEF ImportInv
  <2> QED BY <1>6, <2>1, <2>2, <2>3
<1>15. h \in {"none", "table", "own"} \X Nat
  <2>1. DOMAIN rows \subseteq Nat
    BY DEF ImportInv, TableFits
  <2>2. DOMAIN w.new \subseteq Nat
    BY <1>11, BatchFields
  <2> QED BY <1>14, <2>1, <2>2 DEF InView, NoHit
<1>16. PICK t : t = [w EXCEPT !.step = "write", !.hit = h, !.was = was]
  OBVIOUS
<1>17. /\ t \in BatchRecord /\ t.step = "write" /\ t.mine = s.mine /\ t.new = s.new /\ t.made = made
       /\ t.todo = s.todo /\ t.hit = h /\ t.was = was
  BY <1>11, <1>15, <1>16, <1>27 DEF BatchRecord
<1>18. RowsOf(t) = RowsOf(s) /\ InView(t) = InView(s) /\ ToldOf(t) = ToldOf(s)
  BY <1>17 DEF RowsOf, InView, ToldOf
<1>19. \A f : HasFolder(s, f) => HasFolder(t, f)
  BY <1>10, <1>17 DEF HasFolder
\* The folder of the mail is there, or the batch makes it.
<1>20. HasFolder(t, FolderOf(t, item.name))
  <2>1. CASE item.name \in made
    BY <1>17, <2>1 DEF HasFolder, FolderOf
  <2>2. CASE item.name \notin made
    <3>1. made \intersect {item.name} = {}
      BY <2>2
    <3>2. Cardinality(made \intersect {item.name}) = 0
      BY <3>1, FS_EmptySet
    <3>3. folders[item.name] \in Nat
      BY <1>9 DEF ImportInv, TableFits
    <3>4. folders[item.name] = 1
      BY <1>7, <1>11, <3>2, <3>3 DEF FoldersOf
    <3>5. FolderOf(t, item.name) = <<item.name, 1>>
      BY <1>17, <2>2 DEF FolderOf
    <3> QED BY <3>4, <3>5 DEF HasFolder
  <2> QED BY <2>1, <2>2
<1>21. BatchFits(t)
  BY <1>2, <1>7, <1>8, <1>12, <1>14, <1>17, <1>18, <1>19, <1>20, <1>27 DEF BatchFits
<1>22. Viewed(t, h) = Viewed(w, h)
  BY <1>11, <1>17 DEF Viewed
<1>23. FindsItsOwn(t)
  <2> SUFFICES ASSUME h # NoHit
               PROVE  /\ Viewed(w, h).mail \in Safe => item.mail = Viewed(w, h).mail
                      /\ Viewed(w, h).mail \notin excused => was.mail = Viewed(w, h).mail
                      /\ Viewed(w, h).folder = FolderOf(t, item.name)
    BY <1>2, <1>17, <1>22 DEF FindsItsOwn
  <2>1. FolderOf(t, item.name) = FolderOf(w, item.name)
    BY <1>11, <1>17 DEF FolderOf
  <2>2. Viewed(w, h).mail \in Safe => item.mail = Viewed(w, h).mail
    BY <1>8, <1>9, <1>11, <1>12, <1>13, FoundForItself
  <2> QED BY <1>14, <1>27, <2>1, <2>2
<1>24. excused \subseteq Imported
  BY DEF ImportInv, TableFits
<1>25. batch' = [batch EXCEPT ![b] = t]
  BY <1>7, <1>16
<1>26. /\ ToldOf(t) \subseteq Uids /\ RowsOf(t) \subseteq AllRows
       /\ \A i \in DOMAIN t.mine :
            /\ Unlocked(b, i)
            /\ t.mine[i].mail # rows[i].mail => t.mine[i].mail \in excused'
            /\ rows[i].mail \in Safe => t.mine[i].mail = rows[i].mail
            /\ t.mine[i].mail \notin excused' => t.mine[i].folder = rows[i].folder
  BY <1>7, <1>8, <1>17, <1>18
<1>28. excused \subseteq excused' /\ excused' \subseteq Imported /\ UNCHANGED <<serverVars, folders, rows, kept>>
  BY <1>7, <1>24
<1> QED BY <1>21, <1>23, <1>25, <1>26, <1>28, BatchStep

\* What is written over a row is of the mail in hand.
LEMMA AppliedRow ==
    ASSUME NEW s \in BatchRecord, NEW item \in Item, NEW row,
           row = NoRow \/ row \in RowType,
           NEW r, r = Applied(s, item, row)
    PROVE  /\ r \in RowType /\ r.mail = item.mail /\ r.folder = FolderOf(s, item.name)
           /\ r.uid \in {0, item.uid}
           /\ r.mid \in {item.mail, row.mid} /\ r.rid \in {item.mail, row.rid}
<1>1. /\ item.mail \in Imported /\ item.name \in Names /\ item.uid \in Nat
      /\ Imported \subseteq Nat \ {0}
  BY ImportAssumptions DEF Item, Imported
<1>2. row.mid \in Nat /\ row.rid \in Nat
  BY ImportRowFields DEF NoRow
<1>3. FolderOf(s, item.name) \in FolderType
  <2>1. FolderOf(s, item.name) \in {<<item.name, 0>>, <<item.name, 1>>}
    BY DEF FolderOf
  <2> QED BY <1>1, <2>1 DEF FolderType
<1>4. PICK uid, mid, rid :
        /\ uid = IF "uid" \in s.keys THEN item.uid ELSE 0
        /\ mid = IF "message_id" \in s.keys /\ MessageId(item.mail) # 0 THEN MessageId(item.mail) ELSE row.mid
        /\ rid = IF "remote_id" \in s.keys THEN item.mail ELSE row.rid
  OBVIOUS
<1>5. uid \in {0, item.uid} /\ mid \in {item.mail, row.mid} /\ rid \in {item.mail, row.rid}
  BY <1>4 DEF MessageId
<1>6. uid \in Nat /\ mid \in Nat /\ rid \in Nat
  <2>1. item.mail \in Nat
    BY <1>1
  <2> HIDE DEF Imported
  <2> QED BY <1>1, <1>2, <1>5, <2>1
<1>7. r = [mail |-> item.mail, folder |-> FolderOf(s, item.name), uid |-> uid, mid |-> mid, rid |-> rid]
  BY <1>4, Zenon DEF Applied
<1> HIDE DEF FolderType
<1> QED BY <1>1, <1>3, <1>5, <1>6, <1>7 DEF RowType

\* What is written over a row is, column by column, of the row or of the mail in hand.
LEMMA UpdatedRow ==
    ASSUME NEW was \in RowType, NEW new \in RowType, NEW seen \in RowType,
           NEW r, r = Updated(was, new, seen)
    PROVE  /\ r \in RowType
           /\ r.mail = Column(was.mail, seen.mail, new.mail)
           /\ r.folder = Column(was.folder, seen.folder, new.folder)
           /\ r.uid = Column(was.uid, seen.uid, new.uid)
           /\ r.mid = Column(was.mid, seen.mid, new.mid)
           /\ r.rid = Column(was.rid, seen.rid, new.rid)
<1>1. /\ Column(was.mail, seen.mail, new.mail) \in Imported
      /\ Column(was.folder, seen.folder, new.folder) \in FolderType
      /\ Column(was.uid, seen.uid, new.uid) \in Nat
      /\ Column(was.mid, seen.mid, new.mid) \in Nat
      /\ Column(was.rid, seen.rid, new.rid) \in Nat
  BY DEF Column, RowType
<1> HIDE DEF Column
<1> QED BY <1>1 DEF Updated, RowType

\* A row is added, or written over one of its own or one of the table.
TakesIn(b, s, t, r) ==
    \/ /\ s.hit = NoHit
       /\ t.mine = s.mine /\ t.new = Append(s.new, r)
    \/ /\ s.hit[1] = "own" /\ s.hit[2] \in DOMAIN s.new
       /\ t.mine = s.mine /\ t.new = [s.new EXCEPT ![s.hit[2]] = r]
    \/ /\ s.hit[1] = "table" /\ s.hit[2] \in DOMAIN rows /\ Unlocked(b, s.hit[2])
       /\ DOMAIN t.mine = DOMAIN s.mine \union {s.hit[2]}
       /\ \A i \in DOMAIN t.mine : t.mine[i] = IF i = s.hit[2] THEN r ELSE s.mine[i]
       /\ t.new = s.new

\* What a batch makes of the row in hand.
LEMMA WritesIs ==
    ASSUME ImportInv, NEW b \in Importers, NEW s, s = batch[b], NEW item, item = Head(s.todo),
           NEW seen, seen = Viewed(s, s.hit), NEW new, new = Applied(s, item, s.was), Writes(b)
    PROVE  \E t \in BatchRecord, r \in RowType :
             /\ batch' = [batch EXCEPT ![b] = t]
             /\ t.step = "find" /\ t.made = s.made /\ t.hit = s.hit /\ t.todo = Tail(s.todo)
             /\ new \in RowType
             /\ s.hit = NoHit => r = new /\ s.was = NoRow /\ t.was = NoRow
             /\ s.hit # NoHit => r = Updated(s.was, new, seen) /\ t.was = new
             /\ TakesIn(b, s, t, r)
<1>1. s.step = "write"
  BY DEF Writes
<1>2. /\ BatchFits(s) /\ s \in BatchRecord /\ RowsOf(s) \subseteq AllRows /\ TableFits
      /\ s.todo # <<>> /\ s.hit \in InView(s) \union {NoHit}
      /\ s.was \in RowType \union {NoRow}
  BY <1>1, BatchAtWork DEF BatchFits, BatchRecord, ImportInv
<1>3. item \in Item /\ Tail(s.todo) \in Seq(Item)
  BY <1>2, FirstItem
<1>4. /\ s.mine \in [DOMAIN s.mine -> RowType] /\ DOMAIN s.mine \subseteq Nat
      /\ s.new \in Seq(RowType)
  BY <1>2, BatchFields
<1>5. new \in RowType
  BY <1>2, <1>3, AppliedRow
<1>6. PICK done : done = [s EXCEPT !.step = "find", !.todo = Tail(s.todo)]
  OBVIOUS
<1>7. /\ done \in BatchRecord /\ done.step = "find" /\ done.made = s.made /\ done.hit = s.hit
      /\ done.was = s.was /\ done.todo = Tail(s.todo) /\ done.mine = s.mine /\ done.new = s.new
  BY <1>2, <1>3, <1>6 DEF BatchRecord
<1>8. PICK held : held = [done EXCEPT !.was = new]
  OBVIOUS
<1>9. /\ held \in BatchRecord /\ held.step = "find" /\ held.made = s.made /\ held.hit = s.hit
      /\ held.todo = Tail(s.todo) /\ held.mine = s.mine /\ held.new = s.new /\ held.was = new
  BY <1>5, <1>7, <1>8 DEF BatchRecord
<1>10. PICK row : row = Updated(s.was, new, seen)
  OBVIOUS
<1>11. s.hit # NoHit => row \in RowType
  <2> SUFFICES ASSUME s.hit # NoHit PROVE row \in RowType
    OBVIOUS
  <2>1. s.was \in RowType
    BY <1>2 DEF BatchFits
  <2>2. seen \in RowType
    BY <1>2, ViewedRow
  <2> QED BY <1>5, <1>10, <2>1, <2>2, UpdatedRow
<1>12. \/ /\ s.hit = NoHit
          /\ batch' = [batch EXCEPT ![b] = [done EXCEPT !.new = Append(@, new)]]
       \/ /\ s.hit[1] = "own"
          /\ batch' = [batch EXCEPT ![b] = [held EXCEPT !.new[s.hit[2]] = row]]
       \/ /\ s.hit[1] = "table"
          /\ Unlocked(b, s.hit[2])
          /\ batch' = [batch EXCEPT ![b] = [held EXCEPT !.mine =
                         [i \in DOMAIN @ \union {s.hit[2]} |-> IF i = s.hit[2] THEN row ELSE @[i]]]]
  BY <1>6, <1>8, <1>10, SMTT(30) DEF Writes
<1>13. CASE s.hit = NoHit
  <2>1. Append(s.new, new) \in Seq(RowType)
    BY <1>4, <1>5
  <2>2. PICK t : t = [done EXCEPT !.new = Append(s.new, new)]
    OBVIOUS
  <2>3. /\ t \in BatchRecord /\ t.step = "find" /\ t.made = s.made /\ t.hit = s.hit
        /\ t.todo = Tail(s.todo) /\ t.mine = s.mine /\ t.new = Append(s.new, new) /\ t.was = s.was
    BY <1>7, <2>1, <2>2 DEF BatchRecord
  <2>4. batch' = [batch EXCEPT ![b] = t]
    <3>1. s.hit[1] # "own" /\ s.hit[1] # "table"
      BY <1>13 DEF NoHit
    <3> QED BY <1>7, <1>12, <2>2, <3>1
  <2>5. TakesIn(b, s, t, new)
    BY <1>13, <2>3 DEF TakesIn
  <2>6. s.was = NoRow
    BY <1>2, <1>13 DEF BatchFits
  <2> QED BY <1>5, <1>13, <2>3, <2>4, <2>5, <2>6
<1>14. CASE s.hit # NoHit /\ s.hit[1] = "own"
  <2>1. PICK k \in DOMAIN s.new : k = s.hit[2]
    BY <1>2, <1>14 DEF InView
  <2>2. [s.new EXCEPT ![k] = row] \in Seq(RowType)
    BY <1>4, <1>11, <1>14, <2>1
  <2>3. PICK t : t = [held EXCEPT !.new = [s.new EXCEPT ![k] = row]]
    OBVIOUS
  <2>4. /\ t \in BatchRecord /\ t.step = "find" /\ t.made = s.made /\ t.hit = s.hit /\ t.was = new
        /\ t.todo = Tail(s.todo) /\ t.mine = s.mine /\ t.new = [s.new EXCEPT ![k] = row]
    BY <1>9, <2>2, <2>3 DEF BatchRecord
  <2>5. batch' = [batch EXCEPT ![b] = t]
    BY <1>9, <1>12, <1>14, <2>1, <2>3
  <2>6. TakesIn(b, s, t, row)
    BY <1>14, <2>1, <2>4 DEF TakesIn
  <2> QED BY <1>5, <1>10, <1>11, <1>14, <2>4, <2>5, <2>6
<1>15. CASE s.hit # NoHit /\ s.hit[1] = "table"
  <2>1. PICK j \in DOMAIN rows : j = s.hit[2] /\ j \in Nat
    BY <1>2, <1>15 DEF InView, TableFits
  <2>2. PICK mine : mine = [i \in DOMAIN s.mine \union {j} |-> IF i = j THEN row ELSE s.mine[i]]
    OBVIOUS
  <2>3. mine \in Writings
    <3>1. DOMAIN s.mine \union {j} \in SUBSET Nat
      BY <1>4, <2>1
    <3>2. mine \in [DOMAIN s.mine \union {j} -> RowType]
      BY <1>4, <1>11, <1>15, <2>2
    <3> QED BY <3>1, <3>2 DEF Writings
  <2>4. PICK t : t = [held EXCEPT !.mine = mine]
    OBVIOUS
  <2>5. /\ t \in BatchRecord /\ t.step = "find" /\ t.made = s.made /\ t.hit = s.hit /\ t.was = new
        /\ t.todo = Tail(s.todo) /\ t.mine = mine /\ t.new = s.new
    BY <1>9, <2>3, <2>4 DEF BatchRecord
  <2>6. Unlocked(b, s.hit[2]) /\ batch' = [batch EXCEPT ![b] = t]
    BY <1>9, <1>12, <1>15, <2>1, <2>2, <2>4
  <2>7. TakesIn(b, s, t, row)
    BY <1>15, <2>1, <2>2, <2>5, <2>6 DEF TakesIn
  <2> QED BY <1>5, <1>10, <1>11, <1>15, <2>5, <2>6, <2>7
<1> QED BY <1>2, <1>13, <1>14, <1>15 DEF InView

LEMMA ImportWrites == ASSUME ImportInv, NEW b \in Importers, Writes(b) PROVE ImportInv'
<1>1. PICK s : s = batch[b]
  OBVIOUS
<1>2. PICK item : item = Head(s.todo)
  OBVIOUS
<1>3. PICK seen : seen = Viewed(s, s.hit)
  OBVIOUS
<1>4. PICK new : new = Applied(s, item, s.was)
  OBVIOUS
<1>5. PICK t \in BatchRecord, r \in RowType :
        /\ batch' = [batch EXCEPT ![b] = t]
        /\ t.step = "find" /\ t.made = s.made /\ t.hit = s.hit /\ t.todo = Tail(s.todo)
        /\ new \in RowType
        /\ s.hit = NoHit => r = new /\ s.was = NoRow /\ t.was = NoRow
        /\ s.hit # NoHit => r = Updated(s.was, new, seen) /\ t.was = new
        /\ TakesIn(b, s, t, r)
  BY <1>1, <1>2, <1>3, <1>4, WritesIs
<1>6. s.step = "write" /\ UNCHANGED <<serverVars, folders, rows, kept>>
  BY <1>1 DEF Writes
<1>7. /\ BatchFits(s) /\ s \in BatchRecord /\ ToldOf(s) \subseteq Uids /\ RowsOf(s) \subseteq AllRows
      /\ FindsItsOwn(s) /\ s.todo # <<>> /\ TableFits /\ excused \subseteq Imported
      /\ \A i \in DOMAIN s.mine :
           /\ Unlocked(b, i)
           /\ s.mine[i].mail # rows[i].mail => s.mine[i].mail \in excused
           /\ rows[i].mail \in Safe => s.mine[i].mail = rows[i].mail
           /\ s.mine[i].mail \notin excused => s.mine[i].folder = rows[i].folder
  BY <1>1, <1>6, BatchAtWork DEF BatchFits, ImportInv, TableFits
<1>8. /\ item \in Item /\ item.mail \in Imported /\ <<item.mail, item.name, item.uid>> \in Uids
      /\ ToldOf(t) \subseteq Uids
  BY <1>2, <1>5, <1>7, FirstItem DEF Item
<1>9. /\ new.mail = item.mail /\ new.folder = FolderOf(s, item.name) /\ new.uid \in {0, item.uid}
      /\ new.mid \in {item.mail, s.was.mid} /\ new.rid \in {item.mail, s.was.rid}
  <2>1. s.was = NoRow \/ s.was \in RowType
    BY <1>7 DEF BatchRecord
  <2> QED BY <1>4, <1>7, <1>8, <2>1, AppliedRow
<1>10. s.hit \in InView(s) \union {NoHit}
  BY <1>7 DEF BatchFits
<1>11. \A x \in RowsOf(t) : x = r \/ x \in RowsOf(s)
  <2>1. s.new \in Seq(RowType)
    BY <1>7, BatchFields
  <2>2. ASSUME NEW k \in DOMAIN t.new PROVE t.new[k] = r \/ (k \in DOMAIN s.new /\ t.new[k] = s.new[k])
    <3>1. CASE t.new = Append(s.new, r)
      BY <2>1, <3>1
    <3>2. CASE t.new = [s.new EXCEPT ![s.hit[2]] = r]
      BY <3>2
    <3>3. CASE t.new = s.new
      BY <3>3
    <3> QED BY <1>5, <3>1, <3>2, <3>3 DEF TakesIn
  <2>3. ASSUME NEW i \in DOMAIN t.mine PROVE t.mine[i] = r \/ (i \in DOMAIN s.mine /\ t.mine[i] = s.mine[i])
    BY <1>5 DEF TakesIn
  <2> QED BY <2>2, <2>3 DEF RowsOf
\* The row that is written over, and what it becomes.
<1>12. ASSUME s.hit # NoHit
       PROVE  /\ seen \in AllRows /\ seen \in RowType /\ HasFolder(s, seen.folder)
              /\ s.was \in RowType
              /\ r.mail = Column(s.was.mail, seen.mail, item.mail)
              /\ r.folder = Column(s.was.folder, seen.folder, new.folder)
              /\ r.uid = Column(s.was.uid, seen.uid, new.uid)
              /\ r.mid = Column(s.was.mid, seen.mid, new.mid)
              /\ r.rid = Column(s.was.rid, seen.rid, new.rid)
              /\ seen.mail \notin excused => s.was.mail = seen.mail /\ seen.folder = new.folder
              /\ seen.mail \in Safe => item.mail = seen.mail
  <2>1. s.hit \in InView(s)
    BY <1>10, <1>12
  <2>2. seen \in AllRows /\ seen \in RowType
    BY <1>3, <1>7, <2>1, ViewedRow
  <2>3. s.was \in RowType
    BY <1>7, <1>12 DEF BatchFits
  <2>4. seen \in RowsOf(s) \/ seen \in {rows[i] : i \in DOMAIN rows}
    BY <1>3, <2>1 DEF InView, Viewed, RowsOf
  <2>5. HasFolder(s, seen.folder)
    BY <1>7, <2>4 DEF BatchFits, TableFits, HasFolder
  <2>6. /\ seen.mail \notin excused => s.was.mail = seen.mail /\ seen.folder = new.folder
        /\ seen.mail \in Safe => item.mail = seen.mail
    BY <1>2, <1>3, <1>6, <1>7, <1>9, <1>12 DEF FindsItsOwn
  <2>7. /\ r.mail = Column(s.was.mail, seen.mail, new.mail)
        /\ r.folder = Column(s.was.folder, seen.folder, new.folder)
        /\ r.uid = Column(s.was.uid, seen.uid, new.uid)
        /\ r.mid = Column(s.was.mid, seen.mid, new.mid)
        /\ r.rid = Column(s.was.rid, seen.rid, new.rid)
    BY <1>5, <1>12, <2>2, <2>3, UpdatedRow
  <2> QED BY <1>9, <2>2, <2>3, <2>5, <2>6, <2>7
<1>13. /\ excused \subseteq excused' /\ excused' \subseteq Imported
       /\ s.hit # NoHit /\ r.mail # seen.mail => item.mail \in excused'
  <2>1. \/ s.hit = NoHit /\ UNCHANGED excused
        \/ excused' = Excused(item, Updated(s.was, new, seen), seen)
    BY <1>1, <1>2, <1>3, <1>4, Zenon DEF Writes
  <2>2. CASE s.hit = NoHit
    <3>1. UNCHANGED excused
      <4>1. s.hit[1] # "own" /\ s.hit[1] # "table"
        BY <2>2 DEF NoHit
      <4> QED BY <1>1, <4>1 DEF Writes
    <3> QED BY <1>7, <2>2, <3>1
  <2>3. CASE s.hit # NoHit
    BY <1>5, <1>7, <1>8, <2>1, <2>3 DEF Excused
  <2> QED BY <2>2, <2>3
\* A mail that is not excused has been written over a row of its own.
<1>14. ASSUME s.hit # NoHit, r.mail \notin excused
       PROVE  r.mail = item.mail
  BY <1>12, <1>14 DEF Column
<1>15. ASSUME s.hit # NoHit, r.mail \notin excused'
       PROVE  r.mail = seen.mail /\ seen.mail \notin excused
  BY <1>13, <1>14, <1>15
\* What the row says is what it said of the mail, or what the client says.
<1>16. r.mail \in excused' \/ SpeaksOfItsMail(r)
  <2> SUFFICES ASSUME r.mail \notin excused' PROVE SpeaksOfItsMail(r)
    OBVIOUS
  <2>1. new.folder[1] = item.name
    BY <1>9 DEF FolderOf
  <2>2. CASE s.hit = NoHit
    <3>1. r = new /\ s.was.mid = 0 /\ s.was.rid = 0
      BY <1>5, <2>2 DEF NoRow
    <3> QED BY <1>8, <1>9, <2>1, <3>1 DEF SpeaksOfItsMail
  <2>3. CASE s.hit # NoHit
    <3>1. r.mail = seen.mail /\ seen.mail = item.mail /\ seen.mail \notin excused
      BY <1>13, <1>14, <1>15, <2>3
    <3>2. SpeaksOfItsMail(seen)
      BY <1>12, <2>3, <3>1 DEF ImportInv, RowsSpeakTrue
    <3>3. r.folder = seen.folder /\ r.folder = new.folder
      BY <1>12, <2>3, <3>1 DEF Column
    <3>4. r.mid \in {0, r.mail}
      BY <1>9, <1>12, <2>3, <3>1, <3>2 DEF Column, SpeaksOfItsMail
    <3>5. r.rid \in {0, r.mail}
      BY <1>9, <1>12, <2>3, <3>1, <3>2 DEF Column, SpeaksOfItsMail
    <3>6. r.uid = seen.uid \/ r.uid = new.uid
      BY <1>12, <2>3 DEF Column
    <3>7. r.uid = 0 \/ <<r.mail, r.folder[1], r.uid>> \in Uids
      <4>1. CASE r.uid = seen.uid
        BY <3>1, <3>2, <3>3, <4>1 DEF SpeaksOfItsMail
      <4>2. CASE r.uid = new.uid
        BY <1>8, <1>9, <2>1, <3>1, <3>3, <4>2
      <4> QED BY <3>6, <4>1, <4>2
    <3> QED BY <3>4, <3>5, <3>7 DEF SpeaksOfItsMail
  <2> QED BY <2>2, <2>3
<1>17. \A x \in RowsOf(t) : x \in AllRows \/ x.mail \in excused' \/ SpeaksOfItsMail(x)
  BY <1>7, <1>11, <1>16
<1>18. ASSUME NEW i \in DOMAIN t.mine
       PROVE  /\ Unlocked(b, i)
              /\ t.mine[i].mail # rows[i].mail => t.mine[i].mail \in excused'
              /\ rows[i].mail \in Safe => t.mine[i].mail = rows[i].mail
              /\ t.mine[i].mail \notin excused' => t.mine[i].folder = rows[i].folder
  <2>1. CASE s.hit[1] = "table" /\ i = s.hit[2] /\ t.mine[i] = r
    <3>1. s.hit # NoHit
      BY <2>1 DEF NoHit
    <3>2. Unlocked(b, i) /\ seen = (IF i \in DOMAIN s.mine THEN s.mine[i] ELSE rows[i])
      BY <1>3, <1>5, <2>1, <3>1 DEF TakesIn, Viewed
    <3>3. /\ seen.mail # rows[i].mail => seen.mail \in excused
          /\ rows[i].mail \in Safe => seen.mail = rows[i].mail
          /\ seen.mail \notin excused => seen.folder = rows[i].folder
      BY <1>7, <3>2
    <3>4. r.mail \in {seen.mail, item.mail} /\ (r.mail # seen.mail => item.mail \in excused')
      BY <1>12, <1>13, <3>1 DEF Column
    <3>5. r.mail # rows[i].mail => r.mail \in excused'
      BY <1>13, <3>3, <3>4
    <3>6. rows[i].mail \in Safe => r.mail = rows[i].mail
      BY <1>12, <3>1, <3>3, <3>4
    <3>7. r.mail \notin excused' => r.folder = rows[i].folder
      BY <1>12, <1>15, <3>1, <3>3 DEF Column
    <3> QED BY <2>1, <3>2, <3>5, <3>6, <3>7
  <2>2. CASE i \in DOMAIN s.mine /\ t.mine[i] = s.mine[i]
    BY <1>7, <1>13, <2>2
  <2> QED BY <1>5, <2>1, <2>2 DEF TakesIn
<1>19. BatchFits(t)
  <2>1. DOMAIN t.mine \subseteq DOMAIN rows
    BY <1>5, <1>7 DEF BatchFits, TakesIn
  <2>2. HasFolder(s, r.folder)
    <3>1. HasFolder(s, new.folder)
      BY <1>2, <1>6, <1>7, <1>9 DEF BatchFits
    <3> QED BY <1>5, <1>12, <3>1 DEF Column
  <2>3. \A x \in RowsOf(t) : HasFolder(t, x.folder)
    BY <1>5, <1>7, <1>11, <2>2 DEF BatchFits, HasFolder
  <2>4. DOMAIN s.new \subseteq DOMAIN t.new
    <3>1. s.new \in Seq(RowType)
      BY <1>7, BatchFields
    <3> QED BY <1>5, <3>1 DEF TakesIn
  <2>5. t.hit \in InView(t) \union {NoHit}
    BY <1>5, <1>10, <2>4 DEF InView
  <2> QED BY <1>5, <2>1, <2>3, <2>5 DEF BatchFits
<1>20. FindsItsOwn(t)
  <2> SUFFICES ASSUME s.hit # NoHit, r.mail \notin excused PROVE new.mail = r.mail
    <3>1. s.hit # NoHit => Viewed(t, t.hit) = r
      BY <1>5 DEF TakesIn, Viewed
    <3> QED BY <1>5, <3>1 DEF FindsItsOwn
  <2> QED BY <1>9, <1>14
<1> QED BY <1>5, <1>6, <1>8, <1>13, <1>17, <1>18, <1>19, <1>20, BatchStep

-----------------------------------------------------------------------------
(* Steps that change the table: a batch's commit, and the others.          *)

\* A row changes its mail only to one that is excused, and its folder only if its mail is,
\* and the rows that some batch has locked stay.
LEMMA TableStep ==
    ASSUME ImportInv, TableFits', excused \subseteq excused',
           \A d \in Open' : d \in Open /\ batch'[d] = batch[d],
           DOMAIN rows \subseteq DOMAIN rows', \A n \in Names : folders[n] <= folders'[n],
           \A i \in DOMAIN rows :
             /\ rows'[i].mail = rows[i].mail \/ rows'[i].mail \in excused
             /\ rows[i].mail \in Safe => rows'[i].mail = rows[i].mail
             /\ \A d \in Open' : i \in DOMAIN batch[d].mine => rows'[i].mail = rows[i].mail
             /\ rows'[i].mail \notin excused' => rows'[i].folder = rows[i].folder,
           \A i \in DOMAIN rows' : rows'[i].mail \in excused' \/ SpeaksOfItsMail(rows'[i]),
           kept' \subseteq kept \union {rows'[i].mail : i \in DOMAIN rows'},
           \/ UNCHANGED <<at, uidnext>>
           \/ \E m \in Imported, n \in Names : MovesThere(m, n)
    PROVE  ImportInv'
<1>1. /\ TableFits /\ BatchesFit /\ LocksApart /\ UidsAreForOneMail /\ RowsSpeakTrue
      /\ SameMail /\ FoundItsOwn /\ KeptHaveRows
  BY DEF ImportInv
<1>2. BatchesFit'
  <2> SUFFICES ASSUME NEW d \in Open', NEW s, s = batch'[d] PROVE BatchFits(s)'
    BY DEF BatchesFit, BatchFits, HasFolder, FolderOf, InView, RowsOf
  <2>1. BatchFits(s)
    BY <1>1 DEF BatchesFit
  <2>2. folders' \in [Names -> Nat]
    BY DEF TableFits
  <2> QED BY <1>1, <2>1, <2>2, FitsStays
<1>3. LocksApart'
  BY <1>1 DEF LocksApart
<1>4. ASSUME NEW r \in AllRows' PROVE r.mail \in excused' \/ SpeaksOfItsMail(r)
  <2>1. CASE r \in {rows'[i] : i \in DOMAIN rows'}
    BY <2>1
  <2>2. CASE r \notin {rows'[i] : i \in DOMAIN rows'}
    <3>1. PICK d \in Open' : r \in RowsOf(batch'[d])
      BY <2>2 DEF AllRows, RowsOf
    <3>2. r \in AllRows
      BY <3>1 DEF AllRows
    <3> QED BY <1>1, <3>2 DEF RowsSpeakTrue
  <2> QED BY <2>1, <2>2
<1>5. \A d \in Open' : ToldOf(batch'[d]) \subseteq Uids
  BY DEF Uids, ToldUids
<1>6. UidsAreForOneMail' /\ RowsSpeakTrue'
  <2>1. CASE UNCHANGED <<at, uidnext>>
    <3>1. \A m \in Imported : <<m, at'[m].name, at'[m].uid>> \in Uids \union {}
      BY <2>1 DEF Uids, TrueUids
    <3>2. Uids' \subseteq Uids \union {} /\ RowsSpeakTrue'
      BY <1>4, <1>5, <3>1, UidsStep
    <3> QED BY <1>1, <2>1, <3>2, UidsStay
  <2>2. ASSUME NEW m \in Imported, NEW n \in Names, MovesThere(m, n)
        PROVE  UidsAreForOneMail' /\ RowsSpeakTrue'
    <3>1. PICK X : X = {<<m, n, uidnext[n]>>}
      OBVIOUS
    <3>2. /\ at' = [at EXCEPT ![m] = [name |-> n, uid |-> uidnext[n]]]
          /\ uidnext' = [uidnext EXCEPT ![n] = @ + 1]
      BY <2>2 DEF MovesThere
    <3>3. /\ at'[m].name = n /\ at'[m].uid = uidnext[n]
          /\ \A k \in Imported \ {m} : at'[k] = at[k]
      BY <1>1, <3>2 DEF TableFits
    <3>4. \A k \in Imported : <<k, at'[k].name, at'[k].uid>> \in Uids \union X
      BY <3>1, <3>3 DEF Uids, TrueUids
    <3>5. Uids' \subseteq Uids \union X /\ RowsSpeakTrue'
      BY <1>4, <1>5, <3>4, UidsStep
    <3> QED BY <1>1, <3>1, <3>2, <3>5, UidsGrow
  <2> QED BY <2>1, <2>2
<1>7. Safe' \subseteq Safe /\ Safe' \intersect excused' = {}
  BY SafeShrinks DEF Safe
<1>8. SameMail'
  <2> SUFFICES ASSUME NEW d \in Open', NEW i \in DOMAIN batch'[d].mine
               PROVE  /\ batch'[d].mine[i].mail # rows'[i].mail => batch'[d].mine[i].mail \in excused'
                      /\ rows'[i].mail \in Safe => batch'[d].mine[i].mail = rows'[i].mail
                      /\ batch'[d].mine[i].mail \notin excused' => batch'[d].mine[i].folder = rows'[i].folder
    BY <1>7 DEF SameMail
  <2>1. i \in DOMAIN rows
    BY <1>1 DEF BatchesFit, BatchFits
  <2> QED BY <1>1, <2>1 DEF SameMail
<1>9. FoundItsOwn'
  <2> SUFFICES ASSUME NEW d \in Open', NEW s, s = batch'[d] PROVE FindsItsOwn(s)'
    BY DEF FoundItsOwn, FindsItsOwn, Viewed, FolderOf
  <2>1. FindsItsOwn(s) /\ BatchFits(s)
    BY <1>1 DEF FoundItsOwn, BatchesFit
  <2>2. CASE s.hit[1] = "own" \/ s.hit[2] \in DOMAIN s.mine \/ s.hit = NoHit
    BY <1>7, <2>1, <2>2 DEF FindsItsOwn, Viewed, FolderOf
  <2>3. CASE s.hit[1] # "own" /\ s.hit[2] \notin DOMAIN s.mine /\ s.hit # NoHit
    <3>1. PICK i \in DOMAIN rows : i = s.hit[2]
      BY <2>1, <2>3 DEF BatchFits, InView
    <3>2. /\ rows'[i].mail = rows[i].mail \/ rows'[i].mail \in excused'
          /\ rows'[i].mail \notin excused' => rows'[i].folder = rows[i].folder
      OBVIOUS
    <3> QED BY <1>7, <2>1, <2>3, <3>1, <3>2 DEF FindsItsOwn, Viewed, FolderOf
  <2> QED BY <2>2, <2>3
<1>10. KeptHaveRows'
  <2> SUFFICES ASSUME NEW m \in kept', m \in Safe PROVE \E i \in DOMAIN rows' : rows'[i].mail = m
    BY <1>7 DEF KeptHaveRows, MailsOf
  <2>1. CASE m \in kept
    <3>1. PICK i \in DOMAIN rows : rows[i].mail = m
      BY <1>1, <2>1 DEF KeptHaveRows, MailsOf
    <3> QED BY <3>1
  <2>2. CASE m \notin kept
    BY <2>2
  <2> QED BY <2>1, <2>2
<1> QED BY <1>2, <1>3, <1>6, <1>8, <1>9, <1>10 DEF ImportInv

LEMMA TableSpeaksTrue ==
    ASSUME ImportInv, NEW i \in DOMAIN rows
    PROVE  /\ rows[i] \in RowType /\ rows[i].folder[2] \in 1..folders[rows[i].folder[1]]
           /\ rows[i].mail \in excused \/ SpeaksOfItsMail(rows[i])
BY DEF ImportInv, TableFits, RowsSpeakTrue, AllRows

\* A row that is stored keeps what it says, and its folder is then in the table.
LEMMA FiledRow ==
    ASSUME TableFits, NEW s, NEW r \in RowType, HasFolder(s, r.folder),
           folders' = [n \in Names |-> IF n \in s.made THEN folders[n] + 1 ELSE folders[n]]
    PROVE  /\ Filed(r) \in RowType /\ Filed(r).mail = r.mail
           /\ Filed(r).folder[2] \in 1..folders'[Filed(r).folder[1]]
           /\ SpeaksOfItsMail(Filed(r)) <=> SpeaksOfItsMail(r)
<1>1. PICK n \in Names, k \in Nat : r.folder = <<n, k>>
  BY DEF RowType, FolderType
<1>2. folders[n] \in Nat /\ folders'[n] \in {folders[n], folders[n] + 1}
      /\ (n \in s.made => folders'[n] = folders[n] + 1)
  BY DEF TableFits
<1>3. PICK f \in Names \X Nat : f = IF k = 0 THEN <<n, folders[n] + 1>> ELSE <<n, k>>
  <2>1. <<n, folders[n] + 1>> \in Names \X Nat /\ <<n, k>> \in Names \X Nat
    BY <1>2
  <2>2. CASE k = 0
    BY <2>1, <2>2
  <2>3. CASE k # 0
    BY <2>1, <2>3
  <2> QED BY <2>2, <2>3
<1>4. f[1] = n /\ f[2] \in 1..folders'[n]
  BY <1>1, <1>2, <1>3 DEF HasFolder
<1>5. Filed(r) = [r EXCEPT !.folder = f]
  BY <1>1, <1>3 DEF Filed
<1>6. /\ Filed(r) \in RowType /\ Filed(r).mail = r.mail /\ Filed(r).folder = f /\ Filed(r).uid = r.uid
      /\ Filed(r).mid = r.mid /\ Filed(r).rid = r.rid
  BY <1>5 DEF RowType, FolderType
<1> QED BY <1>1, <1>4, <1>6 DEF SpeaksOfItsMail

LEMMA ServerType ==
    ASSUME TableFits, NEW m \in Imported, NEW n \in Names, MovesThere(m, n) \/ UNCHANGED <<at, uidnext>>
    PROVE  at' \in [Imported -> [name : Names, uid : Nat \ {0}]] /\ uidnext' \in [Names -> Nat \ {0}]
<1>1. at \in [Imported -> [name : Names, uid : Nat \ {0}]] /\ uidnext \in [Names -> Nat \ {0}]
  BY DEF TableFits
<1>2. CASE UNCHANGED <<at, uidnext>>
  BY <1>1, <1>2
<1>3. CASE MovesThere(m, n)
  <2>1. PICK u \in Nat \ {0} : u = uidnext[n]
    BY <1>1
  <2>2. at' = [at EXCEPT ![m] = [name |-> n, uid |-> u]] /\ uidnext' = [uidnext EXCEPT ![n] = u + 1]
    BY <1>3, <2>1 DEF MovesThere
  <2>3. [name |-> n, uid |-> u] \in [name : Names, uid : Nat \ {0}] /\ u + 1 \in Nat \ {0}
    BY <2>1
  <2> QED BY <1>1, <2>2, <2>3
<1> QED BY <1>2, <1>3

LEMMA SequenceJoin ==
    ASSUME NEW S, NEW p \in Seq(S), NEW q \in Seq(S)
    PROVE  p \o q \in Seq(S) /\ Len(p \o q) = Len(p) + Len(q)
OBVIOUS

LEMMA ImportCommits == ASSUME ImportInv, NEW b \in Importers, BatchCommits(b) PROVE ImportInv'
<1>1. PICK s : s = batch[b]
  OBVIOUS
<1>2. PICK old, new : /\ old = [i \in DOMAIN rows |-> IF i \in DOMAIN s.mine THEN Filed(s.mine[i]) ELSE rows[i]]
                      /\ new = [k \in DOMAIN s.new |-> Filed(s.new[k])]
  OBVIOUS
<1>3. /\ s.step = "find" /\ rows' = old \o new
      /\ kept' = kept \union {rows'[i].mail : i \in DOMAIN rows'}
      /\ folders' = [n \in Names |-> IF n \in s.made THEN folders[n] + 1 ELSE folders[n]]
      /\ batch' = [batch EXCEPT ![b] = NoBatch]
      /\ UNCHANGED <<at, uidnext, excused>>
  BY <1>1, <1>2, Zenon DEF BatchCommits, Stored, MailsOf, serverVars
<1>4. TableFits /\ LocksApart
  BY DEF ImportInv
<1>5. /\ b \in Open /\ BatchFits(s) /\ s \in BatchRecord /\ RowsOf(s) \subseteq AllRows
      /\ \A i \in DOMAIN s.mine :
           /\ s.mine[i].mail # rows[i].mail => s.mine[i].mail \in excused
           /\ rows[i].mail \in Safe => s.mine[i].mail = rows[i].mail
           /\ s.mine[i].mail \notin excused => s.mine[i].folder = rows[i].folder
  BY <1>1, <1>3, BatchAtWork
<1>6. /\ DOMAIN s.mine \subseteq DOMAIN rows /\ s.made \subseteq Names
      /\ \A r \in RowsOf(s) : r \in RowType /\ HasFolder(s, r.folder)
      /\ s.new \in Seq(RowType)
      /\ \A i \in DOMAIN s.mine : s.mine[i] \in RowsOf(s)
      /\ \A k \in DOMAIN s.new : s.new[k] \in RowsOf(s)
  BY <1>5, BatchFields DEF BatchFits, RowsOf
<1>7. folders \in [Names -> Nat] /\ folders' \in [Names -> Nat] /\ \A n \in Names : folders[n] <= folders'[n]
  BY <1>3, <1>4 DEF TableFits
\* What is stored is typed, has its folder, and says what it said.
<1> DEFINE Right(r) == /\ r \in RowType /\ r.folder[2] \in 1..folders'[r.folder[1]]
                       /\ r.mail \in excused \/ SpeaksOfItsMail(r)
<1>8. ASSUME NEW r \in RowsOf(s) PROVE Right(Filed(r)) /\ Filed(r).mail = r.mail
  <2>1. r.mail \in excused \/ SpeaksOfItsMail(r)
    BY <1>5 DEF ImportInv, RowsSpeakTrue
  <2>2. HasFolder(s, r.folder) /\ r \in RowType
    BY <1>6
  <2>3. /\ Filed(r) \in RowType /\ Filed(r).mail = r.mail
        /\ Filed(r).folder[2] \in 1..folders'[Filed(r).folder[1]]
        /\ SpeaksOfItsMail(Filed(r)) <=> SpeaksOfItsMail(r)
    BY <1>3, <1>4, <2>2, FiledRow
  <2> QED BY <2>1, <2>3
<1>9. ASSUME NEW i \in DOMAIN rows PROVE Right(rows[i])
  <2>1. /\ rows[i] \in RowType /\ rows[i].folder[2] \in 1..folders[rows[i].folder[1]]
        /\ rows[i].mail \in excused \/ SpeaksOfItsMail(rows[i])
    BY TableSpeaksTrue
  <2>2. PICK n \in Names : n = rows[i].folder[1]
    BY <2>1, ImportRowFields
  <2>3. rows[i].folder[2] \in 1..folders'[n]
    BY <1>7, <2>1, <2>2
  <2> QED BY <2>1, <2>2, <2>3
<1> HIDE DEF Right
<1>10. \A i \in DOMAIN rows : Right(old[i])
  BY <1>2, <1>6, <1>8, <1>9
<1>11. \A k \in DOMAIN s.new : Right(new[k])
  BY <1>2, <1>6, <1>8
<1>12. PICK n \in Nat : DOMAIN rows = 1..n
  BY <1>4 DEF TableFits
<1>13. old \in Seq(RowType) /\ new \in Seq(RowType) /\ DOMAIN old = 1..n /\ Len(old) = n
  <2>1. old \in [1..n -> RowType]
    BY <1>2, <1>10, <1>12 DEF Right
  <2>2. PICK m \in Nat : DOMAIN s.new = 1..m
    BY <1>6
  <2>3. new \in [1..m -> RowType]
    BY <1>2, <1>11, <2>2 DEF Right
  <2> QED BY <2>1, <2>3
<1>14. PICK m \in Nat : m = Len(new) /\ DOMAIN new = 1..m /\ DOMAIN s.new = 1..m
  BY <1>2, <1>6, <1>13
<1>15. /\ rows' \in Seq(RowType) /\ DOMAIN rows' = 1..(n + m)
       /\ \A i \in 1..(n + m) : rows'[i] = IF i <= n THEN old[i] ELSE new[i - n]
  <2>1. old \in Seq(RowType) /\ new \in Seq(RowType) /\ Len(old) = n /\ Len(new) = m
    BY <1>13, <1>14
  <2>2. rows' = old \o new
    BY <1>3
  <2> HIDE DEF Right
  <2>3. rows' \in Seq(RowType) /\ Len(rows') = n + m
    BY <2>1, <2>2, SequenceJoin
  <2>4. \A i \in 1..(n + m) : rows'[i] = IF i <= n THEN old[i] ELSE new[i - n]
    BY <2>1, <2>2
  <2> QED BY <2>3, <2>4
<1>16. ASSUME NEW i \in DOMAIN rows' PROVE Right(rows'[i])
  <2>1. CASE i <= n
    BY <1>10, <1>12, <1>15, <2>1
  <2>2. CASE ~(i <= n)
    <3>1. i - n \in 1..m
      BY <1>15, <2>2
    <3> QED BY <1>11, <1>14, <1>15, <2>2, <3>1
  <2> QED BY <2>1, <2>2
<1>17. DOMAIN batch' = Importers /\ batch'[b] = NoBatch /\ \A d \in Importers \ {b} : batch'[d] = batch[d]
  BY <1>3, <1>4 DEF TableFits
<1>18. \A d \in Open' : d \in Open /\ d # b /\ batch'[d] = batch[d]
  BY <1>17 DEF Open
<1>19. ASSUME NEW i \in DOMAIN rows
       PROVE  /\ rows'[i].mail = rows[i].mail \/ rows'[i].mail \in excused
              /\ rows[i].mail \in Safe => rows'[i].mail = rows[i].mail
              /\ \A d \in Open' : i \in DOMAIN batch[d].mine => rows'[i].mail = rows[i].mail
              /\ rows'[i].mail \notin excused' => rows'[i].folder = rows[i].folder
  <2>1. rows'[i] = old[i]
    BY <1>12, <1>15
  <2>2. CASE i \in DOMAIN s.mine
    <3>1. rows'[i].mail = s.mine[i].mail
      BY <1>2, <1>6, <1>8, <2>1, <2>2
    <3>2. \A d \in Open' : i \notin DOMAIN batch[d].mine
      BY <1>1, <1>4, <1>5, <1>18, <2>2 DEF LocksApart
    <3>3. ASSUME rows'[i].mail \notin excused' PROVE rows'[i].folder = rows[i].folder
      <4>1. s.mine[i].folder = rows[i].folder
        BY <1>3, <1>5, <2>2, <3>1, <3>3
      <4>2. s.mine[i] \in RowType /\ s.mine[i].folder[2] # 0
        BY <1>6, <2>2, <4>1, TableSpeaksTrue
      <4>3. Filed(s.mine[i]).folder = s.mine[i].folder
        BY <4>2 DEF Filed, RowType
      <4> QED BY <1>2, <2>1, <2>2, <4>1, <4>3
    <3> QED BY <1>5, <2>2, <3>1, <3>2, <3>3
  <2>3. CASE i \notin DOMAIN s.mine
    <3>1. rows'[i] = rows[i]
      BY <1>2, <2>1, <2>3
    <3> QED BY <3>1
  <2> QED BY <2>2, <2>3
<1>20. kept' \subseteq Imported
  <2>1. \A i \in DOMAIN rows' : rows'[i].mail \in Imported
    BY <1>16, ImportRowFields DEF Right
  <2> QED BY <1>3, <1>4, <2>1 DEF TableFits
<1>21. TableFits'
  BY <1>3, <1>4, <1>7, <1>15, <1>16, <1>17, <1>20 DEF TableFits, Right
<1>22. DOMAIN rows \subseteq DOMAIN rows' /\ excused \subseteq excused'
  BY <1>3, <1>12, <1>15
<1>23. \A i \in DOMAIN rows' : rows'[i].mail \in excused' \/ SpeaksOfItsMail(rows'[i])
  BY <1>3, <1>16 DEF Right
<1> QED BY <1>3, <1>7, <1>18, <1>19, <1>21, <1>22, <1>23, TableStep

LEMMA ImportRequestMoves ==
    ASSUME ImportInv, NEW n \in Names, NEW i \in DOMAIN rows, RequestMoves(i, n)
    PROVE  ImportInv'
<1>1. TableFits /\ folders \in [Names -> Nat]
  BY DEF ImportInv, TableFits
<1>2. PICK r \in RowType : r = rows[i]
  BY TableSpeaksTrue
<1>3. PICK m \in Imported : m = r.mail
  BY ImportRowFields
<1>4. /\ folders[n] = 1
      /\ MovesThere(m, n) \/ UNCHANGED <<at, uidnext>>
      /\ rows' = [rows EXCEPT ![i].folder = <<n, 1>>]
      /\ excused' = excused \union {m}
      /\ UNCHANGED <<folders, batch, kept>>
  BY <1>2, <1>3 DEF RequestMoves, serverVars
<1>5. PICK new : new = [r EXCEPT !.folder = <<n, 1>>]
  OBVIOUS
<1>6. new \in RowType /\ new.mail = m /\ new.folder = <<n, 1>>
  BY <1>3, <1>5 DEF RowType, FolderType
<1>7. rows' = [rows EXCEPT ![i] = new]
  BY <1>2, <1>4, <1>5
<1>8. /\ rows' \in Seq(RowType) /\ DOMAIN rows' = DOMAIN rows
      /\ \A k \in DOMAIN rows : rows'[k] = IF k = i THEN new ELSE rows[k]
  <2>1. rows \in Seq(RowType)
    BY <1>1 DEF TableFits
  <2> QED BY <1>6, <1>7, <2>1
<1>9. \A k \in DOMAIN rows' : /\ rows'[k].mail \in excused' \/ SpeaksOfItsMail(rows'[k])
                              /\ rows'[k].mail = rows[k].mail
                              /\ rows'[k].mail \notin excused' => rows'[k].folder = rows[k].folder
                              /\ rows'[k].folder[2] \in 1..folders[rows'[k].folder[1]]
  <2> SUFFICES ASSUME NEW k \in DOMAIN rows
               PROVE  /\ rows'[k].mail \in excused' \/ SpeaksOfItsMail(rows'[k])
                      /\ rows'[k].mail = rows[k].mail
                      /\ rows'[k].mail \notin excused' => rows'[k].folder = rows[k].folder
                      /\ rows'[k].folder[2] \in 1..folders[rows'[k].folder[1]]
    BY <1>8
  <2>1. CASE k = i
    <3>1. rows'[k].mail = m /\ rows'[k].folder = <<n, 1>> /\ rows[k].mail = m
      BY <1>2, <1>3, <1>6, <1>8, <2>1
    <3>2. rows'[k].folder[2] = 1 /\ rows'[k].folder[1] = n
      BY <3>1
    <3>3. m \in excused' /\ 1 \in 1..folders[n]
      BY <1>4
    <3> QED BY <3>1, <3>2, <3>3
  <2>2. CASE k # i
    BY <1>4, <1>8, <2>2, TableSpeaksTrue
  <2> QED BY <2>1, <2>2
<1>10. at' \in [Imported -> [name : Names, uid : Nat \ {0}]] /\ uidnext' \in [Names -> Nat \ {0}]
  BY <1>1, <1>4, ServerType
<1>11. TableFits'
  BY <1>1, <1>4, <1>8, <1>9, <1>10 DEF TableFits
<1>12. Open' = Open
  BY <1>4 DEF Open
<1>13. \A d \in Open' : d \in Open /\ batch'[d] = batch[d]
  BY <1>4, <1>12
<1>14. \A k \in Names : folders[k] <= folders'[k]
  BY <1>1, <1>4
<1>15. excused \subseteq excused' /\ kept' \subseteq kept \union {rows'[k].mail : k \in DOMAIN rows'}
  BY <1>4
<1> QED BY <1>4, <1>8, <1>9, <1>11, <1>13, <1>14, <1>15, TableStep

LEMMA ImportClientMoves ==
    ASSUME ImportInv, NEW n \in Names, NEW m \in Imported, ClientMoves(m, n)
    PROVE  ImportInv'
<1>1. TableFits /\ folders \in [Names -> Nat]
  BY DEF ImportInv, TableFits
<1>2. MovesThere(m, n) /\ UNCHANGED <<folders, rows, batch, kept, excused>>
  BY DEF ClientMoves, importHistory
<1>3. at' \in [Imported -> [name : Names, uid : Nat \ {0}]] /\ uidnext' \in [Names -> Nat \ {0}]
  BY <1>1, <1>2, ServerType
<1>4. TableFits'
  BY <1>1, <1>2, <1>3 DEF TableFits
<1>5. Open' = Open
  BY <1>2 DEF Open
<1>6. \A d \in Open' : d \in Open /\ batch'[d] = batch[d]
  BY <1>2, <1>5
<1>7. \A i \in DOMAIN rows' : rows'[i].mail \in excused' \/ SpeaksOfItsMail(rows'[i])
  BY <1>2, TableSpeaksTrue
<1>8. \A k \in Names : folders[k] <= folders'[k]
  BY <1>1, <1>2
<1> QED BY <1>2, <1>4, <1>6, <1>7, <1>8, TableStep

LEMMA ImportSynchronizes ==
    ASSUME ImportInv, NEW m \in Imported, Synchronizes(m)
    PROVE  ImportInv'
<1>1. TableFits /\ folders \in [Names -> Nat] /\ rows \in Seq(RowType) /\ kept \union excused \subseteq Imported
  BY DEF ImportInv, TableFits
<1>2. PICK n \in Names, u \in Nat \ {0} : n = at[m].name /\ u = at[m].uid
  BY <1>1 DEF TableFits
<1>3. PICK new : new = [mail |-> m, folder |-> <<n, 1>>, uid |-> u, mid |-> MessageId(m), rid |-> 0]
  OBVIOUS
<1>4. /\ rows' = Append(rows, new)
      /\ kept' = kept \union {rows'[i].mail : i \in DOMAIN rows'}
      /\ folders' = [folders EXCEPT ![n] = IF @ = 0 THEN 1 ELSE @]
      /\ UNCHANGED <<at, uidnext, batch, excused>>
  BY <1>2, <1>3, Zenon DEF Synchronizes, Stored, MailsOf, serverVars
<1>5. MessageId(m) \in {0, m} /\ m \in Nat
  BY ImportAssumptions DEF MessageId, Imported
<1>6. new \in RowType /\ new.mail = m /\ new.folder = <<n, 1>>
  BY <1>2, <1>3, <1>5 DEF RowType, FolderType
<1>7. SpeaksOfItsMail(new)
  <2>1. <<m, n, u>> \in Uids
    BY <1>2 DEF Uids, TrueUids
  <2>2. new.mid = MessageId(m) /\ new.rid = 0 /\ new.uid = u /\ new.folder[1] = n
    BY <1>3
  <2> QED BY <1>5, <1>6, <2>1, <2>2 DEF SpeaksOfItsMail
<1>8. PICK len \in Nat : len = Len(rows) /\ DOMAIN rows = 1..len
  BY <1>1
<1>9. /\ rows' \in Seq(RowType) /\ DOMAIN rows' = 1..(len + 1) /\ rows'[len + 1] = new
      /\ \A i \in DOMAIN rows : i \in DOMAIN rows' /\ rows'[i] = rows[i]
  BY <1>1, <1>4, <1>6, <1>8
<1>10. \A i \in DOMAIN rows' : i \in DOMAIN rows \/ i = len + 1
  BY <1>8, <1>9
<1>11. /\ folders' \in [Names -> Nat] /\ \A k \in Names : folders[k] <= folders'[k]
       /\ folders'[n] # 0
  BY <1>1, <1>4
<1>12. ASSUME NEW i \in DOMAIN rows'
       PROVE  /\ rows'[i].mail \in excused' \/ SpeaksOfItsMail(rows'[i])
              /\ rows'[i].folder[2] \in 1..folders'[rows'[i].folder[1]]
              /\ rows'[i].mail \in Imported
  <2>1. CASE i = len + 1
    BY <1>6, <1>7, <1>9, <1>11, <2>1
  <2>2. CASE i \in DOMAIN rows
    <3>1. /\ rows[i].mail \in excused' \/ SpeaksOfItsMail(rows[i])
          /\ rows[i] \in RowType /\ rows[i].folder[2] \in 1..folders[rows[i].folder[1]]
      BY <1>4, <2>2, TableSpeaksTrue
    <3>2. rows[i].folder[1] \in Names /\ rows[i].folder[2] \in Nat /\ rows[i].mail \in Imported
      BY <3>1, ImportRowFields
    <3>3. rows[i].folder[2] \in 1..folders'[rows[i].folder[1]]
      BY <1>1, <1>11, <3>1, <3>2
    <3> QED BY <1>9, <2>2, <3>1, <3>2, <3>3
  <2> QED BY <1>10, <2>1, <2>2
<1>13. kept' \union excused' \subseteq Imported
  BY <1>1, <1>4, <1>12
<1>14. TableFits'
  BY <1>1, <1>4, <1>9, <1>11, <1>12, <1>13 DEF TableFits
<1>15. Open' = Open
  BY <1>4 DEF Open
<1>16. \A d \in Open' : d \in Open /\ batch'[d] = batch[d]
  BY <1>4, <1>15
<1>17. \A i \in DOMAIN rows : rows'[i].mail = rows[i].mail /\ rows'[i].folder = rows[i].folder
  BY <1>9
<1>18. DOMAIN rows \subseteq DOMAIN rows' /\ excused \subseteq excused'
  BY <1>4, <1>9
<1> QED BY <1>4, <1>11, <1>12, <1>14, <1>16, <1>17, <1>18, TableStep

-----------------------------------------------------------------------------
(* At first the mails of a folder have the UIDs 1, 2, ... in their order.  *)

RankedIn(m, n) == {k \in 1..m : Start[k] = n}

LEMMA Ranks ==
    ASSUME NEW n \in Names, NEW m \in Imported
    PROVE  /\ Cardinality(RankedIn(m, n)) \in Nat
           /\ Start[m] = n => Cardinality(RankedIn(m, n)) # 0
           /\ \A k \in Imported : k < m => Cardinality(RankedIn(k, n)) <= Cardinality(RankedIn(m, n))
           /\ \A k \in Imported : k < m /\ Start[m] = n => Cardinality(RankedIn(k, n)) # Cardinality(RankedIn(m, n))
           /\ Cardinality(RankedIn(m, n)) <= Cardinality({k \in Imported : Start[k] = n})
           /\ Cardinality({k \in Imported : Start[k] = n}) \in Nat
<1>1. Mailbox \in Nat /\ Imported = 1..Mailbox /\ m \in Nat /\ m \in 1..m
  BY ImportAssumptions DEF Imported
<1>2. IsFiniteSet(1..m) /\ IsFiniteSet(Imported)
  BY <1>1, FS_Interval
<1>3. IsFiniteSet(RankedIn(m, n)) /\ IsFiniteSet({k \in Imported : Start[k] = n})
  BY <1>2, FS_Subset DEF RankedIn
<1>4. /\ Cardinality(RankedIn(m, n)) \in Nat
      /\ Cardinality({k \in Imported : Start[k] = n}) \in Nat
  BY <1>3, FS_CardinalityType
<1>5. Start[m] = n => m \in RankedIn(m, n)
  BY <1>1 DEF RankedIn
<1>6. Start[m] = n => Cardinality(RankedIn(m, n)) # 0
  BY <1>3, <1>5, FS_EmptySet
<1>7. Cardinality(RankedIn(m, n)) <= Cardinality({k \in Imported : Start[k] = n})
  <2>1. RankedIn(m, n) \in SUBSET {k \in Imported : Start[k] = n}
    BY <1>1 DEF RankedIn
  <2> QED BY <1>3, <2>1, FS_Subset
<1>8. ASSUME NEW k \in Imported, k < m
      PROVE  /\ Cardinality(RankedIn(k, n)) <= Cardinality(RankedIn(m, n))
             /\ Start[m] = n => Cardinality(RankedIn(k, n)) # Cardinality(RankedIn(m, n))
  <2>1. k \in Nat
    BY <1>1
  <2>2. RankedIn(k, n) \in SUBSET RankedIn(m, n)
    BY <1>1, <1>8, <2>1 DEF RankedIn
  <2>3. m \notin RankedIn(k, n)
    BY <1>1, <1>8, <2>1 DEF RankedIn
  <2>4. /\ Cardinality(RankedIn(k, n)) <= Cardinality(RankedIn(m, n))
        /\ Cardinality(RankedIn(m, n)) = Cardinality(RankedIn(k, n)) => RankedIn(m, n) = RankedIn(k, n)
    BY <1>3, <2>2, FS_Subset
  <2> QED BY <1>5, <2>3, <2>4
<1> QED BY <1>4, <1>6, <1>7, <1>8

LEMMA ImportInitially == ImportInit => ImportInv
<1> SUFFICES ASSUME ImportInit PROVE ImportInv
  OBVIOUS
<1>1. \A m \in Imported : Start[m] \in Names
  BY ImportAssumptions
<1>2. /\ at = [m \in Imported |-> [name |-> Start[m], uid |-> Cardinality(RankedIn(m, Start[m]))]]
      /\ uidnext = [n \in Names |-> 1 + Cardinality({m \in Imported : Start[m] = n})]
      /\ folders = [n \in Names |-> 0] /\ rows = <<>> /\ batch = [b \in Importers |-> NoBatch]
      /\ kept = {} /\ excused = {}
  BY Zenon DEF ImportInit, RankedIn
<1>3. \A m \in Imported : /\ at[m].name = Start[m]
                          /\ at[m].uid = Cardinality(RankedIn(m, Start[m]))
                          /\ at[m].uid \in Nat \ {0}
                          /\ at[m].uid < uidnext[Start[m]]
  <2> SUFFICES ASSUME NEW m \in Imported
               PROVE  /\ at[m].name = Start[m]
                      /\ at[m].uid = Cardinality(RankedIn(m, Start[m]))
                      /\ at[m].uid \in Nat \ {0}
                      /\ at[m].uid < uidnext[Start[m]]
    OBVIOUS
  <2>1. PICK n \in Names : n = Start[m]
    BY <1>1
  <2>2. /\ Cardinality(RankedIn(m, n)) \in Nat \ {0}
        /\ Cardinality(RankedIn(m, n)) <= Cardinality({k \in Imported : Start[k] = n})
        /\ Cardinality({k \in Imported : Start[k] = n}) \in Nat
    BY <2>1, Ranks
  <2>3. at[m].name = n /\ at[m].uid = Cardinality(RankedIn(m, n))
    BY <1>2, <2>1
  <2>4. uidnext[n] = 1 + Cardinality({k \in Imported : Start[k] = n})
    BY <1>2
  <2> QED BY <2>1, <2>2, <2>3, <2>4
<1>4. at \in [Imported -> [name : Names, uid : Nat \ {0}]]
  <2>1. \A m \in Imported : at[m] \in [name : Names, uid : Nat \ {0}]
    <3> SUFFICES ASSUME NEW m \in Imported PROVE at[m] \in [name : Names, uid : Nat \ {0}]
      OBVIOUS
    <3>1. PICK n, u : at[m] = [name |-> n, uid |-> u]
      BY <1>2
    <3> QED BY <1>1, <1>3, <3>1
  <2> QED BY <1>2, <2>1
<1>5. uidnext \in [Names -> Nat \ {0}]
  <2>1. IsFiniteSet(Imported)
    BY ImportAssumptions, FS_Interval DEF Imported
  <2>2. ASSUME NEW n \in Names PROVE 1 + Cardinality({m \in Imported : Start[m] = n}) \in Nat \ {0}
    <3>1. IsFiniteSet({m \in Imported : Start[m] = n})
      BY <2>1, FS_Subset
    <3>2. Cardinality({m \in Imported : Start[m] = n}) \in Nat
      BY <3>1, FS_CardinalityType
    <3> QED BY <3>2
  <2> QED BY <1>2, <2>2
<1>6. DOMAIN rows = {} /\ rows \in Seq(RowType) /\ Open = {} /\ AllRows = {} /\ DOMAIN batch = Importers
  BY <1>2 DEF Open, AllRows
<1>7. TableFits
  BY <1>2, <1>4, <1>5, <1>6 DEF TableFits
<1>8. Uids = TrueUids
  BY <1>6 DEF Uids, ToldUids, RowUids
<1>9. UidsAreForOneMail
  <2>1. ASSUME NEW m \in Imported, NEW k \in Imported, k < m, at[m].name = at[k].name PROVE at[m].uid # at[k].uid
    <3>1. PICK n \in Names : n = Start[m] /\ n = Start[k]
      BY <1>1, <1>3, <2>1
    <3>2. Cardinality(RankedIn(k, n)) # Cardinality(RankedIn(m, n))
      BY <2>1, <3>1, Ranks
    <3> QED BY <1>3, <3>1, <3>2
  <2>2. \A m, k \in Imported : m < k \/ k < m \/ m = k
    BY ImportAssumptions DEF Imported
  <2>3. \A m, k \in Imported : at[m].name = at[k].name /\ at[m].uid = at[k].uid => m = k
    BY <2>1, <2>2
  <2>4. ASSUME NEW p \in Uids
        PROVE  \E m \in Imported : p = <<m, at[m].name, at[m].uid>>
    BY <1>8 DEF TrueUids
  <2>5. \A p \in Uids : p[3] < uidnext[p[2]]
    <3> SUFFICES ASSUME NEW p \in Uids PROVE p[3] < uidnext[p[2]]
      OBVIOUS
    <3>1. PICK m \in Imported : p = <<m, at[m].name, at[m].uid>>
      BY <2>4
    <3> QED BY <1>3, <3>1
  <2>6. ASSUME NEW p \in Uids, NEW q \in Uids, p[2] = q[2], p[3] = q[3] PROVE p[1] = q[1]
    <3>1. PICK m \in Imported : p = <<m, at[m].name, at[m].uid>>
      BY <2>4
    <3>2. PICK k \in Imported : q = <<k, at[k].name, at[k].uid>>
      BY <2>4
    <3> QED BY <2>3, <2>6, <3>1, <3>2
  <2> QED BY <2>5, <2>6 DEF UidsAreForOneMail
<1> QED BY <1>2, <1>6, <1>7, <1>9 DEF ImportInv, BatchesFit, LocksApart, RowsSpeakTrue, SameMail,
        FoundItsOwn, KeptHaveRows

LEMMA ImportStands == ASSUME ImportInv, UNCHANGED importVars PROVE ImportInv'
<1>1. UNCHANGED <<at, uidnext, folders, rows, batch, kept, excused>>
  BY DEF importVars, serverVars, importHistory
<1>2. TableFits /\ folders \in [Names -> Nat]
  BY DEF ImportInv, TableFits
<1>3. TableFits'
  BY <1>1, <1>2 DEF TableFits
<1>4. Open' = Open
  BY <1>1 DEF Open
<1>5. \A d \in Open' : d \in Open /\ batch'[d] = batch[d]
  BY <1>1, <1>4
<1>6. \A i \in DOMAIN rows' : rows'[i].mail \in excused' \/ SpeaksOfItsMail(rows'[i])
  BY <1>1, TableSpeaksTrue
<1>7. \A k \in Names : folders[k] <= folders'[k]
  BY <1>1, <1>2
<1> QED BY <1>1, <1>3, <1>5, <1>6, <1>7, TableStep

LEMMA ImportStep == ASSUME ImportInv, [ImportNext]_importVars PROVE ImportInv'
<1>1. ASSUME NEW b \in Importers, Batch(b) PROVE ImportInv'
  BY <1>1, ImportSkips, ImportFinds, ImportWrites, ImportCommits, ImportBreaks DEF Batch
<1>2. ASSUME NEW b \in Importers, NEW mails \in Batches, NEW keys \in KeySets, BatchStarts(b, mails, keys)
      PROVE  ImportInv'
  BY <1>2, ImportBegins
<1>3. ASSUME NEW n \in Names, NEW i \in DOMAIN rows, RequestMoves(i, n) PROVE ImportInv'
  BY <1>3, ImportRequestMoves
<1>4. ASSUME NEW n \in Names, NEW m \in Imported, ClientMoves(m, n) PROVE ImportInv'
  BY <1>4, ImportClientMoves
<1>5. ASSUME NEW m \in Imported, Synchronizes(m) PROVE ImportInv'
  BY <1>5, ImportSynchronizes
<1>6. CASE UNCHANGED importVars
  BY <1>6, ImportStands
<1> QED BY <1>1, <1>2, <1>3, <1>4, <1>5, <1>6 DEF ImportNext

LEMMA ImportInvariance == ImportSpec => []ImportInv
<1>1. ImportInit => ImportInv
  BY ImportInitially
<1>2. ImportInv /\ [ImportNext]_importVars => ImportInv'
  BY ImportStep
<1> QED BY <1>1, <1>2, PTL DEF ImportSpec

\* Every row of the messages table is of a folder there is, and the transactions of the
\* import look at rows there are, whichever of them overlap with requests and a
\* synchronization, for any number of mails, batches and moves.
THEOREM ImportTypesAreKept == ImportSpec => []ImportTypeOK
BY ImportInvariance, ImportTypesHold, PTL

\* A mail that has a row keeps one, whichever batches of an import overlap, fail and are
\* sent again (import_mailspring_messages), unless a request has moved it, it was written
\* over another's row, or another mail looks like it: for any mailbox and any folders.
THEOREM ImportedMailsAreKept == ImportSpec => []MailsKeepTheirRows
<1>1. ImportInv => MailsKeepTheirRows
  BY DEF ImportInv, TableFits, KeptHaveRows, MailsKeepTheirRows, Safe
<1> QED BY <1>1, ImportInvariance, PTL

-----------------------------------------------------------------------------
(* The composition: each step of it is one of the four components, or      *)
(* leaves that component as it is.                                         *)

LEMMA ComponentsKeepTheirSpecs == Spec => RegistrySpec /\ ImportSpec /\ DevicesSpec /\ RateSpec
<1>1. Init => RegistryInit /\ ImportInit /\ DevicesInit /\ RateInit
  BY DEF Init
<1>2. [Next]_vars => [RegistryNext]_registryVars
  BY DEF Next, vars
<1>3. [Next]_vars => [ImportNext]_importVars
  BY DEF Next, vars
<1>4. [Next]_vars => [DevicesNext]_deviceVars
  BY DEF Next, vars
<1>5. [Next]_vars => [RateNext]_rateVars
  BY DEF Next, vars
<1> QED BY <1>1, <1>2, <1>3, <1>4, <1>5, PTL DEF Spec, RegistrySpec, ImportSpec, DevicesSpec, RateSpec

\* Every state of accounts, imported mails, devices and attempts together has its types, as
\* each of the four components keeps its own.
THEOREM AdministrationTypesAreKept == Spec => []TypeOK
<1>1. RegistryTypeOK /\ ImportTypeOK /\ DevicesTypeOK /\ RateTypeOK => TypeOK
  BY DEF TypeOK
<1> QED BY <1>1, ComponentsKeepTheirSpecs, RegistryTypeCorrect, ImportTypesAreKept, DevicesTypeCorrect,
           RateTypeCorrect, PTL
=============================================================================
