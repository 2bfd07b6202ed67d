-------------------------- MODULE AccountRegistry --------------------------
(***************************************************************************)
(* The accounts of one user: the requests of api/accounts.py and of        *)
(* api/hosting.py, the CSV import of api/import_accounts.py and the        *)
(* reactivation of api/maintenance.py.  Additions are transactions that    *)
(* read the table, wait (for a mail server, for the database) and write;   *)
(* nothing in the database forbids two accounts of one address, and every  *)
(* addition gives all accounts it sees a new place in the alphabet.        *)
(*                                                                         *)
(* Addresses are numbers in the database's alphabetical order.  The form   *)
(* keeps capital letters, which the import's lower() and the callbacks'    *)
(* ILIKE do not mind.  That _ and % are wildcards to ILIKE is left out, as *)
(* are names, tags, hosts and credentials.                                 *)
(***************************************************************************)
EXTENDS Integers, Sequences, FiniteSets

CONSTANTS
    MaxAddress,    \* addresses are 1..MaxAddress
    Files,         \* the CSV files: sequences of rows
    Clients,       \* requests served at one time
    MaxListed,     \* bound on the accounts of a new order given by hand
    MaxRequests    \* bound on the requests

Addresses == 1..MaxAddress

\* A row is an address, and whether its insertion fails, as that of an address or a tag
\* that is too long for its column does.
Rows == [address : Addresses, fails : BOOLEAN]

ASSUME RegistryAssumptions ==
    /\ MaxAddress \in Nat
    /\ MaxListed \in Nat
    /\ MaxRequests \in Nat
    /\ Files \subseteq Seq(Rows)

VARIABLES
    accounts,   \* email_accounts of the user
    session,    \* the transaction of each request
    requests,   \* requests so far
    doubled,    \* addresses that the form was given again, or two requests at once (history)
    untidy,     \* a place was given by hand, or a sort has missed a change (history)
    reported    \* addresses that answers of imports have reported as added (history)

registryHistory == <<doubled, untidy, reported>>
registryVars == <<accounts, session, requests, registryHistory>>

Account == [address : Addresses, capital : BOOLEAN, is_active : BOOLEAN, sort_order : Nat]
NoSession == [step |-> "none"]
NoPlaces == [i \in {} |-> 0]

RegistryInit ==
    /\ accounts = <<>>
    /\ session = [c \in Clients |-> NoSession]
    /\ requests = 0
    /\ doubled = {}
    /\ untidy = FALSE
    /\ reported = {}

-----------------------------------------------------------------------------
(* Sessions.  One has the addresses it has looked up, the accounts it has  *)
(* inserted, the inactive ones it makes active, the places the accounts it *)
(* has looked up had then, and from its sort on the places it writes;      *)
(* missed: others have changed something since it has read places.         *)

Opened(step, todo, looked) ==
    [step |-> step, todo |-> todo, looked |-> looked, new |-> <<>>, revived |-> {},
     had |-> NoPlaces, added |-> {}, place |-> NoPlaces, missed |-> FALSE]

New(a, cap) == [address |-> a, capital |-> cap, is_active |-> TRUE, sort_order |-> 0]

Serving == requests < MaxRequests /\ requests' = requests + 1

Begins(c, s) ==
    /\ session[c] = NoSession
    /\ Serving
    /\ session' = [session EXCEPT ![c] = s]

\* Sessions that have read places have missed what is changed now.
HasRead(s) == s # NoSession /\ (s.step = "sorted" \/ s.had # NoPlaces)

Missing ==
    [d \in Clients |->
       IF HasRead(session[d]) THEN [session[d] EXCEPT !.missed = TRUE] ELSE session[d]]

\* An address that another request has looked up, and may be about to store.
LookedUp(c, a) == \E d \in Clients \ {c} : session[d] # NoSession /\ a \in session[d].looked

LooksUp(c, a) == doubled' = IF LookedUp(c, a) THEN doubled \union {a} ELSE doubled

\* The session of an account that is added, and of one that is connected again.
NewlyAdded(a, cap) == [Opened("sort", <<>>, {a}) EXCEPT !.new = <<New(a, cap)>>]

ConnectedAgain(a, known) ==
    [Opened("sort", <<>>, {a}) EXCEPT !.revived = {i \in known : ~accounts[i].is_active},
                                      !.had = [i \in known |-> accounts[i].sort_order]]

\* add_imap_account, its connection tested: the address is not looked up.
AddImapAccount(c, a, cap) ==
    /\ Begins(c, NewlyAdded(a, cap))
    /\ doubled' = IF LookedUp(c, a) \/ \E i \in DOMAIN accounts : accounts[i].address = a
                  THEN doubled \union {a} ELSE doubled
    /\ UNCHANGED <<accounts, untidy, reported>>

\* A faulty variant: the lookup minds capital letters.
Known_AsWritten(new, a) ==
    {i \in 1..Len(accounts \o new) :
        (accounts \o new)[i].address = a /\ ~(accounts \o new)[i].capital}

\* The accounts of an address, active or not, the session's own too.
Known(new, a) == {i \in 1..Len(accounts \o new) : (accounts \o new)[i].address = a}

\* An account is connected again, or added.  If there are two of the address,
\* scalar_one_or_none raises and nothing is done.
Connects(c, a) ==
    LET known == Known(<<>>, a) IN
    /\ CASE known = {}              -> Begins(c, NewlyAdded(a, FALSE))
         [] Cardinality(known) = 1  -> Begins(c, ConnectedAgain(a, known))
         [] Cardinality(known) >= 2 -> Begins(c, NoSession)
    /\ LooksUp(c, a)
    /\ UNCHANGED <<accounts, untidy, reported>>

\* gmail_callback, outlook_callback, the code exchanged.
OAuthCallback(c, a) == Connects(c, a)

\* connect_existing_mailbox and create_cpanel_mailbox, the mailbox made at the hosting
\* service and its connection tested.
ConnectMailbox(c, a) == Connects(c, a)

ImportStarts(c, file) ==
    /\ Begins(c, Opened("import", file, {}))
    /\ UNCHANGED <<accounts, registryHistory>>

\* A faulty variant: a row is reported as added before it is.
RowDone_Early(s, row) ==
    LET next == [s EXCEPT !.todo = Tail(@), !.looked = @ \union {row.address}] IN
    IF Known(s.new, row.address) # {} THEN next
    ELSE IF row.fails THEN [next EXCEPT !.step = "failed", !.added = @ \union {row.address}]
    ELSE [next EXCEPT !.new = Append(@, New(row.address, FALSE)), !.added = @ \union {row.address}]

\* What becomes of a row: it is skipped, also as an error if there are two accounts of
\* its address or its mail server is refused; inserted; or the insertion fails.
RowDone(s, row) ==
    LET next == [s EXCEPT !.todo = Tail(@), !.looked = @ \union {row.address}] IN
    IF Known(s.new, row.address) # {} THEN next
    ELSE IF row.fails THEN [next EXCEPT !.step = "failed"]
    ELSE [next EXCEPT !.new = Append(@, New(row.address, FALSE)), !.added = @ \union {row.address}]

ImportRow(c) ==
    /\ session[c].step = "import"
    /\ session[c].todo # <<>>
    /\ session' = [session EXCEPT ![c] = RowDone(@, Head(@.todo))]
    /\ LooksUp(c, Head(session[c].todo).address)
    /\ UNCHANGED <<accounts, requests, untidy, reported>>

\* Without an addition nothing is sorted.
ImportEnds(c) ==
    /\ session[c].step = "import"
    /\ session[c].todo = <<>>
    /\ session' = [session EXCEPT ![c] = IF @.added = {} THEN NoSession ELSE [@ EXCEPT !.step = "sort"]]
    /\ UNCHANGED <<accounts, requests, registryHistory>>

\* A faulty variant: the failed row is rolled back, and with it those before it, and the
\* import reports what it has.
ImportFails_Reported(c) ==
    /\ session[c].step = "failed"
    /\ session' = [session EXCEPT ![c] = NoSession]
    /\ reported' = reported \union session[c].added
    /\ UNCHANGED <<accounts, requests, doubled, untidy>>

\* A failed flush leaves the transaction unusable: every later row is an error too, and
\* the sort or the commit raises.  Nothing is kept and nothing reported, as without
\* skip_errors, where the import rolls back at once.
ImportFails(c) ==
    /\ session[c].step = "failed"
    /\ session' = [session EXCEPT ![c] = NoSession]
    /\ UNCHANGED <<accounts, requests, registryHistory>>

SortAz(c) ==
    /\ Begins(c, Opened("sort", <<>>, {}))
    /\ UNCHANGED <<accounts, registryHistory>>

-----------------------------------------------------------------------------
(* The sort and the end of a session.                                      *)

\* A faulty variant: the accounts are listed before the new one is flushed.
Listed_Early(s) == [i \in 1..Len(accounts) |-> accounts[i]]

\* What the sort's query returns: the session's own accounts too.
Listed(s) ==
    [i \in 1..Len(accounts \o s.new) |->
       IF i \in s.revived THEN [accounts[i] EXCEPT !.is_active = TRUE] ELSE (accounts \o s.new)[i]]

\* _sort_accounts_az: the active accounts get their places in the order of their
\* addresses, two of one address in either order.
Places(table) ==
    LET active == {i \in DOMAIN table : table[i].is_active}
        Ties(i) == {j \in active : table[j].address = table[i].address}
        Before(i) == Cardinality({j \in active : table[j].address < table[i].address})
    IN {p \in [active -> 0..Cardinality(active) - 1] :
          \A i \in active : \A j \in Ties(i) :
              p[j] \in Before(i)..Before(i) + Cardinality(Ties(i)) - 1 /\ (p[i] = p[j] => i = j)}

\* The place of an account as the session has read it.
Had(s, i) == IF i \in DOMAIN s.had THEN s.had[i] ELSE accounts[i].sort_order

Placed(s, p) ==
    [k \in 1..Len(s.new) |->
       IF Len(accounts) + k \in DOMAIN p THEN [s.new[k] EXCEPT !.sort_order = p[Len(accounts) + k]]
       ELSE s.new[k]]

\* Of an old account only a place that differs is written.
Moved(s, p) == [i \in {i \in DOMAIN p \intersect DOMAIN accounts : Had(s, i) # p[i]} |-> p[i]]

Sorted(s, p) ==
    [s EXCEPT !.step = "sorted", !.had = NoPlaces, !.new = Placed(s, p), !.place = Moved(s, p)]

Sorts(c) ==
    /\ session[c].step = "sort"
    /\ \E p \in Places(Listed(session[c])) : session' = [session EXCEPT ![c] = Sorted(@, p)]
    /\ UNCHANGED <<accounts, requests, registryHistory>>

\* The table as a session leaves it.
Written(s) ==
    [i \in 1..Len(accounts) |->
       [accounts[i] EXCEPT !.sort_order = IF i \in DOMAIN s.place THEN s.place[i] ELSE @,
                           !.is_active = @ \/ i \in s.revived]] \o s.new

\* get_db commits before the answer is sent.
Commits(c) ==
    LET s == session[c] IN
    /\ s.step = "sorted"
    /\ accounts' = Written(s)
    /\ session' = [(IF accounts' = accounts THEN session ELSE Missing) EXCEPT ![c] = NoSession]
    /\ reported' = reported \union s.added
    /\ untidy' = s.missed
    /\ UNCHANGED <<requests, doubled>>

\* The commit fails, or the process dies.
Breaks(c) ==
    /\ session[c] # NoSession
    /\ session' = [session EXCEPT ![c] = NoSession]
    /\ UNCHANGED <<accounts, requests, registryHistory>>

-----------------------------------------------------------------------------
(* Requests that write what they are told and wait for nothing.            *)

Changes(table) ==
    /\ Serving
    /\ accounts' = table
    /\ session' = Missing
    /\ UNCHANGED <<doubled, reported>>

\* The accounts get their places in the list; of an account that is listed twice the last.
ReorderAccounts(list) ==
    LET last(i) == {k \in DOMAIN list : list[k] = i /\ \A l \in DOMAIN list : list[l] = i => l <= k}
    IN
    /\ Changes([i \in DOMAIN accounts |->
                 IF accounts[i].is_active /\ last(i) # {}
                 THEN [accounts[i] EXCEPT !.sort_order = (CHOOSE k \in last(i) : TRUE) - 1]
                 ELSE accounts[i]])
    /\ untidy' = TRUE

UpdateOrder(i, n) ==
    /\ Changes([accounts EXCEPT ![i].sort_order = n])
    /\ untidy' = TRUE

\* remove_account, and update_account with is_active false.
RemoveAccount(i) ==
    /\ Changes([accounts EXCEPT ![i].is_active = FALSE])
    /\ UNCHANGED untidy

\* update_account with is_active true: the account comes back with the place it had.
ActivateAccount(i) ==
    /\ Changes([accounts EXCEPT ![i].is_active = TRUE])
    /\ untidy' = TRUE

\* reactivate_account compares with the address in small letters, as it is written.
ReactivateAccount(a) ==
    /\ \E i \in DOMAIN accounts :
         /\ {j \in DOMAIN accounts : accounts[j].address = a /\ ~accounts[j].capital} = {i}
         /\ Changes([accounts EXCEPT ![i].is_active = TRUE])
    /\ untidy' = TRUE

-----------------------------------------------------------------------------
Lists == UNION {[1..n -> DOMAIN accounts] : n \in 1..MaxListed}

Additions(c) ==
    \/ \E a \in Addresses : OAuthCallback(c, a) \/ ConnectMailbox(c, a) \/ \E cap \in BOOLEAN : AddImapAccount(c, a, cap)
    \/ \E file \in Files : ImportStarts(c, file)
    \/ ImportRow(c)
    \/ ImportEnds(c)
    \/ ImportFails(c)
    \/ SortAz(c)
    \/ Sorts(c)
    \/ Commits(c)
    \/ Breaks(c)

Manual ==
    \/ \E list \in Lists : ReorderAccounts(list)
    \/ \E i \in DOMAIN accounts :
         RemoveAccount(i) \/ ActivateAccount(i) \/ \E n \in 0..MaxListed : UpdateOrder(i, n)
    \/ \E a \in Addresses : ReactivateAccount(a)

RegistryNext == (\E c \in Clients : Additions(c)) \/ Manual

RegistrySpec == RegistryInit /\ [][RegistryNext]_registryVars

-----------------------------------------------------------------------------
(* Properties.                                                             *)

SessionType(s) ==
    /\ DOMAIN s = DOMAIN Opened("sort", <<>>, {})
    /\ s.step \in {"import", "failed", "sort", "sorted"}
    /\ s.todo \in Seq(Rows)
    /\ s.looked \subseteq Addresses
    /\ s.new \in Seq(Account)
    /\ s.added \subseteq {s.new[k].address : k \in DOMAIN s.new}
    /\ s.place \in [DOMAIN s.place -> Nat]
    /\ s.missed \in BOOLEAN

\* The accounts a session is about are in the table.
Refers(s, table) == s.revived \union DOMAIN s.place \union DOMAIN s.had \subseteq DOMAIN table

RegistryTypeOK ==
    /\ accounts \in Seq(Account)
    /\ DOMAIN session = Clients
    /\ \A c \in Clients :
         session[c] = NoSession \/ (SessionType(session[c]) /\ Refers(session[c], accounts))
    /\ requests \in 0..MaxRequests
    /\ doubled \union reported \subseteq Addresses
    /\ untidy \in BOOLEAN

\* Two accounts have one address only if the form, which does not look, was given the
\* address of an account, or two requests that overlapped were both about it: an import
\* and a callback find accounts whatever their letters and also if they were removed.
DoublesOnlyByOverlap ==
    \A i, j \in DOMAIN accounts :
        i # j /\ accounts[i].address = accounts[j].address => accounts[i].address \in doubled

\* An address that an import has reported as added has an account: rows are stored together
\* with the answer, and a row that fails takes those before it with it, report and all.
ReportedIsStored == \A a \in reported : \E i \in DOMAIN accounts : accounts[i].address = a

\* The accounts a user sees (ordered by sort_order, then address) stand in alphabetical
\* order after every addition, although each addition writes only the places it finds
\* wrong in the table it has read, and accounts come and go without a sort: unless, since
\* the last sort that missed nothing, places were given by hand or an addition was
\* committed that had not seen the one before it.
ListIsAlphabetical ==
    ~untidy =>
        \A i, j \in DOMAIN accounts :
            accounts[i].is_active /\ accounts[j].is_active /\ accounts[i].address < accounts[j].address
                => accounts[i].sort_order <= accounts[j].sort_order
=============================================================================
