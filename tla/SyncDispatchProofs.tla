------------------------- MODULE SyncDispatchProofs -------------------------
(***************************************************************************)
(* Proofs about AccountSync and SyncDispatch, for any accounts, callers    *)
(* and bounds.  The advisory lock makes the synchronizations of one        *)
(* account exclusive, so what a synchronization has compared the mailbox   *)
(* with is what it replaces, and the mirror never goes back.  The callers  *)
(* of SyncDispatch use sync_account_now as AccountSync has it, so this     *)
(* holds of them too; the queue's set of pending accounts is exact; and    *)
(* the runs of the periodic jobs exclude each other.                       *)
(***************************************************************************)
EXTENDS SyncDispatch, SequenceTheorems, TLAPS

\* A caller that is under way knows its account.
TargetInv ==
    \A c \in Callers : pc[c] # "idle" => target[c] \in Accounts

\* The lock of an account is with the caller that synchronizes it.
LockInv ==
    \A c \in Callers : Syncing(c) => holder[target[c]] = c

\* The mirror is some earlier state of the mailbox, and so is what was read of it.
BehindInv ==
    /\ \A a \in Accounts : stored[a] <= remote[a]
    /\ \A c \in Callers :
         pc[c] = "fetched" => snap[c] <= remote[target[c]] /\ base[c] <= snap[c]

SyncInv == SyncTypeOK /\ TargetInv /\ LockInv /\ MirrorUnchanged /\ BehindInv

-----------------------------------------------------------------------------
\* The initial state has the invariant: nobody runs, nothing is stored.
LEMMA InitHolds == SyncInit => SyncInv
  BY SyncAssumptions, SMT DEF SyncInit, SyncInv, SyncTypeOK, TargetInv, LockInv, MirrorUnchanged,
       BehindInv, Syncing, Steps, Statuses

\* What happens outside a synchronization preserves the invariant: a mailbox only grows.
LEMMA WorldHolds == SyncInv /\ World => SyncInv'
<1> SUFFICES ASSUME SyncInv, World PROVE SyncInv'
  OBVIOUS
<1>1. PICK a \in Accounts : MailArrives(a) \/ RemoveAccount(a) \/ ReactivateAccount(a)
  BY DEF World
<1>2. /\ UNCHANGED <<stored, holder, callVars, failures>>
      /\ \A b \in Accounts : remote'[b] \in Nat /\ remote[b] <= remote'[b]
      /\ SyncTypeOK'
  <2>1. CASE MailArrives(a)
    BY <2>1 DEF MailArrives, SyncInv, SyncTypeOK, callVars
  <2>2. CASE RemoveAccount(a)
    BY <2>2 DEF RemoveAccount, SyncInv, SyncTypeOK, callVars
  <2>3. CASE ReactivateAccount(a)
    BY <2>3 DEF ReactivateAccount, SyncInv, SyncTypeOK, Statuses, callVars
  <2> QED
    BY <1>1, <2>1, <2>2, <2>3
<1>3. TargetInv' /\ LockInv' /\ MirrorUnchanged'
  BY <1>2 DEF SyncInv, TargetInv, LockInv, MirrorUnchanged, Syncing, callVars
<1>4. BehindInv'
  BY <1>2 DEF SyncInv, SyncTypeOK, TargetInv, BehindInv, callVars
<1> QED
  BY <1>2, <1>3, <1>4 DEF SyncInv

\* Reading the account preserves the invariant.
LEMMA LoadHolds ==
  ASSUME SyncInv, NEW c \in Callers, NEW a \in Accounts, LoadAccount(c, a)
  PROVE  SyncInv'
<1>1. SyncTypeOK'
  BY DEF LoadAccount, accountVars, SyncInv, SyncTypeOK, Steps, Statuses
<1>2. TargetInv'
  BY DEF LoadAccount, SyncInv, SyncTypeOK, TargetInv
<1>3. \A d \in Callers : Syncing(d)' => Syncing(d) /\ target'[d] = target[d] /\ pc'[d] = pc[d]
  BY DEF LoadAccount, SyncInv, SyncTypeOK, Syncing
<1>4. LockInv' /\ MirrorUnchanged' /\ BehindInv'
  BY <1>3 DEF LoadAccount, accountVars, SyncInv, SyncTypeOK, LockInv, MirrorUnchanged, BehindInv, Syncing
<1> QED
  BY <1>1, <1>2, <1>4 DEF SyncInv

\* Callers that leave, and take their locks with them, disturb nobody else.
LEMMA LeaveHolds ==
  ASSUME SyncInv, NEW S \in SUBSET Callers, Leave(S),
         status' \in [Accounts -> Statuses], failures' \in Nat,
         UNCHANGED <<active, remote, stored>>,
         holder' \in [Accounts -> Callers \union {None}],
         \A c \in Callers \ S : Syncing(c) => holder'[target[c]] = c
  PROVE  SyncInv'
<1>1. SyncTypeOK'
  BY DEF Leave, SyncInv, SyncTypeOK, Steps, Statuses
<1>2. TargetInv'
  BY DEF Leave, SyncInv, SyncTypeOK, TargetInv
<1>3. \A d \in Callers : Syncing(d)' =>
         /\ d \notin S /\ Syncing(d)
         /\ pc'[d] = pc[d] /\ target'[d] = target[d] /\ base'[d] = base[d] /\ snap'[d] = snap[d]
  BY DEF Leave, SyncInv, SyncTypeOK, Syncing
<1>4. LockInv' /\ MirrorUnchanged' /\ BehindInv'
  BY <1>3 DEF SyncInv, SyncTypeOK, LockInv, MirrorUnchanged, BehindInv, Syncing
<1> QED
  BY <1>1, <1>2, <1>4 DEF SyncInv

\* Two callers cannot synchronize one account.
LEMMA Exclusive ==
  ASSUME SyncInv, NEW c \in Callers, NEW d \in Callers, Syncing(c), Syncing(d),
         target[c] = target[d]
  PROVE  c = d
  BY DEF SyncInv, LockInv

\* Every step of a caller preserves the invariant.
LEMMA ProceedHolds ==
  ASSUME SyncInv, NEW c \in Callers, Proceed(c)
  PROVE  SyncInv'
<1>1. CASE TryLock(c)
  <2>1. target[c] \in Accounts
    BY <1>1 DEF TryLock, SyncInv, TargetInv
  <2>2. SyncTypeOK'
    BY <1>1, <2>1 DEF TryLock, accountVars, SyncInv, SyncTypeOK, Steps
  <2>3. TargetInv'
    BY <1>1, <2>1 DEF TryLock, SyncInv, SyncTypeOK, TargetInv
  <2>4. LockInv'
    BY <1>1, <2>1, SyncAssumptions DEF TryLock, SyncInv, SyncTypeOK, TargetInv, LockInv, Syncing
  <2>5. MirrorUnchanged' /\ BehindInv'
    BY <1>1 DEF TryLock, accountVars, SyncInv, SyncTypeOK, MirrorUnchanged, BehindInv
  <2> QED
    BY <2>2, <2>3, <2>4, <2>5 DEF SyncInv
<1>2. CASE SyncInProgress(c)
  BY <1>2, LeaveHolds, {c} \in SUBSET Callers
  DEF SyncInProgress, accountVars, SyncInv, SyncTypeOK, LockInv
<1>3. CASE Fetch(c)
  <2>1. target[c] \in Accounts
    BY <1>3 DEF Fetch, SyncInv, TargetInv
  <2>2. stored[target[c]] \in Nat /\ remote[target[c]] \in Nat
    BY <2>1 DEF SyncInv, SyncTypeOK
  <2>3. SyncTypeOK'
    BY <1>3, <2>2 DEF Fetch, accountVars, SyncInv, SyncTypeOK, Steps
  <2>4. TargetInv' /\ LockInv'
    BY <1>3 DEF Fetch, SyncInv, SyncTypeOK, TargetInv, LockInv, Syncing
  <2>5. MirrorUnchanged'
    BY <1>3 DEF Fetch, SyncInv, SyncTypeOK, MirrorUnchanged
  <2>6. BehindInv'
    BY <1>3, <2>1, <2>2 DEF Fetch, accountVars, SyncInv, SyncTypeOK, BehindInv
  <2> QED
    BY <2>3, <2>4, <2>5, <2>6 DEF SyncInv
<1>4. CASE Commit(c)
  <2>1. target[c] \in Accounts /\ snap[c] \in Nat /\ snap[c] <= remote[target[c]]
    BY <1>4 DEF Commit, SyncInv, SyncTypeOK, TargetInv, BehindInv
  <2>2. SyncTypeOK'
    BY <1>4, <2>1 DEF Commit, Leave, SyncInv, SyncTypeOK, Steps, Statuses
  <2>3. TargetInv'
    BY <1>4 DEF Commit, Leave, SyncInv, SyncTypeOK, TargetInv
  <2>4. ASSUME NEW d \in Callers, Syncing(d)'
        PROVE  /\ d # c /\ Syncing(d) /\ target[d] # target[c] /\ target[d] \in Accounts
               /\ pc'[d] = pc[d] /\ target'[d] = target[d]
               /\ base'[d] = base[d] /\ snap'[d] = snap[d]
    <3>1. /\ d # c /\ Syncing(d)
          /\ pc'[d] = pc[d] /\ target'[d] = target[d]
          /\ base'[d] = base[d] /\ snap'[d] = snap[d]
      BY <1>4, <2>4 DEF Commit, Leave, SyncInv, SyncTypeOK, Syncing
    <3>2. Syncing(c)
      BY <1>4 DEF Commit, Syncing
    <3> QED
      BY <3>1, <3>2, Exclusive DEF SyncInv, TargetInv, Syncing
  <2>5. LockInv'
    BY <1>4, <2>1, <2>4 DEF Commit, SyncInv, SyncTypeOK, LockInv
  <2>6. MirrorUnchanged'
    BY <1>4, <2>1, <2>4 DEF Commit, SyncInv, SyncTypeOK, MirrorUnchanged, Syncing
  <2>7. BehindInv'
    BY <1>4, <2>1, <2>4 DEF Commit, SyncInv, SyncTypeOK, BehindInv, Syncing
  <2> QED
    BY <2>2, <2>3, <2>5, <2>6, <2>7 DEF SyncInv
<1>5. CASE Fail(c)
  <2>1. target[c] \in Accounts /\ Syncing(c)
    BY <1>5 DEF Fail, SyncInv, TargetInv, Syncing
  <2>2. SyncTypeOK'
    BY <1>5, <2>1 DEF Fail, accountVars, SyncInv, SyncTypeOK, Steps, Statuses
  <2>3. TargetInv'
    BY <1>5 DEF Fail, SyncInv, SyncTypeOK, TargetInv
  <2>4. ASSUME NEW d \in Callers, Syncing(d)'
        PROVE  /\ d # c /\ Syncing(d) /\ target[d] # target[c]
               /\ pc'[d] = pc[d] /\ base'[d] = base[d] /\ snap'[d] = snap[d]
    <3>1. /\ d # c /\ Syncing(d)
          /\ pc'[d] = pc[d] /\ base'[d] = base[d] /\ snap'[d] = snap[d]
      BY <1>5, <2>4 DEF Fail, SyncInv, SyncTypeOK, Syncing
    <3> QED
      BY <3>1, <2>1, Exclusive
  <2>5. LockInv'
    BY <1>5, <2>1, <2>4 DEF Fail, SyncInv, SyncTypeOK, LockInv
  <2>6. MirrorUnchanged' /\ BehindInv'
    BY <1>5, <2>4 DEF Fail, accountVars, SyncInv, MirrorUnchanged, BehindInv, Syncing
  <2> QED
    BY <2>2, <2>3, <2>5, <2>6 DEF SyncInv
<1>6. CASE LoadForMark(c)
  <2>1. target[c] \in Accounts
    BY <1>6 DEF LoadForMark, SyncInv, TargetInv
  <2>2. SyncTypeOK'
    BY <1>6, <2>1 DEF LoadForMark, accountVars, SyncInv, SyncTypeOK, Steps
  <2>3. TargetInv' /\ LockInv' /\ MirrorUnchanged' /\ BehindInv'
    BY <1>6 DEF LoadForMark, accountVars, SyncInv, SyncTypeOK, TargetInv, LockInv, MirrorUnchanged,
         BehindInv, Syncing
  <2> QED
    BY <2>2, <2>3 DEF SyncInv
<1>7. CASE MarkError(c)
  <2>1. status' \in [Accounts -> Statuses]
    BY <1>7 DEF MarkError, SyncInv, SyncTypeOK, Statuses
  <2> QED
    BY <1>7, <2>1, LeaveHolds, {c} \in SUBSET Callers DEF MarkError, SyncInv, SyncTypeOK, LockInv
<1>8. CASE MarkFails(c)
  <2>1. failures' \in Nat
    BY <1>8 DEF MarkFails, SyncInv, SyncTypeOK
  <2> QED
    BY <1>8, <2>1, LeaveHolds, {c} \in SUBSET Callers
    DEF MarkFails, accountVars, SyncInv, SyncTypeOK, LockInv
<1> QED
  BY <1>1, <1>2, <1>3, <1>4, <1>5, <1>6, <1>7, <1>8 DEF Proceed

\* A dying process frees the locks of its own callers only.
LEMMA DieHolds ==
  ASSUME SyncInv, NEW S \in SUBSET Callers, Die(S)
  PROVE  SyncInv'
<1>1. holder' \in [Accounts -> Callers \union {None}]
  BY DEF Die, SyncInv, SyncTypeOK
<1>2. \A c \in Callers \ S : Syncing(c) => holder'[target[c]] = c
  BY DEF Die, SyncInv, TargetInv, LockInv, Syncing
<1> QED
  BY <1>1, <1>2, LeaveHolds DEF Die, accountVars, SyncInv, SyncTypeOK

\* Every step preserves the invariant.
LEMMA StepHolds == SyncInv /\ [SyncNext]_syncVars => SyncInv'
<1> SUFFICES ASSUME SyncInv, [SyncNext]_syncVars PROVE SyncInv'
  OBVIOUS
<1>1. CASE World
  BY <1>1, WorldHolds
<1>2. CASE \E c \in Callers : Proceed(c) \/ \E a \in Accounts : LoadAccount(c, a)
  BY <1>2, ProceedHolds, LoadHolds
<1>3. CASE \E S \in SUBSET Callers : Die(S)
  BY <1>3, DieHolds
<1>4. CASE UNCHANGED syncVars
  BY <1>4 DEF syncVars, accountVars, callVars, SyncInv, SyncTypeOK, TargetInv, LockInv,
       MirrorUnchanged, BehindInv, Syncing
<1> QED
  BY <1>1, <1>2, <1>3, <1>4 DEF SyncNext

-----------------------------------------------------------------------------
\* The invariant holds always.
THEOREM SyncSafety == SyncSpec => []SyncInv
  BY InitHolds, StepHolds, PTL DEF SyncSpec

\* A commit of sync_account_now replaces exactly the mirror its synchronization has
\* compared the mailbox with, for any number of concurrent callers (sync_tasks.py 276-294).
THEOREM NothingInBetween == SyncSpec => []MirrorUnchanged
<1>1. SyncInv => MirrorUnchanged
  BY DEF SyncInv
<1> QED
  BY <1>1, SyncSafety, PTL

\* A step with the invariant never takes the mirror back.
LEMMA Forward ==
  ASSUME SyncInv, [SyncNext]_syncVars
  PROVE  [\A a \in Accounts : stored'[a] >= stored[a]]_stored
<1>1. CASE UNCHANGED stored
  BY <1>1
<1>2. CASE \E c \in Callers : Commit(c)
  <2>1. PICK c \in Callers : Commit(c)
    BY <1>2
  <2>2. target[c] \in Accounts /\ base[c] = stored[target[c]] /\ base[c] <= snap[c]
    BY <2>1 DEF Commit, SyncInv, TargetInv, MirrorUnchanged, BehindInv
  <2>3. stored \in [Accounts -> Nat] /\ snap[c] \in Nat
    BY DEF SyncInv, SyncTypeOK
  <2>4. stored' = [stored EXCEPT ![target[c]] = snap[c]]
    BY <2>1 DEF Commit
  <2> QED
    BY <2>2, <2>3, <2>4
<1>3. UNCHANGED stored \/ \E c \in Callers : Commit(c)
  BY DEF SyncNext, syncVars, World, MailArrives, RemoveAccount, ReactivateAccount, LoadAccount,
       Proceed, TryLock, SyncInProgress, Fetch, Fail, LoadForMark, MarkError, MarkFails, Die
<1> QED
  BY <1>1, <1>2, <1>3

\* The local mirror of a mailbox never goes back to an older state, however the
\* synchronizations of its account overlap, fail and die (sync_tasks.py 267-306).
THEOREM MirrorGoesForward == SyncSpec => NeverOlder
  BY SyncSafety, Forward, PTL DEF SyncSpec, NeverOlder

-----------------------------------------------------------------------------
(* The queue and the periodic jobs.                                        *)

\* The types of the variables SyncDispatch adds.
QueueTypes ==
    /\ queue \in Seq(Accounts)
    /\ pending \in SUBSET Accounts
    /\ started \in BOOLEAN
    /\ putting \in Accounts \union {None}
    /\ current \in Accounts \union {None}
    /\ called \in BOOLEAN

JobTypes ==
    /\ jobLock \in Periodics \union {None}
    /\ sending \in SUBSET Periodics
    /\ remaining \in [Periodics -> SUBSET Accounts]
    /\ mishaps \in Nat

\* A periodic run that is still sending has no accounts yet and synchronizes none.
SendingFirst ==
    \A p \in sending : remaining[p] = {} /\ pc[p] = "idle"

-----------------------------------------------------------------------------
(* Types.                                                                  *)

\* The variables have their types at the start.
LEMMA InitTypes == Init => QueueTypes /\ JobTypes
<1> SUFFICES ASSUME Init PROVE QueueTypes /\ JobTypes
  OBVIOUS
<1>1. QueueTypes
  BY EmptySeq DEF Init, QueueTypes
<1>2. JobTypes
  BY DEF Init, JobTypes
<1> QED
  BY <1>1, <1>2

\* The steps of the queue keep its types.
LEMMA QueueTypesStep == QueueTypes /\ [Next]_vars => QueueTypes'
<1> SUFFICES ASSUME QueueTypes, [Next]_vars PROVE QueueTypes'
  OBVIOUS
<1>1. CASE UNCHANGED queueVars
  BY <1>1 DEF queueVars, QueueTypes
<1>2. CASE Requests
  BY <1>2 DEF Requests, EnqueueAdd, AlreadyQueued, QueueTypes
<1>3. CASE EnqueuePut
  BY <1>3, AppendProperties DEF EnqueuePut, QueueTypes
<1>4. CASE WorkerGet
  BY <1>4, HeadTailProperties DEF WorkerGet, QueueTypes
<1>5. CASE WorkerCalls \/ WorkerDone
  BY <1>5 DEF WorkerCalls, WorkerDone, QueueTypes
<1>6. CASE Crash
  BY <1>6, EmptySeq DEF Crash, QueueTypes
<1> QED
  BY <1>1, <1>2, <1>3, <1>4, <1>5, <1>6
  DEF Next, vars, DirectCall, PeriodicStart, PeriodicAborts, PeriodicRuns, PeriodicSelect,
      PeriodicCalls, PeriodicEnd, Running

\* The steps of the periodic jobs keep their types.
LEMMA JobTypesStep == JobTypes /\ [Next]_vars => JobTypes'
<1> SUFFICES ASSUME JobTypes, [Next]_vars PROVE JobTypes'
  OBVIOUS
<1>1. CASE UNCHANGED <<jobVars, mishaps>>
  BY <1>1 DEF jobVars, JobTypes
<1>2. CASE \E p \in Periodics : PeriodicStart(p) \/ PeriodicAborts(p)
  BY <1>2 DEF PeriodicStart, PeriodicAborts, JobTypes
<1>3. CASE \E p \in Periodics : PeriodicRuns(p)
  BY <1>3 DEF PeriodicRuns, PeriodicSelect, PeriodicCalls, PeriodicEnd, Selected, JobTypes
<1>4. CASE Crash
  BY <1>4 DEF Crash, JobTypes
<1> QED
  BY <1>1, <1>2, <1>3, <1>4
  DEF Next, vars, DirectCall, Requests, EnqueueAdd, AlreadyQueued, EnqueuePut, WorkerGet,
      WorkerCalls, WorkerDone, Running

-----------------------------------------------------------------------------
(* The callers are callers of AccountSync.                                 *)

\* Every step of SyncDispatch is a step, or none, of sync_account_now.
LEMMA SyncStep ==
  ASSUME QueueTypes, JobTypes, [Next]_vars
  PROVE  [SyncNext]_syncVars
<1>1. CASE UNCHANGED syncVars
  BY <1>1
<1>2. CASE World
  BY <1>2 DEF SyncNext
<1>3. CASE WorkerCalls
  BY <1>3, DispatchAssumptions DEF WorkerCalls, QueueTypes, SyncNext
<1>4. CASE \E p \in Periodics : PeriodicCalls(p)
  BY <1>4, DispatchAssumptions DEF PeriodicCalls, JobTypes, SyncNext
<1>5. CASE DirectCall
  BY <1>5, DispatchAssumptions DEF DirectCall, SyncNext
<1>6. CASE \E c \in Callers : Running(c)
  BY <1>6 DEF Running, SyncNext
<1>7. CASE Crash
  BY <1>7, DispatchAssumptions DEF Crash, SyncNext
<1> QED
  BY <1>1, <1>2, <1>3, <1>4, <1>5, <1>6, <1>7
  DEF Next, vars, Requests, EnqueueAdd, AlreadyQueued, EnqueuePut, WorkerGet, WorkerDone,
      PeriodicStart, PeriodicAborts, PeriodicRuns, PeriodicSelect, PeriodicEnd

\* The queue, the periodic jobs and the direct calls together use sync_account_now in
\* no way AccountSync does not have: what holds there holds with them.
THEOREM DispatchImplementsSync == Spec => SyncSpec
<1>1. Init => SyncInit
  BY DEF Init
<1> QED
  BY <1>1, InitTypes, QueueTypesStep, JobTypesStep, SyncStep, PTL DEF Spec, SyncSpec

\* Every variable has its type, always.
THEOREM DispatchTypeCorrect == Spec => []TypeOK
<1>1. SyncInv /\ QueueTypes /\ JobTypes => TypeOK
  BY DEF SyncInv, QueueTypes, JobTypes, TypeOK
<1> QED
  BY <1>1, InitTypes, QueueTypesStep, JobTypesStep, DispatchImplementsSync, SyncSafety, PTL DEF Spec

\* With the queue, the periodic jobs and the direct calls at work, a commit still
\* replaces the mirror its synchronization has looked at.
THEOREM DispatchNothingInBetween == Spec => []MirrorUnchanged
  BY DispatchImplementsSync, NothingInBetween, PTL

\* And the mirror still never goes back to an older mailbox.
THEOREM DispatchGoesForward == Spec => NeverOlder
  BY DispatchImplementsSync, MirrorGoesForward, PTL

-----------------------------------------------------------------------------
(* The queue.                                                              *)

\* The elements of a queue one has put an account into.
LEMMA Appended ==
  ASSUME NEW q \in Seq(Accounts), NEW a \in Accounts
  PROVE  /\ Len(Append(q, a)) = Len(q) + 1
         /\ \A i \in 1..Len(q) : Append(q, a)[i] = q[i]
         /\ Append(q, a)[Len(q) + 1] = a
         /\ Len(q) \in Nat
  BY AppendProperties, LenProperties

\* The elements of a queue one has taken its head from.
LEMMA Taken ==
  ASSUME NEW q \in Seq(Accounts), q # <<>>
  PROVE  /\ Len(q) \in Nat \ {0}
         /\ Head(q) = q[1]
         /\ Len(Tail(q)) = Len(q) - 1
         /\ \A i \in 1..Len(q) - 1 : Tail(q)[i] = q[i + 1]
  BY HeadTailProperties, LenProperties, EmptySeq

\* A put moves the account from the request to the queue.
LEMMA PutStep ==
  ASSUME QueueTypes, PendingIsPromised, EnqueuePut
  PROVE  PendingIsPromised'
<1> DEFINE n == Len(queue)
<1>1. putting \in Accounts /\ queue \in Seq(Accounts) /\ putting # current
  BY DEF QueueTypes, EnqueuePut, PendingIsPromised
<1>2. /\ Len(queue') = n + 1
      /\ \A i \in 1..n : queue'[i] = queue[i]
      /\ queue'[n + 1] = putting
      /\ n \in Nat
  BY <1>1, Appended DEF EnqueuePut
<1>3. putting' = None /\ current' = current /\ pending' = pending
  BY DEF EnqueuePut
<1>4. {queue'[i] : i \in 1..Len(queue')} = {queue[i] : i \in 1..n} \union {putting}
  <2> HIDE DEF n
  <2>1. 1..Len(queue') = 1..n \union {n + 1} /\ n + 1 \notin 1..n
    BY <1>2
  <2> QED
    BY <1>2, <2>1 DEF n
<1>5. pending' = {queue'[i] : i \in 1..Len(queue')} \union ({putting', current'} \ {None})
  BY <1>1, <1>3, <1>4, SyncAssumptions DEF PendingIsPromised
<1>6. \A i \in 1..Len(queue') : queue'[i] \notin {putting', current'}
  BY <1>1, <1>2, <1>3, <1>5, SyncAssumptions DEF PendingIsPromised, QueueTypes
<1>7. \A i, j \in 1..Len(queue') : queue'[i] = queue'[j] => i = j
  BY <1>2 DEF PendingIsPromised
<1> QED
  BY <1>3, <1>5, <1>6, <1>7 DEF PendingIsPromised

\* A get moves it from the queue to the worker.
LEMMA GetStep ==
  ASSUME QueueTypes, PendingIsPromised, WorkerGet
  PROVE  PendingIsPromised'
<1> DEFINE n == Len(queue)
<1>1. queue \in Seq(Accounts) /\ queue # <<>>
  BY DEF QueueTypes, WorkerGet
<1>2. /\ n \in Nat \ {0}
      /\ current' = queue[1]
      /\ Len(queue') = n - 1
      /\ \A i \in 1..n - 1 : queue'[i] = queue[i + 1]
  BY <1>1, Taken DEF WorkerGet
<1>3. current = None /\ putting' = putting /\ pending' = pending
  BY DEF WorkerGet
<1>4. queue[1] \in Accounts /\ queue[1] # None
  BY <1>1, <1>2, ElementOfSeq, SyncAssumptions
<1>5. {queue[i] : i \in 1..n} = {queue'[i] : i \in 1..Len(queue')} \union {current'}
  <2> HIDE DEF n
  <2>1. ASSUME NEW i \in 1..n, i # 1
        PROVE  i - 1 \in 1..Len(queue') /\ queue'[i - 1] = queue[i]
    BY <1>2, <2>1
  <2>2. ASSUME NEW i \in 1..Len(queue')
        PROVE  i + 1 \in 1..n /\ queue[i + 1] = queue'[i]
    BY <1>2
  <2>3. 1 \in 1..n /\ queue[1] = current'
    BY <1>2
  <2> QED
    BY <2>1, <2>2, <2>3
<1>6. pending' = {queue'[i] : i \in 1..Len(queue')} \union ({putting', current'} \ {None})
  BY <1>2, <1>3, <1>4, <1>5 DEF PendingIsPromised
<1>7. \A i \in 1..Len(queue') : queue'[i] \notin {putting', current'}
  BY <1>2, <1>3 DEF PendingIsPromised
<1>8. \A i, j \in 1..Len(queue') : queue'[i] = queue'[j] => i = j
  BY <1>2 DEF PendingIsPromised
<1>9. putting' # None => putting' # current'
  BY <1>2, <1>3 DEF PendingIsPromised
<1> QED
  BY <1>6, <1>7, <1>8, <1>9 DEF PendingIsPromised

\* No step makes an account pending that nobody will get to, or queues one twice.
LEMMA PromiseStep == QueueTypes /\ PendingIsPromised /\ [Next]_vars => PendingIsPromised'
<1> SUFFICES ASSUME QueueTypes, PendingIsPromised, [Next]_vars PROVE PendingIsPromised'
  OBVIOUS
<1>1. CASE UNCHANGED <<queue, pending, putting, current>>
  BY <1>1 DEF PendingIsPromised
<1>2. CASE Requests
  BY <1>2, SyncAssumptions DEF Requests, EnqueueAdd, AlreadyQueued, PendingIsPromised
<1>3. CASE EnqueuePut
  BY <1>3, PutStep
<1>4. CASE WorkerGet
  BY <1>4, GetStep
<1>5. CASE WorkerDone
  <2>1. /\ queue' = queue /\ putting' = putting /\ current' = None
        /\ pending' = pending \ {current} /\ current # None
    BY <1>5 DEF WorkerDone
  <2>2. pending \ {current} = {queue[i] : i \in 1..Len(queue)} \union ({putting, None} \ {None})
    <3> DEFINE Q == {queue[i] : i \in 1..Len(queue)}
    <3>1. pending = Q \union ({putting, current} \ {None}) /\ current \notin Q
      BY DEF PendingIsPromised
    <3>2. putting # None => putting # current
      BY DEF PendingIsPromised
    <3> HIDE DEF Q
    <3>3. pending \ {current} = Q \union ({putting, None} \ {None})
      BY <2>1, <3>1, <3>2
    <3> QED
      BY <3>3 DEF Q
  <2>3. \A i \in 1..Len(queue) : queue[i] # None
    BY ElementOfSeq, SyncAssumptions DEF QueueTypes
  <2>4. pending' = {queue'[i] : i \in 1..Len(queue')} \union ({putting', current'} \ {None})
    BY <2>1, <2>2
  <2>5. \A i \in 1..Len(queue') : queue'[i] \notin {putting', current'}
    BY <2>1, <2>3 DEF PendingIsPromised
  <2>6. \A i, j \in 1..Len(queue') : queue'[i] = queue'[j] => i = j
    BY <2>1 DEF PendingIsPromised
  <2> QED
    BY <2>1, <2>4, <2>5, <2>6 DEF PendingIsPromised
<1>6. CASE Crash
  <2>1. /\ Len(queue') = 0 /\ pending' = {} /\ putting' = None /\ current' = None
    BY <1>6, EmptySeq DEF Crash
  <2> QED
    BY <2>1 DEF PendingIsPromised
<1> QED
  BY <1>1, <1>2, <1>3, <1>4, <1>5, <1>6
  DEF Next, vars, queueVars, DirectCall, PeriodicStart, PeriodicAborts, PeriodicRuns,
      PeriodicSelect, PeriodicCalls, PeriodicEnd, Running, WorkerCalls

\* The set of pending accounts is what is queued, about to be queued or with the
\* worker, each account once (inprocess_sync_queue.py 16-50).
THEOREM QueueKeepsItsPromises == Spec => []PendingIsPromised
<1>1. Init => PendingIsPromised
  BY EmptySeq DEF Init, PendingIsPromised
<1> QED
  BY <1>1, InitTypes, QueueTypesStep, PromiseStep, PTL DEF Spec

-----------------------------------------------------------------------------
(* The periodic jobs.                                                      *)

JobInv == SyncTypeOK /\ JobTypes /\ OnePeriodicRun /\ SendingFirst

\* A step that leaves the periodic threads and their jobs alone leaves OnePeriodicRun.
LEMMA QuietJobs ==
  ASSUME JobInv, UNCHANGED jobVars, \A p \in Periodics : pc'[p] # "idle" => pc[p] # "idle"
  PROVE  OnePeriodicRun' /\ SendingFirst'
  BY DEF JobInv, JobTypes, OnePeriodicRun, SendingFirst, jobVars

\* What a step of a running caller does to the threads: it stays who was under way.
LEMMA ProceedUnderWay ==
  ASSUME SyncTypeOK, NEW c \in Callers, Proceed(c), NEW d \in Callers, pc'[d] # "idle"
  PROVE  pc[d] # "idle"
  BY DEF SyncTypeOK, Proceed, TryLock, SyncInProgress, Fetch, Commit, Fail, LoadForMark, MarkError,
       MarkFails, Leave

\* And a caller that starts is the only one to change.
LEMMA LoadUnderWay ==
  ASSUME SyncTypeOK, NEW c \in Callers, NEW a, LoadAccount(c, a), NEW d \in Callers, d # c
  PROVE  pc'[d] = pc[d]
  BY DEF SyncTypeOK, LoadAccount

\* No step lets a second periodic run start.
LEMMA JobStep == JobInv /\ [Next]_vars => OnePeriodicRun' /\ SendingFirst'
<1> SUFFICES ASSUME JobInv, [Next]_vars PROVE OnePeriodicRun' /\ SendingFirst'
  OBVIOUS
<1>0. Periodics \subseteq Callers /\ None \notin Periodics
  BY DispatchAssumptions, SyncAssumptions
<1>1. CASE UNCHANGED <<pc, jobVars>>
  BY <1>1, QuietJobs
<1>2. CASE WorkerCalls
  <2>1. \A p \in Periodics : pc'[p] = pc[p]
    BY <1>2, LoadUnderWay, DispatchAssumptions DEF WorkerCalls, JobInv, syncVars, callVars
  <2> QED
    BY <1>2, <2>1, QuietJobs DEF WorkerCalls
<1>3. CASE DirectCall
  <2>1. \A p \in Periodics : pc'[p] = pc[p]
    BY <1>3, LoadUnderWay, DispatchAssumptions DEF DirectCall, JobInv
  <2> QED
    BY <1>3, <2>1, QuietJobs DEF DirectCall, jobVars
<1>4. CASE \E c \in Callers : Running(c)
  BY <1>0, <1>4, ProceedUnderWay, QuietJobs DEF Running, JobInv
<1>5. ASSUME NEW p \in Periodics, PeriodicStart(p) PROVE OnePeriodicRun' /\ SendingFirst'
  BY <1>0, <1>5
  DEF PeriodicStart, syncVars, callVars, JobInv, JobTypes, OnePeriodicRun, SendingFirst
<1>6. ASSUME NEW p \in Periodics, PeriodicAborts(p) PROVE OnePeriodicRun' /\ SendingFirst'
  BY <1>0, <1>6
  DEF PeriodicAborts, syncVars, callVars, JobInv, JobTypes, OnePeriodicRun, SendingFirst
<1>7. ASSUME NEW p \in Periodics, PeriodicSelect(p) PROVE OnePeriodicRun' /\ SendingFirst'
  BY <1>0, <1>7
  DEF PeriodicSelect, syncVars, callVars, JobInv, JobTypes, OnePeriodicRun, SendingFirst
<1>8. ASSUME NEW p \in Periodics, PeriodicCalls(p) PROVE OnePeriodicRun' /\ SendingFirst'
  <2>1. PICK a \in remaining[p] :
          /\ remaining' = [remaining EXCEPT ![p] = @ \ {a}]
          /\ LoadAccount(p, a) \/ UNCHANGED syncVars
    BY <1>8 DEF PeriodicCalls
  <2>2. \A d \in Callers : d # p => pc'[d] = pc[d]
    BY <1>0, <2>1, LoadUnderWay DEF JobInv, syncVars, callVars
  <2>3. p \notin sending /\ jobLock = p /\ jobLock' = p /\ sending' = sending
    BY <1>8, <2>1 DEF PeriodicCalls, JobInv, OnePeriodicRun, SendingFirst
  <2>4. \A q \in Periodics : q # p => remaining'[q] = remaining[q]
    BY <2>1 DEF JobInv, JobTypes
  <2> QED
    BY <1>0, <2>2, <2>3, <2>4 DEF JobInv, JobTypes, OnePeriodicRun, SendingFirst
<1>9. ASSUME NEW p \in Periodics, PeriodicEnd(p) PROVE OnePeriodicRun' /\ SendingFirst'
  BY <1>0, <1>9
  DEF PeriodicEnd, syncVars, callVars, JobInv, JobTypes, OnePeriodicRun, SendingFirst
<1>10. CASE Crash
  BY <1>0, <1>10, DispatchAssumptions
  DEF Crash, Die, Leave, JobInv, SyncTypeOK, JobTypes, OnePeriodicRun, SendingFirst
<1>11. World => UNCHANGED pc
  BY DEF World, MailArrives, RemoveAccount, ReactivateAccount, callVars
<1> QED
  BY <1>1, <1>2, <1>3, <1>4, <1>5, <1>6, <1>7, <1>8, <1>9, <1>10, <1>11
  DEF Next, vars, syncVars, callVars, jobVars, Requests, EnqueueAdd, AlreadyQueued, EnqueuePut, WorkerGet,
      WorkerDone, PeriodicRuns

\* At most one process runs the periodic jobs at a time (sync_tasks.py 950-961).
THEOREM PeriodicRunsExclude == Spec => []OnePeriodicRun
<1>1. Init => OnePeriodicRun /\ SendingFirst
  BY DispatchAssumptions DEF Init, SyncInit, OnePeriodicRun, SendingFirst
<1>2. SyncInv => SyncTypeOK
  BY DEF SyncInv
<1>3. SyncTypeOK /\ JobTypes /\ OnePeriodicRun /\ SendingFirst => JobInv
  BY DEF JobInv
<1> QED
  BY <1>1, <1>2, <1>3, InitTypes, JobTypesStep, JobStep, DispatchImplementsSync, SyncSafety, PTL
  DEF Spec
=============================================================================
