------------------------ MODULE ScheduledSendProofs ------------------------
(***************************************************************************)
(* Proofs about ScheduledSend, for every number of messages and workers,   *)
(* every batch limit and every number of failures and crashes: first its   *)
(* safety, then that it implements MailDelivery.                           *)
(***************************************************************************)
EXTENDS ScheduledSend, TLAPS

\* Assigning to the columns of a row the values the code assigns leaves a row.
LEMMA ScheduleUpdate ==
    ASSUME NEW r \in Row, NEW s \in {"null", "later", "due"}
    PROVE  [r EXCEPT !.scheduled_send_at = s] \in Row
BY DEF Row

\* So does the folder that the move of a sent or deleted message assigns.
LEMMA FolderUpdate ==
    ASSUME NEW r \in Row, NEW f \in Folders, NEW deleted \in BOOLEAN, NEW draft \in BOOLEAN
    PROVE  /\ [r EXCEPT !.is_deleted = deleted, !.folder = f] \in Row
           /\ [r EXCEPT !.folder = f, !.is_deleted = deleted, !.is_draft = draft] \in Row
BY DEF Row

\* What a run writes back for a message it has handed over is a row.
LEMMA RecordedIsRow ==
    ASSUME TypeOK, NEW w \in Workers, NEW m \in Msgs
    PROVE  Recorded(w, m) \in Row
<1>1. row[m] \in Row
  BY DEF TypeOK
<1>2. [row[m] EXCEPT !.scheduled_send_at = "later"] \in Row
  BY <1>1, ScheduleUpdate
<1>3. [row[m] EXCEPT !.sent_at = TRUE, !.is_draft = FALSE] \in Row
  BY <1>1 DEF Row
<1>4. [row[m] EXCEPT !.sent_at = TRUE, !.is_draft = row[m].is_draft] \in Row
  BY <1>1 DEF Row
<1>5. CASE m \in loaded[w]
  BY <1>2, <1>3, <1>5 DEF Recorded
<1>6. CASE m \notin loaded[w]
  BY <1>2, <1>4, <1>6 DEF Recorded
<1>. QED
  BY <1>5, <1>6

\* A run that ends leaves the worker's variables and the locks well typed.
LEMMA IdleTypes ==
    ASSUME TypeOK, NEW w \in Workers, Idle(w)
    PROVE  /\ lock' \in [Msgs -> Workers \union {Nobody}]
           /\ pc' \in [Workers -> {"idle", "locked", "sending"}]
           /\ todo' \in [Workers -> SUBSET Msgs]
           /\ cur' \in [Workers -> Msgs \union {NoMsg}]
           /\ outcome' \in [Workers -> [Msgs -> {"none", "sent", "retry"}]]
           /\ loaded' \in [Workers -> SUBSET Msgs]
<1>1. Nothing \in [Msgs -> {"none", "sent", "retry"}]
  BY DEF Nothing
<1>. QED
  BY <1>1 DEF Idle, TypeOK

\* Every variable keeps its type, whatever step is taken.
THEOREM TypeCorrect == Spec => []TypeOK
<1>1. Init => TypeOK
  BY Assumptions DEF Init, TypeOK, NoRow, Row, Nothing, Folders
<1>2. TypeOK /\ [Next]_vars => TypeOK'
  <2> SUFFICES ASSUME TypeOK, [Next]_vars PROVE TypeOK'
    OBVIOUS
  <2> USE DEF dbVars, workerVars, providerVars
  <2>1. CASE Schedule
    <3>1. [live |-> TRUE, is_draft |-> TRUE, is_deleted |-> FALSE,
           scheduled_send_at |-> "later", sent_at |-> FALSE, folder |-> "none"] \in Row
      BY DEF Row, Folders
    <3>2. born' \in 0..MsgCount
      BY <2>1, Assumptions DEF Schedule, TypeOK
    <3>. QED
      BY <2>1, <3>1, <3>2 DEF Schedule, TypeOK
  <2>2. ASSUME NEW m \in Msgs, DeleteEmail(m) PROVE TypeOK'
    <3>1. [row[m] EXCEPT !.is_deleted = TRUE, !.folder = "trash"] \in Row
      BY FolderUpdate DEF TypeOK, Folders
    <3>. QED
      BY <2>2, <3>1 DEF DeleteEmail, TypeOK
  <2>3. ASSUME NEW m \in Msgs, NEW f \in Folders, MoveEmail(m, f) PROVE TypeOK'
    <3>1. [row[m] EXCEPT !.folder = f, !.is_deleted = (f = "trash"),
                         !.is_draft = (f = "drafts")] \in Row
      BY FolderUpdate DEF TypeOK
    <3>. QED
      BY <2>3, <3>1 DEF MoveEmail, TypeOK
  <2>4. ASSUME NEW m \in Msgs, TimeReaches(m) PROVE TypeOK'
    <3>1. [row[m] EXCEPT !.scheduled_send_at = "due"] \in Row
      BY ScheduleUpdate DEF TypeOK
    <3>. QED
      BY <2>4, <3>1 DEF TimeReaches, TypeOK
  <2>5. CASE DedupeScan
    BY <2>5 DEF DedupeScan, TypeOK
  <2>6. CASE DedupeDelete
    <3>1. NoRow \in Row
      BY DEF NoRow, Row, Folders
    <3>. QED
      BY <2>6, <3>1 DEF DedupeDelete, TypeOK
  <2>7. ASSUME NEW w \in Workers, SelectForUpdate(w) PROVE TypeOK'
    BY <2>7 DEF SelectForUpdate, Claimable, TypeOK
  <2>8. ASSUME NEW w \in Workers, CommitClaim(w) PROVE TypeOK'
    <3>1. \A m \in Msgs : [row[m] EXCEPT !.scheduled_send_at = "null"] \in Row
      BY ScheduleUpdate DEF TypeOK
    <3>. QED
      BY <2>8, <3>1 DEF CommitClaim, TypeOK
  <2>9. ASSUME NEW w \in Workers, NEW m \in Msgs, LoadNext(w, m) PROVE TypeOK'
    BY <2>9 DEF LoadNext, TypeOK
  <2>10. ASSUME NEW w \in Workers, LoadFails(w) PROVE TypeOK'
    BY <2>10, IdleTypes DEF LoadFails, TypeOK
  <2>11. ASSUME NEW w \in Workers, SendOk(w) PROVE TypeOK'
    BY <2>11 DEF SendOk, TypeOK
  <2>12. ASSUME NEW w \in Workers, NEW a \in BOOLEAN, SendFails(w, a) PROVE TypeOK'
    BY <2>12 DEF SendFails, TypeOK
  <2>13. ASSUME NEW w \in Workers, CommitOutcome(w) PROVE TypeOK'
    <3>1. row' \in [Msgs -> Row]
      BY <2>13, RecordedIsRow DEF CommitOutcome, TypeOK
    <3>. QED
      BY <2>13, <3>1, IdleTypes DEF CommitOutcome, TypeOK
  <2>14. ASSUME NEW w \in Workers, CommitFails(w) PROVE TypeOK'
    BY <2>14, IdleTypes DEF CommitFails, TypeOK
  <2>15. ASSUME NEW w \in Workers, NEW a \in BOOLEAN, Crash(w, a) PROVE TypeOK'
    BY <2>15, IdleTypes DEF Crash, TypeOK
  <2>16. CASE UNCHANGED vars
    BY <2>16 DEF vars, TypeOK
  <2>. QED
    BY <2>1, <2>2, <2>3, <2>4, <2>5, <2>6, <2>7, <2>8, <2>9, <2>10, <2>11, <2>12,
       <2>13, <2>14, <2>15, <2>16 DEF Next, Users, Worker
<1>. QED
  BY <1>1, <1>2, PTL DEF Spec
-----------------------------------------------------------------------------
(* The inductive invariant behind SingleClaim, HandedOnce, SentWasHanded and *)
(* StrandedOnlyByLoss.                                                       *)

\* Rows that were never scheduled are in nobody's hands.
UnbornInv ==
    \A m \in Msgs : m > born =>
        /\ ~row[m].live /\ ~row[m].sent_at
        /\ handed[m] = 0
        /\ \A w \in Workers : m \notin Batch(w)

\* What a worker holds fits where it is in its run, and a message is at one
\* point of the loop at a time.
RunInv ==
    \A w \in Workers :
        /\ pc[w] = "idle" => todo[w] = {}
        /\ pc[w] # "sending" => cur[w] = NoMsg
        /\ cur[w] \notin todo[w]
        /\ \A m \in Msgs : outcome[w][m] # "none" =>
               pc[w] = "sending" /\ m \notin todo[w] /\ m # cur[w]

Scheduled(m) == row[m].live /\ row[m].scheduled_send_at # "null"

\* A locked row is locked by a worker that works on it; until the claim commits
\* the worker holds the locks of its whole batch, which is still scheduled.
LockInv ==
    /\ \A m \in Msgs, w \in Workers : lock[m] = w => m \in Batch(w)
    /\ \A w \in Workers : pc[w] = "locked" =>
         \A m \in todo[w] : lock[m] = w /\ Scheduled(m)

\* Once claimed, a message is out of the schedule until its worker puts it back.
ClaimInv ==
    \A w \in Workers : pc[w] = "sending" =>
        \A m \in Msgs : m \in Batch(w) => row[m].scheduled_send_at = "null"

\* A message the provider has accepted, other than by a call that raised, is out
\* of the schedule for good and in no worker's way to the provider.
Spent(m) ==
    /\ row[m].scheduled_send_at = "null"
    /\ \A w \in Workers : /\ m \notin todo[w] /\ m # cur[w]
                          /\ outcome[w][m] # "retry"

SpentInv == \A m \in Msgs : handed[m] > unsure[m] => Spent(m)

SentInv == \A m \in Msgs, w \in Workers : outcome[w][m] = "sent" => handed[m] > 0

SafetyInv ==
    /\ UnbornInv /\ RunInv /\ LockInv /\ ClaimInv /\ SpentInv /\ SentInv
    /\ SingleClaim /\ HandedOnce /\ SentWasHanded /\ StrandedOnlyByLoss


\* What the steps of the users, the clock and the duplicate remover can do to
\* the row of a message.
TableStep(m) ==
    /\ row[m].scheduled_send_at = "null" =>
         row'[m].scheduled_send_at = "null" \/ m > born
    /\ row'[m].sent_at => row[m].sent_at
    /\ row'[m].live /\ row'[m].scheduled_send_at = "null" =>
         row[m].live /\ row[m].scheduled_send_at = "null" /\ row'[m].sent_at = row[m].sent_at
    /\ m > born' => m > born /\ (row'[m].live => row[m].live)
    /\ Scheduled(m) /\ lock[m] # Nobody => Scheduled(m)'

\* A step of the users, the clock or the duplicate remover is a TableStep of every row.
LEMMA TableStepOf ==
    ASSUME TypeOK, UnbornInv, Users \/ (\E m \in Msgs : TimeReaches(m)) \/ DedupeScan \/ DedupeDelete,
           NEW n \in Msgs
    PROVE  TableStep(n)
<1>0. row[n] \in Row /\ born \in Nat /\ n \in Nat
  BY Assumptions DEF TypeOK, Msgs
<1>1. CASE Schedule
  BY <1>0, <1>1 DEF Schedule, TableStep, Scheduled, UnbornInv, TypeOK, Msgs
<1>2. ASSUME NEW m \in Msgs, DeleteEmail(m) PROVE TableStep(n)
  BY <1>0, <1>2 DEF DeleteEmail, TableStep, Scheduled, Writable, TypeOK, Row
<1>3. ASSUME NEW m \in Msgs, NEW f \in Folders, MoveEmail(m, f) PROVE TableStep(n)
  BY <1>0, <1>3 DEF MoveEmail, TableStep, Scheduled, Writable, TypeOK, Row
<1>4. ASSUME NEW m \in Msgs, TimeReaches(m) PROVE TableStep(n)
  BY <1>0, <1>4 DEF TimeReaches, TableStep, Scheduled, Writable, TypeOK, Row
<1>5. CASE DedupeScan
  BY <1>5 DEF DedupeScan, TableStep, Scheduled
<1>6. CASE DedupeDelete
  BY <1>6 DEF DedupeDelete, TableStep, Scheduled, NoRow
<1>. QED
  BY <1>1, <1>2, <1>3, <1>4, <1>5, <1>6 DEF Users

\* The users, the clock and the duplicate remover leave the workers alone.
LEMMA TableSteps ==
    ASSUME TypeOK, SafetyInv, Users \/ (\E m \in Msgs : TimeReaches(m)) \/ DedupeScan \/ DedupeDelete
    PROVE  SafetyInv'
<1>1. UNCHANGED <<workerVars, providerVars, lock, losses>>
  BY DEF Users, Schedule, DeleteEmail, MoveEmail, TimeReaches, DedupeScan, DedupeDelete
<1>2. UNCHANGED <<pc, todo, cur, outcome, handed, unsure>>
  BY <1>1 DEF workerVars, providerVars
<1>3. \A w \in Workers : Batch(w)' = Batch(w)
  BY <1>2 DEF Batch
<1>4. \A m \in Msgs : TableStep(m)
  BY TableStepOf DEF SafetyInv
<1>5. UnbornInv'
  BY <1>2, <1>3, <1>4 DEF SafetyInv, UnbornInv, TableStep
<1>6. RunInv' /\ SentInv' /\ SingleClaim' /\ HandedOnce'
  BY <1>1, <1>2, <1>3 DEF SafetyInv, RunInv, SentInv, SingleClaim, HandedOnce
<1>6a. LockInv'
  BY <1>1, <1>2, <1>3, <1>4, Assumptions DEF SafetyInv, LockInv, TableStep, TypeOK
<1>7. ClaimInv'
  BY <1>2, <1>3, <1>4 DEF SafetyInv, ClaimInv, UnbornInv, TableStep
<1>8. SpentInv'
  BY <1>2, <1>4 DEF SafetyInv, SpentInv, Spent, UnbornInv, TableStep, TypeOK
<1>9. SentWasHanded'
  BY <1>2, <1>4 DEF SafetyInv, SentWasHanded, TableStep
<1>10. StrandedOnlyByLoss'
  BY <1>1, <1>3, <1>4 DEF SafetyInv, StrandedOnlyByLoss, Stranded, TableStep
<1>. QED
  BY <1>5, <1>6, <1>6a, <1>7, <1>8, <1>9, <1>10 DEF SafetyInv

\* A claim takes only messages that are scheduled, unlocked and so unclaimed.
LEMMA SelectStep ==
    ASSUME TypeOK, SafetyInv, NEW w \in Workers, SelectForUpdate(w)
    PROVE  SafetyInv'
<1>1. PICK batch \in SUBSET Claimable :
        /\ todo' = [todo EXCEPT ![w] = batch]
        /\ lock' = [m \in Msgs |-> IF m \in batch THEN w ELSE lock[m]]
        /\ pc[w] = "idle" /\ pc' = [pc EXCEPT ![w] = "locked"]
        /\ UNCHANGED <<row, born, doomed, cur, outcome, loaded, providerVars, losses>>
  BY DEF SelectForUpdate
<1>2. UNCHANGED <<row, born, cur, outcome, handed, unsure, losses>>
  BY <1>1 DEF providerVars
<1>3. \A m \in batch : /\ m \in Msgs /\ row[m].live /\ row[m].scheduled_send_at = "due"
                       /\ lock[m] = Nobody
  BY <1>1 DEF Claimable
<1>4. \A v \in Workers : v # w => Batch(v)' = Batch(v) /\ pc'[v] = pc[v] /\ todo'[v] = todo[v]
  BY <1>1, <1>2 DEF Batch, TypeOK
<1>5a. todo[w] = {} /\ cur[w] = NoMsg /\ (\A m \in Msgs : outcome[w][m] = "none")
  BY <1>1 DEF SafetyInv, RunInv
<1>5b. todo'[w] = batch
  BY <1>1 DEF TypeOK
<1>5c. NoMsg \notin Msgs
  BY Assumptions DEF Msgs, NoMsg
<1>5. Batch(w) = {} /\ Batch(w)' = batch
  BY <1>2, <1>3, <1>5a, <1>5b, <1>5c DEF Batch
<1>6. ASSUME NEW m \in batch, NEW v \in Workers, m \in Batch(v) PROVE FALSE
  <2>1. CASE pc[v] = "sending"
    BY <1>3, <1>6, <2>1 DEF SafetyInv, ClaimInv
  <2>2. CASE pc[v] # "sending"
    <3>1. m \in todo[v]
      BY <1>3, <1>6, <1>5c, <2>2 DEF SafetyInv, RunInv, Batch
    <3>2. pc[v] = "locked"
      BY <2>2, <3>1 DEF SafetyInv, RunInv, TypeOK
    <3>. QED
      BY <1>3, <3>1, <3>2, Assumptions DEF SafetyInv, LockInv
  <2>. QED
    BY <2>1, <2>2
<1>7. UnbornInv' /\ ClaimInv'
  BY <1>1, <1>2, <1>3, <1>4, <1>5 DEF SafetyInv, UnbornInv, ClaimInv, TypeOK
<1>8. RunInv'
  BY <1>1, <1>2, <1>3, <1>4, <1>5, Assumptions DEF SafetyInv, RunInv, TypeOK, Batch, Msgs, NoMsg
<1>9. LockInv'
  BY <1>1, <1>2, <1>3, <1>4, <1>5, Assumptions DEF SafetyInv, LockInv, Scheduled, TypeOK
<1>10. SingleClaim'
  BY <1>4, <1>5, <1>6 DEF SafetyInv, SingleClaim
<1>11. SpentInv' /\ SentInv' /\ HandedOnce' /\ SentWasHanded'
  BY <1>1, <1>2, <1>3 DEF SafetyInv, SpentInv, Spent, SentInv, HandedOnce, SentWasHanded, TypeOK
<1>12. StrandedOnlyByLoss'
  BY <1>2, <1>4, <1>5 DEF SafetyInv, StrandedOnlyByLoss, Stranded
<1>. QED
  BY <1>7, <1>8, <1>9, <1>10, <1>11, <1>12 DEF SafetyInv

\* The committed claim takes its batch out of the schedule.
LEMMA ClaimStep ==
    ASSUME TypeOK, SafetyInv, NEW w \in Workers, CommitClaim(w)
    PROVE  SafetyInv'
<1>1. /\ pc[w] = "locked" /\ pc' = [pc EXCEPT ![w] = "sending"]
      /\ lock' = [m \in Msgs |-> IF m \in todo[w] THEN Nobody ELSE lock[m]]
      /\ UNCHANGED <<born, todo, cur, outcome, handed, unsure, losses>>
  BY DEF CommitClaim, providerVars
<1>2. \A m \in Msgs :
        /\ row'[m].live = row[m].live /\ row'[m].sent_at = row[m].sent_at
        /\ m \in todo[w] => row'[m].scheduled_send_at = "null"
        /\ m \notin todo[w] => row'[m] = row[m]
  BY DEF CommitClaim, TypeOK, Row
<1>3. \A v \in Workers : Batch(v)' = Batch(v)
  BY <1>1 DEF Batch
<1>4. Batch(w) = todo[w]
  BY <1>1, Assumptions DEF Batch, SafetyInv, RunInv, TypeOK, Msgs, NoMsg
<1>5. UnbornInv' /\ SingleClaim' /\ HandedOnce' /\ SentInv' /\ SentWasHanded'
  BY <1>1, <1>2, <1>3 DEF SafetyInv, UnbornInv, SingleClaim, HandedOnce, SentInv, SentWasHanded
<1>6. RunInv'
  BY <1>1 DEF SafetyInv, RunInv, TypeOK
<1>7. LockInv'
  <2>1. ASSUME NEW m \in Msgs, NEW v \in Workers, lock'[m] = v PROVE m \in Batch(v)'
    BY <1>1, <1>3, <2>1, Assumptions DEF SafetyInv, LockInv
  <2>2. ASSUME NEW v \in Workers, pc'[v] = "locked", NEW m \in todo'[v]
        PROVE  lock'[m] = v /\ Scheduled(m)'
    <3>1. v # w /\ pc[v] = "locked" /\ m \in todo[v] /\ m \in Msgs
      BY <1>1, <2>2 DEF TypeOK
    <3>2. m \in Batch(v) /\ m \notin todo[w]
      BY <1>4, <3>1 DEF SafetyInv, SingleClaim, Batch
    <3>. QED
      BY <1>1, <1>2, <3>1, <3>2 DEF SafetyInv, LockInv, Scheduled
  <2>. QED
    BY <2>1, <2>2 DEF LockInv
<1>8. ClaimInv'
  BY <1>1, <1>2, <1>3, <1>4 DEF SafetyInv, ClaimInv, TypeOK
<1>9. SpentInv'
  BY <1>1, <1>2 DEF SafetyInv, SpentInv, Spent, TypeOK
<1>10. StrandedOnlyByLoss'
  BY <1>1, <1>2, <1>3, <1>4 DEF SafetyInv, StrandedOnlyByLoss, Stranded
<1>. QED
  BY <1>5, <1>6, <1>7, <1>8, <1>9, <1>10 DEF SafetyInv

\* Loading the next message moves it from the rest of the batch to the provider.
LEMMA LoadStep ==
    ASSUME TypeOK, SafetyInv, NEW w \in Workers, NEW n \in Msgs, LoadNext(w, n)
    PROVE  SafetyInv'
<1>1. /\ pc[w] = "sending" /\ cur[w] = NoMsg /\ n \in todo[w]
      /\ cur' = [cur EXCEPT ![w] = n]
      /\ todo' = [todo EXCEPT ![w] = @ \ {n}]
      /\ lock' = [d \in Msgs |-> IF d \in Dirty(w) THEN w ELSE lock[d]]
      /\ \A d \in Dirty(w) : lock[d] \in {w, Nobody}
      /\ UNCHANGED <<row, born, pc, outcome, handed, unsure, losses>>
  BY DEF LoadNext, providerVars
<1>2. \A v \in Workers : Batch(v)' = Batch(v)
  BY <1>1, Assumptions DEF Batch, TypeOK, Msgs, NoMsg
<1>3. UnbornInv' /\ SingleClaim' /\ HandedOnce' /\ SentInv' /\ SentWasHanded' /\ ClaimInv'
  BY <1>1, <1>2 DEF SafetyInv, UnbornInv, SingleClaim, HandedOnce, SentInv, SentWasHanded, ClaimInv
<1>4. RunInv'
  BY <1>1, Assumptions DEF SafetyInv, RunInv, TypeOK, Msgs, NoMsg
<1>5. Dirty(w) \subseteq Batch(w)
  BY DEF Dirty, Batch
<1>6. LockInv'
  BY <1>1, <1>2, <1>5, Assumptions DEF SafetyInv, LockInv, Scheduled, TypeOK
<1>7. SpentInv'
  BY <1>1 DEF SafetyInv, SpentInv, Spent, TypeOK
<1>8. StrandedOnlyByLoss'
  BY <1>1, <1>2 DEF SafetyInv, StrandedOnlyByLoss, Stranded
<1>. QED
  BY <1>3, <1>4, <1>6, <1>7, <1>8 DEF SafetyInv

\* The call to the provider is over: the message is still in the batch, and the
\* provider has accepted it at most once more than by calls that raised.
LEMMA SendStep ==
    ASSUME TypeOK, SafetyInv, NEW w \in Workers,
           SendOk(w) \/ (\E accepted \in BOOLEAN : SendFails(w, accepted))
    PROVE  SafetyInv'
<1> DEFINE n == cur[w]
<1>1. /\ n \in Msgs /\ n # NoMsg
      /\ cur' = [cur EXCEPT ![w] = NoMsg]
      /\ UNCHANGED <<row, born, lock, pc, todo, losses>>
  BY Assumptions DEF SendOk, SendFails, TypeOK, dbVars
<1>2. NoMsg \notin Msgs
  BY Assumptions DEF Msgs, NoMsg
<1>3. pc[w] = "sending" /\ n \notin todo[w] /\ outcome[w][n] = "none"
  BY <1>1 DEF SafetyInv, RunInv
<1>4. n \in Batch(w) /\ (\A v \in Workers : v # w => n \notin Batch(v))
  BY <1>1 DEF SafetyInv, SingleClaim, Batch
<1>5. row[n].scheduled_send_at = "null"
  BY <1>1, <1>3, <1>4 DEF SafetyInv, ClaimInv
<1>6. handed[n] <= unsure[n]
  BY <1>1, SMTT(30) DEF SafetyInv, SpentInv, Spent, TypeOK
<1>7. \/ /\ outcome' = [outcome EXCEPT ![w][n] = "sent"]
         /\ handed' = [handed EXCEPT ![n] = @ + 1]
         /\ unsure' = unsure
      \/ /\ outcome' = [outcome EXCEPT ![w][n] = "retry"]
         /\ \/ /\ handed' = [handed EXCEPT ![n] = @ + 1]
               /\ unsure' = [unsure EXCEPT ![n] = @ + 1]
            \/ UNCHANGED <<handed, unsure>>
  BY DEF SendOk, SendFails, TypeOK
<1>8. \A v \in Workers : Batch(v)' = Batch(v)
  BY <1>1, <1>2, <1>3, <1>4, <1>7 DEF Batch, TypeOK
<1>9. \A m \in Msgs : m # n => handed'[m] = handed[m] /\ unsure'[m] = unsure[m]
  BY <1>7 DEF TypeOK
<1>10. \A m \in Msgs, v \in Workers : m # n \/ v # w => outcome'[v][m] = outcome[v][m]
  BY <1>7 DEF TypeOK
<1>11. ~(n > born)
  BY <1>1, <1>4 DEF SafetyInv, UnbornInv
<1>12. UnbornInv'
  BY <1>1, <1>8, <1>9, <1>11 DEF SafetyInv, UnbornInv
<1>13. RunInv'
  BY <1>1, <1>2, <1>3, <1>10 DEF SafetyInv, RunInv, TypeOK
<1>14. LockInv' /\ SingleClaim' /\ ClaimInv' /\ StrandedOnlyByLoss'
  BY <1>1, <1>8 DEF SafetyInv, LockInv, Scheduled, SingleClaim, ClaimInv, StrandedOnlyByLoss, Stranded
<1>14a. /\ handed'[n] <= 1 + unsure'[n]
        /\ \A m \in Msgs : handed[m] > 0 => handed'[m] > 0
        /\ outcome'[w][n] = "sent" => handed'[n] > 0
        /\ outcome'[w][n] # "sent" => ~(handed'[n] > unsure'[n])
  BY <1>1, <1>6, <1>7 DEF TypeOK
<1>15. HandedOnce'
  BY <1>1, <1>9, <1>14a DEF SafetyInv, HandedOnce
<1>16. ASSUME NEW m \in Msgs, handed'[m] > unsure'[m] PROVE Spent(m)'
  <2>1. CASE m # n
    <3>1. Spent(m)
      BY <1>9, <1>16, <2>1 DEF SafetyInv, SpentInv
    <3>2. \A v \in Workers : cur'[v] = cur[v] \/ cur'[v] = NoMsg
      BY <1>1 DEF TypeOK
    <3>3. \A v \in Workers : outcome'[v][m] = outcome[v][m]
      BY <1>10, <2>1
    <3>4. row'[m] = row[m] /\ todo' = todo
      BY <1>1
    <3>. QED
      BY <1>2, <3>1, <3>2, <3>3, <3>4 DEF Spent
  <2>2. CASE m = n
    <3>1. outcome'[w][n] = "sent"
      BY <1>1, <1>14a, <1>16, <2>2 DEF TypeOK
    <3>2. \A v \in Workers : v # w => n \notin todo[v] /\ n # cur[v] /\ outcome[v][n] = "none"
      BY <1>1, <1>4 DEF Batch
    <3>. QED
      BY <1>1, <1>3, <1>5, <1>10, <2>2, <3>1, <3>2 DEF Spent, TypeOK
  <2>. QED
    BY <2>1, <2>2
<1>17. SentInv' /\ SentWasHanded'
  <2>1. SentWasHanded'
    BY <1>1, <1>14a DEF SafetyInv, SentWasHanded
  <2>2. ASSUME NEW m \in Msgs, NEW v \in Workers, outcome'[v][m] = "sent" PROVE handed'[m] > 0
    <3>1. CASE m = n /\ v = w
      BY <1>14a, <2>2, <3>1
    <3>2. CASE m # n \/ v # w
      BY <1>10, <1>14a, <2>2, <3>2 DEF SafetyInv, SentInv
    <3>. QED
      BY <3>1, <3>2
  <2>. QED
    BY <2>1, <2>2 DEF SentInv
<1>. QED
  BY <1>12, <1>13, <1>14, <1>15, <1>16, <1>17 DEF SafetyInv, SpentInv

\* A run that ends gives up its batch and its locks.
LEMMA IdleBatch ==
    ASSUME TypeOK, NEW w \in Workers, Idle(w)
    PROVE  /\ Batch(w)' = {}
           /\ \A v \in Workers : v # w =>
                /\ Batch(v)' = Batch(v)
                /\ pc'[v] = pc[v] /\ todo'[v] = todo[v] /\ cur'[v] = cur[v]
                /\ outcome'[v] = outcome[v]
           /\ pc'[w] = "idle" /\ todo'[w] = {} /\ cur'[w] = NoMsg
           /\ \A m \in Msgs : outcome'[w][m] = "none"
           /\ \A m \in Msgs : lock'[m] = IF lock[m] = w THEN Nobody ELSE lock[m]
<1>1. NoMsg \notin Msgs
  BY Assumptions DEF Msgs, NoMsg
<1>2. /\ pc'[w] = "idle" /\ todo'[w] = {} /\ cur'[w] = NoMsg
      /\ \A m \in Msgs : outcome'[w][m] = "none"
      /\ \A m \in Msgs : lock'[m] = IF lock[m] = w THEN Nobody ELSE lock[m]
  BY DEF Idle, Nothing, TypeOK
<1>3. \A v \in Workers : v # w =>
        /\ pc'[v] = pc[v] /\ todo'[v] = todo[v] /\ cur'[v] = cur[v]
        /\ outcome'[v] = outcome[v]
  BY DEF Idle, TypeOK
<1>. QED
  BY <1>1, <1>2, <1>3 DEF Batch

\* The locks a run gives up were its own: those of the others stay.
LEMMA IdleLocks ==
    ASSUME TypeOK, LockInv, NEW w \in Workers, Idle(w),
           \A m \in Msgs : Scheduled(m) /\ m \notin Batch(w) => Scheduled(m)',
           SingleClaim
    PROVE  LockInv'
<1>1. ASSUME NEW m \in Msgs, NEW v \in Workers, lock'[m] = v PROVE m \in Batch(v)'
  <2>1. v # w /\ lock[m] = v
    BY <1>1, IdleBatch, Assumptions
  <2>. QED
    BY <2>1, IdleBatch DEF LockInv
<1>2. ASSUME NEW v \in Workers, pc'[v] = "locked", NEW m \in todo'[v]
      PROVE  lock'[m] = v /\ Scheduled(m)'
  <2>1. v # w /\ pc[v] = "locked" /\ m \in todo[v] /\ m \in Msgs
    BY <1>2, IdleBatch DEF TypeOK
  <2>2. m \notin Batch(w)
    BY <2>1 DEF SingleClaim, Batch
  <2>. QED
    BY <2>1, <2>2, IdleBatch DEF LockInv
<1>. QED
  BY <1>1, <1>2 DEF LockInv

\* The final commit puts the failed messages back and marks the others sent.
LEMMA OutcomeStep ==
    ASSUME TypeOK, SafetyInv, NEW w \in Workers, CommitOutcome(w)
    PROVE  SafetyInv'
<1>1. /\ pc[w] = "sending" /\ cur[w] = NoMsg /\ todo[w] = {} /\ Idle(w)
      /\ UNCHANGED <<born, handed, unsure, losses>>
  BY DEF CommitOutcome, providerVars
<1>2. \A m \in Msgs :
        /\ row'[m].live = row[m].live
        /\ outcome[w][m] = "none" => row'[m] = row[m]
        /\ outcome[w][m] = "sent" =>
             row'[m].sent_at /\ row'[m].scheduled_send_at = row[m].scheduled_send_at
        /\ outcome[w][m] = "retry" =>
             row'[m].scheduled_send_at = "later" /\ row'[m].sent_at = row[m].sent_at
  <2> SUFFICES ASSUME NEW m \in Msgs
               PROVE  /\ row'[m].live = row[m].live
                      /\ outcome[w][m] = "none" => row'[m] = row[m]
                      /\ outcome[w][m] = "sent" =>
                           /\ row'[m].sent_at
                           /\ row'[m].scheduled_send_at = row[m].scheduled_send_at
                      /\ outcome[w][m] = "retry" =>
                           /\ row'[m].scheduled_send_at = "later"
                           /\ row'[m].sent_at = row[m].sent_at
    OBVIOUS
  <2>1. row[m] \in Row /\ row'[m] = IF m \in Dirty(w) THEN Recorded(w, m) ELSE row[m]
    BY DEF CommitOutcome, TypeOK
  <2>2. CASE outcome[w][m] = "none"
    BY <2>1, <2>2 DEF Dirty
  <2>3. CASE outcome[w][m] = "sent"
    BY <2>1, <2>3 DEF Dirty, Recorded, Row
  <2>4. CASE outcome[w][m] = "retry"
    BY <2>1, <2>4 DEF Dirty, Recorded, Row
  <2>. QED
    BY <2>2, <2>3, <2>4 DEF TypeOK
<1>3. \A m \in Msgs : outcome[w][m] \in {"none", "sent", "retry"}
  BY DEF TypeOK
<1>4. Batch(w) = {m \in Msgs : outcome[w][m] # "none"}
  BY <1>1, Assumptions DEF Batch, Msgs, NoMsg
<1>5. \A m \in Msgs : m > born => row'[m] = row[m]
  BY <1>2, <1>4 DEF SafetyInv, UnbornInv
<1>6. UnbornInv' /\ SingleClaim' /\ HandedOnce'
  BY <1>1, <1>5, IdleBatch DEF SafetyInv, UnbornInv, SingleClaim, HandedOnce
<1>7. RunInv' /\ SentInv'
  BY <1>1, IdleBatch, Assumptions DEF SafetyInv, RunInv, SentInv, Msgs, NoMsg
<1>8. LockInv'
  BY <1>1, <1>2, <1>4, IdleLocks DEF SafetyInv, Scheduled
<1>9. ClaimInv'
  BY <1>1, <1>2, <1>3, <1>4, IdleBatch DEF SafetyInv, ClaimInv, SingleClaim
<1>10. SpentInv'
  BY <1>1, <1>2, <1>3, IdleBatch, Assumptions DEF SafetyInv, SpentInv, Spent, Msgs, NoMsg
<1>11. SentWasHanded'
  BY <1>1, <1>2, <1>3 DEF SafetyInv, SentWasHanded, SentInv
<1>12. StrandedOnlyByLoss'
  BY <1>1, <1>2, <1>3, <1>4, IdleBatch DEF SafetyInv, StrandedOnlyByLoss, Stranded
<1>. QED
  BY <1>6, <1>7, <1>8, <1>9, <1>10, <1>11, <1>12 DEF SafetyInv

\* A run that is lost leaves the rows as they are: what it had claimed stays out
\* of the schedule, so a copy it may have left with the provider is the last one.
LEMMA LossStep ==
    ASSUME TypeOK, SafetyInv, NEW w \in Workers,
           LoadFails(w) \/ CommitFails(w) \/ (\E accepted \in BOOLEAN : Crash(w, accepted))
    PROVE  SafetyInv'
<1>1. Idle(w) /\ losses' = losses + 1 /\ UNCHANGED <<row, born, unsure>>
  BY DEF LoadFails, CommitFails, Crash, providerVars
<1>2. \/ handed' = handed
      \/ /\ cur[w] \in Msgs
         /\ handed' = [handed EXCEPT ![cur[w]] = @ + 1]
  BY DEF LoadFails, CommitFails, Crash, providerVars, TypeOK
<1>3. NoMsg \notin Msgs
  BY Assumptions DEF Msgs, NoMsg
<1>4. ASSUME cur[w] \in Msgs
      PROVE  /\ cur[w] \in Batch(w) /\ pc[w] = "sending"
             /\ handed[cur[w]] <= unsure[cur[w]]
             /\ row[cur[w]].scheduled_send_at = "null"
  BY <1>3, <1>4 DEF SafetyInv, RunInv, ClaimInv, SpentInv, Spent, Batch, TypeOK
<1>5. UnbornInv'
  BY <1>1, <1>2, <1>4, IdleBatch DEF SafetyInv, UnbornInv, TypeOK
<1>6. SingleClaim' /\ ClaimInv' /\ LockInv'
  BY <1>1, IdleBatch, IdleLocks DEF SafetyInv, SingleClaim, ClaimInv, Scheduled
<1>7. RunInv'
  BY <1>1, <1>3, IdleBatch DEF SafetyInv, RunInv
<1>8. HandedOnce'
  BY <1>1, <1>2, <1>4 DEF SafetyInv, HandedOnce, TypeOK
<1>9. ASSUME NEW m \in Msgs, handed'[m] > unsure'[m] PROVE Spent(m)'
  <2>1. CASE m = cur[w]
    <3>1. \A v \in Workers : v # w => m \notin todo[v] /\ m # cur[v] /\ outcome[v][m] = "none"
      BY <1>4, <2>1 DEF SafetyInv, SingleClaim, Batch
    <3>. QED
      BY <1>1, <1>3, <1>4, <2>1, <3>1, IdleBatch DEF Spent
  <2>2. CASE m # cur[w]
    BY <1>1, <1>2, <1>3, <1>9, <2>2, IdleBatch DEF SafetyInv, SpentInv, Spent, TypeOK
  <2>. QED
    BY <2>1, <2>2
<1>10. SentInv' /\ SentWasHanded'
  <2>1. \A m \in Msgs : handed[m] > 0 => handed'[m] > 0
    BY <1>2 DEF TypeOK
  <2>2. SentInv'
    BY <1>1, <2>1, IdleBatch DEF SafetyInv, SentInv
  <2>3. SentWasHanded'
    BY <1>1, <2>1 DEF SafetyInv, SentWasHanded
  <2>. QED
    BY <2>2, <2>3
<1>11. StrandedOnlyByLoss'
  BY <1>1 DEF StrandedOnlyByLoss, TypeOK
<1>. QED
  BY <1>5, <1>6, <1>7, <1>8, <1>9, <1>10, <1>11 DEF SafetyInv, SpentInv

\* The inductive invariant of scheduled sending holds in every reachable state.
THEOREM Safety == Spec => []SafetyInv
<1>1. Init => SafetyInv
  <2> SUFFICES ASSUME Init PROVE SafetyInv
    OBVIOUS
  <2>1. /\ \A m \in Msgs : row[m] = NoRow /\ handed[m] = 0 /\ unsure[m] = 0 /\ lock[m] = Nobody
        /\ \A w \in Workers : /\ pc[w] = "idle" /\ todo[w] = {} /\ cur[w] = NoMsg
                              /\ \A m \in Msgs : outcome[w][m] = "none"
    BY DEF Init, Nothing
  <2>2. NoMsg \notin Msgs
    BY Assumptions DEF Msgs, NoMsg
  <2>3. \A w \in Workers : Batch(w) = {}
    BY <2>1, <2>2 DEF Batch
  <2>4. UnbornInv /\ RunInv /\ ClaimInv /\ SentInv
    BY <2>1, <2>2, <2>3 DEF UnbornInv, RunInv, ClaimInv, SentInv, NoRow
  <2>5. LockInv
    BY <2>1, <2>3, Assumptions DEF LockInv
  <2>6. SpentInv /\ SingleClaim /\ HandedOnce /\ SentWasHanded /\ StrandedOnlyByLoss
    BY <2>1, <2>3 DEF SpentInv, SingleClaim, HandedOnce, SentWasHanded, StrandedOnlyByLoss,
                      Stranded, NoRow
  <2>. QED
    BY <2>4, <2>5, <2>6 DEF SafetyInv
<1>2. TypeOK /\ SafetyInv /\ [Next]_vars => SafetyInv'
  <2>1. CASE UNCHANGED vars
    BY <2>1 DEF vars, dbVars, workerVars, providerVars, SafetyInv, UnbornInv, RunInv, LockInv,
                Scheduled, ClaimInv, SpentInv, Spent, SentInv, SingleClaim, HandedOnce, SentWasHanded,
                StrandedOnlyByLoss, Stranded, Batch
  <2>2. ASSUME TypeOK, SafetyInv, Next PROVE SafetyInv'
    BY <2>2, TableSteps, SelectStep, ClaimStep, LoadStep, SendStep, OutcomeStep, LossStep
       DEF Next, Worker
  <2>. QED
    BY <2>1, <2>2
<1>. QED
  BY <1>1, <1>2, TypeCorrect, PTL DEF Spec

\* Two workers are never on the same message, however many there are and however
\* their runs overlap: SKIP LOCKED and the emptied scheduled_send_at together claim
\* a batch for one run, also after the locks are gone.
THEOREM ClaimsAreExclusive == Spec => []SingleClaim
BY Safety, PTL DEF SafetyInv

\* The provider gets a second copy only after a call that raised although the
\* provider had accepted its mail: no crash, deletion or overlap duplicates mail.
THEOREM NoDuplicateMail == Spec => []HandedOnce
BY Safety, PTL DEF SafetyInv

\* A row is marked sent only after the provider has accepted its message.
THEOREM SentIsTrue == Spec => []SentWasHanded
BY Safety, PTL DEF SafetyInv

\* A message leaves the schedule without being sent only when a run was lost.
THEOREM NothingStrandedQuietly == Spec => []StrandedOnlyByLoss
BY Safety, PTL DEF SafetyInv

-----------------------------------------------------------------------------
(* Every step of the workers, the users, the clock and the duplicate       *)
(* remover is a step of MailDelivery under the mapping of ScheduledSend's  *)
(* Delivery, or changes none of its variables.                             *)

stageBar == [m \in Msgs |-> StageOf(m)]
takenBar == [w \in Workers |-> Taken(w)]

\* The mapped variables keep their values.
Stutters ==
    /\ \A m \in Msgs : StageOf(m)' = StageOf(m)
    /\ \A w \in Workers : Taken(w)' = Taken(w)
    /\ handed' = handed

\* A step that changes no stage and hands nothing over is invisible to the promise.
LEMMA StutterStep == Stutters => UNCHANGED Delivery!vars
BY DEF Stutters, Delivery!vars

\* The stage of a message nobody has taken, and of one a run has taken.
LEMMA Stage ==
    ASSUME TypeOK, SafetyInv, NEW m \in Msgs
    PROVE  /\ StageOf(m) \in Delivery!Stages
           /\ m > born => StageOf(m) = "unplanned"
           /\ \A w \in Workers : m \in Taken(w) => ~(m > born) /\ StageOf(m) = "taken"
           /\ ~(m > born) /\ (\A w \in Workers : m \notin Taken(w)) =>
                /\ StageOf(m) \in Delivery!Ends
                /\ Scheduled(m) => StageOf(m) = "planned"
                /\ StageOf(m) = "sent" => row[m].sent_at
<1>1. \A w \in Workers : m \in Taken(w) => ~(m > born)
  BY DEF Taken, SafetyInv, UnbornInv
<1>. QED
  BY <1>1 DEF StageOf, Scheduled, Delivery!Stages, Delivery!Ends

\* Workers and rows that look the same are in the same stage.
LEMMA SameStage ==
    ASSUME NEW m \in Msgs,
           m > born' <=> m > born,
           \A w \in Workers : m \in Taken(w)' <=> m \in Taken(w),
           row'[m].live = row[m].live,
           row'[m].live => /\ (row'[m].scheduled_send_at = "null") = (row[m].scheduled_send_at = "null")
                           /\ row'[m].sent_at = row[m].sent_at
    PROVE  StageOf(m)' = StageOf(m)
BY DEF StageOf

\* The empty table is the initial state of the promise.
LEMMA InitMaps == ASSUME Init PROVE Delivery!Init
<1>1. \A m \in Msgs : StageOf(m) = "unplanned"
  BY Assumptions DEF Init, StageOf, Msgs
<1>2. \A w \in Workers : Taken(w) = {}
  BY DEF Init, Taken
<1>. QED
  BY <1>1, <1>2 DEF Init, Delivery!Init

\* A step that leaves the workers alone plans a message, deletes messages nobody
\* has taken, or changes no stage.
LEMMA TableMaps ==
    ASSUME TypeOK, SafetyInv,
           Users \/ (\E m \in Msgs : TimeReaches(m)) \/ DedupeScan \/ DedupeDelete
    PROVE  Delivery!Next \/ UNCHANGED Delivery!vars
<1>1. UNCHANGED <<pc, todo, cur, outcome, handed>>
  BY DEF Users, Schedule, DeleteEmail, MoveEmail, TimeReaches, DedupeScan, DedupeDelete,
         workerVars, providerVars
<1>2. \A w \in Workers : Taken(w)' = Taken(w)
  BY <1>1 DEF Taken, Batch
<1>3. CASE Schedule
  <2>0. PICK n \in Msgs : n = born + 1
    BY <1>3, Assumptions DEF Schedule, TypeOK, Msgs
  <2>1. n > born /\ ~(n > born')
    BY <1>3, <2>0, Assumptions DEF Schedule, TypeOK, Msgs
  <2>2. StageOf(n) = "unplanned" /\ (\A w \in Workers : n \notin Taken(w))
    BY <2>1, Stage DEF StageOf
  <2>3. StageOf(n)' = "planned"
    <3>1. row'[n].live /\ row'[n].scheduled_send_at = "later"
      BY <1>3, <2>0 DEF Schedule, TypeOK
    <3>. QED
      BY <1>2, <2>1, <2>2, <3>1 DEF StageOf
  <2>4. ASSUME NEW m \in Msgs, m # n PROVE StageOf(m)' = StageOf(m)
    <3>1. m > born' <=> m > born
      BY <1>3, <2>0, <2>4, Assumptions DEF Schedule, TypeOK, Msgs
    <3>2. row'[m] = row[m]
      BY <1>3, <2>0, <2>4 DEF Schedule, TypeOK
    <3>. QED
      BY <1>2, <3>1, <3>2, SameStage
  <2>5. Delivery!Plan(n)
    <3>1. stageBar[n] = "unplanned" /\ stageBar' = [stageBar EXCEPT ![n] = "planned"]
      BY <2>2, <2>3, <2>4 DEF stageBar
    <3>2. takenBar' = takenBar
      BY <1>2 DEF takenBar
    <3>. QED
      BY <1>1, <3>1, <3>2 DEF Delivery!Plan, stageBar, takenBar
  <2>. QED
    BY <2>1, <2>5 DEF Delivery!Next
<1>4. CASE DedupeDelete
  <2> DEFINE S == {m \in doomed : StageOf(m) \in Delivery!Ends}
  <2>1. S \in SUBSET Msgs
    BY DEF TypeOK
  <2>2. ASSUME NEW m \in S PROVE StageOf(m)' = "dropped"
    <3>1. m \in Msgs /\ ~(m > born) /\ (\A w \in Workers : m \notin Taken(w))
      BY <2>1, Stage DEF Delivery!Ends
    <3>. QED
      BY <1>2, <1>4, <3>1 DEF DedupeDelete, StageOf, NoRow
  <2>3. ASSUME NEW m \in Msgs \ S PROVE StageOf(m)' = StageOf(m)
    <3>1. CASE m \in doomed
      <4>1. m > born \/ \E w \in Workers : m \in Taken(w)
        BY <2>3, <3>1, Stage
      <4>. QED
        BY <1>2, <1>4, <4>1 DEF DedupeDelete, StageOf
    <3>2. CASE m \notin doomed
      BY <1>2, <1>4, <3>2, SameStage DEF DedupeDelete
    <3>. QED
      BY <3>1, <3>2
  <2>4. Delivery!Drop(S)
    BY <1>1, <1>2, <2>1, <2>2, <2>3 DEF Delivery!Drop
  <2>. QED
    BY <2>1, <2>4 DEF Delivery!Next
<1>5. ASSUME ~Schedule, ~DedupeDelete PROVE Stutters
  <2> SUFFICES ASSUME NEW m \in Msgs PROVE StageOf(m)' = StageOf(m)
    BY <1>1, <1>2 DEF Stutters
  <2>1. row[m] \in Row /\ born' = born
    BY <1>5 DEF Users, DeleteEmail, MoveEmail, TimeReaches, DedupeScan, TypeOK
  <2>2. CASE DedupeScan
    BY <1>2, <2>1, <2>2, SameStage DEF DedupeScan
  <2>3. ASSUME NEW n \in Msgs, DeleteEmail(n) PROVE StageOf(m)' = StageOf(m)
    BY <1>2, <2>1, <2>3, SameStage DEF DeleteEmail, TypeOK, Row
  <2>4. ASSUME NEW n \in Msgs, NEW f \in Folders, MoveEmail(n, f)
        PROVE  StageOf(m)' = StageOf(m)
    BY <1>2, <2>1, <2>4, SameStage DEF MoveEmail, TypeOK, Row
  <2>5. ASSUME NEW n \in Msgs, TimeReaches(n) PROVE StageOf(m)' = StageOf(m)
    BY <1>2, <2>1, <2>5, SameStage DEF TimeReaches, TypeOK, Row
  <2>. QED
    BY <1>5, <2>2, <2>3, <2>4, <2>5 DEF Users
<1>. QED
  BY <1>3, <1>4, <1>5, StutterStep

\* The commit of a claim takes the batch; selecting it and loading its messages
\* change nothing a reader of MailDelivery sees.
LEMMA ClaimMaps ==
    ASSUME TypeOK, SafetyInv, SafetyInv', NEW w \in Workers, CommitClaim(w)
    PROVE  Delivery!Next
<1> DEFINE S == todo[w]
<1>1. /\ pc[w] = "locked" /\ pc' = [pc EXCEPT ![w] = "sending"] /\ S \in SUBSET Msgs
      /\ UNCHANGED <<born, todo, cur, outcome, handed>>
  BY DEF CommitClaim, providerVars, TypeOK
<1>2. \A v \in Workers : Batch(v)' = Batch(v)
  BY <1>1 DEF Batch
<1>3. Batch(w) = S
  BY <1>1, Assumptions DEF Batch, SafetyInv, RunInv, Msgs, NoMsg
<1>4. Taken(w) = {} /\ Taken(w)' = S /\ (\A v \in Workers : v # w => Taken(v)' = Taken(v))
  BY <1>1, <1>2, <1>3 DEF Taken, TypeOK
<1>5. ASSUME NEW m \in S PROVE StageOf(m) = "planned" /\ StageOf(m)' = "taken"
  <2>1. Scheduled(m) /\ m \in Msgs
    BY <1>1, <1>5 DEF SafetyInv, LockInv
  <2>2. ~(m > born) /\ (\A v \in Workers : m \notin Taken(v))
    BY <1>1, <1>3, <1>5, <2>1 DEF SafetyInv, UnbornInv, SingleClaim, Taken
  <2>3. StageOf(m) = "planned"
    BY <2>1, <2>2, Stage
  <2>. QED
    BY <1>1, <1>4, <1>5, <2>2, <2>3 DEF StageOf
<1>6. ASSUME NEW m \in Msgs \ S PROVE StageOf(m)' = StageOf(m)
  <2>1. row'[m] = row[m]
    BY <1>6 DEF CommitClaim, TypeOK
  <2>. QED
    BY <1>1, <1>4, <1>6, <2>1, SameStage
<1>7. Delivery!Take(w, S)
  <2>1. takenBar[w] = {} /\ takenBar' = [takenBar EXCEPT ![w] = S]
    BY <1>4 DEF takenBar
  <2>2. /\ \A m \in S : stageBar[m] = "planned"
        /\ stageBar' = [m \in Msgs |-> IF m \in S THEN "taken" ELSE stageBar[m]]
    BY <1>1, <1>5, <1>6 DEF stageBar
  <2>. QED
    BY <1>1, <2>1, <2>2 DEF Delivery!Take, stageBar, takenBar
<1>. QED
  BY <1>1, <1>7 DEF Delivery!Next

\* Steps inside a run between the claim and the outcome are invisible to the promise.
LEMMA QuietMaps ==
    ASSUME TypeOK, SafetyInv, NEW w \in Workers,
           SelectForUpdate(w) \/ (\E m \in Msgs : LoadNext(w, m))
    PROVE  Stutters
<1>1. UNCHANGED <<row, born, outcome, handed>>
  BY DEF SelectForUpdate, LoadNext, providerVars
<1>2. ASSUME NEW v \in Workers PROVE Taken(v)' = Taken(v)
  <2>1. CASE SelectForUpdate(w)
    BY <2>1 DEF SelectForUpdate, Taken, Batch, TypeOK
  <2>2. ASSUME NEW n \in Msgs, LoadNext(w, n) PROVE Taken(v)' = Taken(v)
    <3>1. /\ cur[w] = NoMsg /\ n \in todo[w] /\ NoMsg \notin Msgs
          /\ cur' = [cur EXCEPT ![w] = n]
          /\ todo' = [todo EXCEPT ![w] = @ \ {n}]
          /\ UNCHANGED <<pc, outcome>>
      BY <2>2, Assumptions DEF LoadNext, Msgs, NoMsg
    <3>2. Batch(v)' = Batch(v)
      BY <3>1 DEF Batch, TypeOK
    <3>. QED
      BY <3>1, <3>2 DEF Taken
  <2>. QED
    BY <2>1, <2>2
<1>. QED
  BY <1>1, <1>2, SameStage DEF Stutters

\* A message the provider accepts is handed over by the promise as well.
LEMMA SendMaps ==
    ASSUME TypeOK, SafetyInv, NEW w \in Workers,
           SendOk(w) \/ (\E accepted \in BOOLEAN : SendFails(w, accepted))
    PROVE  Delivery!Next \/ UNCHANGED Delivery!vars
<1> DEFINE n == cur[w]
<1>1. /\ n \in Msgs
      /\ cur' = [cur EXCEPT ![w] = NoMsg]
      /\ outcome' = [outcome EXCEPT ![w][n] = "sent"] \/ outcome' = [outcome EXCEPT ![w][n] = "retry"]
      /\ UNCHANGED <<row, born, pc, todo>>
  BY Assumptions DEF SendOk, SendFails, TypeOK, dbVars
<1>2. pc[w] = "sending" /\ n \in Taken(w)
  BY <1>1, Assumptions DEF SafetyInv, RunInv, Taken, Batch, Msgs, NoMsg
<1>3. ASSUME NEW v \in Workers PROVE Taken(v)' = Taken(v)
  <2>1. NoMsg \notin Msgs
    BY Assumptions DEF Msgs, NoMsg
  <2>2. Batch(v)' = Batch(v)
    BY <1>1, <2>1 DEF Batch, TypeOK
  <2>. QED
    BY <1>1, <2>2 DEF Taken
<1>4. \A m \in Msgs : StageOf(m)' = StageOf(m)
  BY <1>1, <1>3, SameStage
<1>5. handed' = handed \/ handed' = [handed EXCEPT ![n] = @ + 1]
  BY DEF SendOk, SendFails, TypeOK
<1>6. CASE handed' = handed
  BY <1>3, <1>4, <1>6, StutterStep DEF Stutters
<1>7. CASE handed' = [handed EXCEPT ![n] = @ + 1]
  <2>1. stageBar' = stageBar /\ takenBar' = takenBar /\ n \in takenBar[w]
    BY <1>2, <1>3, <1>4 DEF stageBar, takenBar
  <2>2. Delivery!HandOver(w, n)
    BY <1>7, <2>1 DEF Delivery!HandOver, stageBar, takenBar
  <2>. QED
    BY <1>1, <2>2 DEF Delivery!Next
<1>. QED
  BY <1>5, <1>6, <1>7

\* However a run ends - its outcome committed, its commit failed, its process
\* dead - it releases exactly the messages it had taken.
LEMMA EndMaps ==
    ASSUME TypeOK, TypeOK', SafetyInv, SafetyInv', NEW w \in Workers,
           \/ CommitOutcome(w) \/ LoadFails(w) \/ CommitFails(w)
           \/ \E accepted \in BOOLEAN : Crash(w, accepted)
    PROVE  Delivery!Next
<1>1. Idle(w) /\ born' = born
  BY DEF CommitOutcome, LoadFails, CommitFails, Crash
<1>2. Taken(w)' = {} /\ (\A v \in Workers : v # w => Taken(v)' = Taken(v))
  BY <1>1, IdleBatch DEF Taken
<1>3. \A m \in Msgs : m \notin Taken(w) => row'[m] = row[m]
  <2>1. CASE CommitOutcome(w)
    BY <2>1 DEF CommitOutcome, Taken, Batch, Dirty, TypeOK
  <2>2. CASE ~CommitOutcome(w)
    BY <2>2 DEF LoadFails, CommitFails, Crash
  <2>. QED
    BY <2>1, <2>2
<1>4. ASSUME NEW m \in Msgs, m \notin Taken(w) PROVE StageOf(m)' = StageOf(m)
  BY <1>1, <1>2, <1>3, <1>4, SameStage
<1>5. ASSUME NEW m \in Msgs, m \in Taken(w)
      PROVE  /\ StageOf(m)' \in Delivery!Ends
             /\ StageOf(m)' = "sent" => row'[m].sent_at
  <2>1. ~(m > born') /\ (\A v \in Workers : m \notin Taken(v)')
    BY <1>1, <1>2, <1>5, Stage DEF SafetyInv, SingleClaim, Taken
  <2>. QED
    BY <2>1 DEF StageOf, Delivery!Ends
<1>6. ASSUME NEW m \in Msgs, m \in Taken(w), row'[m].sent_at PROVE handed[m] > 0
  <2>1. CASE CommitOutcome(w)
    <3>1. handed' = handed
      BY <2>1 DEF CommitOutcome, providerVars
    <3>. QED
      BY <1>6, <3>1 DEF SafetyInv, SentWasHanded
  <2>2. CASE ~CommitOutcome(w)
    BY <1>6, <2>2 DEF LoadFails, CommitFails, Crash, SafetyInv, SentWasHanded
  <2>. QED
    BY <2>1, <2>2
<1>7. handed' = handed \/ \E m \in Taken(w) : handed' = [handed EXCEPT ![m] = @ + 1]
  <2>1. CASE CommitOutcome(w) \/ LoadFails(w) \/ CommitFails(w)
    BY <2>1 DEF CommitOutcome, LoadFails, CommitFails, providerVars
  <2>2. ASSUME NEW accepted \in BOOLEAN, Crash(w, accepted)
        PROVE  handed' = handed \/ \E m \in Taken(w) : handed' = [handed EXCEPT ![m] = @ + 1]
    <3>1. CASE accepted
      <4>1. cur[w] \in Msgs /\ pc[w] = "sending"
        BY <2>2, <3>1 DEF Crash, TypeOK, SafetyInv, RunInv
      <4>2. cur[w] \in Taken(w)
        BY <4>1 DEF Taken, Batch
      <4>3. handed' = [handed EXCEPT ![cur[w]] = @ + 1]
        BY <2>2, <3>1, <4>1 DEF Crash, TypeOK
      <4>. QED
        BY <4>2, <4>3
    <3>2. CASE ~accepted
      BY <2>2, <3>2 DEF Crash, TypeOK
    <3>. QED
      BY <3>1, <3>2
  <2>. QED
    BY <2>1, <2>2
<1>8. Delivery!Release(w)
  <2>1. takenBar' = [takenBar EXCEPT ![w] = {}] /\ takenBar[w] = Taken(w)
    BY <1>2 DEF takenBar
  <2>2. stageBar' \in [Msgs -> Delivery!Stages]
    <3>1. \A m \in Msgs : StageOf(m)' \in Delivery!Stages
      BY <1>4, <1>5, Stage DEF Delivery!Stages
    <3>. QED
      BY <3>1 DEF stageBar
  <2>3. \A m \in Msgs :
          IF m \in takenBar[w]
          THEN stageBar'[m] \in Delivery!Ends /\ (stageBar'[m] = "sent" => handed[m] > 0)
          ELSE stageBar'[m] = stageBar[m]
    BY <1>4, <1>5, <1>6, <2>1 DEF stageBar
  <2>4. handed' = handed \/ \E m \in takenBar[w] : handed' = [handed EXCEPT ![m] = @ + 1]
    BY <1>7, <2>1
  <2>. QED
    BY <2>1, <2>2, <2>3, <2>4 DEF Delivery!Release, stageBar, takenBar
<1>. QED
  BY <1>8 DEF Delivery!Next

\* Scheduled sending keeps the promise of MailDelivery for every number of
\* messages, workers, failures and crashes.
THEOREM KeepsThePromise == Spec => DeliveryPromise
<1>1. Init => Delivery!Init
  BY InitMaps
<1>2. ASSUME TypeOK, TypeOK', SafetyInv, SafetyInv', [Next]_vars
      PROVE  [Delivery!Next]_(Delivery!vars)
  <2>1. CASE Next
    BY <1>2, <2>1, TableMaps, ClaimMaps, QuietMaps, StutterStep, SendMaps, EndMaps
       DEF Next, Worker
  <2>2. CASE UNCHANGED vars
    <3>1. Stutters
      BY <2>2 DEF vars, dbVars, workerVars, providerVars, Stutters, StageOf, Taken, Batch
    <3>. QED
      BY <3>1, StutterStep
  <2>. QED
    BY <1>2, <2>1, <2>2
<1>. QED
  BY <1>1, <1>2, TypeCorrect, Safety, PTL DEF Spec, DeliveryPromise, Delivery!Spec
=============================================================================
