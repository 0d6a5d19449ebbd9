------------------------- MODULE StageConsumerProofs -------------------------
(* Proofs about StageConsumer, for any tasks, messages, workers, replay       *)
(* requests, retry limit and number of disturbances.                          *)
EXTENDS StageConsumer, TLAPS

\* A worker that is not idle handles a message that is in the topic, and no two
\* workers handle the same one: an offset is committed by its own handler.
OneHandler ==
  /\ \A w \in Workers : IF pc[w] = "idle" THEN msg[w] = NoMessage
                        ELSE msg[w] \in Messages /\ topic[msg[w]] \in Tasks
  /\ \A v, w \in Workers : (msg[v] = msg[w] /\ v # w) => msg[v] = NoMessage

\* Whoever is about to write or send an envelope has used up the retries, and
\* an envelope once read, persisted or replayed keeps that attempt.
Exhausted(n) == n > MaxRetries
EnvelopeOf(r) == r.envelope = 0 \/ Exhausted(r.envelope)
EnvelopesAreExhausted ==
  /\ \A t \in Tasks : EnvelopeOf(row[t])
  /\ \A w \in Workers : EnvelopeOf(snap[w])
  /\ \A w \in Workers : pc[w] \in {"exhausted", "savingDeadLetter"} => Exhausted(failures[w])
  /\ \A w \in Workers : pc[w] = "burying" => Exhausted(sending[w])
  /\ \A a \in Admins : replay[a].step # "idle" =>
       replay[a].task \in Tasks /\ Exhausted(replay[a].envelope)

\* A worker that only publishes an envelope or commits does nothing more for its
\* task; a message of t that no such worker has will still be handled.
Ending == Finishing \cup {"burying"}
ToHandle(t) == \E m \in Messages : /\ topic[m] = t
                                   /\ \A w \in Workers : msg[w] = m => pc[w] \notin Ending

\* The row alone says how t ended.
Accounted(t) == \/ row[t].status = "SUCCESS"
                \/ row[t].envelope # 0 /\ row[t].status \in {"FAILED", "PENDING"}

\* NoTaskLost and QuietTaskIsRecorded are not inductive: of two workers that
\* publish an envelope of t each could be the one the other relies on.
NoTaskForgotten == \A t \in Tasks : row[t].status # "ABSENT" => ToHandle(t) \/ Accounted(t)

StageInv ==
  /\ TypeOK
  /\ OneHandler
  /\ EnvelopesAreExhausted
  /\ DeadLetteredAfterRetries
  /\ NoTaskForgotten

----------------------------------------------------------------------------
\* Nothing is published, handled or recorded at first.
LEMMA InitInv == Init => StageInv
  <1> SUFFICES ASSUME Init PROVE StageInv
    OBVIOUS
  <1>1. NoRow \in Row /\ NoRow.envelope = 0 /\ NoRow.status = "ABSENT"
    BY DEF NoRow, Row, Status
  <1>2. NoReplay \in Replay /\ NoReplay.step = "idle"
    BY <1>1 DEF NoReplay, Replay
  <1>3. TypeOK
    BY <1>1, <1>2, ConsumerAssumption DEF Init, TypeOK, Steps
  <1>4. OneHandler /\ DeadLetteredAfterRetries /\ NoTaskForgotten
    BY <1>1 DEF Init, OneHandler, DeadLetteredAfterRetries, NoTaskForgotten
  <1>5. EnvelopesAreExhausted
    BY <1>1, <1>2 DEF Init, EnvelopesAreExhausted, EnvelopeOf
  <1> QED BY <1>3, <1>4, <1>5 DEF StageInv

\* The rows the tracker writes are rows.
LEMMA RowTypes ==
  ASSUME NEW r \in Row, NEW n \in Nat
  PROVE  /\ SuccessRow(r) \in Row /\ SuccessRow(r).status = "SUCCESS"
         /\ SuccessRow(r).envelope = r.envelope
         /\ RetryRow(r) \in Row /\ RetryRow(r).envelope = r.envelope
         /\ DeadLetterRow(r, n) \in Row /\ DeadLetterRow(r, n).envelope = n
  <1>1. r.retries \in Nat /\ r.retries + 1 \in Nat
    BY DEF Row
  <1>2. RetryRow(r) \in Row /\ RetryRow(r).envelope = r.envelope
    BY <1>1 DEF RetryRow, Row, Status
  <1> QED BY <1>2 DEF SuccessRow, DeadLetterRow, Row, Status

\* The worker of a step that is not idle, its message and its task.
LEMMA Handling ==
  ASSUME StageInv, NEW w \in Workers, pc[w] # "idle"
  PROVE  /\ msg[w] \in Messages
         /\ Handled(w) \in Tasks
         /\ row[Handled(w)] \in Row
         /\ \A v \in Workers \ {w} : msg[v] # msg[w]
  BY ConsumerAssumption DEF StageInv, OneHandler, TypeOK, Handled

----------------------------------------------------------------------------
(* Types. *)

\* Every step keeps the types.
LEMMA TypesOfSteps ==
  ASSUME StageInv, [Next]_vars
  PROVE  TypeOK'
  <1> USE DEF TypeOK
  <1>0. TypeOK /\ (Disturb => budget' \in 0 .. MaxDisturbances)
    BY ConsumerAssumption DEF StageInv, Disturb
  <1>a. ASSUME NEW t \in Tasks PROVE Produced(t) => topic' \in [Messages -> Tasks \cup {NoTask}]
    BY <1>0 DEF Produced
  <1>b. ASSUME NEW w \in Workers, NEW s \in Steps, Goto(w, s)
        PROVE  pc' \in [Workers -> Steps]
    BY <1>0, <1>b DEF Goto
  <1>c. ASSUME NEW w \in Workers, Release(w)
        PROVE  /\ pc' \in [Workers -> Steps] /\ msg' \in [Workers -> Messages \cup {NoMessage}]
               /\ snap' \in [Workers -> Row] /\ failures' \in [Workers -> Nat]
               /\ sending' \in [Workers -> Nat]
    <2>1. NoRow \in Row
      BY DEF NoRow, Row, Status
    <2> QED BY <1>0, <1>c, <2>1 DEF Release, Goto, Steps
  <1>1. ASSUME NEW t \in Tasks, Publish(t) PROVE TypeOK'
    BY <1>0, <1>1, <1>a DEF Publish, workerVars
  <1>2. ASSUME NEW w \in Workers, Fetch(w) PROVE TypeOK'
    BY <1>0, <1>2, <1>b DEF Fetch, Steps
  <1>3. ASSUME NEW w \in Workers, Load(w) PROVE TypeOK'
    <2>1. pc[w] # "idle" /\ Handled(w) \in Tasks
      BY <1>3, Handling DEF Load
    <2>2. row' \in [Tasks -> Row]
      BY <1>0, <1>3, <2>1 DEF Load, Row, Status
    <2>3. pc' \in [Workers -> Steps]
      BY <1>0, <1>3, <1>b DEF Load, Steps
    <2> QED BY <1>0, <1>3, <2>2, <2>3 DEF Load
  <1>4. ASSUME NEW w \in Workers, MetadataFails(w) PROVE TypeOK'
    BY <1>0, <1>4, <1>b DEF MetadataFails, Steps
  <1>5. ASSUME NEW w \in Workers, MarkProcessing(w) PROVE TypeOK'
    <2>1. row' \in [Tasks -> Row]
      BY <1>0, <1>5, ZenonT(60) DEF MarkProcessing, Row, Status
    <2> QED BY <1>0, <1>5, <1>b, <2>1 DEF MarkProcessing, Steps
  <1>6. ASSUME NEW w \in Workers, Process(w) PROVE TypeOK'
    BY <1>0, <1>6, <1>b DEF Process, Steps
  <1>7. ASSUME NEW w \in Workers, ReadRow(w) PROVE TypeOK'
    <2>1. row[Handled(w)] \in Row
      BY <1>7, Handling DEF ReadRow, Reading
    <2>2. Reading[pc[w]] \in Steps
      BY <1>7 DEF ReadRow, Reading, Steps
    <2> QED BY <1>0, <1>7, <1>b, <2>1, <2>2 DEF ReadRow
  <1>8. ASSUME NEW w \in Workers, SaveFails(w) PROVE TypeOK'
    BY <1>0, <1>8, <1>b DEF SaveFails, Steps
  <1>9. ASSUME NEW w \in Workers, SaveSuccess(w) PROVE TypeOK'
    BY <1>0, <1>9, <1>b, RowTypes DEF SaveSuccess, Steps
  <1>10. ASSUME NEW w \in Workers, SaveRetry(w) PROVE TypeOK'
    <2>1. snap[w].retries + 1 \in Nat /\ RetryRow(snap[w]) \in Row
      BY <1>0, RowTypes DEF Row
    <2> QED BY <1>0, <1>10, <1>b, <2>1 DEF SaveRetry, Steps
  <1>11. ASSUME NEW w \in Workers, SaveDeadLetter(w) PROVE TypeOK'
    BY <1>0, <1>11, <1>b, RowTypes DEF SaveDeadLetter, Steps
  <1>12. ASSUME NEW w \in Workers, HandoffRetry(w) \/ HandoffRetryFails(w) PROVE TypeOK'
    <2>1. Handled(w) \in Tasks
      BY <1>12, Handling DEF HandoffRetry, HandoffRetryFails
    <2> QED BY <1>0, <1>12, <1>a, <1>b, <2>1
            DEF HandoffRetry, HandoffRetryFails, ProducedOrNot, workerVars, Steps
  <1>13. ASSUME NEW w \in Workers, LookupDeadLetter(w) PROVE TypeOK'
    <2>1. row[Handled(w)].envelope \in Nat
      BY <1>13, Handling DEF LookupDeadLetter, Row
    <2> QED BY <1>0, <1>13, <1>b, <2>1 DEF LookupDeadLetter, Steps
  <1>14. ASSUME NEW w \in Workers, PublishDeadLetter(w) \/ PublishDeadLetterFails(w) PROVE TypeOK'
    <2>1. dlq' \in [Tasks -> SUBSET Nat]
      BY <1>0, <1>14 DEF PublishDeadLetter, PublishDeadLetterFails
    <2> QED BY <1>0, <1>14, <1>b, <2>1 DEF PublishDeadLetter, PublishDeadLetterFails, Steps
  <1>15. ASSUME NEW w \in Workers, Commit(w) PROVE TypeOK'
    <2>1. topic' \in [Messages -> Tasks \cup {NoTask}]
      BY <1>0, <1>15 DEF Commit
    <2> QED BY <1>0, <1>15, <1>c, <2>1 DEF Commit
  <1>16. ASSUME NEW w \in Workers, CommitFails(w) PROVE TypeOK'
    BY <1>0, <1>16, <1>b DEF CommitFails, Steps
  <1>17. ASSUME NEW w \in Workers, Crash(w) PROVE TypeOK'
    BY <1>0, <1>17, <1>c DEF Crash
  <1>d. NoReplay \in Replay /\ NoRow \in Row
    BY DEF NoReplay, NoRow, Replay, Row, Status
  <1>18. ASSUME NEW a \in Admins, NEW t \in Tasks, ResetForReplay(a, t) PROVE TypeOK'
    <2>1. row' \in [Tasks -> Row]
      BY <1>0, <1>18 DEF ResetForReplay, Row, Status
    <2>2. replay' \in [Admins -> Replay]
      BY <1>0, <1>18, <1>d DEF ResetForReplay, Replay, Row
    <2> QED BY <1>0, <1>18, <2>1, <2>2 DEF ResetForReplay, workerVars
  <1>19. ASSUME NEW a \in Admins, PublishReplay(a) \/ PublishReplayFails(a) PROVE TypeOK'
    <2>1. replay[a].task \in Tasks
      BY <1>19 DEF StageInv, EnvelopesAreExhausted, PublishReplay, PublishReplayFails
    <2>2. replay' \in [Admins -> Replay]
      BY <1>0, <1>19, <1>d DEF PublishReplay, PublishReplayFails, Replay
    <2> QED BY <1>0, <1>19, <1>a, <2>1, <2>2
            DEF PublishReplay, PublishReplayFails, ProducedOrNot, workerVars
  <1>20. ASSUME NEW a \in Admins, ReadForRestore(a) PROVE TypeOK'
    <2>1. row[replay[a].task] \in Row
      BY <1>0, <1>20 DEF StageInv, EnvelopesAreExhausted, ReadForRestore
    <2>2. replay' \in [Admins -> Replay]
      BY <1>0, <1>20, <2>1, ZenonT(60) DEF ReadForRestore, Replay
    <2> QED BY <1>0, <1>20, <2>2 DEF ReadForRestore, workerVars
  <1>21. ASSUME NEW a \in Admins, SaveRestore(a) PROVE TypeOK'
    <2>1. DeadLetterRow(replay[a].snap, replay[a].envelope) \in Row
      BY <1>0, RowTypes DEF Replay
    <2> QED BY <1>0, <1>21, <1>d, <2>1 DEF SaveRestore, workerVars
  <1>22. ASSUME NEW a \in Admins, ReplayStops(a) PROVE TypeOK'
    BY <1>0, <1>22, <1>d DEF ReplayStops, workerVars
  <1>23. CASE UNCHANGED vars
    BY <1>0, <1>23 DEF vars, workerVars
  <1> HIDE DEF TypeOK
  <1> QED BY <1>1, <1>2, <1>3, <1>4, <1>5, <1>6, <1>7, <1>8, <1>9, <1>10, <1>11, <1>12, <1>13,
             <1>14, <1>15, <1>16, <1>17, <1>18, <1>19, <1>20, <1>21, <1>22, <1>23
          DEF Next, Work, WorkFails, ReplayStep

----------------------------------------------------------------------------
(* Envelopes. *)

\* Every step keeps what is known about envelopes and about the DLQ topic.
LEMMA EnvelopesOfSteps ==
  ASSUME StageInv, [Next]_vars
  PROVE  EnvelopesAreExhausted' /\ DeadLetteredAfterRetries'
  <1> DEFINE Goal == EnvelopesAreExhausted' /\ DeadLetteredAfterRetries'
  <1> USE DEF EnvelopesAreExhausted, DeadLetteredAfterRetries
  <1>0. TypeOK /\ EnvelopesAreExhausted /\ DeadLetteredAfterRetries
    BY DEF StageInv
  <1>a. \A w \in Workers : snap[w] \in Row /\ failures[w] \in Nat /\ EnvelopeOf(snap[w])
    BY <1>0 DEF TypeOK
  <1>b. EnvelopeOf(NoRow)
    BY DEF EnvelopeOf, NoRow
  <1>1. ASSUME NEW t \in Tasks, Publish(t) PROVE Goal
    BY <1>0, <1>1 DEF Publish, workerVars
  <1>2. ASSUME NEW w \in Workers,
               Fetch(w) \/ MetadataFails(w) \/ Process(w) \/ SaveFails(w) \/ CommitFails(w)
                 \/ HandoffRetry(w) \/ HandoffRetryFails(w)
        PROVE  Goal
    <2>1. /\ UNCHANGED <<row, dlq, snap, failures, sending, replay>>
          /\ \A v \in Workers : pc'[v] = pc[v] \/ pc'[v] \notin {"exhausted", "savingDeadLetter", "burying"}
      BY <1>0, <1>2 DEF TypeOK, Fetch, MetadataFails, Process, SaveFails, CommitFails, HandoffRetry,
                        HandoffRetryFails, Goto, workerVars
    <2> QED BY <1>0, <2>1
  <1>3. ASSUME NEW w \in Workers, Load(w) \/ MarkProcessing(w) PROVE Goal
    <2>1. /\ UNCHANGED <<dlq, snap, failures, sending, replay>>
          /\ \A v \in Workers : pc'[v] = pc[v] \/ pc'[v] \notin {"exhausted", "savingDeadLetter", "burying"}
      BY <1>0, <1>3 DEF TypeOK, Load, MarkProcessing, Goto
    <2>2. \A t \in Tasks : row'[t].envelope = row[t].envelope
      BY <1>0, <1>3, SMTT(40) DEF TypeOK, Row, Load, MarkProcessing
    <2> QED BY <1>0, <2>1, <2>2 DEF EnvelopeOf
  <1>4. ASSUME NEW w \in Workers, ReadRow(w) PROVE Goal
    <2>1. EnvelopeOf(row[Handled(w)])
      BY <1>0, <1>4, Handling DEF ReadRow, Reading
    <2>2. pc'[w] = "savingDeadLetter" => Exhausted(failures[w])
      BY <1>0, <1>4 DEF TypeOK, ReadRow, Reading, Goto
    <2>3. pc'[w] \notin {"exhausted", "burying"}
      BY <1>0, <1>4 DEF TypeOK, ReadRow, Reading, Goto
    <2>4. \A v \in Workers : EnvelopeOf(snap'[v])
      BY <1>0, <1>4, <2>1 DEF TypeOK, ReadRow
    <2>5. \A v \in Workers \ {w} : pc'[v] = pc[v]
      BY <1>0, <1>4 DEF TypeOK, ReadRow, Goto
    <2>6. UNCHANGED <<row, dlq, failures, sending, replay>>
      BY <1>4 DEF ReadRow
    <2> QED BY <1>0, <2>2, <2>3, <2>4, <2>5, <2>6
  <1>5. ASSUME NEW w \in Workers, SaveSuccess(w) \/ SaveRetry(w) PROVE Goal
    <2>1. \A t \in Tasks : EnvelopeOf(row'[t])
      BY <1>0, <1>5, <1>a, RowTypes DEF TypeOK, SaveSuccess, SaveRetry, EnvelopeOf
    <2>2. /\ \A v \in Workers \ {w} : pc'[v] = pc[v] /\ failures'[v] = failures[v]
          /\ pc'[w] \in {"marked", "handoff"}
          /\ UNCHANGED <<dlq, snap, sending, replay>>
      BY <1>0, <1>5 DEF TypeOK, SaveSuccess, SaveRetry, Goto
    <2> QED BY <1>0, <2>1, <2>2
  <1>6. ASSUME NEW w \in Workers, SaveDeadLetter(w) PROVE Goal
    <2>1. Exhausted(failures[w])
      BY <1>0, <1>6 DEF SaveDeadLetter
    <2>2. \A t \in Tasks : EnvelopeOf(row'[t])
      <3>1. DeadLetterRow(snap[w], failures[w]).envelope = failures[w]
        BY <1>a, RowTypes
      <3>2. EnvelopeOf(DeadLetterRow(snap[w], failures[w]))
        BY <2>1, <3>1 DEF EnvelopeOf
      <3> QED BY <1>0, <1>6, <3>2 DEF TypeOK, SaveDeadLetter
    <2>3. /\ \A v \in Workers \ {w} : pc'[v] = pc[v] /\ sending'[v] = sending[v]
          /\ pc'[w] = "burying" /\ sending'[w] = failures[w]
          /\ UNCHANGED <<dlq, snap, failures, replay>>
      BY <1>0, <1>6 DEF TypeOK, SaveDeadLetter, Goto
    <2> QED BY <1>0, <2>1, <2>2, <2>3
  <1>7. ASSUME NEW w \in Workers, LookupDeadLetter(w) PROVE Goal
    <2>1. EnvelopeOf(row[Handled(w)]) /\ Exhausted(failures[w])
      BY <1>0, <1>7, Handling DEF LookupDeadLetter, Exhausted
    <2>2. /\ \A v \in Workers \ {w} : pc'[v] = pc[v] /\ sending'[v] = sending[v]
          /\ \/ pc'[w] = "burying" /\ Exhausted(sending'[w])
             \/ pc'[w] = "exhausted"
          /\ UNCHANGED <<row, dlq, snap, failures, replay>>
      BY <1>0, <1>7, <2>1 DEF TypeOK, LookupDeadLetter, IsDeadLetter, EnvelopeOf, Goto
    <2> QED BY <1>0, <2>1, <2>2
  <1>8. ASSUME NEW w \in Workers, PublishDeadLetter(w) \/ PublishDeadLetterFails(w) PROVE Goal
    <2>1. Exhausted(sending[w]) /\ Handled(w) \in Tasks
      BY <1>0, <1>8, Handling DEF PublishDeadLetter, PublishDeadLetterFails
    <2>2. \A t \in Tasks : dlq'[t] \subseteq dlq[t] \cup {sending[w]}
      BY <1>0, <1>8 DEF TypeOK, PublishDeadLetter, PublishDeadLetterFails
    <2>3. DeadLetteredAfterRetries'
      BY <1>0, <2>1, <2>2 DEF Exhausted
    <2>4. /\ \A v \in Workers : pc'[v] = pc[v] \/ pc'[v] \notin {"exhausted", "savingDeadLetter", "burying"}
          /\ UNCHANGED <<row, snap, failures, sending, replay>>
      BY <1>0, <1>8 DEF TypeOK, PublishDeadLetter, PublishDeadLetterFails, Goto
    <2>5. EnvelopesAreExhausted'
      BY <1>0, <2>4
    <2> QED BY <2>3, <2>5
  <1>9. ASSUME NEW w \in Workers, Commit(w) \/ Crash(w) PROVE Goal
    <2>1. /\ \A v \in Workers \ {w} : /\ pc'[v] = pc[v] /\ snap'[v] = snap[v]
                                      /\ failures'[v] = failures[v] /\ sending'[v] = sending[v]
          /\ pc'[w] = "idle" /\ snap'[w] = NoRow
          /\ UNCHANGED <<row, dlq, replay>>
      BY <1>0, <1>9 DEF TypeOK, Commit, Crash, Release, Goto
    <2> QED BY <1>0, <1>b, <2>1
  <1>10. ASSUME NEW a \in Admins, NEW t \in Tasks, ResetForReplay(a, t) PROVE Goal
    <2>1. \A u \in Tasks : row'[u].envelope = row[u].envelope
      BY <1>0, <1>10 DEF TypeOK, Row, ResetForReplay
    <2>2. Exhausted(row[t].envelope)
      BY <1>0, <1>10 DEF ResetForReplay, IsDeadLetter, EnvelopeOf
    <2>3. /\ \A b \in Admins \ {a} : replay'[b] = replay[b]
          /\ replay'[a].task = t /\ replay'[a].envelope = row[t].envelope
          /\ UNCHANGED <<dlq, pc, snap, failures, sending>>
      BY <1>0, <1>10 DEF TypeOK, ResetForReplay, workerVars
    <2> QED BY <1>0, <2>1, <2>2, <2>3 DEF EnvelopeOf
  <1>11. ASSUME NEW a \in Admins,
                PublishReplay(a) \/ PublishReplayFails(a) \/ ReadForRestore(a) \/ ReplayStops(a)
         PROVE  Goal
    <2>1. /\ \A b \in Admins \ {a} : replay'[b] = replay[b]
          /\ \/ replay'[a].step = "idle"
             \/ /\ replay[a].step # "idle"
                /\ replay'[a].task = replay[a].task /\ replay'[a].envelope = replay[a].envelope
          /\ UNCHANGED <<row, dlq, pc, snap, failures, sending>>
      BY <1>0, <1>11 DEF TypeOK, Replay, NoReplay, PublishReplay, PublishReplayFails,
                         ReadForRestore, ReplayStops, workerVars
    <2> QED BY <1>0, <2>1
  <1>12. ASSUME NEW a \in Admins, SaveRestore(a) PROVE Goal
    <2>1. replay[a].snap \in Row /\ replay[a].envelope \in Nat /\ Exhausted(replay[a].envelope)
      BY <1>0, <1>12 DEF TypeOK, Replay, SaveRestore
    <2>2. \A t \in Tasks : EnvelopeOf(row'[t])
      BY <1>0, <1>12, <2>1, RowTypes, ZenonT(60) DEF TypeOK, SaveRestore, EnvelopeOf
    <2>3. /\ \A b \in Admins \ {a} : replay'[b] = replay[b]
          /\ replay'[a].step = "idle"
          /\ UNCHANGED <<dlq, pc, snap, failures, sending>>
      BY <1>0, <1>12 DEF TypeOK, SaveRestore, NoReplay, workerVars
    <2> QED BY <1>0, <2>2, <2>3
  <1>13. ASSUME UNCHANGED vars PROVE Goal
    BY <1>0, <1>13 DEF vars, workerVars
  <1> HIDE DEF Goal
  <1>14. Goal
    <2>1. ASSUME NEW w \in Workers, Work(w) \/ WorkFails(w) PROVE Goal
      BY <2>1, <1>2, <1>3, <1>4, <1>5, <1>6, <1>7, <1>8, <1>9 DEF Work, WorkFails
    <2>2. ASSUME NEW a \in Admins, ReplayStep(a) PROVE Goal
      BY <2>2, <1>10, <1>11, <1>12 DEF ReplayStep
    <2>3. CASE Next
      BY <2>1, <2>2, <2>3, <1>1 DEF Next
    <2> QED BY <2>3, <1>13
  <1> QED BY <1>14 DEF Goal

----------------------------------------------------------------------------
(* No task is lost. *)

\* The step keeps every task in the topic at its place.
TopicKept == \A m \in Messages : topic[m] # NoTask => topic'[m] = topic[m]

\* A free place in the topic is nobody's message.
LEMMA FreePlace ==
  ASSUME StageInv, NEW m \in Messages, topic[m] = NoTask, NEW w \in Workers
  PROVE  msg[w] # m
  BY ConsumerAssumption DEF StageInv, OneHandler

\* Publishing a message keeps what is in the topic and adds a message that
\* nobody handles.
LEMMA ProducedIsToHandle ==
  ASSUME StageInv, NEW t \in Tasks, Produced(t), UNCHANGED msg
  PROVE  TopicKept /\ ToHandle(t)'
  <1>1. PICK m \in Messages : topic[m] = NoTask /\ topic' = [topic EXCEPT ![m] = t]
    BY DEF Produced
  <1>2. TopicKept /\ topic'[m] = t
    BY <1>1 DEF TopicKept, StageInv, TypeOK
  <1>3. \A w \in Workers : msg'[w] # m
    BY <1>1, FreePlace
  <1> QED BY <1>2, <1>3 DEF ToHandle

\* Steps that leave the workers alone.
LEMMA OutsideStep ==
  ASSUME StageInv, TopicKept, UNCHANGED <<pc, msg>>,
         \A t \in Tasks : \/ row'[t] = row[t]
                         \/ Accounted(t)'
  PROVE  OneHandler' /\ NoTaskForgotten'
  <1>1. OneHandler'
    BY ConsumerAssumption DEF StageInv, OneHandler, TopicKept
  <1>2. ASSUME NEW t \in Tasks, ToHandle(t) PROVE ToHandle(t)'
    BY <1>2, ConsumerAssumption DEF ToHandle, TopicKept
  <1>3. NoTaskForgotten'
    <2> SUFFICES ASSUME NEW t \in Tasks, row'[t].status # "ABSENT", ~Accounted(t)'
                 PROVE  ToHandle(t)'
      BY DEF NoTaskForgotten
    <2>1. row'[t] = row[t]
      OBVIOUS
    <2>2. ToHandle(t)
      BY <2>1 DEF StageInv, NoTaskForgotten, Accounted
    <2> QED BY <2>2, <1>2
  <1> QED BY <1>1, <1>3

\* What the steps between fetching and committing have in common: the worker
\* keeps its message and touches no other task.
Handles(w) ==
  /\ pc[w] # "idle"
  /\ msg' = msg
  /\ \E s \in Steps \ {"idle"} : Goto(w, s)
  /\ TopicKept
  /\ \A t \in Tasks \ {Handled(w)} : row'[t] = row[t]

\* Such a step loses no task if its own message is still to be handled or the
\* task is accounted for.
LEMMA HandlingStep ==
  ASSUME StageInv, NEW w \in Workers, Handles(w), NEW u \in Tasks, u = Handled(w),
         \/ pc'[w] \notin Ending \/ row'[u].status = "ABSENT"
         \/ ToHandle(u)' \/ Accounted(u)'
  PROVE  OneHandler' /\ NoTaskForgotten'
  <1>1. /\ msg[w] \in Messages
        /\ \A v \in Workers \ {w} : msg[v] # msg[w]
        /\ topic[msg[w]] = u
    BY Handling DEF Handles, Handled
  <1>2. /\ pc'[w] # "idle"
        /\ \A v \in Workers \ {w} : pc'[v] = pc[v]
    BY DEF Handles, Goto, StageInv, TypeOK
  <1>3. OneHandler'
    BY <1>2, ConsumerAssumption DEF StageInv, OneHandler, Handles, TopicKept
  <1>4. ASSUME NEW t \in Tasks, row'[t].status # "ABSENT", ~Accounted(t)'
        PROVE  ToHandle(t)'
    <2>1. CASE t = u
      <3>1. CASE pc'[w] \notin Ending
        <4>1. topic'[msg[w]] = u
          BY <1>1, ConsumerAssumption DEF Handles, TopicKept
        <4>2. \A v \in Workers : msg'[v] = msg[w] => v = w
          BY <1>1 DEF Handles
        <4> QED BY <2>1, <3>1, <4>1, <4>2, <1>1 DEF ToHandle
      <3> QED BY <2>1, <3>1, <1>4
    <2>2. CASE t # u
      <3>1. ToHandle(t)
        <4>1. row'[t] = row[t]
          BY <2>2 DEF Handles
        <4> QED BY <1>4, <4>1 DEF StageInv, NoTaskForgotten, Accounted
      <3>2. PICK m \in Messages : /\ topic[m] = t
                                  /\ \A v \in Workers : msg[v] = m => pc[v] \notin Ending
        BY <3>1 DEF ToHandle
      <3>3. m # msg[w] /\ topic'[m] = t
        BY <3>2, <2>2, <1>1, ConsumerAssumption DEF Handles, TopicKept
      <3>4. \A v \in Workers : msg'[v] = m => pc'[v] \notin Ending
        BY <3>2, <3>3, <1>2 DEF Handles
      <3> QED BY <3>3, <3>4 DEF ToHandle
    <2> QED BY <2>1, <2>2
  <1>5. NoTaskForgotten'
    BY <1>4 DEF NoTaskForgotten
  <1> QED BY <1>3, <1>5

\* A message that is fetched is still to be handled.
LEMMA FetchStep ==
  ASSUME StageInv, NEW w \in Workers, Fetch(w)
  PROVE  OneHandler' /\ NoTaskForgotten'
  <1>1. PICK m \in Messages : /\ topic[m] # NoTask
                              /\ \A v \in Workers : msg[v] # m
                              /\ msg' = [msg EXCEPT ![w] = m]
    BY DEF Fetch
  <1>2. /\ msg'[w] = m /\ pc'[w] = "fetched" /\ topic[m] \in Tasks
        /\ \A v \in Workers \ {w} : msg'[v] = msg[v] /\ pc'[v] = pc[v]
        /\ UNCHANGED <<topic, row>>
    BY <1>1 DEF Fetch, Goto, StageInv, TypeOK
  <1>3. OneHandler'
    BY <1>1, <1>2, ConsumerAssumption DEF StageInv, OneHandler
  <1>4. ASSUME NEW t \in Tasks, ToHandle(t) PROVE ToHandle(t)'
    BY <1>4, <1>1, <1>2 DEF ToHandle, Ending, Finishing
  <1>5. NoTaskForgotten'
    <2>1. \A t \in Tasks : Accounted(t)' = Accounted(t)
      BY <1>2 DEF Accounted
    <2> QED BY <1>2, <1>4, <2>1 DEF StageInv, NoTaskForgotten
  <1> QED BY <1>3, <1>5

\* Committing removes a message that was handled; a crash removes none.
LEMMA ReleaseStep ==
  ASSUME StageInv, NEW w \in Workers, Commit(w) \/ Crash(w)
  PROVE  OneHandler' /\ NoTaskForgotten'
  <1>1. pc[w] # "idle"
    BY DEF Commit, Crash, Finishing
  <1>2. /\ msg[w] \in Messages
        /\ \A v \in Workers \ {w} : msg[v] # msg[w]
    BY <1>1, Handling
  <1>3. /\ msg'[w] = NoMessage /\ pc'[w] = "idle"
        /\ \A v \in Workers \ {w} : msg'[v] = msg[v] /\ pc'[v] = pc[v]
        /\ UNCHANGED <<row>>
    BY DEF Commit, Crash, Release, Goto, StageInv, TypeOK
  <1>4. \A m \in Messages \ {msg[w]} : topic'[m] = topic[m]
    BY DEF Commit, Crash, StageInv, TypeOK
  <1>5. \/ pc[w] \in Ending
        \/ topic' = topic
    BY DEF Commit, Crash, Ending
  <1>6. OneHandler'
    <2>1. \A v \in Workers \ {w} : pc[v] # "idle" => topic'[msg[v]] = topic[msg[v]]
      BY <1>2, <1>4 DEF StageInv, OneHandler
    <2> QED BY <1>3, <2>1, ConsumerAssumption DEF StageInv, OneHandler
  <1>7. ASSUME NEW t \in Tasks, ToHandle(t) PROVE ToHandle(t)'
    <2>1. PICK m \in Messages : /\ topic[m] = t
                                /\ \A v \in Workers : msg[v] = m => pc[v] \notin Ending
      BY <1>7 DEF ToHandle
    <2>2. topic'[m] = t
      BY <2>1, <1>4, <1>5
    <2>3. \A v \in Workers : msg'[v] = m => pc'[v] \notin Ending
      BY <2>1, <1>3 DEF Ending, Finishing
    <2> QED BY <2>2, <2>3 DEF ToHandle
  <1>8. NoTaskForgotten'
    <2>1. \A t \in Tasks : Accounted(t)' = Accounted(t)
      BY <1>3 DEF Accounted
    <2> QED BY <1>3, <1>7, <2>1 DEF StageInv, NoTaskForgotten
  <1> QED BY <1>6, <1>8

\* After every step each task is to be handled or accounted for.
LEMMA NoStepLosesATask ==
  ASSUME StageInv, [Next]_vars
  PROVE  OneHandler' /\ NoTaskForgotten'
  <1> DEFINE Goal == OneHandler' /\ NoTaskForgotten'
  <1>0. TypeOK /\ OneHandler
    BY DEF StageInv
  <1>a. ASSUME UNCHANGED topic PROVE TopicKept
    BY <1>a DEF TopicKept
  <1>1. ASSUME NEW t \in Tasks, Publish(t) PROVE Goal
    <2>1. TopicKept
      BY <1>1, ProducedIsToHandle DEF Publish, workerVars
    <2> QED BY <1>1, <2>1, OutsideStep DEF Publish, workerVars
  <1>2. ASSUME NEW w \in Workers, Fetch(w) PROVE Goal
    BY <1>2, FetchStep
  <1>3. ASSUME NEW w \in Workers, Commit(w) \/ Crash(w) PROVE Goal
    BY <1>3, ReleaseStep
  <1>4. ASSUME NEW w \in Workers, Load(w) PROVE Goal
    <2>1. Handles(w)
      BY <1>0, <1>4, <1>a DEF TypeOK, Handles, Load, Steps
    <2>2. PICK u \in Tasks : u = Handled(w)
      BY <2>1, Handling DEF Handles
    <2>3. CASE row[u].status = "SUCCESS"
      <3>1. Accounted(u)'
        BY <1>4, <2>2, <2>3 DEF Load, Accounted
      <3> QED BY <2>1, <2>2, <3>1, HandlingStep
    <2>4. CASE row[u].status # "SUCCESS"
      <3>1. pc'[w] \notin Ending
        BY <1>0, <1>4, <2>2, <2>4 DEF TypeOK, Load, Goto, Ending, Finishing
      <3> QED BY <2>1, <2>2, <3>1, HandlingStep
    <2> QED BY <2>3, <2>4
  <1>5. ASSUME NEW w \in Workers,
               MetadataFails(w) \/ MarkProcessing(w) \/ Process(w) \/ ReadRow(w) \/ SaveFails(w)
               \/ SaveRetry(w) \/ PublishDeadLetterFails(w) \/ CommitFails(w)
        PROVE  Goal
    <2>1. /\ pc[w] # "idle"
          /\ UNCHANGED <<topic, msg>>
          /\ \E s \in Steps \ ({"idle"} \cup Ending) : Goto(w, s)
      BY <1>5 DEF MetadataFails, MarkProcessing, Process, ReadRow, Reading, SaveFails, SaveRetry,
                  PublishDeadLetterFails, CommitFails, Steps, Ending, Finishing
    <2>2. \A t \in Tasks \ {Handled(w)} : row'[t] = row[t]
      BY <1>0, <1>5 DEF TypeOK, MetadataFails, MarkProcessing, Process, ReadRow, SaveFails, SaveRetry,
                        PublishDeadLetterFails, CommitFails
    <2>3. Handles(w)
      BY <2>1, <2>2, <1>a DEF Handles
    <2>4. PICK u \in Tasks : u = Handled(w)
      BY <2>1, Handling
    <2>5. pc'[w] \notin Ending
      BY <1>0, <2>1 DEF TypeOK, Goto
    <2> QED BY <2>3, <2>4, <2>5, HandlingStep
  <1>6. ASSUME NEW w \in Workers, SaveSuccess(w) \/ SaveDeadLetter(w) PROVE Goal
    <2>1. Handles(w)
      BY <1>0, <1>6, <1>a DEF TypeOK, Handles, SaveSuccess, SaveDeadLetter, Steps
    <2>2. PICK u \in Tasks : u = Handled(w)
      BY <2>1, Handling DEF Handles
    <2>3. snap[w] \in Row /\ failures[w] \in Nat
      BY <1>0 DEF TypeOK
    <2>4. Accounted(u)'
      <3>1. CASE SaveSuccess(w)
        BY <1>0, <3>1, <2>2, <2>3, RowTypes DEF TypeOK, SaveSuccess, Accounted
      <3>2. CASE SaveDeadLetter(w)
        <4>1. failures[w] # 0
          BY <3>2, <2>3, ConsumerAssumption
             DEF StageInv, EnvelopesAreExhausted, Exhausted, SaveDeadLetter
        <4>2. row'[u] = DeadLetterRow(snap[w], failures[w])
          BY <1>0, <3>2, <2>2 DEF TypeOK, SaveDeadLetter
        <4>3. DeadLetterRow(snap[w], failures[w]).status = "FAILED"
          BY <2>3 DEF Row, DeadLetterRow
        <4> QED BY <2>3, <4>1, <4>2, <4>3, RowTypes DEF Accounted
      <3> QED BY <1>6, <3>1, <3>2
    <2> QED BY <2>1, <2>2, <2>4, HandlingStep
  <1>6a. ASSUME NEW w \in Workers, LookupDeadLetter(w) PROVE Goal
    <2>1. Handles(w)
      BY <1>0, <1>6a, <1>a DEF TypeOK, Handles, LookupDeadLetter, Steps
    <2>2. PICK u \in Tasks : u = Handled(w)
      BY <2>1, Handling DEF Handles
    <2>3. pc'[w] \notin Ending \/ Accounted(u)'
      BY <1>0, <1>6a, <2>2
         DEF TypeOK, LookupDeadLetter, IsDeadLetter, Goto, Ending, Finishing, Accounted
    <2> QED BY <2>1, <2>2, <2>3, HandlingStep
  <1>6b. ASSUME NEW w \in Workers, PublishDeadLetter(w) PROVE Goal
    <2>1. Handles(w)
      BY <1>0, <1>6b, <1>a DEF TypeOK, Handles, PublishDeadLetter, Steps
    <2>2. PICK u \in Tasks : u = Handled(w)
      BY <2>1, Handling DEF Handles
    <2>3. ASSUME ToHandle(u) PROVE ToHandle(u)'
      <3>1. PICK m \in Messages : /\ topic[m] = u
                                  /\ \A v \in Workers : msg[v] = m => pc[v] \notin Ending
        BY <2>3 DEF ToHandle
      <3>2. msg[w] # m
        BY <1>6b, <3>1 DEF PublishDeadLetter, Ending
      <3>3. \A v \in Workers \ {w} : pc'[v] = pc[v]
        BY <1>0, <1>6b DEF TypeOK, PublishDeadLetter, Goto
      <3> QED BY <1>6b, <3>1, <3>2, <3>3 DEF PublishDeadLetter, ToHandle
    <2>4. row'[u].status = "ABSENT" \/ ToHandle(u)' \/ Accounted(u)'
      BY <1>6b, <2>3 DEF StageInv, NoTaskForgotten, Accounted, PublishDeadLetter
    <2> QED BY <2>1, <2>2, <2>4, HandlingStep
  <1>7. ASSUME NEW w \in Workers, HandoffRetry(w) PROVE Goal
    <2>1. PICK u \in Tasks : u = Handled(w)
      BY <1>7, Handling DEF HandoffRetry
    <2>2. TopicKept /\ ToHandle(u)'
      BY <1>7, <2>1, ProducedIsToHandle DEF HandoffRetry
    <2>3. Handles(w)
      BY <1>7, <2>2 DEF Handles, HandoffRetry, Steps
    <2> QED BY <2>1, <2>2, <2>3, HandlingStep
  <1>8. ASSUME NEW w \in Workers, HandoffRetryFails(w) PROVE Goal
    <2>1. Handled(w) \in Tasks
      BY <1>8, Handling DEF HandoffRetryFails
    <2>2. TopicKept
      BY <1>8, <2>1, <1>a, ProducedIsToHandle DEF HandoffRetryFails, ProducedOrNot, workerVars
    <2> QED BY <1>8, <2>2, OutsideStep DEF HandoffRetryFails, workerVars
  <1>9. ASSUME NEW a \in Admins, NEW t \in Tasks, ResetForReplay(a, t) PROVE Goal
    <2>1. Accounted(t)'
      BY <1>0, <1>9 DEF TypeOK, Row, ResetForReplay, IsDeadLetter, Accounted
    <2>2. \A u \in Tasks \ {t} : row'[u] = row[u]
      BY <1>0, <1>9 DEF TypeOK, ResetForReplay
    <2> QED BY <1>9, <1>a, <2>1, <2>2, OutsideStep DEF ResetForReplay, workerVars
  <1>10. ASSUME NEW a \in Admins,
                PublishReplay(a) \/ PublishReplayFails(a) \/ ReadForRestore(a) \/ ReplayStops(a)
         PROVE  Goal
    <2>1. UNCHANGED <<row, pc, msg>>
      BY <1>10 DEF PublishReplay, PublishReplayFails, ReadForRestore, ReplayStops, workerVars
    <2>2. (PublishReplay(a) \/ PublishReplayFails(a)) => replay[a].task \in Tasks
      BY DEF StageInv, EnvelopesAreExhausted, PublishReplay, PublishReplayFails
    <2>3. TopicKept
      BY <1>10, <2>1, <2>2, <1>a, ProducedIsToHandle
         DEF PublishReplay, PublishReplayFails, ProducedOrNot, ReadForRestore, ReplayStops
    <2> QED BY <2>1, <2>3, OutsideStep
  <1>11. ASSUME NEW a \in Admins, SaveRestore(a) PROVE Goal
    <2>1. PICK t \in Tasks : t = replay[a].task
      BY <1>11 DEF StageInv, EnvelopesAreExhausted, SaveRestore
    <2>2. replay[a].snap \in Row /\ replay[a].envelope \in Nat /\ replay[a].envelope # 0
      BY <1>0, <1>11, ConsumerAssumption
         DEF TypeOK, Replay, StageInv, EnvelopesAreExhausted, Exhausted, SaveRestore
    <2>3. row'[t] = DeadLetterRow(replay[a].snap, replay[a].envelope)
      BY <1>0, <1>11, <2>1 DEF TypeOK, SaveRestore
    <2>4. Accounted(t)'
      <3>1. DeadLetterRow(replay[a].snap, replay[a].envelope).status = "FAILED"
        BY <2>2 DEF Row, DeadLetterRow
      <3>2. DeadLetterRow(replay[a].snap, replay[a].envelope).envelope # 0
        BY <2>2, RowTypes
      <3> QED BY <2>3, <3>1, <3>2 DEF Accounted
    <2>5. \A u \in Tasks \ {t} : row'[u] = row[u]
      BY <1>0, <1>11, <2>1 DEF TypeOK, SaveRestore
    <2> QED BY <1>11, <1>a, <2>4, <2>5, OutsideStep DEF SaveRestore, workerVars
  <1>12. ASSUME UNCHANGED vars PROVE Goal
    BY <1>12, <1>a, OutsideStep DEF vars, workerVars
  <1> HIDE DEF Goal
  <1>13. Goal
    <2>1. ASSUME NEW w \in Workers, Work(w) \/ WorkFails(w) PROVE Goal
      BY <2>1, <1>2, <1>3, <1>4, <1>5, <1>6, <1>6a, <1>6b, <1>7, <1>8 DEF Work, WorkFails
    <2>2. ASSUME NEW a \in Admins, ReplayStep(a) PROVE Goal
      BY <2>2, <1>9, <1>10, <1>11 DEF ReplayStep
    <2>3. CASE Next
      BY <2>1, <2>2, <2>3, <1>1 DEF Next
    <2> QED BY <2>3, <1>12
  <1> QED BY <1>13 DEF Goal

----------------------------------------------------------------------------
\* The strengthened invariant holds in every reachable state.
THEOREM StageInvariant == Spec => []StageInv
  <1>1. StageInv /\ [Next]_vars => StageInv'
    BY TypesOfSteps, EnvelopesOfSteps, NoStepLosesATask DEF StageInv
  <1> QED BY <1>1, InitInv, PTL DEF Spec

\* Topic, tracker, workers and replay requests keep their types.
THEOREM StageTypes == Spec => []TypeOK
  <1>1. StageInv => TypeOK
    BY DEF StageInv
  <1> QED BY <1>1, StageInvariant, PTL

\* processStageMessage and handoffFailedTask: whatever crashes, redeliveries,
\* stale saves and replays happen, a task the tracker knows keeps a message whose
\* handling is not over, or its outcome is recorded.
THEOREM StageLosesNoTask == Spec => []NoTaskLost
  <1>1. StageInv => NoTaskLost
    <2> SUFFICES ASSUME StageInv, NEW t \in Tasks, row[t].status # "ABSENT"
                 PROVE  Live(t) \/ Recorded(t)
      BY DEF NoTaskLost
    <2>1. ToHandle(t) => Live(t)
      BY DEF ToHandle, Live, Ending
    <2>2. Accounted(t) => Recorded(t)
      BY DEF Accounted, Recorded
    <2> QED BY <2>1, <2>2 DEF StageInv, NoTaskForgotten
  <1> QED BY <1>1, StageInvariant, PTL

\* MarkSuccessByKey, MarkDeadLetterByKey and ReplayPipelineTask: once no message
\* and no replay request of a task is left, its row is SUCCESS, or it holds the
\* envelope and does not stay PROCESSING.
THEOREM StageRecordsOutcomes == Spec => []QuietTaskIsRecorded
  <1>1. StageInv => QuietTaskIsRecorded
    BY DEF StageInv, NoTaskForgotten, ToHandle, Accounted, QuietTaskIsRecorded, Quiet
  <1> QED BY <1>1, StageInvariant, PTL

\* handoffFailedTask: an identity in the DLQ topic is one of a failure beyond the
\* retry limit.
THEOREM StageDeadLetters == Spec => []DeadLetteredAfterRetries
  <1>1. StageInv => DeadLetteredAfterRetries
    BY DEF StageInv
  <1> QED BY <1>1, StageInvariant, PTL

----------------------------------------------------------------------------
(* One consumer, nobody replays. *)

\* A stage has one worker and no replay request is made.
Serial == (\A v, w \in Workers : v = w) /\ Admins = {}

\* What a worker may rely on while nobody else writes the row of its task: the
\* row it read is current, a task that is not finished is not SUCCESS, and in the
\* hand-off the row is FAILED and has the envelope that is sent, or none yet.
Unfinished == {"loaded", "processing", "failed", "savingRetry", "handoff", "exhausted",
               "savingDeadLetter", "burying"}
Alone(w, r) ==
  /\ pc[w] \in {"savingSuccess", "savingRetry", "savingDeadLetter"} => snap[w] = r
  /\ pc[w] \in Unfinished => r.status # "SUCCESS"
  /\ pc[w] \in {"handoff", "exhausted", "savingDeadLetter", "burying"} => r.status = "FAILED"
  /\ pc[w] \in {"exhausted", "savingDeadLetter"} => r.envelope = 0
  /\ pc[w] = "burying" => r.envelope = sending[w] /\ r.envelope # 0

SerialInv ==
  /\ \A w \in Workers : pc[w] # "idle" => Alone(w, row[Handled(w)])
  /\ DeadLetterIsKept
  /\ OneDeadLetterIdentity

SuccessKept == \A t \in Tasks : row[t].status = "SUCCESS" => row'[t].status = "SUCCESS"

\* Steps of the worker that leave its message alone, by what they do to its row.
LEMMA AloneStep ==
  ASSUME StageInv, SerialInv, Serial, NEW w \in Workers, Handles(w),
         NEW u \in Tasks, u = Handled(w),
         Alone(w, row[u])', row[u].status = "SUCCESS" => row'[u].status = "SUCCESS",
         \A t \in Tasks \ {u} : dlq'[t] = dlq[t],
         dlq'[u] \subseteq {row'[u].envelope}, dlq'[u] # {} => row'[u].envelope # 0
  PROVE  SerialInv' /\ SuccessKept
  <1>1. Handled(w)' = u
    BY Handling, ConsumerAssumption DEF Handles, Handled, TopicKept
  <1>2. \A v \in Workers : v = w
    BY DEF Serial
  <1>3. \A v \in Workers : Alone(v, row[Handled(v)])'
    BY <1>1, <1>2
  <1>4. \A t \in Tasks \ {u} : row'[t] = row[t]
    BY DEF Handles
  <1>5. DeadLetterIsKept' /\ OneDeadLetterIdentity'
    BY <1>4 DEF SerialInv, DeadLetterIsKept, OneDeadLetterIdentity
  <1> QED BY <1>3, <1>4, <1>5 DEF SerialInv, SuccessKept

\* Steps that write no row and leave every busy worker where it is.
LEMMA ElsewhereStep ==
  ASSUME StageInv, SerialInv, UNCHANGED <<row, dlq>>,
         \A w \in Workers : \/ pc'[w] \in {"idle", "fetched"}
                            \/ /\ Handled(w)' = Handled(w)
                               /\ UNCHANGED <<pc[w], snap[w], sending[w]>>
  PROVE  SerialInv' /\ SuccessKept
  <1>1. ASSUME NEW w \in Workers, pc'[w] # "idle" PROVE Alone(w, row[Handled(w)])'
    BY <1>1 DEF SerialInv, Alone, Unfinished
  <1> QED BY <1>1 DEF SerialInv, DeadLetterIsKept, OneDeadLetterIdentity, SuccessKept

\* Every step of a stage with one worker and no replays keeps SerialInv, and no
\* finished task leaves SUCCESS.
LEMMA SerialStep ==
  ASSUME StageInv, SerialInv, Serial, [Next]_vars
  PROVE  SerialInv' /\ SuccessKept
  <1> DEFINE Goal == SerialInv' /\ SuccessKept
  <1>0. TypeOK /\ OneHandler
    BY DEF StageInv
  <1>a. ASSUME UNCHANGED topic PROVE TopicKept
    BY <1>a DEF TopicKept
  <1>b. ASSUME TopicKept, UNCHANGED <<row, dlq, pc, msg, snap, sending>> PROVE Goal
    <2>1. ASSUME NEW w \in Workers, pc[w] # "idle" PROVE Handled(w)' = Handled(w)
      BY <2>1, <1>b, Handling, ConsumerAssumption DEF Handled, TopicKept
    <2> QED BY <1>b, <2>1, ElsewhereStep
  <1>c. ASSUME NEW w \in Workers, NEW u \in Tasks, u = Handled(w), pc[w] # "idle"
        PROVE  /\ Alone(w, row[u]) /\ row[u] \in Row
               /\ dlq[u] \subseteq {row[u].envelope} /\ (dlq[u] # {} => row[u].envelope # 0)
    BY <1>0, <1>c DEF SerialInv, DeadLetterIsKept, OneDeadLetterIdentity, TypeOK
  <1>1. ASSUME NEW t \in Tasks, Publish(t) PROVE Goal
    BY <1>1, <1>b, ProducedIsToHandle DEF Publish, workerVars
  <1>2. ASSUME NEW w \in Workers, Fetch(w) \/ Commit(w) \/ Crash(w) PROVE Goal
    <2>1. pc'[w] \in {"idle", "fetched"} /\ UNCHANGED <<row, dlq>>
      BY <1>0, <1>2 DEF Fetch, Commit, Crash, Release, Goto, TypeOK
    <2> QED BY <2>1, ElsewhereStep DEF Serial
  <1>3. ASSUME NEW w \in Workers,
               Load(w) \/ MetadataFails(w) \/ MarkProcessing(w) \/ Process(w) \/ ReadRow(w)
               \/ SaveFails(w) \/ CommitFails(w) \/ LookupDeadLetter(w)
        PROVE  Goal
    <2>1. pc[w] # "idle" /\ UNCHANGED <<topic, msg, dlq>>
      BY <1>3 DEF Load, MetadataFails, MarkProcessing, Process, ReadRow, Reading, SaveFails,
                  CommitFails, LookupDeadLetter
    <2>2. PICK u \in Tasks : u = Handled(w)
      BY <2>1, Handling
    <2>3. Handles(w)
      BY <1>0, <1>3, <1>a, <2>1
         DEF TypeOK, Handles, Load, MetadataFails, MarkProcessing, Process, ReadRow, Reading,
             SaveFails, CommitFails, LookupDeadLetter, Steps
    <2>4. Alone(w, row[u]) /\ row[u] \in Row
      BY <1>c, <2>1, <2>2
    <2>5. Alone(w, row[u])' /\ row'[u].envelope = row[u].envelope
          /\ (row[u].status = "SUCCESS" => row'[u].status = "SUCCESS")
      <3> USE <1>0, <2>2, <2>4 DEF TypeOK, Row, Goto, Alone, Unfinished
      <3>1. CASE Load(w)
        BY <3>1 DEF Load
      <3>2. CASE MetadataFails(w) \/ Process(w) \/ SaveFails(w) \/ CommitFails(w)
        BY <3>2 DEF MetadataFails, Process, SaveFails, CommitFails
      <3>3. CASE MarkProcessing(w)
        BY <3>3 DEF MarkProcessing
      <3>4. CASE ReadRow(w)
        BY <3>4 DEF ReadRow, Reading
      <3>5. CASE LookupDeadLetter(w)
        BY <3>5 DEF LookupDeadLetter, IsDeadLetter
      <3> QED BY <1>3, <3>1, <3>2, <3>3, <3>4, <3>5
    <2>6. dlq'[u] \subseteq {row'[u].envelope} /\ (dlq'[u] # {} => row'[u].envelope # 0)
      BY <1>c, <2>1, <2>2, <2>5
    <2> QED BY <2>1, <2>2, <2>3, <2>5, <2>6, AloneStep
  <1>4. ASSUME NEW w \in Workers,
               SaveSuccess(w) \/ SaveRetry(w) \/ SaveDeadLetter(w)
               \/ PublishDeadLetter(w) \/ PublishDeadLetterFails(w)
        PROVE  Goal
    <2>1. pc[w] # "idle" /\ UNCHANGED <<topic, msg>>
      BY <1>4 DEF SaveSuccess, SaveRetry, SaveDeadLetter, PublishDeadLetter, PublishDeadLetterFails
    <2>2. PICK u \in Tasks : u = Handled(w)
      BY <2>1, Handling
    <2>3. Handles(w)
      BY <1>0, <1>4, <1>a, <2>1
         DEF TypeOK, Handles, SaveSuccess, SaveRetry, SaveDeadLetter, PublishDeadLetter,
             PublishDeadLetterFails, Steps
    <2>4. /\ Alone(w, row[u]) /\ row[u] \in Row
          /\ dlq[u] \subseteq {row[u].envelope} /\ (dlq[u] # {} => row[u].envelope # 0)
      BY <1>c, <2>1, <2>2
    <2>5. \A t \in Tasks \ {u} : dlq'[t] = dlq[t]
      BY <1>0, <1>4, <2>2 DEF TypeOK, SaveSuccess, SaveRetry, SaveDeadLetter, PublishDeadLetter,
                              PublishDeadLetterFails
    <2>6. /\ Alone(w, row[u])' /\ (row[u].status = "SUCCESS" => row'[u].status = "SUCCESS")
          /\ dlq'[u] \subseteq {row'[u].envelope} /\ (dlq'[u] # {} => row'[u].envelope # 0)
      <3> USE <1>0, <2>2, <2>4 DEF TypeOK, Row, Goto, Alone, Unfinished
      <3>1. CASE SaveSuccess(w)
        BY <3>1 DEF SaveSuccess, SuccessRow
      <3>2. CASE SaveRetry(w)
        BY <3>2 DEF SaveRetry, RetryRow
      <3>3. CASE SaveDeadLetter(w)
        <4>1. failures[w] \in Nat /\ failures[w] # 0
          BY <3>3, ConsumerAssumption
             DEF StageInv, EnvelopesAreExhausted, Exhausted, SaveDeadLetter
        <4>2. dlq'[u] = {}
          BY <3>3 DEF SaveDeadLetter
        <4> QED BY <3>3, <4>1, <4>2 DEF SaveDeadLetter, DeadLetterRow
      <3>4. CASE PublishDeadLetter(w) \/ PublishDeadLetterFails(w)
        <4>1. dlq'[u] \subseteq dlq[u] \cup {sending[w]} /\ row' = row
          BY <3>4 DEF PublishDeadLetter, PublishDeadLetterFails
        <4>2. row[u].envelope = sending[w] /\ row[u].envelope # 0 /\ row[u].status = "FAILED"
          BY <3>4 DEF PublishDeadLetter, PublishDeadLetterFails
        <4>3. pc'[w] \in {"handed", "handoff"}
          BY <3>4 DEF PublishDeadLetter, PublishDeadLetterFails
        <4> QED BY <4>1, <4>2, <4>3
      <3> QED BY <1>4, <3>1, <3>2, <3>3, <3>4
    <2> QED BY <2>1, <2>2, <2>3, <2>5, <2>6, AloneStep
  <1>5. ASSUME NEW w \in Workers, HandoffRetry(w) PROVE Goal
    <2>1. PICK u \in Tasks : u = Handled(w)
      BY <1>5, Handling DEF HandoffRetry
    <2>2. TopicKept
      BY <1>5, <2>1, ProducedIsToHandle DEF HandoffRetry
    <2>3. Handles(w)
      BY <1>5, <2>2 DEF Handles, HandoffRetry, Steps
    <2>4. pc'[w] = "handed" /\ UNCHANGED <<row, dlq>>
      BY <1>0, <1>5 DEF TypeOK, HandoffRetry, Goto
    <2>5. Alone(w, row[u])'
      BY <2>4 DEF Alone, Unfinished
    <2>6. dlq[u] \subseteq {row[u].envelope} /\ (dlq[u] # {} => row[u].envelope # 0)
      BY <1>c, <1>5, <2>1 DEF HandoffRetry
    <2> QED BY <2>1, <2>3, <2>4, <2>5, <2>6, AloneStep
  <1>6. ASSUME NEW w \in Workers, HandoffRetryFails(w) PROVE Goal
    <2>1. Handled(w) \in Tasks
      BY <1>6, Handling DEF HandoffRetryFails
    <2>2. TopicKept
      BY <1>6, <2>1, <1>a, ProducedIsToHandle DEF HandoffRetryFails, ProducedOrNot, workerVars
    <2> QED BY <1>6, <2>2, <1>b DEF HandoffRetryFails, workerVars
  <1>7. ASSUME UNCHANGED vars PROVE Goal
    BY <1>7, <1>a, <1>b DEF vars, workerVars
  <1> HIDE DEF Goal
  <1>8. Goal
    <2>1. ASSUME NEW w \in Workers, Work(w) \/ WorkFails(w) PROVE Goal
      BY <2>1, <1>2, <1>3, <1>4, <1>5, <1>6 DEF Work, WorkFails
    <2>2. CASE Next
      BY <2>1, <2>2, <1>1 DEF Next, Serial
    <2> QED BY <2>2, <1>7
  <1> QED BY <1>8 DEF Goal

\* processStageMessage of a stage with one worker whose dead letters nobody
\* replays: the row is the worker's own between its read and its Save.
LEMMA SerialInvariant == Serial /\ Spec => [](StageInv /\ SerialInv)
  <1>1. Init => SerialInv
    BY DEF Init, SerialInv, DeadLetterIsKept, OneDeadLetterIdentity
  <1>2. StageInv /\ SerialInv /\ Serial /\ [Next]_vars => SerialInv'
    BY SerialStep
  <1>3. Serial => []Serial
    <2>1. Serial => Serial'
      BY DEF Serial
    <2> QED BY <2>1, PTL
  <1> QED BY <1>1, <1>2, <1>3, StageInvariant, PTL DEF Spec

\* handoffFailedTask of such a stage persists the envelope before it publishes
\* it, and no later Save of the worker loses it.
THEOREM SerialDeadLetterIsKept == Serial /\ Spec => []DeadLetterIsKept
  <1>1. SerialInv => DeadLetterIsKept
    BY DEF SerialInv
  <1> QED BY <1>1, SerialInvariant, PTL

\* handoffFailedTask of such a stage: however often a task fails, is delivered
\* again or its hand-off is repeated, its DLQ messages carry one identity.
THEOREM SerialDeadLetterIdentity == Serial /\ Spec => []OneDeadLetterIdentity
  <1>1. SerialInv => OneDeadLetterIdentity
    BY DEF SerialInv
  <1> QED BY <1>1, SerialInvariant, PTL

\* MarkRetryByKey and MarkProcessingByKey of such a stage never overwrite SUCCESS.
THEOREM SerialSuccessIsFinal == Serial /\ Spec => SuccessIsFinal
  <1>1. StageInv /\ SerialInv /\ Serial /\ [Next]_vars
          => [\A t \in Tasks : row[t].status = "SUCCESS" => row'[t].status = "SUCCESS"]_vars
    BY SerialStep DEF SuccessKept
  <1>2. Serial => []Serial
    <2>1. Serial => Serial'
      BY DEF Serial
    <2> QED BY <2>1, PTL
  <1> QED BY <1>1, <1>2, SerialInvariant, PTL DEF Spec, SuccessIsFinal

----------------------------------------------------------------------------
(* The refinement of AtLeastOnce, without its liveness. *)

\* A task without a row has no outcome, and its message has at most been fetched.
KnownRows ==
  /\ \A t \in Tasks : row[t].status = "ABSENT" => row[t].envelope = 0 /\ dlq[t] = {}
  /\ \A w \in Workers : pc[w] \notin {"idle", "fetched"} => row[Handled(w)].status # "ABSENT"
  /\ \A a \in Admins : replay[a].step # "idle" => row[replay[a].task].status # "ABSENT"

RowsStayKnown == \A t \in Tasks : row[t].status # "ABSENT" => row'[t].status # "ABSENT"

\* What a step of a worker on a message of u does to everything else.
Touches(w, u) ==
  /\ \A v \in Workers \ {w} : UNCHANGED <<pc[v], msg[v]>>
  /\ msg'[w] \in {msg[w], NoMessage}
  /\ \A m \in Messages : topic'[m] = topic[m] \/ {topic[m], topic'[m]} \subseteq {NoTask, u}
  /\ \A t \in Tasks \ {u} : row'[t] = row[t] /\ dlq'[t] = dlq[t]
  /\ row'[u] = row[u] \/ row'[u].status # "ABSENT"
  /\ row'[u].status = "ABSENT" => dlq'[u] = dlq[u]
  /\ pc'[w] \in {"idle", "fetched"} \/ row'[u].status # "ABSENT"
  /\ topic'[msg[w]] = u \/ row'[u].status # "ABSENT"
  /\ replay' = replay

\* A publication, from outside or in the hand-off.
LEMMA ProducedPlace ==
  ASSUME StageInv, NEW u \in Tasks, Produced(u)
  PROVE  \A m \in Messages : \/ topic'[m] = topic[m]
                             \/ topic[m] = NoTask /\ topic'[m] = u
  BY DEF Produced, StageInv, TypeOK

\* The steps of a worker that has a message touch no task but its own.
LEMMA WorkersTouch ==
  ASSUME StageInv, KnownRows, NEW w \in Workers, Work(w) \/ WorkFails(w), ~Fetch(w)
  PROVE  pc[w] # "idle" /\ Handled(w) \in Tasks /\ Touches(w, Handled(w))
  <1>0. TypeOK
    BY DEF StageInv
  <1>1. pc[w] # "idle"
    BY DEF Work, WorkFails, Load, MarkProcessing, Process, ReadRow, Reading, SaveSuccess, SaveRetry,
           SaveDeadLetter, HandoffRetry, LookupDeadLetter, PublishDeadLetter, Commit, Finishing,
           MetadataFails, SaveFails, HandoffRetryFails, PublishDeadLetterFails, CommitFails, Crash
  <1>2. PICK u \in Tasks : u = Handled(w)
    BY <1>1, Handling
  <1>3. /\ msg[w] \in Messages /\ topic[msg[w]] = u /\ row[u] \in Row
        /\ pc[w] # "fetched" => row[u].status # "ABSENT"
    BY <1>0, <1>1, <1>2, Handling DEF Handled, KnownRows, TypeOK
  <1>4. CASE Load(w)
    <2>1. row'[u].status # "ABSENT"
      BY <1>0, <1>2, <1>3, <1>4 DEF TypeOK, Row, Load
    <2> QED BY <1>0, <1>1, <1>2, <1>3, <1>4, <2>1 DEF TypeOK, Load, Goto, Touches
  <1>5. CASE MetadataFails(w) \/ Process(w) \/ ReadRow(w) \/ SaveFails(w) \/ CommitFails(w)
             \/ LookupDeadLetter(w)
    <2>1. row[u].status # "ABSENT" /\ UNCHANGED <<topic, row, dlq, msg, replay>>
      BY <1>3, <1>5 DEF MetadataFails, Process, ReadRow, Reading, SaveFails, CommitFails,
                        LookupDeadLetter
    <2>2. \A v \in Workers \ {w} : pc'[v] = pc[v]
      BY <1>0, <1>5 DEF TypeOK, MetadataFails, Process, ReadRow, SaveFails, CommitFails,
                        LookupDeadLetter, Goto
    <2> QED BY <1>1, <1>2, <2>1, <2>2 DEF Touches
  <1>6. CASE MarkProcessing(w) \/ SaveSuccess(w) \/ SaveRetry(w) \/ SaveDeadLetter(w)
    <2>1. UNCHANGED <<topic, dlq, msg, replay>>
      BY <1>6 DEF MarkProcessing, SaveSuccess, SaveRetry, SaveDeadLetter
    <2>2. \A v \in Workers \ {w} : pc'[v] = pc[v]
      BY <1>0, <1>6 DEF TypeOK, MarkProcessing, SaveSuccess, SaveRetry, SaveDeadLetter, Goto
    <2>3. \A t \in Tasks \ {u} : row'[t] = row[t]
      BY <1>0, <1>2, <1>6 DEF TypeOK, MarkProcessing, SaveSuccess, SaveRetry, SaveDeadLetter
    <2>4. row'[u].status # "ABSENT"
      <3>1. /\ SuccessRow(snap[w]).status = "SUCCESS" /\ RetryRow(snap[w]).status = "FAILED"
            /\ DeadLetterRow(snap[w], failures[w]).status = "FAILED"
        BY <1>0 DEF TypeOK, Row, SuccessRow, RetryRow, DeadLetterRow
      <3>2. CASE MarkProcessing(w)
        BY <1>0, <1>2, <1>3, <3>2 DEF TypeOK, Row, MarkProcessing
      <3>3. CASE SaveSuccess(w) \/ SaveRetry(w) \/ SaveDeadLetter(w)
        <4>1. row'[u] \in {SuccessRow(snap[w]), RetryRow(snap[w]),
                           DeadLetterRow(snap[w], failures[w])}
          BY <1>0, <1>2, <3>3 DEF TypeOK, SaveSuccess, SaveRetry, SaveDeadLetter
        <4> QED BY <3>1, <4>1
      <3> QED BY <1>6, <3>2, <3>3
    <2> QED BY <1>1, <1>2, <2>1, <2>2, <2>3, <2>4 DEF Touches
  <1>7. CASE HandoffRetry(w) \/ HandoffRetryFails(w)
    <2>1. row[u].status # "ABSENT" /\ UNCHANGED <<row, dlq, msg, replay>>
      BY <1>3, <1>7 DEF HandoffRetry, HandoffRetryFails, workerVars
    <2>2. \A v \in Workers \ {w} : pc'[v] = pc[v]
      BY <1>0, <1>7 DEF TypeOK, HandoffRetry, HandoffRetryFails, workerVars, Goto
    <2>3. \A m \in Messages : topic'[m] = topic[m] \/ {topic[m], topic'[m]} \subseteq {NoTask, u}
      BY <1>2, <1>7, ProducedPlace DEF HandoffRetry, HandoffRetryFails, ProducedOrNot
    <2> QED BY <1>1, <1>2, <2>1, <2>2, <2>3 DEF Touches
  <1>8. CASE PublishDeadLetter(w) \/ PublishDeadLetterFails(w)
    <2>1. row[u].status # "ABSENT" /\ UNCHANGED <<topic, row, msg, replay>>
      BY <1>3, <1>8 DEF PublishDeadLetter, PublishDeadLetterFails
    <2>2. /\ \A v \in Workers \ {w} : pc'[v] = pc[v]
          /\ \A t \in Tasks \ {u} : dlq'[t] = dlq[t]
      BY <1>0, <1>2, <1>8 DEF TypeOK, PublishDeadLetter, PublishDeadLetterFails, Goto
    <2> QED BY <1>1, <1>2, <2>1, <2>2 DEF Touches
  <1>9. CASE Commit(w) \/ Crash(w)
    <2>1. /\ UNCHANGED <<row, dlq, replay>> /\ pc'[w] = "idle" /\ msg'[w] = NoMessage
          /\ \A v \in Workers \ {w} : UNCHANGED <<pc[v], msg[v]>>
      BY <1>0, <1>9 DEF TypeOK, Commit, Crash, Release, Goto
    <2>2. \A m \in Messages : topic'[m] = topic[m] \/ {topic[m], topic'[m]} \subseteq {NoTask, u}
      BY <1>0, <1>3, <1>9 DEF TypeOK, Commit, Crash
    <2>3. topic'[msg[w]] = u \/ row'[u].status # "ABSENT"
      BY <1>3, <1>9, <2>1 DEF Commit, Crash, Finishing
    <2> QED BY <1>1, <1>2, <2>1, <2>2, <2>3 DEF Touches
  <1> QED BY <1>4, <1>5, <1>6, <1>7, <1>8, <1>9 DEF Work, WorkFails

\* So do the steps of a replay request, and those leave the workers alone.
TouchesFromOutside(u) ==
  /\ UNCHANGED <<pc, msg>>
  /\ \A m \in Messages : topic'[m] = topic[m] \/ (topic[m] = NoTask /\ topic'[m] = u)
  /\ UNCHANGED dlq
  /\ \A t \in Tasks \ {u} : row'[t] = row[t]
  /\ row'[u] = row[u] \/ (row[u].status # "ABSENT" /\ row'[u].status # "ABSENT")
  /\ \A a \in Admins : \/ replay'[a].step = "idle"
                       \/ replay'[a].task = u /\ row'[u].status # "ABSENT"
                       \/ replay'[a] = replay[a]

LEMMA ReplaysTouch ==
  ASSUME StageInv, KnownRows, NEW a \in Admins, ReplayStep(a)
  PROVE  \E u \in Tasks : TouchesFromOutside(u)
  <1>0. TypeOK
    BY DEF StageInv
  <1>a. NoReplay.step = "idle"
    BY DEF NoReplay
  <1>1. ASSUME NEW t \in Tasks, ResetForReplay(a, t) PROVE TouchesFromOutside(t)
    <2>1. /\ UNCHANGED <<pc, msg, dlq, topic>>
          /\ \A i \in Tasks \ {t} : row'[i] = row[i]
          /\ row[t].status # "ABSENT" /\ row'[t].status # "ABSENT"
      BY <1>0, <1>1 DEF TypeOK, Row, ResetForReplay, IsDeadLetter, workerVars
    <2>2. \A b \in Admins : replay'[b] = replay[b] \/ replay'[b].task = t
      BY <1>0, <1>1 DEF TypeOK, ResetForReplay
    <2> QED BY <2>1, <2>2 DEF TouchesFromOutside
  <1>2. ASSUME PublishReplay(a) \/ PublishReplayFails(a) \/ ReadForRestore(a) \/ SaveRestore(a)
               \/ ReplayStops(a)
        PROVE  \E u \in Tasks : TouchesFromOutside(u)
    <2>1. replay[a].step # "idle"
      BY <1>2 DEF PublishReplay, PublishReplayFails, ReadForRestore, SaveRestore, ReplayStops
    <2>2. PICK u \in Tasks : u = replay[a].task /\ row[u].status # "ABSENT"
      BY <2>1 DEF StageInv, EnvelopesAreExhausted, KnownRows
    <2>3. UNCHANGED <<pc, msg, dlq>>
      BY <1>2 DEF PublishReplay, PublishReplayFails, ReadForRestore, SaveRestore, ReplayStops,
                  workerVars
    <2>4. \A m \in Messages : topic'[m] = topic[m] \/ (topic[m] = NoTask /\ topic'[m] = u)
      BY <1>2, <2>2, ProducedPlace
         DEF PublishReplay, PublishReplayFails, ProducedOrNot, ReadForRestore, SaveRestore, ReplayStops
    <2>5. \A b \in Admins : \/ replay'[b].step = "idle"
                            \/ replay'[b].task = u
                            \/ replay'[b] = replay[b]
      BY <1>0, <1>2, <1>a, <2>2
         DEF TypeOK, Replay, PublishReplay, PublishReplayFails, ReadForRestore, SaveRestore, ReplayStops
    <2>6. (\A t \in Tasks \ {u} : row'[t] = row[t]) /\ row'[u].status # "ABSENT"
      <3>1. CASE SaveRestore(a)
        <4>1. DeadLetterRow(replay[a].snap, replay[a].envelope).status = "FAILED"
          BY <1>0, <2>1 DEF TypeOK, Replay, NoReplay, Row, DeadLetterRow
        <4> QED BY <1>0, <2>2, <3>1, <4>1 DEF TypeOK, SaveRestore
      <3>2. CASE UNCHANGED row
        BY <2>2, <3>2
      <3> QED BY <1>2, <3>1, <3>2 DEF PublishReplay, PublishReplayFails, ReadForRestore, ReplayStops
    <2> QED BY <2>2, <2>3, <2>4, <2>5, <2>6 DEF TouchesFromOutside
  <1> QED BY <1>1, <1>2 DEF ReplayStep

\* A publication from outside is such a step, too.
LEMMA PublishTouches ==
  ASSUME StageInv, NEW t \in Tasks, Publish(t)
  PROVE  TouchesFromOutside(t)
  BY ProducedPlace DEF Publish, workerVars, TouchesFromOutside

\* A row that exists is never ABSENT again, and the facts about unknown tasks hold
\* after the step.
LEMMA TouchKnown ==
  ASSUME StageInv, StageInv', KnownRows, NEW w \in Workers, NEW u \in Tasks, u = Handled(w),
         pc[w] # "idle", Touches(w, u)
  PROVE  KnownRows' /\ RowsStayKnown
  <1>0. msg[w] \in Messages /\ topic[msg[w]] = u /\ \A v \in Workers \ {w} : msg[v] # msg[w]
    BY Handling DEF Handled
  <1>1. RowsStayKnown
    BY DEF Touches, RowsStayKnown
  <1>2. ASSUME NEW t \in Tasks, row'[t].status = "ABSENT"
        PROVE  row'[t].envelope = 0 /\ dlq'[t] = {}
    <2>1. row'[t] = row[t] /\ dlq'[t] = dlq[t]
      BY <1>2 DEF Touches
    <2> QED BY <1>2, <2>1 DEF KnownRows
  <1>3. ASSUME NEW v \in Workers, pc'[v] \notin {"idle", "fetched"}
        PROVE  row'[Handled(v)'].status # "ABSENT"
    <2>1. CASE v = w
      <3>1. row'[u].status # "ABSENT"
        BY <1>3, <2>1 DEF Touches
      <3>2. Handled(v)' \in Tasks /\ msg'[w] # NoMessage
        BY <1>3, <2>1, ConsumerAssumption DEF StageInv, OneHandler, Handled
      <3>3. msg'[w] = msg[w]
        BY <3>2 DEF Touches
      <3>4. topic'[msg[w]] \in {NoTask, u}
        BY <1>0 DEF Touches
      <3> QED BY <2>1, <3>1, <3>2, <3>3, <3>4, ConsumerAssumption DEF Handled
    <2>2. CASE v # w
      <3>1. pc'[v] = pc[v] /\ msg'[v] = msg[v]
        BY <2>2 DEF Touches
      <3>2. msg[v] \in Messages /\ topic[msg[v]] \in Tasks /\ topic'[msg[v]] \in Tasks
        BY <1>3, <3>1 DEF StageInv, OneHandler
      <3>3. topic'[msg[v]] = topic[msg[v]]
        BY <3>2, ConsumerAssumption DEF Touches
      <3>4. row[Handled(v)].status # "ABSENT"
        BY <1>3, <3>1 DEF KnownRows
      <3> QED BY <1>1, <3>1, <3>2, <3>3, <3>4 DEF RowsStayKnown, Handled
    <2> QED BY <2>1, <2>2
  <1>4. ASSUME NEW a \in Admins, replay'[a].step # "idle"
        PROVE  row'[replay'[a].task].status # "ABSENT"
    BY <1>1, <1>4 DEF Touches, KnownRows, RowsStayKnown, StageInv, EnvelopesAreExhausted
  <1> QED BY <1>1, <1>2, <1>3, <1>4 DEF KnownRows

LEMMA OutsideKnown ==
  ASSUME StageInv, StageInv', KnownRows, NEW u \in Tasks, TouchesFromOutside(u)
  PROVE  KnownRows' /\ RowsStayKnown
  <1>1. RowsStayKnown
    BY DEF TouchesFromOutside, RowsStayKnown
  <1>2. ASSUME NEW t \in Tasks, row'[t].status = "ABSENT"
        PROVE  row'[t].envelope = 0 /\ dlq'[t] = {}
    <2>1. row'[t] = row[t] /\ dlq'[t] = dlq[t]
      BY <1>2 DEF TouchesFromOutside
    <2> QED BY <1>2, <2>1 DEF KnownRows
  <1>3. ASSUME NEW v \in Workers, pc'[v] \notin {"idle", "fetched"}
        PROVE  row'[Handled(v)'].status # "ABSENT"
    <2>1. pc'[v] = pc[v] /\ msg'[v] = msg[v]
      BY DEF TouchesFromOutside
    <2>2. msg[v] \in Messages /\ topic[msg[v]] \in Tasks
      BY <1>3, <2>1 DEF StageInv, OneHandler
    <2>3. topic'[msg[v]] = topic[msg[v]]
      BY <2>2, ConsumerAssumption DEF TouchesFromOutside
    <2>4. row[Handled(v)].status # "ABSENT"
      BY <1>3, <2>1 DEF KnownRows
    <2> QED BY <1>1, <2>1, <2>2, <2>3, <2>4 DEF RowsStayKnown, Handled
  <1>4. ASSUME NEW a \in Admins, replay'[a].step # "idle"
        PROVE  row'[replay'[a].task].status # "ABSENT"
    <2>1. CASE replay'[a] = replay[a]
      BY <1>1, <1>4, <2>1 DEF KnownRows, RowsStayKnown, StageInv, EnvelopesAreExhausted
    <2>2. CASE replay'[a] # replay[a]
      BY <1>4, <2>2 DEF TouchesFromOutside
    <2> QED BY <2>1, <2>2
  <1> QED BY <1>1, <1>2, <1>3, <1>4 DEF KnownRows

\* Fetching, and steps that do nothing.
LEMMA FetchKnown ==
  ASSUME StageInv, KnownRows, NEW w \in Workers, Fetch(w)
  PROVE  KnownRows' /\ RowsStayKnown
  <1>1. /\ UNCHANGED <<topic, row, dlq, replay>> /\ pc'[w] = "fetched"
        /\ \A v \in Workers \ {w} : pc'[v] = pc[v] /\ msg'[v] = msg[v]
    BY DEF Fetch, Goto, StageInv, TypeOK
  <1>2. \A v \in Workers : pc'[v] \notin {"idle", "fetched"} => row'[Handled(v)'].status # "ABSENT"
    BY <1>1 DEF KnownRows, Handled
  <1> QED BY <1>1, <1>2 DEF KnownRows, RowsStayKnown

\* A task is new exactly when it has neither a row nor a message.
NewMeansUnknown ==
  \A t \in Tasks :
    Standing(t) = "new" <=> (row[t].status = "ABSENT" /\ \A m \in Messages : topic[m] # t)

LEMMA NewIsUnknown == StageInv /\ KnownRows => NewMeansUnknown
  <1> SUFFICES ASSUME StageInv, KnownRows, NEW t \in Tasks
               PROVE  Standing(t) = "new" <=> (row[t].status = "ABSENT"
                                               /\ \A m \in Messages : topic[m] # t)
    BY DEF NewMeansUnknown
  <1>1. CASE row[t].status # "ABSENT"
    <2>1. Live(t) \/ row[t].status = "SUCCESS" \/ row[t].envelope # 0
      BY <1>1 DEF StageInv, NoTaskForgotten, ToHandle, Accounted, Live, Ending
    <2> QED BY <1>1, <2>1 DEF Standing
  <1>2. CASE row[t].status = "ABSENT"
    <2>1. row[t].envelope = 0 /\ dlq[t] = {}
      BY <1>2 DEF KnownRows
    <2>2. Live(t) <=> \E m \in Messages : topic[m] = t
      <3> SUFFICES ASSUME NEW m \in Messages, topic[m] = t, NEW w \in Workers, msg[w] = m
                   PROVE  pc[w] \notin Finishing
        BY DEF Live
      <3> QED BY <1>2 DEF KnownRows, Handled, Finishing
    <2> QED BY <1>2, <2>1, <2>2 DEF Standing
  <1> QED BY <1>1, <1>2

LEMMA NewIsUnknownAfter == StageInv' /\ KnownRows' => NewMeansUnknown'
  BY NewIsUnknown, PTL

\* A step that changes how one task stands, without making it new or settling a
\* new one, is a step of AtLeastOnce.
LEMMA OneStands ==
  ASSUME NEW u \in Tasks, \A t \in Tasks \ {u} : Standing(t)' = Standing(t),
         Standing(u) = "new" => Standing(u)' \in {"new", "owed"},
         Standing(u) # "new" => Standing(u)' # "new"
  PROVE  [Delivery!Next]_([t \in Tasks |-> Standing(t)])
  <1> DEFINE before == [t \in Tasks |-> Standing(t)]
             after == [t \in Tasks |-> Standing(t)']
  <1>1. Standing(u) \in {"new", "owed", "settled"} /\ Standing(u)' \in {"new", "owed", "settled"}
    BY DEF Standing
  <1>2. after = [before EXCEPT ![u] = Standing(u)']
    OBVIOUS
  <1>3. CASE Standing(u)' = Standing(u)
    <2>1. after = before
      BY <1>3
    <2> QED BY <2>1
  <1>4. CASE Standing(u) = "new" /\ Standing(u)' = "owed"
    BY <1>2, <1>4 DEF Delivery!Next, Delivery!Accept
  <1>5. CASE Standing(u) = "owed" /\ Standing(u)' = "settled"
    BY <1>2, <1>5 DEF Delivery!Next, Delivery!Settle
  <1>6. CASE Standing(u) = "settled" /\ Standing(u)' = "owed"
    BY <1>2, <1>6 DEF Delivery!Next, Delivery!Reopen
  <1> QED BY <1>1, <1>3, <1>4, <1>5, <1>6

\* Whether another task is live does not depend on the worker's step.
LEMMA LiveElsewhere ==
  ASSUME StageInv, NEW w \in Workers, NEW u \in Tasks, u = Handled(w), pc[w] # "idle",
         Touches(w, u), NEW t \in Tasks \ {u}
  PROVE  Live(t)' <=> Live(t)
  <1>1. msg[w] \in Messages /\ topic[msg[w]] = u
    BY Handling DEF Handled
  <1>2. \A m \in Messages : topic'[m] = t <=> topic[m] = t
    BY ConsumerAssumption DEF Touches
  <1>3. ASSUME NEW m \in Messages, topic[m] = t, NEW v \in Workers
        PROVE  (msg'[v] = m => pc'[v] \notin Finishing) <=> (msg[v] = m => pc[v] \notin Finishing)
    <2>1. CASE v = w
      <3>1. msg[w] # m /\ msg'[w] # m
        BY <1>1, <1>3, ConsumerAssumption DEF Touches
      <3> QED BY <2>1, <3>1
    <2>2. CASE v # w
      BY <2>2 DEF Touches
    <2> QED BY <2>1, <2>2
  <1> QED BY <1>2, <1>3 DEF Live

LEMMA TouchRefines ==
  ASSUME StageInv, StageInv', KnownRows, KnownRows', RowsStayKnown,
         NEW w \in Workers, NEW u \in Tasks, u = Handled(w), pc[w] # "idle", Touches(w, u)
  PROVE  [Delivery!Next]_([t \in Tasks |-> Standing(t)])
  <1>1. \A t \in Tasks \ {u} : Standing(t)' = Standing(t)
    BY LiveElsewhere DEF Touches, Standing
  <1>2. msg[w] \in Messages /\ topic[msg[w]] = u
    BY Handling DEF Handled
  <1>3. Standing(u) # "new"
    BY <1>2, NewIsUnknown DEF NewMeansUnknown
  <1>4. Standing(u)' # "new"
    <2>1. Standing(u)' = "new" <=> (row'[u].status = "ABSENT" /\ \A m \in Messages : topic'[m] # u)
      BY NewIsUnknownAfter DEF NewMeansUnknown
    <2> QED BY <1>2, <2>1 DEF Touches
  <1> QED BY <1>1, <1>3, <1>4, OneStands

LEMMA OutsideRefines ==
  ASSUME StageInv, StageInv', KnownRows, KnownRows', RowsStayKnown,
         NEW u \in Tasks, TouchesFromOutside(u)
  PROVE  [Delivery!Next]_([t \in Tasks |-> Standing(t)])
  <1>1. ASSUME NEW t \in Tasks \ {u} PROVE Standing(t)' = Standing(t)
    <2>1. \A m \in Messages : topic'[m] = t <=> topic[m] = t
      BY ConsumerAssumption DEF TouchesFromOutside
    <2>2. Live(t)' <=> Live(t)
      BY <2>1 DEF TouchesFromOutside, Live
    <2> QED BY <2>2 DEF TouchesFromOutside, Standing
  <1>2. ASSUME Standing(u) = "new" PROVE Standing(u)' \in {"new", "owed"}
    <2>1. row[u].status = "ABSENT"
      BY <1>2, NewIsUnknown DEF NewMeansUnknown
    <2>2. row'[u].status = "ABSENT" /\ row'[u].envelope = 0 /\ dlq'[u] = {}
      BY <2>1 DEF TouchesFromOutside, KnownRows
    <2> QED BY <2>2 DEF Standing
  <1>3. ASSUME Standing(u) # "new" PROVE Standing(u)' # "new"
    <2>1. row[u].status # "ABSENT" \/ \E m \in Messages : topic[m] = u
      BY <1>3, NewIsUnknown DEF NewMeansUnknown
    <2>2. row'[u].status # "ABSENT" \/ \E m \in Messages : topic'[m] = u
      BY <2>1, ConsumerAssumption DEF TouchesFromOutside, RowsStayKnown
    <2> QED BY <2>2, NewIsUnknownAfter DEF NewMeansUnknown
  <1> QED BY <1>1, <1>2, <1>3, OneStands

LEMMA FetchRefines ==
  ASSUME StageInv, NEW w \in Workers, Fetch(w)
  PROVE  [Delivery!Next]_([t \in Tasks |-> Standing(t)])
  <1>1. PICK m \in Messages : /\ \A v \in Workers : msg[v] # m
                              /\ msg' = [msg EXCEPT ![w] = m]
    BY DEF Fetch
  <1>2. /\ UNCHANGED <<topic, row, dlq>> /\ pc'[w] = "fetched" /\ pc[w] = "idle" /\ msg'[w] = m
        /\ \A v \in Workers \ {w} : pc'[v] = pc[v] /\ msg'[v] = msg[v]
    BY <1>1 DEF Fetch, Goto, StageInv, TypeOK
  <1>3. ASSUME NEW t \in Tasks PROVE Standing(t)' = Standing(t)
    <2>1. ASSUME NEW n \in Messages, NEW v \in Workers
          PROVE  (msg'[v] = n => pc'[v] \notin Finishing) <=> (msg[v] = n => pc[v] \notin Finishing)
      <3>1. CASE v = w
        BY <1>2, <3>1 DEF Finishing
      <3>2. CASE v # w
        BY <1>2, <3>2
      <3> QED BY <3>1, <3>2
    <2>2. Live(t)' <=> Live(t)
      BY <1>2, <2>1 DEF Live
    <2> QED BY <1>2, <2>2 DEF Standing
  <1>4. [t \in Tasks |-> Standing(t)]' = [t \in Tasks |-> Standing(t)]
    BY <1>3
  <1> QED BY <1>4

\* Every step of the stage is a step or a stutter of AtLeastOnce.
LEMMA StageStepRefines ==
  ASSUME StageInv, StageInv', KnownRows, [Next]_vars
  PROVE  KnownRows' /\ [Delivery!Next]_([t \in Tasks |-> Standing(t)])
  <1>1. ASSUME NEW t \in Tasks, Publish(t)
        PROVE  KnownRows' /\ [Delivery!Next]_([u \in Tasks |-> Standing(u)])
    BY <1>1, PublishTouches, OutsideKnown, OutsideRefines
  <1>2. ASSUME NEW w \in Workers, Work(w) \/ WorkFails(w)
        PROVE  KnownRows' /\ [Delivery!Next]_([t \in Tasks |-> Standing(t)])
    <2>1. CASE Fetch(w)
      BY <2>1, FetchKnown, FetchRefines
    <2>2. CASE ~Fetch(w)
      <3>1. pc[w] # "idle" /\ Handled(w) \in Tasks /\ Touches(w, Handled(w))
        BY <1>2, <2>2, WorkersTouch
      <3>2. PICK u \in Tasks : u = Handled(w)
        BY <3>1
      <3>3. Touches(w, u)
        BY <3>1, <3>2
      <3> QED BY <3>1, <3>2, <3>3, TouchKnown, TouchRefines
    <2> QED BY <2>1, <2>2
  <1>3. ASSUME NEW a \in Admins, ReplayStep(a)
        PROVE  KnownRows' /\ [Delivery!Next]_([t \in Tasks |-> Standing(t)])
    <2>1. PICK u \in Tasks : TouchesFromOutside(u)
      BY <1>3, ReplaysTouch
    <2> QED BY <2>1, OutsideKnown, OutsideRefines
  <1>4. CASE UNCHANGED vars
    <2>1. KnownRows'
      BY <1>4 DEF vars, workerVars, KnownRows, Handled
    <2>2. [t \in Tasks |-> Standing(t)]' = [t \in Tasks |-> Standing(t)]
      BY <1>4 DEF vars, workerVars, Standing, Live
    <2> QED BY <2>1, <2>2
  <1> QED BY <1>1, <1>2, <1>3, <1>4 DEF Next

\* The stage implements the safety half of AtLeastOnce: a task is owed from its
\* publication until its success or its dead letter is out, whatever crashes,
\* redeliveries, stale saves and replays happen, and no step forgets it.
THEOREM StageRefines == Spec => Delivery!Spec
  <1>1. Init => KnownRows
    BY DEF Init, KnownRows, NoRow, NoReplay
  <1>2. Init => Delivery!Init
    <2> SUFFICES ASSUME Init PROVE \A t \in Tasks : Standing(t) = "new"
      BY DEF Delivery!Init
    <2>1. \A t \in Tasks : ~Live(t)
      BY ConsumerAssumption DEF Init, Live
    <2> QED BY <2>1 DEF Init, Standing, NoRow
  <1>3. StageInv /\ StageInv' /\ KnownRows /\ [Next]_vars
          => KnownRows' /\ [Delivery!Next]_([t \in Tasks |-> Standing(t)])
    BY StageStepRefines
  <1> QED BY <1>1, <1>2, <1>3, StageInvariant, PTL DEF Spec, Delivery!Spec
==============================================================================
