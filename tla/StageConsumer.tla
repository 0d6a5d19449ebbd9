---------------------------- MODULE StageConsumer ----------------------------
(***************************************************************************)
(* One pipeline stage: Kafka workers that handle messages of the stage's   *)
(* topic one at a time (processStageMessage), the pipeline_task row that   *)
(* tracks each task, the retry and dead-letter hand-off of a failed task,  *)
(* and the administrator's replay of a dead letter.  Delivery is at least  *)
(* once; a tracker update that ends in db.Save is a read and, later, a     *)
(* write of the whole row.                                                 *)
(***************************************************************************)
EXTENDS Integers, FiniteSets

CONSTANTS
  Tasks,            \* (document version, stage, window): the key of a row
  NoTask,
  Messages,         \* room for messages that are in the topic at the same time
  NoMessage,
  Workers,          \* goroutines that consume the topic, each with its partitions
  Admins,           \* concurrent replay requests
  MaxRetries,       \* cfg.MaxRetries
  MaxDisturbances   \* bound on failures, crashes, duplicate publications and replays

ASSUME ConsumerAssumption ==
  /\ NoTask \notin Tasks
  /\ NoMessage \notin Messages
  /\ MaxRetries \in Nat
  /\ MaxDisturbances \in Nat

VARIABLES
  topic,      \* topic[m]: task of the uncommitted message m, or NoTask
  row,        \* row[t]: the tracker's columns of task t
  dlq,        \* dlq[t]: the dead-letter identities of t in the DLQ topic
  pc,         \* pc[w]: where worker w stands in processStageMessage
  msg,        \* msg[w]: the message it handles
  snap,       \* snap[w]: the row its current Mark...ByKey read
  failures,   \* failures[w]: retryCount of the failure it hands off
  sending,    \* sending[w]: identity of the envelope it publishes to the DLQ
  replay,     \* replay[a]: the replay request a
  budget      \* disturbances that may still happen

workerVars == <<pc, msg, snap, failures, sending>>
vars == <<topic, row, dlq, workerVars, replay, budget>>

Status == {"ABSENT", "PENDING", "PROCESSING", "SUCCESS", "FAILED"}

\* envelope: the attempt in the persisted DLQ identity, 0 when there is none.
Row == [status : Status, retries : Nat, envelope : Nat]
NoRow == [status |-> "ABSENT", retries |-> 0, envelope |-> 0]

Steps == {"idle", "fetched", "loaded", "processing", "succeeded", "savingSuccess",
          "failed", "savingRetry", "handoff", "exhausted", "savingDeadLetter",
          "burying", "seen", "marked", "handed"}

\* What is left to do is to commit the offset.
Finishing == {"seen", "marked", "handed"}

Replay == [step : {"idle", "publishing", "refused", "restoring"},
           task : Tasks \cup {NoTask}, envelope : Nat, snap : Row]
NoReplay == [step |-> "idle", task |-> NoTask, envelope |-> 0, snap |-> NoRow]

Init ==
  /\ topic = [m \in Messages |-> NoTask]
  /\ row = [t \in Tasks |-> NoRow]
  /\ dlq = [t \in Tasks |-> {}]
  /\ pc = [w \in Workers |-> "idle"]
  /\ msg = [w \in Workers |-> NoMessage]
  /\ snap = [w \in Workers |-> NoRow]
  /\ failures = [w \in Workers |-> 0]
  /\ sending = [w \in Workers |-> 0]
  /\ replay = [a \in Admins |-> NoReplay]
  /\ budget = MaxDisturbances

Disturb == budget > 0 /\ budget' = budget - 1

Goto(w, step) == pc' = [pc EXCEPT ![w] = step]

\* A message of task t enters the topic.
Produced(t) == \E m \in Messages : topic[m] = NoTask /\ topic' = [topic EXCEPT ![m] = t]

\* The producer reports an error: the message may be in the topic all the same.
ProducedOrNot(t) == Produced(t) \/ UNCHANGED topic

Handled(w) == topic[msg[w]]

\* A message of t is in the topic whose handling is not already over.
Live(t) == \E m \in Messages : /\ topic[m] = t
                               /\ \A w \in Workers : msg[w] = m => pc[w] \notin Finishing

----------------------------------------------------------------------------
(* Delivery and the claim of the task. *)

\* The dispatcher or the previous stage publishes the task, perhaps repeatedly.
Publish(t) ==
  /\ IF row[t].status = "ABSENT" /\ \A m \in Messages : topic[m] # t
     THEN UNCHANGED budget ELSE Disturb
  /\ Produced(t)
  /\ UNCHANGED <<row, dlq, workerVars, replay>>

\* FetchMessage: a message no other worker is handling.
Fetch(w) ==
  /\ pc[w] = "idle"
  /\ \E m \in Messages :
       /\ topic[m] # NoTask
       /\ \A v \in Workers : msg[v] # m
       /\ msg' = [msg EXCEPT ![w] = m]
  /\ Goto(w, "fetched")
  /\ UNCHANGED <<topic, row, dlq, snap, failures, sending, replay, budget>>

\* Two faults of the status check: SUCCESS is handled again, FAILED is dropped.
LoadAlways(w) ==
  LET t == Handled(w) IN
  /\ pc[w] = "fetched"
  /\ row' = IF row[t].status = "ABSENT"
            THEN [row EXCEPT ![t].status = "PENDING"] ELSE row
  /\ Goto(w, "loaded")
  /\ UNCHANGED <<topic, dlq, msg, snap, failures, sending, replay, budget>>

LoadUnlessFailed(w) ==
  /\ LoadAlways(w)
  /\ row[Handled(w)].status \notin {"SUCCESS", "FAILED"}
LoadDropsFailed(w) ==
  \/ LoadUnlessFailed(w)
  \/ /\ pc[w] = "fetched"
     /\ row[Handled(w)].status \in {"SUCCESS", "FAILED"}
     /\ Goto(w, "seen")
     /\ UNCHANGED <<topic, row, dlq, msg, snap, failures, sending, replay, budget>>

\* GetOrStart creates the row if need be; a SUCCESS task is only committed.
Load(w) ==
  LET t == Handled(w) IN
  /\ pc[w] = "fetched"
  /\ row' = IF row[t].status = "ABSENT"
            THEN [row EXCEPT ![t].status = "PENDING"] ELSE row
  /\ Goto(w, IF row[t].status = "SUCCESS" THEN "seen" ELSE "loaded")
  /\ UNCHANGED <<topic, dlq, msg, snap, failures, sending, replay, budget>>

\* RecordAttemptMetadata fails before processing or after a failed one: the
\* error makes consumeMessagesSerially run processStageMessage from the start.
MetadataFails(w) ==
  /\ pc[w] \in {"loaded", "processing"}
  /\ Disturb
  /\ Goto(w, "fetched")
  /\ UNCHANGED <<topic, row, dlq, msg, snap, failures, sending, replay>>

\* MarkProcessingByKey updates only its own columns.
MarkProcessing(w) ==
  /\ pc[w] = "loaded"
  /\ row' = [row EXCEPT ![Handled(w)].status = "PROCESSING"]
  /\ Goto(w, "processing")
  /\ UNCHANGED <<topic, dlq, msg, snap, failures, sending, replay, budget>>

\* processor.Process, whose outcome the tracker does not influence.
Process(w) ==
  /\ pc[w] = "processing"
  /\ \E outcome \in {"succeeded", "failed"} : Goto(w, outcome)
  /\ UNCHANGED <<topic, row, dlq, msg, snap, failures, sending, replay, budget>>

----------------------------------------------------------------------------
(* The read-then-Save updates of the tracker. *)

Reading == [succeeded |-> "savingSuccess", failed |-> "savingRetry",
            exhausted |-> "savingDeadLetter"]

\* GetOrStart at the beginning of MarkSuccess-, MarkRetry- or MarkDeadLetterByKey.
ReadRow(w) ==
  /\ pc[w] \in DOMAIN Reading
  /\ snap' = [snap EXCEPT ![w] = row[Handled(w)]]
  /\ Goto(w, Reading[pc[w]])
  /\ UNCHANGED <<topic, row, dlq, msg, failures, sending, replay, budget>>

\* The update fails and is started again.
SaveFails(w) ==
  /\ Disturb
  /\ \/ pc[w] = "savingSuccess" /\ Goto(w, "succeeded")
     \/ pc[w] = "savingRetry" /\ Goto(w, "failed")
     \/ pc[w] = "savingDeadLetter" /\ Goto(w, "handoff")
  /\ UNCHANGED <<topic, row, dlq, msg, snap, failures, sending, replay>>

\* Three faults of MarkRetryByKey: no count, no envelope kept, a status of its own.
RetryRowUncounted(r) == [r EXCEPT !.status = "FAILED"]
RetryRowWithoutEnvelope(r) == [r EXCEPT !.status = "FAILED", !.retries = @ + 1, !.envelope = 0]
RetryRowUnknown(r) == [r EXCEPT !.status = "RETRYING", !.retries = @ + 1]

SuccessRow(r) == [r EXCEPT !.status = "SUCCESS"]
RetryRow(r) == [r EXCEPT !.status = "FAILED", !.retries = @ + 1]
DeadLetterRow(r, attempt) == [r EXCEPT !.status = "FAILED", !.envelope = attempt]

SaveSuccess(w) ==
  /\ pc[w] = "savingSuccess"
  /\ row' = [row EXCEPT ![Handled(w)] = SuccessRow(snap[w])]
  /\ Goto(w, "marked")
  /\ UNCHANGED <<topic, dlq, msg, snap, failures, sending, replay, budget>>

SaveRetry(w) ==
  /\ pc[w] = "savingRetry"
  /\ row' = [row EXCEPT ![Handled(w)] = RetryRow(snap[w])]
  /\ failures' = [failures EXCEPT ![w] = snap[w].retries + 1]
  /\ Goto(w, "handoff")
  /\ UNCHANGED <<topic, dlq, msg, snap, sending, replay, budget>>

SaveDeadLetter(w) ==
  /\ pc[w] = "savingDeadLetter"
  /\ row' = [row EXCEPT ![Handled(w)] = DeadLetterRow(snap[w], failures[w])]
  /\ sending' = [sending EXCEPT ![w] = failures[w]]
  /\ Goto(w, "burying")
  /\ UNCHANGED <<topic, dlq, msg, snap, failures, replay, budget>>

----------------------------------------------------------------------------
(* handoffFailedTask. *)

\* A fault: the error of the producer is not looked at.
HandoffRetryUnsent(w) ==
  /\ pc[w] = "handoff"
  /\ failures[w] <= MaxRetries
  /\ Goto(w, "handed")
  /\ UNCHANGED <<topic, row, dlq, msg, snap, failures, sending, replay, budget>>

\* Within the retry limit the task is published to its own topic again.
HandoffRetry(w) ==
  /\ pc[w] = "handoff"
  /\ failures[w] <= MaxRetries
  /\ Produced(Handled(w))
  /\ Goto(w, "handed")
  /\ UNCHANGED <<row, dlq, msg, snap, failures, sending, replay, budget>>

HandoffRetryFails(w) ==
  /\ pc[w] = "handoff"
  /\ failures[w] <= MaxRetries
  /\ Disturb
  /\ ProducedOrNot(Handled(w))
  /\ UNCHANGED <<row, dlq, workerVars, replay>>

\* What GetDeadLetterByKey and ResetForReplayByKey look for.
IsDeadLetter(r) == r.status = "FAILED" /\ r.envelope # 0

\* Three faults: the limit is off by one, the envelope is published but not
\* persisted, a persisted envelope is not reused.
LookupTooEarly(w) ==
  /\ pc[w] = "handoff"
  /\ failures[w] >= MaxRetries
  /\ sending' = [sending EXCEPT ![w] = failures[w]]
  /\ Goto(w, "burying")
  /\ UNCHANGED <<topic, row, dlq, msg, snap, failures, replay, budget>>

LookupUnpersisted(w) == failures[w] > MaxRetries /\ LookupTooEarly(w)

LookupNothing(w) ==
  /\ pc[w] = "handoff"
  /\ failures[w] > MaxRetries
  /\ Goto(w, "exhausted")
  /\ UNCHANGED <<topic, row, dlq, msg, snap, failures, sending, replay, budget>>

\* Beyond the limit a persisted envelope is sent again, else one is written.
LookupDeadLetter(w) ==
  LET r == row[Handled(w)] IN
  /\ pc[w] = "handoff"
  /\ failures[w] > MaxRetries
  /\ \/ IsDeadLetter(r) /\ sending' = [sending EXCEPT ![w] = r.envelope] /\ Goto(w, "burying")
     \/ ~IsDeadLetter(r) /\ UNCHANGED sending /\ Goto(w, "exhausted")
  /\ UNCHANGED <<topic, row, dlq, msg, snap, failures, replay, budget>>

PublishDeadLetter(w) ==
  /\ pc[w] = "burying"
  /\ dlq' = [dlq EXCEPT ![Handled(w)] = @ \cup {sending[w]}]
  /\ Goto(w, "handed")
  /\ UNCHANGED <<topic, row, msg, snap, failures, sending, replay, budget>>

\* The whole hand-off is repeated after a failed publication.
PublishDeadLetterFails(w) ==
  /\ pc[w] = "burying"
  /\ Disturb
  /\ dlq' \in {dlq, [dlq EXCEPT ![Handled(w)] = @ \cup {sending[w]}]}
  /\ Goto(w, "handoff")
  /\ UNCHANGED <<topic, row, msg, snap, failures, sending, replay>>

----------------------------------------------------------------------------
(* The end of a message. *)

\* The worker keeps nothing of the message.
Release(w) ==
  /\ Goto(w, "idle")
  /\ msg' = [msg EXCEPT ![w] = NoMessage]
  /\ snap' = [snap EXCEPT ![w] = NoRow]
  /\ failures' = [failures EXCEPT ![w] = 0]
  /\ sending' = [sending EXCEPT ![w] = 0]

Commit(w) ==
  /\ pc[w] \in Finishing
  /\ topic' = [topic EXCEPT ![msg[w]] = NoTask]
  /\ Release(w)
  /\ UNCHANGED <<row, dlq, replay, budget>>

\* handleSuccessfulMessage marks the success again when the commit failed; the
\* other paths only repeat the commit.
CommitFails(w) ==
  /\ pc[w] = "marked"
  /\ Disturb
  /\ Goto(w, "succeeded")
  /\ UNCHANGED <<topic, row, dlq, msg, snap, failures, sending, replay>>

\* The process dies or loses its partition: the message is delivered again.
Crash(w) ==
  /\ pc[w] # "idle"
  /\ Disturb
  /\ Release(w)
  /\ UNCHANGED <<topic, row, dlq, replay>>

----------------------------------------------------------------------------
(* ReplayPipelineTask. *)

\* The dead letter is found and ResetForReplayByKey makes its row PENDING.
ResetForReplay(a, t) ==
  /\ replay[a].step = "idle"
  /\ IsDeadLetter(row[t])
  /\ Disturb
  /\ row' = [row EXCEPT ![t].status = "PENDING"]
  /\ replay' = [replay EXCEPT ![a] = [step |-> "publishing", task |-> t,
                                      envelope |-> row[t].envelope, snap |-> NoRow]]
  /\ UNCHANGED <<topic, dlq, workerVars>>

PublishReplay(a) ==
  /\ replay[a].step = "publishing"
  /\ Produced(replay[a].task)
  /\ replay' = [replay EXCEPT ![a] = NoReplay]
  /\ UNCHANGED <<row, dlq, workerVars, budget>>

PublishReplayFails(a) ==
  /\ replay[a].step = "publishing"
  /\ Disturb
  /\ ProducedOrNot(replay[a].task)
  /\ replay' = [replay EXCEPT ![a].step = "refused"]
  /\ UNCHANGED <<row, dlq, workerVars>>

\* MarkDeadLetterByKey puts the dead letter back: its read ...
ReadForRestore(a) ==
  /\ replay[a].step = "refused"
  /\ replay' = [replay EXCEPT ![a].step = "restoring", ![a].snap = row[replay[a].task]]
  /\ UNCHANGED <<topic, row, dlq, workerVars, budget>>

\* ... and its Save.
SaveRestore(a) ==
  /\ replay[a].step = "restoring"
  /\ row' = [row EXCEPT ![replay[a].task] = DeadLetterRow(replay[a].snap, replay[a].envelope)]
  /\ replay' = [replay EXCEPT ![a] = NoReplay]
  /\ UNCHANGED <<topic, dlq, workerVars, budget>>

\* The server dies during the request, or restoring the dead letter fails.
ReplayStops(a) ==
  /\ replay[a].step # "idle"
  /\ Disturb
  /\ replay' = [replay EXCEPT ![a] = NoReplay]
  /\ UNCHANGED <<topic, row, dlq, workerVars>>

----------------------------------------------------------------------------
\* The steps a worker that meets no failure takes.
Work(w) ==
  \/ Fetch(w) \/ Load(w) \/ MarkProcessing(w) \/ Process(w)
  \/ ReadRow(w) \/ SaveSuccess(w) \/ SaveRetry(w) \/ SaveDeadLetter(w)
  \/ HandoffRetry(w) \/ LookupDeadLetter(w) \/ PublishDeadLetter(w) \/ Commit(w)

WorkFails(w) ==
  \/ MetadataFails(w) \/ SaveFails(w) \/ HandoffRetryFails(w)
  \/ PublishDeadLetterFails(w) \/ CommitFails(w) \/ Crash(w)

ReplayStep(a) ==
  \/ \E t \in Tasks : ResetForReplay(a, t)
  \/ PublishReplay(a) \/ PublishReplayFails(a)
  \/ ReadForRestore(a) \/ SaveRestore(a) \/ ReplayStops(a)

Next ==
  \/ \E t \in Tasks : Publish(t)
  \/ \E w \in Workers : Work(w) \/ WorkFails(w)
  \/ \E a \in Admins : ReplayStep(a)

Spec == Init /\ [][Next]_vars

\* Consumers run in loops that only a failure interrupts; nothing obliges an
\* administrator to replay or an upload to happen.
FairSpec == Spec /\ \A w \in Workers : WF_vars(Work(w))

----------------------------------------------------------------------------
TypeOK ==
  /\ topic \in [Messages -> Tasks \cup {NoTask}]
  /\ row \in [Tasks -> Row]
  /\ dlq \in [Tasks -> SUBSET Nat]
  /\ pc \in [Workers -> Steps]
  /\ msg \in [Workers -> Messages \cup {NoMessage}]
  /\ snap \in [Workers -> Row]
  /\ failures \in [Workers -> Nat]
  /\ sending \in [Workers -> Nat]
  /\ replay \in [Admins -> Replay]
  /\ budget \in 0 .. MaxDisturbances

\* The tracker or the DLQ topic holds the outcome of t.
Recorded(t) == row[t].status = "SUCCESS" \/ row[t].envelope # 0 \/ dlq[t] # {}

\* No task is lost: as soon as the tracker knows a task, its outcome is recorded
\* or a message is left whose handling is not over, whatever crashes,
\* redeliveries, stale saves and replays happen.
NoTaskLost == \A t \in Tasks : row[t].status # "ABSENT" => Live(t) \/ Recorded(t)

\* Once no request and no message of t is under way, t is SUCCESS, or its
\* envelope is in the row and it is not left PROCESSING.
Quiet(t) == /\ \A m \in Messages : topic[m] # t
            /\ \A a \in Admins : replay[a].task # t
QuietTaskIsRecorded ==
  \A t \in Tasks : (row[t].status # "ABSENT" /\ Quiet(t)) =>
    \/ row[t].status = "SUCCESS"
    \/ row[t].envelope # 0 /\ row[t].status \in {"FAILED", "PENDING"}

\* A task is dead-lettered only when its retries are used up, also after replays
\* and lost updates of the retry counter.
DeadLetteredAfterRetries == \A t \in Tasks : \A attempt \in dlq[t] : attempt > MaxRetries

\* An envelope is in the row before it is in the DLQ topic, and is not lost
\* again (handoffFailedTask persists before it publishes).
DeadLetterIsKept == \A t \in Tasks : dlq[t] # {} => row[t].envelope # 0

\* All DLQ messages of a task carry the identity the row holds: a later failure
\* republishes the persisted envelope.
OneDeadLetterIdentity == \A t \in Tasks : dlq[t] \subseteq {row[t].envelope}

\* A finished task stays finished.
SuccessIsFinal == [][\A t \in Tasks : row[t].status = "SUCCESS" => row'[t].status = "SUCCESS"]_vars

\* A dead letter that nobody is replaying and no message will revive can be
\* replayed: ReplayPipelineTask accepts only FAILED rows.
DeadLetterIsReplayable ==
  \A t \in Tasks : (dlq[t] # {} /\ Quiet(t)) => row[t].status = "SUCCESS" \/ IsDeadLetter(row[t])

\* Every published task succeeds or reaches the DLQ.
EventuallySettled ==
  \A t \in Tasks : Live(t) ~> (row[t].status = "SUCCESS" \/ dlq[t] # {})

\* Refinement: a task is owed while a message is to be handled, and settled when
\* its success or its dead letter is out.
Standing(t) ==
  IF row[t].status = "SUCCESS" \/ dlq[t] # {} THEN "settled"
  ELSE IF Live(t) THEN "owed"
  ELSE IF row[t].envelope # 0 THEN "settled"
  ELSE "new"

Delivery == INSTANCE AtLeastOnce
              WITH Items <- Tasks, status <- [t \in Tasks |-> Standing(t)]

\* The stage handles every published task at least once.
StageDelivers == Delivery!FairSpec
==============================================================================
