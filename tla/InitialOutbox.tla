---------------------------- MODULE InitialOutbox ----------------------------
(***************************************************************************)
(* The outbox of initial parse tasks, kept in the publication columns of   *)
(* the row (upload:<md5>, parse, root) of pipeline_task.  MergeChunks      *)
(* completes an upload and fills the row in one transaction; each server   *)
(* runs a dispatcher that leases due rows, sends their payload to Kafka    *)
(* and records the acknowledgement, fenced by publication_attempt_count.   *)
(***************************************************************************)
EXTENDS Integers, FiniteSets

CONSTANTS
  Files,            \* uploaded contents, numbered by the id of their row
  Owners,           \* users; a file's payload is told apart by its owner
  NoOwner,          \* payload of a row that does not exist yet
  Dispatchers,      \* RunInitialTaskDispatcher, one per server process
  BatchSize,        \* rows one ClaimPendingInitialTasks may take (20 in the code)
  MaxDisturbances   \* bound on failures, restarts, slow lease holders and re-merges

ASSUME OutboxAssumption ==
  /\ Files \subseteq Nat
  /\ NoOwner \notin Owners
  /\ BatchSize \in Nat \ {0}
  /\ MaxDisturbances \in Nat

VARIABLES
  completed,  \* <<file, owner>> of the file_upload rows with status 1
  table,      \* publication columns of each file's row
  phase,      \* where each dispatcher stands in dispatchInitialTasksOnce
  batch,      \* candidates a dispatcher selected and has not tried to claim
  claims,     \* rows a dispatcher claimed and has not published
  produced,   \* <<file, owner>> of the parse messages Kafka holds
  budget      \* disturbances that may still happen

vars == <<completed, table, phase, batch, claims, produced, budget>>
dispatcherVars == <<phase, batch, claims>>

PublicationStatus == {"ABSENT", "PENDING", "CLAIMED", "PUBLISHED"}

\* leased: publication_claimed_at is younger than the lease.
Row == [payload : Owners \cup {NoOwner}, pub : PublicationStatus,
        attempt : Nat, leased : BOOLEAN]
NoRow == [payload |-> NoOwner, pub |-> "ABSENT", attempt |-> 0, leased |-> FALSE]

\* A row as a dispatcher holds it in memory; expired: it was selected because
\* its lease had run out.
Claim == [file : Files, payload : Owners, attempt : Nat, expired : BOOLEAN]

Init ==
  /\ completed = {}
  /\ table = [f \in Files |-> NoRow]
  /\ phase = [d \in Dispatchers |-> "idle"]
  /\ batch = [d \in Dispatchers |-> {}]
  /\ claims = [d \in Dispatchers |-> {}]
  /\ produced = {}
  /\ budget = MaxDisturbances

Disturb == budget > 0 /\ budget' = budget - 1

\* The claims that come first in id order.
IsFirst(c, S) == c \in S /\ \A e \in S : c.file <= e.file

\* The rows one query of ClaimPendingInitialTasks returns: ORDER BY id LIMIT.
FirstRows(S) == {f \in S : Cardinality({g \in S : g <= f}) <= BatchSize}

\* Two faults of the WHERE clause: rows no upload has filled, and no look at leases.
DueWhenAbsent(r) == r.pub # "PUBLISHED" /\ ~r.leased
DueOnlyPending(r) == r.pub = "PENDING"

Due(r) == r.pub = "PENDING" \/ (r.pub = "CLAIMED" /\ ~r.leased)

----------------------------------------------------------------------------
\* A fault: a repeated merge starts the publication over.
EnqueuedAgain(r, o) == [r EXCEPT !.payload = o, !.pub = "PENDING", !.leased = FALSE]

\* The row after enqueueInitialTask: the payload is always replaced, the status
\* only when the row is not PUBLISHED.
EnqueuedRow(r, o) ==
  [r EXCEPT !.payload = o,
            !.pub = IF r.pub = "PUBLISHED" THEN "PUBLISHED" ELSE "PENDING",
            !.leased = FALSE]

\* A fault: upload completion is not in the transaction of the enqueue.
CompleteUploadApart(f, o) ==
  /\ completed' \in {completed, completed \cup {<<f, o>>}}
  /\ table' = [table EXCEPT ![f] = EnqueuedRow(@, o)]
  /\ UNCHANGED <<dispatcherVars, produced, budget>>

\* MergeChunks of owner o: upload completion and enqueue commit together.  A
\* client may merge a completed upload again.
CompleteUpload(f, o) ==
  /\ table[f].pub = "ABSENT" => \A g \in Files : g < f => table[g].pub # "ABSENT"
  /\ IF <<f, o>> \in completed THEN Disturb ELSE UNCHANGED budget
  /\ completed' = completed \cup {<<f, o>>}
  /\ table' = [table EXCEPT ![f] = EnqueuedRow(@, o)]
  /\ UNCHANGED <<dispatcherVars, produced>>

\* The SELECT of ClaimPendingInitialTasks.
Select(d) ==
  LET due == {f \in Files : Due(table[f])} IN
  /\ phase[d] = "idle"
  /\ due # {}
  /\ batch' = [batch EXCEPT ![d] =
       {[file |-> f, payload |-> table[f].payload, attempt |-> table[f].attempt,
         expired |-> table[f].pub = "CLAIMED"] : f \in FirstRows(due)}]
  /\ phase' = [phase EXCEPT ![d] = "claiming"]
  /\ UNCHANGED <<completed, table, claims, produced, budget>>

\* The conditional UPDATE matches a PENDING row, or the very claim whose lease
\* was seen to have run out: a newer claim is younger than the cut-off.
Claimable(c, r) ==
  \/ r.pub = "PENDING"
  \/ r.pub = "CLAIMED" /\ ~r.leased /\ c.expired /\ r.attempt = c.attempt

ClaimedRow(r) == [r EXCEPT !.pub = "CLAIMED", !.leased = TRUE, !.attempt = @ + 1]

\* The claim as it is kept in memory: payload and attempt of the SELECT.
Claimed(c) == [c EXCEPT !.attempt = @ + 1]

\* One conditional UPDATE of ClaimPendingInitialTasks.
ClaimRow(d) ==
  /\ phase[d] = "claiming"
  /\ \E c \in batch[d] :
       LET won == Claimable(c, table[c.file])
           mine == claims[d] \cup (IF won THEN {Claimed(c)} ELSE {})
           left == batch[d] \ {c}
       IN
       /\ IsFirst(c, batch[d])
       /\ batch' = [batch EXCEPT ![d] = left]
       /\ claims' = [claims EXCEPT ![d] = mine]
       /\ table' = IF won THEN [table EXCEPT ![c.file] = ClaimedRow(@)] ELSE table
       /\ phase' = [phase EXCEPT ![d] = IF left # {} THEN "claiming"
                                        ELSE IF mine # {} THEN "producing" ELSE "idle"]
  /\ UNCHANGED <<completed, produced, budget>>

\* A fault: the producer does not wait for the acknowledgement.
ProduceUnacknowledged(d) ==
  /\ phase[d] = "producing"
  /\ phase' = [phase EXCEPT ![d] = "acknowledged"]
  /\ UNCHANGED <<completed, table, batch, claims, produced, budget>>

\* produce(task) returns nil: Kafka acknowledged the first claimed payload.
Produce(d) ==
  /\ phase[d] = "producing"
  /\ \E c \in claims[d] : /\ IsFirst(c, claims[d])
                          /\ produced' = produced \cup {<<c.file, c.payload>>}
  /\ phase' = [phase EXCEPT ![d] = "acknowledged"]
  /\ UNCHANGED <<completed, table, batch, claims, budget>>

\* produce(task) returns an error; the broker may have stored the message.
ProduceFails(d) ==
  /\ phase[d] = "producing"
  /\ Disturb
  /\ \E c \in claims[d] : /\ IsFirst(c, claims[d])
                          /\ produced' \in {produced, produced \cup {<<c.file, c.payload>>}}
  /\ phase' = [phase EXCEPT ![d] = "refused"]
  /\ UNCHANGED <<completed, table, batch, claims>>

\* dispatchInitialTasksOnce returns and forgets the rest of its batch, whose
\* rows stay CLAIMED until their leases run out.
Forget(d) ==
  /\ phase' = [phase EXCEPT ![d] = "idle"]
  /\ batch' = [batch EXCEPT ![d] = {}]
  /\ claims' = [claims EXCEPT ![d] = {}]

\* A fault: the mark operations do not compare the attempt.
HoldsAnyClaim(c, r) == r.pub = "CLAIMED"

\* The WHERE clause of both mark operations.
HoldsClaim(c, r) == r.pub = "CLAIMED" /\ r.attempt = c.attempt

\* MarkInitialTaskPublished; a stale claim ends the round with an error.
MarkPublished(d) ==
  /\ phase[d] = "acknowledged"
  /\ \E c \in claims[d] :
       /\ IsFirst(c, claims[d])
       /\ \/ /\ HoldsClaim(c, table[c.file])
             /\ table' = [table EXCEPT ![c.file].pub = "PUBLISHED", ![c.file].leased = FALSE]
             /\ claims' = [claims EXCEPT ![d] = @ \ {c}]
             /\ phase' = [phase EXCEPT ![d] = IF claims[d] = {c} THEN "idle" ELSE "producing"]
             /\ UNCHANGED batch
          \/ /\ ~HoldsClaim(c, table[c.file])
             /\ Forget(d)
             /\ UNCHANGED table
  /\ UNCHANGED <<completed, produced, budget>>

\* A fault: the error of the producer is not looked at.
MarkFailedAsPublished(d) ==
  /\ phase[d] = "refused"
  /\ \E c \in claims[d] :
       /\ IsFirst(c, claims[d])
       /\ table' = [table EXCEPT ![c.file].pub = "PUBLISHED"]
  /\ Forget(d)
  /\ UNCHANGED <<completed, produced, budget>>

\* MarkInitialTaskPublicationFailed, after which the round ends in any case.
MarkFailed(d) ==
  /\ phase[d] = "refused"
  /\ \E c \in claims[d] :
       /\ IsFirst(c, claims[d])
       /\ table' = IF HoldsClaim(c, table[c.file])
                   THEN [table EXCEPT ![c.file].pub = "PENDING", ![c.file].leased = FALSE]
                   ELSE table
  /\ Forget(d)
  /\ UNCHANGED <<completed, produced, budget>>

\* A database error ends the round, or the process stops and starts again.
Abort(d) ==
  /\ phase[d] # "idle"
  /\ Disturb
  /\ Forget(d)
  /\ UNCHANGED <<completed, table, produced>>

\* Time passes: a lease runs out.  That it does so under a dispatcher that is
\* still at work is a disturbance.
LeaseExpires(f) ==
  /\ table[f].pub = "CLAIMED"
  /\ table[f].leased
  /\ IF \E d \in Dispatchers : \E c \in claims[d] : c.file = f
     THEN Disturb ELSE UNCHANGED budget
  /\ table' = [table EXCEPT ![f].leased = FALSE]
  /\ UNCHANGED <<completed, dispatcherVars, produced>>

----------------------------------------------------------------------------
\* dispatchInitialTasksOnce without failures.
Dispatch(d) == Select(d) \/ ClaimRow(d) \/ Produce(d) \/ MarkPublished(d) \/ MarkFailed(d)

Next ==
  \/ \E f \in Files, o \in Owners : CompleteUpload(f, o)
  \/ \E d \in Dispatchers : Dispatch(d) \/ ProduceFails(d) \/ Abort(d)
  \/ \E f \in Files : LeaseExpires(f)

Spec == Init /\ [][Next]_vars

\* The dispatcher loop runs on a timer until shutdown, and clocks advance.
Fairness == /\ \A d \in Dispatchers : WF_vars(Dispatch(d))
            /\ \A f \in Files : WF_vars(LeaseExpires(f))

FairSpec == Spec /\ Fairness

----------------------------------------------------------------------------
TypeOK ==
  /\ completed \subseteq Files \X Owners
  /\ table \in [Files -> Row]
  /\ phase \in [Dispatchers -> {"idle", "claiming", "producing", "acknowledged", "refused"}]
  /\ batch \in [Dispatchers -> SUBSET Claim]
  /\ claims \in [Dispatchers -> SUBSET Claim]
  /\ produced \subseteq Files \X Owners
  /\ budget \in 0 .. MaxDisturbances

\* A row says PUBLISHED only if Kafka holds a parse message of its file,
\* however dispatchers, lease expiries and repeated merges interleave.
PublishedIsAcknowledged ==
  \A f \in Files : table[f].pub = "PUBLISHED" => \E o \in Owners : <<f, o>> \in produced

\* A parse message exists only for an upload whose completing transaction
\* committed, although the payload is published from a copy read earlier.
PublishedIsCompleted == produced \subseteq completed

\* The attempt number fences: of all dispatchers that believe they hold a row,
\* at most one can still mark it.
ClaimFence ==
  \A d, e \in Dispatchers : \A c \in claims[d], b \in claims[e] :
    (d # e /\ c.file = b.file /\ HoldsClaim(c, table[c.file]))
      => ~HoldsClaim(b, table[b.file])

\* Once recorded, a publication is never taken back, neither by a late
\* dispatcher nor by a repeated merge.
PublishedIsFinal ==
  [][\A f \in Files : table[f].pub = "PUBLISHED" => table'[f].pub = "PUBLISHED"]_vars

\* Every enqueued row is published in the end: failures, restarts and stale
\* leases delay the publication but do not lose it.
EventuallyPublished ==
  \A f \in Files : (table[f].pub # "ABSENT") ~> [](table[f].pub = "PUBLISHED")

\* Every completed upload gets its own owner's parse task published.
EveryOwnerPublished ==
  \A f \in Files, o \in Owners : (<<f, o>> \in completed) ~> (<<f, o>> \in produced)

\* Refinement: a file's parse task is owed while its row is due or leased, and
\* settled once Kafka holds a message of it.
Standing(f) ==
  IF \E o \in Owners : <<f, o>> \in produced THEN "settled"
  ELSE IF table[f].pub \in {"PENDING", "CLAIMED"} THEN "owed"
  ELSE "new"

Publication == INSTANCE AtLeastOnce
                 WITH Items <- Files, status <- [f \in Files |-> Standing(f)]

\* The outbox delivers every accepted parse task to Kafka at least once.
OutboxDelivers == Publication!FairSpec
==============================================================================
