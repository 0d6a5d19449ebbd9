--------------------------- MODULE DocumentPipeline ---------------------------
(***************************************************************************)
(* The four stages that turn an uploaded file into searchable chunks and   *)
(* evidence, as processor.go runs them with the ingestion worker: parse,   *)
(* chunk, embed (window after window) and index.  Stages hand over through *)
(* Kafka and share the parsed object, the evidence and chunk rows, the     *)
(* embedding cache and the search indices, all under a document identity.  *)
(* Tracker updates and the hand-off of a failed task, which StageConsumer  *)
(* has in detail, are one step each.  A chunk stands for a window of them. *)
(***************************************************************************)
EXTENDS Integers, FiniteSets

CONSTANTS
  NumChunks,        \* windows of chunks a document has
  Workers,          \* consumer goroutines, of any stage
  NoTask,
  MaxRetries,       \* cfg.MaxRetries
  MaxFailures,      \* bound on failures of the services a stage calls
  MaxDisturbances   \* bound on crashes, duplicates, expiries, ignored errors and replays

ASSUME PipelineAssumption ==
  /\ NumChunks \in Nat \ {0}
  /\ IsFiniteSet(Workers)
  /\ MaxRetries \in Nat
  /\ MaxFailures \in Nat
  /\ MaxDisturbances \in Nat

Chunks == 1 .. NumChunks

\* "sha" is the immutable version id, "upload" the tracker's upload:<md5>.
Identities == {"sha", "upload"}

\* A task as it is in Kafka; only the first parse task carries no version.
Task == [stage : {"parse"}, doc : {"unset", "upload"}, window : {0}]
        \cup [stage : {"chunk", "index"}, doc : Identities, window : {0}]
        \cup [stage : {"embed"}, doc : Identities, window : Chunks]

ASSUME NoTaskAssumption == NoTask \notin Task

\* The tracker's key of a task, and the version a retry message carries.
Key(t) == IF t.doc = "unset" THEN [t EXCEPT !.doc = "upload"] ELSE t
Keys == {Key(t) : t \in Task}

FirstTask == [stage |-> "parse", doc |-> "unset", window |-> 0]

VARIABLES
  inbox,            \* uncommitted messages, as a bag of tasks
  row,              \* pipeline_task: status and retries of each key
  newest,           \* version of the row that was created last, or "unset"
  job,              \* job[w]: the task of worker w, its step and what it holds
  store,            \* store[v]: what exists under document identity v
  failures,         \* failures of called services that may still happen
  budget            \* disturbances that may still happen

queue == <<inbox, row, newest>>
budgets == <<failures, budget>>
vars == <<queue, job, store, budgets>>

\* version: the document_versions row; parsed: the parsed object in storage;
\* evidence, rows: the evidence rows and the chunk rows; cache: chunks with an
\* embedding in the Redis hash; searchable, found: chunks and evidence in the
\* search indices.
Artifacts == [version : BOOLEAN, parsed : BOOLEAN, evidence : BOOLEAN, rows : BOOLEAN,
              cache : SUBSET Chunks, searchable : SUBSET Chunks, found : BOOLEAN]
Nothing == [version |-> FALSE, parsed |-> FALSE, evidence |-> FALSE, rows |-> FALSE,
            cache |-> {}, searchable |-> {}, found |-> FALSE]

Status == {"ABSENT", "PENDING", "PROCESSING", "SUCCESS", "FAILED", "DEAD"}
NoRow == [status |-> "ABSENT", retries |-> 0]

Steps == {"idle", "version", "store", "read", "evidence", "delete", "uncache", "create",
          "window", "vectors", "rows", "cached", "bulk", "bulkEvidence", "remove",
          "send", "done", "failed"}

\* doc: the version the running handler works with.
NoJob == [task |-> NoTask, step |-> "idle", doc |-> "unset"]
Job == [task : Task, step : Steps \ {"idle"}, doc : Identities \cup {"unset"}]

Init ==
  /\ inbox = [t \in Task |-> IF t = FirstTask THEN 1 ELSE 0]
  /\ row = [k \in Keys |-> NoRow]
  /\ newest = "unset"
  /\ job = [w \in Workers |-> NoJob]
  /\ store = [v \in Identities |-> Nothing]
  /\ failures = MaxFailures
  /\ budget = MaxDisturbances

Disturb == budget > 0 /\ budget' = budget - 1

At(w, step) == job[w].step = step
Doc(w) == job[w].doc
Goto(w, step) == job' = [job EXCEPT ![w].step = step]

Produce(t) == inbox' = [inbox EXCEPT ![t] = @ + 1]

Failure == failures > 0 /\ failures' = failures - 1

\* A call has had its effect: it returns, or its answer is lost and the handler
\* returns an error.
Returns(w, step) == \/ Goto(w, step) /\ UNCHANGED failures
                    \/ Goto(w, "failed") /\ Failure

----------------------------------------------------------------------------
(* Around a handler: delivery, tracker, hand-off. *)

Handling(t) == {w \in Workers : job[w].task = t}

\* A fault: a message is given to a second worker.
AvailableToAll(t) == inbox[t] > 0

\* Every message of the consumer group goes to one worker.
Available(t) == inbox[t] > Cardinality(Handling(t))

FirstStep == [parse |-> "version", chunk |-> "read", embed |-> "window", index |-> "rows"]

\* GetOrStart and MarkProcessingByKey.
Begin(w) ==
  \E t \in Task :
    /\ At(w, "idle")
    /\ Available(t)
    /\ row[Key(t)].status # "SUCCESS"
    /\ row' = [row EXCEPT ![Key(t)].status = "PROCESSING"]
    /\ newest' = IF row[Key(t)].status = "ABSENT" THEN Key(t).doc ELSE newest
    /\ job' = [job EXCEPT ![w] = [task |-> t, step |-> FirstStep[t.stage], doc |-> t.doc]]
    /\ UNCHANGED <<inbox, store, budgets>>

\* The message of a task that is SUCCESS is only committed.
Skip(w) ==
  \E t \in Task :
    /\ At(w, "idle")
    /\ Available(t)
    /\ row[Key(t)].status = "SUCCESS"
    /\ inbox' = [inbox EXCEPT ![t] = @ - 1]
    /\ UNCHANGED <<row, newest, job, store, budgets>>

\* MarkSuccessByKey and the commit.
Succeed(w) ==
  /\ At(w, "done")
  /\ row' = [row EXCEPT ![Key(job[w].task)].status = "SUCCESS"]
  /\ inbox' = [inbox EXCEPT ![job[w].task] = @ - 1]
  /\ job' = [job EXCEPT ![w] = NoJob]
  /\ UNCHANGED <<newest, store, budgets>>

\* A fault: the failure is not counted.
FailedRowUncounted(r) == [r EXCEPT !.status = "FAILED"]

FailedRow(r) == [status |-> IF r.retries < MaxRetries THEN "FAILED" ELSE "DEAD",
                 retries |-> r.retries + 1]

\* MarkRetryByKey and handoffFailedTask: the retry message carries the
\* tracker's key, whatever version the handler had found out.
HandOff(w) ==
  LET t == job[w].task
      failed == FailedRow(row[Key(t)])
      committed == [inbox EXCEPT ![t] = @ - 1]
  IN
  /\ At(w, "failed")
  /\ row' = [row EXCEPT ![Key(t)] = failed]
  /\ inbox' = IF failed.status = "DEAD" THEN committed
              ELSE [committed EXCEPT ![Key(t)] = @ + 1]
  /\ job' = [job EXCEPT ![w] = NoJob]
  /\ UNCHANGED <<newest, store, budgets>>

----------------------------------------------------------------------------
(* processParseExternal. *)

\* A fault: the version of a task that carries one already is created as well.
EnsureAnyVersion(w) ==
  LET v == IF Doc(w) = "unset" THEN "sha" ELSE Doc(w) IN
  /\ At(w, "version")
  /\ store' = [store EXCEPT ![v].version = TRUE]
  /\ job' = [job EXCEPT ![w].doc = v, ![w].step = "store"]
  /\ UNCHANGED <<queue, budgets>>

\* ensureTaskVersion: only a task without a version gets the immutable one and its row.
EnsureVersion(w) ==
  /\ At(w, "version")
  /\ IF Doc(w) = "unset"
     THEN /\ store' = [store EXCEPT !["sha"].version = TRUE]
          /\ job' = [job EXCEPT ![w].doc = "sha", ![w].step = "store"]
     ELSE Goto(w, "store") /\ UNCHANGED store
  /\ UNCHANGED <<queue, budgets>>

StoreParsed(w) ==
  /\ At(w, "store")
  /\ store' = [store EXCEPT ![Doc(w)].parsed = TRUE]
  /\ Returns(w, "send")
  /\ UNCHANGED <<queue, budget>>

(* processChunkExternal. *)

ReadParsed(w) ==
  /\ At(w, "read")
  /\ Goto(w, IF store[Doc(w)].parsed THEN "evidence" ELSE "failed")
  /\ UNCHANGED <<queue, store, budgets>>

\* ReplaceForVersion, one transaction.  Evidence refers to the row of its version by
\* a foreign key, and every parsed document has some.
ReplaceEvidence(w) ==
  /\ At(w, "evidence")
  /\ \/ /\ store[Doc(w)].version
        /\ store' = [store EXCEPT ![Doc(w)].evidence = TRUE]
        /\ Returns(w, "delete")
     \/ /\ ~store[Doc(w)].version
        /\ Goto(w, "failed")
        /\ UNCHANGED <<store, failures>>
  /\ UNCHANGED <<queue, budget>>

\* A clean-up whose error the handler ignores may leave things as they are.
CleanUp(v, cleaned) ==
  \/ store' = [store EXCEPT ![v] = cleaned] /\ UNCHANGED budget
  \/ store[v] # cleaned /\ Disturb /\ UNCHANGED store

\* DeleteByDocumentVersion.
DeleteChunks(w) ==
  /\ At(w, "delete")
  /\ CleanUp(Doc(w), [store[Doc(w)] EXCEPT !.rows = FALSE])
  /\ Goto(w, "uncache")
  /\ UNCHANGED <<queue, failures>>

\* Del of the embedding cache, in the chunk stage and at the end of index.
DropCache(w) ==
  /\ At(w, "uncache")
  /\ CleanUp(Doc(w), [store[Doc(w)] EXCEPT !.cache = {}])
  /\ Goto(w, IF job[w].task.stage = "chunk" THEN "create" ELSE "remove")
  /\ UNCHANGED <<queue, failures>>

\* BatchCreate, one transaction: rows of the version and its chunk ids are unique, so
\* that it fails where rows were left or another worker was faster.
CreateChunks(w) ==
  /\ At(w, "create")
  /\ \/ /\ ~store[Doc(w)].rows
        /\ store' = [store EXCEPT ![Doc(w)].rows = TRUE]
        /\ Returns(w, "send")
     \/ /\ store[Doc(w)].rows
        /\ Goto(w, "failed")
        /\ UNCHANGED <<store, failures>>
  /\ UNCHANGED <<queue, budget>>

(* processEmbedExternal. *)

\* FindByDocumentVersionRange: the rows of the window, which are kept for CacheVectors.
LoadWindow(w) ==
  /\ At(w, "window")
  /\ Goto(w, IF store[Doc(w)].rows THEN "vectors" ELSE "failed")
  /\ UNCHANGED <<queue, store, budgets>>

CacheVectors(w) ==
  /\ At(w, "vectors")
  /\ store' = [store EXCEPT ![Doc(w)].cache = @ \cup {job[w].task.window}]
  /\ Returns(w, "send")
  /\ UNCHANGED <<queue, budget>>

(* processIndexExternal. *)

LoadChunks(w) ==
  /\ At(w, "rows")
  /\ Goto(w, IF store[Doc(w)].rows THEN "cached" ELSE "failed")
  /\ UNCHANGED <<queue, store, budgets>>

\* loadCachedEmbeddingMap, and the vector every loaded chunk must have.
LoadVectors(w) ==
  /\ At(w, "cached")
  /\ Goto(w, IF store[Doc(w)].cache = Chunks THEN "bulk" ELSE "failed")
  /\ UNCHANGED <<queue, store, budgets>>

\* A fault: the answer of the bulk request is not looked at.
IndexChunksUnseen(w) ==
  /\ At(w, "bulk")
  /\ \/ /\ store' = [store EXCEPT ![Doc(w)].searchable = Chunks]
        /\ UNCHANGED failures
     \/ /\ \E S \in SUBSET Chunks : store' = [store EXCEPT ![Doc(w)].searchable = @ \cup S]
        /\ Failure
  /\ Goto(w, "bulkEvidence")
  /\ UNCHANGED <<queue, budget>>

\* The bulk request; a failed one may have written some of the chunks.
IndexChunks(w) ==
  /\ At(w, "bulk")
  /\ \/ /\ store' = [store EXCEPT ![Doc(w)].searchable = Chunks]
        /\ Goto(w, "bulkEvidence")
        /\ UNCHANGED failures
     \/ /\ \E S \in SUBSET Chunks : store' = [store EXCEPT ![Doc(w)].searchable = @ \cup S]
        /\ Goto(w, "failed")
        /\ Failure
  /\ UNCHANGED <<queue, budget>>

\* indexEvidence sends what ListByVersion finds.
IndexEvidence(w) ==
  /\ At(w, "bulkEvidence")
  /\ store' = [store EXCEPT ![Doc(w)].found = @ \/ store[Doc(w)].evidence]
  /\ Returns(w, "uncache")
  /\ UNCHANGED <<queue, budget>>

\* RemoveObject.
RemoveParsed(w) ==
  /\ At(w, "remove")
  /\ CleanUp(Doc(w), [store[Doc(w)] EXCEPT !.parsed = FALSE])
  /\ Goto(w, "done")
  /\ UNCHANGED <<queue, failures>>

----------------------------------------------------------------------------
(* The hand-over to the next stage, and what can go wrong. *)

\* The task that follows t of document identity v; an index task has none.
Successor(t, v) ==
  IF t.stage = "parse" THEN [stage |-> "chunk", doc |-> v, window |-> 0]
  ELSE IF t.window < NumChunks THEN [stage |-> "embed", doc |-> v, window |-> t.window + 1]
  ELSE [stage |-> "index", doc |-> v, window |-> 0]

Send(w) ==
  /\ At(w, "send")
  /\ Produce(Successor(job[w].task, Doc(w)))
  /\ Goto(w, "done")
  /\ UNCHANGED <<row, newest, store, budgets>>

\* A fault: the error of the producer is not looked at.
SendFailsUnseen(w) ==
  /\ At(w, "send")
  /\ Failure
  /\ Goto(w, "done")
  /\ UNCHANGED <<queue, store, budget>>

\* The producer reports an error, though Kafka may have the message.
SendFails(w) ==
  /\ At(w, "send")
  /\ Failure
  /\ Produce(Successor(job[w].task, Doc(w))) \/ UNCHANGED inbox
  /\ Goto(w, "failed")
  /\ UNCHANGED <<row, newest, store, budget>>

\* The ingestion worker, MySQL, storage, Redis or a search index refuses, and
\* the handler returns the error.
ServiceFails(w) ==
  /\ job[w].step \in {"version", "store", "read", "evidence", "create", "window", "vectors",
                      "rows", "cached", "bulkEvidence"}
  /\ Failure
  /\ Goto(w, "failed")
  /\ UNCHANGED <<queue, store, budget>>

\* The process dies or loses its partition; the message is delivered again.
Crash(w) ==
  /\ ~At(w, "idle")
  /\ Disturb
  /\ job' = [job EXCEPT ![w] = NoJob]
  /\ UNCHANGED <<queue, store, failures>>

\* A message is produced or delivered once more, while it is there.
Duplicate ==
  /\ Disturb
  /\ \E t \in Task : inbox[t] > 0 /\ Produce(t)
  /\ UNCHANGED <<row, newest, job, store, failures>>

\* The embedding cache reaches its time to live.
CacheExpires ==
  /\ Disturb
  /\ \E v \in Identities : /\ store[v].cache # {}
                           /\ store' = [store EXCEPT ![v].cache = {}]
  /\ UNCHANGED <<queue, job, failures>>

\* ReplayPipelineTask of a dead letter.
Replay ==
  /\ Disturb
  /\ \E k \in Keys : /\ row[k].status = "DEAD"
                     /\ row' = [row EXCEPT ![k].status = "PENDING"]
                     /\ Produce(k)
  /\ UNCHANGED <<newest, job, store, failures>>

----------------------------------------------------------------------------
Work(w) ==
  \/ Begin(w) \/ Skip(w) \/ Succeed(w) \/ HandOff(w)
  \/ EnsureVersion(w) \/ StoreParsed(w)
  \/ ReadParsed(w) \/ ReplaceEvidence(w) \/ DeleteChunks(w) \/ DropCache(w) \/ CreateChunks(w)
  \/ LoadWindow(w) \/ CacheVectors(w)
  \/ LoadChunks(w) \/ LoadVectors(w) \/ IndexChunks(w) \/ IndexEvidence(w) \/ RemoveParsed(w)
  \/ Send(w)

Next ==
  \/ \E w \in Workers : Work(w) \/ SendFails(w) \/ ServiceFails(w) \/ Crash(w)
  \/ Duplicate \/ CacheExpires \/ Replay

Spec == Init /\ [][Next]_vars

\* Consumers run in loops.
FairSpec == Spec /\ \A w \in Workers : WF_vars(Work(w))

----------------------------------------------------------------------------
\* aggregatePipelineStage.
StageStatus(tasks) ==
  LET seen == {row[k].status : k \in tasks} \ {"ABSENT"} IN
  IF "PROCESSING" \in seen THEN "PROCESSING"
  ELSE IF seen \cap {"FAILED", "DEAD"} # {} THEN "FAILED"
  ELSE IF seen = {"SUCCESS"} THEN "SUCCESS" ELSE "PENDING"

\* AggregatePipelineStatus: the rows of the newest version, and the parse row
\* that is kept under upload:<md5>.
IsSearchable ==
  \A stage \in {"parse", "chunk", "embed", "index"} :
    StageStatus({k \in Keys : /\ k.stage = stage
                              /\ k.doc = newest \/ newest = "unset" \/ stage = "parse"}) = "SUCCESS"

TypeOK ==
  /\ inbox \in [Task -> Nat]
  /\ row \in [Keys -> [status : Status, retries : Nat]]
  /\ newest \in Identities \cup {"unset"}
  /\ job \in [Workers -> Job \cup {NoJob}]
  /\ store \in [Identities -> Artifacts]
  /\ failures \in 0 .. MaxFailures
  /\ budget \in 0 .. MaxDisturbances

Quiet == \A t \in Task : inbox[t] = 0

\* What the status page calls searchable is: all chunks and the evidence of the
\* newest version are in the indices, although duplicated, redelivered and
\* replayed stages delete and rebuild its rows and its cache meanwhile.
SearchableIsIndexed ==
  IsSearchable => store[newest].found /\ store[newest].searchable = Chunks

\* The successor of task k under identity v was sent, or the tracker knows it.
Passed(k, v) ==
  LET s == Successor(k, v) IN row[s].status # "ABSENT" \/ inbox[s] > 0

\* No stage drops the document: a task the tracker knows is dead-lettered, or a
\* message of it is left, or it succeeded and its successor is known or sent.
EveryTaskIsCarriedOn ==
  \A k \in Keys :
    \/ row[k].status \in {"ABSENT", "DEAD"}
    \/ \E t \in Task : Key(t) = k /\ inbox[t] > 0
    \/ row[k].status = "SUCCESS" /\ (k.stage = "index" \/ \E v \in Identities : Passed(k, v))

\* The pipeline comes to rest, and then the document is indexed or one of its
\* tasks is a dead letter an administrator sees.
EventuallyFinished ==
  <>[](Quiet /\ \E k \in Keys : \/ row[k].status = "DEAD"
                                \/ k.stage = "index" /\ row[k].status = "SUCCESS")

\* Redelivery is safe: as long as no service fails, a document that is in the
\* indices is not reported as a dead letter of its index stage.
RedeliveryIsSafe ==
  failures = MaxFailures =>
    \A v \in Identities :
      (store[v].found /\ store[v].searchable = Chunks)
        => row[[stage |-> "index", doc |-> v, window |-> 0]].status # "DEAD"

\* Retries and replays must not duplicate index documents: whatever identities the
\* attempts of a document worked under, its chunks are in the search index under one.
\* It rests on a retried parse task, whose identity has no version row, being stopped
\* by the foreign key of the evidence.
IndexedUnderOneIdentity ==
  store["sha"].searchable = {} \/ store["upload"].searchable = {}
==============================================================================
