-------------------------- MODULE DocumentLifecycle --------------------------
(***************************************************************************)
(* An uploaded content from its first chunk to its deletion: ChunkUpload,  *)
(* the dispatchers that publish its parse task, the four stages with the   *)
(* built-in parser (Tika) and embedding client, and DeleteDocument, which  *)
(* removes the parts of the document one by one while all of these run.    *)
(* Tracker rows keep only what deletion changes: that they are there and   *)
(* whether they are SUCCESS.  All tasks carry the same document version.   *)
(***************************************************************************)
EXTENDS ChunkUpload, TLC

CONSTANTS
  Admin,            \* a user with role ADMIN
  Dispatchers,      \* RunInitialTaskDispatcher, one per server process
  MaxDeletions      \* bound on deletion requests

\* Publication status of the row of the outbox; a claimed row has the name of the
\* dispatcher whose claim it was.
OutboxStatus == {"none", "pending", "published"}

ASSUME LifecycleAssumption ==
  /\ Admin \notin Users \cup {NoUser}
  /\ Dispatchers \cap OutboxStatus = {}
  /\ MaxDeletions \in Nat

Stages == {"parse", "chunk", "embed", "index"}

VARIABLES
  messages,    \* stages with an uncommitted message in Kafka
  tracked,     \* pipeline_task: ABSENT, OPEN, SUCCESS or DEAD for each stage
  work,        \* stage and step of the consumer
  artifacts,   \* which derived artifacts of the document exist
  dispatch,    \* where each dispatcher stands with the task it claimed
  deletions,   \* deletions that may still be requested
  horizon,     \* id of the newest record when a deletion last made a step
  seen         \* which of the events of Events have happened

stageVars == <<messages, tracked, work, artifacts, dispatch>>
vars == <<uploadVars, stageVars, deletions, horizon, seen>>

\* parsed: the object parsed/<md5>.json; vectors: document_vectors; cache: the
\* embeddings in Redis; searchable: chunks in the search index.
Artifacts == {"parsed", "vectors", "cache", "searchable"}

\* lost: a chunk object disappeared; raced: a deletion ran while a request, a
\* stage task or the publication of the parse task was under way; halted: a
\* deletion ended before its last step; overtaken: a merge that had started
\* before a deletion composed too few chunks.
Events == {"lost", "raced", "halted", "overtaken"}

NoWork == [stage |-> "none", step |-> "idle"]

WorkSteps == {"idle", "read", "clear", "create", "load", "hset", "rows", "bulk", "cleanup",
              "send", "done", "failed"}

DeleteSteps == {"es", "vectors", "chunks", "tasks", "mark.del", "object", "record"}

DispatchSteps == {"idle", "claimed", "sent", "refused"}

NoTasks == [s \in Stages |-> "ABSENT"]

NothingElse ==
  /\ messages = {}
  /\ work = NoWork
  /\ dispatch = [d \in Dispatchers |-> "idle"]
  /\ horizon = 0
  /\ seen = {}

\* Nothing was uploaded yet.
InitEmpty == UploadInit /\ tracked = NoTasks /\ artifacts = {} /\ NothingElse

\* A user uploaded every chunk of the content.
HasUploaded(u, status) ==
  /\ upload = [v \in Users |-> IF v = u THEN [id |-> 1, status |-> status] ELSE NoUpload]
  /\ ids = 1
  /\ rows = Chunks /\ objects = Chunks
  /\ clearing = {}
  /\ req = [h \in Requests |-> Idle]
  /\ NothingElse

\* None is merged yet.
InitUploaded ==
  /\ \E u \in Users : /\ HasUploaded(u, "uploading")
                       /\ marks = [v \in Users |-> IF v = u THEN Chunks ELSE {}]
  /\ merged = {} /\ outbox = "none" /\ tracked = NoTasks /\ artifacts = {}

\* They are merged, and all stages have processed the document.
InitIndexed ==
  /\ \E u \in Users : HasUploaded(u, "completed")
  /\ marks = [v \in Users |-> {}]
  /\ merged = Chunks /\ outbox = "published"
  /\ tracked = [s \in Stages |-> "SUCCESS"]
  /\ artifacts = {"parsed", "vectors", "searchable"}

\* How many requests, disturbances and deletions a behaviour may meet.
Meets(r, d, n) == requests = r /\ budget = d /\ deletions = n

\* The beginnings share the bounds between them.
Init ==
  \/ InitEmpty /\ Meets(MaxRequests, MaxDisturbances, 0)
  \/ InitUploaded /\ Meets(MaxRequests - 1, MaxDisturbances, 0)
  \/ (InitEmpty \/ InitIndexed) /\ Meets(MaxRequests, 0, MaxDeletions)
  \/ InitIndexed /\ Meets(1, MaxDisturbances, MaxDeletions)

----------------------------------------------------------------------------
(* Publication of the parse task: dispatchInitialTasksOnce.  A dispatcher   *)
(* claims up to 20 rows and then sends one after the other, so that it may  *)
(* hold a copy of the task for a long time; InitialOutbox has the batches,  *)
(* attempts and leases in detail.                                           *)

DispatcherAt(d, step) == dispatch[d] = step
Advance(d, step) == dispatch' = [dispatch EXCEPT ![d] = step]

\* ClaimPendingInitialTasks: the row is pending, or an earlier claim has run out, which
\* is a disturbance while its dispatcher is still at work.
Claim(d) ==
  /\ DispatcherAt(d, "idle")
  /\ \/ outbox = "pending" /\ UNCHANGED budget
     \/ \E e \in Dispatchers :
          /\ outbox = e
          /\ IF DispatcherAt(e, "idle") THEN UNCHANGED budget ELSE Disturb
  /\ outbox' = d
  /\ Advance(d, "claimed")
  /\ UNCHANGED <<upload, ids, content, marks, clearing, req, requests,
                 messages, tracked, work, artifacts, deletions>>

\* The copy is sent, whatever has become of its row: a merge may have made the row
\* pending again, a deletion may have removed it.
Send(d) ==
  /\ DispatcherAt(d, "claimed")
  /\ messages' = messages \cup {"parse"}
  /\ Advance(d, "sent")
  /\ UNCHANGED <<uploadVars, tracked, work, artifacts, deletions>>

\* The producer returns an error; the broker may have the message.
SendFails(d) ==
  /\ DispatcherAt(d, "claimed")
  /\ Disturb
  /\ messages' \in {messages, messages \cup {"parse"}}
  /\ Advance(d, "refused")
  /\ UNCHANGED <<upload, ids, content, marks, outbox, clearing, req, requests,
                 tracked, work, artifacts, deletions>>

\* MarkInitialTaskPublished and MarkInitialTaskPublicationFailed: only a row that is
\* still there and carries this claim is updated.
Mark(d) ==
  /\ dispatch[d] \in {"sent", "refused"}
  /\ outbox' = IF outbox # d THEN outbox
               ELSE IF DispatcherAt(d, "sent") THEN "published" ELSE "pending"
  /\ Advance(d, "idle")
  /\ UNCHANGED <<upload, ids, content, marks, clearing, req, bounds,
                 messages, tracked, work, artifacts, deletions>>

\* A database error or the end of the process: the claim runs out.
GiveUpClaim(d) ==
  /\ ~DispatcherAt(d, "idle")
  /\ Disturb
  /\ Advance(d, "idle")
  /\ UNCHANGED <<upload, ids, content, marks, outbox, clearing, req, requests,
                 messages, tracked, work, artifacts, deletions>>

PublishOutbox ==
  \E d \in Dispatchers : Claim(d) \/ Send(d) \/ SendFails(d) \/ Mark(d) \/ GiveUpClaim(d)

----------------------------------------------------------------------------
(* The stages: processParse, processChunk, processEmbed, processIndex. *)

FirstStep == [parse |-> "read", chunk |-> "clear", embed |-> "load", index |-> "rows"]

\* processStageMessage: only a task that is SUCCESS is skipped.
Deliver ==
  \E s \in messages :
    /\ work = NoWork
    /\ \/ /\ tracked[s] = "SUCCESS"
          /\ messages' = messages \ {s}
          /\ UNCHANGED <<tracked, work>>
       \/ /\ tracked[s] # "SUCCESS"
          /\ tracked' = [tracked EXCEPT ![s] = "OPEN"]
          /\ work' = [stage |-> s, step |-> FirstStep[s]]
          /\ UNCHANGED messages
    /\ UNCHANGED <<uploadVars, artifacts, dispatch, deletions>>

\* A step of the running stage: when what it needs is there it leaves artifacts
\* and goes on, otherwise the handler returns an error.
StageStep(step, needs, result, next) ==
  /\ work.step = step
  /\ \/ needs /\ artifacts' = result /\ work' = [work EXCEPT !.step = next]
     \/ ~needs /\ work' = [work EXCEPT !.step = "failed"] /\ UNCHANGED artifacts
  /\ UNCHANGED <<uploadVars, messages, tracked, dispatch, deletions>>

\* The merged object is downloaded, parsed and stored as text.
ParseDocument == StageStep("read", merged # {}, artifacts \cup {"parsed"}, "send")

\* The parsed text is read and split; chunks of an earlier run are cleared.
ClearChunks == StageStep("clear", "parsed" \in artifacts, artifacts \ {"vectors", "cache"}, "create")
CreateChunks == StageStep("create", TRUE, artifacts \cup {"vectors"}, "send")

\* findVectorRange, then the embeddings of the window go to Redis.
LoadWindow == StageStep("load", "vectors" \in artifacts, artifacts, "hset")
CacheVectors == StageStep("hset", TRUE, artifacts \cup {"cache"}, "send")

\* findVectors and loadCachedEmbeddingMap, then the bulk requests.
LoadDocuments == StageStep("rows", {"vectors", "cache"} \subseteq artifacts, artifacts, "bulk")
IndexDocuments == StageStep("bulk", TRUE, artifacts \cup {"searchable"}, "cleanup")

\* The cache goes; the object that is removed is named after the version and is
\* not the one processParse stored.
CleanUpIndex == StageStep("cleanup", TRUE, artifacts \ {"cache"}, "done")

NextStage == [parse |-> "chunk", chunk |-> "embed", embed |-> "index"]

SendNext ==
  /\ work.step = "send"
  /\ messages' = messages \cup {NextStage[work.stage]}
  /\ work' = [work EXCEPT !.step = "done"]
  /\ UNCHANGED <<uploadVars, tracked, artifacts, dispatch, deletions>>

\* MarkSuccessByKey, which creates a row that was deleted anew, and the commit.
SucceedTask ==
  /\ work.step = "done"
  /\ tracked' = [tracked EXCEPT ![work.stage] = "SUCCESS"]
  /\ messages' = messages \ {work.stage}
  /\ work' = NoWork
  /\ UNCHANGED <<uploadVars, artifacts, dispatch, deletions>>

\* MarkRetryByKey or MarkDeadLetterByKey; StageConsumer has the hand-off in detail.
FailTask ==
  /\ work.step = "failed"
  /\ \/ tracked' = [tracked EXCEPT ![work.stage] = "OPEN"] /\ UNCHANGED messages
     \/ /\ tracked' = [tracked EXCEPT ![work.stage] = "DEAD"]
        /\ messages' = messages \ {work.stage}
  /\ work' = NoWork
  /\ UNCHANGED <<uploadVars, artifacts, dispatch, deletions>>

\* The consumer dies or a service refuses; the message is delivered again.
WorkerFails ==
  /\ work # NoWork
  /\ Disturb
  /\ work' = NoWork
  /\ UNCHANGED <<upload, ids, content, marks, outbox, clearing, req, requests,
                 messages, tracked, artifacts, dispatch, deletions>>

Process ==
  \/ Deliver \/ ParseDocument \/ ClearChunks \/ CreateChunks \/ LoadWindow \/ CacheVectors
  \/ LoadDocuments \/ IndexDocuments \/ CleanUpIndex \/ SendNext \/ SucceedTask \/ FailTask

----------------------------------------------------------------------------
(* DeleteDocument. *)

\* GetFileUploadRecordByMD5: the row with the lowest id.
IsFirstRecord(u) ==
  upload[u] # NoUpload /\ \A v \in Users : upload[v] # NoUpload => upload[u].id <= upload[v].id

\* Only the owner of that row or an administrator may delete.
StartDelete(h) ==
  \E caller \in Users \cup {Admin}, owner \in Users :
    /\ IsFirstRecord(owner)
    /\ caller \in {owner, Admin}
    /\ At(h, "idle")
    /\ deletions > 0
    /\ deletions' = deletions - 1
    /\ req' = [req EXCEPT ![h] = [Idle EXCEPT !.step = "es", !.user = caller, !.id = upload[owner].id]]
    /\ UNCHANGED <<upload, ids, content, marks, outbox, clearing, bounds, stageVars>>

\* A fault: what the search index answers is not looked at.
DeleteFromIndexUnseen(h) ==
  /\ At(h, "es")
  /\ artifacts' \in {artifacts, artifacts \ {"searchable"}}
  /\ Goto(h, "vectors")
  /\ UNCHANGED <<upload, ids, content, marks, outbox, clearing, bounds,
                 messages, tracked, work, dispatch, deletions>>

\* An error of the first four removals ends the deletion.
DeleteFromIndex(h) ==
  /\ At(h, "es")
  /\ artifacts' = artifacts \ {"searchable"}
  /\ Goto(h, "vectors")
  /\ UNCHANGED <<upload, ids, content, marks, outbox, clearing, bounds,
                 messages, tracked, work, dispatch, deletions>>

DeleteVectors(h) ==
  /\ At(h, "vectors")
  /\ artifacts' = artifacts \ {"vectors"}
  /\ Goto(h, "chunks")
  /\ UNCHANGED <<upload, ids, content, marks, outbox, clearing, bounds,
                 messages, tracked, work, dispatch, deletions>>

\* DeleteChunkInfoByFileMD5; the chunk objects stay.
DeleteChunkRows(h) ==
  /\ At(h, "chunks")
  /\ rows' = {}
  /\ Goto(h, "tasks")
  /\ UNCHANGED <<upload, ids, objects, merged, marks, outbox, clearing, bounds, stageVars, deletions>>

\* A fault: the rows of the stages are kept.
DeleteTasksKept(h) ==
  /\ At(h, "tasks")
  /\ outbox' = "none"
  /\ Goto(h, "mark.del")
  /\ UNCHANGED <<upload, ids, content, marks, clearing, bounds, stageVars, deletions>>

\* DeleteByFileMD5 of the tracker, the row of the outbox with it.
DeleteTasks(h) ==
  /\ At(h, "tasks")
  /\ tracked' = NoTasks
  /\ outbox' = "none"
  /\ Goto(h, "mark.del")
  /\ UNCHANGED <<upload, ids, content, marks, clearing, bounds,
                 messages, work, artifacts, dispatch, deletions>>

\* DeleteUploadMark for the owner of the record only; its error is ignored.
\* The cache key that is deleted is that of tasks without a version.
DeleteMark(h) ==
  /\ At(h, "mark.del")
  /\ marks' = [u \in Users |-> IF upload[u].id = req[h].id THEN {} ELSE marks[u]]
  /\ Goto(h, "object")
  /\ UNCHANGED <<upload, ids, content, outbox, clearing, bounds, stageVars, deletions>>

\* RemoveObject of the merged object; the name of the parsed object matches none.
DeleteObject(h) ==
  /\ At(h, "object")
  /\ merged' = {}
  /\ Goto(h, "record")
  /\ UNCHANGED <<upload, ids, rows, objects, marks, outbox, clearing, bounds, stageVars, deletions>>

\* DeleteFileUploadRecord or, for an administrator, DeleteFileUploadRecordByMD5.
DeleteRecord(h) ==
  /\ At(h, "record")
  /\ upload' = [u \in Users |-> IF req[h].user \in {u, Admin} THEN NoUpload ELSE upload[u]]
  /\ Reply(h)
  /\ UNCHANGED <<ids, content, marks, outbox, clearing, bounds, stageVars, deletions>>

\* A removal whose error the code ignores does nothing.
RemovalIgnored(h) ==
  /\ Disturb
  /\ \/ At(h, "mark.del") /\ Goto(h, "object")
     \/ At(h, "object") /\ Goto(h, "record")
  /\ UNCHANGED <<upload, ids, content, marks, outbox, clearing, requests, stageVars, deletions>>

AbortDelete(h) ==
  /\ req[h].step \in DeleteSteps
  /\ Disturb
  /\ Reply(h)
  /\ UNCHANGED <<upload, ids, content, marks, outbox, clearing, requests, stageVars, deletions>>

Delete(h) ==
  \/ StartDelete(h) \/ DeleteFromIndex(h) \/ DeleteVectors(h) \/ DeleteChunkRows(h)
  \/ DeleteTasks(h) \/ DeleteMark(h) \/ DeleteObject(h) \/ DeleteRecord(h)
  \/ RemovalIgnored(h) \/ AbortDelete(h)

----------------------------------------------------------------------------
Deleting == \E h \in Requests : req[h].step \in DeleteSteps
Busy ==
  \/ \E h, g \in Requests : h # g /\ ~At(h, "idle") /\ req[g].step \in DeleteSteps
  \/ Deleting /\ (clearing # {} \/ messages # {} \/ work # NoWork)
  \/ Deleting /\ \E d \in Dispatchers : DispatcherAt(d, "claimed")

Halts == \E h \in Requests : req[h].step \in DeleteSteps \ {"record"} /\ req'[h] = Idle
Overtaken == \E h \in Requests :
               /\ At(h, "compose") /\ req[h].id <= horizon /\ req[h].sources # Chunks
               /\ req'[h] # req[h]

\* What the properties must know of the past.
Observe ==
  /\ horizon' = IF Deleting THEN ids ELSE horizon
  /\ seen' = seen \cup (IF objects \subseteq objects' THEN {} ELSE {"lost"})
                  \cup (IF Busy THEN {"raced"} ELSE {})
                  \cup (IF Halts THEN {"halted"} ELSE {})
                  \cup (IF Overtaken THEN {"overtaken"} ELSE {})

Next ==
  /\ \/ UploadStep /\ UNCHANGED <<stageVars, deletions>>
     \/ PublishOutbox \/ Process \/ WorkerFails
     \/ \E h \in Requests : Delete(h)
  /\ Observe

Spec == Init /\ [][Next]_vars

----------------------------------------------------------------------------
Record == [step : {"idle"} \cup ChunkSteps \cup MergeSteps \cup DeleteSteps,
           user : Users \cup {Admin, NoUser}, chunk : Chunks, id : 0 .. ids,
           marked : BOOLEAN, sources : SUBSET Chunks]

TypeOK ==
  /\ ids \in Nat
  /\ upload \in [Users -> [id : 0 .. ids, status : {"none", "uploading", "completed"}]]
  /\ rows \subseteq Chunks /\ objects \subseteq Chunks /\ merged \subseteq Chunks
  /\ marks \in [Users -> SUBSET Chunks]
  /\ outbox \in OutboxStatus \cup Dispatchers
  /\ clearing \subseteq Users
  /\ req \in [Requests -> Record]
  /\ requests \in 0 .. MaxRequests /\ budget \in 0 .. MaxDisturbances
  /\ messages \subseteq Stages
  /\ tracked \in [Stages -> {"ABSENT", "OPEN", "SUCCESS", "DEAD"}]
  /\ work \in [stage : Stages \cup {"none"}, step : WorkSteps]
  /\ artifacts \subseteq Artifacts
  /\ dispatch \in [Dispatchers -> DispatchSteps]
  /\ deletions \in 0 .. MaxDeletions
  /\ horizon \in 0 .. ids
  /\ seen \subseteq Events

UploadedIsStored == RecordedIsStored("lost" \in seen, horizon > 0)

\* Completed uploads whose record is younger than all deletions.
Completed == {u \in Users : upload[u].status = "completed" /\ upload[u].id > horizon}

\* A completed upload has a merged object of all chunks, although chunks can
\* disappear, bitmaps can be wrong and merges can overlap with uploads and with
\* each other.  Only a merge that verified its chunks before a deletion and read
\* their records after it can shorten the object again (see README).
CompletedIsWhole == Completed # {} /\ "overtaken" \notin seen => merged = Chunks

\* A deletion that fails half way can be repeated: as long as anything of the
\* document is found by search, stored as chunks or tracked, a file_upload row
\* leads to it, unless a request or a stage task ran during a deletion, or a
\* dispatcher held the parse task then and could send it afterwards.
LeftoversHaveARecord ==
  \/ "raced" \in seen
  \/ \E u \in Users : upload[u] # NoUpload
  \/ /\ artifacts \cap {"searchable", "vectors"} = {}
     /\ rows = {}
     /\ tracked = NoTasks /\ outbox = "none"

\* A completed upload is on its way, searchable or dead-lettered, also when the
\* same content was uploaded, indexed and deleted before: a deletion that ends
\* and that nothing overlaps leaves no row that would hold the new tasks back.
CompletedIsPursued ==
  Completed # {} /\ seen \cap {"raced", "halted"} = {} =>
    \/ outbox \in {"pending"} \cup Dispatchers \/ messages # {}
    \/ "searchable" \in artifacts
    \/ \E s \in Stages : tracked[s] = "DEAD"

\* Requests, users and dispatchers are interchangeable.
Symmetry == Permutations(Requests) \cup Permutations(Users) \cup Permutations(Dispatchers)
==============================================================================
