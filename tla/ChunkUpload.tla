------------------------------ MODULE ChunkUpload ------------------------------
(***************************************************************************)
(* upload_service.go: one content (file_md5) uploaded in chunks by several *)
(* users.  Chunk objects, chunk_info rows and the merged object belong to  *)
(* the content and are shared; the file_upload row and the Redis bitmap    *)
(* belong to a user.  A request is a goroutine whose calls to MySQL, Redis *)
(* and MinIO are separate steps.  Every client sends the true bytes:       *)
(* requests refused by the checks of their arguments change nothing.       *)
(***************************************************************************)
EXTENDS Integers, FiniteSets

CONSTANTS
  Users,            \* owners of uploads of the content
  Requests,         \* request goroutines of the servers
  NoUser,
  NumChunks,        \* calculateTotalChunks of the content
  MaxRequests,      \* bound on the requests clients send
  MaxDisturbances   \* bound on failures, crashes, lost objects and lost keys

ASSUME UploadAssumption ==
  /\ NumChunks \in Nat \ {0}
  /\ MaxRequests \in Nat \ {0}
  /\ MaxDisturbances \in Nat
  /\ NoUser \notin Users

Chunks == 0 .. NumChunks - 1

VARIABLES
  upload,     \* file_upload: id and status of each user's row
  ids,        \* AUTO_INCREMENT of file_upload
  rows,       \* chunk_info: indices with a row
  objects,    \* chunk objects in storage
  marks,      \* Redis bitmap of each user
  merged,     \* chunks the merged object was composed of; {} is no object
  outbox,     \* publication status of the content's initial parse task; what
              \* becomes of it after "pending" is not this module's
  clearing,   \* users whose DeleteUploadMark goroutine has not run yet
  req,        \* req[h]: what request h works on, and its step
  requests,   \* requests that may still be sent
  budget      \* disturbances that may still happen

content == <<rows, objects, merged>>
bounds == <<requests, budget>>
uploadVars == <<upload, ids, content, marks, outbox, clearing, req, bounds>>

NoUpload == [id |-> 0, status |-> "none"]

\* id: the record a merge or a deletion read; marked: IsChunkUploaded of the
\* chunk; sources: the chunk records a merge composes.
Idle == [step |-> "idle", user |-> NoUser, chunk |-> 0, id |-> 0, marked |-> FALSE, sources |-> {}]

ChunkSteps == {"create", "bit", "row", "put", "upsert", "insert", "mark", "report"}
MergeSteps == {"gather", "verify", "select", "compose", "commit"}

UploadInit ==
  /\ upload = [u \in Users |-> NoUpload]
  /\ ids = 0
  /\ rows = {} /\ objects = {} /\ merged = {}
  /\ marks = [u \in Users |-> {}]
  /\ outbox = "none"
  /\ clearing = {}
  /\ req = [h \in Requests |-> Idle]

Disturb == budget > 0 /\ budget' = budget - 1

At(h, step) == req[h].step = step
Goto(h, step) == req' = [req EXCEPT ![h].step = step]
Reply(h) == req' = [req EXCEPT ![h] = Idle]

\* A client sends a request that a free goroutine takes.
Accept(h, r) ==
  /\ At(h, "idle")
  /\ requests > 0
  /\ requests' = requests - 1
  /\ req' = [req EXCEPT ![h] = r]

----------------------------------------------------------------------------
(* UploadChunk. *)

\* A fault: the index is not compared with the number of chunks.
StartChunkBeyond(h) ==
  \E u \in Users, i \in 0 .. NumChunks :
    /\ Accept(h, [Idle EXCEPT !.step = IF upload[u] = NoUpload THEN "create" ELSE "bit",
                              !.user = u, !.chunk = i])
    /\ UNCHANGED <<upload, ids, content, marks, outbox, clearing, budget>>

StartChunk(h) ==
  \E u \in Users, i \in Chunks :
    /\ Accept(h, [Idle EXCEPT !.step = IF upload[u] = NoUpload THEN "create" ELSE "bit",
                              !.user = u, !.chunk = i])
    /\ UNCHANGED <<upload, ids, content, marks, outbox, clearing, budget>>

\* CreateFileUploadRecord; a second row of a user violates uk_md5_user.
CreateRecord(h) ==
  LET u == req[h].user IN
  /\ At(h, "create")
  /\ IF upload[u] = NoUpload
     THEN /\ ids' = ids + 1
          /\ upload' = [upload EXCEPT ![u] = [id |-> ids + 1, status |-> "uploading"]]
          /\ Goto(h, "bit")
     ELSE Reply(h) /\ UNCHANGED <<upload, ids>>
  /\ UNCHANGED <<content, marks, outbox, clearing, bounds>>

\* IsChunkUploaded.
ReadBit(h) ==
  /\ At(h, "bit")
  /\ req' = [req EXCEPT ![h].step = "row", ![h].marked = req[h].chunk \in marks[req[h].user]]
  /\ UNCHANGED <<upload, ids, content, marks, outbox, clearing, bounds>>

\* GetChunkInfoRecord and isChunkObjectReusable.  A row without its object
\* ends the request: err is still nil where the code asks for "not found".
ReadRow(h) ==
  LET i == req[h].chunk IN
  /\ At(h, "row")
  /\ \/ i \notin rows /\ Goto(h, "put")
     \/ i \in rows \cap objects /\ Goto(h, IF req[h].marked THEN "report" ELSE "mark")
     \/ i \in rows \ objects /\ Reply(h)
  /\ UNCHANGED <<upload, ids, content, marks, outbox, clearing, bounds>>

\* A fault: the metadata is written before the object.
PutChunkUnwritten(h) ==
  /\ At(h, "put")
  /\ Goto(h, "upsert")
  /\ UNCHANGED <<upload, ids, content, marks, outbox, clearing, bounds>>

\* PutObject and verifyChunkObjectMD5.
PutChunk(h) ==
  /\ At(h, "put")
  /\ objects' = objects \cup {req[h].chunk}
  /\ Goto(h, "upsert")
  /\ UNCHANGED <<upload, ids, rows, merged, marks, outbox, clearing, bounds>>

\* UpsertChunkInfoRecord looks for the row; an existing one is saved again.
Upsert(h) ==
  /\ At(h, "upsert")
  /\ Goto(h, IF req[h].chunk \in rows THEN "mark" ELSE "insert")
  /\ UNCHANGED <<upload, ids, content, marks, outbox, clearing, bounds>>

\* Its Create; a second row of a chunk violates uk_chunk_file_index.
InsertRow(h) ==
  /\ At(h, "insert")
  /\ rows' = rows \cup {req[h].chunk}
  /\ IF req[h].chunk \in rows THEN Reply(h) ELSE Goto(h, "mark")
  /\ UNCHANGED <<upload, ids, objects, merged, marks, outbox, clearing, bounds>>

MarkChunk(h) ==
  /\ At(h, "mark")
  /\ marks' = [marks EXCEPT ![req[h].user] = @ \cup {req[h].chunk}]
  /\ Goto(h, "report")
  /\ UNCHANGED <<upload, ids, content, outbox, clearing, bounds>>

\* The bitmap after getUploadedChunks: only an empty one is rebuilt from rows.
Uploaded(u) == IF marks[u] = {} THEN rows ELSE marks[u]

ReportChunks(h) ==
  /\ At(h, "report")
  /\ marks' = [marks EXCEPT ![req[h].user] = Uploaded(req[h].user)]
  /\ Reply(h)
  /\ UNCHANGED <<upload, ids, content, outbox, clearing, bounds>>

\* CheckFile and GetUploadStatus.
CheckFile(u) ==
  /\ upload[u].status # "none"
  /\ marks' = [marks EXCEPT ![u] = Uploaded(u)]
  /\ UNCHANGED <<upload, ids, content, outbox, clearing, req, bounds>>

----------------------------------------------------------------------------
(* MergeChunks. *)

StartMerge(h) ==
  \E u \in Users :
    /\ upload[u] # NoUpload
    /\ Accept(h, [Idle EXCEPT !.step = "gather", !.user = u, !.id = upload[u].id])
    /\ UNCHANGED <<upload, ids, content, marks, outbox, clearing, budget>>

\* getUploadedChunks must find every chunk.
GatherChunks(h) ==
  LET u == req[h].user IN
  /\ At(h, "gather")
  /\ marks' = [marks EXCEPT ![u] = Uploaded(u)]
  /\ IF Uploaded(u) = Chunks THEN Goto(h, "verify") ELSE Reply(h)
  /\ UNCHANGED <<upload, ids, content, outbox, clearing, bounds>>

\* A fault: the bitmap is believed.
IntactBelieved == TRUE

\* verifyAllChunkIntegrity: a row for every chunk and an intact object for every row.
Intact == rows = Chunks /\ rows \subseteq objects

VerifyChunks(h) ==
  /\ At(h, "verify")
  /\ IF Intact THEN Goto(h, "select") ELSE Reply(h)
  /\ UNCHANGED <<upload, ids, content, marks, outbox, clearing, bounds>>

\* GetChunkInfoRecords is asked once more for the objects to compose.
SelectSources(h) ==
  /\ At(h, "select")
  /\ req' = [req EXCEPT ![h].step = "compose", ![h].sources = rows]
  /\ UNCHANGED <<upload, ids, content, marks, outbox, clearing, bounds>>

\* CopyObject or ComposeObject; a missing source is an error, and so is no source.
Compose(h) ==
  LET sources == req[h].sources IN
  /\ At(h, "compose")
  /\ IF sources # {} /\ sources \subseteq objects
     THEN merged' = sources /\ Goto(h, "commit")
     ELSE Reply(h) /\ UNCHANGED merged
  /\ UNCHANGED <<upload, ids, rows, objects, marks, outbox, clearing, bounds>>

\* enqueueInitialTask keeps a publication that was made, and voids a claim.
Enqueued == IF outbox = "published" THEN "published" ELSE "pending"

\* CompleteUploadAndEnqueueInitialTask of the record read at the start.  MySQL
\* may count a row that already had status 1 as not affected.
CommitMerge(h) ==
  LET u == req[h].user
      found == upload[u].id = req[h].id
  IN
  /\ At(h, "commit")
  /\ \/ /\ found
        /\ upload' = [upload EXCEPT ![u].status = "completed"]
        /\ outbox' = Enqueued
        /\ clearing' = clearing \cup {u}
     \/ /\ ~found \/ upload[u].status = "completed"
        /\ UNCHANGED <<upload, outbox, clearing>>
  /\ Reply(h)
  /\ UNCHANGED <<ids, content, marks, bounds>>

\* The goroutine that MergeChunks leaves behind: DeleteUploadMark.
ClearMarks(u) ==
  /\ u \in clearing
  /\ clearing' = clearing \ {u}
  /\ marks' = [marks EXCEPT ![u] = {}]
  /\ UNCHANGED <<upload, ids, content, outbox, req, bounds>>

----------------------------------------------------------------------------
(* What can go wrong. *)

\* MySQL, Redis or MinIO refuses a call and the request ends with the error.
AbortRequest(h) ==
  /\ req[h].step \in ChunkSteps \cup MergeSteps
  /\ Disturb
  /\ Reply(h)
  /\ UNCHANGED <<upload, ids, content, marks, outbox, clearing, requests>>

\* A server dies with all its goroutines.
Crash ==
  /\ Disturb
  /\ req' = [h \in Requests |-> Idle]
  /\ clearing' = {}
  /\ UNCHANGED <<upload, ids, content, marks, outbox, requests>>

\* A chunk object disappears from storage, or the bitmap from Redis.
LoseChunk ==
  /\ Disturb
  /\ \/ \E i \in objects : objects' = objects \ {i} /\ UNCHANGED marks
     \/ \E u \in Users : /\ marks[u] # {}
                         /\ marks' = [marks EXCEPT ![u] = {}]
                         /\ UNCHANGED objects
  /\ UNCHANGED <<upload, ids, rows, merged, outbox, clearing, req, requests>>

HandleChunk(h) ==
  \/ StartChunk(h) \/ CreateRecord(h) \/ ReadBit(h) \/ ReadRow(h) \/ PutChunk(h)
  \/ Upsert(h) \/ InsertRow(h) \/ MarkChunk(h) \/ ReportChunks(h)

HandleMerge(h) ==
  \/ StartMerge(h) \/ GatherChunks(h) \/ VerifyChunks(h) \/ SelectSources(h)
  \/ Compose(h) \/ CommitMerge(h)

UploadStep ==
  \/ \E h \in Requests : HandleChunk(h) \/ HandleMerge(h) \/ AbortRequest(h)
  \/ \E u \in Users : CheckFile(u) \/ ClearMarks(u)
  \/ Crash \/ LoseChunk

----------------------------------------------------------------------------
\* Nothing is recorded that is not there: a chunk with a chunk_info row has its
\* object, and a chunk in a bitmap has its row, whatever requests of several
\* clients overlap, fail or die, as long as no object was lost and no document
\* deleted.
RecordedIsStored(lost, deleted) ==
  /\ lost \/ rows \subseteq objects
  /\ deleted \/ \A u \in Users : marks[u] \subseteq rows
==============================================================================
