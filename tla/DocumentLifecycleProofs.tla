---------------------- MODULE DocumentLifecycleProofs ----------------------
(* Proofs about DocumentLifecycle, for any users, requests, number of chunks    *)
(* and bounds.                                                                  *)
EXTENDS DocumentLifecycle, TLAPS

\* The requests of UploadChunk and MergeChunks belong to a user.
RequestsFit == \A h \in Requests : req[h].step \in ChunkSteps \cup MergeSteps => req[h].user \in Users

\* The step of the consumer belongs to its stage.
WorkFits ==
  /\ work.step = "read" => work.stage = "parse"
  /\ work.step \in {"clear", "create"} => work.stage = "chunk"
  /\ work.step \in {"load", "hset"} => work.stage = "embed"
  /\ work.step = "send" => work.stage \in {"parse", "chunk", "embed"}

\* A record has an id that was handed out, and so have a merge and a deletion.
RecordsHaveIds ==
  /\ \A u \in Users : upload[u] # NoUpload => upload[u].id > 0
  /\ \A h \in Requests : req[h].step \in MergeSteps => req[h].id > 0
  /\ Deleting => ids > 0

\* What is recorded is stored, also by the requests about to record it.
RowsAreStored ==
  \/ "lost" \in seen
  \/ /\ rows \subseteq objects
     /\ \A h \in Requests : req[h].step \in {"upsert", "insert"} => req[h].chunk \in objects

MarksAreRecorded ==
  \/ horizon > 0
  \/ /\ \A u \in Users : marks[u] \subseteq rows
     /\ \A h \in Requests : req[h].step = "mark" => req[h].chunk \in rows

\* A merge that no deletion has overtaken has every chunk at each of its steps.
MergesAreWhole ==
  \A h \in Requests : req[h].id > horizon /\ "overtaken" \notin seen =>
    /\ req[h].step = "select" => rows = Chunks
    /\ req[h].step = "compose" => req[h].sources = Chunks
    /\ req[h].step = "commit" => merged = Chunks

Typed == TypeOK /\ RequestsFit /\ WorkFits

LifecycleInv ==
  /\ Typed
  /\ RecordsHaveIds
  /\ RowsAreStored
  /\ MarksAreRecorded
  /\ MergesAreWhole
  /\ CompletedIsWhole

-----------------------------------------------------------------------------
(* Types.                                                                   *)

UploadTypes ==
  /\ ids \in Nat
  /\ upload \in [Users -> [id : 0 .. ids, status : {"none", "uploading", "completed"}]]
  /\ rows \subseteq Chunks /\ objects \subseteq Chunks /\ merged \subseteq Chunks
  /\ marks \in [Users -> SUBSET Chunks]
  /\ outbox \in OutboxStatus \cup Dispatchers
  /\ clearing \subseteq Users
  /\ req \in [Requests -> Record]
  /\ requests \in 0 .. MaxRequests /\ budget \in 0 .. MaxDisturbances

StageTypes ==
  /\ messages \subseteq Stages
  /\ tracked \in [Stages -> {"ABSENT", "OPEN", "SUCCESS", "DEAD"}]
  /\ work \in [stage : Stages \cup {"none"}, step : WorkSteps]
  /\ artifacts \subseteq Artifacts
  /\ dispatch \in [Dispatchers -> DispatchSteps]

SeenTypes == horizon \in 0 .. ids /\ seen \subseteq Events

LEMMA TypesAreParts ==
  TypeOK <=> UploadTypes /\ StageTypes /\ SeenTypes /\ deletions \in 0 .. MaxDeletions
  BY DEF TypeOK, UploadTypes, StageTypes, SeenTypes

\* What a request may become without changing more than its step, or being over.
LEMMA RequestSteps ==
  ASSUME UploadTypes, NEW h \in Requests
  PROVE  /\ Idle \in Record
         /\ req[h] \in Record
         /\ \A step \in {"idle"} \cup ChunkSteps \cup MergeSteps \cup DeleteSteps :
              [req EXCEPT ![h].step = step] \in [Requests -> Record]
         /\ [req EXCEPT ![h] = Idle] \in [Requests -> Record]
  <1>1. 0 \in Chunks
    BY UploadAssumption DEF Chunks
  <1>2. Idle \in Record
    BY <1>1 DEF Idle, Record, UploadTypes
  <1>3. req[h] \in Record
    BY DEF UploadTypes
  <1> QED BY <1>2, <1>3 DEF Record, UploadTypes

\* Requests that only go on or end keep their types and owners.
Moves(h) ==
  \/ Reply(h)
  \/ \E step \in ChunkSteps \cup MergeSteps \cup DeleteSteps :
       /\ Goto(h, step)
       /\ req[h].step \in ChunkSteps \cup MergeSteps \/ step \in DeleteSteps

LEMMA RequestMoves ==
  ASSUME UploadTypes, RequestsFit, NEW h \in Requests, Moves(h)
  PROVE  /\ req' \in [Requests -> Record]
         /\ RequestsFit'
         /\ \A g \in Requests : /\ req'[g].id = req[g].id \/ req'[g].id = 0
                                /\ req'[g] = req[g] \/ req'[g] = Idle
                                   \/ /\ g = h
                                      /\ req'[g] = [req[g] EXCEPT !.step = req'[g].step]
  <1>1. req \in [Requests -> Record]
    BY DEF UploadTypes
  <1>2. "idle" \notin ChunkSteps \cup MergeSteps
        /\ DeleteSteps \intersect (ChunkSteps \cup MergeSteps) = {}
    BY DEF ChunkSteps, MergeSteps, DeleteSteps
  <1>3. CASE req' = [req EXCEPT ![h] = Idle]
    <2>1. req'[h] = Idle /\ \A g \in Requests \ {h} : req'[g] = req[g]
      BY <1>1, <1>3
    <2>2. Idle.step = "idle" /\ Idle.id = 0
      BY DEF Idle
    <2> QED BY <1>2, <1>3, <2>1, <2>2, RequestSteps DEF RequestsFit
  <1>4. ASSUME NEW step \in ChunkSteps \cup MergeSteps \cup DeleteSteps,
               req' = [req EXCEPT ![h].step = step],
               req[h].step \in ChunkSteps \cup MergeSteps \/ step \in DeleteSteps
        PROVE  /\ req' \in [Requests -> Record]
               /\ RequestsFit'
               /\ \A g \in Requests : /\ req'[g].id = req[g].id \/ req'[g].id = 0
                                      /\ req'[g] = req[g] \/ req'[g] = Idle
                                         \/ /\ g = h
                                            /\ req'[g] = [req[g] EXCEPT !.step = req'[g].step]
    <2>1. req'[h] = [req[h] EXCEPT !.step = step] /\ \A g \in Requests \ {h} : req'[g] = req[g]
      BY <1>1, <1>4
    <2>2. req'[h].step = step /\ req'[h].user = req[h].user /\ req'[h].id = req[h].id
      BY <1>1, <2>1 DEF Record
    <2>3. req' \in [Requests -> Record]
      BY <1>4, RequestSteps
    <2>4. RequestsFit'
      BY <1>2, <1>4, <2>1, <2>2 DEF RequestsFit
    <2> QED BY <2>1, <2>2, <2>3, <2>4
  <1> QED BY <1>3, <1>4 DEF Moves, Reply, Goto

\* A request that a client sends.
LEMMA RequestArrives ==
  ASSUME UploadTypes, RequestsFit, NEW h \in Requests, NEW r \in Record, Accept(h, r),
         r.step \in ChunkSteps \cup MergeSteps => r.user \in Users
  PROVE  /\ req' \in [Requests -> Record]
         /\ RequestsFit'
         /\ requests' \in 0 .. MaxRequests
         /\ req'[h] = r /\ \A g \in Requests \ {h} : req'[g] = req[g]
  <1>1. req' = [req EXCEPT ![h] = r] /\ requests > 0 /\ requests' = requests - 1
    BY DEF Accept
  <1>2. req \in [Requests -> Record] /\ requests \in 0 .. MaxRequests
    BY DEF UploadTypes
  <1>3. req'[h] = r /\ \A g \in Requests \ {h} : req'[g] = req[g]
    BY <1>1, <1>2
  <1> QED BY <1>1, <1>2, <1>3, UploadAssumption DEF RequestsFit

UploadTyped == UploadTypes' /\ RequestsFit' /\ ids' \in Nat /\ ids' >= ids

\* What a step leaves in the other variables of an upload.
RestTyped ==
  /\ rows' \subseteq Chunks /\ objects' \subseteq Chunks /\ merged' \subseteq Chunks
  /\ marks' \in [Users -> SUBSET Chunks]
  /\ outbox' \in OutboxStatus \cup Dispatchers
  /\ clearing' \subseteq Users
  /\ requests' \in 0 .. MaxRequests /\ budget' \in 0 .. MaxDisturbances

LEMMA MovesTyped ==
  ASSUME UploadTypes, RequestsFit, NEW h \in Requests, Moves(h), RestTyped,
         UNCHANGED <<upload, ids>>
  PROVE  UploadTyped
  <1>1. req' \in [Requests -> Record] /\ RequestsFit'
    BY RequestMoves
  <1>2. Record' = Record
    BY DEF Record
  <1> QED BY <1>1, <1>2 DEF UploadTypes, UploadTyped, RestTyped

LEMMA HandleChunkTypes ==
  ASSUME UploadTypes, RequestsFit, NEW h \in Requests, HandleChunk(h)
  PROVE  UploadTyped
  <1>1. /\ {"create", "bit", "row", "put", "upsert", "insert", "mark", "report"} = ChunkSteps
        /\ req[h] \in Record /\ req[h].chunk \in Chunks /\ ids \in Nat
        /\ req[h].step \in ChunkSteps => req[h].user \in Users
    BY DEF ChunkSteps, Record, RequestsFit, UploadTypes
  <1>2. CASE StartChunk(h)
    <2> PICK u \in Users, i \in Chunks :
          /\ Accept(h, [Idle EXCEPT !.step = IF upload[u] = NoUpload THEN "create" ELSE "bit",
                                    !.user = u, !.chunk = i])
          /\ UNCHANGED <<upload, ids, content, marks, outbox, clearing, budget>>
      BY <1>2 DEF StartChunk
    <2> DEFINE r == [Idle EXCEPT !.step = IF upload[u] = NoUpload THEN "create" ELSE "bit",
                                 !.user = u, !.chunk = i]
    <2>1. r \in Record /\ r.user = u
      BY <1>1, RequestSteps DEF Idle, Record
    <2> HIDE DEF r
    <2>2. Accept(h, r)
      BY DEF r
    <2>3. /\ req' \in [Requests -> Record] /\ RequestsFit'
          /\ requests' \in 0 .. MaxRequests
      BY <2>1, <2>2, RequestArrives
    <2>4. Record' = Record
      BY DEF Record
    <2> QED BY <1>1, <2>3, <2>4 DEF content, UploadTypes, UploadTyped
  <1>3. CASE CreateRecord(h)
    <2>0. At(h, "create") /\ UNCHANGED <<content, marks, outbox, clearing, bounds>>
      BY <1>3 DEF CreateRecord
    <2>1. CASE upload[req[h].user] = NoUpload
      <3>1. /\ ids' = ids + 1
            /\ upload' = [upload EXCEPT ![req[h].user] = [id |-> ids + 1, status |-> "uploading"]]
            /\ Goto(h, "bit")
        BY <1>3, <2>1 DEF CreateRecord
      <3>2. Record \subseteq Record'
        BY <1>1, <3>1 DEF Record
      <3>3. upload' \in [Users -> [id : 0 .. ids', status : {"none", "uploading", "completed"}]]
        <4> DEFINE Rec(n) == [id : 0 .. n, status : {"none", "uploading", "completed"}]
        <4>1. 0 .. ids \subseteq 0 .. ids' /\ ids + 1 \in 0 .. ids'
          BY <1>1, <3>1
        <4>2. Rec(ids) \subseteq Rec(ids')
          BY <4>1
        <4>3. [id |-> ids + 1, status |-> "uploading"] \in Rec(ids')
          BY <4>1
        <4>4. upload \in [Users -> Rec(ids)]
          BY DEF UploadTypes
        <4> HIDE DEF Rec
        <4>5. upload' \in [Users -> Rec(ids')]
          BY <3>1, <4>2, <4>3, <4>4
        <4> QED BY <4>5 DEF Rec
      <3>4. Moves(h)
        BY <1>1, <2>0, <3>1 DEF Moves, At
      <3>5. req' \in [Requests -> Record] /\ RequestsFit'
        BY <3>4, RequestMoves
      <3>6. req' \in [Requests -> Record']
        BY <3>2, <3>5
      <3> QED BY <1>1, <2>0, <3>1, <3>3, <3>5, <3>6 DEF UploadTypes, UploadTyped, content, bounds
    <2>2. CASE upload[req[h].user] # NoUpload
      <3>1. Moves(h) /\ UNCHANGED <<upload, ids>>
        BY <1>3, <2>2 DEF CreateRecord, Moves
      <3>2. RestTyped
        BY <2>0 DEF RestTyped, UploadTypes, content, bounds
      <3> QED BY <3>1, <3>2, MovesTyped
    <2> QED BY <2>1, <2>2
  <1>4. CASE ReadBit(h)
    <2> DEFINE seenMark == req[h].chunk \in marks[req[h].user]
               r == [req[h] EXCEPT !.step = "row", !.marked = seenMark]
    <2>1. seenMark \in BOOLEAN
      OBVIOUS
    <2>2. req' = [req EXCEPT ![h] = r]
      BY <1>4 DEF ReadBit
    <2> HIDE DEF seenMark
    <2>6. r \in Record /\ r.user = req[h].user
      BY <1>1, <2>1 DEF Record
    <2> HIDE DEF r
    <2>3. req' \in [Requests -> Record] /\ req'[h].user = req[h].user
          /\ \A g \in Requests \ {h} : req'[g] = req[g]
      BY <2>2, <2>6 DEF UploadTypes
    <2>4. RequestsFit'
      BY <1>1, <1>4, <2>3 DEF RequestsFit, ReadBit, At
    <2>5. Record' = Record
      BY <1>4 DEF Record, ReadBit
    <2> QED BY <1>1, <1>4, <2>3, <2>4, <2>5
            DEF ReadBit, UploadTypes, UploadTyped, content, bounds
  <1>5. CASE ReadRow(h)
    <2>1. Moves(h)
      BY <1>1, <1>5 DEF ReadRow, At, Moves
    <2>2. RestTyped /\ UNCHANGED <<upload, ids>>
      BY <1>5 DEF ReadRow, RestTyped, UploadTypes, content, bounds
    <2> QED BY <2>1, <2>2, MovesTyped
  <1>6. CASE PutChunk(h)
    <2>1. Moves(h)
      BY <1>1, <1>6 DEF PutChunk, At, Moves
    <2>2. RestTyped /\ UNCHANGED <<upload, ids>>
      BY <1>1, <1>6 DEF PutChunk, RestTyped, UploadTypes, bounds
    <2> QED BY <2>1, <2>2, MovesTyped
  <1>7. CASE Upsert(h)
    <2>1. Moves(h)
      BY <1>1, <1>7 DEF Upsert, At, Moves
    <2>2. RestTyped /\ UNCHANGED <<upload, ids>>
      BY <1>7 DEF Upsert, RestTyped, UploadTypes, content, bounds
    <2> QED BY <2>1, <2>2, MovesTyped
  <1>8. CASE InsertRow(h)
    <2>1. Moves(h)
      BY <1>1, <1>8 DEF InsertRow, At, Moves
    <2>2. RestTyped /\ UNCHANGED <<upload, ids>>
      BY <1>1, <1>8 DEF InsertRow, RestTyped, UploadTypes, bounds
    <2> QED BY <2>1, <2>2, MovesTyped
  <1>9. CASE MarkChunk(h)
    <2>1. Moves(h)
      BY <1>1, <1>9 DEF MarkChunk, At, Moves
    <2>2. RestTyped /\ UNCHANGED <<upload, ids>>
      BY <1>1, <1>9 DEF MarkChunk, RestTyped, UploadTypes, content, bounds
    <2> QED BY <2>1, <2>2, MovesTyped
  <1>10. CASE ReportChunks(h)
    <2>1. Moves(h)
      BY <1>10 DEF ReportChunks, Moves
    <2>2. RestTyped /\ UNCHANGED <<upload, ids>>
      BY <1>10 DEF ReportChunks, Uploaded, RestTyped, UploadTypes, content, bounds
    <2> QED BY <2>1, <2>2, MovesTyped
  <1> QED BY <1>2, <1>3, <1>4, <1>5, <1>6, <1>7, <1>8, <1>9, <1>10 DEF HandleChunk

LEMMA HandleMergeTypes ==
  ASSUME UploadTypes, RequestsFit, NEW h \in Requests, HandleMerge(h)
  PROVE  UploadTyped
  <1>1. /\ {"gather", "verify", "select", "compose", "commit"} = MergeSteps
        /\ req[h] \in Record /\ req[h].sources \subseteq Chunks /\ ids \in Nat
        /\ req[h].step \in MergeSteps => req[h].user \in Users
    BY DEF MergeSteps, Record, RequestsFit, UploadTypes
  <1>2. CASE StartMerge(h)
    <2> PICK u \in Users :
          /\ Accept(h, [Idle EXCEPT !.step = "gather", !.user = u, !.id = upload[u].id])
          /\ UNCHANGED <<upload, ids, content, marks, outbox, clearing, budget>>
      BY <1>2 DEF StartMerge
    <2> DEFINE r == [Idle EXCEPT !.step = "gather", !.user = u, !.id = upload[u].id]
    <2>0. upload[u].id \in 0 .. ids
      BY DEF UploadTypes
    <2>1. r \in Record /\ r.user = u
      BY <1>1, <2>0, RequestSteps DEF Idle, Record
    <2> HIDE DEF r
    <2>2. Accept(h, r)
      BY DEF r
    <2>3. /\ req' \in [Requests -> Record] /\ RequestsFit'
          /\ requests' \in 0 .. MaxRequests
      BY <2>1, <2>2, RequestArrives
    <2>4. Record' = Record
      BY DEF Record
    <2> QED BY <1>1, <2>3, <2>4 DEF content, UploadTypes, UploadTyped
  <1>3. CASE GatherChunks(h)
    <2>1. Moves(h)
      BY <1>1, <1>3 DEF GatherChunks, At, Moves
    <2>2. RestTyped /\ UNCHANGED <<upload, ids>>
      BY <1>3 DEF GatherChunks, Uploaded, RestTyped, UploadTypes, content, bounds
    <2> QED BY <2>1, <2>2, MovesTyped
  <1>4. CASE VerifyChunks(h)
    <2>1. Moves(h)
      BY <1>1, <1>4 DEF VerifyChunks, At, Moves
    <2>2. RestTyped /\ UNCHANGED <<upload, ids>>
      BY <1>4 DEF VerifyChunks, RestTyped, UploadTypes, content, bounds
    <2> QED BY <2>1, <2>2, MovesTyped
  <1>5. CASE SelectSources(h)
    <2> DEFINE r == [req[h] EXCEPT !.step = "compose", !.sources = rows]
    <2>1. req' = [req EXCEPT ![h] = r]
      BY <1>5 DEF SelectSources
    <2>2. r \in Record /\ r.user = req[h].user
      BY <1>1 DEF Record, UploadTypes
    <2> HIDE DEF r
    <2>3. req' \in [Requests -> Record] /\ req'[h].user = req[h].user
          /\ \A g \in Requests \ {h} : req'[g] = req[g]
      BY <2>1, <2>2 DEF UploadTypes
    <2>4. RequestsFit'
      BY <1>1, <1>5, <2>3 DEF RequestsFit, SelectSources, At
    <2>5. Record' = Record
      BY <1>5 DEF Record, SelectSources
    <2> QED BY <1>1, <1>5, <2>3, <2>4, <2>5
            DEF SelectSources, UploadTypes, UploadTyped, content, bounds
  <1>6. CASE Compose(h)
    <2>1. Moves(h)
      BY <1>1, <1>6 DEF Compose, At, Moves
    <2>2. RestTyped /\ UNCHANGED <<upload, ids>>
      BY <1>1, <1>6 DEF Compose, RestTyped, UploadTypes, bounds
    <2> QED BY <2>1, <2>2, MovesTyped
  <1>7. CASE CommitMerge(h)
    <2>1. Moves(h)
      BY <1>7 DEF CommitMerge, Moves
    <2>2. RestTyped
      BY <1>1, <1>7 DEF CommitMerge, At, Enqueued, OutboxStatus, RestTyped, UploadTypes, content, bounds
    <2>3. ids' = ids /\ upload' \in {upload, [upload EXCEPT ![req[h].user].status = "completed"]}
      BY <1>7 DEF CommitMerge
    <2>4. upload' \in [Users -> [id : 0 .. ids, status : {"none", "uploading", "completed"}]]
      BY <2>3 DEF UploadTypes
    <2>5. req' \in [Requests -> Record] /\ RequestsFit'
      BY <2>1, RequestMoves
    <2>6. Record' = Record
      BY <2>3 DEF Record
    <2> QED BY <1>1, <2>2, <2>3, <2>4, <2>5, <2>6 DEF UploadTypes, UploadTyped, RestTyped
  <1> QED BY <1>2, <1>3, <1>4, <1>5, <1>6, <1>7 DEF HandleMerge

\* A step that leaves the requests alone.
LEMMA RestOnlyTyped ==
  ASSUME UploadTypes, RequestsFit, RestTyped, UNCHANGED <<upload, ids, req>>
  PROVE  UploadTyped
  <1>1. Record' = Record
    BY DEF Record
  <1> QED BY <1>1 DEF UploadTypes, UploadTyped, RestTyped, RequestsFit

LEMMA SpentBudget ==
  ASSUME UploadTypes, Disturb
  PROVE  budget' \in 0 .. MaxDisturbances
  BY UploadAssumption DEF UploadTypes, Disturb

LEMMA UploadStepTypes ==
  ASSUME UploadTypes, RequestsFit, UploadStep
  PROVE  UploadTyped
  <1>1. ASSUME NEW h \in Requests, HandleChunk(h) \/ HandleMerge(h)
        PROVE  UploadTyped
    BY <1>1, HandleChunkTypes, HandleMergeTypes
  <1>2. ASSUME NEW h \in Requests, AbortRequest(h)
        PROVE  UploadTyped
    <2>1. Moves(h)
      BY <1>2 DEF AbortRequest, Moves
    <2>2. RestTyped /\ UNCHANGED <<upload, ids>>
      BY <1>2, SpentBudget DEF AbortRequest, RestTyped, UploadTypes, content
    <2> QED BY <2>1, <2>2, MovesTyped
  <1>3. ASSUME NEW u \in Users, CheckFile(u) \/ ClearMarks(u)
        PROVE  UploadTyped
    <2>1. CASE CheckFile(u)
      BY <2>1, RestOnlyTyped DEF CheckFile, Uploaded, RestTyped, UploadTypes, content, bounds
    <2>2. CASE ClearMarks(u)
      BY <2>2, RestOnlyTyped DEF ClearMarks, RestTyped, UploadTypes, content, bounds
    <2> QED BY <1>3, <2>1, <2>2
  <1>4. CASE Crash
    <2>1. RestTyped /\ UNCHANGED <<upload, ids>>
      BY <1>4, SpentBudget DEF Crash, RestTyped, UploadTypes, content
    <2>2. Record' = Record
      BY <2>1 DEF Record
    <2>3. req' = [h \in Requests |-> Idle]
      BY <1>4 DEF Crash
    <2>4. \A h \in Requests : req'[h] \in Record /\ req'[h].step = "idle"
      <3> TAKE h \in Requests
      <3> QED BY <2>3, RequestSteps DEF Idle
    <2>5. req' \in [Requests -> Record]
      BY <2>3, <2>4
    <2>6. RequestsFit'
      BY <2>4 DEF RequestsFit, ChunkSteps, MergeSteps
    <2> QED BY <2>1, <2>2, <2>5, <2>6 DEF UploadTypes, UploadTyped, RestTyped
  <1>5. CASE LoseChunk
    BY <1>5, RestOnlyTyped, SpentBudget DEF LoseChunk, RestTyped, UploadTypes
  <1> QED BY <1>1, <1>2, <1>3, <1>4, <1>5 DEF UploadStep

StagesTyped == UploadTypes' /\ RequestsFit' /\ StageTypes' /\ WorkFits' /\ UNCHANGED ids

\* What a step of a stage does, whatever it needs.
Advances(step, result, next) ==
  /\ work.step = step
  /\ \/ artifacts' = result /\ work' = [work EXCEPT !.step = next]
     \/ work' = [work EXCEPT !.step = "failed"] /\ UNCHANGED artifacts
  /\ UNCHANGED <<uploadVars, messages, tracked, dispatch, deletions>>

LEMMA StageStepTypes ==
  ASSUME StageTypes, WorkFits, NEW step, NEW result \in SUBSET Artifacts, NEW next \in WorkSteps,
         Advances(step, result, next),
         next \in {"clear", "create"} => work.stage = "chunk",
         next \in {"load", "hset"} => work.stage = "embed",
         next = "read" => work.stage = "parse",
         next = "send" => work.stage \in {"parse", "chunk", "embed"}
  PROVE  StageTypes' /\ WorkFits' /\ UNCHANGED uploadVars /\ UNCHANGED deletions
  <1>1. work.step = step /\ UNCHANGED <<uploadVars, messages, tracked, dispatch, deletions>>
    BY DEF Advances
  <1>2. work \in [stage : Stages \cup {"none"}, step : WorkSteps]
    BY DEF StageTypes
  <1>3. CASE artifacts' = result /\ work' = [work EXCEPT !.step = next]
    <2>1. work' \in [stage : Stages \cup {"none"}, step : WorkSteps]
          /\ work'.step = next /\ work'.stage = work.stage
      BY <1>2, <1>3
    <2> QED BY <1>1, <1>3, <2>1 DEF StageTypes, WorkFits
  <1>4. CASE work' = [work EXCEPT !.step = "failed"] /\ UNCHANGED artifacts
    <2>1. work' \in [stage : Stages \cup {"none"}, step : WorkSteps]
          /\ work'.step = "failed" /\ work'.stage = work.stage
      BY <1>2, <1>4 DEF WorkSteps
    <2> QED BY <1>1, <1>4, <2>1 DEF StageTypes, WorkFits
  <1> QED BY <1>3, <1>4 DEF Advances

LEMMA UploadUntouched ==
  ASSUME UploadTypes, RequestsFit, UNCHANGED uploadVars
  PROVE  UploadTypes' /\ RequestsFit' /\ UNCHANGED ids
  <1>1. RestTyped /\ UNCHANGED <<upload, ids, req>>
    BY DEF uploadVars, content, bounds, RestTyped, UploadTypes
  <1> QED BY <1>1, RestOnlyTyped DEF UploadTyped

LEMMA ProcessTypes ==
  ASSUME UploadTypes, RequestsFit, StageTypes, WorkFits, Process
  PROVE  StagesTyped /\ UNCHANGED uploadVars /\ UNCHANGED deletions
  <1>0. SUFFICES StageTypes' /\ WorkFits' /\ UNCHANGED uploadVars /\ UNCHANGED deletions
    BY UploadUntouched DEF StagesTyped
  <1>1. /\ work \in [stage : Stages \cup {"none"}, step : WorkSteps]
        /\ {"parsed", "vectors", "cache", "searchable"} = Artifacts
        /\ {"clear", "create", "read", "load", "hset", "rows", "bulk", "cleanup", "send", "done", "failed"}
             \subseteq WorkSteps
        /\ NoWork \in [stage : Stages \cup {"none"}, step : WorkSteps]
        /\ artifacts \subseteq Artifacts
    BY DEF StageTypes, Artifacts, WorkSteps, NoWork
  <1>2. CASE Deliver
    <2> PICK s \in messages :
          /\ \/ /\ tracked[s] = "SUCCESS"
                /\ messages' = messages \ {s}
                /\ UNCHANGED <<tracked, work>>
             \/ /\ tracked[s] # "SUCCESS"
                /\ tracked' = [tracked EXCEPT ![s] = "OPEN"]
                /\ work' = [stage |-> s, step |-> FirstStep[s]]
                /\ UNCHANGED messages
          /\ UNCHANGED <<uploadVars, artifacts, dispatch, deletions>>
      BY <1>2 DEF Deliver
    <2>1. s \in {"parse", "chunk", "embed", "index"}
      BY DEF StageTypes, Stages
    <2>2. /\ FirstStep["parse"] = "read" /\ FirstStep["chunk"] = "clear"
          /\ FirstStep["embed"] = "load" /\ FirstStep["index"] = "rows"
      BY DEF FirstStep
    <2>3. CASE UNCHANGED <<tracked, work>> /\ messages' = messages \ {s}
      BY <2>3 DEF StageTypes, WorkFits
    <2>4. CASE /\ tracked' = [tracked EXCEPT ![s] = "OPEN"]
               /\ work' = [stage |-> s, step |-> FirstStep[s]]
               /\ UNCHANGED messages
      <3>1. work' \in [stage : Stages \cup {"none"}, step : WorkSteps] /\ WorkFits'
        BY <1>1, <2>1, <2>2, <2>4 DEF WorkFits, Stages
      <3> QED BY <2>1, <2>4, <3>1 DEF StageTypes
    <2> QED BY <2>3, <2>4
  <1>3. CASE ParseDocument
    <2>1. Advances("read", artifacts \cup {"parsed"}, "send")
      BY <1>3 DEF ParseDocument, StageStep, Advances
    <2>2. work.stage = "parse"
      BY <2>1 DEF Advances, WorkFits
    <2> QED BY <1>1, <2>1, <2>2, StageStepTypes
  <1>4. CASE ClearChunks
    <2>1. Advances("clear", artifacts \ {"vectors", "cache"}, "create")
      BY <1>4 DEF ClearChunks, StageStep, Advances
    <2>2. work.stage = "chunk"
      BY <2>1 DEF Advances, WorkFits
    <2> QED BY <1>1, <2>1, <2>2, StageStepTypes
  <1>5. CASE CreateChunks
    <2>1. Advances("create", artifacts \cup {"vectors"}, "send")
      BY <1>5 DEF CreateChunks, StageStep, Advances
    <2>2. work.stage = "chunk"
      BY <2>1 DEF Advances, WorkFits
    <2> QED BY <1>1, <2>1, <2>2, StageStepTypes
  <1>6. CASE LoadWindow
    <2>1. Advances("load", artifacts, "hset")
      BY <1>6 DEF LoadWindow, StageStep, Advances
    <2>2. work.stage = "embed"
      BY <2>1 DEF Advances, WorkFits
    <2> QED BY <1>1, <2>1, <2>2, StageStepTypes
  <1>7. CASE CacheVectors
    <2>1. Advances("hset", artifacts \cup {"cache"}, "send")
      BY <1>7 DEF CacheVectors, StageStep, Advances
    <2>2. work.stage = "embed"
      BY <2>1 DEF Advances, WorkFits
    <2> QED BY <1>1, <2>1, <2>2, StageStepTypes
  <1>8. CASE LoadDocuments
    <2>1. Advances("rows", artifacts, "bulk")
      BY <1>8 DEF LoadDocuments, StageStep, Advances
    <2> QED BY <1>1, <2>1, StageStepTypes
  <1>9. CASE IndexDocuments
    <2>1. Advances("bulk", artifacts \cup {"searchable"}, "cleanup")
      BY <1>9 DEF IndexDocuments, StageStep, Advances
    <2> QED BY <1>1, <2>1, StageStepTypes
  <1>10. CASE CleanUpIndex
    <2>1. Advances("cleanup", artifacts \ {"cache"}, "done")
      BY <1>10 DEF CleanUpIndex, StageStep, Advances
    <2> QED BY <1>1, <2>1, StageStepTypes
  <1>11. CASE SendNext
    <2>1. work.stage \in {"parse", "chunk", "embed"} /\ work.step = "send"
      BY <1>11 DEF SendNext, WorkFits
    <2>2. messages' \subseteq Stages
      BY <1>11, <2>1 DEF SendNext, NextStage, StageTypes, Stages
    <2>3. work' \in [stage : Stages \cup {"none"}, step : WorkSteps] /\ work'.step = "done"
      BY <1>1, <1>11 DEF SendNext
    <2> QED BY <1>11, <2>2, <2>3 DEF SendNext, StageTypes, WorkFits
  <1>12. NoWork.step = "idle"
    BY DEF NoWork
  <1>13. CASE SucceedTask
    <2>1. work' = NoWork /\ messages' \subseteq Stages
      BY <1>13 DEF SucceedTask, StageTypes
    <2>2. tracked' \in [Stages -> {"ABSENT", "OPEN", "SUCCESS", "DEAD"}]
      BY <1>13 DEF SucceedTask, StageTypes
    <2> QED BY <1>1, <1>12, <1>13, <2>1, <2>2 DEF SucceedTask, StageTypes, WorkFits
  <1>14. CASE FailTask
    <2>1. work' = NoWork /\ messages' \subseteq Stages
      BY <1>14 DEF FailTask, StageTypes
    <2>2. tracked' \in [Stages -> {"ABSENT", "OPEN", "SUCCESS", "DEAD"}]
      BY <1>14 DEF FailTask, StageTypes
    <2> QED BY <1>1, <1>12, <1>14, <2>1, <2>2 DEF FailTask, StageTypes, WorkFits
  <1> QED BY <1>2, <1>3, <1>4, <1>5, <1>6, <1>7, <1>8, <1>9, <1>10, <1>11, <1>13, <1>14 DEF Process

\* The parse task was sent under the last claim of the row of the outbox.
Promised == outbox = "published" \/ \E d \in Dispatchers : outbox = d /\ DispatcherAt(d, "sent")

\* What a dispatcher may do: a row that is not there is neither claimed nor marked, and
\* only a claimed task is sent.
Published ==
  /\ UNCHANGED <<upload, ids, content, marks, clearing, req, requests, deletions>>
  /\ UNCHANGED <<tracked, work, artifacts>>
  /\ outbox' \in OutboxStatus \cup Dispatchers
  /\ outbox' = "none" <=> outbox = "none"
  /\ budget' \in 0 .. MaxDisturbances
  /\ dispatch' \in [Dispatchers -> DispatchSteps]
  /\ messages' \in {messages, messages \cup {"parse"}}
  /\ (\A d \in Dispatchers : ~DispatcherAt(d, "claimed")) => messages' = messages
  /\ \A d \in Dispatchers :
       dispatch'[d] = "claimed" => outbox # "none" \/ DispatcherAt(d, "claimed")
  /\ Promised' => Promised \/ "parse" \in messages'

LEMMA DispatcherSteps ==
  ASSUME UploadTypes, StageTypes, NEW d \in Dispatchers, NEW step \in DispatchSteps,
         Advance(d, step)
  PROVE  /\ dispatch' \in [Dispatchers -> DispatchSteps]
         /\ dispatch'[d] = step /\ \A e \in Dispatchers \ {d} : dispatch'[e] = dispatch[e]
  BY DEF Advance, StageTypes

LEMMA Publishes ==
  ASSUME UploadTypes, StageTypes, PublishOutbox
  PROVE  Published
  <1> PICK d \in Dispatchers : Claim(d) \/ Send(d) \/ SendFails(d) \/ Mark(d) \/ GiveUpClaim(d)
    BY DEF PublishOutbox
  <1>1. /\ {"idle", "claimed", "sent", "refused"} = DispatchSteps
        /\ OutboxStatus = {"none", "pending", "published"} /\ d \notin OutboxStatus
        /\ \A e \in Dispatchers : e \notin OutboxStatus
    BY LifecycleAssumption DEF DispatchSteps, OutboxStatus
  <1>2. CASE Claim(d)
    <2>1. /\ outbox \in {"pending"} \cup Dispatchers /\ outbox' = d /\ Advance(d, "claimed")
          /\ UNCHANGED <<upload, ids, content, marks, clearing, req, requests, deletions,
                         messages, tracked, work, artifacts>>
          /\ UNCHANGED budget \/ Disturb
      BY <1>2 DEF Claim
    <2>2. dispatch' \in [Dispatchers -> DispatchSteps] /\ dispatch'[d] = "claimed"
      BY <1>1, <2>1, DispatcherSteps
    <2>3. ~Promised'
      BY <1>1, <2>1, <2>2 DEF Promised, DispatcherAt
    <2>4. outbox # "none" /\ outbox' # "none"
      BY <1>1, <2>1
    <2>5. budget' \in 0 .. MaxDisturbances
      BY <2>1, SpentBudget DEF UploadTypes
    <2> QED BY <2>1, <2>2, <2>3, <2>4, <2>5 DEF Published
  <1>3. CASE Send(d)
    <2>1. /\ messages' = messages \cup {"parse"} /\ DispatcherAt(d, "claimed")
          /\ Advance(d, "sent") /\ UNCHANGED <<uploadVars, tracked, work, artifacts, deletions>>
      BY <1>3 DEF Send
    <2>2. /\ dispatch' \in [Dispatchers -> DispatchSteps] /\ dispatch'[d] = "sent"
          /\ \A e \in Dispatchers \ {d} : dispatch'[e] = dispatch[e]
      BY <1>1, <2>1, DispatcherSteps
    <2>3. \A e \in Dispatchers : dispatch'[e] = "claimed" => DispatcherAt(e, "claimed")
      BY <2>2 DEF DispatcherAt
    <2> QED BY <2>1, <2>2, <2>3 DEF Published, UploadTypes, uploadVars, content, bounds
  <1>4. CASE SendFails(d)
    <2>1. /\ messages' \in {messages, messages \cup {"parse"}} /\ DispatcherAt(d, "claimed")
          /\ Advance(d, "refused") /\ Disturb
          /\ UNCHANGED <<upload, ids, content, marks, outbox, clearing, req, requests,
                         tracked, work, artifacts, deletions>>
      BY <1>4 DEF SendFails
    <2>2. /\ dispatch' \in [Dispatchers -> DispatchSteps] /\ dispatch'[d] = "refused"
          /\ \A e \in Dispatchers \ {d} : dispatch'[e] = dispatch[e]
      BY <1>1, <2>1, DispatcherSteps
    <2>3. \A e \in Dispatchers : dispatch'[e] \in {"claimed", "sent"} => dispatch'[e] = dispatch[e]
      BY <2>2
    <2>4. Promised' => Promised
      BY <2>1, <2>3 DEF Promised, DispatcherAt
    <2>5. budget' \in 0 .. MaxDisturbances
      BY <2>1, SpentBudget
    <2> QED BY <2>1, <2>2, <2>3, <2>4, <2>5 DEF Published, UploadTypes, DispatcherAt
  <1>5. CASE Mark(d)
    <2>1. /\ dispatch[d] \in {"sent", "refused"} /\ Advance(d, "idle")
          /\ outbox' = IF outbox # d THEN outbox
                       ELSE IF DispatcherAt(d, "sent") THEN "published" ELSE "pending"
          /\ UNCHANGED <<upload, ids, content, marks, clearing, req, bounds,
                         messages, tracked, work, artifacts, deletions>>
      BY <1>5 DEF Mark
    <2>2. /\ dispatch' \in [Dispatchers -> DispatchSteps] /\ dispatch'[d] = "idle"
          /\ \A e \in Dispatchers \ {d} : dispatch'[e] = dispatch[e]
      BY <1>1, <2>1, DispatcherSteps
    <2>3. \A e \in Dispatchers : dispatch'[e] \in {"claimed", "sent"} => dispatch'[e] = dispatch[e]
      BY <2>2
    <2>4. Promised' => Promised
      <3>1. CASE outbox = d /\ DispatcherAt(d, "sent")
        BY <3>1 DEF Promised
      <3>2. CASE outbox = d /\ ~DispatcherAt(d, "sent")
        BY <1>1, <2>1, <3>2 DEF Promised
      <3>3. CASE outbox # d
        BY <2>1, <2>3, <3>3 DEF Promised, DispatcherAt
      <3> QED BY <3>1, <3>2, <3>3
    <2>5. /\ outbox' \in OutboxStatus \cup Dispatchers
          /\ outbox' = "none" <=> outbox = "none"
      BY <1>1, <2>1 DEF UploadTypes
    <2> QED BY <2>1, <2>2, <2>3, <2>4, <2>5 DEF Published, UploadTypes, DispatcherAt, bounds
  <1>6. CASE GiveUpClaim(d)
    <2>1. /\ Disturb /\ Advance(d, "idle")
          /\ UNCHANGED <<upload, ids, content, marks, outbox, clearing, req, requests,
                         messages, tracked, work, artifacts, deletions>>
      BY <1>6 DEF GiveUpClaim
    <2>2. /\ dispatch' \in [Dispatchers -> DispatchSteps] /\ dispatch'[d] = "idle"
          /\ \A e \in Dispatchers \ {d} : dispatch'[e] = dispatch[e]
      BY <1>1, <2>1, DispatcherSteps
    <2>3. \A e \in Dispatchers : dispatch'[e] \in {"claimed", "sent"} => dispatch'[e] = dispatch[e]
      BY <2>2
    <2>4. Promised' => Promised
      BY <2>1, <2>3 DEF Promised, DispatcherAt
    <2>5. budget' \in 0 .. MaxDisturbances
      BY <2>1, SpentBudget
    <2> QED BY <2>1, <2>2, <2>3, <2>4, <2>5 DEF Published, UploadTypes, DispatcherAt
  <1> QED BY <1>2, <1>3, <1>4, <1>5, <1>6

LEMMA PublishTypes ==
  ASSUME UploadTypes, RequestsFit, StageTypes, WorkFits, PublishOutbox \/ WorkerFails
  PROVE  StagesTyped /\ UNCHANGED <<upload, content, marks, clearing, req, deletions>>
  <1>1. CASE PublishOutbox
    <2>1. Published
      BY <1>1, Publishes
    <2>2. RestTyped /\ UNCHANGED <<upload, ids, content, marks, clearing, req, deletions>>
      BY <2>1 DEF Published, RestTyped, UploadTypes, content
    <2>3. UploadTypes' /\ RequestsFit'
      BY <2>2, RestOnlyTyped DEF UploadTyped
    <2>4. StageTypes' /\ WorkFits'
      BY <2>1 DEF Published, StageTypes, WorkFits, Stages
    <2> QED BY <2>2, <2>3, <2>4 DEF StagesTyped
  <1>2. CASE WorkerFails
    <2>1. RestTyped /\ UNCHANGED <<upload, ids, content, marks, clearing, req, deletions>>
      BY <1>2, SpentBudget DEF WorkerFails, RestTyped, UploadTypes, content
    <2>2. UploadTypes' /\ RequestsFit'
      BY <2>1, RestOnlyTyped DEF UploadTyped
    <2>3. StageTypes' /\ WorkFits'
      BY <1>2 DEF WorkerFails, StageTypes, WorkFits, NoWork, WorkSteps
    <2> QED BY <2>1, <2>2, <2>3 DEF StagesTyped
  <1> QED BY <1>1, <1>2

-----------------------------------------------------------------------------
(* DeleteDocument.                                                          *)

LEMMA StartDeleteTypes ==
  ASSUME UploadTypes, RequestsFit, StageTypes, WorkFits, deletions \in 0 .. MaxDeletions,
         NEW h \in Requests, StartDelete(h)
  PROVE  /\ StagesTyped /\ deletions' \in 0 .. MaxDeletions
         /\ UNCHANGED <<upload, content, marks, outbox, clearing, bounds, stageVars>>
         /\ req'[h].step = "es" /\ \A g \in Requests \ {h} : req'[g] = req[g]
         /\ \E u \in Users : upload[u] # NoUpload /\ req'[h].id = upload[u].id
  <1> PICK caller \in Users \cup {Admin}, owner \in Users :
        /\ IsFirstRecord(owner)
        /\ deletions > 0 /\ deletions' = deletions - 1
        /\ req' = [req EXCEPT ![h] =
                     [Idle EXCEPT !.step = "es", !.user = caller, !.id = upload[owner].id]]
        /\ UNCHANGED <<upload, ids, content, marks, outbox, clearing, bounds, stageVars>>
    BY DEF StartDelete
  <1> DEFINE r == [Idle EXCEPT !.step = "es", !.user = caller, !.id = upload[owner].id]
  <1>1. upload[owner].id \in 0 .. ids
    BY DEF UploadTypes
  <1>2. r \in Record /\ r.step = "es" /\ r.id = upload[owner].id
    BY <1>1, RequestSteps DEF Idle, Record, DeleteSteps
  <1> HIDE DEF r
  <1>3. req' = [req EXCEPT ![h] = r]
    BY DEF r
  <1>4. req' \in [Requests -> Record] /\ req'[h] = r /\ \A g \in Requests \ {h} : req'[g] = req[g]
    BY <1>2, <1>3 DEF UploadTypes
  <1>5. RequestsFit'
    BY <1>2, <1>4 DEF RequestsFit, ChunkSteps, MergeSteps
  <1>6. Record' = Record
    BY DEF Record
  <1>7. UploadTypes'
    BY <1>4, <1>6 DEF UploadTypes, content, bounds
  <1>8. StageTypes' /\ WorkFits'
    BY DEF StageTypes, WorkFits, stageVars
  <1>9. deletions' \in 0 .. MaxDeletions
    BY LifecycleAssumption
  <1>10. upload[owner] # NoUpload
    BY DEF IsFirstRecord
  <1> QED BY <1>2, <1>4, <1>5, <1>7, <1>8, <1>9, <1>10 DEF StagesTyped

\* The steps of a deletion that is under way.
Remove(h) ==
  \/ DeleteFromIndex(h) \/ DeleteVectors(h) \/ DeleteChunkRows(h)
  \/ DeleteTasks(h) \/ DeleteMark(h) \/ DeleteObject(h) \/ DeleteRecord(h)
  \/ RemovalIgnored(h) \/ AbortDelete(h)

LEMMA RemoveTypes ==
  ASSUME UploadTypes, RequestsFit, StageTypes, WorkFits, NEW h \in Requests, Remove(h)
  PROVE  /\ StagesTyped /\ UNCHANGED <<ids, objects, deletions>>
         /\ Moves(h) /\ req[h].step \in DeleteSteps
         /\ \A u \in Users : upload'[u] \in {upload[u], NoUpload}
         /\ rows' \subseteq rows
  <1>1. DeleteSteps = {"es", "vectors", "chunks", "tasks", "mark.del", "object", "record"}
    BY DEF DeleteSteps
  <1>2. Moves(h) /\ req[h].step \in DeleteSteps
    BY <1>1 DEF Remove, DeleteFromIndex, DeleteVectors, DeleteChunkRows, DeleteTasks, DeleteMark,
                DeleteObject, DeleteRecord, RemovalIgnored, AbortDelete, Moves, At
  <1>3. UNCHANGED <<ids, objects, deletions>> /\ rows' \subseteq rows
    BY DEF Remove, DeleteFromIndex, DeleteVectors, DeleteChunkRows, DeleteTasks, DeleteMark,
           DeleteObject, DeleteRecord, RemovalIgnored, AbortDelete, content
  <1>4. /\ upload' \in [Users -> [id : 0 .. ids, status : {"none", "uploading", "completed"}]]
        /\ \A u \in Users : upload'[u] \in {upload[u], NoUpload}
    <2>1. CASE DeleteRecord(h)
      <3>1. upload' = [u \in Users |-> IF req[h].user \in {u, Admin} THEN NoUpload ELSE upload[u]]
        BY <2>1 DEF DeleteRecord
      <3>2. NoUpload \in [id : 0 .. ids, status : {"none", "uploading", "completed"}]
        BY DEF NoUpload, UploadTypes
      <3> QED BY <3>1, <3>2 DEF UploadTypes
    <2>2. CASE UNCHANGED upload
      BY <2>2 DEF UploadTypes
    <2> QED BY <2>1, <2>2 DEF Remove, DeleteFromIndex, DeleteVectors, DeleteChunkRows, DeleteTasks,
                              DeleteMark, DeleteObject, RemovalIgnored, AbortDelete
  <1>5. marks' \in [Users -> SUBSET Chunks]
    <2>1. CASE DeleteMark(h)
      BY <2>1 DEF DeleteMark, UploadTypes
    <2>2. CASE UNCHANGED marks
      BY <2>2 DEF UploadTypes
    <2> QED BY <2>1, <2>2 DEF Remove, DeleteFromIndex, DeleteVectors, DeleteChunkRows, DeleteTasks,
                              DeleteObject, DeleteRecord, RemovalIgnored, AbortDelete
  <1>6. /\ merged' \subseteq Chunks /\ outbox' \in OutboxStatus \cup Dispatchers
        /\ clearing' \subseteq Users
        /\ requests' \in 0 .. MaxRequests /\ budget' \in 0 .. MaxDisturbances
    BY SpentBudget DEF Remove, DeleteFromIndex, DeleteVectors, DeleteChunkRows, DeleteTasks, DeleteMark,
                DeleteObject, DeleteRecord, RemovalIgnored, AbortDelete, content, bounds, UploadTypes,
                OutboxStatus
  <1>7. StageTypes' /\ WorkFits'
    <2>1. UNCHANGED <<messages, work, dispatch>> /\ artifacts' \subseteq artifacts
      BY DEF Remove, DeleteFromIndex, DeleteVectors, DeleteChunkRows, DeleteTasks, DeleteMark,
             DeleteObject, DeleteRecord, RemovalIgnored, AbortDelete, stageVars
    <2>2. tracked' \in {tracked, NoTasks}
      BY DEF Remove, DeleteFromIndex, DeleteVectors, DeleteChunkRows, DeleteTasks, DeleteMark,
             DeleteObject, DeleteRecord, RemovalIgnored, AbortDelete, stageVars
    <2>3. NoTasks \in [Stages -> {"ABSENT", "OPEN", "SUCCESS", "DEAD"}]
      BY DEF NoTasks
    <2> QED BY <2>1, <2>2, <2>3 DEF StageTypes, WorkFits
  <1>8. req' \in [Requests -> Record] /\ RequestsFit'
    BY <1>2, RequestMoves
  <1>9. Record' = Record
    BY <1>3 DEF Record
  <1>10. UploadTypes'
    BY <1>3, <1>4, <1>5, <1>6, <1>8, <1>9 DEF UploadTypes
  <1> QED BY <1>2, <1>3, <1>4, <1>7, <1>8, <1>10 DEF StagesTyped

-----------------------------------------------------------------------------
(* Every step.                                                              *)

LEMMA InitTyped ==
  ASSUME Init
  PROVE  Typed /\ \A h \in Requests : req[h] = Idle
  <1>1. ids \in 0 .. 1 /\ horizon = 0 /\ seen = {} /\ messages = {} /\ work = NoWork
    BY DEF Init, InitEmpty, InitUploaded, InitIndexed, HasUploaded, UploadInit, NothingElse
  <1>2. /\ upload \in [Users -> [id : 0 .. ids, status : {"none", "uploading", "completed"}]]
    <2>1. CASE InitEmpty
      BY <2>1 DEF InitEmpty, UploadInit, NoUpload
    <2>2. ASSUME NEW u \in Users, NEW status \in {"uploading", "completed"}, HasUploaded(u, status)
          PROVE  upload \in [Users -> [id : 0 .. ids, status : {"none", "uploading", "completed"}]]
      BY <2>2 DEF HasUploaded, NoUpload
    <2> QED BY <2>1, <2>2 DEF Init, InitUploaded, InitIndexed
  <1>3. rows \subseteq Chunks /\ objects \subseteq Chunks /\ merged \subseteq Chunks
    BY DEF Init, InitEmpty, InitUploaded, InitIndexed, HasUploaded, UploadInit
  <1>4. marks \in [Users -> SUBSET Chunks] /\ clearing \subseteq Users
    BY DEF Init, InitEmpty, InitUploaded, InitIndexed, HasUploaded, UploadInit
  <1>5. outbox \in OutboxStatus \cup Dispatchers /\ artifacts \subseteq Artifacts
        /\ tracked \in [Stages -> {"ABSENT", "OPEN", "SUCCESS", "DEAD"}]
    BY DEF Init, InitEmpty, InitUploaded, InitIndexed, UploadInit, NoTasks, Artifacts, OutboxStatus
  <1>6. req = [h \in Requests |-> Idle]
    BY DEF Init, InitEmpty, InitUploaded, InitIndexed, HasUploaded, UploadInit
  <1>7. 0 \in Chunks
    BY UploadAssumption DEF Chunks
  <1>8. Idle \in Record
    BY <1>1, <1>7 DEF Idle, Record
  <1>9. \A h \in Requests : req[h] = Idle /\ req[h].step = "idle"
    BY <1>6 DEF Idle
  <1>10. req \in [Requests -> Record] /\ RequestsFit
    BY <1>6, <1>8, <1>9 DEF RequestsFit, ChunkSteps, MergeSteps
  <1>11. /\ requests \in 0 .. MaxRequests /\ budget \in 0 .. MaxDisturbances
         /\ deletions \in 0 .. MaxDeletions
    BY UploadAssumption, LifecycleAssumption DEF Init, Meets
  <1>12. work \in [stage : Stages \cup {"none"}, step : WorkSteps] /\ WorkFits
    BY <1>1 DEF NoWork, WorkSteps, WorkFits
  <1>13. dispatch \in [Dispatchers -> DispatchSteps]
    BY DEF Init, InitEmpty, InitUploaded, InitIndexed, HasUploaded, NothingElse, DispatchSteps
  <1> QED BY <1>1, <1>2, <1>3, <1>4, <1>5, <1>9, <1>10, <1>11, <1>12, <1>13 DEF Typed, TypeOK

\* Which steps there are.
Works == PublishOutbox \/ Process \/ WorkerFails

LEMMA NextCases ==
  ASSUME Next
  PROVE  /\ \/ UploadStep /\ UNCHANGED <<stageVars, deletions>>
            \/ Works
            \/ \E h \in Requests : StartDelete(h) \/ Remove(h)
         /\ Observe
  BY DEF Next, Works, Delete, Remove

LEMMA NextTyped ==
  ASSUME Typed, Next
  PROVE  Typed' /\ ids' \in Nat /\ ids' >= ids
  <1>1. UploadTypes /\ RequestsFit /\ StageTypes /\ WorkFits /\ SeenTypes /\ deletions \in 0 .. MaxDeletions
    BY TypesAreParts DEF Typed
  <1>2. ids \in Nat
    BY <1>1 DEF UploadTypes
  <1>3. /\ UploadTypes' /\ RequestsFit' /\ StageTypes' /\ WorkFits'
        /\ ids' \in Nat /\ ids' >= ids /\ deletions' \in 0 .. MaxDeletions
    <2>1. CASE UploadStep /\ UNCHANGED <<stageVars, deletions>>
      <3>1. UploadTyped
        BY <1>1, <2>1, UploadStepTypes
      <3>2. StageTypes' /\ WorkFits'
        BY <1>1, <2>1 DEF StageTypes, WorkFits, stageVars
      <3> QED BY <1>1, <2>1, <3>1, <3>2 DEF UploadTyped
    <2>2. CASE Works
      <3>1. StagesTyped /\ UNCHANGED deletions
        BY <1>1, <2>2, ProcessTypes, PublishTypes DEF Works
      <3> QED BY <1>1, <1>2, <3>1 DEF StagesTyped
    <2>3. ASSUME NEW h \in Requests, StartDelete(h)
          PROVE  StagesTyped /\ deletions' \in 0 .. MaxDeletions
      BY <1>1, <2>3, StartDeleteTypes
    <2>4. ASSUME NEW h \in Requests, Remove(h)
          PROVE  StagesTyped /\ deletions' \in 0 .. MaxDeletions
      BY <1>1, <2>4, RemoveTypes
    <2> QED BY <1>2, <2>1, <2>2, <2>3, <2>4, NextCases DEF StagesTyped
  <1>4. SeenTypes'
    <2>1. horizon' \in {ids, horizon} /\ seen' \subseteq seen \cup {"lost", "raced", "halted", "overtaken"}
      BY NextCases DEF Observe
    <2> QED BY <1>1, <1>2, <1>3, <2>1 DEF SeenTypes, Events
  <1>5. TypeOK'
    BY <1>3, <1>4 DEF TypeOK, UploadTypes, StageTypes, SeenTypes
  <1> QED BY <1>3, <1>5 DEF Typed

LEMMA StutterTyped ==
  ASSUME Typed, UNCHANGED vars
  PROVE  Typed'
  <1>1. Record' = Record
    BY DEF Record, vars, uploadVars
  <1> QED BY <1>1 DEF Typed, TypeOK, RequestsFit, WorkFits, vars, uploadVars, stageVars, content, bounds

\* Every variable keeps its type, in every reachable state, for any number of
\* users, requests and chunks.
THEOREM LifecycleTypes == Spec => []TypeOK
  <1>1. Init => Typed
    BY InitTyped
  <1>2. Typed /\ [Next]_vars => Typed'
    BY NextTyped, StutterTyped
  <1>3. Typed => TypeOK
    BY DEF Typed
  <1> QED BY <1>1, <1>2, <1>3, PTL DEF Spec

-----------------------------------------------------------------------------
(* The invariant.  A step of a deletion makes horizon the newest id, and what   *)
(* the invariant says of completed uploads, merges and bitmaps starts anew; all *)
(* other steps only add rows.                                                   *)

Whole == MarksAreRecorded /\ MergesAreWhole /\ CompletedIsWhole

\* No request works on, and no upload is completed with, an id yet to come.
Behind ==
  /\ \A g \in Requests : req'[g].id <= ids
  /\ \A u \in Users : upload'[u].status = "completed" => upload'[u].id <= ids

\* What every step must show; steps of deletions owe nothing more.
Preserved == RecordsHaveIds' /\ RowsAreStored' /\ Behind /\ (~Deleting => Whole')

Critical == {"upsert", "insert", "mark", "select", "compose", "commit"}

\* What a request may become without owing an explanation.
Harmless(g) ==
  \/ req'[g] = req[g]
  \/ /\ req'[g].step \notin Critical
     /\ req'[g].id \in {0, req[g].id} \cup {upload[u].id : u \in Users}
     /\ req'[g].step \in MergeSteps => req'[g].id > 0
     /\ req'[g].step \in DeleteSteps => Deleting \/ ids > 0

Quiet ==
  /\ UNCHANGED <<rows, merged>>
  /\ \A u \in Users : \/ upload'[u] = upload[u]
                      \/ upload'[u] = [id |-> ids + 1, status |-> "uploading"]
  /\ \A g \in Requests : Harmless(g)
  /\ horizon > 0 \/ \A u \in Users : marks'[u] \subseteq rows
  /\ ids' \in Nat /\ ids' >= ids

LEMMA Observed ==
  ASSUME Observe
  PROVE  /\ horizon' = IF Deleting THEN ids ELSE horizon
         /\ seen \subseteq seen'
         /\ "lost" \in seen' \/ objects \subseteq objects'
         /\ Overtaken => "overtaken" \in seen'
  BY DEF Observe

LEMMA IdsAreHandedOut ==
  ASSUME UploadTypes
  PROVE  /\ ids \in Nat
         /\ \A g \in Requests : req[g].id \in 0 .. ids
         /\ \A u \in Users : upload[u].id \in 0 .. ids
  BY DEF UploadTypes, Record

LEMMA QuietPreserves ==
  ASSUME LifecycleInv, Quiet, Observe
  PROVE  Preserved
  <1>0. LifecycleInv /\ UploadTypes /\ SeenTypes
    BY TypesAreParts DEF LifecycleInv, Typed
  <1>1. /\ ids \in Nat /\ \A g \in Requests : req[g].id \in 0 .. ids
        /\ \A u \in Users : upload[u].id \in 0 .. ids
    BY <1>0, IdsAreHandedOut
  <1>2. /\ "lost" \in seen' \/ objects \subseteq objects'
        /\ seen \subseteq seen'
        /\ ~Deleting => horizon' = horizon
    BY Observed
  <1>3. RecordsHaveIds'
    <2>1. \A u \in Users : upload'[u] # NoUpload => upload'[u].id > 0
      BY <1>0, <1>1 DEF LifecycleInv, RecordsHaveIds, Quiet
    <2>2. \A h \in Requests : req'[h].step \in MergeSteps => req'[h].id > 0
      BY <1>0 DEF LifecycleInv, RecordsHaveIds, Quiet, Harmless
    <2>3. Deleting' => ids > 0
      BY <1>0 DEF LifecycleInv, RecordsHaveIds, Quiet, Harmless, Deleting
    <2>4. Deleting' => ids' > 0
      BY <1>1, <2>3 DEF Quiet
    <2>5. NoUpload' = NoUpload
      BY DEF NoUpload
    <2> QED BY <2>1, <2>2, <2>4, <2>5 DEF RecordsHaveIds
  <1>4. RowsAreStored'
    BY <1>0, <1>2 DEF LifecycleInv, RowsAreStored, Quiet, Harmless, Critical
  <1>5. Behind
    <2>1. \A g \in Requests : req'[g].id <= ids
      BY <1>1 DEF Quiet, Harmless
    <2>2. \A u \in Users : upload'[u].status = "completed" => upload'[u].id <= ids
      BY <1>1 DEF Quiet
    <2> QED BY <2>1, <2>2 DEF Behind
  <1>6. ASSUME ~Deleting
        PROVE  Whole'
    <2>1. horizon' = horizon /\ UNCHANGED <<rows, merged>>
      BY <1>2, <1>6 DEF Quiet
    <2>2. MarksAreRecorded'
      BY <1>0, <2>1 DEF LifecycleInv, MarksAreRecorded, Quiet, Harmless, Critical
    <2>3. MergesAreWhole'
      BY <1>0, <1>2, <2>1 DEF LifecycleInv, MergesAreWhole, Quiet, Harmless, Critical
    <2>4. Completed' \subseteq Completed
      BY <2>1 DEF Completed, Quiet
    <2>5. CompletedIsWhole'
      BY <1>0, <1>2, <2>1, <2>4 DEF LifecycleInv, CompletedIsWhole
    <2> QED BY <2>2, <2>3, <2>5 DEF Whole
  <1> QED BY <1>3, <1>4, <1>5, <1>6 DEF Preserved

LEMMA Gone ==
  ASSUME UploadTypes, NEW h \in Requests, NEW step, Goto(h, step)
  PROVE  /\ req'[h].step = step /\ req'[h].id = req[h].id /\ req'[h].user = req[h].user
         /\ req'[h].chunk = req[h].chunk /\ req'[h].sources = req[h].sources
         /\ \A g \in Requests \ {h} : req'[g] = req[g]
  <1>1. req \in [Requests -> Record] /\ req' = [req EXCEPT ![h].step = step]
    BY DEF UploadTypes, Goto
  <1>2. req'[h] = [req[h] EXCEPT !.step = step] /\ \A g \in Requests \ {h} : req'[g] = req[g]
    BY <1>1
  <1> QED BY <1>1, <1>2 DEF Record

LEMMA Replied ==
  ASSUME UploadTypes, NEW h \in Requests, Reply(h)
  PROVE  /\ req'[h].step = "idle" /\ req'[h].id = 0
         /\ \A g \in Requests \ {h} : req'[g] = req[g]
         /\ \A g \in Requests : Harmless(g)
  <1>1. req'[h] = Idle /\ \A g \in Requests \ {h} : req'[g] = req[g]
    BY DEF UploadTypes, Reply
  <1>2. Idle.step = "idle" /\ Idle.id = 0
    BY DEF Idle
  <1> QED BY <1>1, <1>2 DEF Harmless, Critical, MergeSteps, DeleteSteps

\* A step that goes on to a call that needs no explanation.
LEMMA GoneQuietly ==
  ASSUME LifecycleInv, NEW h \in Requests, NEW step \in {"bit", "row", "put", "report", "verify"}, Goto(h, step),
         step = "verify" => req[h].step \in MergeSteps
  PROVE  \A g \in Requests : Harmless(g)
  <1>1. UploadTypes /\ RecordsHaveIds
    BY TypesAreParts DEF LifecycleInv, Typed
  <1>2. /\ req'[h].step = step /\ req'[h].id = req[h].id
        /\ \A g \in Requests \ {h} : req'[g] = req[g]
    BY <1>1, Gone
  <1> QED BY <1>1, <1>2 DEF Harmless, Critical, MergeSteps, DeleteSteps, RecordsHaveIds

\* A request that arrives.
LEMMA ArrivedQuietly ==
  ASSUME UploadTypes, NEW h \in Requests, NEW r, Accept(h, r), r.step \notin Critical,
         r.id \in {0} \cup {upload[u].id : u \in Users},
         r.step \in MergeSteps => r.id > 0, r.step \notin DeleteSteps
  PROVE  \A g \in Requests : Harmless(g)
  <1>1. req'[h] = r /\ \A g \in Requests \ {h} : req'[g] = req[g]
    BY DEF UploadTypes, Accept
  <1> QED BY <1>1 DEF Harmless

\* What else Quiet asks for.
LEMMA QuietRest ==
  ASSUME LifecycleInv, UNCHANGED <<upload, ids, rows, merged>>, \A g \in Requests : Harmless(g),
         horizon > 0 \/ \A u \in Users : marks'[u] \subseteq marks[u] \cup rows
  PROVE  Quiet
  <1>1. UploadTypes /\ MarksAreRecorded
    BY TypesAreParts DEF LifecycleInv, Typed
  <1> QED BY <1>1 DEF Quiet, MarksAreRecorded, UploadTypes

\* The bitmap after a read of the status.
LEMMA UploadedIsRecorded ==
  ASSUME UploadTypes, NEW w \in Users, marks' = [marks EXCEPT ![w] = Uploaded(w)]
  PROVE  \A u \in Users : marks'[u] \subseteq marks[u] \cup rows
  BY DEF UploadTypes, Uploaded

LEMMA QuietSteps ==
  ASSUME LifecycleInv, NEW h \in Requests,
         \/ StartChunk(h) \/ CreateRecord(h) \/ ReadBit(h) \/ MarkChunk(h) \/ ReportChunks(h)
         \/ StartMerge(h) \/ GatherChunks(h) \/ AbortRequest(h)
  PROVE  Quiet
  <1>1. UploadTypes /\ RequestsFit /\ RecordsHaveIds /\ MarksAreRecorded
    BY TypesAreParts DEF LifecycleInv, Typed
  <1>2. ids \in Nat /\ req[h] \in Record /\ (req[h].step \in ChunkSteps \cup MergeSteps => req[h].user \in Users)
    BY <1>1 DEF UploadTypes, RequestsFit
  <1>3. CASE StartChunk(h)
    <2> PICK u \in Users, i \in Chunks :
          /\ Accept(h, [Idle EXCEPT !.step = IF upload[u] = NoUpload THEN "create" ELSE "bit",
                                    !.user = u, !.chunk = i])
          /\ UNCHANGED <<upload, ids, content, marks, outbox, clearing, budget>>
      BY <1>3 DEF StartChunk
    <2> DEFINE r == [Idle EXCEPT !.step = IF upload[u] = NoUpload THEN "create" ELSE "bit",
                                 !.user = u, !.chunk = i]
    <2>1. r.step \in {"create", "bit"} /\ r.id = 0
      BY DEF Idle
    <2> HIDE DEF r
    <2>2. Accept(h, r)
      BY DEF r
    <2>3. \A g \in Requests : Harmless(g)
      BY <1>1, <2>1, <2>2, ArrivedQuietly DEF Critical, MergeSteps, DeleteSteps
    <2> QED BY <2>3, QuietRest DEF content
  <1>4. CASE CreateRecord(h)
    <2>1. CASE upload[req[h].user] # NoUpload
      <3>1. Reply(h) /\ UNCHANGED <<upload, ids, content, marks>>
        BY <1>4, <2>1 DEF CreateRecord
      <3> QED BY <1>1, <3>1, Replied, QuietRest DEF content
    <2>2. CASE upload[req[h].user] = NoUpload
      <3>1. /\ upload' = [upload EXCEPT ![req[h].user] = [id |-> ids + 1, status |-> "uploading"]]
            /\ ids' = ids + 1 /\ Goto(h, "bit") /\ UNCHANGED <<content, marks>>
        BY <1>4, <2>2 DEF CreateRecord
      <3>2. \A g \in Requests : Harmless(g)
        BY <3>1, GoneQuietly
      <3>3. \A u \in Users : \/ upload'[u] = upload[u]
                             \/ upload'[u] = [id |-> ids + 1, status |-> "uploading"]
        BY <1>1, <3>1 DEF UploadTypes
      <3> QED BY <1>1, <1>2, <3>1, <3>2, <3>3 DEF Quiet, content, MarksAreRecorded
    <2> QED BY <2>1, <2>2
  <1>5. CASE ReadBit(h)
    <2> DEFINE seenMark == req[h].chunk \in marks[req[h].user]
               r == [req[h] EXCEPT !.step = "row", !.marked = seenMark]
    <2>1. req' = [req EXCEPT ![h] = r]
      BY <1>5 DEF ReadBit
    <2> HIDE DEF seenMark
    <2>2. r.step = "row" /\ r.id = req[h].id
      BY <1>2 DEF Record
    <2> HIDE DEF r
    <2>3. req'[h] = r /\ \A g \in Requests \ {h} : req'[g] = req[g]
      BY <1>1, <2>1 DEF UploadTypes
    <2>4. \A g \in Requests : Harmless(g)
      BY <2>2, <2>3 DEF Harmless, Critical, MergeSteps, DeleteSteps
    <2> QED BY <1>5, <2>4, QuietRest DEF ReadBit, content
  <1>6. CASE MarkChunk(h)
    <2>1. /\ marks' = [marks EXCEPT ![req[h].user] = @ \cup {req[h].chunk}]
          /\ At(h, "mark") /\ Goto(h, "report") /\ UNCHANGED <<upload, ids, content>>
      BY <1>6 DEF MarkChunk
    <2>2. \A g \in Requests : Harmless(g)
      BY <2>1, GoneQuietly
    <2>3. horizon > 0 \/ req[h].chunk \in rows
      BY <1>1, <2>1 DEF MarksAreRecorded, At
    <2>4. horizon > 0 \/ \A u \in Users : marks'[u] \subseteq marks[u] \cup rows
      BY <1>1, <2>1, <2>3 DEF UploadTypes
    <2> QED BY <2>1, <2>2, <2>4, QuietRest DEF content
  <1>7. CASE ReportChunks(h)
    <2>1. /\ marks' = [marks EXCEPT ![req[h].user] = Uploaded(req[h].user)]
          /\ At(h, "report") /\ Reply(h) /\ UNCHANGED <<upload, ids, content>>
      BY <1>7 DEF ReportChunks
    <2>2. req[h].user \in Users
      BY <1>2, <2>1 DEF At, ChunkSteps
    <2>3. \A u \in Users : marks'[u] \subseteq marks[u] \cup rows
      BY <1>1, <2>1, <2>2, UploadedIsRecorded
    <2> QED BY <1>1, <2>1, <2>3, Replied, QuietRest DEF content
  <1>8. CASE StartMerge(h)
    <2> PICK u \in Users :
          /\ upload[u] # NoUpload
          /\ Accept(h, [Idle EXCEPT !.step = "gather", !.user = u, !.id = upload[u].id])
          /\ UNCHANGED <<upload, ids, content, marks, outbox, clearing, budget>>
      BY <1>8 DEF StartMerge
    <2> DEFINE r == [Idle EXCEPT !.step = "gather", !.user = u, !.id = upload[u].id]
    <2>1. r.step = "gather" /\ r.id = upload[u].id
      BY DEF Idle
    <2> HIDE DEF r
    <2>2. Accept(h, r)
      BY DEF r
    <2>3. upload[u].id > 0
      BY <1>1 DEF RecordsHaveIds
    <2>4. r.step \notin Critical /\ r.step \notin DeleteSteps
      BY <2>1 DEF Critical, DeleteSteps
    <2>5. \A g \in Requests : Harmless(g)
      BY <1>1, <2>1, <2>2, <2>3, <2>4, ArrivedQuietly
    <2> QED BY <2>5, QuietRest DEF content
  <1>9. CASE GatherChunks(h)
    <2>1. /\ marks' = [marks EXCEPT ![req[h].user] = Uploaded(req[h].user)]
          /\ Goto(h, "verify") \/ Reply(h)
      BY <1>9 DEF GatherChunks
    <2>2. At(h, "gather") /\ UNCHANGED <<upload, ids, content>>
      BY <1>9 DEF GatherChunks
    <2>3. req[h].user \in Users /\ req[h].step \in MergeSteps
      BY <1>2, <2>2 DEF At, MergeSteps
    <2>4. \A u \in Users : marks'[u] \subseteq marks[u] \cup rows
      BY <1>1, <2>1, <2>3, UploadedIsRecorded
    <2>5. \A g \in Requests : Harmless(g)
      BY <1>1, <2>1, <2>3, Replied, GoneQuietly
    <2> QED BY <2>2, <2>4, <2>5, QuietRest DEF content
  <1>10. CASE AbortRequest(h)
    BY <1>1, <1>10, Replied, QuietRest DEF AbortRequest, content
  <1> QED BY <1>3, <1>4, <1>5, <1>6, <1>7, <1>8, <1>9, <1>10

\* What is no request's own step.
LEMMA QuietOthers ==
  ASSUME LifecycleInv,
         \/ \E u \in Users : CheckFile(u) \/ ClearMarks(u)
         \/ Crash \/ LoseChunk \/ Works
         \/ \E h \in Requests : StartDelete(h)
  PROVE  Quiet
  <1>1. /\ UploadTypes /\ RequestsFit /\ StageTypes /\ WorkFits
        /\ deletions \in 0 .. MaxDeletions /\ RecordsHaveIds
    BY TypesAreParts DEF LifecycleInv, Typed
  <1>2. ASSUME UNCHANGED req
        PROVE  \A g \in Requests : Harmless(g)
    BY <1>2 DEF Harmless
  <1>3. ASSUME NEW u \in Users, CheckFile(u)
        PROVE  Quiet
    BY <1>1, <1>2, <1>3, UploadedIsRecorded, QuietRest DEF CheckFile, content
  <1>4. ASSUME NEW u \in Users, ClearMarks(u)
        PROVE  Quiet
    <2>1. \A v \in Users : marks'[v] \subseteq marks[v]
      BY <1>1, <1>4 DEF ClearMarks, UploadTypes
    <2> QED BY <1>2, <1>4, <2>1, QuietRest DEF ClearMarks, content
  <1>5. CASE Crash
    <2>1. \A g \in Requests : req'[g] = Idle
      BY <1>5 DEF Crash
    <2>2. Idle.step = "idle" /\ Idle.id = 0
      BY DEF Idle
    <2>3. \A g \in Requests : Harmless(g)
      BY <2>1, <2>2 DEF Harmless, Critical, MergeSteps, DeleteSteps
    <2> QED BY <1>5, <2>3, QuietRest DEF Crash, content
  <1>6. CASE LoseChunk
    <2>1. \A v \in Users : marks'[v] \subseteq marks[v]
      BY <1>1, <1>6 DEF LoseChunk, UploadTypes
    <2> QED BY <1>2, <1>6, <2>1, QuietRest DEF LoseChunk
  <1>7. CASE Works
    <2>1. UNCHANGED <<upload, ids, content, marks, req>>
      BY <1>1, <1>7, ProcessTypes, PublishTypes DEF Works, StagesTyped, uploadVars
    <2> QED BY <1>2, <2>1, QuietRest DEF content
  <1>8. ASSUME NEW h \in Requests, StartDelete(h)
        PROVE  Quiet
    <2>1. /\ UNCHANGED <<upload, ids, content, marks>>
          /\ req'[h].step = "es" /\ \A g \in Requests \ {h} : req'[g] = req[g]
          /\ \E u \in Users : upload[u] # NoUpload /\ req'[h].id = upload[u].id
      BY <1>1, <1>8, StartDeleteTypes DEF StagesTyped
    <2>2. ids > 0
      BY <1>1, <2>1, IdsAreHandedOut DEF RecordsHaveIds
    <2>3. \A g \in Requests : Harmless(g)
      BY <2>1, <2>2 DEF Harmless, Critical, MergeSteps
    <2> QED BY <2>1, <2>3, QuietRest DEF content
  <1> QED BY <1>3, <1>4, <1>5, <1>6, <1>7, <1>8

\* The steps on which the invariant rests.
LEMMA ChunkStepsPreserve ==
  ASSUME LifecycleInv, Observe, NEW h \in Requests,
         ReadRow(h) \/ PutChunk(h) \/ Upsert(h) \/ InsertRow(h)
  PROVE  Preserved
  <1>1. /\ UploadTypes /\ RequestsFit /\ RecordsHaveIds /\ MarksAreRecorded
        /\ MergesAreWhole /\ CompletedIsWhole /\ RowsAreStored
    BY TypesAreParts DEF LifecycleInv, Typed
  <1>2. /\ req[h] \in Record /\ ids \in Nat
        /\ \A g \in Requests : req[g].id \in 0 .. ids
        /\ \A u \in Users : upload[u].id \in 0 .. ids
        /\ rows \subseteq Chunks
    BY <1>1, IdsAreHandedOut DEF UploadTypes
  <1>3. /\ "lost" \in seen' \/ objects \subseteq objects'
        /\ seen \subseteq seen'
        /\ ~Deleting => horizon' = horizon
    BY Observed
  <1>4. /\ UNCHANGED <<upload, ids, marks, merged>>
        /\ \/ Reply(h)
           \/ \E step \in {"put", "report", "mark", "upsert", "insert"} : Goto(h, step)
    BY DEF ReadRow, PutChunk, Upsert, InsertRow, content
  <1>5. /\ \A g \in Requests \ {h} : req'[g] = req[g]
        /\ req'[h].id \in {0, req[h].id}
        /\ req'[h].step \in {"idle", "put", "report", "mark", "upsert", "insert"}
        /\ req'[h].step # "idle" => req'[h].chunk = req[h].chunk
    BY <1>1, <1>4, Gone, Replied
  <1>6. rows' \in {rows, rows \cup {req[h].chunk}} /\ rows' \subseteq Chunks
    BY <1>2 DEF ReadRow, PutChunk, Upsert, InsertRow, content, Record
  <1>7. req[h].step \notin DeleteSteps
    BY DEF ReadRow, PutChunk, Upsert, InsertRow, At, DeleteSteps
  <1>8. Deleting' = Deleting
    BY <1>5, <1>7 DEF Deleting, DeleteSteps
  <1>9. RecordsHaveIds'
    <2>1. \A g \in Requests : req'[g].step \in MergeSteps => req'[g].id > 0
      BY <1>1, <1>5 DEF RecordsHaveIds, MergeSteps
    <2>2. NoUpload' = NoUpload
      BY DEF NoUpload
    <2> QED BY <1>1, <1>4, <1>8, <2>1, <2>2 DEF RecordsHaveIds
  <1>10. RowsAreStored'
    <2>1. CASE ReadRow(h)
      <3>1. req'[h].step \notin {"upsert", "insert"} /\ UNCHANGED <<rows, objects>>
        BY <1>1, <2>1, Gone, Replied DEF ReadRow, content
      <3> QED BY <1>1, <1>3, <1>5, <3>1 DEF RowsAreStored
    <2>2. CASE PutChunk(h)
      <3>1. objects' = objects \cup {req[h].chunk} /\ UNCHANGED rows /\ Goto(h, "upsert")
        BY <2>2 DEF PutChunk
      <3>2. req'[h].chunk \in objects'
        BY <1>1, <3>1, Gone
      <3> QED BY <1>1, <1>3, <1>5, <3>1, <3>2 DEF RowsAreStored
    <2>3. CASE Upsert(h)
      <3>1. At(h, "upsert") /\ UNCHANGED <<rows, objects>>
        BY <2>3 DEF Upsert, content
      <3> QED BY <1>1, <1>3, <1>5, <3>1 DEF RowsAreStored, At
    <2>4. CASE InsertRow(h)
      <3>1. At(h, "insert") /\ rows' = rows \cup {req[h].chunk} /\ UNCHANGED objects
        BY <2>4 DEF InsertRow
      <3>2. req'[h].step \notin {"upsert", "insert"}
        BY <1>1, <2>4, Gone, Replied DEF InsertRow
      <3> QED BY <1>1, <1>3, <1>5, <3>1, <3>2 DEF RowsAreStored, At
    <2> QED BY <2>1, <2>2, <2>3, <2>4
  <1>11. Behind
    BY <1>2, <1>4, <1>5 DEF Behind
  <1>12. ASSUME ~Deleting
         PROVE  Whole'
    <2>1. horizon' = horizon
      BY <1>3, <1>12
    <2>2. req'[h].step = "mark" => req'[h].chunk \in rows'
      <3>1. CASE ReadRow(h)
        <4>1. Reply(h) \/ Goto(h, "put") \/ Goto(h, "report") \/ req[h].chunk \in rows
          BY <3>1 DEF ReadRow
        <4>2. req'[h].step = "mark" => req[h].chunk \in rows
          BY <1>1, <4>1, Gone, Replied
        <4> QED BY <1>5, <1>6, <4>2
      <3>2. CASE PutChunk(h)
        BY <1>1, <3>2, Gone DEF PutChunk
      <3>3. CASE Upsert(h)
        <4>1. req[h].chunk \in rows \/ Goto(h, "insert")
          BY <3>3 DEF Upsert
        <4>2. req'[h].step = "mark" => req[h].chunk \in rows
          BY <1>1, <4>1, Gone
        <4> QED BY <1>5, <1>6, <4>2
      <3>4. CASE InsertRow(h)
        BY <1>5, <3>4 DEF InsertRow
      <3> QED BY <3>1, <3>2, <3>3, <3>4
    <2>3. MarksAreRecorded'
      BY <1>1, <1>4, <1>5, <1>6, <2>1, <2>2 DEF MarksAreRecorded
    <2>4. MergesAreWhole'
      <3> SUFFICES ASSUME NEW g \in Requests, req'[g].id > horizon', "overtaken" \notin seen'
                   PROVE  /\ req'[g].step = "select" => rows' = Chunks
                          /\ req'[g].step = "compose" => req'[g].sources = Chunks
                          /\ req'[g].step = "commit" => merged' = Chunks
        BY DEF MergesAreWhole
      <3>1. CASE g = h
        BY <1>5, <3>1
      <3>2. CASE g # h
        BY <1>1, <1>3, <1>4, <1>5, <1>6, <2>1, <3>2 DEF MergesAreWhole
      <3> QED BY <3>1, <3>2
    <2>5. Completed' = Completed
      BY <1>4, <2>1 DEF Completed
    <2>6. CompletedIsWhole'
      BY <1>1, <1>3, <1>4, <2>5 DEF CompletedIsWhole
    <2> QED BY <2>3, <2>4, <2>6 DEF Whole
  <1> QED BY <1>9, <1>10, <1>11, <1>12 DEF Preserved

LEMMA MergeStepsPreserve ==
  ASSUME LifecycleInv, Observe, NEW h \in Requests,
         VerifyChunks(h) \/ SelectSources(h) \/ Compose(h) \/ CommitMerge(h)
  PROVE  Preserved
  <1>1. /\ UploadTypes /\ RequestsFit /\ RecordsHaveIds /\ MarksAreRecorded
        /\ MergesAreWhole /\ CompletedIsWhole /\ RowsAreStored
    BY TypesAreParts DEF LifecycleInv, Typed
  <1>2. /\ req[h] \in Record /\ ids \in Nat
        /\ \A g \in Requests : req[g].id \in 0 .. ids
        /\ \A u \in Users : upload[u].id \in 0 .. ids
    BY <1>1, IdsAreHandedOut DEF UploadTypes
  <1>3. /\ "lost" \in seen' \/ objects \subseteq objects'
        /\ seen \subseteq seen'
        /\ ~Deleting => horizon' = horizon
        /\ Overtaken => "overtaken" \in seen'
    BY Observed
  <1>4. UNCHANGED <<ids, rows, objects, marks>> /\ req[h].step \in MergeSteps
    BY DEF VerifyChunks, SelectSources, Compose, CommitMerge, content, At, MergeSteps
  <1>5. /\ \A g \in Requests \ {h} : req'[g] = req[g]
        /\ req'[h].id \in {0, req[h].id}
        /\ req'[h].step \in {"idle", "select", "compose", "commit"}
        /\ req'[h].step # "idle" => req'[h].id = req[h].id
    <2>1. CASE SelectSources(h)
      <3> DEFINE r == [req[h] EXCEPT !.step = "compose", !.sources = rows]
      <3>1. req' = [req EXCEPT ![h] = r]
        BY <2>1 DEF SelectSources
      <3>2. r.step = "compose" /\ r.id = req[h].id
        BY <1>2 DEF Record
      <3> HIDE DEF r
      <3>3. req'[h] = r /\ \A g \in Requests \ {h} : req'[g] = req[g]
        BY <1>1, <3>1 DEF UploadTypes
      <3> QED BY <3>2, <3>3
    <2>2. CASE VerifyChunks(h)
      BY <1>1, <2>2, Gone, Replied DEF VerifyChunks
    <2>3. CASE Compose(h)
      BY <1>1, <2>3, Gone, Replied DEF Compose
    <2>4. CASE CommitMerge(h)
      BY <1>1, <2>4, Replied DEF CommitMerge
    <2> QED BY <2>1, <2>2, <2>3, <2>4
  <1>6. \A u \in Users : \/ upload'[u] = upload[u]
                         \/ /\ CommitMerge(h) /\ upload[u].id = req[h].id
                            /\ upload'[u] = [upload[u] EXCEPT !.status = "completed"]
    <2>1. CASE CommitMerge(h)
      <3>1. \/ UNCHANGED upload
            \/ /\ upload[req[h].user].id = req[h].id
               /\ upload' = [upload EXCEPT ![req[h].user].status = "completed"]
        BY <2>1 DEF CommitMerge
      <3> QED BY <1>1, <2>1, <3>1 DEF UploadTypes
    <2>2. CASE UNCHANGED upload
      BY <2>2
    <2> QED BY <2>1, <2>2 DEF VerifyChunks, SelectSources, Compose
  <1>7. /\ \A u \in Users : upload'[u].id = upload[u].id
        /\ \A u \in Users : upload'[u] # upload[u] =>
             CommitMerge(h) /\ upload'[u].id = req[h].id
    <2>1. \A u \in Users : upload[u] \in [id : 0 .. ids, status : {"none", "uploading", "completed"}]
      BY <1>1 DEF UploadTypes
    <2>2. \A u \in Users : [upload[u] EXCEPT !.status = "completed"].id = upload[u].id
      BY <2>1
    <2> QED BY <1>6, <2>2
  <1>8. req[h].id > 0 /\ req[h].step \notin DeleteSteps
    BY <1>1, <1>4 DEF RecordsHaveIds, MergeSteps, DeleteSteps
  <1>9. RecordsHaveIds'
    <2>1. \A g \in Requests : req'[g].step \in MergeSteps => req'[g].id > 0
      BY <1>1, <1>5, <1>8 DEF RecordsHaveIds, MergeSteps
    <2>2. \A u \in Users : upload'[u] # NoUpload => upload'[u].id > 0
      BY <1>1, <1>7, <1>8 DEF RecordsHaveIds
    <2>3. Deleting' = Deleting
      BY <1>5, <1>8 DEF Deleting, DeleteSteps
    <2>4. NoUpload' = NoUpload
      BY DEF NoUpload
    <2> QED BY <1>1, <1>4, <2>1, <2>2, <2>3, <2>4 DEF RecordsHaveIds
  <1>10. RowsAreStored'
    BY <1>1, <1>3, <1>4, <1>5 DEF RowsAreStored
  <1>11. Behind
    BY <1>2, <1>5, <1>7 DEF Behind
  <1>12. ASSUME ~Deleting
         PROVE  Whole'
    <2>1. horizon' = horizon
      BY <1>3, <1>12
    <2>2. MarksAreRecorded'
      BY <1>1, <1>4, <1>5, <2>1 DEF MarksAreRecorded
    \* Whatever is composed is whole, or has been overtaken.
    <2>3. "overtaken" \in seen' \/ UNCHANGED merged \/ merged' = Chunks
      <3>1. CASE Compose(h) /\ merged' # merged
        <4>1. At(h, "compose") /\ merged' = req[h].sources /\ Goto(h, "commit")
          BY <3>1 DEF Compose
        <4>2. req'[h] # req[h]
          BY <1>1, <4>1, Gone DEF At
        <4>3. CASE req[h].id <= horizon /\ req[h].sources # Chunks
          BY <1>3, <4>1, <4>2, <4>3 DEF Overtaken
        <4>4. CASE req[h].id > horizon
          BY <1>1, <1>3, <4>1, <4>4 DEF MergesAreWhole, At
        <4>5. horizon \in Nat
          BY <1>2, TypesAreParts DEF LifecycleInv, Typed, SeenTypes
        <4> QED BY <1>2, <4>1, <4>3, <4>4, <4>5
      <3> QED BY <3>1 DEF VerifyChunks, SelectSources, Compose, CommitMerge, content
    <2>4. req'[h].id > horizon /\ "overtaken" \notin seen' =>
            /\ req'[h].step = "select" => rows = Chunks
            /\ req'[h].step = "compose" => req'[h].sources = Chunks
            /\ req'[h].step = "commit" => merged' = Chunks
      <3> SUFFICES ASSUME req'[h].id > horizon, "overtaken" \notin seen'
                   PROVE  /\ req'[h].step = "select" => rows = Chunks
                          /\ req'[h].step = "compose" => req'[h].sources = Chunks
                          /\ req'[h].step = "commit" => merged' = Chunks
        OBVIOUS
      <3>1. CASE req'[h].step = "idle"
        BY <3>1
      <3>2. CASE VerifyChunks(h)
        <4>1. (Goto(h, "select") /\ rows = Chunks) \/ Reply(h)
          BY <3>2 DEF VerifyChunks, Intact
        <4> QED BY <1>1, <4>1, Gone, Replied
      <3>3. CASE SelectSources(h) /\ req'[h].step # "idle"
        <4>1. req'[h].step = "compose" /\ req'[h].sources = rows
          <5> DEFINE r == [req[h] EXCEPT !.step = "compose", !.sources = rows]
          <5>1. req' = [req EXCEPT ![h] = r]
            BY <3>3 DEF SelectSources
          <5>2. r.step = "compose" /\ r.sources = rows
            BY <1>2 DEF Record
          <5> HIDE DEF r
          <5>3. req'[h] = r
            BY <1>1, <5>1 DEF UploadTypes
          <5> QED BY <5>2, <5>3
        <4>2. At(h, "select")
          BY <3>3 DEF SelectSources
        <4>3. rows = Chunks
          BY <1>1, <1>3, <1>5, <3>3, <4>2 DEF MergesAreWhole, At
        <4> QED BY <4>1, <4>3
      <3>4. CASE Compose(h) /\ req'[h].step # "idle"
        <4>1. At(h, "compose") /\ ((merged' = req[h].sources /\ Goto(h, "commit")) \/ Reply(h))
          BY <3>4 DEF Compose
        <4>2. merged' = req[h].sources /\ req'[h].step = "commit"
          BY <1>1, <3>4, <4>1, Gone, Replied
        <4>3. req[h].sources = Chunks
          BY <1>1, <1>3, <1>5, <3>4, <4>1 DEF MergesAreWhole, At
        <4> QED BY <4>2, <4>3
      <3>5. CASE CommitMerge(h)
        BY <1>1, <3>5, Replied DEF CommitMerge
      <3> QED BY <3>1, <3>2, <3>3, <3>4, <3>5
    <2>5. MergesAreWhole'
      <3> SUFFICES ASSUME NEW g \in Requests, req'[g].id > horizon', "overtaken" \notin seen'
                   PROVE  /\ req'[g].step = "select" => rows' = Chunks
                          /\ req'[g].step = "compose" => req'[g].sources = Chunks
                          /\ req'[g].step = "commit" => merged' = Chunks
        BY DEF MergesAreWhole
      <3>1. CASE g = h
        BY <1>4, <2>1, <2>4, <3>1
      <3>2. CASE g # h
        BY <1>1, <1>3, <1>4, <1>5, <2>1, <2>3, <3>2 DEF MergesAreWhole
      <3> QED BY <3>1, <3>2
    <2>6. CompletedIsWhole'
      <3> SUFFICES ASSUME Completed' # {}, "overtaken" \notin seen'
                   PROVE  merged' = Chunks
        BY DEF CompletedIsWhole
      <3>1. PICK u \in Users : upload'[u].status = "completed" /\ upload'[u].id > horizon
        BY <2>1 DEF Completed
      <3>2. CASE upload'[u] = upload[u]
        <4>1. u \in Completed
          BY <3>1, <3>2 DEF Completed
        <4>2. merged = Chunks
          BY <1>1, <1>3, <4>1 DEF CompletedIsWhole
        <4> QED BY <2>3, <4>2
      <3>3. CASE upload'[u] # upload[u]
        <4>1. CommitMerge(h) /\ req[h].id > horizon
          BY <1>7, <3>1, <3>3
        <4>2. merged = Chunks /\ UNCHANGED merged
          BY <1>1, <1>3, <4>1 DEF MergesAreWhole, CommitMerge, At, content
        <4> QED BY <4>2
      <3> QED BY <3>2, <3>3
    <2> QED BY <2>2, <2>5, <2>6 DEF Whole
  <1> QED BY <1>9, <1>10, <1>11, <1>12 DEF Preserved

LEMMA RemovePreserves ==
  ASSUME LifecycleInv, Observe, NEW h \in Requests, Remove(h)
  PROVE  Preserved /\ Deleting
  <1>1. /\ UploadTypes /\ RequestsFit /\ StageTypes /\ WorkFits /\ RecordsHaveIds /\ RowsAreStored
    BY TypesAreParts DEF LifecycleInv, Typed
  <1>2. /\ UNCHANGED <<ids, objects>> /\ rows' \subseteq rows
        /\ Moves(h) /\ req[h].step \in DeleteSteps
        /\ \A u \in Users : upload'[u] \in {upload[u], NoUpload}
    BY <1>1, RemoveTypes DEF StagesTyped
  <1>3. \/ Reply(h)
        \/ \E step \in DeleteSteps : Goto(h, step)
    BY <1>2 DEF Remove, DeleteFromIndex, DeleteVectors, DeleteChunkRows, DeleteTasks, DeleteMark,
                DeleteObject, DeleteRecord, RemovalIgnored, AbortDelete, DeleteSteps
  <1>4. /\ \A g \in Requests \ {h} : req'[g] = req[g]
        /\ req'[h].id \in {0, req[h].id} /\ req'[h].step \in {"idle"} \cup DeleteSteps
    BY <1>1, <1>3, Gone, Replied
  <1>5. Deleting
    BY <1>2 DEF Deleting
  <1>6. RecordsHaveIds'
    <2>1. \A g \in Requests : req'[g].step \in MergeSteps => req'[g].id > 0
      BY <1>1, <1>4 DEF RecordsHaveIds, MergeSteps, DeleteSteps
    <2>2. NoUpload' = NoUpload
      BY DEF NoUpload
    <2> QED BY <1>1, <1>2, <1>5, <2>1, <2>2 DEF RecordsHaveIds
  <1>7. RowsAreStored'
    <2>1. req'[h].step \notin {"upsert", "insert"}
      BY <1>4 DEF DeleteSteps
    <2> QED BY <1>1, <1>2, <1>4, <2>1, Observed DEF RowsAreStored
  <1>8. Behind
    <2>1. ids \in Nat /\ \A g \in Requests : req[g].id \in 0 .. ids
      BY <1>1, IdsAreHandedOut
    <2>2. \A u \in Users : upload[u].id \in 0 .. ids
      BY <1>1, IdsAreHandedOut
    <2>3. NoUpload.status # "completed"
      BY DEF NoUpload
    <2> QED BY <1>2, <1>4, <2>1, <2>2, <2>3 DEF Behind
  <1> QED BY <1>5, <1>6, <1>7, <1>8 DEF Preserved

\* What was known of young uploads is forgotten when a deletion makes a step.
LEMMA HorizonMoves ==
  ASSUME LifecycleInv, Observe, Deleting, Behind, ids' \in Nat, UploadTypes'
  PROVE  Whole'
  <1>1. horizon' = ids /\ ids \in Nat /\ ids > 0
    BY Observed, TypesAreParts DEF LifecycleInv, Typed, UploadTypes, RecordsHaveIds
  <1>2. MarksAreRecorded'
    BY <1>1 DEF MarksAreRecorded
  <1>3. MergesAreWhole'
    <2>1. \A g \in Requests : req'[g].id \in Nat
      BY DEF UploadTypes, Record
    <2> QED BY <1>1, <2>1 DEF MergesAreWhole, Behind
  <1>4. CompletedIsWhole'
    <2>1. \A u \in Users : upload'[u].id \in Nat
      BY DEF UploadTypes
    <2>2. Completed' = {}
      BY <1>1, <2>1 DEF Completed, Behind
    <2> QED BY <2>2 DEF CompletedIsWhole
  <1> QED BY <1>2, <1>3, <1>4 DEF Whole

LEMMA NextPreserves ==
  ASSUME LifecycleInv, Next
  PROVE  LifecycleInv'
  <1>1. Typed' /\ ids' \in Nat
    BY NextTyped DEF LifecycleInv
  <1>2. UploadTypes'
    BY <1>1 DEF Typed, TypeOK, UploadTypes
  <1>3. Observe
    BY NextCases
  <1>4. Preserved
    <2>1. ASSUME NEW h \in Requests, HandleChunk(h) \/ HandleMerge(h) \/ AbortRequest(h)
          PROVE  Preserved
      BY <1>3, <2>1, QuietSteps, QuietPreserves, ChunkStepsPreserve, MergeStepsPreserve
         DEF HandleChunk, HandleMerge
    <2>2. CASE UploadStep
      BY <1>3, <2>1, <2>2, QuietOthers, QuietPreserves DEF UploadStep
    <2>3. CASE Works \/ \E h \in Requests : StartDelete(h)
      BY <1>3, <2>3, QuietOthers, QuietPreserves
    <2>4. ASSUME NEW h \in Requests, Remove(h)
          PROVE  Preserved
      BY <1>3, <2>4, RemovePreserves
    <2> QED BY <2>2, <2>3, <2>4, NextCases
  <1>5. Whole'
    BY <1>1, <1>2, <1>3, <1>4, HorizonMoves DEF Preserved
  <1> QED BY <1>1, <1>4, <1>5 DEF LifecycleInv, Whole, Preserved

LEMMA StutterPreserves ==
  ASSUME LifecycleInv, UNCHANGED vars
  PROVE  LifecycleInv'
  <1>1. Typed'
    BY StutterTyped DEF LifecycleInv
  <1>2. UNCHANGED <<upload, ids, rows, objects, merged, marks, req, horizon, seen>>
    BY DEF vars, uploadVars, content
  <1>3. NoUpload' = NoUpload /\ Completed' = Completed /\ Deleting' = Deleting
    BY <1>2 DEF NoUpload, Completed, Deleting
  <1>4. RecordsHaveIds' /\ RowsAreStored' /\ MarksAreRecorded'
    BY <1>2, <1>3 DEF LifecycleInv, RecordsHaveIds, RowsAreStored, MarksAreRecorded
  <1>5. MergesAreWhole' /\ CompletedIsWhole'
    BY <1>2, <1>3 DEF LifecycleInv, MergesAreWhole, CompletedIsWhole
  <1> QED BY <1>1, <1>4, <1>5 DEF LifecycleInv

LEMMA InitPreserves ==
  ASSUME Init
  PROVE  LifecycleInv
  <1>1. Typed /\ \A h \in Requests : req[h] = Idle
    BY InitTyped
  <1>2. Idle.step = "idle" /\ Idle.id = 0
    BY DEF Idle
  <1>3. rows \subseteq objects
    BY DEF Init, InitEmpty, InitUploaded, InitIndexed, HasUploaded, UploadInit
  <1>4. \A u \in Users : marks[u] \subseteq rows
    BY DEF Init, InitEmpty, InitUploaded, InitIndexed, HasUploaded, UploadInit
  <1>5. \A u \in Users : upload[u] # NoUpload => upload[u].id > 0
    BY DEF Init, InitEmpty, InitUploaded, InitIndexed, HasUploaded, UploadInit, NoUpload
  <1>6. CompletedIsWhole
    BY DEF Init, InitEmpty, InitUploaded, InitIndexed, HasUploaded, UploadInit, NoUpload,
           CompletedIsWhole, Completed
  <1>7. RecordsHaveIds
    BY <1>1, <1>2, <1>5 DEF RecordsHaveIds, Deleting, MergeSteps, DeleteSteps
  <1>8. RowsAreStored /\ MarksAreRecorded /\ MergesAreWhole
    BY <1>1, <1>2, <1>3, <1>4 DEF RowsAreStored, MarksAreRecorded, MergesAreWhole
  <1> QED BY <1>1, <1>6, <1>7, <1>8 DEF LifecycleInv

THEOREM LifecycleInvariant == Spec => []LifecycleInv
  <1>1. Init => LifecycleInv
    BY InitPreserves
  <1>2. LifecycleInv /\ [Next]_vars => LifecycleInv'
    BY NextPreserves, StutterPreserves
  <1> QED BY <1>1, <1>2, PTL DEF Spec

\* A chunk_info row has its object unless an object was lost, and a bitmap its
\* rows until a document is deleted, however many requests overlap, fail or die.
THEOREM UploadedStaysStored == Spec => []UploadedIsStored
  <1>1. LifecycleInv => UploadedIsStored
    BY DEF LifecycleInv, UploadedIsStored, RecordedIsStored, RowsAreStored, MarksAreRecorded
  <1> QED BY <1>1, LifecycleInvariant, PTL

\* A completed upload has a merged object of all chunks unless a merge was
\* overtaken by a deletion.
THEOREM CompletedStaysWhole == Spec => []CompletedIsWhole
  <1>1. LifecycleInv => CompletedIsWhole
    BY DEF LifecycleInv
  <1> QED BY <1>1, LifecycleInvariant, PTL

-----------------------------------------------------------------------------
(* Deletions: what they leave, and where the tasks of an upload are.  Both are  *)
(* claims about behaviours in which nothing ran while a deletion was under way. *)

\* No user has a record of the document.
NoRecord == \A u \in Users : upload[u] = NoUpload

\* The steps of a deletion whose first removal was made.
Begun == DeleteSteps \ {"es"}

\* What a deletion has removed stays removed while it goes on.
DeletionsRemove ==
  \A h \in Requests :
    /\ req[h].step \in Begun => "searchable" \notin artifacts /\ horizon = ids
    /\ req[h].step \in Begun \ {"vectors"} => "vectors" \notin artifacts
    /\ req[h].step \in Begun \ {"vectors", "chunks"} => rows = {}
    /\ req[h].step \in {"mark.del", "object", "record"} => tracked = NoTasks /\ outbox = "none"

\* Nothing is left of the document, and nothing is under way that would bring it back.
NothingIsLeft ==
  /\ artifacts \cap {"searchable", "vectors"} = {}
  /\ rows = {}
  /\ tracked = NoTasks /\ outbox = "none"
  /\ messages = {} /\ work = NoWork
  /\ \A d \in Dispatchers : ~DispatcherAt(d, "claimed")
  /\ \A h \in Requests : req[h].step \in {"idle", "create"}

Deserted == "raced" \notin seen => DeletionsRemove /\ (NoRecord => NothingIsLeft)

\* The task of a stage waits in Kafka, or has ended.
Going(s) == s \in messages \/ tracked[s] \in {"SUCCESS", "DEAD"}

\* A stage whose task is SUCCESS, or about to be.
Passed(s) == tracked[s] = "SUCCESS" \/ (work.stage = s /\ work.step = "done")

\* Each stage hands the document on to the next, and the last one to the index.
TasksGoOn ==
  /\ Promised => Going("parse")
  /\ \A s \in {"parse", "chunk", "embed"} : Passed(s) => Going(NextStage[s])
  /\ Passed("index") \/ work.step = "cleanup" =>
       "searchable" \in artifacts \/ \E h \in Requests : req[h].step \in Begun
  /\ work.step \in {"rows", "bulk", "cleanup"} => work.stage = "index"
  /\ work # NoWork => work.stage \in messages
  /\ Completed # {} => outbox # "none"

Pursued == seen \cap {"raced", "halted"} = {} => TasksGoOn

AfterInv == LifecycleInv /\ Deserted /\ Pursued

\* What a request for an upload does to a document, at most.
Acts(h) ==
  /\ \A g \in Requests \ {h} : req'[g] = req[g]
  /\ req[h].step \in {"idle"} \cup ChunkSteps \cup MergeSteps
  /\ req'[h].step \in {"idle"} \cup ChunkSteps \cup MergeSteps
  /\ req[h].step = "idle" => UNCHANGED <<upload, ids, rows, outbox>>
  /\ req[h].step \in {"idle", "create"} => UNCHANGED <<rows, outbox>>
  /\ req[h].step \in {"idle", "create"} =>
       req'[h].step \in {"idle", "create"} \/ \E u \in Users : upload'[u] # NoUpload
  /\ \A u \in Users : upload[u] # NoUpload => upload'[u] # NoUpload
  /\ \A u \in Users : upload'[u].status = "completed" => upload'[u] = upload[u] \/ outbox' # "none"
  /\ outbox' \in {outbox, "pending"} /\ (outbox = "published" => outbox' = "published")

\* The steps that leave a record and its tasks as they are.
LEMMA CalmActs ==
  ASSUME UploadTypes, NEW h \in Requests,
         \/ ReadBit(h) \/ ReadRow(h) \/ PutChunk(h) \/ Upsert(h) \/ InsertRow(h)
         \/ MarkChunk(h) \/ ReportChunks(h) \/ GatherChunks(h) \/ VerifyChunks(h)
         \/ SelectSources(h) \/ Compose(h) \/ AbortRequest(h)
  PROVE  Acts(h)
  <1>1. req[h].step \in ChunkSteps \cup MergeSteps /\ UNCHANGED <<upload, ids, outbox>>
    BY DEF ReadBit, ReadRow, PutChunk, Upsert, InsertRow, MarkChunk, ReportChunks, GatherChunks,
           VerifyChunks, SelectSources, Compose, AbortRequest, At, ChunkSteps, MergeSteps, content
  <1>2. req[h].step = "create" => AbortRequest(h)
    BY DEF ReadBit, ReadRow, PutChunk, Upsert, InsertRow, MarkChunk, ReportChunks, GatherChunks,
           VerifyChunks, SelectSources, Compose, At
  <1>3. /\ \A g \in Requests \ {h} : req'[g] = req[g]
        /\ req'[h].step \in {"idle"} \cup ChunkSteps \cup MergeSteps
        /\ AbortRequest(h) => req'[h].step = "idle" /\ UNCHANGED rows
    <2>1. CASE ReadBit(h) \/ SelectSources(h)
      <3>1. PICK r : /\ req' = [req EXCEPT ![h] = r] /\ r.step \in ChunkSteps \cup MergeSteps
        <4>1. req[h] \in Record
          BY DEF UploadTypes
        <4>2. CASE ReadBit(h)
          <5> DEFINE marked == req[h].chunk \in marks[req[h].user]
                     r == [req[h] EXCEPT !.step = "row", !.marked = marked]
          <5>1. req' = [req EXCEPT ![h] = r]
            BY <4>2 DEF ReadBit
          <5> HIDE DEF marked
          <5>2. r.step = "row"
            BY <4>1 DEF Record
          <5> HIDE DEF r
          <5> QED BY <5>1, <5>2 DEF ChunkSteps
        <4>3. CASE SelectSources(h)
          <5> DEFINE r == [req[h] EXCEPT !.step = "compose", !.sources = rows]
          <5>1. req' = [req EXCEPT ![h] = r]
            BY <4>3 DEF SelectSources
          <5>2. r.step = "compose"
            BY <4>1 DEF Record
          <5> HIDE DEF r
          <5> QED BY <5>1, <5>2 DEF MergeSteps
        <4> QED BY <2>1, <4>2, <4>3
      <3>2. req'[h] = r /\ \A g \in Requests \ {h} : req'[g] = req[g]
        BY <3>1 DEF UploadTypes
      <3>3. ~AbortRequest(h)
        <4>1. CASE ReadBit(h)
          BY <3>1, <3>2, <4>1, Replied DEF AbortRequest, ChunkSteps, MergeSteps
        <4>2. CASE SelectSources(h)
          BY <3>1, <3>2, <4>2, Replied DEF AbortRequest, ChunkSteps, MergeSteps
        <4> QED BY <2>1, <4>1, <4>2
      <3> QED BY <3>1, <3>2, <3>3
    <2>2. CASE AbortRequest(h)
      BY <2>2, Replied DEF AbortRequest, content
    <2>3. CASE ~AbortRequest(h) /\ \/ Reply(h)
                                   \/ \E step \in ChunkSteps \cup MergeSteps : Goto(h, step)
      BY <2>3, Replied, Gone
    <2> QED BY <2>1, <2>2, <2>3
            DEF ReadRow, PutChunk, Upsert, InsertRow, MarkChunk, ReportChunks, GatherChunks,
                VerifyChunks, Compose, ChunkSteps, MergeSteps
  <1>4. "idle" \notin ChunkSteps \cup MergeSteps
    BY DEF ChunkSteps, MergeSteps
  <1> QED BY <1>1, <1>2, <1>3, <1>4 DEF Acts

LEMMA RequestActs ==
  ASSUME UploadTypes, RequestsFit, RecordsHaveIds, NEW h \in Requests,
         HandleChunk(h) \/ HandleMerge(h) \/ AbortRequest(h)
  PROVE  Acts(h)
  <1>1. "idle" \notin ChunkSteps \cup MergeSteps /\ "create" \in ChunkSteps
        /\ "bit" \in ChunkSteps /\ "gather" \in MergeSteps
    BY DEF ChunkSteps, MergeSteps
  <1>2. ASSUME NEW r, Accept(h, r), UNCHANGED <<upload, ids, content, outbox>>,
               r.step \in ChunkSteps \cup MergeSteps,
               r.step = "create" \/ \E u \in Users : upload[u] # NoUpload
        PROVE  Acts(h)
    <2>1. req'[h] = r /\ \A g \in Requests \ {h} : req'[g] = req[g]
      BY <1>2 DEF UploadTypes, Accept
    <2> QED BY <1>1, <1>2, <2>1 DEF Acts, Accept, At, content
  <1>3. CASE StartChunk(h)
    <2> PICK u \in Users, i \in Chunks :
          /\ Accept(h, [Idle EXCEPT !.step = IF upload[u] = NoUpload THEN "create" ELSE "bit",
                                    !.user = u, !.chunk = i])
          /\ UNCHANGED <<upload, ids, content, marks, outbox, clearing, budget>>
      BY <1>3 DEF StartChunk
    <2> DEFINE r == [Idle EXCEPT !.step = IF upload[u] = NoUpload THEN "create" ELSE "bit",
                                 !.user = u, !.chunk = i]
    <2>1. r.step = IF upload[u] = NoUpload THEN "create" ELSE "bit"
      BY DEF Idle
    <2> HIDE DEF r
    <2>2. Accept(h, r)
      BY DEF r
    <2> QED BY <1>1, <1>2, <2>1, <2>2
  <1>4. CASE StartMerge(h)
    <2> PICK u \in Users :
          /\ upload[u] # NoUpload
          /\ Accept(h, [Idle EXCEPT !.step = "gather", !.user = u, !.id = upload[u].id])
          /\ UNCHANGED <<upload, ids, content, marks, outbox, clearing, budget>>
      BY <1>4 DEF StartMerge
    <2> DEFINE r == [Idle EXCEPT !.step = "gather", !.user = u, !.id = upload[u].id]
    <2>1. r.step = "gather"
      BY DEF Idle
    <2> HIDE DEF r
    <2>2. Accept(h, r)
      BY DEF r
    <2> QED BY <1>1, <1>2, <2>1, <2>2
  <1>5. CASE CreateRecord(h)
    <2>1. req[h].step = "create" /\ UNCHANGED <<content, marks, outbox>>
      BY <1>5 DEF CreateRecord, At
    <2>2. req[h].user \in Users
      BY <1>1, <2>1 DEF RequestsFit
    <2>3. CASE upload[req[h].user] # NoUpload
      <3>1. Reply(h) /\ UNCHANGED <<upload, ids>>
        BY <1>5, <2>3 DEF CreateRecord
      <3> QED BY <1>1, <2>1, <3>1, Replied DEF Acts, content
    <2>4. CASE upload[req[h].user] = NoUpload
      <3>1. /\ upload' = [upload EXCEPT ![req[h].user] = [id |-> ids + 1, status |-> "uploading"]]
            /\ Goto(h, "bit")
        BY <1>5, <2>4 DEF CreateRecord
      <3>2. /\ upload'[req[h].user].status = "uploading"
            /\ \A u \in Users \ {req[h].user} : upload'[u] = upload[u]
        BY <2>2, <3>1 DEF UploadTypes
      <3>3. upload'[req[h].user] # NoUpload
        BY <3>2 DEF NoUpload
      <3>4. \A u \in Users : upload'[u].status = "completed" => upload'[u] = upload[u]
        BY <3>2
      <3>5. req'[h].step = "bit" /\ \A g \in Requests \ {h} : req'[g] = req[g]
        BY <3>1, Gone
      <3> QED BY <1>1, <2>1, <2>2, <2>4, <3>2, <3>3, <3>4, <3>5 DEF Acts, content
    <2> QED BY <2>3, <2>4
  <1>6. CASE CommitMerge(h)
    <2>1. /\ req[h].step = "commit" /\ Reply(h) /\ UNCHANGED <<ids, content>>
          /\ \/ /\ upload[req[h].user].id = req[h].id
                /\ upload' = [upload EXCEPT ![req[h].user].status = "completed"]
                /\ outbox' = Enqueued
             \/ UNCHANGED <<upload, outbox>>
      BY <1>6 DEF CommitMerge, At
    <2>2. Enqueued \in {outbox, "pending"} /\ Enqueued # "none"
          /\ (outbox = "published" => Enqueued = "published")
      BY DEF Enqueued
    <2>3. \A u \in Users : upload[u] # NoUpload => upload'[u] # NoUpload
      <3> SUFFICES ASSUME NEW u \in Users, upload[u] # NoUpload,
                          upload' = [upload EXCEPT ![req[h].user].status = "completed"]
                   PROVE  upload'[u] # NoUpload
        BY <2>1
      <3>1. upload'[u] = upload[u] \/ upload'[u] = [upload[u] EXCEPT !.status = "completed"]
        BY DEF UploadTypes
      <3>2. upload[u] \in [id : 0 .. ids, status : {"none", "uploading", "completed"}]
        BY DEF UploadTypes
      <3> QED BY <3>1, <3>2 DEF NoUpload
    <2>4. /\ req'[h].step = "idle" /\ \A g \in Requests \ {h} : req'[g] = req[g]
          /\ req[h].step \in MergeSteps
      BY <2>1, Replied DEF MergeSteps
    <2> QED BY <1>1, <2>1, <2>2, <2>3, <2>4 DEF Acts
  <1> QED BY <1>3, <1>4, <1>5, <1>6, CalmActs DEF HandleChunk, HandleMerge

\* What nothing ran beside.
LEMMA Unraced ==
  ASSUME Observe, "raced" \notin seen'
  PROVE  /\ "raced" \notin seen
         /\ Deleting => clearing = {} /\ messages = {} /\ work = NoWork
         /\ Deleting => \A d \in Dispatchers : ~DispatcherAt(d, "claimed")
         /\ \A h, g \in Requests : h # g /\ req[g].step \in DeleteSteps => req[h].step = "idle"
         /\ horizon' = IF Deleting THEN ids ELSE horizon
  <1>1. ~Busy /\ "raced" \notin seen
    BY DEF Observe
  <1> QED BY <1>1, Observed DEF Busy, At

LEMMA Unhalted ==
  ASSUME Observe, "halted" \notin seen'
  PROVE  /\ "halted" \notin seen
         /\ \A h \in Requests : req[h].step \in DeleteSteps \ {"record"} => req'[h] # Idle
  BY DEF Observe, Halts

\* What a request for an upload, a reader of the bitmap, a crash or a loss changes.
Uploads ==
  \/ \E h \in Requests : Acts(h)
  \/ /\ UNCHANGED <<upload, ids, rows, outbox>>
     /\ UNCHANGED req \/ \A h \in Requests : req'[h] = Idle

LEMMA UploadStepActs ==
  ASSUME UploadTypes, RequestsFit, RecordsHaveIds, UploadStep
  PROVE  Uploads
  <1>1. ASSUME NEW h \in Requests, HandleChunk(h) \/ HandleMerge(h) \/ AbortRequest(h)
        PROVE  Uploads
    BY <1>1, RequestActs DEF Uploads
  <1>2. ASSUME NEW u \in Users, CheckFile(u) \/ ClearMarks(u)
        PROVE  Uploads
    BY <1>2 DEF CheckFile, ClearMarks, content, Uploads
  <1>3. CASE Crash \/ LoseChunk
    BY <1>3 DEF Crash, LoseChunk, content, Uploads
  <1> QED BY <1>1, <1>2, <1>3 DEF UploadStep

\* While a deletion is alone, an upload can only be asked for.
LEMMA UploadsWait ==
  ASSUME Observe, "raced" \notin seen', Uploads, Deleting
  PROVE  /\ UNCHANGED <<upload, ids, rows, outbox>>
         /\ \A g \in Requests : req'[g].step \in DeleteSteps => req'[g] = req[g]
         /\ \A g \in Requests : req[g].step \in DeleteSteps => req'[g] \in {req[g], Idle}
  <1>1. "idle" \notin DeleteSteps /\ DeleteSteps \cap (ChunkSteps \cup MergeSteps) = {} /\ Idle.step = "idle"
    BY DEF DeleteSteps, ChunkSteps, MergeSteps, Idle
  <1>2. ASSUME NEW h \in Requests, Acts(h)
        PROVE  /\ UNCHANGED <<upload, ids, rows, outbox>>
               /\ \A g \in Requests : req'[g].step \in DeleteSteps => req'[g] = req[g]
               /\ \A g \in Requests : req[g].step \in DeleteSteps => req'[g] = req[g]
    <2>1. PICK g \in Requests : req[g].step \in DeleteSteps
      BY DEF Deleting
    <2>2. h # g
      BY <1>1, <1>2, <2>1 DEF Acts
    <2>3. req[h].step = "idle"
      BY <2>1, <2>2, Unraced
    <2> QED BY <1>1, <1>2, <2>3 DEF Acts
  <1> QED BY <1>1, <1>2 DEF Uploads

LEMMA UploadsDesert ==
  ASSUME AfterInv, Observe, UploadStep, UNCHANGED stageVars
  PROVE  Deserted'
  <1>1. UploadTypes /\ RequestsFit /\ RecordsHaveIds
    BY TypesAreParts DEF AfterInv, LifecycleInv, Typed
  <1>2. Uploads /\ UNCHANGED <<messages, tracked, work, artifacts, dispatch>>
    BY <1>1, UploadStepActs DEF stageVars
  <1>3. SUFFICES ASSUME "raced" \notin seen'
                 PROVE  DeletionsRemove' /\ (NoRecord' => NothingIsLeft')
    BY DEF Deserted
  <1>4. DeletionsRemove /\ (NoRecord => NothingIsLeft)
    BY <1>3, Unraced DEF AfterInv, Deserted
  <1>5. NoTasks' = NoTasks /\ NoUpload' = NoUpload
    BY DEF NoTasks, NoUpload
  <1>6. DeletionsRemove'
    <2>1. CASE Deleting
      <3>1. horizon' = ids
        BY <1>3, <2>1, Unraced
      <3>2. /\ UNCHANGED <<upload, ids, rows, outbox>>
            /\ \A g \in Requests : req'[g].step \in DeleteSteps => req'[g] = req[g]
        BY <1>2, <1>3, <2>1, UploadsWait
      <3>3. Begun \subseteq DeleteSteps /\ {"mark.del", "object", "record"} \subseteq DeleteSteps
        BY DEF Begun, DeleteSteps
      <3>4. Begun' = Begun
        BY DEF Begun, DeleteSteps
      <3> QED BY <1>2, <1>4, <1>5, <3>1, <3>2, <3>3, <3>4 DEF DeletionsRemove
    <2>2. CASE ~Deleting
      <3>1. "idle" \notin DeleteSteps /\ DeleteSteps \cap (ChunkSteps \cup MergeSteps) = {} /\ Idle.step = "idle"
        BY DEF DeleteSteps, ChunkSteps, MergeSteps, Idle
      <3>2. \A g \in Requests : req'[g].step \notin DeleteSteps
        <4>1. ASSUME NEW h \in Requests, Acts(h)
              PROVE  \A g \in Requests : req'[g].step \notin DeleteSteps
          BY <2>2, <3>1, <4>1 DEF Acts, Deleting
        <4> QED BY <1>2, <2>2, <3>1, <4>1 DEF Uploads, Deleting
      <3> QED BY <3>2 DEF DeletionsRemove, Begun, DeleteSteps
    <2> QED BY <2>1, <2>2
  <1>7. ASSUME NoRecord'
        PROVE  NothingIsLeft'
    <2>1. NoRecord /\ NothingIsLeft
      <3>1. ASSUME NEW h \in Requests, Acts(h)
            PROVE  NoRecord
        BY <1>5, <1>7, <3>1 DEF NoRecord, Acts
      <3> QED BY <1>2, <1>4, <1>5, <1>7, <3>1 DEF NoRecord, Uploads
    <2>2. UNCHANGED <<rows, outbox>> /\ \A g \in Requests : req'[g].step \in {"idle", "create"}
      <3>1. ASSUME NEW h \in Requests, Acts(h)
            PROVE  UNCHANGED <<rows, outbox>> /\ \A g \in Requests : req'[g].step \in {"idle", "create"}
        <4>1. req[h].step \in {"idle", "create"}
          BY <2>1 DEF NothingIsLeft
        <4>2. \A u \in Users : upload'[u] = NoUpload
          BY <1>5, <1>7 DEF NoRecord
        <4>3. req'[h].step \in {"idle", "create"} /\ UNCHANGED <<rows, outbox>>
          BY <3>1, <4>1, <4>2 DEF Acts
        <4> QED BY <2>1, <3>1, <4>3 DEF Acts, NothingIsLeft
      <3>2. Idle.step = "idle"
        BY DEF Idle
      <3> QED BY <1>2, <2>1, <3>1, <3>2 DEF Uploads, NothingIsLeft
    <2>3. NoWork' = NoWork
      BY DEF NoWork
    <2> QED BY <1>2, <1>5, <2>1, <2>2, <2>3 DEF NothingIsLeft, DispatcherAt
  <1> QED BY <1>6, <1>7

\* Where nothing waits, no stage does anything.
LEMMA WorkNeeds ==
  ASSUME Works, messages = {}, work = NoWork
  PROVE  PublishOutbox
  <1>1. NoWork.step = "idle"
    BY DEF NoWork
  <1> QED BY <1>1 DEF Works, Process, Deliver, WorkerFails, StageStep, ParseDocument, ClearChunks, CreateChunks,
                   LoadWindow, CacheVectors, LoadDocuments, IndexDocuments, CleanUpIndex, SendNext,
                   SucceedTask, FailTask

LEMMA WorksDesert ==
  ASSUME AfterInv, Observe, Works
  PROVE  Deserted'
  <1>1. UploadTypes /\ RequestsFit /\ StageTypes /\ WorkFits
    BY TypesAreParts DEF AfterInv, LifecycleInv, Typed
  <1>2. UNCHANGED <<upload, ids, rows, req>>
    BY <1>1, ProcessTypes, PublishTypes DEF Works, StagesTyped, uploadVars, content
  <1>3. SUFFICES ASSUME "raced" \notin seen'
                 PROVE  DeletionsRemove' /\ (NoRecord' => NothingIsLeft')
    BY DEF Deserted
  <1>4. DeletionsRemove /\ (NoRecord => NothingIsLeft)
    BY <1>3, Unraced DEF AfterInv, Deserted
  <1>5. NoRecord' = NoRecord
    BY <1>2 DEF NoRecord, NoUpload
  <1>6. (Deleting \/ NothingIsLeft) =>
          /\ Published /\ messages' = messages
          /\ \A d \in Dispatchers : ~DispatcherAt(d, "claimed")
    <2> SUFFICES ASSUME Deleting \/ NothingIsLeft
                 PROVE  /\ Published /\ messages' = messages
                        /\ \A d \in Dispatchers : ~DispatcherAt(d, "claimed")
      OBVIOUS
    <2>1. /\ messages = {} /\ work = NoWork
          /\ \A d \in Dispatchers : ~DispatcherAt(d, "claimed")
      BY <1>3, Unraced DEF NothingIsLeft
    <2>2. Published
      BY <1>1, <2>1, WorkNeeds, Publishes
    <2> QED BY <2>1, <2>2 DEF Published
  <1>7. DeletionsRemove'
    <2>1. CASE Deleting
      <3>1. horizon' = ids
        BY <1>3, <2>1, Unraced
      <3>2. UNCHANGED <<tracked, artifacts>> /\ (outbox = "none" => outbox' = "none")
        BY <1>6, <2>1 DEF Published
      <3>3. NoTasks' = NoTasks /\ Begun' = Begun
        BY DEF NoTasks, Begun, DeleteSteps
      <3> QED BY <1>2, <1>4, <3>1, <3>2, <3>3 DEF DeletionsRemove
    <2>2. CASE ~Deleting
      BY <1>2, <2>2 DEF Deleting, DeletionsRemove, Begun, DeleteSteps
    <2> QED BY <2>1, <2>2
  <1>8. NothingIsLeft => NothingIsLeft'
    <2> SUFFICES ASSUME NothingIsLeft
                 PROVE  NothingIsLeft'
      OBVIOUS
    <2>1. UNCHANGED <<tracked, work, artifacts, messages>> /\ outbox' = "none"
      BY <1>6 DEF Published, NothingIsLeft
    <2>2. \A d \in Dispatchers : dispatch'[d] # "claimed"
      BY <1>6 DEF Published, NothingIsLeft
    <2>3. NoTasks' = NoTasks /\ NoWork' = NoWork
      BY DEF NoTasks, NoWork
    <2> QED BY <1>2, <2>1, <2>2, <2>3 DEF NothingIsLeft, DispatcherAt
  <1> QED BY <1>4, <1>5, <1>7, <1>8

LEMMA StartDeleteDeserts ==
  ASSUME AfterInv, Observe, NEW h \in Requests, StartDelete(h)
  PROVE  Deserted'
  <1>1. UploadTypes /\ RequestsFit /\ StageTypes /\ WorkFits /\ deletions \in 0 .. MaxDeletions
    BY TypesAreParts DEF AfterInv, LifecycleInv, Typed
  <1>2. /\ UNCHANGED <<upload, ids, rows, outbox, tracked, artifacts>>
        /\ req'[h].step = "es" /\ \A g \in Requests \ {h} : req'[g] = req[g]
        /\ \E u \in Users : upload[u] # NoUpload
    BY <1>1, StartDeleteTypes DEF StagesTyped, content, stageVars
  <1>3. SUFFICES ASSUME "raced" \notin seen'
                 PROVE  DeletionsRemove' /\ ~NoRecord'
    BY DEF Deserted
  <1>4. DeletionsRemove
    BY <1>3, Unraced DEF AfterInv, Deserted
  <1>5. ~NoRecord'
    BY <1>2 DEF NoRecord, NoUpload
  <1>6. DeletionsRemove'
    <2>1. /\ NoTasks' = NoTasks /\ Begun' = Begun /\ "es" \notin Begun
          /\ {"mark.del", "object", "record"} \subseteq Begun /\ Begun \subseteq DeleteSteps
      BY DEF NoTasks, Begun, DeleteSteps
    <2>2. \A g \in Requests : req'[g].step \in Begun => req'[g] = req[g] /\ Deleting
      BY <1>2, <2>1 DEF Deleting
    <2>3. Deleting => horizon' = ids
      BY <1>3, Unraced
    <2> QED BY <1>2, <1>4, <2>1, <2>2, <2>3 DEF DeletionsRemove
  <1> QED BY <1>5, <1>6

\* A step of a deletion that nothing runs beside.
LEMMA RemoveDeserts ==
  ASSUME AfterInv, Observe, NEW h \in Requests, Remove(h)
  PROVE  Deserted'
  <1>1. UploadTypes /\ RequestsFit /\ StageTypes /\ WorkFits
    BY TypesAreParts DEF AfterInv, LifecycleInv, Typed
  <1>2. /\ UNCHANGED <<ids, messages, work, dispatch>> /\ Deleting
        /\ req[h].step \in DeleteSteps
    <2>1. UNCHANGED <<messages, work, dispatch>>
      BY DEF Remove, DeleteFromIndex, DeleteVectors, DeleteChunkRows, DeleteTasks, DeleteMark,
             DeleteObject, DeleteRecord, RemovalIgnored, AbortDelete, stageVars
    <2> QED BY <1>1, <2>1, RemoveTypes DEF Deleting
  <1>3. SUFFICES ASSUME "raced" \notin seen'
                 PROVE  DeletionsRemove' /\ (NoRecord' => NothingIsLeft')
    BY DEF Deserted
  <1>4. /\ DeletionsRemove /\ (NoRecord => NothingIsLeft)
        /\ messages = {} /\ work = NoWork /\ horizon' = ids
        /\ \A d \in Dispatchers : ~DispatcherAt(d, "claimed")
        /\ \A g \in Requests \ {h} : req[g].step = "idle"
    BY <1>2, <1>3, Unraced DEF AfterInv, Deserted
  <1>5. /\ "idle" \notin DeleteSteps /\ NoTasks' = NoTasks /\ Begun' = Begun
        /\ Begun = {"vectors", "chunks", "tasks", "mark.del", "object", "record"}
    BY DEF Begun, DeleteSteps, NoTasks
  <1>6. /\ \A g \in Requests \ {h} : req'[g].step = "idle"
        /\ artifacts' \subseteq artifacts /\ rows' \subseteq rows
    BY <1>1, <1>4, Gone, Replied
       DEF Remove, DeleteFromIndex, DeleteVectors, DeleteChunkRows, DeleteTasks, DeleteMark,
           DeleteObject, DeleteRecord, RemovalIgnored, AbortDelete, stageVars, content
  <1>7. DeletionsRemove'
    <2>1. CASE Reply(h)
      BY <1>1, <1>5, <1>6, <2>1, Replied DEF DeletionsRemove
    <2>2. CASE DeleteFromIndex(h)
      <3>1. req'[h].step = "vectors" /\ "searchable" \notin artifacts'
        BY <1>1, <2>2, Gone DEF DeleteFromIndex
      <3> QED BY <1>2, <1>4, <1>5, <1>6, <3>1 DEF DeletionsRemove
    <2>3. CASE DeleteVectors(h)
      <3>1. req'[h].step = "chunks" /\ "vectors" \notin artifacts' /\ req[h].step = "vectors"
        BY <1>1, <2>3, Gone DEF DeleteVectors, At
      <3> QED BY <1>2, <1>4, <1>5, <1>6, <3>1 DEF DeletionsRemove
    <2>4. CASE DeleteChunkRows(h)
      <3>1. req'[h].step = "tasks" /\ rows' = {} /\ req[h].step = "chunks"
        BY <1>1, <2>4, Gone DEF DeleteChunkRows, At
      <3> QED BY <1>2, <1>4, <1>5, <1>6, <3>1 DEF DeletionsRemove
    <2>5. CASE DeleteTasks(h)
      <3>1. /\ req'[h].step = "mark.del" /\ tracked' = NoTasks /\ outbox' = "none"
            /\ req[h].step = "tasks"
        BY <1>1, <2>5, Gone DEF DeleteTasks, At
      <3> QED BY <1>2, <1>4, <1>5, <1>6, <3>1 DEF DeletionsRemove
    <2>6. CASE DeleteMark(h) \/ DeleteObject(h) \/ RemovalIgnored(h)
      <3>1. /\ req'[h].step \in {"object", "record"} /\ UNCHANGED <<tracked, outbox>>
            /\ req[h].step \in {"mark.del", "object"}
        BY <1>1, <2>6, Gone DEF DeleteMark, DeleteObject, RemovalIgnored, At, stageVars
      <3> QED BY <1>2, <1>4, <1>5, <1>6, <3>1 DEF DeletionsRemove
    <2> QED BY <2>1, <2>2, <2>3, <2>4, <2>5, <2>6 DEF Remove, DeleteRecord, AbortDelete
  <1>8. ASSUME NoRecord'
        PROVE  NothingIsLeft'
    <2>1. ~NoRecord
      BY <1>2, <1>4 DEF NothingIsLeft, DeleteSteps
    <2>2. DeleteRecord(h)
      <3>1. upload' # upload
        BY <1>8, <2>1 DEF NoRecord, NoUpload
      <3> QED BY <3>1 DEF Remove, DeleteFromIndex, DeleteVectors, DeleteChunkRows, DeleteTasks, DeleteMark,
                          DeleteObject, RemovalIgnored, AbortDelete
    <2>3. /\ req[h].step = "record" /\ Reply(h) /\ UNCHANGED <<rows, tracked, artifacts, outbox>>
      BY <2>2 DEF DeleteRecord, At, content, stageVars
    <2>4. /\ "searchable" \notin artifacts /\ "vectors" \notin artifacts /\ rows = {}
          /\ tracked = NoTasks /\ outbox = "none"
      BY <1>4, <1>5, <2>3 DEF DeletionsRemove
    <2>5. \A g \in Requests : req'[g].step = "idle"
      BY <1>1, <1>6, <2>3, Replied
    <2>6. NoWork' = NoWork
      BY DEF NoWork
    <2> QED BY <1>2, <1>4, <1>5, <2>3, <2>4, <2>5, <2>6 DEF NothingIsLeft, DispatcherAt
  <1> QED BY <1>7, <1>8

-----------------------------------------------------------------------------
(* The tasks of a completed upload.                                          *)

\* The order of the stages, and what their tasks say of each other.
Handed ==
  /\ Promised => Going("parse")
  /\ \A s \in {"parse", "chunk", "embed"} : Passed(s) => Going(NextStage[s])

Indexed == Passed("index") \/ work.step = "cleanup" =>
             "searchable" \in artifacts \/ \E h \in Requests : req[h].step \in Begun

WorkIsHeld ==
  /\ work.step \in {"rows", "bulk", "cleanup"} => work.stage = "index"
  /\ work # NoWork => work.stage \in messages

LEMMA TasksInParts ==
  TasksGoOn <=> Handed /\ Indexed /\ WorkIsHeld /\ (Completed # {} => outbox # "none")
  BY DEF TasksGoOn, Handed, Indexed, WorkIsHeld

\* A deletion that made a step is not halted, unless only its record was left.
LEMMA BegunGoesOn ==
  ASSUME Observe, seen' \cap {"raced", "halted"} = {}, DeletionsRemove,
         NEW h \in Requests, req[h].step \in Begun, req'[h] \in {req[h], Idle}
  PROVE  \/ req'[h].step \in Begun
         \/ tracked = NoTasks /\ work = NoWork
  <1>1. CASE req'[h] = req[h]
    BY <1>1
  <1>2. CASE req'[h] = Idle
    <2>1. req[h].step = "record" /\ Deleting
      BY <1>2, Unhalted DEF Begun, Deleting
    <2>2. work = NoWork
      BY <2>1, Unraced
    <2>3. tracked = NoTasks
      BY <2>1 DEF DeletionsRemove
    <2> QED BY <2>2, <2>3
  <1> QED BY <1>1, <1>2

\* Without tasks and work nothing is claimed of the index.
LEMMA NothingIndexed ==
  ASSUME tracked = NoTasks, work = NoWork
  PROVE  ~Passed("index") /\ work.step # "cleanup"
  BY DEF Passed, NoTasks, NoWork, Stages

\* What is completed while a deletion makes a step is older than the deletion.
LEMMA NoneCompleted ==
  ASSUME LifecycleInv, UploadTypes', horizon' = ids, UNCHANGED ids
  PROVE  Completed' = {}
  <1>1. \A u \in Users : upload'[u].id \in 0 .. ids
    BY DEF UploadTypes
  <1>2. ids \in Nat
    BY TypesAreParts DEF LifecycleInv, Typed, UploadTypes
  <1> QED BY <1>1, <1>2 DEF Completed

LEMMA UploadsPursue ==
  ASSUME AfterInv, Observe, UploadStep, UNCHANGED stageVars, UploadTypes'
  PROVE  Pursued'
  <1>1. UploadTypes /\ RequestsFit /\ RecordsHaveIds
    BY TypesAreParts DEF AfterInv, LifecycleInv, Typed
  <1>2. Uploads /\ UNCHANGED <<messages, tracked, work, artifacts, dispatch>>
    BY <1>1, UploadStepActs DEF stageVars
  <1>3. SUFFICES ASSUME seen' \cap {"raced", "halted"} = {}
                 PROVE  TasksGoOn'
    BY DEF Pursued
  <1>4. DeletionsRemove /\ TasksGoOn
    BY <1>3, Unraced, Unhalted DEF AfterInv, Deserted, Pursued
  <1>5. Handed /\ Indexed /\ WorkIsHeld /\ (Completed # {} => outbox # "none")
    BY <1>4, TasksInParts
  <1>6. outbox' \in {outbox, "pending"} /\ (Promised' => Promised)
    <2>1. outbox' \in {outbox, "pending"}
      BY <1>2 DEF Uploads, Acts
    <2>2. \A d \in Dispatchers : d # "pending"
      BY LifecycleAssumption DEF OutboxStatus
    <2> QED BY <1>2, <2>1, <2>2 DEF Promised, DispatcherAt
  <1>7. NoWork' = NoWork /\ Begun' = Begun /\ NextStage' = NextStage
    BY DEF NoWork, Begun, DeleteSteps, NextStage
  <1>8. Handed' /\ WorkIsHeld'
    <2>1. \A s : Going(s)' = Going(s)
      BY <1>2 DEF Going
    <2>2. \A s : Passed(s)' = Passed(s)
      BY <1>2 DEF Passed
    <2> QED BY <1>2, <1>5, <1>6, <1>7, <2>1, <2>2 DEF Handed, WorkIsHeld
  <1>9. Indexed'
    <2> SUFFICES ASSUME Passed("index") \/ work.step = "cleanup", "searchable" \notin artifacts
                 PROVE  \E h \in Requests : req'[h].step \in Begun
      BY <1>2, <1>7 DEF Indexed, Passed
    <2>1. PICK h \in Requests : req[h].step \in Begun
      BY <1>5 DEF Indexed
    <2>2. Deleting
      BY <2>1 DEF Deleting, Begun
    <2>3. req'[h] \in {req[h], Idle}
      BY <1>2, <1>3, <2>1, <2>2, UploadsWait DEF Begun
    <2> QED BY <1>3, <1>4, <2>1, <2>3, BegunGoesOn, NothingIndexed
  <1>10. Completed' # {} => outbox' # "none"
    <2>1. CASE Deleting
      BY <1>2, <1>3, <2>1, Unraced, UploadsWait, NoneCompleted DEF AfterInv
    <2>2. CASE ~Deleting
      <3> SUFFICES ASSUME NEW u \in Users, upload'[u].status = "completed", upload'[u].id > horizon
                   PROVE  outbox' # "none"
        BY <1>3, <2>2, Unraced DEF Completed
      <3>1. upload'[u] = upload[u] \/ outbox' # "none"
        BY <1>2 DEF Uploads, Acts
      <3>2. CASE upload'[u] = upload[u]
        <4>1. u \in Completed
          BY <3>2 DEF Completed
        <4> QED BY <1>5, <1>6, <4>1
      <3> QED BY <3>1, <3>2
    <2> QED BY <2>1, <2>2
  <1> QED BY <1>8, <1>9, <1>10, TasksInParts DEF TasksGoOn, Handed, Indexed, WorkIsHeld

\* What a step of a stage must show; the rest of an upload is as it was.
GoesOn == Handed' /\ Indexed' /\ WorkIsHeld'

\* A step inside a stage, whether it finds what it needs or fails.
LEMMA AdvancesGoOn ==
  ASSUME StageTypes, Handed, Indexed, WorkIsHeld, NEW step, NEW result, NEW next,
         Advances(step, result, next), step # "idle",
         "searchable" \in artifacts => "searchable" \in result,
         next \in {"rows", "bulk"} => work.stage = "index",
         next = "cleanup" => work.stage = "index" /\ "searchable" \in result,
         next = "done" => step = "cleanup"
  PROVE  GoesOn
  <1>1. /\ work.step = step /\ UNCHANGED <<messages, tracked, outbox, dispatch, req>>
        /\ work \in [stage : Stages \cup {"none"}, step : WorkSteps]
    BY DEF Advances, StageTypes, uploadVars
  <1>2. /\ work'.stage = work.stage
        /\ \/ work'.step = next /\ artifacts' = result
           \/ work'.step = "failed" /\ UNCHANGED artifacts
    BY <1>1 DEF Advances
  <1>3. work # NoWork
    BY <1>1 DEF NoWork
  <1>4. WorkIsHeld'
    BY <1>1, <1>2, <1>3 DEF WorkIsHeld
  <1>5. (\A s : Going(s)' = Going(s)) /\ Promised' = Promised
    BY <1>1 DEF Going, Promised, DispatcherAt
  <1>6. \A s : Passed(s)' => Passed(s) \/ (work'.step = "done" /\ work.stage = "index" /\ s = "index" /\ step = "cleanup")
    BY <1>1, <1>2 DEF Passed, WorkIsHeld
  <1>7. Handed'
    BY <1>1, <1>5, <1>6 DEF Handed, NextStage
  <1>8. Indexed'
    <2>1. Begun' = Begun
      BY DEF Begun, DeleteSteps
    <2>2. CASE work'.step = "cleanup"
      BY <1>2, <2>2 DEF Indexed
    <2>3. CASE work'.step # "cleanup" /\ Passed("index")'
      <3>1. Passed("index") \/ work.step = "cleanup"
        BY <1>1, <1>6, <2>3
      <3>2. "searchable" \in artifacts \/ \E h \in Requests : req[h].step \in Begun
        BY <3>1 DEF Indexed
      <3> QED BY <1>1, <1>2, <2>1, <3>2 DEF Indexed
    <2> QED BY <2>2, <2>3 DEF Indexed
  <1> QED BY <1>4, <1>7, <1>8 DEF GoesOn

\* A step that ends a message or a task, or sends the next one.
LEMMA EndsGoOn ==
  ASSUME StageTypes, Handed, Indexed, WorkIsHeld, UNCHANGED <<outbox, dispatch, req, artifacts>>,
         \A s \in Stages : Going(s) => Going(s)',
         \A s \in Stages : Passed(s)' => Passed(s) \/ (s # "index" /\ Going(NextStage[s])'),
         work'.step \in {"rows", "bulk"} => work'.stage = "index", work'.step # "cleanup",
         work' # NoWork => work'.stage \in messages'
  PROVE  GoesOn
  <1>1. /\ Stages = {"parse", "chunk", "embed", "index"}
        /\ NextStage["parse"] = "chunk" /\ NextStage["chunk"] = "embed" /\ NextStage["embed"] = "index"
    BY DEF Stages, NextStage
  <1>2. Handed'
    <2>1. Promised' => Going("parse")'
      BY <1>1 DEF Handed, Promised, DispatcherAt
    <2>2. \A s \in {"parse", "chunk", "embed"} : Passed(s)' => Going(NextStage[s])'
      BY <1>1 DEF Handed
    <2>3. NextStage' = NextStage
      BY DEF NextStage
    <2> QED BY <1>1, <2>1, <2>2, <2>3 DEF Handed
  <1>3. Indexed'
    <2>1. Passed("index")' => Passed("index")
      BY <1>1
    <2>2. Begun' = Begun
      BY DEF Begun, DeleteSteps
    <2> QED BY <2>1, <2>2 DEF Indexed
  <1>4. WorkIsHeld'
    <2>1. NoWork' = NoWork
      BY DEF NoWork
    <2> QED BY <2>1 DEF WorkIsHeld
  <1> QED BY <1>2, <1>3, <1>4 DEF GoesOn

LEMMA StagesGoOn ==
  ASSUME StageTypes, WorkFits, Handed, Indexed, WorkIsHeld,
         \/ ParseDocument \/ ClearChunks \/ CreateChunks \/ LoadWindow \/ CacheVectors
         \/ LoadDocuments \/ IndexDocuments \/ CleanUpIndex
  PROVE  GoesOn
  <1>1. CASE ParseDocument
    <2>1. Advances("read", artifacts \cup {"parsed"}, "send")
      BY <1>1 DEF ParseDocument, StageStep, Advances
    <2> QED BY <2>1, AdvancesGoOn
  <1>2. CASE ClearChunks
    <2>1. Advances("clear", artifacts \ {"vectors", "cache"}, "create")
      BY <1>2 DEF ClearChunks, StageStep, Advances
    <2> QED BY <2>1, AdvancesGoOn
  <1>3. CASE CreateChunks
    <2>1. Advances("create", artifacts \cup {"vectors"}, "send")
      BY <1>3 DEF CreateChunks, StageStep, Advances
    <2> QED BY <2>1, AdvancesGoOn
  <1>4. CASE LoadWindow
    <2>1. Advances("load", artifacts, "hset")
      BY <1>4 DEF LoadWindow, StageStep, Advances
    <2> QED BY <2>1, AdvancesGoOn
  <1>5. CASE CacheVectors
    <2>1. Advances("hset", artifacts \cup {"cache"}, "send")
      BY <1>5 DEF CacheVectors, StageStep, Advances
    <2> QED BY <2>1, AdvancesGoOn
  <1>6. CASE LoadDocuments
    <2>1. Advances("rows", artifacts, "bulk")
      BY <1>6 DEF LoadDocuments, StageStep, Advances
    <2>2. work.stage = "index"
      BY <2>1 DEF Advances, WorkIsHeld
    <2> QED BY <2>1, <2>2, AdvancesGoOn
  <1>7. CASE IndexDocuments
    <2>1. Advances("bulk", artifacts \cup {"searchable"}, "cleanup")
      BY <1>7 DEF IndexDocuments, StageStep, Advances
    <2>2. work.stage = "index"
      BY <2>1 DEF Advances, WorkIsHeld
    <2> QED BY <2>1, <2>2, AdvancesGoOn
  <1>8. CASE CleanUpIndex
    <2>1. Advances("cleanup", artifacts \ {"cache"}, "done")
      BY <1>8 DEF CleanUpIndex, StageStep, Advances
    <2> QED BY <2>1, AdvancesGoOn
  <1> QED BY <1>1, <1>2, <1>3, <1>4, <1>5, <1>6, <1>7, <1>8

LEMMA WorksGoOn ==
  ASSUME UploadTypes, StageTypes, WorkFits, Handed, Indexed, WorkIsHeld, Works
  PROVE  GoesOn
  <1>0. /\ Stages = {"parse", "chunk", "embed", "index"} /\ "none" \notin Stages
        /\ messages \subseteq Stages
        /\ tracked \in [Stages -> {"ABSENT", "OPEN", "SUCCESS", "DEAD"}]
        /\ work \in [stage : Stages \cup {"none"}, step : WorkSteps]
        /\ NoWork.step = "idle" /\ NoWork.stage = "none"
    BY DEF StageTypes, Stages, NoWork
  <1>1. CASE PublishOutbox
    <2>1. /\ UNCHANGED <<req, tracked, work, artifacts>> /\ messages \subseteq messages'
          /\ Promised' => Promised \/ "parse" \in messages'
      BY <1>1, Publishes DEF Published
    <2>2. \A s : Going(s) => Going(s)'
      BY <2>1 DEF Going
    <2>3. Promised' => Going("parse")'
      BY <2>1, <2>2 DEF Going, Handed
    <2>4. \A s : Passed(s)' = Passed(s)
      BY <2>1 DEF Passed
    <2>5. NextStage' = NextStage /\ NoWork' = NoWork /\ Begun' = Begun
      BY DEF NextStage, NoWork, Begun, DeleteSteps
    <2>6. Handed'
      BY <2>2, <2>3, <2>4, <2>5 DEF Handed
    <2> QED BY <2>1, <2>4, <2>5, <2>6 DEF GoesOn, Indexed, WorkIsHeld
  <1>2. CASE Deliver
    <2> PICK s \in messages :
          /\ \/ /\ tracked[s] = "SUCCESS"
                /\ messages' = messages \ {s}
                /\ UNCHANGED <<tracked, work>>
             \/ /\ tracked[s] # "SUCCESS"
                /\ tracked' = [tracked EXCEPT ![s] = "OPEN"]
                /\ work' = [stage |-> s, step |-> FirstStep[s]]
                /\ UNCHANGED messages
          /\ work = NoWork
          /\ UNCHANGED <<uploadVars, artifacts, dispatch, deletions>>
      BY <1>2 DEF Deliver
    <2>0. UNCHANGED <<outbox, dispatch, req, artifacts>>
      BY DEF uploadVars
    <2>1. CASE tracked[s] = "SUCCESS" /\ messages' = messages \ {s} /\ UNCHANGED <<tracked, work>>
      <3>1. \A t \in Stages : Going(t) => Going(t)'
        BY <2>1 DEF Going
      <3>2. \A t \in Stages : Passed(t)' => Passed(t)
        BY <2>1 DEF Passed
      <3> QED BY <1>0, <2>0, <2>1, <3>1, <3>2, EndsGoOn
    <2>2. CASE /\ tracked' = [tracked EXCEPT ![s] = "OPEN"]
               /\ work' = [stage |-> s, step |-> FirstStep[s]] /\ UNCHANGED messages
      <3>1. /\ FirstStep[s] \in {"read", "clear", "load", "rows"}
            /\ FirstStep[s] = "rows" => s = "index"
        BY <1>0 DEF FirstStep
      <3>2. \A t \in Stages : Going(t) => Going(t)'
        BY <1>0, <2>2 DEF Going
      <3>3. \A t \in Stages : Passed(t)' => Passed(t)
        BY <1>0, <2>2, <3>1 DEF Passed
      <3> QED BY <1>0, <2>0, <2>2, <3>1, <3>2, <3>3, EndsGoOn
    <2> QED BY <2>1, <2>2
  <1>3. CASE SendNext
    <2>1. /\ work.step = "send" /\ messages' = messages \cup {NextStage[work.stage]}
          /\ work' = [work EXCEPT !.step = "done"] /\ UNCHANGED <<tracked, outbox, dispatch, req, artifacts>>
      BY <1>3 DEF SendNext, uploadVars
    <2>2. work'.stage = work.stage /\ work'.step = "done" /\ work # NoWork /\ work.stage # "index"
      BY <1>0, <2>1 DEF WorkFits
    <2>3. \A t \in Stages : Going(t) => Going(t)'
      BY <2>1 DEF Going
    <2>4. \A t \in Stages : Passed(t)' => Passed(t) \/ (t # "index" /\ Going(NextStage[t])')
      <3>1. NextStage' = NextStage
        BY DEF NextStage
      <3> QED BY <2>1, <2>2, <3>1 DEF Passed, Going
    <2>5. work'.stage \in messages'
      BY <2>1, <2>2 DEF WorkIsHeld
    <2> QED BY <2>1, <2>2, <2>3, <2>4, <2>5, EndsGoOn
  <1>4. CASE SucceedTask
    <2>1. /\ work.step = "done" /\ tracked' = [tracked EXCEPT ![work.stage] = "SUCCESS"]
          /\ messages' = messages \ {work.stage} /\ work' = NoWork
          /\ UNCHANGED <<outbox, dispatch, req, artifacts>>
      BY <1>4 DEF SucceedTask, uploadVars
    <2>2. \A t \in Stages : Going(t) => Going(t)'
      BY <1>0, <2>1 DEF Going
    <2>3. \A t \in Stages : Passed(t)' => Passed(t)
      BY <1>0, <2>1 DEF Passed
    <2>4. NoWork' = NoWork
      BY DEF NoWork
    <2> QED BY <1>0, <2>1, <2>2, <2>3, <2>4, EndsGoOn
  <1>5. CASE FailTask
    <2>1. /\ work.step = "failed" /\ work' = NoWork /\ UNCHANGED <<outbox, dispatch, req, artifacts>>
          /\ \/ tracked' = [tracked EXCEPT ![work.stage] = "OPEN"] /\ UNCHANGED messages
             \/ /\ tracked' = [tracked EXCEPT ![work.stage] = "DEAD"]
                /\ messages' = messages \ {work.stage}
      BY <1>5 DEF FailTask, uploadVars
    <2>2. work.stage \in messages
      BY <1>0, <2>1 DEF WorkIsHeld
    <2>3. \A t \in Stages : Going(t) => Going(t)'
      BY <1>0, <2>1, <2>2 DEF Going
    <2>4. \A t \in Stages : Passed(t)' => Passed(t)
      BY <1>0, <2>1 DEF Passed
    <2>5. NoWork' = NoWork
      BY DEF NoWork
    <2> QED BY <1>0, <2>1, <2>3, <2>4, <2>5, EndsGoOn
  <1>6. CASE WorkerFails
    <2>1. work' = NoWork /\ UNCHANGED <<outbox, dispatch, req, artifacts, messages, tracked>>
      BY <1>6 DEF WorkerFails
    <2>2. \A t \in Stages : Going(t) => Going(t)'
      BY <2>1 DEF Going
    <2>3. \A t \in Stages : Passed(t)' => Passed(t)
      BY <1>0, <2>1 DEF Passed
    <2>4. NoWork' = NoWork
      BY DEF NoWork
    <2> QED BY <1>0, <2>1, <2>2, <2>3, <2>4, EndsGoOn
  <1> QED BY <1>1, <1>2, <1>3, <1>4, <1>5, <1>6, StagesGoOn DEF Works, Process

LEMMA WorksPursue ==
  ASSUME AfterInv, Observe, Works, UploadTypes'
  PROVE  Pursued'
  <1>1. UploadTypes /\ RequestsFit /\ StageTypes /\ WorkFits
    BY TypesAreParts DEF AfterInv, LifecycleInv, Typed
  <1>2. UNCHANGED <<upload, ids>>
    BY <1>1, ProcessTypes, PublishTypes DEF Works, StagesTyped, uploadVars
  <1>3. SUFFICES ASSUME seen' \cap {"raced", "halted"} = {}
                 PROVE  TasksGoOn'
    BY DEF Pursued
  <1>4. TasksGoOn
    BY <1>3, Unraced, Unhalted DEF AfterInv, Pursued
  <1>5. Handed /\ Indexed /\ WorkIsHeld /\ (Completed # {} => outbox # "none")
    BY <1>4, TasksInParts
  <1>6. GoesOn
    BY <1>1, <1>5, WorksGoOn
  <1>7. Completed' # {} => outbox' # "none"
    <2>1. CASE Deleting
      BY <1>2, <1>3, <2>1, Unraced, NoneCompleted DEF AfterInv
    <2>2. CASE ~Deleting
      <3>1. Completed' = Completed
        BY <1>2, <1>3, <2>2, Unraced DEF Completed
      <3>2. outbox' = "none" => outbox = "none"
        BY <1>1, ProcessTypes, Publishes DEF Works, Published, WorkerFails, uploadVars
      <3> QED BY <1>5, <3>1, <3>2
    <2> QED BY <2>1, <2>2
  <1> QED BY <1>6, <1>7 DEF GoesOn, TasksGoOn, Handed, Indexed, WorkIsHeld

LEMMA StartDeletePursues ==
  ASSUME AfterInv, Observe, NEW h \in Requests, StartDelete(h), UploadTypes'
  PROVE  Pursued'
  <1>1. UploadTypes /\ RequestsFit /\ StageTypes /\ WorkFits /\ deletions \in 0 .. MaxDeletions
    BY TypesAreParts DEF AfterInv, LifecycleInv, Typed
  <1>2. /\ UNCHANGED <<upload, ids, outbox, dispatch, messages, work, tracked, artifacts>>
        /\ req[h].step = "idle" /\ \A g \in Requests \ {h} : req'[g] = req[g]
    BY <1>1, StartDeleteTypes DEF StagesTyped, StartDelete, At, content, stageVars
  <1>3. SUFFICES ASSUME seen' \cap {"raced", "halted"} = {}
                 PROVE  TasksGoOn'
    BY DEF Pursued
  <1>4. TasksGoOn
    BY <1>3, Unraced, Unhalted DEF AfterInv, Pursued
  <1>5. Handed /\ Indexed /\ WorkIsHeld /\ (Completed # {} => outbox # "none")
    BY <1>4, TasksInParts
  <1>6. NoWork' = NoWork /\ Begun' = Begun /\ NextStage' = NextStage /\ "idle" \notin Begun
    BY DEF NoWork, Begun, DeleteSteps, NextStage
  <1>7. (\A s : Going(s)' = Going(s)) /\ (\A s : Passed(s)' = Passed(s)) /\ Promised' = Promised
    BY <1>2 DEF Going, Passed, Promised, DispatcherAt
  <1>8. Handed' /\ Indexed' /\ WorkIsHeld'
    BY <1>2, <1>5, <1>6, <1>7 DEF Handed, Indexed, WorkIsHeld
  <1>9. Completed' # {} => outbox' # "none"
    <2>1. CASE Deleting
      BY <1>2, <1>3, <2>1, Unraced, NoneCompleted DEF AfterInv
    <2>2. CASE ~Deleting
      <3>1. Completed' = Completed
        BY <1>2, <1>3, <2>2, Unraced DEF Completed
      <3> QED BY <1>2, <1>5, <3>1
    <2> QED BY <2>1, <2>2
  <1> QED BY <1>8, <1>9 DEF TasksGoOn, Handed, Indexed, WorkIsHeld

\* A deletion alone takes no message and stops no work: there is none.
LEMMA RemovePursues ==
  ASSUME AfterInv, Observe, NEW h \in Requests, Remove(h), UploadTypes'
  PROVE  Pursued'
  <1>1. UploadTypes /\ RequestsFit /\ StageTypes /\ WorkFits
    BY TypesAreParts DEF AfterInv, LifecycleInv, Typed
  <1>2. /\ UNCHANGED <<ids, messages, work, dispatch>> /\ Deleting
        /\ req[h].step \in DeleteSteps
    <2>1. UNCHANGED <<messages, work, dispatch>>
      BY DEF Remove, DeleteFromIndex, DeleteVectors, DeleteChunkRows, DeleteTasks, DeleteMark,
             DeleteObject, DeleteRecord, RemovalIgnored, AbortDelete, stageVars
    <2> QED BY <1>1, <2>1, RemoveTypes DEF Deleting
  <1>3. SUFFICES ASSUME seen' \cap {"raced", "halted"} = {}
                 PROVE  TasksGoOn'
    BY DEF Pursued
  <1>4. DeletionsRemove /\ TasksGoOn /\ messages = {} /\ work = NoWork /\ horizon' = ids
    BY <1>2, <1>3, Unraced, Unhalted DEF AfterInv, Deserted, Pursued
  <1>5. Handed /\ Indexed
    BY <1>4, TasksInParts
  <1>6. Completed' = {}
    BY <1>2, <1>4, NoneCompleted DEF AfterInv
  <1>7. /\ NoWork' = NoWork /\ Begun' = Begun /\ NextStage' = NextStage
        /\ NoWork.step = "idle"
        /\ Begun = {"vectors", "chunks", "tasks", "mark.del", "object", "record"}
    BY DEF NoWork, Begun, DeleteSteps, NextStage
  <1>8. WorkIsHeld'
    BY <1>2, <1>4, <1>7 DEF WorkIsHeld
  <1>9. CASE DeleteTasks(h)
    <2>1. tracked' = NoTasks /\ outbox' = "none" /\ work' = NoWork
      BY <1>2, <1>4, <1>9 DEF DeleteTasks
    <2>2. \A s \in Stages : ~Passed(s)'
      BY <1>7, <2>1 DEF Passed, NoTasks
    <2>3. ~Promised'
      BY <2>1, LifecycleAssumption DEF Promised, OutboxStatus
    <2>4. Handed' /\ Indexed'
      BY <1>7, <2>1, <2>2, <2>3 DEF Handed, Indexed, Stages
    <2> QED BY <1>6, <1>8, <2>4 DEF TasksGoOn, Handed, Indexed, WorkIsHeld
  <1>10. CASE ~DeleteTasks(h)
    <2>1. UNCHANGED <<tracked, outbox>>
      BY <1>10 DEF Remove, DeleteFromIndex, DeleteVectors, DeleteChunkRows, DeleteMark,
                   DeleteObject, DeleteRecord, RemovalIgnored, AbortDelete, stageVars, content
    <2>2. (\A s : Going(s)' = Going(s)) /\ (\A s : Passed(s)' = Passed(s)) /\ Promised' = Promised
      BY <1>2, <2>1 DEF Going, Passed, Promised, DispatcherAt
    <2>3. Handed'
      BY <1>5, <1>7, <2>1, <2>2 DEF Handed
    <2>4. Indexed'
      <3>1. CASE Reply(h)
        <4>1. DeleteRecord(h) \/ AbortDelete(h)
          <5>1. req'[h].step = "idle"
            BY <1>1, <3>1, Replied
          <5> QED BY <1>1, <1>10, <5>1, Gone
                  DEF Remove, DeleteFromIndex, DeleteVectors, DeleteChunkRows, DeleteMark,
                      DeleteObject, RemovalIgnored
        <4>2. req'[h] = Idle
          BY <1>1, <3>1 DEF Reply, UploadTypes
        <4>3. req[h].step = "record"
          BY <1>2, <1>3, <4>2, Unhalted
        <4>4. tracked = NoTasks
          BY <1>4, <4>3 DEF DeletionsRemove
        <4> QED BY <1>2, <1>4, <1>7, <2>1, <4>4, NothingIndexed DEF Indexed, Passed
      <3>2. CASE ~Reply(h)
        <4>1. req'[h].step \in Begun
          BY <1>1, <1>7, <1>10, <3>2, Gone
             DEF Remove, DeleteFromIndex, DeleteVectors, DeleteChunkRows, DeleteMark,
                 DeleteObject, DeleteRecord, RemovalIgnored, AbortDelete
        <4> QED BY <1>7, <4>1 DEF Indexed
      <3> QED BY <3>1, <3>2
    <2> QED BY <1>6, <1>8, <2>3, <2>4 DEF TasksGoOn, Handed, Indexed, WorkIsHeld
  <1> QED BY <1>9, <1>10

LEMMA NextAfter ==
  ASSUME AfterInv, Next
  PROVE  AfterInv'
  <1>1. LifecycleInv' /\ UploadTypes'
    BY NextPreserves DEF AfterInv, LifecycleInv, Typed, TypeOK, UploadTypes
  <1>2. Observe
    BY NextCases
  <1>3. CASE UploadStep /\ UNCHANGED <<stageVars, deletions>>
    BY <1>1, <1>2, <1>3, UploadsDesert, UploadsPursue DEF AfterInv
  <1>4. CASE Works
    BY <1>1, <1>2, <1>4, WorksDesert, WorksPursue DEF AfterInv
  <1>5. ASSUME NEW h \in Requests, StartDelete(h) \/ Remove(h)
        PROVE  AfterInv'
    BY <1>1, <1>2, <1>5, StartDeleteDeserts, RemoveDeserts, StartDeletePursues, RemovePursues
       DEF AfterInv
  <1> QED BY <1>3, <1>4, <1>5, NextCases

LEMMA StutterAfter ==
  ASSUME AfterInv, UNCHANGED vars
  PROVE  AfterInv'
  <1>1. LifecycleInv'
    BY StutterPreserves DEF AfterInv
  <1>2. UNCHANGED <<upload, ids, rows, outbox, req, messages, tracked, work, artifacts, dispatch, horizon, seen>>
    BY DEF vars, uploadVars, stageVars, content
  <1>3. /\ NoRecord' = NoRecord /\ NoWork' = NoWork /\ NoTasks' = NoTasks /\ Begun' = Begun
        /\ NextStage' = NextStage /\ Completed' = Completed
    BY <1>2 DEF NoRecord, NoUpload, NoWork, NoTasks, Begun, DeleteSteps, NextStage, Completed
  <1>4. Deserted'
    BY <1>2, <1>3 DEF AfterInv, Deserted, DeletionsRemove, NothingIsLeft, DispatcherAt
  <1>5. (\A s : Going(s)' = Going(s)) /\ (\A s : Passed(s)' = Passed(s)) /\ Promised' = Promised
    BY <1>2 DEF Going, Passed, Promised, DispatcherAt
  <1>6. Pursued'
    BY <1>2, <1>3, <1>5 DEF AfterInv, Pursued, TasksGoOn
  <1> QED BY <1>1, <1>4, <1>6 DEF AfterInv

LEMMA InitAfter ==
  ASSUME Init
  PROVE  AfterInv
  <1>1. /\ messages = {} /\ work = NoWork /\ req = [h \in Requests |-> Idle] /\ horizon = 0
        /\ dispatch = [d \in Dispatchers |-> "idle"]
    BY DEF Init, InitEmpty, InitUploaded, InitIndexed, HasUploaded, UploadInit, NothingElse
  <1>2. \A h \in Requests : req[h].step = "idle"
    BY <1>1 DEF Idle
  <1>3. DeletionsRemove
    BY <1>2 DEF DeletionsRemove, Begun, DeleteSteps
  <1>4. NoRecord => NothingIsLeft
    <2>1. CASE InitEmpty
      BY <1>1, <1>2, <2>1 DEF InitEmpty, UploadInit, NothingIsLeft, DispatcherAt
    <2>2. ASSUME NEW u \in Users, NEW status, HasUploaded(u, status)
          PROVE  ~NoRecord
      <3>1. upload[u] = [id |-> 1, status |-> status]
        BY <2>2 DEF HasUploaded
      <3> QED BY <3>1 DEF NoRecord, NoUpload
    <2> QED BY <2>1, <2>2 DEF Init, InitUploaded, InitIndexed
  <1>5. NoWork.step = "idle"
    BY DEF NoWork
  <1>6. TasksGoOn
    <2>1. CASE tracked = NoTasks /\ outbox = "none" /\ Completed = {}
      <3>1. \A s \in Stages : ~Passed(s)
        BY <1>1, <1>5, <2>1 DEF Passed, NoTasks
      <3>2. ~Promised
        BY <2>1, LifecycleAssumption DEF Promised, OutboxStatus
      <3> QED BY <1>1, <1>5, <2>1, <3>1, <3>2 DEF TasksGoOn, Stages
    <2>2. CASE InitEmpty \/ InitUploaded
      <3>1. \A u \in Users : upload[u].status # "completed"
        BY <2>2 DEF InitEmpty, InitUploaded, HasUploaded, UploadInit, NoUpload
      <3> QED BY <2>1, <2>2, <3>1 DEF InitEmpty, InitUploaded, UploadInit, Completed
    <2>3. CASE InitIndexed
      <3>1. /\ outbox = "published" /\ tracked = [s \in Stages |-> "SUCCESS"]
            /\ artifacts = {"parsed", "vectors", "searchable"}
        BY <2>3 DEF InitIndexed
      <3>2. \A s \in Stages : Going(s)
        BY <3>1 DEF Going
      <3>3. \A s \in {"parse", "chunk", "embed"} : NextStage[s] \in Stages
        BY DEF NextStage, Stages
      <3> QED BY <1>1, <1>5, <3>1, <3>2, <3>3 DEF TasksGoOn, Stages
    <2> QED BY <2>2, <2>3 DEF Init
  <1> QED BY <1>3, <1>4, <1>6, InitPreserves DEF AfterInv, Deserted, Pursued

\* The invariant of which the two theorems below are parts.  A deletion that nothing
\* ran beside removes for good what it has removed so far; and once no user has a
\* record, no task, message, work, claim or request is left that would bring anything
\* of the document back.
THEOREM AfterInvariant == Spec => []AfterInv
  <1>1. Init => AfterInv
    BY InitAfter
  <1>2. AfterInv /\ [Next]_vars => AfterInv'
    BY NextAfter, StutterAfter
  <1> QED BY <1>1, <1>2, PTL DEF Spec

\* As long as anything of a document is found by search, stored as chunks or
\* tracked, a file_upload row leads to it, wherever deletions failed, unless a
\* request or a stage task ran beside one, or a dispatcher held the parse task then.
THEOREM LeftoversStayReachable == Spec => []LeftoversHaveARecord
  <1>1. AfterInv => LeftoversHaveARecord
    BY DEF AfterInv, Deserted, NoRecord, NothingIsLeft, LeftoversHaveARecord
  <1> QED BY <1>1, AfterInvariant, PTL

\* A completed upload is on its way, searchable or dead-lettered, also when the
\* same content had been uploaded, indexed and deleted before.
THEOREM CompletedStaysPursued == Spec => []CompletedIsPursued
  <1>1. ASSUME AfterInv, Completed # {}, seen \cap {"raced", "halted"} = {}
        PROVE  \/ outbox \in {"pending"} \cup Dispatchers \/ messages # {}
               \/ "searchable" \in artifacts
               \/ \E s \in Stages : tracked[s] = "DEAD"
    <2>1. TasksGoOn /\ DeletionsRemove
      BY <1>1 DEF AfterInv, Pursued, Deserted
    <2>2. UploadTypes
      BY <1>1, TypesAreParts DEF AfterInv, LifecycleInv, Typed
    <2>3. SUFFICES ASSUME outbox \notin {"pending"} \cup Dispatchers, messages = {},
                          \A s \in Stages : tracked[s] # "DEAD"
                   PROVE  "searchable" \in artifacts
      OBVIOUS
    <2>4. Going("parse")
      BY <1>1, <2>1, <2>2, <2>3 DEF TasksGoOn, UploadTypes, OutboxStatus, Promised
    <2>5. \A s \in Stages : Going(s) => Passed(s)
      BY <2>3 DEF Going, Passed
    <2>6. Passed("index")
      BY <2>1, <2>4, <2>5 DEF TasksGoOn, NextStage, Stages
    <2>7. \A h \in Requests : req[h].step \notin Begun
      <3>1. horizon # ids
        BY <1>1, <2>2 DEF Completed, UploadTypes
      <3> QED BY <2>1, <3>1 DEF DeletionsRemove
    <2> QED BY <2>1, <2>6, <2>7 DEF TasksGoOn
  <1>2. AfterInv => CompletedIsPursued
    BY <1>1 DEF CompletedIsPursued
  <1> QED BY <1>2, AfterInvariant, PTL
=============================================================================
