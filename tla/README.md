# A TLA+ model of the RAG platform

The platform ingests documents and answers questions about them. A Go service
(`src/cmd/server`, `src/internal`, `src/pkg`) owns users, uploads, the Kafka
pipeline, retrieval, memory and the websocket; a Python service
(`src/ai-orchestrator`) runs the prompt graphs. What is hard to get right, and
what this project models, falls into three parts. Durable work: a merged upload
is handed to Kafka through an outbox, four stages turn it into searchable
chunks, each stage retries and dead-letters, an administrator replays dead
letters, and all of it meets uploads and deletions of the same content. A user's
conversation: sockets, turns, history, working memory and the indexing of
long-term memories. And answers: who is asking, what they may see, and how
rankings are fused and reranked when parts of the search fail.

## Inventory

| component | state | operations | hard behaviour | correct when |
|---|---|---|---|---|
| initial-task outbox (`pipeline_task_repository.go` 26-151, `upload_service.go` 286-364) | publication columns of the row `(upload:<md5>, parse, root)`, lease, attempt number | enqueue with the merge, claim, publish, mark, hand back | two servers, leases that run out under their holder, crash between acknowledgement and mark, repeated merges | PUBLISHED means acknowledged, stays PUBLISHED, one holder can mark, every row is published |
| stage consumer and tracker (`kafka/client.go` 284-456, `kafka/retry.go`, `pipeline_task_repository.go` 199-363) | status, retry count and dead-letter envelope of each `(version, stage, window)`; offsets | fetch, get-or-start, process, mark, retry, dead-letter, commit | at-least-once delivery, duplicates on two workers, read-then-`Save` updates, failing hand-off | no task is lost, dead letters come after the retries, one identity for each dead letter |
| dead-letter replay (`admin_service.go` 384-477) | the same row | reset, publish, restore | crash between reset and publication, replay racing with a late message | a dead letter stays replayable |
| document pipeline (`processor.go`) | versions, parsed object, evidence, chunk rows, embedding cache, two search indices | parse, chunk, embed, index | stages share artifacts and delete each other's; redelivery of a half-finished stage; errors that are only logged; a retry under another identity | no stage drops the document; what is called searchable is indexed, and under one identity; retries recover |
| chunk upload (`upload_service.go` 65-284, `upload_repository.go`) | chunk objects, `chunk_info`, a Redis bitmap of each user, `file_upload` | check, upload chunk, merge | one fact in three records that fail separately, two of them shared by users; asynchronous deletion of the bitmap; check and use of the chunk rows apart | only whole files are completed; what is recorded is stored |
| document status and deletion (`document_service.go`) | reads the tracker; deletes rows, objects, index entries, tasks | aggregate, delete | deletion in eight calls while stages, dispatchers with claimed tasks, uploads and other users' requests run | SEARCHABLE is true; what is deleted is gone; a failed deletion can be repeated; content uploaded again is processed again |
| long-term memory index (`memory_index_dispatcher.go`, `memory_repository.go` 104-186) | lease columns of a memory | create, claim, index, mark, delayed retry | leases that run out under their holder, failing embedding, stale marks | one holder settles a row; INDEXED is in the index; every memory is indexed in the end |
| conversation turns and memory (`conversation_repository.go`, `orchestrator_support_service.go`, `memory_service.go`) | Redis history and its key's expiry, working snapshots, memories | load session, prepare prompt, persist turn | a turn persisted half way or after nobody waits for it; sockets of one user | turns build on each other, none twice; the snapshot keeps up |
| chat stream (`chat_handler.go`, `chat_service.go`, `orchestrator/client.go`) | socket loop, stop token and flag, stream | ask, stop, relay | the loop that should read the stop is busy streaming; the client leaves; the stream breaks | one completion for each question; a stop interrupts the answer; every answer ends |
| users, tokens and tags (`user_service.go`, `admin_service.go` 130-260, `middleware/auth.go`, `jwt.go`) | user and tag rows, signed tokens, blacklist | register, login, refresh, log out, assign, choose, edit tags | whole-row saves of stale reads; logout racing with requests; the blacklist forgets | a revoked token is refused; no row mixes two decisions |
| search (`search_service.go`, the graph's `retrievers.py`, `RerankContext`, `reranker/client.go`) | none | recall, degrade, fuse, filter, rerank, answer | fall-backs after failures, each with its own filter; reranker answers that make no sense; rights that change meanwhile | only what the caller may have seen; nothing lost or said twice |
| index aliases (`es/alias.go`), schema migration, start-up, remaining handlers, model clients, prompts | configuration or none | | start-up only, or I/O without state of its own | |

The parts meet in few places: the merge transaction fills the outbox row; the
dispatcher and every stage publish to Kafka; the consumer's tracker and the
outbox use the *same row* of the parse task; the stages meet in the artifacts
of a document identity; the replay writes the tracker's rows; the status page
only reads them. The websocket's loop starts a turn and relays its stream; a
turn reads and writes the conversation in Redis and MySQL and may create the row
that the memory dispatchers claim; a request, before it searches or asks, is
admitted by a token and carries its user's row.

## Modules

**`AtLeastOnce`** is the promise of a durable queue: an obligation, once
accepted, is owed until it is settled; a duplicate may reopen it; no step
forgets it. Outbox, consumer and memory index implement it.

**`InitialOutbox`** (state: `completed`, `table`, each dispatcher's `phase`,
`batch`, `claims`; Kafka's `produced`). `CompleteUpload` is the merge
transaction, `Select` and `ClaimRow` are the query and the conditional updates
of `ClaimPendingInitialTasks`, `Produce` and `ProduceFails` the send,
`MarkPublished` and `MarkFailed` the two fenced marks, `Abort` a database error
or a restart, `LeaseExpires` the passing of time. The attempt a dispatcher
remembers is that of its query plus one, as in the code, not that of the row it
updated. A file's payload is told apart by its owner.

**`OutboxWithTracker`** extends it with the parse consumer's `db.Save` of a
whole row read earlier (`ReadTask`, `SaveTask`), publication columns included.

**`StageConsumer`** is `processStageMessage` step by step for workers with one
message each: `Fetch`, `Load` (get-or-start and the SUCCESS check),
`MarkProcessing`, `Process`, the read and the write of each mark (`ReadRow`,
`Save...`), the hand-off (`HandoffRetry`, `LookupDeadLetter`,
`PublishDeadLetter`), `Commit`; every one of them may fail, and `Crash` delivers
the message again. A `topic` maps message slots to tasks, so that duplicates
are messages of their own. The replay of a dead letter is a second kind of
process (`ResetForReplay`, `PublishReplay`, `ReadForRestore`, `SaveRestore`,
`ReplayStops`). A dead-letter identity is the hash of key and attempt; the
model keeps the attempt. Back-off delays, trace metadata and messages that
cannot be decoded are left out; so are the legacy operations keyed by chunk id,
which nothing calls.

**`DocumentPipeline`** runs the four stages on one document with the ingestion
worker enabled (`process...External`). Tracker and hand-off, which
`StageConsumer` has in detail, are one step each; every durable effect of a
handler is a step: `EnsureVersion`, `StoreParsed`; `ReadParsed`,
`ReplaceEvidence`, `DeleteChunks`, `DropCache`, `CreateChunks`; `LoadWindow`,
`CacheVectors`; `LoadChunks`, `LoadVectors`, `IndexChunks`, `IndexEvidence`,
`DropCache`, `RemoveParsed`; `Send`. An effect may be there although its call
reports an error (`Returns`, `SendFails`), a clean-up whose error is only logged
may not happen (`CleanUp`), and the bulk request may index a part. A document
identity is `sha`, the immutable version, or `upload`, the `upload:<md5>` which
the tracker uses for a task without a version and puts into its retry. A chunk
stands for a window. The keys of the schema (`docs/ddl.sql`, the initial script of
both compose files) are part of it: rows of a version and its chunk ids are unique
(line 107), so `CreateChunks` fails where rows were left by a failed delete or a
faster worker, and evidence refers to the row of its version (line 145), so
`ReplaceEvidence` fails without it. That every parsed document has evidence is the
worker's check (`structured_ingestion.py` 306). `IsSearchable` and `StageStatus` are
`AggregatePipelineStatus` and `aggregatePipelineStage`; creation times are taken
as distinct.

**`ChunkUpload`** is `upload_service.go` for one content and several users. A
request goroutine walks through its calls: `StartChunk`, `CreateRecord`,
`ReadBit`, `ReadRow`, `PutChunk`, `Upsert`, `InsertRow`, `MarkChunk`,
`ReportChunks`; `StartMerge`, `GatherChunks`, `VerifyChunks`, `SelectSources`,
`Compose`, `CommitMerge`. `ClearMarks` is the goroutine a merge leaves behind,
`CheckFile` the poll of a client. Any call may fail (`AbortRequest`), a server
die (`Crash`), an object or a bitmap disappear (`LoseChunk`). Chunk objects,
rows and the merged object are shared by the users of a content; `file_upload`
and the bitmap are a user's own. MD5s are taken as injective and clients send
the true bytes.

**`DocumentLifecycle`** composes it with the dispatchers (`Claim`, `Send` or
`SendFails`, `Mark`, `GiveUpClaim`: a dispatcher keeps a copy of the task between
its claim and the send, and sends it whatever has become of the row), the four
stages with the built-in parser and embedding client (`StageStep`: what a step
needs, what it leaves, where it goes on), and `DeleteDocument`
(`DeleteFromIndex`, `DeleteVectors`, `DeleteChunkRows`, `DeleteTasks`,
`DeleteMark`, `DeleteObject`, `DeleteRecord`), each of which can fail or be the
last. `horizon` and `seen` are not of the program: the newest upload a deletion
may have hit, and whether something was lost, raced (a request, a stage task or a
claimed parse task was under way during a deletion), or overtaken.

**`MemoryIndex`** is the lease of a long-term memory: `SelectCandidates` and
`ClaimRow` are the query and the conditional updates of
`ClaimPendingLongTermMemories`, then `IndexMemory`, `MarkIndexed` or
`MarkIndexFailed` with the doubling delay, failures of each, and
`CrashDispatcher`. Time is kept as the age of a row; `Tick` ages all of them and
costs a fault while a dispatcher is at work, so a slow dispatcher is a fault and
an idle one is not.

**`ConversationMemory`** is one user's turns against Redis and MySQL, call by
call: `GetConversationID`, `CreateConversationID`, `GetConversationHistory`,
`ReadSnapshot`, `UpsertWorkingSnapshot`, `UpdateConversationHistory`,
`RememberTurn`, and the expiry of the conversation key. A turn is its two
messages, so the 20 messages a history keeps are `HistoryCap = 10` turns.
`Abandon` tells what becomes of a turn nobody waits for: what runs under the
request's context ends, the memory tables are still written.

**`ChatSocket`** is the loop of `chat_handler.go` and the client of the stream:
messages are read one at a time, a question is streamed to its end before the
next message is read.

**`AssistantTurns`** composes the three: `Question` starts a turn, the
orchestrator (`TurnStep`, `Stream`) answers, persists and says that it is done,
`PassChunk`, `RelayError` and `RelayDone` pass it on; steps fail (`StepFails`),
persisting times out (`PersistTimesOut`), clients leave (`Cancel`).

**`Accounts`** has users, tags, tokens and the blacklist; a handler reads a row,
works on its copy and saves it whole (`SaveUser`, `SaveTag`). The parent of a tag is
a foreign key: a missing one is refused, and the children of a deleted tag come to
the top (`MayBeUnder`, `DeleteOrganizationTag`). A token is a
function of its claims, as signing is: two of one second are the same string.

**`Retrieval`** is `Search` step by step (recalls, degradation, phrase fall-back,
fusion, reranking, reply) and the retrieval of a question by the graph (`Plans`,
`NextSearch`, `Collect`, `RecallMemories`, `FuseContext`, `RerankContext`). What
Elasticsearch and the reranker return is any ranking of what the filter lets
through; reciprocal ranks are integers because `RankUnit` is a common multiple
of the denominators.

**`AuthorizedSearch`** composes the two: a request is admitted, loads its tags
and searches, while rows, tags and sessions change. `since` is not of the
program: what the tables have said since the request arrived. While a search
that has its tags is under way nothing happens to the tables
(`NoneUnderWay`): the search reads none of them any more, so such a step commutes
with it.

In each module the definitions that a comment calls *a fault* are not part of
the specification: they are wrong versions of the operation that follows, and
each property is checked to fail when the operation is replaced by one.

## Runs

| run | instance | what it shows |
|---|---|---|
| `outbox` | 2 files, 1 owner, 2 dispatchers, batch 2, 2 disturbances, fair | at most one dispatcher can mark a row (`ClaimFence`), `PublishedIsFinal`, and `OutboxDelivers`: the outbox implements `AtLeastOnce` |
| `outbox_tracker` | 1 file, 2 owners, 2 dispatchers, 2 disturbances, fair | with whole-row saves of the consumer: `PublishedIsAcknowledged`, `PublishedIsCompleted`, and a publication that a save took back is made again |
| `outbox_owners` | 1 file, 2 owners | *violated*: the second owner of a content gets no parse task (`EveryOwnerPublished`) |
| `stage` | 1 task, 2 workers, 1 administrator, 4 messages, 1 retry, 2 disturbances, fair | `NoTaskLost`, `QuietTaskIsRecorded`, `DeadLetteredAfterRetries`, `EventuallySettled`, and `StageDelivers`: the stage implements `AtLeastOnce` |
| `stage_serial` | 2 tasks, 1 worker, no replay, 4 disturbances | `SuccessIsFinal`, `DeadLetterIsKept`, `OneDeadLetterIdentity` |
| `replay` | 1 task, 1 worker, 1 administrator, no retry | *violated*: a server that stops between reset and publication leaves a dead letter that cannot be replayed (`DeadLetterIsReplayable`) |
| `pipeline` | 2 windows, 2 workers, 1 retry, 1 failure, 1 disturbance, fair | `SearchableIsIndexed`, `EveryTaskIsCarriedOn`, `IndexedUnderOneIdentity`, `EventuallyFinished` |
| `pipeline_redelivery` | 2 windows, 1 worker, 1 crash | *violated*: a crash between the index stage's clean-up and its success mark ends in a dead letter of an indexed document (`RedeliveryIsSafe`) |
| `lifecycle` | 2 users, 2 chunks, 2 goroutines, 2 dispatchers, 3 requests, 1 disturbance, 1 deletion | `UploadedIsStored`, `CompletedIsWhole`, `LeftoversHaveARecord`, `CompletedIsPursued` |
| `turns` | 2 sockets, 4 turns, 3 messages, 1 expiry, 2 dispatchers, 2 memories, 3 faults, fair | `OneHolder`, `IndexedIsSearchable`, `OnlyTheHolderSettles`, `IndexDelivers` (the memory index implements `AtLeastOnce`), `TurnsBuildOnEachOther`, `SnapshotIsRecent`, `OneCompletion`, `EveryQuestionIsAnswered` |
| `turns_stop` | 1 socket, 1 stop token, 2 messages | *violated*: a stop sent while an answer streams does not interrupt it (`StopInterruptsAnswer`) |
| `retrieval` | 3 users, 2 tags, 2 requests, 3 chunks, 2 memories, 3 seconds | `PrimaryOrgIsHeld`, `RevokedTokenIsRefused`, `AnswerIsPermitted`, `AnswerIsRanked` |

Three of the guarantees hold only of one worker and without replays, which is
why `stage_serial` is a run of its own: with two workers on duplicates of a task,
or with a replay, a stale `Save` makes SUCCESS, the envelope or its identity
disappear (`pipeline_task_repository.go` 268-320). Likewise `ClaimFence` is a
guarantee of `InitialOutbox` and not of `OutboxWithTracker`: a save that
restores CLAIMED with an old attempt number revives a claim that had been
superseded, although line 66 says the claim "leases durable
initial publications to one dispatcher".

**Bounds.** `MaxDisturbances` limits everything that goes wrong or is repeated
(failures, crashes, duplicates, slow lease holders, re-merges, replays), and
`MaxFailures` the refusals of called services; without them retries never end.
Two disturbances let a failure meet a crash or a stale write, which is what
every counterexample found so far needs; two workers or dispatchers are enough
for each race of a read with another's write. `Messages` is the room for
messages at one time; `Produced` waits for room, and four slots hold every
duplicate the budget allows. `NumChunks = 2` gives a first and a last window.
`lifecycle`, `turns` and `retrieval` have several *beginnings* that share the
bounds: the disjuncts of `Init` each give one kind of interleaving all it needs,
and not the product of all kinds. `lifecycle` starts from nothing, from an
upload before its merge, or from an indexed document, and spends its requests,
disturbances and deletions on what can happen there (2.4 million states);
`turns` has one socket with all messages and stop tokens, two sockets that ask
at once, one turn worth a memory, and two dispatchers with stored memories
(170 thousand); `retrieval` has sessions, memberships, registrations, searches
while tags move or go or users move, and a socket with two questions (690
thousand). `pipeline` has 410 thousand states.
`HistoryCap = 3`, `RefreshAfter = 2` and `NumTurns = 4` let a history fill up and
a snapshot become due; three seconds let an access token run out under its
blacklist entry. Constants that scale behaviour without changing it (20
memories a batch, 10 turns, `k = 60`) are small, and `TopN`, `RerankTopN` and
`FinalTopK` are such that each limit cuts.

Symmetry of users, requests, dispatchers and tags is used in `lifecycle` and `retrieval`,
which check invariants only; `turns` checks liveness and uses none.

`CHECK_DEADLOCK FALSE` is set in all runs because the system comes to rest when
nothing is left to do. `Files` are numbered because the claim query orders by
id, and rows are created in that order.

**Fairness.** A dispatcher loops on a timer until shutdown (`RunInitialTaskDispatcher`),
clocks advance, and consumers loop over `FetchMessage` (`consumeMessagesSerially`,
`retryUntilDurable`): hence weak fairness of `Dispatch(d)`, `LeaseExpires(f)` and
`Work(w)`. Nothing obliges a user to upload or merge, an administrator to
replay, or anything to fail. In `AssistantTurns` the handler's goroutine goes on
(`HandlerStep`), so does the orchestrator's run of a turn (`TurnStep`, which
includes that an answer comes: its model calls are bounded by a timeout), the
memory dispatchers run on a ticker (`DispatchMemories`) and time passes
(`Tick`). Asking, stopping, leaving, expiring and failing are free.

## Proofs

Eight modules of proofs, each for every value of the constants that satisfies the
assumptions of the modules, checked with tlapm:

* outbox: `TypeOK`, `ClaimFence`, `PublishedIsAcknowledged`,
  `PublishedIsCompleted`, `PublishedIsFinal`, and that each step is a step of
  `AtLeastOnce` or a stutter (`OutboxRefines`, its safety part).
  The fence alone is not inductive: a dispatcher holds copies read earlier. The
  invariant `OutboxInv` adds that every copy is of a completed upload and no
  copy's attempt is ahead of its row (`CopiesAreBehind`), so a claim takes a
  number nobody holds; that the rows carry payloads of completed uploads
  (`RowsAreCompleted`); and that the message is in Kafka between the
  acknowledgement and the mark (`AcknowledgedIsProduced`).
* outbox shared with the tracker (`InitialOutboxProofs`):
  `PublishedIsAcknowledged` and `PublishedIsCompleted` of `OutboxWithTracker`. A
  save brings back the attempt of an old row, so the fence and `CopiesAreBehind` are
  false here. `TrackedInv` keeps what the two properties really rest on and says it of
  the rows in the table and of those a consumer has read alike (`RowFits`): the
  payload is of a completed upload, and PUBLISHED has a message in Kafka. No
  step takes back either fact, so a row may be saved however old it is.
* consumer (`StageConsumerProofs`): `TypeOK`, `NoTaskLost`, `QuietTaskIsRecorded`,
  `DeadLetteredAfterRetries`. `StageInv` adds
  that a busy worker's message is in the topic and is handled by it alone
  (`OneHandler`), which is why a commit removes no one else's message, and that
  whoever is about to write or send an envelope has used up its retries, in the
  row, in every copy of it and in every replay (`EnvelopesAreExhausted`). That a
  task is not lost is not inductive as the run states it: two workers with
  duplicates, each about to publish an envelope, could each be all that the other's
  commit relies on. `NoTaskForgotten`
  asks for an account of every task that leaves out a worker about to end: a
  row or an envelope that records it, or a message still to be handled.
* consumer, one worker and no administrator (`Serial`, the setting of
  `stage_serial`): `DeadLetterIsKept`, `OneDeadLetterIdentity`, `SuccessIsFinal`.
  `SerialInv` says that the row in the worker's hands is the current one and that
  a task handed to the dead-letter topic has a FAILED row with that identity,
  exactly what two workers break in the findings.
* consumer as a queue: `StageRefines`, every step of the consumer is a step of
  `AtLeastOnce` or a stutter, the safety part of `StageDelivers`. `KnownRows` is
  what it needs: a task is new exactly while it has no row and no message.
* document pipeline (`DocumentPipelineProofs`): `TypeOK`, `EveryTaskIsCarriedOn`,
  `SearchableIsIndexed`, `IndexedUnderOneIdentity`, for any number of windows and
  workers.
  `PipelineInv` adds that every handler of a task stands for a message of its own
  (`HandledIsThere`, by counting, which is why there are finitely many workers),
  that evidence is written before the rows made from it and indexed no sooner than
  its chunks, and that a finished stage has handed the next one over
  (`JobsHandedOver`, `RowsHandedOver`), which no later step takes back. One identity
  follows from `OneVersion`: only the immutable one ever has a version row, evidence
  needs the row, and no stage writes chunks to the index without evidence.
* memory index (`MemoryIndexProofs`, `AssistantTurnsProofs`): `OneHolder`,
  `IndexedIsSearchable`, `OnlyTheHolderSettles`, and that every step of the whole
  assistant is a step of the index or leaves it alone. The attempt a dispatcher
  remembers comes from its query while the update increments the row's, so the
  fence is not inductive by itself: `IndexInv` adds that no attempt in a
  dispatcher's hands is ahead of its row (`ClaimsAreBehind`), so that a claim takes
  a number nobody holds; that two dispatchers never hold one memory
  (`ClaimsAreApart`); that a memory not yet stored was never claimed (`FreshRows`);
  and that what is about to be marked indexed is in the index (`RoundsAreSound`).
  `AssistantOwesMemories` is the safety half of `IndexDelivers`: every step of the
  assistant is a step of `AtLeastOnce` or a stutter, because only a claimed row is
  marked and only a row that does not exist is created.
* turns (`AssistantTurnsProofs`): `TypeOK`, `TurnsBuildOnEachOther`,
  `SnapshotIsRecent`, for any number of sockets, turns and memories, any history
  cap and any refresh distance. The properties speak of turns that did not overlap,
  and `ConversationInv` says what such a *lone* turn finds: all turns before it are
  over, every history has the last of the turns stored in its conversation
  (`HistoriesAreKept`), and while a history has them all, a snapshot that counts `n`
  turns has seen its `n`-th one (`SnapshotsAreTrue`). Of all turns, lone or not, it
  says that they begin in their order and that histories hold stored turns, none
  twice (`HistoriesAreStored`); a list without repetitions is no longer than there
  are turns, which bounds what a snapshot counts. The type of `convs` needs
  `ConversationsAreBounded`: a turn may create a conversation in its first load
  and, if the key expired meanwhile, in its second, and the turns that still may are
  counted. The turns stored before one are a set in the properties, and a history
  is compared with it by order and membership.
* chat (`AssistantTurnsProofs`): `OneCompletion`, from `SocketsInv`, which says what the stream and the client hold in each state of
  the loop; all other steps leave the sockets alone or append to a stream.
* document lifecycle (`DocumentLifecycleProofs`): `TypeOK`, `UploadedIsStored`,
  `CompletedIsWhole`, for any number of users, requests, chunks and deletions.
  `LifecycleInv` follows the facts into the requests: whoever is about to record a
  chunk has stored it (`RowsAreStored`), whoever is about to mark one finds it
  recorded (`MarksAreRecorded`), and a merge younger than all deletions has every
  chunk at each of its steps (`MergesAreWhole`). When a deletion makes a step the
  last two start anew, since no id is beyond the newest (`Behind`); all other
  steps only add rows. It was this proof that showed the overtaken merge below.
* after completions and deletions (`DocumentLifecycleProofs`):
  `LeftoversHaveARecord` and `CompletedIsPursued`, from `AfterInv`. A deletion
  removes in a fixed order, and `Deserted` says that what it has removed stays
  removed while it goes on (`DeletionsRemove`), so that nothing is left once the last
  record is gone, and no task, message or claim that would bring anything back.
  `Pursued` follows a document from stage to stage (`TasksGoOn`): a stage that has
  passed has handed it on, a dispatcher that is about to mark the row has sent its
  message, and what a published row or a success promised is a message in Kafka or
  has ended. Each is stated only of histories in which nothing overlapped the
  deletion, exactly as the property is: a claim held over a deletion counts as
  overlapping, since its dispatcher sends the task afterwards.
* accounts (`AuthorizedSearchProofs`): `PrimaryOrgIsHeld` and
  `RevokedTokenIsRefused`. `AccountsInv` says that each request fits the tables
  (`Fits`): the row in a handler's hands is consistent, a request marked revoked
  that has passed the blacklist carries a token that has run out, and a revoked
  token has run out or still has its entry (`LogoutsCount`). The facts are stable
  because rows and revocations are never taken back and time goes on (`Grow`).
* one search (`RetrievalProofs`, lemmas only): `Ranked` lists a finite set, each element once,
  in any total order; reciprocal rank fusion has everything the rankings have, in
  an order they agree with; a reranked answer has all candidates that fit, each
  once, whatever the reranker names; and every stage of a search or a question
  keeps `SearchInv`, for the documents it may use.
* searches (`AuthorizedSearchProofs`): `TypeOK`, `AnswerIsPermitted`,
  `AnswerIsRanked`. `SearchersInv` connects a request with its search: what the
  search has in hand, in every recall, pool and list and not only in the answer, is
  `Permitted` to the request, and its tags lie in every set that is closed upwards and
  has the tags the caller has held. `Permitted` only grows, since `since` remembers
  every membership and every link the tables ever said, so the steps of
  other requests keep it; the loading of the tags, a walk up the links of one moment,
  stays in each such set.

Each step lemma has one step per operation. The proofs about rankings and
histories need induction over lengths: they take a least counterexample (from the
well-foundedness of the natural numbers) instead, since an induction rule that
takes a predicate cannot be applied here. Two assumptions on constants serve the
proofs: there are finitely many users and tags (a database has), which `Ranked`
and the walk up the tags need, and finitely many workers, which are counted.

Every invariant and every action property that a passing run checks is also a
theorem. Only model-checked is liveness: `EventuallyPublished` (of the outbox and
with the tracker), `EventuallySettled`, `EventuallyFinished`,
`EveryQuestionIsAnswered` and the liveness half of the three refinements
(`OutboxDelivers`, `StageDelivers`, `IndexDelivers`); it rests on fairness, which
is beyond the prover.

## Findings

Each is the counterexample of a run above, quoted in `PROJECT.json`:

* `outbox_owners`: content-keyed outbox rows absorb the second owner's task.
* `replay`: a replay interrupted after its reset strands the dead letter.
* `pipeline_redelivery`: a redelivered index task is dead-lettered for want of the
  cache it had itself deleted.
* `turns_stop`: the stop of an answer waits for its end, although the token, its log
  message, the acknowledgement, the architecture and the stop button say that it
  interrupts it.

## Observations

What the models show the code to do beyond the findings. A property above is worded
so that it leaves out exactly this.

* *A retried parse task cannot succeed.* The first parse task carries no version, its
  retry carries `upload:<md5>` (`retry.go` 123). `ensureTaskVersion` takes that for a
  version and makes no row of it, so the insert of the evidence, which refers to the row
  (`docs/ddl.sql` 145), fails on every attempt: one failure of the parse stage
  dead-letters the document, although each stage is to be recoverable (`README.md` 29).
  It is the same foreign key that keeps a document whose first hand-over was stored all
  the same from being indexed under a second identity (`IndexedUnderOneIdentity`).
* *A deletion stops none of the document's tasks* (`document_service.go` 295). One that is
  running writes chunk rows or index entries again after they were removed, and no
  record leads to them any more: search still finds the document, and nobody can delete
  it. (`raced` in `DocumentLifecycle`; excluded as described below.)
* *A lost chunk is not repaired.* When a `chunk_info` row is there and its object is
  not, `UploadChunk` wants to return an error but returns `err`, which is nil there
  (`upload_service.go` 178-182): the client is told nothing, nothing is uploaded, and
  the merge fails from then on. (`ReadRow`; `CompletedIsWhole` holds.)
* *An overtaken merge shortens an object.* `MergeChunks` verifies its chunks (line 228)
  and asks for their rows again (line 231). If a deletion removes the rows in between
  and a new upload has stored some, it composes these few over the merged object, also
  when the new upload was completed meanwhile. (`Overtaken`, excluded in
  `CompletedIsWhole`; without a deletion in between it cannot happen.)
* *A deletion is for all owners of a content.* It is begun by the first owner of the
  MD5 and removes chunks, vectors, tasks, index entries and the merged object; the rows of other
  owners stay "completed". The parsed object, evidence rows and the evidence index
  survive every deletion, because their names carry the version.
* *A claim outlives a deletion.* A dispatcher claims up to 20 tasks
  (`upload_service.go` 293) and sends them one after the other (307). A whole deletion
  fits in between: the message then arrives without any record of the document, and
  `GetOrStart` makes a `pipeline_task` row nothing leads to. No request or stage task
  need have run meanwhile. (`LeftoversHaveARecord` and `CompletedIsPursued` leave out
  deletions that a claim, a request or a stage task overlapped.)
* *Overlapping turns overwrite each other.* A history is written whole, from the one the
  turn began with. `TurnsBuildOnEachOther` is about turns one after the other.
* *A full history stops the snapshot.* `loadOrRefreshWorkingSnapshot` compares message
  counts (`memory_service.go` 377); once the history is capped they grow no more, and
  the snapshot can stay as it is. `SnapshotIsRecent` is about histories not yet full.
* *Tokens of one second are one string.* A user who logs out and in again within the
  second of the first login gets a token that is on the blacklist.
* *Whole-row saves lose updates* of users and tags (`SaveUser`, `SaveTag`), but never
  mix two decisions in a row.
* *When the reranking call fails*, the graph keeps up to twice `ContextTopK` items; and
  `RerankContext`, unlike `Search`, does not fill up with what the reranker left out.

## Not modelled

Index aliases: `EnsureRHAIndices` and `SwitchAlias` are single requests, atomic in
Elasticsearch, made at start or by hand. Schema migration, start-up and seeding:
sequential, before anything else runs. HTTP handlers beyond the order of their
calls, listings, downloads and previews, roles, passwords: decoding, replies and
one-row reads. Profile slots, the wording of prompts and plans, sub-queries, what
the extraction finds worth remembering, splitting and embedding: data without
control of its own, represented by a choice. The Go endpoints `RetrieveContext` and
`FuseContext` repeat the flow of the graph's retrieval. Model clients: I/O.
The legacy operations keyed by chunk id: nothing calls them.
