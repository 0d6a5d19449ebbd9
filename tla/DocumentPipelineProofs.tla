------------------------ MODULE DocumentPipelineProofs ------------------------
(* Proofs about DocumentPipeline, for any number of chunks, workers, retries,  *)
(* failures and disturbances.                                                  *)
EXTENDS DocumentPipeline, FiniteSetTheorems, TLAPS

\* Nobody handles a message that is not there.
HandledIsThere == \A t \in Task : Cardinality(Handling(t)) <= inbox[t]

\* The steps of each handler.
StepsOf == [parse |-> {"version", "store", "send", "done", "failed"},
            chunk |-> {"read", "evidence", "delete", "uncache", "create", "send", "done", "failed"},
            embed |-> {"window", "vectors", "send", "done", "failed"},
            index |-> {"rows", "cached", "bulk", "bulkEvidence", "uncache", "remove", "done",
                       "failed"}]

\* A job is at a step of its handler and, once its version is ensured, works
\* under one identity; only a parse task may get another one than its own.
InOrder(j) ==
  /\ j.step \in StepsOf[j.task.stage]
  /\ j.step \notin {"version", "failed"} => j.doc \in Identities
  /\ j.task.stage # "parse" => j.doc = j.task.doc

\* All that a search for the document can find is in the indices.
Indexed(v) == store[v].found /\ store[v].searchable = Chunks

\* Evidence is stored before the chunk rows, chunks are indexed before the
\* evidence, and neither is taken back.
WellFounded(j) ==
  /\ j.step \in {"delete", "create", "cached", "bulk", "bulkEvidence"} => store[j.doc].evidence
  /\ j.step = "uncache" /\ j.task.stage = "chunk" => store[j.doc].evidence
  /\ j.step = "bulkEvidence" => store[j.doc].searchable = Chunks
  /\ j.step \in {"uncache", "remove", "done"} /\ j.task.stage = "index" => Indexed(j.doc)

\* A stage that is through has handed over.
HandedOver(j) ==
  j.step = "done" /\ j.task.stage # "index" => \E v \in Identities : Passed(Key(j.task), v)

Busy(w) == job[w].step # "idle"

JobsInOrder == \A w \in Workers : Busy(w) => InOrder(job[w])
JobsWellFounded == \A w \in Workers : Busy(w) => WellFounded(job[w])
JobsHandedOver == \A w \in Workers : Busy(w) => HandedOver(job[w])
RowsWellFounded ==
  /\ \A v \in Identities : store[v].rows => store[v].evidence
  /\ \A k \in Keys : k.stage = "index" /\ row[k].status = "SUCCESS" => Indexed(k.doc)

\* EveryTaskIsCarriedOn is not inductive: the message of a task that is SUCCESS
\* is committed without a look at its successor.
RowsHandedOver ==
  \A k \in Keys : row[k].status = "SUCCESS" /\ k.stage # "index" => \E v \in Identities : Passed(k, v)
OpenTasksAreThere ==
  \A k \in Keys : row[k].status \in {"PENDING", "PROCESSING", "FAILED"} =>
    \E t \in Task : Key(t) = k /\ inbox[t] > 0

\* A version is the newest as soon as there is a row, and nobody works earlier.
NewestIsKnown ==
  newest = "unset" => /\ \A k \in Keys : row[k].status = "ABSENT"
                      /\ \A w \in Workers : ~Busy(w)

PipelineInv ==
  /\ TypeOK
  /\ HandledIsThere
  /\ JobsInOrder
  /\ JobsWellFounded
  /\ RowsWellFounded
  /\ NewestIsKnown
  /\ JobsHandedOver
  /\ RowsHandedOver
  /\ OpenTasksAreThere

----------------------------------------------------------------------------
(* Tasks and their keys. *)

Stages == {"parse", "chunk", "embed", "index"}

\* The fields of a task.
LEMMA TaskFields ==
  ASSUME NEW t \in Task
  PROVE  /\ t.stage \in Stages
         /\ t.doc \in Identities \cup {"unset"}
         /\ t.stage # "parse" => t.doc \in Identities
         /\ t.stage = "embed" => t.window \in Chunks
         /\ t.stage # "embed" => t.window = 0
         /\ t = [stage |-> t.stage, doc |-> t.doc, window |-> t.window]
  BY DEF Task, Stages, Identities

\* A key is a task of its own, with an identity, and its own key.
LEMMA KeyFacts ==
  ASSUME NEW t \in Task
  PROVE  /\ Key(t) \in Keys /\ Key(t) \in Task
         /\ Key(t).stage = t.stage /\ Key(t).window = t.window
         /\ Key(t).doc \in Identities /\ Key(Key(t)) = Key(t)
         /\ t.doc # "unset" => Key(t) = t
  <1>1. CASE t.doc # "unset"
    BY <1>1, TaskFields DEF Key, Keys, Identities
  <1>2. CASE t.doc = "unset"
    <2>1. t = [stage |-> "parse", doc |-> "unset", window |-> 0]
      BY <1>2, TaskFields DEF Identities, Stages
    <2>2. Key(t) = [stage |-> "parse", doc |-> "upload", window |-> 0]
      BY <2>1 DEF Key
    <2>3. Key(t) \in Task
      BY <2>2 DEF Task
    <2>4. Key(t) \in Keys
      BY DEF Keys
    <2> QED BY <2>1, <2>2, <2>3, <2>4 DEF Key, Identities
  <1> QED BY <1>1, <1>2

LEMMA KeyOfKey ==
  ASSUME NEW k \in Keys
  PROVE  k \in Task /\ k.doc \in Identities /\ Key(k) = k
  <1>1. PICK t \in Task : k = Key(t)
    BY DEF Keys
  <1> QED BY <1>1, KeyFacts

\* What a stage hands over is a task with an identity, the same for a task and
\* for its key.
LEMMA SuccessorFacts ==
  ASSUME NEW t \in Task, t.stage # "index", NEW v \in Identities
  PROVE  /\ Successor(t, v) \in Task /\ Successor(t, v) \in Keys
         /\ Successor(Key(t), v) = Successor(t, v)
  <1>1. Successor(Key(t), v) = Successor(t, v)
    BY KeyFacts DEF Successor
  <1>2. Successor(t, v) \in Task
    <2>1. CASE t.stage = "parse"
      BY <2>1 DEF Successor, Task
    <2>2. CASE t.stage \in {"chunk", "embed"} /\ t.window < NumChunks
      <3>1. t.window + 1 \in Chunks
        BY <2>2, TaskFields, PipelineAssumption DEF Chunks
      <3> QED BY <2>2, <3>1 DEF Successor, Task
    <2>3. CASE t.stage \in {"chunk", "embed"} /\ ~(t.window < NumChunks)
      BY <2>3 DEF Successor, Task
    <2> QED BY <2>1, <2>2, <2>3, TaskFields DEF Stages
  <1>3. Successor(t, v).doc # "unset"
    BY DEF Successor, Identities
  <1> QED BY <1>1, <1>2, <1>3, KeyFacts

----------------------------------------------------------------------------
(* Steps inside a handler. *)

LEMMA JobTypes ==
  ASSUME TypeOK, NEW w \in Workers, Busy(w)
  PROVE  /\ job[w] \in Job /\ job[w].task \in Task /\ job[w].step \in Steps \ {"idle"}
         /\ job[w].doc \in Identities \cup {"unset"}
         /\ job[w].task # NoTask
  <1>1. job[w] \in Job
    BY DEF TypeOK, Busy, NoJob
  <1> QED BY <1>1, NoTaskAssumption DEF Job

\* Going to another step changes nothing else of the job.
LEMMA GotoMoves ==
  ASSUME TypeOK, NEW w \in Workers, Busy(w), NEW s \in Steps \ {"idle"}, Goto(w, s)
  PROVE  \E j \in Job : /\ job' = [job EXCEPT ![w] = j]
                        /\ j.task = job[w].task /\ j.doc = job[w].doc /\ j.step = s
  <1>1. job' = [job EXCEPT ![w] = [job[w] EXCEPT !.step = s]]
    BY DEF Goto, TypeOK
  <1>2. [job[w] EXCEPT !.step = s] \in Job
    BY JobTypes DEF Job
  <1>3. /\ [job[w] EXCEPT !.step = s].task = job[w].task
        /\ [job[w] EXCEPT !.step = s].doc = job[w].doc
        /\ [job[w] EXCEPT !.step = s].step = s
    BY JobTypes DEF Job
  <1> QED BY <1>1, <1>2, <1>3

\* What no step takes back.
StoreGrows ==
  /\ store' \in [Identities -> Artifacts]
  /\ \A v \in Identities :
       /\ store[v].evidence => store'[v].evidence
       /\ store[v].found => store'[v].found
       /\ store[v].searchable = Chunks => store'[v].searchable = Chunks
       /\ store'[v].rows => store'[v].evidence

BudgetsHold == failures' \in 0 .. MaxFailures /\ budget' \in 0 .. MaxDisturbances

\* A job that stays at its step stays well founded.
LEMMA GrowthKeepsJobs ==
  ASSUME PipelineInv, StoreGrows, NEW v \in Workers, Busy(v), UNCHANGED job[v]
  PROVE  WellFounded(job[v])'
  <1>1. InOrder(job[v]) /\ WellFounded(job[v])
    BY DEF PipelineInv, JobsInOrder, JobsWellFounded
  <1>2. ASSUME job[v].step \notin {"version", "failed"}
        PROVE  /\ store[job[v].doc].evidence => store'[job[v].doc].evidence
               /\ store[job[v].doc].found => store'[job[v].doc].found
               /\ store[job[v].doc].searchable = Chunks => store'[job[v].doc].searchable = Chunks
    BY <1>1, <1>2 DEF InOrder, StoreGrows
  <1> QED BY <1>1, <1>2 DEF WellFounded, Indexed

LEMMA GrowthKeepsRows ==
  ASSUME PipelineInv, StoreGrows, UNCHANGED queue
  PROVE  RowsWellFounded'
  <1>1. ASSUME NEW v \in Identities, Indexed(v) PROVE Indexed(v)'
    BY <1>1 DEF Indexed, StoreGrows
  <1>2. \A k \in Keys : k.doc \in Identities
    BY KeyOfKey
  <1>3. \A v \in Identities : store'[v].rows => store'[v].evidence
    BY DEF StoreGrows
  <1> QED BY <1>1, <1>2, <1>3 DEF PipelineInv, RowsWellFounded, queue

\* A step that changes neither Kafka nor the tracker nor whom a task is handled by.
LEMMA HandlerStep ==
  ASSUME PipelineInv, UNCHANGED queue, StoreGrows, BudgetsHold,
         NEW w \in Workers, Busy(w), NEW j \in Job, job' = [job EXCEPT ![w] = j],
         j.task = job[w].task, InOrder(j), WellFounded(j)',
         j.step = "done" => j.task.stage = "index"
  PROVE  PipelineInv'
  <1>1. /\ job' \in [Workers -> Job \cup {NoJob}] /\ job'[w] = j
        /\ \A v \in Workers \ {w} : job'[v] = job[v]
    BY DEF PipelineInv, TypeOK
  <1>2. TypeOK'
    BY <1>1 DEF PipelineInv, TypeOK, queue, StoreGrows, BudgetsHold
  <1>3. HandledIsThere'
    <2>1. \A v \in Workers : job'[v].task = job[v].task
      BY <1>1
    <2>2. \A t \in Task : Handling(t)' = Handling(t)
      BY <2>1 DEF Handling
    <2> QED BY <2>2 DEF PipelineInv, HandledIsThere, queue
  <1>4. JobsInOrder'
    <2>1. InOrder(job[w])'
      BY <1>1 DEF InOrder
    <2>2. \A v \in Workers \ {w} : Busy(v)' => InOrder(job[v])'
      BY <1>1 DEF PipelineInv, JobsInOrder, InOrder, Busy
    <2> QED BY <2>1, <2>2 DEF JobsInOrder
  <1>5. JobsWellFounded'
    <2>1. WellFounded(job[w])'
      BY <1>1 DEF WellFounded, Indexed
    <2>2. \A v \in Workers \ {w} : Busy(v)' => WellFounded(job[v])'
      BY <1>1, GrowthKeepsJobs DEF Busy
    <2> QED BY <2>1, <2>2 DEF JobsWellFounded
  <1>6. RowsWellFounded'
    BY GrowthKeepsRows
  <1>7. JobsHandedOver'
    <2>1. HandedOver(job[w])'
      BY <1>1 DEF HandedOver
    <2>2. \A v \in Workers \ {w} : Busy(v)' => HandedOver(job[v])'
      BY <1>1 DEF PipelineInv, JobsHandedOver, HandedOver, Busy, Passed, queue
    <2> QED BY <2>1, <2>2 DEF JobsHandedOver
  <1>8. NewestIsKnown' /\ RowsHandedOver' /\ OpenTasksAreThere'
    BY DEF PipelineInv, NewestIsKnown, RowsHandedOver, OpenTasksAreThere, Passed, queue, Busy
  <1> QED BY <1>2, <1>3, <1>4, <1>5, <1>6, <1>7, <1>8 DEF PipelineInv

\* A step that goes to step s of the same handler.
LEMMA GotoStep ==
  ASSUME PipelineInv, UNCHANGED queue, StoreGrows, BudgetsHold,
         NEW w \in Workers, Busy(w), NEW s \in Steps \ {"idle"}, Goto(w, s),
         s \in StepsOf[job[w].task.stage], s # "failed" => Doc(w) \in Identities,
         s = "done" => job[w].task.stage = "index",
         s \in {"delete", "create", "cached", "bulk", "bulkEvidence"} => store'[Doc(w)].evidence,
         s = "uncache" /\ job[w].task.stage = "chunk" => store'[Doc(w)].evidence,
         s = "bulkEvidence" => store'[Doc(w)].searchable = Chunks,
         s \in {"uncache", "remove", "done"} /\ job[w].task.stage = "index"
           => store'[Doc(w)].found /\ store'[Doc(w)].searchable = Chunks
  PROVE  PipelineInv'
  <1>1. PICK j \in Job : /\ job' = [job EXCEPT ![w] = j]
                         /\ j.task = job[w].task /\ j.doc = job[w].doc /\ j.step = s
    BY GotoMoves DEF PipelineInv
  <1>2. InOrder(j)
    BY <1>1 DEF PipelineInv, JobsInOrder, InOrder, Doc
  <1>3. WellFounded(j)'
    BY <1>1 DEF WellFounded, Indexed, Doc
  <1> QED BY <1>1, <1>2, <1>3, HandlerStep

\* A store in which one identity has other artifacts.
LEMMA OneIdentityGrows ==
  ASSUME PipelineInv, NEW d \in Identities, NEW a \in Artifacts,
         store' = [store EXCEPT ![d] = a],
         store[d].evidence => a.evidence, store[d].found => a.found,
         store[d].searchable = Chunks => a.searchable = Chunks,
         a.rows => a.evidence
  PROVE  StoreGrows /\ store'[d] = a
  <1>1. /\ store' \in [Identities -> Artifacts] /\ store'[d] = a
        /\ \A v \in Identities \ {d} : store'[v] = store[v]
    BY DEF PipelineInv, TypeOK
  <1> QED BY <1>1 DEF PipelineInv, RowsWellFounded, StoreGrows

LEMMA SameStoreGrows ==
  ASSUME PipelineInv, UNCHANGED store
  PROVE  StoreGrows
  BY DEF PipelineInv, TypeOK, RowsWellFounded, StoreGrows

\* What a budget allows, and what leaves it alone.
LEMMA BudgetTypes ==
  ASSUME PipelineInv
  PROVE  /\ Failure => failures' \in 0 .. MaxFailures
         /\ UNCHANGED failures => failures' \in 0 .. MaxFailures
         /\ Disturb => budget' \in 0 .. MaxDisturbances
         /\ UNCHANGED budget => budget' \in 0 .. MaxDisturbances
  BY PipelineAssumption DEF PipelineInv, TypeOK, Failure, Disturb

\* A busy worker, its steps and the artifacts of its identity.
LEMMA AtStep ==
  ASSUME PipelineInv, NEW w \in Workers, Busy(w), ~At(w, "version"), ~At(w, "failed")
  PROVE  /\ Doc(w) \in Identities /\ store[Doc(w)] \in Artifacts
         /\ store[Doc(w)].rows => store[Doc(w)].evidence
         /\ job[w].step \in StepsOf[job[w].task.stage]
         /\ WellFounded(job[w])
  <1>1. Doc(w) \in Identities
    BY DEF PipelineInv, JobsInOrder, InOrder, At, Doc
  <1> QED BY <1>1 DEF PipelineInv, JobsInOrder, JobsWellFounded, RowsWellFounded, InOrder, TypeOK

\* The stage of a busy worker, from its step, and the steps that are next.
LEMMA StageOfStep ==
  ASSUME PipelineInv, NEW w \in Workers, Busy(w)
  PROVE  /\ job[w].task.stage \in Stages
         /\ job[w].step \in {"version", "store"} => job[w].task.stage = "parse"
         /\ job[w].step \in {"read", "evidence", "delete", "create"} => job[w].task.stage = "chunk"
         /\ job[w].step \in {"window", "vectors"} => job[w].task.stage = "embed"
         /\ job[w].step \in {"rows", "cached", "bulk", "bulkEvidence", "remove"}
              => job[w].task.stage = "index"
         /\ job[w].step = "uncache" => job[w].task.stage \in {"chunk", "index"}
         /\ job[w].step = "send" => job[w].task.stage # "index"
         /\ "failed" \in StepsOf[job[w].task.stage] /\ "done" \in StepsOf[job[w].task.stage]
  <1>1. job[w].task.stage \in Stages
    BY JobTypes, TaskFields DEF PipelineInv
  <1>2. job[w].step \in StepsOf[job[w].task.stage]
    BY DEF PipelineInv, JobsInOrder, InOrder
  <1> QED BY <1>1, <1>2 DEF StepsOf, Stages

\* The handler returns an error.
LEMMA FailingStep ==
  ASSUME PipelineInv, NEW w \in Workers, Busy(w), UNCHANGED queue, StoreGrows, BudgetsHold,
         Goto(w, "failed")
  PROVE  PipelineInv'
  <1>1. "failed" \in Steps \ {"idle"} /\ "failed" \in StepsOf[job[w].task.stage]
    BY StageOfStep DEF Steps
  <1> QED BY <1>1, GotoStep

\* processParseExternal.
LEMMA ParseSteps ==
  ASSUME PipelineInv, NEW w \in Workers, EnsureVersion(w) \/ StoreParsed(w)
  PROVE  PipelineInv'
  <1>1. Busy(w) /\ UNCHANGED queue
    BY DEF EnsureVersion, StoreParsed, At, Busy
  <1>2. BudgetsHold
    BY BudgetTypes DEF EnsureVersion, StoreParsed, Returns, budgets, BudgetsHold
  <1>3. job[w].task.stage = "parse"
    BY <1>1, StageOfStep DEF EnsureVersion, StoreParsed, At
  <1>4. "store" \in Steps \ {"idle"} /\ "store" \in StepsOf[job[w].task.stage]
        /\ "send" \in Steps \ {"idle"} /\ "send" \in StepsOf[job[w].task.stage]
    BY <1>3 DEF Steps, StepsOf
  <1>5. CASE EnsureVersion(w) /\ Doc(w) = "unset"
    <2>1. StoreGrows
      <3> DEFINE a == [store["sha"] EXCEPT !.version = TRUE]
      <3>1. "sha" \in Identities /\ store["sha"] \in Artifacts
        BY DEF PipelineInv, TypeOK, Identities
      <3>2. store' = [store EXCEPT !["sha"] = a]
        BY <1>5, <3>1 DEF EnsureVersion, PipelineInv, TypeOK
      <3>3. /\ a \in Artifacts /\ a.evidence = store["sha"].evidence
            /\ a.found = store["sha"].found /\ a.rows = store["sha"].rows
            /\ a.searchable = store["sha"].searchable
        BY <3>1 DEF Artifacts
      <3>4. store["sha"].rows => store["sha"].evidence
        BY <3>1 DEF PipelineInv, RowsWellFounded
      <3> HIDE DEF a
      <3> QED BY <3>1, <3>2, <3>3, <3>4, OneIdentityGrows
    <2> DEFINE j == [job[w] EXCEPT !.doc = "sha", !.step = "store"]
    <2>2. j \in Job /\ j.task = job[w].task /\ j.step = "store" /\ j.doc = "sha"
      BY <1>1, JobTypes DEF PipelineInv, Job, Steps, Identities
    <2>3. job' = [job EXCEPT ![w] = j]
      BY <1>5 DEF EnsureVersion, PipelineInv, TypeOK
    <2> HIDE DEF j
    <2>4. InOrder(j)
      BY <2>2, <1>3, <1>4 DEF InOrder, Identities
    <2>5. PICK i \in Job : i = j
      BY <2>2
    <2>6. WellFounded(i)'
      BY <2>2, <2>5 DEF WellFounded
    <2> QED BY <1>1, <1>2, <2>1, <2>2, <2>3, <2>4, <2>5, <2>6, HandlerStep
  <1>6. CASE EnsureVersion(w) /\ Doc(w) # "unset"
    <2>1. Goto(w, "store") /\ UNCHANGED store
      BY <1>6 DEF EnsureVersion
    <2>2. Doc(w) \in Identities
      BY <1>1, <1>6, JobTypes DEF Doc, PipelineInv
    <2> QED BY <1>1, <1>2, <1>4, <2>1, <2>2, SameStoreGrows, GotoStep
  <1>7. CASE StoreParsed(w)
    <2> DEFINE a == [store[Doc(w)] EXCEPT !.parsed = TRUE]
    <2>1. /\ Doc(w) \in Identities /\ store[Doc(w)] \in Artifacts
          /\ store[Doc(w)].rows => store[Doc(w)].evidence
      BY <1>1, <1>7, AtStep DEF StoreParsed, At
    <2>2. store' = [store EXCEPT ![Doc(w)] = a]
      BY <1>7 DEF StoreParsed, PipelineInv, TypeOK
    <2>3. /\ a \in Artifacts /\ a.evidence = store[Doc(w)].evidence
          /\ a.found = store[Doc(w)].found /\ a.rows = store[Doc(w)].rows
          /\ a.searchable = store[Doc(w)].searchable
      BY <2>1 DEF Artifacts
    <2> HIDE DEF a
    <2>4. StoreGrows
      BY <2>1, <2>2, <2>3, OneIdentityGrows
    <2>5. Goto(w, "send") \/ Goto(w, "failed")
      BY <1>7 DEF StoreParsed, Returns
    <2> QED BY <1>1, <1>2, <1>4, <2>1, <2>4, <2>5, FailingStep, GotoStep
  <1> QED BY <1>5, <1>6, <1>7

\* A clean-up that is done or whose error is ignored.
LEMMA CleanUpGrows ==
  ASSUME PipelineInv, NEW d \in Identities, NEW a \in Artifacts, CleanUp(d, a),
         a.evidence = store[d].evidence, a.found = store[d].found,
         a.searchable = store[d].searchable, a.rows => a.evidence
  PROVE  /\ StoreGrows /\ budget' \in 0 .. MaxDisturbances
         /\ store'[d].evidence = store[d].evidence
  <1>1. CASE store' = [store EXCEPT ![d] = a] /\ UNCHANGED budget
    BY <1>1, OneIdentityGrows, BudgetTypes
  <1>2. CASE UNCHANGED store /\ Disturb
    BY <1>2, SameStoreGrows, BudgetTypes
  <1> QED BY <1>1, <1>2 DEF CleanUp

\* processChunkExternal.
LEMMA ChunkSteps ==
  ASSUME PipelineInv, NEW w \in Workers,
         ReadParsed(w) \/ ReplaceEvidence(w) \/ DeleteChunks(w) \/ CreateChunks(w)
  PROVE  PipelineInv'
  <1>1. Busy(w) /\ UNCHANGED queue
    BY DEF ReadParsed, ReplaceEvidence, DeleteChunks, CreateChunks, At, Busy
  <1>2. job[w].task.stage = "chunk"
    BY <1>1, StageOfStep DEF ReadParsed, ReplaceEvidence, DeleteChunks, CreateChunks, At
  <1>3. {"evidence", "delete", "uncache", "send"}
          \subseteq (Steps \ {"idle"}) \cap StepsOf[job[w].task.stage]
    BY <1>2 DEF Steps, StepsOf
  <1>4. /\ Doc(w) \in Identities /\ store[Doc(w)] \in Artifacts
        /\ store[Doc(w)].rows => store[Doc(w)].evidence
        /\ WellFounded(job[w])
    BY <1>1, AtStep DEF ReadParsed, ReplaceEvidence, DeleteChunks, CreateChunks, At
  <1>5. CASE ReadParsed(w)
    <2>1. StoreGrows /\ BudgetsHold
      BY <1>5, SameStoreGrows, BudgetTypes DEF ReadParsed, budgets, BudgetsHold
    <2>2. Goto(w, "evidence") \/ Goto(w, "failed")
      BY <1>5 DEF ReadParsed
    <2> QED BY <1>1, <1>3, <1>4, <2>1, <2>2, FailingStep, GotoStep
  <1>6. CASE ReplaceEvidence(w) /\ store[Doc(w)].version
    <2> DEFINE a == [store[Doc(w)] EXCEPT !.evidence = TRUE]
    <2>1. store' = [store EXCEPT ![Doc(w)] = a]
      BY <1>6 DEF ReplaceEvidence, PipelineInv, TypeOK
    <2>2. /\ a \in Artifacts /\ a.evidence /\ a.found = store[Doc(w)].found
          /\ a.searchable = store[Doc(w)].searchable
      BY <1>4 DEF Artifacts
    <2> HIDE DEF a
    <2>3. StoreGrows /\ store'[Doc(w)].evidence
      BY <1>4, <2>1, <2>2, OneIdentityGrows
    <2>4. BudgetsHold
      BY <1>6, BudgetTypes DEF ReplaceEvidence, Returns, BudgetsHold
    <2>5. Goto(w, "delete") \/ Goto(w, "failed")
      BY <1>6 DEF ReplaceEvidence, Returns
    <2> QED BY <1>1, <1>2, <1>3, <1>4, <2>3, <2>4, <2>5, FailingStep, GotoStep
  <1>9. CASE ReplaceEvidence(w) /\ ~store[Doc(w)].version
    <2>1. StoreGrows /\ BudgetsHold
      BY <1>9, SameStoreGrows, BudgetTypes DEF ReplaceEvidence, BudgetsHold
    <2>2. Goto(w, "failed")
      BY <1>9 DEF ReplaceEvidence
    <2> QED BY <1>1, <2>1, <2>2, FailingStep
  <1>7. CASE DeleteChunks(w)
    <2> DEFINE a == [store[Doc(w)] EXCEPT !.rows = FALSE]
    <2>1. CleanUp(Doc(w), a)
      BY <1>7 DEF DeleteChunks
    <2>2. /\ a \in Artifacts /\ a.evidence = store[Doc(w)].evidence
          /\ a.found = store[Doc(w)].found /\ ~a.rows
          /\ a.searchable = store[Doc(w)].searchable
      BY <1>4 DEF Artifacts
    <2> HIDE DEF a
    <2>3. /\ StoreGrows /\ budget' \in 0 .. MaxDisturbances
          /\ store'[Doc(w)].evidence = store[Doc(w)].evidence
      BY <1>4, <2>1, <2>2, CleanUpGrows
    <2>4. BudgetsHold
      BY <1>7, <2>3, BudgetTypes DEF DeleteChunks, BudgetsHold
    <2>5. store[Doc(w)].evidence
      BY <1>4, <1>7 DEF DeleteChunks, At, WellFounded, Doc
    <2>6. Goto(w, "uncache")
      BY <1>7 DEF DeleteChunks
    <2> QED BY <1>1, <1>2, <1>3, <1>4, <2>3, <2>4, <2>5, <2>6, GotoStep
  <1>8. CASE CreateChunks(w) /\ ~store[Doc(w)].rows
    <2> DEFINE a == [store[Doc(w)] EXCEPT !.rows = TRUE]
    <2>1. store' = [store EXCEPT ![Doc(w)] = a]
      BY <1>8 DEF CreateChunks, PipelineInv, TypeOK
    <2>2. store[Doc(w)].evidence
      BY <1>4, <1>8 DEF CreateChunks, At, WellFounded, Doc
    <2>3. /\ a \in Artifacts /\ a.evidence /\ a.found = store[Doc(w)].found
          /\ a.searchable = store[Doc(w)].searchable
      BY <1>4, <2>2 DEF Artifacts
    <2> HIDE DEF a
    <2>4. StoreGrows
      BY <1>4, <2>1, <2>2, <2>3, OneIdentityGrows
    <2>5. BudgetsHold
      BY <1>8, BudgetTypes DEF CreateChunks, Returns, BudgetsHold
    <2>6. Goto(w, "send") \/ Goto(w, "failed")
      BY <1>8 DEF CreateChunks, Returns
    <2> QED BY <1>1, <1>2, <1>3, <1>4, <2>4, <2>5, <2>6, FailingStep, GotoStep
  <1>10. CASE CreateChunks(w) /\ store[Doc(w)].rows
    <2>1. StoreGrows /\ BudgetsHold
      BY <1>10, SameStoreGrows, BudgetTypes DEF CreateChunks, BudgetsHold
    <2>2. Goto(w, "failed")
      BY <1>10 DEF CreateChunks
    <2> QED BY <1>1, <2>1, <2>2, FailingStep
  <1> QED BY <1>5, <1>6, <1>7, <1>8, <1>9, <1>10

\* The embedding cache is dropped, in the chunk stage and at the end of index.
LEMMA DropCacheStep ==
  ASSUME PipelineInv, NEW w \in Workers, DropCache(w)
  PROVE  PipelineInv'
  <1>1. Busy(w) /\ UNCHANGED queue
    BY DEF DropCache, At, Busy
  <1>2. job[w].task.stage \in {"chunk", "index"}
    BY <1>1, StageOfStep DEF DropCache, At
  <1>3. /\ Doc(w) \in Identities /\ store[Doc(w)] \in Artifacts
        /\ store[Doc(w)].rows => store[Doc(w)].evidence
        /\ WellFounded(job[w])
    BY <1>1, AtStep DEF DropCache, At
  <1> DEFINE a == [store[Doc(w)] EXCEPT !.cache = {}]
  <1>4. CleanUp(Doc(w), a)
    BY DEF DropCache
  <1>5. /\ a \in Artifacts /\ a.evidence = store[Doc(w)].evidence
        /\ a.found = store[Doc(w)].found /\ a.rows = store[Doc(w)].rows
        /\ a.searchable = store[Doc(w)].searchable
    BY <1>3 DEF Artifacts
  <1> HIDE DEF a
  <1>6. /\ StoreGrows /\ budget' \in 0 .. MaxDisturbances
        /\ store'[Doc(w)].evidence = store[Doc(w)].evidence
    BY <1>3, <1>4, <1>5, CleanUpGrows
  <1>7. BudgetsHold
    BY <1>6, BudgetTypes DEF DropCache, BudgetsHold
  <1>8. CASE job[w].task.stage = "chunk"
    <2>1. "create" \in Steps \ {"idle"} /\ "create" \in StepsOf[job[w].task.stage]
      BY <1>8 DEF Steps, StepsOf
    <2>2. store'[Doc(w)].evidence
      BY <1>3, <1>6, <1>8 DEF DropCache, At, WellFounded, Doc
    <2>3. Goto(w, "create")
      BY <1>8 DEF DropCache
    <2> QED BY <1>1, <1>3, <1>6, <1>7, <2>1, <2>2, <2>3, GotoStep
  <1>9. CASE job[w].task.stage = "index"
    <2>1. "remove" \in Steps \ {"idle"} /\ "remove" \in StepsOf[job[w].task.stage]
      BY <1>9 DEF Steps, StepsOf
    <2>2. Indexed(Doc(w))
      BY <1>3, <1>9 DEF DropCache, At, WellFounded, Doc
    <2>3. Goto(w, "remove")
      BY <1>9 DEF DropCache
    <2>4. store'[Doc(w)].found /\ store'[Doc(w)].searchable = Chunks
      BY <2>2, <1>3, <1>6 DEF StoreGrows, Indexed
    <2> QED BY <1>1, <1>3, <1>6, <1>7, <2>1, <2>3, <2>4, GotoStep
  <1> QED BY <1>2, <1>8, <1>9

\* processEmbedExternal.
LEMMA EmbedSteps ==
  ASSUME PipelineInv, NEW w \in Workers, LoadWindow(w) \/ CacheVectors(w)
  PROVE  PipelineInv'
  <1>1. Busy(w) /\ UNCHANGED queue
    BY DEF LoadWindow, CacheVectors, At, Busy
  <1>2. job[w].task.stage = "embed"
    BY <1>1, StageOfStep DEF LoadWindow, CacheVectors, At
  <1>3. {"vectors", "send"} \subseteq (Steps \ {"idle"}) \cap StepsOf[job[w].task.stage]
    BY <1>2 DEF Steps, StepsOf
  <1>4. /\ Doc(w) \in Identities /\ store[Doc(w)] \in Artifacts
        /\ store[Doc(w)].rows => store[Doc(w)].evidence
    BY <1>1, AtStep DEF LoadWindow, CacheVectors, At
  <1>5. CASE LoadWindow(w)
    <2>1. StoreGrows /\ BudgetsHold
      BY <1>5, SameStoreGrows, BudgetTypes DEF LoadWindow, budgets, BudgetsHold
    <2>2. Goto(w, "vectors") \/ Goto(w, "failed")
      BY <1>5 DEF LoadWindow
    <2> QED BY <1>1, <1>3, <1>4, <2>1, <2>2, FailingStep, GotoStep
  <1>6. CASE CacheVectors(w)
    <2> DEFINE a == [store[Doc(w)] EXCEPT !.cache = @ \cup {job[w].task.window}]
    <2>1. store' = [store EXCEPT ![Doc(w)] = a]
      BY <1>6 DEF CacheVectors, PipelineInv, TypeOK
    <2>2. /\ a \in Artifacts /\ a.evidence = store[Doc(w)].evidence
          /\ a.found = store[Doc(w)].found /\ a.rows = store[Doc(w)].rows
          /\ a.searchable = store[Doc(w)].searchable
      <3>1. job[w].task.window \in Chunks
        BY <1>1, <1>2, JobTypes, TaskFields DEF PipelineInv
      <3> QED BY <1>4, <3>1 DEF Artifacts
    <2> HIDE DEF a
    <2>3. StoreGrows
      BY <1>4, <2>1, <2>2, OneIdentityGrows
    <2>4. BudgetsHold
      BY <1>6, BudgetTypes DEF CacheVectors, Returns, BudgetsHold
    <2>5. Goto(w, "send") \/ Goto(w, "failed")
      BY <1>6 DEF CacheVectors, Returns
    <2> QED BY <1>1, <1>2, <1>3, <1>4, <2>3, <2>4, <2>5, FailingStep, GotoStep
  <1> QED BY <1>5, <1>6

\* processIndexExternal, without the end that it shares with the chunk stage.
LEMMA IndexSteps ==
  ASSUME PipelineInv, NEW w \in Workers,
         LoadChunks(w) \/ LoadVectors(w) \/ IndexChunks(w) \/ IndexEvidence(w) \/ RemoveParsed(w)
  PROVE  PipelineInv'
  <1>1. Busy(w) /\ UNCHANGED queue
    BY DEF LoadChunks, LoadVectors, IndexChunks, IndexEvidence, RemoveParsed, At, Busy
  <1>2. job[w].task.stage = "index"
    BY <1>1, StageOfStep DEF LoadChunks, LoadVectors, IndexChunks, IndexEvidence, RemoveParsed, At
  <1>3. {"cached", "bulk", "bulkEvidence", "uncache", "done"}
          \subseteq (Steps \ {"idle"}) \cap StepsOf[job[w].task.stage]
    BY <1>2 DEF Steps, StepsOf
  <1>4. /\ Doc(w) \in Identities /\ store[Doc(w)] \in Artifacts
        /\ store[Doc(w)].rows => store[Doc(w)].evidence
        /\ WellFounded(job[w])
    BY <1>1, AtStep DEF LoadChunks, LoadVectors, IndexChunks, IndexEvidence, RemoveParsed, At
  <1>5. CASE LoadChunks(w) \/ LoadVectors(w)
    <2>1. StoreGrows /\ BudgetsHold /\ UNCHANGED store
      BY <1>5, SameStoreGrows, BudgetTypes DEF LoadChunks, LoadVectors, budgets, BudgetsHold
    <2>2. \/ Goto(w, "failed")
          \/ Goto(w, "cached") /\ store[Doc(w)].evidence
          \/ Goto(w, "bulk") /\ store[Doc(w)].evidence
      BY <1>4, <1>5 DEF LoadChunks, LoadVectors, At, WellFounded, Doc
    <2> QED BY <1>1, <1>2, <1>3, <1>4, <2>1, <2>2, FailingStep, GotoStep
  <1>6. CASE IndexChunks(w)
    <2>1. PICK S \in SUBSET Chunks :
            /\ store' = [store EXCEPT ![Doc(w)].searchable = @ \cup S]
            /\ \/ Goto(w, "bulkEvidence") /\ S = Chunks
               \/ Goto(w, "failed")
      <3>1. CASE store' = [store EXCEPT ![Doc(w)].searchable = Chunks] /\ Goto(w, "bulkEvidence")
        <4>1. store[Doc(w)].searchable \cup Chunks = Chunks
          BY <1>4 DEF Artifacts
        <4> QED BY <3>1, <4>1, <1>4
      <3>2. CASE \E S \in SUBSET Chunks :
                   /\ store' = [store EXCEPT ![Doc(w)].searchable = @ \cup S]
                   /\ Goto(w, "failed")
        BY <3>2
      <3> QED BY <1>6, <3>1, <3>2 DEF IndexChunks
    <2> DEFINE a == [store[Doc(w)] EXCEPT !.searchable = @ \cup S]
    <2>2. store' = [store EXCEPT ![Doc(w)] = a]
      BY <2>1 DEF PipelineInv, TypeOK
    <2>3. /\ a \in Artifacts /\ a.evidence = store[Doc(w)].evidence
          /\ a.found = store[Doc(w)].found /\ a.rows = store[Doc(w)].rows
          /\ a.searchable = store[Doc(w)].searchable \cup S
      BY <1>4 DEF Artifacts
    <2>4. store[Doc(w)].searchable \subseteq Chunks
      BY <1>4 DEF Artifacts
    <2> HIDE DEF a
    <2>5. StoreGrows /\ store'[Doc(w)] = a
      BY <1>4, <2>2, <2>3, <2>4, OneIdentityGrows
    <2>6. BudgetsHold
      BY <1>6, BudgetTypes DEF IndexChunks, BudgetsHold
    <2>7. store[Doc(w)].evidence
      BY <1>4, <1>6 DEF IndexChunks, At, WellFounded, Doc
    <2>8. S = Chunks => store'[Doc(w)].searchable = Chunks
      BY <2>3, <2>4, <2>5
    <2>9. store'[Doc(w)].evidence
      BY <2>3, <2>5, <2>7
    <2> QED BY <1>1, <1>2, <1>3, <1>4, <2>1, <2>5, <2>6, <2>8, <2>9, FailingStep, GotoStep
  <1>7. CASE IndexEvidence(w)
    <2> DEFINE a == [store[Doc(w)] EXCEPT !.found = @ \/ store[Doc(w)].evidence]
    <2>1. store[Doc(w)].evidence /\ store[Doc(w)].searchable = Chunks
      BY <1>4, <1>7 DEF IndexEvidence, At, WellFounded, Doc
    <2>2. store' = [store EXCEPT ![Doc(w)] = a]
      BY <1>7 DEF IndexEvidence, PipelineInv, TypeOK
    <2>3. /\ a \in Artifacts /\ a.evidence = store[Doc(w)].evidence
          /\ a.found /\ a.rows = store[Doc(w)].rows
          /\ a.searchable = store[Doc(w)].searchable
      BY <1>4, <2>1 DEF Artifacts
    <2> HIDE DEF a
    <2>4. StoreGrows /\ store'[Doc(w)] = a
      BY <1>4, <2>1, <2>2, <2>3, OneIdentityGrows
    <2>5. BudgetsHold
      BY <1>7, BudgetTypes DEF IndexEvidence, Returns, BudgetsHold
    <2>6. Goto(w, "uncache") \/ Goto(w, "failed")
      BY <1>7 DEF IndexEvidence, Returns
    <2>7. store'[Doc(w)].found /\ store'[Doc(w)].searchable = Chunks
      BY <2>1, <2>3, <2>4
    <2> QED BY <1>1, <1>2, <1>3, <1>4, <2>4, <2>5, <2>6, <2>7, FailingStep, GotoStep
  <1>8. CASE RemoveParsed(w)
    <2> DEFINE a == [store[Doc(w)] EXCEPT !.parsed = FALSE]
    <2>1. CleanUp(Doc(w), a) /\ Goto(w, "done")
      BY <1>8 DEF RemoveParsed
    <2>2. /\ a \in Artifacts /\ a.evidence = store[Doc(w)].evidence
          /\ a.found = store[Doc(w)].found /\ a.rows = store[Doc(w)].rows
          /\ a.searchable = store[Doc(w)].searchable
      BY <1>4 DEF Artifacts
    <2> HIDE DEF a
    <2>3. StoreGrows /\ budget' \in 0 .. MaxDisturbances
      BY <1>4, <2>1, <2>2, CleanUpGrows
    <2>4. BudgetsHold
      BY <1>8, <2>3, BudgetTypes DEF RemoveParsed, BudgetsHold
    <2>5. Indexed(Doc(w))
      BY <1>2, <1>4, <1>8 DEF RemoveParsed, At, WellFounded, Doc
    <2>6. store'[Doc(w)].found /\ store'[Doc(w)].searchable = Chunks
      BY <1>4, <2>3, <2>5 DEF StoreGrows, Indexed
    <2> QED BY <1>1, <1>2, <1>3, <1>4, <2>1, <2>3, <2>4, <2>6, GotoStep
  <1> QED BY <1>5, <1>6, <1>7, <1>8

\* A service refuses, or the embedding cache runs out of its time to live.
LEMMA ServiceSteps ==
  ASSUME PipelineInv
  PROVE  /\ \A w \in Workers : ServiceFails(w) => PipelineInv'
         /\ CacheExpires => PipelineInv'
  <1>1. ASSUME NEW w \in Workers, ServiceFails(w) PROVE PipelineInv'
    <2>1. Busy(w) /\ UNCHANGED queue /\ Goto(w, "failed")
      BY <1>1 DEF ServiceFails, Busy
    <2>2. StoreGrows /\ BudgetsHold
      BY <1>1, SameStoreGrows, BudgetTypes DEF ServiceFails, BudgetsHold
    <2> QED BY <2>1, <2>2, FailingStep
  <1>2. ASSUME CacheExpires PROVE PipelineInv'
    <2>1. PICK v \in Identities : store' = [store EXCEPT ![v].cache = {}]
      BY <1>2 DEF CacheExpires
    <2> DEFINE a == [store[v] EXCEPT !.cache = {}]
    <2>2. store' = [store EXCEPT ![v] = a]
      BY <2>1 DEF PipelineInv, TypeOK
    <2>3. /\ a \in Artifacts /\ a.evidence = store[v].evidence
          /\ a.found = store[v].found /\ a.rows = store[v].rows
          /\ a.searchable = store[v].searchable
      BY DEF Artifacts, PipelineInv, TypeOK
    <2> HIDE DEF a
    <2>4. store[v].rows => store[v].evidence
      BY DEF PipelineInv, RowsWellFounded
    <2>5. StoreGrows
      BY <2>2, <2>3, <2>4, OneIdentityGrows
    <2>6. UNCHANGED <<queue, job>> /\ BudgetsHold
      BY <1>2, BudgetTypes DEF CacheExpires, BudgetsHold
    <2>7. TypeOK'
      BY <2>5, <2>6 DEF PipelineInv, TypeOK, queue, StoreGrows, BudgetsHold
    <2>8. HandledIsThere' /\ JobsInOrder' /\ JobsHandedOver' /\ NewestIsKnown'
          /\ RowsHandedOver' /\ OpenTasksAreThere'
      BY <2>6 DEF PipelineInv, HandledIsThere, Handling, JobsInOrder, InOrder, JobsHandedOver,
                  HandedOver, Passed, NewestIsKnown, RowsHandedOver, OpenTasksAreThere, Busy, queue
    <2>9. JobsWellFounded'
      BY <2>5, <2>6, GrowthKeepsJobs DEF JobsWellFounded, Busy
    <2>10. RowsWellFounded'
      BY <2>5, <2>6, GrowthKeepsRows
    <2> QED BY <2>7, <2>8, <2>9, <2>10 DEF PipelineInv
  <1> QED BY <1>1, <1>2

----------------------------------------------------------------------------
(* Steps around a handler. *)

\* A step of worker w leaves the jobs of the others alone.
OthersStay(w) == \A v \in Workers \ {w} : job'[v] = job[v]

\* How many workers handle t after worker w has got a task, lost it or kept it.
LEMMA HandledAfter ==
  ASSUME NEW w \in Workers, OthersStay(w), NEW t \in Task
  PROVE  /\ Cardinality(Handling(t)) \in Nat /\ Cardinality(Handling(t))' \in Nat
         /\ (job'[w].task = t <=> job[w].task = t)
              => Cardinality(Handling(t))' = Cardinality(Handling(t))
         /\ (job'[w].task = t /\ job[w].task # t)
              => Cardinality(Handling(t))' = Cardinality(Handling(t)) + 1
         /\ (job'[w].task # t /\ job[w].task = t)
              => Cardinality(Handling(t))' = Cardinality(Handling(t)) - 1
  <1>1. IsFiniteSet(Handling(t)) /\ IsFiniteSet(Handling(t)')
    <2>1. Handling(t) \in SUBSET Workers /\ Handling(t)' \in SUBSET Workers
      BY DEF Handling
    <2> QED BY <2>1, PipelineAssumption, FS_Subset
  <1>2. Cardinality(Handling(t)) \in Nat /\ Cardinality(Handling(t))' \in Nat
    BY <1>1, FS_CardinalityType
  <1>3. CASE job'[w].task = t <=> job[w].task = t
    <2>1. Handling(t)' = Handling(t)
      BY <1>3 DEF Handling, OthersStay
    <2> QED BY <1>2, <1>3, <2>1
  <1>4. CASE job'[w].task = t /\ job[w].task # t
    <2>1. Handling(t)' = Handling(t) \cup {w} /\ w \notin Handling(t)
      BY <1>4 DEF Handling, OthersStay
    <2>2. Cardinality(Handling(t) \cup {w}) = Cardinality(Handling(t)) + 1
      BY <1>1, <2>1, FS_AddElement
    <2> QED BY <1>2, <1>4, <2>1, <2>2
  <1>5. CASE job'[w].task # t /\ job[w].task = t
    <2>1. Handling(t)' = Handling(t) \ {w} /\ w \in Handling(t)
      BY <1>5 DEF Handling, OthersStay
    <2>2. Cardinality(Handling(t) \ {w}) = Cardinality(Handling(t)) - 1
      BY <1>1, <2>1, FS_RemoveElement
    <2> QED BY <1>2, <1>5, <2>1, <2>2
  <1> QED BY <1>2, <1>3, <1>4, <1>5

\* A message leaves the inbox only when its task is in the tracker, and no row is
\* deleted.
QueueGoesOn ==
  \A k \in Keys : /\ row[k].status # "ABSENT" => row'[k].status # "ABSENT"
                  /\ inbox[k] > 0 => inbox'[k] > 0 \/ row'[k].status # "ABSENT"

LEMMA PassedStays ==
  ASSUME QueueGoesOn, NEW t \in Task, t.stage # "index", NEW v \in Identities, Passed(t, v)
  PROVE  Passed(t, v)'
  BY SuccessorFacts DEF Passed, QueueGoesOn

\* What a step of the queue keeps if it is right about the jobs and the row it
\* changes.
LEMMA QueueStep ==
  ASSUME PipelineInv, TypeOK', HandledIsThere', UNCHANGED store, QueueGoesOn,
         \A w \in Workers :
           job'[w] = job[w] \/ (Busy(w)' => (InOrder(job[w]) /\ WellFounded(job[w]) /\ HandedOver(job[w]))'),
         NEW k \in Keys, \A i \in Keys \ {k} : row'[i] = row[i],
         \A t \in Task : Key(t) # k => inbox'[t] >= inbox[t],
         row'[k].status = "SUCCESS" /\ k.stage = "index" => Indexed(k.doc),
         row'[k].status = "SUCCESS" /\ k.stage # "index" => \E v \in Identities : Passed(k, v)',
         row'[k].status \in {"PENDING", "PROCESSING", "FAILED"}
           => \E t \in Task : Key(t) = k /\ inbox'[t] > 0,
         newest' # "unset" \/ UNCHANGED <<row, newest, job>>
  PROVE  PipelineInv'
  <1>1. JobsInOrder'
    <2>1. ASSUME NEW v \in Workers, job'[v] = job[v], Busy(v)' PROVE InOrder(job[v])'
      BY <2>1 DEF PipelineInv, JobsInOrder, InOrder, Busy
    <2> QED BY <2>1 DEF JobsInOrder
  <1>2. JobsWellFounded'
    <2>1. ASSUME NEW v \in Workers, job'[v] = job[v], Busy(v)' PROVE WellFounded(job[v])'
      BY <2>1 DEF PipelineInv, JobsWellFounded, WellFounded, Indexed, Busy
    <2> QED BY <2>1 DEF JobsWellFounded
  <1>3. JobsHandedOver'
    <2>1. ASSUME NEW v \in Workers, job'[v] = job[v], Busy(v)' PROVE HandedOver(job[v])'
      <3>1. job'[v] = job[v] /\ Busy(v)
        BY <2>1 DEF Busy
      <3>2. HandedOver(job[v])
        BY <3>1 DEF PipelineInv, JobsHandedOver
      <3>3. ASSUME job[v].step = "done", job[v].task.stage # "index"
            PROVE  \E i \in Identities : Passed(Key(job[v].task), i)'
        <4>1. PICK i \in Identities : Passed(Key(job[v].task), i)
          BY <3>2, <3>3 DEF HandedOver
        <4>2. PICK s \in Task : s = Key(job[v].task) /\ s.stage # "index"
          BY <3>1, <3>3, JobTypes, KeyFacts DEF PipelineInv
        <4>3. Passed(s, i)'
          BY <4>1, <4>2, PassedStays
        <4>4. Key(job[v].task)' = s
          BY <3>1, <4>2
        <4> QED BY <4>3, <4>4
      <3> QED BY <3>1, <3>3 DEF HandedOver
    <2> QED BY <2>1 DEF JobsHandedOver
  <1>4. RowsWellFounded'
    BY DEF PipelineInv, RowsWellFounded, Indexed
  <1>5. RowsHandedOver'
    <2> SUFFICES ASSUME NEW i \in Keys, row'[i].status = "SUCCESS", i.stage # "index"
                 PROVE  \E v \in Identities : Passed(i, v)'
      BY DEF RowsHandedOver
    <2>1. CASE i = k
      BY <2>1
    <2>2. CASE i # k
      <3>1. PICK v \in Identities : Passed(i, v)
        BY <2>2 DEF PipelineInv, RowsHandedOver
      <3> QED BY <3>1, KeyOfKey, PassedStays
    <2> QED BY <2>1, <2>2
  <1>6. OpenTasksAreThere'
    <2> SUFFICES ASSUME NEW i \in Keys, row'[i].status \in {"PENDING", "PROCESSING", "FAILED"}
                 PROVE  \E t \in Task : Key(t) = i /\ inbox'[t] > 0
      BY DEF OpenTasksAreThere
    <2>1. CASE i = k
      BY <2>1
    <2>2. CASE i # k
      <3>1. PICK t \in Task : Key(t) = i /\ inbox[t] > 0
        BY <2>2 DEF PipelineInv, OpenTasksAreThere
      <3>2. inbox[t] \in Nat /\ inbox'[t] \in Nat /\ inbox'[t] >= inbox[t]
        BY <2>2, <3>1 DEF PipelineInv, TypeOK
      <3> QED BY <3>1, <3>2
    <2> QED BY <2>1, <2>2
  <1>7. NewestIsKnown'
    BY DEF PipelineInv, NewestIsKnown, Busy
  <1> QED BY <1>1, <1>2, <1>3, <1>4, <1>5, <1>6, <1>7 DEF PipelineInv

\* An idle worker has no task.
LEMMA IdleHasNoTask ==
  ASSUME TypeOK, NEW w \in Workers, ~Busy(w)
  PROVE  job[w] = NoJob /\ job[w].task = NoTask
  BY DEF TypeOK, Busy, Job, NoJob

\* GetOrStart and MarkProcessingByKey.
LEMMA BeginStep ==
  ASSUME PipelineInv, NEW w \in Workers, Begin(w)
  PROVE  PipelineInv'
  <1>1. PICK t \in Task :
          /\ Available(t)
          /\ row' = [row EXCEPT ![Key(t)].status = "PROCESSING"]
          /\ newest' = IF row[Key(t)].status = "ABSENT" THEN Key(t).doc ELSE newest
          /\ job' = [job EXCEPT ![w] = [task |-> t, step |-> FirstStep[t.stage],
                                        doc |-> t.doc]]
    BY DEF Begin
  <1> DEFINE j == [task |-> t, step |-> FirstStep[t.stage], doc |-> t.doc]
  <1>2. t.stage \in Stages /\ t.doc \in Identities \cup {"unset"}
        /\ (t.stage # "parse" => t.doc \in Identities)
        /\ Key(t) \in Keys /\ Key(t).doc \in Identities
    BY TaskFields, KeyFacts
  <1>3. /\ FirstStep[t.stage] \in {"version", "read", "window", "rows"}
        /\ FirstStep[t.stage] \in StepsOf[t.stage]
        /\ FirstStep[t.stage] = "version" => t.stage = "parse"
        /\ t.stage = "parse" => FirstStep[t.stage] = "version"
    BY <1>2 DEF FirstStep, StepsOf, Stages
  <1>4. j \in Job
    BY <1>2, <1>3, PipelineAssumption DEF Job, Steps
  <1>5. ~Busy(w) /\ UNCHANGED <<inbox, store, budgets>>
    BY DEF Begin, At, Busy
  <1>6. job'[w] = j /\ OthersStay(w) /\ job' \in [Workers -> Job \cup {NoJob}]
    BY <1>1, <1>4 DEF PipelineInv, TypeOK, OthersStay
  <1>7. /\ row' \in [Keys -> [status : Status, retries : Nat]]
        /\ row'[Key(t)].status = "PROCESSING"
        /\ \A i \in Keys \ {Key(t)} : row'[i] = row[i]
    BY <1>1, <1>2 DEF PipelineInv, TypeOK, Status
  <1>8. newest' \in Identities \/ (newest' = newest /\ row[Key(t)].status # "ABSENT")
    BY <1>1, <1>2
  <1>9. TypeOK'
    BY <1>5, <1>6, <1>7, <1>8 DEF PipelineInv, TypeOK, budgets
  <1>10. inbox[t] > Cardinality(Handling(t)) /\ inbox[t] \in Nat
    BY <1>1 DEF Available, PipelineInv, TypeOK
  <1>11. HandledIsThere'
    <2> SUFFICES ASSUME NEW u \in Task PROVE Cardinality(Handling(u))' <= inbox'[u]
      BY DEF HandledIsThere
    <2>1. job[w].task # u
      BY <1>5, IdleHasNoTask, NoTaskAssumption DEF PipelineInv
    <2>2. inbox[u] \in Nat /\ Cardinality(Handling(u)) <= inbox[u] /\ inbox'[u] = inbox[u]
      BY <1>5 DEF PipelineInv, TypeOK, HandledIsThere
    <2>3. CASE u = t
      <3>1. Cardinality(Handling(u))' = Cardinality(Handling(u)) + 1
            /\ Cardinality(Handling(u)) \in Nat
        BY <2>1, <2>3, <1>6, HandledAfter
      <3> QED BY <3>1, <2>2, <2>3, <1>10
    <2>4. CASE u # t
      <3>1. Cardinality(Handling(u))' = Cardinality(Handling(u))
        BY <2>1, <2>4, <1>6, HandledAfter
      <3> QED BY <3>1, <2>2
    <2> QED BY <2>3, <2>4
  <1>12. QueueGoesOn
    BY <1>5, <1>7 DEF QueueGoesOn
  <1>13. (InOrder(job[w]) /\ WellFounded(job[w]) /\ HandedOver(job[w]))'
    BY <1>2, <1>3, <1>6 DEF InOrder, WellFounded, HandedOver
  <1>14. inbox'[t] > 0
    BY <1>5, <1>6, <1>10, HandledAfter
  <1>15. newest' # "unset"
    BY <1>2, <1>8 DEF Identities, PipelineInv, NewestIsKnown
  <1>16. \A u \in Task : inbox'[u] >= inbox[u]
    BY <1>5 DEF PipelineInv, TypeOK
  <1> HIDE DEF j
  <1> QED BY <1>2, <1>5, <1>6, <1>7, <1>9, <1>11, <1>12, <1>13, <1>14, <1>15, <1>16,
             QueueStep DEF OthersStay

\* A message of task t is committed.
LEMMA OneMessageLess ==
  ASSUME PipelineInv, NEW t \in Task, inbox[t] > 0, inbox' = [inbox EXCEPT ![t] = @ - 1]
  PROVE  /\ inbox' \in [Task -> Nat] /\ inbox'[t] = inbox[t] - 1
         /\ \A u \in Task \ {t} : inbox'[u] = inbox[u]
         /\ \A u \in Task : Key(u) # Key(t) => inbox'[u] >= inbox[u]
  <1>1. /\ inbox' \in [Task -> Nat] /\ inbox'[t] = inbox[t] - 1
        /\ \A u \in Task \ {t} : inbox'[u] = inbox[u]
    BY DEF PipelineInv, TypeOK
  <1>2. \A u \in Task : Key(u) # Key(t) => inbox'[u] >= inbox[u]
    BY <1>1 DEF PipelineInv, TypeOK
  <1> QED BY <1>1, <1>2

\* The message of a task that is SUCCESS is only committed.
LEMMA SkipStep ==
  ASSUME PipelineInv, NEW w \in Workers, Skip(w)
  PROVE  PipelineInv'
  <1>1. PICK t \in Task : /\ Available(t) /\ row[Key(t)].status = "SUCCESS"
                          /\ inbox' = [inbox EXCEPT ![t] = @ - 1]
    BY DEF Skip
  <1>2. UNCHANGED <<row, newest, job, store, budgets>>
    BY DEF Skip
  <1>3. /\ Cardinality(Handling(t)) \in Nat /\ inbox[t] \in Nat
        /\ inbox[t] > Cardinality(Handling(t))
    BY <1>1, <1>2, HandledAfter DEF OthersStay, Available, PipelineInv, TypeOK
  <1>4. inbox[t] > 0
    BY <1>3
  <1>5. /\ inbox' \in [Task -> Nat] /\ inbox'[t] = inbox[t] - 1
        /\ \A u \in Task \ {t} : inbox'[u] = inbox[u]
        /\ \A u \in Task : Key(u) # Key(t) => inbox'[u] >= inbox[u]
    BY <1>1, <1>4, OneMessageLess
  <1>6. TypeOK'
    BY <1>2, <1>5 DEF PipelineInv, TypeOK, budgets
  <1>7. HandledIsThere'
    <2> SUFFICES ASSUME NEW u \in Task PROVE Cardinality(Handling(u))' <= inbox'[u]
      BY DEF HandledIsThere
    <2>1. Cardinality(Handling(u))' = Cardinality(Handling(u))
      BY <1>2 DEF Handling
    <2>2. CASE u = t
      BY <1>3, <1>5, <2>1, <2>2
    <2>3. CASE u # t
      BY <1>5, <2>1, <2>3 DEF PipelineInv, HandledIsThere
    <2> QED BY <2>2, <2>3
  <1>8. Key(t) \in Keys
    BY KeyFacts
  <1>9. QueueGoesOn
    <2> SUFFICES ASSUME NEW k \in Keys, inbox[k] > 0
                 PROVE  inbox'[k] > 0 \/ row'[k].status # "ABSENT"
      BY <1>2 DEF QueueGoesOn
    <2>1. k \in Task /\ Key(k) = k
      BY KeyOfKey
    <2> QED BY <1>1, <1>2, <1>5, <2>1
  <1>10. Key(t).stage = "index" => Indexed(Key(t).doc)
    BY <1>1, <1>8 DEF PipelineInv, RowsWellFounded
  <1>11. ASSUME Key(t).stage # "index" PROVE \E v \in Identities : Passed(Key(t), v)'
    <2>1. PICK v \in Identities : Passed(Key(t), v)
      BY <1>1, <1>8, <1>11 DEF PipelineInv, RowsHandedOver
    <2> QED BY <1>9, <1>11, <2>1, KeyFacts, PassedStays
  <1>12. newest' # "unset"
    BY <1>1, <1>2, <1>8 DEF PipelineInv, NewestIsKnown
  <1> QED BY <1>1, <1>2, <1>5, <1>6, <1>7, <1>8, <1>9, <1>10, <1>11, <1>12, QueueStep

\* What Succeed and HandOff have in common: the worker is free again.
LEMMA FreedWorker ==
  ASSUME PipelineInv, NEW w \in Workers, Busy(w), job' = [job EXCEPT ![w] = NoJob]
  PROVE  /\ OthersStay(w) /\ job'[w] = NoJob /\ ~Busy(w)'
         /\ job' \in [Workers -> Job \cup {NoJob}]
         /\ \A u \in Task : /\ Cardinality(Handling(u)) \in Nat
                            /\ job[w].task # u => Cardinality(Handling(u))' = Cardinality(Handling(u))
                            /\ job[w].task = u => Cardinality(Handling(u))' = Cardinality(Handling(u)) - 1
         /\ inbox[job[w].task] > 0
  <1>1. OthersStay(w) /\ job'[w] = NoJob /\ job' \in [Workers -> Job \cup {NoJob}]
    BY DEF PipelineInv, TypeOK, OthersStay
  <1>2. ~Busy(w)' /\ job'[w].task = NoTask
    BY <1>1 DEF Busy, NoJob
  <1>3. ASSUME NEW u \in Task
        PROVE /\ Cardinality(Handling(u)) \in Nat /\ Cardinality(Handling(u))' \in Nat
              /\ job[w].task # u => Cardinality(Handling(u))' = Cardinality(Handling(u))
              /\ job[w].task = u => Cardinality(Handling(u))' = Cardinality(Handling(u)) - 1
    BY <1>1, <1>2, HandledAfter, NoTaskAssumption
  <1>4. inbox[job[w].task] > 0
    <2>1. PICK t \in Task : t = job[w].task
      BY JobTypes DEF PipelineInv
    <2>2. inbox[t] \in Nat /\ Cardinality(Handling(t)) <= inbox[t]
      BY DEF PipelineInv, TypeOK, HandledIsThere
    <2> QED BY <1>3, <2>1, <2>2
  <1> QED BY <1>1, <1>2, <1>3, <1>4

\* MarkSuccessByKey and the commit.
LEMMA SucceedStep ==
  ASSUME PipelineInv, NEW w \in Workers, Succeed(w)
  PROVE  PipelineInv'
  <1>1. Busy(w) /\ job[w].step = "done" /\ UNCHANGED <<newest, store, budgets>>
    BY DEF Succeed, At, Busy
  <1>2. PICK t \in Task : t = job[w].task
    BY <1>1, JobTypes DEF PipelineInv
  <1>3. /\ row' = [row EXCEPT ![Key(t)].status = "SUCCESS"]
        /\ inbox' = [inbox EXCEPT ![t] = @ - 1]
        /\ job' = [job EXCEPT ![w] = NoJob]
    BY <1>2 DEF Succeed
  <1>4. /\ OthersStay(w) /\ job'[w] = NoJob /\ ~Busy(w)'
        /\ job' \in [Workers -> Job \cup {NoJob}]
        /\ \A u \in Task : /\ Cardinality(Handling(u)) \in Nat
                           /\ t # u => Cardinality(Handling(u))' = Cardinality(Handling(u))
                           /\ t = u => Cardinality(Handling(u))' = Cardinality(Handling(u)) - 1
        /\ inbox[t] > 0
    BY <1>1, <1>2, <1>3, FreedWorker
  <1>5. /\ inbox' \in [Task -> Nat] /\ inbox'[t] = inbox[t] - 1
        /\ \A u \in Task \ {t} : inbox'[u] = inbox[u]
        /\ \A u \in Task : Key(u) # Key(t) => inbox'[u] >= inbox[u]
    BY <1>3, <1>4, OneMessageLess
  <1>6. Key(t) \in Keys /\ Key(t).stage = t.stage /\ (t.doc # "unset" => Key(t) = t)
    BY KeyFacts
  <1>7. /\ row' \in [Keys -> [status : Status, retries : Nat]]
        /\ row'[Key(t)].status = "SUCCESS"
        /\ \A i \in Keys \ {Key(t)} : row'[i] = row[i]
    BY <1>3, <1>6 DEF PipelineInv, TypeOK, Status
  <1>8. TypeOK'
    BY <1>1, <1>4, <1>5, <1>7 DEF PipelineInv, TypeOK, budgets
  <1>9. HandledIsThere'
    <2> SUFFICES ASSUME NEW u \in Task PROVE Cardinality(Handling(u))' <= inbox'[u]
      BY DEF HandledIsThere
    <2>1. inbox[u] \in Nat /\ Cardinality(Handling(u)) <= inbox[u]
      BY DEF PipelineInv, TypeOK, HandledIsThere
    <2> QED BY <1>4, <1>5, <2>1
  <1>10. QueueGoesOn
    <2> SUFFICES ASSUME NEW k \in Keys
                 PROVE  /\ row[k].status # "ABSENT" => row'[k].status # "ABSENT"
                        /\ inbox[k] > 0 => inbox'[k] > 0 \/ row'[k].status # "ABSENT"
      BY DEF QueueGoesOn
    <2>1. k \in Task /\ Key(k) = k
      BY KeyOfKey
    <2> QED BY <1>5, <1>7, <2>1
  <1>11. ASSUME t.stage = "index" PROVE Indexed(Key(t).doc)
    <2>1. Indexed(job[w].doc) /\ job[w].doc = t.doc
      BY <1>1, <1>2, <1>11 DEF PipelineInv, JobsWellFounded, WellFounded, JobsInOrder, InOrder
    <2>2. t.doc \in Identities
      BY <1>11, TaskFields
    <2> QED BY <1>6, <2>1, <2>2 DEF Identities
  <1>12. ASSUME t.stage # "index" PROVE \E v \in Identities : Passed(Key(t), v)'
    <2>1. PICK v \in Identities : Passed(Key(t), v)
      BY <1>1, <1>2, <1>12 DEF PipelineInv, JobsHandedOver, HandedOver
    <2> QED BY <1>6, <1>10, <1>12, <2>1, KeyFacts, PassedStays
  <1>13. newest' # "unset"
    BY <1>1 DEF PipelineInv, NewestIsKnown
  <1> QED BY <1>1, <1>4, <1>5, <1>6, <1>7, <1>8, <1>9, <1>10, <1>11, <1>12, <1>13,
             QueueStep DEF OthersStay

\* MarkRetryByKey and handoffFailedTask.
LEMMA HandOffStep ==
  ASSUME PipelineInv, NEW w \in Workers, HandOff(w)
  PROVE  PipelineInv'
  <1>1. Busy(w) /\ UNCHANGED <<newest, store, budgets>>
    BY DEF HandOff, At, Busy
  <1>2. PICK t \in Task : t = job[w].task
    BY <1>1, JobTypes DEF PipelineInv
  <1>3. Key(t) \in Keys /\ Key(t) \in Task /\ Key(Key(t)) = Key(t) /\ Key(t).stage = t.stage
    BY KeyFacts
  <1> DEFINE failed == FailedRow(row[Key(t)])
             committed == [inbox EXCEPT ![t] = @ - 1]
  <1>4. /\ row' = [row EXCEPT ![Key(t)] = failed]
        /\ inbox' = IF failed.status = "DEAD" THEN committed
                    ELSE [committed EXCEPT ![Key(t)] = @ + 1]
        /\ job' = [job EXCEPT ![w] = NoJob]
    BY <1>2 DEF HandOff
  <1>5. failed \in [status : {"FAILED", "DEAD"}, retries : Nat]
    <2>1. row[Key(t)].retries \in Nat
      BY <1>3 DEF PipelineInv, TypeOK
    <2> QED BY <2>1 DEF FailedRow
  <1> HIDE DEF failed
  <1>6. /\ OthersStay(w) /\ job'[w] = NoJob /\ ~Busy(w)'
        /\ job' \in [Workers -> Job \cup {NoJob}]
        /\ \A u \in Task : /\ Cardinality(Handling(u)) \in Nat
                           /\ t # u => Cardinality(Handling(u))' = Cardinality(Handling(u))
                           /\ t = u => Cardinality(Handling(u))' = Cardinality(Handling(u)) - 1
        /\ inbox[t] > 0
    BY <1>1, <1>2, <1>4, FreedWorker
  <1>7. /\ committed \in [Task -> Nat] /\ committed[t] = inbox[t] - 1
        /\ \A u \in Task \ {t} : committed[u] = inbox[u]
    BY <1>6 DEF PipelineInv, TypeOK
  <1> HIDE DEF committed
  <1>8. /\ inbox' \in [Task -> Nat]
        /\ \A u \in Task : inbox'[u] >= committed[u]
        /\ failed.status # "DEAD" => inbox'[Key(t)] > 0
    <2>1. CASE failed.status = "DEAD"
      BY <1>4, <1>7, <2>1
    <2>2. CASE failed.status # "DEAD"
      <3>1. inbox' = [committed EXCEPT ![Key(t)] = @ + 1]
        BY <1>4, <2>2
      <3>2. inbox' \in [Task -> Nat] /\ inbox'[Key(t)] = committed[Key(t)] + 1
            /\ \A u \in Task \ {Key(t)} : inbox'[u] = committed[u]
        BY <1>3, <1>7, <3>1
      <3> QED BY <1>3, <1>7, <3>2
    <2> QED BY <2>1, <2>2
  <1>9. /\ row' \in [Keys -> [status : Status, retries : Nat]]
        /\ row'[Key(t)] = failed
        /\ \A i \in Keys \ {Key(t)} : row'[i] = row[i]
    BY <1>3, <1>4, <1>5 DEF PipelineInv, TypeOK, Status
  <1>10. TypeOK'
    BY <1>1, <1>6, <1>8, <1>9 DEF PipelineInv, TypeOK, budgets
  <1>11. HandledIsThere'
    <2> SUFFICES ASSUME NEW u \in Task PROVE Cardinality(Handling(u))' <= inbox'[u]
      BY DEF HandledIsThere
    <2>1. inbox[u] \in Nat /\ Cardinality(Handling(u)) <= inbox[u]
      BY DEF PipelineInv, TypeOK, HandledIsThere
    <2>2. inbox'[u] \in Nat /\ committed[u] \in Nat /\ inbox'[u] >= committed[u]
      BY <1>7, <1>8
    <2>3. CASE u = t
      BY <1>6, <1>7, <2>1, <2>2, <2>3
    <2>4. CASE u # t
      BY <1>6, <1>7, <2>1, <2>2, <2>4
    <2> QED BY <2>3, <2>4
  <1>12. \A u \in Task : Key(u) # Key(t) => inbox'[u] >= inbox[u]
    BY <1>7, <1>8
  <1>13. QueueGoesOn
    <2> SUFFICES ASSUME NEW k \in Keys
                 PROVE  /\ row[k].status # "ABSENT" => row'[k].status # "ABSENT"
                        /\ inbox[k] > 0 => inbox'[k] > 0 \/ row'[k].status # "ABSENT"
      BY DEF QueueGoesOn
    <2>1. k \in Task /\ Key(k) = k
      BY KeyOfKey
    <2>2. CASE k = Key(t)
      BY <1>5, <1>9, <2>2
    <2>3. CASE k # Key(t)
      <3>1. inbox'[k] >= inbox[k] /\ inbox'[k] \in Nat /\ inbox[k] \in Nat
        BY <1>8, <1>12, <2>1, <2>3 DEF PipelineInv, TypeOK
      <3> QED BY <1>9, <2>3, <3>1
    <2> QED BY <2>2, <2>3
  <1>14. newest' # "unset"
    BY <1>1 DEF PipelineInv, NewestIsKnown
  <1>15. row'[Key(t)].status \in {"FAILED", "DEAD"}
    BY <1>5, <1>9
  <1>16. row'[Key(t)].status = "FAILED" => inbox'[Key(t)] > 0
    BY <1>8, <1>9
  <1> QED BY <1>1, <1>3, <1>6, <1>9, <1>10, <1>11, <1>12, <1>13, <1>14, <1>15, <1>16,
             QueueStep DEF OthersStay

\* The process dies or loses its partition.
LEMMA CrashStep ==
  ASSUME PipelineInv, NEW w \in Workers, Crash(w)
  PROVE  PipelineInv'
  <1>1. Busy(w) /\ UNCHANGED <<inbox, row, newest, store, failures>>
        /\ job' = [job EXCEPT ![w] = NoJob]
    BY DEF Crash, At, Busy, queue
  <1>2. PICK t \in Task : t = job[w].task
    BY <1>1, JobTypes DEF PipelineInv
  <1>3. /\ OthersStay(w) /\ job'[w] = NoJob /\ ~Busy(w)'
        /\ job' \in [Workers -> Job \cup {NoJob}]
        /\ \A u \in Task : /\ Cardinality(Handling(u)) \in Nat
                           /\ t # u => Cardinality(Handling(u))' = Cardinality(Handling(u))
                           /\ t = u => Cardinality(Handling(u))' = Cardinality(Handling(u)) - 1
    BY <1>1, <1>2, FreedWorker
  <1>4. TypeOK'
    BY <1>1, <1>3, BudgetTypes DEF PipelineInv, TypeOK, Crash
  <1>5. HandledIsThere'
    <2> SUFFICES ASSUME NEW u \in Task PROVE Cardinality(Handling(u))' <= inbox'[u]
      BY DEF HandledIsThere
    <2>1. inbox[u] \in Nat /\ Cardinality(Handling(u)) <= inbox[u] /\ inbox'[u] = inbox[u]
      BY <1>1 DEF PipelineInv, TypeOK, HandledIsThere
    <2> QED BY <1>3, <2>1
  <1>6. PICK k \in Keys : TRUE
    BY KeyFacts
  <1>7. QueueGoesOn /\ \A u \in Task : inbox'[u] >= inbox[u]
    BY <1>1 DEF QueueGoesOn, PipelineInv, TypeOK
  <1>8. newest' # "unset"
    BY <1>1 DEF PipelineInv, NewestIsKnown
  <1>9. row[k].status = "SUCCESS" /\ k.stage # "index" => \E v \in Identities : Passed(k, v)'
    BY <1>1 DEF PipelineInv, RowsHandedOver, Passed
  <1>10. row[k].status = "SUCCESS" /\ k.stage = "index" => Indexed(k.doc)
    BY DEF PipelineInv, RowsWellFounded
  <1>11. row[k].status \in {"PENDING", "PROCESSING", "FAILED"}
           => \E u \in Task : Key(u) = k /\ inbox'[u] > 0
    BY <1>1 DEF PipelineInv, OpenTasksAreThere
  <1> QED BY <1>1, <1>3, <1>4, <1>5, <1>7, <1>8, <1>9, <1>10, <1>11, QueueStep DEF OthersStay

\* A message of task t is published or not.
LEMMA PublishedOrNot ==
  ASSUME PipelineInv, NEW t \in Task, Produce(t) \/ UNCHANGED inbox
  PROVE  /\ inbox' \in [Task -> Nat]
         /\ \A u \in Task : inbox'[u] >= inbox[u] /\ inbox[u] \in Nat
         /\ Produce(t) => inbox'[t] > 0
  BY DEF PipelineInv, TypeOK, Produce

\* Publications and replays: no message is taken away, no row is written but one
\* that becomes PENDING, and jobs keep their tasks.
LEMMA PublishingStep ==
  ASSUME PipelineInv, UNCHANGED <<newest, store>>, BudgetsHold,
         inbox' \in [Task -> Nat], \A u \in Task : inbox'[u] >= inbox[u],
         job' \in [Workers -> Job \cup {NoJob}],
         \A w \in Workers :
           \/ job'[w] = job[w]
           \/ /\ job'[w].task = job[w].task /\ Busy(w)
              /\ (InOrder(job[w]) /\ WellFounded(job[w]) /\ HandedOver(job[w]))',
         NEW k \in Keys,
         \/ UNCHANGED row
         \/ /\ row' = [row EXCEPT ![k].status = "PENDING"]
            /\ row[k].status # "ABSENT"
            /\ \E t \in Task : Key(t) = k /\ inbox'[t] > 0
  PROVE  PipelineInv'
  <1>1. /\ row' \in [Keys -> [status : Status, retries : Nat]]
        /\ \A i \in Keys \ {k} : row'[i] = row[i]
        /\ row'[k] = row[k] \/ (row'[k].status = "PENDING" /\ row[k].status # "ABSENT")
    BY DEF PipelineInv, TypeOK, Status
  <1>2. TypeOK'
    BY <1>1 DEF PipelineInv, TypeOK, BudgetsHold
  <1>3. HandledIsThere'
    <2> SUFFICES ASSUME NEW u \in Task PROVE Cardinality(Handling(u))' <= inbox'[u]
      BY DEF HandledIsThere
    <2>1. \A w \in Workers : job'[w].task = job[w].task
      OBVIOUS
    <2>2. Handling(u)' = Handling(u)
      BY <2>1 DEF Handling
    <2>3. Cardinality(Handling(u)) \in Nat
      <3>1. IsFiniteSet(Handling(u))
        <4>1. Handling(u) \in SUBSET Workers
          BY DEF Handling
        <4> QED BY <4>1, PipelineAssumption, FS_Subset
      <3> QED BY <3>1, FS_CardinalityType
    <2>4. Cardinality(Handling(u)) <= inbox[u] /\ inbox[u] \in Nat /\ inbox'[u] \in Nat
          /\ inbox'[u] >= inbox[u]
      BY DEF PipelineInv, TypeOK, HandledIsThere
    <2> QED BY <2>2, <2>3, <2>4
  <1>4. QueueGoesOn
    <2> SUFFICES ASSUME NEW i \in Keys
                 PROVE  /\ row[i].status # "ABSENT" => row'[i].status # "ABSENT"
                        /\ inbox[i] > 0 => inbox'[i] > 0
      BY DEF QueueGoesOn
    <2>1. row[i].status # "ABSENT" => row'[i].status # "ABSENT"
      BY <1>1
    <2>2. inbox'[i] \in Nat /\ inbox[i] \in Nat /\ inbox'[i] >= inbox[i]
      BY KeyOfKey DEF PipelineInv, TypeOK
    <2> QED BY <2>1, <2>2
  <1>5. \A w \in Workers :
          job'[w] = job[w] \/ (Busy(w)' => (InOrder(job[w]) /\ WellFounded(job[w]) /\ HandedOver(job[w]))')
    OBVIOUS
  <1>6. row'[k].status = "SUCCESS" /\ k.stage = "index" => Indexed(k.doc)
    BY <1>1 DEF PipelineInv, RowsWellFounded
  <1>7. ASSUME row'[k].status = "SUCCESS", k.stage # "index"
        PROVE  \E v \in Identities : Passed(k, v)'
    <2>1. PICK v \in Identities : Passed(k, v)
      BY <1>1, <1>7 DEF PipelineInv, RowsHandedOver
    <2> QED BY <1>4, <1>7, <2>1, KeyOfKey, PassedStays
  <1>8. row'[k].status \in {"PENDING", "PROCESSING", "FAILED"}
          => \E t \in Task : Key(t) = k /\ inbox'[t] > 0
    <2>1. ASSUME row[k].status \in {"PENDING", "PROCESSING", "FAILED"}
          PROVE  \E t \in Task : Key(t) = k /\ inbox'[t] > 0
      <3>1. PICK t \in Task : Key(t) = k /\ inbox[t] > 0
        BY <2>1 DEF PipelineInv, OpenTasksAreThere
      <3>2. inbox[t] \in Nat /\ inbox'[t] \in Nat /\ inbox'[t] >= inbox[t]
        BY DEF PipelineInv, TypeOK
      <3> QED BY <3>1, <3>2
    <2> QED BY <2>1
  <1>9. CASE newest # "unset"
    BY <1>1, <1>2, <1>3, <1>4, <1>5, <1>6, <1>7, <1>8, <1>9, QueueStep
  <1>10. CASE newest = "unset"
    <2>1. UNCHANGED <<row, newest, job>>
      <3>1. \A w \in Workers : job'[w] = job[w]
        BY <1>10 DEF PipelineInv, NewestIsKnown
      <3>2. job' = job
        BY <3>1 DEF PipelineInv, TypeOK
      <3> QED BY <1>10, <3>2 DEF PipelineInv, NewestIsKnown
    <2> QED BY <1>1, <1>2, <1>3, <1>4, <1>5, <1>6, <1>7, <1>8, <2>1, QueueStep
  <1> QED BY <1>9, <1>10

\* The hand-over to the next stage, which may report an error all the same.
LEMMA SendStep ==
  ASSUME PipelineInv, NEW w \in Workers, Send(w) \/ SendFails(w)
  PROVE  PipelineInv'
  <1>1. Busy(w) /\ job[w].step = "send" /\ UNCHANGED <<row, newest, store>>
    BY DEF Send, SendFails, At, Busy
  <1>2. BudgetsHold
    BY BudgetTypes DEF Send, SendFails, budgets, BudgetsHold
  <1>3. PICK t \in Task : t = job[w].task
    BY <1>1, JobTypes DEF PipelineInv
  <1>4. Doc(w) \in Identities /\ t.stage # "index"
    BY <1>1, <1>3, AtStep, StageOfStep DEF At
  <1>5. PICK s \in Task : s = Successor(t, Doc(w)) /\ s \in Keys
    BY <1>4, SuccessorFacts
  <1>6. /\ Produce(s) \/ UNCHANGED inbox
        /\ Send(w) => Produce(s)
    BY <1>3, <1>5 DEF Send, SendFails
  <1>7. /\ inbox' \in [Task -> Nat]
        /\ \A u \in Task : inbox'[u] >= inbox[u] /\ inbox[u] \in Nat
        /\ Send(w) => inbox'[s] > 0
    BY <1>6, PublishedOrNot
  <1>8. {"done", "failed"} \subseteq (Steps \ {"idle"}) \cap StepsOf[job[w].task.stage]
    BY <1>1, StageOfStep DEF Steps
  <1>9. PICK j \in Job : /\ job' = [job EXCEPT ![w] = j]
                         /\ j.task = t /\ j.doc = Doc(w)
                         /\ \/ j.step = "done" /\ Send(w)
                            \/ j.step = "failed"
    <2>1. CASE Send(w)
      <3>1. Goto(w, "done")
        BY <2>1 DEF Send
      <3> QED BY <1>1, <1>3, <1>8, <2>1, <3>1, GotoMoves DEF PipelineInv, Doc
    <2>2. CASE SendFails(w)
      <3>1. Goto(w, "failed")
        BY <2>2 DEF SendFails
      <3> QED BY <1>1, <1>3, <1>8, <3>1, GotoMoves DEF PipelineInv, Doc
    <2> QED BY <2>1, <2>2
  <1>10. /\ job' \in [Workers -> Job \cup {NoJob}] /\ job'[w] = j
         /\ \A v \in Workers \ {w} : job'[v] = job[v]
    BY <1>9 DEF PipelineInv, TypeOK
  <1>11. InOrder(job[w])'
    BY <1>1, <1>3, <1>4, <1>8, <1>9, <1>10 DEF InOrder, PipelineInv, JobsInOrder, Doc
  <1>12. WellFounded(job[w])'
    BY <1>4, <1>9, <1>10 DEF WellFounded
  <1>13. HandedOver(job[w])'
    <2> SUFFICES ASSUME j.step = "done" PROVE \E v \in Identities : Passed(Key(t), v)'
      BY <1>9, <1>10 DEF HandedOver
    <2>1. PICK v \in Identities : v = Doc(w)
      BY <1>4
    <2>2. s = Successor(Key(t), v) /\ inbox'[s] > 0
      BY <1>4, <1>5, <1>7, <1>9, <2>1, SuccessorFacts
    <2> QED BY <2>2 DEF Passed
  <1> QED BY <1>1, <1>2, <1>3, <1>5, <1>7, <1>9, <1>10, <1>11, <1>12, <1>13, PublishingStep

\* A duplicate of a message, and the replay of a dead letter.
LEMMA RepublishingStep ==
  ASSUME PipelineInv, Duplicate \/ Replay
  PROVE  PipelineInv'
  <1>1. UNCHANGED <<newest, store, job>> /\ BudgetsHold
    BY BudgetTypes DEF Duplicate, Replay, BudgetsHold
  <1>2. job' \in [Workers -> Job \cup {NoJob}]
    BY <1>1 DEF PipelineInv, TypeOK
  <1>3. CASE Duplicate
    <2>1. PICK t \in Task : Produce(t)
      BY <1>3 DEF Duplicate
    <2>2. Key(t) \in Keys /\ UNCHANGED row
      BY <1>3, KeyFacts DEF Duplicate
    <2> QED BY <1>1, <1>2, <2>1, <2>2, PublishedOrNot, PublishingStep
  <1>4. CASE Replay
    <2>1. PICK k \in Keys : /\ row[k].status = "DEAD" /\ Produce(k)
                            /\ row' = [row EXCEPT ![k].status = "PENDING"]
      BY <1>4 DEF Replay
    <2>2. k \in Task /\ Key(k) = k
      BY KeyOfKey
    <2>3. /\ inbox' \in [Task -> Nat] /\ inbox'[k] > 0
          /\ \A u \in Task : inbox'[u] >= inbox[u]
      BY <2>1, <2>2, PublishedOrNot
    <2> QED BY <1>1, <1>2, <2>1, <2>2, <2>3, PublishingStep
  <1> QED BY <1>3, <1>4

----------------------------------------------------------------------------
\* An uploaded document: one message, nothing else.
LEMMA InitInv == Init => PipelineInv
  <1> SUFFICES ASSUME Init PROVE PipelineInv
    OBVIOUS
  <1>1. \A w \in Workers : job[w] = NoJob /\ ~Busy(w)
    BY DEF Init, NoJob, Busy
  <1>2. TypeOK
    <2>1. Nothing \in Artifacts
      BY DEF Nothing, Artifacts
    <2>2. NoRow \in [status : Status, retries : Nat]
      BY DEF NoRow, Status
    <2>3. failures \in 0 .. MaxFailures /\ budget \in 0 .. MaxDisturbances
      BY PipelineAssumption DEF Init
    <2> QED BY <2>1, <2>2, <2>3 DEF Init, TypeOK
  <1>3. HandledIsThere
    <2> SUFFICES ASSUME NEW t \in Task PROVE Cardinality(Handling(t)) <= inbox[t]
      BY DEF HandledIsThere
    <2>1. Handling(t) = {}
      BY <1>1, NoTaskAssumption DEF Handling, NoJob
    <2> QED BY <2>1, FS_EmptySet DEF Init
  <1>4. \A k \in Keys : row[k].status = "ABSENT"
    BY DEF Init, NoRow
  <1>5. \A v \in Identities : ~store[v].rows
    BY DEF Init, Nothing
  <1> QED BY <1>1, <1>2, <1>3, <1>4, <1>5
          DEF PipelineInv, JobsInOrder, JobsWellFounded, JobsHandedOver, RowsWellFounded,
              RowsHandedOver, OpenTasksAreThere, NewestIsKnown

LEMMA StepInv ==
  ASSUME PipelineInv, [Next]_vars
  PROVE  PipelineInv'
  <1>1. ASSUME NEW w \in Workers, Work(w) PROVE PipelineInv'
    BY <1>1, BeginStep, SkipStep, SucceedStep, HandOffStep, ParseSteps, ChunkSteps, DropCacheStep,
       EmbedSteps, IndexSteps, SendStep DEF Work
  <1>2. ASSUME NEW w \in Workers, SendFails(w) \/ ServiceFails(w) \/ Crash(w) PROVE PipelineInv'
    BY <1>2, SendStep, ServiceSteps, CrashStep
  <1>3. CASE Duplicate \/ CacheExpires \/ Replay
    BY <1>3, RepublishingStep, ServiceSteps
  <1>4. CASE UNCHANGED vars
    BY <1>4 DEF vars, queue, budgets, PipelineInv, TypeOK, HandledIsThere, Handling, JobsInOrder, Busy,
                InOrder, JobsWellFounded, WellFounded, Indexed, RowsWellFounded, NewestIsKnown,
                JobsHandedOver, HandedOver, Passed, RowsHandedOver, OpenTasksAreThere
  <1> QED BY <1>1, <1>2, <1>3, <1>4 DEF Next

THEOREM PipelineInvariant == Spec => []PipelineInv
  <1>1. PipelineInv /\ [Next]_vars => PipelineInv'
    BY StepInv
  <1> QED BY <1>1, InitInv, PTL DEF Spec

\* Kafka, tracker, workers and artifacts keep their types, also the cache, which only
\* gets embeddings of windows the document has.
THEOREM PipelineTypes == Spec => []TypeOK
  <1>1. PipelineInv => TypeOK
    BY DEF PipelineInv
  <1> QED BY <1>1, PipelineInvariant, PTL

\* processor.go and the consumer around it: no stage drops a document.
THEOREM PipelineCarriesOn == Spec => []EveryTaskIsCarriedOn
  <1>1. PipelineInv => EveryTaskIsCarriedOn
    <2> SUFFICES ASSUME PipelineInv, NEW k \in Keys, row[k].status \notin {"ABSENT", "DEAD"}
                 PROVE  \/ \E t \in Task : Key(t) = k /\ inbox[t] > 0
                        \/ row[k].status = "SUCCESS"
                           /\ (k.stage = "index" \/ \E v \in Identities : Passed(k, v))
      BY DEF EveryTaskIsCarriedOn
    <2>1. row[k].status \in {"PENDING", "PROCESSING", "FAILED", "SUCCESS"}
      BY DEF PipelineInv, TypeOK, Status
    <2> QED BY <2>1 DEF PipelineInv, RowsHandedOver, OpenTasksAreThere
  <1> QED BY <1>1, PipelineInvariant, PTL

\* AggregatePipelineStatus: what is called searchable is in the indices.
THEOREM SearchableMeansIndexed == Spec => []SearchableIsIndexed
  <1>1. PipelineInv => SearchableIsIndexed
    <2> SUFFICES ASSUME PipelineInv, IsSearchable
                 PROVE  store[newest].found /\ store[newest].searchable = Chunks
      BY DEF SearchableIsIndexed
    <2> DEFINE indexTasks == {k \in Keys : /\ k.stage = "index"
                                           /\ k.doc = newest \/ newest = "unset" \/ "index" = "parse"}
    <2>1. StageStatus(indexTasks) = "SUCCESS"
      BY DEF IsSearchable
    <2>2. {row[k].status : k \in indexTasks} \ {"ABSENT"} = {"SUCCESS"}
      BY <2>1 DEF StageStatus
    <2>3. PICK k \in indexTasks : row[k].status = "SUCCESS"
      BY <2>2
    <2>4. newest # "unset"
      BY <2>3 DEF PipelineInv, NewestIsKnown
    <2>5. k \in Keys /\ k.stage = "index" /\ k.doc = newest
      BY <2>3, <2>4
    <2> QED BY <2>3, <2>5 DEF PipelineInv, RowsWellFounded, Indexed
  <1> QED BY <1>1, PipelineInvariant, PTL

\* A version row is only made for the immutable identity, evidence refers to it,
\* and only a stage that has seen evidence writes to the search index.
OneVersion ==
  /\ ~store["upload"].version
  /\ \A v \in Identities : store[v].evidence => store[v].version
  /\ \A v \in Identities : store[v].searchable # {} => store[v].evidence

\* A step that neither gives evidence nor chunks to a search index, nor takes back
\* what these rest on.
LEMMA OneVersionHolds ==
  ASSUME OneVersion,
         \A v \in Identities : /\ store'[v].version = store[v].version
                               /\ store'[v].evidence = store[v].evidence
                               /\ store'[v].searchable = store[v].searchable
  PROVE  OneVersion'
  BY DEF OneVersion, Identities

LEMMA OneVersionStep ==
  ASSUME PipelineInv, OneVersion, [Next]_vars
  PROVE  OneVersion'
  <1>1. store \in [Identities -> Artifacts]
    BY DEF PipelineInv, TypeOK
  <1>2. CASE UNCHANGED store
    BY <1>2, OneVersionHolds
  <1>3. ASSUME NEW w \in Workers, EnsureVersion(w) PROVE OneVersion'
    <2>1. CASE Doc(w) = "unset"
      <3>1. store' = [store EXCEPT !["sha"].version = TRUE]
        BY <1>3, <2>1 DEF EnsureVersion
      <3>2. /\ store'["sha"].version
            /\ store'["sha"].evidence = store["sha"].evidence
            /\ store'["sha"].searchable = store["sha"].searchable
            /\ store'["upload"] = store["upload"]
        BY <1>1, <3>1 DEF Identities, Artifacts
      <3> QED BY <3>2 DEF OneVersion, Identities
    <2>2. CASE Doc(w) # "unset"
      BY <1>2, <1>3, <2>2 DEF EnsureVersion
    <2> QED BY <2>1, <2>2
  <1>4. ASSUME NEW w \in Workers, ReplaceEvidence(w) PROVE OneVersion'
    <2>1. CASE store[Doc(w)].version /\ store' = [store EXCEPT ![Doc(w)].evidence = TRUE]
      <3>1. Busy(w) /\ Doc(w) \in Identities
        <4>1. Busy(w) /\ ~At(w, "version") /\ ~At(w, "failed")
          BY <1>4 DEF ReplaceEvidence, At, Busy
        <4> QED BY <4>1, AtStep
      <3>2. /\ store'[Doc(w)].version /\ store'[Doc(w)].evidence
            /\ store'[Doc(w)].version = store[Doc(w)].version
            /\ \A v \in Identities \ {Doc(w)} : store'[v] = store[v]
        BY <1>1, <2>1, <3>1 DEF Artifacts
      <3> QED BY <3>1, <3>2 DEF OneVersion, Identities
    <2>2. CASE UNCHANGED store
      BY <1>2, <2>2
    <2> QED BY <1>4, <2>1, <2>2 DEF ReplaceEvidence
  <1>5. ASSUME NEW w \in Workers, IndexChunks(w) PROVE OneVersion'
    <2>1. Busy(w) /\ ~At(w, "version") /\ ~At(w, "failed") /\ job[w].step = "bulk"
      BY <1>5 DEF IndexChunks, At, Busy
    <2>2. Doc(w) \in Identities /\ store[Doc(w)].evidence
      BY <2>1, AtStep DEF WellFounded, Doc
    <2>3. PICK S : store' = [store EXCEPT ![Doc(w)].searchable = S]
      BY <1>5 DEF IndexChunks
    <2>4. /\ store'[Doc(w)].version = store[Doc(w)].version
          /\ store'[Doc(w)].evidence = store[Doc(w)].evidence
          /\ \A v \in Identities \ {Doc(w)} : store'[v] = store[v]
      BY <1>1, <2>2, <2>3 DEF Artifacts
    <2> QED BY <2>2, <2>4 DEF OneVersion, Identities
  <1>6. ASSUME NEW w \in Workers,
               StoreParsed(w) \/ DeleteChunks(w) \/ DropCache(w) \/ CreateChunks(w)
                 \/ CacheVectors(w) \/ IndexEvidence(w) \/ RemoveParsed(w)
        PROVE  OneVersion'
    <2> DEFINE Same == \A v \in Identities : /\ store'[v].version = store[v].version
                                            /\ store'[v].evidence = store[v].evidence
                                            /\ store'[v].searchable = store[v].searchable
    <2>1. ASSUME StoreParsed(w) PROVE Same
      BY <1>1, <2>1 DEF StoreParsed, Artifacts
    <2>2. ASSUME DeleteChunks(w) PROVE Same
      BY <1>1, <2>2 DEF DeleteChunks, CleanUp, Artifacts
    <2>3. ASSUME DropCache(w) PROVE Same
      BY <1>1, <2>3 DEF DropCache, CleanUp, Artifacts
    <2>4. ASSUME CreateChunks(w) PROVE Same
      BY <1>1, <2>4 DEF CreateChunks, Artifacts
    <2>5. ASSUME CacheVectors(w) PROVE Same
      BY <1>1, <2>5 DEF CacheVectors, Artifacts
    <2>6. ASSUME IndexEvidence(w) PROVE Same
      BY <1>1, <2>6 DEF IndexEvidence, Artifacts
    <2>7. ASSUME RemoveParsed(w) PROVE Same
      BY <1>1, <2>7 DEF RemoveParsed, CleanUp, Artifacts
    <2> QED BY <1>6, <2>1, <2>2, <2>3, <2>4, <2>5, <2>6, <2>7, OneVersionHolds
  <1>7. CASE CacheExpires
    <2>1. PICK v \in Identities : store' = [store EXCEPT ![v].cache = {}]
      BY <1>7 DEF CacheExpires
    <2>2. \A u \in Identities : /\ store'[u].version = store[u].version
                                /\ store'[u].evidence = store[u].evidence
                                /\ store'[u].searchable = store[u].searchable
      BY <1>1, <2>1 DEF Artifacts
    <2> QED BY <2>2, OneVersionHolds
  <1>8. ASSUME NEW w \in Workers, Work(w) PROVE OneVersion'
    BY <1>2, <1>3, <1>4, <1>5, <1>6, <1>8
       DEF Work, Begin, Skip, Succeed, HandOff, ReadParsed, LoadWindow, LoadChunks, LoadVectors, Send
  <1>9. ASSUME NEW w \in Workers, SendFails(w) \/ ServiceFails(w) \/ Crash(w) PROVE OneVersion'
    BY <1>2, <1>9 DEF SendFails, ServiceFails, Crash
  <1>10. CASE Duplicate \/ Replay \/ UNCHANGED vars
    BY <1>2, <1>10 DEF Duplicate, Replay, vars
  <1> QED BY <1>7, <1>8, <1>9, <1>10 DEF Next

\* ensureTaskVersion, ReplaceForVersion and the index stage: a document that is retried
\* under its upload id does not get into the search index a second time.
THEOREM PipelineIndexesOnce == Spec => []IndexedUnderOneIdentity
  <1>1. Init => OneVersion
    BY DEF Init, OneVersion, Nothing, Identities
  <1>2. PipelineInv /\ OneVersion /\ [Next]_vars => OneVersion'
    BY OneVersionStep
  <1>3. OneVersion => IndexedUnderOneIdentity
    BY DEF OneVersion, IndexedUnderOneIdentity, Identities
  <1> QED BY <1>1, <1>2, <1>3, PipelineInvariant, PTL DEF Spec
=============================================================================
