---------------------------- MODULE MemoryIndex ----------------------------
(***************************************************************************)
(* The indexing of long-term memories.  A row of the table long_term_memo- *)
(* ries is created PENDING by the turn that produced it; dispatchers (one   *)
(* goroutine per server) claim due rows in batches, embed them, write them  *)
(* to Elasticsearch and settle the row.  A claim is a lease: its dispatcher *)
(* may crash or be slow, and another one may take the row over.  Time is    *)
(* kept relative to the present, so that the model needs no clock.          *)
(***************************************************************************)
EXTENDS Integers, FiniteSets, Sequences

CONSTANTS Dispatchers,     \* the running dispatchers
          NumMemories,     \* memories are numbered in the order of their rows
          BatchSize,       \* the limit of one claim (20 in the code)
          Lease,           \* ticks after which a claim may be taken over
          MaxStall,        \* bound: ticks between a claim's SELECT and its last UPDATE
          MaxFaults        \* bound: failures, crashes and ticks spent while dispatching

ASSUME MemoryIndexAssumption ==
  /\ NumMemories \in Nat /\ BatchSize \in Nat \ {0}
  /\ Lease \in Nat \ {0} /\ MaxStall \in Nat /\ MaxFaults \in Nat

Memories == 1 .. NumMemories

VARIABLES rows,       \* rows[m]: the index columns of memory m
          searchable, \* the memories whose document is in the memory index
          disp,       \* disp[d]: where dispatcher d stands in its round
          faults      \* faults, crashes and delays met so far

indexVars == <<rows, searchable, disp, faults>>

\* A row's age is the time since index_claimed_at when it is CLAIMED, and the
\* time since index_next_attempt_at (negative before it) when it is PENDING.
\* From MaxAge on, ages are not told apart: NULL is such an age.
MaxAge == MaxStall + Lease

MemoryRow == [status : {"NONE", "PENDING", "CLAIMED", "INDEXED"}, attempt : Nat, age : Int]

Claim == [mem : Memories, attempt : Nat]

\* back is how long ago the dispatcher took "now" for its claim.
Round == [pc : {"idle", "claiming", "indexing", "marking"}, cands : SUBSET Claim,
          back : 0 .. MaxStall, batch : Seq(Claim), ok : BOOLEAN]

Resting == [pc |-> "idle", cands |-> {}, back |-> 0, batch |-> <<>>, ok |-> FALSE]

InitIndex == /\ rows = [m \in Memories |-> [status |-> "NONE", attempt |-> 0, age |-> 0]]
             /\ searchable = {}
             /\ disp = [d \in Dispatchers |-> Resting]

\* A turn stores memory m; memory ids carry the time, so they are new.
CreateLongTermMemory(m) ==
  rows' = [rows EXCEPT ![m] = [status |-> "PENDING", attempt |-> 0, age |-> MaxAge]]

NextMemory == {m \in Memories : /\ rows[m].status = "NONE"
                                /\ \A k \in 1 .. m - 1 : rows[k].status # "NONE"}

Fault == /\ faults < MaxFaults
         /\ faults' = faults + 1

-----------------------------------------------------------------------------
(* One round of a dispatcher.                                               *)

\* A fault: expired leases are not taken over.
AvailablePendingOnly(row, back) == row.status = "PENDING" /\ row.age >= back

\* The WHERE clause of the claim, for a "now" that lies `back` ticks in the past.
Available(row, back) == \/ row.status = "PENDING" /\ row.age >= back
                        \/ row.status = "CLAIMED" /\ row.age - back >= Lease

DueRows == {m \in Memories : Available(rows[m], 0)}

\* SELECT ... ORDER BY id LIMIT BatchSize.
SelectCandidates(d) ==
  /\ disp[d].pc = "idle"
  /\ DueRows # {}
  /\ disp' = [disp EXCEPT ![d] = [Resting EXCEPT
       !.pc = "claiming",
       !.cands = {[mem |-> m, attempt |-> rows[m].attempt] : m \in
                  {m \in DueRows : Cardinality({k \in DueRows : k <= m}) <= BatchSize}}]]
  /\ UNCHANGED <<rows, searchable, faults>>

\* After the last candidate the dispatcher indexes what it claimed.
Claimed(round, rest, batch) ==
  IF rest # {} THEN [round EXCEPT !.cands = rest, !.batch = batch]
  ELSE IF batch = <<>> THEN Resting
  ELSE [Resting EXCEPT !.pc = "indexing", !.batch = batch]

\* UPDATE ... WHERE id = ? AND <available>: a row that another dispatcher has taken
\* since the SELECT is passed over.  The database counts the attempt from the row,
\* the dispatcher from the candidate it has read.
ClaimRow(d) ==
  /\ disp[d].pc = "claiming"
  /\ \E c \in disp[d].cands :
       LET rest  == disp[d].cands \ {c}
           row   == rows[c.mem]
           claim == [mem |-> c.mem, attempt |-> c.attempt + 1]
       IN /\ \A k \in rest : c.mem < k.mem
          /\ \/ /\ Available(row, disp[d].back)
                /\ rows' = [rows EXCEPT ![c.mem] = [status  |-> "CLAIMED",
                                                   attempt |-> row.attempt + 1,
                                                   age     |-> disp[d].back]]
                /\ disp' = [disp EXCEPT ![d] = Claimed(@, rest, Append(@.batch, claim))]
             \/ /\ ~Available(row, disp[d].back)
                /\ disp' = [disp EXCEPT ![d] = Claimed(@, rest, @.batch)]
                /\ UNCHANGED rows
  /\ UNCHANGED <<searchable, faults>>

\* An UPDATE fails: the round is given up, and what it has claimed stays claimed.
ClaimFails(d) ==
  /\ disp[d].pc = "claiming"
  /\ Fault
  /\ disp' = [disp EXCEPT ![d] = Resting]
  /\ UNCHANGED <<rows, searchable>>

\* The memory at the head of the batch is embedded and written under its id.
IndexMemory(d) ==
  /\ disp[d].pc = "indexing"
  /\ searchable' = searchable \union {Head(disp[d].batch).mem}
  /\ disp' = [disp EXCEPT ![d].pc = "marking", ![d].ok = TRUE]
  /\ UNCHANGED <<rows, faults>>

\* A fault: the failure is not looked at.
IndexingFailsUnnoticed(d) ==
  /\ disp[d].pc = "indexing"
  /\ Fault
  /\ disp' = [disp EXCEPT ![d].pc = "marking", ![d].ok = TRUE]
  /\ UNCHANGED <<rows, searchable>>

\* Embedding or writing fails; a write whose answer is lost has still happened.
IndexingFails(d) ==
  /\ disp[d].pc = "indexing"
  /\ Fault
  /\ searchable' \in {searchable, searchable \union {Head(disp[d].batch).mem}}
  /\ disp' = [disp EXCEPT ![d].pc = "marking", ![d].ok = FALSE]
  /\ UNCHANGED rows

\* The round goes on with the next memory of the batch, whatever came of this one.
NextInBatch(round) ==
  LET rest == Tail(round.batch) IN
  IF rest = <<>> THEN Resting ELSE [round EXCEPT !.pc = "indexing", !.batch = rest, !.ok = FALSE]

\* A fault: the attempt is not compared.
HoldsAnyAttempt(claim) == rows[claim.mem].status = "CLAIMED"

\* WHERE memory_id = ? AND index_status = CLAIMED AND index_attempt_count = ?
Holds(claim) == rows[claim.mem].status = "CLAIMED" /\ rows[claim.mem].attempt = claim.attempt

MarkIndexed(d) ==
  /\ disp[d].pc = "marking" /\ disp[d].ok
  /\ LET claim == Head(disp[d].batch) IN
     rows' = IF Holds(claim)
             THEN [rows EXCEPT ![claim.mem].status = "INDEXED", ![claim.mem].age = MaxAge]
             ELSE rows
  /\ disp' = [disp EXCEPT ![d] = NextInBatch(@)]
  /\ UNCHANGED <<searchable, faults>>

\* Doubles with every attempt, from the first to the ninth.
RetryDelay(attempt) ==
  LET n == IF attempt < 1 THEN 1 ELSE IF attempt > 9 THEN 9 ELSE attempt IN 2 ^ (n - 1)

\* A fault: the failure is recorded by the memory's id alone.
MarkIndexFailedUnfenced(d) ==
  /\ disp[d].pc = "marking" /\ ~disp[d].ok
  /\ LET claim == Head(disp[d].batch) IN
     rows' = [rows EXCEPT ![claim.mem].status = "PENDING",
                          ![claim.mem].age = -RetryDelay(claim.attempt)]
  /\ disp' = [disp EXCEPT ![d] = NextInBatch(@)]
  /\ UNCHANGED <<searchable, faults>>

MarkIndexFailed(d) ==
  /\ disp[d].pc = "marking" /\ ~disp[d].ok
  /\ LET claim == Head(disp[d].batch) IN
     rows' = IF Holds(claim)
             THEN [rows EXCEPT ![claim.mem].status = "PENDING",
                               ![claim.mem].age = -RetryDelay(claim.attempt)]
             ELSE rows
  /\ disp' = [disp EXCEPT ![d] = NextInBatch(@)]
  /\ UNCHANGED <<searchable, faults>>

\* The database refuses the mark: the row stays claimed until its lease ends.
MarkingFails(d) ==
  /\ disp[d].pc = "marking"
  /\ Fault
  /\ disp' = [disp EXCEPT ![d] = NextInBatch(@)]
  /\ UNCHANGED <<rows, searchable>>

\* The server of d stops; when it starts again its dispatcher begins a new round.
CrashDispatcher(d) ==
  /\ disp[d].pc # "idle"
  /\ Fault
  /\ disp' = [disp EXCEPT ![d] = Resting]
  /\ UNCHANGED <<rows, searchable>>

-----------------------------------------------------------------------------
(* Time.                                                                    *)

Aged(row) == IF row.status \in {"PENDING", "CLAIMED"} /\ row.age < MaxAge
             THEN [row EXCEPT !.age = @ + 1] ELSE row

\* A tick passes.  While a round is under way it counts against MaxFaults: a
\* dispatcher is not slow for ever.
Tick ==
  /\ \A d \in Dispatchers : disp[d].pc = "claiming" => disp[d].back < MaxStall
  /\ [m \in Memories |-> Aged(rows[m])] # rows
  /\ rows' = [m \in Memories |-> Aged(rows[m])]
  /\ disp' = [d \in Dispatchers |-> IF disp[d].pc = "claiming"
                                    THEN [disp[d] EXCEPT !.back = @ + 1] ELSE disp[d]]
  /\ IF \A d \in Dispatchers : disp[d].pc = "idle" THEN UNCHANGED faults ELSE Fault
  /\ UNCHANGED searchable

DispatchMemories(d) == \/ SelectCandidates(d) \/ ClaimRow(d) \/ IndexMemory(d)
                       \/ MarkIndexed(d) \/ MarkIndexFailed(d)

DispatchTrouble(d) == \/ ClaimFails(d) \/ IndexingFails(d)
                      \/ MarkingFails(d) \/ CrashDispatcher(d)

CreateMemory == /\ \E m \in NextMemory : CreateLongTermMemory(m)
                /\ UNCHANGED <<searchable, disp, faults>>

IndexStep == \/ \E d \in Dispatchers : DispatchMemories(d) \/ DispatchTrouble(d)
             \/ Tick

IndexInit == InitIndex /\ faults = 0

IndexSpec == IndexInit /\ [][CreateMemory \/ IndexStep]_indexVars

-----------------------------------------------------------------------------
(* Properties.                                                              *)

MemoryIndexTypeOK ==
  /\ rows \in [Memories -> MemoryRow]
  /\ searchable \subseteq Memories
  /\ disp \in [Dispatchers -> Round]
  /\ faults \in Nat

\* The claims of d that no other dispatcher has taken over.
HeldBy(d) == {m \in Memories : \E i \in 1 .. Len(disp[d].batch) :
                /\ disp[d].batch[i].mem = m
                /\ Holds(disp[d].batch[i])}

\* However slow a dispatcher is, and however old the "now" of another one, a memory
\* has at most one dispatcher whose mark the database would accept (the conditional
\* updates of ClaimPendingLongTermMemories).
OneHolder == \A d, e \in Dispatchers : d # e => HeldBy(d) \cap HeldBy(e) = {}

\* A memory whose row says INDEXED is in the index: no mark runs ahead of the write
\* it reports, not even the mark of a dispatcher that was taken over.
IndexedIsSearchable == \A m \in Memories : rows[m].status = "INDEXED" => m \in searchable

\* A claim ends only by a mark of the dispatcher that holds it or by being taken
\* over: a late failure does not send a memory back that another dispatcher is
\* indexing, and nothing brings back an indexed one.
OnlyTheHolderSettles ==
  [][\A m \in Memories :
       /\ rows[m].status = "CLAIMED" /\ rows'[m].status \notin {"CLAIMED"}
          => \E d \in Dispatchers : m \in HeldBy(d) /\ disp'[d].batch # disp[d].batch
       /\ rows[m].status = "INDEXED" => rows'[m].status = "INDEXED"]_indexVars

\* The index column as an obligation: a stored memory is owed to the search.
IndexObligation == [m \in Memories |-> CASE rows[m].status = "NONE" -> "new"
                                          [] rows[m].status = "INDEXED" -> "settled"
                                          [] OTHER -> "owed"]

Owed == INSTANCE AtLeastOnce WITH Items <- Memories, status <- IndexObligation

\* From whatever rows a server finds, the memory index behaves as the at-least-once
\* queue: every stored memory is indexed in the end, whatever fails, crashes or is slow
\* a bounded number of times on the way.
IndexDelivers == [][Owed!Next]_IndexObligation /\ Owed!Delivery

=============================================================================
