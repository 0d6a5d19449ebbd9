------------------------- MODULE MemoryIndexProofs -------------------------
(* Proofs about MemoryIndex, for any dispatchers, memories, batch size, lease  *)
(* and number of faults.                                                       *)
EXTENDS MemoryIndex, TLAPS

Elems(s) == {s[i] : i \in 1 .. Len(s)}

Batch(d) == Elems(disp[d].batch)

\* Only a row that no turn has stored yet has never been claimed for sure.
FreshRows == \A m \in Memories : rows[m].status = "NONE" => rows[m].attempt = 0

\* No dispatcher has read or counted an attempt that the row has not reached: the
\* attempts it holds in memory fall behind the rows, and never run ahead of them.
ClaimsAreBehind ==
  \A d \in Dispatchers : /\ \A c \in disp[d].cands : c.attempt <= rows[c.mem].attempt
                         /\ \A c \in Batch(d) : c.attempt <= rows[c.mem].attempt

\* Two dispatchers do not hold the same memory.
ClaimsAreApart ==
  \A d, e \in Dispatchers : d # e =>
    \A c \in Batch(d), k \in Batch(e) : c.mem = k.mem => ~(Holds(c) /\ Holds(k))

\* Where a dispatcher stands fits what it has in its hands.
RoundsAreSound ==
  \A d \in Dispatchers :
    /\ disp[d].pc \in {"indexing", "marking"} => disp[d].batch # <<>>
    /\ disp[d].pc = "marking" /\ disp[d].ok => Head(disp[d].batch).mem \in searchable

IndexInv ==
  /\ MemoryIndexTypeOK
  /\ FreshRows
  /\ ClaimsAreBehind
  /\ ClaimsAreApart
  /\ RoundsAreSound
  /\ IndexedIsSearchable

-----------------------------------------------------------------------------
(* Sequences and rounds.                                                    *)

LEMMA ElemsAppend ==
  ASSUME NEW S, NEW s \in Seq(S), NEW x \in S
  PROVE  /\ Append(s, x) \in Seq(S)
         /\ Elems(Append(s, x)) = Elems(s) \union {x}
         /\ Append(s, x) # <<>>
  BY DEF Elems

LEMMA ElemsTail ==
  ASSUME NEW S, NEW s \in Seq(S), s # <<>>
  PROVE  /\ Tail(s) \in Seq(S) /\ Tail(s) # s
         /\ Elems(Tail(s)) \subseteq Elems(s)
         /\ Head(s) \in Elems(s) /\ Head(s) \in S
  <1>1. Len(s) \in Nat \ {0} /\ Len(Tail(s)) = Len(s) - 1
    OBVIOUS
  <1>2. Tail(s) \in Seq(S)
    OBVIOUS
  <1>6. Tail(s) # s
    <2>1. \A n \in Nat \ {0} : n - 1 # n
      OBVIOUS
    <2>2. Len(Tail(s)) # Len(s)
      BY <1>1, <2>1, Zenon
    <2> QED BY <2>2, Zenon
  <1>3. \A i \in 1 .. Len(s) - 1 : Tail(s)[i] = s[i + 1]
    OBVIOUS
  <1>4. Elems(Tail(s)) \subseteq Elems(s)
    BY <1>1, <1>3 DEF Elems
  <1>5. Head(s) = s[1] /\ Head(s) \in S /\ 1 \in 1 .. Len(s)
    BY <1>1
  <1>7. Head(s) \in Elems(s)
    BY <1>5 DEF Elems
  <1> QED BY <1>2, <1>4, <1>5, <1>6, <1>7

LEMMA ElemsEmpty == Elems(<<>>) = {}
  BY DEF Elems

LEMMA RestingRound == Resting \in Round /\ Resting.batch = <<>> /\ Resting.cands = {}
  BY MemoryIndexAssumption DEF Resting, Round, Claim

\* The round after the head of the batch is shorter.
LEMMA NextInBatchRound ==
  ASSUME NEW r \in Round, r.batch # <<>>
  PROVE  /\ NextInBatch(r) \in Round
         /\ NextInBatch(r).cands \subseteq r.cands
         /\ Elems(NextInBatch(r).batch) \subseteq Elems(r.batch)
         /\ NextInBatch(r).batch # r.batch
         /\ NextInBatch(r).pc \in {"idle", "indexing"} \/ NextInBatch(r).pc = r.pc
         /\ NextInBatch(r).pc # "marking"
         /\ NextInBatch(r).pc = "indexing" => NextInBatch(r).batch # <<>>
  <1>1. r.batch \in Seq(Claim)
    BY DEF Round
  <1>2. Tail(r.batch) \in Seq(Claim) /\ Tail(r.batch) # r.batch
        /\ Elems(Tail(r.batch)) \subseteq Elems(r.batch)
    BY <1>1, ElemsTail
  <1>3. CASE Tail(r.batch) = <<>>
    BY <1>3, RestingRound, ElemsEmpty DEF NextInBatch, Resting
  <1>4. CASE Tail(r.batch) # <<>>
    BY <1>2, <1>4 DEF NextInBatch, Round
  <1> QED BY <1>3, <1>4

LEMMA RetryDelayIsNumber == \A n \in Nat : RetryDelay(n) \in Int
  <1>1. \A k \in 0 .. 8 : 2 ^ k \in Int
    OBVIOUS
  <1> QED BY <1>1 DEF RetryDelay

-----------------------------------------------------------------------------
(* Steps.                                                                   *)

\* What a step does that claims nothing: the batches get no larger, no row counts an
\* attempt or becomes claimed.
Quiet ==
  /\ \A d \in Dispatchers :
       /\ Batch(d)' \subseteq Batch(d)
       /\ \A c \in disp'[d].cands : c \in disp[d].cands \/ c.attempt = rows[c.mem].attempt
  /\ \A m \in Memories :
       /\ rows'[m].attempt = rows[m].attempt
       /\ rows'[m].status = "CLAIMED" => rows[m].status = "CLAIMED"
       /\ rows'[m].status = "NONE" => rows[m].status = "NONE"

LEMMA BatchType ==
  ASSUME MemoryIndexTypeOK, NEW d \in Dispatchers
  PROVE  /\ Batch(d) \subseteq Claim
         /\ \A c \in Batch(d) : c.mem \in Memories /\ c.attempt \in Nat
  <1>1. disp[d].batch \in Seq(Claim)
    BY DEF MemoryIndexTypeOK, Round
  <1>2. \A i \in 1 .. Len(disp[d].batch) : disp[d].batch[i] \in Claim
    BY <1>1
  <1> QED BY <1>2 DEF Batch, Elems, Claim

LEMMA QuietStep ==
  ASSUME IndexInv, MemoryIndexTypeOK', Quiet
  PROVE  FreshRows' /\ ClaimsAreBehind' /\ ClaimsAreApart'
  <1> USE DEF IndexInv
  <1>1. FreshRows'
    BY DEF FreshRows, Quiet
  <1>2. ClaimsAreBehind'
    <2> SUFFICES ASSUME NEW d \in Dispatchers
                 PROVE  /\ \A c \in disp'[d].cands : c.attempt <= rows'[c.mem].attempt
                        /\ \A c \in Batch(d)' : c.attempt <= rows'[c.mem].attempt
      BY DEF ClaimsAreBehind
    <2>1. \A c \in disp'[d].cands : c.mem \in Memories /\ c.attempt \in Nat
      BY DEF MemoryIndexTypeOK, Round, Claim
    <2>2. \A m \in Memories : rows[m].attempt \in Nat
      BY DEF MemoryIndexTypeOK, MemoryRow
    <2>3. \A c \in disp'[d].cands : c.attempt <= rows'[c.mem].attempt
      BY <2>1, <2>2 DEF Quiet, ClaimsAreBehind
    <2>4. \A c \in Batch(d)' : c.attempt <= rows'[c.mem].attempt
      BY BatchType DEF Quiet, ClaimsAreBehind
    <2> QED BY <2>3, <2>4
  <1>3. \A m \in Memories :
          rows'[m].status = "CLAIMED" => /\ rows[m].status = "CLAIMED"
                                         /\ rows'[m].attempt = rows[m].attempt
    BY DEF Quiet
  <1>4. ClaimsAreApart'
    <2> SUFFICES ASSUME NEW d \in Dispatchers, NEW e \in Dispatchers, d # e,
                        NEW c \in Batch(d)', NEW k \in Batch(e)', c.mem = k.mem,
                        Holds(c)', Holds(k)'
                 PROVE  FALSE
      BY DEF ClaimsAreApart
    <2>1. c \in Batch(d) /\ k \in Batch(e) /\ c.mem \in Memories
      BY BatchType DEF Quiet
    <2>2. Holds(c) /\ Holds(k)
      BY <1>3, <2>1 DEF Holds
    <2> QED BY <2>1, <2>2 DEF ClaimsAreApart
  <1> QED BY <1>1, <1>2, <1>4

LEMMA InitIndexInv == IndexInit => IndexInv
  <1> SUFFICES ASSUME IndexInit PROVE IndexInv
    OBVIOUS
  <1> USE DEF IndexInit, InitIndex
  <1>1. MemoryIndexTypeOK
    BY RestingRound DEF MemoryIndexTypeOK, MemoryRow
  <1>2. \A d \in Dispatchers : Batch(d) = {} /\ disp[d].cands = {}
    BY RestingRound, ElemsEmpty DEF Batch
  <1>3. FreshRows /\ IndexedIsSearchable
    BY DEF FreshRows, IndexedIsSearchable
  <1>4. ClaimsAreBehind /\ ClaimsAreApart
    BY <1>2 DEF ClaimsAreBehind, ClaimsAreApart
  <1>5. RoundsAreSound
    BY DEF RoundsAreSound, Resting
  <1> QED BY <1>1, <1>3, <1>4, <1>5 DEF IndexInv

\* A turn stores a memory whose row was fresh.
LEMMA CreateMemoryInv ==
  ASSUME IndexInv, CreateMemory
  PROVE  IndexInv'
  <1> USE DEF IndexInv
  <1>1. PICK m \in NextMemory : CreateLongTermMemory(m)
    BY DEF CreateMemory
  <1>2. m \in Memories /\ rows[m].status = "NONE" /\ rows[m].attempt = 0
    BY DEF NextMemory, FreshRows
  <1>3. UNCHANGED <<searchable, disp, faults>> /\ \A d \in Dispatchers : Batch(d)' = Batch(d)
    BY DEF CreateMemory, Batch
  <1>4. MaxAge \in Int
    BY MemoryIndexAssumption DEF MaxAge
  <1>5. rows' = [rows EXCEPT ![m] = [status |-> "PENDING", attempt |-> 0, age |-> MaxAge]]
    BY <1>1 DEF CreateLongTermMemory
  <1>6. MemoryIndexTypeOK'
    BY <1>3, <1>4, <1>5 DEF MemoryIndexTypeOK, MemoryRow
  <1>7. Quiet
    BY <1>2, <1>3, <1>5 DEF Quiet, MemoryIndexTypeOK, MemoryRow
  <1>8. RoundsAreSound' /\ IndexedIsSearchable'
    BY <1>2, <1>3, <1>5 DEF RoundsAreSound, IndexedIsSearchable, MemoryIndexTypeOK, MemoryRow
  <1> QED BY <1>6, <1>7, <1>8, QuietStep

-----------------------------------------------------------------------------
(* The steps of one dispatcher that claim nothing.                          *)

RowsQuiet ==
  \A m \in Memories : /\ rows'[m].attempt = rows[m].attempt
                      /\ rows'[m].status = "CLAIMED" => rows[m].status = "CLAIMED"
                      /\ rows'[m].status = "NONE" => rows[m].status = "NONE"

SoundRound(r, written) ==
  /\ r.pc \in {"indexing", "marking"} => r.batch # <<>>
  /\ r.pc = "marking" /\ r.ok => Head(r.batch).mem \in written

\* Dispatcher d goes on to round r.
LEMMA RoundStep ==
  ASSUME IndexInv, NEW d \in Dispatchers, NEW r \in Round,
         disp' = [disp EXCEPT ![d] = r],
         Elems(r.batch) \subseteq Batch(d),
         \A c \in r.cands : c \in disp[d].cands \/ c.attempt = rows[c.mem].attempt,
         SoundRound(r, searchable'),
         rows' \in [Memories -> MemoryRow], RowsQuiet,
         searchable \subseteq searchable', searchable' \subseteq Memories, faults' \in Nat,
         \A m \in Memories : rows'[m].status = "INDEXED" => m \in searchable'
  PROVE  IndexInv'
  <1> USE DEF IndexInv
  <1>1. disp \in [Dispatchers -> Round]
    BY DEF MemoryIndexTypeOK
  <1>2. disp'[d] = r /\ \A e \in Dispatchers \ {d} : disp'[e] = disp[e]
    BY <1>1
  <1>3. MemoryIndexTypeOK'
    BY <1>1 DEF MemoryIndexTypeOK
  <1>4. \A e \in Dispatchers : Batch(e)' \subseteq Batch(e)
    BY <1>2 DEF Batch
  <1>5. Quiet
    BY <1>2, <1>4 DEF Quiet, RowsQuiet
  <1>6. RoundsAreSound'
    BY <1>2 DEF RoundsAreSound, SoundRound
  <1>7. IndexedIsSearchable'
    BY DEF IndexedIsSearchable
  <1> QED BY <1>3, <1>5, <1>6, <1>7, QuietStep

LEMMA RowsUnchanged ==
  ASSUME IndexInv, UNCHANGED rows, searchable \subseteq searchable'
  PROVE  /\ rows' \in [Memories -> MemoryRow] /\ RowsQuiet
         /\ \A m \in Memories : rows'[m].status = "INDEXED" => m \in searchable'
  BY DEF IndexInv, MemoryIndexTypeOK, RowsQuiet, IndexedIsSearchable

\* A row that leaves the claimed state, or nothing.
LEMMA RowSettled ==
  ASSUME IndexInv, NEW m \in Memories, NEW st \in {"PENDING", "INDEXED"}, NEW a \in Int,
         rows' = [rows EXCEPT ![m].status = st, ![m].age = a],
         searchable \subseteq searchable', st = "INDEXED" => m \in searchable
  PROVE  /\ rows' \in [Memories -> MemoryRow] /\ RowsQuiet
         /\ \A k \in Memories : rows'[k].status = "INDEXED" => k \in searchable'
  BY DEF IndexInv, MemoryIndexTypeOK, RowsQuiet, IndexedIsSearchable, MemoryRow

\* What every dispatcher has in its hands is well formed.
LEMMA RoundFacts ==
  ASSUME IndexInv, NEW d \in Dispatchers
  PROVE  /\ disp[d] \in Round /\ disp[d].batch \in Seq(Claim) /\ disp[d].cands \subseteq Claim
         /\ Batch(d) = Elems(disp[d].batch)
         /\ SoundRound(disp[d], searchable)
         /\ searchable \subseteq Memories /\ faults \in Nat
  BY DEF IndexInv, MemoryIndexTypeOK, Round, Batch, RoundsAreSound, SoundRound

LEMMA RestingStep ==
  ASSUME IndexInv, NEW d \in Dispatchers, Fault,
         disp' = [disp EXCEPT ![d] = Resting], UNCHANGED <<rows, searchable>>
  PROVE  IndexInv'
  <1>1. faults' \in Nat
    BY RoundFacts DEF Fault
  <1>2. SoundRound(Resting, searchable')
    BY DEF SoundRound, Resting
  <1> QED BY <1>1, <1>2, RestingRound, ElemsEmpty, RoundFacts, RowsUnchanged, RoundStep

LEMMA SelectCandidatesInv ==
  ASSUME IndexInv, NEW d \in Dispatchers, SelectCandidates(d)
  PROVE  IndexInv'
  <1> DEFINE chosen == {m \in DueRows : Cardinality({k \in DueRows : k <= m}) <= BatchSize}
             cands  == {[mem |-> m, attempt |-> rows[m].attempt] : m \in chosen}
             r      == [Resting EXCEPT !.pc = "claiming", !.cands = cands]
  <1>1. chosen \subseteq Memories
    BY DEF DueRows
  <1>a. \A m \in chosen : m \in Memories /\ rows[m].attempt \in Nat
    BY <1>1 DEF IndexInv, MemoryIndexTypeOK, MemoryRow
  <1> HIDE DEF chosen
  <1>2. cands \subseteq Claim /\ \A c \in cands : c.attempt = rows[c.mem].attempt
    BY <1>a DEF Claim
  <1>3. r \in Round /\ r.batch = <<>> /\ r.cands = cands /\ r.pc = "claiming"
    BY <1>2, RestingRound DEF Resting, Round
  <1>4. disp' = [disp EXCEPT ![d] = r] /\ UNCHANGED <<rows, searchable, faults>>
    BY DEF SelectCandidates, chosen
  <1>5. SoundRound(r, searchable') /\ Elems(r.batch) \subseteq Batch(d)
    BY <1>3, ElemsEmpty DEF SoundRound
  <1> HIDE DEF r, cands
  <1> QED BY <1>2, <1>3, <1>4, <1>5, RoundFacts, RowsUnchanged, RoundStep

\* The write comes before the mark.
LEMMA IndexMemoryInv ==
  ASSUME IndexInv, NEW d \in Dispatchers, IndexMemory(d) \/ IndexingFails(d)
  PROVE  IndexInv'
  <1> DEFINE r == [disp[d] EXCEPT !.pc = "marking", !.ok = disp'[d].ok]
             m == Head(disp[d].batch).mem
  <1>1. disp[d].pc = "indexing" /\ disp[d].batch # <<>>
    BY RoundFacts DEF IndexMemory, IndexingFails, SoundRound
  <1>2. Head(disp[d].batch) \in Claim
    BY <1>1, RoundFacts, ElemsTail
  <1>7. m \in Memories
    BY <1>2 DEF Claim
  <1>8. disp \in [Dispatchers -> Round]
    BY DEF IndexInv, MemoryIndexTypeOK
  <1>9. PICK ok \in BOOLEAN : disp' = [disp EXCEPT ![d].pc = "marking", ![d].ok = ok]
    BY DEF IndexMemory, IndexingFails
  <1>3. disp'[d].ok \in BOOLEAN /\ disp' = [disp EXCEPT ![d] = r]
    <2>1. disp' = [disp EXCEPT ![d] = [disp[d] EXCEPT !.pc = "marking", !.ok = ok]]
      BY <1>8, <1>9
    <2>2. disp'[d] = [disp[d] EXCEPT !.pc = "marking", !.ok = ok]
      BY <1>8, <2>1
    <2>3. disp'[d].ok = ok
      BY <2>2, <1>8 DEF Round
    <2> QED BY <2>1, <2>3
  <1>4. /\ searchable \subseteq searchable' /\ searchable' \subseteq Memories
        /\ disp'[d].ok => m \in searchable'
        /\ UNCHANGED rows /\ faults' \in Nat
    BY <1>7, RoundFacts DEF IndexMemory, IndexingFails, Fault, IndexInv, MemoryIndexTypeOK, Round
  <1>5. /\ r \in Round /\ r.batch = disp[d].batch /\ r.cands = disp[d].cands
        /\ r.pc = "marking" /\ r.ok = disp'[d].ok
    BY <1>3, RoundFacts DEF Round
  <1>6. SoundRound(r, searchable') /\ Elems(r.batch) \subseteq Batch(d)
    BY <1>1, <1>4, <1>5, RoundFacts DEF SoundRound
  <1> HIDE DEF r
  <1> QED BY <1>3, <1>4, <1>5, <1>6, RowsUnchanged, RoundStep

\* A mark, or a mark that fails, leaves the rest of the batch.
LEMMA NextRound ==
  ASSUME IndexInv, NEW d \in Dispatchers, disp[d].pc = "marking"
  PROVE  /\ disp[d].batch # <<>>
         /\ Head(disp[d].batch) \in Claim /\ Head(disp[d].batch) \in Batch(d)
         /\ NextInBatch(disp[d]) \in Round
         /\ NextInBatch(disp[d]).batch # disp[d].batch
         /\ Elems(NextInBatch(disp[d]).batch) \subseteq Batch(d)
         /\ NextInBatch(disp[d]).cands \subseteq disp[d].cands
         /\ \A written : SoundRound(NextInBatch(disp[d]), written)
  <1>1. disp[d].batch # <<>>
    BY RoundFacts DEF SoundRound
  <1>2. Head(disp[d].batch) \in Claim /\ Head(disp[d].batch) \in Batch(d)
    BY <1>1, RoundFacts, ElemsTail
  <1> QED BY <1>1, <1>2, RoundFacts, NextInBatchRound DEF SoundRound

LEMMA MarkIndexedInv ==
  ASSUME IndexInv, NEW d \in Dispatchers, MarkIndexed(d)
  PROVE  IndexInv'
  <1> DEFINE claim == Head(disp[d].batch)
             r == NextInBatch(disp[d])
  <1>1. /\ disp[d].pc = "marking" /\ disp[d].ok
        /\ disp' = [disp EXCEPT ![d] = r]
        /\ UNCHANGED <<searchable, faults>>
    BY DEF MarkIndexed
  <1>2. claim \in Claim /\ claim.mem \in Memories /\ claim.mem \in searchable
    BY <1>1, NextRound, RoundFacts DEF SoundRound, Claim
  <1>3. MaxAge \in Int
    BY MemoryIndexAssumption DEF MaxAge
  <1>4. \/ rows' = [rows EXCEPT ![claim.mem].status = "INDEXED", ![claim.mem].age = MaxAge]
        \/ UNCHANGED rows
    BY DEF MarkIndexed
  <1>5. /\ rows' \in [Memories -> MemoryRow] /\ RowsQuiet
        /\ \A k \in Memories : rows'[k].status = "INDEXED" => k \in searchable'
    BY <1>1, <1>2, <1>3, <1>4, RowSettled, RowsUnchanged
  <1> HIDE DEF r, claim
  <1> QED BY <1>1, <1>5, NextRound, RoundFacts, RoundStep DEF r

LEMMA MarkIndexFailedInv ==
  ASSUME IndexInv, NEW d \in Dispatchers, MarkIndexFailed(d)
  PROVE  IndexInv'
  <1> DEFINE claim == Head(disp[d].batch)
             r == NextInBatch(disp[d])
  <1>1. /\ disp[d].pc = "marking"
        /\ disp' = [disp EXCEPT ![d] = r]
        /\ UNCHANGED <<searchable, faults>>
    BY DEF MarkIndexFailed
  <1>2. claim \in Claim /\ claim.mem \in Memories /\ claim.attempt \in Nat
    BY <1>1, NextRound DEF Claim
  <1>3. -RetryDelay(claim.attempt) \in Int
    BY <1>2, RetryDelayIsNumber
  <1>4. \/ rows' = [rows EXCEPT ![claim.mem].status = "PENDING",
                               ![claim.mem].age = -RetryDelay(claim.attempt)]
        \/ UNCHANGED rows
    BY DEF MarkIndexFailed
  <1>5. /\ rows' \in [Memories -> MemoryRow] /\ RowsQuiet
        /\ \A k \in Memories : rows'[k].status = "INDEXED" => k \in searchable'
    BY <1>1, <1>2, <1>3, <1>4, RowSettled, RowsUnchanged
  <1> HIDE DEF r, claim
  <1> QED BY <1>1, <1>5, NextRound, RoundFacts, RoundStep DEF r

LEMMA MarkingFailsInv ==
  ASSUME IndexInv, NEW d \in Dispatchers, MarkingFails(d)
  PROVE  IndexInv'
  <1>1. /\ disp[d].pc = "marking" /\ disp' = [disp EXCEPT ![d] = NextInBatch(disp[d])]
        /\ UNCHANGED <<rows, searchable>> /\ faults' \in Nat
    BY RoundFacts DEF MarkingFails, Fault
  <1> QED BY <1>1, NextRound, RoundFacts, RowsUnchanged, RoundStep

LEMMA ClaimFailsInv ==
  ASSUME IndexInv, NEW d \in Dispatchers, ClaimFails(d) \/ CrashDispatcher(d)
  PROVE  IndexInv'
  BY RestingStep DEF ClaimFails, CrashDispatcher

-----------------------------------------------------------------------------
(* Claiming.                                                                *)

\* What a dispatcher has after one more candidate.
LEMMA ClaimedRound ==
  \A r \in Round, batch \in Seq(Claim) : \A rest \in SUBSET r.cands :
    r.pc = "claiming"
    => /\ Claimed(r, rest, batch) \in Round
       /\ Claimed(r, rest, batch).cands \subseteq rest
       /\ Claimed(r, rest, batch).batch = batch
       /\ Claimed(r, rest, batch).pc # "marking"
       /\ Claimed(r, rest, batch).pc = "indexing" => batch # <<>>
  <1> SUFFICES ASSUME NEW r \in Round, NEW batch \in Seq(Claim), NEW rest \in SUBSET r.cands,
                      r.pc = "claiming"
               PROVE  /\ Claimed(r, rest, batch) \in Round
                      /\ Claimed(r, rest, batch).cands \subseteq rest
                      /\ Claimed(r, rest, batch).batch = batch
                      /\ Claimed(r, rest, batch).pc # "marking"
                      /\ Claimed(r, rest, batch).pc = "indexing" => batch # <<>>
    OBVIOUS
  <1>1. CASE rest # {}
    BY <1>1 DEF Claimed, Round
  <1>2. CASE rest = {} /\ batch = <<>>
    BY <1>2, RestingRound DEF Claimed, Resting
  <1>3. CASE rest = {} /\ batch # <<>>
    <2> DEFINE q == [Resting EXCEPT !.pc = "indexing", !.batch = batch]
    <2>1. Claimed(r, rest, batch) = q
      BY <1>3 DEF Claimed
    <2>2. q \in Round
      BY RestingRound DEF Round
    <2>3. q.pc = "indexing" /\ q.batch = batch /\ q.cands = {}
      BY DEF Resting
    <2> QED BY <1>3, <2>1, <2>2, <2>3
  <1> QED BY <1>1, <1>2, <1>3

\* The row was claimed by another dispatcher since it was selected.
LEMMA ClaimLostInv ==
  ASSUME IndexInv, NEW d \in Dispatchers, disp[d].pc = "claiming",
         NEW rest, rest \subseteq disp[d].cands,
         disp' = [disp EXCEPT ![d] = Claimed(disp[d], rest, disp[d].batch)],
         UNCHANGED <<rows, searchable, faults>>
  PROVE  IndexInv'
  <1> DEFINE r == Claimed(disp[d], rest, disp[d].batch)
  <1>1. disp[d] \in Round /\ disp[d].batch \in Seq(Claim)
    BY RoundFacts
  <1>3. /\ r \in Round /\ r.cands \subseteq rest /\ r.batch = disp[d].batch
        /\ r.pc # "marking"
        /\ r.pc = "indexing" => disp[d].batch # <<>>
    BY <1>1, ClaimedRound
  <1> HIDE DEF r
  <1>4. SoundRound(r, searchable')
    BY <1>3 DEF SoundRound
  <1> QED BY <1>3, <1>4, RoundFacts, RowsUnchanged, RoundStep DEF r

\* The row is won: its attempt is now above every attempt that any dispatcher counts
\* for it, but for the one that has just claimed it.
LEMMA ClaimWonInv ==
  ASSUME IndexInv, NEW d \in Dispatchers, disp[d].pc = "claiming",
         NEW c \in disp[d].cands, NEW rest, rest \subseteq disp[d].cands,
         rows' = [rows EXCEPT ![c.mem] = [status  |-> "CLAIMED",
                                          attempt |-> rows[c.mem].attempt + 1,
                                          age     |-> disp[d].back]],
         disp' = [disp EXCEPT ![d] = Claimed(disp[d], rest,
                    Append(disp[d].batch, [mem |-> c.mem, attempt |-> c.attempt + 1]))],
         UNCHANGED <<searchable, faults>>
  PROVE  IndexInv'
  <1> DEFINE new   == [mem |-> c.mem, attempt |-> c.attempt + 1]
             batch == Append(disp[d].batch, new)
             r     == Claimed(disp[d], rest, batch)
             m     == c.mem
  <1>1. c \in Claim /\ m \in Memories /\ c.attempt \in Nat
    BY RoundFacts DEF Claim
  <1>2. new \in Claim /\ new.mem = m /\ new.attempt = c.attempt + 1
    BY <1>1 DEF Claim
  <1>3. /\ rows \in [Memories -> MemoryRow] /\ disp \in [Dispatchers -> Round]
        /\ \A k \in Memories : rows[k].attempt \in Nat
    BY DEF IndexInv, MemoryIndexTypeOK, MemoryRow
  <1>4. disp[d].back \in Int
    BY MemoryIndexAssumption, <1>3 DEF Round
  <1>5. /\ rows'[m].status = "CLAIMED" /\ rows'[m].attempt = rows[m].attempt + 1
        /\ \A k \in Memories \ {m} : rows'[k] = rows[k]
        /\ rows' \in [Memories -> MemoryRow]
    BY <1>1, <1>3, <1>4 DEF MemoryRow
  <1>6. batch \in Seq(Claim) /\ Elems(batch) = Batch(d) \union {new}
    BY <1>2, RoundFacts, ElemsAppend
  <1> HIDE DEF new, batch
  <1>7. /\ r \in Round /\ r.cands \subseteq disp[d].cands /\ r.batch = batch
        /\ SoundRound(r, searchable')
    <2>1. disp[d] \in Round
      BY RoundFacts
    <2>2. /\ r \in Round /\ r.cands \subseteq rest /\ r.batch = batch
          /\ r.pc # "marking"
          /\ r.pc = "indexing" => batch # <<>>
      BY <1>6, <2>1, ClaimedRound
    <2> HIDE DEF r
    <2> QED BY <2>2 DEF SoundRound
  <1>8. disp'[d] = r /\ \A e \in Dispatchers \ {d} : disp'[e] = disp[e]
    BY <1>3 DEF new, batch
  <1> HIDE DEF r
  <1>9. disp' \in [Dispatchers -> Round]
    BY <1>3, <1>7 DEF r, batch, new
  <1>10. MemoryIndexTypeOK'
    BY <1>5, <1>9 DEF IndexInv, MemoryIndexTypeOK
  <1>11. FreshRows' /\ IndexedIsSearchable'
    BY <1>1, <1>5 DEF IndexInv, FreshRows, IndexedIsSearchable
  <1>12. /\ Batch(d)' = Batch(d) \union {new}
         /\ \A e \in Dispatchers \ {d} : Batch(e)' = Batch(e)
         /\ \A e \in Dispatchers : disp'[e].cands \subseteq disp[e].cands
    BY <1>6, <1>7, <1>8 DEF Batch
  <1>13. RoundsAreSound'
    BY <1>7, <1>8 DEF IndexInv, RoundsAreSound, SoundRound
  <1> HIDE DEF m
  <1>14. \A k \in Memories : rows[k].attempt <= rows'[k].attempt
    BY <1>1, <1>3, <1>5
  <1>15. \A e \in Dispatchers : \A x \in Batch(e) \union disp[e].cands :
           x.mem \in Memories /\ x.attempt \in Nat /\ x.attempt <= rows[x.mem].attempt
    BY BatchType, RoundFacts DEF IndexInv, ClaimsAreBehind, Claim
  <1>16. \A e \in Dispatchers : \A x \in Batch(e) \union disp[e].cands :
           x.attempt <= rows'[x.mem].attempt
    <2> SUFFICES ASSUME NEW e \in Dispatchers, NEW x \in Batch(e) \union disp[e].cands
                 PROVE  x.attempt <= rows'[x.mem].attempt
      OBVIOUS
    <2>1. /\ x.mem \in Memories /\ x.attempt \in Nat /\ x.attempt <= rows[x.mem].attempt
          /\ rows[x.mem].attempt \in Nat /\ rows'[x.mem].attempt \in Nat
          /\ rows[x.mem].attempt <= rows'[x.mem].attempt
      BY <1>3, <1>5, <1>14, <1>15 DEF MemoryRow
    <2> QED BY <2>1
  <1>17. new.attempt <= rows'[m].attempt
    <2>1. c.attempt <= rows[m].attempt
      BY <1>15 DEF m
    <2> QED BY <1>1, <1>2, <1>3, <1>5, <2>1
  <1>18. ClaimsAreBehind'
    <2>1. \A e \in Dispatchers : \A x \in disp'[e].cands : x.attempt <= rows'[x.mem].attempt
      BY <1>12, <1>16
    <2>2. \A e \in Dispatchers : \A x \in Batch(e)' : x.attempt <= rows'[x.mem].attempt
      BY <1>2, <1>12, <1>16, <1>17
    <2> QED BY <2>1, <2>2 DEF ClaimsAreBehind
  <1>19. \A e \in Dispatchers : \A x \in Batch(e) : x.mem = m => ~Holds(x)'
    <2> SUFFICES ASSUME NEW e \in Dispatchers, NEW x \in Batch(e), x.mem = m
                 PROVE  rows'[m].attempt # x.attempt
      BY DEF Holds
    <2>1. x.attempt \in Nat /\ x.attempt <= rows[m].attempt /\ rows[m].attempt \in Nat
      BY <1>1, <1>3, <1>15
    <2> QED BY <1>5, <2>1
  <1>20. ClaimsAreApart'
    <2> SUFFICES ASSUME NEW e \in Dispatchers, NEW f \in Dispatchers, e # f,
                        NEW x \in Batch(e)', NEW y \in Batch(f)', x.mem = y.mem,
                        Holds(x)', Holds(y)'
                 PROVE  FALSE
      BY DEF ClaimsAreApart
    <2>1. CASE x.mem = m
      <3>1. x \in Batch(e) \/ y \in Batch(f)
        BY <1>12
      <3> QED BY <1>19, <2>1, <3>1
    <2>2. CASE x.mem # m
      <3>1. x \in Batch(e) /\ y \in Batch(f)
        BY <1>2, <1>12, <2>2
      <3>2. x.mem \in Memories /\ rows'[x.mem] = rows[x.mem]
        BY <1>5, <1>15, <2>2, <3>1
      <3>3. Holds(x) /\ Holds(y)
        BY <3>2 DEF Holds
      <3> QED BY <3>1, <3>3 DEF IndexInv, ClaimsAreApart
    <2> QED BY <2>1, <2>2
  <1> QED BY <1>10, <1>11, <1>13, <1>18, <1>20 DEF IndexInv

LEMMA ClaimRowInv ==
  ASSUME IndexInv, NEW d \in Dispatchers, ClaimRow(d)
  PROVE  IndexInv'
  <1>1. disp[d].pc = "claiming" /\ UNCHANGED <<searchable, faults>>
    BY DEF ClaimRow
  <1>2. PICK c \in disp[d].cands :
          \/ /\ rows' = [rows EXCEPT ![c.mem] = [status  |-> "CLAIMED",
                                                attempt |-> rows[c.mem].attempt + 1,
                                                age     |-> disp[d].back]]
             /\ disp' = [disp EXCEPT ![d] = Claimed(disp[d], disp[d].cands \ {c},
                           Append(disp[d].batch, [mem |-> c.mem, attempt |-> c.attempt + 1]))]
          \/ /\ disp' = [disp EXCEPT ![d] =
                           Claimed(disp[d], disp[d].cands \ {c}, disp[d].batch)]
             /\ UNCHANGED rows
    BY DEF ClaimRow
  <1>3. disp[d].cands \ {c} \subseteq disp[d].cands
    OBVIOUS
  <1>4. CASE UNCHANGED rows /\ disp' = [disp EXCEPT ![d] =
                 Claimed(disp[d], disp[d].cands \ {c}, disp[d].batch)]
    BY <1>1, <1>3, <1>4, ClaimLostInv
  <1>5. CASE ~(UNCHANGED rows /\ disp' = [disp EXCEPT ![d] =
                 Claimed(disp[d], disp[d].cands \ {c}, disp[d].batch)])
    <2>1. /\ rows' = [rows EXCEPT ![c.mem] = [status  |-> "CLAIMED",
                                             attempt |-> rows[c.mem].attempt + 1,
                                             age     |-> disp[d].back]]
          /\ disp' = [disp EXCEPT ![d] = Claimed(disp[d], disp[d].cands \ {c},
                        Append(disp[d].batch, [mem |-> c.mem, attempt |-> c.attempt + 1]))]
      BY <1>2, <1>5, Zenon
    <2> QED BY <1>1, <1>3, <2>1, ClaimWonInv
  <1> QED BY <1>4, <1>5

-----------------------------------------------------------------------------
(* Time, and the invariant.                                                 *)

\* Time ages the rows and the rounds that are claiming, and does nothing else.
LEMMA TickInv ==
  ASSUME IndexInv, Tick
  PROVE  IndexInv'
  <1>1. /\ rows \in [Memories -> MemoryRow] /\ disp \in [Dispatchers -> Round]
        /\ faults \in Nat /\ searchable \subseteq Memories
    BY DEF IndexInv, MemoryIndexTypeOK
  <1>2. /\ rows' = [m \in Memories |-> Aged(rows[m])]
        /\ disp' = [d \in Dispatchers |-> IF disp[d].pc = "claiming"
                                          THEN [disp[d] EXCEPT !.back = disp[d].back + 1]
                                          ELSE disp[d]]
        /\ UNCHANGED searchable
        /\ \A d \in Dispatchers : disp[d].pc = "claiming" => disp[d].back < MaxStall
    BY DEF Tick
  <1>3. faults' \in Nat
    BY <1>1 DEF Tick, Fault
  <1>4. \A r \in MemoryRow : /\ Aged(r) \in MemoryRow
                             /\ Aged(r).status = r.status /\ Aged(r).attempt = r.attempt
    BY DEF Aged, MemoryRow
  <1>5. rows' \in [Memories -> MemoryRow]
        /\ \A m \in Memories : /\ rows'[m].status = rows[m].status
                               /\ rows'[m].attempt = rows[m].attempt
    BY <1>1, <1>2, <1>4
  <1>6. \A r \in Round : r.back < MaxStall => [r EXCEPT !.back = r.back + 1] \in Round
    BY MemoryIndexAssumption DEF Round
  <1>7. disp' \in [Dispatchers -> Round]
    BY <1>1, <1>2, <1>6
  <1>8. \A d \in Dispatchers : /\ disp'[d].pc = disp[d].pc /\ disp'[d].batch = disp[d].batch
                               /\ disp'[d].cands = disp[d].cands /\ disp'[d].ok = disp[d].ok
    BY <1>1, <1>2 DEF Round
  <1>9. MemoryIndexTypeOK'
    BY <1>1, <1>2, <1>3, <1>5, <1>7 DEF MemoryIndexTypeOK
  <1>10. Quiet
    BY <1>5, <1>8 DEF Quiet, Batch
  <1>11. RoundsAreSound' /\ IndexedIsSearchable'
    BY <1>2, <1>5, <1>8 DEF IndexInv, RoundsAreSound, IndexedIsSearchable
  <1> QED BY <1>9, <1>10, <1>11, QuietStep DEF IndexInv

\* A fault that strikes elsewhere.
FaultElsewhere == Fault /\ UNCHANGED <<rows, searchable, disp>>

\* The steps of the memory index as any composition of it sees them.
IndexNext == CreateMemory \/ IndexStep \/ FaultElsewhere \/ UNCHANGED indexVars

LEMMA IndexNextInv ==
  ASSUME IndexInv, IndexNext
  PROVE  IndexInv'
  <1>1. CASE CreateMemory
    BY <1>1, CreateMemoryInv
  <1>2. CASE Tick
    BY <1>2, TickInv
  <1>3. CASE \E d \in Dispatchers : DispatchMemories(d) \/ DispatchTrouble(d)
    <2> PICK d \in Dispatchers : DispatchMemories(d) \/ DispatchTrouble(d)
      BY <1>3
    <2> QED BY SelectCandidatesInv, ClaimRowInv, IndexMemoryInv, MarkIndexedInv,
               MarkIndexFailedInv, MarkingFailsInv, ClaimFailsInv
            DEF DispatchMemories, DispatchTrouble
  <1>4. CASE UNCHANGED <<rows, searchable, disp>> /\ faults' \in Nat
    <2>1. MemoryIndexTypeOK'
      BY <1>4 DEF IndexInv, MemoryIndexTypeOK
    <2>2. Quiet
      BY <1>4 DEF Quiet, Batch
    <2>3. RoundsAreSound' /\ IndexedIsSearchable'
      BY <1>4 DEF IndexInv, RoundsAreSound, IndexedIsSearchable
    <2> QED BY <2>1, <2>2, <2>3, QuietStep DEF IndexInv
  <1>5. FaultElsewhere \/ UNCHANGED indexVars => UNCHANGED <<rows, searchable, disp>> /\ faults' \in Nat
    BY DEF FaultElsewhere, Fault, indexVars, IndexInv, MemoryIndexTypeOK
  <1> QED BY <1>1, <1>2, <1>3, <1>4, <1>5 DEF IndexNext, IndexStep

\* A memory that two dispatchers held would be in both of their batches.
LEMMA InvOneHolder == IndexInv => OneHolder
  <1> SUFFICES ASSUME IndexInv, NEW d \in Dispatchers, NEW e \in Dispatchers, d # e,
                      NEW m \in HeldBy(d), m \in HeldBy(e)
               PROVE  FALSE
    BY DEF OneHolder
  <1>1. PICK i \in 1 .. Len(disp[d].batch) : disp[d].batch[i].mem = m /\ Holds(disp[d].batch[i])
    BY DEF HeldBy
  <1>2. PICK j \in 1 .. Len(disp[e].batch) : disp[e].batch[j].mem = m /\ Holds(disp[e].batch[j])
    BY DEF HeldBy
  <1>3. disp[d].batch[i] \in Batch(d) /\ disp[e].batch[j] \in Batch(e)
    BY DEF Batch, Elems
  <1> QED BY <1>1, <1>2, <1>3 DEF IndexInv, ClaimsAreApart

-----------------------------------------------------------------------------
(* What a step may do to a row.                                             *)

Settles(m) ==
  /\ rows[m].status = "CLAIMED" /\ rows'[m].status \notin {"CLAIMED"}
     => \E d \in Dispatchers : m \in HeldBy(d) /\ disp'[d].batch # disp[d].batch
  /\ rows[m].status = "INDEXED" => rows'[m].status = "INDEXED"

\* A mark changes the row of the claim at the head of the batch, if it is still held.
LEMMA MarkSettles ==
  ASSUME IndexInv, NEW d \in Dispatchers, MarkIndexed(d) \/ MarkIndexFailed(d),
         NEW m \in Memories
  PROVE  Settles(m)
  <1> DEFINE claim == Head(disp[d].batch)
  <1>1. disp[d].pc = "marking" /\ disp' = [disp EXCEPT ![d] = NextInBatch(disp[d])]
    BY DEF MarkIndexed, MarkIndexFailed
  <1>2. /\ disp \in [Dispatchers -> Round] /\ rows \in [Memories -> MemoryRow]
        /\ disp[d].batch \in Seq(Claim) /\ disp[d].batch # <<>>
    BY <1>1, RoundFacts, NextRound DEF IndexInv, MemoryIndexTypeOK
  <1>3. disp'[d].batch # disp[d].batch
    BY <1>1, <1>2, NextRound
  <1>4. 1 \in 1 .. Len(disp[d].batch) /\ claim = disp[d].batch[1] /\ claim \in Claim
    BY <1>2, ElemsTail
  <1>5. claim.mem \in Memories
    BY <1>4 DEF Claim
  <1>6. m = claim.mem /\ Holds(claim) => m \in HeldBy(d)
    BY <1>4 DEF HeldBy
  <1>7. CASE ~(m = claim.mem /\ Holds(claim))
    <2>1. rows'[m] = rows[m]
      BY <1>2, <1>5, <1>7 DEF MarkIndexed, MarkIndexFailed
    <2> QED BY <2>1 DEF Settles
  <1>8. CASE m = claim.mem /\ Holds(claim)
    <2>1. rows[m].status = "CLAIMED"
      BY <1>8 DEF Holds
    <2> QED BY <1>3, <1>6, <1>8, <2>1 DEF Settles
  <1> QED BY <1>7, <1>8

\* Only a row that is due is claimed.
LEMMA ClaimSettles ==
  ASSUME IndexInv, NEW d \in Dispatchers, ClaimRow(d), NEW m \in Memories
  PROVE  Settles(m)
  <1>1. PICK c \in disp[d].cands :
          \/ /\ Available(rows[c.mem], disp[d].back)
             /\ rows' = [rows EXCEPT ![c.mem] = [status  |-> "CLAIMED",
                                                attempt |-> rows[c.mem].attempt + 1,
                                                age     |-> disp[d].back]]
          \/ UNCHANGED rows
    BY DEF ClaimRow
  <1>2. rows \in [Memories -> MemoryRow]
    BY DEF IndexInv, MemoryIndexTypeOK
  <1> QED BY <1>1, <1>2 DEF Settles, Available

LEMMA IndexNextSettles ==
  ASSUME IndexInv, IndexNext, NEW m \in Memories
  PROVE  Settles(m)
  <1>1. rows \in [Memories -> MemoryRow]
    BY DEF IndexInv, MemoryIndexTypeOK
  <1>2. CASE UNCHANGED rows
    BY <1>2 DEF Settles
  <1>3. CASE CreateMemory
    BY <1>1, <1>3 DEF CreateMemory, CreateLongTermMemory, NextMemory, Settles
  <1>4. CASE Tick
    BY <1>1, <1>4 DEF Tick, Aged, MemoryRow, Settles
  <1>5. CASE \E d \in Dispatchers : DispatchMemories(d) \/ DispatchTrouble(d)
    <2> PICK d \in Dispatchers : DispatchMemories(d) \/ DispatchTrouble(d)
      BY <1>5
    <2>1. CASE ClaimRow(d)
      BY <2>1, ClaimSettles
    <2>2. CASE MarkIndexed(d) \/ MarkIndexFailed(d)
      BY <2>2, MarkSettles
    <2>3. CASE SelectCandidates(d) \/ IndexMemory(d) \/ DispatchTrouble(d)
      <3>1. UNCHANGED rows
        BY <2>3 DEF SelectCandidates, IndexMemory, DispatchTrouble, ClaimFails,
                    IndexingFails, MarkingFails, CrashDispatcher
      <3> QED BY <1>2, <3>1
    <2> QED BY <2>1, <2>2, <2>3 DEF DispatchMemories
  <1>6. FaultElsewhere \/ UNCHANGED indexVars => UNCHANGED rows
    BY DEF FaultElsewhere, indexVars
  <1> QED BY <1>2, <1>3, <1>4, <1>5, <1>6 DEF IndexNext, IndexStep

-----------------------------------------------------------------------------
(* The memory index as an at-least-once queue.                              *)

\* Where the obligation of memory m stands.
Obligation(m) == IndexObligation[m]

LEMMA ObligationIs ==
  ASSUME IndexInv, NEW m \in Memories
  PROVE  /\ Obligation(m) = "new" <=> rows[m].status = "NONE"
         /\ Obligation(m) = "settled" <=> rows[m].status = "INDEXED"
         /\ Obligation(m) = "owed" <=> rows[m].status \in {"PENDING", "CLAIMED"}
  <1>1. rows[m].status \in {"NONE", "PENDING", "CLAIMED", "INDEXED"}
    BY DEF IndexInv, MemoryIndexTypeOK, MemoryRow
  <1>2. Obligation(m) = CASE rows[m].status = "NONE" -> "new"
                          [] rows[m].status = "INDEXED" -> "settled"
                          [] OTHER -> "owed"
    BY DEF Obligation, IndexObligation
  <1> QED BY <1>1, <1>2

\* A step that stores or settles no memory is a stutter of the queue.
LEMMA SameObligations ==
  ASSUME \A m \in Memories : Obligation(m)' = Obligation(m)
  PROVE  [Owed!Next]_IndexObligation
  <1>1. /\ IndexObligation = [m \in Memories |-> Obligation(m)]
        /\ IndexObligation' = [m \in Memories |-> Obligation(m)']
    BY DEF Obligation, IndexObligation
  <1>2. IndexObligation' = IndexObligation
    BY <1>1
  <1> QED BY <1>2

\* A step that stores or settles one memory is a step of the queue.
LEMMA OneObligationMoves ==
  ASSUME NEW m \in Memories,
         \A k \in Memories \ {m} : Obligation(k)' = Obligation(k),
         \/ Obligation(m) = "new" /\ Obligation(m)' = "owed"
         \/ Obligation(m) = "owed" /\ Obligation(m)' = "settled"
  PROVE  Owed!Next
  <1>1. DOMAIN IndexObligation = Memories
    BY DEF IndexObligation
  <1>2. IndexObligation' = [IndexObligation EXCEPT ![m] = Obligation(m)']
    <2>1. IndexObligation' = [k \in Memories |-> Obligation(k)']
      BY DEF Obligation, IndexObligation
    <2>2. [IndexObligation EXCEPT ![m] = Obligation(m)'] = [k \in Memories |-> Obligation(k)']
      BY <1>1 DEF Obligation
    <2> QED BY <2>1, <2>2
  <1>3. CASE Obligation(m) = "new" /\ Obligation(m)' = "owed"
    BY <1>2, <1>3 DEF Owed!Next, Owed!Accept, Obligation
  <1>4. CASE Obligation(m) = "owed" /\ Obligation(m)' = "settled"
    BY <1>2, <1>4 DEF Owed!Next, Owed!Settle, Obligation
  <1> QED BY <1>3, <1>4

\* A step that writes at most one row, and there neither stores the memory nor settles
\* what it owes, changes no obligation.
LEMMA QuietRow ==
  ASSUME IndexInv, IndexInv', NEW m \in Memories,
         rows[m].status \in {"PENDING", "CLAIMED"}, rows'[m].status \in {"PENDING", "CLAIMED"},
         \A k \in Memories \ {m} : rows'[k] = rows[k]
  PROVE  [Owed!Next]_IndexObligation
  <1>1. Obligation(m) = "owed"
    BY ObligationIs
  <1>2. Obligation(m)' = "owed"
    BY DEF Obligation, IndexObligation
  <1>3. \A k \in Memories \ {m} : Obligation(k)' = Obligation(k)
    BY DEF Obligation, IndexObligation
  <1> QED BY <1>1, <1>2, <1>3, SameObligations

LEMMA SameRows ==
  ASSUME UNCHANGED rows
  PROVE  [Owed!Next]_IndexObligation
  BY SameObligations DEF Obligation, IndexObligation

\* Every step of the index is a step of the queue or a stutter: a stored memory is owed
\* until its row says INDEXED, and only the mark of its holder settles it.
LEMMA IndexNextOwes ==
  ASSUME IndexInv, IndexInv', IndexNext
  PROVE  [Owed!Next]_IndexObligation
  <1>1. rows \in [Memories -> MemoryRow]
    BY DEF IndexInv, MemoryIndexTypeOK
  <1>2. CASE CreateMemory
    <2> PICK m \in NextMemory : CreateLongTermMemory(m)
      BY <1>2 DEF CreateMemory
    <2>1. /\ m \in Memories /\ rows[m].status = "NONE" /\ rows'[m].status = "PENDING"
          /\ \A k \in Memories \ {m} : rows'[k] = rows[k]
      BY <1>1 DEF NextMemory, CreateLongTermMemory
    <2>2. Obligation(m) = "new" /\ Obligation(m)' = "owed"
      BY <2>1 DEF Obligation, IndexObligation
    <2>3. \A k \in Memories \ {m} : Obligation(k)' = Obligation(k)
      BY <2>1 DEF Obligation, IndexObligation
    <2> QED BY <2>1, <2>2, <2>3, OneObligationMoves
  <1>3. CASE Tick
    <2>1. \A m \in Memories : rows'[m].status = rows[m].status
      BY <1>1, <1>3 DEF Tick, Aged, MemoryRow
    <2>2. \A m \in Memories : Obligation(m)' = Obligation(m)
      BY <2>1 DEF Obligation, IndexObligation
    <2> QED BY <2>2, SameObligations
  <1>4. CASE \E d \in Dispatchers : DispatchMemories(d) \/ DispatchTrouble(d)
    <2> PICK d \in Dispatchers : DispatchMemories(d) \/ DispatchTrouble(d)
      BY <1>4
    <2>1. CASE ClaimRow(d)
      <3>1. PICK c \in disp[d].cands :
              \/ UNCHANGED rows
              \/ /\ Available(rows[c.mem], disp[d].back)
                 /\ rows' = [rows EXCEPT ![c.mem] = [status  |-> "CLAIMED",
                                                    attempt |-> rows[c.mem].attempt + 1,
                                                    age     |-> disp[d].back]]
        BY <2>1 DEF ClaimRow
      <3>2. c.mem \in Memories
        BY DEF IndexInv, MemoryIndexTypeOK, Round, Claim
      <3>3. CASE UNCHANGED rows
        BY <3>3, SameRows
      <3>4. CASE /\ Available(rows[c.mem], disp[d].back)
                 /\ rows' = [rows EXCEPT ![c.mem] = [status  |-> "CLAIMED",
                                                    attempt |-> rows[c.mem].attempt + 1,
                                                    age     |-> disp[d].back]]
        <4>1. /\ rows[c.mem].status \in {"PENDING", "CLAIMED"}
              /\ rows'[c.mem].status = "CLAIMED"
              /\ \A k \in Memories \ {c.mem} : rows'[k] = rows[k]
          BY <1>1, <3>2, <3>4 DEF Available
        <4>2. PICK m \in Memories : m = c.mem
          BY <3>2
        <4> QED BY <4>1, <4>2, QuietRow
      <3> QED BY <3>1, <3>3, <3>4
    <2>2. CASE MarkIndexed(d) \/ MarkIndexFailed(d)
      <3> DEFINE claim == Head(disp[d].batch)
      <3>1. CASE ~Holds(claim)
        <4>1. UNCHANGED rows
          BY <2>2, <3>1 DEF MarkIndexed, MarkIndexFailed
        <4> QED BY <4>1, SameRows
      <3>2. CASE Holds(claim)
        <4>1. claim.mem \in Memories
          <5>1. disp[d].pc = "marking" /\ disp[d].batch \in Seq(Claim)
            BY <2>2, RoundFacts DEF MarkIndexed, MarkIndexFailed
          <5>2. disp[d].batch # <<>>
            BY <5>1, NextRound
          <5>3. claim \in Claim
            BY <5>1, <5>2, ElemsTail
          <5> QED BY <5>3 DEF Claim
        <4> HIDE DEF claim
        <4>2. rows[claim.mem].status = "CLAIMED"
          BY <3>2 DEF Holds
        <4>3. /\ rows'[claim.mem].status \in {"INDEXED", "PENDING"}
              /\ \A k \in Memories \ {claim.mem} : rows'[k] = rows[k]
          <5>1. \/ rows' = [rows EXCEPT ![claim.mem].status = "INDEXED", ![claim.mem].age = MaxAge]
                \/ rows' = [rows EXCEPT ![claim.mem].status = "PENDING",
                                        ![claim.mem].age = -RetryDelay(claim.attempt)]
            BY <2>2, <3>2 DEF MarkIndexed, MarkIndexFailed, claim
          <5>2. rows[claim.mem] \in MemoryRow
            BY <1>1, <4>1
          <5> QED BY <1>1, <4>1, <5>1, <5>2 DEF MemoryRow
        <4>4. CASE rows'[claim.mem].status = "PENDING"
          <5>1. PICK m \in Memories : m = claim.mem
            BY <4>1
          <5> QED BY <4>2, <4>3, <4>4, <5>1, QuietRow
        <4>5. CASE rows'[claim.mem].status = "INDEXED"
          <5>1. PICK m \in Memories : m = claim.mem
            BY <4>1
          <5>2. rows[m].status = "CLAIMED" /\ rows'[m].status = "INDEXED"
            BY <4>2, <4>5, <5>1
          <5>3. Obligation(m) = "owed" /\ Obligation(m)' = "settled"
            BY <5>2 DEF Obligation, IndexObligation
          <5>4. \A k \in Memories \ {m} : Obligation(k)' = Obligation(k)
            BY <4>3, <5>1 DEF Obligation, IndexObligation
          <5> QED BY <5>3, <5>4, OneObligationMoves
        <4> QED BY <4>3, <4>4, <4>5
      <3> QED BY <3>1, <3>2
    <2>3. CASE SelectCandidates(d) \/ IndexMemory(d) \/ DispatchTrouble(d)
      <3>1. UNCHANGED rows
        BY <2>3 DEF SelectCandidates, IndexMemory, DispatchTrouble, ClaimFails,
                    IndexingFails, MarkingFails, CrashDispatcher
      <3> QED BY <3>1, SameRows
    <2> QED BY <2>1, <2>2, <2>3 DEF DispatchMemories
  <1>5. CASE FaultElsewhere \/ UNCHANGED indexVars
    BY <1>5, SameRows DEF FaultElsewhere, indexVars
  <1> QED BY <1>2, <1>3, <1>4, <1>5 DEF IndexNext, IndexStep

-----------------------------------------------------------------------------
(* The memory index by itself.                                              *)

\* The invariant holds in every state of the memory index.
THEOREM IndexInvariant == IndexSpec => []IndexInv
  <1>1. IndexInit => IndexInv
    BY InitIndexInv
  <1>2. IndexInv /\ [CreateMemory \/ IndexStep]_indexVars => IndexInv'
    BY IndexNextInv DEF IndexNext
  <1> QED BY <1>1, <1>2, PTL DEF IndexSpec

\* Every state of the memory index is well typed.
THEOREM IndexTypeCorrect == IndexSpec => []MemoryIndexTypeOK
  <1>1. IndexInv => MemoryIndexTypeOK
    BY DEF IndexInv
  <1> QED BY <1>1, IndexInvariant, PTL

=============================================================================
