------------------------- MODULE InitialOutboxProofs -------------------------
(* Proofs about InitialOutbox, for any files, owners, dispatchers, batch size *)
(* and number of disturbances.                                                *)
EXTENDS OutboxWithTracker, TLAPS

\* A row carries the payload of a completed upload, and each completed upload
\* has a row.
RowsAreCompleted ==
  /\ \A f \in Files : table[f].pub # "ABSENT" => <<f, table[f].payload>> \in completed
  /\ \A f \in Files, o \in Owners : <<f, o>> \in completed => table[f].pub # "ABSENT"

\* The copies a dispatcher works on are copies of completed uploads, and no copy
\* is ahead of its row.
Copies(d) == batch[d] \cup claims[d]
CopiesAreBehind ==
  \A d \in Dispatchers : \A c \in Copies(d) :
    /\ <<c.file, c.payload>> \in completed
    /\ c.attempt <= table[c.file].attempt

\* Between acknowledgement and mark, the acknowledged message is in Kafka.
AcknowledgedIsProduced ==
  \A d \in Dispatchers : phase[d] = "acknowledged" =>
    \A c \in claims[d] : IsFirst(c, claims[d]) =>
      \E o \in Owners : <<c.file, o>> \in produced

OutboxInv ==
  /\ TypeOK
  /\ RowsAreCompleted
  /\ CopiesAreBehind
  /\ AcknowledgedIsProduced
  /\ PublishedIsAcknowledged
  /\ PublishedIsCompleted
  /\ ClaimFence


----------------------------------------------------------------------------
\* Nothing is enqueued, claimed or published at first.
LEMMA InitInv == Init => OutboxInv
  <1> SUFFICES ASSUME Init PROVE OutboxInv
    OBVIOUS
  <1>1. TypeOK
    BY OutboxAssumption DEF Init, TypeOK, NoRow, Row, PublicationStatus
  <1>2. RowsAreCompleted /\ PublishedIsAcknowledged
    BY DEF Init, RowsAreCompleted, PublishedIsAcknowledged, NoRow
  <1>3. CopiesAreBehind /\ AcknowledgedIsProduced /\ ClaimFence /\ PublishedIsCompleted
    BY DEF Init, CopiesAreBehind, Copies, AcknowledgedIsProduced, ClaimFence, PublishedIsCompleted
  <1> QED BY <1>1, <1>2, <1>3 DEF OutboxInv

\* A merge fills the row with the payload of an upload it completes.
LEMMA CompleteUploadInv ==
  ASSUME OutboxInv, NEW f \in Files, NEW o \in Owners, CompleteUpload(f, o)
  PROVE  OutboxInv'
  <1> USE DEF OutboxInv
  <1> DEFINE r == table[f]
  <1>1. r \in Row
    BY DEF TypeOK
  <1>2. /\ EnqueuedRow(r, o) \in Row
        /\ EnqueuedRow(r, o).payload = o
        /\ EnqueuedRow(r, o).pub = IF r.pub = "PUBLISHED" THEN "PUBLISHED" ELSE "PENDING"
        /\ EnqueuedRow(r, o).attempt = r.attempt
    BY <1>1 DEF Row, EnqueuedRow, PublicationStatus
  <1>3. /\ table' = [table EXCEPT ![f] = EnqueuedRow(r, o)]
        /\ completed' = completed \cup {<<f, o>>}
        /\ UNCHANGED <<phase, batch, claims, produced>>
        /\ budget' \in 0 .. MaxDisturbances
    BY OutboxAssumption DEF CompleteUpload, dispatcherVars, Disturb, TypeOK
  <1> HIDE DEF r
  <1>4. \A g \in Files : table'[g] = IF g = f THEN EnqueuedRow(r, o) ELSE table[g]
    BY <1>3 DEF TypeOK
  <1>5. TypeOK'
    BY <1>2, <1>3 DEF TypeOK
  <1>6. RowsAreCompleted'
    BY <1>2, <1>3, <1>4 DEF RowsAreCompleted
  <1>7. CopiesAreBehind'
    BY <1>1, <1>2, <1>3, <1>4 DEF CopiesAreBehind, Copies, TypeOK, Claim, r
  <1>8. AcknowledgedIsProduced'
    BY <1>3 DEF AcknowledgedIsProduced, IsFirst
  <1>9. PublishedIsAcknowledged'
    BY <1>2, <1>3, <1>4 DEF PublishedIsAcknowledged, r
  <1>10. PublishedIsCompleted'
    BY <1>3 DEF PublishedIsCompleted
  <1>11. ClaimFence'
    BY <1>2, <1>3, <1>4 DEF ClaimFence, HoldsClaim, r, TypeOK, Claim
  <1> QED BY <1>5, <1>6, <1>7, <1>8, <1>9, <1>10, <1>11

\* The selected copies are those of their rows.
LEMMA SelectInv ==
  ASSUME OutboxInv, NEW d \in Dispatchers, Select(d)
  PROVE  OutboxInv'
  <1> USE DEF OutboxInv
  <1> DEFINE Copy(f) == [file |-> f, payload |-> table[f].payload,
                         attempt |-> table[f].attempt, expired |-> table[f].pub = "CLAIMED"]
             due == {f \in Files : Due(table[f])}
             new == {Copy(f) : f \in FirstRows(due)}
  <1>1. /\ batch' = [batch EXCEPT ![d] = new]
        /\ phase' = [phase EXCEPT ![d] = "claiming"]
        /\ UNCHANGED <<completed, table, claims, produced, budget>>
    BY DEF Select
  <1>2. \A f \in due : /\ Copy(f) \in Claim
                       /\ <<f, table[f].payload>> \in completed
    BY DEF Due, TypeOK, Row, Claim, RowsAreCompleted
  <1>3. \A c \in new : /\ c \in Claim
                       /\ <<c.file, c.payload>> \in completed
                       /\ c.attempt <= table[c.file].attempt
    <2> SUFFICES ASSUME NEW f \in due
                 PROVE  /\ Copy(f) \in Claim
                        /\ <<Copy(f).file, Copy(f).payload>> \in completed
                        /\ Copy(f).attempt <= table[Copy(f).file].attempt
      BY DEF FirstRows
    <2>1. table[f].attempt \in Nat
      BY DEF TypeOK, Row
    <2> QED BY <1>2, <2>1
  <1> HIDE DEF new
  <1>4. TypeOK'
    BY <1>1, <1>3 DEF TypeOK
  <1>5. RowsAreCompleted' /\ PublishedIsAcknowledged' /\ PublishedIsCompleted' /\ ClaimFence'
    BY <1>1 DEF RowsAreCompleted, PublishedIsAcknowledged, PublishedIsCompleted, ClaimFence, HoldsClaim
  <1>6. CopiesAreBehind'
    BY <1>1, <1>3 DEF CopiesAreBehind, Copies, TypeOK
  <1>7. AcknowledgedIsProduced'
    BY <1>1 DEF AcknowledgedIsProduced, TypeOK, IsFirst
  <1> QED BY <1>4, <1>5, <1>6, <1>7

\* A claim marks the row, numbers the attempt and keeps the payload.
LEMMA ClaimedRowType ==
  ASSUME NEW r \in Row
  PROVE  /\ ClaimedRow(r) \in Row
         /\ ClaimedRow(r).pub = "CLAIMED"
         /\ ClaimedRow(r).attempt = r.attempt + 1
         /\ ClaimedRow(r).payload = r.payload
  <1>1. r.attempt \in Nat /\ r.attempt + 1 \in Nat
    BY DEF Row
  <1>2. ClaimedRow(r).attempt = r.attempt + 1 /\ ClaimedRow(r).pub = "CLAIMED"
    BY DEF ClaimedRow, Row
  <1>3. ClaimedRow(r).payload = r.payload
    BY DEF ClaimedRow, Row
  <1>4. ClaimedRow(r) \in Row
    BY <1>1 DEF ClaimedRow, Row, PublicationStatus
  <1> QED BY <1>2, <1>3, <1>4

\* A claim takes a new attempt number, which puts every older claim behind it.
LEMMA ClaimRowInv ==
  ASSUME OutboxInv, NEW d \in Dispatchers, ClaimRow(d)
  PROVE  OutboxInv'
  <1> USE DEF OutboxInv
  <1>1. PICK c \in batch[d] :
          LET won == Claimable(c, table[c.file])
              mine == claims[d] \cup (IF won THEN {Claimed(c)} ELSE {})
              left == batch[d] \ {c}
          IN  /\ batch' = [batch EXCEPT ![d] = left]
              /\ claims' = [claims EXCEPT ![d] = mine]
              /\ table' = IF won THEN [table EXCEPT ![c.file] = ClaimedRow(table[c.file])] ELSE table
              /\ phase' = [phase EXCEPT ![d] = IF left # {} THEN "claiming"
                                               ELSE IF mine # {} THEN "producing" ELSE "idle"]
    BY DEF ClaimRow
  <1>2. UNCHANGED <<completed, produced, budget>>
    BY DEF ClaimRow
  <1> DEFINE won == Claimable(c, table[c.file])
             r == table[c.file]
  <1>3. /\ c \in Claim /\ c.file \in Files /\ c.attempt \in Nat
        /\ r \in Row /\ r.attempt \in Nat /\ c.attempt <= r.attempt
        /\ <<c.file, c.payload>> \in completed
    BY <1>1 DEF TypeOK, Claim, CopiesAreBehind, Copies, Row
  <1> HIDE DEF won, r
  <1>4. /\ ClaimedRow(r) \in Row
        /\ ClaimedRow(r).pub = "CLAIMED"
        /\ ClaimedRow(r).attempt = r.attempt + 1
        /\ ClaimedRow(r).payload = r.payload
    BY <1>3, ClaimedRowType
  <1>5. /\ Claimed(c) \in Claim
        /\ Claimed(c).file = c.file
        /\ Claimed(c).payload = c.payload
        /\ Claimed(c).attempt = c.attempt + 1
    BY <1>3 DEF Claimed, Claim
  <1>6. won => r.pub \in {"PENDING", "CLAIMED"}
    BY DEF Claimable, won, r
  <1> DEFINE rows == IF won THEN [table EXCEPT ![c.file] = ClaimedRow(r)] ELSE table
             mine == claims[d] \cup (IF won THEN {Claimed(c)} ELSE {})
  <1>7. /\ table' = rows
        /\ \A g \in Files : table'[g] = IF won /\ g = c.file THEN ClaimedRow(r) ELSE table[g]
    BY <1>1, <1>3 DEF TypeOK, won, r
  <1>8. /\ claims' = [claims EXCEPT ![d] = mine]
        /\ \A e \in Dispatchers : claims'[e] = IF e = d THEN mine ELSE claims[e]
        /\ batch' = [batch EXCEPT ![d] = batch[d] \ {c}]
        /\ \A e \in Dispatchers : batch'[e] \subseteq batch[e]
        /\ phase'[d] # "acknowledged"
        /\ \A e \in Dispatchers : e # d => phase'[e] = phase[e]
        /\ phase' \in [Dispatchers -> {"idle", "claiming", "producing", "acknowledged", "refused"}]
    BY <1>1 DEF TypeOK, won
  <1> HIDE DEF rows
  <1>9. \A g \in Files : table[g].attempt \in Nat /\ table[g] \in Row
    BY DEF TypeOK, Row
  <1>10. \A e \in Dispatchers : \A b \in claims[e] \cup batch[e] :
           b \in Claim /\ b.file \in Files /\ b.attempt \in Nat
    BY DEF TypeOK, Claim
  <1>11. \A g \in Files : table'[g] \in Row /\ table[g].attempt <= table'[g].attempt
    BY <1>4, <1>7, <1>9, <1>3 DEF r
  <1>12. TypeOK'
    <2>1. table' \in [Files -> Row]
      BY <1>7, <1>4, <1>3 DEF TypeOK, rows
    <2>2. claims' \in [Dispatchers -> SUBSET Claim] /\ batch' \in [Dispatchers -> SUBSET Claim]
      BY <1>8, <1>5 DEF TypeOK
    <2> QED BY <2>1, <2>2, <1>2, <1>8 DEF TypeOK
  <1>13. RowsAreCompleted'
    BY <1>2, <1>4, <1>6, <1>7, <1>3 DEF RowsAreCompleted, r
  <1>14. CopiesAreBehind'
    <2> SUFFICES ASSUME NEW e \in Dispatchers, NEW b \in Copies(e)'
                 PROVE  <<b.file, b.payload>> \in completed /\ b.attempt <= table'[b.file].attempt
      BY <1>2 DEF CopiesAreBehind
    <2>1. CASE b \in Copies(e)
      <3>1. b.file \in Files /\ b.attempt \in Nat /\ b.attempt <= table[b.file].attempt
        BY <2>1, <1>10 DEF CopiesAreBehind, Copies
      <3>2. table[b.file].attempt \in Nat /\ table'[b.file].attempt \in Nat
        BY <3>1, <1>9, <1>11 DEF Row
      <3> QED BY <2>1, <3>1, <3>2, <1>11 DEF CopiesAreBehind
    <2>2. CASE b \notin Copies(e)
      <3>1. won /\ e = d /\ b = Claimed(c)
        BY <2>2, <1>8 DEF Copies
      <3> QED BY <3>1, <1>3, <1>4, <1>5, <1>7
    <2> QED BY <2>1, <2>2
  <1>15. AcknowledgedIsProduced'
    BY <1>2, <1>8 DEF AcknowledgedIsProduced, IsFirst
  <1>16. PublishedIsAcknowledged'
    BY <1>2, <1>4, <1>7 DEF PublishedIsAcknowledged
  <1>17. PublishedIsCompleted'
    BY <1>2 DEF PublishedIsCompleted
  <1>18. ClaimFence'
    <2> SUFFICES ASSUME NEW e \in Dispatchers, NEW a \in claims'[e],
                        NEW h \in Dispatchers, NEW b \in claims'[h],
                        e # h, a.file = b.file,
                        HoldsClaim(a, table'[a.file]), HoldsClaim(b, table'[b.file])
                 PROVE  FALSE
      BY DEF ClaimFence, HoldsClaim
    \* Nobody but the dispatcher that just claimed can hold the new attempt.
    <2>1. ASSUME NEW g \in Dispatchers, NEW x \in claims[g]
          PROVE  ~(won /\ x.file = c.file /\ HoldsClaim(x, table'[x.file]))
      <3>1. x.attempt <= table[x.file].attempt
        BY DEF CopiesAreBehind, Copies
      <3> QED BY <3>1, <1>3, <1>4, <1>7, <1>10 DEF HoldsClaim, r
    <2>2. CASE a \in claims[e] /\ b \in claims[h]
      BY <2>1, <2>2, <1>7, <1>10 DEF ClaimFence, HoldsClaim
    <2>3. CASE a \notin claims[e]
      <3>1. won /\ e = d /\ a.file = c.file /\ b \in claims[h]
        BY <2>3, <1>5, <1>8
      <3> QED BY <3>1, <2>1
    <2>4. CASE b \notin claims[h]
      <3>1. won /\ h = d /\ b.file = c.file /\ a \in claims[e]
        BY <2>4, <1>5, <1>8
      <3> QED BY <3>1, <2>1
    <2> QED BY <2>2, <2>3, <2>4
  <1> QED BY <1>12, <1>13, <1>14, <1>15, <1>16, <1>17, <1>18

----------------------------------------------------------------------------
\* The remaining operations create no copy and renumber no row: this is what
\* they have in common, and it keeps the invariant.
NoNewCopies ==
  /\ completed' = completed
  /\ \A g \in Files : /\ table'[g].payload = table[g].payload
                      /\ table'[g].attempt = table[g].attempt
                      /\ table'[g].pub = "ABSENT" <=> table[g].pub = "ABSENT"
                      /\ table'[g].pub = "CLAIMED" => table[g].pub = "CLAIMED"
                      /\ table'[g].pub = "PUBLISHED" =>
                           table[g].pub = "PUBLISHED" \/ \E o \in Owners : <<g, o>> \in produced
  /\ produced \subseteq produced'
  /\ produced' \subseteq completed
  /\ \A e \in Dispatchers : batch'[e] \subseteq batch[e] /\ claims'[e] \subseteq claims[e]

\* A step of that kind keeps the invariant if it keeps the types and the promise
\* made between acknowledgement and mark.
LEMMA NoNewCopiesInv ==
  ASSUME OutboxInv, NoNewCopies, TypeOK', AcknowledgedIsProduced'
  PROVE  OutboxInv'
  <1> USE DEF OutboxInv, NoNewCopies
  <1>1. RowsAreCompleted'
    BY DEF RowsAreCompleted
  <1>2. CopiesAreBehind'
    BY DEF CopiesAreBehind, Copies, TypeOK, Claim
  <1>3. PublishedIsAcknowledged'
    BY DEF PublishedIsAcknowledged
  <1>4. PublishedIsCompleted'
    BY DEF PublishedIsCompleted
  <1>5. ClaimFence'
    <2> SUFFICES ASSUME NEW e \in Dispatchers, NEW a \in claims'[e],
                        NEW h \in Dispatchers, NEW b \in claims'[h],
                        e # h, a.file = b.file,
                        HoldsClaim(a, table'[a.file]), HoldsClaim(b, table'[b.file])
                 PROVE  FALSE
      BY DEF ClaimFence, HoldsClaim
    <2>1. a \in claims[e] /\ b \in claims[h] /\ a.file \in Files
      BY DEF TypeOK, Claim
    <2>2. HoldsClaim(a, table[a.file]) /\ HoldsClaim(b, table[b.file])
      BY <2>1 DEF HoldsClaim
    <2> QED BY <2>1, <2>2 DEF ClaimFence
  <1> QED BY <1>1, <1>2, <1>3, <1>4, <1>5

\* The first claim in id order is unique enough: any two are of the same file.
LEMMA FirstFile ==
  ASSUME NEW S \in SUBSET Claim, NEW c, NEW e, IsFirst(c, S), IsFirst(e, S), OutboxAssumption
  PROVE  c.file = e.file
  <1>1. c.file \in Nat /\ e.file \in Nat /\ c.file <= e.file /\ e.file <= c.file
    BY DEF IsFirst, Claim, OutboxAssumption
  <1> QED BY <1>1

\* An acknowledged send: the message is in Kafka before the phase says so.
LEMMA ProduceInv ==
  ASSUME OutboxInv, NEW d \in Dispatchers, Produce(d)
  PROVE  OutboxInv'
  <1> USE DEF OutboxInv
  <1>1. PICK c \in claims[d] : /\ IsFirst(c, claims[d])
                               /\ produced' = produced \cup {<<c.file, c.payload>>}
    BY DEF Produce
  <1>2. /\ phase' = [phase EXCEPT ![d] = "acknowledged"]
        /\ UNCHANGED <<completed, table, batch, claims, budget>>
    BY DEF Produce
  <1>3. <<c.file, c.payload>> \in completed
    BY DEF CopiesAreBehind, Copies
  <1>4. c.file \in Files /\ c.payload \in Owners
    BY <1>3 DEF TypeOK
  <1>5. TypeOK'
    BY <1>1, <1>2, <1>4 DEF TypeOK
  <1>6. NoNewCopies
    BY <1>1, <1>2, <1>3 DEF NoNewCopies, PublishedIsCompleted
  <1>7. AcknowledgedIsProduced'
    <2> SUFFICES ASSUME NEW e \in Dispatchers, phase'[e] = "acknowledged",
                        NEW b \in claims[e], IsFirst(b, claims[e])
                 PROVE  \E o \in Owners : <<b.file, o>> \in produced'
      BY <1>2 DEF AcknowledgedIsProduced
    <2>1. CASE e = d
      <3>1. b.file = c.file
        BY <2>1, <1>1, FirstFile, OutboxAssumption DEF TypeOK
      <3> QED BY <3>1, <1>1, <1>4
    <2>2. CASE e # d
      BY <2>2, <1>1, <1>2 DEF AcknowledgedIsProduced, TypeOK
    <2> QED BY <2>1, <2>2
  <1> QED BY <1>5, <1>6, <1>7, NoNewCopiesInv

\* A refused send: whether or not the broker kept the message, it is the
\* message of a completed upload.
LEMMA ProduceFailsInv ==
  ASSUME OutboxInv, NEW d \in Dispatchers, ProduceFails(d)
  PROVE  OutboxInv'
  <1> USE DEF OutboxInv
  <1>1. PICK c \in claims[d] : produced' \in {produced, produced \cup {<<c.file, c.payload>>}}
    BY DEF ProduceFails
  <1>2. /\ phase' = [phase EXCEPT ![d] = "refused"]
        /\ UNCHANGED <<completed, table, batch, claims>>
        /\ budget' \in 0 .. MaxDisturbances
    BY OutboxAssumption DEF ProduceFails, Disturb, TypeOK
  <1>3. <<c.file, c.payload>> \in completed
    BY DEF CopiesAreBehind, Copies
  <1>4. produced \subseteq produced' /\ produced' \subseteq completed
    BY <1>1, <1>3 DEF PublishedIsCompleted
  <1>5. TypeOK'
    BY <1>2, <1>4 DEF TypeOK
  <1>6. NoNewCopies
    BY <1>2, <1>4 DEF NoNewCopies
  <1>7. AcknowledgedIsProduced'
    BY <1>2, <1>4 DEF AcknowledgedIsProduced, TypeOK
  <1> QED BY <1>5, <1>6, <1>7, NoNewCopiesInv

\* Marking a row PUBLISHED: the mark follows the acknowledgement.
LEMMA MarkPublishedInv ==
  ASSUME OutboxInv, NEW d \in Dispatchers, MarkPublished(d)
  PROVE  OutboxInv'
  <1> USE DEF OutboxInv
  <1>1. PICK c \in claims[d] :
          /\ IsFirst(c, claims[d])
          /\ \/ /\ HoldsClaim(c, table[c.file])
                /\ table' = [table EXCEPT ![c.file].pub = "PUBLISHED", ![c.file].leased = FALSE]
                /\ claims' = [claims EXCEPT ![d] = claims[d] \ {c}]
                /\ phase' = [phase EXCEPT ![d] = IF claims[d] = {c} THEN "idle" ELSE "producing"]
                /\ UNCHANGED batch
             \/ Forget(d) /\ UNCHANGED table
    BY DEF MarkPublished
  <1>2. phase[d] = "acknowledged" /\ UNCHANGED <<completed, produced, budget>>
    BY DEF MarkPublished
  <1>3. c.file \in Files /\ \E o \in Owners : <<c.file, o>> \in produced
    BY <1>1, <1>2 DEF AcknowledgedIsProduced, TypeOK, Claim
  <1>4. CASE Forget(d) /\ UNCHANGED table
    <2>1. TypeOK' /\ NoNewCopies
      BY <1>2, <1>4 DEF Forget, TypeOK, NoNewCopies, PublishedIsCompleted
    <2>2. AcknowledgedIsProduced'
      BY <1>2, <1>4 DEF Forget, AcknowledgedIsProduced, TypeOK
    <2> QED BY <2>1, <2>2, NoNewCopiesInv
  <1>5. CASE /\ HoldsClaim(c, table[c.file])
             /\ table' = [table EXCEPT ![c.file].pub = "PUBLISHED", ![c.file].leased = FALSE]
             /\ claims' = [claims EXCEPT ![d] = claims[d] \ {c}]
             /\ phase' = [phase EXCEPT ![d] = IF claims[d] = {c} THEN "idle" ELSE "producing"]
             /\ UNCHANGED batch
    <2> DEFINE marked == [table[c.file] EXCEPT !.pub = "PUBLISHED", !.leased = FALSE]
    <2>1. table' \in [Files -> Row]
      <3>1. table[c.file] \in Row
        BY <1>3 DEF TypeOK
      <3>2. marked \in Row
        BY <3>1 DEF Row, PublicationStatus
      <3>3. table' = [table EXCEPT ![c.file] = marked]
        BY <1>5
      <3> QED BY <3>2, <3>3 DEF TypeOK
    <2>2. TypeOK'
      BY <2>1, <1>2, <1>5 DEF TypeOK
    <2>3. \A g \in Files : /\ table'[g].payload = table[g].payload
                          /\ table'[g].attempt = table[g].attempt
                          /\ table'[g].pub = IF g = c.file THEN "PUBLISHED" ELSE table[g].pub
      BY <1>3, <1>5 DEF TypeOK, Row
    <2>4. table'[c.file].pub = "PUBLISHED" /\ table[c.file].pub = "CLAIMED"
      BY <1>3, <1>5 DEF TypeOK, Row, HoldsClaim
    <2>5. \A e \in Dispatchers : claims'[e] \subseteq claims[e]
      BY <1>5 DEF TypeOK
    <2>6. ASSUME NEW g \in Files
          PROVE  /\ table'[g].payload = table[g].payload
                 /\ table'[g].attempt = table[g].attempt
                 /\ table'[g].pub = "ABSENT" <=> table[g].pub = "ABSENT"
                 /\ table'[g].pub = "CLAIMED" => table[g].pub = "CLAIMED"
                 /\ table'[g].pub = "PUBLISHED" =>
                      table[g].pub = "PUBLISHED" \/ \E o \in Owners : <<g, o>> \in produced
      <3>1. CASE g = c.file
        BY <3>1, <2>3, <2>4, <1>3, Zenon
      <3>2. CASE g # c.file
        <4>1. table'[g].pub = table[g].pub
          BY <3>2, <2>3
        <4> QED BY <4>1, <2>3
      <3> QED BY <3>1, <3>2
    <2>8. produced' = produced /\ produced \subseteq completed /\ completed' = completed
      BY <1>2 DEF PublishedIsCompleted
    <2>9. \A e \in Dispatchers : batch'[e] \subseteq batch[e] /\ claims'[e] \subseteq claims[e]
      BY <1>5, <2>5
    <2>10. NoNewCopies
      BY <2>6, <2>8, <2>9 DEF NoNewCopies
    <2>7. AcknowledgedIsProduced'
      BY <1>2, <1>5 DEF AcknowledgedIsProduced, TypeOK
    <2> QED BY <2>2, <2>10, <2>7, NoNewCopiesInv
  <1> QED BY <1>1, <1>4, <1>5

\* Handing a row back: only the claim that still stands does so.
LEMMA MarkFailedInv ==
  ASSUME OutboxInv, NEW d \in Dispatchers, MarkFailed(d)
  PROVE  OutboxInv'
  <1> USE DEF OutboxInv
  <1>1. PICK c \in claims[d] :
          table' = IF HoldsClaim(c, table[c.file])
                   THEN [table EXCEPT ![c.file].pub = "PENDING", ![c.file].leased = FALSE]
                   ELSE table
    BY DEF MarkFailed
  <1>2. Forget(d) /\ UNCHANGED <<completed, produced, budget>>
    BY DEF MarkFailed
  <1>3. c.file \in Files
    BY DEF TypeOK, Claim
  <1>4. table' \in [Files -> Row]
    BY <1>1, <1>3 DEF TypeOK, Row, PublicationStatus
  <1>5. TypeOK'
    BY <1>2, <1>4 DEF TypeOK, Forget
  <1>6. \A g \in Files : /\ table'[g].payload = table[g].payload
                        /\ table'[g].attempt = table[g].attempt
                        /\ \/ table'[g].pub = table[g].pub
                           \/ table[g].pub = "CLAIMED" /\ table'[g].pub = "PENDING"
    BY <1>1, <1>3 DEF TypeOK, Row, HoldsClaim
  <1>7. NoNewCopies
    BY <1>2, <1>6 DEF NoNewCopies, Forget, PublishedIsCompleted, TypeOK
  <1>8. AcknowledgedIsProduced'
    BY <1>2 DEF Forget, AcknowledgedIsProduced, TypeOK
  <1> QED BY <1>5, <1>7, <1>8, NoNewCopiesInv

\* A round that ends early leaves its rows as they are.
LEMMA AbortInv ==
  ASSUME OutboxInv, NEW d \in Dispatchers, Abort(d)
  PROVE  OutboxInv'
  <1> USE DEF OutboxInv
  <1>1. Forget(d) /\ UNCHANGED <<completed, table, produced>> /\ budget' \in 0 .. MaxDisturbances
    BY OutboxAssumption DEF Abort, Disturb, TypeOK
  <1>2. TypeOK'
    BY <1>1 DEF TypeOK, Forget
  <1>3. NoNewCopies
    BY <1>1 DEF NoNewCopies, Forget, PublishedIsCompleted, TypeOK
  <1>4. AcknowledgedIsProduced'
    BY <1>1 DEF Forget, AcknowledgedIsProduced, TypeOK
  <1> QED BY <1>2, <1>3, <1>4, NoNewCopiesInv

\* A lease that runs out changes neither status nor attempt of its row.
LEMMA LeaseExpiresInv ==
  ASSUME OutboxInv, NEW f \in Files, LeaseExpires(f)
  PROVE  OutboxInv'
  <1> USE DEF OutboxInv
  <1>1. /\ table' = [table EXCEPT ![f].leased = FALSE]
        /\ UNCHANGED <<completed, phase, batch, claims, produced>>
        /\ budget' \in 0 .. MaxDisturbances
    BY OutboxAssumption DEF LeaseExpires, dispatcherVars, Disturb, TypeOK
  <1>2. table' \in [Files -> Row]
    BY <1>1 DEF TypeOK, Row
  <1>3. \A g \in Files : /\ table'[g].payload = table[g].payload
                        /\ table'[g].attempt = table[g].attempt
                        /\ table'[g].pub = table[g].pub
    BY <1>1 DEF TypeOK, Row
  <1>4. TypeOK'
    BY <1>1, <1>2 DEF TypeOK
  <1>5. NoNewCopies
    BY <1>1, <1>3 DEF NoNewCopies, PublishedIsCompleted
  <1>6. AcknowledgedIsProduced'
    BY <1>1 DEF AcknowledgedIsProduced
  <1> QED BY <1>4, <1>5, <1>6, NoNewCopiesInv

\* Every step keeps the invariant.
LEMMA StepInv == OutboxInv /\ [Next]_vars => OutboxInv'
  <1> SUFFICES ASSUME OutboxInv, [Next]_vars PROVE OutboxInv'
    OBVIOUS
  <1>1. CASE \E f \in Files, o \in Owners : CompleteUpload(f, o)
    BY <1>1, CompleteUploadInv
  <1>2. CASE \E d \in Dispatchers : Dispatch(d) \/ ProduceFails(d) \/ Abort(d)
    BY <1>2, SelectInv, ClaimRowInv, ProduceInv, MarkPublishedInv, MarkFailedInv,
       ProduceFailsInv, AbortInv DEF Dispatch
  <1>3. CASE \E f \in Files : LeaseExpires(f)
    BY <1>3, LeaseExpiresInv
  <1>4. CASE UNCHANGED vars
    <2>1. TypeOK' /\ AcknowledgedIsProduced'
      BY <1>4 DEF vars, dispatcherVars, OutboxInv, TypeOK, AcknowledgedIsProduced, IsFirst
    <2>2. NoNewCopies
      BY <1>4 DEF vars, dispatcherVars, OutboxInv, PublishedIsCompleted, NoNewCopies
    <2> QED BY <2>1, <2>2, NoNewCopiesInv
  <1> QED BY <1>1, <1>2, <1>3, <1>4 DEF Next

\* The strengthened invariant holds in every reachable state.
THEOREM OutboxInvariant == Spec => []OutboxInv
  BY InitInv, StepInv, PTL DEF Spec

\* Rows, copies and messages keep their types.
THEOREM OutboxTypes == Spec => []TypeOK
  <1>1. OutboxInv => TypeOK
    BY DEF OutboxInv
  <1> QED BY <1>1, OutboxInvariant, PTL

\* ClaimPendingInitialTasks and the two mark operations: of all dispatchers that
\* believe they hold a row, at most one can still mark it.
THEOREM OutboxFence == Spec => []ClaimFence
  <1>1. OutboxInv => ClaimFence
    BY DEF OutboxInv
  <1> QED BY <1>1, OutboxInvariant, PTL

\* dispatchInitialTasksOnce: PUBLISHED is never recorded before Kafka has a
\* message of the file.
THEOREM OutboxAcknowledged == Spec => []PublishedIsAcknowledged
  <1>1. OutboxInv => PublishedIsAcknowledged
    BY DEF OutboxInv
  <1> QED BY <1>1, OutboxInvariant, PTL

\* CompleteUploadAndEnqueueInitialTask: no parse message without a committed
\* upload of that file and owner.
THEOREM OutboxCompleted == Spec => []PublishedIsCompleted
  <1>1. OutboxInv => PublishedIsCompleted
    BY DEF OutboxInv
  <1> QED BY <1>1, OutboxInvariant, PTL

----------------------------------------------------------------------------
\* No operation makes a PUBLISHED row anything else.
LEMMA PublishedStays ==
  ASSUME OutboxInv, [Next]_vars, NEW f \in Files, table[f].pub = "PUBLISHED"
  PROVE  table'[f].pub = "PUBLISHED"
  <1> USE DEF OutboxInv, TypeOK
  <1>1. ASSUME NEW g \in Files, NEW o \in Owners, CompleteUpload(g, o)
        PROVE  table'[f].pub = "PUBLISHED"
    BY <1>1 DEF CompleteUpload, EnqueuedRow, Row
  <1>2. ASSUME NEW d \in Dispatchers, ClaimRow(d)
        PROVE  table'[f].pub = "PUBLISHED"
    BY <1>2 DEF ClaimRow, Claimable, Claim
  <1>3. ASSUME NEW d \in Dispatchers, MarkPublished(d)
        PROVE  table'[f].pub = "PUBLISHED"
    BY <1>3 DEF MarkPublished, HoldsClaim, Claim
  <1>4. ASSUME NEW d \in Dispatchers, MarkFailed(d)
        PROVE  table'[f].pub = "PUBLISHED"
    BY <1>4 DEF MarkFailed, HoldsClaim, Claim
  <1>5. ASSUME NEW g \in Files, LeaseExpires(g)
        PROVE  table'[f].pub = "PUBLISHED"
    BY <1>5 DEF LeaseExpires, Row
  <1>6. ASSUME NEW d \in Dispatchers, Select(d) \/ Produce(d) \/ ProduceFails(d) \/ Abort(d)
        PROVE  table'[f].pub = "PUBLISHED"
    BY <1>6 DEF Select, Produce, ProduceFails, Abort
  <1>7. CASE UNCHANGED vars
    BY <1>7 DEF vars
  <1> QED BY <1>1, <1>2, <1>3, <1>4, <1>5, <1>6, <1>7 DEF Next, Dispatch

\* MarkInitialTaskPublished is final: no late dispatcher, no expired lease and no
\* repeated merge takes a publication back.
THEOREM OutboxIsFinal == Spec => PublishedIsFinal
  <1>1. OutboxInv /\ [Next]_vars =>
          [\A f \in Files : table[f].pub = "PUBLISHED" => table'[f].pub = "PUBLISHED"]_vars
    BY PublishedStays
  <1> QED BY <1>1, OutboxInvariant, PTL DEF Spec, PublishedIsFinal

----------------------------------------------------------------------------
(* The refinement of AtLeastOnce by Standing. *)

\* In a reachable state a row that Kafka has no message of is due or leased.
LEMMA OwedUntilProduced ==
  ASSUME OutboxInv, NEW f \in Files, table[f].pub # "ABSENT"
  PROVE  Standing(f) = IF \E o \in Owners : <<f, o>> \in produced THEN "settled" ELSE "owed"
  BY DEF OutboxInv, PublishedIsAcknowledged, TypeOK, Row, PublicationStatus, Standing

\* A step that changes no file's standing is a stutter of AtLeastOnce.
LEMMA SameStanding ==
  ASSUME \A f \in Files : Standing(f)' = Standing(f)
  PROVE  [Publication!Next]_([f \in Files |-> Standing(f)])
  <1>1. [f \in Files |-> Standing(f)]' = [f \in Files |-> Standing(f)]
    OBVIOUS
  <1> QED BY <1>1

\* A step that moves one file on is a step of AtLeastOnce.
LEMMA OneMovesOn ==
  ASSUME NEW f \in Files,
         \A g \in Files \ {f} : Standing(g)' = Standing(g),
         \/ Standing(f) = "new" /\ Standing(f)' = "owed"
         \/ Standing(f) = "owed" /\ Standing(f)' = "settled"
  PROVE  Publication!Next
  <1> DEFINE status == [g \in Files |-> Standing(g)]
  <1>1. status' = [g \in Files |-> Standing(g)']
    OBVIOUS
  <1>2. CASE Standing(f) = "new" /\ Standing(f)' = "owed"
    <2>1. status[f] = "new" /\ status' = [status EXCEPT ![f] = "owed"]
      BY <1>1, <1>2
    <2> QED BY <2>1 DEF Publication!Next, Publication!Accept
  <1>3. CASE Standing(f) = "owed" /\ Standing(f)' = "settled"
    <2>1. status[f] = "owed" /\ status' = [status EXCEPT ![f] = "settled"]
      BY <1>1, <1>3
    <2> QED BY <2>1 DEF Publication!Next, Publication!Settle
  <1> QED BY <1>2, <1>3

\* A step that sends nothing and only moves rows between PENDING, CLAIMED and,
\* once sent, PUBLISHED changes no file's standing.
LEMMA NothingSent ==
  ASSUME OutboxInv, OutboxInv', produced' = produced,
         \A g \in Files : table'[g].pub = "ABSENT" <=> table[g].pub = "ABSENT"
  PROVE  [Publication!Next]_([f \in Files |-> Standing(f)])
  <1>1. \A g \in Files : Standing(g)' = Standing(g)
    <2> SUFFICES ASSUME NEW g \in Files PROVE Standing(g)' = Standing(g)
      OBVIOUS
    <2>1. CASE table[g].pub = "ABSENT"
      BY <2>1 DEF Standing
    <2>2. CASE table[g].pub # "ABSENT"
      <3>1. Standing(g) = IF \E o \in Owners : <<g, o>> \in produced THEN "settled" ELSE "owed"
        BY <2>2, OwedUntilProduced
      <3>2. Standing(g)' = IF \E o \in Owners : <<g, o>> \in produced THEN "settled" ELSE "owed"
        BY <2>2 DEF OutboxInv, PublishedIsAcknowledged, TypeOK, Row, PublicationStatus, Standing
      <3> QED BY <3>1, <3>2
    <2> QED BY <2>1, <2>2
  <1> QED BY <1>1, SameStanding

\* Sending the message of a completed upload settles its file or repeats it.
LEMMA OneSent ==
  ASSUME OutboxInv, NEW x \in completed, produced' \in {produced, produced \cup {x}},
         UNCHANGED table
  PROVE  [Publication!Next]_([f \in Files |-> Standing(f)])
  <1> DEFINE sent(f) == \E o \in Owners : <<f, o>> \in produced
  <1>1. PICK f \in Files, o \in Owners : x = <<f, o>>
    BY DEF OutboxInv, TypeOK
  <1>2. table[f].pub # "ABSENT"
    BY <1>1 DEF OutboxInv, RowsAreCompleted
  <1>3. \A g \in Files \ {f} : Standing(g)' = Standing(g)
    BY <1>1 DEF Standing
  <1>4. CASE sent(f) \/ produced' = produced
    <2>1. Standing(f)' = Standing(f)
      BY <1>1, <1>4 DEF Standing
    <2> QED BY <2>1, <1>3, SameStanding
  <1>5. CASE ~sent(f) /\ produced' # produced
    <2>1. Standing(f) = "owed"
      BY <1>2, <1>5, OwedUntilProduced
    <2>2. Standing(f)' = "settled"
      BY <1>1, <1>5 DEF Standing
    <2> QED BY <2>1, <2>2, <1>3, OneMovesOn
  <1> QED BY <1>4, <1>5

\* Every step of the outbox is a step or a stutter of AtLeastOnce.
LEMMA StepRefines ==
  ASSUME OutboxInv, OutboxInv', [Next]_vars
  PROVE  [Publication!Next]_([f \in Files |-> Standing(f)])
  <1>1. ASSUME NEW f \in Files, NEW o \in Owners, CompleteUpload(f, o)
        PROVE  [Publication!Next]_([g \in Files |-> Standing(g)])
    <2>1. /\ \A g \in Files \ {f} : table'[g] = table[g]
          /\ table'[f].pub = IF table[f].pub = "PUBLISHED" THEN "PUBLISHED" ELSE "PENDING"
          /\ produced' = produced
      BY <1>1 DEF CompleteUpload, EnqueuedRow, OutboxInv, TypeOK, Row
    <2>2. CASE table[f].pub # "ABSENT"
      BY <2>1, <2>2, NothingSent
    <2>3. CASE table[f].pub = "ABSENT"
      <3>1. ~\E q \in Owners : <<f, q>> \in produced
        BY <2>3 DEF OutboxInv, RowsAreCompleted, PublishedIsCompleted
      <3>2. Standing(f) = "new" /\ Standing(f)' = "owed"
        BY <3>1, <2>1, <2>3 DEF Standing
      <3>3. \A g \in Files \ {f} : Standing(g)' = Standing(g)
        BY <2>1 DEF Standing
      <3> QED BY <3>2, <3>3, OneMovesOn
    <2> QED BY <2>2, <2>3
  <1>2. ASSUME NEW d \in Dispatchers, ClaimRow(d)
        PROVE  [Publication!Next]_([f \in Files |-> Standing(f)])
    <2>1. \A g \in Files : table'[g].pub = "ABSENT" <=> table[g].pub = "ABSENT"
      BY <1>2 DEF ClaimRow, ClaimedRow, Claimable, OutboxInv, TypeOK, Row, Claim
    <2> QED BY <1>2, <2>1, NothingSent DEF ClaimRow
  <1>3. ASSUME NEW d \in Dispatchers, MarkPublished(d)
        PROVE  [Publication!Next]_([f \in Files |-> Standing(f)])
    <2>1. \A g \in Files : table'[g].pub = "ABSENT" <=> table[g].pub = "ABSENT"
      BY <1>3 DEF MarkPublished, HoldsClaim, OutboxInv, TypeOK, Row, Claim
    <2> QED BY <1>3, <2>1, NothingSent DEF MarkPublished
  <1>4. ASSUME NEW d \in Dispatchers, MarkFailed(d)
        PROVE  [Publication!Next]_([f \in Files |-> Standing(f)])
    <2>1. \A g \in Files : table'[g].pub = "ABSENT" <=> table[g].pub = "ABSENT"
      BY <1>4 DEF MarkFailed, HoldsClaim, OutboxInv, TypeOK, Row, Claim
    <2> QED BY <1>4, <2>1, NothingSent DEF MarkFailed
  <1>5. ASSUME NEW f \in Files, LeaseExpires(f)
        PROVE  [Publication!Next]_([g \in Files |-> Standing(g)])
    <2>1. \A g \in Files : table'[g].pub = "ABSENT" <=> table[g].pub = "ABSENT"
      BY <1>5 DEF LeaseExpires, OutboxInv, TypeOK, Row
    <2> QED BY <1>5, <2>1, NothingSent DEF LeaseExpires
  <1>6. ASSUME NEW d \in Dispatchers, Produce(d) \/ ProduceFails(d)
        PROVE  [Publication!Next]_([f \in Files |-> Standing(f)])
    <2>1. PICK c \in claims[d] : produced' \in {produced, produced \cup {<<c.file, c.payload>>}}
      BY <1>6 DEF Produce, ProduceFails
    <2>2. <<c.file, c.payload>> \in completed
      BY DEF OutboxInv, CopiesAreBehind, Copies
    <2>3. UNCHANGED table
      BY <1>6 DEF Produce, ProduceFails
    <2> QED BY <2>1, <2>2, <2>3, OneSent
  <1>7. CASE \/ \E d \in Dispatchers : Select(d) \/ Abort(d)
             \/ UNCHANGED vars
    <2>1. UNCHANGED <<table, produced>>
      BY <1>7 DEF Select, Abort, vars
    <2> QED BY <2>1, NothingSent
  <1> QED BY <1>1, <1>2, <1>3, <1>4, <1>5, <1>6, <1>7 DEF Next, Dispatch

\* The outbox implements the safety half of AtLeastOnce: an accepted parse task
\* is owed until Kafka has a message of it, and no step forgets it.
THEOREM OutboxRefines == Spec => Publication!Spec
  <1>1. Init => Publication!Init
    BY DEF Init, Publication!Init, Standing, NoRow
  <1>2. OutboxInv /\ OutboxInv' /\ [Next]_vars =>
          [Publication!Next]_([f \in Files |-> Standing(f)])
    BY StepRefines
  <1> QED BY <1>1, <1>2, OutboxInvariant, PTL DEF Spec, Publication!Spec

----------------------------------------------------------------------------
(* The outbox together with the tracker's saves of whole rows.  A save puts  *)
(* back the attempt of an old row, so that copies need not be behind their   *)
(* rows any more, and two dispatchers may hold one claim: the fence is lost. *)
(* What the other properties rest on is kept, in the rows and in the rows    *)
(* that consumers have read alike.                                           *)

\* A row's payload is of a completed upload, and when it says PUBLISHED Kafka has a
\* message of its file.
RowFits(f, r) ==
  /\ r.pub # "ABSENT" => <<f, r.payload>> \in completed
  /\ r.pub = "PUBLISHED" => \E o \in Owners : <<f, o>> \in produced

\* So does the row a consumer is about to save, which has been filled.
SavesFit == \A f \in Files : /\ RowFits(f, saving[f])
                             /\ saving[f] # NoRow => saving[f].pub # "ABSENT"

RowsFit == \A f \in Files :
             /\ RowFits(f, table[f])
             /\ (\E o \in Owners : <<f, o>> \in completed) => table[f].pub # "ABSENT"

CopiesAreCompleted ==
  \A d \in Dispatchers : \A c \in Copies(d) : <<c.file, c.payload>> \in completed

TrackedInv ==
  /\ TypeOK
  /\ saving \in [Files -> Row]
  /\ RowsFit
  /\ SavesFit
  /\ CopiesAreCompleted
  /\ AcknowledgedIsProduced
  /\ PublishedIsCompleted

LEMMA TrackedInit == TrackerInit => TrackedInv
  <1> SUFFICES ASSUME TrackerInit PROVE TrackedInv
    OBVIOUS
  <1>1. OutboxInv
    BY InitInv DEF TrackerInit
  <1>2. NoRow \in Row /\ NoRow.pub = "ABSENT"
    BY DEF NoRow, Row, PublicationStatus
  <1>3. \A f \in Files : table[f] = NoRow /\ saving[f] = NoRow
    BY DEF TrackerInit, Init
  <1>4. saving \in [Files -> Row]
    BY <1>2 DEF TrackerInit
  <1>5. completed = {} /\ CopiesAreCompleted
    BY DEF TrackerInit, Init, CopiesAreCompleted, Copies
  <1>6. RowsFit /\ SavesFit
    BY <1>2, <1>3, <1>5 DEF RowsFit, SavesFit, RowFits
  <1> QED BY <1>1, <1>4, <1>5, <1>6 DEF TrackedInv, OutboxInv

\* What completed and sent only grow by, rows that fit and copies of completed
\* uploads keep the invariant, if the types and the acknowledgements are kept.
LEMMA TrackedStep ==
  ASSUME TrackedInv, TypeOK', AcknowledgedIsProduced',
         completed \subseteq completed',
         produced \subseteq produced', produced' \subseteq completed',
         saving' \in [Files -> Row],
         \A f \in Files :
            \/ saving'[f] \in {saving[f], NoRow}
            \/ saving'[f] = table[f] /\ table[f].pub # "ABSENT",
         \A f \in Files : \A o \in Owners : <<f, o>> \in completed' =>
           <<f, o>> \in completed \/ table'[f].pub # "ABSENT",
         \A f \in Files : table[f].pub # "ABSENT" => table'[f].pub # "ABSENT",
         \A f \in Files : RowFits(f, table[f])',
         \A d \in Dispatchers : \A c \in Copies(d)' : <<c.file, c.payload>> \in completed'
  PROVE  TrackedInv'
  <1> USE DEF TrackedInv
  <1>1. RowsFit'
    BY DEF RowsFit
  <1>2. SavesFit'
    <2> SUFFICES ASSUME NEW f \in Files
                 PROVE  /\ RowFits(f, saving[f])'
                        /\ saving'[f] # NoRow => saving'[f].pub # "ABSENT"
      BY DEF SavesFit
    <2>1. NoRow.pub = "ABSENT"
      BY DEF NoRow
    <2>2. CASE saving'[f] = NoRow
      BY <2>1, <2>2 DEF RowFits
    <2>3. CASE saving'[f] = saving[f]
      BY <2>3 DEF RowFits, SavesFit
    <2>4. CASE saving'[f] = table[f] /\ table[f].pub # "ABSENT"
      BY <2>4 DEF RowFits, RowsFit
    <2> QED BY <2>2, <2>3, <2>4
  <1>3. CopiesAreCompleted' /\ PublishedIsCompleted'
    BY DEF CopiesAreCompleted, PublishedIsCompleted
  <1> QED BY <1>1, <1>2, <1>3

\* The steps of a dispatcher and of time complete no upload, read and save nothing,
\* and change no payload.
DispatcherOnly ==
  /\ UNCHANGED <<completed, saving>>
  /\ \A f \in Files : /\ table'[f].payload = table[f].payload
                      /\ table'[f].pub = "ABSENT" <=> table[f].pub = "ABSENT"
                      /\ table'[f].pub = "PUBLISHED" =>
                           table[f].pub = "PUBLISHED" \/ \E o \in Owners : <<f, o>> \in produced
  /\ produced \subseteq produced'
  /\ produced' \subseteq completed
  /\ \A d \in Dispatchers : \A c \in Copies(d)' : <<c.file, c.payload>> \in completed

LEMMA TrackedDispatcherStep ==
  ASSUME TrackedInv, DispatcherOnly, TypeOK', AcknowledgedIsProduced'
  PROVE  TrackedInv'
  <1>1. \A f \in Files : RowFits(f, table[f])'
    BY DEF TrackedInv, DispatcherOnly, RowsFit, RowFits
  <1>2. completed' = completed /\ saving' = saving
    BY DEF DispatcherOnly
  <1>3. \A f \in Files : table[f].pub # "ABSENT" => table'[f].pub # "ABSENT"
    BY DEF DispatcherOnly
  <1>4. /\ produced \subseteq produced' /\ produced' \subseteq completed'
        /\ \A d \in Dispatchers : \A c \in Copies(d)' : <<c.file, c.payload>> \in completed'
    BY <1>2 DEF DispatcherOnly
  <1>5. saving' \in [Files -> Row]
    BY <1>2 DEF TrackedInv
  <1>6. \A f \in Files : \A o \in Owners : <<f, o>> \in completed' =>
          <<f, o>> \in completed \/ table'[f].pub # "ABSENT"
    BY <1>2
  <1>7. \A f \in Files :
            \/ saving'[f] \in {saving[f], NoRow}
            \/ saving'[f] = table[f] /\ table[f].pub # "ABSENT"
    BY <1>2
  <1>8. completed \subseteq completed'
    BY <1>2
  <1> QED BY <1>1, <1>3, <1>4, <1>5, <1>6, <1>7, <1>8, TrackedStep, Zenon

\* A dispatcher's copy is of a completed upload, of one of the files and owners.
LEMMA TrackedCopy ==
  ASSUME TrackedInv, NEW d \in Dispatchers, NEW c \in Copies(d)
  PROVE  /\ c \in Claim /\ c.file \in Files /\ c.payload \in Owners
         /\ <<c.file, c.payload>> \in completed
  BY DEF TrackedInv, TypeOK, Copies, Claim, CopiesAreCompleted

\* A round that is given up forgets its copies.
LEMMA ForgottenCopies ==
  ASSUME TrackedInv, NEW d \in Dispatchers, Forget(d)
  PROVE  /\ phase' \in [Dispatchers -> {"idle", "claiming", "producing", "acknowledged", "refused"}]
         /\ batch' \in [Dispatchers -> SUBSET Claim]
         /\ claims' \in [Dispatchers -> SUBSET Claim]
         /\ \A e \in Dispatchers : Copies(e)' \subseteq Copies(e)
         /\ \A e \in Dispatchers : phase'[e] = "acknowledged" =>
              phase[e] = "acknowledged" /\ claims'[e] = claims[e]
  BY DEF TrackedInv, TypeOK, Forget, Copies

\* Acknowledgements are kept while no dispatcher but those who were at it is at the
\* mark, with the claims it had.
LEMMA KeepsAcknowledgements ==
  ASSUME AcknowledgedIsProduced, produced \subseteq produced',
         \A e \in Dispatchers : phase'[e] = "acknowledged" =>
           phase[e] = "acknowledged" /\ claims'[e] = claims[e]
  PROVE  AcknowledgedIsProduced'
  BY DEF AcknowledgedIsProduced, IsFirst

LEMMA TrackedMerge ==
  ASSUME TrackedInv, NEW f \in Files, NEW o \in Owners, CompleteUpload(f, o), UNCHANGED saving
  PROVE  TrackedInv'
  <1> USE DEF TrackedInv
  <1> DEFINE r == table[f]
  <1>1. r \in Row
    BY DEF TypeOK
  <1>2. /\ EnqueuedRow(r, o) \in Row
        /\ EnqueuedRow(r, o).payload = o
        /\ EnqueuedRow(r, o).pub = IF r.pub = "PUBLISHED" THEN "PUBLISHED" ELSE "PENDING"
    BY <1>1 DEF Row, EnqueuedRow, PublicationStatus
  <1>3. /\ table' = [table EXCEPT ![f] = EnqueuedRow(r, o)]
        /\ completed' = completed \cup {<<f, o>>}
        /\ UNCHANGED <<phase, batch, claims, produced>>
        /\ budget' \in 0 .. MaxDisturbances
    BY OutboxAssumption DEF CompleteUpload, dispatcherVars, Disturb, TypeOK
  <1> HIDE DEF r
  <1>4. \A g \in Files : table'[g] = IF g = f THEN EnqueuedRow(r, o) ELSE table[g]
    BY <1>3 DEF TypeOK
  <1>5. TypeOK'
    BY <1>2, <1>3 DEF TypeOK
  <1>6. AcknowledgedIsProduced'
    BY <1>3 DEF AcknowledgedIsProduced, IsFirst
  <1>7. \A g \in Files : RowFits(g, table[g])'
    <2> SUFFICES ASSUME NEW g \in Files PROVE RowFits(g, table[g])'
      OBVIOUS
    <2>1. RowFits(g, table[g])
      BY DEF RowsFit
    <2>2. CASE g = f
      BY <2>1, <2>2, <1>2, <1>3, <1>4, SMTT(40) DEF RowFits, r
    <2>3. CASE g # f
      BY <2>1, <2>3, <1>3, <1>4, SMTT(40) DEF RowFits
    <2> QED BY <2>2, <2>3
  <1>8. \A d \in Dispatchers : \A c \in Copies(d)' : <<c.file, c.payload>> \in completed'
    BY <1>3 DEF Copies, CopiesAreCompleted
  <1>9. \A g \in Files : table[g].pub # "ABSENT" => table'[g].pub # "ABSENT"
    BY <1>2, <1>4
  <1>10. \A g \in Files : \A q \in Owners : <<g, q>> \in completed' =>
           <<g, q>> \in completed \/ table'[g].pub # "ABSENT"
    BY <1>2, <1>3, <1>4
  <1>11. produced \subseteq produced' /\ produced' \subseteq completed'
    BY <1>3 DEF PublishedIsCompleted
  <1>12. completed \subseteq completed' /\ saving' \in [Files -> Row]
    BY <1>3
  <1>13. \A g \in Files :
            \/ saving'[g] \in {saving[g], NoRow}
            \/ saving'[g] = table[g] /\ table[g].pub # "ABSENT"
    OBVIOUS
  <1> QED BY <1>5, <1>6, <1>7, <1>8, <1>9, <1>10, <1>11, <1>12, <1>13, TrackedStep, Zenon

LEMMA TrackedSelect ==
  ASSUME TrackedInv, NEW d \in Dispatchers, Select(d), UNCHANGED saving
  PROVE  TrackedInv'
  <1> USE DEF TrackedInv
  <1> DEFINE Copy(f) == [file |-> f, payload |-> table[f].payload,
                         attempt |-> table[f].attempt, expired |-> table[f].pub = "CLAIMED"]
             due == {f \in Files : Due(table[f])}
             new == {Copy(f) : f \in FirstRows(due)}
  <1>1. /\ batch' = [batch EXCEPT ![d] = new]
        /\ phase' = [phase EXCEPT ![d] = "claiming"]
        /\ UNCHANGED <<completed, table, claims, produced, budget>>
    BY DEF Select
  <1>2. \A f \in due : Copy(f) \in Claim /\ <<f, table[f].payload>> \in completed
    BY DEF Due, TypeOK, Row, Claim, RowsFit, RowFits
  <1>3. \A c \in new : c \in Claim /\ <<c.file, c.payload>> \in completed
    <2> SUFFICES ASSUME NEW f \in due
                 PROVE  Copy(f) \in Claim /\ <<Copy(f).file, Copy(f).payload>> \in completed
      BY DEF FirstRows
    <2> QED BY <1>2
  <1> HIDE DEF new
  <1>4. TypeOK'
    BY <1>1, <1>3 DEF TypeOK
  <1>5. AcknowledgedIsProduced'
    BY <1>1, KeepsAcknowledgements DEF TypeOK
  <1>6. DispatcherOnly
    BY <1>1, <1>3 DEF DispatcherOnly, PublishedIsCompleted, Copies, CopiesAreCompleted, TypeOK
  <1> QED BY <1>4, <1>5, <1>6, TrackedDispatcherStep

LEMMA TrackedClaim ==
  ASSUME TrackedInv, NEW d \in Dispatchers, ClaimRow(d), UNCHANGED saving
  PROVE  TrackedInv'
  <1> USE DEF TrackedInv
  <1>1. PICK c \in batch[d] :
          LET won == Claimable(c, table[c.file])
              mine == claims[d] \cup (IF won THEN {Claimed(c)} ELSE {})
              left == batch[d] \ {c}
          IN  /\ batch' = [batch EXCEPT ![d] = left]
              /\ claims' = [claims EXCEPT ![d] = mine]
              /\ table' = IF won THEN [table EXCEPT ![c.file] = ClaimedRow(table[c.file])] ELSE table
              /\ phase' = [phase EXCEPT ![d] = IF left # {} THEN "claiming"
                                               ELSE IF mine # {} THEN "producing" ELSE "idle"]
    BY DEF ClaimRow
  <1>2. UNCHANGED <<completed, produced, budget>>
    BY DEF ClaimRow
  <1> DEFINE won == Claimable(c, table[c.file])
             r == table[c.file]
             mine == claims[d] \cup (IF won THEN {Claimed(c)} ELSE {})
  <1>3. /\ c \in Claim /\ c.file \in Files /\ c.attempt \in Nat /\ r \in Row
        /\ <<c.file, c.payload>> \in completed
    BY <1>1, TrackedCopy DEF Copies, Claim, TypeOK
  <1>4. ClaimedRow(r) \in Row /\ ClaimedRow(r).pub = "CLAIMED" /\ ClaimedRow(r).payload = r.payload
    BY <1>3, ClaimedRowType
  <1>5. won => r.pub # "ABSENT"
    BY DEF Claimable
  <1>6. Claimed(c) \in Claim /\ Claimed(c).file = c.file /\ Claimed(c).payload = c.payload
    BY <1>3 DEF Claimed, Claim
  <1>7. /\ claims' = [claims EXCEPT ![d] = mine]
        /\ batch' = [batch EXCEPT ![d] = batch[d] \ {c}]
        /\ table' = IF won THEN [table EXCEPT ![c.file] = ClaimedRow(r)] ELSE table
        /\ phase' \in [Dispatchers -> {"idle", "claiming", "producing", "acknowledged", "refused"}]
        /\ phase'[d] # "acknowledged"
        /\ \A e \in Dispatchers : e # d => phase'[e] = phase[e] /\ claims'[e] = claims[e]
    BY <1>1 DEF TypeOK
  <1> HIDE DEF won, r
  <1>8. /\ mine \subseteq claims[d] \cup {Claimed(c)} /\ mine \subseteq Claim
        /\ \A b \in mine : <<b.file, b.payload>> \in completed
    BY <1>3, <1>6, TrackedCopy DEF Copies
  <1> HIDE DEF mine
  <1>9. \A g \in Files : table'[g] = table[g] \/ (won /\ g = c.file /\ table'[g] = ClaimedRow(r))
    <2> HIDE DEF TrackedInv
    <2>1. DOMAIN table = Files
      BY DEF TrackedInv, TypeOK
    <2>2. CASE won
      BY <2>1, <2>2, <1>7, <1>3
    <2>3. CASE ~won
      BY <2>3, <1>7
    <2> QED BY <2>2, <2>3
  <1>10. table' \in [Files -> Row]
    BY <1>7, <1>4, <1>3 DEF TypeOK
  <1>11. TypeOK'
    BY <1>2, <1>7, <1>8, <1>10 DEF TypeOK
  <1>12. AcknowledgedIsProduced'
    BY <1>2, <1>7, KeepsAcknowledgements
  <1>13. \A e \in Dispatchers : \A b \in Copies(e)' : <<b.file, b.payload>> \in completed
    BY <1>7, <1>8 DEF Copies, CopiesAreCompleted, TypeOK
  <1>14. \A g \in Files : /\ table'[g].payload = table[g].payload
                          /\ table'[g].pub = "ABSENT" <=> table[g].pub = "ABSENT"
                          /\ table'[g].pub = "PUBLISHED" => table[g].pub = "PUBLISHED"
    <2> SUFFICES ASSUME NEW g \in Files
                 PROVE  /\ table'[g].payload = table[g].payload
                        /\ table'[g].pub = "ABSENT" <=> table[g].pub = "ABSENT"
                        /\ table'[g].pub = "PUBLISHED" => table[g].pub = "PUBLISHED"
      OBVIOUS
    <2>1. CASE table'[g] = table[g]
      BY <2>1
    <2>2. CASE won /\ g = c.file /\ table'[g] = ClaimedRow(r)
      BY <2>2, <1>4, <1>5 DEF r
    <2> QED BY <2>1, <2>2, <1>9
  <1>15. DispatcherOnly
    BY <1>2, <1>13, <1>14 DEF DispatcherOnly, PublishedIsCompleted
  <1> QED BY <1>11, <1>12, <1>15, TrackedDispatcherStep

LEMMA TrackedProduce ==
  ASSUME TrackedInv, NEW d \in Dispatchers, Produce(d) \/ ProduceFails(d), UNCHANGED saving
  PROVE  TrackedInv'
  <1> USE DEF TrackedInv
  <1>1. PICK c \in claims[d] :
          /\ IsFirst(c, claims[d])
          /\ produced' \in {produced, produced \cup {<<c.file, c.payload>>}}
          /\ phase'[d] = "acknowledged" => produced' = produced \cup {<<c.file, c.payload>>}
    BY DEF Produce, ProduceFails, TypeOK
  <1>2. /\ \A e \in Dispatchers : e # d => phase'[e] = phase[e]
        /\ phase' \in [Dispatchers -> {"idle", "claiming", "producing", "acknowledged", "refused"}]
        /\ UNCHANGED <<completed, table, batch, claims>>
        /\ budget' \in 0 .. MaxDisturbances
    BY OutboxAssumption DEF Produce, ProduceFails, Disturb, TypeOK
  <1>3. c.file \in Files /\ c.payload \in Owners /\ <<c.file, c.payload>> \in completed
    BY TrackedCopy DEF Copies
  <1>4. produced \subseteq produced' /\ produced' \subseteq completed
    BY <1>1, <1>3 DEF PublishedIsCompleted
  <1>5. TypeOK'
    BY <1>2, <1>4 DEF TypeOK
  <1>6. DispatcherOnly
    BY <1>2, <1>4 DEF DispatcherOnly, Copies, CopiesAreCompleted
  <1>7. AcknowledgedIsProduced'
    <2> SUFFICES ASSUME NEW e \in Dispatchers, phase'[e] = "acknowledged",
                        NEW b \in claims[e], IsFirst(b, claims[e])
                 PROVE  \E o \in Owners : <<b.file, o>> \in produced'
      BY <1>2 DEF AcknowledgedIsProduced, IsFirst
    <2>1. CASE e = d
      <3>1. b.file = c.file
        BY <2>1, <1>1, FirstFile, OutboxAssumption DEF TypeOK
      <3> QED BY <2>1, <3>1, <1>1, <1>3
    <2>2. CASE e # d
      BY <2>2, <1>2, <1>4 DEF AcknowledgedIsProduced
    <2> QED BY <2>1, <2>2
  <1> QED BY <1>5, <1>6, <1>7, TrackedDispatcherStep

\* A step that completes and sends nothing, forgets or keeps copies, and changes at
\* most status and lease of one row.
LEMMA TrackedMark ==
  ASSUME TrackedInv, UNCHANGED <<completed, produced, saving>>,
         NEW f \in Files, NEW r \in Row,
         r.payload = table[f].payload, r.pub = "ABSENT" <=> table[f].pub = "ABSENT",
         r.pub = "PUBLISHED" => table[f].pub = "PUBLISHED" \/ \E o \in Owners : <<f, o>> \in produced,
         table' = [table EXCEPT ![f] = r],
         \A e \in Dispatchers : Copies(e)' \subseteq Copies(e),
         \A e \in Dispatchers : phase'[e] = "acknowledged" =>
           phase[e] = "acknowledged" /\ claims'[e] = claims[e],
         phase' \in [Dispatchers -> {"idle", "claiming", "producing", "acknowledged", "refused"}],
         batch' \in [Dispatchers -> SUBSET Claim], claims' \in [Dispatchers -> SUBSET Claim],
         budget' \in 0 .. MaxDisturbances
  PROVE  TrackedInv'
  <1> USE DEF TrackedInv
  <1>1. TypeOK'
    BY DEF TypeOK
  <1>2. AcknowledgedIsProduced'
    BY KeepsAcknowledgements
  <1>3. \A g \in Files : table'[g] = IF g = f THEN r ELSE table[g]
    BY DEF TypeOK
  <1>4. \A g \in Files : /\ table'[g].payload = table[g].payload
                         /\ table'[g].pub = "ABSENT" <=> table[g].pub = "ABSENT"
                         /\ table'[g].pub = "PUBLISHED" =>
                              table[g].pub = "PUBLISHED" \/ \E o \in Owners : <<g, o>> \in produced
    <2> SUFFICES ASSUME NEW g \in Files
                 PROVE  /\ table'[g].payload = table[g].payload
                        /\ table'[g].pub = "ABSENT" <=> table[g].pub = "ABSENT"
                        /\ table'[g].pub = "PUBLISHED" =>
                             table[g].pub = "PUBLISHED" \/ \E o \in Owners : <<g, o>> \in produced
      OBVIOUS
    <2>1. CASE g = f
      BY <2>1, <1>3
    <2>2. CASE g # f
      <3>1. table'[g] = table[g]
        BY <2>2, <1>3
      <3> QED BY <3>1
    <2> QED BY <2>1, <2>2
  <1>5. DispatcherOnly
    BY <1>4 DEF DispatcherOnly, PublishedIsCompleted, CopiesAreCompleted
  <1> QED BY <1>1, <1>2, <1>5, TrackedDispatcherStep

\* A row with another status and lease is a row of the same payload.
LEMMA MarkedRow ==
  ASSUME NEW r \in Row, NEW p \in PublicationStatus
  PROVE  /\ [r EXCEPT !.pub = p, !.leased = FALSE] \in Row
         /\ [r EXCEPT !.pub = p, !.leased = FALSE].payload = r.payload
         /\ [r EXCEPT !.pub = p, !.leased = FALSE].pub = p
  BY DEF Row

LEMMA TrackedMarks ==
  ASSUME TrackedInv, NEW d \in Dispatchers, MarkPublished(d) \/ MarkFailed(d), UNCHANGED saving
  PROVE  TrackedInv'
  <1> DEFINE Marked(f, p) == [table[f] EXCEPT !.pub = p, !.leased = FALSE]
  <1>1. PICK c \in claims[d] :
          \/ /\ phase[d] = "acknowledged" /\ IsFirst(c, claims[d])
             /\ HoldsClaim(c, table[c.file])
             /\ table' = [table EXCEPT ![c.file] = Marked(c.file, "PUBLISHED")]
             /\ claims' = [claims EXCEPT ![d] = claims[d] \ {c}]
             /\ phase' = [phase EXCEPT ![d] = IF claims[d] = {c} THEN "idle" ELSE "producing"]
             /\ UNCHANGED batch
          \/ /\ HoldsClaim(c, table[c.file])
             /\ table' = [table EXCEPT ![c.file] = Marked(c.file, "PENDING")]
             /\ Forget(d)
          \/ Forget(d) /\ UNCHANGED table
    BY ZenonT(60) DEF MarkPublished, MarkFailed
  <1>2. UNCHANGED <<completed, produced, budget, saving>> /\ budget' \in 0 .. MaxDisturbances
    BY DEF MarkPublished, MarkFailed, TrackedInv, TypeOK
  <1>3. c.file \in Files /\ table[c.file] \in Row
    BY TrackedCopy DEF Copies, TrackedInv, TypeOK
  <1>4. \A p \in PublicationStatus :
          /\ Marked(c.file, p) \in Row
          /\ Marked(c.file, p).payload = table[c.file].payload
          /\ Marked(c.file, p).pub = p
    BY <1>3, MarkedRow
  <1> HIDE DEF Marked
  <1>5. CASE /\ phase[d] = "acknowledged" /\ IsFirst(c, claims[d])
             /\ HoldsClaim(c, table[c.file])
             /\ table' = [table EXCEPT ![c.file] = Marked(c.file, "PUBLISHED")]
             /\ claims' = [claims EXCEPT ![d] = claims[d] \ {c}]
             /\ phase' = [phase EXCEPT ![d] = IF claims[d] = {c} THEN "idle" ELSE "producing"]
             /\ UNCHANGED batch
    <2> DEFINE r == Marked(c.file, "PUBLISHED")
    <2>1. /\ r \in Row /\ r.payload = table[c.file].payload /\ r.pub = "PUBLISHED"
          /\ table[c.file].pub # "ABSENT"
      BY <1>4, <1>5 DEF PublicationStatus, HoldsClaim
    <2>2. \E o \in Owners : <<c.file, o>> \in produced
      BY <1>5 DEF TrackedInv, AcknowledgedIsProduced
    <2>3. /\ phase' \in [Dispatchers -> {"idle", "claiming", "producing", "acknowledged", "refused"}]
          /\ batch' \in [Dispatchers -> SUBSET Claim]
          /\ claims' \in [Dispatchers -> SUBSET Claim]
          /\ \A e \in Dispatchers : Copies(e)' \subseteq Copies(e)
          /\ \A e \in Dispatchers : phase'[e] = "acknowledged" =>
               phase[e] = "acknowledged" /\ claims'[e] = claims[e]
      BY <1>5 DEF TrackedInv, TypeOK, Copies
    <2>4. table' = [table EXCEPT ![c.file] = r]
      BY <1>5
    <2> HIDE DEF r
    <2> QED BY <2>1, <2>2, <2>3, <2>4, <1>2, <1>3, TrackedMark
  <1>6. CASE /\ HoldsClaim(c, table[c.file])
             /\ table' = [table EXCEPT ![c.file] = Marked(c.file, "PENDING")]
             /\ Forget(d)
    <2> DEFINE r == Marked(c.file, "PENDING")
    <2>1. /\ r \in Row /\ r.payload = table[c.file].payload /\ r.pub = "PENDING"
          /\ table[c.file].pub # "ABSENT"
      BY <1>4, <1>6 DEF PublicationStatus, HoldsClaim
    <2>2. table' = [table EXCEPT ![c.file] = r]
      BY <1>6
    <2> HIDE DEF r
    <2> QED BY <2>1, <2>2, <1>2, <1>3, <1>6, ForgottenCopies, TrackedMark
  <1>7. CASE Forget(d) /\ UNCHANGED table
    <2>1. table' = [table EXCEPT ![c.file] = table[c.file]]
      BY <1>7 DEF TrackedInv, TypeOK
    <2> QED BY <2>1, <1>2, <1>3, <1>7, ForgottenCopies, TrackedMark
  <1> QED BY <1>1, <1>5, <1>6, <1>7

LEMMA TrackedAbort ==
  ASSUME TrackedInv, NEW d \in Dispatchers, Abort(d), UNCHANGED saving
  PROVE  TrackedInv'
  <1>1. Forget(d) /\ UNCHANGED <<completed, table, produced>> /\ budget' \in 0 .. MaxDisturbances
    BY OutboxAssumption DEF Abort, Disturb, TrackedInv, TypeOK
  <1>2. TypeOK' /\ AcknowledgedIsProduced'
    BY <1>1, ForgottenCopies, KeepsAcknowledgements DEF TrackedInv, TypeOK
  <1>3. DispatcherOnly
    BY <1>1, ForgottenCopies DEF DispatcherOnly, TrackedInv, PublishedIsCompleted, CopiesAreCompleted
  <1> QED BY <1>2, <1>3, TrackedDispatcherStep

LEMMA TrackedExpiry ==
  ASSUME TrackedInv, NEW f \in Files, LeaseExpires(f), UNCHANGED saving
  PROVE  TrackedInv'
  <1> DEFINE r == [table[f] EXCEPT !.leased = FALSE]
  <1>1. /\ table' = [table EXCEPT ![f] = r]
        /\ UNCHANGED <<completed, phase, batch, claims, produced>>
        /\ budget' \in 0 .. MaxDisturbances
    BY OutboxAssumption DEF LeaseExpires, dispatcherVars, Disturb, TrackedInv, TypeOK
  <1>2. r \in Row /\ r.payload = table[f].payload /\ r.pub = table[f].pub
    BY DEF TrackedInv, TypeOK, Row
  <1> HIDE DEF r
  <1>3. /\ phase' \in [Dispatchers -> {"idle", "claiming", "producing", "acknowledged", "refused"}]
        /\ batch' \in [Dispatchers -> SUBSET Claim]
        /\ claims' \in [Dispatchers -> SUBSET Claim]
        /\ \A e \in Dispatchers : Copies(e)' \subseteq Copies(e)
    BY <1>1 DEF TrackedInv, TypeOK, Copies
  <1> QED BY <1>1, <1>2, <1>3, TrackedMark

\* A consumer reads a row that Kafka has a message of, so it has been filled.
LEMMA TrackedRead ==
  ASSUME TrackedInv, NEW f \in Files, ReadTask(f)
  PROVE  TrackedInv'
  <1> USE DEF TrackedInv
  <1>1. saving' = [saving EXCEPT ![f] = table[f]] /\ UNCHANGED vars
    BY DEF ReadTask
  <1>2. table[f].pub # "ABSENT" /\ table[f] \in Row
    BY DEF ReadTask, RowsFit, PublishedIsCompleted, TypeOK
  <1>3. TypeOK' /\ AcknowledgedIsProduced'
    BY <1>1 DEF vars, dispatcherVars, TypeOK, AcknowledgedIsProduced, IsFirst
  <1>4. RowsFit' /\ CopiesAreCompleted' /\ PublishedIsCompleted' /\ saving' \in [Files -> Row]
    BY <1>1, <1>2 DEF vars, dispatcherVars, RowsFit, RowFits, CopiesAreCompleted, Copies,
                      PublishedIsCompleted
  <1>5. SavesFit'
    BY <1>1, <1>2 DEF vars, dispatcherVars, SavesFit, RowsFit, RowFits
  <1> QED BY <1>3, <1>4, <1>5

\* It writes back a row that still fits, whatever became of the row in between.
LEMMA TrackedSave ==
  ASSUME TrackedInv, NEW f \in Files, SaveTask(f)
  PROVE  TrackedInv'
  <1> USE DEF TrackedInv
  <1> DEFINE r == saving[f]
  <1>1. /\ table' = [table EXCEPT ![f] = r]
        /\ saving' = [saving EXCEPT ![f] = NoRow]
        /\ UNCHANGED <<completed, phase, batch, claims, produced>>
        /\ budget' \in 0 .. MaxDisturbances
    BY OutboxAssumption DEF SaveTask, dispatcherVars, Disturb, TypeOK
  <1>2. r \in Row /\ r.pub # "ABSENT" /\ RowFits(f, r)
    BY DEF SaveTask, SavesFit
  <1> HIDE DEF r
  <1>3. \A g \in Files : table'[g] = IF g = f THEN r ELSE table[g]
    BY <1>1 DEF TypeOK
  <1>4. \A g \in Files : saving'[g] = IF g = f THEN NoRow ELSE saving[g]
    BY <1>1
  <1>5. NoRow \in Row /\ NoRow.pub = "ABSENT"
    BY DEF NoRow, Row, PublicationStatus
  <1>6. TypeOK' /\ AcknowledgedIsProduced'
    BY <1>1, <1>2 DEF TypeOK, AcknowledgedIsProduced, IsFirst
  <1>7. CopiesAreCompleted' /\ PublishedIsCompleted' /\ saving' \in [Files -> Row]
    BY <1>1, <1>5 DEF CopiesAreCompleted, Copies, PublishedIsCompleted
  <1>8. RowsFit'
    <2> SUFFICES ASSUME NEW g \in Files
                 PROVE  /\ RowFits(g, table[g])'
                        /\ (\E o \in Owners : <<g, o>> \in completed) => table'[g].pub # "ABSENT"
      BY <1>1 DEF RowsFit
    <2>1. CASE g = f
      BY <2>1, <1>1, <1>2, <1>3, SMTT(40) DEF RowFits
    <2>2. CASE g # f
      <3>1. table'[g] = table[g] /\ RowFits(g, table[g])
        BY <2>2, <1>3 DEF RowsFit
      <3> QED BY <3>1, <1>1 DEF RowFits, RowsFit
    <2> QED BY <2>1, <2>2
  <1>9. SavesFit'
    BY <1>1, <1>4, <1>5 DEF SavesFit, RowFits
  <1> QED BY <1>6, <1>7, <1>8, <1>9

LEMMA TrackerStepInv == TrackedInv /\ [TrackerNext]_trackerVars => TrackedInv'
  <1> SUFFICES ASSUME TrackedInv, [TrackerNext]_trackerVars PROVE TrackedInv'
    OBVIOUS
  <1>1. CASE Next /\ UNCHANGED saving
    <2>1. CASE \E f \in Files, o \in Owners : CompleteUpload(f, o)
      BY <1>1, <2>1, TrackedMerge
    <2>2. CASE \E d \in Dispatchers : Dispatch(d) \/ ProduceFails(d) \/ Abort(d)
      BY <1>1, <2>2, TrackedSelect, TrackedClaim, TrackedProduce, TrackedMarks, TrackedAbort
         DEF Dispatch
    <2>3. CASE \E f \in Files : LeaseExpires(f)
      BY <1>1, <2>3, TrackedExpiry
    <2> QED BY <1>1, <2>1, <2>2, <2>3 DEF Next
  <1>2. CASE \E f \in Files : ReadTask(f) \/ SaveTask(f)
    BY <1>2, TrackedRead, TrackedSave
  <1>3. CASE UNCHANGED trackerVars
    BY <1>3 DEF trackerVars, vars, dispatcherVars, TrackedInv, TypeOK, RowsFit, SavesFit, RowFits,
                CopiesAreCompleted, Copies, AcknowledgedIsProduced, IsFirst, PublishedIsCompleted
  <1> QED BY <1>1, <1>2, <1>3 DEF TrackerNext

\* The rows, the copies of dispatchers and those of consumers stay sound together.
THEOREM TrackerInvariant == TrackerSpec => []TrackedInv
  BY TrackedInit, TrackerStepInv, PTL DEF TrackerSpec

\* Mark...ByKey of the task tracker: although a consumer writes back a whole row it
\* read long ago, publication columns and all, PUBLISHED still means that Kafka has
\* a message of the file.
THEOREM TrackerAcknowledged == TrackerSpec => []PublishedIsAcknowledged
  <1>1. TrackedInv => PublishedIsAcknowledged
    BY DEF TrackedInv, RowsFit, RowFits, PublishedIsAcknowledged
  <1> QED BY <1>1, TrackerInvariant, PTL

\* A rewound row publishes again, and what it publishes is a completed upload's.
THEOREM TrackerCompleted == TrackerSpec => []PublishedIsCompleted
  <1>1. TrackedInv => PublishedIsCompleted
    BY DEF TrackedInv
  <1> QED BY <1>1, TrackerInvariant, PTL
=============================================================================
