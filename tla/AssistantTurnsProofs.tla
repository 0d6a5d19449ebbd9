----------------------- MODULE AssistantTurnsProofs -----------------------
(* Proofs about AssistantTurns, for any sockets, dispatchers, turns, memories, *)
(* messages and faults: the composition takes the memory index through steps of *)
(* its own only, so that what is proved of the index holds of the assistant.    *)
EXTENDS AssistantTurns, MemoryIndexProofs, FiniteSetTheorems

-----------------------------------------------------------------------------
(* The memory index inside the assistant.                                   *)

\* The rows of every beginning are rows that a memory index may have.
LEMMA MemoriesInv ==
  ASSUME NEW row \in [Memories -> {NoMemory, Pending, Indexed}], InitMemories(row),
         faults \in Nat
  PROVE  IndexInv
  <1>1. MaxAge \in Int
    BY MemoryIndexAssumption DEF MaxAge
  <1>2. {NoMemory, Pending, Indexed} \subseteq MemoryRow
    BY <1>1 DEF NoMemory, Pending, Indexed, MemoryRow
  <1>3. rows = row /\ searchable = {m \in Memories : row[m].status = "INDEXED"}
        /\ disp = [d \in Dispatchers |-> Resting]
    BY DEF InitMemories
  <1>4. MemoryIndexTypeOK
    BY <1>2, <1>3, RestingRound DEF MemoryIndexTypeOK
  <1>5. \A d \in Dispatchers : Batch(d) = {} /\ disp[d].cands = {} /\ disp[d].pc = "idle"
    BY <1>3, RestingRound, ElemsEmpty DEF Batch, Resting
  <1>6. FreshRows
    BY <1>3 DEF FreshRows, NoMemory, Pending, Indexed
  <1>7. ClaimsAreBehind /\ ClaimsAreApart /\ RoundsAreSound
    BY <1>5 DEF ClaimsAreBehind, ClaimsAreApart, RoundsAreSound
  <1>8. IndexedIsSearchable
    BY <1>3 DEF IndexedIsSearchable
  <1> QED BY <1>4, <1>6, <1>7, <1>8 DEF IndexInv

LEMMA AssistantInitIndex == Init => IndexInv
  <1> SUFFICES ASSUME Init PROVE IndexInv
    OBVIOUS
  <1>1. MaxFaults \in Nat /\ MaxFaults - 1 \in Nat
    BY MemoryIndexAssumption, BoundsAssumption
  <1>2. CASE InitOneSocket
    BY <1>1, <1>2, MemoriesInv DEF InitOneSocket
  <1>3. CASE InitManySockets
    BY <1>1, <1>3, MemoriesInv DEF InitManySockets
  <1>4. CASE InitRemembering
    <2>1. [m \in Memories |-> IF m = NumMemories THEN NoMemory ELSE Indexed]
            \in [Memories -> {NoMemory, Pending, Indexed}]
      OBVIOUS
    <2> QED BY <1>1, <1>4, <2>1, MemoriesInv DEF InitRemembering
  <1>5. CASE InitBacklog
    BY <1>5, MemoriesInv DEF InitBacklog
  <1> QED BY <1>2, <1>3, <1>4, <1>5 DEF Init

\* Every step of the assistant is a step of the memory index, or none.
LEMMA AssistantStepsIndex == [Next]_vars => IndexNext
  <1> SUFFICES ASSUME [Next]_vars PROVE IndexNext
    OBVIOUS
  <1>1. CASE UNCHANGED vars
    BY <1>1 DEF vars, IndexNext
  <1>2. ASSUME NEW s \in Sockets,
               Question(s) \/ SocketOnly(s) \/ PassChunk(s) \/ StreamEndsEarly(s)
        PROVE  IndexNext
    <2>1. UNCHANGED indexVars \/ FaultElsewhere
      BY <1>2 DEF Question, SocketOnly, PassChunk, StreamEndsEarly, FaultElsewhere, indexVars
    <2> QED BY <2>1 DEF IndexNext
  <1>3. ASSUME NEW t \in Turns, StepFails(t) \/ PersistTimesOut(t)
        PROVE  IndexNext
    BY <1>3 DEF StepFails, PersistTimesOut, FaultElsewhere, IndexNext
  <1>4. ASSUME NEW t \in Turns, LoadAndPersist(t) \/ Answer(t) \/ AnswerNothing(t)
        PROVE  IndexNext
    BY <1>4 DEF LoadAndPersist, Answer, AnswerNothing, IndexNext
  <1>5. ASSUME NEW t \in Turns, NEW storing \in BOOLEAN, Remember(t, storing)
        PROVE  IndexNext
    BY <1>5 DEF Remember, RememberTurn, CreateMemory, IndexNext, indexVars
  <1>6. CASE ConversationExpires /\ UNCHANGED <<socketVars, indexVars>>
    BY <1>6 DEF IndexNext
  <1>7. CASE IndexStep /\ UNCHANGED <<conversationVars, socketVars>>
    BY <1>7 DEF IndexNext
  <1> QED BY <1>1, <1>2, <1>3, <1>4, <1>5, <1>6, <1>7 DEF Next, TurnStep

LEMMA AssistantIndexInv == Spec => []IndexInv
  <1>1. IndexInv /\ [Next]_vars => IndexInv'
    BY AssistantStepsIndex, IndexNextInv
  <1> QED BY <1>1, AssistantInitIndex, PTL DEF Spec

\* However slow a dispatcher is and whatever strikes it or the turns that store
\* memories, no two dispatchers can both settle the row of one memory.
THEOREM AssistantOneHolder == Spec => []OneHolder
  BY AssistantIndexInv, InvOneHolder, PTL

\* The row of a memory says INDEXED only when its document is in the index.
THEOREM AssistantIndexedIsSearchable == Spec => []IndexedIsSearchable
  <1>1. IndexInv => IndexedIsSearchable
    BY DEF IndexInv
  <1> QED BY <1>1, AssistantIndexInv, PTL

\* A claim ends by the mark of its holder or by being taken over, and what is indexed
\* stays so, in every step of the assistant.
THEOREM AssistantOnlyTheHolderSettles == Spec => OnlyTheHolderSettles
  <1>1. IndexInv /\ [Next]_vars => [\A m \in Memories : Settles(m)]_indexVars
    BY AssistantStepsIndex, IndexNextSettles
  <1>2. [\A m \in Memories : Settles(m)]_indexVars
        => [\A m \in Memories :
              /\ rows[m].status = "CLAIMED" /\ rows'[m].status \notin {"CLAIMED"}
                 => \E d \in Dispatchers : m \in HeldBy(d) /\ disp'[d].batch # disp[d].batch
              /\ rows[m].status = "INDEXED" => rows'[m].status = "INDEXED"]_indexVars
    BY DEF Settles
  <1> QED BY <1>1, <1>2, AssistantIndexInv, PTL DEF Spec, OnlyTheHolderSettles

\* The safety half of IndexDelivers: in every step of the assistant a stored memory stays
\* owed to the search until the mark of its holder settles it; nothing forgets one.
THEOREM AssistantOwesMemories == Spec => [][Owed!Next]_IndexObligation
  <1>1. IndexInv /\ IndexInv' /\ [Next]_vars => [Owed!Next]_IndexObligation
    BY AssistantStepsIndex, IndexNextOwes
  <1> QED BY <1>1, AssistantIndexInv, PTL DEF Spec

-----------------------------------------------------------------------------
(* The sockets.                                                             *)

Lines == {"chunk", "error", "unavailable", "completion"}

\* Between two answers the client has got chunks, and after them nothing or one
\* completion; the completion is missing only if there was no question or no client.
Completed(sk) ==
  /\ \A i \in 1 .. Len(sk.out) - 1 : sk.out[i] = "chunk"
  /\ sk.out # <<>> => sk.out[Len(sk.out)] \in {"chunk", "completion"}
  /\ sk.here /\ sk.turn # 0 => sk.out # <<>> /\ sk.out[Len(sk.out)] = "completion"

\* After the connection is closed, an answer that was given up ends with the one
\* completion it has.
GivenUp(sk) ==
  "unavailable" \in {sk.out[i] : i \in 1 .. Len(sk.out)}
    => /\ sk.out[Len(sk.out)] = "completion"
       /\ \A i \in 1 .. Len(sk.out) - 1 : sk.out[i] # "completion"

SocketInv(sk) ==
  /\ sk \in Socket
  /\ sk.state = "streaming" => ~sk.stop /\ Chunks(sk.out)
  /\ sk.state = "reading" => Completed(sk)
  /\ sk.state = Closed => GivenUp(sk)

SocketsInv == /\ stopToken \in 0 .. MaxTokens
              /\ sock \in [Sockets -> Socket]
              /\ \A s \in Sockets : SocketInv(sock[s])

\* One socket changes.
LEMMA SocketStep ==
  ASSUME SocketsInv, NEW s \in Sockets, NEW sk, SocketInv(sk),
         sock' = [sock EXCEPT ![s] = sk], stopToken' \in 0 .. MaxTokens
  PROVE  SocketsInv'
  <1>1. sock \in [Sockets -> Socket] /\ sk \in Socket
    BY DEF SocketsInv, SocketInv
  <1>2. sock' \in [Sockets -> Socket] /\ \A r \in Sockets : sock'[r] = sk \/ sock'[r] = sock[r]
    BY <1>1
  <1>3. \A r \in Sockets : SocketInv(sock'[r])
    BY <1>2 DEF SocketsInv
  <1> QED BY <1>2, <1>3 DEF SocketsInv

\* What is not looked at by the rules of the answer may change freely.
LEMMA SocketUntouched ==
  ASSUME NEW sk, SocketInv(sk), NEW r \in Socket,
         r.state = sk.state, r.out = sk.out, r.turn = sk.turn,
         r.here => sk.here, r.stop => sk.stop \/ sk.state # "streaming"
  PROVE  SocketInv(r)
  BY DEF SocketInv, Completed, GivenUp

\* The rules of an answer that ends, with one more line or with the lines of an error.
LEMMA AnswerEnds ==
  ASSUME NEW out \in Seq(Lines), Chunks(out)
  PROVE  /\ Append(out, "completion") \in Seq(Lines)
         /\ Append(out, "completion") # <<>>
         /\ Len(Append(out, "completion")) = Len(out) + 1
         /\ Append(out, "completion")[Len(out) + 1] = "completion"
         /\ \A i \in 1 .. Len(out) : Append(out, "completion")[i] = "chunk"
         /\ Append(out, "chunk") \in Seq(Lines)
         /\ Chunks(Append(out, "chunk"))
  BY DEF Chunks, Lines

LEMMA AnswerGivenUp ==
  ASSUME NEW out \in Seq(Lines), Chunks(out), NEW told \in {<<>>, <<"error">>}
  PROVE  LET all == out \o told \o <<"unavailable", "completion">> IN
         /\ all \in Seq(Lines)
         /\ all[Len(all)] = "completion"
         /\ \A i \in 1 .. Len(all) - 1 : all[i] # "completion"
  <1>1. told \in Seq(Lines) /\ <<"unavailable", "completion">> \in Seq(Lines)
    <2>1. <<>> \in Seq(Lines) /\ <<"error">> \in Seq(Lines)
      BY DEF Lines
    <2>2. <<"unavailable", "completion">> \in Seq(Lines)
      BY DEF Lines
    <2> QED BY <2>1, <2>2
  <1>2. CASE told = <<>>
    <2>1. out \o told = out
      BY <1>2
    <2> QED BY <1>1, <2>1 DEF Chunks
  <1>3. CASE told = <<"error">>
    <2> DEFINE err == out \o told
    <2>1. /\ err \in Seq(Lines) /\ Len(err) = Len(out) + 1
          /\ \A i \in 1 .. Len(err) : err[i] # "completion"
      BY <1>1, <1>3 DEF Chunks
    <2> HIDE DEF err
    <2>2. LET all == err \o <<"unavailable", "completion">> IN
          /\ all \in Seq(Lines)
          /\ all[Len(all)] = "completion"
          /\ \A i \in 1 .. Len(all) - 1 : all[i] # "completion"
      BY <1>1, <2>1
    <2> QED BY <2>2 DEF err
  <1> QED BY <1>2, <1>3

LEMMA GiveUpInv ==
  ASSUME NEW sk, SocketInv(sk), sk.state = "streaming", NEW told \in {<<>>, <<"error">>}
  PROVE  SocketInv(GiveUp(sk, told))
  <1> DEFINE all == sk.out \o told \o <<"unavailable", "completion">>
             r   == GiveUp(sk, told)
  <1>1. sk \in Socket /\ sk.out \in Seq(Lines) /\ Chunks(sk.out)
    BY DEF SocketInv, Socket, Lines
  <1>2. /\ all \in Seq(Lines) /\ all[Len(all)] = "completion"
        /\ \A i \in 1 .. Len(all) - 1 : all[i] # "completion"
    BY <1>1, AnswerGivenUp
  <1> HIDE DEF all
  <1>5. r = [sk EXCEPT !.state = Closed, !.lines = <<>>, !.here = FALSE,
                      !.out = IF sk.here THEN all ELSE sk.out]
    BY DEF GiveUp, all
  <1> HIDE DEF r
  <1>3. r \in Socket /\ r.state = Closed /\ r.out \in {all, sk.out}
    <2> DEFINE o == IF sk.here THEN all ELSE sk.out
    <2>1. o \in Seq(Lines) /\ o \in {all, sk.out}
      BY <1>1, <1>2
    <2>2. r = [sk EXCEPT !.state = Closed, !.lines = <<>>, !.here = FALSE, !.out = o]
      BY <1>5
    <2> HIDE DEF o
    <2>3. <<>> \in Seq({"chunk", "error", "done"})
      OBVIOUS
    <2> QED BY <1>1, <2>1, <2>2, <2>3 DEF Socket, Lines, Closed
  <1>4. GivenUp(r)
    BY <1>1, <1>2, <1>3 DEF GivenUp, Chunks
  <1> QED BY <1>3, <1>4 DEF SocketInv, Closed, r

LEMMA SocketFacts ==
  ASSUME SocketsInv, NEW s \in Sockets
  PROVE  /\ sock \in [Sockets -> Socket] /\ sock[s] \in Socket /\ SocketInv(sock[s])
         /\ sock[s].out \in Seq(Lines)
         /\ sock[s].inbox \in Seq(Message)
         /\ sock[s].lines \in Seq({"chunk", "error", "done"})
         /\ stopToken \in 0 .. MaxTokens /\ MaxTokens \in Nat
  BY ChatSocketAssumption DEF SocketsInv, SocketInv, Socket, Lines

LEMMA ClientInv ==
  ASSUME SocketsInv, NEW s \in Sockets,
         GetWebsocketStopToken(s) \/ Send(s) \/ Leave(s)
  PROVE  SocketsInv'
  <1>1. CASE GetWebsocketStopToken(s)
    <2> DEFINE r == [sock[s] EXCEPT !.held = stopToken + 1]
    <2>1. sock' = [sock EXCEPT ![s] = r] /\ stopToken' \in 0 .. MaxTokens
      BY <1>1, SocketFacts DEF GetWebsocketStopToken
    <2>4. stopToken + 1 \in 0 .. MaxTokens
      BY <1>1, SocketFacts DEF GetWebsocketStopToken
    <2>2. r \in Socket
      BY <2>4, SocketFacts DEF Socket
    <2>3. SocketInv(r)
      BY <2>2, SocketFacts, SocketUntouched DEF Socket
    <2> HIDE DEF r
    <2> QED BY <2>1, <2>3, SocketStep
  <1>2. CASE Send(s)
    <2>1. PICK msg \in {[kind |-> "ask", token |-> 0], [kind |-> "stop", token |-> sock[s].held]} :
            sock' = [sock EXCEPT ![s].inbox = Append(@, msg)]
      BY <1>2 DEF Send
    <2>2. msg \in Message
      BY SocketFacts DEF Message, Socket
    <2> DEFINE box == Append(sock[s].inbox, msg)
               r   == [sock[s] EXCEPT !.inbox = box]
    <2>3. sock' = [sock EXCEPT ![s] = r] /\ stopToken' \in 0 .. MaxTokens
      BY <1>2, <2>1, SocketFacts DEF Send
    <2>4. box \in Seq(Message)
      BY <2>2, SocketFacts
    <2> HIDE DEF box
    <2>5. r \in Socket
      BY <2>4, SocketFacts DEF Socket
    <2>6. SocketInv(r)
      BY <2>5, SocketFacts, SocketUntouched DEF Socket
    <2> HIDE DEF r
    <2> QED BY <2>3, <2>6, SocketStep
  <1>3. CASE Leave(s)
    <2> DEFINE r == [sock[s] EXCEPT !.here = FALSE]
    <2>1. sock' = [sock EXCEPT ![s] = r] /\ stopToken' \in 0 .. MaxTokens
      BY <1>3, SocketFacts DEF Leave
    <2>2. r \in Socket
      BY SocketFacts DEF Socket
    <2>3. SocketInv(r)
      BY <2>2, SocketFacts, SocketUntouched DEF Socket
    <2> HIDE DEF r
    <2> QED BY <2>1, <2>3, SocketStep
  <1> QED BY <1>1, <1>2, <1>3

\* A message is read: a stop sets the flag, a question clears it and the answer begins.
LEMMA ReadInv ==
  ASSUME SocketsInv, NEW s \in Sockets, NEW t \in Turns,
         ReadStop(s) \/ ReadQuestion(s, t)
  PROVE  SocketsInv'
  <1> DEFINE box == Tail(sock[s].inbox)
  <1>1. sock[s].inbox # <<>> /\ sock[s].state = "reading" /\ UNCHANGED stopToken
    BY DEF ReadStop, ReadQuestion
  <1>2. box \in Seq(Message) /\ t \in Nat
    BY <1>1, SocketFacts DEF Turns
  <1>3. CASE ReadStop(s)
    <2> DEFINE r == [sock[s] EXCEPT !.inbox = box, !.stop = TRUE]
    <2>1. sock' = [sock EXCEPT ![s] = r]
      BY <1>3, SocketFacts DEF ReadStop
    <2> HIDE DEF box
    <2>2. r \in Socket
      BY <1>2, SocketFacts DEF Socket
    <2>3. SocketInv(r)
      BY <1>1, <2>2, SocketFacts, SocketUntouched DEF Socket
    <2> HIDE DEF r
    <2> QED BY <1>1, <2>1, <2>3, SocketFacts, SocketStep
  <1>4. CASE ReadQuestion(s, t)
    <2> DEFINE r == [sock[s] EXCEPT !.inbox = box, !.stop = FALSE, !.state = "streaming",
                                    !.turn = t, !.out = <<>>, !.lines = <<>>]
    <2>1. sock' = [sock EXCEPT ![s] = r]
      BY <1>4, SocketFacts DEF ReadQuestion
    <2> HIDE DEF box
    <2>5. <<>> \in Seq({"chunk", "error", "unavailable", "completion"})
          /\ <<>> \in Seq({"chunk", "error", "done"})
      OBVIOUS
    <2>2. r \in Socket
      BY <1>2, <2>5, SocketFacts DEF Socket
    <2>3. r.state = "streaming" /\ r.out = <<>> /\ ~r.stop
      BY SocketFacts DEF Socket
    <2>4. SocketInv(r)
      BY <2>2, <2>3 DEF SocketInv, Chunks, Closed
    <2> HIDE DEF r
    <2> QED BY <1>1, <2>1, <2>4, SocketFacts, SocketStep
  <1> QED BY <1>3, <1>4

LEMMA ReadEndsInv ==
  ASSUME SocketsInv, NEW s \in Sockets, ReadEnds(s)
  PROVE  SocketsInv'
  <1> DEFINE r == [sock[s] EXCEPT !.state = Closed]
  <1>1. sock' = [sock EXCEPT ![s] = r] /\ sock[s].state = "reading" /\ UNCHANGED stopToken
    BY SocketFacts DEF ReadEnds
  <1>2. r \in Socket /\ r.state = Closed /\ r.out = sock[s].out
    BY SocketFacts DEF Socket
  <1>3. \A i \in 1 .. Len(r.out) : r.out[i] \in {"chunk", "completion"}
    <2>1. Completed(sock[s]) /\ sock[s].out \in Seq(Lines)
      BY <1>1, SocketFacts DEF SocketInv
    <2> HIDE DEF r
    <2> QED BY <1>2, <2>1 DEF Completed
  <1> HIDE DEF r
  <1>4. SocketInv(r)
    BY <1>2, <1>3 DEF SocketInv, GivenUp, Closed
  <1> QED BY <1>1, <1>4, SocketFacts, SocketStep DEF r

LEMMA RelayChunkInv ==
  ASSUME SocketsInv, NEW s \in Sockets, RelayChunk(s)
  PROVE  SocketsInv'
  <1> DEFINE out == Append(sock[s].out, "chunk")
             more == Tail(sock[s].lines)
             r   == [sock[s] EXCEPT !.lines = more, !.out = out]
  <1>1. sock[s].state = "streaming" /\ sock[s].lines # <<>> /\ UNCHANGED stopToken
    BY DEF RelayChunk, Streams
  <1>2. ~sock[s].stop /\ Chunks(sock[s].out)
    BY <1>1, SocketFacts DEF SocketInv
  <1>3. sock' = [sock EXCEPT ![s] = r]
    <2>1. sock' = [sock EXCEPT ![s] =
            IF sock[s].stop
            THEN [sock[s] EXCEPT !.state = "reading", !.out = Append(sock[s].out, "completion")]
            ELSE r]
      BY Zenon DEF RelayChunk
    <2> HIDE DEF r
    <2> QED BY <1>2, <2>1
  <1>4. out \in Seq(Lines) /\ Chunks(out)
    BY <1>2, SocketFacts, AnswerEnds
  <1>5. more \in Seq({"chunk", "error", "done"})
    BY <1>1, SocketFacts
  <1> HIDE DEF out, more
  <1>6. /\ r \in Socket /\ r.state = "streaming" /\ ~r.stop /\ r.out = out
    BY <1>1, <1>2, <1>4, <1>5, SocketFacts DEF Socket, Lines
  <1> HIDE DEF r
  <1>7. SocketInv(r)
    BY <1>4, <1>6 DEF SocketInv, Closed
  <1> QED BY <1>1, <1>3, <1>7, SocketFacts, SocketStep

LEMMA RelayDoneInv ==
  ASSUME SocketsInv, NEW s \in Sockets, RelayDone(s)
  PROVE  SocketsInv'
  <1> DEFINE out == IF sock[s].here THEN Append(sock[s].out, "completion") ELSE sock[s].out
             r   == [sock[s] EXCEPT !.state = "reading", !.lines = <<>>, !.out = out]
  <1>1. sock[s].state = "streaming" /\ UNCHANGED stopToken
    BY DEF RelayDone, Streams
  <1>2. Chunks(sock[s].out) /\ sock[s].out \in Seq(Lines)
    BY <1>1, SocketFacts DEF SocketInv
  <1>3. sock' = [sock EXCEPT ![s] = r]
    BY SocketFacts DEF RelayDone
  <1>4. /\ out \in Seq(Lines)
        /\ \A i \in 1 .. Len(out) - 1 : out[i] = "chunk"
        /\ out # <<>> => out[Len(out)] \in {"chunk", "completion"}
        /\ sock[s].here => out # <<>> /\ out[Len(out)] = "completion"
    <2>1. CASE sock[s].here
      <3> DEFINE done == Append(sock[s].out, "completion")
      <3>1. /\ done \in Seq(Lines) /\ done # <<>> /\ Len(done) = Len(sock[s].out) + 1
            /\ done[Len(sock[s].out) + 1] = "completion"
            /\ \A i \in 1 .. Len(sock[s].out) : done[i] = "chunk"
        BY <1>2, AnswerEnds
      <3>2. Len(sock[s].out) \in Nat
        BY <1>2
      <3>3. out = done
        BY <2>1
      <3> HIDE DEF done, out
      <3> QED BY <3>1, <3>2, <3>3
    <2>2. CASE ~sock[s].here
      BY <1>2, <2>2 DEF Chunks
    <2> QED BY <2>1, <2>2
  <1> HIDE DEF out
  <1>5. <<>> \in Seq({"chunk", "error", "done"})
    OBVIOUS
  <1>6. /\ r \in Socket /\ r.state = "reading" /\ r.out = out /\ r.here = sock[s].here
    BY <1>4, <1>5, SocketFacts DEF Socket, Lines
  <1> HIDE DEF r
  <1>7. SocketInv(r)
    BY <1>4, <1>6 DEF SocketInv, Completed, Closed
  <1> QED BY <1>1, <1>3, <1>7, SocketFacts, SocketStep

LEMMA AnswerBreaksInv ==
  ASSUME SocketsInv, NEW s \in Sockets, RelayError(s) \/ StreamBreaks(s)
  PROVE  SocketsInv'
  <1>1. sock[s].state = "streaming" /\ UNCHANGED stopToken
    BY DEF RelayError, StreamBreaks, Streams
  <1>2. PICK told \in {<<>>, <<"error">>} : sock' = [sock EXCEPT ![s] = GiveUp(sock[s], told)]
    BY DEF RelayError, StreamBreaks
  <1>3. SocketInv(GiveUp(sock[s], told))
    BY <1>1, SocketFacts, GiveUpInv
  <1> QED BY <1>1, <1>2, <1>3, SocketFacts, SocketStep

\* The orchestrator streams a line, or nobody listens.
LEMMA StreamInv ==
  ASSUME SocketsInv, NEW t, NEW line \in {"chunk", "error", "done"}, Stream(t, line)
  PROVE  SocketsInv'
  <1>1. CASE UNCHANGED socketVars
    BY <1>1 DEF SocketsInv, socketVars
  <1>2. CASE ~UNCHANGED socketVars
    <2>1. PICK s \in Sockets : Emit(s, line) /\ UNCHANGED stopToken
      BY <1>2 DEF Stream
    <2> DEFINE more == Append(sock[s].lines, line)
               r    == [sock[s] EXCEPT !.lines = more]
    <2>2. sock' = [sock EXCEPT ![s] = r]
      BY <2>1, SocketFacts DEF Emit
    <2>3. more \in Seq({"chunk", "error", "done"})
      BY SocketFacts
    <2> HIDE DEF more
    <2>4. r \in Socket
      BY <2>3, SocketFacts DEF Socket
    <2>5. SocketInv(r)
      BY <2>4, SocketFacts, SocketUntouched DEF Socket
    <2> HIDE DEF r
    <2> QED BY <2>1, <2>2, <2>5, SocketFacts, SocketStep
  <1> QED BY <1>1, <1>2

LEMMA InitSocketsInv == Init => SocketsInv
  <1> SUFFICES ASSUME Init PROVE SocketsInv
    OBVIOUS
  <1>1. stopToken \in 0 .. MaxTokens
    BY ChatSocketAssumption DEF Init, InitOneSocket, InitManySockets, InitRemembering, InitBacklog
  <1>2. sock \in [Sockets -> {Fresh, Asked, Unused}]
    BY DEF Init, InitOneSocket, InitManySockets, InitRemembering, InitBacklog, InitSockets
  <1>3. [kind |-> "ask", token |-> 0] \in Message
    BY ChatSocketAssumption DEF Message
  <1>4. /\ <<[kind |-> "ask", token |-> 0]>> \in Seq(Message) /\ <<>> \in Seq(Message)
        /\ <<>> \in Seq({"chunk", "error", "done"})
        /\ <<>> \in Seq({"chunk", "error", "unavailable", "completion"})
    BY <1>3
  <1>8. 0 \in Nat /\ 0 \in 0 .. MaxTokens
    BY ChatSocketAssumption
  <1>9. Fresh \in Socket /\ Fresh.out = <<>> /\ Fresh.turn = 0 /\ Fresh.state = "reading"
    BY <1>4, <1>8 DEF Fresh, Socket
  <1>10. Asked \in Socket /\ Asked.out = <<>> /\ Asked.turn = 0 /\ Asked.state = "reading"
    BY <1>4, <1>9 DEF Asked, Socket
  <1>11. Unused \in Socket /\ Unused.out = <<>> /\ Unused.turn = 0 /\ Unused.state = Closed
    BY <1>9 DEF Unused, Socket, Closed
  <1>5. Fresh \in Socket /\ Asked \in Socket /\ Unused \in Socket
    BY <1>9, <1>10, <1>11
  <1>6. \A sk \in {Fresh, Asked, Unused} : sk.out = <<>> /\ sk.turn = 0 /\ sk.state # "streaming"
    BY <1>9, <1>10, <1>11 DEF Closed
  <1>7. \A sk \in {Fresh, Asked, Unused} : SocketInv(sk)
    BY <1>5, <1>6 DEF SocketInv, Completed, GivenUp, Closed
  <1> QED BY <1>1, <1>2, <1>5, <1>7 DEF SocketsInv

LEMMA NextSocketsInv ==
  ASSUME SocketsInv, [Next]_vars
  PROVE  SocketsInv'
  <1>1. CASE UNCHANGED socketVars
    BY <1>1 DEF SocketsInv, socketVars
  <1>2. ASSUME NEW s \in Sockets, Question(s)
        PROVE  SocketsInv'
    BY <1>2, ReadInv DEF Question
  <1>3. ASSUME NEW s \in Sockets, SocketOnly(s)
        PROVE  SocketsInv'
    <2>1. CASE ReadStop(s)
      <3>1. 1 \in Turns
        BY ConversationAssumption DEF Turns
      <3> QED BY <2>1, <3>1, ReadInv
    <2> QED BY <1>3, <2>1, ClientInv, ReadEndsInv, AnswerBreaksInv, RelayDoneInv DEF SocketOnly
  <1>4. ASSUME NEW s \in Sockets, PassChunk(s) \/ StreamEndsEarly(s)
        PROVE  SocketsInv'
    BY <1>4, RelayChunkInv, AnswerBreaksInv DEF PassChunk, StreamEndsEarly
  <1>5. ASSUME NEW t \in Turns, \/ Answer(t) \/ AnswerNothing(t) \/ PersistTimesOut(t)
                                \/ \E storing \in BOOLEAN : Remember(t, storing)
        PROVE  SocketsInv'
    BY <1>5, StreamInv DEF Answer, AnswerNothing, PersistTimesOut, Remember
  <1>6. ASSUME NEW t \in Turns, StepFails(t)
        PROVE  SocketsInv'
    <2>1. \/ UNCHANGED socketVars
          \/ Stream(t, "done") \/ Stream(t, "error")
      BY <1>6 DEF StepFails
    <2> QED BY <1>1, <2>1, StreamInv
  <1>7. ASSUME NEW t \in Turns, LoadAndPersist(t)
        PROVE  SocketsInv'
    BY <1>1, <1>7 DEF LoadAndPersist
  <1>8. UNCHANGED vars => UNCHANGED socketVars
    BY DEF vars
  <1> QED BY <1>1, <1>2, <1>3, <1>4, <1>5, <1>6, <1>7, <1>8 DEF Next, TurnStep

LEMMA AssistantSocketsInv == Spec => []SocketsInv
  BY InitSocketsInv, NextSocketsInv, PTL DEF Spec

\* A client that stays gets one completion for each question, after its last chunk,
\* and after an error the completion that follows it is the last line of all.
THEOREM AssistantOneCompletion == Spec => []OneCompletion
  <1>1. SocketsInv => OneCompletion
    <2> SUFFICES ASSUME SocketsInv, NEW s \in Sockets
                 PROVE  LET out == sock[s].out IN
                        /\ sock[s].state = "streaming" => Chunks(out)
                        /\ sock[s].state = "reading" /\ sock[s].here /\ sock[s].turn # 0
                             => out # <<>> /\ Last(out) = "completion" /\ Chunks(Front(out))
                        /\ sock[s].state = Closed /\ "unavailable" \in ToSet(out)
                             => /\ Last(out) = "completion"
                                /\ \A i \in 1 .. Len(out) :
                                      out[i] = "completion" => i = Len(out)
      BY DEF OneCompletion
    <2> DEFINE out == sock[s].out
    <2>1. SocketInv(sock[s]) /\ out \in Seq(Lines) /\ Len(out) \in Nat
      BY SocketFacts
    <2>2. CASE sock[s].state = "streaming"
      BY <2>1, <2>2 DEF SocketInv, Closed
    <2>3. CASE sock[s].state = "reading"
      <3>1. Completed(sock[s])
        BY <2>1, <2>3 DEF SocketInv
      <3>2. ASSUME out # <<>>
            PROVE  Chunks(Front(out))
        <4>1. /\ Front(out) = SubSeq(out, 1, Len(out) - 1) /\ Len(out) - 1 \in Nat
              /\ Len(Front(out)) = Len(out) - 1
              /\ \A i \in 1 .. Len(out) - 1 : Front(out)[i] = out[i]
          BY <2>1, <3>2 DEF Front
        <4> QED BY <3>1, <4>1 DEF Chunks, Completed
      <3> QED BY <2>3, <3>1, <3>2 DEF Completed, Last, Closed
    <2>4. CASE sock[s].state = Closed
      <3>1. GivenUp(sock[s])
        BY <2>1, <2>4 DEF SocketInv
      <3> QED BY <2>1, <2>4, <3>1 DEF GivenUp, Last, ToSet, Closed
    <2> QED BY <2>1, <2>2, <2>3, <2>4 DEF SocketInv, Socket
  <1> QED BY <1>1, AssistantSocketsInv, PTL

-----------------------------------------------------------------------------
(* The turns: what they read, store and leave in the working memory.        *)

\* The turns whose history was written to conversation c.
StoredIn(c) == {k \in Turns : turn[k].stored /\ turn[k].conv = c}

\* A conversation that a turn has, or reads, was created.
Created(c) == c \in 1 .. convs

\* What the steps of a turn rely on.
TurnIsSound(t) ==
  LET tr == turn[t] IN
  /\ tr.pc = "new" => tr = NewTurn
  /\ tr.pc \in {"load", "create", "history"} => tr.phase \in {"session", "prompt"}
  /\ tr.pc \in {"snapshot", "summarize"} => tr.phase \in {"prompt", "persist"}
  /\ tr.pc \in {"answer", "persist"} => tr.phase = "prompt"
  /\ tr.pc = "remember" => tr.phase = "persist"
  /\ tr.pc # "over" => (tr.stored <=> tr.phase = "persist") /\ ~tr.saved
  /\ tr.saved => tr.stored
  /\ tr.stored => Created(tr.conv)
  /\ tr.pc \in {"history", "snapshot", "summarize", "answer", "persist", "remember"} => Created(tr.conv)
  /\ tr.pc \in {"load", "create"} /\ tr.phase = "prompt" => Created(tr.conv)
  /\ tr.pc = "history" => Created(tr.from)
  /\ tr.pc = "summarize" => Len(Subject(t)) > 0

\* Turns begin in their order, and one that stays alone is the last one.
TurnsBeginInOrder ==
  /\ ~At(1, "new")
  /\ \A k, t \in Turns : k < t /\ At(k, "new") => At(t, "new")
  /\ \A k, t \in Turns : k > t /\ t \in UnderWay /\ turn[t].alone => At(k, "new")

\* A history has no turn twice, only turns that were stored, and never the reader's own.
Distinct(h) == \A i, j \in 1 .. Len(h) : i # j => h[i] # h[j]

HistoriesAreStored ==
  /\ \A c \in ConvIds : /\ Distinct(history[c])
                        /\ \A i \in 1 .. Len(history[c]) : turn[history[c][i]].stored
                        /\ ~Created(c) => history[c] = <<>>
  /\ \A t \in Turns : LET h == turn[t].hist IN
                      /\ Distinct(h)
                      /\ \A i \in 1 .. Len(h) : turn[h[i]].stored /\ h[i] # t

\* The turns that may still create a conversation, when they load their session the
\* first time, and the second time.
CreatesFirst(tr) == \/ tr.pc = "new"
                    \/ tr.phase = "session" /\ tr.pc \in {"load", "create"}
CreatesAgain(tr) == \/ tr.pc = "new"
                    \/ tr.phase = "session" /\ tr.pc \in {"load", "create", "history"}
                    \/ tr.phase = "prompt" /\ tr.pc \in {"load", "create"}

MayCreateFirst == {t \in Turns : CreatesFirst(turn[t])}
MayCreateAgain == {t \in Turns : CreatesAgain(turn[t])}

ConversationsAreBounded ==
  convs + Cardinality(MayCreateFirst) + Cardinality(MayCreateAgain) <= 2 * NumTurns

\* The last turn that began, when no two turns overlapped so far.
Lone(t) == /\ ~At(t, "new")
           /\ \A k \in Turns : k > t => At(k, "new")
           /\ OneAfterTheOther(t)

\* A history that has every turn that was stored in conversation c.
IsWhole(c) == \A k \in StoredIn(c) : \E i \in 1 .. Len(history[c]) : history[c][i] = k

\* What the turns up to a lone one have left.
OthersAreOver(t)   == \A k \in 1 .. t - 1 : At(k, "over")
HistoriesAreKept   == \A c \in ConvIds : IsRecentPart(history[c], StoredIn(c))
SnapshotsAreTrue   == \A c \in ConvIds :
                        snapshot[c] # NoSnapshot /\ IsWhole(c) =>
                          /\ snapshot[c].count \in 1 .. Len(history[c])
                          /\ snapshot[c].last = history[c][snapshot[c].count]

\* What a lone turn has read and written.
ReadsItsHistory(t) ==
  LET tr == turn[t] IN
  /\ tr.phase = "prompt" /\ tr.pc \in {"load", "create"} => history[tr.conv] = <<>> /\ current \in {0, tr.conv}
  /\ tr.pc = "history" /\ tr.phase = "session" => tr.from = tr.conv /\ current \in {0, tr.conv}
  /\ tr.pc = "history" => tr.from = tr.conv \/ (history[tr.from] = <<>> /\ history[tr.conv] = <<>>)
  /\ tr.pc \in {"snapshot", "summarize", "answer", "persist"} /\ ~tr.stored => tr.hist = history[tr.conv]
  /\ tr.stored => /\ IsRecentPart(tr.hist, StoredIn(tr.conv) \ {t})
                  /\ history[tr.conv] = Recent(Append(tr.hist, t))

RefreshesItsSnapshot(t) ==
  LET tr == turn[t] IN
  /\ tr.pc = "summarize" /\ tr.absent => snapshot[tr.conv] = NoSnapshot
  /\ tr.pc = "remember" \/ tr.saved =>
       \/ Len(tr.hist) + 1 < WorkingTrigger
       \/ /\ snapshot[tr.conv] # NoSnapshot
          /\ Len(tr.hist) + 1 - snapshot[tr.conv].count < RefreshAfter

LoneTurnsBuild ==
  \A t \in Turns : Lone(t) =>
    /\ OthersAreOver(t) /\ HistoriesAreKept /\ SnapshotsAreTrue
    /\ ReadsItsHistory(t) /\ RefreshesItsSnapshot(t)

ConversationTypes ==
  /\ convs \in 0 .. 2 * NumTurns /\ current \in 0 .. convs
  /\ history \in [ConvIds -> Seq(Turns)]
  /\ snapshot \in [ConvIds -> [count : 0 .. NumTurns, last : 0 .. NumTurns]]
  /\ turn \in [Turns -> TurnState]

ConversationInv ==
  /\ ConversationTypes
  /\ \A t \in Turns : TurnIsSound(t)
  /\ TurnsBeginInOrder
  /\ HistoriesAreStored
  /\ ConversationsAreBounded
  /\ LoneTurnsBuild
\* Sequences of turns.
LEMMA TurnSeq ==
  ASSUME NEW h \in Seq(Turns)
  PROVE  /\ Len(h) \in Nat /\ (Len(h) = 0 <=> h = <<>>)
         /\ \A i \in 1 .. Len(h) : h[i] \in Turns /\ h[i] \in 1 .. NumTurns
         /\ NumTurns \in Nat \ {0} /\ HistoryCap \in Nat \ {0}
         /\ WorkingTrigger \in Nat \ {0} /\ RefreshAfter \in Nat \ {0}
  BY ConversationAssumption DEF Turns

LEMMA AppendTurn ==
  ASSUME NEW h \in Seq(Turns), NEW t \in Turns
  PROVE  /\ Append(h, t) \in Seq(Turns) /\ Len(Append(h, t)) = Len(h) + 1
         /\ \A i \in 1 .. Len(h) : Append(h, t)[i] = h[i]
         /\ Append(h, t)[Len(h) + 1] = t
  OBVIOUS

\* The last HistoryCap of them.
LEMMA RecentSeq ==
  ASSUME NEW h \in Seq(Turns)
  PROVE  /\ Recent(h) \in Seq(Turns)
         /\ Len(h) <= HistoryCap => Recent(h) = h
         /\ Len(h) > HistoryCap => /\ Len(Recent(h)) = HistoryCap
                                   /\ \A i \in 1 .. HistoryCap :
                                        Recent(h)[i] = h[i + (Len(h) - HistoryCap)]
  <1>1. Len(h) \in Nat /\ HistoryCap \in Nat \ {0}
    BY TurnSeq
  <1>2. CASE Len(h) <= HistoryCap
    BY <1>1, <1>2 DEF Recent
  <1>3. CASE Len(h) > HistoryCap
    <2> DEFINE a == Len(h) - HistoryCap + 1
    <2>1. Recent(h) = SubSeq(h, a, Len(h)) /\ a \in 1 .. Len(h) /\ Len(h) - a + 1 = HistoryCap
      BY <1>1, <1>3 DEF Recent
    <2>2. /\ SubSeq(h, a, Len(h)) \in Seq(Turns)
          /\ Len(SubSeq(h, a, Len(h))) = Len(h) - a + 1
          /\ \A i \in 1 .. Len(h) - a + 1 : SubSeq(h, a, Len(h))[i] = h[a + i - 1]
      <3> HIDE DEF a
      <3> QED BY <1>1, <2>1
    <2>3. \A i \in 1 .. HistoryCap : a + i - 1 = i + (Len(h) - HistoryCap)
      BY <1>1
    <2> HIDE DEF a
    <2> QED BY <1>3, <2>1, <2>2, <2>3
  <1> QED BY <1>1, <1>2, <1>3

\* A history without repetitions is not longer than there are turns.
LEMMA DistinctIsShort ==
  ASSUME NEW h \in Seq(Turns), Distinct(h)
  PROVE  Len(h) <= NumTurns
  <1> SUFFICES ASSUME Len(h) > NumTurns PROVE FALSE
    BY TurnSeq
  <1>1. /\ IsFiniteSet(1 .. Len(h)) /\ Cardinality(1 .. Len(h)) = Len(h)
        /\ IsFiniteSet(Turns) /\ Cardinality(Turns) = NumTurns
    <2>1. Len(h) \in Int /\ NumTurns \in Int /\ 1 \in Int /\ Len(h) > 0 /\ NumTurns > 0
      BY TurnSeq
    <2>2. IsFiniteSet(1 .. Len(h)) /\ Cardinality(1 .. Len(h)) = Len(h)
      <3> DEFINE n == Len(h)
      <3>1. n \in Int /\ 1 \in Int /\ ~(1 > n) /\ n - 1 + 1 = n
        BY <2>1
      <3> HIDE DEF n
      <3>2. IsFiniteSet(1 .. n) /\ Cardinality(1 .. n) = n
        BY <3>1, FS_Interval
      <3> QED BY <3>2 DEF n
    <2>3. IsFiniteSet(1 .. NumTurns) /\ Cardinality(1 .. NumTurns) = NumTurns
      BY <2>1, FS_Interval
    <2> QED BY <2>2, <2>3 DEF Turns
  <1>2. h \in [1 .. Len(h) -> Turns]
    OBVIOUS
  <1>3. \E i, j \in 1 .. Len(h) : i # j /\ h[i] = h[j]
    BY <1>1, <1>2, FS_PigeonHole
  <1> QED BY <1>3 DEF Distinct

LEMMA DistinctAppend ==
  ASSUME NEW h \in Seq(Turns), Distinct(h), NEW t \in Turns,
         \A i \in 1 .. Len(h) : h[i] # t
  PROVE  Distinct(Append(h, t)) /\ Distinct(Recent(Append(h, t)))
  <1> DEFINE g == Append(h, t)
  <1>1. /\ g \in Seq(Turns) /\ Len(g) = Len(h) + 1 /\ Len(h) \in Nat
        /\ (\A i \in 1 .. Len(h) : g[i] = h[i]) /\ g[Len(h) + 1] = t
    BY AppendTurn, TurnSeq
  <1> HIDE DEF g
  <1>2. Distinct(g)
    BY <1>1 DEF Distinct
  <1>3. HistoryCap \in Nat /\ Len(g) \in Nat
    BY <1>1, TurnSeq
  <1>4. CASE Len(g) <= HistoryCap
    BY <1>1, <1>2, <1>4, RecentSeq DEF g
  <1>5. CASE Len(g) > HistoryCap
    <2>1. Len(Recent(g)) = HistoryCap
          /\ \A i \in 1 .. HistoryCap : Recent(g)[i] = g[i + (Len(g) - HistoryCap)]
      BY <1>1, <1>5, RecentSeq
    <2>2. Distinct(Recent(g))
      <3> SUFFICES ASSUME NEW i \in 1 .. HistoryCap, NEW j \in 1 .. HistoryCap, i # j
                   PROVE  Recent(g)[i] # Recent(g)[j]
        BY <2>1 DEF Distinct
      <3>1. /\ i + (Len(g) - HistoryCap) \in 1 .. Len(g)
            /\ j + (Len(g) - HistoryCap) \in 1 .. Len(g)
            /\ i + (Len(g) - HistoryCap) # j + (Len(g) - HistoryCap)
        BY <1>3, <1>5
      <3> QED BY <1>2, <2>1, <3>1 DEF Distinct
    <2> QED BY <1>2, <2>2 DEF g
  <1> QED BY <1>3, <1>4, <1>5

\* What a history that is stored with the turn contains.
LEMMA RecentMembers ==
  ASSUME NEW h \in Seq(Turns), NEW t \in Turns
  PROVE  LET g == Append(h, t) IN
         /\ Len(Recent(g)) \in Nat
         /\ \A i \in 1 .. Len(Recent(g)) : \/ Recent(g)[i] = t
                                           \/ \E j \in 1 .. Len(h) : Recent(g)[i] = h[j]
  <1> DEFINE g == Append(h, t)
  <1>1. /\ g \in Seq(Turns) /\ Len(g) = Len(h) + 1 /\ Len(h) \in Nat
        /\ (\A i \in 1 .. Len(h) : g[i] = h[i]) /\ g[Len(h) + 1] = t
    BY AppendTurn, TurnSeq
  <1> HIDE DEF g
  <1>2. \A i \in 1 .. Len(g) : g[i] = t \/ \E j \in 1 .. Len(h) : g[i] = h[j]
    BY <1>1
  <1>3. /\ Len(Recent(g)) \in Nat
        /\ \A i \in 1 .. Len(Recent(g)) : \E j \in 1 .. Len(g) : Recent(g)[i] = g[j]
    <2>1. Len(g) \in Nat /\ HistoryCap \in Nat \ {0}
      BY <1>1, TurnSeq
    <2>2. CASE Len(g) <= HistoryCap
      BY <1>1, <2>1, <2>2, RecentSeq
    <2>3. CASE Len(g) > HistoryCap
      <3>1. /\ Len(Recent(g)) = HistoryCap
            /\ \A i \in 1 .. HistoryCap : Recent(g)[i] = g[i + (Len(g) - HistoryCap)]
        BY <1>1, <2>3, RecentSeq
      <3>2. \A i \in 1 .. HistoryCap : i + (Len(g) - HistoryCap) \in 1 .. Len(g)
        BY <2>1, <2>3
      <3> QED BY <2>1, <3>1, <3>2
    <2> QED BY <2>1, <2>2, <2>3
  <1> QED BY <1>2, <1>3 DEF g
\* The turn is appended to the recent part of what was stored before it.
LEMMA RecentOfPart ==
  ASSUME NEW h \in Seq(Turns), NEW t \in Turns, NEW all, IsRecentPart(h, all),
         \A k \in all : k \in Turns /\ k < t
  PROVE  IsRecentPart(Recent(Append(h, t)), all \cup {t})
  <1> DEFINE g == Append(h, t)
  <1>1. /\ g \in Seq(Turns) /\ Len(g) = Len(h) + 1 /\ Len(h) \in Nat /\ HistoryCap \in Nat \ {0}
        /\ (\A i \in 1 .. Len(h) : g[i] = h[i]) /\ g[Len(h) + 1] = t
        /\ \A i \in 1 .. Len(h) : h[i] \in Turns
    BY AppendTurn, TurnSeq
  <1>2. /\ Len(h) <= HistoryCap
        /\ \A i, j \in 1 .. Len(h) : i < j => h[i] < h[j]
        /\ \A i \in 1 .. Len(h) : h[i] \in all
        /\ \A k \in all : \/ \E i \in 1 .. Len(h) : h[i] = k
                          \/ Len(h) = HistoryCap /\ k < h[1]
    BY DEF IsRecentPart
  <1>3. \A i \in Nat : i <= 0 \/ i \in 1 .. Len(h) \/ i = Len(h) + 1 \/ i > Len(h) + 1
    BY <1>1
  <1>4. t \in Int /\ \A k \in Turns : k \in Int
    BY DEF Turns
  <1> HIDE DEF g
  <1>5. /\ \A i, j \in 1 .. Len(g) : i < j => g[i] < g[j]
        /\ \A i \in 1 .. Len(g) : g[i] \in all \cup {t}
    <2>1. \A i \in 1 .. Len(g) : i \in 1 .. Len(h) \/ i = Len(h) + 1
      BY <1>1
    <2>2. ASSUME NEW i \in 1 .. Len(g), NEW j \in 1 .. Len(g), i < j
          PROVE  g[i] < g[j]
      <3>1. i \in 1 .. Len(h)
        BY <1>1, <2>2
      <3>2. CASE j \in 1 .. Len(h)
        BY <1>1, <1>2, <2>2, <3>1, <3>2
      <3>3. CASE j = Len(h) + 1
        BY <1>1, <1>2, <3>1, <3>3
      <3> QED BY <2>1, <3>2, <3>3
    <2> QED BY <1>1, <1>2, <2>1, <2>2
  <1>6. CASE Len(h) < HistoryCap
    <2>1. Recent(g) = g /\ Len(g) <= HistoryCap
      BY <1>1, <1>6, RecentSeq
    <2>2. \A k \in all \cup {t} : \E i \in 1 .. Len(g) : g[i] = k
      <3>1. 1 .. Len(h) \subseteq 1 .. Len(g) /\ Len(h) + 1 \in 1 .. Len(g)
        BY <1>1
      <3>2. \A k \in all : \E i \in 1 .. Len(h) : h[i] = k
        BY <1>1, <1>2, <1>6
      <3> QED BY <1>1, <3>1, <3>2
    <2> QED BY <1>5, <2>1, <2>2 DEF IsRecentPart, g
  <1>7. CASE Len(h) = HistoryCap
    <2> DEFINE r == Recent(g)
    <2>1. Len(r) = HistoryCap /\ \A i \in 1 .. HistoryCap : r[i] = g[i + (Len(g) - HistoryCap)]
      BY <1>1, <1>7, RecentSeq
    <2>2. \A i \in 1 .. HistoryCap : r[i] = g[i + 1] /\ i + 1 \in 1 .. Len(g)
      BY <1>1, <1>7, <2>1
    <2> HIDE DEF r
    <2>3. /\ \A i, j \in 1 .. Len(r) : i < j => r[i] < r[j]
          /\ \A i \in 1 .. Len(r) : r[i] \in all \cup {t}
      <3>1. \A i, j \in 1 .. HistoryCap : i < j => i + 1 < j + 1
        BY <1>1
      <3> QED BY <1>5, <2>1, <2>2, <3>1
    <2>4. ASSUME NEW k \in all \cup {t}
          PROVE  (\E i \in 1 .. Len(r) : r[i] = k) \/ k < r[1]
      <3>1. CASE k = t
        <4>1. HistoryCap \in 1 .. Len(r) /\ r[HistoryCap] = t
          BY <1>1, <1>7, <2>1, <2>2
        <4> QED BY <3>1, <4>1
      <3>2. CASE k \in all /\ \E i \in 1 .. Len(h) : h[i] = k
        <4>1. PICK i \in 1 .. Len(h) : h[i] = k
          BY <3>2
        <4>2. CASE i = 1
          <5>1. 1 \in 1 .. HistoryCap /\ 1 \in 1 .. Len(g) /\ 2 \in 1 .. Len(g) /\ 1 < 2 /\ r[1] = g[2]
            BY <1>1, <1>7, <2>2
          <5>2. g[1] < g[2]
            BY <1>5, <5>1
          <5> QED BY <1>1, <4>1, <4>2, <5>1, <5>2
        <4>3. CASE i # 1
          <5>1. i - 1 \in 1 .. HistoryCap /\ (i - 1) + 1 = i
            BY <1>1, <1>7, <4>3
          <5>2. r[i - 1] = k
            BY <1>1, <2>2, <4>1, <5>1
          <5> QED BY <2>1, <5>1, <5>2
        <4> QED BY <4>2, <4>3
      <3>3. CASE k \in all /\ k < h[1]
        <4>1. 1 \in 1 .. HistoryCap /\ 1 \in 1 .. Len(g) /\ 2 \in 1 .. Len(g) /\ 1 < 2 /\ r[1] = g[2]
              /\ 1 \in 1 .. Len(h)
          BY <1>1, <1>7, <2>2
        <4>2. g[1] < g[2] /\ g[1] = h[1] /\ g[1] \in Int /\ g[2] \in Int
          BY <1>1, <1>4, <1>5, <4>1
        <4>3. k \in Int /\ k < g[1] /\ r[1] = g[2]
          BY <1>4, <3>3, <4>1, <4>2
        <4> QED BY <4>2, <4>3
      <3> QED BY <1>2, <3>1, <3>2, <3>3
    <2> QED BY <1>1, <2>1, <2>3, <2>4 DEF IsRecentPart, r, g
  <1> QED BY <1>1, <1>2, <1>6, <1>7

\* A history that has lost no turn has dropped none, the new one included.
LEMMA WholeFits ==
  ASSUME NEW h \in Seq(Turns), NEW t \in Turns, NEW all, IsRecentPart(h, all),
         \A k \in all : k < t,
         \A k \in all : \E i \in 1 .. Len(Recent(Append(h, t))) : Recent(Append(h, t))[i] = k
  PROVE  /\ Len(h) + 1 <= HistoryCap /\ Recent(Append(h, t)) = Append(h, t)
         /\ \A k \in all : \E i \in 1 .. Len(h) : h[i] = k
  <1> DEFINE g == Append(h, t)
             r == Recent(g)
  <1>1. /\ g \in Seq(Turns) /\ Len(g) = Len(h) + 1 /\ Len(h) \in Nat /\ HistoryCap \in Nat \ {0}
        /\ (\A i \in 1 .. Len(h) : g[i] = h[i]) /\ g[Len(h) + 1] = t
        /\ \A i \in 1 .. Len(h) : h[i] \in Turns
    BY AppendTurn, TurnSeq
  <1>2. /\ Len(h) <= HistoryCap
        /\ \A i, j \in 1 .. Len(h) : i < j => h[i] < h[j]
        /\ \A i \in 1 .. Len(h) : h[i] \in all
        /\ \A k \in all : \/ \E i \in 1 .. Len(h) : h[i] = k
                          \/ Len(h) = HistoryCap /\ k < h[1]
    BY DEF IsRecentPart
  <1>3. Len(h) # HistoryCap
    <2> SUFFICES ASSUME Len(h) = HistoryCap PROVE FALSE
      OBVIOUS
    <2> HIDE DEF g
    <2>1. Len(r) = HistoryCap /\ \A i \in 1 .. HistoryCap : r[i] = g[i + (Len(g) - HistoryCap)]
      BY <1>1, RecentSeq
    <2>2. \A i \in 1 .. HistoryCap : r[i] = g[i + 1]
      BY <1>1, <2>1
    <2>3. 1 \in 1 .. Len(h) /\ h[1] \in all
      BY <1>1, <1>2
    <2>4. PICK i \in 1 .. HistoryCap : r[i] = h[1]
      BY <2>1, <2>3 DEF g
    <2> HIDE DEF r
    <2>5. CASE i = Len(h)
      <3>1. r[i] = t
        BY <1>1, <2>2, <2>5
      <3> QED BY <2>3, <2>4, <3>1 DEF Turns
    <2>6. CASE i # Len(h)
      <3>1. i + 1 \in 1 .. Len(h) /\ 1 < i + 1
        BY <1>1, <2>6
      <3>2. h[1] < h[i + 1] /\ h[i + 1] = h[1] /\ h[1] \in Turns
        BY <1>1, <1>2, <2>2, <2>3, <2>4, <3>1
      <3> QED BY <3>2 DEF Turns
    <2> QED BY <2>5, <2>6
  <1>4. Len(h) + 1 <= HistoryCap /\ \A k \in all : \E i \in 1 .. Len(h) : h[i] = k
    BY <1>1, <1>2, <1>3
  <1> HIDE DEF g
  <1>5. Recent(g) = g
    BY <1>1, <1>4, RecentSeq
  <1> QED BY <1>4, <1>5 DEF g
-----------------------------------------------------------------------------
(* One turn moves.                                                          *)

TurnMoves(t, tr) ==
  /\ t \in UnderWay
  /\ tr \in TurnState /\ tr.pc # "new" /\ tr.alone = turn[t].alone
  /\ turn' = [turn EXCEPT ![t] = tr]

LEMMA MoveFacts ==
  ASSUME turn \in [Turns -> TurnState], NEW t \in Turns, NEW tr, TurnMoves(t, tr)
  PROVE  /\ turn' \in [Turns -> TurnState] /\ turn'[t] = tr
         /\ \A k \in Turns : k # t => turn'[k] = turn[k]
         /\ \A k \in Turns : turn'[k].pc = "new" <=> turn[k].pc = "new"
         /\ \A k \in Turns : turn'[k].alone = turn[k].alone
         /\ turn[t].pc \notin {"new", "over"}
  BY DEF TurnMoves, UnderWay

LEMMA MoveOrder ==
  ASSUME ConversationTypes, TurnsBeginInOrder, NEW t \in Turns, NEW tr, TurnMoves(t, tr)
  PROVE  TurnsBeginInOrder'
  <1>1. /\ \A k \in Turns : k # t => turn'[k] = turn[k]
        /\ \A k \in Turns : turn'[k].pc = "new" <=> turn[k].pc = "new"
        /\ \A k \in Turns : turn'[k].alone = turn[k].alone
        /\ t \in UnderWay
    BY MoveFacts DEF ConversationTypes, TurnMoves
  <1>2. UnderWay' \subseteq UnderWay
    BY <1>1 DEF UnderWay
  <1>3. 1 \in Turns
    BY ConversationAssumption DEF Turns
  <1> QED BY <1>1, <1>2, <1>3 DEF TurnsBeginInOrder, At

\* While a turn moves, no other turn can be a lone one.
LEMMA MoveLone ==
  ASSUME ConversationInv, NEW t \in Turns, NEW tr, TurnMoves(t, tr), NEW k \in Turns, Lone(k)'
  PROVE  Lone(k) /\ k = t
  <1>1. /\ \A i \in Turns : turn'[i].pc = "new" <=> turn[i].pc = "new"
        /\ \A i \in Turns : turn'[i].alone = turn[i].alone
        /\ turn[t].pc \notin {"new", "over"}
    BY MoveFacts DEF ConversationInv, ConversationTypes
  <1>2. \A i \in 1 .. k : i \in Turns
    BY ConversationAssumption DEF Turns
  <1>3. Lone(k)
    BY <1>1, <1>2 DEF Lone, At, OneAfterTheOther
  <1>4. OthersAreOver(k)
    BY <1>3 DEF ConversationInv, LoneTurnsBuild
  <1>5. ~(t > k) /\ t \notin 1 .. k - 1
    BY <1>1, <1>3, <1>4 DEF Lone, At, OthersAreOver
  <1>6. k = t
    BY <1>5 DEF Turns
  <1> QED BY <1>3, <1>6

\* What has to be shown of a move: its turn is sound, histories and conversations are
\* as they should be, and it builds on the others when it is alone.
LEMMA MoveInv ==
  ASSUME ConversationInv, NEW t \in Turns, NEW tr, TurnMoves(t, tr),
         convs' \in 0 .. 2 * NumTurns, convs' >= convs, current' \in 0 .. convs',
         history' \in [ConvIds -> Seq(Turns)],
         snapshot' \in [ConvIds -> [count : 0 .. NumTurns, last : 0 .. NumTurns]],
         TurnIsSound(t)', HistoriesAreStored', ConversationsAreBounded',
         Lone(t) /\ OthersAreOver(t) =>
           HistoriesAreKept' /\ SnapshotsAreTrue' /\ ReadsItsHistory(t)' /\ RefreshesItsSnapshot(t)'
  PROVE  ConversationInv'
  <1>1. ConversationTypes /\ TurnsBeginInOrder /\ LoneTurnsBuild
        /\ \A k \in Turns : TurnIsSound(k)
    BY DEF ConversationInv
  <1>2. /\ turn' \in [Turns -> TurnState] /\ turn'[t] = tr
        /\ \A k \in Turns : k # t => turn'[k] = turn[k]
    BY <1>1, MoveFacts DEF ConversationTypes
  <1>3. ConversationTypes' /\ TurnsBeginInOrder'
    BY <1>1, <1>2, MoveOrder DEF ConversationTypes
  <1>4. ASSUME NEW k \in Turns
        PROVE  TurnIsSound(k)'
    <2>1. CASE k # t
      <3>1. turn'[k] = turn[k] /\ Subject(k)' = Subject(k)
        BY <1>2, <2>1 DEF Subject
      <3>2. \A c : Created(c) => Created(c)'
        BY <1>1 DEF Created, ConversationTypes
      <3> QED BY <1>1, <3>1, <3>2 DEF TurnIsSound
    <2> QED BY <2>1
  <1>5. ASSUME NEW k \in Turns, Lone(k)'
        PROVE  /\ OthersAreOver(k)' /\ HistoriesAreKept' /\ SnapshotsAreTrue'
               /\ ReadsItsHistory(k)' /\ RefreshesItsSnapshot(k)'
    <2>1. Lone(k) /\ k = t
      BY <1>5, MoveLone
    <2>2. OthersAreOver(t)
      BY <1>1, <2>1 DEF LoneTurnsBuild
    <2>3. OthersAreOver(t)'
      <3>1. \A i \in 1 .. t - 1 : i \in Turns /\ i # t
        BY ConversationAssumption DEF Turns
      <3> QED BY <1>2, <2>2, <3>1 DEF OthersAreOver, At
    <2> QED BY <2>1, <2>2, <2>3
  <1>6. LoneTurnsBuild'
    BY <1>5 DEF LoneTurnsBuild
  <1> QED BY <1>3, <1>4, <1>6 DEF ConversationInv

\* The histories stay as they should be while none is written, and the turn keeps
\* what it has read or reads a stored history.
LEMMA MoveHistories ==
  ASSUME ConversationInv, NEW t \in Turns, NEW tr, TurnMoves(t, tr),
         UNCHANGED history, convs' >= convs, convs' \in Nat,
         turn[t].stored => tr.stored,
         \/ tr.hist = turn[t].hist
         \/ ~turn[t].stored /\ \E c \in ConvIds : tr.hist = history[c]
  PROVE  HistoriesAreStored'
  <1>1. /\ turn' \in [Turns -> TurnState] /\ turn'[t] = tr
        /\ \A k \in Turns : k # t => turn'[k] = turn[k]
    BY MoveFacts DEF ConversationInv, ConversationTypes
  <1>2. \A k \in Turns : turn[k].stored => turn'[k].stored
    BY <1>1
  <1>3. HistoriesAreStored /\ history \in [ConvIds -> Seq(Turns)]
        /\ convs \in Nat /\ turn \in [Turns -> TurnState]
    BY DEF ConversationInv, ConversationTypes
  <1>4. \A c \in ConvIds : /\ Distinct(history[c])
                           /\ \A i \in 1 .. Len(history[c]) : turn[history[c][i]].stored
                           /\ ~Created(c) => history[c] = <<>>
    BY <1>3 DEF HistoriesAreStored
  <1>5. \A c : Created(c) => Created(c)'
    BY <1>3 DEF Created
  <1>6. ASSUME NEW c \in ConvIds
        PROVE  /\ Distinct(history'[c])
               /\ \A i \in 1 .. Len(history'[c]) : turn'[history'[c][i]].stored
               /\ ~Created(c)' => history'[c] = <<>>
    <2>1. \A i \in 1 .. Len(history[c]) : history[c][i] \in Turns
      BY <1>3, TurnSeq
    <2> QED BY <1>2, <1>4, <1>5, <2>1
  <1>7. ASSUME NEW k \in Turns
        PROVE  LET h == turn'[k].hist IN
               Distinct(h) /\ \A i \in 1 .. Len(h) : turn'[h[i]].stored /\ h[i] # k
    <2>1. LET h == turn[k].hist IN
          /\ h \in Seq(Turns) /\ Distinct(h)
          /\ \A i \in 1 .. Len(h) : turn[h[i]].stored /\ h[i] # k /\ h[i] \in Turns
      <3>1. turn[k].hist \in Seq(Turns)
        BY <1>3 DEF TurnState
      <3> QED BY <1>3, <3>1, TurnSeq DEF HistoriesAreStored
    <2>2. CASE turn'[k].hist = turn[k].hist
      BY <1>2, <2>1, <2>2
    <2>3. CASE turn'[k].hist # turn[k].hist
      <3>1. k = t /\ ~turn[t].stored
        BY <1>1, <2>3
      <3>2. PICK c \in ConvIds : tr.hist = history[c]
        BY <1>1, <2>3
      <3>3. \A i \in 1 .. Len(history[c]) : history[c][i] \in Turns
        BY <1>3, TurnSeq
      <3> QED BY <1>1, <1>2, <1>4, <3>1, <3>2, <3>3
    <2> QED BY <2>2, <2>3
  <1> QED BY <1>6, <1>7 DEF HistoriesAreStored

LEMMA MayCreateFinite ==
  /\ IsFiniteSet(MayCreateFirst) /\ IsFiniteSet(MayCreateAgain)
  /\ Cardinality(MayCreateFirst) \in Nat /\ Cardinality(MayCreateAgain) \in Nat
  <1>1. IsFiniteSet(Turns)
    BY ConversationAssumption, FS_Interval DEF Turns
  <1>2. MayCreateFirst \in SUBSET Turns /\ MayCreateAgain \in SUBSET Turns
    BY DEF MayCreateFirst, MayCreateAgain
  <1>3. IsFiniteSet(MayCreateFirst) /\ IsFiniteSet(MayCreateAgain)
    BY <1>1, <1>2, FS_Subset
  <1> QED BY <1>3, FS_CardinalityType

\* No turn goes back to where it could have created a conversation.
LEMMA NoNewCreators ==
  ASSUME ConversationsAreBounded, UNCHANGED convs, convs \in Nat,
         MayCreateFirst' \subseteq MayCreateFirst, MayCreateAgain' \subseteq MayCreateAgain
  PROVE  ConversationsAreBounded'
  <1>1. /\ IsFiniteSet(MayCreateFirst) /\ IsFiniteSet(MayCreateAgain)
        /\ Cardinality(MayCreateFirst) \in Nat /\ Cardinality(MayCreateAgain) \in Nat
    BY MayCreateFinite
  <1>2. /\ IsFiniteSet(MayCreateFirst') /\ Cardinality(MayCreateFirst') <= Cardinality(MayCreateFirst)
    BY <1>1, FS_Subset
  <1>3. /\ IsFiniteSet(MayCreateAgain') /\ Cardinality(MayCreateAgain') <= Cardinality(MayCreateAgain)
    BY <1>1, FS_Subset
  <1>4. Cardinality(MayCreateFirst') \in Nat /\ Cardinality(MayCreateAgain') \in Nat
    BY <1>2, <1>3, FS_CardinalityType
  <1> QED BY <1>1, <1>2, <1>3, <1>4, ConversationAssumption DEF ConversationsAreBounded
LEMMA MoveCreators ==
  ASSUME ConversationInv, NEW t \in Turns, NEW tr, TurnMoves(t, tr), UNCHANGED convs,
         CreatesFirst(tr) => CreatesFirst(turn[t]), CreatesAgain(tr) => CreatesAgain(turn[t])
  PROVE  ConversationsAreBounded'
  <1>1. /\ turn'[t] = tr /\ \A k \in Turns : k # t => turn'[k] = turn[k]
        /\ ConversationsAreBounded /\ convs \in Nat
    BY MoveFacts DEF ConversationInv, ConversationTypes
  <1>2. MayCreateFirst' \subseteq MayCreateFirst /\ MayCreateAgain' \subseteq MayCreateAgain
    BY <1>1 DEF MayCreateFirst, MayCreateAgain, CreatesFirst, CreatesAgain
  <1> QED BY <1>1, <1>2, NoNewCreators

LEMMA MoveStored ==
  ASSUME ConversationInv, NEW t \in Turns, NEW tr, TurnMoves(t, tr),
         tr.stored <=> turn[t].stored, tr.stored => tr.conv = turn[t].conv
  PROVE  \A c : StoredIn(c)' = StoredIn(c)
  <1>1. turn'[t] = tr /\ \A k \in Turns : k # t => turn'[k] = turn[k]
    BY MoveFacts DEF ConversationInv, ConversationTypes
  <1> QED BY <1>1 DEF StoredIn

\* The histories and the working memory are as they were.
LEMMA MoveKeeps ==
  ASSUME ConversationInv, NEW t \in Turns, NEW tr, TurnMoves(t, tr), Lone(t),
         tr.stored <=> turn[t].stored, tr.stored => tr.conv = turn[t].conv,
         UNCHANGED <<history, snapshot>>
  PROVE  HistoriesAreKept' /\ SnapshotsAreTrue'
  <1>1. HistoriesAreKept /\ SnapshotsAreTrue
    BY DEF ConversationInv, LoneTurnsBuild
  <1>2. \A c \in ConvIds : StoredIn(c)' = StoredIn(c)
    BY MoveStored
  <1>3. HistoriesAreKept'
    BY <1>1, <1>2 DEF HistoriesAreKept, IsRecentPart
  <1>4. \A c \in ConvIds : IsWhole(c)' <=> IsWhole(c)
    BY <1>2 DEF IsWhole
  <1>5. SnapshotsAreTrue'
    BY <1>1, <1>4 DEF SnapshotsAreTrue
  <1> QED BY <1>3, <1>5

\* What the turn has read and stored is as it was.
LEMMA MoveReads ==
  ASSUME ConversationInv, NEW t \in Turns, NEW tr, TurnMoves(t, tr), ReadsItsHistory(t),
         UNCHANGED <<history, current>>,
         tr.pc \in {"snapshot", "summarize", "answer", "persist"}
           => turn[t].pc \in {"snapshot", "summarize", "answer", "persist"},
         tr.pc \notin {"load", "create", "history"},
         tr.hist = turn[t].hist, tr.conv = turn[t].conv, tr.stored <=> turn[t].stored
  PROVE  ReadsItsHistory(t)'
  <1>1. turn'[t] = tr
    BY MoveFacts DEF ConversationInv, ConversationTypes
  <1>2. StoredIn(turn[t].conv)' = StoredIn(turn[t].conv)
    <2>1. \A k \in Turns : k # t => turn'[k] = turn[k]
      BY MoveFacts DEF ConversationInv, ConversationTypes
    <2> QED BY <1>1, <2>1 DEF StoredIn
  <1>3. turn[t].stored => /\ IsRecentPart(turn[t].hist, StoredIn(turn[t].conv) \ {t})
                          /\ history[turn[t].conv] = Recent(Append(turn[t].hist, t))
    BY DEF ReadsItsHistory
  <1>4. IsRecentPart(turn[t].hist, StoredIn(turn[t].conv) \ {t})'
          <=> IsRecentPart(turn[t].hist, StoredIn(turn[t].conv) \ {t})
    BY <1>1, <1>2 DEF IsRecentPart
  <1>5. (history[turn[t].conv] = Recent(Append(turn[t].hist, t)))'
          <=> history[turn[t].conv] = Recent(Append(turn[t].hist, t))
    BY <1>1 DEF Recent
  <1>6. tr.pc \in {"snapshot", "summarize", "answer", "persist"} /\ ~tr.stored
          => tr.hist = history'[tr.conv]
    BY DEF ReadsItsHistory
  <1> QED BY <1>1, <1>3, <1>4, <1>5, <1>6 DEF ReadsItsHistory

\* A move that leaves history, snapshot and conversations alone.
QuietMove(t, tr) ==
  /\ TurnMoves(t, tr)
  /\ UNCHANGED <<current, convs, history, snapshot>>
  /\ tr.phase = turn[t].phase /\ tr.conv = turn[t].conv /\ tr.from = turn[t].from
  /\ tr.hist = turn[t].hist /\ tr.stored = turn[t].stored
  /\ tr.saved => tr.pc = "over" /\ turn[t].pc = "remember"
  /\ \/ tr.pc = "over"
     \/ tr.pc = "answer" /\ turn[t].phase = "prompt" /\ turn[t].pc \in {"snapshot", "summarize"}
     \/ tr.pc = "persist" /\ turn[t].pc = "answer"
     \/ tr.pc = turn[t].pc /\ Persisting(t) /\ tr.absent = turn[t].absent
     \/ /\ turn[t].pc = "snapshot" /\ ~NeedsSummary(Subject(t), snapshot[turn[t].conv])
        /\ tr.pc = AfterSnapshot(turn[t])
     \/ /\ turn[t].pc = "snapshot" /\ NeedsSummary(Subject(t), snapshot[turn[t].conv])
        /\ tr.pc = "summarize" /\ tr.absent = (snapshot[turn[t].conv] = NoSnapshot)

LEMMA QuietMoveInv ==
  ASSUME ConversationInv, NEW t \in Turns, NEW tr, QuietMove(t, tr)
  PROVE  ConversationInv'
  <1>1. /\ TurnMoves(t, tr) /\ turn'[t] = tr /\ turn[t].pc \notin {"new", "over"}
        /\ ConversationTypes /\ TurnIsSound(t) /\ convs \in Nat
    BY MoveFacts DEF QuietMove, ConversationInv, ConversationTypes
  <1>2. Subject(t)' = Subject(t)
    BY <1>1 DEF QuietMove, Subject
  <1>3. Len(Subject(t)) \in Nat
    <2>1. turn[t].hist \in Seq(Turns)
      BY <1>1 DEF ConversationTypes, TurnState
    <2> QED BY <2>1, TurnSeq, AppendTurn DEF Subject
  <1>4. tr.saved \in BOOLEAN /\ tr.stored \in BOOLEAN /\ turn[t] \in TurnState /\ tr.pc # "new"
    BY <1>1 DEF TurnMoves, TurnState, ConversationTypes
  <1>5. tr.pc \in {"snapshot", "summarize", "answer", "persist", "remember", "over"}
        /\ (tr.pc \in {"snapshot", "summarize", "answer", "persist"}
             => turn[t].pc \in {"snapshot", "summarize", "answer", "persist"})
        /\ (tr.pc = "remember" => turn[t].pc \in {"snapshot", "remember"} /\ tr.phase = "persist")
        /\ (tr.pc \in {"answer", "persist"} => tr.phase = "prompt")
        /\ (tr.pc = "summarize" => Len(Subject(t)) > 0)
        /\ (tr.pc # "over" => turn[t].pc \in {"snapshot", "summarize", "answer", "persist", "remember"})
        /\ (tr.pc \in {"snapshot", "summarize"} => turn[t].phase \in {"prompt", "persist"})
    <2>1. CASE tr.pc = "over"
      BY <2>1
    <2>2. CASE \/ tr.pc = "answer" /\ turn[t].phase = "prompt" /\ turn[t].pc \in {"snapshot", "summarize"}
               \/ tr.pc = "persist" /\ turn[t].pc = "answer"
      BY <1>1, <2>2 DEF QuietMove, TurnIsSound
    <2>3. CASE tr.pc = turn[t].pc /\ Persisting(t)
      BY <1>1, <2>3 DEF QuietMove, TurnIsSound, Persisting
    <2>4. CASE turn[t].pc = "snapshot" /\ tr.pc = AfterSnapshot(turn[t])
      BY <1>1, <2>4 DEF QuietMove, TurnIsSound, AfterSnapshot
    <2>5. CASE turn[t].pc = "snapshot" /\ tr.pc = "summarize"
               /\ NeedsSummary(Subject(t), snapshot[turn[t].conv])
      BY <1>1, <1>3, <2>5, ConversationAssumption DEF QuietMove, TurnIsSound, NeedsSummary
    <2> QED BY <2>1, <2>2, <2>3, <2>4, <2>5 DEF QuietMove
  <1>6. TurnIsSound(t)'
    <2>1. Created(tr.conv)' <=> Created(turn[t].conv)
      BY DEF QuietMove, Created
    <2> QED BY <1>1, <1>2, <1>4, <1>5, <2>1 DEF QuietMove, TurnIsSound
  <1>7. HistoriesAreStored'
    BY <1>1, MoveHistories DEF QuietMove
  <1>8. ConversationsAreBounded'
    BY <1>1, <1>5, MoveCreators DEF QuietMove, CreatesFirst, CreatesAgain
  <1>9. ASSUME Lone(t)
        PROVE  HistoriesAreKept' /\ SnapshotsAreTrue' /\ ReadsItsHistory(t)' /\ RefreshesItsSnapshot(t)'
    <2>1. ReadsItsHistory(t) /\ RefreshesItsSnapshot(t)
      BY <1>9 DEF ConversationInv, LoneTurnsBuild
    <2>2. HistoriesAreKept' /\ SnapshotsAreTrue'
      BY <1>1, <1>9, MoveKeeps DEF QuietMove
    <2>3. ReadsItsHistory(t)'
      BY <1>1, <1>5, <2>1, MoveReads DEF QuietMove
    <2>4. tr.pc = "summarize" /\ tr.absent => snapshot[turn[t].conv] = NoSnapshot
      BY <2>1, <1>1 DEF QuietMove, RefreshesItsSnapshot, AfterSnapshot, Persisting
    <2>5. tr.pc = "remember" \/ tr.saved =>
            \/ Len(turn[t].hist) + 1 < WorkingTrigger
            \/ /\ snapshot[turn[t].conv] # NoSnapshot
               /\ Len(turn[t].hist) + 1 - snapshot[turn[t].conv].count < RefreshAfter
      <3>1. CASE turn[t].pc = "remember"
        BY <2>1, <3>1 DEF RefreshesItsSnapshot
      <3>2. CASE tr.pc = "remember" /\ turn[t].pc # "remember"
        <4>1. turn[t].phase = "persist" /\ ~NeedsSummary(Subject(t), snapshot[turn[t].conv])
          BY <1>1, <1>5, <3>2 DEF QuietMove, AfterSnapshot
        <4>2. turn[t].hist \in Seq(Turns) /\ turn[t].conv \in ConvIds
          <5>1. turn[t].conv \in 1 .. convs
            BY <1>1, <1>5, <3>2 DEF TurnIsSound, Created
          <5> QED BY <1>1, <1>4, <5>1 DEF ConversationTypes, TurnState, ConvIds
        <4>3. Len(Subject(t)) = Len(turn[t].hist) + 1 /\ Len(turn[t].hist) \in Nat
          BY <4>1, <4>2, AppendTurn, TurnSeq DEF Subject
        <4>4. snapshot[turn[t].conv].count \in Int /\ WorkingTrigger \in Int /\ RefreshAfter \in Int
          <5>1. snapshot[turn[t].conv] \in [count : 0 .. NumTurns, last : 0 .. NumTurns]
            BY <1>1, <4>2 DEF ConversationTypes
          <5>2. NumTurns \in Nat /\ WorkingTrigger \in Int /\ RefreshAfter \in Int
            BY ConversationAssumption
          <5> QED BY <5>1, <5>2
        <4> QED BY <4>1, <4>3, <4>4 DEF NeedsSummary
      <3> QED BY <3>1, <3>2 DEF QuietMove
    <2>6. RefreshesItsSnapshot(t)'
      BY <1>1, <2>4, <2>5 DEF QuietMove, RefreshesItsSnapshot
    <2> QED BY <2>2, <2>3, <2>6
  <1>10. /\ convs' \in 0 .. 2 * NumTurns /\ convs' >= convs /\ current' \in 0 .. convs'
         /\ history' \in [ConvIds -> Seq(Turns)]
         /\ snapshot' \in [ConvIds -> [count : 0 .. NumTurns, last : 0 .. NumTurns]]
    BY <1>1 DEF QuietMove, ConversationTypes
  <1> QED BY <1>1, <1>6, <1>7, <1>8, <1>9, <1>10, MoveInv
-----------------------------------------------------------------------------
(* The turn loads its session.                                              *)

LEMMA TurnFacts ==
  ASSUME ConversationInv, NEW t \in Turns
  PROVE  /\ turn \in [Turns -> TurnState] /\ turn[t] \in TurnState
         /\ turn[t].hist \in Seq(Turns) /\ TurnIsSound(t)
         /\ convs \in 0 .. 2 * NumTurns /\ current \in 0 .. convs /\ NumTurns \in Nat
         /\ history \in [ConvIds -> Seq(Turns)]
         /\ snapshot \in [ConvIds -> [count : 0 .. NumTurns, last : 0 .. NumTurns]]
         /\ \A c : Created(c) => c \in ConvIds
  <1>1. ConversationTypes /\ TurnIsSound(t) /\ NumTurns \in Nat
    BY ConversationAssumption DEF ConversationInv
  <1>2. turn \in [Turns -> TurnState] /\ turn[t] \in TurnState
    BY <1>1 DEF ConversationTypes
  <1>3. turn[t].hist \in Seq(Turns)
    BY <1>2 DEF TurnState
  <1>4. \A c : Created(c) => c \in ConvIds
    BY <1>1 DEF ConversationTypes, Created, ConvIds
  <1> QED BY <1>1, <1>2, <1>3, <1>4 DEF ConversationTypes

LEMMA GetConversationIDInv ==
  ASSUME ConversationInv, NEW t \in Turns, GetConversationID(t)
  PROVE  ConversationInv'
  <1> DEFINE looking == [turn[t] EXCEPT !.pc = "create"]
             found   == [turn[t] EXCEPT !.pc = "history", !.from = current,
                                        !.conv = Conversation(turn[t], current)]
             tr      == IF current = 0 THEN looking ELSE found
  <1>1. /\ turn[t].pc = "load" /\ UNCHANGED <<current, convs, history, snapshot>>
        /\ turn' = [turn EXCEPT ![t] = tr]
    BY TurnFacts DEF GetConversationID, At
  <1>2. /\ current # 0 => current \in 1 .. convs /\ current \in 0 .. 2 * NumTurns
        /\ turn[t].phase \in {"session", "prompt"} /\ ~turn[t].stored /\ ~turn[t].saved
    BY <1>1, TurnFacts DEF TurnIsSound
  <1>3. /\ tr \in TurnState /\ tr.alone = turn[t].alone /\ tr.phase = turn[t].phase
        /\ tr.hist = turn[t].hist /\ ~tr.stored /\ ~tr.saved
        /\ current = 0 => tr.pc = "create" /\ tr.conv = turn[t].conv
        /\ current # 0 => /\ tr.pc = "history" /\ tr.from = current
                          /\ tr.phase = "session" => tr.conv = current
                          /\ tr.phase = "prompt" => tr.conv = turn[t].conv
    <2>1. CASE current = 0
      BY <1>2, <2>1, TurnFacts DEF TurnState, Steps
    <2>2. CASE current # 0
      BY <1>2, <2>2, TurnFacts DEF TurnState, Steps, Conversation
    <2> QED BY <2>1, <2>2
  <1> HIDE DEF tr
  <1>4. TurnMoves(t, tr) /\ turn'[t] = tr
    <2>1. TurnMoves(t, tr)
      BY <1>1, <1>3 DEF TurnMoves, UnderWay
    <2> QED BY <2>1, TurnFacts, MoveFacts
  <1>5. TurnIsSound(t)'
    BY <1>1, <1>2, <1>3, <1>4, TurnFacts DEF TurnIsSound, Created
  <1>6. HistoriesAreStored'
    BY <1>1, <1>2, <1>3, <1>4, TurnFacts, MoveHistories
  <1>7. ConversationsAreBounded'
    BY <1>1, <1>2, <1>3, <1>4, MoveCreators DEF CreatesFirst, CreatesAgain
  <1>8. ASSUME Lone(t)
        PROVE  HistoriesAreKept' /\ SnapshotsAreTrue' /\ ReadsItsHistory(t)' /\ RefreshesItsSnapshot(t)'
    <2>1. ReadsItsHistory(t)
      BY <1>8 DEF ConversationInv, LoneTurnsBuild
    <2>2. HistoriesAreKept' /\ SnapshotsAreTrue'
      BY <1>1, <1>2, <1>3, <1>4, <1>8, MoveKeeps
    <2>3. tr.phase = "prompt" => history[tr.conv] = <<>> /\ current \in {0, tr.conv}
      BY <1>1, <1>3, <2>1 DEF ReadsItsHistory
    <2>4. ReadsItsHistory(t)'
      BY <1>1, <1>2, <1>3, <1>4, <2>3 DEF ReadsItsHistory
    <2>5. RefreshesItsSnapshot(t)'
      BY <1>3, <1>4 DEF RefreshesItsSnapshot
    <2> QED BY <2>2, <2>4, <2>5
  <1>9. /\ convs' \in 0 .. 2 * NumTurns /\ convs' >= convs /\ current' \in 0 .. convs'
         /\ history' \in [ConvIds -> Seq(Turns)]
         /\ snapshot' \in [ConvIds -> [count : 0 .. NumTurns, last : 0 .. NumTurns]]
    BY <1>1, TurnFacts
  <1>10. Lone(t) /\ OthersAreOver(t) =>
           HistoriesAreKept' /\ SnapshotsAreTrue' /\ ReadsItsHistory(t)' /\ RefreshesItsSnapshot(t)'
    BY <1>8
  <1> QED BY <1>4, <1>5, <1>6, <1>7, <1>9, <1>10, MoveInv, Zenon

\* One conversation fewer can be created.
LEMMA CreatorsUsed ==
  ASSUME ConversationInv, NEW t \in Turns, turn[t].pc = "create",
         turn[t].phase \in {"session", "prompt"}
  PROVE  convs + 1 <= 2 * NumTurns
  <1>1. t \in MayCreateFirst \/ t \in MayCreateAgain
    BY DEF MayCreateFirst, MayCreateAgain, CreatesFirst, CreatesAgain
  <1>2. Cardinality(MayCreateFirst) > 0 \/ Cardinality(MayCreateAgain) > 0
    BY <1>1, MayCreateFinite, FS_EmptySet
  <1> QED BY <1>2, MayCreateFinite, TurnFacts DEF ConversationInv, ConversationsAreBounded

LEMMA CreatorMoves ==
  ASSUME ConversationInv, NEW t \in Turns, NEW tr, TurnMoves(t, tr),
         turn[t].pc = "create", turn[t].phase \in {"session", "prompt"},
         tr.pc = "history", tr.phase = turn[t].phase, convs' = convs + 1
  PROVE  ConversationsAreBounded'
  <1>1. /\ turn'[t] = tr /\ \A k \in Turns : k # t => turn'[k] = turn[k]
        /\ ConversationsAreBounded /\ convs \in Nat /\ NumTurns \in Nat
    BY TurnFacts, MoveFacts DEF ConversationInv
  <1>2. /\ IsFiniteSet(MayCreateFirst) /\ IsFiniteSet(MayCreateAgain)
        /\ Cardinality(MayCreateFirst) \in Nat /\ Cardinality(MayCreateAgain) \in Nat
    BY MayCreateFinite
  <1>3. CASE turn[t].phase = "session"
    <2>1. /\ MayCreateFirst' \in SUBSET (MayCreateFirst \ {t}) /\ t \in MayCreateFirst
          /\ MayCreateAgain' \in SUBSET MayCreateAgain
      BY <1>1, <1>3 DEF MayCreateFirst, MayCreateAgain, CreatesFirst, CreatesAgain
    <2>2. /\ IsFiniteSet(MayCreateFirst \ {t})
          /\ Cardinality(MayCreateFirst \ {t}) = Cardinality(MayCreateFirst) - 1
      BY <1>2, <2>1, FS_RemoveElement
    <2>3. /\ IsFiniteSet(MayCreateFirst') /\ IsFiniteSet(MayCreateAgain')
          /\ Cardinality(MayCreateFirst') <= Cardinality(MayCreateFirst) - 1
          /\ Cardinality(MayCreateAgain') <= Cardinality(MayCreateAgain)
      BY <1>2, <2>1, <2>2, FS_Subset
    <2>4. Cardinality(MayCreateFirst') \in Nat /\ Cardinality(MayCreateAgain') \in Nat
      BY <2>3, FS_CardinalityType
    <2> QED BY <1>1, <1>2, <2>3, <2>4 DEF ConversationsAreBounded
  <1>4. CASE turn[t].phase = "prompt"
    <2>1. /\ MayCreateAgain' \in SUBSET (MayCreateAgain \ {t}) /\ t \in MayCreateAgain
          /\ MayCreateFirst' \in SUBSET MayCreateFirst
      BY <1>1, <1>4 DEF MayCreateFirst, MayCreateAgain, CreatesFirst, CreatesAgain
    <2>2. /\ IsFiniteSet(MayCreateAgain \ {t})
          /\ Cardinality(MayCreateAgain \ {t}) = Cardinality(MayCreateAgain) - 1
      BY <1>2, <2>1, FS_RemoveElement
    <2>3. /\ IsFiniteSet(MayCreateFirst') /\ IsFiniteSet(MayCreateAgain')
          /\ Cardinality(MayCreateAgain') <= Cardinality(MayCreateAgain) - 1
          /\ Cardinality(MayCreateFirst') <= Cardinality(MayCreateFirst)
      BY <1>2, <2>1, <2>2, FS_Subset
    <2>4. Cardinality(MayCreateFirst') \in Nat /\ Cardinality(MayCreateAgain') \in Nat
      BY <2>3, FS_CardinalityType
    <2> QED BY <1>1, <1>2, <2>3, <2>4 DEF ConversationsAreBounded
  <1> QED BY <1>3, <1>4

LEMMA CreateConversationIDInv ==
  ASSUME ConversationInv, NEW t \in Turns, CreateConversationID(t)
  PROVE  ConversationInv'
  <1> DEFINE new == convs + 1
             tr  == [turn[t] EXCEPT !.pc = "history", !.from = new,
                                    !.conv = Conversation(turn[t], new)]
  <1>1. /\ turn[t].pc = "create" /\ UNCHANGED <<history, snapshot>>
        /\ convs' = new /\ current' = new
        /\ turn' = [turn EXCEPT ![t] = tr]
    BY TurnFacts DEF CreateConversationID, At
  <1>2. turn[t].phase \in {"session", "prompt"} /\ ~turn[t].stored /\ ~turn[t].saved
    BY <1>1, TurnFacts DEF TurnIsSound
  <1>3. new \in 1 .. 2 * NumTurns /\ new \in 0 .. 2 * NumTurns /\ ~Created(new)
        /\ new > convs /\ new \in 1 .. new /\ new \in 0 .. new
    BY <1>1, <1>2, CreatorsUsed, TurnFacts DEF Created
  <1> HIDE DEF new
  <1>4. /\ tr \in TurnState /\ tr.alone = turn[t].alone /\ tr.phase = turn[t].phase
        /\ tr.hist = turn[t].hist /\ ~tr.stored /\ ~tr.saved
        /\ tr.pc = "history" /\ tr.from = new
        /\ tr.phase = "session" => tr.conv = new
        /\ tr.phase = "prompt" => tr.conv = turn[t].conv
    BY <1>2, <1>3, TurnFacts DEF TurnState, Steps, Conversation
  <1> HIDE DEF tr
  <1>5. TurnMoves(t, tr) /\ turn'[t] = tr
    <2>1. TurnMoves(t, tr)
      BY <1>1, <1>4 DEF TurnMoves, UnderWay
    <2> QED BY <2>1, TurnFacts, MoveFacts
  <1>6. \A c : Created(c) => c \in 1 .. convs'
    BY <1>1, <1>3, TurnFacts DEF Created
  <1>7. TurnIsSound(t)'
    <2>1. tr.conv \in 1 .. convs' /\ tr.from \in 1 .. convs'
      <3>1. tr.phase = "prompt" => Created(turn[t].conv)
        BY <1>1, <1>4, TurnFacts DEF TurnIsSound
      <3>2. tr.phase = "prompt" => tr.conv \in 1 .. convs'
        BY <1>4, <1>6, <3>1
      <3>3. new \in 1 .. convs'
        BY <1>1, <1>3
      <3> QED BY <1>2, <1>4, <3>2, <3>3
    <2>2. (Created(turn[t].conv) /\ Created(turn[t].from))'
      BY <1>5, <2>1 DEF Created
    <2> QED BY <1>2, <1>4, <1>5, <2>2 DEF TurnIsSound
  <1>8. HistoriesAreStored'
    <2>1. convs' >= convs /\ convs' \in Nat
      BY <1>1, <1>3, TurnFacts
    <2> QED BY <1>1, <1>2, <1>4, <1>5, <2>1, MoveHistories
  <1>9. ConversationsAreBounded'
    BY <1>1, <1>2, <1>4, <1>5, CreatorMoves DEF new
  <1>10. ASSUME Lone(t)
         PROVE  HistoriesAreKept' /\ SnapshotsAreTrue' /\ ReadsItsHistory(t)' /\ RefreshesItsSnapshot(t)'
    <2>1. ReadsItsHistory(t)
      BY <1>10 DEF ConversationInv, LoneTurnsBuild
    <2>2. HistoriesAreKept' /\ SnapshotsAreTrue'
      BY <1>1, <1>2, <1>4, <1>5, <1>10, MoveKeeps
    <2>3. tr.phase = "prompt" => history[tr.conv] = <<>>
      BY <1>1, <1>4, <2>1 DEF ReadsItsHistory
    <2>4. history[new] = <<>>
      BY <1>3 DEF ConversationInv, HistoriesAreStored, ConvIds
    <2>5. ReadsItsHistory(t)'
      BY <1>1, <1>2, <1>4, <1>5, <2>3, <2>4 DEF ReadsItsHistory
    <2>6. RefreshesItsSnapshot(t)'
      BY <1>4, <1>5 DEF RefreshesItsSnapshot
    <2> QED BY <2>2, <2>5, <2>6
  <1>11. /\ convs' \in 0 .. 2 * NumTurns /\ convs' >= convs /\ current' \in 0 .. convs'
         /\ history' \in [ConvIds -> Seq(Turns)]
         /\ snapshot' \in [ConvIds -> [count : 0 .. NumTurns, last : 0 .. NumTurns]]
    BY <1>1, <1>3, TurnFacts
  <1>12. Lone(t) /\ OthersAreOver(t) =>
           HistoriesAreKept' /\ SnapshotsAreTrue' /\ ReadsItsHistory(t)' /\ RefreshesItsSnapshot(t)'
    BY <1>10
  <1> QED BY <1>5, <1>7, <1>8, <1>9, <1>11, <1>12, MoveInv, Zenon

LEMMA GetConversationHistoryInv ==
  ASSUME ConversationInv, NEW t \in Turns, GetConversationHistory(t)
  PROVE  ConversationInv'
  <1> DEFINE h     == history[turn[t].from]
             again == [turn[t] EXCEPT !.pc = "load", !.phase = "prompt"]
             read  == [turn[t] EXCEPT !.pc = "snapshot", !.phase = "prompt", !.hist = h]
             tr    == IF turn[t].phase = "session" /\ h = <<>> THEN again ELSE read
  <1>1. /\ turn[t].pc = "history" /\ UNCHANGED <<current, convs, history, snapshot>>
        /\ turn' = [turn EXCEPT ![t] = tr]
    BY TurnFacts DEF GetConversationHistory, At
  <1>2. /\ turn[t].phase \in {"session", "prompt"} /\ ~turn[t].stored /\ ~turn[t].saved
        /\ turn[t].from \in ConvIds /\ h \in Seq(Turns)
        /\ Created(turn[t].conv)
    BY <1>1, TurnFacts DEF TurnIsSound
  <1> HIDE DEF h
  <1>3. /\ tr \in TurnState /\ tr.alone = turn[t].alone /\ tr.phase = "prompt"
        /\ ~tr.stored /\ ~tr.saved /\ tr.conv = turn[t].conv /\ tr.pc \in {"load", "snapshot"}
        /\ tr.pc = "load" => turn[t].phase = "session" /\ h = <<>> /\ tr.hist = turn[t].hist
        /\ tr.pc = "snapshot" => tr.hist = h
    <2>1. CASE turn[t].phase = "session" /\ h = <<>>
      BY <1>2, <2>1, TurnFacts, ZenonT(60) DEF TurnState, Steps
    <2>2. CASE ~(turn[t].phase = "session" /\ h = <<>>)
      BY <1>2, <2>2, TurnFacts, ZenonT(60) DEF TurnState, Steps
    <2> QED BY <2>1, <2>2
  <1> HIDE DEF tr
  <1>4. TurnMoves(t, tr) /\ turn'[t] = tr
    <2>1. TurnMoves(t, tr)
      BY <1>1, <1>3 DEF TurnMoves, UnderWay
    <2> QED BY <2>1, TurnFacts, MoveFacts
  <1>5. TurnIsSound(t)'
    BY <1>1, <1>2, <1>3, <1>4, TurnFacts DEF TurnIsSound, Created
  <1>6. HistoriesAreStored'
    BY <1>1, <1>2, <1>3, <1>4, TurnFacts, MoveHistories DEF h
  <1>7. ConversationsAreBounded'
    BY <1>1, <1>2, <1>3, <1>4, MoveCreators DEF CreatesFirst, CreatesAgain
  <1>8. ASSUME Lone(t)
        PROVE  HistoriesAreKept' /\ SnapshotsAreTrue' /\ ReadsItsHistory(t)' /\ RefreshesItsSnapshot(t)'
    <2>1. ReadsItsHistory(t)
      BY <1>8 DEF ConversationInv, LoneTurnsBuild
    <2>2. HistoriesAreKept' /\ SnapshotsAreTrue'
      BY <1>1, <1>2, <1>3, <1>4, <1>8, MoveKeeps
    <2>3. /\ turn[t].phase = "session" => turn[t].from = turn[t].conv /\ current \in {0, turn[t].conv}
          /\ h = history[turn[t].conv]
      BY <1>1, <2>1 DEF ReadsItsHistory, h
    <2>4. ReadsItsHistory(t)'
      BY <1>1, <1>2, <1>3, <1>4, <2>3 DEF ReadsItsHistory
    <2>5. RefreshesItsSnapshot(t)'
      BY <1>3, <1>4 DEF RefreshesItsSnapshot
    <2> QED BY <2>2, <2>4, <2>5
  <1>9. /\ convs' \in 0 .. 2 * NumTurns /\ convs' >= convs /\ current' \in 0 .. convs'
         /\ history' \in [ConvIds -> Seq(Turns)]
         /\ snapshot' \in [ConvIds -> [count : 0 .. NumTurns, last : 0 .. NumTurns]]
    BY <1>1, TurnFacts
  <1>10. Lone(t) /\ OthersAreOver(t) =>
           HistoriesAreKept' /\ SnapshotsAreTrue' /\ ReadsItsHistory(t)' /\ RefreshesItsSnapshot(t)'
    BY <1>8
  <1> QED BY <1>4, <1>5, <1>6, <1>7, <1>9, <1>10, MoveInv, Zenon
-----------------------------------------------------------------------------
(* The working snapshot, and the history that is written.                   *)

LEMMA ReadSnapshotInv ==
  ASSUME ConversationInv, NEW t \in Turns, ReadSnapshot(t)
  PROVE  ConversationInv'
  <1> DEFINE row  == snapshot[turn[t].conv]
             todo == [turn[t] EXCEPT !.pc = "summarize", !.absent = (row = NoSnapshot)]
             done == [turn[t] EXCEPT !.pc = AfterSnapshot(turn[t])]
             tr   == IF NeedsSummary(Subject(t), row) THEN todo ELSE done
  <1>1. /\ turn[t].pc = "snapshot" /\ UNCHANGED <<current, convs, history, snapshot>>
        /\ turn' = [turn EXCEPT ![t] = tr]
    BY TurnFacts DEF ReadSnapshot, At
  <1>2. ~turn[t].saved
    BY <1>1, TurnFacts DEF TurnIsSound
  <1>3. /\ tr \in TurnState /\ tr.pc # "new" /\ tr.alone = turn[t].alone
        /\ tr.phase = turn[t].phase /\ tr.conv = turn[t].conv /\ tr.from = turn[t].from
        /\ tr.hist = turn[t].hist /\ tr.stored = turn[t].stored /\ ~tr.saved
        /\ \/ ~NeedsSummary(Subject(t), row) /\ tr.pc = AfterSnapshot(turn[t])
           \/ NeedsSummary(Subject(t), row) /\ tr.pc = "summarize" /\ tr.absent = (row = NoSnapshot)
    <2>1. CASE NeedsSummary(Subject(t), row)
      BY <1>2, <2>1, TurnFacts DEF TurnState, Steps
    <2>2. CASE ~NeedsSummary(Subject(t), row)
      BY <1>2, <2>2, TurnFacts DEF TurnState, Steps, AfterSnapshot
    <2> QED BY <2>1, <2>2
  <1> HIDE DEF tr
  <1>4. TurnMoves(t, tr)
    BY <1>1, <1>3 DEF TurnMoves, UnderWay
  <1> QED BY <1>1, <1>3, <1>4, QuietMoveInv DEF QuietMove

\* What the history that is summarized has to do with the stored one.
LEMMA SubjectIsSound ==
  ASSUME ConversationInv, NEW t \in Turns, turn[t].pc = "summarize"
  PROVE  /\ Subject(t) \in Seq(Turns) /\ Len(Subject(t)) \in 1 .. NumTurns
         /\ Lone(t) /\ IsWhole(turn[t].conv) => Subject(t) = history[turn[t].conv]
         /\ turn[t].phase = "persist" => Len(Subject(t)) = Len(turn[t].hist) + 1
  <1> DEFINE h == turn[t].hist
             c == turn[t].conv
  <1>1. /\ h \in Seq(Turns) /\ Len(h) \in Nat /\ c \in ConvIds /\ Len(Subject(t)) > 0
        /\ turn[t].phase \in {"prompt", "persist"} /\ (turn[t].stored <=> turn[t].phase = "persist")
        /\ turn[t].stored \in BOOLEAN
    <2>1. Len(Subject(t)) > 0 /\ turn[t].phase \in {"prompt", "persist"} /\ Created(c)
          /\ (turn[t].stored <=> turn[t].phase = "persist")
      BY TurnFacts DEF TurnIsSound
    <2>2. turn[t].stored \in BOOLEAN
      BY TurnFacts DEF TurnState
    <2> QED BY <2>1, <2>2, TurnFacts, TurnSeq
  <1>2. Distinct(h) /\ \A i \in 1 .. Len(h) : h[i] # t
    BY DEF ConversationInv, HistoriesAreStored
  <1>3. CASE turn[t].phase = "prompt"
    <2>1. Subject(t) = h
      BY <1>3 DEF Subject
    <2>2. Lone(t) => h = history[c]
      BY <1>1, <1>3 DEF ConversationInv, LoneTurnsBuild, ReadsItsHistory
    <2>3. Len(h) <= NumTurns
      BY <1>1, <1>2, DistinctIsShort
    <2> QED BY <1>1, <1>3, <2>1, <2>2, <2>3, TurnSeq
  <1>4. CASE turn[t].phase = "persist"
    <2> DEFINE g == Append(h, t)
    <2>1. Subject(t) = g /\ g \in Seq(Turns) /\ Len(g) = Len(h) + 1
      BY <1>1, <1>4, AppendTurn DEF Subject
    <2>2. Len(g) <= NumTurns
      BY <1>1, <1>2, <2>1, DistinctAppend, DistinctIsShort
    <2> HIDE DEF g
    <2>3. ASSUME Lone(t), IsWhole(c)
          PROVE  g = history[c]
      <3> DEFINE all == StoredIn(c) \ {t}
      <3>1. ReadsItsHistory(t)
        BY <2>3 DEF ConversationInv, LoneTurnsBuild
      <3>2. IsRecentPart(h, all) /\ history[c] = Recent(g)
        BY <1>1, <1>4, <3>1 DEF ReadsItsHistory, g
      <3>3. \A k \in all : k < t
        BY <2>3, TurnFacts DEF Lone, StoredIn, At, ConversationInv, TurnIsSound, NewTurn, Turns
      <3>4. \A k \in all : \E i \in 1 .. Len(Recent(g)) : Recent(g)[i] = k
        BY <2>3, <3>2 DEF IsWhole
      <3> HIDE DEF all
      <3>5. Recent(g) = g
        BY <1>1, <3>2, <3>3, <3>4, WholeFits DEF g
      <3> QED BY <3>2, <3>5
    <2> QED BY <1>1, <1>4, <2>1, <2>2, <2>3, TurnSeq
  <1> QED BY <1>1, <1>3, <1>4

LEMMA UpsertInv ==
  ASSUME ConversationInv, NEW t \in Turns, UpsertWorkingSnapshot(t)
  PROVE  ConversationInv'
  <1> DEFINE c   == turn[t].conv
             h   == Subject(t)
             new == [count |-> Len(h), last |-> h[Len(h)]]
             tr  == [turn[t] EXCEPT !.pc = AfterSnapshot(turn[t]), !.absent = FALSE]
  <1>1. /\ turn[t].pc = "summarize" /\ UNCHANGED <<current, convs, history>>
        /\ turn' = [turn EXCEPT ![t] = tr]
        /\ \/ snapshot' = [snapshot EXCEPT ![c] = new]
           \/ turn[t].absent /\ snapshot[c] # NoSnapshot /\ UNCHANGED snapshot
    BY TurnFacts DEF UpsertWorkingSnapshot, At
  <1>2. /\ ~turn[t].saved /\ Created(c) /\ turn[t].phase \in {"prompt", "persist"}
        /\ c \in ConvIds
        /\ (turn[t].stored <=> turn[t].phase = "persist") /\ turn[t].stored \in BOOLEAN
    <2>1. turn[t].stored \in BOOLEAN
      BY TurnFacts DEF TurnState
    <2> QED BY <1>1, <2>1, TurnFacts DEF TurnIsSound
  <1>3. /\ tr \in TurnState /\ tr.pc # "new" /\ tr.alone = turn[t].alone
        /\ tr.phase = turn[t].phase /\ tr.conv = c
        /\ tr.hist = turn[t].hist /\ tr.stored = turn[t].stored /\ ~tr.saved
        /\ turn[t].phase = "prompt" => tr.pc = "answer"
        /\ turn[t].phase = "persist" => tr.pc = "remember"
    BY <1>2, TurnFacts, ZenonT(60) DEF TurnState, Steps, AfterSnapshot
  <1>4. /\ h \in Seq(Turns) /\ Len(h) \in 1 .. NumTurns
        /\ Lone(t) /\ IsWhole(c) => h = history[c]
        /\ turn[t].phase = "persist" => Len(h) = Len(turn[t].hist) + 1
    BY <1>1, SubjectIsSound
  <1>5. new \in [count : 0 .. NumTurns, last : 0 .. NumTurns] /\ new # NoSnapshot
        /\ new.count = Len(h) /\ new.last = h[Len(h)]
    BY <1>4, TurnSeq DEF NoSnapshot
  <1> HIDE DEF tr, h, new, c
  <1>6. snapshot' \in [ConvIds -> [count : 0 .. NumTurns, last : 0 .. NumTurns]]
    BY <1>1, <1>5, TurnFacts
  <1>7. TurnMoves(t, tr) /\ turn'[t] = tr
    <2>1. TurnMoves(t, tr)
      BY <1>1, <1>3 DEF TurnMoves, UnderWay
    <2> QED BY <2>1, TurnFacts, MoveFacts
  <1>8. TurnIsSound(t)'
    BY <1>1, <1>2, <1>3, <1>7 DEF TurnIsSound, Created, c
  <1>9. HistoriesAreStored'
    BY <1>1, <1>3, <1>7, TurnFacts, MoveHistories
  <1>10. ConversationsAreBounded'
    BY <1>1, <1>2, <1>3, <1>7, MoveCreators DEF CreatesFirst, CreatesAgain
  <1>11. ASSUME Lone(t)
         PROVE  HistoriesAreKept' /\ SnapshotsAreTrue' /\ ReadsItsHistory(t)' /\ RefreshesItsSnapshot(t)'
    <2>1. ReadsItsHistory(t) /\ RefreshesItsSnapshot(t) /\ HistoriesAreKept /\ SnapshotsAreTrue
      BY <1>11 DEF ConversationInv, LoneTurnsBuild
    <2>2. snapshot' = [snapshot EXCEPT ![c] = new]
      BY <1>1, <2>1 DEF RefreshesItsSnapshot, c
    <2>3. snapshot'[c] = new /\ \A k \in ConvIds : k # c => snapshot'[k] = snapshot[k]
      BY <1>2, <2>2, TurnFacts
    <2>4. \A k \in ConvIds : StoredIn(k)' = StoredIn(k)
      BY <1>3, <1>7, MoveStored DEF c
    <2>5. HistoriesAreKept'
      BY <1>1, <2>1, <2>4 DEF HistoriesAreKept, IsRecentPart
    <2>6. \A k \in ConvIds : IsWhole(k)' <=> IsWhole(k)
      BY <1>1, <2>4 DEF IsWhole
    <2>7. SnapshotsAreTrue'
      <3> SUFFICES ASSUME NEW k \in ConvIds, snapshot'[k] # NoSnapshot, IsWhole(k)
                   PROVE  /\ snapshot'[k].count \in 1 .. Len(history[k])
                          /\ snapshot'[k].last = history[k][snapshot'[k].count]
        BY <1>1, <2>6 DEF SnapshotsAreTrue
      <3>1. CASE k = c
        BY <1>4, <1>5, <1>11, <2>3, <3>1
      <3>2. CASE k # c
        BY <2>1, <2>3, <3>2 DEF SnapshotsAreTrue
      <3> QED BY <3>1, <3>2
    <2>8. ReadsItsHistory(t)'
      BY <1>1, <1>2, <1>3, <1>7, <2>1, MoveReads DEF c
    <2>9. RefreshesItsSnapshot(t)'
      <3>1. tr.pc = "remember" => Len(tr.hist) + 1 - new.count < RefreshAfter
        <4> SUFFICES ASSUME tr.pc = "remember" PROVE Len(tr.hist) + 1 - new.count < RefreshAfter
          OBVIOUS
        <4>1. Len(h) = Len(tr.hist) + 1 /\ Len(h) \in Nat /\ RefreshAfter \in Nat \ {0}
          BY <1>2, <1>3, <1>4, ConversationAssumption
        <4> QED BY <1>5, <4>1
      <3>2. snapshot'[turn'[t].conv] = new
        BY <1>3, <1>7, <2>3
      <3> QED BY <1>2, <1>3, <1>5, <1>7, <3>1, <3>2 DEF RefreshesItsSnapshot
    <2> QED BY <2>5, <2>7, <2>8, <2>9
  <1>12. /\ convs' \in 0 .. 2 * NumTurns /\ convs' >= convs /\ current' \in 0 .. convs'
         /\ history' \in [ConvIds -> Seq(Turns)]
         /\ snapshot' \in [ConvIds -> [count : 0 .. NumTurns, last : 0 .. NumTurns]]
    BY <1>1, <1>6, TurnFacts
  <1>13. Lone(t) /\ OthersAreOver(t) =>
           HistoriesAreKept' /\ SnapshotsAreTrue' /\ ReadsItsHistory(t)' /\ RefreshesItsSnapshot(t)'
    BY <1>11
  <1> QED BY <1>7, <1>8, <1>9, <1>10, <1>12, <1>13, MoveInv, Zenon

\* The turns that a lone one finds stored began before it.
LEMMA StoredBeforeLone ==
  ASSUME ConversationInv, NEW t \in Turns, Lone(t), NEW k \in Turns, turn[k].stored
  PROVE  k <= t
  <1>1. ~At(k, "new")
    BY DEF ConversationInv, TurnIsSound, NewTurn, At
  <1>2. ~(k > t)
    BY <1>1 DEF Lone
  <1> QED BY <1>2 DEF Turns

LEMMA UpdateHistoryInv ==
  ASSUME ConversationInv, NEW t \in Turns, UpdateConversationHistory(t)
  PROVE  ConversationInv'
  <1> DEFINE c   == turn[t].conv
             old == turn[t].hist
             g   == Append(old, t)
             new == Recent(g)
             tr  == [turn[t] EXCEPT !.pc = "snapshot", !.phase = "persist", !.stored = TRUE]
  <1>1. /\ turn[t].pc = "persist" /\ UNCHANGED <<current, convs, snapshot>>
        /\ turn' = [turn EXCEPT ![t] = tr]
        /\ history' = [history EXCEPT ![c] = new]
    BY TurnFacts DEF UpdateConversationHistory, At
  <1>2. /\ ~turn[t].saved /\ ~turn[t].stored /\ Created(c) /\ c \in ConvIds /\ old \in Seq(Turns)
    BY <1>1, TurnFacts DEF TurnIsSound
  <1>3. /\ tr \in TurnState /\ tr.pc = "snapshot" /\ tr.alone = turn[t].alone
        /\ tr.phase = "persist" /\ tr.conv = c /\ tr.hist = old /\ tr.stored /\ ~tr.saved
    BY <1>2, TurnFacts DEF TurnState, Steps
  <1>4. g \in Seq(Turns) /\ new \in Seq(Turns)
    BY <1>2, AppendTurn, RecentSeq
  <1>5. /\ Distinct(old)
        /\ \A i \in 1 .. Len(old) : turn[old[i]].stored /\ old[i] # t /\ old[i] \in Turns
    BY <1>2, TurnSeq DEF ConversationInv, HistoriesAreStored
  <1>6. Distinct(new) /\ \A i \in 1 .. Len(new) : new[i] = t \/ \E j \in 1 .. Len(old) : new[i] = old[j]
    BY <1>2, <1>5, DistinctAppend, RecentMembers
  <1> HIDE DEF tr, new, c
  <1>7. TurnMoves(t, tr) /\ turn'[t] = tr /\ \A k \in Turns : k # t => turn'[k] = turn[k]
    <2>1. TurnMoves(t, tr)
      BY <1>1, <1>3 DEF TurnMoves, UnderWay
    <2> QED BY <2>1, TurnFacts, MoveFacts
  <1>8. /\ history' \in [ConvIds -> Seq(Turns)] /\ history'[c] = new
        /\ \A k \in ConvIds : k # c => history'[k] = history[k]
    BY <1>1, <1>2, <1>4, TurnFacts
  <1>9. TurnIsSound(t)'
    BY <1>1, <1>2, <1>3, <1>7 DEF TurnIsSound, Created, c
  <1>10. \A k \in Turns : turn[k].stored => turn'[k].stored
    BY <1>2, <1>7
  <1>11. HistoriesAreStored'
    <2>1. ASSUME NEW k \in ConvIds
          PROVE  /\ Distinct(history'[k])
                 /\ \A i \in 1 .. Len(history'[k]) : turn'[history'[k][i]].stored
                 /\ ~Created(k)' => history'[k] = <<>>
      <3>1. CASE k = c
        <4>1. Created(k)'
          BY <1>1, <1>2, <3>1 DEF Created
        <4>2. \A i \in 1 .. Len(new) : turn'[new[i]].stored
          BY <1>3, <1>5, <1>6, <1>7, <1>10
        <4> QED BY <1>6, <1>8, <3>1, <4>1, <4>2
      <3>2. CASE k # c
        <4>1. /\ Distinct(history[k]) /\ \A i \in 1 .. Len(history[k]) : turn[history[k][i]].stored
              /\ ~Created(k) => history[k] = <<>>
          BY DEF ConversationInv, HistoriesAreStored
        <4>2. \A i \in 1 .. Len(history[k]) : history[k][i] \in Turns
          BY TurnFacts, TurnSeq
        <4> QED BY <1>1, <1>8, <1>10, <3>2, <4>1, <4>2 DEF Created
      <3> QED BY <3>1, <3>2
    <2>2. ASSUME NEW k \in Turns
          PROVE  LET h == turn'[k].hist IN
                 Distinct(h) /\ \A i \in 1 .. Len(h) : turn'[h[i]].stored /\ h[i] # k
      <3>1. turn'[k].hist = turn[k].hist /\ turn[k].hist \in Seq(Turns)
        BY <1>3, <1>7, TurnFacts
      <3>2. LET h == turn[k].hist IN
            Distinct(h) /\ \A i \in 1 .. Len(h) : turn[h[i]].stored /\ h[i] # k /\ h[i] \in Turns
        BY <3>1, TurnSeq DEF ConversationInv, HistoriesAreStored
      <3> QED BY <1>10, <3>1, <3>2
    <2> QED BY <2>1, <2>2 DEF HistoriesAreStored
  <1>12. ConversationsAreBounded'
    BY <1>1, <1>3, <1>7, MoveCreators DEF CreatesFirst, CreatesAgain
  <1>13. ASSUME Lone(t)
         PROVE  HistoriesAreKept' /\ SnapshotsAreTrue' /\ ReadsItsHistory(t)' /\ RefreshesItsSnapshot(t)'
    <2> DEFINE all == StoredIn(c)
    <2>1. ReadsItsHistory(t) /\ HistoriesAreKept /\ SnapshotsAreTrue
      BY <1>13 DEF ConversationInv, LoneTurnsBuild
    <2>2. old = history[c] /\ IsRecentPart(old, all)
      BY <1>1, <1>2, <2>1 DEF ReadsItsHistory, HistoriesAreKept, c
    <2>3. \A k \in all : k \in Turns /\ k < t
      <3>1. \A k \in all : k \in Turns /\ k # t /\ turn[k].stored
        BY <1>2 DEF StoredIn
      <3>2. \A k \in all : k <= t
        BY <1>13, <3>1, StoredBeforeLone
      <3> QED BY <3>1, <3>2 DEF Turns
    <2>4. /\ \A k \in ConvIds : k = c => StoredIn(k)' = all \cup {t}
          /\ \A k \in ConvIds : k # c => StoredIn(k)' = StoredIn(k)
          /\ StoredIn(turn[t].conv)' = all \cup {t}
      BY <1>2, <1>3, <1>7 DEF StoredIn
    <2> HIDE DEF all, old
    <2>5. IsRecentPart(new, all \cup {t})
      BY <1>2, <2>2, <2>3, RecentOfPart DEF new
    <2>6. HistoriesAreKept'
      <3> SUFFICES ASSUME NEW k \in ConvIds PROVE IsRecentPart(history[k], StoredIn(k))'
        BY DEF HistoriesAreKept
      <3>1. CASE k = c
        <4>1. history'[k] = new /\ StoredIn(k)' = all \cup {t}
          BY <1>8, <2>4, <3>1
        <4> QED BY <2>5, <4>1 DEF IsRecentPart
      <3>2. CASE k # c
        <4>1. history'[k] = history[k] /\ StoredIn(k)' = StoredIn(k) /\ IsRecentPart(history[k], StoredIn(k))
          BY <1>8, <2>1, <2>4, <3>2 DEF HistoriesAreKept
        <4> QED BY <4>1 DEF IsRecentPart
      <3> QED BY <3>1, <3>2
    <2>7. SnapshotsAreTrue'
      <3> SUFFICES ASSUME NEW k \in ConvIds, snapshot[k] # NoSnapshot, IsWhole(k)'
                   PROVE  /\ snapshot[k].count \in 1 .. Len(history'[k])
                          /\ snapshot[k].last = history'[k][snapshot[k].count]
        BY <1>1 DEF SnapshotsAreTrue
      <3>1. CASE k = c
        <4>1. \A j \in all : \E i \in 1 .. Len(new) : new[i] = j
          BY <1>8, <2>4, <3>1 DEF IsWhole
        <4>2. new = g /\ \A j \in all : \E i \in 1 .. Len(old) : old[i] = j
          BY <1>2, <2>2, <2>3, <4>1, WholeFits DEF new
        <4>3. IsWhole(k)
          BY <2>2, <3>1, <4>2 DEF IsWhole, all
        <4>4. snapshot[k].count \in 1 .. Len(old) /\ snapshot[k].last = old[snapshot[k].count]
          BY <2>1, <2>2, <3>1, <4>3 DEF SnapshotsAreTrue
        <4>5. Len(g) = Len(old) + 1 /\ Len(old) \in Nat /\ \A i \in 1 .. Len(old) : g[i] = old[i]
          BY <1>2, AppendTurn, TurnSeq
        <4> HIDE DEF g
        <4> QED BY <1>8, <3>1, <4>2, <4>4, <4>5
      <3>2. CASE k # c
        <4>1. history'[k] = history[k] /\ StoredIn(k)' = StoredIn(k)
          BY <1>8, <2>4, <3>2
        <4>2. IsWhole(k)
          BY <4>1 DEF IsWhole
        <4> QED BY <2>1, <4>1, <4>2 DEF SnapshotsAreTrue
      <3> QED BY <3>1, <3>2
    <2>8. ReadsItsHistory(t)'
      <3>1. (all \cup {t}) \ {t} = all
        BY <2>3 DEF Turns
      <3>2. IsRecentPart(turn'[t].hist, all)
        BY <1>3, <1>7, <2>2
      <3>3. IsRecentPart(turn[t].hist, StoredIn(turn[t].conv) \ {t})'
        BY <2>4, <3>1, <3>2 DEF IsRecentPart
      <3>4. (history[turn[t].conv] = Recent(Append(turn[t].hist, t)))'
        BY <1>3, <1>7, <1>8 DEF new, Recent
      <3> QED BY <1>3, <1>7, <3>3, <3>4 DEF ReadsItsHistory
    <2>9. RefreshesItsSnapshot(t)'
      BY <1>3, <1>7 DEF RefreshesItsSnapshot
    <2> QED BY <2>6, <2>7, <2>8, <2>9
  <1>14. /\ convs' \in 0 .. 2 * NumTurns /\ convs' >= convs /\ current' \in 0 .. convs'
         /\ snapshot' \in [ConvIds -> [count : 0 .. NumTurns, last : 0 .. NumTurns]]
    BY <1>1, TurnFacts
  <1> QED BY <1>7, <1>8, <1>9, <1>11, <1>12, <1>13, <1>14, MoveInv
-----------------------------------------------------------------------------
(* Turns begin, conversations expire.                                       *)

LEMMA BeginTurnInv ==
  ASSUME ConversationInv, NEW t \in Turns, At(t, "new"),
         \A k \in 1 .. t - 1 : ~At(k, "new"), BeginTurn(t),
         UNCHANGED <<current, convs, history, snapshot>>
  PROVE  ConversationInv'
  <1> DEFINE first == [NewTurn EXCEPT !.pc = "load", !.alone = (UnderWay = {})]
  <1>1. /\ ConversationTypes /\ TurnsBeginInOrder /\ HistoriesAreStored
        /\ ConversationsAreBounded /\ LoneTurnsBuild
        /\ turn \in [Turns -> TurnState] /\ \A k \in Turns : TurnIsSound(k)
    BY DEF ConversationInv, ConversationTypes
  <1>2. /\ turn' = [k \in Turns |-> IF k = t THEN first
                                  ELSE IF k \in UnderWay THEN [turn[k] EXCEPT !.alone = FALSE]
                                  ELSE turn[k]]
    BY DEF BeginTurn
  <1>3. /\ first.pc = "load" /\ first.phase = "session" /\ first.hist = <<>>
        /\ ~first.stored /\ ~first.saved /\ first.alone = (UnderWay = {})
        /\ first \in TurnState
    <2>1. <<>> \in Seq(Turns) /\ 0 \in 0 .. 2 * NumTurns
      BY ConversationAssumption
    <2>2. (UnderWay = {}) \in BOOLEAN
      OBVIOUS
    <2> DEFINE lone == (UnderWay = {})
    <2> HIDE DEF lone
    <2>3. LET r == [NewTurn EXCEPT !.pc = "load", !.alone = lone] IN
          lone \in BOOLEAN =>
            /\ r.pc = "load" /\ r.phase = "session" /\ r.hist = <<>>
            /\ ~r.stored /\ ~r.saved /\ r.alone = lone /\ r \in TurnState
      BY <2>1 DEF NewTurn, TurnState, Steps
    <2> QED BY <2>2, <2>3 DEF lone
  <1> HIDE DEF first
  <1>4. /\ turn'[t] = first
        /\ \A k \in Turns : k # t /\ k \in UnderWay => turn'[k] = [turn[k] EXCEPT !.alone = FALSE]
        /\ \A k \in Turns : k # t /\ k \notin UnderWay => turn'[k] = turn[k]
    BY <1>2
  <1>5. \A k \in Turns : k # t =>
          /\ turn'[k] \in TurnState
          /\ turn'[k].pc = turn[k].pc /\ turn'[k].phase = turn[k].phase /\ turn'[k].hist = turn[k].hist
          /\ turn'[k].conv = turn[k].conv /\ turn'[k].from = turn[k].from
          /\ turn'[k].stored = turn[k].stored /\ turn'[k].saved = turn[k].saved
          /\ turn'[k].absent = turn[k].absent
          /\ (turn'[k].alone => k \notin UnderWay)
    <2> SUFFICES ASSUME NEW k \in Turns, k # t
                 PROVE  LET r == turn'[k]
                            q == turn[k] IN
                        /\ r \in TurnState
                        /\ r.pc = q.pc /\ r.phase = q.phase /\ r.hist = q.hist
                        /\ r.conv = q.conv /\ r.from = q.from
                        /\ r.stored = q.stored /\ r.saved = q.saved /\ r.absent = q.absent
                        /\ (r.alone => k \notin UnderWay)
      OBVIOUS
    <2>1. turn[k] \in TurnState
      BY <1>1
    <2>2. CASE k \in UnderWay
      <3>1. turn'[k] = [turn[k] EXCEPT !.alone = FALSE]
        BY <1>4, <2>2
      <3> QED BY <2>1, <3>1 DEF TurnState
    <2>3. CASE k \notin UnderWay
      BY <1>4, <2>1, <2>3
    <2> QED BY <2>2, <2>3
  <1>6. turn' \in [Turns -> TurnState]
    BY <1>2, <1>3, <1>4, <1>5
  <1>7. ConversationTypes'
    BY <1>1, <1>6 DEF ConversationTypes
  <1>8. turn[t] = NewTurn /\ ~turn[t].stored /\ ~turn[t].saved
    BY <1>1 DEF At, TurnIsSound, NewTurn
  <1>9. ASSUME NEW k \in Turns
        PROVE  TurnIsSound(k)'
    <2>1. CASE k = t
      BY <1>3, <1>4, <2>1 DEF TurnIsSound
    <2>2. CASE k # t
      <3>1. turn[k].pc = "new" => turn'[k] = turn[k]
        BY <1>4, <2>2 DEF UnderWay
      <3>2. Subject(k)' = Subject(k)
        BY <1>5, <2>2 DEF Subject
      <3> QED BY <1>1, <1>5, <2>2, <3>1, <3>2 DEF TurnIsSound, Created
    <2> QED BY <2>1, <2>2
  <1>10. \A k \in Turns : k < t => turn[k].pc # "new"
    BY DEF At, Turns
  <1>11. \A k \in Turns : k > t => turn[k].pc = "new"
    BY <1>1 DEF TurnsBeginInOrder, At
  <1>12. \A k \in Turns : k < t \/ k = t \/ k > t
    BY DEF Turns
  <1>13. TurnsBeginInOrder'
    <2>1. 1 \in Turns
      BY ConversationAssumption DEF Turns
    <2>2. turn'[1].pc # "new"
      BY <1>1, <1>3, <1>4, <1>5, <2>1 DEF TurnsBeginInOrder, At
    <2>3. \A k, j \in Turns : k < j /\ turn'[k].pc = "new" => turn'[j].pc = "new"
      <3> SUFFICES ASSUME NEW k \in Turns, NEW j \in Turns, k < j, turn'[k].pc = "new"
                   PROVE  turn'[j].pc = "new"
        OBVIOUS
      <3>1. k # t /\ turn[k].pc = "new"
        BY <1>3, <1>4, <1>5
      <3>2. k > t /\ turn[j].pc = "new"
        BY <1>1, <1>10, <1>12, <3>1 DEF TurnsBeginInOrder, At
      <3>3. j # t
        BY <3>2 DEF Turns
      <3> QED BY <1>5, <3>2, <3>3
    <2>4. \A k, j \in Turns : k > j /\ j \in UnderWay' /\ turn'[j].alone => turn'[k].pc = "new"
      <3> SUFFICES ASSUME NEW k \in Turns, NEW j \in Turns, k > j, j \in UnderWay', turn'[j].alone
                   PROVE  turn'[k].pc = "new"
        OBVIOUS
      <3>1. j = t
        BY <1>5 DEF UnderWay
      <3>2. k # t /\ turn[k].pc = "new"
        BY <1>11, <3>1 DEF Turns
      <3> QED BY <1>5, <3>2
    <2> QED BY <2>2, <2>3, <2>4 DEF TurnsBeginInOrder, At
  <1>14. \A k \in Turns : turn'[k].stored <=> turn[k].stored
    BY <1>3, <1>4, <1>5, <1>8
  <1>15. HistoriesAreStored'
    <2>1. ASSUME NEW c \in ConvIds
          PROVE  /\ Distinct(history'[c])
                 /\ \A i \in 1 .. Len(history'[c]) : turn'[history'[c][i]].stored
                 /\ ~Created(c)' => history'[c] = <<>>
      <3>1. \A i \in 1 .. Len(history[c]) : history[c][i] \in Turns
        BY TurnFacts, TurnSeq
      <3> QED BY <1>1, <1>14, <3>1 DEF HistoriesAreStored, Created
    <2>2. ASSUME NEW k \in Turns
          PROVE  LET h == turn'[k].hist IN
                 Distinct(h) /\ \A i \in 1 .. Len(h) : turn'[h[i]].stored /\ h[i] # k
      <3>1. CASE k = t
        BY <1>3, <1>4, <3>1 DEF Distinct
      <3>2. CASE k # t
        <4>1. LET h == turn[k].hist IN
              Distinct(h) /\ \A i \in 1 .. Len(h) : turn[h[i]].stored /\ h[i] # k /\ h[i] \in Turns
          BY <1>1, TurnFacts, TurnSeq DEF HistoriesAreStored
        <4> QED BY <1>5, <1>14, <3>2, <4>1
      <3> QED BY <3>1, <3>2
    <2> QED BY <2>1, <2>2 DEF HistoriesAreStored
  <1>16. ConversationsAreBounded'
    <2>1. MayCreateFirst' \subseteq MayCreateFirst
      BY <1>5 DEF MayCreateFirst, CreatesFirst, At
    <2>2. MayCreateAgain' \subseteq MayCreateAgain
      BY <1>5 DEF MayCreateAgain, CreatesAgain, At
    <2>3. convs \in Nat /\ UNCHANGED convs
      BY TurnFacts
    <2> QED BY <1>1, <2>1, <2>2, <2>3, NoNewCreators
  <1>17. ASSUME NEW k \in Turns, Lone(k)'
         PROVE  /\ OthersAreOver(k)' /\ HistoriesAreKept' /\ SnapshotsAreTrue'
                /\ ReadsItsHistory(k)' /\ RefreshesItsSnapshot(k)'
    <2>1. turn'[k].pc # "new" /\ (\A i \in Turns : i > k => turn'[i].pc = "new")
          /\ \A i \in 1 .. k : turn'[i].alone
      BY <1>17 DEF Lone, At, OneAfterTheOther
    <2>2. k = t
      BY <1>3, <1>4, <1>5, <1>11, <1>12, <2>1
    <2>3. t # 1 /\ t - 1 \in Turns /\ t \in Nat /\ \A i \in 1 .. t - 1 : i \in Turns /\ i # t
      BY <1>1, ConversationAssumption DEF TurnsBeginInOrder, Turns
    <2>4. UnderWay = {}
      <3>1. t \in 1 .. k
        BY <2>2 DEF Turns
      <3> QED BY <1>3, <1>4, <2>1, <2>2, <3>1
    <2>5. Lone(t - 1)
      <3>1. ~At(t - 1, "new")
        BY <1>10, <2>3 DEF At
      <3>2. \A i \in Turns : i > t - 1 => i = t \/ i > t
        BY <2>3 DEF Turns
      <3>3. \A i \in 1 .. t - 1 : turn[i].alone /\ i \in 1 .. k
        BY <1>4, <2>1, <2>2, <2>3, <2>4
      <3> QED BY <1>11, <3>1, <3>2, <3>3 DEF Lone, At, OneAfterTheOther
    <2>6. HistoriesAreKept /\ SnapshotsAreTrue
      BY <1>1, <2>3, <2>5 DEF LoneTurnsBuild
    <2>7. \A c \in ConvIds : StoredIn(c)' = StoredIn(c)
      BY <1>3, <1>4, <1>5, <1>8 DEF StoredIn
    <2>8. HistoriesAreKept'
      BY <2>6, <2>7 DEF HistoriesAreKept, IsRecentPart
    <2>9. \A c \in ConvIds : IsWhole(c)' <=> IsWhole(c)
      BY <2>7 DEF IsWhole
    <2>10. SnapshotsAreTrue'
      BY <2>6, <2>9 DEF SnapshotsAreTrue
    <2>11. OthersAreOver(k)'
      <3>1. \A i \in 1 .. t - 1 : turn[i].pc = "over"
        BY <1>10, <2>3, <2>4 DEF UnderWay, At
      <3> QED BY <1>5, <2>2, <2>3, <3>1 DEF OthersAreOver, At
    <2>12. ReadsItsHistory(k)' /\ RefreshesItsSnapshot(k)'
      BY <1>3, <1>4, <2>2 DEF ReadsItsHistory, RefreshesItsSnapshot
    <2> QED BY <2>8, <2>10, <2>11, <2>12
  <1>18. LoneTurnsBuild'
    BY <1>17 DEF LoneTurnsBuild
  <1> QED BY <1>7, <1>9, <1>13, <1>15, <1>16, <1>18 DEF ConversationInv

LEMMA ExpiresInv ==
  ASSUME ConversationInv, ConversationExpires
  PROVE  ConversationInv'
  <1>1. current' = 0 /\ UNCHANGED <<convs, history, snapshot, turn>>
    BY DEF ConversationExpires
  <1>2. ConversationTypes'
    BY <1>1 DEF ConversationInv, ConversationTypes
  <1>3. (\A t \in Turns : TurnIsSound(t))'
    BY <1>1 DEF ConversationInv, TurnIsSound, Created, Subject
  <1>4. TurnsBeginInOrder' /\ HistoriesAreStored'
    BY <1>1 DEF ConversationInv, TurnsBeginInOrder, HistoriesAreStored, At, UnderWay, Created
  <1>5. ConversationsAreBounded'
    BY <1>1 DEF ConversationInv, ConversationsAreBounded, MayCreateFirst, MayCreateAgain
  <1>6. ASSUME NEW t \in Turns, Lone(t)'
        PROVE  /\ OthersAreOver(t)' /\ HistoriesAreKept' /\ SnapshotsAreTrue'
               /\ ReadsItsHistory(t)' /\ RefreshesItsSnapshot(t)'
    <2>1. Lone(t)
      BY <1>1, <1>6 DEF Lone, At, OneAfterTheOther
    <2>2. /\ OthersAreOver(t) /\ HistoriesAreKept /\ SnapshotsAreTrue
          /\ ReadsItsHistory(t) /\ RefreshesItsSnapshot(t)
      BY <2>1 DEF ConversationInv, LoneTurnsBuild
    <2>3. \A c : StoredIn(c)' = StoredIn(c)
      BY <1>1 DEF StoredIn
    <2>4. OthersAreOver(t)' /\ RefreshesItsSnapshot(t)'
      BY <1>1, <2>2 DEF OthersAreOver, At, RefreshesItsSnapshot
    <2>5. HistoriesAreKept' /\ SnapshotsAreTrue'
      BY <1>1, <2>2, <2>3 DEF HistoriesAreKept, SnapshotsAreTrue, IsRecentPart, IsWhole
    <2>6. StoredIn(turn[t].conv)' = StoredIn(turn[t].conv)
      BY <1>1 DEF StoredIn
    <2>7. ReadsItsHistory(t)'
      BY <1>1, <2>2, <2>6 DEF ReadsItsHistory, IsRecentPart
    <2> QED BY <2>4, <2>5, <2>7
  <1>7. LoneTurnsBuild'
    BY <1>6 DEF LoneTurnsBuild
  <1> QED BY <1>2, <1>3, <1>4, <1>5, <1>7 DEF ConversationInv
-----------------------------------------------------------------------------
(* The steps of the assistant, one by one.                                  *)

\* A step moves on, or is the last one.
LEMMA StepQuiet ==
  ASSUME ConversationInv, NEW t \in Turns, t \in UnderWay, NEW x \in {"over", "answer", "persist"},
         x = "answer" => turn[t].phase = "prompt" /\ turn[t].pc \in {"snapshot", "summarize"},
         x = "persist" => turn[t].pc = "answer",
         turn' = [turn EXCEPT ![t].pc = x], UNCHANGED <<current, convs, history, snapshot>>
  PROVE  ConversationInv'
  <1> DEFINE tr == [turn[t] EXCEPT !.pc = x]
  <1>1. turn' = [turn EXCEPT ![t] = tr]
    BY TurnFacts
  <1>2. ~turn[t].saved
    BY TurnFacts DEF UnderWay, TurnIsSound
  <1>3. /\ tr \in TurnState /\ tr.pc = x /\ tr.alone = turn[t].alone
        /\ tr.phase = turn[t].phase /\ tr.conv = turn[t].conv /\ tr.from = turn[t].from
        /\ tr.hist = turn[t].hist /\ tr.stored = turn[t].stored /\ ~tr.saved
    BY <1>2, TurnFacts DEF TurnState, Steps
  <1> HIDE DEF tr
  <1>4. TurnMoves(t, tr)
    BY <1>1, <1>3 DEF TurnMoves
  <1> QED BY <1>3, <1>4, QuietMoveInv DEF QuietMove

LEMMA AbandonInv ==
  ASSUME ConversationInv, NEW t \in Turns, t \in UnderWay, NEW tr \in Abandon(t, turn[t]),
         turn' = [turn EXCEPT ![t] = tr], UNCHANGED <<current, convs, history, snapshot>>
  PROVE  ConversationInv'
  <1>1. CASE tr = [turn[t] EXCEPT !.pc = "over"]
    <2>1. turn' = [turn EXCEPT ![t].pc = "over"]
      BY <1>1
    <2> QED BY <2>1, StepQuiet
  <1>2. CASE Persisting(t) /\ tr = [turn[t] EXCEPT !.detached = TRUE]
    <2>1. ~turn[t].saved
      BY TurnFacts DEF UnderWay, TurnIsSound
    <2>2. /\ tr \in TurnState /\ tr.pc = turn[t].pc /\ tr.alone = turn[t].alone
          /\ tr.phase = turn[t].phase /\ tr.conv = turn[t].conv /\ tr.from = turn[t].from
          /\ tr.hist = turn[t].hist /\ tr.stored = turn[t].stored /\ ~tr.saved
          /\ tr.absent = turn[t].absent
      BY <1>2, <2>1, TurnFacts DEF TurnState
    <2>3. TurnMoves(t, tr)
      BY <2>2 DEF TurnMoves, UnderWay
    <2> QED BY <1>2, <2>2, <2>3, QuietMoveInv DEF QuietMove
  <1> QED BY <1>1, <1>2 DEF Abandon

LEMMA RememberInv ==
  ASSUME ConversationInv, NEW t \in Turns, NEW storing, RememberTurn(t, storing)
  PROVE  ConversationInv'
  <1> DEFINE tr == [turn[t] EXCEPT !.pc = "over", !.saved = TRUE]
  <1>1. /\ turn[t].pc = "remember" /\ UNCHANGED <<current, convs, history, snapshot>>
        /\ turn' = [turn EXCEPT ![t] = tr]
    BY TurnFacts DEF RememberTurn, At
  <1>2. /\ tr \in TurnState /\ tr.pc = "over" /\ tr.alone = turn[t].alone
        /\ tr.phase = turn[t].phase /\ tr.conv = turn[t].conv /\ tr.from = turn[t].from
        /\ tr.hist = turn[t].hist /\ tr.stored = turn[t].stored
    BY TurnFacts DEF TurnState, Steps
  <1> HIDE DEF tr
  <1>3. TurnMoves(t, tr)
    BY <1>1, <1>2 DEF TurnMoves, UnderWay
  <1> QED BY <1>1, <1>2, <1>3, QuietMoveInv DEF QuietMove

LEMMA UnchangedConversationInv ==
  ASSUME ConversationInv, UNCHANGED <<current, convs, history, snapshot, turn>>
  PROVE  ConversationInv'
  <1>1. ConversationTypes'
    BY DEF ConversationInv, ConversationTypes
  <1>2. (\A t \in Turns : TurnIsSound(t))'
    BY DEF ConversationInv, TurnIsSound, Created, Subject
  <1>3. TurnsBeginInOrder' /\ HistoriesAreStored'
    BY DEF ConversationInv, TurnsBeginInOrder, HistoriesAreStored, At, UnderWay, Created
  <1>4. ConversationsAreBounded'
    BY DEF ConversationInv, ConversationsAreBounded, MayCreateFirst, MayCreateAgain
  <1>5. ASSUME NEW t \in Turns, Lone(t)'
        PROVE  /\ OthersAreOver(t)' /\ HistoriesAreKept' /\ SnapshotsAreTrue'
               /\ ReadsItsHistory(t)' /\ RefreshesItsSnapshot(t)'
    <2>1. Lone(t)
      BY <1>5 DEF Lone, At, OneAfterTheOther
    <2>2. /\ OthersAreOver(t) /\ HistoriesAreKept /\ SnapshotsAreTrue
          /\ ReadsItsHistory(t) /\ RefreshesItsSnapshot(t)
      BY <2>1 DEF ConversationInv, LoneTurnsBuild
    <2>3. \A c : StoredIn(c)' = StoredIn(c)
      BY DEF StoredIn
    <2>4. OthersAreOver(t)' /\ RefreshesItsSnapshot(t)'
      BY <2>2 DEF OthersAreOver, At, RefreshesItsSnapshot
    <2>5. HistoriesAreKept' /\ SnapshotsAreTrue'
      BY <2>2, <2>3 DEF HistoriesAreKept, SnapshotsAreTrue, IsRecentPart, IsWhole
    <2>6. StoredIn(turn[t].conv)' = StoredIn(turn[t].conv)
      BY DEF StoredIn
    <2>7. ReadsItsHistory(t)'
      BY <2>2, <2>6 DEF ReadsItsHistory, IsRecentPart
    <2> QED BY <2>4, <2>5, <2>7
  <1>6. LoneTurnsBuild'
    BY <1>5 DEF LoneTurnsBuild
  <1> QED BY <1>1, <1>2, <1>3, <1>4, <1>6 DEF ConversationInv

\* The request of a socket's question is cancelled, or nothing is under way.
LEMMA CancelInv ==
  ASSUME ConversationInv, NEW s \in Sockets, (Answering(s) /\ Cancel(s)) \/ UNCHANGED turn,
         UNCHANGED <<current, convs, history, snapshot>>
  PROVE  ConversationInv'
  <1>1. CASE UNCHANGED turn
    BY <1>1, UnchangedConversationInv
  <1>2. CASE Answering(s) /\ Cancel(s)
    <2>1. sock[s].turn \in UnderWay /\ sock[s].turn \in Turns
      BY <1>2 DEF Answering, UnderWay
    <2>2. PICK tr \in Abandon(sock[s].turn, turn[sock[s].turn]) :
            turn' = [turn EXCEPT ![sock[s].turn] = tr]
      BY <1>2 DEF Cancel
    <2> QED BY <2>1, <2>2, AbandonInv
  <1> QED BY <1>1, <1>2

LEMMA FailsInv ==
  ASSUME ConversationInv, NEW t \in Turns, StepFails(t)
  PROVE  ConversationInv'
  <1>1. t \in UnderWay /\ UNCHANGED <<current, convs, history, snapshot>>
    BY DEF StepFails
  <1>2. CASE turn[t].phase = "prompt" /\ turn[t].pc \in {"snapshot", "summarize"}
    BY <1>1, <1>2, StepQuiet DEF StepFails
  <1>3. CASE ~(turn[t].phase = "prompt" /\ turn[t].pc \in {"snapshot", "summarize"})
    BY <1>1, <1>3, StepQuiet DEF StepFails
  <1> QED BY <1>2, <1>3

LEMMA NextConversationInv ==
  ASSUME ConversationInv, [Next]_vars
  PROVE  ConversationInv'
  <1>1. CASE UNCHANGED conversationVars
    BY <1>1, UnchangedConversationInv DEF conversationVars
  <1>2. ASSUME NEW s \in Sockets, Question(s)
        PROVE  ConversationInv'
    BY <1>2, BeginTurnInv DEF Question
  <1>3. ASSUME NEW s \in Sockets, SocketOnly(s)
        PROVE  ConversationInv'
    BY <1>1, <1>3 DEF SocketOnly
  <1>4. ASSUME NEW s \in Sockets, PassChunk(s) \/ StreamEndsEarly(s)
        PROVE  ConversationInv'
    BY <1>4, CancelInv DEF PassChunk, StreamEndsEarly
  <1>5. ASSUME NEW t \in Turns, LoadAndPersist(t)
        PROVE  ConversationInv'
    BY <1>5, GetConversationIDInv, CreateConversationIDInv, GetConversationHistoryInv,
       ReadSnapshotInv, UpsertInv, UpdateHistoryInv DEF LoadAndPersist
  <1>6. ASSUME NEW t \in Turns, Answer(t) \/ AnswerNothing(t)
        PROVE  ConversationInv'
    <2>1. t \in UnderWay /\ turn[t].pc = "answer"
      BY <1>6 DEF Answer, AnswerNothing, At, UnderWay
    <2> QED BY <1>6, <2>1, StepQuiet DEF Answer, AnswerNothing
  <1>7. ASSUME NEW t \in Turns, NEW storing \in BOOLEAN, Remember(t, storing)
        PROVE  ConversationInv'
    BY <1>7, RememberInv DEF Remember
  <1>8. ASSUME NEW t \in Turns, PersistTimesOut(t)
        PROVE  ConversationInv'
    <2>1. t \in UnderWay
      BY <1>8 DEF PersistTimesOut, Persisting, UnderWay
    <2>2. PICK tr \in Abandon(t, turn[t]) : turn' = [turn EXCEPT ![t] = tr]
      BY <1>8 DEF PersistTimesOut
    <2> QED BY <1>8, <2>1, <2>2, AbandonInv DEF PersistTimesOut
  <1>9. ConversationExpires \/ UNCHANGED vars => ConversationInv'
    BY <1>1, ExpiresInv DEF vars
  <1> QED BY <1>1, <1>2, <1>3, <1>4, <1>5, <1>6, <1>7, <1>8, <1>9, FailsInv DEF Next, TurnStep
LEMMA InitConversationInv == Init => ConversationInv
  <1> SUFFICES ASSUME Init PROVE ConversationInv
    OBVIOUS
  <1> DEFINE one == [NewTurn EXCEPT !.pc = "over", !.conv = 1, !.stored = TRUE, !.saved = TRUE]
             row == IF WorkingTrigger = 1 THEN [count |-> 1, last |-> 1] ELSE NoSnapshot
  <1>1. /\ current \in {0, 1} /\ convs = 1
        /\ history = [c \in ConvIds |-> IF c = 1 THEN <<1>> ELSE <<>>]
        /\ snapshot = [c \in ConvIds |-> IF c = 1 THEN row ELSE NoSnapshot]
        /\ turn = [t \in Turns |-> IF t = 1 THEN one ELSE NewTurn]
    BY DEF Init, InitConversation, InitOneSocket, InitManySockets, InitRemembering, InitBacklog
  <1>2. /\ NumTurns \in Nat \ {0} /\ 1 \in Turns /\ 1 \in ConvIds /\ 1 \in 0 .. 2 * NumTurns
        /\ HistoryCap \in Nat \ {0} /\ WorkingTrigger \in Nat \ {0} /\ RefreshAfter \in Nat \ {0}
    BY ConversationAssumption DEF Turns, ConvIds
  <1>3. <<>> \in Seq(Turns) /\ <<1>> \in Seq(Turns) /\ Len(<<1>>) = 1 /\ <<1>>[1] = 1
        /\ Len(<<>>) = 0
    BY <1>2
  <1>4. /\ NewTurn \in TurnState /\ NewTurn.pc = "new" /\ NewTurn.phase = "session"
        /\ NewTurn.hist = <<>> /\ ~NewTurn.stored /\ ~NewTurn.saved /\ NewTurn.alone
    BY <1>2, <1>3 DEF NewTurn, TurnState, Steps
  <1>5. /\ one \in TurnState /\ one.pc = "over" /\ one.conv = 1 /\ one.hist = <<>>
        /\ one.stored /\ one.saved /\ one.alone /\ one.phase = "session"
    BY <1>2, <1>4 DEF TurnState, Steps, NewTurn
  <1>6. row \in [count : 0 .. NumTurns, last : 0 .. NumTurns]
        /\ (row # NoSnapshot => WorkingTrigger = 1 /\ row.count = 1 /\ row.last = 1)
        /\ (WorkingTrigger = 1 => row # NoSnapshot)
        /\ NoSnapshot \in [count : 0 .. NumTurns, last : 0 .. NumTurns]
    BY <1>2 DEF NoSnapshot
  <1> HIDE DEF one, row
  <1>7. /\ turn[1] = one /\ \A t \in Turns : t # 1 => turn[t] = NewTurn
        /\ history[1] = <<1>> /\ \A c \in ConvIds : c # 1 => history[c] = <<>>
        /\ snapshot[1] = row /\ \A c \in ConvIds : c # 1 => snapshot[c] = NoSnapshot
    BY <1>1, <1>2
  <1>8. ConversationTypes
    BY <1>1, <1>2, <1>3, <1>4, <1>5, <1>6 DEF ConversationTypes
  <1>9. ASSUME NEW t \in Turns
        PROVE  TurnIsSound(t)
    <2>1. CASE t = 1
      BY <1>1, <1>5, <1>7, <2>1 DEF TurnIsSound, Created
    <2>2. CASE t # 1
      BY <1>4, <1>7, <2>2 DEF TurnIsSound
    <2> QED BY <2>1, <2>2
  <1>10. TurnsBeginInOrder
    <2>1. \A k, t \in Turns : k < t => t # 1
      BY DEF Turns
    <2>2. \A t \in Turns : t \notin UnderWay
      BY <1>4, <1>5, <1>7 DEF UnderWay
    <2> QED BY <1>4, <1>5, <1>7, <2>1, <2>2 DEF TurnsBeginInOrder, At
  <1>11. HistoriesAreStored
    <2>1. ASSUME NEW c \in ConvIds
          PROVE  /\ Distinct(history[c])
                 /\ \A i \in 1 .. Len(history[c]) : turn[history[c][i]].stored
                 /\ ~Created(c) => history[c] = <<>>
      <3>1. CASE c = 1
        BY <1>1, <1>3, <1>5, <1>7, <3>1 DEF Distinct, Created
      <3>2. CASE c # 1
        BY <1>3, <1>7, <3>2 DEF Distinct
      <3> QED BY <3>1, <3>2
    <2>2. \A t \in Turns : turn[t].hist = <<>>
      BY <1>4, <1>5, <1>7
    <2> QED BY <1>3, <2>1, <2>2 DEF HistoriesAreStored, Distinct
  <1>12. ConversationsAreBounded
    <2>1. MayCreateFirst \in SUBSET (2 .. NumTurns) /\ MayCreateAgain \in SUBSET (2 .. NumTurns)
      <3>1. \A t \in Turns : t \in MayCreateFirst \/ t \in MayCreateAgain => t # 1
        BY <1>5, <1>7 DEF MayCreateFirst, MayCreateAgain, CreatesFirst, CreatesAgain
      <3>2. \A t \in Turns : t # 1 => t \in 2 .. NumTurns
        BY <1>2 DEF Turns
      <3> QED BY <3>1, <3>2 DEF MayCreateFirst, MayCreateAgain
    <2>2. IsFiniteSet(2 .. NumTurns) /\ Cardinality(2 .. NumTurns) = NumTurns - 1
      <3>1. 2 \in Int /\ NumTurns \in Int
        BY <1>2
      <3>2. IsFiniteSet(2 .. NumTurns)
            /\ Cardinality(2 .. NumTurns) = IF 2 > NumTurns THEN 0 ELSE NumTurns - 2 + 1
        BY <3>1, FS_Interval
      <3>3. IF 2 > NumTurns THEN 0 = NumTurns - 1 ELSE NumTurns - 2 + 1 = NumTurns - 1
        BY <1>2
      <3> QED BY <3>2, <3>3
    <2>3. /\ Cardinality(MayCreateFirst) <= NumTurns - 1
          /\ Cardinality(MayCreateAgain) <= NumTurns - 1
      <3> DEFINE rest == 2 .. NumTurns
      <3>1. /\ IsFiniteSet(rest) /\ Cardinality(rest) = NumTurns - 1
            /\ MayCreateFirst \in SUBSET rest /\ MayCreateAgain \in SUBSET rest
        BY <2>1, <2>2
      <3> HIDE DEF rest
      <3>2. /\ Cardinality(MayCreateFirst) <= Cardinality(rest)
            /\ Cardinality(MayCreateAgain) <= Cardinality(rest)
        BY <3>1, FS_Subset
      <3> QED BY <3>1, <3>2
    <2>4. Cardinality(MayCreateFirst) \in Nat /\ Cardinality(MayCreateAgain) \in Nat
      BY MayCreateFinite
    <2> QED BY <1>1, <1>2, <2>3, <2>4 DEF ConversationsAreBounded
  <1>13. ASSUME NEW t \in Turns, Lone(t)
         PROVE  /\ OthersAreOver(t) /\ HistoriesAreKept /\ SnapshotsAreTrue
                /\ ReadsItsHistory(t) /\ RefreshesItsSnapshot(t)
    <2>1. t = 1
      BY <1>4, <1>7, <1>13 DEF Lone, At
    <2>2. /\ StoredIn(1) = {1} /\ \A c \in ConvIds : c # 1 => StoredIn(c) = {}
      BY <1>2, <1>4, <1>5, <1>7 DEF StoredIn
    <2>3. HistoriesAreKept
      <3>1. IsRecentPart(<<1>>, {1})
        BY <1>2, <1>3 DEF IsRecentPart
      <3>2. IsRecentPart(<<>>, {})
        BY <1>2, <1>3 DEF IsRecentPart
      <3> QED BY <1>7, <2>2, <3>1, <3>2 DEF HistoriesAreKept
    <2>4. SnapshotsAreTrue
      <3> SUFFICES ASSUME NEW c \in ConvIds, snapshot[c] # NoSnapshot
                   PROVE  /\ snapshot[c].count \in 1 .. Len(history[c])
                          /\ snapshot[c].last = history[c][snapshot[c].count]
        BY DEF SnapshotsAreTrue
      <3>1. c = 1 /\ snapshot[c] = row /\ history[c] = <<1>>
        BY <1>7
      <3>2. row.count = 1 /\ row.last = 1
        BY <1>6, <3>1
      <3> QED BY <1>3, <3>1, <3>2
    <2>5. ReadsItsHistory(t)
      <3>1. IsRecentPart(<<>>, StoredIn(1) \ {1})
        BY <1>2, <1>3, <2>2 DEF IsRecentPart
      <3>2. Append(<<>>, 1) = <<1>>
        OBVIOUS
      <3>4. Recent(<<1>>) = <<1>>
        <4> DEFINE h == <<1>>
        <4>1. h \in Seq(Turns) /\ Len(h) <= HistoryCap
          BY <1>2, <1>3
        <4> HIDE DEF h
        <4>2. Recent(h) = h
          BY <4>1, RecentSeq
        <4> QED BY <4>2 DEF h
      <3> QED BY <1>5, <1>7, <2>1, <3>1, <3>2, <3>4 DEF ReadsItsHistory
    <2>6. RefreshesItsSnapshot(t)
      BY <1>2, <1>3, <1>5, <1>6, <1>7, <2>1 DEF RefreshesItsSnapshot
    <2>7. OthersAreOver(t)
      BY <2>1 DEF OthersAreOver
    <2> QED BY <2>3, <2>4, <2>5, <2>6, <2>7
  <1>14. LoneTurnsBuild
    BY <1>13 DEF LoneTurnsBuild
  <1> QED BY <1>8, <1>9, <1>10, <1>11, <1>12, <1>14 DEF ConversationInv

\* What the turns rely on holds in every state of the assistant.
THEOREM AssistantConversations == Spec => []ConversationInv
  BY InitConversationInv, NextConversationInv, PTL DEF Spec

-----------------------------------------------------------------------------
(* What follows for the user.                                               *)

\* The turns before a lone one, as the properties count them.
LEMMA StoredBeforeIs ==
  ASSUME ConversationInv, NEW t \in Turns, Lone(t)
  PROVE  /\ StoredBefore(t) = StoredIn(turn[t].conv) \ {t}
         /\ turn[t].stored => StoredBefore(t) \cup {t} = StoredIn(turn[t].conv)
         /\ ~turn[t].stored => StoredBefore(t) = StoredIn(turn[t].conv)
  <1>1. \A k \in Turns : turn[k].stored => k <= t
    BY StoredBeforeLone
  <1>2. \A k : k \in 1 .. t - 1 <=> k \in Turns /\ k <= t /\ k # t
    BY ConversationAssumption DEF Turns
  <1>3. StoredBefore(t) = StoredIn(turn[t].conv) \ {t}
    BY <1>1, <1>2 DEF StoredBefore, StoredIn
  <1>4. t \in StoredIn(turn[t].conv) <=> turn[t].stored
    BY DEF StoredIn
  <1> QED BY <1>3, <1>4

LEMMA ConversationsBuild == ConversationInv => TurnsBuildOnEachOther
  <1> SUFFICES ASSUME ConversationInv, NEW t \in Turns, OneAfterTheOther(t)
               PROVE  /\ turn[t].pc \in {"snapshot", "summarize", "answer", "persist", "remember"}
                           => IsRecentPart(turn[t].hist, StoredBefore(t))
                      /\ turn[t].stored /\ (\A k \in Turns : k > t => At(k, "new"))
                           => IsRecentPart(history[turn[t].conv], StoredBefore(t) \cup {t})
    BY DEF TurnsBuildOnEachOther
  <1>1. /\ TurnsBeginInOrder /\ LoneTurnsBuild /\ TurnIsSound(t) /\ turn[t] \in TurnState
    BY TurnFacts DEF ConversationInv
  <1>2. ASSUME turn[t].pc \in {"snapshot", "summarize", "answer", "persist", "remember"}
        PROVE  IsRecentPart(turn[t].hist, StoredBefore(t))
    <2>1. t \in UnderWay /\ turn[t].alone
      <3>1. t \in 1 .. t
        BY DEF Turns
      <3> QED BY <1>2, <3>1 DEF UnderWay, OneAfterTheOther
    <2>2. Lone(t)
      BY <1>1, <2>1 DEF TurnsBeginInOrder, Lone, At, UnderWay
    <2>3. ReadsItsHistory(t) /\ HistoriesAreKept
      BY <1>1, <2>2 DEF LoneTurnsBuild
    <2>4. CASE turn[t].stored
      BY <2>2, <2>3, <2>4, StoredBeforeIs DEF ReadsItsHistory
    <2>5. CASE ~turn[t].stored
      <3>1. turn[t].pc # "remember" /\ Created(turn[t].conv)
        BY <1>1, <1>2, <2>5 DEF TurnIsSound
      <3>2. turn[t].hist = history[turn[t].conv] /\ turn[t].conv \in ConvIds
        BY <1>2, <2>3, <2>5, <3>1, TurnFacts DEF ReadsItsHistory
      <3> QED BY <2>2, <2>3, <2>5, <3>2, StoredBeforeIs DEF HistoriesAreKept
    <2> QED BY <2>4, <2>5
  <1>3. ASSUME turn[t].stored, \A k \in Turns : k > t => At(k, "new")
        PROVE  IsRecentPart(history[turn[t].conv], StoredBefore(t) \cup {t})
    <2>1. Lone(t) /\ turn[t].conv \in ConvIds
      BY <1>1, <1>3, TurnFacts DEF Lone, TurnIsSound, NewTurn, At
    <2> QED BY <1>1, <1>3, <2>1, StoredBeforeIs DEF LoneTurnsBuild, HistoriesAreKept
  <1> QED BY <1>2, <1>3

LEMMA ConversationsRemember == ConversationInv => SnapshotIsRecent
  <1> SUFFICES ASSUME ConversationInv, NEW t \in Turns, OneAfterTheOther(t), turn[t].saved,
                      \A k \in Turns : k > t => At(k, "new"),
                      WorkingTrigger <= Len(Append(turn[t].hist, t)),
                      Len(Append(turn[t].hist, t)) <= HistoryCap
               PROVE  \E i \in 1 .. Len(Append(turn[t].hist, t)) :
                        /\ Append(turn[t].hist, t)[i] = snapshot[turn[t].conv].last
                        /\ i > Len(Append(turn[t].hist, t)) - RefreshAfter
    BY DEF SnapshotIsRecent
  <1> DEFINE h == turn[t].hist
             c == turn[t].conv
             g == Append(h, t)
  <1>1. turn[t].stored /\ ~At(t, "new") /\ c \in ConvIds
    BY TurnFacts DEF TurnIsSound, NewTurn, At
  <1>2. Lone(t)
    BY <1>1 DEF Lone
  <1>3. ReadsItsHistory(t) /\ RefreshesItsSnapshot(t) /\ SnapshotsAreTrue
    BY <1>2 DEF ConversationInv, LoneTurnsBuild
  <1>4. /\ g \in Seq(Turns) /\ Len(g) = Len(h) + 1 /\ Len(h) \in Nat
        /\ (\A i \in 1 .. Len(h) : g[i] = h[i]) /\ g[Len(h) + 1] = t
    BY TurnFacts, AppendTurn, TurnSeq
  <1>5. IsRecentPart(h, StoredIn(c) \ {t}) /\ history[c] = Recent(g)
    BY <1>1, <1>3 DEF ReadsItsHistory
  <1>6. history[c] = g
    BY <1>4, <1>5, RecentSeq
  <1>7. IsWhole(c)
    <2>1. \A k \in StoredIn(c) \ {t} : \E i \in 1 .. Len(h) : h[i] = k
      BY <1>4, <1>5, ConversationAssumption, SMTT(40) DEF IsRecentPart
    <2>2. 1 .. Len(h) \subseteq 1 .. Len(g) /\ Len(h) + 1 \in 1 .. Len(g)
      BY <1>4
    <2> HIDE DEF g
    <2> QED BY <1>4, <1>6, <2>1, <2>2, SMTT(40) DEF IsWhole
  <1> HIDE DEF g
  <1>8. /\ WorkingTrigger \in Nat /\ RefreshAfter \in Nat
        /\ WorkingTrigger <= Len(g)
    BY ConversationAssumption DEF g
  <1>9. snapshot[c] # NoSnapshot /\ Len(g) - snapshot[c].count < RefreshAfter
    <2>1. \/ Len(h) + 1 < WorkingTrigger
          \/ /\ snapshot[c] # NoSnapshot
             /\ Len(h) + 1 - snapshot[c].count < RefreshAfter
      BY <1>3 DEF RefreshesItsSnapshot
    <2>2. ~(Len(h) + 1 < WorkingTrigger)
      BY <1>4, <1>8
    <2>3. snapshot[c].count \in Int
      BY <1>1, TurnFacts
    <2>4. Len(g) = Len(h) + 1
      BY <1>4
    <2>5. snapshot[c] # NoSnapshot /\ Len(h) + 1 - snapshot[c].count < RefreshAfter
      BY <2>1, <2>2
    <2> DEFINE n == Len(h)
               k == snapshot[c].count
    <2>6. n \in Int /\ k \in Int /\ Len(g) = n + 1
      BY <1>4, <2>3, <2>4
    <2> HIDE DEF n, k
    <2>7. n + 1 - k = Len(g) - k
      BY <2>6
    <2> QED BY <2>5, <2>7 DEF n, k
  <1>10. snapshot[c].count \in 1 .. Len(g) /\ snapshot[c].last = g[snapshot[c].count]
    BY <1>1, <1>3, <1>6, <1>7, <1>9 DEF SnapshotsAreTrue
  <1>11. snapshot[c].count > Len(g) - RefreshAfter
    BY <1>4, <1>8, <1>9, <1>10
  <1> QED BY <1>10, <1>11 DEF g

\* A conversation builds up: as long as no two turns overlap, each finds what the turns
\* before it stored, whatever fails, expires or is given up, for any caps and triggers.
THEOREM AssistantTurnsBuild == Spec => []TurnsBuildOnEachOther
  BY AssistantConversations, ConversationsBuild, PTL

\* The working memory keeps up with such a conversation until its history is full.
THEOREM AssistantSnapshotIsRecent == Spec => []SnapshotIsRecent
  BY AssistantConversations, ConversationsRemember, PTL

\* The clients send no more than the model lets them.
SentInv == sent \in 0 .. MaxMessages

LEMMA AssistantSent == Spec => []SentInv
  <1>1. Init => SentInv
    BY ChatSocketAssumption
       DEF Init, InitOneSocket, InitManySockets, InitRemembering, InitBacklog, SentInv
  <1>2. SentInv /\ [Next]_vars => SentInv'
    <2> SUFFICES ASSUME sent \in 0 .. MaxMessages, [Next]_vars
                 PROVE  sent' \in 0 .. MaxMessages
      BY DEF SentInv
    <2>1. CASE UNCHANGED sent
      BY <2>1
    <2>2. ASSUME NEW s \in Sockets, Send(s)
          PROVE  sent' \in 0 .. MaxMessages
      BY <2>2, ChatSocketAssumption DEF Send
    <2>3. ASSUME NEW s \in Sockets, Question(s) \/ SocketOnly(s) \/ PassChunk(s) \/ StreamEndsEarly(s)
          PROVE  sent' \in 0 .. MaxMessages
      <3>1. UNCHANGED sent \/ Send(s)
        BY <2>3 DEF Question, SocketOnly, PassChunk, StreamEndsEarly, ReadQuestion,
                    GetWebsocketStopToken, Leave, ReadStop, ReadEnds, RelayError, RelayDone,
                    RelayChunk, StreamBreaks
      <3> QED BY <2>1, <2>2, <3>1
    <2>4. ASSUME NEW t \in Turns, TurnStep(t) \/ AnswerNothing(t) \/ StepFails(t) \/ PersistTimesOut(t)
          PROVE  UNCHANGED sent
      BY <2>4 DEF TurnStep, LoadAndPersist, Answer, Remember, AnswerNothing, StepFails,
                  PersistTimesOut, Stream, socketVars
    <2>5. CASE \/ ConversationExpires /\ UNCHANGED <<socketVars, indexVars>>
               \/ IndexStep /\ UNCHANGED <<conversationVars, socketVars>>
               \/ UNCHANGED vars
      BY <2>1, <2>5 DEF vars, socketVars
    <2> QED BY <2>1, <2>2, <2>3, <2>4, <2>5 DEF Next
  <1> QED BY <1>1, <1>2, PTL DEF Spec

\* Every variable of the assistant keeps its type; conversations stay as few as the
\* turns can create, and snapshots never count more turns than there are.
THEOREM AssistantIsTyped == Spec => []TypeOK
  <1>1. IndexInv /\ SocketsInv /\ ConversationInv /\ SentInv => TypeOK
    BY DEF IndexInv, SocketsInv, ConversationInv, ConversationTypes, SentInv, TypeOK
  <1> QED BY <1>1, AssistantIndexInv, AssistantSocketsInv, AssistantConversations,
             AssistantSent, PTL
=============================================================================
