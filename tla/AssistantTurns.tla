--------------------------- MODULE AssistantTurns ---------------------------
(***************************************************************************)
(* The assistant as one user meets it: chat sockets, the turns they start,  *)
(* the conversation and memory those turns leave behind, and the dispatchers *)
(* that make the memories searchable.  This module composes ChatSocket,     *)
(* ConversationMemory and MemoryIndex, and models the orchestrator's run     *)
(* between them: it answers, waits for the turn to be persisted, and says    *)
(* that it is done.                                                         *)
(***************************************************************************)
EXTENDS ConversationMemory, ChatSocket

ASSUME BoundsAssumption == /\ MaxMessages < NumTurns /\ Cardinality(Sockets) <= MaxMessages
                           /\ MaxFaults > 0 /\ NumMemories > 0

vars == <<indexVars, conversationVars, socketVars>>

\* Four beginnings share the bounds between them, so that each kind of interleaving is
\* explored without the product of all of them.
Fresh  == [state |-> "reading", here |-> TRUE, inbox |-> <<>>, stop |-> FALSE,
           lines |-> <<>>, out |-> <<>>, turn |-> 0, held |-> 0]
Asked  == [Fresh EXCEPT !.inbox = <<[kind |-> "ask", token |-> 0]>>]
Unused == [Fresh EXCEPT !.state = Closed, !.here = FALSE]

InitSockets(first, others) ==
  LET one == CHOOSE s \in Sockets : TRUE
  IN sock = [s \in Sockets |-> IF s = one THEN first ELSE others]

NoMemory == [status |-> "NONE", attempt |-> 0, age |-> 0]
Pending  == [status |-> "PENDING", attempt |-> 0, age |-> MaxAge]
Indexed  == [status |-> "INDEXED", attempt |-> 1, age |-> MaxAge]

InitMemories(row) == /\ rows = row
                     /\ searchable = {m \in Memories : row[m].status = "INDEXED"}
                     /\ disp = [d \in Dispatchers |-> Resting]

\* One socket with all the messages, stop tokens, an expiry and a fault; the turns are
\* not worth a memory.
InitOneSocket ==
  /\ current = 1
  /\ InitSockets(Fresh, Unused)
  /\ InitMemories([m \in Memories |-> Indexed])
  /\ stopToken = 0 /\ sent = 0 /\ rotations = 0 /\ faults = MaxFaults - 1

\* A question on every socket at once.
InitManySockets ==
  /\ current = 0
  /\ InitSockets(Asked, Asked)
  /\ InitMemories([m \in Memories |-> Indexed])
  /\ stopToken = MaxTokens /\ sent = MaxMessages /\ rotations = MaxRotations
  /\ faults = MaxFaults

\* One question, whose turn may be worth a memory, and a fault.
InitRemembering ==
  /\ current = 1
  /\ InitSockets(Asked, Unused)
  /\ InitMemories([m \in Memories |-> IF m = NumMemories THEN NoMemory ELSE Indexed])
  /\ stopToken = MaxTokens /\ sent = MaxMessages /\ rotations = MaxRotations
  /\ faults = MaxFaults - 1

\* A server that finds stored memories, and a user who asks nothing.
InitBacklog ==
  /\ current = 1
  /\ InitSockets(Unused, Unused)
  /\ InitMemories([m \in Memories |-> Pending])
  /\ stopToken = MaxTokens /\ sent = MaxMessages /\ rotations = MaxRotations
  /\ faults = 0

Init == /\ InitConversation
        /\ InitOneSocket \/ InitManySockets \/ InitRemembering \/ InitBacklog

-----------------------------------------------------------------------------
(* Sockets and the turns they start.                                        *)

Question(s) ==
  /\ \E t \in Turns : /\ At(t, "new")
                      /\ \A k \in 1 .. t - 1 : ~At(k, "new")
                      /\ ReadQuestion(s, t)
                      /\ BeginTurn(t)
  /\ UNCHANGED <<current, convs, history, snapshot, rotations, indexVars>>

SocketOnly(s) ==
  /\ \/ GetWebsocketStopToken(s) \/ Send(s) \/ Leave(s)
     \/ ReadStop(s) \/ ReadEnds(s) \/ RelayError(s) \/ RelayDone(s)
  /\ UNCHANGED <<conversationVars, indexVars>>

\* The request to the orchestrator is cancelled, and with it the turn of s.
Cancel(s) == \E tr \in Abandon(sock[s].turn, turn[sock[s].turn]) :
               turn' = [turn EXCEPT ![sock[s].turn] = tr]

Answering(s) == sock[s].state = "streaming" /\ sock[s].turn \in UnderWay
                /\ ~turn[sock[s].turn].detached

PassChunk(s) ==
  /\ RelayChunk(s)
  /\ IF sock'[s].state = "reading" /\ Answering(s) THEN Cancel(s) ELSE UNCHANGED turn
  /\ UNCHANGED <<current, convs, history, snapshot, rotations, indexVars>>

\* The client has gone, which a write finds out, or the connection to the
\* orchestrator is lost.
StreamEndsEarly(s) ==
  /\ StreamBreaks(s)
  /\ \/ Streams(s, "chunk") /\ ~sock[s].here /\ UNCHANGED faults
     \/ Fault
  /\ IF Answering(s) THEN Cancel(s) ELSE UNCHANGED turn
  /\ UNCHANGED <<current, convs, history, snapshot, rotations, rows, searchable, disp>>

-----------------------------------------------------------------------------
(* The orchestrator's run of turn t.                                        *)

\* Streams a line to the socket that waits for t; after the run was given up there is
\* nobody to stream to.
Stream(t, line) ==
  IF turn[t].detached THEN UNCHANGED socketVars
  ELSE /\ \E s \in Sockets : sock[s].turn = t /\ Emit(s, line)
       /\ UNCHANGED <<stopToken, sent>>

LoadAndPersist(t) ==
  /\ \/ GetConversationID(t) \/ CreateConversationID(t) \/ GetConversationHistory(t)
     \/ ReadSnapshot(t) \/ UpsertWorkingSnapshot(t) \/ UpdateConversationHistory(t)
  /\ UNCHANGED <<socketVars, indexVars>>

Answer(t) == /\ At(t, "answer")
             /\ turn' = [turn EXCEPT ![t].pc = "persist"]
             /\ Stream(t, "chunk")
             /\ UNCHANGED <<current, convs, history, snapshot, rotations, indexVars>>

\* An empty answer is not persisted.
AnswerNothing(t) == /\ At(t, "answer")
                    /\ turn' = [turn EXCEPT ![t].pc = "over"]
                    /\ Stream(t, "done")
                    /\ UNCHANGED <<current, convs, history, snapshot, rotations, indexVars>>

\* The turn is persisted, and only now the orchestrator is done.
Remember(t, storing) == /\ RememberTurn(t, storing)
                        /\ Stream(t, "done")
                        /\ UNCHANGED <<searchable, disp, faults>>

\* A fault: the failure is not streamed.
StepFailsSilently(t) ==
  /\ t \in UnderWay
  /\ Fault
  /\ turn' = [turn EXCEPT ![t].pc = IF turn[t].phase = "prompt"
                                      /\ turn[t].pc \in {"snapshot", "summarize"}
                                   THEN "answer" ELSE "over"]
  /\ UNCHANGED socketVars
  /\ UNCHANGED <<current, convs, history, snapshot, rotations, rows, searchable, disp>>

\* A step fails.  Without a session or an answer the run ends with an error; a missing
\* prelude is done without; a turn that cannot be persisted is done all the same.
StepFails(t) ==
  /\ t \in UnderWay
  /\ Fault
  /\ IF turn[t].phase = "prompt" /\ turn[t].pc \in {"snapshot", "summarize"}
     THEN /\ turn' = [turn EXCEPT ![t].pc = "answer"]
          /\ UNCHANGED socketVars
     ELSE /\ turn' = [turn EXCEPT ![t].pc = "over"]
          /\ Stream(t, IF Persisting(t) THEN "done" ELSE "error")
  /\ UNCHANGED <<current, convs, history, snapshot, rotations, rows, searchable, disp>>

\* The orchestrator's timeout: it is done without knowing what became of the turn.
PersistTimesOut(t) ==
  /\ Persisting(t) /\ ~turn[t].detached
  /\ Fault
  /\ \E tr \in Abandon(t, turn[t]) : turn' = [turn EXCEPT ![t] = tr]
  /\ Stream(t, "done")
  /\ UNCHANGED <<current, convs, history, snapshot, rotations, rows, searchable, disp>>

TurnStep(t) == \/ LoadAndPersist(t) \/ Answer(t)
               \/ \E storing \in BOOLEAN : Remember(t, storing)

HandlerStep(s) == \/ Question(s) \/ PassChunk(s)
                  \/ /\ ReadStop(s) \/ ReadEnds(s) \/ RelayError(s) \/ RelayDone(s)
                     /\ UNCHANGED <<conversationVars, indexVars>>
                  \/ StreamEndsEarly(s) /\ UNCHANGED faults

Next ==
  \/ \E s \in Sockets : Question(s) \/ SocketOnly(s) \/ PassChunk(s) \/ StreamEndsEarly(s)
  \/ \E t \in Turns : \/ TurnStep(t) \/ AnswerNothing(t)
                      \/ StepFails(t) \/ PersistTimesOut(t)
  \/ ConversationExpires /\ UNCHANGED <<socketVars, indexVars>>
  \/ IndexStep /\ UNCHANGED <<conversationVars, socketVars>>

\* Every goroutine and the orchestrator's run go on, and time passes; messages,
\* faults and expiries are free.  An answer comes in the end: the orchestrator bounds
\* its calls of the models by a timeout.
Fairness ==
  /\ \A s \in Sockets : WF_vars(HandlerStep(s))
  /\ \A t \in Turns : WF_vars(TurnStep(t))
  /\ \A d \in Dispatchers :
       WF_vars(DispatchMemories(d) /\ UNCHANGED <<conversationVars, socketVars>>)
  /\ WF_vars(Tick /\ UNCHANGED <<conversationVars, socketVars>>)

Spec == Init /\ [][Next]_vars /\ Fairness

-----------------------------------------------------------------------------
(* Properties.                                                              *)

TypeOK ==
  /\ MemoryIndexTypeOK
  /\ convs \in 0 .. 2 * NumTurns /\ current \in 0 .. convs
  /\ history \in [ConvIds -> Seq(Turns)]
  /\ snapshot \in [ConvIds -> [count : 0 .. NumTurns, last : 0 .. NumTurns]]
  /\ turn \in [Turns -> TurnState]
  /\ sock \in [Sockets -> Socket]
  /\ stopToken \in 0 .. MaxTokens /\ sent \in 0 .. MaxMessages

\* No two of the turns up to t were under way at the same time.
OneAfterTheOther(t) == \A k \in 1 .. t : turn[k].alone

\* The turns before t whose history was written to t's conversation.
StoredBefore(t) == {k \in 1 .. t - 1 : turn[k].stored /\ turn[k].conv = turn[t].conv}

\* h has the turns of `all` in their order; a full one has the last of them.
IsRecentPart(h, all) ==
  /\ Len(h) <= HistoryCap
  /\ \A i, j \in 1 .. Len(h) : i < j => h[i] < h[j]
  /\ \A i \in 1 .. Len(h) : h[i] \in all
  /\ \A k \in all : \/ \E i \in 1 .. Len(h) : h[i] = k
                    \/ Len(h) = HistoryCap /\ k < h[1]

\* A conversation builds up: what a turn finds as its history is what the turns
\* before it stored, none lost and none twice, whichever socket they came from,
\* whatever failed and whenever the orchestrator stopped waiting, as long as no two
\* turns ran at the same time (LoadSession, PersistTurn and the done event of the
\* stream, which the next question on a socket waits for).
TurnsBuildOnEachOther ==
  \A t \in Turns :
    OneAfterTheOther(t) =>
      /\ turn[t].pc \in {"snapshot", "summarize", "answer", "persist", "remember"}
           => IsRecentPart(turn[t].hist, StoredBefore(t))
      /\ turn[t].stored /\ (\A k \in Turns : k > t => At(k, "new"))
           => IsRecentPart(history[turn[t].conv], StoredBefore(t) \cup {t})

\* The working memory keeps up: after a turn that was persisted, the snapshot that
\* the next prompt gets has seen the last turns but RefreshAfter - 1 of them.  This
\* holds until the history is full (see README: from then on the lengths that
\* loadOrRefreshWorkingSnapshot compares do not grow any more).
SnapshotIsRecent ==
  \A t \in Turns :
    LET subject == Append(turn[t].hist, t)
        row     == snapshot[turn[t].conv]
    IN /\ OneAfterTheOther(t) /\ turn[t].saved
       /\ \A k \in Turns : k > t => At(k, "new")
       /\ WorkingTrigger <= Len(subject) /\ Len(subject) <= HistoryCap
       => \E i \in 1 .. Len(subject) : /\ subject[i] = row.last
                                       /\ i > Len(subject) - RefreshAfter

Chunks(seq) == \A i \in 1 .. Len(seq) : seq[i] = "chunk"

\* A client that stays gets exactly one completion for each question, after the last
\* chunk of its answer and before it is asked for the next one; after an error the
\* completion follows the error and the connection is closed.
OneCompletion ==
  \A s \in Sockets :
    LET out == sock[s].out IN
    /\ sock[s].state = "streaming" => Chunks(out)
    /\ sock[s].state = "reading" /\ sock[s].here /\ sock[s].turn # 0
         => /\ out # <<>> /\ Last(out) = "completion"
            /\ Chunks(Front(out))
    /\ sock[s].state = Closed /\ "unavailable" \in ToSet(out)
         => /\ Last(out) = "completion"
            /\ \A i \in 1 .. Len(out) : out[i] = "completion" => i = Len(out)

\* The client has sent a stop with the token that is in force, and it is not read.
StopWaits(s) == \E i \in 1 .. Len(sock[s].inbox) :
                  IsStop(sock[s].inbox[i]) /\ sock[s].inbox[i].token # 0

\* A stop interrupts the answer it is sent for: once it waits, no more of the answer is
\* passed on.  The comments of the stop token (chat_handler.go 46, 135) and of the stop
\* button say so.  It is false of the code: the loop reads the next message only when
\* the answer is over, and clears the flag before the next one.
StopInterruptsAnswer ==
  [][\A s \in Sockets : sock[s].state = "streaming" /\ StopWaits(s)
                        => sock'[s].out # Append(sock[s].out, "chunk")]_vars

\* The handler is not stuck in an answer: the stream of a question ends, with its
\* completion or with an error, and the loop reads on or hangs up.
EveryQuestionIsAnswered ==
  \A s \in Sockets : (sock[s].state = "streaming") ~> (sock[s].state # "streaming")

=============================================================================
