----------------------------- MODULE ChatSocket -----------------------------
(***************************************************************************)
(* The websocket of the chat: the handler's loop, which reads one message   *)
(* at a time, and the client of the orchestrator's stream, which the loop   *)
(* runs to its end before it reads the next message.                        *)
(***************************************************************************)
EXTENDS Integers, SequencesExt

CONSTANTS Sockets,      \* the open connections
          MaxMessages,  \* bound: messages the clients send, all together
          MaxUnread,    \* bound: messages of a client the handler has not read
          MaxTokens     \* bound: stop tokens handed out

ASSUME ChatSocketAssumption == {MaxMessages, MaxUnread, MaxTokens} \subseteq Nat

VARIABLES stopToken,  \* the stop token of the process; 0 is the empty string
          sock,       \* sock[s]: the connection, its client and its handler
          sent        \* messages sent so far

socketVars == <<stopToken, sock, sent>>

\* inbox: what the client has sent and the handler has not read, an "ask" or a stop
\* with a token; stop: the stop flag; lines: what the orchestrator has streamed and
\* the handler has not read; out: what the client got for its last question; turn:
\* that question, 0 before the first; held: the token the client was given.
Closed == "closed"

Message == [kind : {"ask", "stop"}, token : 0 .. MaxTokens]

Socket == [state : {"reading", "streaming", Closed}, here : BOOLEAN, inbox : Seq(Message),
           stop : BOOLEAN, lines : Seq({"chunk", "error", "done"}),
           out : Seq({"chunk", "error", "unavailable", "completion"}),
           turn : Nat, held : 0 .. MaxTokens]

-----------------------------------------------------------------------------
(* The client.                                                              *)

\* One token serves the whole process: a new one, handed to any client, voids those
\* handed out before.
GetWebsocketStopToken(s) ==
  /\ stopToken < MaxTokens
  /\ stopToken' = stopToken + 1
  /\ sock' = [sock EXCEPT ![s].held = stopToken + 1]
  /\ UNCHANGED sent

\* A question, or a stop message (JSON or the bare token) with the client's token.
Send(s) ==
  /\ sock[s].here /\ sock[s].state # Closed /\ sent < MaxMessages
  /\ Len(sock[s].inbox) < MaxUnread
  /\ sent' = sent + 1
  /\ \E msg \in {[kind |-> "ask", token |-> 0], [kind |-> "stop", token |-> sock[s].held]} :
       sock' = [sock EXCEPT ![s].inbox = Append(@, msg)]
  /\ UNCHANGED stopToken

Leave(s) == /\ sock[s].here
            /\ sock' = [sock EXCEPT ![s].here = FALSE]
            /\ UNCHANGED <<stopToken, sent>>

-----------------------------------------------------------------------------
(* The loop of the handler.                                                 *)

IsStop(msg) == msg.kind = "stop" /\ msg.token = stopToken

ReadStop(s) ==
  /\ sock[s].state = "reading" /\ sock[s].inbox # <<>>
  /\ IsStop(Head(sock[s].inbox))
  /\ sock' = [sock EXCEPT ![s].inbox = Tail(@), ![s].stop = TRUE]
  /\ UNCHANGED <<stopToken, sent>>

\* Every other message is a question, a stop with a voided token too.  The stop flag
\* is cleared and question t goes to the orchestrator.
ReadQuestion(s, t) ==
  /\ sock[s].state = "reading" /\ sock[s].inbox # <<>>
  /\ ~IsStop(Head(sock[s].inbox))
  /\ sock' = [sock EXCEPT ![s].inbox = Tail(@), ![s].stop = FALSE, ![s].state = "streaming",
                          ![s].turn = t, ![s].out = <<>>, ![s].lines = <<>>]
  /\ UNCHANGED <<stopToken, sent>>

\* Reading fails when the client has gone and its messages are read.
ReadEnds(s) ==
  /\ sock[s].state = "reading" /\ sock[s].inbox = <<>> /\ ~sock[s].here
  /\ sock' = [sock EXCEPT ![s].state = Closed]
  /\ UNCHANGED <<stopToken, sent>>

-----------------------------------------------------------------------------
(* The stream of one answer.                                                *)

Streams(s, line) == /\ sock[s].state = "streaming"
                    /\ sock[s].lines # <<>>
                    /\ Head(sock[s].lines) = line

\* A chunk is passed on, unless the stop flag is set: then the answer ends here, with
\* a completion of its own.  (A ticker looks at the flag between chunks, too; it is
\* left out because only this loop sets the flag, between two answers.)
RelayChunk(s) ==
  /\ Streams(s, "chunk") /\ sock[s].here
  /\ sock' = IF sock[s].stop
             THEN [sock EXCEPT ![s].state = "reading", ![s].out = Append(@, "completion")]
             ELSE [sock EXCEPT ![s].lines = Tail(@), ![s].out = Append(@, "chunk")]
  /\ UNCHANGED <<stopToken, sent>>

\* A fault: the loop goes on after the error.
GiveUpReading(sk, told) ==
  [sk EXCEPT !.state = "reading", !.lines = <<>>,
             !.out = IF sk.here THEN @ \o told \o <<"unavailable", "completion">> ELSE @]

\* The answer ends with an error: the handler reports it, completes and hangs up.
GiveUp(sk, told) ==
  [sk EXCEPT !.state = Closed, !.lines = <<>>, !.here = FALSE,
             !.out = IF sk.here THEN @ \o told \o <<"unavailable", "completion">> ELSE @]

RelayError(s) ==
  /\ Streams(s, "error")
  /\ sock' = [sock EXCEPT ![s] = GiveUp(@, <<"error">>)]
  /\ UNCHANGED <<stopToken, sent>>

\* The stream breaks, or a line cannot be written because the client has gone.
StreamBreaks(s) ==
  /\ sock[s].state = "streaming"
  /\ sock' = [sock EXCEPT ![s] = GiveUp(@, <<>>)]
  /\ UNCHANGED <<stopToken, sent>>

\* After the done line the stream ends; the completion carries its citations.
RelayDone(s) ==
  /\ Streams(s, "done")
  /\ sock' = [sock EXCEPT ![s].state = "reading", ![s].lines = <<>>,
                          ![s].out = IF sock[s].here THEN Append(@, "completion") ELSE @]
  /\ UNCHANGED <<stopToken, sent>>

\* The orchestrator streams a line for the question that s waits for.
Emit(s, line) == sock' = [sock EXCEPT ![s].lines = Append(@, line)]

=============================================================================
