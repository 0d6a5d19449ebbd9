------------------------- MODULE ConversationMemory -------------------------
(***************************************************************************)
(* One user's chat turns against the conversation store (Redis) and the     *)
(* memory tables (MySQL): the session is loaded, the working snapshot is    *)
(* refreshed for the prompt, the answer is generated, and the turn is       *)
(* persisted: history, snapshot, long-term memory.  Turns of several        *)
(* sockets of the user interleave.  The graph of the AI orchestrator calls  *)
(* the steps in this order and waits for each.                              *)
(*                                                                          *)
(* A turn stands for its two messages, the question and the answer; so the  *)
(* 20 messages a history keeps are HistoryCap = 10 turns, and so on.        *)
(***************************************************************************)
EXTENDS MemoryIndex

CONSTANTS NumTurns,        \* bound: the turns of a behaviour
          MaxRotations,    \* bound: how often the conversation's key expires
          HistoryCap,      \* turns a stored history keeps
          WorkingTrigger,  \* turns from which on there is a working snapshot
          RefreshAfter     \* a snapshot this many turns old is replaced

ASSUME ConversationAssumption ==
  /\ NumTurns \in Nat \ {0} /\ MaxRotations \in Nat
  /\ {HistoryCap, WorkingTrigger, RefreshAfter} \subseteq Nat \ {0}

Turns == 1 .. NumTurns

VARIABLES current,    \* the key user:<id>:current_conversation, 0 when there is none
          convs,      \* conversations created so far: the ids are 1 .. convs
          history,    \* history[c]: the stored turns of conversation c
          snapshot,   \* snapshot[c]: the working snapshot that is read for c
          turn,       \* turn[t]: where turn t stands
          rotations   \* expiries so far

conversationVars == <<current, convs, history, snapshot, turn, rotations>>

\* A turn loads its session at most twice, and each load creates at most one.
ConvIds == 1 .. 2 * NumTurns

\* The snapshot row: how many turns it had seen, and the last of them.
NoSnapshot == [count |-> 0, last |-> 0]

Steps == {"new", "load", "create", "history", "snapshot", "summarize", "answer",
          "persist", "remember", "over"}

\* phase tells which of the repeated steps are meant; from is the conversation whose
\* history is loaded; absent is whether the snapshot row was missing when it was
\* read; detached, that the orchestrator no longer waits.  Not of the program: stored
\* (the history has been written), saved (all of it has), alone (no other turn was
\* under way at the same time), shown (the history the session gave).
NewTurn == [pc |-> "new", phase |-> "session", conv |-> 0, from |-> 0, hist |-> <<>>,
            absent |-> FALSE, detached |-> FALSE,
            stored |-> FALSE, saved |-> FALSE, alone |-> TRUE]

TurnState == [pc : Steps, phase : {"session", "prompt", "persist"}, conv : 0 .. 2 * NumTurns,
              from : 0 .. 2 * NumTurns, hist : Seq(Turns), absent : BOOLEAN,
              detached : BOOLEAN, stored : BOOLEAN, saved : BOOLEAN, alone : BOOLEAN]

\* A user who has had one turn, the first; its conversation may have expired.
InitConversation ==
  /\ current \in {0, 1} /\ convs = 1
  /\ history = [c \in ConvIds |-> IF c = 1 THEN <<1>> ELSE <<>>]
  /\ snapshot = [c \in ConvIds |-> IF c = 1 /\ WorkingTrigger = 1
                                   THEN [count |-> 1, last |-> 1] ELSE NoSnapshot]
  /\ turn = [t \in Turns |-> IF t = 1 THEN [NewTurn EXCEPT !.pc = "over", !.conv = 1,
                                            !.stored = TRUE, !.saved = TRUE]
                                      ELSE NewTurn]

UnderWay == {t \in Turns : turn[t].pc \notin {"new", "over"}}

At(t, step) == turn[t].pc = step

\* A turn begins; whatever else is under way overlaps with it.
BeginTurn(t) ==
  turn' = [k \in Turns |->
    IF k = t THEN [NewTurn EXCEPT !.pc = "load", !.alone = UnderWay = {}]
    ELSE IF k \in UnderWay THEN [turn[k] EXCEPT !.alone = FALSE] ELSE turn[k]]

-----------------------------------------------------------------------------
(* LoadSession: the first time for the session, and a second time by Pre-    *)
(* parePromptContext when the first one had no history.                     *)

Conversation(tr, c) == IF tr.phase = "session" THEN c ELSE tr.conv

GetConversationID(t) ==
  /\ At(t, "load")
  /\ turn' = [turn EXCEPT ![t] =
       IF current = 0 THEN [@ EXCEPT !.pc = "create"]
       ELSE [@ EXCEPT !.pc = "history", !.from = current, !.conv = Conversation(turn[t], current)]]
  /\ UNCHANGED <<current, convs, history, snapshot, rotations>>

\* A fault: the id of the last conversation is used again.
CreateConversationAgain(t) ==
  /\ At(t, "create")
  /\ current' = convs + 1
  /\ turn' = [turn EXCEPT ![t].pc = "history", ![t].from = convs + 1,
                          ![t].conv = Conversation(turn[t], convs + 1)]
  /\ UNCHANGED <<convs, history, snapshot, rotations>>

\* The key is set without looking again: two turns may each create a conversation.
CreateConversationID(t) ==
  /\ At(t, "create")
  /\ convs' = convs + 1
  /\ current' = convs + 1
  /\ turn' = [turn EXCEPT ![t].pc = "history", ![t].from = convs + 1,
                          ![t].conv = Conversation(turn[t], convs + 1)]
  /\ UNCHANGED <<history, snapshot, rotations>>

GetConversationHistory(t) ==
  /\ At(t, "history")
  /\ LET h == history[turn[t].from] IN
     turn' = [turn EXCEPT ![t] =
       IF @.phase = "session" /\ h = <<>>
       THEN [@ EXCEPT !.pc = "load", !.phase = "prompt"]
       ELSE [@ EXCEPT !.pc = "snapshot", !.phase = "prompt", !.hist = h]]
  /\ UNCHANGED <<current, convs, history, snapshot, rotations>>

\* Seven days after it was set the key is gone: it is not refreshed by use.
ConversationExpires ==
  /\ current # 0 /\ rotations < MaxRotations
  /\ current' = 0
  /\ rotations' = rotations + 1
  /\ UNCHANGED <<convs, history, snapshot, turn>>

-----------------------------------------------------------------------------
(* The working snapshot, for the prompt and again after the turn.           *)

\* The history that is summarized: not yet capped when the turn is persisted.
Subject(t) == IF turn[t].phase = "persist" THEN Append(turn[t].hist, t) ELSE turn[t].hist

AfterSnapshot(tr) == IF tr.phase = "prompt" THEN "answer" ELSE "remember"

\* A fault: one turn too late.
NeedsSummaryLate(h, row) ==
  /\ Len(h) >= WorkingTrigger
  /\ row = NoSnapshot \/ Len(h) - row.count > RefreshAfter

NeedsSummary(h, row) ==
  /\ Len(h) >= WorkingTrigger
  /\ row = NoSnapshot \/ Len(h) - row.count >= RefreshAfter

ReadSnapshot(t) ==
  /\ At(t, "snapshot")
  /\ LET row == snapshot[turn[t].conv] IN
     turn' = [turn EXCEPT ![t] =
       IF NeedsSummary(Subject(t), row)
       THEN [@ EXCEPT !.pc = "summarize", !.absent = (row = NoSnapshot)]
       ELSE [@ EXCEPT !.pc = AfterSnapshot(turn[t])]]
  /\ UNCHANGED <<current, convs, history, snapshot, rotations>>

\* The summary, the model's or the heuristic one, is upserted: find, then save or
\* create.  Another turn may have created the row after it was looked for; then
\* there are two rows, and the older one is the one that is read.
UpsertWorkingSnapshot(t) ==
  /\ At(t, "summarize")
  /\ LET c == turn[t].conv
         h == Subject(t)
     IN \/ snapshot' = [snapshot EXCEPT ![c] = [count |-> Len(h), last |-> h[Len(h)]]]
        \/ /\ turn[t].absent /\ snapshot[c] # NoSnapshot
           /\ UNCHANGED snapshot
  /\ turn' = [turn EXCEPT ![t].pc = AfterSnapshot(turn[t]), ![t].absent = FALSE]
  /\ UNCHANGED <<current, convs, history, rotations>>

-----------------------------------------------------------------------------
(* PersistTurn, once there is an answer.                                    *)

\* A fault: the first turns are kept.
RecentFirst(h) == IF Len(h) > HistoryCap THEN SubSeq(h, 1, HistoryCap) ELSE h

\* The last HistoryCap turns.
Recent(h) == IF Len(h) > HistoryCap THEN SubSeq(h, Len(h) - HistoryCap + 1, Len(h)) ELSE h

\* The history is overwritten by the one the turn began with and the turn itself.
UpdateConversationHistory(t) ==
  /\ At(t, "persist")
  /\ history' = [history EXCEPT ![turn[t].conv] = Recent(Append(turn[t].hist, t))]
  /\ turn' = [turn EXCEPT ![t].pc = "snapshot", ![t].phase = "persist", ![t].stored = TRUE]
  /\ UNCHANGED <<current, convs, snapshot, rotations>>

\* The extraction, the model's or the heuristic one, decides whether the turn is worth
\* a long-term memory.
RememberTurn(t, storing) ==
  /\ At(t, "remember")
  /\ IF storing THEN \E m \in NextMemory : CreateLongTermMemory(m) ELSE UNCHANGED rows
  /\ turn' = [turn EXCEPT ![t].pc = "over", ![t].saved = TRUE]
  /\ UNCHANGED <<current, convs, history, snapshot, rotations>>

Persisting(t) == \/ turn[t].pc \in {"persist", "remember"}
                 \/ turn[t].pc \in {"snapshot", "summarize"} /\ turn[t].phase = "persist"

\* Nobody waits for the turn any longer.  What runs under the request's context ends
\* with it, which a write already sent may escape; the memory tables are written
\* without that context.
Abandon(t, tr) ==
  IF ~Persisting(t) THEN {[tr EXCEPT !.pc = "over"]}
  ELSE {[tr EXCEPT !.detached = TRUE]} \union
       (IF At(t, "persist") THEN {[tr EXCEPT !.pc = "over"]} ELSE {})

=============================================================================
