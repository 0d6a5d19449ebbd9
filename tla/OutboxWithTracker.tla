-------------------------- MODULE OutboxWithTracker --------------------------
(***************************************************************************)
(* The outbox shares its rows with the parse consumer: the tracker's       *)
(* MarkSuccessByKey, MarkRetryByKey and MarkDeadLetterByKey read the whole *)
(* row and later write every column of it back with db.Save, the           *)
(* publication columns among them.  This module composes InitialOutbox     *)
(* with that read and that write.                                          *)
(***************************************************************************)
EXTENDS InitialOutbox

VARIABLE saving   \* saving[f]: the row a consumer read and has not saved, or NoRow

trackerVars == <<vars, saving>>

TrackerInit == Init /\ saving = [f \in Files |-> NoRow]

\* The read of a Mark...ByKey, while the consumer handles a parse message.
ReadTask(f) ==
  /\ \E o \in Owners : <<f, o>> \in produced
  /\ saving[f] = NoRow
  /\ saving' = [saving EXCEPT ![f] = table[f]]
  /\ UNCHANGED vars

\* Its db.Save; the number of saves is bounded by the budget.
SaveTask(f) ==
  /\ saving[f] # NoRow
  /\ Disturb
  /\ table' = [table EXCEPT ![f] = saving[f]]
  /\ saving' = [saving EXCEPT ![f] = NoRow]
  /\ UNCHANGED <<completed, dispatcherVars, produced>>

TrackerNext == \/ Next /\ UNCHANGED saving
               \/ \E f \in Files : ReadTask(f) \/ SaveTask(f)

TrackerSpec == TrackerInit /\ [][TrackerNext]_trackerVars
TrackerFairSpec == TrackerSpec /\ Fairness

==============================================================================
