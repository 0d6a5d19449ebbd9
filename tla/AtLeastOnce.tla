----------------------------- MODULE AtLeastOnce -----------------------------
(***************************************************************************)
(* What every durable queue of the platform promises about one obligation: *)
(* once it is accepted it is owed, and it stays owed until it is settled.   *)
(* A later duplicate may reopen a settled obligation, but no step forgets   *)
(* one.  The initial-task outbox, the stage consumer and the memory index   *)
(* implement this specification under the refinement mappings of their      *)
(* modules.                                                                 *)
(***************************************************************************)
CONSTANT Items            \* the obligations

VARIABLE status           \* status[i]: where obligation i stands

Init == status = [i \in Items |-> "new"]

\* An obligation is accepted: from here on somebody durably owes it.
Accept(i) == /\ status[i] = "new"
             /\ status' = [status EXCEPT ![i] = "owed"]

\* The obligation is discharged.
Settle(i) == /\ status[i] = "owed"
             /\ status' = [status EXCEPT ![i] = "settled"]

\* A duplicate or a replay makes the obligation due again.
Reopen(i) == /\ status[i] = "settled"
             /\ status' = [status EXCEPT ![i] = "owed"]

Next == \E i \in Items : Accept(i) \/ Settle(i) \/ Reopen(i)

Spec == Init /\ [][Next]_status

\* What is owed is settled in the end.
Delivery == \A i \in Items : (status[i] = "owed") ~> (status[i] = "settled")

FairSpec == Spec /\ Delivery
==============================================================================
