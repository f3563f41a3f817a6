------------------------- MODULE TransactionStatus -------------------------
(***************************************************************************)
(* What the rest of the system may rely on about the status of a           *)
(* transaction, whatever commands run: a row that has been written stays,  *)
(* a reversed transaction stays reversed, and a deleted one can only be    *)
(* restored.  The ledger implements this; the planning functions, which    *)
(* are triggered by changes of status, are modelled on top of it.          *)
(***************************************************************************)
CONSTANT Ids
VARIABLE status

Edges == {<<"none", "confirmed">>, <<"confirmed", "reversed">>,
          <<"confirmed", "deleted">>, <<"deleted", "confirmed">>}

Init == status = [id \in Ids |-> "none"]

Next ==
  /\ status' \in [Ids -> {"none", "confirmed", "reversed", "deleted"}]
  /\ \A id \in Ids : status'[id] = status[id] \/ <<status[id], status'[id]>> \in Edges

Spec == Init /\ [][Next]_status
=============================================================================
