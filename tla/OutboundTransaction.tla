------------------------- MODULE OutboundTransaction -------------------------
(***************************************************************************)
(* What the wallet promises about one outbound transaction, whatever the  *)
(* protocol task, restarts, timeouts and user cancels do: the lifecycle   *)
(* of its record in the transaction database and of its inputs in the     *)
(* output manager.                                                         *)
(*                                                                         *)
(*   status  : None (not stored), Queued or Pending (live), then Completed *)
(*             or Cancelled, never left again;                             *)
(*   inputs  : Free, Encumbered (short-term lock of prepare_transaction)  *)
(*             or Confirmed (confirm_pending_transaction);                  *)
(*   replied : the recipient has sent its reply.                           *)
(*                                                                         *)
(* A transaction is completed only with the recipient's reply and with    *)
(* its inputs confirmed; its inputs are released only once it is          *)
(* cancelled.                                                              *)
(***************************************************************************)
VARIABLES status, inputs, replied

absVars == <<status, inputs, replied>>

Live == {"Queued", "Pending"}

(* The output manager encumbers the inputs of a transaction not yet stored. *)
Encumber ==
    /\ status = "None" /\ inputs = "Free"
    /\ inputs' = "Encumbered"
    /\ UNCHANGED <<status, replied>>

(* The pending spend of held inputs is confirmed.                         *)
ConfirmInputs ==
    /\ inputs \in {"Encumbered", "Confirmed"}
    /\ inputs' = "Confirmed"

Confirm == ConfirmInputs /\ UNCHANGED <<status, replied>>

(* The transaction is stored, queued or pending, with its inputs held; a *)
(* pending one may have its inputs confirmed in the same step.            *)
Record ==
    /\ status = "None" /\ inputs # "Free"
    /\ status' \in Live
    /\ UNCHANGED inputs \/ ConfirmInputs
    /\ UNCHANGED replied

(* The recipient replies.                                                  *)
Reply ==
    /\ replied' = TRUE
    /\ UNCHANGED <<status, inputs>>

(* A live transaction completes on the recipient's reply, its inputs      *)
(* confirmed.                                                              *)
Complete ==
    /\ status \in Live /\ replied /\ inputs = "Confirmed"
    /\ status' = "Completed"
    /\ UNCHANGED <<inputs, replied>>

(* A live transaction is cancelled, its inputs released now or later.     *)
Cancel ==
    /\ status \in Live
    /\ status' = "Cancelled"
    /\ inputs' \in {inputs, "Free"}
    /\ UNCHANGED replied

(* The inputs of a cancelled transaction are released.                    *)
Release ==
    /\ status = "Cancelled"
    /\ inputs' = "Free"
    /\ UNCHANGED <<status, replied>>

Init == status = "None" /\ inputs = "Free" /\ replied = FALSE

Next == Encumber \/ Confirm \/ Record \/ Reply \/ Complete \/ Cancel \/ Release

Spec == Init /\ [][Next]_absVars
=============================================================================
