---------------------- MODULE TransactionSendProtocol ----------------------
(***************************************************************************)
(* The wallet's TransactionSendProtocol for one outbound transaction       *)
(* (base_layer/wallet/src/transaction_service/protocols/                   *)
(* transaction_send_protocol.rs).                                          *)
(*                                                                         *)
(* The protocol is an async task; pc is the await it is suspended at.     *)
(* Synchronous database calls between two awaits belong to one step.       *)
(* The environment is the transaction service that starts, cancels and    *)
(* restarts the protocol, the output manager that encumbers the inputs,   *)
(* the recipient that replies, strangers whose replies arrive on the same *)
(* channel, the clock and the shutdown signal.                            *)
(***************************************************************************)
EXTENDS Naturals, Sequences

CONSTANTS
    Dest,          \* public key of the recipient
    Other,         \* any other public key
    Id,            \* this transaction's TxId
    OtherId,       \* some other TxId
    NoReply,       \* the `reply` local before a message arrived
    Routing,       \* config.transaction_routing_mechanism
    MaxSends,      \* bound on send_count (it only matters whether it is 0)
    MaxChan,       \* bound on the reply channel's length
    MaxStray,      \* bound on replies from strangers
    MaxRestarts    \* bound on wallet restarts

Routings == {"DirectOnly", "DirectAndStoreAndForward", "StoreAndForwardOnly"}
ASSUME Routing \in Routings
ASSUME MaxSends \in Nat \ {0}

Replies == {<<Dest, Id>>, <<Other, Id>>, <<Dest, OtherId>>}

VARIABLES
    pc,            \* await the protocol task is at; "idle": no task runs
    sendRes,       \* transaction_status returned by the last send_transaction
    reply,         \* the `reply` local of wait_for_reply
    status,        \* status of the transaction in the wallet db
    sendCount,     \* its send_count
    lastSent,      \* its last_send_timestamp is Some
    oms,           \* state of the inputs in the output manager
    delivered,     \* the recipient has the sender message
    recipient,     \* state of the recipient's ReceiverTransactionProtocol
    replied,       \* the recipient has sent a valid reply
    told,          \* the recipient was sent a cancellation message
    finalSent,     \* the finalized transaction was sent to the recipient
    chan,          \* transaction_reply_receiver's queue
    strays,        \* replies injected by strangers
    cancelSig,     \* the cancellation oneshot has been fired
    expired,       \* pending_transaction_cancellation_timeout has elapsed
    shutdown,      \* the shutdown signal has been triggered
    restarts       \* wallet restarts so far

vars == <<pc, sendRes, reply, status, sendCount, lastSent, oms, delivered,
          recipient, replied, told, finalSent, chan, strays, cancelSig, expired,
          shutdown, restarts>>
netVars == <<delivered, recipient, replied, told, finalSent, chan, strays>>
envVars == <<cancelSig, expired, shutdown, restarts>>

PCs == {"idle", "prepare", "send", "confirm", "waitStart", "resend", "loop",
        "finalize", "sendFinal", "tmCancel", "tmOms"}
Statuses == {"None", "Queued", "Pending", "Completed", "Cancelled"}
Live == {"Queued", "Pending"}
OmsStates == {"Free", "ShortTerm", "Confirmed"}

-----------------------------------------------------------------------------
(* Calls outside this file, modelled by their contract.                   *)

\* increment_send_count: send_count + 1 and last_send_timestamp = now
IncrementSendCount ==
    /\ sendCount' = IF sendCount < MaxSends THEN sendCount + 1 ELSE sendCount
    /\ lastSent' = TRUE

\* output manager confirm_pending_transaction: fails once the inputs are released
ConfirmPending == oms \in {"ShortTerm", "Confirmed"}

\* db complete_outbound_transaction / cancel_pending_transaction: only a
\* pending outbound transaction that is not cancelled can be resolved
CompleteOutboundTransaction == status \in Live

CancelPendingTransaction == status \in Live

-----------------------------------------------------------------------------
(* The stage the protocol is constructed with selects where execute       *)
(* starts: Initial prepares, Queued sends again, WaitForReply waits.       *)
StagePc(stage) ==
    CASE stage = "Initial"      -> "prepare"
      [] stage = "Queued"       -> "send"
      [] stage = "WaitForReply" -> "waitStart"

(* send_transaction_store_and_forward: Ok(false) under DirectOnly, else   *)
(* whether one neighbour accepted the message.                            *)
StoreAndForwardResults == IF Routing = "DirectOnly" THEN {FALSE} ELSE BOOLEAN

(* send_transaction_direct: every response (Queued, Failed,               *)
(* PendingDiscovery) is followed by a SAF send; an error of the direct    *)
(* send skips it.                                                          *)
SendTransactionDirect ==
    {[direct |-> d, saf |-> s] : d \in BOOLEAN, s \in StoreAndForwardResults}
      \cup {[direct |-> FALSE, saf |-> FALSE]}

(* send_transaction: the routing mechanism selects the path; the status is*)
(* Pending when either path succeeded.                                    *)
SendTransaction ==
    IF Routing = "StoreAndForwardOnly"
    THEN {[direct |-> FALSE, saf |-> s] : s \in StoreAndForwardResults}
    ELSE SendTransactionDirect

SendStatus(r) == IF r.direct \/ r.saf THEN "Pending" ELSE "Queued"

\* A message may reach the recipient whatever the send reported.
Deliver == delivered' \in {delivered, TRUE}

-----------------------------------------------------------------------------
(* Protocol steps.                                                         *)

\* prepare_transaction: the output manager encumbers the inputs, or fails.
PrepareTransaction ==
    /\ pc = "prepare"
    /\ \/ /\ oms' = "ShortTerm"
          /\ pc' = "send"
       \/ /\ pc' = "idle"
          /\ UNCHANGED oms
    /\ UNCHANGED <<sendRes, reply, status, sendCount, lastSent, netVars, envVars>>

\* Initial send that keeps the error of send_transaction as a status.
InitialSendKeepError ==
    /\ pc = "send"
    /\ sendRes' \in {SendStatus(r) : r \in SendTransaction} \cup {"Err"}
    /\ Deliver
    /\ pc' = "confirm"
    /\ UNCHANGED <<reply, status, sendCount, lastSent, oms, recipient, replied, told,
                   finalSent, chan, strays, envVars>>

\* initial_send_transaction up to its send_transaction await; an error of
\* send_transaction is read as Queued.
InitialSend ==
    /\ pc = "send"
    /\ \E r \in SendTransaction : sendRes' = SendStatus(r)
    /\ Deliver
    /\ pc' = "confirm"
    /\ UNCHANGED <<reply, status, sendCount, lastSent, oms, recipient, replied, told,
                   finalSent, chan, strays, envVars>>

\* add_pending_outbound_transaction when transaction_exists is false.
RecordOutbound == status' = IF status = "None" THEN sendRes ELSE status

(* The rest of initial_send_transaction: confirm_pending_transaction when  *)
(* Pending (its error is returned with ?), add the outbound transaction if*)
(* it does not exist, increment_send_count when Pending; then execute     *)
(* waits for the reply when Pending and returns Ok(Queued) otherwise.     *)
InitialConfirm ==
    /\ pc = "confirm"
    /\ \/ /\ sendRes = "Pending"
          /\ ~ConfirmPending
          /\ pc' = "idle"
          /\ UNCHANGED <<status, sendCount, lastSent, oms>>
       \/ /\ sendRes = "Pending"
          /\ ConfirmPending
          /\ oms' = "Confirmed"
          /\ RecordOutbound
          /\ IncrementSendCount
          /\ pc' = "waitStart"
       \/ /\ sendRes = "Queued"
          /\ RecordOutbound
          /\ pc' = "idle"
          /\ UNCHANGED <<sendCount, lastSent, oms>>
    /\ UNCHANGED <<sendRes, reply, netVars, envVars>>

(* wait_for_reply up to the loop: get_pending_outbound_transaction fails  *)
(* once the transaction is resolved; an elapsed cancellation timeout goes *)
(* to timeout_transaction; a resend is due when last_send_timestamp is    *)
(* None or older than the resend period.                                   *)
WaitForReplyStart ==
    /\ pc = "waitStart"
    /\ \/ /\ status \notin Live
          /\ pc' = "idle"
       \/ /\ status \in Live
          /\ expired
          /\ pc' = "tmCancel"
       \/ /\ status \in Live
          /\ ~expired
          /\ pc' \in IF lastSent THEN {"resend", "loop"} ELSE {"resend"}
    /\ UNCHANGED <<sendRes, reply, status, sendCount, lastSent, oms, netVars,
                   envVars>>

\* A resend: send_transaction, increment_send_count when Pending; an error
\* is only logged.
ResendTransaction ==
    /\ \E r \in SendTransaction :
          IF SendStatus(r) = "Pending" THEN IncrementSendCount
          ELSE UNCHANGED <<sendCount, lastSent>>
    /\ Deliver

Resend ==
    /\ pc = "resend"
    /\ ResendTransaction
    /\ pc' = "loop"
    /\ UNCHANGED <<sendRes, reply, status, oms, recipient, replied, told, finalSent,
                   chan, strays, envVars>>

-----------------------------------------------------------------------------
(* The arms of the select loop.                                            *)

\* Reply arm that checks only the TxId.
ReceiveReplyAnyKey ==
    /\ pc = "loop"
    /\ chan # <<>>
    /\ reply' = Head(chan)
    /\ chan' = Tail(chan)
    /\ pc' = IF Head(chan)[2] = Id THEN "finalize" ELSE "loop"
    /\ UNCHANGED <<sendRes, status, sendCount, lastSent, oms, delivered,
                   recipient, replied, told, finalSent, strays, envVars>>

\* A reply is stored in `reply`; the loop breaks only when it comes from the
\* destination's key and carries this TxId.
ReceiveReply ==
    /\ pc = "loop"
    /\ chan # <<>>
    /\ reply' = Head(chan)
    /\ chan' = Tail(chan)
    /\ pc' = IF Head(chan) = <<Dest, Id>> THEN "finalize" ELSE "loop"
    /\ UNCHANGED <<sendRes, status, sendCount, lastSent, oms, delivered,
                   recipient, replied, told, finalSent, strays, envVars>>

\* A fired cancellation: the cancelled message (its error ignored),
\* increment_send_count, and Err(TransactionCancelled).
CancellationArm ==
    /\ pc = "loop"
    /\ cancelSig
    /\ told' \in {told, TRUE}
    /\ IncrementSendCount
    /\ pc' = "idle"
    /\ UNCHANGED <<sendRes, reply, status, oms, delivered, recipient, replied, finalSent,
                   chan, strays, envVars>>

\* The resend period elapsed without another arm firing.
ResendTimeout ==
    /\ pc = "loop"
    /\ ResendTransaction
    /\ UNCHANGED <<pc, sendRes, reply, status, oms, recipient, replied, told, finalSent,
                   chan, strays, envVars>>

TimeoutArm ==
    /\ pc = "loop"
    /\ expired
    /\ pc' = "tmCancel"
    /\ UNCHANGED <<sendRes, reply, status, sendCount, lastSent, oms, netVars,
                   envVars>>

ShutdownArm ==
    /\ pc = "loop"
    /\ shutdown
    /\ pc' = "idle"
    /\ UNCHANGED <<sendRes, reply, status, sendCount, lastSent, oms, netVars,
                   envVars>>

-----------------------------------------------------------------------------
(* After the loop: finalize and complete_outbound_transaction (which fails *)
(* once the transaction was cancelled), then send the finalized message   *)
(* and increment_send_count; each error returns with ?.                   *)

Finalize ==
    /\ pc = "finalize"
    /\ reply # NoReply
    /\ \/ /\ CompleteOutboundTransaction
          /\ status' = "Completed"
          /\ pc' = "sendFinal"
       \/ /\ ~CompleteOutboundTransaction
          /\ pc' = "idle"
          /\ UNCHANGED status
    /\ UNCHANGED <<sendRes, reply, sendCount, lastSent, oms, netVars, envVars>>

SendFinalized ==
    /\ pc = "sendFinal"
    /\ \/ /\ finalSent' = TRUE
          /\ IncrementSendCount
       \/ /\ UNCHANGED <<finalSent, sendCount, lastSent>>
    /\ pc' = "idle"
    /\ UNCHANGED <<sendRes, reply, status, oms, delivered, recipient, replied, told, chan,
                   strays, envVars>>

\* timeout_transaction that returns the cancelled message's error with ?.
TimeoutTransactionPropagateSendError ==
    /\ pc = "tmCancel"
    /\ \/ /\ pc' = "idle"
          /\ UNCHANGED <<told, sendCount, lastSent, status>>
       \/ /\ told' = TRUE
          /\ IncrementSendCount
          /\ \/ /\ CancelPendingTransaction
                /\ status' = "Cancelled"
                /\ pc' = "tmOms"
             \/ /\ ~CancelPendingTransaction
                /\ pc' = "idle"
                /\ UNCHANGED status
    /\ UNCHANGED <<sendRes, reply, oms, delivered, recipient, replied, finalSent, chan,
                   strays, envVars>>

(* timeout_transaction: the cancelled message (its error ignored),        *)
(* increment_send_count, then cancel_pending_transaction, whose error     *)
(* returns with ?.                                                         *)
TimeoutTransaction ==
    /\ pc = "tmCancel"
    /\ told' \in {told, TRUE}
    /\ IncrementSendCount
    /\ \/ /\ CancelPendingTransaction
          /\ status' = "Cancelled"
          /\ pc' = "tmOms"
       \/ /\ ~CancelPendingTransaction
          /\ pc' = "idle"
          /\ UNCHANGED status
    /\ UNCHANGED <<sendRes, reply, oms, delivered, recipient, replied, finalSent, chan,
                   strays, envVars>>

\* The output manager's cancel_transaction releases the inputs; then
\* timeout_transaction returns Err(Timeout).
TimeoutCancelOutputs ==
    /\ pc = "tmOms"
    /\ oms' = "Free"
    /\ pc' = "idle"
    /\ UNCHANGED <<sendRes, reply, status, sendCount, lastSent, netVars,
                   envVars>>

-----------------------------------------------------------------------------
(* Environment.                                                            *)

\* The service's cancel_pending_transaction: the db marks the transaction
\* cancelled, the output manager releases its inputs, and the protocol's
\* cancellation oneshot fires.
UserCancel ==
    /\ CancelPendingTransaction
    /\ status' = "Cancelled"
    /\ oms' = "Free"
    /\ cancelSig' = TRUE
    /\ UNCHANGED <<pc, sendRes, reply, sendCount, lastSent, netVars, expired,
                   shutdown, restarts>>

\* ReceiverTransactionProtocol::new on a TransactionSenderMessage: None is
\* an InvalidStateError, Multiple is not supported, Single runs
\* single_round, which is Finalized unless
\* SingleReceiverTransactionProtocol::create fails.
SingleRound == {"Finalized", "Failed"}

ReceiverNew(info) ==
    CASE info = "None"     -> {"Failed"}
      [] info = "Single"   -> SingleRound
      [] info = "Multiple" -> {"Failed"}

\* get_signed_data: the signed reply exists only in the Finalized state.
GetSignedData(st) == st = "Finalized"

\* The recipient runs its protocol on the sender message (always Single
\* for one recipient) once it holds it.
RecipientReceive ==
    /\ delivered
    /\ recipient = "None"
    /\ recipient' \in ReceiverNew("Single")
    /\ UNCHANGED <<pc, sendRes, reply, status, sendCount, lastSent, oms,
                   delivered, replied, told, finalSent, chan, strays, envVars>>

\* The recipient answers each sender message it holds with its signed data.
RecipientReply ==
    /\ delivered
    /\ GetSignedData(recipient)
    /\ Len(chan) < MaxChan
    /\ chan' = Append(chan, <<Dest, Id>>)
    /\ replied' = TRUE
    /\ UNCHANGED <<pc, sendRes, reply, status, sendCount, lastSent, oms,
                   delivered, recipient, told, finalSent, strays, envVars>>

\* A reply from another key, or the recipient's reply to another transaction.
StrayReply ==
    /\ strays < MaxStray
    /\ Len(chan) < MaxChan
    /\ \E m \in Replies \ {<<Dest, Id>>} : chan' = Append(chan, m)
    /\ strays' = strays + 1
    /\ UNCHANGED <<pc, sendRes, reply, status, sendCount, lastSent, oms,
                   delivered, recipient, replied, told, finalSent, envVars>>

\* The cancellation timeout runs from the stored transaction's timestamp.
Expire ==
    /\ status # "None"
    /\ ~expired
    /\ expired' = TRUE
    /\ UNCHANGED <<pc, sendRes, reply, status, sendCount, lastSent, oms,
                   netVars, cancelSig, shutdown, restarts>>

TriggerShutdown ==
    /\ ~shutdown
    /\ shutdown' = TRUE
    /\ UNCHANGED <<pc, sendRes, reply, status, sendCount, lastSent, oms,
                   netVars, cancelSig, expired, restarts>>

(* The wallet stops at any await and starts again; the service restarts   *)
(* the protocol of every pending outbound transaction, at WaitForReply if *)
(* it was sent before and at Queued otherwise, with fresh channels.       *)
Restart ==
    /\ restarts < MaxRestarts
    /\ restarts' = restarts + 1
    /\ pc' = IF status \in Live
             THEN StagePc(IF sendCount > 0 THEN "WaitForReply" ELSE "Queued")
             ELSE "idle"
    /\ sendRes' = "none"
    /\ reply' = NoReply
    /\ chan' = <<>>
    /\ cancelSig' = FALSE
    /\ shutdown' = FALSE
    /\ UNCHANGED <<status, sendCount, lastSent, oms, delivered, recipient, replied, told,
                   finalSent, strays, expired>>

-----------------------------------------------------------------------------
Init ==
    /\ pc = StagePc("Initial")
    /\ sendRes = "none"
    /\ reply = NoReply
    /\ status = "None"
    /\ sendCount = 0
    /\ lastSent = FALSE
    /\ oms = "Free"
    /\ delivered = FALSE
    /\ recipient = "None"
    /\ replied = FALSE
    /\ told = FALSE
    /\ finalSent = FALSE
    /\ chan = <<>>
    /\ strays = 0
    /\ cancelSig = FALSE
    /\ expired = FALSE
    /\ shutdown = FALSE
    /\ restarts = 0

\* The steps of the task outside the select loop; at each such pc exactly
\* one of them is enabled.
ProtocolStep ==
    \/ PrepareTransaction \/ InitialSend \/ InitialConfirm
    \/ WaitForReplyStart \/ Resend \/ Finalize \/ SendFinalized
    \/ TimeoutTransaction \/ TimeoutCancelOutputs

Next ==
    \/ PrepareTransaction
    \/ InitialSend
    \/ InitialConfirm
    \/ WaitForReplyStart
    \/ Resend
    \/ ReceiveReply
    \/ CancellationArm
    \/ ResendTimeout
    \/ TimeoutArm
    \/ ShutdownArm
    \/ Finalize
    \/ SendFinalized
    \/ TimeoutTransaction
    \/ TimeoutCancelOutputs
    \/ UserCancel
    \/ RecipientReceive
    \/ RecipientReply
    \/ StrayReply
    \/ Expire
    \/ TriggerShutdown
    \/ Restart

(* The runtime polls a ready task, and the select picks at random among    *)
(* ready arms: the elapsed cancellation timer stays ready while a fresh    *)
(* resend timer is not, so the timeout arm is eventually taken.            *)
Spec == Init /\ [][Next]_vars /\ WF_vars(ProtocolStep) /\ WF_vars(TimeoutArm)

-----------------------------------------------------------------------------
(* Properties.                                                             *)

TypeOK ==
    /\ pc \in PCs
    /\ sendRes \in {"none", "Pending", "Queued"}
    /\ reply \in Replies \cup {NoReply}
    /\ status \in Statuses
    /\ sendCount \in 0..MaxSends
    /\ lastSent \in BOOLEAN
    /\ oms \in OmsStates
    /\ recipient \in {"None", "Finalized", "Failed"}
    /\ {delivered, replied, told, finalSent, cancelSig, expired, shutdown}
         \subseteq BOOLEAN
    /\ chan \in Seq(Replies) /\ Len(chan) <= MaxChan
    /\ strays \in 0..MaxStray
    /\ restarts \in 0..MaxRestarts

(* The output manager's state of the inputs as the abstract lifecycle     *)
(* names it.                                                               *)
AbsInputs ==
    CASE oms = "Free"      -> "Free"
      [] oms = "ShortTerm" -> "Encumbered"
      [] oms = "Confirmed" -> "Confirmed"

Abs == INSTANCE OutboundTransaction WITH inputs <- AbsInputs

(* The protocol implements the transaction lifecycle of                   *)
(* OutboundTransaction: every step of the task, the recipient, the user,  *)
(* the clock and restarts is a step of the lifecycle or leaves the        *)
(* database record, the inputs and the reply as they were.  Among what    *)
(* this says: a transaction completes only with a reply the recipient     *)
(* really sent (wait_for_reply's key and TxId checks), with its inputs    *)
(* confirmed; a reply racing a user cancel or a timeout never turns a     *)
(* cancelled transaction into a completed one; a queued or pending        *)
(* transaction holds its inputs across restarts, and they are released    *)
(* only after it is cancelled.                                             *)
RefinesOutboundTransaction == Abs!Spec

(* Once the cancellation timeout has elapsed, a task waiting in the select *)
(* loop resolves the transaction, unless the wallet is shutting down.      *)
PendingTimesOut ==
    (pc = "loop" /\ expired) ~> (status \in {"Completed", "Cancelled"} \/ shutdown)

=============================================================================
