---------------------- MODULE MC_TransactionSendProtocol ----------------------
(* One outbound transaction under the default routing (direct and store-and- *)
(* forward), two sends, two queued replies, two stray replies, two restarts. *)
EXTENDS TransactionSendProtocol

MC_Routing == "DirectAndStoreAndForward"
==============================================================================
