--------------------------- MODULE MC_WalletOutputs ---------------------------
EXTENDS WalletOutputs

(* Three candidate rows: a plain received output, a coinbase maturing at  *)
(* height 2, and a one-sided output script-locked until height 1.          *)
MC_NewRows ==
    {[value |-> 1, otype |-> "Standard", maturity |-> 0, lock |-> 0, status |-> "Unspent",
      source |-> "Standard", priority |-> 0],
     [value |-> 2, otype |-> "Coinbase", maturity |-> 2, lock |-> 0, status |-> "EncumberedToBeReceived",
      source |-> "Coinbase", priority |-> 0],
     [value |-> 2, otype |-> "Standard", maturity |-> 0, lock |-> 1, status |-> "Unspent",
      source |-> "OneSided", priority |-> 1]}
=============================================================================
