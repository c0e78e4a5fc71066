---------------------------- MODULE WalletOutputs ----------------------------
(***************************************************************************)
(* The wallet's output table (output_manager_service/storage/sqlite_db/   *)
(* output_sql.rs): the rows the output manager writes, the status updates *)
(* and deletes of OutputSql, the chain tip the wallet learns from its     *)
(* base node, and the two queries the wallet spends and reports from:     *)
(* fetch_unspent_outputs_for_spending and get_balance.                    *)
(*                                                                         *)
(* A row is keyed by its spending key, which also stands for its          *)
(* commitment.  Of its columns only those the queries read are kept:      *)
(* value, output_type, maturity, script_lock_height, status, source and   *)
(* spending_priority.  The service that decides which status an output    *)
(* moves to is not in this repository, so Update may set any status, as  *)
(* the SQL layer allows.  A query result is the set of rows it returns    *)
(* and the value order it sorts them in; the order among equal keys is    *)
(* SQLite's and no property depends on it.                                 *)
(***************************************************************************)
EXTENDS Integers, FiniteSets, FiniteSetsExt

CONSTANTS
    Keys,       \* spending keys (and commitments) of outputs
    NewRows,    \* the rows the output manager may insert
    MaxTip,     \* the highest chain tip considered
    NoTip       \* the tip is not known (Option::None)

VARIABLES
    outputs,    \* the outputs table: spending key -> row
    tip         \* the wallet's view of the chain tip, or NoTip

vars == <<outputs, tip>>

OutputStatus == {"Unspent", "Spent", "EncumberedToBeReceived", "EncumberedToBeSpent",
                 "Invalid", "CancelledInbound", "UnspentMinedUnconfirmed",
                 "ShortTermEncumberedToBeReceived", "ShortTermEncumberedToBeSpent",
                 "SpentMinedUnconfirmed", "NotStored"}

Heights == 0..MaxTip

Row == [value : Nat, otype : {"Standard", "Coinbase", "Burn"}, maturity : Heights,
        lock : Heights, status : OutputStatus, source : {"Standard", "Coinbase", "OneSided"},
        priority : {0, 1}]

(* The value column summed over a set of rows: coalesce(sum(value), 0).   *)
SumValue(ks) == MapThenSumSet(LAMBDA k : outputs[k].value, ks)

(* A height bound against the tip; an unknown tip, or one past i64::MAX,  *)
(* becomes i64::MAX and bounds nothing.                                    *)
AtOrBelowTip(h, t) == t = NoTip \/ h <= t

-----------------------------------------------------------------------------
(* UtxoSelectionCriteria: mode, filter (Standard, or SpecificOutputs with *)
(* a list of commitments), excluding_onesided, excluding, ordering.       *)
Criteria ==
    [mode : {"Safe", "Fast"},
     filter : {[kind |-> "Standard"]} \cup [kind : {"SpecificOutputs"}, commitments : SUBSET Keys],
     excludingOnesided : BOOLEAN,
     excluding : SUBSET Keys,
     ordering : {"SmallestFirst", "LargestFirst", "Default"}]

(* The filter arm of the selection query.                                  *)
PassesFilter(k, c) ==
    IF c.filter.kind = "Standard"
    THEN /\ outputs[k].otype \in {"Standard", "Coinbase"}
         /\ c.excludingOnesided => outputs[k].source # "OneSided"
    ELSE c.filter.commitments = {} \/ k \in c.filter.commitments

(* Safe mode presets the script_lock_height and maturity filters.          *)
SafeModeAllows(k, c, t) ==
    c.mode = "Safe" => AtOrBelowTip(outputs[k].lock, t) /\ AtOrBelowTip(outputs[k].maturity, t)

SpendableAt(k, t) == AtOrBelowTip(outputs[k].lock, t) /\ AtOrBelowTip(outputs[k].maturity, t)

(* The rows fetch_unspent_outputs_for_spending returns: Unspent, allowed  *)
(* by the mode and the filter, and not excluded.                           *)
SelectedRows(c, t) ==
    {k \in DOMAIN outputs : /\ outputs[k].status = "Unspent"
                            /\ SafeModeAllows(k, c, t)
                            /\ PassesFilter(k, c)
                            /\ k \notin c.excluding}

MaxSpendableValueAnyHeight(t) ==
    LET vs == {outputs[k].value : k \in {x \in DOMAIN outputs : outputs[x].status = "Unspent"}}
    IN  IF vs = {} THEN NoTip ELSE Max(vs)

(* The Default ordering's max query: the largest Unspent value that is    *)
(* unlocked and mature at the tip, whatever the mode and filter.           *)
MaxSpendableValue(t) ==
    LET vs == {outputs[k].value : k \in {x \in DOMAIN outputs :
                                          outputs[x].status = "Unspent" /\ SpendableAt(x, t)}}
    IN  IF vs = {} THEN NoTip ELSE Max(vs)

(* The value order after spending_priority desc: largest first when the   *)
(* amount exceeds the largest spendable output, to reduce the inputs.     *)
SelectionOrder(c, amount, t) ==
    CASE c.ordering = "SmallestFirst" -> "asc"
      [] c.ordering = "LargestFirst"  -> "desc"
      [] OTHER -> IF MaxSpendableValue(t) # NoTip /\ amount > MaxSpendableValue(t)
                  THEN "desc" ELSE "asc"

FetchUnspentOutputsForSpending(c, amount, t) ==
    [rows |-> SelectedRows(c, t), order |-> SelectionOrder(c, amount, t)]

(* index_unspent and index_time_locked.                                    *)
IndexUnspent == {k \in DOMAIN outputs : outputs[k].status = "Unspent"}
IndexTimeLocked(t) == {k \in IndexUnspent : outputs[k].maturity > t}

-----------------------------------------------------------------------------
(* The WHERE clauses of the balance query, with SQL's precedence: AND     *)
(* binds tighter than OR.                                                  *)
InAvailable(r) == r.status = "Unspent"
InTimeLocked(r, t) == (r.status = "Unspent" /\ r.maturity > t) \/ r.lock > t
InPendingIncomingWithUnspent(r) ==
    \/ r.source # "Coinbase" /\ r.status = "EncumberedToBeReceived"
    \/ r.status \in {"ShortTermEncumberedToBeReceived", "UnspentMinedUnconfirmed", "Unspent"}
InPendingIncoming(r) ==
    \/ r.source # "Coinbase" /\ r.status = "EncumberedToBeReceived"
    \/ r.status = "ShortTermEncumberedToBeReceived"
    \/ r.status = "UnspentMinedUnconfirmed"
InPendingOutgoing(r) ==
    r.status \in {"EncumberedToBeSpent", "ShortTermEncumberedToBeSpent", "SpentMinedUnconfirmed"}

(* get_balance: with a tip the time-locked category is computed, without  *)
(* one it is Some(None).  Every category is present in both queries, so   *)
(* the UnexpectedResult errors are unreachable.                            *)
GetBalance(t) ==
    [available |-> SumValue({k \in DOMAIN outputs : InAvailable(outputs[k])}),
     timeLocked |-> IF t = NoTip THEN NoTip
                    ELSE SumValue({k \in DOMAIN outputs : InTimeLocked(outputs[k], t)}),
     pendingIncoming |-> SumValue({k \in DOMAIN outputs : InPendingIncoming(outputs[k])}),
     pendingOutgoing |-> SumValue({k \in DOMAIN outputs : InPendingOutgoing(outputs[k])})]

-----------------------------------------------------------------------------
(* The output manager stores a new output (NewOutputSql::commit).          *)
AddOutput(k, r) ==
    /\ k \notin DOMAIN outputs
    /\ outputs' = [x \in DOMAIN outputs \cup {k} |-> IF x = k THEN r ELSE outputs[x]]
    /\ UNCHANGED tip

UpdateDroppingColumns(k, s) ==
    /\ k \in DOMAIN outputs
    /\ outputs' = [outputs EXCEPT ![k] = [status |-> s]]
    /\ UNCHANGED tip

(* OutputSql::update: the row with this id gets the new status; a missing *)
(* row is an error (num_rows_affected_or_not_found) and changes nothing.   *)
Update(k, s) ==
    /\ k \in DOMAIN outputs
    /\ outputs' = [outputs EXCEPT ![k].status = s]
    /\ UNCHANGED tip

(* update_by_commitments: every row whose commitment is listed.            *)
UpdateByCommitments(cs, s) ==
    /\ cs \cap DOMAIN outputs # {}
    /\ outputs' = [x \in DOMAIN outputs |-> IF x \in cs THEN [outputs[x] EXCEPT !.status = s]
                                            ELSE outputs[x]]
    /\ UNCHANGED tip

(* OutputSql::delete by spending key; ValuesNotFound when no row went.    *)
Delete(k) ==
    /\ k \in DOMAIN outputs
    /\ outputs' = [x \in DOMAIN outputs \ {k} |-> outputs[x]]
    /\ UNCHANGED tip

(* The base node reports a tip, possibly lower after a reorg, or none.    *)
NewTip(t) ==
    /\ t # tip
    /\ tip' = t
    /\ UNCHANGED outputs

Init ==
    /\ outputs = [k \in {} |-> CHOOSE r \in NewRows : TRUE]
    /\ tip = NoTip

Next ==
    \/ \E k \in Keys, r \in NewRows : AddOutput(k, r)
    \/ \E k \in Keys, s \in OutputStatus : Update(k, s)
    \/ \E cs \in SUBSET Keys, s \in OutputStatus : Cardinality(cs) > 1 /\ UpdateByCommitments(cs, s)
    \/ \E k \in Keys : Delete(k)
    \/ \E t \in Heights \cup {NoTip} : NewTip(t)

Spec == Init /\ [][Next]_vars

-----------------------------------------------------------------------------
TypeOK ==
    /\ DOMAIN outputs \subseteq Keys
    /\ \A k \in DOMAIN outputs : outputs[k] \in Row
    /\ tip \in Heights \cup {NoTip}

(* The four balance categories never count one output twice: available,  *)
(* pending incoming and pending outgoing together are the value of the   *)
(* outputs in one of them, and available is the value of index_unspent.   *)
BalanceCountsOnce ==
    LET b == GetBalance(tip)
        held == {k \in DOMAIN outputs : \/ InAvailable(outputs[k])
                                        \/ InPendingIncoming(outputs[k])
                                        \/ InPendingOutgoing(outputs[k])}
    IN  /\ b.available + b.pendingIncoming + b.pendingOutgoing = SumValue(held)
        /\ b.available = SumValue(IndexUnspent)

(* The Default ordering reduces the number of inputs: it sorts largest    *)
(* first exactly when no single output Safe selection could spend covers  *)
(* the amount (SpecificOutputs with no commitments and no exclusions      *)
(* offers every such output).                                              *)
DefaultOrderLargestWhenUncovered ==
    \A amount \in {1, 2, 3} :
        LET c == [mode |-> "Safe", filter |-> [kind |-> "SpecificOutputs", commitments |-> {}],
                  excludingOnesided |-> FALSE, excluding |-> {}, ordering |-> "Default"]
            r == FetchUnspentOutputsForSpending(c, amount, tip)
        IN  (r.order = "desc") <=> (r.rows # {} /\ \A k \in r.rows : outputs[k].value < amount)

(* get_balance reports as time-locked the Unspent funds that cannot yet  *)
(* be spent: with a known tip, time_locked_balance is available_balance  *)
(* less the value Safe selection may spend at that tip.                    *)
TimeLockedIsUnspendableUnspent ==
    tip # NoTip =>
        LET c == [mode |-> "Safe", filter |-> [kind |-> "SpecificOutputs", commitments |-> {}],
                  excludingOnesided |-> FALSE, excluding |-> {}, ordering |-> "Default"]
        IN  GetBalance(tip).timeLocked
              = GetBalance(tip).available - SumValue(FetchUnspentOutputsForSpending(c, 0, tip).rows)
=============================================================================
