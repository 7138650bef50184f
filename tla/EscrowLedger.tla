----------------------------- MODULE EscrowLedger -----------------------------
(***************************************************************************)
(* What EngramManager promises those whose money it holds: an account for    *)
(* the escrow of each deal, one for its sealing fee, and one for the         *)
(* collateral of each provider.  There are no counters, suspensions, log     *)
(* entries, epoch records or aggregators here; which amounts may leave an    *)
(* account, when, and that no step touches the account of another.           *)
(***************************************************************************)
EXTENDS Integers, FiniteSets

CONSTANTS Providers, Deals, NoAddress, Epochs, MIN_COLLATERAL_PER_SLOT, REWARD_WEI,
          SLASH_WEI, DEPOSITS, PRICES, DURATIONS, FEES

VARIABLES
    stage,         \* where each deal is in its life
    owner,         \* the provider that stores it
    escrow,        \* what its customer has paid and nobody has got yet
    fee,           \* its sealing fee, until it is paid or given back
    collateral,    \* what each provider has staked
    paid           \* the leaves that have been settled, as <<epoch, deal>>

dealAccounts == <<stage, owner, escrow, fee>>
vars == <<dealAccounts, collateral, paid>>

Init ==
    /\ stage = [d \in Deals |-> "None"]
    /\ owner = [d \in Deals |-> NoAddress]
    /\ escrow = [d \in Deals |-> 0]
    /\ fee = [d \in Deals |-> 0]
    /\ collateral = [p \in Providers |-> 0]
    /\ paid = {}

\* The collateral that k more deals of p would tie up, with those it stores.
Needed(p, k) ==
    (Cardinality({d \in Deals : owner[d] = p /\ stage[d] \in {"Pending", "Active"}}) + k)
        * MIN_COLLATERAL_PER_SLOT

Deposit(p, value) ==
    /\ collateral[p] + value >= Needed(p, 0)
    /\ collateral' = [collateral EXCEPT ![p] = @ + value]
    /\ UNCHANGED <<dealAccounts, paid>>

Withdraw(p, amount) ==
    /\ collateral[p] >= Needed(p, 0) + amount
    /\ collateral' = [collateral EXCEPT ![p] = @ - amount]
    /\ UNCHANGED <<dealAccounts, paid>>

\* The customer pays for the whole term, to a provider that can answer for it.
Open(d, p, amount, sealing) ==
    /\ stage[d] = "None"
    /\ collateral[p] >= Needed(p, 1)
    /\ stage' = [stage EXCEPT ![d] = "Pending"]
    /\ owner' = [owner EXCEPT ![d] = p]
    /\ escrow' = [escrow EXCEPT ![d] = amount]
    /\ fee' = [fee EXCEPT ![d] = sealing]
    /\ UNCHANGED <<collateral, paid>>

\* The provider gets its sealing fee: an account that is empty pays no more.
ReleaseFee(d) ==
    /\ stage[d] = "Pending"
    /\ fee' = [fee EXCEPT ![d] = 0]
    /\ UNCHANGED <<stage, owner, escrow, collateral, paid>>

\* No deal is stored whose provider is still owed the fee.
Confirm(d) ==
    /\ stage[d] = "Pending" /\ fee[d] = 0
    /\ stage' = [stage EXCEPT ![d] = "Active"]
    /\ UNCHANGED <<owner, escrow, fee, collateral, paid>>

\* The customer gets back all there is: a deal is aborted or closed, not both.
End(d) ==
    /\ \/ stage[d] = "Pending" /\ stage' = [stage EXCEPT ![d] = "Aborted"]
       \/ stage[d] = "Active" /\ stage' = [stage EXCEPT ![d] = "Closed"]
    /\ escrow' = [escrow EXCEPT ![d] = 0]
    /\ fee' = [fee EXCEPT ![d] = 0]
    /\ UNCHANGED <<owner, collateral, paid>>

\* A leaf is settled once, and moves a reward, or a slash, or nothing.
Settle(e, d) ==
    /\ <<e, d>> \notin paid
    /\ stage[d] \in {"Active", "Closed"}
    /\ paid' = paid \cup {<<e, d>>}
    /\ \/ /\ escrow[d] >= REWARD_WEI
          /\ escrow' = [escrow EXCEPT ![d] = @ - REWARD_WEI]
          /\ UNCHANGED collateral
       \/ /\ collateral' = [collateral EXCEPT
                ![owner[d]] = IF @ > SLASH_WEI THEN @ - SLASH_WEI ELSE 0]
          /\ UNCHANGED escrow
       \/ UNCHANGED <<escrow, collateral>>
    /\ UNCHANGED <<stage, owner, fee>>

Next ==
    \/ \E p \in Providers :
          \/ \E value \in DEPOSITS : Deposit(p, value)
          \/ \E amount \in 0..collateral[p] : Withdraw(p, amount)
    \/ \E d \in Deals :
          \/ \E p \in Providers, price \in PRICES, duration \in DURATIONS, sealing \in FEES :
                Open(d, p, price * duration, sealing)
          \/ ReleaseFee(d)
          \/ Confirm(d)
          \/ End(d)
          \/ \E e \in Epochs : Settle(e, d)

Spec == Init /\ [][Next]_vars
=============================================================================
