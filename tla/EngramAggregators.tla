-------------------------- MODULE EngramAggregators --------------------------
(***************************************************************************)
(* The handlers of EngramManager about aggregators: registration with a     *)
(* deposit, the rotation that designates who commits the next epoch, the    *)
(* slash for silence, and the withdrawal of the deposit.                    *)
(***************************************************************************)
EXTENDS EngramState, FiniteSetsExt

notAggHandlers == <<providerVars, dealVars, membershipVars, epochVars,
                    settlementVars>>

NextRotation == (aggRotation + 1) % ROTATION_WRAP

-----------------------------------------------------------------------------
\* The i-th candidate of the current rotation.
Candidate(i) ==
    aggregatorSet[((aggRotation + i) % Len(aggregatorSet)) + 1]

-----------------------------------------------------------------------------
\* Seeded fault: the candidate whose turn it is, funded or not.
designatedAggregator_NeverSkips ==
    IF aggregatorSet = << >> THEN NoAddress ELSE Candidate(0)

\* Who may commit the next epoch before its deadline: the first candidate whose
\* deposit is not below the minimum, or nobody in particular.
designatedAggregator ==
    LET funded == {i \in 0..(Len(aggregatorSet) - 1) :
                     aggregators[Candidate(i)].collateralWei >= MIN_AGG_COLLATERAL}
    IN  IF funded = {} THEN NoAddress ELSE Candidate(Min(funded))

-----------------------------------------------------------------------------
\* An aggregator takes its place in the rotation once, a top-up adds none.
Enlisted_Again(a) == Append(aggregatorSet, a)
Enlisted(a) == IF aggregators[a].registered THEN aggregatorSet
                                            ELSE Append(aggregatorSet, a)

RegisterAggregator(a, value) ==
    /\ value <= aggWallet[a]
    /\ aggregators[a].collateralWei + value >= MIN_AGG_COLLATERAL
    /\ aggregatorSet' = Enlisted(a)
    /\ aggregators' = [aggregators EXCEPT ![a].registered = TRUE,
                                          ![a].collateralWei = @ + value]
    /\ aggWallet' = [aggWallet EXCEPT ![a] = @ - value]
    /\ balance' = balance + value
    /\ UNCHANGED <<aggRotation, blocksSinceDeadlineSet, notAggHandlers>>

\* Anyone may report that the deadline of the next epoch has passed: the
\* designated aggregator loses a share of its deposit, the rotation moves on
\* and the deadline is set again.  A reporter who is an aggregator keeps the
\* bounty in its own pocket.
ReportAggregatorTimeout(reporter) ==
    LET agg == designatedAggregator
        slashed == BpsOf(aggregators[agg].collateralWei, AGG_TIMEOUT_SLASH_BPS)
        bounty == Bounty(slashed)
    IN  /\ DeadlinePassed
        /\ agg # NoAddress
        /\ bounty <= balance
        /\ aggregators' = [aggregators EXCEPT ![agg].collateralWei = @ - slashed]
        /\ aggRotation' = NextRotation
        /\ blocksSinceDeadlineSet' = 0
        /\ balance' = balance - bounty
        /\ aggWallet' = IF reporter \in AggIds
                        THEN [aggWallet EXCEPT ![reporter] = @ + bounty]
                        ELSE aggWallet
        /\ UNCHANGED <<aggregatorSet, notAggHandlers>>

\* Unlike the provider's request, this one stores the epoch itself.
RequestAggregatorWithdraw(a) ==
    /\ aggregators[a].registered
    /\ aggregators' = [aggregators EXCEPT
          ![a].withdrawRequestedAtEpoch = lastCommittedEpoch]
    /\ UNCHANGED <<aggregatorSet, aggRotation, aggWallet, blocksSinceDeadlineSet,
                   balance, notAggHandlers>>

WithdrawAggregatorCollateral(a, amount) ==
    LET old == aggregators[a]
    IN  /\ old.registered
        /\ a # designatedAggregator
        /\ old.withdrawRequestedAtEpoch # 0
        /\ lastCommittedEpoch >= old.withdrawRequestedAtEpoch + COLLATERAL_LOCK_EPOCHS
        /\ amount <= old.collateralWei
        /\ amount <= balance
        /\ aggregators' = [aggregators EXCEPT
              ![a].collateralWei = @ - amount,
              ![a].withdrawRequestedAtEpoch = 0]
        /\ aggWallet' = [aggWallet EXCEPT ![a] = @ + amount]
        /\ balance' = balance - amount
        /\ UNCHANGED <<aggregatorSet, aggRotation, blocksSinceDeadlineSet,
                       notAggHandlers>>
=============================================================================
