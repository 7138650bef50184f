------------------------ MODULE EngramSettlementProofs ------------------------
(***************************************************************************)
(* Theorems about the money of EngramManager, for every value of the         *)
(* constants: the epochs it is paid out of, the claims on them, the escrow   *)
(* they are paid from, and that the contract never owes more than it holds.  *)
(***************************************************************************)
EXTENDS EngramRegistryProofs

-----------------------------------------------------------------------------
(***************************************************************************)
(* ClaimsAreOfFinalLeaves is not inductive: commitEpoch writes a record      *)
(* over whatever is under the next epoch number, and could replace a Final   *)
(* one.  It never does because the epochs after the last committed one are   *)
(* Open or Void, which is EpochsAreContiguous.                               *)
(***************************************************************************)
EpochInv == EpochsAreContiguous /\ ClaimsAreOfFinalLeaves

\* Steps that leave the epochs and the claims alone.
LEMMA EpochInvFrame ==
    ASSUME EpochInv, UNCHANGED <<epochs, lastCommittedEpoch, settlementClaimed>>
    PROVE  EpochInv'
BY DEF EpochInv, EpochsAreContiguous, ClaimsAreOfFinalLeaves

LEMMA OtherNextEpochInv ==
    ASSUME EpochInv,
           \/ ProviderNext \/ DealNext \/ AggregatorNext \/ Tick
           \/ \E value \in DEPOSITS : Receive(value)
           \/ UNCHANGED vars
    PROVE  EpochInv'
<1>1. CASE ProviderNext
  BY <1>1, ProviderNextFrame, EpochInvFrame DEF notDealHandlers, epochVars, settlementVars
<1>2. CASE DealNext
  <2>1. UNCHANGED notDealHandlers
    BY <1>2, DealNextFrame
  <2> QED BY <2>1, EpochInvFrame DEF notDealHandlers, epochVars, settlementVars
<1>3. CASE AggregatorNext
  BY <1>3, AggregatorNextFrame, EpochInvFrame DEF epochVars, settlementVars
<1>4. CASE Tick \/ (\E value \in DEPOSITS : Receive(value)) \/ UNCHANGED vars
  BY <1>4, EpochInvFrame DEF Tick, Receive, vars, epochVars, settlementVars
<1> QED BY <1>1, <1>2, <1>3, <1>4

LEMMA CommitEpochEpochInv ==
    ASSUME TypeOK, EpochInv, NEW submitter, NEW list \in SettlementLists,
           NEW saturation, CommitEpoch(submitter, list, saturation)
    PROVE  EpochInv'
<1> DEFINE epoch == lastCommittedEpoch + 1
<1>1. /\ epoch \in EpochIds
      /\ lastCommittedEpoch' = epoch
      /\ settlementClaimed' = settlementClaimed
  BY DEF CommitEpoch, CanCommitEpoch, settlementVars
<1>2. /\ epochs'[epoch].state = "Committed"
      /\ \A e \in EpochIds \ {epoch} : epochs'[e] = epochs[e]
  BY <1>1 DEF CommitEpoch, TypeOK
<1>3. epoch > lastCommittedEpoch
  BY InputAssumption DEF TypeOK
<1>4. EpochsAreContiguous'
  <2> SUFFICES ASSUME NEW e \in EpochIds
               PROVE  /\ e <= epoch => epochs'[e].state # "Open"
                      /\ e > epoch => /\ epochs'[e].state \in {"Open", "Void"}
                                      /\ \A d \in Deals :
                                            epochs'[e].verdicts[d] = "NoLeaf"
    BY <1>1 DEF EpochsAreContiguous
  <2>1. CASE e = epoch
    BY <1>1, <1>2, <2>1 DEF EpochIds
  <2>2. CASE e # epoch
    <3>1. epochs'[e] = epochs[e]
      BY <1>2, <2>2
    <3>2. /\ e <= epoch => e <= lastCommittedEpoch
          /\ e > epoch => e > lastCommittedEpoch
      <4>1. lastCommittedEpoch \in Nat /\ e \in Nat
        BY InputAssumption DEF TypeOK, EpochIds
      <4> QED BY <2>2, <4>1
    <3> HIDE DEF epoch
    <3> QED BY <3>1, <3>2 DEF EpochInv, EpochsAreContiguous
  <2> QED BY <2>1, <2>2
<1>5. \A d \in Deals : <<epoch, d>> \notin settlementClaimed
  <2>1. epochs[epoch].state \in {"Open", "Void"}
    BY <1>1, <1>3, InputAssumption DEF EpochInv, EpochsAreContiguous, TypeOK
  <2> QED BY <1>1, <2>1 DEF EpochInv, ClaimsAreOfFinalLeaves
<1>6. ClaimsAreOfFinalLeaves'
  BY <1>1, <1>2, <1>5 DEF EpochInv, ClaimsAreOfFinalLeaves
<1> QED BY <1>4, <1>6 DEF EpochInv

LEMMA FinalizeEpochEpochInv ==
    ASSUME TypeOK, EpochInv, NEW epoch \in EpochIds, FinalizeEpoch(epoch)
    PROVE  EpochInv'
<1>1. /\ epochs[epoch].state = "Committed"
      /\ UNCHANGED <<lastCommittedEpoch, settlementClaimed>>
  BY DEF FinalizeEpoch, MayFinalize, settlementVars
<1>2. /\ epochs'[epoch].state = "Final"
      /\ epochs'[epoch].verdicts = epochs[epoch].verdicts
      /\ \A e \in EpochIds \ {epoch} : epochs'[e] = epochs[e]
  BY DEF FinalizeEpoch, MayFinalize, TypeOK, EpochRecord
<1>3. EpochsAreContiguous'
  BY <1>1, <1>2 DEF EpochInv, EpochsAreContiguous
<1>4. ClaimsAreOfFinalLeaves'
  BY <1>1, <1>2 DEF EpochInv, ClaimsAreOfFinalLeaves
<1> QED BY <1>3, <1>4 DEF EpochInv

LEMMA VoidEpochEpochInv ==
    ASSUME TypeOK, EpochInv, NEW epoch \in EpochIds, VoidEpoch(epoch)
    PROVE  EpochInv'
<1>1. /\ epochs[epoch].state # "Final"
      /\ UNCHANGED <<lastCommittedEpoch, settlementClaimed>>
  BY DEF VoidEpoch, MayVoid, settlementVars
<1>2. /\ epochs'[epoch].state = "Void"
      /\ epochs'[epoch].verdicts = epochs[epoch].verdicts
      /\ \A e \in EpochIds \ {epoch} : epochs'[e] = epochs[e]
  BY DEF VoidEpoch, MayVoid, TypeOK, EpochRecord
<1>3. EpochsAreContiguous'
  BY <1>1, <1>2 DEF EpochInv, EpochsAreContiguous
<1>4. ClaimsAreOfFinalLeaves'
  BY <1>1, <1>2 DEF EpochInv, ClaimsAreOfFinalLeaves
<1> QED BY <1>3, <1>4 DEF EpochInv

LEMMA ClaimSettlementEpochInv ==
    ASSUME TypeOK, EpochInv, NEW sender, NEW epoch \in EpochIds, NEW d \in Deals,
           ClaimSettlement(sender, epoch, d)
    PROVE  EpochInv'
<1>1. /\ epochs[epoch].state = "Final"
      /\ epochs[epoch].verdicts[d] # "NoLeaf"
      /\ settlementClaimed' = settlementClaimed \cup {<<epoch, d>>}
      /\ UNCHANGED <<epochs, lastCommittedEpoch>>
  BY DEF ClaimSettlement, InResults, epochVars
<1>2. EpochsAreContiguous'
  BY <1>1 DEF EpochInv, EpochsAreContiguous
<1>3. ClaimsAreOfFinalLeaves'
  BY <1>1 DEF EpochInv, ClaimsAreOfFinalLeaves
<1> QED BY <1>2, <1>3 DEF EpochInv

-----------------------------------------------------------------------------
LEMMA InitEpochInv == Init => EpochInv
<1> SUFFICES ASSUME Init PROVE EpochInv
  OBVIOUS
<1>1. EpochsAreContiguous
  BY InputAssumption DEF Init, EpochsAreContiguous, NoEpochRecord, EpochIds
<1>2. ClaimsAreOfFinalLeaves
  BY DEF Init, ClaimsAreOfFinalLeaves
<1> QED BY <1>1, <1>2 DEF EpochInv

LEMMA NextEpochInv == TypeInv /\ EpochInv /\ [Next]_vars => EpochInv'
<1> SUFFICES ASSUME TypeInv, EpochInv, [Next]_vars PROVE EpochInv'
  OBVIOUS
<1>1. TypeOK
  BY DEF TypeInv
<1>2. CASE EpochNext
  BY <1>1, <1>2, CommitEpochEpochInv, FinalizeEpochEpochInv, VoidEpochEpochInv,
     ClaimSettlementEpochInv DEF EpochNext, CommitBy
<1> QED BY <1>2, OtherNextEpochInv DEF Next

\* Voiding and committing in any order leaves no gap in the chain of epochs:
\* every epoch up to the last committed one has had a proof or was voided, none
\* after it has a leaf.
THEOREM ContiguousEpochs == Spec => []EpochsAreContiguous
<1>1. EpochInv => EpochsAreContiguous
  BY DEF EpochInv
<1> QED BY InitTypeInv, NextTypeInv, InitEpochInv, NextEpochInv, <1>1, PTL DEF Spec

\* An epoch somebody has been paid from stays Final with that leaf in its list:
\* no void and no later commit takes the ground away from a payment.
THEOREM PaidLeavesStayFinal == Spec => []ClaimsAreOfFinalLeaves
<1>1. EpochInv => ClaimsAreOfFinalLeaves
  BY DEF EpochInv
<1> QED BY InitTypeInv, NextTypeInv, InitEpochInv, NextEpochInv, <1>1, PTL DEF Spec
-----------------------------------------------------------------------------
(***************************************************************************)
(* Escrow.  The equation of EscrowMatchesClaims has to hold for Pending      *)
(* deals too, which have no claims: a claim is of a leaf (EpochInv) and a    *)
(* leaf is of a deal that was activated (TypeInv).                          *)
(***************************************************************************)
EscrowIsUnclaimedTerm(d) ==
    deals[d].escrowWei + REWARD_WEI * Cardinality(PassClaims(d))
      = deals[d].pricePerEpochWei * (deals[d].endEpoch - deals[d].openedAtEpoch)

EscrowInv == \A d \in Deals : Live(d) => EscrowIsUnclaimedTerm(d)

LEMMA PassClaimsAreFinite ==
    ASSUME NEW d
    PROVE  IsFiniteSet(PassClaims(d))
<1>1. IsFiniteSet(1..MAX_EPOCH)
  BY InputAssumption, FS_Interval
<1>2. PassClaims(d) \in SUBSET (1..MAX_EPOCH)
  BY DEF PassClaims, EpochIds
<1> QED BY <1>1, <1>2, FS_Subset

LEMMA UnactivatedHasNoClaims ==
    ASSUME TypeInv, EpochInv, NEW d \in Deals,
           deals[d].state \notin {"Active", "Closed"}
    PROVE  PassClaims(d) = {}
BY DEF TypeInv, EpochInv, PassClaims, ClaimsAreOfFinalLeaves, LeavesAreOfActivatedDeals

\* Steps after which every live deal was live before, with the same terms.
LEMMA EscrowFrame ==
    ASSUME EscrowInv,
           \A d \in Deals :
              Live(d)' => /\ Live(d)
                          /\ deals'[d].escrowWei = deals[d].escrowWei
                          /\ deals'[d].pricePerEpochWei = deals[d].pricePerEpochWei
                          /\ deals'[d].openedAtEpoch = deals[d].openedAtEpoch
                          /\ deals'[d].endEpoch = deals[d].endEpoch,
           \A d \in Deals : PassClaims(d)' = PassClaims(d)
    PROVE  EscrowInv'
BY DEF EscrowInv, EscrowIsUnclaimedTerm

\* Steps that change no deal, no epoch and no claim.
LEMMA EscrowUnchanged ==
    ASSUME EscrowInv, UNCHANGED <<deals, epochs, settlementClaimed>>
    PROVE  EscrowInv'
<1>1. \A d \in Deals : PassClaims(d)' = PassClaims(d)
  BY DEF PassClaims
<1>2. \A d \in Deals : Live(d)' <=> Live(d)
  BY DEF Live
<1> QED BY <1>1, <1>2, EscrowFrame

LEMMA DealNextEscrow ==
    ASSUME TypeInv, EpochInv, EscrowInv, DealNext
    PROVE  EscrowInv'
<1>1. deals \in [Deals -> StorageDeal] /\ lastCommittedEpoch \in Nat
  BY InputAssumption DEF TypeInv, TypeOK
<1>2. UNCHANGED <<epochs, settlementClaimed>>
  <2>1. UNCHANGED notDealHandlers
    BY DealNextFrame
  <2> QED BY <2>1 DEF notDealHandlers, epochVars, settlementVars
<1>3. \A d \in Deals : PassClaims(d)' = PassClaims(d)
  BY <1>2 DEF PassClaims
<1>4. ASSUME NEW d \in Deals, NEW p \in Providers, NEW price \in PRICES,
             NEW duration \in DURATIONS, NEW fee \in FEES,
             OpenDeal(d, p, price, duration, fee)
      PROVE  EscrowInv'
  <2> DEFINE opened == lastCommittedEpoch + 1
             escrow == price * duration
  <2>1. price \in Nat /\ duration \in Nat /\ escrow \in Nat
    BY InputAssumption
  <2>2. /\ deals[d].state = "None"
        /\ \A c \in Deals \ {d} : deals'[c] = deals[c]
        /\ deals'[d].escrowWei = escrow
        /\ deals'[d].pricePerEpochWei = price
        /\ deals'[d].openedAtEpoch = opened
        /\ deals'[d].endEpoch = opened + duration
    BY <1>1, <1>4 DEF OpenDeal
  <2>3. REWARD_WEI * Cardinality(PassClaims(d)') = 0
    <3>1. PassClaims(d)' = {}
      BY <1>3, <2>2, UnactivatedHasNoClaims
    <3> QED BY <3>1, FS_EmptySet, ParamAssumption
  <2>4. (opened + duration) - opened = duration
    BY <1>1, <2>1
  <2>5. EscrowIsUnclaimedTerm(d)'
    <3> HIDE DEF opened
    <3> QED BY <2>1, <2>2, <2>3, <2>4 DEF EscrowIsUnclaimedTerm
  <2>6. \A c \in Deals \ {d} : Live(c)' => EscrowIsUnclaimedTerm(c)'
    BY <1>3, <2>2 DEF EscrowInv, EscrowIsUnclaimedTerm, Live
  <2> QED BY <2>5, <2>6 DEF EscrowInv
<1>5. ASSUME NEW d \in Deals, NEW sealed \in BOOLEAN, RegisterSealed(d, sealed)
      PROVE  EscrowInv'
  BY <1>1, <1>3, <1>5, EscrowFrame DEF RegisterSealed, FeeDue, StorageDeal, Live
<1>6. ASSUME NEW d \in Deals, Activate(d)
      PROVE  EscrowInv'
  BY <1>1, <1>3, <1>6, EscrowFrame DEF Activate, StorageDeal, Live
<1>7. ASSUME NEW d \in Deals, AbortDeal(d)
      PROVE  EscrowInv'
  BY <1>1, <1>3, <1>7, EscrowFrame DEF AbortDeal, StorageDeal, Live
<1>8. ASSUME NEW d \in Deals, CloseExpiredDeal(d)
      PROVE  EscrowInv'
  BY <1>1, <1>3, <1>8, EscrowFrame DEF CloseExpiredDeal, StorageDeal, Live
<1> QED BY <1>4, <1>5, <1>6, <1>7, <1>8 DEF DealNext

LEMMA CommitEpochEscrow ==
    ASSUME TypeOK, EpochInv, EscrowInv, NEW submitter, NEW list \in SettlementLists,
           NEW saturation, CommitEpoch(submitter, list, saturation)
    PROVE  EscrowInv'
<1> DEFINE epoch == lastCommittedEpoch + 1
<1>1. /\ epoch \in EpochIds
      /\ UNCHANGED <<deals, settlementClaimed>>
  BY DEF CommitEpoch, CanCommitEpoch, settlementVars, notEpochHandlers
<1>2. \A e \in EpochIds \ {epoch} : epochs'[e] = epochs[e]
  BY <1>1 DEF CommitEpoch, TypeOK
<1>3. \A d \in Deals : <<epoch, d>> \notin settlementClaimed
  <2>1. epoch > lastCommittedEpoch
    BY InputAssumption DEF TypeOK
  <2>2. epochs[epoch].state \in {"Open", "Void"}
    BY <1>1, <2>1 DEF EpochInv, EpochsAreContiguous
  <2> QED BY <1>1, <2>2 DEF EpochInv, ClaimsAreOfFinalLeaves
<1>4. \A d \in Deals : PassClaims(d)' = PassClaims(d)
  <2> HIDE DEF epoch
  <2> QED BY <1>1, <1>2, <1>3 DEF PassClaims
<1>5. \A d \in Deals : Live(d)' <=> Live(d)
  BY <1>1 DEF Live
<1> QED BY <1>1, <1>4, <1>5, EscrowFrame

LEMMA FinalizeOrVoidEscrow ==
    ASSUME TypeOK, EscrowInv, NEW epoch \in EpochIds,
           FinalizeEpoch(epoch) \/ VoidEpoch(epoch)
    PROVE  EscrowInv'
<1>1. UNCHANGED <<deals, settlementClaimed>>
  BY DEF FinalizeEpoch, MayFinalize, VoidEpoch, MayVoid, settlementVars, notEpochHandlers
<1>2. \A e \in EpochIds : epochs'[e].verdicts = epochs[e].verdicts
  <2>1. CASE FinalizeEpoch(epoch)
    BY <2>1 DEF FinalizeEpoch, MayFinalize, TypeOK, EpochRecord
  <2>2. CASE VoidEpoch(epoch)
    BY <2>2 DEF VoidEpoch, MayVoid, TypeOK, EpochRecord
  <2> QED BY <2>1, <2>2
<1>3. \A d \in Deals : PassClaims(d)' = PassClaims(d)
  BY <1>1, <1>2 DEF PassClaims
<1>4. \A d \in Deals : Live(d)' <=> Live(d)
  BY <1>1 DEF Live
<1> QED BY <1>1, <1>3, <1>4, EscrowFrame

LEMMA ClaimSettlementEscrow ==
    ASSUME TypeOK, EscrowInv, NEW sender, NEW epoch \in EpochIds, NEW d \in Deals,
           ClaimSettlement(sender, epoch, d)
    PROVE  EscrowInv'
<1> DEFINE reward == RewardOf(epochs[epoch].verdicts[d])
           escrow == deals[d].escrowWei - reward
<1>1. /\ <<epoch, d>> \notin settlementClaimed
      /\ settlementClaimed' = settlementClaimed \cup {<<epoch, d>>}
      /\ epochs' = epochs
      /\ deals' = [deals EXCEPT ![d].escrowWei = escrow]
  BY DEF ClaimSettlement, InResults, Unclaimed, epochVars
<1>2. /\ \A c \in Deals \ {d} : deals'[c] = deals[c]
      /\ deals'[d].escrowWei = escrow
      /\ deals'[d].pricePerEpochWei = deals[d].pricePerEpochWei
      /\ deals'[d].openedAtEpoch = deals[d].openedAtEpoch
      /\ deals'[d].endEpoch = deals[d].endEpoch
      /\ deals'[d].state = deals[d].state
  <2> HIDE DEF escrow
  <2> QED BY <1>1 DEF TypeOK, StorageDeal
<1>3. \A c \in Deals \ {d} : PassClaims(c)' = PassClaims(c)
  BY <1>1 DEF PassClaims
<1>4. REWARD_WEI * Cardinality(PassClaims(d)')
        = REWARD_WEI * Cardinality(PassClaims(d)) + reward
  <2> DEFINE n == Cardinality(PassClaims(d))
  <2>1. n \in Nat /\ REWARD_WEI \in Nat
    BY PassClaimsAreFinite, FS_CardinalityType, ParamAssumption
  <2>2. CASE epochs[epoch].verdicts[d] = "PASS"
    <3>1. PassClaims(d)' = PassClaims(d) \cup {epoch} /\ epoch \notin PassClaims(d)
      BY <1>1, <2>2 DEF PassClaims
    <3>2. Cardinality(PassClaims(d)') = n + 1
      BY <3>1, PassClaimsAreFinite, FS_AddElement
    <3>3. reward = REWARD_WEI
      BY <2>2 DEF RewardOf
    <3>4. REWARD_WEI * (n + 1) = REWARD_WEI * n + REWARD_WEI
      <4> HIDE DEF n
      <4> QED BY <2>1
    <3> QED BY <3>2, <3>3, <3>4
  <2>3. CASE epochs[epoch].verdicts[d] # "PASS"
    <3>1. PassClaims(d)' = PassClaims(d)
      BY <1>1, <2>3 DEF PassClaims
    <3>2. reward = 0
      BY <2>3 DEF RewardOf
    <3> DEFINE paid == REWARD_WEI * n
    <3>3. paid \in Nat
      BY <2>1
    <3>4. REWARD_WEI * Cardinality(PassClaims(d)') = paid
      BY <3>1
    <3> HIDE DEF paid
    <3>5. paid = paid + reward
      BY <3>2, <3>3
    <3> QED BY <3>4, <3>5 DEF paid
  <2> QED BY <2>2, <2>3
<1>5. Live(d) => EscrowIsUnclaimedTerm(d)'
  <2> DEFINE before == REWARD_WEI * Cardinality(PassClaims(d))
             after == REWARD_WEI * Cardinality(PassClaims(d)')
             term == deals[d].pricePerEpochWei * (deals[d].endEpoch - deals[d].openedAtEpoch)
  <2>1. before \in Nat
    BY PassClaimsAreFinite, FS_CardinalityType, ParamAssumption
  <2>2. reward \in Nat /\ deals[d].escrowWei \in Nat
    BY ParamAssumption DEF RewardOf, TypeOK, StorageDeal
  <2>3. SUFFICES ASSUME Live(d) PROVE deals'[d].escrowWei + after = term
    BY <1>2 DEF EscrowIsUnclaimedTerm
  <2>4. deals[d].escrowWei + before = term
    BY <2>3 DEF EscrowInv, EscrowIsUnclaimedTerm
  <2>5. after = before + reward /\ deals'[d].escrowWei = deals[d].escrowWei - reward
    BY <1>2, <1>4
  <2> HIDE DEF before, after, term, reward
  <2> QED BY <2>1, <2>2, <2>4, <2>5
<1>6. \A c \in Deals : Live(c)' <=> Live(c)
  BY <1>2 DEF Live
<1>7. \A c \in Deals \ {d} : Live(c)' => EscrowIsUnclaimedTerm(c)'
  BY <1>2, <1>3, <1>6 DEF EscrowInv, EscrowIsUnclaimedTerm
<1> QED BY <1>5, <1>6, <1>7 DEF EscrowInv

LEMMA NextEscrow ==
    ASSUME TypeInv, EpochInv, EscrowInv, [Next]_vars
    PROVE  EscrowInv'
<1>1. TypeOK
  BY DEF TypeInv
<1>2. CASE ProviderNext
  BY <1>2, ProviderNextFrame, EscrowUnchanged DEF notDealHandlers, epochVars,
     settlementVars, dealVars
<1>3. CASE AggregatorNext
  BY <1>3, AggregatorNextFrame, EscrowUnchanged DEF epochVars, settlementVars, dealVars
<1>4. CASE EpochNext
  BY <1>1, <1>4, CommitEpochEscrow, FinalizeOrVoidEscrow, ClaimSettlementEscrow
  DEF EpochNext, CommitBy
<1>5. CASE Tick \/ (\E value \in DEPOSITS : Receive(value)) \/ UNCHANGED vars
  BY <1>5, EscrowUnchanged DEF Tick, Receive, vars, epochVars, settlementVars, dealVars
<1> QED BY <1>2, <1>3, <1>4, <1>5, DealNextEscrow DEF Next

\* While a deal is Active its escrow is what its customer paid less one reward
\* for every PASS leaf claimed, whoever claimed them and in whichever order.
THEOREM EscrowPaysEachLeafOnce == Spec => []EscrowMatchesClaims
<1>1. Init => TypeInv /\ EpochInv /\ EscrowInv
  <2>1. Init => EscrowInv
    BY DEF Init, EscrowInv, Live, NoDealRecord
  <2> QED BY <2>1, InitTypeInv, InitEpochInv
<1>2. (TypeInv /\ EpochInv /\ EscrowInv) /\ [Next]_vars
        => (TypeInv /\ EpochInv /\ EscrowInv)'
  BY NextTypeInv, NextEpochInv, NextEscrow
<1>3. EscrowInv => EscrowMatchesClaims
  BY DEF EscrowInv, EscrowIsUnclaimedTerm, EscrowMatchesClaims, Live
<1> QED BY <1>1, <1>2, <1>3, PTL DEF Spec

-----------------------------------------------------------------------------
(***************************************************************************)
(* Lemmas about Total.  Counting coins lets the total of a function change   *)
(* with one of its values without an induction over its domain.             *)
(***************************************************************************)
LEMMA CoinsAreCounted ==
    ASSUME NEW f, NEW x, f[x] \in Nat
    PROVE  IsFiniteSet(CoinsOf(f, x)) /\ Cardinality(CoinsOf(f, x)) = f[x]
<1>1. IsFiniteSet({x}) /\ Cardinality({x}) = 1
  BY FS_Singleton, Zenon
<1>2. IsFiniteSet(1..f[x]) /\ Cardinality(1..f[x]) = f[x]
  BY FS_Interval
<1> DEFINE one == {x}
           coins == 1..f[x]
<1>3. IsFiniteSet(one \X coins) /\ Cardinality(one \X coins) = 1 * f[x]
  <2>1. /\ IsFiniteSet(one) /\ Cardinality(one) = 1
        /\ IsFiniteSet(coins) /\ Cardinality(coins) = f[x]
    BY <1>1, <1>2
  <2> HIDE DEF one, coins
  <2>2. /\ IsFiniteSet(one \X coins)
        /\ Cardinality(one \X coins) = Cardinality(one) * Cardinality(coins)
    BY <2>1, FS_Product, Zenon
  <2> QED BY <2>1, <2>2
<1> QED BY <1>3 DEF CoinsOf

LEMMA CoinsAreFinite ==
    ASSUME NEW S, IsFiniteSet(S), NEW f, \A x \in S : f[x] \in Nat
    PROVE  IsFiniteSet(UNION {CoinsOf(f, x) : x \in S})
<1> DEFINE T == {CoinsOf(f, x) : x \in S}
           g == [x \in S |-> CoinsOf(f, x)]
<1>1. g \in Surjection(S, T)
  BY DEF Surjection
<1>2. IsFiniteSet(T)
  BY <1>1, FS_Surjection DEF ExistsSurjection
<1>3. \A C \in T : IsFiniteSet(C)
  BY CoinsAreCounted
<1> HIDE DEF T
<1>4. IsFiniteSet(UNION T)
  BY <1>2, <1>3, FS_UNION
<1> QED BY <1>4 DEF T

\* The total of a function is one value and the coins of the others.
LEMMA TotalSplits ==
    ASSUME NEW S, IsFiniteSet(S), NEW f \in [S -> Nat], NEW x \in S
    PROVE  LET others == UNION {CoinsOf(f, y) : y \in S \ {x}}
           IN  Cardinality(others) \in Nat /\ Total(f) = f[x] + Cardinality(others)
<1> DEFINE others == UNION {CoinsOf(f, y) : y \in S \ {x}}
<1>1. IsFiniteSet(CoinsOf(f, x)) /\ Cardinality(CoinsOf(f, x)) = f[x] /\ f[x] \in Nat
  BY CoinsAreCounted
<1>2. IsFiniteSet(others)
  <2>1. IsFiniteSet(S \ {x})
    BY FS_Subset
  <2> QED BY <2>1, CoinsAreFinite
<1>3. UNION {CoinsOf(f, y) : y \in DOMAIN f} = CoinsOf(f, x) \cup others
  OBVIOUS
<1>4. CoinsOf(f, x) \cap others = {}
  BY DEF CoinsOf
<1>5. Cardinality(others) \in Nat
  BY <1>2, FS_CardinalityType
<1>6. Cardinality(CoinsOf(f, x) \cup others) = f[x] + Cardinality(others)
  <2> HIDE DEF others
  <2>1. Cardinality(CoinsOf(f, x) \cup others)
          = Cardinality(CoinsOf(f, x)) + Cardinality(others) - Cardinality({})
    BY <1>1, <1>2, <1>4, FS_Union
  <2> QED BY <1>1, <1>5, <2>1, FS_EmptySet
<1> QED BY <1>3, <1>5, <1>6 DEF Total

\* Changing one value of a function changes its total by the difference.
LEMMA TotalUpdate ==
    ASSUME NEW S, IsFiniteSet(S), NEW f \in [S -> Nat], NEW g \in [S -> Nat],
           NEW x \in S, \A y \in S \ {x} : g[y] = f[y]
    PROVE  /\ Total(f) \in Nat /\ Total(g) \in Nat
           /\ Total(g) = Total(f) - f[x] + g[x]
<1> DEFINE others == UNION {CoinsOf(f, y) : y \in S \ {x}}
<1>1. UNION {CoinsOf(g, y) : y \in S \ {x}} = others
  BY DEF CoinsOf
<1>2. Cardinality(others) \in Nat /\ Total(f) = f[x] + Cardinality(others)
  BY TotalSplits
<1>3. Total(g) = g[x] + Cardinality(others)
  BY <1>1, TotalSplits
<1> HIDE DEF others
<1> QED BY <1>2, <1>3

LEMMA TotalIsNat ==
    ASSUME NEW S, IsFiniteSet(S), NEW f \in [S -> Nat]
    PROVE  Total(f) \in Nat
<1>1. IsFiniteSet(UNION {CoinsOf(f, x) : x \in S})
  BY CoinsAreFinite
<1> QED BY <1>1, FS_CardinalityType DEF Total

LEMMA TotalOfNothing ==
    ASSUME NEW S, NEW f \in [S -> Nat], \A x \in S : f[x] = 0
    PROVE  Total(f) = 0
<1>1. \A x \in S : CoinsOf(f, x) = {}
  BY DEF CoinsOf
<1>2. UNION {CoinsOf(f, x) : x \in DOMAIN f} = {}
  BY <1>1
<1> QED BY <1>2, FS_EmptySet DEF Total
-----------------------------------------------------------------------------
(***************************************************************************)
(* What the contract owes, as three functions.                              *)
(***************************************************************************)
Collateral == [p \in Providers |-> providers[p].collateralWei]
Owed == [d \in Deals |-> OwedFor(deals[d])]
Deposits == [a \in AggIds |-> aggregators[a].collateralWei]

\* Solvent is preserved only with ClosedIsEmpty: a reward claimed on a deal that
\* was closed would be paid from nothing that is owed.
ClosedIsEmpty == \A d \in Deals : deals[d].state = "Closed" => deals[d].escrowWei = 0

LEMMA OwedIsNat ==
    ASSUME NEW deal \in StorageDeal
    PROVE  OwedFor(deal) \in Nat
BY DEF OwedFor, EscrowOf, FeeOf, StorageDeal

LEMMA OwedTypes ==
    ASSUME TypeOK
    PROVE  /\ Collateral \in [Providers -> Nat]
           /\ Owed \in [Deals -> Nat]
           /\ Deposits \in [AggIds -> Nat]
           /\ balance \in Nat
BY OwedIsNat DEF TypeOK, Collateral, Owed, Deposits, StorageProvider, AggregatorInfo

LEMMA SurplusParts ==
    ASSUME TypeOK
    PROVE  /\ Total(Collateral) \in Nat /\ Total(Owed) \in Nat /\ Total(Deposits) \in Nat
           /\ Surplus = balance - (Total(Collateral) + Total(Owed) + Total(Deposits))
<1>1. Total(Collateral) \in Nat /\ Total(Owed) \in Nat /\ Total(Deposits) \in Nat
  BY OwedTypes, TotalIsNat, IdentityAssumption
<1> QED BY <1>1 DEF Surplus, Liabilities, Collateral, Owed, Deposits

LEMMA SurplusPartsNext ==
    ASSUME TypeOK'
    PROVE  /\ Total(Collateral') \in Nat /\ Total(Owed') \in Nat /\ Total(Deposits') \in Nat
           /\ Surplus' = balance' - (Total(Collateral') + Total(Owed') + Total(Deposits'))
<1>1. /\ Collateral' \in [Providers -> Nat]
      /\ Owed' \in [Deals -> Nat]
      /\ Deposits' \in [AggIds -> Nat]
  BY OwedIsNat DEF TypeOK, Collateral, Owed, Deposits, StorageProvider, AggregatorInfo
<1>2. Total(Collateral') \in Nat /\ Total(Owed') \in Nat /\ Total(Deposits') \in Nat
  BY <1>1, TotalIsNat, IdentityAssumption
<1> QED BY <1>2 DEF Surplus, Liabilities, Collateral, Owed, Deposits, Total, CoinsOf

\* How the three totals move when one provider, one deal or one aggregator does.
LEMMA CollateralMoves ==
    ASSUME TypeOK, TypeOK', NEW p \in Providers,
           \A q \in Providers \ {p} : providers'[q].collateralWei = providers[q].collateralWei
    PROVE  Total(Collateral')
             = Total(Collateral) - providers[p].collateralWei + providers'[p].collateralWei
<1>1. Collateral \in [Providers -> Nat] /\ Collateral' \in [Providers -> Nat]
  BY DEF TypeOK, Collateral, StorageProvider
<1>2. \A q \in Providers \ {p} : Collateral'[q] = Collateral[q]
  BY DEF Collateral
<1>3. Total(Collateral') = Total(Collateral) - Collateral[p] + Collateral'[p]
  BY <1>1, <1>2, TotalUpdate, IdentityAssumption
<1> QED BY <1>3 DEF Collateral

LEMMA OwedMoves ==
    ASSUME TypeOK, TypeOK', NEW d \in Deals,
           \A c \in Deals \ {d} : deals'[c] = deals[c]
    PROVE  Total(Owed') = Total(Owed) - OwedFor(deals[d]) + OwedFor(deals'[d])
<1>1. Owed \in [Deals -> Nat] /\ Owed' \in [Deals -> Nat]
  BY OwedIsNat DEF TypeOK, Owed
<1>2. \A c \in Deals \ {d} : Owed'[c] = Owed[c]
  BY DEF Owed
<1>3. Total(Owed') = Total(Owed) - Owed[d] + Owed'[d]
  BY <1>1, <1>2, TotalUpdate, IdentityAssumption
<1> QED BY <1>3 DEF Owed

LEMMA DepositsMove ==
    ASSUME TypeOK, TypeOK', NEW a \in AggIds,
           \A b \in AggIds \ {a} : aggregators'[b] = aggregators[b]
    PROVE  Total(Deposits')
             = Total(Deposits) - aggregators[a].collateralWei + aggregators'[a].collateralWei
<1>1. Deposits \in [AggIds -> Nat] /\ Deposits' \in [AggIds -> Nat]
  BY DEF TypeOK, Deposits, AggregatorInfo
<1>2. \A b \in AggIds \ {a} : Deposits'[b] = Deposits[b]
  BY DEF Deposits
<1>3. Total(Deposits') = Total(Deposits) - Deposits[a] + Deposits'[a]
  BY <1>1, <1>2, TotalUpdate, IdentityAssumption
<1> QED BY <1>3 DEF Deposits

-----------------------------------------------------------------------------
(***************************************************************************)
(* No handler lets the surplus shrink.                                      *)
(***************************************************************************)
LEMMA ProviderNextSurplus ==
    ASSUME TypeOK, TypeOK', ProviderNext
    PROVE  Surplus' >= Surplus
<1>1. Owed' = Owed /\ Deposits' = Deposits
  <2>1. deals' = deals
    BY ProviderNextFrame DEF dealVars
  <2>2. aggregators' = aggregators
    BY ProviderNextFrame DEF notDealHandlers, aggVars
  <2> QED BY <2>1, <2>2 DEF Owed, Deposits
<1>2. PICK p \in Providers :
        \/ \E signer \in Signers, capacity \in CAPACITIES, value \in DEPOSITS :
              RegisterProvider(p, signer, capacity, value)
        \/ \E newAddr \in CHANGES : RequestCelestiaAddressChange(p, newAddr)
        \/ ApplyCelestiaAddressChange(p)
        \/ RequestCollateralWithdraw(p)
        \/ \E amount \in 0..MAX_COLLATERAL : WithdrawCollateral(p, amount)
  BY DEF ProviderNext
<1>3. /\ providers \in [Providers -> StorageProvider]
      /\ providers[p].collateralWei \in Nat
      /\ balance \in Nat
  BY DEF TypeOK, StorageProvider
<1>4. /\ \A q \in Providers \ {p} : providers'[q] = providers[q]
      /\ providers'[p].collateralWei - providers[p].collateralWei = balance' - balance
      /\ providers'[p].collateralWei \in Nat
  <2>1. ASSUME NEW signer, NEW capacity, NEW value \in DEPOSITS,
               RegisterProvider(p, signer, capacity, value)
        PROVE  <1>4!1 /\ <1>4!2
    <3> DEFINE old == providers[p]
               collateral == old.collateralWei + value
               kept == old.suspended /\ collateral < Locked(old.usedSlots)
    <3>1. /\ providers' = [providers EXCEPT ![p] =
               [old EXCEPT !.celestiaAddress = signer,
                           !.collateralWei = collateral,
                           !.capacitySlots = capacity,
                           !.suspended = kept]]
          /\ balance' = balance + value
      BY <2>1 DEF RegisterProvider
    <3>2. /\ \A q \in Providers \ {p} : providers'[q] = providers[q]
          /\ providers'[p].collateralWei = collateral
      <4> HIDE DEF collateral, kept
      <4> QED BY <1>3, <3>1 DEF StorageProvider
    <3>3. value \in Nat
      BY InputAssumption
    <3> QED BY <1>3, <3>1, <3>2, <3>3
  <2>2. ASSUME NEW newAddr, RequestCelestiaAddressChange(p, newAddr)
        PROVE  <1>4!1 /\ <1>4!2
    <3> DEFINE effective == lastCommittedEpoch + 2
    <3>1. /\ providers' = [providers EXCEPT ![p].pendingCelestiaAddress = newAddr,
                                            ![p].celestiaChangeEffectiveEpoch = effective]
          /\ balance' = balance
      BY <2>2 DEF RequestCelestiaAddressChange
    <3> HIDE DEF effective
    <3>2. /\ \A q \in Providers \ {p} : providers'[q] = providers[q]
          /\ providers'[p].collateralWei = providers[p].collateralWei
      BY <1>3, <3>1 DEF StorageProvider
    <3> QED BY <1>3, <3>1, <3>2
  <2>3. ASSUME ApplyCelestiaAddressChange(p)
        PROVE  <1>4!1 /\ <1>4!2
    <3>1. /\ \A q \in Providers \ {p} : providers'[q] = providers[q]
          /\ providers'[p].collateralWei = providers[p].collateralWei
          /\ balance' = balance
      BY <1>3, <2>3 DEF ApplyCelestiaAddressChange, StorageProvider
    <3> QED BY <1>3, <3>1
  <2>4. ASSUME RequestCollateralWithdraw(p)
        PROVE  <1>4!1 /\ <1>4!2
    <3>1. /\ \A q \in Providers \ {p} : providers'[q] = providers[q]
          /\ providers'[p].collateralWei = providers[p].collateralWei
          /\ balance' = balance
      BY <1>3, <2>4 DEF RequestCollateralWithdraw, StorageProvider
    <3> QED BY <1>3, <3>1
  <2>5. ASSUME NEW amount \in 0..MAX_COLLATERAL, WithdrawCollateral(p, amount)
        PROVE  <1>4!1 /\ <1>4!2
    <3> DEFINE rest == providers[p].collateralWei - amount
    <3>1. /\ providers' = [providers EXCEPT ![p].collateralWei = rest,
                                            ![p].withdrawRequestedAtEpoch = 0]
          /\ balance' = balance - amount
      BY <2>5 DEF WithdrawCollateral, StaysCovered
    <3>2. /\ \A q \in Providers \ {p} : providers'[q] = providers[q]
          /\ providers'[p].collateralWei = rest
      <4> HIDE DEF rest
      <4> QED BY <1>3, <3>1 DEF StorageProvider
    <3>3. amount \in Nat
      BY InputAssumption
    <3> QED BY <1>3, <3>1, <3>2, <3>3
  <2>6. providers'[p].collateralWei \in Nat
    BY DEF TypeOK, StorageProvider
  <2> QED BY <1>2, <2>1, <2>2, <2>3, <2>4, <2>5, <2>6
<1>5. Total(Collateral')
        = Total(Collateral) - providers[p].collateralWei + providers'[p].collateralWei
  BY <1>4, CollateralMoves
<1>6. balance' \in Nat
  BY DEF TypeOK
<1> QED BY <1>1, <1>3, <1>4, <1>5, <1>6, SurplusParts, SurplusPartsNext
\* A deal's handler: it suffices to look at what that deal is owed.
LEMMA DealMoveSurplus ==
    ASSUME TypeOK, TypeOK', NEW d \in Deals,
           \A c \in Deals \ {d} : deals'[c] = deals[c],
           \A q \in Providers : providers'[q].collateralWei = providers[q].collateralWei,
           aggregators' = aggregators,
           OwedFor(deals'[d]) - OwedFor(deals[d]) <= balance' - balance
    PROVE  Surplus' >= Surplus
<1>1. Collateral' = Collateral /\ Deposits' = Deposits
  BY DEF Collateral, Deposits
<1>2. Total(Owed') = Total(Owed) - OwedFor(deals[d]) + OwedFor(deals'[d])
  BY OwedMoves
<1>3. OwedFor(deals[d]) \in Nat /\ OwedFor(deals'[d]) \in Nat
  BY OwedIsNat DEF TypeOK
<1>4. balance \in Nat /\ balance' \in Nat
  BY DEF TypeOK
<1> QED BY <1>1, <1>2, <1>3, <1>4, SurplusParts, SurplusPartsNext

\* The slots of a provider are not owed.
LEMMA SlotsAreNotCollateral ==
    ASSUME TypeOK, NEW p, NEW n, providers' = [providers EXCEPT ![p].usedSlots = n]
    PROVE  \A q \in Providers : providers'[q].collateralWei = providers[q].collateralWei
BY DEF TypeOK, StorageProvider

LEMMA DealNextSurplus ==
    ASSUME TypeOK, TypeOK', DealNext
    PROVE  Surplus' >= Surplus
<1>1. aggregators' = aggregators
  <2>1. UNCHANGED notDealHandlers
    BY DealNextFrame
  <2> QED BY <2>1 DEF notDealHandlers, aggVars
<1>2. deals \in [Deals -> StorageDeal] /\ balance \in Nat
  BY DEF TypeOK
<1>3. ASSUME NEW d \in Deals, NEW p \in Providers, NEW price \in PRICES,
             NEW duration \in DURATIONS, NEW fee \in FEES,
             OpenDeal(d, p, price, duration, fee)
      PROVE  Surplus' >= Surplus
  <2> DEFINE escrow == price * duration
             n == providers[p].usedSlots + 1
  <2>1. escrow \in Nat /\ fee \in Nat
    BY InputAssumption
  <2>2. /\ \A c \in Deals \ {d} : deals'[c] = deals[c]
        /\ deals[d].state = "None"
        /\ deals'[d].escrowWei = escrow /\ deals'[d].sealingFeeWei = fee
        /\ deals'[d].state = "Pending" /\ deals'[d].sealingFeeReleased = FALSE
        /\ balance' = balance + escrow + fee
    BY <1>2, <1>3 DEF OpenDeal
  <2>3. \A q \in Providers : providers'[q].collateralWei = providers[q].collateralWei
    <3>1. providers' = [providers EXCEPT ![p].usedSlots = n]
      BY <1>3 DEF OpenDeal
    <3> HIDE DEF n
    <3> QED BY <3>1, SlotsAreNotCollateral
  <2>4. OwedFor(deals[d]) = 0 /\ OwedFor(deals'[d]) = escrow + fee
    <3> HIDE DEF escrow
    <3> QED BY <2>1, <2>2 DEF OwedFor, EscrowOf, FeeOf
  <2>5. OwedFor(deals'[d]) - OwedFor(deals[d]) <= balance' - balance
    <3> HIDE DEF escrow
    <3> QED BY <1>2, <2>1, <2>2, <2>4
  <2> QED BY <1>1, <2>2, <2>3, <2>5, DealMoveSurplus
<1>4. ASSUME NEW d \in Deals, NEW sealed \in BOOLEAN, RegisterSealed(d, sealed)
      PROVE  Surplus' >= Surplus
  <2> DEFINE deal == deals[d]
             fee == IF deal.sealingFeeReleased THEN 0 ELSE deal.sealingFeeWei
             released == deal.sealingFeeReleased \/ fee > 0
  <2>1. /\ deals' = [deals EXCEPT ![d].sealed = sealed,
                                  ![d].sealingFeeReleased = released]
        /\ balance' = balance - fee
        /\ deal.state = "Pending"
        /\ providers' = providers
    BY <1>4 DEF RegisterSealed, FeeDue, providerVars
  <2>2. /\ \A c \in Deals \ {d} : deals'[c] = deals[c]
        /\ deals'[d].escrowWei = deal.escrowWei
        /\ deals'[d].sealingFeeWei = deal.sealingFeeWei
        /\ deals'[d].state = deal.state
        /\ deals'[d].sealingFeeReleased = released
    <3> HIDE DEF released
    <3> QED BY <1>2, <2>1 DEF StorageDeal
  <2>3. /\ deal.escrowWei \in Nat /\ deal.sealingFeeWei \in Nat
        /\ fee \in Nat
    BY <1>2 DEF StorageDeal
  <2>4. OwedFor(deals[d]) = deal.escrowWei + fee
    BY <2>1, <2>3 DEF OwedFor, EscrowOf, FeeOf
  <2>5. OwedFor(deals'[d]) = deal.escrowWei
    <3>1. CASE released
      <4>1. deals'[d].sealingFeeReleased
        BY <2>2, <3>1, Zenon
      <4> HIDE DEF deal, released
      <4> QED BY <2>1, <2>2, <2>3, <4>1 DEF OwedFor, EscrowOf, FeeOf
    <3>2. CASE ~released
      <4>1. deal.sealingFeeWei = 0
        BY <2>3, <3>2
      <4> QED BY <2>1, <2>2, <2>3, <4>1 DEF OwedFor, EscrowOf, FeeOf
    <3> QED BY <3>1, <3>2
  <2>6. OwedFor(deals'[d]) - OwedFor(deals[d]) <= balance' - balance
    <3> HIDE DEF fee, deal
    <3> QED BY <1>2, <2>1, <2>3, <2>4, <2>5
  <2> QED BY <1>1, <2>1, <2>2, <2>6, DealMoveSurplus
<1>5. ASSUME NEW d \in Deals, Activate(d)
      PROVE  Surplus' >= Surplus
  <2>1. /\ \A c \in Deals \ {d} : deals'[c] = deals[c]
        /\ deals'[d].escrowWei = deals[d].escrowWei
        /\ deals[d].state = "Pending" /\ deals'[d].state = "Active"
        /\ balance' = balance /\ providers' = providers
    BY <1>2, <1>5 DEF Activate, StorageDeal, providerVars
  <2>2. OwedFor(deals'[d]) - OwedFor(deals[d]) <= balance' - balance
    BY <1>2, <2>1 DEF OwedFor, EscrowOf, FeeOf, StorageDeal
  <2> QED BY <1>1, <2>1, <2>2, DealMoveSurplus
<1>6. ASSUME NEW d \in Deals, AbortDeal(d)
      PROVE  Surplus' >= Surplus
  <2> DEFINE fee == IF deals[d].sealingFeeReleased THEN 0 ELSE deals[d].sealingFeeWei
             n == providers[deals[d].provider].usedSlots - 1
  <2>1. /\ \A c \in Deals \ {d} : deals'[c] = deals[c]
        /\ deals[d].state = "Pending" /\ deals'[d].state = "Aborted"
        /\ balance' = balance - (deals[d].escrowWei + fee)
    BY <1>2, <1>6 DEF AbortDeal, CanAbortDeal, Refund, FeeDue, StorageDeal
  <2>2. \A q \in Providers : providers'[q].collateralWei = providers[q].collateralWei
    <3>1. providers' = [providers EXCEPT ![deals[d].provider].usedSlots = n]
      BY <1>6 DEF AbortDeal
    <3> HIDE DEF n
    <3> QED BY <3>1, SlotsAreNotCollateral
  <2>3. deals[d].escrowWei \in Nat /\ fee \in Nat
    BY <1>2 DEF StorageDeal
  <2>4. OwedFor(deals[d]) = deals[d].escrowWei + fee /\ OwedFor(deals'[d]) = 0
    BY <2>1, <2>3 DEF OwedFor, EscrowOf, FeeOf
  <2>5. OwedFor(deals'[d]) - OwedFor(deals[d]) <= balance' - balance
    <3> HIDE DEF fee
    <3> QED BY <1>2, <2>1, <2>3, <2>4
  <2> QED BY <1>1, <2>1, <2>2, <2>5, DealMoveSurplus
<1>7. ASSUME NEW d \in Deals, CloseExpiredDeal(d)
      PROVE  Surplus' >= Surplus
  <2> DEFINE used == providers[deals[d].provider].usedSlots
             n == IF used > 0 THEN used - 1 ELSE used
  <2>1. /\ \A c \in Deals \ {d} : deals'[c] = deals[c]
        /\ deals[d].state = "Active" /\ deals'[d].state = "Closed"
        /\ balance' = balance - deals[d].escrowWei
    BY <1>2, <1>7 DEF CloseExpiredDeal, CanCloseExpiredDeal, StorageDeal
  <2>2. \A q \in Providers : providers'[q].collateralWei = providers[q].collateralWei
    <3>1. providers' = [providers EXCEPT ![deals[d].provider].usedSlots = n]
      BY <1>7 DEF CloseExpiredDeal
    <3> HIDE DEF n
    <3> QED BY <3>1, SlotsAreNotCollateral
  <2>3. deals[d].escrowWei \in Nat
    BY <1>2 DEF StorageDeal
  <2>4. OwedFor(deals[d]) = deals[d].escrowWei /\ OwedFor(deals'[d]) = 0
    BY <2>1, <2>3 DEF OwedFor, EscrowOf, FeeOf
  <2>5. OwedFor(deals'[d]) - OwedFor(deals[d]) <= balance' - balance
    BY <1>2, <2>1, <2>3, <2>4
  <2> QED BY <1>1, <2>1, <2>2, <2>5, DealMoveSurplus
<1> QED BY <1>3, <1>4, <1>5, <1>6, <1>7 DEF DealNext

LEMMA AggregatorNextSurplus ==
    ASSUME TypeOK, TypeOK', AggregatorNext
    PROVE  Surplus' >= Surplus
<1>1. Collateral' = Collateral /\ Owed' = Owed
  BY DEF AggregatorNext, RegisterAggregator, Enlisted, ReportAggregatorTimeout,
     RequestAggregatorWithdraw, WithdrawAggregatorCollateral, notAggHandlers,
     providerVars, dealVars, Collateral, Owed
<1>2. /\ aggregators \in [AggIds -> AggregatorInfo]
      /\ aggregators' \in [AggIds -> AggregatorInfo]
      /\ balance \in Nat /\ balance' \in Nat
  BY DEF TypeOK
\* It suffices that one aggregator's deposit grows by no more than the balance.
<1>3. ASSUME NEW a \in AggIds, \A b \in AggIds \ {a} : aggregators'[b] = aggregators[b],
             aggregators'[a].collateralWei - aggregators[a].collateralWei
                <= balance' - balance
      PROVE  Surplus' >= Surplus
  <2>1. Total(Deposits')
          = Total(Deposits) - aggregators[a].collateralWei + aggregators'[a].collateralWei
    BY <1>3, DepositsMove
  <2>2. aggregators[a].collateralWei \in Nat /\ aggregators'[a].collateralWei \in Nat
    BY <1>2 DEF AggregatorInfo
  <2> QED BY <1>1, <1>2, <1>3, <2>1, <2>2, SurplusParts, SurplusPartsNext
<1>4. ASSUME NEW a \in AggIds, NEW value \in DEPOSITS, RegisterAggregator(a, value)
      PROVE  Surplus' >= Surplus
  <2> DEFINE deposit == aggregators[a].collateralWei + value
  <2>1. /\ aggregators' = [aggregators EXCEPT ![a].registered = TRUE,
                                              ![a].collateralWei = deposit]
        /\ balance' = balance + value
    BY <1>4 DEF RegisterAggregator, Enlisted
  <2>2. /\ \A b \in AggIds \ {a} : aggregators'[b] = aggregators[b]
        /\ aggregators'[a].collateralWei = deposit
    <3> HIDE DEF deposit
    <3> QED BY <1>2, <2>1 DEF AggregatorInfo
  <2>3. value \in Nat /\ aggregators[a].collateralWei \in Nat
    BY <1>2, InputAssumption DEF AggregatorInfo
  <2>4. aggregators'[a].collateralWei - aggregators[a].collateralWei <= balance' - balance
    BY <1>2, <2>1, <2>2, <2>3
  <2> QED BY <1>3, <2>2, <2>4
<1>5. ASSUME NEW reporter \in Accounts, ReportAggregatorTimeout(reporter)
      PROVE  Surplus' >= Surplus
  <2> DEFINE agg == designatedAggregator
             slashed == BpsOf(aggregators[agg].collateralWei, AGG_TIMEOUT_SLASH_BPS)
             bounty == Bounty(slashed)
             rest == aggregators[agg].collateralWei - slashed
  <2>1. agg \in AggIds
    BY <1>5, DesignatedIsAggregator DEF ReportAggregatorTimeout
  <2>2. aggregators[agg].collateralWei \in Nat
    BY <1>2, <2>1 DEF AggregatorInfo
  <2>3. slashed \in 0..aggregators[agg].collateralWei
    BY <2>2, ShareIsPart, ParamAssumption
  <2>4. bounty \in 0..slashed
    BY <2>2, <2>3, ShareIsPart, ParamAssumption DEF Bounty
  <2>5. /\ aggregators' = [aggregators EXCEPT ![agg].collateralWei = rest]
        /\ balance' = balance - bounty
    BY <1>5 DEF ReportAggregatorTimeout
  <2>6. /\ \A b \in AggIds \ {agg} : aggregators'[b] = aggregators[b]
        /\ aggregators'[agg].collateralWei = rest
    <3> HIDE DEF rest, agg
    <3> QED BY <1>2, <2>1, <2>5 DEF AggregatorInfo
  <2>7. aggregators'[agg].collateralWei - aggregators[agg].collateralWei
          <= balance' - balance
    <3>1. rest - aggregators[agg].collateralWei <= (balance - bounty) - balance
      <4> HIDE DEF agg, slashed, bounty
      <4> QED BY <1>2, <2>2, <2>3, <2>4
    <3> QED BY <2>5, <2>6, <3>1
  <2> HIDE DEF agg
  <2> QED BY <1>3, <2>1, <2>6, <2>7
<1>6. ASSUME NEW a \in AggIds, RequestAggregatorWithdraw(a)
      PROVE  Surplus' >= Surplus
  <2>1. /\ \A b \in AggIds \ {a} : aggregators'[b] = aggregators[b]
        /\ aggregators'[a].collateralWei = aggregators[a].collateralWei
        /\ balance' = balance
    BY <1>2, <1>6 DEF RequestAggregatorWithdraw, AggregatorInfo
  <2>2. aggregators'[a].collateralWei - aggregators[a].collateralWei <= balance' - balance
    BY <1>2, <2>1 DEF AggregatorInfo
  <2> QED BY <1>3, <2>1, <2>2
<1>7. ASSUME NEW a \in AggIds, NEW amount \in 0..aggregators[a].collateralWei,
             WithdrawAggregatorCollateral(a, amount)
      PROVE  Surplus' >= Surplus
  <2> DEFINE rest == aggregators[a].collateralWei - amount
  <2>1. /\ aggregators' = [aggregators EXCEPT ![a].collateralWei = rest,
                                              ![a].withdrawRequestedAtEpoch = 0]
        /\ balance' = balance - amount
    BY <1>7 DEF WithdrawAggregatorCollateral
  <2>2. /\ \A b \in AggIds \ {a} : aggregators'[b] = aggregators[b]
        /\ aggregators'[a].collateralWei = rest
    <3> HIDE DEF rest
    <3> QED BY <1>2, <2>1 DEF AggregatorInfo
  <2>3. amount \in Nat /\ aggregators[a].collateralWei \in Nat
    BY <1>2 DEF AggregatorInfo
  <2>4. aggregators'[a].collateralWei - aggregators[a].collateralWei <= balance' - balance
    BY <1>2, <2>1, <2>2, <2>3
  <2> QED BY <1>3, <2>2, <2>4
<1> QED BY <1>4, <1>5, <1>6, <1>7 DEF AggregatorNext

\* A claim pays a reward out of the deal's escrow, or a bounty out of what it
\* has just taken from the provider's collateral.
LEMMA ClaimSettlementSurplus ==
    ASSUME TypeInv, ClosedIsEmpty, TypeOK', NEW sender, NEW epoch \in EpochIds,
           NEW d \in Deals, ClaimSettlement(sender, epoch, d)
    PROVE  Surplus' >= Surplus
<1> DEFINE p == deals[d].provider
           verdict == epochs[epoch].verdicts[d]
           reward == RewardOf(verdict)
           taken == SlashTaken(p, verdict)
           rest == providers[p].collateralWei - taken
           suspended == providers[p].suspended
                          \/ (SlashOf(verdict) > 0 /\ rest < Locked(providers[p].usedSlots))
           escrow == deals[d].escrowWei - reward
           bounty == HunterBounty(sender, p, verdict, epochs[epoch].windowSaturation)
           net == IF reward > bounty THEN reward - bounty ELSE 0
<1>1. /\ TypeOK
      /\ p \in Providers
      /\ deals[d].state \in {"Active", "Closed"}
  BY DEF TypeInv, ClaimSettlement, InResults, LeavesAreOfActivatedDeals, DealsKnowTheirProvider
<1>2. /\ providers' = [providers EXCEPT ![p].collateralWei = rest, ![p].suspended = suspended]
      /\ deals' = [deals EXCEPT ![d].escrowWei = escrow]
      /\ balance' = balance - net - bounty
      /\ deals[d].escrowWei >= reward
      /\ aggregators' = aggregators
  BY DEF ClaimSettlement, InResults, aggVars
<1>3. /\ providers[p].collateralWei \in Nat
      /\ deals[d].escrowWei \in Nat
      /\ reward \in Nat
      /\ balance \in Nat /\ balance' \in Nat
  BY <1>1, ParamAssumption DEF TypeOK, StorageProvider, StorageDeal, RewardOf
<1>4. taken \in 0..providers[p].collateralWei
  BY <1>3, ParamAssumption DEF SlashTaken, SlashOf
<1>5. bounty \in 0..taken
  <2>1. Bounty(taken) \in 0..taken
    BY <1>3, <1>4, ShareIsPart, ParamAssumption DEF Bounty
  <2> QED BY <1>3, <1>4, <2>1 DEF HunterBounty
<1>6. /\ \A q \in Providers \ {p} : providers'[q].collateralWei = providers[q].collateralWei
      /\ providers'[p].collateralWei = rest
  <2> HIDE DEF rest, suspended, p
  <2> QED BY <1>1, <1>2 DEF TypeOK, StorageProvider
<1>7. /\ \A c \in Deals \ {d} : deals'[c] = deals[c]
      /\ deals'[d].escrowWei = escrow
      /\ deals'[d].state = deals[d].state
  <2> HIDE DEF escrow
  <2> QED BY <1>1, <1>2 DEF TypeOK, StorageDeal
<1>8. Total(Collateral') = Total(Collateral) - providers[p].collateralWei + rest
  <2> HIDE DEF p, rest
  <2> QED BY <1>1, <1>6, CollateralMoves
<1>9. /\ OwedFor(deals'[d]) = OwedFor(deals[d]) - reward
      /\ OwedFor(deals[d]) \in Nat
  <2>1. CASE deals[d].state = "Active"
    <3> HIDE DEF reward
    <3> QED BY <1>3, <1>7, <2>1 DEF OwedFor, EscrowOf, FeeOf
  <2>2. CASE deals[d].state = "Closed"
    <3>1. reward = 0
      <4>1. deals[d].escrowWei = 0
        BY <2>2 DEF ClosedIsEmpty
      <4> HIDE DEF reward
      <4> QED BY <1>2, <1>3, <4>1
    <3> HIDE DEF reward
    <3> QED BY <1>7, <2>2, <3>1 DEF OwedFor, EscrowOf, FeeOf
  <2> QED BY <1>1, <2>1, <2>2
<1>10. Total(Owed') = Total(Owed) - OwedFor(deals[d]) + OwedFor(deals'[d])
  BY <1>1, <1>7, OwedMoves
<1>11. Deposits' = Deposits
  BY <1>2 DEF Deposits
<1>12. net + bounty <= reward + taken /\ net \in Nat
  <2> HIDE DEF reward, bounty, taken
  <2> QED BY <1>3, <1>4, <1>5
<1>13. Total(Collateral') + Total(Owed') = Total(Collateral) + Total(Owed) - taken - reward
  <2>1. Total(Collateral) \in Nat /\ Total(Owed) \in Nat
    BY <1>1, SurplusParts
  <2> HIDE DEF reward, taken
  <2> QED BY <1>3, <1>4, <1>8, <1>9, <1>10, <2>1
<1> HIDE DEF net, bounty, reward, taken
<1> QED BY <1>1, <1>2, <1>3, <1>4, <1>5, <1>11, <1>12, <1>13, SurplusParts, SurplusPartsNext

LEMMA EpochNextSurplus ==
    ASSUME TypeInv, ClosedIsEmpty, TypeOK', EpochNext
    PROVE  Surplus' >= Surplus
<1>1. TypeOK
  BY DEF TypeInv
<1>2. CASE UNCHANGED <<providers, deals, aggregators, balance>>
  <2>1. Surplus' = Surplus
    BY <1>2 DEF Surplus, Liabilities, Total, CoinsOf
  <2>2. Surplus \in Int
    <3>1. balance \in Nat
      BY <1>1 DEF TypeOK
    <3> QED BY <1>1, <3>1, SurplusParts
  <2> QED BY <2>1, <2>2
<1>3. CASE \E submitter \in Accounts : CommitBy(submitter)
  <2>1. PICK submitter \in Accounts, list \in SettlementLists, saturation \in SATURATIONS :
          CommitEpoch(submitter, list, saturation)
    BY <1>3 DEF CommitBy
  <2>2. UNCHANGED <<providers, deals, aggregators, balance>>
    BY <2>1 DEF CommitEpoch, notEpochHandlers
  <2> QED BY <1>2, <2>2
<1>4. CASE \E epoch \in EpochIds : FinalizeEpoch(epoch) \/ VoidEpoch(epoch)
  <2>1. CASE \E epoch \in EpochIds : FinalizeEpoch(epoch)
    BY <1>2, <2>1 DEF FinalizeEpoch, MayFinalize, notEpochHandlers, aggVars
  <2>2. CASE \E epoch \in EpochIds : VoidEpoch(epoch)
    BY <1>2, <2>2 DEF VoidEpoch, MayVoid, notEpochHandlers, aggVars
  <2> QED BY <1>4, <2>1, <2>2
<1> QED BY <1>3, <1>4, ClaimSettlementSurplus DEF EpochNext

LEMMA OtherStepSurplus ==
    ASSUME TypeOK, \/ Tick
                   \/ \E value \in DEPOSITS : Receive(value)
                   \/ UNCHANGED vars
    PROVE  Surplus' >= Surplus
<1>1. /\ UNCHANGED <<providers, deals, aggregators>>
      /\ balance' >= balance /\ balance' \in Nat /\ balance \in Nat
  BY InputAssumption DEF Tick, Receive, vars, providerVars, dealVars, aggVars, TypeOK
<1>2. Surplus' = balance' - Liabilities
  BY <1>1 DEF Surplus, Liabilities, Total, CoinsOf
<1>3. Liabilities \in Nat
  BY SurplusParts DEF Liabilities, Collateral, Owed, Deposits
<1> QED BY <1>1, <1>2, <1>3 DEF Surplus

-----------------------------------------------------------------------------
(***************************************************************************)
(* The inductive invariant and the theorems.                                *)
(***************************************************************************)
SolvencyInv == TypeInv /\ ClosedIsEmpty /\ Solvent

LEMMA NextSurplus ==
    ASSUME TypeInv, TypeOK', ClosedIsEmpty, [Next]_vars
    PROVE  Surplus' >= Surplus
<1>1. TypeOK
  BY DEF TypeInv
<1> QED BY <1>1, ProviderNextSurplus, DealNextSurplus, AggregatorNextSurplus,
       EpochNextSurplus, OtherStepSurplus DEF Next

LEMMA NextClosedIsEmpty ==
    ASSUME TypeInv, ClosedIsEmpty, [Next]_vars
    PROVE  ClosedIsEmpty'
<1>1. deals \in [Deals -> StorageDeal]
  BY DEF TypeInv, TypeOK
<1>2. CASE deals' = deals
  BY <1>2 DEF ClosedIsEmpty
<1>3. CASE DealNext
  <2>1. PICK d \in Deals :
        \/ \E p \in Providers, price \in PRICES, duration \in DURATIONS, fee \in FEES :
              OpenDeal(d, p, price, duration, fee)
        \/ \E sealed \in BOOLEAN : RegisterSealed(d, sealed)
        \/ Activate(d)
        \/ AbortDeal(d)
        \/ CloseExpiredDeal(d)
    BY <1>3 DEF DealNext
  <2>2. /\ \A c \in Deals \ {d} : deals'[c] = deals[c]
        /\ deals'[d].state = "Closed" => deals'[d].escrowWei = 0
    <3>1. CASE \E p \in Providers, price \in PRICES, duration \in DURATIONS, fee \in FEES :
                  OpenDeal(d, p, price, duration, fee)
      BY <1>1, <3>1 DEF OpenDeal
    <3>2. CASE \E sealed \in BOOLEAN : RegisterSealed(d, sealed)
      BY <1>1, <3>2 DEF RegisterSealed, FeeDue, StorageDeal
    <3>3. CASE Activate(d)
      BY <1>1, <3>3 DEF Activate, StorageDeal
    <3>4. CASE AbortDeal(d)
      BY <1>1, <3>4 DEF AbortDeal, StorageDeal
    <3>5. CASE CloseExpiredDeal(d)
      BY <1>1, <3>5 DEF CloseExpiredDeal, StorageDeal
    <3> QED BY <2>1, <3>1, <3>2, <3>3, <3>4, <3>5
  <2> QED BY <2>2 DEF ClosedIsEmpty
<1>4. ASSUME NEW sender, NEW epoch \in EpochIds, NEW d \in Deals,
             ClaimSettlement(sender, epoch, d)
      PROVE  ClosedIsEmpty'
  <2> DEFINE reward == RewardOf(epochs[epoch].verdicts[d])
             escrow == deals[d].escrowWei - reward
  <2>1. /\ deals' = [deals EXCEPT ![d].escrowWei = escrow]
        /\ deals[d].escrowWei >= reward
    BY <1>4 DEF ClaimSettlement, InResults
  <2>2. /\ \A c \in Deals \ {d} : deals'[c] = deals[c]
        /\ deals'[d].escrowWei = escrow
        /\ deals'[d].state = deals[d].state
    <3> HIDE DEF escrow
    <3> QED BY <1>1, <2>1 DEF StorageDeal
  <2>3. deals[d].escrowWei = 0 => escrow = 0
    <3>1. reward \in Nat
      BY ParamAssumption DEF RewardOf
    <3> HIDE DEF reward
    <3> QED BY <2>1, <3>1
  <2> QED BY <2>2, <2>3 DEF ClosedIsEmpty
<1>5. CASE \E submitter \in Accounts : CommitBy(submitter)
  BY <1>2, <1>5 DEF CommitBy, CommitEpoch, notEpochHandlers
<1>6. CASE \E epoch \in EpochIds : FinalizeEpoch(epoch) \/ VoidEpoch(epoch)
  BY <1>2, <1>6 DEF FinalizeEpoch, MayFinalize, VoidEpoch, MayVoid, notEpochHandlers
<1>7. CASE ProviderNext
  BY <1>2, <1>7 DEF ProviderNext, RegisterProvider, RequestCelestiaAddressChange,
     ApplyCelestiaAddressChange, RequestCollateralWithdraw, WithdrawCollateral, dealVars
<1>8. CASE AggregatorNext
  BY <1>2, <1>8 DEF AggregatorNext, RegisterAggregator, Enlisted, ReportAggregatorTimeout,
     RequestAggregatorWithdraw, WithdrawAggregatorCollateral, notAggHandlers, dealVars
<1>9. CASE Tick \/ (\E value \in DEPOSITS : Receive(value)) \/ UNCHANGED vars
  BY <1>2, <1>9 DEF Tick, Receive, vars, dealVars
<1> QED BY <1>3, <1>4, <1>5, <1>6, <1>7, <1>8, <1>9 DEF Next, EpochNext

LEMMA InitSolvency == Init => SolvencyInv
<1> SUFFICES ASSUME Init PROVE SolvencyInv
  OBVIOUS
<1>1. TypeInv /\ TypeOK
  BY InitTypeInv DEF TypeInv
<1>2. ClosedIsEmpty
  BY DEF Init, ClosedIsEmpty, NoDealRecord
<1>3. /\ \A p \in Providers : Collateral[p] = 0
      /\ \A d \in Deals : Owed[d] = 0
      /\ \A a \in AggIds : Deposits[a] = 0
      /\ balance = 0
  BY DEF Init, Collateral, Owed, Deposits, OwedFor, EscrowOf, FeeOf, NoProviderRecord, NoDealRecord,
     NoAggregatorRecord
<1>4. Total(Collateral) = 0 /\ Total(Owed) = 0 /\ Total(Deposits) = 0
  BY <1>1, <1>3, OwedTypes, TotalOfNothing
<1> QED BY <1>1, <1>2, <1>3, <1>4, SurplusParts DEF SolvencyInv, Solvent

LEMMA NextSolvency == SolvencyInv /\ [Next]_vars => SolvencyInv' /\ Surplus' >= Surplus
<1> SUFFICES ASSUME SolvencyInv, [Next]_vars
             PROVE  SolvencyInv' /\ Surplus' >= Surplus
  OBVIOUS
<1>1. TypeInv' /\ TypeOK'
  BY NextTypeInv DEF SolvencyInv, TypeInv
<1>2. ClosedIsEmpty'
  BY NextClosedIsEmpty DEF SolvencyInv
<1>3. Surplus' >= Surplus
  BY <1>1, NextSurplus DEF SolvencyInv
<1>4. Surplus \in Int /\ Surplus' \in Int
  <2>1. TypeOK
    BY DEF SolvencyInv, TypeInv
  <2>2. Surplus \in Int
    BY <2>1, SurplusParts DEF TypeOK
  <2>3. Surplus' \in Int
    BY <1>1, SurplusPartsNext DEF TypeOK
  <2> QED BY <2>2, <2>3
<1>5. Solvent'
  BY <1>3, <1>4 DEF SolvencyInv, Solvent
<1> QED BY <1>1, <1>2, <1>3, <1>5 DEF SolvencyInv

\* The contract always holds at least all collateral, all deposits of
\* aggregators, the escrow of live deals and the unreleased sealing fees, for
\* any numbers of providers, deals, aggregators and epochs.
THEOREM ContractIsSolvent == Spec => []Solvent
<1>1. SolvencyInv => Solvent
  BY DEF SolvencyInv
<1> QED BY InitSolvency, NextSolvency, <1>1, PTL DEF Spec

\* No handler pays anybody out of money that is owed to others.
THEOREM NobodyPays == Spec => NobodyPaysForOthers
<1>1. SolvencyInv /\ [Next]_vars => [Surplus' >= Surplus]_vars
  BY NextSolvency
<1> QED BY <1>1, InitSolvency, NextSolvency, PTL DEF Spec, NobodyPaysForOthers

-----------------------------------------------------------------------------
(***************************************************************************)
(* Refunds.  What a deal is owed is one of the values that Liabilities       *)
(* totals, so a contract that is solvent holds it; and a live deal holds one *)
(* of its provider's slots, so releasing it does not underflow.             *)
(***************************************************************************)
LEMMA TotalCoversEach ==
    ASSUME NEW S, IsFiniteSet(S), NEW f \in [S -> Nat], NEW x \in S
    PROVE  f[x] <= Total(f)
<1> DEFINE others == Cardinality(UNION {CoinsOf(f, y) : y \in S \ {x}})
<1>1. others \in Nat /\ Total(f) = f[x] + others
  BY TotalSplits
<1> HIDE DEF others
<1> QED BY <1>1

LEMMA OwedIsHeld ==
    ASSUME TypeOK, Solvent, NEW d \in Deals
    PROVE  OwedFor(deals[d]) <= balance
<1>1. OwedFor(deals[d]) \in Nat /\ balance \in Nat
  BY OwedIsNat DEF TypeOK
<1>2. OwedFor(deals[d]) <= Total(Owed)
  <2>1. Owed[d] <= Total(Owed)
    BY OwedTypes, TotalCoversEach, IdentityAssumption
  <2> QED BY <2>1 DEF Owed
<1>3. Surplus >= 0
  BY DEF Solvent
<1> QED BY <1>1, <1>2, <1>3, SurplusParts

LEMMA LiveDealHoldsSlot ==
    ASSUME TypeInv, SlotsAccounted, NEW d \in Deals, Live(d)
    PROVE  providers[deals[d].provider].usedSlots > 0
<1> DEFINE p == deals[d].provider
<1>1. p \in Providers
  BY DEF TypeInv, DealsKnowTheirProvider, Live
<1>2. d \in LiveDealsOf(p)
  BY DEF LiveDealsOf
<1>3. IsFiniteSet(LiveDealsOf(p))
  BY LiveDealsAreFinite
<1>4. Cardinality(LiveDealsOf(p)) \in Nat /\ Cardinality(LiveDealsOf(p)) # 0
  BY <1>2, <1>3, FS_CardinalityType, FS_EmptySet
<1> QED BY <1>1, <1>4 DEF SlotsAccounted

\* The call of a customer to abort a deal that was not activated in time, and
\* anybody's call to close one that is over, are never refused: not for missing
\* ether and not for a slot counter that would underflow.
THEOREM RefundsGoThrough == Spec => []RefundsNeverBlocked
<1>1. SolvencyInv /\ SlotInv => RefundsNeverBlocked
  <2> SUFFICES ASSUME SolvencyInv, SlotInv, NEW d \in Deals
               PROVE  /\ /\ deals[d].state = "Pending"
                         /\ lastCommittedEpoch >= deals[d].openedAtEpoch + ABORT_AFTER_EPOCHS
                         => CanAbortDeal(d)
                      /\ /\ deals[d].state = "Active"
                         /\ lastCommittedEpoch >= deals[d].endEpoch
                         => CanCloseExpiredDeal(d)
    BY DEF RefundsNeverBlocked
  <2>1. OwedFor(deals[d]) <= balance
    BY OwedIsHeld DEF SolvencyInv, TypeInv
  <2>2. Live(d) => providers[deals[d].provider].usedSlots > 0
    BY LiveDealHoldsSlot DEF SolvencyInv, SlotInv
  <2>3. deals[d].state = "Pending" => OwedFor(deals[d]) = Refund(deals[d])
    BY DEF OwedFor, EscrowOf, FeeOf, Refund, FeeDue
  <2>4. deals[d].state = "Active" => OwedFor(deals[d]) = deals[d].escrowWei
    BY DEF OwedFor, EscrowOf, FeeOf, SolvencyInv, TypeInv, TypeOK, StorageDeal
  <2> QED BY <2>1, <2>2, <2>3, <2>4 DEF Live, CanAbortDeal, CanCloseExpiredDeal
<1>2. SolvencyInv => TypeInv
  BY DEF SolvencyInv
<1> QED BY <1>1, <1>2, InitSolvency, NextSolvency, InitSlotInv, NextSlotInv, PTL DEF Spec

-----------------------------------------------------------------------------
(***************************************************************************)
(* The contract implements EscrowLedger.  The mapping forgets the counters   *)
(* and flags by which the handlers decide; what they decide is right because *)
(* the slot counter counts the live deals, a sealed deal has released its    *)
(* fee, a closed deal has no escrow left, and only activated deals have      *)
(* leaves.                                                                  *)
(***************************************************************************)
Stage == [d \in Deals |-> deals[d].state]
Owner == [d \in Deals |-> deals[d].provider]
Escrow == [d \in Deals |-> EscrowOf(deals[d])]
Fee == [d \in Deals |-> FeeOf(deals[d])]

\* activate asks for a commR, and setting one has paid the fee.
SealedIsPaid ==
    \A d \in Deals : deals[d].sealed =>
        deals[d].sealingFeeReleased \/ deals[d].sealingFeeWei = 0

LedgerInv == TypeInv /\ SlotInv /\ ClosedIsEmpty /\ SealedIsPaid

\* How the accounts move when one deal, one provider or nothing does.
LEMMA DealAccounts ==
    ASSUME TypeOK, NEW d \in Deals, \A c \in Deals \ {d} : deals'[c] = deals[c]
    PROVE  /\ Stage' = [Stage EXCEPT ![d] = deals'[d].state]
           /\ Owner' = [Owner EXCEPT ![d] = deals'[d].provider]
           /\ Escrow' = [Escrow EXCEPT ![d] = EscrowOf(deals'[d])]
           /\ Fee' = [Fee EXCEPT ![d] = FeeOf(deals'[d])]
<1>1. Stage' = [Stage EXCEPT ![d] = deals'[d].state]
  BY DEF Stage
<1>2. Owner' = [Owner EXCEPT ![d] = deals'[d].provider]
  BY DEF Owner
<1>3. Escrow' = [Escrow EXCEPT ![d] = EscrowOf(deals'[d])]
  BY DEF Escrow
<1>4. Fee' = [Fee EXCEPT ![d] = FeeOf(deals'[d])]
  BY DEF Fee
<1> QED BY <1>1, <1>2, <1>3, <1>4

LEMMA CollateralAccount ==
    ASSUME NEW p \in Providers,
           \A q \in Providers \ {p} : providers'[q].collateralWei = providers[q].collateralWei
    PROVE  Collateral' = [Collateral EXCEPT ![p] = providers'[p].collateralWei]
BY DEF Collateral

LEMMA CollateralKept ==
    ASSUME \A q \in Providers : providers'[q].collateralWei = providers[q].collateralWei
    PROVE  Collateral' = Collateral
BY DEF Collateral

LEMMA LedgerStutters ==
    ASSUME UNCHANGED <<deals, Collateral, settlementClaimed>>
    PROVE  UNCHANGED Ledger!vars
BY DEF Ledger!vars, Ledger!dealAccounts, Collateral

\* An unchanged account may be written as one that is set to what it holds.
LEMMA AccountRewritten ==
    ASSUME NEW S, NEW f, f = [x \in S |-> f[x]], NEW d \in S, NEW v, v = f[d]
    PROVE  [f EXCEPT ![d] = v] = f
OBVIOUS

\* The slots in use are the deals the ledger counts.
LEMMA LedgerCounts ==
    ASSUME NEW S
    PROVE  Ledger!Cardinality(S) = Cardinality(S)
BY DEF Ledger!Cardinality, Cardinality

LEMMA NeededIsLocked ==
    ASSUME SlotsAccounted, NEW p \in Providers, NEW k
    PROVE  Ledger!Needed(p, k) = Locked(providers[p].usedSlots + k)
<1> DEFINE used == providers[p].usedSlots
<1>1. {d \in Deals : Owner[d] = p /\ Stage[d] \in {"Pending", "Active"}} = LiveDealsOf(p)
  BY DEF LiveDealsOf, Live, Owner, Stage
<1>2. used = Cardinality(LiveDealsOf(p))
  BY DEF SlotsAccounted
<1>3. Ledger!Needed(p, k)
        = (Ledger!Cardinality({d \in Deals : Owner[d] = p /\ Stage[d] \in {"Pending", "Active"}})
             + k) * MIN_COLLATERAL_PER_SLOT
  BY DEF Ledger!Needed, Owner, Stage
<1>4. Ledger!Needed(p, k) = (used + k) * MIN_COLLATERAL_PER_SLOT
  BY <1>1, <1>2, <1>3, LedgerCounts, Zenon
<1> QED BY <1>4 DEF Locked

-----------------------------------------------------------------------------
\* The handlers of providers: RegisterProvider deposits, WithdrawCollateral
\* withdraws, the others move nothing.
LEMMA RegisterProviderDeposits ==
    ASSUME TypeOK, SlotsAccounted, NEW p \in Providers, NEW signer,
           NEW capacity \in CAPACITIES, NEW value \in DEPOSITS,
           RegisterProvider(p, signer, capacity, value)
    PROVE  Ledger!Deposit(p, value)
<1> DEFINE old == providers[p]
           sum == old.collateralWei + value
           kept == old.suspended /\ sum < Locked(old.usedSlots)
           used == old.usedSlots
<1>1. /\ providers' = [providers EXCEPT ![p] =
             [old EXCEPT !.celestiaAddress = signer,
                         !.collateralWei = sum,
                         !.capacitySlots = capacity,
                         !.suspended = kept]]
      /\ sum >= Locked(capacity) /\ capacity >= used
      /\ deals' = deals /\ settlementClaimed' = settlementClaimed
  BY DEF RegisterProvider, dealVars, notDealHandlers, settlementVars
<1>2. /\ providers \in [Providers -> StorageProvider] /\ old \in StorageProvider
      /\ old.collateralWei \in Nat /\ used \in Nat /\ value \in Nat /\ capacity \in Nat
      /\ sum \in Nat
  <2>1. providers \in [Providers -> StorageProvider] /\ old \in StorageProvider
    BY DEF TypeOK
  <2>2. old.collateralWei \in Nat /\ used \in Nat
    BY <2>1 DEF StorageProvider
  <2>3. value \in Nat /\ capacity \in Nat
    BY InputAssumption
  <2> HIDE DEF old
  <2>4. sum \in Nat
    BY <2>2, <2>3
  <2> QED BY <2>1, <2>2, <2>3, <2>4
<1>3. /\ \A q \in Providers \ {p} : providers'[q] = providers[q]
      /\ providers'[p].collateralWei = sum
  <2> HIDE DEF sum, kept, used
  <2> QED BY <1>1, <1>2 DEF StorageProvider
<1>4. Collateral' = [Collateral EXCEPT ![p] = sum] /\ Collateral[p] + value = sum
  <2>1. Collateral' = [Collateral EXCEPT ![p] = providers'[p].collateralWei]
    BY <1>3, CollateralAccount
  <2> QED BY <1>3, <2>1 DEF Collateral
<1>5. sum >= Ledger!Needed(p, 0)
  <2>1. Ledger!Needed(p, 0) = Locked(used + 0)
    BY NeededIsLocked
  <2>2. used + 0 = used
    BY <1>2
  <2>3. Locked(used) \in Nat /\ Locked(used) <= Locked(capacity)
    BY <1>1, <1>2, LockedGrows
  <2>4. Locked(capacity) \in Nat
    BY <1>2, LockedGrows
  <2> HIDE DEF sum, used
  <2> QED BY <1>1, <1>2, <2>1, <2>2, <2>3, <2>4
<1> HIDE DEF sum, used
<1>6. Collateral' = [Collateral EXCEPT ![p] = @ + value]
  BY <1>4
<1>7. Collateral[p] + value >= Ledger!Needed(p, 0)
  BY <1>4, <1>5
<1>8. UNCHANGED <<deals, settlementClaimed>>
  BY <1>1
<1> QED BY <1>6, <1>7, <1>8 DEF Ledger!Deposit, Ledger!dealAccounts, Collateral

LEMMA WithdrawCollateralWithdraws ==
    ASSUME TypeOK, SlotsAccounted, NEW p \in Providers, NEW amount \in 0..MAX_COLLATERAL,
           WithdrawCollateral(p, amount)
    PROVE  Ledger!Withdraw(p, amount) /\ amount \in 0..Collateral[p]
<1> DEFINE old == providers[p]
           rest == old.collateralWei - amount
           used == old.usedSlots
<1>1. /\ providers' = [providers EXCEPT ![p].collateralWei = rest,
                                        ![p].withdrawRequestedAtEpoch = 0]
      /\ old.collateralWei >= Locked(used) + amount
      /\ deals' = deals /\ settlementClaimed' = settlementClaimed
  BY DEF WithdrawCollateral, StaysCovered, dealVars, notDealHandlers, settlementVars
<1>2. /\ providers \in [Providers -> StorageProvider]
      /\ old.collateralWei \in Nat /\ used \in Nat /\ amount \in Nat
  <2>1. providers \in [Providers -> StorageProvider] /\ old \in StorageProvider
    BY DEF TypeOK
  <2>2. old.collateralWei \in Nat /\ used \in Nat
    BY <2>1 DEF StorageProvider
  <2>3. amount \in Nat
    BY InputAssumption
  <2> QED BY <2>1, <2>2, <2>3
<1>3. /\ \A q \in Providers \ {p} : providers'[q] = providers[q]
      /\ providers'[p].collateralWei = rest
  <2> HIDE DEF rest
  <2> QED BY <1>1, <1>2 DEF StorageProvider
<1>4. Collateral' = [Collateral EXCEPT ![p] = rest] /\ Collateral[p] - amount = rest
  <2>1. Collateral' = [Collateral EXCEPT ![p] = providers'[p].collateralWei]
    BY <1>3, CollateralAccount
  <2> QED BY <1>3, <2>1 DEF Collateral
<1>5. /\ Collateral[p] >= Ledger!Needed(p, 0) + amount
      /\ amount <= Collateral[p]
  <2>1. Ledger!Needed(p, 0) = Locked(used + 0)
    BY NeededIsLocked
  <2>2. used + 0 = used
    BY <1>2
  <2>3. Locked(used) \in Nat
    BY <1>2, LockedGrows
  <2>4. Collateral[p] = old.collateralWei
    BY DEF Collateral
  <2> HIDE DEF used, old
  <2> QED BY <1>1, <1>2, <2>1, <2>2, <2>3, <2>4
<1> HIDE DEF rest, used
<1>6. Collateral' = [Collateral EXCEPT ![p] = @ - amount]
  BY <1>4
<1>7. UNCHANGED <<deals, settlementClaimed>>
  BY <1>1
<1>8. Ledger!Withdraw(p, amount)
  BY <1>5, <1>6, <1>7 DEF Ledger!Withdraw, Ledger!dealAccounts, Collateral
<1>9. Collateral[p] \in Nat
  BY <1>2 DEF Collateral
<1> QED BY <1>2, <1>5, <1>8, <1>9

LEMMA ProviderNextLedger ==
    ASSUME TypeOK, SlotsAccounted, ProviderNext
    PROVE  [Ledger!Next]_(Ledger!vars)
<1>1. PICK p \in Providers :
        \/ \E signer \in Signers, capacity \in CAPACITIES, value \in DEPOSITS :
              RegisterProvider(p, signer, capacity, value)
        \/ \E newAddr \in CHANGES : RequestCelestiaAddressChange(p, newAddr)
        \/ ApplyCelestiaAddressChange(p)
        \/ RequestCollateralWithdraw(p)
        \/ \E amount \in 0..MAX_COLLATERAL : WithdrawCollateral(p, amount)
  BY DEF ProviderNext
<1>2. ASSUME NEW signer \in Signers, NEW capacity \in CAPACITIES, NEW value \in DEPOSITS,
             RegisterProvider(p, signer, capacity, value)
      PROVE  Ledger!Next
  <2>1. Ledger!Deposit(p, value)
    BY <1>2, RegisterProviderDeposits
  <2> QED BY <2>1, Zenon DEF Ledger!Next
<1>3. ASSUME NEW amount \in 0..MAX_COLLATERAL, WithdrawCollateral(p, amount)
      PROVE  Ledger!Next
  <2>1. Ledger!Withdraw(p, amount) /\ amount \in 0..Collateral[p]
    BY <1>3, WithdrawCollateralWithdraws
  <2> QED BY <2>1, Zenon DEF Ledger!Next, Collateral
<1>4. CASE \/ \E newAddr \in CHANGES : RequestCelestiaAddressChange(p, newAddr)
           \/ ApplyCelestiaAddressChange(p)
           \/ RequestCollateralWithdraw(p)
  <2>1. Collateral' = Collateral
    BY <1>4, SignerRequestRecord, CollateralKept
  <2>2. UNCHANGED <<deals, settlementClaimed>>
    BY ProviderNextFrame DEF dealVars, notDealHandlers, settlementVars
  <2> QED BY <2>1, <2>2, LedgerStutters
<1> QED BY <1>1, <1>2, <1>3, <1>4

-----------------------------------------------------------------------------
\* The handlers of deals.
LEMMA OpenDealOpens ==
    ASSUME TypeOK, SlotsAccounted, NEW d \in Deals, NEW p \in Providers, NEW price \in PRICES,
           NEW duration \in DURATIONS, NEW fee \in FEES,
           OpenDeal(d, p, price, duration, fee)
    PROVE  Ledger!Open(d, p, price * duration, fee)
<1> DEFINE amount == price * duration
           n == providers[p].usedSlots + 1
<1>1. deals \in [Deals -> StorageDeal]
  BY DEF TypeOK
<1>2. /\ \A c \in Deals \ {d} : deals'[c] = deals[c]
      /\ deals[d].state = "None"
      /\ deals'[d].state = "Pending" /\ deals'[d].provider = p
      /\ deals'[d].escrowWei = amount /\ deals'[d].sealingFeeWei = fee
      /\ deals'[d].sealingFeeReleased = FALSE
      /\ providers' = [providers EXCEPT ![p].usedSlots = n]
      /\ providers[p].collateralWei >= Locked(n)
      /\ settlementClaimed' = settlementClaimed
  BY <1>1 DEF OpenDeal, notDealHandlers, settlementVars
<1>3. Collateral' = Collateral
  <2> HIDE DEF n
  <2>1. \A q \in Providers : providers'[q].collateralWei = providers[q].collateralWei
    BY <1>2, SlotsAreNotCollateral
  <2> QED BY <2>1, CollateralKept
<1>4. Collateral[p] >= Ledger!Needed(p, 1)
  <2>1. Ledger!Needed(p, 1) = Locked(n)
    BY NeededIsLocked
  <2> HIDE DEF n
  <2> QED BY <1>2, <2>1 DEF Collateral
<1> HIDE DEF amount, n
<1>5. EscrowOf(deals'[d]) = amount /\ FeeOf(deals'[d]) = fee
  BY <1>2 DEF EscrowOf, FeeOf
<1>6. /\ Stage[d] = "None"
      /\ Stage' = [Stage EXCEPT ![d] = "Pending"]
      /\ Owner' = [Owner EXCEPT ![d] = p]
      /\ Escrow' = [Escrow EXCEPT ![d] = amount]
      /\ Fee' = [Fee EXCEPT ![d] = fee]
  <2>1. Stage[d] = "None"
    BY <1>2 DEF Stage
  <2> QED BY <1>2, <1>5, <2>1, DealAccounts
<1>7. Ledger!Open(d, p, amount, fee)
  BY <1>2, <1>3, <1>4, <1>6 DEF Ledger!Open, Stage, Owner, Escrow, Fee, Collateral
<1> QED BY <1>7 DEF amount

LEMMA RegisterSealedReleases ==
    ASSUME TypeOK, NEW d \in Deals, NEW sealed \in BOOLEAN, RegisterSealed(d, sealed)
    PROVE  /\ Ledger!ReleaseFee(d)
           /\ deals'[d].sealingFeeReleased \/ deals'[d].sealingFeeWei = 0
           /\ \A c \in Deals \ {d} : deals'[c] = deals[c]
<1> DEFINE deal == deals[d]
           fee == IF deal.sealingFeeReleased THEN 0 ELSE deal.sealingFeeWei
           released == deal.sealingFeeReleased \/ fee > 0
<1>1. /\ deals' = [deals EXCEPT ![d].sealed = sealed,
                                ![d].sealingFeeReleased = released]
      /\ deal.state = "Pending"
      /\ providers' = providers /\ settlementClaimed' = settlementClaimed
  BY DEF RegisterSealed, FeeDue, providerVars, notDealHandlers, settlementVars
<1>2. /\ deals \in [Deals -> StorageDeal] /\ deal \in StorageDeal
      /\ deal.sealingFeeWei \in Nat
  BY DEF TypeOK, StorageDeal
<1>3. /\ \A c \in Deals \ {d} : deals'[c] = deals[c]
      /\ deals'[d].state = deal.state /\ deals'[d].provider = deal.provider
      /\ deals'[d].escrowWei = deal.escrowWei
      /\ deals'[d].sealingFeeWei = deal.sealingFeeWei
      /\ deals'[d].sealingFeeReleased = released
  <2> HIDE DEF released
  <2> QED BY <1>1, <1>2 DEF StorageDeal
<1>4. released \/ deal.sealingFeeWei = 0
  <2> HIDE DEF deal
  <2> QED BY <1>2
<1>5. deals'[d].sealingFeeReleased \/ deals'[d].sealingFeeWei = 0
  BY <1>3, <1>4
<1> HIDE DEF released, fee
<1>6. FeeOf(deals'[d]) = 0 /\ EscrowOf(deals'[d]) = EscrowOf(deals[d])
  BY <1>3, <1>5 DEF FeeOf, EscrowOf
<1>7. Fee' = [Fee EXCEPT ![d] = 0]
  BY <1>3, <1>6, DealAccounts
<1>8. /\ Stage' = Stage /\ Owner' = Owner /\ Escrow' = Escrow /\ Collateral' = Collateral
      /\ Stage[d] = "Pending"
  <2>1. Stage' = Stage /\ Owner' = Owner
    BY SealedKeepsDeals DEF TypeOK, Stage, Owner
  <2>2. Escrow' = Escrow
    BY <1>3, <1>6 DEF Escrow
  <2>3. Collateral' = Collateral /\ Stage[d] = "Pending"
    BY <1>1 DEF Collateral, Stage
  <2> QED BY <2>1, <2>2, <2>3
<1>9. Ledger!ReleaseFee(d)
  BY <1>1, <1>7, <1>8 DEF Ledger!ReleaseFee, Stage, Owner, Escrow, Fee, Collateral
<1> QED BY <1>3, <1>5, <1>9

LEMMA ActivateConfirms ==
    ASSUME TypeOK, SealedIsPaid, NEW d \in Deals, Activate(d)
    PROVE  Ledger!Confirm(d)
<1>1. deals \in [Deals -> StorageDeal] /\ deals[d] \in StorageDeal
  BY DEF TypeOK
<1>2. /\ deals' = [deals EXCEPT ![d].state = "Active"]
      /\ deals[d].state = "Pending" /\ deals[d].sealed
      /\ providers' = providers /\ settlementClaimed' = settlementClaimed
  BY DEF Activate, providerVars, notDealHandlers, settlementVars
<1>3. /\ \A c \in Deals \ {d} : deals'[c] = deals[c]
      /\ deals'[d].state = "Active" /\ deals'[d].provider = deals[d].provider
      /\ deals'[d].escrowWei = deals[d].escrowWei
  BY <1>1, <1>2 DEF StorageDeal
<1>4. FeeOf(deals[d]) = 0 /\ FeeOf(deals'[d]) = 0 /\ EscrowOf(deals'[d]) = EscrowOf(deals[d])
  <2>1. deals[d].sealingFeeReleased \/ deals[d].sealingFeeWei = 0
    BY <1>2 DEF SealedIsPaid
  <2>2. FeeOf(deals[d]) = 0
    BY <2>1 DEF FeeOf
  <2>3. FeeOf(deals'[d]) = 0
    BY <1>3 DEF FeeOf
  <2>4. EscrowOf(deals'[d]) = EscrowOf(deals[d])
    BY <1>2, <1>3 DEF EscrowOf
  <2> QED BY <2>2, <2>3, <2>4
<1>5. /\ Stage' = [Stage EXCEPT ![d] = "Active"]
      /\ Owner' = Owner /\ Escrow' = Escrow /\ Fee' = Fee /\ Collateral' = Collateral
      /\ Stage[d] = "Pending" /\ Fee[d] = 0
  <2>1. Stage' = [Stage EXCEPT ![d] = "Active"]
    BY <1>3, DealAccounts
  <2>2. Owner' = Owner
    BY <1>3 DEF Owner
  <2>3. Escrow' = Escrow
    BY <1>3, <1>4 DEF Escrow
  <2>4. Fee' = Fee /\ Fee[d] = 0
    BY <1>3, <1>4 DEF Fee
  <2>5. Collateral' = Collateral /\ Stage[d] = "Pending"
    BY <1>2 DEF Collateral, Stage
  <2> QED BY <2>1, <2>2, <2>3, <2>4, <2>5
<1> QED BY <1>2, <1>5 DEF Ledger!Confirm, Stage, Owner, Escrow, Fee, Collateral

LEMMA DealEnds ==
    ASSUME TypeOK, NEW d \in Deals, \A c \in Deals \ {d} : deals'[c] = deals[c],
           deals'[d].provider = deals[d].provider,
           \/ deals[d].state = "Pending" /\ deals'[d].state = "Aborted"
           \/ deals[d].state = "Active" /\ deals'[d].state = "Closed",
           UNCHANGED <<Collateral, settlementClaimed>>
    PROVE  Ledger!End(d)
<1>1. EscrowOf(deals'[d]) = 0 /\ FeeOf(deals'[d]) = 0
  BY DEF EscrowOf, FeeOf
<1>2. /\ Stage' = [Stage EXCEPT ![d] = deals'[d].state]
      /\ Escrow' = [Escrow EXCEPT ![d] = 0]
      /\ Fee' = [Fee EXCEPT ![d] = 0]
  BY <1>1, DealAccounts
<1>3. Owner' = Owner
  BY DEF Owner
<1>4. \/ Stage[d] = "Pending" /\ Stage' = [Stage EXCEPT ![d] = "Aborted"]
      \/ Stage[d] = "Active" /\ Stage' = [Stage EXCEPT ![d] = "Closed"]
  BY <1>2 DEF Stage
<1> QED BY <1>2, <1>3, <1>4 DEF Ledger!End, Stage, Owner, Escrow, Fee, Collateral

LEMMA AbortDealEnds ==
    ASSUME TypeOK, NEW d \in Deals, AbortDeal(d)
    PROVE  Ledger!End(d) /\ \A c \in Deals \ {d} : deals'[c] = deals[c]
<1> DEFINE p == deals[d].provider
           n == providers[p].usedSlots - 1
<1>1. deals \in [Deals -> StorageDeal] /\ deals[d] \in StorageDeal
  BY DEF TypeOK
<1>2. /\ deals' = [deals EXCEPT ![d].state = "Aborted"]
      /\ deals[d].state = "Pending"
      /\ providers' = [providers EXCEPT ![p].usedSlots = n]
      /\ settlementClaimed' = settlementClaimed
  BY DEF AbortDeal, CanAbortDeal, notDealHandlers, settlementVars
<1> HIDE DEF p, n
<1>3. /\ \A c \in Deals \ {d} : deals'[c] = deals[c]
      /\ deals'[d].state = "Aborted" /\ deals'[d].provider = deals[d].provider
  BY <1>1, <1>2 DEF StorageDeal
<1>4. Collateral' = Collateral
  BY <1>2, SlotsAreNotCollateral, CollateralKept
<1> QED BY <1>2, <1>3, <1>4, DealEnds

LEMMA CloseExpiredDealEnds ==
    ASSUME TypeOK, NEW d \in Deals, CloseExpiredDeal(d)
    PROVE  Ledger!End(d) /\ \A c \in Deals \ {d} : deals'[c] = deals[c]
<1> DEFINE p == deals[d].provider
           used == providers[p].usedSlots
           n == IF used > 0 THEN used - 1 ELSE used
<1>1. deals \in [Deals -> StorageDeal] /\ deals[d] \in StorageDeal
  BY DEF TypeOK
<1>2. /\ deals' = [deals EXCEPT ![d].state = "Closed", ![d].escrowWei = 0]
      /\ deals[d].state = "Active"
      /\ providers' = [providers EXCEPT ![p].usedSlots = n]
      /\ settlementClaimed' = settlementClaimed
  BY DEF CloseExpiredDeal, CanCloseExpiredDeal, notDealHandlers, settlementVars
<1> HIDE DEF p, n
<1>3. /\ \A c \in Deals \ {d} : deals'[c] = deals[c]
      /\ deals'[d].state = "Closed" /\ deals'[d].provider = deals[d].provider
  BY <1>1, <1>2 DEF StorageDeal
<1>4. Collateral' = Collateral
  BY <1>2, SlotsAreNotCollateral, CollateralKept
<1> QED BY <1>2, <1>3, <1>4, DealEnds

LEMMA DealNextLedger ==
    ASSUME TypeOK, SlotsAccounted, SealedIsPaid, DealNext
    PROVE  Ledger!Next
<1>1. PICK d \in Deals :
        \/ \E p \in Providers, price \in PRICES, duration \in DURATIONS, fee \in FEES :
              OpenDeal(d, p, price, duration, fee)
        \/ \E sealed \in BOOLEAN : RegisterSealed(d, sealed)
        \/ Activate(d)
        \/ AbortDeal(d)
        \/ CloseExpiredDeal(d)
  BY DEF DealNext
<1>2. ASSUME NEW p \in Providers, NEW price \in PRICES, NEW duration \in DURATIONS,
             NEW fee \in FEES, OpenDeal(d, p, price, duration, fee)
      PROVE  Ledger!Next
  <2>1. Ledger!Open(d, p, price * duration, fee)
    BY <1>2, OpenDealOpens
  <2> QED BY <2>1, Zenon DEF Ledger!Next
<1>3. CASE \E sealed \in BOOLEAN : RegisterSealed(d, sealed)
  <2>1. Ledger!ReleaseFee(d)
    BY <1>3, RegisterSealedReleases
  <2> QED BY <2>1, Zenon DEF Ledger!Next
<1>4. CASE Activate(d)
  <2>1. Ledger!Confirm(d)
    BY <1>4, ActivateConfirms
  <2> QED BY <2>1, Zenon DEF Ledger!Next
<1>5. CASE AbortDeal(d) \/ CloseExpiredDeal(d)
  <2>1. Ledger!End(d)
    BY <1>5, AbortDealEnds, CloseExpiredDealEnds
  <2> QED BY <2>1, Zenon DEF Ledger!Next
<1> QED BY <1>1, <1>2, <1>3, <1>4, <1>5

-----------------------------------------------------------------------------
\* A claim moves the reward out of the escrow of its deal, or the slash out of
\* the collateral of its provider, or nothing.
LEMMA ClaimRecords ==
    ASSUME TypeInv, NEW sender, NEW epoch \in EpochIds, NEW d \in Deals,
           ClaimSettlement(sender, epoch, d)
    PROVE  LET verdict == epochs[epoch].verdicts[d]
               p == deals[d].provider
           IN  /\ p \in Providers /\ verdict \in {"PASS", "FAIL", "NONE"}
               /\ deals[d].state \in {"Active", "Closed"}
               /\ \A c \in Deals \ {d} : deals'[c] = deals[c]
               /\ deals'[d].state = deals[d].state
               /\ deals'[d].provider = p
               /\ deals[d].escrowWei >= RewardOf(verdict)
               /\ deals'[d].escrowWei = deals[d].escrowWei - RewardOf(verdict)
               /\ \A q \in Providers \ {p} :
                     providers'[q].collateralWei = providers[q].collateralWei
               /\ providers'[p].collateralWei
                     = providers[p].collateralWei - SlashTaken(p, verdict)
<1> DEFINE p == deals[d].provider
           verdict == epochs[epoch].verdicts[d]
           reward == RewardOf(verdict)
           rest == providers[p].collateralWei - SlashTaken(p, verdict)
           suspended == providers[p].suspended
                          \/ (SlashOf(verdict) > 0 /\ rest < Locked(providers[p].usedSlots))
           escrow == deals[d].escrowWei - reward
<1>1. /\ TypeOK
      /\ p \in Providers
      /\ deals[d].state \in {"Active", "Closed"}
  BY DEF TypeInv, ClaimSettlement, InResults, LeavesAreOfActivatedDeals, DealsKnowTheirProvider
<1>2. verdict \in {"PASS", "FAIL", "NONE"}
  <2>1. verdict # "NoLeaf"
    BY DEF ClaimSettlement, InResults
  <2>2. epochs[epoch] \in EpochRecord
    BY <1>1 DEF TypeOK
  <2> QED BY <2>1, <2>2 DEF EpochRecord
<1>3. /\ providers' = [providers EXCEPT ![p].collateralWei = rest, ![p].suspended = suspended]
      /\ deals' = [deals EXCEPT ![d].escrowWei = escrow]
      /\ deals[d].escrowWei >= reward
  BY DEF ClaimSettlement, InResults
<1>4. /\ \A q \in Providers \ {p} : providers'[q].collateralWei = providers[q].collateralWei
      /\ providers'[p].collateralWei = rest
  <2> HIDE DEF rest, suspended, p
  <2> QED BY <1>1, <1>3 DEF TypeOK, StorageProvider
<1>5. /\ \A c \in Deals \ {d} : deals'[c] = deals[c]
      /\ deals'[d].escrowWei = escrow
      /\ deals'[d].state = deals[d].state
      /\ deals'[d].provider = deals[d].provider
  <2> HIDE DEF escrow
  <2> QED BY <1>1, <1>3 DEF TypeOK, StorageDeal
<1> QED BY <1>1, <1>2, <1>3, <1>4, <1>5, Zenon

LEMMA ClaimSettlementSettles ==
    ASSUME TypeInv, ClosedIsEmpty, NEW sender, NEW epoch \in EpochIds, NEW d \in Deals,
           ClaimSettlement(sender, epoch, d)
    PROVE  Ledger!Settle(epoch, d)
<1> DEFINE p == deals[d].provider
           verdict == epochs[epoch].verdicts[d]
           reward == RewardOf(verdict)
           taken == SlashTaken(p, verdict)
           had == providers[p].collateralWei
<1>1. /\ p \in Providers /\ verdict \in {"PASS", "FAIL", "NONE"}
      /\ deals[d].state \in {"Active", "Closed"}
      /\ \A c \in Deals \ {d} : deals'[c] = deals[c]
      /\ deals'[d].state = deals[d].state /\ deals'[d].provider = p
      /\ deals[d].escrowWei >= reward
      /\ deals'[d].escrowWei = deals[d].escrowWei - reward
      /\ \A q \in Providers \ {p} : providers'[q].collateralWei = providers[q].collateralWei
      /\ providers'[p].collateralWei = had - taken
  BY ClaimRecords
<1>2. /\ <<epoch, d>> \notin settlementClaimed
      /\ settlementClaimed' = settlementClaimed \cup {<<epoch, d>>}
  BY DEF ClaimSettlement, InResults, Unclaimed
<1>3. /\ had \in Nat /\ deals[d].escrowWei \in Nat
      /\ REWARD_WEI \in Nat /\ SLASH_WEI \in Nat
  <2>1. providers[p] \in StorageProvider /\ deals[d] \in StorageDeal
    BY <1>1 DEF TypeInv, TypeOK
  <2> QED BY <2>1, ParamAssumption DEF StorageProvider, StorageDeal
<1>4. /\ Stage' = Stage /\ Owner' = Owner /\ Fee' = Fee
      /\ Stage[d] \in {"Active", "Closed"} /\ Owner[d] = p
      /\ Escrow' = [Escrow EXCEPT ![d] = EscrowOf(deals'[d])]
      /\ Collateral' = [Collateral EXCEPT ![p] = had - taken]
  <2>1. Stage' = Stage /\ Owner' = Owner /\ Stage[d] \in {"Active", "Closed"} /\ Owner[d] = p
    BY <1>1 DEF Stage, Owner
  <2>2. Fee' = Fee
    <3>1. FeeOf(deals'[d]) = FeeOf(deals[d])
      BY <1>1 DEF FeeOf
    <3> QED BY <1>1, <3>1 DEF Fee
  <2>3. Escrow' = [Escrow EXCEPT ![d] = EscrowOf(deals'[d])]
    BY <1>1, DealAccounts DEF TypeInv
  <2>4. Collateral' = [Collateral EXCEPT ![p] = had - taken]
    BY <1>1, CollateralAccount
  <2> QED BY <2>1, <2>2, <2>3, <2>4
<1>5. /\ Escrow[d] >= reward /\ Escrow[d] \in Nat
      /\ EscrowOf(deals'[d]) = Escrow[d] - reward
  <2>1. Escrow[d] = EscrowOf(deals[d])
    BY DEF Escrow
  <2>2. reward \in Nat
    BY <1>3 DEF RewardOf
  <2> HIDE DEF reward
  <2>3. CASE deals[d].state = "Active"
    BY <1>1, <1>3, <2>1, <2>2, <2>3 DEF EscrowOf
  <2>4. CASE deals[d].state = "Closed"
    <3>1. deals[d].escrowWei = 0
      BY <2>4 DEF ClosedIsEmpty
    <3>2. reward = 0
      BY <1>1, <2>2, <3>1
    <3>3. EscrowOf(deals[d]) = 0 /\ EscrowOf(deals'[d]) = 0
      BY <1>1, <2>4 DEF EscrowOf
    <3> QED BY <2>1, <3>2, <3>3
  <2> QED BY <1>1, <2>3, <2>4
<1>6. Collateral[p] = had /\ Collateral = [q \in Providers |-> Collateral[q]]
  BY <1>1 DEF Collateral
<1>7. \/ /\ Escrow[d] >= REWARD_WEI
         /\ Escrow' = [Escrow EXCEPT ![d] = @ - REWARD_WEI]
         /\ Collateral' = Collateral
      \/ /\ Collateral' = [Collateral EXCEPT
                ![Owner[d]] = IF @ > SLASH_WEI THEN @ - SLASH_WEI ELSE 0]
         /\ Escrow' = Escrow
      \/ UNCHANGED <<Escrow, Collateral>>
  <2>1. reward = 0 => Escrow' = Escrow
    <3>1. reward = 0 => EscrowOf(deals'[d]) = Escrow[d]
      BY <1>5
    <3> HIDE DEF reward
    <3> QED BY <1>4, <3>1 DEF Escrow
  <2>2. taken = 0 => Collateral' = Collateral
    <3>1. taken = 0 => had - taken = Collateral[p]
      BY <1>3, <1>6
    <3> HIDE DEF taken, had, p
    <3> QED BY <1>4, <1>6, <3>1
  <2>3. CASE verdict = "PASS"
    <3>1. reward = REWARD_WEI /\ taken = 0
      BY <1>3, <2>3 DEF RewardOf, SlashTaken, SlashOf
    <3> QED BY <1>4, <1>5, <2>2, <3>1
  <2>4. CASE verdict = "FAIL"
    <3>1. reward = 0 /\ taken = IF SLASH_WEI > had THEN had ELSE SLASH_WEI
      BY <2>4 DEF RewardOf, SlashTaken, SlashOf
    <3>2. had - taken = IF had > SLASH_WEI THEN had - SLASH_WEI ELSE 0
      <4> HIDE DEF had, taken
      <4> QED BY <1>3, <3>1
    <3> HIDE DEF had, taken, reward, p
    <3> QED BY <1>4, <1>6, <2>1, <3>1, <3>2
  <2>5. CASE verdict = "NONE"
    <3>1. reward = 0 /\ taken = 0
      BY <1>3, <2>5 DEF RewardOf, SlashTaken, SlashOf
    <3> QED BY <2>1, <2>2, <3>1
  <2> QED BY <1>1, <2>3, <2>4, <2>5
<1> QED BY <1>2, <1>4, <1>7 DEF Ledger!Settle, Stage, Owner, Escrow, Fee, Collateral

LEMMA NextLedger ==
    ASSUME LedgerInv, [Next]_vars
    PROVE  [Ledger!Next]_(Ledger!vars)
<1>1. TypeInv /\ TypeOK /\ SlotsAccounted /\ ClosedIsEmpty /\ SealedIsPaid
  BY DEF LedgerInv, TypeInv, SlotInv
<1>2. CASE UNCHANGED <<providers, deals, settlementClaimed>>
  <2>1. Collateral' = Collateral
    BY <1>2 DEF Collateral
  <2> QED BY <1>2, <2>1, LedgerStutters
<1>3. CASE ProviderNext
  BY <1>1, <1>3, ProviderNextLedger
<1>4. CASE DealNext
  BY <1>1, <1>4, DealNextLedger
<1>5. CASE AggregatorNext
  BY <1>2, <1>5, AggregatorNextFrame DEF providerVars, dealVars, settlementVars
<1>6. ASSUME NEW sender, NEW epoch \in EpochIds, NEW d \in Deals,
             ClaimSettlement(sender, epoch, d)
      PROVE  Ledger!Next
  <2>1. Ledger!Settle(epoch, d)
    BY <1>1, <1>6, ClaimSettlementSettles
  <2> QED BY <2>1, Zenon DEF Ledger!Next
<1>7. CASE \E submitter \in Accounts : CommitBy(submitter)
  BY <1>2, <1>7 DEF CommitBy, CommitEpoch, notEpochHandlers, settlementVars
<1>8. CASE \E epoch \in EpochIds : FinalizeEpoch(epoch) \/ VoidEpoch(epoch)
  BY <1>2, <1>8 DEF FinalizeEpoch, MayFinalize, VoidEpoch, MayVoid, notEpochHandlers, settlementVars
<1>9. CASE Tick \/ (\E value \in DEPOSITS : Receive(value)) \/ UNCHANGED vars
  BY <1>2, <1>9 DEF Tick, Receive, vars, providerVars, dealVars, settlementVars
<1> QED BY <1>3, <1>4, <1>5, <1>6, <1>7, <1>8, <1>9 DEF Next, EpochNext

\* The fields SealedIsPaid reads are written by openDeal and registerSealed alone.
LEMMA NextSealedIsPaid ==
    ASSUME TypeInv, SealedIsPaid, [Next]_vars
    PROVE  SealedIsPaid'
<1>1. TypeOK /\ deals \in [Deals -> StorageDeal]
  BY DEF TypeInv, TypeOK
<1>2. CASE \A c \in Deals : /\ deals'[c].sealed = deals[c].sealed
                            /\ deals'[c].sealingFeeReleased = deals[c].sealingFeeReleased
                            /\ deals'[c].sealingFeeWei = deals[c].sealingFeeWei
  BY <1>2 DEF SealedIsPaid
<1>3. CASE DealNext
  <2>1. PICK d \in Deals :
        \/ \E p \in Providers, price \in PRICES, duration \in DURATIONS, fee \in FEES :
              OpenDeal(d, p, price, duration, fee)
        \/ \E sealed \in BOOLEAN : RegisterSealed(d, sealed)
        \/ Activate(d)
        \/ AbortDeal(d)
        \/ CloseExpiredDeal(d)
    BY <1>3 DEF DealNext
  <2>2. CASE \E p \in Providers, price \in PRICES, duration \in DURATIONS, fee \in FEES :
                OpenDeal(d, p, price, duration, fee)
    <3>1. /\ \A c \in Deals \ {d} : deals'[c] = deals[c]
          /\ deals'[d].sealed = FALSE
      BY <1>1, <2>2 DEF OpenDeal
    <3> QED BY <3>1 DEF SealedIsPaid
  <2>3. CASE \E sealed \in BOOLEAN : RegisterSealed(d, sealed)
    <3>1. /\ deals'[d].sealingFeeReleased \/ deals'[d].sealingFeeWei = 0
          /\ \A c \in Deals \ {d} : deals'[c] = deals[c]
      BY <1>1, <2>3, RegisterSealedReleases
    <3> QED BY <3>1 DEF SealedIsPaid
  <2>4. CASE Activate(d) \/ AbortDeal(d) \/ CloseExpiredDeal(d)
    <3>1. \/ deals' = [deals EXCEPT ![d].state = "Active"]
          \/ deals' = [deals EXCEPT ![d].state = "Aborted"]
          \/ deals' = [deals EXCEPT ![d].state = "Closed", ![d].escrowWei = 0]
      BY <2>4 DEF Activate, AbortDeal, CloseExpiredDeal
    <3> QED BY <1>1, <1>2, <3>1 DEF StorageDeal
  <2> QED BY <2>1, <2>2, <2>3, <2>4
<1>4. ASSUME NEW sender, NEW epoch \in EpochIds, NEW d \in Deals,
             ClaimSettlement(sender, epoch, d)
      PROVE  SealedIsPaid'
  <2> DEFINE escrow == deals[d].escrowWei - RewardOf(epochs[epoch].verdicts[d])
  <2>1. deals' = [deals EXCEPT ![d].escrowWei = escrow]
    BY <1>4 DEF ClaimSettlement, InResults
  <2> HIDE DEF escrow
  <2> QED BY <1>1, <1>2, <2>1 DEF StorageDeal
<1>5. CASE deals' = deals
  BY <1>2, <1>5
<1>6. CASE ProviderNext
  BY <1>5, <1>6, ProviderNextFrame DEF dealVars
<1>7. CASE AggregatorNext
  BY <1>5, <1>7, AggregatorNextFrame DEF dealVars
<1>8. CASE \E submitter \in Accounts : CommitBy(submitter)
  BY <1>5, <1>8 DEF CommitBy, CommitEpoch, notEpochHandlers
<1>9. CASE \E epoch \in EpochIds : FinalizeEpoch(epoch) \/ VoidEpoch(epoch)
  BY <1>5, <1>9 DEF FinalizeEpoch, MayFinalize, VoidEpoch, MayVoid, notEpochHandlers
<1>10. CASE Tick \/ (\E value \in DEPOSITS : Receive(value)) \/ UNCHANGED vars
  BY <1>5, <1>10 DEF Tick, Receive, vars, dealVars
<1> QED BY <1>3, <1>4, <1>6, <1>7, <1>8, <1>9, <1>10 DEF Next, EpochNext

LEMMA InitLedger == Init => LedgerInv /\ Ledger!Init
<1> SUFFICES ASSUME Init PROVE LedgerInv /\ Ledger!Init
  OBVIOUS
<1>1. SealedIsPaid /\ ClosedIsEmpty
  BY DEF Init, SealedIsPaid, ClosedIsEmpty, NoDealRecord
<1>2. LedgerInv
  BY <1>1, InitTypeInv, InitSlotInv DEF LedgerInv
<1>3. /\ Stage = [d \in Deals |-> "None"]
      /\ Owner = [d \in Deals |-> NoAddress]
      /\ Escrow = [d \in Deals |-> 0]
      /\ Fee = [d \in Deals |-> 0]
      /\ Collateral = [p \in Providers |-> 0]
      /\ settlementClaimed = {}
  BY DEF Init, Stage, Owner, Escrow, Fee, Collateral, EscrowOf, FeeOf, NoDealRecord,
     NoProviderRecord
<1>4. Ledger!Init
  BY <1>3 DEF Ledger!Init, Stage, Owner, Escrow, Fee, Collateral
<1> QED BY <1>2, <1>4

LEMMA NextLedgerInv == LedgerInv /\ [Next]_vars => LedgerInv' /\ [Ledger!Next]_(Ledger!vars)
<1> SUFFICES ASSUME LedgerInv, [Next]_vars
             PROVE  LedgerInv' /\ [Ledger!Next]_(Ledger!vars)
  OBVIOUS
<1>1. TypeInv /\ SlotInv /\ ClosedIsEmpty /\ SealedIsPaid
  BY DEF LedgerInv
<1>2. TypeInv' /\ SlotInv' /\ ClosedIsEmpty' /\ SealedIsPaid'
  BY <1>1, NextTypeInv, NextSlotInv, NextClosedIsEmpty, NextSealedIsPaid
<1> QED BY <1>2, NextLedger DEF LedgerInv

\* The contract is the escrow ledger of EscrowLedger, for any numbers of providers,
\* deals, epochs and aggregators and whatever the amounts: each of its steps is a
\* step of the ledger or moves no account.
THEOREM ContractIsALedger == Spec => ImplementsLedger
<1>1. Init => LedgerInv /\ Ledger!Init
  BY InitLedger
<1>2. LedgerInv /\ [Next]_vars => LedgerInv' /\ [Ledger!Next]_(Ledger!vars)
  BY NextLedgerInv
<1> QED BY <1>1, <1>2, PTL DEF Spec, ImplementsLedger, Ledger!Spec

-----------------------------------------------------------------------------
(***************************************************************************)
(* Timeouts.  What all aggregators together own, deposited or not, is what   *)
(* they can still be designated with: it is the measure that bounds the      *)
(* number of reports, each of which puts off the deadline of a commit.       *)
(***************************************************************************)
AggregatorEther == Total(Deposits) + Total(aggWallet)

\* No call lets the aggregators' ether grow, and the report of a timeout, by
\* whomever, burns some of it: the reporter's bounty is less than the slash
\* (registerAggregator, reportAggregatorTimeout, withdrawAggregatorCollateral).
ReportsCostEther ==
    [][/\ AggregatorEther' <= AggregatorEther
       /\ (\E reporter \in Accounts : ReportAggregatorTimeout(reporter))
             => AggregatorEther' < AggregatorEther]_vars

\* A larger amount has no smaller a share.
LEMMA ShareOfMinimum ==
    ASSUME NEW amount \in Nat, amount >= MIN_AGG_COLLATERAL
    PROVE  BpsOf(amount, AGG_TIMEOUT_SLASH_BPS) > 0
<1>1. amount * AGG_TIMEOUT_SLASH_BPS \in Nat
      /\ amount * AGG_TIMEOUT_SLASH_BPS >= MIN_AGG_COLLATERAL * AGG_TIMEOUT_SLASH_BPS
  BY ParamAssumption
<1>2. /\ amount * AGG_TIMEOUT_SLASH_BPS >= BPS_BASE
      /\ MIN_AGG_COLLATERAL * AGG_TIMEOUT_SLASH_BPS \in Nat
  BY <1>1, ParamAssumption, TimeoutAssumption
<1> QED BY <1>1, <1>2, ParamAssumption DEF BpsOf

\* A bounty is less than what it is paid from.
LEMMA BountyIsLess ==
    ASSUME NEW slashed \in Nat \ {0}
    PROVE  Bounty(slashed) \in 0..(slashed - 1)
<1>1. slashed * BOUNTY_BPS \in Nat /\ slashed * BOUNTY_BPS < slashed * BPS_BASE
  BY ParamAssumption, TimeoutAssumption
<1>2. (slashed * BOUNTY_BPS) \div BPS_BASE \in Nat
  BY <1>1, ParamAssumption
<1>3. (slashed * BOUNTY_BPS) \div BPS_BASE < slashed
  BY <1>1, ParamAssumption
<1> QED BY <1>2, <1>3 DEF Bounty, BpsOf

\* Who is designated has the minimum deposit at least.
LEMMA DesignatedIsFunded ==
    ASSUME TypeOK, designatedAggregator # NoAddress
    PROVE  aggregators[designatedAggregator].collateralWei >= MIN_AGG_COLLATERAL
<1> DEFINE funded == {i \in 0..(Len(aggregatorSet) - 1) :
              aggregators[Candidate(i)].collateralWei >= MIN_AGG_COLLATERAL}
<1>1. aggregatorSet \in Seq(AggIds)
  BY DEF TypeOK
<1>2. funded # {} /\ designatedAggregator = Candidate(Min(funded))
  BY DEF designatedAggregator
<1>3. Min(funded) \in funded
  <2>1. funded \in SUBSET Nat BY <1>1
  <2> QED BY <1>2, <2>1, MinIsMember
<1> QED BY <1>2, <1>3

\* How the two halves of the measure move, and that they are numbers.
LEMMA WalletsMove ==
    ASSUME TypeOK, TypeOK', NEW a \in AggIds,
           \A b \in AggIds \ {a} : aggWallet'[b] = aggWallet[b]
    PROVE  /\ Total(aggWallet) \in Nat /\ Total(aggWallet') \in Nat
           /\ Total(aggWallet') = Total(aggWallet) - aggWallet[a] + aggWallet'[a]
<1>1. aggWallet \in [AggIds -> Nat] /\ aggWallet' \in [AggIds -> Nat]
  BY DEF TypeOK
<1> QED BY <1>1, TotalUpdate, IdentityAssumption

LEMMA EtherIsNat ==
    ASSUME TypeOK
    PROVE  Total(Deposits) \in Nat /\ Total(aggWallet) \in Nat
<1>1. Deposits \in [AggIds -> Nat] /\ aggWallet \in [AggIds -> Nat]
  BY DEF TypeOK, Deposits, AggregatorInfo
<1> QED BY <1>1, TotalIsNat, IdentityAssumption

LEMMA EtherIsNatNext ==
    ASSUME TypeOK'
    PROVE  Total(Deposits') \in Nat /\ Total(aggWallet') \in Nat
<1>1. Deposits' \in [AggIds -> Nat] /\ aggWallet' \in [AggIds -> Nat]
  BY DEF TypeOK, Deposits, AggregatorInfo
<1> QED BY <1>1, TotalIsNat, IdentityAssumption

\* What one aggregator deposits it had, and what it withdraws it gets.
LEMMA OwnMoves ==
    ASSUME TypeOK, TypeOK', NEW a \in AggIds,
           \A b \in AggIds \ {a} : /\ aggregators'[b] = aggregators[b]
                                   /\ aggWallet'[b] = aggWallet[b],
           aggregators'[a].collateralWei + aggWallet'[a]
             = aggregators[a].collateralWei + aggWallet[a]
    PROVE  AggregatorEther' = AggregatorEther
<1>1. /\ aggregators[a].collateralWei \in Nat /\ aggregators'[a].collateralWei \in Nat
      /\ aggWallet[a] \in Nat /\ aggWallet'[a] \in Nat
  BY DEF TypeOK, AggregatorInfo
<1>2. Total(Deposits')
        = Total(Deposits) - aggregators[a].collateralWei + aggregators'[a].collateralWei
  BY DepositsMove
<1>3. Total(aggWallet') = Total(aggWallet) - aggWallet[a] + aggWallet'[a]
  BY WalletsMove
<1>4. /\ Total(Deposits) \in Nat /\ Total(aggWallet) \in Nat
      /\ Total(Deposits') \in Nat /\ Total(aggWallet') \in Nat
  BY EtherIsNat, EtherIsNatNext
<1> QED BY <1>1, <1>2, <1>3, <1>4 DEF AggregatorEther

\* The designated aggregator loses more than the reporter gains, be it itself.
LEMMA ReportBurns ==
    ASSUME TypeOK, TypeOK', NEW reporter \in Accounts, ReportAggregatorTimeout(reporter)
    PROVE  AggregatorEther' < AggregatorEther
<1> DEFINE agg == designatedAggregator
           slashed == BpsOf(aggregators[agg].collateralWei, AGG_TIMEOUT_SLASH_BPS)
           bounty == Bounty(slashed)
           rest == aggregators[agg].collateralWei - slashed
<1>1. agg \in AggIds /\ aggregators[agg].collateralWei >= MIN_AGG_COLLATERAL
  BY DesignatedIsAggregator, DesignatedIsFunded DEF ReportAggregatorTimeout
<1>2. aggregators[agg].collateralWei \in Nat
  BY <1>1 DEF TypeOK, AggregatorInfo
<1>3. slashed \in 0..aggregators[agg].collateralWei /\ slashed > 0
  BY <1>1, <1>2, ShareIsPart, ShareOfMinimum, ParamAssumption
<1>4. bounty \in 0..(slashed - 1)
  <2>1. slashed \in Nat \ {0} BY <1>2, <1>3
  <2> QED BY <2>1, BountyIsLess
<1>5. /\ aggregators' = [aggregators EXCEPT ![agg].collateralWei = rest]
      /\ aggWallet' = IF reporter \in AggIds
                      THEN [aggWallet EXCEPT ![reporter] = @ + bounty]
                      ELSE aggWallet
  BY DEF ReportAggregatorTimeout
<1> HIDE DEF agg, slashed, bounty
<1>6. /\ \A b \in AggIds \ {agg} : aggregators'[b] = aggregators[b]
      /\ aggregators'[agg].collateralWei = rest
  <2> HIDE DEF rest
  <2> QED BY <1>1, <1>5 DEF TypeOK, AggregatorInfo
<1>7. Total(Deposits') = Total(Deposits) - slashed
  <2>1. Total(Deposits')
          = Total(Deposits) - aggregators[agg].collateralWei + aggregators'[agg].collateralWei
    BY <1>1, <1>6, DepositsMove
  <2> QED BY <1>2, <1>3, <1>6, <2>1, EtherIsNat, EtherIsNatNext
<1>8. Total(aggWallet') <= Total(aggWallet) + bounty
  <2>1. CASE reporter \in AggIds
    <3>1. /\ \A b \in AggIds \ {reporter} : aggWallet'[b] = aggWallet[b]
          /\ aggWallet'[reporter] = aggWallet[reporter] + bounty
          /\ aggWallet[reporter] \in Nat
      BY <1>5, <2>1 DEF TypeOK
    <3>2. /\ Total(aggWallet) \in Nat /\ Total(aggWallet') \in Nat
          /\ Total(aggWallet') = Total(aggWallet) - aggWallet[reporter] + aggWallet'[reporter]
      BY <2>1, <3>1, WalletsMove
    <3> QED BY <1>3, <1>4, <3>1, <3>2
  <2>2. CASE reporter \notin AggIds
    BY <1>3, <1>4, <1>5, <2>2, EtherIsNat
  <2> QED BY <2>1, <2>2
<1> QED BY <1>3, <1>4, <1>7, <1>8, EtherIsNat, EtherIsNatNext DEF AggregatorEther

\* Every handler of the aggregators, by whose ether it moves.
LEMMA AggregatorNextEther ==
    ASSUME TypeOK, TypeOK', AggregatorNext
    PROVE  AggregatorEther' <= AggregatorEther
<1>1. /\ aggregators \in [AggIds -> AggregatorInfo]
      /\ aggWallet \in [AggIds -> Nat]
  BY DEF TypeOK
<1>2. AggregatorEther \in Int
  BY EtherIsNat DEF AggregatorEther
<1>3. ASSUME NEW a \in AggIds, NEW value \in DEPOSITS, RegisterAggregator(a, value)
      PROVE  AggregatorEther' <= AggregatorEther
  <2> DEFINE deposit == aggregators[a].collateralWei + value
  <2>1. /\ aggregators' = [aggregators EXCEPT ![a].registered = TRUE,
                                              ![a].collateralWei = deposit]
        /\ aggWallet' = [aggWallet EXCEPT ![a] = @ - value]
    BY <1>3 DEF RegisterAggregator
  <2>2. /\ \A b \in AggIds \ {a} : aggregators'[b] = aggregators[b]
        /\ aggregators'[a].collateralWei = deposit
    <3> HIDE DEF deposit
    <3> QED BY <1>1, <2>1 DEF AggregatorInfo
  <2>3. /\ \A b \in AggIds \ {a} : aggWallet'[b] = aggWallet[b]
        /\ aggWallet'[a] = aggWallet[a] - value
    BY <1>1, <2>1
  <2>4. value \in Nat /\ aggregators[a].collateralWei \in Nat /\ aggWallet[a] \in Nat
    BY <1>1, InputAssumption DEF AggregatorInfo
  <2>5. aggregators'[a].collateralWei + aggWallet'[a]
          = aggregators[a].collateralWei + aggWallet[a]
    BY <2>2, <2>3, <2>4
  <2>6. AggregatorEther' = AggregatorEther
    BY <2>2, <2>3, <2>5, OwnMoves
  <2> QED BY <1>2, <2>6
<1>4. ASSUME NEW reporter \in Accounts, ReportAggregatorTimeout(reporter)
      PROVE  AggregatorEther' <= AggregatorEther
  <2>1. AggregatorEther' < AggregatorEther /\ AggregatorEther' \in Int
    BY <1>4, ReportBurns, EtherIsNatNext DEF AggregatorEther
  <2> QED BY <1>2, <2>1
<1>5. ASSUME NEW a \in AggIds, RequestAggregatorWithdraw(a)
      PROVE  AggregatorEther' <= AggregatorEther
  <2>1. /\ \A b \in AggIds \ {a} : aggregators'[b] = aggregators[b]
        /\ aggregators'[a].collateralWei = aggregators[a].collateralWei
        /\ aggWallet' = aggWallet
    BY <1>1, <1>5 DEF RequestAggregatorWithdraw, AggregatorInfo
  <2>2. AggregatorEther' = AggregatorEther
    BY <2>1, OwnMoves
  <2> QED BY <1>2, <2>2
<1>6. ASSUME NEW a \in AggIds, NEW amount \in 0..aggregators[a].collateralWei,
             WithdrawAggregatorCollateral(a, amount)
      PROVE  AggregatorEther' <= AggregatorEther
  <2> DEFINE rest == aggregators[a].collateralWei - amount
  <2>1. /\ aggregators' = [aggregators EXCEPT ![a].collateralWei = rest,
                                              ![a].withdrawRequestedAtEpoch = 0]
        /\ aggWallet' = [aggWallet EXCEPT ![a] = @ + amount]
    BY <1>6 DEF WithdrawAggregatorCollateral
  <2>2. /\ \A b \in AggIds \ {a} : aggregators'[b] = aggregators[b]
        /\ aggregators'[a].collateralWei = rest
    <3> HIDE DEF rest
    <3> QED BY <1>1, <2>1 DEF AggregatorInfo
  <2>3. /\ \A b \in AggIds \ {a} : aggWallet'[b] = aggWallet[b]
        /\ aggWallet'[a] = aggWallet[a] + amount
    BY <1>1, <2>1
  <2>4. amount \in Nat /\ aggregators[a].collateralWei \in Nat /\ aggWallet[a] \in Nat
    BY <1>1 DEF AggregatorInfo
  <2>5. aggregators'[a].collateralWei + aggWallet'[a]
          = aggregators[a].collateralWei + aggWallet[a]
    BY <2>2, <2>3, <2>4
  <2>6. AggregatorEther' = AggregatorEther
    BY <2>2, <2>3, <2>5, OwnMoves
  <2> QED BY <1>2, <2>6
<1> QED BY <1>3, <1>4, <1>5, <1>6 DEF AggregatorNext

\* No other handler touches the ether of aggregators.
LEMMA OtherNextEther ==
    ASSUME TypeOK, ProviderNext \/ DealNext \/ EpochNext \/ Tick
                     \/ (\E value \in DEPOSITS : Receive(value))
    PROVE  AggregatorEther' = AggregatorEther
<1>1. aggregators' = aggregators /\ aggWallet' = aggWallet
  <2>1. CASE ProviderNext
    BY <2>1 DEF ProviderNext, RegisterProvider, RequestCelestiaAddressChange,
       ApplyCelestiaAddressChange, RequestCollateralWithdraw, WithdrawCollateral,
       notDealHandlers, aggVars
  <2>2. CASE DealNext
    <3>1. PICK d \in Deals :
             \/ \E p \in Providers, price \in PRICES, duration \in DURATIONS, fee \in FEES :
                   OpenDeal(d, p, price, duration, fee)
             \/ \E sealed \in BOOLEAN : RegisterSealed(d, sealed)
             \/ Activate(d)
             \/ AbortDeal(d)
             \/ CloseExpiredDeal(d)
      BY <2>2, Zenon DEF DealNext
    <3>2. UNCHANGED notDealHandlers
      BY <3>1 DEF OpenDeal, RegisterSealed, Activate, AbortDeal, CloseExpiredDeal
    <3> QED BY <3>2 DEF notDealHandlers, aggVars
  <2>3. CASE EpochNext
    <3>1. CASE \E submitter \in Accounts : CommitBy(submitter)
      <4>1. PICK submitter \in Accounts, list \in SettlementLists,
                 saturation \in SATURATIONS : CommitEpoch(submitter, list, saturation)
        BY <3>1 DEF CommitBy
      <4> QED BY <4>1 DEF CommitEpoch
    <3>2. CASE \E epoch \in EpochIds : FinalizeEpoch(epoch) \/ VoidEpoch(epoch)
      BY <3>2 DEF FinalizeEpoch, VoidEpoch, aggVars
    <3>3. CASE \E sender \in Providers \cup {Outsider}, epoch \in EpochIds, d \in Deals :
                  ClaimSettlement(sender, epoch, d)
      <4>1. PICK sender \in Providers \cup {Outsider}, epoch \in EpochIds, d \in Deals :
                  ClaimSettlement(sender, epoch, d)
        BY <3>3
      <4> QED BY <4>1 DEF ClaimSettlement, aggVars
    <3> QED BY <2>3, <3>1, <3>2, <3>3, Zenon DEF EpochNext
  <2>4. CASE Tick \/ (\E value \in DEPOSITS : Receive(value))
    BY <2>4 DEF Tick, Receive, aggVars
  <2> QED BY <2>1, <2>2, <2>3, <2>4
<1> QED BY <1>1 DEF AggregatorEther, Deposits, Total, CoinsOf

\* Aggregators together never gain, and each report of a timeout costs them, for
\* any number of aggregators and whatever they deposit.  As what they own is a
\* natural number, they can put off the commits of the chain only so often.
THEOREM TimeoutsAreBurned == Spec => ReportsCostEther
<1> DEFINE Costs == /\ AggregatorEther' <= AggregatorEther
                    /\ (\E reporter \in Accounts : ReportAggregatorTimeout(reporter))
                          => AggregatorEther' < AggregatorEther
<1>1. TypeInv /\ TypeInv' /\ [Next]_vars => [Costs]_vars
  <2> SUFFICES ASSUME TypeInv, TypeInv', Next PROVE Costs
    OBVIOUS
  <2>1. TypeOK /\ TypeOK'
    BY DEF TypeInv
  <2>2. AggregatorEther \in Int
    BY <2>1, EtherIsNat DEF AggregatorEther
  <2>3. AggregatorEther' <= AggregatorEther
    <3>1. CASE AggregatorNext
      BY <2>1, <3>1, AggregatorNextEther
    <3>2. CASE ~AggregatorNext
      <4>1. AggregatorEther' = AggregatorEther
        BY <2>1, <3>2, OtherNextEther DEF Next
      <4> QED BY <2>2, <4>1
    <3> QED BY <3>1, <3>2
  <2>4. ASSUME NEW reporter \in Accounts, ReportAggregatorTimeout(reporter)
        PROVE  AggregatorEther' < AggregatorEther
    BY <2>1, <2>4, ReportBurns
  <2> QED BY <2>3, <2>4
<1> QED BY <1>1, InitTypeInv, NextTypeInv, PTL DEF Spec, ReportsCostEther
=============================================================================
