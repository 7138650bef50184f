------------------------------- MODULE Schedule -------------------------------
(***************************************************************************)
(* The rest of common/clock.py: from heights back to slots, the blocks of a  *)
(* beacon, the bounds of an epoch, and the inequality the window must meet.  *)
(***************************************************************************)
EXTENDS Clock, FiniteSetsExt

CONSTANT BEACON_MIX_BLOCKS

TimingProfile ==
    [deadline_len_blocks: Nat, deadlines_per_epoch: Nat, submit_window_blocks: Nat,
     beacon_delay_blocks: Nat, beacon_mix_blocks: Nat]

PROFILE_SIM ==
    [deadline_len_blocks |-> 10, deadlines_per_epoch |-> 4, submit_window_blocks |-> 6,
     beacon_delay_blocks |-> 2, beacon_mix_blocks |-> 4]

PROFILE_PRODUCTION ==
    [deadline_len_blocks |-> 300, deadlines_per_epoch |-> 48, submit_window_blocks |-> 200,
     beacon_delay_blocks |-> 5, beacon_mix_blocks |-> 4]

\* A beacon mixes some blocks, of its own deadline's length at most.
ASSUME BeaconAssumption ==
    BEACON_MIX_BLOCKS \in Nat \ {0} /\ BEACON_MIX_BLOCKS <= DEADLINE_LEN_BLOCKS

\* What ClockAssumption and BeaconAssumption ask for holds of both profiles, and
\* the deadline numbers of an epoch stay below the stride.
ASSUME ProfileAssumption ==
    \A profile \in {PROFILE_SIM, PROFILE_PRODUCTION} :
        /\ profile \in TimingProfile
        /\ 0 < profile.beacon_delay_blocks
        /\ profile.beacon_delay_blocks + profile.submit_window_blocks
               <= profile.deadline_len_blocks
        /\ profile.beacon_mix_blocks \in 1..profile.deadline_len_blocks
        /\ profile.deadlines_per_epoch <= DEADLINE_STRIDE

\* Seeded fault: a height is attributed to the slot whose window is over.
SlotIndex_Late(height) == (height - GENESIS_HEIGHT - 1) \div DEADLINE_LEN_BLOCKS

SlotIndex(height) == (height - GENESIS_HEIGHT) \div DEADLINE_LEN_BLOCKS

\* Heights before genesis raise.
slot_of(height) ==
    slot_at(SlotIndex(height) \div DEADLINES_PER_EPOCH,
            SlotIndex(height) % DEADLINES_PER_EPOCH)

\* The blocks a beacon mixes, the last one first.
beacon_heights(slot) == [i \in 1..BEACON_MIX_BLOCKS |-> slot.open_height - (i - 1)]

\* A hash of their data roots, which are those of their heights.
derive_beacon(data_roots) == <<"beacon", data_roots>>
beacon(slot) == derive_beacon(beacon_heights(slot))

\* From where the first deadline opens to where the window of the last closes.
epoch_bounds(epoch) ==
    <<slot_at(epoch, 0).open_height, slot_at(epoch, DEADLINES_PER_EPOCH - 1).window_end>>

\* The deadline of a deal, for life; hash is that of its id.
derive_deadline(hash) == hash % Max({1, DEADLINES_PER_EPOCH})

-----------------------------------------------------------------------------
\* Equation (1), all in seconds: an honest node proves within the window, one
\* that has to regenerate its data first does not.
window_safety_ok(w, t_prove, t_regen) == t_prove <= w /\ w < t_regen + t_prove

window_safety_report(w, t_prove, t_regen) ==
    [left_ok |-> t_prove <= w, right_ok |-> w < t_regen + t_prove,
     t_prove_min_required |-> Max({0, w - t_regen})]

\* How many deadlines a worker rests: one less than its proving time takes,
\* rounded up.
cooldown_deadlines(t_worker, deadline_len) ==
    IF deadline_len <= 0 THEN 0
    ELSE Max({0, (t_worker + deadline_len - 1) \div deadline_len - 1})
=============================================================================
