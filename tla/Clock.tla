-------------------------------- MODULE Clock --------------------------------
(***************************************************************************)
(* The schedule of deadlines as a function of the height of the data        *)
(* availability chain (common/clock.py).  Nothing else tells the time.      *)
(***************************************************************************)
EXTENDS Integers

CONSTANTS
    GENESIS_HEIGHT,
    DEADLINE_LEN_BLOCKS, DEADLINES_PER_EPOCH,
    BEACON_DELAY_BLOCKS, SUBMIT_WINDOW_BLOCKS,
    DEADLINE_STRIDE      \* 1_000_000 in Slot.absolute_deadline

\* Both profiles of constants.py leave room for the window in its deadline, and
\* open it after the block the beacon comes from.
ASSUME ClockAssumption ==
    /\ {GENESIS_HEIGHT, DEADLINE_STRIDE} \subseteq Nat
    /\ {DEADLINE_LEN_BLOCKS, DEADLINES_PER_EPOCH, BEACON_DELAY_BLOCKS,
        SUBMIT_WINDOW_BLOCKS} \subseteq Nat \ {0}
    /\ BEACON_DELAY_BLOCKS + SUBMIT_WINDOW_BLOCKS <= DEADLINE_LEN_BLOCKS
    /\ DEADLINES_PER_EPOCH <= DEADLINE_STRIDE

DeadlineIdxs == 0..(DEADLINES_PER_EPOCH - 1)

\* The n-th deadline since genesis opens at h_d; its window is half open.
SlotNumber(epoch, d) == epoch * DEADLINES_PER_EPOCH + d
OpenHeight(n) == GENESIS_HEIGHT + n * DEADLINE_LEN_BLOCKS

slot_at(epoch, d) ==
    LET h == OpenHeight(SlotNumber(epoch, d))
        start == h + BEACON_DELAY_BLOCKS
    IN  [epoch |-> epoch, deadline_idx |-> d, open_height |-> h,
         window_start |-> start, window_end |-> start + SUBMIT_WINDOW_BLOCKS]

absolute_deadline(slot) == slot.epoch * DEADLINE_STRIDE + slot.deadline_idx

in_submit_window(slot, height) ==
    slot.window_start <= height /\ height < slot.window_end
=============================================================================
