---------------------------- MODULE PayoutStates ----------------------------
(***************************************************************************)
(* The states of a payout batch and the transition table of                *)
(* payouts/payout-state.ts.  "NONE" stands for a row that does not exist.  *)
(***************************************************************************)

PayoutState == {"PLANNED", "APPROVAL_REQUIRED", "AUTO_APPROVED", "SIGNED",
                "BROADCAST", "CONFIRMED", "FAILED", "CANCELLED"}

RowState == PayoutState \cup {"NONE"}

TRANSITIONS ==
  [PLANNED           |-> {"APPROVAL_REQUIRED", "AUTO_APPROVED", "FAILED", "CANCELLED"},
   APPROVAL_REQUIRED |-> {"AUTO_APPROVED", "FAILED", "CANCELLED"},
   AUTO_APPROVED     |-> {"SIGNED", "FAILED", "CANCELLED"},
   SIGNED            |-> {"BROADCAST", "FAILED"},
   BROADCAST         |-> {"CONFIRMED", "FAILED"},
   CONFIRMED         |-> {},
   FAILED            |-> {"AUTO_APPROVED", "SIGNED", "BROADCAST"},
   CANCELLED         |-> {}]

canTransitionPayout(from, to) == from = to \/ to \in TRANSITIONS[from]

\* The states in which a batch keeps its customers' balances reserved.
OPEN_PAYOUT_STATES == {"PLANNED", "APPROVAL_REQUIRED", "AUTO_APPROVED",
                       "SIGNED", "BROADCAST", "FAILED"}

=============================================================================
