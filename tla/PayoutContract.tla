--------------------------- MODULE PayoutContract ---------------------------
(***************************************************************************)
(* What the execution of a payout batch promises, without executors, locks *)
(* or retries: a batch gets at most one signed payload, only that payload's *)
(* transactions reach the network, and the ledger is debited once, after   *)
(* all of them did.                                                        *)
(***************************************************************************)
EXTENDS Naturals

CONSTANTS Batches,   \* payout batches
          Payloads,  \* signed payloads the wallet can produce for a batch
          Parts,     \* transactions of one payload
          NoPayload  \* "not signed yet"

VARIABLES signed,    \* signed[b]: the payload batch b is bound to
          relayed,   \* relayed[b]: the (payload, part) pairs the network has
          posted     \* posted[b]: journal transactions posted for batch b

vars == <<signed, relayed, posted>>

Init ==
  /\ signed  = [b \in Batches |-> NoPayload]
  /\ relayed = [b \in Batches |-> {}]
  /\ posted  = [b \in Batches |-> 0]

Sign(b) ==
  /\ signed[b] = NoPayload
  /\ \E p \in Payloads : signed' = [signed EXCEPT ![b] = p]
  /\ UNCHANGED <<relayed, posted>>

Relay(b) ==
  /\ signed[b] \in Payloads
  /\ \E i \in Parts : relayed' = [relayed EXCEPT ![b] = @ \cup {<<signed[b], i>>}]
  /\ UNCHANGED <<signed, posted>>

Post(b) ==
  /\ posted[b] = 0
  /\ signed[b] \in Payloads
  /\ {signed[b]} \X Parts \subseteq relayed[b]
  /\ posted' = [posted EXCEPT ![b] = 1]
  /\ UNCHANGED <<signed, relayed>>

Next == \E b \in Batches : Sign(b) \/ Relay(b) \/ Post(b)

Spec == Init /\ [][Next]_vars

=============================================================================
