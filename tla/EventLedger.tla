----------------------------- MODULE EventLedger -----------------------------
(***************************************************************************)
(* What the ingestion promises of the database, and nothing of how: each   *)
(* delivery of an event may be stored and its trade counted, one document  *)
(* at a time, in an order that keeps create_events, trade_events and       *)
(* token_holders consistent with one another.  No document is ever         *)
(* removed, whatever fails, retries or dies.                               *)
(***************************************************************************)
EXTENDS Naturals

CONSTANTS
    Deliveries,   \* every delivery of a transaction, repeated ones included
    Event,        \* Event[d]: the kind and the mint of what was delivered
    Limit         \* how often one delivery may be stored

VARIABLES
    stored,       \* documents inserted for a delivery
    counted       \* $inc of token_holders for a delivery

Init ==
    /\ stored = [d \in Deliveries |-> 0]
    /\ counted = [d \in Deliveries |-> 0]

Known(m) ==
    \E d \in Deliveries : Event[d] = [kind |-> "create", mint |-> m] /\ stored[d] > 0

\* create_events has no precondition, trade_events needs the token.
Storable(d) ==
    \/ Event[d].kind = "create"
    \/ Event[d].kind = "trade" /\ Known(Event[d].mint)

StoreEvent(d) ==
    /\ Storable(d) /\ stored[d] < Limit
    /\ stored' = [stored EXCEPT ![d] = @ + 1]
    /\ UNCHANGED counted

\* Only a trade that is in trade_events moves a balance, and no more often.
CountTrade(d) ==
    /\ Event[d].kind = "trade" /\ counted[d] < stored[d]
    /\ counted' = [counted EXCEPT ![d] = @ + 1]
    /\ UNCHANGED stored

Next == \E d \in Deliveries : StoreEvent(d) \/ CountTrade(d)

Spec == Init /\ [][Next]_<<stored, counted>>
=============================================================================
