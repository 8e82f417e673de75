--------------------------- MODULE MCTokenHolders ---------------------------
(***************************************************************************)
(* An instance of TokenHolders for TLC: a purchase and a sale of the       *)
(* creator and a purchase of somebody else, handled three at a time.       *)
(***************************************************************************)
EXTENDS TokenHolders

MCTrades ==
    {[user |-> "creator", isBuy |-> TRUE, tokenAmount |-> 3],
     [user |-> "creator", isBuy |-> FALSE, tokenAmount |-> 1],
     [user |-> "other", isBuy |-> TRUE, tokenAmount |-> 1]}
=============================================================================
