--------------------------- MODULE MCStreamIngest ---------------------------
(***************************************************************************)
(* Instances of StreamIngest for TLC: two requests.  The first brings two  *)
(* batches, processed at the same time, of which b2 trades what b1         *)
(* creates; the second sends the creation again, with a trade after it and *)
(* another node to ask, and a batch that cannot be processed.              *)
(***************************************************************************)
EXTENDS StreamIngest

Create == [kind |-> "create", mint |-> "m1"]
Trade == [kind |-> "trade", mint |-> "m1"]
Other == [kind |-> "other", mint |-> "m1"]
Bad == [kind |-> "malformed", mint |-> "m1"]

MCRequestOf == [b \in Batches |-> IF b \in {"b1", "b2"} THEN "r1" ELSE "r2"]

MCTx ==
    [b \in Batches |->
        CASE b = "b1" -> <<Create, Other>>
          [] b = "b2" -> <<Other, Trade>>
          [] b = "b3" -> <<Create, Trade>>
          [] OTHER -> <<Trade, Bad>>]
=============================================================================
