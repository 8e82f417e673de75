---------------------- MODULE InstructionDecoderProofs ----------------------
(***************************************************************************)
(* What InstructionDecoder guarantees for any width of a word, reserves,   *)
(* amounts, number of slots and number of retries.                         *)
(***************************************************************************)
EXTENDS InstructionDecoder, TLAPS

\* What the program let through: a curve never runs empty, and nobody buys
\* all the tokens that were left.
Executed ==
    /\ \A n \in 0 .. slot : curve[n].sol # 0 /\ curve[n].tok # 0
    /\ \A n \in 1 .. slot : ix[n].name = "buy" => ix[n].amount < curve[n - 1].tok

\* Only what the chain has is decoded, and a failed read is remembered.
Progress ==
    \A s \in Slots :
        /\ pc[s] # "new" => s <= slot
        /\ pc[s] = "new" => tries[s] = 0
        /\ pc[s] = "read" => tries[s] < MAX_RETRIES
        /\ pc[s] # "done" => event[s] = NoEvent

Inv ==
    /\ TypeOK
    /\ Executed
    /\ Progress
    /\ ReservesAtOrAfterTrade
    /\ PricedOnCurve
    /\ PurchaseLostForCause

-----------------------------------------------------------------------------
(***************************************************************************)
(* Rounding up and rounding down differ by at most one.                    *)
(***************************************************************************)
LEMMA CeilingOfQuotient ==
    ASSUME NEW n \in Nat, NEW d \in Nat \ {0}
    PROVE  ((n + d - 1) \div d) - (n \div d) \in {0, 1}
<1> DEFINE q == n \div d
           c == (n + d - 1) \div d
<1>1. q \in Int /\ c \in Int
  OBVIOUS
<1>2. d * q <= n /\ n < d * (q + 1)
  OBVIOUS
<1>3. d * c <= n + d - 1 /\ n + d - 1 < d * (c + 1)
  OBVIOUS
<1> HIDE DEF q, c
<1>4. q <= c
  BY <1>1, <1>2, <1>3
<1>5. c <= q + 1
  BY <1>1, <1>2, <1>3
<1> QED
  BY <1>1, <1>4, <1>5 DEF q, c

(***************************************************************************)
(* A word has at least one value.                                          *)
(***************************************************************************)
LEMMA WordIsPositive == WORD \in Nat \ {0}
<1>1. ASSUME NEW b \in Nat \ {0} PROVE b * b \in Nat \ {0}
  OBVIOUS
<1>2. BYTE \in Nat \ {0}
  BY DecoderAssumption
<1> QED
  BY <1>1, <1>2 DEF WORD

(***************************************************************************)
(* The numbers in an instruction and in the reserves.                      *)
(***************************************************************************)
LEMMA InstructionsAndReserves ==
    ASSUME NEW i \in Instructions, NEW r \in Reserves
    PROVE  /\ i.amount \in Words \ {0} /\ i.bound \in Words
           /\ r.sol \in Words /\ r.tok \in Words
           /\ \A w \in Words : w \in Nat /\ w < WORD
<1>1. \A w \in Words : w \in Nat /\ w < WORD
  BY WordIsPositive DEF Words
<1>2. i.amount \in Amounts /\ i.bound \in Bounds
  BY DEF Instructions
<1>3. r.sol \in Words /\ r.tok \in Words
  BY DEF Reserves
<1>4. Amounts \subseteq Words \ {0} /\ Bounds \subseteq Words
  BY DecoderAssumption
<1> QED
  BY <1>1, <1>2, <1>3, <1>4

(***************************************************************************)
(* The number read from all the data of an instruction is out of reach of  *)
(* any reserves: its upper word is not zero.                               *)
(***************************************************************************)
LEMMA WholeDataPastReserves ==
    ASSUME NEW i \in Instructions, NEW r \in Reserves
    PROVE  WholeData(i) \in Nat /\ r.tok < WholeData(i)
<1> DEFINE hi == ByteSwap(i.amount)
           lo == ByteSwap(i.bound)
<1>1. BYTE \in Nat \ {0} /\ WORD \in Nat \ {0}
  BY DecoderAssumption, WordIsPositive
<1>2. i.amount \in Nat \ {0} /\ i.bound \in Nat /\ r.tok \in Nat /\ r.tok < WORD
  BY InstructionsAndReserves
<1>3. ASSUME NEW w \in Nat
      PROVE  ByteSwap(w) \in Nat /\ (w # 0 => ByteSwap(w) # 0)
  <2>1. w % BYTE \in Nat /\ w \div BYTE \in Nat /\ w = BYTE * (w \div BYTE) + (w % BYTE)
    BY <1>1
  <2>2. (w % BYTE) * BYTE \in Nat /\ (w % BYTE # 0 => (w % BYTE) * BYTE # 0)
    BY <1>1, <2>1
  <2> QED
    BY <1>1, <2>1, <2>2 DEF ByteSwap
<1>4. hi \in Nat \ {0} /\ lo \in Nat
  BY <1>2, <1>3
<1> HIDE DEF hi, lo
<1>5. hi * WORD \in Nat /\ hi * WORD >= WORD
  BY <1>1, <1>4
<1>6. WholeData(i) = hi * WORD + lo
  BY DEF WholeData, hi, lo
<1> QED
  BY <1>1, <1>2, <1>4, <1>5, <1>6

(***************************************************************************)
(* What decodeInstructionData returns for reserves it has read: nothing,   *)
(* or the event of a purchase, priced at these reserves.                   *)
(***************************************************************************)
LEMMA DecodedIsPurchase ==
    ASSUME NEW i \in Instructions, NEW r \in Reserves
    PROVE  LET e == Decoded(i, r) IN
           /\ e \in {NoEvent} \cup TradeEvents
           /\ e.name = "TradeEvent" =>
                /\ e.reserves = r /\ e.tokenAmount < r.tok
                /\ SolCost(r, e.tokenAmount) - e.solAmount \in {0, 1}
           /\ i.name = "buy" /\ r.sol # 0 /\ r.tok # 0 /\ i.amount < r.tok =>
                e.name = "TradeEvent"
<1> DEFINE e == Decoded(i, r)
<1>1. i.amount \in Words /\ i.amount \in Nat /\ r.sol \in Nat /\ r.tok \in Nat
  BY InstructionsAndReserves
<1>2. WholeData(i) \in Nat /\ r.tok < WholeData(i)
  BY WholeDataPastReserves
<1>3. CASE CanPrice(PricedAmount(i), r)
  <2>1. i.name = "buy" /\ PricedAmount(i) = i.amount /\ i.amount < r.tok
    BY <1>1, <1>2, <1>3 DEF CanPrice, PricedAmount
  <2>2. e = [name |-> "TradeEvent", isBuy |-> TRUE,
             solAmount |-> CalculateSolAmount(i.amount, r),
             tokenAmount |-> i.amount, reserves |-> r]
    BY <1>3, <2>1 DEF Decoded
  <2>3. r.sol * i.amount \in Nat /\ r.tok - i.amount \in Nat \ {0}
    BY <1>1, <2>1
  <2>4. CalculateSolAmount(i.amount, r) \in Nat
    BY <2>3 DEF CalculateSolAmount
  <2>5. SolCost(r, i.amount) = (r.sol * i.amount + (r.tok - i.amount) - 1) \div (r.tok - i.amount)
    BY <1>1, <2>3 DEF SolCost
  <2>6. SolCost(r, i.amount) - CalculateSolAmount(i.amount, r) \in {0, 1}
    BY <2>3, <2>5, CeilingOfQuotient DEF CalculateSolAmount
  <2>7. e \in TradeEvents
    BY <1>1, <2>2, <2>4 DEF TradeEvents
  <2> QED
    BY <2>1, <2>2, <2>6, <2>7
<1>4. CASE ~CanPrice(PricedAmount(i), r)
  <2>1. e = NoEvent /\ e.name # "TradeEvent"
    BY <1>4 DEF Decoded, NoEvent
  <2>2. i.name = "buy" => r.sol = 0 \/ r.tok = 0 \/ ~(i.amount < r.tok)
    BY <1>4 DEF CanPrice, PricedAmount
  <2> QED
    BY <2>1, <2>2
<1> QED
  BY <1>3, <1>4

-----------------------------------------------------------------------------
(***************************************************************************)
(* The invariant holds before the first instruction.                       *)
(***************************************************************************)
LEMMA InitInv == Init => Inv
<1> SUFFICES ASSUME Init PROVE Inv
  OBVIOUS
<1> USE DEF Init
<1>1. TypeOK
  <2>1. Initial \in Reserves /\ 0 \in 0 .. MaxSlot /\ 0 \in 0 .. MAX_RETRIES
    BY DecoderAssumption
  <2> QED
    BY <2>1 DEF TypeOK
<1>2. Executed
  BY DecoderAssumption DEF Executed
<1>3. Progress
  BY DecoderAssumption DEF Progress
<1>4. ReservesAtOrAfterTrade /\ PricedOnCurve /\ PurchaseLostForCause
  BY DEF ReservesAtOrAfterTrade, PricedOnCurve, PurchaseLostForCause, IsTrade, NoEvent
<1> QED
  BY <1>1, <1>2, <1>3, <1>4 DEF Inv

(***************************************************************************)
(* The chain goes on: the slots it had keep their reserves.                *)
(***************************************************************************)
LEMMA ExecuteKeepsInv == Inv /\ Execute => Inv'
<1> SUFFICES ASSUME Inv, Execute PROVE Inv'
  OBVIOUS
<1> DEFINE i == ix[slot + 1]
           r == curve[slot]
<1>1. TypeOK
  BY DEF Inv
<1>2. /\ slot \in Nat /\ MaxSlot \in Nat /\ slot < MaxSlot /\ slot' = slot + 1
      /\ UNCHANGED <<ix, pc, tries, event>>
  BY <1>1, DecoderAssumption DEF TypeOK, Execute
<1>3. i \in Instructions /\ r \in Reserves
  BY <1>1, <1>2 DEF TypeOK, Slots
<1>4. Accepts(i, r) /\ curve' = [curve EXCEPT ![slot + 1] = Traded(i, r)]
  BY DEF Execute
<1>5. Traded(i, r) \in Reserves /\ Traded(i, r).sol # 0
  BY <1>4 DEF Accepts
<1>6. \A n \in 0 .. slot : curve'[n] = curve[n]
  BY <1>1, <1>2, <1>4 DEF TypeOK
<1>7. curve'[slot + 1] = Traded(i, r)
  BY <1>1, <1>2, <1>4 DEF TypeOK
<1>8. r.sol # 0 /\ r.tok # 0
  BY <1>2 DEF Inv, Executed
<1>9. i.name = "buy" => i.amount < r.tok
  BY <1>4 DEF Accepts
<1>10. Traded(i, r).tok # 0
  <2>1. i.amount \in Nat \ {0} /\ r.tok \in Nat
    BY <1>3, InstructionsAndReserves
  <2>2. CASE i.name = "buy"
    <3>1. Traded(i, r).tok = r.tok - i.amount
      BY <2>2 DEF Traded
    <3> QED
      BY <3>1, <2>1, <1>9, <2>2
  <2>3. CASE i.name = "sell"
    <3>1. Traded(i, r).tok = r.tok + i.amount
      BY <2>3 DEF Traded
    <3> QED
      BY <3>1, <2>1
  <2>4. CASE i.name # "buy" /\ i.name # "sell"
    BY <2>4, <1>8 DEF Traded
  <2> QED
    BY <2>2, <2>3, <2>4
<1> HIDE DEF i, r
<1>11. TypeOK'
  BY <1>1, <1>2, <1>4, <1>5 DEF TypeOK
<1>12. Executed'
  <2>1. ASSUME NEW n \in 0 .. slot' PROVE curve'[n].sol # 0 /\ curve'[n].tok # 0
    <3>1. CASE n \in 0 .. slot
      BY <3>1, <1>6 DEF Inv, Executed
    <3>2. CASE n = slot + 1
      BY <3>2, <1>5, <1>7, <1>10
    <3> QED
      BY <1>2, <3>1, <3>2
  <2>2. ASSUME NEW n \in 1 .. slot', ix'[n].name = "buy" PROVE ix'[n].amount < curve'[n - 1].tok
    <3>1. CASE n \in 1 .. slot
      <4>1. n - 1 \in 0 .. slot
        BY <1>2, <3>1
      <4>2. ix[n].amount < curve[n - 1].tok
        BY <1>2, <2>2, <3>1 DEF Inv, Executed
      <4> QED
        BY <1>2, <1>6, <4>1, <4>2
    <3>2. CASE n = slot + 1
      <4>1. n - 1 = slot /\ curve'[n - 1] = r /\ ix'[n] = i
        BY <1>2, <1>6, <3>2 DEF i, r
      <4> QED
        BY <4>1, <2>2, <1>9
    <3> QED
      BY <1>2, <3>1, <3>2
  <2> QED
    BY <2>1, <2>2 DEF Executed
<1>13. Progress'
  BY <1>2 DEF Inv, Progress, Slots
<1>14. ReservesAtOrAfterTrade'
  <2> SUFFICES ASSUME NEW s \in Slots, IsTrade(s)'
               PROVE  \E n \in (s - 1) .. slot' : event'[s].reserves = curve'[n]
    BY DEF ReservesAtOrAfterTrade
  <2>1. PICK n \in (s - 1) .. slot : event[s].reserves = curve[n]
    BY <1>2 DEF Inv, ReservesAtOrAfterTrade, IsTrade
  <2>2. n \in 0 .. slot /\ n \in (s - 1) .. slot'
    BY <1>2, <2>1 DEF Slots
  <2> QED
    BY <1>2, <1>6, <2>1, <2>2
<1>15. PricedOnCurve'
  BY <1>2 DEF Inv, PricedOnCurve, IsTrade
<1>16. PurchaseLostForCause'
  <2> SUFFICES ASSUME NEW s \in Slots, pc'[s] = "done", ix'[s].name = "buy", ~IsTrade(s)',
                      ~(tries'[s] > 0)
               PROVE  \E n \in s .. slot' : curve'[n].tok <= ix'[s].amount
    BY DEF PurchaseLostForCause
  <2>1. PICK n \in s .. slot : curve[n].tok <= ix[s].amount
    BY <1>2 DEF Inv, PurchaseLostForCause, IsTrade
  <2>2. n \in 0 .. slot /\ n \in s .. slot'
    BY <1>2, <2>1 DEF Slots
  <2> QED
    BY <1>2, <1>6, <2>1, <2>2
<1> QED
  BY <1>11, <1>12, <1>13, <1>14, <1>15, <1>16 DEF Inv

(***************************************************************************)
(* What a decoding returns keeps the invariant when it is a purchase at    *)
(* reserves of the curve, or when there is a cause for its loss.           *)
(***************************************************************************)
LEMMA FinishKeepsInv ==
    ASSUME Inv, NEW s \in Slots, NEW e, s <= slot, Finish(s, e), UNCHANGED chain,
           tries' \in [Slots -> 0 .. MAX_RETRIES],
           \A t \in Slots : tries'[t] >= tries[t],
           \A t \in Slots \ {s} : tries'[t] = tries[t],
           e \in {NoEvent, CreateEvent} \cup TradeEvents,
           e.name = "TradeEvent" =>
             /\ \E n \in (s - 1) .. slot : e.reserves = curve[n]
             /\ e.tokenAmount < e.reserves.tok
             /\ SolCost(e.reserves, e.tokenAmount) - e.solAmount \in {0, 1},
           ix[s].name = "buy" /\ e.name # "TradeEvent" =>
             tries'[s] > 0 \/ \E n \in s .. slot : curve[n].tok <= ix[s].amount
    PROVE  Inv'
<1>1. TypeOK
  BY DEF Inv
<1>2. /\ event' = [event EXCEPT ![s] = e] /\ event'[s] = e
      /\ pc' = [pc EXCEPT ![s] = "done"] /\ pc'[s] = "done"
      /\ \A t \in Slots \ {s} : event'[t] = event[t] /\ pc'[t] = pc[t]
      /\ slot' = slot /\ curve' = curve /\ ix' = ix
  BY <1>1 DEF TypeOK, Finish, chain
<1>3. TypeOK'
  BY <1>1, <1>2 DEF TypeOK
<1>4. Executed'
  BY <1>2 DEF Inv, Executed
<1>5. Progress'
  BY <1>2 DEF Inv, Progress
<1>6. ReservesAtOrAfterTrade'
  <2> SUFFICES ASSUME NEW t \in Slots, IsTrade(t)'
               PROVE  \E n \in (t - 1) .. slot : event'[t].reserves = curve[n]
    BY <1>2 DEF ReservesAtOrAfterTrade
  <2>1. CASE t = s
    BY <1>2, <2>1 DEF IsTrade
  <2>2. CASE t # s
    BY <1>2, <2>2 DEF IsTrade, Inv, ReservesAtOrAfterTrade
  <2> QED
    BY <2>1, <2>2
<1>7. PricedOnCurve'
  <2> SUFFICES ASSUME NEW t \in Slots, IsTrade(t)'
               PROVE  LET f == event'[t] IN
                      /\ f.tokenAmount < f.reserves.tok
                      /\ SolCost(f.reserves, f.tokenAmount) - f.solAmount \in {0, 1}
    BY DEF PricedOnCurve
  <2>1. CASE t = s
    BY <1>2, <2>1 DEF IsTrade
  <2>2. CASE t # s
    BY <1>2, <2>2 DEF IsTrade, Inv, PricedOnCurve
  <2> QED
    BY <2>1, <2>2
<1>8. PurchaseLostForCause'
  <2> SUFFICES ASSUME NEW t \in Slots, pc'[t] = "done", ix[t].name = "buy", ~IsTrade(t)'
               PROVE  tries'[t] > 0 \/ \E n \in t .. slot : curve[n].tok <= ix[t].amount
    BY <1>2 DEF PurchaseLostForCause
  <2>1. CASE t = s
    BY <1>2, <2>1 DEF IsTrade
  <2>2. CASE t # s
    BY <1>2, <2>2 DEF IsTrade, Inv, PurchaseLostForCause
  <2> QED
    BY <2>1, <2>2
<1> QED
  BY <1>3, <1>4, <1>5, <1>6, <1>7, <1>8 DEF Inv

(***************************************************************************)
(* The instruction is recognised.                                          *)
(***************************************************************************)
LEMMA StartKeepsInv == ASSUME Inv, NEW s \in Slots, Start(s) PROVE Inv'
<1>1. TypeOK /\ tries' = tries /\ UNCHANGED chain
  BY DEF Inv, Start
<1>2. CASE ix[s].name \in {"buy", "sell"} /\ pc' = [pc EXCEPT ![s] = "read"] /\ UNCHANGED event
  <2>1. /\ pc'[s] = "read" /\ \A t \in Slots \ {s} : pc'[t] = pc[t]
        /\ slot' = slot /\ curve' = curve /\ ix' = ix /\ event' = event
    BY <1>1, <1>2 DEF TypeOK, chain
  <2>2. TypeOK'
    BY <1>1, <1>2, <2>1 DEF TypeOK
  <2>3. Progress'
    <3>1. tries[s] = 0 /\ event[s] = NoEvent /\ s <= slot
      BY DEF Inv, Progress, Start
    <3> QED
      BY <1>1, <2>1, <3>1, DecoderAssumption DEF Inv, Progress
  <2>4. Executed' /\ ReservesAtOrAfterTrade' /\ PricedOnCurve'
    BY <2>1 DEF Inv, Executed, ReservesAtOrAfterTrade, PricedOnCurve, IsTrade
  <2>5. PurchaseLostForCause'
    BY <1>1, <2>1 DEF Inv, PurchaseLostForCause, IsTrade
  <2> QED
    BY <2>2, <2>3, <2>4, <2>5 DEF Inv
<1>3. ASSUME NEW e \in {NoEvent, CreateEvent}, ix[s].name # "buy", Finish(s, e) PROVE Inv'
  <2>1. e.name # "TradeEvent"
    BY <1>3 DEF NoEvent, CreateEvent
  <2>2. s <= slot /\ tries' \in [Slots -> 0 .. MAX_RETRIES] /\ \A t \in Slots : tries'[t] >= tries[t]
    BY <1>1 DEF Start, TypeOK
  <2> QED
    BY <1>1, <1>3, <2>1, <2>2, FinishKeepsInv
<1> QED
  BY <1>2, <1>3 DEF Start

(***************************************************************************)
(* A node answers.                                                         *)
(***************************************************************************)
LEMMA ReadKeepsInv ==
    ASSUME Inv, NEW s \in Slots, GetBondingCurveStateAtSlot(s) PROVE Inv'
<1>1. TypeOK /\ tries' = tries /\ UNCHANGED chain
  BY DEF Inv, GetBondingCurveStateAtSlot
<1>2. s <= slot /\ s \in Nat /\ s >= 1 /\ slot \in Nat /\ slot <= MaxSlot /\ MaxSlot \in Nat
  BY <1>1, DecoderAssumption DEF Inv, Progress, GetBondingCurveStateAtSlot, Slots, TypeOK
<1>3. PICK n \in (s - 1) .. slot : Finish(s, Decoded(ix[s], curve[n]))
  BY DEF GetBondingCurveStateAtSlot, MinContextSlot
<1> DEFINE i == ix[s]
           r == curve[n]
           e == Decoded(i, r)
<1>4. n \in 0 .. slot /\ n \in 0 .. MaxSlot
  BY <1>2
<1>5. i \in Instructions /\ r \in Reserves
  BY <1>1, <1>4 DEF TypeOK
<1>6. /\ e \in {NoEvent} \cup TradeEvents
      /\ e.name = "TradeEvent" =>
           /\ e.reserves = r /\ e.tokenAmount < r.tok
           /\ SolCost(r, e.tokenAmount) - e.solAmount \in {0, 1}
      /\ i.name = "buy" /\ r.sol # 0 /\ r.tok # 0 /\ i.amount < r.tok => e.name = "TradeEvent"
  BY <1>5, DecodedIsPurchase
<1>7. i.name = "buy" /\ e.name # "TradeEvent" => \E k \in s .. slot : curve[k].tok <= ix[s].amount
  <2> SUFFICES ASSUME i.name = "buy", e.name # "TradeEvent"
               PROVE  n \in s .. slot /\ r.tok <= i.amount
    OBVIOUS
  <2>1. r.sol # 0 /\ r.tok # 0
    BY <1>4 DEF Inv, Executed
  <2>2. ~(i.amount < r.tok)
    BY <1>6, <2>1
  <2>3. i.amount < curve[s - 1].tok
    BY <1>2 DEF Inv, Executed
  <2>4. n # s - 1
    BY <2>2, <2>3
  <2>5. i.amount \in Nat /\ r.tok \in Nat
    BY <1>5, InstructionsAndReserves
  <2> QED
    BY <1>2, <2>2, <2>4, <2>5
<1> HIDE DEF i, r, e
<1>8. e.name = "TradeEvent" =>
        /\ \E k \in (s - 1) .. slot : e.reserves = curve[k]
        /\ e.tokenAmount < e.reserves.tok
        /\ SolCost(e.reserves, e.tokenAmount) - e.solAmount \in {0, 1}
  BY <1>6 DEF r
<1>9. Finish(s, e) /\ i = ix[s]
  BY <1>3 DEF e, i, r
<1>10. tries' \in [Slots -> 0 .. MAX_RETRIES] /\ \A t \in Slots : tries'[t] >= tries[t]
  BY <1>1 DEF TypeOK
<1> QED
  BY <1>1, <1>2, <1>6, <1>7, <1>8, <1>9, <1>10, FinishKeepsInv

(***************************************************************************)
(* A read fails: it is tried again, or the instruction is given up.        *)
(***************************************************************************)
LEMMA FailureKeepsInv == ASSUME Inv, NEW s \in Slots, ReadFails(s) PROVE Inv'
<1>1. TypeOK /\ UNCHANGED chain /\ pc[s] = "read" /\ s <= slot
  BY DEF Inv, ReadFails, Progress
<1>2. tries[s] \in Nat /\ tries[s] < MAX_RETRIES /\ MAX_RETRIES \in Nat
  BY <1>1, DecoderAssumption DEF Inv, Progress, TypeOK
<1>3. /\ tries' \in [Slots -> 0 .. MAX_RETRIES] /\ tries'[s] = tries[s] + 1
      /\ \A t \in Slots \ {s} : tries'[t] = tries[t]
      /\ \A t \in Slots : tries'[t] >= tries[t]
  BY <1>1, <1>2 DEF ReadFails, NextTry, TypeOK
<1>4. CASE RetriesLeft(NextTry(tries[s])) /\ UNCHANGED <<pc, event>>
  <2>1. /\ slot' = slot /\ curve' = curve /\ ix' = ix /\ pc' = pc /\ event' = event
        /\ tries'[s] < MAX_RETRIES
    BY <1>1, <1>3, <1>4 DEF chain, RetriesLeft, NextTry
  <2>2. TypeOK'
    BY <1>1, <1>3, <2>1 DEF TypeOK
  <2>3. Progress'
    BY <1>1, <1>3, <2>1 DEF Inv, Progress
  <2>4. Executed' /\ ReservesAtOrAfterTrade' /\ PricedOnCurve'
    BY <2>1 DEF Inv, Executed, ReservesAtOrAfterTrade, PricedOnCurve, IsTrade
  <2>5. PurchaseLostForCause'
    <3> SUFFICES ASSUME NEW t \in Slots, pc[t] = "done", ix[t].name = "buy", ~IsTrade(t)
                 PROVE  tries'[t] > 0 \/ \E n \in t .. slot : curve[n].tok <= ix[t].amount
      BY <2>1 DEF PurchaseLostForCause, IsTrade
    <3>1. t # s
      BY <1>1
    <3> QED
      BY <1>3, <3>1 DEF Inv, PurchaseLostForCause
  <2> QED
    BY <2>2, <2>3, <2>4, <2>5 DEF Inv
<1>5. ASSUME Finish(s, NoEvent) PROVE Inv'
  <2>1. NoEvent.name # "TradeEvent" /\ tries'[s] > 0
    BY <1>2, <1>3 DEF NoEvent
  <2> QED
    BY <1>1, <1>3, <1>5, <2>1, FinishKeepsInv
<1>6. Decoded(ix[s], [sol |-> 0, tok |-> 0]) = NoEvent
  BY DEF Decoded, CanPrice
<1> QED
  BY <1>4, <1>5, <1>6 DEF ReadFails

-----------------------------------------------------------------------------
(***************************************************************************)
(* Every step keeps the invariant.                                         *)
(***************************************************************************)
LEMMA NextInv == Inv /\ [Next]_vars => Inv'
<1> SUFFICES ASSUME Inv, [Next]_vars PROVE Inv'
  OBVIOUS
<1>1. CASE Execute
  BY <1>1, ExecuteKeepsInv
<1>2. ASSUME NEW s \in Slots, Decode(s) PROVE Inv'
  BY <1>2, StartKeepsInv, ReadKeepsInv, FailureKeepsInv DEF Decode
<1>3. CASE UNCHANGED vars
  BY <1>3 DEF vars, chain, Inv, TypeOK, Executed, Progress, ReservesAtOrAfterTrade,
              PricedOnCurve, PurchaseLostForCause, IsTrade
<1> QED
  BY <1>1, <1>2, <1>3 DEF Next

(***************************************************************************)
(* The inductive invariant holds of every behaviour.                       *)
(***************************************************************************)
THEOREM DecoderInvariant == Spec => []Inv
  BY InitInv, NextInv, PTL DEF Spec

(***************************************************************************)
(* The decoder's variables keep their types.                               *)
(***************************************************************************)
THEOREM TypeCorrect == Spec => []TypeOK
<1>1. Inv => TypeOK
  BY DEF Inv
<1> QED
  BY <1>1, DecoderInvariant, PTL

(***************************************************************************)
(* Whatever the nodes answer and however often they fail, the reserves     *)
(* stored with a trade are the curve's at one slot at or after the one the *)
(* trade found.                                                            *)
(***************************************************************************)
THEOREM ReservesAreCurrent == Spec => []ReservesAtOrAfterTrade
<1>1. Inv => ReservesAtOrAfterTrade
  BY DEF Inv
<1> QED
  BY <1>1, DecoderInvariant, PTL

(***************************************************************************)
(* For any reserves and amounts, the SOL computed for a trade is within    *)
(* one lamport of what the program charges at the reserves stored with it. *)
(***************************************************************************)
THEOREM PricesAreOnCurve == Spec => []PricedOnCurve
<1>1. Inv => PricedOnCurve
  BY DEF Inv
<1> QED
  BY <1>1, DecoderInvariant, PTL

(***************************************************************************)
(* A purchase is never lost without a failed read or a curve that has      *)
(* since been bought empty down to its amount.                             *)
(***************************************************************************)
THEOREM PurchasesAreDecoded == Spec => []PurchaseLostForCause
<1>1. Inv => PurchaseLostForCause
  BY DEF Inv
<1> QED
  BY <1>1, DecoderInvariant, PTL
=============================================================================
