------------------------- MODULE InstructionDecoder -------------------------
(***************************************************************************)
(* decodeInstructionData: the fallback for a streamed transaction without  *)
(* a "Program data:" log.  The event is rebuilt from the instruction and   *)
(* from the reserves of the bonding curve, which are read while the curve  *)
(* goes on trading.                                                        *)
(*                                                                         *)
(* One curve, one instruction per slot: curve[s] are the reserves at the   *)
(* end of slot s, ix[s] the instruction executed in it.  The nodes asked   *)
(* have reached different slots.  A word (u64) is two bytes wide.          *)
(***************************************************************************)
EXTENDS Integers

CONSTANTS
    BYTE,          \* values of a byte
    MaxSlot,       \* bound on the slots
    MAX_RETRIES,
    Initial,       \* the reserves of a new curve
    Amounts,       \* the words sent as the amount of an instruction
    Bounds         \* and as maxSolCost or minSolOutput

Slots == 1 .. MaxSlot
WORD == BYTE * BYTE
Words == 0 .. WORD - 1
Reserves == [sol : Words, tok : Words]
Instructions == [name : {"buy", "sell", "create", "other"}, amount : Amounts, bound : Bounds]

\* The program refuses to trade nothing.
ASSUME DecoderAssumption ==
    /\ BYTE \in Nat \ {0, 1} /\ MaxSlot \in Nat /\ MAX_RETRIES \in Nat \ {0}
    /\ Initial \in Reserves /\ Initial.sol # 0 /\ Initial.tok # 0
    /\ Amounts \subseteq Words \ {0} /\ Bounds \subseteq Words

VARIABLES
    slot, curve, ix,    \* the chain
    pc, tries,          \* the decoding of the instruction of each slot
    event               \* what it returned

chain == <<slot, curve, ix>>
vars == <<chain, pc, tries, event>>

NoEvent == [name |-> "none"]
CreateEvent == [name |-> "CreateEvent"]
TradeEvents == [name : {"TradeEvent"}, isBuy : BOOLEAN, solAmount : Nat, tokenAmount : Words,
                reserves : Reserves]

Init ==
    /\ slot = 0
    /\ curve = [s \in 0 .. MaxSlot |-> Initial]
    /\ ix \in [Slots -> Instructions]
    /\ pc = [s \in Slots |-> "new"]
    /\ tries = [s \in Slots |-> 0]
    /\ event = [s \in Slots |-> NoEvent]

-----------------------------------------------------------------------------
(***************************************************************************)
(* The program on the chain.  A buyer pays the least that does not let the *)
(* product of the reserves fall, a seller receives the most.               *)
(***************************************************************************)
SolCost(r, a) == (r.sol * a + r.tok - a - 1) \div (r.tok - a)
SolOutput(r, a) == (r.sol * a) \div (r.tok + a)

\* The reserves after a trade, and whether the program executes it.
Traded(i, r) ==
    IF i.name = "buy" THEN [sol |-> r.sol + SolCost(r, i.amount), tok |-> r.tok - i.amount]
    ELSE IF i.name = "sell" THEN [sol |-> r.sol - SolOutput(r, i.amount), tok |-> r.tok + i.amount]
    ELSE r

Accepts(i, r) ==
    /\ i.name = "buy" => i.amount < r.tok /\ SolCost(r, i.amount) <= i.bound
    /\ i.name = "sell" => SolOutput(r, i.amount) >= i.bound
    /\ Traded(i, r) \in Reserves /\ Traded(i, r).sol # 0

Execute ==
    /\ slot < MaxSlot
    /\ Accepts(ix[slot + 1], curve[slot])
    /\ slot' = slot + 1
    /\ curve' = [curve EXCEPT ![slot + 1] = Traded(ix[slot + 1], curve[slot])]
    /\ UNCHANGED <<ix, pc, tries, event>>

-----------------------------------------------------------------------------
\* new BN(decoded.data): the two words, written little-endian, are read as one
\* big-endian number.
ByteSwap(w) == (w % BYTE) * BYTE + w \div BYTE
WholeData(i) == ByteSwap(i.amount) * WORD + ByteSwap(i.bound)

\* Mutant: every trade is priced as a sell is.
PricesWholeData(i) == WholeData(i)

\* The amount of tokens handed to calculateSolAmount.
PricedAmount(i) == IF i.name = "buy" THEN i.amount ELSE WholeData(i)

\* Mutant: the price of a sale.
PriceOfSale(t, r) == (r.sol * t) \div (r.tok + t)

\* calculateSolAmount, and when it throws
CalculateSolAmount(t, r) == (r.sol * t) \div (r.tok - t)
CanPrice(t, r) == r.sol # 0 /\ r.tok # 0 /\ t < r.tok

\* createTradeEvent, or null from the catch block.
Decoded(i, r) ==
    IF CanPrice(PricedAmount(i), r)
    THEN [name |-> "TradeEvent", isBuy |-> i.name = "buy",
          solAmount |-> CalculateSolAmount(PricedAmount(i), r),
          tokenAmount |-> i.amount, reserves |-> r]
    ELSE NoEvent

Finish(s, e) ==
    /\ pc' = [pc EXCEPT ![s] = "done"]
    /\ event' = [event EXCEPT ![s] = e]

\* The discriminator says which instruction it is; a trade needs the reserves.
Start(s) ==
    /\ pc[s] = "new" /\ s <= slot
    /\ \/ /\ ix[s].name \in {"buy", "sell"}
          /\ pc' = [pc EXCEPT ![s] = "read"]
          /\ UNCHANGED event
       \/ ix[s].name = "create" /\ Finish(s, CreateEvent)
       \/ ix[s].name = "other" /\ Finish(s, NoEvent)
    /\ UNCHANGED <<chain, tries>>

\* Mutant: no minContextSlot.
AnySlot(s) == 0
MinContextSlot(s) == s - 1

\* A node that has reached slot n answers with its own reserves.
GetBondingCurveStateAtSlot(s) ==
    /\ pc[s] = "read"
    /\ \E n \in MinContextSlot(s) .. slot : Finish(s, Decoded(ix[s], curve[n]))
    /\ UNCHANGED <<chain, tries>>

\* Mutant: the counter starts again instead of reaching its limit.
TriesAgain(n) == (n + 1) % MAX_RETRIES
NextTry(n) == n + 1

\* Mutant: one attempt too many.
RetriesLeftOrNone(n) == n <= MAX_RETRIES
RetriesLeft(n) == n < MAX_RETRIES

\* The node lags behind, lacks the account or cannot be reached.  After the last
\* attempt the reserves are taken to be zero; updateConnection may throw at any.
ReadFails(s) ==
    /\ pc[s] = "read"
    /\ tries' = [tries EXCEPT ![s] = NextTry(@)]
    /\ \/ RetriesLeft(NextTry(tries[s])) /\ UNCHANGED <<pc, event>>
       \/ ~RetriesLeft(NextTry(tries[s])) /\ Finish(s, Decoded(ix[s], [sol |-> 0, tok |-> 0]))
       \/ Finish(s, NoEvent)
    /\ UNCHANGED chain

Decode(s) == Start(s) \/ GetBondingCurveStateAtSlot(s) \/ ReadFails(s)

Next == Execute \/ \E s \in Slots : Decode(s)

Spec == Init /\ [][Next]_vars

\* Every RPC call is answered or rejected, and the process goes on.
FairSpec == Spec /\ \A s \in Slots : WF_vars(Decode(s))

-----------------------------------------------------------------------------
IsTrade(s) == event[s].name = "TradeEvent"

TypeOK ==
    /\ slot \in 0 .. MaxSlot
    /\ curve \in [0 .. MaxSlot -> Reserves]
    /\ ix \in [Slots -> Instructions]
    /\ pc \in [Slots -> {"new", "read", "done"}]
    /\ tries \in [Slots -> 0 .. MAX_RETRIES]
    /\ event \in [Slots -> {NoEvent, CreateEvent} \cup TradeEvents]

(***************************************************************************)
(* The reserves stored with a trade are those the curve really had at one  *)
(* slot, not before the one the trade found and not after the present      *)
(* (getBondingCurveStateAtSlot, whatever node answered after whatever      *)
(* failures).                                                              *)
(***************************************************************************)
ReservesAtOrAfterTrade ==
    \A s \in Slots : IsTrade(s) => \E n \in (s - 1) .. slot : event[s].reserves = curve[n]

(***************************************************************************)
(* The amount of SOL computed for a trade is what the program would charge *)
(* for its tokens at the reserves stored with it, or one lamport less      *)
(* (calculateSolAmount rounds down, the program up).                       *)
(***************************************************************************)
PricedOnCurve ==
    \A s \in Slots : IsTrade(s) =>
        /\ event[s].tokenAmount < event[s].reserves.tok
        /\ SolCost(event[s].reserves, event[s].tokenAmount) - event[s].solAmount \in {0, 1}

(***************************************************************************)
(* A purchase is lost only if a read failed or the curve has since come to *)
(* hold no more tokens than were bought (decodeInstructionData's catch     *)
(* returns null, and processTransaction reports success).                  *)
(***************************************************************************)
PurchaseLostForCause ==
    \A s \in Slots :
        pc[s] = "done" /\ ix[s].name = "buy" /\ ~IsTrade(s) =>
            tries[s] > 0 \/ \E n \in s .. slot : curve[n].tok <= ix[s].amount

(***************************************************************************)
(* Every decoding ends, whatever fails (the retries of                     *)
(* getBondingCurveStateAtSlot are bounded).                                *)
(***************************************************************************)
DecodingEnds == \A s \in Slots : pc[s] = "read" ~> pc[s] = "done"

(***************************************************************************)
(* A sale that the reserves cover, and for which no read failed, is        *)
(* decoded too (the "sell" case of decodeInstructionData).                 *)
(***************************************************************************)
SalesAreDecoded ==
    \A s \in Slots :
        /\ pc[s] = "done" /\ ix[s].name = "sell" /\ tries[s] = 0
        /\ \A n \in (s - 1) .. slot : ix[s].amount < curve[n].tok
        => IsTrade(s)
=============================================================================
