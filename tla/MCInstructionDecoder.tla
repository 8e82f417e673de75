------------------------ MODULE MCInstructionDecoder ------------------------
(***************************************************************************)
(* Small instances of InstructionDecoder: a byte has four values, and one  *)
(* of the amounts is more than half of the tokens of a new curve.          *)
(***************************************************************************)
EXTENDS InstructionDecoder

MCInitial == [sol |-> 4, tok |-> 10]
=============================================================================
