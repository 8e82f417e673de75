------------------------ MODULE MCConnectionPoolRate ------------------------
(***************************************************************************)
(* Two connections, the window of two ticks and limits of 3 and 4.         *)
(***************************************************************************)
EXTENDS ConnectionPoolRate

MCRateLimit == [c \in Conns |-> c + 3]
=============================================================================
