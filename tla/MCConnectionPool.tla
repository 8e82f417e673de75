-------------------------- MODULE MCConnectionPool --------------------------
(***************************************************************************)
(* Instances of ConnectionPool for TLC.  A tick is half a request window;  *)
(* the limits keep what matters of 15, 15 and 1500: a connection with a    *)
(* limit of 6 is near it at 5, one request before it has to cool down.     *)
(***************************************************************************)
EXTENDS ConnectionPool

ThreeLimits == <<2, 6, 3>>
MCRateLimit == [c \in Conns |-> ThreeLimits[c + 1]]
=============================================================================
