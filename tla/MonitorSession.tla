--------------------------- MODULE MonitorSession ---------------------------
(***************************************************************************)
(* Monitoring as the caller of the service sees it: a session that POST    *)
(* start opens, POST stop closes, and log handlers reopen.  A process that *)
(* dies leaves a session deaf: reported as on, with nothing that listens;  *)
(* neither the start-up hook nor POST start heals it, only POST stop.      *)
(***************************************************************************)
EXTENDS Naturals

VARIABLES
    session,
    deaths     \* how often the process has died

vars == <<session, deaths>>

Init == session = "off" /\ deaths = 0

Move(from, to) ==
    /\ session \in from /\ session' = to
    /\ UNCHANGED deaths

Open == Move({"off"}, "opening")
Opened == Move({"opening"}, "on")

Reopen == Move({"on"}, "reopening")
Reopened == Move({"reopening"}, "on")

Close == Move({"on", "deaf"}, "closing")
Closed == Move({"closing"}, "off")

\* A session that is not reported yet is forgotten, any other is deaf.
Die ==
    /\ deaths' = deaths + 1
    /\ session' = IF session \in {"off", "opening"} THEN "off" ELSE "deaf"

Complete == Opened \/ Reopened \/ Closed

Next == Open \/ Reopen \/ Close \/ Complete \/ Die

Spec == Init /\ [][Next]_vars

\* What was begun is completed, or the process dies.
FairSpec == Spec /\ WF_vars(Complete)
=============================================================================
