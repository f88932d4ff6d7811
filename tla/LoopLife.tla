------------------------------ MODULE LoopLife ------------------------------
(***************************************************************************)
(* The event loop as both of its sides see it: the thread that serves the  *)
(* sessions, and the service that starts it, asks it to stop and clears    *)
(* the list when it has gone.  SessionTable details the first, with as     *)
(* much of the second as the list can see; ServiceLifecycle details the    *)
(* second, with as much of the first.                                      *)
(***************************************************************************)

VARIABLES
    loop,       \* dead: there is no process; off: no loop; on; done: to be cleared
    asked,      \* whether the loop was asked to stop and goes on
    list        \* the sockets of the sessions

vars == <<loop, asked, list>>

Init == loop \in {"dead", "on"} /\ asked = FALSE /\ list = {}

\* The service is created.
Boot ==
    /\ loop = "dead"
    /\ loop' = "off"
    /\ UNCHANGED <<asked, list>>

\* The loop finds no session of an earlier one.
Start ==
    /\ loop = "off"
    /\ list = {}
    /\ loop' = "on"
    /\ UNCHANGED <<asked, list>>

\* Only the loop opens and closes the sockets of sessions.
Work ==
    /\ loop = "on"
    /\ UNCHANGED <<loop, asked>>

Ask ==
    /\ loop = "on"
    /\ asked = FALSE
    /\ asked' = TRUE
    /\ UNCHANGED <<loop, list>>

\* A request ends one loop: there is none left for the next.
Finish ==
    /\ loop = "on"
    /\ asked
    /\ loop' = "done"
    /\ asked' = FALSE
    /\ UNCHANGED list

Clear ==
    /\ loop = "done"
    /\ loop' = "off"
    /\ list' = {}
    /\ UNCHANGED asked

\* A loop that did not come to serve anything may end without being asked.
Fall ==
    /\ loop = "on"
    /\ asked = FALSE
    /\ list = {}
    /\ loop' = "off"
    /\ UNCHANGED <<asked, list>>

\* Any other failure is the end of the process.
Die ==
    /\ loop # "dead"
    /\ loop' = "dead"
    /\ asked' = FALSE
    /\ list' = {}

Next == Boot \/ Start \/ Work \/ Ask \/ Finish \/ Clear \/ Fall \/ Die

Spec == Init /\ [][Next]_vars
=============================================================================
