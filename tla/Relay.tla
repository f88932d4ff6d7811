-------------------------------- MODULE Relay --------------------------------
(***************************************************************************)
(* What a TCP session of the tunnel promises: to be a relay of two streams *)
(* of bytes.  The app's bytes are numbered from 1.  They may be taken in   *)
(* any order, and go to the server in the order of their numbers, each of  *)
(* them once; the app is told of what the server was sent, no more and no  *)
(* less.  The server's bytes are given to the app as they are read.  Each  *)
(* stream may end before the other.                                        *)
(***************************************************************************)
EXTENDS Integers

VARIABLES
    stage,      \* of the connection: none, opening, open, over
    up,         \* the stream of the app
    down        \* the stream of the server

vars == <<stage, up, down>>

\* held: the bytes that were taken and not sent yet; passed: how many bytes the
\* server was sent; told: how many the app knows of; fin: whether the app ended
\* the stream; confirmed: whether it was told that all of it went through.
NoUp == [held |-> {}, passed |-> 0, told |-> 0, fin |-> FALSE, confirmed |-> FALSE]

\* read: how many bytes were read from the server; given: how many of them the
\* app was sent; fin: whether it was sent the end of the stream.
NoDown == [read |-> 0, given |-> 0, fin |-> FALSE]

Init == stage = "none" /\ up = NoUp /\ down = NoDown

\* The app asks for a connection.
Begin ==
    /\ stage = "none"
    /\ stage' = "opening"
    /\ UNCHANGED <<up, down>>

\* The server accepts it.  Bytes may have been taken with the request.
Connect ==
    /\ stage = "opening"
    /\ stage' = "open"
    /\ up' = [NoUp EXCEPT !.held = up'.held]
    /\ \A b \in up'.held : b \in Nat /\ b > 0
    /\ UNCHANGED down

\* Bytes of the app are taken, or the end of its stream, unless the stream has
\* ended or the server has gone.  The end is confirmed at once only if the
\* server was sent all that was taken.
Take ==
    /\ stage = "open"
    /\ ~up.fin
    /\ ~down.fin
    /\ up' = [up EXCEPT !.held = up'.held, !.fin = up'.fin, !.confirmed = up'.confirmed]
    /\ up.held \subseteq up'.held
    /\ \A b \in up'.held \ up.held : b > up.passed
    /\ up'.fin \in BOOLEAN
    /\ up'.confirmed \in {FALSE, up'.fin /\ up'.held = {}}
    /\ UNCHANGED <<stage, down>>

\* The next bytes of the app go to the server, the app is told of them and, when
\* none is left, of the end.
PassUp ==
    /\ up'.passed >= up.passed
    /\ \A b \in (up.passed + 1)..up'.passed : b \in up.held
    /\ up' = [up EXCEPT !.held = {b \in @ : b > up'.passed}, !.passed = up'.passed,
                        !.told = up'.passed, !.confirmed = up'.confirmed]
    /\ up'.confirmed \in {up.confirmed, up.fin /\ up'.held = {}}

\* Bytes of the server, or the end of its stream, go to the app.
PassDown ==
    /\ down'.read >= down.read
    /\ down' = [read |-> down'.read, given |-> down'.read, fin |-> down'.fin]
    /\ down'.fin \in BOOLEAN

\* When the server has gone nothing can be passed any more; it goes in order
\* only when there is nothing left for it.
Pass ==
    /\ stage = "open"
    /\ ~down.fin
    /\ PassUp
    /\ PassDown
    /\ down'.fin => up'.held = {}
    /\ UNCHANGED stage

\* The connection is reset, or both streams have ended.
End ==
    /\ stage \in {"opening", "open"}
    /\ stage' = "over"
    /\ up' = NoUp /\ down' = NoDown

Forget ==
    /\ stage = "over"
    /\ stage' = "none"
    /\ UNCHANGED <<up, down>>

Next == Begin \/ Connect \/ Take \/ Pass \/ End \/ Forget

Spec == Init /\ [][Next]_vars
=============================================================================
