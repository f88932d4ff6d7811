------------------------- MODULE ServiceLifecycle -------------------------
(***************************************************************************)
(* The life of the VPN service: onCreate and onDestroy on the main thread, *)
(* which start and stop the thread of the event loop and open and close    *)
(* the tun device, and the loop, which goes on between their steps.        *)
(*                                                                         *)
(* What they share is kept by number: pthread_t in thread_id, and file     *)
(* descriptors, which the process gives to the next file once they are     *)
(* closed.  The loop holds the number of its tun device in args->tun.      *)
(*                                                                         *)
(* What the loop does with a packet or an event is SessionTable's; here a  *)
(* session is the number of its socket.  The tun device has errors only    *)
(* when it is gone; report_exit then looks for a method that the service   *)
(* does not have, which ends the process.  pipe() and write() to the pipe  *)
(* are taken to succeed.                                                   *)
(***************************************************************************)
EXTENDS Integers, FiniteSets

CONSTANTS
    Numbers,        \* file descriptors
    NoNumber,
    MaxCreates      \* how often the service is created in one process

ASSUME LifecycleAssumption ==
    /\ MaxCreates \in Nat \ {0}
    /\ NoNumber \notin Numbers

Threads == 1 .. MaxCreates      \* of the event loop, in the order of the onCreates

\* What a number stands for: nothing, the tun device of the creation n, a
\* session's socket, another file of the process, a socket that no session got.
Free   == 0
Tun(n) == n
Socket == -1
Other  == -2
Lost   == -3
Files  == {Free, Socket, Other, Lost} \cup {Tun(n) : n \in Threads}

VARIABLES
    stage,          \* what of onCreate or onDestroy comes next
    created,        \* the service's number: how often onCreate ran
    vpnInterface,   \* the number of its tun device
    thread_id,      \* the pthread_t of the loop, 0 for none
    joined,         \* the thread that jni_stop waits for
    thread,         \* the threads of the event loop
    file,           \* what each descriptor stands for
    pipe,           \* the bytes in the pipe of each creation, which pipefds names
    ng_session,     \* the sockets of the sessions
    asked           \* history: the threads that jni_stop wrote to

vars == <<stage, created, vpnInterface, thread_id, joined, thread, file, pipe,
          ng_session, asked>>

\* The service, created from one side and destroyed from the other.
Stages == {"none", "establish", "start", "running", "stop", "join", "clear"}

\* handle_events: created, waiting, serving the tun device, reading it,
\* blocked in the read, ended.
Places  == {"none", "new", "wait", "serve", "read", "blocked", "end", "gone"}
NoThread == [at |-> "none", tun |-> NoNumber, pipe |-> 0, sees |-> Free]

Alive(t)   == t \in Threads /\ thread[t].at \notin {"none", "gone"}
Running(t) == thread[t].at \in {"wait", "serve", "read", "blocked", "end"}

\* What the thread's number of the tun device stands for now.
AtTun(t) == file[thread[t].tun]
Foreign(t) == AtTun(t) \notin {Free, Tun(t)}

Enter(s)   == stage' = s
Goes(t, p) == thread' = [thread EXCEPT ![t].at = p]

Init ==
    /\ stage = "none"
    /\ created = 0
    /\ vpnInterface = NoNumber
    /\ thread_id = 0
    /\ joined = 0
    /\ thread = [t \in Threads |-> NoThread]
    /\ file = [n \in Numbers |-> Free]
    /\ pipe = [t \in Threads |-> 0]
    /\ ng_session = {}
    /\ asked = {}

\* The process ends: killed, by a tun device that fails, or by an exception.
ProcessDies ==
    /\ stage' = "none"
    /\ created' = 0
    /\ vpnInterface' = NoNumber
    /\ thread_id' = 0
    /\ joined' = 0
    /\ thread' = [t \in Threads |-> NoThread]
    /\ file' = [n \in Numbers |-> Free]
    /\ pipe' = [t \in Threads |-> 0]
    /\ ng_session' = {}
    /\ asked' = {}

-----------------------------------------------------------------------------
(* The main thread: onCreate.                                              *)

\* Mutant: the pipe is made once, and keeps what nobody read.
NewPipeKept == [pipe EXCEPT ![created + 1] = IF created = 0 THEN 0 ELSE pipe[created]]

NewPipe == [pipe EXCEPT ![created + 1] = 0]

\* jni_init: an empty list, whatever was in it, and a new pipe.
JniInit ==
    /\ stage = "none"
    /\ created < MaxCreates
    /\ Enter("establish")
    /\ created' = created + 1
    /\ ng_session' = {}
    /\ pipe' = NewPipe
    /\ UNCHANGED <<vpnInterface, thread_id, joined, thread, file, asked>>

\* setupVPN: establish opens a tun device, or returns null when the user
\* withdrew the permission, which the next statement does not survive.
SetupVPN ==
    /\ stage = "establish"
    /\ \/ \E n \in Numbers :
             /\ file[n] = Free
             /\ file' = [file EXCEPT ![n] = Tun(created)]
             /\ vpnInterface' = n
             /\ Enter("start")
             /\ UNCHANGED <<created, thread_id, joined, thread, pipe, ng_session, asked>>
       \/ ProcessDies

\* jni_start: a thread, unless one is running; pthread_create may fail.
JniStart ==
    /\ stage = "start"
    /\ Enter("running")
    /\ \/ UNCHANGED <<thread_id, thread>>
       \/ /\ ~Alive(thread_id)
          /\ thread_id' = created
          /\ thread' = [thread EXCEPT ![created] =
                 [at |-> "new", tun |-> vpnInterface, pipe |-> 0, sees |-> Free]]
    /\ UNCHANGED <<created, vpnInterface, joined, file, pipe, ng_session, asked>>

-----------------------------------------------------------------------------
(* The main thread: onDestroy.                                             *)

\* cleanup: the tun device is closed while the thread may be running.
CloseVPN ==
    /\ stage = "running"
    /\ Enter("stop")
    /\ file' = [file EXCEPT ![vpnInterface] = Free]
    /\ vpnInterface' = NoNumber
    /\ UNCHANGED <<created, thread_id, joined, thread, pipe, ng_session, asked>>

\* Mutant: without the byte.
WakeNot == joined' = thread_id /\ asked' = asked \cup {thread_id} /\ UNCHANGED pipe

\* The thread is to end: a byte for it in the pipe.
Wake ==
    /\ joined' = thread_id
    /\ asked' = asked \cup {thread_id}
    /\ pipe' = [pipe EXCEPT ![created] = @ + 1]

\* Mutant: without asking whether there is a thread.
JniStopBlindly ==
    /\ stage = "stop"
    /\ Wake
    /\ Enter("join")
    /\ UNCHANGED <<created, vpnInterface, thread_id, thread, file, ng_session>>

\* Mutant: clear follows the write at once.
JniStopOnly ==
    /\ stage = "stop"
    /\ Wake
    /\ Enter("clear")
    /\ UNCHANGED <<created, vpnInterface, thread_id, thread, file, ng_session>>

\* jni_stop: ask the thread to stop, if one is running.
JniStop ==
    /\ stage = "stop"
    /\ IF Alive(thread_id)
       THEN Wake /\ Enter("join")
       ELSE Enter("none") /\ UNCHANGED <<pipe, joined, asked>>
    /\ UNCHANGED <<created, vpnInterface, thread_id, thread, file, ng_session>>

\* Mutant: the join gives up.
JoinGivesUp ==
    /\ stage = "join"
    /\ Enter("clear")
    /\ joined' = 0
    /\ UNCHANGED <<created, vpnInterface, thread_id, thread, file, pipe, ng_session, asked>>

\* pthread_join
JoinReturns ==
    /\ stage = "join"
    /\ ~Alive(joined)
    /\ Enter("clear")
    /\ joined' = 0
    /\ UNCHANGED <<created, vpnInterface, thread_id, thread, file, pipe, ng_session, asked>>

\* Mutant: the sessions are freed, their sockets not closed.
ClearForgets ==
    /\ stage = "clear"
    /\ Enter("none")
    /\ ng_session' = {}
    /\ UNCHANGED <<created, vpnInterface, thread_id, joined, thread, file, pipe, asked>>

\* clear: the sockets of the sessions are closed.
Clear ==
    /\ stage = "clear"
    /\ Enter("none")
    /\ file' = [n \in Numbers |-> IF n \in ng_session THEN Free ELSE file[n]]
    /\ ng_session' = {}
    /\ UNCHANGED <<created, vpnInterface, thread_id, joined, thread, pipe, asked>>

-----------------------------------------------------------------------------
(* The thread: handle_events.                                              *)

\* The Java VM does not take the thread; thread_id keeps it.
AttachFails(t) ==
    /\ thread[t].at = "new"
    /\ Goes(t, "gone")
    /\ UNCHANGED <<stage, created, vpnInterface, thread_id, joined, file, pipe,
                   ng_session, asked>>

\* epoll watches the present pipe and the tun device.  A number that was
\* closed meanwhile is refused, another file may be.
Setup(t) ==
    /\ thread[t].at = "new"
    /\ \/ /\ AtTun(t) # Free
          /\ thread' = [thread EXCEPT ![t].at = "wait", ![t].pipe = created,
                                      ![t].sees = AtTun(t)]
          /\ UNCHANGED <<stage, created, vpnInterface, thread_id, joined, file, pipe,
                         ng_session, asked>>
       \/ AtTun(t) # Tun(t) /\ ProcessDies

\* epoll_wait reports the file that it was given as the tun device.
TunEvent(t) ==
    /\ thread[t].at = "wait"
    /\ AtTun(t) # Free
    /\ AtTun(t) = thread[t].sees
    /\ Goes(t, "serve")
    /\ UNCHANGED <<stage, created, vpnInterface, thread_id, joined, file, pipe,
                   ng_session, asked>>

\* is_readable asks for the number: what is behind it may be another file.
TunReadable(t) ==
    /\ thread[t].at = "serve"
    /\ AtTun(t) # Free
    /\ Goes(t, "read")
    /\ UNCHANGED <<stage, created, vpnInterface, thread_id, joined, file, pipe,
                   ng_session, asked>>

TunEmpty(t) ==
    /\ thread[t].at = "serve"
    /\ Goes(t, "wait")
    /\ UNCHANGED <<stage, created, vpnInterface, thread_id, joined, file, pipe,
                   ng_session, asked>>

\* A packet that is read may open the socket of a new session.  When the socket
\* cannot be protected, made non-blocking or connected it is given up open.
TakePacket(t) ==
    /\ Goes(t, "serve")
    /\ \/ UNCHANGED <<file, ng_session>>
       \/ \E n \in Numbers :
             /\ file[n] = Free
             /\ \/ /\ file' = [file EXCEPT ![n] = Socket]
                   /\ ng_session' = ng_session \cup {n}
                \/ /\ file' = [file EXCEPT ![n] = Lost]
                   /\ UNCHANGED ng_session
    /\ UNCHANGED <<stage, created, vpnInterface, thread_id, joined, pipe, asked>>

\* check_tun: read by the number.  A foreign file may be at its end or fail,
\* or have nothing to read: tun devices are read blocking.
ReadTun(t) ==
    /\ thread[t].at = "read"
    /\ \/ AtTun(t) # Free /\ TakePacket(t)
       \/ AtTun(t) # Tun(t) /\ ProcessDies
       \/ /\ Foreign(t)
          /\ Goes(t, "blocked")
          /\ UNCHANGED <<stage, created, vpnInterface, thread_id, joined, file, pipe,
                         ng_session, asked>>

\* The foreign file had something to read at last.
ReadReturns(t) ==
    /\ thread[t].at = "blocked"
    /\ TakePacket(t) \/ ProcessDies

\* A session ends, and its socket is closed.
EndSession(t) ==
    /\ thread[t].at = "wait"
    /\ \E n \in ng_session :
          /\ file' = [file EXCEPT ![n] = Free]
          /\ ng_session' = ng_session \ {n}
    /\ UNCHANGED <<stage, created, vpnInterface, thread_id, joined, thread, pipe, asked>>

\* The pipe that epoll watches has a byte; one is read from the present pipe.
PipeEvent(t) ==
    /\ thread[t].at = "wait"
    /\ pipe[thread[t].pipe] > 0
    /\ pipe' = [pipe EXCEPT ![created] = IF @ > 0 THEN @ - 1 ELSE 0]
    /\ Goes(t, "end")
    /\ UNCHANGED <<stage, created, vpnInterface, thread_id, joined, file, ng_session,
                   asked>>

End(t) ==
    /\ thread[t].at = "end"
    /\ Goes(t, "gone")
    /\ thread_id' = 0
    /\ UNCHANGED <<stage, created, vpnInterface, joined, file, pipe, ng_session, asked>>

-----------------------------------------------------------------------------
(* The rest of the process opens and closes files as it likes.             *)

OtherOpens(n) ==
    /\ file[n] = Free
    /\ file' = [file EXCEPT ![n] = Other]
    /\ UNCHANGED <<stage, created, vpnInterface, thread_id, joined, thread, pipe,
                   ng_session, asked>>

OtherCloses(n) ==
    /\ file[n] = Other
    /\ file' = [file EXCEPT ![n] = Free]
    /\ UNCHANGED <<stage, created, vpnInterface, thread_id, joined, thread, pipe,
                   ng_session, asked>>

OnCreate  == JniInit \/ SetupVPN \/ JniStart
OnDestroy == CloseVPN \/ JniStop \/ JoinReturns \/ Clear

HandleEvents(t) ==
    \/ AttachFails(t) \/ Setup(t) \/ TunEvent(t) \/ TunReadable(t) \/ TunEmpty(t)
    \/ ReadTun(t) \/ ReadReturns(t) \/ EndSession(t) \/ PipeEvent(t) \/ End(t)

Next ==
    \/ OnCreate
    \/ OnDestroy
    \/ \E t \in Threads : HandleEvents(t)
    \/ \E n \in Numbers : OtherOpens(n) \/ OtherCloses(n)
    \/ ProcessDies

Spec == Init /\ [][Next]_vars

\* The threads run.  epoll_wait reports the pipe at last however many other
\* events there are, and at times the tun device has no packet waiting.  A
\* read of the thread's own device returns; of another file it need not.
FairThread(t) ==
    /\ WF_vars(Setup(t) \/ AttachFails(t))
    /\ WF_vars(TunReadable(t) \/ TunEmpty(t))
    /\ WF_vars(ReadTun(t))
    /\ WF_vars(End(t))
    /\ SF_vars(TunEmpty(t))
    /\ SF_vars(PipeEvent(t))

FairSpec ==
    /\ Spec
    /\ WF_vars(JoinReturns)
    /\ \A t \in Threads : FairThread(t)

-----------------------------------------------------------------------------
(* Properties.                                                             *)

\* Every variable has its type; jni_stop waits for a thread that there was.
TypeOK ==
    /\ stage \in Stages
    /\ created \in 0 .. MaxCreates
    /\ vpnInterface \in Numbers \cup {NoNumber}
    /\ thread_id \in 0 .. MaxCreates
    /\ joined \in IF stage = "join" THEN Threads ELSE {0}
    /\ thread \in [Threads -> [at : Places, tun : Numbers \cup {NoNumber},
                               pipe : 0 .. MaxCreates,
                               sees : Files]]
    /\ file \in [Numbers -> Files]
    /\ pipe \in [Threads -> 0 .. 1]
    /\ ng_session \subseteq Numbers
    /\ asked \subseteq Threads

\* While init empties the list of sessions and clear frees it, without the
\* lock, no loop uses it; and there is never more than one loop.
ListOwned ==
    \A t \in Threads : Running(t) =>
        stage \in {"running", "stop", "join"} /\ t = created

\* The loop reads and writes its own tun device through the number it was
\* given; another file can be there only between cleanup and the join.
TunIsOwn ==
    \A t \in Threads : Running(t) /\ stage \notin {"stop", "join"} => AtTun(t) = Tun(t)

\* A loop leaves because its own service asked it to: no byte of an earlier
\* onDestroy stops it.
OwnStop ==
    \A t \in Threads : thread[t].at = "end" => t \in asked

\* The numbers in the list stand for the sockets of its sessions, so that no
\* other file is closed for them, and every socket that a session got is in the
\* list: none of those stays open when the service is gone.  What is Lost does,
\* until the process ends.
SocketsListed ==
    /\ ng_session = {n \in Numbers : file[n] = Socket}
    /\ stage \in {"none", "establish"} => ng_session = {}

\* What the loop's thread and the list show of the service.
Serving   == created \in Threads /\ Alive(created) /\ thread[created].at # "end"
Cleared   == created \in Threads /\ ~Alive(created) /\ stage \notin {"join", "clear"}
LoopStage == IF created = 0 THEN "dead"
             ELSE IF Serving THEN "on"
             ELSE IF Cleared THEN "off"
             ELSE "done"
LoopAsked == Serving /\ pipe[created] > 0

Loop == INSTANCE LoopLife WITH loop <- LoopStage, asked <- LoopAsked, list <- ng_session

\* The service starts a loop with an empty list, asks it once to stop, touches
\* the list again only when the loop has gone, and leaves nothing of it to the
\* next one: what SessionTable takes for granted of the service.
ImplementsLoop == Loop!Spec

\* onDestroy returns, on the main thread, unless the loop is blocked for ever
\* in reading a file that took the number of its tun device.
StopReturns ==
    \/ []<>(stage # "join")
    \/ <>[](\E t \in Threads : thread[t].at = "blocked")
=============================================================================
