----------------------- MODULE ServiceLifecycle_proofs -----------------------
(* The safety properties of ServiceLifecycle, for any number of creations    *)
(* of the service and any set of descriptors.                                *)
EXTENDS ServiceLifecycle, TLAPS

\* There is at most one thread: that of the present service, which thread_id
\* names, between jni_start and the join.
OneThread ==
    \A t \in Threads : Alive(t) =>
        /\ t = created /\ t = thread_id
        /\ stage \in {"running", "stop", "join"}
        /\ thread[t].tun \in Numbers
        /\ stage = "running" => thread[t].tun = vpnInterface
        /\ Running(t) => thread[t].pipe = created

\* The tun device is open from establish to cleanup, and no other one is.
OneTun ==
    /\ stage \in {"start", "running"} => vpnInterface \in Numbers /\ file[vpnInterface] = Tun(created)
    /\ \A n \in Numbers, t \in Threads : file[n] = Tun(t) =>
          stage \in {"start", "running"} /\ n = vpnInterface /\ t = created

\* The byte of a service is written in its jni_stop and not before.
Asked ==
    /\ stage # "none" => created \in Threads
    /\ stage \in {"establish", "start", "running", "stop"} =>
          pipe[created] = 0 /\ created \notin asked
    /\ \A t \in Threads : t \in asked => t <= created
    /\ \A t \in Threads : pipe[t] > 0 => t \in asked
    /\ stage = "join" => joined = created

\* The byte of jni_stop stays in the pipe until the thread reads it.
Heard ==
    stage = "join" => \A t \in Threads : Alive(t) /\ thread[t].at # "end" => pipe[t] > 0

\* There are sessions only while the thread runs, and then until clear.
SessionsOfLoop ==
    \/ ng_session = {}
    \/ stage \in {"join", "clear"}
    \/ stage \in {"running", "stop"} /\ Running(created)

\* The inductive invariant.  ListOwned and TunIsOwn follow from it.
IInv ==
    /\ TypeOK /\ OneThread /\ OneTun /\ Asked /\ SessionsOfLoop
    /\ OwnStop /\ Heard /\ SocketsListed

USE LifecycleAssumption DEF Threads, Tun, Free, Socket, Other, Lost
-----------------------------------------------------------------------------
(* Types.                                                                  *)

ThreadStates == [at : Places, tun : Numbers \cup {NoNumber},
                 pipe : 0 .. MaxCreates, sees : Files]

\* The kinds of files are consecutive numbers.
LEMMA FilesAre == Files = -3 .. MaxCreates
  BY DEF Files

LEMMA ThreadType ==
    ASSUME TypeOK
    PROVE  thread \in [Threads -> ThreadStates]
  BY DEF TypeOK, ThreadStates

\* Goes changes where one thread is, and nothing else about the threads.
LEMMA GoesType ==
    ASSUME TypeOK, NEW t \in Threads, NEW p \in Places, Goes(t, p)
    PROVE  /\ thread' \in [Threads -> ThreadStates]
           /\ thread'[t].at = p
           /\ thread'[t].tun = thread[t].tun
           /\ thread'[t].pipe = thread[t].pipe
           /\ \A u \in Threads \ {t} : thread'[u] = thread[u]
<1>1. thread \in [Threads -> ThreadStates] /\ thread[t] \in ThreadStates
  BY ThreadType
<1>2. [thread[t] EXCEPT !.at = p] \in ThreadStates
  BY <1>1 DEF ThreadStates
<1>3. thread' = [thread EXCEPT ![t] = [thread[t] EXCEPT !.at = p]]
  BY DEF Goes
<1> QED
  BY <1>1, <1>2, <1>3 DEF ThreadStates
-----------------------------------------------------------------------------
(* The first state, and the first of a new process.                        *)

LEMMA InitIInv == Init => IInv
<1> SUFFICES ASSUME Init PROVE IInv
  OBVIOUS
<1>1. TypeOK
  BY FilesAre DEF Init, TypeOK, Stages, Places, NoThread
<1>2. OneThread /\ OwnStop /\ Heard
  BY DEF Init, OneThread, OwnStop, Heard, Alive, NoThread
<1>3. OneTun /\ Asked /\ SessionsOfLoop /\ SocketsListed
  BY DEF Init, OneTun, Asked, SessionsOfLoop, SocketsListed
<1> QED
  BY <1>1, <1>2, <1>3 DEF IInv

LEMMA ProcessDiesIInv == ASSUME IInv, ProcessDies PROVE IInv'
<1>1. TypeOK'
  BY FilesAre DEF ProcessDies, TypeOK, Stages, Places, NoThread
<1>2. OneThread' /\ OwnStop' /\ Heard'
  BY DEF ProcessDies, OneThread, OwnStop, Heard, Alive, NoThread
<1>3. OneTun' /\ Asked' /\ SessionsOfLoop' /\ SocketsListed'
  BY DEF ProcessDies, OneTun, Asked, SessionsOfLoop, SocketsListed
<1> QED
  BY <1>1, <1>2, <1>3 DEF IInv
-----------------------------------------------------------------------------
(* onCreate.                                                               *)

LEMMA JniInitIInv == ASSUME IInv, JniInit PROVE IInv'
<1>1. TypeOK'
  BY DEF JniInit, NewPipe, Enter, IInv, TypeOK, Stages
<1>2. OneThread' /\ OwnStop' /\ Heard'
  BY DEF JniInit, Enter, IInv, OneThread, OwnStop, Heard, Alive, Running
<1>3. OneTun'
  BY DEF JniInit, Enter, IInv, OneTun
<1>4. Asked'
  BY DEF JniInit, NewPipe, Enter, IInv, TypeOK, Asked
<1>5. SessionsOfLoop' /\ SocketsListed'
  BY DEF JniInit, Enter, IInv, SessionsOfLoop, SocketsListed
<1> QED
  BY <1>1, <1>2, <1>3, <1>4, <1>5 DEF IInv

LEMMA SetupVPNIInv == ASSUME IInv, SetupVPN PROVE IInv'
<1>1. CASE ProcessDies
  BY <1>1, ProcessDiesIInv
<1>2. CASE ~ProcessDies
  <2>1. created \in Threads
    BY DEF SetupVPN, IInv, Asked
  <2>2. TypeOK'
    <3>1. file' \in [Numbers -> Files]
      BY <1>2, <2>1, FilesAre, SMTT(20) DEF SetupVPN, IInv, TypeOK
    <3>2. vpnInterface' \in Numbers /\ stage' = "start" /\ joined' = 0
      BY <1>2 DEF SetupVPN, Enter, IInv, TypeOK
    <3> QED
      BY <1>2, <3>1, <3>2 DEF SetupVPN, IInv, TypeOK, Stages
  <2>3. OneThread' /\ OwnStop' /\ Heard'
    BY <1>2 DEF SetupVPN, Enter, IInv, OneThread, OwnStop, Heard, Alive, Running
  <2>4. OneTun'
    BY <1>2, <2>1 DEF SetupVPN, Enter, IInv, TypeOK, OneTun
  <2>5. Asked'
    BY <1>2 DEF SetupVPN, Enter, IInv, Asked
  <2>6. SessionsOfLoop' /\ SocketsListed'
    BY <1>2, <2>1 DEF SetupVPN, Enter, IInv, TypeOK, SessionsOfLoop, SocketsListed
  <2> QED
    BY <2>2, <2>3, <2>4, <2>5, <2>6 DEF IInv
<1> QED
  BY <1>1, <1>2

\* The thread that jni_start finds alive would be the present service's, which
\* has none yet; so it starts one, unless pthread_create fails.
LEMMA JniStartIInv == ASSUME IInv, JniStart PROVE IInv'
<1>1. /\ stage = "start" /\ stage' = "running" /\ joined = 0 /\ joined' = 0
      /\ created \in Threads /\ vpnInterface \in Numbers
      /\ UNCHANGED <<created, vpnInterface, file, pipe, ng_session, asked>>
  BY DEF JniStart, Enter, IInv, TypeOK, Asked, OneTun
<1>2. OneTun' /\ Asked' /\ SessionsOfLoop' /\ SocketsListed'
  BY <1>1 DEF IInv, OneTun, Asked, SessionsOfLoop, SocketsListed
<1>3. CASE UNCHANGED <<thread_id, thread>>
  <2>1. TypeOK' /\ OneThread' /\ OwnStop' /\ Heard'
    BY <1>1, <1>3 DEF IInv, TypeOK, Stages, OneThread, OwnStop, Heard, Alive, Running
  <2> QED
    BY <1>2, <2>1 DEF IInv
<1>4. CASE ~UNCHANGED <<thread_id, thread>>
  <2> DEFINE new == [at |-> "new", tun |-> vpnInterface, pipe |-> 0, sees |-> Free]
  <2>1. thread' = [thread EXCEPT ![created] = new] /\ thread_id' = created
    BY <1>4 DEF JniStart
  <2>2. new \in ThreadStates /\ thread \in [Threads -> ThreadStates]
    BY <1>1, FilesAre, ThreadType DEF IInv, ThreadStates, Places
  <2>3. TypeOK'
    <3>1. thread' \in [Threads -> ThreadStates]
      BY <2>1, <2>2
    <3> QED
      BY <1>1, <2>1, <3>1 DEF IInv, TypeOK, ThreadStates, Stages
  <2>4. OneThread'
    <3>1. \A t \in Threads : Alive(t)' => t = created
      BY <1>1, <2>1, <2>2 DEF IInv, OneThread, Alive
    <3> QED
      BY <1>1, <2>1, <2>2, <3>1 DEF OneThread, Running
  <2>5. OwnStop' /\ Heard'
    BY <1>1, <2>1, <2>2 DEF IInv, OwnStop, Heard
  <2> QED
    BY <1>2, <2>3, <2>4, <2>5 DEF IInv
<1> QED
  BY <1>3, <1>4
-----------------------------------------------------------------------------
(* onDestroy.                                                              *)

LEMMA CloseVPNIInv == ASSUME IInv, CloseVPN PROVE IInv'
<1>1. created \in Threads /\ vpnInterface \in Numbers /\ file[vpnInterface] = Tun(created)
  BY DEF CloseVPN, IInv, Asked, OneTun
<1>2. TypeOK'
  BY <1>1, FilesAre, SMTT(20) DEF CloseVPN, Enter, IInv, TypeOK, Stages
<1>3. OneThread' /\ OwnStop' /\ Heard'
  BY DEF CloseVPN, Enter, IInv, OneThread, OwnStop, Heard, Alive, Running
<1>4. OneTun'
  BY <1>1 DEF CloseVPN, Enter, IInv, TypeOK, OneTun
<1>5. Asked' /\ SessionsOfLoop'
  BY DEF CloseVPN, Enter, IInv, Asked, SessionsOfLoop, Running
<1>6. SocketsListed'
  BY <1>1 DEF CloseVPN, Enter, IInv, TypeOK, SocketsListed
<1> QED
  BY <1>2, <1>3, <1>4, <1>5, <1>6 DEF IInv

\* jni_stop asks the present service's thread, once; without a thread there
\* are no sessions that would have to be cleared.
LEMMA JniStopIInv == ASSUME IInv, JniStop PROVE IInv'
<1>1. /\ stage = "stop" /\ created \in Threads /\ pipe[created] = 0 /\ joined = 0
      /\ UNCHANGED <<created, vpnInterface, thread_id, thread, file, ng_session>>
  BY DEF JniStop, IInv, TypeOK, Asked
<1>2. CASE Alive(thread_id)
  <2>1. thread_id = created
    BY <1>2 DEF IInv, OneThread, Alive
  <2>2. /\ stage' = "join" /\ joined' = created /\ asked' = asked \cup {created}
        /\ pipe' = [pipe EXCEPT ![created] = @ + 1]
    BY <1>2, <2>1 DEF JniStop, Wake, Enter
  <2>3. TypeOK'
    <3>1. pipe' \in [Threads -> 0 .. 1]
      BY <1>1, <2>2 DEF IInv, TypeOK
    <3> QED
      BY <1>1, <2>2, <3>1 DEF IInv, TypeOK, Stages
  <2>4. OneThread' /\ OwnStop'
    BY <1>1, <2>2 DEF IInv, OneThread, OwnStop, Alive, Running
  <2>5. Asked'
    BY <1>1, <2>2 DEF IInv, TypeOK, Asked
  <2>6. OneTun' /\ SessionsOfLoop' /\ SocketsListed'
    BY <1>1, <2>2 DEF IInv, OneTun, SessionsOfLoop, SocketsListed
  <2>7. Heard'
    <3>1. \A t \in Threads : Alive(t) => t = created
      BY DEF IInv, OneThread
    <3>2. pipe'[created] = 1
      BY <1>1, <2>2 DEF IInv, TypeOK
    <3> QED
      BY <1>1, <3>1, <3>2 DEF Heard, Alive
  <2> QED
    BY <2>3, <2>4, <2>5, <2>6, <2>7 DEF IInv
<1>3. CASE ~Alive(thread_id)
  <2>1. stage' = "none" /\ UNCHANGED <<pipe, joined, asked>>
    BY <1>3 DEF JniStop, Enter
  <2>2. \A t \in Threads : ~Alive(t)
    BY <1>3 DEF IInv, OneThread, Alive
  <2>3. ng_session = {}
    BY <1>1, <2>2 DEF IInv, SessionsOfLoop, Alive, Running
  <2>4. TypeOK'
    BY <1>1, <2>1 DEF IInv, TypeOK, Stages
  <2>5. OneThread' /\ OwnStop' /\ Heard'
    BY <1>1, <2>1, <2>2 DEF IInv, OneThread, OwnStop, Heard, Alive
  <2>6. OneTun' /\ Asked' /\ SessionsOfLoop' /\ SocketsListed'
    BY <1>1, <2>1, <2>3 DEF IInv, OneTun, Asked, SessionsOfLoop, SocketsListed
  <2> QED
    BY <2>4, <2>5, <2>6 DEF IInv
<1> QED
  BY <1>2, <1>3

\* When the join returns no thread is alive: it waited for the only one.
LEMMA JoinReturnsIInv == ASSUME IInv, JoinReturns PROVE IInv'
<1>1. /\ stage = "join" /\ stage' = "clear" /\ joined' = 0
      /\ UNCHANGED <<created, vpnInterface, thread_id, thread, file, pipe, ng_session, asked>>
  BY DEF JoinReturns, Enter
<1>2. \A t \in Threads : ~Alive(t)
  BY DEF JoinReturns, IInv, OneThread, Asked
<1>3. TypeOK'
  BY <1>1 DEF IInv, TypeOK, Stages
<1>4. OneThread' /\ OwnStop' /\ Heard'
  BY <1>1, <1>2 DEF IInv, OneThread, OwnStop, Heard, Alive
<1>5. OneTun' /\ Asked' /\ SessionsOfLoop' /\ SocketsListed'
  BY <1>1 DEF IInv, OneTun, Asked, SessionsOfLoop, SocketsListed
<1> QED
  BY <1>3, <1>4, <1>5 DEF IInv

LEMMA ClearIInv == ASSUME IInv, Clear PROVE IInv'
<1>1. TypeOK'
  BY FilesAre DEF Clear, Enter, IInv, TypeOK, Stages
<1>2. OneThread' /\ OwnStop' /\ Heard'
  BY DEF Clear, Enter, IInv, OneThread, OwnStop, Heard, Alive
<1>3. OneTun' /\ Asked' /\ SessionsOfLoop'
  BY DEF Clear, Enter, IInv, TypeOK, OneTun, Asked, SessionsOfLoop
<1>4. SocketsListed'
  BY DEF Clear, Enter, IInv, TypeOK, SocketsListed
<1> QED
  BY <1>1, <1>2, <1>3, <1>4 DEF IInv
-----------------------------------------------------------------------------
(* The thread.                                                             *)

\* A running thread that goes from one place of the loop to another.
LEMMA GoesIInv ==
    ASSUME IInv, NEW t \in Threads, Running(t), thread[t].at # "end",
           NEW p \in {"wait", "serve", "read", "blocked"}, Goes(t, p),
           UNCHANGED <<stage, created, vpnInterface, thread_id, joined, file, pipe,
                       ng_session, asked>>
    PROVE  IInv'
<1>1. p \in Places /\ Alive(t) /\ TypeOK
  BY DEF IInv, Places, Alive, Running
<1>2. TypeOK'
  BY <1>1, GoesType DEF TypeOK, ThreadStates
<1>3. OneThread' /\ OwnStop'
  BY <1>1, GoesType DEF IInv, OneThread, OwnStop, Alive, Running
<1>4. OneTun' /\ Asked' /\ SocketsListed'
  BY DEF IInv, OneTun, Asked, SocketsListed
<1>5. SessionsOfLoop'
  BY <1>1, GoesType DEF IInv, OneThread, SessionsOfLoop, Running
<1>6. Heard'
  BY <1>1, GoesType DEF IInv, Heard, Alive, Running
<1> QED
  BY <1>2, <1>3, <1>4, <1>5, <1>6 DEF IInv

LEMMA AttachFailsIInv == ASSUME IInv, NEW t \in Threads, AttachFails(t) PROVE IInv'
<1>1. /\ thread[t].at = "new" /\ Goes(t, "gone") /\ "gone" \in Places /\ Alive(t)
      /\ UNCHANGED <<stage, created, vpnInterface, thread_id, joined, file, pipe,
                     ng_session, asked>>
      /\ TypeOK
  BY DEF AttachFails, Places, Alive, IInv
<1>2. TypeOK'
  BY <1>1, GoesType DEF TypeOK, ThreadStates
<1>3. OneThread' /\ OwnStop' /\ Heard'
  BY <1>1, GoesType DEF IInv, OneThread, OwnStop, Heard, Alive, Running
<1>4. OneTun' /\ Asked' /\ SocketsListed'
  BY <1>1 DEF IInv, OneTun, Asked, SocketsListed
<1>5. SessionsOfLoop'
  BY <1>1, GoesType DEF IInv, OneThread, SessionsOfLoop, Running
<1> QED
  BY <1>2, <1>3, <1>4, <1>5 DEF IInv

LEMMA SetupIInv == ASSUME IInv, NEW t \in Threads, Setup(t) PROVE IInv'
<1>1. CASE ProcessDies
  BY <1>1, ProcessDiesIInv
<1>2. CASE ~ProcessDies
  <2> DEFINE set == [thread[t] EXCEPT !.at = "wait", !.pipe = created, !.sees = AtTun(t)]
  <2>1. /\ thread[t].at = "new" /\ Alive(t)
        /\ thread' = [thread EXCEPT ![t] = set]
        /\ UNCHANGED <<stage, created, vpnInterface, thread_id, joined, file, pipe,
                       ng_session, asked>>
    BY <1>2 DEF Setup, Alive
  <2>2. thread \in [Threads -> ThreadStates] /\ thread[t] \in ThreadStates
    BY ThreadType DEF IInv
  <2>3. AtTun(t) \in Files
    BY <2>1 DEF IInv, TypeOK, OneThread, AtTun
  <2>4. set \in ThreadStates /\ set.at = "wait" /\ set.tun = thread[t].tun /\ set.pipe = created
    BY <2>2, <2>3 DEF IInv, TypeOK, ThreadStates, Places
  <2>5. /\ thread' \in [Threads -> ThreadStates] /\ thread'[t] = set
        /\ \A u \in Threads \ {t} : thread'[u] = thread[u]
    BY <2>1, <2>2, <2>4
  <2>6. TypeOK'
    BY <2>1, <2>5 DEF IInv, TypeOK, ThreadStates
  <2>7. OneThread' /\ OwnStop' /\ Heard'
    BY <2>1, <2>4, <2>5 DEF IInv, OneThread, OwnStop, Heard, Alive, Running
  <2>8. OneTun' /\ Asked' /\ SocketsListed'
    BY <2>1 DEF IInv, OneTun, Asked, SocketsListed
  <2>9. SessionsOfLoop'
    BY <2>1, <2>4, <2>5 DEF IInv, OneThread, SessionsOfLoop, Running
  <2> QED
    BY <2>6, <2>7, <2>8, <2>9 DEF IInv
<1> QED
  BY <1>1, <1>2

\* The packet may open a socket, for a session or in vain, under a number that
\* is free, which the number of the present service's tun device is not.
LEMMA TakePacketIInv ==
    ASSUME IInv, NEW t \in Threads, Running(t), thread[t].at # "end", TakePacket(t)
    PROVE  IInv'
<1>1. /\ Goes(t, "serve") /\ "serve" \in Places /\ TypeOK /\ Alive(t) /\ t = created
      /\ stage \in {"running", "stop", "join"}
      /\ UNCHANGED <<stage, created, vpnInterface, thread_id, joined, pipe, asked>>
  BY DEF TakePacket, IInv, OneThread, Alive, Running, Places
<1>2. CASE UNCHANGED <<file, ng_session>>
  BY <1>1, <1>2, GoesIInv
<1>3. ASSUME NEW n \in Numbers, NEW f \in {Socket, Lost}, file[n] = Free,
             file' = [file EXCEPT ![n] = f],
             ng_session' = IF f = Socket THEN ng_session \cup {n} ELSE ng_session
      PROVE  IInv'
  <2>1. TypeOK'
    <3>1. file' \in [Numbers -> Files]
      BY <1>1, <1>3, FilesAre DEF TypeOK
    <3> QED
      BY <1>1, <1>3, <3>1, GoesType DEF TypeOK, ThreadStates
  <2>2. OneThread' /\ OwnStop'
    BY <1>1, GoesType DEF IInv, OneThread, OwnStop, Alive, Running
  <2>3. OneTun' /\ Asked'
    BY <1>1, <1>3 DEF IInv, TypeOK, OneTun, Asked
  <2>4. SessionsOfLoop'
    BY <1>1, GoesType DEF SessionsOfLoop, Running
  <2>5. SocketsListed'
    BY <1>1, <1>3 DEF IInv, TypeOK, SocketsListed
  <2>6. Heard'
    BY <1>1, GoesType DEF IInv, Heard, Alive, Running
  <2> QED
    BY <2>1, <2>2, <2>3, <2>4, <2>5, <2>6 DEF IInv
<1> QED
  BY <1>2, <1>3 DEF TakePacket

LEMMA ReadIInv ==
    ASSUME IInv, NEW t \in Threads, ReadTun(t) \/ ReadReturns(t)
    PROVE  IInv'
<1>1. Running(t) /\ thread[t].at # "end"
  BY DEF ReadTun, ReadReturns, Running
<1>2. CASE TakePacket(t)
  BY <1>1, <1>2, TakePacketIInv
<1>3. CASE ProcessDies
  BY <1>3, ProcessDiesIInv
<1>4. CASE ReadTun(t) /\ ~TakePacket(t) /\ ~ProcessDies
  BY <1>1, <1>4, GoesIInv DEF ReadTun
<1> QED
  BY <1>2, <1>3, <1>4 DEF ReadReturns

LEMMA EndSessionIInv == ASSUME IInv, NEW t \in Threads, EndSession(t) PROVE IInv'
<1>1. PICK n \in ng_session : /\ file' = [file EXCEPT ![n] = Free]
                              /\ ng_session' = ng_session \ {n}
  BY DEF EndSession
<1>2. /\ n \in Numbers /\ file[n] = Socket /\ thread[t].at = "wait"
      /\ UNCHANGED <<stage, created, vpnInterface, thread_id, joined, thread, pipe, asked>>
  BY DEF EndSession, IInv, TypeOK, SocketsListed
<1>3. TypeOK'
  BY <1>1, <1>2, FilesAre, SMTT(20) DEF IInv, TypeOK
<1>4. OneThread' /\ OwnStop' /\ Heard'
  BY <1>2 DEF IInv, OneThread, OwnStop, Heard, Alive, Running
<1>5. OneTun' /\ Asked'
  BY <1>1, <1>2 DEF IInv, TypeOK, OneTun, Asked
<1>6. SessionsOfLoop' /\ SocketsListed'
  BY <1>1, <1>2 DEF IInv, TypeOK, SessionsOfLoop, SocketsListed, Running
<1> QED
  BY <1>3, <1>4, <1>5, <1>6 DEF IInv

\* The pipe that epoll watches is the present one, and its byte was written
\* for this thread.
LEMMA PipeEventIInv == ASSUME IInv, NEW t \in Threads, PipeEvent(t) PROVE IInv'
<1>1. /\ Goes(t, "end") /\ "end" \in Places /\ Alive(t) /\ Running(t) /\ TypeOK
      /\ pipe[thread[t].pipe] > 0
      /\ pipe' = [pipe EXCEPT ![created] = IF @ > 0 THEN @ - 1 ELSE 0]
      /\ UNCHANGED <<stage, created, vpnInterface, thread_id, joined, file, ng_session,
                     asked>>
  BY DEF PipeEvent, Places, Alive, Running, IInv
<1>2. t = created /\ thread[t].pipe = created /\ t \in asked
  BY <1>1 DEF IInv, OneThread, Asked
<1>3. TypeOK'
  <2>1. pipe' \in [Threads -> 0 .. 1]
    BY <1>1, <1>2 DEF TypeOK
  <2> QED
    BY <1>1, <2>1, GoesType DEF TypeOK, ThreadStates
<1>4. OneThread' /\ OwnStop' /\ Heard'
  BY <1>1, <1>2, GoesType DEF IInv, OneThread, OwnStop, Heard, Alive, Running
<1>5. OneTun' /\ SocketsListed'
  BY <1>1 DEF IInv, OneTun, SocketsListed
<1>6. Asked'
  BY <1>1, <1>2 DEF IInv, TypeOK, Asked
<1>7. SessionsOfLoop'
  BY <1>1, <1>2, GoesType DEF IInv, SessionsOfLoop, Running
<1> QED
  BY <1>3, <1>4, <1>5, <1>6, <1>7 DEF IInv

\* When the thread ends onDestroy is waiting for it, and will clear.
LEMMA EndIInv == ASSUME IInv, NEW t \in Threads, End(t) PROVE IInv'
<1>1. /\ Goes(t, "gone") /\ "gone" \in Places /\ Alive(t) /\ TypeOK
      /\ t = created /\ t \in asked /\ thread_id' = 0
      /\ UNCHANGED <<stage, created, vpnInterface, joined, file, pipe, ng_session, asked>>
  BY DEF End, Places, Alive, IInv, OneThread, OwnStop
<1>2. stage = "join"
  BY <1>1 DEF IInv, OneThread, Asked
<1>3. TypeOK'
  BY <1>1, GoesType DEF TypeOK, ThreadStates
<1>4. OneThread' /\ OwnStop' /\ Heard'
  BY <1>1, GoesType DEF IInv, OneThread, OwnStop, Heard, Alive, Running
<1>5. OneTun' /\ Asked' /\ SocketsListed' /\ SessionsOfLoop'
  BY <1>1, <1>2 DEF IInv, OneTun, Asked, SocketsListed, SessionsOfLoop
<1> QED
  BY <1>3, <1>4, <1>5 DEF IInv

LEMMA HandleEventsIInv == ASSUME IInv, NEW t \in Threads, HandleEvents(t) PROVE IInv'
<1>1. CASE TunEvent(t) \/ TunReadable(t) \/ TunEmpty(t)
  BY <1>1, GoesIInv DEF TunEvent, TunReadable, TunEmpty, Running
<1> QED
  BY <1>1, AttachFailsIInv, SetupIInv, ReadIInv, EndSessionIInv, PipeEventIInv, EndIInv
  DEF HandleEvents
-----------------------------------------------------------------------------
(* The rest of the process, and the theorems.                              *)

LEMMA OthersIInv ==
    ASSUME IInv, NEW n \in Numbers, OtherOpens(n) \/ OtherCloses(n)
    PROVE  IInv'
<1>1. /\ file[n] \in {Free, Other}
      /\ \E f \in {Free, Other} : file' = [file EXCEPT ![n] = f]
      /\ UNCHANGED <<stage, created, vpnInterface, thread_id, joined, thread, pipe,
                     ng_session, asked>>
  BY DEF OtherOpens, OtherCloses
<1>2. TypeOK'
  BY <1>1, FilesAre DEF IInv, TypeOK
<1>3. OneThread' /\ OwnStop' /\ Heard'
  BY <1>1 DEF IInv, OneThread, OwnStop, Heard, Alive, Running
<1>4. OneTun' /\ Asked' /\ SessionsOfLoop'
  BY <1>1 DEF IInv, TypeOK, OneTun, Asked, SessionsOfLoop, Running
<1>5. SocketsListed'
  BY <1>1 DEF IInv, TypeOK, SocketsListed
<1> QED
  BY <1>2, <1>3, <1>4, <1>5 DEF IInv

LEMMA NextIInv == ASSUME IInv, [Next]_vars PROVE IInv'
<1>1. CASE OnCreate
  BY <1>1, JniInitIInv, SetupVPNIInv, JniStartIInv DEF OnCreate
<1>2. CASE OnDestroy
  BY <1>2, CloseVPNIInv, JniStopIInv, JoinReturnsIInv, ClearIInv DEF OnDestroy
<1>3. CASE \E t \in Threads : HandleEvents(t)
  BY <1>3, HandleEventsIInv
<1>4. CASE \E n \in Numbers : OtherOpens(n) \/ OtherCloses(n)
  BY <1>4, OthersIInv
<1>5. CASE UNCHANGED vars
  BY <1>5 DEF vars, IInv, TypeOK, OneThread, OneTun, Asked, SessionsOfLoop, OwnStop,
              Heard, SocketsListed, Alive, Running
<1> QED
  BY <1>1, <1>2, <1>3, <1>4, <1>5, ProcessDiesIInv DEF Next

\* The inductive invariant holds in every reachable state, for any number of
\* creations and any descriptors.
THEOREM Invariance == Spec => []IInv
  BY InitIInv, NextIInv, PTL DEF Spec

\* Every variable has its type; jni_stop waits only for threads.
THEOREM TypeCorrect == Spec => []TypeOK
<1>1. IInv => TypeOK
  BY DEF IInv
<1> QED
  BY <1>1, Invariance, PTL

\* Without the lock, init and clear have the list of sessions to themselves,
\* because thread_id names the only thread and the join waits for it.
THEOREM ListHasOwner == Spec => []ListOwned
<1>1. IInv => ListOwned
  BY DEF IInv, OneThread, ListOwned, Alive, Running
<1> QED
  BY <1>1, Invariance, PTL

\* Outside onDestroy the loop reads and writes its own tun device: cleanup is
\* the only one that closes it, and the join comes before the next establish.
THEOREM TunOwned == Spec => []TunIsOwn
<1>1. IInv => TunIsOwn
  BY DEF IInv, OneThread, OneTun, TunIsOwn, AtTun, Alive, Running
<1> QED
  BY <1>1, Invariance, PTL

\* A loop ends only when its own service asked it to.
THEOREM StopsWhenAsked == Spec => []OwnStop
<1>1. IInv => OwnStop
  BY DEF IInv
<1> QED
  BY <1>1, Invariance, PTL

\* The list is that of the sessions' sockets, and none of these is left when
\* the service is gone; what was opened without a session is.
THEOREM NoSocketLeft == Spec => []SocketsListed
<1>1. IInv => SocketsListed
  BY DEF IInv
<1> QED
  BY <1>1, Invariance, PTL
-----------------------------------------------------------------------------
(* The service implements LoopLife.                                        *)

\* What is not the thread's, and leaves the list and the number of the service
\* alone, changes nothing that LoopLife shows.
LEMMA LoopSame ==
    ASSUME IInv, UNCHANGED <<created, thread, ng_session>>,
           created \in Threads => /\ pipe'[created] = pipe[created]
                                  /\ (stage' \in {"join", "clear"}) = (stage \in {"join", "clear"})
    PROVE  UNCHANGED Loop!vars
  BY DEF Loop!vars, LoopStage, LoopAsked, Serving, Cleared, Alive

\* The process of a service that was never created is as good as none.
LEMMA DieLoop == ASSUME IInv, ProcessDies PROVE [Loop!Next]_(Loop!vars)
<1>1. created' = 0 /\ ng_session' = {} /\ LoopStage' = "dead" /\ LoopAsked' = FALSE
  BY DEF ProcessDies, LoopStage, LoopAsked, Serving
<1>2. CASE created = 0
  <2>1. stage = "none" /\ ng_session = {}
    BY <1>2 DEF IInv, Asked, SocketsListed
  <2>2. LoopStage = "dead" /\ LoopAsked = FALSE
    BY <1>2 DEF LoopStage, LoopAsked, Serving
  <2> QED
    BY <1>1, <2>1, <2>2 DEF Loop!vars
<1>3. CASE created # 0
  <2>1. LoopStage # "dead"
    BY <1>3 DEF LoopStage
  <2> QED
    BY <1>1, <2>1 DEF Loop!Next, Loop!Die
<1> QED
  BY <1>2, <1>3

\* A new service finds nothing of the one before: no thread, no sessions.
LEMMA JniInitLoop == ASSUME IInv, JniInit PROVE [Loop!Next]_(Loop!vars)
<1>1. /\ stage = "none" /\ stage' = "establish" /\ ng_session = {} /\ ng_session' = {}
      /\ created \in 0 .. MaxCreates /\ created' = created + 1 /\ created' \in Threads
      /\ thread' = thread
  BY DEF JniInit, Enter, IInv, TypeOK, SocketsListed
<1>2. \A t \in Threads : ~Alive(t)
  BY <1>1 DEF IInv, OneThread
<1>3. LoopStage' = "off" /\ LoopAsked' = FALSE
  BY <1>1, <1>2 DEF LoopStage, LoopAsked, Serving, Cleared, Alive
<1>4. CASE created = 0
  <2>1. LoopStage = "dead" /\ LoopAsked = FALSE
    BY <1>4 DEF LoopStage, LoopAsked, Serving
  <2> QED
    BY <1>1, <1>3, <2>1 DEF Loop!Next, Loop!Boot
<1>5. CASE created # 0
  <2>1. LoopStage = "off" /\ LoopAsked = FALSE
    BY <1>1, <1>2, <1>5 DEF LoopStage, LoopAsked, Serving, Cleared
  <2> QED
    BY <1>1, <1>3, <2>1 DEF Loop!vars
<1> QED
  BY <1>4, <1>5

\* jni_start: the list is empty, and no byte waits in the pipe.
LEMMA JniStartLoop == ASSUME IInv, JniStart PROVE [Loop!Next]_(Loop!vars)
<1>1. /\ stage = "start" /\ stage' = "running" /\ created \in Threads /\ pipe[created] = 0
      /\ ng_session = {}
      /\ UNCHANGED <<created, vpnInterface, joined, file, pipe, ng_session, asked>>
  BY DEF JniStart, Enter, IInv, Asked, SessionsOfLoop
<1>2. CASE thread' = thread
  BY <1>1, <1>2, LoopSame
<1>3. CASE thread' # thread
  <2>1. thread'[created].at = "new" /\ thread \in [Threads -> ThreadStates]
    BY <1>1, <1>3, ThreadType DEF JniStart, IInv
  <2>2. ~Alive(created) /\ created # 0
    BY <1>1 DEF IInv, OneThread
  <2>3. LoopStage = "off" /\ LoopAsked = FALSE
    BY <1>1, <2>2 DEF LoopStage, LoopAsked, Serving, Cleared
  <2>4. LoopStage' = "on" /\ LoopAsked' = FALSE
    BY <1>1, <2>1, <2>2 DEF LoopStage, LoopAsked, Serving, Alive
  <2> QED
    BY <1>1, <2>3, <2>4 DEF Loop!Next, Loop!Start
<1> QED
  BY <1>2, <1>3

\* jni_stop asks a loop that nobody asked before.
LEMMA JniStopLoop == ASSUME IInv, JniStop PROVE [Loop!Next]_(Loop!vars)
<1>1. /\ stage = "stop" /\ created \in Threads /\ pipe[created] = 0 /\ created \notin asked
      /\ pipe \in [Threads -> 0 .. 1]
      /\ UNCHANGED <<created, vpnInterface, thread_id, thread, file, ng_session>>
  BY DEF JniStop, IInv, TypeOK, Asked
<1>2. CASE Alive(thread_id)
  <2>1. thread_id = created /\ created # 0
    BY <1>1, <1>2 DEF IInv, OneThread, Alive
  <2>2. pipe'[created] = 1
    BY <1>1, <1>2 DEF JniStop, Wake
  <2>3. Serving
    BY <1>1, <1>2, <2>1 DEF IInv, OwnStop, Serving
  <2>4. Serving'
    BY <1>1, <2>3 DEF Serving, Alive
  <2>5. LoopStage = "on" /\ LoopStage' = "on" /\ LoopAsked = FALSE /\ LoopAsked' = TRUE
    BY <1>1, <2>1, <2>2, <2>3, <2>4 DEF LoopStage, LoopAsked
  <2> QED
    BY <1>1, <2>5 DEF Loop!Next, Loop!Ask
<1>3. CASE ~Alive(thread_id)
  BY <1>1, <1>3, LoopSame DEF JniStop, Enter
<1> QED
  BY <1>2, <1>3

\* The service clears the list of a loop that is done.
LEMMA ClearLoop == ASSUME IInv, Clear PROVE [Loop!Next]_(Loop!vars)
<1>1. /\ stage = "clear" /\ stage' = "none" /\ created \in Threads /\ created # 0
      /\ ng_session' = {} /\ UNCHANGED <<created, thread, pipe>>
  BY DEF Clear, Enter, IInv, Asked
<1>2. ~Alive(created)
  BY <1>1 DEF IInv, OneThread
<1>3. LoopStage = "done" /\ LoopAsked = FALSE
  BY <1>1, <1>2 DEF LoopStage, LoopAsked, Serving, Cleared
<1>4. LoopStage' = "off" /\ LoopAsked' = FALSE
  BY <1>1, <1>2 DEF LoopStage, LoopAsked, Serving, Cleared, Alive
<1> QED
  BY <1>1, <1>3, <1>4 DEF Loop!Next, Loop!Clear

\* From establish to the join.
LEMMA ServiceLoop ==
    ASSUME IInv, OnCreate \/ OnDestroy
    PROVE  [Loop!Next]_(Loop!vars)
<1>1. CASE SetupVPN
  <2>1. CASE ProcessDies
    BY <2>1, DieLoop
  <2>2. CASE ~ProcessDies
    BY <1>1, <2>2, LoopSame DEF SetupVPN, Enter
  <2> QED
    BY <2>1, <2>2
<1>2. CASE CloseVPN
  BY <1>2, LoopSame DEF CloseVPN, Enter
<1>3. CASE JoinReturns
  BY <1>3, LoopSame DEF JoinReturns, Enter
<1> QED
  BY <1>1, <1>2, <1>3, JniInitLoop, JniStartLoop, JniStopLoop, ClearLoop
  DEF OnCreate, OnDestroy

\* The thread goes on to serve; only then may the list change.
LEMMA WorkLoop ==
    ASSUME IInv, NEW t \in Threads, Alive(t), thread[t].at # "end",
           thread'[t].at \in {"wait", "serve", "read", "blocked"},
           UNCHANGED <<created, pipe>>
    PROVE  Loop!Work
<1>1. t = created /\ created # 0
  BY DEF IInv, OneThread
<1>2. Serving /\ Serving'
  BY <1>1 DEF Serving, Alive
<1>3. LoopStage = "on" /\ LoopStage' = "on" /\ LoopAsked' = LoopAsked
  BY <1>1, <1>2 DEF LoopStage, LoopAsked
<1> QED
  BY <1>3 DEF Loop!Work

\* A thread that is not taken by the Java VM ends: unasked it had no sessions,
\* asked it leaves as any loop does.
LEMMA AttachFailsLoop ==
    ASSUME IInv, NEW t \in Threads, AttachFails(t)
    PROVE  Loop!Next
<1>1. /\ thread[t].at = "new" /\ Alive(t) /\ t = created /\ created # 0
      /\ stage \in {"running", "stop", "join"} /\ thread'[t].at = "gone"
      /\ UNCHANGED <<stage, created, pipe, ng_session, asked>>
  BY GoesType DEF AttachFails, Alive, IInv, OneThread, Places
<1>2. LoopStage = "on" /\ LoopAsked = (pipe[created] > 0)
  BY <1>1 DEF LoopStage, LoopAsked, Serving
<1>3. LoopAsked' = FALSE /\ ~Serving'
  BY <1>1 DEF LoopAsked, Serving, Alive
<1>4. CASE stage # "join"
  <2>1. ng_session = {}
    BY <1>1, <1>4 DEF IInv, SessionsOfLoop, Running
  <2>2. LoopAsked = FALSE
    <3>1. pipe[created] = 0
      BY <1>1, <1>4 DEF IInv, Asked
    <3> QED
      BY <3>1 DEF LoopAsked
  <2>3. LoopStage' = "off"
    BY <1>1, <1>3, <1>4 DEF LoopStage, Cleared, Alive
  <2> QED
    BY <1>1, <1>2, <1>3, <2>1, <2>2, <2>3 DEF Loop!Next, Loop!Fall
<1>5. CASE stage = "join"
  <2>1. LoopStage' = "done"
    BY <1>1, <1>3, <1>5 DEF LoopStage, Cleared
  <2>2. LoopAsked = TRUE
    BY <1>1, <1>2, <1>5 DEF IInv, Heard, Alive
  <2> QED
    BY <1>1, <1>2, <1>3, <2>1, <2>2 DEF Loop!Next, Loop!Finish
<1> QED
  BY <1>4, <1>5

\* The loop reads the byte that was written for it, and no other is left.
LEMMA PipeEventLoop ==
    ASSUME IInv, NEW t \in Threads, PipeEvent(t)
    PROVE  Loop!Next
<1>1. /\ thread[t].at = "wait" /\ Alive(t) /\ Running(t) /\ t = created /\ created # 0
      /\ thread[t].pipe = created /\ thread'[t].at = "end"
      /\ UNCHANGED <<stage, created, ng_session, asked>>
  BY GoesType DEF PipeEvent, Alive, Running, IInv, OneThread, Places
<1>2. pipe[created] > 0 /\ pipe \in [Threads -> 0 .. 1]
  BY <1>1 DEF PipeEvent, IInv, TypeOK
<1>3. LoopStage = "on" /\ LoopAsked = TRUE
  BY <1>1, <1>2 DEF LoopStage, LoopAsked, Serving
<1>4. LoopStage' = "done" /\ LoopAsked' = FALSE
  BY <1>1 DEF LoopStage, LoopAsked, Serving, Cleared, Alive
<1> QED
  BY <1>1, <1>3, <1>4 DEF Loop!Next, Loop!Finish

\* The end of the thread, for which the join waits, shows nothing new.
LEMMA EndLoop ==
    ASSUME IInv, NEW t \in Threads, End(t)
    PROVE  UNCHANGED Loop!vars
<1>1. /\ thread[t].at = "end" /\ Alive(t) /\ t = created /\ created # 0 /\ t \in asked
      /\ stage \in {"running", "stop", "join"} /\ thread'[t].at = "gone"
      /\ UNCHANGED <<stage, created, pipe, ng_session>>
  BY GoesType DEF End, Alive, IInv, OneThread, OwnStop, Places
<1>2. stage = "join"
  BY <1>1 DEF IInv, Asked
<1>3. LoopStage = "done" /\ LoopAsked = FALSE
  BY <1>1 DEF LoopStage, LoopAsked, Serving, Cleared
<1>4. LoopStage' = "done" /\ LoopAsked' = FALSE
  BY <1>1, <1>2 DEF LoopStage, LoopAsked, Serving, Cleared, Alive
<1> QED
  BY <1>1, <1>3, <1>4 DEF Loop!vars

LEMMA HandleEventsLoop ==
    ASSUME IInv, NEW t \in Threads, HandleEvents(t)
    PROVE  [Loop!Next]_(Loop!vars)
<1>1. TypeOK
  BY DEF IInv
<1>2. CASE ProcessDies
  BY <1>2, DieLoop
<1>3. CASE EndSession(t)
  <2>1. thread' = thread /\ thread[t].at = "wait" /\ UNCHANGED <<created, pipe>>
    BY <1>3 DEF EndSession
  <2> QED
    BY <2>1, WorkLoop DEF Alive, Loop!Next
<1>4. CASE /\ ~ProcessDies
           /\ \/ Setup(t) \/ ReadTun(t) \/ ReadReturns(t)
              \/ TunEvent(t) \/ TunReadable(t) \/ TunEmpty(t)
  <2>1. Alive(t) /\ thread[t].at # "end" /\ UNCHANGED <<created, pipe>>
    BY <1>4 DEF Setup, ReadTun, ReadReturns, TakePacket, TunEvent, TunReadable, TunEmpty, Alive
  <2>2. thread'[t].at \in {"wait", "serve", "read", "blocked"}
    <3>1. CASE Setup(t)
      <4>1. /\ thread \in [Threads -> ThreadStates]
            /\ thread' = [thread EXCEPT ![t] = [@ EXCEPT !.at = "wait", !.pipe = created,
                                                        !.sees = AtTun(t)]]
        BY <1>1, <1>4, <3>1, ThreadType, <2>1 DEF Setup
      <4> QED
        BY <4>1 DEF ThreadStates
    <3>2. CASE ~Setup(t)
      BY <1>1, <1>4, <3>2, GoesType
      DEF ReadTun, ReadReturns, TakePacket, TunEvent, TunReadable, TunEmpty, Places
    <3> QED
      BY <3>1, <3>2
  <2> QED
    BY <2>1, <2>2, WorkLoop DEF Loop!Next
<1> QED
  BY <1>2, <1>3, <1>4, AttachFailsLoop, PipeEventLoop, EndLoop DEF HandleEvents

\* Every step of the service, its thread and the process is one of LoopLife.
LEMMA NextLoop == ASSUME IInv, [Next]_vars PROVE [Loop!Next]_(Loop!vars)
<1>1. CASE \E n \in Numbers : OtherOpens(n) \/ OtherCloses(n)
  BY <1>1, LoopSame DEF OtherOpens, OtherCloses
<1>2. CASE UNCHANGED vars
  BY <1>2, LoopSame DEF vars
<1> QED
  BY <1>1, <1>2, ServiceLoop, HandleEventsLoop, DieLoop DEF Next

\* The service keeps the protocol of LoopLife, however often it is created and
\* destroyed: one loop at a time, started with an empty list, asked once,
\* waited for and then cleared.
THEOREM LoopsInTurn == Spec => ImplementsLoop
<1>1. Init => Loop!Init
  BY DEF Init, Loop!Init, LoopStage, LoopAsked, Serving
<1> QED
  BY <1>1, NextLoop, Invariance, PTL DEF Spec, ImplementsLoop, Loop!Spec
=============================================================================
