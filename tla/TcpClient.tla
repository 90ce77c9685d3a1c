------------------------------- MODULE TcpClient -------------------------------
(***************************************************************************)
(* The client: main, the sending thread and the signal handler of           *)
(* clientMain.c, the connection of tcp_client.c and the reading of          *)
(* test.txt in rpio_read.c.                                                 *)
(*                                                                         *)
(* g_handle.sockfd is a number.  socket() gives the lowest free one, so the *)
(* number tcp_socket_restart closes is the number of the new socket: sock   *)
(* is the connection it stands for, whether connect succeeds or not.        *)
(***************************************************************************)
EXTENDS Tcp

CONSTANTS
    NULL,
    Blocks,         \* how many blocks of 1024 bytes test.txt has
    ClientFaults    \* which calls may fail

ASSUME ClientAssumption ==
    /\ Blocks \in Nat \ {0}
    /\ NULL \notin Conn
    /\ ClientFaults \subseteq {"socket", "malloc", "thread", "open", "signal"}

VARIABLES
    pcC,            \* main and, after a signal, ExitProcess on top of it, twice
                    \* when the other signal follows
    pcT,            \* the sending thread
    sock,           \* the socket behind g_handle.sockfd, or NULL
    rwlock,         \* s_rpioDataLock: "null", "made" or "freed"
    pos,            \* the blocks of test.txt read in this pass
    client          \* the process: "run", "exit", "crash", or "pipe" (SIGPIPE)

clientVars == <<pcC, pcT, sock, rwlock, pos, client>>

ClientInit ==
    /\ pcC = "socket" /\ pcT = "none"
    /\ sock = NULL /\ rwlock = "null" /\ pos = 0
    /\ client = "run"

Alive == client = "run"

\* The process is gone, and the kernel closes its sockets.
ClientEnds(how) ==
    /\ client' = how
    /\ CloseAll(IF sock = NULL THEN {} ELSE {sock})

Stays == UNCHANGED client /\ UNCHANGED tcpVars

-----------------------------------------------------------------------------
(* main.                                                                   *)

\* socket() returns an unused socket; connect is refused when nobody listens.
MainSocket(c) ==
    /\ Alive /\ pcC = "socket"
    /\ pcC' = "connect"
    /\ \/ sock' = c /\ Stays
       \/ "socket" \in ClientFaults /\ ClientEnds("exit") /\ UNCHANGED sock
    /\ UNCHANGED <<pcT, rwlock, pos>>

MainConnect(listening) ==
    /\ Alive /\ pcC = "connect"
    /\ pcC' = "lock"
    /\ IF listening THEN Connect(sock) /\ UNCHANGED client ELSE ClientEnds("exit")
    /\ UNCHANGED <<pcT, sock, rwlock, pos>>

\* rpioDataLockInit: rw_mutex_create, whose NULL nobody looks at.
MainLock ==
    /\ Alive /\ pcC = "lock"
    /\ pcC' = "create"
    /\ \/ rwlock' = "made"
       \/ "malloc" \in ClientFaults /\ UNCHANGED rwlock
    /\ UNCHANGED <<tcpVars, pcT, sock, pos, client>>

\* pthread_create; when it fails, pthread_join follows an arbitrary pthread_t.
MainCreate ==
    /\ Alive /\ pcC = "create"
    /\ pcC' = "join"
    /\ \/ pcT' = "rlock" /\ Stays
       \/ "thread" \in ClientFaults /\ ClientEnds("crash") /\ UNCHANGED pcT
    /\ UNCHANGED <<sock, rwlock, pos>>

\* The thread ends only when it has no lock or no file; then main closes the
\* socket, and the kernel's closing of sock comes to the same.
MainJoin ==
    /\ Alive /\ pcC = "join" /\ pcT = "ended"
    /\ pcC' = "destroy"
    /\ CloseAll({sock}) /\ sock' = NULL
    /\ UNCHANGED <<pcT, rwlock, pos, client>>

\* rw_mutex_destroy: nothing for NULL, and a second time undefined.
Destroy ==
    IF rwlock = "freed"
    THEN ClientEnds("crash") /\ UNCHANGED rwlock
    ELSE rwlock' = (IF rwlock = "made" THEN "freed" ELSE rwlock) /\ Stays

MainDestroy ==
    /\ Alive /\ pcC = "destroy"
    /\ pcC' = "return"
    /\ Destroy
    /\ UNCHANGED <<pcT, sock, pos>>

MainReturn ==
    /\ Alive /\ pcC = "return"
    /\ ClientEnds("exit")
    /\ UNCHANGED <<pcC, pcT, sock, rwlock, pos>>

\* ExitProcess, at any point of main or, for the other signal, of the first
\* ExitProcess.  sockfd is 0 until main has connected, and 3 even after it has been
\* closed.
Signal ==
    /\ Alive /\ "signal" \in ClientFaults
    /\ pcC \notin {"hagain", "hlast"}
    /\ pcC' = IF pcC \in {"hdestroy", "hexit"} THEN "hagain" ELSE "hdestroy"
    /\ IF pcC \in {"socket", "connect"} \/ sock = NULL
       THEN UNCHANGED <<tcpVars, sock>>
       ELSE CloseAll({sock}) /\ sock' = NULL
    /\ UNCHANGED <<pcT, rwlock, pos, client>>

HandlerDestroy ==
    /\ Alive /\ pcC \in {"hdestroy", "hagain"}
    /\ pcC' = IF pcC = "hdestroy" THEN "hexit" ELSE "hlast"
    /\ Destroy
    /\ UNCHANGED <<pcT, sock, pos>>

HandlerExit ==
    /\ Alive /\ pcC \in {"hexit", "hlast"}
    /\ ClientEnds("exit")
    /\ UNCHANGED <<pcC, pcT, sock, rwlock, pos>>

MainNext(fresh, listening) ==
    \/ \E c \in fresh : MainSocket(c)
    \/ MainConnect(listening) \/ MainLock \/ MainCreate
    \/ MainJoin \/ MainDestroy \/ MainReturn
    \/ HandlerDestroy \/ HandlerExit

-----------------------------------------------------------------------------
(* send_fun.                                                               *)

\* A lock that has been destroyed: anything may happen, or nothing.
UseLock == Stays \/ (rwlock = "freed" /\ ClientEnds("crash"))

\* rw_mutex_rlock: nobody contends, so the first try succeeds; without a lock it
\* returns ERR_INVALID_ARGS.
ThreadLock ==
    /\ Alive /\ pcT = "rlock"
    /\ UseLock
    /\ pcT' = IF rwlock = "null" THEN "ended" ELSE "open"
    /\ UNCHANGED <<pcC, sock, rwlock, pos>>

\* openRPIOFile_R; when it fails the lock is given back.
ThreadOpen ==
    /\ Alive /\ pcT = "open"
    /\ \/ pcT' = "read" /\ Stays
       \/ /\ "open" \in ClientFaults
          /\ pcT' = "ended"
          /\ UseLock
    /\ UNCHANGED <<pcC, sock, rwlock, pos>>

\* A mutant of ThreadRead: the lock is taken for each pass over the file.
ThreadReadLocks ==
    /\ Alive /\ pcT = "read"
    /\ UseLock
    /\ IF pos < Blocks
       THEN pos' = pos + 1 /\ pcT' = "send"
       ELSE pos' = 0 /\ UNCHANGED pcT
    /\ UNCHANGED <<pcC, sock, rwlock>>

\* A mutant of ThreadRead: one more block is read than there is.
ThreadReadPast ==
    /\ Alive /\ pcT = "read"
    /\ IF pos <= Blocks
       THEN pos' = pos + 1 /\ pcT' = "send"
       ELSE pos' = 0 /\ UNCHANGED pcT
    /\ UNCHANGED <<tcpVars, pcC, sock, rwlock, client>>

\* transfer_data: the next block, or the end of the file and from its start.
ThreadRead ==
    /\ Alive /\ pcT = "read"
    /\ IF pos < Blocks
       THEN pos' = pos + 1 /\ pcT' = "send"
       ELSE pos' = 0 /\ UNCHANGED pcT
    /\ UNCHANGED <<tcpVars, pcC, sock, rwlock, client>>

\* The outcomes of send.
SendOk == sock # NULL /\ Send(sock) /\ UNCHANGED client
SendRefused(errno) ==
    /\ sock # NULL /\ cli[sock] = errno
    /\ cli' = [cli EXCEPT ![sock] = "broken"]
    /\ UNCHANGED <<srv, flight, rbuf, hup, note, edge, sent, sentBy, client>>
SendPipe ==
    /\ sock # NULL /\ cli[sock] \in {"none", "broken"}
    /\ ClientEnds("pipe")
SendBadf == sock = NULL /\ Stays

\* tcp_client_send_data: ECONNRESET, and only that, leads to the restart.
ThreadSend ==
    /\ Alive /\ pcT = "send"
    /\ \/ (SendOk \/ SendPipe \/ SendBadf) /\ pcT' = "read"
       \/ SendRefused("reset") /\ pcT' = "close"
    /\ UNCHANGED <<pcC, sock, rwlock, pos>>

\* sleep(1), and the close of tcp_socket_restart.
RestartClose ==
    /\ Alive /\ pcT = "close"
    /\ CloseAll({sock}) /\ sock' = NULL
    /\ pcT' = "socket"
    /\ UNCHANGED <<pcC, rwlock, pos, client>>

RestartSocket(c) ==
    /\ Alive /\ pcT = "socket"
    /\ \/ sock' = c /\ pcT' = "connect"
       \/ "socket" \in ClientFaults /\ pcT' = "resend" /\ UNCHANGED sock
    /\ UNCHANGED <<tcpVars, pcC, rwlock, pos, client>>

\* A mutant of RestartConnect: the new socket is not connected.
RestartUnconnected(listening) ==
    /\ Alive /\ pcT = "connect"
    /\ pcT' = "resend"
    /\ UNCHANGED <<tcpVars, pcC, sock, rwlock, pos, client>>

\* When connect fails the socket stays as it is: its number is in sockfd already.
RestartConnect(listening) ==
    /\ Alive /\ pcT = "connect"
    /\ IF listening /\ sock # NULL THEN Connect(sock) ELSE UNCHANGED tcpVars
    /\ pcT' = "resend"
    /\ UNCHANGED <<pcC, sock, rwlock, pos, client>>

\* A mutant of Resend: MSG_NOSIGNAL, and still nobody looks at the result.
ResendQuietly ==
    /\ Alive /\ pcT = "resend"
    /\ SendOk \/ SendRefused("reset") \/ SendBadf \/ SendRefused("broken")
        \/ (sock # NULL /\ cli[sock] = "none" /\ Stays)
    /\ pcT' = "read"
    /\ UNCHANGED <<pcC, sock, rwlock, pos>>

\* The same block once more, whether the restart succeeded or not.
Resend ==
    /\ Alive /\ pcT = "resend"
    /\ SendOk \/ SendRefused("reset") \/ SendPipe \/ SendBadf
    /\ pcT' = "read"
    /\ UNCHANGED <<pcC, sock, rwlock, pos>>

ThreadNext(fresh, listening) ==
    \/ ThreadLock \/ ThreadOpen \/ ThreadRead \/ ThreadSend
    \/ RestartClose \/ RestartConnect(listening) \/ Resend
    \/ \E c \in fresh : RestartSocket(c)

ClientTypeOK ==
    /\ pcC \in {"socket", "connect", "lock", "create", "join", "destroy", "return",
                "hdestroy", "hexit", "hagain", "hlast"}
    /\ pcT \in {"none", "rlock", "open", "read", "send", "close", "socket",
                "connect", "resend", "ended"}
    /\ sock \in Conn \cup {NULL}
    /\ rwlock \in {"null", "made", "freed"}
    /\ pos \in 0 .. Blocks
    /\ client \in {"run", "exit", "crash", "pipe"}
================================================================================
