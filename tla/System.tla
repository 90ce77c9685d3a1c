--------------------------------- MODULE System ---------------------------------
(***************************************************************************)
(* The client, TCP and the server's loop together: what becomes of a block  *)
(* of test.txt between send and the server's list, when the server cuts     *)
(* connections off, ends and is started again.  There is no other client:    *)
(* TcpServer has those.                                                     *)
(***************************************************************************)
EXTENDS TcpServer, TcpClient

\* The sockets socket() may return: Conn are numbers, used in their order.
Fresh == {c \in Conn : cli[c] = "none" /\ \A d \in 1 .. c - 1 : cli[d] # "none"}

sysVars == <<serverVars, clientVars>>

SysInit == ServerInit /\ ClientInit

Client == MainNext(Fresh, up) /\ UNCHANGED loopVars

Sender == ThreadNext(Fresh, up) /\ UNCHANGED loopVars

Interrupt == Signal /\ UNCHANGED loopVars

Server == ServerStep /\ UNCHANGED clientVars

Rest == UNCHANGED sysVars

SysNext == Client \/ Sender \/ Interrupt \/ Server \/ Rest

SysSpec == SysInit /\ [][SysNext]_sysVars

\* As for the server alone; main and the sending thread go on when they can.
SysFairSpec ==
    /\ SysSpec
    /\ WF_sysVars(RecvStep /\ UNCHANGED clientVars)
    /\ WF_sysVars(Net /\ UNCHANGED clientVars)
    /\ WF_sysVars(Client) /\ WF_sysVars(Sender)

-----------------------------------------------------------------------------

SysTypeOK == ServerTypeOK /\ ClientTypeOK

\* From send to the server's list no block is doubled or overtaken, although the
\* client sends a block again after a reset and the server ends at any time
\* (tcp_client.c:70-79, tcp_server.c:139-182).
Wire == INSTANCE LossyRelay WITH delivered <- queue

InOrderAtMostOnce == Wire!Spec

\* A restart whose outcome nobody looks at leaves no client that goes on with a
\* socket that was never connected: while the sending thread lives, sockfd is
\* either a connection or not a descriptor at all (tcp_client.c:63-82).
SendsOnConnected ==
    Alive /\ pcT \in {"read", "send"} /\ sock # NULL => cli[sock] # "none"

\* SIGPIPE ends the client only when the server has closed this connection, or had
\* ended before a restart could connect (tcp_client.c:70-79).
PipeOnlyWithoutServer ==
    client = "pipe" =>
        IF cli[sock] = "none" THEN crashes > 0 ELSE srv[sock] = "closed"

\* Once it has opened test.txt the client does not crash, not even on a signal:
\* what the handler destroys is no longer used.  A second signal may find the
\* lock destroyed (clientMain.c:10-56).
NoCrashWhileSending ==
    client = "crash" => pcT \in {"none", "open", "ended"} \/ pcC = "hlast"

\* A block the kernel has taken reaches the server's list, unless the server closes
\* the connection or the break hides it (tcp_server.c:91-198).
EveryBlockQueued ==
    \A c \in Conn, u \in Unit :
        u \in Range(sentBy[c]) ~>
            u \in Range(queue) \/ srv[c] = "closed" \/ c \in deaf

-----------------------------------------------------------------------------
(* The inductive invariant under the safety properties.                     *)

\* The server may still take something from the connection.
Live(c) == srv[c] \in {"backlog", "open"}

\* What the client knows of the server's end is true, and only a live connection
\* has units to be received.
EndsAgree ==
    \A c \in Conn :
        /\ note[c] # "no" \/ cli[c] \in {"fin", "reset", "broken"} => srv[c] = "closed"
        /\ rbuf[c] # <<>> => Live(c)

\* No two connections are live; the client's own is the one that may be, and there
\* is none where it is about to make another.
OneLive ==
    /\ \A c, d \in Conn : Live(c) /\ Live(d) => c = d
    /\ \A c \in Conn : Live(c) /\ sock # NULL => c = sock
    /\ Alive /\ (pcT \in {"close", "socket", "connect"} \/ pcC \in {"socket", "connect"}) =>
            \A c \in Conn : ~ Live(c)

\* Strictly increasing, and no unit after the n-th.
Ascending(s, n) ==
    /\ \A i, j \in 1 .. Len(s) : i < j => s[i] < s[j]
    /\ \A i \in 1 .. Len(s) : s[i] <= n

\* Behind the server's list comes what is still on the live connection.
WireInOrder ==
    /\ Ascending(queue, sent)
    /\ \A c \in Conn : Live(c) => Ascending(queue \o rbuf[c] \o flight[c], sent)

\* Where sockfd is a socket that is not connected.
SocketInv ==
    /\ pcC \in {"socket", "connect", "lock", "create"} => pcT = "none"
    /\ Alive => /\ pcC = "connect" => sock \in Conn
                /\ pcT = "socket" => sock = NULL
                /\ sock # NULL /\ (pcC = "connect" \/ pcT = "connect") => cli[sock] = "none"
                /\ sock # NULL /\ (pcC \in {"lock", "create"}
                        \/ pcT \notin {"none", "connect", "resend"}) => cli[sock] # "none"
                /\ sock # NULL /\ pcT = "resend" /\ cli[sock] = "none" => crashes > 0

\* When the server is not there, and what SIGPIPE found.
PipeInv ==
    /\ ~ up => crashes > 0
    /\ client = "pipe" => sock # NULL /\ PipeOnlyWithoutServer

\* Who has destroyed the lock.
LockInv ==
    /\ pcC \in {"destroy", "return"} => pcT = "ended"
    /\ rwlock = "freed" => pcC \in {"hexit", "hagain", "hlast"} \/ pcT = "ended"
    /\ NoCrashWhileSending

SysInv ==
    /\ SysTypeOK
    /\ NeverBlocks /\ Unused
    /\ EndsAgree /\ OneLive /\ WireInOrder
    /\ SocketInv /\ PipeInv /\ LockInv
===============================================================================
