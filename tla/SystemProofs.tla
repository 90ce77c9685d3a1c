------------------------------ MODULE SystemProofs ------------------------------
(***************************************************************************)
(* From send to the server's list no block is doubled or overtaken, and     *)
(* neither SIGPIPE nor the destroyed lock ends the client without reason,   *)
(* for any number of connections, blocks, sends and restarts, and whatever  *)
(* calls fail.                                                              *)
(***************************************************************************)
EXTENDS System, TcpServerProofs

\* The server's part of a step of both is a step of the server alone.
LEMMA ServerAlone ==
    ASSUME Server \/ UNCHANGED sysVars
    PROVE  [Next]_serverVars /\ UNCHANGED clientVars
BY DEF Server, sysVars, Next

ClientStep == Client \/ Sender \/ Interrupt

\* The client's actions.
LEMMA ClientActions ==
    ASSUME ClientStep
    PROVE  /\ \/ \E c \in Fresh : MainSocket(c) \/ RestartSocket(c)
              \/ MainConnect(up) \/ RestartConnect(up)
              \/ MainLock \/ MainCreate \/ MainJoin \/ MainDestroy \/ MainReturn
              \/ Signal \/ HandlerDestroy \/ HandlerExit
              \/ ThreadLock \/ ThreadOpen \/ ThreadRead
              \/ ThreadSend \/ RestartClose \/ Resend
           /\ UNCHANGED loopVars
BY DEF ClientStep, Client, Sender, Interrupt, MainNext, ThreadNext

LEMMA SysActions ==
    ASSUME [SysNext]_sysVars
    PROVE  ClientStep \/ Server \/ UNCHANGED sysVars
BY DEF SysNext, Rest, ClientStep

-----------------------------------------------------------------------------
(* What the client does to its connections.                                 *)

\* A send that fails with ECONNRESET.
Refused ==
    \E c \in Conn : /\ cli[c] = "reset"
                    /\ cli' = [cli EXCEPT ![c] = "broken"]
                    /\ UNCHANGED <<srv, flight, rbuf, hup, note, edge, sent, sentBy>>

Connects ==
    /\ MainConnect(up) \/ RestartConnect(up)
    /\ up /\ sock \in Conn /\ cli[sock] = "none" /\ Connect(sock)

Moves ==
    \/ UNCHANGED tcpVars
    \/ Connects
    \/ sock \in Conn /\ Send(sock)
    \/ \E C : CloseAll(C)
    \/ Refused

LEMMA Movement ==
    ASSUME ClientTypeOK, SocketInv, ClientStep
    PROVE  Moves
<1> USE ClientAssumption DEF ClientAssumption
<1>1. ASSUME NEW how, ClientEnds(how) PROVE Moves
    BY <1>1 DEF ClientEnds, Moves
<1>2. CASE Stays
    BY <1>2 DEF Stays, Moves
<1>3. ASSUME UseLock PROVE Moves
    BY <1>1, <1>2, <1>3 DEF UseLock
<1>4. ASSUME Destroy PROVE Moves
    BY <1>1, <1>2, <1>4 DEF Destroy
<1>5. CASE \E c \in Fresh : MainSocket(c) \/ RestartSocket(c)
    BY <1>1, <1>2, <1>5 DEF MainSocket, RestartSocket, Moves
<1>6. CASE MainConnect(up)
    <2>1. CASE up
        BY <1>6, <2>1 DEF MainConnect, SocketInv, Moves, Connects
    <2>2. CASE ~ up
        BY <1>1, <1>6, <2>2 DEF MainConnect
    <2> QED
        BY <2>1, <2>2
<1>7. CASE RestartConnect(up)
    <2>1. CASE up /\ sock # NULL
        BY <1>7, <2>1 DEF RestartConnect, SocketInv, Moves, Connects, ClientTypeOK
    <2>2. CASE ~ (up /\ sock # NULL)
        BY <1>7, <2>2 DEF RestartConnect, Moves
    <2> QED
        BY <2>1, <2>2
<1>8. CASE MainLock \/ ThreadRead
    BY <1>8 DEF MainLock, ThreadRead, Moves
<1>9. CASE MainCreate
    BY <1>1, <1>2, <1>9 DEF MainCreate
<1>10. CASE MainJoin \/ RestartClose
    BY <1>10 DEF MainJoin, RestartClose, Moves
<1>11. CASE Signal
    BY <1>11 DEF Signal, Moves
<1>12. CASE MainDestroy \/ HandlerDestroy
    BY <1>4, <1>12 DEF MainDestroy, HandlerDestroy
<1>13. CASE MainReturn \/ HandlerExit
    BY <1>1, <1>13 DEF MainReturn, HandlerExit
<1>14. CASE ThreadLock \/ ThreadOpen
    BY <1>2, <1>3, <1>14 DEF ThreadLock, ThreadOpen
<1>15. ASSUME SendOk \/ SendPipe \/ SendBadf \/ SendRefused("reset") PROVE Moves
    <2>1. CASE SendOk
        BY <2>1 DEF SendOk, Moves, ClientTypeOK
    <2>2. CASE SendPipe
        BY <1>1, <2>2 DEF SendPipe
    <2>3. CASE SendBadf
        BY <1>2, <2>3 DEF SendBadf
    <2>4. CASE SendRefused("reset")
        BY <2>4 DEF SendRefused, Moves, Refused, ClientTypeOK
    <2> QED
        BY <1>15, <2>1, <2>2, <2>3, <2>4
<1>16. CASE ThreadSend \/ Resend
    BY <1>15, <1>16 DEF ThreadSend, Resend
<1> QED
    BY <1>5, <1>6, <1>7, <1>8, <1>9, <1>10, <1>11, <1>12, <1>13, <1>14, <1>16,
        ClientActions

\* But for connect nothing changes at the server's end, and no connection begins.
LEMMA Stillness ==
    ASSUME TcpTypeOK, Moves, ~ Connects
    PROVE  /\ UNCHANGED <<srv, rbuf, hup, note, edge>>
           /\ \A c \in Conn : cli'[c] = "none" <=> cli[c] = "none"
<1>0. cli \in [Conn -> CliState]
    BY DEF TcpTypeOK
<1>1. CASE UNCHANGED tcpVars
    BY <1>1 DEF tcpVars
<1>2. CASE sock \in Conn /\ Send(sock)
    BY <1>2 DEF Send
<1>3. ASSUME NEW C, CloseAll(C)
      PROVE  /\ UNCHANGED <<srv, rbuf, hup, note, edge>>
             /\ \A c \in Conn : cli'[c] = "none" <=> cli[c] = "none"
    BY <1>0, <1>3 DEF CloseAll
<1>4. CASE Refused
    BY <1>0, <1>4 DEF Refused
<1> QED
    BY <1>1, <1>2, <1>3, <1>4 DEF Moves

-----------------------------------------------------------------------------
(* Type correctness.                                                        *)

LEMMA ClientTypeStep ==
    ASSUME SysTypeOK, SocketInv, ClientStep
    PROVE  ServerTypeOK'
<1>0. TcpTypeOK /\ ServerTypeOK
    BY DEF SysTypeOK, ServerTypeOK
<1>1. TcpTypeOK'
    <2>1. Moves
        BY Movement DEF SysTypeOK
    <2>2. CASE UNCHANGED tcpVars
        BY <1>0, <2>2 DEF tcpVars, TcpTypeOK, Unit
    <2>3. CASE sock \in Conn /\ (Connect(sock) \/ Send(sock))
        BY <1>0, <2>3, ClientType
    <2>4. ASSUME NEW C, CloseAll(C) PROVE TcpTypeOK'
        BY <1>0, <2>4 DEF CloseAll, TcpTypeOK, CliState, Unit
    <2>5. CASE Refused
        BY <1>0, <2>5 DEF Refused, TcpTypeOK, CliState, Unit
    <2> QED
        BY <2>1, <2>2, <2>3, <2>4, <2>5 DEF Moves, Connects
<1>2. UNCHANGED loopVars
    BY ClientActions
<1> QED
    BY <1>0, <1>1, <1>2 DEF loopVars, ServerTypeOK, Unit

LEMMA OwnTypeStep ==
    ASSUME ClientTypeOK, ClientStep
    PROVE  ClientTypeOK'
<1> USE ClientAssumption DEF ClientAssumption
<1>1. ASSUME NEW how \in {"run", "exit", "crash", "pipe"}, ClientEnds(how)
      PROVE  client' \in {"run", "exit", "crash", "pipe"}
    BY <1>1 DEF ClientEnds
<1>2. ASSUME Stays \/ UseLock
      PROVE  client' \in {"run", "exit", "crash", "pipe"}
    BY <1>1, <1>2 DEF Stays, UseLock, ClientTypeOK
<1>3. ASSUME Destroy
      PROVE  /\ client' \in {"run", "exit", "crash", "pipe"}
             /\ rwlock' \in {"null", "made", "freed"}
    BY <1>1, <1>2, <1>3 DEF Destroy, ClientTypeOK
<1>4. CASE \E c \in Fresh : MainSocket(c)
    <2>1. PICK c \in Conn : MainSocket(c)
        BY <1>4 DEF Fresh
    <2> QED
        BY <1>1, <1>2, <2>1 DEF MainSocket, ClientTypeOK
<1>5. CASE \E c \in Fresh : RestartSocket(c)
    BY <1>5 DEF Fresh, RestartSocket, ClientTypeOK
<1>6. CASE MainConnect(up)
    BY <1>1, <1>6 DEF MainConnect, ClientTypeOK
<1>7. CASE MainLock \/ MainJoin \/ Signal \/ RestartClose \/ RestartConnect(up)
    BY <1>7 DEF MainLock, MainJoin, Signal, RestartClose, RestartConnect, ClientTypeOK
<1>8. CASE MainCreate
    BY <1>1, <1>2, <1>8 DEF MainCreate, ClientTypeOK
<1>9. CASE MainDestroy \/ HandlerDestroy
    BY <1>3, <1>9 DEF MainDestroy, HandlerDestroy, ClientTypeOK
<1>10. CASE MainReturn \/ HandlerExit
    BY <1>1, <1>10 DEF MainReturn, HandlerExit, ClientTypeOK
<1>11. CASE ThreadLock \/ ThreadOpen
    BY <1>2, <1>11 DEF ThreadLock, ThreadOpen, ClientTypeOK
<1>12. CASE ThreadRead
    <2>1. pos' \in 0 .. Blocks
        BY <1>12 DEF ThreadRead, ClientTypeOK
    <2> QED
        BY <1>12, <2>1 DEF ThreadRead, ClientTypeOK
<1>13. ASSUME SendOk \/ SendPipe \/ SendBadf \/ SendRefused("reset")
       PROVE  client' \in {"run", "exit", "crash", "pipe"}
    BY <1>1, <1>2, <1>13 DEF SendOk, SendPipe, SendBadf, SendRefused, ClientTypeOK
<1>14. CASE ThreadSend \/ Resend
    BY <1>13, <1>14 DEF ThreadSend, Resend, ClientTypeOK
<1> QED
    BY <1>4, <1>5, <1>6, <1>7, <1>8, <1>9, <1>10, <1>11, <1>12, <1>14, ClientActions

LEMMA SysTypeStep ==
    ASSUME SysTypeOK, SocketInv, [SysNext]_sysVars
    PROVE  SysTypeOK'
<1>1. CASE ClientStep
    BY <1>1, ClientTypeStep, OwnTypeStep DEF SysTypeOK
<1>2. CASE Server \/ UNCHANGED sysVars
    <2>1. ServerTypeOK'
        BY <1>2, ServerAlone, TypeStep DEF SysTypeOK
    <2>2. ClientTypeOK'
        BY <1>2, ServerAlone DEF clientVars, SysTypeOK, ClientTypeOK
    <2> QED
        BY <2>1, <2>2 DEF SysTypeOK
<1> QED
    BY <1>1, <1>2, SysActions
-----------------------------------------------------------------------------
(* Both ends.                                                               *)

LEMMA ClientEventsStep ==
    ASSUME SysTypeOK, SocketInv, NeverBlocks, Unused, ClientStep
    PROVE  NeverBlocks' /\ Unused'
<1>0. /\ cli \in [Conn -> CliState] /\ srv \in [Conn -> SrvState]
      /\ flight \in [Conn -> Seq(Unit)] /\ events \in SUBSET (Conn \cup {LISTEN})
      /\ TcpTypeOK
    BY DEF SysTypeOK, ServerTypeOK, TcpTypeOK
<1>1. Moves /\ events' = events
    BY Movement, ClientActions DEF SysTypeOK, loopVars
<1>2. CASE Connects
    <2>1. /\ srv[sock] = "none" /\ srv' = [srv EXCEPT ![sock] = "backlog"]
          /\ cli' = [cli EXCEPT ![sock] = "est"] /\ UNCHANGED <<flight, rbuf, hup>>
        BY <1>2 DEF Connects, Connect, Unused
    <2>2. NeverBlocks'
        BY <1>0, <1>1, <2>1 DEF NeverBlocks, Readable
    <2>3. Unused'
        BY <1>0, <1>2, <2>1 DEF Unused, Connects
    <2> QED
        BY <2>2, <2>3
<1>3. CASE ~ Connects
    <2>1. /\ UNCHANGED <<srv, rbuf, hup>>
          /\ \A c \in Conn : cli'[c] = "none" <=> cli[c] = "none"
        BY <1>0, <1>1, <1>3, Stillness
    <2>2. \A c \in Conn : cli[c] = "none" => flight'[c] = flight[c]
        <3>1. CASE sock \in Conn /\ Send(sock)
            BY <1>0, <3>1 DEF Send
        <3>2. CASE ~ Send(sock) \/ sock \notin Conn
            BY <1>1, <1>3, <3>2 DEF Moves, CloseAll, Refused, tcpVars
        <3> QED
            BY <3>1, <3>2
    <2>3. NeverBlocks'
        BY <1>0, <1>1, <2>1 DEF NeverBlocks, Readable
    <2>4. Unused'
        BY <2>1, <2>2 DEF Unused
    <2> QED
        BY <2>3, <2>4
<1> QED
    BY <1>2, <1>3

LEMMA EventsStep ==
    ASSUME SysTypeOK, SocketInv, NeverBlocks, Unused, [SysNext]_sysVars
    PROVE  NeverBlocks' /\ Unused'
<1>1. CASE ClientStep
    BY <1>1, ClientEventsStep
<1>2. CASE Server \/ UNCHANGED sysVars
    BY <1>2, ServerAlone, NeverBlocksStep, UnusedStep DEF SysTypeOK
<1> QED
    BY <1>1, <1>2, SysActions

\* The server's steps, but for those that leave the connections alone.
LEMMA ServerActions ==
    ASSUME Server \/ UNCHANGED sysVars
    PROVE  \/ UNCHANGED <<cli, srv, flight, rbuf, note, sent, queue, crashes>>
                /\ (up' = up \/ up')
           \/ Accept
           \/ \E c \in Conn : RecvChunk(c) \/ RecvFull(c)
           \/ /\ \E C \in SUBSET Conn : Hangup(C)
              /\ UNCHANGED <<queue, crashes, up>> \/ ServerEnds
           \/ \E c \in Conn : /\ Arrive(c) \/ ArriveEnd(c) \/ Learn(c)
                              /\ UNCHANGED <<queue, crashes, up>>
<1>1. CASE EpollWait
    BY <1>1 DEF EpollWait
<1>2. CASE ServerStarts
    BY <1>2 DEF ServerStarts, tcpVars
<1>3. CASE UNCHANGED sysVars
    BY <1>3 DEF sysVars, serverVars, tcpVars, loopVars
<1>4. ASSUME NEW c \in Conn, RecvEnd(c) \/ RecvError(c)
      PROVE  \E C \in SUBSET Conn : Hangup(C) /\ UNCHANGED <<queue, crashes, up>>
    BY <1>4 DEF RecvEnd, RecvError
<1>5. CASE ServerEnds
    BY <1>5 DEF ServerEnds
<1>6. CASE Net
    BY <1>6 DEF Net
<1> QED
    BY <1>1, <1>2, <1>3, <1>4, <1>5, <1>6 DEF Server, ServerStep, RecvStep

\* What the server and the network leave as it is.
Forward ==
    \A c \in Conn :
        /\ srv'[c] \in {"backlog", "open"} => srv[c] \in {"backlog", "open"}
        /\ srv[c] = "closed" => srv'[c] = "closed"
        /\ cli'[c] = "none" <=> cli[c] = "none"

LEMMA ServerKeeps ==
    ASSUME SysTypeOK, Server \/ UNCHANGED sysVars
    PROVE  /\ Forward /\ sent' = sent /\ UNCHANGED clientVars
           /\ crashes' >= crashes /\ (up' = FALSE => up = FALSE \/ crashes' > 0)
<1>0. /\ cli \in [Conn -> CliState] /\ srv \in [Conn -> SrvState]
      /\ crashes \in Nat
    BY DEF SysTypeOK, ServerTypeOK, TcpTypeOK
<1> DEFINE Same == crashes' = crashes /\ up' = up
<1>1. ASSUME Accept PROVE Forward /\ sent' = sent /\ Same
    BY <1>0, <1>1 DEF Accept, Forward
<1>2. ASSUME NEW c \in Conn, RecvChunk(c) \/ RecvFull(c)
      PROVE  Forward /\ sent' = sent /\ Same
    BY <1>0, <1>2 DEF RecvChunk, RecvFull, Forward
<1>3. ASSUME NEW C \in SUBSET Conn, Hangup(C) PROVE Forward /\ sent' = sent
    BY <1>0, <1>3 DEF Hangup, Forward
<1>4. ASSUME NEW c \in Conn, Arrive(c) \/ ArriveEnd(c) \/ Learn(c)
      PROVE  Forward /\ sent' = sent
    <2>1. UNCHANGED <<srv, sent>>
        BY <1>4 DEF Arrive, ArriveEnd, Learn
    <2>2. \A d \in Conn : cli'[d] = "none" <=> cli[d] = "none"
        BY <1>0, <1>4 DEF Arrive, ArriveEnd, Learn
    <2> QED
        BY <2>1, <2>2 DEF Forward
<1>5. ASSUME UNCHANGED <<cli, srv, sent>> PROVE Forward /\ sent' = sent
    BY <1>5 DEF Forward
<1>6. ASSUME ServerEnds PROVE crashes' = crashes + 1
    BY <1>6 DEF ServerEnds
<1>7. UNCHANGED clientVars
    BY ServerAlone
<1>8. Forward /\ sent' = sent
    BY <1>1, <1>2, <1>3, <1>4, <1>5, ServerActions
<1>9. Same \/ ServerEnds \/ (crashes' = crashes /\ up')
    BY <1>1, <1>2, ServerActions
<1> QED
    BY <1>0, <1>6, <1>7, <1>8, <1>9

LEMMA EndsAgreeStep ==
    ASSUME SysTypeOK, SocketInv, Unused, EndsAgree, [SysNext]_sysVars
    PROVE  EndsAgree'
<1>0. /\ cli \in [Conn -> CliState] /\ srv \in [Conn -> SrvState]
      /\ rbuf \in [Conn -> Seq(Unit)] /\ flight \in [Conn -> Seq(Unit)]
      /\ note \in [Conn -> {"no", "fin", "rst"}] /\ TcpTypeOK
    BY DEF SysTypeOK, ServerTypeOK, TcpTypeOK
<1>1. CASE ClientStep
    <2>1. Moves
        BY <1>1, Movement DEF SysTypeOK
    <2>2. CASE Connects
        BY <1>0, <2>2 DEF Connects, Connect, Unused, EndsAgree, Live
    <2>3. CASE ~ Connects
        <3>1. UNCHANGED <<srv, rbuf, note>>
            BY <1>0, <2>1, <2>3, Stillness
        <3>2. \A c \in Conn : cli'[c] \in {"fin", "reset", "broken"} =>
                                  cli[c] \in {"fin", "reset", "broken"}
            BY <1>0, <2>1, <2>3 DEF Moves, tcpVars, Send, CloseAll, Refused
        <3> QED
            BY <3>1, <3>2 DEF EndsAgree, Live
    <2> QED
        BY <2>2, <2>3
<1>2. CASE Server \/ UNCHANGED sysVars
    <2>1. CASE UNCHANGED <<cli, srv, rbuf, note>>
        BY <2>1 DEF EndsAgree, Live
    <2>2. CASE Accept
        BY <1>0, <2>2 DEF Accept, EndsAgree, Live
    <2>3. ASSUME NEW c \in Conn, RecvChunk(c) PROVE EndsAgree'
        BY <1>0, <2>3 DEF RecvChunk, EndsAgree, Live
    <2>4. ASSUME NEW c \in Conn, RecvFull(c) PROVE EndsAgree'
        BY <1>0, <2>4 DEF RecvFull, EndsAgree, Live
    <2>5. ASSUME NEW C \in SUBSET Conn, Hangup(C) PROVE EndsAgree'
        BY <1>0, <2>5 DEF Hangup, EndsAgree, Live
    <2>6. ASSUME NEW c \in Conn, Arrive(c) PROVE EndsAgree'
        <3>1. UNCHANGED <<cli, srv>> /\ srv[c] # "none"
            BY <2>6 DEF Arrive, Unused
        <3>2. CASE srv[c] = "closed"
            BY <1>0, <2>6, <3>1, <3>2 DEF Arrive, EndsAgree, Live
        <3>3. CASE srv[c] # "closed"
            <4>1. UNCHANGED note /\ \A d \in Conn \ {c} : rbuf'[d] = rbuf[d]
                BY <1>0, <2>6, <3>3 DEF Arrive
            <4> QED
                BY <1>0, <3>1, <3>3, <4>1 DEF EndsAgree, Live, SrvState
        <3> QED
            BY <3>2, <3>3
    <2>7. ASSUME NEW c \in Conn, ArriveEnd(c) PROVE EndsAgree'
        BY <2>7 DEF ArriveEnd, EndsAgree, Live
    <2>8. ASSUME NEW c \in Conn, Learn(c) PROVE EndsAgree'
        <3>1. /\ srv[c] = "closed" /\ UNCHANGED <<srv, rbuf>>
              /\ note' = [note EXCEPT ![c] = "no"]
              /\ \A d \in Conn \ {c} : cli'[d] = cli[d]
            BY <1>0, <2>8 DEF Learn, EndsAgree
        <3> QED
            BY <1>0, <3>1 DEF EndsAgree, Live
    <2> QED
        BY <1>2, <2>1, <2>2, <2>3, <2>4, <2>5, <2>6, <2>7, <2>8, ServerActions
<1> QED
    BY <1>1, <1>2, SysActions
\* Where the server's end of a connection stays as it is no connection becomes
\* live, and only socket() changes the client's own.
LEMMA OneLiveStep ==
    ASSUME SysTypeOK, SocketInv, EndsAgree, OneLive, [SysNext]_sysVars
    PROVE  OneLive'
<1> USE ClientAssumption DEF ClientAssumption
<1>0. srv \in [Conn -> SrvState] /\ TcpTypeOK
    BY DEF SysTypeOK, ServerTypeOK, TcpTypeOK
<1>1. CASE Server \/ UNCHANGED sysVars
    <2>1. (\A c \in Conn : Live(c)' => Live(c)) /\ UNCHANGED clientVars
        BY <1>1, ServerKeeps DEF Live, Forward
    <2> QED
        BY <2>1 DEF OneLive, clientVars, Alive
<1>2. CASE ClientStep
    \* The three conjuncts, where the server's ends stay as they are.
    <2>1. ASSUME srv' = srv, sock' \in {sock, NULL},
                 Alive' /\ (pcT' \in {"close", "socket", "connect"}
                            \/ pcC' \in {"socket", "connect"}) =>
                        \A c \in Conn : ~ Live(c)
          PROVE  OneLive'
        BY <2>1 DEF OneLive, Live
    <2>2. ASSUME srv' = srv, \A c \in Conn : ~ Live(c) PROVE OneLive'
        BY <2>2 DEF OneLive, Live
    <2>3. ASSUME srv' = srv, sock' \in {sock, NULL}, Alive,
                 pcT' = pcT \/ pcT' \notin {"close", "socket", "connect"},
                 pcC' = pcC \/ pcC' \notin {"socket", "connect"}
          PROVE  OneLive'
        BY <2>1, <2>3 DEF OneLive
    <2>4. CASE Connects
        <3>1. \A c \in Conn : ~ Live(c)
            BY <2>4 DEF Connects, MainConnect, RestartConnect, OneLive
        <3>2. \A c \in Conn \ {sock} : ~ Live(c)'
            BY <1>0, <2>4, <3>1 DEF Connects, Connect, Live
        <3>3. sock' = sock
            BY <2>4 DEF Connects, MainConnect, RestartConnect
        <3>4. ~ (Alive' /\ (pcT' \in {"close", "socket", "connect"}
                            \/ pcC' \in {"socket", "connect"}))
            BY <2>4 DEF Connects, MainConnect, RestartConnect, SocketInv
        <3> QED
            BY <3>2, <3>3, <3>4 DEF OneLive
    <2>5. CASE ~ Connects
        <3>1. srv' = srv
            BY <1>0, <1>2, <2>5, Movement, Stillness DEF SysTypeOK
        <3>2. CASE \E c \in Fresh : MainSocket(c) \/ RestartSocket(c)
            BY <2>2, <3>1, <3>2 DEF MainSocket, RestartSocket, OneLive
        <3>3. CASE MainConnect(up) \/ RestartConnect(up)
            BY <2>3, <3>1, <3>3 DEF MainConnect, RestartConnect
        <3>4. CASE MainLock \/ MainCreate \/ MainJoin \/ Signal
            BY <2>3, <3>1, <3>4 DEF MainLock, MainCreate, MainJoin, Signal
        <3>5. CASE MainDestroy \/ MainReturn \/ HandlerDestroy \/ HandlerExit
            BY <2>3, <3>1, <3>5 DEF MainDestroy, MainReturn, HandlerDestroy, HandlerExit
        <3>6. CASE ThreadLock \/ ThreadOpen \/ ThreadRead \/ Resend
            BY <2>3, <3>1, <3>6 DEF ThreadLock, ThreadOpen, ThreadRead, Resend
        <3>7. CASE ThreadSend
            <4>1. CASE pcT' = "read"
                BY <2>3, <3>1, <3>7, <4>1 DEF ThreadSend
            <4>2. CASE SendRefused("reset")
                <5>1. sock \in Conn /\ srv[sock] = "closed" /\ sock # NULL
                    BY <4>2 DEF SendRefused, EndsAgree, SysTypeOK, ClientTypeOK
                <5> QED
                    BY <2>2, <3>1, <5>1 DEF OneLive, Live
            <4> QED
                BY <3>7, <4>1, <4>2 DEF ThreadSend
        <3>8. CASE RestartClose
            BY <2>2, <3>1, <3>8 DEF RestartClose, OneLive
        <3> QED
            BY <1>2, <3>2, <3>3, <3>4, <3>5, <3>6, <3>7, <3>8, ClientActions
    <2> QED
        BY <2>4, <2>5
<1> QED
    BY <1>1, <1>2, SysActions
-----------------------------------------------------------------------------
(* The client's socket, SIGPIPE and the lock.                               *)

LEMMA SocketStep ==
    ASSUME SysTypeOK, SocketInv, PipeInv, [SysNext]_sysVars
    PROVE  SocketInv'
<1> USE ClientAssumption DEF ClientAssumption
<1>0. /\ cli \in [Conn -> CliState] /\ TcpTypeOK /\ ClientTypeOK
      /\ crashes \in Nat
    BY DEF SysTypeOK, ServerTypeOK, TcpTypeOK
<1>1. CASE Server \/ UNCHANGED sysVars
    <2>1. /\ \A c \in Conn : cli'[c] = "none" <=> cli[c] = "none"
          /\ UNCHANGED clientVars
        BY <1>1, ServerKeeps DEF Forward
    <2>2. crashes' \in Nat /\ (crashes > 0 => crashes' > 0)
        <3>1. SysTypeOK' /\ crashes' >= crashes
            BY <1>1, ServerKeeps, SysTypeStep
        <3> QED
            BY <1>0, <3>1 DEF SysTypeOK, ServerTypeOK
    <2> QED
        BY <1>0, <2>1, <2>2 DEF SocketInv, clientVars, Alive, ClientTypeOK
<1>2. CASE ClientStep
    <2>0. crashes' = crashes
        BY <1>2, ClientActions DEF loopVars
    <2>1. CASE Connects
        <3>1. cli'[sock] # "none" /\ sock' = sock /\ sock # NULL
            BY <1>0, <2>1 DEF Connects, Connect, MainConnect, RestartConnect
        <3>2. CASE MainConnect(up)
            BY <3>1, <3>2 DEF MainConnect, SocketInv, Alive
        <3>3. CASE RestartConnect(up)
            BY <3>1, <3>3 DEF RestartConnect, SocketInv, Alive
        <3> QED
            BY <2>1, <3>2, <3>3 DEF Connects
    <2>2. CASE ~ Connects
        <3>1. \A c \in Conn : cli'[c] = "none" <=> cli[c] = "none"
            BY <1>0, <1>2, <2>2, Movement, Stillness
        <3>2. CASE \E c \in Fresh : MainSocket(c)
            <4>1. PICK c \in Fresh : MainSocket(c)
                BY <3>2
            <4>2. c \in Conn /\ cli[c] = "none" /\ c # NULL
                BY DEF Fresh
            <4>3. pcC' = "connect" /\ pcT' = pcT /\ pcT = "none"
                BY <4>1 DEF MainSocket, SocketInv
            <4>4. Alive' => sock' = c
                BY <4>1 DEF MainSocket, ClientEnds, Alive
            <4> QED
                BY <3>1, <4>2, <4>3, <4>4 DEF SocketInv
        <3>3. CASE \E c \in Fresh : RestartSocket(c)
            <4>1. PICK c \in Fresh : RestartSocket(c)
                BY <3>3
            <4>2. c \in Conn /\ cli[c] = "none" /\ c # NULL
                BY DEF Fresh
            <4> QED
                BY <3>1, <4>1, <4>2 DEF RestartSocket, SocketInv, Alive
        <3>4. CASE MainConnect(up)
            <4>1. ~ up
                BY <2>2, <3>4 DEF MainConnect, SocketInv, Connects
            <4> QED
                BY <3>4, <4>1 DEF MainConnect, ClientEnds, SocketInv, Alive
        <3>5. CASE RestartConnect(up)
            <4>1. ~ up \/ sock = NULL
                BY <1>0, <2>2, <3>5 DEF RestartConnect, SocketInv, Connects, ClientTypeOK
            <4>2. ~ up => crashes > 0
                BY DEF PipeInv
            <4> QED
                BY <2>0, <3>5, <4>1, <4>2 DEF RestartConnect, SocketInv, Alive
        <3>7. CASE MainLock \/ MainCreate
            BY <1>0, <2>0, <3>1, <3>7 DEF MainLock, MainCreate, SocketInv, Stays, ClientEnds,
                Alive, ClientTypeOK
        <3>8. CASE MainJoin \/ Signal
            BY <1>0, <2>0, <3>1, <3>8 DEF MainJoin, Signal, SocketInv, Alive, ClientTypeOK
        <3>9. CASE MainDestroy \/ MainReturn \/ HandlerDestroy \/ HandlerExit
            BY <1>0, <2>0, <3>1, <3>9 DEF MainDestroy, MainReturn, HandlerDestroy,
                HandlerExit, SocketInv, Alive, ClientTypeOK
        <3>10. CASE ThreadLock \/ ThreadOpen \/ ThreadRead
            BY <1>0, <2>0, <3>1, <3>10 DEF ThreadLock, ThreadOpen, ThreadRead, SocketInv,
                Alive, ClientTypeOK
        <3>11. CASE ThreadSend \/ Resend
            <4>1. sock # NULL /\ Alive' => cli[sock] # "none"
                BY <1>0, <3>11 DEF ThreadSend, Resend, SendOk, Send, SendPipe, SendBadf,
                    SendRefused, ClientEnds, Alive, SocketInv
            <4> QED
                BY <1>0, <2>0, <3>1, <3>11, <4>1 DEF ThreadSend, Resend, SocketInv, Alive,
                    ClientTypeOK
        <3>12. CASE RestartClose
            BY <3>12 DEF RestartClose, SocketInv, Alive
        <3> QED
            BY <1>2, <3>2, <3>3, <3>4, <3>5, <3>7, <3>8, <3>9, <3>10, <3>11, <3>12,
                ClientActions
    <2> QED
        BY <2>1, <2>2
<1> QED
    BY <1>1, <1>2, SysActions
LEMMA PipeStep ==
    ASSUME SysTypeOK, SocketInv, EndsAgree, PipeInv, [SysNext]_sysVars
    PROVE  PipeInv'
<1> USE ClientAssumption DEF ClientAssumption
<1>0. /\ cli \in [Conn -> CliState] /\ TcpTypeOK /\ ClientTypeOK
      /\ crashes \in Nat /\ crashes' \in Nat
    <2>1. SysTypeOK'
        BY SysTypeStep
    <2> QED
        BY <2>1 DEF SysTypeOK, ServerTypeOK, TcpTypeOK
<1>1. CASE Server \/ UNCHANGED sysVars
    <2>1. /\ Forward /\ UNCHANGED clientVars
          /\ crashes' >= crashes /\ (up' = FALSE => up = FALSE \/ crashes' > 0)
        BY <1>1, ServerKeeps
    <2>2. crashes > 0 => crashes' > 0
        BY <1>0, <2>1
    <2>3. ~ up' => crashes' > 0
        <3>1. up \in BOOLEAN /\ up' \in BOOLEAN
            BY SysTypeStep DEF SysTypeOK, ServerTypeOK
        <3>2. ~ up' => ~ up \/ crashes' > 0
            BY <2>1, <3>1
        <3>3. ~ up => crashes' > 0
            BY <2>2 DEF PipeInv
        <3> QED
            BY <3>2, <3>3
    <2>4. client' = "pipe" => sock' # NULL /\ PipeOnlyWithoutServer'
        <3>1. client' = client /\ sock' = sock
            BY <2>1 DEF clientVars
        <3>2. ASSUME client = "pipe" PROVE sock # NULL /\ PipeOnlyWithoutServer'
            <4>1. /\ sock \in Conn /\ sock # NULL
                  /\ IF cli[sock] = "none" THEN crashes > 0 ELSE srv[sock] = "closed"
                BY <1>0, <3>2 DEF PipeInv, PipeOnlyWithoutServer, ClientTypeOK
            <4> QED
                BY <2>1, <2>2, <3>1, <4>1 DEF Forward, PipeOnlyWithoutServer
        <3> QED
            BY <3>1, <3>2
    <2> QED
        BY <2>3, <2>4 DEF PipeInv
<1>2. CASE ClientStep
    <2>1. UNCHANGED <<up, crashes>>
        BY <1>2, ClientActions DEF loopVars
    <2>2. SUFFICES ASSUME client' = "pipe"
                   PROVE  sock' # NULL /\ PipeOnlyWithoutServer'
        BY <2>1 DEF PipeInv
    <2>3. Alive
        BY <1>2, ClientActions DEF MainSocket, RestartSocket, MainConnect, RestartConnect,
            MainLock, MainCreate, MainJoin, MainDestroy, MainReturn, Signal,
            HandlerDestroy, HandlerExit, ThreadLock, ThreadOpen, ThreadRead, ThreadSend,
            RestartClose, Resend
    <2>4. (ThreadSend \/ Resend) /\ SendPipe
        <3>1. client # "pipe"
            BY <2>3 DEF Alive
        <3>2. ~ UseLock /\ ~ Stays /\ ~ Destroy /\ ~ ClientEnds("exit") /\ ~ ClientEnds("crash")
            BY <2>2, <3>1 DEF UseLock, Stays, ClientEnds, Destroy
        <3>3. ~ UNCHANGED client
            BY <2>2, <3>1
        <3>4. ThreadSend \/ Resend
            BY <1>2, <3>2, <3>3, ClientActions DEF MainSocket, RestartSocket, MainConnect,
                RestartConnect, MainLock, MainCreate, MainJoin, MainDestroy, MainReturn,
                Signal, HandlerDestroy, HandlerExit, ThreadLock, ThreadOpen, ThreadRead,
                RestartClose
        <3> QED
            BY <3>2, <3>3, <3>4 DEF ThreadSend, Resend, SendOk, SendBadf, SendRefused
    <2>5. /\ sock \in Conn /\ sock' = sock /\ cli[sock] \in {"none", "broken"}
          /\ CloseAll({sock})
        BY <1>0, <2>4 DEF ThreadSend, Resend, SendPipe, ClientEnds, ClientTypeOK
    <2>6. CASE cli[sock] = "none"
        <3>1. cli'[sock] = "none"
            BY <1>0, <2>5, <2>6 DEF CloseAll
        <3>2. crashes > 0
            BY <2>3, <2>4, <2>5, <2>6 DEF ThreadSend, Resend, SocketInv
        <3> QED
            BY <2>1, <2>5, <3>1, <3>2 DEF PipeOnlyWithoutServer
    <2>7. CASE cli[sock] = "broken"
        <3>1. cli'[sock] # "none" /\ srv'[sock] = srv[sock]
            BY <1>0, <2>5, <2>7 DEF CloseAll
        <3>2. srv[sock] = "closed"
            BY <2>5, <2>7 DEF EndsAgree
        <3> QED
            BY <2>5, <3>1, <3>2 DEF PipeOnlyWithoutServer
    <2> QED
        BY <2>5, <2>6, <2>7
<1> QED
    BY <1>1, <1>2, SysActions

LEMMA LockStep ==
    ASSUME SocketInv, LockInv, [SysNext]_sysVars
    PROVE  LockInv'
<1> USE DEF LockInv, NoCrashWhileSending
<1>1. CASE Server \/ UNCHANGED sysVars
    BY <1>1, ServerAlone DEF clientVars
<1>2. CASE \E c \in Fresh : MainSocket(c) \/ RestartSocket(c)
    BY <1>2 DEF MainSocket, RestartSocket, Stays, ClientEnds, SocketInv, Alive
<1>3. CASE MainConnect(up) \/ RestartConnect(up)
    BY <1>3 DEF MainConnect, RestartConnect, ClientEnds, Alive
<1>4. CASE MainLock
    BY <1>4 DEF MainLock, SocketInv, Alive
<1>5. CASE MainCreate
    BY <1>5 DEF MainCreate, SocketInv, Stays, ClientEnds, Alive
<1>6. CASE MainJoin
    BY <1>6 DEF MainJoin, Alive
<1>7. CASE MainDestroy
    BY <1>7 DEF MainDestroy, Destroy, Stays, ClientEnds, Alive
<1>8. CASE MainReturn \/ HandlerExit
    BY <1>8 DEF MainReturn, HandlerExit, ClientEnds, Alive
<1>9. CASE Signal
    BY <1>9 DEF Signal, Alive
<1>10. CASE HandlerDestroy
    BY <1>10 DEF HandlerDestroy, Destroy, Stays, ClientEnds, Alive
<1>11. CASE ThreadLock \/ ThreadOpen
    BY <1>11 DEF ThreadLock, ThreadOpen, UseLock, Stays, ClientEnds, Alive
<1>12. CASE ThreadRead \/ RestartClose
    BY <1>12 DEF ThreadRead, RestartClose, Alive
<1>13. CASE ThreadSend \/ Resend
    BY <1>13 DEF ThreadSend, Resend, SendOk, SendPipe, SendBadf, SendRefused, Stays,
        ClientEnds, Alive
<1> QED
    BY <1>1, <1>2, <1>3, <1>4, <1>5, <1>6, <1>7, <1>8, <1>9, <1>10, <1>11, <1>12, <1>13,
        SysActions, ClientActions
-----------------------------------------------------------------------------
(* The units stay in order.                                                 *)

LEMMA AscendingPrefix ==
    ASSUME NEW s \in Seq(Unit), NEW t \in Seq(Unit), NEW n \in Nat, Ascending(s \o t, n)
    PROVE  Ascending(s, n)
<1>1. /\ Len(s) \in Nat /\ Len(t) \in Nat /\ Len(s \o t) = Len(s) + Len(t)
      /\ \A i \in 1 .. Len(s) + Len(t) :
            (s \o t)[i] = IF i <= Len(s) THEN s[i] ELSE t[i - Len(s)]
    BY LenProperties, ConcatProperties
<1>2. \A i \in 1 .. Len(s) : i \in 1 .. Len(s \o t) /\ (s \o t)[i] = s[i]
    BY <1>1
<1> QED
    BY <1>2 DEF Ascending

LEMMA AscendingAppend ==
    ASSUME NEW s \in Seq(Unit), NEW n \in Nat, n + 1 \in Unit, Ascending(s, n)
    PROVE  Ascending(s, n + 1) /\ Ascending(Append(s, n + 1), n + 1)
<1>1. /\ Len(s) \in Nat /\ \A i \in 1 .. Len(s) : s[i] \in Unit
      /\ \A i \in Unit : i \in Nat
    BY LenProperties, ElementOfSeq, TcpAssumption DEF Unit, TcpAssumption
<1>2. \A i \in 1 .. Len(s) : s[i] \in Nat /\ s[i] < n + 1
    BY <1>1 DEF Ascending
<1>3. /\ Len(Append(s, n + 1)) = Len(s) + 1
      /\ \A i \in 1 .. Len(s) : Append(s, n + 1)[i] = s[i]
      /\ Append(s, n + 1)[Len(s) + 1] = n + 1
    BY AppendProperties
<1>4. \A i \in 1 .. Len(s) + 1 : i \in 1 .. Len(s) \/ i = Len(s) + 1
    BY <1>1
<1>5. \A i \in 1 .. Len(s) + 1 : Append(s, n + 1)[i] <= n + 1
    BY <1>2, <1>3, <1>4
<1>6. ASSUME NEW i \in 1 .. Len(s) + 1, NEW j \in 1 .. Len(s) + 1, i < j
      PROVE  Append(s, n + 1)[i] < Append(s, n + 1)[j]
    <2>1. i \in 1 .. Len(s)
        BY <1>1, <1>6
    <2>2. CASE j \in 1 .. Len(s)
        BY <1>3, <1>6, <2>1, <2>2 DEF Ascending
    <2>3. CASE j = Len(s) + 1
        BY <1>2, <1>3, <2>1, <2>3
    <2> QED
        BY <1>4, <2>2, <2>3
<1>7. Ascending(Append(s, n + 1), n + 1)
    BY <1>3, <1>5, <1>6 DEF Ascending
<1>8. Ascending(s, n + 1)
    BY <1>2 DEF Ascending
<1> QED
    BY <1>7, <1>8

Way(c) == queue \o rbuf[c] \o flight[c]

LEMMA WayType ==
    ASSUME ServerTypeOK, NEW c \in Conn
    PROVE  /\ queue \in Seq(Unit) /\ rbuf[c] \in Seq(Unit) /\ flight[c] \in Seq(Unit)
           /\ queue \o rbuf[c] \in Seq(Unit) /\ Way(c) \in Seq(Unit)
           /\ sent \in Nat
<1>1. /\ queue \in Seq(Unit) /\ rbuf[c] \in Seq(Unit) /\ flight[c] \in Seq(Unit)
      /\ sent \in Nat
    BY TcpAssumption DEF ServerTypeOK, TcpTypeOK, TcpAssumption
<1> QED
    BY <1>1, Cat3Type DEF Way

LEMMA WireStep ==
    ASSUME SysTypeOK, SocketInv, Unused, EndsAgree, OneLive, WireInOrder,
           [SysNext]_sysVars
    PROVE  WireInOrder'
<1>0. /\ cli \in [Conn -> CliState] /\ srv \in [Conn -> SrvState]
      /\ rbuf \in [Conn -> Seq(Unit)] /\ flight \in [Conn -> Seq(Unit)]
      /\ queue \in Seq(Unit) /\ sent \in Nat /\ ServerTypeOK
    BY TcpAssumption DEF SysTypeOK, ServerTypeOK, TcpTypeOK, TcpAssumption
\* A connection that is still live, and on which nothing has been lost or added.
<1>1. ASSUME queue' = queue, sent' = sent,
             \A d \in Conn : Live(d)' => Live(d) /\ Way(d)' = Way(d)
      PROVE  WireInOrder'
    BY <1>1 DEF WireInOrder, Way
<1>2. CASE ClientStep
    <2>1. Moves /\ queue' = queue
        BY <1>2, Movement, ClientActions DEF SysTypeOK, loopVars
    <2>2. CASE Connects
        <3>1. /\ srv' = [srv EXCEPT ![sock] = "backlog"] /\ sock \in Conn
              /\ UNCHANGED <<rbuf, flight, sent>>
              /\ rbuf[sock] = <<>> /\ flight[sock] = <<>>
            BY <2>2 DEF Connects, Connect, Unused
        <3>2. Way(sock) = queue /\ Ascending(Way(sock), sent)
            <4>1. queue \o <<>> \o <<>> = queue
                BY <1>0, ConcatEmptySeq
            <4> QED
                BY <3>1, <4>1 DEF WireInOrder, Way
        <3>3. \A d \in Conn : Live(d)' => d = sock \/ Live(d)
            BY <1>0, <3>1 DEF Live
        <3> QED
            BY <2>1, <3>1, <3>2, <3>3 DEF WireInOrder, Way
    <2>3. CASE ~ Connects
        <3>1. UNCHANGED <<srv, rbuf>>
            BY <1>0, <2>1, <2>3, Stillness DEF ServerTypeOK
        <3>2. CASE sock \in Conn /\ Send(sock)
            <4>1. /\ sent' = sent + 1 /\ sent + 1 \in Unit
                  /\ flight' = [flight EXCEPT ![sock] = Append(@, sent + 1)]
                BY <1>0, <3>2, TcpAssumption DEF Send, Unit, TcpAssumption
            <4>2. Ascending(queue, sent')
                BY <1>0, <4>1, AscendingAppend DEF WireInOrder
            <4>3. ASSUME NEW d \in Conn, Live(d) PROVE Ascending(Way(d)', sent')
                <5>1. Way(d) \in Seq(Unit) /\ Ascending(Way(d), sent)
                    BY <1>0, <4>3, WayType DEF WireInOrder, Way
                <5>2. Ascending(Way(d), sent + 1) /\ Ascending(Append(Way(d), sent + 1), sent + 1)
                    BY <1>0, <4>1, <5>1, AscendingAppend
                <5>3. CASE d = sock
                    <6>1. Way(d)' = queue \o rbuf[d] \o Append(flight[d], sent + 1)
                        BY <1>0, <2>1, <3>1, <4>1, <5>3 DEF Way
                    <6>2. \A a, b, e \in Seq(Unit) :
                            a \o b \o Append(e, sent + 1) = Append(a \o b \o e, sent + 1)
                        BY <4>1, Sending
                    <6>3. Way(d)' = Append(Way(d), sent + 1)
                        BY <1>0, <6>1, <6>2 DEF Way
                    <6> QED
                        BY <4>1, <5>2, <6>3
                <5>4. CASE d # sock
                    <6>1. Way(d)' = Way(d)
                        BY <1>0, <2>1, <3>1, <4>1, <5>4 DEF Way
                    <6> QED
                        BY <4>1, <5>2, <6>1
                <5> QED
                    BY <5>3, <5>4
            <4> QED
                BY <2>1, <3>1, <4>2, <4>3 DEF WireInOrder, Live, Way
        <3>3. CASE ~ (sock \in Conn /\ Send(sock))
            <4>1. UNCHANGED <<flight, sent>>
                BY <2>1, <2>3, <3>3 DEF Moves, tcpVars, CloseAll, Refused
            <4> QED
                BY <1>1, <2>1, <3>1, <4>1 DEF Way, Live
        <3> QED
            BY <3>2, <3>3
    <2> QED
        BY <2>2, <2>3
<1>3. CASE Server \/ UNCHANGED sysVars
    <2>0. Forward /\ sent' = sent
        BY <1>3, ServerKeeps
    <2>1. \A d \in Conn : Live(d)' => Live(d)
        BY <2>0 DEF Forward, Live
    <2>2. CASE UNCHANGED <<rbuf, flight, queue>>
        BY <1>1, <2>0, <2>1, <2>2 DEF Way
    <2>3. ASSUME NEW c \in Conn, RecvChunk(c) PROVE WireInOrder'
        <3>1. /\ Live(c) /\ queue' = queue \o rbuf[c]
              /\ rbuf' = [rbuf EXCEPT ![c] = <<>>] /\ flight' = flight
            BY <2>3 DEF RecvChunk, EndsAgree
        <3>2. Ascending(queue', sent)
            <4>1. Ascending((queue \o rbuf[c]) \o flight[c], sent)
                BY <3>1 DEF WireInOrder
            <4>2. /\ queue \o rbuf[c] \in Seq(Unit) /\ flight[c] \in Seq(Unit)
                BY <1>0, WayType
            <4> QED
                BY <1>0, <3>1, <4>1, <4>2, AscendingPrefix
        <3>3. ASSUME NEW d \in Conn, Live(d)' PROVE Ascending(Way(d)', sent)
            <4>1. d = c
                BY <2>1, <3>1, <3>3 DEF OneLive
            <4>2. (queue \o rbuf[c]) \o <<>> \o flight[c] = queue \o rbuf[c] \o flight[c]
                BY <1>0, WayType, Taking
            <4>3. Way(c)' = Way(c)
                BY <1>0, <3>1, <4>2 DEF Way
            <4> QED
                BY <3>1, <4>1, <4>3 DEF WireInOrder, Way
        <3> QED
            BY <2>0, <3>2, <3>3 DEF WireInOrder, Way
    <2>4. ASSUME NEW c \in Conn, RecvFull(c) PROVE WireInOrder'
        <3>1. /\ srv'[c] = "closed" /\ UNCHANGED <<flight, queue>>
              /\ \A d \in Conn \ {c} : rbuf'[d] = rbuf[d]
            BY <1>0, <2>4 DEF RecvFull
        <3> QED
            BY <1>1, <2>0, <2>1, <3>1 DEF Live, Way
    <2>5. ASSUME NEW C \in SUBSET Conn, Hangup(C), queue' = queue PROVE WireInOrder'
        <3>1. /\ flight' = flight
              /\ \A d \in Conn : Live(d)' => rbuf'[d] = rbuf[d]
            BY <1>0, <2>5 DEF Hangup, Live
        <3> QED
            BY <1>1, <2>0, <2>1, <2>5, <3>1 DEF Way
    <2>6. ASSUME NEW c \in Conn, Arrive(c), queue' = queue PROVE WireInOrder'
        <3>1. srv' = srv /\ \A d \in Conn \ {c} : flight'[d] = flight[d]
            BY <1>0, <2>6 DEF Arrive
        <3>2. CASE srv[c] = "closed"
            <4>1. rbuf' = rbuf
                BY <2>6, <3>2 DEF Arrive
            <4> QED
                BY <1>1, <2>0, <2>1, <2>6, <3>1, <3>2, <4>1 DEF Live, Way
        <3>3. CASE srv[c] # "closed"
            <4>1. flight[c] # <<>> /\ flight'[c] = Tail(flight[c])
                BY <1>0, <2>6 DEF Arrive
            <4>2. rbuf' = [rbuf EXCEPT ![c] = Append(@, Head(flight[c]))]
                BY <2>6, <3>3 DEF Arrive
            <4>3. PICK h \in Unit, t \in Seq(Unit) :
                    h = Head(flight[c]) /\ t = Tail(flight[c]) /\ <<h>> \o t = flight[c]
                BY <1>0, <4>1, HeadThenTail
            <4>4. queue \o Append(rbuf[c], h) \o t = queue \o rbuf[c] \o (<<h>> \o t)
                <5>1. queue \in Seq(Unit) /\ rbuf[c] \in Seq(Unit)
                    BY <1>0
                <5> QED
                    BY <5>1, Arriving
            <4>5. Way(c)' = Way(c)
                BY <1>0, <2>6, <4>1, <4>2, <4>3, <4>4 DEF Way
            <4>6. \A d \in Conn \ {c} : rbuf'[d] = rbuf[d]
                BY <1>0, <4>2
            <4>7. \A d \in Conn : Way(d)' = Way(d)
                BY <2>6, <3>1, <4>5, <4>6 DEF Way
            <4> QED
                BY <1>1, <2>0, <2>1, <2>6, <4>7
        <3> QED
            BY <3>2, <3>3
    <2>7. ASSUME NEW c \in Conn, ArriveEnd(c) \/ Learn(c), queue' = queue
          PROVE  WireInOrder'
        BY <2>2, <2>7 DEF ArriveEnd, Learn
    <2>8. CASE Accept
        BY <2>2, <2>8 DEF Accept
    <2> QED
        BY <1>3, <2>2, <2>3, <2>4, <2>5, <2>6, <2>7, <2>8, ServerActions DEF ServerEnds
<1> QED
    BY <1>2, <1>3, SysActions
-----------------------------------------------------------------------------
(* The theorems.                                                            *)

LEMMA SysStart == SysInit => SysInv
<1> SUFFICES ASSUME SysInit PROVE SysInv
    OBVIOUS
<1> USE DEF SysInit, ClientInit
<1>1. ServerTypeOK /\ NeverBlocks /\ Unused
    BY LoopInit DEF LoopInv
<1>2. /\ \A c \in Conn : srv[c] = "none" /\ note[c] = "no" /\ cli[c] = "none"
                        /\ rbuf[c] = <<>>
      /\ queue = <<>> /\ up
    BY DEF ServerInit, TcpInit
<1>3. ClientTypeOK
    BY ClientAssumption DEF ClientTypeOK, ClientAssumption
<1>4. EndsAgree /\ OneLive
    BY <1>2 DEF EndsAgree, OneLive, Live
<1>5. WireInOrder
    <2>1. Len(queue) = 0 /\ 1 .. Len(queue) = {}
        BY <1>2
    <2>2. Ascending(queue, sent)
        BY <2>1 DEF Ascending
    <2>3. \A c \in Conn : ~ Live(c)
        BY <1>2 DEF Live
    <2> QED
        BY <2>2, <2>3 DEF WireInOrder
<1>6. SocketInv /\ PipeInv /\ LockInv
    BY <1>2 DEF SocketInv, PipeInv, LockInv, NoCrashWhileSending
<1> QED
    BY <1>1, <1>3, <1>4, <1>5, <1>6 DEF SysInv, SysTypeOK

\* The inductive invariant of the client and the server together
\* (tcp_client.c:18-85, tcp_server.c:91-198, clientMain.c:10-56).
THEOREM SystemInvariant == SysSpec => []SysInv
<1>1. SysInit => SysInv
    BY SysStart
<1>2. SysInv /\ [SysNext]_sysVars => SysInv'
    BY SysTypeStep, EventsStep, EndsAgreeStep, OneLiveStep, WireStep, SocketStep, PipeStep,
        LockStep DEF SysInv
<1> QED
    BY <1>1, <1>2, PTL DEF SysSpec

\* Every variable of both ends has its type.
THEOREM SystemTypeCorrect == SysSpec => []SysTypeOK
<1>1. SysInv => SysTypeOK
    BY DEF SysInv
<1> QED
    BY <1>1, SystemInvariant, PTL

\* The sending thread never goes on with a socket that was not connected
\* (tcp_client.c:63-82).
THEOREM ThreadSendsOnConnected == SysSpec => []SendsOnConnected
<1>1. SysInv => SendsOnConnected
    BY DEF SysInv, SocketInv, SendsOnConnected
<1> QED
    BY <1>1, SystemInvariant, PTL

\* SIGPIPE ends the client only when the server has closed this connection or has
\* ended (tcp_client.c:70-79).
THEOREM PipeMeansServerGone == SysSpec => []PipeOnlyWithoutServer
<1>1. SysInv => PipeOnlyWithoutServer
    BY DEF SysInv, PipeInv, PipeOnlyWithoutServer
<1> QED
    BY <1>1, SystemInvariant, PTL

\* A client that sends does not crash on the lock the handler destroys, unless a
\* second signal finds it destroyed (clientMain.c:10-56).
THEOREM SendingDoesNotCrash == SysSpec => []NoCrashWhileSending
<1>1. SysInv => NoCrashWhileSending
    BY DEF SysInv, LockInv
<1> QED
    BY <1>1, SystemInvariant, PTL

\* Where the server's list changes it is by what was received of the live
\* connection.
LEMMA QueueMoves ==
    ASSUME [SysNext]_sysVars
    PROVE  \/ queue' = queue
           \/ \E c \in Conn : RecvChunk(c)
<1>1. CASE ClientStep
    BY <1>1, ClientActions DEF loopVars
<1>2. CASE Server \/ UNCHANGED sysVars
    BY <1>2, ServerActions DEF Accept, RecvFull, ServerEnds
<1> QED
    BY <1>1, <1>2, SysActions

LEMMA SentMoves ==
    ASSUME SysTypeOK, SocketInv, [SysNext]_sysVars
    PROVE  sent' = sent \/ (sent' = sent + 1 /\ queue' = queue)
<1>1. CASE ClientStep
    <2>1. Moves /\ queue' = queue
        BY <1>1, Movement, ClientActions DEF SysTypeOK, loopVars
    <2> QED
        BY <2>1 DEF Moves, Connects, Connect, Send, CloseAll, Refused, tcpVars
<1>2. CASE Server \/ UNCHANGED sysVars
    BY <1>2, ServerKeeps
<1> QED
    BY <1>1, <1>2, SysActions

LEMMA WireRefines ==
    ASSUME SysInv, SysInv', [SysNext]_sysVars
    PROVE  [Wire!Next]_(Wire!vars)
<1>0. SysTypeOK /\ SocketInv /\ queue \in Seq(Unit) /\ sent \in Nat /\ ServerTypeOK
    BY TcpAssumption DEF SysInv, SysTypeOK, ServerTypeOK, TcpTypeOK, TcpAssumption
<1>1. sent' = sent \/ (sent' = sent + 1 /\ queue' = queue)
    BY <1>0, SentMoves
<1>2. CASE queue' = queue
    BY <1>1, <1>2 DEF Wire!Next, Wire!Send, Wire!vars
<1>3. ASSUME NEW c \in Conn, RecvChunk(c) PROVE Wire!Deliver
    <2>1. /\ queue' = queue \o rbuf[c] /\ rbuf[c] # <<>> /\ sent' = sent
          /\ Ascending(queue', sent)
        BY <1>3 DEF RecvChunk, SysInv, WireInOrder
    <2>2. /\ rbuf[c] \in Seq(Unit) /\ queue' \in Seq(Unit)
          /\ Len(queue) \in Nat /\ Len(rbuf[c]) \in Nat /\ Len(rbuf[c]) > 0
          /\ Len(queue') = Len(queue) + Len(rbuf[c])
        <3>1. rbuf[c] \in Seq(Unit)
            BY <1>0, WayType
        <3> QED
            BY <1>0, <2>1, <3>1, EmptySeq, LenProperties, ConcatProperties
    <2>3. IsPrefix(queue, queue')
        BY <1>0, <2>1, <2>2, PrefixOfConcat
    <2>4. /\ SubSeq(queue', 1, Len(queue)) = queue
          /\ \A i \in 1 .. Len(queue) : queue[i] = queue'[i]
        BY <1>0, <2>2, <2>3, PrefixPointwise DEF IsPrefix
    <2>5. \A i \in 1 .. Len(queue') : queue'[i] \in Nat /\ queue'[i] > 0
        BY <2>2, ElementOfSeq, TcpAssumption DEF Unit, TcpAssumption
    <2>6. queue'[Len(queue) + 1] > Wire!Last
        <3>1. Len(queue) + 1 \in 1 .. Len(queue')
            BY <2>2
        <3>2. CASE queue = <<>>
            BY <2>5, <3>1, <3>2 DEF Wire!Last
        <3>3. CASE queue # <<>>
            <4>1. Len(queue) \in 1 .. Len(queue) /\ Len(queue) \in 1 .. Len(queue')
                BY <1>0, <2>2, <3>3, EmptySeq
            <4>2. queue'[Len(queue)] < queue'[Len(queue) + 1]
                BY <2>1, <2>2, <3>1, <4>1 DEF Ascending
            <4>3. queue'[Len(queue)] = queue[Len(queue)] /\ Wire!Last = queue[Len(queue)]
                BY <2>4, <3>3, <4>1 DEF Wire!Last
            <4> QED
                BY <2>5, <3>1, <4>1, <4>2, <4>3
        <3> QED
            BY <3>2, <3>3
    <2>7. \A i \in Len(queue) + 1 .. Len(queue') - 1 : queue'[i] < queue'[i + 1]
        BY <2>1, <2>2 DEF Ascending
    <2>8. queue'[Len(queue')] <= sent
        BY <2>1, <2>2 DEF Ascending
    <2> QED
        BY <2>1, <2>2, <2>4, <2>6, <2>7, <2>8 DEF Wire!Deliver
<1> QED
    BY <1>2, <1>3, QueueMoves DEF Wire!Next

\* From send to the server's list nothing is doubled or overtaken: client and
\* server together are a lossy relay (tcp_client.c:70-79, tcp_server.c:139-182).
THEOREM SystemRefinesLossyRelay == SysSpec => InOrderAtMostOnce
<1>1. SysInit => Wire!Init
    BY DEF SysInit, ServerInit, TcpInit, Wire!Init
<1>2. SysInv /\ SysInv' /\ [SysNext]_sysVars => [Wire!Next]_(Wire!vars)
    BY WireRefines
<1> QED
    BY <1>1, <1>2, SystemInvariant, PTL DEF SysSpec, Wire!Spec, InOrderAtMostOnce
===============================================================================
