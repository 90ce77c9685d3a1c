------------------------------- MODULE TcpServer -------------------------------
(***************************************************************************)
(* The receiving thread's loop over its sockets, recv_rpio_fun of           *)
(* tcp_server.c: a level-triggered listening socket, edge-triggered and     *)
(* blocking client sockets, and one recv for each event.                    *)
(*                                                                         *)
(* The events of one epoll_wait are looked at in any order.  The server's   *)
(* process may end and be started again; Server says how it ends.           *)
(***************************************************************************)
EXTENDS Tcp, SequencesExt

CONSTANTS
    RecvMax,        \* REVC_BUFFER_MAX_SIZE, in units
    MaxCrashes,     \* bound: how often the server ends and is started again
    Stray,          \* the connections of clients other than TcpClient's
    LISTEN          \* the listening socket, among the events

ASSUME TcpServerAssumption ==
    /\ RecvMax \in Nat \ {0} /\ MaxCrashes \in Nat
    /\ Stray \subseteq Conn /\ LISTEN \notin Conn

VARIABLES
    up, crashes,    \* is the server running; how often has it ended
    events,         \* the events of epoll_wait not looked at yet
    queue,          \* the units inserted into g_link_list, in order
    taken,          \* history: the units of each connection inserted, in order
    deaf            \* history: connections with something to read that no event
                    \* will tell of

loopVars == <<up, crashes, events, queue, taken, deaf>>
serverVars == <<tcpVars, loopVars>>

ServerInit ==
    /\ TcpInit
    /\ up = TRUE /\ crashes = 0
    /\ events = {}
    /\ queue = <<>> /\ taken = [c \in Conn |-> <<>>]
    /\ deaf = {}

-----------------------------------------------------------------------------

Ready ==
    {c \in Conn : srv[c] = "open" /\ edge[c] /\ Readable(c)}
        \cup {e \in {LISTEN} : \E c \in Conn : srv[c] = "backlog"}

\* epoll_wait reports an edge once, and a connection that waits for accept every
\* time.  Nothing ready: the 500 ms pass and it is called again.
EpollWait ==
    /\ up /\ events = {}
    /\ Ready # {}
    /\ events' = Ready
    /\ edge' = [c \in Conn |-> edge[c] /\ c \notin Ready]
    /\ UNCHANGED <<cli, srv, flight, rbuf, hup, note, sent, sentBy>>
    /\ UNCHANGED <<up, crashes, queue, taken, deaf>>

\* A mutant of Accept: the test of EPOLLIN is the wrong way round.
AcceptNothing ==
    /\ LISTEN \in events
    /\ events' = events \ {LISTEN}
    /\ UNCHANGED <<tcpVars, up, crashes, queue, taken, deaf>>

\* A mutant of Accept: what is there already is not looked at.
AcceptDeaf ==
    /\ LISTEN \in events
    /\ \E c \in Conn :
          /\ srv[c] = "backlog"
          /\ srv' = [srv EXCEPT ![c] = "open"]
          /\ edge' = [edge EXCEPT ![c] = FALSE]
    /\ events' = events \ {LISTEN}
    /\ UNCHANGED <<cli, flight, rbuf, hup, note, sent, sentBy>>
    /\ UNCHANGED <<up, crashes, queue, taken, deaf>>

\* accept, and EPOLL_CTL_ADD with EPOLLET, which looks at what is there already.
Accept ==
    /\ LISTEN \in events
    /\ \E c \in Conn :
          /\ srv[c] = "backlog"
          /\ srv' = [srv EXCEPT ![c] = "open"]
          /\ edge' = [edge EXCEPT ![c] = Readable(c)]
    /\ events' = events \ {LISTEN}
    /\ UNCHANGED <<cli, flight, rbuf, hup, note, sent, sentBy>>
    /\ UNCHANGED <<up, crashes, queue, taken, deaf>>

\* A mutant of RecvChunk: i is not advanced, as in a loop that receives until
\* nothing is left, on a socket that blocks.
RecvChunkAgain(c) ==
    /\ c \in events /\ rbuf[c] # <<>> /\ Len(rbuf[c]) < RecvMax
    /\ queue' = queue \o rbuf[c]
    /\ taken' = [taken EXCEPT ![c] = @ \o rbuf[c]]
    /\ rbuf' = [rbuf EXCEPT ![c] = <<>>]
    /\ UNCHANGED <<cli, srv, flight, hup, note, edge, sent, sentBy>>
    /\ UNCHANGED <<up, crashes, events, deaf>>

\* A mutant of RecvChunk: the data stay in the socket, as with MSG_PEEK.
RecvChunkPeeks(c) ==
    /\ c \in events /\ rbuf[c] # <<>> /\ Len(rbuf[c]) < RecvMax
    /\ queue' = queue \o rbuf[c]
    /\ events' = events \ {c}
    /\ UNCHANGED <<tcpVars, up, crashes, taken, deaf>>

\* One recv takes all there is, and it is inserted.  The end of the stream behind
\* it stays unread: when it had arrived already there is no other event for it.
RecvChunk(c) ==
    /\ c \in events /\ rbuf[c] # <<>> /\ Len(rbuf[c]) < RecvMax
    /\ queue' = queue \o rbuf[c]
    /\ taken' = [taken EXCEPT ![c] = @ \o rbuf[c]]
    /\ rbuf' = [rbuf EXCEPT ![c] = <<>>]
    /\ events' = events \ {c}
    /\ deaf' = IF hup[c] # "no" /\ ~ edge[c] THEN deaf \cup {c} ELSE deaf \ {c}
    /\ UNCHANGED <<cli, srv, flight, hup, note, edge, sent, sentBy>>
    /\ UNCHANGED <<up, crashes>>

\* A mutant of RecvFull: len < REVC_BUFFER_MAX_SIZE - 1.
RecvFullEarly(c) ==
    /\ c \in events /\ Len(rbuf[c]) >= RecvMax - 1
    /\ LET left == SubSeq(rbuf[c], RecvMax + 1, Len(rbuf[c]))
       IN  note' = [note EXCEPT ![c] = IF left = <<>> THEN "fin" ELSE "rst"]
    /\ srv' = [srv EXCEPT ![c] = "closed"]
    /\ rbuf' = [rbuf EXCEPT ![c] = <<>>]
    /\ edge' = [edge EXCEPT ![c] = FALSE]
    /\ events' = events \ {c} /\ deaf' = deaf \ {c}
    /\ UNCHANGED <<cli, flight, hup, sent, sentBy, up, crashes, queue, taken>>

\* A mutant of RecvFull: the data are dropped and the connection goes on.
RecvFullStays(c) ==
    /\ c \in events /\ Len(rbuf[c]) >= RecvMax
    /\ rbuf' = [rbuf EXCEPT ![c] = SubSeq(@, RecvMax + 1, Len(@))]
    /\ events' = events \ {c}
    /\ UNCHANGED <<cli, srv, flight, hup, note, edge, sent, sentBy>>
    /\ UNCHANGED <<up, crashes, queue, taken, deaf>>

\* A recv that fills the buffer: the connection is closed, what was received
\* is dropped, and what was not turns the FIN into a reset.
RecvFull(c) ==
    /\ c \in events /\ Len(rbuf[c]) >= RecvMax
    /\ LET left == SubSeq(rbuf[c], RecvMax + 1, Len(rbuf[c]))
       IN  note' = [note EXCEPT ![c] = IF left = <<>> THEN "fin" ELSE "rst"]
    /\ srv' = [srv EXCEPT ![c] = "closed"]
    /\ rbuf' = [rbuf EXCEPT ![c] = <<>>]
    /\ edge' = [edge EXCEPT ![c] = FALSE]
    /\ events' = events \ {c} /\ deaf' = deaf \ {c}
    /\ UNCHANGED <<cli, flight, hup, sent, sentBy, up, crashes, queue, taken>>

\* A mutant of RecvEnd: the socket is taken out of epoll and not closed.
RecvEndStays(c) ==
    /\ c \in events /\ rbuf[c] = <<>> /\ hup[c] = "fin"
    /\ events' = {}
    /\ UNCHANGED <<tcpVars, up, crashes, queue, taken, deaf>>

\* recv returns 0: the connection is closed, and the break ends the for loop with
\* it: the other events of this epoll_wait are not looked at.
RecvEnd(c) ==
    /\ c \in events /\ rbuf[c] = <<>> /\ hup[c] = "fin"
    /\ Hangup({c})
    /\ events' = {}
    /\ deaf' = (deaf \cup {d \in events : d # LISTEN /\ ~ edge[d]}) \ {c}
    /\ UNCHANGED <<up, crashes, queue, taken>>

\* A mutant of RecvError: a break leaves the loop here too.
RecvErrorBreaks(c) ==
    /\ c \in events /\ rbuf[c] = <<>> /\ hup[c] = "rst"
    /\ Hangup({c})
    /\ events' = {} /\ deaf' = deaf \ {c}
    /\ UNCHANGED <<up, crashes, queue, taken>>

\* recv returns -1, which as a size_t is no less than the buffer: the connection
\* is closed, though not where the switch on errno means to.
RecvError(c) ==
    /\ c \in events /\ rbuf[c] = <<>> /\ hup[c] = "rst"
    /\ Hangup({c})
    /\ events' = events \ {c} /\ deaf' = deaf \ {c}
    /\ UNCHANGED <<up, crashes, queue, taken>>

RecvStep ==
    \/ EpollWait \/ Accept
    \/ \E c \in Conn : RecvChunk(c) \/ RecvFull(c) \/ RecvEnd(c) \/ RecvError(c)

\* The process ends; the list goes with it, or is written to the file first.
ServerEnds ==
    /\ up /\ crashes < MaxCrashes
    /\ up' = FALSE /\ crashes' = crashes + 1
    /\ Hangup(Conn)
    /\ events' = {} /\ deaf' = {}
    /\ UNCHANGED <<queue, taken>>

\* SO_REUSEADDR lets it listen on the same port at once.
ServerStarts ==
    /\ ~ up
    /\ up' = TRUE
    /\ UNCHANGED <<tcpVars, crashes, events, queue, taken, deaf>>

\* An arrival on a connection that had been missed raises a new edge.
Net ==
    \E c \in Conn :
        /\ Arrive(c) \/ ArriveEnd(c) \/ Learn(c)
        /\ deaf' = {d \in deaf : ~ edge'[d]}
        /\ UNCHANGED <<up, crashes, events, queue, taken>>

\* Other clients of the server, who do as they like.
StrayClient ==
    /\ \E c \in Stray :
          \/ cli[c] = "none" /\ up /\ Connect(c)
          \/ Send(c)
          \/ cli[c] \in {"est", "fin"} /\ CloseAll({c})
          \/ Abort(c)
    /\ UNCHANGED loopVars

\* Nothing more need happen.
Quiet == UNCHANGED serverVars

ServerStep == RecvStep \/ ServerStarts \/ ServerEnds \/ Net

Next == ServerStep \/ StrayClient \/ Quiet

Spec == ServerInit /\ [][Next]_serverVars

\* The loop goes on, TCP delivers, and a server that has ended is started again.
Fairness == WF_serverVars(RecvStep) /\ WF_serverVars(Net) /\ WF_serverVars(ServerStarts)

FairSpec == Spec /\ Fairness

-----------------------------------------------------------------------------

ServerTypeOK ==
    /\ TcpTypeOK
    /\ up \in BOOLEAN /\ crashes \in 0 .. MaxCrashes
    /\ events \in SUBSET (Conn \cup {LISTEN})
    /\ queue \in Seq(Unit)
    /\ taken \in [Conn -> Seq(Unit)]
    /\ deaf \in SUBSET Conn

\* An event still tells the truth when the loop gets to it, so that accept and
\* recv, on sockets that block, never stop the thread that serves everybody
\* (tcp_server.c:105-197).
NeverBlocks ==
    /\ LISTEN \in events => \E c \in Conn : srv[c] = "backlog"
    /\ \A c \in events \ {LISTEN} : srv[c] = "open" /\ Readable(c)

\* What the server inserts of a connection is the beginning of what was sent on
\* it: a unit is lost only with everything that follows on that connection
\* (tcp_server.c:139-182).
NoGap == \A c \in Conn : IsPrefix(taken[c], sentBy[c])

\* Every open connection with something to read has an event coming, but for those
\* whose event the break threw away or whose end was behind data in one recv
\* (tcp_server.c:139, 162).
Announced ==
    \A c \in Conn :
        srv[c] = "open" /\ Readable(c) => edge[c] \/ c \in events \/ c \in deaf

\* A server that has never ended closes the connection of a client that is still
\* there only when at least a buffer full was unread: a client that sends in
\* smaller bursts is never cut off (tcp_server.c:167-181).
CutOffByBurst ==
    \A c \in Conn :
        srv[c] = "closed" /\ cli[c] \notin {"closed", "aborted"} /\ crashes = 0 =>
            Len(sentBy[c]) - Len(taken[c]) >= RecvMax

\* The break never keeps a client from being accepted, since the listening socket
\* is level-triggered (tcp_server.c:72, 162).
EveryoneAccepted == \A c \in Conn : srv[c] = "backlog" ~> srv[c] # "backlog"

\* What can be read from a connection is received, or the connection closed, or
\* its event was missed (tcp_server.c:91-198).
EveryoneServed ==
    \A c \in Conn : srv[c] = "open" /\ Readable(c) ~>
                        srv[c] # "open" \/ ~ Readable(c) \/ c \in deaf

-----------------------------------------------------------------------------
(* The inductive invariant under NeverBlocks and NoGap.                     *)

\* While both ends are there nothing in between is lost.
InOrder ==
    \A c \in Conn :
        /\ srv[c] = "closed" => IsPrefix(taken[c], sentBy[c])
        /\ srv[c] # "closed" => IsPrefix(taken[c] \o rbuf[c] \o flight[c], sentBy[c])
        /\ srv[c] # "closed" /\ cli[c] # "aborted" =>
                taken[c] \o rbuf[c] \o flight[c] = sentBy[c]

\* A connection nobody has asked for has no other end, and nothing is on it.
Unused ==
    \A c \in Conn :
        /\ cli[c] = "none" <=> srv[c] = "none"
        /\ srv[c] = "none" => flight[c] = <<>> /\ rbuf[c] = <<>>

\* The loop's invariant (tcp_server.c:91-198).
LoopInv ==
    /\ ServerTypeOK
    /\ NeverBlocks
    /\ InOrder
    /\ Unused
================================================================================
