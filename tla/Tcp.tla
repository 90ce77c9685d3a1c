---------------------------------- MODULE Tcp ----------------------------------
(***************************************************************************)
(* The kernel's TCP and epoll as tcp_client.c and tcp_server.c see them.    *)
(*                                                                         *)
(* A unit is what one send hands over; it arrives whole or not at all.      *)
(* Nothing is lost or reordered within a connection, but what an end has    *)
(* not taken when its process closes the connection is gone.                *)
(***************************************************************************)
EXTENDS Integers, Sequences, FiniteSets

CONSTANTS
    Conn,       \* the connections there may be
    MaxSent     \* bound: how many units are sent in all

ASSUME TcpAssumption == MaxSent \in Nat

VARIABLES
    cli,        \* the client's end of each connection
    srv,        \* the server's end
    flight,     \* units sent that have not arrived
    rbuf,       \* units that have arrived and have not been received
    hup,        \* how the stream ends after them: "no", "fin" or "rst"
    note,       \* what the server's end has sent back: "no", "fin" or "rst"
    edge,       \* has epoll an event to report for it (EPOLLET)?
    sent,       \* how many units have been sent
    sentBy      \* history: the units sent on each connection, in order

tcpVars == <<cli, srv, flight, rbuf, hup, note, edge, sent, sentBy>>

Unit == 1 .. MaxSent

\* "fin": the server's end has closed.  "reset": the next send gets ECONNRESET.
\* "broken": it gets EPIPE, and the process SIGPIPE.
CliState == {"none", "est", "fin", "reset", "broken", "closed", "aborted"}
SrvState == {"none", "backlog", "open", "closed"}

TcpInit ==
    /\ cli = [c \in Conn |-> "none"] /\ srv = [c \in Conn |-> "none"]
    /\ flight = [c \in Conn |-> <<>>] /\ rbuf = [c \in Conn |-> <<>>]
    /\ hup = [c \in Conn |-> "no"] /\ note = [c \in Conn |-> "no"]
    /\ edge = [c \in Conn |-> FALSE]
    /\ sent = 0
    /\ sentBy = [c \in Conn |-> <<>>]

\* recv would not block.
Readable(c) == rbuf[c] # <<>> \/ hup[c] # "no"

\* connect, with a server that listens: the connection waits for accept.
Connect(c) ==
    /\ cli' = [cli EXCEPT ![c] = "est"]
    /\ srv' = [srv EXCEPT ![c] = "backlog"]
    /\ UNCHANGED <<flight, rbuf, hup, note, edge, sent, sentBy>>

\* send, when the kernel takes the data.
Send(c) ==
    /\ cli[c] \in {"est", "fin"}
    /\ sent < MaxSent
    /\ sent' = sent + 1
    /\ flight' = [flight EXCEPT ![c] = Append(@, sent')]
    /\ sentBy' = [sentBy EXCEPT ![c] = Append(@, sent')]
    /\ UNCHANGED <<cli, srv, rbuf, hup, note, edge>>

\* The client's end of the connections C is closed.
CloseAll(C) ==
    /\ cli' = [c \in Conn |->
                IF c \in C /\ cli[c] \notin {"none", "aborted"} THEN "closed" ELSE cli[c]]
    /\ UNCHANGED <<srv, flight, rbuf, hup, note, edge, sent, sentBy>>

\* The client's end goes without closing: the kernel sends a reset, and drops
\* what it had not sent.
Abort(c) ==
    /\ cli[c] \in {"est", "fin"}
    /\ cli' = [cli EXCEPT ![c] = "aborted"]
    /\ flight' = [flight EXCEPT ![c] = <<>>]
    /\ UNCHANGED <<srv, rbuf, hup, note, edge, sent, sentBy>>

\* A unit arrives.  A closed end answers with a reset, behind its FIN.
Arrive(c) ==
    /\ flight[c] # <<>>
    /\ flight' = [flight EXCEPT ![c] = Tail(@)]
    /\ IF srv[c] = "closed"
       THEN /\ note[c] = "no"
            /\ note' = [note EXCEPT ![c] = "rst"]
            /\ UNCHANGED <<rbuf, edge>>
       ELSE /\ rbuf' = [rbuf EXCEPT ![c] = Append(@, Head(flight[c]))]
            /\ edge' = [edge EXCEPT ![c] = TRUE]
            /\ UNCHANGED note
    /\ UNCHANGED <<cli, srv, hup, sent, sentBy>>

\* The end of the stream arrives.
ArriveEnd(c) ==
    /\ cli[c] \in {"closed", "aborted"} /\ flight[c] = <<>>
    /\ srv[c] \in {"backlog", "open"} /\ hup[c] = "no"
    /\ hup' = [hup EXCEPT ![c] = IF cli[c] = "closed" THEN "fin" ELSE "rst"]
    /\ edge' = [edge EXCEPT ![c] = TRUE]
    /\ UNCHANGED <<cli, srv, flight, rbuf, note, sent, sentBy>>

\* The client's kernel learns that the server's end has closed.
Learn(c) ==
    /\ note[c] # "no"
    /\ note' = [note EXCEPT ![c] = "no"]
    /\ cli' = [cli EXCEPT ![c] =
                CASE @ = "est" /\ note[c] = "fin" -> "fin"
                  [] @ = "est" /\ note[c] = "rst" -> "reset"
                  [] @ = "fin" /\ note[c] = "rst" -> "broken"
                  [] OTHER -> @]
    /\ UNCHANGED <<srv, flight, rbuf, hup, edge, sent, sentBy>>

\* The server's end of the connections C is closed; unread data turn the FIN into
\* a reset.
Hangup(C) ==
    /\ srv' = [c \in Conn |->
                IF c \in C /\ srv[c] \in {"backlog", "open"} THEN "closed" ELSE srv[c]]
    /\ note' = [c \in Conn |->
                IF c \notin C \/ srv[c] \notin {"backlog", "open"} THEN note[c]
                ELSE IF rbuf[c] = <<>> THEN "fin" ELSE "rst"]
    /\ rbuf' = [c \in Conn |-> IF c \in C THEN <<>> ELSE rbuf[c]]
    /\ edge' = [c \in Conn |-> IF c \in C THEN FALSE ELSE edge[c]]
    /\ UNCHANGED <<cli, flight, hup, sent, sentBy>>

TcpTypeOK ==
    /\ cli \in [Conn -> CliState] /\ srv \in [Conn -> SrvState]
    /\ flight \in [Conn -> Seq(Unit)] /\ rbuf \in [Conn -> Seq(Unit)]
    /\ hup \in [Conn -> {"no", "fin", "rst"}] /\ note \in [Conn -> {"no", "fin", "rst"}]
    /\ edge \in [Conn -> BOOLEAN]
    /\ sent \in 0 .. MaxSent
    /\ sentBy \in [Conn -> Seq(Unit)]
================================================================================
