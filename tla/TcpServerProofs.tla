---------------------------- MODULE TcpServerProofs ----------------------------
(***************************************************************************)
(* The loop over the sockets never blocks and takes each stream in order,   *)
(* for any number of connections and units, any buffer and any number of    *)
(* restarts.                                                                *)
(***************************************************************************)
EXTENDS TcpServer, SequenceTheorems, TLAPS

-----------------------------------------------------------------------------
(* Prefixes.                                                                *)

LEMMA PrefixPointwise ==
    ASSUME NEW S, NEW s \in Seq(S), NEW t \in Seq(S)
    PROVE  IsPrefix(s, t) <=>
              Len(s) <= Len(t) /\ \A i \in 1 .. Len(s) : s[i] = t[i]
<1>1. /\ Len(s) \in Nat /\ Len(t) \in Nat
      /\ \A i \in 1 .. Len(s) : s[i] \in S
      /\ \A i \in 1 .. Len(t) : t[i] \in S
    BY LenProperties, ElementOfSeq
<1>2. SubSeq(s, 1, Len(s)) = s
    BY SubSeqFull
<1>3. ASSUME Len(s) <= Len(t)
      PROVE  /\ SubSeq(t, 1, Len(s)) \in Seq(S)
             /\ Len(SubSeq(t, 1, Len(s))) = Len(s)
             /\ \A i \in 1 .. Len(s) : SubSeq(t, 1, Len(s))[i] = t[i]
    <2>1. \A i \in 1 .. Len(s) : t[i] \in S
        BY <1>1, <1>3
    <2>2. /\ SubSeq(t, 1, Len(s)) \in Seq(S)
          /\ Len(SubSeq(t, 1, Len(s))) = IF 1 <= Len(s) THEN Len(s) - 1 + 1 ELSE 0
          /\ \A i \in 1 .. Len(s) - 1 + 1 : SubSeq(t, 1, Len(s))[i] = t[1 + i - 1]
        BY <1>1, <2>1, SubSeqProperties
    <2> QED
        BY <1>1, <2>2
<1>4. ASSUME Len(s) <= Len(t), \A i \in 1 .. Len(s) : s[i] = t[i]
      PROVE  s = SubSeq(t, 1, Len(s))
    BY <1>3, <1>4, SeqEqual
<1> QED
    BY <1>2, <1>3, <1>4 DEF IsPrefix

LEMMA PrefixOfConcat ==
    ASSUME NEW S, NEW s \in Seq(S), NEW t \in Seq(S)
    PROVE  IsPrefix(s, s \o t)
<1>1. Len(s) \in Nat /\ Len(t) \in Nat
    BY LenProperties
<1>2. /\ s \o t \in Seq(S) /\ Len(s \o t) = Len(s) + Len(t)
      /\ \A i \in 1 .. Len(s) + Len(t) :
            (s \o t)[i] = IF i <= Len(s) THEN s[i] ELSE t[i - Len(s)]
    BY ConcatProperties
<1>3. Len(s) <= Len(s \o t) /\ \A i \in 1 .. Len(s) : s[i] = (s \o t)[i]
    BY <1>1, <1>2
<1> QED
    BY <1>2, <1>3, PrefixPointwise

LEMMA PrefixTransitive ==
    ASSUME NEW S, NEW s \in Seq(S), NEW t \in Seq(S), NEW u \in Seq(S),
           IsPrefix(s, t), IsPrefix(t, u)
    PROVE  IsPrefix(s, u)
<1>1. Len(s) \in Nat /\ Len(t) \in Nat /\ Len(u) \in Nat
    BY LenProperties
<1>2. /\ Len(s) <= Len(t) /\ \A i \in 1 .. Len(s) : s[i] = t[i]
      /\ Len(t) <= Len(u) /\ \A i \in 1 .. Len(t) : t[i] = u[i]
    BY PrefixPointwise
<1>3. Len(s) <= Len(u) /\ \A i \in 1 .. Len(s) : s[i] = u[i]
    BY <1>1, <1>2
<1> QED
    BY <1>3, PrefixPointwise

LEMMA PrefixOfSelf ==
    ASSUME NEW S, NEW s \in Seq(S)
    PROVE  IsPrefix(s, s)
<1>1. Len(s) \in Nat
    BY LenProperties
<1> QED
    BY <1>1, PrefixPointwise

LEMMA PrefixOfAppend ==
    ASSUME NEW S, NEW s \in Seq(S), NEW t \in Seq(S), NEW e \in S, IsPrefix(s, t)
    PROVE  IsPrefix(s, Append(t, e))
<1>1. Append(t, e) = t \o <<e>> /\ Append(t, e) \in Seq(S) /\ <<e>> \in Seq(S)
    BY AppendIsConcat, AppendProperties
<1>2. IsPrefix(t, Append(t, e))
    BY <1>1, PrefixOfConcat
<1> QED
    BY <1>1, <1>2, PrefixTransitive

-----------------------------------------------------------------------------
(* What a unit's way from flight through rbuf to taken does to the three of *)
(* them together: nothing.                                                  *)

LEMMA Cat3Type ==
    ASSUME NEW S, NEW a \in Seq(S), NEW b \in Seq(S), NEW c \in Seq(S)
    PROVE  a \o b \in Seq(S) /\ a \o b \o c \in Seq(S)
    BY ConcatProperties

LEMMA HeadThenTail ==
    ASSUME NEW S, NEW c \in Seq(S), c # <<>>
    PROVE  Head(c) \in S /\ Tail(c) \in Seq(S) /\ <<Head(c)>> \o Tail(c) = c
<1>1. Head(c) \in S /\ Tail(c) \in Seq(S)
    BY HeadTailProperties
<1>2. Len(c) \in Nat \ {0}
    BY EmptySeq, LenProperties
<1>3. SubSeq(c, 1, Len(c)) = <<c[1]>> \o SubSeq(c, 1 + 1, Len(c))
    BY <1>2, SubSeqRecursiveFirst
<1> QED
    BY <1>1, <1>2, <1>3, SubSeqFull, TailIsSubSeq

LEMMA Arriving ==
    ASSUME NEW a \in Seq(Unit), NEW b \in Seq(Unit), NEW e \in Unit, NEW c \in Seq(Unit)
    PROVE  a \o Append(b, e) \o c = a \o b \o (<<e>> \o c)
<1>1. <<e>> \in Seq(Unit) /\ Append(b, e) = b \o <<e>> /\ a \o b \in Seq(Unit)
    BY AppendIsConcat, ConcatProperties
<1>2. a \o (b \o <<e>>) = (a \o b) \o <<e>>
    BY <1>1, ConcatAssociative
<1>3. ((a \o b) \o <<e>>) \o c = (a \o b) \o (<<e>> \o c)
    BY <1>1, ConcatAssociative
<1> QED
    BY <1>1, <1>2, <1>3

LEMMA Taking ==
    ASSUME NEW S, NEW a \in Seq(S), NEW b \in Seq(S), NEW c \in Seq(S)
    PROVE  (a \o b) \o <<>> \o c = a \o b \o c
    BY ConcatProperties, ConcatEmptySeq

LEMMA Sending ==
    ASSUME NEW S, NEW a \in Seq(S), NEW b \in Seq(S), NEW c \in Seq(S), NEW e \in S
    PROVE  a \o b \o Append(c, e) = Append(a \o b \o c, e)
<1>1. a \o b \in Seq(S) /\ (a \o b) \o c \in Seq(S) /\ <<e>> \in Seq(S)
    BY ConcatProperties
<1> QED
    BY <1>1, AppendIsConcat, ConcatAssociative

-----------------------------------------------------------------------------
(* Type correctness.                                                        *)

\* The actions, in the two groups in which the invariant's parts treat them: those
\* of the loop and the server, and those of the network and the clients.
LEMMA Actions ==
    ASSUME [Next]_serverVars
    PROVE  \/ EpollWait \/ Accept
           \/ \E c \in Conn : RecvChunk(c) \/ RecvFull(c) \/ RecvEnd(c) \/ RecvError(c)
           \/ ServerEnds \/ ServerStarts
           \/ Net \/ StrayClient
           \/ UNCHANGED serverVars
BY DEF Next, ServerStep, RecvStep, Quiet

LEMMA SeqParts ==
    ASSUME ServerTypeOK, NEW c \in Conn
    PROVE  /\ flight[c] \in Seq(Unit) /\ rbuf[c] \in Seq(Unit)
           /\ sentBy[c] \in Seq(Unit) /\ taken[c] \in Seq(Unit)
           /\ taken[c] \o rbuf[c] \in Seq(Unit)
           /\ taken[c] \o rbuf[c] \o flight[c] \in Seq(Unit)
<1>1. /\ flight[c] \in Seq(Unit) /\ rbuf[c] \in Seq(Unit)
      /\ sentBy[c] \in Seq(Unit) /\ taken[c] \in Seq(Unit)
    BY DEF ServerTypeOK, TcpTypeOK
<1> QED
    BY <1>1, Cat3Type

LEMMA HangupType ==
    ASSUME ServerTypeOK, NEW C, Hangup(C)
    PROVE  TcpTypeOK'
<1>1. <<>> \in Seq(Unit)
    BY EmptySeq
<1> QED
    BY <1>1 DEF ServerTypeOK, TcpTypeOK, Hangup, CliState, SrvState, Unit

LEMMA NetType ==
    ASSUME ServerTypeOK, NEW c \in Conn, Arrive(c) \/ ArriveEnd(c) \/ Learn(c)
    PROVE  TcpTypeOK'
<1>0. TcpTypeOK
    BY DEF ServerTypeOK
<1>1. CASE Arrive(c)
    <2>1. flight[c] \in Seq(Unit) /\ rbuf[c] \in Seq(Unit) /\ flight[c] # <<>>
        BY <1>1, SeqParts DEF Arrive
    <2>2. Tail(flight[c]) \in Seq(Unit) /\ Append(rbuf[c], Head(flight[c])) \in Seq(Unit)
        BY <2>1, HeadTailProperties, AppendProperties
    <2>3. UNCHANGED <<cli, srv, hup, sent, sentBy>>
        BY <1>1 DEF Arrive
    <2>4. flight' \in [Conn -> Seq(Unit)]
        BY <1>0, <1>1, <2>2 DEF Arrive, TcpTypeOK
    <2>5. /\ rbuf' \in [Conn -> Seq(Unit)]
          /\ note' \in [Conn -> {"no", "fin", "rst"}]
          /\ edge' \in [Conn -> BOOLEAN]
        BY <1>0, <1>1, <2>2 DEF Arrive, TcpTypeOK
    <2> QED
        BY <1>0, <2>3, <2>4, <2>5 DEF TcpTypeOK, Unit
<1>2. CASE ArriveEnd(c)
    BY <1>0, <1>2 DEF ArriveEnd, TcpTypeOK, Unit
<1>3. CASE Learn(c)
    <2>1. \A x : (CASE x = "est" /\ note[c] = "fin" -> "fin"
                    [] x = "est" /\ note[c] = "rst" -> "reset"
                    [] x = "fin" /\ note[c] = "rst" -> "broken"
                    [] OTHER -> x) \in {"fin", "reset", "broken", x}
        OBVIOUS
    <2>2. cli[c] \in CliState
        BY <1>0 DEF TcpTypeOK
    <2>3. cli' \in [Conn -> CliState]
        BY <1>0, <1>3, <2>1, <2>2 DEF Learn, TcpTypeOK, CliState
    <2> QED
        BY <1>0, <1>3, <2>3 DEF Learn, TcpTypeOK, Unit
<1> QED
    BY <1>1, <1>2, <1>3

LEMMA ClientType ==
    ASSUME ServerTypeOK, NEW c \in Conn,
           Connect(c) \/ Send(c) \/ CloseAll({c}) \/ Abort(c)
    PROVE  TcpTypeOK'
<1>0. TcpTypeOK
    BY DEF ServerTypeOK
<1>1. CASE Connect(c)
    BY <1>0, <1>1 DEF Connect, TcpTypeOK, CliState, SrvState, Unit
<1>2. CASE Send(c)
    <2>1. sent' \in 0 .. MaxSent /\ sent' \in Unit
        BY <1>0, <1>2, TcpAssumption DEF TcpAssumption, Send, TcpTypeOK, Unit
    <2>2. Append(flight[c], sent') \in Seq(Unit) /\ Append(sentBy[c], sent') \in Seq(Unit)
        BY <2>1, SeqParts, AppendProperties
    <2>3. flight' \in [Conn -> Seq(Unit)] /\ sentBy' \in [Conn -> Seq(Unit)]
        BY <1>0, <1>2, <2>2 DEF Send, TcpTypeOK
    <2>4. UNCHANGED <<cli, srv, rbuf, hup, note, edge>>
        BY <1>2 DEF Send
    <2> QED
        BY <1>0, <2>1, <2>3, <2>4 DEF TcpTypeOK, Unit
<1>3. CASE CloseAll({c})
    BY <1>0, <1>3 DEF CloseAll, TcpTypeOK, CliState, Unit
<1>4. CASE Abort(c)
    <2>1. <<>> \in Seq(Unit)
        BY EmptySeq
    <2> QED
        BY <1>0, <1>4, <2>1 DEF Abort, TcpTypeOK, CliState, Unit
<1> QED
    BY <1>1, <1>2, <1>3, <1>4

LEMMA TypeStep ==
    ASSUME ServerTypeOK, [Next]_serverVars
    PROVE  ServerTypeOK'
<1> USE TcpServerAssumption DEF TcpServerAssumption
<1>0. TcpTypeOK /\ <<>> \in Seq(Unit)
    BY EmptySeq DEF ServerTypeOK
<1>1. CASE EpollWait
    <2>1. TcpTypeOK'
        BY <1>0, <1>1 DEF EpollWait, TcpTypeOK, Unit
    <2>2. events' \in SUBSET (Conn \cup {LISTEN})
        BY <1>1 DEF EpollWait, Ready
    <2> QED
        BY <1>1, <2>1, <2>2 DEF EpollWait, ServerTypeOK, Unit
<1>2. CASE Accept
    <2>1. PICK c \in Conn : /\ srv' = [srv EXCEPT ![c] = "open"]
                            /\ edge' = [edge EXCEPT ![c] = Readable(c)]
        BY <1>2 DEF Accept
    <2>2. Readable(c) \in BOOLEAN
        BY DEF Readable
    <2>3. TcpTypeOK'
        BY <1>0, <1>2, <2>1, <2>2 DEF Accept, TcpTypeOK, SrvState, Unit
    <2> QED
        BY <1>2, <2>3 DEF Accept, ServerTypeOK, Unit
<1>3. ASSUME NEW c \in Conn, RecvChunk(c) PROVE ServerTypeOK'
    <2>1. rbuf[c] \in Seq(Unit) /\ taken[c] \in Seq(Unit) /\ queue \in Seq(Unit)
        BY SeqParts DEF ServerTypeOK
    <2>2. queue \o rbuf[c] \in Seq(Unit) /\ taken[c] \o rbuf[c] \in Seq(Unit)
        BY <2>1, ConcatProperties
    <2>3. TcpTypeOK'
        BY <1>0, <1>3 DEF RecvChunk, TcpTypeOK, Unit
    <2>4. taken' \in [Conn -> Seq(Unit)] /\ queue' \in Seq(Unit)
        BY <1>3, <2>2 DEF RecvChunk, ServerTypeOK
    <2>5. deaf' \in SUBSET Conn /\ events' \in SUBSET (Conn \cup {LISTEN})
        BY <1>3 DEF RecvChunk, ServerTypeOK
    <2> QED
        BY <1>3, <2>3, <2>4, <2>5 DEF RecvChunk, ServerTypeOK, Unit
<1>4. ASSUME NEW c \in Conn, RecvFull(c) PROVE ServerTypeOK'
    <2>1. note' \in [Conn -> {"no", "fin", "rst"}]
        BY <1>0, <1>4 DEF RecvFull, TcpTypeOK
    <2>2. UNCHANGED <<cli, flight, hup, sent, sentBy, up, crashes, queue, taken>>
        BY <1>4 DEF RecvFull
    <2>3. TcpTypeOK'
        BY <1>0, <1>4, <2>1, <2>2 DEF RecvFull, TcpTypeOK, SrvState, Unit
    <2>4. deaf' \in SUBSET Conn /\ events' \in SUBSET (Conn \cup {LISTEN})
        BY <1>4 DEF RecvFull, ServerTypeOK
    <2> QED
        BY <2>2, <2>3, <2>4 DEF ServerTypeOK, Unit
<1>5. ASSUME NEW c \in Conn, RecvEnd(c) \/ RecvError(c) PROVE ServerTypeOK'
    <2>1. TcpTypeOK'
        BY <1>5, HangupType DEF RecvEnd, RecvError
    <2>2. deaf' \in SUBSET Conn /\ events' \in SUBSET (Conn \cup {LISTEN})
        BY <1>5 DEF RecvEnd, RecvError, ServerTypeOK
    <2> QED
        BY <1>5, <2>1, <2>2 DEF RecvEnd, RecvError, ServerTypeOK, Hangup, Unit
<1>6. CASE ServerEnds
    <2>1. TcpTypeOK'
        BY <1>6, HangupType DEF ServerEnds
    <2>2. crashes' \in 0 .. MaxCrashes
        BY <1>6 DEF ServerEnds, ServerTypeOK
    <2>3. /\ up' = FALSE /\ events' = {} /\ deaf' = {}
          /\ UNCHANGED <<queue, taken>>
        BY <1>6 DEF ServerEnds
    <2> QED
        BY <2>1, <2>2, <2>3 DEF ServerTypeOK, Unit
<1>7. CASE ServerStarts
    BY <1>0, <1>7 DEF ServerStarts, ServerTypeOK, tcpVars, TcpTypeOK, Unit
<1>8. CASE Net
    <2>1. PICK c \in Conn : /\ Arrive(c) \/ ArriveEnd(c) \/ Learn(c)
                            /\ deaf' = {d \in deaf : ~ edge'[d]}
                            /\ UNCHANGED <<up, crashes, events, queue, taken>>
        BY <1>8 DEF Net
    <2>2. TcpTypeOK'
        BY <2>1, NetType
    <2> QED
        BY <2>1, <2>2 DEF ServerTypeOK, Unit
<1>9. CASE StrayClient
    <2>1. PICK c \in Stray : Connect(c) \/ Send(c) \/ CloseAll({c}) \/ Abort(c)
        BY <1>9 DEF StrayClient
    <2>2. TcpTypeOK'
        BY <2>1, ClientType
    <2> QED
        BY <1>9, <2>2 DEF StrayClient, loopVars, ServerTypeOK, Unit
<1>10. CASE UNCHANGED serverVars
    BY <1>0, <1>10 DEF serverVars, tcpVars, loopVars, ServerTypeOK, TcpTypeOK, Unit
<1> QED
    BY <1>1, <1>2, <1>3, <1>4, <1>5, <1>6, <1>7, <1>8, <1>9, <1>10, Actions

-----------------------------------------------------------------------------
(* The loop never blocks.                                                   *)

LEMMA NeverBlocksStep ==
    ASSUME ServerTypeOK, NeverBlocks, Unused, [Next]_serverVars
    PROVE  NeverBlocks'
<1> USE TcpServerAssumption DEF TcpServerAssumption
<1>0. /\ srv \in [Conn -> SrvState] /\ hup \in [Conn -> {"no", "fin", "rst"}]
      /\ rbuf \in [Conn -> Seq(Unit)] /\ events \in SUBSET (Conn \cup {LISTEN})
      /\ LISTEN \notin Conn
    BY DEF ServerTypeOK, TcpTypeOK
\* When nothing but the connection c has changed and c is no longer among the
\* events, the other events still tell the truth: c was not waiting for accept.
<1>a. ASSUME NEW c \in Conn, c \in events, events' \subseteq events \ {c},
             \A d \in Conn \ {c} : srv'[d] = srv[d] /\ rbuf'[d] = rbuf[d],
             hup' = hup
      PROVE  NeverBlocks'
    <2>1. srv[c] = "open"
        BY <1>0, <1>a DEF NeverBlocks
    <2>2. ASSUME LISTEN \in events' PROVE \E d \in Conn : srv'[d] = "backlog"
        <3>1. PICK d \in Conn : srv[d] = "backlog"
            BY <1>a, <2>2 DEF NeverBlocks
        <3> QED
            BY <1>a, <2>1, <3>1
    <2>3. ASSUME NEW d \in events' \ {LISTEN}
          PROVE  srv'[d] = "open" /\ Readable(d)'
        <3>1. d \in Conn \ {c} /\ d \in events
            BY <1>0, <1>a
        <3> QED
            BY <1>a, <3>1 DEF NeverBlocks, Readable
    <2> QED
        BY <2>2, <2>3 DEF NeverBlocks
\* When connections only become readable nothing is lost.
<1>b. ASSUME events' = events,
             \A d \in Conn : srv[d] = "backlog" => srv'[d] = "backlog",
             \A d \in Conn : srv[d] = "open" => srv'[d] = "open",
             \A d \in Conn : Readable(d) => Readable(d)'
      PROVE  NeverBlocks'
    BY <1>0, <1>b DEF NeverBlocks
<1>1. CASE EpollWait
    BY <1>0, <1>1 DEF EpollWait, Ready, NeverBlocks, Readable
<1>2. CASE Accept
    <2>1. /\ events' = events \ {LISTEN} /\ UNCHANGED <<rbuf, hup>>
          /\ \A d \in Conn : srv[d] = "open" => srv'[d] = "open"
        BY <1>0, <1>2 DEF Accept
    <2> QED
        BY <1>0, <2>1 DEF NeverBlocks, Readable
<1>3. ASSUME NEW c \in Conn, RecvChunk(c) PROVE NeverBlocks'
    BY <1>0, <1>3, <1>a DEF RecvChunk
<1>4. ASSUME NEW c \in Conn, RecvFull(c) PROVE NeverBlocks'
    BY <1>0, <1>4, <1>a DEF RecvFull
<1>5. ASSUME NEW c \in Conn, RecvEnd(c) \/ RecvError(c) PROVE NeverBlocks'
    <2>1. c \in events /\ events' \subseteq events \ {c} /\ Hangup({c})
        BY <1>5 DEF RecvEnd, RecvError
    <2>2. /\ hup' = hup
          /\ \A d \in Conn \ {c} : srv'[d] = srv[d] /\ rbuf'[d] = rbuf[d]
        BY <1>0, <2>1 DEF Hangup
    <2> QED
        BY <2>1, <2>2, <1>a
<1>6. CASE ServerEnds
    BY <1>6 DEF ServerEnds, NeverBlocks
<1>7. CASE ServerStarts
    BY <1>7, <1>b DEF ServerStarts, tcpVars, Readable
<1>8. CASE Net
    <2>1. PICK c \in Conn : Arrive(c) \/ ArriveEnd(c) \/ Learn(c)
        BY <1>8 DEF Net
    <2>2. events' = events
        BY <1>8 DEF Net
    <2>3. CASE Arrive(c)
        <3>1. flight[c] \in Seq(Unit) /\ rbuf[c] \in Seq(Unit) /\ flight[c] # <<>>
            BY <2>3, SeqParts DEF Arrive
        <3>2. Append(rbuf[c], Head(flight[c])) # <<>>
            BY <3>1, HeadTailProperties, AppendProperties
        <3>3. \A d \in Conn : rbuf[d] # <<>> => rbuf'[d] # <<>>
            BY <1>0, <2>3, <3>2 DEF Arrive
        <3> QED
            BY <1>b, <2>2, <2>3, <3>3 DEF Arrive, Readable
    <2>4. CASE ArriveEnd(c)
        BY <1>0, <1>b, <2>2, <2>4 DEF ArriveEnd, Readable
    <2>5. CASE Learn(c)
        BY <1>b, <2>2, <2>5 DEF Learn, Readable
    <2> QED
        BY <2>1, <2>3, <2>4, <2>5
<1>9. CASE StrayClient
    <2>1. PICK c \in Stray :
              \/ cli[c] = "none" /\ up /\ Connect(c)
              \/ Send(c) \/ CloseAll({c}) \/ Abort(c)
        BY <1>9 DEF StrayClient
    <2>2. events' = events
        BY <1>9 DEF StrayClient, loopVars
    <2>3. CASE Send(c) \/ CloseAll({c}) \/ Abort(c)
        BY <1>b, <2>2, <2>3 DEF Send, CloseAll, Abort, Readable
    <2>4. CASE cli[c] = "none" /\ Connect(c)
        <3>1. srv[c] = "none" /\ srv' = [srv EXCEPT ![c] = "backlog"]
            BY <2>4 DEF Connect, Unused
        <3>2. \A d \in Conn : srv[d] \in {"backlog", "open"} => srv'[d] = srv[d]
            BY <1>0, <3>1
        <3> QED
            BY <1>b, <2>2, <2>4, <3>2 DEF Connect, Readable
    <2> QED
        BY <2>1, <2>3, <2>4
<1>10. CASE UNCHANGED serverVars
    BY <1>10, <1>b DEF serverVars, tcpVars, loopVars, Readable
<1> QED
    BY <1>1, <1>2, <1>3, <1>4, <1>5, <1>6, <1>7, <1>8, <1>9, <1>10, Actions

-----------------------------------------------------------------------------
(* The streams stay in order.                                               *)

LEMMA UnusedStep ==
    ASSUME ServerTypeOK, NeverBlocks, Unused, [Next]_serverVars
    PROVE  Unused'
<1> USE TcpServerAssumption DEF TcpServerAssumption
<1>0. /\ cli \in [Conn -> CliState] /\ srv \in [Conn -> SrvState]
      /\ flight \in [Conn -> Seq(Unit)] /\ rbuf \in [Conn -> Seq(Unit)]
      /\ events \in SUBSET (Conn \cup {LISTEN})
    BY DEF ServerTypeOK, TcpTypeOK
<1>1. ASSUME NEW C \in SUBSET Conn, Hangup(C) PROVE Unused'
    BY <1>0, <1>1 DEF Hangup, Unused
<1>2. CASE Accept
    BY <1>0, <1>2 DEF Accept, Unused
<1>3. ASSUME NEW c \in Conn, RecvChunk(c) \/ RecvFull(c) PROVE Unused'
    <2>1. /\ srv[c] = "open" /\ UNCHANGED <<cli, flight>>
          /\ rbuf' = [rbuf EXCEPT ![c] = <<>>]
          /\ srv' \in {srv, [srv EXCEPT ![c] = "closed"]}
        BY <1>0, <1>3 DEF RecvChunk, RecvFull, NeverBlocks
    <2> QED
        BY <1>0, <2>1 DEF Unused
<1>4. ASSUME NEW c \in Conn, RecvEnd(c) \/ RecvError(c) PROVE Unused'
    BY <1>1, <1>4 DEF RecvEnd, RecvError
<1>5. CASE ServerEnds
    BY <1>1, <1>5 DEF ServerEnds
<1>6. CASE EpollWait \/ ServerStarts \/ UNCHANGED serverVars
    BY <1>6 DEF EpollWait, ServerStarts, serverVars, tcpVars, Unused
<1>7. CASE Net
    <2>1. PICK c \in Conn : Arrive(c) \/ ArriveEnd(c) \/ Learn(c)
        BY <1>7 DEF Net
    <2>2. CASE Arrive(c)
        <3>1. /\ srv[c] # "none" /\ UNCHANGED <<cli, srv>>
              /\ \A d \in Conn \ {c} : rbuf'[d] = rbuf[d] /\ flight'[d] = flight[d]
            <4>1. UNCHANGED <<cli, srv>> /\ flight[c] # <<>>
                BY <2>2 DEF Arrive
            <4>2. \A d \in Conn \ {c} : flight'[d] = flight[d]
                BY <1>0, <2>2 DEF Arrive
            <4>3. \/ rbuf' = rbuf
                  \/ rbuf' = [rbuf EXCEPT ![c] = Append(@, Head(flight[c]))]
                BY <2>2 DEF Arrive
            <4>4. \A d \in Conn \ {c} : rbuf'[d] = rbuf[d]
                BY <1>0, <4>3
            <4> QED
                BY <4>1, <4>2, <4>4 DEF Unused
        <3> QED
            BY <1>0, <3>1 DEF Unused
    <2>3. CASE ArriveEnd(c)
        BY <2>3 DEF ArriveEnd, Unused
    <2>4. CASE Learn(c)
        <3>1. \A d \in Conn \ {c} : cli'[d] = cli[d]
            BY <1>0, <2>4 DEF Learn
        <3>2. cli'[c] = "none" <=> cli[c] = "none"
            BY <1>0, <2>4 DEF Learn
        <3>3. UNCHANGED <<srv, flight, rbuf>>
            BY <2>4 DEF Learn
        <3> QED
            BY <3>1, <3>2, <3>3 DEF Unused
    <2> QED
        BY <2>1, <2>2, <2>3, <2>4
<1>8. CASE StrayClient
    <2>1. PICK c \in Conn : Connect(c) \/ Send(c) \/ CloseAll({c}) \/ Abort(c)
        BY <1>8 DEF StrayClient
    <2>2. CASE Connect(c)
        BY <1>0, <1>8, <2>2 DEF Connect, Unused, StrayClient
    <2>3. CASE Send(c)
        BY <1>0, <2>3 DEF Send, Unused
    <2>4. CASE CloseAll({c})
        BY <1>0, <2>4 DEF CloseAll, Unused
    <2>5. CASE Abort(c)
        <3>1. /\ cli[c] # "none" /\ cli' = [cli EXCEPT ![c] = "aborted"]
              /\ flight' = [flight EXCEPT ![c] = <<>>] /\ UNCHANGED <<srv, rbuf>>
            BY <2>5 DEF Abort
        <3>2. \A d \in Conn : cli'[d] = "none" <=> cli[d] = "none"
            BY <1>0, <3>1
        <3>3. \A d \in Conn : flight[d] = <<>> => flight'[d] = <<>>
            BY <1>0, <3>1
        <3> QED
            BY <3>1, <3>2, <3>3 DEF Unused
    <2> QED
        BY <2>1, <2>2, <2>3, <2>4, <2>5
<1> QED
    BY <1>2, <1>3, <1>4, <1>5, <1>6, <1>7, <1>8, Actions

LEMMA InOrderStep ==
    ASSUME ServerTypeOK, NeverBlocks, Unused, InOrder, [Next]_serverVars
    PROVE  InOrder'
<1> DEFINE Way(c) == taken[c] \o rbuf[c] \o flight[c]
           At(c) == /\ srv[c] = "closed" => IsPrefix(taken[c], sentBy[c])
                    /\ srv[c] # "closed" => IsPrefix(Way(c), sentBy[c])
                    /\ srv[c] # "closed" /\ cli[c] # "aborted" => Way(c) = sentBy[c]
<1> USE TcpServerAssumption DEF TcpServerAssumption
<1>0. /\ cli \in [Conn -> CliState] /\ srv \in [Conn -> SrvState]
      /\ flight \in [Conn -> Seq(Unit)] /\ rbuf \in [Conn -> Seq(Unit)]
      /\ sentBy \in [Conn -> Seq(Unit)] /\ taken \in [Conn -> Seq(Unit)]
      /\ events \in SUBSET (Conn \cup {LISTEN})
    BY DEF ServerTypeOK, TcpTypeOK
<1>1. \A c \in Conn : At(c)
    BY DEF InOrder
<1>2. SUFFICES ASSUME NEW c \in Conn PROVE At(c)'
    BY DEF InOrder
<1>3. /\ flight[c] \in Seq(Unit) /\ rbuf[c] \in Seq(Unit)
      /\ sentBy[c] \in Seq(Unit) /\ taken[c] \in Seq(Unit)
      /\ taken[c] \o rbuf[c] \in Seq(Unit) /\ Way(c) \in Seq(Unit)
    BY SeqParts
\* Whatever has happened to the connection, what was taken is a prefix.
<1>4. IsPrefix(taken[c], sentBy[c])
    <2>1. IsPrefix(taken[c], taken[c] \o rbuf[c]) /\ IsPrefix(taken[c] \o rbuf[c], Way(c))
        BY <1>3, PrefixOfConcat
    <2>2. IsPrefix(taken[c], Way(c))
        BY <1>3, <2>1, PrefixTransitive
    <2> HIDE DEF Way
    <2>3. srv[c] # "closed" => IsPrefix(Way(c), sentBy[c])
        BY <1>1
    <2>4. srv[c] # "closed" => IsPrefix(taken[c], sentBy[c])
        BY <1>3, <2>2, <2>3, PrefixTransitive
    <2> QED
        BY <1>1, <2>4
<1>5. ASSUME srv'[c] = "closed", UNCHANGED <<taken, sentBy>> PROVE At(c)'
    BY <1>4, <1>5
\* Nothing moves on the connection c, and its ends stay as they are.
<1>6. ASSUME taken'[c] = taken[c], rbuf'[c] = rbuf[c], flight'[c] = flight[c],
             sentBy'[c] = sentBy[c],
             srv'[c] = "closed" <=> srv[c] = "closed",
             cli[c] = "aborted" => cli'[c] = "aborted"
      PROVE  At(c)'
    BY <1>1, <1>6
<1>7. CASE EpollWait \/ ServerStarts \/ UNCHANGED serverVars
    BY <1>6, <1>7 DEF EpollWait, ServerStarts, serverVars, tcpVars, loopVars
<1>8. CASE Accept
    <2>1. /\ srv'[c] = "closed" <=> srv[c] = "closed"
          /\ UNCHANGED <<cli, flight, rbuf, sentBy, taken>>
        BY <1>0, <1>8 DEF Accept
    <2> QED
        BY <1>6, <2>1
<1>9. ASSUME NEW d \in Conn, RecvChunk(d) PROVE At(c)'
    <2>1. CASE c # d
        BY <1>0, <1>6, <1>9, <2>1 DEF RecvChunk
    <2>2. CASE c = d
        <3>1. /\ taken'[c] = taken[c] \o rbuf[c] /\ rbuf'[c] = <<>>
              /\ UNCHANGED <<cli, srv, flight, sentBy>> /\ srv[c] = "open"
            BY <1>0, <1>9, <2>2 DEF RecvChunk, NeverBlocks
        <3>2. Way(c)' = Way(c)
            BY <1>3, <3>1, Taking
        <3> QED
            BY <1>1, <3>1, <3>2
    <2> QED
        BY <2>1, <2>2
<1>10. ASSUME NEW d \in Conn, RecvFull(d) PROVE At(c)'
    <2>1. CASE c # d
        BY <1>0, <1>6, <1>10, <2>1 DEF RecvFull
    <2>2. CASE c = d
        BY <1>0, <1>5, <1>10, <2>2 DEF RecvFull
    <2> QED
        BY <2>1, <2>2
<1>11. ASSUME NEW C \in SUBSET Conn, Hangup(C), UNCHANGED taken
       PROVE  At(c)'
    <2>1. UNCHANGED <<cli, flight, sentBy>>
        BY <1>11 DEF Hangup
    <2>2. CASE c \in C /\ srv[c] \in {"backlog", "open", "closed"}
        <3>1. srv'[c] = "closed"
            BY <1>0, <1>11, <2>2 DEF Hangup
        <3> QED
            BY <1>5, <1>11, <2>1, <3>1
    <2>3. CASE c \notin C \/ srv[c] = "none"
        <3>1. srv'[c] = srv[c] /\ rbuf'[c] = rbuf[c]
            BY <1>0, <1>11, <2>3 DEF Hangup, Unused
        <3> QED
            BY <1>6, <1>11, <2>1, <3>1
    <2> QED
        BY <1>0, <2>2, <2>3 DEF SrvState
<1>12. ASSUME NEW d \in Conn, RecvEnd(d) \/ RecvError(d) PROVE At(c)'
    BY <1>11, <1>12 DEF RecvEnd, RecvError
<1>13. CASE ServerEnds
    BY <1>11, <1>13 DEF ServerEnds
<1>14. CASE Net
    <2>1. PICK d \in Conn : Arrive(d) \/ ArriveEnd(d) \/ Learn(d)
        BY <1>14 DEF Net
    <2>2. UNCHANGED <<srv, taken, sentBy>>
        BY <1>14 DEF Net, Arrive, ArriveEnd, Learn
    <2>3. CASE srv[c] = "closed"
        BY <1>5, <2>2, <2>3
    <2>4. CASE Arrive(d) /\ c # d
        BY <1>0, <1>6, <2>2, <2>4 DEF Arrive
    <2>5. CASE Arrive(d) /\ c = d /\ srv[c] # "closed"
        <3>1. /\ flight[c] # <<>> /\ flight'[c] = Tail(flight[c])
              /\ rbuf'[c] = Append(rbuf[c], Head(flight[c])) /\ UNCHANGED cli
            <4>1. flight[c] # <<>> /\ UNCHANGED cli
                BY <2>5 DEF Arrive
            <4>2. flight'[c] = Tail(flight[c])
                BY <1>0, <2>5 DEF Arrive
            <4>3. rbuf' = [rbuf EXCEPT ![c] = Append(@, Head(flight[c]))]
                BY <2>5 DEF Arrive
            <4> QED
                BY <1>0, <4>1, <4>2, <4>3
        <3>2. Way(c)' = Way(c)
            <4>1. taken[c] \o Append(rbuf[c], Head(flight[c])) \o Tail(flight[c]) = Way(c)
                <5>1. PICK h \in Unit, t \in Seq(Unit) :
                        h = Head(flight[c]) /\ t = Tail(flight[c]) /\ <<h>> \o t = flight[c]
                    BY <1>3, <3>1, HeadThenTail
                <5>2. /\ taken[c] \in Seq(Unit) /\ rbuf[c] \in Seq(Unit)
                      /\ Way(c) = (taken[c] \o rbuf[c]) \o flight[c]
                    BY <1>3
                <5>3. taken[c] \o Append(rbuf[c], h) \o t = taken[c] \o rbuf[c] \o (<<h>> \o t)
                    BY <5>2, Arriving
                <5> HIDE DEF Way
                <5> QED
                    BY <5>1, <5>2, <5>3
            <4> QED
                BY <2>2, <3>1, <4>1
        <3> QED
            BY <1>1, <2>2, <2>5, <3>1, <3>2
    <2>6. CASE ArriveEnd(d)
        BY <1>6, <2>2, <2>6 DEF ArriveEnd
    <2>7. CASE Learn(d)
        <3>1. cli[c] = "aborted" => cli'[c] = "aborted"
            BY <1>0, <2>7 DEF Learn
        <3> QED
            BY <1>6, <2>2, <2>7, <3>1 DEF Learn
    <2> QED
        BY <2>1, <2>3, <2>4, <2>5, <2>6, <2>7
<1>15. CASE StrayClient
    <2>1. PICK d \in Conn :
              \/ cli[d] = "none" /\ Connect(d)
              \/ Send(d)
              \/ cli[d] \in {"est", "fin"} /\ CloseAll({d})
              \/ Abort(d)
        BY <1>15 DEF StrayClient
    <2>2. UNCHANGED taken
        BY <1>15 DEF StrayClient, loopVars
    <2>3. CASE cli[d] = "none" /\ Connect(d)
        <3>1. /\ srv'[c] = "closed" <=> srv[c] = "closed"
              /\ cli[c] = "aborted" => cli'[c] = "aborted"
            BY <1>0, <2>3 DEF Connect, Unused
        <3> QED
            BY <1>6, <2>2, <2>3, <3>1 DEF Connect
    <2>4. CASE Send(d) /\ c # d
        BY <1>0, <1>6, <2>2, <2>4 DEF Send
    <2>5. CASE Send(d) /\ c = d
        <3>1. /\ cli[c] # "aborted" /\ UNCHANGED <<cli, srv, rbuf>>
              /\ flight'[c] = Append(flight[c], sent')
              /\ sentBy'[c] = Append(sentBy[c], sent')
            BY <1>0, <2>5 DEF Send
        <3>2. sent' \in Unit
            <4>1. sent \in 0 .. MaxSent /\ sent < MaxSent /\ sent' = sent + 1
                BY <2>5 DEF Send, ServerTypeOK, TcpTypeOK
            <4> QED
                BY <4>1, TcpAssumption DEF TcpAssumption, Unit
        <3>3. CASE srv[c] = "closed"
            <4>1. IsPrefix(taken[c], Append(sentBy[c], sent'))
                BY <1>3, <1>4, <3>2, PrefixOfAppend
            <4> QED
                BY <2>2, <3>1, <3>3, <4>1
        <3>4. CASE srv[c] # "closed"
            <4>1. Way(c)' = Append(Way(c), sent')
                <5>1. taken[c] \o rbuf[c] \o Append(flight[c], sent') = Append(Way(c), sent')
                    <6>1. \A a, b, e \in Seq(Unit) :
                            a \o b \o Append(e, sent') = Append(a \o b \o e, sent')
                        BY <3>2, Sending
                    <6> QED
                        BY <1>3, <6>1
                <5> QED
                    BY <2>2, <3>1, <5>1
            <4>2. Way(c)' = sentBy'[c]
                BY <1>1, <3>1, <3>4, <4>1
            <4>3. Append(sentBy[c], sent') \in Seq(Unit)
                BY <1>3, <3>2, AppendProperties
            <4>4. IsPrefix(Way(c)', sentBy'[c])
                BY <3>1, <4>2, <4>3, PrefixOfSelf
            <4> QED
                BY <3>1, <3>4, <4>2, <4>4
        <3> QED
            BY <3>3, <3>4
    <2>6. CASE cli[d] \in {"est", "fin"} /\ CloseAll({d})
        <3>1. cli[c] = "aborted" => cli'[c] = "aborted"
            BY <1>0, <2>6 DEF CloseAll
        <3> QED
            BY <1>6, <2>2, <2>6, <3>1 DEF CloseAll
    <2>7. CASE Abort(d) /\ c # d
        BY <1>0, <1>6, <2>2, <2>7 DEF Abort
    <2>8. CASE Abort(d) /\ c = d
        <3>1. /\ cli'[c] = "aborted" /\ flight'[c] = <<>>
              /\ UNCHANGED <<srv, rbuf, sentBy>>
            BY <1>0, <2>8 DEF Abort
        <3>2. Way(c)' = taken[c] \o rbuf[c]
            BY <1>3, <2>2, <3>1, ConcatEmptySeq
        <3>3. IsPrefix(taken[c] \o rbuf[c], Way(c))
            BY <1>3, PrefixOfConcat
        <3>4. CASE srv[c] = "closed"
            BY <1>4, <2>2, <3>1, <3>4
        <3>5. CASE srv[c] # "closed"
            <4>1. IsPrefix(Way(c), sentBy[c])
                BY <1>1, <3>5
            <4>2. IsPrefix(taken[c] \o rbuf[c], sentBy[c])
                <5> HIDE DEF Way
                <5> QED
                    BY <1>3, <3>3, <4>1, PrefixTransitive
            <4> QED
                BY <2>2, <3>1, <3>2, <3>5, <4>2
        <3> QED
            BY <3>4, <3>5
    <2> QED
        BY <2>1, <2>3, <2>4, <2>5, <2>6, <2>7, <2>8
<1> QED
    BY <1>7, <1>8, <1>9, <1>10, <1>12, <1>13, <1>14, <1>15, Actions

-----------------------------------------------------------------------------
(* The theorems.                                                            *)

LEMMA LoopInit == ServerInit => LoopInv
<1> SUFFICES ASSUME ServerInit PROVE LoopInv
    OBVIOUS
<1> USE TcpAssumption, TcpServerAssumption DEF TcpAssumption, TcpServerAssumption,
        ServerInit, TcpInit
<1>0. <<>> \in Seq(Unit)
    BY EmptySeq
<1>1. ServerTypeOK
    BY <1>0 DEF ServerTypeOK, TcpTypeOK, CliState, SrvState
<1>2. NeverBlocks
    BY DEF NeverBlocks
<1>3. Unused
    BY DEF Unused
<1>4. InOrder
    <2> SUFFICES ASSUME NEW c \in Conn
                 PROVE  /\ srv[c] # "closed"
                        /\ taken[c] \o rbuf[c] \o flight[c] = sentBy[c]
                        /\ IsPrefix(sentBy[c], sentBy[c])
        BY DEF InOrder
    <2>1. taken[c] = <<>> /\ rbuf[c] = <<>> /\ flight[c] = <<>> /\ sentBy[c] = <<>>
        OBVIOUS
    <2>2. <<>> \o <<>> \o <<>> = <<>>
        BY <1>0, ConcatEmptySeq
    <2>3. IsPrefix(sentBy[c], sentBy[c])
        BY <1>0, <2>1, PrefixOfSelf
    <2> QED
        BY <2>1, <2>2, <2>3
<1> QED
    BY <1>1, <1>2, <1>3, <1>4 DEF LoopInv

LEMMA LoopStep == ASSUME LoopInv, [Next]_serverVars PROVE LoopInv'
BY TypeStep, NeverBlocksStep, InOrderStep, UnusedStep DEF LoopInv

\* The inductive invariant of the loop over the sockets (tcp_server.c:91-198).
THEOREM LoopInvariant == Spec => []LoopInv
<1>1. ServerInit => LoopInv
    BY LoopInit
<1>2. LoopInv /\ [Next]_serverVars => LoopInv'
    BY LoopStep
<1> QED
    BY <1>1, <1>2, PTL DEF Spec

\* No event is stale when the loop gets to it: accept and recv never block
\* (tcp_server.c:105-197).
THEOREM LoopNeverBlocks == Spec => []NeverBlocks
<1>1. LoopInv => NeverBlocks
    BY DEF LoopInv
<1> QED
    BY <1>1, LoopInvariant, PTL

\* What is inserted of a connection is the beginning of what was sent on it
\* (tcp_server.c:139-182).
THEOREM StreamsHaveNoGap == Spec => []NoGap
<1>1. ASSUME LoopInv, NEW c \in Conn PROVE IsPrefix(taken[c], sentBy[c])
    <2>1. /\ taken[c] \in Seq(Unit) /\ rbuf[c] \in Seq(Unit) /\ flight[c] \in Seq(Unit)
          /\ sentBy[c] \in Seq(Unit)
          /\ taken[c] \o rbuf[c] \in Seq(Unit)
          /\ taken[c] \o rbuf[c] \o flight[c] \in Seq(Unit)
        BY <1>1, SeqParts DEF LoopInv
    <2>2. CASE srv[c] = "closed"
        BY <1>1, <2>2 DEF LoopInv, InOrder
    <2>3. CASE srv[c] # "closed"
        <3>1. IsPrefix(taken[c] \o rbuf[c] \o flight[c], sentBy[c])
            BY <1>1, <2>3 DEF LoopInv, InOrder
        <3>2. IsPrefix(taken[c] \o rbuf[c], sentBy[c])
            BY <2>1, <3>1, PrefixOfConcat, PrefixTransitive
        <3> QED
            BY <2>1, <3>2, PrefixOfConcat, PrefixTransitive
    <2> QED
        BY <2>2, <2>3
<1>2. LoopInv => NoGap
    BY <1>1 DEF NoGap
<1> QED
    BY <1>2, LoopInvariant, PTL

LEMMA AnnouncedStep ==
    ASSUME ServerTypeOK, NeverBlocks, Announced, [Next]_serverVars
    PROVE  Announced'
<1> USE TcpServerAssumption DEF TcpServerAssumption
<1>0. /\ srv \in [Conn -> SrvState] /\ rbuf \in [Conn -> Seq(Unit)]
      /\ hup \in [Conn -> {"no", "fin", "rst"}] /\ edge \in [Conn -> BOOLEAN]
      /\ events \in SUBSET (Conn \cup {LISTEN}) /\ deaf \in SUBSET Conn
    BY DEF ServerTypeOK, TcpTypeOK
<1>1. SUFFICES ASSUME NEW d \in Conn, srv'[d] = "open", Readable(d)'
               PROVE  edge'[d] \/ d \in events' \/ d \in deaf'
    BY DEF Announced
\* Where nothing has changed for the connection d nothing is missed.
<1>2. ASSUME srv'[d] = srv[d], rbuf'[d] = rbuf[d], hup'[d] = hup[d],
             edge[d] => edge'[d], d \in events => d \in events' \/ d \in deaf' \/ edge'[d],
             d \in deaf => d \in deaf' \/ edge'[d]
      PROVE  edge'[d] \/ d \in events' \/ d \in deaf'
    BY <1>1, <1>2 DEF Announced, Readable
<1>3. CASE EpollWait
    BY <1>0, <1>1, <1>3 DEF EpollWait, Ready, Announced, Readable
<1>4. CASE Accept
    <2>1. PICK c \in Conn : /\ srv' = [srv EXCEPT ![c] = "open"]
                            /\ edge' = [edge EXCEPT ![c] = Readable(c)]
        BY <1>4 DEF Accept
    <2>2. events' = events \ {LISTEN} /\ UNCHANGED <<rbuf, hup, deaf>>
        BY <1>4 DEF Accept
    <2>3. CASE c = d
        BY <1>0, <1>1, <2>1, <2>2, <2>3 DEF Readable
    <2>4. CASE c # d
        BY <1>0, <1>2, <2>1, <2>2, <2>4
    <2> QED
        BY <2>3, <2>4
<1>5. ASSUME NEW c \in Conn, RecvChunk(c) PROVE edge'[d] \/ d \in events' \/ d \in deaf'
    <2>1. CASE c = d
        BY <1>0, <1>1, <1>5, <2>1 DEF RecvChunk, Readable
    <2>2. CASE c # d
        BY <1>0, <1>2, <1>5, <2>2 DEF RecvChunk
    <2> QED
        BY <2>1, <2>2
<1>6. ASSUME NEW c \in Conn, RecvFull(c) PROVE edge'[d] \/ d \in events' \/ d \in deaf'
    <2>1. c # d
        BY <1>0, <1>1, <1>6 DEF RecvFull
    <2> QED
        BY <1>0, <1>2, <1>6, <2>1 DEF RecvFull
<1>7. ASSUME NEW c \in Conn, RecvEnd(c) \/ RecvError(c)
      PROVE  edge'[d] \/ d \in events' \/ d \in deaf'
    <2>1. Hangup({c}) /\ c \in events
        BY <1>7 DEF RecvEnd, RecvError
    <2>2. srv[c] = "open"
        BY <1>0, <2>1 DEF NeverBlocks
    <2>3. c # d
        BY <1>0, <1>1, <2>1, <2>2 DEF Hangup
    <2>4. /\ srv'[d] = srv[d] /\ rbuf'[d] = rbuf[d] /\ hup'[d] = hup[d]
          /\ edge'[d] = edge[d]
        BY <1>0, <2>1, <2>3 DEF Hangup
    <2>5. /\ d \in events => d \in events' \/ d \in deaf' \/ edge[d]
          /\ d \in deaf => d \in deaf'
        BY <1>0, <1>7, <2>3 DEF RecvEnd, RecvError
    <2> QED
        BY <1>2, <2>4, <2>5
<1>8. CASE ServerEnds
    <2>1. srv'[d] # "open"
        BY <1>0, <1>8 DEF ServerEnds, Hangup
    <2> QED
        BY <1>1, <2>1
<1>9. CASE ServerStarts \/ UNCHANGED serverVars
    BY <1>2, <1>9 DEF ServerStarts, serverVars, tcpVars, loopVars
<1>10. CASE Net
    <2>1. PICK c \in Conn : /\ Arrive(c) \/ ArriveEnd(c) \/ Learn(c)
                            /\ deaf' = {x \in deaf : ~ edge'[x]}
        BY <1>10 DEF Net
    <2>2. events' = events /\ (d \in deaf => d \in deaf' \/ edge'[d])
        BY <1>10, <2>1 DEF Net
    <2>3. CASE Arrive(c)
        <3>1. srv' = srv /\ hup' = hup
            BY <2>3 DEF Arrive
        <3>2. CASE srv[c] = "closed"
            BY <1>2, <2>2, <2>3, <3>1, <3>2 DEF Arrive
        <3>3. CASE srv[c] # "closed"
            <4>1. /\ edge' = [edge EXCEPT ![c] = TRUE]
                  /\ rbuf' = [rbuf EXCEPT ![c] = Append(@, Head(flight[c]))]
                BY <2>3, <3>3 DEF Arrive
            <4>2. CASE c = d
                BY <1>0, <4>1, <4>2
            <4>3. CASE c # d
                BY <1>0, <1>2, <2>2, <3>1, <4>1, <4>3
            <4> QED
                BY <4>2, <4>3
        <3> QED
            BY <3>2, <3>3
    <2>4. CASE ArriveEnd(c)
        <3>1. /\ edge' = [edge EXCEPT ![c] = TRUE] /\ UNCHANGED <<srv, rbuf>>
              /\ \A x \in Conn \ {c} : hup'[x] = hup[x]
            BY <1>0, <2>4 DEF ArriveEnd
        <3>2. CASE c = d
            BY <1>0, <3>1, <3>2
        <3>3. CASE c # d
            BY <1>0, <1>2, <2>2, <3>1, <3>3
        <3> QED
            BY <3>2, <3>3
    <2>5. CASE Learn(c)
        BY <1>2, <2>2, <2>5 DEF Learn
    <2> QED
        BY <2>1, <2>3, <2>4, <2>5
<1>11. CASE StrayClient
    <2>1. PICK c \in Conn : Connect(c) \/ Send(c) \/ CloseAll({c}) \/ Abort(c)
        BY <1>11 DEF StrayClient
    <2>2. UNCHANGED <<events, deaf>>
        BY <1>11 DEF StrayClient, loopVars
    <2>3. UNCHANGED <<rbuf, hup, edge>>
        BY <2>1 DEF Connect, Send, CloseAll, Abort
    <2>4. srv'[d] = srv[d]
        BY <1>0, <1>1, <2>1 DEF Connect, Send, CloseAll, Abort
    <2> QED
        BY <1>2, <2>2, <2>3, <2>4
<1> QED
    BY <1>3, <1>4, <1>5, <1>6, <1>7, <1>8, <1>9, <1>10, <1>11, Actions

\* No connection with something to read is overlooked, but for those whose event
\* the break threw away or whose end was behind data (tcp_server.c:139, 162).
THEOREM NothingOverlooked == Spec => []Announced
<1>1. ServerInit => Announced
    BY DEF ServerInit, TcpInit, Announced
<1>2. LoopInv /\ Announced /\ [Next]_serverVars => Announced'
    BY AnnouncedStep DEF LoopInv
<1> QED
    BY <1>1, <1>2, LoopInvariant, PTL DEF Spec

-----------------------------------------------------------------------------
(* Who is cut off.                                                          *)

\* The stream ends only when the client has gone.
Gone == \A c \in Conn : hup[c] # "no" => cli[c] \in {"closed", "aborted"}

LEMMA GoneStep ==
    ASSUME ServerTypeOK, Unused, Gone, [Next]_serverVars
    PROVE  Gone' /\ \A c \in Conn : cli[c] \in {"closed", "aborted"} =>
                                        cli'[c] \in {"closed", "aborted"}
<1> DEFINE Stay == \A c \in Conn : cli[c] \in {"closed", "aborted"} =>
                                        cli'[c] \in {"closed", "aborted"}
<1> USE TcpServerAssumption DEF TcpServerAssumption
<1>0. cli \in [Conn -> CliState] /\ hup \in [Conn -> {"no", "fin", "rst"}]
    BY DEF ServerTypeOK, TcpTypeOK
<1>1. ASSUME hup' = hup, Stay PROVE Gone' /\ Stay
    BY <1>1 DEF Gone
<1>2. ASSUME hup' = hup, cli' = cli PROVE Gone' /\ Stay
    BY <1>2 DEF Gone
<1>3. CASE EpollWait \/ Accept \/ ServerStarts \/ UNCHANGED serverVars
    BY <1>2, <1>3 DEF EpollWait, Accept, ServerStarts, serverVars, tcpVars
<1>4. ASSUME NEW c \in Conn, RecvChunk(c) \/ RecvFull(c) PROVE Gone' /\ Stay
    BY <1>2, <1>4 DEF RecvChunk, RecvFull
<1>5. ASSUME NEW C, Hangup(C) PROVE Gone' /\ Stay
    BY <1>2, <1>5 DEF Hangup
<1>6. ASSUME NEW c \in Conn, RecvEnd(c) \/ RecvError(c) PROVE Gone' /\ Stay
    BY <1>5, <1>6 DEF RecvEnd, RecvError
<1>7. CASE ServerEnds
    BY <1>5, <1>7 DEF ServerEnds
<1>8. CASE Net
    <2>1. PICK c \in Conn : Arrive(c) \/ ArriveEnd(c) \/ Learn(c)
        BY <1>8 DEF Net
    <2>2. CASE Arrive(c)
        BY <1>2, <2>2 DEF Arrive
    <2>3. CASE ArriveEnd(c)
        <3>1. /\ cli[c] \in {"closed", "aborted"} /\ cli' = cli
              /\ \A d \in Conn \ {c} : hup'[d] = hup[d]
            BY <1>0, <2>3 DEF ArriveEnd
        <3> QED
            BY <3>1 DEF Gone
    <2>4. CASE Learn(c)
        <3>1. hup' = hup /\ \A d \in Conn \ {c} : cli'[d] = cli[d]
            BY <1>0, <2>4 DEF Learn
        <3>2. cli[c] \in {"closed", "aborted"} => cli'[c] = cli[c]
            BY <1>0, <2>4 DEF Learn
        <3> QED
            BY <1>1, <3>1, <3>2
    <2> QED
        BY <2>1, <2>2, <2>3, <2>4
<1>9. CASE StrayClient
    <2>1. PICK c \in Conn :
              \/ cli[c] = "none" /\ Connect(c)
              \/ Send(c) \/ CloseAll({c}) \/ Abort(c)
        BY <1>9 DEF StrayClient
    <2>2. hup' = hup
        BY <2>1 DEF Connect, Send, CloseAll, Abort
    <2>3. Stay
        BY <1>0, <2>1 DEF Connect, Send, CloseAll, Abort
    <2> QED
        BY <1>1, <2>2, <2>3
<1> QED
    BY <1>3, <1>4, <1>6, <1>7, <1>8, <1>9, Actions

LEMMA CutOffStep ==
    ASSUME LoopInv, Gone, CutOffByBurst, [Next]_serverVars
    PROVE  CutOffByBurst'
<1> USE TcpServerAssumption DEF TcpServerAssumption, LoopInv
<1>0. /\ srv \in [Conn -> SrvState] /\ taken \in [Conn -> Seq(Unit)]
      /\ sentBy \in [Conn -> Seq(Unit)] /\ rbuf \in [Conn -> Seq(Unit)]
      /\ crashes \in Nat /\ events \in SUBSET (Conn \cup {LISTEN})
    BY DEF ServerTypeOK, TcpTypeOK
<1>1. SUFFICES ASSUME NEW d \in Conn, srv'[d] = "closed",
                      cli'[d] \notin {"closed", "aborted"}, crashes' = 0
               PROVE  Len(sentBy'[d]) - Len(taken'[d]) >= RecvMax
    BY DEF CutOffByBurst
<1>2. cli[d] \notin {"closed", "aborted"} /\ hup[d] = "no"
    <2>1. cli[d] \notin {"closed", "aborted"}
        BY <1>1, GoneStep
    <2> QED
        BY <2>1 DEF Gone
<1>3. taken[d] \in Seq(Unit) /\ sentBy[d] \in Seq(Unit) /\ rbuf[d] \in Seq(Unit)
      /\ flight[d] \in Seq(Unit)
    BY SeqParts
<1>4. /\ Len(taken[d]) \in Nat /\ Len(sentBy[d]) \in Nat /\ Len(rbuf[d]) \in Nat
      /\ Len(flight[d]) \in Nat
    BY <1>3, LenProperties
\* The connection was closed before, and the step did not touch it.
<1>5. ASSUME srv[d] = "closed", crashes = 0, taken'[d] = taken[d], sentBy'[d] = sentBy[d]
      PROVE  Len(sentBy'[d]) - Len(taken'[d]) >= RecvMax
    BY <1>2, <1>5 DEF CutOffByBurst
<1>6. CASE EpollWait \/ ServerStarts \/ UNCHANGED serverVars
    BY <1>1, <1>5, <1>6 DEF EpollWait, ServerStarts, serverVars, tcpVars, loopVars
<1>7. CASE Accept
    BY <1>0, <1>1, <1>5, <1>7 DEF Accept
<1>8. ASSUME NEW c \in Conn, RecvChunk(c) PROVE Len(sentBy'[d]) - Len(taken'[d]) >= RecvMax
    <2>1. srv[c] = "open" /\ UNCHANGED <<srv, sentBy, crashes>>
        BY <1>0, <1>8 DEF RecvChunk, NeverBlocks
    <2>2. taken'[d] = taken[d]
        BY <1>0, <1>1, <1>8, <2>1 DEF RecvChunk
    <2> QED
        BY <1>1, <1>5, <2>1, <2>2
<1>9. ASSUME NEW c \in Conn, RecvFull(c) PROVE Len(sentBy'[d]) - Len(taken'[d]) >= RecvMax
    <2>1. UNCHANGED <<sentBy, taken, crashes>> /\ Len(rbuf[c]) >= RecvMax /\ c \in events
        BY <1>9 DEF RecvFull
    <2>2. CASE c = d
        <3>1. srv[d] = "open"
            BY <2>1, <2>2 DEF NeverBlocks
        <3>2. IsPrefix(taken[d] \o rbuf[d] \o flight[d], sentBy[d])
            BY <3>1 DEF InOrder
        <3>3. Len(taken[d] \o rbuf[d] \o flight[d]) =
                  Len(taken[d]) + Len(rbuf[d]) + Len(flight[d])
            <4>1. taken[d] \o rbuf[d] \in Seq(Unit)
                  /\ Len(taken[d] \o rbuf[d]) = Len(taken[d]) + Len(rbuf[d])
                BY <1>3, ConcatProperties
            <4> QED
                BY <1>3, <4>1, ConcatProperties
        <3>4. Len(taken[d]) + Len(rbuf[d]) + Len(flight[d]) <= Len(sentBy[d])
            BY <3>2, <3>3 DEF IsPrefix
        <3> QED
            <4>1. Len(rbuf[d]) >= RecvMax /\ RecvMax \in Nat
                BY <2>1, <2>2
            <4>2. Len(sentBy[d]) - Len(taken[d]) >= RecvMax
                <5>1. \A a, b, e, f, m \in Nat : a + b + e <= f /\ b >= m => f - a >= m
                    OBVIOUS
                <5> QED
                    BY <1>4, <3>4, <4>1, <5>1
            <4> QED
                BY <2>1, <4>2
    <2>3. CASE c # d
        BY <1>0, <1>1, <1>5, <1>9, <2>1, <2>3 DEF RecvFull
    <2> QED
        BY <2>2, <2>3
<1>10. ASSUME NEW c \in Conn, RecvEnd(c) \/ RecvError(c)
       PROVE  Len(sentBy'[d]) - Len(taken'[d]) >= RecvMax
    <2>1. c # d /\ Hangup({c}) /\ UNCHANGED <<taken, crashes>>
        BY <1>2, <1>10 DEF RecvEnd, RecvError
    <2>2. srv'[d] = srv[d] /\ sentBy' = sentBy
        BY <1>0, <2>1 DEF Hangup
    <2> QED
        BY <1>1, <1>5, <2>1, <2>2
<1>11. CASE ServerEnds
    BY <1>0, <1>1, <1>11 DEF ServerEnds
<1>12. CASE Net
    <2>1. PICK c \in Conn : Arrive(c) \/ ArriveEnd(c) \/ Learn(c)
        BY <1>12 DEF Net
    <2>2. UNCHANGED <<srv, sentBy>>
        BY <2>1 DEF Arrive, ArriveEnd, Learn
    <2>3. UNCHANGED <<taken, crashes>>
        BY <1>12 DEF Net
    <2> QED
        BY <1>1, <1>5, <2>2, <2>3
<1>13. CASE StrayClient
    <2>1. PICK c \in Conn : Connect(c) \/ Send(c) \/ CloseAll({c}) \/ Abort(c)
        BY <1>13 DEF StrayClient
    <2>2. UNCHANGED <<taken, crashes>>
        BY <1>13 DEF StrayClient, loopVars
    <2>3. srv[d] = "closed"
        BY <1>0, <1>1, <2>1 DEF Connect, Send, CloseAll, Abort
    <2>4. CASE ~ Send(c)
        <3>1. sentBy' = sentBy
            BY <2>1, <2>4 DEF Connect, CloseAll, Abort
        <3> QED
            BY <1>1, <1>5, <2>2, <2>3, <3>1
    <2>5. CASE Send(c)
        <3>1. sent' \in Unit
            <4>1. sent \in 0 .. MaxSent /\ sent < MaxSent /\ sent' = sent + 1
                BY <2>5 DEF Send, ServerTypeOK, TcpTypeOK
            <4> QED
                BY <4>1, TcpAssumption DEF TcpAssumption, Unit
        <3>2. sentBy'[d] = sentBy[d] \/ sentBy'[d] = Append(sentBy[d], sent')
            BY <1>0, <2>5 DEF Send
        <3>3. Len(Append(sentBy[d], sent')) = Len(sentBy[d]) + 1
            BY <1>3, <3>1, AppendProperties
        <3>4. Len(sentBy[d]) - Len(taken[d]) >= RecvMax
            <4>1. crashes = 0
                BY <1>1, <2>2
            <4> QED
                BY <1>2, <2>3, <4>1 DEF CutOffByBurst
        <3> QED
            BY <1>4, <2>2, <3>2, <3>3, <3>4
    <2> QED
        BY <2>4, <2>5
<1> QED
    BY <1>6, <1>7, <1>8, <1>9, <1>10, <1>11, <1>12, <1>13, Actions

\* Only a client that had a buffer full unread is cut off by a server that has
\* never ended (tcp_server.c:167-181).
THEOREM OnlyBurstsCutOff == Spec => []CutOffByBurst
<1>1. ServerInit => Gone /\ CutOffByBurst
    BY DEF ServerInit, TcpInit, Gone, CutOffByBurst
<1>2. LoopInv /\ Gone /\ CutOffByBurst /\ [Next]_serverVars => Gone' /\ CutOffByBurst'
    BY GoneStep, CutOffStep DEF LoopInv
<1> QED
    BY <1>1, <1>2, LoopInvariant, PTL DEF Spec

===============================================================================
