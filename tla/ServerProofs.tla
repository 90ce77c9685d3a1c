----------------------------- MODULE ServerProofs -----------------------------
(***************************************************************************)
(* What is proved of the server for every size of the buffer and the file, *)
(* and every number of chunks: whatever fails and whatever signals come,   *)
(* its state is well-typed, flush_list_data runs alone, chunks are         *)
(* conserved and memcpy fits; and, where malloc returns the block just     *)
(* freed, the files hold what was written, the server implements Relay as  *)
(* long as there is no signal, and a signal neither crashes it nor loses a *)
(* chunk but the one the saving thread had in hand.                        *)
(***************************************************************************)
EXTENDS Server, RpioWriteProofs

-----------------------------------------------------------------------------
(* Sequences.                                                              *)

\* Linklist_pop cuts the list into what it returns and what it leaves.
LEMMA FirstRest ==
    ASSUME NEW S, NEW s \in Seq(S)
    PROVE  /\ First(s) \in Seq(S) /\ Rest(s) \in Seq(S)
           /\ Len(First(s)) <= 1
           /\ First(s) \o Rest(s) = s
<1>1. CASE s = <<>>
    BY <1>1 DEF First, Rest
<1>2. CASE s # <<>>
    <2>1. First(s) = <<Head(s)>> /\ Rest(s) = Tail(s)
        BY <1>2 DEF First, Rest
    <2>2. /\ Head(s) \in S /\ Tail(s) \in Seq(S)
          /\ Len(Tail(s)) = Len(s) - 1 /\ Len(s) \in Nat /\ Len(s) > 0
        BY <1>2, HeadTailProperties, EmptySeq, LenProperties
    <2>3. <<Head(s)>> \in Seq(S) /\ Len(<<Head(s)>>) = 1
        BY <2>2
    <2>4. <<Head(s)>> \o Tail(s) = s
        BY <2>2, <2>3, <1>2
    <2> QED
        BY <2>1, <2>2, <2>3, <2>4
<1> QED
    BY <1>1, <1>2

-----------------------------------------------------------------------------
(* Type correctness.                                                       *)

\* The chunks of the server are chunks of the file layer.
LEMMA ChunkType ==
    ASSUME NEW s \in Seq(Chunk)
    PROVE  s \in Seq(Chunks)
<1>1. Chunk \subseteq Chunks
    BY ServerAssumption DEF Chunk, Chunks
<1> QED
    BY <1>1, SeqMonotone

LEMMA InitType == Init => TypeOK
<1> SUFFICES ASSUME Init PROVE TypeOK
    OBVIOUS
<1>1. FileTypeOK
    BY FileInitType DEF Init
<1> QED
    BY <1>1, ServerAssumption DEF Init, TypeOK, Main, Handler

LEMMA EndsType == ASSUME FileTypeOK, NEW how \in {"exit", "crash"}, Ends(how) PROVE FileTypeOK'
BY DEF Ends, dirVars, batchVars, FileTypeOK

LEMMA MainType == ASSUME TypeOK, MNext PROVE TypeOK'
<1> USE DEF TypeOK, gVars, recvVars, saveVars, mainVars, signalVars, histVars, Main, Handler
<1>1. CASE MSocket
    BY <1>1, EndsType, FileSameType DEF MSocket
<1>2. CASE MCreateRecv
    BY <1>2, FileSameType DEF MCreateRecv
<1>3. CASE MCreateSave
    BY <1>3, FileSameType DEF MCreateSave
<1>4. CASE MJoinRecv
    BY <1>4, EndsType, FileSameType DEF MJoinRecv
<1>5. CASE MJoinSave
    BY <1>5, EndsType, FileSameType DEF MJoinSave
<1>6. CASE MTeardown
    BY <1>6, EndsType, FileSameType DEF MTeardown
<1>7. CASE MReturn
    BY <1>7, EndsType DEF MReturn
<1> QED
    BY <1>1, <1>2, <1>3, <1>4, <1>5, <1>6, <1>7 DEF MNext

LEMMA RecvType == ASSUME TypeOK, RNext PROVE TypeOK'
<1> USE DEF TypeOK, gVars, recvVars, saveVars, mainVars, signalVars, histVars
<1>1. CASE RStart \/ REnd \/ RCancelled
    BY <1>1, FileSameType DEF RStart, REnd, RCancelled
<1>6. CASE RUnlock
    BY <1>6, FileSameType DEF RUnlock
<1>7. CASE RLock
    BY <1>7, FileSameType DEF RLock
<1>2. CASE RMakeList
    BY <1>2, FileSameType DEF RMakeList
<1>3. CASE RWait
    BY <1>3, FileSameType DEF RWait, vars
<1>4. CASE RRecv
    <2>1. PICK n \in 1 .. BuffMax - 1 : item' = <<[no |-> sent + 1, len |-> n]>>
        BY <1>4 DEF RRecv
    <2>2. sent + 1 \in 1 .. MaxChunks
        BY <1>4, ServerAssumption DEF RRecv
    <2>3. [no |-> sent + 1, len |-> n] \in Chunk
        BY <2>2 DEF Chunk
    <2>4. item' \in Seq(Chunk)
        BY <2>1, <2>3
    <2> QED
        BY <1>4, <2>2, <2>4, FileSameType DEF RRecv
<1>5. CASE RInsert
    <2>1. list \o item \in Seq(Chunk) /\ accepted \o item \in Seq(Chunk)
        BY ConcatProperties
    <2>2. list' \in Seq(Chunk) /\ accepted' \in Seq(Chunk)
        BY <1>5, <2>1 DEF RInsert
    <2>3. FileTypeOK'
        BY <1>5, EndsType, FileSameType DEF RInsert
    <2> QED
        BY <1>5, <2>2, <2>3 DEF RInsert
<1> QED
    BY <1>1, <1>2, <1>3, <1>4, <1>5, <1>6, <1>7 DEF RNext

\* A write(2) that does not come back.
LEMMA CutShortType ==
    ASSUME FileTypeOK, NEW w \in Writer, FwriteCutShort(w), UNCHANGED <<wlock, proc, batchVars>>
    PROVE  FileTypeOK'
<1>1. PICK k \in 1 .. Len(bdata[w]) - 1 : Fwrite(bfp[w], SubSeq(bdata[w], 1, k))
    BY DEF FwriteCutShort
<1>2. bdata[w] \in Seq(Chunks) /\ bfp[w] \in Stream
    BY DEF FileTypeOK, FwriteCutShort, Usable
<1>3. k \in 0 .. Len(bdata[w])
    BY <1>2, LenProperties
<1>4. SubSeq(bdata[w], 1, k) \in Seq(Chunks)
    BY <1>2, <1>3, SubSeqType
<1>5. /\ cur' \in Seq(Chunks) /\ bak' \in Seq(Chunks) /\ evicted' \in Seq(Chunks)
      /\ stream' \in [Stream -> Stdio]
      /\ written' \in Seq(Chunks)
    BY <1>1, <1>2, <1>4, FwriteType
<1> QED
    BY <1>5 DEF FwriteCutShort, FileTypeOK, Stdio, batchVars

LEMMA SaveType == ASSUME TypeOK, SNext PROVE TypeOK'
<1> USE DEF TypeOK, gVars, recvVars, saveVars, mainVars, signalVars, histVars
<1>0. "save" \in Writer /\ buffer \in Seq(Chunks)
    BY ChunkType, ServerAssumption
<1>1. CASE SWlock
    <2>1. FileTypeOK'
        BY <1>1 DEF SWlock, FileTypeOK, dirVars, batchVars
    <2> QED
        BY <1>1, <2>1 DEF SWlock
<1>2. CASE SOpen
    <2>1. CASE \E f \in Stream : Fopen(f) /\ handle' = f
        <3>1. UNCHANGED <<bak, evicted>>
            BY <2>1 DEF Fopen
        <3>2. FileTypeOK'
            BY <1>2, <2>1, <3>1, FopenType DEF SOpen, FileTypeOK, Stdio, batchVars
        <3>3. handle' \in Stream /\ offset' \in Nat
            BY <1>2, <2>1 DEF SOpen
        <3> QED
            BY <1>2, <3>2, <3>3 DEF SOpen
    <2>2. CASE UNCHANGED <<dirVars, stream, handle, offset>>
        BY <1>2, <2>2 DEF SOpen, FileTypeOK, dirVars, batchVars
    <2> QED
        BY <1>2, <2>1, <2>2 DEF SOpen
<1>3. CASE SPoll
    BY <1>3, FileSameType DEF SPoll, vars
<1>4. CASE SIdleFlush \/ SFull \/ SLate
    <2>1. BatchCall("save", handle, buffer) /\ UNCHANGED <<dirVars, stream, wlock, proc, written>>
        BY <1>4 DEF SIdleFlush, SFull, SLate
    <2>2. FileTypeOK'
        BY <1>0, <2>1, BatchCallType
    <2> QED
        BY <1>4, <2>2 DEF SIdleFlush, SFull, SLate
<1>5. CASE SSee
    BY <1>5, EndsType, FileSameType DEF SSee
<1>6. CASE SLock \/ SFits \/ SCancelled
    BY <1>6, FileSameType DEF SLock, SFits, SCancelled
<1>7. CASE SPop
    <2>1. FileTypeOK'
        BY <1>7, EndsType, FileSameType DEF SPop
    <2>2. got' \in Seq(Chunk) /\ Len(got') <= 1 /\ list' \in Seq(Chunk)
        BY <1>7, FirstRest DEF SPop
    <2> QED
        BY <1>7, <2>1, <2>2 DEF SPop
<1>8. CASE SBatch
    BY <1>0, <1>8, BatchStepType DEF SBatch
<1>9. CASE SReturn
    <2>1. handled \o buffer \in Seq(Chunk)
        BY ConcatProperties
    <2> QED
        BY <1>0, <1>9, <2>1, BatchReturnType DEF SReturn
<1>10. CASE SAppend
    <2>1. buffer \o got \in Seq(Chunk)
        BY ConcatProperties
    <2>2. Size(got) \in Nat
        <3>1. got # <<>> => got[1] \in Chunk
            BY ElementOfSeq, EmptySeq, LenProperties
        <3> QED
            BY <3>1 DEF Size, Chunk
    <2> QED
        BY <1>10, <2>1, <2>2, FileSameType DEF SAppend
<1>11. CASE SCancelledInBatch
    <2>1. CASE UNCHANGED <<dirVars, stream, written>>
        <3>1. FileTypeOK'
            BY <1>11, <2>1 DEF SCancelledInBatch, FileTypeOK, dirVars, batchVars
        <3> QED
            BY <1>11, <3>1 DEF SCancelledInBatch
    <2>2. CASE FwriteCutShort("save")
        <3>1. FileTypeOK'
            BY <1>0, <1>11, <2>2, CutShortType DEF SCancelledInBatch
        <3> QED
            BY <1>11, <3>1 DEF SCancelledInBatch
    <2> QED
        BY <1>11, <2>1, <2>2 DEF SCancelledInBatch
<1> QED
    BY <1>1, <1>2, <1>3, <1>4, <1>5, <1>6, <1>7, <1>8, <1>9, <1>10, <1>11 DEF SNext

LEMMA SignalType == ASSUME TypeOK, Signal \/ SignalAgain PROVE TypeOK'
<1> USE DEF TypeOK, gVars, recvVars, saveVars, histVars, Main, Handler
<1>1. CASE Signal
    BY <1>1, FileSameType DEF Signal
<1>2. CASE SignalAgain
    <2>1. FileTypeOK'
        <3>1. CASE UNCHANGED <<dirVars, stream, written>>
            BY <1>2, <3>1 DEF SignalAgain, FileTypeOK, dirVars, batchVars
        <3>2. CASE FwriteCutShort("main")
            BY <1>2, <3>2, CutShortType, ServerAssumption DEF SignalAgain
        <3> QED
            BY <1>2, <3>1, <3>2 DEF SignalAgain
    <2>2. handled \o hgot \in Seq(Chunk)
        BY ConcatProperties
    <2> QED
        BY <1>2, <2>1, <2>2 DEF SignalAgain
<1> QED
    BY <1>1, <1>2

LEMMA HandlerType == ASSUME TypeOK, HNext PROVE TypeOK'
<1> USE DEF TypeOK, gVars, recvVars, saveVars, mainVars, signalVars, histVars, Main, Handler
<1>0. "main" \in Writer /\ buffer \in Seq(Chunks)
    BY ChunkType, ServerAssumption
<1>1. CASE HCancel
    BY <1>1, EndsType, FileSameType DEF HCancel
<1>2. CASE HSleep \/ HJoinRecv \/ HJoinSave
    BY <1>2, FileSameType DEF HSleep, HJoinRecv, HJoinSave
<1>3. CASE HFlush
    <2>1. FileTypeOK'
        <3>1. CASE UNCHANGED batchVars
            BY <1>3, <3>1, FileSameType DEF HFlush, fileVars
        <3>2. CASE BatchCall("main", handle, buffer)
            BY <1>0, <1>3, <3>2, BatchCallType DEF HFlush
        <3> QED
            BY <1>3, <3>1, <3>2 DEF HFlush
    <2> QED
        BY <1>3, <2>1 DEF HFlush
<1>4. CASE HBatch
    BY <1>0, <1>4, BatchStepType DEF HBatch
<1>5. CASE HFlushed
    <2>1. handled \o buffer \in Seq(Chunk)
        BY ConcatProperties
    <2> QED
        BY <1>0, <1>5, <2>1, BatchReturnType DEF HFlushed
<1>6. CASE HDrain
    BY <1>6, EndsType, FileSameType DEF HDrain
<1>7. CASE HLock
    BY <1>7, FileSameType DEF HLock
<1>8. CASE HPop
    <2>1. hgot' \in Seq(Chunk) /\ Len(hgot') <= 1 /\ list' \in Seq(Chunk)
        BY <1>8, FirstRest DEF HPop
    <2>2. hgot' \in Seq(Chunks)
        BY <2>1, ChunkType
    <2>3. FileTypeOK'
        <3>1. CASE UNCHANGED batchVars
            BY <1>8, <3>1, FileSameType DEF HPop, fileVars
        <3>2. CASE BatchCall("main", handle, hgot')
            BY <1>0, <1>8, <2>2, <3>2, BatchCallType DEF HPop
        <3> QED
            BY <1>8, <3>1, <3>2 DEF HPop
    <2> QED
        BY <1>8, <2>1, <2>3 DEF HPop
<1>9. CASE HDrained
    <2>1. handled \o hgot \in Seq(Chunk)
        BY ConcatProperties
    <2> QED
        BY <1>0, <1>9, <2>1, BatchReturnType DEF HDrained
<1>10. CASE HClose
    <2>1. FileTypeOK'
        BY <1>10, CloseType DEF HClose, FileTypeOK, Stdio, batchVars
    <2> QED
        BY <1>10, <2>1 DEF HClose
<1>11. CASE HFree
    BY <1>11, EndsType, FileSameType DEF HFree
<1>12. CASE HExit
    BY <1>12, EndsType DEF HExit
<1> QED
    BY <1>1, <1>2, <1>3, <1>4, <1>5, <1>6, <1>7, <1>8, <1>9, <1>10, <1>11, <1>12
        DEF HNext

LEMMA StepType == ASSUME TypeOK, [Next]_vars PROVE TypeOK'
<1>1. CASE UNCHANGED vars
    BY <1>1, FileSameType DEF vars, TypeOK, gVars, recvVars, saveVars, mainVars,
        signalVars, histVars
<1> QED
    BY <1>1, MainType, RecvType, SaveType, SignalType, HandlerType DEF Next, Gone

\* The state of the server is well-typed (TypeOK).
THEOREM TypeCorrect == Spec => []TypeOK
<1> QED
    BY InitType, StepType, PTL DEF Spec

-----------------------------------------------------------------------------
(* Conservation and FlushAlone.                                            *)

LEMMA InitInv == Init => ServerInv
<1> SUFFICES ASSUME Init PROVE ServerInv
    OBVIOUS
<1>1. Conservation
    BY DEF Init, Conservation
<1>2. FlushAlone /\ SleptInv /\ HandInv
    BY DEF Init, FlushAlone, SleptInv, HandInv, Flushing
<1> QED
    BY <1>1, <1>2, InitType DEF ServerInv

\* The saving thread does not come back, and ExitProcess goes on only when it
\* has ended or cannot be joined.
LEMMA AloneStep == ASSUME ServerInv, [Next]_vars PROVE FlushAlone' /\ SleptInv'
<1> USE DEF ServerInv, FlushAlone, SleptInv, Flushing, Unjoinable, Main, Handler, signalVars
<1>1. CASE MNext
    BY <1>1 DEF MNext, MSocket, MCreateRecv, MCreateSave, MJoinRecv, MJoinSave, MTeardown,
        MReturn, saveVars, mainVars, signalVars
<1>2. CASE RNext
    BY <1>2 DEF RNext, RStart, RMakeList, RRecv, RWait, REnd, RLock, RInsert, RUnlock,
        RCancelled, saveVars, mainVars, signalVars, vars
<1>3. CASE SNext
    BY <1>3 DEF SNext, SWlock, SOpen, SPoll, SIdleFlush, SSee, SLock, SPop, SFull, SLate,
        SFits, SBatch, SReturn, SAppend, SCancelled, SCancelledInBatch, saveVars,
        mainVars, signalVars, vars
<1>4. CASE Signal \/ SignalAgain
    BY <1>4 DEF Signal, SignalAgain, saveVars
<1>5. CASE HNext
    BY <1>5 DEF HNext, HCancel, HSleep, HJoinRecv, HJoinSave, HFlush, HBatch, HFlushed,
        HDrain, HLock, HPop, HDrained, HClose, HFree, HExit, saveVars, mainVars, signalVars
<1>6. CASE UNCHANGED vars
    BY <1>6 DEF vars, saveVars, mainVars, signalVars
<1> QED
    BY <1>1, <1>2, <1>3, <1>4, <1>5, <1>6 DEF Next, Gone

\* The chunks on their way, and the condition under which they are all there,
\* which no step makes true.
Way == handled \o buffer \o got \o hgot \o list

Line(h, b, g, k, l) == Cat(Cat(Cat(Cat(h, b), g), k), l)

Calm == torn # "batch" /\ Exclusive

\* Where the saving thread still runs, ExitProcess has popped nothing.
LEMMA HandsFree ==
    ASSUME ServerInv, Calm, pcS # "ended"
    PROVE  hgot = <<>> /\ pcM \notin {"drain", "hlock", "hpop", "draining"}
BY DEF ServerInv, Calm, Exclusive, HandInv, FlushAlone, SleptInv, Flushing, Unjoinable

LEMMA CalmStep == ASSUME ServerInv, [Next]_vars, Calm' PROVE Calm
<1> USE ServerAssumption DEF ServerInv, Calm, Exclusive, HandInv, Unjoinable, Main,
        Handler, signalVars
<1>1. CASE MNext
    BY <1>1 DEF MNext, MSocket, MCreateRecv, MCreateSave, MJoinRecv, MJoinSave, MTeardown,
        MReturn, mainVars, signalVars, histVars
<1>2. CASE RNext
    BY <1>2 DEF RNext, RStart, RMakeList, RRecv, RWait, REnd, RLock, RInsert, RUnlock,
        RCancelled, mainVars, signalVars, histVars, vars
<1>3. CASE SNext
    BY <1>3 DEF SNext, SWlock, SOpen, SPoll, SIdleFlush, SSee, SLock, SPop, SFull, SLate,
        SFits, SBatch, SReturn, SAppend, SCancelled, SCancelledInBatch, mainVars,
        signalVars, histVars, vars
<1>4. CASE Signal \/ SignalAgain
    <2>1. CASE Signal
        BY <2>1 DEF Signal, histVars
    <2>2. CASE SignalAgain
        <3>1. again = NULL /\ UNCHANGED <<stopped, torn>>
            BY <2>2 DEF SignalAgain
        <3> QED
            BY <3>1
    <2> QED
        BY <1>4, <2>1, <2>2
<1>5. CASE HNext
    BY <1>5 DEF HNext, HCancel, HSleep, HJoinRecv, HJoinSave, HFlush, HBatch, HFlushed,
        HDrain, HLock, HPop, HDrained, HClose, HFree, HExit, mainVars, signalVars, histVars
<1>6. CASE UNCHANGED vars
    BY <1>6 DEF vars, mainVars, signalVars, histVars
<1> QED
    BY <1>1, <1>2, <1>3, <1>4, <1>5, <1>6 DEF Next, Gone

\* Who has a chunk in its hands, and when the buffer is empty.
LEMMA HandStep == ASSUME ServerInv, [Next]_vars PROVE HandInv'
<1> USE ServerAssumption DEF ServerInv, HandInv, Unjoinable, Main,
        Handler, signalVars
<1>0. Calm' => Calm
    BY CalmStep
<1>1. CASE MNext
    <2>1. CASE MSocket \/ MCreateRecv \/ MJoinRecv \/ MJoinSave
        BY <2>1 DEF MSocket, MCreateRecv, MJoinRecv, MJoinSave,
            saveVars, mainVars, signalVars, gVars, histVars, Exclusive
    <2>2. CASE MCreateSave
        BY <2>2 DEF MCreateSave, gVars, histVars, Exclusive
    <2>3. CASE MTeardown \/ MReturn
        BY <2>3 DEF MTeardown, MReturn, saveVars, mainVars, signalVars, gVars, histVars,
            Exclusive
    <2> QED
        BY <1>1, <2>1, <2>2, <2>3 DEF MNext
<1>2. CASE RNext
    BY <1>2 DEF RNext, RStart, RMakeList, RRecv, RWait, REnd, RLock, RInsert, RUnlock,
        RCancelled, saveVars, mainVars, signalVars, gVars, histVars, vars, Exclusive
<1>3. CASE SNext
    <2>1. CASE SPoll \/ SLock \/ SSee \/ SWlock \/ SBatch \/ SCancelledInBatch
        BY <2>1 DEF SPoll, SLock, SSee, SWlock, SBatch, SCancelledInBatch, saveVars,
            mainVars, signalVars, gVars, histVars, vars, Exclusive
    <2>2. CASE SIdleFlush \/ SFull \/ SLate \/ SFits \/ SCancelled
        BY <2>2 DEF SIdleFlush, SFull, SLate, SFits, SCancelled, saveVars,
            mainVars, signalVars, gVars, histVars, Exclusive
    <2>3. CASE SPop
        BY <2>3 DEF SPop, mainVars, signalVars, histVars, Exclusive
    <2>4. CASE SReturn
        BY <2>4 DEF SReturn, mainVars, signalVars, Exclusive
    <2>5. CASE SAppend
        <3>1. got # <<>> => Size(got) > 0
            <4>1. got # <<>> => got[1] \in Chunk
                BY ElementOfSeq, EmptySeq, LenProperties DEF TypeOK
            <4> QED
                BY <4>1 DEF Size, Chunk
        <3>2. offset' = 0 => buffer' = <<>>
            <4>1. CASE got = <<>>
                BY <2>5, <4>1, ConcatEmptySeq DEF SAppend, Size, TypeOK
            <4>2. CASE got # <<>>
                <5>1. Size(got) \in Nat
                    <6>1. got[1] \in Chunk
                        BY <4>2, ElementOfSeq, EmptySeq, LenProperties DEF TypeOK
                    <6> QED
                        BY <4>2, <6>1 DEF Size, Chunk
                <5> QED
                    BY <2>5, <3>1, <4>2, <5>1 DEF SAppend, TypeOK
            <4> QED
                BY <4>1, <4>2
        <3>3. pcM \in {"drain", "hlock", "hpop", "draining"} => ~ Exclusive
            BY <2>5 DEF SAppend, FlushAlone, SleptInv, Flushing, Exclusive
        <3> QED
            BY <2>5, <3>2, <3>3 DEF SAppend, mainVars, signalVars, histVars, Exclusive
    <2>6. CASE SOpen
        BY <2>6 DEF SOpen, mainVars, signalVars, histVars, Exclusive
    <2> QED
        BY <1>3, <2>1, <2>2, <2>3, <2>4, <2>5, <2>6 DEF SNext
<1>4. CASE Signal \/ SignalAgain
    BY <1>4 DEF Signal, SignalAgain, saveVars, gVars, histVars, Exclusive
<1>5. CASE HNext
    <2>1. CASE HCancel \/ HSleep \/ HJoinRecv \/ HJoinSave \/ HBatch \/ HClose \/ HFree
               \/ HExit
        BY <2>1 DEF HCancel, HSleep, HJoinRecv, HJoinSave, HBatch, HClose, HFree, HExit,
            saveVars, mainVars, signalVars, gVars, histVars, Exclusive
    <2>2. CASE HFlush
        BY <2>2 DEF HFlush, saveVars, gVars, histVars, Exclusive, TypeOK
    <2>5. CASE HFlushed
        BY <2>5 DEF HFlushed, saveVars, Exclusive
    <2>6. CASE HDrain
        BY <2>6 DEF HDrain, saveVars, gVars, histVars, Exclusive
    <2>3. CASE HLock \/ HDrained
        BY <2>3 DEF HLock, HDrained, saveVars, mainVars, signalVars, gVars, histVars,
            Exclusive
    <2>4. CASE HPop
        BY <2>4 DEF HPop, First, saveVars, histVars, Exclusive
    <2> QED
        BY <1>5, <2>1, <2>2, <2>3, <2>4, <2>5, <2>6 DEF HNext
<1>6. CASE UNCHANGED vars
    BY <1>6 DEF vars, saveVars, mainVars, signalVars, gVars, histVars, Exclusive
<1> QED
    BY <1>1, <1>2, <1>3, <1>4, <1>5, <1>6 DEF Next, Gone

\* How the chunks on their way can be regrouped.
LEMMA Regroup ==
    ASSUME NEW S, NEW h \in Seq(S), NEW b \in Seq(S), NEW g \in Seq(S),
           NEW k \in Seq(S), NEW l \in Seq(S), NEW m \in Seq(S)
    PROVE  /\ Cat(Line(h, b, g, k, l), m) = Line(h, b, g, k, Cat(l, m))
           /\ Line(Cat(h, b), <<>>, g, k, l) = Line(h, b, g, k, l)
           /\ Line(h, Cat(b, g), <<>>, k, l) = Line(h, b, g, k, l)
           /\ Line(Cat(h, k), <<>>, <<>>, <<>>, l) = Line(h, <<>>, <<>>, k, l)
<1>0. <<>> \in Seq(S)
    OBVIOUS
<1>1. \A s, t \in Seq(S) : Cat(s, t) \in Seq(S)
    BY ConcatProperties DEF Cat
<1>2. \A s \in Seq(S) : Cat(s, <<>>) = s
    BY ConcatEmptySeq DEF Cat
<1>3. \A s, t, u \in Seq(S) : Cat(Cat(s, t), u) = Cat(s, Cat(t, u))
    BY CatAssociative
<1>4. /\ Cat(h, b) \in Seq(S) /\ Cat(h, k) \in Seq(S)
      /\ Cat(Cat(h, b), g) \in Seq(S) /\ Cat(Cat(h, b), k) \in Seq(S)
      /\ Cat(Cat(Cat(h, b), g), k) \in Seq(S)
    BY <1>1
<1>5. Cat(Line(h, b, g, k, l), m) = Line(h, b, g, k, Cat(l, m))
    BY <1>3, <1>4 DEF Line
<1>6. Line(Cat(h, b), <<>>, g, k, l) = Line(h, b, g, k, l)
    BY <1>2, <1>4 DEF Line
<1>7. Line(h, Cat(b, g), <<>>, k, l) = Line(h, b, g, k, l)
    <2>1. Cat(h, Cat(b, g)) = Cat(Cat(h, b), g)
        BY <1>3
    <2> QED
        BY <1>2, <1>4, <2>1 DEF Line
<1>8. Line(Cat(h, k), <<>>, <<>>, <<>>, l) = Line(h, <<>>, <<>>, k, l)
    BY <1>2, <1>4 DEF Line
<1> QED
    BY <1>5, <1>6, <1>7, <1>8

\* The same when a list is cut in two.
LEMMA RegroupPop ==
    ASSUME NEW S, NEW h \in Seq(S), NEW b \in Seq(S), NEW g \in Seq(S),
           NEW k \in Seq(S), NEW l \in Seq(S)
    PROVE  /\ Line(h, b, g, <<>>, Cat(k, l)) = Line(h, b, g, k, l)
           /\ Line(h, b, <<>>, <<>>, Cat(k, l)) = Line(h, b, k, <<>>, l)
<1>1. \A s, t \in Seq(S) : Cat(s, t) \in Seq(S)
    BY ConcatProperties DEF Cat
<1>2. \A s \in Seq(S) : Cat(s, <<>>) = s
    BY ConcatEmptySeq DEF Cat
<1>3. \A s, t, u \in Seq(S) : Cat(Cat(s, t), u) = Cat(s, Cat(t, u))
    BY CatAssociative
<1>4. /\ Cat(h, b) \in Seq(S) /\ Cat(Cat(h, b), g) \in Seq(S)
      /\ Cat(Cat(h, b), k) \in Seq(S)
    BY <1>1
<1>5. Line(h, b, g, <<>>, Cat(k, l)) = Line(h, b, g, k, l)
    <2>1. Cat(Cat(Cat(h, b), g), Cat(k, l)) = Cat(Cat(Cat(Cat(h, b), g), k), l)
        BY <1>3, <1>4
    <2> QED
        BY <1>2, <1>4, <2>1 DEF Line
<1>6. Line(h, b, <<>>, <<>>, Cat(k, l)) = Line(h, b, k, <<>>, l)
    <2>1. Cat(Cat(h, b), Cat(k, l)) = Cat(Cat(Cat(h, b), k), l)
        BY <1>3, <1>4
    <2> QED
        BY <1>2, <1>4, <2>1 DEF Line
<1> QED
    BY <1>5, <1>6

\* No step loses a chunk or moves it past another.
LEMMA ConservationStep == ASSUME ServerInv, [Next]_vars PROVE Conservation'
<1> DEFINE L == Line(handled, buffer, got, hgot, list)
<1>a. (Way = L) /\ (Way = L)'
    BY DEF Way, Line, Cat
<1> SUFFICES ASSUME Calm' PROVE accepted' = Line(handled', buffer', got', hgot', list')
    BY <1>a DEF Conservation, Calm, Way
<1>0. /\ Calm /\ accepted = Line(handled, buffer, got, hgot, list)
      /\ handled \in Seq(Chunk) /\ buffer \in Seq(Chunk) /\ got \in Seq(Chunk)
      /\ hgot \in Seq(Chunk) /\ list \in Seq(Chunk) /\ item \in Seq(Chunk)
    BY <1>a, CalmStep DEF ServerInv, TypeOK, Conservation, Calm, Way
<1> HIDE DEF L
<1>1. ASSUME UNCHANGED <<accepted, handled, buffer, got, hgot, list>>
      PROVE  accepted' = Line(handled', buffer', got', hgot', list')
    BY <1>0, <1>1
<1>r. First(list) \in Seq(Chunk) /\ Rest(list) \in Seq(Chunk)
      /\ list = Cat(First(list), Rest(list))
    BY <1>0, FirstRest DEF Cat
<1>2. CASE MNext
    <2>1. UNCHANGED <<accepted, handled, buffer, got, hgot, list>>
        BY <1>2 DEF MNext, MSocket, MCreateRecv, MCreateSave, MJoinRecv, MJoinSave,
            MTeardown, MReturn, gVars, saveVars, mainVars, signalVars, histVars
    <2> QED
        BY <1>1, <2>1
<1>3. CASE RNext
    <2>1. CASE RInsert
        <3>0. UNCHANGED <<handled, buffer, got, hgot>>
            BY <2>1 DEF RInsert, saveVars, mainVars, signalVars
        <3>1. CASE list' = Cat(list, item) /\ accepted' = Cat(accepted, item)
            BY <1>0, <3>0, <3>1, Regroup
        <3>2. CASE UNCHANGED <<list, accepted>>
            BY <1>1, <3>0, <3>2
        <3> QED
            BY <2>1, <3>1, <3>2 DEF RInsert, Cat
    <2>2. CASE ~ RInsert
        <3>1. UNCHANGED <<accepted, handled, buffer, got, hgot, list>>
            BY <1>3, <2>2 DEF RNext, RStart, RMakeList, RRecv, RWait, REnd, RLock,
                RUnlock, RCancelled, gVars, saveVars, mainVars, signalVars, histVars, vars
        <3> QED
            BY <1>1, <3>1
    <2> QED
        BY <2>1, <2>2
<1>4. CASE SNext
    <2>1. CASE SPop
        <3>1. /\ got = <<>> /\ hgot = <<>> /\ hgot' = <<>>
              /\ got' = First(list) /\ list' = Rest(list)
              /\ UNCHANGED <<handled, buffer, accepted>>
            BY <1>0, <2>1, HandsFree, ServerAssumption
                DEF SPop, ServerInv, HandInv, Calm, mainVars, signalVars, histVars
        <3>2. Line(handled, buffer, <<>>, <<>>, Cat(First(list), Rest(list)))
                = Line(handled, buffer, First(list), <<>>, Rest(list))
            BY <1>0, <1>r, RegroupPop
        <3> QED
            BY <1>0, <1>r, <3>1, <3>2
    <2>2. CASE SReturn
        <3>1. /\ handled' = Cat(handled, buffer) /\ buffer' = <<>>
              /\ UNCHANGED <<got, hgot, list, accepted>>
            BY <2>2 DEF SReturn, Cat, mainVars, signalVars
        <3> QED
            BY <1>0, <3>1, Regroup
    <2>3. CASE SAppend
        <3>1. /\ buffer' = Cat(buffer, got) /\ got' = <<>>
              /\ UNCHANGED <<handled, hgot, list, accepted>>
            BY <2>3 DEF SAppend, Cat, mainVars, signalVars, histVars
        <3> QED
            BY <1>0, <3>1, Regroup
    <2>4. CASE ~ (SPop \/ SReturn \/ SAppend)
        <3>1. UNCHANGED <<accepted, handled, buffer, got, hgot, list>>
            BY <1>4, <2>4 DEF SNext, SWlock, SOpen, SPoll, SIdleFlush, SSee, SLock,
                SFull, SLate, SFits, SBatch, SCancelled, SCancelledInBatch, gVars,
                saveVars, mainVars, signalVars, histVars, vars
        <3> QED
            BY <1>1, <3>1
    <2> QED
        BY <2>1, <2>2, <2>3, <2>4
<1>5. CASE Signal \/ SignalAgain
    <2>1. CASE Signal
        <3>1. UNCHANGED <<accepted, handled, buffer, got, hgot, list>>
            BY <2>1 DEF Signal, gVars, saveVars, histVars
        <3> QED
            BY <1>1, <3>1
    <2>2. CASE SignalAgain
        <3>1. /\ handled' = Cat(handled, hgot) /\ hgot' = <<>>
              /\ UNCHANGED <<buffer, got, list, accepted>>
            BY <2>2 DEF SignalAgain, Cat, gVars, saveVars
        <3>2. CASE hgot = <<>>
            <4>1. Cat(handled, <<>>) = handled
                BY <1>0, ConcatEmptySeq DEF Cat
            <4> QED
                BY <1>1, <3>1, <3>2, <4>1
        <3>3. CASE hgot # <<>>
            <4>1. buffer = <<>> /\ got = <<>>
                BY <1>0, <3>3 DEF ServerInv, HandInv, Calm, Exclusive, FlushAlone, SleptInv,
                    Flushing, Unjoinable
            <4> QED
                BY <1>0, <3>1, <4>1, Regroup
        <3> QED
            BY <3>2, <3>3
    <2> QED
        BY <1>5, <2>1, <2>2
<1>6. CASE HNext
    <2>1. CASE HFlushed
        <3>1. /\ handled' = Cat(handled, buffer) /\ buffer' = <<>>
              /\ UNCHANGED <<got, hgot, list, accepted>>
            BY <2>1 DEF HFlushed, Cat, saveVars
        <3> QED
            BY <1>0, <3>1, Regroup
    <2>2. CASE HPop
        <3>1. /\ hgot = <<>> /\ hgot' = First(list) /\ list' = Rest(list)
              /\ UNCHANGED <<handled, buffer, got, accepted>>
            BY <2>2 DEF HPop, ServerInv, HandInv, saveVars, histVars
        <3>2. Line(handled, buffer, got, <<>>, Cat(First(list), Rest(list)))
                = Line(handled, buffer, got, First(list), Rest(list))
            BY <1>0, <1>r, RegroupPop
        <3> QED
            BY <1>0, <1>r, <3>1, <3>2
    <2>3. CASE HDrained
        <3>1. buffer = <<>> /\ got = <<>>
            BY <1>0, <2>3 DEF HDrained, ServerInv, HandInv, Calm, Exclusive, FlushAlone,
                SleptInv, Flushing, Unjoinable
        <3>2. /\ handled' = Cat(handled, hgot) /\ hgot' = <<>>
              /\ UNCHANGED <<buffer, got, list, accepted>>
            BY <2>3 DEF HDrained, Cat, gVars, saveVars
        <3> QED
            BY <1>0, <3>1, <3>2, Regroup
    <2>4. CASE ~ (HFlushed \/ HPop \/ HDrained)
        <3>1. UNCHANGED <<accepted, handled, buffer, got, hgot, list>>
            BY <1>6, <2>4 DEF HNext, HCancel, HSleep, HJoinRecv, HJoinSave, HFlush, HBatch,
                HDrain, HLock, HClose, HFree, HExit, gVars, saveVars, mainVars, signalVars,
                histVars
        <3> QED
            BY <1>1, <3>1
    <2> QED
        BY <2>1, <2>2, <2>3, <2>4
<1>7. CASE UNCHANGED vars
    BY <1>1, <1>7 DEF vars, gVars, saveVars, mainVars, signalVars, histVars
<1> QED
    BY <1>2, <1>3, <1>4, <1>5, <1>6, <1>7 DEF Next, Gone

LEMMA InvStep == ASSUME ServerInv, [Next]_vars PROVE ServerInv'
<1>1. TypeOK'
    BY StepType DEF ServerInv
<1> QED
    BY <1>1, AloneStep, HandStep, ConservationStep DEF ServerInv

\* Whatever the sizes, the failures and the signals: the state is well-typed,
\* chunks are conserved, and flush_list_data is not joined by the saving thread.
THEOREM ServerInvariant == Spec => []ServerInv
<1> QED
    BY InitInv, InvStep, PTL DEF Spec

\* No chunk is lost or overtaken between Linklist_Insert and the return of
\* batch_write_file.
THEOREM ChunksConserved == Spec => []Conservation
<1>1. ServerInv => Conservation
    BY DEF ServerInv
<1> QED
    BY <1>1, ServerInvariant, PTL

\* flush_list_data has the buffer, the list and the file to itself.
THEOREM FlushRunsAlone == Spec => []FlushAlone
<1>1. ServerInv => FlushAlone
    BY DEF ServerInv
<1> QED
    BY <1>1, ServerInvariant, PTL

-----------------------------------------------------------------------------
(* BufferFits.                                                             *)

\* A data_t has one chunk or none.
LEMMA SizeOfOne ==
    ASSUME NEW s \in Seq(Chunk), Len(s) <= 1
    PROVE  /\ Size(s) \in Nat /\ Size(s) < BuffMax
           /\ s # <<>> => Size(s) > 0
           /\ \A b \in Seq(Chunk) : Bytes(b \o s) = Bytes(b) + Size(s)
<1>1. CASE s = <<>>
    <2>1. Size(s) = 0
        BY <1>1 DEF Size
    <2>2. \A b \in Seq(Chunk) : b \o s = b /\ Bytes(b) \in Nat
        BY <1>1, ConcatEmptySeq, ChunkType, BytesType
    <2> QED
        BY <1>1, <2>1, <2>2, ServerAssumption
<1>2. CASE s # <<>>
    <2>1. Len(s) = 1 /\ s[1] \in Chunk
        <3>1. Len(s) \in Nat \ {0}
            BY <1>2, EmptySeq
        <3>2. Len(s) = 1
            <4>1. \A n \in Nat \ {0} : n <= 1 => n = 1
                OBVIOUS
            <4> QED
                BY <3>1, <4>1
        <3>3. \A i \in 1 .. Len(s) : s[i] \in Chunk
            BY ElementOfSeq
        <3> QED
            BY <3>2, <3>3
    <2>2. s = <<s[1]>>
        BY <2>1
    <2>3. Size(s) = s[1].len
        BY <1>2 DEF Size
    <2>4. s[1].len \in 1 .. BuffMax - 1 /\ s[1] \in Chunks
        BY <2>1, ServerAssumption DEF Chunk, Chunks
    <2>5. ASSUME NEW b \in Seq(Chunk)
          PROVE  Bytes(b \o s) = Bytes(b) + Size(s)
        <3>1. b \in Seq(Chunks)
            BY ChunkType
        <3>2. b \o s = Append(b, s[1])
            BY <2>2, <2>4, <3>1, AppendIsConcat
        <3> QED
            BY <2>3, <2>4, <3>1, <3>2, BytesOfMore
    <2> QED
        BY <2>3, <2>4, <2>5, ServerAssumption
<1> QED
    BY <1>1, <1>2

LEMMA BufferStep ==
    ASSUME TypeOK, HandInv, BufferFits, [Next]_vars
    PROVE  BufferFits'
<1> USE DEF BufferFits
<1>0. /\ got \in Seq(Chunk) /\ Len(got) <= 1 /\ buffer \in Seq(Chunk)
      /\ Size(got) \in Nat /\ Size(got) < BuffMax
      /\ offset \in Nat /\ BuffMax \in Nat \ {0}
      /\ Bytes(<<>>) = 0 /\ DOMAIN bdata = Writer /\ "save" \in Writer /\ "main" \in Writer
    BY SizeOfOne, BytesOfNothing, ServerAssumption DEF TypeOK, FileTypeOK
<1>1. ASSUME UNCHANGED <<offset, buffer, got, pcS, bdata>>
      PROVE  BufferFits'
    BY <1>1
<1>2. CASE MNext
    <2>1. CASE MCreateSave
        BY <2>1 DEF MCreateSave, gVars, fileVars, batchVars
    <2>2. CASE ~ MCreateSave
        BY <1>1, <1>2, <2>2 DEF MNext, MSocket, MCreateRecv, MJoinRecv, MJoinSave,
            MTeardown, MReturn, Ends, gVars, saveVars, fileVars, batchVars
    <2> QED
        BY <2>1, <2>2
<1>3. CASE RNext
    BY <1>1, <1>3 DEF RNext, RStart, RMakeList, RRecv, RWait, REnd, RLock, RInsert, RUnlock,
        RCancelled, Ends, saveVars, gVars, fileVars, batchVars, vars
<1>4. CASE Signal \/ SignalAgain
    BY <1>1, <1>4 DEF Signal, SignalAgain, gVars, saveVars, fileVars, batchVars
<1>5. CASE HNext
    <2>1. CASE HFlushed
        BY <1>0, <2>1 DEF HFlushed, BatchReturn, saveVars
    <2>2. ASSUME NEW b, BatchCall("main", handle, b), UNCHANGED <<offset, buffer, got, pcS>>
          PROVE  BufferFits'
        BY <1>0, <2>2 DEF BatchCall
    <2>3. CASE HFlush
        BY <1>1, <2>2, <2>3 DEF HFlush, gVars, saveVars, batchVars
    <2>4. CASE HPop
        BY <1>1, <2>2, <2>4 DEF HPop, saveVars, batchVars
    <2>5. CASE HBatch
        <3>1. bdata' = bdata
            BY <2>5 DEF HBatch, BatchStep, BCheckPasses, BStatFails, BRotate, BFwrite, BOk,
                BClose, BReopen, BReopenFails, Refused, Goto
        <3> QED
            BY <1>1, <2>5, <3>1 DEF HBatch, gVars, saveVars
    <2>6. CASE HDrained
        BY <1>1, <2>6 DEF HDrained, BatchReturn, gVars, saveVars
    <2>7. CASE HCancel \/ HSleep \/ HJoinRecv \/ HJoinSave \/ HDrain \/ HLock \/ HClose
               \/ HFree \/ HExit
        BY <1>1, <2>7 DEF HCancel, HSleep, HJoinRecv, HJoinSave, HDrain, HLock, HClose,
            HFree, HExit, Ends, gVars, saveVars, fileVars, batchVars
    <2> QED
        BY <1>5, <2>1, <2>3, <2>4, <2>5, <2>6, <2>7 DEF HNext
<1>6. CASE SNext
    <2>1. CASE SWlock \/ SLock \/ SSee \/ SPoll \/ SCancelled \/ SCancelledInBatch
        <3>1. /\ UNCHANGED <<offset, buffer, got, bdata>>
              /\ pcS' \in {"open", "pop", "lock", "ended", pcS}
            BY <2>1 DEF SWlock, SLock, SSee, SPoll, SCancelled, SCancelledInBatch, Ends,
                gVars, saveVars, fileVars, batchVars, vars
        <3> QED
            BY <3>1
    <2>2. CASE SOpen
        <3>1. buffer = <<>>
            BY <2>2 DEF SOpen, HandInv
        <3>2. /\ offset' \in {0, offset} /\ pcS' \in {"poll", "ended"}
              /\ buffer' = buffer
            BY <2>2 DEF SOpen
        <3> QED
            BY <1>0, <3>1, <3>2
    <2>3. CASE SIdleFlush \/ SFull \/ SLate
        <3>1. offset > 0
            BY <1>0, <2>3 DEF SIdleFlush, SFull, SLate
        <3>2. buffer # <<>>
            BY <1>0, <3>1
        <3> QED
            BY <1>0, <2>3, <3>2 DEF SIdleFlush, SFull, SLate, BatchCall, gVars
    <2>4. CASE SPop
        BY <2>4 DEF SPop, fileVars, batchVars, Ends
    <2>5. CASE SFits
        BY <2>5 DEF SFits, gVars, fileVars, batchVars
    <2>6. CASE SBatch
        <3>1. bdata' = bdata
            BY <2>6 DEF SBatch, BatchStep, BCheckPasses, BStatFails, BRotate, BFwrite, BOk,
                BClose, BReopen, BReopenFails, Refused, Goto
        <3> QED
            BY <1>1, <2>6, <3>1 DEF SBatch, gVars, saveVars
    <2>7. CASE SReturn
        BY <1>0, <2>7 DEF SReturn, BatchReturn
    <2>8. CASE SAppend
        <3>1. Bytes(buffer \o got) = Bytes(buffer) + Size(got)
            BY <1>0, SizeOfOne
        <3> QED
            BY <1>0, <2>8, <3>1 DEF SAppend
    <2> QED
        BY <1>6, <2>1, <2>2, <2>3, <2>4, <2>5, <2>6, <2>7, <2>8 DEF SNext
<1>7. CASE UNCHANGED vars
    BY <1>1, <1>7 DEF vars, gVars, saveVars, fileVars, batchVars
<1> QED
    BY <1>2, <1>3, <1>4, <1>5, <1>6, <1>7 DEF Next, Gone

\* memcpy stays inside the buffer, and no batch is empty, whatever fails and
\* whenever signals come.
THEOREM MemcpyFits == Spec => []BufferFits
<1>1. Init => BufferFits
    <2> SUFFICES ASSUME Init PROVE BufferFits
        OBVIOUS
    <2> QED
        BY BytesOfNothing, ServerAssumption DEF Init, BufferFits
<1>2. ServerInv /\ BufferFits /\ [Next]_vars => BufferFits'
    BY BufferStep DEF ServerInv
<1> QED
    BY <1>1, <1>2, ServerInvariant, PTL DEF Spec

-----------------------------------------------------------------------------
(* The files.                                                              *)

\* A write(2) that does not come back leaves the files as a shorter fwrite would.
LEMMA CutShortFiles ==
    ASSUME FileTypeOK, FileInv, OneStream, NEW w \in Writer, FwriteCutShort(w)
    PROVE  FileInv' /\ Grows
<1>1. PICK k \in 1 .. Len(bdata[w]) - 1 : Fwrite(bfp[w], SubSeq(bdata[w], 1, k))
    BY DEF FwriteCutShort
<1>2. /\ bdata[w] \in Seq(Chunks) /\ bfp[w] \in Stream /\ stream[bfp[w]].open
      /\ UNCHANGED present
    BY DEF FileTypeOK, FwriteCutShort, Usable
<1>3. k \in 0 .. Len(bdata[w])
    BY <1>2, LenProperties
<1>4. SubSeq(bdata[w], 1, k) \in Seq(Chunks)
    BY <1>2, <1>3, SubSeqType
<1> QED
    BY <1>1, <1>2, <1>4, FwriteFiles

LEMMA FilesStep ==
    ASSUME TypeOK, FileInv, OneStream, [Next]_vars
    PROVE  FileInv' /\ Grows
<1>0. FileTypeOK /\ "save" \in Writer /\ "main" \in Writer
    BY ServerAssumption DEF TypeOK
<1>1. ASSUME UNCHANGED <<dirVars, stream, written>>
      PROVE  FileInv' /\ Grows
    BY <1>0, <1>1, SameFiles
<1>2. CASE MNext
    BY <1>1, <1>2 DEF MNext, MSocket, MCreateRecv, MCreateSave, MJoinRecv, MJoinSave,
        MTeardown, MReturn, Ends, fileVars
<1>3. CASE RNext
    BY <1>1, <1>3 DEF RNext, RStart, RMakeList, RRecv, RWait, REnd, RLock, RInsert, RUnlock,
        RCancelled, Ends, fileVars, vars
<1>4. CASE Signal \/ SignalAgain
    <2>1. CASE FwriteCutShort("main")
        BY <1>0, <2>1, CutShortFiles
    <2>2. CASE UNCHANGED <<dirVars, stream, written>>
        BY <1>1, <2>2
    <2> QED
        BY <1>4, <2>1, <2>2 DEF Signal, SignalAgain, fileVars
<1>5. CASE HNext
    <2>1. CASE HBatch
        BY <1>0, <2>1, BatchStepFiles DEF HBatch
    <2>2. CASE HClose
        BY <1>0, <2>2, CloseFiles DEF HClose, TypeOK
    <2>3. CASE ~ (HBatch \/ HClose)
        BY <1>1, <1>5, <2>3 DEF HNext, HCancel, HSleep, HJoinRecv, HJoinSave, HFlush,
            HFlushed, HDrain, HLock, HPop, HDrained, HFree, HExit, Ends, fileVars
    <2> QED
        BY <2>1, <2>2, <2>3
<1>6. CASE SNext
    <2>1. CASE SBatch
        BY <1>0, <2>1, BatchStepFiles DEF SBatch
    <2>2. CASE SOpen
        BY <1>0, <1>1, <2>2, FopenFiles DEF SOpen
    <2>3. CASE SCancelledInBatch
        BY <1>0, <1>1, <2>3, CutShortFiles DEF SCancelledInBatch
    <2>4. CASE ~ (SBatch \/ SOpen \/ SCancelledInBatch)
        BY <1>1, <1>6, <2>4 DEF SNext, SWlock, SPoll, SIdleFlush, SSee, SLock, SPop, SFull,
            SLate, SFits, SReturn, SAppend, SCancelled, Ends, fileVars, vars
    <2> QED
        BY <2>1, <2>2, <2>3, <2>4
<1>7. CASE UNCHANGED vars
    BY <1>1, <1>7 DEF vars, fileVars
<1> QED
    BY <1>2, <1>3, <1>4, <1>5, <1>6, <1>7 DEF Next, Gone

\* Whatever fails and whenever signals come, what fwrite put into the stream is in
\* the files or pending in it, all of it, in order and once.
THEOREM ServerKeepsContents ==
    ASSUME OneStream
    PROVE  Spec => []FileContents
<1>1. Init => FileInv
    BY FileInitFiles DEF Init
<1>2. TypeOK /\ FileInv /\ [Next]_vars => FileInv'
    BY FilesStep
<1>3. FileInv => FileContents
    BY FilesHold
<1> QED
    BY <1>1, <1>2, <1>3, TypeCorrect, PTL DEF Spec

-----------------------------------------------------------------------------
(* The refinement of Relay, when nothing fails and no signal comes.        *)

LEMMA InitQuiet == Init => QuietInv /\ SavingInv
<1> SUFFICES ASSUME Init PROVE QuietInv /\ SavingInv
    OBVIOUS
<1>1. bpc["save"] = "idle"
    BY ServerAssumption DEF Init, FileInit
<1> QED
    BY <1>1 DEF Init, FileInit, QuietInv, SavingInv, Left, Run

\* main stays where it is, and nobody cancels.
LEMMA QuietStep ==
    ASSUME TypeOK, FileInv, QuietInv, SavingInv, OneStream, Faults = {}, Signals = 0,
           [Next]_vars
    PROVE  QuietInv'
<1> USE DEF Run
<1>1. CASE MNext
    BY <1>1 DEF QuietInv, MNext, MSocket, MCreateRecv, MCreateSave, MJoinRecv, MJoinSave,
        MTeardown, MReturn, gVars, recvVars, saveVars, signalVars, histVars, fileVars
<1>2. CASE RNext
    <2>1. CASE RRecv
        <3>1. PICK n \in 1 .. BuffMax - 1 : item' = <<[no |-> sent + 1, len |-> n]>>
            BY <2>1 DEF RRecv
        <3>2. [no |-> sent + 1, len |-> n] \in Chunk
            BY <2>1, ServerAssumption DEF RRecv, Chunk, TypeOK
        <3> QED
            BY <2>1, <3>1, <3>2 DEF QuietInv, RRecv, fileVars, gVars, saveVars, mainVars,
                signalVars, histVars
    <2>2. CASE ~ RRecv
        BY <1>2, <2>2 DEF QuietInv, RNext, RStart, RMakeList, RWait, REnd, RLock, RInsert,
            RUnlock, RCancelled, Cancelling, vars, fileVars, gVars, recvVars, saveVars,
            mainVars, signalVars, histVars
    <2> QED
        BY <2>1, <2>2
<1>3. CASE SNext
    <2>1. CASE SBatch
        <3>1. handle \in Stream /\ bpc["save"] # "idle"
            BY <2>1 DEF SBatch, SavingInv, TypeOK
        <3>2. proc' = "run"
            BY <2>1, <3>1, BatchStepGoesOn, ChunkType, ServerAssumption
                DEF SBatch, SavingInv, QuietInv, TypeOK
        <3> QED
            BY <2>1, <3>2 DEF QuietInv, SBatch, gVars, recvVars, saveVars, mainVars,
                signalVars, histVars
    <2>2. CASE ~ SBatch
        BY <1>3, <2>2 DEF QuietInv, SNext, SWlock, SOpen, SPoll, SIdleFlush, SSee, SLock,
            SPop, SFull, SLate, SFits, SReturn, SAppend, SCancelled, SCancelledInBatch,
            Cancelling, vars, fileVars, gVars, recvVars, saveVars, mainVars, signalVars,
            histVars
    <2> QED
        BY <2>1, <2>2
<1>4. CASE Signal \/ SignalAgain \/ HNext
    BY <1>4 DEF QuietInv, Signal, SignalAgain, Handler, HNext, HCancel, HSleep, HJoinRecv,
        HJoinSave, HFlush, HBatch, HFlushed, HDrain, HLock, HPop, HDrained, HClose, HFree,
        HExit
<1>5. CASE UNCHANGED vars
    BY <1>5 DEF QuietInv, vars, fileVars, gVars, recvVars, saveVars, mainVars, signalVars,
        histVars
<1> QED
    BY <1>1, <1>2, <1>3, <1>4, <1>5 DEF Next, Gone

\* As long as nobody touches its batch.
LEMMA SavingRest ==
    ASSUME SavingInv,
           UNCHANGED <<present, cur, stream, batchVars, written, handle, buffer, handled>>,
           pcS' \in {"none", "wlock", "open"} <=> pcS \in {"none", "wlock", "open"},
           pcS' \in {"batch", "idle"} <=> pcS \in {"batch", "idle"}
    PROVE  SavingInv'
BY DEF SavingInv, Batching, Left, batchVars

\* The saving thread hands over one batch after another.
LEMMA SavingThread ==
    ASSUME TypeOK, FileInv, SavingInv, OneStream, Faults = {}, Run, torn' = NULL, SNext
    PROVE  SavingInv' /\ pcS' # "ended"
<1>0. /\ "save" \in Writer /\ FileTypeOK /\ DOMAIN bpc = Writer /\ DOMAIN bfp = Writer
      /\ DOMAIN bdata = Writer /\ stream \in [Stream -> Stdio]
      /\ buffer \in Seq(Chunks) /\ got \in Seq(Chunks) /\ handled \in Seq(Chunks)
      /\ written \in Seq(Chunks)
      /\ handle # NULL => handle \in Stream
    BY ChunkType, ServerAssumption DEF TypeOK, FileTypeOK, Stdio
<1>1. CASE SBatch
    <2>1. handle \in Stream /\ bpc["save"] # "idle" /\ Batching("save", handle, buffer)
        BY <1>0, <1>1 DEF SBatch, SavingInv
    <2>2. /\ BatchStep("save") /\ proc = "run"
          /\ UNCHANGED <<handle, buffer, handled, pcS>>
        BY <1>1 DEF SBatch, Run, gVars, saveVars, histVars
    <2>3. /\ Batching("save", handle, buffer)' /\ bpc'["save"] # "idle"
          /\ written' \o Left("save", buffer)' = written \o Left("save", buffer)
        BY <1>0, <2>1, <2>2, BatchStepGoesOn
    <2> QED
        BY <1>1, <2>2, <2>3 DEF SavingInv, SBatch
<1>2. CASE SOpen
    <2>1. PICK f \in Stream : Fopen(f) /\ handle' = f
        BY <1>2 DEF SOpen
    <2>2. /\ stream'[f].open /\ f # NULL
        BY <1>0, <2>1, RpioWriteAssumption DEF Fopen, Opened
    <2>3. UNCHANGED <<bpc, written, buffer, handled>> /\ pcS = "open" /\ pcS' = "poll"
        BY <1>2 DEF SOpen, batchVars, histVars
    <2> QED
        BY <2>1, <2>2, <2>3 DEF SavingInv, Batching, Left
<1>3. CASE SIdleFlush \/ SFull \/ SLate
    <2>1. /\ BatchCall("save", handle, buffer)
          /\ pcS \in {"poll", "decide"} /\ pcS' \in {"batch", "idle"}
          /\ UNCHANGED <<present, cur, stream, written, handle, buffer, handled>>
        BY <1>3 DEF SIdleFlush, SFull, SLate, dirVars, gVars, histVars
    <2>2. bpc'["save"] = "check" /\ bfp'["save"] = handle /\ bdata'["save"] = buffer
        BY <1>0, <2>1 DEF BatchCall
    <2> QED
        BY <2>1, <2>2 DEF SavingInv, Batching, Left
<1>4. CASE SReturn
    <2>1. /\ bpc["save"] = "done" /\ bpc'["save"] = "idle"
          /\ pcS \in {"batch", "idle"} /\ pcS' \in {"append", "poll"}
          /\ handled' = handled \o buffer /\ buffer' = <<>>
          /\ UNCHANGED <<present, cur, stream, bfp, bdata, written, handle>>
        BY <1>0, <1>4 DEF SReturn, BatchReturn, dirVars
    <2>2. handled' \o <<>> = handled'
        <3>1. handled' \in Seq(Chunks)
            BY <1>0, <2>1, ConcatProperties
        <3> QED
            BY <3>1, ConcatEmptySeq
    <2> QED
        BY <2>1, <2>2 DEF SavingInv, Batching, Left
<1>5. CASE SAppend
    <2>1. /\ bpc["save"] = "idle" /\ pcS = "append" /\ pcS' = "poll"
          /\ buffer' = Cat(buffer, got)
          /\ UNCHANGED <<present, cur, stream, batchVars, written, handle, handled>>
        BY <1>5 DEF SAppend, SavingInv, fileVars, dirVars, histVars, Cat
    <2>2. Cat(written, buffer) = Cat(handled, buffer)
        BY <2>1 DEF SavingInv, Left, Cat
    <2>3. \A s, t, u \in Seq(Chunks) : Cat(Cat(s, t), u) = Cat(s, Cat(t, u))
        BY CatAssociative
    <2>4. Cat(written, buffer') = Cat(handled, buffer')
        BY <1>0, <2>1, <2>2, <2>3
    <2> QED
        BY <2>1, <2>4 DEF SavingInv, Batching, Left, Cat, batchVars
<1>6. CASE ~ (SBatch \/ SOpen \/ SIdleFlush \/ SFull \/ SLate \/ SReturn \/ SAppend)
    <2>1. ~ SCancelled /\ ~ SCancelledInBatch
        BY ServerAssumption DEF SCancelled, SCancelledInBatch
    <2>2. SWlock \/ SPoll \/ SSee \/ SLock \/ SPop \/ SFits
        BY <1>6, <2>1 DEF SNext
    <2>3. CASE SWlock \/ SPoll
        BY SavingRest, <2>3 DEF SWlock, SPoll, vars, fileVars, dirVars, gVars, saveVars,
            histVars
    <2>4. CASE SSee \/ SPop
        BY SavingRest, <2>4 DEF SSee, SPop, Ends, fileVars, dirVars, gVars, histVars
    <2>5. CASE SLock \/ SFits
        BY SavingRest, <2>5 DEF SLock, SFits, fileVars, dirVars, gVars, histVars
    <2> QED
        BY <2>2, <2>3, <2>4, <2>5
<1> QED
    BY <1>1, <1>2, <1>3, <1>4, <1>5, <1>6

LEMMA SavingStep ==
    ASSUME TypeOK, HandInv, FileInv, QuietInv, SavingInv, OneStream, Faults = {}, Signals = 0,
           [Next]_vars
    PROVE  SavingInv'
<1>1. CASE MNext
    BY <1>1, SavingRest DEF QuietInv, HandInv, MNext, MSocket, MCreateRecv, MCreateSave,
        MJoinRecv, MJoinSave, MTeardown, MReturn, Ends, gVars, saveVars, histVars, fileVars,
        dirVars
<1>2. CASE RNext
    BY <1>2, SavingRest DEF RNext, RStart, RMakeList, RRecv, RWait, REnd, RLock, RInsert,
        RUnlock, RCancelled, Ends, vars, fileVars, dirVars, gVars, saveVars, histVars
<1>3. CASE SNext
    <2>1. QuietInv'
        BY QuietStep
    <2> QED
        BY <1>3, <2>1, SavingThread DEF QuietInv
<1>4. CASE Signal \/ SignalAgain \/ HNext
    BY <1>4 DEF QuietInv, Signal, SignalAgain, Handler, HNext, HCancel, HSleep, HJoinRecv,
        HJoinSave, HFlush, HBatch, HFlushed, HDrain, HLock, HPop, HDrained, HClose, HFree,
        HExit
<1>5. CASE UNCHANGED vars
    BY <1>5, SavingRest DEF vars, fileVars, dirVars, gVars, saveVars, histVars
<1> QED
    BY <1>1, <1>2, <1>3, <1>4, <1>5 DEF Next, Gone

\* What has been accepted and is not in the files: in the stream, in the buffer, in
\* hand, in the list.
Behind(f) ==
    Cat(stream[f].pend, Cat(Left("save", buffer), Cat(got, list)))

Somewhere ==
    /\ OnDisk \in Seq(Chunks)
    /\ \A f \in Stream : Behind(f) \in Seq(Chunks) /\ accepted = Cat(OnDisk, Behind(f))

LEMMA AcceptedIsSomewhere == ServerInv /\ FileInv /\ QuietInv /\ SavingInv => Somewhere
<1> SUFFICES ASSUME ServerInv, FileInv, QuietInv, SavingInv PROVE Somewhere
    OBVIOUS
<1>0. TypeOK /\ FileTypeOK
    BY DEF ServerInv, TypeOK
<1>1. /\ OnDisk \in Seq(Chunks) /\ Left("save", buffer) \in Seq(Chunks)
      /\ got \in Seq(Chunks) /\ list \in Seq(Chunks) /\ buffer \in Seq(Chunks)
      /\ handled \in Seq(Chunks)
    BY <1>0, OnDiskType, ChunkType DEF TypeOK, Left
<1>2. accepted = Cat(Cat(Cat(written, Left("save", buffer)), got), list)
    <2>1. accepted = Cat(Cat(Cat(Cat(handled, buffer), got), <<>>), list)
        BY ServerAssumption DEF Main, Handler, ServerInv, Conservation, QuietInv, Exclusive,
            Unjoinable, Cat
    <2>2. Cat(handled, buffer) = Cat(written, Left("save", buffer))
        BY DEF SavingInv, Cat
    <2>3. Cat(Cat(Cat(handled, buffer), got), <<>>) = Cat(Cat(handled, buffer), got)
        <3>1. Cat(Cat(handled, buffer), got) \in Seq(Chunks)
            BY <1>1, CatType
        <3> QED
            BY <3>1, CatEmpty
    <2> QED
        BY <2>1, <2>2, <2>3
<1>3. ASSUME NEW f \in Stream
      PROVE  Behind(f) \in Seq(Chunks) /\ accepted = Cat(OnDisk, Behind(f))
    <2> DEFINE p == stream[f].pend
               l == Left("save", buffer)
    <2>1. p \in Seq(Chunks) /\ written = Cat(OnDisk, p)
        BY <1>0, OneFile
    <2>2. \A s, t, u \in Seq(Chunks) : Cat(Cat(s, t), u) = Cat(s, Cat(t, u))
        BY CatAssociative
    <2>3. \A s, t \in Seq(Chunks) : Cat(s, t) \in Seq(Chunks)
        BY CatType
    <2>4. accepted = Cat(Cat(Cat(Cat(OnDisk, p), l), got), list)
          /\ Behind(f) = Cat(p, Cat(l, Cat(got, list))) /\ l \in Seq(Chunks)
        BY <1>1, <1>2, <2>1 DEF Behind
    <2> HIDE DEF p, l
    <2>5. /\ Cat(OnDisk, p) \in Seq(Chunks) /\ Cat(got, list) \in Seq(Chunks)
          /\ Cat(Cat(OnDisk, p), l) \in Seq(Chunks)
          /\ Cat(l, Cat(got, list)) \in Seq(Chunks)
          /\ Behind(f) \in Seq(Chunks)
        BY <1>1, <2>1, <2>3, <2>4
    <2>6. accepted = Cat(Cat(Cat(OnDisk, p), l), Cat(got, list))
        BY <1>1, <2>2, <2>4, <2>5
    <2>7. accepted = Cat(Cat(OnDisk, p), Cat(l, Cat(got, list)))
        BY <2>2, <2>4, <2>5, <2>6
    <2>8. accepted = Cat(OnDisk, Behind(f))
        BY <1>1, <2>1, <2>2, <2>4, <2>5, <2>7
    <2> QED
        BY <2>5, <2>8
<1> QED
    BY <1>1, <1>3 DEF Somewhere

LEMMA RelayStep ==
    ASSUME Somewhere, Somewhere', Grows, TypeOK, QuietInv, OneStream, Faults = {}, [Next]_vars
    PROVE  [Saving!Next]_(Saving!vars)
<1>1. CASE RInsert
    <2>1. PICK c \in Chunk : item = <<c>>
        BY <1>1 DEF RInsert, QuietInv
    <2>2. accepted' = accepted \o <<c>> /\ OnDisk' = OnDisk
        BY <1>1, <2>1 DEF RInsert, QuietInv, fileVars, dirVars, OnDisk
    <2>3. accepted' = Append(accepted, c)
        BY <2>2, AppendIsConcat DEF TypeOK
    <2> QED
        BY <2>2, <2>3 DEF Saving!Next, Saving!Accept
<1>2. CASE accepted' = accepted
    <2>1. PICK f : Stream = {f}
        BY DEF OneStream
    <2>2. /\ accepted = Cat(OnDisk, Behind(f)) /\ accepted = Cat(OnDisk', Behind(f)')
          /\ OnDisk \in Seq(Chunks) /\ Behind(f) \in Seq(Chunks)
          /\ OnDisk' \in Seq(Chunks) /\ Behind(f)' \in Seq(Chunks)
        BY <1>2, <2>1 DEF Somewhere
    <2>3. \/ OnDisk' = OnDisk
          \/ \E n \in Len(OnDisk) + 1 .. Len(accepted) : OnDisk' = SubSeq(accepted, 1, n)
        <3>1. Cat(OnDisk, Behind(f)) = Cat(OnDisk', Behind(f)') /\ Len(OnDisk') >= Len(OnDisk)
            BY <2>2 DEF Grows
        <3>2. \/ OnDisk' = OnDisk
              \/ \E n \in Len(OnDisk) + 1 .. Len(Cat(OnDisk, Behind(f))) :
                    OnDisk' = SubSeq(Cat(OnDisk, Behind(f)), 1, n)
            BY <2>2, <3>1, PrefixGrows
        <3> QED
            BY <2>2, <3>2
    <2> QED
        BY <1>2, <2>3 DEF Saving!Next, Saving!Deliver, Saving!vars
<1>3. RInsert \/ accepted' = accepted
    BY DEF Next, MNext, MSocket, MCreateRecv, MCreateSave, MJoinRecv, MJoinSave, MTeardown,
        MReturn, Signal, SignalAgain, HNext, HCancel, HSleep, HJoinRecv, HJoinSave, HFlush,
        HBatch, HFlushed, HDrain, HLock, HPop, HDrained, HClose, HFree, HExit, RNext,
        RStart, RMakeList, RRecv, RWait, REnd, RLock, RUnlock, RCancelled, SNext, SWlock,
        SOpen, SPoll, SIdleFlush, SSee, SLock, SPop, SFull, SLate, SFits, SBatch, SReturn,
        SAppend, SCancelled, SCancelledInBatch, Gone, histVars, vars
<1> QED
    BY <1>1, <1>2, <1>3

\* The server is a relay from the list to the files (ServerIsRelay).
THEOREM ServerRefinesRelay ==
    ASSUME OneStream, Faults = {}, Signals = 0
    PROVE  Spec => ServerIsRelay
<1> DEFINE Inv == ServerInv /\ FileInv /\ QuietInv /\ SavingInv
<1>1. Init => Inv
    BY InitInv, InitQuiet, FileInitFiles DEF Init
<1>2. Inv /\ [Next]_vars => Inv'
    <2>1. ServerInv => TypeOK /\ HandInv
        BY DEF ServerInv
    <2> QED
        BY <2>1, InvStep, FilesStep, QuietStep, SavingStep
<1>3. Inv /\ [Next]_vars => Grows /\ TypeOK /\ QuietInv
    BY FilesStep DEF ServerInv
<1>4. Somewhere /\ Somewhere' /\ Grows /\ TypeOK /\ QuietInv /\ [Next]_vars
        => [Saving!Next]_(Saving!vars)
    BY RelayStep
<1>5. Init => Saving!Init
    BY DEF Init, FileInit, Saving!Init, OnDisk
<1>6. Inv => Somewhere
    BY AcceptedIsSomewhere
<1> QED
    BY <1>1, <1>2, <1>3, <1>4, <1>5, <1>6, PTL DEF Spec, Saving!Spec, ServerIsRelay

-----------------------------------------------------------------------------
(* The end of the server by signals: ExitProcess uses no thread, list or    *)
(* file that is not there.  First the user of the file.                     *)

\* fwrite opens and closes no stream.
LEMMA FwriteOpen ==
    ASSUME stream \in [Stream -> Stdio], NEW f \in Stream, NEW s, Fwrite(f, s)
    PROVE  \A g \in Stream : stream'[g].open = stream[g].open
<1> DEFINE all == stream[f].pend \o s
<1>1. PICK k \in 0 .. Len(all) :
            stream' = [stream EXCEPT ![f].pend = SubSeq(all, k + 1, Len(all))]
    BY DEF Fwrite
<1>2. \A t : stream' = [stream EXCEPT ![f].pend = t]
            => \A g \in Stream : stream'[g].open = stream[g].open
    BY DEF Stdio
<1> QED
    BY <1>1, <1>2

LEMMA UsingStep ==
    ASSUME OneStream, "open" \notin Faults, FileTypeOK, NEW w \in Writer,
           NEW fp \in Stream, Using(w, fp), BatchStep(w)
    PROVE  Using(w, fp)' /\ proc' = proc
<1> USE DEF Using, Goto
<1>0. /\ bpc \in [Writer -> {"idle", "check", "recheck", "fwrite", "ok",
                           "close", "open", "done"}]
      /\ bfp \in [Writer -> Stream \cup {NULL}]
      /\ stream \in [Stream -> Stdio] /\ \A f \in Stream : f = fp
    BY DEF FileTypeOK, Stdio, OneStream
<1>1. CASE BCheckPasses(w) \/ BOk(w)
    BY <1>0, <1>1 DEF BCheckPasses, BOk, Checking
<1>2. CASE BStatFails(w)
    BY <1>0, <1>2 DEF BStatFails, Checking, Refused
<1>3. CASE BRotate(w)
    <2>1. \A f \in Stream : stream'[f].open = stream[f].open
        BY <1>0, <1>3 DEF BRotate, Rotate, Stdio
    <2> QED
        BY <1>0, <1>3, <2>1 DEF BRotate, Checking, Refused
<1>4. CASE BFwrite(w)
    <2>1. bfp[w] = fp /\ Usable(fp) /\ bpc'[w] = "ok" /\ bfp' = bfp
        BY <1>0, <1>4 DEF BFwrite, Usable
    <2>2. stream'[fp].open = stream[fp].open /\ proc' = proc
        BY <1>0, <1>4, <2>1, FwriteOpen DEF BFwrite, Usable
    <2> QED
        BY <2>1, <2>2 DEF Usable
<1>5. CASE BClose(w)
    <2>1. bfp[w] = fp /\ stream[fp].open /\ fp # NULL /\ bpc'[w] = "open" /\ bfp' = bfp
        BY <1>0, <1>5, RpioWriteAssumption DEF BClose, RpioWriteAssumption
    <2>2. Fclose(fp) /\ proc' = proc
        BY <1>5, <2>1 DEF BClose, closeRPIOFile
    <2>3. ~ stream'[fp].open
        BY <1>0, <2>2 DEF Fclose, Closed
    <2> QED
        BY <2>1, <2>2, <2>3
<1>6. CASE BReopen(w)
    <2>1. PICK f \in Stream : Fopen(f) /\ bfp' = [bfp EXCEPT ![w] = f]
        BY <1>6 DEF BReopen
    <2> QED
        BY <1>0, <1>6, <2>1 DEF BReopen, Fopen, Opened
<1>7. CASE BReopenFails(w)
    BY <1>7 DEF BReopenFails
<1> QED
    BY <1>1, <1>2, <1>3, <1>4, <1>5, <1>6, <1>7 DEF BatchStep

\* A cancelled fwrite leaves every stream open that was.
LEMMA CutShortOpen ==
    ASSUME FileTypeOK, NEW w \in Writer, FwriteCutShort(w)
    PROVE  \A f \in Stream : stream'[f].open = stream[f].open
<1>1. stream \in [Stream -> Stdio]
    BY DEF FileTypeOK, Stdio
<1> QED
    BY <1>1, FwriteOpen DEF FwriteCutShort, Usable

-----------------------------------------------------------------------------
(* main and ExitProcess.                                                    *)

LEMMA InitShutdown == Init => ShutdownInv
<1> SUFFICES ASSUME Init PROVE ShutdownInv
    OBVIOUS
<1> QED
    BY ServerAssumption DEF Init, FileInit, ShutdownInv, StagesInv, AftermathInv, Slept,
        FileUsable, NoCrash, Run, Reached, Handler

\* Without failures main gets no further than its first pthread_join.
LEMMA MainWaits ==
    ASSUME StagesInv, Faults = {}, MNext
    PROVE  MSocket \/ MCreateRecv \/ MCreateSave
BY DEF StagesInv, MNext, MJoinRecv, MJoinSave, MTeardown, MReturn, Reached, Handler

LEMMA StagesStep ==
    ASSUME ServerInv, StagesInv, Faults = {}, [Next]_vars
    PROVE  StagesInv'
<1> USE ServerAssumption DEF StagesInv, Reached, Handler, Main, signalVars
<1>1. CASE MNext
    BY <1>1, MainWaits DEF MSocket, MCreateRecv, MCreateSave, recvVars, saveVars
<1>2. CASE RNext
    <2>1. /\ UNCHANGED <<saveVars, mainVars>> /\ pcR # "none" /\ pcR' # "none"
          /\ pcR' = "ended" => Cancelling
        BY <1>2 DEF RNext, RStart, RMakeList, RRecv, RWait, REnd, RLock, RInsert, RUnlock,
            RCancelled, vars, recvVars, mainVars, saveVars
    <2> QED
        BY <2>1 DEF saveVars, mainVars, Cancelling
<1>3. CASE SNext
    <2>1. /\ UNCHANGED <<recvVars, mainVars>> /\ pcS # "none" /\ pcS' # "none"
          /\ pcS' = "ended" => Cancelling
        BY <1>3 DEF SNext, SWlock, SOpen, SPoll, SIdleFlush, SSee, SLock, SPop, SFull,
            SLate, SFits, SBatch, SReturn, SAppend, SCancelled, SCancelledInBatch, vars,
            saveVars
    <2> QED
        BY <2>1 DEF recvVars, mainVars, Cancelling
<1>4. CASE Signal \/ SignalAgain
    BY <1>4 DEF Signal, SignalAgain, recvVars, saveVars, ServerInv, TypeOK
<1>5. CASE HNext
    <2>1. pcM \in Handler /\ pcM' \in Handler /\ UNCHANGED <<recvVars, saveVars, signalVars>>
        BY <1>5 DEF HNext, HCancel, HSleep, HJoinRecv, HJoinSave, HFlush, HBatch, HFlushed,
            HDrain, HLock, HPop, HDrained, HClose, HFree, HExit, mainVars
    <2> QED
        BY <2>1 DEF recvVars, saveVars
<1>6. CASE UNCHANGED vars
    BY <1>6 DEF vars, recvVars, saveVars, mainVars
<1> QED
    BY <1>1, <1>2, <1>3, <1>4, <1>5, <1>6 DEF Next, Gone

LEMMA AftermathStep ==
    ASSUME StagesInv, AftermathInv, Prompt, Faults = {}, [Next]_vars
    PROVE  AftermathInv'
<1> USE ServerAssumption DEF AftermathInv, Slept, Handler, signalVars
<1>1. CASE MNext
    BY <1>1, MainWaits DEF MSocket, MCreateRecv, MCreateSave, StagesInv, Reached, recvVars,
        saveVars, gVars
<1>2. CASE RNext
    BY <1>2 DEF RNext, RStart, RMakeList, RRecv, RWait, REnd, RLock, RInsert, RUnlock,
        RCancelled, saveVars, mainVars, vars, recvVars, gVars
<1>3. CASE SNext
    BY <1>3 DEF SNext, SWlock, SOpen, SPoll, SIdleFlush, SSee, SLock, SPop, SFull, SLate,
        SFits, SBatch, SReturn, SAppend, SCancelled, SCancelledInBatch,
        recvVars, saveVars, mainVars, vars, gVars
<1>4. CASE Signal \/ SignalAgain
    BY <1>4 DEF Signal, SignalAgain, recvVars, saveVars, gVars, StagesInv, Main
<1>5. CASE HNext
    BY <1>5 DEF HNext, HCancel, HSleep, HJoinRecv, HJoinSave, HFlush, HBatch, HFlushed,
        HDrain, HLock, HPop, HDrained, HClose, HFree, HExit, recvVars, saveVars,
        mainVars, gVars
<1>6. CASE UNCHANGED vars
    BY <1>6 DEF vars, recvVars, saveVars, mainVars, gVars
<1> QED
    BY <1>1, <1>2, <1>3, <1>4, <1>5, <1>6 DEF Next, Gone

LEMMA UsableStep ==
    ASSUME TypeOK, StagesInv, AftermathInv, FileUsable, Prompt, OneStream, Faults = {},
           [Next]_vars, Run, Run'
    PROVE  FileUsable'
<1> USE DEF FileUsable
<1>0. /\ FileTypeOK /\ handle \in Stream \cup {NULL} /\ handle' \in Stream \cup {NULL}
      /\ Writer = {"save", "main"} /\ NULL \notin Stream
      /\ bpc \in [Writer -> {"idle", "check", "recheck", "fwrite", "ok",
                           "close", "open", "done"}]
      /\ bfp \in [Writer -> Stream \cup {NULL}]
    BY StepType, ServerAssumption, RpioWriteAssumption
        DEF TypeOK, FileTypeOK, RpioWriteAssumption
<1>1. CASE MNext
    <2>1. /\ UNCHANGED <<bpc, bfp, stream, handle>>
          /\ pcM \in Main /\ pcM' \in Main
          /\ pcS' = pcS \/ (pcS = "none" /\ pcS' = "wlock")
        BY <1>1, MainWaits DEF MSocket, MCreateRecv, MCreateSave, Ends, Run, Main,
            fileVars, batchVars, gVars, saveVars, StagesInv, Reached, Handler
    <2>2. pcS' # "ended" <=> pcS # "ended"
        BY <2>1
    <2>3. pcS' \in {"batch", "idle", "ended"} <=> pcS \in {"batch", "idle", "ended"}
        BY <2>1
    <2>4. /\ pcM \notin {"flushing", "drain", "hlock", "hpop", "draining", "free", "exit"}
          /\ pcM' \notin {"flushing", "drain", "hlock", "hpop", "draining", "free", "exit"}
        BY <2>1 DEF Main
    <2>5. pcS' \notin {"none", "wlock", "open", "ended"} => handle # NULL
        BY <2>1
    <2>6. again' = again
        BY <1>1 DEF MNext, MSocket, MCreateRecv, MCreateSave, MJoinRecv, MJoinSave,
            MTeardown, MReturn, mainVars, signalVars
    <2> QED
        BY <2>1, <2>2, <2>3, <2>4, <2>5, <2>6 DEF Using
<1>2. CASE RNext
    <2>1. UNCHANGED <<bpc, bfp, stream, handle, pcM, pcS, again>>
        BY <1>2 DEF RNext, RStart, RMakeList, RRecv, RWait, REnd, RLock, RInsert, RUnlock,
            RCancelled, Ends, Run, fileVars, batchVars, gVars, saveVars, mainVars,
            signalVars, vars
    <2> QED
        BY <2>1, <1>0 DEF Using
<1>3. CASE SNext
    <2>0. UNCHANGED <<pcM, again>>
        BY <1>3 DEF SNext, SWlock, SOpen, SPoll, SIdleFlush, SSee, SLock, SPop, SFull,
            SLate, SFits, SBatch, SReturn, SAppend, SCancelled, SCancelledInBatch, mainVars,
            signalVars, vars
    <2>1. CASE SWlock \/ SPoll \/ SSee \/ SLock \/ SPop \/ SFits \/ SAppend
        <3>1. /\ UNCHANGED <<bpc, bfp, stream, handle>>
              /\ pcS' \notin {"none", "batch", "idle", "ended"}
              /\ pcS \notin {"none", "batch", "idle", "ended"}
              /\ pcS' \in {"wlock", "open"} \/ pcS \notin {"wlock", "open"}
            BY <2>1 DEF SWlock, SPoll, SSee, SLock, SPop, SFits, SAppend, Ends, Run,
                fileVars, batchVars, gVars, saveVars, vars
        <3> QED
            BY <2>0, <3>1, <1>0 DEF Using
    <2>2. CASE SOpen
        <3>1. PICK f \in Stream : Fopen(f) /\ handle' = f
            BY <2>2 DEF SOpen
        <3>2. pcS = "open" /\ pcS' = "poll" /\ UNCHANGED batchVars
            BY <2>2, <3>1 DEF SOpen
        <3>3. stream'[f].open
            BY <1>0, <3>1 DEF Fopen, Opened, FileTypeOK
        <3> QED
            BY <2>0, <3>1, <3>2, <3>3, <1>0 DEF Using, batchVars
    <2>3. CASE SIdleFlush \/ SFull \/ SLate
        <3>1. /\ BatchCall("save", handle, buffer) /\ UNCHANGED <<stream, handle>>
              /\ pcS \in {"poll", "decide"} /\ pcS' \in {"idle", "batch"}
            BY <2>3 DEF SIdleFlush, SFull, SLate, gVars
        <3>2. bpc'["save"] = "check" /\ bfp'["save"] = handle
            BY <3>1, <1>0 DEF BatchCall
        <3> QED
            BY <2>0, <3>1, <3>2, <1>0 DEF Using
    <2>4. CASE SBatch
        <3>1. /\ UNCHANGED <<handle, pcS>> /\ pcS \in {"batch", "idle"}
              /\ BatchStep("save") /\ handle # NULL /\ Using("save", handle)
            BY <2>4 DEF SBatch, gVars, saveVars
        <3>2. Using("save", handle)'
            BY <3>1, <1>0, UsingStep
        <3> QED
            BY <2>0, <3>1, <3>2
    <2>5. CASE SReturn
        <3>1. /\ BatchReturn("save") /\ UNCHANGED <<stream, handle>>
              /\ pcS \in {"batch", "idle"} /\ pcS' \in {"append", "poll"}
            BY <2>5 DEF SReturn
        <3>2. bpc["save"] = "done" /\ bpc'["save"] = "idle"
            BY <3>1, <1>0 DEF BatchReturn
        <3> QED
            BY <2>0, <3>1, <3>2, <1>0 DEF Using
    <2>6. CASE SCancelled \/ SCancelledInBatch
        <3>1. /\ UNCHANGED <<handle, bpc, bfp>> /\ pcS # "ended" /\ pcS' = "ended"
              /\ UNCHANGED stream \/ FwriteCutShort("save")
              /\ pcS \notin {"none", "wlock", "open"} \/ pcS \in {"wlock", "open"}
            BY <2>6 DEF SCancelled, SCancelledInBatch, gVars, fileVars, batchVars, dirVars
        <3>2. pcM \notin {"flushing", "drain", "hlock", "hpop", "draining"}
            BY <3>1 DEF AftermathInv, Slept, Handler
        <3>3. \A f \in Stream : stream'[f].open = stream[f].open
            BY <3>1, <1>0, CutShortOpen
        <3> QED
            BY <2>0, <3>1, <3>2, <3>3, <1>0 DEF Using
    <2> QED
        BY <1>3, <2>1, <2>2, <2>3, <2>4, <2>5, <2>6 DEF SNext
<1>4. CASE Signal
    <2>1. /\ UNCHANGED <<bpc, bfp, stream, handle, pcS, again>>
          /\ pcM \in Main /\ pcM' = "cancel"
        BY <1>4 DEF Signal, fileVars, batchVars, gVars, saveVars
    <2> QED
        BY <2>1, <1>0 DEF Using, Main
<1>5. CASE SignalAgain
    <2>1. /\ UNCHANGED <<bpc, bfp, handle, pcS>> /\ pcM' = "cancel"
          /\ again = NULL
          /\ again' = IF pcM \in {"flushing", "draining"} /\ bpc["main"] = "open"
                      THEN "reopening" ELSE pcM
          /\ UNCHANGED stream \/ FwriteCutShort("main")
        BY <1>5 DEF SignalAgain, fileVars, batchVars, gVars, saveVars, dirVars
    <2>2. \A f \in Stream : stream'[f].open = stream[f].open
        BY <2>1, <1>0, CutShortOpen
    <2>3. pcM \in {"free", "exit"} => again' = pcM
        BY <2>1
    <2>4. again \notin {"reopening", "free", "exit"}
        BY <2>1, ServerAssumption DEF Handler
    <2> QED
        BY <2>1, <2>2, <2>3, <2>4, <1>0 DEF Using
<1>6. CASE HNext
    <2>0. /\ UNCHANGED <<pcS, handle, again>>
          /\ pcM \in Handler
        BY <1>6 DEF HNext, HCancel, HSleep, HJoinRecv, HJoinSave, HFlush, HBatch, HFlushed,
            HDrain, HLock, HPop, HDrained, HClose, HFree, HExit, saveVars, mainVars,
            signalVars, gVars, Handler
    <2>1. CASE HCancel \/ HSleep \/ HJoinRecv \/ HJoinSave \/ HDrain \/ HLock \/ HFree
                  \/ HExit
        <3>1. /\ UNCHANGED <<bpc, bfp, stream>>
              /\ pcM \notin {"flushing", "draining", "free"} \/ pcM' = "exit"
              /\ pcM' \notin {"flushing", "draining"}
              /\ pcM \in {"drain", "hlock"} \/ pcM' \notin {"drain", "hlock", "hpop"}
              /\ pcM # "exit"
            BY <2>1 DEF HCancel, HSleep, HJoinRecv, HJoinSave, HDrain, HLock, HFree, HExit,
                Ends, Run, fileVars, batchVars
        <3> QED
            BY <2>0, <3>1, <1>0 DEF Using
    <2>2. CASE HFlush \/ HPop
        <3>1. \/ /\ UNCHANGED batchVars /\ pcM' \in {"close", "drain"}
                 /\ pcM' = "drain" => handle # NULL
              \/ /\ \E t : BatchCall("main", handle, t)
                 /\ pcM' \in {"flushing", "draining"} /\ handle # NULL
            BY <2>2 DEF HFlush, HPop
        <3>2. UNCHANGED stream /\ pcM \in {"flush", "hpop"}
            BY <2>2 DEF HFlush, HPop
        <3>3. bpc'["save"] = bpc["save"] /\ bfp'["save"] = bfp["save"]
            BY <3>1, <1>0 DEF BatchCall, batchVars
        <3>4. pcM' \in {"flushing", "draining"} => bpc'["main"] = "check" /\ bfp'["main"] = handle
            BY <3>1, <1>0 DEF BatchCall
        <3> QED
            BY <2>0, <3>1, <3>2, <3>3, <3>4, <1>0 DEF Using
    <2>3. CASE HBatch
        <3>1. /\ pcM \in {"flushing", "draining"} /\ BatchStep("main") /\ pcM' = pcM
              /\ handle # NULL /\ pcS = "ended"
            BY <2>3, <2>0 DEF HBatch, mainVars, AftermathInv, Slept
        <3>2. bpc'["save"] = bpc["save"]
            BY <3>1, <1>0 DEF BatchStep, BCheckPasses, BStatFails, BRotate, BFwrite, BOk,
                BClose, BReopen, BReopenFails, Goto, Refused
        <3>3. ASSUME Using("main", handle) PROVE Using("main", handle)'
            BY <2>0, <3>1, <3>3, <1>0, UsingStep
        <3> QED
            BY <2>0, <3>1, <3>2, <3>3
    <2>4. CASE HFlushed \/ HDrained
        <3>1. /\ BatchReturn("main") /\ UNCHANGED stream
              /\ pcM \in {"flushing", "draining"} /\ pcM' = "drain"
            BY <2>4 DEF HFlushed, HDrained
        <3>2. /\ bpc["main"] = "done" /\ bpc'["save"] = bpc["save"]
              /\ bfp'["save"] = bfp["save"]
            BY <3>1, <1>0 DEF BatchReturn
        <3> QED
            BY <2>0, <3>1, <3>2, <1>0 DEF Using
    <2>5. CASE HClose
        <3>1. pcM' = "free" /\ UNCHANGED <<bpc, bfp>> /\ pcS = "ended"
            BY <2>5 DEF HClose, batchVars, AftermathInv, Slept, Handler
        <3> QED
            BY <2>0, <3>1
    <2> QED
        BY <1>6, <2>1, <2>2, <2>3, <2>4, <2>5 DEF HNext
<1>7. CASE UNCHANGED vars
    <2>1. UNCHANGED <<bpc, bfp, stream, handle, pcM, pcS, again>>
        BY <1>7 DEF vars, fileVars, batchVars, gVars, saveVars, mainVars, signalVars
    <2> QED
        BY <2>1, <1>0 DEF Using
<1> QED
    BY <1>1, <1>2, <1>3, <1>4, <1>5, <1>6, <1>7 DEF Next, Gone

-----------------------------------------------------------------------------
(* What ends the process.                                                   *)

\* A process that has ended stays as it is.
LEMMA GoneStays == ASSUME ~ Run, [Next]_vars PROVE UNCHANGED vars
<1> USE DEF Run
<1>1. ~ MNext /\ ~ Signal /\ ~ SignalAgain
    BY DEF MNext, MSocket, MCreateRecv, MCreateSave, MJoinRecv, MJoinSave, MTeardown,
        MReturn, Signal, SignalAgain
<1>2. ~ BatchStep("save") /\ ~ BatchStep("main")
    BY DEF BatchStep, BCheckPasses, BStatFails, BRotate, BFwrite, BOk, BClose, BReopen,
        BReopenFails, Checking
<1>3. ~ HNext
    BY <1>2 DEF HNext, HCancel, HSleep, HJoinRecv, HJoinSave, HFlush, HBatch, HFlushed,
        HDrain, HLock, HPop, HDrained, HClose, HFree, HExit
<1>4. ~ RNext
    BY DEF RNext, RStart, RMakeList, RRecv, RWait, REnd, RLock, RInsert, RUnlock, RCancelled
<1>5. ~ SNext
    BY <1>2 DEF SNext, SWlock, SOpen, SPoll, SIdleFlush, SSee, SLock, SPop, SFull, SLate,
        SFits, SBatch, SReturn, SAppend, SCancelled, SCancelledInBatch
<1> QED
    BY <1>1, <1>3, <1>4, <1>5 DEF Next, Gone

LEMMA CrashStep ==
    ASSUME TypeOK, StagesInv, AftermathInv, FileUsable, Prompt, OneStream, Faults = {},
           [Next]_vars, Run, proc' = "crash"
    PROVE  /\ \/ stopped \in {"socket", "createRecv", "createSave", "return"}
              \/ glist = "null" \/ bpc["save"] = "open"
              \/ again \in {"reopening", "free", "exit"}
           /\ UNCHANGED <<stopped, glist, again>> /\ bpc'["save"] = bpc["save"]
<1> DEFINE Excepted ==
        \/ stopped \in {"socket", "createRecv", "createSave", "return"}
        \/ glist = "null" \/ bpc["save"] = "open"
        \/ again \in {"reopening", "free", "exit"}
           Same == UNCHANGED <<stopped, glist, again>> /\ bpc'["save"] = bpc["save"]
<1> USE DEF Run
<1>0. /\ FileTypeOK /\ handle \in Stream \cup {NULL} /\ NULL \notin Stream
      /\ Writer = {"save", "main"} /\ glist \in {"null", "made", "freed"}
      /\ NULL # "exit"
    BY ServerAssumption, RpioWriteAssumption DEF TypeOK, RpioWriteAssumption, Handler
<1>1. ~ MNext
    <2>1. ASSUME MNext PROVE FALSE
        BY <2>1, MainWaits DEF MSocket, MCreateRecv, MCreateSave, fileVars
    <2> QED
        BY <2>1
<1>2. ~ Signal /\ ~ SignalAgain
    BY DEF Signal, SignalAgain, fileVars
<1>3. CASE RNext
    <2>1. pcR # "ended" /\ glist # "made" /\ Same
        BY <1>3 DEF RNext, RStart, RMakeList, RRecv, RWait, REnd, RLock, RInsert, RUnlock,
            RCancelled, Ends, fileVars, batchVars, gVars, mainVars, signalVars, vars
    <2>2. glist = "null"
        BY <1>0, <2>1 DEF AftermathInv, Slept, Handler
    <2> QED
        BY <2>1, <2>2
<1>4. CASE SNext
    <2>1. CASE SBatch
        <3>1. /\ pcS \in {"batch", "idle"} /\ BatchStep("save") /\ UNCHANGED handle
              /\ handle # NULL /\ Using("save", handle)
            BY <2>1 DEF SBatch, gVars, FileUsable
        <3>2. "open" \notin Faults /\ handle \in Stream
            BY <3>1, <1>0
        <3> QED
            BY <3>1, <3>2, <1>0, UsingStep
    <2>2. CASE ~ SBatch
        <3>1. pcS # "ended" /\ glist = "freed"
            BY <1>4, <2>2 DEF SNext, SWlock, SOpen, SPoll, SIdleFlush, SSee, SLock, SPop,
                SFull, SLate, SFits, SReturn, SAppend, SCancelled, SCancelledInBatch,
                fileVars, vars
        <3> QED
            BY <1>0, <3>1 DEF AftermathInv, Slept, Handler
    <2> QED
        BY <2>1, <2>2
<1>5. CASE HNext
    <2>0. pcM \in Handler /\ UNCHANGED signalVars
        BY <1>5 DEF HNext, HCancel, HSleep, HJoinRecv, HJoinSave, HFlush, HBatch, HFlushed,
            HDrain, HLock, HPop, HDrained, HClose, HFree, HExit, Handler, mainVars
    <2>1. CASE HCancel
        <3>1. "none" \in {pcR, pcS} /\ Same
            BY <2>0, <2>1 DEF HCancel, Ends, fileVars, batchVars, gVars, signalVars
        <3>2. Reached \in {"socket", "createRecv", "createSave"}
            BY <3>1 DEF StagesInv
        <3> QED
            BY <2>0, <3>1, <3>2 DEF Reached, Handler
    <2>2. CASE HDrain \/ HFree
        <3>1. pcM # "exit" /\ glist # "made" /\ Same
            BY <2>0, <2>2 DEF HDrain, HFree, Ends, fileVars, batchVars, gVars, signalVars
        <3> QED
            BY <1>0, <3>1 DEF AftermathInv
    <2>3. CASE HBatch
        <3>1. /\ pcM \in {"flushing", "draining"} /\ BatchStep("main")
              /\ handle # NULL /\ pcS = "ended" /\ glist' = glist
              /\ UNCHANGED handle
            BY <2>3 DEF HBatch, gVars, AftermathInv, Slept, Handler, FileUsable
        <3>2. bpc'["save"] = bpc["save"]
            BY <3>1, <1>0 DEF BatchStep, BCheckPasses, BStatFails, BRotate, BFwrite, BOk,
                BClose, BReopen, BReopenFails, Goto, Refused, FileTypeOK
        <3>3. ~ Using("main", handle)
            BY <3>1, <1>0, UsingStep
        <3> QED
            BY <2>0, <3>1, <3>2, <3>3 DEF FileUsable, signalVars
    <2>4. CASE HClose
        <3>1. pcM = "close" /\ pcS = "ended" /\ Same /\ closeRPIOFile(handle)
            BY <2>0, <2>4 DEF HClose, gVars, batchVars, signalVars, AftermathInv, Slept,
                Handler
        <3>2. handle # NULL /\ ~ stream[handle].open
            BY <3>1 DEF closeRPIOFile
        <3> QED
            BY <3>1, <3>2 DEF FileUsable
    <2>5. CASE HSleep \/ HJoinRecv \/ HJoinSave \/ HFlush \/ HFlushed \/ HLock \/ HPop
               \/ HDrained \/ HExit
        BY <2>5 DEF HSleep, HJoinRecv, HJoinSave, HFlush, HFlushed, HLock, HPop, HDrained,
            HExit, Ends, fileVars
    <2> QED
        BY <1>5, <2>1, <2>2, <2>3, <2>4, <2>5 DEF HNext
<1>6. CASE UNCHANGED vars
    BY <1>6 DEF vars, fileVars
<1> QED
    BY <1>1, <1>2, <1>3, <1>4, <1>5, <1>6 DEF Next, Gone

LEMMA ShutdownStep ==
    ASSUME ServerInv, ShutdownInv, Prompt, OneStream, Faults = {}, [Next]_vars
    PROVE  ShutdownInv'
<1> USE DEF ShutdownInv
<1>1. StagesInv' /\ AftermathInv'
    BY StagesStep, AftermathStep
<1>2. CASE ~ Run
    <2>1. UNCHANGED vars
        BY <1>2, GoneStays
    <2>2. NoCrash' /\ ~ Run'
        BY <1>2, <2>1 DEF vars, fileVars, batchVars, gVars, mainVars, signalVars, NoCrash,
            Run
    <2> QED
        BY <1>1, <2>2
<1>3. CASE Run
    <2>1. Run' => FileUsable'
        BY <1>3, UsableStep DEF ServerInv
    <2>2. NoCrash'
        BY <1>3, CrashStep DEF ServerInv, NoCrash
    <2> QED
        BY <1>1, <2>1, <2>2
<1> QED
    BY <1>2, <1>3

(* Once the server is up a signal does not crash it, nor does a second one but *)
(* after the first ExitProcess has closed the file or while it reopens it      *)
(* (serverMain.c:9-34), provided that a cancelled thread ends within the       *)
(* second, that no call fails and that malloc returns the block just freed.    *)
THEOREM SignalsDoNotCrash ==
    ASSUME OneStream, Prompt, Faults = {}
    PROVE  Spec => []NoCrash
<1> DEFINE Inv == ServerInv /\ ShutdownInv
<1>1. Init => Inv
    BY InitInv, InitShutdown
<1>2. Inv /\ [Next]_vars => Inv'
    BY InvStep, ShutdownStep
<1>3. Inv => NoCrash
    BY DEF ShutdownInv
<1> QED
    BY <1>1, <1>2, <1>3, PTL DEF Spec

-----------------------------------------------------------------------------
(* What the files hold after ExitProcess: sequences with a chunk left out   *)
(* and with chunks repeated.                                               *)

\* A concatenation is cut where its parts meet.
LEMMA Parts ==
    ASSUME NEW S, NEW p \in Seq(S), NEW q \in Seq(S)
    PROVE  /\ SubSeq(Cat(p, q), 1, Len(p)) = p
           /\ SubSeq(Cat(p, q), Len(p) + 1, Len(Cat(p, q))) = q
<1> DEFINE a == Cat(p, q)
<1>1. /\ a \in Seq(S) /\ Len(a) = Len(p) + Len(q)
      /\ Len(p) \in Nat /\ Len(q) \in Nat
      /\ \A i \in 1 .. Len(p) + Len(q) : a[i] = IF i <= Len(p) THEN p[i] ELSE q[i - Len(p)]
    BY ConcatProperties, LenProperties DEF Cat
<1> HIDE DEF a
<1>2. \A i \in 1 .. Len(a) : a[i] \in S
    BY <1>1, ElementOfSeq
<1>3. SubSeq(a, 1, Len(p)) = p
    <2> DEFINE b == SubSeq(a, 1, Len(p))
    <2>1. /\ 1 \in Int /\ Len(p) \in Int
          /\ \A i \in 1 .. Len(p) : a[i] \in S
        BY <1>1, <1>2
    <2>2. /\ b \in Seq(S) /\ Len(b) = Len(p)
          /\ \A i \in 1 .. Len(p) : b[i] = a[i]
        BY <1>1, <2>1, SubSeqProperties
    <2> HIDE DEF b
    <2>3. \A i \in 1 .. Len(b) : b[i] = p[i]
        BY <1>1, <2>2
    <2> QED
        BY <2>2, <2>3, SeqEqual DEF b
<1>4. SubSeq(a, Len(p) + 1, Len(a)) = q
    <2> DEFINE b == SubSeq(a, Len(p) + 1, Len(a))
               m == Len(p) + 1
    <2>1. /\ m \in Int /\ Len(a) \in Int
          /\ \A i \in m .. Len(a) : a[i] \in S
        BY <1>1, <1>2
    <2>2. /\ b \in Seq(S) /\ Len(b) = Len(q)
          /\ \A i \in 1 .. Len(q) : b[i] = a[Len(p) + i]
        <3>1. /\ SubSeq(a, m, Len(a)) \in Seq(S)
              /\ Len(SubSeq(a, m, Len(a))) = IF m <= Len(a) THEN Len(a) - m + 1 ELSE 0
              /\ \A i \in 1 .. Len(a) - m + 1 : SubSeq(a, m, Len(a))[i] = a[m + i - 1]
            BY <2>1, SubSeqProperties
        <3>2. \A i \in 1 .. Len(q) : i \in 1 .. Len(a) - m + 1 /\ m + i - 1 = Len(p) + i
            BY <1>1
        <3> QED
            BY <1>1, <3>1, <3>2
    <2> HIDE DEF b
    <2>3. ASSUME NEW i \in 1 .. Len(b) PROVE b[i] = q[i]
        <3>1. i \in 1 .. Len(q) /\ Len(p) + i \in 1 .. Len(p) + Len(q) /\ Len(p) + i > Len(p)
              /\ Len(p) + i - Len(p) = i
            BY <1>1, <2>2
        <3>2. a[Len(p) + i] = q[Len(p) + i - Len(p)]
            BY <1>1, <3>1
        <3>3. b[i] = a[Len(p) + i]
            BY <2>2, <3>1
        <3> QED
            BY <3>1, <3>2, <3>3
    <2> QED
        BY <2>2, <2>3, SeqEqual DEF b
<1> QED
    BY <1>3, <1>4 DEF a

\* Where chunks are left out of t and what is on either side of them.
LEMMA WithoutParts ==
    ASSUME NEW S, NEW t \in Seq(S), NEW l \in Seq(S), NEW s \in Without(t, l)
    PROVE  \E p, q \in Seq(S) : t = Cat(p, Cat(l, q)) /\ s = Cat(p, q)
<1>1. PICK j \in 0 .. Len(t) - Len(l) :
        /\ SubSeq(t, j + 1, j + Len(l)) = l
        /\ s = SubSeq(t, 1, j) \o SubSeq(t, j + Len(l) + 1, Len(t))
    BY DEF Without
<1> DEFINE k == j + Len(l)
           p == SubSeq(t, 1, j)
           q == SubSeq(t, k + 1, Len(t))
<1>2. Len(t) \in Nat /\ Len(l) \in Nat /\ j \in Nat /\ k \in Nat /\ j <= k /\ k <= Len(t)
    BY <1>1, LenProperties
<1>3. p \in Seq(S) /\ q \in Seq(S)
    <2>1. j \in 0 .. Len(t) /\ k \in 0 .. Len(t)
        BY <1>2
    <2> QED
        BY <2>1, SubSeqType
<1>4. Cat(l, q) = SubSeq(t, j + 1, Len(t))
    <2>1. j + 1 \in 1 .. Len(t) + 1 /\ k \in (j + 1) - 1 .. Len(t) /\ Len(t) \in k .. Len(t)
        BY <1>2
    <2>2. SubSeq(t, j + 1, k) \o SubSeq(t, k + 1, Len(t)) = SubSeq(t, j + 1, Len(t))
        BY <2>1, ConcatAdjacentSubSeq
    <2> QED
        BY <1>1, <2>2 DEF Cat
<1>5. Cat(p, SubSeq(t, j + 1, Len(t))) = t
    <2>1. j \in 0 .. Len(t)
        BY <1>2
    <2> QED
        BY <2>1, SubSeqCut DEF Cat
<1> QED
    BY <1>1, <1>3, <1>4, <1>5 DEF Cat

LEMMA WithoutMiddle ==
    ASSUME NEW S, NEW p \in Seq(S), NEW l \in Seq(S), NEW q \in Seq(S)
    PROVE  Cat(p, q) \in Without(Cat(p, Cat(l, q)), l)
<1> DEFINE t == Cat(p, Cat(l, q))
           j == Len(p)
           k == j + Len(l)
<1>1. /\ Len(p) \in Nat /\ Len(q) \in Nat /\ Len(l) \in Nat
      /\ Cat(l, q) \in Seq(S) /\ Cat(p, l) \in Seq(S) /\ t \in Seq(S)
      /\ t = Cat(Cat(p, l), q) /\ Len(Cat(p, l)) = k
      /\ Len(Cat(l, q)) = Len(l) + Len(q)
      /\ Len(t) = Len(p) + (Len(l) + Len(q))
    <2>1. Cat(l, q) \in Seq(S) /\ Cat(p, l) \in Seq(S)
        BY CatType
    <2>2. t \in Seq(S) /\ Len(t) = Len(p) + Len(Cat(l, q))
        BY <2>1, CatType, CatLonger
    <2>3. \A x, y, z \in Seq(S) : Cat(Cat(x, y), z) = Cat(x, Cat(y, z))
        BY CatAssociative
    <2>4. \A x, y \in Seq(S) : Len(Cat(x, y)) = Len(x) + Len(y)
        BY CatLonger
    <2>5. Len(p) \in Nat /\ Len(q) \in Nat /\ Len(l) \in Nat
        BY LenProperties
    <2> QED
        BY <2>1, <2>2, <2>3, <2>4, <2>5
<1>2. SubSeq(t, 1, j) = p /\ SubSeq(t, k + 1, Len(t)) = q
    <2>1. SubSeq(t, 1, j) = p
        BY <1>1, Parts
    <2>2. SubSeq(Cat(Cat(p, l), q), Len(Cat(p, l)) + 1, Len(Cat(Cat(p, l), q))) = q
        BY <1>1, Parts
    <2> QED
        BY <1>1, <2>1, <2>2
<1>3. SubSeq(t, j + 1, k) = l
    <2>1. SubSeq(t, 1, k) = Cat(p, l)
        <3>1. SubSeq(Cat(Cat(p, l), q), 1, Len(Cat(p, l))) = Cat(p, l)
            BY <1>1, Parts
        <3> QED
            BY <1>1, <3>1
    <2>2. SubSeq(t, 1, j) \o SubSeq(t, j + 1, k) = SubSeq(t, 1, k)
        <3>1. 1 \in 1 .. Len(t) + 1 /\ j \in 1 - 1 .. Len(t) /\ k \in j .. Len(t)
            BY <1>1
        <3> QED
            BY <1>1, <3>1, ConcatAdjacentSubSeq
    <2>3. SubSeq(t, j + 1, k) \in Seq(S)
        <3>1. j + 1 \in Int /\ k \in Int /\ \A i \in j + 1 .. k : t[i] \in S
            <4>1. \A i \in 1 .. Len(t) : t[i] \in S
                BY <1>1, ElementOfSeq
            <4> QED
                BY <1>1, <4>1
        <3> QED
            BY <3>1, SubSeqProperties
    <2>4. p \o SubSeq(t, j + 1, k) = p \o l
        BY <1>2, <2>1, <2>2 DEF Cat
    <2> HIDE DEF t, j, k
    <2> QED
        BY <2>3, <2>4, ConcatSimplifications
<1>4. j \in 0 .. Len(t) - Len(l)
    BY <1>1
<1> HIDE DEF t, j
<1>5. Cat(p, q) \in Without(t, l)
    BY <1>2, <1>3, <1>4 DEF Without, Cat
<1> QED
    BY <1>5 DEF t

LEMMA WithoutGrows ==
    ASSUME NEW S, NEW t \in Seq(S), NEW l \in Seq(S), NEW u \in Seq(S), NEW s \in Without(t, l)
    PROVE  Cat(s, u) \in Without(Cat(t, u), l)
<1>1. PICK p, q \in Seq(S) : t = Cat(p, Cat(l, q)) /\ s = Cat(p, q)
    BY WithoutParts
<1>2. Cat(l, q) \in Seq(S) /\ Cat(q, u) \in Seq(S)
    BY CatType
<1>5. \A x, y, z \in Seq(S) : Cat(Cat(x, y), z) = Cat(x, Cat(y, z))
    BY CatAssociative
<1>3. Cat(s, u) = Cat(p, Cat(q, u))
    BY <1>1, <1>2, <1>5
<1>4. Cat(t, u) = Cat(p, Cat(l, Cat(q, u)))
    <2>1. Cat(t, u) = Cat(p, Cat(Cat(l, q), u))
        BY <1>1, <1>2, <1>5
    <2> QED
        BY <1>2, <1>5, <2>1
<1> QED
    BY <1>2, <1>3, <1>4, WithoutMiddle

\* The chunks repeated, and what comes before and after them.
LEMMA RepeatsParts ==
    ASSUME NEW S, NEW t \in Seq(S), NEW s, NEW n \in Nat, Repeats(s, t, n)
    PROVE  \E p, d, q \in Seq(S) :
                /\ t = Cat(p, Cat(d, q)) /\ s = Cat(Cat(p, d), Cat(d, q))
                /\ Len(d) <= n
<1>1. PICK i \in 0 .. Len(t), k \in 0 .. Len(t) :
            /\ i <= k /\ k <= i + n
            /\ s = SubSeq(t, 1, k) \o SubSeq(t, i + 1, Len(t))
    BY DEF Repeats
<1> DEFINE p == SubSeq(t, 1, i)
           d == SubSeq(t, i + 1, k)
           q == SubSeq(t, k + 1, Len(t))
<1>2. Len(t) \in Nat /\ i \in Nat /\ k \in Nat
    BY LenProperties
<1>3. p \in Seq(S) /\ q \in Seq(S)
    BY SubSeqType
<1>4. d \in Seq(S) /\ Len(d) <= n
    <2>1. i + 1 \in Int /\ k \in Int /\ \A j \in i + 1 .. k : t[j] \in S
        <3>1. \A j \in 1 .. Len(t) : t[j] \in S
            BY ElementOfSeq
        <3> QED
            BY <1>1, <1>2, <3>1
    <2>2. d \in Seq(S) /\ Len(d) = IF i + 1 <= k THEN k - (i + 1) + 1 ELSE 0
        BY <2>1, SubSeqProperties
    <2> QED
        BY <1>1, <1>2, <2>2
<1>5. Cat(p, d) = SubSeq(t, 1, k)
    <2>1. 1 \in 1 .. Len(t) + 1 /\ i \in 1 - 1 .. Len(t) /\ k \in i .. Len(t)
        BY <1>1, <1>2
    <2> QED
        BY <2>1, ConcatAdjacentSubSeq DEF Cat
<1>6. Cat(d, q) = SubSeq(t, i + 1, Len(t))
    <2>1. i + 1 \in 1 .. Len(t) + 1 /\ k \in (i + 1) - 1 .. Len(t) /\ Len(t) \in k .. Len(t)
        BY <1>1, <1>2
    <2> QED
        BY <2>1, ConcatAdjacentSubSeq DEF Cat
<1>7. Cat(p, SubSeq(t, i + 1, Len(t))) = t
    BY SubSeqCut DEF Cat
<1> HIDE DEF p, d, q
<1> QED
    BY <1>1, <1>3, <1>4, <1>5, <1>6, <1>7 DEF Cat

LEMMA RepeatsMiddle ==
    ASSUME NEW S, NEW p \in Seq(S), NEW d \in Seq(S), NEW q \in Seq(S), NEW n \in Nat,
           Len(d) <= n
    PROVE  Repeats(Cat(Cat(p, d), Cat(d, q)), Cat(p, Cat(d, q)), n)
<1> DEFINE t == Cat(p, Cat(d, q))
           i == Len(p)
           k == Len(p) + Len(d)
<1>1. /\ Len(p) \in Nat /\ Len(q) \in Nat /\ Len(d) \in Nat
      /\ Cat(d, q) \in Seq(S) /\ Cat(p, d) \in Seq(S) /\ t \in Seq(S)
      /\ t = Cat(Cat(p, d), q) /\ Len(Cat(p, d)) = k
      /\ Len(t) = Len(p) + (Len(d) + Len(q))
    <2>1. Cat(d, q) \in Seq(S) /\ Cat(p, d) \in Seq(S)
        BY CatType
    <2>2. t \in Seq(S) /\ Len(t) = Len(p) + Len(Cat(d, q))
        BY <2>1, CatType, CatLonger
    <2>3. \A x, y, z \in Seq(S) : Cat(Cat(x, y), z) = Cat(x, Cat(y, z))
        BY CatAssociative
    <2>4. \A x, y \in Seq(S) : Len(Cat(x, y)) = Len(x) + Len(y)
        BY CatLonger
    <2>5. Len(p) \in Nat /\ Len(q) \in Nat /\ Len(d) \in Nat
        BY LenProperties
    <2> QED
        BY <2>1, <2>2, <2>3, <2>4, <2>5
<1>2. SubSeq(t, 1, k) = Cat(p, d)
    <2>1. SubSeq(Cat(Cat(p, d), q), 1, Len(Cat(p, d))) = Cat(p, d)
        BY <1>1, Parts
    <2> QED
        BY <1>1, <2>1
<1>3. SubSeq(t, i + 1, Len(t)) = Cat(d, q)
    BY <1>1, Parts
<1>4. i \in 0 .. Len(t) /\ k \in 0 .. Len(t) /\ i <= k /\ k <= i + n
    BY <1>1
<1> HIDE DEF t, i, k
<1>5. Repeats(Cat(Cat(p, d), Cat(d, q)), t, n)
    BY <1>2, <1>3, <1>4 DEF Repeats, Cat
<1> QED
    BY <1>5 DEF t

LEMMA RepeatsGrows ==
    ASSUME NEW S, NEW t \in Seq(S), NEW u \in Seq(S), NEW s, NEW n \in Nat, Repeats(s, t, n)
    PROVE  Repeats(Cat(s, u), Cat(t, u), n)
<1>1. PICK p, d, q \in Seq(S) :
                /\ t = Cat(p, Cat(d, q)) /\ s = Cat(Cat(p, d), Cat(d, q))
                /\ Len(d) <= n
    BY RepeatsParts
<1>2. Cat(d, q) \in Seq(S) /\ Cat(q, u) \in Seq(S) /\ Cat(p, d) \in Seq(S)
    BY CatType
<1>5. \A x, y, z \in Seq(S) : Cat(Cat(x, y), z) = Cat(x, Cat(y, z))
    BY CatAssociative
<1>3. Cat(t, u) = Cat(p, Cat(d, Cat(q, u)))
    <2>1. Cat(t, u) = Cat(p, Cat(Cat(d, q), u))
        BY <1>1, <1>2, <1>5
    <2> QED
        BY <1>2, <1>5, <2>1
<1>4. Cat(s, u) = Cat(Cat(p, d), Cat(d, Cat(q, u)))
    <2>1. Cat(s, u) = Cat(Cat(p, d), Cat(Cat(d, q), u))
        BY <1>1, <1>2, <1>5
    <2> QED
        BY <1>2, <1>5, <2>1
<1> QED
    BY <1>1, <1>2, <1>3, <1>4, RepeatsMiddle

-----------------------------------------------------------------------------
(* ExitProcess keeps the data.  First the server before the saving thread   *)
(* has been cancelled.                                                      *)

KeptApart == handle # NULL /\ Accounted /\ InOrder /\ FlushInv

LEMMA KeepTypes ==
    ASSUME TypeOK
    PROVE  /\ "save" \in Writer /\ "main" \in Writer /\ "save" # "main" /\ FileTypeOK
           /\ DOMAIN bpc = Writer /\ DOMAIN bfp = Writer /\ DOMAIN bdata = Writer
           /\ bdata["save"] \in Seq(Chunks) /\ written \in Seq(Chunks)
           /\ handled \in Seq(Chunks) /\ buffer \in Seq(Chunks) /\ hgot \in Seq(Chunks)
           /\ got \in Seq(Chunks) /\ list \in Seq(Chunks) /\ accepted \in Seq(Chunks)
           /\ item \in Seq(Chunks) /\ stream \in [Stream -> Stdio]
           /\ handle \in Stream \cup {NULL}
BY ChunkType, ServerAssumption DEF TypeOK, FileTypeOK, Stdio

\* A thread that has not been cancelled is there until sleep(1) is over.
LEMMA NotYet ==
    ASSUME AftermathInv, Prompt, pcS # "ended" \/ pcR # "ended"
    PROVE  /\ pcM \notin {"hjoinRecv", "hjoinSave", "flush", "flushing", "drain", "hlock",
                          "hpop", "draining", "close", "free", "exit"}
           /\ again \notin {"flush", "flushing", "drain", "hlock", "hpop", "draining",
                            "close", "free", "exit", "hjoinRecv", "hjoinSave"}
BY ServerAssumption DEF AftermathInv, Slept, Handler

LEMMA BeforeStep ==
    ASSUME ServerInv, ShutdownInv, FileInv, KeepInv, Run, Prompt, OneStream, Faults = {},
           [Next]_vars, torn' = NULL
    PROVE  pcS' # "ended" /\ SavingInv'
<1>1. torn = NULL
    BY ServerAssumption DEF Next, MNext, MSocket, MCreateRecv, MCreateSave, MJoinRecv,
        MJoinSave, MTeardown, MReturn, Signal, SignalAgain, HNext, HCancel, HSleep,
        HJoinRecv, HJoinSave, HFlush, HBatch, HFlushed, HDrain, HLock, HPop, HDrained,
        HClose, HFree, HExit, RNext, RStart, RMakeList, RRecv, RWait, REnd, RLock, RInsert,
        RUnlock, RCancelled, SNext, SWlock, SOpen, SPoll, SIdleFlush, SSee, SLock, SPop,
        SFull, SLate, SFits, SBatch, SReturn, SAppend, SCancelled, SCancelledInBatch, Gone,
        histVars, vars
<1>2. /\ pcS # "ended" /\ SavingInv
      /\ TypeOK /\ HandInv /\ StagesInv /\ AftermathInv
    BY <1>1 DEF KeepInv, ServerInv, ShutdownInv
<1>3. CASE MNext
    <2>1. MSocket \/ MCreateRecv \/ MCreateSave
        BY <1>2, <1>3, MainWaits
    <2> QED
        BY <1>2, <2>1, SavingRest DEF HandInv, MSocket, MCreateRecv, MCreateSave, Ends,
            gVars, saveVars, histVars, fileVars, dirVars
<1>4. CASE RNext
    BY <1>2, <1>4, SavingRest DEF RNext, RStart, RMakeList, RRecv, RWait, REnd, RLock,
        RInsert, RUnlock, RCancelled, Ends, vars, fileVars, dirVars, gVars, saveVars,
        histVars
<1>5. CASE SNext
    BY <1>2, <1>5, SavingThread
<1>6. CASE Signal \/ SignalAgain
    <2>1. hgot = <<>> /\ pcM \notin {"flushing", "draining"}
        BY <1>2, NotYet DEF HandInv
    <2>2. UNCHANGED <<present, cur, stream, batchVars, written, handle, buffer, pcS>>
        BY <1>6, <2>1 DEF Signal, SignalAgain, fileVars, dirVars, gVars, saveVars
    <2>3. handled' = handled
        <3>1. handled \o <<>> = handled
            BY <1>2, KeepTypes, ConcatEmptySeq
        <3> QED
            BY <1>6, <2>1, <3>1 DEF Signal, SignalAgain, histVars
    <2> QED
        BY <1>2, <2>2, <2>3, SavingRest
<1>7. CASE HNext
    <2>1. HCancel
        BY <1>2, <1>7, NotYet DEF HNext, HCancel, HSleep, HJoinRecv, HJoinSave, HFlush,
            HBatch, HFlushed, HDrain, HLock, HPop, HDrained, HClose, HFree, HExit
    <2> QED
        BY <1>2, <2>1, SavingRest DEF HCancel, Ends, gVars, saveVars, histVars, fileVars,
            dirVars
<1>8. CASE UNCHANGED vars
    BY <1>2, <1>8, SavingRest DEF vars, fileVars, dirVars, gVars, saveVars, histVars
<1> QED
    BY <1>3, <1>4, <1>5, <1>6, <1>7, <1>8 DEF Next, Gone

\* Without failures the process exits at the end of ExitProcess.
LEMMA ExitStep ==
    ASSUME ServerInv, ShutdownInv, Run, Faults = {}, [Next]_vars, proc' = "exit"
    PROVE  pcM' = "exit"
<1>1. StagesInv /\ FileTypeOK
    BY DEF ShutdownInv, ServerInv, TypeOK
<1>2. ~ MNext
    BY <1>1, MainWaits DEF MSocket, MCreateRecv, MCreateSave, fileVars, Run
<1>3. ~ BatchStep("save") /\ ~ BatchStep("main")
    BY DEF BatchStep, BCheckPasses, BStatFails, BRotate, BFwrite, BOk, BClose, BReopen,
        BReopenFails, closeRPIOFile, Misuse, Run
<1>4. ~ RNext /\ ~ SNext
    BY <1>3 DEF RNext, RStart, RMakeList, RRecv, RWait, REnd, RLock, RInsert, RUnlock,
        RCancelled, SNext, SWlock, SOpen, SPoll, SIdleFlush, SSee, SLock, SPop, SFull,
        SLate, SFits, SBatch, SReturn, SAppend, SCancelled, SCancelledInBatch, Ends, Run,
        vars, fileVars
<1>5. ~ Signal /\ ~ SignalAgain /\ ~ UNCHANGED vars
    BY DEF Signal, SignalAgain, vars, fileVars, Run
<1>6. HNext
    BY <1>2, <1>4, <1>5 DEF Next, Gone
<1>7. HExit
    BY <1>3, <1>6 DEF HNext, HCancel, HSleep, HJoinRecv, HJoinSave, HFlush, HBatch,
        HFlushed, HDrain, HLock, HPop, HDrained, HClose, HFree, HExit, closeRPIOFile,
        Misuse, Ends, fileVars, Run
<1> QED
    BY <1>7 DEF HExit, mainVars

\* A batch cut short has begun to be written.
LEMMA CutShortWrites ==
    ASSUME TypeOK, FwriteCutShort("save")
    PROVE  /\ bpc["save"] = "fwrite"
           /\ \E k \in 0 .. Len(bdata["save"]) :
                    written' = Cat(written, SubSeq(bdata["save"], 1, k))
<1>1. PICK k \in 1 .. Len(bdata["save"]) - 1 :
            Fwrite(bfp["save"], SubSeq(bdata["save"], 1, k))
    BY DEF FwriteCutShort
<1>2. Len(bdata["save"]) \in Nat
    BY KeepTypes, LenProperties
<1>3. k \in 0 .. Len(bdata["save"])
    BY <1>2
<1>4. written' = Cat(written, SubSeq(bdata["save"], 1, k))
    BY <1>1 DEF Fwrite, Cat
<1>5. bpc["save"] = "fwrite"
    BY DEF FwriteCutShort
<1> QED
    BY <1>3, <1>4, <1>5

\* The saving thread is cancelled: it takes along what it has in hand, and leaves
\* behind what it has begun to write.
LEMMA TearStep ==
    ASSUME ServerInv, ShutdownInv, KeepInv, Prompt, torn = NULL, Saved',
           SCancelled \/ SCancelledInBatch
    PROVE  KeptApart'
<1>0. /\ pcS # "ended" /\ SavingInv /\ HandInv /\ AftermathInv /\ TypeOK
      /\ handle \in Stream \cup {NULL}
    BY KeepTypes DEF KeepInv, ServerInv, ShutdownInv
<1> DEFINE h == handled
           b == buffer
           D == bdata["save"]
<1>t. /\ h \in Seq(Chunks) /\ b \in Seq(Chunks) /\ D \in Seq(Chunks) /\ got \in Seq(Chunks)
      /\ list \in Seq(Chunks) /\ written \in Seq(Chunks)
      /\ <<>> \in Seq(Chunks) /\ Len(D) \in Nat
    BY <1>0, KeepTypes, LenProperties
<1>1. /\ pcM \notin {"flush", "flushing", "drain", "hlock", "hpop", "draining", "close",
                     "free", "exit"}
      /\ again \notin {"close", "free", "exit"}
    BY <1>0, NotYet
<1>2. hgot # <<>> => pcM = "draining"
    BY <1>0 DEF HandInv
<1>h. hgot = <<>>
    BY <1>1, <1>2
<1>3. /\ UNCHANGED <<handle, buffer, list, pcM, hgot, again, got, handled, accepted>>
      /\ UNCHANGED batchVars /\ torn' = pcS
    BY DEF SCancelled, SCancelledInBatch, fileVars, gVars, mainVars, signalVars
<1>4. torn' \in {"poll", "idle", "batch"} /\ handle # NULL
    BY <1>0, <1>3 DEF Saved, SavingInv
<1>5. InHand = b /\ InHand' = b /\ Unwritten' = b /\ FlushInv'
    <2>1. buffer \o <<>> = buffer
        BY <1>t, ConcatEmptySeq
    <2>2. InHand = b /\ InHand' = b
        BY <1>3, <1>h, <2>1 DEF InHand
    <2>3. Unwritten' = b
        BY <1>1, <1>3, <2>2 DEF Unwritten
    <2>4. FlushInv'
        BY <1>1, <1>3 DEF FlushInv, Emptied
    <2> QED
        BY <2>2, <2>3, <2>4
<1>6. Accounted'
    <2>1. accepted = Cat(Cat(Cat(h, b), got), list)
        <3>1. accepted = Cat(Cat(Cat(Cat(h, b), got), <<>>), list)
            BY <1>h, ServerAssumption DEF ServerInv, Conservation, Exclusive, Cat
        <3>2. Cat(Cat(Cat(h, b), got), <<>>) = Cat(Cat(h, b), got)
            BY <1>t, CatType, CatEmpty
        <3> QED
            BY <3>1, <3>2
    <2>2. Lost' = IF pcS = "batch" THEN got ELSE <<>>
        BY <1>3 DEF Lost
    <2>3. Lost' = got
        BY <1>0, <1>3, <1>4, <2>2, ServerAssumption DEF HandInv
    <2>4. Cat(h, b) \in Seq(Chunks)
        BY <1>t, CatType
    <2>5. accepted = Cat(Cat(h, b), Cat(got, list))
        <3>1. \A x, y, z \in Seq(Chunks) : Cat(Cat(x, y), z) = Cat(x, Cat(y, z))
            BY CatAssociative
        <3> QED
            BY <1>t, <2>1, <2>4, <3>1
    <2>6. Cat(Cat(h, b), list) \in Without(accepted, got)
        BY <1>t, <2>4, <2>5, WithoutMiddle
    <2> QED
        BY <1>3, <1>5, <2>3, <2>6 DEF Accounted, Cat
<1>7. Cat(written, Left("save", b)) = Cat(h, b)
    BY <1>0 DEF SavingInv, Cat
<1>e. Cat(b, <<>>) = b /\ Cat(<<>>, b) = b /\ Cat(h, <<>>) = h /\ Cat(written, <<>>) = written
      /\ Cat(Cat(h, b), <<>>) = Cat(h, b) /\ Cat(h, b) \in Seq(Chunks)
    BY <1>t, CatType, CatEmpty
<1>8. CASE SCancelled
    <2>1. pcS = "poll" /\ bpc["save"] = "idle" /\ written' = written
        BY <1>0, <1>3, <1>4, <1>8 DEF SCancelled, SavingInv, fileVars
    <2>2. Cat(written, b) = Cat(h, b) /\ Overlap' = 0
        BY <1>3, <1>7, <2>1 DEF Left, Overlap
    <2>3. Repeats(Cat(Cat(Cat(h, b), <<>>), Cat(<<>>, <<>>)), Cat(Cat(h, b), Cat(<<>>, <<>>)), 0)
        <3>1. Len(<<>>) <= 0 /\ 0 \in Nat
            OBVIOUS
        <3> QED
            BY <1>t, <1>e, <3>1, RepeatsMiddle
    <2>4. Cat(<<>>, <<>>) = <<>>
        BY <1>t, CatEmpty
    <2>5. Repeats(Cat(h, b), Cat(h, b), 0)
        BY <1>e, <2>3, <2>4
    <2>6. InOrder'
        BY <1>3, <1>5, <2>1, <2>2, <2>5 DEF InOrder, Cat
    <2> QED
        BY <1>3, <1>4, <1>5, <1>6, <2>6 DEF KeptApart
<1>9. CASE SCancelledInBatch
    <2>1. bpc["save"] # "idle" /\ bpc["save"] # "done" /\ D = b /\ pcS \in {"batch", "idle"}
        BY <1>0, <1>9 DEF SCancelledInBatch, SavingInv, Batching
    <2>2. Overlap' = Len(b)
        BY <1>3, <2>1 DEF Overlap, batchVars
    <2>3. SUFFICES Repeats(Cat(written', b), Cat(h, b), Len(b))
        BY <1>3, <1>4, <1>5, <1>6, <2>2 DEF KeptApart, InOrder, Cat
    <2>4. CASE bpc["save"] = "ok"
        <3>1. written = Cat(h, b)
            BY <1>7, <1>e, <2>4 DEF Left
        <3>2. written' = written
            BY <1>0, <1>9, <2>4, CutShortWrites DEF SCancelledInBatch
        <3>3. Repeats(Cat(Cat(h, b), Cat(b, <<>>)), Cat(h, Cat(b, <<>>)), Len(b))
            <4>1. Len(b) \in Nat /\ Len(b) <= Len(b)
                BY <1>t, LenProperties
            <4> QED
                BY <1>t, <4>1, RepeatsMiddle
        <3> QED
            BY <1>e, <3>1, <3>2, <3>3
    <2>5. CASE bpc["save"] # "ok"
        <3>1. Cat(written, b) = Cat(h, b)
            BY <1>7, <2>1, <2>5 DEF Left
        <3>2. PICK k \in 0 .. Len(b) : written' = Cat(written, SubSeq(b, 1, k))
            <4>1. CASE written' = written
                <5>1. SubSeq(b, 1, 0) = <<>> /\ 0 \in 0 .. Len(b)
                    BY <1>t, <2>1, SubSeqEmpty
                <5> QED
                    BY <1>e, <4>1, <5>1
            <4>2. CASE FwriteCutShort("save")
                BY <1>0, <2>1, <4>2, CutShortWrites
            <4> QED
                BY <1>9, <4>1, <4>2 DEF SCancelledInBatch
        <3> DEFINE d == SubSeq(b, 1, k)
                   q == SubSeq(b, k + 1, Len(b))
        <3>3. d \in Seq(Chunks) /\ q \in Seq(Chunks) /\ b = Cat(d, q) /\ Len(d) <= Len(b)
            <4>1. d \in Seq(Chunks) /\ q \in Seq(Chunks) /\ b = Cat(d, q)
                BY <1>t, SubSeqType, SubSeqCut DEF Cat
            <4>2. Len(Cat(d, q)) = Len(d) + Len(q) /\ Len(d) \in Nat /\ Len(q) \in Nat
                BY <4>1, CatLonger, LenProperties
            <4> QED
                BY <4>1, <4>2
        <3> HIDE DEF d, q
        <3>4. Repeats(Cat(Cat(written, d), Cat(d, q)), Cat(written, Cat(d, q)), Len(b))
            <4>1. Len(b) \in Nat
                BY <1>t, LenProperties
            <4> QED
                BY <1>t, <3>3, <4>1, RepeatsMiddle
        <3>5. written' = Cat(written, d)
            BY <3>2 DEF d
        <3> QED
            BY <3>1, <3>3, <3>4, <3>5
    <2> QED
        BY <2>4, <2>5
<1> QED
    BY <1>8, <1>9

-----------------------------------------------------------------------------
(* And then after it.                                                       *)

\* What leaves the chunks where they are.
LEMMA KeptRest ==
    ASSUME KeptApart,
           UNCHANGED <<handle, list, buffer, hgot, handled, accepted, got, torn, bdata, written>>,
           bpc' = bpc,
           pcM' \in {"flushing", "draining"} <=> pcM \in {"flushing", "draining"},
           pcM' \in {"flushing", "draining"} => UNCHANGED <<present, cur, stream, again, bfp>>,
           Emptied' => Emptied \/ (InHand = <<>> /\ list = <<>>),
           pcM' \in {"free", "exit"} =>
                /\ handle # NULL
                /\ ~ stream'[handle].open \/ (pcM \in {"free", "exit"} /\ stream' = stream)
    PROVE  KeptApart'
<1>1. InHand' = InHand
    BY DEF InHand
<1>2. Unwritten' = Unwritten
    BY <1>1 DEF Unwritten, Left
<1>3. Accounted' /\ InOrder'
    BY <1>1, <1>2 DEF KeptApart, Accounted, InOrder, Lost, Overlap
<1>4. FlushInv'
    <2>1. Emptied' => InHand' = <<>> /\ list' = <<>>
        BY <1>1 DEF KeptApart, FlushInv
    <2>2. ASSUME pcM' \in {"flushing", "draining"}
          PROVE  /\ bpc'["main"] # "idle" /\ bdata'["main"] = InHand'
                 /\ Batching("main", handle, InHand)' \/ again' \in {"free", "exit"}
        <3>1. /\ pcM \in {"flushing", "draining"}
              /\ UNCHANGED <<present, cur, stream, again, bfp, bpc, bdata, handle>>
            BY <2>2
        <3>2. /\ bpc["main"] # "idle" /\ bdata["main"] = InHand
              /\ Batching("main", handle, InHand) \/ again \in {"free", "exit"}
            BY <3>1 DEF KeptApart, FlushInv
        <3>3. Batching("main", handle, InHand)' = Batching("main", handle, InHand)
            BY <1>1, <3>1 DEF Batching
        <3> QED
            BY <1>1, <3>1, <3>2, <3>3
    <2>3. pcM' \in {"free", "exit"} => ~ stream'[handle'].open
        BY DEF KeptApart, FlushInv
    <2> QED
        BY <2>1, <2>2, <2>3 DEF FlushInv
<1> QED
    BY <1>3, <1>4 DEF KeptApart

\* A batch of nothing writes nothing.
LEMMA NothingWritten ==
    ASSUME TypeOK, bdata["main"] = <<>>, BatchStep("main"), bpc["main"] # "idle"
    PROVE  written' = written
<1>1. CASE BFwrite("main")
    <2>1. written \o <<>> = written
        BY KeepTypes, ConcatEmptySeq
    <2> QED
        BY <1>1, <2>1 DEF BFwrite, Fwrite, Misuse
<1>2. CASE ~ BFwrite("main")
    BY <1>2 DEF BatchStep, BCheckPasses, BStatFails, BRotate, BOk, BClose, BReopen,
        BReopenFails, closeRPIOFile, Misuse, Fclose
<1> QED
    BY <1>1, <1>2

\* A batch of ExitProcess is its own, and goes on until it is done.
LEMMA MainBatch ==
    ASSUME TypeOK, BatchStep("main")
    PROVE  bdata' = bdata /\ bpc'["save"] = bpc["save"] /\ bpc'["main"] # "idle"
<1>0. "main" \in DOMAIN bpc /\ "save" # "main"
    BY KeepTypes
<1>1. CASE BReopen("main")
    BY <1>0, <1>1 DEF BReopen
<1>2. CASE ~ BReopen("main")
    <2>1. PICK pos \in {"fwrite", "ok", "done", "close", "open"} : Goto("main", pos)
        BY <1>2 DEF BatchStep, BCheckPasses, BStatFails, BRotate, BFwrite, BOk, BClose,
            BReopenFails, Refused
    <2> QED
        BY <1>0, <2>1 DEF Goto
<1> QED
    BY <1>1, <1>2

\* ExitProcess hands the buffer or a chunk to batch_write_file.
LEMMA KeptCall ==
    ASSUME TypeOK, ShutdownInv, Run, Saved, KeptApart, pcM \in {"flush", "hpop"},
           Prompt, pcM' \in {"flushing", "draining"}, BatchCall("main", handle, InHand'),
           UNCHANGED <<handle, stream, again, pcS, torn>>,
           again' \in {"close", "free", "exit"} => InHand' = <<>> /\ list' = <<>>
    PROVE  FlushInv' /\ Unwritten' = InHand' /\ Overlap' = Overlap
<1>1. /\ bpc'["main"] = "check" /\ bfp'["main"] = handle /\ bdata'["main"] = InHand'
      /\ bdata'["save"] = bdata["save"]
    BY KeepTypes DEF BatchCall
<1>2. Unwritten' = InHand' /\ Overlap' = Overlap
    BY <1>1 DEF Unwritten, Left, Overlap
<1>3. pcS = "ended" /\ handle # NULL
    BY DEF ShutdownInv, AftermathInv, Slept, Handler, KeptApart
<1>4. stream[handle].open \/ again \in {"free", "exit"}
    BY <1>3 DEF ShutdownInv, FileUsable, Saved
<1>5. Emptied' => InHand' = <<>> /\ list' = <<>>
    BY DEF Emptied
<1>6. Batching("main", handle, InHand)' \/ again' \in {"free", "exit"}
    BY <1>1, <1>4 DEF Batching
<1>7. FlushInv'
    BY <1>1, <1>5, <1>6 DEF FlushInv
<1> QED
    BY <1>2, <1>7

LEMMA SavedStep ==
    ASSUME ServerInv, ShutdownInv, FileInv, KeepInv, Run, Prompt, OneStream, Faults = {},
           [Next]_vars, torn # NULL, Saved'
    PROVE  KeptApart'
<1>0. /\ pcS = "ended" /\ TypeOK /\ HandInv /\ StagesInv /\ AftermathInv /\ FileUsable
    BY DEF ServerInv, ShutdownInv, HandInv
<1>t. /\ handled \in Seq(Chunks) /\ buffer \in Seq(Chunks) /\ hgot \in Seq(Chunks)
      /\ list \in Seq(Chunks) /\ accepted \in Seq(Chunks) /\ written \in Seq(Chunks)
      /\ got \in Seq(Chunks) /\ item \in Seq(Chunks) /\ Overlap \in Nat /\ Lost \in Seq(Chunks)
      /\ InHand \in Seq(Chunks) /\ FileTypeOK /\ "main" \in Writer
      /\ Cat(handled, InHand) \in Seq(Chunks)
    <2>1. Overlap \in Nat
        BY <1>0, KeepTypes, LenProperties DEF Overlap
    <2>2. InHand \in Seq(Chunks)
        BY <1>0, KeepTypes, ConcatProperties DEF InHand
    <2>3. Lost \in Seq(Chunks)
        BY <1>0, KeepTypes DEF Lost
    <2> QED
        BY <1>0, <2>1, <2>2, <2>3, KeepTypes, CatType
<1>e. \A s \in Seq(Chunks) : Cat(s, <<>>) = s /\ Cat(<<>>, s) = s
    BY CatEmpty
<1>a. \A x, y, z \in Seq(Chunks) : Cat(Cat(x, y), z) = Cat(x, Cat(y, z))
    BY CatAssociative
<1>1. ASSUME Saved PROVE KeptApart
    BY <1>1 DEF KeepInv, KeptApart
<1>h. hgot # <<>> => pcM = "draining"
    BY <1>0 DEF HandInv
<1>b. pcM \in {"drain", "hlock", "hpop", "draining"} => buffer = <<>>
    BY <1>0 DEF HandInv, Exclusive
<1>2. ~ MNext
    BY <1>0, MainWaits DEF MSocket, MCreateRecv, MCreateSave, HandInv, StagesInv, Reached
<1>3. ~ SNext
    BY <1>0 DEF SNext, SWlock, SOpen, SPoll, SIdleFlush, SSee, SLock, SPop, SFull, SLate,
        SFits, SBatch, SReturn, SAppend, SCancelled, SCancelledInBatch
<1>4. ~ Signal
    BY <1>0 DEF Signal, StagesInv
<1>5. CASE RNext
    <2>1. /\ UNCHANGED <<handle, buffer, hgot, handled, got, torn, bdata, written, bpc, pcM,
                         present, cur, stream, again>>
          /\ pcR # "ended"
        BY <1>5 DEF RNext, RStart, RMakeList, RRecv, RWait, REnd, RLock, RInsert, RUnlock,
            RCancelled, Ends, vars, fileVars, dirVars, batchVars, gVars, saveVars, mainVars,
            signalVars, histVars
    <2>2. Saved
        BY <2>1 DEF Saved
    <2>3. /\ KeptApart /\ ~ Emptied /\ ~ Emptied'
          /\ pcM' \notin {"free", "exit", "flushing", "draining"}
        BY <1>0, <1>1, <2>1, <2>2, NotYet DEF Emptied
    <2>4. CASE UNCHANGED <<list, accepted>>
        BY <2>1, <2>3, <2>4, KeptRest
    <2>5. CASE list' = Cat(list, item) /\ accepted' = Cat(accepted, item)
        <3>1. InHand' = InHand /\ Lost' = Lost
            BY <2>1 DEF InHand, Lost
        <3>2. Cat(Cat(handled, InHand), list) \in Without(accepted, Lost)
            BY <2>3 DEF KeptApart, Accounted, Cat
        <3>3. Cat(Cat(Cat(handled, InHand), list), item) \in Without(Cat(accepted, item), Lost)
            BY <1>t, <3>2, WithoutGrows
        <3>4. Cat(Cat(Cat(handled, InHand), list), item) = Cat(Cat(handled, InHand), list')
            BY <1>t, <1>a, <2>5
        <3>5. Accounted'
            BY <2>1, <2>5, <3>1, <3>3, <3>4 DEF Accounted, Cat
        <3>6. InOrder'
            BY <2>1, <2>3, <3>1 DEF KeptApart, InOrder, Unwritten, Left, Overlap
        <3>7. FlushInv'
            BY <2>3 DEF FlushInv
        <3> QED
            BY <2>1, <2>3, <3>5, <3>6, <3>7 DEF KeptApart
    <2> QED
        BY <1>5, <2>4, <2>5 DEF RNext, RStart, RMakeList, RRecv, RWait, REnd, RLock,
            RInsert, RUnlock, RCancelled, vars, gVars, histVars, Cat
<1>6. CASE SignalAgain
    <2>1. /\ again' \notin {"flushing", "draining"} /\ again = NULL
          /\ again' = IF pcM \in {"flushing", "draining"} /\ bpc["main"] = "open"
                      THEN "reopening" ELSE pcM
          /\ torn' = torn /\ bpc' = bpc
        BY <1>6 DEF SignalAgain, Saved, batchVars
    <2>2. pcM \notin {"flushing", "draining"} /\ again' = pcM
        BY <2>1 DEF Saved
    <2>3. Saved
        BY <2>1, ServerAssumption DEF Saved, Handler
    <2>4. hgot = <<>> /\ hgot' = <<>> /\ handled' = handled
        <3>1. handled \o <<>> = handled
            BY <1>t, ConcatEmptySeq
        <3> QED
            BY <1>6, <1>h, <2>2, <3>1 DEF SignalAgain
    <2>5. /\ UNCHANGED <<handle, list, buffer, accepted, got, bdata, written>>
          /\ pcM' = "cancel"
        BY <1>6, <2>2 DEF SignalAgain, batchVars, gVars, saveVars
    <2>6. Emptied' => Emptied
        BY <2>2, <2>5 DEF Emptied
    <2> QED
        BY <1>1, <2>1, <2>2, <2>3, <2>4, <2>5, <2>6, KeptRest
<1>7. CASE HNext
    <2>0. UNCHANGED <<handle, got, torn, again, accepted, pcS>>
        BY <1>7 DEF HNext, HCancel, HSleep, HJoinRecv, HJoinSave, HFlush, HBatch, HFlushed,
            HDrain, HLock, HPop, HDrained, HClose, HFree, HExit, mainVars, signalVars,
            histVars, gVars, saveVars
    <2>1. bpc'["save"] = bpc["save"]
        BY <1>0, <1>7, MainBatch, KeepTypes DEF HNext, HCancel, HSleep, HJoinRecv,
            HJoinSave, HFlush, HBatch, HFlushed, HDrain, HLock, HPop, HDrained, HClose,
            HFree, HExit, Ends, BatchCall, BatchReturn, fileVars, batchVars
    <2>2. Saved /\ KeptApart /\ handle # NULL /\ handle \in Stream
        <3>1. Saved
            BY <2>0, <2>1 DEF Saved
        <3> QED
            BY <1>0, <1>1, <3>1, KeepTypes DEF KeptApart
    <2>3. CASE HCancel \/ HSleep \/ HJoinRecv \/ HJoinSave \/ HLock \/ HFree \/ HExit
        <3>1. /\ UNCHANGED <<list, buffer, hgot, handled, bdata, bpc, written, stream>>
              /\ pcM \notin {"flushing", "draining"}
              /\ pcM' \notin {"flushing", "draining", "close"}
              /\ pcM' \in {"free", "exit"} => pcM \in {"free", "exit"}
            BY <2>3 DEF HCancel, HSleep, HJoinRecv, HJoinSave, HLock, HFree, HExit, Ends,
                fileVars, batchVars, gVars, mainVars, histVars
        <3>2. Emptied' => Emptied
            BY <2>0, <3>1 DEF Emptied
        <3> QED
            BY <2>0, <2>2, <3>1, <3>2, KeptRest
    <2>4. CASE HDrain
        <3>1. /\ UNCHANGED <<list, buffer, hgot, handled, bdata, bpc, written, stream>>
              /\ pcM = "drain" /\ pcM' = IF list = <<>> THEN "close" ELSE "hlock"
            BY <2>4 DEF HDrain, Ends, fileVars, batchVars, gVars, histVars
        <3>2. InHand = <<>>
            BY <1>b, <1>h, <1>t, <1>e, <3>1 DEF InHand, Cat
        <3>3. Emptied' => Emptied \/ (InHand = <<>> /\ list = <<>>)
            BY <2>0, <3>1, <3>2 DEF Emptied
        <3> QED
            BY <2>0, <2>2, <3>1, <3>3, KeptRest
    <2>5. CASE HClose
        <3>1. /\ UNCHANGED <<list, buffer, hgot, handled, bdata, bpc>>
              /\ pcM = "close" /\ pcM' = "free" /\ closeRPIOFile(handle)
            BY <2>5 DEF HClose, batchVars, gVars, histVars
        <3>2. ~ stream'[handle].open /\ written' = written
            BY <1>0, <2>2, <3>1, KeepTypes DEF closeRPIOFile, Fclose, Misuse, Closed
        <3>3. /\ Emptied
              /\ pcM \notin {"flushing", "draining"} /\ pcM' \notin {"flushing", "draining"}
            BY <3>1 DEF Emptied
        <3>4. pcM' \in {"free", "exit"} =>
                /\ handle # NULL
                /\ ~ stream'[handle].open \/ (pcM \in {"free", "exit"} /\ stream' = stream)
            BY <2>2, <3>2
        <3> QED
            BY <2>0, <2>2, <3>1, <3>2, <3>3, <3>4, KeptRest
    <2>6. CASE HFlush
        <3>1. CASE offset > 0
            <4>1. /\ pcM = "flush" /\ pcM' = "flushing" /\ BatchCall("main", handle, buffer)
                  /\ UNCHANGED <<list, buffer, hgot, handled, written, stream>>
                BY <2>2, <2>6, <3>1 DEF HFlush, gVars, histVars
            <4>2. InHand' = InHand /\ InHand = buffer
                BY <1>h, <1>t, <1>e, <4>1 DEF InHand, Cat
            <4>3. again' \in {"close", "free", "exit"} => InHand' = <<>> /\ list' = <<>>
                BY <2>0, <2>2, <4>1, <4>2 DEF KeptApart, FlushInv, Emptied
            <4>4. FlushInv' /\ Unwritten' = InHand' /\ Overlap' = Overlap
                BY <1>0, <2>0, <2>2, <4>1, <4>2, <4>3, KeptCall
            <4>5. Unwritten = InHand
                BY <4>1 DEF Unwritten
            <4>6. Accounted' /\ InOrder'
                BY <2>0, <2>2, <4>1, <4>2, <4>4, <4>5 DEF KeptApart, Accounted, InOrder,
                    Lost
            <4> QED
                BY <2>0, <2>2, <4>4, <4>6 DEF KeptApart
        <3>2. CASE ~ (offset > 0)
            <4>1. /\ pcM = "flush" /\ pcM' = "drain"
                  /\ UNCHANGED <<list, buffer, hgot, handled, bdata, bpc, written, stream>>
                BY <2>2, <2>6, <3>2 DEF HFlush, batchVars, gVars, histVars
            <4>2. Emptied' => Emptied
                BY <2>0, <4>1 DEF Emptied
            <4> QED
                BY <2>0, <2>2, <4>1, <4>2, KeptRest
        <3> QED
            BY <3>1, <3>2
    <2>7. CASE HPop
        <3>1. /\ pcM = "hpop" /\ hgot = <<>> /\ buffer = <<>> /\ hgot' = First(list)
              /\ list' = Rest(list) /\ UNCHANGED <<buffer, handled, written, stream>>
            BY <1>b, <1>h, <2>7 DEF HPop, histVars
        <3>2. CASE list = <<>>
            <4>1. UNCHANGED <<bdata, bpc, hgot, list>> /\ pcM' = "drain"
                BY <2>7, <3>1, <3>2 DEF HPop, First, Rest, batchVars
            <4>2. Emptied' => Emptied
                BY <2>0, <4>1 DEF Emptied
            <4> QED
                BY <2>0, <2>2, <3>1, <4>1, <4>2, KeptRest
        <3>3. CASE list # <<>>
            <4>1. /\ First(list) \in Seq(Chunks) /\ Rest(list) \in Seq(Chunks)
                  /\ Cat(First(list), Rest(list)) = list
                BY <1>t, FirstRest DEF Cat
            <4>2. InHand = <<>> /\ InHand' = First(list)
                BY <1>t, <1>e, <3>1, <4>1 DEF InHand, Cat
            <4>3. BatchCall("main", handle, InHand') /\ pcM' = "draining"
                BY <2>7, <3>1, <3>3, <4>2 DEF HPop
            <4>4. again' \notin {"close", "free", "exit"}
                BY <2>0, <2>2, <3>3 DEF KeptApart, FlushInv, Emptied
            <4>5. FlushInv' /\ Unwritten' = InHand' /\ Overlap' = Overlap
                BY <1>0, <2>0, <2>2, <3>1, <4>3, <4>4, KeptCall
            <4>6. Accounted'
                <5>1. Cat(handled, list) \in Without(accepted, Lost)
                    BY <1>t, <1>e, <2>2, <4>2 DEF KeptApart, Accounted, Cat
                <5>2. Cat(Cat(handled, InHand'), list') = Cat(handled, list)
                    BY <1>t, <1>a, <3>1, <4>1, <4>2
                <5> QED
                    BY <2>0, <3>1, <5>1, <5>2 DEF Accounted, Lost, Cat
            <4>7. InOrder'
                <5>1. Repeats(written, handled, Overlap)
                    <6>1. Unwritten = <<>>
                        BY <3>1, <4>2 DEF Unwritten
                    <6>2. Repeats(Cat(written, <<>>), Cat(handled, <<>>), Overlap)
                        BY <2>2, <4>2, <6>1 DEF KeptApart, InOrder, Cat
                    <6> QED
                        BY <1>t, <1>e, <6>2
                <5>2. Repeats(Cat(written, InHand'), Cat(handled, InHand'), Overlap)
                    BY <1>t, <4>1, <4>2, <5>1, RepeatsGrows
                <5> QED
                    BY <3>1, <4>5, <5>2 DEF InOrder, Cat
            <4> QED
                BY <2>0, <2>2, <4>5, <4>6, <4>7 DEF KeptApart
        <3> QED
            BY <3>2, <3>3
    <2>8. CASE HFlushed \/ HDrained
        <3>1. /\ pcM \in {"flushing", "draining"} /\ pcM' = "drain" /\ bpc["main"] = "done"
              /\ UNCHANGED <<list, written, bdata, stream>>
            BY <2>8 DEF HFlushed, HDrained, BatchReturn, gVars
        <3>2. handled' = Cat(handled, InHand) /\ InHand' = <<>>
            <4>1. CASE HFlushed
                <5>1. /\ hgot = <<>> /\ hgot' = <<>> /\ buffer' = <<>>
                      /\ handled' = Cat(handled, buffer)
                    BY <1>h, <4>1 DEF HFlushed, Cat
                <5>2. InHand = buffer /\ InHand' = <<>>
                    BY <1>t, <1>e, <5>1 DEF InHand, Cat
                <5> QED
                    BY <5>1, <5>2
            <4>2. CASE HDrained
                <5>1. /\ buffer = <<>> /\ hgot' = <<>> /\ buffer' = <<>>
                      /\ handled' = Cat(handled, hgot)
                    BY <1>b, <4>2 DEF HDrained, gVars, Cat
                <5>2. InHand = hgot /\ InHand' = <<>>
                    BY <1>t, <1>e, <5>1 DEF InHand, Cat
                <5> QED
                    BY <5>1, <5>2
            <4> QED
                BY <2>8, <4>1, <4>2
        <3>3. Unwritten = <<>> /\ Unwritten' = <<>> /\ Overlap' = Overlap
            BY <2>0, <3>1, <3>2 DEF Unwritten, Left, Overlap
        <3>4. Cat(handled', <<>>) = Cat(handled, InHand)
            BY <1>t, <1>e, <3>2
        <3>5. Accounted' /\ InOrder'
            BY <2>0, <2>2, <3>1, <3>2, <3>3, <3>4 DEF KeptApart, Accounted, InOrder, Lost,
                Cat
        <3>6. FlushInv'
            <4>1. Emptied' => Emptied
                BY <2>0, <3>1 DEF Emptied
            <4> QED
                BY <2>2, <3>1, <3>2, <4>1 DEF KeptApart, FlushInv
        <3> QED
            BY <2>0, <2>2, <3>5, <3>6 DEF KeptApart
    <2>9. CASE HBatch
        <3>1. /\ pcM \in {"flushing", "draining"} /\ pcM' = pcM /\ BatchStep("main")
              /\ UNCHANGED <<list, buffer, hgot, handled>>
            BY <2>9 DEF HBatch, gVars, mainVars, histVars
        <3>2. InHand' = InHand /\ (Emptied' <=> Emptied)
            BY <2>0, <3>1 DEF InHand, Emptied
        <3>3. bdata' = bdata /\ bpc'["main"] # "idle"
            BY <1>0, <3>1, MainBatch
        <3>4. Overlap' = Overlap
            BY <2>0, <3>3 DEF Overlap
        <3>5. Accounted'
            BY <2>0, <2>2, <3>1, <3>2 DEF KeptApart, Accounted, Lost
        <3>6. /\ written' \o Left("main", InHand)' = written \o Left("main", InHand)
              /\ Batching("main", handle, InHand)' \/ again' \in {"free", "exit"}
            <4>1. CASE Batching("main", handle, InHand)
                <5>1. proc = "run" /\ bpc["main"] # "idle"
                    BY <2>2, <3>1 DEF Run, KeptApart, FlushInv
                <5>2. /\ Batching("main", handle, InHand)
                      /\ \A x, y : x = handle /\ y = InHand =>
                            /\ Batching("main", x, y)'
                            /\ written' \o Left("main", y)' = written \o Left("main", y)
                    <6> SUFFICES ASSUME NEW x, NEW y, x = handle, y = InHand
                                 PROVE  /\ Batching("main", x, y)'
                                        /\ written' \o Left("main", y)' = written \o Left("main", y)
                        BY <4>1
                    <6>1. x \in Stream /\ y \in Seq(Chunks) /\ Batching("main", x, y)
                        BY <1>t, <2>2, <4>1
                    <6> QED
                        BY <1>t, <3>1, <5>1, <6>1, BatchStepGoesOn
                <5> QED
                    BY <2>0, <3>2, <5>2
            <4>2. CASE again \in {"free", "exit"}
                <5>1. InHand = <<>> /\ bdata["main"] = <<>> /\ bpc["main"] # "idle"
                    BY <2>2, <3>1, <4>2 DEF KeptApart, FlushInv, Emptied
                <5>2. written' = written
                    BY <1>0, <3>1, <5>1, NothingWritten
                <5> QED
                    BY <2>0, <3>2, <4>2, <5>1, <5>2 DEF Left
            <4> QED
                BY <2>2, <3>1, <4>1, <4>2 DEF KeptApart, FlushInv
        <3>7. InOrder'
            BY <2>0, <2>2, <3>1, <3>2, <3>4, <3>6 DEF KeptApart, InOrder, Unwritten
        <3>8. FlushInv'
            BY <2>0, <2>2, <3>1, <3>2, <3>3, <3>6 DEF KeptApart, FlushInv
        <3> QED
            BY <2>0, <2>2, <3>5, <3>7, <3>8 DEF KeptApart
    <2> QED
        BY <1>7, <2>3, <2>4, <2>5, <2>6, <2>7, <2>8, <2>9 DEF HNext
<1>8. CASE UNCHANGED vars
    <2>1. /\ UNCHANGED <<handle, list, buffer, hgot, handled, accepted, got, torn, bdata, written,
                         bpc, bfp, pcM, present, cur, stream, again>>
        BY <1>8 DEF vars, fileVars, dirVars, batchVars, gVars, saveVars, mainVars,
            signalVars, histVars
    <2>2. Saved /\ (Emptied' <=> Emptied)
        BY <2>1 DEF Saved, Emptied
    <2> QED
        BY <1>1, <2>1, <2>2, KeptRest DEF KeptApart
<1> QED
    BY <1>2, <1>3, <1>4, <1>5, <1>6, <1>7, <1>8 DEF Next, Gone

LEMMA KeepStep ==
    ASSUME ServerInv, ShutdownInv, FileInv, KeepInv, Prompt, OneStream, Faults = {}, [Next]_vars
    PROVE  KeepInv'
<1>1. CASE ~ Run
    <2>1. UNCHANGED vars
        BY <1>1, GoneStays
    <2> QED
        BY <2>1 DEF KeepInv, SavingInv, Batching, Left, Saved, Accounted, InOrder, FlushInv,
            InHand, Unwritten, Emptied, Lost, Overlap, vars, fileVars, dirVars, batchVars,
            gVars, saveVars, mainVars, signalVars, histVars
<1>2. CASE Run
    <2>1. torn' = NULL => pcS' # "ended" /\ SavingInv'
        BY <1>2, BeforeStep
    <2>2. proc' = "exit" => pcM' = "exit"
        BY <1>2, ExitStep
    <2>3. ASSUME Saved' PROVE KeptApart'
        <3>1. CASE torn # NULL
            BY <1>2, <2>3, <3>1, SavedStep
        <3>2. CASE torn = NULL
            <4>1. torn' # torn
                BY <2>3, <3>2, ServerAssumption DEF Saved
            <4>2. SCancelled \/ SCancelledInBatch
                BY <4>1 DEF Next, MNext, MSocket, MCreateRecv, MCreateSave, MJoinRecv,
                    MJoinSave, MTeardown, MReturn, Signal, SignalAgain, HNext, HCancel,
                    HSleep, HJoinRecv, HJoinSave, HFlush, HBatch, HFlushed, HDrain, HLock,
                    HPop, HDrained, HClose, HFree, HExit, RNext, RStart, RMakeList, RRecv,
                    RWait, REnd, RLock, RInsert, RUnlock, RCancelled, SNext, SWlock, SOpen,
                    SPoll, SIdleFlush, SSee, SLock, SPop, SFull, SLate, SFits, SBatch,
                    SReturn, SAppend, Gone, histVars, vars
            <4> QED
                BY <2>3, <3>2, <4>2, TearStep
        <3> QED
            BY <3>1, <3>2
    <2> QED
        BY <2>1, <2>2, <2>3 DEF KeepInv, KeptApart
<1> QED
    BY <1>1, <1>2

LEMMA InitKeep == Init => KeepInv
<1> SUFFICES ASSUME Init PROVE KeepInv
    OBVIOUS
<1>1. bpc["save"] = "idle" /\ torn = NULL /\ proc = "run"
    BY ServerAssumption DEF Init, FileInit
<1> QED
    BY <1>1, ServerAssumption DEF Init, FileInit, KeepInv, SavingInv, Left, Saved

\* When the process exits all that is left of the chunks is in the files.
LEMMA ExitKeeps == TypeOK /\ FileInv /\ KeepInv => ExitKeepsData
<1> SUFFICES ASSUME TypeOK, FileInv, KeepInv, proc = "exit", Saved
             PROVE  \E kept \in Without(accepted, Lost) : Repeats(OnDisk, kept, Overlap)
    BY DEF ExitKeepsData
<1>1. /\ pcM = "exit" /\ Accounted /\ InOrder /\ FlushInv /\ handle \in Stream
    BY KeepTypes DEF KeepInv
<1>2. InHand = <<>> /\ list = <<>> /\ Unwritten = <<>> /\ ~ stream[handle].open
    BY <1>1 DEF FlushInv, Emptied, Unwritten
<1>3. handled \in Seq(Chunks) /\ written \in Seq(Chunks) /\ OnDisk \in Seq(Chunks)
    BY KeepTypes, OnDiskType
<1>4. /\ Cat(handled, <<>>) = handled /\ Cat(written, <<>>) = written
      /\ Cat(OnDisk, <<>>) = OnDisk
    BY <1>3, CatEmpty
<1>5. written = OnDisk
    BY <1>1, <1>2, <1>4 DEF FileInv, Cat
<1>6. handled \in Without(accepted, Lost)
    BY <1>1, <1>2, <1>4 DEF Accounted, Cat
<1>7. Repeats(written, handled, Overlap)
    BY <1>1, <1>2, <1>4 DEF InOrder, Cat
<1> QED
    BY <1>5, <1>6, <1>7

(* After a signal, and a second one, the files hold every chunk accepted, once  *)
(* and in order, but for the one the saving thread is cancelled with and those  *)
(* of the batch it is cancelled in (rpio_write.c:97-212, serverMain.c:9-34),    *)
(* provided that a cancelled thread ends within the second, that no call fails  *)
(* and that malloc returns the block just freed.                                *)
THEOREM ExitLosesNothing ==
    ASSUME OneStream, Prompt, Faults = {}
    PROVE  Spec => []ExitKeepsData
<1> DEFINE Inv == ServerInv /\ ShutdownInv /\ FileInv /\ KeepInv
<1>1. Init => Inv
    BY InitInv, InitShutdown, InitKeep, FileInitFiles DEF Init
<1>2. Inv /\ [Next]_vars => Inv'
    <2>1. ServerInv => TypeOK
        BY DEF ServerInv
    <2> QED
        BY <2>1, InvStep, ShutdownStep, FilesStep, KeepStep
<1>3. Inv => ExitKeepsData
    BY ExitKeeps DEF ServerInv
<1> QED
    BY <1>1, <1>2, <1>3, PTL DEF Spec
===============================================================================
