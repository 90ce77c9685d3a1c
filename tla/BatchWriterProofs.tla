--------------------------- MODULE BatchWriterProofs ---------------------------
(***************************************************************************)
(* What is proved of the file layer with one caller, for every number and  *)
(* size of batches, every FILE_MAX_SIZE and every size of a stdio buffer.  *)
(* With one address for streams, and whatever fails: the files hold what   *)
(* fwrite took.  With one address and nothing failing: every batch is      *)
(* written once, in order, to RPIO.txt.                                    *)
(***************************************************************************)
EXTENDS BatchWriter, RpioWriteProofs

\* The chunks of this module are chunks of the file layer.
LEMMA ChunkType ==
    ASSUME NEW s \in Seq(Chunk)
    PROVE  s \in Seq(Chunks)
<1>1. Chunk \subseteq Chunks
    BY BatchWriterAssumption DEF Chunk, Chunks
<1> QED
    BY <1>1, SeqMonotone

-----------------------------------------------------------------------------
(* Type correctness, and what the files hold whatever fails.               *)

LEMMA InitType == Init => BatchTypeOK /\ FileInv
<1> SUFFICES ASSUME Init PROVE BatchTypeOK /\ FileInv
    OBVIOUS
<1>1. FileTypeOK /\ FileInv
    BY FileInitType, FileInitFiles DEF Init
<1>2. buffer \in Seq(Chunk) /\ given \in Seq(Chunk) /\ handle = NULL
    BY DEF Init
<1> QED
    BY <1>1, <1>2 DEF BatchTypeOK

LEMMA TypeStep ==
    ASSUME BatchTypeOK, [Next]_vars
    PROVE  BatchTypeOK'
<1> USE DEF BatchTypeOK
<1>0. "save" \in Writer /\ buffer \in Seq(Chunks)
    BY ChunkType, BatchWriterAssumption
<1>1. CASE OpenFile
    <2>1. PICK f \in Stream : Fopen(f) /\ handle' = f
        BY <1>1 DEF OpenFile
    <2>2. FileTypeOK'
        BY <1>1, <2>1, FopenType DEF OpenFile, Fopen, FileTypeOK, Stdio, batchVars
    <2> QED
        BY <1>1, <2>1, <2>2 DEF OpenFile
<1>2. CASE Fill
    <2> DEFINE c == [no |-> Len(given) + 1, len |-> 1]
    <2>1. c \in Chunk
        BY <1>2, LenProperties, BatchWriterAssumption DEF Fill, Chunk
    <2> HIDE DEF c
    <2>2. Append(buffer, c) \in Seq(Chunk) /\ Append(given, c) \in Seq(Chunk)
        BY <2>1, AppendProperties
    <2>3. buffer' = Append(buffer, c) /\ given' = Append(given, c)
        BY <1>2 DEF Fill, c
    <2> QED
        BY <1>2, <2>2, <2>3, FileSameType DEF Fill
<1>3. CASE Call
    BY <1>0, <1>3, BatchCallType DEF Call
<1>4. CASE Step
    BY <1>0, <1>4, BatchStepType DEF Step
<1>5. CASE Return
    BY <1>0, <1>5, BatchReturnType DEF Return
<1>6. CASE UNCHANGED vars
    BY <1>6, FileSameType DEF vars
<1> QED
    BY <1>1, <1>2, <1>3, <1>4, <1>5, <1>6 DEF Next, Stopped

LEMMA FilesStep ==
    ASSUME BatchTypeOK, FileInv, OneStream, [Next]_vars
    PROVE  FileInv' /\ Grows
<1> USE DEF BatchTypeOK
<1>1. CASE OpenFile
    BY <1>1, FopenFiles DEF OpenFile
<1>2. CASE Fill \/ Call \/ Return \/ UNCHANGED vars
    BY <1>2, SameFiles DEF Fill, Call, Return, vars, fileVars
<1>3. CASE Step
    BY <1>3, BatchStepFiles, BatchWriterAssumption DEF Step
<1> QED
    BY <1>1, <1>2, <1>3 DEF Next, Stopped

\* The state of the file layer is well-typed (FileTypeOK), whatever fails.
THEOREM FileTypeCorrect == Spec => []BatchTypeOK
<1>1. Init => BatchTypeOK
    BY InitType
<1>2. BatchTypeOK /\ [Next]_vars => BatchTypeOK'
    BY TypeStep
<1> QED
    BY <1>1, <1>2, PTL DEF Spec

\* Whatever fails, what fwrite put into the stream is in the files or pending in
\* it, all of it, in order and once.
THEOREM FilesKeepContents ==
    ASSUME OneStream
    PROVE  Spec => []FileContents
<1> DEFINE Inv == BatchTypeOK /\ FileInv
<1>1. Init => Inv
    BY InitType
<1>2. Inv /\ [Next]_vars => Inv'
    BY TypeStep, FilesStep
<1>3. Inv => FileContents
    BY FilesHold
<1> QED
    BY <1>1, <1>2, <1>3, PTL DEF Spec

-----------------------------------------------------------------------------
(* When nothing fails.                                                     *)

LEMMA InitBatch == Init => BatchInv
<1> SUFFICES ASSUME Init PROVE BatchInv
    OBVIOUS
<1>1. bpc["save"] = "idle"
    BY BatchWriterAssumption DEF Init, FileInit
<1>2. \A f \in Stream : ~ stream[f].open
    BY DEF Init, FileInit, Closed
<1> QED
    BY <1>1, <1>2 DEF Init, FileInit, BatchInv, Left

\* Each step goes to the next position with the file as it should be there.
LEMMA BatchInvStep ==
    ASSUME BatchTypeOK, FileInv, BatchInv, OneStream, Faults = {}, [Next]_vars
    PROVE  BatchInv'
<1> USE DEF BatchTypeOK
<1>0. /\ "save" \in Writer /\ DOMAIN bpc = Writer /\ DOMAIN bfp = Writer
      /\ DOMAIN bdata = Writer /\ stream \in [Stream -> Stdio]
      /\ written \in Seq(Chunks) /\ buffer \in Seq(Chunks)
    BY ChunkType, BatchWriterAssumption DEF FileTypeOK, Stdio
<1>1. PICK f : Stream = {f}
    BY DEF OneStream
<1>2. f # NULL /\ handle \in {f, NULL}
    BY <1>1, RpioWriteAssumption
<1>4. CASE OpenFile
    <2>1. /\ handle = NULL /\ handle' = f /\ Fopen(f) /\ proc' = "run"
          /\ UNCHANGED <<bpc, bfp, bdata, written, buffer, given>>
        BY <1>1, <1>4 DEF OpenFile, batchVars
    <2>2. stream'[f].open /\ present'
        BY <1>0, <1>1, <2>1 DEF Fopen, Opened
    <2> QED
        BY <1>1, <1>2, <2>1, <2>2 DEF BatchInv, Batching, Named, Left
<1>5. CASE Fill
    <2> DEFINE c == [no |-> Len(given) + 1, len |-> 1]
    <2>0. c \in Chunks
        BY LenProperties DEF Chunks
    <2>1. /\ buffer' = Append(buffer, c) /\ given' = Append(given, c)
          /\ bpc["save"] = "idle" /\ handle' = handle
          /\ UNCHANGED <<present, cur, stream, proc, bpc, bfp, bdata, written>>
        BY <1>5 DEF Fill, Idle, fileVars, dirVars, batchVars
    <2> HIDE DEF c
    <2>2. Append(written \o buffer, c) = written \o Append(buffer, c)
        <3>1. <<c>> \in Seq(Chunks) /\ Cat(written, buffer) \in Seq(Chunks)
            BY <1>0, <2>0, CatType
        <3>2. /\ Append(Cat(written, buffer), c) = Cat(Cat(written, buffer), <<c>>)
              /\ Append(buffer, c) = Cat(buffer, <<c>>)
            BY <1>0, <2>0, <3>1, AppendIsConcat DEF Cat
        <3>3. Cat(Cat(written, buffer), <<c>>) = Cat(written, Cat(buffer, <<c>>))
            <4>1. \A s, t, u \in Seq(Chunks) : Cat(Cat(s, t), u) = Cat(s, Cat(t, u))
                BY CatAssociative
            <4> QED
                BY <1>0, <3>1, <4>1
        <3> QED
            BY <3>2, <3>3 DEF Cat
    <2> QED
        BY <2>1, <2>2 DEF BatchInv, Batching, Named, Left
<1>6. CASE Call
    <2>1. /\ bpc["save"] = "idle" /\ bpc'["save"] = "check" /\ handle # NULL
          /\ bfp'["save"] = handle /\ bdata'["save"] = buffer
          /\ UNCHANGED <<present, cur, stream, proc, written, handle, buffer, given>>
        BY <1>0, <1>6 DEF Call, Idle, BatchCall, dirVars
    <2> QED
        BY <2>1 DEF BatchInv, Batching, Named, Left
<1>7. CASE Return
    <2>1. /\ bpc["save"] = "done" /\ bpc'["save"] = "idle" /\ buffer' = <<>>
          /\ UNCHANGED <<present, cur, stream, proc, bfp, bdata, written, handle, given>>
        BY <1>0, <1>7 DEF Return, BatchReturn, dirVars
    <2> QED
        BY <2>1 DEF BatchInv, Batching, Named, Left
<1>8. CASE Step
    <2>1. UNCHANGED <<handle, buffer, given>> /\ BatchStep("save")
        BY <1>8 DEF Step
    <2>2. bpc["save"] # "idle"
        BY <2>1 DEF BatchStep, BCheckPasses, BStatFails, BRotate, BFwrite, BOk, BClose,
            BReopen, BReopenFails, Checking
    <2>3. handle = f /\ Batching("save", f, buffer) /\ Named("save")
        BY <1>2, <2>2 DEF BatchInv
    <2>4. /\ Batching("save", f, buffer)' /\ Named("save")' /\ proc' = "run"
          /\ written' \o Left("save", buffer)' = written \o Left("save", buffer)
        BY <1>0, <1>1, <2>1, <2>2, <2>3, BatchStepGoesOn DEF BatchInv
    <2> QED
        BY <1>2, <2>1, <2>3, <2>4 DEF BatchInv
<1>9. CASE UNCHANGED vars
    BY <1>9 DEF vars, fileVars, dirVars, batchVars, BatchInv, Batching, Named, Left
<1> QED
    BY <1>4, <1>5, <1>6, <1>7, <1>8, <1>9 DEF Next, Stopped

LEMMA BatchInvariant ==
    ASSUME OneStream, Faults = {}
    PROVE  Spec => [](BatchTypeOK /\ FileInv /\ BatchInv)
<1> DEFINE Inv == BatchTypeOK /\ FileInv /\ BatchInv
<1>1. Init => Inv
    BY InitType, InitBatch
<1>2. Inv /\ [Next]_vars => Inv'
    BY TypeStep, FilesStep, BatchInvStep
<1> QED
    BY <1>1, <1>2, PTL DEF Spec

\* Renaming happens under an open stream only.
THEOREM WritesToRpioTxt ==
    ASSUME OneStream, Faults = {}
    PROVE  Spec => []WritesGoToRpioTxt
<1>1. BatchTypeOK /\ FileInv /\ BatchInv => WritesGoToRpioTxt
    <2> SUFFICES ASSUME BatchTypeOK, FileInv, BatchInv PROVE WritesGoToRpioTxt
        OBVIOUS
    <2>1. PICK f : Stream = {f}
        BY DEF OneStream
    <2> QED
        BY <2>1, BatchWriterAssumption
            DEF BatchTypeOK, FileInv, BatchInv, Batching, Named, WritesGoToRpioTxt
<1> QED
    BY <1>1, BatchInvariant, PTL

\* Every batch that has returned is written.
THEOREM BatchesAreWritten ==
    ASSUME OneStream, Faults = {}
    PROVE  Spec => []ReturnedIsWritten
<1>1. BatchTypeOK /\ FileInv /\ BatchInv => ReturnedIsWritten
    BY DEF BatchInv, Left, ReturnedIsWritten
<1> QED
    BY <1>1, BatchInvariant, PTL

-----------------------------------------------------------------------------
(* The refinement of Relay.                                                *)

\* What has been given and is not in the files is in the stream or in the buffer.
Rest == [f \in Stream |-> Cat(stream[f].pend, Left("save", buffer))]

Somewhere ==
    /\ OnDisk \in Seq(Chunks)
    /\ \A f \in Stream : Rest[f] \in Seq(Chunks) /\ given = Cat(OnDisk, Rest[f])

LEMMA GivenIsSomewhere == BatchTypeOK /\ FileInv /\ BatchInv => Somewhere
<1> SUFFICES ASSUME BatchTypeOK, FileInv, BatchInv PROVE Somewhere
    OBVIOUS
<1>1. OnDisk \in Seq(Chunks) /\ Left("save", buffer) \in Seq(Chunks)
    BY OnDiskType, ChunkType DEF BatchTypeOK, Left
<1>2. ASSUME NEW f \in Stream
      PROVE  Rest[f] \in Seq(Chunks) /\ given = Cat(OnDisk, Rest[f])
    <2>1. /\ stream[f].pend \in Seq(Chunks)
          /\ given = Cat(Cat(OnDisk, stream[f].pend), Left("save", buffer))
        BY OneFile DEF BatchTypeOK, BatchInv, Cat
    <2>2. \A s, t, u \in Seq(Chunks) : Cat(Cat(s, t), u) = Cat(s, Cat(t, u))
        BY CatAssociative
    <2>3. \A s, t \in Seq(Chunks) : Cat(s, t) \in Seq(Chunks)
        BY CatType
    <2>4. Rest[f] = Cat(stream[f].pend, Left("save", buffer))
        BY DEF Rest
    <2>5. Cat(stream[f].pend, Left("save", buffer)) \in Seq(Chunks)
        BY <1>1, <2>1, <2>3
    <2>6. Cat(Cat(OnDisk, stream[f].pend), Left("save", buffer))
            = Cat(OnDisk, Cat(stream[f].pend, Left("save", buffer)))
        BY <1>1, <2>1, <2>2
    <2> QED
        BY <2>1, <2>4, <2>5, <2>6
<1> QED
    BY <1>1, <1>2 DEF Somewhere

LEMMA RelayStep ==
    ASSUME Somewhere, Somewhere', Grows, BatchTypeOK, OneStream, [Next]_vars
    PROVE  [File!Next]_(File!vars)
<1>1. CASE Fill
    <2> DEFINE c == [no |-> Len(given) + 1, len |-> 1]
    <2>1. c \in Chunk
        BY <1>1, LenProperties, BatchWriterAssumption DEF Fill, Chunk, BatchTypeOK
    <2>2. given' = Append(given, c) /\ OnDisk' = OnDisk
        BY <1>1 DEF Fill, fileVars, dirVars, OnDisk
    <2> QED
        BY <2>1, <2>2 DEF File!Next, File!Accept
<1>2. CASE given' = given
    <2>1. PICK f : Stream = {f}
        BY DEF OneStream
    <2>2. /\ given = Cat(OnDisk, Rest[f]) /\ given = Cat(OnDisk', Rest'[f])
          /\ OnDisk \in Seq(Chunks) /\ Rest[f] \in Seq(Chunks)
          /\ OnDisk' \in Seq(Chunks) /\ Rest'[f] \in Seq(Chunks)
        BY <1>2, <2>1 DEF Somewhere
    <2>3. \/ OnDisk' = OnDisk
          \/ \E n \in Len(OnDisk) + 1 .. Len(given) : OnDisk' = SubSeq(given, 1, n)
        <3>1. Cat(OnDisk, Rest[f]) = Cat(OnDisk', Rest'[f]) /\ Len(OnDisk') >= Len(OnDisk)
            BY <2>2 DEF Grows
        <3>2. \/ OnDisk' = OnDisk
              \/ \E n \in Len(OnDisk) + 1 .. Len(Cat(OnDisk, Rest[f])) :
                    OnDisk' = SubSeq(Cat(OnDisk, Rest[f]), 1, n)
            BY <2>2, <3>1, PrefixGrows
        <3> QED
            BY <2>2, <3>2
    <2> QED
        BY <1>2, <2>3 DEF File!Next, File!Deliver, File!vars
<1>3. Fill \/ given' = given
    BY DEF Next, OpenFile, Call, Step, Return, Stopped, vars
<1> QED
    BY <1>1, <1>2, <1>3

\* Chunks go from the buffer to the files in order, each of them once, through any
\* number of rotations (FileIsRelay).
THEOREM FileRefinesRelay ==
    ASSUME OneStream, Faults = {}
    PROVE  Spec => FileIsRelay
<1>1. Init => File!Init
    BY DEF Init, FileInit, File!Init, OnDisk
<1>2. BatchTypeOK /\ FileInv /\ [Next]_vars => Grows
    BY FilesStep
<1>3. Somewhere /\ Somewhere' /\ Grows /\ BatchTypeOK /\ [Next]_vars
        => [File!Next]_(File!vars)
    BY RelayStep
<1> QED
    BY <1>1, <1>2, <1>3, GivenIsSomewhere, BatchInvariant, PTL
        DEF Spec, File!Spec, FileIsRelay
================================================================================
