------------------------------ MODULE BatchWriter ------------------------------
(***************************************************************************)
(* The file layer with one caller: save_data_fun opening the file and then *)
(* handing over one batch after another, without the queue it takes them   *)
(* from.  Small enough to check the rotations and every failure of the     *)
(* operating system over more batches than Server can.                     *)
(***************************************************************************)
EXTENDS RpioWrite

CONSTANTS
    MaxChunks,      \* bound: how many chunks there are
    MaxBatch        \* bound: how many of them a batch has

ASSUME BatchWriterAssumption ==
    /\ Writer = {"save"}
    /\ MaxChunks \in Nat /\ MaxBatch \in Nat

VARIABLES
    handle, buffer, \* pHandle->fp and pHandle->buffer
    given           \* history: the chunks put into the buffer, in order

vars == <<fileVars, handle, buffer, given>>

\* The size of a chunk does not matter to a batch, the size of the file does.
Chunk == [no : 1 .. MaxChunks, len : {1}]

Init ==
    /\ FileInit
    /\ handle = NULL
    /\ buffer = <<>>
    /\ given = <<>>

\* save_data_fun before its loop: the lock, the file, pHandle->fp.
OpenFile ==
    /\ proc = "run"
    /\ handle = NULL
    /\ \E f \in Stream : Fopen(f) /\ handle' = f
    /\ wlock' = TRUE
    /\ UNCHANGED <<proc, batchVars, written, buffer, given>>

Idle == proc = "run" /\ handle # NULL /\ bpc["save"] = "idle"

\* The next chunk is copied into the buffer.
Fill ==
    /\ Idle
    /\ Len(buffer) < MaxBatch /\ Len(given) < MaxChunks
    /\ LET c == [no |-> Len(given) + 1, len |-> 1] IN
        /\ buffer' = Append(buffer, c)
        /\ given' = Append(given, c)
    /\ UNCHANGED <<fileVars, handle>>

\* batch_write_file; pHandle->fp is what it always was.
Call ==
    /\ Idle
    /\ buffer # <<>>
    /\ BatchCall("save", handle, buffer)
    /\ UNCHANGED <<dirVars, stream, wlock, proc, written, handle, buffer, given>>

Step ==
    /\ BatchStep("save")
    /\ UNCHANGED <<handle, buffer, given>>

\* pHandle->offset = 0
Return ==
    /\ proc = "run"
    /\ BatchReturn("save")
    /\ buffer' = <<>>
    /\ UNCHANGED <<dirVars, stream, wlock, proc, written, handle, given>>

\* The process is gone, or the bound is reached.
Stopped ==
    /\ \/ proc # "run"
       \/ Idle /\ buffer = <<>> /\ Len(given) = MaxChunks
    /\ UNCHANGED vars

Next == OpenFile \/ Fill \/ Call \/ Step \/ Return \/ Stopped

Spec == Init /\ [][Next]_vars

\* Without failures the file layer is a relay: what is buffered reaches the
\* files in order, each chunk once, through any number of rotations
\* (rpio_write.c:46-95).
File == INSTANCE Relay WITH accepted <- given, delivered <- OnDisk

FileIsRelay == File!Spec

\* A batch is lost only after two refusals or a failed reopening: as long as
\* RPIO.txt can be renamed and opened, every batch that has returned is written
\* (rpio_write.c:84-94).
ReturnedIsWritten ==
    proc = "run" /\ bpc["save"] = "idle" => given = written \o buffer

-----------------------------------------------------------------------------
(* The inductive invariant under these, when nothing fails.                 *)

BatchTypeOK ==
    /\ FileTypeOK
    /\ handle \in Stream \cup {NULL}
    /\ buffer \in Seq(Chunk) /\ given \in Seq(Chunk)

\* batch_write_file works on pHandle's stream and its whole buffer
\* (rpio_write.c:182-196).
BatchInv ==
    /\ proc = "run"
    /\ given = written \o Left("save", buffer)
    /\ handle = NULL => bpc["save"] = "idle" /\ \A f \in Stream : ~ stream[f].open
    /\ handle # NULL => Batching("save", handle, buffer) /\ Named("save")
================================================================================
