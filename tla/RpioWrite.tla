------------------------------- MODULE RpioWrite -------------------------------
(***************************************************************************)
(* The file layer of the server, rpio_write.c:14-95: batch_write_file      *)
(* writes a batch of chunks to RPIO.txt through a stdio stream and rotates *)
(* the file to RPIO.txt.bak when it has grown too large.                   *)
(*                                                                         *)
(* This module has the state and the steps of one call of batch_write_file *)
(* by any of the threads in Writer; BatchWriter closes it with callers of  *)
(* its own, Server with the saving thread and the signal handler.          *)
(*                                                                         *)
(* A stream is its address.  batch_write_file has its own copy of          *)
(* pHandle->fp, so after it has closed and reopened the file the caller    *)
(* still uses the old address; whether that is the new stream is up to     *)
(* malloc.  With one address in Stream malloc returns the block that was   *)
(* just freed (what glibc does); with more it need not.                    *)
(***************************************************************************)
EXTENDS Integers, Sequences, SequencesExt

CONSTANTS
    Writer,         \* the threads that call batch_write_file
    Stream,         \* the addresses fopen may return
    NULL,           \* the null pointer
    FileMax,        \* FILE_MAX_SIZE
    StdioMax,       \* the size of the buffer of a stdio stream
    Faults          \* the calls that may fail: see FileFaults

FileFaults == {"stat", "mv", "open"}

ASSUME RpioWriteAssumption ==
    /\ NULL \notin Stream
    /\ FileMax \in Nat /\ StdioMax \in Nat \ {0}

VARIABLES
    \* the directory: the chunks in each file, in order
    present,        \* is there a file called RPIO.txt?
    cur,            \* RPIO.txt
    bak,            \* RPIO.txt.bak
    evicted,        \* what earlier RPIO.txt.bak held: mv replaced them
    \* the process
    stream,         \* of each address: open, its inode, what it has not written
    wlock,          \* is s_rpioWDataLock held?
    proc,           \* "run", "exit", or "crash": undefined behaviour ended it
    bpc, bfp, bdata,    \* of each writer: its position in batch_write_file and
                        \* the parameters fp and buffer
    \* history
    written         \* the chunks fwrite put into an open stream, in order

dirVars == <<present, cur, bak, evicted>>
batchVars == <<bpc, bfp, bdata>>
fileVars == <<dirVars, stream, wlock, proc, batchVars, written>>

Bytes(s) ==
    LET upTo[i \in 0 .. Len(s)] == IF i = 0 THEN 0 ELSE upTo[i - 1] + s[i].len
    IN  upTo[Len(s)]

Closed == [open |-> FALSE, ino |-> "cur", pend |-> <<>>]
Opened == [open |-> TRUE, ino |-> "cur", pend |-> <<>>]

FileInit ==
    /\ present \in BOOLEAN
    /\ cur = <<>> /\ bak = <<>> /\ evicted = <<>>
    /\ stream = [s \in Stream |-> Closed]
    /\ wlock = FALSE
    /\ proc = "run"
    /\ bpc = [w \in Writer |-> "idle"]
    /\ bfp = [w \in Writer |-> NULL]
    /\ bdata = [w \in Writer |-> <<>>]
    /\ written = <<>>

-----------------------------------------------------------------------------
(* The operating system and stdio.                                         *)

\* write(2) of the chunks s to the inode ino.
Put(ino, s) ==
    /\ cur' = IF ino = "cur" THEN cur \o s ELSE cur
    /\ bak' = IF ino = "bak" THEN bak \o s ELSE bak
    /\ evicted' = IF ino = "gone" THEN evicted \o s ELSE evicted

\* fwrite: the buffer is written out only when the new data overflow it; a
\* chunk that is written in part counts as not written.
Fwrite(f, s) ==
    LET all == stream[f].pend \o s IN
    /\ \E k \in 0 .. Len(all) :
        /\ IF Bytes(all) <= StdioMax
           THEN k = 0
           ELSE Bytes(SubSeq(all, k + 1, Len(all))) <= StdioMax
        /\ Put(stream[f].ino, SubSeq(all, 1, k))
        /\ stream' = [stream EXCEPT ![f].pend = SubSeq(all, k + 1, Len(all))]
    /\ written' = written \o s

\* mv RPIO.txt RPIO.txt.bak: open streams keep their inode.
Rotate ==
    /\ evicted' = evicted \o bak
    /\ bak' = cur
    /\ cur' = <<>>
    /\ present' = FALSE
    /\ stream' = [s \in Stream |-> [stream[s] EXCEPT
                    !.ino = IF @ = "cur" THEN "bak" ELSE "gone"]]

\* A mutant of Fopen: "wb" whether the file is there or not.
FopenTruncates(f) ==
    /\ ~ stream[f].open
    /\ present' = TRUE
    /\ cur' = <<>>
    /\ stream' = [stream EXCEPT ![f] = Opened]
    /\ UNCHANGED <<bak, evicted>>

\* fopen "a+" when the file is there, "wb" when it is not, at an address that
\* no open stream has.
Fopen(f) ==
    /\ ~ stream[f].open
    /\ present' = TRUE
    /\ cur' = IF present THEN cur ELSE <<>>
    /\ stream' = [stream EXCEPT ![f] = Opened]
    /\ UNCHANGED <<bak, evicted>>

\* fclose writes what is pending and frees the stream.
Fclose(f) ==
    /\ Put(stream[f].ino, stream[f].pend)
    /\ stream' = [stream EXCEPT ![f] = Closed]
    /\ UNCHANGED present

Usable(f) == f \in Stream /\ stream[f].open

\* A stdio call on a stream that is closed: it does nothing, or the process
\* crashes.
Misuse ==
    /\ proc' \in {"run", "crash"}
    /\ UNCHANGED <<dirVars, stream, written>>

closeRPIOFile(f) ==
    IF f = NULL
    THEN UNCHANGED <<dirVars, stream, proc, written>>
    ELSE IF stream[f].open
    THEN Fclose(f) /\ UNCHANGED <<proc, written>>
    ELSE Misuse

-----------------------------------------------------------------------------
(* batch_write_file, called by w with fp and the chunks of a buffer.       *)

BatchCall(w, fp, s) ==
    /\ bpc' = [bpc EXCEPT ![w] = "check"]
    /\ bfp' = [bfp EXCEPT ![w] = fp]
    /\ bdata' = [bdata EXCEPT ![w] = s]

Goto(w, pos) ==
    /\ bpc' = [bpc EXCEPT ![w] = pos]
    /\ UNCHANGED <<bfp, bdata>>

\* writeRPIOData returns FALSE: the first time the file is reopened, the
\* second time nobody looks and the batch is dropped.
Refused(w) == Goto(w, IF bpc[w] = "check" THEN "close" ELSE "done")

Checking(w) == proc = "run" /\ bpc[w] \in {"check", "recheck"}

\* Less than 10 seconds since the last check, or the file is small enough.
BCheckPasses(w) ==
    /\ Checking(w)
    /\ Goto(w, "fwrite")
    /\ UNCHANGED <<dirVars, stream, wlock, proc, written>>

\* stat fails; it does when there is no RPIO.txt.
BStatFails(w) ==
    /\ Checking(w)
    /\ "stat" \in Faults \/ ~ present
    /\ Refused(w)
    /\ UNCHANGED <<dirVars, stream, wlock, proc, written>>

\* A mutant of BRotate: the batch goes to the old stream after the file was renamed.
BRotateGoesOn(w) ==
    /\ Checking(w)
    /\ present
    /\ Bytes(cur) > FileMax
    /\ Rotate
    /\ Goto(w, "fwrite")
    /\ UNCHANGED <<wlock, proc, written>>

\* The file is too large: system("sudo mv ..."), whose outcome is ignored.
BRotate(w) ==
    /\ Checking(w)
    /\ present
    /\ Bytes(cur) > FileMax
    /\ \/ Rotate
       \/ "mv" \in Faults /\ UNCHANGED <<dirVars, stream>>
    /\ Refused(w)
    /\ UNCHANGED <<wlock, proc, written>>

\* fwrite, its result ignored, and "writeRPIOData ok.".
BFwrite(w) ==
    /\ proc = "run" /\ bpc[w] = "fwrite"
    /\ IF Usable(bfp[w])
       THEN Fwrite(bfp[w], bdata[w]) /\ UNCHANGED <<present, proc>>
       ELSE Misuse
    /\ Goto(w, "ok")
    /\ UNCHANGED wlock

BOk(w) ==
    /\ proc = "run" /\ bpc[w] = "ok"
    /\ Goto(w, "done")
    /\ UNCHANGED <<dirVars, stream, wlock, proc, written>>

BClose(w) ==
    /\ proc = "run" /\ bpc[w] = "close"
    /\ closeRPIOFile(bfp[w])
    /\ Goto(w, "open")
    /\ UNCHANGED wlock

\* A mutant of BReopen: the batch is not written again after the file was reopened.
BReopenForgets(w) ==
    /\ proc = "run" /\ bpc[w] = "open"
    /\ \E f \in Stream :
        /\ Fopen(f)
        /\ bfp' = [bfp EXCEPT ![w] = f]
    /\ bpc' = [bpc EXCEPT ![w] = "done"]
    /\ UNCHANGED <<wlock, proc, bdata, written>>

\* The new stream goes to the local fp only.
BReopen(w) ==
    /\ proc = "run" /\ bpc[w] = "open"
    /\ \E f \in Stream :
        /\ Fopen(f)
        /\ bfp' = [bfp EXCEPT ![w] = f]
    /\ bpc' = [bpc EXCEPT ![w] = "recheck"]
    /\ UNCHANGED <<wlock, proc, bdata, written>>

\* The file cannot be opened: the lock is released and the batch is dropped.
BReopenFails(w) ==
    /\ proc = "run" /\ bpc[w] = "open"
    /\ "open" \in Faults
    /\ wlock' = FALSE
    /\ Goto(w, "done")
    /\ UNCHANGED <<dirVars, stream, proc, written>>

BatchStep(w) ==
    \/ BCheckPasses(w) \/ BStatFails(w) \/ BRotate(w)
    \/ BFwrite(w) \/ BOk(w)
    \/ BClose(w) \/ BReopen(w) \/ BReopenFails(w)

\* The caller goes on.
BatchReturn(w) ==
    /\ bpc[w] = "done"
    /\ bpc' = [bpc EXCEPT ![w] = "idle"]
    /\ UNCHANGED <<bfp, bdata>>

-----------------------------------------------------------------------------

Chunks == [no : Nat, len : Nat]

FileTypeOK ==
    /\ present \in BOOLEAN
    /\ cur \in Seq(Chunks) /\ bak \in Seq(Chunks) /\ evicted \in Seq(Chunks)
    /\ stream \in [Stream -> [open : BOOLEAN, ino : {"cur", "bak", "gone"},
                              pend : Seq(Chunks)]]
    /\ wlock \in BOOLEAN
    /\ proc \in {"run", "exit", "crash"}
    /\ bpc \in [Writer -> {"idle", "check", "recheck", "fwrite", "ok",
                           "close", "open", "done"}]
    /\ bfp \in [Writer -> Stream \cup {NULL}]
    /\ bdata \in [Writer -> Seq(Chunks)]
    /\ written \in Seq(Chunks)

\* What the files hold, oldest chunk first.
OnDisk == evicted \o bak \o cur

\* What fwrite put into a stream is in the files or pending in that stream,
\* all of it, in order and once, whatever rotations and failures there were
\* (rpio_write.c:16-95).
FileContents ==
    proc # "crash" =>
        \E f \in Stream : OnDisk \o stream[f].pend = written

\* Renaming happens under an open stream only: whoever goes on to write to a
\* stream writes to the file called RPIO.txt (rpio_write.c:65-93).
WritesGoToRpioTxt ==
    \A w \in Writer :
        bpc[w] \in {"idle", "recheck", "fwrite"} =>
            \A f \in Stream : stream[f].open => present /\ stream[f].ino = "cur"

\* "writeRPIOData ok." means that the batch was written (rpio_write.c:76-77).
OkMeansWritten ==
    \A w \in Writer :
        bpc[w] = "ok" => IsSuffix(bdata[w], written)
-----------------------------------------------------------------------------
(* The inductive invariant under FileContents.                              *)

\* malloc returns the block that was just freed.
OneStream == \E f : Stream = {f}

\* An open stream belongs to RPIO.txt as long as there is one, else to the file
\* it was renamed to; only then is there nothing in RPIO.txt, so that what the
\* stream still has follows all that is in the files (rpio_write.c:16-95).
FileInv ==
    /\ \A f \in Stream :
        /\ OnDisk \o stream[f].pend = written
        /\ stream[f].open => stream[f].ino = IF present THEN "cur" ELSE "bak"
        /\ ~ stream[f].open => stream[f].pend = <<>>
    /\ ~ present => cur = <<>>

\* The call batch_write_file(fp, s) of w on the way to its return, when nothing
\* fails: it works on an open stream, but for the moment in which RPIO.txt is away
\* and fopen about to make an empty one, which passes the second check
\* (rpio_write.c:72-95).
Batching(w, fp, s) ==
    /\ bpc[w] # "idle" => bfp[w] = fp /\ bdata[w] = s
    /\ stream[fp].open <=> bpc[w] # "open"
    /\ bpc[w] \in {"close", "open"} => ~ present
    /\ bpc[w] = "recheck" => present /\ cur = <<>>

\* RPIO.txt is there except while it is rotated.
Named(w) == bpc[w] \notin {"close", "open"} => present

\* The chunks of s that fwrite has not had yet.
Left(w, s) == IF bpc[w] \in {"ok", "done"} THEN <<>> ELSE s
===============================================================================
