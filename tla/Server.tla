-------------------------------- MODULE Server --------------------------------
(***************************************************************************)
(* The server process: main, the receiving thread, the saving thread and   *)
(* the signal handler ExitProcess (serverMain.c), around the queue of      *)
(* linklist.c and the file layer of RpioWrite.                             *)
(*                                                                         *)
(* The queue is a sequence here; that the pointers of linklist.c are one,  *)
(* for two threads that use it as these do, is what LinkList shows.  The   *)
(* sockets are left to the chunks recv returns.                            *)
(*                                                                         *)
(* The clock is a choice: the tests "more than one second since ..." may   *)
(* come out either way whenever they are made.                             *)
(***************************************************************************)
EXTENDS RpioWrite

CONSTANTS
    BuffMax,        \* WRITE_FILE_BUFF_MAX_SIZE and REVC_BUFFER_MAX_SIZE
    MaxChunks,      \* bound: how many chunks recv returns
    Signals,        \* how many signals may come: SIGTERM and SIGINT, each handler
                    \* blocks its own and never returns
    Prompt          \* does a cancelled thread end within a second?

ServerFaults == FileFaults \cup {"bind", "thread", "epoll", "malloc"}

\* The positions of main and of ExitProcess.
Main == {"socket", "createRecv", "createSave", "joinRecv", "joinSave", "teardown",
         "return"}

Handler == {"cancel", "sleep", "hjoinRecv", "hjoinSave", "flush", "flushing",
            "drain", "hlock", "hpop", "draining", "close", "free", "exit"}

ASSUME ServerAssumption ==
    /\ Writer = {"save", "main"}
    /\ NULL \notin Main \cup Handler
            \cup {"reopening", "recv", "save", "main", "wlock", "open", "poll", "batch", "idle"}
    /\ BuffMax \in Nat \ {0} /\ MaxChunks \in Nat
    /\ Signals \in 0 .. 2 /\ Prompt \in BOOLEAN

VARIABLES
    \* g_handle
    handle,         \* fp
    buffer, offset, \* the chunks in buffer, and how many bytes they are
    glist,          \* g_link_list: "null", "made" or "freed"
    list,           \* the chunks in it, oldest first
    mutex,          \* who holds linklist_mutex
    \* the receiving thread
    pcR, item,      \* its position, the chunk received
    \* the saving thread
    pcS, got,       \* its position, its data_t: one chunk or none
    \* main and, after a signal, ExitProcess on top of it
    pcM, hgot,      \* its position, the data_t of flush_list_data
    stopped,        \* the position of main that a signal interrupted, or NULL
    again,          \* that of its ExitProcess that the other signal interrupted
    \* history
    sent,           \* how many chunks recv has returned
    accepted,       \* the chunks inserted into the list, in order
    handled,        \* the chunks of the batches that have returned, or in whose
                    \* place ExitProcess was interrupted, in order
    torn            \* where the saving thread was cancelled, or NULL

gVars == <<handle, buffer, offset, glist, list, mutex>>
recvVars == <<pcR, item, sent>>
saveVars == <<pcS, got>>
signalVars == <<stopped, again>>
mainVars == <<pcM, hgot, signalVars>>
histVars == <<accepted, handled, torn>>
vars == <<fileVars, gVars, recvVars, saveVars, mainVars, histVars>>

\* recv of BuffMax bytes closes the connection instead (tcp_server.c:167-181).
Chunk == [no : 1 .. MaxChunks, len : 1 .. BuffMax - 1]

Run == proc = "run"

Init ==
    /\ FileInit
    /\ handle = NULL /\ buffer = <<>> /\ offset = 0
    /\ glist = "null" /\ list = <<>> /\ mutex = NULL
    /\ pcR = "none" /\ item = <<>>
    /\ pcS = "none" /\ got = <<>>
    /\ pcM = "socket" /\ hgot = <<>> /\ stopped = NULL /\ again = NULL
    /\ sent = 0
    /\ accepted = <<>> /\ handled = <<>> /\ torn = NULL

\* What ended the process.
Ends(how) ==
    /\ proc' = how
    /\ UNCHANGED <<dirVars, stream, wlock, batchVars, written>>

-----------------------------------------------------------------------------
(* main.                                                                   *)

MSocket ==
    /\ Run /\ pcM = "socket"
    /\ \/ pcM' = "createRecv" /\ UNCHANGED fileVars
       \/ "bind" \in Faults /\ Ends("exit") /\ UNCHANGED pcM
    /\ UNCHANGED <<gVars, recvVars, saveVars, hgot, signalVars, histVars>>

\* pthread_create; when it fails main says so and goes on.
MCreateRecv ==
    /\ Run /\ pcM = "createRecv"
    /\ \/ pcR' = "start"
       \/ "thread" \in Faults /\ UNCHANGED pcR
    /\ pcM' = "createSave"
    /\ UNCHANGED <<fileVars, gVars, item, sent, saveVars, hgot, signalVars, histVars>>

MCreateSave ==
    /\ Run /\ pcM = "createSave"
    /\ \/ pcS' = "wlock"
       \/ "thread" \in Faults /\ UNCHANGED pcS
    /\ pcM' = "joinRecv"
    /\ UNCHANGED <<fileVars, gVars, recvVars, got, hgot, signalVars, histVars>>

\* pthread_join of a thread that was never created follows a null pthread_t.
MJoinRecv ==
    /\ Run /\ pcM = "joinRecv"
    /\ pcR \in {"none", "ended"}
    /\ IF pcR = "none" THEN Ends("crash") ELSE UNCHANGED fileVars
    /\ pcM' = "joinSave"
    /\ UNCHANGED <<gVars, recvVars, saveVars, hgot, signalVars, histVars>>

MJoinSave ==
    /\ Run /\ pcM = "joinSave"
    /\ pcS \in {"none", "ended"}
    /\ IF pcS = "none" THEN Ends("crash") ELSE UNCHANGED fileVars
    /\ pcM' = "teardown"
    /\ UNCHANGED <<gVars, recvVars, saveVars, hgot, signalVars, histVars>>

\* Linklist_free follows a null list.
MTeardown ==
    /\ Run /\ pcM = "teardown"
    /\ IF glist = "null"
       THEN Ends("crash") /\ UNCHANGED glist
       ELSE glist' = "freed" /\ UNCHANGED fileVars
    /\ pcM' = "return"
    /\ UNCHANGED <<handle, buffer, offset, list, mutex>>
    /\ UNCHANGED <<recvVars, saveVars, hgot, signalVars, histVars>>

\* The saving thread ends by itself only when it has no file, so that returning
\* from main finds no stream to write out.
MReturn ==
    /\ Run /\ pcM = "return"
    /\ Ends("exit")
    /\ UNCHANGED <<gVars, recvVars, saveVars, mainVars, histVars>>

-----------------------------------------------------------------------------
(* recv_rpio_fun.                                                          *)

\* pthread_cancel has been called for the threads, by one ExitProcess or the other.
Cancelling == stopped # NULL /\ (pcM # "cancel" \/ again \notin {NULL, "cancel"})

RStart ==
    /\ Run /\ pcR = "start"
    /\ \/ pcR' = "makeList"
       \/ "epoll" \in Faults /\ pcR' = "ended"
    /\ UNCHANGED <<fileVars, gVars, item, sent, saveVars, mainVars, histVars>>

RMakeList ==
    /\ Run /\ pcR = "makeList"
    /\ \/ glist' = "made"
       \/ "malloc" \in Faults /\ UNCHANGED glist
    /\ pcR' = "wait"
    /\ UNCHANGED <<fileVars, handle, buffer, offset, list, mutex>>
    /\ UNCHANGED <<item, sent, saveVars, mainVars, histVars>>

\* A mutant of RRecv: a chunk that fills the buffer is not turned away.
RRecvFull ==
    /\ Run /\ pcR = "wait"
    /\ sent < MaxChunks
    /\ sent' = sent + 1
    /\ \E n \in 1 .. BuffMax : item' = <<[no |-> sent + 1, len |-> n]>>
    /\ pcR' = "lock"
    /\ UNCHANGED <<fileVars, gVars, saveVars, mainVars, histVars>>

\* recv returns a chunk that is shorter than the buffer.
RRecv ==
    /\ Run /\ pcR = "wait"
    /\ sent < MaxChunks
    /\ sent' = sent + 1
    /\ \E n \in 1 .. BuffMax - 1 : item' = <<[no |-> sent + 1, len |-> n]>>
    /\ pcR' = "lock"
    /\ UNCHANGED <<fileVars, gVars, saveVars, mainVars, histVars>>

\* epoll_wait times out, or the event brings nothing for the list.
RWait ==
    /\ Run /\ pcR = "wait"
    /\ UNCHANGED vars

\* epoll_wait fails, or is interrupted: the loop ends.
REnd ==
    /\ Run /\ pcR = "wait"
    /\ "epoll" \in Faults
    /\ pcR' = "ended"
    /\ UNCHANGED <<fileVars, gVars, item, sent, saveVars, mainVars, histVars>>

RLock ==
    /\ Run /\ pcR = "lock"
    /\ mutex = NULL
    /\ mutex' = "recv"
    /\ pcR' = "insert"
    /\ UNCHANGED <<fileVars, handle, buffer, offset, glist, list>>
    /\ UNCHANGED <<item, sent, saveVars, mainVars, histVars>>

\* Linklist_Insert on a list that is not there crashes; when malloc fails it
\* prints and the chunk is dropped.
RInsert ==
    /\ Run /\ pcR = "insert"
    /\ \/ /\ IF glist = "made"
             THEN /\ list' = list \o item
                  /\ accepted' = accepted \o item
                  /\ UNCHANGED fileVars
             ELSE /\ Ends("crash")
                  /\ UNCHANGED <<list, accepted>>
          /\ pcR' = "unlock"
       \/ /\ "malloc" \in Faults
          /\ pcR' = "print"
          /\ UNCHANGED <<fileVars, list, accepted>>
    /\ UNCHANGED <<handle, buffer, offset, glist, mutex>>
    /\ UNCHANGED <<item, sent, saveVars, mainVars, handled, torn>>

RUnlock ==
    /\ Run /\ pcR \in {"print", "unlock"}
    /\ mutex' = NULL
    /\ item' = <<>>
    /\ pcR' = "wait"
    /\ UNCHANGED <<fileVars, handle, buffer, offset, glist, list>>
    /\ UNCHANGED <<sent, saveVars, mainVars, histVars>>

\* The cancellation points: epoll_wait, accept and recv, and the printf of
\* Linklist_Insert, which leaves linklist_mutex locked.
RCancelled ==
    /\ Run /\ Cancelling
    /\ pcR \in {"start", "makeList", "wait", "print"}
    /\ pcR' = "ended"
    /\ UNCHANGED <<fileVars, gVars, item, sent, saveVars, mainVars, histVars>>

RNext ==
    \/ RStart \/ RMakeList \/ RRecv \/ RWait \/ REnd
    \/ RLock \/ RInsert \/ RUnlock \/ RCancelled

-----------------------------------------------------------------------------
(* save_data_fun.                                                          *)

\* rw_mutex_wlock: nobody else takes this lock, so it fails only when there is
\* none.
SWlock ==
    /\ Run /\ pcS = "wlock"
    /\ \/ wlock' = TRUE /\ pcS' = "open"
       \/ "malloc" \in Faults /\ pcS' = "ended" /\ UNCHANGED wlock
    /\ UNCHANGED <<dirVars, stream, proc, batchVars, written>>
    /\ UNCHANGED <<gVars, recvVars, got, mainVars, histVars>>

SOpen ==
    /\ Run /\ pcS = "open"
    /\ \/ /\ \E f \in Stream : Fopen(f) /\ handle' = f
          /\ offset' = 0
          /\ pcS' = "poll"
       \/ /\ "open" \in Faults
          /\ pcS' = "ended"
          /\ UNCHANGED <<dirVars, stream, handle, offset>>
    /\ UNCHANGED <<wlock, proc, batchVars, written>>
    /\ UNCHANGED <<buffer, glist, list, mutex, recvVars, got, mainVars, histVars>>

\* No list yet, or nothing in it: usleep(100).
SPoll ==
    /\ Run /\ pcS = "poll"
    /\ glist # "freed" /\ list = <<>>
    /\ UNCHANGED vars

\* A mutant of SIdleFlush: the buffer is written only when another chunk does not fit.
SIdleFlushForgotten ==
    /\ Run /\ pcS = "poll"
    /\ glist = "made" /\ list = <<>>
    /\ offset >= BuffMax
    /\ BatchCall("save", handle, buffer)
    /\ pcS' = "idle"
    /\ UNCHANGED <<dirVars, stream, wlock, proc, written>>
    /\ UNCHANGED <<gVars, recvVars, got, mainVars, histVars>>

\* Nothing in the list for more than a second.
SIdleFlush ==
    /\ Run /\ pcS = "poll"
    /\ glist = "made" /\ list = <<>>
    /\ offset > 0
    /\ BatchCall("save", handle, buffer)
    /\ pcS' = "idle"
    /\ UNCHANGED <<dirVars, stream, wlock, proc, written>>
    /\ UNCHANGED <<gVars, recvVars, got, mainVars, histVars>>

\* The list has a chunk, or ExitProcess has freed it: then this crashes.
SSee ==
    /\ Run /\ pcS = "poll"
    /\ IF glist = "freed"
       THEN Ends("crash") /\ UNCHANGED pcS
       ELSE list # <<>> /\ pcS' = "lock" /\ UNCHANGED fileVars
    /\ UNCHANGED <<gVars, recvVars, got, mainVars, histVars>>

SLock ==
    /\ Run /\ pcS = "lock"
    /\ mutex = NULL
    /\ mutex' = "save"
    /\ pcS' = "pop"
    /\ UNCHANGED <<fileVars, handle, buffer, offset, glist, list>>
    /\ UNCHANGED <<recvVars, got, mainVars, histVars>>

\* What Linklist_pop takes from the list and what it leaves.
First(s) == IF s = <<>> THEN <<>> ELSE <<Head(s)>>
Rest(s) == IF s = <<>> THEN <<>> ELSE Tail(s)

\* Linklist_pop and pthread_mutex_unlock.
SPop ==
    /\ Run /\ pcS = "pop"
    /\ IF glist = "freed" THEN Ends("crash") ELSE UNCHANGED fileVars
    /\ got' = First(list)
    /\ list' = Rest(list)
    /\ mutex' = NULL
    /\ pcS' = "decide"
    /\ UNCHANGED <<handle, buffer, offset, glist>>
    /\ UNCHANGED <<recvVars, mainVars, histVars>>

Size(s) == IF s = <<>> THEN 0 ELSE s[1].len

\* The chunk does not fit in the buffer.
SFull ==
    /\ Run /\ pcS = "decide"
    /\ offset + Size(got) >= BuffMax
    /\ BatchCall("save", handle, buffer)
    /\ pcS' = "batch"
    /\ UNCHANGED <<dirVars, stream, wlock, proc, written>>
    /\ UNCHANGED <<gVars, recvVars, got, mainVars, histVars>>

\* It does, but the buffer has not been written for more than a second.
SLate ==
    /\ Run /\ pcS = "decide"
    /\ offset + Size(got) < BuffMax
    /\ offset > 0
    /\ BatchCall("save", handle, buffer)
    /\ pcS' = "batch"
    /\ UNCHANGED <<dirVars, stream, wlock, proc, written>>
    /\ UNCHANGED <<gVars, recvVars, got, mainVars, histVars>>

\* A mutant of SFits: the test looks at the buffer before the chunk is in it.
SFitsUnchecked ==
    /\ Run /\ pcS = "decide"
    /\ offset < BuffMax
    /\ pcS' = "append"
    /\ UNCHANGED <<fileVars, gVars, recvVars, got, mainVars, histVars>>

SFits ==
    /\ Run /\ pcS = "decide"
    /\ offset + Size(got) < BuffMax
    /\ pcS' = "append"
    /\ UNCHANGED <<fileVars, gVars, recvVars, got, mainVars, histVars>>

SBatch ==
    /\ pcS \in {"batch", "idle"}
    /\ BatchStep("save")
    /\ UNCHANGED <<gVars, recvVars, saveVars, mainVars, histVars>>

\* A mutant of SReturn: pHandle->offset = 0 forgotten after a batch.
SReturnKeeps ==
    /\ Run /\ pcS \in {"batch", "idle"}
    /\ BatchReturn("save")
    /\ handled' = handled \o buffer
    /\ pcS' = IF pcS = "batch" THEN "append" ELSE "poll"
    /\ UNCHANGED <<dirVars, stream, wlock, proc, written>>
    /\ UNCHANGED <<gVars, recvVars, got, mainVars, accepted, torn>>

\* batch_write_file returns: the buffer is empty again.
SReturn ==
    /\ Run /\ pcS \in {"batch", "idle"}
    /\ BatchReturn("save")
    /\ handled' = handled \o buffer
    /\ buffer' = <<>>
    /\ offset' = 0
    /\ pcS' = IF pcS = "batch" THEN "append" ELSE "poll"
    /\ UNCHANGED <<dirVars, stream, wlock, proc, written>>
    /\ UNCHANGED <<handle, glist, list, mutex, recvVars, got, mainVars>>
    /\ UNCHANGED <<accepted, torn>>

\* memcpy into the buffer.
SAppend ==
    /\ Run /\ pcS = "append"
    /\ buffer' = buffer \o got
    /\ offset' = offset + Size(got)
    /\ got' = <<>>
    /\ pcS' = "poll"
    /\ UNCHANGED <<fileVars, handle, glist, list, mutex>>
    /\ UNCHANGED <<recvVars, mainVars, histVars>>

\* A mutant of SCancelled: the thread can be cancelled with linklist_mutex locked.
SCancelledLocked ==
    /\ Run /\ Cancelling
    /\ pcS \in {"wlock", "open", "poll", "pop"}
    /\ torn' = pcS
    /\ pcS' = "ended"
    /\ UNCHANGED <<fileVars, gVars, recvVars, got, mainVars, accepted, handled>>

\* The cancellation points outside a batch: printf, fopen, usleep.
SCancelled ==
    /\ Run /\ Cancelling
    /\ pcS \in {"wlock", "open", "poll"}
    /\ torn' = pcS
    /\ pcS' = "ended"
    /\ UNCHANGED <<fileVars, gVars, recvVars, got, mainVars, accepted, handled>>

\* An fwrite does not come back from write(2): part of the batch has been copied.
FwriteCutShort(w) ==
    /\ bpc[w] = "fwrite" /\ Usable(bfp[w])
    /\ Bytes(stream[bfp[w]].pend \o bdata[w]) > StdioMax
    /\ \E k \in 1 .. Len(bdata[w]) - 1 : Fwrite(bfp[w], SubSeq(bdata[w], 1, k))
    /\ UNCHANGED present

\* The cancellation points of batch_write_file: printf, system, fclose, fopen,
\* and write(2).  bpc and bdata stay as they were.
SCancelledInBatch ==
    /\ Run /\ Cancelling
    /\ pcS \in {"batch", "idle"} /\ bpc["save"] # "done"
    /\ UNCHANGED <<dirVars, stream, written>> \/ FwriteCutShort("save")
    /\ torn' = pcS
    /\ pcS' = "ended"
    /\ UNCHANGED <<wlock, proc, batchVars>>
    /\ UNCHANGED <<gVars, recvVars, got, mainVars, accepted, handled>>

SNext ==
    \/ SWlock \/ SOpen \/ SPoll \/ SIdleFlush \/ SSee \/ SLock \/ SPop
    \/ SFull \/ SLate \/ SFits \/ SBatch \/ SReturn \/ SAppend
    \/ SCancelled \/ SCancelledInBatch

-----------------------------------------------------------------------------
(* ExitProcess, which the kernel runs on top of main.                      *)

\* The first signal.
Signal ==
    /\ Run /\ Signals > 0
    /\ stopped = NULL /\ pcM \in Main
    /\ stopped' = pcM
    /\ pcM' = "cancel"
    /\ UNCHANGED <<fileVars, gVars, recvVars, saveVars, hgot, again, histVars>>

\* The other signal: ExitProcess on top of ExitProcess, from its start.  The first
\* one never goes on: neither with the chunk it had in hand, nor to reopen a file
\* it had closed.
SignalAgain ==
    /\ Run /\ Signals > 1
    /\ pcM \in Handler /\ again = NULL
    /\ again' = IF pcM \in {"flushing", "draining"} /\ bpc["main"] = "open"
                THEN "reopening" ELSE pcM
    /\ pcM' = "cancel"
    /\ hgot' = <<>> /\ handled' = handled \o hgot
    /\ \/ UNCHANGED <<dirVars, stream, written>>
       \/ pcM \in {"flushing", "draining"} /\ FwriteCutShort("main")
    /\ UNCHANGED <<wlock, proc, batchVars>>
    /\ UNCHANGED <<gVars, recvVars, saveVars, stopped, accepted, torn>>

\* pthread_cancel of both threads; for a thread that was never created it
\* follows a null pthread_t.
HCancel ==
    /\ Run /\ pcM = "cancel"
    /\ IF "none" \in {pcR, pcS} THEN Ends("crash") ELSE UNCHANGED fileVars
    /\ pcM' = "sleep"
    /\ UNCHANGED <<gVars, recvVars, saveVars, hgot, signalVars, histVars>>

\* A mutant of HSleep: without sleep(1).
HSleepSkipped ==
    /\ Run /\ pcM = "sleep"
    /\ pcM' = "hjoinRecv"
    /\ UNCHANGED <<fileVars, gVars, recvVars, saveVars, hgot, signalVars, histVars>>

\* sleep(1): time enough for both threads to reach a cancellation point.
HSleep ==
    /\ Run /\ pcM = "sleep"
    /\ Prompt => pcR = "ended" /\ pcS = "ended"
    /\ pcM' = "hjoinRecv"
    /\ UNCHANGED <<fileVars, gVars, recvVars, saveVars, hgot, signalVars, histVars>>

\* pthread_join waits, unless main or the other ExitProcess is stopped joining the
\* same thread: then it returns EINVAL at once, and nobody looks.
HJoinRecv ==
    /\ Run /\ pcM = "hjoinRecv"
    /\ stopped = "joinRecv" \/ again = "hjoinRecv" \/ pcR = "ended"
    /\ pcM' = "hjoinSave"
    /\ UNCHANGED <<fileVars, gVars, recvVars, saveVars, hgot, signalVars, histVars>>

\* A mutant of HJoinSave: the saving thread is not joined.
HJoinSaveSkipped ==
    /\ Run /\ pcM = "hjoinSave"
    /\ pcM' = "flush"
    /\ UNCHANGED <<fileVars, gVars, recvVars, saveVars, hgot, signalVars, histVars>>

Unjoinable == stopped = "joinSave" \/ again = "hjoinSave"

HJoinSave ==
    /\ Run /\ pcM = "hjoinSave"
    /\ Unjoinable \/ pcS = "ended"
    /\ pcM' = "flush"
    /\ UNCHANGED <<fileVars, gVars, recvVars, saveVars, hgot, signalVars, histVars>>

\* A mutant of HFlush: the buffer is not written, only the list is.
HFlushListOnly ==
    /\ Run /\ pcM = "flush"
    /\ pcM' = IF handle = NULL THEN "close" ELSE "drain"
    /\ UNCHANGED <<fileVars>>
    /\ UNCHANGED <<gVars, recvVars, saveVars, hgot, signalVars, histVars>>

\* flush_list_data: nothing without a file, else the buffer first.
HFlush ==
    /\ Run /\ pcM = "flush"
    /\ IF handle = NULL
       THEN pcM' = "close" /\ UNCHANGED batchVars
       ELSE IF offset > 0
       THEN pcM' = "flushing" /\ BatchCall("main", handle, buffer)
       ELSE pcM' = "drain" /\ UNCHANGED batchVars
    /\ UNCHANGED <<dirVars, stream, wlock, proc, written>>
    /\ UNCHANGED <<gVars, recvVars, saveVars, hgot, signalVars, histVars>>

HBatch ==
    /\ pcM \in {"flushing", "draining"}
    /\ BatchStep("main")
    /\ UNCHANGED <<gVars, recvVars, saveVars, mainVars, histVars>>

HFlushed ==
    /\ Run /\ pcM = "flushing"
    /\ BatchReturn("main")
    /\ handled' = handled \o buffer
    /\ buffer' = <<>>
    /\ offset' = 0
    /\ pcM' = "drain"
    /\ UNCHANGED <<dirVars, stream, wlock, proc, written>>
    /\ UNCHANGED <<handle, glist, list, mutex, recvVars, saveVars, hgot, signalVars>>
    /\ UNCHANGED <<accepted, torn>>

\* Then the list, a chunk at a time; Linklist_Empty follows a null list, or one that
\* has been freed.
HDrain ==
    /\ Run /\ pcM = "drain"
    /\ IF glist # "made" THEN Ends("crash") ELSE UNCHANGED fileVars
    /\ pcM' = IF list = <<>> THEN "close" ELSE "hlock"
    /\ UNCHANGED <<gVars, recvVars, saveVars, hgot, signalVars, histVars>>

HLock ==
    /\ Run /\ pcM = "hlock"
    /\ mutex = NULL
    /\ mutex' = "main"
    /\ pcM' = "hpop"
    /\ UNCHANGED <<fileVars, handle, buffer, offset, glist, list>>
    /\ UNCHANGED <<recvVars, saveVars, hgot, signalVars, histVars>>

\* Linklist_pop, pthread_mutex_unlock and, for a chunk that was there, a batch.
HPop ==
    /\ Run /\ pcM = "hpop"
    /\ hgot' = First(list)
    /\ list' = Rest(list)
    /\ mutex' = NULL
    /\ IF list # <<>>
       THEN pcM' = "draining" /\ BatchCall("main", handle, hgot')
       ELSE pcM' = "drain" /\ UNCHANGED batchVars
    /\ UNCHANGED <<dirVars, stream, wlock, proc, written>>
    /\ UNCHANGED <<handle, buffer, offset, glist>>
    /\ UNCHANGED <<recvVars, saveVars, signalVars, histVars>>

HDrained ==
    /\ Run /\ pcM = "draining"
    /\ BatchReturn("main")
    /\ handled' = handled \o hgot
    /\ hgot' = <<>>
    /\ pcM' = "drain"
    /\ UNCHANGED <<dirVars, stream, wlock, proc, written>>
    /\ UNCHANGED <<gVars, recvVars, saveVars, signalVars, accepted, torn>>

\* A mutant of HClose: the file is not closed, and _exit writes nothing out.
HCloseSkipped ==
    /\ Run /\ pcM = "close"
    /\ pcM' = "free"
    /\ UNCHANGED <<fileVars, gVars, recvVars, saveVars, hgot, signalVars, histVars>>

\* closeRPIOFile of the address the file had when it was first opened.
HClose ==
    /\ Run /\ pcM = "close"
    /\ closeRPIOFile(handle)
    /\ pcM' = "free"
    /\ UNCHANGED <<wlock, batchVars>>
    /\ UNCHANGED <<gVars, recvVars, saveVars, hgot, signalVars, histVars>>

\* Linklist_free follows a null list, and a second time frees what is not allocated.
HFree ==
    /\ Run /\ pcM = "free"
    /\ IF glist # "made"
       THEN Ends("crash") /\ UNCHANGED glist
       ELSE glist' = "freed" /\ UNCHANGED fileVars
    /\ pcM' = "exit"
    /\ UNCHANGED <<handle, buffer, offset, list, mutex>>
    /\ UNCHANGED <<recvVars, saveVars, hgot, signalVars, histVars>>

\* _exit(1)
HExit ==
    /\ Run /\ pcM = "exit"
    /\ Ends("exit")
    /\ UNCHANGED <<gVars, recvVars, saveVars, mainVars, histVars>>

MNext ==
    \/ MSocket \/ MCreateRecv \/ MCreateSave
    \/ MJoinRecv \/ MJoinSave \/ MTeardown \/ MReturn

HNext ==
    \/ HCancel \/ HSleep \/ HJoinRecv \/ HJoinSave
    \/ HFlush \/ HBatch \/ HFlushed \/ HDrain \/ HLock \/ HPop \/ HDrained
    \/ HClose \/ HFree \/ HExit

\* The process is gone.
Gone == ~ Run /\ UNCHANGED vars

Next == MNext \/ Signal \/ SignalAgain \/ HNext \/ RNext \/ SNext \/ Gone

Spec == Init /\ [][Next]_vars

(* Every thread that can go on does, a cancelled thread ends at its next   *)
(* cancellation point, and a second of silence passes.  Signals and new    *)
(* chunks need not come.                                                   *)
Fairness ==
    /\ WF_vars(MNext \/ HNext)
    /\ WF_vars(RStart \/ RMakeList \/ RLock \/ RInsert \/ RUnlock \/ RCancelled)
    /\ WF_vars(SNext)

FairSpec == Spec /\ Fairness

-----------------------------------------------------------------------------

TypeOK ==
    /\ FileTypeOK
    /\ handle \in Stream \cup {NULL}
    /\ buffer \in Seq(Chunk) /\ offset \in Nat
    /\ glist \in {"null", "made", "freed"}
    /\ list \in Seq(Chunk)
    /\ mutex \in {NULL, "recv", "save", "main"}
    /\ pcR \in {"none", "start", "makeList", "wait", "lock", "insert", "print",
                "unlock", "ended"}
    /\ item \in Seq(Chunk) /\ sent \in 0 .. MaxChunks
    /\ pcS \in {"none", "wlock", "open", "poll", "idle", "lock", "pop", "decide",
                "batch", "append", "ended"}
    /\ got \in Seq(Chunk) /\ Len(got) <= 1
    /\ pcM \in Main \cup Handler
    /\ hgot \in Seq(Chunk) /\ Len(hgot) <= 1
    /\ stopped \in Main \cup {NULL} /\ again \in Handler \cup {"reopening", NULL}
    /\ accepted \in Seq(Chunk) /\ handled \in Seq(Chunk)
    /\ torn \in {NULL, "wlock", "open", "poll", "batch", "idle"}

\* memcpy stays inside the buffer, and offset is how much of it is used; no
\* batch is empty (rpio_write.c:186-206 with tcp_server.c:167).
BufferFits ==
    /\ offset < BuffMax
    /\ offset = Bytes(buffer)
    /\ pcS = "append" => offset + Size(got) < BuffMax
    /\ pcS \in {"batch", "idle"} => bdata["save"] # <<>>

\* ExitProcess can tell that the saving thread has ended.
Exclusive == Prompt \/ ~ Unjoinable

\* No chunk is lost or overtaken on its way from the list to the batches: those
\* accepted are those handled, in the buffer, in the hands of a thread and in
\* the list, in that order, whatever fails.  Two cases are excepted: the saving
\* thread is cancelled in a batch; and it outlives sleep(1) while nobody in
\* ExitProcess can join it (rpio_write.c:97-212).
Conservation ==
    torn # "batch" /\ Exclusive =>
        accepted = handled \o buffer \o got \o hgot \o list

\* While there is no signal the server is a relay from the list to the files:
\* what is in RPIO.txt.bak and RPIO.txt is a prefix of what was accepted
\* (tcp_server.c:173-175 to rpio_write.c:76).
Saving == INSTANCE Relay WITH delivered <- OnDisk

ServerIsRelay == Saving!Spec

\* Every chunk that was accepted has left the buffer some time later, even when
\* nothing comes after it: the flush after a second of silence
\* (rpio_write.c:157-172).
EveryChunkHandled ==
    \A n \in 1 .. MaxChunks :
        Len(accepted) >= n ~> (Len(handled) >= n \/ stopped # NULL)

\* "time to write file.": after a second of silence what was accepted is in the
\* file (rpio_write.c:160-165).
EveryChunkOnDisk ==
    \A n \in 1 .. MaxChunks :
        Len(accepted) >= n ~> (Len(OnDisk) >= n \/ stopped # NULL)

\* The signal handler ends the process, and does not wait for ever, unless the
\* second signal finds it with linklist_mutex locked (serverMain.c:9-34,
\* rpio_write.c:115-117).
ExitEventually == (stopped # NULL) ~> (~ Run \/ again = "hpop")

\* ExitProcess is in flush_list_data or closes the file.
Flushing ==
    pcM \in {"flush", "flushing", "drain", "hlock", "hpop", "draining", "close"}

\* flush_list_data has the buffer, the list and the file to itself, even when a
\* cancelled thread takes longer than the second: unless main was waiting for
\* the saving thread itself, ExitProcess joins it (serverMain.c:13-19).
FlushAlone == Flushing => pcS = "ended" \/ Unjoinable

\* Once the server is up and as long as main has not freed the list, a signal does
\* not crash it: ExitProcess touches no thread, list or stream that is not there,
\* the exceptions being a thread stopped between fclose and fopen, and a second
\* signal after the first ExitProcess has closed the file (serverMain.c:9-34).
NoCrash ==
    proc = "crash" =>
        \/ stopped \in {"socket", "createRecv", "createSave", "return"}
        \/ glist = "null"
        \/ bpc["save"] = "open"
        \/ again \in {"reopening", "free", "exit"}

\* s without the chunks l, wherever s has them.
Without(s, l) ==
    {SubSeq(s, 1, j) \o SubSeq(s, j + Len(l) + 1, Len(s)) :
        j \in {i \in 0 .. Len(s) - Len(l) : SubSeq(s, i + 1, i + Len(l)) = l}}

\* s is t with at most n of its chunks, that follow each other, there twice.
Repeats(s, t, n) ==
    \E i \in 0 .. Len(t), k \in 0 .. Len(t) :
        /\ i <= k /\ k <= i + n
        /\ s = SubSeq(t, 1, k) \o SubSeq(t, i + 1, Len(t))

\* The saving thread was cancelled with the file open, and no second signal came
\* while ExitProcess wrote a batch.
Saved ==
    /\ torn \in {"poll", "idle", "batch"} /\ bpc["save"] # "open"
    /\ again \notin {"flushing", "draining", "reopening"}

\* A cancellation inside a batch loses the chunk that has been popped and not yet
\* copied into the buffer, and may leave chunks of that batch in the file, which
\* ExitProcess writes again.
Lost == IF torn = "batch" THEN got ELSE <<>>
Overlap == IF torn = "poll" THEN 0 ELSE Len(bdata["save"])

\* After a signal the files hold every chunk accepted, in order, but for: the one
\* in the saving thread's hands when it is cancelled inside a batch, which is
\* lost, and the chunks of that batch, which may be there twice.  The saving
\* thread must have opened the file, and not be between fclose and fopen; nor must
\* a second signal come while ExitProcess writes a batch (serverMain.c:13-20,
\* rpio_write.c:97-125).
ExitKeepsData ==
    proc = "exit" /\ Saved =>
        \E kept \in Without(accepted, Lost) : Repeats(OnDisk, kept, Overlap)

-----------------------------------------------------------------------------
(* The inductive invariant under Conservation and FlushAlone.               *)

\* What sleep(1) is for.
SleptInv ==
    Prompt /\ (Flushing \/ pcM \in {"hjoinRecv", "hjoinSave"}) => pcS = "ended"

\* A thread has a chunk in its hands only between a pop and the end of the batch
\* or the memcpy that follows, and ExitProcess pops only once the buffer is
\* empty.
HandInv ==
    /\ got # <<>> => pcS \in {"decide", "batch", "append"} \/ torn = "batch"
    /\ hgot # <<>> => pcM = "draining"
    /\ torn # NULL => pcS = "ended"
    /\ pcM \in {"socket", "createRecv", "createSave"} => pcS = "none"
    /\ offset = 0 \/ pcS \in {"none", "wlock", "open"} => buffer = <<>>
    /\ pcM \in {"drain", "hlock", "hpop", "draining"} /\ Exclusive => buffer = <<>>

\* What holds of a chunk's way through the server, at any time and whatever fails
\* (rpio_write.c:97-212, serverMain.c:9-34).
ServerInv ==
    /\ TypeOK
    /\ Conservation
    /\ FlushAlone
    /\ SleptInv
    /\ HandInv

-----------------------------------------------------------------------------
(* The inductive invariant under ServerIsRelay, without signals or failures. *)

\* main waits for threads that do not end; the list is there before the first
\* chunk.
QuietInv ==
    /\ Run /\ stopped = NULL /\ again = NULL /\ torn = NULL
    /\ pcM \in {"socket", "createRecv", "createSave", "joinRecv"} /\ hgot = <<>>
    /\ pcR = "none" <=> pcM \in {"socket", "createRecv"}
    /\ pcR # "ended" /\ pcS # "ended"
    /\ glist = IF pcR \in {"none", "start", "makeList"} THEN "null" ELSE "made"
    /\ pcR \in {"lock", "insert"} => \E c \in Chunk : item = <<c>>

\* Where the saving thread is in its batch, what has been written of it
\* (rpio_write.c:127-212).
SavingInv ==
    /\ handle = NULL <=> pcS \in {"none", "wlock", "open"}
    /\ bpc["save"] # "idle" <=> pcS \in {"batch", "idle"}
    /\ handle # NULL => Batching("save", handle, buffer)
    /\ written \o Left("save", buffer) = handled \o buffer

-----------------------------------------------------------------------------
(* The inductive invariant under NoCrash: signals, but no failures.         *)

\* main's position, or the one in which the first signal stopped it.
Reached == IF stopped = NULL THEN pcM ELSE stopped

\* main waits for threads that only ExitProcess ends.
StagesInv ==
    /\ Reached \in {"socket", "createRecv", "createSave", "joinRecv"}
    /\ stopped = NULL => again = NULL /\ pcR # "ended" /\ pcS # "ended"
    /\ stopped # NULL => pcM \in Handler
    /\ pcR = "none" <=> Reached \in {"socket", "createRecv"}
    /\ pcS = "none" <=> Reached \in {"socket", "createRecv", "createSave"}

\* One ExitProcess or the other is past sleep(1).
Slept == pcM \in Handler \ {"cancel", "sleep"} \/ again \notin {NULL, "cancel", "sleep"}

\* What ExitProcess does from then on it does alone; it frees the list last.
AftermathInv ==
    /\ Prompt /\ Slept => pcR = "ended" /\ pcS = "ended"
    /\ glist = "freed" => pcM = "exit" \/ again = "exit"

\* w is the one that uses the file fp, which is closed only while w rotates it.
Using(w, fp) ==
    /\ bpc[w] # "idle" => bfp[w] = fp
    /\ stream[fp].open <=> bpc[w] # "open"

\* Whoever uses the file, first the saving thread and then ExitProcess, finds it
\* open (rpio_write.c:65-125).
FileUsable ==
    /\ pcS \notin {"none", "wlock", "open", "ended"}
            \/ pcM \in {"flushing", "drain", "hlock", "hpop", "draining"} => handle # NULL
    /\ pcS \notin {"batch", "idle", "ended"} => bpc["save"] = "idle"
    /\ handle # NULL /\ pcS # "ended" => Using("save", handle)
    /\ handle # NULL /\ pcS = "ended" =>
            \/ bpc["save"] = "open" \/ again \in {"reopening", "free", "exit"}
            \/ pcM \in {"free", "exit"}
            \/ IF pcM \in {"flushing", "draining"} THEN Using("main", handle)
               ELSE stream[handle].open

ShutdownInv ==
    /\ StagesInv /\ AftermathInv
    /\ Run => FileUsable
    /\ NoCrash

-----------------------------------------------------------------------------
(* The inductive invariant under ExitKeepsData: signals, but no failures.   *)

\* What ExitProcess has in its hands, and what of it fwrite has not had yet.
InHand == buffer \o hgot
Unwritten == IF pcM \in {"flushing", "draining"} THEN Left("main", InHand) ELSE InHand

\* ExitProcess has written all there is, in its first run or its second.
Emptied == pcM \in {"close", "free", "exit"} \/ again \in {"close", "free", "exit"}

\* No chunk is lost but the one the saving thread had in hand.
Accounted == handled \o InHand \o list \in Without(accepted, Lost)

\* Every chunk is written once and in order but for those written twice.
InOrder == Repeats(written \o Unwritten, handled \o InHand, Overlap)

\* flush_list_data leaves nothing, and its batches go to the file.
FlushInv ==
    /\ Emptied => InHand = <<>> /\ list = <<>>
    /\ pcM \in {"flushing", "draining"} =>
        /\ bpc["main"] # "idle" /\ bdata["main"] = InHand
        /\ Batching("main", handle, InHand) \/ again \in {"free", "exit"}
    /\ pcM \in {"free", "exit"} => ~ stream[handle].open

\* Until the saving thread is cancelled it hands over one batch after another; from
\* then on all chunks are on their way to the file (rpio_write.c:97-212).
KeepInv ==
    /\ torn = NULL => pcS # "ended" /\ SavingInv
    /\ proc = "exit" => pcM = "exit"
    /\ Saved => handle # NULL /\ Accounted /\ InOrder /\ FlushInv
===============================================================================
