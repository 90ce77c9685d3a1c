------------------------------- MODULE LinkList -------------------------------
(***************************************************************************)
(* The queue between the two threads of the server: the linked list of     *)
(* linklist.c at the level of its pointers, with the receiving thread      *)
(* inserting under linklist_mutex (tcp_server.c) and the saving thread     *)
(* polling Linklist_Empty WITHOUT the mutex and popping under it           *)
(* (rpio_write.c).                                                         *)
(*                                                                         *)
(* Every assignment to a pointer is a step of its own, so the unlocked     *)
(* Linklist_Empty sees every intermediate list.  Memory is explicit:       *)
(* malloc returns any address that is not allocated, a freed one included, *)
(* with arbitrary contents, and free leaves list->tail dangling when the   *)
(* last node goes.                                                         *)
(***************************************************************************)
EXTENDS Integers, Sequences

CONSTANTS
    Node,           \* the addresses malloc may return for a LinkList node
    NULL,           \* the null pointer; also "nobody" for the mutex
    MaxChunks       \* bound: how many chunks the receiving thread gets

ASSUME LinkListAssumption ==
    /\ NULL \notin Node /\ NULL \notin {"recv", "save"}
    /\ MaxChunks \in Nat

Chunk == 1 .. MaxChunks

VARIABLES
    \* the header node, g_link_list
    first,          \* list->next
    last,           \* list->tail
    \* the memory
    heap,           \* the addresses that are allocated now
    next,           \* p->next of every address, meaningful or not
    data,           \* p->data of every address, meaningful or not
    mutex,          \* who holds linklist_mutex
    \* the receiving thread
    pcR, item, p,   \* its position, the chunk received, Linklist_Insert's p
    \* the saving thread
    pcS, q, got,    \* its position, Linklist_pop's q, the caller's data_t
    \* history
    sent,           \* how many chunks recv has returned
    accepted,       \* the chunks linked into the list, in order
    taken,          \* the chunks unlinked from the list, in order
    chain           \* the nodes linked and not yet unlinked, oldest first

recvVars == <<pcR, item, p, sent>>
saveVars == <<pcS, q, got>>
histVars == <<accepted, taken, chain>>
vars == <<first, last, heap, next, data, mutex, recvVars, saveVars, histVars>>

Pointer == Node \cup {NULL}

\* Create_Linklist: a header without nodes.
Init ==
    /\ first = NULL
    /\ last = NULL
    /\ heap = {}
    /\ next \in [Node -> {NULL}]
    /\ data \in [Node -> {0}]
    /\ mutex = NULL
    /\ pcR = "recv" /\ item = 0 /\ p = NULL /\ sent = 0
    /\ pcS = "poll" /\ q = NULL /\ got = 0
    /\ accepted = <<>> /\ taken = <<>> /\ chain = <<>>

-----------------------------------------------------------------------------
(* The receiving thread: recv_rpio_fun around Linklist_Insert.             *)

\* recv returned a chunk; it is copied into a data_t of the caller.
Recv ==
    /\ pcR = "recv"
    /\ sent < MaxChunks
    /\ sent' = sent + 1
    /\ item' = sent + 1
    /\ pcR' = "lock"
    /\ UNCHANGED <<first, last, heap, next, data, mutex, p, saveVars, histVars>>

\* A mutant of RLock: pthread_mutex_lock around Linklist_Insert forgotten.
RLockSkipped ==
    /\ pcR = "lock"
    /\ mutex' = mutex
    /\ pcR' = "malloc"
    /\ UNCHANGED <<first, last, heap, next, data, item, p, sent, saveVars, histVars>>

RLock ==
    /\ pcR = "lock"
    /\ mutex = NULL
    /\ mutex' = "recv"
    /\ pcR' = "malloc"
    /\ UNCHANGED <<first, last, heap, next, data, item, p, sent, saveVars, histVars>>

\* The new node holds the chunk; its link is whatever the memory held.  When
\* malloc fails the chunk is dropped: the caller ignores the -1.
RMalloc ==
    /\ pcR = "malloc"
    /\ \/ \E n \in Node \ heap, junk \in Pointer :
            /\ heap' = heap \cup {n}
            /\ data' = [data EXCEPT ![n] = item]
            /\ next' = [next EXCEPT ![n] = junk]
            /\ p' = n
            /\ pcR' = "link"
       \/ /\ pcR' = "unlock"
          /\ UNCHANGED <<heap, next, data, p>>
    /\ UNCHANGED <<first, last, mutex, item, sent, saveVars, histVars>>

\* A mutant of RLink: the test is on list->tail, which Linklist_pop never resets.
RLinkByTail ==
    /\ pcR = "link"
    /\ IF last = NULL
       THEN first' = p /\ UNCHANGED next
       ELSE next' = [next EXCEPT ![last] = p] /\ UNCHANGED first
    /\ accepted' = Append(accepted, item)
    /\ chain' = Append(chain, p)
    /\ pcR' = "tail"
    /\ UNCHANGED <<last, heap, data, mutex, item, p, sent, saveVars, taken>>

\* if (list->next == NULL) list->next = p; else list->tail->next = p;
RLink ==
    /\ pcR = "link"
    /\ IF first = NULL
       THEN first' = p /\ UNCHANGED next
       ELSE next' = [next EXCEPT ![last] = p] /\ UNCHANGED first
    /\ accepted' = Append(accepted, item)
    /\ chain' = Append(chain, p)
    /\ pcR' = "tail"
    /\ UNCHANGED <<last, heap, data, mutex, item, p, sent, saveVars, taken>>

\* A mutant of RTail: list->tail is set only when the list was empty.
RTailOnce ==
    /\ pcR = "tail"
    /\ last' = IF first = p THEN p ELSE last
    /\ pcR' = "terminate"
    /\ UNCHANGED <<first, heap, next, data, mutex, item, p, sent, saveVars, histVars>>

RTail ==
    /\ pcR = "tail"
    /\ last' = p
    /\ pcR' = "terminate"
    /\ UNCHANGED <<first, heap, next, data, mutex, item, p, sent, saveVars, histVars>>

\* A mutant of RTerminate: p->next is left as malloc returned it.
RTerminateSkipped ==
    /\ pcR = "terminate"
    /\ pcR' = "unlock"
    /\ UNCHANGED <<first, last, heap, next, data, mutex, item, p, sent, saveVars, histVars>>

RTerminate ==
    /\ pcR = "terminate"
    /\ next' = [next EXCEPT ![p] = NULL]
    /\ pcR' = "unlock"
    /\ UNCHANGED <<first, last, heap, data, mutex, item, p, sent, saveVars, histVars>>

RUnlock ==
    /\ pcR = "unlock"
    /\ mutex' = NULL
    /\ pcR' = "recv"
    /\ UNCHANGED <<first, last, heap, next, data, item, p, sent, saveVars, histVars>>

-----------------------------------------------------------------------------
(* The saving thread: save_data_fun around Linklist_Empty and Linklist_pop. *)

\* A mutant of SSee: Linklist_Empty looks at list->tail, which Linklist_pop never
\* resets.
SSeeByTail ==
    /\ pcS = "poll"
    /\ last # NULL
    /\ pcS' = "lock"
    /\ UNCHANGED <<first, last, heap, next, data, mutex, recvVars, q, got, histVars>>

\* Linklist_Empty, read without the mutex: go on only when a node is seen.
SSee ==
    /\ pcS = "poll"
    /\ first # NULL
    /\ pcS' = "lock"
    /\ UNCHANGED <<first, last, heap, next, data, mutex, recvVars, q, got, histVars>>

\* Nothing there: usleep(100) and look again.
SIdle ==
    /\ pcS = "poll"
    /\ first = NULL
    /\ UNCHANGED vars

\* memset of data_t, then the mutex: got = 0 stands for nlen = 0.
SLock ==
    /\ pcS = "lock"
    /\ mutex = NULL
    /\ mutex' = "save"
    /\ got' = 0
    /\ pcS' = "pop"
    /\ UNCHANGED <<first, last, heap, next, data, recvVars, q, histVars>>

\* Linklist_pop: the test again, now under the mutex, and the head's data.
SPop ==
    /\ pcS = "pop"
    /\ IF first = NULL
       THEN pcS' = "unlock" /\ UNCHANGED <<q, got>>
       ELSE pcS' = "advance" /\ q' = first /\ got' = data[first]
    /\ UNCHANGED <<first, last, heap, next, data, mutex, recvVars, histVars>>

\* list->next = p->next
SAdvance ==
    /\ pcS = "advance"
    /\ first' = next[q]
    /\ taken' = Append(taken, got)
    /\ chain' = Tail(chain)
    /\ pcS' = "free"
    /\ UNCHANGED <<last, heap, next, data, mutex, recvVars, q, got, accepted>>

\* A mutant of SFree: the node is not freed.
SFreeLeaks ==
    /\ pcS = "free"
    /\ next' = [next EXCEPT ![q] = NULL]
    /\ pcS' = "unlock"
    /\ UNCHANGED <<first, last, heap, data, mutex, recvVars, q, got, histVars>>

\* q->next = NULL; free(q).  list->tail keeps pointing at it.
SFree ==
    /\ pcS = "free"
    /\ next' = [next EXCEPT ![q] = NULL]
    /\ heap' = heap \ {q}
    /\ pcS' = "unlock"
    /\ UNCHANGED <<first, last, data, mutex, recvVars, q, got, histVars>>

SUnlock ==
    /\ pcS = "unlock"
    /\ mutex' = NULL
    /\ pcS' = "poll"
    /\ UNCHANGED <<first, last, heap, next, data, recvVars, q, got, histVars>>

-----------------------------------------------------------------------------

RNext == Recv \/ RLock \/ RMalloc \/ RLink \/ RTail \/ RTerminate \/ RUnlock

SStep == SSee \/ SLock \/ SPop \/ SAdvance \/ SFree \/ SUnlock

Next == RNext \/ SStep \/ SIdle

(* Each thread goes on when it can.  The default pthread mutex promises no  *)
(* order among those who wait, so this is fair to the saving thread only    *)
(* because the receiving thread gets MaxChunks chunks and then waits.       *)
Fairness ==
    /\ WF_vars(RLock \/ RMalloc \/ RLink \/ RTail \/ RTerminate \/ RUnlock)
    /\ WF_vars(SStep)

Spec == Init /\ [][Next]_vars

FairSpec == Spec /\ Fairness

-----------------------------------------------------------------------------

TypeOK ==
    /\ first \in Pointer /\ last \in Pointer
    /\ heap \in SUBSET Node
    /\ next \in [Node -> Pointer]
    /\ data \in [Node -> 0 .. MaxChunks]
    /\ mutex \in {NULL, "recv", "save"}
    /\ pcR \in {"recv", "lock", "malloc", "link", "tail", "terminate", "unlock"}
    /\ item \in 0 .. MaxChunks /\ sent \in 0 .. MaxChunks
    /\ p \in Pointer
    /\ pcS \in {"poll", "lock", "pop", "advance", "free", "unlock"}
    /\ q \in Pointer
    /\ got \in 0 .. MaxChunks
    /\ accepted \in Seq(Chunk) /\ taken \in Seq(Chunk)
    /\ chain \in Seq(Node)

RInside == pcR \in {"malloc", "link", "tail", "terminate", "unlock"}
SInside == pcS \in {"pop", "advance", "free", "unlock"}

InChain(n) == \E i \in 1 .. Len(chain) : chain[i] = n

\* Every address the two threads are about to dereference is allocated: the
\* list->tail of an insertion into a non-empty list, the node an insertion is
\* building, and the node Linklist_pop is removing (linklist.c:64-73, 88-92).
DerefsAllocated ==
    /\ pcR = "link" /\ first # NULL => last \in heap
    /\ pcR \in {"link", "tail", "terminate"} => p \in heap
    /\ pcS \in {"advance", "free"} => q \in heap

\* Linklist_Empty's unlocked answer "not empty" is still true once the mutex
\* is held: Linklist_pop never finds the list empty (rpio_write.c:175-179).
PopFindsNode == pcS \in {"lock", "pop"} => first # NULL

\* No memory is lost: an allocated node is in the list, or is being inserted,
\* or is being removed (malloc of linklist.c:57, free of linklist.c:92).
NoLeak ==
    \A n \in heap : \/ InChain(n)
                    \/ pcR = "link" /\ n = p
                    \/ pcS = "free" /\ n = q

\* The queue is a relay: chunks leave it in the order they were linked, each
\* once (Linklist_Insert and Linklist_pop as the two threads call them).
Queue == INSTANCE Relay WITH delivered <- taken

QueueIsRelay == Queue!Spec

\* Every chunk linked into the list is popped by the saving thread, whose
\* unlocked Linklist_Empty cannot miss it for ever (rpio_write.c:150-180).
EveryChunkPopped ==
    \A n \in Chunk : Len(accepted) >= n ~> Len(taken) >= n

-----------------------------------------------------------------------------
(* The inductive invariant: how the pointers, the memory and the positions  *)
(* of the two threads hang together.                                        *)

\* The mutex is held by the thread that is between lock and unlock.
MutexInv ==
    /\ RInside <=> mutex = "recv"
    /\ SInside <=> mutex = "save"

\* The nodes in the list are distinct and allocated, and the pointers lead
\* through them from list->next to NULL; while an insertion is under way the
\* link it has not written yet is excepted.
Linked ==
    /\ first = IF chain = <<>> THEN NULL ELSE chain[1]
    /\ \A i \in 1 .. Len(chain) : chain[i] \in heap
    /\ \A i, j \in 1 .. Len(chain) : i # j => chain[i] # chain[j]
    /\ \A i \in 1 .. Len(chain) - 1 : next[chain[i]] = chain[i + 1]
    /\ chain # <<>> /\ pcR \notin {"tail", "terminate"} =>
            next[chain[Len(chain)]] = NULL

\* list->tail is the last node whenever there is one; with no node in the list
\* it may dangle.
TailIsLast ==
    chain # <<>> /\ pcR # "tail" => last = chain[Len(chain)]

\* What Linklist_Insert knows at each of its steps.
InsertInv ==
    /\ pcR # "recv" => item \in Chunk
    /\ pcR = "link" => p \in heap /\ data[p] = item /\ ~ InChain(p)
    /\ pcR \in {"tail", "terminate"} => chain # <<>> /\ p = chain[Len(chain)]

\* What the saving thread knows at each of its steps.
PopInv ==
    /\ pcS \in {"lock", "pop"} => chain # <<>>
    /\ pcS = "advance" => chain # <<>> /\ q = chain[1] /\ got = data[q]
    /\ pcS = "free" => q \in heap /\ ~ InChain(q)

\* The data of the nodes in the list are the accepted chunks not yet taken.
Contents ==
    /\ Len(accepted) = Len(taken) + Len(chain)
    /\ taken = SubSeq(accepted, 1, Len(taken))
    /\ \A i \in 1 .. Len(chain) : data[chain[i]] = accepted[Len(taken) + i]

\* The list's invariant, between and during the operations of linklist.c:55-96.
ListInv ==
    /\ TypeOK
    /\ MutexInv
    /\ Linked
    /\ TailIsLast
    /\ InsertInv
    /\ PopInv
    /\ NoLeak
    /\ Contents
===============================================================================
