---------------------------- MODULE LinkListProofs ----------------------------
(***************************************************************************)
(* Proofs about LinkList, for any set of addresses and any number of       *)
(* chunks: the invariant of the pointers, the safety of every dereference, *)
(* and that the queue implements Relay.                                    *)
(***************************************************************************)
EXTENDS LinkList, SequenceTheorems, TLAPS

\* Appending the next element extends a prefix by one.
LEMMA PrefixStep ==
    ASSUME NEW S, NEW s \in Seq(S), NEW k \in 0 .. Len(s) - 1
    PROVE  Append(SubSeq(s, 1, k), s[k + 1]) = SubSeq(s, 1, k + 1)
<1>1. Len(s) \in Nat
    BY LenProperties
<1>2. /\ SubSeq(s, 1, k) \in Seq(S)
      /\ k + 1 \in 1 .. Len(s)
      /\ s[k + 1] \in S
    BY <1>1, SubSeqProperties, ElementOfSeq
<1>3. SubSeq(s, 1, k + 1) = SubSeq(s, 1, (k + 1) - 1) \o << s[k + 1] >>
    BY <1>1, <1>2, SubSeqRecursiveSecond
<1>4. (k + 1) - 1 = k
    OBVIOUS
<1> QED
    BY <1>2, <1>3, <1>4, AppendIsConcat

\* A prefix is still a prefix of the longer sequence.
LEMMA PrefixOfAppend ==
    ASSUME NEW S, NEW s \in Seq(S), NEW e \in S, NEW k \in 0 .. Len(s)
    PROVE  SubSeq(Append(s, e), 1, k) = SubSeq(s, 1, k)
<1> DEFINE t == Append(s, e)
<1>1. /\ t \in Seq(S)
      /\ Len(t) = Len(s) + 1
      /\ \A i \in 1 .. Len(s) : t[i] = s[i]
      /\ Len(s) \in Nat
    BY AppendProperties, LenProperties
<1> HIDE DEF t
<1>2. \A i \in 1 .. k : s[i] \in S /\ t[i] \in S
    BY <1>1, ElementOfSeq
<1>3. /\ SubSeq(t, 1, k) \in Seq(S)
      /\ SubSeq(s, 1, k) \in Seq(S)
      /\ Len(SubSeq(t, 1, k)) = k
      /\ Len(SubSeq(s, 1, k)) = k
      /\ \A i \in 1 .. k : SubSeq(t, 1, k)[i] = t[i] /\ SubSeq(s, 1, k)[i] = s[i]
    BY <1>1, <1>2, SubSeqProperties
<1>4. SubSeq(t, 1, k) = SubSeq(s, 1, k)
    BY <1>1, <1>3, SeqEqual
<1> QED
    BY <1>4 DEF t

\* What the header, the memory and both threads look like at the start.
LEMMA InitInv == Init => ListInv
<1> SUFFICES ASSUME Init PROVE ListInv
    OBVIOUS
<1> USE LinkListAssumption DEF Init
<1>1. TypeOK
    BY DEF TypeOK, Pointer, Chunk
<1>2. MutexInv
    BY DEF MutexInv, RInside, SInside
<1>3. Linked /\ TailIsLast
    BY DEF Linked, TailIsLast
<1>4. InsertInv /\ PopInv
    BY DEF InsertInv, PopInv
<1>5. NoLeak
    BY DEF NoLeak
<1>6. SubSeq(<<>>, 1, 0) = <<>>
    BY SubSeqEmpty
<1>7. Contents
    BY <1>6 DEF Contents
<1> QED
    BY <1>1, <1>2, <1>3, <1>4, <1>5, <1>7 DEF ListInv

\* The type of the variables is kept by every step.
LEMMA TypeStep == ListInv /\ [Next]_vars => TypeOK'
<1> SUFFICES ASSUME ListInv, [Next]_vars PROVE TypeOK'
    OBVIOUS
<1> USE LinkListAssumption
<1>0. TypeOK /\ InsertInv /\ PopInv
    BY DEF ListInv
<1>1. CASE Recv
    BY <1>0, <1>1 DEF Recv, TypeOK, Pointer, Chunk, saveVars, histVars
<1>2. CASE RLock
    BY <1>0, <1>2 DEF RLock, TypeOK, saveVars, histVars
<1>3. CASE RMalloc
    <2>1. CASE \E n \in Node \ heap, junk \in Pointer :
                    /\ heap' = heap \cup {n}
                    /\ data' = [data EXCEPT ![n] = item]
                    /\ next' = [next EXCEPT ![n] = junk]
                    /\ p' = n
                    /\ pcR' = "link"
        <3>1. heap' \in SUBSET Node /\ p' \in Pointer
            BY <1>0, <2>1 DEF TypeOK, Pointer
        <3>2. data' \in [Node -> 0 .. MaxChunks] /\ next' \in [Node -> Pointer]
            BY <1>0, <2>1 DEF TypeOK
        <3> QED
            BY <1>0, <1>3, <2>1, <3>1, <3>2 DEF RMalloc, TypeOK, saveVars, histVars
    <2>2. CASE pcR' = "unlock" /\ UNCHANGED <<heap, next, data, p>>
        BY <1>0, <1>3, <2>2 DEF RMalloc, TypeOK, saveVars, histVars
    <2> QED
        BY <1>3, <2>1, <2>2 DEF RMalloc
<1>4. CASE RLink
    <2>1. accepted' \in Seq(Chunk) /\ chain' \in Seq(Node)
        <3>1. item \in Chunk /\ p \in Node
            BY <1>0, <1>4 DEF RLink, TypeOK, InsertInv
        <3> QED
            BY <1>0, <1>4, <3>1, AppendProperties DEF RLink, TypeOK
    <2> QED
        BY <1>0, <1>4, <2>1 DEF RLink, TypeOK, Pointer, saveVars
<1>5. CASE RTail
    BY <1>0, <1>5 DEF RTail, TypeOK, Pointer, saveVars, histVars
<1>6. CASE RTerminate
    BY <1>0, <1>6 DEF RTerminate, TypeOK, Pointer, saveVars, histVars
<1>7. CASE RUnlock
    BY <1>0, <1>7 DEF RUnlock, TypeOK, saveVars, histVars
<1>8. CASE SSee
    BY <1>0, <1>8 DEF SSee, TypeOK, recvVars, histVars
<1>9. CASE SLock
    BY <1>0, <1>9 DEF SLock, TypeOK, Chunk, recvVars, histVars
<1>10. CASE SPop
    BY <1>0, <1>10 DEF SPop, TypeOK, Pointer, recvVars, histVars
<1>11. CASE SAdvance
    <2>1. chain # <<>> /\ q = chain[1] /\ got = data[q] /\ q \in Node
        BY <1>0, <1>11, ElementOfSeq, EmptySeq DEF SAdvance, PopInv, TypeOK
    <2>2. chain' \in Seq(Node)
        BY <1>0, <1>11, <2>1, HeadTailProperties DEF SAdvance, TypeOK
    <2>3. taken' \in Seq(Chunk)
        <3>1. got \in Chunk
            <4>1. 1 \in 1 .. Len(chain) /\ Len(taken) + 1 \in 1 .. Len(accepted)
                BY <1>0, <2>1, EmptySeq, LenProperties DEF ListInv, Contents, TypeOK
            <4>2. data[chain[1]] = accepted[Len(taken) + 1]
                BY <4>1 DEF ListInv, Contents
            <4> QED
                BY <1>0, <2>1, <4>1, <4>2, ElementOfSeq DEF TypeOK
        <3> QED
            BY <1>0, <1>11, <3>1, AppendProperties DEF SAdvance, TypeOK
    <2> QED
        BY <1>0, <1>11, <2>1, <2>2, <2>3 DEF SAdvance, TypeOK, Pointer, recvVars
<1>12. CASE SFree
    BY <1>0, <1>12 DEF SFree, TypeOK, Pointer, recvVars, histVars
<1>13. CASE SUnlock
    BY <1>0, <1>13 DEF SUnlock, TypeOK, recvVars, histVars
<1>14. CASE UNCHANGED vars
    BY <1>0, <1>14 DEF vars, recvVars, saveVars, histVars, TypeOK
<1> QED
    BY <1>1, <1>2, <1>3, <1>4, <1>5, <1>6, <1>7, <1>8, <1>9, <1>10, <1>11, <1>12,
       <1>13, <1>14
    DEF Next, RNext, SStep, SIdle

\* A thread enters and leaves its critical section with the mutex.
LEMMA MutexStep == ListInv /\ [Next]_vars => MutexInv'
<1> SUFFICES ASSUME ListInv, [Next]_vars PROVE MutexInv'
    OBVIOUS
<1> USE LinkListAssumption DEF MutexInv, RInside, SInside
<1>0. MutexInv /\ TypeOK
    BY DEF ListInv
<1>1. CASE RNext
    BY <1>0, <1>1
    DEF RNext, Recv, RLock, RMalloc, RLink, RTail, RTerminate, RUnlock, saveVars, TypeOK
<1>2. CASE SStep
    BY <1>0, <1>2
    DEF SStep, SSee, SLock, SPop, SAdvance, SFree, SUnlock, recvVars, TypeOK
<1>3. CASE UNCHANGED vars
    BY <1>0, <1>3 DEF vars, recvVars, saveVars
<1> QED
    BY <1>1, <1>2, <1>3 DEF Next, SIdle

\* The invariant without the conjuncts that TypeStep and MutexStep prove.
ListShape == Linked /\ TailIsLast /\ InsertInv /\ PopInv /\ NoLeak /\ Contents

\* A step that leaves the list and the memory alone and only moves a thread.
LEMMA LocalStep ==
    ASSUME ListInv, Recv \/ RLock \/ RUnlock \/ SSee \/ SLock \/ SPop \/ SUnlock
    PROVE  ListShape'
<1> USE LinkListAssumption DEF ListInv
<1>1. UNCHANGED <<first, last, heap, next, data, p, accepted, taken, chain>>
    BY DEF Recv, RLock, RUnlock, SSee, SLock, SPop, SUnlock, saveVars, recvVars, histVars
<1>2. /\ pcR \in {"tail", "terminate"} <=> pcR' \in {"tail", "terminate"}
      /\ pcR = "tail" <=> pcR' = "tail"
      /\ pcR = "link" <=> pcR' = "link"
      /\ pcS = "free" <=> pcS' = "free"
      /\ pcS = "free" => q' = q
    BY DEF Recv, RLock, RUnlock, SSee, SLock, SPop, SUnlock, saveVars, recvVars
<1>3. Linked' /\ TailIsLast' /\ Contents'
    BY <1>1, <1>2 DEF Linked, TailIsLast, Contents
<1>4. NoLeak'
    BY <1>1, <1>2 DEF NoLeak, InChain
<1>5. InsertInv'
    <2>1. pcR' # "recv" => item' \in Chunk
        BY DEF InsertInv, Recv, RLock, RUnlock, SSee, SLock, SPop, SUnlock, recvVars,
               saveVars, TypeOK, Chunk
    <2>2. pcR' = "link" => item' = item
        BY DEF Recv, RLock, RUnlock, SSee, SLock, SPop, SUnlock, recvVars
    <2> QED
        BY <1>1, <1>2, <2>1, <2>2 DEF InsertInv, InChain
<1>6. PopInv'
    <2>1. pcS' \in {"lock", "pop"} => chain # <<>>
        BY DEF PopInv, Linked, Recv, RLock, RUnlock, SSee, SLock, SPop, SUnlock, saveVars
    <2>2. pcS' = "advance" => chain # <<>> /\ q' = chain[1] /\ got' = data[q']
        BY DEF PopInv, Linked, Recv, RLock, RUnlock, SSee, SLock, SPop, SUnlock, saveVars
    <2> QED
        BY <1>1, <1>2, <2>1, <2>2 DEF PopInv, InChain
<1> QED
    BY <1>3, <1>4, <1>5, <1>6 DEF ListShape

\* malloc: the new node is in nobody's hands yet.
LEMMA MallocStep == ASSUME ListInv, RMalloc PROVE ListShape'
<1> USE LinkListAssumption DEF ListInv
<1>0. /\ pcR = "malloc" /\ pcS \notin {"pop", "advance", "free"}
      /\ UNCHANGED <<first, last, item, pcS, q, got, accepted, taken, chain>>
    BY DEF RMalloc, MutexInv, RInside, SInside, saveVars, histVars
<1>1. CASE \E n \in Node \ heap, junk \in Pointer :
                /\ heap' = heap \cup {n}
                /\ data' = [data EXCEPT ![n] = item]
                /\ next' = [next EXCEPT ![n] = junk]
                /\ p' = n
                /\ pcR' = "link"
    <2>1. PICK n \in Node \ heap, junk \in Pointer :
                /\ heap' = heap \cup {n}
                /\ data' = [data EXCEPT ![n] = item]
                /\ next' = [next EXCEPT ![n] = junk]
                /\ p' = n
                /\ pcR' = "link"
        BY <1>1
    <2>2. \A i \in 1 .. Len(chain) : chain[i] \in heap /\ chain[i] # n /\ chain[i] \in Node
        BY DEF Linked, TypeOK
    <2>3. \A i \in 1 .. Len(chain) :
                next'[chain[i]] = next[chain[i]] /\ data'[chain[i]] = data[chain[i]]
        BY <2>1, <2>2 DEF TypeOK
    <2>4. chain # <<>> => Len(chain) \in 1 .. Len(chain)
        BY EmptySeq DEF TypeOK
    <2>5. Len(chain) \in Nat
        BY LenProperties DEF TypeOK
    <2>6. Linked'
        BY <1>0, <2>1, <2>2, <2>3, <2>4, <2>5 DEF Linked
    <2>7. TailIsLast' /\ Contents'
        BY <1>0, <2>1, <2>3 DEF TailIsLast, Contents
    <2>8. InsertInv'
        BY <1>0, <2>1, <2>2 DEF InsertInv, InChain, TypeOK
    <2>9. PopInv'
        BY <1>0 DEF PopInv
    <2>10. NoLeak'
        BY <1>0, <2>1 DEF NoLeak, InChain
    <2> QED
        BY <2>6, <2>7, <2>8, <2>9, <2>10 DEF ListShape
<1>2. CASE pcR' = "unlock" /\ UNCHANGED <<heap, next, data, p>>
    <2>1. Linked' /\ TailIsLast' /\ Contents'
        BY <1>0, <1>2 DEF Linked, TailIsLast, Contents
    <2>2. InsertInv' /\ PopInv' /\ NoLeak'
        BY <1>0, <1>2 DEF InsertInv, PopInv, NoLeak, InChain
    <2> QED
        BY <2>1, <2>2 DEF ListShape
<1> QED
    BY <1>1, <1>2 DEF RMalloc

\* The link: the new node becomes the last of the list.
LEMMA LinkStep == ASSUME ListInv, RLink PROVE ListShape'
<1> USE LinkListAssumption DEF ListInv
<1>0. /\ pcR = "link" /\ pcR' = "tail" /\ pcS \notin {"pop", "advance", "free"}
      /\ UNCHANGED <<last, heap, data, item, p, pcS, q, got, taken>>
      /\ accepted' = Append(accepted, item) /\ chain' = Append(chain, p)
      /\ item \in Chunk /\ p \in Node /\ p \in heap /\ data[p] = item
    BY DEF RLink, MutexInv, RInside, SInside, saveVars, InsertInv, TypeOK
<1>1. /\ Len(chain) \in Nat /\ Len(chain') = Len(chain) + 1
      /\ chain' # <<>>
      /\ \A i \in 1 .. Len(chain) : chain'[i] = chain[i]
      /\ chain'[Len(chain) + 1] = p
    BY <1>0, AppendProperties, LenProperties DEF TypeOK
<1>2. \A i \in 1 .. Len(chain) : chain[i] # p /\ chain[i] \in Node
    BY <1>0 DEF InsertInv, InChain, TypeOK
<1>3. chain # <<>> <=> Len(chain) # 0
    BY EmptySeq DEF TypeOK
<1>4. Linked'
    <2>1. first' = chain'[1]
        BY <1>0, <1>1, <1>3, EmptySeq DEF RLink, Linked, TypeOK
    <2>2. \A i \in 1 .. Len(chain') : chain'[i] \in heap'
        BY <1>0, <1>1 DEF Linked
    <2>3. \A i, j \in 1 .. Len(chain') : i # j => chain'[i] # chain'[j]
        BY <1>1, <1>2 DEF Linked
    <2>4. \A i \in 1 .. Len(chain') - 1 : next'[chain'[i]] = chain'[i + 1]
        <3>1. CASE chain = <<>>
            BY <1>1, <1>3, <3>1
        <3>2. CASE chain # <<>>
            <4>1. next' = [next EXCEPT ![chain[Len(chain)]] = p]
                BY <1>0, <1>1, <1>3, <3>2 DEF RLink, Linked, TailIsLast, TypeOK
            <4>2. next'[chain[Len(chain)]] = p
                BY <1>1, <1>2, <1>3, <3>2, <4>1 DEF TypeOK
            <4>3. \A i \in 1 .. Len(chain) - 1 :
                        chain[i] # chain[Len(chain)] /\ next'[chain[i]] = chain[i + 1]
                BY <1>1, <1>2, <1>3, <3>2, <4>1 DEF Linked, TypeOK
            <4> QED
                BY <1>1, <4>2, <4>3
        <3> QED
            BY <3>1, <3>2
    <2> QED
        BY <1>0, <1>1, <2>1, <2>2, <2>3, <2>4 DEF Linked
<1>5. TailIsLast'
    BY <1>0 DEF TailIsLast
<1>6. InsertInv'
    BY <1>0, <1>1 DEF InsertInv
<1>7. PopInv'
    BY <1>0, <1>1 DEF PopInv
<1>8. NoLeak'
    BY <1>0, <1>1 DEF NoLeak, InChain
<1>9. Contents'
    <2>1. /\ Len(accepted) \in Nat /\ Len(taken) \in Nat
          /\ Len(accepted') = Len(accepted) + 1
          /\ \A i \in 1 .. Len(accepted) : accepted'[i] = accepted[i]
          /\ accepted'[Len(accepted) + 1] = item
        BY <1>0, AppendProperties, LenProperties DEF TypeOK
    <2>2. Len(accepted') = Len(taken') + Len(chain')
        BY <1>0, <1>1, <2>1 DEF Contents
    <2>3. taken' = SubSeq(accepted', 1, Len(taken'))
        BY <1>0, <1>1, <2>1, PrefixOfAppend DEF Contents, TypeOK
    <2>4. ASSUME NEW i \in 1 .. Len(chain')
          PROVE  data'[chain'[i]] = accepted'[Len(taken') + i]
        <3>1. CASE i \in 1 .. Len(chain)
            <4>1. Len(taken) + i \in 1 .. Len(accepted)
                BY <1>1, <2>1, <3>1 DEF Contents
            <4>2. data[chain[i]] = accepted[Len(taken) + i]
                BY <3>1 DEF Contents
            <4> QED
                BY <1>0, <1>1, <2>1, <3>1, <4>1, <4>2
        <3>2. CASE i = Len(chain) + 1
            <4>1. Len(taken) + i = Len(accepted) + 1
                BY <1>1, <2>1, <3>2 DEF Contents
            <4> QED
                BY <1>0, <1>1, <2>1, <3>2, <4>1
        <3> QED
            BY <1>1, <3>1, <3>2
    <2> QED
        BY <2>2, <2>3, <2>4 DEF Contents
<1> QED
    BY <1>4, <1>5, <1>6, <1>7, <1>8, <1>9 DEF ListShape

\* list->tail = p and p->next = NULL close the list again.
LEMMA TailStep == ASSUME ListInv, RTail PROVE ListShape'
<1> USE LinkListAssumption DEF ListInv
<1>0. /\ pcR = "tail" /\ pcR' = "terminate" /\ last' = p
      /\ UNCHANGED <<first, heap, next, data, item, p, pcS, q, got, accepted, taken, chain>>
    BY DEF RTail, saveVars, histVars
<1>1. Linked' /\ TailIsLast' /\ Contents'
    BY <1>0 DEF Linked, TailIsLast, Contents, InsertInv
<1>2. InsertInv' /\ PopInv' /\ NoLeak'
    BY <1>0 DEF InsertInv, PopInv, NoLeak, InChain
<1> QED
    BY <1>1, <1>2 DEF ListShape

LEMMA TerminateStep == ASSUME ListInv, RTerminate PROVE ListShape'
<1> USE LinkListAssumption DEF ListInv
<1>0. /\ pcR = "terminate" /\ pcR' = "unlock" /\ next' = [next EXCEPT ![p] = NULL]
      /\ UNCHANGED <<first, last, heap, data, item, p, pcS, q, got, accepted, taken, chain>>
      /\ chain # <<>> /\ p = chain[Len(chain)]
    BY DEF RTerminate, saveVars, histVars, InsertInv
<1>1. Len(chain) \in Nat \ {0} /\ \A i \in 1 .. Len(chain) : chain[i] \in Node
    BY <1>0, EmptySeq DEF TypeOK
<1>2. next'[p] = NULL /\ \A i \in 1 .. Len(chain) - 1 : next'[chain[i]] = next[chain[i]]
    BY <1>0, <1>1 DEF TypeOK, Linked
<1>3. Linked'
    BY <1>0, <1>1, <1>2 DEF Linked
<1>4. TailIsLast' /\ Contents'
    BY <1>0 DEF TailIsLast, Contents
<1>5. InsertInv' /\ PopInv' /\ NoLeak'
    BY <1>0 DEF InsertInv, PopInv, NoLeak, InChain
<1> QED
    BY <1>3, <1>4, <1>5 DEF ListShape

\* list->next = p->next takes the first node out of the list.
LEMMA AdvanceStep == ASSUME ListInv, SAdvance PROVE ListShape'
<1> USE LinkListAssumption DEF ListInv
<1>0. /\ pcS = "advance" /\ pcS' = "free" /\ pcR \notin {"link", "tail", "terminate"}
      /\ first' = next[q] /\ taken' = Append(taken, got) /\ chain' = Tail(chain)
      /\ UNCHANGED <<last, heap, next, data, item, p, pcR, q, got, accepted>>
      /\ chain # <<>> /\ q = chain[1] /\ got = data[q]
    BY DEF SAdvance, recvVars, PopInv, MutexInv, RInside, SInside
<1>1. /\ Len(chain) \in Nat \ {0} /\ Len(chain') = Len(chain) - 1
      /\ \A i \in 1 .. Len(chain) - 1 : chain'[i] = chain[i + 1]
      /\ chain' \in Seq(Node)
    BY <1>0, EmptySeq, HeadTailProperties DEF TypeOK
<1>2. chain' # <<>> <=> Len(chain') # 0
    BY <1>1, EmptySeq
<1>3. q \in heap
    BY <1>0, <1>1 DEF Linked
<1>4. Linked'
    <2>1. first' = IF chain' = <<>> THEN NULL ELSE chain'[1]
        BY <1>0, <1>1, <1>2 DEF Linked
    <2>2. \A i \in 1 .. Len(chain') : chain'[i] \in heap'
        BY <1>0, <1>1 DEF Linked
    <2>3. \A i, j \in 1 .. Len(chain') : i # j => chain'[i] # chain'[j]
        BY <1>1 DEF Linked
    <2>4. \A i \in 1 .. Len(chain') - 1 : next'[chain'[i]] = chain'[i + 1]
        <3> SUFFICES ASSUME NEW i \in 1 .. Len(chain') - 1
                     PROVE  next'[chain'[i]] = chain'[i + 1]
            OBVIOUS
        <3>1. i + 1 \in 1 .. Len(chain) - 1 /\ i \in 1 .. Len(chain) - 1
            BY <1>1
        <3>2. next[chain[i + 1]] = chain[(i + 1) + 1]
            BY <3>1 DEF Linked
        <3> QED
            BY <1>0, <1>1, <3>1, <3>2
    <2>5. chain' # <<>> => next'[chain'[Len(chain')]] = NULL
        <3> HAVE chain' # <<>>
        <3>1. chain'[Len(chain')] = chain[Len(chain)]
            BY <1>1, <1>2
        <3> QED
            BY <1>0, <3>1 DEF Linked
    <2> QED
        BY <2>1, <2>2, <2>3, <2>4, <2>5 DEF Linked
<1>5. TailIsLast'
    BY <1>0, <1>1, <1>2 DEF TailIsLast
<1>6. InsertInv'
    BY <1>0, <1>1 DEF InsertInv
<1>7. PopInv'
    <2>1. ~ InChain(q)'
        BY <1>0, <1>1 DEF InChain, Linked
    <2> QED
        BY <1>0, <1>3, <2>1 DEF PopInv
<1>8. NoLeak'
    <2> SUFFICES ASSUME NEW n \in heap, n # q, InChain(n) PROVE InChain(n)'
        BY <1>0 DEF NoLeak
    <2>1. PICK i \in 1 .. Len(chain) : chain[i] = n
        BY DEF InChain
    <2>2. i - 1 \in 1 .. Len(chain') /\ chain'[i - 1] = n
        BY <1>0, <1>1, <2>1
    <2> QED
        BY <2>2 DEF InChain
<1>9. Contents'
    <2>1. /\ Len(accepted) \in Nat /\ Len(taken) \in Nat
          /\ Len(taken') = Len(taken) + 1
        <3>1. 1 \in 1 .. Len(chain)
            BY <1>1
        <3>2. got = accepted[Len(taken) + 1] /\ Len(taken) + 1 \in 1 .. Len(accepted)
            BY <1>0, <1>1, <3>1, LenProperties DEF Contents, TypeOK
        <3>3. got \in Chunk
            BY <3>2, ElementOfSeq DEF TypeOK
        <3> QED
            BY <1>0, <3>3, AppendProperties, LenProperties DEF TypeOK
    <2>2. Len(accepted') = Len(taken') + Len(chain')
        <3>1. Len(accepted) = Len(taken) + Len(chain)
            BY DEF Contents
        <3>2. Len(accepted') = Len(accepted)
            BY <1>0
        <3>3. Len(chain) \in Nat /\ Len(chain') = Len(chain) - 1
            BY <1>1
        <3> QED
            BY <2>1, <3>1, <3>2, <3>3
    <2>3. taken' = SubSeq(accepted', 1, Len(taken'))
        <3>1. got = accepted[Len(taken) + 1] /\ Len(taken) \in 0 .. Len(accepted) - 1
            BY <1>0, <1>1, <2>1 DEF Contents
        <3>2. Append(SubSeq(accepted, 1, Len(taken)), got) = SubSeq(accepted, 1, Len(taken) + 1)
            BY <3>1, PrefixStep DEF TypeOK
        <3> QED
            BY <1>0, <2>1, <3>2 DEF Contents
    <2>4. ASSUME NEW i \in 1 .. Len(chain')
          PROVE  data'[chain'[i]] = accepted'[Len(taken') + i]
        <3>1. i + 1 \in 1 .. Len(chain) /\ i \in 1 .. Len(chain) - 1
            BY <1>1
        <3>2. data[chain[i + 1]] = accepted[Len(taken) + (i + 1)]
            BY <3>1 DEF Contents
        <3>3. Len(taken) + (i + 1) = Len(taken') + i
            BY <2>1, <3>1
        <3> QED
            BY <1>0, <1>1, <3>1, <3>2, <3>3
    <2> QED
        BY <2>2, <2>3, <2>4 DEF Contents
<1> QED
    BY <1>4, <1>5, <1>6, <1>7, <1>8, <1>9 DEF ListShape

\* free: the node given back is not in the list.
LEMMA FreeStep == ASSUME ListInv, SFree PROVE ListShape'
<1> USE LinkListAssumption DEF ListInv
<1>0. /\ pcS = "free" /\ pcS' = "unlock" /\ pcR \notin {"link", "tail", "terminate"}
      /\ next' = [next EXCEPT ![q] = NULL] /\ heap' = heap \ {q}
      /\ UNCHANGED <<first, last, data, item, p, pcR, q, got, accepted, taken, chain>>
    BY DEF SFree, recvVars, histVars, MutexInv, RInside, SInside
<1>1. \A i \in 1 .. Len(chain) : chain[i] # q /\ chain[i] \in Node
    BY <1>0 DEF PopInv, InChain, TypeOK
<1>2. \A i \in 1 .. Len(chain) : next'[chain[i]] = next[chain[i]]
    BY <1>0, <1>1 DEF TypeOK
<1>3. Len(chain) \in Nat /\ (chain # <<>> => Len(chain) \in 1 .. Len(chain))
    BY EmptySeq, LenProperties DEF TypeOK
<1>4. Linked'
    BY <1>0, <1>1, <1>2, <1>3 DEF Linked
<1>5. TailIsLast' /\ Contents'
    BY <1>0 DEF TailIsLast, Contents
<1>6. InsertInv' /\ PopInv'
    BY <1>0 DEF InsertInv, PopInv, InChain
<1>7. NoLeak'
    BY <1>0 DEF NoLeak, InChain
<1> QED
    BY <1>4, <1>5, <1>6, <1>7 DEF ListShape

-----------------------------------------------------------------------------

\* Every step of either thread keeps the list's invariant.
LEMMA InvStep == ListInv /\ [Next]_vars => ListInv'
<1> SUFFICES ASSUME ListInv, [Next]_vars PROVE ListInv'
    OBVIOUS
<1>1. TypeOK' /\ MutexInv'
    BY TypeStep, MutexStep
<1>2. ListShape'
    <2>1. CASE UNCHANGED vars
        BY <2>1
        DEF vars, recvVars, saveVars, histVars, ListInv, ListShape, Linked, TailIsLast,
            InsertInv, PopInv, NoLeak, Contents, InChain
    <2>2. CASE Next
        BY <2>1, <2>2, LocalStep, MallocStep, LinkStep, TailStep, TerminateStep,
           AdvanceStep, FreeStep
        DEF Next, RNext, SStep, SIdle
    <2> QED
        BY <2>1, <2>2
<1> QED
    BY <1>1, <1>2 DEF ListInv, ListShape

\* Between and during the operations of the two threads the pointers of
\* linklist.c form one list of allocated nodes that ends in NULL.
THEOREM ListInvariant == Spec => []ListInv
<1>1. Init => ListInv
    BY InitInv
<1>2. ListInv /\ [Next]_vars => ListInv'
    BY InvStep
<1> QED
    BY <1>1, <1>2, PTL DEF Spec

\* No step of Linklist_Insert or Linklist_pop dereferences freed memory or
\* NULL, although Linklist_pop leaves list->tail dangling.
THEOREM MemorySafety == Spec => []DerefsAllocated
<1>1. ListInv => DerefsAllocated
    <2> SUFFICES ASSUME ListInv PROVE DerefsAllocated
        OBVIOUS
    <2>1. chain # <<>> => Len(chain) \in 1 .. Len(chain) /\ 1 \in 1 .. Len(chain)
        BY EmptySeq DEF ListInv, TypeOK
    <2>2. pcR = "link" /\ first # NULL => last \in heap
        BY <2>1 DEF ListInv, Linked, TailIsLast
    <2>3. pcR \in {"link", "tail", "terminate"} => p \in heap
        BY <2>1 DEF ListInv, InsertInv, Linked
    <2>4. pcS \in {"advance", "free"} => q \in heap
        BY <2>1 DEF ListInv, PopInv, Linked
    <2> QED
        BY <2>2, <2>3, <2>4 DEF DerefsAllocated
<1> QED
    BY <1>1, ListInvariant, PTL

\* The emptiness test the saving thread makes without the mutex can be relied
\* on under the mutex: Linklist_pop always finds a node.
THEOREM UnlockedTestIsStable == Spec => []PopFindsNode
<1>1. ListInv => PopFindsNode
    <2> SUFFICES ASSUME ListInv, chain # <<>> PROVE first # NULL
        BY DEF ListInv, PopInv, PopFindsNode
    <2>1. chain[1] \in Node
        BY EmptySeq, ElementOfSeq DEF ListInv, TypeOK
    <2> QED
        BY <2>1, LinkListAssumption DEF ListInv, Linked
<1> QED
    BY <1>1, ListInvariant, PTL

\* Every node malloc gave to Linklist_Insert is in the list, or on its way in, or
\* on its way out to the free of Linklist_pop (linklist.c:57, 92).
THEOREM NothingLeaks == Spec => []NoLeak
<1>1. ListInv => NoLeak
    BY DEF ListInv
<1> QED
    BY <1>1, ListInvariant, PTL

\* The list implements Relay: it hands the chunks over in the order in which
\* they were linked, each of them once.
THEOREM ListImplementsRelay == Spec => QueueIsRelay
<1>1. Init => Queue!Init
    BY DEF Init, Queue!Init
<1>2. ListInv /\ [Next]_vars => [Queue!Next]_(Queue!vars)
    <2> SUFFICES ASSUME ListInv, [Next]_vars PROVE [Queue!Next]_(Queue!vars)
        OBVIOUS
    <2> USE DEF Queue!vars
    <2>1. CASE RLink
        BY <2>1 DEF RLink, ListInv, InsertInv, Queue!Next, Queue!Accept
    <2>2. CASE SAdvance
        <3>1. Contents' /\ UNCHANGED accepted /\ taken' = Append(taken, got)
            BY <2>2, AdvanceStep DEF ListShape, SAdvance
        <3>2. /\ Len(chain) \in Nat \ {0} /\ chain # <<>> /\ got = data[chain[1]]
              /\ Len(taken) \in Nat /\ Len(accepted) \in Nat
            BY <2>2, EmptySeq, LenProperties DEF SAdvance, ListInv, PopInv, TypeOK
        <3>3. got \in Chunk
            <4>1. got = accepted[Len(taken) + 1] /\ Len(taken) + 1 \in 1 .. Len(accepted)
                BY <3>2 DEF ListInv, Contents
            <4> QED
                BY <4>1, ElementOfSeq DEF ListInv, TypeOK
        <3>4. Len(taken') = Len(taken) + 1
            BY <3>1, <3>3, AppendProperties DEF ListInv, TypeOK
        <3>5. Len(taken) + 1 \in Len(taken) + 1 .. Len(accepted)
            BY <3>2 DEF ListInv, Contents
        <3>6. taken' = SubSeq(accepted, 1, Len(taken) + 1)
            BY <3>1, <3>4 DEF Contents
        <3> QED
            BY <3>1, <3>5, <3>6 DEF Queue!Next, Queue!Deliver
    <2>3. CASE UNCHANGED <<accepted, taken>>
        BY <2>3
    <2>4. [Next]_vars => RLink \/ SAdvance \/ UNCHANGED <<accepted, taken>>
        BY DEF Next, RNext, SStep, SIdle, vars, histVars, Recv, RLock, RMalloc, RTail,
               RTerminate, RUnlock, SSee, SLock, SPop, SFree, SUnlock
    <2> QED
        BY <2>1, <2>2, <2>3, <2>4
<1> QED
    BY <1>1, <1>2, ListInvariant, PTL DEF Spec, QueueIsRelay, Queue!Spec
===============================================================================
