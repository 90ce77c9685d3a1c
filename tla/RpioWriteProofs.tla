---------------------------- MODULE RpioWriteProofs ----------------------------
(***************************************************************************)
(* What every module that is built on the file layer needs to know of it:  *)
(* how many bytes a sequence of chunks has, that the steps of              *)
(* batch_write_file keep its state well-typed, and what they do to the     *)
(* files.                                                                  *)
(***************************************************************************)
EXTENDS RpioWrite, SequenceTheorems, WellFoundedInduction, TLAPS

-----------------------------------------------------------------------------
(* Sequences.                                                              *)

\* A sequence over a set is one over every larger set.
LEMMA SeqMonotone ==
    ASSUME NEW S, NEW T, S \subseteq T, NEW s \in Seq(S)
    PROVE  s \in Seq(T)
<1>1. /\ Len(s) \in Nat
      /\ \A i \in 1 .. Len(s) : s[i] \in T
      /\ s = [i \in 1 .. Len(s) |-> s[i]]
    BY ElementOfSeq, LenProperties
<1> QED
    BY <1>1, IsASeq

\* The pieces a sequence is cut into are sequences over the same set.
LEMMA SubSeqType ==
    ASSUME NEW S, NEW s \in Seq(S), NEW k \in 0 .. Len(s)
    PROVE  /\ SubSeq(s, 1, k) \in Seq(S)
           /\ SubSeq(s, k + 1, Len(s)) \in Seq(S)
<1>1. Len(s) \in Nat /\ k \in Nat
    BY LenProperties
<1>2. \A j \in 1 .. Len(s) : s[j] \in S
    BY ElementOfSeq
<1> QED
    BY <1>1, <1>2, SubSeqProperties


\* Concatenation by another name, which the provers take as it is.
Cat(s, t) == s \o t

LEMMA CatAssociative ==
    \A S : \A s, t, u \in Seq(S) : Cat(Cat(s, t), u) = Cat(s, Cat(t, u))
BY ConcatAssociative, Zenon DEF Cat

LEMMA CatType ==
    \A S : \A s, t \in Seq(S) : Cat(s, t) \in Seq(S)
BY ConcatProperties, Zenon DEF Cat

LEMMA CatEmpty ==
    \A S : \A s \in Seq(S) : Cat(s, <<>>) = s /\ Cat(<<>>, s) = s
BY ConcatEmptySeq, Zenon DEF Cat

\* A sequence that follows another makes it no shorter.
LEMMA CatLonger ==
    \A S : \A s, t \in Seq(S) : Len(Cat(s, t)) = Len(s) + Len(t)
BY ConcatProperties, Zenon DEF Cat

-----------------------------------------------------------------------------
(* The bytes of a sequence of chunks.                                      *)

\* Induction over the natural numbers, for a set of them: there is no least
\* number that is not in the set.
LEMMA Induction ==
    ASSUME NEW S, 0 \in S, \A n \in Nat : n \in S => n + 1 \in S
    PROVE  Nat \subseteq S
<1> DEFINE T == {n \in Nat : n \notin S}
           R == OpToRel(<, Nat)
<1> SUFFICES ASSUME T # {} PROVE FALSE
    OBVIOUS
<1>1. \A x, y \in Nat : <<x, y>> \in R <=> x < y
    BY Zenon DEF OpToRel
<1>2. \E x \in T : \A y \in T : ~ (<<y, x>> \in R)
    <2> T \subseteq Nat
        OBVIOUS
    <2> HIDE DEF T, R
    <2>1. IsWellFoundedOn(R, Nat)
        BY NatLessThanWellFounded, Zenon DEF R
    <2> QED
        BY <2>1, WFMin
<1>3. PICK x \in T : \A y \in T : ~ (y < x)
    BY <1>1, <1>2
<1>4. x # 0 /\ x - 1 \in Nat
    BY <1>3
<1>5. x - 1 \in S
    BY <1>3, <1>4
<1> QED
    BY <1>3, <1>4, <1>5

\* f counts the bytes of the first n chunks of s.
CountsTo(f, s, n) ==
    /\ f \in [0 .. n -> Nat]
    /\ f[0] = 0
    /\ \A i \in 1 .. n : f[i] = f[i - 1] + s[i].len

Counts(f, s) == CountsTo(f, s, Len(s))

\* Such a function exists: it grows with s.
LEMMA CountsExists ==
    ASSUME NEW s \in Seq(Chunks)
    PROVE  \E f : Counts(f, s)
<1> DEFINE S == {n \in Nat : n <= Len(s) => \E f : CountsTo(f, s, n)}
<1>0. Len(s) \in Nat /\ \A i \in 1 .. Len(s) : s[i].len \in Nat
    <2>1. Len(s) \in Nat
        BY LenProperties
    <2>2. \A i \in 1 .. Len(s) : s[i] \in Chunks
        BY ElementOfSeq
    <2> QED
        BY <2>1, <2>2 DEF Chunks
<1>1. 0 \in S
    <2> CountsTo([i \in 0 .. 0 |-> 0], s, 0)
        BY DEF CountsTo
    <2> QED
        OBVIOUS
<1>2. ASSUME NEW n \in Nat, n \in S
      PROVE  n + 1 \in S
    <2>1. CASE n + 1 <= Len(s)
        <3>1. PICK f : CountsTo(f, s, n)
            BY <1>0, <1>2, <2>1
        <3> DEFINE g == [i \in 0 .. n + 1 |-> IF i <= n THEN f[i] ELSE f[n] + s[n + 1].len]
        <3>2. g \in [0 .. n + 1 -> Nat]
            BY <1>0, <2>1, <3>1 DEF CountsTo
        <3>3. \A i \in 1 .. n + 1 : g[i] = g[i - 1] + s[i].len
            BY <1>0, <2>1, <3>1 DEF CountsTo
        <3>4. g[0] = 0
            BY <3>1 DEF CountsTo
        <3> HIDE DEF g
        <3>5. CountsTo(g, s, n + 1)
            BY <3>2, <3>3, <3>4 DEF CountsTo
        <3> QED
            BY <3>5
    <2>2. CASE ~ (n + 1 <= Len(s))
        BY <2>2
    <2> QED
        BY <2>1, <2>2
<1>3. Len(s) \in S
    <2> HIDE DEF S
    <2> QED
        BY <1>0, <1>1, <1>2, Induction
<1> QED
    BY <1>0, <1>3 DEF Counts, CountsTo

\* Bytes is what any such function counts to.
LEMMA BytesCounts ==
    ASSUME NEW s \in Seq(Chunks), NEW f, Counts(f, s)
    PROVE  Bytes(s) = f[Len(s)]
<1> DEFINE Sums(g) == g = [i \in 0 .. Len(s) |-> IF i = 0 THEN 0 ELSE g[i - 1] + s[i].len]
           upTo == CHOOSE g : Sums(g)
<1>0. Len(s) \in Nat
    BY LenProperties
<1>1. Sums(f)
    BY <1>0 DEF Counts, CountsTo
<1>2. Sums(upTo)
    BY <1>1
<1>3. Bytes(s) = upTo[Len(s)]
    BY DEF Bytes
<1> HIDE DEF upTo
<1> DEFINE S == {n \in Nat : n <= Len(s) => upTo[n] = f[n]}
<1>4. 0 \in S
    BY <1>1, <1>2
<1>5. ASSUME NEW n \in Nat, n \in S
      PROVE  n + 1 \in S
    <2> SUFFICES ASSUME n + 1 <= Len(s) PROVE upTo[n + 1] = f[n + 1]
        OBVIOUS
    <2>1. n + 1 \in 0 .. Len(s) /\ (n + 1) - 1 = n
        BY <1>0
    <2>2. upTo[n] = f[n]
        BY <1>0, <1>5
    <2>3. upTo[n + 1] = upTo[n] + s[n + 1].len
        BY <1>2, <2>1
    <2>4. f[n + 1] = f[n] + s[n + 1].len
        BY <1>1, <2>1
    <2> QED
        BY <2>2, <2>3, <2>4
<1>6. Len(s) \in S
    <2> HIDE DEF S
    <2> QED
        BY <1>0, <1>4, <1>5, Induction
<1> QED
    BY <1>0, <1>3, <1>6

\* The empty sequence has no bytes, and one more chunk adds its length.
LEMMA BytesOfNothing == Bytes(<<>>) = 0
<1> DEFINE f == [i \in 0 .. 0 |-> 0]
<1>1. <<>> \in Seq(Chunks) /\ Len(<<>>) = 0
    BY EmptySeq
<1>2. Counts(f, <<>>)
    BY <1>1 DEF Counts, CountsTo
<1>3. Bytes(<<>>) = f[Len(<<>>)]
    BY <1>1, <1>2, BytesCounts
<1> QED
    BY <1>1, <1>3

LEMMA BytesOfMore ==
    ASSUME NEW s \in Seq(Chunks), NEW c \in Chunks
    PROVE  Bytes(Append(s, c)) = Bytes(s) + c.len
<1> DEFINE t == Append(s, c)
<1>0. /\ Len(s) \in Nat /\ t \in Seq(Chunks) /\ Len(t) = Len(s) + 1
      /\ \A i \in 1 .. Len(s) : t[i] = s[i]
      /\ t[Len(s) + 1] = c
    BY LenProperties, AppendProperties
<1>1. PICK f : Counts(f, t)
    BY <1>0, CountsExists
<1> HIDE DEF t
<1> DEFINE g == [i \in 0 .. Len(s) |-> f[i]]
<1>2. Counts(g, s)
    <2>1. g \in [0 .. Len(s) -> Nat] /\ g[0] = 0
        BY <1>0, <1>1 DEF Counts, CountsTo
    <2>2. ASSUME NEW i \in 1 .. Len(s) PROVE g[i] = g[i - 1] + s[i].len
        BY <1>0, <1>1 DEF Counts, CountsTo
    <2> QED
        BY <2>1, <2>2 DEF Counts, CountsTo
<1>3. Bytes(t) = f[Len(s) + 1] /\ Bytes(s) = g[Len(s)]
    BY <1>0, <1>1, <1>2, BytesCounts
<1>4. f[Len(s) + 1] = f[Len(s)] + c.len
    BY <1>0, <1>1 DEF Counts, CountsTo
<1> QED
    BY <1>0, <1>3, <1>4 DEF t

LEMMA BytesType ==
    ASSUME NEW s \in Seq(Chunks)
    PROVE  Bytes(s) \in Nat
<1>1. PICK f : Counts(f, s)
    BY CountsExists
<1> QED
    BY <1>1, BytesCounts, LenProperties DEF Counts, CountsTo
-----------------------------------------------------------------------------
(* Type correctness.                                                       *)

\* Cut in two, it is the two together.
LEMMA SubSeqCut ==
    ASSUME NEW S, NEW s \in Seq(S), NEW k \in 0 .. Len(s)
    PROVE  SubSeq(s, 1, k) \o SubSeq(s, k + 1, Len(s)) = s
<1>1. Len(s) \in Nat /\ k \in Nat
    BY LenProperties
<1>2. SubSeq(s, 1, k) \o SubSeq(s, k + 1, Len(s)) = SubSeq(s, 1, Len(s))
    <2>1. /\ 1 \in 1 .. Len(s) + 1 /\ k \in 1 - 1 .. Len(s)
          /\ Len(s) \in k .. Len(s)
        BY <1>1
    <2> QED
        BY <2>1, ConcatAdjacentSubSeq
<1> QED
    BY <1>2, SubSeqFull

\* Of a sequence that is a longer and longer part of another, the part is at any
\* time a first part: a relay delivers it.
LEMMA PrefixGrows ==
    ASSUME NEW S, NEW d \in Seq(S), NEW u \in Seq(S), NEW e \in Seq(S), NEW v \in Seq(S),
           Cat(d, u) = Cat(e, v), Len(e) >= Len(d)
    PROVE  e = d \/ \E n \in Len(d) + 1 .. Len(Cat(d, u)) : e = SubSeq(Cat(d, u), 1, n)
<1> DEFINE a == Cat(d, u)
<1>0. /\ Len(d) \in Nat /\ Len(e) \in Nat /\ Len(u) \in Nat /\ Len(v) \in Nat
      /\ a \in Seq(S) /\ a = Cat(e, v)
      /\ Len(a) = Len(d) + Len(u) /\ Len(a) = Len(e) + Len(v)
    BY LenProperties, CatType, CatLonger
<1>1. /\ \A i \in 1 .. Len(d) : a[i] = d[i]
      /\ \A i \in 1 .. Len(e) : a[i] = e[i]
    <2>1. /\ \A i \in 1 .. Len(d) : Cat(d, u)[i] = d[i]
          /\ \A i \in 1 .. Len(e) : Cat(e, v)[i] = e[i]
        BY <1>0, ConcatProperties DEF Cat
    <2> QED
        BY <1>0, <2>1
<1> HIDE DEF a
<1>2. CASE Len(e) = Len(d)
    <2>1. e = d
        BY <1>0, <1>1, <1>2, SeqEqual
    <2> QED
        BY <2>1
<1>3. CASE Len(e) > Len(d)
    <2>1. \A i \in 1 .. Len(e) : a[i] \in S
        BY <1>0, ElementOfSeq
    <2>2. /\ SubSeq(a, 1, Len(e)) \in Seq(S)
          /\ Len(SubSeq(a, 1, Len(e))) = Len(e)
          /\ \A i \in 1 .. Len(e) : SubSeq(a, 1, Len(e))[i] = a[i]
        BY <1>0, <1>3, <2>1, SubSeqProperties
    <2>3. e = SubSeq(a, 1, Len(e))
        BY <1>1, <2>2, SeqEqual
    <2>4. Len(e) \in Len(d) + 1 .. Len(a)
        BY <1>0, <1>3
    <2> QED
        BY <2>3, <2>4 DEF a
<1> QED
    BY <1>0, <1>2, <1>3

Stdio == [open : BOOLEAN, ino : {"cur", "bak", "gone"}, pend : Seq(Chunks)]

LEMMA PutType ==
    ASSUME FileTypeOK, NEW ino, NEW s \in Seq(Chunks), Put(ino, s)
    PROVE  cur' \in Seq(Chunks) /\ bak' \in Seq(Chunks) /\ evicted' \in Seq(Chunks)
<1>1. cur \o s \in Seq(Chunks) /\ bak \o s \in Seq(Chunks) /\ evicted \o s \in Seq(Chunks)
    BY ConcatProperties DEF FileTypeOK
<1> QED
    BY <1>1 DEF Put, FileTypeOK

LEMMA FwriteType ==
    ASSUME FileTypeOK, NEW f \in Stream, NEW s \in Seq(Chunks), Fwrite(f, s)
    PROVE  /\ cur' \in Seq(Chunks) /\ bak' \in Seq(Chunks) /\ evicted' \in Seq(Chunks)
           /\ stream' \in [Stream -> Stdio]
           /\ written' \in Seq(Chunks)
<1> DEFINE all == stream[f].pend \o s
<1>0. stream \in [Stream -> Stdio] /\ stream[f].pend \in Seq(Chunks)
    BY DEF FileTypeOK, Stdio
<1>1. all \in Seq(Chunks) /\ written \o s \in Seq(Chunks)
    BY <1>0, ConcatProperties DEF FileTypeOK
<1>2. PICK k \in 0 .. Len(all) :
        /\ Put(stream[f].ino, SubSeq(all, 1, k))
        /\ stream' = [stream EXCEPT ![f].pend = SubSeq(all, k + 1, Len(all))]
    BY DEF Fwrite
<1>3. SubSeq(all, 1, k) \in Seq(Chunks) /\ SubSeq(all, k + 1, Len(all)) \in Seq(Chunks)
    <2> HIDE DEF all
    <2> QED
        BY <1>1, SubSeqType
<1>4. cur' \in Seq(Chunks) /\ bak' \in Seq(Chunks) /\ evicted' \in Seq(Chunks)
    <2> HIDE DEF all
    <2> QED
        BY <1>2, <1>3, PutType
<1>5. stream' \in [Stream -> Stdio]
    <2> HIDE DEF all
    <2> QED
        BY <1>0, <1>2, <1>3 DEF Stdio
<1>6. written' \in Seq(Chunks)
    BY <1>1 DEF Fwrite
<1> QED
    BY <1>4, <1>5, <1>6

LEMMA FcloseType ==
    ASSUME FileTypeOK, NEW f \in Stream, Fclose(f)
    PROVE  /\ cur' \in Seq(Chunks) /\ bak' \in Seq(Chunks) /\ evicted' \in Seq(Chunks)
           /\ stream' \in [Stream -> Stdio]
           /\ present' \in BOOLEAN
<1>1. stream \in [Stream -> Stdio] /\ stream[f].pend \in Seq(Chunks)
    BY DEF FileTypeOK, Stdio
<1>2. Closed \in Stdio
    BY DEF Closed, Stdio
<1>3. cur' \in Seq(Chunks) /\ bak' \in Seq(Chunks) /\ evicted' \in Seq(Chunks)
    BY <1>1, PutType DEF Fclose
<1> QED
    BY <1>1, <1>2, <1>3 DEF Fclose, FileTypeOK

LEMMA CloseType ==
    ASSUME FileTypeOK, NEW f \in Stream \cup {NULL}, closeRPIOFile(f)
    PROVE  /\ cur' \in Seq(Chunks) /\ bak' \in Seq(Chunks) /\ evicted' \in Seq(Chunks)
           /\ stream' \in [Stream -> Stdio]
           /\ present' \in BOOLEAN
           /\ proc' \in {"run", "exit", "crash"}
           /\ written' \in Seq(Chunks)
<1>1. CASE f \in Stream /\ Fclose(f) /\ UNCHANGED <<proc, written>>
    BY <1>1, FcloseType DEF FileTypeOK
<1>2. CASE Misuse
    BY <1>2 DEF Misuse, dirVars, FileTypeOK, Stdio
<1>3. CASE UNCHANGED <<dirVars, stream, proc, written>>
    BY <1>3 DEF dirVars, FileTypeOK, Stdio
<1> QED
    BY <1>1, <1>2, <1>3 DEF closeRPIOFile

\* Every step of batch_write_file keeps the state of the file layer well-typed.
LEMMA BatchStepType ==
    ASSUME FileTypeOK, NEW w \in Writer, BatchStep(w)
    PROVE  FileTypeOK'
<1>0. stream \in [Stream -> Stdio] /\ <<>> \in Seq(Chunks)
    BY DEF FileTypeOK, Stdio
<1>1. ASSUME NEW pos \in {"idle", "check", "recheck", "fwrite", "ok", "close",
                          "open", "done"}, Goto(w, pos)
      PROVE  /\ bpc' \in [Writer -> {"idle", "check", "recheck", "fwrite", "ok",
                                     "close", "open", "done"}]
             /\ bfp' \in [Writer -> Stream \cup {NULL}]
             /\ bdata' \in [Writer -> Seq(Chunks)]
    BY <1>1 DEF Goto, FileTypeOK
<1>2. CASE BCheckPasses(w) \/ BStatFails(w) \/ BOk(w) \/ BReopenFails(w)
    BY <1>1, <1>2 DEF BCheckPasses, BStatFails, BOk, BReopenFails, Refused, dirVars,
        FileTypeOK
<1>3. CASE BRotate(w)
    <2>1. bpc' \in [Writer -> {"idle", "check", "recheck", "fwrite", "ok",
                               "close", "open", "done"}]
          /\ bfp' \in [Writer -> Stream \cup {NULL}]
          /\ bdata' \in [Writer -> Seq(Chunks)]
        BY <1>1, <1>3 DEF BRotate, Refused
    <2>2. CASE Rotate
        <3>1. evicted' \in Seq(Chunks) /\ bak' \in Seq(Chunks) /\ cur' \in Seq(Chunks)
            BY <1>0, <2>2, ConcatProperties DEF Rotate, FileTypeOK
        <3>2. stream' \in [Stream -> Stdio]
            BY <1>0, <2>2 DEF Rotate, Stdio
        <3> QED
            BY <1>3, <2>1, <2>2, <3>1, <3>2 DEF BRotate, Rotate, FileTypeOK, Stdio
    <2>3. CASE UNCHANGED <<dirVars, stream>>
        BY <1>3, <2>1, <2>3 DEF BRotate, FileTypeOK, dirVars
    <2> QED
        BY <1>3, <2>2, <2>3 DEF BRotate
<1>4. CASE BFwrite(w)
    <2>1. Goto(w, "ok")
        BY <1>4 DEF BFwrite
    <2>2. CASE Usable(bfp[w])
        <3>1. bdata[w] \in Seq(Chunks) /\ Fwrite(bfp[w], bdata[w])
            BY <1>4, <2>2 DEF BFwrite, Usable, FileTypeOK
        <3> QED
            BY <1>1, <1>4, <2>1, <2>2, <3>1, FwriteType DEF BFwrite, Usable, FileTypeOK, Stdio
    <2>3. CASE ~ Usable(bfp[w])
        BY <1>1, <1>4, <2>1, <2>3 DEF BFwrite, Misuse, dirVars, FileTypeOK
    <2> QED
        BY <2>2, <2>3
<1>5. CASE BClose(w)
    BY <1>1, <1>5, CloseType DEF BClose, FileTypeOK, Stdio
<1>6. CASE BReopen(w)
    <2>1. PICK f \in Stream : Fopen(f) /\ bfp' = [bfp EXCEPT ![w] = f]
        BY <1>6 DEF BReopen
    <2>2. cur' \in Seq(Chunks) /\ present' \in BOOLEAN /\ UNCHANGED <<bak, evicted>>
        BY <1>0, <2>1 DEF Fopen, FileTypeOK
    <2>3. stream' \in [Stream -> Stdio]
        BY <1>0, <2>1 DEF Fopen, Opened, Stdio
    <2> QED
        BY <1>6, <2>1, <2>2, <2>3 DEF BReopen, FileTypeOK, Stdio
<1> QED
    BY <1>2, <1>3, <1>4, <1>5, <1>6 DEF BatchStep

\* So do a call, a return, and leaving everything alone.
LEMMA FileSameType ==
    ASSUME FileTypeOK, UNCHANGED fileVars
    PROVE  FileTypeOK'
BY DEF fileVars, dirVars, batchVars, FileTypeOK

LEMMA BatchCallType ==
    ASSUME FileTypeOK, NEW w \in Writer, NEW f \in Stream \cup {NULL},
           NEW s \in Seq(Chunks), BatchCall(w, f, s),
           UNCHANGED <<dirVars, stream, wlock, proc, written>>
    PROVE  FileTypeOK'
BY DEF BatchCall, dirVars, FileTypeOK

LEMMA BatchReturnType ==
    ASSUME FileTypeOK, NEW w \in Writer, BatchReturn(w),
           UNCHANGED <<dirVars, stream, wlock, proc, written>>
    PROVE  FileTypeOK'
BY DEF BatchReturn, dirVars, FileTypeOK

LEMMA FopenType ==
    ASSUME FileTypeOK, NEW f \in Stream, Fopen(f)
    PROVE  /\ cur' \in Seq(Chunks) /\ present' \in BOOLEAN
           /\ stream' \in [Stream -> Stdio]
BY DEF FileTypeOK, Fopen, Opened, Stdio

LEMMA FileInitType ==
    ASSUME FileInit
    PROVE  FileTypeOK
<1>1. Closed \in Stdio
    BY DEF Closed, Stdio
<1>2. stream \in [Stream -> Stdio]
    BY <1>1 DEF FileInit, Stdio
<1>3. /\ bfp \in [Writer -> Stream \cup {NULL}]
      /\ bdata \in [Writer -> Seq(Chunks)]
    BY DEF FileInit
<1>4. bpc \in [Writer -> {"idle", "check", "recheck", "fwrite", "ok",
                         "close", "open", "done"}]
    BY DEF FileInit
<1>5. /\ cur \in Seq(Chunks) /\ bak \in Seq(Chunks) /\ evicted \in Seq(Chunks)
      /\ written \in Seq(Chunks)
    BY DEF FileInit
<1>6. present \in BOOLEAN /\ wlock \in BOOLEAN /\ proc \in {"run", "exit", "crash"}
    BY DEF FileInit
<1> QED
    BY <1>2, <1>3, <1>4, <1>5, <1>6 DEF FileTypeOK, Stdio
-----------------------------------------------------------------------------
(* The files.                                                              *)

\* What the files hold only grows.
Grows == Len(OnDisk') >= Len(OnDisk)

LEMMA OnDiskType ==
    ASSUME FileTypeOK
    PROVE  OnDisk \in Seq(Chunks) /\ OnDisk = Cat(Cat(evicted, bak), cur)
<1>1. Cat(Cat(evicted, bak), cur) \in Seq(Chunks)
    BY CatType DEF FileTypeOK
<1>2. OnDisk = Cat(Cat(evicted, bak), cur)
    BY DEF OnDisk, Cat
<1> QED
    BY <1>1, <1>2

\* write(2) adds to the end of all that is in the files.
LEMMA PutAppends ==
    ASSUME FileTypeOK, NEW ino \in {"cur", "bak"}, ino = "bak" => cur = <<>>,
           NEW s \in Seq(Chunks), Put(ino, s)
    PROVE  OnDisk' = Cat(OnDisk, s)
<1>1. /\ evicted \in Seq(Chunks) /\ bak \in Seq(Chunks) /\ cur \in Seq(Chunks)
      /\ Cat(evicted, bak) \in Seq(Chunks)
    BY CatType DEF FileTypeOK
<1>2. OnDisk' = Cat(Cat(evicted', bak'), cur') /\ OnDisk = Cat(Cat(evicted, bak), cur)
    BY DEF OnDisk, Cat
<1>3. CASE ino = "cur"
    <2>1. evicted' = evicted /\ bak' = bak /\ cur' = Cat(cur, s)
        BY <1>3 DEF Put, Cat
    <2>2. Cat(Cat(Cat(evicted, bak), cur), s) = Cat(Cat(evicted, bak), Cat(cur, s))
        BY <1>1, CatAssociative
    <2> QED
        BY <1>2, <2>1, <2>2
<1>4. CASE ino = "bak"
    <2>1. evicted' = evicted /\ bak' = Cat(bak, s) /\ cur' = <<>> /\ cur = <<>>
        BY <1>4 DEF Put, Cat
    <2>2. /\ Cat(Cat(evicted, bak), s) = Cat(evicted, Cat(bak, s))
          /\ Cat(evicted, Cat(bak, s)) \in Seq(Chunks)
        BY <1>1, CatAssociative, CatType
    <2>3. /\ Cat(Cat(evicted, bak), <<>>) = Cat(evicted, bak)
          /\ Cat(Cat(evicted, Cat(bak, s)), <<>>) = Cat(evicted, Cat(bak, s))
        BY <1>1, <2>2, CatEmpty
    <2> QED
        BY <1>2, <2>1, <2>2, <2>3
<1> QED
    BY <1>3, <1>4

\* What follows of FileInv for the one stream.
LEMMA OneFile ==
    ASSUME FileTypeOK, FileInv, NEW f \in Stream
    PROVE  /\ Cat(OnDisk, stream[f].pend) = written
           /\ stream[f].pend \in Seq(Chunks)
           /\ stream[f] = [open |-> stream[f].open, ino |-> stream[f].ino,
                           pend |-> stream[f].pend]
           /\ stream[f].open =>
                /\ stream[f].ino \in {"cur", "bak"}
                /\ stream[f].ino = "bak" => cur = <<>>
                /\ stream[f].ino = IF present THEN "cur" ELSE "bak"
BY DEF FileTypeOK, FileInv, Cat

LEMMA SameFiles ==
    ASSUME FileTypeOK, FileInv, UNCHANGED <<dirVars, stream, written>>
    PROVE  FileInv' /\ Grows
<1>1. OnDisk' = OnDisk
    BY DEF dirVars, OnDisk
<1>2. Len(OnDisk) \in Nat
    BY OnDiskType, LenProperties
<1> QED
    BY <1>1, <1>2 DEF FileInv, Grows, dirVars

\* fwrite moves chunks along, and adds its own behind them.
LEMMA FwriteFiles ==
    ASSUME FileTypeOK, FileInv, OneStream, NEW f \in Stream, stream[f].open,
           NEW s \in Seq(Chunks), Fwrite(f, s), UNCHANGED present
    PROVE  FileInv' /\ Grows
<1> DEFINE all == Cat(stream[f].pend, s)
<1>0. /\ OnDisk \in Seq(Chunks) /\ stream[f].pend \in Seq(Chunks)
      /\ all \in Seq(Chunks)
      /\ stream \in [Stream -> Stdio]
    BY OnDiskType, OneFile, CatType DEF FileTypeOK, Stdio
<1>1. all = stream[f].pend \o s
    BY DEF Cat
<1>2. PICK k \in 0 .. Len(all) :
        /\ Put(stream[f].ino, SubSeq(all, 1, k))
        /\ stream' = [stream EXCEPT ![f].pend = SubSeq(all, k + 1, Len(all))]
    BY <1>1 DEF Fwrite
<1> HIDE DEF all
<1>3. PICK a, z \in Seq(Chunks) :
        /\ Put(stream[f].ino, a)
        /\ stream' = [stream EXCEPT ![f].pend = z]
        /\ Cat(a, z) = all
    <2>1. SubSeq(all, 1, k) \in Seq(Chunks) /\ SubSeq(all, k + 1, Len(all)) \in Seq(Chunks)
        BY <1>0, SubSeqType
    <2>2. Cat(SubSeq(all, 1, k), SubSeq(all, k + 1, Len(all))) = all
        BY <1>0, SubSeqCut DEF Cat
    <2> QED
        BY <1>2, <2>1, <2>2
<1>4. OnDisk' = Cat(OnDisk, a)
    BY <1>3, OneFile, PutAppends
<1>5. Cat(OnDisk', z) = written'
    <2>1. Cat(Cat(OnDisk, a), z) = Cat(OnDisk, all)
        BY <1>0, <1>3, CatAssociative
    <2>2. Cat(OnDisk, all) = Cat(Cat(OnDisk, stream[f].pend), s)
        BY <1>0, CatAssociative DEF all
    <2>3. written' = Cat(written, s)
        BY DEF Fwrite, Cat
    <2> QED
        BY <1>4, <2>1, <2>2, <2>3, OneFile
<1>6. Grows
    <2>1. Len(OnDisk) \in Nat /\ Len(a) \in Nat
        BY <1>0, LenProperties
    <2>2. Len(OnDisk') = Len(OnDisk) + Len(a)
        BY <1>0, <1>4, CatLonger
    <2> QED
        BY <2>1, <2>2 DEF Grows
<1>7. stream'[f].pend = z /\ stream'[f].open = stream[f].open
      /\ stream'[f].ino = stream[f].ino
    BY <1>0, <1>3 DEF Stdio
<1>8. ~ present' => cur' = <<>>
    BY <1>3, OneFile DEF Put, FileInv
<1>9. Stream = {f}
    BY DEF OneStream
<1> QED
    BY <1>5, <1>6, <1>7, <1>8, <1>9, OneFile DEF FileInv, Cat

\* fclose leaves nothing pending.
LEMMA FcloseFiles ==
    ASSUME FileTypeOK, FileInv, OneStream, NEW f \in Stream, stream[f].open,
           Fclose(f), UNCHANGED written
    PROVE  FileInv' /\ Grows
<1>0. /\ OnDisk \in Seq(Chunks) /\ stream[f].pend \in Seq(Chunks)
      /\ stream \in [Stream -> Stdio]
    BY OnDiskType, OneFile DEF FileTypeOK, Stdio
<1>1. OnDisk' = Cat(OnDisk, stream[f].pend)
    BY <1>0, OneFile, PutAppends DEF Fclose
<1>2. Cat(OnDisk', <<>>) = written'
    <2>1. Cat(Cat(OnDisk, stream[f].pend), <<>>) = Cat(OnDisk, stream[f].pend)
        BY <1>0, CatType, CatEmpty
    <2> QED
        BY <1>1, <2>1, OneFile
<1>3. Grows
    <2>1. Len(OnDisk) \in Nat /\ Len(stream[f].pend) \in Nat
        BY <1>0, LenProperties
    <2>2. Len(OnDisk') = Len(OnDisk) + Len(stream[f].pend)
        BY <1>0, <1>1, CatLonger
    <2> QED
        BY <2>1, <2>2 DEF Grows
<1>4. stream'[f].pend = <<>> /\ ~ stream'[f].open
    BY <1>0 DEF Fclose, Closed
<1>5. ~ present' => cur' = <<>>
    BY OneFile DEF Fclose, Put, FileInv
<1>6. Stream = {f}
    BY DEF OneStream
<1> QED
    BY <1>2, <1>3, <1>4, <1>5, <1>6 DEF FileInv, Cat

\* fopen truncates a file only when there is none, so that nothing is lost.
LEMMA FopenFiles ==
    ASSUME FileTypeOK, FileInv, OneStream, NEW f \in Stream, Fopen(f), UNCHANGED written
    PROVE  FileInv' /\ Grows
<1>0. stream \in [Stream -> Stdio] /\ Len(OnDisk) \in Nat
    BY OnDiskType, LenProperties DEF FileTypeOK, Stdio
<1>1. OnDisk' = OnDisk
    BY DEF Fopen, FileInv, OnDisk
<1>2. /\ stream[f].pend = <<>> /\ stream'[f].pend = <<>>
      /\ stream'[f].ino = "cur" /\ present'
    BY <1>0 DEF Fopen, FileInv, Opened
<1>3. Stream = {f}
    BY DEF OneStream
<1> QED
    BY <1>0, <1>1, <1>2, <1>3 DEF FileInv, Grows

\* mv leaves nothing out and brings nothing out of order.
LEMMA RotateFiles ==
    ASSUME FileTypeOK, FileInv, OneStream, present, Rotate, UNCHANGED written
    PROVE  FileInv' /\ Grows
<1>0. stream \in [Stream -> Stdio] /\ Len(OnDisk) \in Nat
    BY OnDiskType, LenProperties DEF FileTypeOK, Stdio
<1>1. OnDisk' = OnDisk
    <2>1. OnDisk' = Cat(Cat(Cat(evicted, bak), cur), <<>>)
        BY DEF Rotate, OnDisk, Cat
    <2>2. Cat(OnDisk, <<>>) = OnDisk
        BY OnDiskType, CatEmpty
    <2> QED
        BY <2>1, <2>2, OnDiskType
<1>2. PICK f : Stream = {f}
    BY DEF OneStream
<1>3. /\ stream'[f].pend = stream[f].pend /\ stream'[f].open = stream[f].open
      /\ stream[f].open => stream'[f].ino = "bak"
    BY <1>0, <1>2 DEF Rotate, Stdio, FileInv
<1>4. present' = FALSE /\ cur' = <<>> /\ written' = written
    BY DEF Rotate
<1>5. FileInv'
    BY <1>1, <1>2, <1>3, <1>4 DEF FileInv
<1>6. Grows
    BY <1>0, <1>1 DEF Grows
<1> QED
    BY <1>5, <1>6

LEMMA CloseFiles ==
    ASSUME FileTypeOK, FileInv, OneStream, NEW f \in Stream \cup {NULL}, closeRPIOFile(f)
    PROVE  FileInv' /\ Grows
<1>1. CASE f \in Stream /\ stream[f].open /\ Fclose(f) /\ UNCHANGED written
    BY <1>1, FcloseFiles
<1>2. CASE UNCHANGED <<dirVars, stream, written>>
    BY <1>2, SameFiles
<1> QED
    BY <1>1, <1>2, RpioWriteAssumption DEF closeRPIOFile, Misuse

\* No step of batch_write_file, whatever fails, loses a chunk that fwrite took or
\* brings one out of order.
LEMMA BatchStepFiles ==
    ASSUME FileTypeOK, FileInv, OneStream, NEW w \in Writer, BatchStep(w)
    PROVE  FileInv' /\ Grows
<1>1. CASE BCheckPasses(w) \/ BStatFails(w) \/ BOk(w) \/ BReopenFails(w)
    BY <1>1, SameFiles DEF BCheckPasses, BStatFails, BOk, BReopenFails, dirVars
<1>2. CASE BRotate(w)
    BY <1>2, RotateFiles, SameFiles DEF BRotate
<1>3. CASE BFwrite(w)
    <2>1. CASE Usable(bfp[w])
        <3>1. /\ bfp[w] \in Stream /\ stream[bfp[w]].open /\ bdata[w] \in Seq(Chunks)
              /\ Fwrite(bfp[w], bdata[w]) /\ UNCHANGED present
            BY <1>3, <2>1 DEF BFwrite, Usable, FileTypeOK
        <3> QED
            BY <3>1, FwriteFiles
    <2>2. CASE ~ Usable(bfp[w])
        BY <1>3, <2>2, SameFiles DEF BFwrite, Misuse
    <2> QED
        BY <2>1, <2>2
<1>4. CASE BClose(w)
    BY <1>4, CloseFiles DEF BClose, FileTypeOK
<1>5. CASE BReopen(w)
    <2>1. PICK f \in Stream : Fopen(f)
        BY <1>5 DEF BReopen
    <2>2. UNCHANGED written
        BY <1>5 DEF BReopen
    <2> QED
        BY <2>1, <2>2, FopenFiles
<1> QED
    BY <1>1, <1>2, <1>3, <1>4, <1>5 DEF BatchStep

LEMMA FileInitFiles ==
    ASSUME FileInit
    PROVE  FileInv
<1>1. OnDisk = <<>>
    BY DEF FileInit, OnDisk
<1>2. \A f \in Stream : stream[f] = Closed /\ ~ stream[f].open /\ stream[f].pend = <<>>
    BY DEF FileInit, Closed
<1>3. cur = <<>> /\ written = <<>>
    BY DEF FileInit
<1> QED
    BY <1>1, <1>2, <1>3 DEF FileInv

\* What the invariant is for.
LEMMA FilesHold ==
    ASSUME FileInv, OneStream
    PROVE  FileContents
BY DEF FileInv, OneStream, FileContents

-----------------------------------------------------------------------------
(* batch_write_file when nothing fails.                                    *)

\* A batch is not dropped, and what fwrite gets of it is all of it.
LEMMA BatchStepGoesOn ==
    ASSUME FileTypeOK, FileInv, OneStream, Faults = {}, proc = "run",
           NEW w \in Writer, NEW h \in Stream, NEW s \in Seq(Chunks),
           Batching(w, h, s), bpc[w] # "idle", BatchStep(w)
    PROVE  /\ Batching(w, h, s)' /\ bpc'[w] # "idle" /\ proc' = "run"
           /\ Named(w) => Named(w)'
           /\ written' \o Left(w, s)' = written \o Left(w, s)
           /\ \A v \in Writer \ {w} : bpc'[v] = bpc[v]
<1>0. /\ DOMAIN bpc = Writer /\ DOMAIN bfp = Writer /\ DOMAIN bdata = Writer
      /\ stream \in [Stream -> Stdio] /\ written \in Seq(Chunks)
    BY DEF FileTypeOK, Stdio
<1>1. Stream = {h} /\ bfp[w] = h /\ bdata[w] = s /\ h # NULL
    BY RpioWriteAssumption DEF OneStream, Batching
<1>2. ASSUME NEW pos, Goto(w, pos)
      PROVE  /\ bpc'[w] = pos /\ bfp' = bfp /\ bdata' = bdata
             /\ \A v \in Writer \ {w} : bpc'[v] = bpc[v]
    BY <1>0, <1>2 DEF Goto
<1>3. CASE BCheckPasses(w)
    <2>1. /\ bpc[w] \in {"check", "recheck"} /\ bpc'[w] = "fwrite"
          /\ UNCHANGED <<bfp, bdata, present, cur, stream, proc, written>>
          /\ \A v \in Writer \ {w} : bpc'[v] = bpc[v]
        BY <1>2, <1>3 DEF BCheckPasses, Checking, dirVars
    <2> QED
        BY <2>1 DEF Batching, Named, Left
<1>4. CASE BStatFails(w)
    <2>1. /\ bpc[w] = "check" /\ ~ present
        BY <1>4 DEF BStatFails, Checking, Batching
    <2>2. /\ bpc'[w] = "close"
          /\ UNCHANGED <<bfp, bdata, present, cur, stream, proc, written>>
          /\ \A v \in Writer \ {w} : bpc'[v] = bpc[v]
        BY <1>2, <1>4, <2>1 DEF BStatFails, Refused, dirVars
    <2> QED
        BY <2>1, <2>2 DEF Batching, Named, Left
<1>5. CASE BRotate(w)
    <2>1. bpc[w] = "check"
        <3>1. cur # <<>>
            BY <1>5, BytesOfNothing, RpioWriteAssumption DEF BRotate
        <3> QED
            BY <1>5, <3>1 DEF BRotate, Checking, Batching
    <2>2. /\ bpc'[w] = "close" /\ Rotate
          /\ UNCHANGED <<bfp, bdata, proc, written>>
          /\ \A v \in Writer \ {w} : bpc'[v] = bpc[v]
        BY <1>2, <1>5, <2>1 DEF BRotate, Refused
    <2>3. present' = FALSE /\ stream'[h].open = stream[h].open
        BY <1>0, <2>2 DEF Rotate, Stdio
    <2> QED
        BY <2>1, <2>2, <2>3 DEF Batching, Named, Left
<1>6. CASE BFwrite(w)
    <2>1. /\ bpc[w] = "fwrite" /\ bpc'[w] = "ok" /\ bfp' = bfp /\ bdata' = bdata
          /\ \A v \in Writer \ {w} : bpc'[v] = bpc[v]
        BY <1>2, <1>6 DEF BFwrite
    <2>2. Fwrite(h, s) /\ UNCHANGED <<present, proc>>
        BY <1>1, <1>6, <2>1 DEF BFwrite, Usable, Batching
    <2>3. written' = Cat(written, s) /\ stream'[h].open = stream[h].open
        BY <1>0, <2>2 DEF Fwrite, Stdio, Cat
    <2>4. written' \o <<>> = written'
        <3>1. Cat(written, s) \in Seq(Chunks)
            BY <1>0, CatType
        <3> QED
            BY <2>3, <3>1, CatEmpty DEF Cat
    <2> QED
        BY <2>1, <2>2, <2>3, <2>4 DEF Batching, Named, Left, Cat
<1>7. CASE BOk(w)
    <2>1. /\ bpc[w] = "ok" /\ bpc'[w] = "done"
          /\ UNCHANGED <<bfp, bdata, present, cur, stream, proc, written>>
          /\ \A v \in Writer \ {w} : bpc'[v] = bpc[v]
        BY <1>2, <1>7 DEF BOk, dirVars
    <2> QED
        BY <2>1 DEF Batching, Named, Left
<1>8. CASE BClose(w)
    <2>1. /\ bpc[w] = "close" /\ bpc'[w] = "open" /\ bfp' = bfp /\ bdata' = bdata
          /\ \A v \in Writer \ {w} : bpc'[v] = bpc[v]
        BY <1>2, <1>8 DEF BClose
    <2>2. Fclose(h) /\ UNCHANGED <<proc, written>>
        BY <1>1, <1>8, <2>1 DEF BClose, closeRPIOFile, Batching
    <2>3. ~ stream'[h].open /\ present' = present
        BY <1>0, <2>2 DEF Fclose, Closed
    <2> QED
        BY <2>1, <2>2, <2>3 DEF Batching, Named, Left
<1>9. CASE BReopen(w)
    <2>1. /\ bpc[w] = "open" /\ bpc'[w] = "recheck" /\ Fopen(h)
          /\ bfp'[w] = h /\ UNCHANGED <<bdata, proc, written>>
          /\ \A v \in Writer \ {w} : bpc'[v] = bpc[v]
        BY <1>0, <1>1, <1>9 DEF BReopen
    <2>2. stream'[h].open /\ present' = TRUE /\ cur' = <<>>
        BY <1>0, <2>1 DEF Fopen, Opened, Batching
    <2> QED
        BY <1>1, <2>1, <2>2 DEF Batching, Named, Left
<1>10. CASE BReopenFails(w)
    BY <1>10 DEF BReopenFails
<1> QED
    BY <1>3, <1>4, <1>5, <1>6, <1>7, <1>8, <1>9, <1>10 DEF BatchStep
================================================================================
