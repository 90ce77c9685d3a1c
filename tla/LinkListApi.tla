------------------------------ MODULE LinkListApi ------------------------------
(***************************************************************************)
(* All the operations of linklist.c, one at a time, in any order, on one    *)
(* list: those by position, by value and in bulk beside the queue's two.    *)
(* LinkList has the queue under two threads, pointer by pointer; here each  *)
(* operation is one step on the pointers, and bad is set where it would     *)
(* follow a null pointer or write to a node that has been freed.            *)
(***************************************************************************)
EXTENDS Integers, SequencesExt

CONSTANTS
    Node, HEAD, NULL,   \* addresses, the header's, and the null pointer
    Datum               \* what a data_t may be

ASSUME ApiAssumption ==
    /\ HEAD \notin Node /\ NULL \notin Node /\ HEAD # NULL
    /\ IsFiniteSet(Node) /\ Datum # {}

VARIABLES
    next, data,     \* of every address; the header's data too
    tail,           \* list->tail
    heap,           \* the nodes that are allocated
    leaked,         \* history: those that nothing points at any more
    op,             \* the last call: its name, position and datum
    bad             \* has a call done something undefined?

vars == <<next, data, tail, heap, leaked, op, bad>>

\* The i-th node from the header, found by following next.
At ==
    LET walk[i \in 0 .. Cardinality(Node) + 2] ==
            IF i = 0 THEN HEAD
            ELSE IF walk[i - 1] = NULL THEN NULL ELSE next[walk[i - 1]]
    IN  walk

Linklist_Length == Cardinality({i \in 1 .. Cardinality(Node) : At[i] # NULL})

Content == [i \in 1 .. Linklist_Length |-> data[At[i]]]
Reachable == {At[i] : i \in 1 .. Linklist_Length}

Positions == 0 .. Linklist_Length + 1

\* Create_Linklist
Init ==
    /\ next = [n \in Node \cup {HEAD} |-> NULL]
    /\ data \in [Node \cup {HEAD} -> {CHOOSE d \in Datum : TRUE}]
    /\ tail = NULL
    /\ heap = {} /\ leaked = {}
    /\ op = [name |-> "create", pos |-> 0, datum |-> CHOOSE d \in Datum : TRUE]
    /\ bad = FALSE

Called(name, i, d) == ~ bad /\ op' = [name |-> name, pos |-> i, datum |-> d]
None == CHOOSE d \in Datum : TRUE

\* The call does nothing to the list, or is where the program goes wrong.
Nothing == UNCHANGED <<next, data, tail, heap, leaked, bad>>
Undefined == bad' = TRUE /\ UNCHANGED <<next, data, tail, heap, leaked>>

-----------------------------------------------------------------------------

\* A new node with d, behind the node x.
LinkAfter(x, n, d) ==
    /\ next' = [next EXCEPT ![n] = next[x], ![x] = n]
    /\ data' = [data EXCEPT ![n] = d]
    /\ heap' = heap \cup {n}
    /\ UNCHANGED <<tail, leaked, bad>>

\* A node that was linked and can no longer be reached is lost.
Lose == leaked' = heap' \ {At'[i] : i \in 1 .. Linklist_Length'}

\* A mutant of Insert: list->tail is set only when the list was empty.
InsertTailOnce(d) ==
    /\ Called("insert", 0, d)
    /\ IF Node = heap THEN Nothing
       ELSE IF next[HEAD] # NULL /\ tail \notin heap THEN Undefined
       ELSE \E n \in Node \ heap :
              /\ next' = [next EXCEPT ![n] = NULL,
                            ![IF next[HEAD] = NULL THEN HEAD ELSE tail] = n]
              /\ data' = [data EXCEPT ![n] = d]
              /\ tail' = (IF next[HEAD] = NULL THEN n ELSE tail)
              /\ heap' = heap \cup {n}
              /\ Lose /\ UNCHANGED bad

\* Linklist_Insert: behind list->tail, wherever that is by now.
Insert(d) ==
    /\ Called("insert", 0, d)
    /\ IF Node = heap THEN Nothing
       ELSE IF next[HEAD] # NULL /\ tail \notin heap THEN Undefined
       ELSE \E n \in Node \ heap :
              /\ next' = [next EXCEPT ![n] = NULL,
                            ![IF next[HEAD] = NULL THEN HEAD ELSE tail] = n]
              /\ data' = [data EXCEPT ![n] = d]
              /\ tail' = n /\ heap' = heap \cup {n}
              /\ Lose /\ UNCHANGED bad

Insert_Head(d) ==
    /\ Called("insertHead", 0, d)
    /\ IF Node = heap THEN Nothing
       ELSE \E n \in Node \ heap : LinkAfter(HEAD, n, d)

\* A mutant of Insert_Pos: the loop goes one node too far.
Insert_PosAfter(i, d) ==
    /\ Called("insertPos", i, d)
    /\ IF At[i + 1] = NULL \/ Node = heap THEN Undefined
       ELSE \E n \in Node \ heap : LinkAfter(At[i + 1], n, d)

\* Position Length + 1 passes the test and is one too many; malloc's result is not
\* looked at.
Insert_Pos(i, d) ==
    /\ Called("insertPos", i, d)
    /\ IF At[i] = NULL \/ Node = heap THEN Undefined
       ELSE \E n \in Node \ heap : LinkAfter(At[i], n, d)

\* The node behind x is unlinked and freed.
UnlinkAfter(x) ==
    /\ next' = [next EXCEPT ![x] = next[next[x]]]
    /\ heap' = heap \ {next[x]}
    /\ UNCHANGED <<data, tail, leaked, bad>>

Pop ==
    /\ Called("pop", 0, None)
    /\ IF next[HEAD] = NULL THEN Nothing ELSE UnlinkAfter(HEAD)

\* Positions Length and Length + 1 pass the test and are two too many.
Delete_Pos(i) ==
    /\ Called("deletePos", i, None)
    /\ IF next[HEAD] = NULL THEN Nothing
       ELSE IF At[i + 1] = NULL THEN Undefined
       ELSE UnlinkAfter(At[i])

\* Prints what it finds; the same two positions go wrong.
Find_Pos(i) ==
    /\ Called("findPos", i, None)
    /\ IF At[i + 1] = NULL THEN Undefined ELSE Nothing

\* Linklist_Find_Data finds nothing, ever.
Find_Data(d) == -1

Delete_Data(d) ==
    /\ Called("deleteData", 0, d)
    /\ Find_Data(d) = -1 /\ Nothing

\* With position -1 it is the header that gets the new data.
Change_Data(d) ==
    /\ Called("changeData", 0, d)
    /\ data' = [data EXCEPT ![At[Find_Data(d) + 1]] = d]
    /\ UNCHANGED <<next, tail, heap, leaked, bad>>

\* Follows the first node, which an empty list has not.
Setnull ==
    /\ Called("setnull", 0, None)
    /\ IF next[HEAD] = NULL THEN Undefined
       ELSE /\ next' = [next EXCEPT ![HEAD] = NULL]
            /\ heap' = heap \ Reachable
            /\ UNCHANGED <<data, tail, leaked, bad>>

\* Linklist_free, and Create_Linklist for a new one.
Free ==
    /\ Called("free", 0, None)
    /\ next' = [next EXCEPT ![HEAD] = NULL]
    /\ heap' = heap \ Reachable /\ tail' = NULL
    /\ UNCHANGED <<data, leaked, bad>>

\* Order_Linklist makes another list and leaves this one as it is; its nodes are
\* the caller's.
Order == Called("order", 0, None) /\ Nothing

\* As many of n - 1 copies as there is memory for, and the first node.
Copied(n) == Min({n, 1 + Cardinality(Node \ heap)})

\* Order_Linklist_1: copies of the second and later nodes go to the front, one
\* after the other; the nodes themselves are forgotten.
Order_1 ==
    LET n == Linklist_Length
        m == Copied(n)
    IN  /\ Called("order1", 0, None)
        /\ IF n < 2 THEN Undefined
           ELSE \E new \in {f \in [1 .. m -> Node] :
                              /\ f[1] = At[1] /\ \A i \in 2 .. m : f[i] \notin heap
                              /\ IsInjective(f)} :
                  LET old(a) == CHOOSE i \in 2 .. m : new[i] = a
                      fresh == {new[i] : i \in 2 .. m}
                  IN  /\ next' = [a \in DOMAIN next |->
                            IF a = HEAD THEN new[m]
                            ELSE IF a = At[1] THEN NULL
                            ELSE IF a \in fresh THEN new[old(a) - 1] ELSE next[a]]
                      /\ data' = [a \in DOMAIN data |->
                            IF a \in fresh THEN data[At[old(a)]] ELSE data[a]]
                      /\ heap' = heap \cup fresh
                      /\ Lose /\ UNCHANGED <<tail, bad>>

\* A mutant of Order_2: the old first node still points at the second.
Order_2Cyclic ==
    LET n == Linklist_Length
    IN  /\ Called("order2", 0, None)
        /\ IF n < 2 THEN Undefined
           ELSE /\ next' = [a \in DOMAIN next |->
                      IF a = HEAD THEN At[n]
                      ELSE IF \E i \in 2 .. n : At[i] = a
                      THEN At[(CHOOSE i \in 2 .. n : At[i] = a) - 1] ELSE next[a]]
                /\ UNCHANGED <<data, tail, heap, leaked, bad>>

\* Order_Linklist_2: every link is turned round in place.
Order_2 ==
    LET n == Linklist_Length
    IN  /\ Called("order2", 0, None)
        /\ IF n < 2 THEN Undefined
           ELSE /\ next' = [a \in DOMAIN next |->
                      IF a = HEAD THEN At[n]
                      ELSE IF a = At[1] THEN NULL
                      ELSE IF \E i \in 2 .. n : At[i] = a
                      THEN At[(CHOOSE i \in 2 .. n : At[i] = a) - 1] ELSE next[a]]
                /\ UNCHANGED <<data, tail, heap, leaked, bad>>

\* After something undefined nothing is said.
Stop == bad /\ UNCHANGED vars

Next ==
    \/ \E d \in Datum :
          \/ Insert(d) \/ Insert_Head(d) \/ Delete_Data(d) \/ Change_Data(d)
          \/ \E i \in Positions : Insert_Pos(i, d)
    \/ \E i \in Positions : Delete_Pos(i) \/ Find_Pos(i)
    \/ Pop \/ Setnull \/ Free \/ Order \/ Order_1 \/ Order_2
    \/ Stop

Spec == Init /\ [][Next]_vars

-----------------------------------------------------------------------------

TypeOK ==
    /\ next \in [Node \cup {HEAD} -> Node \cup {NULL}]
    /\ data \in [Node \cup {HEAD} -> Datum]
    /\ tail \in Node \cup {NULL}
    /\ heap \in SUBSET Node /\ leaked \in SUBSET Node
    /\ bad \in BOOLEAN

TailIsLast == next[HEAD] = NULL \/ tail = At[Linklist_Length]

\* However the operations follow one another the list stays a list of allocated
\* nodes that ends, and a node that is allocated is in it or has been lost by one
\* of two: the reversal that copies, or an insertion behind a tail that is not the
\* last node (linklist.c:55-319).
WellFormed ==
    /\ TypeOK
    /\ \E i \in 0 .. Cardinality(Node) : next[At[i]] = NULL
    /\ Reachable \cap leaked = {} /\ heap = Reachable \cup leaked

\* The operations that leave the data as they are, and when.
NoEffect ==
    \/ op'.name \in {"insert", "insertHead"} /\ Node = heap
    \/ op'.name \in {"pop", "deletePos"} /\ Content = <<>>
    \/ op'.name \in {"findPos", "deleteData", "changeData", "order"}

\* What each operation does to the sequence of the data, as the comments name it.
Effect ==
    LET d == op'.datum
        i == op'.pos
    IN  IF NoEffect THEN Content' = Content
        ELSE /\ op'.name = "insert" => Content' = Append(Content, d)
             /\ op'.name = "insertHead" => Content' = <<d>> \o Content
             /\ op'.name = "insertPos" => Content' = InsertAt(Content, i + 1, d)
             /\ op'.name = "deletePos" => Content' = RemoveAt(Content, i + 1)
             /\ op'.name = "pop" => Content' = Tail(Content)
             /\ op'.name \in {"setnull", "free"} => Content' = <<>>
             /\ op'.name = "order1" =>
                    Content' = Reverse(SubSeq(Content, 1, Copied(Len(Content))))
             /\ op'.name = "order2" => Content' = Reverse(Content)

\* Every operation does to the data what its comment says and nothing else, even
\* after any others, with these exceptions: an insertion at the end whose tail is
\* stale, the two by value, which change nothing, and what is undefined
\* (linklist.c:43-319).
AsASequence ==
    [][ ~ bad' => Effect \/ (op'.name = "insert" /\ ~ TailIsLast) ]_vars

\* list->tail, on which the queue relies, is only ever lost by the operations that
\* put another node at the end or take the last one away (linklist.c:99-163,
\* 283-319).
TailLost ==
    [][ TailIsLast /\ ~ bad /\ ~ TailIsLast' =>
            \/ op'.name \in {"order1", "order2"}
            \/ op'.name = "insertHead" /\ Content = <<>>
            \/ op'.name = "insertPos" /\ op'.pos = Len(Content)
            \/ op'.name = "deletePos" /\ op'.pos = Len(Content) - 1 ]_vars

-----------------------------------------------------------------------------
(* The inductive invariant under WellFormed.                                *)

\* The i-th node of the list c, the header before the first.
Link(c, i) == IF i = 0 THEN HEAD ELSE c[i]

\* The pointers nx lead from the header through the nodes c[1] .. c[n], all
\* different, to the end.
Chain(nx, n, c) ==
    /\ \A i, j \in 1 .. n : c[i] = c[j] => i = j
    /\ \A i \in 1 .. n : nx[Link(c, i - 1)] = c[i]
    /\ nx[Link(c, n)] = NULL

\* Every node that is allocated is in the list or lost (linklist.c:43-319).
ApiInv ==
    /\ TypeOK
    /\ \E n \in 0 .. Cardinality(Node) : \E c \in [1 .. n -> Node] :
        /\ Chain(next, n, c)
        /\ {c[i] : i \in 1 .. n} \cap leaked = {}
        /\ heap = {c[i] : i \in 1 .. n} \cup leaked

===============================================================================
