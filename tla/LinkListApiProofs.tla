--------------------------- MODULE LinkListApiProofs ---------------------------
(***************************************************************************)
(* The operations of linklist.c on any memory and any data: the list stays  *)
(* well-formed, each operation does to the data what its comment says, and  *)
(* list->tail is lost by the named ones only.                               *)
(***************************************************************************)
EXTENDS LinkListApi, FiniteSetTheorems, SequenceTheorems, WellFoundedInduction, TLAPS

-----------------------------------------------------------------------------
(* Following the pointers.                                                  *)

\* Induction over the natural numbers, for a set of them: there is no least
\* number that is not in the set.
LEMMA Induction ==
    ASSUME NEW S, 0 \in S, \A n \in Nat : n \in S => n + 1 \in S
    PROVE  Nat \subseteq S
<1> DEFINE T == {n \in Nat : n \notin S}
           R == OpToRel(<, Nat)
<1> SUFFICES ASSUME T # {} PROVE FALSE
    OBVIOUS
<1>1. \A x, y \in Nat : <<x, y>> \in R <=> x < y
    BY Zenon DEF OpToRel
<1>2. \E x \in T : \A y \in T : ~ (<<y, x>> \in R)
    <2> T \subseteq Nat
        OBVIOUS
    <2> HIDE DEF T, R
    <2>1. IsWellFoundedOn(R, Nat)
        BY NatLessThanWellFounded, Zenon DEF R
    <2> QED
        BY <2>1, WFMin
<1>3. PICK x \in T : \A y \in T : ~ (y < x)
    BY <1>1, <1>2
<1>4. x # 0 /\ x - 1 \in Nat
    BY <1>3
<1>5. x - 1 \in S
    BY <1>3, <1>4
<1> QED
    BY <1>3, <1>4, <1>5

Size == Cardinality(Node)

LEMMA SizeType == Size \in Nat
BY ApiAssumption, FS_CardinalityType DEF Size

\* At, for any pointers.
Walk(nx) ==
    LET walk[i \in 0 .. Cardinality(Node) + 2] ==
            IF i = 0 THEN HEAD
            ELSE IF walk[i - 1] = NULL THEN NULL ELSE nx[walk[i - 1]]
    IN  walk

LEMMA AtWalks == At = Walk(next) /\ At' = Walk(next')
BY DEF At, Walk

\* Who follows the pointers meets the nodes of the chain and then NULL.
LEMMA WalkFollows ==
    ASSUME NEW nx, NEW n \in 0 .. Size, NEW c \in [1 .. n -> Node], Chain(nx, n, c)
    PROVE  Walk(nx) = [i \in 0 .. Size + 2 |-> IF i <= n THEN Link(c, i) ELSE NULL]
<1> DEFINE Steps(g) == g = [i \in 0 .. Cardinality(Node) + 2 |->
                            IF i = 0 THEN HEAD
                            ELSE IF g[i - 1] = NULL THEN NULL ELSE nx[g[i - 1]]]
           f == [i \in 0 .. Size + 2 |-> IF i <= n THEN Link(c, i) ELSE NULL]
           walk == CHOOSE g : Steps(g)
<1>0. Size \in Nat /\ Size = Cardinality(Node) /\ HEAD # NULL /\ NULL \notin Node
    BY SizeType, ApiAssumption DEF Size
<1>1. Steps(f)
    <2>1. f[0] = HEAD
        BY <1>0 DEF Link
    <2>2. ASSUME NEW i \in 1 .. Size + 2
          PROVE  f[i] = IF f[i - 1] = NULL THEN NULL ELSE nx[f[i - 1]]
        <3>1. CASE i <= n
            <4>1. f[i] = c[i] /\ f[i - 1] = Link(c, i - 1) /\ i \in 1 .. n
                BY <1>0, <3>1 DEF Link
            <4>2. Link(c, i - 1) # NULL
                BY <1>0, <3>1 DEF Link
            <4> QED
                BY <4>1, <4>2 DEF Chain
        <3>2. CASE i = n + 1
            BY <1>0, <3>2 DEF Chain, Link
        <3>3. CASE i > n + 1
            BY <1>0, <3>3
        <3> QED
            BY <1>0, <3>1, <3>2, <3>3
    <2>3. f = [i \in 0 .. Size + 2 |-> f[i]]
        OBVIOUS
    <2> HIDE DEF f
    <2>4. \A i \in 0 .. Size + 2 :
            f[i] = IF i = 0 THEN HEAD ELSE IF f[i - 1] = NULL THEN NULL ELSE nx[f[i - 1]]
        BY <1>0, <2>1, <2>2
    <2> QED
        BY <1>0, <2>3, <2>4, Zenon
<1> HIDE DEF f
<1>2. Steps(walk)
    BY <1>1
<1>3. Walk(nx) = walk
    BY DEF Walk
<1> HIDE DEF walk
<1> DEFINE S == {i \in Nat : i <= Size + 2 => walk[i] = f[i]}
<1>4. 0 \in S
    BY <1>0, <1>1, <1>2
<1>5. ASSUME NEW i \in Nat, i \in S PROVE i + 1 \in S
    <2> SUFFICES ASSUME i + 1 <= Size + 2 PROVE walk[i + 1] = f[i + 1]
        OBVIOUS
    <2>1. i + 1 \in 0 .. Cardinality(Node) + 2 /\ (i + 1) - 1 = i /\ i + 1 # 0
        BY <1>0
    <2>2. walk[i] = f[i]
        BY <1>0, <1>5
    <2>3. ASSUME NEW g, Steps(g)
          PROVE  g[i + 1] = IF g[i] = NULL THEN NULL ELSE nx[g[i]]
        BY <2>1, <2>3
    <2> HIDE DEF Steps
    <2> QED
        BY <1>1, <1>2, <2>2, <2>3
<1>6. \A i \in 0 .. Size + 2 : walk[i] = f[i]
    <2> HIDE DEF S
    <2>1. Nat \subseteq S
        BY <1>4, <1>5, Induction
    <2> QED
        BY <1>0, <2>1 DEF S
<1>7. walk = f
    <2>1. ASSUME NEW g, Steps(g) PROVE g = [i \in 0 .. Size + 2 |-> g[i]]
        <3> DEFINE e(i) == IF i = 0 THEN HEAD
                           ELSE IF g[i - 1] = NULL THEN NULL ELSE nx[g[i - 1]]
        <3>1. g = [i \in 0 .. Size + 2 |-> e(i)]
            BY <1>0, <2>1
        <3> HIDE DEF e
        <3> QED
            BY <3>1
    <2>2. walk = [i \in 0 .. Size + 2 |-> walk[i]] /\ f = [i \in 0 .. Size + 2 |-> f[i]]
        BY <1>1, <1>2, <2>1
    <2> QED
        BY <1>6, <2>2
<1> QED
    BY <1>3, <1>7 DEF f

\* What a chain shows of the list: its length and where its nodes are.
LEMMA ChainShows ==
    ASSUME NEW nx, NEW n \in 0 .. Size, NEW c \in [1 .. n -> Node], Chain(nx, n, c)
    PROVE  /\ \A i \in 0 .. n : Walk(nx)[i] = Link(c, i)
           /\ \A i \in n + 1 .. Size + 2 : Walk(nx)[i] = NULL
           /\ Cardinality({i \in 1 .. Cardinality(Node) : Walk(nx)[i] # NULL}) = n
<1>0. Size \in Nat /\ Size = Cardinality(Node) /\ HEAD # NULL /\ NULL \notin Node
    BY SizeType, ApiAssumption DEF Size
<1>1. /\ \A i \in 0 .. n : Walk(nx)[i] = Link(c, i)
      /\ \A i \in n + 1 .. Size + 2 : Walk(nx)[i] = NULL
    BY <1>0, WalkFollows
<1>2. {i \in 1 .. Cardinality(Node) : Walk(nx)[i] # NULL} = 1 .. n
    BY <1>0, <1>1 DEF Link
<1>3. Cardinality(1 .. n) = n
    BY <1>0, FS_Interval
<1> QED
    BY <1>1, <1>2, <1>3

\* The same of the variables and operators of the list, before a call and after.
LEMMA ListShows ==
    ASSUME NEW n \in 0 .. Size, NEW c \in [1 .. n -> Node], Chain(next, n, c)
    PROVE  /\ \A i \in 0 .. n : At[i] = Link(c, i)
           /\ \A i \in n + 1 .. Size + 2 : At[i] = NULL
           /\ Linklist_Length = n
           /\ Reachable = {c[i] : i \in 1 .. n}
           /\ Content = [i \in 1 .. n |-> data[c[i]]]
<1>1. /\ \A i \in 0 .. n : At[i] = Link(c, i)
      /\ \A i \in n + 1 .. Size + 2 : At[i] = NULL
      /\ Linklist_Length = n
    BY AtWalks, ChainShows DEF Linklist_Length
<1>2. \A i \in 1 .. n : At[i] = c[i]
    BY <1>1 DEF Link
<1> QED
    BY <1>1, <1>2 DEF Reachable, Content

LEMMA ListShowsNext ==
    ASSUME NEW n \in 0 .. Size, NEW c \in [1 .. n -> Node], Chain(next', n, c)
    PROVE  /\ \A i \in 0 .. n : At'[i] = Link(c, i)
           /\ \A i \in n + 1 .. Size + 2 : At'[i] = NULL
           /\ Linklist_Length' = n
           /\ Reachable' = {c[i] : i \in 1 .. n}
           /\ Content' = [i \in 1 .. n |-> data'[c[i]]]
<1>1. /\ \A i \in 0 .. n : At'[i] = Link(c, i)
      /\ \A i \in n + 1 .. Size + 2 : At'[i] = NULL
      /\ Linklist_Length' = n
    BY AtWalks, ChainShows DEF Linklist_Length
<1>2. \A i \in 1 .. n : At'[i] = c[i]
    BY <1>1 DEF Link
<1> QED
    BY <1>1, <1>2 DEF Reachable, Content

-----------------------------------------------------------------------------
(* What the assignments of linklist.c do to a chain.                        *)

Pointers == [Node \cup {HEAD} -> Node \cup {NULL}]

\* No more nodes are in a list than there are.
LEMMA ChainFits ==
    ASSUME NEW n \in Nat, NEW c \in [1 .. n -> Node], IsInjective(c)
    PROVE  n <= Size
<1>1. c \in Injection(1 .. n, Node)
    BY DEF Injection
<1>2. Cardinality(1 .. n) <= Cardinality(Node)
    BY <1>1, ApiAssumption, FS_Injection
<1>3. Cardinality(1 .. n) = n
    BY FS_Interval
<1> QED
    BY <1>2, <1>3 DEF Size

\* What no node of the chain points from does not matter.
LEMMA ChainElsewhere ==
    ASSUME NEW n \in Nat, NEW c \in [1 .. n -> Node], NEW nx, NEW ny, Chain(nx, n, c),
           ny[HEAD] = nx[HEAD], \A i \in 1 .. n : ny[c[i]] = nx[c[i]]
    PROVE  Chain(ny, n, c)
<1>1. \A i \in 0 .. n : ny[Link(c, i)] = nx[Link(c, i)]
    BY DEF Link
<1> QED
    BY <1>1 DEF Chain

\* The pointers change from nx to ny: the new node x, which points at y, comes behind
\* the k-th of the chain; the node behind the k-th is taken out.
Linked(nx, ny, n, c, k, x, y) ==
    /\ x \in Node /\ \A i \in 1 .. n : c[i] # x
    /\ ny[Link(c, k)] = x /\ ny[x] = y
    /\ \A a \in Node \cup {HEAD} : a # x /\ a # Link(c, k) => ny[a] = nx[a]

Unlinked(nx, ny, n, c, k) ==
    /\ ny[Link(c, k)] = nx[nx[Link(c, k)]]
    /\ \A a \in Node \cup {HEAD} : a # Link(c, k) => ny[a] = nx[a]

\* The list d is c with x put in behind the k-th, or without the one behind the k-th.
Put(d, n, c, k, x) ==
    /\ \A i \in 1 .. k : d[i] = c[i]
    /\ d[k + 1] = x
    /\ \A i \in k + 2 .. n + 1 : d[i] = c[i - 1]

Dropped(d, n, c, k) ==
    /\ \A i \in 1 .. k : d[i] = c[i]
    /\ \A i \in k + 1 .. n - 1 : d[i] = c[i + 1]

\* The node x comes behind the k-th, in place of all that followed (Linklist_Insert).
LEMMA ChainCut ==
    ASSUME NEW n \in Nat, NEW c \in [1 .. n -> Node], NEW nx, Chain(nx, n, c),
           NEW k \in 0 .. n, NEW x, NEW ny, Linked(nx, ny, n, c, k, x, NULL)
    PROVE  \E d \in [1 .. k + 1 -> Node] :
            /\ IsInjective(d) /\ Chain(ny, k + 1, d)
            /\ \A i \in 1 .. k : d[i] = c[i]
            /\ d[k + 1] = x
<1>a. /\ k \in 0 .. n /\ x \in Node /\ \A i \in 1 .. n : c[i] # x
      /\ ny[Link(c, k)] = x /\ ny[x] = NULL
      /\ \A a \in Node \cup {HEAD} : a # x /\ a # Link(c, k) => ny[a] = nx[a]
    BY DEF Linked
<1>b. PICK d : d = [i \in 1 .. k + 1 |-> IF i <= k THEN c[i] ELSE x]
    OBVIOUS
<1> USE ApiAssumption, <1>a, <1>b
<1>1. /\ d \in [1 .. k + 1 -> Node]
      /\ \A i \in 1 .. k : d[i] = c[i]
      /\ d[k + 1] = x
    OBVIOUS
<1>2. \A i, j \in 1 .. k + 1 : d[i] = d[j] => i = j
    <2>1. \A i, j \in 1 .. n : c[i] = c[j] => i = j
        BY DEF Chain
    <2>2. \A i \in 1 .. k : i \in 1 .. n
        OBVIOUS
    <2>3. \A i \in 1 .. k + 1 : i \in 1 .. k \/ i = k + 1
        OBVIOUS
    <2> HIDE <1>b
    <2> QED
        BY <1>1, <2>1, <2>2, <2>3
<1>3. \A i \in 0 .. k : Link(d, i) = Link(c, i) /\ Link(c, i) \in Node \cup {HEAD}
                        /\ Link(c, i) # x
    BY DEF Link
<1>4. \A i \in 0 .. k : Link(c, i) = Link(c, k) => i = k
    BY DEF Link, Chain
<1>5. \A i \in 0 .. k - 1 : ny[Link(c, i)] = nx[Link(c, i)]
    BY <1>3, <1>4
<1>6. ny[Link(c, k)] = x /\ ny[x] = NULL
    OBVIOUS
<1>7. \A i \in 1 .. k : nx[Link(c, i - 1)] = c[i]
    BY DEF Chain
<1>8. ASSUME NEW i \in 1 .. k + 1 PROVE ny[Link(d, i - 1)] = d[i]
    <2>1. i - 1 \in 0 .. k /\ Link(d, i - 1) = Link(c, i - 1)
        BY <1>3
    <2>2. CASE i <= k
        <3>1. i - 1 \in 0 .. k - 1 /\ i \in 1 .. k /\ d[i] = c[i]
            BY <2>2
        <3> QED
            BY <1>5, <1>7, <2>1, <3>1
    <2>3. CASE i = k + 1
        BY <1>6, <2>1, <2>3
    <2> QED
        BY <2>2, <2>3
<1>9. Link(d, k + 1) = x
    BY DEF Link
<1> QED
    BY <1>1, <1>2, <1>6, <1>8, <1>9 DEF Chain, IsInjective

\* The node x comes between the k-th and the next (Linklist_Insert_Pos).
LEMMA ChainInsert ==
    ASSUME NEW n \in Nat, NEW c \in [1 .. n -> Node], NEW nx, Chain(nx, n, c),
           NEW k \in 0 .. n, NEW x, NEW ny,
           NEW y, y = nx[Link(c, k)], Linked(nx, ny, n, c, k, x, y)
    PROVE  \E d \in [1 .. n + 1 -> Node] :
            IsInjective(d) /\ Chain(ny, n + 1, d) /\ Put(d, n, c, k, x)
<1>a. /\ k \in 0 .. n /\ x \in Node /\ \A i \in 1 .. n : c[i] # x
      /\ ny[Link(c, k)] = x /\ ny[x] = nx[Link(c, k)]
      /\ \A a \in Node \cup {HEAD} : a # x /\ a # Link(c, k) => ny[a] = nx[a]
    BY DEF Linked
<1>b. PICK d : d = [i \in 1 .. n + 1 |->
                        IF i <= k THEN c[i] ELSE IF i = k + 1 THEN x ELSE c[i - 1]]
    OBVIOUS
<1> USE ApiAssumption, <1>a, <1>b
<1>1. /\ d \in [1 .. n + 1 -> Node]
      /\ \A i \in 1 .. k : d[i] = c[i]
      /\ d[k + 1] = x
      /\ \A i \in k + 2 .. n + 1 : d[i] = c[i - 1]
    OBVIOUS
<1>2. \A i, j \in 1 .. n + 1 : d[i] = d[j] => i = j
    BY DEF Chain
<1>3. \A i \in 0 .. n : Link(c, i) \in Node \cup {HEAD} /\ Link(c, i) # x
    BY DEF Link
<1>4. \A i \in 0 .. n : Link(c, i) = Link(c, k) => i = k
    BY DEF Link, Chain
<1>5. \A i \in 0 .. n : i # k => ny[Link(c, i)] = nx[Link(c, i)]
    BY <1>3, <1>4
<1>6. ny[Link(c, k)] = x /\ ny[x] = nx[Link(c, k)]
    OBVIOUS
<1>7. \A i \in 1 .. n : nx[Link(c, i - 1)] = c[i]
    BY DEF Chain
<1>8. /\ \A i \in 0 .. k : Link(d, i) = Link(c, i)
      /\ Link(d, k + 1) = x
      /\ \A i \in k + 2 .. n + 1 : Link(d, i) = Link(c, i - 1)
    BY DEF Link
<1>9. ASSUME NEW i \in 1 .. n + 1 PROVE ny[Link(d, i - 1)] = d[i]
    <2>1. CASE i <= k
        <3>1. /\ i - 1 \in 0 .. k /\ i - 1 \in 0 .. n /\ i - 1 # k /\ i \in 1 .. n
              /\ d[i] = c[i]
            BY <2>1
        <3> QED
            BY <1>5, <1>7, <1>8, <3>1
    <2>2. CASE i = k + 1
        <3>1. i - 1 = k /\ k \in 0 .. k /\ d[i] = x
            BY <2>2
        <3> QED
            BY <1>6, <1>8, <3>1
    <2>3. CASE i = k + 2
        <3>1. i - 1 = k + 1 /\ d[i] = c[k + 1] /\ k + 1 \in 1 .. n /\ (k + 1) - 1 = k
            BY <2>3
        <3> QED
            BY <1>6, <1>7, <1>8, <3>1
    <2>4. CASE i > k + 2
        <3>1. /\ i - 1 \in k + 2 .. n + 1 /\ i - 2 # k /\ i - 2 \in 0 .. n
              /\ (i - 1) - 1 = i - 2 /\ i - 1 \in 1 .. n /\ d[i] = c[i - 1]
            BY <2>4
        <3>2. Link(d, i - 1) = Link(c, i - 2) /\ nx[Link(c, i - 2)] = c[i - 1]
            BY <1>7, <1>8, <3>1
        <3> QED
            BY <1>5, <3>1, <3>2
    <2> QED
        BY <2>1, <2>2, <2>3, <2>4
<1>10. ny[Link(d, n + 1)] = NULL
    <2>1. CASE k = n
        BY <1>6, <1>8, <2>1 DEF Chain
    <2>2. CASE k < n
        <3>1. n + 1 \in k + 2 .. n + 1 /\ (n + 1) - 1 = n /\ n # k /\ n \in 0 .. n
            BY <2>2
        <3> QED
            BY <1>5, <1>8, <3>1 DEF Chain
    <2> QED
        BY <2>1, <2>2
<1> QED
    BY <1>1, <1>2, <1>9, <1>10 DEF Chain, IsInjective, Put

\* The node behind the k-th goes (Linklist_pop, Linklist_Delete_Pos).
LEMMA ChainRemove ==
    ASSUME NEW n \in Nat, NEW c \in [1 .. n -> Node], NEW nx, Chain(nx, n, c),
           NEW k \in 0 .. n - 1, NEW ny, Unlinked(nx, ny, n, c, k)
    PROVE  \E d \in [1 .. n - 1 -> Node] :
            IsInjective(d) /\ Chain(ny, n - 1, d) /\ Dropped(d, n, c, k)
<1>a. /\ k \in 0 .. n - 1
      /\ ny[Link(c, k)] = nx[nx[Link(c, k)]]
      /\ \A a \in Node \cup {HEAD} : a # Link(c, k) => ny[a] = nx[a]
    BY DEF Unlinked
<1>b. PICK d : d = [i \in 1 .. n - 1 |-> IF i <= k THEN c[i] ELSE c[i + 1]]
    OBVIOUS
<1> USE ApiAssumption, <1>a, <1>b
<1>1. /\ d \in [1 .. n - 1 -> Node]
      /\ \A i \in 1 .. k : d[i] = c[i]
      /\ \A i \in k + 1 .. n - 1 : d[i] = c[i + 1]
    OBVIOUS
<1>2. \A i, j \in 1 .. n - 1 : d[i] = d[j] => i = j
    BY DEF Chain
<1>3. \A i \in 0 .. n : Link(c, i) \in Node \cup {HEAD}
    BY DEF Link
<1>4. \A i \in 0 .. n : Link(c, i) = Link(c, k) => i = k
    BY DEF Link, Chain
<1>5. \A i \in 0 .. n : i # k => ny[Link(c, i)] = nx[Link(c, i)]
    BY <1>3, <1>4
<1>6. /\ nx[Link(c, k)] = c[k + 1] /\ Link(c, k + 1) = c[k + 1]
      /\ ny[Link(c, k)] = nx[Link(c, k + 1)]
    BY <1>3 DEF Chain, Link
<1>7. \A i \in 1 .. n : nx[Link(c, i - 1)] = c[i]
    BY DEF Chain
<1>8. /\ \A i \in 0 .. k : Link(d, i) = Link(c, i)
      /\ \A i \in k + 1 .. n - 1 : Link(d, i) = Link(c, i + 1)
    BY DEF Link
<1>9. ASSUME NEW i \in 1 .. n - 1 PROVE ny[Link(d, i - 1)] = d[i]
    <2>1. CASE i <= k
        <3>1. /\ i - 1 \in 0 .. k /\ i - 1 \in 0 .. n /\ i - 1 # k /\ i \in 1 .. n
              /\ d[i] = c[i]
            BY <2>1
        <3> QED
            BY <1>5, <1>7, <1>8, <3>1
    <2>2. CASE i = k + 1
        <3>1. /\ i - 1 = k /\ k \in 0 .. k /\ k + 2 \in 1 .. n /\ (k + 2) - 1 = k + 1
              /\ d[i] = c[k + 2]
            BY <2>2
        <3> QED
            BY <1>6, <1>7, <1>8, <3>1
    <2>3. CASE i > k + 1
        <3>1. /\ i - 1 \in k + 1 .. n - 1 /\ (i - 1) + 1 = i /\ i # k /\ i \in 0 .. n
              /\ i + 1 \in 1 .. n /\ (i + 1) - 1 = i /\ d[i] = c[i + 1]
            BY <2>3
        <3>2. Link(d, i - 1) = Link(c, i)
            BY <1>8, <3>1
        <3>3. nx[Link(c, i)] = c[i + 1]
            BY <1>7, <3>1
        <3> QED
            BY <1>5, <3>1, <3>2, <3>3
    <2> QED
        BY <2>1, <2>2, <2>3
<1>10. ny[Link(d, n - 1)] = NULL
    <2>1. CASE k = n - 1
        <3>1. n - 1 \in 0 .. k /\ k + 1 = n
            BY <2>1
        <3>2. Link(d, n - 1) = Link(c, k)
            BY <1>8, <2>1, <3>1
        <3>3. ny[Link(c, k)] = NULL
            BY <1>6, <3>1 DEF Chain
        <3> QED
            BY <3>2, <3>3
    <2>2. CASE k < n - 1
        <3>1. n - 1 \in k + 1 .. n - 1 /\ (n - 1) + 1 = n /\ n # k /\ n \in 0 .. n
            BY <2>2
        <3> QED
            BY <1>5, <1>8, <3>1 DEF Chain
    <2> QED
        BY <2>1, <2>2
<1> QED
    BY <1>1, <1>2, <1>9, <1>10 DEF Chain, IsInjective, Dropped

\* The pointers ny lead from the header to the last of c and back to its first; the
\* first m of c, the last of them first, are d.
Turned(ny, n, c) ==
    /\ ny[HEAD] = c[n] /\ ny[c[1]] = NULL
    /\ \A i \in 2 .. n : ny[c[i]] = c[i - 1]

Backwards(d, m, c) == \A i \in 1 .. m : d[i] = c[(m - i) + 1]

\* Every link is turned round (Order_Linklist_2), or those of the copies are made
\* so (Order_Linklist_1).
LEMMA ChainReversed ==
    ASSUME NEW n \in Nat \ {0}, NEW c \in [1 .. n -> Node], IsInjective(c), NEW ny,
           Turned(ny, n, c)
    PROVE  \E d \in [1 .. n -> Node] :
            IsInjective(d) /\ Chain(ny, n, d) /\ Backwards(d, n, c)
<1>a. /\ ny[HEAD] = c[n] /\ ny[c[1]] = NULL
      /\ \A i \in 2 .. n : ny[c[i]] = c[i - 1]
    BY DEF Turned
<1>b. PICK d : d = [i \in 1 .. n |-> c[(n - i) + 1]]
    OBVIOUS
<1> USE <1>a, <1>b
<1>1. d \in [1 .. n -> Node] /\ Backwards(d, n, c)
    BY DEF Backwards
<1>2. ASSUME NEW i \in 1 .. n, NEW j \in 1 .. n, d[i] = d[j] PROVE i = j
    <2>1. (n - i) + 1 \in DOMAIN c /\ (n - j) + 1 \in DOMAIN c
        OBVIOUS
    <2>2. c[(n - i) + 1] = c[(n - j) + 1]
        BY <1>2
    <2>3. (n - i) + 1 = (n - j) + 1
        BY <2>1, <2>2 DEF IsInjective
    <2> QED
        BY <2>3
<1>3. ASSUME NEW i \in 1 .. n PROVE ny[Link(d, i - 1)] = d[i]
    <2>1. CASE i = 1
        BY <2>1 DEF Link
    <2>2. CASE i > 1
        <3>1. /\ Link(d, i - 1) = c[(n - i) + 2] /\ d[i] = c[(n - i) + 1]
              /\ (n - i) + 2 \in 2 .. n /\ ((n - i) + 2) - 1 = (n - i) + 1
            BY <2>2 DEF Link
        <3> QED
            BY <3>1
    <2> QED
        BY <2>1, <2>2
<1>4. ny[Link(d, n)] = NULL
    BY DEF Link
<1> QED
    BY <1>1, <1>2, <1>3, <1>4 DEF Chain, IsInjective

-----------------------------------------------------------------------------
(* The operations on sequences that Effect names, element by element.       *)

LEMMA FunctionIsSeq ==
    ASSUME NEW S, NEW n \in Nat, NEW f \in [1 .. n -> S]
    PROVE  f \in Seq(S) /\ Len(f) = n /\ (f = <<>> <=> n = 0)
<1>1. f \in Seq(S)
    BY SeqDef
<1>2. Len(f) \in Nat /\ DOMAIN f = 1 .. Len(f)
    BY <1>1, LenProperties
<1>3. Len(f) = n
    BY <1>2
<1>4. f # <<>> => n # 0
    BY <1>1, <1>3, EmptySeq
<1>5. f = <<>> => n = 0
    BY <1>3, EmptySeq
<1> QED
    BY <1>1, <1>3, <1>4, <1>5

LEMMA SameElements ==
    ASSUME NEW S, NEW n \in Nat, NEW s \in Seq(S), NEW g \in [1 .. n -> S], Len(s) = n,
           \A i \in 1 .. n : s[i] = g[i]
    PROVE  s = g
BY FunctionIsSeq, SeqEqual

LEMMA SameFunction ==
    ASSUME NEW S, NEW n \in Nat, NEW f \in [1 .. n -> S], NEW g \in [1 .. n -> S],
           \A i \in 1 .. n : f[i] = g[i]
    PROVE  f = g
OBVIOUS

\* InsertAt, of which Append and a new head are the extremes.
LEMMA Inserted ==
    ASSUME NEW S, NEW n \in Nat, NEW f \in [1 .. n -> S], NEW e \in S, NEW k \in 0 .. n,
           NEW g \in [1 .. n + 1 -> S], Put(g, n, f, k, e)
    PROVE  InsertAt(f, k + 1, e) = g
<1>0. /\ \A i \in 1 .. k : g[i] = f[i]
      /\ g[k + 1] = e
      /\ \A i \in k + 2 .. n + 1 : g[i] = f[i - 1]
    BY DEF Put
<1> USE <1>0
<1> DEFINE a == SubSeq(f, 1, (k + 1) - 1)
           b == SubSeq(f, k + 1, Len(f))
<1>1. f \in Seq(S) /\ Len(f) = n /\ (k + 1) - 1 = k
    BY FunctionIsSeq
<1>2. a \in Seq(S) /\ Len(a) = k /\ \A i \in 1 .. k : a[i] = f[i]
    <2>1. /\ SubSeq(f, 1, k) \in Seq(S)
          /\ Len(SubSeq(f, 1, k)) = IF 1 <= k THEN k - 1 + 1 ELSE 0
          /\ \A i \in 1 .. k - 1 + 1 : SubSeq(f, 1, k)[i] = f[1 + i - 1]
        BY SubSeqProperties
    <2> QED
        BY <1>1, <2>1
<1>3. b \in Seq(S) /\ Len(b) = n - k /\ \A i \in 1 .. n - k : b[i] = f[k + i]
    <2>1. /\ SubSeq(f, k + 1, n) \in Seq(S)
          /\ Len(SubSeq(f, k + 1, n)) = IF k + 1 <= n THEN n - (k + 1) + 1 ELSE 0
          /\ \A i \in 1 .. n - (k + 1) + 1 : SubSeq(f, k + 1, n)[i] = f[k + 1 + i - 1]
        BY SubSeqProperties
    <2> QED
        BY <1>1, <2>1
<1> HIDE DEF a, b
<1>4. <<e>> \in Seq(S) /\ Len(<<e>>) = 1 /\ <<e>>[1] = e
    OBVIOUS
<1>5. /\ a \o <<e>> \in Seq(S) /\ Len(a \o <<e>>) = k + 1
      /\ \A i \in 1 .. k + 1 : (a \o <<e>>)[i] = IF i <= k THEN f[i] ELSE e
    <2>1. /\ a \o <<e>> \in Seq(S) /\ Len(a \o <<e>>) = Len(a) + Len(<<e>>)
          /\ \A i \in 1 .. Len(a) + Len(<<e>>) : (a \o <<e>>)[i] =
                  IF i <= Len(a) THEN a[i] ELSE <<e>>[i - Len(a)]
        BY <1>2, <1>4, ConcatProperties
    <2>2. \A i \in 1 .. k + 1 : ~ (i <= k) => i - k = 1
        OBVIOUS
    <2> QED
        BY <1>2, <1>4, <2>1, <2>2
<1> DEFINE t == a \o <<e>>
           s == t \o b
<1>6. InsertAt(f, k + 1, e) = s
    BY <1>1 DEF InsertAt, a, b
<1>7. /\ t \in Seq(S) /\ Len(t) = k + 1
      /\ \A i \in 1 .. k + 1 : t[i] = IF i <= k THEN f[i] ELSE e
    BY <1>5
<1> HIDE DEF t
<1>8. /\ s \in Seq(S) /\ Len(s) = Len(t) + Len(b)
      /\ \A i \in 1 .. Len(t) + Len(b) : s[i] = IF i <= Len(t) THEN t[i] ELSE b[i - Len(t)]
    BY <1>3, <1>7, ConcatProperties
<1> HIDE DEF s
<1>9. /\ s \in Seq(S) /\ Len(s) = n + 1
      /\ \A i \in 1 .. n + 1 : s[i] = IF i <= k + 1 THEN t[i] ELSE b[i - (k + 1)]
    <2>1. k + 1 + (n - k) = n + 1
        OBVIOUS
    <2> QED
        BY <1>3, <1>7, <1>8, <2>1
<1>10. ASSUME NEW i \in 1 .. n + 1 PROVE s[i] = g[i]
    <2>1. CASE i <= k
        BY <1>7, <1>9, <2>1
    <2>2. CASE i = k + 1
        BY <1>7, <1>9, <2>2
    <2>3. CASE i > k + 1
        <3>1. s[i] = b[i - (k + 1)] /\ i - (k + 1) \in 1 .. n - k /\ g[i] = f[i - 1]
              /\ k + (i - (k + 1)) = i - 1
            BY <1>9, <2>3
        <3> QED
            BY <1>3, <3>1
    <2> QED
        BY <2>1, <2>2, <2>3
<1>11. s = g
    BY <1>9, <1>10, SameElements
<1> QED
    BY <1>6, <1>11

LEMMA Appended ==
    ASSUME NEW S, NEW n \in Nat, NEW f \in [1 .. n -> S], NEW e \in S,
           NEW g \in [1 .. n + 1 -> S], g[n + 1] = e, \A i \in 1 .. n : g[i] = f[i]
    PROVE  Append(f, e) = g
<1>1. f \in Seq(S) /\ Len(f) = n
    BY FunctionIsSeq
<1>2. /\ Append(f, e) \in Seq(S) /\ Len(Append(f, e)) = n + 1
      /\ \A i \in 1 .. n : Append(f, e)[i] = f[i]
      /\ Append(f, e)[n + 1] = e
    BY <1>1, AppendProperties
<1>3. \A i \in 1 .. n + 1 : Append(f, e)[i] = g[i]
    BY <1>2
<1> QED
    BY <1>2, <1>3, SameElements

LEMMA Headed ==
    ASSUME NEW S, NEW n \in Nat, NEW f \in [1 .. n -> S], NEW e \in S,
           NEW g \in [1 .. n + 1 -> S], g[1] = e, \A i \in 2 .. n + 1 : g[i] = f[i - 1]
    PROVE  <<e>> \o f = g
<1>1. /\ f \in Seq(S) /\ Len(f) = n
      /\ <<e>> \in Seq(S) /\ Len(<<e>>) = 1 /\ <<e>>[1] = e
    BY FunctionIsSeq
<1>2. /\ <<e>> \o f \in Seq(S) /\ Len(<<e>> \o f) = 1 + n
      /\ \A i \in 1 .. 1 + n : (<<e>> \o f)[i] = IF i <= 1 THEN <<e>>[i] ELSE f[i - 1]
    <2>1. /\ <<e>> \o f \in Seq(S) /\ Len(<<e>> \o f) = Len(<<e>>) + Len(f)
          /\ \A i \in 1 .. Len(<<e>>) + Len(f) :
                (<<e>> \o f)[i] = IF i <= Len(<<e>>) THEN <<e>>[i] ELSE f[i - Len(<<e>>)]
        BY <1>1, ConcatProperties
    <2> QED
        BY <1>1, <2>1
<1>3. \A i \in 1 .. n + 1 : (<<e>> \o f)[i] = g[i]
    BY <1>1, <1>2
<1> QED
    BY <1>2, <1>3, SameElements

LEMMA Removed ==
    ASSUME NEW S, NEW n \in Nat, NEW f \in [1 .. n -> S], NEW k \in 0 .. n - 1,
           NEW g \in [1 .. n - 1 -> S], Dropped(g, n, f, k)
    PROVE  RemoveAt(f, k + 1) = g
<1>0. /\ \A i \in 1 .. k : g[i] = f[i]
      /\ \A i \in k + 1 .. n - 1 : g[i] = f[i + 1]
    BY DEF Dropped
<1> USE <1>0
<1> DEFINE a == SubSeq(f, 1, (k + 1) - 1)
           b == SubSeq(f, (k + 1) + 1, Len(f))
<1>1. f \in Seq(S) /\ Len(f) = n /\ (k + 1) - 1 = k /\ (k + 1) + 1 = k + 2
    BY FunctionIsSeq
<1>2. a \in Seq(S) /\ Len(a) = k /\ \A i \in 1 .. k : a[i] = f[i]
    <2>1. /\ SubSeq(f, 1, k) \in Seq(S)
          /\ Len(SubSeq(f, 1, k)) = IF 1 <= k THEN k - 1 + 1 ELSE 0
          /\ \A i \in 1 .. k - 1 + 1 : SubSeq(f, 1, k)[i] = f[1 + i - 1]
        BY SubSeqProperties
    <2> QED
        BY <1>1, <2>1
<1>3. b \in Seq(S) /\ Len(b) = n - k - 1 /\ \A i \in 1 .. n - k - 1 : b[i] = f[k + 1 + i]
    <2>1. /\ SubSeq(f, k + 2, n) \in Seq(S)
          /\ Len(SubSeq(f, k + 2, n)) = IF k + 2 <= n THEN n - (k + 2) + 1 ELSE 0
          /\ \A i \in 1 .. n - (k + 2) + 1 : SubSeq(f, k + 2, n)[i] = f[k + 2 + i - 1]
        BY SubSeqProperties
    <2> QED
        BY <1>1, <2>1
<1> HIDE DEF a, b
<1> DEFINE s == a \o b
<1>4. /\ s \in Seq(S) /\ Len(s) = n - 1
      /\ \A i \in 1 .. n - 1 : s[i] = IF i <= k THEN a[i] ELSE b[i - k]
    <2>1. /\ s \in Seq(S) /\ Len(s) = Len(a) + Len(b)
          /\ \A i \in 1 .. Len(a) + Len(b) :
                s[i] = IF i <= Len(a) THEN a[i] ELSE b[i - Len(a)]
        BY <1>2, <1>3, ConcatProperties
    <2>2. k + (n - k - 1) = n - 1
        OBVIOUS
    <2> QED
        BY <1>2, <1>3, <2>1, <2>2
<1>5. RemoveAt(f, k + 1) = s
    BY <1>1 DEF RemoveAt, a, b
<1> HIDE DEF s
<1>6. ASSUME NEW i \in 1 .. n - 1 PROVE s[i] = g[i]
    <2>0. s[i] = IF i <= k THEN a[i] ELSE b[i - k]
        BY <1>4
    <2>1. CASE i <= k
        BY <1>2, <2>0, <2>1
    <2>2. CASE i > k
        <3>1. s[i] = b[i - k] /\ i - k \in 1 .. n - k - 1 /\ g[i] = f[i + 1]
              /\ k + 1 + (i - k) = i + 1
            BY <2>0, <2>2
        <3> QED
            BY <1>3, <3>1
    <2> QED
        BY <2>1, <2>2
<1>7. n - 1 \in Nat
    OBVIOUS
<1>8. s = g
    BY <1>4, <1>6, <1>7, SameElements
<1> QED
    BY <1>5, <1>8

LEMMA Headless ==
    ASSUME NEW S, NEW n \in Nat \ {0}, NEW f \in [1 .. n -> S],
           NEW g \in [1 .. n - 1 -> S], \A i \in 1 .. n - 1 : g[i] = f[i + 1]
    PROVE  Tail(f) = g
<1>1. f \in Seq(S) /\ Len(f) = n /\ f # <<>>
    BY FunctionIsSeq
<1>2. /\ Tail(f) \in Seq(S) /\ Len(Tail(f)) = n - 1
      /\ \A i \in 1 .. n - 1 : Tail(f)[i] = f[i + 1]
    BY <1>1, HeadTailProperties
<1> QED
    BY <1>2, SameElements

-----------------------------------------------------------------------------
(* The list before a call and after it.                                     *)

\* The nodes of the list are c[1] .. c[n].
Nodes(n, c) == {c[i] : i \in 1 .. n}

Holds(n, c) ==
    /\ n \in 0 .. Size /\ c \in [1 .. n -> Node] /\ Chain(next, n, c)
    /\ Nodes(n, c) \cap leaked = {} /\ heap = Nodes(n, c) \cup leaked

\* What the two action properties say of one call.
Says == ~ bad' => Effect \/ (op'.name = "insert" /\ ~ TailIsLast)

Keeps ==
    TailIsLast /\ ~ bad /\ ~ TailIsLast' =>
        \/ op'.name \in {"order1", "order2"}
        \/ op'.name = "insertHead" /\ Content = <<>>
        \/ op'.name = "insertPos" /\ op'.pos = Len(Content)
        \/ op'.name = "deletePos" /\ op'.pos = Len(Content) - 1

Good == ApiInv' /\ Says /\ Keeps

LEMMA InvHolds == ApiInv <=> TypeOK /\ \E n, c : Holds(n, c)
BY DEF ApiInv, Holds, Nodes, Size

LEMMA InvHoldsNext ==
    ASSUME TypeOK', NEW n \in 0 .. Size, NEW c \in [1 .. n -> Node], Chain(next', n, c),
           Nodes(n, c) \cap leaked' = {}, heap' = Nodes(n, c) \cup leaked'
    PROVE  ApiInv'
BY DEF ApiInv, Nodes, Size

\* What the caller sees of it.
LEMMA ListNow ==
    ASSUME TypeOK, NEW n, NEW c, Holds(n, c)
    PROVE  /\ n \in Nat /\ n <= Size /\ Linklist_Length = n /\ Len(Content) = n
           /\ next[HEAD] = IF n = 0 THEN NULL ELSE c[1]
           /\ \A i \in 0 .. n : At[i] = Link(c, i)
           /\ \A i \in n + 1 .. Size + 2 : At[i] = NULL
           /\ Reachable = Nodes(n, c)
           /\ Content \in [1 .. n -> Datum] /\ \A i \in 1 .. n : Content[i] = data[c[i]]
           /\ Content = <<>> <=> n = 0
           /\ TailIsLast <=> n = 0 \/ tail = c[n]
<1> USE SizeType, ApiAssumption
<1>1. /\ n \in Nat /\ n <= Size /\ c \in [1 .. n -> Node] /\ Chain(next, n, c)
      /\ data \in [Node \cup {HEAD} -> Datum]
    BY DEF Holds, TypeOK
<1>2. /\ \A i \in 0 .. n : At[i] = Link(c, i)
      /\ \A i \in n + 1 .. Size + 2 : At[i] = NULL
      /\ Linklist_Length = n
      /\ Reachable = Nodes(n, c)
      /\ Content = [i \in 1 .. n |-> data[c[i]]]
    BY <1>1, ListShows DEF Nodes
<1>3. Content \in [1 .. n -> Datum] /\ \A i \in 1 .. n : Content[i] = data[c[i]]
    <2>1. \A i \in 1 .. n : data[c[i]] \in Datum
        BY <1>1
    <2> QED
        BY ONLY <1>2, <2>1
<1>4. Len(Content) = n /\ (Content = <<>> <=> n = 0)
    BY <1>1, <1>3, FunctionIsSeq
<1>5. next[HEAD] = IF n = 0 THEN NULL ELSE c[1]
    <2>1. n # 0 => 1 \in 1 .. n /\ 1 - 1 = 0
        BY <1>1
    <2> QED
        BY <1>1, <2>1 DEF Chain, Link
<1>6. TailIsLast <=> n = 0 \/ tail = c[n]
    <2>1. n # 0 => At[n] = c[n] /\ c[1] # NULL
        BY <1>1, <1>2 DEF Link
    <2> QED
        BY <1>2, <1>5, <2>1 DEF TailIsLast
<1> QED
    BY <1>1, <1>2, <1>3, <1>4, <1>5, <1>6

LEMMA ListThen ==
    ASSUME TypeOK', NEW n \in 0 .. Size, NEW c \in [1 .. n -> Node], Chain(next', n, c)
    PROVE  /\ Reachable' = Nodes(n, c)
           /\ Content' \in [1 .. n -> Datum] /\ \A i \in 1 .. n : Content'[i] = data'[c[i]]
           /\ Content' = <<>> <=> n = 0
           /\ TailIsLast' <=> n = 0 \/ tail' = c[n]
<1> USE SizeType, ApiAssumption
<1>1. n \in Nat /\ data' \in [Node \cup {HEAD} -> Datum]
    BY DEF TypeOK
<1>2. /\ \A i \in 0 .. n : At'[i] = Link(c, i)
      /\ Linklist_Length' = n
      /\ Reachable' = Nodes(n, c)
      /\ Content' = [i \in 1 .. n |-> data'[c[i]]]
    BY ListShowsNext DEF Nodes
<1>3. Content' \in [1 .. n -> Datum] /\ \A i \in 1 .. n : Content'[i] = data'[c[i]]
    <2>1. \A i \in 1 .. n : data'[c[i]] \in Datum
        BY <1>1
    <2> QED
        BY ONLY <1>2, <2>1
<1>4. Content' = <<>> <=> n = 0
    BY <1>1, <1>3, FunctionIsSeq
<1>5. next'[HEAD] = IF n = 0 THEN NULL ELSE c[1]
    <2>1. n # 0 => 1 \in 1 .. n /\ 1 - 1 = 0
        BY <1>1
    <2> QED
        BY <1>1, <2>1 DEF Chain, Link
<1>6. TailIsLast' <=> n = 0 \/ tail' = c[n]
    <2>1. n # 0 => At'[n] = c[n] /\ c[1] # NULL
        BY <1>1, <1>2 DEF Link
    <2> QED
        BY <1>2, <1>5, <2>1 DEF TailIsLast
<1> QED
    BY <1>2, <1>3, <1>4, <1>6

\* The nodes of a chain with x put in, with one taken out and turned round.
LEMMA NodesInserted ==
    ASSUME NEW n \in Nat, NEW c, NEW k \in 0 .. n, NEW x, NEW d, Put(d, n, c, k, x)
    PROVE  Nodes(n + 1, d) = Nodes(n, c) \cup {x}
<1> USE DEF Put
<1>1. \A i \in 1 .. n : \E j \in 1 .. n + 1 : d[j] = c[i]
    <2> TAKE i \in 1 .. n
    <2>1. CASE i <= k
        BY <2>1
    <2>2. CASE i > k
        <3>1. i + 1 \in 1 .. n + 1 /\ d[i + 1] = c[i]
            BY <2>2
        <3> QED
            BY <3>1
    <2> QED
        BY <2>1, <2>2
<1>2. k + 1 \in 1 .. n + 1 /\ d[k + 1] = x
    OBVIOUS
<1>3. \A j \in 1 .. n + 1 : d[j] = x \/ \E i \in 1 .. n : d[j] = c[i]
    <2> TAKE j \in 1 .. n + 1
    <2>1. CASE j <= k
        BY <2>1
    <2>2. CASE j = k + 1
        BY <2>2
    <2>3. CASE j > k + 1
        <3>1. j - 1 \in 1 .. n /\ d[j] = c[j - 1]
            BY <2>3
        <3> QED
            BY <3>1
    <2> QED
        BY <2>1, <2>2, <2>3
<1>4. \A y : y \in Nodes(n + 1, d) <=> y = x \/ y \in Nodes(n, c)
    <2> TAKE y
    <2>1. y \in Nodes(n + 1, d) => y = x \/ y \in Nodes(n, c)
        BY <1>3 DEF Nodes
    <2>2. y = x \/ y \in Nodes(n, c) => y \in Nodes(n + 1, d)
        BY <1>1, <1>2 DEF Nodes
    <2> QED
        BY <2>1, <2>2
<1> QED
    BY <1>4

LEMMA NodesRemoved ==
    ASSUME NEW n \in Nat, NEW c, NEW k \in 0 .. n - 1,
           \A i, j \in 1 .. n : c[i] = c[j] => i = j,
           NEW d, Dropped(d, n, c, k)
    PROVE  Nodes(n - 1, d) = Nodes(n, c) \ {c[k + 1]}
<1> USE DEF Dropped
<1>1. \A i \in 1 .. n : c[i] # c[k + 1] => \E j \in 1 .. n - 1 : d[j] = c[i]
    <2> TAKE i \in 1 .. n
    <2>1. CASE i <= k
        BY <2>1
    <2>2. CASE i = k + 1
        BY <2>2
    <2>3. CASE i > k + 1
        <3>1. i - 1 \in 1 .. n - 1 /\ d[i - 1] = c[i]
            BY <2>3
        <3> QED
            BY <3>1
    <2> QED
        BY <2>1, <2>2, <2>3
<1>2. \A j \in 1 .. n - 1 : \E i \in 1 .. n : d[j] = c[i] /\ c[i] # c[k + 1]
    <2> TAKE j \in 1 .. n - 1
    <2>0. k + 1 \in 1 .. n
        OBVIOUS
    <2>1. CASE j <= k
        <3>1. j \in 1 .. n /\ d[j] = c[j] /\ j # k + 1
            BY <2>1
        <3> QED
            BY <2>0, <3>1
    <2>2. CASE j > k
        <3>1. j + 1 \in 1 .. n /\ d[j] = c[j + 1] /\ j + 1 # k + 1
            BY <2>2
        <3> QED
            BY <2>0, <3>1
    <2> QED
        BY <2>1, <2>2
<1>3. \A y : y \in Nodes(n - 1, d) <=> y \in Nodes(n, c) /\ y # c[k + 1]
    <2> TAKE y
    <2>1. y \in Nodes(n - 1, d) => y \in Nodes(n, c) /\ y # c[k + 1]
        BY <1>2 DEF Nodes
    <2>2. ASSUME y \in Nodes(n, c), y # c[k + 1] PROVE y \in Nodes(n - 1, d)
        <3>1. PICK i \in 1 .. n : y = c[i]
            BY <2>2 DEF Nodes
        <3>2. PICK j \in 1 .. n - 1 : d[j] = c[i]
            BY <1>1, <2>2, <3>1
        <3> QED
            BY <3>1, <3>2 DEF Nodes
    <2> QED
        BY <2>1, <2>2
<1> QED
    BY <1>3

LEMMA NodesReversed ==
    ASSUME NEW n \in Nat, NEW c, NEW d, Backwards(d, n, c)
    PROVE  Nodes(n, d) = Nodes(n, c)
<1> USE DEF Backwards
<1>1. ASSUME NEW i \in 1 .. n PROVE (n - i) + 1 \in 1 .. n /\ d[(n - i) + 1] = c[i]
    <2>1. (n - i) + 1 \in 1 .. n /\ (n - ((n - i) + 1)) + 1 = i
        OBVIOUS
    <2> QED
        BY <2>1
<1>2. ASSUME NEW i \in 1 .. n PROVE (n - i) + 1 \in 1 .. n /\ d[i] = c[(n - i) + 1]
    OBVIOUS
<1> QED
    BY <1>1, <1>2 DEF Nodes

-----------------------------------------------------------------------------
(* One lemma for each operation.                                            *)

LEMMA NothingStep ==
    ASSUME ApiInv, UNCHANGED <<next, data, tail, heap, leaked>>, bad' \in BOOLEAN
    PROVE  ApiInv' /\ Content' = Content /\ (TailIsLast' <=> TailIsLast)
<1>1. PICK n, c : Holds(n, c)
    BY InvHolds
<1>2. TypeOK'
    BY DEF ApiInv, TypeOK
<1>3. n \in 0 .. Size /\ c \in [1 .. n -> Node] /\ Chain(next', n, c)
    BY <1>1 DEF Holds
<1>4. ApiInv'
    BY <1>1, <1>2, <1>3, InvHoldsNext DEF Holds
<1>5. /\ Content \in [1 .. n -> Datum] /\ \A i \in 1 .. n : Content[i] = data[c[i]]
      /\ TailIsLast <=> n = 0 \/ tail = c[n]
    BY <1>1, ListNow DEF ApiInv
<1>6. /\ Content' \in [1 .. n -> Datum] /\ \A i \in 1 .. n : Content'[i] = data'[c[i]]
      /\ TailIsLast' <=> n = 0 \/ tail' = c[n]
    BY <1>2, <1>3, ListThen
<1>7. Content' = Content
    <2>1. \A i \in 1 .. n : Content'[i] = Content[i]
        BY <1>5, <1>6
    <2>2. n \in Nat
        BY <1>3, SizeType
    <2> QED
        BY <1>5, <1>6, <2>1, <2>2, SameFunction
<1> QED
    BY <1>4, <1>5, <1>6, <1>7

\* What Linklist_Insert links behind the k-th node is at the end; the nodes after the
\* k-th, or the new one itself, are lost.
LEMMA InsertStep ==
    ASSUME ApiInv, NEW e \in Datum, Insert(e)
    PROVE  Good
<1> USE ApiAssumption, SizeType
<1>0. TypeOK /\ op' = [name |-> "insert", pos |-> 0, datum |-> e] /\ ~ bad
    BY DEF ApiInv, Insert, Called
<1>1. CASE Node = heap
    <2>1. Nothing
        BY <1>1 DEF Insert
    <2>2. ApiInv' /\ Content' = Content /\ (TailIsLast' <=> TailIsLast)
        BY <1>0, <2>1, NothingStep DEF Nothing, TypeOK
    <2>3. Effect
        BY <1>0, <1>1, <2>2 DEF Effect, NoEffect
    <2> QED
        BY <1>0, <2>2, <2>3 DEF Good, Says, Keeps
<1>2. CASE Node # heap /\ next[HEAD] # NULL /\ tail \notin heap
    <2>1. Undefined
        BY <1>2 DEF Insert
    <2>2. ApiInv' /\ (TailIsLast' <=> TailIsLast)
        BY <2>1, NothingStep DEF Undefined
    <2> QED
        BY <2>1, <2>2 DEF Good, Says, Keeps, Undefined
<1>3. CASE Node # heap /\ (next[HEAD] = NULL \/ tail \in heap)
    <2>1. PICK x \in Node \ heap :
            /\ next' = [next EXCEPT ![x] = NULL,
                            ![IF next[HEAD] = NULL THEN HEAD ELSE tail] = x]
            /\ data' = [data EXCEPT ![x] = e]
            /\ tail' = x /\ heap' = heap \cup {x}
            /\ Lose /\ UNCHANGED bad
        BY <1>3 DEF Insert
    <2>2. PICK n, c : Holds(n, c)
        BY InvHolds
    <2>3. /\ n \in 0 .. Size /\ n \in Nat /\ c \in [1 .. n -> Node] /\ Chain(next, n, c)
          /\ next \in Pointers /\ Nodes(n, c) \subseteq heap
          /\ \A i \in 1 .. n : c[i] \in heap /\ c[i] # x
          /\ next[HEAD] = NULL <=> n = 0
        <3>1. next[HEAD] = IF n = 0 THEN NULL ELSE c[1]
            BY <1>0, <2>2, ListNow
        <3> QED
            BY <1>0, <2>1, <2>2, <3>1 DEF Holds, Nodes, Pointers, TypeOK
    <2>4. TypeOK'
        <3>1. next' \in [Node \cup {HEAD} -> Node \cup {NULL}]
            BY <1>0, <2>1 DEF TypeOK
        <3>2. data' \in [Node \cup {HEAD} -> Datum]
            BY <1>0, <2>1 DEF TypeOK
        <3>3. heap' \in SUBSET Node /\ leaked' \in SUBSET Node
            BY <1>0, <2>1 DEF TypeOK, Lose
        <3> QED
            BY <1>0, <2>1, <3>1, <3>2, <3>3 DEF TypeOK
    <2>5. ASSUME NEW m \in 0 .. Size, NEW d \in [1 .. m -> Node], Chain(next', m, d),
                 Nodes(m, d) \subseteq heap'
          PROVE  ApiInv'
        <3>1. leaked' = heap' \ Nodes(m, d)
            BY <2>1, <2>4, <2>5, ListThen DEF Lose, Reachable
        <3> QED
            BY <2>4, <2>5, <3>1, InvHoldsNext
    <2>6. ASSUME NEW k \in 0 .. n, IF k = 0 THEN n = 0 ELSE tail = c[k] /\ n # 0
          PROVE  Good
        <3>1. Linked(next, next', n, c, k, x, NULL)
            <4>1. Link(c, k) \in Node \cup {HEAD} /\ Link(c, k) # x
                BY <2>1, <2>3 DEF Link
            <4>2. next' = [next EXCEPT ![x] = NULL, ![Link(c, k)] = x]
                BY <2>1, <2>3, <2>6 DEF Link
            <4> QED
                BY <2>1, <2>3, <4>1, <4>2 DEF Pointers, Linked
        <3>2. PICK d \in [1 .. k + 1 -> Node] :
                /\ IsInjective(d) /\ Chain(next', k + 1, d)
                /\ \A i \in 1 .. k : d[i] = c[i]
                /\ d[k + 1] = x
            BY <2>3, <3>1, ChainCut
        <3>3. /\ \A i \in 1 .. k : d[i] = c[i] /\ i \in 1 .. n
              /\ d[k + 1] = x /\ k + 1 \in Nat /\ k + 1 \in 1 .. k + 1
            BY <2>3, <3>2
        <3>4. k + 1 \in 0 .. Size
            BY <3>2, <3>3, ChainFits
        <3>5. Nodes(k + 1, d) \subseteq heap'
            <4>1. \A i \in 1 .. k + 1 : i \in 1 .. k \/ i = k + 1
                OBVIOUS
            <4> QED
                BY <2>1, <2>3, <3>3, <4>1 DEF Nodes
        <3>6. ApiInv'
            BY <2>5, <3>2, <3>4, <3>5
        <3>7. TailIsLast'
            BY <2>1, <2>4, <3>2, <3>3, <3>4, ListThen
        <3>8. TailIsLast => Effect
            <4> SUFFICES ASSUME TailIsLast PROVE Effect
                OBVIOUS
            <4>1. k = n
                <5>1. n = 0 \/ tail = c[n]
                    BY <1>0, <2>2, ListNow
                <5>2. \A i, j \in 1 .. n : c[i] = c[j] => i = j
                    BY <2>3 DEF Chain
                <5> QED
                    BY <2>3, <2>6, <5>1, <5>2
            <4>2. /\ Content \in [1 .. n -> Datum]
                  /\ \A i \in 1 .. n : Content[i] = data[c[i]]
                BY <1>0, <2>2, ListNow
            <4>3. /\ Content' \in [1 .. n + 1 -> Datum]
                  /\ \A i \in 1 .. n + 1 : Content'[i] = data'[d[i]]
                BY <2>4, <3>2, <3>4, <4>1, ListThen
            <4>4. /\ \A i \in 1 .. n : data'[d[i]] = data[c[i]]
                  /\ data'[d[n + 1]] = e
                BY <1>0, <2>1, <2>3, <3>3, <4>1 DEF TypeOK
            <4>5. \A i \in 1 .. n : i \in 1 .. n + 1
                BY <2>3
            <4>6. Append(Content, e) = Content'
                <5>1. /\ Content'[n + 1] = e
                      /\ \A i \in 1 .. n : Content'[i] = Content[i]
                    <6>1. n + 1 \in 1 .. n + 1
                        BY <2>3
                    <6> QED
                        BY ONLY <4>2, <4>3, <4>4, <4>5, <6>1
                <5> QED
                    BY <2>3, <4>2, <4>3, <5>1, Appended
            <4> QED
                BY <1>0, <1>3, <4>6 DEF Effect, NoEffect
        <3> QED
            BY <1>0, <3>6, <3>7, <3>8 DEF Good, Says, Keeps
    <2>7. CASE n = 0
        BY <2>3, <2>6, <2>7
    <2>8. CASE \E k \in 1 .. n : tail = c[k]
        <3>1. PICK k \in 1 .. n : tail = c[k]
            BY <2>8
        <3> QED
            BY <2>3, <2>6, <3>1
    <2>9. CASE n # 0 /\ \A k \in 1 .. n : tail # c[k]
        <3>1. \A i \in 1 .. n : next'[c[i]] = next[c[i]]
            BY <2>1, <2>3, <2>9 DEF Pointers
        <3>2. next'[HEAD] = next[HEAD]
            <4>1. tail \in Node
                BY <1>0, <1>3, <2>3, <2>9 DEF TypeOK
            <4> QED
                BY <2>1, <2>3, <2>9, <4>1 DEF Pointers
        <3>3. Chain(next', n, c)
            BY <2>3, <3>1, <3>2, ChainElsewhere
        <3>4. ApiInv'
            BY <2>1, <2>3, <2>5, <3>3
        <3>5. ~ TailIsLast
            <4>1. n \in 1 .. n
                BY <2>3, <2>9
            <4> QED
                BY <1>0, <2>2, <2>9, <4>1, ListNow
        <3> QED
            BY <1>0, <3>4, <3>5 DEF Good, Says, Keeps
    <2> QED
        BY <2>7, <2>8, <2>9
<1> QED
    BY <1>1, <1>2, <1>3

LEMMA LinkAfterStep ==
    ASSUME ApiInv, NEW n, NEW c, Holds(n, c), NEW k \in 0 .. n, NEW x \in Node \ heap,
           NEW e \in Datum, LinkAfter(Link(c, k), x, e)
    PROVE  /\ ApiInv'
           /\ TailIsLast /\ k # n => TailIsLast'
           /\ Content \in [1 .. n -> Datum] /\ Content' \in [1 .. n + 1 -> Datum]
           /\ Put(Content', n, Content, k, e)
<1> USE ApiAssumption, SizeType
<1>0. TypeOK
    BY DEF ApiInv
<1>1. /\ n \in 0 .. Size /\ n \in Nat /\ c \in [1 .. n -> Node] /\ Chain(next, n, c)
      /\ next \in Pointers /\ Nodes(n, c) \cap leaked = {} /\ heap = Nodes(n, c) \cup leaked
      /\ \A i \in 1 .. n : c[i] \in Nodes(n, c) /\ c[i] \in Node /\ c[i] # x
    BY <1>0 DEF Holds, Nodes, Pointers, TypeOK
<1>2. /\ next' = [next EXCEPT ![x] = next[Link(c, k)], ![Link(c, k)] = x]
      /\ data' = [data EXCEPT ![x] = e]
      /\ heap' = heap \cup {x}
      /\ tail' = tail /\ leaked' = leaked /\ bad' = bad
    BY DEF LinkAfter
<1>3. Link(c, k) \in Node \cup {HEAD} /\ Link(c, k) # x
    BY <1>1 DEF Link
<1>4. TypeOK'
    <2>1. next[Link(c, k)] \in Node \cup {NULL}
        BY <1>1, <1>3 DEF Pointers
    <2>2. next' \in [Node \cup {HEAD} -> Node \cup {NULL}]
        BY <1>1, <1>2, <2>1 DEF Pointers
    <2>3. data' \in [Node \cup {HEAD} -> Datum]
        BY <1>0, <1>2 DEF TypeOK
    <2> QED
        BY <1>0, <1>2, <2>2, <2>3 DEF TypeOK
<1>5. PICK y : y = next[Link(c, k)] /\ Linked(next, next', n, c, k, x, y)
    BY <1>1, <1>2, <1>3 DEF Linked, Pointers
<1>6. PICK d \in [1 .. n + 1 -> Node] :
        IsInjective(d) /\ Chain(next', n + 1, d) /\ Put(d, n, c, k, x)
    BY <1>1, <1>5, ChainInsert
<1>7. n + 1 \in Nat /\ n + 1 \in 0 .. Size
    BY <1>1, <1>6, ChainFits
<1>8. Nodes(n + 1, d) = Nodes(n, c) \cup {x}
    BY <1>1, <1>6, NodesInserted
<1>9. ApiInv'
    <2>1. Nodes(n + 1, d) \cap leaked' = {} /\ heap' = Nodes(n + 1, d) \cup leaked'
        BY <1>1, <1>2, <1>8
    <2> QED
        BY <1>4, <1>6, <1>7, <2>1, InvHoldsNext
<1>10. /\ Content' \in [1 .. n + 1 -> Datum]
       /\ \A i \in 1 .. n + 1 : Content'[i] = data'[d[i]]
       /\ TailIsLast' <=> n + 1 = 0 \/ tail' = d[n + 1]
    BY <1>4, <1>6, <1>7, ListThen
<1>11. /\ Content \in [1 .. n -> Datum]
       /\ \A i \in 1 .. n : Content[i] = data[c[i]]
       /\ TailIsLast <=> n = 0 \/ tail = c[n]
    BY <1>0, ListNow
<1>12. data'[x] = e /\ \A i \in 1 .. n : data'[c[i]] = data[c[i]]
    BY <1>0, <1>1, <1>2 DEF TypeOK
<1>13. TailIsLast /\ k # n => TailIsLast'
    <2> SUFFICES ASSUME TailIsLast, k # n PROVE TailIsLast'
        OBVIOUS
    <2>1. n # 0 /\ n + 1 \in k + 2 .. n + 1 /\ (n + 1) - 1 = n
        BY <1>1
    <2> QED
        BY <1>2, <1>6, <1>10, <1>11, <2>1 DEF Put
<1>14. Content'[k + 1] = e
    BY <1>1, <1>6, <1>10, <1>12 DEF Put
<1>15. \A i \in 1 .. k : Content'[i] = Content[i]
    BY <1>1, <1>6, <1>10, <1>11, <1>12 DEF Put
<1>16. ASSUME NEW i \in k + 2 .. n + 1 PROVE Content'[i] = Content[i - 1]
    <2>1. i \in 1 .. n + 1 /\ i - 1 \in 1 .. n
        BY <1>1
    <2> QED
        BY <1>6, <1>10, <1>11, <1>12, <2>1 DEF Put
<1> QED
    BY <1>9, <1>10, <1>11, <1>13, <1>14, <1>15, <1>16 DEF Put

LEMMA UnlinkAfterStep ==
    ASSUME ApiInv, NEW n, NEW c, Holds(n, c), NEW k \in 0 .. n - 1, UnlinkAfter(Link(c, k))
    PROVE  /\ ApiInv'
           /\ TailIsLast /\ (k # n - 1 \/ n = 1) => TailIsLast'
           /\ Content \in [1 .. n -> Datum] /\ Content' \in [1 .. n - 1 -> Datum]
           /\ Dropped(Content', n, Content, k)
<1> USE ApiAssumption, SizeType
<1>0. TypeOK
    BY DEF ApiInv
<1>1. /\ n \in 0 .. Size /\ n \in Nat /\ c \in [1 .. n -> Node] /\ Chain(next, n, c)
      /\ next \in Pointers /\ Nodes(n, c) \cap leaked = {} /\ heap = Nodes(n, c) \cup leaked
      /\ \A i \in 1 .. n : c[i] \in Nodes(n, c) /\ c[i] \in Node
    BY <1>0 DEF Holds, Nodes, Pointers, TypeOK
<1>2. /\ next' = [next EXCEPT ![Link(c, k)] = next[next[Link(c, k)]]]
      /\ heap' = heap \ {next[Link(c, k)]}
      /\ data' = data /\ tail' = tail /\ leaked' = leaked /\ bad' = bad
    BY DEF UnlinkAfter
<1>3. Link(c, k) \in Node \cup {HEAD} /\ next[Link(c, k)] = c[k + 1] /\ c[k + 1] \in Node
    <2>1. k + 1 \in 1 .. n /\ (k + 1) - 1 = k
        BY <1>1
    <2> QED
        BY <1>1, <2>1 DEF Link, Chain
<1>4. TypeOK'
    <2>1. next[next[Link(c, k)]] \in Node \cup {NULL}
        BY <1>1, <1>3 DEF Pointers
    <2>2. next' \in [Node \cup {HEAD} -> Node \cup {NULL}]
        BY <1>1, <1>2, <2>1 DEF Pointers
    <2> QED
        BY <1>0, <1>2, <2>2 DEF TypeOK
<1>5. Unlinked(next, next', n, c, k)
    BY <1>1, <1>2, <1>3 DEF Unlinked, Pointers
<1>6. PICK d \in [1 .. n - 1 -> Node] :
        IsInjective(d) /\ Chain(next', n - 1, d) /\ Dropped(d, n, c, k)
    BY <1>1, <1>5, ChainRemove
<1>7. n - 1 \in Nat /\ n - 1 \in 0 .. Size
    BY <1>1
<1>8. Nodes(n - 1, d) = Nodes(n, c) \ {c[k + 1]}
    <2>1. \A i, j \in 1 .. n : c[i] = c[j] => i = j
        BY <1>1 DEF Chain
    <2> QED
        BY <1>1, <1>6, <2>1, NodesRemoved
<1>9. ApiInv'
    <2>1. c[k + 1] \in Nodes(n, c)
        BY <1>1
    <2>2. Nodes(n - 1, d) \cap leaked' = {} /\ heap' = Nodes(n - 1, d) \cup leaked'
        BY <1>1, <1>2, <1>3, <1>8, <2>1
    <2> QED
        BY <1>4, <1>6, <1>7, <2>2, InvHoldsNext
<1>10. /\ Content' \in [1 .. n - 1 -> Datum]
       /\ \A i \in 1 .. n - 1 : Content'[i] = data'[d[i]]
       /\ TailIsLast' <=> n - 1 = 0 \/ tail' = d[n - 1]
    BY <1>4, <1>6, <1>7, ListThen
<1>11. /\ Content \in [1 .. n -> Datum]
       /\ \A i \in 1 .. n : Content[i] = data[c[i]]
       /\ TailIsLast <=> n = 0 \/ tail = c[n]
    BY <1>0, ListNow
<1>12. TailIsLast /\ (k # n - 1 \/ n = 1) => TailIsLast'
    <2>1. CASE n = 1
        BY <1>10, <2>1
    <2>2. CASE k # n - 1
        <3>1. n # 0 /\ n - 1 \in k + 1 .. n - 1 /\ (n - 1) + 1 = n
            BY <1>1, <2>2
        <3> QED
            BY <1>2, <1>6, <1>10, <1>11, <2>2, <3>1 DEF Dropped
    <2> QED
        BY <2>1, <2>2
<1>13. \A i \in 1 .. k : Content'[i] = Content[i]
    BY <1>1, <1>2, <1>6, <1>10, <1>11 DEF Dropped
<1>14. ASSUME NEW i \in k + 1 .. n - 1 PROVE Content'[i] = Content[i + 1]
    <2>1. i \in 1 .. n - 1 /\ i + 1 \in 1 .. n
        BY <1>1
    <2> QED
        BY <1>2, <1>6, <1>10, <1>11, <2>1 DEF Dropped
<1> QED
    BY <1>9, <1>10, <1>11, <1>12, <1>13, <1>14 DEF Dropped

\* A call that finds nothing to do, or after which nothing is said.
LEMMA NoEffectStep ==
    ASSUME ApiInv, Nothing, NoEffect
    PROVE  Good
<1>1. bad' \in BOOLEAN
    BY DEF ApiInv, TypeOK, Nothing
<1>2. ApiInv' /\ Content' = Content /\ (TailIsLast' <=> TailIsLast)
    BY <1>1, NothingStep DEF Nothing
<1>3. Effect
    BY <1>2 DEF Effect
<1> QED
    BY <1>2, <1>3 DEF Good, Says, Keeps

LEMMA UndefinedStep ==
    ASSUME ApiInv, Undefined
    PROVE  Good
<1>1. ApiInv' /\ (TailIsLast' <=> TailIsLast)
    BY NothingStep DEF Undefined
<1> QED
    BY <1>1 DEF Good, Says, Keeps, Undefined

LEMMA InsertHeadStep ==
    ASSUME ApiInv, NEW e \in Datum, Insert_Head(e)
    PROVE  Good
<1> USE ApiAssumption, SizeType
<1>0. /\ TypeOK /\ op' = [name |-> "insertHead", pos |-> 0, datum |-> e]
      /\ op'.name = "insertHead" /\ op'.datum = e
    BY DEF ApiInv, Insert_Head, Called
<1>1. CASE Node = heap
    BY <1>0, <1>1, NoEffectStep DEF Insert_Head, NoEffect
<1>2. CASE Node # heap
    <2>1. PICK x \in Node \ heap : LinkAfter(HEAD, x, e)
        BY <1>2 DEF Insert_Head
    <2>2. PICK n, c : Holds(n, c)
        BY InvHolds
    <2>3. n \in Nat /\ 0 \in 0 .. n /\ HEAD = Link(c, 0) /\ (Content = <<>> <=> n = 0)
        BY <1>0, <2>2, ListNow DEF Link
    <2>4. /\ ApiInv'
          /\ TailIsLast /\ 0 # n => TailIsLast'
          /\ Content \in [1 .. n -> Datum] /\ Content' \in [1 .. n + 1 -> Datum]
          /\ Put(Content', n, Content, 0, e)
        <3>1. x \in Node \ heap /\ LinkAfter(Link(c, 0), x, e) /\ 0 \in 0 .. n
            BY <2>1, <2>3
        <3> QED
            BY ONLY ApiInv, <2>2, <3>1, LinkAfterStep, e \in Datum
    <2>5. <<e>> \o Content = Content'
        <3>1. /\ Content'[1] = e
              /\ \A i \in 2 .. n + 1 : Content'[i] = Content[i - 1]
            BY <2>4 DEF Put
        <3> QED
            BY <2>3, <2>4, <3>1, Headed
    <2>6. Effect
        BY <1>0, <1>2, <2>5 DEF Effect, NoEffect
    <2> QED
        BY <1>0, <2>3, <2>4, <2>6 DEF Good, Says, Keeps
<1> QED
    BY <1>1, <1>2

LEMMA InsertPosStep ==
    ASSUME ApiInv, NEW e \in Datum, NEW j \in Positions, Insert_Pos(j, e)
    PROVE  Good
<1> USE ApiAssumption, SizeType
<1>0. /\ TypeOK /\ op' = [name |-> "insertPos", pos |-> j, datum |-> e]
      /\ op'.name = "insertPos" /\ op'.datum = e /\ op'.pos = j
    BY DEF ApiInv, Insert_Pos, Called
<1>1. CASE At[j] = NULL \/ Node = heap
    BY <1>1, UndefinedStep DEF Insert_Pos
<1>2. CASE ~ (At[j] = NULL \/ Node = heap)
    <2>1. PICK x \in Node \ heap : LinkAfter(At[j], x, e)
        BY <1>2 DEF Insert_Pos
    <2>2. PICK n, c : Holds(n, c)
        BY InvHolds
    <2>3. n \in Nat /\ j \in 0 .. n /\ At[j] = Link(c, j) /\ Len(Content) = n
        <3>1. /\ n \in Nat /\ n <= Size /\ Linklist_Length = n /\ Len(Content) = n
              /\ \A i \in 0 .. n : At[i] = Link(c, i)
              /\ \A i \in n + 1 .. Size + 2 : At[i] = NULL
            BY <1>0, <2>2, ListNow
        <3>2. j \in 0 .. n + 1 /\ j # n + 1
            BY <1>2, <3>1 DEF Positions
        <3> QED
            BY <3>1, <3>2
    <2>4. /\ ApiInv'
          /\ TailIsLast /\ j # n => TailIsLast'
          /\ Content \in [1 .. n -> Datum] /\ Content' \in [1 .. n + 1 -> Datum]
          /\ Put(Content', n, Content, j, e)
        <3>1. x \in Node \ heap /\ LinkAfter(Link(c, j), x, e) /\ j \in 0 .. n
            BY <2>1, <2>3
        <3> QED
            BY ONLY ApiInv, <2>2, <3>1, LinkAfterStep, e \in Datum
    <2>5. InsertAt(Content, j + 1, e) = Content'
        BY <2>3, <2>4, Inserted
    <2>6. Effect
        BY <1>0, <2>5 DEF Effect, NoEffect
    <2> QED
        BY <1>0, <2>3, <2>4, <2>6 DEF Good, Says, Keeps
<1> QED
    BY <1>1, <1>2

LEMMA PopStep ==
    ASSUME ApiInv, Pop
    PROVE  Good
<1> USE ApiAssumption, SizeType
<1>0. TypeOK /\ op' = [name |-> "pop", pos |-> 0, datum |-> None] /\ op'.name = "pop"
    BY DEF ApiInv, Pop, Called
<1>1. PICK n, c : Holds(n, c)
    BY InvHolds
<1>2. n \in Nat /\ (Content = <<>> <=> n = 0) /\ (next[HEAD] = NULL <=> n = 0)
    <2>1. /\ n \in Nat /\ (Content = <<>> <=> n = 0)
          /\ next[HEAD] = IF n = 0 THEN NULL ELSE c[1]
        BY <1>0, <1>1, ListNow
    <2>2. n # 0 => c[1] \in Node
        BY <1>1, <2>1 DEF Holds
    <2> QED
        BY <2>1, <2>2
<1>3. CASE n = 0
    BY <1>0, <1>2, <1>3, NoEffectStep DEF Pop, NoEffect
<1>4. CASE n # 0
    <2>1. UnlinkAfter(Link(c, 0)) /\ 0 \in 0 .. n - 1 /\ n \in Nat \ {0}
        BY <1>2, <1>4 DEF Pop, Link
    <2>2. /\ ApiInv'
          /\ TailIsLast /\ (0 # n - 1 \/ n = 1) => TailIsLast'
          /\ Content \in [1 .. n -> Datum] /\ Content' \in [1 .. n - 1 -> Datum]
          /\ Dropped(Content', n, Content, 0)
        BY <1>1, <2>1, UnlinkAfterStep
    <2>3. Tail(Content) = Content'
        <3>1. \A i \in 1 .. n - 1 : Content'[i] = Content[i + 1]
            BY <2>2 DEF Dropped
        <3> QED
            BY <2>1, <2>2, <3>1, Headless
    <2>4. Effect
        BY <1>0, <1>2, <1>4, <2>3 DEF Effect, NoEffect
    <2> QED
        BY <1>0, <2>1, <2>2, <2>4 DEF Good, Says, Keeps
<1> QED
    BY <1>3, <1>4

LEMMA DeletePosStep ==
    ASSUME ApiInv, NEW j \in Positions, Delete_Pos(j)
    PROVE  Good
<1> USE ApiAssumption, SizeType
<1>0. /\ TypeOK /\ op' = [name |-> "deletePos", pos |-> j, datum |-> None]
      /\ op'.name = "deletePos" /\ op'.pos = j
    BY DEF ApiInv, Delete_Pos, Called
<1>1. PICK n, c : Holds(n, c)
    BY InvHolds
<1>2. /\ n \in Nat /\ n <= Size /\ Linklist_Length = n /\ Len(Content) = n
      /\ Content = <<>> <=> n = 0
      /\ next[HEAD] = IF n = 0 THEN NULL ELSE c[1]
      /\ \A i \in 0 .. n : At[i] = Link(c, i)
      /\ \A i \in n + 1 .. Size + 2 : At[i] = NULL
    BY <1>0, <1>1, ListNow
<1>3. next[HEAD] = NULL <=> n = 0
    <2>1. n # 0 => c[1] \in Node
        BY <1>1, <1>2 DEF Holds
    <2> QED
        BY <1>2, <2>1
<1>4. CASE n = 0
    BY <1>0, <1>2, <1>3, <1>4, NoEffectStep DEF Delete_Pos, NoEffect
<1>5. CASE n # 0 /\ At[j + 1] = NULL
    BY <1>3, <1>5, UndefinedStep DEF Delete_Pos
<1>6. CASE n # 0 /\ At[j + 1] # NULL
    <2>1. j \in 0 .. n - 1
        <3>1. j \in 0 .. n + 1
            BY <1>2 DEF Positions
        <3>2. j + 1 \notin n + 1 .. Size + 2
            BY <1>2, <1>6
        <3> QED
            BY <1>2, <3>1, <3>2
    <2>2. UnlinkAfter(Link(c, j))
        <3>1. UnlinkAfter(At[j])
            BY <1>3, <1>6 DEF Delete_Pos
        <3>2. At[j] = Link(c, j)
            BY <1>2, <2>1
        <3> QED
            BY <3>1, <3>2
    <2>3. /\ ApiInv'
          /\ TailIsLast /\ j # n - 1 => TailIsLast'
          /\ Content \in [1 .. n -> Datum] /\ Content' \in [1 .. n - 1 -> Datum]
          /\ Dropped(Content', n, Content, j)
        BY <1>1, <2>1, <2>2, UnlinkAfterStep
    <2>4. RemoveAt(Content, j + 1) = Content'
        <3>1. n \in Nat
            BY <1>2
        <3> QED
            BY ONLY <2>1, <2>3, <3>1, Removed
    <2>5. Effect
        BY <1>0, <1>2, <1>6, <2>4 DEF Effect, NoEffect
    <2> QED
        BY <1>0, <1>2, <2>3, <2>5 DEF Good, Says, Keeps
<1> QED
    BY <1>4, <1>5, <1>6

\* The two that only look, the two by value, and Order_Linklist.
LEMMA FindPosStep ==
    ASSUME ApiInv, NEW j \in Positions, Find_Pos(j)
    PROVE  Good
<1>1. op'.name = "findPos" /\ (Undefined \/ Nothing)
    BY DEF Find_Pos, Called
<1>2. NoEffect
    BY <1>1 DEF NoEffect
<1> QED
    BY <1>1, <1>2, NoEffectStep, UndefinedStep

LEMMA DeleteDataStep ==
    ASSUME ApiInv, NEW e \in Datum, Delete_Data(e)
    PROVE  Good
<1>1. op'.name = "deleteData" /\ Nothing
    BY DEF Delete_Data, Called
<1>2. NoEffect
    BY <1>1 DEF NoEffect
<1> QED
    BY <1>1, <1>2, NoEffectStep

LEMMA OrderStep ==
    ASSUME ApiInv, Order
    PROVE  Good
<1>1. op'.name = "order" /\ Nothing
    BY DEF Order, Called
<1>2. NoEffect
    BY <1>1 DEF NoEffect
<1> QED
    BY <1>1, <1>2, NoEffectStep

LEMMA ChangeDataStep ==
    ASSUME ApiInv, NEW e \in Datum, Change_Data(e)
    PROVE  Good
<1> USE ApiAssumption, SizeType
<1>0. TypeOK /\ op'.name = "changeData"
    BY DEF ApiInv, Change_Data, Called
<1>1. PICK n, c : Holds(n, c)
    BY InvHolds
<1>2. /\ n \in 0 .. Size /\ n \in Nat /\ c \in [1 .. n -> Node] /\ Chain(next, n, c)
      /\ Nodes(n, c) \cap leaked = {} /\ heap = Nodes(n, c) \cup leaked
    BY <1>1 DEF Holds
<1>3. At[0] = HEAD
    <2>1. 0 \in 0 .. n /\ \A i \in 0 .. n : At[i] = Link(c, i)
        BY <1>0, <1>1, <1>2, ListNow
    <2> QED
        BY <2>1 DEF Link
<1>4. /\ data' = [data EXCEPT ![HEAD] = e]
      /\ UNCHANGED <<next, tail, heap, leaked, bad>>
    <2>1. /\ data' = [data EXCEPT ![At[Find_Data(e) + 1]] = e]
          /\ UNCHANGED <<next, tail, heap, leaked, bad>>
        BY DEF Change_Data
    <2>2. Find_Data(e) + 1 = 0
        BY DEF Find_Data
    <2> QED
        BY <1>3, <2>1, <2>2
<1>5. TypeOK'
    <2>1. data' \in [Node \cup {HEAD} -> Datum]
        BY <1>0, <1>4 DEF TypeOK
    <2> QED
        BY <1>0, <1>4, <2>1 DEF TypeOK
<1>6. Chain(next', n, c)
    BY <1>2, <1>4
<1>7. ApiInv'
    BY <1>2, <1>4, <1>5, <1>6, InvHoldsNext
<1>8. /\ Content \in [1 .. n -> Datum] /\ \A i \in 1 .. n : Content[i] = data[c[i]]
      /\ TailIsLast <=> n = 0 \/ tail = c[n]
    BY <1>0, <1>1, ListNow
<1>9. /\ Content' \in [1 .. n -> Datum] /\ \A i \in 1 .. n : Content'[i] = data'[c[i]]
      /\ TailIsLast' <=> n = 0 \/ tail' = c[n]
    BY <1>2, <1>5, <1>6, ListThen
<1>10. Content' = Content
    <2>1. \A i \in 1 .. n : data'[c[i]] = data[c[i]]
        BY <1>0, <1>2, <1>4 DEF TypeOK
    <2>2. \A i \in 1 .. n : Content'[i] = Content[i]
        BY <1>8, <1>9, <2>1
    <2> QED
        BY <1>2, <1>8, <1>9, <2>2, SameFunction
<1>11. Effect
    BY <1>0, <1>10 DEF Effect, NoEffect
<1> QED
    BY <1>4, <1>7, <1>8, <1>9, <1>11 DEF Good, Says, Keeps

\* Linklist_Setnull and Linklist_free.
LEMMA EmptiedStep ==
    ASSUME ApiInv, next' = [next EXCEPT ![HEAD] = NULL], heap' = heap \ Reachable,
           tail' \in Node \cup {NULL}, UNCHANGED <<data, leaked, bad>>
    PROVE  ApiInv' /\ Content' = <<>> /\ TailIsLast'
<1> USE ApiAssumption, SizeType
<1>0. TypeOK
    BY DEF ApiInv
<1>1. PICK n, c : Holds(n, c)
    BY InvHolds
<1>2. /\ Nodes(n, c) \cap leaked = {} /\ heap = Nodes(n, c) \cup leaked
      /\ Reachable = Nodes(n, c)
    BY <1>0, <1>1, ListNow DEF Holds
<1>3. TypeOK'
    BY <1>0 DEF TypeOK
<1>4. PICK d \in [1 .. 0 -> Node] : TRUE
    <2>1. [i \in 1 .. 0 |-> HEAD] \in [1 .. 0 -> Node]
        OBVIOUS
    <2> QED
        BY <2>1
<1>5. Chain(next', 0, d) /\ 0 \in 0 .. Size
    <2>1. next'[HEAD] = NULL
        BY <1>0 DEF TypeOK
    <2> QED
        BY <2>1, SizeType DEF Chain, Link
<1>6. Nodes(0, d) = {}
    BY DEF Nodes
<1>7. ApiInv'
    BY <1>2, <1>3, <1>5, <1>6, InvHoldsNext
<1> QED
    BY <1>3, <1>5, <1>7, ListThen

LEMMA SetnullStep ==
    ASSUME ApiInv, Setnull
    PROVE  Good
<1>0. TypeOK /\ op'.name = "setnull"
    BY DEF ApiInv, Setnull, Called
<1>1. CASE next[HEAD] = NULL
    BY <1>1, UndefinedStep DEF Setnull
<1>2. CASE next[HEAD] # NULL
    <2>1. ApiInv' /\ Content' = <<>> /\ TailIsLast'
        BY <1>0, <1>2, EmptiedStep DEF Setnull, TypeOK
    <2>2. Effect
        BY <1>0, <2>1 DEF Effect, NoEffect
    <2> QED
        BY <2>1, <2>2 DEF Good, Says, Keeps
<1> QED
    BY <1>1, <1>2

LEMMA FreeStep ==
    ASSUME ApiInv, Free
    PROVE  Good
<1>0. TypeOK /\ op'.name = "free"
    BY DEF ApiInv, Free, Called
<1>1. ApiInv' /\ Content' = <<>> /\ TailIsLast'
    BY <1>0, EmptiedStep DEF Free, TypeOK
<1>2. Effect
    BY <1>0, <1>1 DEF Effect, NoEffect
<1> QED
    BY <1>1, <1>2 DEF Good, Says, Keeps

\* What a list turned round says of the data, for both reversals.
LEMMA ReversedData ==
    ASSUME NEW S, NEW n \in Nat, NEW f \in Seq(S), NEW m \in 0 .. n, Len(f) = n,
           NEW g \in [1 .. m -> S], Backwards(g, m, f)
    PROVE  Reverse(SubSeq(f, 1, m)) = g
<1> USE DEF Backwards
<1> DEFINE b == SubSeq(f, 1, m)
<1>1. b \in Seq(S) /\ Len(b) = m /\ \A i \in 1 .. m : b[i] = f[i]
    <2>1. /\ SubSeq(f, 1, m) \in Seq(S)
          /\ Len(SubSeq(f, 1, m)) = IF 1 <= m THEN m - 1 + 1 ELSE 0
          /\ \A i \in 1 .. m - 1 + 1 : SubSeq(f, 1, m)[i] = f[1 + i - 1]
        BY SubSeqProperties
    <2> QED
        BY <2>1
<1> HIDE DEF b
<1>2. Reverse(b) = [i \in 1 .. m |-> b[(m - i) + 1]]
    BY <1>1 DEF Reverse
<1>3. ASSUME NEW i \in 1 .. m PROVE b[(m - i) + 1] = g[i]
    <2>1. (m - i) + 1 \in 1 .. m
        OBVIOUS
    <2> QED
        BY <1>1, <2>1
<1>4. Reverse(b) = [i \in 1 .. m |-> g[i]]
    BY <1>2, <1>3
<1> QED
    BY <1>4 DEF b

\* The whole of a sequence is a part of it.
LEMMA Whole ==
    ASSUME NEW S, NEW f \in Seq(S)
    PROVE  SubSeq(f, 1, Len(f)) = f
<1>1. Len(f) \in Nat
    BY LenProperties
<1>2. /\ SubSeq(f, 1, Len(f)) \in Seq(S) /\ Len(SubSeq(f, 1, Len(f))) = Len(f)
      /\ \A i \in 1 .. Len(f) : SubSeq(f, 1, Len(f))[i] = f[i]
    <2>1. /\ SubSeq(f, 1, Len(f)) \in Seq(S)
          /\ Len(SubSeq(f, 1, Len(f))) = IF 1 <= Len(f) THEN Len(f) - 1 + 1 ELSE 0
          /\ \A i \in 1 .. Len(f) - 1 + 1 : SubSeq(f, 1, Len(f))[i] = f[1 + i - 1]
        BY <1>1, SubSeqProperties
    <2> QED
        BY <1>1, <2>1
<1> QED
    BY <1>1, <1>2, SeqEqual

LEMMA Order2Step ==
    ASSUME ApiInv, Order_2
    PROVE  Good
<1> USE ApiAssumption, SizeType
<1>0. TypeOK /\ op'.name = "order2"
    BY DEF ApiInv, Order_2, Called
<1>1. PICK n, c : Holds(n, c)
    BY InvHolds
<1>2. /\ n \in 0 .. Size /\ n \in Nat /\ c \in [1 .. n -> Node] /\ Chain(next, n, c)
      /\ Nodes(n, c) \cap leaked = {} /\ heap = Nodes(n, c) \cup leaked
      /\ next \in Pointers
    BY <1>0, <1>1 DEF Holds, TypeOK, Pointers
<1>3. /\ Linklist_Length = n /\ Len(Content) = n
      /\ \A i \in 0 .. n : At[i] = Link(c, i)
      /\ Content \in [1 .. n -> Datum] /\ \A i \in 1 .. n : Content[i] = data[c[i]]
    BY <1>0, <1>1, ListNow
<1>4. CASE n < 2
    BY <1>3, <1>4, UndefinedStep DEF Order_2, Undefined
<1>5. CASE ~ (n < 2)
    <2>1. \A i \in 1 .. n : At[i] = c[i]
        BY <1>3 DEF Link
    <2>2. /\ next' = [a \in DOMAIN next |->
                IF a = HEAD THEN At[n]
                ELSE IF a = At[1] THEN NULL
                ELSE IF \E i \in 2 .. n : At[i] = a
                THEN At[(CHOOSE i \in 2 .. n : At[i] = a) - 1] ELSE next[a]]
          /\ UNCHANGED <<data, tail, heap, leaked, bad>>
        BY <1>3, <1>5 DEF Order_2
    <2>3. DOMAIN next = Node \cup {HEAD}
        BY <1>2 DEF Pointers
    <2>4. next'[HEAD] = c[n]
        BY <1>2, <1>5, <2>1, <2>2, <2>3
    <2>5. next'[c[1]] = NULL
        <3>1. c[1] \in Node /\ c[1] = At[1] /\ c[1] # HEAD
            BY <1>2, <1>5, <2>1
        <3> QED
            BY <2>2, <2>3, <3>1
    <2>6. ASSUME NEW i \in 2 .. n PROVE next'[c[i]] = c[i - 1]
        <3>1. /\ i \in 1 .. n /\ 1 \in 1 .. n /\ i - 1 \in 1 .. n /\ i # 1
              /\ c[i] \in Node /\ c[i] # HEAD /\ c[i] # c[1]
            BY <1>2, <1>5 DEF Chain
        <3>2. \A j \in 2 .. n : At[j] = c[i] <=> j = i
            BY <1>2, <2>1, <3>1 DEF Chain
        <3>3. (CHOOSE j \in 2 .. n : At[j] = c[i]) = i
            BY <3>2
        <3>4. next'[c[i]] = At[(CHOOSE j \in 2 .. n : At[j] = c[i]) - 1]
            BY <2>1, <2>2, <2>3, <3>1, <3>2
        <3> QED
            BY <2>1, <3>1, <3>3, <3>4
    <2>7. ASSUME NEW a \in Node \cup {HEAD} PROVE next'[a] \in Node \cup {NULL}
        <3>1. CASE a = HEAD
            BY <1>2, <1>5, <2>4, <3>1
        <3>2. CASE \E i \in 1 .. n : a = c[i]
            <4>1. PICK i \in 1 .. n : a = c[i]
                BY <3>2
            <4>2. CASE i = 1
                BY <2>5, <4>1, <4>2
            <4>3. CASE i # 1
                <5>1. i \in 2 .. n /\ i - 1 \in 1 .. n
                    BY <1>2, <4>3
                <5> QED
                    BY <1>2, <2>6, <4>1, <5>1
            <4> QED
                BY <4>2, <4>3
        <3>3. CASE a # HEAD /\ \A i \in 1 .. n : a # c[i]
            <4>1. next'[a] = next[a]
                BY <1>2, <1>5, <2>1, <2>2, <2>3, <3>3
            <4> QED
                BY <1>2, <4>1 DEF Pointers
        <3> QED
            BY <3>1, <3>2, <3>3
    <2>8. TypeOK'
        <3>1. DOMAIN next' = Node \cup {HEAD} /\ next' = [a \in DOMAIN next' |-> next'[a]]
            BY <2>2, <2>3
        <3>2. next' \in [Node \cup {HEAD} -> Node \cup {NULL}]
            BY <2>7, <3>1
        <3> QED
            BY <1>0, <2>2, <3>2 DEF TypeOK
    <2>9. PICK d \in [1 .. n -> Node] :
            IsInjective(d) /\ Chain(next', n, d) /\ Backwards(d, n, c)
        <3>1. IsInjective(c)
            BY <1>2 DEF Chain, IsInjective
        <3>2. Turned(next', n, c) /\ n \in Nat \ {0}
            BY <1>2, <1>5, <2>4, <2>5, <2>6 DEF Turned
        <3> QED
            BY <1>2, <1>5, <3>1, <3>2, ChainReversed
    <2>10. ApiInv'
        <3>1. Nodes(n, d) = Nodes(n, c)
            BY <1>2, <2>9, NodesReversed
        <3> QED
            BY <1>2, <2>2, <2>8, <2>9, <3>1, InvHoldsNext
    <2>11. /\ Content' \in [1 .. n -> Datum]
           /\ Backwards(Content', n, Content)
        <3>1. /\ Content' \in [1 .. n -> Datum]
              /\ \A i \in 1 .. n : Content'[i] = data'[d[i]]
            BY <1>2, <2>8, <2>9, ListThen
        <3>2. ASSUME NEW i \in 1 .. n PROVE Content'[i] = Content[(n - i) + 1]
            <4>1. (n - i) + 1 \in 1 .. n /\ d[i] = c[(n - i) + 1]
                BY <1>2, <2>9 DEF Backwards
            <4> QED
                BY <1>3, <2>2, <3>1, <4>1
        <3> QED
            BY <3>1, <3>2 DEF Backwards
    <2>12. Reverse(Content) = Content'
        <3>1. Content \in Seq(Datum) /\ n \in 0 .. n
            BY <1>2, <1>3, FunctionIsSeq
        <3>2. Reverse(SubSeq(Content, 1, n)) = Content'
            BY <1>2, <1>3, <2>11, <3>1, ReversedData
        <3> QED
            BY <1>3, <3>1, <3>2, Whole
    <2>13. Effect
        BY <1>0, <2>12 DEF Effect, NoEffect
    <2> QED
        BY <1>0, <2>10, <2>13 DEF Good, Says, Keeps
<1> QED
    BY <1>2, <1>4, <1>5

\* There is memory for no copy, for some or for all.
LEMMA CopiedSome ==
    ASSUME ApiInv, NEW n \in Nat \ {0}
    PROVE  Copied(n) \in 1 .. n
<1>1. Cardinality(Node \ heap) \in Nat
    BY ApiAssumption, FS_Difference, FS_CardinalityType
<1> DEFINE q == 1 + Cardinality(Node \ heap)
<1>2. q \in Nat \ {0}
    BY <1>1
<1> HIDE DEF q
<1>3. \E x \in {n, q} : \A y \in {n, q} : x <= y
    <2>1. CASE n <= q
        BY <1>2, <2>1
    <2>2. CASE q <= n
        BY <1>2, <2>2
    <2> QED
        BY <1>2, <2>1, <2>2
<1>4. Min({n, q}) \in {n, q} /\ \A y \in {n, q} : Min({n, q}) <= y
    BY <1>3 DEF Min
<1>5. Min({n, q}) \in 1 .. n
    BY <1>2, <1>4
<1> QED
    BY <1>5 DEF Copied, q

LEMMA Order1Step ==
    ASSUME ApiInv, Order_1
    PROVE  Good
<1> USE ApiAssumption, SizeType
<1>0. TypeOK /\ op'.name = "order1"
    BY DEF ApiInv, Order_1, Called
<1>1. PICK n, c : Holds(n, c)
    BY InvHolds
<1>2. /\ n \in 0 .. Size /\ n \in Nat /\ c \in [1 .. n -> Node] /\ Chain(next, n, c)
      /\ Nodes(n, c) \subseteq heap /\ heap \subseteq Node /\ next \in Pointers
    BY <1>0, <1>1 DEF Holds, TypeOK, Pointers
<1>3. /\ Linklist_Length = n /\ Len(Content) = n
      /\ \A i \in 0 .. n : At[i] = Link(c, i)
      /\ Content \in [1 .. n -> Datum] /\ \A i \in 1 .. n : Content[i] = data[c[i]]
    BY <1>0, <1>1, ListNow
<1>4. CASE n < 2
    BY <1>3, <1>4, UndefinedStep DEF Order_1, Undefined
<1>5. CASE ~ (n < 2)
    <2>0. PICK m : m = Copied(n) /\ m \in 1 .. n
        BY <1>2, <1>5, CopiedSome
    <2>1. \A i \in 1 .. n : At[i] = c[i]
        BY <1>3 DEF Link
    <2>2. PICK new \in [1 .. m -> Node] :
            /\ new[1] = At[1] /\ \A i \in 2 .. m : new[i] \notin heap
            /\ IsInjective(new)
            /\ next' = [a \in DOMAIN next |->
                  IF a = HEAD THEN new[m]
                  ELSE IF a = At[1] THEN NULL
                  ELSE IF a \in {new[i] : i \in 2 .. m}
                  THEN new[(CHOOSE i \in 2 .. m : new[i] = a) - 1] ELSE next[a]]
            /\ data' = [a \in DOMAIN data |->
                  IF a \in {new[i] : i \in 2 .. m}
                  THEN data[At[CHOOSE i \in 2 .. m : new[i] = a]] ELSE data[a]]
            /\ heap' = heap \cup {new[i] : i \in 2 .. m}
            /\ Lose /\ UNCHANGED <<tail, bad>>
        <3>1. ~ (Linklist_Length < 2) /\ Copied(Linklist_Length) = m
            BY <1>3, <1>5, <2>0
        <3> QED
            BY <3>1, SMT DEF Order_1
    <2>3. \A i, j \in 1 .. m : new[i] = new[j] => i = j
        BY <2>2 DEF IsInjective
    <2>4. /\ DOMAIN next = Node \cup {HEAD} /\ DOMAIN data = Node \cup {HEAD}
          /\ data \in [Node \cup {HEAD} -> Datum]
        BY <1>0, <1>2 DEF Pointers, TypeOK
    <2>5. /\ new[1] = c[1] /\ c[1] \in heap /\ 1 \in 1 .. m /\ m \in 1 .. m
          /\ \A i \in 1 .. m : new[i] \in Node /\ new[i] # HEAD
        BY <1>2, <1>5, <2>0, <2>1, <2>2 DEF Nodes
    <2>6. next'[HEAD] = new[m]
        BY <2>2, <2>4
    <2>7. next'[new[1]] = NULL
        BY <2>1, <2>2, <2>4, <2>5
    <2>8. ASSUME NEW i \in 2 .. m
          PROVE  /\ (CHOOSE j \in 2 .. m : new[j] = new[i]) = i
                 /\ next'[new[i]] = new[i - 1]
                 /\ data'[new[i]] = data[c[i]]
        <3>1. /\ i \in 1 .. m /\ i - 1 \in 1 .. m /\ i # 1 /\ i \in 1 .. n
              /\ new[i] \in Node /\ new[i] # HEAD /\ new[i] # new[1]
              /\ new[i] \in {new[j] : j \in 2 .. m}
            <4>1. /\ i \in 1 .. m /\ i - 1 \in 1 .. m /\ i # 1 /\ i \in 1 .. n
                BY <1>2, <2>0
            <4> QED
                BY <2>3, <2>5, <4>1
        <3>2. \A j \in 2 .. m : new[j] = new[i] <=> j = i
            BY <2>0, <2>3
        <3>3. (CHOOSE j \in 2 .. m : new[j] = new[i]) = i
            BY <3>2
        <3>4. next'[new[i]] = new[(CHOOSE j \in 2 .. m : new[j] = new[i]) - 1]
            BY <2>2, <2>4, <3>1
        <3>5. data'[new[i]] = data[At[CHOOSE j \in 2 .. m : new[j] = new[i]]]
            BY <2>2, <2>4, <3>1
        <3> QED
            BY <2>1, <3>1, <3>3, <3>4, <3>5
    <2>9. ASSUME NEW a \in Node \cup {HEAD}
          PROVE  next'[a] \in Node \cup {NULL} /\ data'[a] \in Datum
        <3>1. CASE \E i \in 2 .. m : a = new[i]
            <4>1. PICK i \in 2 .. m : a = new[i]
                BY <3>1
            <4>2. i - 1 \in 1 .. m /\ i \in 1 .. n
                BY <1>2, <2>0, <4>1
            <4>3. new[i - 1] \in Node /\ c[i] \in Node
                BY <1>2, <4>2
            <4> QED
                BY <2>4, <2>8, <4>1, <4>3
        <3>2. CASE ~ \E i \in 2 .. m : a = new[i]
            <4>1. a \notin {new[i] : i \in 2 .. m}
                BY <3>2
            <4>2. data'[a] = data[a]
                BY <2>2, <2>4, <4>1
            <4>3. next'[a] = new[m] \/ next'[a] = NULL \/ next'[a] = next[a]
                BY <2>2, <2>4, <4>1
            <4>4. next[a] \in Node \cup {NULL} /\ data[a] \in Datum /\ new[m] \in Node
                BY <1>2, <2>4, <2>5 DEF Pointers
            <4> QED
                BY <4>2, <4>3, <4>4
        <3> QED
            BY <3>1, <3>2
    <2>10. TypeOK'
        <3>1. next' = [a \in Node \cup {HEAD} |-> next'[a]]
            BY <2>2, <2>4
        <3>2. data' = [a \in Node \cup {HEAD} |-> data'[a]]
            BY <2>2, <2>4
        <3>3. next' \in [Node \cup {HEAD} -> Node \cup {NULL}]
            BY <2>9, <3>1
        <3>4. data' \in [Node \cup {HEAD} -> Datum]
            BY <2>9, <3>2
        <3>5. heap' \in SUBSET Node
            BY <1>2, <2>2, <2>5
        <3>6. leaked' \in SUBSET Node
            BY <2>2, <3>5 DEF Lose
        <3> QED
            BY <1>0, <2>2, <3>3, <3>4, <3>5, <3>6 DEF TypeOK
    <2>11. PICK d \in [1 .. m -> Node] :
            IsInjective(d) /\ Chain(next', m, d) /\ Backwards(d, m, new)
        <3>1. Turned(next', m, new) /\ m \in Nat \ {0}
            BY <2>0, <2>6, <2>7, <2>8 DEF Turned
        <3> QED
            BY <2>2, <3>1, ChainReversed
    <2>12. m \in 0 .. Size /\ m \in 0 .. n /\ m \in Nat
        BY <1>2, <2>0
    <2>13. ApiInv'
        <3>1. Nodes(m, d) = Nodes(m, new)
            BY <2>11, <2>12, NodesReversed
        <3>2. Nodes(m, new) \subseteq heap'
            <4>1. ASSUME NEW i \in 1 .. m PROVE new[i] \in heap'
                <5>1. i = 1 \/ i \in 2 .. m
                    BY <2>12
                <5> QED
                    BY <2>2, <2>5, <5>1
            <4> QED
                BY <4>1 DEF Nodes
        <3>3. Reachable' = Nodes(m, d)
            BY <2>10, <2>11, <2>12, ListThen
        <3>4. leaked' = heap' \ Nodes(m, d)
            BY <2>2, <3>3 DEF Lose, Reachable
        <3> QED
            BY <2>10, <2>11, <2>12, <3>1, <3>2, <3>4, InvHoldsNext
    <2>14. \A i \in 1 .. m : data'[new[i]] = data[c[i]]
        <3> TAKE i \in 1 .. m
        <3>1. CASE i = 1
            <4>1. new[1] \notin {new[j] : j \in 2 .. m}
                BY <2>2, <2>5
            <4>2. data'[new[1]] = data[new[1]]
                BY <2>2, <2>4, <2>5, <4>1
            <4> QED
                BY <2>5, <3>1, <4>2
        <3>2. CASE i # 1
            <4>1. i \in 2 .. m
                BY <2>12, <3>2
            <4> QED
                BY <2>8, <4>1
        <3> QED
            BY <3>1, <3>2
    <2>15. Content' \in [1 .. m -> Datum] /\ Backwards(Content', m, Content)
        <3>1. /\ Content' \in [1 .. m -> Datum]
              /\ \A i \in 1 .. m : Content'[i] = data'[d[i]]
            BY <2>10, <2>11, <2>12, ListThen
        <3>2. ASSUME NEW i \in 1 .. m PROVE Content'[i] = Content[(m - i) + 1]
            <4>1. (m - i) + 1 \in 1 .. m /\ (m - i) + 1 \in 1 .. n
                BY <1>2, <2>12
            <4>2. d[i] = new[(m - i) + 1]
                BY <2>11 DEF Backwards
            <4> QED
                BY <1>3, <2>14, <3>1, <4>1, <4>2
        <3> QED
            BY <3>1, <3>2 DEF Backwards
    <2>16. Reverse(SubSeq(Content, 1, m)) = Content'
        <3>1. Content \in Seq(Datum)
            BY <1>2, <1>3, FunctionIsSeq
        <3> QED
            BY <1>2, <1>3, <2>12, <2>15, <3>1, ReversedData
    <2>17. Effect
        BY <1>0, <1>3, <2>0, <2>16 DEF Effect, NoEffect
    <2> QED
        BY <1>0, <2>13, <2>17 DEF Good, Says, Keeps
<1> QED
    BY <1>2, <1>4, <1>5

-----------------------------------------------------------------------------
(* The list at every step.                                                  *)

LEMMA InitApi == Init => ApiInv
<1> SUFFICES ASSUME Init PROVE ApiInv
    OBVIOUS
<1> USE ApiAssumption, SizeType DEF Init
<1>1. TypeOK
    <2>1. (CHOOSE d \in Datum : TRUE) \in Datum
        OBVIOUS
    <2> QED
        BY <2>1 DEF TypeOK
<1>2. PICK c \in [1 .. 0 -> Node] : TRUE
    <2>1. [i \in 1 .. 0 |-> HEAD] \in [1 .. 0 -> Node]
        OBVIOUS
    <2> QED
        BY <2>1
<1>3. Chain(next, 0, c) /\ Nodes(0, c) = {}
    BY DEF Chain, Link, Nodes
<1>4. Holds(0, c)
    BY <1>3 DEF Holds
<1> QED
    BY <1>1, <1>4, InvHolds

LEMMA CallGood == ApiInv /\ Next => Good
<1> SUFFICES ASSUME ApiInv, Next PROVE Good
    OBVIOUS
<1>1. CASE \E d \in Datum :
            \/ Insert(d) \/ Insert_Head(d) \/ Delete_Data(d) \/ Change_Data(d)
            \/ \E i \in Positions : Insert_Pos(i, d)
    BY <1>1, InsertStep, InsertHeadStep, DeleteDataStep, ChangeDataStep, InsertPosStep
<1>2. CASE \E i \in Positions : Delete_Pos(i) \/ Find_Pos(i)
    BY <1>2, DeletePosStep, FindPosStep
<1>3. CASE Pop \/ Setnull \/ Free \/ Order \/ Order_1 \/ Order_2
    BY <1>3, PopStep, SetnullStep, FreeStep, OrderStep, Order1Step, Order2Step
<1>4. CASE Stop
    <2>1. bad' \in BOOLEAN
        BY <1>4 DEF ApiInv, TypeOK, Stop, vars
    <2>2. ApiInv'
        BY <1>4, <2>1, NothingStep DEF Stop, vars
    <2> QED
        BY <1>4, <2>2 DEF Good, Says, Keeps, Stop, vars
<1> QED
    BY <1>1, <1>2, <1>3, <1>4 DEF Next

LEMMA InvStep == ApiInv /\ [Next]_vars => ApiInv'
<1> SUFFICES ASSUME ApiInv, [Next]_vars PROVE ApiInv'
    OBVIOUS
<1>1. CASE Next
    BY <1>1, CallGood DEF Good
<1>2. CASE UNCHANGED vars
    <2>1. bad' \in BOOLEAN
        BY <1>2 DEF ApiInv, TypeOK, vars
    <2> QED
        BY <1>2, <2>1, NothingStep DEF vars
<1> QED
    BY <1>1, <1>2

\* After any calls at all the nodes that are allocated are those of the list, one
\* after the other from the header, and those that were lost (linklist.c:43-319).
THEOREM ListInvariant == Spec => []ApiInv
BY InitApi, InvStep, PTL DEF Spec

LEMMA InvShows == ApiInv => WellFormed
<1> SUFFICES ASSUME ApiInv PROVE WellFormed
    OBVIOUS
<1>1. TypeOK
    BY DEF ApiInv
<1>2. PICK n, c : Holds(n, c)
    BY InvHolds
<1>3. /\ n \in 0 .. Size /\ Chain(next, n, c)
      /\ Nodes(n, c) \cap leaked = {} /\ heap = Nodes(n, c) \cup leaked
    BY <1>2 DEF Holds
<1>4. Reachable = Nodes(n, c) /\ At[n] = Link(c, n)
    BY <1>1, <1>2, ListNow
<1>5. next[At[n]] = NULL
    BY <1>3, <1>4 DEF Chain
<1> QED
    BY <1>1, <1>3, <1>4, <1>5 DEF WellFormed, Size

\* The list ends, and no node that is allocated is neither in it nor among the lost
\* ones, whatever the memory and the data (linklist.c:55-319).
THEOREM ListStaysWellFormed == Spec => []WellFormed
BY ListInvariant, InvShows, PTL

\* Every operation does to the data, from the first to the last, what its comment
\* says; Linklist_Insert as long as list->tail is the last node (linklist.c:43-319).
THEOREM OperationsAsNamed == Spec => AsASequence
<1>1. ApiInv /\ [Next]_vars =>
        [~ bad' => Effect \/ (op'.name = "insert" /\ ~ TailIsLast)]_vars
    BY CallGood DEF Good, Says
<1> QED
    BY <1>1, ListInvariant, PTL DEF Spec, AsASequence

\* list->tail stays the last node but for the two reversals, an insertion by position
\* or at the head that comes to be the last, and a deletion of the last
\* (linklist.c:99-163, 283-319).
THEOREM TailLostByFour == Spec => TailLost
<1>1. ApiInv /\ [Next]_vars =>
        [ TailIsLast /\ ~ bad /\ ~ TailIsLast' =>
            \/ op'.name \in {"order1", "order2"}
            \/ op'.name = "insertHead" /\ Content = <<>>
            \/ op'.name = "insertPos" /\ op'.pos = Len(Content)
            \/ op'.name = "deletePos" /\ op'.pos = Len(Content) - 1 ]_vars
    BY CallGood DEF Good, Keeps
<1> QED
    BY <1>1, ListInvariant, PTL DEF Spec, TailLost

===============================================================================
