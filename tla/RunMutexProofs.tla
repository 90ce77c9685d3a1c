----------------------------- MODULE RunMutexProofs -----------------------------
(***************************************************************************)
(* The polling lock excludes and never gives up early, for any number of    *)
(* threads, any timeouts, and any settings of the clock.                    *)
(***************************************************************************)
EXTENDS RunMutex, TLAPS

\* Who holds the lock is what the threads believe.
HeldBy ==
    /\ readers = {t \in Thread : pc[t] = "reading"}
    /\ \A t \in Thread : pc[t] = "writing" <=> writer = t
    /\ writer # NULL => readers = {}

\* What has been counted of the timeout has passed.
Paid ==
    /\ \A t \in Thread :
          pc[t] \in {"rlock", "wlock", "timeout"} =>
              \/ asked[t] - left[t] <= waited[t] + allowed[t]
              \/ asked[t] = waited[t]
    /\ \A t \in Thread : pc[t] = "timeout" => left[t] <= 0

LEMMA LockInvParts == LockInv <=> TypeOK /\ HeldBy /\ Paid
BY DEF LockInv, HeldBy, Paid

LEMMA LockInit == Init => LockInv
<1> USE RunMutexAssumption DEF RunMutexAssumption, Init
<1> SUFFICES ASSUME Init PROVE LockInv
    OBVIOUS
<1>1. TypeOK
    BY DEF TypeOK
<1>2. HeldBy /\ Paid
    BY DEF HeldBy, Paid
<1> QED
    BY <1>1, <1>2, LockInvParts

-----------------------------------------------------------------------------
(* The clock.                                                               *)

\* Whatever the clock says, a try counts no more than has passed and what the
\* setting of the clock is allowed to add.
LEMMA CountedPaid ==
    ASSUME NEW d \in Nat, NEW change \in Int
    PROVE  /\ Counted(d + change) \in Int
           /\ Allowance(change) \in Nat
           /\ Counted(d + change) <= d + Allowance(change)
<1> USE RunMutexAssumption DEF RunMutexAssumption, Counted, Allowance
<1>1. CASE change = 0
    BY <1>1
<1>2. CASE change > 0
    BY <1>2
<1>3. CASE change < 0
    BY <1>3
<1> QED
    BY <1>1, <1>2, <1>3

\* A try that fails.
LEMMA TryPaid ==
    ASSUME NEW t \in Thread, TypeOK, Paid, TryFails(t)
    PROVE  /\ left' \in [Thread -> Int] /\ waited' \in [Thread -> Nat]
           /\ allowed' \in [Thread -> Nat]
           /\ \/ asked[t] - left'[t] <= waited'[t] + allowed'[t]
              \/ asked[t] = waited'[t]
           /\ \A u \in Thread \ {t} : /\ left'[u] = left[u] /\ waited'[u] = waited[u]
                                      /\ allowed'[u] = allowed[u]
<1> USE RunMutexAssumption DEF RunMutexAssumption
<1>0. /\ left \in [Thread -> Int] /\ waited \in [Thread -> Nat]
      /\ allowed \in [Thread -> Nat] /\ asked \in [Thread -> Nat]
      /\ skew \in Int /\ seen[t] \in Int
    BY DEF TypeOK
<1>1. PICK d \in Nat :
        /\ left' = [left EXCEPT ![t] = @ - Counted(d + skew - seen[t])]
        /\ waited' = [waited EXCEPT ![t] = UpTo(asked[t], @ + d)]
    BY DEF TryFails
<1>2. allowed' = [allowed EXCEPT ![t] = @ + Allowance(skew - seen[t])]
    BY DEF TryFails
<1> DEFINE change == skew - seen[t]
           count == Counted(d + change)
           more == Allowance(change)
<1>3. count \in Int /\ more \in Nat /\ count <= d + more
    <2>1. change \in Int
        BY <1>0
    <2> HIDE DEF change
    <2> QED
        BY <2>1, CountedPaid
<1>4. d + skew - seen[t] = d + change
    BY <1>0
<1>5. /\ left'[t] = left[t] - count
      /\ allowed'[t] = allowed[t] + more
      /\ waited'[t] = UpTo(asked[t], waited[t] + d)
    BY <1>0, <1>1, <1>2, <1>4
<1>6. \/ asked[t] - left[t] <= waited[t] + allowed[t]
      \/ asked[t] = waited[t]
    BY DEF TryFails, Paid
<1> HIDE DEF count, more, change
<1>7. /\ left'[t] \in Int /\ allowed'[t] \in Nat /\ waited'[t] \in Nat
      /\ asked[t] - left'[t] <= waited'[t] + allowed'[t] \/ asked[t] = waited'[t]
    BY <1>0, <1>3, <1>5, <1>6 DEF UpTo
<1>8. \A u \in Thread \ {t} : /\ left'[u] = left[u] /\ waited'[u] = waited[u]
                              /\ allowed'[u] = allowed[u]
    BY <1>0, <1>1, <1>2
<1>9. /\ left' \in [Thread -> Int] /\ waited' \in [Thread -> Nat]
      /\ allowed' \in [Thread -> Nat]
    BY <1>0, <1>1, <1>2, <1>7, <1>8
<1> QED
    BY <1>7, <1>8, <1>9

-----------------------------------------------------------------------------
(* The steps.                                                               *)

LEMMA CallStep ==
    ASSUME LockInv, NEW t \in Thread, NEW how \in {"rlock", "wlock"}, Call(t, how)
    PROVE  LockInv'
<1> USE RunMutexAssumption DEF RunMutexAssumption
<1>0. TypeOK /\ HeldBy /\ Paid
    BY LockInvParts
<1>1. /\ pc' = [pc EXCEPT ![t] = IF hm = "null" THEN "invalid" ELSE how]
      /\ pc[t] \in {"idle", "timeout", "invalid"}
      /\ waited' = [waited EXCEPT ![t] = 0] /\ allowed' = [allowed EXCEPT ![t] = 0]
      /\ first' = first \cup {t} /\ seen' = [seen EXCEPT ![t] = skew]
      /\ UNCHANGED <<hm, readers, writer, skew, settings>>
    BY DEF Call
<1>2. PICK d \in Timeouts : /\ left' = [left EXCEPT ![t] = d]
                            /\ asked' = [asked EXCEPT ![t] = d]
    BY DEF Call
<1>3. calls' \in 0 .. MaxCalls
    BY <1>0 DEF Call, TypeOK
<1>4. TypeOK'
    BY <1>0, <1>1, <1>2, <1>3 DEF TypeOK
<1>5. HeldBy'
    <2>1. \A u \in Thread : /\ pc'[u] = "reading" <=> pc[u] = "reading"
                            /\ pc'[u] = "writing" <=> pc[u] = "writing"
        BY <1>0, <1>1 DEF TypeOK
    <2> QED
        BY <1>0, <1>1, <2>1 DEF HeldBy
<1>6. Paid'
    BY <1>0, <1>1, <1>2 DEF TypeOK, Paid
<1> QED
    BY <1>4, <1>5, <1>6 DEF LockInv, HeldBy, Paid

LEMMA HoldStep ==
    ASSUME LockInv, NEW t \in Thread, GetRead(t) \/ GetWrite(t) \/ UnLock(t)
    PROVE  LockInv'
<1> USE RunMutexAssumption DEF RunMutexAssumption
<1>0. TypeOK /\ HeldBy /\ Paid
    BY LockInvParts
<1>1. UNCHANGED <<hm, left, first, skew, seen, settings, calls, asked, waited, allowed>>
    BY DEF GetRead, GetWrite, UnLock
<1>2. \A u \in Thread \ {t} : pc'[u] = pc[u]
    BY <1>0 DEF GetRead, GetWrite, UnLock, TypeOK
<1>3. pc'[t] \in {"reading", "writing", "idle"}
    BY <1>0 DEF GetRead, GetWrite, UnLock, TypeOK
<1>4. TypeOK'
    BY <1>0, <1>1 DEF GetRead, GetWrite, UnLock, TypeOK
<1>5. Paid'
    BY <1>0, <1>1, <1>2, <1>3 DEF Paid
<1>6. HeldBy'
    <2>1. CASE GetRead(t)
        <3>1. /\ readers' = readers \cup {t} /\ writer = NULL /\ writer' = writer
              /\ pc'[t] = "reading" /\ pc[t] = "rlock"
            BY <1>0, <2>1 DEF GetRead, ReadFree, TypeOK
        <3> QED
            BY <1>0, <1>2, <3>1 DEF HeldBy
    <2>2. CASE GetWrite(t)
        <3>1. /\ readers' = readers /\ readers = {} /\ writer = NULL /\ writer' = t
              /\ pc'[t] = "writing" /\ pc[t] = "wlock"
            BY <1>0, <2>2 DEF GetWrite, WriteFree, TypeOK
        <3> QED
            BY <1>0, <1>2, <3>1 DEF HeldBy
    <2>3. CASE UnLock(t)
        <3>1. /\ readers' = readers \ {t}
              /\ writer' = IF writer = t THEN NULL ELSE writer
              /\ pc'[t] = "idle" /\ pc[t] \in {"reading", "writing"}
            BY <1>0, <2>3 DEF UnLock, TypeOK
        <3> QED
            BY <1>0, <1>2, <3>1 DEF HeldBy
    <2> QED
        BY <2>1, <2>2, <2>3
<1> QED
    BY <1>4, <1>5, <1>6 DEF LockInv, HeldBy, Paid

LEMMA TryStep ==
    ASSUME LockInv, NEW t \in Thread, TryFails(t)
    PROVE  LockInv'
<1> USE RunMutexAssumption DEF RunMutexAssumption
<1>0. TypeOK /\ HeldBy /\ Paid
    BY LockInvParts
<1>1. /\ pc' = [pc EXCEPT ![t] = IF left'[t] <= 0 THEN "timeout" ELSE @]
      /\ pc[t] \in {"rlock", "wlock"}
      /\ first' = first \ {t} /\ seen' = [seen EXCEPT ![t] = skew]
      /\ UNCHANGED <<hm, readers, writer, skew, settings, calls, asked>>
    BY DEF TryFails
<1>2. /\ left' \in [Thread -> Int] /\ waited' \in [Thread -> Nat]
      /\ allowed' \in [Thread -> Nat]
      /\ \/ asked[t] - left'[t] <= waited'[t] + allowed'[t]
         \/ asked[t] = waited'[t]
      /\ \A u \in Thread \ {t} : /\ left'[u] = left[u] /\ waited'[u] = waited[u]
                                 /\ allowed'[u] = allowed[u]
    BY <1>0, TryPaid
<1>3. TypeOK'
    BY <1>0, <1>1, <1>2 DEF TypeOK
<1>4. /\ \A u \in Thread \ {t} : pc'[u] = pc[u]
      /\ pc'[t] \in {"rlock", "wlock", "timeout"}
      /\ pc'[t] = "timeout" => left'[t] <= 0
    BY <1>0, <1>1 DEF TypeOK
<1>5. HeldBy'
    BY <1>0, <1>1, <1>4 DEF HeldBy
<1>6. Paid'
    BY <1>0, <1>1, <1>2, <1>4 DEF Paid
<1> QED
    BY <1>3, <1>5, <1>6 DEF LockInv, HeldBy, Paid

LEMMA LockStep == ASSUME LockInv, [Next]_vars PROVE LockInv'
<1> USE RunMutexAssumption DEF RunMutexAssumption
<1>0. TypeOK /\ HeldBy /\ Paid
    BY LockInvParts
<1>1. CASE Create \/ Destroy \/ SetClock \/ UNCHANGED vars
    <2>1. UNCHANGED <<readers, writer, pc, left, first, seen, calls, asked, waited, allowed>>
        BY <1>1 DEF Create, Destroy, SetClock, vars
    <2>2. hm' \in {"null", "made"} /\ skew' \in Skews /\ settings' \in 0 .. MaxSet
        BY <1>0, <1>1 DEF Create, Destroy, SetClock, vars, TypeOK
    <2>3. TypeOK'
        BY <1>0, <2>1, <2>2 DEF TypeOK
    <2>4. HeldBy' /\ Paid'
        BY <1>0, <2>1 DEF HeldBy, Paid
    <2> QED
        BY <2>3, <2>4 DEF LockInv, HeldBy, Paid
<1>2. ASSUME NEW t \in Thread,
             Call(t, "rlock") \/ Call(t, "wlock") \/ Polls(t) \/ UnLock(t)
      PROVE  LockInv'
    BY <1>2, CallStep, HoldStep, TryStep DEF Polls
<1> QED
    BY <1>1, <1>2 DEF Next

-----------------------------------------------------------------------------

\* The inductive invariant of the lock (run_mutex.c:37-162).
THEOREM LockInvariant == Spec => []LockInv
<1>1. LockInv /\ [Next]_vars => LockInv'
    BY LockStep
<1> QED
    BY <1>1, LockInit, PTL DEF Spec

\* A thread that believes it writes is alone (run_mutex.c:56, 117).
THEOREM MutualExclusion == Spec => []Exclusion
<1>1. LockInv => Exclusion
    <2> SUFFICES ASSUME LockInv, NEW t \in Thread, NEW u \in Thread,
                        pc[t] = "writing", pc[u] \in {"reading", "writing"}
                 PROVE  t = u
        BY DEF Exclusion
    <2>1. writer = t /\ readers = {}
        BY RunMutexAssumption DEF RunMutexAssumption, LockInv
    <2> QED
        BY <2>1 DEF LockInv
<1> QED
    BY <1>1, LockInvariant, PTL

\* ERR_MUTEX_TIMEOUT never comes before the time asked for, but for what the
\* settings of the clock may count (run_mutex.c:61-83).
THEOREM TimeoutNotEarly == Spec => []NotEarly
<1>1. LockInv => NotEarly
    <2> SUFFICES ASSUME LockInv, NEW t \in Thread, pc[t] = "timeout"
                 PROVE  asked[t] <= waited[t] + allowed[t]
        BY DEF NotEarly
    <2>1. /\ asked[t] \in Nat /\ waited[t] \in Nat /\ allowed[t] \in Nat
          /\ left[t] \in Int /\ left[t] <= 0
        BY DEF LockInv, TypeOK
    <2>2. asked[t] - left[t] <= waited[t] + allowed[t] \/ asked[t] = waited[t]
        BY DEF LockInv
    <2> QED
        BY <2>1, <2>2
<1> QED
    BY <1>1, LockInvariant, PTL

===============================================================================
