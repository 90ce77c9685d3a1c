------------------------------- MODULE RunMutex -------------------------------
(***************************************************************************)
(* The read-write lock of run_mutex.c: rw_mutex_rlock and rw_mutex_wlock    *)
(* try the lock, look at the clock, and sleep, until they have it or the    *)
(* timeout they were given is used up.                                      *)
(*                                                                         *)
(* Times are whole numbers of some unit.  The wall clock is the true time   *)
(* plus skew, which somebody may change at any moment.  What the clock says *)
(* passed between two tries is counted as it is only when it is neither     *)
(* negative nor more than ten intervals.                                    *)
(***************************************************************************)
EXTENDS Integers, FiniteSets

CONSTANTS
    NULL,
    Thread,
    Interval,       \* RW_WAIT_LOCK_INTERVAL: usleep takes at least this
    Far,            \* 10 intervals: 0.2 s
    Credit,         \* what an implausible time counts: 2 ms, a tenth of an interval
    Lapse,          \* the times that may pass between two tries
    Timeouts,       \* the timeouts asked for
    Skews,          \* how far the clock may be off
    MaxSet,         \* bound: how often it is set
    MaxCalls        \* bound: how many calls there are

ASSUME RunMutexAssumption ==
    /\ Interval \in Nat /\ Far \in Nat /\ Credit \in Nat
    /\ 0 < Credit /\ Credit <= Interval /\ Interval <= Far
    /\ Lapse \subseteq {t \in Nat : t >= Interval}
    /\ Timeouts \subseteq Nat
    /\ Skews \subseteq Int
    /\ MaxSet \in Nat /\ MaxCalls \in Nat
    /\ NULL \notin Thread

VARIABLES
    hm,             \* the HANDLE: "null" or "made"
    readers, writer,\* who holds hrwLock
    pc,             \* where each thread is
    left,           \* fWaitTimeout
    skew,           \* the wall clock minus the true time
    first,          \* the threads that have not looked at it since their call
    seen,           \* the skew when the thread last looked at the clock: tLast
    settings,       \* how often the clock has been set
    calls,          \* how many calls there have been
    asked,          \* history: dwWaitTimeout of the thread's last call
    waited,         \* history: the true time since that call, up to what was asked
    allowed         \* history: what the settings of the clock it saw may count

vars == <<hm, readers, writer, pc, left, first, skew, seen, settings, calls,
          asked, waited, allowed>>

Init ==
    /\ hm = "null"
    /\ readers = {} /\ writer = NULL
    /\ pc = [t \in Thread |-> "idle"]
    /\ left = [t \in Thread |-> 0]
    /\ first = {}
    /\ skew \in Skews /\ seen = [t \in Thread |-> skew]
    /\ settings = 0 /\ calls = 0
    /\ asked = [t \in Thread |-> 0]
    /\ waited = [t \in Thread |-> 0]
    /\ allowed = [t \in Thread |-> 0]

-----------------------------------------------------------------------------

\* rw_mutex_create; without memory, or when pthread_rwlock_init fails, there is no
\* lock.
Create ==
    /\ hm = "null"
    /\ hm' = "made"
    /\ UNCHANGED <<readers, writer, pc, left, first, skew, seen, settings, calls>>
    /\ UNCHANGED <<asked, waited, allowed>>

\* A call to rw_mutex_rlock or rw_mutex_wlock.
Call(t, how) ==
    /\ pc[t] \in {"idle", "timeout", "invalid"} /\ calls < MaxCalls
    /\ calls' = calls + 1
    /\ pc' = [pc EXCEPT ![t] = IF hm = "null" THEN "invalid" ELSE how]
    /\ \E d \in Timeouts :
          /\ left' = [left EXCEPT ![t] = d]
          /\ asked' = [asked EXCEPT ![t] = d]
    /\ first' = first \cup {t} /\ seen' = [seen EXCEPT ![t] = skew]
    /\ waited' = [waited EXCEPT ![t] = 0]
    /\ allowed' = [allowed EXCEPT ![t] = 0]
    /\ UNCHANGED <<hm, readers, writer, skew, settings>>

ReadFree == writer = NULL
WriteFree == writer = NULL /\ readers = {}

\* pthread_rwlock_tryrdlock and pthread_rwlock_trywrlock succeed: ERR_MUTEX_OK.
GetRead(t) ==
    /\ pc[t] = "rlock" /\ ReadFree
    /\ readers' = readers \cup {t}
    /\ pc' = [pc EXCEPT ![t] = "reading"]
    /\ UNCHANGED <<hm, writer, left, first, skew, seen, settings, calls>>
    /\ UNCHANGED <<asked, waited, allowed>>

\* A mutant of GetWrite: rw_mutex_wlock calls pthread_rwlock_tryrdlock, copied from
\* rw_mutex_rlock.
GetWriteShared(t) ==
    /\ pc[t] = "wlock" /\ ReadFree
    /\ readers' = readers \cup {t}
    /\ pc' = [pc EXCEPT ![t] = "writing"]
    /\ UNCHANGED <<hm, writer, left, first, skew, seen, settings, calls>>
    /\ UNCHANGED <<asked, waited, allowed>>

GetWrite(t) ==
    /\ pc[t] = "wlock" /\ WriteFree
    /\ writer' = t
    /\ pc' = [pc EXCEPT ![t] = "writing"]
    /\ UNCHANGED <<hm, readers, left, first, skew, seen, settings, calls>>
    /\ UNCHANGED <<asked, waited, allowed>>

\* A mutant of Counted: a clock that has been set is believed.
CountedAnyway(e) == IF e < 0 THEN Credit ELSE e

\* What a try counts as waited, when the clock says that e has passed.
Counted(e) == IF e > Far \/ e < 0 THEN Credit ELSE e

\* What a change of the clock may count beyond the time that has passed.
Allowance(change) == IF change > 0 THEN Far ELSE IF change < 0 THEN Credit ELSE 0

UpTo(most, n) == IF n > most THEN most ELSE n

\* The lock is taken: the clock, the timeout, and either usleep or
\* ERR_MUTEX_TIMEOUT.  The first look is right after the call, the others after
\* at least an interval.
TryFails(t) ==
    /\ \/ pc[t] = "rlock" /\ ~ ReadFree
       \/ pc[t] = "wlock" /\ ~ WriteFree
    /\ \E d \in (IF t \in first THEN {0} \cup Lapse ELSE Lapse) :
          /\ left' = [left EXCEPT ![t] = @ - Counted(d + skew - seen[t])]
          /\ waited' = [waited EXCEPT ![t] = UpTo(asked[t], @ + d)]
    /\ allowed' = [allowed EXCEPT ![t] = @ + Allowance(skew - seen[t])]
    /\ first' = first \ {t} /\ seen' = [seen EXCEPT ![t] = skew]
    /\ pc' = [pc EXCEPT ![t] = IF left'[t] <= 0 THEN "timeout" ELSE @]
    /\ UNCHANGED <<hm, readers, writer, skew, settings, calls, asked>>

\* A mutant of UnLock: only a writer gives the lock back.
UnLockWriter(t) ==
    /\ pc[t] \in {"reading", "writing"}
    /\ writer' = IF writer = t THEN NULL ELSE writer
    /\ pc' = [pc EXCEPT ![t] = "idle"]
    /\ UNCHANGED <<hm, readers, left, first, skew, seen, settings, calls>>
    /\ UNCHANGED <<asked, waited, allowed>>

\* rw_mutex_unLock, by a thread that has the lock.
UnLock(t) ==
    /\ pc[t] \in {"reading", "writing"}
    /\ readers' = readers \ {t}
    /\ writer' = IF writer = t THEN NULL ELSE writer
    /\ pc' = [pc EXCEPT ![t] = "idle"]
    /\ UNCHANGED <<hm, left, first, skew, seen, settings, calls>>
    /\ UNCHANGED <<asked, waited, allowed>>

\* The time is changed "to future or back".
SetClock ==
    /\ settings < MaxSet
    /\ settings' = settings + 1
    /\ skew' \in Skews
    /\ UNCHANGED <<hm, readers, writer, pc, left, first, seen, calls>>
    /\ UNCHANGED <<asked, waited, allowed>>

\* rw_mutex_destroy, as main does it: when no thread is inside.
Destroy ==
    /\ hm = "made"
    /\ \A t \in Thread : pc[t] \in {"idle", "timeout", "invalid"}
    /\ hm' = "null"
    /\ UNCHANGED <<readers, writer, pc, left, first, skew, seen, settings, calls>>
    /\ UNCHANGED <<asked, waited, allowed>>

\* A mutant of Polls: pthread_rwlock_rdlock and pthread_rwlock_wrlock, which wait.
PollsNever(t) == GetRead(t) \/ GetWrite(t)

Polls(t) == GetRead(t) \/ GetWrite(t) \/ TryFails(t)

Next ==
    \/ Create \/ Destroy \/ SetClock
    \/ \E t \in Thread :
          \/ Call(t, "rlock") \/ Call(t, "wlock")
          \/ Polls(t) \/ UnLock(t)

Spec == Init /\ [][Next]_vars

\* usleep comes back.  Those who hold the lock may keep it, as the threads of this
\* program do.
FairSpec == Spec /\ \A t \in Thread : WF_vars(Polls(t))

-----------------------------------------------------------------------------

TypeOK ==
    /\ hm \in {"null", "made"}
    /\ readers \in SUBSET Thread /\ writer \in Thread \cup {NULL}
    /\ pc \in [Thread -> {"idle", "rlock", "wlock", "reading", "writing",
                          "timeout", "invalid"}]
    /\ left \in [Thread -> Int]
    /\ first \in SUBSET Thread
    /\ skew \in Skews /\ seen \in [Thread -> Skews]
    /\ settings \in 0 .. MaxSet /\ calls \in 0 .. MaxCalls
    /\ asked \in [Thread -> Nat]
    /\ waited \in [Thread -> Nat]
    /\ allowed \in [Thread -> Nat]

\* A thread that believes it writes is alone, and the lock says so
\* (run_mutex.c:56, 116, 158).
Exclusion ==
    \A t, u \in Thread :
        pc[t] = "writing" /\ pc[u] \in {"reading", "writing"} => t = u

\* ERR_MUTEX_TIMEOUT never comes early, however the clock is set and however
\* long a try takes: the time asked for has passed, but for ten intervals for each
\* setting ahead and 2 ms for each setting back (run_mutex.c:61-83).
NotEarly ==
    \A t \in Thread : pc[t] = "timeout" => asked[t] <= waited[t] + allowed[t]

\* Every call returns, though the holder may keep the lock for ever, the clock may
\* have been set, and every try may take longer than the clock correction believes
\* (run_mutex.c:54-87).
EveryCallReturns ==
    \A t \in Thread : pc[t] \in {"rlock", "wlock"} ~> pc[t] \notin {"rlock", "wlock"}

\* The inductive invariant: who is where is what the lock says, and what has been
\* counted of the timeout has passed.
LockInv ==
    /\ TypeOK
    /\ readers = {t \in Thread : pc[t] = "reading"}
    /\ \A t \in Thread : pc[t] = "writing" <=> writer = t
    /\ writer # NULL => readers = {}
    /\ \A t \in Thread :
          pc[t] \in {"rlock", "wlock", "timeout"} =>
              \/ asked[t] - left[t] <= waited[t] + allowed[t]
              \/ asked[t] = waited[t]
    /\ \A t \in Thread : pc[t] = "timeout" => left[t] <= 0
===============================================================================
