---------------------------- MODULE ReadWriteLock ----------------------------
(***************************************************************************)
(* _ReadWriteLock (auth/authorizer.py:75-107): a readers-writer lock that  *)
(* prefers writers, built on one condition variable.  What a method does   *)
(* between taking the condition's mutex and releasing it, or waiting, is   *)
(* one step.  A thread in waitSet sleeps in Condition.wait; notify_all     *)
(* empties the set, and each thread woken tests its condition again.       *)
(***************************************************************************)
EXTENDS Naturals, FiniteSets

CONSTANT Threads    \* the request threads that share the lock

ASSUME ThreadsAssumption == IsFiniteSet(Threads)

VARIABLES
    readers,            \* _readers
    writer,             \* _writer
    waiting_writers,    \* _waiting_writers
    waitSet,            \* threads asleep on _condition
    lk                  \* what each thread is doing with the lock

lockVars == <<readers, writer, waiting_writers, waitSet, lk>>

LockStates == {"idle", "wantRead", "reading", "wantWrite", "writing"}

In(state) == {t \in Threads : lk[t] = state}

LockInit ==
    /\ readers = 0
    /\ writer = FALSE
    /\ waiting_writers = 0
    /\ waitSet = {}
    /\ lk = [t \in Threads |-> "idle"]

NotifyAll == waitSet' = {}

ReadBlockedByWriterOnly == writer

ReadBlocked == writer \/ waiting_writers > 0

WriteBlockedByReadersOnly == readers > 0

WriteBlocked == writer \/ readers > 0

TestReadThenSleep(t, blocked) ==
    \/ /\ blocked
       /\ waitSet' = waitSet \cup {t}
       /\ lk' = [lk EXCEPT ![t] = "wantRead"]
       /\ UNCHANGED readers
    \/ /\ ~blocked
       /\ readers' = readers + 1
       /\ lk' = [lk EXCEPT ![t] = "reading"]
       /\ UNCHANGED waitSet

(* acquire_read, up to the wait or to the end.                             *)
AcquireRead(t) ==
    /\ lk[t] = "idle"
    /\ TestReadThenSleep(t, ReadBlocked)
    /\ UNCHANGED <<writer, waiting_writers>>

(* A woken reader takes another turn of the while loop.                    *)
RetryRead(t) ==
    /\ lk[t] = "wantRead"
    /\ t \notin waitSet
    /\ TestReadThenSleep(t, ReadBlocked)
    /\ UNCHANGED <<writer, waiting_writers>>

ReleaseReadSilently(t) ==
    /\ lk[t] = "reading"
    /\ readers' = readers - 1
    /\ lk' = [lk EXCEPT ![t] = "idle"]
    /\ UNCHANGED <<writer, waiting_writers, waitSet>>

ReleaseRead(t) ==
    /\ lk[t] = "reading"
    /\ readers' = readers - 1
    /\ IF readers = 1 THEN NotifyAll ELSE UNCHANGED waitSet
    /\ lk' = [lk EXCEPT ![t] = "idle"]
    /\ UNCHANGED <<writer, waiting_writers>>

(* acquire_write registers the thread as waiting before its first test;    *)
(* its finally clause takes the registration back once it has the lock.    *)
AcquireWrite(t) ==
    /\ lk[t] = "idle"
    /\ \/ /\ WriteBlocked
          /\ waiting_writers' = waiting_writers + 1
          /\ waitSet' = waitSet \cup {t}
          /\ lk' = [lk EXCEPT ![t] = "wantWrite"]
          /\ UNCHANGED writer
       \/ /\ ~WriteBlocked
          /\ writer' = TRUE
          /\ lk' = [lk EXCEPT ![t] = "writing"]
          /\ UNCHANGED <<waiting_writers, waitSet>>
    /\ UNCHANGED readers

RetryWrite(t) ==
    /\ lk[t] = "wantWrite"
    /\ t \notin waitSet
    /\ \/ /\ WriteBlocked
          /\ waitSet' = waitSet \cup {t}
          /\ UNCHANGED <<writer, waiting_writers, lk>>
       \/ /\ ~WriteBlocked
          /\ writer' = TRUE
          /\ waiting_writers' = waiting_writers - 1
          /\ lk' = [lk EXCEPT ![t] = "writing"]
          /\ UNCHANGED waitSet
    /\ UNCHANGED readers

ReleaseWriteSilently(t) ==
    /\ lk[t] = "writing"
    /\ writer' = FALSE
    /\ lk' = [lk EXCEPT ![t] = "idle"]
    /\ UNCHANGED <<readers, waiting_writers, waitSet>>

ReleaseWrite(t) ==
    /\ lk[t] = "writing"
    /\ writer' = FALSE
    /\ NotifyAll
    /\ lk' = [lk EXCEPT ![t] = "idle"]
    /\ UNCHANGED <<readers, waiting_writers>>

LockStep(t) ==
    \/ AcquireRead(t) \/ RetryRead(t) \/ ReleaseRead(t)
    \/ AcquireWrite(t) \/ RetryWrite(t) \/ ReleaseWrite(t)

LockNext == \E t \in Threads : LockStep(t)

LockSpec == LockInit /\ [][LockNext]_lockVars

(* A thread that holds the lock releases it, and a woken thread runs.      *)
(* Nothing is assumed of which woken or arriving thread runs first.        *)
LockFairness ==
    \A t \in Threads :
        /\ WF_lockVars(RetryRead(t))
        /\ WF_lockVars(RetryWrite(t))
        /\ WF_lockVars(ReleaseRead(t))
        /\ WF_lockVars(ReleaseWrite(t))

FairLockSpec == LockSpec /\ LockFairness

-----------------------------------------------------------------------------
(* Counters are never negative; only a thread that wants the lock sleeps.  *)
LockTypeOK ==
    /\ readers \in Nat
    /\ writer \in BOOLEAN
    /\ waiting_writers \in Nat
    /\ lk \in [Threads -> LockStates]
    /\ waitSet \subseteq In("wantRead") \cup In("wantWrite")

(* The counters and the flag, which are all that the guards look at, always*)
(* agree with what the threads are doing.                                  *)
CountersCount ==
    /\ readers = Cardinality(In("reading"))
    /\ waiting_writers = Cardinality(In("wantWrite"))
    /\ writer <=> In("writing") # {}

(* A writer is alone: nobody else reads or writes while it does.           *)
MutualExclusion ==
    \A t \in In("writing") :
        \A u \in Threads \ {t} : lk[u] \notin {"reading", "writing"}

(* No wake-up is lost: a thread is asleep only while what it waits for is  *)
(* still the case.  release_read may stay silent until the last reader     *)
(* leaves, and acquire_write need not notify at all.                       *)
NoLostWakeup ==
    \A t \in waitSet :
        \/ lk[t] = "wantRead" /\ ReadBlocked
        \/ lk[t] = "wantWrite" /\ WriteBlocked

(* While a writer waits no new reader gets in, however long readers keep   *)
(* coming.                                                                 *)
WritersAreNotOvertaken ==
    [][In("wantWrite") # {} => In("reading")' \subseteq In("reading")]_lockVars

(* A stream of readers cannot keep all writers out.                        *)
SomeWriterGetsIn == In("wantWrite") # {} ~> In("writing") # {}

(* A reader that waits is let in, unless it is held up by writers.         *)
ReaderWaitsOnlyForWriters ==
    \A t \in Threads :
        lk[t] = "wantRead" ~> lk[t] = "reading" \/ In("writing") # {}

(* Nobody starves: readers cannot keep all writers out, and only writers   *)
(* keep a reader out.                                                      *)
NoStarvation == SomeWriterGetsIn /\ ReaderWaitsOnlyForWriters

=============================================================================
