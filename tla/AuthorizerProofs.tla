-------------------------- MODULE AuthorizerProofs --------------------------
(***************************************************************************)
(* First the lock, for every finite set of threads: its counters are right,*)
(* a writer is alone, and no thread sleeps on.  Then the cache of answers: *)
(* get and set of _ExpiringCache use the lock correctly, for any threads,  *)
(* keys, TTL and capacity, so what is proved of the lock holds of them.    *)
(* Because a writer is alone, the table is in order whenever a thread      *)
(* looks at it, and a cached answer of is_allowed is out of date for no    *)
(* longer than the TTL and the review it came from.                        *)
(***************************************************************************)
EXTENDS Authorizer, FiniteSetTheorems, TLAPS

(***************************************************************************)
(* MutualExclusion is not inductive: the guards read the counters, so the  *)
(* invariant says that each counts the threads it stands for.              *)
(***************************************************************************)
LockInv == LockTypeOK /\ CountersCount /\ MutualExclusion /\ NoLostWakeup

-----------------------------------------------------------------------------
(* A thread that changes state leaves one set of threads and joins another.*)
LEMMA ThreadMoves ==
    ASSUME lk \in [Threads -> LockStates], NEW t \in Threads,
           NEW from \in LockStates, NEW to \in LockStates,
           lk[t] = from, from # to, lk' = [lk EXCEPT ![t] = to]
    PROVE  /\ In(to)' = In(to) \cup {t} /\ t \notin In(to)
           /\ In(from)' = In(from) \ {t} /\ t \in In(from)
           /\ \A s \in LockStates \ {from, to} : In(s)' = In(s)
BY DEF In

(* The sets of threads are finite, so their sizes are numbers that change  *)
(* by one as a thread comes and goes.                                      *)
LEMMA InSizes ==
    ASSUME NEW s \in LockStates
    PROVE  /\ IsFiniteSet(In(s))
           /\ Cardinality(In(s)) \in Nat
           /\ Cardinality(In(s)) = 0 <=> In(s) = {}
           /\ \A t \in Threads : t \notin In(s) =>
                Cardinality(In(s) \cup {t}) = Cardinality(In(s)) + 1
           /\ \A t \in In(s) : Cardinality(In(s) \ {t}) = Cardinality(In(s)) - 1
<1>1. IsFiniteSet(In(s))
  BY ThreadsAssumption, FS_Subset DEF In
<1>2. QED
  BY <1>1, FS_CardinalityType, FS_EmptySet, FS_AddElement, FS_RemoveElement

(* What the counters say about the threads.                                *)
LEMMA CountersMean ==
    ASSUME LockInv
    PROVE  /\ readers \in Nat /\ waiting_writers \in Nat
           /\ readers = 0 <=> In("reading") = {}
           /\ waiting_writers = 0 <=> In("wantWrite") = {}
           /\ ~writer <=> In("writing") = {}
           /\ lk \in [Threads -> LockStates]
BY InSizes DEF LockInv, LockTypeOK, CountersCount, LockStates

(* A thread gets in as a reader, or falls asleep as one.                   *)
LEMMA ReadStep ==
    ASSUME LockInv, NEW t \in Threads, AcquireRead(t) \/ RetryRead(t)
    PROVE  LockInv'
<1> USE DEF LockStates
<1>1. PICK from \in {"idle", "wantRead"} : lk[t] = from
  BY DEF AcquireRead, RetryRead
<1>2. CASE ReadBlocked /\ from = "idle"
  <2>1. /\ lk' = [lk EXCEPT ![t] = "wantRead"] /\ waitSet' = waitSet \cup {t}
        /\ UNCHANGED <<readers, writer, waiting_writers>>
    BY <1>1, <1>2 DEF AcquireRead, RetryRead, TestReadThenSleep
  <2>2. /\ In("wantRead")' = In("wantRead") \cup {t}
        /\ \A s \in LockStates \ {"idle", "wantRead"} : In(s)' = In(s)
    BY <1>1, <1>2, <2>1, CountersMean, ThreadMoves
  <2>3. LockTypeOK' /\ CountersCount'
    BY <2>1, <2>2 DEF LockInv, LockTypeOK, CountersCount
  <2>4. MutualExclusion'
    BY <1>1, <2>1, <2>2 DEF LockInv, LockTypeOK, MutualExclusion
  <2>5. NoLostWakeup'
    BY <1>1, <1>2, <2>1 DEF LockInv, LockTypeOK, NoLostWakeup, ReadBlocked,
       WriteBlocked, In
  <2>6. QED
    BY <2>3, <2>4, <2>5 DEF LockInv
<1>3. CASE ReadBlocked /\ from = "wantRead"
  <2>1. /\ lk' = lk /\ waitSet' = waitSet \cup {t}
        /\ UNCHANGED <<readers, writer, waiting_writers>>
    BY <1>1, <1>3, CountersMean DEF AcquireRead, RetryRead, TestReadThenSleep
  <2>2. \A s : In(s)' = In(s)
    BY <2>1 DEF In
  <2>3. t \in In("wantRead")
    BY <1>1, <1>3 DEF In
  <2>4. LockTypeOK' /\ CountersCount' /\ MutualExclusion'
    BY <2>1, <2>2, <2>3 DEF LockInv, LockTypeOK, CountersCount, MutualExclusion
  <2>5. NoLostWakeup'
    BY <1>1, <1>3, <2>1 DEF LockInv, NoLostWakeup, ReadBlocked, WriteBlocked
  <2>6. QED
    BY <2>4, <2>5 DEF LockInv
<1>4. CASE ~ReadBlocked
  <2>1. /\ lk' = [lk EXCEPT ![t] = "reading"] /\ readers' = readers + 1
        /\ t \notin waitSet
        /\ UNCHANGED <<waitSet, writer, waiting_writers>>
    BY <1>1, <1>4 DEF AcquireRead, RetryRead, TestReadThenSleep, LockInv,
       LockTypeOK, In
  <2>2. /\ In("reading")' = In("reading") \cup {t} /\ t \notin In("reading")
        /\ In(from)' = In(from) \ {t}
        /\ \A s \in LockStates \ {from, "reading"} : In(s)' = In(s)
    BY <1>1, <2>1, CountersMean, ThreadMoves
  <2>3. In("writing") = {} /\ In("writing")' = {}
    BY <1>1, <1>4, <2>2, CountersMean DEF ReadBlocked
  <2>4. readers' = Cardinality(In("reading")')
    BY <2>1, <2>2, InSizes DEF LockInv, CountersCount
  <2>5. LockTypeOK' /\ CountersCount'
    BY <1>1, <2>1, <2>2, <2>3, <2>4, CountersMean
       DEF LockInv, LockTypeOK, CountersCount
  <2>6. MutualExclusion'
    BY <2>3 DEF MutualExclusion
  <2>7. NoLostWakeup'
    BY <2>1, CountersMean DEF LockInv, LockTypeOK, NoLostWakeup,
       ReadBlocked, WriteBlocked, In
  <2>8. QED
    BY <2>5, <2>6, <2>7 DEF LockInv
<1>5. QED
  BY <1>1, <1>2, <1>3, <1>4

(* A reader leaves; the last one out wakes everybody.                      *)
LEMMA ReleaseReadStep ==
    ASSUME LockInv, NEW t \in Threads, ReleaseRead(t)
    PROVE  LockInv'
<1> USE DEF LockStates
<1>1. /\ lk[t] = "reading" /\ lk' = [lk EXCEPT ![t] = "idle"]
      /\ readers' = readers - 1 /\ UNCHANGED <<writer, waiting_writers>>
      /\ waitSet' \subseteq waitSet /\ (waitSet' # {} => readers # 1)
  BY DEF ReleaseRead, NotifyAll
<1>2. /\ In("reading")' = In("reading") \ {t} /\ t \in In("reading")
      /\ \A s \in LockStates \ {"idle", "reading"} : In(s)' = In(s)
  BY <1>1, CountersMean, ThreadMoves
<1>3. readers' = Cardinality(In("reading")') /\ readers' \in Nat
  <2>1. Cardinality(In("reading") \ {t}) = Cardinality(In("reading")) - 1
    BY <1>2, InSizes
  <2>2. readers # 0
    BY <1>2, CountersMean
  <2>3. QED
    BY <1>1, <1>2, <2>1, <2>2, CountersMean DEF LockInv, CountersCount
<1>4. LockTypeOK' /\ CountersCount'
  BY <1>1, <1>2, <1>3, CountersMean DEF LockInv, LockTypeOK, CountersCount
<1>5. MutualExclusion'
  BY <1>1, <1>2, CountersMean DEF LockInv, MutualExclusion
<1>6. NoLostWakeup'
  <2>1. SUFFICES ASSUME NEW u \in waitSet'
                 PROVE  \/ lk'[u] = "wantRead" /\ ReadBlocked'
                        \/ lk'[u] = "wantWrite" /\ WriteBlocked'
    BY DEF NoLostWakeup
  <2>2. /\ u \in waitSet /\ u \in Threads /\ u # t /\ lk'[u] = lk[u]
    BY <1>1, <2>1, CountersMean DEF LockInv, LockTypeOK, In
  <2>3. readers > 0 => readers' > 0
    BY <1>1, <1>3, <2>1, CountersMean
  <2>4. QED
    BY <1>1, <2>2, <2>3 DEF LockInv, NoLostWakeup, ReadBlocked, WriteBlocked
<1>7. QED
  BY <1>4, <1>5, <1>6 DEF LockInv

(* A thread becomes the writer, or registers as waiting and falls asleep.  *)
LEMMA WriteStep ==
    ASSUME LockInv, NEW t \in Threads, AcquireWrite(t) \/ RetryWrite(t)
    PROVE  LockInv'
<1> USE DEF LockStates
<1>1. PICK from \in {"idle", "wantWrite"} : lk[t] = from
  BY DEF AcquireWrite, RetryWrite
<1>2. CASE WriteBlocked /\ from = "idle"
  <2>1. /\ lk' = [lk EXCEPT ![t] = "wantWrite"] /\ waitSet' = waitSet \cup {t}
        /\ waiting_writers' = waiting_writers + 1
        /\ UNCHANGED <<readers, writer>>
    BY <1>1, <1>2 DEF AcquireWrite, RetryWrite
  <2>2. /\ In("wantWrite")' = In("wantWrite") \cup {t}
        /\ t \notin In("wantWrite")
        /\ \A s \in LockStates \ {"idle", "wantWrite"} : In(s)' = In(s)
    BY <1>1, <1>2, <2>1, CountersMean, ThreadMoves
  <2>3. waiting_writers' = Cardinality(In("wantWrite")')
    BY <2>1, <2>2, InSizes DEF LockInv, CountersCount
  <2>4. LockTypeOK' /\ CountersCount'
    BY <2>1, <2>2, <2>3, CountersMean DEF LockInv, LockTypeOK, CountersCount
  <2>5. MutualExclusion'
    BY <1>1, <2>1, <2>2, CountersMean DEF LockInv, MutualExclusion
  <2>6. NoLostWakeup'
    BY <1>1, <1>2, <2>1, CountersMean DEF LockInv, LockTypeOK, NoLostWakeup,
       ReadBlocked, WriteBlocked, In
  <2>7. QED
    BY <2>4, <2>5, <2>6 DEF LockInv
<1>3. CASE WriteBlocked /\ from = "wantWrite"
  <2>1. /\ lk' = lk /\ waitSet' = waitSet \cup {t}
        /\ UNCHANGED <<readers, writer, waiting_writers>>
    BY <1>1, <1>3 DEF AcquireWrite, RetryWrite
  <2>2. \A s : In(s)' = In(s)
    BY <2>1 DEF In
  <2>3. t \in In("wantWrite")
    BY <1>1, <1>3 DEF In
  <2>4. LockTypeOK' /\ CountersCount' /\ MutualExclusion'
    BY <2>1, <2>2, <2>3 DEF LockInv, LockTypeOK, CountersCount, MutualExclusion
  <2>5. NoLostWakeup'
    BY <1>1, <1>3, <2>1 DEF LockInv, NoLostWakeup, ReadBlocked, WriteBlocked
  <2>6. QED
    BY <2>4, <2>5 DEF LockInv
<1>4. CASE ~WriteBlocked
  <2>1. /\ lk' = [lk EXCEPT ![t] = "writing"] /\ writer' = TRUE
        /\ t \notin waitSet /\ UNCHANGED <<waitSet, readers>>
        /\ waiting_writers' =
             IF from = "wantWrite" THEN waiting_writers - 1 ELSE waiting_writers
    BY <1>1, <1>4 DEF AcquireWrite, RetryWrite, LockInv, LockTypeOK, In
  <2>2. /\ In("writing")' = In("writing") \cup {t}
        /\ In(from)' = In(from) \ {t} /\ t \in In(from)
        /\ \A s \in LockStates \ {from, "writing"} : In(s)' = In(s)
    BY <1>1, <2>1, CountersMean, ThreadMoves
  <2>3. In("writing") = {} /\ In("reading") = {}
    BY <1>4, CountersMean DEF WriteBlocked
  <2>4. /\ waiting_writers' = Cardinality(In("wantWrite")')
        /\ waiting_writers' \in Nat
    <3>1. CASE from = "idle"
      BY <2>1, <2>2, <3>1, CountersMean DEF LockInv, CountersCount
    <3>2. CASE from = "wantWrite"
      <4>1. Cardinality(In("wantWrite") \ {t}) = Cardinality(In("wantWrite")) - 1
        BY <2>2, <3>2, InSizes
      <4>2. waiting_writers # 0
        BY <2>2, <3>2, CountersMean
      <4>3. In("wantWrite")' = In("wantWrite") \ {t}
        BY <2>2, <3>2
      <4>4. waiting_writers \in Nat /\ waiting_writers = Cardinality(In("wantWrite"))
        BY CountersMean DEF LockInv, CountersCount
      <4>5. waiting_writers' = waiting_writers - 1
        BY <2>1, <3>2
      <4>6. waiting_writers - 1 \in Nat
        BY <4>2, <4>4
      <4>7. Cardinality(In("wantWrite")') = waiting_writers - 1
        BY <4>1, <4>3, <4>4
      <4>8. QED
        BY <4>5, <4>6, <4>7
    <3>3. QED
      BY <1>1, <3>1, <3>2
  <2>5. LockTypeOK' /\ CountersCount'
    BY <1>1, <2>1, <2>2, <2>3, <2>4, CountersMean
       DEF LockInv, LockTypeOK, CountersCount
  <2>6. MutualExclusion'
    <3>1. In("writing")' = {t} /\ In("reading")' = {}
      <4>1. "reading" \in LockStates \ {from, "writing"}
        BY <1>1
      <4>2. QED
        BY <2>2, <2>3, <4>1
    <3>2. QED
      BY <3>1, <2>1, CountersMean DEF MutualExclusion, In
  <2>7. NoLostWakeup'
    BY <2>1, CountersMean DEF LockInv, LockTypeOK, NoLostWakeup,
       ReadBlocked, WriteBlocked, In
  <2>8. QED
    BY <2>5, <2>6, <2>7 DEF LockInv
<1>5. QED
  BY <1>1, <1>2, <1>3, <1>4

(* The writer leaves and wakes everybody.                                  *)
LEMMA ReleaseWriteStep ==
    ASSUME LockInv, NEW t \in Threads, ReleaseWrite(t)
    PROVE  LockInv'
<1> USE DEF LockStates
<1>1. /\ lk[t] = "writing" /\ lk' = [lk EXCEPT ![t] = "idle"]
      /\ writer' = FALSE /\ waitSet' = {} /\ UNCHANGED <<readers, waiting_writers>>
  BY DEF ReleaseWrite, NotifyAll
<1>2. /\ In("writing")' = In("writing") \ {t}
      /\ \A s \in LockStates \ {"idle", "writing"} : In(s)' = In(s)
  BY <1>1, CountersMean, ThreadMoves
<1>3. In("writing")' = {}
  BY <1>1, <1>2 DEF LockInv, MutualExclusion, In
<1>4. LockTypeOK' /\ CountersCount'
  BY <1>1, <1>2, <1>3, CountersMean DEF LockInv, LockTypeOK, CountersCount
<1>5. MutualExclusion' /\ NoLostWakeup'
  BY <1>1, <1>3 DEF MutualExclusion, NoLostWakeup
<1>6. QED
  BY <1>4, <1>5 DEF LockInv

LEMMA LockInvStep == LockInv /\ [LockNext]_lockVars => LockInv'
<1>1. ASSUME LockInv, NEW t \in Threads, LockStep(t)
      PROVE  LockInv'
  BY <1>1, ReadStep, ReleaseReadStep, WriteStep, ReleaseWriteStep DEF LockStep
<1>2. ASSUME LockInv, UNCHANGED lockVars
      PROVE  LockInv'
  BY <1>2 DEF lockVars, LockInv, LockTypeOK, CountersCount, MutualExclusion,
     NoLostWakeup, ReadBlocked, WriteBlocked, In
<1>3. QED
  BY <1>1, <1>2 DEF LockNext

LEMMA InitEstablishesLockInv == LockInit => LockInv
<1> SUFFICES ASSUME LockInit PROVE LockInv
  OBVIOUS
<1>1. \A s \in LockStates \ {"idle"} : In(s) = {}
  BY DEF LockInit, In
<1>2. In("reading") = {} /\ In("writing") = {} /\ In("wantWrite") = {}
  BY <1>1 DEF LockStates
<1>3. QED
  BY <1>2, FS_EmptySet DEF LockInit, LockInv, LockTypeOK, CountersCount,
     MutualExclusion, NoLostWakeup, LockStates

LEMMA LockInvHolds == LockSpec => []LockInv
BY InitEstablishesLockInv, LockInvStep, PTL DEF LockSpec

(* The lock's counters and wait set always mean what their names say.      *)
THEOREM LockTypeCorrect == LockSpec => []LockTypeOK
<1>1. LockInv => LockTypeOK
  BY DEF LockInv
<1>2. QED
  BY <1>1, LockInvHolds, PTL

(* The counters count threads, however many there are.                     *)
THEOREM CountersCorrect == LockSpec => []CountersCount
<1>1. LockInv => CountersCount
  BY DEF LockInv
<1>2. QED
  BY <1>1, LockInvHolds, PTL

(* However many threads use the lock, a writer is alone with the data.     *)
THEOREM WritersAreAlone == LockSpec => []MutualExclusion
<1>1. LockInv => MutualExclusion
  BY DEF LockInv
<1>2. QED
  BY <1>1, LockInvHolds, PTL

(* The two notify_all calls are enough: no thread sleeps on a condition    *)
(* that has come true.                                                     *)
THEOREM NoThreadLeftAsleep == LockSpec => []NoLostWakeup
<1>1. LockInv => NoLostWakeup
  BY DEF LockInv
<1>2. QED
  BY <1>1, LockInvHolds, PTL

(* New readers queue behind a waiting writer.                              *)
THEOREM WriterPreference == LockSpec => WritersAreNotOvertaken
<1>1. LockInv /\ [LockNext]_lockVars =>
        [In("wantWrite") # {} => In("reading")' \subseteq In("reading")]_lockVars
  <2> SUFFICES ASSUME LockInv, NEW t \in Threads, LockStep(t), In("wantWrite") # {}
               PROVE  In("reading")' \subseteq In("reading")
    BY DEF LockNext
  <2>1. ReadBlocked
    BY CountersMean DEF ReadBlocked
  <2>2. QED
    BY <2>1, CountersMean DEF LockStep, AcquireRead, RetryRead, ReleaseRead,
       AcquireWrite, RetryWrite, ReleaseWrite, TestReadThenSleep, In
<1>2. QED
  BY <1>1, LockInvHolds, PTL DEF LockSpec, WritersAreNotOvertaken

-----------------------------------------------------------------------------
(* get and set use the lock. *)
LEMMA CacheStepIsLockStep == [Next]_vars => [LockNext]_lockVars
<1> SUFFICES ASSUME [Next]_vars PROVE [LockNext]_lockVars
  OBVIOUS
<1>1. CASE UNCHANGED vars
  BY <1>1 DEF vars
<1>2. CASE Tick
  BY <1>2 DEF Tick
<1>3. ASSUME NEW t \in Threads,
             \/ Blocked(t) \/ LeaveLookup(t) \/ LeaveStale(t) \/ BeginReap(t)
             \/ Release(t) \/ (\E k \in Keys : BeginGet(t, k))
             \/ (\E k \in Keys, v \in Values : BeginSet(t, k, v))
      PROVE  LockStep(t)
  BY <1>3 DEF Blocked, LeaveLookup, LeaveStale, BeginReap, Release, BeginGet,
     BeginSet, LockStep
<1>4. ASSUME NEW t \in Threads,
             \/ Lookup(t) \/ Recheck(t) \/ ReadClock(t) \/ DropExpired(t)
             \/ DropOld(t) \/ Evict(t) \/ Insert(t)
      PROVE  UNCHANGED lockVars
  BY <1>4 DEF Lookup, Recheck, ReadClock, DropExpired, DropOld, Evict, Insert
<1>5. QED
  BY <1>1, <1>2, <1>3, <1>4 DEF Next, LockNext

(* get and set are written with the methods of the lock, so that what is   *)
(* proved of the lock is true of the cache.                                *)
LEMMA CacheUsesTheLock == Spec => LockSpec
<1>1. Init => LockInit
  BY DEF Init
<1>2. QED
  BY <1>1, CacheStepIsLockStep, PTL DEF Spec, LockSpec

(* Hence the table is never written while another thread reads or writes   *)
(* it, and no get or set is left asleep.                                   *)
THEOREM CacheIsExclusive == Spec => [](MutualExclusion /\ NoLostWakeup)
<1>1. QED
  BY CacheUsesTheLock, WritersAreAlone, NoThreadLeftAsleep, PTL

-----------------------------------------------------------------------------
(***************************************************************************)
(* The invariant of the table.  In its order of insertion it is in order   *)
(* of expiration, and each entry is the last set of its key.  A set that   *)
(* has read the clock read it after every entry was stored, since nobody   *)
(* stores one until it is done; and no reader is there when it stores.     *)
(***************************************************************************)
Table ==
    /\ EvictionIsOrderly
    /\ \A i \in DOMAIN entries :
        /\ entries[i].value = lastSet[entries[i].key].value
        /\ entries[i].expires = lastSet[entries[i].key].at + TTL
        /\ entries[i].expires <= now + TTL

(* Which step of get or set has what hold on the lock.                     *)
Holds(t) ==
    /\ op[t].at \in {"idle", "reap"} => lk[t] = "idle"
    /\ op[t].at = "lookup" => lk[t] \in {"wantRead", "reading"}
    /\ op[t].at \in {"leave", "leaveStale"} => lk[t] = "reading"
    /\ op[t].at \in {"recheck", "clock"} => lk[t] \in {"wantWrite", "writing"}
    /\ op[t].at \in {"expire", "makeRoom", "release"} => lk[t] = "writing"

(* What a thread remembers of the arguments, the clock and the table.      *)
Remembers(t) ==
    /\ op[t].at = "lookup" => op[t].value = None
    /\ op[t].at \in {"clock", "expire", "makeRoom"} => op[t].value \in Values
    /\ op[t].at \in {"leaveStale", "reap", "recheck", "expire", "makeRoom"} =>
        op[t].time <= now
    /\ op[t].at \in {"expire", "makeRoom"} =>
        \A i \in DOMAIN entries : entries[i].expires <= op[t].time + TTL
    /\ op[t].at = "makeRoom" => ~Has(op[t].key)

CacheInv ==
    /\ TypeOK
    /\ Table
    /\ \A t \in Threads : Holds(t) /\ Remembers(t)
    /\ HitIsLatestAndFresh

-----------------------------------------------------------------------------
LEMMA InitEstablishesCacheInv == Init => CacheInv
BY ExpiringCacheAssumption
   DEF Init, LockInit, CacheInv, TypeOK, Times, Entry, Op, IdleOp, Table,
       EvictionIsOrderly, WithinCapacity, OldestExpiresFirst, Holds, Remembers,
       HitIsLatestAndFresh

(* What a thread in the middle of a get or set knows.                      *)
LEMMA OpRecord ==
    ASSUME TypeOK, NEW t \in Threads, op[t].at \in Steps
    PROVE  op[t] \in [at : Steps, key : Keys, value : Values \cup {None}, time : Nat]
BY DEF TypeOK, Op, IdleOp, Steps

LEMMA PlaceHoldsKey ==
    ASSUME NEW k, Has(k)
    PROVE  Place(k) \in DOMAIN entries /\ entries[Place(k)].key = k
BY DEF Has, Place

(* One entry leaves, and the others keep their order.                      *)
LEMMA PopShape ==
    ASSUME entries \in Seq(Entry), NEW i \in DOMAIN entries
    PROVE  /\ Pop(i) \in Seq(Entry)
           /\ Len(Pop(i)) = Len(entries) - 1
           /\ DOMAIN Pop(i) = 1 .. Len(entries) - 1
           /\ \A j \in DOMAIN Pop(i) :
                /\ (IF j < i THEN j ELSE j + 1) \in DOMAIN entries \ {i}
                /\ Pop(i)[j] = entries[IF j < i THEN j ELSE j + 1]
           /\ \A m \in DOMAIN entries \ {i} :
                \E j \in DOMAIN Pop(i) : Pop(i)[j] = entries[m]
<1>1. /\ Len(entries) \in Nat /\ DOMAIN entries = 1 .. Len(entries)
      /\ i \in 1 .. Len(entries) /\ Len(entries) - 1 \in Nat
      /\ \A m \in DOMAIN entries : entries[m] \in Entry
  OBVIOUS
<1>2. \A j \in 1 .. Len(entries) - 1 :
        (IF j < i THEN j ELSE j + 1) \in DOMAIN entries \ {i}
  BY <1>1
<1>3. /\ Pop(i) \in [1 .. Len(entries) - 1 -> Entry]
      /\ DOMAIN Pop(i) = 1 .. Len(entries) - 1
      /\ \A j \in 1 .. Len(entries) - 1 :
           Pop(i)[j] = entries[IF j < i THEN j ELSE j + 1]
  BY <1>1, <1>2 DEF Pop
<1>4. Pop(i) \in Seq(Entry) /\ Len(Pop(i)) = Len(entries) - 1
  <2>1. PICK n \in Nat : n = Len(entries) - 1
    BY <1>1
  <2>2. Pop(i) \in [1 .. n -> Entry]
    BY <1>3, <2>1
  <2> HIDE <1>3
  <2>3. QED
    BY <2>1, <2>2
<1>5. ASSUME NEW m \in DOMAIN entries \ {i}
      PROVE  \E j \in DOMAIN Pop(i) : Pop(i)[j] = entries[m]
  <2>1. CASE m < i
    BY <2>1, <1>1, <1>3
  <2>2. CASE m > i
    <3>1. m - 1 \in DOMAIN Pop(i) /\ Pop(i)[m - 1] = entries[m]
      BY <2>2, <1>1, <1>3
    <3>2. QED
      BY <3>1
  <2>3. QED
    BY <2>1, <2>2, <1>1
<1>6. QED
  BY <1>2, <1>3, <1>4, <1>5

(* So the table stays in order when an entry leaves it.                    *)
LEMMA PopKeepsTable ==
    ASSUME TypeOK, Table, NEW i \in DOMAIN entries, entries' = Pop(i),
           UNCHANGED <<now, lastSet>>
    PROVE  /\ entries' \in Seq(Entry)
           /\ \A j, m \in DOMAIN entries' :
                entries'[j].key = entries'[m].key => j = m
           /\ Table'
           /\ \A j \in DOMAIN entries' :
                \E m \in DOMAIN entries \ {i} : entries'[j] = entries[m]
           /\ \A m \in DOMAIN entries \ {i} :
                \E j \in DOMAIN entries' : entries'[j] = entries[m]
<1> DEFINE Old(j) == IF j < i THEN j ELSE j + 1
<1>1. /\ entries \in Seq(Entry) /\ Len(entries) \in Nat
      /\ DOMAIN entries = 1 .. Len(entries)
  BY DEF TypeOK
<1>2. /\ entries' \in Seq(Entry) /\ Len(entries') = Len(entries) - 1
      /\ DOMAIN entries' = 1 .. Len(entries) - 1
      /\ \A j \in DOMAIN entries' :
           Old(j) \in DOMAIN entries \ {i} /\ entries'[j] = entries[Old(j)]
      /\ \A m \in DOMAIN entries \ {i} :
           \E j \in DOMAIN entries' : entries'[j] = entries[m]
  BY <1>1, PopShape
<1>3. \A j, m \in DOMAIN entries' :
        /\ j < m => Old(j) < Old(m)
        /\ Old(j) = Old(m) => j = m
  BY <1>1, <1>2
<1> HIDE DEF Old
<1>4. \A j, m \in DOMAIN entries' : entries'[j].key = entries'[m].key => j = m
  <2> SUFFICES ASSUME NEW j \in DOMAIN entries', NEW m \in DOMAIN entries',
                      entries'[j].key = entries'[m].key
               PROVE  j = m
    OBVIOUS
  <2>1. /\ Old(j) \in DOMAIN entries /\ Old(m) \in DOMAIN entries
        /\ entries[Old(j)].key = entries[Old(m)].key
    BY <1>2
  <2>2. Old(j) = Old(m)
    BY <2>1 DEF TypeOK
  <2>3. QED
    BY <2>2, <1>3
<1>5. Table'
  <2>1. WithinCapacity'
    BY <1>1, <1>2, ExpiringCacheAssumption DEF Table, EvictionIsOrderly, WithinCapacity
  <2>2. OldestExpiresFirst'
    <3> SUFFICES ASSUME NEW j \in DOMAIN entries', NEW m \in DOMAIN entries',
                        j < m
                 PROVE  entries'[j].expires <= entries'[m].expires
      BY DEF OldestExpiresFirst
    <3>1. /\ Old(j) \in DOMAIN entries /\ entries'[j] = entries[Old(j)]
          /\ Old(m) \in DOMAIN entries /\ entries'[m] = entries[Old(m)]
      BY <1>2
    <3>2. Old(j) < Old(m)
      BY <1>3
    <3>3. QED
      BY <3>1, <3>2 DEF Table, EvictionIsOrderly, OldestExpiresFirst
  <2>3. QED
    BY <2>1, <2>2, <1>2 DEF Table, EvictionIsOrderly
<1>6. QED
  BY <1>2, <1>4, <1>5

-----------------------------------------------------------------------------
(* A step that leaves the table alone has only its own thread to answer    *)
(* for.                                                                    *)
LEMMA TableReadOnly ==
    ASSUME CacheInv, NEW t \in Threads, UNCHANGED <<now, entries, lastSet>>,
           op' \in [Threads -> Op],
           \A u \in Threads \ {t} : op'[u] = op[u] /\ lk'[u] = lk[u],
           Holds(t)', Remembers(t)',
           op'[t].at = "leave" /\ op'[t].value # None =>
             /\ op'[t].value = lastSet[op'[t].key].value
             /\ op'[t].time < lastSet[op'[t].key].at + TTL
    PROVE  CacheInv'
<1>1. TypeOK' /\ Table'
  BY DEF CacheInv, TypeOK, Table, EvictionIsOrderly, WithinCapacity,
     OldestExpiresFirst
<1>2. ASSUME NEW u \in Threads \ {t}
      PROVE  Holds(u)' /\ Remembers(u)'
  BY <1>2 DEF CacheInv, Holds, Remembers, Has
<1>3. HitIsLatestAndFresh'
  BY DEF CacheInv, HitIsLatestAndFresh
<1>4. QED
  BY <1>1, <1>2, <1>3 DEF CacheInv

(* The lock's methods change what one thread does with it.                 *)
LEMMA LockOfOne ==
    ASSUME LockTypeOK, NEW t \in Threads
    PROVE  /\ AcquireRead(t) => lk'[t] \in {"wantRead", "reading"}
           /\ ReleaseRead(t) \/ ReleaseWrite(t) => lk'[t] = "idle"
           /\ AcquireWrite(t) => lk'[t] \in {"wantWrite", "writing"}
           /\ RetryRead(t) => /\ lk[t] = "wantRead"
                              /\ lk'[t] \in {"wantRead", "reading"}
           /\ RetryWrite(t) => /\ lk[t] = "wantWrite"
                               /\ lk'[t] \in {"wantWrite", "writing"}
           /\ LockStep(t) => \A u \in Threads \ {t} : lk'[u] = lk[u]
BY DEF LockTypeOK, LockStep, AcquireRead, AcquireWrite, ReleaseRead, ReleaseWrite,
   RetryRead, RetryWrite, TestReadThenSleep

LEMMA LockingSteps ==
    ASSUME CacheInv, LockTypeOK, NEW t \in Threads,
           \/ Blocked(t) \/ LeaveLookup(t) \/ LeaveStale(t) \/ BeginReap(t)
           \/ Release(t) \/ (\E k \in Keys : BeginGet(t, k))
           \/ (\E k \in Keys, v \in Values : BeginSet(t, k, v))
    PROVE  CacheInv'
<1> USE DEF Steps, CacheInv
<1>1. op \in [Threads -> Op] /\ Holds(t) /\ Remembers(t) /\ IdleOp \in Op
  BY DEF TypeOK, Op
<1>2. /\ UNCHANGED <<now, entries, lastSet>>
      /\ \A u \in Threads \ {t} : lk'[u] = lk[u]
      /\ \A u \in Threads \ {t} : op'[u] = op[u]
  <2>1. LockStep(t)
    BY DEF LockStep, Blocked, LeaveLookup, LeaveStale, BeginReap, Release, BeginGet,
       BeginSet
  <2>2. QED
    BY <2>1, <1>1, LockOfOne
       DEF Blocked, LeaveLookup, LeaveStale, BeginReap, Release, BeginGet, BeginSet,
       Goto, cacheVars
<1>3. CASE Blocked(t)
  <2>1. UNCHANGED op
    BY <1>3 DEF Blocked, cacheVars
  <2>2. Holds(t)'
    BY <2>1, <1>1, <1>3, LockOfOne DEF Blocked, Holds
  <2>3. Remembers(t)'
    BY <2>1, <1>1, <1>2 DEF Remembers, Has
  <2>4. QED
    BY <2>1, <2>2, <2>3, <1>1, <1>2, TableReadOnly DEF HitIsLatestAndFresh
<1>4. CASE LeaveLookup(t) \/ Release(t)
  <2>1. op' = [op EXCEPT ![t] = IdleOp] /\ lk'[t] = "idle"
    BY <1>4, LockOfOne DEF LeaveLookup, Release
  <2>2. op'[t] = IdleOp /\ op' \in [Threads -> Op]
    BY <2>1, <1>1
  <2>3. Holds(t)' /\ Remembers(t)'
    BY <2>1, <2>2 DEF Holds, Remembers, IdleOp
  <2>4. QED
    BY <2>2, <2>3, <1>2, TableReadOnly DEF IdleOp
<1>5. CASE LeaveStale(t)
  <2>1. Goto(t, "reap") /\ op[t].at = "leaveStale" /\ lk'[t] = "idle"
    BY <1>5, LockOfOne DEF LeaveStale
  <2>2. op' \in [Threads -> Op] /\ op'[t].at = "reap" /\ op'[t].time = op[t].time
    BY <2>1, <1>1, OpRecord DEF Goto, Op
  <2>3. Holds(t)' /\ Remembers(t)'
    BY <2>1, <2>2, <1>1, <1>2 DEF Holds, Remembers
  <2>4. QED
    BY <2>2, <2>3, <1>2, TableReadOnly
<1>6. CASE BeginReap(t)
  <2>1. /\ Goto(t, "recheck") /\ op[t].at = "reap"
        /\ lk'[t] \in {"wantWrite", "writing"}
    BY <1>6, LockOfOne DEF BeginReap
  <2>2. op' \in [Threads -> Op] /\ op'[t].at = "recheck" /\ op'[t].time = op[t].time
    BY <2>1, <1>1, OpRecord DEF Goto, Op
  <2>3. Holds(t)' /\ Remembers(t)'
    BY <2>1, <2>2, <1>1, <1>2 DEF Holds, Remembers
  <2>4. QED
    BY <2>2, <2>3, <1>2, TableReadOnly
<1>7. ASSUME NEW k \in Keys, BeginGet(t, k)
      PROVE  CacheInv'
  <2> DEFINE new == [at |-> "lookup", key |-> k, value |-> None, time |-> 0]
  <2>1. op' = [op EXCEPT ![t] = new] /\ lk'[t] \in {"wantRead", "reading"}
    BY <1>7, LockOfOne DEF BeginGet
  <2>2. op'[t] = new /\ op' \in [Threads -> Op]
    BY <2>1, <1>1 DEF Op
  <2>3. Holds(t)' /\ Remembers(t)'
    BY <2>1, <2>2 DEF Holds, Remembers
  <2>4. QED
    BY <2>2, <2>3, <1>2, TableReadOnly
<1>8. ASSUME NEW k \in Keys, NEW v \in Values, BeginSet(t, k, v)
      PROVE  CacheInv'
  <2> DEFINE new == [at |-> "clock", key |-> k, value |-> v, time |-> 0]
  <2>1. op' = [op EXCEPT ![t] = new] /\ lk'[t] \in {"wantWrite", "writing"}
    BY <1>8, LockOfOne DEF BeginSet
  <2>2. op'[t] = new /\ op' \in [Threads -> Op]
    BY <2>1, <1>1 DEF Op
  <2>3. Holds(t)' /\ Remembers(t)'
    BY <2>1, <2>2 DEF Holds, Remembers
  <2>4. QED
    BY <2>2, <2>3, <1>2, TableReadOnly
<1>9. QED
  BY <1>3, <1>4, <1>5, <1>6, <1>7, <1>8

(* The steps that read the table or the clock under the lock.              *)
LEMMA ReadingSteps ==
    ASSUME CacheInv, NEW t \in Threads, Lookup(t) \/ ReadClock(t)
    PROVE  CacheInv'
<1> USE DEF Steps, CacheInv
<1>1. /\ op \in [Threads -> Op] /\ Holds(t) /\ Remembers(t) /\ entries \in Seq(Entry)
      /\ now \in Nat
  BY DEF TypeOK, Times
<1>2. /\ UNCHANGED <<lk, now, entries, lastSet>>
      /\ \A u \in Threads \ {t} : op'[u] = op[u]
  BY <1>1 DEF Lookup, ReadClock, Goto, lockVars
<1>3. op[t] \in [at : Steps, key : Keys, value : Values \cup {None}, time : Nat]
  BY OpRecord DEF Lookup, ReadClock
<1>4. CASE Lookup(t)
  <2> DEFINE k == op[t].key
  <2>1. op[t].at = "lookup" /\ lk[t] = "reading" /\ op[t].value = None
    BY <1>4, <1>1 DEF Lookup, Remembers
  <2>2. CASE ~Has(k) /\ Goto(t, "leave")
    <3>1. op' \in [Threads -> Op] /\ op'[t].at = "leave" /\ op'[t].value = None
      BY <2>2, <2>1, <1>1, <1>3 DEF Goto, Op
    <3>2. Holds(t)' /\ Remembers(t)'
      BY <3>1, <2>1, <1>2 DEF Holds, Remembers
    <3>3. QED
      BY <3>1, <3>2, <1>2, TableReadOnly
  <2>3. CASE /\ Has(k) /\ EntryOf(k).expires > now
             /\ op' = [op EXCEPT ![t].at = "leave", ![t].time = now,
                                 ![t].value = EntryOf(k).value]
    <3>1. /\ EntryOf(k) \in Entry
          /\ EntryOf(k).value = lastSet[k].value
          /\ EntryOf(k).expires = lastSet[k].at + TTL
      BY <2>3, <1>1, PlaceHoldsKey DEF EntryOf, Table
    <3>2. /\ op' \in [Threads -> Op] /\ op'[t].at = "leave" /\ op'[t].key = k
          /\ op'[t].value = EntryOf(k).value /\ op'[t].time = now
      BY <3>1, <2>3, <1>1, <1>3 DEF Op, Entry
    <3>3. Holds(t)' /\ Remembers(t)'
      BY <3>2, <2>1, <1>2 DEF Holds, Remembers
    <3>4. now < lastSet[k].at + TTL
      BY <3>1, <2>3, <1>1 DEF Entry
    <3>5. QED
      BY <3>1, <3>2, <3>3, <3>4, <1>2, TableReadOnly
  <2>4. CASE /\ Has(k) /\ EntryOf(k).expires <= now
             /\ op' = [op EXCEPT ![t].at = "leaveStale",
                                 ![t].time = EntryOf(k).expires]
    <3>1. EntryOf(k) \in Entry
      BY <2>4, <1>1, PlaceHoldsKey DEF EntryOf
    <3>2. /\ op' \in [Threads -> Op] /\ op'[t].at = "leaveStale"
          /\ op'[t].time <= now
      BY <3>1, <2>4, <1>1, <1>3 DEF Op, Entry
    <3>3. Holds(t)' /\ Remembers(t)'
      BY <3>2, <2>1, <1>2 DEF Holds, Remembers
    <3>4. QED
      BY <3>2, <3>3, <1>2, TableReadOnly
  <2>5. QED
    BY <1>4, <2>2, <2>3, <2>4 DEF Lookup
<1>5. CASE ReadClock(t)
  <2>1. /\ op[t].at = "clock" /\ lk[t] = "writing" /\ op[t].value \in Values
        /\ op' = [op EXCEPT ![t].at = "expire", ![t].time = now]
    BY <1>5, <1>1 DEF ReadClock, Remembers
  <2>2. /\ op' \in [Threads -> Op] /\ op'[t].at = "expire"
        /\ op'[t].time = now /\ op'[t].value = op[t].value
    BY <2>1, <1>1, <1>3 DEF Op
  <2>3. \A i \in DOMAIN entries : entries[i].expires <= now + TTL
    BY DEF Table
  <2>4. Holds(t)' /\ Remembers(t)'
    BY <2>1, <2>2, <2>3, <1>1, <1>2 DEF Holds, Remembers
  <2>5. QED
    BY <2>2, <2>4, <1>2, TableReadOnly
<1>6. QED
  BY <1>4, <1>5

LEMMA TickKeepsCache == ASSUME CacheInv, Tick PROVE CacheInv'
<1>1. /\ now \in Nat /\ now' = now + 1 /\ now' \in Times
      /\ UNCHANGED <<lk, entries, op, lastSet>>
  BY ExpiringCacheAssumption DEF CacheInv, TypeOK, Times, Tick, lockVars
<1>2. TypeOK'
  BY <1>1 DEF CacheInv, TypeOK
<1>3. \A i \in DOMAIN entries : entries[i] \in Entry
  BY DEF CacheInv, TypeOK
<1>4. Table'
  BY <1>1, <1>3, ExpiringCacheAssumption
     DEF CacheInv, Table, EvictionIsOrderly, WithinCapacity, OldestExpiresFirst, Entry
<1>5. ASSUME NEW t \in Threads
      PROVE  Holds(t)' /\ Remembers(t)'
  <2>1. op[t].at \in Steps => op[t].time \in Nat
    BY OpRecord DEF CacheInv
  <2>2. op[t].at \in {"leaveStale", "reap", "recheck", "expire", "makeRoom"} =>
          op[t].time <= now'
    BY <2>1, <1>1 DEF CacheInv, Remembers, Steps
  <2>3. QED
    BY <2>2, <1>1 DEF CacheInv, Holds, Remembers, Has
<1>6. HitIsLatestAndFresh'
  BY <1>1 DEF CacheInv, HitIsLatestAndFresh
<1>7. QED
  BY <1>2, <1>4, <1>5, <1>6 DEF CacheInv

-----------------------------------------------------------------------------
(* A thread that writes the table is alone with it.                        *)
LEMMA WriterIsAlone ==
    ASSUME CacheInv, MutualExclusion, NEW t \in Threads, lk[t] = "writing",
           NEW u \in Threads \ {t}
    PROVE  op[u].at \notin {"leave", "expire", "makeRoom"}
BY DEF CacheInv, MutualExclusion, In, Holds

(* The entries that a step keeps are in order, so dropping one is safe.    *)
LEMMA DroppingOne ==
    ASSUME CacheInv, MutualExclusion, NEW t \in Threads, lk[t] = "writing",
           NEW i \in DOMAIN entries, entries' = Pop(i),
           UNCHANGED <<lockVars, now, lastSet>>, op' \in [Threads -> Op],
           \A u \in Threads \ {t} : op'[u] = op[u],
           Holds(t)', Remembers(t)', op'[t].at # "leave"
    PROVE  CacheInv'
<1>1. TypeOK' /\ Table'
  BY PopKeepsTable DEF CacheInv, TypeOK
<1>2. ASSUME NEW u \in Threads \ {t}
      PROVE  Holds(u)' /\ Remembers(u)'
  BY <1>2, WriterIsAlone DEF CacheInv, Holds, Remembers, lockVars
<1>3. HitIsLatestAndFresh'
  BY WriterIsAlone DEF HitIsLatestAndFresh
<1>4. QED
  BY <1>1, <1>2, <1>3 DEF CacheInv

LEMMA DroppingSteps ==
    ASSUME CacheInv, MutualExclusion, NEW t \in Threads,
           Recheck(t) \/ DropExpired(t) \/ DropOld(t) \/ Evict(t)
    PROVE  CacheInv'
<1> USE DEF Steps, CacheInv
<1>1. /\ op \in [Threads -> Op] /\ Holds(t) /\ Remembers(t) /\ entries \in Seq(Entry)
      /\ now \in Nat /\ \A i \in DOMAIN entries : entries[i] \in Entry
      /\ \A i, j \in DOMAIN entries : entries[i].key = entries[j].key => i = j
  BY DEF TypeOK, Times
<1>2. /\ UNCHANGED <<lockVars, lk, now, lastSet>> /\ lk[t] = "writing"
      /\ \A u \in Threads \ {t} : op'[u] = op[u]
  BY <1>1 DEF Recheck, DropExpired, DropOld, Evict, Goto, lockVars
<1>3. op[t] \in [at : Steps, key : Keys, value : Values \cup {None}, time : Nat]
  BY OpRecord DEF Recheck, DropExpired, DropOld, Evict
<1>4. CASE Recheck(t)
  <2>1. /\ op' \in [Threads -> Op] /\ op'[t].at = "release"
    BY <1>4, <1>1, <1>3 DEF Recheck, Goto, Op
  <2>2. Holds(t)' /\ Remembers(t)'
    BY <2>1, <1>2 DEF Holds, Remembers
  <2>3. CASE UNCHANGED entries
    BY <2>1, <2>2, <2>3, <1>2, TableReadOnly
  <2>4. CASE Has(op[t].key) /\ entries' = Pop(Place(op[t].key))
    BY <2>1, <2>2, <2>4, <1>2, PlaceHoldsKey, DroppingOne
  <2>5. QED
    BY <1>4, <2>3, <2>4 DEF Recheck
<1>5. CASE DropExpired(t)
  <2>1. PICK i \in DOMAIN entries : entries' = Pop(i)
    BY <1>5 DEF DropExpired, Expired
  <2>2. op[t].at = "expire" /\ op' = op
    BY <1>5 DEF DropExpired
  <2>3. \A j \in DOMAIN entries' : entries'[j].expires <= op[t].time + TTL
    BY <2>1, <2>2, <1>1, <1>2, PopKeepsTable DEF Remembers
  <2>4. Holds(t)' /\ Remembers(t)'
    BY <2>2, <2>3, <1>1, <1>2 DEF Holds, Remembers
  <2>5. QED
    BY <2>1, <2>2, <2>4, <1>1, <1>2, DroppingOne
<1>6. CASE DropOld(t)
  <2>1. op[t].at = "expire" /\ Goto(t, "makeRoom") /\ entries' = Without(op[t].key)
    BY <1>6 DEF DropOld
  <2>2. /\ op' \in [Threads -> Op] /\ op'[t].at = "makeRoom"
        /\ op'[t].key = op[t].key /\ op'[t].value = op[t].value
        /\ op'[t].time = op[t].time
    BY <2>1, <1>1, <1>3 DEF Goto, Op
  <2>3. CASE Has(op[t].key)
    <3>1. PICK i \in DOMAIN entries : entries' = Pop(i) /\ entries[i].key = op[t].key
      BY <2>1, <2>3, PlaceHoldsKey DEF Without
    <3>2. \A j \in DOMAIN entries' :
            \E m \in DOMAIN entries \ {i} : entries'[j] = entries[m]
      BY <3>1, <1>2, PopKeepsTable
    <3>3. /\ ~Has(op[t].key)'
          /\ \A j \in DOMAIN entries' : entries'[j].expires <= op[t].time + TTL
      <4>1. \A m \in DOMAIN entries \ {i} : entries[m].key # op[t].key
        BY <3>1, <1>1
      <4>2. \A j \in DOMAIN entries' : /\ entries'[j].key # op[t].key
                                       /\ entries'[j].expires <= op[t].time + TTL
        BY <4>1, <3>2, <2>1, <1>1 DEF Remembers
      <4>3. QED
        BY <4>2, <2>2 DEF Has
    <3>4. Holds(t)' /\ Remembers(t)'
      BY <3>3, <2>1, <2>2, <1>1, <1>2 DEF Holds, Remembers, Has
    <3>5. QED
      BY <3>1, <3>4, <2>2, <1>2, DroppingOne
  <2>4. CASE ~Has(op[t].key)
    <3>1. UNCHANGED entries
      BY <2>1, <2>4 DEF Without
    <3>2. Holds(t)' /\ Remembers(t)'
      BY <3>1, <2>1, <2>2, <2>4, <1>1, <1>2 DEF Holds, Remembers, Has
    <3>3. QED
      BY <3>1, <3>2, <2>2, <1>2, TableReadOnly
  <2>5. QED
    BY <2>3, <2>4
<1>7. CASE Evict(t)
  <2>1. /\ op[t].at = "makeRoom" /\ op' = op /\ entries' = Pop(1)
        /\ 1 \in DOMAIN entries
    <3>1. Len(entries) >= MaxEntries
      BY <1>7 DEF Evict
    <3>2. 1 \in DOMAIN entries
      BY <3>1, <1>1, ExpiringCacheAssumption
    <3>3. QED
      BY <3>2, <1>7 DEF Evict
  <2>2. \A j \in DOMAIN entries' :
          \E m \in DOMAIN entries \ {1} : entries'[j] = entries[m]
    BY <2>1, <1>2, PopKeepsTable
  <2>3. \A m \in DOMAIN entries :
          entries[m].key # op[t].key /\ entries[m].expires <= op[t].time + TTL
    BY <2>1, <1>1 DEF Remembers, Has
  <2>4. Holds(t)' /\ Remembers(t)'
    BY <2>1, <2>2, <2>3, <1>1, <1>2 DEF Holds, Remembers, Has
  <2>5. QED
    BY <2>1, <2>4, <1>1, <1>2, DroppingOne
<1>8. QED
  BY <1>4, <1>5, <1>6, <1>7

(* What is stored goes last, and expires last.                             *)
LEMMA InsertStep ==
    ASSUME CacheInv, MutualExclusion, NEW t \in Threads, Insert(t)
    PROVE  CacheInv'
<1> USE DEF Steps, CacheInv
<1> DEFINE k == op[t].key
           n == Len(entries)
           new == [key |-> k, value |-> op[t].value, expires |-> op[t].time + TTL]
<1>1. /\ op \in [Threads -> Op] /\ Holds(t) /\ Remembers(t) /\ entries \in Seq(Entry)
      /\ now \in Nat /\ n \in Nat /\ DOMAIN entries = 1 .. n
      /\ \A i \in DOMAIN entries : entries[i] \in Entry
      /\ \A i, j \in DOMAIN entries : entries[i].key = entries[j].key => i = j
      /\ lastSet \in [Keys -> [value : Values \cup {None}, at : Nat]]
      /\ TTL \in Nat
  BY ExpiringCacheAssumption DEF TypeOK, Times
<1>2. op[t] \in [at : Steps, key : Keys, value : Values \cup {None}, time : Nat]
  BY OpRecord DEF Insert
<1>3. /\ op[t].at = "makeRoom" /\ lk[t] = "writing" /\ n < MaxEntries
      /\ op[t].value \in Values /\ op[t].time <= now
      /\ \A i \in DOMAIN entries : /\ entries[i].key # k
                                   /\ entries[i].expires <= op[t].time + TTL
  BY <1>1 DEF Insert, Remembers, Has
<1>4. /\ new \in Entry /\ UNCHANGED <<lk, now>>
      /\ op' \in [Threads -> Op] /\ op'[t].at = "release"
      /\ \A u \in Threads \ {t} : op'[u] = op[u]
  <2>1. new \in Entry
    BY <1>1, <1>2, <1>3 DEF Entry
  <2>2. Goto(t, "release") /\ UNCHANGED <<lk, now>>
    BY DEF Insert, lockVars
  <2>3. QED
    BY <2>1, <2>2, <1>1, <1>2 DEF Goto, Op
<1>5. /\ entries' \in Seq(Entry) /\ Len(entries') = n + 1
      /\ DOMAIN entries' = 1 .. n + 1
      /\ \A i \in DOMAIN entries : entries'[i] = entries[i]
      /\ entries'[n + 1] = new
  BY <1>1, <1>4 DEF Insert
<1>6. /\ lastSet' \in [Keys -> [value : Values \cup {None}, at : Nat]]
      /\ lastSet'[k] = [value |-> op[t].value, at |-> op[t].time]
      /\ \A j \in Keys \ {k} : lastSet'[j] = lastSet[j]
  BY <1>1, <1>2 DEF Insert
<1> HIDE DEF new, k
<1>7. \A i \in DOMAIN entries' : i \in DOMAIN entries \/ i = n + 1
  BY <1>1, <1>5
<1>8. new.key = k /\ new.value = op[t].value /\ new.expires = op[t].time + TTL
  BY DEF new
<1>9. TypeOK'
  <2>1. \A i, j \in DOMAIN entries' : entries'[i].key = entries'[j].key => i = j
    BY <1>1, <1>3, <1>5, <1>7, <1>8
  <2>2. QED
    BY <2>1, <1>4, <1>5, <1>6 DEF TypeOK
<1>10. Table'
  <2>1. WithinCapacity'
    BY <1>1, <1>3, <1>5, ExpiringCacheAssumption DEF WithinCapacity
  <2>2. OldestExpiresFirst'
    <3> SUFFICES ASSUME NEW i \in DOMAIN entries', NEW j \in DOMAIN entries', i < j
                 PROVE  entries'[i].expires <= entries'[j].expires
      BY DEF OldestExpiresFirst
    <3>1. i \in DOMAIN entries
      BY <1>1, <1>5
    <3>2. QED
      BY <3>1, <1>3, <1>5, <1>7, <1>8
         DEF Table, EvictionIsOrderly, OldestExpiresFirst
  <2>3. ASSUME NEW i \in DOMAIN entries'
        PROVE  /\ entries'[i].value = lastSet'[entries'[i].key].value
               /\ entries'[i].expires = lastSet'[entries'[i].key].at + TTL
               /\ entries'[i].expires <= now + TTL
    <3>1. CASE i = n + 1
      <4>1. op[t].time + TTL <= now + TTL
        BY <1>1, <1>2, <1>3
      <4>2. QED
        BY <4>1, <3>1, <1>5, <1>6, <1>8
    <3>2. CASE i \in DOMAIN entries
      <4>1. entries[i].key \in Keys \ {k}
        BY <3>2, <1>1, <1>3 DEF Entry
      <4>2. QED
        BY <4>1, <3>2, <1>5, <1>6 DEF Table
    <3>3. QED
      BY <3>1, <3>2, <1>7
  <2>4. QED
    BY <2>1, <2>2, <2>3, <1>4 DEF Table, EvictionIsOrderly
<1>11. ASSUME NEW u \in Threads
       PROVE  Holds(u)' /\ Remembers(u)' /\ op'[u].at # "leave"
  <2>1. CASE u = t
    BY <2>1, <1>3, <1>4 DEF Holds, Remembers
  <2>2. CASE u # t
    BY <2>2, <1>3, <1>4, WriterIsAlone DEF Holds, Remembers
  <2>3. QED
    BY <2>1, <2>2
<1>12. QED
  BY <1>9, <1>10, <1>11 DEF HitIsLatestAndFresh

LEMMA CacheInvStep ==
    ASSUME CacheInv, LockInv, [Next]_vars
    PROVE  CacheInv'
<1>1. MutualExclusion /\ LockTypeOK
  BY DEF LockInv
<1>2. CASE UNCHANGED vars
  BY <1>2 DEF vars, cacheVars, lockVars, CacheInv, TypeOK, Table, EvictionIsOrderly,
     WithinCapacity, OldestExpiresFirst, Holds, Remembers, Has, HitIsLatestAndFresh
<1>3. QED
  BY <1>1, <1>2, TickKeepsCache, LockingSteps, ReadingSteps, DroppingSteps, InsertStep
     DEF Next

LEMMA CacheAndLockHold == Spec => [](CacheInv /\ LockInv)
<1>1. Spec => []LockInv
  BY CacheUsesTheLock, LockInvHolds, PTL
<1>2. QED
  BY <1>1, InitEstablishesCacheInv, CacheInvStep, PTL DEF Spec

(* Entries have distinct keys and the operations in flight their types.    *)
THEOREM CacheTypeCorrect == Spec => []TypeOK
<1>1. CacheInv => TypeOK
  BY DEF CacheInv
<1>2. QED
  BY <1>1, CacheAndLockHold, PTL

(* For every TTL and capacity, however gets and sets interleave, the table *)
(* stays within its bound and popitem(last=False) finds the entry that     *)
(* would have expired first.                                               *)
THEOREM EvictionTakesTheOldest == Spec => []EvictionIsOrderly
<1>1. CacheInv => EvictionIsOrderly
  BY DEF CacheInv, Table
<1>2. QED
  BY <1>1, CacheAndLockHold, PTL

(* What get returns was stored by the last set of that key, less than a    *)
(* TTL before.                                                             *)
THEOREM HitsAreLatest == Spec => []HitIsLatestAndFresh
<1>1. CacheInv => HitIsLatestAndFresh
  BY DEF CacheInv
<1>2. QED
  BY <1>1, CacheAndLockHold, PTL

(* A refreshed answer outlives the get that found the old one expired, and *)
(* every set of another key that does not need its place.                  *)
THEOREM RefreshedAnswersStay == Spec => FreshEntriesSurvive
<1>1. ASSUME CacheInv, LockInv, Next, NEW k \in Keys,
             Has(k), EntryOf(k).expires > now, ~Has(k)'
      PROVE  \E t \in Threads :
               \/ op[t].at = "expire" /\ op[t].key = k
               \/ /\ op[t].at = "makeRoom"
                  /\ Len(entries) = MaxEntries /\ Place(k) = 1
  <2>1. /\ entries \in Seq(Entry) /\ now \in Nat /\ Len(entries) \in Nat
        /\ Place(k) \in DOMAIN entries /\ entries[Place(k)].key = k
        /\ entries[Place(k)].expires > now
        /\ \A i \in DOMAIN entries : entries[i].expires \in Nat
        /\ \A i \in DOMAIN entries : entries[i].key = k => i = Place(k)
    <3>1. /\ entries \in Seq(Entry) /\ now \in Nat
          /\ \A i, j \in DOMAIN entries : entries[i].key = entries[j].key => i = j
      BY <1>1 DEF CacheInv, TypeOK, Times
    <3>2. /\ Place(k) \in DOMAIN entries /\ entries[Place(k)].key = k
          /\ entries[Place(k)].expires > now
      BY <1>1, PlaceHoldsKey DEF EntryOf
    <3>3. \A i \in DOMAIN entries : entries[i].key = k => i = Place(k)
      <4>1. ASSUME NEW i \in DOMAIN entries, entries[i].key = k
            PROVE  i = Place(k)
        <5>1. entries[i].key = entries[Place(k)].key
          BY <4>1, <3>2
        <5>2. QED
          BY <5>1, <3>1, <3>2
      <4>2. QED
        BY <4>1
    <3>4. \A i \in DOMAIN entries : entries[i].expires \in Nat
      <4>1. \A i \in DOMAIN entries : entries[i] \in Entry
        BY <3>1
      <4>2. QED
        BY <4>1 DEF Entry
    <3>5. QED
      BY <3>1, <3>2, <3>3, <3>4
  <2>2. ASSUME NEW i \in DOMAIN entries, entries' = Pop(i)
        PROVE  i = Place(k)
    <3> SUFFICES ASSUME i # Place(k) PROVE FALSE
      OBVIOUS
    <3>1. \E j \in DOMAIN Pop(i) : Pop(i)[j] = entries[Place(k)]
      BY <2>1, PopShape
    <3>2. \A j \in DOMAIN entries' : entries'[j].key # k
      BY <1>1 DEF Has
    <3>3. QED
      BY <2>1, <2>2, <3>1, <3>2
  <2>3. ~ UNCHANGED entries
    BY <1>1 DEF Has
  <2>4. PICK t \in Threads :
          Recheck(t) \/ DropExpired(t) \/ DropOld(t) \/ Evict(t) \/ Insert(t)
    BY <1>1, <2>3 DEF Next, Tick, Blocked, BeginGet, Lookup, LeaveLookup, LeaveStale,
       BeginReap, BeginSet, ReadClock, Release, cacheVars
  <2>5. op[t] \in [at : Steps, key : Keys, value : Values \cup {None}, time : Nat]
    BY <1>1, <2>4, OpRecord DEF CacheInv, Steps, Recheck, DropExpired, DropOld,
       Evict, Insert
  <2>6. Remembers(t)
    BY <1>1 DEF CacheInv
  <2>7. ~Recheck(t)
    <3> SUFFICES ASSUME Recheck(t) PROVE FALSE
      OBVIOUS
    <3>1. /\ Has(op[t].key) /\ EntryOf(op[t].key).expires <= op[t].time
          /\ entries' = Pop(Place(op[t].key)) /\ op[t].at = "recheck"
      BY <2>3 DEF Recheck
    <3>2. Place(op[t].key) = Place(k)
      BY <3>1, <2>2, PlaceHoldsKey
    <3>3. QED
      BY <3>1, <3>2, <2>1, <2>5, <2>6 DEF Remembers, EntryOf
  <2>8. ~DropExpired(t)
    <3> SUFFICES ASSUME DropExpired(t) PROVE FALSE
      OBVIOUS
    <3>1. PICK i \in Expired(t) : entries' = Pop(i)
      BY DEF DropExpired
    <3>2. /\ i \in DOMAIN entries /\ entries[i].expires <= op[t].time
          /\ op[t].at = "expire"
      BY DEF Expired, DropExpired
    <3>3. i = Place(k)
      BY <3>1, <3>2, <2>2
    <3>4. QED
      BY <3>2, <3>3, <2>1, <2>5, <2>6 DEF Remembers
  <2>9. CASE DropOld(t)
    <3>1. /\ op[t].at = "expire" /\ Has(op[t].key)
          /\ entries' = Pop(Place(op[t].key))
      BY <2>3, <2>9 DEF DropOld, Without
    <3>2. Place(op[t].key) = Place(k) /\ entries[Place(op[t].key)].key = op[t].key
      BY <3>1, <2>2, PlaceHoldsKey
    <3>3. QED
      BY <3>1, <3>2, <2>1
  <2>10. CASE Evict(t)
    <3>1. /\ op[t].at = "makeRoom" /\ Len(entries) >= MaxEntries
          /\ entries' = Pop(1)
      BY <2>10 DEF Evict
    <3>2. Len(entries) = MaxEntries
      BY <3>1, <2>1, <1>1, ExpiringCacheAssumption
         DEF CacheInv, Table, EvictionIsOrderly, WithinCapacity
    <3>3. 1 \in DOMAIN entries
      BY <3>2, <2>1, ExpiringCacheAssumption
    <3>4. QED
      BY <3>1, <3>2, <3>3, <2>2
  <2>11. ~Insert(t)
    <3> SUFFICES ASSUME Insert(t) PROVE FALSE
      OBVIOUS
    <3>1. /\ Place(k) \in DOMAIN entries'
          /\ entries'[Place(k)] = entries[Place(k)]
      BY <2>1 DEF Insert
    <3>2. QED
      BY <3>1, <2>1, <1>1 DEF Has
  <2>12. QED
    BY <2>4, <2>7, <2>8, <2>9, <2>10, <2>11
<1>2. ASSUME CacheInv, LockInv, [Next]_vars
      PROVE  [\A k \in Keys :
                Has(k) /\ EntryOf(k).expires > now /\ ~Has(k)' =>
                   \E t \in Threads :
                     \/ op[t].at = "expire" /\ op[t].key = k
                     \/ /\ op[t].at = "makeRoom"
                        /\ Len(entries) = MaxEntries /\ Place(k) = 1]_vars
  BY <1>1, <1>2
<1>3. QED
  BY <1>2, CacheAndLockHold, PTL DEF Spec, FreshEntriesSurvive

-----------------------------------------------------------------------------
(***************************************************************************)
(* The invariant of is_allowed: a call and its get or set are in step, and *)
(* an answer that Kubernetes would no longer give, wherever it is, was     *)
(* given before the latest change.                                         *)
(***************************************************************************)
GetSteps == {"lookup", "leave", "leaveStale", "reap", "recheck", "release"}

SetSteps == {"clock", "expire", "makeRoom", "release"}

CallInv ==
    /\ grants \in [Keys -> Values]
    /\ changed \in [Keys -> Nat]
    /\ call \in [Threads -> Call]
    /\ \A t \in Threads :
        /\ call[t].at \in {"idle", "review", "answered"} => op[t] = IdleOp
        /\ call[t].at = "get" => op[t].at \in GetSteps
        /\ call[t].at = "set" => op[t].at \in SetSteps
        /\ op[t] # IdleOp => op[t].key = call[t].key
        /\ call[t].at \in {"answered", "set"} => call[t].answer \in Values

(* Until when what is stored of a key may differ from what it would be now.*)
Bound(k) == changed[k] + MaxReview + TTL

Answers(t) ==
    /\ call[t].at \in {"answered", "set"} =>
        /\ \/ call[t].answer = grants[call[t].key]
           \/ call[t].reviewed <= changed[call[t].key]
        /\ call[t].reviewed <= now
        /\ op[t].at # "release" => now <= call[t].reviewed + MaxReview
    /\ op[t].at \in {"clock", "expire", "makeRoom"} =>
        call[t].at = "set" /\ op[t].value = call[t].answer
    /\ op[t].at = "leave" /\ op[t].value # None => op[t].time <= now

GrantInv ==
    /\ \A k \in Keys : changed[k] <= now
    /\ \A t \in Threads : Answers(t)
    /\ \A i \in DOMAIN entries :
        \/ entries[i].value = grants[entries[i].key]
        \/ entries[i].expires <= Bound(entries[i].key)
    /\ ChangesTakeEffect

-----------------------------------------------------------------------------
(* What a step inside get or set does to the operation it belongs to.      *)
LEMMA StepInCache ==
    ASSUME CacheInv, NEW t \in Threads, InCache(t)
    PROVE  /\ now' = now
           /\ \A u \in Threads \ {t} : op'[u] = op[u]
           /\ op'[t] = op[t] \/ (op[t] # IdleOp /\ op'[t].key = op[t].key)
           /\ op[t].at \in GetSteps => op'[t].at \in GetSteps
           /\ op[t].at \in SetSteps => op'[t].at \in SetSteps
           /\ op[t].at = "idle" => op'[t] = op[t]
           /\ op'[t].at \in {"clock", "expire", "makeRoom"} =>
                /\ op[t].at \in {"clock", "expire", "makeRoom"}
                /\ op'[t].value = op[t].value
           /\ op[t].at = "release" => op'[t].at = "release"
<1>1. op \in [Threads -> Op]
  BY DEF CacheInv, TypeOK
<1>2. /\ now' = now
      /\ \A u \in Threads \ {t} : op'[u] = op[u]
  BY <1>1 DEF InCache, Blocked, Lookup, LeaveStale, BeginReap, Recheck, ReadClock,
     DropExpired, DropOld, Evict, Insert, Goto, cacheVars
<1>3. CASE Blocked(t) \/ DropExpired(t) \/ Evict(t)
  <2>1. op' = op
    BY <1>3 DEF Blocked, DropExpired, Evict, cacheVars
  <2>2. QED
    BY <2>1, <1>2
<1>4. CASE \/ Lookup(t) \/ LeaveStale(t) \/ BeginReap(t) \/ Recheck(t)
           \/ ReadClock(t) \/ DropOld(t) \/ Insert(t)
  <2>1. op[t].at \in Steps /\ op[t].at # "idle" /\ op[t] # IdleOp
    BY <1>4 DEF Lookup, LeaveStale, BeginReap, Recheck, ReadClock, DropOld, Insert,
       Steps, IdleOp
  <2>2. op[t] \in [at : Steps, key : Keys, value : Values \cup {None}, time : Nat]
    BY <2>1, OpRecord DEF CacheInv
  <2>3. op'[t].key = op[t].key
    BY <1>1, <1>4, <2>2 DEF Lookup, LeaveStale, BeginReap, Recheck, ReadClock,
       DropOld, Insert, Goto
  <2>4. CASE Lookup(t)
    BY <2>1, <2>2, <2>3, <2>4, <1>1, <1>2 DEF Lookup, Goto, GetSteps, SetSteps
  <2>5. CASE LeaveStale(t) \/ BeginReap(t) \/ Recheck(t)
    BY <2>1, <2>2, <2>3, <2>5, <1>1, <1>2
       DEF LeaveStale, BeginReap, Recheck, Goto, GetSteps, SetSteps
  <2>6. CASE ReadClock(t) \/ DropOld(t) \/ Insert(t)
    BY <2>1, <2>2, <2>3, <2>6, <1>1, <1>2
       DEF ReadClock, DropOld, Insert, Goto, GetSteps, SetSteps
  <2>7. QED
    BY <1>4, <2>4, <2>5, <2>6
<1>5. QED
  BY <1>3, <1>4 DEF InCache

(* What is_allowed does with the cache is what anybody may do with it.     *)
LEMMA CallStepIsCacheStep ==
    ASSUME CallInv, [AuthorizerNext]_authorizerVars
    PROVE  [Next]_vars
<1>1. CASE UNCHANGED authorizerVars
  BY <1>1 DEF authorizerVars
<1>2. CASE TimePasses
  BY <1>2 DEF TimePasses, Next
<1>3. ASSUME NEW k \in Volatile, ChangeGrant(k)
      PROVE  UNCHANGED vars
  BY <1>3 DEF ChangeGrant
<1>4. ASSUME NEW t \in Threads,
             InCache(t) \/ Hit(t) \/ Miss(t) \/ Stored(t)
      PROVE  Next
  BY <1>4 DEF InCache, Hit, Miss, Stored, Next
<1>5. ASSUME NEW t \in Threads, Review(t) \/ ReviewFails(t)
      PROVE  UNCHANGED vars
  BY <1>5 DEF Review, ReviewFails
<1>6. ASSUME NEW t \in Threads, NEW q \in Questions, IsAllowed(t, q)
      PROVE  Next
  BY <1>6, AuthorizerAssumption DEF IsAllowed, Next
<1>7. ASSUME NEW t \in Threads, Store(t)
      PROVE  Next
  <2>1. call[t].key \in Keys /\ call[t].answer \in Values
    BY <1>7 DEF CallInv, Call, IdleCall, Store
  <2>2. QED
    BY <1>7, <2>1 DEF Store, Next
<1>8. QED
  BY <1>1, <1>2, <1>3, <1>4, <1>5, <1>6, <1>7 DEF AuthorizerNext

LEMMA CallInvStep ==
    ASSUME CallInv, CacheInv, [AuthorizerNext]_authorizerVars
    PROVE  CallInv'
<1>1. /\ grants \in [Keys -> Values] /\ changed \in [Keys -> Nat]
      /\ call \in [Threads -> Call] /\ op \in [Threads -> Op]
      /\ \A t \in Threads : op[t] # IdleOp => op[t].at \in Steps
  BY DEF CallInv, CacheInv, TypeOK, Op
<1>2. CASE UNCHANGED authorizerVars \/ TimePasses
  BY <1>2 DEF authorizerVars, vars, cacheVars, rbacVars, TimePasses, Tick, CallInv
<1>3. ASSUME NEW k \in Volatile, ChangeGrant(k)
      PROVE  CallInv'
  <2>1. now \in Nat
    BY DEF CacheInv, TypeOK, Times
  <2>2. grants' \in [Keys -> Values] /\ changed' \in [Keys -> Nat]
    BY <2>1, <1>1, <1>3, AuthorizerAssumption DEF ChangeGrant
  <2>3. QED
    BY <2>2, <1>3 DEF ChangeGrant, vars, cacheVars, CallInv
<1>4. ASSUME NEW t \in Threads, InCache(t)
      PROVE  CallInv'
  BY <1>4, StepInCache DEF InCache, rbacVars, CallInv, GetSteps, SetSteps, IdleOp
<1>5. ASSUME NEW t \in Threads,
             \/ (\E q \in Questions : IsAllowed(t, q)) \/ Hit(t) \/ Miss(t)
             \/ Review(t) \/ ReviewFails(t) \/ Store(t) \/ Stored(t)
      PROVE  CallInv'
  <2>1. ASSUME UNCHANGED rbacVars, call' \in [Threads -> Call],
               \A u \in Threads \ {t} : call'[u] = call[u] /\ op'[u] = op[u],
               \/ /\ op'[t] = IdleOp
                  /\ call'[t].at \in {"idle", "review", "answered"}
                  /\ call'[t].at = "answered" => call'[t].answer \in Values
               \/ /\ op'[t].key = call'[t].key
                  /\ op'[t].at = "lookup" /\ call'[t].at = "get"
               \/ /\ op'[t].key = call'[t].key /\ call'[t].answer \in Values
                  /\ op'[t].at = "clock" /\ call'[t].at = "set"
        PROVE  CallInv'
    BY <2>1 DEF CallInv, rbacVars, GetSteps, SetSteps, IdleOp
  <2>2. call[t] # IdleCall =>
          call[t] \in [at : CallSteps, key : Keys, answer : Values \cup {None},
                       reviewed : Nat]
    BY <1>1 DEF Call
  <2>3. CASE Hit(t) \/ Stored(t)
    <3>1. op' = [op EXCEPT ![t] = IdleOp] /\ call' = [call EXCEPT ![t] = IdleCall]
      BY <2>3 DEF Hit, Stored, LeaveLookup, Release
    <3>2. IdleCall \in Call /\ IdleCall.at = "idle"
      BY DEF Call, IdleCall
    <3>3. UNCHANGED rbacVars
      BY <2>3 DEF Hit, Stored
    <3>4. QED
      BY <3>1, <3>2, <3>3, <1>1, <2>1
  <2>4. CASE Miss(t)
    <3>1. /\ op' = [op EXCEPT ![t] = IdleOp] /\ UNCHANGED rbacVars
          /\ call[t].at = "get" /\ call' = [call EXCEPT ![t].at = "review"]
      BY <2>4 DEF Miss, LeaveLookup, Release
    <3>2. call' \in [Threads -> Call] /\ call'[t].at = "review"
      BY <3>1, <2>2, <1>1 DEF Call, CallSteps, IdleCall
    <3>3. QED
      BY <3>1, <3>2, <1>1, <2>1
  <2>5. CASE ReviewFails(t)
    <3>1. /\ op' = op /\ op[t] = IdleOp /\ UNCHANGED rbacVars
          /\ call' = [call EXCEPT ![t] = IdleCall]
      BY <2>5 DEF ReviewFails, vars, cacheVars, CallInv
    <3>2. IdleCall \in Call /\ IdleCall.at = "idle"
      BY DEF Call, IdleCall
    <3>3. QED
      BY <3>1, <3>2, <1>1, <2>1
  <2>6. CASE Review(t)
    <3>1. /\ op' = op /\ op[t] = IdleOp /\ UNCHANGED rbacVars
          /\ call[t].at = "review" /\ now \in Nat
          /\ call' = [call EXCEPT ![t].at = "answered", ![t].reviewed = now,
                                  ![t].answer = grants[call[t].key]]
      BY <2>6 DEF Review, vars, cacheVars, CallInv, CacheInv, TypeOK, Times
    <3>2. grants[call[t].key] \in Values
      BY <3>1, <2>2, <1>1 DEF IdleCall
    <3>3. /\ call' \in [Threads -> Call] /\ call'[t].at = "answered"
          /\ call'[t].answer \in Values
      <4>1. call[t] \in [at : CallSteps, key : Keys, answer : Values \cup {None},
                         reviewed : Nat]
        BY <3>1, <2>2 DEF IdleCall
      <4>2. PICK v \in Values : v = grants[call[t].key]
        BY <3>2
      <4> DEFINE new == [call[t] EXCEPT !.at = "answered", !.reviewed = now,
                                        !.answer = v]
      <4>3. new \in [at : CallSteps, key : Keys, answer : Values \cup {None},
                     reviewed : Nat]
        BY <3>1, <4>1 DEF CallSteps
      <4>4. new.at = "answered" /\ new.answer = v
        BY <4>1
      <4>5. call' = [call EXCEPT ![t] = new]
        <5>1. call' = [call EXCEPT ![t].at = "answered", ![t].reviewed = now,
                                   ![t].answer = v]
          BY <3>1, <4>2
        <5>2. QED
          BY <5>1, <1>1
      <4> HIDE DEF new
      <4>6. QED
        BY <4>3, <4>4, <4>5, <1>1 DEF Call
    <3>4. QED
      BY <3>1, <3>3, <1>1, <2>1
  <2>7. CASE Store(t)
    <3>1. /\ UNCHANGED rbacVars /\ call[t].at = "answered"
          /\ op' = [op EXCEPT ![t] = [at |-> "clock", key |-> call[t].key,
                                      value |-> call[t].answer, time |-> 0]]
          /\ call' = [call EXCEPT ![t].at = "set"]
      BY <2>7 DEF Store, BeginSet
    <3>2. /\ call' \in [Threads -> Call] /\ call'[t].at = "set"
          /\ call'[t].key = call[t].key /\ call'[t].answer = call[t].answer
      BY <3>1, <2>2, <1>1 DEF Call, CallSteps, IdleCall
    <3>3. call[t].answer \in Values
      BY <3>1 DEF CallInv
    <3>4. QED
      BY <3>1, <3>2, <3>3, <1>1, <2>1
  <2>8. ASSUME NEW q \in Questions, IsAllowed(t, q)
        PROVE  CallInv'
    <3>1. /\ UNCHANGED rbacVars
          /\ op' = [op EXCEPT ![t] = [at |-> "lookup", key |-> Key(q),
                                      value |-> None, time |-> 0]]
          /\ call' = [call EXCEPT ![t] = [at |-> "get", key |-> Key(q),
                                          answer |-> None, reviewed |-> 0]]
      BY <2>8 DEF IsAllowed, BeginGet
    <3>2. /\ call' \in [Threads -> Call] /\ call'[t].at = "get"
          /\ call'[t].key = Key(q)
      BY <3>1, <1>1, AuthorizerAssumption DEF Call, CallSteps
    <3>3. QED
      BY <3>1, <3>2, <1>1, <2>1
  <2>9. QED
    BY <1>5, <2>3, <2>4, <2>5, <2>6, <2>7, <2>8
<1>6. QED
  BY <1>2, <1>3, <1>4, <1>5 DEF AuthorizerNext

LEMMA InitEstablishesCallInv == AuthorizerInit => CallInv
BY DEF AuthorizerInit, Init, CallInv, Call, IdleCall, IdleOp

LEMMA CallAndCacheHold == AuthorizerSpec => [](CallInv /\ CacheInv /\ LockInv)
<1>1. AuthorizerInit => CallInv /\ CacheInv /\ LockInv
  <2>1. LockInit => LockInv
    BY InitEstablishesLockInv
  <2>2. QED
    BY <2>1, InitEstablishesCallInv, InitEstablishesCacheInv DEF AuthorizerInit, Init
<1>2. CallInv /\ CacheInv /\ LockInv /\ [AuthorizerNext]_authorizerVars =>
        CallInv' /\ CacheInv' /\ LockInv'
  BY CallInvStep, CallStepIsCacheStep, CacheInvStep, CacheStepIsLockStep, LockInvStep
<1>3. QED
  BY <1>1, <1>2, PTL DEF AuthorizerSpec

(* A call and the get or set it is in stay in step.                        *)
THEOREM CallTypeCorrect == AuthorizerSpec => []AuthorizerTypeOK
<1>1. CallInv /\ CacheInv => AuthorizerTypeOK
  BY DEF CallInv, CacheInv, AuthorizerTypeOK
<1>2. QED
  BY <1>1, CallAndCacheHold, PTL

(* is_allowed is a user of the cache like any other, so what is proved of  *)
(* the cache under arbitrary gets and sets holds under is_allowed.         *)
THEOREM CallsUseTheCache == AuthorizerSpec => Spec
<1>1. AuthorizerInit => Init
  BY DEF AuthorizerInit
<1>2. QED
  BY <1>1, CallAndCacheHold, CallStepIsCacheStep, PTL DEF AuthorizerSpec, Spec

-----------------------------------------------------------------------------
LEMMA InitEstablishesGrantInv == AuthorizerInit => GrantInv
BY AuthorizerAssumption
   DEF AuthorizerInit, Init, GrantInv, Answers, IdleCall, IdleOp, ChangesTakeEffect

(* The numbers and records that the bounds are about.                      *)
LEMMA GrantTypes ==
    ASSUME CacheInv, CallInv
    PROVE  /\ now \in Nat /\ TTL \in Nat /\ TTL > 0 /\ MaxReview \in Nat
           /\ \A k \in Keys : changed[k] \in Nat /\ Bound(k) \in Nat
           /\ entries \in Seq(Entry)
           /\ \A i \in DOMAIN entries : entries[i] \in Entry
           /\ \A i \in DOMAIN entries : entries[i].expires <= now + TTL
           /\ \A t \in Threads : op[t].at \in Steps =>
                op[t] \in [at : Steps, key : Keys, value : Values \cup {None},
                           time : Nat]
           /\ \A t \in Threads : call[t].at \in CallSteps =>
                call[t] \in [at : CallSteps, key : Keys,
                             answer : Values \cup {None}, reviewed : Nat]
<1>1. /\ entries \in Seq(Entry) /\ now \in Nat
      /\ TTL \in Nat /\ TTL > 0 /\ MaxReview \in Nat
  BY ExpiringCacheAssumption, AuthorizerAssumption DEF CacheInv, TypeOK, Times
<1>2. \A k \in Keys : changed[k] \in Nat /\ Bound(k) \in Nat
  BY <1>1 DEF CallInv, Bound
<1>3. \A i \in DOMAIN entries : entries[i] \in Entry
  BY <1>1
<1>4. \A i \in DOMAIN entries : entries[i].expires <= now + TTL
  BY DEF CacheInv, Table
<1>5. \A t \in Threads : op[t].at \in Steps =>
        op[t] \in [at : Steps, key : Keys, value : Values \cup {None}, time : Nat]
  BY OpRecord DEF CacheInv
<1>6. \A t \in Threads : call[t].at \in CallSteps =>
        call[t] \in [at : CallSteps, key : Keys, answer : Values \cup {None},
                     reviewed : Nat]
  BY DEF CallInv, Call, IdleCall, CallSteps
<1>7. QED
  BY <1>1, <1>2, <1>3, <1>4, <1>5, <1>6

(* A grant changes: what is stored, held or about to be stored is from     *)
(* before, and will be gone in time.                                       *)
LEMMA ChangeKeepsGrantInv ==
    ASSUME GrantInv, CacheInv, CallInv, NEW k \in Volatile, ChangeGrant(k)
    PROVE  GrantInv'
<1>1. /\ UNCHANGED <<now, entries, op, call>> /\ k \in Keys
      /\ changed'[k] = now /\ changed[k] <= now
      /\ \A j \in Keys \ {k} : changed'[j] = changed[j] /\ grants'[j] = grants[j]
  BY AuthorizerAssumption
     DEF ChangeGrant, vars, cacheVars, CallInv, GrantInv
<1>2. \A j \in Keys : changed[j] <= changed'[j] /\ Bound(j) <= Bound(j)'
  BY <1>1, GrantTypes DEF Bound
<1>3. \A j \in Keys : changed'[j] <= now'
  BY <1>1, GrantTypes DEF GrantInv
<1>4. ASSUME NEW t \in Threads
      PROVE  Answers(t)'
  <2>1. CASE call[t].at \in {"answered", "set"}
    <3>1. call[t].key \in Keys /\ call[t].reviewed \in Nat /\ call[t].reviewed <= now
      BY <2>1, GrantTypes DEF CallSteps, GrantInv, Answers
    <3>2. \/ call[t].answer = grants'[call[t].key]
          \/ call[t].reviewed <= changed'[call[t].key]
      <4>1. CASE call[t].key = k
        BY <4>1, <3>1, <1>1
      <4>2. CASE call[t].key # k
        BY <4>2, <2>1, <3>1, <1>1 DEF GrantInv, Answers
      <4>3. QED
        BY <4>1, <4>2
    <3>3. QED
      BY <3>1, <3>2, <2>1, <1>1 DEF GrantInv, Answers
  <2>2. CASE call[t].at \notin {"answered", "set"}
    BY <2>2, <1>1 DEF GrantInv, Answers
  <2>3. QED
    BY <2>1, <2>2
<1>5. ASSUME NEW i \in DOMAIN entries
      PROVE  \/ entries[i].value = grants'[entries[i].key]
             \/ entries[i].expires <= Bound(entries[i].key)'
  <2>1. entries[i].key \in Keys /\ entries[i].expires \in Nat
    BY GrantTypes DEF Entry
  <2>2. CASE entries[i].key = k
    <3>1. now + TTL <= changed'[k] + MaxReview + TTL
      BY <1>1, GrantTypes
    <3>2. QED
      BY <3>1, <2>1, <2>2, <1>1, GrantTypes DEF Bound
  <2>3. CASE entries[i].key # k
    BY <2>1, <2>3, <1>1 DEF GrantInv, Bound
  <2>4. QED
    BY <2>2, <2>3
<1>6. ASSUME NEW t \in Threads, op[t].at = "leave", op[t].value # None
      PROVE  \/ op[t].value = grants'[op[t].key]
             \/ op[t].time < changed'[op[t].key] + MaxReview + TTL
  <2>1. op[t].key \in Keys /\ op[t].time \in Nat /\ op[t].time <= now
    BY <1>6, GrantTypes DEF Steps, GrantInv, Answers
  <2>2. CASE op[t].key = k
    BY <2>1, <2>2, <1>1, GrantTypes
  <2>3. CASE op[t].key # k
    BY <2>1, <2>3, <1>1, <1>6 DEF GrantInv, ChangesTakeEffect
  <2>4. QED
    BY <2>2, <2>3
<1>7. QED
  BY <1>1, <1>3, <1>4, <1>5, <1>6 DEF GrantInv, ChangesTakeEffect

LEMMA TimeKeepsGrantInv ==
    ASSUME GrantInv, CacheInv, CallInv, TimePasses
    PROVE  GrantInv'
<1>1. now' = now + 1 /\ UNCHANGED <<entries, op, call, grants, changed>>
  BY DEF TimePasses, Tick, rbacVars
<1>2. ASSUME NEW t \in Threads
      PROVE  Answers(t)'
  <2>1. op[t].at = "leave" => op[t].time \in Nat
    BY GrantTypes DEF Steps
  <2>2. call[t].at \in {"answered", "set"} =>
          /\ call[t].reviewed \in Nat
          /\ op[t].at # "release" => now < call[t].reviewed + MaxReview
    BY GrantTypes DEF CallSteps, TimePasses
  <2>3. QED
    BY <2>1, <2>2, <1>1, GrantTypes DEF GrantInv, Answers
<1>3. \A k \in Keys : changed'[k] <= now'
  BY <1>1, GrantTypes DEF GrantInv
<1>4. QED
  BY <1>1, <1>2, <1>3 DEF GrantInv, ChangesTakeEffect, Bound

(* Calls outside get and set move an answer from Kubernetes to a set.      *)
LEMMA CallsKeepGrantInv ==
    ASSUME GrantInv, CacheInv, CallInv, NEW t \in Threads,
           \/ (\E q \in Questions : IsAllowed(t, q)) \/ Hit(t) \/ Miss(t)
           \/ Review(t) \/ ReviewFails(t) \/ Store(t) \/ Stored(t)
    PROVE  GrantInv'
<1>1. /\ UNCHANGED <<now, entries, grants, changed>>
      /\ call \in [Threads -> Call] /\ op \in [Threads -> Op]
      /\ \A u \in Threads \ {t} : op'[u] = op[u] /\ call'[u] = call[u]
  BY DEF IsAllowed, Hit, Miss, Review, ReviewFails, Store, Stored, BeginGet,
     LeaveLookup, Release, BeginSet, rbacVars, vars, cacheVars, CallInv, CacheInv,
     TypeOK
<1>2. ASSUME Answers(t)', op'[t].at # "leave"
      PROVE  GrantInv'
  <2>1. ASSUME NEW u \in Threads PROVE Answers(u)'
    BY <1>1, <1>2 DEF GrantInv, Answers
  <2>2. QED
    BY <2>1, <1>1, <1>2 DEF GrantInv, ChangesTakeEffect, Bound
<1>3. CASE Hit(t) \/ Stored(t)
  <2>1. op'[t] = IdleOp /\ call'[t] = IdleCall
    BY <1>1, <1>3 DEF Hit, Stored, LeaveLookup, Release
  <2>2. QED
    BY <2>1, <1>2 DEF Answers, IdleOp, IdleCall
<1>4. CASE ReviewFails(t)
  <2>1. op'[t] = IdleOp /\ call'[t] = IdleCall
    BY <1>1, <1>4 DEF ReviewFails, vars, cacheVars, CallInv
  <2>2. QED
    BY <2>1, <1>2 DEF Answers, IdleOp, IdleCall
<1>5. CASE Miss(t)
  <2>1. op'[t] = IdleOp /\ call'[t].at = "review"
    <3>1. call[t] \in [at : CallSteps, key : Keys, answer : Values \cup {None},
                       reviewed : Nat]
      BY <1>5, GrantTypes DEF Miss, CallSteps
    <3>2. QED
      BY <3>1, <1>1, <1>5 DEF Miss, LeaveLookup, Release
  <2>2. QED
    BY <2>1, <1>2 DEF Answers, IdleOp
<1>6. CASE Review(t)
  <2>1. /\ op'[t] = IdleOp /\ call[t].at = "review"
        /\ call[t] \in [at : CallSteps, key : Keys, answer : Values \cup {None},
                        reviewed : Nat]
    BY <1>1, <1>6, GrantTypes DEF Review, vars, cacheVars, CallInv, CallSteps
  <2>2. /\ call'[t].at = "answered" /\ call'[t].key = call[t].key
        /\ call'[t].reviewed = now /\ call'[t].answer = grants[call[t].key]
    BY <2>1, <1>1, <1>6 DEF Review
  <2>3. now <= now + MaxReview
    BY GrantTypes
  <2>4. QED
    BY <2>1, <2>2, <2>3, <1>1, <1>2, GrantTypes DEF Answers, IdleOp
<1>7. CASE Store(t)
  <2>1. /\ call[t].at = "answered" /\ op[t] = IdleOp
        /\ call[t] \in [at : CallSteps, key : Keys, answer : Values \cup {None},
                        reviewed : Nat]
    BY <1>7, GrantTypes DEF Store, CallInv, CallSteps
  <2>2. /\ call'[t] = [call[t] EXCEPT !.at = "set"]
        /\ op'[t] = [at |-> "clock", key |-> call[t].key,
                     value |-> call[t].answer, time |-> 0]
    BY <1>1, <1>7 DEF Store, BeginSet
  <2>3. /\ call'[t].at = "set" /\ call'[t].key = call[t].key
        /\ call'[t].answer = call[t].answer /\ call'[t].reviewed = call[t].reviewed
        /\ op'[t].at = "clock" /\ op'[t].value = call[t].answer
    BY <2>1, <2>2
  <2>4. QED
    BY <2>1, <2>3, <1>1, <1>2 DEF GrantInv, Answers, IdleOp
<1>8. ASSUME NEW q \in Questions, IsAllowed(t, q)
      PROVE  GrantInv'
  <2>1. call'[t].at = "get" /\ op'[t].at = "lookup"
    BY <1>1, <1>8 DEF IsAllowed, BeginGet
  <2>2. QED
    BY <2>1, <1>2 DEF Answers
<1>9. QED
  BY <1>3, <1>4, <1>5, <1>6, <1>7, <1>8

(* What a step inside get or set leaves in the table was there before, or  *)
(* is the answer that the call stores.                                     *)
LEMMA TableInCache ==
    ASSUME CacheInv, CallInv, GrantInv, NEW t \in Threads, InCache(t),
           NEW j \in DOMAIN entries'
    PROVE  \/ \E m \in DOMAIN entries : entries'[j] = entries[m]
           \/ /\ op[t].at = "makeRoom"
              /\ entries'[j] = [key |-> op[t].key, value |-> op[t].value,
                                expires |-> op[t].time + TTL]
<1>1. TypeOK /\ Table /\ entries \in Seq(Entry)
  BY DEF CacheInv, TypeOK
<1>2. CASE UNCHANGED entries
  BY <1>2
<1>3. CASE Insert(t)
  BY <1>1, <1>3 DEF Insert
<1>4. CASE ~UNCHANGED entries /\ (Recheck(t) \/ DropOld(t))
  <2>1. Has(op[t].key) /\ entries' = Pop(Place(op[t].key)) /\ UNCHANGED <<now, lastSet>>
    BY <1>4 DEF Recheck, DropOld, Without
  <2>2. QED
    BY <2>1, <1>1, PlaceHoldsKey, PopKeepsTable
<1>5. CASE DropExpired(t)
  BY <1>1, <1>5, PopKeepsTable DEF DropExpired, Expired
<1>6. CASE Evict(t)
  <2>1. Len(entries) >= MaxEntries /\ entries' = Pop(1) /\ UNCHANGED <<now, lastSet>>
    BY <1>6 DEF Evict
  <2>2. 1 \in DOMAIN entries
    BY <2>1, <1>1, ExpiringCacheAssumption
  <2>3. QED
    BY <2>1, <2>2, <1>1, PopKeepsTable
<1>7. CASE \/ Blocked(t) \/ Lookup(t) \/ LeaveStale(t) \/ BeginReap(t)
           \/ ReadClock(t)
  BY <1>2, <1>7 DEF Blocked, Lookup, LeaveStale, BeginReap, ReadClock, cacheVars
<1>8. QED
  BY <1>2, <1>3, <1>4, <1>5, <1>6, <1>7 DEF InCache

LEMMA CacheKeepsGrantInv ==
    ASSUME GrantInv, CacheInv, CallInv, NEW t \in Threads, InCache(t)
    PROVE  GrantInv'
<1>1. /\ UNCHANGED <<now, grants, changed, call>>
      /\ \A u \in Threads \ {t} : op'[u] = op[u]
  BY StepInCache DEF InCache, rbacVars
<1>2. ASSUME NEW j \in DOMAIN entries'
      PROVE  \/ entries'[j].value = grants[entries'[j].key]
             \/ entries'[j].expires <= Bound(entries'[j].key)
  <2>1. CASE \E m \in DOMAIN entries : entries'[j] = entries[m]
    BY <2>1 DEF GrantInv
  <2>2. CASE /\ op[t].at = "makeRoom"
             /\ entries'[j] = [key |-> op[t].key, value |-> op[t].value,
                               expires |-> op[t].time + TTL]
    <3>1. /\ call[t].at = "set" /\ op[t].value = call[t].answer
          /\ op[t].key = call[t].key /\ op[t].time \in Nat /\ op[t].time <= now
          /\ call[t].key \in Keys /\ call[t].reviewed \in Nat
      BY <2>2, GrantTypes DEF GrantInv, Answers, CallInv, CacheInv, Remembers, Steps,
         CallSteps, IdleOp
    <3>2. /\ \/ call[t].answer = grants[call[t].key]
             \/ call[t].reviewed <= changed[call[t].key]
          /\ now <= call[t].reviewed + MaxReview
      BY <2>2, <3>1 DEF GrantInv, Answers
    <3>3. CASE call[t].reviewed <= changed[call[t].key]
      <4>1. op[t].time + TTL <= Bound(call[t].key)
        <5>1. /\ Bound(call[t].key) = changed[call[t].key] + MaxReview + TTL
              /\ changed[call[t].key] \in Nat /\ now \in Nat
              /\ MaxReview \in Nat /\ TTL \in Nat
          BY <3>1, GrantTypes DEF Bound
        <5>2. QED
          BY <5>1, <3>1, <3>2, <3>3
      <4>2. QED
        BY <4>1, <3>1, <2>2
    <3>4. QED
      BY <3>1, <3>2, <3>3, <2>2
  <2>3. QED
    BY <2>1, <2>2, TableInCache
<1>3. ASSUME op'[t].at = "leave", op'[t].value # None
      PROVE  /\ op'[t].time <= now
             /\ \/ op'[t].value = grants[op'[t].key]
                \/ op'[t].time < changed[op'[t].key] + MaxReview + TTL
  <2>1. CASE op'[t] = op[t]
    BY <2>1, <1>3 DEF GrantInv, Answers, ChangesTakeEffect
  <2>2. CASE op'[t] # op[t]
    <3>1. op \in [Threads -> Op]
      BY DEF CacheInv, TypeOK
    <3>2. Lookup(t)
      BY <2>2, <1>3, <3>1, OpRecord, GrantTypes
         DEF InCache, Blocked, LeaveStale, BeginReap, Recheck, ReadClock, DropExpired,
         DropOld, Evict, Insert, Goto, cacheVars, Steps
    <3>3. /\ op[t].at = "lookup" /\ op[t].value = None
          /\ op[t] \in [at : Steps, key : Keys, value : Values \cup {None}, time : Nat]
      BY <3>2, GrantTypes DEF Lookup, Steps, CacheInv, Remembers
    <3>4. /\ Has(op[t].key) /\ EntryOf(op[t].key).expires > now
          /\ op'[t].value = EntryOf(op[t].key).value /\ op'[t].time = now
          /\ op'[t].key = op[t].key
      BY <3>1, <3>2, <3>3, <1>3 DEF Lookup, Goto
    <3>5. PICK i \in DOMAIN entries : EntryOf(op[t].key) = entries[i] /\ entries[i].key = op[t].key
      BY <3>4, PlaceHoldsKey DEF EntryOf
    <3>6. \/ entries[i].value = grants[op[t].key]
          \/ entries[i].expires <= Bound(op[t].key)
      BY <3>5 DEF GrantInv
    <3>7. entries[i].expires \in Nat /\ op[t].key \in Keys
      BY <3>3, GrantTypes DEF Entry
    <3>8. now < Bound(op[t].key) \/ entries[i].value = grants[op[t].key]
      BY <3>4, <3>5, <3>6, <3>7, GrantTypes
    <3>9. QED
      BY <3>4, <3>5, <3>8, GrantTypes DEF Bound
  <2>3. QED
    BY <2>1, <2>2
<1>4. ASSUME NEW u \in Threads
      PROVE  Answers(u)'
  <2>1. CASE u # t
    BY <2>1, <1>1 DEF GrantInv, Answers
  <2>2. CASE u = t
    BY <2>2, <1>1, <1>3, StepInCache DEF GrantInv, Answers
  <2>3. QED
    BY <2>1, <2>2
<1>5. ChangesTakeEffect'
  BY <1>1, <1>3 DEF GrantInv, ChangesTakeEffect
<1>6. QED
  BY <1>1, <1>2, <1>4, <1>5 DEF GrantInv, Bound

LEMMA GrantInvStep ==
    ASSUME GrantInv, CacheInv, CallInv, [AuthorizerNext]_authorizerVars
    PROVE  GrantInv'
<1>1. CASE UNCHANGED authorizerVars
  BY <1>1 DEF authorizerVars, vars, cacheVars, rbacVars, GrantInv, Answers, Bound,
     ChangesTakeEffect
<1>2. QED
  BY <1>1, ChangeKeepsGrantInv, TimeKeepsGrantInv, CallsKeepGrantInv,
     CacheKeepsGrantInv DEF AuthorizerNext

(* For every TTL and capacity, whatever questions threads ask and however  *)
(* often grants change: a changed grant takes effect within the TTL and    *)
(* the time a review may take from its evaluation to its storing.          *)
THEOREM GrantsTakeEffect == AuthorizerSpec => []ChangesTakeEffect
<1>1. GrantInv => ChangesTakeEffect
  BY DEF GrantInv
<1>2. AuthorizerSpec => []GrantInv
  BY CallAndCacheHold, InitEstablishesGrantInv, GrantInvStep, PTL DEF AuthorizerSpec
<1>3. QED
  BY <1>1, <1>2, PTL

=============================================================================
