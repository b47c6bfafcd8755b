---------------------------- MODULE ExpiringCache ----------------------------
(***************************************************************************)
(* _ExpiringCache (auth/authorizer.py:143-190): the table of access-review *)
(* answers that request threads share under a _ReadWriteLock.  Each body   *)
(* is taken in the steps its statements make visible to a thread that the  *)
(* lock would fail to keep out.                                            *)
(***************************************************************************)
EXTENDS ReadWriteLock, Sequences

CONSTANTS
    Keys,           \* cache keys: identity, namespace, resource, verb ...
    Values,         \* the answers stored
    None,           \* get found nothing
    TTL,            \* _ttl_seconds
    MaxEntries,     \* _max_entries
    MaxTime         \* bound on the clock

ASSUME ExpiringCacheAssumption ==
    /\ TTL \in Nat \ {0}
    /\ MaxEntries \in Nat \ {0}
    /\ MaxTime \in Nat
    /\ None \notin Values

VARIABLES
    now,        \* time.time()
    entries,    \* _entries, an OrderedDict: oldest insertion first
    op,         \* the get or set each thread is in
    lastSet     \* history: value and time of the last set of each key

cacheVars == <<now, entries, op, lastSet>>
vars == <<lockVars, cacheVars>>

Times == 0 .. MaxTime

Entry == [key : Keys, value : Values, expires : Nat]

IdleOp == [at |-> "idle", key |-> None, value |-> None, time |-> 0]

Steps == {"lookup", "leave", "leaveStale", "reap", "recheck",
          "clock", "expire", "makeRoom", "release"}

(* value is the argument of a set or the result of a get; time is the now  *)
(* of a set, the time of a lookup, or the observed_expiration of a get.    *)
Op == {IdleOp} \cup
      [at : Steps, key : Keys, value : Values \cup {None}, time : Nat]

Has(k) == \E i \in DOMAIN entries : entries[i].key = k

Place(k) == CHOOSE i \in DOMAIN entries : entries[i].key = k

EntryOf(k) == entries[Place(k)]

(* The table without its i-th entry.                                       *)
Pop(i) == [j \in 1 .. Len(entries) - 1 |-> entries[IF j < i THEN j ELSE j + 1]]

Without(k) == IF Has(k) THEN Pop(Place(k)) ELSE entries

Goto(t, step) == op' = [op EXCEPT ![t].at = step]

-----------------------------------------------------------------------------
Init ==
    /\ LockInit
    /\ now = 0
    /\ entries = <<>>
    /\ op = [t \in Threads |-> IdleOp]
    /\ lastSet = [k \in Keys |-> [value |-> None, at |-> 0]]

Tick ==
    /\ now < MaxTime
    /\ now' = now + 1
    /\ UNCHANGED <<lockVars, entries, op, lastSet>>

(* A thread asleep or woken in acquire_read or acquire_write.              *)
Blocked(t) ==
    /\ RetryRead(t) \/ RetryWrite(t)
    /\ UNCHANGED cacheVars

BeginGet(t, k) ==
    /\ op[t].at = "idle"
    /\ AcquireRead(t)
    /\ op' = [op EXCEPT ![t] = [at |-> "lookup", key |-> k,
                                value |-> None, time |-> 0]]
    /\ UNCHANGED <<now, entries, lastSet>>

LookupUnexpiring(t) ==
    /\ op[t].at = "lookup"
    /\ lk[t] = "reading"
    /\ LET k == op[t].key IN
        IF Has(k)
        THEN op' = [op EXCEPT ![t].at = "leave", ![t].time = now,
                              ![t].value = EntryOf(k).value]
        ELSE Goto(t, "leave")
    /\ UNCHANGED <<lockVars, now, entries, lastSet>>

(* Under the read lock: no entry, a live one, or one whose expiration the  *)
(* thread remembers.                                                       *)
Lookup(t) ==
    /\ op[t].at = "lookup"
    /\ lk[t] = "reading"
    /\ LET k == op[t].key IN
        \/ ~Has(k) /\ Goto(t, "leave")
        \/ /\ Has(k) /\ EntryOf(k).expires > now
           /\ op' = [op EXCEPT ![t].at = "leave", ![t].time = now,
                               ![t].value = EntryOf(k).value]
        \/ /\ Has(k) /\ EntryOf(k).expires <= now
           /\ op' = [op EXCEPT ![t].at = "leaveStale",
                               ![t].time = EntryOf(k).expires]
    /\ UNCHANGED <<lockVars, now, entries, lastSet>>

(* The finally clause of the lookup; get returns the value it found.       *)
LeaveLookup(t) ==
    /\ op[t].at = "leave"
    /\ ReleaseRead(t)
    /\ op' = [op EXCEPT ![t] = IdleOp]
    /\ UNCHANGED <<now, entries, lastSet>>

LeaveStale(t) ==
    /\ op[t].at = "leaveStale"
    /\ ReleaseRead(t)
    /\ Goto(t, "reap")
    /\ UNCHANGED <<now, entries, lastSet>>

(* Between the two locks any other thread may have refreshed the entry.    *)
BeginReap(t) ==
    /\ op[t].at = "reap"
    /\ AcquireWrite(t)
    /\ Goto(t, "recheck")
    /\ UNCHANGED <<now, entries, lastSet>>

PopUnconditionally(t) ==
    /\ op[t].at = "recheck"
    /\ lk[t] = "writing"
    /\ entries' = Without(op[t].key)
    /\ Goto(t, "release")
    /\ UNCHANGED <<lockVars, now, lastSet>>

(* The entry goes only if it is no newer than the one seen to be expired.  *)
Recheck(t) ==
    /\ op[t].at = "recheck"
    /\ lk[t] = "writing"
    /\ IF Has(op[t].key) /\ EntryOf(op[t].key).expires <= op[t].time
       THEN entries' = Pop(Place(op[t].key))
       ELSE UNCHANGED entries
    /\ Goto(t, "release")
    /\ UNCHANGED <<lockVars, now, lastSet>>

-----------------------------------------------------------------------------
BeginSet(t, k, v) ==
    /\ op[t].at = "idle"
    /\ AcquireWrite(t)
    /\ op' = [op EXCEPT ![t] = [at |-> "clock", key |-> k,
                                value |-> v, time |-> 0]]
    /\ UNCHANGED <<now, entries, lastSet>>

ReadClock(t) ==
    /\ op[t].at = "clock"
    /\ lk[t] = "writing"
    /\ op' = [op EXCEPT ![t].at = "expire", ![t].time = now]
    /\ UNCHANGED <<lockVars, now, entries, lastSet>>

Expired(t) == {i \in DOMAIN entries : entries[i].expires <= op[t].time}

(* The loop over expired_keys: the next entry that had expired when set    *)
(* read the clock.                                                         *)
DropExpired(t) ==
    /\ op[t].at = "expire"
    /\ lk[t] = "writing"
    /\ \E i \in Expired(t) :
        /\ \A j \in Expired(t) : i <= j
        /\ entries' = Pop(i)
    /\ UNCHANGED <<lockVars, now, op, lastSet>>

(* An entry of the same key goes before room is made.                      *)
DropOld(t) ==
    /\ op[t].at = "expire"
    /\ lk[t] = "writing"
    /\ Expired(t) = {}
    /\ entries' = Without(op[t].key)
    /\ Goto(t, "makeRoom")
    /\ UNCHANGED <<lockVars, now, lastSet>>

(* popitem(last=False), while the table is full.                           *)
Evict(t) ==
    /\ op[t].at = "makeRoom"
    /\ lk[t] = "writing"
    /\ Len(entries) >= MaxEntries
    /\ entries' = Pop(1)
    /\ UNCHANGED <<lockVars, now, op, lastSet>>

InsertAtFront(t) ==
    /\ op[t].at = "makeRoom"
    /\ lk[t] = "writing"
    /\ Len(entries) < MaxEntries
    /\ entries' = <<[key |-> op[t].key, value |-> op[t].value,
                     expires |-> op[t].time + TTL]>> \o entries
    /\ lastSet' = [lastSet EXCEPT ![op[t].key] =
                      [value |-> op[t].value, at |-> op[t].time]]
    /\ Goto(t, "release")
    /\ UNCHANGED <<lockVars, now>>

Insert(t) ==
    /\ op[t].at = "makeRoom"
    /\ lk[t] = "writing"
    /\ Len(entries) < MaxEntries
    /\ entries' = Append(entries, [key |-> op[t].key, value |-> op[t].value,
                                   expires |-> op[t].time + TTL])
    /\ lastSet' = [lastSet EXCEPT ![op[t].key] =
                      [value |-> op[t].value, at |-> op[t].time]]
    /\ Goto(t, "release")
    /\ UNCHANGED <<lockVars, now>>

Release(t) ==
    /\ op[t].at = "release"
    /\ ReleaseWrite(t)
    /\ op' = [op EXCEPT ![t] = IdleOp]
    /\ UNCHANGED <<now, entries, lastSet>>

Next ==
    \/ Tick
    \/ \E t \in Threads :
        \/ Blocked(t)
        \/ \E k \in Keys : BeginGet(t, k)
        \/ Lookup(t) \/ LeaveLookup(t)
        \/ LeaveStale(t) \/ BeginReap(t) \/ Recheck(t)
        \/ \E k \in Keys, v \in Values : BeginSet(t, k, v)
        \/ ReadClock(t) \/ DropExpired(t) \/ DropOld(t) \/ Evict(t)
        \/ Insert(t) \/ Release(t)

Spec == Init /\ [][Next]_vars

-----------------------------------------------------------------------------
(* A table of entries with distinct keys, and the operations in flight.    *)
TypeOK ==
    /\ now \in Times
    /\ entries \in Seq(Entry)
    /\ \A i, j \in DOMAIN entries : entries[i].key = entries[j].key => i = j
    /\ op \in [Threads -> Op]
    /\ lastSet \in [Keys -> [value : Values \cup {None}, at : Nat]]

(* The table never outgrows its bound, even for a moment.                  *)
WithinCapacity == Len(entries) <= MaxEntries

(* popitem(last=False) evicts the entry that would have expired first: the *)
(* order of insertion is the order of expiration.                          *)
OldestExpiresFirst ==
    \A i, j \in DOMAIN entries :
        i < j => entries[i].expires <= entries[j].expires

(* Eviction does what it is for: it keeps the bound, and what it takes is  *)
(* what would have expired next.                                           *)
EvictionIsOrderly == WithinCapacity /\ OldestExpiresFirst

(* A hit is the value of the latest set of that key, and that set is less  *)
(* than a TTL old at the lookup.                                           *)
HitIsLatestAndFresh ==
    \A t \in Threads :
        op[t].at = "leave" /\ op[t].value # None =>
            /\ op[t].value = lastSet[op[t].key].value
            /\ op[t].time < lastSet[op[t].key].at + TTL

(* An entry that has not expired leaves the table only when a set replaces *)
(* it, or evicts it from a full table as the oldest; a get that raced a    *)
(* refresh does not throw the refreshed answer away.                       *)
FreshEntriesSurvive ==
    [][\A k \in Keys :
         Has(k) /\ EntryOf(k).expires > now /\ ~Has(k)' =>
            \E t \in Threads :
                \/ op[t].at = "expire" /\ op[t].key = k
                \/ /\ op[t].at = "makeRoom"
                   /\ Len(entries) = MaxEntries /\ Place(k) = 1]_vars

=============================================================================
