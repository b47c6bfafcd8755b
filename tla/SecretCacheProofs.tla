------------------------- MODULE SecretCacheProofs -------------------------
(***************************************************************************)
(* Proofs about SecretCache for every set of namespaces, buckets and       *)
(* callers and every number of revisions and changes of access.            *)
(***************************************************************************)
EXTENDS SecretCache, TLAPS

(***************************************************************************)
(* OneSecretCache is not inductive: the test of published and the creation *)
(* are far apart.  Whoever is creating holds the lock, until it publishes  *)
(* nothing has been created before it, and a free lock without a published *)
(* cache means that there is none.                                         *)
(***************************************************************************)
Creating == {"list", "construct", "deny", "publish"}

CreationInv ==
    /\ created \in {0, 1}
    /\ \A t \in Callers : call[t].at \in Creating => lock = t /\ ~published
    /\ \A t \in Callers :
          call[t].at \in {"list", "construct", "deny"} => created = 0
    /\ \A t \in Callers : At(t, "publish") => created = 1
    /\ published => created = 1
    /\ ~published /\ lock = NoOne => created = 0

(***************************************************************************)
(* AnswersWereTrue rests on the snapshot: what it holds is of revision     *)
(* asOf, and the cursor and the open watch stand there too, so that the    *)
(* next event is the change that follows the snapshot.                     *)
(***************************************************************************)
SnapshotInv ==
    /\ \A n \in Names : secrets[n] \in {Absent, hist[asOf][n]}
    /\ rv \in {NoRv, asOf}
    /\ pc = "stream" => sent = asOf

(* What justifies the answer of one call.                                  *)
Justified(c) ==
    c.at = "done" =>
        /\ c.result \in Buckets =>
              \E r \in c.since .. rev : hist[r][c.name] = c.result
        /\ c.result = Invalid /\ ~c.denied =>
              \E r \in c.since .. rev : hist[r][c.name] \notin Buckets

Sound(c) ==
    /\ c.since <= rev
    /\ c.at \in {"read", "lookup"} => c.name \in Names
    /\ Justified(c)

CallsAreSound == \A t \in Callers : Sound(call[t])

-----------------------------------------------------------------------------
(* Whatever a caller does changes at most its own record.                  *)
LEMMA CallType ==
    ASSUME TypeOK, NEW t \in Callers, NEW c \in Calls,
           call' = [call EXCEPT ![t] = c]
    PROVE  call' \in [Callers -> Calls]
BY DEF TypeOK

(* An idle record, one that moves on and one that raises are records.      *)
LEMMA CallMoves ==
    ASSUME TypeOK, NEW t \in Callers
    PROVE  /\ IdleCall \in Calls
           /\ [IdleCall EXCEPT !.at = "done", !.result = Failed] \in Calls
           /\ \A to \in {"ensure", "acquire", "list", "construct", "deny",
                         "publish", "read", "lookup", "done"} :
                 [call[t] EXCEPT !.at = to] \in Calls
           /\ \A result \in Buckets \cup {Absent, Invalid, Failed} :
                 [call[t] EXCEPT !.at = "done", !.result = result] \in Calls
<1>1. call[t] \in Calls
  BY DEF TypeOK
<1>2. 0 \in Revisions
  BY SecretCacheAssumption DEF Revisions
<1>3. IdleCall \in Calls
  BY <1>2 DEF IdleCall, Calls
<1>4. [IdleCall EXCEPT !.at = "done", !.result = Failed] \in Calls
  BY <1>2 DEF IdleCall, Calls
<1>5. ASSUME NEW to \in {"ensure", "acquire", "list", "construct", "deny",
                         "publish", "read", "lookup", "done"}
      PROVE  [call[t] EXCEPT !.at = to] \in Calls
  BY <1>1 DEF Calls
<1>6. ASSUME NEW result \in Buckets \cup {Absent, Invalid, Failed}
      PROVE  [call[t] EXCEPT !.at = "done", !.result = result] \in Calls
  BY <1>1 DEF Calls
<1> QED
  BY <1>3, <1>4, <1>5, <1>6

(* Every step of SecretCache keeps its variables in their types.           *)
LEMMA TypeStep == TypeOK /\ [Next]_vars => TypeOK'
<1> SUFFICES ASSUME TypeOK, [Next]_vars PROVE TypeOK'
  OBVIOUS
<1> USE SecretCacheAssumption
<1>0. rev \in 0 .. rev /\ 0 \in 0 .. rev
  BY DEF TypeOK, Revisions
<1>1. CASE \E n \in Names, v \in Infos \cup {Absent} : Commit(n, v)
  BY <1>1 DEF Commit, TypeOK, Revisions, View, snapshot, creation
<1>2. CASE SwitchAccess
  BY <1>2 DEF SwitchAccess, TypeOK, snapshot, creation
<1>3. CASE Loop
  BY <1>3 DEF Loop, Step, TypeOK, ThreadStates, server, snapshot, creation
<1>4. CASE Wake
  BY <1>4 DEF Wake, Step, TypeOK, ThreadStates, server, creation
<1>5. CASE ListSecrets \/ ListDenied \/ ListFails
  BY <1>5, <1>0 DEF ListSecrets, ListDenied, ListFails, Step, TypeOK, ThreadStates,
              server, snapshot, creation
<1>6. CASE StoreSnapshot
  <2>1. hist[listed] \in View
    BY DEF TypeOK, Revisions
  <2>2. QED
    BY <1>6, <1>0, <2>1 DEF StoreSnapshot, StoreList, Step, TypeOK, ThreadStates,
                      server, creation
<1>7. CASE StoreThreadDenial
  <2>1. Empty \in View
    BY DEF Empty, View
  <2>2. QED
    BY <1>7, <1>0, <2>1 DEF StoreThreadDenial, StoreDenial, Step,
                      TypeOK, ThreadStates, server, creation
<1>8. CASE HandleChange
  <2>1. sent + 1 \in 0 .. rev /\ sent + 1 \in Revisions
    BY <1>8 DEF HandleChange, TypeOK, Revisions
  <2>2. secrets' \in View
    BY <1>8, <2>1 DEF HandleChange, TypeOK, View
  <2>3. QED
    BY <1>8, <2>1, <2>2 DEF HandleChange, TypeOK, server, creation
<1>9. CASE StreamEnds \/ StreamExpires \/ StreamDenied
  BY <1>9, <1>0 DEF StreamEnds, StreamExpires, StreamDenied, Step, TypeOK, ThreadStates, server,
              snapshot, creation
<1>10. CASE Resume
  BY <1>10 DEF Resume, TypeOK, ThreadStates, server, creation
<1>11. CASE Stop
  BY <1>11 DEF Stop, TypeOK, server, snapshot, creation
<1>12. ASSUME NEW t \in Callers, NEW n \in Names \cup {NoName}, Resolve(t, n)
       PROVE  TypeOK'
  <2>1. [IdleCall EXCEPT !.at = "ensure", !.name = n, !.since = rev] \in Calls
    BY DEF IdleCall, Calls, TypeOK
  <2>2. QED
    BY <1>12, <2>1, CallType DEF Resolve, TypeOK, server, snapshot, creation
<1>13. ASSUME NEW t \in Callers, WithCache(t)
       PROVE  call' \in [Callers -> Calls]
  BY <1>13, CallMoves, CallType DEF WithCache
<1>14. ASSUME NEW t \in Callers, Ensure(t)
       PROVE  TypeOK'
  <2>1. call' \in [Callers -> Calls]
    <3>1. CASE published
      BY <1>13, <1>14, <3>1 DEF Ensure
    <3>2. CASE ~published
      BY <1>14, <3>2, CallMoves, CallType DEF Ensure, Go
    <3> QED
      BY <3>1, <3>2
  <2>2. QED
    BY <1>14, <2>1 DEF Ensure, TypeOK, server, snapshot, creation
<1>15. ASSUME NEW t \in Callers, Acquire(t)
       PROVE  TypeOK'
  <2>1. call' \in [Callers -> Calls]
    <3>1. CASE published
      BY <1>13, <1>15, <3>1 DEF Acquire
    <3>2. CASE ~published
      BY <1>15, <3>2, CallMoves, CallType DEF Acquire, Go
    <3> QED
      BY <3>1, <3>2
  <2>2. QED
    BY <1>15, <2>1 DEF Acquire, TypeOK, server, snapshot
<1>16. ASSUME NEW t \in Callers, CreationLists(t)
       PROVE  TypeOK'
  <2>1. call' \in [Callers -> Calls]
    BY <1>16, CallMoves, CallType DEF CreationLists, Go
  <2>2. QED
    BY <1>16, <1>0, <2>1 DEF CreationLists, TypeOK, server, snapshot, creation
<1>17. ASSUME NEW t \in Callers, CreationFails(t)
       PROVE  TypeOK'
  <2>1. call' \in [Callers -> Calls]
    BY <1>17, CallMoves, CallType DEF CreationFails, Raise
  <2>2. QED
    BY <1>17, <2>1 DEF CreationFails, TypeOK, server, snapshot
<1>18. ASSUME NEW t \in Callers, StartThread(t)
       PROVE  TypeOK'
  <2>1. call' \in [Callers -> Calls]
    BY <1>18, CallMoves, CallType DEF StartThread, Go
  <2>2. Empty \in View /\ hist[listed] \in View
    BY DEF Empty, View, TypeOK, Revisions
  <2>3. /\ secrets' \in View /\ rv' \in 0 .. rev \cup {NoRv}
        /\ available' \in BOOLEAN /\ asOf' \in 0 .. rev
    <3>1. CASE StoreList(listed)
      BY <3>1, <2>2 DEF StoreList, TypeOK
    <3>2. CASE StoreDenial
      BY <3>2, <2>2 DEF StoreDenial, TypeOK
    <3> QED
      BY <1>18, <3>1, <3>2 DEF StartThread
  <2>4. created' \in Nat /\ pc' \in ThreadStates /\ listed' \in 0 .. rev
    BY <1>18, <1>0 DEF StartThread, TypeOK, ThreadStates
  <2>5. QED
    BY <1>18, <2>1, <2>3, <2>4 DEF StartThread, TypeOK, server
<1>19. ASSUME NEW t \in Callers, Publish(t)
       PROVE  TypeOK'
  <2>1. call' \in [Callers -> Calls]
    BY <1>13, <1>19 DEF Publish
  <2>2. QED
    BY <1>19, <2>1 DEF Publish, TypeOK, server, snapshot
<1>20. ASSUME NEW t \in Callers, Read(t)
       PROVE  TypeOK'
  <2>1. call[t] \in Calls /\ asOf \in Revisions
    BY DEF TypeOK, Revisions
  <2>2. [call[t] EXCEPT !.at = "done", !.denied = TRUE, !.result = Invalid]
            \in Calls
    BY <2>1 DEF Calls
  <2>3. [call[t] EXCEPT !.at = "done", !.since = asOf,
            !.result = Resolved(secrets[call[t].name])] \in Calls
    BY <2>1 DEF Calls, Resolved
  <2>4. call' \in [Callers -> Calls]
    BY <1>20, <2>2, <2>3, CallMoves, CallType DEF Read
  <2>5. QED
    BY <1>20, <2>4 DEF Read, TypeOK, server, snapshot, creation
<1>21. ASSUME NEW t \in Callers, Lookup(t)
       PROVE  TypeOK'
  <2>1. Resolved(hist[rev][call[t].name])
            \in Buckets \cup {Absent, Invalid, Failed}
    BY DEF Resolved
  <2>2. call' \in [Callers -> Calls]
    <3>1. CASE Raise(t)
      BY <3>1, CallMoves, CallType DEF Raise
    <3>2. CASE Return(t, Resolved(hist[rev][call[t].name]))
      <4>1. call' = [call EXCEPT ![t] = [call[t] EXCEPT !.at = "done",
                        !.result = Resolved(hist[rev][call[t].name])]]
        BY <3>2 DEF Return, TypeOK
      <4> QED
        BY <4>1, <2>1, CallMoves, CallType
    <3> QED
      BY <1>21, <3>1, <3>2 DEF Lookup
  <2>3. QED
    BY <1>21, <2>2 DEF Lookup, TypeOK, server, snapshot, creation
<1>22. ASSUME NEW t \in Callers, Forget(t)
       PROVE  TypeOK'
  <2>1. call' \in [Callers -> Calls]
    BY <1>22, CallMoves, CallType DEF Forget
  <2>2. QED
    BY <1>22, <2>1 DEF Forget, TypeOK, server, snapshot, creation
<1>23. CASE UNCHANGED vars
  BY <1>23 DEF vars, TypeOK, server, snapshot, creation
<1> QED
  BY <1>1, <1>2, <1>3, <1>4, <1>5, <1>6, <1>7, <1>8, <1>9, <1>10, <1>11,
     <1>12, <1>14, <1>15, <1>16, <1>17, <1>18, <1>19, <1>20, <1>21, <1>22,
     <1>23 DEF Next, WatchThread, Caller, Creation

(* Type correctness: every variable always holds a value the code can give *)
(* it.                                                                     *)
THEOREM SecretTypeCorrect == Spec => []TypeOK
<1>1. Init => TypeOK
  <2> SUFFICES ASSUME Init PROVE TypeOK
    OBVIOUS
  <2> USE SecretCacheAssumption
  <2>1. 0 \in Revisions /\ 0 \in 0 .. rev /\ Empty \in View
    BY DEF Init, Revisions, View, Empty
  <2>2. IdleCall \in Calls
    BY <2>1 DEF IdleCall, Calls
  <2>3. hist \in [Revisions -> View] /\ call \in [Callers -> Calls]
    BY <2>1, <2>2 DEF Init
  <2>4. /\ rev \in Revisions /\ switches \in 0 .. MaxSwitches
        /\ sent \in 0 .. rev /\ listed \in 0 .. rev /\ asOf \in 0 .. rev
        /\ created \in Nat /\ secrets \in View /\ rv \in 0 .. rev \cup {NoRv}
    BY <2>1 DEF Init
  <2> QED
    BY <2>3, <2>4 DEF Init, TypeOK, ThreadStates
<1>2. TypeOK /\ [Next]_vars => TypeOK'
  BY TypeStep
<1> QED
  BY <1>1, <1>2, PTL DEF Spec

-----------------------------------------------------------------------------
(* Everything but the creation itself leaves CreationInv alone: the record *)
(* of a caller outside the lock moves between states outside it.           *)
LEMMA CreationKept ==
    ASSUME TypeOK, CreationInv, UNCHANGED creation,
           NEW t \in Callers, NEW c,
           call' = [call EXCEPT ![t] = c],
           c.at \in Creating => c.at = call[t].at
    PROVE  CreationInv'
<1>1. \A u \in Callers \ {t} : call'[u] = call[u]
  BY DEF TypeOK
<1>2. call'[t] = c
  BY DEF TypeOK
<1>3. published' = published /\ lock' = lock /\ created' = created
  BY DEF creation
<1> QED
  BY <1>1, <1>2, <1>3 DEF CreationInv, Creating, At

(* A caller that has the cache is outside the lock.                        *)
LEMMA WithCacheLeaves ==
    ASSUME TypeOK, NEW t \in Callers, WithCache(t)
    PROVE  \E c : call' = [call EXCEPT ![t] = c] /\ c.at \in {"idle", "read"}
<1>1. call[t] \in Calls
  BY DEF TypeOK
<1>2. CASE call[t].name = NoName
  <2>1. call' = [call EXCEPT ![t] = IdleCall] /\ IdleCall.at = "idle"
    BY <1>2 DEF WithCache, IdleCall
  <2> QED
    BY <2>1
<1>3. CASE call[t].name # NoName
  <2>1. [call[t] EXCEPT !.at = "read"].at = "read"
    BY <1>1 DEF Calls
  <2>2. call' = [call EXCEPT ![t] = [call[t] EXCEPT !.at = "read"]]
    BY <1>3 DEF WithCache
  <2> QED
    BY <2>1, <2>2
<1> QED
  BY <1>2, <1>3

(* Every step keeps CreationInv.                                           *)
LEMMA CreationStep == TypeOK /\ CreationInv /\ [Next]_vars => CreationInv'
<1> SUFFICES ASSUME TypeOK, CreationInv, [Next]_vars PROVE CreationInv'
  OBVIOUS
<1> USE SecretCacheAssumption
<1>1. ASSUME UNCHANGED <<creation, call>>
      PROVE  CreationInv'
  BY <1>1 DEF CreationInv, At, creation
<1>2. CASE \/ \E n \in Names, v \in Infos \cup {Absent} : Commit(n, v)
           \/ SwitchAccess \/ WatchThread \/ Stop \/ UNCHANGED vars
  <2>1. UNCHANGED <<creation, call>>
    BY <1>2 DEF Commit, SwitchAccess, Stop, WatchThread, Loop, Wake,
                ListSecrets, ListDenied, ListFails, StoreSnapshot,
                StoreThreadDenial, HandleChange, StreamEnds, StreamExpires,
                StreamDenied, Resume, vars
  <2>2. QED
    BY <1>1, <2>1
<1>3. ASSUME NEW t \in Callers, NEW n \in Names \cup {NoName}, Resolve(t, n)
      PROVE  CreationInv'
  <2> DEFINE c == [IdleCall EXCEPT !.at = "ensure", !.name = n, !.since = rev]
  <2>1. c.at = "ensure"
    BY DEF IdleCall
  <2>2. UNCHANGED creation /\ call' = [call EXCEPT ![t] = c]
    BY <1>3 DEF Resolve
  <2> QED
    BY <2>1, <2>2, CreationKept DEF Creating
<1>4. ASSUME NEW t \in Callers, NEW to, Go(t, to)
      PROVE  /\ call'[t].at = to
             /\ \A u \in Callers \ {t} : call'[u] = call[u]
  BY <1>4 DEF Go, TypeOK, Calls
<1>5. ASSUME NEW t \in Callers, Raise(t) \/ WithCache(t)
      PROVE  /\ call'[t].at \notin Creating
             /\ \A u \in Callers \ {t} : call'[u] = call[u]
  <2>1. CASE Raise(t)
    BY <2>1 DEF Raise, TypeOK, IdleCall, Creating
  <2>2. CASE WithCache(t)
    BY <2>2, WithCacheLeaves DEF TypeOK, Creating
  <2> QED
    BY <1>5, <2>1, <2>2
<1>6. ASSUME NEW t \in Callers, Ensure(t)
      PROVE  CreationInv'
  <2>1. CASE published
    BY <1>5, <1>6, <2>1 DEF Ensure, creation, CreationInv, At, Creating
  <2>2. CASE ~published
    BY <1>4, <1>6, <2>2 DEF Ensure, creation, CreationInv, At, Creating
  <2> QED
    BY <2>1, <2>2
<1>7. ASSUME NEW t \in Callers, Acquire(t)
      PROVE  CreationInv'
  <2>1. CASE published
    BY <1>5, <1>7, <2>1 DEF Acquire, CreationInv, At, Creating
  <2>2. CASE ~published
    BY <1>4, <1>7, <2>2 DEF Acquire, CreationInv, At, Creating
  <2> QED
    BY <2>1, <2>2
<1>8. ASSUME NEW t \in Callers, CreationLists(t)
      PROVE  CreationInv'
  BY <1>4, <1>8 DEF CreationLists, creation, CreationInv, At, Creating
<1>9. ASSUME NEW t \in Callers, CreationFails(t)
      PROVE  CreationInv'
  BY <1>5, <1>9 DEF CreationFails, CreationInv, At, Creating
<1>10. ASSUME NEW t \in Callers, StartThread(t)
       PROVE  CreationInv'
  BY <1>4, <1>10 DEF StartThread, CreationInv, At, Creating
<1>11. ASSUME NEW t \in Callers, Publish(t)
       PROVE  CreationInv'
  BY <1>5, <1>11 DEF Publish, CreationInv, At, Creating
<1>12. ASSUME NEW t \in Callers, Read(t) \/ Lookup(t) \/ Forget(t)
       PROVE  CreationInv'
  <2>1. call[t] \in Calls
    BY DEF TypeOK
  <2>2. /\ call'[t].at \notin Creating
        /\ \A u \in Callers \ {t} : call'[u] = call[u]
    <3>1. CASE Read(t)
      BY <2>1, <3>1 DEF Read, TypeOK, Calls, Creating
    <3>2. CASE Lookup(t)
      <4>1. CASE Raise(t)
        BY <1>5, <4>1
      <4>2. ASSUME NEW result, Return(t, result)
            PROVE  /\ call'[t].at = "done"
                   /\ \A u \in Callers \ {t} : call'[u] = call[u]
        BY <2>1, <4>2 DEF Return, TypeOK, Calls
      <4> QED
        BY <3>2, <4>1, <4>2 DEF Lookup, Creating
    <3>3. CASE Forget(t)
      BY <3>3 DEF Forget, IdleCall, TypeOK, Creating
    <3> QED
      BY <1>12, <3>1, <3>2, <3>3
  <2>3. UNCHANGED creation
    BY <1>12 DEF Read, Lookup, Forget
  <2> QED
    BY <2>2, <2>3 DEF creation, CreationInv, At, Creating
<1> QED
  BY <1>2, <1>3, <1>6, <1>7, <1>8, <1>9, <1>10, <1>11, <1>12
     DEF Next, Caller, Creation

(* One SecretCache: whatever the requests and config events that need one, *)
(* the provider's double-checked locking creates it once, also after       *)
(* creations that failed.                                                  *)
THEOREM OneCacheOnly == Spec => []OneSecretCache
<1>1. Init => CreationInv
  BY DEF Init, CreationInv, IdleCall, At, Creating
<1>2. TypeOK /\ CreationInv => OneSecretCache
  BY DEF CreationInv, OneSecretCache
<1>3. TypeOK /\ CreationInv /\ [Next]_vars => CreationInv'
  BY CreationStep
<1> QED
  BY <1>1, <1>2, <1>3, SecretTypeCorrect, PTL DEF Spec

-----------------------------------------------------------------------------
(* Every step keeps the snapshot, the cursor and the watch together.       *)
LEMMA SnapshotStep == TypeOK /\ SnapshotInv /\ [Next]_vars => SnapshotInv'
<1> SUFFICES ASSUME TypeOK, SnapshotInv, [Next]_vars PROVE SnapshotInv'
  OBVIOUS
<1> USE SecretCacheAssumption
<1>1. ASSUME UNCHANGED <<hist, secrets, rv, asOf>>,
             pc' = "stream" => pc = "stream" /\ sent' = sent
      PROVE  SnapshotInv'
  BY <1>1 DEF SnapshotInv
<1>2. CASE \E n \in Names, v \in Infos \cup {Absent} : Commit(n, v)
  <2>1. hist'[asOf] = hist[asOf]
    BY <1>2 DEF Commit, TypeOK, Revisions
  <2> QED
    BY <1>2, <2>1 DEF Commit, SnapshotInv, snapshot
<1>3. CASE SwitchAccess \/ Stop \/ UNCHANGED vars
  BY <1>1, <1>3 DEF SwitchAccess, Stop, vars, server, snapshot
<1>4. CASE Loop
  BY <1>4 DEF Loop, Step, SnapshotInv, server, snapshot
<1>5. CASE Wake \/ ListSecrets \/ ListDenied \/ ListFails
  <2>1. UNCHANGED <<hist, secrets, rv, asOf>> /\ pc' # "stream"
    BY <1>5 DEF Wake, ListSecrets, ListDenied, ListFails, Step, server, snapshot
  <2> QED
    BY <1>1, <2>1
<1>6. CASE StoreSnapshot
  BY <1>6 DEF StoreSnapshot, StoreList, SnapshotInv, server
<1>7. CASE StoreThreadDenial
  BY <1>7 DEF StoreThreadDenial, StoreDenial, Step, Empty,
              SnapshotInv, server
<1>8. CASE HandleChange
  <2>1. sent = asOf /\ asOf' = sent + 1 /\ rv' = asOf' /\ sent' = asOf'
    BY <1>8 DEF HandleChange, SnapshotInv
  <2>2. PICK n \in Names :
            /\ \A m \in Names \ {n} : hist[sent + 1][m] = hist[sent][m]
            /\ secrets' = [secrets EXCEPT ![n] = hist[sent + 1][n]]
    BY <1>8 DEF HandleChange
  <2>3. \A m \in Names : secrets'[m] \in {Absent, hist[sent + 1][m]}
    BY <2>1, <2>2 DEF SnapshotInv, TypeOK, View
  <2>4. hist' = hist
    BY <1>8 DEF HandleChange, server
  <2> QED
    BY <2>1, <2>3, <2>4 DEF SnapshotInv
<1>9. CASE StreamEnds \/ StreamExpires \/ StreamDenied \/ Resume
  BY <1>9 DEF StreamEnds, StreamExpires, StreamDenied, Resume, Step, SnapshotInv, server,
              snapshot
<1>10. ASSUME NEW t \in Callers, StartThread(t)
       PROVE  SnapshotInv'
  <2>1. hist' = hist /\ pc' = "loop"
    BY <1>10 DEF StartThread, server
  <2>2. CASE StoreList(listed)
    BY <2>1, <2>2 DEF StoreList, SnapshotInv
  <2>3. CASE StoreDenial
    BY <2>1, <2>3 DEF StoreDenial, Empty, SnapshotInv
  <2> QED
    BY <1>10, <2>2, <2>3 DEF StartThread
<1>11. ASSUME NEW t \in Callers,
              \/ \E n \in Names \cup {NoName} : Resolve(t, n)
              \/ Ensure(t) \/ Acquire(t) \/ CreationLists(t)
              \/ CreationFails(t) \/ Publish(t)
              \/ Read(t) \/ Lookup(t) \/ Forget(t)
       PROVE  SnapshotInv'
  <2>1. UNCHANGED <<hist, secrets, rv, asOf, pc, sent>>
    BY <1>11 DEF Resolve, Ensure, Acquire, CreationLists, CreationFails,
                 Publish, Read, Lookup, Forget, server, snapshot
  <2> QED
    BY <1>1, <2>1
<1> QED
  BY <1>2, <1>3, <1>4, <1>5, <1>6, <1>7, <1>8, <1>9, <1>10, <1>11
     DEF Next, WatchThread, Caller, Creation

-----------------------------------------------------------------------------
(* A caller that moves leaves the others as they are.                      *)
LEMMA OneCallMoves ==
    ASSUME TypeOK, CallsAreSound, UNCHANGED server,
           NEW t \in Callers, NEW c, call' = [call EXCEPT ![t] = c], Sound(c)
    PROVE  CallsAreSound'
<1>1. rev' = rev /\ hist' = hist
  BY DEF server
<1>2. \A u \in Callers : call'[u] = IF u = t THEN c ELSE call[u]
  BY DEF TypeOK
<1>3. \A u \in Callers : Sound(call'[u])
  BY <1>2 DEF CallsAreSound
<1> QED
  BY <1>1, <1>3 DEF CallsAreSound, Sound, Justified

(* A record that is not done, about a name where it has to be.             *)
LEMMA MovesSoundly ==
    ASSUME TypeOK, CallsAreSound, NEW t \in Callers,
           NEW to \in {"ensure", "acquire", "list", "construct", "deny",
                       "publish", "read", "lookup"},
           to \in {"read", "lookup"} => call[t].name \in Names
    PROVE  Sound([call[t] EXCEPT !.at = to])
<1>1. call[t] \in Calls /\ call[t].since <= rev
  BY DEF TypeOK, CallsAreSound, Sound
<1>2. /\ [call[t] EXCEPT !.at = to].at = to
      /\ [call[t] EXCEPT !.at = to].since = call[t].since
      /\ [call[t] EXCEPT !.at = to].name = call[t].name
  BY <1>1 DEF Calls
<1> QED
  BY <1>1, <1>2 DEF Sound, Justified

(* Errors and idle calls need no justification.                            *)
LEMMA NothingToJustify ==
    ASSUME TypeOK
    PROVE  /\ Sound(IdleCall)
           /\ Sound([IdleCall EXCEPT !.at = "done", !.result = Failed])
<1>1. 0 <= rev
  BY SecretCacheAssumption DEF TypeOK, Revisions
<1>2. Sound(IdleCall)
  BY <1>1 DEF Sound, Justified, IdleCall
<1>3. Sound([IdleCall EXCEPT !.at = "done", !.result = Failed])
  BY <1>1, SecretCacheAssumption DEF Sound, Justified, IdleCall
<1> QED
  BY <1>2, <1>3

(* Every step keeps the calls sound.                                       *)
LEMMA CallsStep ==
    TypeOK /\ SnapshotInv /\ CallsAreSound /\ [Next]_vars => CallsAreSound'
<1> SUFFICES ASSUME TypeOK, SnapshotInv, CallsAreSound, [Next]_vars
             PROVE  CallsAreSound'
  OBVIOUS
<1> USE SecretCacheAssumption
<1>1. CASE \E n \in Names, v \in Infos \cup {Absent} : Commit(n, v)
  <2>1. rev' = rev + 1 /\ call' = call /\ rev \in Nat
        /\ \A r \in 0 .. rev : hist'[r] = hist[r]
    BY <1>1 DEF Commit, TypeOK, Revisions
  <2>2. \A t \in Callers : call[t].since \in Nat /\ call[t].since <= rev
    BY DEF TypeOK, Calls, Revisions, CallsAreSound, Sound
  <2>3. ASSUME NEW t \in Callers, NEW r \in call[t].since .. rev
        PROVE  r \in call'[t].since .. rev' /\ hist'[r] = hist[r]
    BY <2>1, <2>2
  <2> QED
    BY <2>1, <2>2, <2>3 DEF CallsAreSound, Sound, Justified
<1>2. CASE UNCHANGED <<rev, hist, call>>
  BY <1>2 DEF CallsAreSound, Sound, Justified
<1>3. CASE SwitchAccess \/ WatchThread \/ Stop \/ UNCHANGED vars
  <2>1. UNCHANGED <<rev, hist, call>>
    BY <1>3 DEF SwitchAccess, WatchThread, Loop, Wake, ListSecrets, ListDenied,
                ListFails, StoreSnapshot, StoreThreadDenial, HandleChange,
                StreamEnds, StreamExpires, StreamDenied, Resume, Stop, vars,
                server
  <2> QED
    BY <1>2, <2>1
<1>4. ASSUME NEW t \in Callers, NEW n \in Names \cup {NoName}, Resolve(t, n)
      PROVE  CallsAreSound'
  <2> DEFINE c == [IdleCall EXCEPT !.at = "ensure", !.name = n, !.since = rev]
  <2>1. Sound(c)
    BY DEF Sound, Justified, IdleCall, TypeOK, Revisions
  <2>2. call' = [call EXCEPT ![t] = c] /\ UNCHANGED server
    BY <1>4 DEF Resolve
  <2> QED
    BY <2>1, <2>2, OneCallMoves
<1>5. ASSUME NEW t \in Callers, UNCHANGED server, Raise(t)
      PROVE  CallsAreSound'
  BY <1>5, NothingToJustify, OneCallMoves DEF Raise
<1>6. ASSUME NEW t \in Callers, UNCHANGED server,
             NEW to \in {"ensure", "acquire", "list", "construct", "deny",
                         "publish"},
             Go(t, to)
      PROVE  CallsAreSound'
  BY <1>6, MovesSoundly, OneCallMoves DEF Go
<1>7. ASSUME NEW t \in Callers, UNCHANGED server, WithCache(t)
      PROVE  CallsAreSound'
  <2>1. CASE call[t].name = NoName
    <3>1. call' = [call EXCEPT ![t] = IdleCall]
      BY <1>7, <2>1 DEF WithCache
    <3> QED
      BY <1>7, <3>1, NothingToJustify, OneCallMoves
  <2>2. CASE call[t].name # NoName
    <3>1. call' = [call EXCEPT ![t] = [call[t] EXCEPT !.at = "read"]]
      BY <1>7, <2>2 DEF WithCache
    <3>2. call[t].name \in Names
      BY <2>2 DEF TypeOK, Calls
    <3>3. Sound([call[t] EXCEPT !.at = "read"])
      BY <3>2, MovesSoundly
    <3> QED
      BY <1>7, <3>1, <3>3, OneCallMoves
  <2> QED
    BY <2>1, <2>2
<1>8. ASSUME NEW t \in Callers,
             \/ Ensure(t) \/ Acquire(t) \/ CreationLists(t)
             \/ CreationFails(t) \/ StartThread(t) \/ Publish(t)
      PROVE  CallsAreSound'
  <2>1. UNCHANGED server
    BY <1>8 DEF Ensure, Acquire, CreationLists, CreationFails, StartThread,
                Publish
  <2>2. \/ Raise(t) \/ WithCache(t)
        \/ \E to \in {"ensure", "acquire", "list", "construct", "deny",
                       "publish"} : Go(t, to)
    BY <1>8 DEF Ensure, Acquire, CreationLists, CreationFails, StartThread,
                Publish
  <2> QED
    BY <1>5, <1>6, <1>7, <2>1, <2>2
<1>9. ASSUME NEW t \in Callers, Read(t)
      PROVE  CallsAreSound'
  <2> DEFINE info == secrets[call[t].name]
  <2>1. /\ call[t] \in Calls /\ call[t].name \in Names /\ call[t].since <= rev
        /\ asOf <= rev /\ asOf \in Nat /\ rev \in Nat /\ UNCHANGED server
    BY <1>9 DEF Read, At, TypeOK, Revisions, CallsAreSound, Sound
  <2>2. CASE ~available
    <3> DEFINE c == [call[t] EXCEPT !.at = "done", !.denied = TRUE,
                         !.result = Invalid]
    <3>1. call' = [call EXCEPT ![t] = c]
      BY <1>9, <2>2 DEF Read
    <3>2. c.at = "done" /\ c.since = call[t].since /\ c.denied = TRUE
          /\ c.result = Invalid
      BY <2>1 DEF Calls
    <3>3. Sound(c)
      BY <2>1, <3>2 DEF Sound, Justified
    <3> QED
      BY <2>1, <3>1, <3>3, OneCallMoves
  <2>3. CASE available /\ info = Absent
    <3>1. call' = [call EXCEPT ![t] = [call[t] EXCEPT !.at = "lookup"]]
      BY <1>9, <2>3 DEF Read
    <3> QED
      BY <2>1, <3>1, MovesSoundly, OneCallMoves
  <2>4. CASE available /\ info # Absent
    <3> DEFINE c == [call[t] EXCEPT !.at = "done", !.since = asOf,
                         !.result = Resolved(info)]
    <3>1. call' = [call EXCEPT ![t] = c]
      BY <1>9, <2>4 DEF Read
    <3>2. c.at = "done" /\ c.since = asOf /\ c.name = call[t].name
          /\ c.result = Resolved(info)
      BY <2>1 DEF Calls
    <3>3. info = hist[asOf][c.name] /\ asOf \in asOf .. rev
      BY <2>1, <2>4, <3>2 DEF SnapshotInv
    <3>4. Sound(c)
      BY <2>1, <3>2, <3>3 DEF Sound, Justified, Resolved
    <3> QED
      BY <2>1, <3>1, <3>4, OneCallMoves
  <2> QED
    BY <2>2, <2>3, <2>4
<1>10. ASSUME NEW t \in Callers, Lookup(t)
       PROVE  CallsAreSound'
  <2> DEFINE info == hist[rev][call[t].name]
             c == [call[t] EXCEPT !.at = "done", !.result = Resolved(info)]
  <2>1. UNCHANGED server
    BY <1>10 DEF Lookup
  <2>2. /\ call[t] \in Calls /\ call[t].since <= rev
        /\ rev \in call[t].since .. rev
    BY DEF TypeOK, Calls, Revisions, CallsAreSound, Sound
  <2>3. c.at = "done" /\ c.since = call[t].since /\ c.name = call[t].name
        /\ c.result = Resolved(info)
    BY <2>2 DEF Calls
  <2>4. Sound(c)
    BY <2>2, <2>3 DEF Sound, Justified, Resolved
  <2>5. CASE Return(t, Resolved(info))
    <3>1. call' = [call EXCEPT ![t] = c]
      BY <2>5 DEF Return, TypeOK
    <3> QED
      BY <2>1, <2>4, <3>1, OneCallMoves
  <2> QED
    BY <1>5, <1>10, <2>1, <2>5 DEF Lookup
<1>11. ASSUME NEW t \in Callers, Forget(t)
       PROVE  CallsAreSound'
  BY <1>11, NothingToJustify, OneCallMoves DEF Forget
<1> QED
  BY <1>1, <1>3, <1>4, <1>8, <1>9, <1>10, <1>11 DEF Next, Caller, Creation

(* The provider's answers are true: a bucket was the namespace's, and an   *)
(* override without a bucket was without one, at a moment of the call or   *)
(* since the snapshot; only an unavailable cache and errors are excepted.  *)
THEOREM AnswersCorrect == Spec => []AnswersWereTrue
<1>1. Init => SnapshotInv
  BY DEF Init, SnapshotInv, Empty
<1>2. Init => CallsAreSound
  BY DEF Init, CallsAreSound, Sound, Justified, IdleCall
<1>3. TypeOK /\ SnapshotInv /\ [Next]_vars => SnapshotInv'
  BY SnapshotStep
<1>4. TypeOK /\ SnapshotInv /\ CallsAreSound /\ [Next]_vars => CallsAreSound'
  BY CallsStep
<1>5. CallsAreSound => AnswersWereTrue
  BY DEF CallsAreSound, Sound, Justified, AnswersWereTrue, At
<1> QED
  BY <1>1, <1>2, <1>3, <1>4, <1>5, SecretTypeCorrect, PTL DEF Spec

=============================================================================
