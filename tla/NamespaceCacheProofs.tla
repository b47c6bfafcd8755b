------------------------ MODULE NamespaceCacheProofs ------------------------
(***************************************************************************)
(* Proofs about NamespaceCache for every set of names, descriptions and    *)
(* request threads and every number of revisions.                          *)
(***************************************************************************)
EXTENDS NamespaceCache, TLAPS

(***************************************************************************)
(* The inductive invariant.  CursorMatchesSnapshot says nothing while the  *)
(* cursor is None, yet the snapshot must still be a real revision for      *)
(* AbsenceIsFresh and the refinement; and a watch in progress may be ahead *)
(* of the cursor, so the snapshot is tied to the stream's position too.    *)
(***************************************************************************)
OneObjectPerRevision ==
    \A r \in 1 .. rev :
        \E n \in Names : \A m \in Names \ {n} : hist[r][m] = hist[r - 1][m]

SnapshotIsARevision == namespaces = Visible(hist[asOf])

StreamMatchesSnapshot ==
    /\ pc = "stream" => namespaces = Visible(hist[sent]) /\ asOf <= sent
    /\ pc = "loop" /\ rv # NoRv => rv = asOf
    /\ pc = "store" => asOf <= listed

SnapshotInv ==
    /\ OneObjectPerRevision
    /\ SnapshotIsARevision
    /\ CursorMatchesSnapshot
    /\ StreamMatchesSnapshot

CallInv ==
    /\ \A t \in Readers : call[t].start <= rev
    /\ AbsenceIsFresh
    /\ FoundWasVisible

Inv == TypeOK /\ SnapshotInv

-----------------------------------------------------------------------------
(* A view restricted by the exclusion globs is a view.                     *)
LEMMA VisibleType ==
    ASSUME NEW view \in View
    PROVE  Visible(view) \in View
BY DEF View, Visible, ExtractInfo

(* Every step of NamespaceCache keeps its variables in their types.        *)
LEMMA TypeStep == TypeOK /\ [Next]_vars => TypeOK'
<1> SUFFICES ASSUME TypeOK, [Next]_vars PROVE TypeOK'
  OBVIOUS
<1> USE NamespaceCacheAssumption
<1>1. CASE \E n \in Names, v \in Values \cup {Absent} : Commit(n, v)
  BY <1>1 DEF Commit, TypeOK, Revisions, View
<1>2. CASE SkipRevision
  BY <1>2 DEF SkipRevision, TypeOK, Revisions
<1>3. CASE ListNamespaces
  BY <1>3 DEF ListNamespaces, TypeOK, ThreadStates, Revisions
<1>4. CASE ListFails
  BY <1>4 DEF ListFails, TypeOK, ThreadStates
<1>5. CASE StoreSnapshot
  <2>1. Visible(hist[listed]) \in View
    BY VisibleType DEF TypeOK, Revisions
  <2>2. QED
    BY <1>5, <2>1 DEF StoreSnapshot, TypeOK, ThreadStates
<1>6. CASE HandleChange
  <2>1. sent + 1 \in 0 .. rev /\ sent + 1 \in Revisions
    BY <1>6 DEF HandleChange, TypeOK, Revisions
  <2>2. namespaces' \in View
    BY <1>6, <2>1 DEF HandleChange, HandleAddedOrModified, HandleDeleted,
                      TypeOK, View, ExtractInfo
  <2>3. rv' \in 0 .. rev /\ pc' \in ThreadStates
    BY <1>6, <2>1 DEF HandleChange, HandleAddedOrModified, HandleDeleted,
                      AfterEvent, ThreadStates
  <2>4. QED
    BY <1>6, <2>1, <2>2, <2>3 DEF HandleChange, TypeOK
<1>7. CASE HandleBookmark
  BY <1>7 DEF HandleBookmark, AfterEvent, TypeOK, ThreadStates
<1>8. CASE HandleErrorEvent
  BY <1>8 DEF HandleErrorEvent, AfterEvent, TypeOK, ThreadStates
<1>9. CASE DropEventOnStop \/ StreamEnds
  BY <1>9 DEF DropEventOnStop, StreamEnds, TypeOK, ThreadStates
<1>10. CASE StreamExpires \/ Resume
  BY <1>10 DEF StreamExpires, Resume, TypeOK, ThreadStates
<1>11. CASE Loop
  BY <1>11 DEF Loop, TypeOK, ThreadStates
<1>12. CASE Stop
  BY <1>12 DEF Stop, TypeOK
<1>13. ASSUME NEW t \in Readers, NEW n \in Names, GetNamespace(t, n)
       PROVE  TypeOK'
  <2>1. PICK c \in Calls : call' = [call EXCEPT ![t] = c]
    <3>1. namespaces[n] \in Values \cup {Absent} /\ rev \in Revisions
      BY DEF TypeOK, View
    <3>2. [at |-> "done", name |-> n, start |-> rev, result |-> namespaces[n]]
              \in Calls
      BY <3>1 DEF Calls
    <3>3. [at |-> "live", name |-> n, start |-> rev, result |-> Absent]
              \in Calls
      BY <3>1 DEF Calls
    <3>4. QED
      BY <1>13, <3>2, <3>3 DEF GetNamespace, Answer
  <2>2. QED
    BY <1>13, <2>1 DEF GetNamespace, TypeOK
<1>14. ASSUME NEW t \in Readers, LiveLookup(t)
       PROVE  TypeOK'
  <2>1. PICK r \in {ExtractInfo(call[t].name, hist[rev][call[t].name]), Failed} :
            call' = [call EXCEPT ![t].at = "done", ![t].result = r]
    BY <1>14 DEF LiveLookup
  <2>2. /\ call[t] \in [at : {"live", "done"}, name : Names, start : Revisions,
                         result : Values \cup {Absent, Failed}]
        /\ hist[rev] \in View
    BY <1>14 DEF LiveLookup, TypeOK, Calls, IdleCall
  <2>3. r \in Values \cup {Absent, Failed}
    BY <2>2 DEF View, ExtractInfo
  <2>4. [call[t] EXCEPT !.at = "done", !.result = r] \in Calls
    BY <2>2, <2>3 DEF Calls
  <2>5. call' = [call EXCEPT ![t] = [call[t] EXCEPT !.at = "done", !.result = r]]
    BY <2>1
  <2>6. QED
    BY <1>14, <2>4, <2>5 DEF LiveLookup, TypeOK
<1>15. ASSUME NEW t \in Readers, Return(t)
       PROVE  TypeOK'
  BY <1>15 DEF Return, IdleCall, Calls, TypeOK, Revisions
<1>16. CASE UNCHANGED vars
  BY <1>16 DEF vars, TypeOK
<1>17. QED
  BY <1>1, <1>2, <1>3, <1>4, <1>5, <1>6, <1>7, <1>8, <1>9, <1>10, <1>11,
     <1>12, <1>13, <1>14, <1>15, <1>16 DEF Next, WatchThread

-----------------------------------------------------------------------------
(* A commit of the API server leaves the revisions already there alone and *)
(* adds one that differs from its predecessor in one object.               *)
LEMMA CommitAddsOneRevision ==
    ASSUME TypeOK, NEW n \in Names, NEW v \in Values \cup {Absent}, Commit(n, v)
    PROVE  /\ rev' = rev + 1
           /\ \A r \in 0 .. rev : hist'[r] = hist[r]
           /\ \A m \in Names \ {n} : hist'[rev + 1][m] = hist[rev][m]
BY NamespaceCacheAssumption DEF Commit, TypeOK, Revisions, View

(* The event that a watch delivers turns a snapshot of one revision into a *)
(* snapshot of the next.                                                   *)
LEMMA EventGivesNextRevision ==
    ASSUME TypeOK, OneObjectPerRevision, HandleChange,
           namespaces = Visible(hist[sent])
    PROVE  /\ namespaces' = Visible(hist[sent + 1])
           /\ sent + 1 \in 1 .. rev
           /\ rv' = sent + 1
<1>1. sent + 1 \in 1 .. rev /\ sent \in Revisions /\ sent + 1 \in Revisions
  BY NamespaceCacheAssumption DEF HandleChange, TypeOK, Revisions
<1>2. PICK n \in Names :
          /\ hist[sent + 1][n] # hist[sent][n]
          /\ HandleAddedOrModified(n) \/ HandleDeleted(n)
  BY DEF HandleChange
<1>3. \A m \in Names \ {n} : hist[sent + 1][m] = hist[sent][m]
  <2>1. PICK k \in Names :
            \A m \in Names \ {k} :
                hist[sent + 1][m] = hist[(sent + 1) - 1][m]
    BY <1>1 DEF OneObjectPerRevision
  <2>2. (sent + 1) - 1 = sent
    BY DEF TypeOK
  <2>3. n = k
    BY <1>2, <2>1, <2>2
  <2>4. QED
    BY <2>1, <2>2, <2>3
<1>4. namespaces' = [namespaces EXCEPT ![n] = ExtractInfo(n, hist[sent + 1][n])]
  BY <1>2 DEF HandleAddedOrModified, HandleDeleted, ExtractInfo
<1>5. namespaces' = Visible(hist[sent + 1])
  BY <1>3, <1>4 DEF Visible, ExtractInfo
<1>6. QED
  BY <1>1, <1>2, <1>5 DEF HandleAddedOrModified, HandleDeleted

(* Every step keeps the snapshot a complete revision, and the cursor and   *)
(* the open watch in step with it.                                         *)
LEMMA SnapshotStep == Inv /\ [Next]_vars => SnapshotInv'
<1> SUFFICES ASSUME Inv, [Next]_vars PROVE SnapshotInv'
  OBVIOUS
<1> USE NamespaceCacheAssumption DEF Inv
<1>1. ASSUME NEW n \in Names, NEW v \in Values \cup {Absent}, Commit(n, v)
      PROVE  SnapshotInv'
  <2>1. /\ rev' = rev + 1
        /\ \A r \in 0 .. rev : hist'[r] = hist[r]
        /\ \A m \in Names \ {n} : hist'[rev + 1][m] = hist[rev][m]
    BY <1>1, CommitAddsOneRevision
  <2>2. OneObjectPerRevision'
    <3> SUFFICES ASSUME NEW r \in 1 .. rev'
                 PROVE  \E k \in Names : \A m \in Names \ {k} :
                            hist'[r][m] = hist'[r - 1][m]
      BY DEF OneObjectPerRevision
    <3>1. CASE r = rev + 1
      <4>1. r - 1 = rev /\ hist'[rev] = hist[rev]
        BY <3>1, <2>1 DEF TypeOK, Revisions
      <4>2. QED
        BY <3>1, <4>1, <2>1
    <3>2. CASE r # rev + 1
      <4>1. r \in 1 .. rev /\ r \in 0 .. rev /\ r - 1 \in 0 .. rev
        BY <3>2, <2>1 DEF TypeOK, Revisions
      <4>2. hist'[r] = hist[r] /\ hist'[r - 1] = hist[r - 1]
        BY <4>1, <2>1
      <4>3. QED
        BY <4>1, <4>2 DEF SnapshotInv, OneObjectPerRevision
    <3>3. QED
      BY <3>1, <3>2
  <2>3. hist'[asOf] = hist[asOf] /\ hist'[sent] = hist[sent]
    BY <2>1 DEF TypeOK
  <2>4. rv # NoRv => hist'[rv] = hist[rv]
    BY <2>1 DEF TypeOK
  <2>5. UNCHANGED <<sent, namespaces, rv, pc, listed, asOf>>
    BY <1>1 DEF Commit
  <2>6. QED
    BY <2>2, <2>3, <2>4, <2>5 DEF SnapshotInv, SnapshotIsARevision,
       CursorMatchesSnapshot, StreamMatchesSnapshot, Visible
<1> DEFINE Rest == /\ SnapshotIsARevision' /\ CursorMatchesSnapshot'
                   /\ StreamMatchesSnapshot'
<1>2. ASSUME UNCHANGED <<rev, hist>>, Rest
      PROVE  SnapshotInv'
  BY <1>2 DEF SnapshotInv, OneObjectPerRevision
<1> USE DEF SnapshotInv, SnapshotIsARevision, CursorMatchesSnapshot,
            StreamMatchesSnapshot, Visible
<1>3. CASE SkipRevision
  BY <1>2, <1>3 DEF SkipRevision, TypeOK
<1>4. CASE ListNamespaces
  BY <1>2, <1>4 DEF ListNamespaces, TypeOK
<1>5. CASE ListFails
  BY <1>2, <1>5 DEF ListFails
<1>6. CASE StoreSnapshot
  BY <1>2, <1>6 DEF StoreSnapshot, TypeOK
<1>7. CASE HandleChange
  <2>1. pc = "stream" /\ pc' = "stream"
    BY <1>7, EventGivesNextRevision DEF HandleChange, AfterEvent, TypeOK
  <2>2. QED
    BY <1>2, <1>7, <2>1, EventGivesNextRevision DEF HandleChange, TypeOK
<1>8. CASE HandleBookmark
  BY <1>2, <1>8 DEF HandleBookmark, AfterEvent, TypeOK
<1>9. CASE HandleErrorEvent
  BY <1>2, <1>9 DEF HandleErrorEvent, AfterEvent
<1>10. CASE DropEventOnStop \/ StreamEnds
  BY <1>2, <1>10 DEF DropEventOnStop, StreamEnds
<1>11. CASE StreamExpires \/ Resume
  BY <1>2, <1>11 DEF StreamExpires, Resume
<1>12. CASE Loop
  BY <1>2, <1>12 DEF Loop, TypeOK
<1>13. CASE Stop
  BY <1>2, <1>13 DEF Stop
<1>14. ASSUME NEW t \in Readers,
              LiveLookup(t) \/ Return(t) \/ \E n \in Names : GetNamespace(t, n)
       PROVE  SnapshotInv'
  BY <1>2, <1>14 DEF GetNamespace, LiveLookup, Return
<1>15. CASE UNCHANGED vars
  BY <1>2, <1>15 DEF vars
<1>16. QED
  BY <1>1, <1>3, <1>4, <1>5, <1>6, <1>7, <1>8, <1>9, <1>10, <1>11, <1>12,
     <1>13, <1>14, <1>15 DEF Next, WatchThread

(* The invariant holds in every behaviour.                                 *)
LEMMA InvHolds == Spec => []Inv
<1>1. Init => Inv
  <2> SUFFICES ASSUME Init PROVE Inv
    OBVIOUS
  <2> USE NamespaceCacheAssumption DEF Init
  <2>1. TypeOK
    <3>1. [n \in Names |-> Absent] \in View
      BY DEF View
    <3>2. 0 \in Revisions /\ 0 \in 0 .. rev
      BY DEF Revisions
    <3>3. call \in [Readers -> Calls]
      BY DEF Calls
    <3>4. QED
      BY <3>1, <3>2, <3>3 DEF TypeOK, ThreadStates
  <2>2. OneObjectPerRevision
    BY DEF OneObjectPerRevision
  <2>3. SnapshotIsARevision
    BY DEF SnapshotIsARevision, Visible, ExtractInfo, Revisions
  <2>4. QED
    BY <2>1, <2>2, <2>3 DEF Inv, SnapshotInv, CursorMatchesSnapshot,
                            StreamMatchesSnapshot
<1>2. Inv /\ [Next]_vars => Inv'
  BY TypeStep, SnapshotStep DEF Inv
<1>3. QED
  BY <1>1, <1>2, PTL DEF Spec

(* The variables of the cache always hold values the code can give them.   *)
THEOREM TypeCorrect == Spec => []TypeOK
<1>1. Inv => TypeOK
  BY DEF Inv
<1>2. QED
  BY <1>1, InvHolds, PTL

(* No sequence of lists, events, errors and reconnects separates the       *)
(* snapshot from the cursor kept beside it.                                *)
THEOREM CursorCorrect == Spec => []CursorMatchesSnapshot
<1>1. Inv => CursorMatchesSnapshot
  BY DEF Inv, SnapshotInv
<1>2. QED
  BY <1>1, InvHolds, PTL

-----------------------------------------------------------------------------
(* An answer once justified stays justified, and new answers are.          *)
LEMMA CallStep == Inv /\ CallInv /\ [Next]_vars => CallInv'
<1> SUFFICES ASSUME Inv, CallInv, [Next]_vars PROVE CallInv'
  OBVIOUS
<1> USE NamespaceCacheAssumption DEF CallInv
<1>0. TypeOK /\ SnapshotIsARevision
  BY DEF Inv, SnapshotInv
<1>1. /\ rev' \in Nat /\ rev \in Nat /\ rev <= rev'
      /\ \A r \in 0 .. rev : hist'[r] = hist[r]
  <2>1. CASE \E n \in Names, v \in Values \cup {Absent} : Commit(n, v)
    BY <1>0, <2>1, CommitAddsOneRevision DEF TypeOK, Revisions
  <2>2. CASE UNCHANGED <<rev, hist>>
    BY <1>0, <2>2 DEF TypeOK, Revisions
  <2>3. QED
    BY <2>1, <2>2 DEF Next, WatchThread, SkipRevision, ListNamespaces,
       ListFails, StoreSnapshot, HandleChange, HandleBookmark,
       HandleErrorEvent, DropEventOnStop, StreamEnds, StreamExpires, Resume,
       Loop, Stop, GetNamespace, LiveLookup, Return, vars
<1> DEFINE Justified(t) ==
      /\ call'[t].start <= rev'
      /\ call'[t].at = "done" /\ call'[t].result = Absent =>
            \E r \in call'[t].start .. rev' :
                Visible(hist'[r])[call'[t].name] = Absent
      /\ call'[t].at = "done" /\ call'[t].result \in Values =>
            \E r \in 0 .. rev' :
                Visible(hist'[r])[call'[t].name] = call'[t].result
<1>2. SUFFICES ASSUME NEW t \in Readers PROVE Justified(t)
  BY DEF AbsenceIsFresh, FoundWasVisible, Visible
<1>3. CASE call'[t] = call[t]
  <2>1. call[t].start \in Nat
    BY <1>0 DEF TypeOK, Calls, IdleCall, Revisions
  <2>2. \A r \in 0 .. rev : Visible(hist'[r]) = Visible(hist[r])
    BY <1>1
  <2>3. call[t].start .. rev \subseteq call[t].start .. rev' 
        /\ call[t].start .. rev \subseteq 0 .. rev
        /\ 0 .. rev \subseteq 0 .. rev'
    BY <1>1, <2>1
  <2>4. call'[t].start <= rev'
    BY <1>1, <1>3, <2>1
  <2>5. QED
    BY <1>3, <2>2, <2>3, <2>4 DEF AbsenceIsFresh, FoundWasVisible
<1>4. ASSUME NEW n \in Names, GetNamespace(t, n)
      PROVE  Justified(t)
  <2>1. /\ rev' = rev /\ hist' = hist /\ rev \in 0 .. rev /\ asOf \in 0 .. rev
        /\ rev \in rev .. rev
    BY <1>0, <1>4 DEF GetNamespace, TypeOK, Revisions
  <2>2. t \in DOMAIN call
    BY <1>0 DEF TypeOK
  <2>3. CASE namespaces[n] # Absent
    <3>1. call'[t] = [at |-> "done", name |-> n, start |-> rev,
                      result |-> namespaces[n]]
      BY <1>4, <2>2, <2>3 DEF GetNamespace, Answer
    <3>2. Visible(hist'[asOf])[n] = namespaces[n]
      BY <1>0, <2>1 DEF SnapshotIsARevision
    <3>3. QED
      BY <2>1, <2>3, <3>1, <3>2
  <2>4. CASE namespaces[n] = Absent /\ n \in Excluded
    <3>1. call'[t] = [at |-> "done", name |-> n, start |-> rev,
                      result |-> Absent]
      BY <1>4, <2>2, <2>4 DEF GetNamespace, Answer
    <3>2. Visible(hist'[rev])[n] = Absent
      BY <2>4 DEF Visible, ExtractInfo
    <3>3. QED
      BY <2>1, <3>1, <3>2
  <2>5. CASE namespaces[n] = Absent /\ n \notin Excluded
    <3>1. call'[t] = [at |-> "live", name |-> n, start |-> rev,
                      result |-> Absent]
      BY <1>4, <2>2, <2>5 DEF GetNamespace, Answer
    <3>2. QED
      BY <2>1, <3>1
  <2>6. QED
    BY <2>3, <2>4, <2>5
<1>5. CASE LiveLookup(t)
  <2>1. PICK r \in {ExtractInfo(call[t].name, hist[rev][call[t].name]), Failed} :
            call' = [call EXCEPT ![t].at = "done", ![t].result = r]
    BY <1>5 DEF LiveLookup
  <2>2. /\ call'[t].start = call[t].start /\ call'[t].name = call[t].name
        /\ call'[t].result = r
        /\ call[t].name \in Names /\ call[t].start \in Nat
    BY <1>0, <1>5, <2>1 DEF LiveLookup, TypeOK, Calls, IdleCall, Revisions
  <2>3. rev' = rev /\ hist' = hist /\ rev \in call[t].start .. rev
        /\ rev \in 0 .. rev /\ call[t].start <= rev
    BY <1>0, <1>1, <1>5, <2>2 DEF LiveLookup
  <2>4. r # Failed => Visible(hist'[rev])[call[t].name] = r
    BY <2>1, <2>2, <2>3 DEF Visible
  <2>5. QED
    BY <2>2, <2>3, <2>4
<1>6. CASE Return(t)
  <2>1. call'[t] = IdleCall
    BY <1>0, <1>6 DEF Return, TypeOK
  <2>2. QED
    BY <1>1, <2>1 DEF IdleCall
<1>7. QED
  <2>1. CASE UNCHANGED call
    BY <2>1, <1>3
  <2>2. ASSUME NEW u \in Readers,
               LiveLookup(u) \/ Return(u) \/ \E n \in Names : GetNamespace(u, n)
        PROVE  Justified(t)
    <3>1. CASE u = t
      BY <2>2, <3>1, <1>4, <1>5, <1>6
    <3>2. CASE u # t
      <4>1. call'[t] = call[t]
        BY <1>0, <2>2, <3>2 DEF LiveLookup, Return, GetNamespace, Answer, TypeOK
      <4>2. QED
        BY <4>1, <1>3
    <3>3. QED
      BY <3>1, <3>2
  <2>3. QED
    BY <2>1, <2>2 DEF Next, WatchThread, Commit, SkipRevision, ListNamespaces,
       ListFails, StoreSnapshot, HandleChange, HandleBookmark,
       HandleErrorEvent, DropEventOnStop, StreamEnds, StreamExpires, Resume,
       Loop, Stop, vars

LEMMA CallsHold == Spec => []CallInv
<1>1. Init => CallInv
  BY NamespaceCacheAssumption
     DEF Init, CallInv, IdleCall, AbsenceIsFresh, FoundWasVisible
<1>2. QED
  BY <1>1, CallStep, InvHolds, PTL DEF Spec

(* None is only ever answered for a namespace that was absent during the   *)
(* call, and what is found was visible, whatever the state of the watch.   *)
THEOREM LookupsCorrect == Spec => []LookupsAreTrue
<1>1. CallInv => LookupsAreTrue
  BY DEF CallInv, LookupsAreTrue
<1>2. QED
  BY <1>1, CallsHold, PTL

-----------------------------------------------------------------------------
(* The refinement: a snapshot is stored, or an event applied, as one       *)
(* CatchUp; every other step of the thread, and every request, stutters.   *)
LEMMA StepRefines == Inv /\ [Next]_vars => [Watched!Next]_Watched!vars
<1> SUFFICES ASSUME Inv, [Next]_vars
             PROVE  Watched!Next \/ UNCHANGED Watched!vars
  OBVIOUS
<1> USE NamespaceCacheAssumption
<1>0. TypeOK /\ SnapshotInv /\ asOf \in 0 .. rev /\ 0 .. rev \subseteq Revisions
  BY DEF Inv, TypeOK, Revisions
<1>1. ASSUME NEW n \in Names, NEW v \in Values \cup {Absent}, Commit(n, v)
      PROVE  Watched!Commit
  <2>1. ExtractInfo(n, v) \in Values \cup {Absent}
    BY DEF ExtractInfo
  <2>2. /\ rev < MaxRev /\ rev' = rev + 1 /\ UNCHANGED <<namespaces, asOf>>
        /\ hist' = [hist EXCEPT ![rev + 1] = [hist[rev] EXCEPT ![n] = v]]
    BY <1>1 DEF Commit
  <2>3. /\ rev \in Revisions /\ hist \in [Revisions -> View]
        /\ rev + 1 \in Revisions
    BY <1>0, <2>2 DEF TypeOK, Revisions
  <2>4. Visible([hist[rev] EXCEPT ![n] = v]) =
            [Visible(hist[rev]) EXCEPT ![n] = ExtractInfo(n, v)]
    BY <2>3 DEF Visible, View, ExtractInfo
  <2>5. \A r \in Revisions :
            Visible(hist'[r]) = IF r = rev + 1
                                THEN [Visible(hist[rev]) EXCEPT ![n] = ExtractInfo(n, v)]
                                ELSE Visible(hist[r])
    BY <2>2, <2>3, <2>4
  <2>6. VisibleHist' = [r \in Revisions |-> Visible(hist'[r])]
    BY DEF VisibleHist, Visible
  <2>7. VisibleHist' = [VisibleHist EXCEPT ![rev + 1] =
                           [VisibleHist[rev] EXCEPT ![n] = ExtractInfo(n, v)]]
    BY <2>3, <2>5, <2>6 DEF VisibleHist
  <2>8. QED
    BY <2>1, <2>2, <2>7 DEF Watched!Commit
<1>2. ASSUME UNCHANGED <<rev, hist>>,
             NEW r \in asOf .. rev, asOf' = r, namespaces' = Visible(hist[r])
      PROVE  Watched!CatchUp
  <2>1. r \in Revisions
    BY <1>0
  <2>2. namespaces' = VisibleHist[r] /\ VisibleHist' = VisibleHist
    BY <1>2, <2>1 DEF VisibleHist, Visible
  <2>3. QED
    BY <1>2, <2>2 DEF Watched!CatchUp
<1>3. CASE StoreSnapshot
  BY <1>0, <1>2, <1>3 DEF StoreSnapshot, SnapshotInv, StreamMatchesSnapshot,
     TypeOK, Watched!Next
<1>4. CASE HandleChange
  <2>1. /\ namespaces' = Visible(hist[sent + 1]) /\ asOf' = sent + 1
        /\ sent + 1 \in asOf .. rev /\ UNCHANGED <<rev, hist>>
    BY <1>0, <1>4, EventGivesNextRevision
       DEF HandleChange, SnapshotInv, StreamMatchesSnapshot, TypeOK
  <2>2. QED
    BY <1>2, <2>1 DEF Watched!Next
<1>5. ASSUME UNCHANGED <<rev, hist, namespaces, asOf>>
      PROVE  UNCHANGED Watched!vars
  BY <1>5 DEF Watched!vars, VisibleHist, Visible
<1>6. QED
  BY <1>1, <1>3, <1>4, <1>5 DEF Next, WatchThread, SkipRevision,
     ListNamespaces, ListFails, HandleBookmark, HandleErrorEvent,
     DropEventOnStop, StreamEnds, StreamExpires, Resume, Loop, Stop,
     GetNamespace, LiveLookup, Return, vars, Watched!Next

(* NamespaceCache implements the promise of WatchedView about the          *)
(* namespaces its exclusion globs leave visible.                           *)
THEOREM Refinement == Spec => ImplementsWatchedView
<1>1. Init => Watched!Init
  BY NamespaceCacheAssumption DEF Init, Watched!Init, VisibleHist, Visible,
     ExtractInfo, Revisions
<1>2. QED
  BY <1>1, StepRefines, InvHolds, PTL DEF Spec, ImplementsWatchedView,
     Watched!Spec

=============================================================================
