---------------------- MODULE MlflowConfigCacheProofs ----------------------
(***************************************************************************)
(* Proofs about MlflowConfigCache for every set of namespaces, contents    *)
(* and request threads and every number of revisions and access changes.   *)
(***************************************************************************)
EXTENDS MlflowConfigCache, TLAPS

(***************************************************************************)
(* ThreadAloneMovesForward rests on where the thread stands: the cursor is *)
(* that of the snapshot except while a stream moves it, and unless a       *)
(* reload was stored, what the thread holds is not older than the snapshot.*)
(***************************************************************************)
Streaming == {"stream", "ensureEvent", "afterEvent"}

CursorInv ==
    /\ pc \notin Streaming \cup {"dropped", "backoff"} => rv \in {NoRv, asOf}
    /\ pc = "store" /\ ~reloaded => asOf <= listed
    /\ pc \in Streaming /\ ~reloaded => asOf <= sent

(***************************************************************************)
(* NoneHasACause rests on what each call has met.  A call is excused if it *)
(* met a denial or was overtaken.  Calls in flight without access, or      *)
(* beside a denial that is still to be applied, are excused; hence so is   *)
(* one whose reload has left an unavailable cache; and the name a listing  *)
(* misses after its reload was absent during the call.                     *)
(***************************************************************************)
Excused(c) == c.denied \/ c.overtaken

InFlight(c) == c.at \notin {"idle", "done"}

MeetsDenials(c) ==
    /\ InFlight(c) /\ ~access => c.denied
    /\ InFlight(c) /\ DenialInFlight => Excused(c)

ReloadKnown(c) ==
    /\ c.at = "store" => c.start <= c.listed /\ c.listed <= rev
    /\ c.at \in {"ensure", "wake", "verdict"} /\ ~available => Excused(c)
    /\ c.listing /\ c.at \in Reloaded /\ configs[c.name] = Absent =>
          AbsentDuring(c) \/ Excused(c)

Accounted(c) ==
    c.at = "done" /\ c.result = Absent => AbsentDuring(c) \/ Excused(c)

Sound(c) ==
    c.start <= rev /\ MeetsDenials(c) /\ ReloadKnown(c) /\ Accounted(c)

CallsAreSound == \A t \in Requests : Sound(call[t])

(* A watch without cursor replays objects that exist.                      *)
ReplayInv == \A n \in backlog : hist[sent][n] # Absent

-----------------------------------------------------------------------------
(* Whatever a request does changes at most its own record.                 *)
LEMMA CallType ==
    ASSUME TypeOK, NEW t \in Requests, NEW c \in Calls,
           call' = [call EXCEPT ![t] = c]
    PROVE  call' \in [Requests -> Calls]
BY DEF TypeOK

(* A request that is not idle holds a full record; what it moves on to and *)
(* what it returns are such records too.                                   *)
LEMMA BusyMoves ==
    ASSUME TypeOK, NEW t \in Requests, call[t].at # "idle"
    PROVE  /\ call[t] \in BusyCalls
           /\ \A to \in {"reload", "store", "deny", "ensure", "wake",
                         "verdict", "reread", "lookup", "done"} :
                 [call[t] EXCEPT !.at = to] \in BusyCalls
           /\ \A r \in Values \cup {Absent, Failed} :
                 Answered(call[t], r) \in BusyCalls
<1>1. call[t] \in BusyCalls
  BY DEF TypeOK, Calls, IdleCall
<1>2. 0 \in 0 .. rev
  BY DEF TypeOK, Revisions
<1>3. ASSUME NEW to \in {"reload", "store", "deny", "ensure", "wake",
                         "verdict", "reread", "lookup", "done"}
      PROVE  [call[t] EXCEPT !.at = to] \in BusyCalls
  BY <1>1 DEF BusyCalls
<1>4. ASSUME NEW r \in Values \cup {Absent, Failed}
      PROVE  Answered(call[t], r) \in BusyCalls
  BY <1>1, <1>2 DEF BusyCalls, Answered, IdleCall
<1> QED
  BY <1>1, <1>3, <1>4

(* A request that rereads the snapshot asks about a name.                  *)
LEMMA ReloadedIsBusy ==
    ASSUME TypeOK, NEW t \in Requests, call[t].at \in Reloaded
    PROVE  /\ call[t] \in BusyCalls
           /\ call[t].name \in Names /\ call[t].start \in Nat
<1>1. call[t] \in BusyCalls
  BY DEF TypeOK, Calls, IdleCall, Reloaded
<1>2. call[t].name \in Names /\ call[t].start \in Nat
  BY <1>1 DEF BusyCalls
<1> QED
  BY <1>1, <1>2

(* Being overtaken changes nothing but the history of a call.              *)
LEMMA OvertakenFields ==
    ASSUME NEW c \in Calls, NEW r
    PROVE  /\ OvertakenBy(r, c) \in Calls
           /\ \/ OvertakenBy(r, c) = c
              \/ c \in BusyCalls
                 /\ OvertakenBy(r, c) = [c EXCEPT !.overtaken = TRUE]
<1>1. CASE c.listing /\ c.at \in Reloaded /\ r < c.start
  <2>1. c \in BusyCalls
    BY <1>1 DEF Calls, IdleCall, Reloaded
  <2>2. OvertakenBy(r, c) = [c EXCEPT !.overtaken = TRUE]
    BY <1>1 DEF OvertakenBy
  <2>3. [c EXCEPT !.overtaken = TRUE] \in BusyCalls
    BY <2>1 DEF BusyCalls
  <2> QED
    BY <2>1, <2>2, <2>3 DEF Calls
<1>2. CASE ~(c.listing /\ c.at \in Reloaded /\ r < c.start)
  BY <1>2 DEF OvertakenBy
<1> QED
  BY <1>1, <1>2

(* What Answered keeps of a call.                                          *)
LEMMA AnsweredFields ==
    ASSUME NEW c \in BusyCalls, NEW r
    PROVE  LET d == Answered(c, r)
           IN  /\ d.at = "done"
               /\ r = Absent =>
                     /\ d.name = c.name /\ d.start = c.start
                     /\ d.denied = c.denied /\ d.overtaken = c.overtaken
               /\ r # Absent => d.result = r /\ d.start = 0
BY DEF Answered, BusyCalls, IdleCall

-----------------------------------------------------------------------------
(* Every step of MlflowConfigCache keeps its variables in their types.     *)
LEMMA TypeStep == TypeOK /\ [Next]_vars => TypeOK'
<1> SUFFICES ASSUME TypeOK, [Next]_vars PROVE TypeOK'
  OBVIOUS
<1> USE MlflowConfigCacheAssumption
<1>0. /\ rev \in 0 .. rev /\ 0 \in 0 .. rev
      /\ rev \in Revisions /\ 0 \in Revisions /\ sent \in Revisions
  BY DEF TypeOK, Revisions
<1> DEFINE Typed == call' \in [Requests -> Calls]
<1>a. Typed /\ rev' = rev => call' \in [Requests -> Calls']
  BY DEF Calls, BusyCalls
<1>1. CASE \E n \in Names, v \in Values \cup {Absent} : Commit(n, v)
  <2>1. rev' = rev + 1 /\ call' = call
    BY <1>1 DEF Commit
  <2>2. 0 .. rev \subseteq 0 .. rev'
    BY <2>1 DEF TypeOK, Revisions
  <2>3. Calls \subseteq Calls'
    BY <2>2 DEF Calls, BusyCalls
  <2> QED
    BY <1>1, <2>1, <2>2, <2>3 DEF Commit, TypeOK, Revisions, View, watch, flags,
              history
<1> USE <1>a
<1>2. CASE SwitchAccess
  <2>1. call' \in [Requests -> Calls]
    <3>1. ASSUME NEW t \in Requests, call[t].at # "idle"
          PROVE  [call[t] EXCEPT !.denied = TRUE] \in Calls
      <4>1. call[t] \in BusyCalls
        BY <3>1, BusyMoves
      <4> QED
        BY <4>1 DEF BusyCalls, Calls
    <3> QED
      BY <1>2, <3>1 DEF SwitchAccess, TypeOK
  <2> QED
    BY <1>2, <2>1 DEF SwitchAccess, TypeOK, watch, flags, history
<1>4. CASE Loop \/ Wake \/ AfterSleep \/ TestCursor
  BY <1>4 DEF Loop, Wake, AfterSleep, TestCursor, Step, TypeOK, ThreadStates,
              server, watch, flags, history
<1>5. CASE ListConfigs \/ ListDenied \/ ListFails
  BY <1>5, <1>0 DEF ListConfigs, ListDenied, ListFails, Step, TypeOK,
              ThreadStates, server, watch, flags, history
<1>6. ASSUME NEW r, call' = [t \in Requests |-> OvertakenBy(r, call[t])]
      PROVE  call' \in [Requests -> Calls]
  BY <1>6, OvertakenFields DEF TypeOK
<1>7. CASE StoreSnapshot
  <2>1. hist[listed] \in View
    BY DEF TypeOK, Revisions
  <2>2. call' \in [Requests -> Calls]
    BY <1>6, <1>7 DEF StoreSnapshot
  <2> QED
    BY <1>7, <1>0, <2>1, <2>2 DEF StoreSnapshot, StoreList, Refreshed, Step,
              TypeOK, ThreadStates, server, watch, flags, history
<1>8. CASE Ensure \/ CheckAvailable
  BY <1>8 DEF Ensure, CheckAvailable, EnsureSucceeds, EnsureRaises, Refreshed,
              Step, TypeOK, ThreadStates, server, watch, flags, history
<1>9. CASE StoreThreadDenial \/ StoreStreamDenial
  <2>1. Empty \in View
    BY DEF Empty, View
  <2> QED
    BY <1>9, <1>0, <2>1 DEF StoreThreadDenial, StoreStreamDenial, StoreDenial,
              Step, TypeOK, ThreadStates, server, watch, flags, history
<1>10. CASE OpenWatch
  BY <1>10, <1>0 DEF OpenWatch, Step, TypeOK, ThreadStates, server, flags,
              history
<1>11. CASE HandleChange
  <2>1. sent + 1 \in 0 .. rev /\ sent + 1 \in Revisions
    BY <1>11 DEF HandleChange, TypeOK, Revisions
  <2>2. configs' \in View
    BY <1>11, <2>1 DEF HandleChange, TypeOK, View
  <2>3. call' \in [Requests -> Calls]
    BY <1>11, OvertakenFields DEF HandleChange, TypeOK
  <2>4. pc' \in ThreadStates /\ ready
    BY <1>11 DEF HandleChange, AfterApplying, ThreadStates, TypeOK
  <2> QED
    BY <1>11, <2>1, <2>2, <2>3, <2>4
       DEF HandleChange, TypeOK, server, flags, history
<1>12. ASSUME NEW n \in Names, HandleReplay(n)
       PROVE  TypeOK'
  <2>1. configs' \in View
    BY <1>12, <1>0 DEF HandleReplay, TypeOK, View
  <2>2. rv' \in 0 .. rev
    BY <1>12 DEF HandleReplay, TypeOK, Revisions
  <2>3. pc' \in ThreadStates /\ ready
    BY <1>12 DEF HandleReplay, AfterApplying, ThreadStates, TypeOK
  <2> QED
    BY <1>12, <2>1, <2>2, <2>3
       DEF HandleReplay, TypeOK, server, flags, history
<1>13. CASE HandleBookmark \/ HandleErrorEvent
  BY <1>13 DEF HandleBookmark, HandleErrorEvent, TypeOK, ThreadStates, server,
               watch, flags, history
<1>14. CASE EnsureAfterEvent \/ AfterEvent
  BY <1>14 DEF EnsureAfterEvent, AfterEvent, EnsureSucceeds, EnsureRaises, Step,
               TypeOK, ThreadStates, server, watch, flags,
               history
<1>15. CASE StreamEnds \/ StreamExpires \/ StreamDenied \/ Resume
  BY <1>15, <1>0 DEF StreamEnds, StreamExpires, StreamDenied, Resume, NoWatch,
               Step, TypeOK, ThreadStates,
               server, flags, history
<1>16. CASE Stop
  BY <1>16 DEF Stop, TypeOK, server, watch, history
<1>17. ASSUME UNCHANGED idleButCall, UNCHANGED sharedState,
              call' \in [Requests -> Calls]
       PROVE  TypeOK'
  BY <1>17 DEF idleButCall, sharedState, TypeOK, server, watch, flags, history
<1>18. ASSUME NEW t \in Requests, NEW n \in Names,
              NEW others \in SUBSET Names, NEW listing \in BOOLEAN,
              Ask(t, n, others, listing)
       PROVE  TypeOK'
  <2> DEFINE c == [IdleCall EXCEPT !.name = n, !.others = others,
                     !.start = rev, !.denied = ~access,
                     !.overtaken = DenialInFlight]
  <2>1. (~access) \in BOOLEAN /\ DenialInFlight \in BOOLEAN
    <3>1. (~access) \in BOOLEAN
      OBVIOUS
    <3>2. DenialInFlight \in BOOLEAN
      BY DEF DenialInFlight
    <3> QED
      BY <3>1, <3>2
  <2>2. /\ [c EXCEPT !.at = "lookup"] \in Calls
        /\ [c EXCEPT !.at = "reload", !.listing = listing] \in Calls
    BY <1>0, <2>1 DEF IdleCall, BusyCalls, Calls
  <2>3. configs[n] \in Values \cup {Absent}
    BY DEF TypeOK, View
  <2>4. Answered(c, configs[n]) \in Calls
    BY <1>0, <2>1, <2>3 DEF Answered, IdleCall, BusyCalls, Calls
  <2>5. call' \in [Requests -> Calls]
    BY <1>18, <2>2, <2>4, CallType DEF Ask
  <2> QED
    BY <1>17, <1>18, <2>5 DEF Ask
<1>19. ASSUME NEW t \in Requests, call[t].at # "idle",
              NEW to \in {"reload", "store", "deny", "ensure", "wake",
                          "verdict", "reread", "lookup", "done"}, Go(t, to)
       PROVE  call' \in [Requests -> Calls]
  BY <1>19, BusyMoves, CallType DEF Go, Calls
<1>20. ASSUME NEW t \in Requests, call[t].at # "idle",
              NEW r \in Values \cup {Absent, Failed}, Return(t, r)
       PROVE  call' \in [Requests -> Calls]
  BY <1>20, BusyMoves, CallType DEF Return, Calls
<1>21. ASSUME NEW t \in Requests, Reload(t)
       PROVE  TypeOK'
  <2>1. call[t].at # "idle"
    BY <1>21 DEF Reload, At
  <2>2. [call[t] EXCEPT !.at = "store", !.listed = rev] \in Calls
    <3>1. call[t] \in BusyCalls
      BY <2>1, BusyMoves
    <3> QED
      BY <1>0, <3>1 DEF BusyCalls, Calls
  <2>3. CASE call' = [call EXCEPT ![t].at = "store", ![t].listed = rev]
    <3>1. call' = [call EXCEPT
                      ![t] = [call[t] EXCEPT !.at = "store", !.listed = rev]]
      BY <2>3 DEF TypeOK
    <3> QED
      BY <1>17, <1>21, <2>2, <3>1, CallType DEF Reload
  <2> QED
    BY <1>17, <1>19, <1>20, <1>21, <2>1, <2>3 DEF Reload
<1>22. ASSUME NEW t \in Requests, StoreReload(t)
       PROVE  TypeOK'
  <2> DEFINE r == call[t].listed
             to == IF UsesSecret(hist[r]) THEN "ensure" ELSE "wake"
             d == OvertakenBy(r, call[t])
  <2>1. call[t] \in BusyCalls /\ call[t].at = "store"
    BY <1>22, BusyMoves DEF StoreReload, At
  <2>2. r \in 0 .. rev /\ hist[r] \in View
    BY <2>1 DEF BusyCalls, TypeOK, Revisions
  <2>3. d = call[t]
    BY <2>1 DEF OvertakenBy, Reloaded
  <2>4. [call[t] EXCEPT !.at = to, !.listed = 0] \in Calls
    BY <1>0, <2>1 DEF BusyCalls, Calls
  <2>5. [u \in Requests |-> OvertakenBy(r, call[u])] \in [Requests -> Calls]
    BY OvertakenFields DEF TypeOK
  <2>6. call' = [[u \in Requests |-> OvertakenBy(r, call[u])] EXCEPT
                    ![t] = [call[t] EXCEPT !.at = to, !.listed = 0]]
    BY <1>22, <2>3 DEF StoreReload
  <2>7. call' \in [Requests -> Calls]
    BY <2>4, <2>5, <2>6
  <2> QED
    BY <1>22, <2>2, <2>7 DEF StoreReload, StoreList, idleButCall, TypeOK,
               server, watch, flags, history
<1>23. ASSUME NEW t \in Requests, StoreRequestDenial(t)
       PROVE  TypeOK'
  <2>1. call' \in [Requests -> Calls]
    BY <1>19, <1>23 DEF StoreRequestDenial, At
  <2>2. Empty \in View
    BY DEF Empty, View
  <2> QED
    BY <1>23, <2>1, <2>2 DEF StoreRequestDenial, StoreDenial, idleButCall,
               TypeOK, server, watch, flags, history
<1>24. ASSUME NEW t \in Requests, EnsureForReload(t)
       PROVE  TypeOK'
  <2>1. call' \in [Requests -> Calls]
    BY <1>19, <1>20, <1>24 DEF EnsureForReload, At
  <2> QED
    BY <1>24, <2>1 DEF EnsureForReload, EnsureSucceeds, EnsureRaises,
               idleButCall, TypeOK, server, watch, flags, history
<1>25. ASSUME NEW t \in Requests, WakeThread(t)
       PROVE  TypeOK'
  <2>1. call' \in [Requests -> Calls]
    BY <1>19, <1>25 DEF WakeThread, At
  <2> QED
    BY <1>25, <2>1 DEF WakeThread, idleButCall, TypeOK, server, watch, flags,
               history
<1>26. ASSUME NEW t \in Requests, Verdict(t)
       PROVE  TypeOK'
  BY <1>17, <1>19, <1>20, <1>26 DEF Verdict, At
<1>27. ASSUME NEW t \in Requests, Reread(t) \/ RereadAll(t)
       PROVE  TypeOK'
  <2>1. call[t] \in BusyCalls /\ call[t].at # "idle"
    BY <1>27, BusyMoves DEF Reread, RereadAll, At
  <2>2. configs[call[t].name] \in Values \cup {Absent, Failed}
    BY <2>1 DEF TypeOK, View, BusyCalls
  <2>3. call' \in [Requests -> Calls]
    BY <1>19, <1>20, <1>27, <2>1, <2>2 DEF Reread, RereadAll
  <2> QED
    BY <1>17, <1>27, <2>3 DEF Reread, RereadAll
<1>28. ASSUME NEW t \in Requests, Lookup(t)
       PROVE  TypeOK'
  <2>1. call[t] \in BusyCalls /\ call[t].at # "idle"
    BY <1>28, BusyMoves DEF Lookup, At
  <2>2. hist[rev][call[t].name] \in Values \cup {Absent, Failed}
    BY <2>1 DEF TypeOK, View, BusyCalls
  <2>3. call' \in [Requests -> Calls] /\ secretCache' \in BOOLEAN
    BY <1>20, <1>28, <2>1, <2>2
       DEF Lookup, EnsureSucceeds, EnsureRaises, TypeOK
  <2> QED
    BY <1>28, <2>3 DEF Lookup, idleButCall, TypeOK, server, watch, flags,
               history
<1>29. ASSUME NEW t \in Requests, Forget(t)
       PROVE  TypeOK'
  BY <1>17, <1>29, CallType DEF Forget, Calls
<1>30. CASE UNCHANGED vars
  BY <1>30 DEF vars, TypeOK, server, watch, flags, history
<1>31. ASSUME NEW t \in Requests, Request(t)
       PROVE  TypeOK'
  <2>1. ASSUME NEW n \in Names, GetConfig(t, n) \/ GetConfigs(t, n)
        PROVE  TypeOK'
    BY <1>18, <2>1 DEF GetConfig, GetConfigs
  <2> QED
    BY <1>21, <1>22, <1>23, <1>24, <1>25, <1>26, <1>27, <1>28, <1>29, <1>31,
       <2>1 DEF Request
<1> QED
  BY <1>1, <1>2, <1>4, <1>5, <1>7, <1>8, <1>9, <1>10, <1>11, <1>12,
     <1>13, <1>14, <1>15, <1>16, <1>30, <1>31 DEF Next, WatchThread

(* Type correctness: every variable always holds a value the code can give *)
(* it, and until the cache is ready only its constructor is at work.       *)
THEOREM ConfigTypeCorrect == Spec => []TypeOK
<1>1. Init => TypeOK
  <2> SUFFICES ASSUME Init PROVE TypeOK
    OBVIOUS
  <2> USE MlflowConfigCacheAssumption
  <2>1. 0 \in Revisions /\ 0 \in 0 .. rev /\ Empty \in View
    BY DEF Init, Revisions, View, Empty
  <2>2. hist \in [Revisions -> View] /\ call \in [Requests -> Calls]
    BY <2>1 DEF Init, Calls
  <2>3. /\ rev \in Revisions /\ switches \in 0 .. MaxSwitches
        /\ sent \in 0 .. rev /\ listed \in 0 .. rev /\ asOf \in 0 .. rev
        /\ configs \in View /\ rv \in 0 .. rev \cup {NoRv}
    BY <2>1 DEF Init
  <2> QED
    BY <2>2, <2>3 DEF Init, TypeOK, ThreadStates
<1>2. TypeOK /\ [Next]_vars => TypeOK'
  BY TypeStep
<1> QED
  BY <1>1, <1>2, PTL DEF Spec

-----------------------------------------------------------------------------
(* A request only touches the thread's cursor by storing its reload.       *)
LEMMA RequestsAndCursor ==
    ASSUME NEW t \in Requests, Request(t)
    PROVE  /\ UNCHANGED <<server, watch, flags, pc, listed>>
           /\ \/ UNCHANGED <<configs, rv, available, history>>
              \/ StoreReload(t)
              \/ StoreRequestDenial(t)
<1>1. UNCHANGED idleButCall
  BY DEF Request, GetConfig, GetConfigs, Ask, Reload, StoreReload,
         StoreRequestDenial, EnsureForReload, WakeThread, Verdict, Reread,
         RereadAll, Lookup, Forget
<1>2. \/ UNCHANGED <<configs, rv, available, history>>
      \/ StoreReload(t)
      \/ StoreRequestDenial(t)
  BY DEF Request, GetConfig, GetConfigs, Ask, Reload, EnsureForReload,
         WakeThread, Verdict, Reread, RereadAll, Lookup, Forget, sharedState
<1> QED
  BY <1>1, <1>2 DEF idleButCall

(* Every step keeps CursorInv.                                             *)
LEMMA CursorStep == TypeOK /\ CursorInv /\ [Next]_vars => CursorInv'
<1> SUFFICES ASSUME TypeOK, CursorInv, [Next]_vars PROVE CursorInv'
  OBVIOUS
<1> USE MlflowConfigCacheAssumption
<1>0. rev \in Nat /\ sent \in Nat /\ asOf \in Nat /\ asOf <= rev /\ sent <= rev
  BY DEF TypeOK, Revisions
<1>1. ASSUME UNCHANGED <<rv, pc, listed, history, sent>>
      PROVE  CursorInv'
  BY <1>1 DEF CursorInv, Streaming, history
<1>2. CASE \/ \E n \in Names, v \in Values \cup {Absent} : Commit(n, v)
           \/ SwitchAccess \/ Stop \/ UNCHANGED vars
  <2>1. UNCHANGED <<rv, pc, listed, history, sent>>
    BY <1>2 DEF Commit, SwitchAccess, Stop, vars, watch
  <2> QED
    BY <1>1, <2>1
<1>4. CASE \/ Loop \/ Wake \/ AfterSleep \/ TestCursor \/ ListDenied
           \/ ListFails \/ Ensure \/ CheckAvailable
  <2>1. /\ pc \notin Streaming \cup {"dropped", "backoff"}
        /\ pc' \notin Streaming \cup {"dropped", "backoff", "store"}
        /\ rv' \in {rv, NoRv} /\ UNCHANGED history
    BY <1>4 DEF Loop, Wake, AfterSleep, TestCursor, ListDenied, ListFails,
                Ensure, CheckAvailable, Refreshed, Step, Streaming
  <2> QED
    BY <2>1 DEF CursorInv, history, Streaming
<1>5. CASE ListConfigs
  BY <1>0, <1>5 DEF ListConfigs, Step, CursorInv, Streaming
<1>6. CASE StoreSnapshot
  BY <1>6 DEF StoreSnapshot, StoreList, Refreshed, CursorInv, Streaming
<1>7. CASE StoreThreadDenial \/ StoreStreamDenial
  BY <1>7 DEF StoreThreadDenial, StoreStreamDenial, StoreDenial, Step,
              CursorInv,
              Streaming, history
<1>8. CASE OpenWatch
  <2>1. rv \in {NoRv, asOf}
    BY <1>8 DEF OpenWatch, Step, CursorInv, Streaming
  <2>2. asOf <= sent'
    BY <1>0, <1>8, <2>1 DEF OpenWatch
  <2> QED
    BY <1>8, <2>2 DEF OpenWatch, Step, CursorInv, Streaming, history
<1>9. CASE HandleChange
  BY <1>0, <1>9 DEF HandleChange, AfterApplying, CursorInv, Streaming
<1>10. ASSUME NEW n \in Names, HandleReplay(n)
       PROVE  CursorInv'
  BY <1>10 DEF HandleReplay, AfterApplying, CursorInv, Streaming, history
<1>11. CASE \/ HandleBookmark \/ HandleErrorEvent \/ EnsureAfterEvent
            \/ AfterEvent
  <2>1. /\ pc \in Streaming /\ pc' \in Streaming \cup {"dropped", "backoff"}
        /\ UNCHANGED <<sent, history>>
    BY <1>11 DEF HandleBookmark, HandleErrorEvent, EnsureAfterEvent,
                 AfterEvent, Step, Streaming, watch
  <2> QED
    BY <2>1 DEF CursorInv, Streaming, history
<1>12. CASE StreamEnds \/ StreamExpires \/ StreamDenied \/ Resume
  BY <1>12 DEF StreamEnds, StreamExpires, StreamDenied, Resume, Step,
               CursorInv, Streaming, history
<1>13. ASSUME NEW t \in Requests, Request(t)
       PROVE  CursorInv'
  <2>1. CASE UNCHANGED <<configs, rv, available, history>>
    BY <1>1, <1>13, <2>1, RequestsAndCursor DEF watch
  <2>2. CASE StoreReload(t)
    BY <1>13, <2>2, RequestsAndCursor DEF StoreReload, StoreList, CursorInv
  <2>3. CASE StoreRequestDenial(t)
    BY <1>13, <2>3, RequestsAndCursor
       DEF StoreRequestDenial, StoreDenial, CursorInv, history, watch
  <2> QED
    BY <1>13, <2>1, <2>2, <2>3, RequestsAndCursor
<1> QED
  BY <1>2, <1>4, <1>5, <1>6, <1>7, <1>8, <1>9, <1>10, <1>11, <1>12,
     <1>13 DEF Next, WatchThread

(* The snapshot goes back only where a request's reload is at work: stored *)
(* in this very step, or since the thread's own LIST.                      *)
THEOREM ThreadMovesForward == Spec => ThreadAloneMovesForward
<1>1. Init => CursorInv
  BY DEF Init, CursorInv, Streaming
<1>2. TypeOK /\ CursorInv /\ [Next]_vars => CursorInv'
  BY CursorStep
<1>3. ASSUME TypeOK, CursorInv, [Next]_vars
      PROVE  [asOf' < asOf => reloaded \/ \E t \in Requests : StoreReload(t)]_vars
  <2> SUFFICES ASSUME asOf' < asOf, ~reloaded,
                      ~\E t \in Requests : StoreReload(t)
               PROVE  FALSE
    OBVIOUS
  <2>0. asOf \in Nat /\ sent \in Nat
    BY <1>3 DEF TypeOK, Revisions
  <2>1. asOf' # asOf
    BY <2>0
  <2>2. ASSUME UNCHANGED history PROVE FALSE
    BY <2>1, <2>2 DEF history
  <2>3. CASE StoreSnapshot
    BY <1>3, <2>0, <2>3 DEF StoreSnapshot, StoreList, CursorInv, TypeOK,
                            Revisions
  <2>4. CASE HandleChange
    BY <1>3, <2>0, <2>4 DEF HandleChange, CursorInv, Streaming
  <2>5. CASE ListConfigs
    BY <2>1, <2>5 DEF ListConfigs
  <2>6. CASE StoreThreadDenial \/ StoreStreamDenial
    BY <2>2, <2>6 DEF StoreThreadDenial, StoreStreamDenial, StoreDenial
  <2>7. ASSUME NEW n \in Names, HandleReplay(n) PROVE FALSE
    BY <2>2, <2>7 DEF HandleReplay
  <2>8. CASE \/ Loop \/ Wake \/ AfterSleep \/ TestCursor \/ ListDenied
             \/ ListFails \/ Ensure \/ CheckAvailable \/ OpenWatch
             \/ HandleBookmark \/ HandleErrorEvent \/ EnsureAfterEvent
             \/ AfterEvent \/ StreamEnds \/ StreamExpires \/ StreamDenied
             \/ Resume
    <3>1. UNCHANGED history
      BY <2>8 DEF Loop, Wake, AfterSleep, TestCursor, ListDenied, ListFails,
                  Ensure, CheckAvailable, OpenWatch, HandleBookmark,
                  HandleErrorEvent, EnsureAfterEvent, AfterEvent, StreamEnds,
                  StreamExpires, StreamDenied, Resume
    <3> QED
      BY <2>2, <3>1
  <2>9. ASSUME NEW t \in Requests, Request(t) PROVE FALSE
    <3>1. UNCHANGED history
      BY <2>9, RequestsAndCursor DEF StoreRequestDenial, StoreDenial
    <3> QED
      BY <2>2, <3>1
  <2>10. CASE \/ \E n \in Names, v \in Values \cup {Absent} : Commit(n, v)
              \/ SwitchAccess \/ Stop \/ UNCHANGED vars
    <3>1. UNCHANGED history
      BY <2>10 DEF Commit, SwitchAccess, Stop, vars
    <3> QED
      BY <2>2, <3>1
  <2> QED
    BY <1>3, <2>3, <2>4, <2>5, <2>6, <2>7, <2>8, <2>9, <2>10
       DEF Next, WatchThread
<1> QED
  BY <1>1, <1>2, <1>3, ConfigTypeCorrect, PTL DEF Spec, ThreadAloneMovesForward

-----------------------------------------------------------------------------
(* No wakeup is missed: a request that makes the cache available while the *)
(* thread sleeps goes on to wake it, or has done so.  Creating the Secret  *)
(* cache in between must not fail, which is what SecretsListable says.     *)
LEMMA WakeupStep ==
    SecretsListable /\ TypeOK /\ NoMissedWakeup /\ [Next]_vars
        => NoMissedWakeup'
<1> SUFFICES ASSUME SecretsListable, TypeOK, NoMissedWakeup, [Next]_vars,
                    pc' = "sleep", available'
             PROVE  \/ retry'
                    \/ \E t \in Requests : call'[t].at \in {"ensure", "wake"}
  BY DEF NoMissedWakeup
<1> DEFINE Waking(t) == call[t].at \in {"ensure", "wake"}
<1>1. ASSUME UNCHANGED <<pc, available, retry>>,
             \A t \in Requests : Waking(t) => Waking(t)'
      PROVE  retry' \/ \E t \in Requests : Waking(t)'
  BY <1>1 DEF NoMissedWakeup
<1>2. CASE \E n \in Names, v \in Values \cup {Absent} : Commit(n, v)
  BY <1>1, <1>2 DEF Commit
<1>3. CASE SwitchAccess
  <2>1. ASSUME NEW t \in Requests, Waking(t) PROVE Waking(t)'
    <3>1. call[t] \in BusyCalls
      BY <2>1, BusyMoves
    <3> QED
      BY <1>3, <2>1, <3>1 DEF SwitchAccess, BusyCalls
  <2> QED
    BY <1>1, <1>3, <2>1 DEF SwitchAccess
<1>4. CASE UNCHANGED vars
  BY <1>1, <1>4 DEF vars
<1>5. CASE Stop
  BY <1>5 DEF Stop
<1>6. CASE WatchThread
  <2>1. CASE Loop
    BY <2>1 DEF Loop, Step
  <2>2. CASE HandleChange \/ \E n \in Names : HandleReplay(n)
    BY <2>2 DEF HandleChange, HandleReplay, AfterApplying
  <2>3. CASE ~(\/ Loop \/ HandleChange \/ \E n \in Names : HandleReplay(n))
    BY <1>6, <2>3 DEF WatchThread, Wake, AfterSleep, TestCursor, ListConfigs,
              ListDenied, ListFails, StoreSnapshot, Ensure, StoreThreadDenial,
              CheckAvailable, OpenWatch, HandleBookmark, HandleErrorEvent,
              EnsureAfterEvent, AfterEvent, StreamEnds, StreamExpires,
              StreamDenied, StoreStreamDenial, Resume, Refreshed, Step
  <2> QED
    BY <2>1, <2>2, <2>3
<1>7. ASSUME NEW t \in Requests, NEW c, call' = [call EXCEPT ![t] = c],
             Waking(t) => c.at \in {"ensure", "wake"},
             UNCHANGED <<pc, available, retry>>
      PROVE  retry' \/ \E u \in Requests : Waking(u)'
  <2>1. ASSUME NEW u \in Requests, Waking(u) PROVE Waking(u)'
    BY <1>7, <2>1 DEF TypeOK
  <2> QED
    BY <1>1, <1>7, <2>1
<1>8. ASSUME NEW t \in Requests, Request(t)
      PROVE  retry' \/ \E u \in Requests : Waking(u)'
  <2>1. CASE WakeThread(t)
    BY <2>1 DEF WakeThread
  <2>2. CASE StoreReload(t)
    <3>1. call[t] \in BusyCalls /\ call[t].at = "store"
      BY <2>2, BusyMoves DEF StoreReload, At
    <3>2. call[t] = OvertakenBy(call[t].listed, call[t])
      BY <3>1 DEF OvertakenBy, Reloaded
    <3>3. Waking(t)'
      BY <2>2, <3>1, <3>2 DEF StoreReload, BusyCalls
    <3> QED
      BY <3>3
  <2>3. CASE StoreRequestDenial(t)
    BY <2>3 DEF StoreRequestDenial, StoreDenial
  <2>4. CASE EnsureForReload(t)
    <3>1. call[t] \in BusyCalls
      BY <2>4, BusyMoves DEF EnsureForReload, At
    <3>2. [call[t] EXCEPT !.at = "wake"].at = "wake"
      BY <3>1 DEF BusyCalls
    <3>3. call' = [call EXCEPT ![t] = [call[t] EXCEPT !.at = "wake"]]
      BY <2>4 DEF EnsureForReload, EnsureRaises, Go
    <3> QED
      BY <1>7, <2>4, <3>2, <3>3, RequestsAndCursor, <1>8
         DEF EnsureForReload, idleButCall
  <2>5. CASE \/ \E n \in Names : GetConfig(t, n) \/ GetConfigs(t, n)
             \/ Reload(t) \/ Verdict(t) \/ Reread(t) \/ RereadAll(t)
             \/ Lookup(t) \/ Forget(t)
    <3>1. \E c : call' = [call EXCEPT ![t] = c]
      BY <2>5 DEF GetConfig, GetConfigs, Ask, Reload, Verdict, Reread,
                  RereadAll, Lookup, Forget, Go, Return
    <3>2. ~Waking(t)
      BY <2>5 DEF GetConfig, GetConfigs, Ask, Reload, Verdict, Reread,
                  RereadAll, Lookup, Forget, At
    <3>3. UNCHANGED <<pc, available, retry>>
      BY <2>5 DEF GetConfig, GetConfigs, Ask, Reload, Verdict, Reread,
                  RereadAll, Lookup, Forget, idleButCall, sharedState
    <3> QED
      BY <1>7, <3>1, <3>2, <3>3
  <2> QED
    BY <1>8, <2>1, <2>2, <2>3, <2>4, <2>5 DEF Request
<1> QED
  BY <1>2, <1>3, <1>4, <1>5, <1>6, <1>8 DEF Next

(* While the first LIST of Secrets does not fail, the thread never sleeps  *)
(* out the five minutes of its retry beside a cache that is available.     *)
THEOREM ThreadIsWoken ==
    ASSUME SecretsListable PROVE Spec => []NoMissedWakeup
<1>1. Init => NoMissedWakeup
  BY DEF Init, NoMissedWakeup
<1>2. TypeOK /\ NoMissedWakeup /\ [Next]_vars => NoMissedWakeup'
  BY WakeupStep
<1> QED
  BY <1>1, <1>2, ConfigTypeCorrect, PTL DEF Spec

-----------------------------------------------------------------------------
(* A sound call that stays as it is, or is overtaken, stays sound: the     *)
(* cache becomes unavailable, or a name in it absent, only by what excuses *)
(* the call or shows the name absent.                                      *)
LEMMA StaysSound ==
    ASSUME UNCHANGED <<rev, hist, access>>,
           DenialInFlight' => DenialInFlight \/ ~access,
           ~available' => ~available \/ DenialInFlight \/ ~access,
           NEW t \in Requests, NEW c, Sound(c),
           \/ call'[t] = c
           \/ c \in BusyCalls /\ call'[t] = [c EXCEPT !.overtaken = TRUE],
           c.listing /\ c.at \in Reloaded /\ configs'[c.name] = Absent =>
               \/ configs[c.name] = Absent \/ AbsentDuring(c)
               \/ Excused(call'[t]) \/ DenialInFlight \/ ~access
    PROVE  Sound(call[t])'
<1> DEFINE d == call'[t]
<1>1. /\ d.at = c.at /\ d.name = c.name /\ d.start = c.start
      /\ d.listing = c.listing /\ d.listed = c.listed
      /\ d.denied = c.denied /\ d.result = c.result
      /\ Excused(c) => Excused(d)
  BY DEF BusyCalls, Excused
<1>2. InFlight(c) /\ (DenialInFlight \/ ~access) => Excused(c)
  BY DEF Sound, MeetsDenials, Excused
<1>3. AbsentDuring(c) => AbsentDuring(call[t])'
  BY <1>1 DEF AbsentDuring
<1>4. MeetsDenials(call[t])'
  BY <1>1, <1>2 DEF Sound, MeetsDenials, InFlight, Excused
<1>5. ReloadKnown(call[t])'
  <2>1. c.at \in Reloaded => InFlight(c)
    BY DEF Reloaded, InFlight
  <2>2. c.at \in {"ensure", "wake", "verdict"} => c.at \in Reloaded
    BY DEF Reloaded
  <2>3. d.at = "store" => d.start <= d.listed /\ d.listed <= rev'
    BY <1>1 DEF Sound, ReloadKnown
  <2>4. d.at \in {"ensure", "wake", "verdict"} /\ ~available' => Excused(d)
    BY <1>1, <1>2, <2>1, <2>2 DEF Sound, ReloadKnown
  <2>5. d.listing /\ d.at \in Reloaded /\ configs'[d.name] = Absent =>
            AbsentDuring(call[t])' \/ Excused(d)
    BY <1>1, <1>2, <1>3, <2>1 DEF Sound, ReloadKnown
  <2> QED
    BY <2>3, <2>4, <2>5 DEF ReloadKnown, Excused
<1>6. Accounted(call[t])'
  BY <1>1, <1>3 DEF Sound, Accounted, Excused
<1> QED
  BY <1>1, <1>4, <1>5, <1>6 DEF Sound

(* A request that moves leaves the others as they are.                     *)
LEMMA OneCallMoves ==
    ASSUME TypeOK, CallsAreSound,
           UNCHANGED <<rev, hist, access, configs, available, pc>>,
           NEW t \in Requests, NEW c, call' = [call EXCEPT ![t] = c], Sound(c),
           c.at = "deny" => ~access
    PROVE  CallsAreSound'
<1>1. \A u \in Requests : call'[u] = IF u = t THEN c ELSE call[u]
  BY DEF TypeOK
<1>2. DenialInFlight' => DenialInFlight \/ ~access
  BY <1>1 DEF DenialInFlight
<1>3. ASSUME NEW u \in Requests
      PROVE  Sound(call[u])'
  <2>1. Sound(IF u = t THEN c ELSE call[u])
    BY DEF CallsAreSound
  <2> QED
    BY <1>1, <1>2, <2>1, StaysSound
<1> QED
  BY <1>3 DEF CallsAreSound

(* A request that has met what it met, and moves on.                       *)
LEMMA GoesSoundly ==
    ASSUME TypeOK, CallsAreSound, NEW t \in Requests, InFlight(call[t]),
           NEW to \in {"deny", "ensure", "wake", "verdict", "reread", "lookup"},
           \/ to = "lookup"
           \/ to = "deny" /\ ~access
           \/ to = "reread" /\ call[t].at \in Reloaded
           \/ call[t].at \in {"ensure", "wake", "verdict"}
           \/ Excused(call[t])
    PROVE  Sound([call[t] EXCEPT !.at = to])
<1> DEFINE c == call[t]
           d == [c EXCEPT !.at = to]
<1>1. c \in BusyCalls /\ Sound(c)
  BY BusyMoves DEF InFlight, CallsAreSound
<1>2. /\ d.at = to /\ d.name = c.name /\ d.start = c.start
      /\ d.listing = c.listing /\ d.denied = c.denied
      /\ d.overtaken = c.overtaken
  BY <1>1 DEF BusyCalls
<1>3. (Excused(d) <=> Excused(c)) /\ (AbsentDuring(d) <=> AbsentDuring(c))
  BY <1>2 DEF Excused, AbsentDuring
<1>4. MeetsDenials(d)
  BY <1>1, <1>2, <1>3 DEF Sound, MeetsDenials
<1>5. ReloadKnown(d)
  BY <1>1, <1>2, <1>3 DEF Sound, ReloadKnown, Reloaded
<1> QED
  BY <1>1, <1>2, <1>4, <1>5 DEF Sound, Accounted

(* A request that answers; the answer Absent has to be accounted for.      *)
LEMMA AnswersSoundly ==
    ASSUME TypeOK, NEW c \in BusyCalls, NEW r,
           r = Absent => AbsentDuring(c) \/ Excused(c)
    PROVE  Sound(Answered(c, r))
<1> DEFINE d == Answered(c, r)
<1>1. c.start <= rev /\ 0 <= rev
  BY DEF BusyCalls, TypeOK, Revisions
<1>2. d.at = "done"
  BY AnsweredFields
<1>3. CASE r = Absent
  <2>1. /\ d.name = c.name /\ d.start = c.start
        /\ d.denied = c.denied /\ d.overtaken = c.overtaken
    BY <1>3, AnsweredFields
  <2> QED
    BY <1>1, <1>2, <1>3, <2>1 DEF Sound, MeetsDenials, InFlight, ReloadKnown,
       Reloaded, Accounted, AbsentDuring, Excused
<1>4. CASE r # Absent
  <2>1. d.result = r /\ d.start = 0
    BY <1>4, AnsweredFields
  <2> QED
    BY <1>1, <1>2, <1>4, <2>1 DEF Sound, MeetsDenials, InFlight, ReloadKnown,
       Reloaded, Accounted
<1> QED
  BY <1>3, <1>4

-----------------------------------------------------------------------------
(* The open watch has a backlog only before its first event.               *)
LEMMA ReplayStep == TypeOK /\ ReplayInv /\ [Next]_vars => ReplayInv'
<1> SUFFICES ASSUME TypeOK, ReplayInv, [Next]_vars PROVE ReplayInv'
  OBVIOUS
<1> USE MlflowConfigCacheAssumption
<1>1. ASSUME UNCHANGED <<hist, sent>>, backlog' \subseteq backlog
      PROVE  ReplayInv'
  BY <1>1 DEF ReplayInv
<1>2. ASSUME backlog' = {} PROVE ReplayInv'
  BY <1>2 DEF ReplayInv
<1>3. CASE \E n \in Names, v \in Values \cup {Absent} : Commit(n, v)
  <2>1. hist'[sent] = hist[sent]
    BY <1>3 DEF Commit, TypeOK, Revisions
  <2> QED
    BY <1>3, <2>1 DEF Commit, ReplayInv, watch
<1>4. CASE SwitchAccess \/ Stop \/ UNCHANGED vars
  BY <1>1, <1>4 DEF SwitchAccess, Stop, vars, server, watch
<1>6. CASE OpenWatch
  <2>1. CASE rv = NoRv
    BY <1>6, <2>1 DEF OpenWatch, ReplayInv, server
  <2>2. CASE rv # NoRv
    BY <1>2, <1>6, <2>2 DEF OpenWatch
  <2> QED
    BY <2>1, <2>2
<1>7. CASE HandleChange
  BY <1>2, <1>7 DEF HandleChange
<1>8. ASSUME NEW n \in Names, HandleReplay(n)
      PROVE  ReplayInv'
  BY <1>1, <1>8 DEF HandleReplay, server
<1>9. CASE StreamEnds \/ StreamExpires \/ StreamDenied \/ Resume
  BY <1>2, <1>9 DEF StreamEnds, StreamExpires, StreamDenied, Resume, NoWatch
<1>10. CASE \/ Loop \/ Wake \/ AfterSleep \/ TestCursor \/ ListConfigs
            \/ ListDenied \/ ListFails \/ StoreSnapshot \/ Ensure
            \/ StoreThreadDenial \/ CheckAvailable \/ HandleBookmark
            \/ HandleErrorEvent \/ EnsureAfterEvent \/ AfterEvent
            \/ StoreStreamDenial
  <2>1. UNCHANGED server /\ UNCHANGED watch
    BY <1>10 DEF Loop, Wake, AfterSleep, TestCursor, ListConfigs, ListDenied,
                 ListFails, StoreSnapshot, Ensure, StoreThreadDenial,
                 CheckAvailable, HandleBookmark, HandleErrorEvent,
                 EnsureAfterEvent, AfterEvent, StoreStreamDenial
  <2> QED
    BY <1>1, <2>1 DEF server, watch
<1>11. ASSUME NEW t \in Requests, Request(t)
       PROVE  ReplayInv'
  BY <1>1, <1>11, RequestsAndCursor DEF server, watch
<1> QED
  BY <1>3, <1>4, <1>6, <1>7, <1>8, <1>9, <1>10, <1>11
     DEF Next, WatchThread

(* What is absent in a revision of the call was absent during it.          *)
LEMMA AbsentThen ==
    ASSUME TypeOK, NEW c, c.start \in Nat, NEW r \in 0 .. rev, c.start <= r,
           hist[r][c.name] = Absent
    PROVE  AbsentDuring(c)
BY DEF AbsentDuring, TypeOK, Revisions

(* An older revision that replaces what a listing has listed overtakes it. *)
LEMMA OlderOvertakes ==
    ASSUME TypeOK, NEW t \in Requests, NEW r \in 0 .. rev,
           call[t].listing, call[t].at \in Reloaded,
           hist[r][call[t].name] = Absent
    PROVE  AbsentDuring(call[t]) \/ Excused(OvertakenBy(r, call[t]))
<1>1. call[t] \in BusyCalls /\ call[t].start \in Nat
  BY ReloadedIsBusy
<1>2. rev \in Nat
  BY DEF TypeOK, Revisions
<1>3. CASE r < call[t].start
  BY <1>1, <1>3 DEF OvertakenBy, BusyCalls, Excused
<1>4. CASE call[t].start <= r
  BY <1>1, <1>4, AbsentThen
<1> QED
  BY <1>1, <1>2, <1>3, <1>4

(* Every step of the watch thread keeps the calls sound.                   *)
LEMMA ThreadKeepsCalls ==
    ASSUME TypeOK, ReplayInv, CallsAreSound, WatchThread
    PROVE  CallsAreSound'
<1> USE MlflowConfigCacheAssumption
<1>1. UNCHANGED <<rev, hist, access>>
  BY DEF WatchThread, Loop, Wake, AfterSleep, TestCursor, ListConfigs,
         ListDenied, ListFails, StoreSnapshot, Ensure, StoreThreadDenial,
         CheckAvailable, OpenWatch, HandleChange, HandleReplay, HandleBookmark,
         HandleErrorEvent, EnsureAfterEvent, AfterEvent, StreamEnds,
         StreamExpires, StreamDenied, StoreStreamDenial, Resume, server
<1>2. ASSUME pc' \in {"deny", "dropped"} => ~access,
             ~available' => ~available \/ DenialInFlight \/ ~access,
             UNCHANGED call,
             \A n \in Names : configs'[n] = Absent =>
                 configs[n] = Absent \/ DenialInFlight \/ ~access
      PROVE  CallsAreSound'
  <2>1. DenialInFlight' => DenialInFlight \/ ~access
    BY <1>2 DEF DenialInFlight
  <2>2. ASSUME NEW t \in Requests
        PROVE  Sound(call[t])'
    <3>1. call[t].at \in Reloaded => call[t].name \in Names
      BY ReloadedIsBusy
    <3>2. Sound(call[t])
      BY DEF CallsAreSound
    <3> QED
      BY <1>1, <1>2, <2>1, <3>1, <3>2, StaysSound
  <2> QED
    BY <2>2 DEF CallsAreSound
<1>3. CASE \/ Loop \/ Wake \/ AfterSleep \/ TestCursor \/ ListConfigs
           \/ ListDenied \/ ListFails \/ Ensure \/ CheckAvailable
           \/ OpenWatch \/ HandleBookmark \/ HandleErrorEvent
           \/ EnsureAfterEvent \/ AfterEvent \/ StreamEnds \/ StreamExpires
           \/ StreamDenied \/ Resume
  <2>1. UNCHANGED <<configs, call>>
    BY <1>3 DEF Loop, Wake, AfterSleep, TestCursor, ListConfigs, ListDenied,
                ListFails, Ensure, CheckAvailable, OpenWatch, HandleBookmark,
                HandleErrorEvent, EnsureAfterEvent, AfterEvent, StreamEnds,
                StreamExpires, StreamDenied, Resume
  <2>2. /\ pc' \in {"deny", "dropped"} => ~access
        /\ available' \/ available' = available
    BY <1>3 DEF Loop, Wake, AfterSleep, TestCursor, ListConfigs, ListDenied,
                ListFails, Ensure, CheckAvailable, OpenWatch, HandleBookmark,
                HandleErrorEvent, EnsureAfterEvent, AfterEvent, StreamEnds,
                StreamExpires, StreamDenied, Resume, Refreshed, Step
  <2> QED
    BY <1>2, <2>1, <2>2
<1>4. CASE StoreThreadDenial \/ StoreStreamDenial
  BY <1>2, <1>4 DEF StoreThreadDenial, StoreStreamDenial, StoreDenial, Step,
                    DenialInFlight
<1>5. ASSUME NEW n \in Names, HandleReplay(n)
      PROVE  CallsAreSound'
  <2>1. hist[sent][n] # Absent
    BY <1>5 DEF HandleReplay, ReplayInv
  <2>2. \A m \in Names : configs'[m] = Absent => configs[m] = Absent
    BY <1>5, <2>1 DEF HandleReplay, TypeOK, View
  <2> QED
    BY <1>2, <1>5, <2>2 DEF HandleReplay, AfterApplying
<1>6. ASSUME NEW r \in 0 .. rev, pc' \notin {"deny", "dropped"},
             available' \/ UNCHANGED available,
             NEW S \in SUBSET Names,
             \A n \in S : configs'[n] = hist[r][n],
             \A n \in Names \ S : configs'[n] = configs[n],
             \A t \in Requests : call'[t] =
                 IF call[t].name \in S THEN OvertakenBy(r, call[t])
                 ELSE call[t]
      PROVE  CallsAreSound'
  <2>1. ASSUME NEW t \in Requests
        PROVE  call'[t].at = call[t].at
    BY <1>6, OvertakenFields DEF TypeOK, BusyCalls
  <2>2. DenialInFlight' => DenialInFlight
    BY <1>6, <2>1 DEF DenialInFlight
  <2>3. ASSUME NEW t \in Requests
        PROVE  Sound(call[t])'
    <3>1. Sound(call[t]) /\ call[t] \in Calls
      BY DEF CallsAreSound, TypeOK
    <3>2. \/ call'[t] = call[t]
          \/ call[t] \in BusyCalls
             /\ call'[t] = [call[t] EXCEPT !.overtaken = TRUE]
      BY <1>6, <3>1, OvertakenFields
    <3>3. call[t].at \in Reloaded => call[t].name \in Names
      BY ReloadedIsBusy
    <3>4. ASSUME call[t].listing, call[t].at \in Reloaded,
                 configs'[call[t].name] = Absent
          PROVE  \/ configs[call[t].name] = Absent
                 \/ AbsentDuring(call[t]) \/ Excused(call'[t])
      BY <1>6, <3>3, <3>4, OlderOvertakes
    <3> QED
      BY <1>1, <1>6, <2>2, <3>1, <3>2, <3>4, StaysSound
  <2> QED
    BY <2>3 DEF CallsAreSound
<1>7. CASE StoreSnapshot
  <2>1. listed \in 0 .. rev
    BY DEF TypeOK
  <2>2. pc' \notin {"deny", "dropped"} /\ available'
    BY <1>7 DEF StoreSnapshot, StoreList, Refreshed
  <2>3. \A t \in Requests : call'[t] = OvertakenBy(listed, call[t])
    BY <1>7 DEF StoreSnapshot
  <2>4. configs' = hist[listed]
    BY <1>7 DEF StoreSnapshot, StoreList
  <2>5. \A t \in Requests :
            call[t].name \notin Names => OvertakenBy(listed, call[t]) = call[t]
    BY ReloadedIsBusy DEF OvertakenBy
  <2> QED
    BY <1>6, <2>1, <2>2, <2>3, <2>4, <2>5
<1>8. CASE HandleChange
  <2>1. sent + 1 \in 0 .. rev
    BY <1>8 DEF HandleChange, TypeOK, Revisions
  <2>2. PICK n \in Names :
            /\ configs' = [configs EXCEPT ![n] = hist[sent + 1][n]]
            /\ AfterApplying(hist[sent + 1][n])
            /\ call' = [t \in Requests |->
                  IF call[t].name = n THEN OvertakenBy(sent + 1, call[t])
                  ELSE call[t]]
    BY <1>8 DEF HandleChange
  <2>3. pc' \notin {"deny", "dropped"} /\ UNCHANGED available
    BY <1>8, <2>2 DEF HandleChange, AfterApplying
  <2>4. /\ \A m \in {n} : configs'[m] = hist[sent + 1][m]
        /\ \A m \in Names \ {n} : configs'[m] = configs[m]
    BY <2>2 DEF TypeOK, View
  <2>5. \A t \in Requests : call'[t] =
            IF call[t].name \in {n} THEN OvertakenBy(sent + 1, call[t])
            ELSE call[t]
    BY <2>2
  <2> QED
    BY <1>6, <2>1, <2>3, <2>4, <2>5
<1> QED
  BY <1>3, <1>4, <1>5, <1>7, <1>8 DEF WatchThread

(* A request asks: what it is to meet starts with what it finds.           *)
LEMMA AskIsSound ==
    ASSUME TypeOK, CallsAreSound, NEW t \in Requests, NEW n \in Names,
           NEW others \in SUBSET Names, NEW listing \in BOOLEAN,
           Ask(t, n, others, listing)
    PROVE  CallsAreSound'
<1> DEFINE c == [IdleCall EXCEPT !.name = n, !.others = others, !.start = rev,
                    !.denied = ~access, !.overtaken = DenialInFlight]
           lookup == [c EXCEPT !.at = "lookup"]
           reload == [c EXCEPT !.at = "reload", !.listing = listing]
           hit == Answered(c, configs[n])
<1>1. UNCHANGED <<rev, hist, access, configs, available, pc>>
  BY DEF Ask, idleButCall, sharedState, server
<1>2. rev <= rev /\ 0 <= rev
  BY DEF TypeOK, Revisions
<1>3. Sound(lookup)
  <2>1. /\ lookup.at = "lookup" /\ lookup.start = rev
        /\ lookup.denied = (~access) /\ lookup.overtaken = DenialInFlight
    BY DEF IdleCall
  <2> QED
    BY <1>2, <2>1 DEF Sound, MeetsDenials, InFlight, ReloadKnown, Reloaded,
                      Accounted, Excused
<1>4. Sound(reload)
  <2>1. /\ reload.at = "reload" /\ reload.start = rev
        /\ reload.denied = (~access) /\ reload.overtaken = DenialInFlight
    BY DEF IdleCall
  <2> QED
    BY <1>2, <2>1 DEF Sound, MeetsDenials, InFlight, ReloadKnown, Reloaded,
                      Accounted, Excused
<1>5. configs[n] # Absent => Sound(hit) /\ hit.at = "done"
  <2>1. configs[n] # Absent =>
            hit.at = "done" /\ hit.start = 0 /\ hit.result = configs[n]
    BY DEF Answered, IdleCall
  <2> QED
    BY <1>2, <2>1 DEF Sound, MeetsDenials, InFlight, ReloadKnown, Reloaded,
                      Accounted
<1>6. \/ call' = [call EXCEPT ![t] = lookup]
      \/ call' = [call EXCEPT ![t] = reload]
      \/ configs[n] # Absent /\ call' = [call EXCEPT ![t] = hit]
  <2>1. c.name = n
    BY DEF IdleCall
  <2>2. (\A m \in AskedOf(c) : configs[m] # Absent) => configs[n] # Absent
    BY <2>1 DEF AskedOf
  <2> QED
    BY <2>2 DEF Ask
<1>7. lookup.at # "deny" /\ reload.at # "deny"
  BY DEF IdleCall
<1> HIDE DEF c, lookup, reload, hit
<1> QED
  BY <1>1, <1>3, <1>4, <1>5, <1>6, <1>7, OneCallMoves

(* A reload is stored: its own listing has the name as it was when listed, *)
(* and listings it is older than are overtaken.                            *)
LEMMA StoreReloadIsSound ==
    ASSUME TypeOK, CallsAreSound, NEW t \in Requests, StoreReload(t)
    PROVE  CallsAreSound'
<1> DEFINE r == call[t].listed
           to == IF UsesSecret(hist[r]) THEN "ensure" ELSE "wake"
           d == [call[t] EXCEPT !.at = to, !.listed = 0]
<1>1. /\ UNCHANGED <<rev, hist, access, pc>>
      /\ available' = TRUE /\ configs' = hist[r]
  BY DEF StoreReload, StoreList, idleButCall, server
<1>2. call[t].at = "store" /\ call[t] \in BusyCalls
  BY BusyMoves DEF StoreReload, At
<1>3. /\ r \in 0 .. rev /\ call[t].start \in Nat /\ call[t].start <= r
      /\ call[t].start <= rev
  BY <1>2 DEF CallsAreSound, Sound, ReloadKnown, BusyCalls
<1>4. call'[t] = d
  <2>1. OvertakenBy(r, call[t]) = call[t]
    BY <1>2 DEF OvertakenBy, Reloaded
  <2> QED
    BY <2>1 DEF StoreReload
<1>5. \A u \in Requests \ {t} : call'[u] = OvertakenBy(r, call[u])
  BY DEF StoreReload
<1>6. /\ d.at \in {"ensure", "wake"} /\ d.start = call[t].start
      /\ d.denied = call[t].denied /\ d.overtaken = call[t].overtaken
      /\ d.name = call[t].name
  BY <1>2 DEF BusyCalls
<1>7. ASSUME NEW u \in Requests PROVE call'[u].at = "deny" => call[u].at = "deny"
  <2>1. CASE u = t
    BY <1>4, <1>6, <2>1
  <2>2. CASE u # t
    BY <1>5, <2>2, OvertakenFields DEF TypeOK, BusyCalls
  <2> QED
    BY <2>1, <2>2
<1>8. DenialInFlight' => DenialInFlight
  BY <1>1, <1>7 DEF DenialInFlight
<1>9. Sound(call[t])'
  <2>1. hist[r][call[t].name] = Absent => AbsentDuring(call[t])
    BY <1>3, AbsentThen
  <2>2. hist[r][d.name] = Absent => AbsentDuring(call[t])'
    BY <1>1, <1>4, <1>6, <2>1 DEF AbsentDuring
  <2>3. MeetsDenials(call[t])
    BY DEF CallsAreSound, Sound
  <2>4. MeetsDenials(call[t])'
    BY <1>1, <1>2, <1>4, <1>6, <1>8, <2>3 DEF MeetsDenials, InFlight, Excused
  <2>5. ReloadKnown(call[t])'
    BY <1>1, <1>4, <1>6, <2>2 DEF ReloadKnown
  <2>6. Accounted(call[t])' /\ call'[t].start <= rev'
    BY <1>1, <1>3, <1>4, <1>6 DEF Accounted
  <2> QED
    BY <2>4, <2>5, <2>6 DEF Sound
<1>10. ASSUME NEW u \in Requests \ {t}
       PROVE  Sound(call[u])'
  <2>1. Sound(call[u]) /\ call[u] \in Calls
    BY DEF CallsAreSound, TypeOK
  <2>2. \/ call'[u] = call[u]
        \/ call[u] \in BusyCalls
           /\ call'[u] = [call[u] EXCEPT !.overtaken = TRUE]
    BY <1>5, <2>1, OvertakenFields
  <2>3. ASSUME call[u].listing, call[u].at \in Reloaded,
               configs'[call[u].name] = Absent
        PROVE  AbsentDuring(call[u]) \/ Excused(call'[u])
    BY <1>1, <1>3, <1>5, <2>3, OlderOvertakes
  <2> QED
    BY <1>1, <1>8, <2>1, <2>2, <2>3, StaysSound
<1> QED
  BY <1>9, <1>10 DEF CallsAreSound

(* A request applies a denial it has received: all in flight are excused.  *)
LEMMA RequestDenialIsSound ==
    ASSUME TypeOK, CallsAreSound, NEW t \in Requests, StoreRequestDenial(t)
    PROVE  CallsAreSound'
<1>1. UNCHANGED <<rev, hist, access, pc>>
  BY DEF StoreRequestDenial, idleButCall, server
<1>2. call[t].at = "deny" /\ DenialInFlight
  BY DEF StoreRequestDenial, At, DenialInFlight
<1>3. InFlight(call[t]) /\ Excused(call[t])
  BY <1>2 DEF InFlight, CallsAreSound, Sound, MeetsDenials
<1>4. Sound([call[t] EXCEPT !.at = "wake"])
  BY <1>3, GoesSoundly
<1>5. \A u \in Requests :
          call'[u] = IF u = t THEN [call[t] EXCEPT !.at = "wake"] ELSE call[u]
  BY DEF StoreRequestDenial, Go, TypeOK
<1>6. ASSUME NEW u \in Requests
      PROVE  Sound(call[u])'
  <2>1. Sound(IF u = t THEN [call[t] EXCEPT !.at = "wake"] ELSE call[u])
    BY <1>4 DEF CallsAreSound
  <2> QED
    BY <1>1, <1>2, <1>5, <2>1, StaysSound
<1> QED
  BY <1>6 DEF CallsAreSound

(* Every step of a request keeps the calls sound.                          *)
LEMMA RequestKeepsCalls ==
    ASSUME TypeOK, CallsAreSound, NEW t \in Requests, Request(t)
    PROVE  CallsAreSound'
<1> USE MlflowConfigCacheAssumption
<1>1. CASE \E n \in Names : GetConfig(t, n) \/ GetConfigs(t, n)
  BY <1>1, AskIsSound DEF GetConfig, GetConfigs
<1>2. CASE StoreReload(t)
  BY <1>2, StoreReloadIsSound
<1>3. CASE StoreRequestDenial(t)
  BY <1>3, RequestDenialIsSound
<1>4. ASSUME UNCHANGED <<rev, hist, access, configs, available, pc>>,
             InFlight(call[t]),
             NEW to \in {"deny", "ensure", "wake", "verdict", "reread",
                         "lookup"},
             \/ to = "lookup"
             \/ to = "deny" /\ ~access
             \/ to = "reread" /\ call[t].at \in Reloaded
             \/ call[t].at \in {"ensure", "wake", "verdict"} /\ to # "deny",
             Go(t, to)
      PROVE  CallsAreSound'
  <2>1. call[t] \in BusyCalls
    BY <1>4, BusyMoves DEF InFlight
  <2>2. [call[t] EXCEPT !.at = to].at = to
    BY <2>1 DEF BusyCalls
  <2>3. Sound([call[t] EXCEPT !.at = to])
    BY <1>4, GoesSoundly
  <2>4. call' = [call EXCEPT ![t] = [call[t] EXCEPT !.at = to]]
    BY <1>4 DEF Go, TypeOK
  <2> QED
    BY <1>4, <2>2, <2>3, <2>4, OneCallMoves
<1>5. ASSUME UNCHANGED <<rev, hist, access, configs, available, pc>>,
             InFlight(call[t]), NEW r, Return(t, r),
             r = Absent => AbsentDuring(call[t]) \/ Excused(call[t])
      PROVE  CallsAreSound'
  <2>1. call[t] \in BusyCalls
    BY <1>5, BusyMoves DEF InFlight
  <2>2. Sound(Answered(call[t], r)) /\ Answered(call[t], r).at = "done"
    BY <1>5, <2>1, AnswersSoundly, AnsweredFields
  <2> QED
    BY <1>5, <2>2, OneCallMoves DEF Return
<1>6. CASE Reload(t) \/ EnsureForReload(t) \/ WakeThread(t) \/ Verdict(t)
           \/ Reread(t) \/ RereadAll(t) \/ Lookup(t)
  <2>1. UNCHANGED <<rev, hist, access, configs, available, pc>>
    BY <1>6 DEF Reload, EnsureForReload, WakeThread, Verdict, Reread,
                RereadAll, Lookup, idleButCall, sharedState, server
  <2>2. InFlight(call[t])
    BY <1>6 DEF Reload, EnsureForReload, WakeThread, Verdict, Reread,
                RereadAll, Lookup, At, InFlight
  <2>3. call[t] \in BusyCalls /\ Sound(call[t]) /\ call[t].start <= rev
    BY <2>2, BusyMoves DEF InFlight, CallsAreSound, Sound
  <2>4. call[t].start \in Nat /\ rev \in 0 .. rev
    BY <2>3 DEF BusyCalls, TypeOK, Revisions
  <2>5. ASSUME ~access PROVE Excused(call[t])
    BY <2>2, <2>3, <2>5 DEF Sound, MeetsDenials, Excused
  <2>6. CASE Reload(t)
    <3> DEFINE d == [call[t] EXCEPT !.at = "store", !.listed = rev]
    <3>1. CASE access /\ call' = [call EXCEPT ![t].at = "store",
                                              ![t].listed = rev]
      <4>1. /\ d.at = "store" /\ d.listed = rev /\ d.start = call[t].start
            /\ d.denied = call[t].denied /\ d.overtaken = call[t].overtaken
        BY <2>3 DEF BusyCalls
      <4>2. Sound(d)
        BY <2>2, <2>3, <2>4, <4>1 DEF Sound, MeetsDenials, InFlight, Excused,
              ReloadKnown, Reloaded, Accounted
      <4>3. call' = [call EXCEPT ![t] = d]
        BY <3>1 DEF TypeOK
      <4> QED
        BY <2>1, <4>1, <4>2, <4>3, OneCallMoves
    <3>2. CASE ~access /\ Go(t, "deny")
      BY <1>4, <2>1, <2>2, <3>2
    <3>3. CASE Return(t, Failed)
      BY <1>5, <2>1, <2>2, <3>3
    <3> QED
      BY <2>6, <3>1, <3>2, <3>3 DEF Reload
  <2>7. CASE EnsureForReload(t)
    <3>1. CASE Go(t, "wake")
      BY <1>4, <2>1, <2>2, <2>7, <3>1 DEF EnsureForReload, At
    <3>2. CASE Return(t, Failed)
      BY <1>5, <2>1, <2>2, <3>2
    <3> QED
      BY <2>7, <3>1, <3>2 DEF EnsureForReload
  <2>8. CASE WakeThread(t)
    BY <1>4, <2>1, <2>2, <2>8 DEF WakeThread, At
  <2>9. CASE Verdict(t)
    <3>1. CASE available
      BY <1>4, <2>1, <2>2, <2>9, <3>1 DEF Verdict, At, Reloaded
    <3>2. CASE ~available
      <4>1. Excused(call[t])
        BY <2>3, <2>9, <3>2 DEF Verdict, At, Sound, ReloadKnown
      <4> QED
        BY <1>5, <2>1, <2>2, <2>9, <3>2, <4>1 DEF Verdict
    <3> QED
      BY <3>1, <3>2
  <2>10. CASE Reread(t)
    <3>1. CASE configs[call[t].name] # Absent
      BY <1>5, <2>1, <2>2, <2>10, <3>1 DEF Reread
    <3>2. CASE configs[call[t].name] = Absent
      BY <1>4, <2>1, <2>2, <2>10, <3>2 DEF Reread
    <3> QED
      BY <3>1, <3>2
  <2>11. CASE RereadAll(t)
    <3>1. configs[call[t].name] = Absent =>
              AbsentDuring(call[t]) \/ Excused(call[t])
      BY <2>3, <2>11 DEF RereadAll, At, Reloaded, Sound, ReloadKnown
    <3> QED
      BY <1>5, <2>1, <2>2, <2>11, <3>1 DEF RereadAll
  <2>12. CASE Lookup(t)
    <3> DEFINE found == hist[rev][call[t].name]
    <3>1. found = Absent => AbsentDuring(call[t])
      BY <2>3, <2>4, AbsentThen
    <3>2. CASE Return(t, found)
      BY <1>5, <2>1, <2>2, <3>1, <3>2
    <3>3. CASE Return(t, Failed)
      BY <1>5, <2>1, <2>2, <3>3
    <3>4. CASE ~access /\ Return(t, Absent)
      BY <1>5, <2>1, <2>2, <2>5, <3>4
    <3> QED
      BY <2>12, <3>2, <3>3, <3>4 DEF Lookup
  <2> QED
    BY <1>6, <2>6, <2>7, <2>8, <2>9, <2>10, <2>11, <2>12
<1>7. CASE Forget(t)
  <2>1. 0 <= rev /\ IdleCall.at # "deny"
    BY DEF TypeOK, Revisions, IdleCall
  <2>2. Sound(IdleCall)
    BY <2>1 DEF Sound, MeetsDenials, InFlight, ReloadKnown, Reloaded,
                Accounted, IdleCall
  <2>3. UNCHANGED <<rev, hist, access, configs, available, pc>>
    BY <1>7 DEF Forget, idleButCall, sharedState, server
  <2> QED
    BY <1>7, <2>1, <2>2, <2>3, OneCallMoves DEF Forget
<1> QED
  BY <1>1, <1>2, <1>3, <1>6, <1>7 DEF Request

(* Every step keeps the calls sound.                                       *)
LEMMA CallsStep ==
    TypeOK /\ ReplayInv /\ CallsAreSound /\ [Next]_vars => CallsAreSound'
<1> SUFFICES ASSUME TypeOK, ReplayInv, CallsAreSound, [Next]_vars
             PROVE  CallsAreSound'
  OBVIOUS
<1> USE MlflowConfigCacheAssumption
<1>1. CASE \E n \in Names, v \in Values \cup {Absent} : Commit(n, v)
  <2>1. /\ rev \in Nat /\ rev' = rev + 1
        /\ UNCHANGED <<access, configs, available, call, pc>>
        /\ \A r \in 0 .. rev : hist'[r] = hist[r]
    BY <1>1 DEF Commit, TypeOK, Revisions
  <2>2. DenialInFlight' = DenialInFlight
    BY <2>1 DEF DenialInFlight
  <2>3. ASSUME NEW t \in Requests
        PROVE  Sound(call[t])'
    <3>1. Sound(call[t]) /\ call[t] \in Calls
      BY DEF CallsAreSound, TypeOK
    <3>2. call[t].start \in Nat
      BY <3>1 DEF Calls, BusyCalls, IdleCall
    <3>3. AbsentDuring(call[t]) => AbsentDuring(call[t])'
      BY <2>1, <3>2 DEF AbsentDuring
    <3>4. call[t].at = "store" => call[t].listed \in 0 .. rev
      BY <3>1 DEF Calls, BusyCalls, IdleCall
    <3>5. MeetsDenials(call[t])'
      BY <2>1, <2>2, <3>1 DEF Sound, MeetsDenials
    <3>6. ReloadKnown(call[t])'
      BY <2>1, <3>1, <3>3, <3>4 DEF Sound, ReloadKnown
    <3>7. Accounted(call[t])'
      BY <2>1, <3>1, <3>3 DEF Sound, Accounted
    <3> QED
      BY <2>1, <3>1, <3>2, <3>5, <3>6, <3>7 DEF Sound
  <2> QED
    BY <2>3 DEF CallsAreSound
<1>2. CASE SwitchAccess
  <2>1. UNCHANGED <<rev, hist, configs, available, pc>> /\ access' = ~access
    BY <1>2 DEF SwitchAccess
  <2>2. ASSUME NEW t \in Requests
        PROVE  /\ \/ call'[t] = call[t]
                  \/ /\ access /\ InFlight(call[t]) /\ call[t] \in BusyCalls
                     /\ call'[t] = [call[t] EXCEPT !.denied = TRUE]
               /\ call'[t].at = call[t].at
               /\ access /\ InFlight(call[t]) => call'[t].denied
    <3>1. InFlight(call[t]) => call[t] \in BusyCalls
      BY BusyMoves DEF InFlight
    <3> QED
      BY <1>2, <3>1 DEF SwitchAccess, InFlight, BusyCalls
  <2>3. DenialInFlight' = DenialInFlight
    BY <2>1, <2>2 DEF DenialInFlight
  <2>4. ASSUME NEW t \in Requests
        PROVE  Sound(call[t])'
    <3>1. Sound(call[t])
      BY DEF CallsAreSound
    <3>2. CASE call'[t] = call[t]
      <4>1. AbsentDuring(call[t])' = AbsentDuring(call[t])
        BY <2>1, <3>2 DEF AbsentDuring
      <4>2. MeetsDenials(call[t])'
        BY <2>1, <2>2, <2>3, <3>1, <3>2 DEF Sound, MeetsDenials, InFlight
      <4> QED
        BY <2>1, <3>1, <3>2, <4>1, <4>2 DEF Sound, ReloadKnown, Accounted
    <3>3. CASE /\ InFlight(call[t]) /\ call[t] \in BusyCalls
               /\ call'[t] = [call[t] EXCEPT !.denied = TRUE]
      <4>1. /\ call'[t].denied /\ call'[t].at = call[t].at
            /\ call'[t].start = call[t].start
            /\ call'[t].listed = call[t].listed
        BY <3>3 DEF BusyCalls
      <4> QED
        BY <2>1, <3>1, <3>3, <4>1 DEF Sound, MeetsDenials, ReloadKnown,
                                      Accounted, Excused
    <3> QED
      BY <2>2, <3>2, <3>3
  <2> QED
    BY <2>4 DEF CallsAreSound
<1>3. CASE Stop \/ UNCHANGED vars
  <2>1. UNCHANGED <<rev, hist, access, configs, available, pc, call>>
    BY <1>3 DEF Stop, vars, server
  <2> QED
    BY <2>1 DEF CallsAreSound, Sound, MeetsDenials, ReloadKnown, Accounted,
                AbsentDuring, DenialInFlight
<1> QED
  BY <1>1, <1>2, <1>3, ThreadKeepsCalls, RequestKeepsCalls DEF Next

(* The answer "no config" has a cause: the config was absent at a moment of*)
(* the call, or the call met a denial or a listing from before it.         *)
THEOREM AbsenceHasACause == Spec => []NoneHasACause
<1>1. Init => ReplayInv
  BY DEF Init, ReplayInv
<1>2. Init => CallsAreSound
  BY DEF Init, CallsAreSound, Sound, MeetsDenials, InFlight, ReloadKnown,
         Reloaded, Accounted, IdleCall
<1>3. TypeOK /\ ReplayInv /\ [Next]_vars => ReplayInv'
  BY ReplayStep
<1>4. TypeOK /\ ReplayInv /\ CallsAreSound /\ [Next]_vars => CallsAreSound'
  BY CallsStep
<1>5. CallsAreSound => NoneHasACause
  BY DEF CallsAreSound, Sound, Accounted, Excused, NoneHasACause, At
<1> QED
  BY <1>1, <1>2, <1>3, <1>4, <1>5, ConfigTypeCorrect, PTL DEF Spec

=============================================================================
