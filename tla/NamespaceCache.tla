--------------------------- MODULE NamespaceCache ---------------------------
(***************************************************************************)
(* NamespaceCache (workspace_plugin/caches.py:73-297): the per-process     *)
(* cache of Kubernetes namespaces, fed by a daemon thread that LISTs and   *)
(* then WATCHes, and read by the request threads.                          *)
(*                                                                         *)
(* The Kubernetes API server is external.  It is a history of revisions    *)
(* of the label-selected namespaces: a LIST answers with the contents at   *)
(* the latest revision, a watch opened at revision r delivers, in order,   *)
(* the changes after r, with bookmarks, error events, early ends and 410   *)
(* in between.                                                             *)
(***************************************************************************)
EXTENDS Naturals

CONSTANTS
    Names,      \* namespace names in play
    Excluded,   \* those matching namespace_exclude_globs
    Values,     \* the descriptions a namespace can carry
    Absent,     \* None: no such namespace
    Failed,     \* the call raised MlflowException
    NoRv,       \* _resource_version is None
    Readers,    \* request threads
    MaxRev      \* bound on the revisions the API server goes through

ASSUME NamespaceCacheAssumption ==
    /\ MaxRev \in Nat
    /\ Excluded \subseteq Names
    /\ Absent \notin Values
    /\ Failed \notin Values \cup {Absent}
    /\ NoRv \notin Nat

VARIABLES
    rev,        \* external: latest revision of the API server
    hist,       \* external: label-selected namespaces at each revision
    sent,       \* external: revision up to which the open watch has been read
    namespaces, \* _namespaces
    rv,         \* _resource_version
    ready,      \* _ready_event
    stopped,    \* _stop_event
    pc,         \* where the watch thread is
    listed,     \* the revision of the LIST response in the thread's hands
    asOf,       \* history: the revision of the last LIST or event applied
    call        \* the request in flight on each reader thread

vars == <<rev, hist, sent, namespaces, rv, ready, stopped, pc, listed, asOf, call>>

View == [Names -> Values \cup {Absent}]

Revisions == 0 .. MaxRev

(* "refresh" and "store" are the two halves of _refresh_full, first called *)
(* by __init__; "loop" is the head of _run and "backoff" its waits.        *)
ThreadStates == {"refresh", "store", "loop", "stream", "backoff", "ended"}

IdleCall == [at |-> "idle", name |-> Absent, start |-> 0, result |-> Absent]

Calls ==
    {IdleCall} \cup
    [at : {"live", "done"}, name : Names, start : Revisions,
     result : Values \cup {Absent, Failed}]

(***************************************************************************)
(* _extract_info and _is_excluded: an excluded namespace yields no entry.  *)
(***************************************************************************)
ExtractInfo(n, v) == IF n \in Excluded THEN Absent ELSE v

Visible(view) == [n \in Names |-> ExtractInfo(n, view[n])]

-----------------------------------------------------------------------------
Init ==
    /\ rev = 0
    /\ hist = [r \in Revisions |-> [n \in Names |-> Absent]]
    /\ sent = 0
    /\ namespaces = [n \in Names |-> Absent]
    /\ rv = NoRv
    /\ ready = FALSE
    /\ stopped = FALSE
    /\ pc = "refresh"
    /\ listed = 0
    /\ asOf = 0
    /\ call = [t \in Readers |-> IdleCall]

(* External: a namespace is created, changed, deleted or relabelled.  A    *)
(* write that leaves the selected view alone is a revision of some other   *)
(* object, for which the watch has nothing to say.                         *)
Commit(n, v) ==
    /\ rev < MaxRev
    /\ rev' = rev + 1
    /\ hist' = [hist EXCEPT ![rev + 1] = [hist[rev] EXCEPT ![n] = v]]
    /\ UNCHANGED <<sent, namespaces, rv, ready, stopped, pc, listed, asOf, call>>

-----------------------------------------------------------------------------
(***************************************************************************)
(* The watch thread.                                                       *)
(***************************************************************************)

(* A LIST that an API server cache may answer, the effect of passing a     *)
(* resource_version of "0".                                                *)
ListNamespacesFromServerCache ==
    /\ pc = "refresh"
    /\ listed' \in 0 .. rev
    /\ pc' = "store"
    /\ UNCHANGED <<rev, hist, sent, namespaces, rv, ready, stopped, asOf, call>>

(* The LIST of _refresh_full is evaluated.                                 *)
ListNamespaces ==
    /\ pc = "refresh"
    /\ listed' = rev
    /\ pc' = "store"
    /\ UNCHANGED <<rev, hist, sent, namespaces, rv, ready, stopped, asOf, call>>

(* The LIST of the running thread fails.  (When the constructor's does, it *)
(* raises, and the process is still where Init puts it.)                   *)
ListFails ==
    /\ pc = "refresh"
    /\ ready
    /\ pc' = "backoff"
    /\ UNCHANGED <<rev, hist, sent, namespaces, rv, ready, stopped, listed, asOf, call>>

(* The response replaces the snapshot and the cursor under the lock.  The  *)
(* thread then opens a watch at that cursor; the constructor starts it.    *)
StoreSnapshot ==
    /\ pc = "store"
    /\ namespaces' = Visible(hist[listed])
    /\ rv' = listed
    /\ asOf' = listed
    /\ sent' = listed
    /\ ready' = TRUE
    /\ pc' = IF ready THEN "stream" ELSE "loop"
    /\ UNCHANGED <<rev, hist, stopped, listed, call>>

(* External: the watch passes over a revision that did not touch the       *)
(* selected namespaces.                                                    *)
SkipRevision ==
    /\ pc = "stream"
    /\ sent < rev
    /\ hist[sent + 1] = hist[sent]
    /\ sent' = sent + 1
    /\ UNCHANGED <<rev, hist, namespaces, rv, ready, stopped, pc, listed, asOf, call>>

(* _run gives the event to _handle_event unless it is told to stop; the    *)
(* stream goes on as long as there is a cursor.                            *)
AfterEvent == pc' = IF rv' = NoRv THEN "backoff" ELSE "stream"

(* ADDED and MODIFIED store the extracted info, or drop the entry when the *)
(* namespace is excluded.                                                  *)
HandleAddedOrModified(n) ==
    /\ hist[sent + 1][n] # Absent
    /\ namespaces' =
         [namespaces EXCEPT ![n] = ExtractInfo(n, hist[sent + 1][n])]
    /\ rv' = sent + 1

HandleDeletedKeepingEntry(n) ==
    /\ hist[sent + 1][n] = Absent
    /\ rv' = sent + 1
    /\ UNCHANGED namespaces

(* DELETED, which is also what a selector watch sends for a namespace that *)
(* lost its label.                                                         *)
HandleDeleted(n) ==
    /\ hist[sent + 1][n] = Absent
    /\ namespaces' = [namespaces EXCEPT ![n] = Absent]
    /\ rv' = sent + 1

(* The next change reaches the thread.                                     *)
HandleChange ==
    /\ pc = "stream"
    /\ ~stopped
    /\ sent < rev
    /\ \E n \in Names :
        /\ hist[sent + 1][n] # hist[sent][n]
        /\ HandleAddedOrModified(n) \/ HandleDeleted(n)
    /\ sent' = sent + 1
    /\ asOf' = sent + 1
    /\ AfterEvent
    /\ UNCHANGED <<rev, hist, ready, stopped, listed, call>>

(* BOOKMARK advances the cursor to what the server has scanned; one with   *)
(* no resourceVersion leaves it.                                           *)
HandleBookmark ==
    /\ pc = "stream"
    /\ ~stopped
    /\ rv' \in {sent, rv}
    /\ AfterEvent
    /\ UNCHANGED <<rev, hist, sent, namespaces, ready, stopped, listed, asOf, call>>

(* An ERROR event, or one of unknown type, drops the cursor.  The stream   *)
(* has delivered it in place of whatever came next.                        *)
HandleErrorEvent ==
    /\ pc = "stream"
    /\ ~stopped
    /\ rv' = NoRv
    /\ AfterEvent
    /\ UNCHANGED <<rev, hist, sent, namespaces, ready, stopped, listed, asOf, call>>

(* Told to stop, the loop leaves the stream without handling the event it  *)
(* was given.                                                              *)
DropEventOnStop ==
    /\ pc = "stream"
    /\ stopped
    /\ pc' = "backoff"
    /\ UNCHANGED <<rev, hist, sent, namespaces, rv, ready, stopped, listed, asOf, call>>

(* The stream ends: clean EOF at the server's or the client's timeout, or  *)
(* any failure other than 410.  All wait before the finally clause runs.   *)
StreamEnds ==
    /\ pc = "stream"
    /\ pc' = "backoff"
    /\ UNCHANGED <<rev, hist, sent, namespaces, rv, ready, stopped, listed, asOf, call>>

(* 410 Gone: the cursor is dropped and the loop goes on without a wait.    *)
StreamExpires ==
    /\ pc = "stream"
    /\ rv' = NoRv
    /\ pc' = "loop"
    /\ UNCHANGED <<rev, hist, sent, namespaces, ready, stopped, listed, asOf, call>>

ResumeKeepingCursor ==
    /\ pc = "backoff"
    /\ pc' = "loop"
    /\ UNCHANGED <<rev, hist, sent, namespaces, rv, ready, stopped, listed, asOf, call>>

(* The wait is over.  The finally clause drops the cursor whatever ended   *)
(* the stream, so the loop relists before it watches again.                *)
Resume ==
    /\ pc = "backoff"
    /\ rv' = NoRv
    /\ pc' = "loop"
    /\ UNCHANGED <<rev, hist, sent, namespaces, ready, stopped, listed, asOf, call>>

(* The head of the loop: end, relist, or watch from the cursor.            *)
Loop ==
    /\ pc = "loop"
    /\ \/ stopped /\ pc' = "ended" /\ UNCHANGED sent
       \/ ~stopped /\ rv = NoRv /\ pc' = "refresh" /\ UNCHANGED sent
       \/ ~stopped /\ rv # NoRv /\ pc' = "stream" /\ sent' = rv
    /\ UNCHANGED <<rev, hist, namespaces, rv, ready, stopped, listed, asOf, call>>

Stop ==
    /\ ready
    /\ ~stopped
    /\ stopped' = TRUE
    /\ UNCHANGED <<rev, hist, sent, namespaces, rv, ready, pc, listed, asOf, call>>

-----------------------------------------------------------------------------
(***************************************************************************)
(* get_namespace on a request thread.  list_namespaces returns a copy of   *)
(* namespaces taken under the lock, so what holds of the snapshot in every *)
(* state holds of its answers.                                             *)
(***************************************************************************)
Answer(t, n, r) ==
    call' = [call EXCEPT ![t] =
                [at |-> "done", name |-> n, start |-> rev, result |-> r]]

GetNamespaceTrustingMiss(t, n) ==
    /\ call[t].at = "idle"
    /\ ready
    /\ Answer(t, n, namespaces[n])
    /\ UNCHANGED <<rev, hist, sent, namespaces, rv, ready, stopped, pc, listed, asOf>>

(* A hit, and a miss on an excluded name, are answered at once; any other  *)
(* miss goes to Kubernetes.                                                *)
GetNamespace(t, n) ==
    /\ call[t].at = "idle"
    /\ ready
    /\ \/ /\ namespaces[n] # Absent \/ n \in Excluded
          /\ Answer(t, n, namespaces[n])
       \/ /\ namespaces[n] = Absent /\ n \notin Excluded
          /\ call' = [call EXCEPT ![t] = [at |-> "live", name |-> n,
                                         start |-> rev, result |-> Absent]]
    /\ UNCHANGED <<rev, hist, sent, namespaces, rv, ready, stopped, pc, listed, asOf>>

(* The filtered LIST of get_namespace: its answer, or the error it raises, *)
(* goes to the caller and nowhere else.                                    *)
LiveLookup(t) ==
    /\ call[t].at = "live"
    /\ \E r \in {ExtractInfo(call[t].name, hist[rev][call[t].name]), Failed} :
        call' = [call EXCEPT ![t].at = "done", ![t].result = r]
    /\ UNCHANGED <<rev, hist, sent, namespaces, rv, ready, stopped, pc, listed, asOf>>

Return(t) ==
    /\ call[t].at = "done"
    /\ call' = [call EXCEPT ![t] = IdleCall]
    /\ UNCHANGED <<rev, hist, sent, namespaces, rv, ready, stopped, pc, listed, asOf>>

-----------------------------------------------------------------------------
WatchThread ==
    \/ ListNamespaces \/ ListFails \/ StoreSnapshot
    \/ HandleChange \/ HandleBookmark \/ HandleErrorEvent \/ DropEventOnStop
    \/ StreamEnds \/ StreamExpires \/ Resume \/ Loop

Next ==
    \/ \E n \in Names, v \in Values \cup {Absent} : Commit(n, v)
    \/ SkipRevision
    \/ WatchThread
    \/ Stop
    \/ \E t \in Readers :
        \/ \E n \in Names : GetNamespace(t, n)
        \/ LiveLookup(t)
        \/ Return(t)

(* The daemon thread runs, LISTs do not fail for ever, and every stream    *)
(* comes to an end: timeout_seconds ends it at the server, the read        *)
(* timeout at the client.  Nothing is assumed of the delivery of events.   *)
Fairness ==
    /\ SF_vars(ListNamespaces)
    /\ WF_vars(StoreSnapshot)
    /\ WF_vars(StreamEnds)
    /\ WF_vars(Resume)
    /\ WF_vars(Loop)

Spec == Init /\ [][Next]_vars

FairSpec == Spec /\ Fairness

-----------------------------------------------------------------------------
(* Every variable holds a value the code can give it; a cursor is a        *)
(* revision the server has issued.                                         *)
TypeOK ==
    /\ rev \in Revisions
    /\ hist \in [Revisions -> View]
    /\ sent \in 0 .. rev
    /\ namespaces \in View
    /\ rv \in 0 .. rev \cup {NoRv}
    /\ ready \in BOOLEAN
    /\ stopped \in BOOLEAN
    /\ pc \in ThreadStates
    /\ listed \in 0 .. rev
    /\ asOf \in 0 .. rev
    /\ call \in [Readers -> Calls]

(* While _resource_version holds a revision, the snapshot is exactly what  *)
(* was visible then: a watch opened there misses nothing and repeats       *)
(* nothing, and no excluded namespace is in it.                            *)
CursorMatchesSnapshot == rv # NoRv => namespaces = Visible(hist[rv])

(* get_namespace answers None only for a namespace that was absent at some *)
(* moment of the call: a stalled watch never hides one that exists.        *)
AbsenceIsFresh ==
    \A t \in Readers :
        call[t].at = "done" /\ call[t].result = Absent =>
            \E r \in call[t].start .. rev :
                Visible(hist[r])[call[t].name] = Absent

(* What get_namespace finds is a description the namespace has had while   *)
(* it was visible under the selector and the exclusion globs.              *)
FoundWasVisible ==
    \A t \in Readers :
        call[t].at = "done" /\ call[t].result \in Values =>
            \E r \in 0 .. rev :
                Visible(hist[r])[call[t].name] = call[t].result

(* What get_namespace answers is true: None of the time of the call, and a *)
(* description of some time up to its end, whatever the watch has missed.  *)
LookupsAreTrue == AbsenceIsFresh /\ FoundWasVisible

(* The history of the visible part of the collection.                      *)
VisibleHist == [r \in Revisions |-> Visible(hist[r])]

Watched == INSTANCE WatchedView WITH hist <- VisibleHist, snapshot <- namespaces

(* Lists, events, errors and reconnects only ever move the snapshot from   *)
(* one complete revision to a later one.                                   *)
ImplementsWatchedView == Watched!Spec

(* Unless the thread is stopped, every namespace change is seen in the end *)
(* even if the watch never delivers an event.                              *)
Converges == <>[](stopped \/ namespaces = Visible(hist[rev]))

=============================================================================
