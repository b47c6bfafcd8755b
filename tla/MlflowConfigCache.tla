-------------------------- MODULE MlflowConfigCache --------------------------
(***************************************************************************)
(* MlflowConfigCache (workspace_plugin/caches.py:300-630): the per-process *)
(* cache of MLflowConfig resources.  Unlike NamespaceCache it survives     *)
(* without its resource (the CRD may be missing, or RBAC may forbid it),   *)
(* and then a request may reload the snapshot itself, beside the watch     *)
(* thread.                                                                 *)
(*                                                                         *)
(* The thread reads _crd_available and _resource_version without the lock, *)
(* one at a time, so each read is a step of its own.  The API server is    *)
(* external, as in NamespaceCache, with an access switch for 404 and 403.  *)
(***************************************************************************)
EXTENDS Naturals

CONSTANTS
    Names,              \* namespaces that may hold an MLflowConfig
    Values,             \* contents of an MLflowConfig
    SecretBacked,       \* those that use the artifact-connection Secret
    Absent,             \* None: no MLflowConfig, default storage applies
    Failed,             \* the call raised MlflowException
    NoRv,               \* _resource_version is None
    Requests,           \* request threads
    SecretsListable,    \* the first LIST of Secrets never fails
    MaxRev,             \* bound on the revisions of the API server
    MaxSwitches         \* bound on the changes of access

ASSUME MlflowConfigCacheAssumption ==
    /\ MaxRev \in Nat /\ MaxSwitches \in Nat
    /\ SecretBacked \subseteq Values
    /\ Absent \notin Values
    /\ Failed \notin Values \cup {Absent}
    /\ NoRv \notin Nat
    /\ SecretsListable \in BOOLEAN

VARIABLES
    rev, hist,      \* external: as in NamespaceCache
    access,         \* external: the CRD exists and may be listed and watched
    switches,       \* external: how often access has changed
    sent,           \* external: revision up to which the open watch was read
    backlog,        \* external: objects a watch without cursor still replays
    configs,        \* _configs
    rv,             \* _resource_version
    available,      \* _crd_available
    retry,          \* _retry_event
    ready,          \* _ready_event
    stopped,        \* _stop_event
    secretCache,    \* the provider has created its SecretCache
    pc,             \* where the watch thread is
    listed,         \* the revision of the LIST in the thread's hands
    asOf,           \* history: revision of the last LIST or event applied
    reloaded,       \* history: a reload was stored since the thread listed
    call            \* the get_config or get_configs of each request thread

server == <<rev, hist, access, switches>>
watch == <<sent, backlog>>
flags == <<ready, stopped>>
history == <<asOf, reloaded>>
vars == <<server, watch, configs, rv, available, retry, flags, secretCache,
          pc, listed, history, call>>

View == [Names -> Values \cup {Absent}]
Revisions == 0 .. MaxRev
Empty == [n \in Names |-> Absent]

ThreadStates ==
    {"loop", "sleep", "woken", "cursor", "refresh", "store", "deny", "ensure",
     "check", "open", "stream", "ensureEvent", "afterEvent", "dropped",
     "pause", "backoff", "ended"}

IdleCall == [at |-> "idle", name |-> Absent, others |-> {}, start |-> 0,
             listing |-> FALSE, listed |-> 0, denied |-> FALSE, overtaken |-> FALSE, result |-> Absent]

BusyCalls ==
    [at : {"reload", "store", "deny", "ensure", "wake", "verdict", "reread",
           "lookup", "done"},
     name : Names, others : SUBSET Names, start : 0 .. rev,
     listing : BOOLEAN, listed : 0 .. rev, denied : BOOLEAN,
     overtaken : BOOLEAN, result : Values \cup {Absent, Failed}]

Calls == {IdleCall} \cup BusyCalls

UsesSecret(view) == \E n \in Names : view[n] \in SecretBacked

-----------------------------------------------------------------------------
Init ==
    /\ rev = 0
    /\ hist = [r \in Revisions |-> Empty]
    /\ access \in BOOLEAN
    /\ switches = 0
    /\ sent = 0
    /\ backlog = {}
    /\ configs = Empty
    /\ rv = NoRv
    /\ available = TRUE
    /\ retry = FALSE
    /\ ready = FALSE
    /\ stopped = FALSE
    /\ secretCache = FALSE
    /\ pc = "refresh"
    /\ listed = 0
    /\ asOf = 0
    /\ reloaded = FALSE
    /\ call = [t \in Requests |-> IdleCall]

(* External: an MLflowConfig is created, changed or deleted.  Revisions    *)
(* that change no MLflowConfig are not counted.                            *)
Commit(n, v) ==
    /\ rev < MaxRev /\ v # hist[rev][n]
    /\ rev' = rev + 1
    /\ hist' = [hist EXCEPT ![rev + 1] = [hist[rev] EXCEPT ![n] = v]]
    /\ UNCHANGED <<access, switches, watch, configs, rv, available, retry,
                   flags, secretCache, pc, listed, history, call>>

(* External: the CRD is installed or removed, the permission granted or    *)
(* withdrawn.  Requests in flight remember that they met a denial.         *)
SwitchAccess ==
    /\ switches < MaxSwitches
    /\ switches' = switches + 1
    /\ access' = ~access
    /\ call' = [t \in Requests |->
                   IF access /\ call[t].at \notin {"idle", "done"}
                   THEN [call[t] EXCEPT !.denied = TRUE] ELSE call[t]]
    /\ UNCHANGED <<rev, hist, watch, configs, rv, available, retry, flags,
                   secretCache, pc, listed, history>>

-----------------------------------------------------------------------------
(***************************************************************************)
(* What _refresh_full does under the lock, for the thread and for requests.*)
(***************************************************************************)
StoreList(r) ==
    /\ configs' = hist[r]
    /\ rv' = r
    /\ available' = TRUE
    /\ asOf' = r

StoreDenial ==
    /\ configs' = Empty
    /\ rv' = NoRv
    /\ available' = FALSE
    /\ UNCHANGED history

(* The provider's _ensure_secret_cache: there is one, or it is created by  *)
(* listing Secrets, which may raise.                                       *)
EnsureSucceeds == secretCache' = TRUE
EnsureRaises == ~secretCache /\ ~SecretsListable /\ UNCHANGED secretCache

(* History: a listing that has reloaded is about to reread the snapshot, of*)
(* which revision r, from before the call, has just replaced its name.     *)
Reloaded == {"ensure", "wake", "verdict", "reread"}

OvertakenBy(r, c) ==
    IF c.listing /\ c.at \in Reloaded /\ r < c.start
    THEN [c EXCEPT !.overtaken = TRUE] ELSE c

-----------------------------------------------------------------------------
(***************************************************************************)
(* The watch thread; before ready, the same steps are the constructor's.   *)
(***************************************************************************)
Step(from, to) == pc = from /\ pc' = to

Loop ==
    /\ \/ stopped /\ Step("loop", "ended")
       \/ ~stopped /\ ~available /\ Step("loop", "sleep")
       \/ ~stopped /\ available /\ Step("loop", "cursor")
    /\ UNCHANGED <<server, watch, configs, rv, available, retry, flags,
                   secretCache, listed, history, call>>

(* _retry_event.wait ends when the event is set or after 300 seconds.      *)
Wake ==
    /\ Step("sleep", IF stopped THEN "ended" ELSE "woken")
    /\ retry' = FALSE
    /\ UNCHANGED <<server, watch, configs, rv, available, flags, secretCache,
                   listed, history, call>>

AfterSleepOnlyLoops ==
    /\ Step("woken", "loop")
    /\ UNCHANGED <<server, watch, configs, rv, available, retry, flags,
                   secretCache, listed, history, call>>

(* Unless a request has reloaded meanwhile, the thread tries again.        *)
AfterSleep ==
    /\ Step("woken", "loop")
    /\ IF available THEN UNCHANGED <<available, rv>>
       ELSE available' = TRUE /\ rv' = NoRv
    /\ UNCHANGED <<server, watch, configs, retry, flags, secretCache, listed,
                   history, call>>

TestCursor ==
    /\ Step("cursor", IF rv = NoRv THEN "refresh" ELSE "check")
    /\ UNCHANGED <<server, watch, configs, rv, available, retry, flags,
                   secretCache, listed, history, call>>

(* _refresh_full: the LIST is evaluated, is denied, or fails; a failure    *)
(* leaves the cache as it is and the constructor still succeeds.           *)
ListConfigsFromServerCache ==
    /\ access
    /\ Step("refresh", "store")
    /\ listed' \in 0 .. rev
    /\ reloaded' = FALSE
    /\ UNCHANGED <<server, watch, configs, rv, available, retry, flags,
                   secretCache, asOf, call>>

ListConfigs ==
    /\ access
    /\ Step("refresh", "store")
    /\ listed' = rev
    /\ reloaded' = FALSE
    /\ UNCHANGED <<server, watch, configs, rv, available, retry, flags,
                   secretCache, asOf, call>>

ListDenied ==
    /\ ~access
    /\ Step("refresh", "deny")
    /\ UNCHANGED <<server, watch, configs, rv, available, retry, flags,
                   secretCache, listed, history, call>>

ListFails ==
    /\ Step("refresh", IF ready THEN "pause" ELSE "loop")
    /\ ready' = TRUE
    /\ UNCHANGED <<server, watch, configs, rv, available, retry, stopped,
                   secretCache, listed, history, call>>

Refreshed == IF ready THEN "check" ELSE "loop"

StoreSnapshot ==
    /\ pc = "store"
    /\ StoreList(listed)
    /\ listed' = 0
    /\ UNCHANGED reloaded
    /\ IF UsesSecret(hist[listed])
       THEN pc' = "ensure" /\ UNCHANGED ready
       ELSE pc' = Refreshed /\ ready' = TRUE
    /\ call' = [t \in Requests |-> OvertakenBy(listed, call[t])]
    /\ UNCHANGED <<server, watch, retry, stopped, secretCache>>

(* A failure to create the SecretCache is caught by _run.  (In the         *)
(* constructor it propagates, and the process is back where Init puts it.) *)
Ensure ==
    /\ \/ EnsureSucceeds /\ Step("ensure", Refreshed) /\ ready' = TRUE
       \/ EnsureRaises /\ ready /\ Step("ensure", "pause") /\ UNCHANGED ready
    /\ UNCHANGED <<server, watch, configs, rv, available, retry, stopped,
                   listed, history, call>>

StoreThreadDenial ==
    /\ Step("deny", IF ready THEN "pause" ELSE "loop")
    /\ StoreDenial
    /\ ready' = TRUE
    /\ UNCHANGED <<server, watch, retry, stopped, secretCache, listed, call>>

(* "Skip watch if CRD became unavailable during refresh".                  *)
CheckAvailable ==
    /\ Step("check", IF available THEN "open" ELSE "loop")
    /\ UNCHANGED <<server, watch, configs, rv, available, retry, flags,
                   secretCache, listed, history, call>>

(* A watch starts after the cursor.  Should a request have cleared it, the *)
(* server replays what exists as ADDED events first.                       *)
OpenWatch ==
    /\ Step("open", "stream")
    /\ sent' = IF rv = NoRv THEN rev ELSE rv
    /\ backlog' = IF rv = NoRv THEN {n \in Names : hist[rev][n] # Absent} ELSE {}
    /\ UNCHANGED <<server, configs, rv, available, retry, flags, secretCache,
                   listed, history, call>>

AfterApplying(v) ==
    pc' = IF v \in SecretBacked THEN "ensureEvent" ELSE "afterEvent"

(* ADDED, MODIFIED and DELETED, under the lock.                            *)
HandleChange ==
    /\ pc = "stream" /\ ~stopped /\ backlog = {}
    /\ sent < rev
    /\ \E n \in Names :
        /\ hist[sent + 1][n] # hist[sent][n]
        /\ configs' = [configs EXCEPT ![n] = hist[sent + 1][n]]
        /\ AfterApplying(hist[sent + 1][n])
        /\ call' = [t \in Requests |->
              IF call[t].name = n THEN OvertakenBy(sent + 1, call[t])
              ELSE call[t]]
    /\ sent' = sent + 1
    /\ rv' = sent + 1
    /\ asOf' = sent + 1
    /\ UNCHANGED reloaded
    /\ UNCHANGED <<server, backlog, available, retry, flags, secretCache,
                   listed>>

LastChange(n, r) ==
    /\ hist[r][n] # hist[r - 1][n]
    /\ \A s \in r + 1 .. sent : hist[s][n] = hist[s - 1][n]

(* A replayed object carries the revision of its own last change.          *)
HandleReplay(n) ==
    /\ pc = "stream" /\ ~stopped /\ n \in backlog
    /\ configs' = [configs EXCEPT ![n] = hist[sent][n]]
    /\ \E r \in 1 .. sent : LastChange(n, r) /\ rv' = r
    /\ backlog' = backlog \ {n}
    /\ AfterApplying(hist[sent][n])
    /\ UNCHANGED <<server, sent, available, retry, flags, secretCache, listed,
                   history, call>>

(* A BOOKMARK carries the revision the stream has come to.                 *)
HandleBookmark ==
    /\ pc = "stream" /\ ~stopped /\ backlog = {}
    /\ rv' = sent
    /\ pc' = "afterEvent"
    /\ UNCHANGED <<server, watch, configs, available, retry, flags,
                   secretCache, listed, history, call>>

(* An ERROR event, or one of unknown type.                                 *)
HandleErrorEvent ==
    /\ pc = "stream" /\ ~stopped
    /\ rv' = NoRv
    /\ pc' = "afterEvent"
    /\ UNCHANGED <<server, watch, configs, available, retry, flags,
                   secretCache, listed, history, call>>

(* _handle_event creates the SecretCache outside the lock; if that raises  *)
(* the stream is abandoned.                                                *)
EnsureAfterEvent ==
    /\ \/ EnsureSucceeds /\ Step("ensureEvent", "afterEvent")
       \/ EnsureRaises /\ Step("ensureEvent", "backoff")
    /\ UNCHANGED <<server, watch, configs, rv, available, retry, flags,
                   listed, history, call>>

AfterEvent ==
    /\ Step("afterEvent", IF rv = NoRv THEN "backoff" ELSE "stream")
    /\ UNCHANGED <<server, watch, configs, rv, available, retry, flags,
                   secretCache, listed, history, call>>

NoWatch == sent' = 0 /\ backlog' = {}

(* Timeout, EOF, a stop noticed at an event, or a failure other than 410,  *)
(* 404 and 403.                                                            *)
StreamEnds ==
    /\ Step("stream", "backoff")
    /\ NoWatch
    /\ UNCHANGED <<server, configs, rv, available, retry, flags,
                   secretCache, listed, history, call>>

(* 410: the cursor is dropped here and again in the finally clause.        *)
StreamExpires ==
    /\ Step("stream", "backoff")
    /\ rv' = NoRv
    /\ NoWatch
    /\ UNCHANGED <<server, configs, available, retry, flags,
                   secretCache, listed, history, call>>

(* The watch is refused with 404 or 403; the thread applies that when it   *)
(* has the lock, by which time access may be back and a request may have   *)
(* reloaded.                                                               *)
StreamDenied ==
    /\ ~access
    /\ Step("stream", "dropped")
    /\ NoWatch
    /\ UNCHANGED <<server, configs, rv, available, retry, flags,
                   secretCache, listed, history, call>>

StoreStreamDenial ==
    /\ Step("dropped", "backoff")
    /\ StoreDenial
    /\ UNCHANGED <<server, watch, retry, flags, secretCache, listed, call>>

(* The waits of _run (none after 410 or a denial); a stream ends in its    *)
(* finally clause, which drops the cursor whatever a request has stored.   *)
Resume ==
    /\ pc \in {"pause", "backoff"}
    /\ pc' = "loop"
    /\ rv' = IF pc = "backoff" THEN NoRv ELSE rv
    /\ NoWatch
    /\ UNCHANGED <<server, configs, available, retry, flags,
                   secretCache, listed, history, call>>

(* stop also ends the retry sleep.                                         *)
Stop ==
    /\ ready /\ ~stopped
    /\ stopped' = TRUE
    /\ retry' = TRUE
    /\ UNCHANGED <<server, watch, configs, rv, available, ready, secretCache,
                   pc, listed, history, call>>

-----------------------------------------------------------------------------
(***************************************************************************)
(* get_config and get_configs on a request thread.  The answer of a        *)
(* listing is followed for one of the names it asks for.                   *)
(***************************************************************************)
idleButCall == <<server, watch, flags, pc, listed>>
sharedState == <<configs, rv, available, retry, secretCache, history>>

At(t, from) == call[t].at = from

Go(t, to) == call' = [call EXCEPT ![t].at = to]

(* Of a finished call, only the answer that there is no config has to be   *)
(* accounted for by what the call met.                                     *)
Answered(c, r) ==
    IF r = Absent
    THEN [c EXCEPT !.at = "done", !.others = {}, !.listing = FALSE, !.listed = 0]
    ELSE [IdleCall EXCEPT !.at = "done", !.name = c.name, !.result = r]

Return(t, r) == call' = [call EXCEPT ![t] = Answered(call[t], r)]

(* The namespaces a call is about.                                         *)
AskedOf(c) == {c.name} \cup c.others

(* A 404 or 403 of a LIST or of the watch, received by some thread and not *)
(* yet applied.                                                            *)
DenialInFlight ==
    pc \in {"deny", "dropped"} \/ \E t \in Requests : call[t].at = "deny"

(* A hit is answered at once; a miss is looked up, after a reload if the   *)
(* cache is unavailable.  Only after a reload do the two calls differ.     *)
Ask(t, n, others, listing) ==
    LET c == [IdleCall EXCEPT !.name = n, !.others = others, !.start = rev,
                 !.denied = ~access, !.overtaken = DenialInFlight]
        hit == \A m \in AskedOf(c) : configs[m] # Absent
    IN /\ ready /\ At(t, "idle")
       /\ call' = [call EXCEPT ![t] =
             IF hit THEN Answered(c, configs[n])
             ELSE IF available THEN [c EXCEPT !.at = "lookup"]
             ELSE [c EXCEPT !.at = "reload", !.listing = listing]]
       /\ UNCHANGED <<idleButCall, sharedState>>

GetConfig(t, n) == Ask(t, n, {}, FALSE)

GetConfigs(t, n) ==
    \E others \in SUBSET (Names \ {n}) : Ask(t, n, others, TRUE)

(* _try_reload: the LIST of _refresh_full(raise_on_error=True).            *)
Reload(t) ==
    /\ At(t, "reload")
    /\ \/ /\ access
          /\ call' = [call EXCEPT ![t].at = "store", ![t].listed = rev]
       \/ ~access /\ Go(t, "deny")
       \/ Return(t, Failed)
    /\ UNCHANGED <<idleButCall, sharedState>>

StoreReload(t) ==
    /\ At(t, "store")
    /\ StoreList(call[t].listed)
    /\ reloaded' = TRUE
    /\ call' = [[u \in Requests |-> OvertakenBy(call[t].listed, call[u])] EXCEPT
          ![t].at = IF UsesSecret(hist[call[t].listed]) THEN "ensure" ELSE "wake",
          ![t].listed = 0]
    /\ UNCHANGED <<idleButCall, retry, secretCache>>

StoreRequestDenial(t) ==
    /\ At(t, "deny")
    /\ StoreDenial
    /\ Go(t, "wake")
    /\ UNCHANGED <<idleButCall, retry, secretCache>>

(* A failure to create the SecretCache leaves get_config here.             *)
EnsureForReload(t) ==
    /\ At(t, "ensure")
    /\ \/ EnsureSucceeds /\ Go(t, "wake")
       \/ EnsureRaises /\ Return(t, Failed)
    /\ UNCHANGED <<idleButCall, configs, rv, available, retry, history>>

WakeNobody(t) ==
    /\ At(t, "wake")
    /\ Go(t, "verdict")
    /\ UNCHANGED <<idleButCall, sharedState>>

WakeThread(t) ==
    /\ At(t, "wake")
    /\ retry' = TRUE
    /\ Go(t, "verdict")
    /\ UNCHANGED <<idleButCall, configs, rv, available, secretCache, history>>

VerdictIgnoringReload(t) ==
    /\ At(t, "verdict")
    /\ Return(t, Absent)
    /\ UNCHANGED <<idleButCall, sharedState>>

(* "return self._crd_available", read once more without the lock.          *)
Verdict(t) ==
    /\ At(t, "verdict")
    /\ IF available THEN Go(t, "reread") ELSE Return(t, Absent)
    /\ UNCHANGED <<idleButCall, sharedState>>

(* get_config looks up what the snapshot still lacks.                      *)
Reread(t) ==
    /\ At(t, "reread") /\ ~call[t].listing
    /\ IF configs[call[t].name] # Absent
       THEN Return(t, configs[call[t].name])
       ELSE Go(t, "lookup")
    /\ UNCHANGED <<idleButCall, sharedState>>

(* get_configs takes the snapshot as it is now, which an older LIST or     *)
(* event may have replaced since the reload.                               *)
RereadAll(t) ==
    /\ At(t, "reread") /\ call[t].listing
    /\ Return(t, configs[call[t].name])
    /\ UNCHANGED <<idleButCall, sharedState>>

(* _lookup_configs for one namespace or for all.  A missing CRD (404) means*)
(* no config, a refusal (403) or any other failure raises; a result that   *)
(* needs the SecretCache creates it, which may raise as well.              *)
Lookup(t) ==
    /\ At(t, "lookup")
    /\ LET found == hist[rev]
           secret == \E n \in AskedOf(call[t]) : found[n] \in SecretBacked
       IN \/ access /\ ~secret
             /\ Return(t, found[call[t].name]) /\ UNCHANGED secretCache
          \/ access /\ secret
             /\ \/ EnsureSucceeds /\ Return(t, found[call[t].name])
                \/ EnsureRaises /\ Return(t, Failed)
          \/ ~access /\ Return(t, Absent) /\ UNCHANGED secretCache
          \/ Return(t, Failed) /\ UNCHANGED secretCache
    /\ UNCHANGED <<idleButCall, configs, rv, available, retry, history>>

Forget(t) ==
    /\ At(t, "done")
    /\ call' = [call EXCEPT ![t] = IdleCall]
    /\ UNCHANGED <<idleButCall, sharedState>>

-----------------------------------------------------------------------------
WatchThread ==
    \/ Loop \/ Wake \/ AfterSleep \/ TestCursor
    \/ ListConfigs \/ ListDenied \/ ListFails
    \/ StoreSnapshot \/ Ensure \/ StoreThreadDenial \/ CheckAvailable
    \/ OpenWatch \/ HandleChange \/ (\E n \in Names : HandleReplay(n))
    \/ HandleBookmark \/ HandleErrorEvent \/ EnsureAfterEvent \/ AfterEvent
    \/ StreamEnds \/ StreamExpires \/ StreamDenied \/ StoreStreamDenial
    \/ Resume

Request(t) ==
    \/ \E n \in Names : GetConfig(t, n) \/ GetConfigs(t, n)
    \/ Reload(t) \/ StoreReload(t) \/ StoreRequestDenial(t)
    \/ EnsureForReload(t) \/ WakeThread(t) \/ Verdict(t)
    \/ Reread(t) \/ RereadAll(t) \/ Lookup(t) \/ Forget(t)

Next ==
    \/ \E n \in Names, v \in Values \cup {Absent} : Commit(n, v)
    \/ SwitchAccess
    \/ WatchThread
    \/ Stop
    \/ \E t \in Requests : Request(t)

(* The daemon thread runs, its sleep times out, LISTs do not fail for ever *)
(* while there is access, and a stream ends after CACHE_WATCH_SECONDS      *)
(* however busy it is.  Nothing is assumed of events or of requests.       *)
Fairness ==
    /\ WF_vars(Loop) /\ WF_vars(Wake) /\ WF_vars(AfterSleep)
    /\ WF_vars(TestCursor) /\ WF_vars(ListDenied) /\ SF_vars(ListConfigs)
    /\ WF_vars(StoreSnapshot) /\ WF_vars(Ensure) /\ WF_vars(StoreThreadDenial)
    /\ WF_vars(CheckAvailable) /\ WF_vars(OpenWatch)
    /\ WF_vars(EnsureAfterEvent) /\ WF_vars(AfterEvent)
    /\ SF_vars(StreamEnds) /\ WF_vars(StoreStreamDenial) /\ WF_vars(Resume)

Spec == Init /\ [][Next]_vars

FairSpec == Spec /\ Fairness

-----------------------------------------------------------------------------
(* Every variable holds a value the code can give it, and the cache is not *)
(* ready exactly while its constructor is at work.                         *)
TypeOK ==
    /\ rev \in Revisions /\ hist \in [Revisions -> View]
    /\ access \in BOOLEAN /\ switches \in 0 .. MaxSwitches
    /\ sent \in 0 .. rev /\ backlog \subseteq Names
    /\ configs \in View
    /\ rv \in 0 .. rev \cup {NoRv}
    /\ available \in BOOLEAN /\ retry \in BOOLEAN
    /\ ready \in BOOLEAN /\ stopped \in BOOLEAN
    /\ ~ready => pc \in {"refresh", "store", "deny", "ensure"}
    /\ secretCache \in BOOLEAN
    /\ pc \in ThreadStates
    /\ listed \in 0 .. rev /\ asOf \in 0 .. rev /\ reloaded \in BOOLEAN
    /\ call \in [Requests -> Calls]

(* The config was absent at some moment of the call.                       *)
AbsentDuring(c) == \E r \in c.start .. rev : hist[r][c.name] = Absent

(* get_config answers None, which selects default storage, only if the     *)
(* config was absent during the call, or access was missing during it, or  *)
(* a denial received by another thread, by a LIST or on the watch, was     *)
(* still to be applied at its start.  The same holds of every name a       *)
(* listing leaves out, unless a LIST or an event from before the call      *)
(* replaced what it had listed.  A failing or stalled API never does it.   *)
NoneHasACause ==
    \A t \in Requests :
        At(t, "done") /\ call[t].result = Absent =>
            AbsentDuring(call[t]) \/ call[t].denied \/ call[t].overtaken

(* What docs/workspace-provider.md promises of a cache miss: it is verified*)
(* with Kubernetes before the override counts as absent.  Calls that met a *)
(* denial themselves are excepted.                                         *)
AbsenceIsFresh ==
    \A t \in Requests :
        At(t, "done") /\ call[t].result = Absent /\ ~call[t].denied =>
            AbsentDuring(call[t])

(* While the thread sleeps out an unavailable cache that a request has made*)
(* available again, it has been woken or is about to be.                   *)
NoMissedWakeup ==
    pc = "sleep" /\ available =>
        retry \/ \E t \in Requests : call[t].at \in {"ensure", "wake"}

(* The snapshot only goes back to an older revision when the reload of a   *)
(* request mixes with the watch thread, and the thread's next LIST puts an *)
(* end to that: alone, what it lists and hears only moves forward.         *)
ThreadAloneMovesForward ==
    [][asOf' < asOf => reloaded \/ \E t \in Requests : StoreReload(t)]_vars

(* Once access is there to stay, the snapshot catches up with the server   *)
(* and stays there, unless the thread is stopped: denials, rollbacks and   *)
(* watches without a cursor are all repaired.                              *)
Converges == <>[]access => <>[](stopped \/ configs = hist[rev])

=============================================================================
