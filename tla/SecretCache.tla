---------------------------- MODULE SecretCache ----------------------------
(***************************************************************************)
(* SecretCache (workspace_plugin/caches.py:639-880), the cache of the      *)
(* artifact-connection Secrets of all namespaces, and the way the provider *)
(* creates and uses it (provider.py:215-275, 325-337).                     *)
(*                                                                         *)
(* The provider creates the cache when a config first needs it, in double- *)
(* checked locking that holds its lock while Secrets are listed.  From then*)
(* on only the watch thread writes the cache; a miss is looked up live and *)
(* the answer is not stored.  The API server is external, as in            *)
(* MlflowConfigCache, with an access switch for 403.                       *)
(***************************************************************************)
EXTENDS Naturals

CONSTANTS
    Names,          \* namespaces that may hold the Secret
    Buckets,        \* what AWS_S3_BUCKET of a usable Secret names
    Unusable,       \* a Secret without AWS_S3_BUCKET, or with an invalid one
    Absent,         \* no Secret
    Invalid,        \* resolution raised INVALID_PARAMETER_VALUE
    Failed,         \* resolution raised another error: Kubernetes did not answer
    NoName,         \* a call of the config cache, which only creates the cache
    NoRv,           \* _resource_version is None
    Callers,        \* request threads, and the config cache's watch thread
    NoOne,          \* the lock is free
    MaxRev,         \* bound on the revisions of the API server
    MaxSwitches     \* bound on the changes of access

ASSUME SecretCacheAssumption ==
    /\ MaxRev \in Nat /\ MaxSwitches \in Nat
    /\ Unusable \notin Buckets
    /\ Absent \notin Buckets \cup {Unusable}
    /\ Invalid \notin Buckets \cup {Unusable, Absent}
    /\ Failed \notin Buckets \cup {Unusable, Absent, Invalid}
    /\ NoName \notin Names
    /\ NoOne \notin Callers
    /\ NoRv \notin Nat

VARIABLES
    rev, hist,      \* external: revisions of the Secrets
    access,         \* external: Secrets may be listed and watched
    switches,       \* external: how often access has changed
    sent,           \* external: revision up to which the open watch was read
    published,      \* provider._secret_cache is set
    lock,           \* the holder of provider._secret_cache_lock
    created,        \* history: how many caches have started their thread
    secrets,        \* _secrets
    rv,             \* _resource_version
    available,      \* _available
    stopped,        \* _stop_event
    pc,             \* where the watch thread is
    listed,         \* the revision of the LIST its holder has in hand
    asOf,           \* history: revision of the last LIST or event applied
    call            \* the resolution each caller is in

server == <<rev, hist, access, switches>>
creation == <<published, lock, created>>
snapshot == <<secrets, rv, available, asOf>>
vars == <<server, sent, creation, snapshot, stopped, pc, listed, call>>

Infos == Buckets \cup {Unusable}
View == [Names -> Infos \cup {Absent}]
Revisions == 0 .. MaxRev
Empty == [n \in Names |-> Absent]

ThreadStates ==
    {"unborn", "loop", "sleep", "refresh", "store", "deny", "stream",
     "backoff", "pause", "ended"}

(* since: oldest revision the answer may be of, at first the one at which  *)
(* the call began.  denied: it found the cache unavailable.                *)
IdleCall == [at |-> "idle", name |-> NoName, since |-> 0, denied |-> FALSE,
             result |-> Absent]

Calls ==
    [at : {"idle", "ensure", "acquire", "list", "construct", "deny", "publish",
           "read", "lookup", "done"},
     name : Names \cup {NoName}, since : Revisions, denied : BOOLEAN,
     result : Buckets \cup {Absent, Invalid, Failed}]

-----------------------------------------------------------------------------
Init ==
    /\ rev = 0
    /\ hist = [r \in Revisions |-> Empty]
    /\ access \in BOOLEAN
    /\ switches = 0
    /\ sent = 0
    /\ published = FALSE
    /\ lock = NoOne
    /\ created = 0
    /\ secrets = Empty
    /\ rv = NoRv
    /\ available = TRUE
    /\ stopped = FALSE
    /\ pc = "unborn"
    /\ listed = 0
    /\ asOf = 0
    /\ call = [t \in Callers |-> IdleCall]

(* External: a Secret is created, changed or deleted.                      *)
Commit(n, v) ==
    /\ rev < MaxRev /\ v # hist[rev][n]
    /\ rev' = rev + 1
    /\ hist' = [hist EXCEPT ![rev + 1] = [hist[rev] EXCEPT ![n] = v]]
    /\ UNCHANGED <<access, switches, sent, creation, snapshot, stopped, pc,
                   listed, call>>

(* External: the permission to list and watch is granted or withdrawn.     *)
SwitchAccess ==
    /\ switches < MaxSwitches
    /\ switches' = switches + 1
    /\ access' = ~access
    /\ UNCHANGED <<rev, hist, sent, creation, snapshot, stopped, pc, listed,
                   call>>

-----------------------------------------------------------------------------
(* What _refresh_full does under the cache's lock.                         *)
StoreList(r) ==
    /\ secrets' = hist[r]
    /\ rv' = r
    /\ available' = TRUE
    /\ asOf' = r

StoreDenial ==
    /\ secrets' = Empty
    /\ rv' = NoRv
    /\ available' = FALSE
    /\ UNCHANGED asOf

-----------------------------------------------------------------------------
(***************************************************************************)
(* The watch thread, _run.  Nothing else writes what it reads.             *)
(***************************************************************************)
Step(from, to) == pc = from /\ pc' = to

Loop ==
    /\ \/ stopped /\ Step("loop", "ended") /\ UNCHANGED sent
       \/ ~stopped /\ ~available /\ Step("loop", "sleep") /\ UNCHANGED sent
       \/ ~stopped /\ available /\ rv = NoRv /\ Step("loop", "refresh")
          /\ UNCHANGED sent
       \/ ~stopped /\ available /\ rv # NoRv /\ Step("loop", "stream")
          /\ sent' = rv
    /\ UNCHANGED <<server, creation, snapshot, stopped, listed, call>>

WakeStayingUnavailable ==
    /\ Step("sleep", IF stopped THEN "ended" ELSE "loop")
    /\ UNCHANGED <<server, sent, creation, snapshot, stopped, listed, call>>

(* The sleep ends after 300 seconds, or when stop sets _retry_event; the   *)
(* thread then takes the cache for available and lists again.              *)
Wake ==
    /\ Step("sleep", IF stopped THEN "ended" ELSE "loop")
    /\ available' = (available \/ ~stopped)
    /\ UNCHANGED <<server, sent, creation, secrets, rv, asOf, stopped, listed,
                   call>>

(* The LIST of _refresh_full is evaluated, refused, or fails.              *)
ListSecrets ==
    /\ access
    /\ Step("refresh", "store")
    /\ listed' = rev
    /\ UNCHANGED <<server, sent, creation, snapshot, stopped, call>>

ListDenied ==
    /\ ~access
    /\ Step("refresh", "deny")
    /\ UNCHANGED <<server, sent, creation, snapshot, stopped, listed, call>>

ListFails ==
    /\ Step("refresh", "pause")
    /\ UNCHANGED <<server, sent, creation, snapshot, stopped, listed, call>>

(* A refreshed cache goes on to its watch without another look at the stop *)
(* event.                                                                  *)
StoreSnapshot ==
    /\ Step("store", "stream")
    /\ StoreList(listed)
    /\ sent' = listed
    /\ listed' = 0
    /\ UNCHANGED <<server, creation, stopped, call>>

StoreThreadDenial ==
    /\ Step("deny", "loop")
    /\ StoreDenial
    /\ UNCHANGED <<server, sent, creation, stopped, listed, call>>

(* ADDED, MODIFIED and DELETED.  A Secret without a bucket is kept.  Every *)
(* revision is a change of a Secret, so a BOOKMARK has nothing to move.    *)
HandleChange ==
    /\ pc = "stream" /\ ~stopped
    /\ sent < rev
    /\ sent' = sent + 1
    /\ \E n \in Names :
        /\ \A m \in Names \ {n} : hist[sent + 1][m] = hist[sent][m]
        /\ secrets' = [secrets EXCEPT ![n] = hist[sent + 1][n]]
    /\ rv' = sent + 1
    /\ asOf' = sent + 1
    /\ UNCHANGED <<server, creation, available, stopped, pc, listed, call>>

(* ERROR or unknown events, timeout, EOF, a stop noticed at an event, any  *)
(* failure other than 410 and 403.                                         *)
StreamEnds ==
    /\ Step("stream", "backoff")
    /\ sent' = 0
    /\ UNCHANGED <<server, creation, snapshot, stopped, listed, call>>

StreamExpires ==
    /\ Step("stream", "loop")
    /\ rv' = NoRv
    /\ sent' = 0
    /\ UNCHANGED <<server, creation, secrets, available, asOf, stopped,
                   listed, call>>

(* A 403 on the watch, which StoreThreadDenial applies under the lock.  The*)
(* thread alone writes the cursor, so the finally clause adds nothing.     *)
StreamDenied ==
    /\ ~access
    /\ Step("stream", "deny")
    /\ sent' = 0
    /\ UNCHANGED <<server, creation, snapshot, stopped, listed, call>>

(* The waits of _run; the finally clause after a stream clears the cursor. *)
Resume ==
    /\ pc \in {"backoff", "pause"}
    /\ pc' = "loop"
    /\ rv' = IF pc = "backoff" THEN NoRv ELSE rv
    /\ UNCHANGED <<server, sent, creation, secrets, available, asOf, stopped,
                   listed, call>>

Stop ==
    /\ published /\ ~stopped
    /\ stopped' = TRUE
    /\ UNCHANGED <<server, sent, creation, snapshot, pc, listed, call>>

-----------------------------------------------------------------------------
(***************************************************************************)
(* resolve_artifact_root for a workspace whose config names the Secret, and*)
(* the config cache's request to have the cache created.                   *)
(***************************************************************************)
At(t, from) == call[t].at = from
Go(t, to) == call' = [call EXCEPT ![t].at = to]

(* A finished call keeps what its answer has to be justified by; an error  *)
(* needs nothing.                                                          *)
Return(t, result) ==
    call' = [call EXCEPT ![t].at = "done", ![t].result = result]

Raise(t) ==
    call' = [call EXCEPT ![t] = [IdleCall EXCEPT !.at = "done", !.result = Failed]]

(* A Secret without a bucket is as good as none.                           *)
Resolved(info) == IF info \in Buckets THEN info ELSE Invalid

Resolve(t, n) ==
    /\ At(t, "idle")
    /\ call' = [call EXCEPT ![t] = [IdleCall EXCEPT !.at = "ensure", !.name = n,
                                       !.since = rev]]
    /\ UNCHANGED <<server, sent, creation, snapshot, stopped, pc, listed>>

(* Once there is a cache, the config cache has what it wanted.             *)
WithCache(t) ==
    call' = [call EXCEPT ![t] =
        IF @.name = NoName THEN IdleCall
        ELSE [@ EXCEPT !.at = "read"]]

(* _ensure_secret_cache: first without the lock, then under it.            *)
Ensure(t) ==
    /\ At(t, "ensure")
    /\ IF published THEN WithCache(t) ELSE Go(t, "acquire")
    /\ UNCHANGED <<server, sent, creation, snapshot, stopped, pc, listed>>

AcquireUnchecked(t) ==
    /\ At(t, "acquire") /\ lock = NoOne
    /\ Go(t, "list") /\ lock' = t
    /\ UNCHANGED <<server, sent, published, created, snapshot, stopped, pc,
                   listed>>

Acquire(t) ==
    /\ At(t, "acquire") /\ lock = NoOne
    /\ IF published THEN WithCache(t) /\ UNCHANGED lock
       ELSE Go(t, "list") /\ lock' = t
    /\ UNCHANGED <<server, sent, published, created, snapshot, stopped, pc,
                   listed>>

(* The constructor's own _refresh_full; anything but a 403 raises out of   *)
(* the constructor and out of the lock.                                    *)
CreationLists(t) ==
    /\ At(t, "list")
    /\ \/ access /\ listed' = rev /\ Go(t, "construct")
       \/ ~access /\ Go(t, "deny") /\ UNCHANGED listed
    /\ UNCHANGED <<server, sent, creation, snapshot, stopped, pc>>

CreationFailsHoldingLock(t) ==
    /\ At(t, "list")
    /\ Raise(t)
    /\ UNCHANGED <<server, sent, creation, snapshot, stopped, pc, listed>>

CreationFails(t) ==
    /\ At(t, "list")
    /\ Raise(t)
    /\ lock' = NoOne
    /\ UNCHANGED <<server, sent, published, created, snapshot, stopped, pc,
                   listed>>

(* The snapshot or the denial is stored and the thread is started...       *)
StartThread(t) ==
    /\ \/ At(t, "construct") /\ StoreList(listed)
       \/ At(t, "deny") /\ StoreDenial
    /\ listed' = 0
    /\ created' = created + 1
    /\ pc' = "loop"
    /\ Go(t, "publish")
    /\ UNCHANGED <<server, sent, published, lock, stopped>>

(* ... before the provider can see the cache.                              *)
Publish(t) ==
    /\ At(t, "publish")
    /\ published' = TRUE
    /\ lock' = NoOne
    /\ WithCache(t)
    /\ UNCHANGED <<server, sent, created, snapshot, stopped, pc, listed>>

ReadTrustingMiss(t) ==
    /\ At(t, "read")
    /\ LET info == secrets[call[t].name]
       IN call' = [call EXCEPT ![t] =
             [@ EXCEPT !.at = "done", !.denied = ~available,
                       !.since = IF info = Absent THEN @ ELSE asOf,
                       !.result = Resolved(info)]]
    /\ UNCHANGED <<server, sent, creation, snapshot, stopped, pc, listed>>

(* get_secret.  An unavailable cache answers for every namespace that there*)
(* is no Secret; a hit is answered from the snapshot; a miss is looked up. *)
Read(t) ==
    /\ At(t, "read")
    /\ LET info == secrets[call[t].name]
       IN call' = [call EXCEPT ![t] =
             IF ~available
             THEN [@ EXCEPT !.at = "done", !.denied = TRUE, !.result = Invalid]
             ELSE IF info = Absent THEN [@ EXCEPT !.at = "lookup"]
             ELSE [@ EXCEPT !.at = "done", !.since = asOf,
                      !.result = Resolved(info)]]
    /\ UNCHANGED <<server, sent, creation, snapshot, stopped, pc, listed>>

(* The LIST in one namespace answers, or fails (403 included).             *)
Lookup(t) ==
    /\ At(t, "lookup")
    /\ \/ Return(t, Resolved(hist[rev][call[t].name]))
       \/ Raise(t)
    /\ UNCHANGED <<server, sent, creation, snapshot, stopped, pc, listed>>

Forget(t) ==
    /\ At(t, "done")
    /\ call' = [call EXCEPT ![t] = IdleCall]
    /\ UNCHANGED <<server, sent, creation, snapshot, stopped, pc, listed>>

-----------------------------------------------------------------------------
WatchThread ==
    \/ Loop \/ Wake \/ ListSecrets \/ ListDenied \/ ListFails
    \/ StoreSnapshot \/ StoreThreadDenial
    \/ HandleChange
    \/ StreamEnds \/ StreamExpires \/ StreamDenied \/ Resume

Creation(t) ==
    \/ CreationLists(t) \/ CreationFails(t) \/ StartThread(t) \/ Publish(t)

Caller(t) ==
    \/ \E n \in Names \cup {NoName} : Resolve(t, n)
    \/ Ensure(t) \/ Acquire(t) \/ Creation(t)
    \/ Read(t) \/ Lookup(t) \/ Forget(t)

Next ==
    \/ \E n \in Names, v \in Infos \cup {Absent} : Commit(n, v)
    \/ SwitchAccess
    \/ WatchThread
    \/ Stop
    \/ \E t \in Callers : Caller(t)

(* As in MlflowConfigCache; and whoever creates the cache goes on, as its  *)
(* LIST ends by CACHE_REQUEST_TIMEOUT.                                     *)
Fairness ==
    /\ WF_vars(Loop) /\ WF_vars(Wake)
    /\ SF_vars(ListSecrets) /\ WF_vars(ListDenied)
    /\ WF_vars(StoreSnapshot) /\ WF_vars(StoreThreadDenial)
    /\ SF_vars(StreamEnds) /\ WF_vars(Resume)
    /\ \A t \in Callers : WF_vars(Creation(t))

Spec == Init /\ [][Next]_vars

FairSpec == Spec /\ Fairness

-----------------------------------------------------------------------------
(* Every variable holds a value the code can give it.                      *)
TypeOK ==
    /\ rev \in Revisions /\ hist \in [Revisions -> View]
    /\ access \in BOOLEAN /\ switches \in 0 .. MaxSwitches
    /\ sent \in 0 .. rev
    /\ published \in BOOLEAN /\ lock \in Callers \cup {NoOne}
    /\ created \in Nat
    /\ secrets \in View /\ rv \in 0 .. rev \cup {NoRv}
    /\ available \in BOOLEAN /\ stopped \in BOOLEAN
    /\ pc \in ThreadStates
    /\ listed \in 0 .. rev /\ asOf \in 0 .. rev
    /\ call \in [Callers -> Calls]

(* However many requests and config events need the SecretCache at once,   *)
(* and however often its creation fails, one cache comes to exist: no      *)
(* second thread watches the Secrets for a cache that nobody reads.        *)
OneSecretCache == created <= 1

(* A bucket the provider hands out was the namespace's at some moment since*)
(* the revision of the snapshot it came from, or during the call if it was *)
(* looked up; and an override is only declared invalid if there was no     *)
(* usable Secret at such a moment, or the cache was unavailable.  A failing*)
(* API raises instead.                                                     *)
AnswersWereTrue ==
    \A t \in Callers : At(t, "done") =>
        LET Info(r) == hist[r][call[t].name]
            moments == call[t].since .. rev
        IN /\ call[t].result \in Buckets =>
                \E r \in moments : Info(r) = call[t].result
           /\ call[t].result = Invalid /\ ~call[t].denied =>
                \E r \in moments : Info(r) \notin Buckets

(* Whoever creates the cache lets go of the lock, also when the LIST fails *)
(* or is refused: the callers queued behind it are not stuck.              *)
LockIsReleased == \A t \in Callers : lock = t ~> lock # t

(* Once access is there to stay, a cache that is not stopped catches up    *)
(* with the Secrets and stays available: a refusal, even of the first LIST,*)
(* is repaired by the thread alone, as no request reloads this cache.      *)
Converges ==
    <>[]access =>
        <>[](published /\ ~stopped => available /\ secrets = hist[rev])

=============================================================================
