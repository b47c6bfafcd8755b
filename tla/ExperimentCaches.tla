-------------------------- MODULE ExperimentCaches --------------------------
(***************************************************************************)
(* The two process-wide experiment caches of auth/resource_names.py, beside*)
(* the tracking store.  Authorization turns an experiment ID into the name *)
(* that RBAC rules speak of; collection narrowing turns authorized names   *)
(* back into IDs.  A successful rename or delete is applied to the caches  *)
(* by the middleware once the response is there.                           *)
(*                                                                         *)
(* The store is external: names are unique, and a deleted experiment keeps *)
(* its name.  TTL, LRU order and capacity only ever make entries disappear,*)
(* which Vanish does at any moment.                                        *)
(***************************************************************************)
EXTENDS Naturals

CONSTANTS
    Ids,        \* experiment IDs
    Names,      \* experiment names
    None,       \* no entry, no such experiment
    Threads,    \* request threads of one worker process
    MaxWrites   \* bound on the renames and deletes

ASSUME ExperimentCachesAssumption ==
    /\ None \notin Ids \cup Names
    /\ MaxWrites \in Nat

VARIABLES
    nameOf,     \* external: the store
    nameCache,  \* _experiment_name_cache
    idCache,    \* _experiment_id_cache
    generation, \* its _generation
    writes,     \* external: how many writes there have been
    call,       \* what each thread is doing
    raced       \* history: experiments written during an older read or write

caches == <<nameCache, idCache, generation>>
vars == <<nameOf, caches, writes, call, raced>>

(* settled and had are history: no write was between the store and the     *)
(* caches at the start, and what a right answer could have been since.     *)
IdleCall == [at |-> "idle", id |-> None, name |-> None, gen |-> 0,
             settled |-> FALSE, had |-> {}]

Stages == {"readName", "cacheName", "gotName", "readId", "cacheId", "gotId",
           "clearIds", "refreshName"}

Calls ==
    {IdleCall} \cup
    [at : Stages, id : Ids \cup {None}, name : Names \cup {None},
     gen : Nat, settled : BOOLEAN, had : SUBSET (Ids \cup Names)]

At(t, stage) == call[t].at = stage

Writing(t) == call[t].at \in {"clearIds", "refreshName"}

Settled == \A t \in Threads : ~Writing(t)

Holders(n) == {i \in Ids : nameOf[i] = n}

-----------------------------------------------------------------------------
Init ==
    /\ nameOf \in [Ids -> Names]
    /\ \A i, j \in Ids : nameOf[i] = nameOf[j] => i = j
    /\ nameCache = [i \in Ids |-> None]
    /\ idCache = [n \in Names |-> None]
    /\ generation = 0
    /\ writes = 0
    /\ call = [t \in Threads |-> IdleCall]
    /\ raced = {}

(* Expiry (_reap_expired, get) or eviction (set).                          *)
Vanish ==
    /\ \/ \E i \in Ids : nameCache[i] # None
            /\ nameCache' = [nameCache EXCEPT ![i] = None] /\ UNCHANGED idCache
       \/ \E n \in Names : idCache[n] # None
            /\ idCache' = [idCache EXCEPT ![n] = None] /\ UNCHANGED nameCache
    /\ UNCHANGED <<nameOf, generation, writes, call, raced>>

-----------------------------------------------------------------------------
(* _resolve_experiment_name_from_experiment_id: the cache, else the store, *)
(* whose answer is cached in a step of its own.                            *)
ResolveName(t, i) ==
    /\ At(t, "idle")
    /\ call' = [call EXCEPT ![t] =
          [at |-> IF nameCache[i] # None THEN "gotName" ELSE "readName",
           id |-> i, name |-> nameCache[i], gen |-> 0,
           settled |-> Settled, had |-> {nameOf[i]}]]
    /\ UNCHANGED <<nameOf, caches, writes, raced>>

(* The store answers, or ResourceNameResolutionError ends the request.     *)
ReadName(t) ==
    /\ At(t, "readName")
    /\ \/ call' = [call EXCEPT ![t].at = "cacheName", ![t].name = nameOf[call[t].id]]
       \/ call' = [call EXCEPT ![t] = IdleCall]
    /\ UNCHANGED <<nameOf, caches, writes, raced>>

CacheName(t) ==
    /\ At(t, "cacheName")
    /\ nameCache' = [nameCache EXCEPT ![call[t].id] = call[t].name]
    /\ call' = [call EXCEPT ![t].at = "gotName"]
    /\ UNCHANGED <<nameOf, idCache, generation, writes, raced>>

(* _ExperimentIdLookupCache.resolve, given _lookup_experiment_id_by_name.  *)
ResolveId(t, n) ==
    /\ At(t, "idle")
    /\ call' = [call EXCEPT ![t] =
          [at |-> IF idCache[n] # None THEN "gotId" ELSE "readId",
           id |-> idCache[n], name |-> n, gen |-> generation,
           settled |-> Settled, had |-> Holders(n)]]
    /\ UNCHANGED <<nameOf, caches, writes, raced>>

(* "Do not hold the cache lock while querying storage."  The query may find*)
(* nothing, and may raise.                                                 *)
ReadId(t) ==
    /\ At(t, "readId")
    /\ \/ \E i \in Holders(call[t].name) :
             call' = [call EXCEPT ![t].at = "cacheId", ![t].id = i]
       \/ /\ Holders(call[t].name) = {}
          /\ call' = [call EXCEPT ![t].at = "cacheId", ![t].id = None]
       \/ call' = [call EXCEPT ![t] = IdleCall]
    /\ UNCHANGED <<nameOf, caches, writes, raced>>

CacheIdWhatever(t) ==
    /\ At(t, "cacheId")
    /\ idCache' = [idCache EXCEPT ![call[t].name] = call[t].id]
    /\ call' = [call EXCEPT ![t].at = "gotId"]
    /\ UNCHANGED <<nameOf, nameCache, generation, writes, raced>>

(* The answer is returned in any case, and cached if there is one and no   *)
(* clear has come in between.                                              *)
CacheId(t) ==
    /\ At(t, "cacheId")
    /\ idCache' = IF call[t].id # None /\ call[t].gen = generation
                  THEN [idCache EXCEPT ![call[t].name] = call[t].id]
                  ELSE idCache
    /\ call' = [call EXCEPT ![t].at = "gotId"]
    /\ UNCHANGED <<nameOf, nameCache, generation, writes, raced>>

-----------------------------------------------------------------------------
(* External: the handler of experiments/update commits the new name, that  *)
(* of experiments/delete (name = None) marks the experiment deleted.       *)
Write(t, i, n) ==
    /\ At(t, "idle")
    /\ writes < MaxWrites
    /\ writes' = writes + 1
    /\ n # None => Holders(n) \subseteq {i}
    /\ nameOf' = IF n = None THEN nameOf ELSE [nameOf EXCEPT ![i] = n]
    /\ call' = [u \in Threads |->
          IF u = t
          THEN [at |-> "clearIds", id |-> i, name |-> n, gen |-> 0,
                settled |-> FALSE, had |-> {}]
          ELSE IF call[u].at \in {"readId", "cacheId"} /\ call[u].name = n
          THEN [call[u] EXCEPT !.had = @ \cup {i}]
          ELSE IF call[u].at \in {"readName", "cacheName"} /\ call[u].id = i
          THEN [call[u] EXCEPT !.had = @ \cup ({n} \ {None})]
          ELSE call[u]]
    /\ raced' = IF \E u \in Threads \ {t} :
                      call[u].id = i /\ (At(u, "cacheName") \/ Writing(u))
                THEN raced \cup {i} ELSE raced
    /\ UNCHANGED caches

ClearIdsKeepingGeneration(t) ==
    /\ At(t, "clearIds")
    /\ idCache' = [n \in Names |-> None]
    /\ call' = [call EXCEPT ![t].at = "refreshName"]
    /\ UNCHANGED <<nameOf, nameCache, generation, writes, raced>>

(* apply_response_cache_updates: the ID cache is cleared as a whole ...    *)
ClearIds(t) ==
    /\ At(t, "clearIds")
    /\ generation' = generation + 1
    /\ idCache' = [n \in Names |-> None]
    /\ call' = [call EXCEPT ![t].at = "refreshName"]
    /\ UNCHANGED <<nameOf, nameCache, writes, raced>>

RefreshNothing(t) ==
    /\ At(t, "refreshName")
    /\ call' = [call EXCEPT ![t] = IdleCall]
    /\ UNCHANGED <<nameOf, caches, writes, raced>>

(* ... then the name is set after a rename and dropped after a delete.     *)
(* The body of a request that was granted on every experiment is not read  *)
(* and names none: a rename then drops every name, a delete drops none.    *)
RefreshName(t) ==
    /\ At(t, "refreshName")
    /\ \/ nameCache' = [nameCache EXCEPT ![call[t].id] = call[t].name]
       \/ call[t].name # None /\ nameCache' = [i \in Ids |-> None]
       \/ call[t].name = None /\ nameCache' = nameCache
    /\ call' = [call EXCEPT ![t] = IdleCall]
    /\ UNCHANGED <<nameOf, idCache, generation, writes, raced>>

Forget(t) ==
    /\ At(t, "gotName") \/ At(t, "gotId")
    /\ call' = [call EXCEPT ![t] = IdleCall]
    /\ UNCHANGED <<nameOf, caches, writes, raced>>

Next ==
    \/ Vanish
    \/ \E t \in Threads :
        \/ \E i \in Ids : ResolveName(t, i)
        \/ ReadName(t) \/ CacheName(t)
        \/ \E n \in Names : ResolveId(t, n)
        \/ ReadId(t) \/ CacheId(t)
        \/ \E i \in Ids, n \in Names \cup {None} : Write(t, i, n)
        \/ ClearIds(t) \/ RefreshName(t)
        \/ Forget(t)

Spec == Init /\ [][Next]_vars

-----------------------------------------------------------------------------
(* Every variable holds a value the code can give it; a name that is cached*)
(* or answered is never empty.                                             *)
TypeOK ==
    /\ nameOf \in [Ids -> Names]
    /\ nameCache \in [Ids -> Names \cup {None}]
    /\ idCache \in [Names -> Ids \cup {None}]
    /\ generation \in Nat
    /\ writes \in 0 .. MaxWrites
    /\ call \in [Threads -> Calls]
    /\ \A t \in Threads :
        /\ call[t].at \in {"readName", "cacheName", "gotName",
                           "clearIds", "refreshName"} => call[t].id \in Ids
        /\ call[t].at \in {"cacheName", "gotName", "readId", "cacheId", "gotId"}
              => call[t].name \in Names
    /\ raced \subseteq Ids

(* "A concurrent rename/delete must not leave a stale mapping cached": an  *)
(* ID cached under a name it has lost is one whose rename is committed and *)
(* still has to clear the cache.                                           *)
StaleIdsAreBeingCleared ==
    \A n \in Names :
        idCache[n] # None /\ nameOf[idCache[n]] # n =>
            \E t \in Threads : At(t, "clearIds") /\ call[t].id = idCache[n]

(* Once a rename is answered, collection narrowing works with the IDs that *)
(* bear the authorized names, never with one that bore it before.          *)
ResolvedIdsAreCurrent ==
    \A t \in Threads :
        At(t, "gotId") /\ call[t].settled /\ call[t].id # None =>
            call[t].id \in call[t].had

(* Once a rename is answered, an experiment is authorized under its new    *)
(* name: the cache entry is refreshed after the successful write.          *)
ResolvedNamesAreCurrent ==
    \A t \in Threads :
        At(t, "gotName") /\ call[t].settled => call[t].name \in call[t].had

(* It takes a rename that overlaps a lookup or another write of the same   *)
(* experiment to authorize later requests under an older name.             *)
OldNamesNeedARace ==
    \A t \in Threads :
        At(t, "gotName") /\ call[t].settled =>
            call[t].name \in call[t].had \/ call[t].id \in raced

=============================================================================
