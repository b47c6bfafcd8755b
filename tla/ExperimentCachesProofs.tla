----------------------- MODULE ExperimentCachesProofs -----------------------
(***************************************************************************)
(* The generation guard of _ExperimentIdLookupCache, and what the cache of *)
(* names is worth without one, for any number of experiments, names,       *)
(* threads and writes.                                                     *)
(***************************************************************************)
EXTENDS ExperimentCaches, TLAPS

(***************************************************************************)
(* StaleIdsAreBeingCleared is not inductive: a thread may hold an ID it is *)
(* about to cache.  If the ID has lost the name, either its generation has *)
(* passed, so it will not be cached, or the clear is still to come.        *)
(***************************************************************************)
BeingCleared(i) == \E u \in Threads : At(u, "clearIds") /\ call[u].id = i

HeldIdsAreGuarded ==
    \A t \in Threads :
        /\ call[t].gen <= generation
        /\ /\ At(t, "cacheId") /\ call[t].id # None
           /\ call[t].gen = generation
           /\ nameOf[call[t].id] # call[t].name
           => BeingCleared(call[t].id)

(* had keeps up with the store for as long as a call looks at it.          *)
HadKeepsUp ==
    \A t \in Threads :
        /\ call[t].at \in {"readId", "cacheId"} =>
              Holders(call[t].name) \subseteq call[t].had
        /\ At(t, "cacheId") /\ call[t].id # None => call[t].id \in call[t].had

GuardInv == TypeOK /\ HeldIdsAreGuarded /\ StaleIdsAreBeingCleared

IdInv == HadKeepsUp /\ ResolvedIdsAreCurrent

-----------------------------------------------------------------------------
LEMMA InitType == Init => TypeOK
BY ExperimentCachesAssumption DEF Init, TypeOK, Calls, IdleCall

(* Each operation leaves well-typed caches and calls.                      *)
LEMMA NextType == TypeOK /\ [Next]_vars => TypeOK'
<1> SUFFICES ASSUME TypeOK, [Next]_vars PROVE TypeOK'
  OBVIOUS
<1> USE ExperimentCachesAssumption
<1>1. CASE UNCHANGED vars
  BY <1>1 DEF vars, caches, TypeOK
<1>2. CASE Vanish
  BY <1>2 DEF Vanish, TypeOK
<1>3. ASSUME NEW t \in Threads, NEW i \in Ids, ResolveName(t, i) PROVE TypeOK'
  BY <1>3 DEF ResolveName, TypeOK, Calls, Stages, IdleCall, caches, At, Settled
<1>4. ASSUME NEW t \in Threads, ReadName(t) PROVE TypeOK'
  BY <1>4 DEF ReadName, TypeOK, Calls, Stages, IdleCall, caches, At
<1>5. ASSUME NEW t \in Threads, CacheName(t) PROVE TypeOK'
  BY <1>5 DEF CacheName, TypeOK, Calls, Stages, IdleCall, At
<1>6. ASSUME NEW t \in Threads, NEW n \in Names, ResolveId(t, n) PROVE TypeOK'
  BY <1>6 DEF ResolveId, TypeOK, Calls, Stages, IdleCall, caches, At, Settled,
     Holders
<1>7. ASSUME NEW t \in Threads, ReadId(t) PROVE TypeOK'
  BY <1>7 DEF ReadId, TypeOK, Calls, Stages, IdleCall, caches, At, Holders
<1>8. ASSUME NEW t \in Threads, CacheId(t) PROVE TypeOK'
  BY <1>8 DEF CacheId, TypeOK, Calls, Stages, IdleCall, At
<1>9. ASSUME NEW t \in Threads, NEW i \in Ids, NEW n \in Names \cup {None},
             Write(t, i, n)
      PROVE  TypeOK'
  BY <1>9 DEF Write, TypeOK, Calls, Stages, IdleCall, caches, At
<1>10. ASSUME NEW t \in Threads, ClearIds(t) PROVE TypeOK'
  BY <1>10 DEF ClearIds, TypeOK, Calls, Stages, IdleCall, At
<1>11. ASSUME NEW t \in Threads, RefreshName(t) PROVE TypeOK'
  BY <1>11 DEF RefreshName, TypeOK, Calls, Stages, IdleCall, At
<1>12. ASSUME NEW t \in Threads, Forget(t) PROVE TypeOK'
  BY <1>12 DEF Forget, TypeOK, Calls, Stages, IdleCall, caches, At
<1>13. QED
  BY <1>1, <1>2, <1>3, <1>4, <1>5, <1>6, <1>7, <1>8, <1>9, <1>10, <1>11,
     <1>12 DEF Next

(* The caches and the calls in flight stay well formed.                    *)
THEOREM ExperimentTypeCorrect == Spec => []TypeOK
<1>1. QED
  BY InitType, NextType, PTL DEF Spec

-----------------------------------------------------------------------------
(* One operation, and what it does to the IDs held and cached.             *)
LEMMA NextGuard == GuardInv /\ [Next]_vars => GuardInv'
<1> SUFFICES ASSUME GuardInv, [Next]_vars PROVE GuardInv'
  OBVIOUS
<1> USE ExperimentCachesAssumption DEF GuardInv
<1>0. TypeOK'
  BY NextType
<1> DEFINE Guards == HeldIdsAreGuarded' /\ StaleIdsAreBeingCleared'
<1>1. CASE UNCHANGED vars
  <2>1. Guards
    BY <1>1 DEF vars, caches, HeldIdsAreGuarded, StaleIdsAreBeingCleared,
       BeingCleared, At
  <2>2. QED
    BY <1>0, <2>1
<1>2. CASE Vanish
  <2>1. Guards
    BY <1>2 DEF Vanish, TypeOK, HeldIdsAreGuarded, StaleIdsAreBeingCleared,
       BeingCleared, At
  <2>2. QED
    BY <1>0, <2>1
(* Steps of a thread that is not about to clear leave every clear pending. *)
<1>3. ASSUME NEW t \in Threads, ~At(t, "clearIds"),
             \A u \in Threads \ {t} : call'[u] = call[u],
             NEW i \in Ids, BeingCleared(i)
      PROVE  BeingCleared(i)'
  BY <1>3 DEF BeingCleared, At
<1>4. ASSUME NEW t \in Threads,
             \/ \E i \in Ids : ResolveName(t, i)
             \/ ReadName(t) \/ CacheName(t) \/ RefreshName(t) \/ Forget(t)
             \/ \E n \in Names : ResolveId(t, n)
      PROVE  Guards
  <2>1. /\ \A u \in Threads \ {t} : call'[u] = call[u]
        /\ call'[t].at # "cacheId" /\ call'[t].gen <= generation
        /\ ~At(t, "clearIds")
        /\ UNCHANGED <<nameOf, idCache, generation>>
    BY <1>4 DEF ResolveName, ReadName, CacheName, RefreshName, Forget,
       ResolveId, At, TypeOK, Calls, IdleCall, HeldIdsAreGuarded, caches
  <2>2. HeldIdsAreGuarded'
    BY <1>3, <2>1 DEF HeldIdsAreGuarded, At, TypeOK, Calls, IdleCall
  <2>3. StaleIdsAreBeingCleared'
    BY <1>3, <2>1 DEF StaleIdsAreBeingCleared, BeingCleared, TypeOK
  <2>4. QED
    BY <2>2, <2>3
<1>5. ASSUME NEW t \in Threads, ReadId(t) PROVE Guards
  <2>1. /\ \A u \in Threads \ {t} : call'[u] = call[u]
        /\ ~At(t, "clearIds")
        /\ UNCHANGED <<nameOf, idCache, generation>>
    BY <1>5 DEF ReadId, At, TypeOK, caches
  <2>2. /\ call'[t].gen <= generation
        /\ At(t, "cacheId")' /\ call'[t].id # None =>
              nameOf[call'[t].id] = call'[t].name
    BY <1>5 DEF ReadId, At, TypeOK, Calls, IdleCall, Holders, HeldIdsAreGuarded
  <2>3. HeldIdsAreGuarded'
    BY <1>3, <2>1, <2>2 DEF HeldIdsAreGuarded, At, TypeOK, Calls, IdleCall
  <2>4. StaleIdsAreBeingCleared'
    BY <1>3, <2>1 DEF StaleIdsAreBeingCleared, BeingCleared, TypeOK
  <2>5. QED
    BY <2>3, <2>4
<1>6. ASSUME NEW t \in Threads, CacheId(t) PROVE Guards
  <2>1. /\ \A u \in Threads \ {t} : call'[u] = call[u]
        /\ ~At(t, "clearIds") /\ call'[t].at = "gotId"
        /\ call'[t].gen = call[t].gen
        /\ UNCHANGED <<nameOf, generation>>
    BY <1>6 DEF CacheId, At, TypeOK, Calls, IdleCall
  <2>2. HeldIdsAreGuarded'
    BY <1>3, <2>1 DEF HeldIdsAreGuarded, At, TypeOK, Calls, IdleCall
  <2>3. ASSUME NEW n \in Names, idCache'[n] # None, nameOf[idCache'[n]] # n
        PROVE  BeingCleared(idCache'[n])
    BY <1>6, <2>3 DEF CacheId, At, TypeOK, Calls, IdleCall, HeldIdsAreGuarded,
       StaleIdsAreBeingCleared, BeingCleared
  <2>4. StaleIdsAreBeingCleared'
    BY <1>0, <1>3, <2>1, <2>3 DEF StaleIdsAreBeingCleared, BeingCleared, TypeOK
  <2>5. QED
    BY <2>2, <2>4
<1>7. ASSUME NEW t \in Threads, NEW i \in Ids, NEW n \in Names \cup {None},
             Write(t, i, n)
      PROVE  Guards
  <2>1. /\ call'[t].at = "clearIds" /\ call'[t].id = i /\ call'[t].gen = 0
        /\ \A u \in Threads \ {t} :
              /\ call'[u].at = call[u].at /\ call'[u].id = call[u].id
              /\ call'[u].name = call[u].name /\ call'[u].gen = call[u].gen
        /\ ~At(t, "clearIds")
        /\ \A j \in Ids \ {i} : nameOf'[j] = nameOf[j]
        /\ UNCHANGED <<idCache, generation>>
    BY <1>7 DEF Write, At, TypeOK, Calls, IdleCall, caches
  <2>2. BeingCleared(i)'
    BY <2>1 DEF BeingCleared, At
  <2>3. \A j \in Ids : BeingCleared(j) => BeingCleared(j)'
    BY <2>1 DEF BeingCleared, At
  <2>4. HeldIdsAreGuarded'
    BY <2>1, <2>2, <2>3 DEF HeldIdsAreGuarded, At, TypeOK, Calls, IdleCall
  <2>5. StaleIdsAreBeingCleared'
    BY <2>1, <2>2, <2>3 DEF StaleIdsAreBeingCleared, BeingCleared, TypeOK
  <2>6. QED
    BY <2>4, <2>5
(* The cleared cache is empty, and every ID held is of an older generation.*)
<1>8. ASSUME NEW t \in Threads, ClearIds(t) PROVE Guards
  <2>1. /\ \A u \in Threads : call'[u].gen = call[u].gen
        /\ generation' = generation + 1
        /\ \A n \in Names : idCache'[n] = None
    BY <1>8 DEF ClearIds, At, TypeOK, Calls, IdleCall
  <2>2. HeldIdsAreGuarded'
    BY <2>1 DEF HeldIdsAreGuarded, At, TypeOK, Calls, IdleCall
  <2>3. StaleIdsAreBeingCleared'
    BY <2>1 DEF StaleIdsAreBeingCleared
  <2>4. QED
    BY <2>2, <2>3
<1>9. QED
  <2>1. CASE Next
    BY <1>0, <1>2, <1>4, <1>5, <1>6, <1>7, <1>8, <2>1 DEF Next
  <2>2. QED
    BY <1>1, <2>1

(* The comment at line 151 of resource_names.py: whatever the interleaving *)
(* of lookups, renames and deletes, none leaves a stale mapping cached.    *)
THEOREM NoStaleIdCached == Spec => []StaleIdsAreBeingCleared
<1>1. Init => GuardInv
  BY InitType DEF Init, GuardInv, HeldIdsAreGuarded, StaleIdsAreBeingCleared,
     IdleCall, At
<1>2. GuardInv => StaleIdsAreBeingCleared
  BY DEF GuardInv
<1>3. QED
  BY <1>1, <1>2, NextGuard, PTL DEF Spec

-----------------------------------------------------------------------------
(* What a resolution records of the store, operation by operation.  A hit  *)
(* of a call that began with no write under way is a mapping that is not   *)
(* being cleared, hence one that holds.                                    *)
LEMMA NextIds == GuardInv /\ IdInv /\ [Next]_vars => IdInv'
<1> SUFFICES ASSUME GuardInv, IdInv, [Next]_vars PROVE IdInv'
  OBVIOUS
<1> USE ExperimentCachesAssumption DEF IdInv
<1>1. CASE UNCHANGED vars
  BY <1>1 DEF vars, caches, HadKeepsUp, ResolvedIdsAreCurrent, Holders, At
(* A step that leaves the store alone and treats its own call well.        *)
<1>2. ASSUME NEW t \in Threads,
             \A u \in Threads \ {t} : call'[u] = call[u],
             UNCHANGED nameOf,
             call'[t].at \in {"readId", "cacheId"} =>
                Holders(call'[t].name) \subseteq call'[t].had,
             call'[t].at \in {"cacheId", "gotId"} /\ call'[t].settled
                /\ call'[t].id # None => call'[t].id \in call'[t].had,
             call'[t].at = "cacheId" /\ call'[t].id # None
                => call'[t].id \in call'[t].had
      PROVE  IdInv'
  BY <1>2 DEF HadKeepsUp, ResolvedIdsAreCurrent, Holders, At
<1>3. CASE Vanish
  BY <1>3 DEF Vanish, HadKeepsUp, ResolvedIdsAreCurrent, Holders, At
<1>4. ASSUME NEW t \in Threads,
             \/ \E i \in Ids : ResolveName(t, i)
             \/ ReadName(t) \/ CacheName(t) \/ ClearIds(t) \/ RefreshName(t)
             \/ Forget(t)
      PROVE  IdInv'
  <2>1. /\ \A u \in Threads \ {t} : call'[u] = call[u]
        /\ call'[t].at \notin {"readId", "cacheId", "gotId"}
        /\ UNCHANGED nameOf
    <3> USE DEF At, GuardInv, TypeOK, IdleCall, caches
    <3>1. CASE \E i \in Ids : ResolveName(t, i)
      BY <3>1 DEF ResolveName
    <3>2. CASE ReadName(t)
      BY <3>2 DEF ReadName, Calls
    <3>3. CASE CacheName(t)
      BY <3>3 DEF CacheName
    <3>4. CASE ClearIds(t)
      BY <3>4 DEF ClearIds
    <3>5. CASE RefreshName(t)
      BY <3>5 DEF RefreshName
    <3>6. CASE Forget(t)
      BY <3>6 DEF Forget
    <3>7. QED
      BY <1>4, <3>1, <3>2, <3>3, <3>4, <3>5, <3>6
  <2>2. QED
    BY <1>2, <2>1
<1>5. ASSUME NEW t \in Threads, NEW n \in Names, ResolveId(t, n) PROVE IdInv'
  <2>1. /\ \A u \in Threads \ {t} : call'[u] = call[u]
        /\ UNCHANGED nameOf
        /\ call'[t].name = n /\ call'[t].had = Holders(n)
        /\ call'[t].at = IF idCache[n] # None THEN "gotId" ELSE "readId"
        /\ call'[t].id = idCache[n] /\ call'[t].settled = Settled
    BY <1>5 DEF ResolveId, At, GuardInv, TypeOK, caches
  <2>2. Settled /\ idCache[n] # None => idCache[n] \in Holders(n)
    BY DEF Settled, Writing, GuardInv, StaleIdsAreBeingCleared, At, Holders,
       TypeOK
  <2>3. QED
    BY <1>2, <2>1, <2>2
<1>6. ASSUME NEW t \in Threads, ReadId(t) PROVE IdInv'
  <2>1. /\ \A u \in Threads \ {t} : call'[u] = call[u]
        /\ UNCHANGED nameOf
    BY <1>6 DEF ReadId, At, GuardInv, TypeOK, caches
  <2>2. Holders(call[t].name) \subseteq call[t].had
    BY <1>6 DEF ReadId, HadKeepsUp, At
  <2>3. call'[t].at \in {"readId", "cacheId", "gotId"} =>
          /\ call'[t].name = call[t].name /\ call'[t].had = call[t].had
          /\ call'[t].id # None => call'[t].id \in Holders(call[t].name)
    BY <1>6 DEF ReadId, At, GuardInv, TypeOK, Calls, IdleCall
  <2>4. QED
    BY <1>2, <2>1, <2>2, <2>3
<1>7. ASSUME NEW t \in Threads, CacheId(t) PROVE IdInv'
  <2>1. /\ \A u \in Threads \ {t} : call'[u] = call[u]
        /\ UNCHANGED nameOf
        /\ call'[t].at = "gotId" /\ call'[t].id = call[t].id
        /\ call'[t].had = call[t].had
    BY <1>7 DEF CacheId, At, GuardInv, TypeOK, Calls, IdleCall
  <2>2. call[t].id # None => call[t].id \in call[t].had
    BY <1>7 DEF CacheId, HadKeepsUp, At
  <2>3. QED
    BY <1>2, <2>1, <2>2
<1>8. ASSUME NEW t \in Threads, NEW i \in Ids, NEW n \in Names \cup {None},
             Write(t, i, n)
      PROVE  IdInv'
  <2>1. /\ call'[t].at = "clearIds"
        /\ \A j \in Ids \ {i} : nameOf'[j] = nameOf[j]
        /\ n # None => nameOf'[i] = n
        /\ n = None => nameOf' = nameOf
    BY <1>8 DEF Write, At, GuardInv, TypeOK, Calls, IdleCall
  <2>2. ASSUME NEW u \in Threads \ {t}
        PROVE  /\ call'[u].at = call[u].at /\ call'[u].id = call[u].id
               /\ call'[u].name = call[u].name
               /\ call'[u].settled = call[u].settled
               /\ call[u].had \subseteq call'[u].had
               /\ call[u].at \in {"readId", "cacheId"} /\ call[u].name = n
                     => i \in call'[u].had
    BY <1>8 DEF Write, At, GuardInv, TypeOK, Calls, IdleCall
  <2>3. ASSUME NEW u \in Threads \ {t}, call[u].at \in {"readId", "cacheId"}
        PROVE  Holders(call[u].name)' \subseteq call'[u].had
    BY <2>1, <2>2, <2>3 DEF Holders, HadKeepsUp, GuardInv, TypeOK
  <2>4. QED
    BY <2>1, <2>2, <2>3 DEF HadKeepsUp, ResolvedIdsAreCurrent, Holders, At
<1>9. QED
  <2>1. CASE Next
    BY <1>3, <1>4, <1>5, <1>6, <1>7, <1>8, <2>1 DEF Next
  <2>2. QED
    BY <1>1, <2>1

(* Once a rename is answered, names resolve to the IDs that bear them.     *)
THEOREM IdsResolveCurrently == Spec => []ResolvedIdsAreCurrent
<1>1. Init => GuardInv /\ IdInv
  BY InitType DEF Init, GuardInv, HeldIdsAreGuarded, StaleIdsAreBeingCleared,
     IdInv, HadKeepsUp, ResolvedIdsAreCurrent, IdleCall, At
<1>2. GuardInv /\ IdInv => ResolvedIdsAreCurrent
  BY DEF IdInv
<1>3. QED
  BY <1>1, <1>2, NextGuard, NextIds, PTL DEF Spec

-----------------------------------------------------------------------------
(***************************************************************************)
(* Names.  Of an experiment that was not raced for, a cached name is the   *)
(* one it bears or is about to be replaced by a rename, and whoever is     *)
(* to cache a name holds the one it bears.  OldNamesNeedARace follows for  *)
(* a hit; a call that reads the store answers what it read there.          *)
(***************************************************************************)
BeingRenamed(i) ==
    \E u \in Threads : Writing(u) /\ call[u].id = i /\ call[u].name # None

CachedNamesAreBorne ==
    \A i \in Ids \ raced :
        nameCache[i] \in {None, nameOf[i]} \/ BeingRenamed(i)

HeldNamesAreBorne ==
    \A t \in Threads :
        call[t].id \in Ids \ raced =>
            /\ At(t, "cacheName") => call[t].name = nameOf[call[t].id]
            /\ Writing(t) => call[t].name \in {None, nameOf[call[t].id]}

HadNamesKeepUp ==
    \A t \in Threads :
        /\ call[t].at \in {"readName", "cacheName"} =>
              nameOf[call[t].id] \in call[t].had
        /\ At(t, "cacheName") => call[t].name \in call[t].had

NameInv ==
    /\ TypeOK /\ CachedNamesAreBorne /\ HeldNamesAreBorne /\ HadNamesKeepUp
    /\ OldNamesNeedARace

(* What one call is worth, for the steps that leave the others alone.      *)
CallIsSound(t) ==
    /\ call[t].id \in Ids \ raced =>
          /\ At(t, "cacheName") => call[t].name = nameOf[call[t].id]
          /\ Writing(t) => call[t].name \in {None, nameOf[call[t].id]}
    /\ call[t].at \in {"readName", "cacheName"} =>
          nameOf[call[t].id] \in call[t].had
    /\ At(t, "cacheName") => call[t].name \in call[t].had
    /\ At(t, "gotName") /\ call[t].settled =>
          call[t].name \in call[t].had \/ call[t].id \in raced

LEMMA NextNames == NameInv /\ [Next]_vars => NameInv'
<1> SUFFICES ASSUME NameInv, [Next]_vars PROVE NameInv'
  OBVIOUS
<1> USE ExperimentCachesAssumption
<1>0. TypeOK /\ TypeOK' /\ CachedNamesAreBorne /\ \A t \in Threads : CallIsSound(t)
  BY NextType DEF NameInv, HeldNamesAreBorne, HadNamesKeepUp, OldNamesNeedARace,
     CallIsSound
<1> DEFINE Sound == CachedNamesAreBorne' /\ \A t \in Threads : CallIsSound(t)'
<1> SUFFICES Sound
  BY <1>0 DEF NameInv, HeldNamesAreBorne, HadNamesKeepUp, OldNamesNeedARace,
     CallIsSound
<1>1. CASE UNCHANGED vars
  <2>1. UNCHANGED <<nameOf, nameCache, call, raced>>
    BY <1>1 DEF vars, caches
  <2>2. CachedNamesAreBorne'
    BY <1>0, <2>1 DEF CachedNamesAreBorne, BeingRenamed, Writing
  <2>3. \A t \in Threads : CallIsSound(t)'
    BY <1>0, <2>1 DEF CallIsSound, At, Writing
  <2> QED
    BY <2>2, <2>3
(* A step of one thread that leaves the store alone.                       *)
<1>2. ASSUME NEW t \in Threads,
             \A u \in Threads \ {t} : call'[u] = call[u],
             UNCHANGED <<nameOf, raced>>
      PROVE  \A u \in Threads \ {t} : CallIsSound(u)'
  BY <1>0, <1>2 DEF CallIsSound, At, Writing
<1>3. ASSUME NEW t \in Threads,
             \A u \in Threads \ {t} : call'[u] = call[u],
             UNCHANGED <<nameOf, raced, nameCache>>,
             Writing(t) => /\ Writing(t)' /\ call'[t].id = call[t].id
                           /\ call'[t].name = call[t].name
      PROVE  CachedNamesAreBorne'
  BY <1>0, <1>3 DEF CachedNamesAreBorne, BeingRenamed, Writing
<1>4. CASE Vanish
  BY <1>0, <1>4 DEF Vanish, CachedNamesAreBorne, BeingRenamed, Writing,
     CallIsSound, At, TypeOK
(* A hit of a call that began with no write under way.                     *)
<1>5. ASSUME NEW t \in Threads, NEW i \in Ids, ResolveName(t, i) PROVE Sound
  <2>1. /\ \A u \in Threads \ {t} : call'[u] = call[u]
        /\ UNCHANGED <<nameOf, raced, nameCache>> /\ ~Writing(t)
        /\ call'[t].at = IF nameCache[i] # None THEN "gotName" ELSE "readName"
        /\ call'[t].id = i /\ call'[t].name = nameCache[i]
        /\ call'[t].settled = Settled /\ call'[t].had = {nameOf[i]}
    BY <1>0, <1>5 DEF ResolveName, At, TypeOK, caches, Writing
  <2>2. Settled /\ nameCache[i] # None => nameCache[i] = nameOf[i] \/ i \in raced
    BY <1>0 DEF CachedNamesAreBorne, BeingRenamed, Settled
  <2>3. CallIsSound(t)'
    BY <2>1, <2>2 DEF CallIsSound, At, Writing
  <2> QED
    BY <1>2, <1>3, <2>1, <2>3
<1>6. ASSUME NEW t \in Threads, ReadName(t) PROVE Sound
  <2>1. /\ \A u \in Threads \ {t} : call'[u] = call[u]
        /\ UNCHANGED <<nameOf, raced, nameCache>> /\ ~Writing(t)
        /\ \/ call'[t] = IdleCall
           \/ /\ call'[t].at = "cacheName" /\ call'[t].id = call[t].id
              /\ call'[t].name = nameOf[call[t].id] /\ call'[t].had = call[t].had
    BY <1>0, <1>6 DEF ReadName, At, TypeOK, caches, Writing, Calls, IdleCall
  <2>2. nameOf[call[t].id] \in call[t].had
    BY <1>0, <1>6 DEF ReadName, CallIsSound, At
  <2>3. CallIsSound(t)'
    BY <2>1, <2>2 DEF CallIsSound, At, Writing, IdleCall
  <2> QED
    BY <1>2, <1>3, <2>1, <2>3
<1>7. ASSUME NEW t \in Threads, CacheName(t) PROVE Sound
  <2>1. /\ \A u \in Threads \ {t} : call'[u] = call[u]
        /\ UNCHANGED <<nameOf, raced>>
        /\ call[t].at = "cacheName" /\ call'[t].at = "gotName"
        /\ call'[t].id = call[t].id /\ call'[t].name = call[t].name
        /\ call'[t].had = call[t].had
        /\ nameCache' = [nameCache EXCEPT ![call[t].id] = call[t].name]
    BY <1>0, <1>7 DEF CacheName, At, TypeOK, Calls, IdleCall
  <2>2. CallIsSound(t)'
    BY <1>0, <2>1 DEF CallIsSound, At, Writing
  <2>3. ASSUME NEW j \in Ids \ raced
        PROVE  nameCache'[j] \in {None, nameOf[j]} \/ BeingRenamed(j)'
    <3>1. nameCache[j] \in {None, nameOf[j]} \/ BeingRenamed(j)
      BY <1>0 DEF CachedNamesAreBorne
    <3>2. BeingRenamed(j) => BeingRenamed(j)'
      BY <2>1 DEF BeingRenamed, Writing
    <3>3. call[t].id = j => call[t].name = nameOf[j]
      BY <1>0, <2>1 DEF CallIsSound, At
    <3> QED
      BY <1>0, <2>1, <3>1, <3>2, <3>3 DEF TypeOK
  <2>4. CachedNamesAreBorne'
    BY <2>1, <2>3 DEF CachedNamesAreBorne
  <2> QED
    BY <1>2, <2>1, <2>2, <2>4
<1>8. ASSUME NEW t \in Threads,
             \/ \E n \in Names : ResolveId(t, n)
             \/ ReadId(t) \/ CacheId(t) \/ Forget(t)
      PROVE  Sound
  <2>1. /\ \A u \in Threads \ {t} : call'[u] = call[u]
        /\ UNCHANGED <<nameOf, raced, nameCache>> /\ ~Writing(t)
        /\ call'[t].at \in {"idle", "gotId", "readId", "cacheId"}
    <3> USE <1>0 DEF At, TypeOK, caches, Writing, IdleCall
    <3>1. CASE \E n \in Names : ResolveId(t, n)
      BY <3>1 DEF ResolveId
    <3>2. CASE ReadId(t)
      BY <3>2 DEF ReadId, Calls
    <3>3. CASE CacheId(t)
      BY <3>3 DEF CacheId, Calls
    <3>4. CASE Forget(t)
      BY <3>4 DEF Forget
    <3> QED
      BY <1>8, <3>1, <3>2, <3>3, <3>4
  <2>2. CallIsSound(t)'
    BY <2>1 DEF CallIsSound, At, Writing
  <2> QED
    BY <1>2, <1>3, <2>1, <2>2
(* The writer holds the new name; whoever held the old one was raced.      *)
<1>9. ASSUME NEW t \in Threads, NEW i \in Ids, NEW n \in Names \cup {None},
             Write(t, i, n)
      PROVE  Sound
  <2>1. /\ call'[t].at = "clearIds" /\ call'[t].id = i /\ call'[t].name = n
        /\ \A j \in Ids \ {i} : nameOf'[j] = nameOf[j]
        /\ nameOf'[i] = IF n = None THEN nameOf[i] ELSE n
        /\ UNCHANGED nameCache /\ raced \subseteq raced' /\ ~Writing(t)
        /\ \A u \in Threads \ {t} :
              call[u].id = i /\ (At(u, "cacheName") \/ Writing(u)) => i \in raced'
    BY <1>0, <1>9 DEF Write, At, TypeOK, Calls, IdleCall, caches, Writing
  <2>2. ASSUME NEW u \in Threads \ {t}
        PROVE  /\ call'[u].at = call[u].at /\ call'[u].id = call[u].id
               /\ call'[u].name = call[u].name
               /\ call'[u].settled = call[u].settled
               /\ call[u].had \subseteq call'[u].had
               /\ call[u].at \in {"readName", "cacheName"} /\ call[u].id = i
                  /\ n # None => n \in call'[u].had
    BY <1>0, <1>9 DEF Write, At, TypeOK, Calls, IdleCall
  <2>3. CallIsSound(t)'
    BY <2>1 DEF CallIsSound, At, Writing
  <2>4. ASSUME NEW u \in Threads \ {t} PROVE CallIsSound(u)'
    <3>1. /\ CallIsSound(u) /\ (At(u, "cacheName")' <=> At(u, "cacheName"))
          /\ (At(u, "gotName")' <=> At(u, "gotName")) /\ (Writing(u)' <=> Writing(u))
      BY <1>0, <2>2 DEF At, Writing
    <3>2. /\ call'[u].at \in {"readName", "cacheName"} =>
                /\ call[u].id \in Ids
                /\ nameOf'[call'[u].id] \in call'[u].had
          /\ At(u, "cacheName") => call'[u].name \in call'[u].had
      BY <1>0, <2>1, <2>2, <3>1 DEF CallIsSound, At, TypeOK
    <3>3. ASSUME call'[u].id \in Ids \ raced'
          PROVE  /\ At(u, "cacheName") => call'[u].name = nameOf'[call'[u].id]
                 /\ Writing(u) => call'[u].name \in {None, nameOf'[call'[u].id]}
      BY <2>1, <2>2, <3>1, <3>3 DEF CallIsSound
    <3> QED
      BY <2>1, <2>2, <3>1, <3>2, <3>3 DEF CallIsSound
  <2>5. /\ n # None => BeingRenamed(i)'
        /\ \A j \in Ids : BeingRenamed(j) => BeingRenamed(j)'
    BY <2>1, <2>2 DEF BeingRenamed, Writing
  <2>6. CachedNamesAreBorne'
    BY <1>0, <2>1, <2>5 DEF CachedNamesAreBorne
  <2> QED
    BY <2>3, <2>4, <2>6
<1>10. ASSUME NEW t \in Threads, ClearIds(t) PROVE Sound
  <2>1. /\ \A u \in Threads \ {t} : call'[u] = call[u]
        /\ UNCHANGED <<nameOf, raced, nameCache>>
        /\ Writing(t) /\ Writing(t)' /\ call'[t].at = "refreshName"
        /\ call'[t].id = call[t].id /\ call'[t].name = call[t].name
    BY <1>0, <1>10 DEF ClearIds, At, TypeOK, caches, Writing, Calls, IdleCall
  <2>2. CallIsSound(t)'
    BY <1>0, <2>1 DEF CallIsSound, At, Writing
  <2> QED
    BY <1>2, <1>3, <2>1, <2>2
<1>11. ASSUME NEW t \in Threads, RefreshName(t) PROVE Sound
  <2>1. /\ \A u \in Threads \ {t} : call'[u] = call[u]
        /\ UNCHANGED <<nameOf, raced>>
        /\ call[t].at = "refreshName" /\ call'[t].at = "idle"
        /\ \/ nameCache' = [nameCache EXCEPT ![call[t].id] = call[t].name]
           \/ nameCache' = [i \in Ids |-> None]
           \/ call[t].name = None /\ nameCache' = nameCache
    BY <1>0, <1>11 DEF RefreshName, At, TypeOK, Calls, IdleCall
  <2>2. CallIsSound(t)'
    BY <2>1 DEF CallIsSound, At, Writing
  <2>3. ASSUME NEW j \in Ids \ raced
        PROVE  nameCache'[j] \in {None, nameOf[j]} \/ BeingRenamed(j)'
    <3>1. nameCache[j] \in {None, nameOf[j]} \/ BeingRenamed(j)
      BY <1>0 DEF CachedNamesAreBorne
    <3>2. BeingRenamed(j) /\ (call[t].id # j \/ call[t].name = None)
            => BeingRenamed(j)'
      BY <2>1 DEF BeingRenamed, Writing
    <3>3. call[t].id = j => call[t].name \in {None, nameOf[j]}
      BY <1>0, <2>1 DEF CallIsSound, Writing
    <3> QED
      BY <1>0, <2>1, <3>1, <3>2, <3>3 DEF TypeOK
  <2>4. CachedNamesAreBorne'
    BY <2>1, <2>3 DEF CachedNamesAreBorne
  <2> QED
    BY <1>2, <2>1, <2>2, <2>4
<1> QED
  <2>1. CASE Next
    BY <1>4, <1>5, <1>6, <1>7, <1>8, <1>9, <1>10, <1>11, <2>1 DEF Next
  <2> QED
    BY <1>1, <2>1

(* A request is authorized under an older name only if a rename of the     *)
(* experiment was committed while another request held its old name to     *)
(* cache it, or had written it and still had to refresh the cache.         *)
THEOREM OldNamesAreRaced == Spec => []OldNamesNeedARace
<1>1. Init => NameInv
  BY InitType DEF Init, NameInv, CachedNamesAreBorne, HeldNamesAreBorne,
     HadNamesKeepUp, OldNamesNeedARace, IdleCall, At, Writing
<1>2. NameInv => OldNamesNeedARace
  BY DEF NameInv
<1> QED
  BY <1>1, <1>2, NextNames, PTL DEF Spec
=============================================================================
