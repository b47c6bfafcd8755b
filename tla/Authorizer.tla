----------------------------- MODULE Authorizer -----------------------------
(***************************************************************************)
(* KubernetesAuthorizer.is_allowed (auth/authorizer.py:522-610): request   *)
(* threads ask whether an identity may do something, from the shared cache *)
(* of ExpiringCache or by an access review that Kubernetes evaluates while *)
(* grants are given and taken away.  A review is answered before its       *)
(* answer is stored, and neither happens under the lock.                   *)
(***************************************************************************)
EXTENDS ExpiringCache

CONSTANTS
    Questions,      \* [verb, subresource, name] of a review; name may be None
    Volatile,       \* keys whose grant may change: bounds the instance
    MaxChanges,     \* bound on the changes of grants
    MaxReview,      \* ticks from the evaluation of a review to its storing
    Granted         \* the value of Values that means yes

(* _effective_resource_name_for_access_review: a creation and a watch have *)
(* no named resource yet.                                                  *)
Key(q) ==
    IF \/ q.verb = "watch"
       \/ q.verb = "create" /\ q.subresource = None
    THEN [q EXCEPT !.name = None]
    ELSE q

ASSUME AuthorizerAssumption ==
    /\ MaxReview \in Nat
    /\ MaxChanges \in Nat
    /\ Granted \in Values
    /\ Volatile \subseteq Keys
    /\ \A q \in Questions : Key(q) \in Keys

VARIABLES
    grants,     \* what Kubernetes would answer now
    changed,    \* history: when the answer to a key last changed
    changes,    \* number of changes so far
    call        \* the is_allowed each thread is in

rbacVars == <<grants, changed, changes>>
authorizerVars == <<vars, rbacVars, call>>

IdleCall == [at |-> "idle", key |-> None, answer |-> None, reviewed |-> 0]

CallSteps == {"get", "review", "answered", "set"}

Call == {IdleCall} \cup
        [at : CallSteps, key : Keys, answer : Values \cup {None},
         reviewed : Nat]

-----------------------------------------------------------------------------
AuthorizerInit ==
    /\ Init
    /\ grants \in [Keys -> Values]
    /\ \A k \in Keys \ Volatile : grants[k] = Granted
    /\ changed = [k \in Keys |-> 0]
    /\ changes = 0
    /\ call = [t \in Threads |-> IdleCall]

(* A role binding is created or deleted. *)
ChangeGrant(k) ==
    /\ changes < MaxChanges
    /\ changes' = changes + 1
    /\ \E v \in Values \ {grants[k]} : grants' = [grants EXCEPT ![k] = v]
    /\ changed' = [changed EXCEPT ![k] = now]
    /\ UNCHANGED <<vars, call>>

(* Time passes, but an answered review is stored within MaxReview.         *)
TimePasses ==
    /\ \A t \in Threads :
        call[t].at \in {"answered", "set"} /\ op[t].at # "release" =>
            now < call[t].reviewed + MaxReview
    /\ Tick
    /\ UNCHANGED <<rbacVars, call>>

(* The steps of a get or set that its caller does not see.                 *)
InCache(t) ==
    /\ Blocked(t) \/ Lookup(t) \/ LeaveStale(t) \/ BeginReap(t) \/ Recheck(t)
         \/ ReadClock(t) \/ DropExpired(t) \/ DropOld(t) \/ Evict(t) \/ Insert(t)
    /\ UNCHANGED <<rbacVars, call>>

IsAllowed(t, q) ==
    /\ call[t].at = "idle"
    /\ BeginGet(t, Key(q))
    /\ call' = [call EXCEPT ![t] = [at |-> "get", key |-> Key(q),
                                    answer |-> None, reviewed |-> 0]]
    /\ UNCHANGED rbacVars

(* A cached answer is returned as it is.                                   *)
Hit(t) ==
    /\ op[t].value # None
    /\ LeaveLookup(t)
    /\ call' = [call EXCEPT ![t] = IdleCall]
    /\ UNCHANGED rbacVars

(* None from get, at once or after an expired entry has been dropped.      *)
Miss(t) ==
    /\ call[t].at = "get"
    /\ \/ op[t].value = None /\ LeaveLookup(t)
       \/ Release(t)
    /\ call' = [call EXCEPT ![t].at = "review"]
    /\ UNCHANGED rbacVars

(* _submit_self_subject_access_review, _submit_subject_access_review       *)
Review(t) ==
    /\ call[t].at = "review"
    /\ call' = [call EXCEPT ![t].at = "answered", ![t].reviewed = now,
                            ![t].answer = grants[call[t].key]]
    /\ UNCHANGED <<vars, rbacVars>>

(* An ApiException becomes an MlflowException; nothing is stored.          *)
ReviewFails(t) ==
    /\ call[t].at = "review"
    /\ call' = [call EXCEPT ![t] = IdleCall]
    /\ UNCHANGED <<vars, rbacVars>>

Store(t) ==
    /\ call[t].at = "answered"
    /\ BeginSet(t, call[t].key, call[t].answer)
    /\ call' = [call EXCEPT ![t].at = "set"]
    /\ UNCHANGED rbacVars

(* The answer is returned once it is stored.                               *)
Stored(t) ==
    /\ call[t].at = "set"
    /\ Release(t)
    /\ call' = [call EXCEPT ![t] = IdleCall]
    /\ UNCHANGED rbacVars

AuthorizerNext ==
    \/ TimePasses
    \/ \E k \in Volatile : ChangeGrant(k)
    \/ \E t \in Threads :
        \/ InCache(t)
        \/ \E q \in Questions : IsAllowed(t, q)
        \/ Hit(t) \/ Miss(t)
        \/ Review(t) \/ ReviewFails(t)
        \/ Store(t) \/ Stored(t)

AuthorizerSpec == AuthorizerInit /\ [][AuthorizerNext]_authorizerVars

-----------------------------------------------------------------------------
(* The cache under its actual callers is the cache of ExpiringCache: the   *)
(* two actions the callers add keep call and cache in step.                *)
AuthorizerTypeOK ==
    /\ TypeOK
    /\ grants \in [Keys -> Values]
    /\ changed \in [Keys -> Nat]
    /\ call \in [Threads -> Call]
    /\ \A t \in Threads :
        /\ call[t].at \in {"idle", "review", "answered"} => op[t] = IdleOp
        /\ op[t] # IdleOp => op[t].key = call[t].key

(* A change of a grant takes effect within the TTL and the time from a     *)
(* review to its storing: a cached answer that is no longer what           *)
(* Kubernetes says was still true less than that before it was looked up,  *)
(* whatever reviews of the same question ended in between.                 *)
ChangesTakeEffect ==
    \A t \in Threads :
        op[t].at = "leave" /\ op[t].value # None =>
            \/ op[t].value = grants[op[t].key]
            \/ op[t].time < changed[op[t].key] + MaxReview + TTL
=============================================================================
