----------------------------- MODULE WatchedView -----------------------------
(***************************************************************************)
(* What a watch-fed cache of Kubernetes objects promises its readers: the  *)
(* snapshot is at every moment the complete contents of the collection at  *)
(* some revision that has really existed, and that revision only moves     *)
(* forward.  docs/workspace-provider.md lines 18-34 describe the promise   *)
(* (hits may lag, misses are verified, every reconnect repairs what was    *)
(* missed); NamespaceCache implements it.                                  *)
(***************************************************************************)
EXTENDS Naturals

CONSTANTS
    Names,      \* the object names in play
    Values,     \* the contents an object can have
    Absent,     \* the object does not exist, or is not visible
    MaxRev      \* bound on the revisions the collection goes through

VARIABLES
    rev,        \* the latest revision of the collection
    hist,       \* the contents at each revision; Absent beyond rev
    snapshot,   \* what readers of the cache see
    asOf        \* the revision the snapshot shows

vars == <<rev, hist, snapshot, asOf>>

View == [Names -> Values \cup {Absent}]

Init ==
    /\ rev = 0
    /\ hist = [r \in 0 .. MaxRev |-> [n \in Names |-> Absent]]
    /\ snapshot = [n \in Names |-> Absent]
    /\ asOf = 0

(* The API server commits a revision that sets one object.                 *)
Commit ==
    \E n \in Names, v \in Values \cup {Absent} :
        /\ rev < MaxRev
        /\ rev' = rev + 1
        /\ hist' = [hist EXCEPT ![rev + 1] = [hist[rev] EXCEPT ![n] = v]]
        /\ UNCHANGED <<snapshot, asOf>>

(* The cache moves, by any number of revisions, forward to one it shows in *)
(* full.                                                                   *)
CatchUp ==
    /\ \E r \in asOf .. rev :
        /\ asOf' = r
        /\ snapshot' = hist[r]
    /\ UNCHANGED <<rev, hist>>

Next == Commit \/ CatchUp

Spec == Init /\ [][Next]_vars

=============================================================================
