------------------------------- MODULE Dispatch -------------------------------
(***************************************************************************)
(* One collection request on its way through the middleware                *)
(* (auth/middleware.py): the context of the request is set, the request is *)
(* authorized by a rule with a collection policy (the end of               *)
(* _authorize_request_async, auth/core.py), what the authorization made of *)
(* it replaces the live request, MLflow's handler answers that, and the    *)
(* context is reset.  AuthorizeRequest goes through several rules and      *)
(* leaves the narrowing open; here there is one rule, and the narrowing is *)
(* that of CollectionFilters.                                              *)
(***************************************************************************)
EXTENDS CollectionFilters

CONSTANTS
   Callers,    \* [all, readable, candidates, resolves], see Caller
   Requests    \* [policy, method, query, body]

Caller ==
   [all : BOOLEAN,                 \* may get every resource of the kind
    readable : SUBSET Items,       \* may get these by name
    candidates : SUBSET Items,     \* the names its rules review mentions
    resolves : BOOLEAN]            \* the store finds the ids of names

Request ==
   [policy : FilterPolicies \cup {"workspaces"}, method : {"GET", "POST"},
    query : FieldMaps,
    body : [kind : BodyKinds \ {"unread"}, fields : FieldMaps]]

(* Who may get every resource may get each by name; only an object has     *)
(* fields, or a text that is decoded to one.                               *)
ASSUME DispatchAssumption ==
   /\ Callers \subseteq Caller
   /\ \A c \in Callers : c.all => c.readable = Items
   /\ Requests \subseteq Request
   /\ \A r \in Requests :
         r.body.kind \notin {"object", "text"} => r.body.fields = NoFields

(* Traces are searched by location by POST alone.  What is not a string    *)
(* where a filter belongs is odd, a list of ids included.                  *)
ASSUME SelectorAssumption ==
   \A r \in Requests :
      /\ r.policy = "request_trace_locations" => r.method = "POST"
      /\ r.policy \in BodySearchPolicies \cup ModelSearchPolicies
                       \cup McpSearchPolicies =>
            \A fields \in {r.query, r.body.fields} :
               \A f \in {"field", "alias"} \cap DOMAIN fields :
                  fields[f].shape # "ids"

None == "none"

VARIABLES
   request,   \* as it arrived; the query and the body's bytes
   caller,
   pc,
   known,     \* the request as the authorization knows it
   broad,     \* the rule's own permission on every resource
   live,      \* the request as the handler will find it
   response,  \* the resources the response is about
   workspace, \* the workspace of MLflow's request context
   set,       \* it was set by this middleware
   handled,   \* _AUTHORIZATION_HANDLED
   resolver,  \* _GRAPHQL_AUTHORIZER
   outcome    \* None until there is a response or an exception

vars == <<request, caller, pc, known, broad, live, response, workspace, set,
          handled, resolver, outcome>>
inputs == <<request, caller>>
context == <<workspace, set, handled, resolver>>

policy == request.policy

-----------------------------------------------------------------------------
(* What the authorization knows of the body: nothing until it is read, and *)
(* of a GET with a query nothing unless it is asked for.                   *)
Load(c, forGet) ==
   IF c.body.kind # "unread" \/ (c.method = "GET" /\ c.query # NoFields /\ ~forGet)
      THEN c
      ELSE [c EXCEPT !.body = request.body]

(* A protobuf request is read before it is narrowed. *)
LoadToFilter == IF policy \in MessagePolicies THEN Load(known, TRUE) ELSE known

(* Ids that are required select nothing when they are missing, the others  *)
(* everything.                                                             *)
RequiredPolicies ==
   IdPolicies \cup {"request_experiment_id", "request_trace_locations"}

(* An empty list of a protobuf message is as good as missing, but the ids  *)
(* of a listing of scorers are looked for.                                 *)
Missing(fields, f) ==
   /\ policy \in MessagePolicies
   /\ fields[f] = List({})
   /\ policy = "request_list_scorers" => f = "single"

Stated(fields) == {f \in DOMAIN fields : ~Missing(fields, f)}

(* What the handler selects of a request: a GET with a query is read from  *)
(* it, by the names of the fields, like every search of MCP servers; any   *)
(* other from its body.  A body that is no object says nothing.            *)
SelectedBy(fields) ==
   LET spellings ==
          IF policy = "request_list_scorers" /\ "single" \in Stated(fields)
             THEN {"single"} ELSE Stated(fields) \cap {"field", "alias"}
   IN IF spellings = {} /\ policy \in RequiredPolicies THEN {}
      ELSE {e \in Items : \A f \in spellings : e \in fields[f].of}

Source(c) ==
   IF policy \in McpSearchPolicies \/ (c.method = "GET" /\ c.query # NoFields)
      THEN Without(c.query, {"alias"})
      ELSE c.body.fields

(* Ids of a listing of scorers restrict it only if the query has them.     *)
Honoured(c) ==
   IF policy = "request_list_scorers" /\ c.method = "GET" /\ c.query = NoFields
      THEN Without(Source(c), {"field", "alias"})
      ELSE Source(c)

Selected(c) == IF policy = "workspaces" THEN Items ELSE SelectedBy(Honoured(c))

Arrived(r) == [method |-> r.method, query |-> r.query, body |-> r.body]

(* What the request asks for, as it arrived. *)
Asked == IF policy = "workspaces" THEN Items ELSE SelectedBy(Source(Arrived(request)))

-----------------------------------------------------------------------------
Init ==
   /\ request \in Requests
   /\ caller \in Callers
   /\ pc = "dispatch"
   /\ known = [Arrived(request) EXCEPT !.body = Body("unread", NoFields)]
   /\ broad = FALSE
   /\ live = Arrived(request)
   /\ response = {}
   /\ workspace \in {None, "workspace"}
   /\ set = FALSE
   /\ handled = FALSE /\ resolver = FALSE
   /\ outcome = None

(* Every way out resets the marker of an authorized request.               *)
Leave(why) ==
   /\ pc' = "done"
   /\ outcome' = why
   /\ handled' = FALSE

(* The workspace middleware may run before this one or not; the header may *)
(* name no workspace there is.                                             *)
ResolveWorkspace ==
   /\ pc = "dispatch"
   /\ \/ /\ workspace = None
         /\ Leave("refused")
         /\ UNCHANGED <<workspace, set>>
      \/ /\ pc' = "review"
         /\ \/ workspace = None /\ workspace' = "workspace" /\ set' = TRUE
            \/ UNCHANGED <<workspace, set>>
         /\ UNCHANGED <<outcome, handled>>
   /\ UNCHANGED <<inputs, known, broad, live, response, resolver>>

(* An MlflowException of the authorization is answered, and clears the     *)
(* workspace if it was set here; any other leaves by the finally alone.    *)
LeaveRefused(why) ==
   /\ Leave(why)
   /\ workspace' = IF set THEN None ELSE workspace
   /\ UNCHANGED <<set, resolver>>

AuthorizationFails ==
   /\ pc \in {"review", "first", "second"}
   /\ \/ LeaveRefused("refused")
      \/ Leave("error") /\ UNCHANGED <<workspace, set, resolver>>
   /\ UNCHANGED <<inputs, known, broad, live, response>>

(* The rule for workspaces is decided on the response.  The others ask for *)
(* list on every resource, that for scorers for get.                       *)
ReviewBroad ==
   /\ pc = "review"
   /\ \/ /\ policy = "workspaces"
         /\ pc' = "rewrite"
         /\ UNCHANGED broad
      \/ /\ policy # "workspaces"
         /\ broad' \in IF policy = "request_list_scorers" THEN {caller.all} ELSE BOOLEAN
         /\ pc' = IF ~broad' THEN "first"
                  ELSE IF policy = "request_list_scorers" /\ known.query = NoFields
                     THEN "scorers" ELSE "rewrite"
   /\ UNCHANGED <<inputs, known, live, response, context, outcome>>

(* The ids of a listing of scorers are only seen in the query; an empty    *)
(* list would vanish there.                                                *)
EncodesAlways(c) == c.applied
Encodes(c) ==
   /\ c.applied
   /\ "field" \in DOMAIN c.request.query => c.request.query["field"] # List({})

NormalizeScorers ==
   /\ pc = "scorers"
   /\ LET normal == Normalize(Load(known, TRUE))
      IN IF Encodes(normal)
         THEN /\ known' = normal.request
              /\ pc' = "rewrite"
              /\ UNCHANGED <<context, outcome>>
         ELSE LeaveRefused("refused") /\ UNCHANGED known
   /\ UNCHANGED <<inputs, broad, live, response>>

(* Narrowing is tried with what has been read, then with the body.         *)
NarrowFirst ==
   /\ pc = "first"
   /\ LET narrowed == Narrow(LoadToFilter, policy, caller)
      IN /\ known' = narrowed.request
         /\ pc' = IF narrowed.applied THEN "rewrite" ELSE "second"
   /\ UNCHANGED <<inputs, broad, live, response, context, outcome>>

NarrowSecond ==
   /\ pc = "second"
   /\ LET narrowed == Narrow(Load(known, FALSE), policy, caller)
      IN /\ known' = narrowed.request
         /\ IF narrowed.applied
               THEN pc' = "rewrite" /\ UNCHANGED <<context, outcome>>
               ELSE LeaveRefused("denied")
   /\ UNCHANGED <<inputs, broad, live, response>>

(* An empty list has no place in a query string.                           *)
Encoded(query) ==
   Without(query, {f \in DOMAIN query : query[f] = List({})})

(* The body of the live request is replaced by an object that was read,    *)
(* and the query if it has changed.                                        *)
Rewritten(c) ==
   SetQuery([live EXCEPT !.body = IF c.body.kind = "object" THEN c.body ELSE @],
            IF c.query = request.query THEN live.query ELSE Encoded(c.query))

Rewrite ==
   /\ pc = "rewrite"
   /\ live' = Rewritten(known)
   /\ handled' = TRUE
   /\ resolver' = TRUE
   /\ pc' = "handle"
   /\ UNCHANGED <<inputs, known, broad, response, workspace, set, outcome>>

(* Whatever becomes of the handler, the context it ran in is taken down.   *)
HandleResettingOnSuccess ==
   /\ pc = "handle"
   /\ \/ /\ pc' = "answered"
         /\ response' \in {Selected(live), {}}
         /\ workspace' = IF set THEN None ELSE workspace
         /\ resolver' = FALSE
         /\ UNCHANGED <<handled, outcome>>
      \/ Leave("raised") /\ UNCHANGED <<response, workspace, resolver>>
   /\ UNCHANGED <<inputs, known, broad, live, set>>

Handle ==
   /\ pc = "handle"
   /\ workspace' = IF set THEN None ELSE workspace
   /\ resolver' = FALSE
   /\ \/ /\ pc' = "answered"
         /\ response' \in {Selected(live), {}}
         /\ UNCHANGED <<handled, outcome>>
      \/ Leave("raised") /\ UNCHANGED response
   /\ UNCHANGED <<inputs, known, broad, live, set>>

(* A list of workspaces is reduced to those the caller can access, which   *)
(* takes reviews that may fail.                                            *)
FilterResponse ==
   /\ pc = "answered"
   /\ \/ /\ response' = IF policy = "workspaces"
                           THEN response \cap caller.readable ELSE response
         /\ Leave("answered")
      \/ policy = "workspaces" /\ Leave("raised") /\ UNCHANGED response
   /\ UNCHANGED <<inputs, known, broad, live, workspace, set, resolver>>

Done == pc = "done" /\ UNCHANGED vars

Next ==
   \/ ResolveWorkspace
   \/ ReviewBroad \/ NormalizeScorers \/ NarrowFirst \/ NarrowSecond
   \/ AuthorizationFails
   \/ Rewrite \/ Handle \/ FilterResponse
   \/ Done

Spec == Init /\ [][Next]_vars

-----------------------------------------------------------------------------
TypeOK ==
   /\ request \in Requests /\ caller \in Callers
   /\ known.body.kind \in BodyKinds
   /\ DOMAIN known.query \cup DOMAIN live.query \subseteq Fields
   /\ response \subseteq Items
   /\ outcome \in {None, "refused", "denied", "error", "raised", "answered"}
   /\ outcome # None <=> pc = "done"

(* What the comment in _request_values says of the filters for ids: they   *)
(* "intentionally consider both body and query params", so that a narrowed *)
(* request shows its caller only what it may read, whichever it uses.      *)
BothSourcesAreNarrowed ==
   outcome = "answered" /\ ~broad => response \subseteq caller.readable

(* A POST that states its ids in the query and in the body, of which the   *)
(* filters for ids have looked at the query alone.                         *)
StatedTwice ==
   /\ policy \in IdPolicies \cup {"request_experiment_id"}
   /\ request.method = "POST"
   /\ "field" \in DOMAIN request.query
   /\ {"field", "alias"} \cap DOMAIN request.body.fields # {}

OnlyQueryWasSeen == StatedTwice /\ known.body.kind = "unread"

(* What a narrowed request shows its caller, it may read: in whichever     *)
(* place or spelling it selects, and however it was decoded, tried twice,  *)
(* rewritten and encoded, however stale the names of the rules review.     *)
(* Where the filters for ids see one of two sources, it may not.           *)
ShownIsReadable ==
   outcome = "answered" /\ ~broad /\ ~OnlyQueryWasSeen =>
      response \subseteq caller.readable

(* Narrowing takes away and never adds: the handler selects nothing that   *)
(* the request as it arrived did not ask for, wherever its fields moved.   *)
NarrowingNeverWidens ==
   pc \in {"handle", "answered"} => Selected(live) \subseteq Asked

(* A request that selects in the one place its handler reads.              *)
OneSource ==
   request.method = "GET" =>
      \/ request.query = NoFields
      \/ {"field", "alias", "single"} \cap DOMAIN request.body.fields = {}

OnlyBody == request.method = "POST" => "field" \notin DOMAIN request.query

(* Narrowing takes away no more than it must: of what a request selects in *)
(* the one place its handler reads, the handler selects all that the       *)
(* caller may read, as long as its rules mention it; and no list of ids is *)
(* denied for what else is in it (unless it is in a body, or under a       *)
(* spelling, that only the protobuf policies look at).                     *)
ReadableIsKept ==
   LET readable == Asked \cap caller.readable
   IN /\ OneSource /\ OnlyBody
      /\ caller.readable \subseteq caller.candidates
      => /\ pc \in {"handle", "answered"} => readable \subseteq Selected(live)
         /\ /\ outcome = "denied"
            /\ policy \in IdPolicies \cup {"request_trace_locations"}
            /\ request.body.kind # "text"
            /\ "alias" \in DOMAIN request.body.fields =>
                  "field" \in DOMAIN request.body.fields
            => readable = {}

(* The context of a request ends with it, however it ends.  Only an        *)
(* exception that is not an MlflowException leaves the workspace behind    *)
(* that the authorization was to work in.                                  *)
ContextEndsWithRequest ==
   outcome # None =>
      /\ ~handled /\ ~resolver
      /\ set /\ outcome # "error" => workspace = None
=============================================================================
