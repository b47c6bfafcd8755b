-------------------------- MODULE AuthorizeRequest --------------------------
(***************************************************************************)
(* The decision about one request (_authorize_request_async of             *)
(* auth/core.py).  The rules that govern a request are gone through in     *)
(* order; each needs a permission on its resource in the workspace, on the *)
(* resources the request names, or the request is narrowed to what the     *)
(* caller may see.  The body of the request is read only when something    *)
(* needs it.  Access reviews, the names found in a request and the outcome *)
(* of a narrowing are chosen when they are asked for: the models of the    *)
(* authorizer and of the collection filters say which there can be.        *)
(***************************************************************************)
EXTENDS RuleTable, FiniteSets

CONSTANTS
   OtherRules,   \* rules not in the tables: those of GraphQL queries
   Names         \* names of resources a request can select

(* Rules that change a gateway resource which makes use of another one.    *)
ChangesGateway(r, resource) ==
   /\ r.resource = resource
   /\ r.subresource # "use"
   /\ r.verb \in {"create", "update"}
   /\ ~r.skipDeps

UsesGateway(r) == ChangesGateway(r, Endpoints) \/ ChangesGateway(r, Definitions)

DenyRule == [Rule(None, None) EXCEPT !.deny = TRUE, !.message = TRUE]
SkillArtifact == Named("get", Skills, <<"skill_artifact_name">>)

TableRules ==
   {RequestRules[c] : c \in DOMAIN RequestRules}
   \cup {PathRules[k].rules : k \in DOMAIN PathRules}

AuthorizationRules ==
   {DenyRule, SkillArtifact}
   \cup UNION {{rs[k] : k \in DOMAIN rs} : rs \in TableRules \cup OtherRules}

(* What the tables have to satisfy: a reference that may be missing is     *)
(* never that of a change whose dependencies are reviewed.                 *)
ASSUME RulesAssumption ==
   /\ TableRules \cup OtherRules \subseteq Seq(AuthorizationRules)
   /\ \A r \in AuthorizationRules : r.optional => ~UsesGateway(r)

AnyName == "any resource"
Selections == {Names, {}} \cup {{CHOOSE n \in Names : TRUE}}

VARIABLES
   request,   \* [rules, method, query, header, target, enabled]
   pc,        \* where the handling stands
   rules,     \* the rules that decide
   workspace, \* the workspace reviews are made in, and the handler works in
   body,      \* "unread", "object" or "other" (not a JSON object)
   i,         \* the rule being decided
   allowed,   \* has_permission of the current rule
   missing,   \* the current rule's resource reference is not in the request
   granted,   \* reviews that were answered yes
   selected,  \* names the request was found to select, per rule
   used,      \* names of the gateway resources it makes use of, per rule
   narrowed,  \* what of the body was known when a rule narrowed the request
   budget,    \* [target_scope, targetScope] of a budget request's body
   result     \* None until decided

vars == <<request, pc, rules, workspace, body, i, allowed, missing,
          granted, selected, used, narrowed, budget, result>>

rule == rules[i]

With(f, k, v) == [x \in DOMAIN f \cup {k} |-> IF x = k THEN v ELSE f[x]]

-----------------------------------------------------------------------------
(* The requests: reads come by GET or POST, the rest by POST; the routes   *)
(* of the path table have their own method.                                *)

MethodsOf(rs) ==
   IF rs[1].verb \in {"get", "list", None} THEN {"GET", "POST"} ELSE {"POST"}

Governed ==
   (UNION {{rs} \X MethodsOf(rs) :
             rs \in {RequestRules[c] : c \in DOMAIN RequestRules} \cup OtherRules})
   \cup {<<PathRules[k].rules, PathRules[k].method>> : k \in
            {j \in DOMAIN PathRules :
               PathRules[j].path \notin UnprotectedPaths \cup {<<"graphql">>}}}
   \cup {<<<<>>, "GET">>}

IsWorkspaceApi(rs) == rs # <<>> /\ rs[1].resource = None

Requests ==
   [governed : Governed, query : BOOLEAN, header : {None, "header"},
    target : {None, "target"}, enabled : BOOLEAN]

(* Without workspaces the configured namespace is always set; only routes  *)
(* about workspaces name one themselves.                                   *)
Plausible(r) ==
   /\ ~r.enabled => r.header # None
   /\ r.target # None => IsWorkspaceApi(r.governed[1])

method == request.governed[2]

-----------------------------------------------------------------------------
(* The policies of collection_filters.py. *)

BodyPolicies ==
   {"request_authorized_experiment_ids", "request_batch_get_trace_infos",
    "request_batch_get_traces", "request_list_scorers",
    "request_search_experiments", "request_search_datasets",
    "request_search_model_versions", "request_search_registered_models"}

SelectorPolicies ==
   {"request_experiment_ids", "request_run_ids", "request_experiment_id"}

(* Whether a narrowing may find what it narrows in what has been read.     *)
MayApply(policy, known) ==
   \/ policy \in SelectorPolicies /\ (known = "object" \/ request.query)
   \/ policy = "request_trace_locations" /\ known = "object"
   \/ policy \in BodyPolicies /\ (known = "object" \/ method = "GET")
   \/ /\ policy \in {"request_search_mcp_servers",
                     "request_search_mcp_access_endpoints"}
      /\ method = "GET"

Hybrid(r) == r.parsers # <<>> /\ r.fallback /\ r.policy = GraphqlFilter

-----------------------------------------------------------------------------
(* The body is read once; that of a GET only if there are no query         *)
(* parameters or it is asked for.                                          *)
AfterRead(forGet) ==
   IF body = "unread" /\ (method = "GET" /\ request.query => forGet)
      THEN {"object", "other"}
      ELSE {body}

Review(r, name) == <<r.resource, r.verb, r.subresource, name>>
UseOf(resource, name) == <<resource, "create", "use", name>>

Refuse(why) ==
   /\ result' = why
   /\ pc' = "done"

Init ==
   /\ request \in Requests
   /\ Plausible(request)
   /\ pc = "identify"
   /\ rules = request.governed[1]
   /\ workspace = request.header
   /\ body = "unread"
   /\ i = 1
   /\ allowed = FALSE
   /\ missing = FALSE
   /\ granted = {}
   /\ selected = <<>>
   /\ used = <<>>
   /\ narrowed = <<>>
   /\ budget = <<>>
   /\ result = None

decision == <<i, allowed, missing, granted, selected, used, narrowed, budget>>

(* A bearer token, or the user header of a trusted proxy. *)
Identify ==
   /\ pc = "identify"
   /\ \/ pc' = "find" /\ UNCHANGED result
      \/ Refuse("unauthenticated")
   /\ UNCHANGED <<request, rules, workspace, body, decision>>

(* A GraphQL query is in the URL or, if there is none, in the body. *)
ReadForGraphql == AfterRead(FALSE) \cup (IF request.query THEN {body} ELSE {})

FindRules ==
   /\ pc = "find"
   /\ IF rules = <<>>
         THEN Refuse("not found") /\ UNCHANGED body
         ELSE /\ pc' = "classify"
              /\ body' \in IF rules \in OtherRules THEN ReadForGraphql ELSE {body}
              /\ UNCHANGED result
   /\ UNCHANGED <<request, rules, workspace, decision>>

(* Artifacts of skills are governed by the skill, and are read-only; the   *)
(* path of an artifact is in the URL, the query or the body.               *)
ClassifyArtifact ==
   /\ pc = "classify"
   /\ IF \E k \in DOMAIN rules : rules[k].skill
         THEN /\ body' \in IF method = "GET" /\ request.query
                              THEN {body} ELSE {body} \cup AfterRead(TRUE)
              /\ \/ UNCHANGED rules
                 \/ rules' = <<DenyRule>>
                 \/ method = "GET" /\ rules' = <<SkillArtifact>>
         ELSE UNCHANGED <<rules, body>>
   /\ pc' = "scope"
   /\ UNCHANGED <<request, workspace, result, decision>>

(* The routes about a workspace name it in the path, or in the body when   *)
(* it is created; a header comes first.                                    *)
NamedWorkspace ==
   IF /\ request.target # None
      /\ method = "POST" => rules[1].access /\ body = "object"
      THEN request.target ELSE None

ScopeWorkspace ==
   /\ pc = "scope"
   /\ workspace' = IF workspace = None THEN NamedWorkspace ELSE workspace
   /\ IF ~request.enabled /\ IsWorkspaceApi(request.governed[1])
         THEN Refuse("denied")
         ELSE pc' = "rule" /\ UNCHANGED result
   /\ UNCHANGED <<request, rules, body, decision>>

-----------------------------------------------------------------------------
(* One rule. *)

NextRule ==
   /\ i' = i + 1
   /\ pc' = IF i = Len(rules) THEN "finish" ELSE "rule"
   /\ allowed' = FALSE
   /\ missing' = FALSE

StayOnRule == UNCHANGED <<i, allowed, missing>>

RefuseRule ==
   /\ pc = "rule"
   /\ \/ rule.deny /\ Refuse(IF rule.message THEN "denied" ELSE "internal")
      \/ /\ ~rule.deny
         /\ workspace = None
         /\ rule.workspace \/ rule.verb # None \/ (rule.access /\ ~rule.filter)
         /\ Refuse("invalid")
      \/ /\ ~rule.deny
         /\ rule.workspace => workspace # None
         /\ rule.verb = None /\ ~rule.access /\ ~rule.filter
         /\ Refuse("internal")
      \/ /\ ~rule.deny
         /\ rule.verb # None /\ workspace # None /\ rule.resource = None
         /\ Refuse("internal")
   /\ UNCHANGED <<request, rules, workspace, body, decision>>

(* Rules without a verb: a list of workspaces is filtered afterwards, a    *)
(* single workspace needs a permission on any resource in it.              *)
DecideWorkspaceRule ==
   /\ pc = "rule"
   /\ ~rule.deny /\ rule.verb = None
   /\ rule.workspace => workspace # None
   /\ \/ rule.filter /\ NextRule /\ UNCHANGED <<granted, result>>
      \/ /\ rule.access /\ ~rule.filter /\ workspace # None
         /\ \/ /\ granted' = granted \cup {<<"any", "get", None, AnyName>>}
               /\ NextRule
               /\ UNCHANGED result
            \/ Refuse("denied") /\ StayOnRule /\ UNCHANGED granted
   /\ UNCHANGED <<request, rules, workspace, body, selected, used,
                  narrowed, budget>>

IsBudgetChange(r) == r.resource = Budgets /\ r.verb \in {"create", "update"}

BudgetScopes == {"absent", "workspace", "global", "one", "list"}
Global == {"global", "one"}

(* Both spellings of the target scope count; a list is not hashable.       *)
ScopesOfBudgetOneSpelling(scopes) == {scopes[1]}
ScopesOfBudget(scopes) == {scopes[1], scopes[2]}

CheckBudgetScope ==
   /\ pc = "rule"
   /\ ~rule.deny /\ workspace # None /\ IsBudgetChange(rule)
   /\ budget = <<>>
   /\ \E read \in AfterRead(FALSE), scopes \in BudgetScopes \X BudgetScopes :
         /\ body' = read
         /\ read # "object" => scopes = <<"absent", "absent">>
         /\ budget' = scopes
         /\ IF read # "object" THEN Refuse("invalid")
            ELSE IF scopes[1] = "list" \/ (scopes[2] = "list" /\ scopes[1] \notin Global)
               THEN Refuse("error")
            ELSE IF ScopesOfBudget(scopes) \cap Global # {} THEN Refuse("invalid")
            ELSE UNCHANGED <<pc, result>>
   /\ UNCHANGED <<request, rules, workspace, i, allowed, missing,
                  granted, selected, used, narrowed>>

(* First the permission on every resource of the kind in the workspace. *)
ReviewBroad ==
   /\ pc = "rule"
   /\ ~rule.deny /\ rule.verb # None /\ workspace # None /\ rule.resource # None
   /\ IsBudgetChange(rule) => budget # <<>>
   /\ \/ /\ allowed' = TRUE
         /\ granted' = granted \cup {Review(rule, AnyName)}
         /\ pc' = "named"
         /\ UNCHANGED result
      \/ allowed' = FALSE /\ pc' = "named" /\ UNCHANGED <<granted, result>>
      \/ Refuse("review failed") /\ UNCHANGED <<allowed, granted>>
   /\ UNCHANGED <<request, rules, workspace, body, i, missing,
                  selected, used, narrowed, budget>>

(* A listing of scorers by GET may carry its parameters in the body; they  *)
(* are moved to the query, and must not be empty.                          *)
NormalizeScorers ==
   /\ pc = "named"
   /\ allowed /\ rule.policy = "request_list_scorers" /\ ~request.query
   /\ body' \in AfterRead(TRUE)
   /\ \/ pc' = "filter" /\ UNCHANGED result
      \/ Refuse("invalid")
   /\ UNCHANGED <<request, rules, workspace, decision>>

EveryNameHas(names, yes) == names \subseteq yes
HasEveryName(names, yes) == names # {} /\ names \subseteq yes

(* Then, if the rule can name its resources, the permission on each; a     *)
(* rule whose reference is optional is done when the request has none.     *)
ReviewNames ==
   /\ pc = "named"
   /\ ~allowed /\ rule.parsers # <<>>
   /\ body' \in AfterRead(FALSE)
   /\ \/ \E names \in Selections : \E yes \in SUBSET names :
            /\ selected' = With(selected, i, names)
            /\ granted' = granted \cup {Review(rule, n) : n \in yes}
            /\ allowed' = HasEveryName(names, yes)
            /\ pc' = "filter"
            /\ UNCHANGED <<i, missing>>
      \/ /\ selected' = With(selected, i, {None})
         /\ IF rule.optional THEN NextRule
            ELSE /\ missing' = TRUE
                 /\ pc' = "filter"
                 /\ UNCHANGED <<i, allowed>>
         /\ UNCHANGED granted
   /\ UNCHANGED <<request, rules, workspace, used, narrowed, budget,
                  result>>

(* No names are needed, or the rule has none. *)
PassNames ==
   /\ pc = "named"
   /\ allowed \/ rule.parsers = <<>>
   /\ ~(allowed /\ rule.policy = "request_list_scorers" /\ ~request.query)
   /\ IF allowed /\ Hybrid(rule)
         THEN body' \in AfterRead(FALSE) /\ missing' \in BOOLEAN
         ELSE UNCHANGED <<body, missing>>
   /\ pc' = "filter"
   /\ UNCHANGED <<request, rules, workspace, i, allowed, granted,
                  selected, used, narrowed, budget, result>>

(* Last, the request is narrowed to what the caller may see: once with     *)
(* what has been read, then with the body.                                 *)
ReadForFilterOnDemand == {body}
ReadForFilter ==
   IF rule.policy \in BodyPolicies THEN AfterRead(TRUE) ELSE {body}

Narrow ==
   /\ pc = "filter"
   /\ ~allowed /\ rule.policy \notin {None, BroadOnly}
   /\ \E first \in ReadForFilter :
         \/ /\ MayApply(rule.policy, first)
            /\ body' = first
            /\ narrowed' = With(narrowed, i, first)
            /\ allowed' = TRUE
         \/ \E second \in IF first = "unread" THEN AfterRead(FALSE) ELSE {first} :
               /\ body' = second
               /\ \/ /\ MayApply(rule.policy, second)
                     /\ narrowed' = With(narrowed, i, second)
                     /\ allowed' = TRUE
                  \/ /\ allowed' = (/\ rule.policy = GraphqlFilter
                                    /\ Hybrid(rule) => missing)
                     /\ UNCHANGED narrowed
   /\ pc' = "decide"
   /\ UNCHANGED <<request, rules, workspace, i, missing, granted,
                  selected, used, budget, result>>

PassFilter ==
   /\ pc = "filter"
   /\ allowed \/ rule.policy \in {None, BroadOnly}
   /\ pc' = "decide"
   /\ UNCHANGED <<request, rules, workspace, body, decision, result>>

Dependency(r) == IF r.resource = Endpoints THEN Definitions ELSE Secrets

(* A new endpoint always uses model definitions, an updated one those it   *)
(* is given; a model definition always uses a secret.                      *)
RequiresUseIfNamed(r, names) == names # {}
RequiresUse(r, names) ==
   \/ r.resource = Definitions
   \/ r.verb = "create"
   \/ names # {}

DecideRule ==
   /\ pc = "decide"
   /\ IF ~allowed THEN Refuse("denied") /\ StayOnRule
      ELSE IF UsesGateway(rule) THEN pc' = "uses" /\ StayOnRule /\ UNCHANGED result
      ELSE NextRule /\ UNCHANGED result
   /\ UNCHANGED <<request, rules, workspace, body, granted, selected,
                  used, narrowed, budget>>

(* The resources a gateway change makes use of are named by the request,   *)
(* by its body, or by what is stored.                                      *)
ReviewUses ==
   /\ pc = "uses"
   /\ \E names \in Selections, read \in {body} \cup AfterRead(FALSE) :
         /\ names = {} => read \in AfterRead(FALSE)
         /\ body' = read
         /\ used' = With(used, i, names)
         /\ \/ /\ ~RequiresUse(rule, names)
               /\ NextRule
               /\ UNCHANGED <<granted, result>>
            \/ /\ RequiresUse(rule, names)
               /\ granted' = granted \cup {UseOf(Dependency(rule), AnyName)}
               /\ NextRule
               /\ UNCHANGED result
            \/ /\ RequiresUse(rule, names)
               /\ \E yes \in SUBSET names :
                     /\ granted' = granted \cup
                           {UseOf(Dependency(rule), n) : n \in yes}
                     /\ IF HasEveryName(names, yes)
                           THEN NextRule /\ UNCHANGED result
                           ELSE Refuse("denied") /\ StayOnRule
   /\ UNCHANGED <<request, rules, workspace, selected, narrowed, budget>>

(* A run is created in the caller's name, which is written into the body.  *)
Finish ==
   /\ pc = "finish"
   /\ body' \in IF \E k \in DOMAIN rules : rules[k].override
                   THEN AfterRead(FALSE) ELSE {body}
   /\ result' = "admitted"
   /\ pc' = "done"
   /\ UNCHANGED <<request, rules, workspace, decision>>

Done == pc = "done" /\ UNCHANGED vars

Next ==
   \/ Identify \/ FindRules \/ ClassifyArtifact \/ ScopeWorkspace
   \/ RefuseRule \/ DecideWorkspaceRule \/ CheckBudgetScope \/ ReviewBroad
   \/ NormalizeScorers \/ ReviewNames \/ PassNames
   \/ Narrow \/ PassFilter \/ DecideRule \/ ReviewUses \/ Finish
   \/ Done

Spec == Init /\ [][Next]_vars

-----------------------------------------------------------------------------
TypeOK ==
   /\ rules # <<>> => i \in 1..(Len(rules) + 1)
   /\ body \in {"unread", "object", "other"}
   /\ allowed \in BOOLEAN /\ missing \in BOOLEAN
   /\ DOMAIN selected \cup DOMAIN used \cup DOMAIN narrowed \subseteq DOMAIN rules
   /\ result # None <=> pc = "done"

Granted(names, resource, verb, subresource) ==
   \/ <<resource, verb, subresource, AnyName>> \in granted
   \/ /\ names # {}
      /\ \A n \in names : <<resource, verb, subresource, n>> \in granted

SelectedBy(k) == IF k \in DOMAIN selected THEN selected[k] ELSE {}

Optionally(k) == rules[k].optional /\ SelectedBy(k) = {None}

LeftToResolver(r) == r.policy = GraphqlFilter

(* A rule is satisfied on all resources, on each of the resources it       *)
(* selects (and it selects some), by a narrowing, by the absence of an     *)
(* optional reference, or it is one that is decided on the response or by  *)
(* the GraphQL resolver.                                                   *)
Covered(k) ==
   LET r == rules[k]
   IN /\ ~r.deny
      /\ \/ r.verb = None /\ (r.filter \/ <<"any", "get", None, AnyName>> \in granted)
         \/ Granted(SelectedBy(k), r.resource, r.verb, r.subresource)
         \/ k \in DOMAIN narrowed
         \/ Optionally(k)
         \/ LeftToResolver(r)

(* A change of a gateway endpoint or model definition may use every        *)
(* resource it names, and a creation names some or may use all.            *)
Usable(k) ==
   UsesGateway(rules[k]) =>
      \/ Granted(used[k], Dependency(rules[k]), "create", "use")
      \/ rules[k].resource = Endpoints /\ rules[k].verb = "update" /\ used[k] = {}

(* Every rule of an admitted request was satisfied by answers given to     *)
(* this request, and no rule is skipped.                                   *)
AdmittedIsCovered ==
   result = "admitted" => rules # <<>> /\ \A k \in DOMAIN rules : Covered(k)

(* Every gateway resource an admitted change depends on may be used.       *)
DependenciesAreUsable ==
   result = "admitted" => \A k \in DOMAIN rules : Usable(k)

(* Budgets are never widened beyond the workspace, whichever spelling of   *)
(* the field says so.                                                      *)
BudgetsStayInWorkspace ==
   result = "admitted" /\ budget # <<>> =>
      /\ budget[1] \notin Global
      /\ budget[2] \notin Global

(* A search scoped by what it says in the query and in the body is not     *)
(* narrowed before both are known.                                         *)
ScopedSearchesAreRead ==
   \A k \in DOMAIN narrowed :
      rules[k].policy \in BodyPolicies => narrowed[k] # "unread"
=============================================================================
