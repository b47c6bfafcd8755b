---------------------------- MODULE GraphqlRules ----------------------------
(***************************************************************************)
(* Authorization of GraphQL requests (auth/graphql.py).  A query names any *)
(* number of root fields, directly, in inline fragments or in named ones,  *)
(* which may be shared and may even be circular.  The query tree is walked *)
(* with an explicit stack, the rules follow from the root fields and from  *)
(* the model versions selected below them, and after authorization a       *)
(* resolver narrows the root fields that were let through unread.          *)
(*                                                                         *)
(* A selection is a field, an inline fragment or a spread of a named one.  *)
(* A document is given by its selection sets, or blocks: a sequence of     *)
(* selections for each, the kind of its type, and which of them are the    *)
(* operations and the fragments.  A field without selections below it has  *)
(* None for its sub.                                                       *)
(***************************************************************************)
EXTENDS RuleTable, SequencesExt

CONSTANTS
   Documents,   \* set of [blocks, kinds, operations, fragments]
   Schemas      \* sets of root fields an MLflow version's schema may have

VARIABLES
   phase,    \* where the startup stands, and then the query
   schema,   \* root fields of this MLflow's Query and Mutation types
   doc,      \* the query
   op,       \* number of operations walked or being walked
   frame,    \* the block being walked, from its selection "next" on
   stack,    \* frames still to be walked
   visited,  \* fragments already pushed for this operation
   found,    \* what the walk has collected so far: GraphQLQueryInfo
   needed,   \* the rules of the query by what they are for
   broad,    \* the rules satisfied by a permission on the whole collection
   readable, \* the occurrences whose object was asked for and may be read
   results   \* what each root field occurrence got from the resolver

vars ==
   <<phase, schema, doc, op, frame, stack, visited, found, needed, broad,
     readable, results>>

-----------------------------------------------------------------------------
(* The field tables. *)

SingleObject == "single_object"
RequestFilter == "request_filter"
RequestScope == "request_scope"

FieldInfo(resource, verb, policy, parsers) ==
   [resource |-> resource, verb |-> verb, policy |-> policy,
    parsers |-> parsers]

(* The resource, verb, policy and name parsers of every root field. *)
FieldTable ==
   [f \in {"mlflowGetExperiment", "mlflowGetRun", "mlflowListArtifacts",
           "mlflowGetMetricHistoryBulkInterval", "mlflowSearchRuns",
           "mlflowSearchDatasets", "mlflowSearchModelVersions", "test",
           "testMutation"} |->
      CASE f = "mlflowGetExperiment" ->
              FieldInfo(Experiments, "get", SingleObject,
                        {"graphql_experiment_id_to_name"})
        [] f \in {"mlflowGetRun", "mlflowListArtifacts"} ->
              FieldInfo(Experiments, "get", SingleObject,
                        {"graphql_run_id_to_experiment_name"})
        [] f = "mlflowGetMetricHistoryBulkInterval" ->
              FieldInfo(Experiments, "get", SingleObject,
                        {"graphql_run_ids_to_experiment_names"})
        [] f \in {"mlflowSearchRuns", "mlflowSearchDatasets"} ->
              FieldInfo(Experiments, "list", RequestFilter, {})
        [] f = "mlflowSearchModelVersions" ->
              FieldInfo(Models, "list", RequestScope, {})
        [] f \in {"test", "testMutation"} ->
              FieldInfo(Experiments, "get", BroadOnly, {})]

NestedRegistryFields == {"modelVersions"}

(* The name parsers of queries: the root fields each looks at, and what it *)
(* needs in the input object of every one of them.                         *)
GraphqlParser(fields, input) == [fields |-> fields, input |-> input]

GraphqlParsers ==
   [p \in {"graphql_experiment_id_to_name",
           "graphql_run_id_to_experiment_name",
           "graphql_run_ids_to_experiment_names"} |->
      CASE p = "graphql_experiment_id_to_name" ->
              GraphqlParser({"mlflowGetExperiment"}, "id")
        [] p = "graphql_run_id_to_experiment_name" ->
              GraphqlParser({"mlflowGetRun", "mlflowListArtifacts"}, "id")
        [] p = "graphql_run_ids_to_experiment_names" ->
              GraphqlParser({"mlflowGetMetricHistoryBulkInterval"}, "ids")]

(* Startup refuses a schema with root fields outside the tables, and       *)
(* parsers on any fields but those that name a single object.              *)
FieldTableIsValid(fields) ==
   /\ fields \subseteq DOMAIN FieldTable
   /\ \A f \in DOMAIN FieldTable :
         FieldTable[f].parsers # {} <=> FieldTable[f].policy = SingleObject

(* The search for model versions narrows its own result; model versions    *)
(* selected below any other root field need the whole registry.            *)
ScopesItself(field) ==
   /\ field \in DOMAIN FieldTable
   /\ FieldTable[field].resource = Models
   /\ FieldTable[field].policy = RequestScope

-----------------------------------------------------------------------------
(* Documents.  Graphene executes only what is valid for MLflow's schema,   *)
(* so only such documents matter: a fragment stands where its type fits.   *)
(* Of the types it matters whether they are those of the root ("root"),    *)
(* those of a search for model versions ("registry"), others from which    *)
(* model versions can be selected ("data"), or none of these ("leaf").     *)

KindsBelow(kind, field) ==
   CASE kind = "root" -> IF ScopesItself(field) THEN {"registry", "leaf"}
                                                ELSE {"data", "leaf"}
     [] kind = "registry" -> {"registry", "leaf"}
     [] kind = "data" -> {"data", "leaf"}
     [] kind = "leaf" -> {"leaf"}

ValidSelection(d, s, kind) ==
   CASE s.kind = "field" ->
           /\ s.name # None
           /\ s.name \in NestedRegistryFields => kind # "leaf"
           /\ s.sub # None => /\ s.sub \in DOMAIN d.blocks
                              /\ d.kinds[s.sub] \in KindsBelow(kind, s.name)
     [] s.kind = "inline" ->
           s.sub \in DOMAIN d.blocks /\ d.kinds[s.sub] = kind
     [] s.kind = "spread" ->
           s.name \in DOMAIN d.fragments => d.kinds[d.fragments[s.name]] = kind

(* The input object of a field: with a filter by identifiers, naming one   *)
(* object, or with neither.                                                *)
Inputs == {"ids", "id", "none"}

Selection ==
   [kind : {"field", "inline", "spread"}, name : STRING, input : Inputs,
    sub : STRING]

ValidDocument(d) ==
   /\ None \notin DOMAIN d.blocks
   /\ d.operations \in Seq(DOMAIN d.blocks)
   /\ \A i \in DOMAIN d.operations : d.kinds[d.operations[i]] = "root"
   /\ \A f \in DOMAIN d.fragments : d.fragments[f] \in DOMAIN d.blocks
   /\ \A b \in DOMAIN d.blocks :
         /\ d.blocks[b] \in Seq(Selection)
         /\ d.kinds[b] \in {"root", "registry", "data", "leaf"}
         /\ \A i \in DOMAIN d.blocks[b] :
               ValidSelection(d, d.blocks[b][i], d.kinds[b])

ASSUME DocumentsAssumption == \A d \in Documents : ValidDocument(d)

-----------------------------------------------------------------------------
(* The walk. *)

EmptyInfo ==
   [roots |-> {}, nested |-> FALSE, nestedRoots |-> {}, inputs |-> <<>>]

(* A block to be walked: is it at the root, and below or after which root  *)
(* field.                                                                  *)
Frame(block, root, field) ==
   [block |-> block, next |-> 1, root |-> root, field |-> field]

NoFrame == Frame(None, FALSE, None)

InBlock ==
   frame.block # None /\ frame.next \in DOMAIN doc.blocks[frame.block]

Current == doc.blocks[frame.block][frame.next]

Push(block) == stack' = Append(stack, Frame(block, frame.root, frame.field))

Skip == frame' = [frame EXCEPT !.next = @ + 1]

(* A root field is the one that what follows it in its block is counted    *)
(* for.                                                                    *)
VisitField ==
   /\ Current.kind = "field"
   /\ LET s == Current
          field == IF frame.root THEN s.name ELSE frame.field
          registry == s.name \in NestedRegistryFields
      IN /\ found' =
              [roots |-> IF frame.root THEN found.roots \cup {s.name}
                                       ELSE found.roots,
               nested |-> found.nested \/ registry,
               nestedRoots |-> IF registry /\ field # None
                                  THEN found.nestedRoots \cup {field}
                                  ELSE found.nestedRoots,
               inputs |-> IF frame.root
                             THEN Append(found.inputs, [name |-> s.name,
                                                        input |-> s.input])
                             ELSE found.inputs]
         /\ stack' = IF s.sub = None THEN stack
                     ELSE Append(stack, Frame(s.sub, FALSE, field))
         /\ frame' = [frame EXCEPT !.next = @ + 1, !.field = field]
   /\ UNCHANGED visited

VisitInlineAsNested ==
   /\ Current.kind = "inline"
   /\ stack' = Append(stack, Frame(Current.sub, FALSE, frame.field))
   /\ Skip
   /\ UNCHANGED <<visited, found>>

VisitInline ==
   /\ Current.kind = "inline"
   /\ Push(Current.sub)
   /\ Skip
   /\ UNCHANGED <<visited, found>>

VisitSpreadTrackingRootsOnly ==
   /\ Current.kind = "spread"
   /\ visited' = visited \cup {Current.name}
   /\ IF \/ frame.root /\ Current.name \in visited
         \/ Current.name \notin DOMAIN doc.fragments
         THEN UNCHANGED stack
         ELSE Push(doc.fragments[Current.name])
   /\ Skip
   /\ UNCHANGED found

(* A fragment is walked once per operation, below the first root field     *)
(* that spreads it.                                                        *)
VisitSpread ==
   /\ Current.kind = "spread"
   /\ visited' = visited \cup {Current.name}
   /\ IF \/ Current.name \in visited
         \/ Current.name \notin DOMAIN doc.fragments
         THEN UNCHANGED stack
         ELSE Push(doc.fragments[Current.name])
   /\ Skip
   /\ UNCHANGED found

-----------------------------------------------------------------------------
(* The rules of a query. *)

FilterableIfAny(info, field) ==
   \E i \in DOMAIN info.inputs :
      info.inputs[i].name = field /\ info.inputs[i].input = "ids"

Filterable(info, field) ==
   LET same == {i \in DOMAIN info.inputs : info.inputs[i].name = field}
   IN same # {} /\ \A i \in same : info.inputs[i].input = "ids"

Key(verb, resource, policy) ==
   [verb |-> verb, resource |-> resource, policy |-> policy]

KeyOf(field) ==
   Key(FieldTable[field].verb, FieldTable[field].resource,
       FieldTable[field].policy)

ReadRegistry == Key("get", Models, BroadOnly)

RegistryKeysIfNoneScopes(info) ==
   IF info.nested /\ \A f \in info.nestedRoots : ~ScopesItself(f)
      THEN {ReadRegistry}
      ELSE {}

RegistryKeys(info) ==
   IF info.nested /\ \E f \in info.nestedRoots : ~ScopesItself(f)
      THEN {ReadRegistry}
      ELSE {}

(* The maps the rules are built from, one field after the other: by key    *)
(* the parsers so far, and whether all its searches can be narrowed.       *)
NothingYet == [parsers |-> {}, filterable |-> TRUE]

MergedSoFar(merged, key) == IF key \in DOMAIN merged THEN merged[key] ELSE NothingYet

AddFieldForgetting(info, merged, field) ==
   [key \in DOMAIN merged \cup {KeyOf(field)} |->
      IF key = KeyOf(field)
         THEN [parsers |-> FieldTable[field].parsers,
               filterable |-> /\ MergedSoFar(merged, key).filterable
                              /\ Filterable(info, field)]
         ELSE merged[key]]

AddField(info, merged, field) ==
   [key \in DOMAIN merged \cup {KeyOf(field)} |->
      IF key = KeyOf(field)
         THEN [parsers |-> MergedSoFar(merged, key).parsers
                              \cup FieldTable[field].parsers,
               filterable |-> /\ MergedSoFar(merged, key).filterable
                              /\ Filterable(info, field)]
         ELSE merged[key]]

MergeFields(info) ==
   LET fields == SetToSeq(info.roots)
       merged[n \in 0..Len(fields)] ==
          IF n = 0 THEN [key \in RegistryKeys(info) |-> NothingYet]
                   ELSE AddField(info, merged[n - 1], fields[n])
   IN merged[Len(fields)]

(* What may be left to the resolver: a search among model versions, and    *)
(* searches all of which name the experiments they search in.              *)
PolicyOf(key, filterable) ==
   IF \/ key.policy = RequestScope
      \/ key.policy = RequestFilter /\ filterable
      THEN GraphqlFilter
      ELSE None

NoRules == [key \in {} |-> None]

(* One rule per verb, resource and policy the query touches; none at all   *)
(* if it has a root field that is not in the tables.                       *)
DetermineRules(info) ==
   IF info.roots \subseteq DOMAIN FieldTable
      THEN LET merged == MergeFields(info)
           IN [key \in DOMAIN merged |->
                 [verb |-> key.verb, resource |-> key.resource,
                  parsers |-> merged[key].parsers,
                  policy |-> PolicyOf(key, merged[key].filterable)]]
      ELSE NoRules

-----------------------------------------------------------------------------
(* The objects a rule names, as the occurrences that name them.            *)

NamedBy(parser) ==
   {i \in DOMAIN found.inputs :
      found.inputs[i].name \in GraphqlParsers[parser].fields}

NamedIn(rule) == UNION {NamedBy(p) : p \in rule.parsers}

(* A parser raises unless the query has its fields, each with its input.   *)
Resolves(parser) ==
   /\ NamedBy(parser) # {}
   /\ \A i \in NamedBy(parser) :
         found.inputs[i].input = GraphqlParsers[parser].input

NamedMayBeRead(rule, granted) ==
   /\ rule.parsers # {}
   /\ \A p \in rule.parsers : Resolves(p)
   /\ NamedIn(rule) \subseteq granted

-----------------------------------------------------------------------------
(* The resolver of a root field, after the request was let through.  The   *)
(* input object may lack the identifiers the filter is about.              *)

ResolveScope(allowed) ==
   IF allowed THEN {"full"} ELSE {"narrowed", "null"}

ResolveFilter(input) ==
   IF input = "ids" THEN {"narrowed", "null"} ELSE {"full"}

Resolve(occurrence, allowed) ==
   LET policy == FieldTable[occurrence.name].policy
   IN CASE policy = RequestScope -> ResolveScope(allowed)
        [] policy = RequestFilter -> ResolveFilter(occurrence.input)
        [] OTHER -> {"full"}

-----------------------------------------------------------------------------
(* A query that cannot be parsed, too. *)
NoQuery ==
   [blocks |-> [b \in {} |-> <<>>], kinds |-> [b \in {} |-> None],
    operations |-> <<>>, fragments |-> [f \in {} |-> None]]

Init ==
   /\ phase = "startup"
   /\ schema \in Schemas
   /\ doc = NoQuery
   /\ op = 0
   /\ frame = NoFrame
   /\ stack = <<>>
   /\ visited = {}
   /\ found = EmptyInfo
   /\ needed = NoRules
   /\ broad = {}
   /\ readable = {}
   /\ results = <<>>

ValidateFields ==
   /\ phase = "startup"
   /\ phase' = IF FieldTableIsValid(schema) THEN "serving" ELSE "failed"
   /\ UNCHANGED <<schema, doc, op, frame, stack, visited, found, needed, broad,
                  readable, results>>

Receive(document) ==
   /\ phase = "serving"
   /\ phase' = "walk"
   /\ doc' = document
   /\ UNCHANGED <<schema, op, frame, stack, visited, found, needed, broad,
                  readable, results>>

VisitSelection ==
   /\ phase = "walk"
   /\ InBlock
   /\ VisitField \/ VisitInline \/ VisitSpread
   /\ UNCHANGED <<phase, schema, doc, op, needed, broad, readable, results>>

(* The frame pushed last is the next one. *)
PopFrame ==
   /\ phase = "walk"
   /\ ~InBlock
   /\ stack # <<>>
   /\ frame' = stack[Len(stack)]
   /\ stack' = SubSeq(stack, 1, Len(stack) - 1)
   /\ UNCHANGED <<phase, schema, doc, op, visited, found, needed, broad,
                  readable, results>>

NextOperation ==
   /\ phase = "walk"
   /\ ~InBlock
   /\ stack = <<>>
   /\ op < Len(doc.operations)
   /\ op' = op + 1
   /\ frame' = Frame(doc.operations[op + 1], TRUE, None)
   /\ visited' = {}
   /\ UNCHANGED <<phase, schema, doc, stack, found, needed, broad, readable,
                  results>>

Determine ==
   /\ phase = "walk"
   /\ ~InBlock
   /\ stack = <<>>
   /\ op = Len(doc.operations)
   /\ needed' = DetermineRules(found)
   /\ phase' = IF DOMAIN needed' = {} THEN "failed" ELSE "decide"
   /\ UNCHANGED <<schema, doc, op, frame, stack, visited, found, broad,
                  readable, results>>

(* The request is let through if every rule has the permission on the      *)
(* whole collection, or on every object its parsers name, or leaves the    *)
(* decision to the resolver.                                               *)
Authorize ==
   /\ phase = "decide"
   /\ \E yes \in SUBSET (DOMAIN needed) :
         LET open == DOMAIN needed \ yes
         IN \E granted \in SUBSET UNION {NamedIn(needed[key]) : key \in open} :
               /\ broad' = yes
               /\ readable' = granted
               /\ phase' = IF \A key \in open :
                                 \/ needed[key].policy = GraphqlFilter
                                 \/ NamedMayBeRead(needed[key], granted)
                              THEN "resolve" ELSE "failed"
   /\ UNCHANGED <<schema, doc, op, frame, stack, visited, found, needed,
                  results>>

ResolveField ==
   /\ phase = "resolve"
   /\ LET occurrence == found.inputs[Len(results) + 1]
      IN \E outcome \in Resolve(occurrence, KeyOf(occurrence.name) \in broad) :
            results' = Append(results, outcome)
   /\ phase' = IF Len(results) + 1 = Len(found.inputs) THEN "done" ELSE phase
   /\ UNCHANGED <<schema, doc, op, frame, stack, visited, found, needed, broad,
                  readable>>

Walk == VisitSelection \/ PopFrame \/ NextOperation \/ Determine

Next ==
   \/ ValidateFields
   \/ \E document \in Documents : Receive(document)
   \/ Walk
   \/ Authorize
   \/ ResolveField

(* The walk runs without an await, so it goes on. *)
Spec == Init /\ [][Next]_vars /\ WF_vars(Walk)

-----------------------------------------------------------------------------
(* What a query selects, by following it everywhere.  A set of blocks that *)
(* is closed under the ways to get from one to the next holds all that is  *)
(* reached from its members, so what is reached is in every such set.      *)

Blocks == DOMAIN doc.blocks

Selections(block) == {doc.blocks[block][i] : i \in DOMAIN doc.blocks[block]}

Of(kind, block) == {s \in Selections(block) : s.kind = kind}

(* Blocks with further selections of the same object, and of objects below.*)
Beside(block) ==
   {s.sub : s \in Of("inline", block)}
   \cup {doc.fragments[f] : f \in {s.name : s \in Of("spread", block)}
                                 \cap DOMAIN doc.fragments}

Below(block) == {s.sub : s \in Of("field", block)} \ {None}

Roots == {doc.operations[i] : i \in DOMAIN doc.operations}

RootBlocks ==
   {b \in Blocks :
      \A C \in SUBSET Blocks :
         Roots \subseteq C /\ (\A c \in C : Beside(c) \subseteq C) => b \in C}

RootFields == UNION {Of("field", b) : b \in RootBlocks}

BlocksFrom(block) ==
   {b \in Blocks :
      \A C \in SUBSET Blocks :
         /\ block \in C
         /\ \A c \in C : Beside(c) \cup Below(c) \subseteq C
         => b \in C}

ReachesRegistry(field) ==
   /\ field.sub # None
   /\ \E b \in BlocksFrom(field.sub) :
         \E s \in Of("field", b) : s.name \in NestedRegistryFields

Walked == phase \in {"decide", "resolve", "done"}

-----------------------------------------------------------------------------
TypeOK ==
   /\ phase \in {"startup", "serving", "walk", "decide", "resolve", "done",
                "failed"}
   /\ op \in 0..Len(doc.operations)
   /\ frame.block \in Blocks \cup {None}
   /\ \A i \in DOMAIN stack : stack[i].block \in Blocks
   /\ found.nestedRoots \subseteq found.roots
   /\ broad \subseteq DOMAIN needed
   /\ readable \subseteq DOMAIN found.inputs
   /\ Len(results) <= Len(found.inputs)

(* Every root field a query selects, wherever it stands in the document,   *)
(* is known to the authorization with each of its argument objects.        *)
EveryRootFieldIsSeen ==
   Walked => {<<s.name, s.input>> : s \in RootFields}
               = {<<found.inputs[i].name, found.inputs[i].input>> :
                    i \in DOMAIN found.inputs}

(* A query whose root fields do not narrow the model versions below them   *)
(* needs the permission to read the registry, also when the selection is   *)
(* in a fragment that several root fields share and that is walked once.   *)
RegistryReadNeedsRegistry ==
   Walked /\ (\E s \in RootFields :
                 ReachesRegistry(s) /\ ~ScopesItself(s.name)) =>
      \E key \in DOMAIN needed :
         /\ needed[key].verb = "get"
         /\ needed[key].resource = Models
         /\ needed[key].policy = None
         /\ needed[key].parsers = {}

(* A field let through without the permission on its whole collection is   *)
(* narrowed by its resolver, whatever the other occurrences of the field   *)
(* and the other fields of the same rule look like.                        *)
UnreadCollectionsAreNarrowed ==
   \A i \in DOMAIN results :
      LET key == KeyOf(found.inputs[i].name)
      IN needed[key].parsers = {} /\ key \notin broad => results[i] # "full"

(* An object that a root field names is returned only if its own           *)
(* permission was asked for and granted, or the one on its collection,     *)
(* however many fields of one rule name objects in ways of their own: the  *)
(* rule they are merged into has to name the objects of each.              *)
NamedObjectsAreReviewed ==
   \A i \in DOMAIN results :
      LET field == found.inputs[i].name
      IN FieldTable[field].policy = SingleObject /\ KeyOf(field) \notin broad
            => i \in readable

(* The walk ends for every query, circular fragments included. *)
WalkEnds == phase = "walk" ~> phase # "walk"
=============================================================================
