-------------------------- MODULE CollectionFilters --------------------------
(***************************************************************************)
(* The narrowing of collection requests (auth/collection_filters.py).  A   *)
(* request selects resources by lists of ids or by a filter expression, in *)
(* its query, in its JSON body or in both; it is rewritten to select only  *)
(* what the caller may read, or left for a refusal.                        *)
(*                                                                         *)
(* A resource stands for its id and for its name, and for the runs in it.  *)
(* A value is what a field says: the resources it is about, and a shape.   *)
(* A list of "ids" may be "odd" instead (what is not a string is not in    *)
(* of); so may a "filter" (no valid expression), or it is "open": valid,   *)
(* but what is appended to it is not read as a clause of its own.          *)
(***************************************************************************)
EXTENDS Naturals, FiniteSets

CONSTANTS
   Items,        \* the resources of the kind in the workspace
   Unquotable    \* those whose name holds both string delimiters

ASSUME FilterAssumption == Unquotable \subseteq Items

Shapes == {"ids", "filter", "odd", "open"}
Values == [shape : Shapes, of : SUBSET Items]
List(items) == [shape |-> "ids", of |-> items]
Filter(items) == [shape |-> "filter", of |-> items]

(* Of the fields of a request: the selector, its camelCase spelling, the   *)
(* single id that can replace it, and any other.                           *)
Fields == {"field", "alias", "single", "other"}

BodyKinds == {"unread", "none", "object", "text", "garbled", "other"}
Body(kind, fields) == [kind |-> kind, fields |-> fields]
NoFields == [f \in {} |-> {}]
FieldMaps == UNION {[fs -> Values] : fs \in SUBSET Fields}

With(fields, f, v) ==
   [g \in DOMAIN fields \cup {f} |-> IF g = f THEN v ELSE fields[g]]
Without(fields, fs) == [f \in DOMAIN fields \ fs |-> fields[f]]

(* A request as it is known: its method, query and body.                   *)
BodyHas(c, f) == c.body.kind = "object" /\ f \in DOMAIN c.body.fields
QueryHas(c, f) == f \in DOMAIN c.query

BodyIds(c, f) == IF BodyHas(c, f) THEN c.body.fields[f].of ELSE {}
QueryIds(c, f) == IF QueryHas(c, f) THEN c.query[f].of ELSE {}

SetQuery(c, query) == [c EXCEPT !.query = query]
SetFields(c, fields) == [c EXCEPT !.body.fields = fields]

Applied(c) == [applied |-> TRUE, request |-> c]
NotApplied(c) == [applied |-> FALSE, request |-> c]

-----------------------------------------------------------------------------
(* Which resources of a kind a caller may read by name: one permission on  *)
(* all of them, or the candidates that its rules name, each confirmed by a *)
(* review of its own.                                                      *)
ScopeUnconfirmed(caller) ==
   [broad |-> caller.all, names |-> IF caller.all THEN {} ELSE caller.candidates]
Scope(caller) ==
   [broad |-> caller.all,
    names |-> IF caller.all THEN {} ELSE caller.candidates \cap caller.readable]

(* experiment_ids and run_ids: each source is reduced by itself.           *)
FilterIds(c, readable) ==
   LET body == BodyIds(c, "field") \cap readable
       query == QueryIds(c, "field") \cap readable
       rewritten ==
          IF BodyHas(c, "field")
             THEN SetFields(c, With(c.body.fields, "field", List(body))) ELSE c
   IN IF body \cup query = {} THEN NotApplied(c)
      ELSE IF ~QueryHas(c, "field") THEN Applied(rewritten)
      ELSE IF query = {} THEN Applied(SetQuery(rewritten, Without(c.query, {"field"})))
      ELSE Applied(SetQuery(rewritten, With(c.query, "field", List(query))))

(* experiment_id: nothing is rewritten, so every source must be readable.  *)
FilterSingleId(c, readable) ==
   LET Fits(ids) == \E e \in readable : ids = {e}
   IN IF /\ BodyHas(c, "field") \/ QueryHas(c, "field")
         /\ BodyHas(c, "field") => Fits(BodyIds(c, "field"))
         /\ QueryHas(c, "field") => Fits(QueryIds(c, "field"))
      THEN Applied(c) ELSE NotApplied(c)

(* locations, in the body only *)
FilterLocationsAllOrNone(c, readable) ==
   IF BodyIds(c, "field") # {} /\ BodyIds(c, "field") \subseteq readable
      THEN Applied(c) ELSE NotApplied(c)
FilterLocations(c, readable) ==
   LET kept == BodyIds(c, "field") \cap readable
   IN IF kept = {} THEN NotApplied(c)
      ELSE Applied(SetFields(c, With(c.body.fields, "field", List(kept))))

(* The ids the caller may read, written where the handler reads them.  A   *)
(* scope the request states itself is intersected, in all its spellings.   *)
FilterAuthorizedIds(c, caller) ==
   LET inBody == IF c.body.kind = "object"
                    THEN DOMAIN c.body.fields \cap {"field", "alias"} ELSE {}
       inQuery == DOMAIN c.query \cap {"field"}
       stated == {c.body.fields[f] : f \in inBody} \cup {c.query[f] : f \in inQuery}
       ids == {e \in Scope(caller).names : \A v \in stated : e \in v.of}
       rewritten ==
          IF inBody # {} \/ c.method = "POST"
             THEN SetFields(c, With(Without(c.body.fields, {"field", "alias"}),
                                    "field", List(ids)))
             ELSE c
   IN IF Scope(caller).broad THEN Applied(c)
      ELSE IF \/ ~caller.resolves
              \/ \E v \in stated : v.shape # "ids" \/ v.of = {}
              \/ ids = {}
              \/ c.method = "POST" /\ c.body.kind # "object"
         THEN NotApplied(c)
      ELSE IF inQuery # {} \/ c.method # "POST"
         THEN Applied(SetQuery(rewritten, With(c.query, "field", List(ids))))
      ELSE Applied(rewritten)

(* Scorers are listed by GET, of one experiment or of several.             *)
FilterScorers(c, caller) ==
   IF c.method # "GET" \/ {"single", "field"} \subseteq DOMAIN c.query
      THEN NotApplied(c)
   ELSE IF QueryHas(c, "single")
      THEN IF \E e \in caller.readable : c.query["single"] = List({e})
              THEN Applied(c) ELSE NotApplied(c)
   ELSE FilterAuthorizedIds(c, caller)

-----------------------------------------------------------------------------
(* Filter expressions.  The clause that says what the caller may read is   *)
(* appended to the caller's own, and must be the last that is parsed.      *)

(* What a conjunction of filters says; an open one swallows the others.    *)
Conjunction(filters) ==
   IF \E v \in filters : v.shape = "odd" THEN [shape |-> "odd", of |-> {}]
   ELSE IF \E v \in filters : v.shape = "open"
      THEN [shape |-> "open",
            of |-> UNION {v.of : v \in {w \in filters : w.shape = "open"}}]
   ELSE Filter({e \in Items : \A v \in filters : e \in v.of})

(* One name is compared for equality, between quotes; several experiments  *)
(* are listed by id, several other resources by name.                      *)
Expressible(policy, caller) ==
   LET names == Scope(caller).names
   IN /\ names # {}
      /\ \A e \in Unquotable : names # {e}
      /\ policy = "request_search_experiments" /\ Cardinality(names) > 1 =>
            caller.resolves

KeepsScope(narrowed) == narrowed.shape = "filter"

(* A search of datasets may spell its filter either way, but not both.     *)
OneSpelling(c) ==
   IF BodyHas(c, "alias") /\ c.method = "POST"
      THEN SetFields(c, With(Without(c.body.fields, {"alias"}), "field",
                             c.body.fields["alias"]))
      ELSE c

FilterSearch(c, policy, caller) ==
   LET spelled == IF policy = "request_search_datasets" THEN OneSpelling(c) ELSE c
       stated == {f \in {"field"} : BodyHas(spelled, f)}
       own == {spelled.body.fields[f] : f \in stated}
              \cup {c.query[f] : f \in DOMAIN c.query \cap {"field"}}
       narrowed == Conjunction(own \cup {Filter(Scope(caller).names)})
   IN IF Scope(caller).broad THEN Applied(c)
      ELSE IF \/ ~Expressible(policy, caller)
              \/ c.method = "POST" /\ c.body.kind # "object"
              \/ /\ policy = "request_search_datasets" /\ c.method = "POST"
                 /\ BodyHas(c, "alias") /\ BodyHas(c, "field")
              \/ ~KeepsScope(narrowed)
         THEN NotApplied(c)
      ELSE IF c.method = "POST"
         THEN Applied(SetFields(spelled, With(spelled.body.fields, "field", narrowed)))
      ELSE Applied(SetQuery(c, With(c.query, "field", narrowed)))

(* Models, model versions and MCP servers are searched by GET.             *)
FilterQuerySearch(c, policy, caller) ==
   LET own == {c.query[f] : f \in DOMAIN c.query \cap {"field"}}
       narrowed == Conjunction(own \cup {Filter(Scope(caller).names)})
   IN IF Scope(caller).broad THEN Applied(c)
      ELSE IF c.method = "GET" /\ Expressible(policy, caller) /\ KeepsScope(narrowed)
         THEN Applied(SetQuery(c, With(c.query, "field", narrowed)))
      ELSE NotApplied(c)

-----------------------------------------------------------------------------
(* The policies, by what they narrow. *)

IdPolicies == {"request_experiment_ids", "request_run_ids"}

AuthorizedIdPolicies ==
   {"request_authorized_experiment_ids", "request_batch_get_trace_infos",
    "request_batch_get_traces"}

BodySearchPolicies == {"request_search_experiments", "request_search_datasets"}

ModelSearchPolicies ==
   {"request_search_model_versions", "request_search_registered_models"}

McpSearchPolicies ==
   {"request_search_mcp_servers", "request_search_mcp_access_endpoints"}

(* The policies whose requests are protobuf messages.                      *)
MessagePolicies ==
   AuthorizedIdPolicies \cup BodySearchPolicies \cup ModelSearchPolicies
   \cup {"request_list_scorers"}

FilterPolicies ==
   MessagePolicies \cup IdPolicies \cup McpSearchPolicies
   \cup {"request_experiment_id", "request_trace_locations"}

(* A legacy body is decoded once more; the body of a GET without a query   *)
(* becomes the query, under the names of the fields.                       *)
Normalize(c) ==
   LET decoded == IF c.body.kind = "text" THEN [c EXCEPT !.body.kind = "object"] ELSE c
       fields == decoded.body.fields
       moved == Without(IF "alias" \in DOMAIN fields
                           THEN With(fields, "field", fields["alias"]) ELSE fields,
                        {"alias"})
   IN IF c.body.kind = "garbled" THEN NotApplied(c)
      ELSE IF decoded.body.kind # "object" \/ c.method # "GET" \/ c.query # NoFields
         THEN Applied(decoded)
      ELSE IF \/ {"field", "alias"} \subseteq DOMAIN fields
              \/ \E f \in DOMAIN fields : fields[f].shape = "odd"
         THEN NotApplied(decoded)
      ELSE Applied(SetQuery([decoded EXCEPT !.body = Body("none", NoFields)], moved))

ApplyFilter(c, policy, caller) ==
   IF policy \in IdPolicies THEN FilterIds(c, caller.readable)
   ELSE IF policy = "request_experiment_id" THEN FilterSingleId(c, caller.readable)
   ELSE IF policy = "request_trace_locations" THEN FilterLocations(c, caller.readable)
   ELSE IF policy \in AuthorizedIdPolicies THEN FilterAuthorizedIds(c, caller)
   ELSE IF policy = "request_list_scorers" THEN FilterScorers(c, caller)
   ELSE IF policy \in BodySearchPolicies THEN FilterSearch(c, policy, caller)
   ELSE FilterQuerySearch(c, policy, caller)

(* apply_request_collection_filter *)
Narrow(c, policy, caller) ==
   LET normal == Normalize(c)
   IN IF policy \notin MessagePolicies THEN ApplyFilter(c, policy, caller)
      ELSE IF ~normal.applied THEN normal
      ELSE ApplyFilter(normal.request, policy, caller)
=============================================================================
