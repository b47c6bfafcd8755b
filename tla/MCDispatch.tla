------------------------------ MODULE MCDispatch ------------------------------
(* Dispatch with two resources: one request for each thing a body and a    *)
(* query can say about them, under one policy for each way of narrowing.   *)
EXTENDS Dispatch, TLC

MCItems == {"plain", "quoted"}
MCUnquotable == {"quoted"}

Odd == [shape |-> "odd", of |-> {"plain"}]
Open == [shape |-> "open", of |-> {"plain", "quoted"}]

BodyValues(p) ==
   {Odd} \cup
   IF p \in BodySearchPolicies \cup ModelSearchPolicies \cup McpSearchPolicies
      THEN {Filter(s) : s \in SUBSET MCItems} \cup {Open}
      ELSE {List(s) : s \in SUBSET MCItems}

(* A parameter of a query has a value. *)
QueryValues(p) == BodyValues(p) \ {List({})}

Functions(fields, values) == UNION {[fs -> values] : fs \in SUBSET fields}

Aliased ==
   {"request_run_ids", "request_authorized_experiment_ids",
    "request_search_datasets", "request_list_scorers"}

MCBodies(p) ==
   {Body(kind, NoFields) : kind \in {"none", "garbled", "other"}}
   \cup {Body("text", fields) : fields \in Functions({"field"}, BodyValues(p))}
   \cup {Body("object", fields) :
           fields \in Functions({"field"} \cup (IF p \in Aliased THEN {"alias"} ELSE {}),
                               BodyValues(p))}
   \cup (IF p = "request_list_scorers"
            THEN {Body("object", [single |-> v]) : v \in BodyValues(p)} ELSE {})

MCQueries(p) ==
   {fields @@ single @@ rest :
      fields \in Functions({"field"}, QueryValues(p)),
      single \in IF p = "request_list_scorers"
                   THEN Functions({"single"}, {List({"plain"}), List({"quoted"})})
                   ELSE {NoFields},
      rest \in {NoFields, "other" :> List(MCItems)}}

MCPolicies ==
   {"request_run_ids", "request_experiment_id", "request_trace_locations",
    "request_authorized_experiment_ids", "request_list_scorers",
    "request_search_experiments", "request_search_datasets",
    "request_search_model_versions", "request_search_mcp_servers"}

(* Traces are searched by location by POST. *)
MCMethods(p) ==
   IF p = "request_trace_locations" THEN {"POST"} ELSE {"GET", "POST"}

MCRequests ==
   UNION {[policy : {p}, method : MCMethods(p), query : MCQueries(p),
           body : MCBodies(p)] : p \in MCPolicies}
   \cup [policy : {"workspaces"}, method : {"GET"}, query : {NoFields},
         body : {Body("none", NoFields)}]

(* Posted searches of experiments by id, with ids in query, body or both.  *)
MCPostedSearches ==
   {[policy |-> "request_experiment_ids", method |-> "POST", query |-> query,
     body |-> body] :
      query \in Functions({"field"}, QueryValues("request_experiment_ids")),
      body \in {Body("object", fields) :
                   fields \in Functions({"field"},
                                        BodyValues("request_experiment_ids"))}}

Named(readable, candidates, resolves) ==
   [all |-> FALSE, readable |-> readable, candidates |-> candidates,
    resolves |-> resolves]

MCCallers ==
   {[all |-> TRUE, readable |-> MCItems, candidates |-> {}, resolves |-> TRUE],
    Named(MCItems, {"plain"}, TRUE), Named(MCItems, MCItems, FALSE)}
   \cup {Named(readable, MCItems, TRUE) : readable \in SUBSET MCItems}
=============================================================================
