----------------------------- MODULE MCStartup -----------------------------
(* Startup with the path table of the plugin and a sample of MLflow's      *)
(* routes of each framework; three of them are routes that a newer MLflow  *)
(* adds and the tables do not know.  Then one request for any route, or    *)
(* one of all GraphQL queries of two root selections, in one operation or  *)
(* two, with fragments that are shared, nested and circular.               *)
EXTENDS Startup

Route(path, methods) == [path |-> path, methods |-> methods]
Proto(path, class, method) ==
   [path |-> path, class |-> class, methods |-> {method}]

Artifacts == Api2 \o <<"mlflow-artifacts", "artifacts", "<path:artifact_path>">>
Assessment == Api3 \o <<"traces", "<trace_id>", "assessments", "<assessment_id>">>

NewProto == Api2 \o <<"mlflow", "novelty", "get">>
NewFlask == <<"ajax-api", "2.0", "novelty", "<page>">>
NewFastApi == <<"gateway", "novelty", "{page}">>

MCNewRoutes == {NewProto, NewFlask, NewFastApi}

MCProtobufRoutes ==
   <<Proto(Api2 \o <<"mlflow", "experiments", "get">>, "GetExperiment", "GET"),
     Proto(Artifacts, "DownloadArtifact", "GET"),
     Proto(Artifacts, "UploadArtifact", "PUT"),
     Proto(Artifacts, "DeleteArtifact", "DELETE"),
     Proto(Assessment, "GetAssessmentRequest", "GET"),
     Proto(Assessment, "UpdateAssessment", "PATCH"),
     Proto(Assessment, "DeleteAssessment", "DELETE"),
     Proto(Api3 \o <<"workspaces", "<workspace_name>">>, "GetWorkspace", "GET"),
     Proto(NewProto, "GetNovelty", "GET")>>

MCFlaskRoutes ==
   <<Route(<<"health">>, {"GET"}),
     Route(<<"healthz">>, {"GET"}),
     Route(<<"graphql">>, {"GET", "POST"}),
     Route(<<"get-artifact">>, {"GET", "HEAD", "OPTIONS"}),
     Route(Ajax2 \o <<"mlflow", "logged-models", "<model_id>", "artifacts",
                      "files">>, {"GET"}),
     Route(NewFlask, {"GET"})>>

MCFastApiRoutes ==
   <<Route(Jobs \o <<"{job_id}">>, {"GET"}),
     Route(Ajax3 \o <<"mcp-servers", "{name:path}", "versions",
                      "{version:path}">>, {"GET", "PATCH", "DELETE"}),
     Route(<<"gateway", "{endpoint_name}", "mlflow", "invocations">>, {"POST"}),
     Route(NewFastApi, {"GET"})>>

MCProbes == {"x", "versions"}
MCStaticPrefix == <<"mlflow">>
MCRootPath == <<"app">>

-----------------------------------------------------------------------------
Field(name, input, sub) ==
   [kind |-> "field", name |-> name, input |-> input, sub |-> sub]
Inline(sub) == [kind |-> "inline", name |-> None, input |-> "none", sub |-> sub]
Spread(name) ==
   [kind |-> "spread", name |-> name, input |-> "none", sub |-> None]

Versions == <<Field("modelVersions", "none", None)>>

(* The blocks there are besides the operations and the fragments. *)
Block(b) ==
   CASE b = "versionsOfRun" -> Versions
     [] b = "versionsFound" -> Versions
     [] b = "spreadRun" -> <<Spread("Run")>>
     [] b = "spreadQuery" -> <<Spread("Query")>>
     [] b = "searchRuns" -> <<Field("mlflowSearchRuns", "none", None)>>
     [] b = "versionsInline" -> Versions

BlockKind(b) ==
   CASE b \in {"first", "second", "Query", "spreadQuery", "searchRuns"} -> "root"
     [] b = "versionsFound" -> "registry"
     [] OTHER -> "data"

RootSelection ==
   {Field("mlflowGetRun", "id", sub) :
       sub \in {None, "versionsOfRun", "spreadRun"}}
   \cup {Field("mlflowSearchRuns", input, sub) :
            input \in {"ids", "none"}, sub \in {None, "spreadRun"}}
   \cup {Field("mlflowSearchModelVersions", "none", "versionsFound"),
         Field("mlflowSearchDatasets", "ids", None),
         Field("mlflowGetExperiment", "id", None),
         Field("mlflowGetExperiment", "none", None),
         Field("mlflowGetMetricHistoryBulkInterval", "ids", None),
         Field("test", "none", None),
         Field("mlflowNovelty", "none", None),
         Inline("searchRuns"),
         Inline("spreadQuery"),
         Spread("Query"),
         Spread("Missing")}

RunFragments ==
   {[x \in {"Run"} |-> Versions],
    [x \in {"Run"} |-> <<Inline("versionsInline")>>],
    [x \in {"Run", "Other"} |->
        IF x = "Run" THEN <<Spread("Other")>>
        ELSE <<Spread("Run")>> \o Versions]}

QueryFragments ==
   {[x \in {"Query"} |-> <<Field("mlflowSearchRuns", "none", None)>>],
    [x \in {"Query"} |->
        <<Field("mlflowListArtifacts", "id", None),
          Field("mlflowSearchRuns", "ids", "spreadRun"),
          Spread("Query")>>]}

Operations ==
   {[b \in {"first"} |-> <<s, t>>] : s, t \in RootSelection}
   \cup {[b \in {"first", "second"} |-> IF b = "first" THEN <<s>> ELSE <<t>>] :
            s, t \in RootSelection}

SelectionsIn(blocks) == UNION {ToSet(blocks[b]) : b \in DOMAIN blocks}

Spreads(blocks, name) ==
   \E s \in SelectionsIn(blocks) :
      \/ s = Spread(name)
      \/ s.sub = IF name = "Run" THEN "spreadRun" ELSE "spreadQuery"

(* A document of some operations and fragments with the blocks below them. *)
Document(operations, fragments) ==
   LET named == operations @@ fragments
       below == {s.sub : s \in SelectionsIn(named)} \ {None}
       all == named @@ [b \in below |-> Block(b)]
   IN [blocks |-> all,
       kinds |-> [b \in DOMAIN all |-> BlockKind(b)],
       operations |-> IF "second" \in DOMAIN operations
                         THEN <<"first", "second">> ELSE <<"first">>,
       fragments |-> [f \in DOMAIN fragments |-> f]]

(* Fragments are there when they are spread. *)
MCDocuments ==
   UNION {LET queries == IF Spreads(ops, "Query") THEN QueryFragments ELSE {<<>>}
          IN UNION {{Document(ops, query @@ run) :
                       run \in IF Spreads(ops @@ query, "Run") THEN RunFragments
                                ELSE {<<>>}}
                    : query \in queries}
          : ops \in Operations}

KnownFields == DOMAIN FieldTable
MCSchemas == {KnownFields, KnownFields \cup {"mlflowNovelty"}}
=============================================================================
