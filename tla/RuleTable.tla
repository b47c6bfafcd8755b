----------------------------- MODULE RuleTable -----------------------------
(***************************************************************************)
(* The authorization rules: which Kubernetes resource and verb a request   *)
(* needs, how the resource is named by the request, and what else decides  *)
(* it.  A route is governed by a sequence of rules, all of which must be   *)
(* satisfied.  Rules are looked up by the protobuf request class or, for   *)
(* the other routes, by path and method.  Paths are sequences of segments, *)
(* "<x>" a segment and "<path:x>" one or more of them.                     *)
(***************************************************************************)
EXTENDS Naturals, Sequences, TLC

None == "none"

Experiments == "experiments"
Datasets == "datasets"
Models == "registeredmodels"
McpServers == "mcpservers"
Skills == "skills"
Secrets == "gatewaysecrets"
Endpoints == "gatewayendpoints"
Definitions == "gatewaymodeldefinitions"
Budgets == "gatewaybudgets"
Guardrails == "gatewayguardrails"
Assistants == "assistants"

AllowedResources ==
   {Experiments, Datasets, Models, McpServers, Skills, Secrets, Endpoints,
    Definitions, Budgets, Guardrails, Assistants}

GraphqlFilter == "graphql_filter"
BroadOnly == "broad_only"

-----------------------------------------------------------------------------
(* One rule with the defaults of AuthorizationRule, and the forms in which *)
(* the tables use it.                                                      *)

Rule(verb, resource) ==
   [verb |-> verb, resource |-> resource, subresource |-> None,
    parsers |-> <<>>, policy |-> None, override |-> FALSE, filter |-> FALSE,
    workspace |-> TRUE, deny |-> FALSE, message |-> FALSE, access |-> FALSE,
    optional |-> FALSE, fallback |-> FALSE, skipDeps |-> FALSE,
    skill |-> FALSE]

Named(verb, resource, parsers) ==
   [Rule(verb, resource) EXCEPT !.parsers = parsers]

Filtered(verb, resource, policy) ==
   [Rule(verb, resource) EXCEPT !.policy = policy]

(* Using a gateway resource is a create on its "use" subresource. *)
Use(resource, parsers) ==
   [Named("create", resource, parsers) EXCEPT !.subresource = "use"]

Optional(rule) == [rule EXCEPT !.optional = TRUE]

Denied(verb, resource) ==
   [Rule(verb, resource) EXCEPT !.deny = TRUE, !.message = TRUE]

WorkspacesRule == [Rule(None, None) EXCEPT !.workspace = FALSE]

(* A workspace rule with a verb must say how it is decided, and a refusal  *)
(* what it says; the constructor raises otherwise.                         *)
ValidWorkspacesRule(r) ==
   /\ r.verb # None => r.deny \/ r.filter \/ r.access
   /\ r.deny => r.message

ASSUME WorkspaceRulesAreValid ==
   /\ ValidWorkspacesRule([WorkspacesRule EXCEPT !.filter = TRUE])
   /\ \A verb \in {"create", "update", "delete"} :
         ValidWorkspacesRule([WorkspacesRule EXCEPT !.verb = verb,
                              !.deny = TRUE, !.message = TRUE])

Govern(classes, rules) == [c \in classes |-> rules]

On(method, rules, paths) ==
   [i \in DOMAIN paths |->
      [path |-> paths[i], method |-> method, rules |-> rules]]

-----------------------------------------------------------------------------
(* Routes that need several permissions. *)

IssueInvokeRules ==
   <<Named("update", Experiments, <<"experiment_id_to_name">>),
     Optional(Named("get", Experiments,
                    <<"optional_trace_ids_to_experiment_names">>)),
     Optional(Use(Secrets, <<"optional_gateway_secret_id_to_name">>)),
     Optional(Use(Endpoints, <<"optional_gateway_endpoint_name">>))>>

CreateGuardrailRules ==
   <<Rule("create", Guardrails),
     Optional(Use(Endpoints, <<"optional_action_endpoint_id_to_name">>))>>

UpdateEndpointGuardrailRules ==
   <<[Named("update", Endpoints, <<"gateway_endpoint_id_to_name">>)
         EXCEPT !.skipDeps = TRUE],
     Rule("update", Guardrails)>>

ListEndpointGuardrailRules ==
   <<Named("get", Endpoints, <<"gateway_endpoint_id_to_name">>),
     Rule("list", Guardrails)>>

ProxyRules == <<Use(Endpoints, <<"gateway_proxy_endpoint_name">>)>>

-----------------------------------------------------------------------------
(* Rules by request class. *)

ExperimentAndDatasetRules ==
   Govern({"CreateExperiment"}, <<Rule("create", Experiments)>>)
   @@ Govern({"GetExperiment"},
          <<Named("get", Experiments, <<"experiment_id_to_name">>)>>)
   @@ Govern({"GetExperimentByName"},
          <<Named("get", Experiments, <<"experiment_name">>)>>)
   @@ Govern({"DeleteExperiment"},
          <<Named("delete", Experiments, <<"experiment_id_to_name">>)>>)
   @@ Govern({"RestoreExperiment", "SetExperimentTag", "DeleteExperimentTag"},
          <<Named("update", Experiments, <<"experiment_id_to_name">>)>>)
   @@ Govern({"UpdateExperiment"},
          <<Named("update", Experiments, <<"experiment_id_to_name", "new_experiment_name">>)>>)
   @@ Govern({"SearchExperiments"},
          <<Filtered("list", Experiments, "request_search_experiments")>>)
   @@ Govern({"AddDatasetToExperiments", "RemoveDatasetFromExperiments"},
          <<Named("update", Datasets, <<"dataset_id_to_name">>),
             Named("update", Experiments, <<"experiment_ids_to_names">>)>>)
   @@ Govern({"CreateDataset"}, <<Rule("create", Datasets)>>)
   @@ Govern({"DeleteDataset"},
          <<Named("delete", Datasets, <<"dataset_id_to_name">>)>>)
   @@ Govern({"DeleteDatasetRecords", "DeleteDatasetTag", "SetDatasetTags",
           "UpsertDatasetRecords"},
          <<Named("update", Datasets, <<"dataset_id_to_name">>)>>)

RunAndTraceUpdateRules ==
   Govern({"CreateAssessment", "UpdateAssessment", "LinkPromptsToTrace",
           "DeleteTraceTagV3", "SetTraceTagV3"},
          <<Named("update", Experiments, <<"trace_id_to_experiment_name">>)>>)
   @@ Govern({"CreateLoggedModel", "RegisterScorer",
           "DeleteScorer", "DeleteTraces", "DeleteTracesV3",
           "StartTrace"},
          <<Named("update", Experiments, <<"experiment_id_to_name">>)>>)
   @@ Govern({"DeleteRun", "RestoreRun", "UpdateRun", "LogMetric", "LogBatch",
           "LogModel", "SetTag", "DeleteTag", "LogParam",
           "LinkTracesToRun", "LogInputs", "LogOutputs"},
          <<Named("update", Experiments, <<"run_id_to_experiment_name">>)>>)
   @@ Govern({"DeleteLoggedModel", "FinalizeLoggedModel",
           "DeleteLoggedModelTag", "SetLoggedModelTags",
           "LogLoggedModelParamsRequest"},
          <<Named("update", Experiments, <<"model_id_to_experiment_name">>)>>)
   @@ Govern({"EndTrace", "DeleteTraceTag", "SetTraceTag"},
          <<Named("update", Experiments, <<"trace_request_id_to_experiment_name">>)>>)
   @@ Govern({"StartTraceV3"},
          <<Named("update", Experiments, <<"trace_v3_experiment_id_to_name">>)>>)
   @@ Govern({"CompleteMultipartUpload", "CreateMultipartUpload",
           "AbortMultipartUpload", "DeleteArtifact",
           "UploadArtifact"},
          <<Named("update", Experiments, <<"artifact_experiment_id_to_name">>)>>)
   @@ Govern({"CreateRun"},
          <<[Named("update", Experiments, <<"experiment_id_to_name">>)
                EXCEPT !.override = TRUE]>>)

ReadAndCollectionRules ==
   Govern({"GetAssessmentRequest", "GetTraceInfoV3"},
          <<Named("get", Experiments, <<"trace_id_to_experiment_name">>)>>)
   @@ Govern({"GetRun", "GetMetricHistory", "ListArtifacts"},
          <<Named("get", Experiments, <<"run_id_to_experiment_name">>)>>)
   @@ Govern({"GetLoggedModel", "ListLoggedModelArtifacts"},
          <<Named("get", Experiments, <<"model_id_to_experiment_name">>)>>)
   @@ Govern({"ListScorers"},
          <<Filtered("get", Experiments, "request_list_scorers")>>)
   @@ Govern({"GetScorer", "ListScorerVersions"},
          <<Named("get", Experiments, <<"experiment_id_to_name">>)>>)
   @@ Govern({"GetTraceInfo"},
          <<Named("get", Experiments, <<"trace_request_id_to_experiment_name">>)>>)
   @@ Govern({"DownloadArtifact", "ListArtifactsMlflowArtifacts"},
          <<Named("get", Experiments, <<"artifact_experiment_id_to_name">>)>>)
   @@ Govern({"GetDataset"},
          <<Named("get", Datasets, <<"dataset_id_to_name">>)>>)
   @@ Govern({"GetDatasetExperimentIds", "GetDatasetRecords"},
          <<Named("list", Datasets, <<"dataset_id_to_name">>)>>)
   @@ Govern({"SearchDatasets"},
          <<Filtered("list", Datasets, "request_experiment_ids")>>)
   @@ Govern({"SearchEvaluationDatasets"},
          <<Filtered("list", Datasets, "request_search_datasets")>>)
   @@ Govern({"SearchLoggedModels", "CalculateTraceFilterCorrelation",
           "QueryTraceMetrics", "SearchRuns"},
          <<Filtered("list", Experiments, "request_experiment_ids")>>)
   @@ Govern({"BatchGetTraces"},
          <<Filtered("list", Experiments, "request_batch_get_traces")>>)
   @@ Govern({"SearchTraces"},
          <<Filtered("list", Experiments, "request_authorized_experiment_ids")>>)
   @@ Govern({"SearchTracesV3"},
          <<Filtered("list", Experiments, "request_trace_locations")>>)
   @@ Govern({"GetMetricHistoryBulkInterval"},
          <<Filtered("list", Experiments, "request_run_ids")>>)

ModelRegistryRules ==
   Govern({"CreateRegisteredModel"}, <<Rule("create", Models)>>)
   @@ Govern({"GetRegisteredModel", "GetModelVersion",
           "GetModelVersionDownloadUri", "GetModelVersionByAlias"},
          <<Named("get", Models, <<"registered_model_name">>)>>)
   @@ Govern({"DeleteRegisteredModel"},
          <<Named("delete", Models, <<"registered_model_name">>)>>)
   @@ Govern({"UpdateRegisteredModel", "CreateModelVersion",
           "DeleteModelVersion", "UpdateModelVersion",
           "TransitionModelVersionStage", "SetRegisteredModelTag",
           "DeleteRegisteredModelTag", "SetModelVersionTag",
           "DeleteModelVersionTag", "SetRegisteredModelAlias",
           "DeleteRegisteredModelAlias", "CreateWebhook"},
          <<Named("update", Models, <<"registered_model_name">>)>>)
   @@ Govern({"RenameRegisteredModel"},
          <<Named("update", Models, <<"registered_model_name", "new_registered_model_name">>)>>)
   @@ Govern({"SearchRegisteredModels"},
          <<Filtered("list", Models, "request_search_registered_models")>>)
   @@ Govern({"DeleteWebhook", "TestWebhook", "UpdateWebhook"},
          <<Named("update", Models, <<"webhook_id_to_registered_model_name">>)>>)
   @@ Govern({"GetWebhook"},
          <<Named("get", Models, <<"webhook_id_to_registered_model_name">>)>>)
   @@ Govern({"GetLatestVersions"},
          <<Named("list", Models, <<"registered_model_name">>)>>)
   @@ Govern({"ListWebhooks"}, <<Filtered("list", Models, "broad_only")>>)

GatewayRules ==
   Govern({"CreateGatewaySecret"}, <<Rule("create", Secrets)>>)
   @@ Govern({"GetGatewaySecretInfo"},
          <<Named("get", Secrets, <<"gateway_secret_id_to_name">>)>>)
   @@ Govern({"UpdateGatewaySecret"},
          <<Named("update", Secrets, <<"gateway_secret_id_to_name">>)>>)
   @@ Govern({"DeleteGatewaySecret"},
          <<Named("delete", Secrets, <<"gateway_secret_id_to_name">>)>>)
   @@ Govern({"ListGatewaySecretInfos"},
          <<Filtered("list", Secrets, "broad_only")>>)
   @@ Govern({"CreateGatewayEndpoint"}, <<Rule("create", Endpoints)>>)
   @@ Govern({"GetGatewayEndpoint"},
          <<Named("get", Endpoints, <<"gateway_endpoint_selector_to_name">>)>>)
   @@ Govern({"UpdateGatewayEndpoint", "AttachModelToGatewayEndpoint",
           "DetachModelFromGatewayEndpoint",
           "CreateGatewayEndpointBinding",
           "DeleteGatewayEndpointBinding",
           "SetGatewayEndpointTag", "DeleteGatewayEndpointTag"},
          <<Named("update", Endpoints, <<"gateway_endpoint_id_to_name">>)>>)
   @@ Govern({"DeleteGatewayEndpoint"},
          <<Named("delete", Endpoints, <<"gateway_endpoint_id_to_name">>)>>)
   @@ Govern({"ListGatewayEndpoints"},
          <<Filtered("list", Endpoints, "broad_only")>>)
   @@ Govern({"CreateGatewayModelDefinition"},
          <<Rule("create", Definitions)>>)
   @@ Govern({"GetGatewayModelDefinition"},
          <<Named("get", Definitions, <<"gateway_model_definition_id_to_name">>)>>)
   @@ Govern({"UpdateGatewayModelDefinition"},
          <<Named("update", Definitions, <<"gateway_model_definition_id_to_name">>)>>)
   @@ Govern({"DeleteGatewayModelDefinition"},
          <<Named("delete", Definitions, <<"gateway_model_definition_id_to_name">>)>>)
   @@ Govern({"ListGatewayModelDefinitions"},
          <<Filtered("list", Definitions, "broad_only")>>)
   @@ Govern({"ListGatewayEndpointBindings"},
          <<Named("list", Endpoints, <<"gateway_endpoint_id_to_name">>)>>)
   @@ Govern({"CreatePromptOptimizationJob"},
          <<Named("update", Experiments, <<"experiment_id_to_name">>)>>)
   @@ Govern({"GetPromptOptimizationJob"},
          <<Named("get", Experiments, <<"job_id_to_experiment_name">>)>>)
   @@ Govern({"SearchPromptOptimizationJobs"},
          <<Filtered("list", Experiments, "request_experiment_id")>>)
   @@ Govern({"CancelPromptOptimizationJob", "DeletePromptOptimizationJob"},
          <<Named("update", Experiments, <<"job_id_to_experiment_name">>)>>)

WorkspaceAndReviewRules ==
   Govern({"ListWorkspaces"},
          <<[WorkspacesRule EXCEPT !.filter = TRUE]>>)
   @@ Govern({"GetWorkspace"}, <<[WorkspacesRule EXCEPT !.access = TRUE]>>)
   @@ Govern({"CreateWorkspace"},
          <<[WorkspacesRule EXCEPT !.verb = "create", !.deny = TRUE,
                                   !.message = TRUE]>>)
   @@ Govern({"UpdateWorkspace"},
          <<[WorkspacesRule EXCEPT !.verb = "update", !.deny = TRUE,
                                   !.message = TRUE]>>)
   @@ Govern({"DeleteWorkspace"},
          <<[WorkspacesRule EXCEPT !.verb = "delete", !.deny = TRUE,
                                   !.message = TRUE]>>)
   @@ Govern({"BatchGetTraceInfos"},
          <<Filtered("list", Experiments, "request_batch_get_trace_infos")>>)
   @@ Govern({"GetPresignedDownloadUrl"},
          <<Named("get", Experiments, <<"artifact_experiment_id_to_name">>)>>)
   @@ Govern({"CreateIssue", "CreateLabelSchema", "CreateReviewQueue",
           "GetOrCreateUserQueue"},
          <<Named("update", Experiments, <<"experiment_id_to_name">>)>>)
   @@ Govern({"GetIssue"},
          <<Named("get", Experiments, <<"issue_id_to_experiment_name">>)>>)
   @@ Govern({"UpdateIssue"},
          <<Named("update", Experiments, <<"issue_id_to_experiment_name">>)>>)
   @@ Govern({"SearchIssues"},
          <<Filtered("list", Experiments, "request_experiment_id")>>)
   @@ Govern({"CreateGatewayBudgetPolicy"}, <<Rule("create", Budgets)>>)
   @@ Govern({"GetGatewayBudgetPolicy"}, <<Rule("get", Budgets)>>)
   @@ Govern({"UpdateGatewayBudgetPolicy"}, <<Rule("update", Budgets)>>)
   @@ Govern({"DeleteGatewayBudgetPolicy"}, <<Rule("delete", Budgets)>>)
   @@ Govern({"ListGatewayBudgetPolicies"},
          <<Filtered("list", Budgets, "broad_only")>>)
   @@ Govern({"ListGatewayBudgetWindows"}, <<Denied("list", Budgets)>>)
   @@ Govern({"CreatePresignedUploadUrl"},
          <<Named("update", Experiments, <<"run_id_to_experiment_name">>)>>)
   @@ Govern({"CreateGatewayGuardrail"}, CreateGuardrailRules)
   @@ Govern({"GetGatewayGuardrail"}, <<Rule("get", Guardrails)>>)
   @@ Govern({"DeleteGatewayGuardrail"}, <<Rule("delete", Guardrails)>>)
   @@ Govern({"ListGatewayGuardrails"}, <<Rule("list", Guardrails)>>)
   @@ Govern({"AddGuardrailToEndpoint", "RemoveGuardrailFromEndpoint",
           "UpdateEndpointGuardrailConfig"},
          UpdateEndpointGuardrailRules)
   @@ Govern({"ListEndpointGuardrailConfigs"}, ListEndpointGuardrailRules)
   @@ Govern({"GetLabelSchema", "GetReviewQueue", "ListReviewQueueItems"},
          <<Rule("get", Experiments)>>)
   @@ Govern({"GetLabelSchemaByName", "ListLabelSchemas",
           "GetReviewQueueByName", "ListReviewQueues"},
          <<Named("get", Experiments, <<"experiment_id_to_name">>)>>)
   @@ Govern({"UpdateLabelSchema", "DeleteLabelSchema", "UpdateReviewQueue",
           "DeleteReviewQueue", "AddItemsToReviewQueue",
           "RemoveItemsFromReviewQueue",
           "SetReviewQueueItemStatus"},
          <<Rule("update", Experiments)>>)
   @@ Govern({"CreatePresignedDownloadUrl"},
          <<Named("get", Experiments, <<"run_id_to_experiment_name">>)>>)

BaseRequestRules ==
   ExperimentAndDatasetRules @@ RunAndTraceUpdateRules
   @@ ReadAndCollectionRules @@ ModelRegistryRules @@ GatewayRules
   @@ WorkspaceAndReviewRules

-----------------------------------------------------------------------------
(* Rules by path and method, in the order in which they are compiled. *)

Ajax2 == <<"ajax-api", "2.0">>
Api2 == <<"api", "2.0">>
Ajax3 == <<"ajax-api", "3.0", "mlflow">>
Api3 == <<"api", "3.0", "mlflow">>
Jobs == <<"ajax-api", "3.0", "jobs">>
Gateway == <<"gateway">>

ProxyAndTraceRoutes ==
   On("GET", <<Rule(None, None)>>, <<<<"version">>, <<"server-info">>>>)
   \o On("GET", <<Filtered("list", Models, "request_search_model_versions")>>,
        <<Api2 \o <<"mlflow", "model-versions", "search">>,
          Ajax2 \o <<"mlflow", "model-versions", "search">>>>)
   \o On("GET", <<Rule("get", Experiments)>>, <<<<"graphql">>>>)
   \o On("POST", <<Rule("get", Experiments)>>, <<<<"graphql">>>>)
   \o On("GET", <<Use(Endpoints, <<>>)>>,
        <<Api2 \o <<"mlflow", "gateway-proxy">>>>)
   \o On("POST", ProxyRules, <<Api2 \o <<"mlflow", "gateway-proxy">>>>)
   \o On("GET", <<Use(Endpoints, <<>>)>>,
        <<Ajax2 \o <<"mlflow", "gateway-proxy">>>>)
   \o On("POST", ProxyRules,
        <<Ajax2 \o <<"mlflow", "gateway-proxy">>,
          Gateway \o <<"<endpoint_name>", "mlflow", "invocations">>,
          Gateway \o <<"mlflow", "v1", "chat", "completions">>,
          Gateway \o <<"openai", "v1", "chat", "completions">>,
          Gateway \o <<"openai", "v1", "embeddings">>,
          Gateway \o <<"openai", "v1", "responses">>,
          Gateway \o <<"anthropic", "v1", "messages">>,
          Gateway \o <<"gemini", "v1beta", "models", "<endpoint_name>:generateContent">>,
          Gateway \o <<"gemini", "v1beta", "models", "<endpoint_name>:streamGenerateContent">>>>)
   \o On("GET", <<Named("get", Experiments, <<"run_id_to_experiment_name">>)>>,
        <<<<"get-artifact">>>>)
   \o On("GET", <<Named("get", Models, <<"registered_model_name">>)>>,
        <<<<"model-versions", "get-artifact">>>>)
   \o On("POST", <<Named("update", Experiments, <<"run_id_to_experiment_name">>)>>,
        <<Ajax2 \o <<"mlflow", "upload-artifact">>>>)
   \o On("GET", <<Named("get", Experiments, <<"trace_request_id_to_experiment_name">>)>>,
        <<Ajax2 \o <<"mlflow", "get-trace-artifact">>,
          Ajax3 \o <<"get-trace-artifact">>>>)
   \o On("GET", <<Filtered("list", Experiments, "request_run_ids")>>,
        <<Ajax2 \o <<"mlflow", "metrics", "get-history-bulk">>,
          Ajax2 \o <<"mlflow", "metrics", "get-history-bulk-interval">>>>)
   \o On("POST", <<Named("update", Experiments, <<"experiment_id_to_name">>)>>,
        <<Ajax2 \o <<"mlflow", "runs", "create-promptlab-run">>>>)
   \o On("GET", <<Named("get", Experiments, <<"model_id_to_experiment_name">>)>>,
        <<Ajax2 \o <<"mlflow", "logged-models", "<model_id>", "artifacts", "files">>>>)
   \o On("POST", <<Filtered("list", Datasets, "request_experiment_ids")>>,
        <<Api2 \o <<"mlflow", "experiments", "search-datasets">>,
          Ajax2 \o <<"mlflow", "experiments", "search-datasets">>>>)
   \o On("DELETE", <<Named("update", Experiments, <<"trace_id_to_experiment_name">>)>>,
        <<Api3 \o <<"traces", "<trace_id>", "assessments", "<assessment_id>">>,
          Ajax3 \o <<"traces", "<trace_id>", "assessments", "<assessment_id>">>>>)
   \o On("GET", <<Named("get", Experiments, <<"trace_id_to_experiment_name">>)>>,
        <<Api3 \o <<"traces", "get">>,
          Ajax3 \o <<"traces", "get">>>>)
   \o On("POST", <<Named("update", Experiments, <<"otel_experiment_id_header_to_name">>)>>,
        <<<<"v1", "traces">>>>)

JobAndAssistantRoutes ==
   On("POST", <<Rule("update", Experiments)>>, <<Jobs, Jobs \o <<"">>>>)
   \o On("GET", <<Rule("get", Experiments)>>,
        <<Jobs \o <<"<job_id>">>,
          Jobs \o <<"<job_id>", "">>>>)
   \o On("PATCH", <<Rule("update", Experiments)>>,
        <<Jobs \o <<"cancel", "<job_id>">>,
          Jobs \o <<"cancel", "<job_id>", "">>>>)
   \o On("POST", <<Filtered("list", Experiments, "request_experiment_id")>>,
        <<Jobs \o <<"search">>,
          Jobs \o <<"search", "">>>>)
   \o On("GET", <<Rule("get", Experiments)>>,
        <<Ajax3 \o <<"jobs", "<job_id>">>,
          Ajax3 \o <<"jobs", "<job_id>", "">>>>)
   \o On("PATCH", <<Rule("update", Experiments)>>,
        <<Ajax3 \o <<"jobs", "cancel", "<job_id>">>,
          Ajax3 \o <<"jobs", "cancel", "<job_id>", "">>>>)
   \o On("POST", <<Rule("create", Assistants)>>,
        <<Ajax3 \o <<"assistant", "message">>>>)
   \o On("GET", <<Rule("get", Assistants)>>,
        <<Ajax3 \o <<"assistant", "sessions", "<session_id>", "stream">>,
          Ajax3 \o <<"assistant", "status">>>>)
   \o On("PATCH", <<Rule("update", Assistants)>>,
        <<Ajax3 \o <<"assistant", "sessions", "<session_id>">>>>)
   \o On("GET", <<Rule("get", Assistants)>>,
        <<Ajax3 \o <<"assistant", "providers", "<provider>", "health">>,
          Ajax3 \o <<"assistant", "config">>>>)
   \o On("PUT", <<Rule("update", Assistants)>>,
        <<Ajax3 \o <<"assistant", "config">>>>)
   \o On("POST", <<Rule("update", Assistants)>>,
        <<Ajax3 \o <<"assistant", "skills", "install">>>>)
   \o On("GET", <<Filtered("list", Definitions, "broad_only")>>,
        <<Ajax3 \o <<"gateway", "supported-providers">>,
          Ajax3 \o <<"gateway", "supported-models">>>>)
   \o On("GET", <<Rule("get", Definitions)>>,
        <<Ajax3 \o <<"gateway", "provider-config">>>>)
   \o On("GET", <<Rule("get", Secrets)>>,
        <<Ajax3 \o <<"gateway", "secrets", "config">>>>)
   \o On("GET", <<Named("get", Experiments, <<"experiment_id_to_name">>)>>,
        <<Ajax3 \o <<"scorers", "online-configs">>,
          Api3 \o <<"scorers", "online-configs">>>>)
   \o On("PUT", <<Named("update", Experiments, <<"experiment_id_to_name">>)>>,
        <<Ajax3 \o <<"scorers", "online-config">>,
          Api3 \o <<"scorers", "online-config">>>>)
   \o On("POST", <<Named("update", Experiments, <<"experiment_id_to_name">>)>>,
        <<Ajax3 \o <<"scorer", "invoke">>>>)
   \o On("POST", <<Rule("create", Experiments), Rule("create", Datasets), Rule("create", Models)>>,
        <<Ajax3 \o <<"demo", "generate">>>>)
   \o On("POST", <<Rule("delete", Experiments), Rule("delete", Datasets), Rule("delete", Models)>>,
        <<Ajax3 \o <<"demo", "delete">>>>)
   \o On("POST", IssueInvokeRules,
        <<Ajax3 \o <<"issues", "invoke">>,
          Ajax3 \o <<"issues", "invoke", "">>>>)
   \o On("GET", <<Rule("get", Assistants)>>,
        <<Ajax3 \o <<"assistant", "providers", "<provider>", "models">>>>)
   \o On("POST", ProxyRules,
        <<Gateway \o <<"proxy", "<endpoint_name>", "<path:path>">>>>)
   \o On("POST", <<Named("update", Experiments, <<"experiment_id_to_name">>)>>,
        <<Ajax3 \o <<"genai", "evaluate", "invoke">>>>)
   \o On("POST", ProxyRules,
        <<Gateway \o <<"openai", "v1", "responses", "compact">>>>)
   \o On("POST", <<Rule("update", Assistants)>>,
        <<Ajax3 \o <<"assistant", "sessions", "<session_id>", "permission">>>>)
   \o On("GET", <<Rule("get", Assistants)>>,
        <<Ajax3 \o <<"assistant", "providers">>>>)
   \o On("GET", <<Named("get", Experiments, <<"artifact_experiment_id_to_name">>)>>,
        <<Api2 \o <<"mlflow-artifacts", "artifacts", "<path:artifact_path>">>,
          Ajax2 \o <<"mlflow-artifacts", "artifacts", "<path:artifact_path>">>>>)
   \o On("PUT", <<Named("update", Experiments, <<"artifact_experiment_id_to_name">>)>>,
        <<Api2 \o <<"mlflow-artifacts", "artifacts", "<path:artifact_path>">>,
          Ajax2 \o <<"mlflow-artifacts", "artifacts", "<path:artifact_path>">>>>)

McpGet == <<Named("get", McpServers, <<"mcp_server_name">>)>>
McpUpdate == <<Named("update", McpServers, <<"mcp_server_name">>)>>

(* The registry of MCP servers and what belongs to one, below an API root. *)
McpNestedRoutes(root) ==
   LET base == root \o <<"mcp-servers">>
       server == base \o <<"<path:name>">>
       version == server \o <<"versions", "<path:version>">>
       endpoint == server \o <<"endpoints", "<endpoint_id>">>
       alias == server \o <<"aliases", "<path:alias>">>
       below(name) == <<server \o <<name>>>>
   IN On("POST", <<Rule("create", McpServers)>>, <<base>>)
      \o On("GET", <<Filtered("list", McpServers, "request_search_mcp_servers")>>,
            <<base>>)
      \o On("GET",
            <<Filtered("list", McpServers, "request_search_mcp_access_endpoints")>>,
            <<base \o <<"endpoints">>>>)
      \o On("POST", McpUpdate, below("versions"))
      \o On("GET", McpGet, below("versions") \o <<version>>)
      \o On("PATCH", McpUpdate, <<version>>)
      \o On("DELETE", McpUpdate, <<version>>)
      \o On("POST", McpUpdate, <<version \o <<"tags">>>>)
      \o On("DELETE", McpUpdate, <<version \o <<"tags", "<path:key>">>>>)
      \o On("POST", McpUpdate, below("endpoints"))
      \o On("GET", McpGet, below("endpoints") \o <<endpoint>>)
      \o On("PATCH", McpUpdate, <<endpoint>>)
      \o On("DELETE", McpUpdate, <<endpoint>>)
      \o On("POST", McpUpdate, below("tags"))
      \o On("DELETE", McpUpdate, <<server \o <<"tags", "<path:key>">>>>)
      \o On("POST", McpUpdate, below("aliases"))
      \o On("GET", McpGet, <<alias>>)
      \o On("DELETE", McpUpdate, <<alias>>)

McpServerItself(root) ==
   LET server == <<root \o <<"mcp-servers", "<path:name>">>>>
   IN On("GET", McpGet, server)
      \o On("PATCH", McpUpdate, server)
      \o On("DELETE", <<Named("delete", McpServers, <<"mcp_server_name">>)>>,
            server)

(* The server itself comes last: its name matches everything below it too. *)
McpRoutes(root) == McpNestedRoutes(root) \o McpServerItself(root)

McpAjaxRoutes == McpRoutes(Ajax3)

McpApiRoutes == McpRoutes(Api3)

ToolAndModelListRoutes ==
   On("POST", <<Rule("update", Assistants)>>,
        <<Ajax3 \o <<"assistant", "sessions", "<session_id>", "tool-result">>>>)
   \o On("GET", <<Filtered("list", Endpoints, "broad_only")>>,
        <<Gateway \o <<"mlflow", "v1", "models">>>>)
   \o On("POST", ProxyRules, <<Gateway \o <<"typesafe", "v1", "systemone">>>>)

BasePathRules ==
   ProxyAndTraceRoutes \o JobAndAssistantRoutes \o McpAjaxRoutes
   \o McpApiRoutes \o ToolAndModelListRoutes

-----------------------------------------------------------------------------
(* The skill registry adds its routes and marks the artifact routes, whose *)
(* paths may lead to skill content.                                        *)

SkillRule(verb) == <<Named(verb, Skills, <<"skill_name">>)>>

(* A skill is addressed by its name, or by organization and name. *)
OneSkillRoutes(skill) ==
   LET versions == skill \o <<"versions">>
       version == versions \o <<"<version>">>
       aliases == skill \o <<"aliases">>
       get == SkillRule("get")
       update == SkillRule("update")
   IN On("POST", update, <<versions>>)
      \o On("GET", get, <<versions, version>>)
      \o On("PATCH", update, <<version>>)
      \o On("DELETE", update, <<version>>)
      \o On("POST", update, <<version \o <<"tags">>>>)
      \o On("DELETE", update, <<version \o <<"tags", "<path:key>">>>>)
      \o On("POST", update, <<aliases>>)
      \o On("GET", get, <<aliases \o <<"<alias>">>>>)
      \o On("DELETE", update, <<aliases \o <<"<alias>">>>>)
      \o On("POST", update, <<skill \o <<"tags">>>>)
      \o On("DELETE", update, <<skill \o <<"tags", "<path:key>">>>>)
      \o On("GET", get, <<skill>>)
      \o On("PATCH", update, <<skill>>)
      \o On("DELETE", SkillRule("delete"), <<skill>>)

SkillRoutes(root) ==
   LET base == root \o <<"skills">>
   IN On("POST", <<Rule("create", Skills)>>, <<base>>)
      \o On("GET", <<Rule("list", Skills)>>, <<base>>)
      \o On("POST", <<Rule("update", Skills)>>,
            <<base \o <<"bulk-register">>>>)
      \o OneSkillRoutes(base \o <<"@<organization>", "<name>">>)
      \o OneSkillRoutes(base \o <<"<name>">>)

SkillApiRoutes == SkillRoutes(Api3)

SkillAjaxRoutes == SkillRoutes(Ajax3)

SkillArtifactClasses ==
   {"DownloadArtifact", "ListArtifactsMlflowArtifacts",
    "GetPresignedDownloadUrl", "UploadArtifact", "DeleteArtifact",
    "CreateMultipartUpload", "CompleteMultipartUpload",
    "AbortMultipartUpload"}

CheckSkills(rules) ==
   [i \in DOMAIN rules |-> [rules[i] EXCEPT !.skill = TRUE]]

RequestRules ==
   [c \in DOMAIN BaseRequestRules |->
      IF c \in SkillArtifactClasses THEN CheckSkills(BaseRequestRules[c])
                                    ELSE BaseRequestRules[c]]

IsArtifactRoute(entry) ==
   /\ entry.path \in {Api2 \o <<"mlflow-artifacts", "artifacts",
                                "<path:artifact_path>">>,
                      Ajax2 \o <<"mlflow-artifacts", "artifacts",
                                 "<path:artifact_path>">>}
   /\ entry.method \in {"GET", "PUT"}

PathRules ==
   LET marked == [i \in DOMAIN BasePathRules |->
                    IF IsArtifactRoute(BasePathRules[i])
                       THEN [BasePathRules[i] EXCEPT !.rules = CheckSkills(@)]
                       ELSE BasePathRules[i]]
   IN marked \o SkillApiRoutes \o SkillAjaxRoutes

(* The paths that need no rules, and what the first segment of others      *)
(* begins with.                                                            *)
UnprotectedPaths ==
   {<<>>, <<"health">>, <<"version">>, <<"server-info">>, <<"metrics">>,
    Api3 \o <<"server-info">>, Ajax3 \o <<"server-info">>,
    Ajax3 \o <<"ui-telemetry">>}

UnprotectedPrefixes == {"static", "favicon.ico", "health", "build"}
=============================================================================
