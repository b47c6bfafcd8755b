------------------------- MODULE MCAuthorizeRequest -------------------------
(* AuthorizeRequest over the rules of all tables and the shapes of rules a *)
(* GraphQL query can have, with the hybrid one the tests build.            *)
EXTENDS AuthorizeRequest

MCNames == {"one", "other"}

Single == Named("get", Experiments, <<"graphql_run_id_to_experiment_name">>)
Search == Filtered("list", Experiments, GraphqlFilter)

MCOtherRules ==
   {<<Single>>, <<Rule("list", Experiments)>>,
    <<Single, Rule("get", Models), Search>>,
    <<[Named("get", Experiments, <<"experiment_id_to_name">>)
          EXCEPT !.policy = GraphqlFilter, !.fallback = TRUE]>>}
=============================================================================
