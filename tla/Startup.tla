------------------------------- MODULE Startup -------------------------------
(***************************************************************************)
(* create_app (auth/middleware.py:370-395): the process compiles its rule  *)
(* tables, holds the routes of Flask and FastAPI against them, then the    *)
(* root fields of MLflow's GraphQL schema, and only if nothing is missing  *)
(* it serves.  RuleCompiler is the first part, GraphqlRules the second; a  *)
(* request is then either looked up in the tables or a query to be walked, *)
(* and neither touches what the other uses.                                *)
(***************************************************************************)
EXTENDS RuleCompiler, GraphqlRules

allVars == <<vars, tables>>

CreateApp == Init /\ CompilerInit

(* An exception of either validation of routes leaves create_app before the*)
(* GraphQL fields are looked at.                                           *)
ValidateGraphql ==
   /\ compiling = "serving"
   /\ ValidateFields
   /\ UNCHANGED tables

RestRequest ==
   /\ phase = "serving"
   /\ Request
   /\ UNCHANGED vars

(* One request per behaviour is enough, as no request changes the tables.  *)
GraphqlRequest ==
   /\ phase = "serving" /\ lookup = <<>>
   /\ \E document \in Documents : Receive(document)
   /\ UNCHANGED tables

Step ==
   \/ CompileProtobuf /\ UNCHANGED vars
   \/ CompileFlask /\ UNCHANGED vars
   \/ CompileExplicit /\ UNCHANGED vars
   \/ Publish /\ UNCHANGED vars
   \/ ValidateFastApi /\ UNCHANGED vars
   \/ ValidateGraphql
   \/ RestRequest
   \/ GraphqlRequest
   \/ Walk /\ UNCHANGED tables
   \/ Authorize /\ UNCHANGED tables
   \/ ResolveField /\ UNCHANGED tables

AppSpec == CreateApp /\ [][Step]_allVars /\ WF_vars(Walk)
=============================================================================
