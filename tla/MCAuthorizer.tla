---------------------------- MODULE MCAuthorizer ----------------------------
(* Authorizer with two request threads, four questions on three keys and   *)
(* room for two answers.                                                   *)
EXTENDS Authorizer, TLC

CONSTANTS t1, t2, allowed, denied

MCThreads == {t1, t2}
MCValues == {allowed, denied}

Question(verb, name) == [verb |-> verb, subresource |-> None, name |-> name]
MCQuestions ==
    {Question("get", None), Question("get", "mine"),
     Question("create", None), Question("create", "mine")}
MCKeys == {Question("get", None), Question("get", "mine"), Question("create", None)}
MCVolatile == {Question("get", "mine")}

(* Nothing distinguishes the threads.                                      *)
Symmetry == Permutations(MCThreads)
=============================================================================
