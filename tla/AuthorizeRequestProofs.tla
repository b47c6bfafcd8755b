----------------------- MODULE AuthorizeRequestProofs -----------------------
(***************************************************************************)
(* What an admitted request was reviewed for, whatever the rules, names,   *)
(* bodies and answers are.  Of the tables only RulesAssumption is used,    *)
(* which TLC evaluates on all of them.                                     *)
(***************************************************************************)
EXTENDS AuthorizeRequest, TLAPS

Early == {"identify", "find", "classify", "scope"}
Reviewed == {"named", "filter", "decide", "uses"}
OnRule == {"rule"} \cup Reviewed

(* The rules are gone through one by one, from the first to the last.      *)
RulesInv ==
   /\ request.governed \in Governed
   /\ pc \in {"identify", "find"} => rules = request.governed[1]
   /\ rules \in Seq(AuthorizationRules)
   /\ \A k \in DOMAIN rules : rules[k].optional => ~UsesGateway(rules[k])
   /\ pc \in Early \cup OnRule \cup {"finish", "done"}
   /\ pc \in Early => i = 1 /\ narrowed = <<>> /\ budget = <<>>
   /\ pc \in {"classify", "scope", "finish"} \cup OnRule => rules # <<>>
   /\ i \in 1 .. (Len(rules) + 1)
   /\ pc \in OnRule => i # Len(rules) + 1
   /\ pc = "finish" => i = Len(rules) + 1
   /\ pc # "done" => result = None
   /\ result = "admitted" => rules # <<>> /\ i = Len(rules) + 1

(* A rule that has been passed stays satisfied.                            *)
Passed(k) ==
   /\ Covered(k)
   /\ Usable(k)
   /\ UsesGateway(rules[k]) => k \in DOMAIN used

(* A rule is only passed when it is satisfied.                             *)
CoverInv ==
   /\ \A k \in 1 .. (i - 1) : Passed(k)
   /\ pc \in Reviewed => ~rule.deny /\ rule.verb # None /\ (allowed => Covered(i))
   /\ pc = "uses" => allowed

(* A budget that is out of the workspace ends the request.                 *)
BudgetInv ==
   result \in {None, "admitted"} /\ budget # <<>> =>
      budget[1] \notin Global /\ budget[2] \notin Global

-----------------------------------------------------------------------------
(* The rules that can govern a request are those of RulesAssumption.       *)
LEMMA GovernedRules ==
   ASSUME NEW g \in Governed
   PROVE g[1] \in TableRules \cup OtherRules \cup {<<>>}
<1>1. CASE g \in UNION {{rs} \X MethodsOf(rs) :
                rs \in {RequestRules[c] : c \in DOMAIN RequestRules} \cup OtherRules}
  <2>1. PICK rs \in {RequestRules[c] : c \in DOMAIN RequestRules} \cup OtherRules :
           g \in {rs} \X MethodsOf(rs)
    BY <1>1
  <2>2. g[1] = rs
    BY <2>1
  <2>3. QED
    BY <2>2 DEF TableRules
<1>2. CASE g \in {<<PathRules[k].rules, PathRules[k].method>> : k \in
            {j \in DOMAIN PathRules :
               PathRules[j].path \notin UnprotectedPaths \cup {<<"graphql">>}}}
  BY <1>2 DEF TableRules
<1>3. CASE g \in {<<<<>>, "GET">>}
  BY <1>3
<1>4. QED
  BY <1>1, <1>2, <1>3 DEF Governed

LEMMA RulesAreSound ==
   ASSUME NEW rs \in TableRules \cup OtherRules \cup {<<>>, <<DenyRule>>, <<SkillArtifact>>}
   PROVE /\ rs \in Seq(AuthorizationRules)
         /\ \A k \in DOMAIN rs : rs[k].optional => ~UsesGateway(rs[k])
<1>1. rs \in Seq(AuthorizationRules)
  <2>1. {DenyRule, SkillArtifact} \subseteq AuthorizationRules
    BY DEF AuthorizationRules
  <2>2. CASE rs \in TableRules \cup OtherRules
    BY <2>2, RulesAssumption
  <2>3. CASE rs = <<>>
    BY <2>3
  <2>4. CASE rs = <<DenyRule>>
    BY <2>1, <2>4
  <2>5. CASE rs = <<SkillArtifact>>
    BY <2>1, <2>5
  <2>6. QED
    BY <2>2, <2>3, <2>4, <2>5
<1>2. \A k \in DOMAIN rs : rs[k] \in AuthorizationRules
  BY <1>1
<1>3. QED
  BY <1>1, <1>2, RulesAssumption

LEMMA InitRules == Init => RulesInv
<1> SUFFICES ASSUME Init PROVE RulesInv
  OBVIOUS
<1>1. request.governed \in Governed
  BY DEF Init, Requests
<1>2. QED
  BY <1>1, GovernedRules, RulesAreSound DEF Init, RulesInv, Early, OnRule, Reviewed,
     None

LEMMA InitCover == Init => CoverInv /\ BudgetInv /\ ScopedSearchesAreRead
BY DEF Init, CoverInv, BudgetInv, ScopedSearchesAreRead, Reviewed

-----------------------------------------------------------------------------
(* What has been granted, selected, used or narrowed stays so: a rule that *)
(* was passed stays passed.                                                *)
LEMMA StaysCovered ==
   ASSUME NEW k, Covered(k), rules' = rules, granted \subseteq granted',
          SelectedBy(k)' = SelectedBy(k),
          k \in DOMAIN narrowed => k \in DOMAIN narrowed'
   PROVE Covered(k)'
BY DEF Covered, Granted, Optionally, LeftToResolver, SelectedBy

LEMMA StaysPassed ==
   ASSUME NEW k, Passed(k), rules' = rules, granted \subseteq granted',
          SelectedBy(k)' = SelectedBy(k),
          k \in DOMAIN narrowed => k \in DOMAIN narrowed',
          k \in DOMAIN used => k \in DOMAIN used' /\ used'[k] = used[k]
   PROVE Passed(k)'
<1>1. Covered(k)'
  BY StaysCovered DEF Passed
<1>2. QED
  BY <1>1 DEF Passed, Usable, Granted

-----------------------------------------------------------------------------
LEMMA NextRules == RulesInv /\ [Next]_vars => RulesInv'
<1> SUFFICES ASSUME RulesInv, [Next]_vars PROVE RulesInv'
  OBVIOUS
<1> USE DEF RulesInv, Early, OnRule, Reviewed, None
<1>1. CASE Identify
  BY <1>1 DEF Identify, Refuse, decision
<1>2. CASE FindRules
  BY <1>2 DEF FindRules, Refuse, decision
<1>3. CASE ClassifyArtifact
  <2>1. rules' \in {rules, <<DenyRule>>, <<SkillArtifact>>}
    BY <1>3 DEF ClassifyArtifact
  <2>2. /\ rules' \in Seq(AuthorizationRules)
        /\ \A k \in DOMAIN rules' : rules'[k].optional => ~UsesGateway(rules'[k])
    BY <2>1, RulesAreSound
  <2>3. rules' # <<>>
    <3>1. <<DenyRule>> # <<>> /\ <<SkillArtifact>> # <<>>
      OBVIOUS
    <3>2. QED
      BY <1>3, <2>1, <3>1 DEF ClassifyArtifact
  <2>4. 1 \in 1 .. (Len(rules') + 1)
    BY <2>2
  <2>5. QED
    BY <1>3, <2>2, <2>3, <2>4 DEF ClassifyArtifact, decision
<1>4. CASE ScopeWorkspace
  BY <1>4 DEF ScopeWorkspace, Refuse, decision
<1>5. CASE RefuseRule
  BY <1>5 DEF RefuseRule, Refuse, decision
<1>6. CASE DecideWorkspaceRule
  BY <1>6 DEF DecideWorkspaceRule, Refuse, NextRule, StayOnRule
<1>7. CASE CheckBudgetScope
  BY <1>7 DEF CheckBudgetScope, Refuse
<1>8. CASE ReviewBroad
  BY <1>8 DEF ReviewBroad, Refuse
<1>9. CASE NormalizeScorers
  BY <1>9 DEF NormalizeScorers, Refuse, decision
<1>10. CASE ReviewNames
  BY <1>10 DEF ReviewNames, NextRule
<1>11. CASE PassNames
  BY <1>11 DEF PassNames
<1>12. CASE Narrow
  BY <1>12 DEF Narrow
<1>13. CASE PassFilter
  BY <1>13 DEF PassFilter, decision
<1>14. CASE DecideRule
  BY <1>14 DEF DecideRule, Refuse, NextRule, StayOnRule
<1>15. CASE ReviewUses
  BY <1>15 DEF ReviewUses, Refuse, NextRule, StayOnRule
<1>16. CASE Finish
  BY <1>16 DEF Finish, decision
<1>17. CASE UNCHANGED vars
  BY <1>17 DEF vars
<1>18. QED
  BY <1>1, <1>2, <1>3, <1>4, <1>5, <1>6, <1>7, <1>8, <1>9, <1>10, <1>11,
     <1>12, <1>13, <1>14, <1>15, <1>16, <1>17 DEF Next, Done

-----------------------------------------------------------------------------
LEMMA NextCover == RulesInv /\ CoverInv /\ [Next]_vars => CoverInv'
<1> SUFFICES ASSUME RulesInv, CoverInv, [Next]_vars PROVE CoverInv'
  OBVIOUS
<1> USE DEF Reviewed, rule
<1>n. i \in Nat \ {0}
  BY DEF RulesInv
(* What is found out about this rule keeps those before it.                *)
<1>k. ASSUME rules' = rules, granted \subseteq granted',
             \A k \in 1 .. (i - 1) :
                /\ SelectedBy(k)' = SelectedBy(k)
                /\ k \in DOMAIN narrowed => k \in DOMAIN narrowed'
                /\ k \in DOMAIN used => k \in DOMAIN used' /\ used'[k] = used[k]
      PROVE \A k \in 1 .. (i - 1) : Passed(k)'
  <2>1. TAKE k \in 1 .. (i - 1)
  <2>2. QED
    BY <1>k, StaysPassed DEF CoverInv
(* An action that stays on the rule keeps it.                              *)
<1>a. ASSUME i' = i, rules' = rules, UNCHANGED <<selected, used, narrowed>>,
             granted \subseteq granted'
      PROVE /\ \A k \in 1 .. (i' - 1) : Passed(k)'
            /\ Covered(i) => Covered(i)'
  <2>1. \A k \in 1 .. i : SelectedBy(k)' = SelectedBy(k)
    BY <1>a DEF SelectedBy
  <2>2. \A k \in 1 .. (i' - 1) : Passed(k)'
    BY <1>a, <2>1, <1>n, <1>k
  <2>3. Covered(i) => Covered(i)'
    BY <1>a, <2>1, <1>n, StaysCovered
  <2>4. QED
    BY <2>2, <2>3
(* An action that goes on to the next rule has passed this one.            *)
<1>b. ASSUME NextRule, \A k \in 1 .. (i - 1) : Passed(k)', \A k \in {i} : Passed(k)'
      PROVE CoverInv'
  BY <1>b, <1>n DEF NextRule, CoverInv
<1>1. CASE Identify \/ FindRules \/ ClassifyArtifact \/ ScopeWorkspace
  <2>1. pc' \notin Reviewed /\ i' = 1
    BY <1>1 DEF Identify, FindRules, ClassifyArtifact, ScopeWorkspace, Refuse,
       decision, RulesInv, Early
  <2>2. QED
    BY <2>1 DEF CoverInv
<1>2. CASE RefuseRule
  BY <1>2, <1>a DEF RefuseRule, Refuse, decision, CoverInv
<1>3. CASE DecideWorkspaceRule
  <2>1. CASE Refuse("denied")
    BY <1>3, <2>1, <1>a DEF DecideWorkspaceRule, Refuse, StayOnRule, NextRule, CoverInv
  <2>2. CASE NextRule
    <3>1. \A k \in 1 .. (i - 1) : Passed(k)'
      <4>1. granted \subseteq granted'
        BY <1>3 DEF DecideWorkspaceRule
      <4>2. UNCHANGED <<rules, selected, used, narrowed>>
        BY <1>3 DEF DecideWorkspaceRule
      <4>3. QED
        BY <4>1, <4>2, <1>k DEF SelectedBy
    <3>2. \A k \in {i} : Passed(k)'
      <4>1. /\ ~rules[i].deny /\ rules[i].verb = None /\ rules' = rules
            /\ rules[i].filter \/ <<"any", "get", None, AnyName>> \in granted'
        BY <1>3, <2>2 DEF DecideWorkspaceRule, Refuse, NextRule
      <4>2. QED
        BY <4>1 DEF Passed, Covered, Usable, UsesGateway, ChangesGateway, None
    <3>3. QED
      BY <2>2, <3>1, <3>2, <1>b
  <2>3. QED
    BY <1>3, <2>1, <2>2 DEF DecideWorkspaceRule
<1>4. CASE CheckBudgetScope
  BY <1>4, <1>a DEF CheckBudgetScope, Refuse, CoverInv
<1>5. CASE ReviewBroad
  <2>1. /\ granted \subseteq granted'
        /\ UNCHANGED <<i, rules, selected, used, narrowed>>
        /\ ~rules[i].deny /\ rules[i].verb # None
        /\ pc' \in {"named", "done"}
    BY <1>5 DEF ReviewBroad, Refuse
  <2>2. CASE pc' = "done"
    BY <2>1, <2>2, <1>a DEF CoverInv
  <2>3. CASE pc' = "named" /\ allowed'
    <3>1. Review(rules[i], AnyName) \in granted'
      BY <1>5, <2>3 DEF ReviewBroad, Refuse
    <3>2. Covered(i)'
      BY <2>1, <3>1 DEF Covered, Granted, Review
    <3>3. QED
      BY <2>1, <2>3, <3>2, <1>a DEF CoverInv
  <2>4. CASE pc' = "named" /\ ~allowed'
    BY <2>1, <2>4, <1>a DEF CoverInv
  <2>5. QED
    BY <2>1, <2>2, <2>3, <2>4
<1>6. CASE NormalizeScorers
  BY <1>6, <1>a DEF NormalizeScorers, Refuse, decision, CoverInv
<1>7. CASE ReviewNames
  <2>1. /\ UNCHANGED <<rules, used, narrowed>>
        /\ granted \subseteq granted'
        /\ ~rules[i].deny /\ rules[i].verb # None
        /\ \E v : selected' = With(selected, i, v)
    BY <1>7 DEF ReviewNames, CoverInv
  <2>2. \A k \in 1 .. (i - 1) : SelectedBy(k)' = SelectedBy(k)
    BY <2>1, <1>n DEF SelectedBy, With
  <2>3. \A k \in 1 .. (i - 1) : Passed(k)'
    BY <2>1, <2>2, <1>k
  <2>4. CASE pc' = "filter" /\ i' = i /\ allowed'
    <3>1. PICK names \in Selections : \E yes \in SUBSET names :
             /\ selected' = With(selected, i, names)
             /\ granted' = granted \cup {Review(rule, n) : n \in yes}
             /\ allowed' = HasEveryName(names, yes)
      BY <1>7, <2>4, <1>n DEF ReviewNames, NextRule
    <3>2. names # {} /\ \A n \in names : Review(rules[i], n) \in granted'
      BY <2>4, <3>1 DEF HasEveryName
    <3>3. \A k \in {i} : SelectedBy(k)' = names
      BY <3>1 DEF SelectedBy, With
    <3>4. Covered(i)'
      BY <2>1, <2>4, <3>2, <3>3 DEF Covered, Granted, Review
    <3>5. QED
      BY <2>1, <2>3, <2>4, <3>4 DEF CoverInv
  <2>5. CASE pc' = "filter" /\ i' = i /\ ~allowed'
    BY <2>1, <2>3, <2>5 DEF CoverInv
  <2>6. CASE NextRule /\ rule.optional /\ selected' = With(selected, i, {None})
    <3>1. \A k \in {i} : SelectedBy(k)' = {None}
      BY <2>6 DEF SelectedBy, With
    <3>2. ~UsesGateway(rules[i])
      BY <1>7, <2>6 DEF ReviewNames, RulesInv, OnRule
    <3>3. \A k \in {i} : Covered(k)'
      BY <2>1, <2>6, <3>1 DEF Covered, Optionally
    <3>4. \A k \in {i} : Passed(k)'
      BY <2>1, <3>2, <3>3 DEF Passed, Usable
    <3>5. QED
      BY <2>3, <2>6, <3>4, <1>b
  <2>7. QED
    BY <1>7, <2>4, <2>5, <2>6 DEF ReviewNames, CoverInv, HasEveryName
<1>8. CASE PassNames
  BY <1>8, <1>a DEF PassNames, CoverInv
<1>9. CASE Narrow
  <2>1. /\ UNCHANGED <<i, rules, granted, selected, used>>
        /\ pc' = "decide"
        /\ ~rules[i].deny /\ rules[i].verb # None
        /\ DOMAIN narrowed \subseteq DOMAIN narrowed'
        /\ allowed' => i \in DOMAIN narrowed' \/ LeftToResolver(rules[i])
    BY <1>9 DEF Narrow, CoverInv, With, LeftToResolver
  <2>2. \A k \in 1 .. (i - 1) : Passed(k)'
    BY <2>1, <1>k DEF SelectedBy
  <2>3. allowed' => Covered(i)'
    BY <2>1 DEF Covered, LeftToResolver
  <2>4. QED
    BY <2>1, <2>2, <2>3 DEF CoverInv
<1>10. CASE PassFilter
  BY <1>10, <1>a DEF PassFilter, decision, CoverInv
<1>11. CASE DecideRule
  <2>1. UNCHANGED <<rules, granted, selected, used, narrowed>>
    BY <1>11 DEF DecideRule
  <2>2. CASE UNCHANGED i /\ pc' \in {"done", "uses"}
    BY <1>11, <2>1, <2>2, <1>a DEF DecideRule, Refuse, StayOnRule, NextRule, CoverInv
  <2>3. CASE allowed /\ ~UsesGateway(rule) /\ NextRule
    <3>1. \A k \in {i} : Covered(k)
      BY <1>11, <2>3 DEF DecideRule, CoverInv
    <3>2. \A k \in {i} : Passed(k)'
      BY <2>1, <2>3, <3>1, StaysPassed DEF Passed, Usable, SelectedBy
    <3>3. \A k \in 1 .. (i - 1) : Passed(k)'
      BY <2>1, <1>k DEF SelectedBy
    <3>4. QED
      BY <2>3, <3>2, <3>3, <1>b
  <2>4. QED
    BY <1>11, <2>2, <2>3 DEF DecideRule, Refuse, StayOnRule
<1>12. CASE ReviewUses
  <2>1. PICK names \in Selections :
           /\ used' = With(used, i, names)
           /\ \/ ~RequiresUse(rule, names) /\ NextRule
              \/ NextRule /\ UseOf(Dependency(rule), AnyName) \in granted'
              \/ /\ NextRule
                 /\ names # {}
                 /\ \A n \in names : UseOf(Dependency(rule), n) \in granted'
              \/ Refuse("denied") /\ StayOnRule
    BY <1>12 DEF ReviewUses, HasEveryName
  <2>2. UNCHANGED <<rules, selected, narrowed>> /\ granted \subseteq granted'
    BY <1>12 DEF ReviewUses
  <2>3. /\ \A k \in {i} : k \in DOMAIN used' /\ used'[k] = names
        /\ \A k \in 1 .. (i - 1) : k \in DOMAIN used =>
                              k \in DOMAIN used' /\ used'[k] = used[k]
    BY <2>1, <1>n DEF With
  <2>4. \A k \in 1 .. (i - 1) : Passed(k)'
    BY <2>2, <2>3, <1>k DEF SelectedBy
  <2>5. CASE Refuse("denied") /\ StayOnRule
    BY <2>4, <2>5 DEF Refuse, StayOnRule, CoverInv
  <2>6. CASE NextRule
    <3>1. \A k \in {i} : Covered(k)'
      BY <1>12, <2>2, StaysCovered DEF ReviewUses, CoverInv, SelectedBy
    <3>2. \A k \in {i} : Usable(k)'
      <4>1. CASE ~RequiresUse(rule, names)
        <5>1. UsesGateway(rules[i]) =>
                 rules[i].resource = Endpoints /\ rules[i].verb = "update"
          BY <4>1 DEF RequiresUse, UsesGateway, ChangesGateway
        <5>2. names = {}
          BY <4>1 DEF RequiresUse
        <5>3. QED
          BY <2>2, <2>3, <5>1, <5>2 DEF Usable
      <4>2. CASE UseOf(Dependency(rule), AnyName) \in granted'
        BY <2>2, <4>2 DEF Usable, Granted, UseOf
      <4>3. CASE names # {} /\ \A n \in names : UseOf(Dependency(rule), n) \in granted'
        BY <2>2, <2>3, <4>3 DEF Usable, Granted, UseOf
      <4>4. CASE Refuse("denied") /\ StayOnRule
        BY <2>6, <4>4, <1>n DEF NextRule, StayOnRule
      <4>5. QED
        BY <2>1, <4>1, <4>2, <4>3, <4>4
    <3>3. \A k \in {i} : Passed(k)'
      BY <2>3, <3>1, <3>2 DEF Passed
    <3>4. QED
      BY <2>4, <2>6, <3>3, <1>b
  <2>7. QED
    BY <2>1, <2>5, <2>6
<1>13. CASE Finish
  BY <1>13, <1>a DEF Finish, decision, CoverInv
<1>14. CASE UNCHANGED vars
  BY <1>14, <1>a DEF vars, CoverInv
<1>15. QED
  BY <1>1, <1>2, <1>3, <1>4, <1>5, <1>6, <1>7, <1>8, <1>9, <1>10, <1>11,
     <1>12, <1>13, <1>14 DEF Next, Done

LEMMA NextBudget == RulesInv /\ BudgetInv /\ [Next]_vars => BudgetInv'
BY DEF RulesInv, BudgetInv, Next, vars, Identify, FindRules, ClassifyArtifact,
   ScopeWorkspace, RefuseRule, DecideWorkspaceRule, CheckBudgetScope,
   ReviewBroad, NormalizeScorers, ReviewNames, PassNames, Narrow, PassFilter,
   DecideRule, ReviewUses, Finish, Done, Refuse, NextRule, StayOnRule, decision,
   ScopesOfBudget, Early, None

(* A rule that needs the body to narrow the request has read it first.     *)
LEMMA NextScoped ==
   RulesInv /\ ScopedSearchesAreRead /\ [Next]_vars => ScopedSearchesAreRead'
<1> SUFFICES ASSUME RulesInv, ScopedSearchesAreRead, [Next]_vars
             PROVE ScopedSearchesAreRead'
  OBVIOUS
<1>1. CASE ClassifyArtifact
  BY <1>1 DEF ClassifyArtifact, RulesInv, Early, ScopedSearchesAreRead, decision
<1>2. CASE Narrow
  <2>1. PICK v : /\ narrowed' \in {narrowed, With(narrowed, i, v)}
                 /\ rule.policy \in BodyPolicies => v # "unread"
    <3>1. \A b : b \in AfterRead(TRUE) => b # "unread"
      BY DEF AfterRead
    <3>2. \A b : b \in ReadForFilter /\ rule.policy \in BodyPolicies => b # "unread"
      BY <3>1 DEF ReadForFilter
    <3>3. PICK first \in ReadForFilter :
             \/ narrowed' = With(narrowed, i, first)
             \/ \E second \in IF first = "unread" THEN AfterRead(FALSE) ELSE {first} :
                   narrowed' \in {narrowed, With(narrowed, i, second)}
      BY <1>2 DEF Narrow
    <3>4. CASE narrowed' \in {narrowed, With(narrowed, i, first)}
      BY <3>2, <3>4
    <3>5. CASE first = "unread"
      <4>1. rule.policy \notin BodyPolicies
        BY <3>2, <3>5
      <4>2. PICK v : narrowed' \in {narrowed, With(narrowed, i, v)}
        <5>1. CASE narrowed' = With(narrowed, i, first)
          BY <5>1
        <5>2. CASE narrowed' # With(narrowed, i, first)
          <6>1. PICK second : narrowed' \in {narrowed, With(narrowed, i, second)}
            BY <3>3, <5>2
          <6>2. QED
            BY <6>1
        <5>3. QED
          BY <5>1, <5>2
      <4>3. QED
        BY <4>1, <4>2
    <3>6. QED
      BY <3>3, <3>4, <3>5
  <2>2. rules' = rules
    BY <1>2 DEF Narrow
  <2>3. QED
    BY <2>1, <2>2 DEF ScopedSearchesAreRead, With, rule
<1>3. CASE ~ClassifyArtifact /\ ~Narrow
  <2>1. UNCHANGED <<rules, narrowed>>
    BY <1>3 DEF Next, vars, Identify, FindRules, ScopeWorkspace, RefuseRule,
       DecideWorkspaceRule, CheckBudgetScope, ReviewBroad, NormalizeScorers,
       ReviewNames, PassNames, PassFilter, DecideRule, ReviewUses, Finish,
       Done, decision
  <2>2. QED
    BY <2>1 DEF ScopedSearchesAreRead
<1>4. QED
  BY <1>1, <1>2, <1>3

-----------------------------------------------------------------------------
(* Every rule of an admitted request was satisfied by the answers it got.  *)
THEOREM AdmissionCorrect == Spec => []AdmittedIsCovered
<1>1. RulesInv /\ CoverInv => AdmittedIsCovered
  BY DEF RulesInv, CoverInv, Passed, AdmittedIsCovered
<1>2. QED
  BY InitRules, InitCover, NextRules, NextCover, <1>1, PTL DEF Spec

(* Every gateway resource an admitted change depends on may be used.       *)
THEOREM DependenciesCorrect == Spec => []DependenciesAreUsable
<1>1. RulesInv /\ CoverInv => DependenciesAreUsable
  BY DEF RulesInv, CoverInv, Passed, DependenciesAreUsable
<1>2. QED
  BY InitRules, InitCover, NextRules, NextCover, <1>1, PTL DEF Spec

(* An admitted budget stays in its workspace in both spellings.            *)
THEOREM BudgetsCorrect == Spec => []BudgetsStayInWorkspace
<1>1. BudgetInv => BudgetsStayInWorkspace
  BY DEF BudgetInv, BudgetsStayInWorkspace
<1>2. QED
  BY InitRules, InitCover, NextRules, NextBudget, <1>1, PTL DEF Spec

(* A search scoped in its body is narrowed with the body known.            *)
THEOREM ScopesCorrect == Spec => []ScopedSearchesAreRead
BY InitRules, InitCover, NextRules, NextScoped, PTL DEF Spec
=============================================================================
