---------------------------- MODULE RuleCompiler ----------------------------
(***************************************************************************)
(* How the rule tables become the lookup tables of a process, and how a    *)
(* request finds its rules (auth/compiler.py and the path functions of     *)
(* auth/core.py).  At startup the routes of three frameworks are walked:   *)
(* protobuf routes take the rules of their request class, custom Flask     *)
(* routes and FastAPI routes need an entry of the path table, and a route  *)
(* without rules makes the startup fail.  A lookup tries the exact paths   *)
(* first and then the patterns in order.                                   *)
(***************************************************************************)
EXTENDS RuleTable, SequencesExt

CONSTANTS
   ProtobufRoutes,  \* sequence of [path, class, methods]
   FlaskRoutes,     \* sequence of [path, methods], handlers without a class
   FastApiRoutes,   \* sequence of [path, methods], variables in braces
   NewRoutes,       \* paths that an MLflow version may have or lack
   Probes,          \* values put in place of path variables
   StaticPrefix,    \* MLFLOW_STATIC_PREFIX as segments, << >> when unset
   RootPath         \* ASGI root_path as segments

VARIABLES
   compiling,  \* where the startup stands
   routes,     \* the routes this MLflow has, per framework
   exact,      \* _AUTH_RULES: rules by literal path and method
   patterns,   \* _AUTH_REGEX_RULES: [path, method, rules, source]
   params,     \* _PATH_PARAM_PATTERNS: [path, method]
   uncovered,  \* routes found without rules
   lookup      \* the last request looked up and what was found

tables == <<compiling, routes, exact, patterns, params, uncovered, lookup>>

Path == Seq(STRING)
HttpRoute == [path : Path, methods : SUBSET STRING]
ProtobufRoute == [path : Path, class : STRING, methods : SUBSET STRING]

ASSUME RoutesAssumption ==
   /\ ProtobufRoutes \in Seq(ProtobufRoute)
   /\ FlaskRoutes \in Seq(HttpRoute)
   /\ FastApiRoutes \in Seq(HttpRoute)
   /\ \A route \in ToSet(ProtobufRoutes) \cup ToSet(FlaskRoutes) :
         IsFiniteSet(route.methods)

(* No entry of a table is without rules (rules_base.py normalizes a rule   *)
(* to a list of one).                                                      *)
ASSUME RulesAssumption ==
   /\ PathRules \in Seq(ToSet(PathRules))
   /\ \A e \in ToSet(PathRules) : e.path \in Path /\ e.rules # <<>>
   /\ \A class \in DOMAIN RequestRules : RequestRules[class] # <<>>

ASSUME ProbesAssumption == "" \notin Probes

(* The elements of a sequence that are in a set, in their order.           *)
Among(s, kept) ==
   FlattenSeq([i \in DOMAIN s |-> IF s[i] \in kept THEN <<s[i]>> ELSE <<>>])

-----------------------------------------------------------------------------
(* Paths. *)

PathVariables ==
   {"<path:artifact_path>", "<path:name>", "<path:version>", "<path:key>",
    "<path:alias>", "<path:path>"}

(* Variables that share their segment with literal text. *)
Decorated ==
   {"@<organization>", "<endpoint_name>:generateContent",
    "<endpoint_name>:streamGenerateContent"}

SegmentVariables ==
   {"<endpoint_name>", "<model_id>", "<trace_id>", "<assessment_id>",
    "<job_id>", "<session_id>", "<provider>", "<endpoint_id>", "<name>",
    "<version>", "<alias>", "<workspace_name>", "<page>"} \cup Decorated

Variables == PathVariables \cup SegmentVariables

Templated(path) == \E i \in DOMAIN path : path[i] \in Variables

(* The concrete segment a variable becomes for a probe value. *)
Fill(variable, probe) ==
   CASE variable = "@<organization>" -> "@" \o probe
     [] variable = "<endpoint_name>:generateContent" ->
           probe \o ":generateContent"
     [] variable = "<endpoint_name>:streamGenerateContent" ->
           probe \o ":streamGenerateContent"
     [] OTHER -> probe

Instance(path, probe) ==
   [i \in DOMAIN path |->
      IF path[i] \in Variables THEN Fill(path[i], probe) ELSE path[i]]

(* A segment variable takes one segment that is not empty; a decorated one *)
(* only a segment with its affix, which an undecorated one takes as well.  *)
SegmentMatches(token, segment) ==
   \/ token = segment
   \/ /\ token \in SegmentVariables
      /\ IF token \in Decorated THEN segment \in {Fill(token, v) : v \in Probes}
                               ELSE segment # ""

(* fullmatch of the compiled pattern: a path variable is ".+", so it takes *)
(* one or more segments.  ends[i]: where the path can be when the template *)
(* has matched up to i.                                                    *)
EndsAfter(token, path, ends) ==
   {last \in 1..Len(path) :
      IF token \in PathVariables
         THEN \E end \in ends : end < last
         ELSE last - 1 \in ends /\ SegmentMatches(token, path[last])}

Matches(template, path) ==
   LET ends[i \in 0..Len(template)] ==
          IF i = 0 THEN {0} ELSE EndsAfter(template[i], path, ends[i - 1])
   IN Len(path) \in ends[Len(template)]

(* Flask's form of a FastAPI path. *)
FastApiToTemplate(path) ==
   LET flask == [t \in {"{job_id}", "{name:path}", "{version:path}",
                        "{endpoint_name}", "{page}"} |->
                   CASE t = "{job_id}" -> "<job_id>"
                     [] t = "{name:path}" -> "<path:name>"
                     [] t = "{version:path}" -> "<path:version>"
                     [] t = "{endpoint_name}" -> "<endpoint_name>"
                     [] t = "{page}" -> "<page>"]
   IN [i \in DOMAIN path |->
         IF path[i] \in DOMAIN flask THEN flask[path[i]] ELSE path[i]]

StripPrefix(path, prefix) ==
   IF prefix # <<>> /\ IsPrefix(prefix, path)
      THEN SubSeq(path, Len(prefix) + 1, Len(path))
      ELSE path

(* The static prefix is stripped only in front of what MLflow serves.      *)
StaticHeads ==
   {"health", "metrics", "version", "server-info", "api", "ajax-api",
    "get-artifact", "static-files", "graphql", "gateway"}

StripStaticPrefix(path) ==
   LET stripped == StripPrefix(path, StaticPrefix)
   IN IF \/ stripped = <<>>
         \/ Head(stripped) \in StaticHeads
         \/ IsPrefix(<<"model-versions", "get-artifact">>, stripped)
         \/ IsPrefix(<<"v1", "traces">>, stripped)
         THEN stripped
         ELSE path

Canonicalize(path, root) == StripStaticPrefix(StripPrefix(path, root))

(* Health, version and static pages need no rules, nor does any path that  *)
(* merely begins like one, as that of healthz.                             *)
BeginsWith(segment, prefix) ==
   /\ Len(prefix) <= Len(segment)
   /\ SubSeq(segment, 1, Len(prefix)) = prefix

IsUnprotected(path) ==
   \/ path \in UnprotectedPaths
   \/ /\ path # <<>>
      /\ \E prefix \in UnprotectedPrefixes : BeginsWith(Head(path), prefix)

ASSUME UnprotectedAssumption ==
   \A variable \in Variables, prefix \in UnprotectedPrefixes :
      ~BeginsWith(variable, prefix)

-----------------------------------------------------------------------------
(* Lookups. *)

PathEntry(path, method) ==
   \E i \in DOMAIN PathRules :
      PathRules[i].path = path /\ PathRules[i].method = method

LastMatch(table, path, method) ==
   LET hits == {i \in DOMAIN table : /\ table[i].method = method
                                     /\ Matches(table[i].path, path)}
   IN IF hits = {} THEN <<>>
      ELSE <<table[CHOOSE i \in hits : \A j \in hits : j <= i]>>

(* The first element of a table whose template and method match, as a      *)
(* sequence of at most one.                                                *)
FirstMatch(table, path, method) ==
   LET hits == {i \in DOMAIN table : /\ table[i].method = method
                                     /\ Matches(table[i].path, path)}
   IN IF hits = {} THEN <<>>
      ELSE <<table[CHOOSE i \in hits : \A j \in hits : i <= j]>>

FindRules(raw, method) ==
   LET path == StripStaticPrefix(raw)
       key == <<path, method>>
   IN IF key \in DOMAIN exact
         THEN <<[path |-> path, method |-> method, rules |-> exact[key],
                 source |-> "exact"]>>
         ELSE FirstMatch(patterns, path, method)

-----------------------------------------------------------------------------
(* Startup. *)

HasRoute(framework, new) ==
   Among(framework,
         {r \in ToSet(framework) : r.path \in NewRoutes => r.path \in new})

CompilerInit ==
   /\ compiling = "protobuf"
   /\ \E new \in SUBSET NewRoutes :
         routes = [protobuf |-> HasRoute(ProtobufRoutes, new),
                   flask |-> HasRoute(FlaskRoutes, new),
                   fastapi |-> HasRoute(FastApiRoutes, new)]
   /\ exact = <<>>
   /\ patterns = <<>>
   /\ params = <<>>
   /\ uncovered = {}
   /\ lookup = <<>>

HandlerRules(route) == RequestRules[route.class]
HasHandlerRules(route) == route.class \in DOMAIN RequestRules

MethodsOf(route) == {<<route.path, m>> : m \in route.methods}

(* A protobuf route without rules of its own is covered by the path table  *)
(* only if every one of its methods is.                                    *)
UncoveredProtobuf ==
   UNION {MethodsOf(r) : r \in
            {q \in ToSet(routes.protobuf) :
               /\ ~IsUnprotected(q.path)
               /\ ~HasHandlerRules(q)
               /\ \E m \in q.methods : ~PathEntry(q.path, m)}}

Implied == {"HEAD", "OPTIONS"}

Entries(route, rules, source) ==
   LET methods == SetToSeq(route.methods \ Implied)
   IN [i \in DOMAIN methods |-> [path |-> route.path, method |-> methods[i],
                                 rules |-> rules, source |-> source]]

Keys(entries) ==
   [i \in DOMAIN entries |-> [path |-> entries[i].path,
                             method |-> entries[i].method]]

RegisterParamsOncePerTemplate(known, entries) ==
   known \o Among(Keys(entries),
                  {k \in ToSet(Keys(entries)) :
                     /\ Templated(k.path)
                     /\ \A i \in DOMAIN known : known[i].path # k.path})

(* Path parameter patterns are kept once per template and method (a second *)
(* one within the same loop would match no differently).                   *)
RegisterParams(known, entries) ==
   known \o Among(Keys(entries),
                  {k \in ToSet(Keys(entries)) :
                     Templated(k.path) /\ k \notin ToSet(known)})

ExactOf(entries) ==
   LET literal == {i \in DOMAIN entries : ~Templated(entries[i].path)}
   IN [k \in {<<entries[i].path, entries[i].method>> : i \in literal} |->
         (CHOOSE i \in literal :
             k = <<entries[i].path, entries[i].method>>)]

AddExact(table, entries) ==
   LET index == ExactOf(entries)
   IN [k \in DOMAIN index \cup DOMAIN table |->
         IF k \in DOMAIN index THEN entries[index[k]].rules ELSE table[k]]

AddPatterns(table, entries) ==
   table \o Among(entries, {e \in ToSet(entries) : Templated(e.path)})

ClassEntries ==
   LET governed == Among(routes.protobuf,
                         {r \in ToSet(routes.protobuf) :
                            ~IsUnprotected(r.path) /\ HasHandlerRules(r)})
   IN FlattenSeq([i \in DOMAIN governed |->
                    Entries(governed[i], HandlerRules(governed[i]), "class")])

CompileProtobuf ==
   /\ compiling = "protobuf"
   /\ exact' = AddExact(exact, ClassEntries)
   /\ patterns' = AddPatterns(patterns, ClassEntries)
   /\ params' = RegisterParams(params, ClassEntries)
   /\ uncovered' = uncovered \cup UncoveredProtobuf
   /\ compiling' = "flask"
   /\ UNCHANGED <<routes, lookup>>

(* Flask's URL map also has the protobuf routes; those with class rules    *)
(* are done, the others are held to the path table method by method.       *)
CustomEntries ==
   LET registered == routes.flask \o routes.protobuf
       custom == Among(registered,
                       {r \in ToSet(registered) :
                          /\ ~IsUnprotected(r.path)
                          /\ "class" \in DOMAIN r => ~HasHandlerRules(r)})
   IN FlattenSeq([i \in DOMAIN custom |-> Entries(custom[i], <<>>, "flask")])

UncoveredCustom ==
   {<<e.path, e.method>> :
      e \in {f \in ToSet(CustomEntries) : ~PathEntry(f.path, f.method)}}

CompileFlask ==
   /\ compiling = "flask"
   /\ uncovered' = uncovered \cup UncoveredCustom
   /\ params' = RegisterParams(params, CustomEntries)
   /\ compiling' = "explicit"
   /\ UNCHANGED <<routes, exact, patterns, lookup>>

ExplicitEntries ==
   [i \in DOMAIN PathRules |->
      [path |-> PathRules[i].path, method |-> PathRules[i].method,
       rules |-> PathRules[i].rules, source |-> "explicit"]]

(* The path table comes last: it replaces exact paths and follows the      *)
(* patterns that are there.                                                *)
CompileExplicit ==
   /\ compiling = "explicit"
   /\ exact' = AddExact(exact, ExplicitEntries)
   /\ patterns' = AddPatterns(patterns, ExplicitEntries)
   /\ params' = RegisterParams(params, ExplicitEntries)
   /\ compiling' = "check"
   /\ UNCHANGED <<routes, uncovered, lookup>>

PublishAnyway ==
   /\ compiling = "check"
   /\ compiling' = "fastapi"
   /\ UNCHANGED <<routes, exact, patterns, params, uncovered, lookup>>

(* The new tables become those of the process only if nothing is missing.  *)
Publish ==
   /\ compiling = "check"
   /\ IF uncovered = {}
         THEN compiling' = "fastapi" /\ UNCHANGED <<exact, patterns, params>>
         ELSE /\ compiling' = "failed"
              /\ exact' = <<>>
              /\ patterns' = <<>>
              /\ params' = <<>>
   /\ UNCHANGED <<routes, uncovered, lookup>>

MissingFastApi ==
   {key \in UNION {MethodsOf(r) : r \in
                     {[q EXCEPT !.path = FastApiToTemplate(q.path)] :
                        q \in ToSet(routes.fastapi)}} :
      /\ ~IsUnprotected(key[1])
      /\ key[2] \notin Implied
      /\ ~PathEntry(key[1], key[2])}

ValidateFastApi ==
   /\ compiling = "fastapi"
   /\ uncovered' = uncovered \cup MissingFastApi
   /\ compiling' = IF MissingFastApi = {} THEN "serving" ELSE "failed"
   /\ UNCHANGED <<routes, exact, patterns, params, lookup>>

-----------------------------------------------------------------------------
(* Requests. *)

ServedRoutes ==
   ToSet(routes.protobuf) \cup ToSet(routes.flask)
   \cup {[r EXCEPT !.path = FastApiToTemplate(@)] : r \in ToSet(routes.fastapi)}

TableRoutes ==
   {[path |-> e.path, methods |-> {e.method}] : e \in ToSet(PathRules)}

(* Requests for any route an MLflow version may have.                      *)
Requested ==
   {Instance(r.path, probe) : probe \in Probes, r \in
      ToSet(ProtobufRoutes) \cup ToSet(FlaskRoutes) \cup TableRoutes
      \cup {[q EXCEPT !.path = FastApiToTemplate(@)] : q \in ToSet(FastApiRoutes)}}

(* The static prefix does not begin the path of another route.             *)
ASSUME PrefixAssumption ==
   /\ StaticPrefix \in Path /\ RootPath \in Path
   /\ \A path \in Requested : StripStaticPrefix(path) = path

(* The order the path table must have: no template before the one that is  *)
(* requested, and no route with rules of its class, matches an instance of *)
(* it and has other rules, and no literal path is such an instance.        *)
ASSUME NestedTemplatesFirst ==
   \A i \in DOMAIN PathRules, probe \in Probes :
      LET entry == PathRules[i]
          path == Instance(entry.path, probe)
      IN /\ \A j \in DOMAIN PathRules :
               /\ PathRules[j].method = entry.method
               /\ IF Templated(PathRules[j].path)
                     THEN /\ j < i
                          /\ Templated(entry.path)
                          /\ Matches(PathRules[j].path, path)
                     ELSE PathRules[j].path = path
               => PathRules[j].rules = entry.rules
         /\ \A r \in ToSet(ProtobufRoutes) :
               /\ Templated(entry.path)
               /\ HasHandlerRules(r)
               /\ entry.method \in r.methods
               /\ Matches(r.path, path)
               => HandlerRules(r) = entry.rules

(* A route whose path parameters are registered ahead of the path table is *)
(* not matched by another template that the table has before it.           *)
ASSUME CustomTemplatesFirst ==
   \A r \in ToSet(FlaskRoutes) \cup ToSet(ProtobufRoutes), path \in Requested :
      /\ "class" \in DOMAIN r => ~HasHandlerRules(r)
      /\ Templated(r.path)
      /\ Matches(r.path, path)
      => \A i \in DOMAIN PathRules :
            /\ Templated(PathRules[i].path)
            /\ PathRules[i].method \in r.methods
            /\ Matches(PathRules[i].path, path)
            => \E j \in 1..i : /\ PathRules[j].path = r.path
                              /\ PathRules[j].method = PathRules[i].method

(* A client asks for an instance of a route, through whatever prefixes the *)
(* deployment has; the lookup works on the canonical path.  The tables do  *)
(* not change any more, so one request per behaviour shows all.            *)
Lookup(route, method, probe, root, static) ==
   LET raw == root \o static \o Instance(route.path, probe)
       path == Canonicalize(raw, root)
   IN /\ compiling = "serving"
      /\ lookup = <<>>
      /\ lookup' = <<[route |-> route.path, method |-> method, probe |-> probe,
                      path |-> path,
                      rules |-> FindRules(path, method),
                      params |-> FirstMatch(params, path, method)]>>
      /\ UNCHANGED <<compiling, routes, exact, patterns, params, uncovered>>

Request ==
   \E route \in ServedRoutes \cup TableRoutes :
      \E method \in route.methods \ Implied, probe \in Probes,
         root \in {<<>>, RootPath}, static \in {<<>>, StaticPrefix} :
         /\ Head(route.path) \in StaticHeads \/ static = <<>>
         /\ Lookup(route, method, probe, root, static)

CompilerNext ==
   \/ CompileProtobuf
   \/ CompileFlask
   \/ CompileExplicit
   \/ Publish
   \/ ValidateFastApi
   \/ Request

CompilerSpec == CompilerInit /\ [][CompilerNext]_tables

-----------------------------------------------------------------------------
CompilerTypeOK ==
   /\ compiling \in {"protobuf", "flask", "explicit", "check", "fastapi",
                 "serving", "failed"}
   /\ \A key \in DOMAIN exact : exact[key] # <<>>
   /\ \A i \in DOMAIN patterns : patterns[i].source \in {"class", "explicit"}
   /\ \A i \in DOMAIN params : Templated(params[i].path)
   /\ Len(lookup) <= 1

Found == lookup[1].rules
Protected == ~IsUnprotected(lookup[1].path)

(* Once the server serves, a request for any protected route it has finds  *)
(* rules, whichever framework the route belongs to and whatever prefixes   *)
(* the deployment puts in front: nothing but unknown paths gets the 404 of *)
(* a request without rules.                                                *)
ServedRoutesAreGoverned ==
   lookup # <<>> /\ Protected => Found # <<>> /\ Found[1].rules # <<>>

(* Routes below a catch-all route keep their own rules: a request for an   *)
(* instance of a path table entry is never decided by a different rule     *)
(* that an earlier, more general pattern carries.                          *)
NestedRoutesWin ==
   lookup # <<>> =>
      \A i \in DOMAIN PathRules :
         /\ PathRules[i].path = lookup[1].route
         /\ PathRules[i].method = lookup[1].method
         => Found # <<>> /\ Found[1].rules = PathRules[i].rules

(* The path parameters, from which the resource is named, are cut out with *)
(* the template of the rules that decide: two lists that are built         *)
(* separately agree on what matches first.                                 *)
ParamsFromGoverningRoute ==
   lookup # <<>> /\ Found # <<>> /\ Found[1].source # "exact" =>
      lookup[1].params # <<>> /\ lookup[1].params[1].path = Found[1].path
=============================================================================
