--------------------------- MODULE DispatchProofs ---------------------------
(***************************************************************************)
(* For any resources, callers and requests: the context variables of a     *)
(* request are taken down however it ends, and what its handler selects    *)
(* once it has been narrowed was asked for and may be read.                *)
(***************************************************************************)
EXTENDS Dispatch, TLAPS

(* Each part of the context is up only while the request is at work: the   *)
(* resolver while the handler runs, the marker until the response has been *)
(* filtered, and the workspace, once set here, until the handler returns.  *)
ContextInv ==
   /\ outcome = None <=> pc # "done"
   /\ pc \in {"dispatch", "review", "scorers", "first", "second", "rewrite",
              "handle", "answered", "done"}
   /\ pc = "dispatch" => ~set
   /\ handled => pc \in {"handle", "answered"}
   /\ resolver => pc = "handle"
   /\ set /\ pc = "answered" => workspace = None
   /\ ContextEndsWithRequest

LEMMA InitContext == Init => ContextInv
BY DEF Init, ContextInv, ContextEndsWithRequest, None

(* Only the last steps of a request change its context.                    *)
LEMMA NextContext == ContextInv /\ [Next]_vars => ContextInv'
<1> SUFFICES ASSUME ContextInv, [Next]_vars PROVE ContextInv'
  OBVIOUS
<1> USE DEF ContextInv, ContextEndsWithRequest, Leave, LeaveRefused, None,
        context, inputs
<1>1. CASE ResolveWorkspace
  BY <1>1 DEF ResolveWorkspace
<1>2. CASE ReviewBroad
  BY <1>2 DEF ReviewBroad
<1>3. CASE NormalizeScorers
  BY <1>3 DEF NormalizeScorers
<1>4. CASE NarrowFirst
  BY <1>4 DEF NarrowFirst
<1>5. CASE NarrowSecond
  BY <1>5 DEF NarrowSecond
<1>6. CASE AuthorizationFails
  BY <1>6 DEF AuthorizationFails
<1>7. CASE Rewrite
  BY <1>7 DEF Rewrite
<1>8. CASE Handle
  BY <1>8 DEF Handle
<1>9. CASE FilterResponse
  BY <1>9 DEF FilterResponse
<1>10. CASE UNCHANGED vars
  BY <1>10 DEF vars
<1>11. QED
  BY <1>1, <1>2, <1>3, <1>4, <1>5, <1>6, <1>7, <1>8, <1>9, <1>10
     DEF Next, Done

(* However a request ends, and whatever its handler raises, what it set up *)
(* is taken down; the exception is stated in ContextEndsWithRequest.       *)
THEOREM ContextCorrect == Spec => []ContextEndsWithRequest
<1>1. ContextInv => ContextEndsWithRequest
  BY DEF ContextInv
<1>2. QED
  BY InitContext, NextContext, <1>1, PTL DEF Spec

-----------------------------------------------------------------------------
(***************************************************************************)
(* What the handler shows of a narrowed request.  Everything from the      *)
(* arrival of a request to its handling is a function of the request, the  *)
(* caller and what the authorization knows: Unread before the body has     *)
(* been asked for, Whole after, and what narrowing makes of these.         *)
(***************************************************************************)
Unread == [Arrived(request) EXCEPT !.body = Body("unread", NoFields)]
Whole == Arrived(request)

(* The live request once x has replaced it, and what its handler selects.  *)
Handed(x) ==
   [method |-> request.method,
    query |-> IF x.query = request.query THEN request.query ELSE Encoded(x.query),
    body |-> IF x.body.kind = "object" THEN x.body ELSE request.body]

Shown(x) == Selected(Handed(x))

(* x was narrowed by its query, and the ids of its body were not looked at. *)
LeavesBody(x) == StatedTwice /\ x.body.kind = "unread"

(* The types of the inputs. *)
Inputs == request \in Requests /\ caller \in Callers

LEMMA InputTypes ==
   ASSUME Inputs
   PROVE  /\ request \in Request /\ caller \in Caller
          /\ caller.all => caller.readable = Items
          /\ caller.readable \subseteq Items
          /\ request.body.kind \notin {"object", "text"} =>
                request.body.fields = NoFields
          /\ request.method \in {"GET", "POST"}
          /\ request.body.kind \in BodyKinds /\ request.body.kind # "unread"
          /\ request.query \in FieldMaps /\ request.body.fields \in FieldMaps
<1>1. request \in Request /\ caller \in Caller
   BY DispatchAssumption DEF Inputs
<1>2. /\ caller.all => caller.readable = Items
      /\ request.body.kind \notin {"object", "text"} =>
            request.body.fields = NoFields
   BY DispatchAssumption DEF Inputs
<1>3. caller.readable \subseteq Items
   BY <1>1 DEF Caller
<1>4. /\ request.method \in {"GET", "POST"}
      /\ request.body \in [kind : BodyKinds \ {"unread"}, fields : FieldMaps]
      /\ request.query \in FieldMaps
   BY <1>1 DEF Request
<1> QED
   BY <1>1, <1>2, <1>3, <1>4

(* A map of fields is the empty one if it has no field.                    *)
LEMMA NoFieldsIsEmpty ==
   /\ DOMAIN NoFields = {}
   /\ \A q \in FieldMaps : DOMAIN q = {} => q = NoFields
   /\ \A q, S : DOMAIN Without(q, S) = {} => Without(q, S) = NoFields
   /\ \A S : Without(NoFields, S) = NoFields
<1>1. DOMAIN NoFields = {}
   BY DEF NoFields
<1>2. ASSUME NEW q \in FieldMaps, DOMAIN q = {} PROVE q = NoFields
   <2>1. PICK fs \in SUBSET Fields : q \in [fs -> Values]
      BY <1>2 DEF FieldMaps
   <2>2. q = [f \in {} |-> q[f]]
      BY <1>2, <2>1
   <2> QED
      BY <2>2 DEF NoFields
<1>3. ASSUME NEW q, NEW S, DOMAIN Without(q, S) = {}
      PROVE  Without(q, S) = NoFields
   <2>1. DOMAIN q \ S = {}
      BY <1>3 DEF Without
   <2> QED
      BY <2>1 DEF Without, NoFields
<1>4. ASSUME NEW S PROVE Without(NoFields, S) = NoFields
   <2>1. DOMAIN NoFields \ S = {}
      BY <1>1
   <2> QED
      BY <2>1 DEF Without, NoFields
<1> QED
   BY <1>1, <1>2, <1>3, <1>4

(* What With and Without make of a map of fields.                          *)
LEMMA WithFields ==
   ASSUME NEW q, NEW f, NEW v
   PROVE  /\ DOMAIN With(q, f, v) = DOMAIN q \cup {f}
          /\ With(q, f, v)[f] = v
          /\ \A g \in DOMAIN q \ {f} : With(q, f, v)[g] = q[g]
BY DEF With

LEMMA WithoutFields ==
   ASSUME NEW q, NEW S
   PROVE  /\ DOMAIN Without(q, S) = DOMAIN q \ S
          /\ \A g \in DOMAIN q \ S : Without(q, S)[g] = q[g]
BY DEF Without

(* What is handed over of the fields of x.                                 *)
LEMMA HandedFields ==
   ASSUME NEW x
   PROVE  /\ Handed(x).method = request.method
          /\ x.body.kind = "object" => Handed(x).body = x.body
          /\ x.body.kind # "object" => Handed(x).body = request.body
          /\ x.query = request.query => Handed(x).query = x.query
          /\ x.query # request.query => Handed(x).query = Encoded(x.query)
          /\ \A f \in DOMAIN Handed(x).query :
                f \in DOMAIN x.query /\ Handed(x).query[f] = x.query[f]
          /\ \A f \in DOMAIN x.query :
                x.query[f] # List({}) => f \in DOMAIN Handed(x).query
BY WithoutFields DEF Handed, Encoded, Without

(* A search or listing by query is answered from the one field it has.     *)
LEMMA QueryRead ==
   ASSUME Inputs, NEW x, policy # "workspaces",
          request.method = "GET" \/ policy \in McpSearchPolicies,
          "field" \in DOMAIN x.query, x.query["field"] # List({}),
          policy = "request_list_scorers" => "single" \notin DOMAIN x.query
   PROVE  Shown(x) = {e \in Items : e \in x.query["field"].of}
<1> DEFINE q == Handed(x).query
<1>1. /\ "field" \in DOMAIN q /\ q["field"] = x.query["field"]
      /\ policy = "request_list_scorers" => "single" \notin DOMAIN q
   BY HandedFields
<1>2. q # NoFields
   BY <1>1, NoFieldsIsEmpty
<1>3. Honoured(Handed(x)) = Without(q, {"alias"})
   BY <1>2, HandedFields DEF Honoured, Source, McpSearchPolicies
<1>4. /\ DOMAIN Without(q, {"alias"}) = DOMAIN q \ {"alias"}
      /\ Without(q, {"alias"})["field"] = q["field"]
   <2> HIDE DEF q
   <2>1. "field" \in DOMAIN q \ {"alias"}
      BY <1>1
   <2> QED
      BY <2>1, WithoutFields
<1>5. SelectedBy(Without(q, {"alias"})) = {e \in Items : e \in q["field"].of}
   <2> DEFINE w == Without(q, {"alias"})
   <2>1. DOMAIN w \cap {"field", "alias"} = {"field"}
      BY <1>1, <1>4
   <2>2. ~(policy = "request_list_scorers" /\ "single" \in DOMAIN w)
      BY <1>1, <1>4
   <2>3. w["field"] = q["field"] /\ w["field"] # List({})
      BY <1>1, <1>4
   <2> HIDE DEF w
   <2>4. SelectedBy(w) = {e \in Items : e \in w["field"].of}
      BY <2>1, <2>2, <2>3 DEF SelectedBy, Stated, Missing
   <2> QED
      BY <2>3, <2>4 DEF w
<1> QED
   BY <1>1, <1>3, <1>5 DEF Shown, Selected

(* A request by POST, or one by GET that has no query, is answered from    *)
(* its body.                                                               *)
LEMMA BodyRead ==
   ASSUME Inputs, NEW x, policy \notin McpSearchPolicies \cup {"workspaces"},
          \/ request.method = "POST"
          \/ Handed(x).query = NoFields /\ policy # "request_list_scorers"
   PROVE  Shown(x) = SelectedBy(Handed(x).body.fields)
<1>1. Handed(x).method = request.method
   BY HandedFields
<1>2. Honoured(Handed(x)) = Handed(x).body.fields
   BY <1>1 DEF Honoured, Source
<1> QED
   BY <1>2 DEF Shown, Selected

(* What a field selects is in the field; nothing is selected by a field    *)
(* that is required and missing.                                           *)
LEMMA SelectedInField ==
   ASSUME NEW fields, "field" \in DOMAIN fields,
          policy # "request_list_scorers",
          fields["field"] # List({}) \/ policy \notin MessagePolicies
   PROVE  SelectedBy(fields) \subseteq fields["field"].of
BY DEF SelectedBy, Stated, Missing

LEMMA NothingSelected ==
   ASSUME NEW fields, policy \in RequiredPolicies,
          {"field", "alias"} \cap DOMAIN fields = {}
   PROVE  SelectedBy(fields) = {}
<1>1. policy # "request_list_scorers"
   BY DEF RequiredPolicies, IdPolicies
<1> QED
   BY <1>1 DEF SelectedBy, Stated

LEMMA SelectedInItems ==
   /\ \A x : Selected(x) \subseteq Items
   /\ \A x : Shown(x) \subseteq Items
   /\ Asked \subseteq Items
<1>1. \A fields : SelectedBy(fields) \subseteq Items
   BY DEF SelectedBy
<1> QED
   BY <1>1 DEF Selected, Shown, Asked

(* What is in each list that a request states, it selects.                 *)
LEMMA SelectsWhatItStates ==
   ASSUME NEW fields, NEW S \in SUBSET Items,
          \A f \in {"field", "alias"} \cap DOMAIN fields : S \subseteq fields[f].of,
          ~(policy = "request_list_scorers" /\ "single" \in DOMAIN fields),
          \/ policy \notin RequiredPolicies
          \/ {"field", "alias"} \cap DOMAIN fields # {}
   PROVE  S \subseteq SelectedBy(fields)
<1>1. policy \in RequiredPolicies => policy \notin MessagePolicies
   BY DEF RequiredPolicies, IdPolicies, MessagePolicies, AuthorizedIdPolicies,
          BodySearchPolicies, ModelSearchPolicies
<1> QED
   BY <1>1 DEF SelectedBy, Stated, Missing

LEMMA AskedOfQuery ==
   ASSUME Inputs, policy # "workspaces",
          \/ policy \in McpSearchPolicies
          \/ request.method = "GET" /\ request.query # NoFields,
          NEW S \in SUBSET Items,
          "field" \in DOMAIN request.query => S \subseteq request.query["field"].of,
          ~(policy = "request_list_scorers" /\ "single" \in DOMAIN request.query),
          policy \notin RequiredPolicies \/ "field" \in DOMAIN request.query
   PROVE  S \subseteq Asked
<1> DEFINE w == Without(request.query, {"alias"})
<1>1. /\ DOMAIN w = DOMAIN request.query \ {"alias"}
      /\ "field" \in DOMAIN request.query => w["field"] = request.query["field"]
   BY DEF Without
<1>2. Asked = SelectedBy(w)
   BY DEF Asked, Source, Arrived
<1> HIDE DEF w
<1>3. S \subseteq SelectedBy(w)
   BY <1>1, SelectsWhatItStates
<1> QED
   BY <1>2, <1>3

LEMMA AskedOfBody ==
   ASSUME Inputs, policy \notin McpSearchPolicies \cup {"workspaces"},
          request.method = "POST" \/ request.query = NoFields
   PROVE  Asked = SelectedBy(request.body.fields)
<1>1. /\ Arrived(request).method = request.method
      /\ Arrived(request).query = request.query
      /\ Arrived(request).body = request.body
   BY DEF Arrived
<1>2. Source(Arrived(request)) = Arrived(request).body.fields
   BY <1>1 DEF Source
<1> QED
   BY <1>1, <1>2 DEF Asked

-----------------------------------------------------------------------------
(* Requests by their parts.                                                *)
Parts(m, q, k, f) == [method |-> m, query |-> q, body |-> Body(k, f)]

LEMMA PartsOf ==
   ASSUME NEW m, NEW q, NEW k, NEW f
   PROVE  /\ Parts(m, q, k, f).method = m
          /\ Parts(m, q, k, f).query = q
          /\ Parts(m, q, k, f).body = Body(k, f)
          /\ Parts(m, q, k, f).body.kind = k
          /\ Parts(m, q, k, f).body.fields = f
BY DEF Parts, Body

(* What the updates of a request make of its parts.                        *)
LEMMA SetQueryParts ==
   ASSUME NEW m, NEW q, NEW k, NEW f, NEW p
   PROVE  SetQuery(Parts(m, q, k, f), p) = Parts(m, p, k, f)
BY DEF Parts, Body, SetQuery

LEMMA SetFieldsParts ==
   ASSUME NEW m, NEW q, NEW k, NEW f, NEW g
   PROVE  SetFields(Parts(m, q, k, f), g) = Parts(m, q, k, g)
BY DEF Parts, Body, SetFields

LEMMA PartsOfArrived ==
   ASSUME Inputs
   PROVE  /\ Whole = Parts(request.method, request.query, request.body.kind,
                           request.body.fields)
          /\ Unread = Parts(request.method, request.query, "unread", NoFields)
<1>1. request.body = Body(request.body.kind, request.body.fields)
   BY InputTypes DEF Request, Body
<1> QED
   BY <1>1 DEF Whole, Unread, Arrived, Parts

(* A request that is not narrowed is left as it was.                       *)
LEMMA RefusedIsKept ==
   ASSUME NEW c, NEW p, NEW who, ~ApplyFilter(c, p, who).applied
   PROVE  ApplyFilter(c, p, who).request = c
<1> USE DEF Applied, NotApplied
<1>1. \A S : ~FilterIds(c, S).applied => FilterIds(c, S).request = c
   BY DEF FilterIds
<1>2. \A S : ~FilterSingleId(c, S).applied => FilterSingleId(c, S).request = c
   BY DEF FilterSingleId
<1>3. \A S : ~FilterLocations(c, S).applied => FilterLocations(c, S).request = c
   BY DEF FilterLocations
<1>4. ~FilterAuthorizedIds(c, who).applied =>
         FilterAuthorizedIds(c, who).request = c
   BY DEF FilterAuthorizedIds
<1>5. ~FilterScorers(c, who).applied => FilterScorers(c, who).request = c
   BY <1>4 DEF FilterScorers
<1>6. ~FilterSearch(c, p, who).applied => FilterSearch(c, p, who).request = c
   BY DEF FilterSearch
<1>7. ~FilterQuerySearch(c, p, who).applied =>
         FilterQuerySearch(c, p, who).request = c
   BY DEF FilterQuerySearch
<1> QED
   BY <1>1, <1>2, <1>3, <1>4, <1>5, <1>6, <1>7 DEF ApplyFilter

(* A whole request as normalization leaves it: decoded, or with the fields *)
(* of its body as its query.                                               *)
Decoded ==
   Parts(request.method, request.query,
         IF request.body.kind = "text" THEN "object" ELSE request.body.kind,
         request.body.fields)

Moved ==
   LET fields == request.body.fields
   IN Parts("GET",
            Without(IF "alias" \in DOMAIN fields
                       THEN With(fields, "field", fields["alias"]) ELSE fields,
                    {"alias"}),
            "none", NoFields)

Moves ==
   /\ request.method = "GET" /\ request.query = NoFields
   /\ request.body.kind \in {"object", "text"}
   /\ ~({"field", "alias"} \subseteq DOMAIN request.body.fields)
   /\ \A f \in DOMAIN request.body.fields : request.body.fields[f].shape # "odd"

StaysPut ==
   /\ request.body.kind # "garbled"
   /\ \/ request.body.kind \notin {"object", "text"}
      \/ request.method # "GET"
      \/ request.query # NoFields

LEMMA NormalizedWhole ==
   ASSUME Inputs
   PROVE  /\ Moves => Normalize(Whole) = Applied(Moved)
          /\ StaysPut => Normalize(Whole) = Applied(Decoded)
          /\ ~Moves /\ ~StaysPut =>
                Normalize(Whole) \in {NotApplied(Whole), NotApplied(Decoded)}
<1> DEFINE fields == request.body.fields
           kind == request.body.kind
           decoded == IF kind = "text" THEN [Whole EXCEPT !.body.kind = "object"]
                      ELSE Whole
           moved == Without(IF "alias" \in DOMAIN fields
                               THEN With(fields, "field", fields["alias"])
                               ELSE fields, {"alias"})
           emptied == [decoded EXCEPT !.body = Body("none", NoFields)]
<1>1. /\ Whole = Parts(request.method, request.query, kind, fields)
      /\ Whole.body.kind = kind /\ Whole.method = request.method
      /\ Whole.query = request.query
   BY PartsOfArrived, PartsOf
<1>2. [Whole EXCEPT !.body.kind = "object"] =
         Parts(request.method, request.query, "object", fields)
   BY <1>1 DEF Parts, Body
<1>3. decoded = Decoded
   BY <1>1, <1>2 DEF Decoded
<1>4. /\ Decoded.body.kind = (IF kind = "text" THEN "object" ELSE kind)
      /\ Decoded.body.fields = fields
   BY PartsOf DEF Decoded
<1>5. emptied = Parts(request.method, request.query, "none", NoFields)
   BY <1>3 DEF Decoded, Parts, Body
<1>6. request.method = "GET" => SetQuery(emptied, moved) = Moved
   <2> HIDE DEF emptied
   <2>1. SetQuery(emptied, moved) = Parts(request.method, moved, "none", NoFields)
      BY <1>5, SetQueryParts
   <2> QED
      BY <2>1 DEF Moved
<1>7. Normalize(Whole) =
         IF Whole.body.kind = "garbled" THEN NotApplied(Whole)
         ELSE IF decoded.body.kind # "object" \/ Whole.method # "GET"
                 \/ Whole.query # NoFields
            THEN Applied(decoded)
         ELSE IF \/ {"field", "alias"} \subseteq DOMAIN decoded.body.fields
                 \/ \E f \in DOMAIN decoded.body.fields :
                       decoded.body.fields[f].shape = "odd"
            THEN NotApplied(decoded)
         ELSE Applied(SetQuery(emptied,
                 Without(IF "alias" \in DOMAIN decoded.body.fields
                            THEN With(decoded.body.fields, "field",
                                      decoded.body.fields["alias"])
                            ELSE decoded.body.fields, {"alias"})))
   BY <1>1 DEF Normalize
<1> HIDE DEF decoded, emptied
<1>8. Normalize(Whole) =
         IF kind = "garbled" THEN NotApplied(Whole)
         ELSE IF (IF kind = "text" THEN "object" ELSE kind) # "object"
                 \/ request.method # "GET" \/ request.query # NoFields
            THEN Applied(Decoded)
         ELSE IF \/ {"field", "alias"} \subseteq DOMAIN fields
                 \/ \E f \in DOMAIN fields : fields[f].shape = "odd"
            THEN NotApplied(Decoded)
         ELSE Applied(SetQuery(emptied, moved))
   BY <1>1, <1>3, <1>4, <1>7
<1> QED
   BY <1>6, <1>8 DEF Moves, StaysPut

(* To normalize a request again changes nothing.                           *)
LEMMA NormalizeTwice ==
   ASSUME Inputs
   PROVE  /\ Moves => Normalize(Moved) = Applied(Moved)
          /\ StaysPut => Normalize(Decoded) = Applied(Decoded)
          /\ ~Moves /\ ~StaysPut => ~Normalize(Normalize(Whole).request).applied
<1>1. Moved.body.kind = "none"
   BY PartsOf DEF Moved
<1>2. Normalize(Moved) = Applied(Moved)
   BY <1>1 DEF Normalize
<1>3. /\ Decoded.body.kind =
            (IF request.body.kind = "text" THEN "object" ELSE request.body.kind)
      /\ Decoded.method = request.method /\ Decoded.query = request.query
      /\ Decoded.body.fields = request.body.fields
   BY PartsOf DEF Decoded
<1>4. StaysPut => Normalize(Decoded) = Applied(Decoded)
   BY <1>3 DEF Normalize, StaysPut
<1>5. ASSUME ~Moves, ~StaysPut
      PROVE  ~Normalize(Normalize(Whole).request).applied
   <2>1. CASE request.body.kind = "garbled"
      <3>1. Normalize(Whole).request \in {Whole, Decoded}
         BY <1>5, NormalizedWhole DEF NotApplied
      <3>2. Whole.body.kind = "garbled" /\ Decoded.body.kind = "garbled"
         BY <1>3, <2>1, PartsOfArrived, PartsOf
      <3>3. ~Normalize(Whole).applied /\ ~Normalize(Decoded).applied
         BY <3>2 DEF Normalize, NotApplied
      <3> QED
         BY <3>1, <3>3
   <2>2. CASE request.body.kind # "garbled"
      <3>1. /\ request.body.kind \in {"object", "text"}
            /\ request.method = "GET" /\ request.query = NoFields
         BY <1>5, <2>2 DEF StaysPut
      <3>2. \/ {"field", "alias"} \subseteq DOMAIN request.body.fields
            \/ \E f \in DOMAIN request.body.fields :
                  request.body.fields[f].shape = "odd"
         BY <1>5, <3>1 DEF Moves
      <3>3. Decoded.body.kind = "object"
         BY <1>3, <3>1
      <3>4. ~Normalize(Decoded).applied
         BY <1>3, <3>1, <3>2, <3>3 DEF Normalize, NotApplied
      <3>5. ~Normalize(Whole).applied
         BY <1>5, NormalizedWhole DEF NotApplied
      <3>6. Normalize(Whole).request \in {Whole, Decoded}
         BY <1>5, NormalizedWhole DEF NotApplied
      <3> QED
         BY <3>4, <3>5, <3>6
   <2> QED
      BY <2>1, <2>2
<1> QED
   BY <1>2, <1>4, <1>5

(* What is read of a request that can be narrowed: its normal form if it   *)
(* is a protobuf message; if not, what is known of it before and after the *)
(* body has been read.                                                     *)
Readings ==
   IF policy \in MessagePolicies
      THEN (IF Moves THEN {Moved} ELSE {}) \cup (IF StaysPut THEN {Decoded} ELSE {})
      ELSE {Unread} \cup
           IF request.method = "POST" \/ request.query = NoFields
              THEN {Whole} ELSE {}

LEMMA ReadingTypes ==
   ASSUME Inputs, NEW c \in Readings
   PROVE  /\ c = Parts(c.method, c.query, c.body.kind, c.body.fields)
          /\ c.method = request.method
          /\ c \in {Unread, Whole, Decoded} => c.query = request.query
          /\ c \in {Whole, Decoded} => c.body.fields = request.body.fields
          /\ c = Whole => c.body.kind = request.body.kind
          /\ c = Unread => c.body.kind = "unread" /\ c.body.fields = NoFields
<1>1. CASE c = Moved /\ Moves
   <2>1. /\ c.method = "GET" /\ c.body.kind = "none" /\ c.body.fields = NoFields
         /\ c = Parts("GET", c.query, "none", NoFields)
      BY <1>1, PartsOf DEF Moved
   <2>2. request.body.kind \in {"object", "text"} /\ request.query = NoFields
      BY <1>1 DEF Moves
   <2>3. Unread.body.kind = "unread" /\ Whole.body.kind \in {"object", "text"}
      BY <2>2, PartsOfArrived, PartsOf
   <2>4. Decoded.body.kind = "object"
      BY <2>2, PartsOf DEF Decoded
   <2> QED
      BY <1>1, <2>1, <2>3, <2>4 DEF Moves
<1>2. CASE c = Decoded /\ StaysPut
   <2>1. /\ c.method = request.method /\ c.query = request.query
         /\ c.body.fields = request.body.fields
         /\ c.body.kind = (IF request.body.kind = "text" THEN "object"
                           ELSE request.body.kind)
         /\ c.body.kind # "unread"
      BY <1>2, PartsOf, InputTypes DEF Decoded
   <2>2. c = Parts(c.method, c.query, c.body.kind, c.body.fields)
      BY <1>2, <2>1 DEF Decoded
   <2>3. Unread.body.kind = "unread" /\ Whole.body.kind = request.body.kind
      BY PartsOfArrived, PartsOf
   <2> QED
      BY <2>1, <2>2, <2>3
<1>3. CASE c = Unread
   <2>1. /\ c = Parts(request.method, request.query, "unread", NoFields)
         /\ Whole.body.kind # "unread"
      BY <1>3, PartsOfArrived, PartsOf, InputTypes
   <2>2. /\ c.method = request.method /\ c.query = request.query
         /\ c.body.kind = "unread" /\ c.body.fields = NoFields
      BY <2>1, PartsOf
   <2>3. Decoded.body.kind # "unread"
      BY PartsOf, InputTypes DEF Decoded
   <2> QED
      BY <2>1, <2>2, <2>3
<1>4. CASE c = Whole
   <2>1. c = Parts(request.method, request.query, request.body.kind,
                   request.body.fields)
      BY <1>4, PartsOfArrived
   <2>2. /\ c.method = request.method /\ c.query = request.query
         /\ c.body.kind = request.body.kind
         /\ c.body.fields = request.body.fields
      BY <2>1, PartsOf
   <2>3. c # Unread
      BY <2>2, PartsOfArrived, PartsOf, InputTypes
   <2> QED
      BY <2>1, <2>2, <2>3
<1> QED
   BY <1>1, <1>2, <1>3, <1>4 DEF Readings

(* The query that a body becomes has its fields, by their names.           *)
LEMMA MovedFields ==
   ASSUME Inputs, Moves
   PROVE  /\ \A f \in DOMAIN request.body.fields \ {"alias"} :
                /\ f \in DOMAIN Moved.query
                /\ Moved.query[f] = request.body.fields[f]
          /\ "alias" \in DOMAIN request.body.fields =>
                /\ "field" \in DOMAIN Moved.query
                /\ Moved.query["field"] = request.body.fields["alias"]
          /\ "alias" \notin DOMAIN Moved.query
          /\ \A f \in DOMAIN Moved.query :
                \/ f \in DOMAIN request.body.fields
                \/ f = "field" /\ "alias" \in DOMAIN request.body.fields
<1> DEFINE fields == request.body.fields
           w == IF "alias" \in DOMAIN fields
                   THEN With(fields, "field", fields["alias"]) ELSE fields
<1>1. Moved.query = Without(w, {"alias"})
   BY PartsOf DEF Moved
<1>2. ~({"field", "alias"} \subseteq DOMAIN fields)
   BY DEF Moves
<1>3. CASE "alias" \in DOMAIN fields
   <2>1. /\ w = With(fields, "field", fields["alias"])
         /\ "field" \notin DOMAIN fields
      BY <1>2, <1>3
   <2>2. /\ DOMAIN w = DOMAIN fields \cup {"field"}
         /\ w["field"] = fields["alias"]
         /\ \A f \in DOMAIN fields : w[f] = fields[f]
      BY <2>1 DEF With
   <2> HIDE DEF w, fields
   <2> QED
      BY <1>1, <1>3, <2>1, <2>2 DEF Without, fields
<1>4. CASE "alias" \notin DOMAIN fields
   <2>1. w = fields
      BY <1>4
   <2> HIDE DEF w
   <2>2. Moved.query = Without(fields, {"alias"})
      BY <1>1, <2>1
   <2> HIDE DEF fields
   <2>3. /\ DOMAIN Moved.query = DOMAIN fields
         /\ \A f \in DOMAIN fields : Moved.query[f] = fields[f]
      BY <1>4, <2>2 DEF Without
   <2> QED
      BY <1>4, <2>3 DEF fields
<1> QED
   BY <1>3, <1>4

(* A request by GET asks for whatever is in the list of its reading.       *)
LEMMA AskedByGet ==
   ASSUME Inputs, policy # "workspaces", request.method = "GET",
          NEW c \in Readings, NEW S \in SUBSET Items,
          "field" \in DOMAIN c.query => S \subseteq c.query["field"].of,
          ~(policy = "request_list_scorers" /\ "single" \in DOMAIN c.query),
          policy \notin RequiredPolicies \/ "field" \in DOMAIN c.query,
          \/ policy \in MessagePolicies \cup McpSearchPolicies
          \/ c.query # NoFields
   PROVE  S \subseteq Asked
<1>1. CASE c.query = request.query /\ policy \in McpSearchPolicies
   BY <1>1, AskedOfQuery
<1>2. CASE c.query = request.query /\ request.query # NoFields
   BY <1>2, AskedOfQuery
<1>3. CASE /\ policy \in MessagePolicies /\ StaysPut /\ c = Decoded
           /\ request.query = NoFields
   <2>1. request.body.fields = NoFields
      BY <1>3, InputTypes DEF StaysPut
   <2>2. DOMAIN request.body.fields = {}
      BY <2>1, NoFieldsIsEmpty
   <2>3. policy \notin McpSearchPolicies /\ policy \notin RequiredPolicies
      BY <1>3 DEF RequiredPolicies, IdPolicies, MessagePolicies, McpSearchPolicies,
                  AuthorizedIdPolicies, BodySearchPolicies, ModelSearchPolicies
   <2>4. Asked = SelectedBy(request.body.fields)
      BY <1>3, <2>3, AskedOfBody
   <2> QED
      BY <2>2, <2>3, <2>4, SelectsWhatItStates
<1>4. CASE policy \in MessagePolicies /\ Moves /\ c = Moved
   <2>1. policy \notin McpSearchPolicies /\ policy \notin RequiredPolicies
      BY <1>4 DEF RequiredPolicies, IdPolicies, MessagePolicies, McpSearchPolicies,
                  AuthorizedIdPolicies, BodySearchPolicies, ModelSearchPolicies
   <2>2. Asked = SelectedBy(request.body.fields)
      BY <1>4, <2>1, AskedOfBody DEF Moves
   <2>3. \A f \in {"field", "alias"} \cap DOMAIN request.body.fields :
            S \subseteq request.body.fields[f].of
      BY <1>4, MovedFields
   <2>4. ~(policy = "request_list_scorers"
           /\ "single" \in DOMAIN request.body.fields)
      BY <1>4, MovedFields
   <2> QED
      BY <2>1, <2>2, <2>3, <2>4, SelectsWhatItStates
<1> QED
   BY <1>1, <1>2, <1>3, <1>4, ReadingTypes DEF Readings

(* Nothing is asked for by GET that is not in that list, if it is stated.  *)
LEMMA AskedInQuery ==
   ASSUME Inputs, policy # "workspaces", request.method = "GET",
          NEW c \in Readings, "field" \in DOMAIN c.query,
          c.query["field"] # List({}),
          ~(policy = "request_list_scorers" /\ "single" \in DOMAIN c.query)
   PROVE  Asked \subseteq c.query["field"].of
<1>1. ASSUME NEW fields, NEW f \in {"field", "alias"} \cap DOMAIN fields,
             fields[f] # List({}),
             ~(policy = "request_list_scorers" /\ "single" \in DOMAIN fields)
      PROVE  SelectedBy(fields) \subseteq fields[f].of
   BY <1>1 DEF SelectedBy, Stated, Missing
<1>2. CASE c.query = request.query
   <2> DEFINE w == Without(request.query, {"alias"})
   <2>1. /\ DOMAIN w = DOMAIN request.query \ {"alias"}
         /\ w["field"] = request.query["field"]
      BY <1>2 DEF Without
   <2>2. request.query # NoFields
      BY <1>2, NoFieldsIsEmpty
   <2>3. Asked = SelectedBy(w)
      BY <2>2 DEF Asked, Source, Arrived
   <2> HIDE DEF w
   <2> QED
      BY <1>1, <1>2, <2>1, <2>3
<1>3. CASE policy \in MessagePolicies /\ Moves /\ c = Moved
   <2>1. policy \notin McpSearchPolicies
      BY <1>3 DEF MessagePolicies, McpSearchPolicies, AuthorizedIdPolicies,
                  BodySearchPolicies, ModelSearchPolicies
   <2>2. Asked = SelectedBy(request.body.fields)
      BY <1>3, <2>1, AskedOfBody DEF Moves
   <2>3. PICK f \in {"field", "alias"} \cap DOMAIN request.body.fields :
            c.query["field"] = request.body.fields[f]
      BY <1>3, MovedFields
   <2>4. ~(policy = "request_list_scorers"
           /\ "single" \in DOMAIN request.body.fields)
      BY <1>3, MovedFields
   <2> QED
      BY <1>1, <2>2, <2>3, <2>4
<1> QED
   BY <1>2, <1>3, ReadingTypes DEF Readings

-----------------------------------------------------------------------------
(* What x is answered with is both readable and asked for.                 *)
Within(x) == Shown(x) \subseteq Asked \cap caller.readable

(* If the request selects in one place, and the rules review mentions what *)
(* its caller may read, it is answered with all that is both.              *)
Careful == OneSource /\ OnlyBody /\ caller.readable \subseteq caller.candidates
Keeps(x) == Careful => Asked \cap caller.readable \subseteq Shown(x)

LEMMA WithinByQuery ==
   ASSUME Inputs, policy # "workspaces", request.method = "GET",
          NEW c \in Readings, NEW v, v # List({}), v.of \subseteq caller.readable,
          "field" \in DOMAIN c.query => v.of \subseteq c.query["field"].of,
          ~(policy = "request_list_scorers" /\ "single" \in DOMAIN c.query),
          policy \notin RequiredPolicies \/ "field" \in DOMAIN c.query,
          \/ policy \in MessagePolicies \cup McpSearchPolicies
          \/ c.query # NoFields,
          NEW x, x.query = With(c.query, "field", v)
   PROVE  Within(x)
<1>1. /\ DOMAIN x.query = DOMAIN c.query \cup {"field"}
      /\ x.query["field"] = v
   BY DEF With
<1>2. policy = "request_list_scorers" => "single" \notin DOMAIN x.query
   BY <1>1
<1>3. Shown(x) = {e \in Items : e \in v.of}
   BY <1>1, <1>2, QueryRead
<1>4. v.of \subseteq Items
   BY InputTypes
<1>5. v.of \subseteq Asked
   BY <1>4, AskedByGet
<1> QED
   BY <1>3, <1>5 DEF Within

LEMMA KeepsByQuery ==
   ASSUME Inputs, policy # "workspaces", request.method = "GET",
          NEW c, NEW v, v # List({}),
          ~(policy = "request_list_scorers" /\ "single" \in DOMAIN c.query),
          NEW x, x.query = With(c.query, "field", v),
          Careful => Asked \cap caller.readable \subseteq v.of
   PROVE  Keeps(x)
<1>1. /\ DOMAIN x.query = DOMAIN c.query \cup {"field"}
      /\ x.query["field"] = v
   BY DEF With
<1>2. policy = "request_list_scorers" => "single" \notin DOMAIN x.query
   BY <1>1
<1>3. Shown(x) = {e \in Items : e \in v.of}
   BY <1>1, <1>2, QueryRead
<1>4. caller.readable \subseteq Items
   BY InputTypes
<1> QED
   BY <1>3, <1>4 DEF Keeps

-----------------------------------------------------------------------------
(* What one map of fields selects, another does that states no more.       *)
LEMMA SelectsMore ==
   ASSUME NEW w, NEW fields, policy \notin RequiredPolicies,
          policy = "request_list_scorers" =>
             /\ "single" \in Stated(w) <=> "single" \in Stated(fields)
             /\ "single" \in Stated(w) => w["single"] = fields["single"],
          \A f \in Stated(fields) \cap {"field", "alias"} :
             \E g \in Stated(w) \cap {"field", "alias"} : w[g] = fields[f]
   PROVE  SelectedBy(w) \subseteq SelectedBy(fields)
<1>1. CASE policy = "request_list_scorers" /\ "single" \in Stated(w)
   BY <1>1 DEF SelectedBy
<1>2. CASE ~(policy = "request_list_scorers" /\ "single" \in Stated(w))
   BY <1>2 DEF SelectedBy
<1> QED
   BY <1>1, <1>2

(* A reading that is not narrowed is answered with what was asked for: all *)
(* of its fields are handed over that can be stated, unless it is the list *)
(* of ids of a listing of scorers.                                         *)
LEMMA UnmovedAsks ==
   ASSUME Inputs, policy # "workspaces", NEW c,
          c.query = request.query,
          c.body.kind = "object" => c.body.fields = request.body.fields,
          ~(/\ policy = "request_list_scorers" /\ request.method = "GET"
            /\ request.query = NoFields)
   PROVE  Shown(c) = Asked
<1> DEFINE h == Handed(c)
           a == Arrived(request)
<1>1. /\ h.method = request.method /\ h.query = request.query
      /\ h.body.fields = request.body.fields
   BY HandedFields
<1>2. /\ a.method = request.method /\ a.query = request.query
      /\ a.body.fields = request.body.fields
   BY DEF Arrived
<1> HIDE DEF h, a
<1>3. Source(h) = Source(a)
   BY <1>1, <1>2 DEF Source
<1>4. Honoured(h) = Source(h)
   BY <1>1 DEF Honoured
<1> QED
   BY <1>3, <1>4 DEF Shown, Selected, Asked, h, a

LEMMA MovedAsks ==
   ASSUME Inputs, policy \in MessagePolicies, Moves,
          policy = "request_list_scorers" =>
             ~("field" \in DOMAIN Moved.query /\ Moved.query["field"] = List({}))
   PROVE  Shown(Moved) = Asked
<1> DEFINE fields == request.body.fields
           q == Handed(Moved).query
           w == Without(q, {"alias"})
<1>1. /\ policy \notin McpSearchPolicies /\ policy \notin RequiredPolicies
      /\ policy # "workspaces"
   BY DEF RequiredPolicies, IdPolicies, MessagePolicies, McpSearchPolicies,
          AuthorizedIdPolicies, BodySearchPolicies, ModelSearchPolicies
<1>2. Asked = SelectedBy(fields)
   BY <1>1, AskedOfBody DEF Moves
<1>3. request.method = "GET" /\ request.query = NoFields
   BY DEF Moves
<1>4. CASE q = NoFields
   <2>1. \A f \in DOMAIN Moved.query : Moved.query[f] = List({})
      BY <1>4, HandedFields, NoFieldsIsEmpty
   <2>2. \A f \in DOMAIN fields \cap {"field", "alias", "single"} :
            Missing(fields, f)
      BY <2>1, MovedFields DEF Missing
   <2>3. Stated(fields) \cap {"field", "alias", "single"} = {}
      BY <2>2 DEF Stated
   <2>4. SelectedBy(fields) = Items
      BY <1>1, <2>3 DEF SelectedBy
   <2> DEFINE h == Honoured(Handed(Moved))
   <2>5. Handed(Moved).body = request.body
      <3>1. Moved.body.kind = "none"
         BY PartsOf DEF Moved
      <3> QED
         BY <3>1, HandedFields
   <2>6. h = fields \/ h = Without(fields, {"field", "alias"})
      BY <1>1, <1>4, <2>5 DEF Honoured, Source
   <2>7. \A f \in DOMAIN h : f \in DOMAIN fields /\ h[f] = fields[f]
      BY <2>6 DEF Without
   <2> HIDE DEF h
   <2>8. Stated(h) \cap {"field", "alias", "single"} = {}
      BY <2>2, <2>7 DEF Stated, Missing
   <2>9. SelectedBy(h) = Items
      BY <1>1, <2>8 DEF SelectedBy
   <2> QED
      BY <1>1, <1>2, <2>4, <2>9 DEF Shown, Selected, h
<1>5. CASE q # NoFields
   <2>1. Shown(Moved) = SelectedBy(w)
      <3>1. Handed(Moved).method = "GET"
         BY <1>3, HandedFields
      <3>2. Source(Handed(Moved)) = w
         BY <1>5, <3>1 DEF Source
      <3>3. Honoured(Handed(Moved)) = w
         BY <1>5, <3>2 DEF Honoured
      <3> QED
         BY <1>1, <3>3 DEF Shown, Selected
   <2>2. q = Encoded(Moved.query)
      BY <1>3, <1>5, HandedFields
   <2>3. /\ DOMAIN q = {f \in DOMAIN Moved.query : Moved.query[f] # List({})}
         /\ \A f \in DOMAIN q : q[f] = Moved.query[f]
      BY <2>2 DEF Encoded, Without
   <2> HIDE DEF q
   <2>4. /\ DOMAIN w = DOMAIN q \ {"alias"}
         /\ \A f \in DOMAIN w : w[f] = q[f]
      BY DEF Without
   <2> HIDE DEF w
   <2>5. \A f \in DOMAIN w : w[f] # List({}) /\ f \in Stated(w)
      BY <2>3, <2>4 DEF Stated, Missing
   <2>6. ASSUME NEW f \in Stated(fields) \cap {"field", "alias"}
         PROVE  \E g \in Stated(w) \cap {"field", "alias"} : w[g] = fields[f]
      <3>1. "field" \in DOMAIN Moved.query /\ Moved.query["field"] = fields[f]
         BY <2>6, MovedFields DEF Stated
      <3>2. Moved.query["field"] # List({})
         BY <2>6, <3>1 DEF Stated, Missing
      <3> QED
         BY <2>3, <2>4, <2>5, <3>1, <3>2
   <2>7. ASSUME policy = "request_list_scorers"
         PROVE  /\ "single" \in Stated(w) <=> "single" \in Stated(fields)
                /\ "single" \in Stated(w) => w["single"] = fields["single"]
      <3>1. "single" \in DOMAIN Moved.query <=> "single" \in DOMAIN fields
         BY MovedFields
      <3>2. "single" \in DOMAIN fields => Moved.query["single"] = fields["single"]
         BY MovedFields
      <3>3. "single" \in Stated(fields) <=>
               "single" \in DOMAIN fields /\ fields["single"] # List({})
         BY <2>7 DEF Stated, Missing
      <3>4. "single" \in Stated(w) <=> "single" \in DOMAIN w
         BY <2>5 DEF Stated
      <3> QED
         BY <2>3, <2>4, <3>1, <3>2, <3>3, <3>4
   <2>8. ASSUME NEW f \in Stated(w) \cap {"field", "alias"}
         PROVE  \E g \in Stated(fields) \cap {"field", "alias"} : fields[g] = w[f]
      <3>1. f = "field" /\ f \in DOMAIN w
         BY <2>4, <2>8 DEF Stated
      <3>2. /\ "field" \in DOMAIN Moved.query
            /\ w["field"] = Moved.query["field"] /\ w["field"] # List({})
         BY <2>3, <2>4, <2>5, <3>1
      <3>3. PICK g \in {"field", "alias"} \cap DOMAIN fields :
               Moved.query["field"] = fields[g]
         BY <3>2, MovedFields
      <3>4. g \in Stated(fields)
         BY <3>2, <3>3 DEF Stated, Missing
      <3> QED
         BY <3>1, <3>2, <3>3, <3>4
   <2>9. SelectedBy(w) \subseteq SelectedBy(fields)
      BY <1>1, <2>6, <2>7, SelectsMore
   <2>10. SelectedBy(fields) \subseteq SelectedBy(w)
      <3> HIDE DEF fields
      <3> QED
         BY <1>1, <2>7, <2>8, SelectsMore
   <2> QED
      BY <1>2, <2>1, <2>9, <2>10
<1> QED
   BY <1>4, <1>5

LEMMA ReadingAsks ==
   ASSUME Inputs, policy # "workspaces", NEW c \in Readings,
          policy = "request_list_scorers" =>
             ~("field" \in DOMAIN c.query /\ c.query["field"] = List({}))
   PROVE  Shown(c) = Asked
<1>1. CASE policy \in MessagePolicies /\ Moves /\ c = Moved
   BY <1>1, MovedAsks
<1>2. CASE policy \in MessagePolicies /\ StaysPut /\ c = Decoded
   <2>1. /\ c.query = request.query /\ c.body.fields = request.body.fields
      BY <1>2, ReadingTypes
   <2>2. CASE /\ policy = "request_list_scorers" /\ request.method = "GET"
              /\ request.query = NoFields
      <3>1. c.query = NoFields /\ DOMAIN c.query = {}
         BY <2>1, <2>2, NoFieldsIsEmpty
      <3>2. Items \subseteq Asked
         BY <1>2, <2>2, <3>1, AskedByGet DEF RequiredPolicies, IdPolicies
      <3>3. request.body.fields = NoFields
         BY <1>2, <2>2, InputTypes DEF StaysPut
      <3>4. Shown(c) = SelectedBy(NoFields)
         <4>1. /\ Handed(c).query = NoFields
               /\ Handed(c).body.fields = NoFields
            BY <2>1, <3>1, <3>3, <2>2, HandedFields
         <4>2. Without(NoFields, {"field", "alias"}) = NoFields
            BY NoFieldsIsEmpty
         <4> QED
            BY <2>2, <4>1, <4>2 DEF Shown, Selected, Honoured, Source,
                                    McpSearchPolicies
      <3>5. SelectedBy(NoFields) = Items
         BY <2>2, NoFieldsIsEmpty DEF SelectedBy, Stated, RequiredPolicies, IdPolicies
      <3> QED
         BY <3>2, <3>4, <3>5, SelectedInItems
   <2> QED
      BY <2>1, <2>2, UnmovedAsks
<1>3. CASE policy \notin MessagePolicies
   <2>1. policy # "request_list_scorers"
      BY <1>3 DEF MessagePolicies
   <2>2. /\ c.query = request.query
         /\ c.body.kind = "object" => c.body.fields = request.body.fields
      BY <1>3, ReadingTypes DEF Readings
   <2> QED
      BY <2>1, <2>2, UnmovedAsks
<1> QED
   BY <1>1, <1>2, <1>3 DEF Readings

-----------------------------------------------------------------------------
(***************************************************************************)
(* Each way of narrowing: what it applies to is answered within what was   *)
(* asked for and what the caller may read, and keeps what is both.         *)
(***************************************************************************)
LEMMA ScopeIsReadable ==
   ASSUME Inputs
   PROVE  /\ ~caller.all => ~Scope(caller).broad
          /\ Scope(caller).names \subseteq caller.readable
          /\ caller.all => Scope(caller).broad /\ caller.readable = Items
BY InputTypes DEF Scope

LEMMA ScopeIsComplete ==
   ASSUME Inputs, Careful, ~caller.all
   PROVE  Scope(caller).names = caller.readable
BY DEF Scope, Careful

(* A request by GET that selects in one place has nothing left in its body. *)
LEMMA BodyOfGet ==
   ASSUME Inputs, Careful, request.method = "GET", policy \in MessagePolicies,
          NEW c \in Readings, c.body.kind = "object"
   PROVE  {"field", "alias"} \cap DOMAIN c.body.fields = {}
<1>1. c # Moved
   BY PartsOf DEF Moved
<1>2. c = Decoded /\ StaysPut
   BY <1>1 DEF Readings
<1>3. c.body.fields = request.body.fields
   BY <1>2, ReadingTypes
<1>4. request.body.kind \in {"object", "text"}
   BY <1>2, PartsOf DEF Decoded
<1>5. request.query # NoFields
   BY <1>2, <1>4 DEF StaysPut
<1> QED
   BY <1>3, <1>5 DEF Careful, OneSource

LEMMA AuthorizedIdsWithin ==
   ASSUME Inputs, NEW c \in Readings, ~caller.all,
          policy \in AuthorizedIdPolicies \cup {"request_list_scorers"},
          policy = "request_list_scorers" =>
             request.method = "GET" /\ "single" \notin DOMAIN c.query,
          FilterAuthorizedIds(c, caller).applied
   PROVE  /\ Within(FilterAuthorizedIds(c, caller).request)
          /\ Keeps(FilterAuthorizedIds(c, caller).request)
<1> DEFINE inBody == IF c.body.kind = "object"
                        THEN DOMAIN c.body.fields \cap {"field", "alias"} ELSE {}
           inQuery == DOMAIN c.query \cap {"field"}
           stated == {c.body.fields[f] : f \in inBody}
                     \cup {c.query[f] : f \in inQuery}
           ids == {e \in Scope(caller).names : \A v \in stated : e \in v.of}
           fields == With(Without(c.body.fields, {"field", "alias"}),
                          "field", List(ids))
           query == With(c.query, "field", List(ids))
           rewritten == IF inBody # {} \/ c.method = "POST"
                           THEN SetFields(c, fields) ELSE c
           x == FilterAuthorizedIds(c, caller).request
<1>1. /\ ids # {} /\ \A v \in stated : v.of # {}
      /\ ~(c.method = "POST" /\ c.body.kind # "object")
      /\ x = IF inQuery # {} \/ c.method # "POST"
                THEN SetQuery(rewritten, query) ELSE rewritten
   BY ScopeIsReadable DEF FilterAuthorizedIds, Applied, NotApplied
<1>2. ids \subseteq caller.readable /\ \A v \in stated : ids \subseteq v.of
   BY ScopeIsReadable
<1>3. /\ policy \notin McpSearchPolicies /\ policy \notin RequiredPolicies
      /\ policy # "workspaces" /\ policy \in MessagePolicies
   BY DEF RequiredPolicies, IdPolicies, MessagePolicies, McpSearchPolicies,
          AuthorizedIdPolicies, BodySearchPolicies, ModelSearchPolicies
<1>4. List(ids) # List({}) /\ List(ids).of = ids
   BY <1>1 DEF List
<1>5. \A f \in inBody : ids \subseteq c.body.fields[f].of
   BY <1>2
<1>6. "field" \in DOMAIN c.query => ids \subseteq c.query["field"].of
   BY <1>2
<1>7. /\ c = Parts(c.method, c.query, c.body.kind, c.body.fields)
      /\ c.method = request.method
   BY ReadingTypes
<1>8. /\ SetFields(c, fields) = Parts(c.method, c.query, c.body.kind, fields)
      /\ SetQuery(c, query) = Parts(c.method, query, c.body.kind, c.body.fields)
      /\ SetQuery(SetFields(c, fields), query) =
            Parts(c.method, query, c.body.kind, fields)
   <2> HIDE DEF fields, query
   <2> QED
      BY <1>7, SetFieldsParts, SetQueryParts
<1> HIDE DEF fields, query, x
<1>9. CASE c.method = "GET"
   <2>1. x.query = query
      BY <1>1, <1>8, <1>9, PartsOf
   <2>2. Within(x)
      BY <1>2, <1>3, <1>4, <1>6, <1>7, <1>9, <2>1, WithinByQuery DEF query
   <2>3. ASSUME Careful, NEW e \in Asked \cap caller.readable PROVE e \in ids
      <3>1. inBody = {}
         BY <1>3, <1>7, <1>9, <2>3, BodyOfGet
      <3>2. ASSUME NEW v \in stated PROVE e \in v.of
         <4>1. "field" \in DOMAIN c.query /\ v = c.query["field"]
            BY <3>1, <3>2
         <4>2. v # List({})
            BY <1>1, <3>2 DEF List
         <4> QED
            BY <1>3, <1>7, <1>9, <2>3, <4>1, <4>2, AskedInQuery
      <3> QED
         BY <2>3, <3>2, ScopeIsComplete
   <2> HIDE DEF ids
   <2>4. Keeps(x)
      BY <1>3, <1>4, <1>7, <1>9, <2>1, <2>3, KeepsByQuery DEF query
   <2> QED
      BY <2>2, <2>4 DEF x
<1>10. CASE c.method = "POST"
   <2>1. x.body.kind = "object" /\ x.body.fields = fields
      BY <1>1, <1>8, <1>10, PartsOf
   <2>2. Handed(x).body.fields = fields
      BY <2>1, HandedFields
   <2>3. Shown(x) = SelectedBy(fields)
      BY <1>3, <1>7, <1>10, <2>2, BodyRead
   <2>4. "field" \in DOMAIN fields /\ fields["field"] = List(ids)
      BY DEF fields, With
   <2>5. policy # "request_list_scorers"
      BY <1>7, <1>10
   <2>6. Shown(x) \subseteq ids
      BY <1>4, <2>3, <2>4, <2>5, SelectedInField
   <2>7. c = Decoded
      BY <1>3, <1>7, <1>10 DEF Readings, Moves
   <2>8. c.body.fields = request.body.fields /\ c.body.kind = "object"
      BY <1>1, <1>10, <2>7, ReadingTypes
   <2>9. \A f \in {"field", "alias"} \cap DOMAIN request.body.fields :
            ids \subseteq request.body.fields[f].of
      BY <1>5, <2>8
   <2>10. ids \in SUBSET Items
      BY <1>2, InputTypes
   <2>11. ASSUME Careful, NEW e \in Asked \cap caller.readable PROVE e \in ids
      <3>1. inQuery = {}
         <4>1. c.query = request.query
            BY <1>3, <2>7, ReadingTypes
         <4> QED
            BY <1>7, <1>10, <2>11, <4>1 DEF Careful, OnlyBody
      <3>2. Asked = SelectedBy(request.body.fields)
         BY <1>3, <1>7, <1>10, AskedOfBody
      <3>3. ASSUME NEW v \in stated PROVE e \in v.of
         <4>1. PICK f \in {"field", "alias"} \cap DOMAIN request.body.fields :
                  v = request.body.fields[f]
            BY <2>8, <3>1, <3>3
         <4>2. v # List({})
            BY <1>1, <3>3 DEF List
         <4>3. f \in Stated(request.body.fields)
            BY <4>1, <4>2 DEF Stated, Missing
         <4> QED
            BY <2>5, <2>11, <3>2, <4>1, <4>3 DEF SelectedBy
      <3> QED
         BY <2>11, <3>3, ScopeIsComplete
   <2> HIDE DEF ids
   <2>12. ids \subseteq SelectedBy(request.body.fields)
      BY <1>3, <2>5, <2>9, <2>10, SelectsWhatItStates
   <2>13. Asked = SelectedBy(request.body.fields)
      BY <1>3, <1>7, <1>10, AskedOfBody
   <2>14. ids \subseteq Shown(x)
      <3>1. DOMAIN fields \cap {"field", "alias"} = {"field"}
         BY DEF fields, With, Without
      <3> QED
         BY <1>3, <1>4, <2>3, <2>4, <2>5, <2>10, <3>1, SelectsWhatItStates
   <2> QED
      BY <1>2, <2>6, <2>11, <2>12, <2>13, <2>14 DEF Within, Keeps, x
<1> QED
   BY <1>7, <1>9, <1>10, InputTypes

LEMMA ScorersWithin ==
   ASSUME Inputs, NEW c \in Readings, ~caller.all,
          policy = "request_list_scorers", FilterScorers(c, caller).applied
   PROVE  /\ Within(FilterScorers(c, caller).request)
          /\ Keeps(FilterScorers(c, caller).request)
<1>1. c.method = "GET" /\ c.method = request.method
   BY ReadingTypes DEF FilterScorers, NotApplied
<1>2. CASE "single" \in DOMAIN c.query
   <2>1. PICK e \in caller.readable : c.query["single"] = List({e})
      BY <1>1, <1>2 DEF FilterScorers, QueryHas, NotApplied
   <2>2. FilterScorers(c, caller).request = c /\ "field" \notin DOMAIN c.query
      BY <1>1, <1>2, <2>1 DEF FilterScorers, QueryHas, NotApplied, Applied
   <2>3. Shown(c) = Asked
      BY <2>2, ReadingAsks
   <2> DEFINE q == Handed(c).query
              w == Without(q, {"alias"})
   <2>4. List({e}) # List({}) /\ List({e}).of = {e}
      BY DEF List
   <2>5. "single" \in DOMAIN q /\ q["single"] = List({e})
      BY <1>2, <2>1, <2>4, HandedFields
   <2>6. q # NoFields
      BY <2>5, NoFieldsIsEmpty
   <2>7. Handed(c).method = "GET"
      BY <1>1, HandedFields
   <2>8. Source(Handed(c)) = w
      BY <2>6, <2>7 DEF Source
   <2>9. Shown(c) = SelectedBy(w)
      BY <2>6, <2>8 DEF Honoured, Shown, Selected
   <2> HIDE DEF q
   <2>10. "single" \in DOMAIN w /\ w["single"] = List({e})
      BY <2>5 DEF Without
   <2> HIDE DEF w
   <2>11. "single" \in Stated(w)
      BY <2>4, <2>10 DEF Stated, Missing
   <2>12. SelectedBy(w) \subseteq {e}
      BY <2>4, <2>10, <2>11 DEF SelectedBy
   <2> QED
      BY <2>1, <2>2, <2>3, <2>9, <2>12 DEF Within, Keeps
<1>3. CASE "single" \notin DOMAIN c.query
   <2>1. FilterScorers(c, caller) = FilterAuthorizedIds(c, caller)
      BY <1>1, <1>3 DEF FilterScorers, QueryHas
   <2> QED
      BY <1>1, <1>3, <2>1, AuthorizedIdsWithin
<1> QED
   BY <1>2, <1>3

(* A conjunction that still has its scope is no wider than any of its      *)
(* parts, and as wide as all of them allow.                                *)
LEMMA ConjunctionWithin ==
   ASSUME NEW filters, KeepsScope(Conjunction(filters))
   PROVE  /\ \A v \in filters : Conjunction(filters).of \subseteq v.of
          /\ Conjunction(filters) # List({})
          /\ \A e \in Items : (\A v \in filters : e \in v.of) =>
                e \in Conjunction(filters).of
<1> DEFINE kept == {e \in Items : \A v \in filters : e \in v.of}
<1>1. Conjunction(filters) = Filter(kept)
   <2>1. ~\E v \in filters : v.shape = "odd"
      BY DEF Conjunction, KeepsScope
   <2>2. ~\E v \in filters : v.shape = "open"
      BY <2>1 DEF Conjunction, KeepsScope
   <2> QED
      BY <2>1, <2>2 DEF Conjunction
<1>2. Filter(kept).of = kept /\ Filter(kept).shape = "filter"
   BY DEF Filter
<1>3. List({}).shape = "ids"
   BY DEF List
<1> QED
   BY <1>1, <1>2, <1>3

(* What is appended to filters that do not select less than was asked for  *)
(* keeps what is readable of it.                                           *)
LEMMA ConjunctionKeeps ==
   ASSUME Inputs, ~caller.all, Careful, NEW own,
          \A v \in own : Asked \subseteq v.of,
          KeepsScope(Conjunction(own \cup {Filter(Scope(caller).names)}))
   PROVE  Asked \cap caller.readable \subseteq
             Conjunction(own \cup {Filter(Scope(caller).names)}).of
<1> DEFINE filters == own \cup {Filter(Scope(caller).names)}
<1>1. Filter(Scope(caller).names).of = caller.readable
   BY ScopeIsComplete DEF Filter
<1>2. \A v \in filters : Asked \cap caller.readable \subseteq v.of
   BY <1>1
<1>3. Asked \cap caller.readable \subseteq Items
   BY InputTypes
<1> HIDE DEF filters
<1>4. KeepsScope(Conjunction(filters))
   BY DEF filters
<1>5. Asked \cap caller.readable \subseteq Conjunction(filters).of
   BY <1>2, <1>3, <1>4, ConjunctionWithin
<1> QED
   BY <1>5 DEF filters

(* The filter of a search is never an empty list of ids.                   *)
LEMMA FiltersAreStated ==
   ASSUME Inputs,
          policy \in BodySearchPolicies \cup ModelSearchPolicies \cup McpSearchPolicies
   PROVE  /\ \A f \in {"field", "alias"} \cap DOMAIN request.body.fields :
                request.body.fields[f] # List({})
          /\ \A c \in Readings : "field" \in DOMAIN c.query =>
                c.query["field"] # List({})
<1>1. /\ \A f \in {"field", "alias"} \cap DOMAIN request.body.fields :
            request.body.fields[f].shape # "ids"
      /\ \A f \in {"field", "alias"} \cap DOMAIN request.query :
            request.query[f].shape # "ids"
   BY SelectorAssumption DEF Inputs, policy
<1>2. List({}).shape = "ids"
   BY DEF List
<1>3. ASSUME NEW c \in Readings, "field" \in DOMAIN c.query
      PROVE  c.query["field"] # List({})
   <2>1. CASE c.query = request.query
      BY <1>1, <1>2, <1>3, <2>1
   <2>2. CASE Moves /\ c = Moved
      <3>1. PICK f \in {"field", "alias"} \cap DOMAIN request.body.fields :
               c.query["field"] = request.body.fields[f]
         BY <1>3, <2>2, MovedFields
      <3> QED
         BY <1>1, <1>2, <3>1
   <2> QED
      BY <2>1, <2>2, ReadingTypes DEF Readings
<1> QED
   BY <1>1, <1>2, <1>3

LEMMA SearchByGetWithin ==
   ASSUME Inputs, NEW c \in Readings, ~caller.all, request.method = "GET",
          policy \in BodySearchPolicies \cup ModelSearchPolicies \cup McpSearchPolicies,
          NEW own, \A f \in DOMAIN c.query \cap {"field"} : c.query[f] \in own,
          NEW narrowed, narrowed = Conjunction(own \cup {Filter(Scope(caller).names)}),
          KeepsScope(narrowed),
          \A v \in own : v \in {c.query[f] : f \in DOMAIN c.query \cap {"field"}}
                          \/ ~Careful,
          NEW x, x = SetQuery(c, With(c.query, "field", narrowed))
   PROVE  Within(x) /\ Keeps(x)
<1> DEFINE filters == own \cup {Filter(Scope(caller).names)}
           query == With(c.query, "field", narrowed)
<1>1. /\ narrowed # List({})
      /\ \A v \in filters : narrowed.of \subseteq v.of
   <2> HIDE DEF filters
   <2>1. narrowed = Conjunction(filters)
      BY DEF filters
   <2> QED
      BY <2>1, ConjunctionWithin
<1>2. narrowed.of \subseteq caller.readable
   <2>1. Filter(Scope(caller).names).of = Scope(caller).names
      BY DEF Filter
   <2> QED
      BY <1>1, <2>1, ScopeIsReadable
<1>3. "field" \in DOMAIN c.query => narrowed.of \subseteq c.query["field"].of
   BY <1>1
<1>4. x.query = query
   <2> HIDE DEF query
   <2>1. SetQuery(c, query) = Parts(c.method, query, c.body.kind, c.body.fields)
      BY ReadingTypes, SetQueryParts
   <2>2. x = SetQuery(c, query)
      BY DEF query
   <2> QED
      BY <2>1, <2>2, PartsOf
<1>5. /\ policy \notin RequiredPolicies /\ policy # "workspaces"
      /\ policy # "request_list_scorers"
      /\ policy \in MessagePolicies \cup McpSearchPolicies
   BY DEF RequiredPolicies, IdPolicies, MessagePolicies, McpSearchPolicies,
          AuthorizedIdPolicies, BodySearchPolicies, ModelSearchPolicies
<1>6. Within(x)
   BY <1>1, <1>2, <1>3, <1>4, <1>5, WithinByQuery
<1>7. ASSUME Careful PROVE Asked \cap caller.readable \subseteq narrowed.of
   <2>1. ASSUME NEW v \in own PROVE Asked \subseteq v.of
      <3>1. "field" \in DOMAIN c.query /\ v = c.query["field"]
         BY <1>7, <2>1
      <3>2. c.query["field"] # List({})
         BY <3>1, FiltersAreStated
      <3> QED
         BY <1>5, <3>1, <3>2, AskedInQuery
   <2> QED
      BY <1>7, <2>1, ConjunctionKeeps
<1>8. Keeps(x)
   BY <1>1, <1>4, <1>5, <1>7, KeepsByQuery
<1> QED
   BY <1>6, <1>8

LEMMA QuerySearchWithin ==
   ASSUME Inputs, NEW c \in Readings, ~caller.all,
          policy \in ModelSearchPolicies \cup McpSearchPolicies,
          FilterQuerySearch(c, policy, caller).applied
   PROVE  /\ Within(FilterQuerySearch(c, policy, caller).request)
          /\ Keeps(FilterQuerySearch(c, policy, caller).request)
<1> DEFINE own == {c.query[f] : f \in DOMAIN c.query \cap {"field"}}
           narrowed == Conjunction(own \cup {Filter(Scope(caller).names)})
<1>1. /\ c.method = "GET" /\ KeepsScope(narrowed)
      /\ FilterQuerySearch(c, policy, caller).request =
            SetQuery(c, With(c.query, "field", narrowed))
   BY ScopeIsReadable DEF FilterQuerySearch, Applied, NotApplied
<1>2. \A f \in DOMAIN c.query \cap {"field"} : c.query[f] \in own
   OBVIOUS
<1>3. \A v \in own : v \in {c.query[f] : f \in DOMAIN c.query \cap {"field"}}
   OBVIOUS
<1>4. request.method = "GET"
   BY <1>1, ReadingTypes
<1> HIDE DEF own
<1> QED
   BY <1>1, <1>2, <1>3, <1>4, SearchByGetWithin

LEMMA SearchWithin ==
   ASSUME Inputs, NEW c \in Readings, ~caller.all, policy \in BodySearchPolicies,
          FilterSearch(c, policy, caller).applied
   PROVE  /\ Within(FilterSearch(c, policy, caller).request)
          /\ Keeps(FilterSearch(c, policy, caller).request)
<1> DEFINE spelled == IF policy = "request_search_datasets" THEN OneSpelling(c) ELSE c
           stated == {f \in {"field"} : BodyHas(spelled, f)}
           own == {spelled.body.fields[f] : f \in stated}
                  \cup {c.query[f] : f \in DOMAIN c.query \cap {"field"}}
           filters == own \cup {Filter(Scope(caller).names)}
           narrowed == Conjunction(filters)
           fields == With(spelled.body.fields, "field", narrowed)
           x == FilterSearch(c, policy, caller).request
<1>1. /\ ~(c.method = "POST" /\ c.body.kind # "object")
      /\ ~(/\ policy = "request_search_datasets" /\ c.method = "POST"
           /\ BodyHas(c, "alias") /\ BodyHas(c, "field"))
      /\ KeepsScope(narrowed)
      /\ c.method = "POST" => x = SetFields(spelled, fields)
      /\ c.method # "POST" => x = SetQuery(c, With(c.query, "field", narrowed))
   BY ScopeIsReadable DEF FilterSearch, Applied, NotApplied
<1>2. /\ c = Parts(c.method, c.query, c.body.kind, c.body.fields)
      /\ c.method = request.method
   BY ReadingTypes
<1>3. /\ policy \notin McpSearchPolicies /\ policy \notin RequiredPolicies
      /\ policy # "workspaces" /\ policy \in MessagePolicies
      /\ policy # "request_list_scorers"
   BY DEF RequiredPolicies, IdPolicies, MessagePolicies, McpSearchPolicies,
          AuthorizedIdPolicies, BodySearchPolicies, ModelSearchPolicies
<1>4. CASE c.method = "GET"
   <2>1. \A f \in DOMAIN c.query \cap {"field"} : c.query[f] \in own
      OBVIOUS
   <2>2. x = SetQuery(c, With(c.query, "field", narrowed))
      BY <1>1, <1>4
   <2>3. \A v \in own : v \in {c.query[f] : f \in DOMAIN c.query \cap {"field"}}
                         \/ ~Careful
      <3>1. spelled = c
         BY <1>4 DEF OneSpelling
      <3>2. Careful => stated = {}
         BY <1>2, <1>3, <1>4, <3>1, BodyOfGet DEF BodyHas
      <3> QED
         BY <3>2
   <2> HIDE DEF own, x
   <2>4. Within(x) /\ Keeps(x)
      BY <1>1, <1>2, <1>4, <2>1, <2>2, <2>3, SearchByGetWithin
   <2> QED
      BY <2>4 DEF x
<1>5. CASE c.method = "POST"
   <2>1. c = Decoded
      BY <1>2, <1>3, <1>5 DEF Readings, Moves
   <2>2. c.body.fields = request.body.fields /\ c.body.kind = "object"
      BY <1>1, <1>5, <2>1, ReadingTypes
   <2> DEFINE given == request.body.fields
              renamed == With(Without(given, {"alias"}), "field", given["alias"])
              spelt == IF policy = "request_search_datasets"
                          /\ "alias" \in DOMAIN given THEN renamed ELSE given
   <2>3. spelled = Parts(c.method, c.query, c.body.kind, spelt)
      <3>1. OneSpelling(c) = IF "alias" \in DOMAIN given
                                THEN SetFields(c, renamed) ELSE c
         BY <1>5, <2>2 DEF OneSpelling, BodyHas
      <3> HIDE DEF renamed
      <3>2. SetFields(c, renamed) = Parts(c.method, c.query, c.body.kind, renamed)
         BY <1>2, SetFieldsParts
      <3>3. c = Parts(c.method, c.query, c.body.kind, given)
         BY <1>2, <2>2
      <3> QED
         BY <3>1, <3>2, <3>3
   <2> HIDE DEF spelled, spelt
   <2>4. spelled.body.kind = "object" /\ spelled.body.fields = spelt
      BY <2>2, <2>3, PartsOf
   <2>5. "field" \in DOMAIN spelt => spelt["field"] \in filters
      BY <2>4 DEF BodyHas
   <2>6. ASSUME Careful, NEW v \in own
          PROVE  "field" \in DOMAIN spelt /\ v = spelt["field"]
      <3>1. "field" \notin DOMAIN c.query
         <4>1. c.query = request.query
            BY <1>3, <2>1, ReadingTypes
         <4> QED
            BY <1>2, <1>5, <2>6, <4>1 DEF Careful, OnlyBody
      <3> QED
         BY <2>4, <2>6, <3>1 DEF BodyHas
   <2>7. Filter(Scope(caller).names) \in filters
      OBVIOUS
   <2> HIDE DEF filters
   <2>8. /\ narrowed # List({})
         /\ \A v \in filters : narrowed.of \subseteq v.of
      BY <1>1, ConjunctionWithin
   <2> HIDE DEF narrowed
   <2>9. narrowed.of \subseteq caller.readable
      <3>1. Filter(Scope(caller).names).of = Scope(caller).names
         BY DEF Filter
      <3> QED
         BY <2>7, <2>8, <3>1, ScopeIsReadable
   <2>10. x = Parts(c.method, c.query, c.body.kind, fields)
      <3> HIDE DEF fields
      <3>1. x = SetFields(spelled, fields)
         BY <1>1, <1>5
      <3> QED
         BY <2>3, <3>1, SetFieldsParts
   <2> HIDE DEF x
   <2>11. x.body.kind = "object" /\ x.body.fields = fields
      BY <2>2, <2>10, PartsOf
   <2>12. Shown(x) = SelectedBy(fields)
      <3>1. Handed(x).body.fields = fields
         BY <2>11, HandedFields
      <3> QED
         BY <1>2, <1>3, <1>5, <3>1, BodyRead
   <2>13. /\ DOMAIN fields = DOMAIN spelt \cup {"field"}
          /\ fields["field"] = narrowed
          /\ \A f \in DOMAIN spelt \ {"field"} : fields[f] = spelt[f]
      BY <2>4 DEF With
   <2> HIDE DEF fields
   <2>14. SelectedBy(fields) \subseteq narrowed.of
      BY <1>3, <2>8, <2>13, SelectedInField
   <2>15. SelectedBy(fields) \subseteq SelectedBy(given)
      <3>1. "field" \in Stated(fields)
         BY <2>8, <2>13 DEF Stated, Missing
      <3>2. CASE policy = "request_search_datasets" /\ "alias" \in DOMAIN given
         <4>1. "field" \notin DOMAIN given
            BY <1>1, <1>5, <2>2, <3>2 DEF BodyHas
         <4>2. "field" \in DOMAIN spelt /\ spelt["field"] = given["alias"]
            BY <3>2 DEF spelt, With
         <4>3. narrowed.of \subseteq given["alias"].of
            BY <2>5, <2>8, <4>2
         <4>4. narrowed.of \cap Items \subseteq SelectedBy(given)
            BY <1>3, <4>1, <4>3, SelectsWhatItStates
         <4>5. SelectedBy(fields) \subseteq Items
            BY DEF SelectedBy
         <4> QED
            BY <2>14, <4>4, <4>5
      <3>3. CASE ~(policy = "request_search_datasets" /\ "alias" \in DOMAIN given)
         <4>1. spelt = given
            BY <3>3 DEF spelt
         <4>2. "alias" \in Stated(given) =>
                  "alias" \in Stated(fields) /\ fields["alias"] = given["alias"]
            BY <2>13, <4>1 DEF Stated, Missing
         <4>3. "field" \in Stated(given) => narrowed.of \subseteq given["field"].of
            BY <2>5, <2>8, <4>1 DEF Stated
         <4> QED
            BY <1>3, <2>13, <2>14, <3>1, <4>2, <4>3 DEF SelectedBy
      <3> QED
         BY <3>2, <3>3
   <2>16. Asked = SelectedBy(given)
      BY <1>2, <1>3, <1>5, AskedOfBody
   <2>17. Keeps(x)
      <3> SUFFICES ASSUME Careful
                   PROVE  Asked \cap caller.readable \subseteq Shown(x)
         BY DEF Keeps
      <3>1. ASSUME "field" \in DOMAIN spelt PROVE Asked \subseteq spelt["field"].of
         <4>1. PICK f \in {"field", "alias"} \cap DOMAIN given : spelt["field"] = given[f]
            BY <3>1 DEF spelt, With
         <4>2. f \in Stated(given)
            BY <4>1, FiltersAreStated DEF Stated, Missing
         <4> QED
            BY <1>3, <2>16, <4>1, <4>2 DEF SelectedBy
      <3>2. \A v \in own : Asked \subseteq v.of
         BY <2>6, <3>1
      <3> HIDE DEF own
      <3>3. Asked \cap caller.readable \subseteq narrowed.of
         BY <1>1, <3>2, ConjunctionKeeps DEF narrowed, filters
      <3>4. ASSUME "alias" \in DOMAIN spelt
            PROVE  Asked \subseteq spelt["alias"].of
         <4>1. "alias" \in DOMAIN given /\ spelt["alias"] = given["alias"]
            BY <3>4 DEF spelt, With, Without
         <4>2. "alias" \in Stated(given)
            BY <4>1, FiltersAreStated DEF Stated, Missing
         <4> QED
            BY <1>3, <2>16, <4>1, <4>2 DEF SelectedBy
      <3>5. \A f \in {"field", "alias"} \cap DOMAIN fields :
               Asked \cap caller.readable \subseteq fields[f].of
         BY <2>13, <3>3, <3>4
      <3>6. Asked \cap caller.readable \in SUBSET Items
         BY InputTypes
      <3>7. Asked \cap caller.readable \subseteq SelectedBy(fields)
         BY <1>3, <3>5, <3>6, SelectsWhatItStates
      <3> QED
         BY <2>12, <3>7
   <2>18. Within(x)
      BY <2>9, <2>12, <2>14, <2>15, <2>16 DEF Within
   <2> QED
      BY <2>17, <2>18 DEF x
<1> QED
   BY <1>2, <1>4, <1>5, InputTypes

-----------------------------------------------------------------------------
(* Ids that are required.  A request whose body has not been read is       *)
(* answered with all that it asks for by it: nothing, unless it states its *)
(* ids twice; one whose body has been read could not be narrowed without.  *)
Fits(x) ==
   /\ Shown(x) \subseteq Asked
   /\ ~LeavesBody(x) => Within(x)
   /\ Keeps(x)

LEMMA RequiredIsPlain ==
   ASSUME policy \in RequiredPolicies
   PROVE  /\ policy \notin MessagePolicies /\ policy \notin McpSearchPolicies
          /\ policy # "workspaces" /\ policy # "request_list_scorers"
BY DEF RequiredPolicies, IdPolicies, MessagePolicies, McpSearchPolicies,
       AuthorizedIdPolicies, BodySearchPolicies, ModelSearchPolicies

LEMMA UnreadBodyFits ==
   ASSUME Inputs, policy \in IdPolicies \cup {"request_experiment_id"},
          request.method = "POST", "field" \in DOMAIN request.query,
          NEW x, x.body.kind = "unread"
   PROVE  Shown(x) \subseteq Asked /\ (~LeavesBody(x) => Within(x))
<1>1. policy \in RequiredPolicies
   BY DEF RequiredPolicies
<1>2. Handed(x).body = request.body
   BY HandedFields
<1>3. Shown(x) = Asked
   BY <1>1, <1>2, RequiredIsPlain, BodyRead, AskedOfBody
<1>4. ASSUME ~LeavesBody(x) PROVE Shown(x) = {}
   <2>1. {"field", "alias"} \cap DOMAIN request.body.fields = {}
      BY <1>4 DEF LeavesBody, StatedTwice
   <2> QED
      BY <1>1, <1>2, <2>1, RequiredIsPlain, BodyRead, NothingSelected
<1> QED
   BY <1>3, <1>4 DEF Within

LEMMA NarrowerField ==
   ASSUME NEW fields, "field" \in DOMAIN fields, policy \in RequiredPolicies,
          NEW v, v.of \subseteq fields["field"].of
   PROVE  SelectedBy(With(fields, "field", v)) = v.of \cap SelectedBy(fields)
<1> DEFINE w == With(fields, "field", v)
<1>1. /\ DOMAIN w = DOMAIN fields /\ w["field"] = v
      /\ \A f \in DOMAIN fields \ {"field"} : w[f] = fields[f]
   BY DEF With
<1> HIDE DEF w
<1>2. Stated(w) = DOMAIN w /\ Stated(fields) = DOMAIN fields
   BY RequiredIsPlain DEF Stated, Missing
<1>3. SelectedBy(w) = {e \in Items : \A f \in DOMAIN w \cap {"field", "alias"} :
                                        e \in w[f].of}
   BY <1>1, <1>2, RequiredIsPlain DEF SelectedBy
<1>4. SelectedBy(fields) =
         {e \in Items : \A f \in DOMAIN fields \cap {"field", "alias"} :
                           e \in fields[f].of}
   BY <1>2, RequiredIsPlain DEF SelectedBy
<1> QED
   BY <1>1, <1>3, <1>4 DEF w

LEMMA ReadBodyWithin ==
   ASSUME Inputs, policy \in RequiredPolicies,
          request.method = "POST" \/ request.query = NoFields,
          "field" \in DOMAIN request.body.fields,
          NEW S, S = request.body.fields["field"].of \cap caller.readable,
          NEW x, x.body.kind = "object",
          x.body.fields = With(request.body.fields, "field", List(S)),
          request.method = "POST" \/ x.query = NoFields
   PROVE  Within(x) /\ Keeps(x)
<1>1. Handed(x).body = x.body
   BY HandedFields
<1>2. request.method = "POST" \/ Handed(x).query = NoFields
   BY HandedFields, InputTypes
<1>3. Shown(x) = SelectedBy(x.body.fields)
   BY <1>1, <1>2, RequiredIsPlain, BodyRead
<1>4. List(S).of = S
   BY DEF List
<1>5. Shown(x) = S \cap SelectedBy(request.body.fields)
   BY <1>3, <1>4, NarrowerField
<1>6. Asked = SelectedBy(request.body.fields)
   BY RequiredIsPlain, AskedOfBody
<1>7. SelectedBy(request.body.fields) \subseteq request.body.fields["field"].of
   BY RequiredIsPlain, SelectedInField
<1> QED
   BY <1>5, <1>6, <1>7 DEF Within, Keeps

LEMMA IdsFit ==
   ASSUME Inputs, NEW c \in Readings, policy \in IdPolicies,
          FilterIds(c, caller.readable).applied,
          c = Whole => ~FilterIds(Unread, caller.readable).applied
   PROVE  Fits(FilterIds(c, caller.readable).request)
<1> DEFINE body == BodyIds(c, "field") \cap caller.readable
           query == QueryIds(c, "field") \cap caller.readable
           fields == With(c.body.fields, "field", List(body))
           kept == With(c.query, "field", List(query))
           rest == Without(c.query, {"field"})
           rewritten == IF BodyHas(c, "field") THEN SetFields(c, fields) ELSE c
           x == FilterIds(c, caller.readable).request
<1>1. /\ body \cup query # {}
      /\ x = IF ~QueryHas(c, "field") THEN rewritten
             ELSE IF query = {} THEN SetQuery(rewritten, rest)
             ELSE SetQuery(rewritten, kept)
   BY DEF FilterIds, Applied, NotApplied
<1>2. policy \in RequiredPolicies
   BY DEF RequiredPolicies
<1>3. /\ c = Parts(c.method, c.query, c.body.kind, c.body.fields)
      /\ c.method = request.method /\ c.query = request.query
   BY <1>2, RequiredIsPlain, ReadingTypes DEF Readings
<1> HIDE DEF x, rest, kept, fields
<1>4. CASE c = Unread
   <2>1. c.body.kind = "unread"
      BY <1>4, ReadingTypes
   <2>2. body = {} /\ rewritten = c
      BY <2>1 DEF BodyIds, BodyHas
   <2>3. QueryHas(c, "field") /\ query # {}
      BY <1>1, <2>2 DEF QueryIds
   <2>4. x = Parts(c.method, kept, c.body.kind, c.body.fields)
      BY <1>1, <1>3, <2>2, <2>3, SetQueryParts
   <2>5. x.query = kept /\ x.body.kind = "unread"
      BY <2>1, <2>4, PartsOf
   <2>6. CASE request.method = "GET"
      <3>1. /\ List(query) # List({})
            /\ List(query).of = query
         BY <2>3 DEF List
      <3>2. "field" \in DOMAIN c.query /\ query \subseteq c.query["field"].of
         BY <2>3 DEF QueryHas, QueryIds
      <3>3. c.query # NoFields
         BY <3>2, NoFieldsIsEmpty
      <3>4. query = c.query["field"].of \cap caller.readable
         BY <2>3 DEF QueryHas, QueryIds
      <3> HIDE DEF query
      <3>5. Within(x)
         BY <1>2, <2>5, <2>6, <3>1, <3>2, <3>3, <3>4, RequiredIsPlain,
            WithinByQuery DEF kept
      <3>6. Asked \subseteq c.query["field"].of
         <4>1. c.query["field"] # List({})
            BY <2>3 DEF query, QueryHas, QueryIds, List
         <4> QED
            BY <1>2, <2>6, <3>2, <4>1, RequiredIsPlain, AskedInQuery
      <3>7. Keeps(x)
         BY <1>2, <2>5, <2>6, <3>1, <3>4, <3>6, RequiredIsPlain, KeepsByQuery DEF kept
      <3> QED
         BY <3>5, <3>7 DEF Fits, Within, x
   <2>7. CASE request.method = "POST"
      <3>1. ~Careful
         BY <1>3, <2>3, <2>7 DEF Careful, OnlyBody, QueryHas
      <3>2. "field" \in DOMAIN request.query
         BY <1>3, <2>3 DEF QueryHas
      <3>3. Shown(x) \subseteq Asked /\ (~LeavesBody(x) => Within(x))
         BY <2>5, <2>7, <3>2, UnreadBodyFits
      <3> QED
         BY <3>1, <3>3 DEF Fits, Keeps, x
   <2> QED
      BY <2>6, <2>7, InputTypes
<1>5. CASE c = Whole /\ (request.method = "POST" \/ request.query = NoFields)
   <2>1. /\ Unread.query = c.query /\ Unread.body.kind = "unread"
      BY <1>3, PartsOfArrived, PartsOf
   <2>2. QueryIds(Unread, "field") \cap caller.readable = {}
      BY <1>5 DEF FilterIds, Applied
   <2>3. query = {} /\ body # {}
      BY <1>1, <2>1, <2>2 DEF QueryIds, QueryHas
   <2>4. BodyHas(c, "field")
      BY <2>3 DEF BodyIds
   <2>5. c.body.fields = request.body.fields
      BY <1>5, ReadingTypes
   <2>6. /\ c.body.kind = "object" /\ "field" \in DOMAIN c.body.fields
         /\ body = c.body.fields["field"].of \cap caller.readable
      BY <2>4 DEF BodyHas, BodyIds
   <2>7. x \in {Parts(c.method, q, "object", fields) : q \in {c.query, rest}}
      BY <1>1, <1>3, <2>3, <2>4, <2>6, SetFieldsParts, SetQueryParts
   <2>8. request.query = NoFields => x = Parts(c.method, c.query, "object", fields)
      BY <1>1, <1>3, <2>4, <2>6, NoFieldsIsEmpty, SetFieldsParts DEF QueryHas
   <2>9. /\ x.body.kind = "object" /\ x.body.fields = fields
         /\ request.query = NoFields => x.query = NoFields
      BY <1>3, <2>7, <2>8, PartsOf
   <2>10. request.method = "POST" \/ x.query = NoFields
      BY <1>5, <2>9
   <2>11. x.body.fields = With(request.body.fields, "field", List(body))
      BY <2>5, <2>9 DEF fields
   <2> HIDE DEF body
   <2>12. Within(x) /\ Keeps(x)
      BY <1>2, <1>5, <2>5, <2>6, <2>9, <2>10, <2>11, ReadBodyWithin
   <2> QED
      BY <2>12 DEF Fits, Within, x
<1> QED
   BY <1>2, <1>4, <1>5, RequiredIsPlain DEF Readings

LEMMA LocationsFit ==
   ASSUME Inputs, NEW c \in Readings, policy = "request_trace_locations",
          FilterLocations(c, caller.readable).applied
   PROVE  Fits(FilterLocations(c, caller.readable).request)
<1> DEFINE kept == BodyIds(c, "field") \cap caller.readable
           fields == With(c.body.fields, "field", List(kept))
           x == FilterLocations(c, caller.readable).request
<1>1. kept # {} /\ x = SetFields(c, fields)
   BY DEF FilterLocations, Applied, NotApplied
<1>2. policy \in RequiredPolicies
   BY DEF RequiredPolicies
<1>3. /\ c = Parts(c.method, c.query, c.body.kind, c.body.fields)
      /\ c.method = request.method /\ c.query = request.query
   BY <1>2, RequiredIsPlain, ReadingTypes DEF Readings
<1>4. /\ c.body.kind = "object" /\ "field" \in DOMAIN c.body.fields
      /\ kept = c.body.fields["field"].of \cap caller.readable
   BY <1>1 DEF BodyIds, BodyHas
<1>5. c = Whole /\ (request.method = "POST" \/ request.query = NoFields)
   BY <1>2, <1>4, RequiredIsPlain, ReadingTypes DEF Readings
<1>6. c.body.fields = request.body.fields
   BY <1>5, ReadingTypes
<1> HIDE DEF x, fields
<1>7. x = Parts(c.method, c.query, "object", fields)
   BY <1>1, <1>3, <1>4, SetFieldsParts
<1>8. /\ x.body.kind = "object" /\ x.body.fields = fields
      /\ x.query = request.query
   BY <1>3, <1>7, PartsOf
<1>9. x.body.fields = With(request.body.fields, "field", List(kept))
   BY <1>6, <1>8 DEF fields
<1> HIDE DEF kept
<1>10. Within(x) /\ Keeps(x)
   BY <1>2, <1>4, <1>5, <1>6, <1>8, <1>9, ReadBodyWithin
<1> QED
   BY <1>10 DEF Fits, Within, x

LEMMA SingleIdFits ==
   ASSUME Inputs, NEW c \in Readings, policy = "request_experiment_id",
          FilterSingleId(c, caller.readable).applied,
          c = Whole => ~FilterSingleId(Unread, caller.readable).applied
   PROVE  Fits(FilterSingleId(c, caller.readable).request)
<1> DEFINE Fitting(ids) == \E e \in caller.readable : ids = {e}
<1>1. /\ BodyHas(c, "field") \/ QueryHas(c, "field")
      /\ BodyHas(c, "field") => Fitting(BodyIds(c, "field"))
      /\ QueryHas(c, "field") => Fitting(QueryIds(c, "field"))
      /\ FilterSingleId(c, caller.readable).request = c
   BY DEF FilterSingleId, Applied, NotApplied
<1>2. policy \in RequiredPolicies
   BY DEF RequiredPolicies
<1>3. c.method = request.method /\ c.query = request.query
   BY <1>2, RequiredIsPlain, ReadingTypes DEF Readings
<1>4. Shown(c) = Asked
   BY <1>2, RequiredIsPlain, ReadingAsks
<1>5. CASE c = Unread
   <2>1. c.body.kind = "unread"
      BY <1>5, ReadingTypes
   <2>2. "field" \in DOMAIN c.query
      BY <1>1, <2>1 DEF BodyHas, QueryHas
   <2>3. PICK e \in caller.readable : c.query["field"].of = {e}
      BY <1>1, <2>2 DEF QueryHas, QueryIds
   <2>4. c.query["field"] # List({})
      BY <2>3 DEF List
   <2>5. CASE request.method = "GET"
      <3>1. Shown(c) = {i \in Items : i \in {e}}
         BY <1>2, <2>2, <2>3, <2>4, <2>5, RequiredIsPlain, QueryRead
      <3> QED
         BY <1>1, <1>4, <3>1 DEF Fits, Within, Keeps
   <2>6. CASE request.method = "POST"
      BY <1>1, <1>3, <1>4, <2>1, <2>2, <2>6, UnreadBodyFits DEF Fits, Keeps
   <2> QED
      BY <2>5, <2>6, InputTypes
<1>6. CASE c = Whole /\ (request.method = "POST" \/ request.query = NoFields)
   <2>1. Unread.query = c.query /\ Unread.body.kind = "unread"
      BY <1>3, PartsOfArrived, PartsOf
   <2>2. BodyHas(c, "field")
      <3>1. ~BodyHas(Unread, "field")
         BY <2>1 DEF BodyHas
      <3>2. /\ QueryHas(Unread, "field") <=> QueryHas(c, "field")
            /\ QueryIds(Unread, "field") = QueryIds(c, "field")
         BY <2>1 DEF QueryHas, QueryIds
      <3>3. ~(QueryHas(c, "field") /\ Fitting(QueryIds(c, "field")))
         BY <1>6, <3>1, <3>2 DEF FilterSingleId, Applied
      <3> QED
         BY <1>1, <3>3
   <2>3. c.body.kind = "object" /\ "field" \in DOMAIN c.body.fields
      BY <2>2 DEF BodyHas
   <2>4. PICK e \in caller.readable : c.body.fields["field"].of = {e}
      BY <1>1, <2>2 DEF BodyIds
   <2>5. Handed(c).body = c.body
      BY <2>3, HandedFields
   <2>6. request.method = "POST" \/ Handed(c).query = NoFields
      BY <1>3, <1>6, HandedFields
   <2>7. Shown(c) = SelectedBy(c.body.fields)
      BY <1>2, <2>5, <2>6, RequiredIsPlain, BodyRead
   <2>8. Shown(c) \subseteq {e}
      BY <1>2, <2>3, <2>4, <2>7, RequiredIsPlain, SelectedInField
   <2> QED
      BY <1>1, <1>4, <2>8 DEF Fits, Within, Keeps
<1> QED
   BY <1>2, <1>5, <1>6, RequiredIsPlain DEF Readings

(* Whichever way its policy narrows it.                                    *)
LEMMA FilterFits ==
   ASSUME Inputs, NEW c \in Readings, policy \in FilterPolicies,
          policy = "request_list_scorers" => ~caller.all,
          ApplyFilter(c, policy, caller).applied,
          c = Whole /\ policy \notin MessagePolicies =>
             ~ApplyFilter(Unread, policy, caller).applied
   PROVE  Fits(ApplyFilter(c, policy, caller).request)
<1>1. CASE policy \in IdPolicies
   <2>1. \A d : ApplyFilter(d, policy, caller) = FilterIds(d, caller.readable)
      BY <1>1 DEF ApplyFilter
   <2>2. policy \notin MessagePolicies
      BY <1>1, RequiredIsPlain DEF RequiredPolicies
   <2> QED
      BY <1>1, <2>1, <2>2, IdsFit
<1>2. CASE policy = "request_experiment_id"
   <2>1. \A d : ApplyFilter(d, policy, caller) = FilterSingleId(d, caller.readable)
      BY <1>2 DEF ApplyFilter, IdPolicies
   <2>2. policy \notin MessagePolicies
      BY <1>2, RequiredIsPlain DEF RequiredPolicies
   <2> QED
      BY <1>2, <2>1, <2>2, SingleIdFits
<1>3. CASE policy = "request_trace_locations"
   <2>1. ApplyFilter(c, policy, caller) = FilterLocations(c, caller.readable)
      BY <1>3 DEF ApplyFilter, IdPolicies
   <2> QED
      BY <1>3, <2>1, LocationsFit
<1>4. CASE policy = "request_list_scorers"
   <2>1. ApplyFilter(c, policy, caller) = FilterScorers(c, caller)
      BY <1>4 DEF ApplyFilter, IdPolicies, AuthorizedIdPolicies
   <2> QED
      BY <1>4, <2>1, ScorersWithin DEF Fits, Within
<1>5. CASE policy \in AuthorizedIdPolicies \cup BodySearchPolicies
                      \cup ModelSearchPolicies \cup McpSearchPolicies
   <2>1. policy # "workspaces" /\ policy # "request_list_scorers"
      BY <1>5 DEF AuthorizedIdPolicies, BodySearchPolicies, ModelSearchPolicies,
                  McpSearchPolicies
   <2>2. /\ policy \in AuthorizedIdPolicies =>
               ApplyFilter(c, policy, caller) = FilterAuthorizedIds(c, caller)
         /\ policy \in BodySearchPolicies =>
               ApplyFilter(c, policy, caller) = FilterSearch(c, policy, caller)
         /\ policy \in ModelSearchPolicies \cup McpSearchPolicies =>
               ApplyFilter(c, policy, caller) = FilterQuerySearch(c, policy, caller)
      BY <1>5 DEF ApplyFilter, IdPolicies, AuthorizedIdPolicies, BodySearchPolicies,
                  ModelSearchPolicies, McpSearchPolicies
   <2>3. CASE caller.all
      <3>1. Scope(caller).broad /\ caller.readable = Items
         BY <2>3, ScopeIsReadable
      <3>2. ApplyFilter(c, policy, caller).request = c
         BY <1>5, <2>2, <3>1 DEF FilterAuthorizedIds, FilterSearch,
            FilterQuerySearch, Applied
      <3>3. Shown(c) = Asked
         BY <2>1, ReadingAsks
      <3> QED
         BY <3>1, <3>2, <3>3, SelectedInItems DEF Fits, Within, Keeps
   <2>4. CASE ~caller.all
      <3>1. CASE policy \in AuthorizedIdPolicies
         <4>1. FilterAuthorizedIds(c, caller).applied
            BY <2>2, <3>1
         <4> QED
            BY <2>1, <2>2, <2>4, <3>1, <4>1, AuthorizedIdsWithin DEF Fits, Within
      <3>2. CASE policy \in BodySearchPolicies
         BY <2>2, <2>4, <3>2, SearchWithin DEF Fits, Within
      <3>3. CASE policy \in ModelSearchPolicies \cup McpSearchPolicies
         BY <2>2, <2>4, <3>3, QuerySearchWithin DEF Fits, Within
      <3> QED
         BY <1>5, <3>1, <3>2, <3>3
   <2> QED
      BY <2>3, <2>4
<1> QED
   BY <1>1, <1>2, <1>3, <1>4, <1>5 DEF FilterPolicies, MessagePolicies

-----------------------------------------------------------------------------
(* The first attempt to narrow, and the second.                            *)
First == IF policy \in MessagePolicies THEN Whole ELSE Unread
Tried == Narrow(First, policy, caller)

LEMMA Loads ==
   ASSUME Inputs
   PROVE  /\ Load(Unread, TRUE) = Whole
          /\ Load(Unread, FALSE) =
                IF request.method = "GET" /\ request.query # NoFields
                   THEN Unread ELSE Whole
          /\ \A c, b : c.body.kind # "unread" => Load(c, b) = c
<1>1. /\ Unread.body.kind = "unread" /\ Unread.method = request.method
      /\ Unread.query = request.query
   BY PartsOfArrived, PartsOf
<1>2. [Unread EXCEPT !.body = request.body] = Whole
   <2>1. Unread = [method |-> request.method, query |-> request.query,
                   body |-> Body("unread", NoFields)]
      BY DEF Unread, Arrived
   <2>2. Whole = [method |-> request.method, query |-> request.query,
                  body |-> request.body]
      BY DEF Whole, Arrived
   <2> QED
      BY <2>1, <2>2
<1> QED
   BY <1>1, <1>2 DEF Load

LEMMA FirstFits ==
   ASSUME Inputs, policy \in FilterPolicies,
          policy = "request_list_scorers" => ~caller.all, Tried.applied
   PROVE  Fits(Tried.request)
<1>1. CASE policy \in MessagePolicies
   <2> DEFINE n == Normalize(Whole)
   <2>1. n.applied /\ Tried = ApplyFilter(n.request, policy, caller)
      BY <1>1 DEF Tried, First, Narrow
   <2>2. n.request \in Readings
      BY <1>1, <2>1, NormalizedWhole DEF Readings, Applied, NotApplied
   <2> QED
      BY <1>1, <2>1, <2>2, FilterFits
<1>2. CASE policy \notin MessagePolicies
   <2>1. Tried = ApplyFilter(Unread, policy, caller)
      BY <1>2 DEF Tried, First, Narrow
   <2>2. Unread \in Readings
      BY <1>2 DEF Readings
   <2>3. Unread # Whole
      <3>1. Unread.body.kind = "unread" /\ Whole.body.kind # "unread"
         BY InputTypes, PartsOfArrived, PartsOf
      <3> QED
         BY <3>1
   <2> QED
      BY <2>1, <2>2, <2>3, FilterFits
<1> QED
   BY <1>1, <1>2

(* Once it is decoded and normalized, a request that could not be narrowed *)
(* cannot be narrowed the second time.                                     *)
LEMMA SecondFits ==
   ASSUME Inputs, policy \in FilterPolicies,
          policy = "request_list_scorers" => ~caller.all, ~Tried.applied,
          Narrow(Load(Tried.request, FALSE), policy, caller).applied
   PROVE  Fits(Narrow(Load(Tried.request, FALSE), policy, caller).request)
<1>1. CASE policy \in MessagePolicies
   <2> DEFINE n == Normalize(Whole)
   <2>1. Whole.body.kind # "unread" /\ Decoded.body.kind # "unread"
      BY InputTypes, PartsOfArrived, PartsOf DEF Decoded
   <2>2. Moved.body.kind = "none"
      BY PartsOf DEF Moved
   <2>3. CASE n.applied
      <3>1. Tried = ApplyFilter(n.request, policy, caller)
         BY <1>1, <2>3 DEF Tried, First, Narrow
      <3>2. Tried.request = n.request
         BY <3>1, RefusedIsKept
      <3>3. \/ Moves /\ n.request = Moved
            \/ StaysPut /\ n.request = Decoded
         BY <2>3, NormalizedWhole DEF Applied, NotApplied
      <3>4. Load(Tried.request, FALSE) = n.request
         BY <2>1, <2>2, <3>2, <3>3, Loads
      <3>5. Normalize(n.request) = Applied(n.request)
         BY <3>3, NormalizeTwice
      <3>6. Narrow(n.request, policy, caller) = Tried
         BY <1>1, <3>1, <3>5 DEF Narrow, Applied
      <3> QED
         BY <3>4, <3>6
   <2>4. CASE ~n.applied
      <3>1. Tried = n
         BY <1>1, <2>4 DEF Tried, First, Narrow
      <3>2. ~Moves /\ ~StaysPut
         BY <2>4, NormalizedWhole DEF Applied
      <3>3. n.request \in {Whole, Decoded}
         BY <3>2, NormalizedWhole DEF NotApplied
      <3>4. Load(Tried.request, FALSE) = n.request
         BY <2>1, <3>1, <3>3, Loads
      <3>5. ~Normalize(n.request).applied
         BY <3>2, NormalizeTwice
      <3>6. ~Narrow(n.request, policy, caller).applied
         BY <1>1, <3>5 DEF Narrow
      <3> QED
         BY <3>4, <3>6
   <2> QED
      BY <2>3, <2>4
<1>2. CASE policy \notin MessagePolicies
   <2>1. \A c : Narrow(c, policy, caller) = ApplyFilter(c, policy, caller)
      BY <1>2 DEF Narrow
   <2>2. Tried = ApplyFilter(Unread, policy, caller)
      BY <1>2, <2>1 DEF Tried, First
   <2>3. Tried.request = Unread
      BY <2>2, RefusedIsKept
   <2>4. /\ Load(Tried.request, FALSE) = Whole
         /\ ~(request.method = "GET" /\ request.query # NoFields)
      BY <2>1, <2>2, <2>3, Loads
   <2>5. Whole \in Readings
      BY <1>2, <2>4, InputTypes DEF Readings
   <2> QED
      BY <2>1, <2>2, <2>4, <2>5, FilterFits
<1> QED
   BY <1>1, <1>2

(* Ids that neither attempt could narrow are none that may be read.        *)
Denied == ~Tried.applied /\ ~Narrow(Load(Tried.request, FALSE), policy, caller).applied

LEMMA DenialIsNeeded ==
   ASSUME Inputs, Denied, policy \in IdPolicies \cup {"request_trace_locations"},
          request.body.kind # "text",
          "alias" \in DOMAIN request.body.fields =>
             "field" \in DOMAIN request.body.fields
   PROVE  Asked \cap caller.readable = {}
<1>1. policy \in RequiredPolicies
   BY DEF RequiredPolicies
<1>2. \A c : Narrow(c, policy, caller) = ApplyFilter(c, policy, caller)
   BY <1>1, RequiredIsPlain DEF Narrow
<1>3. Tried = ApplyFilter(Unread, policy, caller)
   BY <1>1, <1>2, RequiredIsPlain DEF Tried, First
<1>4. Tried.request = Unread
   BY <1>3, RefusedIsKept DEF Denied
<1>5. SelectedBy(NoFields) = {}
   BY <1>1, NothingSelected, NoFieldsIsEmpty
<1>6. CASE request.method = "GET" /\ request.query # NoFields
   <2> DEFINE w == Without(request.query, {"alias"})
   <2>1. Asked = SelectedBy(w)
      BY <1>1, <1>6, RequiredIsPlain DEF Asked, Source, Arrived
   <2>2. policy \in IdPolicies
      BY <1>6, SelectorAssumption DEF Inputs, policy
   <2>3. QueryIds(Unread, "field") \cap caller.readable = {}
      BY <1>3, <2>2 DEF Denied, ApplyFilter, FilterIds, Applied
   <2>4. Unread.query = request.query
      BY PartsOfArrived, PartsOf
   <2>5. CASE "field" \in DOMAIN request.query
      <3>1. "field" \in DOMAIN w /\ w["field"] = request.query["field"]
         BY <2>5 DEF Without
      <3> HIDE DEF w
      <3>2. SelectedBy(w) \subseteq request.query["field"].of
         BY <1>1, <3>1, RequiredIsPlain, SelectedInField
      <3> QED
         BY <2>1, <2>3, <2>4, <2>5, <3>2 DEF QueryIds, QueryHas
   <2>6. CASE "field" \notin DOMAIN request.query
      <3>1. {"field", "alias"} \cap DOMAIN w = {}
         BY <2>6 DEF Without
      <3> HIDE DEF w
      <3> QED
         BY <1>1, <2>1, <3>1, NothingSelected
   <2> QED
      BY <2>5, <2>6
<1>7. CASE ~(request.method = "GET" /\ request.query # NoFields)
   <2>1. ~ApplyFilter(Whole, policy, caller).applied
      BY <1>2, <1>4, <1>7, Loads DEF Denied
   <2>2. BodyIds(Whole, "field") \cap caller.readable = {}
      BY <1>1, <2>1 DEF ApplyFilter, FilterIds, FilterLocations, IdPolicies, Applied
   <2>3. /\ Whole.body.kind = request.body.kind
         /\ Whole.body.fields = request.body.fields
      BY PartsOfArrived, PartsOf
   <2>4. Asked = SelectedBy(request.body.fields)
      BY <1>1, <1>7, RequiredIsPlain, InputTypes, AskedOfBody
   <2>5. CASE request.body.kind = "object" /\ "field" \in DOMAIN request.body.fields
      <3>1. SelectedBy(request.body.fields) \subseteq request.body.fields["field"].of
         BY <1>1, <2>5, RequiredIsPlain, SelectedInField
      <3> QED
         BY <2>2, <2>3, <2>4, <2>5, <3>1 DEF BodyIds, BodyHas
   <2>6. CASE request.body.kind = "object" /\ "field" \notin DOMAIN request.body.fields
      BY <1>1, <2>4, <2>6, NothingSelected
   <2>7. CASE request.body.kind # "object"
      BY <1>5, <2>4, <2>7, InputTypes
   <2> QED
      BY <2>5, <2>6, <2>7
<1> QED
   BY <1>6, <1>7

-----------------------------------------------------------------------------
(***************************************************************************)
(* What the handler finds is what the authorization let pass.              *)
(***************************************************************************)
Passed(x) ==
   policy # "workspaces" =>
      /\ Shown(x) \subseteq Asked
      /\ ~LeavesBody(x) /\ ~broad => Shown(x) \subseteq caller.readable
      /\ Keeps(x)

(* A request is narrowed if its caller may not have every resource; the    *)
(* review of scorers asks for the very permission that their scope has.    *)
Narrowable ==
   /\ policy \in FilterPolicies
   /\ policy = "request_list_scorers" => ~caller.all

NarrowInv ==
   /\ Inputs
   /\ pc \notin {"handle", "answered", "done"} => live = Arrived(request)
   /\ pc \in {"dispatch", "review", "scorers", "first"} => known = Unread
   /\ pc = "scorers" =>
         policy = "request_list_scorers" /\ request.query = NoFields /\ broad
   /\ pc \in {"first", "second"} => Narrowable
   /\ pc = "second" => known = Tried.request /\ ~Tried.applied
   /\ pc \in {"rewrite", "handle", "answered"} => Passed(known)
   /\ pc \in {"handle", "answered"} => live = Handed(known)
   /\ pc = "answered" => response \subseteq Selected(live)
   /\ pc # "done" => outcome = None
   /\ outcome = "denied" => Denied
   /\ pc \in {"dispatch", "review", "scorers", "first", "second", "rewrite",
              "handle", "answered", "done"}
   /\ ShownIsReadable

LEMMA InitNarrow == Init => NarrowInv
BY DEF Init, NarrowInv, Inputs, Unread, None, ShownIsReadable

(* What replaces the live request is what is handed over.                  *)
LEMMA RewrittenIsHanded ==
   ASSUME live = Arrived(request), NEW x
   PROVE  Rewritten(x) = Handed(x)
<1>1. live = [method |-> request.method, query |-> request.query,
              body |-> request.body]
   BY DEF Arrived
<1> DEFINE body == IF x.body.kind = "object" THEN x.body ELSE request.body
           query == IF x.query = request.query THEN request.query
                    ELSE Encoded(x.query)
           rebodied == [live EXCEPT !.body = body]
<1>2. /\ Rewritten(x) = SetQuery(rebodied, query)
      /\ SetQuery(rebodied, query) = [rebodied EXCEPT !.query = query]
   BY <1>1 DEF Rewritten, SetQuery
<1>3. Handed(x) = [method |-> request.method, query |-> query, body |-> body]
   BY DEF Handed
<1> HIDE DEF body, query
<1>4. rebodied = [method |-> request.method, query |-> request.query, body |-> body]
   BY <1>1
<1> HIDE DEF rebodied
<1> QED
   BY <1>2, <1>3, <1>4

(* All of this depends on the inputs only.                                 *)
LEMMA AnswersStay ==
   ASSUME request' = request, caller' = caller
   PROVE  /\ Inputs => Inputs'
          /\ Asked' = Asked /\ Narrowable' = Narrowable
          /\ Unread' = Unread /\ Arrived(request)' = Arrived(request)
          /\ Tried' = Tried /\ Denied' = Denied
          /\ Careful' = Careful
          /\ \A x : Handed(x)' = Handed(x)
          /\ \A x : Selected(x)' = Selected(x)
          /\ \A x : LeavesBody(x)' = LeavesBody(x)
<1>1. policy' = policy
   BY DEF policy
<1>2. ASSUME NEW fields, NEW f PROVE Missing(fields, f)' = Missing(fields, f)
   BY <1>1 DEF Missing
<1>3. ASSUME NEW fields PROVE Stated(fields)' = Stated(fields)
   BY <1>2 DEF Stated
<1>4. ASSUME NEW fields PROVE SelectedBy(fields)' = SelectedBy(fields)
   BY <1>1, <1>3 DEF SelectedBy
<1>5. ASSUME NEW x PROVE Source(x)' = Source(x)
   BY <1>1 DEF Source
<1>6. ASSUME NEW x PROVE Honoured(x)' = Honoured(x)
   BY <1>1, <1>5 DEF Honoured
<1>7. ASSUME NEW x PROVE Selected(x)' = Selected(x)
   BY <1>1, <1>4, <1>6 DEF Selected
<1>8. ASSUME NEW x PROVE Handed(x)' = Handed(x)
   BY DEF Handed
<1>9. ASSUME NEW x PROVE LeavesBody(x)' = LeavesBody(x)
   BY <1>1 DEF LeavesBody, StatedTwice
<1>10. Arrived(request)' = Arrived(request)
   BY DEF Arrived
<1>11. Asked' = Asked
   BY <1>1, <1>4, <1>5, <1>10 DEF Asked
<1>12. Unread' = Unread /\ Whole' = Whole
   BY <1>10 DEF Unread, Whole
<1>13. Tried' = Tried
   BY <1>1, <1>12 DEF Tried, First
<1>14. (Inputs => Inputs') /\ Narrowable' = Narrowable
   BY <1>1 DEF Inputs, Narrowable
<1>15. Denied' = Denied
   <2>1. \A x : Load(x, FALSE)' = Load(x, FALSE)
      BY DEF Load
   <2>2. Load(Tried.request, FALSE)' = Load(Tried.request, FALSE)
      BY <1>13, <2>1
   <2> QED
      BY <1>1, <1>13, <2>2 DEF Denied
<1>16. Careful' = Careful
   BY DEF Careful, OneSource, OnlyBody
<1> QED
   BY <1>7, <1>8, <1>9, <1>10, <1>11, <1>12, <1>13, <1>14, <1>15, <1>16

LEMMA PassedStays ==
   ASSUME request' = request, caller' = caller, broad' = broad, known' = known,
          Passed(known)
   PROVE  Passed(known)'
<1>1. Shown(known)' = Shown(known)
   <2>1. Handed(known)' = Handed(known)
      BY AnswersStay
   <2> QED
      BY <2>1, AnswersStay DEF Shown
<1>2. LeavesBody(known)' = LeavesBody(known)
   BY AnswersStay
<1>3. policy' = policy /\ Asked' = Asked
   BY AnswersStay DEF policy
<1>4. Careful' = Careful
   BY AnswersStay
<1> QED
   BY <1>1, <1>2, <1>3, <1>4 DEF Passed, Keeps

LEMMA PassesNow ==
   ASSUME request' = request, caller' = caller,
          policy # "workspaces" =>
             /\ Shown(known') \subseteq Asked
             /\ ~LeavesBody(known') /\ ~broad' =>
                   Shown(known') \subseteq caller.readable
             /\ Keeps(known')
   PROVE  Passed(known)'
<1>1. Shown(known)' = Shown(known')
   <2>1. Handed(known)' = Handed(known')
      BY AnswersStay
   <2> QED
      BY <2>1, AnswersStay DEF Shown
<1>2. LeavesBody(known)' = LeavesBody(known')
   BY AnswersStay
<1>3. policy' = policy /\ Asked' = Asked
   BY AnswersStay DEF policy
<1>4. Careful' = Careful
   BY AnswersStay
<1> QED
   BY <1>1, <1>2, <1>3, <1>4 DEF Passed, Keeps

LEMMA PolicyOf ==
   ASSUME Inputs
   PROVE  policy \in FilterPolicies \cup {"workspaces"}
BY InputTypes DEF Request, policy

(* The steps before the request is rewritten.                              *)
LEMMA ReviewNarrow ==
   ASSUME NarrowInv, ReviewBroad
   PROVE  NarrowInv'
<1>1. /\ pc = "review" /\ known = Unread /\ live = Arrived(request) /\ Inputs
      /\ outcome = None
   BY DEF ReviewBroad, NarrowInv
<1>2. /\ request' = request /\ caller' = caller /\ known' = known
      /\ live' = live /\ outcome' = outcome
   BY DEF ReviewBroad, inputs
<1>3. Unread.query = request.query /\ Unread.body.kind = "unread"
   BY <1>1, PartsOfArrived, PartsOf
<1>4. /\ pc' \in {"rewrite", "first", "scorers"}
      /\ pc' = "first" => Narrowable /\ ~broad'
      /\ pc' = "scorers" =>
            /\ policy = "request_list_scorers" /\ request.query = NoFields
            /\ broad'
      /\ pc' = "rewrite" =>
            \/ policy = "workspaces"
            \/ broad' /\ ~(policy = "request_list_scorers" /\ request.query = NoFields)
   <2>1. CASE policy = "workspaces"
      BY <2>1, <1>1 DEF ReviewBroad
   <2>2. CASE policy # "workspaces"
      <3>1. /\ policy = "request_list_scorers" => broad' = caller.all
            /\ pc' = IF ~broad' THEN "first"
                     ELSE IF policy = "request_list_scorers"
                             /\ request.query = NoFields
                        THEN "scorers" ELSE "rewrite"
         BY <1>1, <1>3, <2>2 DEF ReviewBroad
      <3>2. policy \in FilterPolicies
         BY <1>1, <2>2, PolicyOf
      <3> QED
         BY <3>1, <3>2 DEF Narrowable
   <2> QED
      BY <2>1, <2>2
<1>5. pc' = "rewrite" => Passed(known)'
   <2> SUFFICES ASSUME pc' = "rewrite", policy # "workspaces"
                PROVE  Passed(known)'
      BY <1>2, PassesNow
   <2>1. Shown(Unread) = Asked
      BY <1>1, <1>3, <1>4, UnmovedAsks
   <2> QED
      BY <1>1, <1>2, <1>4, <2>1, PassesNow DEF Keeps
<1>6. /\ Inputs' /\ live' = Arrived(request)' /\ known' = Unread'
      /\ Narrowable' = Narrowable
   BY <1>1, <1>2, AnswersStay
<1>7. policy' = policy
   BY <1>2 DEF policy
<1> QED
   BY <1>1, <1>2, <1>4, <1>5, <1>6, <1>7 DEF NarrowInv, ShownIsReadable, None

LEMMA ScorersNarrow ==
   ASSUME NarrowInv, NormalizeScorers
   PROVE  NarrowInv'
<1>1. /\ pc = "scorers" /\ known = Unread /\ live = Arrived(request) /\ Inputs
      /\ policy = "request_list_scorers" /\ broad /\ outcome = None
   BY DEF NormalizeScorers, NarrowInv
<1>2. /\ request' = request /\ caller' = caller /\ live' = live /\ broad' = broad
      /\ response' = response
   BY DEF NormalizeScorers, inputs
<1> DEFINE n == Normalize(Whole)
<1>3. Load(known, TRUE) = Whole
   BY <1>1, Loads
<1>4. /\ Inputs' /\ live' = Arrived(request)'
   BY <1>1, <1>2, AnswersStay
<1>5. CASE Encodes(n)
   <2>1. known' = n.request /\ pc' = "rewrite" /\ outcome' = outcome
      BY <1>3, <1>5 DEF NormalizeScorers
   <2>2. n.applied /\ ~("field" \in DOMAIN n.request.query
                        /\ n.request.query["field"] = List({}))
      BY <1>5 DEF Encodes
   <2>3. policy \in MessagePolicies
      BY <1>1 DEF MessagePolicies
   <2>4. n.request \in Readings
      BY <1>1, <2>2, <2>3, NormalizedWhole DEF Readings, Applied, NotApplied
   <2>5. Shown(n.request) = Asked
      BY <1>1, <2>2, <2>4, ReadingAsks
   <2>6. Passed(known)'
      BY <1>1, <1>2, <2>1, <2>5, PassesNow DEF Keeps
   <2> QED
      BY <1>1, <1>4, <2>1, <2>6 DEF NarrowInv, ShownIsReadable, None
<1>6. CASE ~Encodes(n)
   <2>1. pc' = "done" /\ outcome' = "refused"
      BY <1>3, <1>6 DEF NormalizeScorers, LeaveRefused, Leave
   <2> QED
      BY <1>4, <2>1 DEF NarrowInv, ShownIsReadable
<1> QED
   BY <1>5, <1>6

LEMMA FirstNarrow ==
   ASSUME NarrowInv, NarrowFirst
   PROVE  NarrowInv'
<1>1. /\ pc = "first" /\ known = Unread /\ live = Arrived(request) /\ Inputs
      /\ Narrowable /\ outcome = None
   BY DEF NarrowFirst, NarrowInv
<1>2. /\ request' = request /\ caller' = caller /\ live' = live
      /\ outcome' = outcome
   BY DEF NarrowFirst, inputs
<1>3. LoadToFilter = First
   BY <1>1, Loads DEF LoadToFilter, First
<1>4. known' = Tried.request /\ pc' = IF Tried.applied THEN "rewrite" ELSE "second"
   BY <1>3 DEF NarrowFirst, Tried
<1>5. Tried.applied => Fits(Tried.request)
   BY <1>1, FirstFits DEF Narrowable
<1>6. Tried.applied => Passed(known)'
   BY <1>2, <1>4, <1>5, PassesNow DEF Fits, Within
<1>7. /\ Inputs' /\ live' = Arrived(request)' /\ Narrowable' /\ Tried' = Tried
   BY <1>1, <1>2, AnswersStay
<1> QED
   BY <1>1, <1>2, <1>4, <1>6, <1>7 DEF NarrowInv, ShownIsReadable, None

LEMMA SecondNarrow ==
   ASSUME NarrowInv, NarrowSecond
   PROVE  NarrowInv'
<1>1. /\ pc = "second" /\ known = Tried.request /\ ~Tried.applied
      /\ live = Arrived(request) /\ Inputs /\ Narrowable /\ outcome = None
   BY DEF NarrowSecond, NarrowInv
<1>2. /\ request' = request /\ caller' = caller /\ live' = live
   BY DEF NarrowSecond, inputs
<1> DEFINE again == Narrow(Load(Tried.request, FALSE), policy, caller)
<1>3. /\ known' = again.request
      /\ again.applied => pc' = "rewrite" /\ outcome' = outcome
      /\ ~again.applied => pc' = "done" /\ outcome' = "denied"
   BY <1>1 DEF NarrowSecond, LeaveRefused, Leave
<1>4. again.applied => Fits(again.request)
   BY <1>1, SecondFits DEF Narrowable
<1>5. ~again.applied => Denied'
   <2>1. ~again.applied => Denied
      BY <1>1 DEF Denied
   <2> QED
      BY <1>2, <2>1, AnswersStay
<1> HIDE DEF again
<1>6. again.applied => Passed(known)'
   BY <1>2, <1>3, <1>4, PassesNow DEF Fits, Within
<1>7. Inputs' /\ live' = Arrived(request)'
   BY <1>1, <1>2, AnswersStay
<1> QED
   BY <1>1, <1>3, <1>6, <1>7, <1>5 DEF NarrowInv, ShownIsReadable, None

(* The steps of the handler.                                               *)
LEMMA RewriteNarrow ==
   ASSUME NarrowInv, Rewrite
   PROVE  NarrowInv'
<1>1. /\ pc = "rewrite" /\ Passed(known) /\ live = Arrived(request) /\ Inputs
      /\ outcome = None
   BY DEF Rewrite, NarrowInv
<1>2. /\ request' = request /\ caller' = caller /\ known' = known
      /\ broad' = broad /\ outcome' = outcome /\ pc' = "handle"
      /\ live' = Rewritten(known)
   BY DEF Rewrite, inputs
<1>3. live' = Handed(known)'
   <2>1. Handed(known)' = Handed(known)
      BY <1>2, AnswersStay
   <2> QED
      BY <1>1, <1>2, <2>1, RewrittenIsHanded
<1>4. Passed(known)' /\ Inputs'
   BY <1>1, <1>2, PassedStays, AnswersStay
<1> QED
   BY <1>1, <1>2, <1>3, <1>4 DEF NarrowInv, ShownIsReadable, None

LEMMA HandleNarrow ==
   ASSUME NarrowInv, Handle
   PROVE  NarrowInv'
<1>1. /\ pc = "handle" /\ Passed(known) /\ live = Handed(known) /\ Inputs
      /\ outcome = None
   BY DEF Handle, NarrowInv
<1>2. /\ request' = request /\ caller' = caller /\ known' = known
      /\ broad' = broad /\ live' = live
   BY DEF Handle, inputs
<1>3. \/ /\ pc' = "answered" /\ response' \subseteq Selected(live)
         /\ outcome' = outcome
      \/ pc' = "done" /\ outcome' = "raised"
   BY DEF Handle, Leave
<1>4. Handed(known)' = Handed(known) /\ Selected(live)' = Selected(live)
   BY <1>2, AnswersStay
<1>5. Passed(known)' /\ Inputs'
   BY <1>1, <1>2, PassedStays, AnswersStay
<1> QED
   BY <1>1, <1>2, <1>3, <1>4, <1>5 DEF NarrowInv, ShownIsReadable, None

LEMMA ResponseNarrow ==
   ASSUME NarrowInv, FilterResponse
   PROVE  NarrowInv'
<1>1. /\ pc = "answered" /\ Passed(known) /\ live = Handed(known) /\ Inputs
      /\ response \subseteq Selected(live)
   BY DEF FilterResponse, NarrowInv
<1>2. /\ request' = request /\ caller' = caller /\ known' = known
      /\ broad' = broad /\ pc' = "done" /\ outcome' \in {"answered", "raised"}
   BY DEF FilterResponse, inputs, Leave
<1>3. response' \subseteq caller.readable \/ ~(policy = "workspaces") \/ outcome' = "raised"
   BY DEF FilterResponse, Leave
<1>4. policy # "workspaces" => response' = response
   BY DEF FilterResponse
<1>5. ASSUME policy # "workspaces", ~broad, ~LeavesBody(known)
      PROVE  response' \subseteq caller.readable
   BY <1>1, <1>4, <1>5 DEF Passed, Shown
<1>6. /\ OnlyQueryWasSeen <=> LeavesBody(known)
      /\ OnlyQueryWasSeen' <=> LeavesBody(known)'
   BY DEF OnlyQueryWasSeen, LeavesBody
<1>7. LeavesBody(known)' <=> LeavesBody(known)
   BY <1>2, AnswersStay
<1>8. ShownIsReadable'
   BY <1>2, <1>3, <1>5, <1>6, <1>7 DEF ShownIsReadable
<1>9. Inputs'
   BY <1>1, <1>2, AnswersStay
<1> QED
   BY <1>2, <1>8, <1>9 DEF NarrowInv

LEMMA NextNarrow == NarrowInv /\ [Next]_vars => NarrowInv'
<1> SUFFICES ASSUME NarrowInv, [Next]_vars PROVE NarrowInv'
   OBVIOUS
<1>1. CASE ResolveWorkspace
   <2>1. /\ request' = request /\ caller' = caller /\ known' = known
         /\ live' = live
         /\ \/ pc' = "done" /\ outcome' = "refused"
            \/ pc' = "review" /\ outcome' = outcome
      BY <1>1 DEF ResolveWorkspace, Leave, inputs
   <2>2. /\ Inputs /\ known = Unread /\ live = Arrived(request) /\ outcome = None
      BY <1>1 DEF ResolveWorkspace, NarrowInv
   <2>3. Inputs' /\ Unread' = Unread /\ Arrived(request)' = Arrived(request)
      BY <2>1, <2>2, AnswersStay
   <2> QED
      BY <2>1, <2>2, <2>3 DEF NarrowInv, ShownIsReadable, None
<1>2. CASE AuthorizationFails
   <2>1. /\ request' = request /\ caller' = caller
         /\ pc' = "done" /\ outcome' \in {"refused", "error"}
      BY <1>2 DEF AuthorizationFails, LeaveRefused, Leave, inputs
   <2>2. Inputs'
      BY <2>1, AnswersStay DEF NarrowInv
   <2> QED
      BY <2>1, <2>2 DEF NarrowInv, ShownIsReadable
<1>3. CASE UNCHANGED vars
   <2>1. /\ request' = request /\ caller' = caller /\ known' = known
         /\ broad' = broad /\ live' = live /\ pc' = pc /\ outcome' = outcome
         /\ response' = response
      BY <1>3 DEF vars
   <2>2. /\ Inputs' /\ Unread' = Unread /\ Narrowable' = Narrowable
         /\ Tried' = Tried /\ Denied' = Denied /\ Arrived(request)' = Arrived(request)
      BY <2>1, AnswersStay DEF NarrowInv
   <2>3. /\ Handed(known)' = Handed(known) /\ Selected(live)' = Selected(live)
         /\ LeavesBody(known)' = LeavesBody(known)
      BY <2>1, AnswersStay
   <2>4. Passed(known) => Passed(known)'
      BY <2>1, PassedStays
   <2>5. ShownIsReadable'
      <3>1. /\ OnlyQueryWasSeen <=> LeavesBody(known)
            /\ OnlyQueryWasSeen' <=> LeavesBody(known)'
         BY DEF OnlyQueryWasSeen, LeavesBody
      <3> QED
         BY <2>1, <2>3, <3>1 DEF NarrowInv, ShownIsReadable
   <2>6. policy' = policy
      BY <2>1 DEF policy
   <2> QED
      BY <2>1, <2>2, <2>3, <2>4, <2>5, <2>6 DEF NarrowInv
<1> QED
   BY <1>1, <1>2, <1>3, ReviewNarrow, ScorersNarrow, FirstNarrow, SecondNarrow,
      RewriteNarrow, HandleNarrow, ResponseNarrow DEF Next, Done

(* However a request is decoded, tried twice, rewritten and encoded, under *)
(* whichever spelling it selects, and however stale the names of the rules *)
(* review are: what it shows once narrowed, its caller may read.  Of a     *)
(* POST that states its ids in query and body this holds only if the       *)
(* filters have looked at both; BothSourcesAreNarrowed is violated.        *)
THEOREM NarrowedIsReadable == Spec => []ShownIsReadable
<1>1. NarrowInv => ShownIsReadable
   BY DEF NarrowInv
<1> QED
   BY InitNarrow, NextNarrow, <1>1, PTL DEF Spec

(* Wherever the authorization moves the fields of a request, its handler   *)
(* finds no more selected than the request asked for as it arrived.        *)
THEOREM NarrowingIsSound == Spec => []NarrowingNeverWidens
<1>1. NarrowInv => NarrowingNeverWidens
   <2> SUFFICES ASSUME NarrowInv, pc \in {"handle", "answered"}
                PROVE  Selected(live) \subseteq Asked
      BY DEF NarrowingNeverWidens
   <2>1. Passed(known) /\ live = Handed(known)
      BY DEF NarrowInv
   <2>2. CASE policy = "workspaces"
      BY <2>2 DEF Selected, Asked
   <2>3. CASE policy # "workspaces"
      BY <2>1, <2>3 DEF Passed, Shown
   <2> QED
      BY <2>2, <2>3
<1> QED
   BY InitNarrow, NextNarrow, <1>1, PTL DEF Spec

(* What a request selects in the one place its handler reads, and its      *)
(* caller may read, is still selected once it has been narrowed; and no    *)
(* list of ids is denied that has a readable one in it.                    *)
THEOREM NarrowingIsTight == Spec => []ReadableIsKept
<1>1. NarrowInv => ReadableIsKept
   <2> SUFFICES ASSUME NarrowInv, Careful
                PROVE  /\ pc \in {"handle", "answered"} =>
                             Asked \cap caller.readable \subseteq Selected(live)
                       /\ /\ outcome = "denied"
                          /\ policy \in IdPolicies \cup {"request_trace_locations"}
                          /\ request.body.kind # "text"
                          /\ "alias" \in DOMAIN request.body.fields =>
                                "field" \in DOMAIN request.body.fields
                          => Asked \cap caller.readable = {}
      BY DEF ReadableIsKept, Careful
   <2>1. ASSUME pc \in {"handle", "answered"}
         PROVE  Asked \cap caller.readable \subseteq Selected(live)
      <3>1. Passed(known) /\ live = Handed(known)
         BY <2>1 DEF NarrowInv
      <3>2. CASE policy = "workspaces"
         BY <3>2 DEF Selected, Asked
      <3>3. CASE policy # "workspaces"
         BY <3>1, <3>3 DEF Passed, Keeps, Shown
      <3> QED
         BY <3>2, <3>3
   <2>2. outcome = "denied" => Denied /\ Inputs
      BY DEF NarrowInv
   <2> QED
      BY <2>1, <2>2, DenialIsNeeded
<1> QED
   BY InitNarrow, NextNarrow, <1>1, PTL DEF Spec
=============================================================================
