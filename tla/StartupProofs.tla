---------------------------- MODULE StartupProofs ----------------------------
(***************************************************************************)
(* Proofs about the process composed in Startup.  First what GraphqlRules  *)
(* promises of every query, for all valid documents and all schemas, and   *)
(* that the process treats queries as GraphqlRules says.  Then what        *)
(* RuleCompiler promises of every request for a route, for all routes      *)
(* MLflow may register; the sequences it is computed with are reasoned     *)
(* about by induction.                                                     *)
(***************************************************************************)
EXTENDS Startup, TLAPS, WellFoundedInduction, FiniteSetTheorems,
        SequenceTheorems

-----------------------------------------------------------------------------
(* Induction over data, from the minimum of a well-founded relation: the    *)
(* library's induction rules take a predicate as a parameter, a set does    *)
(* instead of one.                                                          *)

LEMMA LessIsWellFounded ==
  \E less : /\ IsWellFoundedOn(less, Nat)
            /\ \A x, y \in Nat : <<y, x>> \in less <=> y < x
<1> DEFINE less == {ss \in Nat \X Nat : ss[1] < ss[2]}
<1>1. OpToRel(<, Nat) = less
  BY Zenon DEF OpToRel
<1>2. IsWellFoundedOn(less, Nat)
  BY <1>1, NatLessThanWellFounded, Zenon
<1>3. \A x, y \in Nat : <<y, x>> \in less <=> y < x
  OBVIOUS
<1> HIDE DEF less
<1>4. QED
  BY <1>2, <1>3, Zenon

(* A set of numbers that is not empty has a least one. *)
LEMMA LeastOf ==
  ASSUME NEW S, S \subseteq Nat, S # {}
  PROVE  \E x \in S : \A y \in S : x <= y
<1>1. PICK less : /\ IsWellFoundedOn(less, Nat)
                  /\ \A x, y \in Nat : <<y, x>> \in less <=> y < x
  BY LessIsWellFounded, Zenon
<1>2. PICK x \in S : \A y \in S : <<y, x>> \notin less
  BY <1>1, WFMin, Zenon
<1>3. ASSUME NEW y \in S PROVE x <= y
  <2>1. x \in Nat /\ y \in Nat /\ ~(y < x)
    BY <1>1, <1>2
  <2>2. QED
    BY <2>1
<1>4. QED
  BY <1>3

(* A set that has 0 and is closed under successor has all numbers. *)
LEMMA ByInduction ==
  ASSUME NEW S, 0 \in S, \A n \in Nat : n \in S => n + 1 \in S
  PROVE  \A n \in Nat : n \in S
<1> DEFINE R == Nat \ S
<1>1. SUFFICES ASSUME R # {} PROVE FALSE
  OBVIOUS
<1>2. \E n \in R : \A m \in R : n <= m
  <2>1. R \subseteq Nat
    OBVIOUS
  <2> HIDE DEF R
  <2>2. QED
    BY <1>1, <2>1, LeastOf, Zenon
<1>3. PICK n \in R : \A m \in R : n <= m
  BY <1>2, Zenon
<1>4. n # 0 /\ n - 1 \in Nat /\ n - 1 \in S /\ n = (n - 1) + 1
  BY <1>3
<1>5. QED
  BY <1>3, <1>4

(* A finite set as a sequence has its members. *)
LEMMA SetToSeqMembers ==
  ASSUME NEW S, IsFiniteSet(S)
  PROVE  SetToSeq(S) \in Seq(S) /\ ToSet(SetToSeq(S)) = S
<1> DEFINE n == Cardinality(S)
           f == SetToSeq(S)
<1>1. n \in Nat /\ ExistsBijection(1..n, S)
  BY FS_CardinalityType
<1>2. \E g \in [1..n -> S] : IsInjective(g)
  BY <1>1 DEF ExistsBijection, Bijection, Injection, Surjection, IsInjective
<1>3. f \in [1..n -> S] /\ IsInjective(f)
  BY <1>2, Zenon DEF SetToSeq
<1> HIDE DEF f, n
<1>4. f \in Injection(1..n, S)
  BY <1>3 DEF Injection, IsInjective
<1>5. IsFiniteSet(1..n) /\ Cardinality(1..n) = n
  BY <1>1, FS_Interval
<1>6. f \in Surjection(1..n, S)
  BY <1>4, <1>5, FS_Injection DEF n
<1>7. ToSet(f) = S
  BY <1>3, <1>6 DEF ToSet, Surjection
<1>8. f \in Seq(S)
  BY <1>1, <1>3
<1>9. QED
  BY <1>7, <1>8 DEF f

-----------------------------------------------------------------------------
(* Valid documents. *)

LEMMA NoQueryIsValid == ValidDocument(NoQuery)
<1>1. /\ DOMAIN NoQuery.blocks = {} /\ DOMAIN NoQuery.fragments = {}
      /\ NoQuery.operations = <<>>
  BY DEF NoQuery
<1>2. <<>> \in Seq({}) /\ DOMAIN <<>> = {}
  OBVIOUS
<1>3. QED
  BY <1>1, <1>2 DEF ValidDocument

(* Each selection of a valid document, by its kind. *)
LEMMA SelectionIsValid ==
  ASSUME ValidDocument(doc), NEW b \in Blocks, NEW i \in DOMAIN doc.blocks[b]
  PROVE  LET s == doc.blocks[b][i]
         IN /\ s \in Selection
            /\ doc.kinds[b] \in {"root", "registry", "data", "leaf"}
            /\ s.kind = "field" =>
                  /\ s.name # None
                  /\ s.name \in NestedRegistryFields => doc.kinds[b] # "leaf"
                  /\ s.sub # None =>
                        /\ s.sub \in Blocks
                        /\ doc.kinds[s.sub] \in KindsBelow(doc.kinds[b], s.name)
            /\ s.kind = "inline" =>
                  s.sub \in Blocks /\ doc.kinds[s.sub] = doc.kinds[b]
            /\ s.kind = "spread" /\ s.name \in DOMAIN doc.fragments =>
                  /\ doc.fragments[s.name] \in Blocks
                  /\ doc.kinds[doc.fragments[s.name]] = doc.kinds[b]
<1> DEFINE s == doc.blocks[b][i]
<1>1. doc.blocks[b] \in Seq(Selection) /\ ValidSelection(doc, s, doc.kinds[b])
  BY DEF ValidDocument, Blocks
<1>2. s \in Selection
  BY <1>1
<1>3. \A f \in DOMAIN doc.fragments : doc.fragments[f] \in Blocks
  BY DEF ValidDocument, Blocks
<1>4. doc.kinds[b] \in {"root", "registry", "data", "leaf"}
  BY DEF ValidDocument, Blocks
<1>5. CASE s.kind = "field"
  BY <1>1, <1>2, <1>4, <1>5 DEF ValidSelection, Blocks
<1>6. CASE s.kind = "inline"
  BY <1>1, <1>2, <1>4, <1>6 DEF ValidSelection, Blocks
<1>7. CASE s.kind = "spread"
  BY <1>1, <1>2, <1>3, <1>4, <1>7 DEF ValidSelection
<1>8. QED
  BY <1>2, <1>5, <1>6, <1>7 DEF Selection

LEMMA BesideIsAlike ==
  ASSUME ValidDocument(doc), NEW b \in Blocks, NEW c \in Beside(b)
  PROVE  c \in Blocks /\ doc.kinds[c] = doc.kinds[b]
<1>1. CASE c \in {s.sub : s \in Of("inline", b)}
  <2>1. PICK i \in DOMAIN doc.blocks[b] : /\ doc.blocks[b][i].kind = "inline"
                                          /\ c = doc.blocks[b][i].sub
    BY <1>1 DEF Of, Selections
  <2>2. QED
    BY <2>1, SelectionIsValid
<1>2. CASE c \in {doc.fragments[f] : f \in {s.name : s \in Of("spread", b)}
                                             \cap DOMAIN doc.fragments}
  <2>1. PICK i \in DOMAIN doc.blocks[b] :
            /\ doc.blocks[b][i].kind = "spread"
            /\ doc.blocks[b][i].name \in DOMAIN doc.fragments
            /\ c = doc.fragments[doc.blocks[b][i].name]
    BY <1>2 DEF Of, Selections
  <2>2. QED
    BY <2>1, SelectionIsValid
<1>3. QED
  BY <1>1, <1>2 DEF Beside

(* Below what has nothing to do with a search for model versions there is  *)
(* no such search.                                                         *)
LEMMA BelowStaysOutside ==
  ASSUME ValidDocument(doc), NEW b \in Blocks, NEW c \in Below(b),
         doc.kinds[b] \in {"data", "leaf"}
  PROVE  c \in Blocks /\ doc.kinds[c] \in {"data", "leaf"}
<1>1. PICK i \in DOMAIN doc.blocks[b] : /\ doc.blocks[b][i].kind = "field"
                                        /\ doc.blocks[b][i].sub # None
                                        /\ c = doc.blocks[b][i].sub
  BY DEF Below, Of, Selections
<1>2. /\ c \in Blocks
      /\ doc.kinds[c] \in KindsBelow(doc.kinds[b], doc.blocks[b][i].name)
  BY <1>1, SelectionIsValid
<1>3. QED
  BY <1>2 DEF KindsBelow

LEMMA RootBlocksAreRoot ==
  ASSUME ValidDocument(doc), NEW b \in RootBlocks
  PROVE  b \in Blocks /\ doc.kinds[b] = "root"
<1> DEFINE C == {c \in Blocks : doc.kinds[c] = "root"}
<1>1. Roots \subseteq C
  BY DEF ValidDocument, Roots, Blocks
<1>2. \A c \in C : Beside(c) \subseteq C
  BY BesideIsAlike
<1>3. C \in SUBSET Blocks
  OBVIOUS
<1>4. QED
  BY <1>1, <1>2, <1>3 DEF RootBlocks

LEMMA RootBlocksAreClosed ==
  ASSUME ValidDocument(doc)
  PROVE  /\ Roots \subseteq RootBlocks
         /\ \A b \in RootBlocks : Beside(b) \subseteq RootBlocks
<1>1. Roots \subseteq Blocks
  BY DEF ValidDocument, Roots, Blocks
<1>2. \A b \in RootBlocks : Beside(b) \subseteq Blocks
  BY BesideIsAlike DEF RootBlocks
<1>3. QED
  BY <1>1, <1>2 DEF RootBlocks

-----------------------------------------------------------------------------
(***************************************************************************)
(* The walk keeps found, visited and the frames in shape.  A frame at the  *)
(* root is one of a block that the operations reach; a frame of "data" is  *)
(* counted for a root field that does not narrow model versions itself.    *)
(***************************************************************************)
Frames(blocks, nexts) ==
   [block : blocks, next : nexts, root : BOOLEAN,
    field : STRING \cup {None}]

Occurrences == [name : STRING, input : Inputs]

WellPlaced(fr) ==
   /\ fr.root <=> doc.kinds[fr.block] = "root"
   /\ fr.root => fr.block \in RootBlocks
   /\ fr.field \in found.roots \cup {None}
   /\ doc.kinds[fr.block] = "data" => fr.field # None /\ ~ScopesItself(fr.field)

Phases ==
   {"startup", "serving", "walk", "decide", "resolve", "done", "failed"}

WalkTypeInv ==
   /\ phase \in Phases
   /\ ValidDocument(doc)
   /\ op \in 0..Len(doc.operations)
   /\ frame \in Frames(Blocks \cup {None}, Nat \ {0})
   /\ stack \in Seq(Frames(Blocks, {1}))
   /\ found \in [roots : SUBSET STRING, nested : BOOLEAN,
                 nestedRoots : SUBSET STRING,
                 inputs : Seq(Occurrences)]

FoundInv ==
   /\ found.roots = {found.inputs[i].name : i \in DOMAIN found.inputs}
   /\ found.nestedRoots \subseteq found.roots
   /\ \A i \in DOMAIN found.inputs :
         \E s \in RootFields : /\ s.name = found.inputs[i].name
                               /\ s.input = found.inputs[i].input

FramesInv ==
   /\ frame.block # None => WellPlaced(frame)
   /\ \A i \in DOMAIN stack : WellPlaced(stack[i])

(***************************************************************************)
(* What the walk has covered: a selection is done when found has it and    *)
(* what it leads to is among the blocks that were walked or wait.  The     *)
(* blocks that were walked need not be remembered by the program: some set *)
(* of them fits.                                                           *)
(***************************************************************************)
Done(s, block, reached) ==
   /\ s.kind = "field" =>
         /\ doc.kinds[block] = "root" =>
               \E i \in DOMAIN found.inputs : /\ found.inputs[i].name = s.name
                                              /\ found.inputs[i].input = s.input
         /\ s.name \in NestedRegistryFields =>
               /\ found.nested
               /\ doc.kinds[block] = "data" =>
                     \E f \in found.nestedRoots : ~ScopesItself(f)
         /\ s.sub # None => s.sub \in reached
   /\ s.kind = "inline" => s.sub \in reached
   /\ s.kind = "spread" /\ s.name \in DOMAIN doc.fragments =>
         doc.fragments[s.name] \in reached

Waiting ==
   {stack[i].block : i \in DOMAIN stack} \cup ({frame.block} \ {None})

Covered(walked, reached) ==
   /\ \A b \in walked : \A i \in DOMAIN doc.blocks[b] :
         Done(doc.blocks[b][i], b, reached)
   /\ frame.block # None =>
         \A i \in DOMAIN doc.blocks[frame.block] :
            i < frame.next =>
               Done(doc.blocks[frame.block][i], frame.block, reached)
   /\ \A f \in visited :
         f \in DOMAIN doc.fragments => doc.fragments[f] \in reached
   /\ \A i \in 1..op : doc.operations[i] \in reached

CoverInv ==
   \E walked \in SUBSET Blocks : Covered(walked, walked \cup Waiting)

WalkInv ==
   /\ WalkTypeInv
   /\ FoundInv
   /\ FramesInv
   /\ CoverInv
   /\ phase \in {"startup", "serving"} =>
         /\ op = 0 /\ frame = NoFrame /\ stack = <<>> /\ visited = {}
         /\ found = EmptyInfo
   /\ Walked => ~InBlock /\ stack = <<>> /\ op = Len(doc.operations)

(* What merging the root fields has to come to: for each key what all the  *)
(* fields of the key ask for.                                              *)
FieldsOf(fields, key) == {f \in fields : KeyOf(f) = key}

KeyEntry(info, fields, key) ==
   [parsers |-> UNION {FieldTable[f].parsers : f \in FieldsOf(fields, key)},
    filterable |-> \A f \in FieldsOf(fields, key) : Filterable(info, f)]

MergeOf(info, fields) ==
   [key \in RegistryKeys(info) \cup {KeyOf(f) : f \in fields} |->
      KeyEntry(info, fields, key)]

(* The rule of a key as the merge leaves it. *)
KeyRule(info, key) ==
   [verb |-> key.verb, resource |-> key.resource,
    parsers |-> KeyEntry(info, info.roots, key).parsers,
    policy |-> PolicyOf(key, KeyEntry(info, info.roots, key).filterable)]

RulesOf(info) ==
   [key \in RegistryKeys(info) \cup {KeyOf(f) : f \in info.roots} |->
      KeyRule(info, key)]

(***************************************************************************)
(* After the walk: the rules are those that follow from what was found,    *)
(* and what went unread was left to a resolver that narrows it.            *)
(***************************************************************************)
Narrowed(i) ==
   LET key == KeyOf(found.inputs[i].name)
   IN needed[key].parsers = {} /\ key \notin broad => results[i] # "full"

(* No rule is left open: its collection, its objects or its resolver.      *)
Settled ==
   \A key \in DOMAIN needed \ broad :
      needed[key].policy = GraphqlFilter \/ NamedMayBeRead(needed[key], readable)

DecisionInv ==
   /\ phase \notin {"startup", "failed"} => FieldTableIsValid(schema)
   /\ Walked => /\ found.roots \subseteq DOMAIN FieldTable
                /\ needed = RulesOf(found)
                /\ DOMAIN needed # {}
   /\ ~Walked /\ phase # "failed" => needed = NoRules /\ broad = {}
   /\ broad \subseteq DOMAIN needed
   /\ phase \notin {"failed", "resolve", "done"} => readable = {}
   /\ readable \subseteq DOMAIN found.inputs
   /\ phase \in {"resolve", "done"} => Settled
   /\ results \in Seq({"full", "narrowed", "null"})
   /\ phase \notin {"resolve", "done"} => results = <<>>
   /\ phase = "resolve" => Len(results) < Len(found.inputs)
   /\ Len(results) <= Len(found.inputs)
   /\ \A i \in DOMAIN results : Narrowed(i)

FoundGrows ==
   /\ found.nested => found'.nested
   /\ found.roots \subseteq found'.roots
   /\ found.nestedRoots \subseteq found'.nestedRoots
   /\ \A i \in DOMAIN found.inputs :
         \E j \in DOMAIN found'.inputs : found'.inputs[j] = found.inputs[i]

(* What is reached depends on the document alone. *)
LEMMA SameDocument ==
  ASSUME UNCHANGED doc
  PROVE  /\ Blocks' = Blocks
         /\ RootBlocks' = RootBlocks
         /\ RootFields' = RootFields
         /\ ValidDocument(doc) => ValidDocument(doc)'
<1>1. Blocks' = Blocks /\ Roots' = Roots
  BY DEF Blocks, Roots
<1>2. \A b : Selections(b)' = Selections(b)
  BY DEF Selections
<1>3. \A k, b : Of(k, b)' = Of(k, b)
  BY <1>2 DEF Of
<1>4. \A b : Beside(b)' = Beside(b)
  BY <1>3 DEF Beside
<1>5. RootBlocks' = RootBlocks
  BY <1>1, <1>4 DEF RootBlocks
<1>6. QED
  BY <1>1, <1>3, <1>5 DEF RootFields

LEMMA StaysWellPlaced ==
  ASSUME NEW fr, WellPlaced(fr), UNCHANGED doc,
         found.roots \subseteq found'.roots
  PROVE  WellPlaced(fr)'
BY SameDocument DEF WellPlaced

LEMMA StaysDone ==
  ASSUME NEW s, NEW b, NEW R, NEW R1, Done(s, b, R), R \subseteq R1,
         UNCHANGED doc, FoundGrows
  PROVE  Done(s, b, R1)'
<1>1. ASSUME s.kind = "field" , doc.kinds[b] = "root"
      PROVE  \E i \in DOMAIN found'.inputs : /\ found'.inputs[i].name = s.name
                                             /\ found'.inputs[i].input = s.input
  <2>1. PICK i \in DOMAIN found.inputs : /\ found.inputs[i].name = s.name
                                         /\ found.inputs[i].input = s.input
    BY <1>1 DEF Done
  <2>2. QED
    BY <2>1 DEF FoundGrows
<1>2. QED
  BY <1>1 DEF Done, FoundGrows

LEMMA WaitingGrows ==
  ASSUME WalkTypeInv, frame'.block = frame.block
  PROVE  /\ stack' = stack => Waiting' = Waiting
         /\ \A fr \in Frames(Blocks, {1}) :
               stack' = Append(stack, fr) => Waiting' = Waiting \cup {fr.block}
<1>1. stack \in Seq(Frames(Blocks, {1}))
  BY DEF WalkTypeInv
<1>2. ASSUME NEW fr \in Frames(Blocks, {1}), stack' = Append(stack, fr)
      PROVE  {stack'[i].block : i \in DOMAIN stack'}
                = {stack[i].block : i \in DOMAIN stack} \cup {fr.block}
  <2>1. DOMAIN stack' = 1..Len(stack) + 1 /\ DOMAIN stack = 1..Len(stack)
        /\ Len(stack) \in Nat
    BY <1>1, <1>2
  <2>2. stack'[Len(stack) + 1] = fr
    BY <1>1, <1>2
  <2>3. \A i \in DOMAIN stack : stack'[i] = stack[i]
    BY <1>1, <1>2
  <2>4. QED
    BY <2>1, <2>2, <2>3
<1>3. QED
  BY <1>2 DEF Waiting

(* One selection further, if what it needs is done. *)
LEMMA SelectionCovered ==
  ASSUME WalkTypeInv, InBlock, UNCHANGED <<doc, op>>, FoundGrows,
         frame'.block = frame.block, frame'.next = frame.next + 1,
         NEW W \in SUBSET Blocks, NEW R, NEW R1, Covered(W, R), R \subseteq R1,
         NEW s, s = Current, NEW b, b = frame.block, Done(s, b, R1)',
         \A f \in visited' :
            f \in DOMAIN doc.fragments => doc.fragments[f] \in R1
  PROVE  Covered(W, R1)'
<1>1. ASSUME NEW c \in W, NEW i \in DOMAIN doc.blocks[c]
      PROVE  Done(doc.blocks[c][i], c, R1)'
  <2>1. PICK x : x = doc.blocks[c][i]
    OBVIOUS
  <2>2. Done(x, c, R)
    BY <2>1, <1>1 DEF Covered
  <2>3. Done(x, c, R1)'
    BY <2>2, StaysDone
  <2>4. QED
    BY <2>1, <2>3 DEF Done
<1>2. ASSUME NEW i \in DOMAIN doc.blocks[b], i < frame.next + 1
      PROVE  Done(doc.blocks[b][i], b, R1)'
  <2>1. b # None /\ doc.blocks[b] \in Seq(Selection) /\ frame.next \in Nat
    BY DEF WalkTypeInv, InBlock, ValidDocument, Blocks, Frames
  <2>2. i \in Nat
    BY <2>1
  <2>3. PICK x : x = doc.blocks[b][i]
    OBVIOUS
  <2>4. CASE i = frame.next
    <3>1. x = s
      BY <2>3, <2>4 DEF Current
    <3>2. QED
      BY <3>1, <2>3 DEF Done
  <2>5. CASE i < frame.next
    <3>1. Done(x, b, R)
      BY <2>1, <2>3, <2>5 DEF Covered
    <3>2. Done(x, b, R1)'
      BY <3>1, StaysDone
    <3>3. QED
      BY <2>3, <3>2 DEF Done
  <2>6. QED
    BY <1>2, <2>1, <2>2, <2>4, <2>5
<1>3. \A i \in 1..op : doc.operations[i] \in R1
  BY DEF Covered
<1>4. QED
  BY <1>1, <1>2, <1>3 DEF Covered

(* The selection that is looked at. *)
LEMMA CurrentIsValid ==
  ASSUME WalkTypeInv, FramesInv, InBlock
  PROVE  /\ frame.block \in Blocks
         /\ frame.next \in DOMAIN doc.blocks[frame.block]
         /\ Current = doc.blocks[frame.block][frame.next]
         /\ Current \in Selections(frame.block)
         /\ Current \in Selection
         /\ WellPlaced(frame)
         /\ frame \in Frames(Blocks, Nat \ {0})
<1>1. frame.block \in Blocks /\ frame.next \in DOMAIN doc.blocks[frame.block]
  BY DEF WalkTypeInv, InBlock, Frames
<1>2. Current = doc.blocks[frame.block][frame.next] /\ WellPlaced(frame)
  BY DEF Current, FramesInv, InBlock
<1>3. frame \in Frames(Blocks, Nat \ {0})
  BY <1>1 DEF WalkTypeInv, Frames
<1>4. QED
  BY <1>1, <1>2, <1>3, SelectionIsValid DEF Selections, WalkTypeInv

(* A block pushed beside the current one, and one pushed below it. *)
LEMMA BesideIsWellPlaced ==
  ASSUME WalkTypeInv, FramesInv, InBlock, NEW c \in Beside(frame.block)
  PROVE  /\ Frame(c, frame.root, frame.field) \in Frames(Blocks, {1})
         /\ WellPlaced(Frame(c, frame.root, frame.field))
<1> DEFINE fr == Frame(c, frame.root, frame.field)
<1>1. c \in Blocks /\ doc.kinds[c] = doc.kinds[frame.block]
  BY CurrentIsValid, BesideIsAlike DEF WalkTypeInv
<1>2. /\ fr.block = c /\ fr.root = frame.root /\ fr.field = frame.field
      /\ fr \in Frames(Blocks, {1})
  BY <1>1 DEF Frame, WalkTypeInv, Frames
<1>3. WellPlaced(frame)
  BY CurrentIsValid
<1>4. frame.root => c \in RootBlocks
  BY <1>3, RootBlocksAreClosed DEF WellPlaced, WalkTypeInv
<1>5. WellPlaced(fr)
  BY <1>1, <1>2, <1>3, <1>4 DEF WellPlaced
<1>6. QED
  BY <1>2, <1>5

(* Frames that were there stay well placed, and the one pushed is. *)
LEMMA FramesStay ==
  ASSUME WalkTypeInv, FramesInv, UNCHANGED doc, FoundGrows,
         \/ stack' = stack
         \/ \E fr \in Frames(Blocks, {1}) :
               stack' = Append(stack, fr) /\ WellPlaced(fr)',
         frame'.block # None => WellPlaced(frame)'
  PROVE  FramesInv'
<1>1. \A i \in DOMAIN stack : WellPlaced(stack[i])
  BY DEF FramesInv
<1>2. stack \in Seq(Frames(Blocks, {1}))
  BY DEF WalkTypeInv
<1>3. ASSUME NEW i \in DOMAIN stack, NEW fr, fr = stack[i]
      PROVE  WellPlaced(fr)'
  BY <1>1, <1>3, StaysWellPlaced DEF FoundGrows
<1>4. CASE stack' = stack
  BY <1>3, <1>4 DEF FramesInv, WellPlaced
<1>5. ASSUME NEW fr \in Frames(Blocks, {1}), stack' = Append(stack, fr),
             WellPlaced(fr)'
      PROVE  FramesInv'
  <2>1. ASSUME NEW i \in DOMAIN stack' PROVE WellPlaced(stack[i])'
    <3>1. CASE i = Len(stack) + 1
      <4>1. stack'[i] = fr
        BY <1>2, <1>5, <3>1
      <4>2. QED
        BY <1>5, <4>1 DEF WellPlaced
    <3>2. CASE i \in DOMAIN stack
      <4>1. stack'[i] = stack[i]
        BY <1>2, <1>5, <3>2
      <4>2. QED
        BY <1>3, <3>2, <4>1 DEF WellPlaced
    <3>3. i = Len(stack) + 1 \/ i \in DOMAIN stack
      BY <1>2, <1>5, <2>1
    <3>4. QED
      BY <3>1, <3>2, <3>3
  <2>2. QED
    BY <2>1 DEF FramesInv
<1>6. QED
  BY <1>4, <1>5

LEMMA FoundInvStays ==
  ASSUME FoundInv, UNCHANGED <<doc, found>>
  PROVE  FoundInv'
BY SameDocument DEF FoundInv

LEMMA PushTypes ==
  ASSUME WalkTypeInv, UNCHANGED <<doc, op, found, phase>>,
         frame' \in Frames(Blocks \cup {None}, Nat \ {0}),
         \/ stack' = stack
         \/ \E fr \in Frames(Blocks, {1}) : stack' = Append(stack, fr)
  PROVE  WalkTypeInv'
<1>1. stack' \in Seq(Frames(Blocks, {1}))
  BY DEF WalkTypeInv
<1>2. Blocks' = Blocks /\ ValidDocument(doc)'
  BY SameDocument DEF WalkTypeInv
<1>3. QED
  BY <1>1, <1>2 DEF WalkTypeInv, Frames

(* An inline fragment, or a spread, whose block is pushed. *)
LEMMA PushKeepsWalkInv ==
  ASSUME WalkInv, phase = "walk", InBlock,
         UNCHANGED <<phase, doc, op, found>>, Skip,
         NEW c \in Beside(frame.block), Push(c),
         Current.kind = "inline" => c = Current.sub,
         Current.kind = "spread" /\ Current.name \in DOMAIN doc.fragments =>
            c = doc.fragments[Current.name],
         Current.kind # "field",
         \A f \in visited' : f \in DOMAIN doc.fragments =>
            f \in visited \/ doc.fragments[f] = c
  PROVE  WalkInv'
<1>0. PICK fr : fr = Frame(c, frame.root, frame.field)
  OBVIOUS
<1>1. WalkTypeInv /\ FoundInv /\ FramesInv /\ CoverInv
  BY DEF WalkInv
<1>2. FoundGrows
  BY <1>1 DEF FoundGrows
<1>3. /\ fr \in Frames(Blocks, {1}) /\ WellPlaced(fr)
      /\ stack' = Append(stack, fr) /\ fr.block = c
  BY <1>0, <1>1, BesideIsWellPlaced DEF Push, Frame
<1>4. /\ frame \in Frames(Blocks, Nat \ {0}) /\ WellPlaced(frame)
      /\ frame' \in Frames(Blocks, Nat \ {0})
      /\ frame'.block = frame.block /\ frame'.next = frame.next + 1
      /\ frame'.root = frame.root /\ frame'.field = frame.field
  BY <1>1, CurrentIsValid DEF Skip, Frames
<1>5. WalkTypeInv'
  BY <1>1, <1>3, <1>4, PushTypes DEF Frames
<1>6. FoundInv'
  BY <1>1, FoundInvStays
<1>7. FramesInv'
  <2>1. WellPlaced(fr)'
    BY <1>2, <1>3, StaysWellPlaced DEF FoundGrows
  <2>2. WellPlaced(frame)'
    BY <1>4, SameDocument DEF WellPlaced
  <2>3. QED
    BY <1>1, <1>2, <1>3, <2>1, <2>2, FramesStay
<1>8. CoverInv'
  <2>1. PICK W \in SUBSET Blocks : Covered(W, W \cup Waiting)
    BY <1>1 DEF CoverInv
  <2>2. PICK R : R = W \cup Waiting
    OBVIOUS
  <2>3. PICK R1 : R1 = R \cup {c}
    OBVIOUS
  <2>4. PICK s : s = Current
    OBVIOUS
  <2>5. PICK b : b = frame.block
    OBVIOUS
  <2>6. Done(s, b, R1)'
    BY <2>3, <2>4 DEF Done
  <2>7. \A f \in visited' :
           f \in DOMAIN doc.fragments => doc.fragments[f] \in R1
    BY <2>1, <2>2, <2>3 DEF Covered
  <2>8. Covered(W, R)
    BY <2>1, <2>2 DEF Covered
  <2>9. Covered(W, R1)'
    BY <1>1, <1>2, <1>4, <2>3, <2>4, <2>5, <2>6, <2>7, <2>8, SelectionCovered
  <2>10. R1 = W \cup Waiting'
    BY <1>1, <1>3, <1>4, <2>2, <2>3, WaitingGrows
  <2>11. Blocks' = Blocks
    BY SameDocument
  <2>12. QED
    BY <2>9, <2>10, <2>11 DEF CoverInv
<1>9. QED
  BY <1>5, <1>6, <1>7, <1>8 DEF WalkInv, Walked

LEMMA VisitInlineStep ==
  ASSUME WalkInv, phase = "walk", InBlock, VisitInline,
         UNCHANGED <<phase, doc, op>>
  PROVE  WalkInv'
<1>1. Current.sub \in Beside(frame.block)
  BY CurrentIsValid DEF WalkInv, VisitInline, Beside, Of
<1>2. QED
  BY <1>1, PushKeepsWalkInv DEF VisitInline

(* A selection after which nothing new waits. *)
LEMMA SkipKeepsWalkInv ==
  ASSUME WalkInv, phase = "walk", InBlock,
         UNCHANGED <<phase, doc, op, found, stack>>, Skip,
         Current.kind = "spread",
         Current.name \in visited \/ Current.name \notin DOMAIN doc.fragments,
         visited' = visited \cup {Current.name}
  PROVE  WalkInv'
<1>1. WalkTypeInv /\ FoundInv /\ FramesInv /\ CoverInv
  BY DEF WalkInv
<1>2. FoundGrows
  BY <1>1 DEF FoundGrows
<1>3. /\ frame \in Frames(Blocks, Nat \ {0}) /\ WellPlaced(frame)
      /\ frame' \in Frames(Blocks, Nat \ {0})
      /\ frame'.block = frame.block /\ frame'.next = frame.next + 1
      /\ frame'.root = frame.root /\ frame'.field = frame.field
  BY <1>1, CurrentIsValid DEF Skip, Frames
<1>4. WalkTypeInv'
  BY <1>1, <1>3, PushTypes DEF Frames
<1>5. FoundInv'
  BY <1>1, FoundInvStays
<1>6. FramesInv'
  <2>1. WellPlaced(frame)'
    BY <1>3, SameDocument DEF WellPlaced
  <2>2. QED
    BY <1>1, <1>2, <2>1, FramesStay
<1>7. CoverInv'
  <2>1. PICK W \in SUBSET Blocks : Covered(W, W \cup Waiting)
    BY <1>1 DEF CoverInv
  <2>2. PICK R : R = W \cup Waiting
    OBVIOUS
  <2>3. Covered(W, R)
    BY <2>1, <2>2 DEF Covered
  <2>4. PICK s : s = Current
    OBVIOUS
  <2>5. PICK b : b = frame.block
    OBVIOUS
  <2>6. Done(s, b, R)
    BY <2>3, <2>4 DEF Done, Covered
  <2>7. Done(s, b, R)'
    BY <1>2, <2>6, StaysDone
  <2>8. \A f \in visited' : f \in DOMAIN doc.fragments => doc.fragments[f] \in R
    BY <2>3 DEF Covered
  <2>9. Covered(W, R)'
    BY <1>1, <1>2, <1>3, <2>3, <2>4, <2>5, <2>7, <2>8, SelectionCovered
  <2>10. R = W \cup Waiting'
    BY <1>1, <1>3, <2>2, WaitingGrows
  <2>11. Blocks' = Blocks
    BY SameDocument
  <2>12. QED
    BY <2>9, <2>10, <2>11 DEF CoverInv
<1>8. QED
  BY <1>4, <1>5, <1>6, <1>7 DEF WalkInv, Walked

LEMMA VisitSpreadStep ==
  ASSUME WalkInv, phase = "walk", InBlock, VisitSpread,
         UNCHANGED <<phase, doc, op>>
  PROVE  WalkInv'
<1>1. CASE Current.name \in visited \/ Current.name \notin DOMAIN doc.fragments
  BY <1>1, SkipKeepsWalkInv DEF VisitSpread
<1>2. CASE Current.name \notin visited /\ Current.name \in DOMAIN doc.fragments
  <2>1. doc.fragments[Current.name] \in Beside(frame.block)
    BY <1>2, CurrentIsValid DEF WalkInv, VisitSpread, Beside, Of
  <2>2. QED
    BY <1>2, <2>1, PushKeepsWalkInv DEF VisitSpread
<1>3. QED
  BY <1>1, <1>2

(* What a field adds to what was found. *)
LEMMA FieldIsFound ==
  ASSUME WalkTypeInv, FoundInv, FramesInv, InBlock, VisitField, UNCHANGED doc
  PROVE  /\ FoundGrows
         /\ FoundInv'
         /\ found' \in [roots : SUBSET STRING, nested : BOOLEAN,
                        nestedRoots : SUBSET STRING,
                        inputs : Seq(Occurrences)]
         /\ frame.root => /\ Current.name \in found'.roots
                          /\ \E i \in DOMAIN found'.inputs :
                               /\ found'.inputs[i].name = Current.name
                               /\ found'.inputs[i].input = Current.input
         /\ Current.name \in NestedRegistryFields =>
               /\ found'.nested
               /\ frame'.field # None => frame'.field \in found'.nestedRoots
<1> DEFINE s == Current
           field == IF frame.root THEN s.name ELSE frame.field
           entry == [name |-> s.name, input |-> s.input]
<1>1. /\ s \in Selection /\ s \in Selections(frame.block) /\ s.kind = "field"
      /\ WellPlaced(frame) /\ frame \in Frames(Blocks, Nat \ {0})
  BY CurrentIsValid DEF VisitField
<1>2. /\ s.name \in STRING /\ s.input \in Inputs /\ field \in STRING \cup {None}
      /\ entry \in Occurrences
      /\ entry.name = s.name /\ entry.input = s.input
  BY <1>1 DEF Selection, Frames, Occurrences
<1>3. frame'.field = field
  BY <1>1 DEF VisitField, Frames
<1>4. found.inputs \in Seq(Occurrences)
  BY DEF WalkTypeInv
<1>5. /\ frame.root =>
            /\ found'.roots = found.roots \cup {s.name}
            /\ found'.inputs = Append(found.inputs, entry)
      /\ ~frame.root =>
            found'.roots = found.roots /\ found'.inputs = found.inputs
      /\ found'.nested = (found.nested \/ s.name \in NestedRegistryFields)
      /\ found'.nestedRoots = IF s.name \in NestedRegistryFields /\ field # None
                                 THEN found.nestedRoots \cup {field}
                                 ELSE found.nestedRoots
  BY DEF VisitField
<1>6. frame.root => /\ DOMAIN found'.inputs = 1..Len(found.inputs) + 1
                    /\ DOMAIN found.inputs = 1..Len(found.inputs)
                    /\ Len(found.inputs) \in Nat
                    /\ found'.inputs[Len(found.inputs) + 1] = entry
                    /\ \A i \in DOMAIN found.inputs :
                          found'.inputs[i] = found.inputs[i]
  BY <1>2, <1>4, <1>5
<1>7. FoundGrows
  <2>1. \A i \in DOMAIN found.inputs :
           \E j \in DOMAIN found'.inputs : found'.inputs[j] = found.inputs[i]
    BY <1>5, <1>6
  <2>2. QED
    BY <1>5, <2>1 DEF FoundGrows
<1>8. /\ field = None \/ field \in found'.roots
      /\ found'.nestedRoots \subseteq found'.roots
  BY <1>1, <1>5 DEF WellPlaced, FoundInv
<1>9. found'.roots = {found'.inputs[i].name : i \in DOMAIN found'.inputs}
  <2>1. CASE frame.root
    BY <1>2, <1>5, <1>6, <2>1 DEF FoundInv
  <2>2. CASE ~frame.root
    BY <1>5, <2>2 DEF FoundInv
  <2>3. QED
    BY <2>1, <2>2
<1>10. frame.root => s \in RootFields
  BY <1>1 DEF WellPlaced, RootFields, Of
<1>11. \A i \in DOMAIN found'.inputs :
          \E x \in RootFields : /\ x.name = found'.inputs[i].name
                                /\ x.input = found'.inputs[i].input
  <2>1. CASE frame.root
    BY <1>2, <1>6, <1>10, <2>1 DEF FoundInv
  <2>2. CASE ~frame.root
    BY <1>5, <2>2 DEF FoundInv
  <2>3. QED
    BY <2>1, <2>2
<1>12. FoundInv'
  BY <1>8, <1>9, <1>11, SameDocument DEF FoundInv
<1>13. found' \in [roots : SUBSET STRING, nested : BOOLEAN,
                   nestedRoots : SUBSET STRING,
                   inputs : Seq(Occurrences)]
  <2>1. found'.roots \in SUBSET STRING /\ found'.nestedRoots \in SUBSET STRING
    BY <1>2, <1>5 DEF WalkTypeInv
  <2>2. found'.inputs \in Seq(Occurrences)
    BY <1>2, <1>4, <1>5
  <2>3. found'.nested \in BOOLEAN
    BY <1>5
  <2>4. QED
    BY <2>1, <2>2, <2>3 DEF VisitField
<1>14. QED
  BY <1>2, <1>3, <1>5, <1>6, <1>7, <1>12, <1>13

LEMMA VisitFieldStep ==
  ASSUME WalkInv, phase = "walk", InBlock, VisitField,
         UNCHANGED <<phase, doc, op>>
  PROVE  WalkInv'
<1>1. WalkTypeInv /\ FoundInv /\ FramesInv /\ CoverInv
  BY DEF WalkInv
<1>2. PICK s : s = Current
  OBVIOUS
<1>3. PICK b : b = frame.block
  OBVIOUS
<1>4. /\ b \in Blocks /\ s \in Selection /\ s \in Selections(b)
      /\ s.kind = "field" /\ WellPlaced(frame)
      /\ frame \in Frames(Blocks, Nat \ {0})
      /\ frame.next \in DOMAIN doc.blocks[b]
      /\ s = doc.blocks[b][frame.next]
  BY <1>1, <1>2, <1>3, CurrentIsValid DEF VisitField
<1>5. PICK field : field = IF frame.root THEN s.name ELSE frame.field
  OBVIOUS
<1>6. /\ frame' \in Frames(Blocks, Nat \ {0}) /\ frame'.field = field
      /\ frame'.block = b /\ frame'.next = frame.next + 1
      /\ frame'.root = frame.root
  <2>1. frame' = [frame EXCEPT !.next = @ + 1, !.field = field]
    BY <1>2, <1>5 DEF VisitField
  <2>2. field \in STRING \cup {None} /\ frame.next + 1 \in Nat \ {0}
    BY <1>4, <1>5 DEF Frames, Selection
  <2>3. QED
    BY <1>3, <1>4, <2>1, <2>2 DEF Frames
<1>7. /\ FoundGrows /\ FoundInv'
      /\ found' \in [roots : SUBSET STRING, nested : BOOLEAN,
                     nestedRoots : SUBSET STRING, inputs : Seq(Occurrences)]
      /\ frame.root => /\ s.name \in found'.roots
                       /\ \E i \in DOMAIN found'.inputs :
                            /\ found'.inputs[i].name = s.name
                            /\ found'.inputs[i].input = s.input
      /\ s.name \in NestedRegistryFields =>
            found'.nested /\ (field # None => field \in found'.nestedRoots)
  BY <1>1, <1>2, <1>6, FieldIsFound
<1>8. /\ s.name # None
      /\ s.sub # None =>
            /\ s.sub \in Blocks
            /\ doc.kinds[s.sub] \in KindsBelow(doc.kinds[b], s.name)
      /\ doc.kinds[b] \in {"root", "registry", "data", "leaf"}
  BY <1>1, <1>4, SelectionIsValid DEF WalkTypeInv
<1>9. /\ frame.root <=> doc.kinds[b] = "root"
      /\ field \in found'.roots \cup {None}
      /\ doc.kinds[b] = "data" => field # None /\ ~ScopesItself(field)
  BY <1>3, <1>4, <1>5, <1>7 DEF WellPlaced, FoundGrows
<1>10. PICK fr : fr = Frame(s.sub, FALSE, field)
  OBVIOUS
<1>11. /\ fr.block = s.sub /\ fr.root = FALSE /\ fr.field = field /\ fr.next = 1
       /\ stack' = IF s.sub = None THEN stack ELSE Append(stack, fr)
  BY <1>2, <1>5, <1>10 DEF Frame, VisitField
<1>12. ASSUME s.sub # None
       PROVE  fr \in Frames(Blocks, {1}) /\ WellPlaced(fr)'
  <2>1. fr \in Frames(Blocks, {1})
    BY <1>4, <1>5, <1>8, <1>10, <1>12 DEF Frame, Frames, Selection
  <2>2. doc.kinds[s.sub] # "root"
    BY <1>8, <1>12 DEF KindsBelow
  <2>3. doc.kinds[s.sub] = "data" => field # None /\ ~ScopesItself(field)
    BY <1>5, <1>8, <1>9, <1>12 DEF KindsBelow
  <2>4. QED
    BY <1>9, <1>11, <2>1, <2>2, <2>3 DEF WellPlaced
<1>13. WellPlaced(frame)'
  BY <1>3, <1>4, <1>6, <1>9, SameDocument DEF WellPlaced
<1>14. WalkTypeInv'
  <2>1. stack' \in Seq(Frames(Blocks, {1}))
    <3>1. stack \in Seq(Frames(Blocks, {1}))
      BY <1>1 DEF WalkTypeInv
    <3>2. QED
      BY <1>11, <1>12, <3>1
  <2>2. Blocks' = Blocks /\ ValidDocument(doc)'
    BY <1>1, SameDocument DEF WalkTypeInv
  <2>3. QED
    BY <1>1, <1>6, <1>7, <2>1, <2>2 DEF WalkTypeInv, Frames
<1>15. FramesInv'
  BY <1>1, <1>7, <1>11, <1>12, <1>13, FramesStay
<1>16. CoverInv'
  <2>1. PICK W \in SUBSET Blocks : Covered(W, W \cup Waiting)
    BY <1>1 DEF CoverInv
  <2>2. PICK R : R = W \cup Waiting
    OBVIOUS
  <2>3. PICK R1 : R1 = R \cup (IF s.sub = None THEN {} ELSE {s.sub})
    OBVIOUS
  <2>4. Covered(W, R)
    BY <2>1, <2>2 DEF Covered
  <2>5. Done(s, b, R1)'
    <3>1. doc.kinds[b] = "data" /\ s.name \in NestedRegistryFields =>
             \E f \in found'.nestedRoots : ~ScopesItself(f)
      BY <1>7, <1>9
    <3>2. QED
      BY <1>4, <1>7, <1>9, <2>3, <3>1 DEF Done
  <2>6. \A f \in visited' :
           f \in DOMAIN doc.fragments => doc.fragments[f] \in R1
    BY <2>3, <2>4 DEF Covered, VisitField
  <2>7. Covered(W, R1)'
    BY <1>1, <1>2, <1>3, <1>6, <1>7, <2>3, <2>4, <2>5, <2>6, SelectionCovered
  <2>8. R1 = W \cup Waiting'
    BY <1>1, <1>3, <1>6, <1>11, <1>12, <2>2, <2>3, WaitingGrows
  <2>9. Blocks' = Blocks
    BY SameDocument
  <2>10. QED
    BY <2>7, <2>8, <2>9 DEF CoverInv
<1>17. QED
  BY <1>7, <1>14, <1>15, <1>16 DEF WalkInv, Walked

(* A block is walked to its end, so all its selections are done. *)
LEMMA BlockIsWalked ==
  ASSUME WalkTypeInv, ~InBlock, NEW W, NEW R, Covered(W, R),
         frame.block # None
  PROVE  \A i \in DOMAIN doc.blocks[frame.block] :
            Done(doc.blocks[frame.block][i], frame.block, R)
<1>1. /\ doc.blocks[frame.block] \in Seq(Selection)
      /\ frame.next \in Nat \ {0}
  BY DEF WalkTypeInv, Frames, ValidDocument, Blocks
<1>2. \A i \in DOMAIN doc.blocks[frame.block] : i < frame.next
  BY <1>1 DEF InBlock
<1>3. QED
  BY <1>2 DEF Covered

(* The walk of a frame ends, and the next one begins. *)
LEMMA NextFrameCovers ==
  ASSUME WalkTypeInv, ~InBlock, UNCHANGED <<doc, found>>,
         frame'.next = 1, frame'.block \in Blocks,
         NEW W \in SUBSET Blocks, NEW R, Covered(W, R), NEW R1, R \subseteq R1,
         NEW W1, W1 = W \cup ({frame.block} \ {None}),
         \A f \in visited' : f \in visited,
         \A i \in 1..op' : doc.operations[i] \in R1
  PROVE  Covered(W1, R1)' /\ W1 \in SUBSET Blocks
<1>1. W1 \in SUBSET Blocks
  BY DEF WalkTypeInv, Frames
<1>2. FoundGrows
  BY DEF FoundGrows, WalkTypeInv
<1>3. ASSUME NEW b \in W1, NEW i \in DOMAIN doc.blocks[b]
      PROVE  Done(doc.blocks[b][i], b, R1)'
  <2>1. PICK x : x = doc.blocks[b][i]
    OBVIOUS
  <2>2. Done(x, b, R)
    BY <1>3, <2>1, BlockIsWalked DEF Covered
  <2>3. Done(x, b, R1)'
    BY <1>2, <2>2, StaysDone
  <2>4. QED
    BY <2>1, <2>3 DEF Done
<1>4. \A i \in DOMAIN doc.blocks[frame'.block] : ~(i < frame'.next)
  <2>1. doc.blocks[frame'.block] \in Seq(Selection)
    BY DEF WalkTypeInv, ValidDocument, Blocks
  <2>2. QED
    BY <2>1
<1>5. \A f \in visited' : f \in DOMAIN doc.fragments => doc.fragments[f] \in R1
  BY DEF Covered
<1>6. QED
  BY <1>1, <1>3, <1>4, <1>5 DEF Covered

LEMMA PopFrameStep ==
  ASSUME WalkInv, PopFrame
  PROVE  WalkInv'
<1>1. /\ WalkTypeInv /\ FoundInv /\ FramesInv /\ CoverInv
      /\ ~InBlock /\ stack \in Seq(Frames(Blocks, {1})) /\ stack # <<>>
      /\ phase = "walk"
  BY DEF WalkInv, PopFrame, WalkTypeInv
<1>2. /\ Len(stack) \in DOMAIN stack /\ DOMAIN stack = 1..Len(stack)
      /\ Len(stack) \in Nat /\ frame' = stack[Len(stack)]
  BY <1>1 DEF PopFrame
<1>3. /\ stack' \in Seq(Frames(Blocks, {1}))
      /\ DOMAIN stack' = 1..(Len(stack) - 1)
      /\ \A i \in DOMAIN stack' : stack'[i] = stack[i]
  <2>1. stack' = SubSeq(stack, 1, Len(stack) - 1)
    BY DEF PopFrame
  <2>2. QED
    BY <1>1, <1>2, <2>1
<1>4. UNCHANGED <<phase, doc, op, visited, found>>
  BY DEF PopFrame
<1>5. frame' \in Frames(Blocks, {1})
  BY <1>1, <1>2
<1>6. WalkTypeInv'
  <2>1. frame' \in Frames(Blocks \cup {None}, Nat \ {0})
    BY <1>5 DEF Frames
  <2>2. Blocks' = Blocks /\ ValidDocument(doc)'
    BY <1>1, <1>4, SameDocument DEF WalkTypeInv
  <2>3. QED
    BY <1>1, <1>3, <1>4, <2>1, <2>2 DEF WalkTypeInv, Frames
<1>7. FoundInv'
  BY <1>1, <1>4, FoundInvStays
<1>8. FramesInv'
  <2>1. \A i \in DOMAIN stack : WellPlaced(stack[i])
    BY <1>1 DEF FramesInv
  <2>2. ASSUME NEW i \in DOMAIN stack, NEW fr, fr = stack[i]
        PROVE  WellPlaced(fr)'
    BY <1>4, <2>1, <2>2, StaysWellPlaced
  <2>3. WellPlaced(frame)'
    BY <1>2, <2>2 DEF WellPlaced
  <2>4. \A i \in DOMAIN stack' : WellPlaced(stack[i])'
    BY <1>2, <1>3, <2>2 DEF WellPlaced
  <2>5. QED
    BY <2>3, <2>4 DEF FramesInv
<1>9. CoverInv'
  <2>1. PICK W \in SUBSET Blocks : Covered(W, W \cup Waiting)
    BY <1>1 DEF CoverInv
  <2>2. PICK R : R = W \cup Waiting
    OBVIOUS
  <2>3. PICK W1 : W1 = W \cup ({frame.block} \ {None})
    OBVIOUS
  <2>4. Covered(W, R)
    BY <2>1, <2>2 DEF Covered
  <2>5. frame'.next = 1 /\ frame'.block \in Blocks /\ frame'.block # None
    BY <1>1, <1>5 DEF Frames, WalkTypeInv, ValidDocument, Blocks
  <2>6. Covered(W1, R)' /\ W1 \in SUBSET Blocks
    <3>1. \A i \in 1..op' : doc.operations[i] \in R
      BY <1>4, <2>4 DEF Covered
    <3>2. QED
      BY <1>1, <1>4, <2>3, <2>4, <2>5, <3>1, NextFrameCovers
  <2>7. {stack[i].block : i \in DOMAIN stack}
           = {stack'[i].block : i \in DOMAIN stack'} \cup {frame'.block}
    BY <1>2, <1>3
  <2>8. R = W1 \cup Waiting'
    BY <2>2, <2>3, <2>5, <2>7 DEF Waiting
  <2>9. Blocks' = Blocks
    BY <1>4, SameDocument
  <2>10. QED
    BY <2>6, <2>8, <2>9 DEF CoverInv
<1>10. QED
  BY <1>1, <1>4, <1>6, <1>7, <1>8, <1>9 DEF WalkInv, Walked

LEMMA NextOperationStep ==
  ASSUME WalkInv, NextOperation
  PROVE  WalkInv'
<1>1. /\ WalkTypeInv /\ FoundInv /\ FramesInv /\ CoverInv
      /\ ~InBlock /\ stack = <<>> /\ phase = "walk"
  BY DEF WalkInv, NextOperation
<1>2. /\ UNCHANGED <<phase, doc, stack, found>> /\ visited' = {}
      /\ op' = op + 1 /\ op < Len(doc.operations)
  BY DEF NextOperation
<1>3. PICK b : b = doc.operations[op + 1]
  OBVIOUS
<1>4. doc.operations \in Seq(Blocks) /\ op \in Nat
  BY <1>1 DEF WalkTypeInv, ValidDocument, Blocks
<1>5. op + 1 \in DOMAIN doc.operations
  BY <1>2, <1>4
<1>6. /\ b \in Blocks /\ b # None /\ doc.kinds[b] = "root" /\ b \in RootBlocks
      /\ frame'.block = b /\ frame'.next = 1 /\ frame'.root = TRUE
      /\ frame'.field = None /\ frame' \in Frames(Blocks \cup {None}, Nat \ {0})
  <2>1. b \in Blocks /\ doc.kinds[b] = "root" /\ b # None
    BY <1>1, <1>3, <1>4, <1>5 DEF WalkTypeInv, ValidDocument, Blocks
  <2>2. b \in RootBlocks
    BY <1>1, <1>3, <1>5, RootBlocksAreClosed DEF WalkTypeInv, Roots
  <2>3. frame' = Frame(b, TRUE, None)
    BY <1>3 DEF NextOperation
  <2>4. QED
    BY <2>1, <2>2, <2>3 DEF Frame, Frames
<1>7. WalkTypeInv'
  <2>1. Blocks' = Blocks /\ ValidDocument(doc)'
    BY <1>1, <1>2, SameDocument DEF WalkTypeInv
  <2>2. op' \in 0..Len(doc.operations)
    BY <1>2, <1>4, <1>5
  <2>3. QED
    BY <1>1, <1>2, <1>6, <2>1, <2>2 DEF WalkTypeInv, Frames
<1>8. FoundInv'
  BY <1>1, <1>2, FoundInvStays
<1>9. FramesInv'
  <2>1. WellPlaced(frame)'
    BY <1>2, <1>6, SameDocument DEF WellPlaced
  <2>2. DOMAIN stack' = {}
    BY <1>1, <1>2
  <2>3. QED
    BY <2>1, <2>2 DEF FramesInv
<1>10. CoverInv'
  <2>1. PICK W \in SUBSET Blocks : Covered(W, W \cup Waiting)
    BY <1>1 DEF CoverInv
  <2>2. PICK R : R = W \cup Waiting
    OBVIOUS
  <2>3. PICK W1 : W1 = W \cup ({frame.block} \ {None})
    OBVIOUS
  <2>4. PICK R1 : R1 = R \cup {b}
    OBVIOUS
  <2>5. Covered(W, R)
    BY <2>1, <2>2 DEF Covered
  <2>6. \A i \in 1..op' : doc.operations[i] \in R1
    BY <1>2, <1>3, <1>4, <2>4, <2>5 DEF Covered
  <2>7. Covered(W1, R1)' /\ W1 \in SUBSET Blocks
    <3>1. R \subseteq R1 /\ (\A f \in visited' : f \in visited)
      BY <1>2, <2>4
    <3>2. frame'.next = 1 /\ frame'.block \in Blocks /\ UNCHANGED <<doc, found>>
      BY <1>2, <1>6
    <3>3. WalkTypeInv /\ ~InBlock
      BY <1>1
    <3>4. QED
      BY <2>3, <2>5, <2>6, <3>1, <3>2, <3>3, NextFrameCovers
  <2>8. DOMAIN stack = {} /\ DOMAIN stack' = {}
    BY <1>1, <1>2
  <2>9. R1 = W1 \cup Waiting'
    BY <1>6, <2>2, <2>3, <2>4, <2>8 DEF Waiting
  <2>10. Blocks' = Blocks
    BY <1>2, SameDocument
  <2>11. QED
    BY <2>7, <2>9, <2>10 DEF CoverInv
<1>11. QED
  BY <1>1, <1>2, <1>7, <1>8, <1>9, <1>10 DEF WalkInv, Walked

(* Before the walk nothing is covered and nothing waits. *)
Fresh ==
   /\ ValidDocument(doc) /\ phase \in {"startup", "serving", "walk"}
   /\ op = 0 /\ frame = NoFrame /\ stack = <<>> /\ visited = {}
   /\ found = EmptyInfo

LEMMA NothingWalked == Fresh => WalkInv
<1> SUFFICES ASSUME Fresh PROVE WalkInv
  OBVIOUS
<1> USE DEF Fresh
<1>1. /\ frame.block = None /\ frame.field = None /\ frame.next = 1
      /\ frame \in Frames(Blocks \cup {None}, Nat \ {0})
  BY DEF NoFrame, Frame, Frames
<1>2. DOMAIN stack = {} /\ stack \in Seq(Frames(Blocks, {1}))
  OBVIOUS
<1>3. doc.operations \in Seq(Blocks)
  BY DEF ValidDocument, Blocks
<1>4. /\ found \in [roots : SUBSET STRING, nested : BOOLEAN,
                    nestedRoots : SUBSET STRING, inputs : Seq(Occurrences)]
      /\ DOMAIN found.inputs = {} /\ found.roots = {} /\ found.nestedRoots = {}
  BY DEF EmptyInfo
<1>5. WalkTypeInv
  BY <1>1, <1>2, <1>3, <1>4 DEF WalkTypeInv, Phases
<1>6. FoundInv
  BY <1>4 DEF FoundInv
<1>7. FramesInv
  BY <1>1, <1>2 DEF FramesInv
<1>8. Waiting = {} /\ Covered({}, {})
  BY <1>1, <1>2 DEF Waiting, Covered
<1>9. CoverInv
  BY <1>8 DEF CoverInv
<1>10. QED
  BY <1>5, <1>6, <1>7, <1>9 DEF WalkInv, Walked

LEMMA ReceiveStep ==
  ASSUME WalkInv, NEW document \in Documents, Receive(document)
  PROVE  WalkInv'
<1>1. /\ ValidDocument(document) /\ doc' = document /\ phase' = "walk"
      /\ op = 0 /\ frame = NoFrame /\ stack = <<>> /\ visited = {}
      /\ found = EmptyInfo
      /\ UNCHANGED <<op, frame, stack, visited, found>>
  BY DocumentsAssumption DEF WalkInv, Receive
<1>2. ValidDocument(doc)'
  BY <1>1
<1>3. Fresh'
  BY <1>1, <1>2 DEF Fresh
<1>4. QED
  BY <1>3, NothingWalked, PTL

(* Steps outside the walk, the one at its end included. *)
LEMMA WalkInvStays ==
  ASSUME WalkInv, UNCHANGED <<doc, op, frame, stack, visited, found>>,
         phase' \in Phases,
         phase' \in {"startup", "serving"} => phase \in {"startup", "serving"},
         Walked' => \/ Walked
                    \/ ~InBlock /\ stack = <<>> /\ op = Len(doc.operations)
  PROVE  WalkInv'
<1>1. Blocks' = Blocks /\ ValidDocument(doc)'
  BY SameDocument DEF WalkInv, WalkTypeInv
<1>2. WalkTypeInv'
  BY <1>1 DEF WalkInv, WalkTypeInv, Frames
<1>3. FoundInv'
  BY FoundInvStays DEF WalkInv
<1>4. FramesInv'
  BY SameDocument DEF WalkInv, FramesInv, WellPlaced
<1>5. CoverInv'
  <2>1. Waiting' = Waiting
    BY DEF Waiting
  <2>2. \A s, b, R : Done(s, b, R) => Done(s, b, R)'
    BY DEF Done
  <2>3. \A W, R : Covered(W, R) => Covered(W, R)'
    BY <2>2 DEF Covered
  <2>4. PICK W \in SUBSET Blocks : Covered(W, W \cup Waiting)
    BY DEF WalkInv, CoverInv
  <2>5. PICK R : R = W \cup Waiting
    OBVIOUS
  <2>6. Covered(W, R)'
    BY <2>3, <2>4, <2>5
  <2>7. QED
    BY <1>1, <2>1, <2>5, <2>6 DEF CoverInv
<1>6. Walked' => ~InBlock' /\ stack' = <<>> /\ op' = Len(doc'.operations)
  BY DEF WalkInv, InBlock
<1>7. QED
  BY <1>2, <1>3, <1>4, <1>5, <1>6 DEF WalkInv

LEMMA WalkInvStep == WalkInv /\ [Next]_vars => WalkInv'
<1> SUFFICES ASSUME WalkInv, [Next]_vars PROVE WalkInv'
  OBVIOUS
<1>0. phase \in Phases
  BY DEF WalkInv, WalkTypeInv
<1>1. CASE ValidateFields
  BY <1>0, <1>1, WalkInvStays DEF ValidateFields, Phases, Walked
<1>2. ASSUME NEW document \in Documents, Receive(document) PROVE WalkInv'
  BY <1>2, ReceiveStep
<1>3. CASE VisitSelection
  BY <1>3, VisitFieldStep, VisitInlineStep, VisitSpreadStep DEF VisitSelection
<1>4. CASE PopFrame
  BY <1>4, PopFrameStep
<1>5. CASE NextOperation
  BY <1>5, NextOperationStep
<1>6. CASE Determine
  BY <1>0, <1>6, WalkInvStays DEF Determine, Phases
<1>7. CASE Authorize
  BY <1>0, <1>7, WalkInvStays DEF Authorize, Phases, Walked
<1>8. CASE ResolveField
  BY <1>0, <1>8, WalkInvStays DEF ResolveField, Phases, Walked
<1>9. CASE UNCHANGED vars
  BY <1>0, <1>9, WalkInvStays DEF vars, Walked
<1>10. QED
  BY <1>1, <1>2, <1>3, <1>4, <1>5, <1>6, <1>7, <1>8, <1>9 DEF Next, Walk

LEMMA WalkInvHolds == Spec => []WalkInv
<1>1. Init => WalkInv
  BY NoQueryIsValid, NothingWalked DEF Init, Fresh
<1>2. QED
  BY <1>1, WalkInvStep, PTL DEF Spec

(* The walk is over, so some set of blocks holds the operations and all    *)
(* that follows from its members, and was walked.                          *)
LEMMA EverythingIsWalked ==
  ASSUME WalkInv, Walked
  PROVE  \E Q \in SUBSET Blocks :
            /\ Roots \subseteq Q
            /\ \A b \in Q : /\ Beside(b) \cup Below(b) \subseteq Q
                            /\ \A i \in DOMAIN doc.blocks[b] :
                                  Done(doc.blocks[b][i], b, Q)
<1>1. /\ WalkTypeInv /\ ~InBlock /\ stack = <<>> /\ op = Len(doc.operations)
      /\ doc.operations \in Seq(Blocks)
  BY DEF WalkInv, WalkTypeInv, ValidDocument, Blocks
<1>2. PICK W \in SUBSET Blocks : Covered(W, W \cup Waiting)
  BY DEF WalkInv, CoverInv
<1>3. PICK Q : Q = W \cup Waiting
  OBVIOUS
<1>4. Covered(W, Q)
  BY <1>2, <1>3
<1>5. Q = W \cup ({frame.block} \ {None}) /\ Q \in SUBSET Blocks
  BY <1>1, <1>3 DEF Waiting, WalkTypeInv, Frames
<1>6. ASSUME NEW b \in Q, NEW i \in DOMAIN doc.blocks[b]
      PROVE  Done(doc.blocks[b][i], b, Q)
  BY <1>1, <1>4, <1>5, BlockIsWalked DEF Covered
<1>7. Roots \subseteq Q
  BY <1>1, <1>4 DEF Covered, Roots
<1>8. ASSUME NEW b \in Q PROVE Beside(b) \cup Below(b) \subseteq Q
  <2>1. \A s \in Selections(b) : Done(s, b, Q)
    BY <1>6 DEF Selections
  <2>2. QED
    BY <2>1 DEF Done, Beside, Below, Of
<1>9. QED
  BY <1>5, <1>6, <1>7, <1>8

(* Every root field that the query selects is found, and no other. *)
LEMMA SeenInv == WalkInv => EveryRootFieldIsSeen
<1> SUFFICES ASSUME WalkInv, Walked
             PROVE  {<<s.name, s.input>> : s \in RootFields}
                       = {<<found.inputs[i].name, found.inputs[i].input>> :
                            i \in DOMAIN found.inputs}
  BY DEF EveryRootFieldIsSeen
<1>1. PICK Q \in SUBSET Blocks :
            /\ Roots \subseteq Q
            /\ \A b \in Q : /\ Beside(b) \cup Below(b) \subseteq Q
                            /\ \A i \in DOMAIN doc.blocks[b] :
                                  Done(doc.blocks[b][i], b, Q)
  BY EverythingIsWalked
<1>2. RootBlocks \subseteq Q
  BY <1>1 DEF RootBlocks
<1>3. ASSUME NEW s \in RootFields
      PROVE  \E i \in DOMAIN found.inputs : /\ found.inputs[i].name = s.name
                                            /\ found.inputs[i].input = s.input
  <2>1. PICK b \in RootBlocks : s \in Of("field", b)
    BY DEF RootFields
  <2>2. doc.kinds[b] = "root"
    BY RootBlocksAreRoot DEF WalkInv, WalkTypeInv
  <2>3. s.kind = "field" /\ Done(s, b, Q)
    BY <1>1, <1>2, <2>1 DEF Of, Selections
  <2>4. QED
    BY <2>2, <2>3 DEF Done
<1>4. \A i \in DOMAIN found.inputs :
         \E s \in RootFields : /\ s.name = found.inputs[i].name
                               /\ s.input = found.inputs[i].input
  BY DEF WalkInv, FoundInv
<1>5. QED
  BY <1>3, <1>4

(* Model versions that do not narrow themselves were found as such. *)
LEMMA RegistryIsFound ==
  ASSUME WalkInv, Walked, NEW s \in RootFields, ReachesRegistry(s),
         ~ScopesItself(s.name)
  PROVE  found.nested /\ \E f \in found.nestedRoots : ~ScopesItself(f)
<1>0. ValidDocument(doc)
  BY DEF WalkInv, WalkTypeInv
<1>1. PICK Q \in SUBSET Blocks :
            /\ Roots \subseteq Q
            /\ \A b \in Q : /\ Beside(b) \cup Below(b) \subseteq Q
                            /\ \A i \in DOMAIN doc.blocks[b] :
                                  Done(doc.blocks[b][i], b, Q)
  BY EverythingIsWalked
<1>2. PICK b0 \in RootBlocks : s \in Of("field", b0)
  BY DEF RootFields
<1>3. b0 \in Q /\ doc.kinds[b0] = "root" /\ b0 \in Blocks
  BY <1>0, <1>1, RootBlocksAreRoot DEF RootBlocks
<1>4. /\ s.sub # None /\ s.sub \in Q
      /\ s.sub \in Blocks /\ doc.kinds[s.sub] \in {"data", "leaf"}
  <2>1. PICK i \in DOMAIN doc.blocks[b0] : s = doc.blocks[b0][i]
    BY <1>2 DEF Of, Selections
  <2>2. s.kind = "field" /\ s.sub # None
    BY <1>2 DEF Of, ReachesRegistry
  <2>3. s.sub \in Blocks /\ doc.kinds[s.sub] \in KindsBelow("root", s.name)
    BY <1>0, <1>3, <2>1, <2>2, SelectionIsValid
  <2>4. s.sub \in Below(b0)
    BY <1>2, <2>2 DEF Below
  <2>5. QED
    BY <1>1, <1>3, <2>2, <2>3, <2>4 DEF KindsBelow
<1> DEFINE D == {b \in Blocks : doc.kinds[b] \in {"data", "leaf"}}
<1>5. \A b \in D : Beside(b) \cup Below(b) \subseteq D
  BY <1>0, BesideIsAlike, BelowStaysOutside
<1>6. BlocksFrom(s.sub) \subseteq Q /\ BlocksFrom(s.sub) \subseteq D
  <2>1. D \in SUBSET Blocks /\ s.sub \in D
    BY <1>4
  <2>2. QED
    BY <1>1, <1>4, <1>5, <2>1 DEF BlocksFrom
<1>7. PICK b \in BlocksFrom(s.sub) :
            \E y \in Of("field", b) : y.name \in NestedRegistryFields
  BY DEF ReachesRegistry
<1>8. PICK x \in Of("field", b) : x.name \in NestedRegistryFields
  BY <1>7
<1>9. PICK i \in DOMAIN doc.blocks[b] : x = doc.blocks[b][i] /\ x.kind = "field"
  BY <1>8 DEF Of, Selections
<1>10. doc.kinds[b] = "data"
  BY <1>0, <1>6, <1>8, <1>9, SelectionIsValid
<1>11. Done(x, b, Q)
  BY <1>1, <1>6, <1>9
<1>12. QED
  BY <1>8, <1>9, <1>10, <1>11 DEF Done

-----------------------------------------------------------------------------
(* Merging the root fields into rules, one field after the other.          *)

LEMMA MergeNothing ==
  ASSUME NEW info
  PROVE  MergeOf(info, {}) = [key \in RegistryKeys(info) |-> NothingYet]
<1>1. ASSUME NEW key PROVE KeyEntry(info, {}, key) = NothingYet
  <2>1. FieldsOf({}, key) = {}
    BY DEF FieldsOf
  <2>2. {FieldTable[f].parsers : f \in {}} = {} /\ UNION {} = {}
    OBVIOUS
  <2>3. QED
    BY <2>1, <2>2 DEF KeyEntry, NothingYet
<1>2. RegistryKeys(info) \cup {KeyOf(f) : f \in {}} = RegistryKeys(info)
  OBVIOUS
<1>3. QED
  BY <1>1, <1>2 DEF MergeOf

LEMMA MergeOneMore ==
  ASSUME NEW info, NEW fields, NEW x
  PROVE  MergeOf(info, fields \cup {x}) = AddField(info, MergeOf(info, fields), x)
<1> DEFINE more == fields \cup {x}
           D == RegistryKeys(info) \cup {KeyOf(f) : f \in fields}
           M == MergeOf(info, fields)
<1>1. RegistryKeys(info) \cup {KeyOf(f) : f \in more} = D \cup {KeyOf(x)}
  OBVIOUS
<1>2. DOMAIN M = D /\ \A key \in D : M[key] = KeyEntry(info, fields, key)
  BY DEF MergeOf
<1>3. ASSUME NEW key, key # KeyOf(x)
      PROVE  KeyEntry(info, more, key) = KeyEntry(info, fields, key)
  <2>1. FieldsOf(more, key) = FieldsOf(fields, key)
    BY <1>3 DEF FieldsOf
  <2>2. QED
    BY <2>1 DEF KeyEntry
<1>4. KeyEntry(info, more, KeyOf(x))
         = [parsers |-> KeyEntry(info, fields, KeyOf(x)).parsers
                           \cup FieldTable[x].parsers,
            filterable |-> /\ KeyEntry(info, fields, KeyOf(x)).filterable
                           /\ Filterable(info, x)]
  <2> DEFINE key == KeyOf(x)
             old == FieldsOf(fields, key)
  <2>1. FieldsOf(more, key) = old \cup {x}
    BY DEF FieldsOf
  <2> HIDE DEF old, more, key
  <2>2. UNION {FieldTable[f].parsers : f \in old \cup {x}}
           = (UNION {FieldTable[f].parsers : f \in old})
             \cup FieldTable[x].parsers
    OBVIOUS
  <2>3. (\A f \in old \cup {x} : Filterable(info, f))
           = ((\A f \in old : Filterable(info, f)) /\ Filterable(info, x))
    BY Zenon
  <2>4. QED
    BY <2>1, <2>2, <2>3, Zenon DEF KeyEntry, old, key
<1>5. MergedSoFar(M, KeyOf(x)) = KeyEntry(info, fields, KeyOf(x))
  <2>1. CASE KeyOf(x) \in D
    BY <1>2, <2>1 DEF MergedSoFar
  <2>2. CASE KeyOf(x) \notin D
    <3>1. FieldsOf(fields, KeyOf(x)) = {}
      BY <2>2 DEF FieldsOf
    <3>2. {FieldTable[f].parsers : f \in {}} = {} /\ UNION {} = {}
      OBVIOUS
    <3>3. KeyEntry(info, fields, KeyOf(x)) = NothingYet
      BY <3>1, <3>2 DEF KeyEntry, NothingYet
    <3>4. QED
      BY <1>2, <2>2, <3>3 DEF MergedSoFar
  <2>3. QED
    BY <2>1, <2>2
<1> HIDE DEF M, D, more
<1>6. ASSUME NEW key \in D \cup {KeyOf(x)}
      PROVE  KeyEntry(info, more, key)
                = IF key = KeyOf(x)
                     THEN [parsers |-> MergedSoFar(M, key).parsers
                                          \cup FieldTable[x].parsers,
                           filterable |-> /\ MergedSoFar(M, key).filterable
                                          /\ Filterable(info, x)]
                     ELSE M[key]
  <2>1. CASE key = KeyOf(x)
    BY <1>4, <1>5, <2>1, Zenon
  <2>2. CASE key # KeyOf(x)
    BY <1>2, <1>3, <2>2
  <2>3. QED
    BY <2>1, <2>2
<1>7. MergeOf(info, more) = [key \in D \cup {KeyOf(x)} |-> KeyEntry(info, more, key)]
  BY <1>1, Zenon DEF MergeOf
<1>8. MergeOf(info, more) = AddField(info, M, x)
  BY <1>2, <1>6, <1>7 DEF AddField
<1>9. QED
  BY <1>8 DEF more, M

LEMMA MergeIsComplete ==
  ASSUME NEW info, IsFiniteSet(info.roots)
  PROVE  MergeFields(info) = MergeOf(info, info.roots)
<1> DEFINE fields == SetToSeq(info.roots)
           N == Len(fields)
           start == [key \in RegistryKeys(info) |-> NothingYet]
           Rec(g) == [n \in 0..N |-> IF n = 0 THEN start
                                     ELSE AddField(info, g[n - 1], fields[n])]
           merged == CHOOSE g : g = Rec(g)
           Upto(n) == {fields[i] : i \in 1..n}
           h == [n \in 0..N |-> MergeOf(info, Upto(n))]
<1>1. /\ N \in Nat /\ DOMAIN fields = 1..N
      /\ {fields[i] : i \in 1..N} = info.roots
  <2>1. fields \in Seq(info.roots) /\ ToSet(fields) = info.roots
    BY SetToSeqMembers
  <2> HIDE DEF fields
  <2>2. QED
    BY <2>1 DEF ToSet
<1>2. MergeFields(info) = merged[N]
  BY Zenon DEF MergeFields
<1> HIDE DEF fields
<1>3. MergeOf(info, Upto(0)) = start
  <2>1. Upto(0) = {}
    OBVIOUS
  <2> HIDE DEF Upto, start
  <2>2. QED
    BY <2>1, MergeNothing DEF start
<1>4. ASSUME NEW n \in 1..N
      PROVE  MergeOf(info, Upto(n))
                = AddField(info, MergeOf(info, Upto(n - 1)), fields[n])
  <2>1. Upto(n) = Upto(n - 1) \cup {fields[n]}
    <3>1. 1..n = 1..(n - 1) \cup {n}
      BY <1>1
    <3>2. QED
      BY <3>1
  <2> HIDE DEF Upto
  <2>2. QED
    BY <2>1, MergeOneMore
<1>5. h = Rec(h)
  <2>1. ASSUME NEW n \in 0..N
        PROVE  h[n] = IF n = 0 THEN start
                      ELSE AddField(info, h[n - 1], fields[n])
    <3> HIDE DEF Upto, start, N
    <3>1. h[n] = MergeOf(info, Upto(n))
      OBVIOUS
    <3>2. CASE n = 0
      BY <1>3, <3>1, <3>2
    <3>3. CASE n # 0
      <4>1. n \in 1..N /\ n - 1 \in 0..N
        BY <1>1, <3>3
      <4>2. h[n - 1] = MergeOf(info, Upto(n - 1))
        BY <4>1
      <4>3. QED
        BY <1>4, <3>1, <3>3, <4>1, <4>2
    <3>4. QED
      BY <3>2, <3>3
  <2> HIDE DEF h, start
  <2>2. h = [n \in 0..N |-> h[n]]
    BY DEF h
  <2>3. QED
    BY <2>1, <2>2
<1>6. merged = Rec(merged)
  <2> HIDE DEF Rec, h
  <2>1. QED
    BY <1>5
<1> HIDE DEF merged
<1>7. \A n \in 0..N : merged[n] = IF n = 0 THEN start
                                  ELSE AddField(info, merged[n - 1], fields[n])
  <2> HIDE DEF start, N
  <2>1. QED
    BY <1>6
<1> DEFINE P == {n \in Nat : n <= N => merged[n] = MergeOf(info, Upto(n))}
<1> HIDE DEF Upto, start, h
<1>8. 0 \in P
  BY <1>1, <1>3, <1>7
<1>9. ASSUME NEW n \in Nat, n \in P PROVE n + 1 \in P
  <2>1. SUFFICES ASSUME n + 1 <= N
                 PROVE  merged[n + 1] = MergeOf(info, Upto(n + 1))
    OBVIOUS
  <2>2. n + 1 \in 1..N /\ n + 1 \in 0..N /\ n + 1 # 0 /\ (n + 1) - 1 = n /\ n <= N
    BY <1>1, <2>1
  <2> HIDE DEF N
  <2>3. merged[n] = MergeOf(info, Upto(n))
    BY <1>9, <2>2
  <2>4. merged[n + 1] = AddField(info, merged[n], fields[n + 1])
    BY <1>7, <2>2
  <2>5. QED
    BY <1>4, <2>2, <2>3, <2>4
<1>10. merged[N] = MergeOf(info, Upto(N))
  <2>1. \A n \in Nat : n \in P
    <3> HIDE DEF P
    <3>1. QED
      BY <1>8, <1>9, ByInduction
  <2> HIDE DEF N
  <2>2. QED
    BY <1>1, <2>1
<1>11. QED
  BY <1>1, <1>2, <1>10, Zenon DEF Upto

LEMMA FieldTableIsFinite == IsFiniteSet(DOMAIN FieldTable)
<1>1. DOMAIN FieldTable =
         {"mlflowGetExperiment", "mlflowGetRun", "mlflowListArtifacts",
          "mlflowGetMetricHistoryBulkInterval", "mlflowSearchRuns",
          "mlflowSearchDatasets", "mlflowSearchModelVersions", "test",
          "testMutation"}
  BY DEF FieldTable
<1>2. ASSUME NEW a, NEW b, NEW c PROVE IsFiniteSet({a, b, c})
  <2>1. {a, b, c} = (({} \cup {a}) \cup {b}) \cup {c}
    OBVIOUS
  <2>2. IsFiniteSet({} \cup {a})
    BY FS_EmptySet, FS_AddElement
  <2>3. IsFiniteSet(({} \cup {a}) \cup {b})
    BY <2>2, FS_AddElement
  <2>4. QED
    BY <2>1, <2>3, FS_AddElement
<1>3. DOMAIN FieldTable =
         ({"mlflowGetExperiment", "mlflowGetRun", "mlflowListArtifacts"}
          \cup {"mlflowGetMetricHistoryBulkInterval", "mlflowSearchRuns",
                "mlflowSearchDatasets"})
         \cup {"mlflowSearchModelVersions", "test", "testMutation"}
  BY <1>1
<1>4. ASSUME NEW A, NEW B, NEW C,
             IsFiniteSet(A), IsFiniteSet(B), IsFiniteSet(C)
      PROVE  IsFiniteSet((A \cup B) \cup C)
  <2>1. IsFiniteSet(A \cup B)
    BY <1>4, FS_Union
  <2>2. QED
    BY <1>4, <2>1, FS_Union
<1>5. PICK A, B, C : /\ IsFiniteSet(A) /\ IsFiniteSet(B) /\ IsFiniteSet(C)
                     /\ DOMAIN FieldTable = (A \cup B) \cup C
  <2>1. /\ IsFiniteSet({"mlflowGetExperiment", "mlflowGetRun",
                        "mlflowListArtifacts"})
        /\ IsFiniteSet({"mlflowGetMetricHistoryBulkInterval",
                        "mlflowSearchRuns", "mlflowSearchDatasets"})
        /\ IsFiniteSet({"mlflowSearchModelVersions", "test", "testMutation"})
    BY ONLY <1>2
  <2>2. QED
    BY ONLY <1>3, <2>1, Zenon
<1>6. QED
  BY <1>4, <1>5

(* The parsers of a field look at the field. *)
LEMMA ParsersSeeTheirFields ==
  ASSUME NEW f \in DOMAIN FieldTable, NEW p \in FieldTable[f].parsers
  PROVE  f \in GraphqlParsers[p].fields
BY DEF FieldTable, FieldInfo, GraphqlParsers, GraphqlParser

LEMMA DeterminedRules ==
  ASSUME NEW info, info.roots \subseteq DOMAIN FieldTable
  PROVE  DetermineRules(info) = RulesOf(info)
<1>1. MergeFields(info) = MergeOf(info, info.roots)
  BY FieldTableIsFinite, FS_Subset, MergeIsComplete
<1>2. QED
  BY <1>1 DEF DetermineRules, MergeOf, RulesOf, KeyRule

-----------------------------------------------------------------------------
(* The decision and the resolver. *)

(* The rules are those of what was found. *)
LEMMA SameRules ==
  ASSUME UNCHANGED found
  PROVE  RulesOf(found)' = RulesOf(found)
BY DEF RulesOf, RegistryKeys, KeyRule, KeyEntry, FieldsOf, PolicyOf, Filterable

LEMMA ValidateDecision ==
  ASSUME DecisionInv, ValidateFields
  PROVE  DecisionInv'
BY DEF DecisionInv, ValidateFields, Walked, FieldTableIsValid, Narrowed

LEMMA WalkKeepsDecision ==
  ASSUME DecisionInv, phase \in {"serving", "walk"}, phase' = "walk",
         UNCHANGED <<schema, needed, broad, readable, results>>,
         found'.inputs \in Seq(Occurrences)
  PROVE  DecisionInv'
<1>1. results = <<>> /\ DOMAIN results = {} /\ Len(results) = 0 /\ readable = {}
  BY DEF DecisionInv
<1>2. Len(found'.inputs) \in Nat
  OBVIOUS
<1>3. QED
  BY <1>1, <1>2 DEF DecisionInv, Walked, FieldTableIsValid, Narrowed

LEMMA DetermineDecision ==
  ASSUME WalkInv, DecisionInv, Determine
  PROVE  DecisionInv'
<1>1. /\ results = <<>> /\ DOMAIN results = {} /\ Len(results) = 0 /\ broad = {}
      /\ FieldTableIsValid(schema) /\ readable = {}
  BY DEF DecisionInv, Determine, Walked
<1>2. /\ UNCHANGED <<schema, found, broad, readable, results>>
      /\ needed' = DetermineRules(found) /\ phase' \in {"failed", "decide"}
      /\ phase' = "decide" => DOMAIN needed' # {}
  BY DEF Determine
<1>3. phase' = "decide" => found.roots \subseteq DOMAIN FieldTable
  BY <1>2 DEF DetermineRules, NoRules
<1>4. /\ RulesOf(found)' = RulesOf(found)
      /\ phase' = "decide" => needed' = RulesOf(found)
  BY <1>2, <1>3, DeterminedRules, SameRules
<1>5. FieldTableIsValid(schema)'
  BY <1>1, <1>2 DEF FieldTableIsValid
<1>6. Len(found.inputs) \in Nat
  BY DEF WalkInv, WalkTypeInv
<1>7. QED
  BY <1>1, <1>2, <1>3, <1>4, <1>5, <1>6 DEF DecisionInv, Walked, Narrowed

(* A query that needs rules has a root field. *)
LEMMA RulesComeFromFields ==
  ASSUME WalkInv, DecisionInv, Walked
  PROVE  /\ DOMAIN found.inputs # {}
         /\ \A i \in DOMAIN found.inputs :
               /\ found.inputs[i].name \in found.roots
               /\ KeyOf(found.inputs[i].name) \in DOMAIN needed
               /\ needed[KeyOf(found.inputs[i].name)]
                     = KeyRule(found, KeyOf(found.inputs[i].name))
<1>1. /\ needed = RulesOf(found) /\ DOMAIN needed # {}
      /\ found.roots \subseteq DOMAIN FieldTable
  BY DEF DecisionInv
<1>2. /\ found.roots = {found.inputs[i].name : i \in DOMAIN found.inputs}
      /\ found.nestedRoots \subseteq found.roots
  BY DEF WalkInv, FoundInv
<1>3. /\ DOMAIN needed
            = RegistryKeys(found) \cup {KeyOf(f) : f \in found.roots}
      /\ \A key \in DOMAIN needed : needed[key] = KeyRule(found, key)
  BY <1>1 DEF RulesOf
<1>4. RegistryKeys(found) # {} => found.roots # {}
  BY <1>2 DEF RegistryKeys
<1>5. QED
  BY <1>1, <1>2, <1>3, <1>4

LEMMA AuthorizeDecision ==
  ASSUME WalkInv, DecisionInv, Authorize
  PROVE  DecisionInv'
<1>1. /\ results = <<>> /\ DOMAIN results = {} /\ Len(results) = 0 /\ Walked
  BY DEF DecisionInv, Authorize, Walked
<1>2. /\ UNCHANGED <<schema, found, needed, results>>
      /\ phase' \in {"failed", "resolve"} /\ broad' \subseteq DOMAIN needed
      /\ readable'
            \subseteq UNION {NamedIn(needed[key]) : key \in DOMAIN needed \ broad'}
      /\ phase' = "resolve" =>
            \A key \in DOMAIN needed \ broad' :
               \/ needed[key].policy = GraphqlFilter
               \/ NamedMayBeRead(needed[key], readable')
  BY DEF Authorize
<1>3. Len(found.inputs) \in Nat /\ Len(found.inputs) # 0
  <2>1. found.inputs \in Seq(Occurrences)
    BY DEF WalkInv, WalkTypeInv
  <2>2. DOMAIN found.inputs # {}
    BY <1>1, RulesComeFromFields
  <2>3. QED
    BY <2>1, <2>2
<1>4. RulesOf(found)' = RulesOf(found)
  BY <1>2, SameRules
<1>5. FieldTableIsValid(schema)'
  BY <1>1, <1>2 DEF FieldTableIsValid, DecisionInv, Walked
<1>6. phase' = "resolve" => Settled'
  BY <1>2 DEF Settled, NamedMayBeRead, Resolves, NamedIn, NamedBy
<1>7. readable' \subseteq DOMAIN found'.inputs
  <2>1. \A key : NamedIn(needed[key]) \subseteq DOMAIN found.inputs
    BY DEF NamedIn, NamedBy
  <2>2. QED
    BY <1>2, <2>1
<1>8. QED
  BY <1>1, <1>2, <1>3, <1>4, <1>5, <1>6, <1>7 DEF DecisionInv, Walked, Narrowed

(* What the resolver does with a field whose rule nobody satisfied. *)
LEMMA ResolverNarrows ==
  ASSUME WalkInv, DecisionInv, phase = "resolve", NEW i \in DOMAIN found.inputs,
         NEW key, key = KeyOf(found.inputs[i].name),
         NEW outcome \in Resolve(found.inputs[i], key \in broad)
  PROVE  /\ outcome \in {"full", "narrowed", "null"}
         /\ needed[key].parsers = {} /\ key \notin broad => outcome # "full"
<1>1. /\ found.inputs[i].name \in found.roots /\ key \in DOMAIN needed
      /\ needed[key] = KeyRule(found, key)
  BY RulesComeFromFields DEF Walked
<1>2. outcome \in {"full", "narrowed", "null"}
  BY DEF Resolve, ResolveScope, ResolveFilter
<1>3. key.policy = FieldTable[found.inputs[i].name].policy
  BY DEF KeyOf, Key
<1>4. ASSUME needed[key].parsers = {}, key \notin broad
      PROVE  outcome # "full"
  <2>1. needed[key].policy = GraphqlFilter
    BY <1>1, <1>4 DEF DecisionInv, Settled, NamedMayBeRead
  <2>2. PolicyOf(key, KeyEntry(found, found.roots, key).filterable)
           = GraphqlFilter
    BY <1>1, <2>1 DEF KeyRule
  <2>3. CASE key.policy = RequestScope
    <3>1. outcome \in ResolveScope(key \in broad)
      BY <1>3, <2>3 DEF Resolve, RequestScope, RequestFilter
    <3>2. outcome \in {"narrowed", "null"}
      BY <1>4, <3>1 DEF ResolveScope
    <3>3. QED
      BY <3>2
  <2>4. CASE key.policy # RequestScope
    <3>1. /\ key.policy = RequestFilter
          /\ Filterable(found, found.inputs[i].name)
      <4>1. /\ key.policy = RequestFilter
            /\ KeyEntry(found, found.roots, key).filterable
        BY <2>2, <2>4 DEF PolicyOf, GraphqlFilter, None
      <4>2. QED
        BY <1>1, <4>1 DEF KeyEntry, FieldsOf
    <3>2. found.inputs[i].input = "ids"
      BY <3>1 DEF Filterable
    <3>3. QED
      BY <1>3, <2>4, <3>1, <3>2 DEF Resolve, ResolveFilter
  <2>5. QED
    BY <2>3, <2>4
<1>5. QED
  BY <1>2, <1>4

LEMMA ResolveDecision ==
  ASSUME WalkInv, DecisionInv, ResolveField
  PROVE  DecisionInv'
<1>1. /\ phase = "resolve" /\ Len(results) < Len(found.inputs)
      /\ results \in Seq({"full", "narrowed", "null"})
  BY DEF DecisionInv, ResolveField
<1>2. PICK n : n = Len(results) + 1
  OBVIOUS
<1>3. found.inputs \in Seq(Occurrences)
  BY DEF WalkInv, WalkTypeInv
<1>4. /\ n \in DOMAIN found.inputs
      /\ Len(results) \in Nat /\ Len(found.inputs) \in Nat
  BY <1>1, <1>2, <1>3
<1>5. PICK key : key = KeyOf(found.inputs[n].name)
  OBVIOUS
<1>6. PICK outcome \in Resolve(found.inputs[n], key \in broad) :
         results' = Append(results, outcome)
  BY <1>2, <1>5 DEF ResolveField
<1>7. /\ outcome \in {"full", "narrowed", "null"}
      /\ needed[key].parsers = {} /\ key \notin broad => outcome # "full"
  BY <1>1, <1>4, <1>5, <1>6, ResolverNarrows
<1>8. /\ UNCHANGED <<schema, found, needed, broad, readable>>
      /\ phase' = IF n = Len(found.inputs) THEN "done" ELSE "resolve"
  BY <1>1, <1>2 DEF ResolveField
<1>9. /\ results' \in Seq({"full", "narrowed", "null"}) /\ Len(results') = n
      /\ results'[n] = outcome /\ DOMAIN results' = 1..n
      /\ \A i \in DOMAIN results' : i = n \/ (i \in DOMAIN results
                                              /\ results'[i] = results[i])
  BY <1>1, <1>2, <1>6, <1>7
<1>10. ASSUME NEW i \in DOMAIN results' PROVE Narrowed(i)'
  <2>1. CASE i = n
    BY <1>5, <1>7, <1>8, <1>9, <2>1 DEF Narrowed
  <2>2. CASE i # n
    BY <1>8, <1>9, <2>2 DEF Narrowed, DecisionInv
  <2>3. QED
    BY <2>1, <2>2
<1>11. RulesOf(found)' = RulesOf(found) /\ Settled'
  <2>1. Settled
    BY <1>1 DEF DecisionInv
  <2>2. QED
    BY <1>8, <2>1, SameRules DEF Settled, NamedMayBeRead, Resolves, NamedIn, NamedBy
<1>12. FieldTableIsValid(schema)'
  BY <1>1, <1>8 DEF FieldTableIsValid, DecisionInv
<1>13. n <= Len(found.inputs) /\ (phase' = "resolve" => n < Len(found.inputs))
  BY <1>1, <1>2, <1>4, <1>8
<1>14. QED
  BY <1>1, <1>8, <1>9, <1>10, <1>11, <1>12, <1>13 DEF DecisionInv, Walked

LEMMA DecisionStays ==
  ASSUME DecisionInv, UNCHANGED vars
  PROVE  DecisionInv'
<1>1. /\ RulesOf(found)' = RulesOf(found)
      /\ Settled' = Settled
  BY SameRules DEF vars, Settled, NamedMayBeRead, Resolves, NamedIn, NamedBy
<1>2. FieldTableIsValid(schema)' = FieldTableIsValid(schema)
  BY DEF vars, FieldTableIsValid
<1>3. QED
  BY <1>1, <1>2 DEF vars, DecisionInv, Walked, Narrowed

LEMMA DecisionInvStep ==
  WalkInv /\ WalkInv' /\ DecisionInv /\ [Next]_vars => DecisionInv'
<1> SUFFICES ASSUME WalkInv, WalkInv', DecisionInv, [Next]_vars
             PROVE  DecisionInv'
  OBVIOUS
<1>0. found'.inputs \in Seq(Occurrences)
  BY DEF WalkInv, WalkTypeInv
<1>1. CASE ValidateFields
  BY <1>1, ValidateDecision
<1>2. CASE \E document \in Documents : Receive(document)
  BY <1>0, <1>2, WalkKeepsDecision DEF Receive
<1>3. CASE VisitSelection \/ PopFrame \/ NextOperation
  BY <1>0, <1>3, WalkKeepsDecision DEF VisitSelection, PopFrame, NextOperation
<1>4. CASE Determine
  BY <1>4, DetermineDecision
<1>5. CASE Authorize
  BY <1>5, AuthorizeDecision
<1>6. CASE ResolveField
  BY <1>6, ResolveDecision
<1>7. CASE UNCHANGED vars
  BY <1>7, DecisionStays
<1>8. QED
  BY <1>1, <1>2, <1>3, <1>4, <1>5, <1>6, <1>7 DEF Next, Walk

LEMMA DecisionInvHolds == Spec => []DecisionInv
<1>1. Init => DecisionInv
  BY DEF Init, DecisionInv, Walked, NoRules, EmptyInfo
<1>2. QED
  BY <1>1, DecisionInvStep, WalkInvHolds, PTL DEF Spec

-----------------------------------------------------------------------------
(* The theorems. *)

LEMMA InvariantsHold == Spec => [](WalkInv /\ DecisionInv)
BY WalkInvHolds, DecisionInvHolds, PTL

(* The walk stays inside its document and every answer belongs to a root   *)
(* field that was found (graphql.py: the stack, the visited fragments and  *)
(* the lists that _walk_selection_sets fills).                             *)
THEOREM GraphqlTypeCorrect == Spec => []TypeOK
<1>1. ASSUME WalkTypeInv
      PROVE  /\ frame.block \in Blocks \cup {None}
             /\ \A i \in DOMAIN stack : stack[i].block \in Blocks
  <2>1. /\ frame \in Frames(Blocks \cup {None}, Nat \ {0})
        /\ stack \in Seq(Frames(Blocks, {1}))
    BY <1>1 DEF WalkTypeInv
  <2>2. frame.block \in Blocks \cup {None}
    BY <2>1 DEF Frames
  <2>3. \A i \in DOMAIN stack : stack[i] \in Frames(Blocks, {1})
    BY <2>1
  <2>4. QED
    BY <2>2, <2>3 DEF Frames
<1>2. WalkInv /\ DecisionInv => TypeOK
  <2> SUFFICES ASSUME WalkInv, DecisionInv PROVE TypeOK
    OBVIOUS
  <2>1. /\ phase \in Phases /\ op \in 0..Len(doc.operations)
        /\ found.nestedRoots \subseteq found.roots
    BY DEF WalkInv, WalkTypeInv, FoundInv
  <2>2. /\ broad \subseteq DOMAIN needed /\ Len(results) <= Len(found.inputs)
        /\ readable \subseteq DOMAIN found.inputs
    BY DEF DecisionInv
  <2>3. QED
    BY <1>1, <2>1, <2>2 DEF WalkInv, Phases, TypeOK
<1>3. QED
  BY <1>2, InvariantsHold, PTL

(* The authorization of a query knows exactly the root fields the query    *)
(* selects, with their arguments, for every valid document: however its    *)
(* fragments nest, are shared or run in circles.                           *)
THEOREM RootFieldsAreSeen == Spec => []EveryRootFieldIsSeen
BY SeenInv, WalkInvHolds, PTL

(* A query that reads model versions below a root field that does not      *)
(* narrow them needs the permission to read the registry, and neither a    *)
(* name nor a resolver stands in for it, although a fragment is walked     *)
(* only once and counted for one of the root fields that share it.         *)
THEOREM RegistryReadIsChecked == Spec => []RegistryReadNeedsRegistry
<1>1. ASSUME WalkInv, DecisionInv, Walked, NEW s \in RootFields,
             ReachesRegistry(s), ~ScopesItself(s.name)
      PROVE  \E key \in DOMAIN needed :
                /\ needed[key].verb = "get"
                /\ needed[key].resource = Models
                /\ needed[key].policy = None
                /\ needed[key].parsers = {}
  <2>1. found.nested /\ \E f \in found.nestedRoots : ~ScopesItself(f)
    BY <1>1, RegistryIsFound
  <2>2. /\ found.roots \subseteq DOMAIN FieldTable
        /\ needed = RulesOf(found)
        /\ FieldTableIsValid(schema)
    BY <1>1 DEF DecisionInv, Walked
  <2>3. /\ ReadRegistry \in DOMAIN needed
        /\ needed[ReadRegistry] = KeyRule(found, ReadRegistry)
    BY <2>1, <2>2 DEF RulesOf, RegistryKeys
  <2>4. \A filterable : PolicyOf(ReadRegistry, filterable) = None
    BY DEF PolicyOf, ReadRegistry, Key, BroadOnly, RequestScope, RequestFilter
  <2>5. \A f \in DOMAIN FieldTable :
           KeyOf(f) = ReadRegistry => FieldTable[f].parsers = {}
    BY <2>2 DEF FieldTableIsValid, KeyOf, Key, ReadRegistry, BroadOnly,
                SingleObject
  <2>6. KeyRule(found, ReadRegistry).parsers = {}
    BY <2>2, <2>5 DEF KeyRule, KeyEntry, FieldsOf
  <2>7. QED
    BY <2>3, <2>4, <2>6 DEF KeyRule, ReadRegistry, Key
<1>2. WalkInv /\ DecisionInv => RegistryReadNeedsRegistry
  BY <1>1 DEF RegistryReadNeedsRegistry
<1>3. QED
  BY <1>2, InvariantsHold, PTL

(* Where a query was let through without the permission on a whole         *)
(* collection, no resolver returns the collection unread.                  *)
THEOREM UnreadIsNarrowed == Spec => []UnreadCollectionsAreNarrowed
<1>1. DecisionInv => UnreadCollectionsAreNarrowed
  BY DEF DecisionInv, Narrowed, UnreadCollectionsAreNarrowed
<1>2. QED
  BY <1>1, DecisionInvHolds, PTL

(* An object that a root field names is returned only with a permission of *)
(* its own or on its collection: the merge of determine_graphql_rules      *)
(* (graphql.py:371-391) keeps for each field a parser that names the       *)
(* objects of all its occurrences, in whatever order the fields come.      *)
THEOREM NamedAreReviewed == Spec => []NamedObjectsAreReviewed
<1>1. ASSUME WalkInv, DecisionInv, NEW i \in DOMAIN results,
             FieldTable[found.inputs[i].name].policy = SingleObject,
             KeyOf(found.inputs[i].name) \notin broad
      PROVE  i \in readable
  <2> DEFINE field == found.inputs[i].name
             key == KeyOf(field)
  <2>1. phase \in {"resolve", "done"} /\ Walked /\ i \in DOMAIN found.inputs
    <3>1. phase \in {"resolve", "done"}
      BY <1>1 DEF DecisionInv
    <3>2. /\ Len(results) \in Nat /\ DOMAIN results = 1..Len(results)
          /\ Len(results) <= Len(found.inputs)
      BY <1>1 DEF DecisionInv
    <3>3. /\ Len(found.inputs) \in Nat
          /\ DOMAIN found.inputs = 1..Len(found.inputs)
      BY <1>1 DEF WalkInv, WalkTypeInv
    <3>4. QED
      BY <1>1, <3>1, <3>2, <3>3 DEF Walked
  <2>2. /\ field \in found.roots /\ key \in DOMAIN needed
        /\ needed[key] = KeyRule(found, key)
    BY <1>1, <2>1, RulesComeFromFields
  <2>3. /\ field \in DOMAIN FieldTable /\ FieldTableIsValid(schema)
        /\ Settled
    BY <1>1, <2>1, <2>2 DEF DecisionInv, Walked
  <2>4. needed[key].policy # GraphqlFilter
    <3>1. key.policy = SingleObject
      BY <1>1 DEF KeyOf, Key
    <3>2. \A filterable : PolicyOf(key, filterable) = None
      BY <3>1 DEF PolicyOf, SingleObject, RequestScope, RequestFilter
    <3>3. QED
      BY <2>2, <3>2 DEF KeyRule, GraphqlFilter, None
  <2>5. NamedIn(needed[key]) \subseteq readable
    BY <1>1, <2>2, <2>3, <2>4 DEF Settled, NamedMayBeRead
  <2>6. PICK p \in FieldTable[field].parsers : TRUE
    BY <1>1, <2>3 DEF FieldTableIsValid
  <2>7. p \in needed[key].parsers
    BY <2>2, <2>6 DEF KeyRule, KeyEntry, FieldsOf
  <2>8. i \in NamedBy(p)
    BY <2>1, <2>3, <2>6, ParsersSeeTheirFields DEF NamedBy
  <2>9. QED
    BY <2>5, <2>7, <2>8 DEF NamedIn
<1>2. WalkInv /\ DecisionInv => NamedObjectsAreReviewed
  BY <1>1 DEF NamedObjectsAreReviewed
<1>3. QED
  BY <1>2, InvariantsHold, PTL

(* The app walks and decides queries as GraphqlRules says: what compiling  *)
(* the rule tables and looking up routes do in between never touches a     *)
(* query, so all of the above holds of the app (create_app, middleware.py).*)
THEOREM QueriesRunAsSpecified == AppSpec => Spec
<1>1. CreateApp => Init
  BY DEF CreateApp
<1>2. [Step]_allVars => [Next]_vars
  BY DEF Step, allVars, vars, Next, Walk, ValidateGraphql, RestRequest,
         GraphqlRequest
<1>3. QED
  BY <1>1, <1>2, PTL DEF AppSpec, Spec

-----------------------------------------------------------------------------
(* Functions that are computed step by step. *)

(* f is computed up to n from a first value and one function per step. *)
Recurrence(T, first, n, step, f) ==
   /\ f \in [0..n -> T]
   /\ f[0] = first
   /\ \A i \in 1..n : f[i] = step[i][f[i - 1]]

(* There is a function that satisfies a recurrence. *)
LEMMA Recursion ==
  ASSUME NEW T, NEW first, NEW n, NEW step,
         first \in T, n \in Nat, step \in [1..n -> [T -> T]]
  PROVE  \E f : Recurrence(T, first, n, step, f)
<1> DEFINE Upto(m, f) == /\ f[0] = first
                         /\ \A i \in 1..m : f[i] = step[i][f[i - 1]]
           Exists(m) == \E f \in [0..m -> T] : Upto(m, f)
           P == {m \in Nat : m <= n => Exists(m)}
<1>1. 0 \in P
  <2> DEFINE f == [i \in 0..0 |-> first]
  <2>1. f \in [0..0 -> T] /\ Upto(0, f)
    OBVIOUS
  <2>2. Exists(0)
    BY <2>1
  <2> HIDE DEF Exists
  <2>3. QED
    BY <2>2
<1>2. ASSUME NEW m \in Nat, m \in P PROVE m + 1 \in P
  <2>1. SUFFICES ASSUME m + 1 <= n PROVE Exists(m + 1)
    <3> HIDE DEF Exists
    <3>1. QED
      OBVIOUS
  <2>2. Exists(m)
    <3> HIDE DEF Exists
    <3>1. QED
      BY <1>2, <2>1
  <2>3. PICK g \in [0..m -> T] : Upto(m, g)
    BY <2>2
  <2> DEFINE last == step[m + 1][g[m]]
             f == [i \in 0..(m + 1) |-> IF i = m + 1 THEN last ELSE g[i]]
  <2>4. last \in T
    <3>1. m + 1 \in 1..n /\ g[m] \in T
      BY <2>1, <2>3
    <3>2. step[m + 1] \in [T -> T]
      BY <3>1
    <3>3. QED
      BY <3>1, <3>2
  <2>5. f \in [0..(m + 1) -> T] /\ f[0] = first
    <3> HIDE DEF last
    <3>1. QED
      BY <2>3, <2>4
  <2>6. ASSUME NEW i \in 1..(m + 1)
        PROVE  f[i] = step[i][f[i - 1]]
    <3>1. CASE i = m + 1
      <4>1. f[i] = last /\ f[i - 1] = g[m]
        BY <3>1
      <4>2. QED
        BY <3>1, <4>1
    <3>2. CASE i # m + 1
      <4>1. i \in 1..m /\ f[i] = g[i] /\ f[i - 1] = g[i - 1]
        BY <3>2
      <4>2. g[i] = step[i][g[i - 1]]
        BY <4>1, <2>3
      <4>3. QED
        BY <4>1, <4>2
    <3>3. QED
      BY <3>1, <3>2
  <2> HIDE DEF f
  <2>7. QED
    BY <2>5, <2>6
<1>3. n \in P
  <2> HIDE DEF P
  <2>1. \A m \in Nat : m \in P
    BY <1>1, <1>2, ByInduction
  <2>2. QED
    BY <2>1
<1>4. Exists(n)
  <2> HIDE DEF Exists
  <2>1. QED
    BY <1>3
<1>5. QED
  BY <1>4 DEF Recurrence

(* FlattenSeq appends one sequence after the other. *)
LEMMA FlattenStepwise ==
  ASSUME NEW S, NEW seqs \in Seq(Seq(S))
  PROVE  \E f \in [0..Len(seqs) -> Seq(S)] :
            /\ f[0] = <<>>
            /\ \A i \in 1..Len(seqs) : f[i] = f[i - 1] \o seqs[i]
            /\ FlattenSeq(seqs) = f[Len(seqs)]
<1> DEFINE n == Len(seqs)
           step == [i \in 1..n |-> [x \in Seq(S) |-> x \o seqs[i]]]
<1>1. n \in Nat /\ DOMAIN seqs = 1..n /\ \A i \in 1..n : seqs[i] \in Seq(S)
  OBVIOUS
<1>2. <<>> \in Seq(S)
  OBVIOUS
<1>3. step \in [1..n -> [Seq(S) -> Seq(S)]]
  BY <1>1
<1>4. PICK f \in [0..n -> Seq(S)] :
         f[0] = <<>> /\ \A i \in 1..n : f[i] = step[i][f[i - 1]]
  <2> HIDE DEF n, step
  <2>1. \E f : Recurrence(Seq(S), <<>>, n, step, f)
    BY <1>1, <1>2, <1>3, Recursion, Zenon
  <2>2. QED
    BY <2>1, Zenon DEF Recurrence
<1>5. ASSUME NEW i \in 1..n
      PROVE  f[i - 1] \in Seq(S) /\ f[i] = f[i - 1] \o seqs[i]
  <2> HIDE DEF n
  <2>1. i - 1 \in 0..n
    BY <1>1
  <2>2. f[i - 1] \in Seq(S)
    BY <1>4, <2>1
  <2>3. step[i][f[i - 1]] = f[i - 1] \o seqs[i]
    BY <2>2
  <2>4. QED
    BY <1>4, <2>2, <2>3
<1>6. f[1] = seqs[1] \/ n = 0
  <2>1. SUFFICES ASSUME n # 0 PROVE f[1] = seqs[1]
    OBVIOUS
  <2>2. 1 \in 1..n /\ 1 - 1 = 0
    BY <1>1, <2>1
  <2>3. f[1] = <<>> \o seqs[1] /\ seqs[1] \in Seq(S)
    BY <1>1, <1>4, <1>5, <2>2
  <2>4. QED
    BY <2>3
<1>7. FlattenSeq(seqs) = f[n]
  <2>1. CASE n = 0
    <3>1. seqs = <<>>
      BY <1>1, <2>1
    <3>2. FlattenSeq(seqs) = seqs
      BY <2>1, Zenon DEF FlattenSeq
    <3>3. QED
      BY <1>4, <2>1, <3>1, <3>2
  <2>2. CASE n # 0
    <3> DEFINE Flat(g) == [i \in 1..n |-> IF i = 1 THEN seqs[i]
                                          ELSE g[i - 1] \o seqs[i]]
               flat == CHOOSE g : g = Flat(g)
               h == [i \in 1..n |-> f[i]]
    <3>1. h = Flat(h)
      <4>1. ASSUME NEW i \in 1..n
            PROVE  h[i] = IF i = 1 THEN seqs[i] ELSE h[i - 1] \o seqs[i]
        <5>1. h[i] = f[i] /\ (i # 1 => i - 1 \in 1..n /\ h[i - 1] = f[i - 1])
          BY <1>1
        <5> HIDE DEF n, h
        <5>2. f[i] = f[i - 1] \o seqs[i] /\ (i = 1 => f[i] = seqs[i])
          BY <1>5, <1>6, <2>2
        <5>3. QED
          BY <5>1, <5>2
      <4>2. QED
        BY <4>1
    <3>2. flat = Flat(flat)
      <4> HIDE DEF Flat, h
      <4>1. QED
        BY <3>1
    <3>3. FlattenSeq(seqs) = flat[n]
      BY <2>2, Zenon DEF FlattenSeq
    <3> DEFINE P == {i \in Nat : i + 1 <= n => flat[i + 1] = f[i + 1]}
    <3> HIDE DEF flat
    <3>4. \A i \in 1..n : flat[i] = IF i = 1 THEN seqs[i]
                                    ELSE flat[i - 1] \o seqs[i]
      BY <3>2
    <3> HIDE DEF n
    <3>5. 0 \in P
      BY <1>1, <1>6, <2>2, <3>4
    <3>6. ASSUME NEW i \in Nat, i \in P PROVE i + 1 \in P
      <4>1. SUFFICES ASSUME (i + 1) + 1 <= n
                     PROVE  flat[(i + 1) + 1] = f[(i + 1) + 1]
        OBVIOUS
      <4>2. /\ (i + 1) + 1 \in 1..n /\ (i + 1) + 1 # 1
            /\ ((i + 1) + 1) - 1 = i + 1
        BY <1>1, <4>1
      <4>3. flat[i + 1] = f[i + 1]
        BY <1>1, <3>6, <4>1
      <4>4. /\ f[(i + 1) + 1] = f[((i + 1) + 1) - 1] \o seqs[(i + 1) + 1]
            /\ flat[(i + 1) + 1] = flat[((i + 1) + 1) - 1] \o seqs[(i + 1) + 1]
        BY <1>5, <3>4, <4>2
      <4>5. QED
        BY <4>2, <4>3, <4>4
    <3>7. n - 1 \in P
      <4> HIDE DEF P
      <4>1. \A i \in Nat : i \in P
        BY <3>5, <3>6, ByInduction
      <4>2. QED
        BY <1>1, <2>2, <4>1
    <3>8. (n - 1) + 1 = n
      BY <1>1
    <3>9. QED
      BY <3>3, <3>7, <3>8, <1>1
  <2>3. QED
    BY <2>1, <2>2
<1>8. QED
  BY <1>4, <1>5, <1>7

-----------------------------------------------------------------------------
(* Sequences: members, first elements, and what is kept of them. *)

LEMMA ConcatMembers ==
  ASSUME NEW S, NEW s \in Seq(S), NEW t \in Seq(S)
  PROVE  ToSet(s \o t) = ToSet(s) \cup ToSet(t)
<1>1. /\ s \o t \in Seq(S)
      /\ Len(s \o t) = Len(s) + Len(t)
      /\ \A i \in 1..Len(s) + Len(t) :
            (s \o t)[i] = IF i <= Len(s) THEN s[i] ELSE t[i - Len(s)]
      /\ Len(s) \in Nat /\ Len(t) \in Nat
  BY ConcatProperties
<1>2. DOMAIN s = 1..Len(s) /\ DOMAIN t = 1..Len(t)
      /\ DOMAIN (s \o t) = 1..Len(s) + Len(t)
  BY <1>1
<1>3. ASSUME NEW i \in DOMAIN s PROVE s[i] \in ToSet(s \o t)
  <2>1. i \in DOMAIN (s \o t) /\ (s \o t)[i] = s[i]
    BY <1>1, <1>2
  <2>2. QED
    BY <2>1 DEF ToSet
<1>4. ASSUME NEW i \in DOMAIN t PROVE t[i] \in ToSet(s \o t)
  <2>1. i + Len(s) \in DOMAIN (s \o t) /\ (s \o t)[i + Len(s)] = t[i]
    BY <1>1, <1>2
  <2>2. QED
    BY <2>1 DEF ToSet
<1>5. ASSUME NEW i \in DOMAIN (s \o t)
      PROVE  (s \o t)[i] \in ToSet(s) \cup ToSet(t)
  <2>1. CASE i <= Len(s)
    BY <1>1, <1>2, <2>1 DEF ToSet
  <2>2. CASE ~(i <= Len(s))
    <3>1. i - Len(s) \in DOMAIN t /\ (s \o t)[i] = t[i - Len(s)]
      BY <1>1, <1>2, <2>2
    <3>2. QED
      BY <3>1 DEF ToSet
  <2>3. QED
    BY <2>1, <2>2
<1>6. QED
  BY <1>3, <1>4, <1>5 DEF ToSet

LEMMA FlattenMembers ==
  ASSUME NEW S, NEW seqs \in Seq(Seq(S))
  PROVE  /\ FlattenSeq(seqs) \in Seq(S)
         /\ \A e : e \in ToSet(FlattenSeq(seqs)) <=>
                      \E i \in DOMAIN seqs : e \in ToSet(seqs[i])
<1> DEFINE n == Len(seqs)
<1>1. n \in Nat /\ DOMAIN seqs = 1..n /\ \A i \in 1..n : seqs[i] \in Seq(S)
  OBVIOUS
<1>2. PICK f \in [0..n -> Seq(S)] :
         /\ f[0] = <<>>
         /\ \A i \in 1..n : f[i] = f[i - 1] \o seqs[i]
         /\ FlattenSeq(seqs) = f[n]
  BY FlattenStepwise, Zenon
<1> HIDE DEF n
<1>3. ASSUME NEW e
      PROVE  e \in ToSet(f[n]) <=> \E i \in 1..n : e \in ToSet(seqs[i])
  <2> DEFINE Holds(m) == e \in ToSet(f[m]) <=>
                            \E i \in 1..m : e \in ToSet(seqs[i])
             P == {m \in Nat : m <= n => Holds(m)}
  <2>1. 0 \in P
    <3>1. ToSet(<<>>) = {}
      BY DEF ToSet
    <3>2. QED
      BY <1>2, <3>1
  <2>2. ASSUME NEW m \in Nat, m \in P PROVE m + 1 \in P
    <3>1. SUFFICES ASSUME m + 1 <= n PROVE Holds(m + 1)
      <4> HIDE DEF Holds
      <4>1. QED
        OBVIOUS
    <3>2. Holds(m)
      <4> HIDE DEF Holds
      <4>1. QED
        BY <1>1, <2>2, <3>1
    <3>3. /\ m + 1 \in 1..n /\ (m + 1) - 1 = m /\ m \in 0..n
          /\ 1..(m + 1) = 1..m \cup {m + 1}
      BY <1>1, <3>1
    <3>4. f[m + 1] = f[m] \o seqs[m + 1]
      BY <1>2, <3>3
    <3>5. ToSet(f[m + 1]) = ToSet(f[m]) \cup ToSet(seqs[m + 1])
      BY <1>1, <1>2, <3>3, <3>4, ConcatMembers
    <3>6. QED
      BY <3>2, <3>3, <3>5
  <2>3. n \in P
    <3> HIDE DEF P
    <3>1. \A m \in Nat : m \in P
      BY <2>1, <2>2, ByInduction
    <3>2. QED
      BY <1>1, <3>1
  <2>4. QED
    BY <1>1, <2>3
<1>4. f[n] \in Seq(S)
  BY <1>1, <1>2
<1>5. QED
  BY <1>1, <1>2, <1>3, <1>4

(* e is the first element of s in U. *)
First(s, U, e) ==
   \E i \in DOMAIN s : /\ s[i] = e
                       /\ e \in U
                       /\ \A j \in 1..(i - 1) : s[j] \notin U

(* The first in a concatenation is that of the first part that has any. *)
LEMMA FirstOfConcat ==
  ASSUME NEW S, NEW s \in Seq(S), NEW t \in Seq(S), NEW U, NEW e
  PROVE  First(s \o t, U, e) <=>
            First(s, U, e) \/ (ToSet(s) \cap U = {} /\ First(t, U, e))
<1>1. /\ s \o t \in Seq(S)
      /\ Len(s \o t) = Len(s) + Len(t)
      /\ \A i \in 1..Len(s) + Len(t) :
            (s \o t)[i] = IF i <= Len(s) THEN s[i] ELSE t[i - Len(s)]
      /\ Len(s) \in Nat /\ Len(t) \in Nat
  BY ConcatProperties
<1>2. DOMAIN s = 1..Len(s) /\ DOMAIN t = 1..Len(t)
      /\ DOMAIN (s \o t) = 1..Len(s) + Len(t)
  BY <1>1
<1>3. ASSUME First(s, U, e) PROVE First(s \o t, U, e)
  <2>1. PICK i \in DOMAIN s : s[i] = e /\ e \in U
             /\ \A j \in 1..(i - 1) : s[j] \notin U
    BY <1>3 DEF First
  <2>2. i \in DOMAIN (s \o t) /\ (s \o t)[i] = e
    BY <1>1, <1>2, <2>1
  <2>3. ASSUME NEW j \in 1..(i - 1) PROVE (s \o t)[j] \notin U
    <3>1. j \in 1..Len(s) + Len(t) /\ j <= Len(s)
      BY <1>1, <1>2
    <3>2. QED
      BY <1>1, <2>1, <3>1
  <2>4. QED
    BY <2>1, <2>2, <2>3 DEF First
<1>4. ASSUME ToSet(s) \cap U = {}, First(t, U, e) PROVE First(s \o t, U, e)
  <2>1. PICK i \in DOMAIN t : t[i] = e /\ e \in U
             /\ \A j \in 1..(i - 1) : t[j] \notin U
    BY <1>4 DEF First
  <2> DEFINE k == i + Len(s)
  <2>2. k \in DOMAIN (s \o t) /\ (s \o t)[k] = e
    BY <1>1, <1>2, <2>1
  <2>3. ASSUME NEW j \in 1..(k - 1) PROVE (s \o t)[j] \notin U
    <3>1. CASE j <= Len(s)
      <4>1. j \in DOMAIN s /\ (s \o t)[j] = s[j]
        BY <1>1, <1>2, <3>1
      <4>2. QED
        BY <1>4, <4>1 DEF ToSet
    <3>2. CASE ~(j <= Len(s))
      <4>1. j - Len(s) \in 1..(i - 1) /\ (s \o t)[j] = t[j - Len(s)]
        BY <1>1, <1>2, <3>2
      <4>2. QED
        BY <2>1, <4>1
    <3>3. QED
      BY <3>1, <3>2
  <2> HIDE DEF k
  <2>4. QED
    BY <2>1, <2>2, <2>3 DEF First
<1>5. ASSUME First(s \o t, U, e)
      PROVE  First(s, U, e) \/ (ToSet(s) \cap U = {} /\ First(t, U, e))
  <2>1. PICK i \in DOMAIN (s \o t) : /\ (s \o t)[i] = e /\ e \in U
                                     /\ \A j \in 1..(i - 1) : (s \o t)[j] \notin U
    BY <1>5 DEF First
  <2>2. CASE i <= Len(s)
    <3>1. i \in DOMAIN s /\ s[i] = e
      BY <1>1, <1>2, <2>1, <2>2
    <3>2. ASSUME NEW j \in 1..(i - 1) PROVE s[j] \notin U
      <4>1. j \in 1..Len(s) + Len(t) /\ j <= Len(s)
        BY <1>1, <1>2, <2>2
      <4>2. (s \o t)[j] = s[j]
        BY <1>1, <4>1
      <4>3. QED
        BY <2>1, <4>2
    <3>3. QED
      BY <2>1, <3>1, <3>2 DEF First
  <2>3. CASE ~(i <= Len(s))
    <3>1. i - Len(s) \in DOMAIN t /\ t[i - Len(s)] = e
      BY <1>1, <1>2, <2>1, <2>3
    <3>2. ASSUME NEW j \in 1..((i - Len(s)) - 1) PROVE t[j] \notin U
      <4>1. /\ j + Len(s) \in 1..Len(s) + Len(t) /\ ~(j + Len(s) <= Len(s))
            /\ (j + Len(s)) - Len(s) = j /\ j + Len(s) \in 1..(i - 1)
        BY <1>1, <1>2, <2>3
      <4>2. (s \o t)[j + Len(s)] = t[j]
        BY <1>1, <4>1
      <4>3. QED
        BY <2>1, <4>1, <4>2
    <3>3. ASSUME NEW j \in DOMAIN s PROVE s[j] \notin U
      <4>1. j \in 1..Len(s) + Len(t) /\ j <= Len(s) /\ j \in 1..(i - 1)
        BY <1>1, <1>2, <2>3
      <4>2. (s \o t)[j] = s[j]
        BY <1>1, <4>1
      <4>3. QED
        BY <2>1, <4>1, <4>2
    <3>4. ToSet(s) \cap U = {}
      BY <3>3 DEF ToSet
    <3>5. First(t, U, e)
      BY <2>1, <3>1, <3>2 DEF First
    <3>6. QED
      BY <3>4, <3>5
  <2>4. QED
    BY <2>2, <2>3
<1>6. QED
  BY <1>3, <1>4, <1>5

LEMMA AmongIsSequence ==
  ASSUME NEW S, NEW s \in Seq(S), NEW kept
  PROVE  /\ Among(s, kept) \in Seq(S)
         /\ \A e : e \in ToSet(Among(s, kept)) <=> e \in ToSet(s) /\ e \in kept
<1> DEFINE seqs == [i \in DOMAIN s |-> IF s[i] \in kept THEN <<s[i]>> ELSE <<>>]
<1>1. DOMAIN s = 1..Len(s) /\ Len(s) \in Nat /\ \A i \in 1..Len(s) : s[i] \in S
  OBVIOUS
<1>2. \A i \in DOMAIN s : seqs[i] \in Seq(S)
  BY <1>1
<1>3. seqs \in Seq(Seq(S)) /\ DOMAIN seqs = DOMAIN s
  BY <1>1, <1>2
<1>4. Among(s, kept) = FlattenSeq(seqs)
  BY Zenon DEF Among
<1>5. ASSUME NEW e, NEW i \in DOMAIN s
      PROVE  e \in ToSet(seqs[i]) <=> e = s[i] /\ e \in kept
  <2>1. CASE s[i] \in kept
    <3>1. seqs[i] = <<s[i]>>
      BY <2>1
    <3>2. QED
      BY <2>1, <3>1 DEF ToSet
  <2>2. CASE s[i] \notin kept
    <3>1. seqs[i] = <<>>
      BY <2>2
    <3>2. QED
      BY <2>2, <3>1 DEF ToSet
  <2>3. QED
    BY <2>1, <2>2
<1> HIDE DEF seqs
<1>6. /\ FlattenSeq(seqs) \in Seq(S)
      /\ \A e : e \in ToSet(FlattenSeq(seqs)) <=>
                   \E i \in DOMAIN seqs : e \in ToSet(seqs[i])
  BY <1>3, FlattenMembers
<1>7. \A e : e \in ToSet(s) <=> \E i \in DOMAIN s : e = s[i]
  BY DEF ToSet
<1>8. QED
  BY <1>3, <1>4, <1>5, <1>6, <1>7, Zenon

(* Filtering a sequence keeps its order. *)
LEMMA FirstAmong ==
  ASSUME NEW S, NEW s \in Seq(S), NEW kept, NEW U, NEW e
  PROVE  First(Among(s, kept), U, e) <=> First(s, kept \cap U, e)
<1> DEFINE n == Len(s)
           seqs == [i \in DOMAIN s |-> IF s[i] \in kept THEN <<s[i]>> ELSE <<>>]
<1>1. DOMAIN s = 1..n /\ n \in Nat /\ \A i \in 1..n : s[i] \in S
  OBVIOUS
<1>2. \A i \in DOMAIN s : seqs[i] \in Seq(S)
  BY <1>1
<1>3. seqs \in Seq(Seq(S)) /\ DOMAIN seqs = DOMAIN s /\ Len(seqs) = n
  BY <1>1, <1>2
<1>4. Among(s, kept) = FlattenSeq(seqs)
  BY Zenon DEF Among
<1>5. \A i \in 1..n : seqs[i] = IF s[i] \in kept THEN <<s[i]>> ELSE <<>>
  BY <1>1
<1> HIDE DEF seqs, n
<1>6. PICK f \in [0..n -> Seq(S)] :
         /\ f[0] = <<>>
         /\ \A i \in 1..n : f[i] = f[i - 1] \o seqs[i]
         /\ FlattenSeq(seqs) = f[n]
  <2>1. \E f \in [0..Len(seqs) -> Seq(S)] :
         /\ f[0] = <<>>
         /\ \A i \in 1..Len(seqs) : f[i] = f[i - 1] \o seqs[i]
         /\ FlattenSeq(seqs) = f[Len(seqs)]
    BY <1>3, FlattenStepwise, Zenon
  <2>2. QED
    BY <1>3, <2>1
(* Up to m, what is kept has e first in U and meets U like s itself. *)
<1> DEFINE V == kept \cap U
           FirstUpto(m) == \E i \in 1..m : /\ s[i] = e /\ e \in V
                                           /\ \A j \in 1..(i - 1) : s[j] \notin V
           NoneUpto(m) == \A i \in 1..m : s[i] \notin V
           Holds(m) == /\ First(f[m], U, e) <=> FirstUpto(m)
                       /\ ToSet(f[m]) \cap U = {} <=> NoneUpto(m)
           P == {m \in Nat : m <= n => Holds(m)}
<1>7. 0 \in P
  <2>1. ToSet(<<>>) = {} /\ ~First(<<>>, U, e)
    BY DEF ToSet, First
  <2>2. ~FirstUpto(0) /\ NoneUpto(0)
    OBVIOUS
  <2> HIDE DEF FirstUpto, NoneUpto
  <2>3. QED
    BY <1>6, <2>1, <2>2
<1>8. ASSUME NEW m \in Nat, m \in P PROVE m + 1 \in P
  <2>1. SUFFICES ASSUME m + 1 <= n PROVE Holds(m + 1)
    <3> HIDE DEF Holds
    <3>1. QED
      OBVIOUS
  <2>2. Holds(m)
    <3> HIDE DEF Holds
    <3>1. QED
      BY <1>1, <1>8, <2>1
  <2>3. m + 1 \in 1..n /\ (m + 1) - 1 = m /\ m \in 0..n
    BY <1>1, <2>1
  <2>4. /\ f[m + 1] = f[m] \o seqs[m + 1]
        /\ f[m] \in Seq(S) /\ seqs[m + 1] \in Seq(S)
    BY <1>1, <1>2, <1>6, <2>3
  <2>5. /\ First(f[m + 1], U, e) <=>
              \/ First(f[m], U, e)
              \/ ToSet(f[m]) \cap U = {} /\ First(seqs[m + 1], U, e)
        /\ ToSet(f[m + 1]) = ToSet(f[m]) \cup ToSet(seqs[m + 1])
    BY <2>4, FirstOfConcat, ConcatMembers
  <2>6. /\ First(seqs[m + 1], U, e) <=> s[m + 1] = e /\ e \in V
        /\ ToSet(seqs[m + 1]) \cap U = {} <=> s[m + 1] \notin V
    <3>1. CASE s[m + 1] \in kept
      <4>1. seqs[m + 1] = <<s[m + 1]>>
        BY <1>5, <2>3, <3>1
      <4>2. QED
        BY <3>1, <4>1 DEF First, ToSet
    <3>2. CASE s[m + 1] \notin kept
      <4>1. seqs[m + 1] = <<>>
        BY <1>5, <2>3, <3>2
      <4>2. QED
        BY <3>2, <4>1 DEF First, ToSet
    <3>3. QED
      BY <3>1, <3>2
  <2>7. /\ FirstUpto(m + 1)
           <=> FirstUpto(m) \/ (NoneUpto(m) /\ s[m + 1] = e /\ e \in V)
        /\ NoneUpto(m + 1) <=> NoneUpto(m) /\ s[m + 1] \notin V
    <3>1. 1..(m + 1) = 1..m \cup {m + 1} /\ (m + 1) - 1 = m
      OBVIOUS
    <3> HIDE DEF V
    <3>2. QED
      BY <3>1
  <2> HIDE DEF FirstUpto, NoneUpto
  <2>8. QED
    BY <2>2, <2>5, <2>6, <2>7
<1>9. n \in P
  <2> HIDE DEF P
  <2>1. \A m \in Nat : m \in P
    BY <1>7, <1>8, ByInduction
  <2>2. QED
    BY <1>1, <2>1
<1>10. First(f[n], U, e) <=> FirstUpto(n)
  <2> HIDE DEF FirstUpto, NoneUpto
  <2>1. QED
    BY <1>1, <1>9
<1>11. QED
  BY <1>1, <1>4, <1>6, <1>10 DEF First

-----------------------------------------------------------------------------
(* Sets and routes as sequences of entries. *)

LEMMA EntriesMembers ==
  ASSUME NEW route, NEW rules, NEW source, IsFiniteSet(route.methods)
  PROVE  /\ Entries(route, rules, source) \in Seq(ToSet(Entries(route, rules, source)))
         /\ \A e : e \in ToSet(Entries(route, rules, source)) <=>
              \E m \in route.methods \ Implied :
                 e = [path |-> route.path, method |-> m,
                      rules |-> rules, source |-> source]
<1> DEFINE M == route.methods \ Implied
           ms == SetToSeq(M)
           es == Entries(route, rules, source)
           Entry(m) == [path |-> route.path, method |-> m,
                        rules |-> rules, source |-> source]
<1>1. IsFiniteSet(M)
  BY FS_Subset
<1>2. ms \in Seq(M) /\ ToSet(ms) = M
  <2> HIDE DEF M
  <2>1. QED
    BY <1>1, SetToSeqMembers
<1>3. es = [i \in DOMAIN ms |-> Entry(ms[i])]
  BY Zenon DEF Entries
<1> HIDE DEF M, ms, es, Entry
<1>4. Len(ms) \in Nat /\ DOMAIN ms = 1..Len(ms) /\ DOMAIN es = 1..Len(ms)
  BY <1>2, <1>3
<1>5. es \in Seq(ToSet(es))
  <2>1. \A i \in 1..Len(ms) : es[i] \in ToSet(es)
    BY <1>4 DEF ToSet
  <2>2. es \in [1..Len(ms) -> ToSet(es)]
    BY <1>3, <1>4, <2>1
  <2>3. QED
    BY <1>4, <2>2
<1>6. \A e : e \in ToSet(es) <=> \E m \in M : e = Entry(m)
  BY <1>2, <1>3, <1>4 DEF ToSet
<1>7. QED
  BY <1>5, <1>6 DEF es, M, Entry

-----------------------------------------------------------------------------
(* Templates and the paths that match them. *)

(* Matching goes token by token. *)
LEMMA EndsStepwise ==
  ASSUME NEW template, NEW path, Len(template) \in Nat, Len(path) \in Nat
  PROVE  \E ends :
            /\ ends[0] = {0}
            /\ \A i \in 1..Len(template) :
                  ends[i] = EndsAfter(template[i], path, ends[i - 1])
            /\ Matches(template, path) <=> Len(path) \in ends[Len(template)]
<1> DEFINE n == Len(template)
           step == [i \in 1..n |->
                      [E \in SUBSET Nat |-> EndsAfter(template[i], path, E)]]
<1>1. n \in Nat /\ {0} \in SUBSET Nat
  OBVIOUS
<1>2. \A token, E : EndsAfter(token, path, E) \in SUBSET Nat
  BY DEF EndsAfter
<1>3. step \in [1..n -> [SUBSET Nat -> SUBSET Nat]]
  BY <1>2
<1>4. PICK f \in [0..n -> SUBSET Nat] :
         f[0] = {0} /\ \A i \in 1..n : f[i] = step[i][f[i - 1]]
  <2> HIDE DEF n, step
  <2>1. \E f : Recurrence(SUBSET Nat, {0}, n, step, f)
    BY <1>1, <1>3, Recursion, Zenon
  <2>2. QED
    BY <2>1, Zenon DEF Recurrence
<1> DEFINE Rec(g) == [i \in 0..n |->
                        IF i = 0 THEN {0}
                        ELSE EndsAfter(template[i], path, g[i - 1])]
           ends == CHOOSE g : g = Rec(g)
<1>5. f = Rec(f)
  <2>1. ASSUME NEW i \in 0..n
        PROVE  f[i] = IF i = 0 THEN {0} ELSE EndsAfter(template[i], path, f[i - 1])
    <3>1. CASE i = 0
      BY <1>4, <3>1
    <3>2. CASE i # 0
      <4>1. i \in 1..n /\ i - 1 \in 0..n
        BY <1>1, <3>2
      <4>2. f[i - 1] \in SUBSET Nat
        BY <1>4, <4>1
      <4> HIDE DEF n
      <4>3. step[i][f[i - 1]] = EndsAfter(template[i], path, f[i - 1])
        BY <4>1, <4>2
      <4>4. QED
        BY <1>4, <3>2, <4>1, <4>3
    <3>3. QED
      BY <3>1, <3>2
  <2>2. QED
    BY <2>1
<1>6. ends = Rec(ends)
  <2> HIDE DEF Rec
  <2>1. QED
    BY <1>5
<1>7. Matches(template, path) <=> Len(path) \in ends[n]
  BY Zenon DEF Matches
<1> HIDE DEF ends
<1>8. \A i \in 0..n : ends[i] = IF i = 0 THEN {0}
                                ELSE EndsAfter(template[i], path, ends[i - 1])
  BY <1>6
<1>9. 0 \in 0..n /\ \A i \in 1..n : i \in 0..n /\ i # 0
  BY <1>1
<1> HIDE DEF n
<1>10. QED
  BY <1>7, <1>8, <1>9 DEF n

(* A sequence, of whatever elements. *)
IsSequence(s) == s \in Seq(ToSet(s))

LEMMA SequenceOf ==
  ASSUME NEW S, NEW s \in Seq(S)
  PROVE  IsSequence(s) /\ ToSet(s) \subseteq S
<1>1. DOMAIN s = 1..Len(s) /\ Len(s) \in Nat /\ s \in [1..Len(s) -> S]
  OBVIOUS
<1>2. s \in [1..Len(s) -> ToSet(s)] /\ ToSet(s) \subseteq S
  BY <1>1 DEF ToSet
<1>3. QED
  BY <1>1, <1>2 DEF IsSequence

LEMMA InstanceIsSequence ==
  ASSUME NEW path, IsSequence(path), NEW probe
  PROVE  LET inst == Instance(path, probe)
         IN IsSequence(inst) /\ Len(inst) = Len(path)
<1> DEFINE inst == Instance(path, probe)
<1>1. Len(path) \in Nat /\ DOMAIN path = 1..Len(path)
  BY DEF IsSequence
<1>2. inst \in [1..Len(path) -> ToSet(inst)]
  BY <1>1 DEF Instance, ToSet
<1>3. QED
  BY <1>1, <1>2 DEF IsSequence

LEMMA FilledSegment ==
  ASSUME NEW token \in SegmentVariables, NEW probe \in Probes
  PROVE  SegmentMatches(token, Fill(token, probe))
<1>1. CASE token \in Decorated
  BY <1>1 DEF SegmentMatches
<1>2. CASE token \notin Decorated
  <2>1. Fill(token, probe) = probe
    BY <1>2 DEF Decorated, Fill
  <2>2. probe # ""
    BY ProbesAssumption
  <2>3. QED
    BY <1>2, <2>1, <2>2 DEF SegmentMatches
<1>3. QED
  BY <1>1, <1>2

(* A template matches its instances. *)
LEMMA InstanceMatches ==
  ASSUME NEW path, IsSequence(path), NEW probe \in Probes
  PROVE  Matches(path, Instance(path, probe))
<1> DEFINE n == Len(path)
           inst == Instance(path, probe)
<1>1. /\ n \in Nat /\ DOMAIN path = 1..n /\ Len(inst) = n
      /\ \A i \in 1..n : inst[i] = IF path[i] \in Variables
                                      THEN Fill(path[i], probe) ELSE path[i]
  BY InstanceIsSequence DEF IsSequence, Instance
<1>2. PICK ends : /\ ends[0] = {0}
                  /\ \A i \in 1..n : ends[i] = EndsAfter(path[i], inst, ends[i - 1])
                  /\ Matches(path, inst) <=> Len(inst) \in ends[n]
  BY <1>1, EndsStepwise
<1> HIDE DEF n, inst
<1> DEFINE P == {i \in Nat : i <= n => i \in ends[i]}
<1>3. 0 \in P
  BY <1>2
<1>4. ASSUME NEW i \in Nat, i \in P PROVE i + 1 \in P
  <2>1. SUFFICES ASSUME i + 1 <= n PROVE i + 1 \in ends[i + 1]
    OBVIOUS
  <2>2. i + 1 \in 1..n /\ (i + 1) - 1 = i /\ i \in ends[i] /\ i < i + 1
    BY <1>1, <1>4, <2>1
  <2>3. ends[i + 1] = EndsAfter(path[i + 1], inst, ends[i])
    BY <1>2, <2>2
  <2>4. i + 1 \in 1..Len(inst)
    BY <1>1, <2>2
  <2>5. CASE path[i + 1] \in PathVariables
    BY <2>2, <2>3, <2>4, <2>5 DEF EndsAfter
  <2>6. CASE path[i + 1] \notin PathVariables
    <3>1. SegmentMatches(path[i + 1], inst[i + 1])
      <4>1. CASE path[i + 1] \in SegmentVariables
        <5>1. inst[i + 1] = Fill(path[i + 1], probe)
          BY <1>1, <2>2, <4>1 DEF Variables
        <5>2. QED
          BY <4>1, <5>1, FilledSegment
      <4>2. CASE path[i + 1] \notin SegmentVariables
        <5>1. inst[i + 1] = path[i + 1]
          BY <1>1, <2>2, <2>6, <4>2 DEF Variables
        <5>2. QED
          BY <5>1 DEF SegmentMatches
      <4>3. QED
        BY <4>1, <4>2
    <3>2. QED
      BY <2>2, <2>3, <2>4, <2>6, <3>1 DEF EndsAfter
  <2>7. QED
    BY <2>5, <2>6
<1>5. n \in P
  <2> HIDE DEF P
  <2>1. \A i \in Nat : i \in P
    BY <1>3, <1>4, ByInduction
  <2>2. QED
    BY <1>1, <2>1
<1>6. QED
  BY <1>1, <1>2, <1>5 DEF inst

(* The entries of a set that match a request. *)
Hits(S, path, method) ==
   {e \in S : e.method = method /\ Matches(e.path, path)}

(* A lookup finds the first entry that matches, if there is any. *)
LEMMA FirstMatchIsFirst ==
  ASSUME NEW S, NEW table \in Seq(S), NEW path, NEW method
  PROVE  /\ \A e : FirstMatch(table, path, method) = <<e>> <=>
                      First(table, Hits(S, path, method), e)
         /\ FirstMatch(table, path, method) # <<>> =>
               \E e : FirstMatch(table, path, method) = <<e>>
         /\ FirstMatch(table, path, method) = <<>> <=>
               ToSet(table) \cap Hits(S, path, method) = {}
<1> DEFINE U == Hits(S, path, method)
           hits == {i \in DOMAIN table : /\ table[i].method = method
                                         /\ Matches(table[i].path, path)}
           first == CHOOSE i \in hits : \A j \in hits : i <= j
<1>1. DOMAIN table = 1..Len(table) /\ \A i \in 1..Len(table) : table[i] \in S
  OBVIOUS
<1>2. \A i \in DOMAIN table : i \in hits <=> table[i] \in U
  BY <1>1 DEF Hits
<1>3. hits \subseteq Nat
  BY <1>1
<1>4. FirstMatch(table, path, method) =
         IF hits = {} THEN <<>> ELSE <<table[first]>>
  BY Zenon DEF FirstMatch
<1>5. hits = {} <=> ToSet(table) \cap U = {}
  BY <1>2 DEF ToSet
<1>6. hits # {} => first \in hits /\ \A j \in hits : first <= j
  <2> HIDE DEF hits
  <2>1. SUFFICES ASSUME hits # {}
                 PROVE  \E i \in hits : \A j \in hits : i <= j
    BY Zenon
  <2>2. QED
    BY <1>3, <2>1, LeastOf
<1>7. ASSUME hits # {} PROVE First(table, U, table[first])
  <2> HIDE DEF hits, first
  <2>1. first \in DOMAIN table /\ table[first] \in U
    BY <1>2, <1>6, <1>7 DEF hits
  <2>2. ASSUME NEW j \in 1..(first - 1) PROVE table[j] \notin U
    <3>1. j \in DOMAIN table /\ ~(first <= j)
      BY <1>1, <2>1
    <3>2. QED
      BY <1>2, <1>6, <1>7, <3>1
  <2>3. QED
    BY <2>1, <2>2 DEF First
<1>8. ASSUME NEW e, First(table, U, e) PROVE hits # {} /\ e = table[first]
  <2>1. PICK i \in DOMAIN table : /\ table[i] = e /\ e \in U
                                  /\ \A j \in 1..(i - 1) : table[j] \notin U
    BY <1>8 DEF First
  <2>2. i \in hits
    BY <1>2, <2>1
  <2> HIDE DEF hits, first
  <2>3. first \in hits /\ first <= i /\ first \in DOMAIN table
    BY <1>6, <2>2 DEF hits
  <2>4. ~(first < i)
    BY <1>1, <1>2, <2>1, <2>3
  <2>5. first = i
    BY <1>1, <2>1, <2>3, <2>4
  <2>6. QED
    BY <2>1, <2>2, <2>5
<1> HIDE DEF hits, first, U
<1>9. \A x, y : <<x>> = <<y>> => x = y
  OBVIOUS
<1>10. \A x : <<x>> # <<>>
  OBVIOUS
<1>11. QED
  BY <1>4, <1>5, <1>7, <1>8, <1>9, <1>10 DEF U

-----------------------------------------------------------------------------
(* The routes of a process, and requests for them. *)

(* The routes this MLflow has are among those of the constants. *)
RoutesInv ==
   /\ routes.protobuf \in Seq(ProtobufRoute)
   /\ routes.flask \in Seq(HttpRoute)
   /\ routes.fastapi \in Seq(HttpRoute)
   /\ ToSet(routes.protobuf) \subseteq ToSet(ProtobufRoutes)
   /\ ToSet(routes.flask) \subseteq ToSet(FlaskRoutes)
   /\ ToSet(routes.fastapi) \subseteq ToSet(FastApiRoutes)

(* An MLflow that lacks some routes. *)
LEMMA SomeRoutes ==
  ASSUME NEW S, NEW framework \in Seq(S), NEW new
  PROVE  /\ HasRoute(framework, new) \in Seq(S)
         /\ ToSet(HasRoute(framework, new)) \subseteq ToSet(framework)
<1> DEFINE kept == {r \in ToSet(framework) :
                      r.path \in NewRoutes => r.path \in new}
<1>1. HasRoute(framework, new) = Among(framework, kept)
  BY Zenon DEF HasRoute
<1> HIDE DEF kept
<1>2. QED
  BY <1>1, AmongIsSequence

LEMMA InitialRoutes == CompilerInit => RoutesInv
<1> SUFFICES ASSUME CompilerInit PROVE RoutesInv
  OBVIOUS
<1>1. PICK new \in SUBSET NewRoutes :
         routes = [protobuf |-> HasRoute(ProtobufRoutes, new),
                   flask |-> HasRoute(FlaskRoutes, new),
                   fastapi |-> HasRoute(FastApiRoutes, new)]
  BY DEF CompilerInit
<1>2. /\ HasRoute(ProtobufRoutes, new) \in Seq(ProtobufRoute)
      /\ ToSet(HasRoute(ProtobufRoutes, new)) \subseteq ToSet(ProtobufRoutes)
  BY SomeRoutes, RoutesAssumption
<1>3. /\ HasRoute(FlaskRoutes, new) \in Seq(HttpRoute)
      /\ ToSet(HasRoute(FlaskRoutes, new)) \subseteq ToSet(FlaskRoutes)
  BY SomeRoutes, RoutesAssumption
<1>4. /\ HasRoute(FastApiRoutes, new) \in Seq(HttpRoute)
      /\ ToSet(HasRoute(FastApiRoutes, new)) \subseteq ToSet(FastApiRoutes)
  BY SomeRoutes, RoutesAssumption
<1>5. QED
  BY <1>1, <1>2, <1>3, <1>4 DEF RoutesInv

LEMMA MemberOf ==
  ASSUME NEW S, NEW s \in Seq(S), NEW e \in ToSet(s)
  PROVE  e \in S
BY DEF ToSet

LEMMA TemplateIsSequence ==
  ASSUME NEW path, IsSequence(path)
  PROVE  IsSequence(FastApiToTemplate(path))
<1> DEFINE template == FastApiToTemplate(path)
<1>1. DOMAIN path = 1..Len(path) /\ Len(path) \in Nat
  BY DEF IsSequence
<1>2. template \in [1..Len(path) -> ToSet(template)]
  BY <1>1 DEF FastApiToTemplate, ToSet
<1>3. QED
  BY <1>1, <1>2 DEF IsSequence

(* The routes a request can be for, whatever MLflow version it is. *)
AnyRoutes ==
   ToSet(ProtobufRoutes) \cup ToSet(FlaskRoutes) \cup TableRoutes
   \cup {[q EXCEPT !.path = FastApiToTemplate(@)] : q \in ToSet(FastApiRoutes)}

LEMMA AnyRouteHasPath ==
  ASSUME NEW route \in AnyRoutes
  PROVE  IsSequence(route.path)
<1>1. CASE route \in ToSet(ProtobufRoutes)
  <2>1. route \in ProtobufRoute
    BY <1>1, MemberOf, RoutesAssumption
  <2>2. QED
    BY <2>1, SequenceOf DEF ProtobufRoute, Path
<1>2. CASE route \in ToSet(FlaskRoutes)
  <2>1. route \in HttpRoute
    BY <1>2, MemberOf, RoutesAssumption
  <2>2. QED
    BY <2>1, SequenceOf DEF HttpRoute, Path
<1>3. CASE route \in TableRoutes
  BY <1>3, RulesAssumption, SequenceOf DEF TableRoutes, Path
<1>4. CASE route \in {[q EXCEPT !.path = FastApiToTemplate(@)] :
                        q \in ToSet(FastApiRoutes)}
  <2>1. PICK q \in ToSet(FastApiRoutes) :
           route = [q EXCEPT !.path = FastApiToTemplate(@)]
    BY <1>4
  <2>2. q \in HttpRoute
    BY MemberOf, RoutesAssumption
  <2>3. IsSequence(q.path) /\ route.path = FastApiToTemplate(q.path)
    BY <2>1, <2>2, SequenceOf DEF HttpRoute, Path
  <2>4. QED
    BY <2>3, TemplateIsSequence
<1>5. QED
  BY <1>1, <1>2, <1>3, <1>4 DEF AnyRoutes

LEMMA ServedRoutesAreAny ==
  RoutesInv => ServedRoutes \cup TableRoutes \subseteq AnyRoutes
BY DEF RoutesInv, ServedRoutes, AnyRoutes

LEMMA AnyRouteIsRequested ==
  ASSUME NEW route \in AnyRoutes, NEW probe \in Probes
  PROVE  Instance(route.path, probe) \in Requested
BY DEF AnyRoutes, Requested

(* Stripping a prefix gives what it was put in front of. *)
LEMMA StripWhole ==
  ASSUME NEW S, NEW prefix \in Seq(S), NEW rest \in Seq(S)
  PROVE  StripPrefix(prefix \o rest, prefix) = rest
<1>1. CASE prefix = <<>>
  <2>1. prefix \o rest = rest
    BY <1>1, ConcatEmptySeq
  <2>2. QED
    BY <1>1, <2>1 DEF StripPrefix
<1>2. CASE prefix # <<>>
  <2> DEFINE whole == prefix \o rest
             n == Len(prefix)
  <2>1. /\ whole \in Seq(S)
        /\ Len(whole) = n + Len(rest)
        /\ \A i \in 1..n + Len(rest) :
              whole[i] = IF i <= n THEN prefix[i] ELSE rest[i - n]
        /\ n \in Nat /\ Len(rest) \in Nat
    BY ConcatProperties
  <2> HIDE DEF whole
  <2>2. SubSeq(prefix, 1, n) = prefix
    BY SubSeqFull
  <2>3. SubSeq(whole, 1, n) = prefix
    <3>1. /\ SubSeq(whole, 1, n) \in Seq(S)
          /\ Len(SubSeq(whole, 1, n)) = n
          /\ \A i \in 1..n : SubSeq(whole, 1, n)[i] = whole[i]
      BY <2>1
    <3>2. \A i \in 1..n : whole[i] = prefix[i]
      BY <2>1
    <3>3. QED
      BY <3>1, <3>2, SeqEqual
  <2>4. IsPrefix(prefix, whole)
    BY <2>1, <2>2, <2>3 DEF IsPrefix
  <2>5. SubSeq(whole, n + 1, Len(whole)) = rest
    <3>1. /\ SubSeq(whole, n + 1, Len(whole)) \in Seq(S)
          /\ Len(SubSeq(whole, n + 1, Len(whole))) = Len(rest)
          /\ \A i \in 1..Len(rest) :
                SubSeq(whole, n + 1, Len(whole))[i] = whole[i + n]
      BY <2>1
    <3>2. \A i \in 1..Len(rest) : whole[i + n] = rest[i]
      BY <2>1
    <3>3. QED
      BY <3>1, <3>2, SeqEqual
  <2>6. StripPrefix(whole, prefix) = SubSeq(whole, n + 1, Len(whole))
    BY <1>2, <2>4 DEF StripPrefix
  <2>7. QED
    BY <2>5, <2>6 DEF whole
<1>3. QED
  BY <1>1, <1>2

LEMMA HeadOfInstance ==
  ASSUME NEW path, IsSequence(path), NEW probe, path # <<>>, Head(path) \notin Variables
  PROVE  Instance(path, probe) # <<>>
         /\ Head(Instance(path, probe)) = Head(path)
<1>1. 1 \in DOMAIN path /\ Head(path) = path[1]
  BY DEF IsSequence
<1>2. Instance(path, probe)[1] = path[1]
  BY <1>1 DEF Instance
<1>3. /\ Instance(path, probe) \in Seq(ToSet(Instance(path, probe)))
      /\ Len(Instance(path, probe)) = Len(path) /\ Len(path) \in Nat \ {0}
  BY InstanceIsSequence DEF IsSequence
<1>4. QED
  BY <1>1, <1>2, <1>3

LEMMA InstanceOfEmpty ==
  ASSUME NEW probe
  PROVE  Instance(<<>>, probe) = <<>>
<1>1. IsSequence(<<>>)
  BY DEF IsSequence
<1>2. /\ Instance(<<>>, probe) \in Seq(ToSet(Instance(<<>>, probe)))
      /\ Len(Instance(<<>>, probe)) = 0
  BY <1>1, InstanceIsSequence DEF IsSequence
<1>3. QED
  BY <1>2

(* A request for a route is looked up by the instance of the route, without *)
(* the prefixes of the deployment.                                          *)
LEMMA Canonical ==
  ASSUME NEW route \in AnyRoutes, NEW probe \in Probes,
         NEW root \in {<<>>, RootPath}, NEW static \in {<<>>, StaticPrefix},
         Head(route.path) \in StaticHeads \/ static = <<>>
  PROVE  Canonicalize((root \o static) \o Instance(route.path, probe), root)
            = Instance(route.path, probe)
<1> DEFINE inst == Instance(route.path, probe)
           S == STRING \cup ToSet(inst)
<1>1. IsSequence(route.path)
  BY AnyRouteHasPath
<1>2. inst \in Seq(S)
  <2>1. inst \in Seq(ToSet(inst))
    BY <1>1, InstanceIsSequence DEF IsSequence
  <2> HIDE DEF inst
  <2>2. QED
    BY <2>1, SeqMonotonic
<1>3. root \in Seq(S) /\ static \in Seq(S)
  <2>1. root \in Seq(STRING) /\ static \in Seq(STRING)
    <3>1. <<>> \in Seq(STRING)
      OBVIOUS
    <3>2. RootPath \in Seq(STRING) /\ StaticPrefix \in Seq(STRING)
      BY PrefixAssumption DEF Path
    <3> HIDE DEF inst
    <3>3. QED
      BY <3>1, <3>2, Zenon
  <2> HIDE DEF inst
  <2>2. QED
    BY <2>1, SeqMonotonic
<1>4. StripStaticPrefix(inst) = inst
  BY AnyRouteIsRequested, PrefixAssumption
<1> HIDE DEF S
<1>5. (root \o static) \o inst = root \o (static \o inst)
      /\ static \o inst \in Seq(S)
  <2> HIDE DEF inst
  <2>1. static \o inst \in Seq(S)
    BY <1>2, <1>3, ConcatProperties
  <2>2. (root \o static) \o inst = root \o (static \o inst)
    BY <1>2, <1>3, ConcatAssociative
  <2>3. QED
    BY <2>1, <2>2
<1>6. StripPrefix((root \o static) \o inst, root) = static \o inst
  <2> HIDE DEF inst
  <2>1. QED
    BY <1>3, <1>5, StripWhole
<1>7. StripStaticPrefix(static \o inst) = inst
  <2>1. CASE static = <<>>
    <3>1. static \o inst = inst
      <4> HIDE DEF inst
      <4>1. QED
        BY <1>2, <2>1, ConcatEmptySeq
    <3>2. QED
      BY <1>4, <3>1
  <2>2. CASE static # <<>>
    <3>1. static = StaticPrefix /\ Head(route.path) \in StaticHeads
      BY <2>2
    <3>2. StripPrefix(static \o inst, StaticPrefix) = inst
      <4> HIDE DEF inst
      <4>1. QED
        BY <1>2, <1>3, <3>1, StripWhole
    <3>3. inst = <<>> \/ Head(inst) \in StaticHeads
      <4>1. CASE route.path = <<>>
        BY <4>1, InstanceOfEmpty
      <4>2. CASE route.path # <<>>
        <5>1. Head(route.path) \notin Variables
          BY <3>1 DEF StaticHeads, Variables, PathVariables,
                      SegmentVariables, Decorated
        <5>2. QED
          BY <1>1, <3>1, <4>2, <5>1, HeadOfInstance
      <4>3. QED
        BY <4>1, <4>2
    <3> HIDE DEF inst
    <3>4. QED
      BY <3>2, <3>3, Zenon DEF StripStaticPrefix
  <2>3. QED
    BY <2>1, <2>2
<1>8. QED
  BY <1>6, <1>7 DEF Canonicalize

-----------------------------------------------------------------------------
(* The tables that entries become. *)

(* Exact paths of a table of entries. *)
LiteralKeys(entries) ==
   {<<e.path, e.method>> : e \in {f \in ToSet(entries) : ~Templated(f.path)}}

(* The rules an entry has for an exact path. *)
Exactly(entries, key, rules) ==
   \E e \in ToSet(entries) : /\ ~Templated(e.path)
                             /\ key = <<e.path, e.method>>
                             /\ rules = e.rules

Agree(f, g, key) == f[key] = g[key]

(* The last entries for an exact path win. *)
LEMMA ExactTable ==
  ASSUME NEW table, NEW entries, NEW new, new = AddExact(table, entries),
         NEW key
  PROVE  /\ DOMAIN new = LiteralKeys(entries) \cup DOMAIN table
         /\ key \in LiteralKeys(entries) => Exactly(entries, key, new[key])
         /\ key \in DOMAIN table /\ key \notin LiteralKeys(entries) =>
               Agree(new, table, key)
<1> DEFINE index == ExactOf(entries)
           literal == {i \in DOMAIN entries : ~Templated(entries[i].path)}
           chosen(k) == CHOOSE i \in literal :
                           k = <<entries[i].path, entries[i].method>>
<1>1. LiteralKeys(entries) = {<<entries[i].path, entries[i].method>> : i \in literal}
  BY DEF LiteralKeys, ToSet
<1>2. index = [k \in LiteralKeys(entries) |-> chosen(k)]
  BY <1>1, Zenon DEF ExactOf
<1>3. \A k \in LiteralKeys(entries) :
         chosen(k) \in literal
         /\ k = <<entries[chosen(k)].path, entries[chosen(k)].method>>
  <2> HIDE DEF literal
  <2>1. QED
    BY <1>1, Zenon
<1>4. new = [k \in DOMAIN index \cup DOMAIN table |->
                IF k \in DOMAIN index THEN entries[index[k]].rules ELSE table[k]]
  BY Zenon DEF AddExact
<1> HIDE DEF index
<1>5. DOMAIN index = LiteralKeys(entries)
  BY <1>2
<1>6. new = [k \in LiteralKeys(entries) \cup DOMAIN table |->
                IF k \in LiteralKeys(entries) THEN entries[index[k]].rules
                                              ELSE table[k]]
  BY <1>4, <1>5
<1>7. ASSUME key \in LiteralKeys(entries)
      PROVE  Exactly(entries, key, new[key])
  <2>1. index[key] = chosen(key)
    BY <1>2, <1>7
  <2>2. index[key] \in literal
        /\ key = <<entries[index[key]].path, entries[index[key]].method>>
    BY <1>3, <1>7, <2>1
  <2>3. new[key] = entries[index[key]].rules
    BY <1>6, <1>7
  <2>4. entries[index[key]] \in ToSet(entries)
    BY <2>2 DEF ToSet
  <2>5. QED
    BY <2>2, <2>3, <2>4 DEF Exactly
<1>8. QED
  BY <1>6, <1>7 DEF Agree

(* Templates are appended in their order. *)
LEMMA PatternTable ==
  ASSUME NEW S, NEW table \in Seq(S), NEW entries \in Seq(S)
  PROVE  LET kept == {e \in ToSet(entries) : Templated(e.path)}
         IN /\ Among(entries, kept) \in Seq(S)
            /\ AddPatterns(table, entries) = table \o Among(entries, kept)
            /\ AddPatterns(table, entries) \in Seq(S)
            /\ \A e : e \in ToSet(AddPatterns(table, entries)) <=>
                         \/ e \in ToSet(table)
                         \/ e \in ToSet(entries) /\ Templated(e.path)
<1> DEFINE kept == {e \in ToSet(entries) : Templated(e.path)}
<1>1. AddPatterns(table, entries) = table \o Among(entries, kept)
  BY Zenon DEF AddPatterns
<1>2. /\ Among(entries, kept) \in Seq(S)
      /\ \A e : e \in ToSet(Among(entries, kept)) <=> e \in ToSet(entries)
         /\ e \in kept
  <2> HIDE DEF kept
  <2>1. QED
    BY AmongIsSequence
<1>3. table \o Among(entries, kept) \in Seq(S)
  <2> HIDE DEF kept
  <2>1. QED
    BY <1>2, ConcatProperties
<1>4. ToSet(table \o Among(entries, kept)) = ToSet(table) \cup ToSet(Among(entries, kept))
  <2> HIDE DEF kept
  <2>1. QED
    BY <1>2, ConcatMembers
<1>5. \A e : e \in ToSet(Among(entries, kept)) <=> e \in ToSet(entries)
      /\ Templated(e.path)
  BY <1>2
<1> HIDE DEF kept
<1>6. QED
  BY <1>1, <1>2, <1>3, <1>4, <1>5 DEF kept

(* The path table as entries. *)
LEMMA ExplicitMembers ==
  /\ IsSequence(ExplicitEntries)
  /\ DOMAIN ExplicitEntries = DOMAIN PathRules
  /\ \A i \in DOMAIN PathRules :
        ExplicitEntries[i] = [path |-> PathRules[i].path,
                              method |-> PathRules[i].method,
                              rules |-> PathRules[i].rules, source |-> "explicit"]
  /\ \A e : e \in ToSet(ExplicitEntries) <=>
        \E i \in DOMAIN PathRules : e = ExplicitEntries[i]
<1>1. DOMAIN PathRules = 1..Len(PathRules) /\ Len(PathRules) \in Nat
  BY RulesAssumption
<1>2. /\ DOMAIN ExplicitEntries = DOMAIN PathRules
      /\ \A i \in DOMAIN PathRules :
            ExplicitEntries[i] = [path |-> PathRules[i].path,
                                  method |-> PathRules[i].method,
                                  rules |-> PathRules[i].rules, source |-> "explicit"]
  BY DEF ExplicitEntries
<1>3. ExplicitEntries \in [1..Len(PathRules) -> ToSet(ExplicitEntries)]
  <2>1. \E g : ExplicitEntries = [i \in DOMAIN PathRules |-> g[i]]
    <3> DEFINE g == [i \in DOMAIN PathRules |->
      [path |-> PathRules[i].path, method |-> PathRules[i].method,
       rules |-> PathRules[i].rules, source |-> "explicit"]]
    <3>1. ExplicitEntries = [i \in DOMAIN PathRules |-> g[i]]
      BY DEF ExplicitEntries
    <3> HIDE DEF g
    <3>2. QED
      BY <3>1
  <2>2. QED
    BY <1>1, <2>1 DEF ToSet
<1>4. IsSequence(ExplicitEntries)
  BY <1>1, <1>3 DEF IsSequence
<1>5. \A e : e \in ToSet(ExplicitEntries) <=>
        \E i \in DOMAIN PathRules : e = ExplicitEntries[i]
  BY <1>2 DEF ToSet
<1>6. QED
  BY <1>2, <1>4, <1>5

(* A sequence of routes, each as entries. *)
LEMMA RouteEntriesMembers ==
  ASSUME NEW T, NEW kept \in Seq(T), NEW rules, NEW source,
         \A route \in T : IsFiniteSet(route.methods)
  PROVE  LET entries == FlattenSeq([i \in DOMAIN kept |->
                                       Entries(kept[i], rules[kept[i]], source)])
         IN /\ IsSequence(entries)
            /\ \A e : e \in ToSet(entries) <=>
                  \E r \in ToSet(kept) : \E m \in r.methods \ Implied :
                     e = [path |-> r.path, method |-> m,
                          rules |-> rules[r], source |-> source]
<1> DEFINE seqs == [i \in DOMAIN kept |-> Entries(kept[i], rules[kept[i]], source)]
           S == UNION {ToSet(seqs[i]) : i \in DOMAIN kept}
<1>1. DOMAIN kept = 1..Len(kept) /\ Len(kept) \in Nat
      /\ \A i \in 1..Len(kept) : kept[i] \in T
  OBVIOUS
<1>2. ASSUME NEW i \in DOMAIN kept
      PROVE  /\ seqs[i] \in Seq(ToSet(seqs[i]))
             /\ \A e : e \in ToSet(seqs[i]) <=>
                  \E m \in kept[i].methods \ Implied :
                     e = [path |-> kept[i].path, method |-> m,
                          rules |-> rules[kept[i]], source |-> source]
  <2>1. IsFiniteSet(kept[i].methods)
    BY <1>1
  <2>2. seqs[i] = Entries(kept[i], rules[kept[i]], source)
    OBVIOUS
  <2> HIDE DEF seqs
  <2>3. QED
    BY <2>1, <2>2, EntriesMembers
<1>3. DOMAIN seqs = DOMAIN kept
  OBVIOUS
<1> HIDE DEF seqs
<1>4. ASSUME NEW i \in DOMAIN kept PROVE seqs[i] \in Seq(S)
  <2>1. ToSet(seqs[i]) \subseteq S
    OBVIOUS
  <2> HIDE DEF S
  <2>2. QED
    BY <1>2, <2>1, SeqMonotonic
<1> HIDE DEF S
<1>5. seqs \in Seq(Seq(S))
  <2>1. seqs \in [1..Len(kept) -> Seq(S)]
    BY <1>1, <1>3, <1>4 DEF seqs
  <2>2. QED
    BY <1>1, <2>1
<1>6. /\ FlattenSeq(seqs) \in Seq(S)
      /\ \A e : e \in ToSet(FlattenSeq(seqs)) <=>
                   \E i \in DOMAIN seqs : e \in ToSet(seqs[i])
  BY <1>5, FlattenMembers
<1>7. \A r : r \in ToSet(kept) <=> \E i \in DOMAIN kept : r = kept[i]
  BY DEF ToSet
<1>8. IsSequence(FlattenSeq(seqs))
  BY <1>6, SequenceOf
<1>9. \A e : e \in ToSet(FlattenSeq(seqs)) <=>
          \E r \in ToSet(kept) : \E m \in r.methods \ Implied :
             e = [path |-> r.path, method |-> m,
                  rules |-> rules[r], source |-> source]
  <2> DEFINE Made(r, e) == \E m \in r.methods \ Implied :
                            e = [path |-> r.path, method |-> m,
                                 rules |-> rules[r], source |-> source]
  <2>1. \A i \in DOMAIN kept : \A e : e \in ToSet(seqs[i]) <=> Made(kept[i], e)
    BY <1>2
  <2> HIDE DEF Made
  <2>2. \A e : e \in ToSet(FlattenSeq(seqs))
        <=> \E r \in ToSet(kept) : Made(r, e)
    BY <1>3, <1>6, <1>7, <2>1
  <2>3. QED
    BY <2>2 DEF Made
<1>10. QED
  BY <1>8, <1>9 DEF seqs

LEMMA RoutesAreSequences ==
  ASSUME RoutesInv
  PROVE  /\ routes.protobuf \in Seq(ToSet(ProtobufRoutes))
         /\ routes.flask \in Seq(ToSet(FlaskRoutes))
<1>1. /\ routes.protobuf \in Seq(ToSet(routes.protobuf))
      /\ routes.flask \in Seq(ToSet(routes.flask))
  BY SequenceOf DEF RoutesInv, IsSequence
<1>2. /\ ToSet(routes.protobuf) \subseteq ToSet(ProtobufRoutes)
      /\ ToSet(routes.flask) \subseteq ToSet(FlaskRoutes)
  BY DEF RoutesInv
<1>3. QED
  BY <1>1, <1>2, SeqMonotonic

(* The entries of the protobuf routes with rules of their class. *)
LEMMA ClassMembers ==
  ASSUME RoutesInv
  PROVE  /\ IsSequence(ClassEntries)
         /\ \A e : e \in ToSet(ClassEntries) <=>
              \E r \in ToSet(routes.protobuf) :
                 /\ ~IsUnprotected(r.path)
                 /\ HasHandlerRules(r)
                 /\ \E m \in r.methods \ Implied :
                       e = [path |-> r.path, method |-> m,
                            rules |-> HandlerRules(r), source |-> "class"]
<1> DEFINE T == ToSet(ProtobufRoutes)
           kept == {r \in ToSet(routes.protobuf) :
                      ~IsUnprotected(r.path) /\ HasHandlerRules(r)}
           governed == Among(routes.protobuf, kept)
           rules == [r \in T |-> HandlerRules(r)]
<1>1. routes.protobuf \in Seq(T)
  BY RoutesAreSequences
<1>2. governed \in Seq(T) /\ \A r : r \in ToSet(governed) <=> r \in kept
  <2>1. /\ governed \in Seq(T)
        /\ \A r : r \in ToSet(governed) <=>
                     r \in ToSet(routes.protobuf) /\ r \in kept
    <3> HIDE DEF kept, T
    <3>1. QED
      BY <1>1, AmongIsSequence
  <2>2. QED
    BY <2>1
<1>3. \A r \in T : IsFiniteSet(r.methods)
  BY RoutesAssumption
<1> DEFINE entries == FlattenSeq([i \in DOMAIN governed |->
                         Entries(governed[i], rules[governed[i]], "class")])
<1>4. ClassEntries = entries
  <2>1. ClassEntries = FlattenSeq([i \in DOMAIN governed |->
                         Entries(governed[i], HandlerRules(governed[i]), "class")])
    BY Zenon DEF ClassEntries
  <2>2. \A i \in DOMAIN governed : rules[governed[i]] = HandlerRules(governed[i])
    <3> HIDE DEF governed
    <3>1. \A i \in DOMAIN governed : governed[i] \in T
      BY <1>2
    <3>2. QED
      BY <3>1
  <2> HIDE DEF governed, rules
  <2>3. [i \in DOMAIN governed |-> Entries(governed[i], HandlerRules(governed[i]), "class")]
        = [i \in DOMAIN governed |-> Entries(governed[i], rules[governed[i]], "class")]
    BY <2>2
  <2>4. QED
    BY <2>1, <2>3, Zenon
<1> HIDE DEF T, governed, rules, kept
<1>5. /\ IsSequence(entries)
      /\ \A e : e \in ToSet(entries) <=>
            \E r \in ToSet(governed) : \E m \in r.methods \ Implied :
               e = [path |-> r.path, method |-> m,
                    rules |-> rules[r], source |-> "class"]
  BY <1>2, <1>3, RouteEntriesMembers
<1> HIDE DEF entries
<1>6. \A r \in kept : rules[r] = HandlerRules(r) /\ r \in ToSet(governed)
  BY <1>2, RoutesAreSequences DEF rules, T, kept, RoutesInv
<1>7. \A e : e \in ToSet(entries) <=>
              \E r \in kept : \E m \in r.methods \ Implied :
                       e = [path |-> r.path, method |-> m,
                            rules |-> HandlerRules(r), source |-> "class"]
  BY <1>2, <1>5, <1>6
<1>8. QED
  BY <1>4, <1>5, <1>7 DEF kept

(* The entries of the other routes Flask knows. *)
LEMMA CustomMembers ==
  ASSUME RoutesInv
  PROVE  /\ IsSequence(CustomEntries)
         /\ \A e : e \in ToSet(CustomEntries) <=>
              \E r \in ToSet(routes.flask) \cup ToSet(routes.protobuf) :
                 /\ ~IsUnprotected(r.path)
                 /\ "class" \in DOMAIN r => ~HasHandlerRules(r)
                 /\ \E m \in r.methods \ Implied :
                       e = [path |-> r.path, method |-> m,
                            rules |-> <<>>, source |-> "flask"]
<1> DEFINE T == ToSet(FlaskRoutes) \cup ToSet(ProtobufRoutes)
           registered == routes.flask \o routes.protobuf
           kept == {r \in ToSet(registered) :
                      /\ ~IsUnprotected(r.path)
                      /\ "class" \in DOMAIN r => ~HasHandlerRules(r)}
           custom == Among(registered, kept)
           rules == [r \in T |-> <<>>]
<1>1. routes.protobuf \in Seq(T) /\ routes.flask \in Seq(T)
  <2>1. /\ routes.protobuf \in Seq(ToSet(ProtobufRoutes))
        /\ routes.flask \in Seq(ToSet(FlaskRoutes))
    BY RoutesAreSequences
  <2>2. ToSet(ProtobufRoutes) \subseteq T /\ ToSet(FlaskRoutes) \subseteq T
    OBVIOUS
  <2> HIDE DEF T
  <2>3. QED
    BY <2>1, <2>2, SeqMonotonic
<1>2. /\ registered \in Seq(T)
      /\ ToSet(registered) = ToSet(routes.flask) \cup ToSet(routes.protobuf)
  <2> HIDE DEF T
  <2>1. QED
    BY <1>1, ConcatMembers, ConcatProperties
<1>3. custom \in Seq(T) /\ \A r : r \in ToSet(custom) <=> r \in kept
  <2>1. /\ custom \in Seq(T)
        /\ \A r : r \in ToSet(custom) <=> r \in ToSet(registered) /\ r \in kept
    <3> HIDE DEF kept, T, registered
    <3>1. QED
      BY <1>2, AmongIsSequence
  <2> HIDE DEF registered, custom
  <2>2. QED
    BY <2>1
<1>4. \A r \in T : IsFiniteSet(r.methods)
  BY RoutesAssumption
<1> DEFINE entries == FlattenSeq([i \in DOMAIN custom |->
                         Entries(custom[i], rules[custom[i]], "flask")])
<1>5. CustomEntries = entries
  <2>1. CustomEntries = FlattenSeq([i \in DOMAIN custom |->
                                      Entries(custom[i], <<>>, "flask")])
    BY Zenon DEF CustomEntries
  <2>2. \A i \in DOMAIN custom : rules[custom[i]] = <<>>
    <3> HIDE DEF custom, T
    <3>1. \A i \in DOMAIN custom : custom[i] \in T
      BY <1>3
    <3>2. QED
      BY <3>1
  <2> HIDE DEF custom, rules
  <2>3. [i \in DOMAIN custom |-> Entries(custom[i], <<>>, "flask")]
        = [i \in DOMAIN custom |-> Entries(custom[i], rules[custom[i]], "flask")]
    BY <2>2
  <2>4. QED
    BY <2>1, <2>3, Zenon
<1>6. \A r \in kept : r \in T
  BY <1>2, RoutesAreSequences DEF RoutesInv
<1> HIDE DEF T, custom, rules, kept
<1>7. /\ IsSequence(entries)
      /\ \A e : e \in ToSet(entries) <=>
            \E r \in ToSet(custom) : \E m \in r.methods \ Implied :
               e = [path |-> r.path, method |-> m,
                    rules |-> rules[r], source |-> "flask"]
  BY <1>3, <1>4, RouteEntriesMembers
<1> HIDE DEF entries
<1>8. \A r \in kept : rules[r] = <<>>
  BY <1>6 DEF rules
<1>9. \A e : e \in ToSet(entries) <=>
              \E r \in kept : \E m \in r.methods \ Implied :
                       e = [path |-> r.path, method |-> m,
                            rules |-> <<>>, source |-> "flask"]
  BY <1>3, <1>7, <1>8
<1>10. QED
  <2> HIDE DEF registered
  <2>1. QED
    BY <1>2, <1>5, <1>7, <1>9 DEF kept

-----------------------------------------------------------------------------
(* The startup, step by step. *)

(* The tables after each step of the startup. *)
ClassTables ==
   /\ exact = AddExact(<<>>, ClassEntries)
   /\ patterns = AddPatterns(<<>>, ClassEntries)

ClassParams == RegisterParams(<<>>, ClassEntries)
CustomParams == RegisterParams(ClassParams, CustomEntries)

Compiled ==
   /\ exact = AddExact(AddExact(<<>>, ClassEntries), ExplicitEntries)
   /\ patterns = AddPatterns(AddPatterns(<<>>, ClassEntries), ExplicitEntries)
   /\ params = RegisterParams(CustomParams, ExplicitEntries)

(* What has no rules so far. *)
Lacking == UncoveredProtobuf \cup UncoveredCustom

Compiling ==
   /\ compiling \in {"protobuf", "flask", "explicit", "check", "fastapi",
                 "serving", "failed"}
   /\ compiling = "protobuf" =>
         exact = <<>> /\ patterns = <<>> /\ params = <<>> /\ uncovered = {}
   /\ compiling = "flask" =>
         ClassTables /\ params = ClassParams /\ uncovered = UncoveredProtobuf
   /\ compiling = "explicit" =>
         ClassTables /\ params = CustomParams /\ uncovered = Lacking
   /\ compiling = "check" => Compiled /\ uncovered = Lacking
   /\ compiling \in {"fastapi", "serving"} => Compiled /\ Lacking = {}
   /\ compiling = "serving" => MissingFastApi = {}
   /\ lookup # <<>> => compiling = "serving"

(* What a lookup of an instance of a route found. *)
Answer(route, method, probe) ==
   LET path == Instance(route.path, probe)
   IN [route |-> route.path, method |-> method, probe |-> probe, path |-> path,
       rules |-> FindRules(path, method),
       params |-> FirstMatch(params, path, method)]

Answered ==
   lookup # <<>> =>
      \E route \in ServedRoutes \cup TableRoutes, probe \in Probes :
         \E method \in route.methods \ Implied :
            lookup = <<Answer(route, method, probe)>>

(* The inductive invariant: what each phase of the startup has made of the  *)
(* routes, and that an answer is what the finished tables say.              *)
CompilerInv == RoutesInv /\ Compiling /\ Answered

(* Nothing derived from the routes changes while they do not. *)
LEMMA RoutesStay ==
  ASSUME routes' = routes
  PROVE  /\ RoutesInv' <=> RoutesInv
         /\ ClassEntries' = ClassEntries
         /\ CustomEntries' = CustomEntries
         /\ UncoveredProtobuf' = UncoveredProtobuf
         /\ UncoveredCustom' = UncoveredCustom
         /\ MissingFastApi' = MissingFastApi
         /\ ServedRoutes' = ServedRoutes
<1>1. RoutesInv' <=> RoutesInv
  BY DEF RoutesInv
<1>2. ClassEntries' = ClassEntries
  BY Zenon DEF ClassEntries
<1>3. CustomEntries' = CustomEntries
  BY Zenon DEF CustomEntries
<1>4. UncoveredProtobuf' = UncoveredProtobuf
  BY Zenon DEF UncoveredProtobuf
<1>5. UncoveredCustom' = UncoveredCustom
  BY <1>3, Zenon DEF UncoveredCustom
<1>6. MissingFastApi' = MissingFastApi
  BY Zenon DEF MissingFastApi
<1>7. ServedRoutes' = ServedRoutes
  BY Zenon DEF ServedRoutes
<1>8. QED
  BY <1>1, <1>2, <1>3, <1>4, <1>5, <1>6, <1>7

LEMMA DerivedStay ==
  ASSUME routes' = routes
  PROVE  /\ ClassParams' = ClassParams
         /\ CustomParams' = CustomParams
         /\ Lacking' = Lacking
         /\ exact' = exact
            /\ patterns' = patterns => (ClassTables' <=> ClassTables)
         /\ exact' = exact /\ patterns' = patterns /\ params' = params =>
               (Compiled' <=> Compiled)
BY RoutesStay, Zenon DEF ClassParams, CustomParams, Lacking, ClassTables, Compiled

LEMMA AnswersStay ==
  ASSUME Answered, lookup' = lookup,
         lookup # <<>> => UNCHANGED <<routes, exact, patterns, params>>
  PROVE  Answered'
<1> SUFFICES ASSUME lookup # <<>>
             PROVE  Answered'
  BY DEF Answered
<1>1. UNCHANGED <<routes, exact, patterns, params>>
  OBVIOUS
<1>2. ServedRoutes' = ServedRoutes
  BY <1>1, RoutesStay
<1>3. ASSUME NEW route, NEW method, NEW probe
      PROVE  Answer(route, method, probe)' = Answer(route, method, probe)
  <2>1. \A path : FindRules(path, method)' = FindRules(path, method)
    BY <1>1, Zenon DEF FindRules
  <2>2. QED
    BY <1>1, <2>1, Zenon DEF Answer
<1>4. QED
  BY <1>2, <1>3 DEF Answered

LEMMA InitialCompiler == CompilerInit => CompilerInv
<1> SUFFICES ASSUME CompilerInit PROVE CompilerInv
  OBVIOUS
<1>1. RoutesInv
  BY InitialRoutes
<1>2. Compiling
  BY DEF CompilerInit, Compiling
<1>3. Answered
  BY DEF CompilerInit, Answered
<1>4. QED
  BY <1>1, <1>2, <1>3 DEF CompilerInv

LEMMA CompileProtobufStep ==
  ASSUME CompilerInv, CompileProtobuf PROVE CompilerInv'
<1>1. routes' = routes /\ compiling = "protobuf" /\ compiling' = "flask"
      /\ lookup' = lookup
  BY DEF CompileProtobuf
<1>2. exact = <<>> /\ patterns = <<>> /\ params = <<>> /\ uncovered = {}
      /\ lookup = <<>>
  BY <1>1 DEF CompilerInv, Compiling
<1>3. /\ exact' = AddExact(<<>>, ClassEntries)
      /\ patterns' = AddPatterns(<<>>, ClassEntries)
      /\ params' = ClassParams
      /\ uncovered' = UncoveredProtobuf
  BY <1>2 DEF CompileProtobuf, ClassParams
<1>4. ClassTables' /\ params' = ClassParams' /\ uncovered' = UncoveredProtobuf'
  BY <1>1, <1>3, RoutesStay, DerivedStay DEF ClassTables
<1>5. RoutesInv' /\ Answered'
  BY <1>1, <1>2, RoutesStay, AnswersStay DEF CompilerInv
<1>6. Compiling'
  BY <1>1, <1>2, <1>4 DEF Compiling
<1>7. QED
  BY <1>5, <1>6 DEF CompilerInv

LEMMA CompileFlaskStep ==
  ASSUME CompilerInv, CompileFlask PROVE CompilerInv'
<1>1. /\ UNCHANGED <<routes, exact, patterns, lookup>>
      /\ compiling = "flask" /\ compiling' = "explicit"
  BY DEF CompileFlask
<1>2. /\ ClassTables /\ params = ClassParams /\ uncovered = UncoveredProtobuf
      /\ lookup = <<>>
  BY <1>1 DEF CompilerInv, Compiling
<1>3. params' = CustomParams /\ uncovered' = Lacking
  BY <1>2 DEF CompileFlask, CustomParams, Lacking
<1>4. ClassTables' /\ params' = CustomParams' /\ uncovered' = Lacking'
  BY <1>1, <1>2, <1>3, DerivedStay
<1>5. RoutesInv' /\ Answered'
  BY <1>1, <1>2, RoutesStay, AnswersStay DEF CompilerInv
<1>6. Compiling'
  BY <1>1, <1>2, <1>4 DEF Compiling
<1>7. QED
  BY <1>5, <1>6 DEF CompilerInv

LEMMA CompileExplicitStep ==
  ASSUME CompilerInv, CompileExplicit PROVE CompilerInv'
<1>1. /\ UNCHANGED <<routes, uncovered, lookup>>
      /\ compiling = "explicit" /\ compiling' = "check"
  BY DEF CompileExplicit
<1>2. ClassTables /\ params = CustomParams /\ uncovered = Lacking
      /\ lookup = <<>>
  BY <1>1 DEF CompilerInv, Compiling
<1>3. ExplicitEntries' = ExplicitEntries
  OBVIOUS
<1>4. /\ exact' = AddExact(AddExact(<<>>, ClassEntries), ExplicitEntries)
      /\ patterns' = AddPatterns(AddPatterns(<<>>, ClassEntries), ExplicitEntries)
      /\ params' = RegisterParams(CustomParams, ExplicitEntries)
  BY <1>2 DEF CompileExplicit, ClassTables
<1>5. Compiled' /\ uncovered' = Lacking'
  BY <1>1, <1>2, <1>3, <1>4, RoutesStay, DerivedStay DEF Compiled
<1>6. RoutesInv' /\ Answered'
  BY <1>1, <1>2, RoutesStay, AnswersStay DEF CompilerInv
<1>7. Compiling'
  BY <1>1, <1>2, <1>5 DEF Compiling
<1>8. QED
  BY <1>6, <1>7 DEF CompilerInv

LEMMA PublishStep ==
  ASSUME CompilerInv, Publish PROVE CompilerInv'
<1>1. /\ UNCHANGED <<routes, uncovered, lookup>>
      /\ compiling = "check" /\ compiling' \in {"fastapi", "failed"}
      /\ compiling' = "fastapi" =>
            uncovered = {} /\ UNCHANGED <<exact, patterns, params>>
  BY DEF Publish
<1>2. Compiled /\ uncovered = Lacking /\ lookup = <<>>
  BY <1>1 DEF CompilerInv, Compiling
<1>3. compiling' = "fastapi" => Compiled' /\ Lacking' = {}
  BY <1>1, <1>2, DerivedStay
<1>4. RoutesInv' /\ Answered'
  BY <1>1, <1>2, RoutesStay, AnswersStay DEF CompilerInv
<1>5. Compiling'
  BY <1>1, <1>2, <1>3 DEF Compiling
<1>6. QED
  BY <1>4, <1>5 DEF CompilerInv

LEMMA ValidateFastApiStep ==
  ASSUME CompilerInv, ValidateFastApi PROVE CompilerInv'
<1>1. /\ UNCHANGED <<routes, exact, patterns, params, lookup>>
      /\ compiling = "fastapi" /\ compiling' \in {"serving", "failed"}
      /\ compiling' = "serving" => MissingFastApi = {}
  BY DEF ValidateFastApi
<1>2. Compiled /\ Lacking = {} /\ lookup = <<>>
  BY <1>1 DEF CompilerInv, Compiling
<1>3. Compiled' /\ Lacking' = {} /\ MissingFastApi' = MissingFastApi
  BY <1>1, <1>2, RoutesStay, DerivedStay
<1>4. RoutesInv' /\ Answered'
  BY <1>1, <1>2, RoutesStay, AnswersStay DEF CompilerInv
<1>5. Compiling'
  BY <1>1, <1>2, <1>3 DEF Compiling
<1>6. QED
  BY <1>4, <1>5 DEF CompilerInv

LEMMA RequestStep ==
  ASSUME CompilerInv, Request PROVE CompilerInv'
<1>1. PICK route \in ServedRoutes \cup TableRoutes :
         \E method \in route.methods \ Implied, probe \in Probes,
            root \in {<<>>, RootPath}, static \in {<<>>, StaticPrefix} :
            /\ Head(route.path) \in StaticHeads \/ static = <<>>
            /\ Lookup(route, method, probe, root, static)
  BY Zenon DEF Request
<1>2. PICK method \in route.methods \ Implied, probe \in Probes,
           root \in {<<>>, RootPath}, static \in {<<>>, StaticPrefix} :
            /\ Head(route.path) \in StaticHeads \/ static = <<>>
            /\ Lookup(route, method, probe, root, static)
  BY <1>1
<1>3. route \in AnyRoutes
  BY ServedRoutesAreAny DEF CompilerInv
<1>4. Canonicalize((root \o static) \o Instance(route.path, probe), root)
         = Instance(route.path, probe)
  BY <1>2, <1>3, Canonical
<1>5. /\ UNCHANGED <<compiling, routes, exact, patterns, params, uncovered>>
      /\ compiling = "serving"
      /\ lookup' = <<Answer(route, method, probe)>>
  BY <1>2, <1>4, Zenon DEF Lookup, Answer
<1>6. ServedRoutes' = ServedRoutes /\ RoutesInv'
  BY <1>5, RoutesStay DEF CompilerInv
<1>7. Answer(route, method, probe)' = Answer(route, method, probe)
  <2>1. \A path : FindRules(path, method)' = FindRules(path, method)
    BY <1>5, Zenon DEF FindRules
  <2>2. QED
    BY <1>5, <2>1, Zenon DEF Answer
<1>8. Answered'
  <2>1. lookup' = <<Answer(route, method, probe)'>>
    BY <1>5, <1>7
  <2>2. TableRoutes' = TableRoutes
    OBVIOUS
  <2>3. QED
    BY <1>6, <2>1, <2>2 DEF Answered
<1>9. Compiling'
  BY <1>5, RoutesStay, DerivedStay DEF CompilerInv, Compiling
<1>10. QED
  BY <1>6, <1>8, <1>9 DEF CompilerInv

LEMMA CompilerInvStep == CompilerInv /\ [CompilerNext]_tables => CompilerInv'
<1> SUFFICES ASSUME CompilerInv, [CompilerNext]_tables PROVE CompilerInv'
  OBVIOUS
<1>1. CASE CompileProtobuf
  BY <1>1, CompileProtobufStep
<1>2. CASE CompileFlask
  BY <1>2, CompileFlaskStep
<1>3. CASE CompileExplicit
  BY <1>3, CompileExplicitStep
<1>4. CASE Publish
  BY <1>4, PublishStep
<1>5. CASE ValidateFastApi
  BY <1>5, ValidateFastApiStep
<1>6. CASE Request
  BY <1>6, RequestStep
<1>7. CASE UNCHANGED tables
  <2>1. UNCHANGED <<compiling, routes, exact, patterns, params, uncovered, lookup>>
    BY <1>7 DEF tables
  <2>2. Answered' /\ RoutesInv'
    BY <2>1, RoutesStay, AnswersStay DEF CompilerInv
  <2>3. Compiling'
    BY <2>1, RoutesStay, DerivedStay DEF CompilerInv, Compiling
  <2>4. QED
    BY <2>2, <2>3 DEF CompilerInv
<1>8. QED
  BY <1>1, <1>2, <1>3, <1>4, <1>5, <1>6, <1>7 DEF CompilerNext

LEMMA CompilerInvHolds == CompilerSpec => []CompilerInv
BY InitialCompiler, CompilerInvStep, PTL DEF CompilerSpec

(* The app compiles its tables and looks routes up as RuleCompiler says:   *)
(* validating the GraphQL schema and walking queries never touches them    *)
(* (create_app, middleware.py).                                            *)
THEOREM TablesAreCompiledAsSpecified == AppSpec => CompilerSpec
<1>1. CreateApp => CompilerInit
  BY DEF CreateApp
<1>2. [Step]_allVars => [CompilerNext]_tables
  BY DEF Step, allVars, CompilerNext, ValidateGraphql, RestRequest, GraphqlRequest
<1>3. QED
  BY <1>1, <1>2, PTL DEF AppSpec, CompilerSpec

-----------------------------------------------------------------------------
(* What a process that serves has in its tables. *)

(* Entries of the compiled tables. *)
Entry == ToSet(ClassEntries) \cup ToSet(ExplicitEntries)

LEMMA EntriesHaveRules ==
  ASSUME RoutesInv, NEW e \in Entry
  PROVE  e.rules # <<>>
<1>1. CASE e \in ToSet(ClassEntries)
  <2>1. PICK r \in ToSet(routes.protobuf) :
           HasHandlerRules(r) /\ e.rules = HandlerRules(r)
    BY <1>1, ClassMembers
  <2>2. QED
    BY <2>1, RulesAssumption DEF HasHandlerRules, HandlerRules
<1>2. CASE e \in ToSet(ExplicitEntries)
  <2>1. PICK i \in DOMAIN PathRules : e.rules = PathRules[i].rules
    BY <1>2, ExplicitMembers
  <2>2. PathRules[i] \in ToSet(PathRules)
    BY DEF ToSet
  <2>3. QED
    BY <2>1, <2>2, RulesAssumption
<1>3. QED
  BY <1>1, <1>2 DEF Entry

LEMMA ListedHasEntry ==
  ASSUME NEW path, NEW method, PathEntry(path, method)
  PROVE  \E e \in ToSet(ExplicitEntries) : e.path = path /\ e.method = method
<1>1. PICK i \in DOMAIN PathRules :
         PathRules[i].path = path /\ PathRules[i].method = method
  BY DEF PathEntry
<1>2. ExplicitEntries[i] \in ToSet(ExplicitEntries)
  BY ExplicitMembers
<1>3. QED
  BY <1>1, <1>2, ExplicitMembers

(* With nothing uncovered, every protected route has an entry. *)
LEMMA RoutesAreCovered ==
  ASSUME RoutesInv, Lacking = {}, MissingFastApi = {},
         NEW route \in ServedRoutes \cup TableRoutes,
         NEW method \in route.methods \ Implied,
         ~IsUnprotected(route.path)
  PROVE  \E e \in Entry : e.path = route.path /\ e.method = method
<1>1. ASSUME PathEntry(route.path, method)
      PROVE  \E e \in Entry : e.path = route.path /\ e.method = method
  BY <1>1, ListedHasEntry DEF Entry
<1>2. CASE route \in ToSet(routes.protobuf) /\ HasHandlerRules(route)
  <2> DEFINE e == [path |-> route.path, method |-> method,
                   rules |-> HandlerRules(route), source |-> "class"]
  <2>1. e \in ToSet(ClassEntries)
    BY <1>2, ClassMembers
  <2>2. QED
    BY <2>1 DEF Entry
<1>3. CASE route \in ToSet(routes.protobuf) /\ ~HasHandlerRules(route)
  <2>1. SUFFICES ASSUME ~PathEntry(route.path, method) PROVE FALSE
    BY <1>1
  <2>2. <<route.path, method>> \in MethodsOf(route)
    BY DEF MethodsOf
  <2>3. <<route.path, method>> \in UncoveredProtobuf
    BY <1>3, <2>1, <2>2 DEF UncoveredProtobuf
  <2>4. QED
    BY <2>3 DEF Lacking
<1>4. CASE route \in ToSet(routes.flask)
  <2>1. SUFFICES ASSUME ~PathEntry(route.path, method) PROVE FALSE
    BY <1>1
  <2>2. route \in HttpRoute
    BY <1>4, MemberOf DEF RoutesInv
  <2>3. "class" \notin DOMAIN route
    BY <2>2 DEF HttpRoute
  <2> DEFINE e == [path |-> route.path, method |-> method,
                   rules |-> <<>>, source |-> "flask"]
  <2>4. e \in ToSet(CustomEntries)
    BY <1>4, <2>3, CustomMembers
  <2>5. <<e.path, e.method>> \in UncoveredCustom
    <3>1. ~PathEntry(e.path, e.method)
      BY <2>1
    <3> HIDE DEF e
    <3>2. QED
      BY <2>4, <3>1 DEF UncoveredCustom
  <2>6. QED
    BY <2>5 DEF Lacking
<1>5. CASE route \in {[r EXCEPT !.path = FastApiToTemplate(@)] :
                         r \in ToSet(routes.fastapi)}
  <2>1. SUFFICES ASSUME ~PathEntry(route.path, method) PROVE FALSE
    BY <1>1
  <2> DEFINE key == <<route.path, method>>
  <2>2. key \in MethodsOf(route) /\ key[1] = route.path /\ key[2] = method
    BY DEF MethodsOf
  <2>3. route \in {[q EXCEPT !.path = FastApiToTemplate(q.path)] :
                     q \in ToSet(routes.fastapi)}
    BY <1>5
  <2> HIDE DEF key
  <2>4. key \in MissingFastApi
    BY <2>1, <2>2, <2>3 DEF MissingFastApi
  <2>5. QED
    BY <2>4
<1>6. CASE route \in TableRoutes
  <2>1. PICK f \in ToSet(PathRules) : route = [path |-> f.path, methods |-> {f.method}]
    BY <1>6 DEF TableRoutes
  <2>2. f.path = route.path /\ f.method = method
    BY <2>1
  <2>3. PathEntry(route.path, method)
    BY <2>2 DEF PathEntry, ToSet
  <2>4. QED
    BY <1>1, <2>3
<1>7. QED
  BY <1>2, <1>3, <1>4, <1>5, <1>6 DEF ServedRoutes

(* A path without variables is its only instance. *)
LEMMA LiteralInstance ==
  ASSUME NEW path, IsSequence(path), NEW probe, ~Templated(path)
  PROVE  Instance(path, probe) = path
<1>1. /\ IsSequence(Instance(path, probe))
         /\ Len(Instance(path, probe)) = Len(path)
      /\ DOMAIN path = 1..Len(path)
  BY InstanceIsSequence DEF IsSequence
<1>2. \A i \in DOMAIN path : Instance(path, probe)[i] = path[i]
  BY DEF Instance, Templated
<1>3. DOMAIN Instance(path, probe) = DOMAIN path
  BY DEF Instance
<1>4. QED
  BY <1>2, <1>3 DEF Instance, IsSequence

LEMMA UnprotectedIsLiteral ==
  ASSUME NEW path \in UnprotectedPaths
  PROVE  ~Templated(path)
BY DEF UnprotectedPaths, Templated, Variables, PathVariables,
       SegmentVariables, Decorated, Api3, Ajax3

(* An instance of an unprotected template needs no rules either. *)
LEMMA UnprotectedInstance ==
  ASSUME NEW path, IsSequence(path), NEW probe, IsUnprotected(path)
  PROVE  IsUnprotected(Instance(path, probe))
<1>1. CASE path \in UnprotectedPaths
  BY <1>1, UnprotectedIsLiteral, LiteralInstance DEF IsUnprotected
<1>2. CASE /\ path # <<>>
           /\ \E prefix \in UnprotectedPrefixes : BeginsWith(Head(path), prefix)
  <2>1. Head(path) \notin Variables
    BY <1>2, UnprotectedAssumption
  <2>2. /\ Instance(path, probe) # <<>>
        /\ Head(Instance(path, probe)) = Head(path)
    BY <1>2, <2>1, HeadOfInstance
  <2>3. QED
    BY <1>2, <2>2 DEF IsUnprotected
<1>3. QED
  BY <1>1, <1>2 DEF IsUnprotected

LEMMA SequencesOfEntries ==
  ASSUME RoutesInv
  PROVE  /\ ClassEntries \in Seq(Entry)
         /\ ExplicitEntries \in Seq(Entry)
<1>1. /\ ClassEntries \in Seq(ToSet(ClassEntries))
      /\ ExplicitEntries \in Seq(ToSet(ExplicitEntries))
  BY ClassMembers, ExplicitMembers DEF IsSequence
<1>2. ToSet(ClassEntries) \subseteq Entry
      /\ ToSet(ExplicitEntries) \subseteq Entry
  BY DEF Entry
<1>3. QED
  BY <1>1, <1>2, SeqMonotonic

(* The exact table has the literal paths, the path table first.            *)
LEMMA CompiledExact ==
  ASSUME RoutesInv, Compiled, NEW key
  PROVE  /\ DOMAIN exact = LiteralKeys(ClassEntries) \cup LiteralKeys(ExplicitEntries)
         /\ key \in LiteralKeys(ExplicitEntries) =>
               Exactly(ExplicitEntries, key, exact[key])
         /\ key \in LiteralKeys(ClassEntries) \ LiteralKeys(ExplicitEntries) =>
               Exactly(ClassEntries, key, exact[key])
<1> DEFINE class == AddExact(<<>>, ClassEntries)
<1>1. PICK none : none = <<>>
  OBVIOUS
<1>2. DOMAIN none = {} /\ class = AddExact(none, ClassEntries)
  BY <1>1
<1>3. exact = AddExact(class, ExplicitEntries)
  BY DEF Compiled
<1> HIDE DEF class
<1>4. /\ DOMAIN class = LiteralKeys(ClassEntries) \cup DOMAIN none
      /\ key \in LiteralKeys(ClassEntries) =>
               Exactly(ClassEntries, key, class[key])
  BY <1>2, ExactTable
<1>5. /\ DOMAIN exact = LiteralKeys(ExplicitEntries) \cup DOMAIN class
      /\ key \in LiteralKeys(ExplicitEntries) =>
               Exactly(ExplicitEntries, key, exact[key])
      /\ key \in DOMAIN class /\ key \notin LiteralKeys(ExplicitEntries) =>
            exact[key] = class[key]
  <2>1. DOMAIN exact = LiteralKeys(ExplicitEntries) \cup DOMAIN class
    BY <1>3, ExactTable
  <2>2. key \in LiteralKeys(ExplicitEntries) =>
           Exactly(ExplicitEntries, key, exact[key])
    BY <1>3, ExactTable
  <2>3. key \in DOMAIN class /\ key \notin LiteralKeys(ExplicitEntries) =>
           Agree(exact, class, key)
    BY <1>3, ExactTable
  <2>4. QED
    BY <2>1, <2>2, <2>3 DEF Agree
<1>6. DOMAIN class = LiteralKeys(ClassEntries)
  BY <1>2, <1>4
<1>7. QED
  BY <1>4, <1>5, <1>6

TemplatedIn(entries) == {e \in ToSet(entries) : Templated(e.path)}

(* The patterns are the templates of the classes and then of the path      *)
(* table.                                                                  *)
LEMMA CompiledPatterns ==
  ASSUME RoutesInv, Compiled
  PROVE  /\ patterns = Among(ClassEntries, TemplatedIn(ClassEntries))
                       \o Among(ExplicitEntries, TemplatedIn(ExplicitEntries))
         /\ Among(ClassEntries, TemplatedIn(ClassEntries)) \in Seq(Entry)
         /\ Among(ExplicitEntries, TemplatedIn(ExplicitEntries)) \in Seq(Entry)
         /\ patterns \in Seq(Entry)
         /\ \A e : e \in ToSet(patterns) <=> e \in Entry /\ Templated(e.path)
<1> DEFINE class == AddPatterns(<<>>, ClassEntries)
           c == Among(ClassEntries, TemplatedIn(ClassEntries))
           x == Among(ExplicitEntries, TemplatedIn(ExplicitEntries))
<1>1. ClassEntries \in Seq(Entry) /\ ExplicitEntries \in Seq(Entry)
      /\ <<>> \in Seq(Entry)
  BY SequencesOfEntries
<1>2. /\ c \in Seq(Entry)
      /\ class = <<>> \o c
      /\ class \in Seq(Entry)
      /\ \A e : e \in ToSet(class) <=> \/ e \in ToSet(<<>>)
                                       \/ e \in ToSet(ClassEntries)
                                          /\ Templated(e.path)
  BY <1>1, PatternTable DEF TemplatedIn
<1> HIDE DEF class, c, x
<1>3. class = c
  BY <1>2, ConcatEmptySeq
<1>4. patterns = AddPatterns(class, ExplicitEntries)
  BY DEF Compiled, class
<1>5. /\ x \in Seq(Entry)
      /\ patterns = class \o x
      /\ patterns \in Seq(Entry)
      /\ \A e : e \in ToSet(patterns) <=>
                   \/ e \in ToSet(class)
                   \/ e \in ToSet(ExplicitEntries) /\ Templated(e.path)
  BY <1>1, <1>2, <1>4, PatternTable DEF TemplatedIn, x
<1>6. ToSet(<<>>) = {}
  BY DEF ToSet
<1>7. \A e : e \in ToSet(patterns) <=> e \in Entry /\ Templated(e.path)
  BY <1>2, <1>5, <1>6 DEF Entry
<1>8. QED
  BY <1>2, <1>3, <1>5, <1>7 DEF c, x

(* What a lookup finds: an exact path, or the first pattern that matches.  *)
LEMMA FoundRules ==
  ASSUME RoutesInv, Compiled, NEW path \in Requested, NEW method
  PROVE  LET key == <<path, method>>
             U == Hits(Entry, path, method)
         IN /\ key \in DOMAIN exact =>
                  FindRules(path, method) =
                     <<[path |-> path, method |-> method, rules |-> exact[key],
                        source |-> "exact"]>>
            /\ key \notin DOMAIN exact =>
                  /\ FindRules(path, method) = FirstMatch(patterns, path, method)
                  /\ ToSet(patterns) \cap U # {} =>
                        \E e \in U : /\ FindRules(path, method) = <<e>>
                                     /\ First(patterns, U, e)
                  /\ ToSet(patterns) \cap U = {}
                     => FindRules(path, method) = <<>>
<1> DEFINE key == <<path, method>>
           U == Hits(Entry, path, method)
<1>1. StripStaticPrefix(path) = path
  BY PrefixAssumption
<1>2. FindRules(path, method) =
         IF key \in DOMAIN exact
         THEN <<[path |-> path, method |-> method, rules |-> exact[key],
                 source |-> "exact"]>>
         ELSE FirstMatch(patterns, path, method)
  BY <1>1, Zenon DEF FindRules
<1>3. patterns \in Seq(Entry)
  BY CompiledPatterns
<1>4. /\ \A e : FirstMatch(patterns, path, method) = <<e>>
         <=> First(patterns, U, e)
      /\ FirstMatch(patterns, path, method) # <<>> =>
            \E e : FirstMatch(patterns, path, method) = <<e>>
      /\ FirstMatch(patterns, path, method) = <<>>
         <=> ToSet(patterns) \cap U = {}
  BY <1>3, FirstMatchIsFirst
<1> HIDE DEF U, key
<1>5. \A e : First(patterns, U, e) => e \in U
  BY DEF First
<1>6. ASSUME key \notin DOMAIN exact, ToSet(patterns) \cap U # {}
      PROVE  \E e \in U : FindRules(path, method) = <<e>>
             /\ First(patterns, U, e)
  BY <1>2, <1>4, <1>5, <1>6, Zenon
<1>7. QED
  BY <1>2, <1>4, <1>6 DEF U, key

(* A served route is covered, by its class or by the path table; a literal  *)
(* one has its exact key, a template matches the request.                   *)
LEMMA GovernedInv == CompilerInv => ServedRoutesAreGoverned
<1> SUFFICES ASSUME CompilerInv, lookup # <<>>, Protected
             PROVE  Found # <<>> /\ Found[1].rules # <<>>
  BY DEF ServedRoutesAreGoverned
<1>1. RoutesInv /\ Compiled /\ Lacking = {} /\ MissingFastApi = {}
  BY DEF CompilerInv, Compiling
<1>2. PICK route \in ServedRoutes \cup TableRoutes, probe \in Probes :
         \E method \in route.methods \ Implied :
            lookup = <<Answer(route, method, probe)>>
  BY DEF CompilerInv, Answered
<1>3. PICK method \in route.methods \ Implied :
         lookup = <<Answer(route, method, probe)>>
  BY <1>2
<1> DEFINE path == Instance(route.path, probe)
           key == <<path, method>>
           U == Hits(Entry, path, method)
<1>4. Found = FindRules(path, method) /\ ~IsUnprotected(path)
  BY <1>3 DEF Found, Protected, Answer
<1>5. route \in AnyRoutes /\ path \in Requested /\ IsSequence(route.path)
  BY <1>1, ServedRoutesAreAny, AnyRouteIsRequested, AnyRouteHasPath
<1>6. ~IsUnprotected(route.path)
  BY <1>4, <1>5, UnprotectedInstance
<1>7. PICK e \in Entry : e.path = route.path /\ e.method = method
  BY <1>1, <1>6, RoutesAreCovered
<1> HIDE DEF path
<1>8. CASE key \in DOMAIN exact
  <2>1. \E f \in Entry : exact[key] = f.rules
    <3>1. key \in LiteralKeys(ClassEntries) \cup LiteralKeys(ExplicitEntries)
      BY <1>1, <1>8, CompiledExact
    <3>2. CASE key \in LiteralKeys(ExplicitEntries)
      BY <1>1, <3>2, CompiledExact DEF Entry, Exactly
    <3>3. CASE key \in LiteralKeys(ClassEntries) \ LiteralKeys(ExplicitEntries)
      BY <1>1, <3>3, CompiledExact DEF Entry, Exactly
    <3>4. QED
      BY <3>1, <3>2, <3>3
  <2>2. exact[key] # <<>>
    BY <1>1, <2>1, EntriesHaveRules
  <2>3. Found = <<[path |-> path, method |-> method, rules |-> exact[key],
                   source |-> "exact"]>>
    BY <1>1, <1>4, <1>5, <1>8, FoundRules
  <2>4. QED
    BY <2>2, <2>3
<1>9. CASE key \notin DOMAIN exact
  <2>1. Templated(e.path)
    <3>1. SUFFICES ASSUME ~Templated(e.path) PROVE FALSE
      OBVIOUS
    <3>2. path = e.path
      BY <1>5, <1>7, <3>1, LiteralInstance DEF path
    <3>3. key \in LiteralKeys(ClassEntries) \cup LiteralKeys(ExplicitEntries)
      BY <1>7, <3>1, <3>2 DEF LiteralKeys, Entry
    <3>4. QED
      BY <1>1, <1>9, <3>3, CompiledExact
  <2>2. e \in ToSet(patterns) /\ e \in U
    BY <1>1, <1>5, <1>7, <2>1, CompiledPatterns, InstanceMatches DEF Hits, path
  <2>3. ToSet(patterns) \cap U # {}
    BY <2>2
  <2>4. PICK f \in U : Found = <<f>>
    BY <1>1, <1>4, <1>5, <1>9, <2>3, FoundRules
  <2>5. f \in Entry
    BY DEF Hits
  <2>6. f.rules # <<>>
    BY <1>1, <2>5, EntriesHaveRules
  <2>7. QED
    BY <2>4, <2>6
<1>10. QED
  BY <1>8, <1>9

-----------------------------------------------------------------------------
(* Nested routes. *)

(* A literal path of a class that a path table entry also serves. *)
LEMMA ClassAgrees ==
  ASSUME RoutesInv, NEW i \in DOMAIN PathRules, NEW probe \in Probes,
         Templated(PathRules[i].path), NEW e \in ToSet(ClassEntries),
         e.method = PathRules[i].method,
         Matches(e.path, Instance(PathRules[i].path, probe))
  PROVE  e.rules = PathRules[i].rules
<1>1. PICK r \in ToSet(routes.protobuf), m \in STRING :
         /\ HasHandlerRules(r)
         /\ m \in r.methods
         /\ e = [path |-> r.path, method |-> m,
                 rules |-> HandlerRules(r), source |-> "class"]
  <2>1. PICK r \in ToSet(routes.protobuf) :
           /\ HasHandlerRules(r)
           /\ \E m \in r.methods \ Implied :
                 e = [path |-> r.path, method |-> m,
                      rules |-> HandlerRules(r), source |-> "class"]
    BY ClassMembers
  <2>2. r \in ProtobufRoute
    BY MemberOf DEF RoutesInv
  <2>3. r.methods \subseteq STRING
    BY <2>2 DEF ProtobufRoute
  <2>4. QED
    BY <2>1, <2>3
<1>2. r \in ToSet(ProtobufRoutes)
  BY DEF RoutesInv
<1>3. e.path = r.path /\ e.method = m /\ e.rules = HandlerRules(r)
  BY <1>1
<1>4. HandlerRules(r) = PathRules[i].rules
  BY <1>1, <1>2, <1>3, NestedTemplatesFirst
<1>5. QED
  BY <1>3, <1>4

(* Entries of the path table that apply as well have the same rules. *)
LEMMA ExplicitAgrees ==
  ASSUME NEW i \in DOMAIN PathRules, NEW probe \in Probes,
         NEW j \in DOMAIN PathRules,
         PathRules[j].method = PathRules[i].method,
         \/ /\ Templated(PathRules[j].path) /\ j < i
            /\ Templated(PathRules[i].path)
            /\ Matches(PathRules[j].path, Instance(PathRules[i].path, probe))
         \/ /\ ~Templated(PathRules[j].path)
            /\ PathRules[j].path = Instance(PathRules[i].path, probe)
  PROVE  PathRules[j].rules = PathRules[i].rules
BY NestedTemplatesFirst

(* What is found ahead of an entry of the path table agrees with it, and it *)
(* is found itself otherwise.                                               *)
LEMMA NestedInv == CompilerInv => NestedRoutesWin
<1> SUFFICES ASSUME CompilerInv, lookup # <<>>,
                    NEW i \in DOMAIN PathRules,
                    PathRules[i].path = lookup[1].route,
                    PathRules[i].method = lookup[1].method
             PROVE  Found # <<>> /\ Found[1].rules = PathRules[i].rules
  BY DEF NestedRoutesWin
<1>1. RoutesInv /\ Compiled
  BY DEF CompilerInv, Compiling
<1>2. PICK route \in ServedRoutes \cup TableRoutes, probe \in Probes :
         \E method \in route.methods \ Implied :
            lookup = <<Answer(route, method, probe)>>
  BY DEF CompilerInv, Answered
<1>3. PICK method \in route.methods \ Implied :
         lookup = <<Answer(route, method, probe)>>
  BY <1>2
<1> DEFINE path == Instance(route.path, probe)
           key == <<path, method>>
           U == Hits(Entry, path, method)
           x == ExplicitEntries[i]
<1>4. /\ Found = FindRules(path, method)
      /\ PathRules[i].path = route.path /\ PathRules[i].method = method
  BY <1>3 DEF Found, Answer
<1>5. path \in Requested /\ IsSequence(route.path)
  BY <1>1, ServedRoutesAreAny, AnyRouteIsRequested, AnyRouteHasPath
<1>6. /\ x \in ToSet(ExplicitEntries) /\ x.path = route.path
         /\ x.method = method
      /\ x.rules = PathRules[i].rules
  BY <1>4, ExplicitMembers
<1>7. path = Instance(PathRules[i].path, probe)
  BY <1>4
<1>8. Matches(route.path, path)
  BY <1>5, InstanceMatches
<1> HIDE DEF path
<1>9. CASE ~Templated(route.path)
  <2>1. path = route.path
    BY <1>5, <1>9, LiteralInstance DEF path
  <2>2. key \in LiteralKeys(ExplicitEntries)
    BY <1>6, <1>9, <2>1 DEF LiteralKeys
  <2>3. QED
    <3>1. PICK e \in ToSet(ExplicitEntries) :
             key = <<e.path, e.method>> /\ ~Templated(e.path)
             /\ exact[key] = e.rules
      BY <1>1, <2>2, CompiledExact DEF Exactly
    <3>2. PICK j \in DOMAIN PathRules : e = ExplicitEntries[j]
      BY ExplicitMembers
    <3>3. PathRules[j].rules = PathRules[i].rules
      <4>1. e.path = path /\ e.method = method
        BY <3>1
      <4>2. /\ PathRules[j].path = path /\ PathRules[j].method = method
            /\ ~Templated(PathRules[j].path)
        BY <3>1, <3>2, <4>1, ExplicitMembers
      <4>3. QED
        BY <1>4, <1>7, <4>2, ExplicitAgrees
    <3>4. exact[key] = PathRules[i].rules /\ key \in DOMAIN exact
      BY <1>1, <2>2, <3>1, <3>2, <3>3, CompiledExact, ExplicitMembers
    <3>5. QED
      BY <1>1, <1>4, <1>5, <3>4, FoundRules
<1>10. CASE Templated(route.path) /\ key \in DOMAIN exact
  <2>1. exact[key] = PathRules[i].rules
    <3>1. CASE key \in LiteralKeys(ExplicitEntries)
      <4>1. PICK e \in ToSet(ExplicitEntries) :
               key = <<e.path, e.method>> /\ ~Templated(e.path)
               /\ exact[key] = e.rules
        BY <1>1, <3>1, CompiledExact DEF Exactly
      <4>2. PICK j \in DOMAIN PathRules : e = ExplicitEntries[j]
        BY ExplicitMembers
      <4>3. PathRules[j].rules = PathRules[i].rules
        <5>1. e.path = path /\ e.method = method
          BY <4>1
        <5>2. /\ PathRules[j].path = path /\ PathRules[j].method = method
              /\ ~Templated(PathRules[j].path)
          BY <4>1, <4>2, <5>1, ExplicitMembers
        <5>3. QED
          BY <1>4, <1>7, <5>2, ExplicitAgrees
      <4>4. QED
        BY <4>1, <4>2, <4>3, ExplicitMembers
    <3>2. CASE key \notin LiteralKeys(ExplicitEntries)
      <4>1. PICK e \in ToSet(ClassEntries) :
               key = <<e.path, e.method>> /\ ~Templated(e.path)
               /\ exact[key] = e.rules
        BY <1>1, <1>10, <3>2, CompiledExact DEF Exactly
      <4>2. e.path = path /\ e.method = method
        BY <4>1
      <4>3. IsSequence(path)
        BY <1>5, InstanceIsSequence DEF path
      <4>4. Matches(e.path, path)
        BY <4>1, <4>2, <4>3, InstanceMatches, LiteralInstance
      <4>5. e.rules = PathRules[i].rules
        BY <1>1, <1>4, <1>7, <1>10, <4>2, <4>4, ClassAgrees
      <4>6. QED
        BY <4>1, <4>5
    <3>3. QED
      BY <3>1, <3>2
  <2>2. QED
    BY <1>1, <1>4, <1>5, <1>10, <2>1, FoundRules
<1>11. CASE Templated(route.path) /\ key \notin DOMAIN exact
  <2> DEFINE T1 == TemplatedIn(ClassEntries)
             T3 == TemplatedIn(ExplicitEntries)
  <2>1. x \in Entry /\ x \in U /\ x \in ToSet(patterns) /\ x \in T3
    BY <1>1, <1>6, <1>8, <1>11, CompiledPatterns DEF Hits, Entry, TemplatedIn
  <2>2. ToSet(patterns) \cap U # {}
    BY <2>1
  <2>3. PICK e \in U : Found = <<e>> /\ First(patterns, U, e)
    BY <1>1, <1>4, <1>5, <1>11, <2>2, FoundRules
  <2>4. e.method = method /\ Matches(e.path, path)
    BY DEF Hits
  <2> HIDE DEF U, x
  <2>5. \/ First(Among(ClassEntries, T1), U, e)
        \/ First(Among(ExplicitEntries, T3), U, e)
    <3> DEFINE c == Among(ClassEntries, T1)
               z == Among(ExplicitEntries, T3)
    <3>1. patterns = c \o z /\ c \in Seq(Entry) /\ z \in Seq(Entry)
      BY <1>1, CompiledPatterns
    <3> HIDE DEF c, z
    <3>2. First(c \o z, U, e)
      BY <2>3, <3>1
    <3>3. First(c, U, e) \/ First(z, U, e)
      BY <3>1, <3>2, FirstOfConcat
    <3>4. QED
      BY <3>3 DEF c, z
  <2>6. \/ First(ClassEntries, T1 \cap U, e)
        \/ First(ExplicitEntries, T3 \cap U, e)
    BY <1>1, <2>5, FirstAmong, SequencesOfEntries
  <2>7. CASE First(ClassEntries, T1 \cap U, e)
    <3>1. e \in ToSet(ClassEntries)
      BY <2>7 DEF First, TemplatedIn
    <3>2. e.rules = PathRules[i].rules
      BY <1>1, <1>4, <1>7, <1>11, <2>4, <3>1, ClassAgrees
    <3>3. QED
      BY <2>3, <3>2
  <2>8. CASE First(ExplicitEntries, T3 \cap U, e)
    <3>1. PICK j \in DOMAIN ExplicitEntries :
             /\ ExplicitEntries[j] = e /\ e \in T3
             /\ \A k \in 1..(j - 1) : ExplicitEntries[k] \notin T3 \cap U
      BY <2>8 DEF First
    <3>2. /\ j \in DOMAIN PathRules /\ e.path = PathRules[j].path
          /\ e.method = PathRules[j].method /\ e.rules = PathRules[j].rules
      BY <3>1, ExplicitMembers
    <3>3. i \in Nat /\ j \in Nat /\ i >= 1
      BY <3>2, RulesAssumption
    <3>4. ~(i < j)
      BY <2>1, <3>1, <3>3 DEF x
    <3>5. PathRules[j].rules = PathRules[i].rules
      <4>1. CASE i = j
        BY <4>1
      <4>2. CASE j < i
        <5>1. Templated(PathRules[j].path)
          BY <3>1, <3>2 DEF TemplatedIn
        <5>2. QED
          BY <1>4, <1>7, <1>11, <2>4, <3>2, <4>2, <5>1, ExplicitAgrees
      <4>3. QED
        BY <3>3, <3>4, <4>1, <4>2
    <3>6. QED
      BY <2>3, <3>2, <3>5
  <2>9. QED
    BY <2>6, <2>7, <2>8
<1>12. QED
  BY <1>9, <1>10, <1>11

-----------------------------------------------------------------------------
(* Path parameters. *)

RouteKey(e) == [path |-> e.path, method |-> e.method]

(* The keys of entries, in the order of the entries. *)
LEMMA KeysOfEntries ==
  ASSUME NEW S, NEW entries \in Seq(S)
  PROVE  /\ Keys(entries) \in Seq({RouteKey(e) : e \in S})
         /\ DOMAIN Keys(entries) = DOMAIN entries
         /\ \A i \in DOMAIN entries : Keys(entries)[i] = RouteKey(entries[i])
         /\ \A k : k \in ToSet(Keys(entries)) <=>
                      \E e \in ToSet(entries) : k = RouteKey(e)
<1>1. DOMAIN entries = 1..Len(entries) /\ Len(entries) \in Nat
      /\ \A i \in 1..Len(entries) : entries[i] \in S
  OBVIOUS
<1>2. Keys(entries) = [i \in DOMAIN entries |-> RouteKey(entries[i])]
  BY Zenon DEF Keys, RouteKey
<1>3. /\ DOMAIN Keys(entries) = DOMAIN entries
      /\ \A i \in DOMAIN entries : Keys(entries)[i] = RouteKey(entries[i])
  BY <1>2
<1>4. Keys(entries) \in [1..Len(entries) -> {RouteKey(e) : e \in S}]
  BY <1>1, <1>2
<1>5. QED
  BY <1>1, <1>3, <1>4 DEF ToSet

(* The keys that registering entries adds to those that are known. *)
Unknown(known, entries) ==
   {k \in ToSet(Keys(entries)) : Templated(k.path) /\ k \notin ToSet(known)}

NewKeys(known, entries) == Among(Keys(entries), Unknown(known, entries))

LEMMA ParamTable ==
  ASSUME NEW K, NEW known \in Seq(K), NEW entries, Keys(entries) \in Seq(K)
  PROVE  /\ RegisterParams(known, entries) = known \o NewKeys(known, entries)
         /\ NewKeys(known, entries) \in Seq(K)
         /\ RegisterParams(known, entries) \in Seq(K)
<1>1. RegisterParams(known, entries) = known \o NewKeys(known, entries)
  BY Zenon DEF RegisterParams, NewKeys, Unknown
<1>2. NewKeys(known, entries) \in Seq(K)
  BY AmongIsSequence DEF NewKeys
<1>3. QED
  BY <1>1, <1>2, ConcatProperties

(* The first of the templates that match is also the first of their keys,  *)
(* unless a key that matches is known.                                     *)
LEMMA KeysInOrder ==
  ASSUME NEW S, NEW entries \in Seq(S), NEW K, {RouteKey(f) : f \in S} \subseteq K,
         NEW known, NEW path, NEW method,
         ToSet(known) \cap Hits(K, path, method) = {}
  PROVE  /\ \A e : First(entries, TemplatedIn(entries) \cap Hits(S, path, method), e)
                     => First(NewKeys(known, entries), Hits(K, path, method), RouteKey(e))
         /\ TemplatedIn(entries) \cap Hits(S, path, method) = {} =>
               ToSet(NewKeys(known, entries)) \cap Hits(K, path, method) = {}
<1> DEFINE U == TemplatedIn(entries) \cap Hits(S, path, method)
           W == Hits(K, path, method)
           V == Unknown(known, entries) \cap W
           keys == Keys(entries)
<1>1. /\ keys \in Seq({RouteKey(f) : f \in S})
      /\ DOMAIN keys = DOMAIN entries
      /\ \A i \in DOMAIN entries : keys[i] = RouteKey(entries[i])
      /\ \A k : k \in ToSet(keys) <=> \E f \in ToSet(entries) : k = RouteKey(f)
  BY KeysOfEntries
<1>2. /\ DOMAIN entries = 1..Len(entries)
      /\ \A i \in DOMAIN entries : entries[i] \in S
         /\ entries[i] \in ToSet(entries)
  BY DEF ToSet
<1>3. ASSUME NEW f \in ToSet(entries)
      PROVE  RouteKey(f) \in V <=> f \in U
  <2>1. f \in S /\ RouteKey(f) \in ToSet(keys)
    BY <1>1, MemberOf
  <2>2. RouteKey(f) \in K /\ RouteKey(f).path = f.path
        /\ RouteKey(f).method = f.method
    BY <2>1 DEF RouteKey
  <2>3. RouteKey(f) \in W <=> f \in Hits(S, path, method)
    BY <2>1, <2>2 DEF Hits
  <2>4. f \in TemplatedIn(entries) <=> Templated(RouteKey(f).path)
    BY <2>2 DEF TemplatedIn
  <2> HIDE DEF keys, W
  <2>5. RouteKey(f) \in W => RouteKey(f) \notin ToSet(known)
    BY DEF W
  <2>6. QED
    BY <2>1, <2>3, <2>4, <2>5 DEF Unknown, keys
<1> HIDE DEF U, V, keys
<1>4. ASSUME NEW e, First(entries, U, e)
      PROVE  First(keys, V, RouteKey(e))
  <2>1. PICK i \in DOMAIN entries : /\ entries[i] = e /\ e \in U
                                    /\ \A j \in 1..(i - 1) : entries[j] \notin U
    BY <1>4 DEF First
  <2>2. keys[i] = RouteKey(e) /\ RouteKey(e) \in V
    BY <1>1, <1>2, <1>3, <2>1
  <2>3. ASSUME NEW j \in 1..(i - 1) PROVE keys[j] \notin V
    <3>1. j \in DOMAIN entries
      BY <1>2, <2>1
    <3>2. entries[j] \notin U
      BY <2>1
    <3>3. QED
      BY <1>1, <1>2, <1>3, <3>1, <3>2
  <2>4. QED
    BY <1>1, <2>1, <2>2, <2>3 DEF First
<1>5. \A k : First(NewKeys(known, entries), W, k) <=> First(keys, V, k)
  <2> HIDE DEF W
  <2>1. QED
    BY <1>1, FirstAmong DEF NewKeys, V, keys
<1>6. ASSUME U = {} PROVE ToSet(NewKeys(known, entries)) \cap W = {}
  <2>1. SUFFICES ASSUME NEW k \in ToSet(NewKeys(known, entries)), k \in W
                 PROVE  FALSE
    OBVIOUS
  <2> HIDE DEF W
  <2>2. k \in ToSet(keys) /\ k \in V
    BY <1>1, <2>1, AmongIsSequence DEF NewKeys, V, keys
  <2>3. QED
    BY <1>1, <1>3, <1>6, <2>2
<1>7. QED
  BY <1>4, <1>5, <1>6 DEF U

ParamKey == {RouteKey(e) : e \in Entry \cup ToSet(CustomEntries)}

ClassKeys == NewKeys(<<>>, ClassEntries)
CustomKeys == NewKeys(ClassParams, CustomEntries)
ExplicitKeys == NewKeys(CustomParams, ExplicitEntries)

LEMMA CompiledParams ==
  ASSUME RoutesInv, Compiled
  PROVE  /\ ClassKeys \in Seq(ParamKey) /\ CustomKeys \in Seq(ParamKey)
            /\ ExplicitKeys \in Seq(ParamKey)
         /\ ClassParams = ClassKeys
         /\ CustomParams = ClassKeys \o CustomKeys
         /\ CustomParams \in Seq(ParamKey)
         /\ params = CustomParams \o ExplicitKeys
         /\ params \in Seq(ParamKey)
<1> DEFINE All == Entry \cup ToSet(CustomEntries)
<1>1. ClassEntries \in Seq(All) /\ ExplicitEntries \in Seq(All)
      /\ CustomEntries \in Seq(All)
  <2>1. CustomEntries \in Seq(ToSet(CustomEntries))
    BY CustomMembers DEF IsSequence
  <2>2. Entry \subseteq All /\ ToSet(CustomEntries) \subseteq All
    OBVIOUS
  <2> HIDE DEF All
  <2>3. QED
    BY <2>1, <2>2, SequencesOfEntries, SeqMonotonic
<1>2. ParamKey = {RouteKey(e) : e \in All}
  BY DEF ParamKey
<1> HIDE DEF All
<1>3. /\ Keys(ClassEntries) \in Seq(ParamKey)
         /\ Keys(ExplicitEntries) \in Seq(ParamKey)
      /\ Keys(CustomEntries) \in Seq(ParamKey)
  BY <1>1, <1>2, KeysOfEntries
<1>4. ClassKeys \in Seq(ParamKey) /\ ClassParams = <<>> \o ClassKeys
      /\ ClassParams \in Seq(ParamKey)
  <2>1. <<>> \in Seq(ParamKey)
    OBVIOUS
  <2>2. QED
    BY <1>3, <2>1, ParamTable DEF ClassParams, ClassKeys
<1>5. ClassParams = ClassKeys
  BY <1>4, ConcatEmptySeq
<1>6. /\ CustomKeys \in Seq(ParamKey)
         /\ CustomParams = ClassParams \o CustomKeys
      /\ CustomParams \in Seq(ParamKey)
  BY <1>3, <1>4, ParamTable DEF CustomParams, CustomKeys
<1>7. /\ ExplicitKeys \in Seq(ParamKey) /\ params = CustomParams \o ExplicitKeys
      /\ params \in Seq(ParamKey)
  BY <1>3, <1>6, ParamTable DEF Compiled, ExplicitKeys
<1>8. QED
  BY <1>4, <1>5, <1>6, <1>7

(* The key of a custom route that is the first to match has the template   *)
(* of the first pattern of the path table that matches.                    *)
LEMMA CustomKeyAgrees ==
  ASSUME RoutesInv, Compiled, NEW path \in Requested, NEW method, NEW e, NEW k,
         First(ExplicitEntries,
               TemplatedIn(ExplicitEntries) \cap Hits(Entry, path, method), e),
         k \in ToSet(CustomKeys), k \in Hits(ParamKey, path, method)
  PROVE  k.path = e.path
<1> DEFINE U == Hits(Entry, path, method)
           T == TemplatedIn(ExplicitEntries)
<1>1. Templated(k.path) /\ \E f \in ToSet(CustomEntries) : k = RouteKey(f)
  <2>1. IsSequence(CustomEntries)
    BY CustomMembers
  <2>2. CustomEntries \in Seq(ToSet(CustomEntries))
    BY <2>1 DEF IsSequence
  <2>3. /\ Keys(CustomEntries) \in Seq({RouteKey(f) : f \in ToSet(CustomEntries)})
        /\ \A x : x \in ToSet(Keys(CustomEntries)) <=>
                     \E f \in ToSet(CustomEntries) : x = RouteKey(f)
    BY <2>2, KeysOfEntries
  <2>4. k \in ToSet(Keys(CustomEntries))
        /\ k \in Unknown(ClassParams, CustomEntries)
    BY <2>3, AmongIsSequence DEF CustomKeys, NewKeys
  <2>5. QED
    BY <2>3, <2>4 DEF Unknown
<1>2. PICK f \in ToSet(CustomEntries) : k = RouteKey(f)
  BY <1>1
<1>3. k.method = method /\ Matches(k.path, path) /\ k.path = f.path
      /\ k.method = f.method
  BY <1>2 DEF Hits, RouteKey
<1>4. PICK r \in ToSet(routes.flask) \cup ToSet(routes.protobuf) :
         /\ "class" \in DOMAIN r => ~HasHandlerRules(r)
         /\ \E m \in r.methods \ Implied :
               f = [path |-> r.path, method |-> m, rules |-> <<>>, source |-> "flask"]
  BY CustomMembers
<1>5. r.path = k.path /\ method \in r.methods
  BY <1>3, <1>4
<1>6. r \in ToSet(FlaskRoutes) \cup ToSet(ProtobufRoutes)
  BY DEF RoutesInv
<1>7. PICK j \in DOMAIN ExplicitEntries :
         /\ ExplicitEntries[j] = e /\ e \in T \cap U
         /\ \A i \in 1..(j - 1) : ExplicitEntries[i] \notin T \cap U
  BY DEF First
<1>8. /\ j \in DOMAIN PathRules /\ e.path = PathRules[j].path
      /\ e.method = PathRules[j].method
  BY <1>7, ExplicitMembers
<1>9. Templated(PathRules[j].path) /\ PathRules[j].method = method
      /\ Matches(PathRules[j].path, path)
  BY <1>7, <1>8 DEF Hits, TemplatedIn
<1>10. PICK i \in 1..j : PathRules[i].path = r.path
            /\ PathRules[i].method = method
  <2>1. Templated(r.path) /\ Matches(r.path, path)
    BY <1>1, <1>3, <1>5
  <2>2. PathRules[j].method \in r.methods
    BY <1>5, <1>9
  <2>3. \E i \in 1..j : /\ PathRules[i].path = r.path
                        /\ PathRules[i].method = PathRules[j].method
    BY <1>4, <1>6, <1>8, <1>9, <2>1, <2>2, CustomTemplatesFirst
  <2>4. QED
    BY <1>9, <2>3
<1>11. DOMAIN PathRules = 1..Len(PathRules) /\ Len(PathRules) \in Nat
  BY RulesAssumption
<1>12. i \in DOMAIN PathRules /\ i \in Nat /\ j \in Nat
  BY <1>8, <1>11
<1> DEFINE x == ExplicitEntries[i]
<1>13. x \in ToSet(ExplicitEntries) /\ x.path = r.path /\ x.method = method
  BY <1>10, <1>12, ExplicitMembers
<1>14. x \in T \cap U
  BY <1>1, <1>3, <1>5, <1>13 DEF Hits, TemplatedIn, Entry
<1> HIDE DEF T, U
<1>15. i = j
  BY <1>7, <1>12, <1>14
<1>16. QED
  BY <1>5, <1>8, <1>10, <1>15

(* What the two tables have first, pattern and key, has the same template. *)
LEMMA KeyOfFirstPattern ==
  ASSUME RoutesInv, Compiled, NEW path \in Requested, NEW method, NEW e,
         First(patterns, Hits(Entry, path, method), e)
  PROVE  \E k : First(params, Hits(ParamKey, path, method), k)
         /\ k.path = e.path
<1> DEFINE U == Hits(Entry, path, method)
           W == Hits(ParamKey, path, method)
           T1 == TemplatedIn(ClassEntries)
           T3 == TemplatedIn(ExplicitEntries)
           c == Among(ClassEntries, T1)
           z == Among(ExplicitEntries, T3)
<1>1. patterns = c \o z /\ c \in Seq(Entry) /\ z \in Seq(Entry)
  BY CompiledPatterns
<1>2. ClassEntries \in Seq(Entry) /\ ExplicitEntries \in Seq(Entry)
  BY SequencesOfEntries
<1>3. {RouteKey(f) : f \in Entry} \subseteq ParamKey
  BY DEF ParamKey
<1>4. /\ ClassKeys \in Seq(ParamKey) /\ CustomKeys \in Seq(ParamKey)
         /\ ExplicitKeys \in Seq(ParamKey)
      /\ CustomParams = ClassKeys \o CustomKeys
         /\ CustomParams \in Seq(ParamKey)
      /\ params = CustomParams \o ExplicitKeys
  BY CompiledParams
<1>5. /\ First(c, U, e) <=> First(ClassEntries, T1 \cap U, e)
      /\ First(z, U, e) <=> First(ExplicitEntries, T3 \cap U, e)
      /\ \A f : f \in ToSet(c) <=> f \in ToSet(ClassEntries) /\ f \in T1
  BY <1>2, FirstAmong, AmongIsSequence
<1>6. \/ First(c, U, e)
      \/ ToSet(c) \cap U = {} /\ First(z, U, e)
  <2> HIDE DEF c, z, U
  <2>1. First(c \o z, U, e)
    BY <1>1 DEF U
  <2>2. QED
    BY <1>1, <2>1, FirstOfConcat
<1>7. \A f : RouteKey(f).path = f.path
  BY DEF RouteKey
<1>8. /\ First(ClassEntries, T1 \cap U, e) => First(ClassKeys, W, RouteKey(e))
      /\ T1 \cap U = {} => ToSet(ClassKeys) \cap W = {}
  <2>1. ToSet(<<>>) \cap W = {}
    BY DEF ToSet
  <2>2. QED
    BY <1>2, <1>3, <2>1, KeysInOrder DEF ClassKeys
<1>9. ToSet(CustomParams) = ToSet(ClassKeys) \cup ToSet(CustomKeys)
  BY <1>4, ConcatMembers
<1>10. \A k : First(ClassKeys, W, k) => First(params, W, k)
  <2> HIDE DEF W
  <2>1. \A k : First(ClassKeys, W, k) => First(CustomParams, W, k)
    BY <1>4, FirstOfConcat
  <2>2. \A k : First(CustomParams, W, k) => First(params, W, k)
    BY <1>4, FirstOfConcat
  <2>3. QED
    BY <2>1, <2>2
<1>11. CASE First(c, U, e)
  <2>1. First(params, W, RouteKey(e))
    BY <1>5, <1>8, <1>10, <1>11
  <2>2. QED
    BY <1>7, <2>1
<1>12. CASE ToSet(c) \cap U = {} /\ First(z, U, e)
  <2>1. T1 \cap U = {}
    <3>1. T1 \subseteq ToSet(ClassEntries)
      BY DEF TemplatedIn
    <3> HIDE DEF T1, U, c, z
    <3>2. QED
      BY <1>5, <1>12, <3>1
  <2>2. ToSet(ClassKeys) \cap W = {}
    BY <1>8, <2>1
  <2>3. First(ExplicitEntries, T3 \cap U, e)
    BY <1>5, <1>12
  <2>4. CASE ToSet(CustomKeys) \cap W # {}
    <3>1. PICK k : First(CustomKeys, W, k)
      BY <1>4, <2>4, FirstMatchIsFirst
    <3>2. k \in ToSet(CustomKeys) /\ k \in W
      BY <3>1 DEF First, ToSet
    <3>3. k.path = e.path
      BY <2>3, <3>2, CustomKeyAgrees
    <3> HIDE DEF W
    <3>4. First(CustomParams, W, k)
      BY <1>4, <2>2, <3>1, FirstOfConcat
    <3>5. First(params, W, k)
      BY <1>4, <3>4, FirstOfConcat
    <3>6. QED
      BY <3>3, <3>5 DEF W
  <2>5. CASE ToSet(CustomKeys) \cap W = {}
    <3>1. ToSet(CustomParams) \cap W = {}
      BY <1>9, <2>2, <2>5
    <3>2. First(ExplicitKeys, W, RouteKey(e))
      BY <1>2, <1>3, <2>3, <3>1, KeysInOrder DEF ExplicitKeys
    <3> HIDE DEF W
    <3>3. First(params, W, RouteKey(e))
      BY <1>4, <3>1, <3>2, FirstOfConcat
    <3>4. QED
      BY <1>7, <3>3 DEF W
  <2>6. QED
    BY <2>4, <2>5
<1>13. QED
  BY <1>6, <1>11, <1>12

LEMMA ParamsInv == CompilerInv => ParamsFromGoverningRoute
<1> SUFFICES ASSUME CompilerInv, lookup # <<>>, Found # <<>>,
                    Found[1].source # "exact"
             PROVE  /\ lookup[1].params # <<>>
                    /\ lookup[1].params[1].path = Found[1].path
  BY DEF ParamsFromGoverningRoute
<1>1. RoutesInv /\ Compiled
  BY DEF CompilerInv, Compiling
<1>2. PICK route \in ServedRoutes \cup TableRoutes, probe \in Probes :
         \E method \in route.methods \ Implied :
            lookup = <<Answer(route, method, probe)>>
  BY DEF CompilerInv, Answered
<1>3. PICK method \in route.methods \ Implied :
         lookup = <<Answer(route, method, probe)>>
  BY <1>2
<1> DEFINE path == Instance(route.path, probe)
           key == <<path, method>>
           U == Hits(Entry, path, method)
           W == Hits(ParamKey, path, method)
<1>4. /\ Found = FindRules(path, method)
      /\ lookup[1].params = FirstMatch(params, path, method)
  BY <1>3 DEF Found, Answer
<1>5. path \in Requested
  BY <1>1, ServedRoutesAreAny, AnyRouteIsRequested
<1> HIDE DEF path
<1>6. key \notin DOMAIN exact
  BY <1>1, <1>4, <1>5, FoundRules
<1>7. PICK e \in U : Found = <<e>> /\ First(patterns, U, e)
  BY <1>1, <1>4, <1>5, <1>6, FoundRules
<1>8. PICK k : First(params, W, k) /\ k.path = e.path
  BY <1>1, <1>5, <1>7, KeyOfFirstPattern
<1>9. FirstMatch(params, path, method) = <<k>>
  BY <1>1, <1>8, CompiledParams, FirstMatchIsFirst
<1>10. QED
  BY <1>4, <1>7, <1>8, <1>9

(* Once the app serves, a request for any protected route finds rules, for *)
(* all routes MLflow may register, whichever of them this version has and  *)
(* whatever prefixes are put in front (auth/compiler.py).                  *)
THEOREM RoutesAreGoverned == AppSpec => []ServedRoutesAreGoverned
BY TablesAreCompiledAsSpecified, CompilerInvHolds, GovernedInv, PTL

(* A request for an entry of the path table is decided by the rules of     *)
(* that entry, whatever other templates match the path: compiling keeps    *)
(* the order of the table (_find_authorization_rules, auth/compiler.py).   *)
THEOREM NestedWin == AppSpec => []NestedRoutesWin
BY TablesAreCompiledAsSpecified, CompilerInvHolds, NestedInv, PTL

(* The first path parameter pattern that matches has the template of the   *)
(* rules that decide, though the two lists are built separately and routes *)
(* are registered ahead in one of them (_extract_path_params).             *)
THEOREM ParamsAgree == AppSpec => []ParamsFromGoverningRoute
BY TablesAreCompiledAsSpecified, CompilerInvHolds, ParamsInv, PTL

=============================================================================
