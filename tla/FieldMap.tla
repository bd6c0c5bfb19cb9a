----------------------------- MODULE FieldMap -----------------------------
(***************************************************************************)
(* The fields of a point or a line: mdk::Map (Map.cpp, Tree.cpp, Link.cpp) *)
(* and the update that SetPoint and CreateLine make of it                  *)
(* (Point::UpdateFields, and Line::UpdateFields, which is the same code).  *)
(*                                                                         *)
(* A map keeps its elements in a list, in the order of insertion.  They    *)
(* enter a binary search tree, in random order, only when something is     *)
(* looked for; then of two with the same key the older one is dropped.     *)
(* The tree is never balanced and no element is ever deleted.              *)
(***************************************************************************)
EXTENDS Naturals, Sequences, FiniteSets

CONSTANTS
  Keys, Values,
  TooBig,       \* values longer than maxFieldSize
  Sides,        \* left and right
  Turn,         \* Turn[k][node]: the sign of keycmp, for different keys
  MaxFields,    \* maxFieldCount
  MaxWaiting,   \* elements outside the tree at which insert does not wait: 100000
  MaxElements,  \* bound of the model: insertions
  MaxUpdate,    \* bound of the model: fields of a request
  NoField

\* keycmp subtracts unsigned hash values: Turn need not be an order.
ASSUME FieldAssumption ==
  /\ Turn \in [Keys -> [Keys -> Sides]]
  /\ TooBig \subseteq Values
  /\ MaxFields \in Nat /\ MaxWaiting \in Nat \ {0} /\ MaxElements \in Nat /\ MaxUpdate \in Nat
  /\ NoField \notin Keys \union Values \union [e : Nat, key : Keys, at : Nat]

FieldData == [key : Keys, value : Values]

VARIABLES
  elements, \* all elements inserted, by m_insertIndex
  link,     \* m_container: the elements in the list, in the order of their index
  searched, \* m_unsearcher: elements up to this one have been sent to the tree
  shuffled, \* those on their way to it, in insertR
  nodes,    \* the tree: element, children (0 for none) and, for the proof, the turns
            \* that lead to the node
  walk,     \* the walk down the tree: element (0 in findNode), key and node, or NoField
  sought,   \* key that find is called for, or NoField
  found,    \* what find has returned: the key and its element, 0 for end(), or NoField
  update,   \* UpdateFields in the middle: fields, step, position, count, or NoField
  latest    \* the value each key was last given (history)

mapVars == <<elements, link, searched, shuffled, nodes, walk, sought, found>>
fieldVars == <<mapVars, update, latest>>

Key(e)   == elements[e].key
Still    == shuffled = {} /\ walk = NoField /\ sought = NoField
Calm     == Still /\ found = NoField /\ update = NoField

FieldInit ==
  /\ elements = <<>> /\ link = {} /\ searched = 0 /\ shuffled = {} /\ nodes = <<>>
  /\ walk = NoField /\ sought = NoField /\ found = NoField /\ update = NoField
  /\ latest = [k \in Keys |-> NoField]

(* insertR: everything the list has more than the tree is sent there.      *)
InsertR(last) == shuffled' = searched + 1 .. last /\ searched' = last

(* The list gets the element at its end.                                   *)
Linked(e) == link \union {e}

(* Map::insert.  The first element goes to the tree at once, the others    *)
(* when there are many or something is looked for.                         *)
Insert(field) == LET e == Len(elements) + 1 IN
  /\ e <= MaxElements
  /\ elements' = Append(elements, field)
  /\ link' = Linked(e)
  /\ latest' = [latest EXCEPT ![field.key] = field.value]
  /\ IF link = {} \/ e - searched >= MaxWaiting THEN InsertR(e) ELSE UNCHANGED <<shuffled, searched>>
  /\ UNCHANGED <<nodes, walk, sought>>

(* A field read from a message or a record is inserted as it comes.        *)
Put(field) ==
  /\ Calm
  /\ Insert(field)
  /\ UNCHANGED <<found, update>>

(* size and begin, for the list.                                           *)
Begin ==
  /\ Calm /\ searched < Len(elements)
  /\ InsertR(Len(elements))
  /\ UNCHANGED <<elements, link, nodes, walk, sought, found, update, latest>>

Find(k) ==
  /\ Still /\ found = NoField
  /\ sought' = k
  /\ InsertR(Len(elements))
  /\ UNCHANGED <<elements, link, nodes, walk, found>>

(***************************************************************************)
(* Tree::insert, for the next of the shuffled elements, and findNode.      *)
(***************************************************************************)
Node(e, turns) == [e |-> e, child |-> [d \in Sides |-> 0], turns |-> turns]

(* The next element comes to the root of the tree, or becomes it.          *)
NextElement(e) ==
  /\ walk = NoField /\ e \in shuffled
  /\ shuffled' = shuffled \ {e}
  /\ IF nodes = <<>> THEN nodes' = <<Node(e, {})>> /\ UNCHANGED walk
                     ELSE walk' = [e |-> e, key |-> Key(e), at |-> 1] /\ UNCHANGED nodes
  /\ UNCHANGED <<elements, link, searched, sought, found, update, latest>>

FindNode ==
  /\ walk = NoField /\ shuffled = {} /\ sought # NoField
  /\ walk' = [e |-> 0, key |-> sought, at |-> IF nodes = <<>> THEN 0 ELSE 1]
  /\ UNCHANGED <<elements, link, searched, shuffled, nodes, sought, found, update, latest>>

Here  == nodes[walk.at]
Side  == Turn[walk.key][Key(Here.e)]   \* keycmp
Child == Here.child[Side]

\* keycmp is not 0, and there is a node on that side.
Descend ==
  /\ walk # NoField /\ walk.at # 0 /\ Key(Here.e) # walk.key /\ Child # 0
  /\ walk' = [walk EXCEPT !.at = Child]
  /\ UNCHANGED <<elements, link, searched, shuffled, nodes, sought, found, update, latest>>

\* There is none: the element gets a node of its own.
Attach ==
  /\ walk # NoField /\ walk.e # 0 /\ Key(Here.e) # walk.key /\ Child = 0
  /\ nodes' = Append([nodes EXCEPT ![walk.at].child[Side] = Len(nodes) + 1],
                     Node(walk.e, Here.turns \union {<<walk.at, Side>>}))
  /\ walk' = NoField
  /\ UNCHANGED <<elements, link, searched, shuffled, sought, found, update, latest>>

(* Two elements have the same key: the tree and the list keep the one that *)
(* was inserted later, in whatever order they come.                        *)
Drop(old) == link' = link \ {old} /\ walk' = NoField

ReplaceAlways ==  \* mutant of Replace: the one that comes later stays
  /\ walk # NoField /\ walk.e # 0 /\ Key(Here.e) = walk.key
  /\ nodes' = [nodes EXCEPT ![walk.at].e = walk.e] /\ Drop(Here.e)
  /\ UNCHANGED <<elements, searched, shuffled, sought, found, update, latest>>

Replace ==
  /\ walk # NoField /\ walk.e # 0 /\ Key(Here.e) = walk.key
  /\ IF Here.e > walk.e THEN Drop(walk.e) /\ UNCHANGED nodes
                        ELSE nodes' = [nodes EXCEPT ![walk.at].e = walk.e] /\ Drop(Here.e)
  /\ UNCHANGED <<elements, searched, shuffled, sought, found, update, latest>>

(* find returns the element of the node, or end().                         *)
Return(e) ==
  /\ found' = [key |-> walk.key, e |-> e]
  /\ walk' = NoField /\ sought' = NoField
  /\ UNCHANGED <<elements, link, searched, shuffled, nodes, update, latest>>

Found ==
  /\ walk # NoField /\ walk.e = 0 /\ walk.at # 0 /\ Key(Here.e) = walk.key
  /\ Return(Here.e)

NotFound ==
  /\ walk # NoField /\ walk.e = 0
  /\ walk.at # 0 => Key(Here.e) # walk.key /\ Child = 0
  /\ Return(0)

(* A caller reads the field and goes its way.                              *)
Forget ==
  /\ Still /\ found # NoField /\ update = NoField
  /\ found' = NoField
  /\ UNCHANGED <<elements, link, searched, shuffled, nodes, walk, sought, update, latest>>

(***************************************************************************)
(* UpdateFields, with fields of different names.                           *)
(***************************************************************************)
UpdateFields(new) ==
  /\ Calm
  /\ update' = [new |-> new, step |-> "size", at |-> 1, count |-> 0]
  /\ InsertR(Len(elements))
  /\ UNCHANGED <<elements, link, nodes, walk, sought, found, latest>>

Doing(step) == update # NoField /\ update.step = step /\ Still
More        == update.at <= Len(update.new)
Field       == update.new[update.at]

Size ==
  /\ Doing("size")
  /\ update' = [update EXCEPT !.step = "check", !.count = Cardinality(link)]
  /\ UNCHANGED <<mapVars, latest>>

(* First every name is looked for, to count the new ones; then every name  *)
(* is looked for again to copy its field, unless that is too big.          *)
LookUp ==
  /\ update # NoField /\ update.step \in {"check", "copy"} /\ More
  /\ update.step = "copy" => Field.value \notin TooBig
  /\ Find(Field.key)
  /\ UNCHANGED <<update, latest>>

(* Points::SetPoint and Lines::CreateLine do not look at the result of     *)
(* UpdateFields, and report that the fields are set.                       *)
Report == update' = NoField

Count == update.count + (IF found.e = 0 THEN 1 ELSE 0)

CheckField ==
  /\ Doing("check") /\ More /\ found # NoField /\ Count <= MaxFields
  /\ found' = NoField
  /\ update' = [update EXCEPT !.at = @ + 1, !.count = Count]
  /\ UNCHANGED <<elements, link, searched, shuffled, nodes, walk, sought, latest>>

TooManyFields ==
  /\ Doing("check") /\ More /\ found # NoField /\ Count > MaxFields
  /\ found' = NoField
  /\ Report
  /\ UNCHANGED <<elements, link, searched, shuffled, nodes, walk, sought, latest>>

Checked ==
  /\ Doing("check") /\ ~More
  /\ update' = [update EXCEPT !.step = "copy", !.at = 1]
  /\ UNCHANGED <<mapVars, latest>>

CopyField ==
  /\ Doing("copy") /\ More /\ found # NoField
  /\ found' = NoField
  /\ update' = [update EXCEPT !.at = @ + 1]
  /\ IF found.e = 0
     THEN Insert(Field)
     ELSE /\ elements' = [elements EXCEPT ![found.e].value = Field.value]
          /\ latest' = [latest EXCEPT ![Field.key] = Field.value]
          /\ UNCHANGED <<link, searched, shuffled, nodes, walk, sought>>

TooBigField ==
  /\ Doing("copy") /\ More /\ found = NoField /\ Field.value \in TooBig
  /\ Report
  /\ UNCHANGED <<mapVars, latest>>

Copied ==
  /\ Doing("copy") /\ ~More
  /\ Report
  /\ UNCHANGED <<mapVars, latest>>

Updating ==
  Size \/ LookUp \/ CheckField \/ TooManyFields \/ Checked \/ CopyField \/ TooBigField \/ Copied

(* The fields of a message have different names, and come in any order.    *)
Updates == {new \in UNION {[1 .. n -> FieldData] : n \in 0 .. MaxUpdate} :
              \A i, j \in DOMAIN new : new[i].key = new[j].key => i = j}

FieldNext ==
  \/ \E field \in FieldData : field.value \notin TooBig /\ Put(field)
  \/ Begin
  \/ \E k \in Keys : Calm /\ Find(k) /\ UNCHANGED <<update, latest>>
  \/ \E e \in shuffled : NextElement(e)
  \/ FindNode \/ Descend \/ Attach \/ Replace \/ Found \/ NotFound \/ Forget
  \/ \E new \in Updates : UpdateFields(new)
  \/ Updating

FieldSpec == FieldInit /\ [][FieldNext]_fieldVars

-----------------------------------------------------------------------------
Elements == 1 .. Len(elements)

TreeNode == [e : Elements, child : [Sides -> Nat], turns : SUBSET (Nat \X Sides)]

FieldTypeOK ==
  /\ elements \in Seq(FieldData)
  /\ link \subseteq Elements
  /\ searched \in 0 .. Len(elements)
  /\ shuffled \subseteq 1 .. searched
  /\ nodes \in Seq(TreeNode)
  /\ walk \in [e : 0 .. searched, key : Keys, at : 0 .. Len(nodes)] \union {NoField}
  /\ sought \in Keys \union {NoField}
  /\ found \in [key : Keys, e : 0 .. Len(elements)] \union {NoField}
  /\ latest \in [Keys -> Values \union {NoField}]

(* Whatever find returns is the field as it was last given, and it says    *)
(* that there is none only when none was given: however the elements were  *)
(* shuffled, and although keycmp need not be an order.  "A key that is     *)
(* repeated overwrites the old value" (Map.h:28).                          *)
FoundIsLatest ==
  found # NoField =>
    IF found.e = 0 THEN latest[found.key] = NoField
    ELSE Key(found.e) = found.key /\ elements[found.e].value = latest[found.key]

(* The list, through which fields are counted, saved and sent, has every   *)
(* field once, as it was last given, when begin returns.                   *)
ListIsLatest ==
  shuffled = {} /\ walk = NoField /\ searched = Len(elements) =>
    /\ \A i, j \in link : Key(i) = Key(j) => i = j
    /\ \A k \in Keys : latest[k] # NoField =>
         \E i \in link : Key(i) = k /\ elements[i].value = latest[k]
    /\ \A i \in link : latest[Key(i)] = elements[i].value

(* The fields of an object at every moment, as find and begin give them.   *)
LatestWins == FieldTypeOK /\ FoundIsLatest /\ ListIsLatest

(* "Too many fields", "field too big" (Grid.h:77, 79): a request to set    *)
(* fields that is answered with success has set them.                      *)
SuccessMeansSet ==
  [][update # NoField /\ update' = NoField =>
       \A i \in DOMAIN update.new : latest'[update.new[i].key] = update.new[i].value]_fieldVars
=============================================================================
