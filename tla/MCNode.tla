------------------------------ MODULE MCNode ------------------------------
(***************************************************************************)
(* Model checking of what one node keeps by itself: the super ids it takes *)
(* (IdAlloc), the records of its points and lines (RecordStore) and the    *)
(* comparison of their fields with the filters of a search (Selection).    *)
(* They do not share state; which one is exercised is chosen at the start, *)
(* and the others stay as they are.                                        *)
(***************************************************************************)
EXTENDS IdAlloc, RecordStore, Selection

VARIABLE what

MCInit ==
  /\ Init /\ StoreInit
  /\ what \in {"ids", "records", "selection"}
  /\ IF what = "selection" THEN SelectInit
     ELSE fields = <<>> /\ filters = <<>> /\ at = 1 /\ selected = "open"

MCNext ==
  /\ UNCHANGED what
  /\ \/ what = "ids"       /\ Next       /\ UNCHANGED <<storeVars, selectVars>>
     \/ what = "records"   /\ StoreNext  /\ UNCHANGED <<vars, selectVars>>
     \/ what = "selection" /\ IsSelected /\ UNCHANGED <<vars, storeVars>>

MCSpec == MCInit /\ [][MCNext]_<<what, vars, storeVars, selectVars>>

Symmetry == Permutations(PointIds)

\* Texts of one and of two bytes.
ShortTexts == {<<1>>, <<2>>, <<1, 1>>}

(* The loading of an index file once more, as the loop the code runs.      *)
ReadNext(k, acc, entry) ==
  LET record == data[k][entry.pos]
      object == [acc.left EXCEPT !.out    = @ \o DecodedEdges(record.content),
                                 !.fields = @ \union record.content.fields]
  IN IF record.live
     THEN [acc EXCEPT !.left = Blank, !.slot = @ + 1,
                      !.objects[entry.id] = [slot |-> acc.slot, pos |-> entry.pos,
                                             space |-> entry.space, content |-> object]]
     ELSE [acc EXCEPT !.left = object]

Loop(k) ==
  FoldLeft(LAMBDA acc, entry : ReadNext(k, acc, entry),
           [slot |-> 1, left |-> Blank, objects |-> [id \in Ids |-> None]], idx[k])

(* Loaded gives what the loops of ReadPointFile and ReadLineFile leave in  *)
(* the map, for every pair of files a node can be started with.            *)
LoadedIsLoop ==
  ~serving => \A k \in Kinds : Readable(k) =>
    \A id \in Ids : Kind(id) = k => Loaded(id) = Loop(k).objects[id]

(* The memory a start makes is the one the loops of the code make, and     *)
(* IsSelected takes the objects that stand to the filters as they say.     *)
Inv == StoreTypeOK /\ LoadedIsLoop /\ SelectedRight
=============================================================================
