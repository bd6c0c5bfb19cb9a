---------------------------- MODULE Node_proof ----------------------------
(***************************************************************************)
(* What one node keeps by itself, proved for any size.  The records of its *)
(* points and lines: no save touches the record of another object, the     *)
(* files hold what the requests that succeeded have made, up to the known  *)
(* holes, and a start makes of them what the loop of the code makes.  The  *)
(* ids it hands out: they are unique, for any number of nodes, any segment *)
(* size and any number of requests.  The points and lines a search takes:  *)
(* they stand to every filter as it says.                                  *)
(***************************************************************************)
EXTENDS MCNode, SequenceLemmas


-----------------------------------------------------------------------------
(* The inductive invariant.                                                *)
InFile(k, pos) == pos \in DOMAIN data[k]

\* id is between the two writes of its save.
Writing(id) ==
  /\ saving # None /\ saving.id = id /\ saving.step = "data"
  /\ ~ InFile(Kind(id), mem[id].pos)

InBatch(id) == batch # None /\ id \in BatchIds

(* A save is in progress only while the node serves; it has to append as   *)
(* long as it is to write the index, and after that its record is missing. *)
(* After a kill between the two the node does not start again.             *)
StateInv ==
  /\ saving # None => serving /\ batch = None /\ mem[saving.id] # None
  /\ batch # None => serving
  /\ ~ serving => \A id \in Ids : mem[id] = None
  /\ torn => ~ serving /\ \E k \in Kinds : \E i \in DOMAIN idx[k] : ~ InFile(k, idx[k][i].pos)

SavingInv ==
  saving # None =>
    IF saving.step = "index" THEN Moves(Saved)
    ELSE /\ Positioned(Saved)
         /\ IF InFile(SavedK, Saved.pos) THEN Length(Saved.content) <= Saved.space
            ELSE Saved.pos = NewPos /\ Saved.space < Length(Saved.content)

\* The entry at i is the one of the object that is being written.
AwaitsRecord(k, i) ==
  LET e == idx[k][i]
      m == mem[e.id]
  IN Writing(e.id) /\ i = m.slot /\ e.pos = m.pos /\ e.space = Length(m.content)

EntriesInv ==
  \A k \in Kinds : \A i \in DOMAIN idx[k] :
    /\ Kind(idx[k][i].id) = k
    /\ IF InFile(k, idx[k][i].pos)
       THEN RecordAt(k, i).id = idx[k][i].id /\ idx[k][i].space <= RecordAt(k, i).room
       ELSE torn \/ AwaitsRecord(k, i)

(* An object in memory is not on disk, or it knows where its own record    *)
(* is, or is to be.                                                        *)
Unplaced(m) == m.slot = 0 /\ m.pos = 0 /\ m.space = 0

Placed(id) ==
  /\ mem[id].slot > 0
  /\ InFile(Kind(id), mem[id].pos)
  /\ data[Kind(id)][mem[id].pos].id = id
  /\ mem[id].space <= data[Kind(id)][mem[id].pos].room
  /\ InBatch(id) \/ mem[id].slot \in DOMAIN idx[Kind(id)]

BeingPlaced(id) ==
  /\ Writing(id)
  /\ mem[id].slot \in DOMAIN idx[Kind(id)]
  /\ idx[Kind(id)][mem[id].slot].id = id /\ idx[Kind(id)][mem[id].slot].pos = mem[id].pos

MemInv == \A id \in Ids : mem[id] # None => Unplaced(mem[id]) \/ Placed(id) \/ BeingPlaced(id)

BatchInv ==
  batch # None =>
    /\ \A j \in DOMAIN batch.entries :
         LET e == batch.entries[j] IN
         /\ e.id \in PointIds /\ InFile("point", e.pos)
         /\ LET record == data["point"][e.pos]
            IN record.id = e.id /\ record.live /\ record.content = Blank /\ e.space <= record.room
         /\ mem[e.id] # None /\ mem[e.id].slot = Len(idx["point"]) + j /\ mem[e.id].pos = e.pos
    /\ \A j \in DOMAIN batch.left :
         LET id == batch.left[j] IN
         /\ mem[id] # None /\ mem[id].slot = 0 /\ mem[id].content = Blank
         /\ \A i \in DOMAIN batch.left : batch.left[i] = id => i = j

(* Until a start has skipped a deleted object, the index positions in      *)
(* memory are right.                                                       *)
SlotInv ==
  ~ skipped => \A id \in Ids : mem[id] # None /\ mem[id].slot > 0 /\ ~ InBatch(id) =>
    idx[Kind(id)][mem[id].slot].id = id /\ idx[Kind(id)][mem[id].slot].pos = mem[id].pos

(* The entries a start would take for id.                                  *)
Own(id) ==
  {i \in DOMAIN idx[Kind(id)] :
     /\ idx[Kind(id)][i].id = id /\ InFile(Kind(id), idx[Kind(id)][i].pos)
     /\ RecordAt(Kind(id), i).live}

Settled(id) ==
  /\ \A i, j \in Own(id) : i = j
  /\ IF Writing(id) \/ acked[id] = None THEN Own(id) = {}
     ELSE \E i \in Own(id) : RecordAt(Kind(id), i).content = acked[id]
  /\ serving =>
       IF mem[id] = None \/ mem[id].slot = 0 \/ InBatch(id) THEN acked[id] = None
       ELSE Writing(id) \/ mem[id].slot \in Own(id)

SettledInv == ~ torn /\ ~ skipped => \A id \in Ids \ unsettled : Settled(id)

IInv == /\ StoreTypeOK /\ StateInv /\ SavingInv /\ EntriesInv /\ MemInv /\ BatchInv
        /\ SlotInv /\ SettledInv

-----------------------------------------------------------------------------
(* Lemmas about kinds, contents and files.                                 *)
LEMMA KindIs ==
  /\ \A id \in Ids : Kind(id) \in Kinds
  /\ \A id \in PointIds : id \in Ids /\ Kind(id) = "point"
  /\ \A id \in LineIds : id \in Ids /\ Kind(id) = "line"
  BY RecordStoreAssumption DEF Kind, Kinds, Ids

LEMMA LengthIs ==
  ASSUME NEW c \in Contents
  PROVE  Length(c) \in Nat \ {0}
  <1>1. Len(c.out) \in Nat /\ Len(c.in) \in Nat
    BY LenProperties DEF Contents
  <1>2. IsFiniteSet(c.fields)
    BY RecordStoreAssumption, FS_Subset DEF Contents
  <1>3. Cardinality(c.fields) \in Nat
    BY <1>2, FS_CardinalityType
  <1>4. \A a, b, d \in Nat : 1 + a + b + d \in Nat \ {0}
    OBVIOUS
  <1>5. Length(c) = 1 + Len(c.out) + Len(c.in) + Cardinality(c.fields)
    BY DEF Length
  <1> HIDE DEF Length
  <1> QED
    BY ONLY <1>1, <1>3, <1>4, <1>5

LEMMA BlankIs == Blank \in Contents
  BY EmptySeq DEF Blank, Contents

LEMMA FilesTyped ==
  ASSUME StoreTypeOK, NEW k \in Kinds
  PROVE  /\ idx[k] \in Seq(Entries) /\ DOMAIN idx[k] = 1 .. Len(idx[k]) /\ Len(idx[k]) \in Nat
         /\ \A i \in DOMAIN idx[k] : idx[k][i] \in Entries
         /\ data[k] \in Seq(Records) /\ DOMAIN data[k] = 1 .. Len(data[k]) /\ Len(data[k]) \in Nat
         /\ \A i \in DOMAIN data[k] : data[k][i] \in Records
  <1>1. idx[k] \in Seq(Entries) /\ data[k] \in Seq(Records)
    BY DEF StoreTypeOK
  <1> QED
    BY <1>1, LenProperties

\* f is seq but for e at i.
IsPut(f, seq, i, e) ==
  /\ DOMAIN f = DOMAIN seq \union {i}
  /\ f[i] = e
  /\ \A j \in DOMAIN seq : j # i => f[j] = seq[j]

LEMMA PutAtIs ==
  ASSUME NEW S, NEW seq \in Seq(S), NEW e \in S, NEW i \in 1 .. Len(seq) + 1
  PROVE  PutAt(seq, i, e) \in Seq(S) /\ IsPut(PutAt(seq, i, e), seq, i, e)
  <1>1. Len(seq) \in Nat /\ DOMAIN seq = 1 .. Len(seq)
    BY LenProperties
  <1>2. CASE i \in DOMAIN seq
    <2>1. PutAt(seq, i, e) = [seq EXCEPT ![i] = e]
      BY <1>2 DEF PutAt
    <2>2. /\ [seq EXCEPT ![i] = e] \in Seq(S) /\ Len([seq EXCEPT ![i] = e]) = Len(seq)
          /\ \A j \in 1 .. Len(seq) : [seq EXCEPT ![i] = e][j] = IF j = i THEN e ELSE seq[j]
      BY <1>1, <1>2, ExceptSeq
    <2>3. DOMAIN [seq EXCEPT ![i] = e] = DOMAIN seq
      OBVIOUS
    <2> QED
      BY <1>1, <1>2, <2>1, <2>2, <2>3 DEF IsPut
  <1>3. CASE i \notin DOMAIN seq
    <2>1. PutAt(seq, i, e) = Append(seq, e) /\ i = Len(seq) + 1
      <3>1. i = Len(seq) + 1
        BY <1>1, <1>3
      <3>2. PutAt(seq, i, e) = Append(seq, e)
        BY <1>3 DEF PutAt
      <3> QED
        BY <3>1, <3>2
    <2>2. /\ Append(seq, e) \in Seq(S) /\ Len(Append(seq, e)) = Len(seq) + 1
          /\ \A j \in 1 .. Len(seq) : Append(seq, e)[j] = seq[j]
          /\ Append(seq, e)[Len(seq) + 1] = e
      BY AppendProperties
    <2>3. DOMAIN Append(seq, e) = 1 .. Len(seq) + 1
      BY <2>2, LenProperties
    <2> QED
      BY <1>1, <2>1, <2>2, <2>3 DEF IsPut
  <1> QED
    BY <1>2, <1>3

LEMMA MemTyped ==
  ASSUME StoreTypeOK, NEW id \in Ids, mem[id] # None
  PROVE  /\ mem[id] \in Objects /\ mem[id].slot \in Nat /\ mem[id].pos \in Nat /\ mem[id].space \in Nat
         /\ mem[id].content \in Contents
  BY DEF StoreTypeOK, Objects

LEMMA SavingTyped ==
  ASSUME StoreTypeOK, saving # None
  PROVE  saving \in Requests /\ saving.id \in Ids /\ saving.step \in {"index", "data"} /\ SavedK \in Kinds
  BY KindIs DEF StoreTypeOK, Requests, SavedK

LEMMA InitKeeps == StoreInit => IInv
  <1> SUFFICES ASSUME StoreInit PROVE IInv
    OBVIOUS
  <1>1. StoreTypeOK
    <2>1. <<>> \in Seq(Entries) /\ <<>> \in Seq(Records)
      BY EmptySeq
    <2>2. idx \in [Kinds -> Seq(Entries)] /\ data \in [Kinds -> Seq(Records)]
      BY <2>1 DEF StoreInit
    <2>3. mem \in [Ids -> Objects \union {None}] /\ acked \in [Ids -> Contents \union {None}]
      BY DEF StoreInit
    <2>4. faults \in 0 .. MaxFaults
      BY RecordStoreAssumption DEF StoreInit
    <2> QED
      BY <2>2, <2>3, <2>4 DEF StoreInit, StoreTypeOK
  <1>2. StateInv /\ SavingInv /\ BatchInv
    BY DEF StoreInit, StateInv, SavingInv, BatchInv
  <1>3. \A k \in Kinds : DOMAIN idx[k] = {}
    BY DEF StoreInit
  <1>4. EntriesInv
    BY <1>3 DEF EntriesInv
  <1>5. MemInv /\ SlotInv
    BY DEF StoreInit, MemInv, SlotInv
  <1>6. SettledInv
    <2>1. \A id \in Ids : Own(id) = {}
      BY <1>3, KindIs DEF Own
    <2> QED
      BY <2>1 DEF StoreInit, SettledInv, Settled
  <1> QED
    BY <1>1, <1>2, <1>4, <1>5, <1>6 DEF IInv

-----------------------------------------------------------------------------
(* A request changes the object in memory and begins to save it.           *)
LEMMA SaveKeeps ==
  ASSUME IInv, Idle, NEW id \in Ids, NEW m \in Objects, Save(id, m),
         \/ Unplaced(m) /\ (mem[id] = None \/ id \in unsettled')
         \/ /\ mem[id] # None
            /\ m.slot = mem[id].slot /\ m.pos = mem[id].pos /\ m.space = mem[id].space,
         unsettled \subseteq unsettled', unsettled' \subseteq Ids,
         UNCHANGED <<disk, serving, batch, acked, torn, skipped, faults>>
  PROVE  IInv'
  <1>1. /\ mem' = [mem EXCEPT ![id] = m]
        /\ saving' = [id |-> id, step |-> IF Moves(m) THEN "index" ELSE "data"]
        /\ serving /\ saving = None /\ batch = None
        /\ UNCHANGED <<idx, data, serving, batch, acked, torn, skipped, faults>>
    BY DEF Save, Idle, disk
  <1>2. StoreTypeOK /\ ~ torn /\ mem \in [Ids -> Objects \union {None}] /\ m # None
    BY <1>1, RecordStoreAssumption DEF IInv, StoreTypeOK, StateInv
  <1>3. \A x \in Ids : mem'[x] = IF x = id THEN m ELSE mem[x]
    BY <1>1, <1>2
  <1>4. saving' \in Requests /\ saving' # None /\ saving'.id = id
        /\ (saving'.step = "index" <=> Moves(m))
    BY <1>1, RecordStoreAssumption DEF Requests
  <1>5. StoreTypeOK'
    <2>1. mem' \in [Ids -> Objects \union {None}]
      BY <1>1, <1>2
    <2> QED
      BY <1>1, <1>2, <1>4, <2>1 DEF StoreTypeOK
  <1>6. \A x \in Ids : mem[x] # None => Unplaced(mem[x]) \/ Placed(x)
    BY <1>1 DEF IInv, MemInv, BeingPlaced, Writing
  <1>7. ~ Moves(m) => mem[id] # None /\ Placed(id) /\ m.slot = mem[id].slot /\ m.pos = mem[id].pos
                      /\ m.space = mem[id].space /\ Length(m.content) <= m.space /\ m.slot > 0
    <2> SUFFICES ASSUME ~ Moves(m)
                 PROVE  mem[id] # None /\ Placed(id) /\ m.slot = mem[id].slot /\ m.pos = mem[id].pos
                        /\ m.space = mem[id].space /\ Length(m.content) <= m.space /\ m.slot > 0
      OBVIOUS
    <2>1. m.slot > 0 /\ ~(Length(m.content) > m.space)
      BY DEF Moves, Positioned
    <2>2. Length(m.content) \in Nat /\ m.space \in Nat /\ m.slot \in Nat
      BY LengthIs DEF Objects
    <2>3. mem[id] # None /\ m.slot = mem[id].slot /\ m.pos = mem[id].pos /\ m.space = mem[id].space
      BY <2>1, <2>2 DEF Unplaced
    <2>4. Placed(id)
      BY <1>6, <2>1, <2>2, <2>3 DEF Unplaced
    <2> QED
      BY <2>1, <2>2, <2>3, <2>4
  <1>8. \A x \in Ids : ~ Writing(x) /\ ~ Writing(x)' /\ ~ InBatch(x) /\ ~ InBatch(x)'
    <2>1. \A x \in Ids : ~ Writing(x) /\ ~ InBatch(x) /\ ~ InBatch(x)'
      BY <1>1 DEF Writing, InBatch
    <2>2. ASSUME Writing(id)' PROVE FALSE
      <3>1. ~ Moves(m) /\ ~ InFile(Kind(id), m.pos)
        BY <1>1, <1>3, <1>4, <2>2 DEF Writing, InFile
      <3> QED
        BY <1>7, <3>1 DEF Placed
    <2> QED
      BY <1>4, <2>1, <2>2 DEF Writing
  <1>9. StateInv'
    BY <1>1, <1>2, <1>3, <1>4 DEF StateInv, InFile, IInv
  <1>10. SavingInv'
    <2>1. Saved' = m /\ SavedK' = Kind(id)
      BY <1>3, <1>4 DEF Saved, SavedK
    <2>2. CASE Moves(m)
      BY <1>4, <2>1, <2>2 DEF SavingInv, Moves, Positioned, Length
    <2>3. CASE ~ Moves(m)
      <3>1. InFile(Kind(id), m.pos)'
        BY <1>1, <1>7, <2>3 DEF InFile, Placed
      <3> QED
        BY <1>4, <1>7, <2>1, <2>3, <3>1 DEF SavingInv, Positioned, Length
    <2> QED
      BY <2>2, <2>3
  <1>11. EntriesInv'
    <2> SUFFICES ASSUME NEW k \in Kinds, NEW i \in DOMAIN idx[k]
                 PROVE  /\ Kind(idx[k][i].id) = k
                        /\ InFile(k, idx[k][i].pos)
                        /\ RecordAt(k, i).id = idx[k][i].id /\ idx[k][i].space <= RecordAt(k, i).room
      BY <1>1 DEF EntriesInv, InFile, RecordAt
    <2>1. idx[k][i].id \in Ids
      BY <1>2, FilesTyped DEF Entries
    <2> QED
      BY <1>2, <1>8, <2>1 DEF IInv, EntriesInv, AwaitsRecord
  <1>12. MemInv'
    <2> SUFFICES ASSUME NEW x \in Ids, mem'[x] # None PROVE Unplaced(mem'[x]) \/ Placed(x)'
      BY DEF MemInv, Unplaced
    <2>1. CASE x # id
      BY <1>1, <1>3, <1>6, <1>8, <2>1 DEF Placed, InFile
    <2>2. CASE x = id /\ ~ Unplaced(m)
      <3>1. mem[id] # None /\ m.slot = mem[id].slot /\ m.pos = mem[id].pos /\ m.space = mem[id].space
        BY <2>2
      <3>2. Placed(id)
        BY <1>6, <2>2, <3>1 DEF Unplaced
      <3> QED
        BY <1>1, <1>3, <1>8, <2>2, <3>1, <3>2 DEF Placed, InFile
    <2> QED
      BY <1>3, <2>1, <2>2
  <1>13. BatchInv' /\ SlotInv'
    <2>1. BatchInv'
      BY <1>1 DEF BatchInv
    <2>2. SlotInv'
      <3> SUFFICES ASSUME ~ skipped, NEW x \in Ids, mem'[x] # None, mem'[x].slot > 0
                   PROVE  idx[Kind(x)][mem'[x].slot].id = x /\ idx[Kind(x)][mem'[x].slot].pos = mem'[x].pos
        BY <1>1 DEF SlotInv
      <3>1. mem[x] # None /\ mem'[x].slot = mem[x].slot /\ mem'[x].pos = mem[x].pos
        BY <1>3 DEF Unplaced
      <3> QED
        BY <1>8, <3>1 DEF IInv, SlotInv
    <2> QED
      BY <2>1, <2>2
  <1>14. SettledInv'
    <2> SUFFICES ASSUME ~ skipped, NEW x \in Ids \ unsettled' PROVE Settled(x)'
      BY <1>1 DEF SettledInv
    <2>1. Settled(x)
      BY <1>2 DEF IInv, SettledInv
    <2>2. Own(x)' = Own(x) /\ \A i : RecordAt(Kind(x), i)' = RecordAt(Kind(x), i)
      BY <1>1 DEF Own, InFile, RecordAt
    <2>3. (mem'[x] = None \/ mem'[x].slot = 0) <=> (mem[x] = None \/ mem[x].slot = 0)
      <3>1. CASE x = id /\ Unplaced(m)
        BY <1>3, <3>1 DEF Unplaced
      <3>2. CASE x = id /\ ~ Unplaced(m)
        BY <1>2, <1>3, <3>2
      <3>3. CASE x # id
        BY <1>3, <3>3
      <3> QED
        BY <3>1, <3>2, <3>3
    <2>4. ~(mem'[x] = None \/ mem'[x].slot = 0) => mem'[x].slot = mem[x].slot
      BY <1>3 DEF Unplaced
    <2> QED
      BY <1>1, <1>8, <2>1, <2>2, <2>3, <2>4 DEF Settled
  <1> QED
    BY <1>5, <1>9, <1>10, <1>11, <1>12, <1>13, <1>14 DEF IInv

LEMMA ContentSet ==
  ASSUME NEW o \in Objects, NEW c \in Contents
  PROVE  /\ [o EXCEPT !.content = c] \in Objects
         /\ [o EXCEPT !.content = c].slot = o.slot /\ [o EXCEPT !.content = c].pos = o.pos
         /\ [o EXCEPT !.content = c].space = o.space
  BY DEF Objects

LEMMA FreshIs ==
  ASSUME NEW c \in Contents
  PROVE  Fresh(c) \in Objects /\ Unplaced(Fresh(c))
  BY DEF Fresh, Objects, Unplaced

LEMMA SetPointKeeps ==
  ASSUME IInv, NEW id \in PointIds, NEW added \in SUBSET Fields, SetPoint(id, added)
  PROVE  IInv'
  <1> DEFINE o == IF mem[id] = None THEN Fresh(Blank) ELSE mem[id]
             c == [o.content EXCEPT !.fields = @ \union added]
             m == [o EXCEPT !.content = c]
  <1>1. id \in Ids /\ StoreTypeOK
    BY KindIs DEF IInv
  <1>2. o \in Objects
    BY <1>1, MemTyped, BlankIs, FreshIs
  <1>3. c \in Contents
    BY <1>2 DEF Objects, Contents
  <1>4. m \in Objects /\ m.slot = o.slot /\ m.pos = o.pos /\ m.space = o.space
    <2> HIDE DEF o, c
    <2> QED
      BY <1>2, <1>3, ContentSet
  <1>5. [o EXCEPT !.content.fields = @ \union added] = m
    BY <1>2 DEF Objects, Contents
  <1>6. Idle /\ Save(id, m) /\ UNCHANGED <<disk, serving, batch, acked, unsettled, torn, skipped, faults>>
    BY <1>5 DEF SetPoint
  <1>7. mem[id] = None => Unplaced(m)
    BY <1>4, BlankIs, FreshIs DEF Unplaced
  <1>8. unsettled' = unsettled /\ unsettled \subseteq Ids
    BY <1>1, <1>6 DEF StoreTypeOK
  <1>9. mem[id] # None => m.slot = mem[id].slot /\ m.pos = mem[id].pos /\ m.space = mem[id].space
    BY <1>4
  <1> HIDE DEF m
  <1>10. UNCHANGED <<disk, serving, batch, acked, torn, skipped, faults>>
    BY <1>6
  <1> QED
    BY <1>1, <1>4, <1>6, <1>7, <1>8, <1>9, <1>10, SaveKeeps

LEMMA ListChangeKeeps ==
  ASSUME IInv, Idle, NEW id \in Ids, mem[id] # None, NEW c \in Contents, NEW m,
         m = [mem[id] EXCEPT !.content = c], Save(id, m),
         UNCHANGED <<disk, serving, batch, acked, unsettled, torn, skipped, faults>>
  PROVE  IInv'
  <1>1. StoreTypeOK /\ unsettled' = unsettled /\ unsettled \subseteq Ids
    BY DEF IInv, StoreTypeOK
  <1>2. mem[id] \in Objects
    BY <1>1, MemTyped
  <1>3. m \in Objects /\ m.slot = mem[id].slot /\ m.pos = mem[id].pos /\ m.space = mem[id].space
    BY <1>2, ContentSet
  <1> QED
    BY <1>1, <1>3, SaveKeeps

LEMMA AddLineKeeps ==
  ASSUME IInv, NEW id \in PointIds, NEW edge \in Edges, NEW isOut \in BOOLEAN,
         AddLineForPoint(id, edge, isOut)
  PROVE  IInv'
  <1>1. id \in Ids /\ mem[id] # None /\ mem[id] \in Objects /\ mem[id].content \in Contents
    BY KindIs, MemTyped DEF IInv, AddLineForPoint
  <1> DEFINE c == IF isOut THEN [mem[id].content EXCEPT !.out = Append(@, edge)]
                           ELSE [mem[id].content EXCEPT !.in = Append(@, edge)]
             m == [mem[id] EXCEPT !.content = c]
  <1>2. c \in Contents
    <2>1. Append(mem[id].content.out, edge) \in Seq(Edges) /\ Append(mem[id].content.in, edge) \in Seq(Edges)
      BY <1>1, AppendProperties DEF Contents
    <2> QED
      BY <1>1, <2>1 DEF Contents
  <1>3. Save(id, m)
    <2>1. CASE isOut
      <3>1. m = [mem[id] EXCEPT !.content.out = Append(@, edge)]
        BY <1>1, <2>1 DEF Objects, Contents
      <3> HIDE DEF m
      <3> QED
        BY <2>1, <3>1 DEF AddLineForPoint
    <2>2. CASE ~ isOut
      <3>1. m = [mem[id] EXCEPT !.content.in = Append(@, edge)]
        BY <1>1, <2>2 DEF Objects, Contents
      <3> HIDE DEF m
      <3> QED
        BY <2>2, <3>1 DEF AddLineForPoint
    <2> QED
      BY <2>1, <2>2
  <1> HIDE DEF c
  <1> QED
    BY <1>1, <1>2, <1>3, ListChangeKeeps DEF AddLineForPoint

LEMMA DelLineKeeps ==
  ASSUME IInv, NEW id \in PointIds, NEW edge \in Edges, NEW isOut \in BOOLEAN,
         DelLineForPoint(id, edge, isOut)
  PROVE  IInv'
  <1>1. id \in Ids /\ mem[id] # None /\ mem[id] \in Objects /\ mem[id].content \in Contents
    BY KindIs, MemTyped DEF IInv, DelLineForPoint
  <1> DEFINE c == IF isOut THEN [mem[id].content EXCEPT !.out = RemoveFirst(@, edge)]
                           ELSE [mem[id].content EXCEPT !.in = RemoveFirst(@, edge)]
             m == [mem[id] EXCEPT !.content = c]
  <1>2. c \in Contents
    <2>1. /\ RemoveFirst(mem[id].content.out, edge) \in Seq(Edges)
          /\ RemoveFirst(mem[id].content.in, edge) \in Seq(Edges)
      BY <1>1, RemoveFirstType DEF Contents
    <2> QED
      BY <1>1, <2>1 DEF Contents
  <1>3. Save(id, m)
    <2>1. CASE isOut
      <3>1. m = [mem[id] EXCEPT !.content.out = RemoveFirst(@, edge)]
        BY <1>1, <2>1 DEF Objects, Contents
      <3> HIDE DEF m
      <3> QED
        BY <2>1, <3>1 DEF DelLineForPoint
    <2>2. CASE ~ isOut
      <3>1. m = [mem[id] EXCEPT !.content.in = RemoveFirst(@, edge)]
        BY <1>1, <2>2 DEF Objects, Contents
      <3> HIDE DEF m
      <3> QED
        BY <2>2, <3>1 DEF DelLineForPoint
    <2> QED
      BY <2>1, <2>2
  <1> HIDE DEF c
  <1> QED
    BY <1>1, <1>2, <1>3, ListChangeKeeps DEF DelLineForPoint

LEMMA CreateLineKeeps ==
  ASSUME IInv, NEW id \in LineIds, NEW added \in SUBSET Fields, CreateLine(id, added)
  PROVE  IInv'
  <1> DEFINE c == [Blank EXCEPT !.fields = added]
  <1>1. id \in Ids /\ unsettled \subseteq Ids
    BY KindIs DEF IInv, StoreTypeOK
  <1>2. c \in Contents
    BY BlankIs DEF Contents
  <1>3. Idle /\ Save(id, Fresh(c))
    BY DEF CreateLine
  <1> HIDE DEF c
  <1>4. Fresh(c) \in Objects /\ Unplaced(Fresh(c))
    BY <1>2, FreshIs
  <1>5. /\ mem[id] = None \/ id \in unsettled'
        /\ unsettled \subseteq unsettled' /\ unsettled' \subseteq Ids
    BY <1>1 DEF CreateLine
  <1>6. UNCHANGED <<disk, serving, batch, acked, torn, skipped, faults>>
    BY DEF CreateLine
  <1> QED
    BY <1>1, <1>3, <1>4, <1>5, <1>6, SaveKeeps

-----------------------------------------------------------------------------
(* The two writes of a save.                                               *)
LEMMA InSave ==
  ASSUME IInv, saving # None
  PROVE  /\ StoreTypeOK /\ saving.id \in Ids /\ SavedK \in Kinds /\ SavedK = Kind(saving.id)
         /\ Saved = mem[saving.id] /\ Saved # None /\ Saved \in Objects /\ Saved.content \in Contents
         /\ Length(Saved.content) \in Nat \ {0}
         /\ serving /\ batch = None /\ ~ torn
         /\ \A x \in Ids : ~ InBatch(x)
         /\ \A x \in Ids : Writing(x) => x = saving.id
  <1>1. StoreTypeOK /\ serving /\ batch = None /\ ~ torn /\ mem[saving.id] # None
    BY DEF IInv, StateInv
  <1>2. saving.id \in Ids /\ SavedK \in Kinds
    BY <1>1, SavingTyped
  <1>3. mem[saving.id] \in Objects /\ mem[saving.id].content \in Contents
    BY <1>1, <1>2, MemTyped
  <1>4. \A x \in Ids : ~ InBatch(x)
    BY <1>1 DEF InBatch
  <1>5. \A x \in Ids : Writing(x) => x = saving.id
    BY DEF Writing
  <1> QED
    BY <1>1, <1>2, <1>3, <1>4, <1>5, LengthIs DEF Saved, SavedK

LEMMA SaveIndexKeeps ==
  ASSUME IInv, SaveIndex
  PROVE  IInv'
  <1>1. saving # None /\ saving.step = "index"
    BY DEF SaveIndex
  <1>2. PICK id \in Ids : id = saving.id
    BY <1>1, InSave
  <1>3. PICK k \in Kinds : k = SavedK /\ k = Kind(id)
    BY <1>1, <1>2, InSave
  <1>4. PICK o \in Objects : o = Saved /\ o = mem[id] /\ o # None
    BY <1>1, <1>2, InSave
  <1>5. PICK slot : slot = EntrySlot
    OBVIOUS
  <1>6. PICK pos : pos = NewPos
    OBVIOUS
  <1>7. PICK e : e = [id |-> id, pos |-> pos, space |-> Length(o.content)]
    OBVIOUS
  <1>8. /\ StoreTypeOK /\ serving /\ batch = None /\ ~ torn
        /\ \A x \in Ids : ~ InBatch(x) /\ ~ Writing(x)
        /\ Length(o.content) \in Nat \ {0}
    BY <1>1, <1>4, InSave DEF Writing
  <1>9. /\ o.slot \in Nat /\ o.pos \in Nat /\ o.space \in Nat /\ o.content \in Contents
    BY DEF Objects
  <1>10. /\ \A x \in Ids : mem[x] # None => Unplaced(mem[x]) \/ Placed(x)
         /\ \A x \in Ids : mem[x] # None /\ mem[x].slot > 0 => Placed(x)
    BY <1>8 DEF IInv, MemInv, BeingPlaced, Unplaced
  <1>11. /\ slot \in 1 .. Len(idx[k]) + 1
         /\ slot \in DOMAIN idx[k] => slot = o.slot /\ o.slot > 0
         /\ o.slot > 0 => slot = o.slot
    <2>1. Len(idx[k]) \in Nat /\ DOMAIN idx[k] = 1 .. Len(idx[k])
      BY <1>8, FilesTyped
    <2>2. CASE o.slot > 0
      <3>1. slot = o.slot /\ o.slot \in DOMAIN idx[k]
        BY <1>3, <1>4, <1>5, <1>8, <1>10, <2>2 DEF EntrySlot, Positioned, Placed
      <3> QED
        BY <2>1, <2>2, <3>1
    <2>3. CASE ~(o.slot > 0)
      <3>1. slot = Len(idx[k]) + 1
        BY <1>3, <1>4, <1>5, <2>3 DEF EntrySlot, Positioned
      <3> QED
        BY <2>1, <2>3, <3>1
    <2> QED
      BY <2>2, <2>3
  <1>12. pos \in Nat \ {0} /\ ~ InFile(k, pos) /\ pos = Len(data[k]) + 1
    <2>1. pos = Len(data[k]) + 1 /\ Len(data[k]) \in Nat /\ DOMAIN data[k] = 1 .. Len(data[k])
      BY <1>3, <1>6, <1>8, FilesTyped DEF NewPos
    <2> QED
      BY <2>1 DEF InFile
  <1>13. e \in Entries /\ e.id = id /\ e.pos = pos
    BY <1>7, <1>8, <1>12 DEF Entries
  <1>14. /\ idx' = [idx EXCEPT ![k] = PutAt(idx[k], slot, e)]
         /\ mem' = [mem EXCEPT ![id].slot = slot, ![id].pos = pos]
         /\ saving' = [saving EXCEPT !.step = "data"]
         /\ UNCHANGED <<data, serving, batch, acked, unsettled, torn, skipped, faults>>
    BY <1>2, <1>3, <1>4, <1>5, <1>6, <1>7 DEF SaveIndex
  <1>15. PICK f \in Seq(Entries) : f = PutAt(idx[k], slot, e) /\ IsPut(f, idx[k], slot, e)
    <2>1. idx[k] \in Seq(Entries)
      BY <1>8, FilesTyped
    <2>2. PutAt(idx[k], slot, e) \in Seq(Entries) /\ IsPut(PutAt(idx[k], slot, e), idx[k], slot, e)
      BY <1>11, <1>13, <2>1, PutAtIs
    <2> QED
      BY <2>2
  <1>16. /\ idx \in [Kinds -> Seq(Entries)] /\ mem \in [Ids -> Objects \union {None}]
         /\ saving \in Requests
    BY <1>1, <1>8 DEF StoreTypeOK
  <1>17. /\ \A q \in Kinds : idx'[q] = IF q = k THEN f ELSE idx[q]
         /\ idx' \in [Kinds -> Seq(Entries)]
    BY <1>14, <1>15, <1>16 DEF IsPut
  <1>18. PICK n \in Objects : /\ n.slot = slot /\ n.pos = pos /\ n.space = o.space /\ n.content = o.content
                              /\ n # None /\ n = [o EXCEPT !.slot = slot, !.pos = pos]
    <2>1. slot \in Nat /\ pos \in Nat
      <3>1. Len(idx[k]) \in Nat
        BY <1>8, FilesTyped
      <3> QED
        BY <1>11, <1>12, <3>1
    <2>2. [o EXCEPT !.slot = slot, !.pos = pos] \in Objects
      BY <2>1 DEF Objects
    <2> QED
      BY <2>1, <2>2, RecordStoreAssumption DEF Objects
  <1>19. /\ \A x \in Ids : mem'[x] = IF x = id THEN n ELSE mem[x]
         /\ mem' \in [Ids -> Objects \union {None}]
    <2>1. mem' = [mem EXCEPT ![id] = n]
      BY <1>4, <1>14, <1>16, <1>18
    <2> QED
      BY <1>16, <2>1
  <1>20. saving' \in Requests /\ saving' # None /\ saving'.id = id /\ saving'.step = "data"
    BY <1>2, <1>14, <1>16, RecordStoreAssumption DEF Requests
  <1>21. StoreTypeOK'
    BY <1>8, <1>14, <1>17, <1>19, <1>20 DEF StoreTypeOK
  <1>22. \A x \in Ids : ~ InBatch(x)' /\ (Writing(x)' <=> x = id)
    BY <1>3, <1>8, <1>12, <1>14, <1>18, <1>19, <1>20 DEF InBatch, Writing, InFile
  <1>23. StateInv'
    BY <1>8, <1>14, <1>18, <1>19, <1>20 DEF StateInv
  <1>24. SavingInv'
    <2>1. Saved' = n /\ SavedK' = k /\ NewPos' = pos
      BY <1>3, <1>12, <1>14, <1>19, <1>20 DEF Saved, SavedK, NewPos
    <2>2. o.space < Length(o.content)
      <3>1. Moves(o)
        BY <1>1, <1>4 DEF IInv, SavingInv
      <3>2. CASE o.slot > 0
        BY <1>8, <1>9, <3>1, <3>2 DEF Moves, Positioned
      <3>3. CASE ~(o.slot > 0)
        <4>1. Unplaced(o)
          BY <1>4, <1>10, <3>3 DEF Placed
        <4> QED
          BY <1>8, <4>1 DEF Unplaced
      <3> QED
        BY <3>2, <3>3
    <2>3. n.slot > 0
      BY <1>18, <1>11
    <2>4. Positioned(Saved)' /\ Length(Saved.content)' = Length(o.content) /\ Saved'.space = o.space
      BY <1>18, <2>1, <2>3 DEF Positioned, Length
    <2>5. ~ InFile(SavedK, Saved.pos)'
      BY <1>12, <1>14, <1>18, <2>1 DEF InFile
    <2> QED
      BY <1>18, <1>20, <2>1, <2>2, <2>4, <2>5 DEF SavingInv
  <1>25. \A q \in Kinds : \A i \in DOMAIN idx[q] :
           /\ Kind(idx[q][i].id) = q /\ InFile(q, idx[q][i].pos)
           /\ RecordAt(q, i).id = idx[q][i].id /\ idx[q][i].space <= RecordAt(q, i).room
    <2>1. \A q \in Kinds : \A i \in DOMAIN idx[q] : idx[q][i].id \in Ids
      BY <1>8, FilesTyped DEF Entries
    <2> QED
      BY <1>8, <2>1 DEF IInv, EntriesInv, AwaitsRecord
  <1>26. \A q \in Kinds : \A i \in DOMAIN idx'[q] :
           \/ q = k /\ i = slot /\ idx'[q][i] = e
           \/ i \in DOMAIN idx[q] /\ idx'[q][i] = idx[q][i] /\ RecordAt(q, i)' = RecordAt(q, i)
    BY <1>14, <1>15, <1>17 DEF RecordAt, IsPut
  <1>27. EntriesInv'
    <2> SUFFICES ASSUME NEW q \in Kinds, NEW i \in DOMAIN idx'[q]
                 PROVE  /\ Kind(idx'[q][i].id) = q
                        /\ IF InFile(q, idx[q][i].pos)'
                           THEN RecordAt(q, i)'.id = idx'[q][i].id /\ idx'[q][i].space <= RecordAt(q, i)'.room
                           ELSE AwaitsRecord(q, i)'
      BY DEF EntriesInv
    <2>1. CASE q = k /\ i = slot /\ idx'[q][i] = e
      <3>1. ~ InFile(q, idx[q][i].pos)'
        BY <1>12, <1>13, <1>14, <2>1 DEF InFile
      <3>2. AwaitsRecord(q, i)'
        <4>1. mem'[id] = n /\ n.slot = slot /\ n.pos = pos /\ n.content = o.content /\ Writing(id)'
          BY <1>18, <1>19, <1>22
        <4>2. e.id = id /\ e.pos = pos /\ e.space = Length(o.content)
          BY <1>7
        <4>3. Length(n.content) = Length(o.content)
          BY <4>1
        <4> HIDE DEF Length
        <4> QED
          BY <2>1, <4>1, <4>2, <4>3 DEF AwaitsRecord
      <3> QED
        BY <1>3, <1>13, <2>1, <3>1, <3>2
    <2>2. CASE i \in DOMAIN idx[q] /\ idx'[q][i] = idx[q][i] /\ RecordAt(q, i)' = RecordAt(q, i)
      <3>1. InFile(q, idx[q][i].pos)'
        BY <1>14, <1>25, <2>2 DEF InFile
      <3> QED
        BY <1>25, <2>2, <3>1
    <2> QED
      BY <1>26, <2>1, <2>2
  <1>28. MemInv'
    <2> SUFFICES ASSUME NEW x \in Ids, mem'[x] # None
                 PROVE  Unplaced(mem'[x]) \/ Placed(x)' \/ BeingPlaced(x)'
      BY DEF MemInv, Unplaced
    <2>1. CASE x = id
      <3>1. mem'[x] = n /\ n.slot = slot /\ n.pos = pos /\ Kind(x) = k /\ Writing(x)'
        BY <1>3, <1>18, <1>19, <1>22, <2>1
      <3>2. idx'[k] = f /\ slot \in DOMAIN f /\ f[slot].id = x /\ f[slot].pos = pos
        BY <1>13, <1>15, <1>17, <2>1 DEF IsPut
      <3> QED
        BY <3>1, <3>2 DEF BeingPlaced
    <2>2. CASE x # id /\ Placed(x)
      <3>1. Kind(x) \in Kinds /\ mem'[x] = mem[x] /\ mem[x].slot \in DOMAIN idx[Kind(x)]
        BY <1>8, <1>19, <2>2, KindIs DEF Placed
      <3>2. mem[x].slot \in DOMAIN idx'[Kind(x)]
        BY <1>15, <1>17, <3>1 DEF IsPut
      <3> QED
        BY <1>14, <2>2, <3>1, <3>2 DEF Placed, InFile
    <2> QED
      BY <1>10, <1>19, <2>1, <2>2
  <1>29. BatchInv'
    BY <1>8, <1>14 DEF BatchInv
  <1>30. ~ skipped => \A x \in Ids : mem[x] # None /\ mem[x].slot > 0 =>
           /\ mem[x].slot \in DOMAIN idx[Kind(x)]
           /\ idx[Kind(x)][mem[x].slot].id = x /\ idx[Kind(x)][mem[x].slot].pos = mem[x].pos
    BY <1>8, <1>10 DEF IInv, SlotInv, Placed
  <1>31. ~ skipped /\ slot \in DOMAIN idx[k] => idx[k][slot].id = id
    BY <1>3, <1>4, <1>11, <1>30
  <1>32. SlotInv'
    <2> SUFFICES ASSUME ~ skipped, NEW x \in Ids, mem'[x] # None, mem'[x].slot > 0
                 PROVE  idx'[Kind(x)][mem'[x].slot].id = x /\ idx'[Kind(x)][mem'[x].slot].pos = mem'[x].pos
      BY <1>14 DEF SlotInv
    <2>1. CASE x = id
      <3>1. mem'[x] = n /\ n.slot = slot /\ n.pos = pos /\ Kind(x) = k
        BY <1>3, <1>18, <1>19, <2>1
      <3>2. idx'[k] = f /\ f[slot].id = x /\ f[slot].pos = pos
        BY <1>13, <1>15, <1>17, <2>1 DEF IsPut
      <3> QED
        BY <3>1, <3>2
    <2>2. CASE x # id
      <3>1. /\ mem'[x] = mem[x] /\ mem[x].slot \in DOMAIN idx[Kind(x)]
            /\ idx[Kind(x)][mem[x].slot].id = x /\ idx[Kind(x)][mem[x].slot].pos = mem[x].pos
        BY <1>19, <1>30, <2>2
      <3>2. idx'[Kind(x)][mem[x].slot] = idx[Kind(x)][mem[x].slot]
        BY <1>15, <1>17, <1>31, <2>2, <3>1, KindIs DEF IsPut
      <3> QED
        BY <3>1, <3>2
    <2> QED
      BY <2>1, <2>2
  <1>33. SettledInv'
    <2> SUFFICES ASSUME ~ skipped, NEW x \in Ids \ unsettled PROVE Settled(x)'
      BY <1>14 DEF SettledInv
    <2>1. Settled(x) /\ Kind(x) \in Kinds
      BY <1>8, KindIs DEF IInv, SettledInv
    <2>2. CASE x = id
      <3>1. Own(id) \subseteq {slot}
        <4>1. CASE o.slot > 0
          BY <1>4, <1>8, <1>11, <2>1, <2>2, <4>1 DEF Settled
        <4>2. CASE ~(o.slot > 0)
          BY <1>4, <1>8, <1>9, <2>1, <2>2, <4>2 DEF Settled
        <4> QED
          BY <4>1, <4>2
      <3>2. Own(id)' = {}
        <4> SUFFICES ASSUME NEW i \in Own(id)' PROVE FALSE
          OBVIOUS
        <4>1. /\ i \in DOMAIN idx'[k] /\ idx'[k][i].id = id /\ InFile(k, idx[k][i].pos)'
              /\ RecordAt(k, i)'.live
          BY <1>3 DEF Own
        <4>2. i # slot
          BY <1>12, <1>13, <1>14, <1>15, <1>17, <4>1 DEF InFile, IsPut
        <4>3. i \in Own(id)
          BY <1>3, <1>14, <1>26, <4>1, <4>2 DEF Own, InFile
        <4> QED
          BY <3>1, <4>2, <4>3
      <3>3. mem'[x] # None /\ mem'[x].slot # 0
        <4>1. slot # 0
          BY <1>11
        <4> QED
          BY <1>18, <1>19, <2>2, <4>1
      <3> QED
        BY <1>22, <2>2, <3>2, <3>3 DEF Settled
    <2>3. CASE x # id
      <3>1. Own(x)' = Own(x)
        <4>1. ASSUME NEW i \in Own(x)' PROVE i \in Own(x)
          <5>1. /\ i \in DOMAIN idx'[Kind(x)] /\ idx'[Kind(x)][i].id = x
                /\ InFile(Kind(x), idx[Kind(x)][i].pos)' /\ RecordAt(Kind(x), i)'.live
            BY <4>1 DEF Own
          <5> QED
            BY <1>13, <1>14, <1>26, <2>1, <2>3, <5>1 DEF Own, InFile
        <4>2. ASSUME NEW i \in Own(x) PROVE i \in Own(x)'
          <5>1. /\ i \in DOMAIN idx[Kind(x)] /\ idx[Kind(x)][i].id = x
                /\ InFile(Kind(x), idx[Kind(x)][i].pos) /\ RecordAt(Kind(x), i).live
            BY <4>2 DEF Own
          <5>2. i \in DOMAIN idx'[Kind(x)] /\ idx'[Kind(x)][i] = idx[Kind(x)][i]
            BY <1>15, <1>17, <1>31, <2>1, <2>3, <5>1 DEF IsPut
          <5> QED
            BY <1>14, <5>1, <5>2 DEF Own, InFile, RecordAt
        <4> QED
          BY <4>1, <4>2
      <3>2. \A i \in Own(x) : RecordAt(Kind(x), i)' = RecordAt(Kind(x), i)
        <4> SUFFICES ASSUME NEW i \in Own(x) PROVE RecordAt(Kind(x), i)' = RecordAt(Kind(x), i)
          OBVIOUS
        <4>1. /\ i \in DOMAIN idx[Kind(x)] /\ idx[Kind(x)][i].id = x
          BY DEF Own
        <4>2. idx'[Kind(x)][i] = idx[Kind(x)][i]
          BY <1>15, <1>17, <1>31, <2>1, <2>3, <4>1 DEF IsPut
        <4> QED
          BY <1>14, <4>2 DEF RecordAt
      <3>3. mem'[x] = mem[x] /\ acked' = acked /\ serving'
        BY <1>8, <1>14, <1>19, <2>3
      <3> QED
        BY <1>8, <1>22, <2>1, <2>3, <3>1, <3>2, <3>3 DEF Settled
    <2> QED
      BY <2>2, <2>3
  <1> QED
    BY <1>21, <1>23, <1>24, <1>27, <1>28, <1>29, <1>32, <1>33 DEF IInv

LEMMA SaveDataKeeps ==
  ASSUME IInv, SaveData
  PROVE  IInv'
  <1>1. saving # None /\ saving.step = "data"
    BY DEF SaveData
  <1>2. PICK id \in Ids : id = saving.id
    BY <1>1, InSave
  <1>3. PICK k \in Kinds : k = SavedK /\ k = Kind(id)
    BY <1>1, <1>2, InSave
  <1>4. PICK o \in Objects : o = Saved /\ o = mem[id] /\ o # None
    BY <1>1, <1>2, InSave
  <1>5. PICK r : r = IF InFile(k, o.pos) THEN Record(data[k][o.pos].room) ELSE NewRecord
    OBVIOUS
  <1>6. PICK len \in Nat \ {0} : len = Length(o.content)
    BY <1>1, <1>4, InSave
  <1>7. /\ StoreTypeOK /\ serving /\ batch = None /\ ~ torn
        /\ \A x \in Ids : ~ InBatch(x) /\ (Writing(x) => x = id)
        /\ idx \in [Kinds -> Seq(Entries)] /\ data \in [Kinds -> Seq(Records)]
        /\ mem \in [Ids -> Objects \union {None}] /\ acked \in [Ids -> Contents \union {None}]
    BY <1>1, <1>2, InSave DEF StoreTypeOK
  <1>8. /\ o.slot \in Nat /\ o.pos \in Nat /\ o.space \in Nat /\ o.content \in Contents
        /\ o.content # None
    BY RecordStoreAssumption DEF Objects
  <1>9. /\ o.slot > 0
        /\ IF InFile(k, o.pos) THEN len <= o.space ELSE o.pos = Len(data[k]) + 1
    BY <1>1, <1>3, <1>4, <1>6 DEF IInv, SavingInv, Positioned, NewPos
  <1>10. /\ InFile(k, o.pos) => Placed(id) /\ \A x \in Ids : ~ Writing(x)
         /\ ~ InFile(k, o.pos) => BeingPlaced(id) /\ Writing(id)
    BY <1>3, <1>4, <1>7, <1>8, <1>9 DEF IInv, MemInv, Unplaced, Placed, BeingPlaced, Writing
  <1>11. /\ r \in Records /\ r.id = id /\ r.live /\ r.content = o.content /\ len <= r.room
         /\ InFile(k, o.pos) => data[k][o.pos].id = id /\ data[k][o.pos].room = r.room
    <2>1. CASE InFile(k, o.pos)
      <3>1. data[k][o.pos] \in Records
        BY <1>7, <2>1, FilesTyped DEF InFile
      <3>2. data[k][o.pos].id = id /\ o.space <= data[k][o.pos].room
        BY <1>3, <1>4, <1>10, <2>1 DEF Placed
      <3>3. r = Record(data[k][o.pos].room)
        BY <1>5, <2>1
      <3>4. data[k][o.pos].room \in Nat
        BY <3>1 DEF Records
      <3>5. len <= data[k][o.pos].room
        BY <1>8, <1>9, <2>1, <3>2, <3>4
      <3> QED
        BY <1>2, <1>4, <1>8, <3>2, <3>3, <3>4, <3>5 DEF Record, Records
    <2>2. CASE ~ InFile(k, o.pos)
      <3>1. r = Record(len)
        BY <1>4, <1>5, <1>6, <2>2 DEF NewRecord
      <3>2. len <= len
        OBVIOUS
      <3> QED
        BY <1>2, <1>4, <1>8, <2>2, <3>1, <3>2 DEF Record, Records
    <2> QED
      BY <2>1, <2>2
  <1>12. o.pos \in 1 .. Len(data[k]) + 1
    <2>1. Len(data[k]) \in Nat /\ DOMAIN data[k] = 1 .. Len(data[k])
      BY <1>7, FilesTyped
    <2> QED
      BY <1>9, <2>1 DEF InFile
  <1>13. PICK f \in Seq(Records) : f = PutAt(data[k], o.pos, r) /\ IsPut(f, data[k], o.pos, r)
    <2>1. data[k] \in Seq(Records)
      BY <1>7
    <2>2. PutAt(data[k], o.pos, r) \in Seq(Records) /\ IsPut(PutAt(data[k], o.pos, r), data[k], o.pos, r)
      BY <1>11, <1>12, <2>1, PutAtIs
    <2> QED
      BY <2>2
  <1>14. PICK n \in Objects : /\ n.slot = o.slot /\ n.pos = o.pos /\ n.space = len /\ n.content = o.content
                              /\ n # None /\ n = [o EXCEPT !.space = len]
    <2>1. [o EXCEPT !.space = len] \in Objects
      BY DEF Objects
    <2> QED
      BY <2>1, RecordStoreAssumption DEF Objects
  <1>15. /\ data' = [data EXCEPT ![k] = f]
         /\ mem' = [mem EXCEPT ![id] = n]
         /\ acked' = [acked EXCEPT ![id] = o.content]
         /\ saving' = None
         /\ UNCHANGED <<idx, serving, batch, unsettled, torn, skipped, faults>>
    <2>1. data' = [data EXCEPT ![k] = PutAt(@, o.pos, r)]
      BY <1>2, <1>3, <1>4, <1>5, <1>7 DEF SaveData, InFile
    <2>2. mem' = [mem EXCEPT ![id] = n]
      BY <1>2, <1>4, <1>6, <1>7, <1>14 DEF SaveData
    <2> QED
      BY <1>2, <1>4, <1>7, <1>13, <2>1, <2>2 DEF SaveData
  <1>16. /\ \A q \in Kinds : data'[q] = IF q = k THEN f ELSE data[q]
         /\ data' \in [Kinds -> Seq(Records)]
    BY <1>7, <1>15
  <1>17. /\ \A x \in Ids : mem'[x] = IF x = id THEN n ELSE mem[x]
         /\ mem' \in [Ids -> Objects \union {None}]
         /\ \A x \in Ids : acked'[x] = IF x = id THEN o.content ELSE acked[x]
         /\ acked' \in [Ids -> Contents \union {None}]
    BY <1>7, <1>8, <1>15
  <1>18. StoreTypeOK'
    BY <1>7, <1>15, <1>16, <1>17 DEF StoreTypeOK
  <1>19. StateInv' /\ SavingInv' /\ BatchInv'
    BY <1>7, <1>15 DEF StateInv, SavingInv, BatchInv
  <1>20. \A x \in Ids : ~ InBatch(x)' /\ ~ Writing(x)'
    BY <1>7, <1>15 DEF InBatch, Writing
  <1>21. \A q \in Kinds : \A p : InFile(q, p)' <=> (InFile(q, p) \/ (q = k /\ p = o.pos))
    BY <1>13, <1>16 DEF InFile, IsPut
  <1>22. \A q \in Kinds : \A p : InFile(q, p) => IF q = k /\ p = o.pos THEN data'[q][p] = r
                                             ELSE data'[q][p] = data[q][p]
    BY <1>13, <1>16 DEF InFile, IsPut
  <1>23. data'[k][o.pos] = r
    BY <1>13, <1>16 DEF IsPut
  <1>24. \A q \in Kinds : \A p : InFile(q, p) => data'[q][p].id = data[q][p].id /\ data'[q][p].room = data[q][p].room
    BY <1>11, <1>22
  <1>25. \A q \in Kinds : \A i \in DOMAIN idx[q] :
           /\ idx[q][i].id \in Ids /\ Kind(idx[q][i].id) = q
           /\ IF InFile(q, idx[q][i].pos)
              THEN data[q][idx[q][i].pos].id = idx[q][i].id /\ idx[q][i].space <= data[q][idx[q][i].pos].room
              ELSE /\ Writing(id) /\ q = k /\ idx[q][i].id = id /\ i = o.slot /\ idx[q][i].pos = o.pos
                   /\ idx[q][i].space = len
    <2> SUFFICES ASSUME NEW q \in Kinds, NEW i \in DOMAIN idx[q]
                 PROVE  /\ idx[q][i].id \in Ids /\ Kind(idx[q][i].id) = q
                        /\ IF InFile(q, idx[q][i].pos)
                           THEN data[q][idx[q][i].pos].id = idx[q][i].id
                                /\ idx[q][i].space <= data[q][idx[q][i].pos].room
                           ELSE /\ Writing(id) /\ q = k /\ idx[q][i].id = id /\ i = o.slot
                                /\ idx[q][i].pos = o.pos /\ idx[q][i].space = len
      OBVIOUS
    <2>1. idx[q][i].id \in Ids
      BY <1>7, FilesTyped DEF Entries
    <2> QED
      BY <1>3, <1>4, <1>6, <1>7, <2>1 DEF IInv, EntriesInv, RecordAt, AwaitsRecord
  <1>26. EntriesInv'
    <2> SUFFICES ASSUME NEW q \in Kinds, NEW i \in DOMAIN idx[q]
                 PROVE  /\ InFile(q, idx[q][i].pos)'
                        /\ data'[q][idx[q][i].pos].id = idx[q][i].id
                        /\ idx[q][i].space <= data'[q][idx[q][i].pos].room
      BY <1>15, <1>25 DEF EntriesInv, RecordAt
    <2>1. CASE InFile(q, idx[q][i].pos)
      BY <1>15, <1>21, <1>24, <1>25, <2>1
    <2>2. CASE ~ InFile(q, idx[q][i].pos)
      BY <1>11, <1>15, <1>21, <1>23, <1>25, <2>2
    <2> QED
      BY <2>1, <2>2
  <1>27. MemInv'
    <2> SUFFICES ASSUME NEW x \in Ids, mem'[x] # None
                 PROVE  Unplaced(mem'[x]) \/ Placed(x)'
      BY DEF MemInv, Unplaced
    <2>1. CASE x = id
      <3>1. o.slot \in DOMAIN idx[k]
        BY <1>3, <1>4, <1>7, <1>10 DEF Placed, BeingPlaced
      <3>2. mem'[x] = n /\ Kind(x) = k /\ InFile(k, o.pos)'
        BY <1>3, <1>17, <1>21, <2>1
      <3> QED
        BY <1>9, <1>11, <1>14, <1>15, <1>23, <2>1, <3>1, <3>2 DEF Placed
    <2>2. CASE x # id
      <3>1. mem'[x] = mem[x] /\ Kind(x) \in Kinds /\ (Unplaced(mem[x]) \/ Placed(x))
        BY <1>7, <1>17, <2>2, KindIs DEF IInv, MemInv, BeingPlaced
      <3>2. ASSUME Placed(x) PROVE Placed(x)'
        <4>1. InFile(Kind(x), mem[x].pos)' /\ InFile(Kind(x), mem[x].pos)
          BY <1>21, <3>1, <3>2 DEF Placed
        <4> QED
          BY <1>7, <1>15, <1>24, <3>1, <3>2, <4>1 DEF Placed
      <3> QED
        BY <3>1, <3>2
    <2> QED
      BY <2>1, <2>2
  <1>28. SlotInv'
    BY <1>4, <1>7, <1>14, <1>15, <1>17 DEF IInv, SlotInv
  <1>29. SettledInv'
    <2> SUFFICES ASSUME ~ skipped, NEW x \in Ids \ unsettled PROVE Settled(x)'
      BY <1>15 DEF SettledInv
    <2>1. Settled(x) /\ Kind(x) \in Kinds
      BY <1>7, KindIs DEF IInv, SettledInv
    <2>2. CASE x = id
      <3>1. o.slot \in DOMAIN idx[k] /\ idx[k][o.slot].id = id /\ idx[k][o.slot].pos = o.pos
        BY <1>3, <1>4, <1>7, <1>9, <1>10 DEF IInv, SlotInv, Placed, BeingPlaced
      <3>2. o.slot \in Own(id)' /\ RecordAt(k, o.slot)' = r
        BY <1>3, <1>11, <1>15, <1>21, <1>23, <3>1 DEF Own, RecordAt
      <3>3. ASSUME NEW i \in Own(id)' PROVE i = o.slot
        <4>1. /\ i \in DOMAIN idx[k] /\ idx[k][i].id = id
              /\ InFile(k, idx[k][i].pos)' /\ data'[k][idx[k][i].pos].live
          BY <1>3, <1>15, <3>3 DEF Own, RecordAt
        <4>2. CASE InFile(k, o.pos)
          <5>1. o.slot \in Own(id) /\ data[k][o.pos].live
            BY <1>3, <1>4, <1>7, <1>8, <1>9, <1>10, <2>1, <2>2, <3>1, <4>2 DEF Settled, Own, RecordAt
          <5>2. InFile(k, idx[k][i].pos) /\ data[k][idx[k][i].pos].live
            <6>1. CASE idx[k][i].pos = o.pos
              BY <4>2, <5>1, <6>1
            <6>2. CASE idx[k][i].pos # o.pos
              <7>1. InFile(k, idx[k][i].pos)
                BY <1>15, <1>21, <4>1, <6>2
              <7> QED
                BY <1>22, <4>1, <6>2, <7>1
            <6> QED
              BY <6>1, <6>2
          <5>3. i \in Own(id)
            BY <1>3, <4>1, <5>2 DEF Own, RecordAt
          <5> QED
            BY <2>1, <2>2, <5>1, <5>3 DEF Settled
        <4>3. CASE ~ InFile(k, o.pos)
          <5>1. Own(id) = {}
            BY <1>10, <2>1, <2>2, <4>3 DEF Settled
          <5>2. ~ InFile(k, idx[k][i].pos)
            <6> SUFFICES ASSUME InFile(k, idx[k][i].pos) PROVE FALSE
              OBVIOUS
            <6>1. i \in Own(id)
              BY <1>3, <1>22, <4>1, <4>3 DEF Own, RecordAt
            <6> QED
              BY <5>1, <6>1
          <5> QED
            BY <1>25, <4>1, <5>2
        <4> QED
          BY <4>2, <4>3
      <3>4. /\ mem'[x] # None /\ mem'[x].slot # 0 /\ mem'[x].slot \in Own(x)'
            /\ acked'[x] # None /\ RecordAt(Kind(x), o.slot)'.content = acked'[x]
        <4>1. mem'[x] = n /\ acked'[x] = o.content /\ Kind(x) = k
          BY <1>3, <1>17, <2>2
        <4>2. n.slot = o.slot /\ n # None /\ o.slot # 0
          BY <1>8, <1>9, <1>14
        <4> QED
          BY <1>8, <1>11, <2>2, <3>2, <4>1, <4>2
      <3>5. \A i, j \in Own(x)' : i = j
        BY <2>2, <3>3
      <3>6. o.slot \in Own(x)'
        BY <2>2, <3>2
      <3> QED
        BY <1>20, <3>4, <3>5, <3>6 DEF Settled
    <2>3. CASE x # id
      <3>1. \A i \in DOMAIN idx[Kind(x)] : idx[Kind(x)][i].id = x =>
              /\ InFile(Kind(x), idx[Kind(x)][i].pos) /\ InFile(Kind(x), idx[Kind(x)][i].pos)'
              /\ RecordAt(Kind(x), i)' = RecordAt(Kind(x), i)
        <4> SUFFICES ASSUME NEW i \in DOMAIN idx[Kind(x)], idx[Kind(x)][i].id = x
                     PROVE  /\ InFile(Kind(x), idx[Kind(x)][i].pos)
                            /\ InFile(Kind(x), idx[Kind(x)][i].pos)'
                            /\ data'[Kind(x)][idx[Kind(x)][i].pos] = data[Kind(x)][idx[Kind(x)][i].pos]
          BY <1>15 DEF RecordAt
        <4>1. InFile(Kind(x), idx[Kind(x)][i].pos) /\ data[Kind(x)][idx[Kind(x)][i].pos].id = x
          BY <1>25, <2>1, <2>3
        <4>2. ~(Kind(x) = k /\ idx[Kind(x)][i].pos = o.pos)
          BY <1>11, <2>3, <4>1
        <4> QED
          BY <1>15, <1>21, <1>22, <2>1, <4>1, <4>2
      <3>2. Own(x)' = Own(x) /\ \A i \in Own(x) : RecordAt(Kind(x), i)' = RecordAt(Kind(x), i)
        BY <1>15, <3>1 DEF Own
      <3>3. mem'[x] = mem[x] /\ acked'[x] = acked[x] /\ serving' = serving
        BY <1>15, <1>17, <2>3
      <3> QED
        BY <1>7, <1>20, <2>1, <2>3, <3>2, <3>3 DEF Settled
    <2> QED
      BY <2>2, <2>3
  <1> QED
    BY <1>18, <1>19, <1>26, <1>27, <1>28, <1>29 DEF IInv

-----------------------------------------------------------------------------
(* Steps that leave the index alone and at most append records that no     *)
(* entry leads to.                                                         *)
Grows ==
  /\ idx' = idx
  /\ \A q \in Kinds : \A p : InFile(q, p) => InFile(q, p)' /\ data'[q][p] = data[q][p]

NoneWriting == ~ torn /\ \A x \in Ids : ~ Writing(x)

LEMMA AllInFile ==
  ASSUME IInv, NoneWriting, NEW q \in Kinds, NEW i \in DOMAIN idx[q]
  PROVE  /\ idx[q][i].id \in Ids /\ Kind(idx[q][i].id) = q
         /\ InFile(q, idx[q][i].pos)
         /\ RecordAt(q, i).id = idx[q][i].id /\ idx[q][i].space <= RecordAt(q, i).room
  <1>1. idx[q][i].id \in Ids
    BY FilesTyped DEF IInv, Entries
  <1> QED
    BY <1>1 DEF IInv, EntriesInv, AwaitsRecord, NoneWriting

LEMMA GrowsEntries ==
  ASSUME IInv, NoneWriting, NoneWriting', Grows
  PROVE  EntriesInv'
  <1>1. idx' = idx
    BY DEF Grows
  <1> SUFFICES ASSUME NEW q \in Kinds, NEW i \in DOMAIN idx[q]
               PROVE  /\ Kind(idx[q][i].id) = q /\ InFile(q, idx[q][i].pos)'
                      /\ RecordAt(q, i)'.id = idx[q][i].id /\ idx[q][i].space <= RecordAt(q, i)'.room
    BY <1>1 DEF EntriesInv
  <1> QED
    BY <1>1, AllInFile DEF Grows, RecordAt

LEMMA GrowsOwn ==
  ASSUME IInv, NoneWriting, Grows, NEW x \in Ids
  PROVE  Own(x)' = Own(x) /\ \A i \in Own(x) : RecordAt(Kind(x), i)' = RecordAt(Kind(x), i)
  <1>1. \A i \in DOMAIN idx[Kind(x)] : InFile(Kind(x), idx[Kind(x)][i].pos)
    BY AllInFile, KindIs
  <1>2. idx' = idx
    BY DEF Grows
  <1>3. \A i \in DOMAIN idx[Kind(x)] : InFile(Kind(x), idx[Kind(x)][i].pos)' /\ RecordAt(Kind(x), i)' = RecordAt(Kind(x), i)
    BY <1>1, <1>2, KindIs DEF Grows, RecordAt
  <1> QED
    BY <1>1, <1>2, <1>3 DEF Own

LEMMA GrowsPlaced ==
  ASSUME IInv, Grows, NEW x \in Ids, mem'[x] = mem[x], InBatch(x) => InBatch(x)', Placed(x)
  PROVE  Placed(x)'
  BY KindIs DEF Grows, Placed

LEMMA AppendGrows ==
  ASSUME StoreTypeOK, NEW k \in Kinds, NEW r \in Records, idx' = idx,
         data' = [data EXCEPT ![k] = Append(@, r)]
  PROVE  /\ Grows /\ data' \in [Kinds -> Seq(Records)]
         /\ Len(data[k]) + 1 \in DOMAIN data'[k] /\ data'[k][Len(data[k]) + 1] = r
  <1>1. /\ data \in [Kinds -> Seq(Records)] /\ data[k] \in Seq(Records)
        /\ Len(data[k]) \in Nat /\ DOMAIN data[k] = 1 .. Len(data[k])
    BY FilesTyped DEF StoreTypeOK
  <1>2. PICK f \in Seq(Records) : /\ f = Append(data[k], r) /\ Len(f) = Len(data[k]) + 1
                                  /\ \A j \in 1 .. Len(data[k]) : f[j] = data[k][j]
                                  /\ f[Len(data[k]) + 1] = r
    BY <1>1, AppendProperties
  <1>3. DOMAIN f = 1 .. Len(data[k]) + 1
    BY <1>2, LenProperties
  <1>4. \A q \in Kinds : data'[q] = IF q = k THEN f ELSE data[q]
    BY <1>1, <1>2
  <1>5. data' \in [Kinds -> Seq(Records)]
    BY <1>1, <1>2
  <1>6. Len(data[k]) + 1 \in DOMAIN f
    BY <1>1, <1>3
  <1>7. \A p \in DOMAIN data[k] : p \in DOMAIN f /\ f[p] = data[k][p]
    BY <1>1, <1>2, <1>3
  <1>8. Grows
    BY <1>4, <1>7 DEF Grows, InFile
  <1> QED
    BY <1>2, <1>4, <1>5, <1>6, <1>8

(* A failed save.                                                          *)
LEMMA FailedKeeps ==
  ASSUME IInv, saving # None, Failed, Grows, data' \in [Kinds -> Seq(Records)],
         saving.step = "data" => InFile(SavedK, Saved.pos)
  PROVE  IInv'
  <1>1. PICK id \in Ids : id = saving.id /\ Saved = mem[id] /\ SavedK = Kind(id)
    BY InSave
  <1>2. /\ StoreTypeOK /\ serving /\ batch = None /\ ~ torn /\ Saved.content \in Contents
        /\ \A x \in Ids : ~ InBatch(x) /\ (Writing(x) => x = id)
    BY <1>1, InSave
  <1>3. /\ saving' = None /\ faults < MaxFaults /\ faults' = faults + 1
        /\ UNCHANGED <<idx, serving, mem, batch, torn, skipped>>
        /\ \A x \in Ids : x = id \/ acked'[x] = acked[x]
        /\ (acked' = acked /\ unsettled' = unsettled)
             \/ (acked' = [acked EXCEPT ![id] = Saved.content] /\ unsettled' = unsettled \union {id})
    BY <1>1, <1>2 DEF Failed, Fault, StoreTypeOK
  <1>4. NoneWriting
    BY <1>1, <1>2 DEF NoneWriting, Writing
  <1>5. NoneWriting' /\ \A x \in Ids : ~ InBatch(x)'
    BY <1>2, <1>3 DEF NoneWriting, Writing, InBatch
  <1>6. StoreTypeOK'
    <2>1. faults' \in 0 .. MaxFaults
      BY <1>2, <1>3, RecordStoreAssumption DEF StoreTypeOK
    <2>2. acked' \in [Ids -> Contents \union {None}] /\ unsettled' \subseteq Ids
      BY <1>2, <1>3 DEF StoreTypeOK
    <2>3. saving' \in Requests \union {None}
      BY <1>3
    <2> QED
      BY <1>2, <1>3, <2>1, <2>2, <2>3 DEF StoreTypeOK
  <1>7. StateInv' /\ SavingInv' /\ BatchInv'
    BY <1>2, <1>3 DEF StateInv, SavingInv, BatchInv
  <1>8. EntriesInv'
    BY <1>4, <1>5, GrowsEntries
  <1>9. MemInv'
    <2> SUFFICES ASSUME NEW x \in Ids, mem[x] # None PROVE Unplaced(mem[x]) \/ Placed(x)'
      BY <1>3 DEF MemInv, Unplaced
    <2>1. Unplaced(mem[x]) \/ Placed(x)
      BY <1>4 DEF IInv, MemInv, BeingPlaced, NoneWriting
    <2> QED
      BY <1>2, <1>3, <2>1, GrowsPlaced
  <1>10. SlotInv'
    BY <1>2, <1>3 DEF IInv, SlotInv
  <1>11. SettledInv'
    <2> SUFFICES ASSUME ~ skipped, NEW x \in Ids \ unsettled' PROVE Settled(x)'
      BY <1>3 DEF SettledInv
    <2>1. x \in Ids \ unsettled /\ acked'[x] = acked[x]
      BY <1>3
    <2>2. Settled(x)
      BY <1>2, <2>1 DEF IInv, SettledInv
    <2>3. Own(x)' = Own(x) /\ \A i \in Own(x) : RecordAt(Kind(x), i)' = RecordAt(Kind(x), i)
      BY <1>4, GrowsOwn
    <2> QED
      BY <1>2, <1>3, <1>4, <1>5, <2>1, <2>2, <2>3 DEF Settled, NoneWriting
  <1> QED
    BY <1>6, <1>7, <1>8, <1>9, <1>10, <1>11 DEF IInv

LEMMA OpenDataFailsKeeps ==
  ASSUME IInv, OpenDataFails
  PROVE  IInv'
  <1>1. /\ saving # None /\ Failed /\ data' = data /\ idx' = idx
        /\ saving.step = "data" => InFile(SavedK, Saved.pos)
    BY DEF OpenDataFails, Failed, InFile
  <1>2. Grows /\ data' \in [Kinds -> Seq(Records)]
    BY <1>1 DEF Grows, InFile, IInv, StoreTypeOK
  <1> QED
    BY <1>1, <1>2, FailedKeeps

LEMMA OpenIndexFailsKeeps ==
  ASSUME IInv, OpenIndexFails
  PROVE  IInv'
  <1>1. /\ saving # None /\ Failed /\ saving.step # "data" /\ idx' = idx
        /\ data' = [data EXCEPT ![SavedK] = Append(@, NewRecord)]
    BY DEF OpenIndexFails, Failed
  <1>2. PICK r \in Records : r = NewRecord
    <2>1. /\ saving.id \in Ids /\ Saved.content \in Contents /\ Length(Saved.content) \in Nat
      BY <1>1, InSave
    <2> HIDE DEF Length
    <2> QED
      BY <2>1 DEF NewRecord, Record, Records
  <1>3. PICK k \in Kinds : k = SavedK
    BY <1>1, InSave
  <1>4. StoreTypeOK
    BY DEF IInv
  <1>5. data' = [data EXCEPT ![k] = Append(@, r)]
    BY <1>1, <1>2, <1>3
  <1>6. Grows /\ data' \in [Kinds -> Seq(Records)]
    BY <1>1, <1>4, <1>5, AppendGrows
  <1> QED
    BY <1>1, <1>6, FailedKeeps

-----------------------------------------------------------------------------
(* A batch of points.                                                      *)
LEMMA CreatePointsKeeps ==
  ASSUME IInv, NEW n \in 1 .. 2, NEW ids \in [1 .. n -> PointIds], CreatePoints(ids)
  PROVE  IInv'
  <1>1. /\ serving /\ saving = None /\ batch = None
        /\ UNCHANGED <<idx, data, serving, saving, acked, unsettled, torn, skipped, faults>>
    BY DEF CreatePoints, Idle, disk
  <1>2. StoreTypeOK /\ ~ torn /\ mem \in [Ids -> Objects \union {None}]
    BY <1>1 DEF IInv, StoreTypeOK, StateInv
  <1>3. NoneWriting /\ \A x \in Ids : ~ InBatch(x)
    BY <1>1, <1>2 DEF NoneWriting, Writing, InBatch
  <1>4. DOMAIN ids = 1 .. n /\ ids \in Seq(PointIds) /\ Len(ids) = n
    BY LenProperties
  <1>5. PICK P : P = {ids[i] : i \in {i \in DOMAIN ids : 1 .. i \subseteq New(ids)}}
    OBVIOUS
  <1>6. PICK o \in Objects : /\ o = Fresh(Blank) /\ o # None /\ Unplaced(o) /\ o.slot = 0
                             /\ o.content = Blank
    <2>1. Fresh(Blank).slot = 0 /\ Fresh(Blank).content = Blank
      BY DEF Fresh
    <2> QED
      BY <2>1, BlankIs, FreshIs, RecordStoreAssumption
  <1>7. mem' = [x \in Ids |-> IF x \in P THEN o ELSE mem[x]]
    BY <1>5, <1>6 DEF CreatePoints
  <1>8. \A x \in P : mem[x] = None
    <2> SUFFICES ASSUME NEW i \in DOMAIN ids, 1 .. i \subseteq New(ids) PROVE mem[ids[i]] = None
      BY <1>5
    <2>1. i \in 1 .. i
      BY <1>4
    <2> QED
      BY <2>1 DEF New
  <1>9. /\ \A x \in Ids : mem'[x] = IF x \in P THEN o ELSE mem[x]
        /\ mem' \in [Ids -> Objects \union {None}]
    BY <1>2, <1>6, <1>7
  <1>10. \/ batch' = None
         \/ /\ batch' = [left |-> ids, entries |-> <<>>] /\ New(ids) = DOMAIN ids
            /\ batch' \in Batches /\ batch'.left = ids /\ batch'.entries = <<>>
    <2>1. [left |-> ids, entries |-> <<>>] \in Batches
      BY <1>4, EmptySeq DEF Batches
    <2> QED
      BY <2>1 DEF CreatePoints
  <1>11. \A x \in Ids : ~ InBatch(x)' /\ ~ Writing(x)'
    BY <1>1, <1>10 DEF InBatch, BatchIds, Writing
  <1>12. StoreTypeOK'
    BY <1>1, <1>2, <1>9, <1>10 DEF StoreTypeOK
  <1>13. StateInv' /\ SavingInv'
    BY <1>1, <1>2 DEF StateInv, SavingInv
  <1>14. Grows /\ NoneWriting'
    BY <1>1, <1>2, <1>11 DEF Grows, InFile, NoneWriting
  <1>15. EntriesInv'
    BY <1>3, <1>14, GrowsEntries
  <1>16. MemInv'
    <2> SUFFICES ASSUME NEW x \in Ids, mem'[x] # None PROVE Unplaced(mem'[x]) \/ Placed(x)'
      BY DEF MemInv, Unplaced
    <2>1. CASE x \in P
      BY <1>6, <1>9, <2>1
    <2>2. CASE x \notin P
      <3>1. mem'[x] = mem[x] /\ (Unplaced(mem[x]) \/ Placed(x))
        BY <1>3, <1>9, <2>2 DEF IInv, MemInv, BeingPlaced, NoneWriting
      <3> QED
        BY <1>3, <1>14, <3>1, GrowsPlaced
    <2> QED
      BY <2>1, <2>2
  <1>17. BatchInv'
    <2> SUFFICES ASSUME batch' # None
                 PROVE  /\ \A j \in DOMAIN batch'.entries : FALSE
                        /\ \A j \in DOMAIN batch'.left :
                             /\ mem'[batch'.left[j]] # None /\ mem'[batch'.left[j]].slot = 0
                             /\ mem'[batch'.left[j]].content = Blank
                             /\ \A i \in DOMAIN batch'.left : batch'.left[i] = batch'.left[j] => i = j
      BY DEF BatchInv
    <2>1. batch'.left = ids /\ batch'.entries = <<>> /\ New(ids) = DOMAIN ids
      BY <1>10
    <2>2. \A j \in DOMAIN ids : ids[j] \in P /\ ids[j] \in Ids
      <3>1. \A j \in DOMAIN ids : 1 .. j \subseteq New(ids)
        BY <1>4, <2>1
      <3>2. \A j \in DOMAIN ids : ids[j] \in P
        BY <1>5, <3>1
      <3>3. \A j \in DOMAIN ids : ids[j] \in Ids
        BY <1>4, KindIs
      <3> QED
        BY <3>2, <3>3
    <2>3. ASSUME NEW i \in DOMAIN ids, NEW j \in DOMAIN ids, i < j PROVE ids[i] # ids[j]
      <3>1. ids[j] \notin Range(SubSeq(ids, 1, j - 1))
        BY <2>1 DEF New
      <3>2. i \in 1 .. j - 1 /\ j - 1 \in Int
        BY <1>4, <2>3
      <3>3. /\ SubSeq(ids, 1, j - 1) \in Seq(PointIds)
            /\ Len(SubSeq(ids, 1, j - 1)) = IF 1 <= j - 1 THEN j - 1 - 1 + 1 ELSE 0
            /\ \A m \in 1 .. j - 1 - 1 + 1 : SubSeq(ids, 1, j - 1)[m] = ids[1 + m - 1]
        <4>1. \A m \in 1 .. j - 1 : ids[m] \in PointIds
          BY <1>4
        <4> QED
          BY <3>2, <4>1, SubSeqProperties
      <3>4. i \in DOMAIN SubSeq(ids, 1, j - 1) /\ SubSeq(ids, 1, j - 1)[i] = ids[i]
        <4>1. j - 1 - 1 + 1 = j - 1 /\ 1 <= j - 1 /\ 1 + i - 1 = i
          BY <1>4, <3>2
        <4>2. Len(SubSeq(ids, 1, j - 1)) = j - 1 /\ SubSeq(ids, 1, j - 1)[i] = ids[i]
          BY <3>2, <3>3, <4>1
        <4> QED
          BY <3>2, <3>3, <4>2, LenProperties
      <3>5. ids[i] \in Range(SubSeq(ids, 1, j - 1))
        BY <3>4 DEF Range
      <3> QED
        BY <3>1, <3>5
    <2>4. \A i, j \in DOMAIN ids : ids[i] = ids[j] => i = j
      <3> SUFFICES ASSUME NEW i \in DOMAIN ids, NEW j \in DOMAIN ids, ids[i] = ids[j], i # j PROVE FALSE
        OBVIOUS
      <3>1. i < j \/ j < i
        BY <1>4
      <3> QED
        BY <2>3, <3>1
    <2> QED
      BY <1>6, <1>9, <2>1, <2>2, <2>4
  <1>18. SlotInv'
    <2> SUFFICES ASSUME ~ skipped, NEW x \in Ids, mem'[x] # None, mem'[x].slot > 0
                 PROVE  idx[Kind(x)][mem'[x].slot].id = x /\ idx[Kind(x)][mem'[x].slot].pos = mem'[x].pos
      BY <1>1 DEF SlotInv
    <2>1. mem'[x] = mem[x]
      BY <1>6, <1>9
    <2> QED
      BY <1>3, <2>1 DEF IInv, SlotInv
  <1>19. SettledInv'
    <2> SUFFICES ASSUME ~ skipped, NEW x \in Ids \ unsettled PROVE Settled(x)'
      BY <1>1 DEF SettledInv
    <2>1. Settled(x)
      BY <1>2 DEF IInv, SettledInv
    <2>2. Own(x)' = Own(x) /\ \A i \in Own(x) : RecordAt(Kind(x), i)' = RecordAt(Kind(x), i)
      BY <1>3, <1>14, GrowsOwn
    <2>3. CASE x \in P
      <3>1. mem[x] = None /\ mem'[x] = o
        BY <1>8, <1>9, <2>3
      <3> QED
        BY <1>1, <1>3, <1>6, <1>11, <2>1, <2>2, <3>1 DEF Settled, NoneWriting
    <2>4. CASE x \notin P
      <3>1. mem'[x] = mem[x]
        BY <1>9, <2>4
      <3> QED
        BY <1>1, <1>3, <1>11, <2>1, <2>2, <3>1 DEF Settled, NoneWriting
    <2> QED
      BY <2>3, <2>4
  <1> QED
    BY <1>12, <1>13, <1>15, <1>16, <1>17, <1>18, <1>19 DEF IInv

LEMMA InBatchNow ==
  ASSUME IInv, batch # None
  PROVE  /\ StoreTypeOK /\ serving /\ saving = None /\ ~ torn /\ NoneWriting
         /\ batch.left \in Seq(PointIds) /\ batch.entries \in Seq(Entries)
         /\ idx["point"] \in Seq(Entries) /\ Len(idx["point"]) \in Nat
         /\ Len(batch.entries) \in Nat /\ DOMAIN batch.entries = 1 .. Len(batch.entries)
         /\ DOMAIN idx["point"] = 1 .. Len(idx["point"])
         /\ data["point"] \in Seq(Records) /\ Len(data["point"]) \in Nat
         /\ "point" \in Kinds
  <1>1. StoreTypeOK /\ serving /\ saving = None /\ ~ torn
    BY DEF IInv, StateInv
  <1>2. NoneWriting
    BY <1>1 DEF NoneWriting, Writing
  <1>3. batch \in Batches
    BY <1>1 DEF StoreTypeOK
  <1>4. "point" \in Kinds
    BY DEF Kinds
  <1>5. batch.left \in Seq(PointIds) /\ batch.entries \in Seq(Entries)
    BY <1>3 DEF Batches
  <1> QED
    BY <1>1, <1>2, <1>4, <1>5, FilesTyped, LenProperties

LEMMA AddOne == \A x, y \in Nat : x + y + 1 = x + (y + 1)
  OBVIOUS

LEMMA PutRecordKeeps ==
  ASSUME IInv, PutRecord
  PROVE  IInv'
  <1>1. batch # None /\ batch.left # <<>>
    BY DEF PutRecord
  <1>2. /\ StoreTypeOK /\ serving /\ saving = None /\ ~ torn /\ NoneWriting
        /\ batch.left \in Seq(PointIds) /\ batch.entries \in Seq(Entries)
        /\ Len(idx["point"]) \in Nat /\ Len(data["point"]) \in Nat /\ "point" \in Kinds
        /\ Len(batch.entries) \in Nat /\ DOMAIN batch.entries = 1 .. Len(batch.entries)
        /\ mem \in [Ids -> Objects \union {None}]
    BY <1>1, InBatchNow DEF StoreTypeOK
  <1>3. PICK b \in Seq(PointIds), es \in Seq(Entries), ne \in Nat :
          b = batch.left /\ es = batch.entries /\ ne = Len(es) /\ DOMAIN es = 1 .. ne
    BY <1>2
  <1> PICK li \in Nat, ld \in Nat : li = Len(idx["point"]) /\ ld = Len(data["point"])
    BY <1>2
  <1>4. PICK id \in PointIds, t \in Seq(PointIds) :
          /\ id = Head(b) /\ t = Tail(b) /\ DOMAIN b = 1 .. Len(b) /\ Len(b) \in Nat \ {0}
          /\ DOMAIN t = 1 .. Len(b) - 1 /\ \A i \in DOMAIN t : t[i] = b[i + 1]
    <2>1. /\ Head(b) \in PointIds /\ Tail(b) \in Seq(PointIds) /\ Len(Tail(b)) = Len(b) - 1
          /\ \A i \in 1 .. Len(Tail(b)) : Tail(b)[i] = b[i + 1]
      BY <1>1, <1>3, HeadTailProperties
    <2>2. Len(b) \in Nat \ {0}
      BY <1>1, <1>3, EmptySeq
    <2>3. DOMAIN Tail(b) = 1 .. Len(Tail(b)) /\ DOMAIN b = 1 .. Len(b)
      BY <2>1, LenProperties
    <2> QED
      BY <2>1, <2>2, <2>3
  <1>5. id = b[1] /\ 1 \in DOMAIN b
    <2>1. Head(b) = b[1]
      BY <1>1, <1>3
    <2> QED
      BY <1>4, <2>1
  <1>6. PICK pos \in Nat \ {0}, slot \in Nat \ {0}, space \in Nat \ {0} :
          pos = ld + 1 /\ slot = li + ne + 1 /\ space = Length(Blank)
    <2>1. Length(Blank) \in Nat \ {0}
      BY BlankIs, LengthIs
    <2>2. ld + 1 \in Nat \ {0} /\ li + ne + 1 \in Nat \ {0}
      OBVIOUS
    <2> HIDE DEF Length
    <2> QED
      BY <2>1, <2>2
  <1>7. id \in Ids /\ Kind(id) = "point"
    BY KindIs
  <1>8. /\ \A j \in 1 .. ne :
             /\ es[j].id \in PointIds /\ InFile("point", es[j].pos)
             /\ data["point"][es[j].pos].id = es[j].id /\ data["point"][es[j].pos].live
             /\ data["point"][es[j].pos].content = Blank
             /\ es[j].space <= data["point"][es[j].pos].room
        /\ \A j \in 1 .. ne :
             /\ mem[es[j].id] # None /\ mem[es[j].id].slot = li + j
             /\ mem[es[j].id].pos = es[j].pos
        /\ \A j \in DOMAIN b : mem[b[j]] # None /\ mem[b[j]].slot = 0 /\ mem[b[j]].content = Blank
        /\ \A i, j \in DOMAIN b : b[i] = b[j] => i = j
    BY <1>1, <1>3 DEF IInv, BatchInv
  <1>9. PICK o \in Objects : o = mem[id] /\ o # None /\ o.slot = 0 /\ o.content = Blank
    BY <1>2, <1>5, <1>7, <1>8, MemTyped
  <1>10. PICK m \in Objects : /\ m.slot = slot /\ m.pos = pos /\ m.space = space /\ m.content = Blank
                              /\ m # None /\ m = [o EXCEPT !.slot = slot, !.pos = pos, !.space = space]
    <2>1. [o EXCEPT !.slot = slot, !.pos = pos, !.space = space] \in Objects
      BY DEF Objects
    <2> QED
      BY <1>9, <2>1, RecordStoreAssumption DEF Objects
  <1>11. PICK r \in Records : /\ r = [id |-> id, live |-> TRUE, content |-> Blank, room |-> space]
                              /\ r.id = id /\ r.live /\ r.content = Blank /\ r.room = space
    <2>1. [id |-> id, live |-> TRUE, content |-> Blank, room |-> space] \in Records
      BY <1>7, BlankIs DEF Records
    <2> QED
      BY <2>1
  <1>12. PICK e \in Entries : /\ e = [id |-> id, pos |-> pos, space |-> space]
                              /\ e.id = id /\ e.pos = pos /\ e.space = space
    <2>1. [id |-> id, pos |-> pos, space |-> space] \in Entries
      BY <1>7 DEF Entries
    <2> QED
      BY <2>1
  <1>13. PICK fs \in Seq(Entries) :
           /\ fs = Append(es, e) /\ DOMAIN fs = 1 .. ne + 1
           /\ fs[ne + 1] = e /\ \A j \in 1 .. ne : fs[j] = es[j]
    <2>1. /\ Append(es, e) \in Seq(Entries) /\ Len(Append(es, e)) = ne + 1
          /\ \A j \in 1 .. ne : Append(es, e)[j] = es[j]
          /\ Append(es, e)[ne + 1] = e
      BY <1>3, AppendProperties
    <2>2. DOMAIN Append(es, e) = 1 .. ne + 1
      BY <2>1, LenProperties
    <2> QED
      BY <2>1, <2>2
  <1>14. /\ data' = [data EXCEPT !["point"] = Append(@, r)]
         /\ mem' = [mem EXCEPT ![id] = m]
         /\ batch' = [left |-> t, entries |-> fs]
         /\ UNCHANGED <<idx, serving, saving, acked, unsettled, torn, skipped, faults>>
    <2>1. data' = [data EXCEPT !["point"] = Append(@, r)]
      BY <1>3, <1>4, <1>6, <1>11 DEF PutRecord
    <2>2. mem' = [mem EXCEPT ![id] = m]
      <3>1. mem' = [mem EXCEPT ![id].slot = slot, ![id].pos = pos, ![id].space = space]
        BY <1>3, <1>4, <1>6 DEF PutRecord
      <3> QED
        BY <1>2, <1>9, <1>10, <3>1
    <2>3. batch' = [left |-> t, entries |-> fs]
      BY <1>3, <1>4, <1>6, <1>12, <1>13 DEF PutRecord
    <2> QED
      BY <2>1, <2>2, <2>3 DEF PutRecord
  <1>15. /\ Grows /\ data' \in [Kinds -> Seq(Records)]
         /\ pos \in DOMAIN data'["point"] /\ data'["point"][pos] = r
    BY <1>2, <1>6, <1>14, AppendGrows
  <1>16. /\ \A x \in Ids : mem'[x] = IF x = id THEN m ELSE mem[x]
         /\ mem' \in [Ids -> Objects \union {None}]
    BY <1>2, <1>14
  <1>17. batch' \in Batches /\ batch' # None /\ batch'.left = t /\ batch'.entries = fs
    <2>1. batch' \in Batches
      BY <1>14 DEF Batches
    <2> QED
      BY <1>14, <2>1, RecordStoreAssumption
  <1>18. StoreTypeOK'
    BY <1>2, <1>14, <1>15, <1>16, <1>17 DEF StoreTypeOK
  <1>19. StateInv' /\ SavingInv' /\ NoneWriting'
    BY <1>2, <1>14 DEF StateInv, SavingInv, NoneWriting, Writing
  <1>20. \A x \in Ids : InBatch(x)' <=> (InBatch(x) \/ x = id)
    <2>1. \A x : InBatch(x) <=> \E j \in 1 .. ne : es[j].id = x
      BY <1>1, <1>3 DEF InBatch, BatchIds
    <2>2. \A x : InBatch(x)' <=> \E j \in 1 .. ne + 1 : fs[j].id = x
      BY <1>13, <1>17 DEF InBatch, BatchIds
    <2>3. ne + 1 \in 1 .. ne + 1 /\ \A j : j \in 1 .. ne + 1 <=> (j \in 1 .. ne \/ j = ne + 1)
      OBVIOUS
    <2> QED
      BY <1>12, <1>13, <2>1, <2>2, <2>3
  <1>21. EntriesInv'
    BY <1>2, <1>15, <1>19, GrowsEntries
  <1>22. MemInv'
    <2> SUFFICES ASSUME NEW x \in Ids, mem'[x] # None PROVE Unplaced(mem'[x]) \/ Placed(x)'
      BY DEF MemInv, Unplaced
    <2>1. CASE x = id
      <3>1. mem'[x] = m /\ Kind(x) = "point" /\ InBatch(x)' /\ m.slot > 0
        BY <1>7, <1>10, <1>16, <1>20, <2>1
      <3>2. space <= space
        OBVIOUS
      <3> QED
        BY <1>10, <1>11, <1>15, <2>1, <3>1, <3>2 DEF Placed, InFile
    <2>2. CASE x # id
      <3>1. mem'[x] = mem[x] /\ (Unplaced(mem[x]) \/ Placed(x))
        BY <1>2, <1>16, <2>2 DEF IInv, MemInv, BeingPlaced, NoneWriting
      <3> QED
        BY <1>15, <1>20, <3>1, GrowsPlaced
    <2> QED
      BY <2>1, <2>2
  <1>23. BatchInv'
    <2>1. ASSUME NEW j \in 1 .. ne + 1
          PROVE  /\ fs[j].id \in PointIds /\ InFile("point", fs[j].pos)'
                 /\ data'["point"][fs[j].pos].id = fs[j].id /\ data'["point"][fs[j].pos].live
                 /\ data'["point"][fs[j].pos].content = Blank
                 /\ fs[j].space <= data'["point"][fs[j].pos].room
                 /\ mem'[fs[j].id] # None /\ mem'[fs[j].id].slot = li + j
                 /\ mem'[fs[j].id].pos = fs[j].pos
      <3>1. CASE j = ne + 1
        <4>1. InFile("point", fs[j].pos)'
          BY <1>12, <1>13, <1>15, <3>1 DEF InFile
        <4>2. fs[j] = e /\ mem'[id] = m /\ slot = li + j /\ space <= space
          <5>1. slot = li + j
            <6>1. slot = li + ne + 1 /\ j = ne + 1
              BY <1>6, <3>1
            <6>2. li + ne + 1 = li + (ne + 1)
              BY AddOne
            <6> QED
              BY ONLY <6>1, <6>2
          <5> QED
            BY <1>7, <1>13, <1>16, <3>1, <5>1
        <4>3. fs[j].id = id /\ fs[j].pos = pos /\ fs[j].space = space
          BY <1>12, <4>2
        <4>4. data'["point"][fs[j].pos] = r
          BY <1>15, <4>3
        <4>5. fs[j].id \in PointIds /\ r.id = fs[j].id /\ fs[j].space <= r.room
          BY <1>11, <4>2, <4>3
        <4>6. mem'[fs[j].id] = m /\ m # None /\ m.slot = li + j /\ m.pos = fs[j].pos
          BY <1>10, <4>2, <4>3
        <4> QED
          BY <1>11, <4>1, <4>4, <4>5, <4>6
      <3>2. CASE j \in 1 .. ne
        <4>1. fs[j] = es[j] /\ es[j].id \in Ids
          BY <1>8, <1>13, <3>2, KindIs
        <4>2. es[j].id # id
          <5>1. mem[es[j].id].slot = li + j
            BY <1>8, <3>2
          <5>2. li + j # 0
            BY <1>2, <3>2
          <5> QED
            BY <1>9, <5>1, <5>2
        <4>3. mem'[es[j].id] = mem[es[j].id]
          BY <1>16, <4>1, <4>2
        <4>4. InFile("point", es[j].pos)' /\ data'["point"][es[j].pos] = data["point"][es[j].pos]
          <5>1. InFile("point", es[j].pos)
            BY <1>8, <3>2
          <5> QED
            BY <1>2, <1>15, <5>1 DEF Grows
        <4>5. /\ es[j].id \in PointIds /\ data["point"][es[j].pos].id = es[j].id
              /\ data["point"][es[j].pos].live /\ data["point"][es[j].pos].content = Blank
              /\ es[j].space <= data["point"][es[j].pos].room
          BY <1>8, <3>2
        <4>6. mem[es[j].id] # None /\ mem[es[j].id].slot = li + j /\ mem[es[j].id].pos = es[j].pos
          BY <1>8, <3>2
        <4>7. InFile("point", fs[j].pos)'
          BY <4>1, <4>4
        <4> QED
          BY <4>1, <4>3, <4>4, <4>5, <4>6, <4>7
      <3> QED
        BY <3>1, <3>2
    <2>2. ASSUME NEW j \in DOMAIN t
          PROVE  /\ mem'[t[j]] # None /\ mem'[t[j]].slot = 0 /\ mem'[t[j]].content = Blank
                 /\ \A i \in DOMAIN t : t[i] = t[j] => i = j
      <3>1. j + 1 \in DOMAIN b /\ t[j] = b[j + 1] /\ j + 1 # 1 /\ j \in Nat
        BY <1>4
      <3>2. t[j] # id /\ t[j] \in Ids
        <4>1. t[j] \in PointIds
          BY <1>4, ElementOfSeq
        <4> QED
          BY <1>5, <1>8, <3>1, <4>1, KindIs
      <3>3. mem'[t[j]] = mem[b[j + 1]]
        BY <1>16, <3>1, <3>2
      <3>4. ASSUME NEW i \in DOMAIN t, t[i] = t[j] PROVE i = j
        <4>1. i + 1 \in DOMAIN b /\ t[i] = b[i + 1] /\ i \in Nat
          BY <1>4
        <4>2. i + 1 = j + 1
          <5>1. b[i + 1] = b[j + 1]
            BY <3>1, <3>4, <4>1
          <5> QED
            BY <1>8, <3>1, <4>1, <5>1
        <4> QED
          BY <3>1, <4>1, <4>2
      <3> QED
        BY <1>8, <3>1, <3>3, <3>4
    <2>3. idx' = idx
      BY <1>14
    <2>4. \A j \in DOMAIN batch'.entries : j \in 1 .. ne + 1
      BY <1>13, <1>17
    <2> QED
      BY <1>17, <2>1, <2>2, <2>3, <2>4 DEF BatchInv
  <1>24. SlotInv'
    <2> SUFFICES ASSUME ~ skipped, NEW x \in Ids, mem'[x] # None, mem'[x].slot > 0, ~ InBatch(x)'
                 PROVE  idx[Kind(x)][mem'[x].slot].id = x /\ idx[Kind(x)][mem'[x].slot].pos = mem'[x].pos
      BY <1>14 DEF SlotInv
    <2>1. mem'[x] = mem[x] /\ ~ InBatch(x)
      BY <1>16, <1>20
    <2> QED
      BY <2>1 DEF IInv, SlotInv
  <1>25. SettledInv'
    <2> SUFFICES ASSUME ~ skipped, NEW x \in Ids \ unsettled PROVE Settled(x)'
      BY <1>14 DEF SettledInv
    <2>1. Settled(x)
      BY <1>2 DEF IInv, SettledInv
    <2>2. Own(x)' = Own(x) /\ \A i \in Own(x) : RecordAt(Kind(x), i)' = RecordAt(Kind(x), i)
      BY <1>2, <1>15, GrowsOwn
    <2>3. ~ Writing(x) /\ ~ Writing(x)'
      BY <1>2, <1>19 DEF NoneWriting
    <2>4. CASE x = id
      <3>1. acked[x] = None /\ InBatch(x)'
        BY <1>2, <1>9, <1>20, <2>1, <2>4 DEF Settled
      <3> QED
        BY <1>14, <2>1, <2>2, <2>3, <3>1 DEF Settled
    <2>5. CASE x # id
      <3>1. mem'[x] = mem[x] /\ (InBatch(x)' <=> InBatch(x))
        BY <1>16, <1>20, <2>5
      <3> QED
        BY <1>14, <2>1, <2>2, <2>3, <3>1 DEF Settled
    <2> QED
      BY <2>4, <2>5
  <1> QED
    BY <1>18, <1>19, <1>21, <1>22, <1>23, <1>24, <1>25 DEF IInv

\* f is s, of length a, followed by t, of length b.
IsConcat(f, s, a, t, b) ==
  /\ \A i \in 1 .. a : i \in DOMAIN f /\ f[i] = s[i]
  /\ \A j \in 1 .. b : a + j \in DOMAIN f /\ f[a + j] = t[j] /\ a + j \notin 1 .. a
  /\ \A i \in DOMAIN f : i \in 1 .. a \/ \E j \in 1 .. b : i = a + j

LEMMA ConcatIs ==
  ASSUME NEW S, NEW s \in Seq(S), NEW t \in Seq(S), NEW a \in Nat, a = Len(s), NEW b \in Nat, b = Len(t)
  PROVE  s \o t \in Seq(S) /\ IsConcat(s \o t, s, a, t, b)
  <1>1. /\ s \o t \in Seq(S) /\ Len(s \o t) = a + b
        /\ \A i \in 1 .. a + b : (s \o t)[i] = IF i <= a THEN s[i] ELSE t[i - a]
    BY ConcatProperties
  <1>2. DOMAIN (s \o t) = 1 .. a + b
    BY <1>1, LenProperties
  <1>3. \A i \in 1 .. a : i \in 1 .. a + b /\ i <= a
    OBVIOUS
  <1>4. \A j \in 1 .. b : a + j \in 1 .. a + b /\ ~(a + j <= a) /\ a + j - a = j /\ a + j \notin 1 .. a
    OBVIOUS
  <1>5. \A i \in 1 .. a + b : i \in 1 .. a \/ (i - a \in 1 .. b /\ i = a + (i - a))
    OBVIOUS
  <1>6. \A i \in 1 .. a : i \in DOMAIN (s \o t) /\ (s \o t)[i] = s[i]
    BY <1>1, <1>2, <1>3
  <1>7. \A j \in 1 .. b : a + j \in DOMAIN (s \o t) /\ (s \o t)[a + j] = t[j] /\ a + j \notin 1 .. a
    BY <1>1, <1>2, <1>4
  <1>8. \A i \in DOMAIN (s \o t) : i \in 1 .. a \/ \E j \in 1 .. b : i = a + j
    BY <1>2, <1>5
  <1> QED
    BY <1>1, <1>6, <1>7, <1>8 DEF IsConcat

(* The index file is closed: all entries of the batch are on disk, and     *)
(* each point of the batch is settled now, or counted as unsettled.        *)
LEMMA CloseKeeps ==
  ASSUME IInv, batch # None, CloseIndex,
         acked' \in [Ids -> Contents \union {None}], unsettled \subseteq unsettled', unsettled' \subseteq Ids,
         faults' \in 0 .. MaxFaults,
         \A x \in Ids : IF InBatch(x) THEN acked'[x] = Blank \/ x \in unsettled' ELSE acked'[x] = acked[x],
         UNCHANGED <<data, serving, mem, saving, torn, skipped>>
  PROVE  IInv'
  <1>1. /\ StoreTypeOK /\ serving /\ saving = None /\ ~ torn /\ NoneWriting
        /\ idx["point"] \in Seq(Entries) /\ batch.entries \in Seq(Entries)
        /\ Len(idx["point"]) \in Nat /\ "point" \in Kinds
        /\ DOMAIN idx["point"] = 1 .. Len(idx["point"])
        /\ Len(batch.entries) \in Nat /\ DOMAIN batch.entries = 1 .. Len(batch.entries)
        /\ idx \in [Kinds -> Seq(Entries)]
    BY InBatchNow DEF StoreTypeOK
  <1>2. PICK ip \in Seq(Entries), es \in Seq(Entries), li \in Nat, ne \in Nat :
          /\ ip = idx["point"] /\ es = batch.entries /\ li = Len(ip) /\ ne = Len(es)
          /\ DOMAIN es = 1 .. ne /\ DOMAIN ip = 1 .. li
    BY <1>1
  <1>3. PICK f \in Seq(Entries) : f = ip \o es /\ IsConcat(f, ip, li, es, ne)
    <2>1. ip \o es \in Seq(Entries) /\ IsConcat(ip \o es, ip, li, es, ne)
      BY <1>2, ConcatIs
    <2> QED
      BY <2>1
  <1>4. /\ idx' = [idx EXCEPT !["point"] = f] /\ batch' = None
        /\ UNCHANGED <<data, serving, mem, saving, torn, skipped>>
    BY <1>2, <1>3 DEF CloseIndex
  <1>5. \A q \in Kinds : idx'[q] = IF q = "point" THEN f ELSE idx[q]
    BY <1>1, <1>4
  <1>6. idx' \in [Kinds -> Seq(Entries)]
    BY <1>1, <1>4
  <1>7. \A j \in 1 .. ne :
          /\ es[j].id \in PointIds /\ es[j].id \in Ids /\ Kind(es[j].id) = "point" /\ InFile("point", es[j].pos)
          /\ data["point"][es[j].pos].id = es[j].id /\ data["point"][es[j].pos].live
          /\ data["point"][es[j].pos].content = Blank
          /\ es[j].space <= data["point"][es[j].pos].room
    BY <1>2, KindIs DEF IInv, BatchInv
  <1>8. \A j \in 1 .. ne :
          /\ mem[es[j].id] # None /\ mem[es[j].id].slot = li + j
          /\ mem[es[j].id].pos = es[j].pos
    BY <1>2 DEF IInv, BatchInv
  <1>9. \A x \in Ids : /\ InBatch(x) <=> \E j \in 1 .. ne : es[j].id = x
                       /\ ~ InBatch(x)'
    BY <1>2, <1>4 DEF InBatch, BatchIds
  <1>10. \A q, p : InFile(q, p)' <=> InFile(q, p)
    BY <1>4 DEF InFile
  <1>11. StoreTypeOK'
    BY <1>1, <1>4, <1>6 DEF StoreTypeOK
  <1>12. StateInv' /\ SavingInv' /\ BatchInv'
    BY <1>1, <1>4 DEF StateInv, SavingInv, BatchInv
  <1>13. NoneWriting'
    BY <1>1, <1>4 DEF NoneWriting, Writing
  <1>14. EntriesInv'
    <2> SUFFICES ASSUME NEW q \in Kinds, NEW i \in DOMAIN idx'[q]
                 PROVE  /\ Kind(idx'[q][i].id) = q
                        /\ InFile(q, idx'[q][i].pos)
                        /\ data[q][idx'[q][i].pos].id = idx'[q][i].id
                        /\ idx'[q][i].space <= data[q][idx'[q][i].pos].room
      BY <1>4, <1>10 DEF EntriesInv, RecordAt, InFile
    <2>1. CASE i \in DOMAIN idx[q] /\ idx'[q][i] = idx[q][i]
      BY <1>1, <2>1, AllInFile DEF RecordAt
    <2>2. CASE q = "point" /\ \E j \in 1 .. ne : idx'[q][i] = es[j]
      BY <1>7, <2>2
    <2>3. CASE q = "point"
      <3>1. i \in DOMAIN f /\ idx'[q] = f /\ idx[q] = ip
        BY <1>1, <1>2, <1>5, <2>3
      <3>2. CASE i \in 1 .. li
        BY <1>2, <1>3, <2>1, <3>1, <3>2 DEF IsConcat
      <3>3. CASE i \notin 1 .. li
        <4>1. PICK j \in 1 .. ne : i = li + j
          BY <1>3, <3>1, <3>3 DEF IsConcat
        <4> QED
          BY <1>3, <2>2, <2>3, <3>1, <4>1 DEF IsConcat
      <3> QED
        BY <3>2, <3>3
    <2>4. CASE q # "point"
      BY <1>5, <2>1, <2>4
    <2> QED
      BY <2>3, <2>4
  <1>15. \A q \in Kinds : \A i \in DOMAIN idx[q] : i \in DOMAIN idx'[q] /\ idx'[q][i] = idx[q][i]
    BY <1>2, <1>3, <1>5 DEF IsConcat
  <1>16. \A x \in Ids : InBatch(x) =>
           \E j \in 1 .. ne : /\ es[j].id = x /\ mem[x].slot = li + j /\ mem[x].pos = es[j].pos
                              /\ mem[x] # None /\ Kind(x) = "point"
                              /\ li + j \in DOMAIN idx'["point"] /\ idx'["point"][li + j] = es[j]
    <2> SUFFICES ASSUME NEW x \in Ids, NEW j \in 1 .. ne, es[j].id = x
                 PROVE  /\ es[j].id = x /\ mem[x].slot = li + j /\ mem[x].pos = es[j].pos
                        /\ mem[x] # None /\ Kind(x) = "point"
                        /\ li + j \in DOMAIN idx'["point"] /\ idx'["point"][li + j] = es[j]
      BY <1>9
    <2>1. mem[x].slot = li + j /\ mem[x].pos = es[j].pos /\ mem[x] # None
      BY <1>8
    <2>2. Kind(x) = "point"
      BY <1>7
    <2>3. li + j \in DOMAIN idx'["point"] /\ idx'["point"][li + j] = es[j]
      BY <1>1, <1>3, <1>5 DEF IsConcat
    <2> QED
      BY <2>1, <2>2, <2>3
  <1>17. \A x \in Ids : mem[x] # None => Unplaced(mem[x]) \/ Placed(x)
    BY <1>1 DEF IInv, MemInv, BeingPlaced, NoneWriting
  <1>18. MemInv'
    <2> SUFFICES ASSUME NEW x \in Ids, mem[x] # None, Placed(x) PROVE Placed(x)'
      BY <1>4, <1>17 DEF MemInv, Unplaced
    <2>1. mem[x].slot \in DOMAIN idx'[Kind(x)]
      BY <1>15, <1>16, KindIs DEF Placed
    <2> QED
      BY <1>4, <2>1 DEF Placed, InFile
  <1>19. SlotInv'
    <2> SUFFICES ASSUME ~ skipped, NEW x \in Ids, mem[x] # None, mem[x].slot > 0
                 PROVE  idx'[Kind(x)][mem[x].slot].id = x /\ idx'[Kind(x)][mem[x].slot].pos = mem[x].pos
      BY <1>4 DEF SlotInv
    <2>1. CASE InBatch(x)
      BY <1>16, <2>1
    <2>2. CASE ~ InBatch(x)
      <3>1. idx[Kind(x)][mem[x].slot].id = x /\ idx[Kind(x)][mem[x].slot].pos = mem[x].pos
        BY <2>2 DEF IInv, SlotInv
      <3>2. mem[x].slot \in DOMAIN idx[Kind(x)]
        BY <1>17, <2>2 DEF Placed, Unplaced
      <3> QED
        BY <1>15, <3>1, <3>2, KindIs
    <2> QED
      BY <2>1, <2>2
  <1>20. SettledInv'
    <2> SUFFICES ASSUME ~ skipped, NEW x \in Ids \ unsettled' PROVE Settled(x)'
      BY <1>4 DEF SettledInv
    <2>1. x \in Ids \ unsettled /\ Settled(x) /\ Kind(x) \in Kinds /\ ~ Writing(x) /\ ~ Writing(x)' /\ ~ InBatch(x)'
      BY <1>1, <1>9, <1>13, KindIs DEF IInv, SettledInv, NoneWriting
    <2>2. \A i \in DOMAIN idx[Kind(x)] : RecordAt(Kind(x), i)' = RecordAt(Kind(x), i)
      BY <1>4, <1>15, <2>1 DEF RecordAt
    <2>3. Own(x) \subseteq Own(x)'
      BY <1>10, <1>15, <2>1, <2>2 DEF Own
    <2>4. ASSUME NEW i \in Own(x)' PROVE i \in Own(x) \/ \E j \in 1 .. ne : i = li + j /\ es[j].id = x
      <3>1. i \in DOMAIN idx'[Kind(x)] /\ idx'[Kind(x)][i].id = x /\ InFile(Kind(x), idx[Kind(x)][i].pos)'
            /\ RecordAt(Kind(x), i)'.live
        BY <2>4 DEF Own
      <3>2. CASE i \in DOMAIN idx[Kind(x)]
        BY <1>10, <1>15, <2>1, <2>2, <3>1, <3>2 DEF Own
      <3>3. CASE i \notin DOMAIN idx[Kind(x)]
        <4>1. Kind(x) = "point" /\ i \in DOMAIN f /\ f[i].id = x /\ i \notin 1 .. li
          BY <1>2, <1>5, <2>1, <3>1, <3>3
        <4>2. PICK j \in 1 .. ne : i = li + j
          BY <1>3, <4>1 DEF IsConcat
        <4> QED
          BY <1>3, <4>1, <4>2 DEF IsConcat
      <3> QED
        BY <3>2, <3>3
    <2>5. CASE InBatch(x)
      <3>1. Own(x) = {} /\ acked'[x] = Blank /\ acked'[x] # None
        BY <1>1, <2>1, <2>5, BlankIs, RecordStoreAssumption DEF Settled
      <3>2. PICK j \in 1 .. ne : /\ es[j].id = x /\ mem[x].slot = li + j /\ mem[x].pos = es[j].pos
                                 /\ mem[x] # None /\ Kind(x) = "point"
                                 /\ li + j \in DOMAIN idx'["point"] /\ idx'["point"][li + j] = es[j]
        BY <1>16, <2>5
      <3>3. \A i \in Own(x)' : i = li + j
        <4> SUFFICES ASSUME NEW i \in Own(x)' PROVE i = mem[x].slot
          BY <3>2
        <4>1. PICK j2 \in 1 .. ne : i = li + j2 /\ es[j2].id = x
          BY <2>4, <3>1
        <4> QED
          BY <1>8, <4>1
      <3>4. InFile("point", idx["point"][li + j].pos)' /\ RecordAt("point", li + j)' = data["point"][es[j].pos]
        BY <1>4, <1>7, <1>10, <3>2 DEF RecordAt
      <3>5. li + j \in Own(x)' /\ RecordAt("point", li + j)'.content = Blank
        BY <1>7, <3>2, <3>4 DEF Own
      <3>6. mem'[x] # None /\ mem'[x].slot # 0 /\ mem'[x].slot \in Own(x)'
        <4>1. li + j # 0
          BY <1>2, <3>2
        <4> QED
          BY <1>4, <3>2, <3>5, <4>1
      <3> QED
        BY <2>1, <3>1, <3>2, <3>3, <3>5, <3>6 DEF Settled
    <2>6. CASE ~ InBatch(x)
      <3>1. Own(x)' = Own(x)
        BY <1>9, <2>3, <2>4, <2>6
      <3>2. \A i \in Own(x) : RecordAt(Kind(x), i)' = RecordAt(Kind(x), i)
        BY <2>2 DEF Own
      <3>3. mem'[x] = mem[x] /\ acked'[x] = acked[x] /\ serving' = serving
        BY <1>4, <2>6
      <3> QED
        BY <2>1, <2>6, <3>1, <3>2, <3>3 DEF Settled
    <2> QED
      BY <2>5, <2>6
  <1> QED
    BY <1>11, <1>12, <1>14, <1>18, <1>19, <1>20 DEF IInv

LEMMA EndBatchKeeps ==
  ASSUME IInv, EndBatch
  PROVE  IInv'
  <1>1. batch # None /\ CloseIndex /\ UNCHANGED <<data, serving, mem, saving, unsettled, torn, skipped, faults>>
    BY DEF EndBatch
  <1>2. /\ unsettled' \subseteq Ids /\ faults' \in 0 .. MaxFaults
        /\ acked \in [Ids -> Contents \union {None}]
    BY <1>1 DEF IInv, StoreTypeOK
  <1>3. acked' = [x \in Ids |-> IF x \in BatchIds THEN Blank ELSE acked[x]]
    BY DEF EndBatch
  <1>4. acked' \in [Ids -> Contents \union {None}]
    BY <1>2, <1>3, BlankIs
  <1>5. \A x \in Ids : IF InBatch(x) THEN acked'[x] = Blank \/ x \in unsettled' ELSE acked'[x] = acked[x]
    BY <1>1, <1>3 DEF InBatch
  <1> QED
    BY <1>1, <1>2, <1>4, <1>5, CloseKeeps

LEMMA BatchFailsKeeps ==
  ASSUME IInv, BatchFails
  PROVE  IInv'
  <1>1. /\ batch # None /\ CloseIndex /\ UNCHANGED <<data, serving, mem, saving, acked, torn, skipped>>
        /\ unsettled' = unsettled \union BatchIds /\ faults < MaxFaults /\ faults' = faults + 1
    BY DEF BatchFails, Fault
  <1>2. faults' \in 0 .. MaxFaults
    BY <1>1, RecordStoreAssumption DEF IInv, StoreTypeOK
  <1>3. unsettled' \subseteq Ids /\ acked' \in [Ids -> Contents \union {None}]
    <2>1. unsettled \subseteq Ids /\ acked \in [Ids -> Contents \union {None}]
      BY DEF IInv, StoreTypeOK
    <2>2. BatchIds \subseteq Ids
      BY <1>1, KindIs DEF BatchIds, IInv, BatchInv
    <2> QED
      BY <1>1, <2>1, <2>2
  <1>4. \A x \in Ids : IF InBatch(x) THEN acked'[x] = Blank \/ x \in unsettled' ELSE acked'[x] = acked[x]
    BY <1>1 DEF InBatch
  <1> QED
    BY <1>1, <1>2, <1>3, <1>4, CloseKeeps

-----------------------------------------------------------------------------
(* Deletion, the end of the process and the start.                         *)
LEMMA DelKeeps ==
  ASSUME IInv, NEW id \in Ids, Del(id)
  PROVE  IInv'
  <1>1. /\ serving /\ saving = None /\ batch = None /\ mem[id] # None
        /\ mem' = [mem EXCEPT ![id] = None] /\ acked' = [acked EXCEPT ![id] = None]
        /\ UNCHANGED <<idx, serving, saving, batch, torn, skipped>>
    BY DEF Del, Idle
  <1>2. /\ StoreTypeOK /\ ~ torn /\ mem \in [Ids -> Objects \union {None}]
        /\ data \in [Kinds -> Seq(Records)] /\ acked \in [Ids -> Contents \union {None}]
        /\ unsettled \subseteq Ids /\ faults \in 0 .. MaxFaults
    BY <1>1 DEF IInv, StoreTypeOK, StateInv
  <1>3. NoneWriting /\ NoneWriting' /\ \A x \in Ids : ~ InBatch(x) /\ ~ InBatch(x)'
    BY <1>1, <1>2 DEF NoneWriting, Writing, InBatch
  <1>4. \A x \in Ids : mem[x] # None => Unplaced(mem[x]) \/ Placed(x)
    BY <1>3 DEF IInv, MemInv, BeingPlaced, NoneWriting
  <1>5. PICK k \in Kinds : k = Kind(id)
    BY KindIs
  <1>6. PICK o \in Objects : o = mem[id] /\ o.slot \in Nat
    BY <1>1, <1>2, MemTyped
  <1>7. /\ \A x \in Ids : mem'[x] = IF x = id THEN None ELSE mem[x]
        /\ mem' \in [Ids -> Objects \union {None}]
        /\ \A x \in Ids : acked'[x] = IF x = id THEN None ELSE acked[x]
        /\ acked' \in [Ids -> Contents \union {None}]
    BY <1>1, <1>2
  <1>8. \/ /\ o.slot > 0 /\ data' = [data EXCEPT ![k][o.pos].live = FALSE]
           /\ UNCHANGED <<unsettled, faults>>
        \/ /\ data' = data /\ unsettled' = unsettled \union {id}
           /\ faults < MaxFaults /\ faults' = faults + 1
        \/ ~(o.slot > 0) /\ UNCHANGED <<data, unsettled, faults>>
    BY <1>5, <1>6 DEF Del, Positioned, MarkDeleted, NotMarked, Fault
  <1>9. o.slot > 0 => /\ o.slot \in DOMAIN idx[k] /\ InFile(k, o.pos) /\ data[k][o.pos].id = id
    BY <1>1, <1>3, <1>4, <1>5, <1>6 DEF Placed, Unplaced
  <1>10. unsettled \subseteq unsettled' /\ unsettled' \subseteq Ids /\ faults' \in 0 .. MaxFaults
    BY <1>2, <1>8, RecordStoreAssumption
  <1>11. /\ data' \in [Kinds -> Seq(Records)]
         /\ \A q, p : q \in Kinds => (InFile(q, p)' <=> InFile(q, p))
         /\ \A q \in Kinds : \A p : InFile(q, p) =>
              /\ data'[q][p].id = data[q][p].id /\ data'[q][p].room = data[q][p].room
              /\ data'[q][p].content = data[q][p].content
              /\ data'[q][p] # data[q][p] => q = k /\ p = o.pos /\ o.slot > 0
    <2>1. CASE data' = data
      BY <1>2, <2>1 DEF InFile
    <2>2. CASE o.slot > 0 /\ data' = [data EXCEPT ![k][o.pos].live = FALSE]
      <3>1. o.pos \in DOMAIN data[k] /\ data[k] \in Seq(Records)
        BY <1>2, <1>9, <2>2 DEF InFile
      <3>2. PICK r \in Records : r = [data[k][o.pos] EXCEPT !.live = FALSE]
        <4>1. data[k][o.pos] \in Records
          BY <1>2, <3>1, FilesTyped
        <4> QED
          BY <4>1 DEF Records
      <3>3. r.id = data[k][o.pos].id /\ r.room = data[k][o.pos].room /\ r.content = data[k][o.pos].content
        <4>1. data[k][o.pos] \in Records
          BY <1>2, <3>1, FilesTyped
        <4> QED
          BY <3>2, <4>1 DEF Records
      <3>4. PICK f \in Seq(Records) : f = [data[k] EXCEPT ![o.pos] = r]
        <4>1. o.pos \in 1 .. Len(data[k])
          BY <3>1, LenProperties
        <4>2. [data[k] EXCEPT ![o.pos] = r] \in Seq(Records)
          BY <3>1, <4>1, ExceptSeq
        <4> QED
          BY <4>2
      <3>5. DOMAIN f = DOMAIN data[k] /\ \A p \in DOMAIN data[k] : f[p] = IF p = o.pos THEN r ELSE data[k][p]
        BY <3>4
      <3>6. data' = [data EXCEPT ![k] = f]
        BY <2>2, <3>2, <3>4
      <3>7. data' \in [Kinds -> Seq(Records)] /\ \A q \in Kinds : data'[q] = IF q = k THEN f ELSE data[q]
        BY <1>2, <3>6
      <3> QED
        BY <2>2, <3>3, <3>5, <3>7 DEF InFile
    <2> QED
      BY <1>8, <2>1, <2>2
  <1>12. StoreTypeOK'
    BY <1>1, <1>2, <1>7, <1>10, <1>11 DEF StoreTypeOK
  <1>13. StateInv' /\ SavingInv' /\ BatchInv'
    BY <1>1, <1>2 DEF StateInv, SavingInv, BatchInv
  <1>14. EntriesInv'
    <2> SUFFICES ASSUME NEW q \in Kinds, NEW i \in DOMAIN idx[q]
                 PROVE  /\ Kind(idx[q][i].id) = q /\ InFile(q, idx[q][i].pos)'
                        /\ data'[q][idx[q][i].pos].id = idx[q][i].id
                        /\ idx[q][i].space <= data'[q][idx[q][i].pos].room
      BY <1>1 DEF EntriesInv, RecordAt
    <2>1. /\ Kind(idx[q][i].id) = q /\ InFile(q, idx[q][i].pos)
          /\ data[q][idx[q][i].pos].id = idx[q][i].id /\ idx[q][i].space <= data[q][idx[q][i].pos].room
      BY <1>3, AllInFile DEF RecordAt
    <2> QED
      BY <1>1, <1>11, <2>1
  <1>15. MemInv'
    <2> SUFFICES ASSUME NEW x \in Ids, mem'[x] # None, x # id, Placed(x) PROVE Placed(x)'
      BY <1>4, <1>7 DEF MemInv, Unplaced
    <2>1. mem'[x] = mem[x] /\ Kind(x) \in Kinds
      BY <1>7, KindIs
    <2> QED
      BY <1>1, <1>3, <1>11, <2>1 DEF Placed
  <1>16. SlotInv'
    BY <1>1, <1>3, <1>7 DEF IInv, SlotInv
  <1>17. SettledInv'
    <2> SUFFICES ASSUME ~ skipped, NEW x \in Ids \ unsettled' PROVE Settled(x)'
      BY <1>1 DEF SettledInv
    <2>1. x \in Ids \ unsettled
      BY <1>10
    <2>2. Settled(x) /\ Kind(x) \in Kinds /\ ~ Writing(x) /\ ~ Writing(x)' /\ ~ InBatch(x) /\ ~ InBatch(x)'
      BY <1>2, <1>3, <2>1, KindIs DEF IInv, SettledInv, NoneWriting
    <2>3. CASE x = id
      <3>1. Own(x)' = {}
        <4> SUFFICES ASSUME NEW i \in Own(x)' PROVE FALSE
          OBVIOUS
        <4>1. /\ i \in DOMAIN idx[k] /\ idx[k][i].id = id /\ InFile(k, idx[k][i].pos)
              /\ data'[k][idx[k][i].pos].live
          <5>1. /\ i \in DOMAIN idx'[k] /\ idx'[k][i].id = id /\ InFile(k, idx[k][i].pos)'
                /\ data'[k][idx'[k][i].pos].live
            BY <1>5, <2>3 DEF Own, RecordAt
          <5> QED
            BY <1>1, <1>11, <5>1
        <4>2. CASE ~(o.slot > 0)
          <5>1. Own(x) = {}
            BY <1>1, <1>6, <2>2, <2>3, <4>2 DEF Settled
          <5>2. data'[k][idx[k][i].pos] = data[k][idx[k][i].pos]
            BY <1>11, <4>1, <4>2
          <5>3. i \in Own(x)
            BY <1>5, <2>3, <4>1, <5>2 DEF Own, RecordAt
          <5> QED
            BY <5>1, <5>3
        <4>3. CASE o.slot > 0
          <5>1. data' = [data EXCEPT ![k][o.pos].live = FALSE]
            BY <1>8, <2>3, <4>3
          <5>2. idx[k][o.slot].pos = o.pos /\ o.slot \in Own(x)
            BY <1>1, <1>3, <1>5, <1>6, <2>2, <2>3, <4>3 DEF IInv, SlotInv, Settled
          <5>3. data[k][o.pos].live /\ data[k][o.pos] \in Records /\ o.pos \in DOMAIN data[k]
            BY <1>2, <1>5, <1>9, <2>3, <4>3, <5>2, FilesTyped DEF Own, RecordAt, InFile
          <5>4. ~ data'[k][o.pos].live
            BY <1>2, <5>1, <5>3 DEF Records
          <5>5. idx[k][i].pos # o.pos
            BY <4>1, <5>4
          <5>6. data'[k][idx[k][i].pos] = data[k][idx[k][i].pos]
            BY <1>11, <4>1, <5>5
          <5>7. i \in Own(x)
            BY <1>5, <2>3, <4>1, <5>6 DEF Own, RecordAt
          <5>8. i = o.slot
            BY <2>2, <5>2, <5>7 DEF Settled
          <5> QED
            BY <5>2, <5>5, <5>8
        <4> QED
          BY <4>2, <4>3
      <3>2. mem'[x] = None /\ acked'[x] = None
        BY <1>7, <2>3
      <3> QED
        BY <2>2, <3>1, <3>2 DEF Settled
    <2>4. CASE x # id
      <3>1. \A i \in DOMAIN idx[Kind(x)] : idx[Kind(x)][i].id = x => RecordAt(Kind(x), i)' = RecordAt(Kind(x), i)
        <4> SUFFICES ASSUME NEW i \in DOMAIN idx[Kind(x)], idx[Kind(x)][i].id = x
                     PROVE  data'[Kind(x)][idx[Kind(x)][i].pos] = data[Kind(x)][idx[Kind(x)][i].pos]
          BY <1>1 DEF RecordAt
        <4>1. InFile(Kind(x), idx[Kind(x)][i].pos) /\ data[Kind(x)][idx[Kind(x)][i].pos].id = x
          BY <1>3, <2>2, AllInFile DEF RecordAt
        <4>2. ~(Kind(x) = k /\ idx[Kind(x)][i].pos = o.pos /\ o.slot > 0)
          BY <1>9, <2>4, <4>1
        <4> QED
          BY <1>11, <2>2, <4>1, <4>2
      <3>2. \A i \in DOMAIN idx[Kind(x)] : InFile(Kind(x), idx[Kind(x)][i].pos)' <=> InFile(Kind(x), idx[Kind(x)][i].pos)
        BY <1>1, <1>11, <2>2
      <3>3. Own(x)' = Own(x)
        BY <1>1, <3>1, <3>2 DEF Own
      <3>4. \A i \in Own(x) : RecordAt(Kind(x), i)' = RecordAt(Kind(x), i)
        BY <3>1 DEF Own
      <3>5. mem'[x] = mem[x] /\ acked'[x] = acked[x] /\ serving' = serving
        BY <1>1, <1>7, <2>4
      <3> QED
        BY <2>2, <3>3, <3>4, <3>5 DEF Settled
    <2> QED
      BY <2>3, <2>4
  <1> QED
    BY <1>12, <1>13, <1>14, <1>15, <1>16, <1>17 DEF IInv

LEMMA KillKeeps ==
  ASSUME IInv, Kill
  PROVE  IInv'
  <1>1. /\ serving /\ faults < MaxFaults /\ faults' = faults + 1
        /\ serving' = FALSE /\ mem' = [id \in Ids |-> None] /\ saving' = None /\ batch' = None
        /\ torn' = (torn \/ \E k \in Kinds : \E i \in DOMAIN idx[k] : idx[k][i].pos \notin DOMAIN data[k])
        /\ UNCHANGED <<idx, data, acked, unsettled, skipped>>
    BY DEF Kill, Fault, disk
  <1>2. StoreTypeOK /\ ~ torn
    BY <1>1 DEF IInv, StateInv
  <1>3. torn' <=> \E k \in Kinds : \E i \in DOMAIN idx[k] : ~ InFile(k, idx[k][i].pos)
    BY <1>1, <1>2 DEF InFile
  <1>4. StoreTypeOK'
    <2>1. torn' \in BOOLEAN
      BY <1>1, <1>2 DEF StoreTypeOK
    <2>2. faults' \in 0 .. MaxFaults
      BY <1>1, <1>2, RecordStoreAssumption DEF StoreTypeOK
    <2>3. mem' \in [Ids -> Objects \union {None}]
      BY <1>1
    <2> QED
      BY <1>1, <1>2, <2>1, <2>2, <2>3 DEF StoreTypeOK
  <1>5. StateInv'
    BY <1>1, <1>3 DEF StateInv, InFile
  <1>6. SavingInv' /\ MemInv' /\ BatchInv' /\ SlotInv'
    BY <1>1 DEF SavingInv, MemInv, BatchInv, SlotInv
  <1>7. EntriesInv'
    <2> SUFFICES ASSUME NEW q \in Kinds, NEW i \in DOMAIN idx[q]
                 PROVE  /\ Kind(idx[q][i].id) = q
                        /\ IF InFile(q, idx[q][i].pos)
                           THEN RecordAt(q, i).id = idx[q][i].id /\ idx[q][i].space <= RecordAt(q, i).room
                           ELSE torn'
      BY <1>1 DEF EntriesInv, InFile, RecordAt
    <2> QED
      BY <1>3 DEF IInv, EntriesInv
  <1>8. SettledInv'
    <2> SUFFICES ASSUME ~ torn', ~ skipped, NEW x \in Ids \ unsettled PROVE Settled(x)'
      BY <1>1 DEF SettledInv
    <2>1. Settled(x) /\ Kind(x) \in Kinds
      BY <1>2, KindIs DEF IInv, SettledInv
    <2>2. ~ Writing(x)
      <3> SUFFICES ASSUME Writing(x) PROVE FALSE
        OBVIOUS
      <3>1. saving # None /\ saving.id = x /\ saving.step = "data" /\ mem[x] # None
        BY DEF Writing, IInv, StateInv
      <3>2. mem[x].slot > 0
        BY <3>1 DEF IInv, SavingInv, Saved, Positioned
      <3>3. BeingPlaced(x)
        <4>1. mem[x].slot \in Nat
          BY <1>2, <3>1, MemTyped
        <4> QED
          BY <3>1, <3>2, <4>1 DEF IInv, MemInv, Unplaced, Placed, Writing
      <3>4. mem[x].slot \in DOMAIN idx[Kind(x)] /\ ~ InFile(Kind(x), idx[Kind(x)][mem[x].slot].pos)
        BY <3>3 DEF BeingPlaced, Writing
      <3> QED
        BY <1>3, <2>1, <3>4
    <2>3. Own(x)' = Own(x) /\ \A i : RecordAt(Kind(x), i)' = RecordAt(Kind(x), i)
      BY <1>1 DEF Own, InFile, RecordAt
    <2>4. ~ Writing(x)' /\ ~ serving'
      BY <1>1 DEF Writing
    <2> QED
      BY <1>1, <2>1, <2>2, <2>3, <2>4 DEF Settled
  <1> QED
    BY <1>4, <1>5, <1>6, <1>7, <1>8 DEF IInv

(* What a start makes of a file without damage.                            *)
LEMMA CountTo ==
  ASSUME NEW n \in Nat
  PROVE  IsFiniteSet(1 .. n) /\ Cardinality(1 .. n) = n
  <1>1. IsFiniteSet(1 .. n) /\ Cardinality(1 .. n) = IF 1 > n THEN 0 ELSE n - 1 + 1
    BY FS_Interval
  <1>2. (IF 1 > n THEN 0 ELSE n - 1 + 1) = n
    OBVIOUS
  <1> QED
    BY <1>1, <1>2

LEMMA DecodeTyped ==
  ASSUME StoreTypeOK, NEW k \in Kinds, Readable(k), NEW i \in DOMAIN idx[k]
  PROVE  ReadEntry(k, i) \in Objects /\ CountedSlot(k, i) \in 1 .. i
  <1>1. DOMAIN idx[k] = 1 .. Len(idx[k]) /\ Len(idx[k]) \in Nat /\ i \in Nat /\ i > 0
    BY FilesTyped
  <1>2. \A j \in 1 .. i : j \in DOMAIN idx[k] /\ RecordAt(k, j) \in Records
    <2> SUFFICES ASSUME NEW j \in 1 .. i PROVE j \in DOMAIN idx[k] /\ RecordAt(k, j) \in Records
      OBVIOUS
    <2>1. j \in DOMAIN idx[k]
      BY <1>1
    <2>2. idx[k][j].pos \in DOMAIN data[k]
      BY <2>1 DEF Readable
    <2> QED
      BY <2>1, <2>2, FilesTyped DEF RecordAt
  <1>3. \A j \in 1 .. i : DecodedEdges(RecordAt(k, j).content) \in Seq(Edges)
                          /\ RecordAt(k, j).content.fields \subseteq Fields
    <2> SUFFICES ASSUME NEW j \in 1 .. i
                 PROVE  DecodedEdges(RecordAt(k, j).content) \in Seq(Edges)
                        /\ RecordAt(k, j).content.fields \subseteq Fields
      OBVIOUS
    <2>1. PICK c \in Contents : c = RecordAt(k, j).content
      BY <1>2 DEF Records
    <2>2. c.out \in Seq(Edges) /\ c.in \in Seq(Edges) /\ c.fields \subseteq Fields
      BY DEF Contents
    <2> QED
      BY <2>1, <2>2, ConcatProperties DEF DecodedEdges
  <1>4. Decode(k, i) \in Contents
    <2> DEFINE s == [j \in 1 .. i |-> IF j \in DecodedWith(k, i) THEN DecodedEdges(RecordAt(k, j).content)
                                                                 ELSE <<>>]
    <2>1. s \in Seq(Seq(Edges))
      <3>1. \A j \in 1 .. i : s[j] \in Seq(Edges)
        BY <1>3, EmptySeq
      <3> HIDE DEF s
      <3>2. s = [j \in 1 .. i |-> s[j]]
        BY DEF s
      <3> QED
        BY <1>1, <3>1, <3>2, IsASeq
    <2>2. FlattenSeq(s) \in Seq(Edges)
      <3> HIDE DEF s
      <3> QED
        BY <2>1, FlattenType
    <2>3. DecodedFields(k, DecodedWith(k, i)) \subseteq Fields
      BY <1>3 DEF DecodedFields, DecodedWith
    <2>4. Decode(k, i) = [out |-> FlattenSeq(s), in |-> <<>>, fields |-> DecodedFields(k, DecodedWith(k, i))]
      BY DEF Decode
    <2> HIDE DEF s
    <2> QED
      BY <2>2, <2>3, <2>4, EmptySeq DEF Contents
  <1>5. CountedSlot(k, i) \in 1 .. i
    <2> DEFINE live == {j \in 1 .. i - 1 : RecordAt(k, j).live}
    <2>1. IsFiniteSet(1 .. i - 1) /\ Cardinality(1 .. i - 1) = i - 1
      <3>1. i - 1 \in Nat
        BY <1>1
      <3> QED
        BY <3>1, CountTo
    <2>2. Cardinality(live) \in Nat /\ Cardinality(live) <= i - 1
      <3>1. live \subseteq 1 .. i - 1
        OBVIOUS
      <3> HIDE DEF live
      <3>2. IsFiniteSet(live) /\ Cardinality(live) <= Cardinality(1 .. i - 1)
        BY <2>1, <3>1, FS_Subset
      <3> QED
        BY <2>1, <3>2, FS_CardinalityType
    <2>3. CountedSlot(k, i) = 1 + Cardinality(live)
      BY DEF CountedSlot
    <2> HIDE DEF live
    <2>4. \A n \in Nat : n <= i - 1 => 1 + n \in 1 .. i
      BY <1>1
    <2> QED
      BY <2>2, <2>3, <2>4
  <1>6. idx[k][i].pos \in Nat /\ idx[k][i].space \in Nat
    BY FilesTyped DEF Entries
  <1>7. CountedSlot(k, i) \in Nat
    BY <1>1, <1>5
  <1> QED
    BY <1>4, <1>5, <1>6, <1>7 DEF ReadEntry, Objects

LEMMA LatestIs ==
  ASSUME NEW n \in Nat, NEW S \in SUBSET (1 .. n), S # {}
  PROVE  Latest(S) \in S /\ \A j \in S : j <= Latest(S)
  <1> DEFINE T == {n - j : j \in S}
  <1>1. T \in SUBSET Nat /\ T # {}
    <2>1. \A j \in 1 .. n : n - j \in Nat
      OBVIOUS
    <2>2. \A j \in S : n - j \in Nat
      BY <2>1
    <2> QED
      BY <2>2
  <1>2. \E x \in T : \A y \in T : x <= y
    <2> HIDE DEF T
    <2> QED
      BY <1>1, LeastNumber
  <1>3. PICK i \in S : \A j \in S : n - i <= n - j
    BY <1>2
  <1>4. \A j \in S : j <= i
    BY <1>3
  <1> QED
    BY <1>3, <1>4 DEF Latest

LEMMA LoadedIs ==
  ASSUME StoreTypeOK, NEW id \in Ids, Readable(Kind(id)), LiveEntries(id) # {}
  PROVE  /\ Latest(LiveEntries(id)) \in LiveEntries(id)
         /\ Loaded(id) = ReadEntry(Kind(id), Latest(LiveEntries(id)))
         /\ Loaded(id) \in Objects
  <1>1. Kind(id) \in Kinds
    BY KindIs
  <1>2. PICK n \in Nat : DOMAIN idx[Kind(id)] = 1 .. n
    BY <1>1, FilesTyped
  <1>3. LiveEntries(id) \in SUBSET (1 .. n)
    BY <1>2 DEF LiveEntries
  <1>4. Latest(LiveEntries(id)) \in LiveEntries(id)
    BY <1>3, LatestIs
  <1>5. Latest(LiveEntries(id)) \in DOMAIN idx[Kind(id)]
    BY <1>4 DEF LiveEntries
  <1> QED
    BY <1>1, <1>4, <1>5, DecodeTyped DEF Loaded

LEMMA LiveEntriesAreOwn ==
  ASSUME NEW id \in Ids, Readable(Kind(id))
  PROVE  LiveEntries(id) = Own(id)
  BY DEF LiveEntries, Own, Readable, InFile

LEMMA CountedAll ==
  ASSUME StoreTypeOK, NEW k \in Kinds, Dead(k) = {}, NEW i \in DOMAIN idx[k]
  PROVE  CountedSlot(k, i) = i
  <1>1. DOMAIN idx[k] = 1 .. Len(idx[k]) /\ Len(idx[k]) \in Nat
    BY FilesTyped
  <1>2. \A j \in 1 .. i - 1 : RecordAt(k, j).live
    BY <1>1 DEF Dead
  <1>3. {j \in 1 .. i - 1 : RecordAt(k, j).live} = 1 .. i - 1
    BY <1>2
  <1>4. i - 1 \in Nat /\ 1 + (i - 1) = i
    BY <1>1
  <1>5. Cardinality(1 .. i - 1) = i - 1
    BY <1>4, CountTo
  <1> QED
    BY <1>3, <1>4, <1>5 DEF CountedSlot

LEMMA LoadKeeps ==
  ASSUME IInv, Load
  PROVE  IInv'
  <1>1. /\ ~ serving /\ serving' = TRUE /\ mem' = [id \in Ids |-> Loaded(id)]
        /\ \A k \in Kinds : Readable(k)
        /\ skipped' = (skipped \/ \E k \in Kinds : Dead(k) # {})
        /\ UNCHANGED <<idx, data, saving, batch, acked, unsettled, torn, faults>>
    BY DEF Load, disk
  <1>2. StoreTypeOK /\ saving = None /\ batch = None
    BY <1>1 DEF IInv, StateInv
  <1>3. ~ torn
    BY <1>1 DEF IInv, StateInv, Readable, InFile
  <1>4. \A x \in Ids : /\ Kind(x) \in Kinds /\ Readable(Kind(x)) /\ LiveEntries(x) = Own(x)
                       /\ mem'[x] = Loaded(x)
    BY <1>1, KindIs, LiveEntriesAreOwn
  <1>5. NoneWriting /\ NoneWriting' /\ \A x \in Ids : ~ InBatch(x)'
    BY <1>1, <1>2, <1>3 DEF NoneWriting, Writing, InBatch
  <1>6. \A x \in Ids : IF Own(x) = {} THEN mem'[x] = None
                       ELSE /\ Latest(Own(x)) \in Own(x) /\ mem'[x] \in Objects
                            /\ mem'[x] = ReadEntry(Kind(x), Latest(Own(x)))
    <2> SUFFICES ASSUME NEW x \in Ids
                 PROVE  IF Own(x) = {} THEN mem'[x] = None
                        ELSE /\ Latest(Own(x)) \in Own(x) /\ mem'[x] \in Objects
                             /\ mem'[x] = ReadEntry(Kind(x), Latest(Own(x)))
      OBVIOUS
    <2>1. CASE Own(x) = {}
      BY <1>4, <2>1 DEF Loaded
    <2>2. CASE Own(x) # {}
      BY <1>2, <1>4, <2>2, LoadedIs
    <2> QED
      BY <2>1, <2>2
  <1>7. StoreTypeOK'
    <2>1. mem' \in [Ids -> Objects \union {None}]
      BY <1>1, <1>4, <1>6
    <2>2. skipped' \in BOOLEAN
      BY <1>1, <1>2 DEF StoreTypeOK
    <2> QED
      BY <1>1, <1>2, <2>1, <2>2 DEF StoreTypeOK
  <1>8. StateInv' /\ SavingInv' /\ BatchInv'
    BY <1>1, <1>2, <1>3 DEF StateInv, SavingInv, BatchInv
  <1>9. EntriesInv'
    <2>1. Grows
      BY <1>1 DEF Grows, InFile
    <2> QED
      BY <1>5, <2>1, GrowsEntries
  <1>10. ASSUME NEW x \in Ids, mem'[x] # None
         PROVE  \E i \in Own(x) : /\ i \in DOMAIN idx[Kind(x)] /\ idx[Kind(x)][i].id = x
                                  /\ mem'[x] = ReadEntry(Kind(x), i) /\ mem'[x].pos = idx[Kind(x)][i].pos
                                  /\ mem'[x].space = idx[Kind(x)][i].space
                                  /\ mem'[x].slot = CountedSlot(Kind(x), i)
                                  /\ CountedSlot(Kind(x), i) \in 1 .. i
                                  /\ CountedSlot(Kind(x), i) \in DOMAIN idx[Kind(x)]
                                  /\ CountedSlot(Kind(x), i) > 0
    <2>1. PICK i \in Own(x) : mem'[x] = ReadEntry(Kind(x), i)
      BY <1>6, <1>10
    <2>2. i \in DOMAIN idx[Kind(x)] /\ idx[Kind(x)][i].id = x
      BY DEF Own
    <2>3. CountedSlot(Kind(x), i) \in 1 .. i
      BY <1>2, <1>4, <2>2, DecodeTyped
    <2>4. CountedSlot(Kind(x), i) \in DOMAIN idx[Kind(x)] /\ CountedSlot(Kind(x), i) > 0
      <3>1. PICK n \in Nat : DOMAIN idx[Kind(x)] = 1 .. n
        BY <1>2, <1>4, FilesTyped
      <3> QED
        BY <2>2, <2>3, <3>1
    <2> QED
      BY <2>1, <2>2, <2>3, <2>4 DEF ReadEntry
  <1>11. MemInv'
    <2> SUFFICES ASSUME NEW x \in Ids, mem'[x] # None PROVE Placed(x)'
      BY DEF MemInv
    <2>1. PICK i \in Own(x) :
            /\ i \in DOMAIN idx[Kind(x)] /\ idx[Kind(x)][i].id = x
            /\ mem'[x].pos = idx[Kind(x)][i].pos /\ mem'[x].space = idx[Kind(x)][i].space
            /\ mem'[x].slot \in DOMAIN idx[Kind(x)] /\ mem'[x].slot > 0
      BY <1>10
    <2>2. /\ InFile(Kind(x), idx[Kind(x)][i].pos)
          /\ RecordAt(Kind(x), i).id = x /\ idx[Kind(x)][i].space <= RecordAt(Kind(x), i).room
      BY <1>4, <1>5, <2>1, AllInFile
    <2> QED
      BY <1>1, <2>1, <2>2 DEF Placed, InFile, RecordAt
  <1>12. ~ skipped' => \A x \in Ids : mem'[x] # None =>
           mem'[x].slot \in Own(x) /\ mem'[x].pos = idx[Kind(x)][mem'[x].slot].pos
    <2> SUFFICES ASSUME ~ skipped', NEW x \in Ids, mem'[x] # None
                 PROVE  mem'[x].slot \in Own(x) /\ mem'[x].pos = idx[Kind(x)][mem'[x].slot].pos
      OBVIOUS
    <2>1. Dead(Kind(x)) = {}
      BY <1>1, <1>4
    <2>2. PICK i \in Own(x) : /\ i \in DOMAIN idx[Kind(x)] /\ mem'[x].pos = idx[Kind(x)][i].pos
                              /\ mem'[x].slot = CountedSlot(Kind(x), i)
      BY <1>10
    <2>3. mem'[x].slot = i
      BY <1>2, <1>4, <2>1, <2>2, CountedAll
    <2> QED
      BY <2>2, <2>3
  <1>13. SlotInv'
    <2> SUFFICES ASSUME ~ skipped', NEW x \in Ids, mem'[x] # None
                 PROVE  idx[Kind(x)][mem'[x].slot].id = x /\ idx[Kind(x)][mem'[x].slot].pos = mem'[x].pos
      BY <1>1 DEF SlotInv
    <2> QED
      BY <1>12 DEF Own
  <1>14. SettledInv'
    <2> SUFFICES ASSUME ~ skipped', NEW x \in Ids \ unsettled PROVE Settled(x)'
      BY <1>1 DEF SettledInv
    <2>1. Settled(x) /\ ~ Writing(x) /\ ~ Writing(x)' /\ ~ InBatch(x)'
      BY <1>1, <1>3, <1>5 DEF IInv, SettledInv, NoneWriting
    <2>2. Own(x)' = Own(x) /\ \A i : RecordAt(Kind(x), i)' = RecordAt(Kind(x), i)
      BY <1>1 DEF Own, InFile, RecordAt
    <2>3. CASE mem'[x] = None
      <3>1. Own(x) = {}
        BY <1>6, <2>3, RecordStoreAssumption
      <3> QED
        BY <1>1, <2>1, <2>2, <2>3, <3>1 DEF Settled
    <2>4. CASE mem'[x] # None
      <3>1. mem'[x].slot \in Own(x) /\ mem'[x].slot # 0
        <4>1. mem'[x].slot > 0
          BY <1>10, <2>4
        <4> QED
          BY <1>12, <2>4, <4>1
      <3> QED
        BY <1>1, <2>1, <2>2, <2>4, <3>1 DEF Settled
    <2> QED
      BY <2>3, <2>4
  <1> QED
    BY <1>7, <1>8, <1>9, <1>11, <1>13, <1>14 DEF IInv

LEMMA StutterKeeps ==
  ASSUME IInv, UNCHANGED storeVars
  PROVE  IInv'
  <1>1. UNCHANGED <<idx, data, serving, mem, saving, batch, acked, unsettled, torn, skipped, faults>>
    BY DEF storeVars
  <1>2. /\ \A q, p : InFile(q, p)' <=> InFile(q, p)
        /\ \A q, i : RecordAt(q, i)' = RecordAt(q, i)
    BY <1>1 DEF InFile, RecordAt
  <1>3. \A x : /\ Writing(x)' <=> Writing(x)
               /\ InBatch(x)' <=> InBatch(x)
               /\ Own(x)' = Own(x)
    BY <1>1, <1>2 DEF Writing, InFile, InBatch, BatchIds, Own, RecordAt
  <1>4. StoreTypeOK' /\ StateInv' /\ SavingInv' /\ BatchInv'
    <2>1. StoreTypeOK'
      BY <1>1 DEF IInv, StoreTypeOK
    <2>2. StateInv'
      BY <1>1 DEF IInv, StateInv, InFile
    <2>3. SavingInv'
      BY <1>1 DEF IInv, SavingInv, Saved, SavedK, NewPos, Moves, Positioned, Length, InFile
    <2>4. BatchInv'
      BY <1>1 DEF IInv, BatchInv, InFile
    <2> QED
      BY <2>1, <2>2, <2>3, <2>4
  <1>5. EntriesInv'
    <2> SUFFICES ASSUME NEW q \in Kinds, NEW i \in DOMAIN idx[q]
                 PROVE  /\ Kind(idx[q][i].id) = q
                        /\ IF InFile(q, idx[q][i].pos)
                           THEN RecordAt(q, i).id = idx[q][i].id /\ idx[q][i].space <= RecordAt(q, i).room
                           ELSE torn \/ AwaitsRecord(q, i)'
      BY <1>1, <1>2 DEF EntriesInv
    <2>1. AwaitsRecord(q, i)' <=> AwaitsRecord(q, i)
      BY <1>1, <1>3 DEF AwaitsRecord, Length
    <2> QED
      BY <2>1 DEF IInv, EntriesInv
  <1>6. MemInv'
    BY <1>1, <1>3 DEF IInv, MemInv, Unplaced, Placed, BeingPlaced, InFile
  <1>7. SlotInv'
    BY <1>1, <1>3 DEF IInv, SlotInv
  <1>8. SettledInv'
    BY <1>1, <1>2, <1>3 DEF IInv, SettledInv, Settled
  <1> QED
    BY <1>4, <1>5, <1>6, <1>7, <1>8 DEF IInv

LEMMA NextKeeps == IInv /\ [StoreNext]_storeVars => IInv'
  <1> SUFFICES ASSUME IInv, [StoreNext]_storeVars PROVE IInv'
    OBVIOUS
  <1>1. ASSUME NEW id \in PointIds, NEW added \in SUBSET Fields, SetPoint(id, added) PROVE IInv'
    BY <1>1, SetPointKeeps
  <1>2. ASSUME NEW id \in PointIds, NEW edge \in Edges, NEW isOut \in BOOLEAN,
               AddLineForPoint(id, edge, isOut) \/ DelLineForPoint(id, edge, isOut)
        PROVE  IInv'
    BY <1>2, AddLineKeeps, DelLineKeeps
  <1>3. ASSUME NEW id \in LineIds, NEW added \in SUBSET Fields, CreateLine(id, added) PROVE IInv'
    BY <1>3, CreateLineKeeps
  <1>4. ASSUME NEW ids \in UNION {[1 .. n -> PointIds] : n \in 1 .. 2}, CreatePoints(ids) PROVE IInv'
    <2>1. PICK n \in 1 .. 2 : ids \in [1 .. n -> PointIds]
      OBVIOUS
    <2> QED
      BY <1>4, <2>1, CreatePointsKeeps
  <1>5. CASE PutRecord \/ EndBatch \/ BatchFails
    BY <1>5, PutRecordKeeps, EndBatchKeeps, BatchFailsKeeps
  <1>6. CASE SaveIndex \/ SaveData \/ OpenDataFails \/ OpenIndexFails
    BY <1>6, SaveIndexKeeps, SaveDataKeeps, OpenDataFailsKeeps, OpenIndexFailsKeeps
  <1>7. ASSUME NEW id \in Ids, Del(id) PROVE IInv'
    BY <1>7, DelKeeps
  <1>8. CASE Kill \/ Load
    BY <1>8, KillKeeps, LoadKeeps
  <1>9. CASE UNCHANGED storeVars
    BY <1>9, StutterKeeps
  <1> QED
    BY <1>1, <1>2, <1>3, <1>4, <1>5, <1>6, <1>7, <1>8, <1>9 DEF StoreNext

(* The inductive invariant holds in every state a node can reach.          *)
THEOREM IInvHolds == StoreSpec => []IInv
  BY InitKeeps, NextKeeps, PTL DEF StoreSpec

(* Everything stays in its type, the counted faults in their bound.        *)
THEOREM StoreTypeCorrect == StoreSpec => []StoreTypeOK
  <1>1. IInv => StoreTypeOK
    BY DEF IInv
  <1> QED
    BY <1>1, IInvHolds, PTL

(* Every index entry leads to a record of its own object with room for it, *)
(* but for the one entry of a save that has not reached the data file.     *)
THEOREM EntriesLeadHomeHolds == StoreSpec => []EntriesLeadHome
  <1>1. IInv => EntriesLeadHome
    BY DEF IInv, EntriesInv, AwaitsRecord, Writing, EntriesLeadHome, InFile
  <1> QED
    BY <1>1, IInvHolds, PTL

(* No save and no deletion touches the record of another object.           *)
THEOREM OwnRecordOnlyHolds == StoreSpec => []OwnRecordOnly
  <1>1. IInv => OwnRecordOnly
    <2> SUFFICES ASSUME IInv, NEW id \in Ids, mem[id] # None, mem[id].pos \in DOMAIN data[Kind(id)]
                 PROVE  /\ data[Kind(id)][mem[id].pos].id = id
                        /\ mem[id].space <= data[Kind(id)][mem[id].pos].room
      BY DEF OwnRecordOnly
    <2>1. mem[id].pos # 0
      BY FilesTyped, KindIs DEF IInv
    <2>2. Placed(id)
      BY <2>1 DEF IInv, MemInv, Unplaced, BeingPlaced, Writing, InFile
    <2> QED
      BY <2>2 DEF Placed
  <1> QED
    BY <1>1, IInvHolds, PTL

(* Index and memory lead to the object's own record, for any points,        *)
(* lines, edges, records and faults.                                       *)
THEOREM RecordsLeadHomeHolds == StoreSpec => []RecordsLeadHome
  BY EntriesLeadHomeHolds, OwnRecordOnlyHolds, PTL DEF RecordsLeadHome

-----------------------------------------------------------------------------
(* What a start reads of the last live entry of an object ends with what   *)
(* its record holds, and is just that when no deleted record comes before. *)
LEMMA DecodeIs ==
  ASSUME StoreTypeOK, NEW k \in Kinds, Readable(k), NEW i \in DOMAIN idx[k],
         NEW c \in Contents, RecordAt(k, i).content = c
  PROVE  /\ IsSuffix(DecodedEdges(c), Decode(k, i).out)
         /\ c.fields \subseteq Decode(k, i).fields
         /\ Dead(k) = {} => Decode(k, i).out = DecodedEdges(c) /\ Decode(k, i).fields = c.fields
  <1> DEFINE W == DecodedWith(k, i)
             E(j) == IF j \in W THEN DecodedEdges(RecordAt(k, j).content) ELSE <<>>
             s == [j \in 1 .. i |-> E(j)]
             t == [j \in 1 .. i - 1 |-> E(j)]
  <1>1. DOMAIN idx[k] = 1 .. Len(idx[k]) /\ Len(idx[k]) \in Nat /\ i \in Nat /\ i > 0 /\ i - 1 \in Nat
    BY FilesTyped
  <1>2. Decode(k, i).out = FlattenSeq(s) /\ Decode(k, i).fields = DecodedFields(k, W)
    BY DEF Decode
  <1>3. i \in W
    BY <1>1 DEF DecodedWith
  <1>4. \A j \in 1 .. i : E(j) \in Seq(Edges)
    <2> SUFFICES ASSUME NEW j \in 1 .. i PROVE DecodedEdges(RecordAt(k, j).content) \in Seq(Edges)
      BY EmptySeq
    <2>1. j \in DOMAIN idx[k]
      BY <1>1
    <2>2. idx[k][j].pos \in DOMAIN data[k]
      BY <2>1 DEF Readable
    <2>3. RecordAt(k, j) \in Records
      BY <2>2, FilesTyped DEF RecordAt
    <2>4. PICK d \in Contents : d = RecordAt(k, j).content
      BY <2>3 DEF Records
    <2>5. d.out \in Seq(Edges) /\ d.in \in Seq(Edges)
      BY DEF Contents
    <2> QED
      BY <2>4, <2>5, ConcatProperties DEF DecodedEdges
  <1>5. E(i) = DecodedEdges(c)
    BY <1>3
  <1> HIDE DEF E
  <1>6. s \in Seq(Seq(Edges)) /\ t \in Seq(Seq(Edges)) /\ Len(t) = i - 1
    <2>1. s \in Seq(Seq(Edges))
      BY <1>1, <1>4, IsASeq
    <2>2. \A j \in 1 .. i - 1 : E(j) \in Seq(Edges)
      BY <1>1, <1>4
    <2>3. t \in Seq(Seq(Edges))
      BY <1>1, <2>2, IsASeq
    <2>4. DOMAIN t = 1 .. i - 1
      OBVIOUS
    <2>5. Len(t) = i - 1
      <3> HIDE DEF t
      <3> QED
        BY <1>1, <2>3, <2>4, LenProperties
    <2> QED
      BY <2>1, <2>3, <2>5
  <1>7. s = Append(t, E(i))
    <2>1. /\ Append(t, E(i)) \in Seq(Seq(Edges)) /\ Len(Append(t, E(i))) = i - 1 + 1
          /\ \A j \in 1 .. i - 1 : Append(t, E(i))[j] = t[j]
          /\ Append(t, E(i))[i - 1 + 1] = E(i)
      <3>1. E(i) \in Seq(Edges)
        BY <1>1, <1>4
      <3> HIDE DEF s, t
      <3> QED
        BY <1>6, <3>1, AppendProperties
    <2>2. \A j \in 1 .. i - 1 : t[j] = E(j)
      OBVIOUS
    <2>3. \A j \in 1 .. i : s[j] = E(j)
      OBVIOUS
    <2>4. Len(s) = i
      <3>1. DOMAIN s = 1 .. i
        OBVIOUS
      <3> HIDE DEF s
      <3> QED
        BY <1>1, <1>6, <3>1, LenProperties
    <2>5. i - 1 + 1 = i
      BY <1>1
    <2> HIDE DEF s, t
    <2>6. \A j \in 1 .. i : s[j] = Append(t, E(i))[j]
      <3> SUFFICES ASSUME NEW j \in 1 .. i PROVE Append(t, E(i))[j] = E(j)
        BY <2>3
      <3>1. CASE j = i
        BY <2>1, <2>5, <3>1
      <3>2. CASE j # i
        <4>1. j \in 1 .. i - 1
          BY <1>1, <3>2
        <4> QED
          BY <2>1, <2>2, <4>1
      <3> QED
        BY <3>1, <3>2
    <2> QED
      BY <1>6, <2>1, <2>4, <2>5, <2>6, SeqEqual
  <1>8. PICK edges \in Seq(Edges), u \in Seq(Edges) :
          edges = DecodedEdges(c) /\ u = FlattenSeq(t) /\ FlattenSeq(s) = u \o edges
    <2>1. E(i) \in Seq(Edges)
      BY <1>1, <1>4
    <2> HIDE DEF s, t
    <2>2. FlattenSeq(t) \in Seq(Edges)
      BY <1>6, FlattenType
    <2>3. FlattenSeq(Append(t, E(i))) = FlattenSeq(t) \o E(i)
      BY <1>6, <2>1, FlattenAppend
    <2> QED
      BY <1>5, <1>7, <2>1, <2>2, <2>3
  <1>9. IsSuffix(edges, u \o edges)
    BY SuffixOfConcat
  <1>10. c.fields \subseteq DecodedFields(k, W)
    BY <1>3 DEF DecodedFields
  <1>11. ASSUME Dead(k) = {} PROVE u \o edges = edges /\ DecodedFields(k, W) = c.fields
    <2>1. \A j \in 1 .. i - 1 : j \notin W
      <3> SUFFICES ASSUME NEW j \in 1 .. i - 1, j \in W PROVE FALSE
        OBVIOUS
      <3>1. j \in j .. i - 1 /\ j \in DOMAIN idx[k]
        BY <1>1
      <3>2. ~ RecordAt(k, j).live
        BY <3>1 DEF DecodedWith
      <3> QED
        BY <1>11, <3>1, <3>2 DEF Dead
    <2>2. W = {i}
      <3>1. \A j \in 1 .. i : j \in 1 .. i - 1 \/ j = i
        BY <1>1
      <3>2. W \subseteq 1 .. i
        BY DEF DecodedWith
      <3> HIDE DEF W
      <3> QED
        BY <1>3, <2>1, <3>1, <3>2
    <2>3. DecodedFields(k, W) = c.fields
      BY <2>2 DEF DecodedFields
    <2>4. \A j \in 1 .. Len(t) : t[j] = <<>>
      BY <1>6, <2>1 DEF E
    <2>5. u = <<>>
      <3> HIDE DEF t
      <3> QED
        BY <1>6, <1>8, <2>4, FlattenEmpty
    <2> QED
      BY <2>3, <2>5, ConcatEmptySeq
  <1> QED
    BY <1>2, <1>8, <1>9, <1>10, <1>11

(* Whenever the process is killed, the files hold what the requests that   *)
(* succeeded have made, up to the known holes.                             *)
THEOREM DurableHolds == StoreSpec => []Durable
  <1>1. IInv => Durable
    <2> SUFFICES ASSUME IInv, ~ torn, ~ skipped, saving # None => saving.step = "index" \/ ~ Moves(Saved),
                        NEW id \in Ids \ unsettled
                 PROVE  Holds(id, acked[id])
      BY DEF Durable
    <2>1. NoneWriting
      <3> SUFFICES ASSUME NEW x \in Ids, Writing(x) PROVE FALSE
        BY DEF NoneWriting
      <3>1. saving # None /\ saving.id = x /\ saving.step = "data" /\ ~ InFile(SavedK, Saved.pos)
        BY DEF Writing, SavedK, Saved
      <3>2. ~ Moves(Saved) /\ Saved.space < Length(Saved.content)
        BY <3>1 DEF IInv, SavingInv
      <3>3. Length(Saved.content) \in Nat /\ Saved.space \in Nat
        BY <3>1, InSave DEF Objects
      <3>4. Length(Saved.content) > Saved.space
        BY <3>2, <3>3
      <3> QED
        BY <3>2, <3>4 DEF Moves
    <2>2. PICK k \in Kinds : k = Kind(id)
      BY KindIs
    <2>3. \A q \in Kinds : Readable(q)
      BY <2>1, AllInFile DEF Readable, InFile, RecordAt
    <2>4. StoreTypeOK /\ Settled(id) /\ ~ Writing(id) /\ LiveEntries(id) = Own(id)
      BY <2>1, <2>2, <2>3, LiveEntriesAreOwn DEF IInv, SettledInv, NoneWriting
    <2>5. CASE acked[id] = None
      <3>1. Own(id) = {}
        BY <2>4, <2>5 DEF Settled
      <3> QED
        BY <2>2, <2>3, <2>4, <2>5, <3>1 DEF Holds, Loaded
    <2>6. CASE acked[id] # None
      <3>1. PICK i \in Own(id) : RecordAt(k, i).content = acked[id]
        BY <2>2, <2>4, <2>6 DEF Settled
      <3>2. PICK c \in Contents : c = acked[id] /\ c # None
        BY <2>4, <2>6 DEF StoreTypeOK
      <3>3. Latest(LiveEntries(id)) = i /\ Loaded(id) = ReadEntry(k, i) /\ Loaded(id) \in Objects
        BY <2>2, <2>3, <2>4, LoadedIs DEF Settled
      <3>4. Loaded(id) # None /\ Loaded(id).content = Decode(k, i)
        BY <3>3, RecordStoreAssumption DEF ReadEntry
      <3>5. i \in DOMAIN idx[k]
        BY <2>2 DEF Own
      <3>6. /\ IsSuffix(DecodedEdges(c), Decode(k, i).out)
            /\ c.fields \subseteq Decode(k, i).fields
            /\ Dead(k) = {} => Decode(k, i).out = DecodedEdges(c) /\ Decode(k, i).fields = c.fields
        BY <2>3, <2>4, <3>1, <3>2, <3>5, DecodeIs
      <3> QED
        BY <2>2, <2>3, <3>2, <3>4, <3>6 DEF Holds
    <2> QED
      BY <2>5, <2>6
  <1> QED
    BY <1>1, IInvHolds, PTL

-----------------------------------------------------------------------------
(* The allocation of ids.                                                  *)
USE IdAssumption

-----------------------------------------------------------------------------
(* The loop that reads an index, as a fold: its result is the last of the  *)
(* values the fold goes through.                                           *)
NothingRead == [slot |-> 1, left |-> Blank, objects |-> [id \in Ids |-> None]]

ReadStep(k, g, S) == IF S = {} THEN NothingRead ELSE ReadNext(k, g[S \ {Max(S)}], idx[k][Max(S)])

ReadFolds(k, I, g) == g = [S \in SUBSET I |-> ReadStep(k, g, S)]

ReadUpTo(I, n) == {S \in SUBSET I : Cardinality(S) <= n}

Reads(k, p) ==
  p = [i \in 0 .. Len(idx[k]) |-> IF i = 0 THEN NothingRead ELSE ReadNext(k, p[i - 1], idx[k][i])]

(* The function of the fold exists: its values on small sets are enough    *)
(* for those on larger ones.                                               *)
LEMMA ReadFoldsExist ==
  ASSUME NEW k, NEW m \in Nat
  PROVE  \E g : ReadFolds(k, 1 .. m, g)
  <1> DEFINE I == 1 .. m
             To(n, g) == g = [S \in ReadUpTo(I, n) |-> ReadStep(k, g, S)]
             T == {n \in Nat : \E g : To(n, g)}
  <1>1. \A S \in SUBSET I : IsFiniteSet(S) /\ Cardinality(S) \in Nat /\ (Cardinality(S) = 0 <=> S = {})
    <2>1. IsFiniteSet(I)
      BY CountTo
    <2> HIDE DEF I
    <2>2. \A S \in SUBSET I : IsFiniteSet(S)
      BY <2>1, FS_Subset
    <2> QED
      BY <2>2, FS_CardinalityType, FS_EmptySet
  <1>2. \A S \in SUBSET I : S # {} =>
          S \ {Max(S)} \in SUBSET I /\ Cardinality(S \ {Max(S)}) = Cardinality(S) - 1
    BY <1>1, MaxOf, FS_RemoveElement
  <1>3. \A S \in SUBSET I : Cardinality(S) <= m
    <2>1. IsFiniteSet(I) /\ Cardinality(I) = m
      BY CountTo
    <2> HIDE DEF I
    <2> QED
      BY <2>1, FS_Subset
  <1> HIDE DEF I
  <1>4. 0 \in T
    <2>1. ReadUpTo(I, 0) = {{}}
      BY <1>1 DEF ReadUpTo
    <2>2. [S \in {{}} |-> NothingRead] = [S \in {{}} |-> ReadStep(k, [R \in {{}} |-> NothingRead], S)]
      BY DEF ReadStep
    <2>3. To(0, [S \in {{}} |-> NothingRead])
      BY <2>1, <2>2
    <2> HIDE DEF To
    <2> QED
      BY <2>3
  <1>5. ASSUME NEW n \in T PROVE n + 1 \in T
    <2>1. n \in Nat /\ \E g : To(n, g)
      OBVIOUS
    <2>2. PICK g : To(n, g)
      BY <2>1
    <2> DEFINE h == [S \in ReadUpTo(I, n + 1) |->
                       IF S \in ReadUpTo(I, n) THEN g[S] ELSE ReadStep(k, g, S)]
    <2>3. ReadUpTo(I, n) \subseteq ReadUpTo(I, n + 1)
      BY <1>1, <2>1 DEF ReadUpTo
    <2>4. \A S \in ReadUpTo(I, n + 1) : S # {} => S \ {Max(S)} \in ReadUpTo(I, n)
      BY <1>1, <1>2, <2>1 DEF ReadUpTo
    <2>5. \A S \in ReadUpTo(I, n) : g[S] = ReadStep(k, g, S)
      BY <2>2
    <2>6. \A S \in ReadUpTo(I, n) : h[S] = g[S]
      BY <2>3
    <2>7. \A S \in ReadUpTo(I, n + 1) : h[S] = ReadStep(k, g, S)
      BY <2>5
    <2>8. h = [S \in ReadUpTo(I, n + 1) |-> h[S]]
      OBVIOUS
    <2> HIDE DEF h
    <2>9. \A S \in ReadUpTo(I, n + 1) : ReadStep(k, g, S) = ReadStep(k, h, S)
      BY <2>4, <2>6 DEF ReadStep
    <2>10. To(n + 1, h)
      BY <2>7, <2>8, <2>9
    <2> HIDE DEF To
    <2> QED
      BY <2>1, <2>10
  <1>6. T = Nat
    <2> HIDE DEF T
    <2>1. T \in SUBSET Nat
      BY DEF T
    <2> QED
      BY <1>4, <1>5, <2>1, AllNumbers
  <1>7. PICK g : To(m, g)
    BY <1>6
  <1>8. ReadUpTo(I, m) = SUBSET I
    BY <1>3 DEF ReadUpTo
  <1> QED
    BY <1>7, <1>8 DEF ReadFolds, I

LEMMA LoopIs ==
  ASSUME NEW k, Len(idx[k]) \in Nat, DOMAIN idx[k] = 1 .. Len(idx[k])
  PROVE  \E p : Reads(k, p) /\ Loop(k) = p[Len(idx[k])]
  <1> DEFINE I == DOMAIN idx[k]
  <1>1. \E g : g = [S \in SUBSET I |-> IF S = {} THEN NothingRead
                                       ELSE ReadNext(k, g[S \ {Max(S)}], idx[k][Max(S)])]
    <2>1. PICK m \in Nat : m = Len(idx[k])
      OBVIOUS
    <2>2. \E g : ReadFolds(k, 1 .. m, g)
      BY ReadFoldsExist
    <2>3. I = 1 .. m
      BY <2>1
    <2> QED
      BY <2>2, <2>3 DEF ReadFolds, ReadStep
  <1>2. PICK g : ReadFolds(k, I, g) /\ Loop(k) = g[I]
    <2> HIDE DEF I
    <2> QED
      BY <1>1 DEF Loop, FoldLeft, MapThenFoldSet, ReadFolds, ReadStep, NothingRead, I
  <1> DEFINE p == [i \in 0 .. Len(idx[k]) |-> g[1 .. i]]
  <1>3. \A i \in 0 .. Len(idx[k]) : 1 .. i \in SUBSET I /\ (1 .. i = {} <=> i = 0)
    OBVIOUS
  <1>4. \A i \in 0 .. Len(idx[k]) :
          g[1 .. i] = IF i = 0 THEN NothingRead ELSE ReadNext(k, g[(1 .. i) \ {Max(1 .. i)}], idx[k][Max(1 .. i)])
    BY <1>2, <1>3 DEF ReadFolds, ReadStep
  <1>5. \A i \in 0 .. Len(idx[k]) :
          g[1 .. i] = IF i = 0 THEN NothingRead ELSE ReadNext(k, g[1 .. i - 1], idx[k][i])
    <2> SUFFICES ASSUME NEW i \in 0 .. Len(idx[k])
                 PROVE  g[1 .. i] = IF i = 0 THEN NothingRead ELSE ReadNext(k, g[1 .. i - 1], idx[k][i])
      OBVIOUS
    <2>1. i # 0 => Max(1 .. i) = i /\ (1 .. i) \ {i} = 1 .. i - 1
      BY MaxUpTo
    <2> QED
      BY <1>4, <2>1
  <1>6. \A i \in 0 .. Len(idx[k]) : i # 0 => p[i - 1] = g[1 .. i - 1]
    OBVIOUS
  <1>7. p = [i \in 0 .. Len(idx[k]) |-> IF i = 0 THEN NothingRead ELSE ReadNext(k, p[i - 1], idx[k][i])]
    BY <1>5, <1>6
  <1>8. p[Len(idx[k])] = g[I]
    OBVIOUS
  <1> QED
    BY <1>2, <1>7, <1>8 DEF Reads

(* What has been decoded into one variable, of the records of the entries  *)
(* in S, when i entries are read.                                          *)
EdgesOf(k, S, j) == IF j \in S THEN DecodedEdges(RecordAt(k, j).content) ELSE <<>>

Decoded(k, S, i) ==
  [out |-> FlattenSeq([j \in 1 .. i |-> EdgesOf(k, S, j)]), in |-> <<>>, fields |-> DecodedFields(k, S)]

LEMMA RecordsTyped ==
  ASSUME StoreTypeOK, NEW k \in Kinds, Readable(k), NEW j \in 1 .. Len(idx[k])
  PROVE  RecordAt(k, j) \in Records /\ DecodedEdges(RecordAt(k, j).content) \in Seq(Edges)
  <1>1. j \in DOMAIN idx[k]
    BY FilesTyped
  <1>2. idx[k][j].pos \in DOMAIN data[k]
    BY <1>1 DEF Readable
  <1>3. RecordAt(k, j) \in Records
    BY <1>2, FilesTyped DEF RecordAt
  <1>4. PICK c \in Contents : c = RecordAt(k, j).content
    BY <1>3 DEF Records
  <1>5. c.out \in Seq(Edges) /\ c.in \in Seq(Edges)
    BY DEF Contents
  <1> QED
    BY <1>3, <1>4, <1>5, ConcatProperties DEF DecodedEdges

LEMMA EdgesSequence ==
  ASSUME StoreTypeOK, NEW k \in Kinds, Readable(k), NEW i \in 0 .. Len(idx[k]), NEW S
  PROVE  /\ [j \in 1 .. i |-> EdgesOf(k, S, j)] \in Seq(Seq(Edges))
         /\ Len([j \in 1 .. i |-> EdgesOf(k, S, j)]) = i
  <1>1. i \in Nat /\ \A j \in 1 .. i : j \in 1 .. Len(idx[k])
    BY FilesTyped
  <1>2. \A j \in 1 .. i : EdgesOf(k, S, j) \in Seq(Edges)
    BY <1>1, RecordsTyped, EmptySeq DEF EdgesOf
  <1> DEFINE s == [j \in 1 .. i |-> EdgesOf(k, S, j)]
  <1>3. s \in Seq(Seq(Edges)) /\ DOMAIN s = 1 .. i
    BY <1>1, <1>2, IsASeq
  <1> HIDE DEF s
  <1>4. Len(s) = i
    BY <1>1, <1>3, LenProperties
  <1> QED
    BY <1>3, <1>4 DEF s

(* One more record is decoded into the variable.                           *)
LEMMA DecodedGrows ==
  ASSUME StoreTypeOK, NEW k \in Kinds, Readable(k), NEW i \in 0 .. Len(idx[k]) - 1,
         NEW S \in SUBSET (1 .. i), NEW c, c = RecordAt(k, i + 1).content
  PROVE  [Decoded(k, S, i) EXCEPT !.out = @ \o DecodedEdges(c), !.fields = @ \union c.fields]
           = Decoded(k, S \union {i + 1}, i + 1)
  <1> DEFINE e == i + 1
             R == S \union {e}
             s == [j \in 1 .. i |-> EdgesOf(k, S, j)]
             t == [j \in 1 .. e |-> EdgesOf(k, R, j)]
  <1>1. i \in Nat /\ e \in 1 .. Len(idx[k]) /\ e \in 0 .. Len(idx[k]) /\ i \in 0 .. Len(idx[k]) /\ e \notin 1 .. i
    BY FilesTyped
  <1>2. s \in Seq(Seq(Edges)) /\ Len(s) = i /\ t \in Seq(Seq(Edges)) /\ Len(t) = e
    BY <1>1, EdgesSequence
  <1>3. DecodedEdges(c) \in Seq(Edges) /\ EdgesOf(k, R, e) = DecodedEdges(c)
    BY <1>1, RecordsTyped DEF EdgesOf
  <1>4. \A j \in 1 .. i : s[j] = t[j]
    BY <1>1 DEF EdgesOf
  <1>5. t[e] = DecodedEdges(c)
    BY <1>1, <1>3
  <1> HIDE DEF s, t
  <1>6. t = Append(s, DecodedEdges(c))
    <2> DEFINE u == Append(s, DecodedEdges(c))
    <2>1. /\ u \in Seq(Seq(Edges)) /\ Len(u) = i + 1 /\ \A j \in 1 .. i : u[j] = s[j]
          /\ u[i + 1] = DecodedEdges(c)
      BY <1>2, <1>3, AppendProperties
    <2> HIDE DEF u
    <2>2. \A j \in 1 .. e : j \in 1 .. i \/ j = e
      BY <1>1
    <2>3. \A j \in 1 .. e : t[j] = u[j]
      BY <1>4, <1>5, <2>1, <2>2
    <2>4. t = u
      BY <1>2, <2>1, <2>3, SeqEqual
    <2> QED
      BY <2>4 DEF u
  <1>7. FlattenSeq(t) = FlattenSeq(s) \o DecodedEdges(c)
    BY <1>2, <1>3, <1>6, FlattenAppend
  <1>8. DecodedFields(k, R) = DecodedFields(k, S) \union c.fields
    BY DEF DecodedFields
  <1>9. Decoded(k, S, i) = [out |-> FlattenSeq(s), in |-> <<>>, fields |-> DecodedFields(k, S)]
    BY DEF Decoded, s
  <1>10. Decoded(k, R, e) = [out |-> FlattenSeq(t), in |-> <<>>, fields |-> DecodedFields(k, R)]
    BY DEF Decoded, t
  <1>11. [Decoded(k, S, i) EXCEPT !.out = @ \o DecodedEdges(c), !.fields = @ \union c.fields]
           = [out |-> FlattenSeq(s) \o DecodedEdges(c), in |-> <<>>,
              fields |-> DecodedFields(k, S) \union c.fields]
    <2>1. PICK f, o, d, g, m : /\ f = Decoded(k, S, i) /\ o = FlattenSeq(s) /\ d = DecodedEdges(c)
                               /\ g = DecodedFields(k, S) /\ m = c.fields
      OBVIOUS
    <2>2. f = [out |-> o, in |-> <<>>, fields |-> g]
      BY <1>9, <2>1
    <2>3. PICK x, y : x = o \o d /\ y = g \union m
      OBVIOUS
    <2>4. [f EXCEPT !.out = @ \o d, !.fields = @ \union m] = [[f EXCEPT !.out = x] EXCEPT !.fields = y]
      BY <2>2, <2>3
    <2>5. [f EXCEPT !.out = x] = [out |-> x, in |-> <<>>, fields |-> g]
      BY <2>2
    <2>6. [[out |-> x, in |-> <<>>, fields |-> g] EXCEPT !.fields = y] = [out |-> x, in |-> <<>>, fields |-> y]
      OBVIOUS
    <2> QED
      BY <2>1, <2>3, <2>4, <2>5, <2>6
  <1> QED
    BY <1>7, <1>8, <1>10, <1>11

LEMMA DecodedNothing ==
  ASSUME StoreTypeOK, NEW k \in Kinds, Readable(k), NEW i \in 0 .. Len(idx[k])
  PROVE  Decoded(k, {}, i) = Blank
  <1> DEFINE s == [j \in 1 .. i |-> EdgesOf(k, {}, j)]
  <1>1. s \in Seq(Seq(Edges)) /\ Len(s) = i
    BY EdgesSequence
  <1>2. \A j \in 1 .. i : s[j] = <<>>
    BY DEF EdgesOf
  <1>3. Decoded(k, {}, i) = [out |-> FlattenSeq(s), in |-> <<>>, fields |-> DecodedFields(k, {})]
    BY DEF Decoded
  <1> HIDE DEF s
  <1>4. FlattenSeq(s) = <<>>
    BY <1>1, <1>2, FlattenEmpty
  <1>5. DecodedFields(k, {}) = {}
    BY DEF DecodedFields
  <1> QED
    BY <1>3, <1>4, <1>5 DEF Blank

(* Where the loop stands after i entries: the entries it skipped last, the *)
(* entries of an object it took, and its three variables.                  *)
Trailing(k, i) == {j \in 1 .. i : \A d \in j .. i : ~ RecordAt(k, d).live}
TakenOf(k, id, i) == {j \in 1 .. i : idx[k][j].id = id /\ RecordAt(k, j).live}

After(k, i) ==
  [slot    |-> CountedSlot(k, i + 1),
   left    |-> Decoded(k, Trailing(k, i), i),
   objects |-> [id \in Ids |-> IF TakenOf(k, id, i) = {} THEN None
                               ELSE ReadEntry(k, Latest(TakenOf(k, id, i)))]]

LEMMA AfterNothing ==
  ASSUME StoreTypeOK, NEW k \in Kinds, Readable(k)
  PROVE  After(k, 0) = NothingRead
  <1>1. 0 \in 0 .. Len(idx[k])
    BY FilesTyped
  <1>2. Trailing(k, 0) = {} /\ \A id \in Ids : TakenOf(k, id, 0) = {}
    BY DEF Trailing, TakenOf
  <1>3. Decoded(k, Trailing(k, 0), 0) = Blank
    BY <1>1, <1>2, DecodedNothing
  <1>4. CountedSlot(k, 0 + 1) = 1
    <2>1. {j \in 1 .. 0 + 1 - 1 : RecordAt(k, j).live} = {}
      OBVIOUS
    <2> QED
      BY <2>1, FS_EmptySet DEF CountedSlot
  <1> QED
    BY <1>2, <1>3, <1>4 DEF After, NothingRead

(* The step of the loop over entry e.                                      *)
LEMMA AfterOne ==
  ASSUME StoreTypeOK, NEW k \in Kinds, Readable(k), NEW i \in 0 .. Len(idx[k]) - 1
  PROVE  ReadNext(k, After(k, i), idx[k][i + 1]) = After(k, i + 1)
  <1> DEFINE e == i + 1
             entry == idx[k][e]
             record == RecordAt(k, e)
             acc == After(k, i)
             object == [acc.left EXCEPT !.out    = @ \o DecodedEdges(record.content),
                                        !.fields = @ \union record.content.fields]
  <1>1. /\ i \in Nat /\ e \in Nat \ {0} /\ e \in 1 .. Len(idx[k]) /\ e \in 0 .. Len(idx[k]) /\ e - 1 = i
        /\ e \in DOMAIN idx[k] /\ \A j \in 1 .. e : j \in 1 .. i \/ j = e
    BY FilesTyped
  <1>2. entry \in Entries /\ entry.id \in Ids /\ record \in Records /\ record.live \in BOOLEAN
    BY <1>1, FilesTyped, RecordsTyped DEF Entries, Records
  <1>3. data[k][entry.pos] = record
    BY DEF RecordAt
  <1>4. Trailing(k, i) \in SUBSET (1 .. i) /\ Trailing(k, i) \union {e} = DecodedWith(k, e)
    <2>1. \A j \in 1 .. i : j .. i = j .. e - 1
      BY <1>1
    <2>2. \A j \in 1 .. i : j \in 1 .. e
      BY <1>1
    <2>3. e \in DecodedWith(k, e)
      BY <1>1 DEF DecodedWith
    <2> QED
      BY <1>1, <2>1, <2>2, <2>3 DEF Trailing, DecodedWith
  <1>5. object = Decode(k, e)
    <2>1. acc.left = Decoded(k, Trailing(k, i), i)
      BY DEF After
    <2>2. object = Decoded(k, Trailing(k, i) \union {e}, e)
      <3>1. PICK c, left, S : c = record.content /\ left = acc.left /\ S = Trailing(k, i)
        OBVIOUS
      <3>2. left = Decoded(k, S, i) /\ S \in SUBSET (1 .. i)
        BY <1>4, <2>1, <3>1
      <3>3. [Decoded(k, S, i) EXCEPT !.out = @ \o DecodedEdges(c), !.fields = @ \union c.fields]
              = Decoded(k, S \union {i + 1}, i + 1)
        BY <3>1, <3>2, DecodedGrows
      <3>4. object = [left EXCEPT !.out = @ \o DecodedEdges(c), !.fields = @ \union c.fields]
        BY <3>1
      <3> QED
        BY <3>1, <3>2, <3>3, <3>4
    <2> QED
      BY <1>4, <2>2 DEF Decoded, Decode, EdgesOf
  <1>6. ReadNext(k, acc, entry) =
          IF record.live
          THEN [acc EXCEPT !.left = Blank, !.slot = @ + 1,
                           !.objects[entry.id] = [slot |-> acc.slot, pos |-> entry.pos,
                                                  space |-> entry.space, content |-> object]]
          ELSE [acc EXCEPT !.left = object]
    BY <1>3 DEF ReadNext
  <1>7. acc.slot = CountedSlot(k, e)
    BY DEF After
  <1>8. [slot |-> acc.slot, pos |-> entry.pos, space |-> entry.space, content |-> object] = ReadEntry(k, e)
    BY <1>5, <1>7 DEF ReadEntry
  <1>9. CASE record.live
    <2>1. Trailing(k, e) = {}
      <3>1. \A j \in 1 .. e : e \in j .. e
        BY <1>1
      <3> QED
        BY <1>9, <3>1 DEF Trailing
    <2>2. Decoded(k, Trailing(k, e), e) = Blank
      BY <1>1, <2>1, DecodedNothing
    <2>3. CountedSlot(k, e + 1) = CountedSlot(k, e) + 1
      <3> DEFINE L == {j \in 1 .. e - 1 : RecordAt(k, j).live}
                 M == {j \in 1 .. e + 1 - 1 : RecordAt(k, j).live}
      <3>1. M = L \union {e} /\ e \notin L
        BY <1>1, <1>9
      <3>2. IsFiniteSet(L)
        <4>1. L \in SUBSET (1 .. i) /\ IsFiniteSet(1 .. i)
          BY <1>1, CountTo
        <4> HIDE DEF L
        <4> QED
          BY <4>1, FS_Subset
      <3>3. CountedSlot(k, e) = 1 + Cardinality(L) /\ CountedSlot(k, e + 1) = 1 + Cardinality(M)
        BY DEF CountedSlot
      <3> HIDE DEF L, M
      <3>4. Cardinality(M) = Cardinality(L) + 1 /\ Cardinality(L) \in Nat
        BY <3>1, <3>2, FS_AddElement, FS_CardinalityType
      <3> QED
        BY <3>3, <3>4
    <2>4. \A id \in Ids : id # entry.id => TakenOf(k, id, e) = TakenOf(k, id, i)
      BY <1>1 DEF TakenOf
    <2>5. TakenOf(k, entry.id, e) # {} /\ Latest(TakenOf(k, entry.id, e)) = e
      <3> DEFINE S == TakenOf(k, entry.id, e)
      <3>1. e \in S /\ S \in SUBSET (1 .. e)
        BY <1>1, <1>9 DEF TakenOf
      <3> HIDE DEF S
      <3>2. Latest(S) \in S /\ \A j \in S : j <= Latest(S)
        BY <1>1, <3>1, LatestIs
      <3> QED
        BY <1>1, <3>1, <3>2 DEF S
    <2>6. [acc.objects EXCEPT ![entry.id] = ReadEntry(k, e)] = After(k, e).objects
      BY <1>2, <2>4, <2>5 DEF After
    <2>7. ReadNext(k, acc, entry) = [acc EXCEPT !.left = Blank, !.slot = @ + 1,
                                                !.objects[entry.id] = ReadEntry(k, e)]
      BY <1>6, <1>8, <1>9
    <2>8. [acc EXCEPT !.left = Blank, !.slot = @ + 1, !.objects[entry.id] = ReadEntry(k, e)]
            = [slot |-> acc.slot + 1, left |-> Blank,
               objects |-> [acc.objects EXCEPT ![entry.id] = ReadEntry(k, e)]]
      <3>1. PICK a, n, l, o, id, new, blank :
              /\ a = acc /\ n = acc.slot /\ l = acc.left /\ o = acc.objects
              /\ id = entry.id /\ new = ReadEntry(k, e) /\ blank = Blank
        OBVIOUS
      <3>2. a = [slot |-> n, left |-> l, objects |-> o]
        BY <3>1 DEF After
      <3>3. [a EXCEPT !.left = blank, !.slot = @ + 1, !.objects[id] = new]
              = [slot |-> n + 1, left |-> blank, objects |-> [o EXCEPT ![id] = new]]
        <4>1. [a EXCEPT !.left = blank, !.slot = @ + 1, !.objects[id] = new]
                = [[[a EXCEPT !.left = blank] EXCEPT !.slot = n + 1] EXCEPT !.objects = [o EXCEPT ![id] = new]]
          BY <3>2
        <4>2. [a EXCEPT !.left = blank] = [slot |-> n, left |-> blank, objects |-> o]
          BY <3>2
        <4>3. [[slot |-> n, left |-> blank, objects |-> o] EXCEPT !.slot = n + 1]
                = [slot |-> n + 1, left |-> blank, objects |-> o]
          OBVIOUS
        <4>4. [[slot |-> n + 1, left |-> blank, objects |-> o] EXCEPT !.objects = [o EXCEPT ![id] = new]]
                = [slot |-> n + 1, left |-> blank, objects |-> [o EXCEPT ![id] = new]]
          OBVIOUS
        <4> QED
          BY <4>1, <4>2, <4>3, <4>4
      <3> HIDE DEF acc, entry, e
      <3> QED
        BY <3>1, <3>3
    <2>9. After(k, e) = [slot |-> CountedSlot(k, e + 1), left |-> Decoded(k, Trailing(k, e), e),
                         objects |-> After(k, e).objects]
      BY DEF After
    <2>10. ReadNext(k, acc, entry) = After(k, e)
      <3> HIDE DEF acc, object, entry, record, e
      <3> QED
        BY <1>7, <2>2, <2>3, <2>6, <2>7, <2>8, <2>9
    <2> QED
      BY <2>10
  <1>10. CASE ~ record.live
    <2>1. Trailing(k, e) = DecodedWith(k, e)
      <3>1. \A j \in 1 .. e : \A d \in j .. e : d \in j .. e - 1 \/ d = e
        BY <1>1
      <3>2. \A j \in 1 .. e : \A d \in j .. e - 1 : d \in j .. e
        BY <1>1
      <3> QED
        BY <1>10, <3>1, <3>2 DEF Trailing, DecodedWith
    <2>2. Decoded(k, Trailing(k, e), e) = object
      BY <1>5, <2>1 DEF Decoded, Decode, EdgesOf
    <2>3. CountedSlot(k, e + 1) = CountedSlot(k, e)
      <3> DEFINE L == {j \in 1 .. e - 1 : RecordAt(k, j).live}
                 M == {j \in 1 .. e + 1 - 1 : RecordAt(k, j).live}
      <3>1. L = M
        BY <1>1, <1>10
      <3>2. CountedSlot(k, e) = 1 + Cardinality(L) /\ CountedSlot(k, e + 1) = 1 + Cardinality(M)
        BY DEF CountedSlot
      <3> HIDE DEF L, M
      <3> QED
        BY <3>1, <3>2
    <2>4. \A id \in Ids : TakenOf(k, id, e) = TakenOf(k, id, i)
      BY <1>1, <1>10 DEF TakenOf
    <2>5. After(k, e).objects = acc.objects
      BY <2>4 DEF After
    <2>6. [acc EXCEPT !.left = object] = [slot |-> acc.slot, left |-> object, objects |-> acc.objects]
      <3>1. PICK a, n, l, o, new :
              a = acc /\ n = acc.slot /\ l = acc.left /\ o = acc.objects /\ new = object
        OBVIOUS
      <3>2. a = [slot |-> n, left |-> l, objects |-> o]
        BY <3>1 DEF After
      <3>3. [a EXCEPT !.left = new] = [slot |-> n, left |-> new, objects |-> o]
        BY <3>2
      <3> HIDE DEF acc, object
      <3> QED
        BY <3>1, <3>3
    <2>7. After(k, e) = [slot |-> CountedSlot(k, e + 1), left |-> Decoded(k, Trailing(k, e), e),
                         objects |-> After(k, e).objects]
      BY DEF After
    <2>8. ReadNext(k, acc, entry) = After(k, e)
      <3> HIDE DEF acc, object, entry, record, e
      <3> QED
        BY <1>6, <1>7, <1>10, <2>2, <2>3, <2>5, <2>6, <2>7
    <2> QED
      BY <2>8
  <1> QED
    BY <1>2, <1>9, <1>10

LEMMA LoadedAsLoop == StoreTypeOK => LoadedIsLoop
  <1> SUFFICES ASSUME StoreTypeOK, NEW k \in Kinds, Readable(k), NEW id \in Ids, Kind(id) = k
               PROVE  Loaded(id) = Loop(k).objects[id]
    BY DEF LoadedIsLoop
  <1>1. Len(idx[k]) \in Nat /\ DOMAIN idx[k] = 1 .. Len(idx[k])
    BY FilesTyped
  <1>2. PICK p : Reads(k, p) /\ Loop(k) = p[Len(idx[k])]
    BY <1>1, LoopIs
  <1>3. \A i \in 0 .. Len(idx[k]) : p[i] = IF i = 0 THEN NothingRead ELSE ReadNext(k, p[i - 1], idx[k][i])
    <2>1. p = [i \in 0 .. Len(idx[k]) |-> IF i = 0 THEN NothingRead ELSE ReadNext(k, p[i - 1], idx[k][i])]
      BY <1>2 DEF Reads
    <2> QED
      BY <2>1
  <1> DEFINE T == {i \in Nat : i <= Len(idx[k]) => p[i] = After(k, i)}
  <1>4. 0 \in T
    BY <1>1, <1>3, AfterNothing
  <1>5. ASSUME NEW i \in T PROVE i + 1 \in T
    <2>1. i \in Nat /\ (i <= Len(idx[k]) => p[i] = After(k, i))
      OBVIOUS
    <2>2. ASSUME i + 1 <= Len(idx[k]) PROVE p[i + 1] = After(k, i + 1)
      <3>1. i \in 0 .. Len(idx[k]) - 1 /\ i <= Len(idx[k])
        BY <1>1, <2>1, <2>2
      <3>2. PICK e \in 0 .. Len(idx[k]) : e = i + 1 /\ e # 0 /\ e - 1 = i
        BY <1>1, <2>1, <2>2
      <3>3. p[e] = ReadNext(k, p[e - 1], idx[k][e])
        BY <1>3, <3>2
      <3> QED
        BY <2>1, <3>1, <3>2, <3>3, AfterOne
    <2> QED
      BY <2>1, <2>2
  <1>6. T = Nat
    <2> HIDE DEF T
    <2>1. T \in SUBSET Nat
      BY DEF T
    <2> QED
      BY <1>4, <1>5, <2>1, AllNumbers
  <1>7. Loop(k) = After(k, Len(idx[k]))
    <2>1. Len(idx[k]) \in T
      BY <1>1, <1>6
    <2> QED
      BY <1>1, <1>2, <2>1
  <1>8. TakenOf(k, id, Len(idx[k])) = LiveEntries(id)
    BY <1>1 DEF TakenOf, LiveEntries
  <1> QED
    BY <1>7, <1>8 DEF After, Loaded

-----------------------------------------------------------------------------
(* Arithmetic of segments: ids of a lower segment are below all ids of a   *)
(* higher one, and the segments of a lower node are below those of a       *)
(* higher one.                                                             *)
LEMMA MultMonotone ==
  ASSUME NEW a \in Nat, NEW b \in Nat, NEW k \in Nat, a <= b
  PROVE  a * k <= b * k
<1>1. PICK d \in Nat : b = a + d
  <2> WITNESS b - a \in Nat
  <2> QED OBVIOUS
<1>2. (a + d) * k = a * k + d * k
  OBVIOUS
<1>3. d * k \in Nat /\ a * k \in Nat
  OBVIOUS
<1> QED BY <1>1, <1>2, <1>3

LEMMA FirstIdStep ==
  ASSUME NEW s \in Nat
  PROVE  FirstId(s) \in Nat /\ FirstId(s + 1) = FirstId(s) + IndexSpan
BY DEF FirstId

LEMMA FirstIdMonotone ==
  ASSUME NEW s \in Nat, NEW t \in Nat, s <= t
  PROVE  FirstId(s) <= FirstId(t)
BY MultMonotone DEF FirstId

LEMMA SegmentStep ==
  ASSUME NEW n \in Nat, NEW k \in Nat
  PROVE  /\ Segment(n, k) \in Nat
         /\ Segment(n, k + 1) = Segment(n, k) + 1
         /\ Segment(n + 1, 0) = Segment(n, SuperSpan)
BY DEF Segment

LEMMA SegmentMonotone ==
  ASSUME NEW m \in Nat, NEW n \in Nat, m < n
  PROVE  Segment(m + 1, 0) <= Segment(n, 0)
BY MultMonotone DEF Segment

-----------------------------------------------------------------------------
(* The outcomes of a GetSuperId that reached its second fopen.             *)
LEMMA TakenOutcome ==
  ASSUME NEW n \in Nodes, NEW r \in Taken(n)
  PROVE  /\ r.ok \in BOOLEAN
         /\ r.super = Segment(n, NextFree(n))
         /\ r.ok => r.file \in {NextFree(n) + 1, Unreadable}
         /\ ~r.ok => r.file \in {file[n], Unreadable}
<1> DEFINE refused == [ok : {FALSE}, file : {file[n], Unreadable},
                       super : {Segment(n, NextFree(n))}]
           granted == [ok : {TRUE}, file : {NextSuper(NextFree(n)), Unreadable},
                       super : {Segment(n, NextFree(n))}]
<1>1. r \in refused \/ r \in granted
  BY DEF Taken
<1>2. CASE r \in refused
  BY <1>2
<1>3. CASE r \in granted
  BY <1>3 DEF NextSuper
<1> QED BY <1>1, <1>2, <1>3

(* Every outcome of GetSuperId leaves well-typed values behind.            *)
LEMMA GetSuperIdType ==
  ASSUME TypeOK, NEW n \in Nodes, NEW r \in GetSuperId(n)
  PROVE  /\ r.ok \in BOOLEAN
         /\ r.file \in Nat \union {Missing, Unreadable}
         /\ r.super \in Nat
<1>1. file[n] \in Nat \union {Missing, Unreadable} /\ superId[n] \in Nat
  BY DEF TypeOK
<1>2. file[n] # Unreadable =>
        NextFree(n) \in Nat /\ Segment(n, NextFree(n)) \in Nat
  BY <1>1, SegmentStep DEF NextFree
<1>3. CASE r = Unread(n)
  BY <1>1, <1>3 DEF Unread
<1>4. CASE file[n] # Unreadable /\ r = Exhausted(n)
  BY <1>1, <1>2, <1>4 DEF Exhausted
<1>5. CASE file[n] # Unreadable /\ r \in Taken(n)
  <2>1. NextFree(n) + 1 \in Nat
    BY <1>2, <1>5
  <2> QED BY <1>1, <1>2, <1>5, <2>1, TakenOutcome
<1>6. \/ r = Unread(n)
      \/ file[n] # Unreadable /\ r = Exhausted(n)
      \/ file[n] # Unreadable /\ r \in Taken(n)
  BY DEF GetSuperId
<1> QED BY <1>3, <1>4, <1>5, <1>6

(* The variables keep their types: in particular the index never leaves    *)
(* the segment, whatever the sizes of the requests.                        *)
THEOREM IdTypeCorrect == Spec => []TypeOK
<1>1. Init => TypeOK
  BY DEF Init, TypeOK
<1>2. TypeOK /\ [Next]_vars => TypeOK'
  <2> SUFFICES ASSUME TypeOK, [Next]_vars PROVE TypeOK'
    OBVIOUS
  <2> USE DEF TypeOK
  <2>1. ASSUME NEW n \in Nodes, Start(n) PROVE TypeOK'
    <3>1. PICK r \in GetSuperId(n) :
            /\ file'    = [file    EXCEPT ![n] = r.file]
            /\ superId' = [superId EXCEPT ![n] = r.super]
            /\ up'      = [up      EXCEPT ![n] = r.ok]
      BY <2>1 DEF Start
    <3>2. /\ r.ok \in BOOLEAN
          /\ r.file \in Nat \union {Missing, Unreadable}
          /\ r.super \in Nat
      BY GetSuperIdType
    <3>3. index' = [index EXCEPT ![n] = 0] /\ UNCHANGED <<failed, grants>>
      BY <2>1 DEF Start
    <3> QED BY <3>1, <3>2, <3>3
  <2>2. ASSUME NEW n \in Nodes, Crash(n) PROVE TypeOK'
    BY <2>2, GetSuperIdType DEF Crash
  <2>3. ASSUME NEW n \in Nodes, NEW sdk \in Sdks, NEW count \in 1 .. MaxCount,
               CreateIdInSegment(n, sdk, count)
        PROVE  TypeOK'
    <3>1. Asked(sdk, count) \in 1 .. MaxCount
      BY DEF Asked
    <3>2. FirstId(superId[n]) + index[n] \in Nat
      <4>1. superId[n] \in Nat /\ index[n] \in Nat
        OBVIOUS
      <4>2. FirstId(superId[n]) \in Nat
        BY <4>1, FirstIdStep
      <4> QED BY <4>1, <4>2
    <3>3. grants' \in Seq(IdRange)
      BY <2>3, <3>2 DEF CreateIdInSegment, Grant, IdRange
    <3>4. index' \in [Nodes -> 0 .. IndexSpan]
      <4>1. /\ index[n] + Asked(sdk, count) <= IndexSpan
            /\ index' = [index EXCEPT ![n] = index[n] + Asked(sdk, count)]
        BY <2>3 DEF CreateIdInSegment
      <4>2. index[n] + Asked(sdk, count) \in 0 .. IndexSpan
        BY <3>1, <4>1
      <4> QED BY <4>1, <4>2
    <3>5. UNCHANGED <<file, up, superId, failed>>
      BY <2>3 DEF CreateIdInSegment
    <3> QED BY <3>3, <3>4, <3>5
  <2>4. ASSUME NEW n \in Nodes, NEW sdk \in Sdks, NEW count \in 1 .. MaxCount,
               CreateIdRefill(n, sdk, count)
        PROVE  TypeOK'
    <3>1. Asked(sdk, count) \in 1 .. MaxCount
      BY DEF Asked
    <3>2. PICK r \in GetSuperId(n) : CreateIdRefill(n, sdk, count)!4!(r)
      BY <2>4 DEF CreateIdRefill
    <3>3. /\ r.ok \in BOOLEAN
          /\ r.file \in Nat \union {Missing, Unreadable}
          /\ r.super \in Nat
      BY GetSuperIdType
    <3>4. FirstId(r.super) \in Nat /\ FirstId(superId[n]) + index[n] \in Nat
      <4>1. superId[n] \in Nat /\ index[n] \in Nat
        OBVIOUS
      <4>2. FirstId(r.super) \in Nat /\ FirstId(superId[n]) \in Nat
        BY <3>3, <4>1, FirstIdStep
      <4> QED BY <4>1, <4>2
    <3>5. index' \in [Nodes -> 0 .. IndexSpan]
      <4>1. /\ index[n] + Asked(sdk, count) > IndexSpan
            /\ index[n] \in 0 .. IndexSpan
        BY <2>4 DEF CreateIdRefill
      <4>2. /\ Carried(index[n], Asked(sdk, count)) \in 0 .. IndexSpan
            /\ 0 \in 0 .. IndexSpan
        BY <3>1, <4>1 DEF Carried
      <4> QED BY <3>2, <4>2
    <3>6. grants' \in Seq(IdRange)
      <4>1. ASSUME NEW first \in Nat
            PROVE  [node |-> n, first |-> first, count |-> count] \in IdRange
        BY DEF IdRange
      <4>2. CASE r.ok
        <5> DEFINE first == IF index[n] = IndexSpan
                            THEN FirstId(r.super)
                            ELSE FirstId(superId[n]) + index[n]
        <5>1. first \in Nat
          BY <3>4
        <5>2. grants' = Append(grants, [node |-> n, first |-> first, count |-> count])
          BY <3>2, <4>2 DEF Grant
        <5> HIDE DEF first
        <5> QED BY <4>1, <5>1, <5>2
      <4>3. CASE ~r.ok
        BY <3>2, <4>3
      <4> QED BY <4>2, <4>3
    <3> QED BY <2>4, <3>2, <3>3, <3>5, <3>6 DEF CreateIdRefill
  <2>5. CASE UNCHANGED vars
    BY <2>5 DEF vars
  <2> QED BY <2>1, <2>2, <2>3, <2>4, <2>5 DEF Next
<1> QED BY <1>1, <1>2, PTL DEF Spec

-----------------------------------------------------------------------------
(* What GetSuperId does to the file and to m_superId, in the terms of the  *)
(* invariant: a segment it grants is the one the file named, below the     *)
(* limit, and the file it leaves names a later one or none; a refusal      *)
(* leaves the file as it was or truncated.                                 *)
LEMMA GetSuperIdOutcome ==
  ASSUME TypeOK, NEW n \in Nodes, NEW r \in GetSuperId(n)
  PROVE  /\ r.ok => /\ file[n] # Unreadable
                    /\ NextFree(n) \in Nat /\ NextFree(n) < SuperSpan
                    /\ r.super = Segment(n, NextFree(n))
                    /\ r.file \in {NextFree(n) + 1, Unreadable}
         /\ ~r.ok => r.file \in {file[n], Unreadable}
<1>1. r = Unread(n) \/ r = Exhausted(n) => ~r.ok /\ r.file = file[n]
  BY DEF Unread, Exhausted
<1>2. ASSUME file[n] # Unreadable PROVE NextFree(n) \in Nat
  BY <1>2 DEF NextFree, TypeOK
<1>3. \/ r = Unread(n) \/ r = Exhausted(n)
      \/ file[n] # Unreadable /\ ~(NextFree(n) >= SuperSpan) /\ r \in Taken(n)
  BY DEF GetSuperId
<1>4. CASE file[n] # Unreadable /\ ~(NextFree(n) >= SuperSpan) /\ r \in Taken(n)
  <2>1. NextFree(n) < SuperSpan /\ NextFree(n) \in Nat
    BY <1>2, <1>4
  <2> QED BY <1>4, <2>1, TakenOutcome
<1> QED BY <1>1, <1>3, <1>4

(* The frontier of a node that has not failed lies between the first id of *)
(* the node and the first id of the next node.                             *)
LEMMA FrontierInRange ==
  ASSUME TypeOK, FileOK, SegmentOK, NEW n \in Nodes, ~failed[n]
  PROVE  /\ Frontier(n) \in Nat
         /\ FirstId(Segment(n, 0)) <= Frontier(n)
         /\ Frontier(n) <= FirstId(Segment(n + 1, 0))
<1>1. /\ n \in Nat /\ superId[n] \in Nat /\ index[n] \in 0 .. IndexSpan
      /\ file[n] \in Nat \union {Missing, Unreadable}
      /\ up[n] \in BOOLEAN
  BY DEF TypeOK
<1>2. Segment(n, 0) \in Nat /\ Segment(n + 1, 0) \in Nat
  BY <1>1, SegmentStep
<1>3. Segment(n, 0) <= Segment(n + 1, 0)
  BY <1>1 DEF Segment
<1>4. CASE up[n]
  <2>1. Segment(n, 0) <= superId[n] /\ superId[n] + 1 <= Segment(n + 1, 0)
    BY <1>4 DEF SegmentOK, SegmentInUse
  <2>2. /\ FirstId(Segment(n, 0)) <= FirstId(superId[n])
        /\ FirstId(superId[n] + 1) <= FirstId(Segment(n + 1, 0))
    BY <1>1, <1>2, <2>1, FirstIdMonotone
  <2>3. FirstId(superId[n] + 1) = FirstId(superId[n]) + IndexSpan
    BY <1>1, FirstIdStep
  <2>4. /\ FirstId(superId[n]) \in Nat /\ FirstId(Segment(n, 0)) \in Nat
        /\ FirstId(Segment(n + 1, 0)) \in Nat
    BY <1>1, <1>2, FirstIdStep
  <2> QED BY <1>1, <1>4, <2>2, <2>3, <2>4 DEF Frontier
<1>5. CASE ~up[n]
  <2> DEFINE s == CASE file[n] = Missing    -> Segment(n, 0)
                    [] file[n] = Unreadable -> Segment(n + 1, 0)
                    [] OTHER                -> Segment(n, file[n])
  <2>1. s \in Nat /\ Segment(n, 0) <= s /\ s <= Segment(n + 1, 0)
    <3>1. CASE file[n] \in {Missing, Unreadable}
      BY <1>2, <1>3, <3>1
    <3>2. CASE file[n] \in Nat
      <4>1. file[n] <= SuperSpan
        BY <3>2 DEF FileOK
      <4>2. s = Segment(n, file[n])
        BY <3>2
      <4>3. /\ Segment(n, file[n]) \in Nat /\ Segment(n, 0) <= Segment(n, file[n])
            /\ Segment(n, file[n]) <= Segment(n + 1, 0)
        BY <1>1, <3>2, <4>1 DEF Segment
      <4> QED BY <4>2, <4>3
    <3> QED BY <1>1, <3>1, <3>2
  <2>2. Frontier(n) = FirstId(s)
    BY <1>5 DEF Frontier, FileFrontier
  <2> HIDE DEF s
  <2> QED BY <1>2, <2>1, <2>2, FirstIdMonotone, FirstIdStep
<1> QED BY <1>1, <1>4, <1>5

FrontierOK ==
  \A n \in Nodes : ~failed[n] =>
    /\ Frontier(n) \in Nat
    /\ FirstId(Segment(n, 0)) <= Frontier(n)
    /\ Frontier(n) <= FirstId(Segment(n + 1, 0))

LEMMA FrontierRange == TypeOK /\ FileOK /\ SegmentOK => FrontierOK
BY FrontierInRange DEF FrontierOK

-----------------------------------------------------------------------------
(* What every step does to the frontiers: the file and the segment in use  *)
(* stay consistent, no frontier moves back, and the ids a step gives out   *)
(* lie between the old and the new frontier of the node.                   *)
Advances ==
  /\ FileOK' /\ SegmentOK'
  /\ \A m \in Nodes : ~failed'[m] => ~failed[m] /\ Frontier(m) <= Frontier(m)'
  /\ \/ grants' = grants
     \/ \E g \in IdRange :
          /\ grants' = Append(grants, g)
          /\ ~failed'[g.node] =>
               Frontier(g.node) <= g.first /\ g.first + g.count <= Frontier(g.node)'

(* The ranges of the next state: those of this state and perhaps a new one *)
(* that starts at or above the frontier.                                   *)
LEMMA RangesAfterStep ==
  ASSUME TypeOK, Advances, NEW i \in DOMAIN grants'
  PROVE  \/ i \in DOMAIN grants /\ grants'[i] = grants[i]
         \/ /\ i = Len(grants) + 1
            /\ \E g \in IdRange :
                 /\ g = grants'[i]
                 /\ ~failed'[g.node] => /\ Frontier(g.node) <= g.first
                                       /\ g.first + g.count <= Frontier(g.node)'
<1>1. grants \in Seq(IdRange)
  BY DEF TypeOK
<1>2. CASE grants' = grants
  BY <1>2
<1>3. ASSUME NEW g \in IdRange, grants' = Append(grants, g),
             ~failed'[g.node] => /\ Frontier(g.node) <= g.first
                                 /\ g.first + g.count <= Frontier(g.node)'
      PROVE  \/ i \in DOMAIN grants /\ grants'[i] = grants[i]
             \/ i = Len(grants) + 1 /\ g = grants'[i]
  BY <1>1, <1>3
<1> QED BY <1>2, <1>3 DEF Advances

(* A step that advances keeps all ranges below the frontiers.              *)
LEMMA BelowFrontierStep ==
  ASSUME TypeOK, TypeOK', FrontierInv, Advances
  PROVE  BelowFrontier'
<1>1. SUFFICES ASSUME NEW i \in DOMAIN grants', ~failed'[grants'[i].node]
               PROVE  /\ FirstId(Segment(grants'[i].node, 0)) <= grants'[i].first
                      /\ grants'[i].first + grants'[i].count
                           <= Frontier(grants[i].node)'
  BY DEF BelowFrontier
<1>2. grants \in Seq(IdRange) /\ grants' \in Seq(IdRange)
  BY DEF TypeOK
<1>3. PICK g \in IdRange : g = grants'[i]
  BY <1>1, <1>2
<1>4. PICK n \in Nodes : n = g.node
  BY DEF IdRange
<1>5. /\ n \in Nat /\ g.first \in Nat /\ g.count \in Nat
  BY <1>3 DEF IdRange
<1>6. ~failed'[n] /\ ~failed[n] /\ Frontier(n) <= Frontier(n)'
  BY <1>1, <1>3, <1>4 DEF Advances
<1>7. FrontierOK /\ FrontierOK'
  BY FrontierRange, PTL DEF Advances, FrontierInv
<1>8. Frontier(n) \in Nat /\ FirstId(Segment(n, 0)) <= Frontier(n)
  BY <1>6, <1>7 DEF FrontierOK
<1>9. Frontier(n)' \in Nat
  BY <1>6, <1>7 DEF FrontierOK
<1>10. FirstId(Segment(n, 0)) \in Nat
  BY <1>5, SegmentStep, FirstIdStep
<1>11. FirstId(Segment(n, 0)) <= g.first /\ g.first + g.count <= Frontier(n)'
  <2>1. CASE i \in DOMAIN grants /\ grants'[i] = grants[i]
    <3>1. FirstId(Segment(n, 0)) <= g.first /\ g.first + g.count <= Frontier(n)
      BY <1>3, <1>4, <1>6, <2>1 DEF FrontierInv, BelowFrontier
    <3> QED BY <1>5, <1>6, <1>8, <1>9, <3>1
  <2>2. CASE Frontier(n) <= g.first /\ g.first + g.count <= Frontier(n)'
    BY <1>5, <1>8, <1>10, <2>2
  <2> QED BY <1>3, <1>4, <1>6, <2>1, <2>2, RangesAfterStep
<1> QED BY <1>3, <1>4, <1>11

(* Two ranges that end at or below the frontiers of their nodes, the later *)
(* one above the frontier its node had: they share no id, since one node   *)
(* separates them by its frontier and two nodes by the first id of the     *)
(* higher one.                                                             *)
LEMMA NewRangeDisjoint ==
  ASSUME TypeOK, TypeOK', FrontierInv, Advances,
         NEW g \in IdRange, NEW h \in IdRange,
         ~failed'[g.node], ~failed'[h.node],
         FirstId(Segment(g.node, 0)) <= g.first,
         g.first + g.count <= Frontier(g.node),
         Frontier(h.node) <= h.first,
         h.first + h.count <= Frontier(h.node)'
  PROVE  Disjoint(g, h) /\ Disjoint(h, g)
<1>1. PICK m \in Nodes, n \in Nodes : m = g.node /\ n = h.node
  BY DEF IdRange
<1>2. /\ m \in Nat /\ n \in Nat /\ g.first \in Nat /\ g.count \in Nat
      /\ h.first \in Nat /\ h.count \in Nat
  BY DEF IdRange
<1>3. ~failed[m] /\ ~failed[n] /\ ~failed'[m] /\ ~failed'[n]
  BY <1>1 DEF Advances
<1>4. FrontierOK /\ FrontierOK'
  BY FrontierRange, PTL DEF Advances, FrontierInv
<1>5. /\ Frontier(m) \in Nat /\ Frontier(m) <= FirstId(Segment(m + 1, 0))
      /\ Frontier(n) \in Nat /\ FirstId(Segment(n, 0)) <= Frontier(n)
  BY <1>3, <1>4 DEF FrontierOK
<1>6. Frontier(n)' \in Nat /\ Frontier(n)' <= FirstId(Segment(n + 1, 0))
  BY <1>3, <1>4 DEF FrontierOK
<1>7. /\ FirstId(Segment(m, 0)) \in Nat /\ FirstId(Segment(m + 1, 0)) \in Nat
      /\ FirstId(Segment(n, 0)) \in Nat /\ FirstId(Segment(n + 1, 0)) \in Nat
      /\ Segment(m, 0) \in Nat /\ Segment(m + 1, 0) \in Nat
      /\ Segment(n, 0) \in Nat /\ Segment(n + 1, 0) \in Nat
  BY <1>2, SegmentStep, FirstIdStep
<1>8. CASE m = n
  BY <1>1, <1>2, <1>5, <1>8 DEF Disjoint
<1>9. CASE m < n
  <2>1. FirstId(Segment(m + 1, 0)) <= FirstId(Segment(n, 0))
    BY <1>2, <1>7, <1>9, SegmentMonotone, FirstIdMonotone
  <2> QED BY <1>1, <1>2, <1>5, <1>7, <2>1 DEF Disjoint
<1>10. CASE n < m
  <2>1. FirstId(Segment(n + 1, 0)) <= FirstId(Segment(m, 0))
    BY <1>2, <1>7, <1>10, SegmentMonotone, FirstIdMonotone
  <2> QED BY <1>1, <1>2, <1>5, <1>6, <1>7, <2>1 DEF Disjoint
<1> QED BY <1>2, <1>8, <1>9, <1>10

(* A step that advances gives out no id a second time.                     *)
LEMMA UniqueIdsStep ==
  ASSUME TypeOK, TypeOK', FrontierInv, UniqueIds, Advances
  PROVE  UniqueIds'
<1>1. SUFFICES ASSUME NEW i \in DOMAIN grants', NEW j \in DOMAIN grants', i # j,
                      ~failed'[grants'[i].node], ~failed'[grants'[j].node]
               PROVE  Disjoint(grants'[i], grants'[j])
  BY DEF UniqueIds, Disjoint
<1>2. grants \in Seq(IdRange) /\ grants' \in Seq(IdRange)
  BY DEF TypeOK
<1>3. PICK g \in IdRange, h \in IdRange : g = grants'[i] /\ h = grants'[j]
  BY <1>2
<1>4. /\ g.node \in Nodes /\ ~failed'[g.node] /\ ~failed[g.node]
      /\ h.node \in Nodes /\ ~failed'[h.node] /\ ~failed[h.node]
  BY <1>1, <1>3 DEF Advances, IdRange
<1> DEFINE Old(k) == k \in DOMAIN grants /\ grants'[k] = grants[k]
           Below(r) == /\ FirstId(Segment(r.node, 0)) <= r.first
                       /\ r.first + r.count <= Frontier(r.node)
           Newer(r) == /\ Frontier(r.node) <= r.first
                       /\ r.first + r.count <= Frontier(r.node)'
<1>5. /\ Old(i) \/ (i = Len(grants) + 1 /\ Newer(g))
      /\ Old(j) \/ (j = Len(grants) + 1 /\ Newer(h))
  BY <1>3, <1>4, RangesAfterStep
<1>6. /\ Old(i) => Below(g)
      /\ Old(j) => Below(h)
  BY <1>3, <1>4 DEF FrontierInv, BelowFrontier
<1>7. CASE Old(i) /\ Old(j)
  BY <1>1, <1>4, <1>3, <1>7 DEF UniqueIds
<1>8. CASE Old(i) /\ Newer(h)
  BY <1>3, <1>4, <1>6, <1>8, NewRangeDisjoint
<1>9. CASE Newer(g) /\ Old(j)
  BY <1>3, <1>4, <1>6, <1>9, NewRangeDisjoint
<1> QED BY <1>1, <1>5, <1>7, <1>8, <1>9

-----------------------------------------------------------------------------
(* The part of Advances about one node.                                    *)
NodeAdvances(m) ==
  /\ file'[m] \in Nat => file'[m] <= SuperSpan
  /\ up'[m] /\ ~failed'[m] => SegmentInUse(m)'
  /\ ~failed'[m] => ~failed[m] /\ Frontier(m) <= Frontier(m)'

NodeUnchanged(m) ==
  /\ file'[m] = file[m] /\ up'[m] = up[m] /\ superId'[m] = superId[m]
  /\ index'[m] = index[m] /\ failed'[m] = failed[m]

NewRange(g) ==
  /\ grants' = Append(grants, g)
  /\ ~failed'[g.node] =>
       Frontier(g.node) <= g.first /\ g.first + g.count <= Frontier(g.node)'

(* It is enough to look at the node that takes the step.                   *)
LEMMA AdvancesOfNode ==
  ASSUME TypeOK, FrontierInv, NEW n \in Nodes, NodeAdvances(n),
         \A m \in Nodes \ {n} : NodeUnchanged(m),
         grants' = grants \/ \E g \in IdRange : NewRange(g)
  PROVE  Advances
<1>1. FrontierOK
  BY FrontierRange DEF FrontierInv
<1>2. ASSUME NEW m \in Nodes, m # n PROVE NodeAdvances(m)
  <2>1. NodeUnchanged(m)
    BY <1>2
  <2>2. ~failed[m] => Frontier(m) \in Nat
    BY <1>1 DEF FrontierOK
  <2>3. Frontier(m)' = Frontier(m)
    BY <2>1 DEF NodeUnchanged, Frontier, FileFrontier
  <2>4. file[m] \in Nat => file[m] <= SuperSpan
    BY DEF FrontierInv, FileOK
  <2>5. up'[m] /\ ~failed'[m] => SegmentInUse(m)'
    BY <2>1 DEF NodeUnchanged, FrontierInv, SegmentOK, SegmentInUse
  <2> QED BY <2>1, <2>2, <2>3, <2>4, <2>5 DEF NodeAdvances, NodeUnchanged
<1>3. \A m \in Nodes : NodeAdvances(m)
  BY <1>2
<1>4. FileOK'
  BY <1>3 DEF NodeAdvances, FileOK
<1>5. SegmentOK'
  BY <1>3 DEF NodeAdvances, SegmentOK
<1> QED BY <1>3, <1>4, <1>5 DEF NodeAdvances, NewRange, Advances

(* The file a node may leave behind, whatever happens in GetSuperId, when  *)
(* it serves no request afterwards: its frontier only moves up.            *)
LEMMA FileFrontierStep ==
  ASSUME TypeOK, FrontierInv, NEW n \in Nodes, NEW r \in GetSuperId(n)
  PROVE  /\ r.file \in Nat => r.file <= SuperSpan
         /\ FileFrontier(n, file[n]) <= FileFrontier(n, r.file)
         /\ FileFrontier(n, file[n]) \in Nat /\ FileFrontier(n, r.file) \in Nat
         /\ r.ok => /\ FileFrontier(n, file[n]) = FirstId(r.super)
                    /\ Segment(n, 0) <= r.super
                    /\ r.super + 1 <= Segment(n + 1, 0)
                    /\ r.file # Missing
                    /\ r.file \in Nat => r.super + 1 = Segment(n, r.file)
<1>1. /\ n \in Nat /\ file[n] \in Nat \union {Missing, Unreadable}
  BY DEF TypeOK
<1>2. file[n] \in Nat => file[n] <= SuperSpan
  BY DEF FrontierInv, FileOK
<1>3. FirstId(Segment(n, 0)) \in Nat /\ FirstId(Segment(n + 1, 0)) \in Nat
  BY <1>1, SegmentStep, FirstIdStep
<1>4. ASSUME NEW k \in Nat, k <= SuperSpan
      PROVE  /\ FirstId(Segment(n, k)) \in Nat
             /\ FirstId(Segment(n, 0)) <= FirstId(Segment(n, k))
             /\ FirstId(Segment(n, k)) <= FirstId(Segment(n + 1, 0))
  <2>1. /\ Segment(n, k) \in Nat /\ Segment(n, 0) \in Nat /\ Segment(n + 1, 0) \in Nat
        /\ Segment(n, 0) <= Segment(n, k) /\ Segment(n, k) <= Segment(n + 1, 0)
    BY <1>1, <1>4 DEF Segment
  <2> QED BY <2>1, FirstIdMonotone, FirstIdStep
<1>5. CASE ~r.ok
  <2>1. r.file \in {file[n], Unreadable}
    BY <1>5, GetSuperIdOutcome
  <2>2. /\ FileFrontier(n, file[n]) \in Nat
        /\ FileFrontier(n, file[n]) <= FirstId(Segment(n + 1, 0))
    BY <1>1, <1>2, <1>3, <1>4 DEF FileFrontier
  <2>3. FileFrontier(n, Unreadable) = FirstId(Segment(n + 1, 0))
    BY DEF FileFrontier
  <2> QED BY <1>2, <1>3, <1>5, <2>1, <2>2, <2>3
<1>6. CASE r.ok
  <2> DEFINE k == NextFree(n)
  <2>1. /\ file[n] # Unreadable /\ k \in Nat /\ k < SuperSpan
        /\ r.super = Segment(n, k) /\ r.file \in {k + 1, Unreadable}
    BY <1>6, GetSuperIdOutcome
  <2>2. FileFrontier(n, file[n]) = FirstId(Segment(n, k))
    BY <2>1 DEF FileFrontier, NextFree
  <2> HIDE DEF k
  <2>3. k + 1 \in Nat /\ k + 1 <= SuperSpan
    BY <2>1
  <2>4. /\ Segment(n, 0) <= r.super /\ r.super + 1 <= Segment(n + 1, 0)
        /\ r.super + 1 = Segment(n, k + 1)
    BY <1>1, <2>1, <2>3 DEF Segment
  <2>5. /\ FirstId(Segment(n, k)) \in Nat
        /\ FirstId(Segment(n, k)) <= FirstId(Segment(n + 1, 0))
    BY <1>4, <2>1
  <2>6. FirstId(Segment(n, k)) <= FirstId(Segment(n, k + 1))
    <3>1. /\ Segment(n, k) \in Nat /\ Segment(n, k + 1) \in Nat
          /\ Segment(n, k) <= Segment(n, k + 1)
      BY <1>1, <2>1, <2>3 DEF Segment
    <3> QED BY <3>1, FirstIdMonotone
  <2>7. CASE r.file = k + 1
    <3>1. /\ FileFrontier(n, r.file) = FirstId(Segment(n, k + 1))
          /\ FirstId(Segment(n, k + 1)) \in Nat
      BY <1>4, <2>3, <2>7 DEF FileFrontier
    <3> QED BY <2>1, <2>2, <2>3, <2>4, <2>5, <2>6, <2>7, <3>1
  <2>8. CASE r.file = Unreadable
    <3>1. FileFrontier(n, r.file) = FirstId(Segment(n + 1, 0))
      BY <2>8 DEF FileFrontier
    <3> QED BY <1>3, <2>1, <2>2, <2>4, <2>5, <2>8, <3>1
  <2> QED BY <2>1, <2>7, <2>8
<1> QED BY <1>5, <1>6, GetSuperIdType

(* While a node serves requests its next id is not above the segment its   *)
(* file names; the segment in use is the one just before.                  *)
LEMMA LiveBelowFile ==
  ASSUME TypeOK, FrontierInv, NEW n \in Nodes, up[n], ~failed[n]
  PROVE  /\ FirstId(superId[n]) \in Nat
         /\ FirstId(superId[n]) + index[n] <= FileFrontier(n, file[n])
         /\ file[n] \in Nat =>
              FileFrontier(n, file[n]) = FirstId(superId[n]) + IndexSpan
<1>1. /\ n \in Nat /\ file[n] \in Nat \union {Missing, Unreadable}
      /\ superId[n] \in Nat /\ index[n] \in 0 .. IndexSpan
  BY DEF TypeOK
<1>2. SegmentInUse(n)
  BY DEF FrontierInv, SegmentOK
<1>3. /\ FirstId(superId[n]) \in Nat
      /\ FirstId(superId[n] + 1) = FirstId(superId[n]) + IndexSpan
  BY <1>1, FirstIdStep
<1>4. CASE file[n] \in Nat
  <2>1. FileFrontier(n, file[n]) = FirstId(superId[n] + 1)
    BY <1>2, <1>4 DEF FileFrontier, SegmentInUse
  <2> QED BY <1>1, <1>3, <2>1
<1>5. CASE file[n] = Unreadable
  <2>1. /\ superId[n] + 1 \in Nat /\ Segment(n + 1, 0) \in Nat
        /\ superId[n] + 1 <= Segment(n + 1, 0)
    BY <1>1, <1>2 DEF SegmentInUse, Segment
  <2>2. /\ FirstId(superId[n] + 1) <= FirstId(Segment(n + 1, 0))
        /\ FirstId(Segment(n + 1, 0)) \in Nat
    BY <2>1, FirstIdMonotone, FirstIdStep
  <2>3. FileFrontier(n, file[n]) = FirstId(Segment(n + 1, 0))
    BY <1>5 DEF FileFrontier
  <2> QED BY <1>1, <1>3, <1>5, <2>2, <2>3
<1> QED BY <1>1, <1>2, <1>4, <1>5 DEF SegmentInUse

LEMMA StartAdvances ==
  ASSUME TypeOK, FrontierInv, NEW n \in Nodes, Start(n)
  PROVE  Advances
<1>1. PICK r \in GetSuperId(n) :
        /\ file'    = [file    EXCEPT ![n] = r.file]
        /\ superId' = [superId EXCEPT ![n] = r.super]
        /\ up'      = [up      EXCEPT ![n] = r.ok]
  BY DEF Start
<1>2. /\ ~up[n] /\ grants' = grants /\ failed' = failed
      /\ file'[n] = r.file /\ superId'[n] = r.super /\ up'[n] = r.ok
      /\ index'[n] = 0
  BY <1>1 DEF Start, TypeOK
<1>3. \A m \in Nodes \ {n} : NodeUnchanged(m)
  BY <1>1 DEF Start, TypeOK, NodeUnchanged
<1>4. Frontier(n) = FileFrontier(n, file[n])
  BY <1>2 DEF Frontier
<1>5. CASE r.ok
  <2>1. SegmentInUse(n)'
    BY <1>2, <1>5, FileFrontierStep DEF SegmentInUse
  <2>2. Frontier(n)' = FirstId(r.super) + 0
    BY <1>2, <1>5 DEF Frontier, FirstId
  <2>3. Frontier(n) = FirstId(r.super) /\ Frontier(n) \in Nat
    BY <1>4, <1>5, FileFrontierStep
  <2>4. Frontier(n) <= Frontier(n)'
    BY <2>2, <2>3
  <2>5. NodeAdvances(n)
    BY <1>2, <2>1, <2>4, FileFrontierStep DEF NodeAdvances
  <2> QED BY <1>2, <1>3, <2>5, AdvancesOfNode
<1>6. CASE ~r.ok
  <2>1. Frontier(n)' = FileFrontier(n, r.file)
    BY <1>2, <1>6 DEF Frontier, FileFrontier, FirstId
  <2>2. NodeAdvances(n)
    BY <1>2, <1>4, <1>6, <2>1, FileFrontierStep DEF NodeAdvances
  <2> QED BY <1>2, <1>3, <2>2, AdvancesOfNode
<1> QED BY <1>5, <1>6

LEMMA CrashAdvances ==
  ASSUME TypeOK, FrontierInv, NEW n \in Nodes, Crash(n)
  PROVE  Advances
<1>1. /\ up[n] /\ up'[n] = FALSE /\ failed' = failed /\ grants' = grants
  BY DEF Crash, TypeOK
<1>2. \A m \in Nodes \ {n} : NodeUnchanged(m)
  BY DEF Crash, TypeOK, NodeUnchanged
<1>3. Frontier(n)' = FileFrontier(n, file'[n])
  BY <1>1 DEF Frontier, FileFrontier, FirstId
<1>4. /\ file'[n] \in Nat => file'[n] <= SuperSpan
      /\ ~failed[n] => /\ FileFrontier(n, file[n]) <= FileFrontier(n, file'[n])
                       /\ FileFrontier(n, file[n]) \in Nat
                       /\ FileFrontier(n, file'[n]) \in Nat
  <2>1. CASE file' = file
    <3>1. ~failed[n] => FileFrontier(n, file[n]) \in Nat
      <4>1. \E r \in GetSuperId(n) : r = Unread(n)
        BY DEF GetSuperId
      <4> QED BY <4>1, FileFrontierStep
    <3> QED BY <2>1, <3>1 DEF FrontierInv, FileOK
  <2>2. ASSUME NEW r \in GetSuperId(n), file' = [file EXCEPT ![n] = r.file]
        PROVE  <1>4!:
    <3>1. file'[n] = r.file
      BY <2>2 DEF TypeOK
    <3> QED BY <3>1, FileFrontierStep
  <2> QED BY <2>1, <2>2 DEF Crash
<1>5. ~failed[n] => /\ FirstId(superId[n]) + index[n] \in Nat
                   /\ FirstId(superId[n]) + index[n] <= FileFrontier(n, file[n])
  BY <1>1, LiveBelowFile DEF TypeOK
<1>6. Frontier(n) = FirstId(superId[n]) + index[n]
  BY <1>1 DEF Frontier
<1>7. NodeAdvances(n)
  BY <1>1, <1>3, <1>4, <1>5, <1>6 DEF NodeAdvances
<1> QED BY <1>1, <1>2, <1>7, AdvancesOfNode

LEMMA CreateIdInSegmentAdvances ==
  ASSUME TypeOK, FrontierInv, "cpp" \notin Sdks, NEW n \in Nodes,
         NEW sdk \in Sdks, NEW count \in 1 .. MaxCount,
         CreateIdInSegment(n, sdk, count)
  PROVE  Advances
<1> DEFINE first == FirstId(superId[n]) + index[n]
           g == [node |-> n, first |-> first, count |-> count]
<1>1. Asked(sdk, count) = count
  BY DEF Asked
<1>2. /\ up[n] /\ up' = up /\ file' = file /\ superId' = superId /\ failed' = failed
      /\ index' = [index EXCEPT ![n] = index[n] + count]
      /\ grants' = Append(grants, g)
  BY <1>1 DEF CreateIdInSegment, Grant
<1>3. index[n] \in Nat /\ index'[n] = index[n] + count
  BY <1>2 DEF TypeOK
<1>4. \A m \in Nodes \ {n} : NodeUnchanged(m)
  BY <1>2 DEF TypeOK, NodeUnchanged
<1>5. FirstId(superId[n]) \in Nat /\ first \in Nat
  <2>1. FirstId(superId[n]) \in Nat
    BY FirstIdStep DEF TypeOK
  <2> QED BY <1>3, <2>1
<1>6. Frontier(n) = first /\ Frontier(n)' = first + count
  BY <1>2, <1>3, <1>5 DEF Frontier, FirstId
<1> HIDE DEF first
<1>7. g \in IdRange /\ NewRange(g)
  BY <1>2, <1>5, <1>6 DEF IdRange, NewRange
<1>8. file'[n] \in Nat => file'[n] <= SuperSpan
  BY <1>2 DEF FrontierInv, FileOK
<1>9. up'[n] /\ ~failed'[n] => SegmentInUse(n)'
  BY <1>2 DEF FrontierInv, SegmentOK, SegmentInUse
<1>10. NodeAdvances(n)
  BY <1>2, <1>5, <1>6, <1>8, <1>9 DEF NodeAdvances
<1> QED BY <1>4, <1>7, <1>10, AdvancesOfNode

(* A refill continues where the old segment ends: the segment it takes is  *)
(* the next one, so a range that crosses the border is one range.          *)
LEMMA CreateIdRefillAdvances ==
  ASSUME TypeOK, FrontierInv, "cpp" \notin Sdks, NEW n \in Nodes,
         NEW sdk \in Sdks, NEW count \in 1 .. MaxCount,
         CreateIdRefill(n, sdk, count)
  PROVE  Advances
<1>1. Asked(sdk, count) = count
  BY DEF Asked
<1>2. PICK r \in GetSuperId(n) : CreateIdRefill(n, sdk, count)!4!(r)
  BY DEF CreateIdRefill
<1>3. /\ up[n] /\ up' = up
      /\ file'[n] = r.file /\ superId'[n] = r.super
      /\ failed'[n] = (failed[n] \/ ~r.ok)
  BY <1>2 DEF CreateIdRefill, TypeOK
<1>4. index' = [index EXCEPT ![n] = IF r.ok THEN Carried(index[n], count) ELSE 0]
  BY <1>1, <1>2
<1>5. \A m \in Nodes \ {n} : NodeUnchanged(m)
  BY <1>2, <1>3, <1>4 DEF TypeOK, NodeUnchanged
<1>6. file'[n] \in Nat => file'[n] <= SuperSpan
  BY <1>3, FileFrontierStep
<1>7. r.super \in Nat /\ FirstId(r.super) \in Nat
  BY GetSuperIdType, FirstIdStep
<1>8. /\ superId[n] \in Nat /\ FirstId(superId[n]) \in Nat
      /\ index[n] \in 0 .. IndexSpan
  BY FirstIdStep DEF TypeOK
<1>9. CASE ~r.ok
  <2>1. grants' = grants
    BY <1>2, <1>9
  <2>2. NodeAdvances(n)
    BY <1>3, <1>6, <1>9 DEF NodeAdvances
  <2> QED BY <1>5, <2>1, <2>2, AdvancesOfNode
<1>10. CASE r.ok
  <2> DEFINE first == IF index[n] = IndexSpan
                      THEN FirstId(r.super)
                      ELSE FirstId(superId[n]) + index[n]
             g == [node |-> n, first |-> first, count |-> count]
  <2>1. grants' = Append(grants, g)
    BY <1>2, <1>10 DEF Grant
  <2>2. first \in Nat
    BY <1>7, <1>8
  <2>3. ASSUME ~failed[n]
        PROVE  /\ SegmentInUse(n)'
               /\ Frontier(n) = first
               /\ Frontier(n)' = first + count
    <3>1. file[n] \in Nat
      <4>1. file[n] # Missing
        BY <1>3, <2>3 DEF FrontierInv, SegmentOK, SegmentInUse
      <4>2. file[n] # Unreadable
        BY <1>10, GetSuperIdOutcome
      <4> QED BY <4>1, <4>2 DEF TypeOK
    <3>2. FirstId(r.super) = FirstId(superId[n]) + IndexSpan
      BY <1>3, <1>10, <2>3, <3>1, FileFrontierStep, LiveBelowFile
    <3>3. first = FirstId(superId[n]) + index[n]
      BY <1>8, <3>2
    <3>4. Frontier(n) = FirstId(superId[n]) + index[n]
      BY <1>3 DEF Frontier
    <3>5. index'[n] = index[n] + count - IndexSpan
      BY <1>4, <1>10 DEF Carried, TypeOK
    <3>6. Frontier(n)' = FirstId(r.super) + (index[n] + count - IndexSpan)
      BY <1>3, <3>5 DEF Frontier, FirstId
    <3>7. Frontier(n)' = first + count
      <4> HIDE DEF first
      <4> QED BY <1>8, <3>2, <3>3, <3>6
    <3>8. SegmentInUse(n)'
      BY <1>3, <1>10, FileFrontierStep DEF SegmentInUse
    <3> QED BY <3>3, <3>4, <3>7, <3>8
  <2> HIDE DEF first
  <2>4. ~failed'[n] => ~failed[n]
    BY <1>3
  <2>5. g \in IdRange /\ NewRange(g)
    <3>1. g \in IdRange
      BY <2>2 DEF IdRange
    <3>2. ASSUME ~failed'[n]
          PROVE  Frontier(n) <= first /\ first + count <= Frontier(n)'
      BY <2>4, <2>2, <2>3, <3>2
    <3> QED BY <2>1, <3>1, <3>2 DEF NewRange
  <2>6. NodeAdvances(n)
    <3>1. ASSUME ~failed'[n]
          PROVE  ~failed[n] /\ SegmentInUse(n)' /\ Frontier(n) <= Frontier(n)'
      BY <2>4, <2>2, <2>3, <3>1
    <3> QED BY <1>6, <3>1 DEF NodeAdvances
  <2> QED BY <1>5, <2>5, <2>6, AdvancesOfNode
<1> QED BY <1>9, <1>10, GetSuperIdType

-----------------------------------------------------------------------------
(* With clients that ask for as many ids as they use, no id of a node that *)
(* has refused no request is ever given out twice: over restarts, crashes  *)
(* inside GetSuperId, lost file writes and ranges that cross segments.     *)
THEOREM UniqueIdsHold ==
  ASSUME "cpp" \notin Sdks
  PROVE  Spec => [](UniqueIds /\ FrontierInv)
<1>1. Init => FrontierInv /\ UniqueIds
  BY DEF Init, FrontierInv, FileOK, SegmentOK, BelowFrontier, UniqueIds
<1>2. TypeOK /\ TypeOK' /\ FrontierInv /\ UniqueIds /\ [Next]_vars
        => FrontierInv' /\ UniqueIds'
  <2> SUFFICES ASSUME TypeOK, TypeOK', FrontierInv, UniqueIds, [Next]_vars
               PROVE  FrontierInv' /\ UniqueIds'
    OBVIOUS
  <2>1. CASE UNCHANGED vars
    BY <2>1 DEF vars, FrontierInv, FileOK, SegmentOK, SegmentInUse, BelowFrontier,
                Frontier, FileFrontier, UniqueIds
  <2>2. CASE Next
    <3>1. Advances
      BY <2>2, StartAdvances, CrashAdvances, CreateIdInSegmentAdvances,
         CreateIdRefillAdvances DEF Next
    <3> QED BY <3>1, BelowFrontierStep, UniqueIdsStep DEF FrontierInv, Advances
  <2> QED BY <2>1, <2>2
<1> QED BY <1>1, <1>2, IdTypeCorrect, PTL DEF Spec

-----------------------------------------------------------------------------
(* The comparison of fields with filters.  First numbers: what is near     *)
(* enough stays what it is in an int.                                      *)
LEMMA PowerIs == ASSUME NEW n \in Nat PROVE 2 ^ n \in Nat \ {0}
  <1>1. IsFiniteSet(1 .. n) /\ Cardinality(1 .. n) = n
    BY CountTo
  <1>2. IsFiniteSet(SUBSET (1 .. n)) /\ Cardinality(SUBSET (1 .. n)) = 2 ^ n
    BY <1>1, FS_SUBSET
  <1>3. SUBSET (1 .. n) # {}
    OBVIOUS
  <1> QED
    BY <1>2, <1>3, FS_CardinalityType, FS_EmptySet

LEMMA AsIntIs ==
  ASSUME NEW x \in -IntHalf .. IntHalf - 1
  PROVE  AsInt(x) = x
  <1>1. IntHalf \in Nat \ {0}
    <2>1. IntBits - 1 \in Nat
      BY SelectAssumption
    <2> QED
      BY <2>1, PowerIs DEF IntHalf
  <1>2. PICK n \in Nat \ {0} : n = 2 * IntHalf
    BY <1>1
  <1>3. x + IntHalf \in 0 .. n - 1
    BY <1>1, <1>2
  <1>4. (0 * n + (x + IntHalf)) % n = x + IntHalf
    BY <1>3, Quotient
  <1>5. 0 * n + (x + IntHalf) = x + IntHalf
    BY <1>3, <1>2
  <1> QED
    BY <1>1, <1>2, <1>3, <1>4, <1>5 DEF AsInt

(* Texts: two of one length that are not equal have a first difference.    *)
LEMMA FirstDifferenceIs ==
  ASSUME NEW s \in Seq(Nat), NEW t \in Seq(Nat), Len(s) = Len(t), s # t
  PROVE  LET d == FirstDifference(s, t)
         IN  d \in 1 .. Len(s) /\ s[d] # t[d] /\ \A j \in 1 .. d - 1 : s[j] = t[j]
  <1> DEFINE D == {i \in 1 .. Len(s) : s[i] # t[i]}
  <1>1. DOMAIN s = 1 .. Len(s) /\ Len(s) \in Nat
    BY LenProperties
  <1>2. D \in SUBSET Nat /\ D # {}
    <2>1. ~ \A i \in 1 .. Len(s) : s[i] = t[i]
      BY SeqEqual
    <2>2. PICK i \in 1 .. Len(s) : s[i] # t[i]
      BY <2>1
    <2>3. i \in D /\ \A j \in 1 .. Len(s) : j \in Nat
      BY <1>1, <2>2
    <2> QED
      BY <2>3
  <1>3. PICK x \in D : \A y \in D : x <= y
    <2> HIDE DEF D
    <2> QED
      BY <1>2, LeastNumber
  <1>4. \A j \in 1 .. x - 1 : s[j] = t[j]
    <2> SUFFICES ASSUME NEW j \in 1 .. x - 1, s[j] # t[j] PROVE FALSE
      OBVIOUS
    <2>1. j \in 1 .. Len(s)
      BY <1>1
    <2> QED
      BY <1>3, <2>1
  <1>5. x \in DOMAIN s /\ s[x] # t[x]
    BY <1>1
  <1>6. \E i \in DOMAIN s : s[i] # t[i] /\ \A j \in 1 .. i - 1 : s[j] = t[j]
    BY <1>4, <1>5
  <1> QED
    BY <1>1, <1>6 DEF FirstDifference

LEMMA CompareTextsIs ==
  ASSUME NEW s \in Seq(Nat), NEW t \in Seq(Nat), NEW name, name \notin IntNames
  PROVE  /\ CompareTexts(s, t) \in Int
         /\ CompareTexts(s, t) < 0 <=> Smaller(name, s, t)
         /\ CompareTexts(s, t) > 0 <=> Smaller(name, t, s)
         /\ CompareTexts(s, t) = 0 <=> s = t
  <1>1. /\ Len(s) \in Nat /\ DOMAIN s = 1 .. Len(s) /\ \A i \in 1 .. Len(s) : s[i] \in Nat
        /\ Len(t) \in Nat /\ DOMAIN t = 1 .. Len(t) /\ \A i \in 1 .. Len(t) : t[i] \in Nat
    BY LenProperties
  <1>2. /\ Smaller(name, s, t) <=>
             \/ Len(s) < Len(t)
             \/ Len(s) = Len(t) /\ \E i \in DOMAIN s : s[i] < t[i] /\ \A j \in 1 .. i - 1 : s[j] = t[j]
        /\ Smaller(name, t, s) <=>
             \/ Len(t) < Len(s)
             \/ Len(t) = Len(s) /\ \E i \in DOMAIN t : t[i] < s[i] /\ \A j \in 1 .. i - 1 : t[j] = s[j]
    BY DEF Smaller
  <1>3. CASE Len(s) # Len(t)
    <2>1. CompareTexts(s, t) = Len(s) - Len(t) /\ s # t
      BY <1>3 DEF CompareTexts
    <2>2. (Smaller(name, s, t) <=> Len(s) < Len(t)) /\ (Smaller(name, t, s) <=> Len(t) < Len(s))
      BY <1>2, <1>3
    <2>3. Len(s) \in Nat /\ Len(t) \in Nat
      BY <1>1
    <2> QED
      BY ONLY <1>3, <2>1, <2>2, <2>3
  <1>4. CASE Len(s) = Len(t) /\ s = t
    <2>1. CompareTexts(s, t) = 0
      BY <1>4 DEF CompareTexts
    <2>2. \A i \in DOMAIN s : ~ (s[i] < t[i])
      BY <1>1, <1>4
    <2>3. \A i \in DOMAIN t : ~ (t[i] < s[i])
      BY <1>1, <1>4
    <2> QED
      BY <1>1, <1>2, <1>4, <2>1, <2>2, <2>3
  <1>5. CASE Len(s) = Len(t) /\ s # t
    <2>1. PICK d \in 1 .. Len(s) : /\ d = FirstDifference(s, t)
                                  /\ s[d] # t[d] /\ \A j \in 1 .. d - 1 : s[j] = t[j]
      BY <1>5, FirstDifferenceIs
    <2>2. CompareTexts(s, t) = s[d] - t[d] /\ s[d] \in Nat /\ t[d] \in Nat
      BY <1>1, <1>5, <2>1 DEF CompareTexts
    \* The first difference is the only place that decides.
    <2>3. ASSUME NEW i \in 1 .. Len(s), s[i] # t[i], \A j \in 1 .. i - 1 : s[j] = t[j]
          PROVE  i = d
      <3>1. ~ (i < d)
        <4>1. i < d => i \in 1 .. d - 1
          BY <1>1
        <4> QED
          BY <2>1, <2>3, <4>1
      <3>2. ~ (d < i)
        <4>1. d < i => d \in 1 .. i - 1
          BY <1>1
        <4> QED
          BY <2>1, <2>3, <4>1
      <3> QED
        BY <1>1, <3>1, <3>2
    <2>4. Smaller(name, s, t) <=> s[d] < t[d]
      <3>1. ASSUME NEW i \in DOMAIN s, s[i] < t[i], \A j \in 1 .. i - 1 : s[j] = t[j] PROVE s[d] < t[d]
        <4>1. i \in 1 .. Len(s) /\ s[i] # t[i]
          BY <1>1, <1>5, <3>1
        <4>2. i = d
          BY <2>3, <3>1, <4>1
        <4> QED
          BY <3>1, <4>2
      <3>2. s[d] < t[d] => \E i \in DOMAIN s : s[i] < t[i] /\ \A j \in 1 .. i - 1 : s[j] = t[j]
        <4>1. d \in DOMAIN s /\ \A j \in 1 .. d - 1 : s[j] = t[j]
          BY <1>1, <2>1
        <4> QED
          BY <4>1
      <3>3. ~ (Len(s) < Len(t))
        BY <1>1, <1>5
      <3> QED
        BY <1>2, <1>5, <3>1, <3>2, <3>3
    <2>5. Smaller(name, t, s) <=> t[d] < s[d]
      <3>1. ASSUME NEW i \in DOMAIN t, t[i] < s[i], \A j \in 1 .. i - 1 : t[j] = s[j] PROVE t[d] < s[d]
        <4>1. i \in 1 .. Len(s) /\ s[i] # t[i] /\ \A j \in 1 .. i - 1 : s[j] = t[j]
          BY <1>1, <1>5, <3>1
        <4>2. i = d
          BY <2>3, <4>1
        <4> QED
          BY <3>1, <4>2
      <3>2. t[d] < s[d] => \E i \in DOMAIN t : t[i] < s[i] /\ \A j \in 1 .. i - 1 : t[j] = s[j]
        <4>1. d \in DOMAIN t /\ \A j \in 1 .. d - 1 : t[j] = s[j]
          BY <1>1, <1>5, <2>1
        <4> QED
          BY <4>1
      <3>3. ~ (Len(t) < Len(s))
        BY <1>1, <1>5
      <3> QED
        BY <1>2, <1>5, <3>1, <3>2, <3>3
    <2> QED
      BY <1>5, <2>1, <2>2, <2>4, <2>5
  <1> QED
    BY <1>3, <1>4, <1>5
(* What ret returns says how two values of a field stand.                  *)
LEMMA RetIs ==
  ASSUME NEW name \in Names, NEW x \in ValuesOf(name), NEW y \in ValuesOf(name),
         name \in IntNames => x[1] - y[1] \in -IntHalf .. IntHalf - 1
  PROVE  /\ ret(name, x, y) \in Int
         /\ ret(name, x, y) < 0 <=> Smaller(name, x, y)
         /\ ret(name, x, y) > 0 <=> Smaller(name, y, x)
         /\ ret(name, x, y) = 0 <=> x = y
  <1>1. CASE name \in IntNames
    <2>1. name \notin TextNames
      BY <1>1, SelectAssumption
    <2>2. PICK a \in Int, b \in Int : x = <<a>> /\ y = <<b>>
      BY <1>1, SelectAssumption DEF ValuesOf
    <2>3. ret(name, x, y) = a - b
      BY <1>1, <2>1, <2>2, AsIntIs DEF ret
    <2>4. (Smaller(name, x, y) <=> a < b) /\ (Smaller(name, y, x) <=> b < a) /\ (x = y <=> a = b)
      BY <1>1, <2>2 DEF Smaller
    <2> QED
      BY <2>3, <2>4
  <1>2. CASE name \notin IntNames
    <2>1. name \in TextNames
      BY <1>2 DEF Names
    <2>2. x \in Seq(Nat) /\ y \in Seq(Nat)
      BY <1>2, SelectAssumption DEF ValuesOf
    <2>3. ret(name, x, y) = CompareTexts(x, y)
      BY <2>1 DEF ret
    <2> QED
      BY <1>2, <2>2, <2>3, CompareTextsIs
  <1> QED
    BY <1>1, <1>2

(* A filter is passed when the field stands to it as the filter says.      *)
FieldsTyped == \A name \in Names : fields[name] \in ValuesOf(name) \union {Absent}

LEMMA FilterTyped ==
  ASSUME NEW filter \in FILTER
  PROVE  filter.name \in Names /\ filter.cmp \in CmpModes /\ filter.field \in ValuesOf(filter.name)
  BY DEF FILTER

LEMMA PassesIs ==
  ASSUME FieldsTyped, NEW filter \in FILTER, Near(filter)
  PROVE  Passes(filter) <=> Stands(filter)
  <1>1. filter.name \in Names /\ filter.cmp \in CmpModes /\ filter.field \in ValuesOf(filter.name)
    BY FilterTyped
  <1>2. CASE fields[filter.name] = Absent
    BY <1>2 DEF Passes, Stands
  <1>3. CASE fields[filter.name] # Absent
    <2> DEFINE name == filter.name
               cmp  == filter.cmp
               x == fields[name]
               y == filter.field
               r == ret(name, x, y)
    <2>1. x \in ValuesOf(name) /\ y \in ValuesOf(name)
      BY <1>1, <1>3 DEF FieldsTyped
    <2>2. name \in IntNames => x[1] - y[1] \in -IntHalf .. IntHalf - 1
      BY <1>3 DEF Near
    <2>3. Passes(filter) <=> Passing(cmp, r)
      BY <1>3 DEF Passes
    <2>4. Stands(filter) <=> CASE cmp = "left"        -> Smaller(name, x, y)
                               [] cmp = "leftEquals"  -> ~ Smaller(name, y, x)
                               [] cmp = "equals"      -> x = y
                               [] cmp = "rightEquals" -> ~ Smaller(name, x, y)
                               [] cmp = "right"       -> Smaller(name, y, x)
                               [] cmp = "unequals"    -> x # y
      BY <1>3 DEF Stands
    <2> HIDE DEF name, cmp, x, y, r
    <2>5. /\ r \in Int
          /\ r < 0 <=> Smaller(name, x, y)
          /\ r > 0 <=> Smaller(name, y, x)
          /\ r = 0 <=> x = y
      BY <1>1, <2>1, <2>2, RetIs DEF name, r
    <2>6. cmp \in CmpModes
      BY <1>1 DEF cmp
    <2>7. CASE cmp = "left"
      BY <2>3, <2>4, <2>5, <2>7 DEF Passing
    <2>8. CASE cmp = "leftEquals"
      BY <2>3, <2>4, <2>5, <2>8 DEF Passing
    <2>9. CASE cmp = "equals"
      BY <2>3, <2>4, <2>5, <2>9 DEF Passing
    <2>10. CASE cmp = "rightEquals"
      BY <2>3, <2>4, <2>5, <2>10 DEF Passing
    <2>11. CASE cmp = "right"
      BY <2>3, <2>4, <2>5, <2>11 DEF Passing
    <2>12. CASE cmp = "unequals"
      BY <2>3, <2>4, <2>5, <2>12 DEF Passing
    <2> QED
      BY <2>6, <2>7, <2>8, <2>9, <2>10, <2>11, <2>12 DEF CmpModes
  <1> QED
    BY <1>2, <1>3

(* The inductive invariant: the loop has passed every filter before the    *)
(* one it is at, and has stopped at the end or at one that it did not.     *)
SelectInv ==
  /\ FieldsTyped
  /\ Len(filters) \in Nat /\ DOMAIN filters = 1 .. Len(filters)
  /\ \A i \in DOMAIN filters : filters[i] \in FILTER
  /\ at \in 1 .. Len(filters) + 1
  /\ \A i \in 1 .. at - 1 : Passes(filters[i])
  /\ selected \in {"open", "yes", "no"}
  /\ selected = "yes" => at > Len(filters)
  /\ selected = "no" => at <= Len(filters) /\ ~ Passes(filters[at])

LEMMA SelectInitKeeps == SelectInit => SelectInv
  <1> SUFFICES ASSUME SelectInit PROVE SelectInv
    OBVIOUS
  <1>1. PICK n \in 0 .. MaxFilters : filters \in [1 .. n -> FILTER]
    BY DEF SelectInit
  <1>2. n \in Nat
    BY SelectAssumption
  <1>3. filters \in Seq(FILTER)
    BY <1>1, <1>2
  <1>4. Len(filters) \in Nat /\ DOMAIN filters = 1 .. Len(filters)
        /\ \A i \in DOMAIN filters : filters[i] \in FILTER
    BY <1>3, LenProperties
  <1>5. FieldsTyped
    BY DEF SelectInit, FieldsTyped
  <1>6. at = 1 /\ selected = "open"
    BY DEF SelectInit
  <1> QED
    BY <1>4, <1>5, <1>6 DEF SelectInv

LEMMA IsSelectedKeeps ==
  ASSUME SelectInv, IsSelected \/ UNCHANGED selectVars
  PROVE  SelectInv'
  <1>1. fields' = fields /\ filters' = filters
    BY DEF IsSelected, selectVars
  <1>2. \A filter : Passes(filter)' <=> Passes(filter)
    BY <1>1 DEF Passes
  <1>3. FieldsTyped'
    BY <1>1 DEF FieldsTyped, SelectInv, Names, ValuesOf
  <1>4. /\ Len(filters') \in Nat /\ DOMAIN filters' = 1 .. Len(filters')
        /\ \A i \in DOMAIN filters' : filters'[i] \in FILTER
    BY <1>1 DEF SelectInv
  <1>5. CASE at' = at /\ selected' = selected
    BY <1>1, <1>2, <1>3, <1>4, <1>5 DEF SelectInv
  <1>6. CASE at > Len(filters) /\ selected' = "yes" /\ at' = at
    BY <1>1, <1>2, <1>3, <1>4, <1>6 DEF SelectInv
  <1>7. CASE at <= Len(filters) /\ ~ Passes(filters[at]) /\ selected' = "no" /\ at' = at
    BY <1>1, <1>2, <1>3, <1>4, <1>7 DEF SelectInv
  <1>8. CASE at <= Len(filters) /\ Passes(filters[at]) /\ at' = at + 1 /\ selected' = selected /\ selected = "open"
    <2>1. \A i \in 1 .. at' - 1 : i \in 1 .. at - 1 \/ i = at
      BY <1>8 DEF SelectInv
    <2>2. \A i \in 1 .. at' - 1 : Passes(filters[i])'
      BY <1>1, <1>2, <1>8, <2>1 DEF SelectInv
    <2>3. at' \in 1 .. Len(filters') + 1
      BY <1>1, <1>8 DEF SelectInv
    <2> QED
      BY <1>1, <1>3, <1>4, <1>8, <2>2, <2>3 DEF SelectInv
  <1> QED
    BY <1>5, <1>6, <1>7, <1>8 DEF IsSelected, selectVars

LEMMA SelectInvGivesRight == SelectInv => SelectedRight
  <1> SUFFICES ASSUME SelectInv, selected # "open", \A i \in DOMAIN filters : Near(filters[i])
               PROVE  selected = "yes" <=> \A i \in DOMAIN filters : Stands(filters[i])
    BY DEF SelectedRight
  <1>1. \A i \in DOMAIN filters : Passes(filters[i]) <=> Stands(filters[i])
    BY PassesIs DEF SelectInv
  <1>2. CASE selected = "yes"
    <2>1. \A i \in DOMAIN filters : i \in 1 .. at - 1
      BY <1>2 DEF SelectInv
    <2> QED
      BY <1>1, <1>2, <2>1 DEF SelectInv
  <1>3. CASE selected = "no"
    <2>1. at \in DOMAIN filters /\ ~ Passes(filters[at])
      BY <1>3 DEF SelectInv
    <2> QED
      BY <1>1, <1>3, <2>1
  <1> QED
    BY <1>2, <1>3 DEF SelectInv

(* A point or line is selected when its fields stand to those of every     *)
(* filter as the filter says, as long as the numbers are near each other.  *)
THEOREM SelectedRightHolds == SelectSpec => []SelectedRight
  BY SelectInitKeeps, IsSelectedKeeps, SelectInvGivesRight, PTL DEF SelectSpec

-----------------------------------------------------------------------------
(* The three parts as they run side by side: each keeps its invariant in   *)
(* its own steps, and in those of the others nothing of it changes.        *)
NodeInv ==
  /\ IInv
  /\ IF what = "selection" THEN SelectInv ELSE selected = "open"

LEMMA NodeInitKeeps == MCInit => NodeInv
  <1> SUFFICES ASSUME MCInit PROVE NodeInv
    OBVIOUS
  <1>1. IInv
    BY InitKeeps DEF MCInit
  <1>2. IF what = "selection" THEN SelectInv ELSE selected = "open"
    BY SelectInitKeeps DEF MCInit
  <1> QED
    BY <1>1, <1>2 DEF NodeInv

LEMMA NodeNextKeeps ==
  ASSUME NodeInv, [MCNext]_<<what, vars, storeVars, selectVars>>
  PROVE  NodeInv'
  <1>1. what' = what
    BY DEF MCNext
  <1>2. IInv'
    <2>1. StoreNext \/ UNCHANGED storeVars
      BY DEF MCNext
    <2> QED
      BY <2>1, NextKeeps DEF NodeInv
  <1>3. CASE what = "selection"
    <2>1. IsSelected \/ UNCHANGED selectVars
      BY <1>3 DEF MCNext
    <2> QED
      BY <1>1, <1>2, <1>3, <2>1, IsSelectedKeeps DEF NodeInv
  <1>4. CASE what # "selection"
    <2>1. UNCHANGED selectVars
      BY <1>4 DEF MCNext
    <2> QED
      BY <1>1, <1>2, <1>4, <2>1 DEF NodeInv, selectVars
  <1> QED
    BY <1>3, <1>4

(* The memory a start makes is the one the loops of the code make, for any *)
(* files and any records in them, deleted ones among them; and a point or  *)
(* line is selected when its fields stand to the filters as these say.     *)
THEOREM NodeInvHolds == MCSpec => []Inv
  <1>1. NodeInv => Inv
    <2>1. IInv => StoreTypeOK
      BY DEF IInv
    <2>2. selected = "open" => SelectedRight
      BY DEF SelectedRight
    <2> QED
      BY <2>1, <2>2, LoadedAsLoop, SelectInvGivesRight DEF NodeInv, Inv
  <1> QED
    BY <1>1, NodeInitKeeps, NodeNextKeeps, PTL DEF MCSpec
=============================================================================
