---------------------------- MODULE RecordStore ----------------------------
(***************************************************************************)
(* How a gmap node keeps its points and lines on disk (gmap/DiskIO.cpp,    *)
(* Points.cpp, Lines.cpp).                                                 *)
(*                                                                         *)
(* For each kind there is an index file, a list of [id, position, length], *)
(* and data files of records, each with a state byte.  Nothing is ever     *)
(* removed from a file.  A record that still fits is overwritten in place, *)
(* one that has grown is appended and its index entry rewritten; a deleted *)
(* one only gets another state byte.  Memory holds every live record with  *)
(* the two positions, and the files are read once, when the node starts.   *)
(*                                                                         *)
(* Positions are ordinal numbers of entries and records, not byte offsets; *)
(* a record remembers the room it was given.  All ids share one data file  *)
(* (the code has 512, chosen by id; they do not interact).  A record fits  *)
(* the stdio buffer, so a file changes when it is closed, all at once.     *)
(***************************************************************************)
EXTENDS Naturals, Sequences, FiniteSets, SequencesExt

CONSTANTS
  PointIds, LineIds,
  Edges,       \* line ids a point may list as its own
  Fields,      \* properties a point or a line may have
  MaxRecords,  \* bound of the model: records of both data files
  MaxEdges,    \* bound of the model: edges a point lists
  MaxFaults,   \* bound of the model: kills and files that cannot be opened
  None         \* no record, no request

Ids == PointIds \union LineIds
Kinds == {"point", "line"}
Kind(id) == IF id \in PointIds THEN "point" ELSE "line"

(* What is kept of a point or a line: the lists of its edges (OwnLines) and *)
(* its fields.                                                              *)
Contents == [out : Seq(Edges), in : Seq(Edges), fields : SUBSET Fields]
Blank    == [out |-> <<>>, in |-> <<>>, fields |-> {}]

Entries  == [id : Ids, pos : Nat \ {0}, space : Nat]
Records  == [id : Ids, live : BOOLEAN, content : Contents, room : Nat]
Objects  == [slot : Nat, pos : Nat, space : Nat, content : Contents]
Requests == [id : Ids, step : {"index", "data"}]
Batches  == [left : Seq(PointIds), entries : Seq(Entries)]

ASSUME RecordStoreAssumption ==
  /\ PointIds \intersect LineIds = {}
  /\ IsFiniteSet(Fields)
  /\ MaxRecords \in Nat /\ MaxEdges \in Nat /\ MaxFaults \in Nat
  /\ None \notin Contents /\ None \notin Objects
  /\ None \notin Requests /\ None \notin Batches

Length(c) == 1 + Len(c.out) + Len(c.in) + Cardinality(c.fields)

VARIABLES
  idx,      \* idx[k]: the index file, entries [id, pos, space]
  data,     \* data[k]: the data file, records [id, live, content, room]
  serving,  \* the node serves requests
  mem,      \* mem[id]: Points::m_points or Lines::m_lines, or None
  saving,   \* the request in the middle of SavePoint or SaveLine, or None
  batch,    \* CreatePoints in the middle: points left, entries written, or None
  acked,    \* acked[id]: content by the last request that succeeded (history)
  unsettled,\* ids with a request that succeeded without its effect on disk,
            \* or created a second time (history)
  torn,     \* died between the two writes of a save (history)
  skipped,  \* a start has read the record of a deleted object (history)
  faults    \* number of kills and failures so far (bound)

disk == <<idx, data>>
storeVars == <<idx, data, serving, mem, saving, batch, acked, unsettled, torn, skipped, faults>>

-----------------------------------------------------------------------------
StoreInit ==
  /\ idx  = [k \in Kinds |-> <<>>]
  /\ data = [k \in Kinds |-> <<>>]
  /\ serving = FALSE
  /\ mem   = [id \in Ids |-> None]
  /\ acked = [id \in Ids |-> None]
  /\ saving = None
  /\ batch = None
  /\ unsettled = {}
  /\ torn = FALSE
  /\ skipped = FALSE
  /\ faults = 0

(* A new object in memory: its positions are not known (IsPositioned is    *)
(* false) and it has no room on disk.                                      *)
Fresh(content) == [slot |-> 0, pos |-> 0, space |-> 0, content |-> content]

Positioned(m) == m.slot > 0

(* The save has to append a record and to write the index.                 *)
MovesWhenNew(m) == ~Positioned(m)   \* mutant: a grown record stays in its place
Moves(m) == ~Positioned(m) \/ Length(m.content) > m.space

(* The object changes in memory first; then it is saved.                   *)
Save(id, m) ==
  /\ mem' = [mem EXCEPT ![id] = m]
  /\ saving' = [id |-> id, step |-> IF Moves(m) THEN "index" ELSE "data"]

Idle == serving /\ saving = None /\ batch = None

(* Points::SetPoint creates a missing point and adds to or overwrites its  *)
(* fields, never removes one.                                              *)
SetPoint(id, fields) ==
  /\ Idle
  /\ LET m == IF mem[id] = None THEN Fresh(Blank) ELSE mem[id]
     IN Save(id, [m EXCEPT !.content.fields = @ \union fields])
  /\ UNCHANGED <<disk, serving, batch, acked, unsettled, torn, skipped, faults>>

(* Points::AddLine appends the edge whether or not it is listed already.   *)
AddLineForPoint(id, edge, isOut) ==
  /\ Idle /\ mem[id] # None
  /\ Len(mem[id].content.out) + Len(mem[id].content.in) < MaxEdges
  /\ Save(id, IF isOut THEN [mem[id] EXCEPT !.content.out = Append(@, edge)]
                       ELSE [mem[id] EXCEPT !.content.in  = Append(@, edge)])
  /\ UNCHANGED <<disk, serving, batch, acked, unsettled, torn, skipped, faults>>

(* Points::DelLine takes the edge out once, and saves when it was listed.  *)
DelLineForPoint(id, edge, isOut) ==
  /\ Idle /\ mem[id] # None
  /\ Contains(IF isOut THEN mem[id].content.out ELSE mem[id].content.in, edge)
  /\ Save(id, IF isOut THEN [mem[id] EXCEPT !.content.out = RemoveFirst(@, edge)]
                       ELSE [mem[id] EXCEPT !.content.in  = RemoveFirst(@, edge)])
  /\ UNCHANGED <<disk, serving, batch, acked, unsettled, torn, skipped, faults>>

(* Lines::CreateLine does not look for a line of the same id: the new one  *)
(* takes its place in memory and is saved like any new one.                *)
CreateLine(id, fields) ==
  /\ Idle
  /\ Save(id, Fresh([Blank EXCEPT !.fields = fields]))
  /\ unsettled' = IF mem[id] = None THEN unsettled ELSE unsettled \union {id}
  /\ UNCHANGED <<disk, serving, batch, acked, torn, skipped, faults>>

(* seq with its i-th element written, the next element if i is one past the *)
(* end.                                                                     *)
PutAt(seq, i, e) == IF i \in DOMAIN seq THEN [seq EXCEPT ![i] = e] ELSE Append(seq, e)

-----------------------------------------------------------------------------
(* SavePoint and SaveLine, for the object in saving.                       *)
Saved  == mem[saving.id]
SavedK == Kind(saving.id)
Room(n) == Len(data["point"]) + Len(data["line"]) + n <= MaxRecords

Record(room) ==
  [id |-> saving.id, live |-> TRUE, content |-> Saved.content, room |-> room]

NewRecord == Record(Length(Saved.content))

NewPosLast == Len(data[SavedK])   \* mutant: the entry names the record before
NewPos     == Len(data[SavedK]) + 1

(* Where the index entry goes: the place of the entry the object had, or   *)
(* the end of the file.                                                    *)
EntrySlotEnd == Len(idx[SavedK]) + 1   \* mutant: the old entry is left behind
EntrySlot == IF Positioned(Saved) THEN Saved.slot ELSE Len(idx[SavedK]) + 1

(* The record is in the buffer of the data file; the index entry is        *)
(* written and the index file closed, which puts it on disk.               *)
SaveIndex ==
  /\ saving # None /\ saving.step = "index" /\ Room(1)
  /\ idx' = [idx EXCEPT ![SavedK] = PutAt(@, EntrySlot,
               [id |-> saving.id, pos |-> NewPos, space |-> Length(Saved.content)])]
  /\ mem' = [mem EXCEPT ![saving.id].slot = EntrySlot, ![saving.id].pos = NewPos]
  /\ saving' = [saving EXCEPT !.step = "data"]
  /\ UNCHANGED <<data, serving, batch, acked, unsettled, torn, skipped, faults>>

(* On return the destructor of autoCloseDB closes the data file, which     *)
(* puts the record on disk, and the request is answered.                   *)
SaveData ==
  /\ saving # None /\ saving.step = "data"
  /\ data' = [data EXCEPT ![SavedK] = PutAt(@, Saved.pos,
                IF Saved.pos \in DOMAIN @ THEN Record(@[Saved.pos].room) ELSE NewRecord)]
  /\ mem' = [mem EXCEPT ![saving.id].space = Length(Saved.content)]
  /\ acked' = [acked EXCEPT ![saving.id] = Saved.content]
  /\ saving' = None
  /\ UNCHANGED <<idx, serving, batch, unsettled, torn, skipped, faults>>

Fault == faults < MaxFaults /\ faults' = faults + 1

(* A save that fails leaves the object as it is in memory.  SetPoint and   *)
(* the others report the failure, CreateLine does not look at it.          *)
Failed ==
  /\ Fault
  /\ saving' = None
  /\ IF saving.id \in LineIds
     THEN /\ acked' = [acked EXCEPT ![saving.id] = Saved.content]
          /\ unsettled' = unsettled \union {saving.id}
     ELSE UNCHANGED <<acked, unsettled>>
  /\ UNCHANGED <<idx, serving, mem, batch, torn, skipped>>

(* The data file cannot be opened.                                         *)
OpenDataFails ==
  /\ saving # None
  /\ saving.step = "data" => Saved.pos \in DOMAIN data[SavedK]
  /\ UNCHANGED data
  /\ Failed

(* The index file cannot be opened: the record is appended all the same,   *)
(* and no entry leads to it.                                               *)
OpenIndexFails ==
  /\ saving # None /\ saving.step = "index" /\ Room(1)
  /\ data' = [data EXCEPT ![SavedK] = Append(@, NewRecord)]
  /\ Failed

-----------------------------------------------------------------------------
(* Points::CreatePoints puts the points of a batch into memory, blank: of   *)
(* what a client sent with a point only the id is kept.  At the first that *)
(* exists the request is refused, and those before it stay in memory.      *)
New(ids) == {i \in DOMAIN ids : mem[ids[i]] = None /\ ids[i] \notin Range(SubSeq(ids, 1, i - 1))}

CreatePoints(ids) ==
  /\ Idle
  /\ Room(Len(ids))
  /\ LET put == {ids[i] : i \in {i \in DOMAIN ids : 1 .. i \subseteq New(ids)}}
     IN mem' = [id \in Ids |-> IF id \in put THEN Fresh(Blank) ELSE mem[id]]
  /\ batch' = IF New(ids) = DOMAIN ids THEN [left |-> ids, entries |-> <<>>] ELSE None
  /\ UNCHANGED <<disk, serving, saving, acked, unsettled, torn, skipped, faults>>

(* DiskIO::CreatePoints appends the record of the next point, in another   *)
(* data file than the last one, which is closed; the entry stays in the    *)
(* buffer of the index file.                                               *)
PutRecord ==
  /\ batch # None /\ batch.left # <<>>
  /\ LET id  == Head(batch.left)
         pos == Len(data["point"]) + 1
         space == Length(Blank)
     IN /\ data' = [data EXCEPT !["point"] =
                      Append(@, [id |-> id, live |-> TRUE, content |-> Blank, room |-> space])]
        /\ mem' = [mem EXCEPT ![id].slot = Len(idx["point"]) + Len(batch.entries) + 1,
                              ![id].pos = pos, ![id].space = space]
        /\ batch' = [left |-> Tail(batch.left),
                     entries |-> Append(batch.entries, [id |-> id, pos |-> pos, space |-> space])]
  /\ UNCHANGED <<idx, serving, saving, acked, unsettled, torn, skipped, faults>>

(* On return the index file is closed, which puts all entries on disk.     *)
CloseIndex ==
  /\ idx' = [idx EXCEPT !["point"] = @ \o batch.entries]
  /\ batch' = None

BatchIds == {batch.entries[i].id : i \in DOMAIN batch.entries}

EndBatch ==
  /\ batch # None /\ batch.left = <<>>
  /\ CloseIndex
  /\ acked' = [id \in Ids |-> IF id \in BatchIds THEN Blank ELSE acked[id]]
  /\ UNCHANGED <<data, serving, mem, saving, unsettled, torn, skipped, faults>>

(* The next data file, or before the first the index file, cannot be       *)
(* opened.  The batch is refused, and the points before stay, on disk too. *)
BatchFails ==
  /\ batch # None /\ batch.left # <<>> /\ Fault
  /\ CloseIndex
  /\ unsettled' = unsettled \union BatchIds
  /\ UNCHANGED <<data, serving, mem, saving, acked, torn, skipped>>

-----------------------------------------------------------------------------
(* Points::DelPoint and Lines::DelLine.  One byte is written, or none when *)
(* the object was never saved or the data file cannot be opened; success   *)
(* is reported in any case.                                                *)
MarkDeleted(id) ==
  /\ data' = [data EXCEPT ![Kind(id)][mem[id].pos].live = FALSE]
  /\ UNCHANGED <<unsettled, faults>>

NotMarked(id) ==
  /\ unsettled' = unsettled \union {id}
  /\ UNCHANGED data
  /\ Fault

Del(id) ==
  /\ Idle /\ mem[id] # None
  /\ mem'   = [mem   EXCEPT ![id] = None]
  /\ acked' = [acked EXCEPT ![id] = None]
  /\ IF Positioned(mem[id]) THEN MarkDeleted(id) \/ NotMarked(id)
                            ELSE UNCHANGED <<data, unsettled, faults>>
  /\ UNCHANGED <<idx, serving, saving, batch, torn, skipped>>

(* The process is killed.                                                  *)
Kill ==
  /\ serving /\ Fault
  /\ serving' = FALSE
  /\ mem' = [id \in Ids |-> None]
  /\ saving' = None
  /\ batch' = None
  /\ torn' = (torn \/ \E k \in Kinds : \E i \in DOMAIN idx[k] : idx[k][i].pos \notin DOMAIN data[k])
  /\ UNCHANGED <<disk, acked, unsettled, skipped>>

-----------------------------------------------------------------------------
(* ReadPointFile and ReadLineFile go through the index in order.  A record *)
(* of the right id must be where each entry says.                          *)
Readable(k) ==
  \A i \in DOMAIN idx[k] : idx[k][i].pos \in DOMAIN data[k]
                         /\ data[k][idx[k][i].pos].id = idx[k][i].id

RecordAt(k, i) == data[k][idx[k][i].pos]

(* Records of deleted objects are skipped, but what was decoded of them    *)
(* stays in the variable the next record is decoded into: an object gets   *)
(* the contents of its own entry i and of the skipped ones just before.    *)
DecodedWith(k, i) ==
  {j \in 1 .. i : \A d \in j .. i - 1 : ~RecordAt(k, d).live}

(* Stream2Point adds the in-edges of a record to the list of out-edges;    *)
(* both it and Stream2Line add fields to those the object has.             *)
DecodedEdges(c) == c.out \o c.in
DecodedFields(k, S) == UNION {RecordAt(k, j).content.fields : j \in S}

Decode(k, i) ==
  [out    |-> FlattenSeq([j \in 1 .. i |->
                IF j \in DecodedWith(k, i) THEN DecodedEdges(RecordAt(k, j).content)
                                           ELSE <<>>]),
   in     |-> <<>>,
   fields |-> DecodedFields(k, DecodedWith(k, i))]

(* The position of the index entry is not advanced over a skipped record.  *)
CountedSlot(k, i) == 1 + Cardinality({j \in 1 .. i - 1 : RecordAt(k, j).live})

ReadEntry(k, i) ==
  [slot |-> CountedSlot(k, i), pos |-> idx[k][i].pos,
   space |-> idx[k][i].space, content |-> Decode(k, i)]

(* A later entry of an id replaces an earlier one in the map.              *)
LiveEntries(id) ==
  LET k == Kind(id)
  IN {i \in DOMAIN idx[k] : idx[k][i].id = id /\ RecordAt(k, i).live}

Latest(S) == CHOOSE i \in S : \A j \in S : j <= i

Loaded(id) ==
  IF LiveEntries(id) = {} THEN None ELSE ReadEntry(Kind(id), Latest(LiveEntries(id)))

Dead(k) == {i \in DOMAIN idx[k] : ~RecordAt(k, i).live}

(* GridStore::Init reads both indexes; a damaged one ends the process.     *)
Load ==
  /\ ~serving
  /\ \A k \in Kinds : Readable(k)
  /\ serving' = TRUE
  /\ mem' = [id \in Ids |-> Loaded(id)]
  /\ skipped' = (skipped \/ \E k \in Kinds : Dead(k) # {})
  /\ UNCHANGED <<disk, saving, batch, acked, unsettled, torn, faults>>

StoreNext ==
  \/ \E id \in PointIds, fields \in SUBSET Fields : SetPoint(id, fields)
  \/ \E id \in PointIds, edge \in Edges, isOut \in BOOLEAN :
       AddLineForPoint(id, edge, isOut) \/ DelLineForPoint(id, edge, isOut)
  \/ \E id \in LineIds, fields \in SUBSET Fields : CreateLine(id, fields)
  \/ \E ids \in UNION {[1 .. n -> PointIds] : n \in 1 .. 2} : CreatePoints(ids)
  \/ PutRecord \/ EndBatch \/ BatchFails
  \/ SaveIndex \/ SaveData \/ OpenDataFails \/ OpenIndexFails
  \/ \E id \in Ids : Del(id)
  \/ Kill \/ Load

StoreSpec == StoreInit /\ [][StoreNext]_storeVars

-----------------------------------------------------------------------------
StoreTypeOK ==
  /\ idx  \in [Kinds -> Seq(Entries)]
  /\ data \in [Kinds -> Seq(Records)]
  /\ serving \in BOOLEAN
  /\ mem \in [Ids -> Objects \union {None}]
  /\ saving \in Requests \union {None}
  /\ batch \in Batches \union {None}
  /\ acked \in [Ids -> Contents \union {None}]
  /\ unsettled \subseteq Ids
  /\ torn \in BOOLEAN
  /\ skipped \in BOOLEAN
  /\ faults \in 0 .. MaxFaults

(* Every index entry leads to a record of its own object that is at least  *)
(* as long as the entry says, except the one entry of a save that has not  *)
(* reached the data file.  So a start never finds a record of another id.  *)
EntriesLeadHome ==
  \A k \in Kinds : \A i \in DOMAIN idx[k] :
    IF idx[k][i].pos \in DOMAIN data[k]
    THEN RecordAt(k, i).id = idx[k][i].id /\ idx[k][i].space <= RecordAt(k, i).room
    ELSE torn \/ (saving # None /\ saving.id = idx[k][i].id /\ saving.step = "data")

(* What is written in place stays inside the room of the object's own      *)
(* record: no save and no deletion touches the record of another object,   *)
(* even after the memory was loaded with wrong index positions.            *)
OwnRecordOnly ==
  \A id \in Ids : mem[id] # None /\ mem[id].pos \in DOMAIN data[Kind(id)] =>
    LET record == data[Kind(id)][mem[id].pos]
    IN record.id = id /\ mem[id].space <= record.room

(* Index and memory alike say of each object where its own record is.       *)
RecordsLeadHome == EntriesLeadHome /\ OwnRecordOnly

(* What a start would read for id stands for content c: in-edges have       *)
(* become out-edges, and what deleted objects left may come before them.    *)
Holds(id, c) ==
  /\ Readable(Kind(id))
  /\ LET object == Loaded(id)
     IN IF c = None THEN object = None
        ELSE /\ object # None
             /\ IsSuffix(DecodedEdges(c), object.content.out)
             /\ c.fields \subseteq object.content.fields
             /\ Dead(Kind(id)) = {} => /\ object.content.out = DecodedEdges(c)
                                      /\ object.content.fields = c.fields

(* Whenever the process is killed, the files hold what the requests that   *)
(* succeeded have made: no object is lost, none comes back, and a request  *)
(* in progress has happened or has not.  This is up to the known holes:    *)
(* a kill between the two writes of a save, deletions that did not reach   *)
(* the disk and lines created twice, and starts that skip deleted objects. *)
Durable ==
  ~torn /\ ~skipped /\ (saving # None => saving.step = "index" \/ ~Moves(Saved)) =>
    \A id \in Ids \ unsettled :
      \/ Holds(id, acked[id])
      \/ saving # None /\ saving.id = id /\ Holds(id, Saved.content)

=============================================================================
