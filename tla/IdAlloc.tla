------------------------------ MODULE IdAlloc ------------------------------
(***************************************************************************)
(* Allocation of object ids (GridStore::GetSuperId, GridStore::CreateId).  *)
(*                                                                         *)
(* An id is 10 bits of node number, 16 bits of super id and 20 bits of     *)
(* index.  m_superId holds the first two parts, "the segment"; a static    *)
(* variable holds the next index of the segment.  The file node<n>/superId *)
(* holds the first super id no process of the node has taken.  A segment   *)
(* is taken when the process starts and each time the index runs out, and  *)
(* what is left of it is lost when the process dies.                       *)
(***************************************************************************)
EXTENDS Naturals, Sequences

CONSTANTS
  Nodes,       \* node numbers
  SuperSpan,   \* super ids of a node         (65536 in the code)
  IndexSpan,   \* indexes of a segment        (1048576 in the code)
  MaxCount,    \* Grid::Limit::maxObjectCount (1000000 in the code)
  MaxGrants,   \* bound of the model: number of successful requests
  Sdks,        \* the client libraries in use, a subset of {"java", "cpp"}
  Missing,     \* content of a superId file that does not exist
  Unreadable   \* content of a superId file that was truncated and not written

ASSUME IdAssumption ==
  /\ Nodes \subseteq Nat
  /\ SuperSpan \in Nat \ {0}
  /\ IndexSpan \in Nat \ {0}
  /\ MaxCount \in 1 .. IndexSpan
  /\ MaxGrants \in Nat
  /\ Sdks \subseteq {"java", "cpp"}
  /\ Missing \notin Nat /\ Unreadable \notin Nat /\ Missing # Unreadable

VARIABLES
  file,     \* file[n]: content of the file node<n>/superId
  up,       \* up[n]: the process of node n serves requests
  superId,  \* superId[n]: GridStore::m_superId
  index,    \* index[n]: the static variable of CreateId
  failed,   \* failed[n]: a CreateId of node n has failed (history)
  grants    \* the id ranges clients believe to own, in order (history)

vars == <<file, up, superId, index, failed, grants>>

-----------------------------------------------------------------------------
(* A segment number is nodeId << 16 plus the super id; an id is the        *)
(* segment number << 20 plus an index.                                     *)
Segment(n, super) == n * SuperSpan + super
FirstId(segment)  == segment * IndexSpan

Init ==
  /\ file    = [n \in Nodes |-> Missing]
  /\ up      = [n \in Nodes |-> FALSE]
  /\ superId = [n \in Nodes |-> 0]
  /\ index   = [n \in Nodes |-> 0]
  /\ failed  = [n \in Nodes |-> FALSE]
  /\ grants  = <<>>

(***************************************************************************)
(* What GetSuperId may return: its verdict, the file it leaves and the     *)
(* m_superId it leaves.  The parameter superId is a reference to           *)
(* m_superId, so m_superId is overwritten before the checks that follow.   *)
(*  - the file cannot be opened or read: nothing changes;                  *)
(*  - no super id is left: m_superId is the bare file content, 65536;      *)
(*  - the file cannot be opened for writing: it keeps its content, but     *)
(*    m_superId is already the new segment;                                *)
(*  - the write fails after the truncation of fopen("w");                  *)
(*  - success, or success with the data lost by fclose, whose result is    *)
(*    not looked at.                                                       *)
(***************************************************************************)
NextSuperNotAdvanced(super) == super   \* mutant: the file keeps the super id taken
NextSuper(super) == super + 1

Unread(n) == [ok |-> FALSE, file |-> file[n], super |-> superId[n]]

NextFree(n) == IF file[n] = Missing THEN 0 ELSE file[n]

Exhausted(n) == [ok |-> FALSE, file |-> file[n], super |-> NextFree(n)]

Taken(n) ==
  [ok : {FALSE}, file : {file[n], Unreadable},
   super : {Segment(n, NextFree(n))}]
  \union
  [ok : {TRUE}, file : {NextSuper(NextFree(n)), Unreadable},
   super : {Segment(n, NextFree(n))}]

GetSuperId(n) ==
  IF file[n] = Unreadable THEN {Unread(n)}
  ELSE IF NextFree(n) >= SuperSpan THEN {Unread(n), Exhausted(n)}
  ELSE {Unread(n)} \union Taken(n)

-----------------------------------------------------------------------------
(* GridStore::Init takes a segment before the node serves anything; the    *)
(* process ends when that fails.  The static index starts at 0.            *)
Start(n) ==
  /\ ~up[n]
  /\ \E r \in GetSuperId(n) :
       /\ file'    = [file    EXCEPT ![n] = r.file]
       /\ superId' = [superId EXCEPT ![n] = r.super]
       /\ up'      = [up      EXCEPT ![n] = r.ok]
  /\ index' = [index EXCEPT ![n] = 0]
  /\ UNCHANGED <<failed, grants>>

(* How many ids a request carries: MsgNewId.m_count.  GMap::NewIds of the  *)
(* C++ SDK always asks for one, whatever the count its caller wants.       *)
Asked(sdk, count) == IF sdk = "cpp" THEN 1 ELSE count

Grant(n, first, count) ==
  grants' = Append(grants, [node |-> n, first |-> first, count |-> count])

(* A request the current segment can serve.                                *)
CreateIdInSegment(n, sdk, count) ==
  /\ up[n]
  /\ Len(grants) < MaxGrants
  /\ index[n] + Asked(sdk, count) <= IndexSpan
  /\ index' = [index EXCEPT ![n] = @ + Asked(sdk, count)]
  /\ Grant(n, FirstId(superId[n]) + index[n], count)
  /\ UNCHANGED <<file, up, superId, failed>>

(* The index after a request that took all of a segment and some ids of    *)
(* the next.                                                               *)
Carried(i, asked) == i + asked - IndexSpan

(* A request that needs the next segment: the index is used up, or runs    *)
(* out in the middle of the range, which then continues in the segment     *)
(* that follows.  The index is reset before GetSuperId is called and stays *)
(* so when the call fails and the request is refused.                      *)
CreateIdRefill(n, sdk, count) ==
  /\ up[n]
  /\ Len(grants) < MaxGrants
  /\ index[n] + Asked(sdk, count) > IndexSpan
  /\ \E r \in GetSuperId(n) :
       /\ file'    = [file    EXCEPT ![n] = r.file]
       /\ superId' = [superId EXCEPT ![n] = r.super]
       /\ failed'  = [failed  EXCEPT ![n] = @ \/ ~r.ok]
       /\ IF r.ok
          THEN /\ index' = [index EXCEPT ![n] = Carried(@, Asked(sdk, count))]
               /\ Grant(n, IF index[n] = IndexSpan
                           THEN FirstId(r.super)
                           ELSE FirstId(superId[n]) + index[n], count)
          ELSE /\ index' = [index EXCEPT ![n] = 0]
               /\ UNCHANGED grants
  /\ UNCHANGED up

(* The process dies.  A request may be in the middle of GetSuperId then,   *)
(* and leaves the file in any of the states that function passes through.  *)
Crash(n) ==
  /\ up[n]
  /\ up' = [up EXCEPT ![n] = FALSE]
  /\ \/ UNCHANGED file
     \/ /\ index[n] + MaxCount > IndexSpan
        /\ \E r \in GetSuperId(n) : file' = [file EXCEPT ![n] = r.file]
  /\ UNCHANGED <<superId, index, failed, grants>>

Next ==
  \E n \in Nodes :
    \/ Start(n)
    \/ Crash(n)
    \/ \E sdk \in Sdks, count \in 1 .. MaxCount :
         \/ CreateIdInSegment(n, sdk, count)
         \/ CreateIdRefill(n, sdk, count)

Spec == Init /\ [][Next]_vars

-----------------------------------------------------------------------------
IdRange == [node : Nodes, first : Nat, count : 1 .. MaxCount]

TypeOK ==
  /\ file    \in [Nodes -> Nat \union {Missing, Unreadable}]
  /\ up      \in [Nodes -> BOOLEAN]
  /\ superId \in [Nodes -> Nat]
  /\ index   \in [Nodes -> 0 .. IndexSpan]
  /\ failed  \in [Nodes -> BOOLEAN]
  /\ grants  \in Seq(IdRange)

Disjoint(g, h) ==
  g.first + g.count <= h.first \/ h.first + h.count <= g.first

(* Until a node refuses a request, no id it gives out is ever given out    *)
(* again, by it or by another such node: not when ranges cross segments,   *)
(* not over restarts, not when the process dies in the middle of           *)
(* GetSuperId or the file write is lost.                                   *)
UniqueIds ==
  \A i, j \in DOMAIN grants :
    i # j /\ ~failed[grants[i].node] /\ ~failed[grants[j].node]
      => Disjoint(grants[i], grants[j])

(***************************************************************************)
(* Why ids are unique, as an inductive invariant.  Every node has a        *)
(* frontier: the lowest id it may still give out.  For a live node that is *)
(* the next index of its segment, for a dead one the first id of the       *)
(* segment its file names; a truncated file leaves nothing to give out.    *)
(***************************************************************************)
FileFrontier(n, content) ==
  FirstId(CASE content = Missing    -> Segment(n, 0)
            [] content = Unreadable -> Segment(n + 1, 0)
            [] OTHER                -> Segment(n, content))

Frontier(n) ==
  IF up[n] THEN FirstId(superId[n]) + index[n] ELSE FileFrontier(n, file[n])

FileOK == \A n \in Nodes : file[n] \in Nat => file[n] <= SuperSpan

(* The segment in use is one of the node's own and the one before the file *)
(* names the next.                                                         *)
SegmentInUse(n) ==
  /\ Segment(n, 0) <= superId[n]
  /\ superId[n] + 1 <= Segment(n + 1, 0)
  /\ file[n] # Missing
  /\ file[n] \in Nat => superId[n] + 1 = Segment(n, file[n])

SegmentOK == \A n \in Nodes : up[n] /\ ~failed[n] => SegmentInUse(n)

BelowFrontier ==
  \A i \in DOMAIN grants : ~failed[grants[i].node] =>
    /\ FirstId(Segment(grants[i].node, 0)) <= grants[i].first
    /\ grants[i].first + grants[i].count <= Frontier(grants[i].node)

(* Everything a node has given out lies between the first id of its first  *)
(* segment and its frontier, and its file never names a segment that was   *)
(* already taken.                                                          *)
FrontierInv == FileOK /\ SegmentOK /\ BelowFrontier

=============================================================================
