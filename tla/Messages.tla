------------------------------ MODULE Messages ------------------------------
(***************************************************************************)
(* The messages between the clients and the servers (src/cpp/protocl/cpp): *)
(* what Build writes into the stream and what Parse makes of it.           *)
(*                                                                         *)
(* A message is [id, result, code, p]: what the sender means, p its        *)
(* parameters.  On the wire it is [id, result, code, body], the body a     *)
(* sequence of units <<bytes, value>> in the order in which AddData wrote  *)
(* them.  The stream has Space bytes: AddData writes a unit whole or not   *)
(* at all and Build returns at the first that does not fit, so that what   *)
(* is left to be sent is a prefix of the units.  The bytes of a number are *)
(* those of module ByteOrder.                                              *)
(***************************************************************************)
EXTENDS ByteOrder, FiniteSets

CONSTANTS
  Space,          \* MAX_MSG_SIZE: 10240 bytes
  MaxIds,         \* ids of one MsgMove: 1000
  MaxFields,      \* Grid::Limit::maxFieldCount: 64
  MaxNameSize,    \* Grid::Limit::maxFieldNameSize: 32
  MaxFieldSize,   \* Grid::Limit::maxFieldSize: 256
  MaxFilter,      \* Grid::Limit::maxFilter: 16
  MaxMoves,       \* Grid::Limit::maxMoveCount: 10
  Garbled         \* what Parse returns when it fails

ASSUME MessagesAssumption ==
  {Space, MaxIds, MaxFields, MaxNameSize, MaxFieldSize, MaxFilter, MaxMoves} \subseteq Nat \ {0}

-----------------------------------------------------------------------------
(* Streams.                                                                *)
Char(v)  == <<1, v>>
Short(v) == <<2, ((v + 32768) % 65536) - 32768>>
Int32(v)   == <<4, v>>
Int64(v) == <<8, v>>
Text(s)  == <<Len(s) + 5, s>>          \* its length, its characters, a 0
Unfit    == <<Space + 1, "unfit">>     \* where Build gives up for another reason

Width(units) == FoldLeft(LAMBDA n, u : n + u[1], 0, units)

\* The length, the module, the id and whether it is a reply come first, then
\* the connection, the object, the ip, the result code and, of an error, why.
HeaderSize == 8
TransmitSize(code) == IF code = "success" THEN 17 ELSE 17 + Text("why")[1]
Room(code) == Space - HeaderSize - TransmitSize(code)
Bytes(w) == HeaderSize + TransmitSize(w.code) + Width(w.body)

Fits(code, units) == Width(units) <= Room(code)

AddAll(code, units) ==
  SubSeq(units, 1, CHOOSE n \in 0 .. Len(units) :
                     /\ Fits(code, SubSeq(units, 1, n))
                     /\ n < Len(units) => ~ Fits(code, SubSeq(units, 1, n + 1)))

\* GetData reads a value that is there whole.
Has(b, widths) == /\ Len(b) >= Len(widths)
                  /\ \A i \in 1 .. Len(widths) : b[i][1] = widths[i]
Rest(b, n) == SubSeq(b, n + 1, Len(b))


-----------------------------------------------------------------------------
(* Fields, points and lines (Serialize.cpp).  A field is                   *)
(* [name, type, value, text]; text counts if its type is "str".            *)
AddField(f) ==
  IF /\ Len(f.name) \in 1 .. MaxNameSize
     /\ f.type = "str" => Len(f.text) \in 1 .. MaxFieldSize
  THEN <<4 + Len(f.name) + 1 + 8 + (IF f.type = "str" THEN Len(f.text) + 5 ELSE 0), f>>
  ELSE Unfit

AddFields(data, selectAll, names) ==
  LET chosen == SelectSeq(data, LAMBDA f : selectAll \/ f.name \in names)
      count  == Len(chosen) % 256
  IN IF count > MaxFields THEN <<Unfit>>
     ELSE <<Char(count)>> \o (IF count = 0 THEN <<>> ELSE [i \in DOMAIN chosen |-> AddField(chosen[i])])

AddPoint(p, selectAll, names) == <<Int64(p.id)>> \o AddFields(p.data, selectAll, names)

AddLine(l) == <<Int64(l.id), Int64(l.startId), Int64(l.endId)>> \o AddFields(l.data, TRUE, {})

\* What is read is [v, rest], or Garbled.
GetFields(b) ==
  IF Has(b, <<1>>) /\ b[1][2] <= MaxFields /\ b[1][2] < Len(b)
  THEN [v |-> [i \in 1 .. b[1][2] |-> b[i + 1][2]], rest |-> Rest(b, b[1][2] + 1)]
  ELSE Garbled

GetPoint(b) ==
  LET data == GetFields(Rest(b, 1))
  IN IF Has(b, <<8>>) /\ b[1][2] > 0 /\ data # Garbled
     THEN [v |-> [id |-> b[1][2], data |-> data.v], rest |-> data.rest]
     ELSE Garbled

GetLine(b) ==
  LET data == GetFields(Rest(b, 3))
  IN IF Has(b, <<8, 8, 8>>) /\ data # Garbled
     THEN [v |-> [id |-> b[1][2], startId |-> b[2][2], endId |-> b[3][2], data |-> data.v],
           rest |-> data.rest]
     ELSE Garbled

\* Things one after the other, each as Get reads it: n of them, or all there are.
GetNext(read, Get(_)) ==
  IF read = Garbled THEN Garbled
  ELSE LET x == Get(read.rest)
       IN IF x = Garbled THEN Garbled ELSE [v |-> Append(read.v, x.v), rest |-> x.rest]

GetList(b, n, Get(_)) ==
  FoldLeft(LAMBDA read, i : GetNext(read, Get), [v |-> <<>>, rest |-> b], [i \in 1 .. n |-> i])

GetAll(b, Get(_)) ==
  FoldLeft(LAMBDA read, u : IF read = Garbled THEN Garbled
                            ELSE IF read.rest = <<>> THEN read ELSE GetNext(read, Get),
           [v |-> <<>>, rest |-> b], b)

\* A list goes into as many messages as it takes, each with as many whole
\* elements as fit behind its first units.  (Build would fill message after
\* message with nothing for an element that fits in none; the model has none.)
Parcels(list, Add(_), first) ==
  LET units(part) == first \o FlattenSeq([i \in DOMAIN part |-> Add(part[i])])
      last(parcels) == parcels[Len(parcels)]
  IN FoldLeft(LAMBDA parcels, e :
                IF parcels = <<>> THEN <<<<e>>>>
                ELSE IF Fits("success", units(Append(last(parcels), e)))
                THEN [parcels EXCEPT ![Len(parcels)] = Append(@, e)]
                ELSE Append(parcels, <<e>>),
              <<>>, list)

-----------------------------------------------------------------------------
(* Build: the units of a message behind its header.                        *)
BuildNewId(m) ==
  IF ~ m.result THEN <<Int32(m.p.count)>>
  ELSE IF m.code # "success" THEN <<>> ELSE <<Int32(m.p.count), Int64(m.p.newId)>>

BuildSetPoint(m) == IF m.result THEN <<>> ELSE AddPoint(m.p.point, TRUE, {})

BuildAddLineForPoint(m) ==
  IF m.result THEN <<>> ELSE <<Int64(m.p.pointId), Int64(m.p.lineId), Char(m.p.isOut)>>
BuildDelLineForPoint(m) ==
  IF m.result THEN <<>> ELSE <<Int64(m.p.pointId), Int64(m.p.lineId), Char(m.p.isOut)>>

BuildGetPoint(m) ==
  IF ~ m.result THEN <<Int64(m.p.pointId)>>
  ELSE IF m.code # "success" THEN <<>> ELSE AddPoint(m.p.point, TRUE, {})

BuildAddLine(m) == IF m.result THEN <<>> ELSE AddLine(m.p.line)

\* Mutant: the ends of the line the wrong way round.
BuildDelLineSwapped(m) ==
  IF ~ m.result THEN <<Int64(m.p.lineId)>>
  ELSE IF m.code # "success" THEN <<>> ELSE <<Int64(m.p.endId), Int64(m.p.startId)>>

BuildDelLine(m) ==
  IF ~ m.result THEN <<Int64(m.p.lineId)>>
  ELSE IF m.code # "success" THEN <<>> ELSE <<Int64(m.p.startId), Int64(m.p.endId)>>

BuildGetLine(m) ==
  IF ~ m.result THEN <<Int64(m.p.lineId)>>
  ELSE IF m.code # "success" THEN <<>> ELSE AddLine(m.p.line)

BuildDelPoint(m) == IF m.result THEN <<>> ELSE <<Int64(m.p.pointId)>>

AddFilter(f) == <<Char(f.cmp), AddField(f.field)>>
AddFilters(fs) ==
  IF Len(fs) % 256 > MaxFilter THEN <<Unfit>>
  ELSE <<Char(Len(fs) % 256)>> \o FlattenSeq([i \in DOMAIN fs |-> AddFilter(fs[i])])

\* A route that moves along all lines carries no filters, but Build gives up
\* unless it has one.
AddRoute(r) ==
  IF r.fields = <<>> THEN <<Char(r.moveOut), Unfit>>
  ELSE <<Char(r.moveOut), Char(r.moveAll)>> \o (IF r.moveAll THEN <<>> ELSE AddFilters(r.fields))

BuildSetMoveOpt(m) ==
  IF m.result \/ Len(m.p.routes) % 256 > MaxMoves THEN <<Unfit>>
  ELSE <<Char(Len(m.p.routes) % 256)>>
         \o FlattenSeq([i \in DOMAIN m.p.routes |-> AddRoute(m.p.routes[i])])
         \o AddFilters(m.p.filter)
         \o <<Char(m.p.selectAll), Char(Len(m.p.getFields) % 256)>>
         \o [i \in DOMAIN m.p.getFields |-> Text(m.p.getFields[i])]
         \o <<Char(m.p.act)>>

BuildMove(m) ==
  IF m.result THEN <<>>
  ELSE IF m.p.ids = <<>> THEN <<Int64(m.p.searchId), Unfit>>
  ELSE <<Int64(m.p.searchId), Char(m.p.moveStart), Short(Len(m.p.ids))>>
         \o [i \in DOMAIN m.p.ids |-> Int64(m.p.ids[i])]
         \o (IF m.p.moveStart THEN <<Char(m.p.fromPoint), Char(m.p.filterStart)>> ELSE <<>>)

BuildPoints(m) ==
  FlattenSeq([i \in DOMAIN m.p.points |-> AddPoint(m.p.points[i], m.p.selectAll, m.p.names)])

BuildMoveMids(m) ==
  <<Char(m.p.lineIndex), Char(m.p.isLine)>> \o [i \in DOMAIN m.p.ids |-> Int64(m.p.ids[i])]

BuildSetPoints(m) ==
  IF m.result THEN <<>>
  ELSE <<Char(m.p.isEnd), Char(m.p.isCreate)>>
         \o FlattenSeq([i \in DOMAIN m.p.points |-> AddPoint(m.p.points[i], TRUE, {})])

AddNode(n) == <<Int32(n.nodeId), Text(n.ip), Int32(n.port)>>
AddNetwork(g) ==
  <<Char(g.line), IF g.nodes = <<>> THEN Unfit ELSE Char(Len(g.nodes) % 256)>>
    \o FlattenSeq([i \in DOMAIN g.nodes |-> AddNode(g.nodes[i])])

BuildGetCluster(m) ==
  <<Int32(m.p.serviceType), Int32(m.p.start)>>
    \o (IF ~ m.result \/ m.code # "success" THEN <<>>
        ELSE IF Len(m.p.cluster) > 4 THEN <<Unfit>>
        ELSE <<Char(Len(m.p.cluster))>>
               \o FlattenSeq([i \in DOMAIN m.p.cluster |-> AddNetwork(m.p.cluster[i])]))

BuildGetClientId(m) ==
  IF m.result /\ m.code = "success" THEN <<Int64(m.p.clientId)>> ELSE <<>>

Units(m) ==
  CASE m.id = "newId" -> BuildNewId(m)
    [] m.id = "setPoint" -> BuildSetPoint(m)
    [] m.id = "addLineForPoint" -> BuildAddLineForPoint(m)
    [] m.id = "delLineForPoint" -> BuildDelLineForPoint(m)
    [] m.id = "getPoint" -> BuildGetPoint(m)
    [] m.id = "addLine" -> BuildAddLine(m)
    [] m.id = "delLine" -> BuildDelLine(m)
    [] m.id = "getLine" -> BuildGetLine(m)
    [] m.id = "delPoint" -> BuildDelPoint(m)
    [] m.id = "setMoveOpt" -> BuildSetMoveOpt(m)
    [] m.id = "move" -> BuildMove(m)
    [] m.id = "points" -> BuildPoints(m)
    [] m.id = "moveMids" -> BuildMoveMids(m)
    [] m.id = "setPoints" -> BuildSetPoints(m)
    [] m.id = "getCluster" -> BuildGetCluster(m)
    [] m.id = "getClientId" -> BuildGetClientId(m)

Build(m) == Fits(m.code, Units(m))
Wire(m) == [id |-> m.id, result |-> m.result, code |-> m.code, body |-> AddAll(m.code, Units(m))]

-----------------------------------------------------------------------------
(* Parse: the parameters, or Garbled.  What follows them is not read.      *)
ParseNewId(w) ==
  LET b == w.body
  IN IF ~ w.result THEN IF Has(b, <<4>>) THEN [count |-> b[1][2]] ELSE Garbled
     ELSE IF w.code # "success" THEN <<>>
     ELSE IF Has(b, <<4, 8>>) THEN [count |-> b[1][2], newId |-> b[2][2]] ELSE Garbled

ParseSetPoint(w) ==
  LET p == GetPoint(w.body)
  IN IF w.result THEN <<>> ELSE IF p = Garbled THEN Garbled ELSE [point |-> p.v]

ParseAddLineForPoint(w) ==
  LET b == w.body
  IN IF w.result THEN <<>>
     ELSE IF Has(b, <<8, 8, 1>>) THEN [pointId |-> b[1][2], lineId |-> b[2][2], isOut |-> b[3][2]]
     ELSE Garbled
ParseDelLineForPoint(w) ==
  LET b == w.body
  IN IF w.result THEN <<>>
     ELSE IF Has(b, <<8, 8, 1>>) THEN [pointId |-> b[1][2], lineId |-> b[2][2], isOut |-> b[3][2]]
     ELSE Garbled

ParseGetPoint(w) ==
  LET p == GetPoint(w.body)
  IN IF ~ w.result THEN IF Has(w.body, <<8>>) THEN [pointId |-> w.body[1][2]] ELSE Garbled
     ELSE IF w.code # "success" THEN <<>>
     ELSE IF p = Garbled THEN Garbled ELSE [point |-> p.v]

ParseAddLine(w) ==
  LET l == GetLine(w.body)
  IN IF w.result THEN <<>> ELSE IF l = Garbled THEN Garbled ELSE [line |-> l.v]

ParseDelLine(w) ==
  LET b == w.body
  IN IF ~ w.result THEN IF Has(b, <<8>>) THEN [lineId |-> b[1][2]] ELSE Garbled
     ELSE IF w.code # "success" THEN <<>>
     ELSE IF Has(b, <<8, 8>>) THEN [startId |-> b[1][2], endId |-> b[2][2]] ELSE Garbled

ParseGetLine(w) ==
  LET l == GetLine(w.body)
  IN IF ~ w.result THEN IF Has(w.body, <<8>>) THEN [lineId |-> w.body[1][2]] ELSE Garbled
     ELSE IF w.code # "success" THEN <<>>
     ELSE IF l = Garbled THEN Garbled ELSE [line |-> l.v]

ParseDelPoint(w) ==
  IF w.result THEN <<>>
  ELSE IF Has(w.body, <<8>>) THEN [pointId |-> w.body[1][2]] ELSE Garbled

GetFilter(b) ==
  IF Has(b, <<1>>) /\ Len(b) >= 2
  THEN [v |-> [cmp |-> b[1][2], field |-> b[2][2]], rest |-> Rest(b, 2)] ELSE Garbled
GetFilters(b) ==
  IF Has(b, <<1>>) /\ b[1][2] <= MaxFilter THEN GetList(Rest(b, 1), b[1][2], GetFilter) ELSE Garbled

GetRoute(b) ==
  LET filters == GetFilters(Rest(b, 2))
      route(fs) == [moveOut |-> b[1][2], moveAll |-> b[2][2], fields |-> fs]
  IN IF ~ Has(b, <<1, 1>>) THEN Garbled
     ELSE IF b[2][2] THEN [v |-> route(<<>>), rest |-> Rest(b, 2)]
     ELSE IF filters = Garbled THEN Garbled ELSE [v |-> route(filters.v), rest |-> filters.rest]

GetName(b) ==
  IF b # <<>> /\ b[1] = Text(b[1][2]) /\ Len(b[1][2]) <= MaxNameSize
  THEN [v |-> b[1][2], rest |-> Rest(b, 1)] ELSE Garbled

ParseSetMoveOpt(w) ==
  LET b == w.body
      routes == GetList(Rest(b, 1), b[1][2], GetRoute)
      filter == GetFilters(routes.rest)
      r == filter.rest
      names == GetList(Rest(r, 2), r[2][2], GetName)
  IN IF w.result \/ ~ Has(b, <<1>>) THEN Garbled
     ELSE IF b[1][2] > MaxMoves THEN Garbled
     ELSE IF routes = Garbled THEN Garbled
     ELSE IF filter = Garbled THEN Garbled
     ELSE IF ~ Has(r, <<1, 1>>) THEN Garbled
     ELSE IF r[2][2] > MaxFields \/ names = Garbled THEN Garbled
     ELSE IF ~ Has(names.rest, <<1>>) THEN Garbled
     ELSE [routes |-> routes.v, filter |-> filter.v, selectAll |-> r[1][2],
           getFields |-> names.v, act |-> names.rest[1][2]]

GetId(b) == IF Has(b, <<8>>) THEN [v |-> b[1][2], rest |-> Rest(b, 1)] ELSE Garbled

ParseMove(w) ==
  LET b == w.body
      ids == GetList(Rest(b, 3), b[3][2], GetId)
      search == [searchId |-> b[1][2], moveStart |-> b[2][2], ids |-> ids.v]
  IN IF w.result THEN <<>>
     ELSE IF ~ Has(b, <<8, 1, 2>>) THEN Garbled
     ELSE IF b[3][2] \notin 1 .. MaxIds THEN Garbled
     ELSE IF ids = Garbled THEN Garbled
     ELSE IF ~ b[2][2] THEN search
     ELSE IF ~ Has(ids.rest, <<1, 1>>) THEN Garbled
     ELSE search @@ [fromPoint |-> ids.rest[1][2], filterStart |-> ids.rest[2][2]]

ParsePoints(w) ==
  LET points == GetAll(w.body, GetPoint)
  IN IF ~ w.result \/ w.body = <<>> THEN Garbled
     ELSE IF points = Garbled THEN Garbled ELSE [points |-> points.v]

ParseMoveMids(w) ==
  LET b == w.body
      ids == GetAll(Rest(b, 2), GetId)
  IN IF ~ w.result \/ ~ Has(b, <<1, 1, 8>>) THEN Garbled
     ELSE IF ids = Garbled THEN Garbled
     ELSE [lineIndex |-> b[1][2], isLine |-> b[2][2], ids |-> ids.v]

ParseSetPoints(w) ==
  LET b == w.body
      points == GetAll(Rest(b, 2), GetPoint)
      list(ps) == [isEnd |-> b[1][2], isCreate |-> b[2][2], points |-> ps]
  IN IF w.result THEN <<>>
     ELSE IF ~ Has(b, <<1, 1>>) THEN Garbled
     ELSE IF b[1][2] THEN list(<<>>)
     ELSE IF points = Garbled THEN Garbled ELSE list(points.v)

GetNode(b) ==
  IF Len(b) >= 3 /\ b[1][1] = 4 /\ b[2] = Text(b[2][2]) /\ b[3][1] = 4
  THEN [v |-> [nodeId |-> b[1][2], ip |-> b[2][2], port |-> b[3][2]], rest |-> Rest(b, 3)]
  ELSE Garbled
GetNetwork(b) ==
  LET nodes == GetList(Rest(b, 2), b[2][2], GetNode)
  IN IF ~ Has(b, <<1, 1>>) THEN Garbled
     ELSE IF b[2][2] = 0 \/ nodes = Garbled THEN Garbled
     ELSE [v |-> [line |-> b[1][2], nodes |-> nodes.v], rest |-> nodes.rest]

ParseGetCluster(w) ==
  LET b == w.body
      asked == [serviceType |-> b[1][2], start |-> b[2][2]]
      cluster == GetList(Rest(b, 3), b[3][2], GetNetwork)
  IN IF ~ Has(b, <<4, 4>>) THEN Garbled
     ELSE IF ~ w.result \/ w.code # "success" THEN asked
     ELSE IF ~ Has(b, <<4, 4, 1>>) THEN Garbled
     ELSE IF b[3][2] > 4 \/ cluster = Garbled THEN Garbled
     ELSE asked @@ [cluster |-> cluster.v]

ParseGetClientId(w) ==
  IF ~ w.result \/ w.code # "success" THEN <<>>
  ELSE IF Has(w.body, <<8>>) THEN [clientId |-> w.body[1][2]] ELSE Garbled

Parse(w) ==
  CASE w.id = "newId" -> ParseNewId(w)
    [] w.id = "setPoint" -> ParseSetPoint(w)
    [] w.id = "addLineForPoint" -> ParseAddLineForPoint(w)
    [] w.id = "delLineForPoint" -> ParseDelLineForPoint(w)
    [] w.id = "getPoint" -> ParseGetPoint(w)
    [] w.id = "addLine" -> ParseAddLine(w)
    [] w.id = "delLine" -> ParseDelLine(w)
    [] w.id = "getLine" -> ParseGetLine(w)
    [] w.id = "delPoint" -> ParseDelPoint(w)
    [] w.id = "setMoveOpt" -> ParseSetMoveOpt(w)
    [] w.id = "move" -> ParseMove(w)
    [] w.id = "points" -> ParsePoints(w)
    [] w.id = "moveMids" -> ParseMoveMids(w)
    [] w.id = "setPoints" -> ParseSetPoints(w)
    [] w.id = "getCluster" -> ParseGetCluster(w)
    [] w.id = "getClientId" -> ParseGetClientId(w)

Reads(w) == Parse(w) # Garbled
=============================================================================
