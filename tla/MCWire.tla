------------------------------- MODULE MCWire -------------------------------
(* Wire with two nodes and the registry, messages of 64 bytes, and plans    *)
(* of one or two tasks that use every message.                              *)
EXTENDS Wire

F(n) == [name |-> "f", type |-> "int32", value |-> n, text |-> ""]
T    == [name |-> "t", type |-> "str", value |-> 0, text |-> "xy"]
Point(i, data) == [id |-> i, data |-> data]

MCPointOf(i) == Point(i, <<F(i), T>>)
MCLineOf(i)  == [id |-> i, startId |-> 1, endId |-> 2, data |-> <<F(i)>>]
\* Three points from every id, more than one message takes with a field each.
MCReached(ids) == FlattenSeq([k \in DOMAIN ids |-> <<Point(10 * ids[k], <<F(1), T>>), Point(10 * ids[k] + 1, <<>>)>>])
MCLeft(ids) == FlattenSeq([k \in DOMAIN ids |-> [j \in 1 .. 3 |-> 100 * ids[k] + j]])

MCServers == 1 .. 3
MCConfig == [i \in 1 .. 3 |-> [line |-> IF i = 2 THEN 1 ELSE 4,
                               node |-> [nodeId |-> i, ip |-> "a", port |-> 7]]]

Query(s, id, p) == [kind |-> "query", server |-> s, m |-> Request(id, p)]
Ids(a, b) == [s \in MCServers |-> CASE s = 1 -> a [] s = 2 -> b [] s = 3 -> <<>>]
Search(a, b, all) ==
  [kind |-> "search", ids |-> Ids(a, b), fromPoint |-> TRUE,
   opt |-> [routes |-> <<[moveOut |-> TRUE, moveAll |-> all, fields |-> <<[cmp |-> 0, field |-> F(1)]>>]>>,
            filter |-> <<>>, selectAll |-> all, getFields |-> IF all THEN <<>> ELSE <<"f">>, act |-> 0]]
Batch(a, b) == [kind |-> "batch", ids |-> Ids(a, b)]
Services == [kind |-> "services"]

Link12 == [pointId |-> 1, lineId |-> 2, isOut |-> TRUE]
Queries == {
  Query(1, "newId", [count |-> 1]),
  Query(1, "setPoint", [point |-> Point(1, <<F(1), T>>)]),
  Query(1, "addLineForPoint", Link12),
  Query(1, "delLineForPoint", Link12),
  Query(1, "getPoint", [pointId |-> 1]),
  Query(1, "addLine", [line |-> MCLineOf(2)]),
  Query(1, "delLine", [lineId |-> 2]),
  Query(1, "getLine", [lineId |-> 2]),
  Query(1, "delPoint", [pointId |-> 1]),
  Query(3, "getClientId", <<>>)}

Get == Query(1, "getPoint", [pointId |-> 1])
TooBig == Query(1, "setPoint", [point |-> Point(1, <<T, T, T, T>>)])

MCPlans ==
  {<<q, Get>> : q \in Queries} \union
  {<<Services>>, <<TooBig>>,
   <<Search(<<1>>, <<2>>, TRUE), Get>>,
   <<Search(<<1>>, <<>>, FALSE), Search(<<2, 3>>, <<>>, FALSE)>>,
   <<Search(<<1, 2, 3>>, <<>>, TRUE)>>,
   <<Batch(<<Point(1, <<F(1), T>>), Point(2, <<T>>)>>, <<Point(3, <<>>)>>),
     Batch(<<Point(4, <<>>)>>, <<>>)>>}
=============================================================================
