----------------------------- MODULE ByteOrder -----------------------------
(***************************************************************************)
(* How the stream of a message writes and reads integers (Stream.cpp): in  *)
(* the byte order the message is set to, on hosts whose own order may be   *)
(* either.  The same is in the code twice, as the macros InStream and      *)
(* OutStream, which AddData and GetData use, and as the functions I2Stream *)
(* and Stream2I.                                                           *)
(*                                                                         *)
(* An integer is the sequence of its bytes, the lowest first; a buffer is  *)
(* a sequence of bytes in the order of their addresses.                    *)
(***************************************************************************)
EXTENDS Integers, SequencesExt

CONSTANT ByteValues \* bound of the model: values of a byte

ASSUME ByteAssumption == 0 \in ByteValues /\ ByteValues \subseteq 0 .. 255

Sizes  == {2, 4, 8}                         \* sizeof short, int and int64
Orders == {"net", "big", "small", "local"}
Hosts  == {"little", "big"}

Extended(v, n) == [k \in 1 .. n |-> IF k <= Len(v) THEN v[k] ELSE 0]
LeftShift(v, n) == [k \in DOMAIN v |-> IF k > n THEN v[k - n] ELSE 0]
RightShift(v, n) == [k \in DOMAIN v |-> IF k + n <= Len(v) THEN v[k + n] ELSE 0]

\* An integer as it lies in the memory of a host, and back.
Memory(host, v) == IF host = "little" THEN v ELSE Reverse(v)
htonl(host, v)  == IF host = "little" THEN Reverse(v) ELSE v

Untouched(size) == [k \in 1 .. size |-> "old"]

-----------------------------------------------------------------------------
InSmall(value, size) ==
  [k \in 1 .. size |-> RightShift(LeftShift(value, size - k), size - 1)[1]]

InBig(value, size) ==
  [k \in 1 .. size |-> RightShift(LeftShift(value, k - 1), size - 1)[1]]

AddLow(value, byte) == [LeftShift(value, 1) EXCEPT ![1] = byte]

OutSmall(buf) == FoldRight(LAMBDA byte, value : AddLow(value, byte), buf, Extended(<<>>, 8))
OutBig(buf)   == FoldLeft(AddLow, Extended(<<>>, 8), buf)

\* The same again, for I2Stream and Stream2I.
itomemSmall(value, size) == InSmall(Extended(value, 8), size)
itomemBig(value, size)   == InBig(Extended(value, 8), size)
memtoiSmall(buf) == OutSmall(buf)
memtoiBig(buf)   == OutBig(buf)

\* Up to four bytes: what htonl made of the integer is shifted to the low end.
InNet(host, value, size) ==
  SubSeq(Memory(host, RightShift(htonl(host, Extended(value, 4)), 4 - size)), 1, size)

\* The macro writes nothing when an int64 is to be in the order of the network.
InStream(order, host, value, size) ==
  CASE order = "local" -> Memory(host, value)
    [] order = "net"   -> IF size < 8 THEN InNet(host, value, size) ELSE Untouched(size)
    [] order = "big"   -> InBig(value, size)
    [] order = "small" -> InSmall(value, size)

I2Stream(order, host, value, size) ==
  CASE order = "local" -> Memory(host, value)
    [] order = "net"   -> IF size <= 4 THEN InNet(host, value, size)
                          ELSE InNet(host, SubSeq(value, 5, 8), 4) \o InNet(host, SubSeq(value, 1, 4), 4)
    [] order = "big"   -> itomemBig(value, size)
    [] order = "small" -> itomemSmall(value, size)

OutNet(host, buf) ==
  LET ntohl(four) == htonl(host, Memory(host, four))
  IN IF Len(buf) > 4 THEN ntohl(SubSeq(buf, 5, 8)) \o ntohl(SubSeq(buf, 1, 4))
     ELSE ntohl([k \in 1 .. 4 - Len(buf) |-> 0] \o buf)

OutStream(order, host, buf) ==
  CASE order = "local" -> Extended(Memory(host, buf), 8)
    [] order = "net"   -> Extended(OutNet(host, buf), 8)
    [] order = "big"   -> OutBig(buf)
    [] order = "small" -> OutSmall(buf)

Stream2I(order, host, buf) ==
  IF order = "big" THEN memtoiBig(buf)
  ELSE IF order = "small" THEN memtoiSmall(buf)
  ELSE OutStream(order, host, buf)

\* An order that is the host's own is replaced by plain copying.
SetByteOrder(order, host) ==
  LET i == <<4, 3, 2, 1>>
  IN IF InStream(order, host, i, 4) = Memory(host, i) THEN "local" ELSE order

-----------------------------------------------------------------------------
(* What one host writes another reads, whichever their own orders are,     *)
(* when both set the message to the same order (Message.cpp:19), by macro  *)
(* or by function; but nobody may send an int64 in the order of the        *)
(* network by the macro (Stream.cpp:85).                                   *)
OrdersAgree ==
  \A writer, reader \in Hosts, order \in {"net", "big", "small"}, size \in Sizes :
    \A value \in [1 .. size -> ByteValues] :
      LET mine   == SetByteOrder(order, writer)
          theirs == SetByteOrder(order, reader)
          buf    == I2Stream(mine, writer, value, size)
      IN /\ OutStream(theirs, reader, buf) = Extended(value, 8)
         /\ Stream2I(theirs, reader, buf) = Extended(value, 8)
         /\ (mine = "net" => size < 8) => InStream(mine, writer, value, size) = buf
=============================================================================
