------------------------------ MODULE ClientId ------------------------------
(***************************************************************************)
(* Allocation of client ids by gsrc (NewClientId and Worker::OnGetClientId *)
(* of gsrc/Worker.cpp).                                                    *)
(*                                                                         *)
(* gsrc serves requests on as many threads as the machine has processors.  *)
(* Each request reads the next id from the file "clientId", opens the file *)
(* again for writing, which truncates it, and writes the id after.  No     *)
(* lock is held, so the system calls of different requests interleave.     *)
(***************************************************************************)
EXTENDS Naturals, FiniteSets

CONSTANTS
  Threads,      \* worker threads (GetCUPNumber of them)
  LastId,       \* the last client id, 16777215 in the code
  MaxTaken,     \* bound of the model: how often one id may be given out
  Missing,      \* content of a file that does not exist
  Empty         \* content of a truncated file

ASSUME ClientIdAssumption ==
  /\ LastId \in Nat
  /\ MaxTaken \in Nat \ {0}
  /\ Missing \notin Nat /\ Empty \notin Nat /\ Missing # Empty

Ids == 0 .. LastId

VARIABLES
  file,      \* content of the file clientId
  pc,        \* pc[t]: the next system call of the request t serves
  clientId,  \* clientId[t]: the local variable of NewClientId
  taken,     \* taken[id]: how many clients were given id (history)
  raced      \* two requests have been in progress together (history)

vars == <<file, pc, clientId, taken, raced>>

-----------------------------------------------------------------------------
Init ==
  /\ file = Missing
  /\ pc = [t \in Threads |-> "idle"]
  /\ clientId = [t \in Threads |-> 0]
  /\ taken = [id \in Ids |-> 0]
  /\ raced = FALSE

Busy == {t \in Threads : pc[t] # "idle"}

(* A worker thread takes up a getClientId message.                         *)
OnGetClientId(t) ==
  /\ pc[t] = "idle"
  /\ pc' = [pc EXCEPT ![t] = "read"]
  /\ raced' = (raced \/ Busy # {})
  /\ UNCHANGED <<file, clientId, taken>>

(* fopen(read), fread and the check of the id.  A file that exists is read *)
(* as it is when fread runs; a truncated one is reported as damaged.       *)
ReadId(t) ==
  /\ pc[t] = "read"
  /\ file # Empty
  /\ \E id \in {IF file = Missing THEN 0 ELSE file} :
       /\ id <= LastId
       /\ clientId' = [clientId EXCEPT ![t] = id]
  /\ pc' = [pc EXCEPT ![t] = "truncate"]
  /\ UNCHANGED <<file, taken, raced>>

(* The request is refused: the file cannot be opened for reading or for    *)
(* writing, it is found truncated, or no id is left.                       *)
Refuse(t) ==
  /\ pc[t] \in {"read", "truncate"}
  /\ pc' = [pc EXCEPT ![t] = "idle"]
  /\ UNCHANGED <<file, clientId, taken, raced>>

(* fopen(write) empties the file; the number goes to the stdio buffer.     *)
OpenWrite(t) ==
  /\ pc[t] = "truncate"
  /\ file' = Empty
  /\ pc' = [pc EXCEPT ![t] = "flush"]
  /\ UNCHANGED <<clientId, taken, raced>>

(* fclose writes the buffer and the id goes out.  The result of fclose is  *)
(* not looked at: when it fails the file stays as it is.                   *)
NextIdSkips(t) == clientId[t] + 2  \* mutant: the next id is one too high
NextIdSame(t)  == clientId[t]      \* mutant: the id given out is written back
NextId(t)      == clientId[t] + 1

Flush(t) ==
  /\ pc[t] = "flush"
  /\ taken[clientId[t]] < MaxTaken
  /\ file' \in {file, NextId(t)}
  /\ taken' = [taken EXCEPT ![clientId[t]] = @ + 1]
  /\ pc' = [pc EXCEPT ![t] = "idle"]
  /\ UNCHANGED <<clientId, raced>>

(* The process dies and is started again: requests in progress are lost,   *)
(* the file stays.                                                         *)
Crash ==
  /\ pc' = [t \in Threads |-> "idle"]
  /\ UNCHANGED <<file, clientId, taken, raced>>

Next ==
  \/ \E t \in Threads :
       \/ OnGetClientId(t)
       \/ ReadId(t)
       \/ Refuse(t)
       \/ OpenWrite(t)
       \/ Flush(t)
  \/ Crash

Spec == Init /\ [][Next]_vars

-----------------------------------------------------------------------------
TypeOK ==
  /\ file \in 0 .. LastId + 1 \union {Missing, Empty}
  /\ pc \in [Threads -> {"idle", "read", "truncate", "flush"}]
  /\ clientId \in [Threads -> Ids]
  /\ taken \in [Ids -> 0 .. MaxTaken]
  /\ raced \in BOOLEAN

(* "A unique client id" (MsgGetClientId.h:9): no two clients are given the *)
(* same one.                                                               *)
UniqueClientIds == \A id \in Ids : taken[id] <= 1

(* As long as no two requests have overlapped, client ids are unique: over *)
(* refusals, failed writes and a death between any two system calls.       *)
UniqueUnlessRaced == ~raced => UniqueClientIds

(* However requests interleave, no id is skipped: when the file, or a      *)
(* request that has read it, is about to give out an id, all lower ids     *)
(* have been given out, so "no client id available" is only said when      *)
(* every one of them is in use.                                            *)
NoIdSkipped ==
  /\ \A id \in Ids : taken[id] > 0 => \A low \in 0 .. id : taken[low] > 0
  /\ file \in Nat => \A low \in Ids : low < file => taken[low] > 0
  /\ \A t \in Threads : pc[t] \in {"truncate", "flush"} =>
       \A low \in Ids : low < clientId[t] => taken[low] > 0

(***************************************************************************)
(* Why: until two requests overlap only one is in progress, and no id from *)
(* the one it has read on, or from the one in the file on, has been given  *)
(* out.                                                                    *)
(***************************************************************************)
NotTakenFrom(id) == \A i \in Ids : i >= id => taken[i] = 0

Alone == \A s, t \in Busy : s = t

SerialInv ==
  ~raced =>
    /\ Alone
    /\ UniqueClientIds
    /\ file = Missing => NotTakenFrom(0)
    /\ file \in Nat => NotTakenFrom(file)
    /\ \A t \in Threads : pc[t] \in {"truncate", "flush"} =>
         NotTakenFrom(clientId[t])
    /\ \A t \in Threads : pc[t] = "flush" => file = Empty

=============================================================================
