---------------------------- MODULE Server_proof ----------------------------
(***************************************************************************)
(* What mdk gives to a server, proved for any size.  The data it keeps     *)
(* with a connection is not used after it was deleted, and is deleted in   *)
(* the end, unless GetData crosses SetData, for any number of threads.  A  *)
(* timer that was killed stays silent, and the references of its task are  *)
(* its users, for any number of timers and of threads that set and kill    *)
(* them.  A map of fields gives what was last    *)
(* put into it, for any number of keys and elements, whatever keycmp says  *)
(* of two different keys and in whatever order they come into the tree.    *)
(* A server that was started serves until Stop, and does not run after it, *)
(* with any ports, any number of threads in epoll and any number of        *)
(* starts.                                                                 *)
(***************************************************************************)
EXTENDS MCServer, FiniteSetTheorems, SequenceTheorems, TLAPS

-----------------------------------------------------------------------------
(* The inductive invariant of the data of a connection.  Hosts in hands    *)
(* are counted one by one, as pairs of a thread and a number.              *)
Copies == {c \in Hosts \X {1, 2} : c[2] <= hosts[c[1]]}

Users == {t \in Hosts : step[t] \in {"using", "release"}}

One(b) == IF b THEN 1 ELSE 0

Making == {"setCount", "setMode", "setLink"}
Leaving == {"setLock", "setRelease", "setNull"}
SetSteps == {"setAuto", "setOld"} \union Making \union Leaving
HostSteps == InData \union InConnect \union {"free"}

(* A thread that reads or changes the connection has a host of it, and     *)
(* m_mutexData belongs to the thread that is between lock and unlock.      *)
StepInv ==
  /\ \A t \in Hosts : step[t] \in InConnect \union SetSteps => hosts[t] > 0
  /\ \A t \in Hosts : step[t] \in SetSteps => t = Setter
  /\ \A t \in Hosts : keeper = t <=> step[t] \in {"getLocked", "setRelease", "setNull"}

(* The connection is deleted with its last user: a host in a thread's      *)
(* hands, the engine, or the copy of the host the data keeps.              *)
UseInv ==
  /\ useCount = Cardinality(Copies) + One(engine) + One(hostRef)
  /\ "connect" \in freed <=> useCount = 0
  /\ proxy => mode = "auto"

(* SetData links data to a connection that has none, or unlinks it.        *)
SetInv ==
  /\ setting.data /\ step[Setter] \in SetSteps =>
       ~ linked /\ setting.auto = (mode = "auto") /\ owned = (IF mode = "own" THEN "held" ELSE "gone")
  /\ step[Setter] \in SetSteps => owned # "none"
  /\ step[Setter] \in Making => setting.data
  /\ step[Setter] \in Leaving => linked /\ ~ setting.data
  /\ linked => owned # "none"
  /\ hostRef => step[Setter] = "setLink" \/ (linked /\ step[Setter] \notin Leaving)

(* Data that the connection frees is deleted with it, and not before.      *)
AutoInv ==
  /\ \A t \in Hosts : step[t] # "release" /\ (step[t] = "using" => hosts[t] > 0)
  /\ step[Setter] \notin Leaving
  /\ owned # "held"
  /\ owned = "gone" => linked \/ (setting.data /\ step[Setter] \in SetSteps)
  /\ linked \/ step[Setter] \in {"setMode", "setLink"} => autoFree
  /\ ~ hostRef /\ ~ stray
  /\ refCount = IF step[Setter] = "setMode" THEN 1 ELSE IF "data" \in freed THEN -1 ELSE 0
  /\ "data" \in freed <=> "connect" \in freed /\ linked

(* Other data is deleted with its last reference: that of its creator, of  *)
(* the connection it is linked to, of a thread GetData has given it to.    *)
ByConnect == step[Setter] \in {"setMode", "setLink"} \/ (linked /\ step[Setter] # "setNull")

OwnInv ==
  /\ ~ autoFree
  /\ step[Setter] = "setLink" \/ (linked /\ step[Setter] \notin Leaving) => hostRef
  /\ refCount + 1 = One(owned # "gone") + One(ByConnect) + Cardinality(Users)
  /\ "data" \in freed <=> refCount = -1

HostInv ==
  /\ HostDataTypeOK
  /\ StepInv
  /\ UseInv
  /\ SetInv
  /\ mode = "auto" => AutoInv
  /\ mode = "own" /\ ~ stray => OwnInv

-----------------------------------------------------------------------------
(* Counting.                                                               *)
LEMMA CopiesFinite == IsFiniteSet(Copies) /\ Cardinality(Copies) \in Nat
  <1>1. IsFiniteSet({1, 2})
    <2>1. {1, 2} = {1} \union {2}
      OBVIOUS
    <2>2. IsFiniteSet({1}) /\ IsFiniteSet({2})
      BY FS_Singleton
    <2>3. IsFiniteSet({1} \union {2})
      BY <2>2, FS_Union
    <2> QED
      BY <2>1, <2>3
  <1>2. IsFiniteSet(Hosts \X {1, 2})
    BY <1>1, HostDataAssumption, FS_Product
  <1> QED
    BY <1>2, FS_Subset, FS_CardinalityType DEF Copies

LEMMA UsersFinite == IsFiniteSet(Users) /\ Cardinality(Users) \in Nat
  BY HostDataAssumption, FS_Subset, FS_CardinalityType DEF Users

LEMMA MoreCopies ==
  ASSUME HostDataTypeOK, NEW t \in Hosts, hosts[t] < 2, hosts' = [hosts EXCEPT ![t] = @ + 1]
  PROVE  Cardinality(Copies') = Cardinality(Copies) + 1
  <1>1. hosts \in [Hosts -> 0 .. 2]
    BY DEF HostDataTypeOK
  <1>2. Copies' = Copies \union {<<t, hosts[t] + 1>>} /\ <<t, hosts[t] + 1>> \notin Copies
    BY <1>1 DEF Copies
  <1> QED
    BY <1>2, CopiesFinite, FS_AddElement

LEMMA FewerCopies ==
  ASSUME HostDataTypeOK, NEW t \in Hosts, hosts[t] > 0, hosts' = [hosts EXCEPT ![t] = @ - 1]
  PROVE  Cardinality(Copies') = Cardinality(Copies) - 1
  <1>1. hosts \in [Hosts -> 0 .. 2]
    BY DEF HostDataTypeOK
  <1>2. Copies' = Copies \ {<<t, hosts[t]>>} /\ <<t, hosts[t]>> \in Copies
    BY <1>1 DEF Copies
  <1> QED
    BY <1>2, CopiesFinite, FS_RemoveElement

LEMMA OneCopy ==
  ASSUME HostDataTypeOK, NEW t \in Hosts, hosts[t] > 0
  PROVE  Cardinality(Copies) > 0
  <1>1. <<t, 1>> \in Copies
    BY DEF HostDataTypeOK, Copies
  <1> QED
    BY <1>1, CopiesFinite, FS_EmptySet

LEMMA TwoCopies ==
  ASSUME HostDataTypeOK, NEW t \in Hosts, NEW u \in Hosts, t # u, hosts[t] > 0, hosts[u] > 0
  PROVE  Cardinality(Copies) > 1
  <1>1. <<t, 1>> \in Copies /\ <<u, 1>> \in Copies \ {<<t, 1>>}
    BY DEF HostDataTypeOK, Copies
  <1>2. /\ IsFiniteSet(Copies \ {<<t, 1>>}) /\ Cardinality(Copies \ {<<t, 1>>}) \in Nat
        /\ Cardinality(Copies \ {<<t, 1>>}) = Cardinality(Copies) - 1
    BY <1>1, CopiesFinite, FS_RemoveElement, FS_CardinalityType
  <1>3. Cardinality(Copies \ {<<t, 1>>}) # 0
    BY <1>1, <1>2, FS_EmptySet
  <1> QED
    BY <1>2, <1>3, CopiesFinite

LEMMA NoCopies ==
  ASSUME HostDataTypeOK, \A t \in Hosts : hosts[t] = 0
  PROVE  Cardinality(Copies) = 0
  <1>1. Copies = {}
    BY DEF Copies
  <1> QED
    BY <1>1, FS_EmptySet

(* A thread that goes on is counted as a user afterwards, or not, and was   *)
(* before, or not.                                                         *)
LEMMA StepIs ==
  ASSUME HostDataTypeOK, NEW t \in Hosts, NEW s \in HostSteps, ToStep(t, s)
  PROVE  /\ step' \in [Hosts -> HostSteps]
         /\ \A u \in Hosts : step'[u] = IF u = t THEN s ELSE step[u]
         /\ Cardinality(Users') = Cardinality(Users) + One(s \in {"using", "release"})
                                    - One(step[t] \in {"using", "release"})
  <1>1. step \in [Hosts -> HostSteps]
    BY DEF HostDataTypeOK, HostSteps
  <1>2. step' \in [Hosts -> HostSteps] /\ \A u \in Hosts : step'[u] = IF u = t THEN s ELSE step[u]
    BY <1>1 DEF ToStep
  <1>3. CASE s \in {"using", "release"} /\ t \notin Users
    <2>1. Users' = Users \union {t}
      BY <1>2, <1>3 DEF Users
    <2>2. Cardinality(Users') = Cardinality(Users) + 1
      BY <1>3, <2>1, UsersFinite, FS_AddElement
    <2> QED
      BY <1>2, <1>3, <2>2, UsersFinite DEF Users, One
  <1>4. CASE s \notin {"using", "release"} /\ t \in Users
    <2>1. Users' = Users \ {t}
      BY <1>2, <1>4 DEF Users
    <2>2. Cardinality(Users') = Cardinality(Users) - 1
      BY <1>4, <2>1, UsersFinite, FS_RemoveElement
    <2> QED
      BY <1>2, <1>4, <2>2, UsersFinite DEF Users, One
  <1>5. CASE s \in {"using", "release"} <=> t \in Users
    <2>1. Users' = Users
      BY <1>2, <1>5 DEF Users
    <2>2. s \in {"using", "release"} <=> step[t] \in {"using", "release"}
      BY <1>5 DEF Users
    <2> QED
      BY <1>2, <2>1, <2>2, UsersFinite DEF One
  <1> QED
    BY <1>3, <1>4, <1>5

LEMMA SomeUser ==
  ASSUME NEW t \in Users
  PROVE  Cardinality(Users) > 0
  BY UsersFinite, FS_EmptySet

LEMMA NoUser ==
  ASSUME \A t \in Hosts : step[t] = "free"
  PROVE  Cardinality(Users) = 0
  <1>1. Users = {}
    BY DEF Users
  <1> QED
    BY <1>1, FS_EmptySet

LEMMA InitHost == HostDataInit => HostInv
  <1> SUFFICES ASSUME HostDataInit PROVE HostInv
    OBVIOUS
  <1>1. step \in [Hosts -> HostSteps] /\ hosts \in [Hosts -> 0 .. 2]
    BY DEF HostDataInit, HostSteps
  <1>2. /\ \A t \in Hosts : step[t] = "free" /\ hosts[t] = 1
        /\ step[Setter] = "free"
    BY HostDataAssumption DEF HostDataInit
  <1>3. Cardinality(Copies) = Cardinality(Hosts) /\ Cardinality(Hosts) \in Nat
    <2> DEFINE pair == [t \in Hosts |-> <<t, 1>>]
    <2>1. pair \in Bijection(Hosts, Copies)
      <3>1. pair \in [Hosts -> Copies]
        BY <1>2 DEF Copies
      <3>2. \A a, b \in Hosts : pair[a] = pair[b] => a = b
        OBVIOUS
      <3>3. \A c \in Copies : \E t \in Hosts : pair[t] = c
        BY <1>2 DEF Copies
      <3> QED
        BY <3>1, <3>2, <3>3 DEF Bijection, Injection, Surjection, IsInjective
    <2>2. Copies = Copies /\ ExistsBijection(Hosts, Copies)
      BY <2>1 DEF ExistsBijection
    <2> QED
      BY <2>2, HostDataAssumption, FS_Bijection, FS_CardinalityType
  <1>4. HostDataTypeOK
    <2>1. setting \in [data : BOOLEAN, auto : BOOLEAN] /\ useCount \in Nat
      BY <1>3 DEF HostDataInit
    <2>2. {engine, linked, autoFreeData, autoFree, hostRef, proxy, stray} \subseteq BOOLEAN
      BY DEF HostDataInit
    <2> QED
      BY <1>1, <2>1, <2>2 DEF HostDataInit, HostDataTypeOK, HostSteps
  <1>5. StepInv
    BY <1>2, HostDataAssumption DEF HostDataInit, StepInv, SetSteps, Making, Leaving, InConnect
  <1>6. UseInv
    BY <1>3 DEF HostDataInit, UseInv, One
  <1>7. SetInv
    BY <1>2 DEF HostDataInit, SetInv, SetSteps, Making, Leaving
  <1>8. mode = "auto" => AutoInv
    BY <1>2 DEF HostDataInit, AutoInv, SetSteps, Making, Leaving
  <1>9. mode = "own" => OwnInv
    <2>1. Cardinality(Users) = 0
      BY <1>2, NoUser
    <2> QED
      BY <1>2, <2>1 DEF HostDataInit, OwnInv, ByConnect, Leaving, One
  <1> QED
    BY <1>4, <1>5, <1>6, <1>7, <1>8, <1>9 DEF HostInv

-----------------------------------------------------------------------------
(* The actions.  A thread asks for data, gets it, and stops using it.      *)
LEMMA UseKeeps ==
  ASSUME HostInv, NEW t \in Hosts, GetData(t) \/ CheckAuto(t) \/ GetPlain(t) \/ EndUse(t)
  PROVE  HostInv'
  <1>1. /\ UNCHANGED <<mode, hosts, engine, useCount, linked, autoFreeData, keeper, refCount,
                       autoFree, hostRef, proxy, setting, owned, freed>>
        /\ Copies' = Copies
        /\ stray' \in BOOLEAN /\ (stray => stray')
        /\ mode = "auto" => stray' = stray
    BY DEF GetData, CheckAuto, GetPlain, EndUse, theConnect, theData, history, Copies, HostInv, HostDataTypeOK
  <1>2. PICK s \in HostSteps :
          /\ ToStep(t, s)
          /\ \/ step[t] = "free" /\ s = "get" /\ hosts[t] > 0
             \/ step[t] = "get" /\ s \in {"getPlain", "getLock"}
             \/ step[t] = "getPlain" /\ s = "using" /\ (mode = "own" => stray')
             \/ step[t] = "getPlain" /\ s = "free"
             \/ step[t] = "using" /\ s = "release" /\ mode = "own"
             \/ step[t] = "using" /\ s = "free" /\ mode = "auto"
    BY DEF GetData, CheckAuto, GetPlain, EndUse, Does, HostSteps, InData, InConnect, HostInv, HostDataTypeOK
  <1>3. /\ step' \in [Hosts -> HostSteps]
        /\ \A u \in Hosts : step'[u] = IF u = t THEN s ELSE step[u]
        /\ Cardinality(Users') = Cardinality(Users) + One(s \in {"using", "release"})
                                   - One(step[t] \in {"using", "release"})
    BY <1>2, StepIs DEF HostInv
  <1>4. HostDataTypeOK'
    BY <1>1, <1>3 DEF HostInv, HostDataTypeOK, HostSteps
  <1>5. StepInv'
    BY <1>1, <1>2, <1>3 DEF HostInv, StepInv, InConnect, SetSteps, Making, Leaving
  <1>6. UseInv'
    BY <1>1 DEF HostInv, UseInv
  <1>7. SetInv => SetInv'
    BY <1>1, <1>2, <1>3, HostDataAssumption DEF SetInv, SetSteps, Making, Leaving
  <1>8. StepInv /\ mode = "auto" /\ AutoInv => AutoInv'
    BY <1>1, <1>2, <1>3, HostDataAssumption DEF StepInv, InConnect, AutoInv, SetSteps, Making, Leaving
  <1>9. mode = "own" /\ ~ stray' /\ OwnInv => OwnInv'
    <2>1. mode = "own" /\ ~ stray' => Cardinality(Users') = Cardinality(Users)
      BY <1>2, <1>3, UsersFinite DEF One
    <2> QED
      BY <1>1, <1>2, <1>3, <2>1, HostDataAssumption DEF OwnInv, ByConnect, Leaving
  <1> QED
    BY <1>1, <1>4, <1>5, <1>6, <1>7, <1>8, <1>9 DEF HostInv

(* A thread takes m_mutexData, in GetData or in SetData.                   *)
LEMMA LockKeeps ==
  ASSUME HostInv, NEW t \in Hosts, GetLock(t) \/ (t = Setter /\ SetLock)
  PROVE  HostInv'
  <1>1. /\ UNCHANGED <<mode, hosts, engine, useCount, linked, autoFreeData, refCount,
                       autoFree, hostRef, proxy, setting, owned, stray, freed>>
        /\ keeper = NoThread /\ keeper' = t
        /\ Copies' = Copies
    BY DEF GetLock, SetLock, theData, history, Copies
  <1>2. PICK s \in HostSteps :
          /\ ToStep(t, s)
          /\ \/ step[t] = "getLock" /\ s = "getLocked"
             \/ step[t] = "setLock" /\ s = "setRelease" /\ t = Setter
    BY DEF GetLock, SetLock, Does, HostSteps, InData, InConnect
  <1>3. /\ step' \in [Hosts -> HostSteps]
        /\ \A u \in Hosts : step'[u] = IF u = t THEN s ELSE step[u]
        /\ Cardinality(Users') = Cardinality(Users)
    <2>1. One(s \in {"using", "release"}) = 0 /\ One(step[t] \in {"using", "release"}) = 0
      BY <1>2 DEF One
    <2> QED
      BY <1>2, <2>1, StepIs, UsersFinite DEF HostInv
  <1>4. HostDataTypeOK'
    BY <1>1, <1>3 DEF HostInv, HostDataTypeOK, HostSteps
  <1>5. StepInv'
    <2>1. \A u \in Hosts : keeper' = u <=> step'[u] \in {"getLocked", "setRelease", "setNull"}
      BY <1>1, <1>2, <1>3, HostDataAssumption DEF HostInv, StepInv
    <2> QED
      BY <1>1, <1>2, <1>3, <2>1 DEF HostInv, StepInv, InConnect, SetSteps, Making, Leaving
  <1>6. UseInv'
    BY <1>1 DEF HostInv, UseInv
  <1>7. SetInv => SetInv'
    BY <1>1, <1>2, <1>3, HostDataAssumption DEF SetInv, SetSteps, Making, Leaving
  <1>8. mode = "auto" /\ AutoInv => AutoInv'
    BY <1>1, <1>2, <1>3, HostDataAssumption DEF AutoInv, SetSteps, Making, Leaving
  <1>9. OwnInv => OwnInv'
    BY <1>1, <1>2, <1>3, HostDataAssumption DEF OwnInv, ByConnect, Leaving
  <1> QED
    BY <1>1, <1>4, <1>5, <1>6, <1>7, <1>8, <1>9 DEF HostInv

(* GetData counts what it returns, unless the connection frees the data.   *)
LEMMA GetLockedKeeps ==
  ASSUME HostInv, NEW t \in Hosts, GetLocked(t)
  PROVE  HostInv'
  <1>1. /\ UNCHANGED <<mode, hosts, engine, useCount, linked, autoFreeData,
                       autoFree, hostRef, proxy, setting, owned, stray, freed>>
        /\ step[t] = "getLocked" /\ keeper' = NoThread
        /\ refCount' = IF linked /\ ~ autoFree THEN refCount + 1 ELSE refCount
        /\ Copies' = Copies
    BY DEF GetLocked, Does, Copies
  <1>2. PICK s \in {"using", "free"} :
          /\ ToStep(t, s)
          /\ s = "using" <=> linked /\ (autoFree \/ refCount # -1)
    BY DEF GetLocked
  <1>3. /\ step' \in [Hosts -> HostSteps]
        /\ \A u \in Hosts : step'[u] = IF u = t THEN s ELSE step[u]
        /\ Cardinality(Users') = Cardinality(Users) + One(s = "using")
    <2>1. s \in HostSteps /\ One(s \in {"using", "release"}) = One(s = "using") /\ One(step[t] \in {"using", "release"}) = 0
      BY <1>1 DEF One, HostSteps, InData
    <2>2. One(s = "using") \in Nat
      BY DEF One
    <2> QED
      BY <1>2, <2>1, <2>2, StepIs, UsersFinite DEF HostInv
  <1>4. HostDataTypeOK'
    <2>1. refCount' \in Int
      BY <1>1 DEF HostInv, HostDataTypeOK
    <2> QED
      BY <1>1, <1>3, <2>1 DEF HostInv, HostDataTypeOK, HostSteps
  <1>5. StepInv'
    <2>1. \A u \in Hosts : keeper' = u <=> step'[u] \in {"getLocked", "setRelease", "setNull"}
      BY <1>1, <1>2, <1>3, HostDataAssumption DEF HostInv, StepInv
    <2> QED
      BY <1>1, <1>2, <1>3, <2>1 DEF HostInv, StepInv, InConnect, SetSteps, Making, Leaving
  <1>6. UseInv'
    BY <1>1 DEF HostInv, UseInv
  <1>7. SetInv => SetInv'
    BY <1>1, <1>2, <1>3, HostDataAssumption DEF SetInv, SetSteps, Making, Leaving
  <1>8. StepInv /\ mode = "auto" /\ SetInv /\ AutoInv => AutoInv'
    BY <1>1, <1>2, <1>3, HostDataAssumption DEF StepInv, InConnect, SetInv, AutoInv, SetSteps, Making, Leaving
  <1>9. StepInv /\ OwnInv => OwnInv'
    <2> SUFFICES ASSUME StepInv, OwnInv PROVE OwnInv'
      OBVIOUS
    <2>1. step[Setter] \notin {"setRelease", "setNull"} /\ step'[Setter] \notin {"setRelease", "setNull"}
      BY <1>1, <1>2, <1>3, HostDataAssumption DEF StepInv
    <2>2. (ByConnect' <=> ByConnect) /\ (linked => ByConnect)
      BY <1>1, <1>2, <1>3, <2>1, HostDataAssumption DEF ByConnect
    <2>3. linked => refCount >= 0
      BY <2>2, UsersFinite DEF OwnInv, One, HostInv, HostDataTypeOK
    <2>4. One(s = "using") = One(linked) /\ refCount' = refCount + One(linked)
      BY <1>1, <1>2, <2>3 DEF OwnInv, One, HostInv, HostDataTypeOK
    <2>5. refCount' + 1 = One(owned' # "gone") + One(ByConnect') + Cardinality(Users')
      BY <1>1, <1>3, <2>2, <2>4, UsersFinite DEF OwnInv, One, HostInv, HostDataTypeOK
    <2>6. "data" \in freed' <=> refCount' = -1
      BY <1>1, <2>3, <2>4 DEF OwnInv, One, HostInv, HostDataTypeOK
    <2>7. step'[Setter] = "setLink" \/ (linked' /\ step'[Setter] \notin Leaving) => hostRef'
      BY <1>1, <1>2, <1>3, HostDataAssumption DEF OwnInv, Leaving
    <2> QED
      BY <1>1, <2>5, <2>6, <2>7 DEF OwnInv
  <1> QED
    BY <1>1, <1>4, <1>5, <1>6, <1>7, <1>8, <1>9 DEF HostInv

-----------------------------------------------------------------------------
(* Hosts are dropped and copied.                                           *)
LEMMA LinkedIsKept ==
  ASSUME SetInv, OwnInv, linked
  PROVE  hostRef \/ step[Setter] \in Leaving
  BY DEF SetInv, OwnInv

LEMMA DropHostKeeps ==
  ASSUME HostInv, NEW t \in Hosts, DropHost(t)
  PROVE  HostInv'
  <1>1. /\ UNCHANGED <<mode, step, engine, linked, autoFreeData, keeper, autoFree, hostRef, proxy, setting, owned, stray>>
        /\ step[t] = "free" \/ (step[t] = "using" /\ mode = "own")
        /\ hosts[t] > 0 /\ hosts' = [hosts EXCEPT ![t] = @ - 1]
        /\ useCount' = useCount - 1
        /\ freed' = freed \union (IF useCount = 1 THEN {"connect"} \union (IF linked /\ refCount = 0 THEN {"data"} ELSE {}) ELSE {})
        /\ refCount' = refCount - (IF useCount = 1 /\ linked THEN 1 ELSE 0)
        /\ Users' = Users
    BY DEF DropHost, DropConnect, Does, history, Users, HostInv, HostDataTypeOK
  <1>2. /\ Cardinality(Copies') = Cardinality(Copies) - 1 /\ Cardinality(Copies) > 0
        /\ hosts' \in [Hosts -> 0 .. 2] /\ \A u \in Hosts : hosts'[u] = IF u = t THEN hosts[t] - 1 ELSE hosts[u]
    <2>1. Cardinality(Copies') = Cardinality(Copies) - 1 /\ Cardinality(Copies) > 0
      BY <1>1, FewerCopies, OneCopy DEF HostInv
    <2> QED
      BY <1>1, <2>1 DEF HostInv, HostDataTypeOK
  <1>3. /\ Cardinality(Copies) \in Nat /\ One(engine) \in 0 .. 1 /\ One(hostRef) \in 0 .. 1
        /\ useCount = Cardinality(Copies) + One(engine) + One(hostRef)
    BY CopiesFinite DEF One, HostInv, UseInv
  <1>4. useCount' \in Nat /\ useCount' = Cardinality(Copies') + One(engine') + One(hostRef')
    BY <1>1, <1>2, <1>3
  <1>5. step[Setter] \in SetSteps => useCount > 1
    <2> SUFFICES ASSUME step[Setter] \in SetSteps PROVE useCount > 1
      OBVIOUS
    <2>1. t # Setter /\ hosts[Setter] > 0
      BY <1>1, HostDataAssumption DEF HostInv, StepInv, SetSteps, Making, Leaving
    <2>2. Cardinality(Copies) > 1
      BY <1>1, <2>1, TwoCopies, HostDataAssumption DEF HostInv
    <2> QED
      BY <1>3, <2>2
  <1>6. HostDataTypeOK'
    <2>1. refCount' \in Int /\ freed' \subseteq {"connect", "data"}
      BY <1>1 DEF HostInv, HostDataTypeOK
    <2> QED
      BY <1>1, <1>2, <1>4, <2>1 DEF HostInv, HostDataTypeOK
  <1>7. StepInv'
    BY <1>1, <1>2 DEF HostInv, StepInv, InConnect, SetSteps, Making, Leaving
  <1>8. UseInv'
    BY <1>1, <1>3, <1>4 DEF HostInv, UseInv
  <1>9. SetInv'
    BY <1>1 DEF HostInv, SetInv
  <1>10. mode = "auto" => AutoInv'
    <2> SUFFICES ASSUME mode = "auto" PROVE AutoInv'
      OBVIOUS
    <2>1. "connect" \notin freed /\ "data" \notin freed
      BY <1>2, <1>3 DEF HostInv, UseInv, AutoInv
    <2>2. useCount = 1 => step[Setter] # "setMode" /\ refCount = 0
      BY <1>5, <2>1 DEF SetSteps, Making, HostInv, AutoInv
    <2>3. /\ refCount' = IF step'[Setter] = "setMode" THEN 1 ELSE IF "data" \in freed' THEN -1 ELSE 0
          /\ "data" \in freed' <=> "connect" \in freed' /\ linked'
      BY <1>1, <2>1, <2>2 DEF HostInv, AutoInv
    <2>4. \A u \in Hosts : step'[u] # "release" /\ (step'[u] = "using" => hosts'[u] > 0)
      BY <1>1, <1>2 DEF HostInv, AutoInv
    <2> QED
      BY <1>1, <2>3, <2>4 DEF HostInv, AutoInv
  <1>11. mode = "own" /\ ~ stray => OwnInv'
    <2> SUFFICES ASSUME mode = "own", ~ stray PROVE OwnInv'
      OBVIOUS
    <2>1. linked => useCount > 1
      BY <1>2, <1>3, <1>5, LinkedIsKept DEF HostInv, SetSteps, One
    <2>2. refCount' = refCount /\ ("data" \in freed' <=> "data" \in freed)
      BY <1>1, <2>1 DEF HostInv, HostDataTypeOK
    <2> QED
      BY <1>1, <2>2 DEF HostInv, OwnInv, ByConnect
  <1> QED
    BY <1>1, <1>6, <1>7, <1>8, <1>9, <1>10, <1>11 DEF HostInv

LEMMA EngineDropsKeeps ==
  ASSUME HostInv, EngineDrops
  PROVE  HostInv'
  <1>1. /\ UNCHANGED <<mode, step, hosts, linked, autoFreeData, keeper, autoFree, hostRef, proxy, setting, owned, stray>>
        /\ engine /\ ~ engine'
        /\ useCount' = useCount - 1
        /\ freed' = freed \union (IF useCount = 1 THEN {"connect"} \union (IF linked /\ refCount = 0 THEN {"data"} ELSE {}) ELSE {})
        /\ refCount' = refCount - (IF useCount = 1 /\ linked THEN 1 ELSE 0)
        /\ Users' = Users /\ Copies' = Copies
    BY DEF EngineDrops, DropConnect, Does, history, Users, Copies, HostInv, HostDataTypeOK
  <1>2. engine' = FALSE
    BY DEF EngineDrops
  <1>3. /\ Cardinality(Copies) \in Nat /\ One(engine) = 1 /\ One(engine') = 0 /\ One(hostRef) \in 0 .. 1
        /\ useCount = Cardinality(Copies) + One(engine) + One(hostRef)
    BY <1>1, CopiesFinite DEF One, HostInv, UseInv
  <1>4. useCount' \in Nat /\ useCount' = Cardinality(Copies') + One(engine') + One(hostRef')
    BY <1>1, <1>3
  <1>5. step[Setter] \in SetSteps => useCount > 1
    <2> SUFFICES ASSUME step[Setter] \in SetSteps PROVE useCount > 1
      OBVIOUS
    <2>1. Cardinality(Copies) > 0
      BY OneCopy, HostDataAssumption DEF HostInv, StepInv
    <2> QED
      BY <1>3, <2>1
  <1>6. HostDataTypeOK'
    <2>1. refCount' \in Int /\ freed' \subseteq {"connect", "data"}
      BY <1>1 DEF HostInv, HostDataTypeOK
    <2> QED
      BY <1>1, <1>2, <1>4, <2>1 DEF HostInv, HostDataTypeOK
  <1>7. StepInv'
    BY <1>1 DEF HostInv, StepInv
  <1>8. UseInv'
    <2>1. useCount \in Nat \ {0} /\ "connect" \notin freed
      BY <1>3 DEF HostInv, UseInv
    <2>2. "connect" \in freed' <=> useCount' = 0
      BY <1>1, <2>1
    <2> QED
      BY <1>1, <1>4, <2>2 DEF HostInv, UseInv
  <1>9. SetInv'
    BY <1>1 DEF HostInv, SetInv
  <1>10. mode = "auto" => AutoInv'
    <2> SUFFICES ASSUME mode = "auto" PROVE AutoInv'
      OBVIOUS
    <2>1. "connect" \notin freed /\ "data" \notin freed
      BY <1>3 DEF HostInv, UseInv, AutoInv
    <2>2. useCount = 1 => step[Setter] # "setMode" /\ refCount = 0
      BY <1>5, <2>1 DEF SetSteps, Making, HostInv, AutoInv
    <2>3. /\ refCount' = IF step'[Setter] = "setMode" THEN 1 ELSE IF "data" \in freed' THEN -1 ELSE 0
          /\ "data" \in freed' <=> "connect" \in freed' /\ linked'
      BY <1>1, <2>1, <2>2 DEF HostInv, AutoInv
    <2> QED
      BY <1>1, <2>3 DEF HostInv, AutoInv
  <1>11. mode = "own" /\ ~ stray => OwnInv'
    <2> SUFFICES ASSUME mode = "own", ~ stray PROVE OwnInv'
      OBVIOUS
    <2>1. linked => useCount > 1
      BY <1>3, <1>5, LinkedIsKept DEF HostInv, SetSteps, One
    <2>2. refCount' = refCount /\ ("data" \in freed' <=> "data" \in freed)
      BY <1>1, <2>1 DEF HostInv, HostDataTypeOK
    <2> QED
      BY <1>1, <2>2 DEF HostInv, OwnInv, ByConnect
  <1> QED
    BY <1>1, <1>6, <1>7, <1>8, <1>9, <1>10, <1>11 DEF HostInv

LEMMA GetHostKeeps ==
  ASSUME HostInv, NEW t \in Hosts, GetHost(t)
  PROVE  HostInv'
  <1>1. /\ UNCHANGED <<mode, step, engine, linked, autoFreeData, keeper, refCount, autoFree, hostRef, proxy, setting,
                       owned, stray, freed>>
        /\ step[t] = "using" /\ hosts[t] < 2 /\ (proxy \/ hostRef)
        /\ hosts' = [hosts EXCEPT ![t] = @ + 1] /\ useCount' = useCount + 1
        /\ Users' = Users
    BY DEF GetHost, CopyHost, Does, theData, history, Users, HostInv, HostDataTypeOK
  <1>2. /\ Cardinality(Copies') = Cardinality(Copies) + 1
        /\ hosts' \in [Hosts -> 0 .. 2] /\ \A u \in Hosts : hosts'[u] = IF u = t THEN hosts[t] + 1 ELSE hosts[u]
    <2>1. Cardinality(Copies') = Cardinality(Copies) + 1
      BY <1>1, MoreCopies DEF HostInv
    <2> QED
      BY <1>1, <2>1 DEF HostInv, HostDataTypeOK
  <1>3. /\ Cardinality(Copies) \in Nat /\ One(engine) \in 0 .. 1 /\ One(hostRef) \in 0 .. 1
        /\ useCount = Cardinality(Copies) + One(engine) + One(hostRef)
    BY CopiesFinite DEF One, HostInv, UseInv
  <1>4. useCount > 0
    <2>1. CASE hostRef
      BY <1>3, <2>1 DEF One
    <2>2. CASE proxy
      <3>1. hosts[t] > 0
        BY <1>1, <2>2 DEF HostInv, UseInv, AutoInv
      <3> QED
        BY <1>3, <3>1, OneCopy DEF HostInv
    <2> QED
      BY <1>1, <2>1, <2>2
  <1>5. HostDataTypeOK'
    BY <1>1, <1>2 DEF HostInv, HostDataTypeOK
  <1>6. StepInv'
    BY <1>1, <1>2 DEF HostInv, HostDataTypeOK, StepInv
  <1>7. UseInv'
    BY <1>1, <1>2, <1>3, <1>4 DEF HostInv, UseInv
  <1>8. SetInv'
    BY <1>1 DEF HostInv, SetInv
  <1>9. AutoInv => AutoInv'
    BY <1>1, <1>2 DEF HostInv, HostDataTypeOK, AutoInv
  <1>10. OwnInv => OwnInv'
    BY <1>1 DEF OwnInv, ByConnect
  <1> QED
    BY <1>1, <1>5, <1>6, <1>7, <1>8, <1>9, <1>10 DEF HostInv

-----------------------------------------------------------------------------
(* References to data are released.  Data that is not released by the       *)
(* connection has one more reference than it counts.                       *)
LEMMA ReleaseDataIs ==
  ASSUME HostInv, ReleaseData, Copies' = Copies, engine' = engine, proxy' = proxy, mode' = mode
  PROVE  /\ refCount' \in Int /\ useCount' \in Nat /\ freed' \subseteq {"connect", "data"}
         /\ UseInv'
         /\ hostRef' \in BOOLEAN /\ (hostRef' => hostRef)
         /\ refCount # 0 => hostRef' = hostRef /\ freed' = freed
         /\ ~ hostRef => refCount' = refCount - 1 /\ (refCount = 0 => freed' = freed \union {"data"})
  <1>1. /\ Cardinality(Copies) \in Nat /\ One(engine) \in 0 .. 1 /\ One(hostRef) \in 0 .. 1
        /\ useCount = Cardinality(Copies) + One(engine) + One(hostRef)
    BY CopiesFinite DEF One, HostInv, UseInv
  <1>2. hostRef \in BOOLEAN /\ refCount \in Int /\ useCount \in Nat /\ freed \subseteq {"connect", "data"}
    BY DEF HostInv, HostDataTypeOK
  <1>3. CASE refCount = 0 /\ hostRef
    <2>1. One(hostRef) = 1 /\ One(hostRef') = 0 /\ hostRef' = FALSE
      BY <1>3 DEF ReleaseData, One
    <2>2. /\ useCount' = useCount - 1
          /\ freed' = freed \union {"data"} \union
               (IF useCount = 1 THEN {"connect"} \union (IF linked /\ refCount = 0 THEN {"data"} ELSE {}) ELSE {})
          /\ refCount' = refCount - (IF useCount = 1 /\ linked THEN 1 ELSE 0) - 1
      BY <1>3 DEF ReleaseData, DropConnect
    <2>3. useCount' \in Nat /\ useCount' = Cardinality(Copies') + One(engine') + One(hostRef')
      BY <1>1, <2>1, <2>2
    <2>4. UseInv'
      BY <1>1, <2>1, <2>2, <2>3 DEF HostInv, UseInv
    <2>5. refCount' \in Int
      BY <1>2, <2>2
    <2>6. freed' \subseteq {"connect", "data"}
      BY <1>2, <2>2
    <2> QED
      BY <1>3, <2>1, <2>3, <2>4, <2>5, <2>6
  <1>4. CASE refCount = 0 /\ ~ hostRef
    <2>1. hostRef' = FALSE /\ refCount' = -1 /\ freed' = freed \union {"data"} /\ useCount' = useCount
      BY <1>4 DEF ReleaseData
    <2>2. UseInv'
      BY <1>2, <1>4, <2>1 DEF HostInv, UseInv
    <2>3. freed' \subseteq {"connect", "data"}
      BY <1>2, <2>1
    <2>4. refCount' \in Int /\ refCount' = refCount - 1 /\ useCount' \in Nat
      BY <1>2, <1>4, <2>1
    <2> QED
      BY <1>4, <2>1, <2>2, <2>3, <2>4
  <1>5. CASE refCount # 0
    <2>1. hostRef' = hostRef /\ refCount' = refCount - 1 /\ freed' = freed /\ useCount' = useCount
      BY <1>5 DEF ReleaseData
    <2>2. UseInv'
      BY <2>1 DEF HostInv, UseInv
    <2> QED
      BY <1>2, <1>5, <2>1, <2>2
  <1> QED
    BY <1>3, <1>4, <1>5

LEMMA ReleaseKeeps ==
  ASSUME HostInv, NEW t \in Hosts, Release(t)
  PROVE  HostInv'
  <1>1. /\ UNCHANGED <<mode, hosts, engine, linked, autoFreeData, keeper, autoFree, proxy, setting, owned, stray>>
        /\ step[t] = "release" /\ ToStep(t, "free") /\ "data" \notin freed
        /\ Copies' = Copies
    BY DEF Release, Does, Touches, InData, Copies
  <1>2. /\ step' \in [Hosts -> HostSteps]
        /\ \A u \in Hosts : step'[u] = IF u = t THEN "free" ELSE step[u]
        /\ Cardinality(Users') = Cardinality(Users) - 1 /\ Cardinality(Users) > 0
    <2>1. One("free" \in {"using", "release"}) = 0 /\ One(step[t] \in {"using", "release"}) = 1 /\ t \in Users
      BY <1>1 DEF One, Users
    <2>2. "free" \in HostSteps
      BY DEF HostSteps
    <2> QED
      BY <1>1, <2>1, <2>2, StepIs, SomeUser, UsersFinite DEF HostInv
  <1>3. /\ refCount' \in Int /\ useCount' \in Nat /\ freed' \subseteq {"connect", "data"}
        /\ UseInv'
        /\ hostRef' \in BOOLEAN /\ (hostRef' => hostRef)
        /\ refCount # 0 => hostRef' = hostRef /\ freed' = freed
        /\ ~ hostRef => refCount' = refCount - 1 /\ (refCount = 0 => freed' = freed \union {"data"})
        /\ refCount # 0 => refCount' = refCount - 1
    BY <1>1, ReleaseDataIs DEF Release, ReleaseData
  <1>4. HostDataTypeOK'
    BY <1>1, <1>2, <1>3 DEF HostInv, HostDataTypeOK, HostSteps
  <1>5. StepInv'
    BY <1>1, <1>2 DEF HostInv, StepInv, InConnect, SetSteps, Making, Leaving
  <1>6. SetInv'
    BY <1>1, <1>2, <1>3, HostDataAssumption DEF HostInv, SetInv, SetSteps, Making, Leaving
  <1>7. mode # "auto"
    BY <1>1 DEF HostInv, AutoInv
  <1>8. mode = "own" /\ ~ stray => OwnInv'
    <2> SUFFICES ASSUME OwnInv, mode = "own" PROVE OwnInv'
      BY DEF HostInv
    <2>1. /\ refCount + 1 = One(owned # "gone") + One(ByConnect) + Cardinality(Users)
          /\ One(owned # "gone") \in Nat /\ One(ByConnect) \in Nat /\ refCount \in Int
          /\ Cardinality(Users) \in Nat
      BY UsersFinite DEF OwnInv, One, HostInv, HostDataTypeOK
    <2>2. ByConnect' <=> ByConnect
      BY <1>1, <1>2, HostDataAssumption DEF ByConnect
    <2>3. One(ByConnect') = One(ByConnect)
      BY <2>2 DEF One
    <2>4. refCount >= 0
      BY <1>2, <2>1
    <2>5. refCount = 0 => ~ hostRef
      <3>1. refCount = 0 => ~ ByConnect
        BY <1>2, <2>1 DEF One
      <3> QED
        BY <3>1 DEF HostInv, SetInv, ByConnect, Leaving
    <2>6. refCount' = refCount - 1 /\ ("data" \in freed' <=> refCount = 0)
      BY <1>1, <1>3, <2>5
    <2>7. refCount' + 1 = One(owned' # "gone") + One(ByConnect') + Cardinality(Users')
      BY <1>1, <1>2, <2>1, <2>3, <2>6
    <2>8. "data" \in freed' <=> refCount' = -1
      BY <2>1, <2>6
    <2>9. step'[Setter] = "setLink" \/ (linked' /\ step'[Setter] \notin Leaving) => hostRef'
      <3>1. step[Setter] = "setLink" \/ (linked /\ step[Setter] \notin Leaving) => ByConnect /\ refCount # 0
        BY <1>2, <2>1 DEF ByConnect, Leaving, One
      <3> QED
        BY <1>1, <1>2, <1>3, <3>1, HostDataAssumption DEF OwnInv, Leaving
    <2> QED
      BY <1>1, <2>7, <2>8, <2>9 DEF OwnInv
  <1> QED
    BY <1>1, <1>3, <1>4, <1>5, <1>6, <1>7, <1>8 DEF HostInv, HostDataTypeOK

LEMMA SetReleaseKeeps ==
  ASSUME HostInv, SetRelease
  PROVE  HostInv'
  <1>1. /\ UNCHANGED <<mode, hosts, engine, linked, autoFreeData, keeper, autoFree, proxy, setting, owned, stray>>
        /\ step[Setter] = "setRelease" /\ ToStep(Setter, "setNull") /\ "data" \notin freed
        /\ Copies' = Copies
    BY DEF SetRelease, Does, Touches, InData, history, Copies
  <1>2. /\ step' \in [Hosts -> HostSteps]
        /\ \A u \in Hosts : step'[u] = IF u = Setter THEN "setNull" ELSE step[u]
        /\ Cardinality(Users') = Cardinality(Users)
    <2>1. One("setNull" \in {"using", "release"}) = 0 /\ One(step[Setter] \in {"using", "release"}) = 0
      BY <1>1 DEF One
    <2>2. "setNull" \in HostSteps
      BY DEF HostSteps, InConnect
    <2> QED
      BY <1>1, <2>1, <2>2, StepIs, UsersFinite, HostDataAssumption DEF HostInv
  <1>3. /\ refCount' \in Int /\ useCount' \in Nat /\ freed' \subseteq {"connect", "data"}
        /\ UseInv'
        /\ hostRef' \in BOOLEAN /\ (hostRef' => hostRef)
        /\ refCount # 0 => hostRef' = hostRef /\ freed' = freed
        /\ ~ hostRef => refCount' = refCount - 1 /\ (refCount = 0 => freed' = freed \union {"data"})
    BY <1>1, ReleaseDataIs DEF SetRelease
  <1>4. HostDataTypeOK'
    BY <1>1, <1>2, <1>3 DEF HostInv, HostDataTypeOK, HostSteps
  <1>5. StepInv'
    BY <1>1, <1>2 DEF HostInv, StepInv, InConnect, SetSteps, Making, Leaving
  <1>6. SetInv' /\ ~ hostRef
    BY <1>1, <1>2, <1>3, HostDataAssumption DEF HostInv, SetInv, SetSteps, Making, Leaving
  <1>7. mode # "auto"
    BY <1>1 DEF HostInv, AutoInv, Leaving
  <1>8. mode = "own" /\ ~ stray => OwnInv'
    <2> SUFFICES ASSUME OwnInv, mode = "own" PROVE OwnInv'
      BY DEF HostInv
    <2>1. /\ refCount + 1 = One(owned # "gone") + One(ByConnect) + Cardinality(Users)
          /\ One(owned # "gone") \in Nat /\ refCount \in Int
          /\ Cardinality(Users) \in Nat
      BY UsersFinite DEF OwnInv, One, HostInv, HostDataTypeOK
    <2>2. ByConnect /\ ~ ByConnect'
      BY <1>1, <1>2, HostDataAssumption DEF ByConnect, HostInv, SetInv, Leaving
    <2>3. One(ByConnect) = 1 /\ One(ByConnect') = 0
      BY <2>2 DEF One
    <2>4. refCount >= 0
      BY <2>1, <2>3
    <2>5. refCount' = refCount - 1 /\ ("data" \in freed' <=> refCount = 0)
      BY <1>1, <1>3, <1>6
    <2>6. refCount' + 1 = One(owned' # "gone") + One(ByConnect') + Cardinality(Users')
      BY <1>1, <1>2, <2>1, <2>3, <2>5
    <2>7. "data" \in freed' <=> refCount' = -1
      BY <2>1, <2>5
    <2> QED
      BY <1>1, <1>2, <2>6, <2>7, HostDataAssumption DEF OwnInv, Leaving
  <1> QED
    BY <1>1, <1>3, <1>4, <1>5, <1>6, <1>7, <1>8 DEF HostInv, HostDataTypeOK

(* The creator's own reference becomes one that is being released.         *)
LEMMA ReleaseOwnKeeps ==
  ASSUME HostInv, ReleaseOwn
  PROVE  HostInv'
  <1>1. /\ UNCHANGED <<mode, hosts, engine, useCount, linked, autoFreeData, keeper, refCount, autoFree, hostRef, proxy,
                       setting, stray, freed>>
        /\ mode = "own" /\ owned = "held" /\ owned' = "gone"
        /\ step[Setter] = "free" /\ ToStep(Setter, "release")
        /\ Copies' = Copies
    BY DEF ReleaseOwn, Does, theConnect, theData, Copies
  <1>2. /\ step' \in [Hosts -> HostSteps]
        /\ \A u \in Hosts : step'[u] = IF u = Setter THEN "release" ELSE step[u]
        /\ Cardinality(Users') = Cardinality(Users) + 1
    <2>1. One("release" \in {"using", "release"}) = 1 /\ One(step[Setter] \in {"using", "release"}) = 0
      BY <1>1 DEF One
    <2>2. "release" \in HostSteps
      BY DEF HostSteps, InData
    <2> QED
      BY <1>1, <2>1, <2>2, StepIs, UsersFinite, HostDataAssumption DEF HostInv
  <1>3. HostDataTypeOK'
    BY <1>1, <1>2 DEF HostInv, HostDataTypeOK, HostSteps
  <1>4. StepInv'
    BY <1>1, <1>2 DEF HostInv, StepInv, InConnect, SetSteps, Making, Leaving
  <1>5. UseInv'
    BY <1>1 DEF HostInv, UseInv
  <1>6. SetInv'
    BY <1>1, <1>2, HostDataAssumption DEF HostInv, SetInv, SetSteps, Making, Leaving
  <1>7. OwnInv => OwnInv'
    <2>1. ByConnect' <=> ByConnect
      BY <1>1, <1>2, HostDataAssumption DEF ByConnect
    <2>2. /\ One(ByConnect') = One(ByConnect) /\ One(ByConnect) \in Nat
          /\ One(owned # "gone") = 1 /\ One(owned' # "gone") = 0
      BY <1>1, <2>1 DEF One
    <2>3. OwnInv => refCount' + 1 = One(owned' # "gone") + One(ByConnect') + Cardinality(Users')
      BY <1>1, <1>2, <2>2, UsersFinite DEF OwnInv
    <2> QED
      BY <1>1, <1>2, <2>3, HostDataAssumption DEF OwnInv, Leaving
  <1> QED
    BY <1>1, <1>3, <1>4, <1>5, <1>6, <1>7 DEF HostInv

-----------------------------------------------------------------------------
(* SetData.  The thread that sets goes on from one step to another.        *)
LEMMA SetterSteps ==
  ASSUME HostInv, NEW s \in HostSteps \ {"using", "release"}, ToStep(Setter, s), step[Setter] \notin {"using", "release"}
  PROVE  /\ step' \in [Hosts -> HostSteps]
         /\ \A u \in Hosts : step'[u] = IF u = Setter THEN s ELSE step[u]
         /\ step'[Setter] = s
         /\ Cardinality(Users') = Cardinality(Users)
  <1>1. One(s \in {"using", "release"}) = 0 /\ One(step[Setter] \in {"using", "release"}) = 0
    BY DEF One
  <1>2. /\ step' \in [Hosts -> HostSteps]
        /\ \A u \in Hosts : step'[u] = IF u = Setter THEN s ELSE step[u]
        /\ Cardinality(Users') = Cardinality(Users) + One(s \in {"using", "release"})
                                   - One(step[Setter] \in {"using", "release"})
    BY StepIs, HostDataAssumption DEF HostInv
  <1> QED
    BY <1>1, <1>2, UsersFinite, HostDataAssumption

LEMMA SetDataKeeps ==
  ASSUME HostInv, NEW d \in BOOLEAN, NEW a \in BOOLEAN, SetData(d, a)
  PROVE  HostInv'
  <1>1. /\ UNCHANGED <<mode, hosts, engine, useCount, linked, autoFreeData, keeper, refCount, autoFree, hostRef, proxy,
                       stray, freed>>
        /\ step[Setter] = "free" /\ hosts[Setter] > 0 /\ ToStep(Setter, "setAuto")
        /\ setting' = [data |-> d, auto |-> a]
        /\ IF d THEN owned = "none" /\ owned' = (IF mode = "own" THEN "held" ELSE "gone") /\ a = (mode = "auto")
           ELSE owned # "none" /\ owned' = owned
        /\ Copies' = Copies
    BY DEF SetData, Does, theConnect, theData, Copies
  <1>2. /\ step' \in [Hosts -> HostSteps]
        /\ \A u \in Hosts : step'[u] = IF u = Setter THEN "setAuto" ELSE step[u]
        /\ step'[Setter] = "setAuto"
        /\ Cardinality(Users') = Cardinality(Users)
    BY <1>1, SetterSteps DEF HostSteps, InConnect
  <1>3. setting' \in [data : BOOLEAN, auto : BOOLEAN] /\ setting'.data = d /\ setting'.auto = a
    BY <1>1
  <1>4. owned' \in {"none", "held", "gone"}
    BY <1>1 DEF HostInv, HostDataTypeOK
  <1>5. HostDataTypeOK'
    BY <1>1, <1>2, <1>3, <1>4 DEF HostInv, HostDataTypeOK, HostSteps
  <1>6. StepInv'
    BY <1>1, <1>2 DEF HostInv, StepInv, InConnect, SetSteps, Making, Leaving
  <1>7. UseInv'
    BY <1>1 DEF HostInv, UseInv
  <1>8. SetInv'
    <2>1. d => ~ linked
      BY <1>1 DEF HostInv, SetInv
    <2>2. hostRef => linked
      BY <1>1 DEF HostInv, SetInv
    <2>3. linked => owned' # "none"
      BY <1>1 DEF HostInv, SetInv
    <2>4. owned' # "none"
      BY <1>1
    <2> QED
      BY <1>1, <1>2, <1>3, <2>1, <2>2, <2>3, <2>4 DEF SetInv, SetSteps, Making, Leaving
  <1>9. mode = "auto" => AutoInv'
    <2> SUFFICES ASSUME mode = "auto" PROVE AutoInv'
      OBVIOUS
    <2>1. AutoInv
      BY DEF HostInv
    <2>2. owned' # "held" /\ (owned' = "gone" => linked \/ d)
      BY <1>1, <2>1 DEF AutoInv, SetSteps, Making, Leaving
    <2>3. \A u \in Hosts : step'[u] # "release" /\ (step'[u] = "using" => hosts[u] > 0)
      BY <1>2, <2>1 DEF AutoInv
    <2>4. refCount = IF step'[Setter] = "setMode" THEN 1 ELSE IF "data" \in freed THEN -1 ELSE 0
      BY <1>1, <1>2, <2>1 DEF AutoInv
    <2> QED
      BY <1>1, <1>2, <1>3, <2>1, <2>2, <2>3, <2>4 DEF AutoInv, SetSteps, Making, Leaving
  <1>10. mode = "own" /\ ~ stray => OwnInv'
    <2> SUFFICES ASSUME OwnInv, mode = "own" PROVE OwnInv'
      BY DEF HostInv
    <2>1. (ByConnect' <=> ByConnect) /\ (owned' # "gone" <=> owned # "gone")
      BY <1>1, <1>2 DEF ByConnect
    <2>2. One(ByConnect') = One(ByConnect) /\ One(owned' # "gone") = One(owned # "gone")
      BY <2>1 DEF One
    <2> QED
      BY <1>1, <1>2, <2>2 DEF OwnInv, Leaving
  <1> QED
    BY <1>1, <1>5, <1>6, <1>7, <1>8, <1>9, <1>10 DEF HostInv

LEMMA SetAutoKeeps ==
  ASSUME HostInv, SetAuto
  PROVE  HostInv'
  <1>1. /\ UNCHANGED <<mode, hosts, engine, useCount, linked, keeper, refCount, autoFree, hostRef, proxy,
                       setting, owned, stray, freed>>
        /\ autoFreeData' = setting.auto
        /\ step[Setter] = "setAuto" /\ ToStep(Setter, "setOld")
        /\ Copies' = Copies
    BY DEF SetAuto, Does, theData, history, Copies
  <1>2. /\ step' \in [Hosts -> HostSteps]
        /\ \A u \in Hosts : step'[u] = IF u = Setter THEN "setOld" ELSE step[u]
        /\ step'[Setter] = "setOld"
        /\ Cardinality(Users') = Cardinality(Users)
    BY <1>1, SetterSteps DEF HostSteps, InConnect
  <1>3. HostDataTypeOK'
    BY <1>1, <1>2 DEF HostInv, HostDataTypeOK, HostSteps
  <1>4. StepInv'
    BY <1>1, <1>2 DEF HostInv, StepInv, InConnect, SetSteps, Making, Leaving
  <1>5. UseInv'
    BY <1>1 DEF HostInv, UseInv
  <1>6. SetInv'
    BY <1>1, <1>2 DEF HostInv, SetInv, SetSteps, Making, Leaving
  <1>7. AutoInv => AutoInv'
    BY <1>1, <1>2 DEF AutoInv, SetSteps, Making, Leaving
  <1>8. OwnInv => OwnInv'
    BY <1>1, <1>2 DEF OwnInv, ByConnect, Leaving
  <1> QED
    BY <1>1, <1>3, <1>4, <1>5, <1>6, <1>7, <1>8 DEF HostInv

\* What the data keeps of the host goes; the thread that sets has one.
LEMMA SetOldKeeps ==
  ASSUME HostInv, SetOld
  PROVE  HostInv'
  <1>1. /\ UNCHANGED <<mode, hosts, engine, linked, autoFreeData, keeper, autoFree, proxy,
                       setting, owned, stray>>
        /\ step[Setter] = "setOld"
        /\ Copies' = Copies
    BY DEF SetOld, Does, history, Copies
  <1>2. PICK s \in HostSteps \ {"using", "release"} :
          /\ ToStep(Setter, s)
          /\ \/ ~ linked /\ setting.data /\ s = "setCount"
             \/ ~ linked /\ ~ setting.data /\ s = "free"
             \/ linked /\ autoFree /\ s = "free"
             \/ linked /\ ~ autoFree /\ s = "setLock"
    BY DEF SetOld, HostSteps, InData, InConnect, HostInv, HostDataTypeOK
  <1>3. /\ step' \in [Hosts -> HostSteps]
        /\ \A u \in Hosts : step'[u] = IF u = Setter THEN s ELSE step[u]
        /\ step'[Setter] = s
        /\ Cardinality(Users') = Cardinality(Users)
    BY <1>1, <1>2, SetterSteps
  <1>4. /\ Cardinality(Copies) \in Nat \ {0} /\ One(engine) \in 0 .. 1 /\ One(hostRef) \in 0 .. 1
        /\ useCount = Cardinality(Copies) + One(engine) + One(hostRef)
    <2>1. Cardinality(Copies) > 0
      BY <1>1, OneCopy, HostDataAssumption DEF HostInv, StepInv, InConnect
    <2> QED
      BY <2>1, CopiesFinite DEF One, HostInv, UseInv
  <1>5. /\ UseInv' /\ freed' = freed /\ refCount' = refCount /\ useCount' \in Nat
        /\ hostRef' = (hostRef /\ ~ (linked /\ ~ autoFree))
    <2>1. hostRef \in BOOLEAN /\ useCount \in Nat /\ refCount \in Int
      BY DEF HostInv, HostDataTypeOK
    <2>2. CASE linked /\ ~ autoFree /\ hostRef
      <3>1. hostRef' = FALSE /\ One(hostRef) = 1 /\ One(hostRef') = 0
        BY <2>2 DEF SetOld, One
      <3>2. useCount > 1
        BY <1>4, <3>1
      <3>3. /\ useCount' = useCount - 1
            /\ freed' = freed \union {} \union (IF useCount = 1 THEN {"connect"} \union
                                                    (IF linked /\ refCount = 0 THEN {"data"} ELSE {}) ELSE {})
            /\ refCount' = refCount - (IF useCount = 1 /\ linked THEN 1 ELSE 0) - 0
        BY <2>2 DEF SetOld, DropConnect
      <3>4. freed' = freed /\ refCount' = refCount
        BY <2>1, <3>2, <3>3
      <3>5. useCount' \in Nat \ {0} /\ useCount' = Cardinality(Copies') + One(engine') + One(hostRef')
        BY <1>1, <1>4, <3>1, <3>2, <3>3
      <3>6. "connect" \notin freed
        BY <3>2, <2>1 DEF HostInv, UseInv
      <3>7. UseInv'
        BY <1>1, <3>4, <3>5, <3>6 DEF HostInv, UseInv
      <3> QED
        BY <2>2, <3>1, <3>4, <3>5, <3>7
    <2>3. CASE ~ (linked /\ ~ autoFree /\ hostRef)
      <3>1. freed' = freed /\ refCount' = refCount /\ useCount' = useCount /\ (hostRef' <=> hostRef /\ ~ (linked /\ ~ autoFree))
        BY <2>3 DEF SetOld
      <3>2. hostRef' = (hostRef /\ ~ (linked /\ ~ autoFree)) /\ (hostRef' <=> hostRef)
        BY <2>1, <2>3, <3>1 DEF SetOld
      <3>3. One(hostRef') = One(hostRef)
        BY <3>2 DEF One
      <3>4. UseInv'
        BY <1>1, <3>1, <3>3 DEF HostInv, UseInv
      <3> QED
        BY <2>1, <3>1, <3>2, <3>4
    <2> QED
      BY <2>2, <2>3
  <1>6. HostDataTypeOK'
    <2>1. hostRef' \in BOOLEAN
      BY <1>5
    <2> QED
      BY <1>1, <1>3, <1>5, <2>1 DEF HostInv, HostDataTypeOK, HostSteps
  <1>7. StepInv'
    BY <1>1, <1>2, <1>3 DEF HostInv, StepInv, InConnect, SetSteps, Making, Leaving
  <1>8. SetInv'
    BY <1>1, <1>2, <1>3, <1>5 DEF HostInv, SetInv, SetSteps, Making, Leaving
  <1>9. mode = "auto" => AutoInv'
    BY <1>1, <1>2, <1>3, <1>5 DEF HostInv, SetInv, AutoInv, SetSteps, Making, Leaving
  <1>10. OwnInv => OwnInv'
    BY <1>1, <1>2, <1>3, <1>5 DEF OwnInv, ByConnect, Leaving
  <1> QED
    BY <1>1, <1>5, <1>6, <1>7, <1>8, <1>9, <1>10 DEF HostInv

LEMMA SetNullKeeps ==
  ASSUME HostInv, SetNull
  PROVE  HostInv'
  <1>1. /\ UNCHANGED <<mode, hosts, engine, useCount, autoFreeData, refCount, autoFree, hostRef, proxy,
                       setting, owned, stray, freed>>
        /\ linked' = FALSE /\ keeper' = NoThread
        /\ step[Setter] = "setNull"
        /\ Copies' = Copies
    BY DEF SetNull, Does, theData, history, Copies
  <1>2. PICK s \in {"free", "setCount"} : ToStep(Setter, s) /\ (s = "setCount" => setting.data)
    BY DEF SetNull
  <1>3. /\ step' \in [Hosts -> HostSteps]
        /\ \A u \in Hosts : step'[u] = IF u = Setter THEN s ELSE step[u]
        /\ step'[Setter] = s
        /\ Cardinality(Users') = Cardinality(Users)
    BY <1>1, <1>2, SetterSteps DEF HostSteps, InConnect, InData
  <1>4. mode # "auto" /\ s = "free" /\ ~ hostRef
    BY <1>1, <1>2 DEF HostInv, AutoInv, SetInv, Leaving
  <1>5. HostDataTypeOK'
    BY <1>1, <1>3 DEF HostInv, HostDataTypeOK, HostSteps
  <1>6. StepInv'
    <2>1. \A u \in Hosts : keeper' = u <=> step'[u] \in {"getLocked", "setRelease", "setNull"}
      BY <1>1, <1>3, <1>4, HostDataAssumption DEF HostInv, StepInv
    <2> QED
      BY <1>1, <1>3, <1>4, <2>1 DEF HostInv, StepInv, InConnect, SetSteps, Making, Leaving
  <1>7. UseInv'
    BY <1>1 DEF HostInv, UseInv
  <1>8. SetInv'
    BY <1>1, <1>3, <1>4 DEF HostInv, SetInv, SetSteps, Making, Leaving
  <1>9. OwnInv => OwnInv'
    <2>1. (ByConnect' <=> ByConnect)
      BY <1>1, <1>3, <1>4 DEF ByConnect
    <2>2. One(ByConnect') = One(ByConnect)
      BY <2>1 DEF One
    <2> QED
      BY <1>1, <1>3, <1>4, <2>2 DEF OwnInv, Leaving
  <1> QED
    BY <1>1, <1>4, <1>5, <1>6, <1>7, <1>8, <1>9 DEF HostInv

\* While the connection is not deleted, the data it would free is not either.
LEMMA NotFreed ==
  ASSUME HostInv, step[Setter] \in SetSteps
  PROVE  "connect" \notin freed /\ useCount > 0 /\ (mode = "auto" => "data" \notin freed)
  <1>1. Cardinality(Copies) > 0
    BY OneCopy, HostDataAssumption DEF HostInv, StepInv
  <1>2. useCount > 0
    BY <1>1, CopiesFinite DEF HostInv, UseInv, One
  <1> QED
    BY <1>2 DEF HostInv, UseInv, AutoInv

LEMMA SetCountKeeps ==
  ASSUME HostInv, SetCount
  PROVE  HostInv'
  <1>1. /\ UNCHANGED <<mode, hosts, engine, useCount, linked, autoFreeData, keeper, hostRef, proxy,
                       setting, owned, stray, freed>>
        /\ refCount' = refCount + 1 /\ autoFree' = setting.auto
        /\ step[Setter] = "setCount"
        /\ Copies' = Copies
    BY DEF SetCount, Does, theConnect, history, Copies
  <1>2. PICK s \in {"free", "setMode"} : ToStep(Setter, s) /\ (s = "free" <=> refCount = -1)
    BY DEF SetCount
  <1>3. /\ step' \in [Hosts -> HostSteps]
        /\ \A u \in Hosts : step'[u] = IF u = Setter THEN s ELSE step[u]
        /\ step'[Setter] = s
        /\ Cardinality(Users') = Cardinality(Users)
    BY <1>1, <1>2, SetterSteps DEF HostSteps, InConnect, InData
  <1>4. /\ setting.data /\ setting.auto = (mode = "auto") /\ ~ linked /\ ~ hostRef
        /\ owned = (IF mode = "own" THEN "held" ELSE "gone")
    BY <1>1 DEF HostInv, SetInv, SetSteps, Making
  <1>5. HostDataTypeOK'
    <2>1. refCount' \in Int /\ autoFree' \in BOOLEAN
      BY <1>1 DEF HostInv, HostDataTypeOK
    <2> QED
      BY <1>1, <1>3, <2>1 DEF HostInv, HostDataTypeOK, HostSteps
  <1>6. StepInv'
    BY <1>1, <1>2, <1>3 DEF HostInv, StepInv, InConnect, SetSteps, Making, Leaving
  <1>7. UseInv'
    BY <1>1 DEF HostInv, UseInv
  <1>8. SetInv'
    BY <1>1, <1>3, <1>4 DEF HostInv, SetInv, SetSteps, Making, Leaving
  <1>9. mode = "auto" => AutoInv'
    <2> SUFFICES ASSUME mode = "auto" PROVE AutoInv'
      OBVIOUS
    <2>1. "data" \notin freed
      BY <1>1, NotFreed DEF SetSteps, Making
    <2>2. refCount = 0
      BY <1>1, <2>1 DEF HostInv, AutoInv
    <2>3. s = "setMode" /\ refCount' = 1
      BY <1>1, <1>2, <2>2
    <2>4. autoFree' = TRUE
      BY <1>1, <1>4
    <2> QED
      BY <1>1, <1>3, <1>4, <2>1, <2>3, <2>4 DEF HostInv, AutoInv, SetSteps, Making, Leaving
  <1>10. mode = "own" /\ ~ stray => OwnInv'
    <2> SUFFICES ASSUME OwnInv, mode = "own" PROVE OwnInv'
      BY DEF HostInv
    <2>1. ~ ByConnect /\ owned # "gone"
      BY <1>1, <1>4 DEF ByConnect
    <2>2. One(ByConnect) = 0 /\ One(owned # "gone") = 1 /\ One(owned' # "gone") = 1
      BY <1>1, <2>1 DEF One
    <2>3. refCount = Cardinality(Users) /\ refCount >= 0 /\ refCount \in Int
      BY <2>2, UsersFinite DEF OwnInv, HostInv, HostDataTypeOK
    <2>4. s = "setMode"
      BY <1>2, <2>3
    <2>5. One(ByConnect') = 1
      BY <1>3, <2>4 DEF ByConnect, One
    <2>6. refCount' + 1 = One(owned' # "gone") + One(ByConnect') + Cardinality(Users')
      BY <1>1, <1>3, <2>2, <2>3, <2>5, UsersFinite
    <2>7. "data" \in freed' <=> refCount' = -1
      <3>1. refCount # -1 /\ refCount' # -1
        BY <1>1, <2>3
      <3> QED
        BY <1>1, <3>1 DEF OwnInv
    <2>8. ~ autoFree'
      BY <1>1, <1>4
    <2> QED
      BY <1>1, <1>3, <1>4, <2>4, <2>6, <2>7, <2>8 DEF OwnInv, Leaving
  <1> QED
    BY <1>1, <1>5, <1>6, <1>7, <1>8, <1>9, <1>10 DEF HostInv

LEMMA SetModeKeeps ==
  ASSUME HostInv, SetMode
  PROVE  HostInv'
  <1>1. /\ UNCHANGED <<mode, hosts, engine, linked, autoFreeData, keeper, autoFree,
                       setting, owned, stray, freed>>
        /\ step[Setter] = "setMode" /\ ToStep(Setter, "setLink")
        /\ Copies' = Copies
    BY DEF SetMode, Does, history, Copies
  <1>2. IF mode = "auto" THEN refCount' = refCount - 1 /\ proxy' = TRUE /\ useCount' = useCount /\ hostRef' = hostRef
        ELSE hostRef' = TRUE /\ useCount' = useCount + 1 /\ refCount' = refCount /\ proxy' = proxy
    <2>1. setting.auto = (mode = "auto")
      BY <1>1 DEF HostInv, SetInv, SetSteps, Making
    <2> QED
      BY <2>1 DEF SetMode
  <1>3. /\ step' \in [Hosts -> HostSteps]
        /\ \A u \in Hosts : step'[u] = IF u = Setter THEN "setLink" ELSE step[u]
        /\ step'[Setter] = "setLink"
        /\ Cardinality(Users') = Cardinality(Users)
    BY <1>1, SetterSteps DEF HostSteps, InConnect, InData
  <1>4. /\ setting.data /\ setting.auto = (mode = "auto") /\ ~ linked /\ ~ hostRef
        /\ owned = (IF mode = "own" THEN "held" ELSE "gone")
    BY <1>1 DEF HostInv, SetInv, SetSteps, Making
  <1>5. "connect" \notin freed /\ useCount > 0 /\ (mode = "auto" => "data" \notin freed)
    BY <1>1, NotFreed DEF SetSteps, Making
  <1>6. refCount \in Int /\ useCount \in Nat /\ hostRef \in BOOLEAN /\ proxy \in BOOLEAN /\ mode \in {"auto", "own"}
    BY DEF HostInv, HostDataTypeOK
  <1>7. refCount' \in Int /\ useCount' \in Nat \ {0} /\ hostRef' \in BOOLEAN /\ proxy' \in BOOLEAN
    <2>1. refCount' \in {refCount, refCount - 1} /\ useCount' \in {useCount, useCount + 1}
      BY <1>2
    <2>2. hostRef' = hostRef \/ hostRef' = TRUE
      BY <1>2
    <2>3. proxy' = proxy \/ proxy' = TRUE
      BY <1>2
    <2>4. refCount' \in Int /\ useCount' \in Nat \ {0}
      BY <1>5, <1>6, <2>1
    <2>5. hostRef' \in BOOLEAN /\ proxy' \in BOOLEAN
      BY ONLY <1>6, <2>2, <2>3
    <2> QED
      BY <2>4, <2>5
  <1>8. HostDataTypeOK'
    BY <1>1, <1>3, <1>7 DEF HostInv, HostDataTypeOK, HostSteps
  <1>9. StepInv'
    BY <1>1, <1>3 DEF HostInv, StepInv, InConnect, SetSteps, Making, Leaving
  <1>10. UseInv'
    <2>1. One(hostRef) = 0
      BY <1>4 DEF One
    <2>2. useCount = Cardinality(Copies) + One(engine) /\ Cardinality(Copies) \in Nat /\ One(engine) \in 0 .. 1
      BY <2>1, CopiesFinite DEF HostInv, UseInv, One
    <2>3. useCount' = Cardinality(Copies') + One(engine') + One(hostRef')
      BY <1>1, <1>2, <1>4, <2>1, <2>2 DEF One
    <2>4. proxy' => mode' = "auto"
      BY <1>1, <1>2, <1>4, <1>6 DEF HostInv, UseInv
    <2> QED
      BY <1>1, <1>5, <1>7, <2>3, <2>4 DEF UseInv
  <1>11. SetInv'
    BY <1>1, <1>3, <1>4 DEF HostInv, SetInv, SetSteps, Making, Leaving
  <1>12. mode = "auto" => AutoInv'
    <2> SUFFICES ASSUME mode = "auto" PROVE AutoInv'
      OBVIOUS
    <2>1. refCount = 1 /\ refCount' = 0 /\ hostRef' = hostRef /\ "data" \notin freed
      BY <1>1, <1>2, <1>4, <1>5 DEF HostInv, AutoInv
    <2> QED
      BY <1>1, <1>3, <1>4, <2>1 DEF HostInv, AutoInv, SetSteps, Making, Leaving
  <1>13. mode = "own" /\ ~ stray => OwnInv'
    <2> SUFFICES ASSUME OwnInv, mode = "own" PROVE OwnInv'
      BY DEF HostInv
    <2>1. One(ByConnect) = 1 /\ One(ByConnect') = 1
      BY <1>1, <1>3 DEF ByConnect, One
    <2>2. hostRef' /\ refCount' = refCount
      BY <1>2, <1>4
    <2> QED
      BY <1>1, <1>3, <2>1, <2>2 DEF OwnInv, Leaving
  <1> QED
    BY <1>1, <1>8, <1>9, <1>10, <1>11, <1>12, <1>13 DEF HostInv

LEMMA SetLinkKeeps ==
  ASSUME HostInv, SetLink
  PROVE  HostInv'
  <1>1. /\ UNCHANGED <<mode, hosts, engine, useCount, autoFreeData, keeper, refCount, autoFree, hostRef, proxy,
                       setting, owned, stray, freed>>
        /\ linked' = TRUE
        /\ step[Setter] = "setLink" /\ ToStep(Setter, "free")
        /\ Copies' = Copies
    BY DEF SetLink, Does, theData, history, Copies
  <1>2. /\ step' \in [Hosts -> HostSteps]
        /\ \A u \in Hosts : step'[u] = IF u = Setter THEN "free" ELSE step[u]
        /\ step'[Setter] = "free"
        /\ Cardinality(Users') = Cardinality(Users)
    BY <1>1, SetterSteps DEF HostSteps
  <1>3. /\ setting.data /\ ~ linked /\ owned # "none"
        /\ "connect" \notin freed /\ (mode = "auto" => "data" \notin freed)
    BY <1>1, NotFreed DEF HostInv, SetInv, SetSteps, Making
  <1>4. HostDataTypeOK'
    BY <1>1, <1>2 DEF HostInv, HostDataTypeOK, HostSteps
  <1>5. StepInv'
    BY <1>1, <1>2 DEF HostInv, StepInv, InConnect, SetSteps, Making, Leaving
  <1>6. UseInv'
    BY <1>1 DEF HostInv, UseInv
  <1>7. SetInv'
    BY <1>1, <1>2, <1>3 DEF SetInv, SetSteps, Making, Leaving
  <1>8. mode = "auto" => AutoInv'
    BY <1>1, <1>2, <1>3 DEF HostInv, AutoInv, SetSteps, Making, Leaving
  <1>9. OwnInv => OwnInv'
    <2>1. (ByConnect' <=> ByConnect)
      BY <1>1, <1>2 DEF ByConnect
    <2>2. One(ByConnect') = One(ByConnect)
      BY <2>1 DEF One
    <2> QED
      BY <1>1, <1>2, <2>2 DEF OwnInv, Leaving
  <1> QED
    BY <1>1, <1>4, <1>5, <1>6, <1>7, <1>8, <1>9 DEF HostInv

-----------------------------------------------------------------------------
LEMMA HostStepKeeps == HostInv /\ [HostDataNext]_hostDataVars => HostInv'
  <1> SUFFICES ASSUME HostInv, [HostDataNext]_hostDataVars PROVE HostInv'
    OBVIOUS
  <1>1. CASE EngineDrops
    BY <1>1, EngineDropsKeeps
  <1>2. ASSUME NEW t \in Hosts, DropHost(t) PROVE HostInv'
    BY <1>2, DropHostKeeps
  <1>3. ASSUME NEW t \in Hosts, GetData(t) \/ CheckAuto(t) \/ GetPlain(t) \/ EndUse(t) PROVE HostInv'
    BY <1>3, UseKeeps
  <1>4. ASSUME NEW t \in Hosts, GetLock(t) PROVE HostInv'
    BY <1>4, LockKeeps
  <1>5. ASSUME NEW t \in Hosts, GetLocked(t) PROVE HostInv'
    BY <1>5, GetLockedKeeps
  <1>6. ASSUME NEW t \in Hosts, GetHost(t) PROVE HostInv'
    BY <1>6, GetHostKeeps
  <1>7. ASSUME NEW t \in Hosts, Release(t) PROVE HostInv'
    BY <1>7, ReleaseKeeps
  <1>8. CASE ReleaseOwn
    BY <1>8, ReleaseOwnKeeps
  <1>9. ASSUME NEW d \in BOOLEAN, NEW a \in BOOLEAN, SetData(d, a) PROVE HostInv'
    BY <1>9, SetDataKeeps
  <1>10. CASE SetAuto
    BY <1>10, SetAutoKeeps
  <1>11. CASE SetOld
    BY <1>11, SetOldKeeps
  <1>12. CASE SetLock
    BY <1>12, LockKeeps, HostDataAssumption
  <1>13. CASE SetRelease
    BY <1>13, SetReleaseKeeps
  <1>14. CASE SetNull
    BY <1>14, SetNullKeeps
  <1>15. CASE SetCount
    BY <1>15, SetCountKeeps
  <1>16. CASE SetMode
    BY <1>16, SetModeKeeps
  <1>17. CASE SetLink
    BY <1>17, SetLinkKeeps
  <1>18. CASE UNCHANGED hostDataVars
    <2>1. UNCHANGED <<Copies, Users>>
      BY <1>18 DEF hostDataVars, Copies, Users
    <2>2. HostDataTypeOK'
      BY <1>18 DEF hostDataVars, HostInv, HostDataTypeOK
    <2>3. StepInv' /\ UseInv' /\ SetInv'
      BY <1>18, <2>1 DEF hostDataVars, HostInv, StepInv, UseInv, SetInv
    <2>4. (AutoInv => AutoInv') /\ (OwnInv => OwnInv')
      BY <1>18, <2>1 DEF hostDataVars, AutoInv, OwnInv, ByConnect
    <2> QED
      BY <1>18, <2>2, <2>3, <2>4 DEF hostDataVars, HostInv
  <1> QED
    BY <1>1, <1>2, <1>3, <1>4, <1>5, <1>6, <1>7, <1>8, <1>9, <1>10, <1>11, <1>12, <1>13, <1>14, <1>15,
       <1>16, <1>17, <1>18 DEF HostDataNext

(* Counts and flags stay in their types, for any number of threads.        *)
THEOREM HostTypeCorrect == HostDataSpec => []HostDataTypeOK
  <1>1. HostInv => HostDataTypeOK
    BY DEF HostInv
  <1> QED
    BY <1>1, InitHost, HostStepKeeps, PTL DEF HostDataSpec

(* A thread that uses the data, or its connection, is one of its users.    *)
LEMMA UsersAreSafe ==
  ASSUME HostInv, ~ stray
  PROVE  ThreadSafe
  <1>1. \A t \in Hosts : hosts[t] > 0 => "connect" \notin freed
    <2> SUFFICES ASSUME NEW t \in Hosts, hosts[t] > 0 PROVE "connect" \notin freed
      OBVIOUS
    <2>1. Cardinality(Copies) > 0
      BY OneCopy DEF HostInv
    <2> QED
      BY <2>1, CopiesFinite DEF HostInv, UseInv, One
  <1>2. mode \in {"auto", "own"} /\ refCount \in Int
    BY DEF HostInv, HostDataTypeOK
  <1>3. ASSUME NEW t \in Hosts, mode = "auto"
        PROVE  /\ "data" \notin Touches(t) \/ "data" \notin freed
               /\ step[t] \in {"release", "setRelease"} => refCount >= 0
    <2>1. AutoInv /\ StepInv
      BY <1>3 DEF HostInv
    <2>2. "data" \in Touches(t) => hosts[t] > 0
      BY <2>1 DEF AutoInv, StepInv, Touches, InData, InConnect, SetSteps, Making, Leaving
    <2>3. step[t] \notin {"release", "setRelease"}
      BY <2>1 DEF AutoInv, StepInv, Leaving, SetSteps
    <2> QED
      BY <1>1, <2>1, <2>2, <2>3 DEF AutoInv
  <1>4. ASSUME NEW t \in Hosts, mode = "own"
        PROVE  /\ "data" \notin Touches(t) \/ "data" \notin freed
               /\ step[t] \in {"release", "setRelease"} => refCount >= 0
    <2>1. OwnInv /\ StepInv /\ SetInv
      BY <1>4 DEF HostInv
    <2>2. refCount + 1 = One(owned # "gone") + One(ByConnect) + Cardinality(Users)
      BY <2>1 DEF OwnInv
    <2>3. One(owned # "gone") \in 0 .. 1 /\ One(ByConnect) \in 0 .. 1 /\ Cardinality(Users) \in Nat
      BY UsersFinite DEF One
    <2>4. owned # "gone" \/ ByConnect \/ t \in Users => refCount >= 0
      <3>1. CASE owned # "gone"
        BY <1>2, <2>2, <2>3, <3>1 DEF One
      <3>2. CASE ByConnect
        BY <1>2, <2>2, <2>3, <3>2 DEF One
      <3>3. CASE t \in Users
        <4>1. Cardinality(Users) > 0
          BY <3>3, SomeUser
        <4> QED
          BY <1>2, <2>2, <2>3, <4>1
      <3> QED
        BY <3>1, <3>2, <3>3
    <2>5. "data" \in Touches(t) => owned # "gone" \/ ByConnect \/ t \in Users
      <3>1. CASE step[t] \in {"using", "release"}
        BY <3>1 DEF Users
      <3>2. CASE step[t] \in {"setRelease", "setCount", "setMode", "setOld"}
        BY <2>1, <3>2, <1>4 DEF StepInv, SetInv, ByConnect, Touches, InData, InConnect, SetSteps, Making, Leaving
      <3>3. CASE step[t] = "getLocked"
        <4>1. step[Setter] # "setNull"
          BY <2>1, <3>3, HostDataAssumption DEF StepInv
        <4> QED
          BY <3>3, <4>1 DEF ByConnect, Touches, InData, InConnect
      <3> QED
        BY <3>1, <3>2, <3>3 DEF Touches, InData, InConnect
    <2>6. step[t] \in {"release", "setRelease"} => "data" \in Touches(t)
      BY DEF Touches, InData
    <2> QED
      BY <2>1, <2>4, <2>5, <2>6, <1>2 DEF OwnInv
  <1>5. \A t \in Hosts : Touches(t) \subseteq {"data", "connect"}
    BY DEF Touches
  <1>6. \A t \in Hosts : "connect" \in Touches(t) => hosts[t] > 0
    BY DEF HostInv, StepInv, Touches
  <1> QED
    BY <1>1, <1>2, <1>3, <1>4, <1>5, <1>6 DEF ThreadSafe

(* With the last user everything is deleted.                               *)
LEMMA QuietIsFreed ==
  ASSUME HostInv, ~ stray, Quiet
  PROVE  freed = {"connect", "data"}
  <1>1. /\ step[Setter] = "free" /\ engine = FALSE /\ owned = "gone" /\ (linked => autoFree)
        /\ Cardinality(Copies) = 0 /\ Cardinality(Users) = 0
    BY NoCopies, NoUser, HostDataAssumption DEF Quiet, HostInv, HostDataTypeOK
  <1>2. mode \in {"auto", "own"} /\ freed \subseteq {"connect", "data"} /\ refCount \in Int
    BY DEF HostInv, HostDataTypeOK
  <1>3. ~ hostRef
    BY <1>1, <1>2 DEF HostInv, SetInv, AutoInv, OwnInv
  <1>4. One(hostRef) = 0 /\ One(engine) = 0
    BY <1>1, <1>3 DEF One
  <1>5. "connect" \in freed
    BY <1>1, <1>4 DEF HostInv, UseInv
  <1>6. CASE mode = "auto"
    BY <1>1, <1>2, <1>5, <1>6 DEF HostInv, AutoInv, SetSteps, Making, Leaving
  <1>7. CASE mode = "own"
    <2>1. OwnInv
      BY <1>7 DEF HostInv
    <2>2. ~ ByConnect
      BY <1>1, <2>1 DEF OwnInv, ByConnect
    <2>3. One(ByConnect) = 0 /\ One(owned # "gone") = 0
      BY <1>1, <2>2 DEF One
    <2>4. "data" \in freed
      BY <1>1, <1>2, <2>1, <2>3 DEF OwnInv
    <2> QED
      BY <1>2, <1>5, <2>4
  <1> QED
    BY <1>2, <1>6, <1>7

(* Unless GetData has given out data while SetData changed the mode, no    *)
(* thread uses what was deleted or releases more than was counted, and in  *)
(* the end connection and data are deleted; for any number of threads.     *)
THEOREM SafeUnlessStrayHolds == HostDataSpec => []SafeUnlessStray
  <1>1. HostInv => SafeUnlessStray
    BY UsersAreSafe, QuietIsFreed DEF SafeUnlessStray
  <1> QED
    BY <1>1, InitHost, HostStepKeeps, PTL DEF HostDataSpec

-----------------------------------------------------------------------------
(* The inductive invariant.  What was killed by another thread is marked,  *)
(* and the thread that marked it waited until it was not executed; the     *)
(* task whose callback runs is in hand and not marked, whatever the        *)
(* callback itself does with timers.                                       *)
InCallback == {"callback", "find", "killed", "make", "insert"}

TimerSteps == InCallback \union {"free", "mark", "next", "unlock"}

Call == [id : TimerIds \union {NoTask}, task : TimerTasks \union {NoTask}, set : BOOLEAN, repeat : 0 .. 2]

TypesInv ==
  /\ waitTasks \in [TimerIds -> TimerTasks \union {NoTask}]
  /\ made \in 0 .. MaxTasks
  /\ now \in [TimerThreads -> TimerSteps]
  /\ mine \in [TimerThreads -> Call]
  /\ \A t \in TimerThreads : now[t] \in {"find", "mark", "killed", "make", "insert"} => mine[t].id \in TimerIds

KilledInv ==
  /\ TypesInv
  /\ silent \subseteq state
  /\ \A t \in TimerThreads \ {TheTimer} : now[t] = "killed" => mine[t].task \in state
  /\ now[TheTimer] # "mark"
  /\ now[TheTimer] \in InCallback => executing \notin state

LEMMA InitKilled == TimerInit => KilledInv
  <1>1. NoTask \in 0 .. 2 /\ NoCall \in Call
    BY TimerAssumption DEF NoCall, Call
  <1> QED
    BY <1>1, TimerAssumption DEF TimerInit, KilledInv, TypesInv, TimerThreads, InCallback, TimerSteps

(* A thread begins a call, goes on with it or ends it, and marks nothing.  *)
LEMMA CallKeeps ==
  ASSUME KilledInv, NEW t \in TimerThreads, NEW at \in TimerSteps, NEW call \in Call,
         now' = [now EXCEPT ![t] = at], mine' = [mine EXCEPT ![t] = call],
         UNCHANGED <<state, executing>>, silent' \subseteq state,
         made' \in 0 .. MaxTasks, waitTasks' \in [TimerIds -> TimerTasks \union {NoTask}],
         at \notin {"free", "callback", "next", "unlock"} => call.id \in TimerIds,
         t # TheTimer => at # "killed",
         t = TheTimer => at # "mark" /\ (at \in InCallback => now[t] \in InCallback)
  PROVE  KilledInv'
  <1>1. now' \in [TimerThreads -> TimerSteps] /\ mine' \in [TimerThreads -> Call]
    BY DEF KilledInv, TypesInv
  <1>2. \A u \in TimerThreads : now'[u] = (IF u = t THEN at ELSE now[u]) /\ mine'[u] = (IF u = t THEN call ELSE mine[u])
    BY DEF KilledInv, TypesInv
  <1>3. TheTimer \in TimerThreads
    BY DEF TimerThreads
  <1>4. TypesInv'
    BY <1>1, <1>2 DEF KilledInv, TypesInv, InCallback, TimerSteps
  <1> QED
    BY <1>2, <1>3, <1>4 DEF KilledInv

LEMMA NoCallTyped == NoCall \in Call
  BY TimerAssumption DEF NoCall, Call

LEMMA CallBeginKeeps ==
  ASSUME KilledInv, NEW t \in TimerThreads, NEW i \in TimerIds, NEW s \in BOOLEAN, NEW r \in 0 .. 2,
         MayCall(t), now' = [now EXCEPT ![t] = "find"],
         mine' = [mine EXCEPT ![t] = [id |-> i, task |-> NoTask, set |-> s, repeat |-> r]],
         UNCHANGED <<waitTasks, state, made, executing, silent>>
  PROVE  KilledInv'
  <1>1. [id |-> i, task |-> NoTask, set |-> s, repeat |-> r] \in Call
    BY DEF Call
  <1>2. t = TheTimer => now[t] \in InCallback
    BY DEF MayCall, InCallback
  <1>3. "find" \in TimerSteps
    BY DEF TimerSteps, InCallback
  <1> QED
    BY <1>1, <1>2, <1>3, CallKeeps DEF KilledInv, TypesInv

LEMMA KillTimerKeeps == ASSUME KilledInv, NEW t \in TimerThreads, NEW i \in TimerIds, KillTimer(t, i) PROVE KilledInv'
  <1>1. 0 \in 0 .. 2 /\ FALSE \in BOOLEAN
    OBVIOUS
  <1> QED
    BY <1>1, CallBeginKeeps DEF KillTimer, Goes

LEMMA SetTimerKeeps ==
  ASSUME KilledInv, NEW t \in TimerThreads, NEW i \in TimerIds, NEW times \in 0 .. 2, SetTimer(t, i, times)
  PROVE  KilledInv'
  <1>1. TRUE \in BOOLEAN
    OBVIOUS
  <1> QED
    BY <1>1, CallBeginKeeps DEF SetTimer, Goes

LEMMA FindTaskKeeps == ASSUME KilledInv, NEW t \in TimerThreads, FindTask(t) PROVE KilledInv'
  <1>1. now[t] = "find" /\ mine[t] \in Call /\ mine[t].id \in TimerIds
    BY DEF FindTask, KilledInv, TypesInv
  <1>2. PICK k : k = waitTasks[mine[t].id]
    OBVIOUS
  <1>3. /\ waitTasks' = [waitTasks EXCEPT ![mine[t].id] = NoTask]
        /\ \/ Goes(t, IF t = TheTimer THEN "killed" ELSE "mark") /\ mine' = [mine EXCEPT ![t].task = k]
           \/ Goes(t, "make") /\ UNCHANGED mine
           \/ Returns(t)
        /\ UNCHANGED <<state, made, executing, silent>>
    BY <1>2 DEF FindTask
  <1>4. /\ waitTasks' \in [TimerIds -> TimerTasks \union {NoTask}] /\ k \in TimerTasks \union {NoTask}
        /\ made' \in 0 .. MaxTasks /\ silent' \subseteq state
    BY <1>1, <1>2, <1>3 DEF KilledInv, TypesInv
  <1>5. "find" \in InCallback /\ {"killed", "mark", "make", "callback", "free"} \subseteq TimerSteps
    BY DEF InCallback, TimerSteps
  <1>6. CASE Goes(t, IF t = TheTimer THEN "killed" ELSE "mark") /\ mine' = [mine EXCEPT ![t].task = k]
    <2>1. [mine[t] EXCEPT !.task = k] \in Call /\ [mine[t] EXCEPT !.task = k].id \in TimerIds
      BY <1>1, <1>4 DEF Call
    <2>2. mine' = [mine EXCEPT ![t] = [mine[t] EXCEPT !.task = k]]
      BY <1>6
    <2> QED
      BY <1>1, <1>3, <1>4, <1>5, <1>6, <2>1, <2>2, CallKeeps DEF Goes
  <1>7. CASE Goes(t, "make") /\ UNCHANGED mine
    <2>1. mine' = [mine EXCEPT ![t] = mine[t]]
      BY <1>7 DEF KilledInv, TypesInv
    <2> QED
      BY <1>1, <1>3, <1>4, <1>5, <1>7, <2>1, CallKeeps DEF Goes
  <1>8. CASE Returns(t)
    BY <1>1, <1>3, <1>4, <1>5, <1>8, NoCallTyped, CallKeeps DEF Returns, Goes
  <1> QED
    BY <1>3, <1>6, <1>7, <1>8

LEMMA MakeKeeps == ASSUME KilledInv, NEW t \in TimerThreads, Make(t) PROVE KilledInv'
  <1>1. now[t] = "make" /\ mine[t] \in Call /\ mine[t].id \in TimerIds /\ made + 1 \in TimerTasks
    BY TimerAssumption DEF Make, KilledInv, TypesInv, TimerTasks
  <1>2. [mine[t] EXCEPT !.task = made + 1] \in Call /\ [mine[t] EXCEPT !.task = made + 1].id \in TimerIds
    BY <1>1 DEF Call
  <1>3. /\ mine' = [mine EXCEPT ![t] = [mine[t] EXCEPT !.task = made + 1]] /\ now' = [now EXCEPT ![t] = "insert"]
        /\ made' = made + 1 /\ UNCHANGED <<waitTasks, state, executing, silent>>
    BY DEF Make, Goes
  <1>4. "make" \in InCallback /\ "insert" \in TimerSteps /\ made' \in 0 .. MaxTasks
    BY <1>1, <1>3 DEF InCallback, TimerSteps, TimerTasks
  <1> QED
    BY <1>1, <1>2, <1>3, <1>4, CallKeeps DEF KilledInv, TypesInv

LEMMA InsertTaskKeeps == ASSUME KilledInv, NEW t \in TimerThreads, InsertTask(t) PROVE KilledInv'
  <1>1. now[t] = "insert" /\ mine[t] \in Call /\ mine[t].id \in TimerIds
    BY DEF InsertTask, KilledInv, TypesInv
  <1>2. Returns(t) /\ UNCHANGED <<state, made, executing, silent>>
    BY DEF InsertTask
  <1>3. waitTasks' \in [TimerIds -> TimerTasks \union {NoTask}]
    <2>1. mine[t].task \in TimerTasks \union {NoTask}
      BY <1>1 DEF Call
    <2>2. \/ waitTasks' = [waitTasks EXCEPT ![mine[t].id] = mine[t].task]
          \/ waitTasks' = waitTasks
      BY DEF InsertTask
    <2> QED
      BY <2>1, <2>2 DEF KilledInv, TypesInv
  <1>4. "insert" \in InCallback /\ {"callback", "free"} \subseteq TimerSteps
    BY DEF InCallback, TimerSteps
  <1> QED
    BY <1>1, <1>2, <1>3, <1>4, NoCallTyped, CallKeeps DEF Returns, Goes, KilledInv, TypesInv

(* Marking waits until the task is not executed.                           *)
LEMMA MarkKeeps == ASSUME KilledInv, NEW t \in TimerThreads, Mark(t) PROVE KilledInv'
  <1>1. /\ now[t] = "mark" /\ mine[t].task # executing /\ t # TheTimer
        /\ state' = state \union {mine[t].task} /\ now' = [now EXCEPT ![t] = "killed"]
        /\ UNCHANGED <<waitTasks, made, mine, executing, silent>>
    BY DEF Mark, Goes, KilledInv
  <1>2. now' \in [TimerThreads -> TimerSteps] /\ \A u \in TimerThreads : now'[u] = IF u = t THEN "killed" ELSE now[u]
    BY <1>1 DEF KilledInv, TypesInv, InCallback, TimerSteps
  <1>3. TypesInv'
    BY <1>1, <1>2 DEF KilledInv, TypesInv
  <1>4. TheTimer \in TimerThreads
    BY DEF TimerThreads
  <1> QED
    BY <1>1, <1>2, <1>3, <1>4 DEF KilledInv

LEMMA KilledKeeps == ASSUME KilledInv, NEW t \in TimerThreads, Killed(t) PROVE KilledInv'
  <1>1. now[t] = "killed" /\ mine[t] \in Call /\ mine[t].id \in TimerIds
    BY DEF Killed, KilledInv, TypesInv
  <1>2. /\ silent' = IF t = TheTimer THEN silent ELSE silent \union {mine[t].task}
        /\ (Goes(t, "make") /\ UNCHANGED mine) \/ Returns(t)
        /\ UNCHANGED <<waitTasks, state, made, executing>>
    BY DEF Killed
  <1>3. silent' \subseteq state
    BY <1>1, <1>2 DEF KilledInv
  <1>4. "killed" \in InCallback /\ {"make", "callback", "free"} \subseteq TimerSteps
    BY DEF InCallback, TimerSteps
  <1>5. CASE Goes(t, "make") /\ UNCHANGED mine
    <2>1. mine' = [mine EXCEPT ![t] = mine[t]]
      BY <1>5 DEF KilledInv, TypesInv
    <2> QED
      BY <1>1, <1>2, <1>3, <1>4, <1>5, <2>1, CallKeeps DEF Goes, KilledInv, TypesInv
  <1>6. CASE Returns(t)
    BY <1>1, <1>2, <1>3, <1>4, <1>6, NoCallTyped, CallKeeps DEF Returns, Goes, KilledInv, TypesInv
  <1> QED
    BY <1>2, <1>5, <1>6

(* A task whose state is set is not run.                                   *)
LEMMA WorkKeeps ==
  ASSUME KilledInv,
         \/ \E due \in SUBSET TimerIds : Collect(due)
         \/ \E k \in TimerTasks : TakeLock(k)
         \/ CallbackReturns \/ Unlocked \/ ReleaseObject
  PROVE  KilledInv'
  <1>1. TheTimer \in TimerThreads
    BY DEF TimerThreads
  <1>2. CASE \E due \in SUBSET TimerIds : Collect(due)
    <2>1. waitTasks' \in [TimerIds -> TimerTasks \union {NoTask}]
      BY <1>2 DEF Collect, KilledInv, TypesInv
    <2>2. now' = [now EXCEPT ![TheTimer] = "next"] /\ UNCHANGED <<state, made, mine, silent, executing>>
      BY <1>2 DEF Collect, Goes
    <2>3. now' \in [TimerThreads -> TimerSteps] /\ now'[TheTimer] = "next"
          /\ \A u \in TimerThreads \ {TheTimer} : now'[u] = now[u]
      BY <1>1, <2>2 DEF KilledInv, TypesInv, InCallback, TimerSteps
    <2> QED
      BY <1>1, <2>1, <2>2, <2>3 DEF KilledInv, TypesInv, InCallback
  <1>3. ASSUME NEW k \in TimerTasks, TakeLock(k) PROVE KilledInv'
    <2>1. /\ now' = [now EXCEPT ![TheTimer] = IF k \in state THEN "unlock" ELSE "callback"] /\ executing' = k
          /\ UNCHANGED <<waitTasks, state, made, mine, silent>>
      BY <1>3 DEF TakeLock, Goes
    <2>2. now' \in [TimerThreads -> TimerSteps] /\ now'[TheTimer] = (IF k \in state THEN "unlock" ELSE "callback")
          /\ \A u \in TimerThreads \ {TheTimer} : now'[u] = now[u]
      BY <1>1, <2>1 DEF KilledInv, TypesInv, InCallback, TimerSteps
    <2> QED
      BY <1>1, <2>1, <2>2 DEF KilledInv, TypesInv, InCallback
  <1>4. CASE CallbackReturns
    <2>1. now' = [now EXCEPT ![TheTimer] = "unlock"] /\ UNCHANGED <<waitTasks, state, made, mine, silent, executing>>
      BY <1>4 DEF CallbackReturns, Goes
    <2>2. now' \in [TimerThreads -> TimerSteps] /\ now'[TheTimer] = "unlock"
          /\ \A u \in TimerThreads \ {TheTimer} : now'[u] = now[u]
      BY <1>1, <2>1 DEF KilledInv, TypesInv, InCallback, TimerSteps
    <2> QED
      BY <1>1, <2>1, <2>2 DEF KilledInv, TypesInv, InCallback
  <1>5. CASE Unlocked
    <2>1. PICK s \in {"free", "next"} : now' = [now EXCEPT ![TheTimer] = s]
      BY <1>5 DEF Unlocked, Goes
    <2>2. UNCHANGED <<waitTasks, state, made, mine, silent>>
      BY <1>5 DEF Unlocked
    <2>3. now' \in [TimerThreads -> TimerSteps] /\ now'[TheTimer] = s
          /\ \A u \in TimerThreads \ {TheTimer} : now'[u] = now[u]
      BY <1>1, <2>1 DEF KilledInv, TypesInv, InCallback, TimerSteps
    <2> QED
      BY <1>1, <2>1, <2>2, <2>3 DEF KilledInv, TypesInv, InCallback
  <1>6. CASE ReleaseObject
    BY <1>6 DEF ReleaseObject, KilledInv, TypesInv
  <1> QED
    BY <1>2, <1>3, <1>4, <1>5, <1>6

-----------------------------------------------------------------------------
LEMMA TimerStepKeeps == KilledInv /\ [TimerNext]_timerVars => KilledInv'
  <1> SUFFICES ASSUME KilledInv, [TimerNext]_timerVars PROVE KilledInv'
    OBVIOUS
  <1>1. ASSUME NEW t \in TimerThreads,
               \/ \E i \in TimerIds : KillTimer(t, i) \/ \E times \in 0 .. 2 : SetTimer(t, i, times)
               \/ FindTask(t) \/ Mark(t) \/ Killed(t) \/ Make(t) \/ InsertTask(t)
        PROVE  KilledInv'
    BY <1>1, KillTimerKeeps, SetTimerKeeps, FindTaskKeeps, MarkKeeps, KilledKeeps, MakeKeeps, InsertTaskKeeps
  <1>2. CASE UNCHANGED timerVars
    BY <1>2 DEF timerVars, KilledInv, TypesInv
  <1> QED
    BY <1>1, <1>2, WorkKeeps DEF TimerNext

(* Once KillTimer has returned to another thread that had found the timer, *)
(* its callback does not run and will not start (Timer::KillTimer, Work).  *)
THEOREM KilledIsSilentHolds == TimerSpec => []KilledIsSilent
  <1>1. KilledInv => KilledIsSilent
    BY DEF KilledInv, KilledIsSilent, InCallback
  <1> QED
    BY <1>1, InitKilled, TimerStepKeeps, PTL DEF TimerSpec

-----------------------------------------------------------------------------
(* The counts of the timer's tasks.  What the table, the list of what is   *)
(* due and the threads that kill or make a task have of it are counted as  *)
(* sets of event ids and of threads.                                       *)
Uses == {"mark", "killed", "insert"}

Hand(s, call, k) == IF s \in Uses /\ call.task = k THEN 1 ELSE 0
Within(k, S) == IF k \in S THEN 1 ELSE 0
Equal(x, k) == IF x = k THEN 1 ELSE 0

Entries(w, k) == {i \in TimerIds : w[i] = k}
EntriesAfter(w, i, v, k) == Cardinality(Entries([w EXCEPT ![i] = v], k))
Handling(n, m, k) == {t \in TimerThreads : n[t] \in Uses /\ m[t].task = k}
HandlingAfter(n, m, t, a, c, k) == Cardinality(Handling([n EXCEPT ![t] = a], [m EXCEPT ![t] = c], k))

RefInv ==
  /\ ref \in [TimerTasks -> Nat]
  /\ \A k \in TimerTasks :
       ref[k] = Cardinality(Entries(waitTasks, k)) + Within(k, todo)
                  + Cardinality(Handling(now, mine, k)) + Within(k, orphans)

DeletedInv ==
  /\ deleted = {k \in 1 .. made : ref[k] = 0}
  /\ held \in BOOLEAN
  /\ objRef = One(held) + made - Cardinality(deleted)

(* What is used has been made.                                             *)
MadeInv ==
  /\ todo \union orphans \union state \union silent \subseteq 1 .. made
  /\ executing \in (1 .. made) \union {NoTask}
  /\ \A i \in TimerIds : waitTasks[i] \in (1 .. made) \union {NoTask}
  /\ \A t \in TimerThreads : now[t] \in Uses => mine[t].task \in 1 .. made
  /\ repeat \in [TimerTasks -> 0 .. 2]

(* A task is in the table once, and one that is to come into it is neither *)
(* there yet nor was it turned away, and no other thread brings it.        *)
EntryInv ==
  /\ \A i, j \in TimerIds : waitTasks[i] = waitTasks[j] /\ waitTasks[i] # NoTask => i = j
  /\ \A t \in TimerThreads : now[t] = "insert" =>
       /\ mine[t].task \notin orphans
       /\ \A i \in TimerIds : waitTasks[i] # mine[t].task
       /\ \A u \in TimerThreads \ {t} : now[u] = "insert" => mine[u].task # mine[t].task

(* The list is empty when the timer looks for what is due, and the task    *)
(* whose lock it has is in it.                                             *)
ListInv ==
  /\ now[TheTimer] = "free" => todo = {}
  /\ now[TheTimer] \notin {"free", "next"} => executing \in todo

CountInv == RefInv /\ DeletedInv /\ MadeInv /\ EntryInv /\ ListInv

-----------------------------------------------------------------------------
LEMMA TimerSetsFinite == IsFiniteSet(TimerIds) /\ IsFiniteSet(TimerThreads)
  BY TimerAssumption, FS_AddElement DEF TimerThreads

(* Two sets that agree but for one element.                                *)
LEMMA AllButOne ==
  ASSUME NEW D, IsFiniteSet(D), NEW P \in SUBSET D, NEW Q \in SUBSET D, NEW x \in D,
         \A y \in D : y # x => (y \in P <=> y \in Q)
  PROVE  /\ Cardinality(P) \in Nat /\ Cardinality(Q) \in Nat
         /\ Cardinality(Q) = Cardinality(P) - One(x \in P) + One(x \in Q)
  <1>1. IsFiniteSet(P) /\ IsFiniteSet(Q)
    BY FS_Subset
  <1>2. Cardinality(P) \in Nat /\ Cardinality(Q) \in Nat
    BY <1>1, FS_CardinalityType
  <1>3. P \ {x} = Q \ {x}
    OBVIOUS
  <1>4. Cardinality(P \ {x}) = IF x \in P THEN Cardinality(P) - 1 ELSE Cardinality(P)
    BY <1>1, FS_RemoveElement
  <1>5. Cardinality(Q \ {x}) = IF x \in Q THEN Cardinality(Q) - 1 ELSE Cardinality(Q)
    BY <1>1, FS_RemoveElement
  <1>6. Cardinality(P \ {x}) = Cardinality(Q \ {x})
    BY <1>3
  <1> QED
    BY <1>2, <1>4, <1>5, <1>6 DEF One

LEMMA EntriesCounted == ASSUME NEW w, NEW k PROVE Cardinality(Entries(w, k)) \in Nat
  <1>1. Entries(w, k) \in SUBSET TimerIds
    BY DEF Entries
  <1> QED
    BY <1>1, TimerSetsFinite, FS_Subset, FS_CardinalityType

LEMMA EntriesMove ==
  ASSUME NEW w \in [TimerIds -> TimerTasks \union {NoTask}], NEW i \in TimerIds, NEW v, NEW k
  PROVE  EntriesAfter(w, i, v, k) = Cardinality(Entries(w, k)) - Equal(w[i], k) + Equal(v, k)
  <1> DEFINE z == [w EXCEPT ![i] = v]
             P == Entries(w, k)
             Q == Entries(z, k)
  <1>1. /\ P \in SUBSET TimerIds /\ Q \in SUBSET TimerIds
        /\ (i \in P <=> w[i] = k) /\ (i \in Q <=> v = k)
        /\ \A y \in TimerIds : y # i => (y \in P <=> y \in Q)
    BY DEF Entries
  <1> HIDE DEF P, Q, z
  <1>2. /\ Cardinality(P) \in Nat /\ Cardinality(Q) \in Nat
        /\ Cardinality(Q) = Cardinality(P) - One(i \in P) + One(i \in Q)
    BY <1>1, TimerSetsFinite, AllButOne
  <1>3. One(i \in P) = Equal(w[i], k) /\ One(i \in Q) = Equal(v, k)
    BY <1>1 DEF One, Equal
  <1>4. Cardinality(Q) = Cardinality(P) - Equal(w[i], k) + Equal(v, k)
    BY <1>2, <1>3
  <1> QED
    BY <1>4 DEF P, Q, z, EntriesAfter

LEMMA HandlingMove ==
  ASSUME NEW n \in [TimerThreads -> TimerSteps], NEW m \in [TimerThreads -> Call], NEW t \in TimerThreads,
         NEW a, NEW c, NEW k
  PROVE  /\ Cardinality(Handling(n, m, k)) \in Nat
         /\ HandlingAfter(n, m, t, a, c, k) \in Nat
         /\ HandlingAfter(n, m, t, a, c, k) = Cardinality(Handling(n, m, k)) - Hand(n[t], m[t], k) + Hand(a, c, k)
  <1> DEFINE o == [n EXCEPT ![t] = a]
             l == [m EXCEPT ![t] = c]
             P == Handling(n, m, k)
             Q == Handling(o, l, k)
  <1>1. /\ P \in SUBSET TimerThreads /\ Q \in SUBSET TimerThreads
        /\ (t \in P <=> n[t] \in Uses /\ m[t].task = k) /\ (t \in Q <=> a \in Uses /\ c.task = k)
        /\ \A y \in TimerThreads : y # t => (y \in P <=> y \in Q)
    BY DEF Handling
  <1> HIDE DEF P, Q, o, l
  <1>2. /\ Cardinality(P) \in Nat /\ Cardinality(Q) \in Nat
        /\ Cardinality(Q) = Cardinality(P) - One(t \in P) + One(t \in Q)
    BY <1>1, TimerSetsFinite, AllButOne
  <1>3. One(t \in P) = Hand(n[t], m[t], k) /\ One(t \in Q) = Hand(a, c, k)
    BY <1>1 DEF One, Hand
  <1>4. /\ Cardinality(P) \in Nat /\ Cardinality(Q) \in Nat
        /\ Cardinality(Q) = Cardinality(P) - Hand(n[t], m[t], k) + Hand(a, c, k)
    BY <1>2, <1>3
  <1> QED
    BY <1>4 DEF P, Q, o, l, HandlingAfter

LEMMA HandsMove ==
  ASSUME KilledInv, NEW t \in TimerThreads, NEW a, NEW c, NEW k,
         now' = [now EXCEPT ![t] = a], mine' = [mine EXCEPT ![t] = c]
  PROVE  /\ Cardinality(Handling(now, mine, k)) \in Nat /\ Cardinality(Handling(now', mine', k)) \in Nat
         /\ Cardinality(Handling(now', mine', k))
              = Cardinality(Handling(now, mine, k)) - Hand(now[t], mine[t], k) + Hand(a, c, k)
  <1> DEFINE n0 == now
             m0 == mine
  <1>1. n0 \in [TimerThreads -> TimerSteps] /\ m0 \in [TimerThreads -> Call]
    BY DEF KilledInv, TypesInv
  <1>2. Handling(now', mine', k) = Handling([n0 EXCEPT ![t] = a], [m0 EXCEPT ![t] = c], k)
    OBVIOUS
  <1> HIDE DEF n0, m0
  <1>3. /\ Cardinality(Handling(n0, m0, k)) \in Nat
        /\ HandlingAfter(n0, m0, t, a, c, k) \in Nat
        /\ HandlingAfter(n0, m0, t, a, c, k) = Cardinality(Handling(n0, m0, k)) - Hand(n0[t], m0[t], k) + Hand(a, c, k)
    BY <1>1, HandlingMove
  <1>4. HandlingAfter(n0, m0, t, a, c, k) = Cardinality(Handling(now', mine', k))
    BY <1>2 DEF HandlingAfter
  <1> QED
    BY <1>3, <1>4 DEF n0, m0

(* References and users change alike, of each task: thread t goes on to a  *)
(* with c, and entry i of the table becomes b.                             *)
Balanced(t, a, c) ==
  \A k \in TimerTasks :
    ref'[k] + Hand(now[t], mine[t], k) + Within(k, todo) + Within(k, orphans)
      = ref[k] + Hand(a, c, k) + Within(k, todo') + Within(k, orphans')

EntryBalanced(t, a, c, i, b) ==
  \A k \in TimerTasks :
    ref'[k] + Hand(now[t], mine[t], k) + Within(k, todo) + Within(k, orphans) + Equal(waitTasks[i], k)
      = ref[k] + Hand(a, c, k) + Within(k, todo') + Within(k, orphans') + Equal(b, k)

(* References and users change alike, if they do so for each task.         *)
LEMMA RefStays ==
  ASSUME KilledInv, RefInv, NEW t \in TimerThreads, NEW a, NEW c,
         now' = [now EXCEPT ![t] = a], mine' = [mine EXCEPT ![t] = c],
         waitTasks' = waitTasks, ref' \in [TimerTasks -> Int],
         Balanced(t, a, c)
  PROVE  RefInv'
  <1>1. ASSUME NEW k \in TimerTasks
        PROVE  /\ ref'[k] >= 0
               /\ ref'[k] = Cardinality(Entries(waitTasks', k)) + Within(k, todo')
                              + Cardinality(Handling(now', mine', k)) + Within(k, orphans')
    <2> DEFINE f == Cardinality(Entries(waitTasks', k))
               g == Cardinality(Handling(now', mine', k))
               x == Hand(now[t], mine[t], k)
               y == Hand(a, c, k)
               p == Within(k, todo)
               q == Within(k, todo')
               u == Within(k, orphans)
               v == Within(k, orphans')
               h == Cardinality(Handling(now, mine, k))
               r == ref[k]
               n == ref'[k]
    <2>1. f \in Nat /\ g \in Nat /\ h \in Nat /\ r = f + p + h + u /\ g = h - x + y
      <3>1. f \in Nat
        BY EntriesCounted
      <3>2. now \in [TimerThreads -> TimerSteps] /\ mine \in [TimerThreads -> Call]
            /\ waitTasks \in [TimerIds -> TimerTasks \union {NoTask}]
        BY DEF KilledInv, TypesInv
      <3>3. g \in Nat /\ h \in Nat /\ g = h - x + y
        BY HandsMove
      <3>4. r = f + p + h + u
        BY DEF RefInv
      <3> QED
        BY <3>1, <3>3, <3>4
    <2>2. n + x + p + u = r + y + q + v /\ n \in Int
      BY DEF Balanced
    <2>3. q \in Nat /\ v \in Nat /\ x \in Nat /\ y \in Nat /\ p \in Nat /\ u \in Nat
      BY DEF Hand, Within, Equal
    <2> HIDE DEF f, g, h, x, y, p, q, u, v, r, n
    <2>4. n >= 0 /\ n = f + q + g + v
      BY <2>1, <2>2, <2>3
    <2> QED
      BY <2>4 DEF f, g, q, v, n
  <1>2. ref' \in [TimerTasks -> Nat]
    BY <1>1
  <1> QED
    BY <1>1, <1>2 DEF RefInv

LEMMA RefEntry ==
  ASSUME KilledInv, RefInv, NEW t \in TimerThreads, NEW a, NEW c,
         now' = [now EXCEPT ![t] = a], mine' = [mine EXCEPT ![t] = c],
         NEW i \in TimerIds, NEW b, waitTasks' = [waitTasks EXCEPT ![i] = b],
         ref' \in [TimerTasks -> Int],
         EntryBalanced(t, a, c, i, b)
  PROVE  RefInv'
  <1>1. ASSUME NEW k \in TimerTasks
        PROVE  /\ ref'[k] >= 0
               /\ ref'[k] = Cardinality(Entries(waitTasks', k)) + Within(k, todo')
                              + Cardinality(Handling(now', mine', k)) + Within(k, orphans')
    <2>0. /\ Cardinality(Handling(now, mine, k)) \in Nat /\ Cardinality(Handling(now', mine', k)) \in Nat
          /\ Cardinality(Handling(now', mine', k))
               = Cardinality(Handling(now, mine, k)) - Hand(now[t], mine[t], k) + Hand(a, c, k)
      BY HandsMove
    <2> DEFINE f == Cardinality(Entries(waitTasks', k))
               g == Cardinality(Handling(now', mine', k))
               x == Hand(now[t], mine[t], k)
               y == Hand(a, c, k)
               p == Within(k, todo)
               q == Within(k, todo')
               u == Within(k, orphans)
               v == Within(k, orphans')
               w == Equal(waitTasks[i], k)
               z == Equal(b, k)
               e == Cardinality(Entries(waitTasks, k))
               h == Cardinality(Handling(now, mine, k))
               r == ref[k]
               n == ref'[k]
    <2>1. /\ e \in Nat /\ f \in Nat /\ g \in Nat /\ h \in Nat
          /\ r = e + p + h + u /\ g = h - x + y /\ f = e - w + z
      <3>1. e \in Nat /\ f \in Nat
        BY EntriesCounted
      <3>2. now \in [TimerThreads -> TimerSteps] /\ mine \in [TimerThreads -> Call]
            /\ waitTasks \in [TimerIds -> TimerTasks \union {NoTask}]
        BY DEF KilledInv, TypesInv
      <3>3. g \in Nat /\ h \in Nat /\ g = h - x + y
        BY <2>0
      <3>4. f = e - w + z
        <4>1. f = EntriesAfter(waitTasks, i, b, k)
          BY DEF EntriesAfter
        <4>2. EntriesAfter(waitTasks, i, b, k) = e - w + z
          <5> DEFINE w0 == waitTasks
          <5>1. w0 \in [TimerIds -> TimerTasks \union {NoTask}]
            BY <3>2
          <5> HIDE DEF w0
          <5>2. EntriesAfter(w0, i, b, k) = Cardinality(Entries(w0, k)) - Equal(w0[i], k) + Equal(b, k)
            BY <5>1, EntriesMove
          <5> QED
            BY <5>2 DEF w0
        <4> QED
          BY <4>1, <4>2
      <3>5. r = e + p + h + u
        BY DEF RefInv
      <3> QED
        BY <3>1, <3>3, <3>4, <3>5
    <2>2. n + x + p + u + w = r + y + q + v + z /\ n \in Int
      BY DEF EntryBalanced
    <2>3. q \in Nat /\ v \in Nat /\ x \in Nat /\ y \in Nat /\ p \in Nat /\ u \in Nat /\ w \in Nat /\ z \in Nat
      BY DEF Hand, Within, Equal
    <2> HIDE DEF e, f, g, h, x, y, p, q, u, v, w, z, r, n
    <2>4. n >= 0 /\ n = f + q + g + v
      BY <2>1, <2>2, <2>3
    <2> QED
      BY <2>4 DEF f, g, q, v, n
  <1>2. ref' \in [TimerTasks -> Nat]
    BY <1>1
  <1> QED
    BY <1>1, <1>2 DEF RefInv

(* What has not been made has no references.                               *)
LEMMA UnmadeHasNone ==
  ASSUME KilledInv, RefInv, MadeInv, NEW k \in TimerTasks, k > made
  PROVE  ref[k] = 0
  <1>1. made \in Nat /\ k \in Nat /\ NoTask = 0 /\ k \notin 1 .. made
    BY TimerAssumption DEF KilledInv, TypesInv, TimerTasks
  <1>2. Entries(waitTasks, k) = {}
    BY <1>1 DEF Entries, MadeInv
  <1>3. Handling(now, mine, k) = {}
    BY <1>1 DEF Handling, MadeInv
  <1>4. Within(k, todo) = 0 /\ Within(k, orphans) = 0
    BY <1>1 DEF Within, MadeInv
  <1>5. Cardinality({}) = 0
    BY FS_EmptySet
  <1> QED
    BY <1>2, <1>3, <1>4, <1>5 DEF RefInv

LEMMA DeletedFinite ==
  ASSUME KilledInv, DeletedInv
  PROVE  IsFiniteSet(deleted) /\ Cardinality(deleted) \in Nat /\ Cardinality(deleted) <= made
  <1>1. made \in Nat /\ deleted \in SUBSET (1 .. made)
    BY DEF KilledInv, TypesInv, DeletedInv
  <1>2. IsFiniteSet(1 .. made) /\ Cardinality(1 .. made) = made
    BY <1>1, FS_Interval
  <1> QED
    BY <1>1, <1>2, FS_Subset, FS_CardinalityType

(* A reference that goes is one the task has; the last takes the task and  *)
(* its hold on the object with it.                                         *)
LEMMA ReleasedIs ==
  ASSUME KilledInv, RefInv, DeletedInv, NEW k \in 1 .. made, ref[k] >= 1, Released(k, 1),
         UNCHANGED <<made, held>>
  PROVE  ref' = [ref EXCEPT ![k] = ref[k] - 1] /\ ref' \in [TimerTasks -> Int] /\ DeletedInv'
  <1>1. k \in TimerTasks /\ ref \in [TimerTasks -> Nat] /\ made \in Nat /\ 1 .. made \subseteq TimerTasks
    BY TimerAssumption DEF RefInv, KilledInv, TypesInv, TimerTasks
  <1>2. /\ ref' = [ref EXCEPT ![k] = ref[k] - 1] /\ ref' \in [TimerTasks -> Int]
        /\ \A n \in TimerTasks : ref'[n] = IF n = k THEN ref[k] - 1 ELSE ref[n]
    BY <1>1 DEF Released
  <1>3. CASE ref[k] = 1
    <2>1. deleted' = deleted \union {k} /\ objRef' = objRef - 1 /\ k \notin deleted
      BY <1>3 DEF Released, DeletedInv
    <2>2. deleted' = {n \in 1 .. made : ref'[n] = 0}
      BY <1>1, <1>2, <1>3, <2>1 DEF DeletedInv
    <2>3. Cardinality(deleted') = Cardinality(deleted) + 1
      BY <2>1, DeletedFinite, FS_AddElement
    <2>4. Cardinality(deleted) \in Nat /\ One(held) \in Nat
      BY DeletedFinite DEF One
    <2>5. objRef' = One(held) + made - Cardinality(deleted')
      BY <1>1, <2>1, <2>3, <2>4 DEF DeletedInv
    <2> QED
      BY <1>2, <2>2, <2>5 DEF DeletedInv
  <1>4. CASE ref[k] # 1
    <2>1. UNCHANGED <<deleted, objRef>>
      BY <1>4 DEF Released
    <2>2. deleted' = {n \in 1 .. made : ref'[n] = 0}
      BY <1>1, <1>2, <1>4, <2>1 DEF DeletedInv
    <2> QED
      BY <1>2, <2>1, <2>2 DEF DeletedInv
  <1> QED
    BY <1>2, <1>3, <1>4

(* A task that is used has a reference.                                    *)
LEMMA UsedHasOne ==
  ASSUME KilledInv, RefInv, NEW k \in TimerTasks,
         \/ k \in todo
         \/ \E i \in TimerIds : waitTasks[i] = k
         \/ \E t \in TimerThreads : now[t] \in Uses /\ mine[t].task = k
  PROVE  ref[k] >= 1
  <1> DEFINE E == Entries(waitTasks, k)
             H == Handling(now, mine, k)
  <1>1. E \in SUBSET TimerIds /\ H \in SUBSET TimerThreads
    BY DEF Entries, Handling
  <1>2. k \in todo \/ E # {} \/ H # {}
    BY DEF Entries, Handling
  <1>3. ref[k] = Cardinality(E) + Within(k, todo) + Cardinality(H) + Within(k, orphans)
    BY DEF RefInv
  <1> HIDE DEF E, H
  <1>4. IsFiniteSet(E) /\ IsFiniteSet(H)
    BY <1>1, TimerSetsFinite, FS_Subset
  <1>5. Cardinality(E) \in Nat /\ Cardinality(H) \in Nat /\ (E # {} => Cardinality(E) # 0) /\ (H # {} => Cardinality(H) # 0)
    BY <1>4, FS_CardinalityType, FS_EmptySet
  <1>6. Within(k, todo) \in Nat /\ Within(k, orphans) \in Nat /\ (k \in todo => Within(k, todo) = 1)
    BY DEF Within
  <1> QED
    BY <1>2, <1>3, <1>5, <1>6

LEMMA TimerTypes ==
  ASSUME KilledInv, RefInv
  PROVE  /\ NoTask = 0 /\ made \in Nat /\ 1 .. made \subseteq TimerTasks /\ TimerTasks \subseteq Nat \ {0}
         /\ TheTimer \in TimerThreads
         /\ now \in [TimerThreads -> TimerSteps] /\ mine \in [TimerThreads -> Call]
         /\ waitTasks \in [TimerIds -> TimerTasks \union {NoTask}]
         /\ ref \in [TimerTasks -> Nat] /\ ref \in [TimerTasks -> Int]
  BY TimerAssumption DEF KilledInv, TypesInv, RefInv, TimerTasks, TimerThreads

(* A step that takes nothing and lets nothing go.                          *)
LEMMA QuietKeeps ==
  ASSUME KilledInv, CountInv, NEW t \in TimerThreads, NEW a, NEW c,
         now' = [now EXCEPT ![t] = a], mine' = [mine EXCEPT ![t] = c],
         UNCHANGED <<waitTasks, ref, repeat, made, deleted, objRef, held, todo, orphans, silent>>,
         state' \subseteq 1 .. made, executing' \in (1 .. made) \union {NoTask},
         a \in Uses <=> now[t] \in Uses, a \in Uses => c.task = mine[t].task, a # "insert",
         ListInv'
  PROVE  CountInv'
  <1>1. /\ \A u \in TimerThreads : now'[u] = (IF u = t THEN a ELSE now[u]) /\ mine'[u] = IF u = t THEN c ELSE mine[u]
        /\ ref' \in [TimerTasks -> Int]
    BY TimerTypes DEF CountInv
  <1>2. \A k : Hand(a, c, k) = Hand(now[t], mine[t], k)
    BY DEF Hand
  <1>3. RefInv'
    <2>1. Balanced(t, a, c)
      BY <1>2 DEF Balanced
    <2> QED
      BY <1>1, <2>1, RefStays DEF CountInv
  <1>4. DeletedInv'
    BY DEF CountInv, DeletedInv
  <1>5. MadeInv'
    BY <1>1 DEF CountInv, MadeInv
  <1>6. EntryInv'
    BY <1>1 DEF CountInv, EntryInv
  <1> QED
    BY <1>3, <1>4, <1>5, <1>6 DEF CountInv

LEMMA CallBeginCounts ==
  ASSUME KilledInv, CountInv, NEW t \in TimerThreads, NEW c, MayCall(t),
         now' = [now EXCEPT ![t] = "find"], mine' = [mine EXCEPT ![t] = c],
         UNCHANGED <<waitTasks, ref, state, repeat, made, deleted, objRef, held, todo, executing, silent, orphans>>
  PROVE  CountInv'
  <1>1. /\ now[t] \notin Uses /\ "find" \notin Uses /\ TheTimer \in TimerThreads
        /\ \A u \in TimerThreads : now'[u] = IF u = t THEN "find" ELSE now[u]
    BY TimerTypes DEF Uses, MayCall, CountInv
  <1>2. ListInv'
    BY <1>1 DEF CountInv, ListInv, MayCall
  <1>3. state' \subseteq 1 .. made /\ executing' \in (1 .. made) \union {NoTask}
    BY DEF CountInv, MadeInv
  <1> QED
    BY <1>1, <1>2, <1>3, QuietKeeps

LEMMA KillTimerCounts == ASSUME KilledInv, CountInv, NEW t \in TimerThreads, NEW i, KillTimer(t, i) PROVE CountInv'
  BY CallBeginCounts DEF KillTimer, Goes

LEMMA SetTimerCounts ==
  ASSUME KilledInv, CountInv, NEW t \in TimerThreads, NEW i, NEW times, SetTimer(t, i, times)
  PROVE  CountInv'
  BY CallBeginCounts DEF SetTimer, Goes

(* The reference of the table becomes that of the thread.                  *)
LEMMA FindTaskCounts == ASSUME KilledInv, CountInv, NEW t \in TimerThreads, FindTask(t) PROVE CountInv'
  <1> DEFINE i == mine[t].id
             k == waitTasks[i]
  <1>1. now[t] = "find" /\ i \in TimerIds /\ waitTasks' = [waitTasks EXCEPT ![i] = NoTask]
        /\ UNCHANGED <<ref, state, repeat, made, deleted, objRef, held, todo, executing, silent, orphans>>
    BY DEF FindTask, KilledInv, TypesInv
  <1>2. CASE k # NoTask
    <2> DEFINE a == IF t = TheTimer THEN "killed" ELSE "mark"
               c == [mine[t] EXCEPT !.task = k]
    <2>1. now' = [now EXCEPT ![t] = a] /\ mine' = [mine EXCEPT ![t] = c] /\ c.task = k /\ a \in Uses /\ a # "insert"
      <3>1. Goes(t, a) /\ mine' = [mine EXCEPT ![t].task = k]
        BY <1>2 DEF FindTask
      <3>2. mine[t] \in Call
        BY TimerTypes DEF CountInv
      <3>3. c.task = k
        BY <3>2 DEF Call
      <3> QED
        BY <3>1, <3>3 DEF Goes, Uses
    <2>2. k \in 1 .. made
      BY <1>1, <1>2 DEF CountInv, MadeInv
    <2> HIDE DEF a, c
    <2>3. /\ \A u \in TimerThreads : now'[u] = (IF u = t THEN a ELSE now[u]) /\ mine'[u] = IF u = t THEN c ELSE mine[u]
          /\ \A j \in TimerIds : waitTasks'[j] = IF j = i THEN NoTask ELSE waitTasks[j]
          /\ ref' \in [TimerTasks -> Int] /\ TheTimer \in TimerThreads /\ NoTask \notin 1 .. made /\ NoTask \notin TimerTasks
      BY <1>1, <2>1, TimerTypes DEF CountInv
    <2>4. RefInv'
      <3>1. now[t] \notin Uses
        BY <1>1 DEF Uses
      <3>2. EntryBalanced(t, a, c, i, NoTask)
        <4> SUFFICES ASSUME NEW n \in TimerTasks
                     PROVE ref'[n] + Hand(now[t], mine[t], n) + Within(n, todo) + Within(n, orphans) + Equal(waitTasks[i], n)
                             = ref[n] + Hand(a, c, n) + Within(n, todo') + Within(n, orphans') + Equal(NoTask, n)
          BY DEF EntryBalanced
        <4>1. Hand(now[t], mine[t], n) = 0 /\ Hand(a, c, n) = Equal(waitTasks[i], n) /\ Equal(NoTask, n) = 0
          BY <2>1, <2>3, <3>1 DEF Hand, Equal
        <4>2. ref[n] \in Int /\ Within(n, todo) \in Int /\ Within(n, orphans) \in Int /\ Equal(waitTasks[i], n) \in Int
          BY TimerTypes DEF CountInv, Within, Equal
        <4> QED
          BY <1>1, <4>1, <4>2
      <3> HIDE DEF i
      <3> QED
        BY <1>1, <2>1, <2>3, <3>2, RefEntry DEF CountInv
    <2>5. DeletedInv'
      BY <1>1 DEF CountInv, DeletedInv
    <2>6. MadeInv'
      BY <1>1, <2>1, <2>2, <2>3 DEF CountInv, MadeInv
    <2>7. EntryInv'
      BY <1>1, <2>1, <2>3 DEF CountInv, EntryInv, MadeInv, Uses
    <2>8. ListInv'
      BY <1>1, <2>1, <2>3 DEF CountInv, ListInv, Uses
    <2> QED
      BY <2>4, <2>5, <2>6, <2>7, <2>8 DEF CountInv
  <1>3. CASE k = NoTask
    <2>1. PICK a, c : now' = [now EXCEPT ![t] = a] /\ mine' = [mine EXCEPT ![t] = c] /\ a \in {"make", "callback", "free"}
                      /\ (t = TheTimer => a # "free")
      <3>1. mine' = mine => mine' = [mine EXCEPT ![t] = mine[t]]
        BY TimerTypes DEF CountInv
      <3> QED
        BY <1>3, <3>1 DEF FindTask, Goes, Returns
    <2>2. UNCHANGED waitTasks
      BY <1>1, <1>3, TimerTypes DEF CountInv
    <2>3. \A u \in TimerThreads : now'[u] = IF u = t THEN a ELSE now[u]
      BY <2>1, TimerTypes DEF CountInv
    <2>4. ListInv'
      BY <1>1, <2>1, <2>3, TimerTypes DEF CountInv, ListInv
    <2>5. a \notin Uses /\ now[t] \notin Uses /\ a # "insert" /\ state' \subseteq 1 .. made /\ executing' \in (1 .. made) \union {NoTask}
      BY <1>1, <2>1 DEF Uses, CountInv, MadeInv
    <2> QED
      BY <1>1, <2>1, <2>2, <2>4, <2>5, QuietKeeps
  <1> QED
    BY <1>2, <1>3

LEMMA MarkCounts == ASSUME KilledInv, CountInv, NEW t \in TimerThreads, Mark(t) PROVE CountInv'
  <1>1. /\ now[t] = "mark" /\ state' = state \union {mine[t].task} /\ now' = [now EXCEPT ![t] = "killed"]
        /\ mine' = [mine EXCEPT ![t] = mine[t]]
        /\ UNCHANGED <<waitTasks, ref, repeat, made, deleted, objRef, held, todo, executing, silent, orphans>>
    BY TimerTypes DEF Mark, Goes, CountInv
  <1>2. now[t] \in Uses /\ "killed" \in Uses
    BY <1>1 DEF Uses
  <1>3. \A u \in TimerThreads : now'[u] = IF u = t THEN "killed" ELSE now[u]
    BY <1>1, TimerTypes DEF CountInv
  <1>4. ListInv'
    BY <1>1, <1>3, TimerTypes DEF CountInv, ListInv
  <1>5. state' \subseteq 1 .. made /\ executing' \in (1 .. made) \union {NoTask}
    BY <1>1, <1>2 DEF CountInv, MadeInv
  <1> QED
    BY <1>1, <1>2, <1>4, <1>5, QuietKeeps

LEMMA KilledCounts == ASSUME KilledInv, CountInv, NEW t \in TimerThreads, Killed(t) PROVE CountInv'
  <1> DEFINE k == mine[t].task
  <1>1. now[t] = "killed" /\ Released(k, 1) /\ UNCHANGED <<waitTasks, state, repeat, made, held, todo, executing, orphans>>
        /\ silent' \subseteq silent \union {k}
    BY DEF Killed
  <1>2. k \in 1 .. made /\ k \in TimerTasks /\ ref[k] >= 1
    <2>1. now[t] \in Uses
      BY <1>1 DEF Uses
    <2>2. k \in 1 .. made /\ k \in TimerTasks
      BY <2>1, TimerTypes DEF CountInv, MadeInv
    <2>3. \E u \in TimerThreads : now[u] \in Uses /\ mine[u].task = k
      BY <2>1
    <2> HIDE DEF k
    <2> QED
      BY <2>2, <2>3, UsedHasOne DEF CountInv
  <1>3. ref' = [ref EXCEPT ![k] = ref[k] - 1] /\ ref' \in [TimerTasks -> Int] /\ DeletedInv'
    <2> HIDE DEF k
    <2> QED
      BY <1>1, <1>2, ReleasedIs DEF CountInv
  <1>4. PICK a, c : now' = [now EXCEPT ![t] = a] /\ mine' = [mine EXCEPT ![t] = c] /\ a \in {"make", "callback", "free"}
                    /\ (t = TheTimer => a # "free")
    <2>1. mine' = mine => mine' = [mine EXCEPT ![t] = mine[t]]
      BY TimerTypes DEF CountInv
    <2> QED
      BY <2>1 DEF Killed, Goes, Returns
  <1>5. /\ \A u \in TimerThreads : now'[u] = (IF u = t THEN a ELSE now[u]) /\ mine'[u] = IF u = t THEN c ELSE mine[u]
        /\ TheTimer \in TimerThreads /\ now[t] \in Uses /\ a \notin Uses
    BY <1>1, <1>4, TimerTypes DEF CountInv, Uses
  <1>6. RefInv'
    <2>1. Balanced(t, a, c)
      <3> SUFFICES ASSUME NEW n \in TimerTasks
                   PROVE  ref'[n] + Hand(now[t], mine[t], n) + Within(n, todo) + Within(n, orphans)
                            = ref[n] + Hand(a, c, n) + Within(n, todo') + Within(n, orphans')
        BY DEF Balanced
      <3>1. Hand(a, c, n) = 0 /\ Hand(now[t], mine[t], n) = (IF n = k THEN 1 ELSE 0)
        BY <1>5 DEF Hand
      <3>2. ref[n] \in Int /\ Within(n, todo) \in Int /\ Within(n, orphans) \in Int
            /\ ref'[n] = IF n = k THEN ref[n] - 1 ELSE ref[n]
        BY <1>3, TimerTypes DEF CountInv, Within
      <3> HIDE DEF k
      <3> QED
        BY <1>1, <3>1, <3>2
    <2> QED
      BY <1>1, <1>3, <1>4, <2>1, RefStays DEF CountInv
  <1>7. MadeInv'
    BY <1>1, <1>2, <1>5 DEF CountInv, MadeInv
  <1>8. EntryInv'
    BY <1>1, <1>4, <1>5 DEF CountInv, EntryInv
  <1>9. ListInv'
    BY <1>1, <1>4, <1>5 DEF CountInv, ListInv
  <1> QED
    BY <1>3, <1>6, <1>7, <1>8, <1>9 DEF CountInv

LEMMA MakeCounts == ASSUME KilledInv, CountInv, NEW t \in TimerThreads, Make(t) PROVE CountInv'
  <1> DEFINE k == made + 1
             c == [mine[t] EXCEPT !.task = k]
  <1>1. /\ now[t] = "make" /\ made < MaxTasks /\ made' = k /\ ref' = [ref EXCEPT ![k] = 1]
        /\ repeat' = [repeat EXCEPT ![k] = mine[t].repeat] /\ objRef' = objRef + 1
        /\ mine' = [mine EXCEPT ![t] = c] /\ now' = [now EXCEPT ![t] = "insert"]
        /\ UNCHANGED <<waitTasks, state, deleted, held, todo, executing, silent, orphans>>
    BY DEF Make, Goes
  <1>2. k \in TimerTasks /\ k > made /\ k \in 1 .. k /\ 1 .. k = (1 .. made) \union {k} /\ k \notin 1 .. made /\ k # NoTask
    BY <1>1, TimerTypes, TimerAssumption DEF CountInv, TimerTasks
  <1>3. mine[t] \in Call /\ c.task = k /\ mine[t].repeat \in 0 .. 2
    BY TimerTypes DEF CountInv, Call
  <1>4. ref[k] = 0
    <2> HIDE DEF k
    <2> QED
      BY <1>2, UnmadeHasNone DEF CountInv
  <1> HIDE DEF k, c
  <1>5. /\ \A u \in TimerThreads : now'[u] = (IF u = t THEN "insert" ELSE now[u]) /\ mine'[u] = IF u = t THEN c ELSE mine[u]
        /\ TheTimer \in TimerThreads
        /\ ref' \in [TimerTasks -> Int] /\ \A n \in TimerTasks : ref'[n] = IF n = k THEN 1 ELSE ref[n]
    <2>1. ref \in [TimerTasks -> Int] /\ TheTimer \in TimerThreads
          /\ now \in [TimerThreads -> TimerSteps] /\ mine \in [TimerThreads -> Call]
      BY TimerTypes DEF CountInv
    <2>2. ref' = [ref EXCEPT ![k] = 1] /\ 1 \in Int
      BY <1>1
    <2>3. ref' \in [TimerTasks -> Int] /\ \A n \in TimerTasks : ref'[n] = IF n = k THEN 1 ELSE ref[n]
      BY <2>1, <2>2
    <2>4. now' = [now EXCEPT ![t] = "insert"] /\ mine' = [mine EXCEPT ![t] = c]
      BY <1>1
    <2>5. \A u \in TimerThreads : now'[u] = (IF u = t THEN "insert" ELSE now[u]) /\ mine'[u] = IF u = t THEN c ELSE mine[u]
      BY <2>1, <2>4
    <2> QED
      BY <2>1, <2>3, <2>5
  <1>6. RefInv'
    <2>1. Balanced(t, "insert", c)
      <3> SUFFICES ASSUME NEW n \in TimerTasks
                   PROVE  ref'[n] + Hand(now[t], mine[t], n) + Within(n, todo) + Within(n, orphans)
                            = ref[n] + Hand("insert", c, n) + Within(n, todo') + Within(n, orphans')
        BY DEF Balanced
      <3>1. Hand("insert", c, n) = (IF n = k THEN 1 ELSE 0) /\ Hand(now[t], mine[t], n) = 0
        BY <1>1, <1>3 DEF Hand, Uses
      <3>2. ref[n] \in Int /\ Within(n, todo) \in Int /\ Within(n, orphans) \in Int
        BY TimerTypes DEF CountInv, Within
      <3> QED
        BY <1>1, <1>4, <1>5, <3>1, <3>2
    <2> QED
      BY <1>1, <1>5, <2>1, RefStays DEF CountInv
  <1>7. DeletedInv'
    <2>1. 1 .. made' = (1 .. made) \union {k}
      BY <1>1, <1>2
    <2>2. \A n \in 1 .. made : n \in TimerTasks /\ ref'[n] = ref[n]
      BY <1>2, <1>5, TimerTypes DEF CountInv
    <2>3. deleted' = {n \in 1 .. made' : ref'[n] = 0}
      BY <1>1, <1>2, <1>5, <2>1, <2>2 DEF CountInv, DeletedInv
    <2>4. made' = made + 1 /\ objRef' = objRef + 1 /\ Cardinality(deleted) \in Nat /\ One(held) \in Nat /\ made \in Nat
      BY <1>1, DeletedFinite, TimerTypes DEF CountInv, One, k
    <2> QED
      BY <1>1, <2>3, <2>4 DEF CountInv, DeletedInv
  <1>8. MadeInv'
    <2>1. \A n \in 1 .. made : n \in 1 .. made'
      BY <1>1, <1>2
    <2>2. repeat' \in [TimerTasks -> 0 .. 2]
      BY <1>1, <1>3 DEF CountInv, MadeInv
    <2>3. \A u \in TimerThreads : now'[u] \in Uses => mine'[u].task \in 1 .. made'
      BY <1>1, <1>2, <1>3, <1>5, <2>1 DEF CountInv, MadeInv
    <2> QED
      BY <1>1, <2>1, <2>2, <2>3 DEF CountInv, MadeInv
  <1>9. EntryInv'
    <2>1. \A u \in TimerThreads : now[u] = "insert" => mine[u].task # k
      BY <1>2 DEF CountInv, MadeInv, Uses
    <2>2. \A i \in TimerIds : waitTasks[i] # k
      BY <1>2 DEF CountInv, MadeInv
    <2>3. k \notin orphans
      BY <1>2 DEF CountInv, MadeInv
    <2> QED
      BY <1>1, <1>3, <1>5, <2>1, <2>2, <2>3 DEF CountInv, EntryInv
  <1>10. ListInv'
    BY <1>1, <1>5 DEF CountInv, ListInv
  <1> QED
    BY <1>6, <1>7, <1>8, <1>9, <1>10 DEF CountInv

(* The table takes the task from the thread, or nobody does.               *)
LEMMA InsertTaskCounts == ASSUME KilledInv, CountInv, NEW t \in TimerThreads, InsertTask(t) PROVE CountInv'
  <1> DEFINE i == mine[t].id
             k == mine[t].task
             a == IF t = TheTimer THEN "callback" ELSE "free"
  <1>1. /\ now[t] = "insert" /\ i \in TimerIds
        /\ now' = [now EXCEPT ![t] = a] /\ mine' = [mine EXCEPT ![t] = NoCall]
        /\ UNCHANGED <<ref, state, repeat, made, deleted, objRef, held, todo, executing, silent>>
    BY DEF InsertTask, Returns, Goes, KilledInv, TypesInv
  <1>2. now[t] \in Uses /\ a \notin Uses /\ (t = TheTimer => a = "callback") /\ a # "insert"
    BY <1>1 DEF Uses
  <1>3. k \in 1 .. made /\ k \in TimerTasks /\ k # NoTask
    BY <1>2, TimerTypes DEF CountInv, MadeInv
  <1>4. k \notin orphans /\ \A j \in TimerIds : waitTasks[j] # k
    BY <1>1 DEF CountInv, EntryInv
  <1>5. \/ waitTasks[i] = NoTask /\ waitTasks' = [waitTasks EXCEPT ![i] = k] /\ UNCHANGED orphans
        \/ orphans' = orphans \union {k} /\ UNCHANGED waitTasks
    BY DEF InsertTask
  <1>6. /\ \A u \in TimerThreads : now'[u] = (IF u = t THEN a ELSE now[u]) /\ mine'[u] = IF u = t THEN NoCall ELSE mine[u]
        /\ TheTimer \in TimerThreads /\ ref' \in [TimerTasks -> Int]
    BY <1>1, TimerTypes DEF CountInv
  <1>7. \A n \in TimerTasks : /\ Hand(a, NoCall, n) = 0 /\ Hand(now[t], mine[t], n) = Equal(k, n)
                             /\ ref[n] \in Int /\ Within(n, todo) \in Int /\ Within(n, orphans) \in Int
                             /\ Equal(k, n) \in Int /\ ref'[n] = ref[n] /\ todo' = todo
    BY <1>1, <1>2, TimerTypes DEF CountInv, Within, Hand, Equal
  <1>8. RefInv'
    <2>1. CASE waitTasks[i] = NoTask /\ waitTasks' = [waitTasks EXCEPT ![i] = k] /\ UNCHANGED orphans
      <3>1. EntryBalanced(t, a, NoCall, i, k)
        <4>1. \A n \in TimerTasks : Equal(waitTasks[i], n) = 0
          BY <2>1, TimerTypes DEF Equal, CountInv
        <4> HIDE DEF i, k, a
        <4> QED
          BY <1>7, <2>1, <4>1 DEF EntryBalanced
      <3> HIDE DEF i, k, a
      <3> QED
        BY <1>1, <1>6, <2>1, <3>1, RefEntry DEF CountInv
    <2>2. CASE orphans' = orphans \union {k} /\ UNCHANGED waitTasks
      <3>1. Balanced(t, a, NoCall)
        <4>1. \A n \in TimerTasks : Within(n, orphans') = Within(n, orphans) + Equal(k, n)
          BY <1>4, <2>2 DEF Equal, Within
        <4> HIDE DEF i, k, a
        <4> SUFFICES ASSUME NEW n \in TimerTasks
                     PROVE  ref'[n] + Hand(now[t], mine[t], n) + Within(n, todo) + Within(n, orphans)
                              = ref[n] + Hand(a, NoCall, n) + Within(n, todo') + Within(n, orphans')
          BY DEF Balanced
        <4>2. Within(n, todo') = Within(n, todo)
          BY <1>1
        <4>3. Hand(a, NoCall, n) = 0 /\ Hand(now[t], mine[t], n) = Equal(k, n) /\ ref'[n] = ref[n]
          BY <1>7
        <4>4. ref[n] \in Int /\ Within(n, todo) \in Int /\ Within(n, orphans) \in Int /\ Equal(k, n) \in Int
          BY <1>7
        <4> QED
          BY <4>1, <4>2, <4>3, <4>4
      <3> HIDE DEF i, k, a
      <3> QED
        BY <1>1, <1>6, <2>2, <3>1, RefStays DEF CountInv
    <2> QED
      BY <1>5, <2>1, <2>2
  <1>9. DeletedInv'
    BY <1>1 DEF CountInv, DeletedInv
  <1>10. MadeInv'
    <2>1. waitTasks' \in [TimerIds -> TimerTasks \union {NoTask}] /\ \A j \in TimerIds : waitTasks'[j] \in {waitTasks[j], k}
      BY <1>3, <1>5, TimerTypes DEF CountInv
    <2>2. orphans' \subseteq 1 .. made
      BY <1>3, <1>5 DEF CountInv, MadeInv
    <2> HIDE DEF k, a, i
    <2> QED
      BY <1>1, <1>2, <1>3, <1>6, <2>1, <2>2 DEF CountInv, MadeInv
  <1>11. EntryInv'
    <2>1. \A u \in TimerThreads \ {t} : now[u] = "insert" => mine[u].task # k
      BY <1>1 DEF CountInv, EntryInv
    <2>2. \A u \in TimerThreads : now'[u] = "insert" => u # t /\ now[u] = "insert" /\ mine'[u] = mine[u]
      BY <1>2, <1>6
    <2> HIDE DEF k, a, i
    <2>3. CASE waitTasks[i] = NoTask /\ waitTasks' = [waitTasks EXCEPT ![i] = k] /\ UNCHANGED orphans
      <3>1. \A j \in TimerIds : waitTasks'[j] = IF j = i THEN k ELSE waitTasks[j]
        BY <2>3, TimerTypes DEF CountInv
      <3> QED
        BY <1>4, <2>1, <2>2, <2>3, <3>1 DEF CountInv, EntryInv
    <2>4. CASE orphans' = orphans \union {k} /\ UNCHANGED waitTasks
      BY <1>4, <2>1, <2>2, <2>4 DEF CountInv, EntryInv
    <2> QED
      BY <1>5, <2>3, <2>4
  <1>12. ListInv'
    BY <1>1, <1>2, <1>6 DEF CountInv, ListInv
  <1> QED
    BY <1>8, <1>9, <1>10, <1>11, <1>12 DEF CountInv

(* The object is let go by the server.                                     *)
LEMMA ReleaseObjectCounts == ASSUME KilledInv, CountInv, ReleaseObject PROVE CountInv'
  <1>1. /\ held = TRUE /\ held' = FALSE /\ objRef' = objRef - 1
        /\ UNCHANGED <<waitTasks, ref, state, repeat, made, deleted, now, mine, todo, executing, silent, orphans>>
    BY DEF ReleaseObject, CountInv, DeletedInv
  <1>2. DeletedInv'
    <2>1. held' \in BOOLEAN
      BY <1>1, Zenon
    <2>2. One(held) = 1 /\ One(held') = 0 /\ Cardinality(deleted) \in Nat /\ made \in Nat
      BY <1>1, DeletedFinite, TimerTypes DEF One, CountInv
    <2>3. objRef' = One(held') + made - Cardinality(deleted)
      BY <1>1, <2>2 DEF CountInv, DeletedInv
    <2>4. deleted' = {k \in 1 .. made' : ref'[k] = 0} /\ deleted' = deleted /\ made' = made
      BY <1>1 DEF CountInv, DeletedInv
    <2> QED
      BY <2>1, <2>3, <2>4 DEF DeletedInv
  <1> QED
    BY <1>1, <1>2 DEF CountInv, RefInv, MadeInv, EntryInv, ListInv

LEMMA TakeLockCounts == ASSUME KilledInv, CountInv, NEW k \in TimerTasks, TakeLock(k) PROVE CountInv'
  <1>1. PICK a \in {"unlock", "callback"} : now' = [now EXCEPT ![TheTimer] = a]
    BY DEF TakeLock, Goes
  <1>2. /\ now[TheTimer] = "next" /\ k \in todo /\ executing' = k /\ mine' = [mine EXCEPT ![TheTimer] = mine[TheTimer]]
        /\ UNCHANGED <<waitTasks, ref, state, repeat, made, deleted, objRef, held, todo, silent, orphans>>
    BY TimerTypes DEF TakeLock, CountInv
  <1>3. TheTimer \in TimerThreads /\ now'[TheTimer] = a
    BY <1>1, TimerTypes DEF CountInv
  <1>4. ListInv'
    BY <1>2, <1>3 DEF ListInv
  <1>5. state' \subseteq 1 .. made /\ executing' \in (1 .. made) \union {NoTask}
    BY <1>2 DEF CountInv, MadeInv
  <1>6. a \notin Uses /\ now[TheTimer] \notin Uses /\ a # "insert"
    BY <1>2 DEF Uses
  <1> QED
    BY <1>1, <1>2, <1>3, <1>4, <1>5, <1>6, QuietKeeps

LEMMA CallbackReturnsCounts == ASSUME KilledInv, CountInv, CallbackReturns PROVE CountInv'
  <1>1. /\ now' = [now EXCEPT ![TheTimer] = "unlock"] /\ now[TheTimer] = "callback"
        /\ mine' = [mine EXCEPT ![TheTimer] = mine[TheTimer]]
        /\ UNCHANGED <<waitTasks, ref, state, repeat, made, deleted, objRef, held, todo, executing, silent, orphans>>
    BY TimerTypes DEF CallbackReturns, Goes, CountInv
  <1>2. TheTimer \in TimerThreads /\ now'[TheTimer] = "unlock"
    BY <1>1, TimerTypes DEF CountInv
  <1>3. ListInv'
    BY <1>1, <1>2 DEF CountInv, ListInv
  <1>4. state' \subseteq 1 .. made /\ executing' \in (1 .. made) \union {NoTask}
    BY <1>1 DEF CountInv, MadeInv
  <1>5. "unlock" \notin Uses /\ now[TheTimer] \notin Uses /\ "unlock" # "insert"
    BY <1>1 DEF Uses
  <1> QED
    BY <1>1, <1>2, <1>3, <1>4, <1>5, QuietKeeps

(* The list lets the task go it has run.                                   *)
LEMMA UnlockedCounts == ASSUME KilledInv, CountInv, Unlocked PROVE CountInv'
  <1> DEFINE k == executing
             a == IF todo = {k} THEN "free" ELSE "next"
  <1>1. /\ now[TheTimer] = "unlock" /\ Released(k, 1) /\ executing' = NoTask /\ todo' = todo \ {k}
        /\ now' = [now EXCEPT ![TheTimer] = a] /\ mine' = [mine EXCEPT ![TheTimer] = mine[TheTimer]]
        /\ UNCHANGED <<waitTasks, state, repeat, made, held, mine, silent, orphans>>
    BY TimerTypes DEF Unlocked, Goes, CountInv
  <1>2. k \in todo /\ k \in 1 .. made /\ k \in TimerTasks
    BY <1>1, TimerTypes DEF CountInv, ListInv, MadeInv
  <1>3. ref[k] >= 1
    <2> HIDE DEF k
    <2> QED
      BY <1>2, UsedHasOne DEF CountInv
  <1>4. ref' = [ref EXCEPT ![k] = ref[k] - 1] /\ ref' \in [TimerTasks -> Int] /\ DeletedInv'
    <2> HIDE DEF k
    <2> QED
      BY <1>1, <1>2, <1>3, ReleasedIs DEF CountInv
  <1>5. /\ TheTimer \in TimerThreads /\ \A u \in TimerThreads : now'[u] = IF u = TheTimer THEN a ELSE now[u]
        /\ a \in {"free", "next"} /\ a \notin Uses /\ now[TheTimer] \notin Uses /\ (a = "free" => todo' = {})
    BY <1>1, TimerTypes DEF CountInv, Uses
  <1>6. RefInv'
    <2>1. Balanced(TheTimer, a, mine[TheTimer])
      <3> HIDE DEF k, a
      <3> SUFFICES ASSUME NEW n \in TimerTasks
                   PROVE  ref'[n] + Hand(now[TheTimer], mine[TheTimer], n) + Within(n, todo) + Within(n, orphans)
                            = ref[n] + Hand(a, mine[TheTimer], n) + Within(n, todo') + Within(n, orphans')
        BY DEF Balanced
      <3>1. Hand(a, mine[TheTimer], n) = 0 /\ Hand(now[TheTimer], mine[TheTimer], n) = 0
        BY <1>5 DEF Hand
      <3>2. Within(n, todo') = IF n = k THEN Within(n, todo) - 1 ELSE Within(n, todo)
        BY <1>1, <1>2 DEF Within
      <3>3. ref[n] \in Int /\ Within(n, todo) \in Int /\ Within(n, orphans) \in Int
            /\ ref'[n] = IF n = k THEN ref[n] - 1 ELSE ref[n]
        BY <1>4, TimerTypes DEF CountInv, Within
      <3>4. Within(n, orphans') = Within(n, orphans)
        BY <1>1
      <3> QED
        BY <3>1, <3>2, <3>3, <3>4
    <2> HIDE DEF k, a
    <2> QED
      BY <1>1, <1>4, <1>5, <2>1, RefStays DEF CountInv
  <1>7. MadeInv'
    <2> HIDE DEF k, a
    <2> QED
      BY <1>1, <1>2, <1>5 DEF CountInv, MadeInv
  <1>8. EntryInv'
    <2> HIDE DEF k, a
    <2> QED
      BY <1>1, <1>5 DEF CountInv, EntryInv
  <1>9. ListInv'
    <2> HIDE DEF k, a
    <2> QED
      BY <1>1, <1>5 DEF ListInv
  <1> QED
    BY <1>4, <1>6, <1>7, <1>8, <1>9 DEF CountInv

(* What is due leaves the table, or gets one reference more.               *)
LEMMA CollectCounts == ASSUME KilledInv, CountInv, NEW due \in SUBSET TimerIds, Collect(due) PROVE CountInv'
  <1> DEFINE last == {i \in due : repeat[waitTasks[i]] = 1}
             taken == {waitTasks[i] : i \in due}
             kept == {waitTasks[i] : i \in due \ last}
  <1>1. /\ now[TheTimer] = "free" /\ \A i \in due : waitTasks[i] # NoTask
        /\ todo' = taken
        /\ ref' = [k \in TimerTasks |-> IF k \in kept THEN ref[k] + 1 ELSE ref[k]]
        /\ repeat' = [k \in TimerTasks |-> IF k \in kept /\ repeat[k] > 1 THEN repeat[k] - 1 ELSE repeat[k]]
        /\ waitTasks' = [i \in TimerIds |-> IF i \in last THEN NoTask ELSE waitTasks[i]]
        /\ now' = [now EXCEPT ![TheTimer] = "next"]
        /\ UNCHANGED <<state, made, deleted, objRef, held, mine, executing, silent, orphans>>
    BY DEF Collect, Goes
  <1>2. todo = {}
    BY <1>1 DEF CountInv, ListInv
  <1>3. \A i \in due : i \in TimerIds /\ waitTasks[i] \in 1 .. made /\ waitTasks[i] \in TimerTasks
    BY <1>1, TimerTypes DEF CountInv, MadeInv
  <1>4. \A i, j \in due : waitTasks[i] = waitTasks[j] => i = j
    BY <1>1 DEF CountInv, EntryInv
  <1>5. /\ TheTimer \in TimerThreads /\ \A u \in TimerThreads : now'[u] = IF u = TheTimer THEN "next" ELSE now[u]
        /\ now[TheTimer] \notin Uses /\ "next" \notin Uses
    BY <1>1, TimerTypes DEF CountInv, Uses
  <1>6. \A k \in TimerTasks : Cardinality(Handling(now', mine', k)) = Cardinality(Handling(now, mine, k))
    <2> SUFFICES ASSUME NEW k \in TimerTasks PROVE Handling(now', mine', k) = Handling(now, mine, k)
      OBVIOUS
    <2> QED
      BY <1>1, <1>5 DEF Handling
  <1>7. \A k \in TimerTasks :
          /\ ref'[k] = (IF k \in kept THEN ref[k] + 1 ELSE ref[k])
          /\ Cardinality(Entries(waitTasks, k)) \in Nat /\ Cardinality(Entries(waitTasks', k)) \in Nat
          /\ Cardinality(Entries(waitTasks', k)) + Within(k, taken)
               = Cardinality(Entries(waitTasks, k)) + (IF k \in kept THEN 1 ELSE 0)
    <2> SUFFICES ASSUME NEW k \in TimerTasks
                 PROVE  /\ Cardinality(Entries(waitTasks, k)) \in Nat /\ Cardinality(Entries(waitTasks', k)) \in Nat
                        /\ Cardinality(Entries(waitTasks', k)) + Within(k, taken)
                             = Cardinality(Entries(waitTasks, k)) + (IF k \in kept THEN 1 ELSE 0)
      BY <1>1
    <2> DEFINE P == Entries(waitTasks, k)
               Q == Entries(waitTasks', k)
    <2>0. P \in SUBSET TimerIds /\ Q \in SUBSET TimerIds
      BY DEF Entries
    <2>1. Cardinality(P) \in Nat /\ Cardinality(Q) \in Nat
      <3> HIDE DEF P, Q
      <3> QED
        BY <2>0, TimerSetsFinite, FS_Subset, FS_CardinalityType
    <2>2. CASE k \notin taken
      <3>1. k \notin kept /\ Within(k, taken) = 0
        BY <2>2 DEF Within
      <3>2. P = Q
        BY <1>1, <2>2, TimerTypes DEF Entries, CountInv
      <3> QED
        BY <2>1, <3>1, <3>2
    <2>3. CASE k \in taken
      <3>1. PICK i \in due : waitTasks[i] = k
        BY <2>3
      <3>2. Within(k, taken) = 1
        BY <2>3 DEF Within
      <3>3. k \in kept <=> i \notin last
        BY <1>4, <3>1
      <3>4. CASE i \in last
        <4>1. i \in TimerIds /\ i \in P /\ i \notin Q /\ \A j \in TimerIds : j # i => (j \in P <=> j \in Q)
          <5>1. i \in TimerIds /\ i \in P
            BY <1>3, <3>1 DEF Entries
          <5>2. i \notin Q
            BY <1>1, <3>4, TimerTypes DEF Entries, CountInv
          <5>3. \A j \in TimerIds : j # i => (j \in P <=> j \in Q)
            BY <1>1, <1>4, <3>1, TimerTypes DEF Entries, CountInv
          <5> QED
            BY <5>1, <5>2, <5>3
        <4> HIDE DEF P, Q
        <4>2. Cardinality(Q) = Cardinality(P) - One(i \in P) + One(i \in Q)
          BY <2>0, <4>1, TimerSetsFinite, AllButOne
        <4>3. One(i \in P) = 1 /\ One(i \in Q) = 0
          BY <4>1 DEF One
        <4>4. Cardinality(Q) + 1 = Cardinality(P)
          BY <2>1, <4>2, <4>3
        <4> HIDE DEF taken, kept, last
        <4>5. Cardinality(Q) + Within(k, taken) = Cardinality(P) + (IF k \in kept THEN 1 ELSE 0)
          BY <2>1, <3>2, <3>3, <3>4, <4>4
        <4> QED
          BY <2>1, <4>5 DEF P, Q
      <3>5. CASE i \notin last
        <4>1. P = Q
          BY <1>1, <1>4, <3>1, <3>5, TimerTypes DEF Entries, CountInv
        <4> HIDE DEF taken, kept, last
        <4> QED
          BY <2>1, <3>2, <3>3, <3>5, <4>1
      <3> QED
        BY <3>4, <3>5
    <2> QED
      BY <2>2, <2>3
  <1>8. RefInv'
    <2>1. ref' \in [TimerTasks -> Nat]
      BY <1>1, TimerTypes DEF CountInv
    <2>2. ASSUME NEW k \in TimerTasks
          PROVE  ref'[k] = Cardinality(Entries(waitTasks', k)) + Within(k, todo')
                            + Cardinality(Handling(now', mine', k)) + Within(k, orphans')
      <3>1. ref[k] = Cardinality(Entries(waitTasks, k)) + 0 + Cardinality(Handling(now, mine, k)) + Within(k, orphans)
        BY <1>2 DEF CountInv, RefInv, Within
      <3>2. Cardinality(Handling(now, mine, k)) \in Nat /\ Within(k, orphans) \in Nat /\ Within(k, taken) \in Nat
        <4>1. Handling(now, mine, k) \in SUBSET TimerThreads
          BY DEF Handling
        <4>2. Cardinality(Handling(now, mine, k)) \in Nat
          BY <4>1, TimerSetsFinite, FS_Subset, FS_CardinalityType
        <4> QED
          BY <4>2 DEF Within
      <3>3. Within(k, todo') = Within(k, taken) /\ Within(k, orphans') = Within(k, orphans)
        BY <1>1
      <3>4. /\ ref'[k] = (IF k \in kept THEN ref[k] + 1 ELSE ref[k])
            /\ Cardinality(Entries(waitTasks, k)) \in Nat /\ Cardinality(Entries(waitTasks', k)) \in Nat
            /\ Cardinality(Entries(waitTasks', k)) + Within(k, taken)
                 = Cardinality(Entries(waitTasks, k)) + (IF k \in kept THEN 1 ELSE 0)
            /\ Cardinality(Handling(now', mine', k)) = Cardinality(Handling(now, mine, k))
        BY <1>6, <1>7
      <3> HIDE DEF taken, kept, last
      <3> QED
        BY <3>1, <3>2, <3>3, <3>4
    <2> QED
      BY <2>1, <2>2 DEF RefInv
  <1>9. DeletedInv'
    <2>1. ASSUME NEW k \in 1 .. made PROVE ref'[k] = 0 <=> ref[k] = 0
      <3>1. k \in TimerTasks /\ ref[k] \in Nat
        BY TimerTypes DEF CountInv
      <3>2. k \in kept => ref[k] >= 1
        <4>1. k \in kept => \E i \in TimerIds : waitTasks[i] = k
          BY <1>3
        <4> HIDE DEF kept
        <4> QED
          BY <3>1, <4>1, UsedHasOne DEF CountInv
      <3>3. ref'[k] = IF k \in kept THEN ref[k] + 1 ELSE ref[k]
        BY <1>7, <3>1
      <3> HIDE DEF kept
      <3> QED
        BY <3>1, <3>2, <3>3
    <2> QED
      BY <1>1, <2>1 DEF CountInv, DeletedInv
  <1>10. MadeInv'
    <2>1. todo' \subseteq 1 .. made /\ \A i \in TimerIds : waitTasks'[i] \in {waitTasks[i], NoTask}
      BY <1>1, <1>3
    <2>2. repeat' \in [TimerTasks -> 0 .. 2]
      <3>1. \A k \in TimerTasks : repeat[k] \in 0 .. 2
        BY DEF CountInv, MadeInv
      <3> HIDE DEF kept
      <3> QED
        BY <1>1, <3>1
    <2> HIDE DEF last, taken, kept
    <2> QED
      BY <1>1, <1>5, <2>1, <2>2 DEF CountInv, MadeInv
  <1>11. EntryInv'
    <2>1. \A i \in TimerIds : waitTasks'[i] \in {waitTasks[i], NoTask}
      BY <1>1
    <2>2. \A u \in TimerThreads : now'[u] = "insert" => now[u] = "insert" /\ mine'[u] = mine[u] /\ mine[u].task # NoTask
      <3>1. \A u \in TimerThreads : now[u] = "insert" => mine[u].task \in 1 .. made
        BY DEF CountInv, MadeInv, Uses
      <3> QED
        BY <1>1, <1>5, <3>1, TimerTypes DEF CountInv
    <2> HIDE DEF last, taken, kept
    <2> QED
      BY <1>1, <2>1, <2>2 DEF CountInv, EntryInv
  <1>12. ListInv'
    BY <1>5 DEF ListInv
  <1> QED
    BY <1>8, <1>9, <1>10, <1>11, <1>12 DEF CountInv

-----------------------------------------------------------------------------
LEMMA InitCounts == TimerInit => CountInv
  <1> SUFFICES ASSUME TimerInit PROVE CountInv
    OBVIOUS
  <1>1. NoTask = 0 /\ TimerTasks \subseteq Nat \ {0} /\ NoCall.task = NoTask
    BY TimerAssumption DEF TimerTasks, NoCall
  <1>2. \A k \in TimerTasks : Entries(waitTasks, k) = {} /\ Handling(now, mine, k) = {}
    BY <1>1 DEF TimerInit, Entries, Handling, Uses
  <1>3. RefInv
    <2>1. Cardinality({}) = 0
      BY FS_EmptySet
    <2> QED
      BY <1>2, <2>1 DEF TimerInit, RefInv, Within
  <1>4. DeletedInv
    <2>1. 1 .. made = {} /\ Cardinality({}) = 0 /\ One(held) = 1 /\ made = 0 /\ deleted = {} /\ objRef = 1
      BY FS_EmptySet DEF TimerInit, One
    <2>2. held \in BOOLEAN
      BY Zenon DEF TimerInit
    <2> QED
      BY <2>1, <2>2 DEF DeletedInv
  <1>5. MadeInv /\ EntryInv /\ ListInv
    BY <1>1 DEF TimerInit, MadeInv, EntryInv, ListInv, Uses, TimerThreads
  <1> QED
    BY <1>3, <1>4, <1>5 DEF CountInv

LEMMA CountsKeep == KilledInv /\ CountInv /\ [TimerNext]_timerVars => CountInv'
  <1> SUFFICES ASSUME KilledInv, CountInv, [TimerNext]_timerVars PROVE CountInv'
    OBVIOUS
  <1>1. CASE UNCHANGED timerVars
    BY <1>1 DEF timerVars, CountInv, RefInv, DeletedInv, MadeInv, EntryInv, ListInv
  <1>2. ASSUME NEW t \in TimerThreads,
               \/ \E i \in TimerIds : KillTimer(t, i) \/ \E times \in 0 .. 2 : SetTimer(t, i, times)
               \/ FindTask(t) \/ Mark(t) \/ Killed(t) \/ Make(t) \/ InsertTask(t)
        PROVE  CountInv'
    BY <1>2, KillTimerCounts, SetTimerCounts, FindTaskCounts, MarkCounts, KilledCounts, MakeCounts, InsertTaskCounts
  <1> QED
    BY <1>1, <1>2, ReleaseObjectCounts, CollectCounts, TakeLockCounts, CallbackReturnsCounts, UnlockedCounts DEF TimerNext

LEMMA CountsMean == KilledInv /\ CountInv => TimerInv
  <1> SUFFICES ASSUME KilledInv, CountInv PROVE TimerInv
    OBVIOUS
  <1>1. TasksCounted
    <2>1. ASSUME NEW k \in TimerTasks PROVE ref[k] = UsersOf(k) + (IF k \in orphans THEN 1 ELSE 0)
      BY DEF CountInv, RefInv, UsersOf, Within, Entries, Handling, Uses
    <2>2. objRef = (IF held THEN 1 ELSE 0) + made - Cardinality(deleted)
      BY DEF CountInv, DeletedInv, One
    <2> QED
      BY <2>1, <2>2 DEF TasksCounted, CountInv, DeletedInv
  <1>2. TimerTypeOK
    <2>1. objRef \in Nat
      BY DeletedFinite, TimerTypes DEF CountInv, DeletedInv, One
    <2>2. state \union deleted \union todo \union silent \union orphans \subseteq TimerTasks
          /\ executing \in TimerTasks \union {NoTask}
      BY TimerTypes DEF CountInv, DeletedInv, MadeInv
    <2>3. made \in 0 .. MaxTasks
      BY DEF KilledInv, TypesInv
    <2> QED
      BY <2>1, <2>2, <2>3, TimerTypes DEF TimerTypeOK, CountInv, MadeInv, DeletedInv, TimerSteps, InCallback
  <1> QED
    BY <1>1, <1>2 DEF TimerInv

(* A task has as many references as it has users and is deleted with the   *)
(* last, and so is the object when the server and the tasks have let it go *)
(* (Timer.cpp, TASK; ShareObject.cpp).                                     *)
THEOREM TimerInvHolds == TimerSpec => []TimerInv
  <1>1. TimerSpec => []KilledInv
    BY InitKilled, TimerStepKeeps, PTL DEF TimerSpec
  <1> QED
    BY <1>1, InitCounts, CountsKeep, CountsMean, PTL DEF TimerSpec

-----------------------------------------------------------------------------
(* The inductive invariant.                                                *)

NodeKey(n) == Key(nodes[n].e)

Turns(n) == nodes[n].turns

(* The walk to m passes n, or ends there.                                  *)
Below(n, m) == n = m \/ \E d \in Sides : <<n, d>> \in Turns(m)

(* The turns that lead to a node are those keycmp tells, and they are all  *)
(* that the links of the tree make of it; no two nodes have the same key.  *)
TurnsTold ==
  \A n \in DOMAIN nodes :
    /\ Turns(n) \subseteq (DOMAIN nodes) \X Sides
    /\ \A a \in DOMAIN nodes, d \in Sides : <<a, d>> \in Turns(n) => d = Turn[NodeKey(n)][NodeKey(a)]

ChildrenTurn ==
  \A a \in DOMAIN nodes, d \in Sides : nodes[a].child[d] # 0 =>
    /\ nodes[a].child[d] \in DOMAIN nodes
    /\ Turns(nodes[a].child[d]) = Turns(a) \union {<<a, d>>}

TurnsLead ==
  \A n, a \in DOMAIN nodes, d \in Sides :
    <<a, d>> \in Turns(n) => nodes[a].child[d] # 0 /\ Below(nodes[a].child[d], n)

RootFirst ==
  nodes # <<>> => Turns(1) = {} /\ \A n \in DOMAIN nodes : Below(1, n)

KeysDiffer == \A m, n \in DOMAIN nodes : NodeKey(m) = NodeKey(n) => m = n

TreeInv == TurnsTold /\ ChildrenTurn /\ TurnsLead /\ RootFirst /\ KeysDiffer

(* A walk follows the turns of its key, so that a node with this key can   *)
(* only be further down.                                                   *)
OnTheWay(k, n) ==
  /\ n \in DOMAIN nodes
  /\ \A a \in DOMAIN nodes, d \in Sides : <<a, d>> \in Turns(n) => d = Turn[k][NodeKey(a)]
  /\ \A m \in DOMAIN nodes : NodeKey(m) = k => Below(n, m)

WalkInv ==
  walk # NoField =>
    /\ IF walk.at = 0 THEN walk.e = 0 /\ nodes = <<>> ELSE OnTheWay(walk.key, walk.at)
    /\ IF walk.e = 0 THEN sought = walk.key /\ shuffled = {}
       ELSE walk.key = Key(walk.e) /\ walk.e \notin shuffled

(* An element is pending, or the tree has it or a later one of its key;    *)
(* the list has those that are pending or in the tree.                     *)
Pending ==
  searched + 1 .. Len(elements) \union shuffled \union {e \in Elements : walk # NoField /\ walk.e = e}

InTree == {nodes[n].e : n \in DOMAIN nodes}

PlacesInv ==
  /\ \A e \in Elements \ Pending : \E n \in DOMAIN nodes : NodeKey(n) = Key(e) /\ nodes[n].e >= e
  /\ InTree \intersect Pending = {}
  /\ link = InTree \union Pending

(* The last element of a key has the value the key was last given.         *)
Newest(e, k) == e \in Elements /\ Key(e) = k /\ \A i \in Elements : Key(i) = k => i <= e

None(k) == \A i \in Elements : Key(i) # k

LatestInv ==
  \A k \in Keys :
    /\ None(k) <=> latest[k] = NoField
    /\ \A e \in Elements : Newest(e, k) => elements[e].value = latest[k]

(* What find has returned, and who has called it.                          *)
FoundInv ==
  /\ found # NoField => IF found.e = 0 THEN None(found.key) ELSE Newest(found.e, found.key)
  /\ sought # NoField => searched = Len(elements) /\ found = NoField
  /\ update # NoField /\ sought # NoField =>
       update.step \in {"check", "copy"} /\ More /\ sought = Field.key
  /\ update # NoField /\ found # NoField =>
       update.step \in {"check", "copy"} /\ More /\ found.key = Field.key

UpdateType ==
  [new : Seq(FieldData), step : {"size", "check", "copy"}, at : Nat \ {0}, count : Nat]

UpdateTypeOK == update # NoField => update \in UpdateType

FieldInv ==
  /\ FieldTypeOK /\ UpdateTypeOK
  /\ TreeInv /\ WalkInv /\ PlacesInv /\ LatestInv /\ FoundInv

-----------------------------------------------------------------------------
(* Lemmas.                                                                 *)

LEMMA FieldInitKeeps == FieldInit => FieldInv
  <1> SUFFICES ASSUME FieldInit PROVE FieldInv
    OBVIOUS
  <1> USE DEF FieldInit, Elements
  <1>1. FieldTypeOK
    BY FieldAssumption DEF FieldTypeOK
  <1>2. UpdateTypeOK
    BY DEF UpdateTypeOK
  <1>3. TreeInv
    BY DEF TreeInv, TurnsTold, ChildrenTurn, TurnsLead, RootFirst, KeysDiffer
  <1>4. WalkInv /\ PlacesInv
    BY DEF WalkInv, PlacesInv, Pending, InTree
  <1>5. LatestInv /\ FoundInv
    BY DEF LatestInv, FoundInv, None, Newest
  <1> QED
    BY <1>1, <1>2, <1>3, <1>4, <1>5 DEF FieldInv

LEMMA NodesTyped ==
  ASSUME nodes \in Seq(TreeNode)
  PROVE  /\ Len(nodes) \in Nat /\ DOMAIN nodes = 1 .. Len(nodes)
         /\ \A n \in DOMAIN nodes : /\ nodes[n].e \in Elements
                                   /\ nodes[n].child \in [Sides -> Nat]
                                   /\ Turns(n) \subseteq Nat \X Sides
  <1>1. Len(nodes) \in Nat /\ DOMAIN nodes = 1 .. Len(nodes) /\ \A n \in DOMAIN nodes : nodes[n] \in TreeNode
    OBVIOUS
  <1> QED
    BY <1>1 DEF TreeNode, Turns

(* The tree, the walk and what is said of them depend on the elements only *)
(* by their keys: they stay as they are when elements are added or values  *)
(* change.                                                                 *)
KeysStay ==
  Elements \subseteq Elements' /\ \A e \in Elements : Key(e)' = Key(e)

LEMMA TreeStays ==
  ASSUME FieldTypeOK, TreeInv, KeysStay, UNCHANGED nodes
  PROVE  TreeInv'
  <1>1. \A n \in DOMAIN nodes : NodeKey(n)' = NodeKey(n) /\ Turns(n)' = Turns(n)
    BY NodesTyped DEF FieldTypeOK, KeysStay, NodeKey, Turns
  <1>2. TurnsTold'
    BY <1>1 DEF TreeInv, TurnsTold
  <1>3. ChildrenTurn'
    BY <1>1 DEF TreeInv, ChildrenTurn
  <1>4. TurnsLead'
    BY <1>1 DEF TreeInv, TurnsLead, ChildrenTurn, Below
  <1>5. RootFirst'
    BY <1>1 DEF TreeInv, RootFirst, Below, Turns
  <1>6. KeysDiffer'
    BY <1>1 DEF TreeInv, KeysDiffer
  <1> QED
    BY <1>2, <1>3, <1>4, <1>5, <1>6 DEF TreeInv

LEMMA InsertKeeps ==
  ASSUME FieldInv, Still, NEW field \in FieldData, Insert(field), found' = NoField
  PROVE  FieldTypeOK' /\ TreeInv' /\ WalkInv' /\ PlacesInv' /\ LatestInv'
  <1>0. PICK e \in Nat : e = Len(elements) + 1
    BY DEF FieldInv, FieldTypeOK
  <1>1. /\ elements' = Append(elements, field) /\ link' = link \union {e}
        /\ latest' = [latest EXCEPT ![field.key] = field.value]
        /\ nodes' = nodes /\ walk' = NoField /\ walk = NoField /\ sought' = NoField
        /\ \/ shuffled' = searched + 1 .. e /\ searched' = e
           \/ shuffled' = {} /\ searched' = searched
        /\ shuffled = {}
    BY <1>0 DEF Insert, Linked, InsertR, Still
  <1>2. elements \in Seq(FieldData) /\ link \subseteq Elements /\ searched \in 0 .. Len(elements)
    BY DEF FieldInv, FieldTypeOK
  <1>3. /\ elements' \in Seq(FieldData) /\ Len(elements') = e
        /\ \A i \in Elements : elements'[i] = elements[i]
        /\ elements'[e] = field
    BY <1>0, <1>1, <1>2 DEF Elements
  <1>4. Elements' = Elements \union {e} /\ e \notin Elements /\ \A i \in Elements : i < e
    BY <1>0, <1>2, <1>3 DEF Elements
  <1>5. KeysStay
    BY <1>3, <1>4 DEF KeysStay, Key
  <1>6. TreeInv'
    BY <1>1, <1>5, TreeStays DEF FieldInv
  <1>7. FieldTypeOK'
    <2>1. nodes' \in Seq(TreeNode')
      <3>1. \A n \in TreeNode : n \in TreeNode'
        BY <1>4 DEF TreeNode
      <3> QED
        BY <1>1, <3>1 DEF FieldInv, FieldTypeOK
    <2>2. searched' \in 0 .. Len(elements') /\ shuffled' \subseteq 1 .. searched'
      BY <1>0, <1>1, <1>2, <1>3
    <2>3. latest' \in [Keys -> Values \union {NoField}]
      BY <1>1 DEF FieldInv, FieldTypeOK, FieldData
    <2> QED
      BY <1>1, <1>2, <1>3, <1>4, <2>1, <2>2, <2>3 DEF FieldTypeOK
  <1>8. WalkInv'
    BY <1>1 DEF WalkInv
  <1>9. PlacesInv'
    <2>1. Pending' = Pending \union {e}
      BY <1>0, <1>1, <1>2, <1>3, <1>4 DEF Pending, Elements
    <2>2. \A n \in DOMAIN nodes : nodes[n].e \in Elements /\ NodeKey(n)' = NodeKey(n)
      BY <1>1, <1>5, NodesTyped DEF FieldInv, FieldTypeOK, NodeKey, KeysStay
    <2>3. InTree' = InTree /\ InTree \subseteq Elements
      BY <1>1, <2>2 DEF InTree
    <2>4. ASSUME NEW i \in Elements' \ Pending'
          PROVE  \E n \in DOMAIN nodes' : NodeKey(n)' = Key(i)' /\ nodes'[n].e >= i
      BY <1>1, <1>4, <1>5, <2>1, <2>2, <2>4 DEF FieldInv, PlacesInv, KeysStay
    <2> QED
      BY <1>1, <1>4, <2>1, <2>3, <2>4 DEF FieldInv, PlacesInv
  <1>10. LatestInv'
    <2> SUFFICES ASSUME NEW k \in Keys
                 PROVE  /\ None(k)' <=> latest'[k] = NoField
                        /\ \A i \in Elements' : Newest(i, k)' => elements'[i].value = latest'[k]
      BY DEF LatestInv
    <2>1. /\ None(k) <=> latest[k] = NoField
          /\ \A i \in Elements : Newest(i, k) => elements[i].value = latest[k]
      BY DEF FieldInv, LatestInv
    <2>2. e \in Nat /\ Elements \subseteq Nat
      BY <1>2 DEF Elements
    <2>3. CASE k = field.key
      <3>1. latest'[k] = field.value /\ field.value # NoField
        BY <1>1, <2>3, FieldAssumption DEF FieldInv, FieldTypeOK, FieldData
      <3>2. Key(e)' = k
        BY <1>3, <2>3 DEF Key
      <3>3. \A i \in Elements' : Newest(i, k)' => i = e
        BY <1>4, <2>2, <3>2 DEF Newest
      <3> QED
        BY <1>3, <1>4, <3>1, <3>2, <3>3 DEF None
    <2>4. CASE k # field.key
      <3>1. latest'[k] = latest[k] /\ Key(e)' # k
        BY <1>1, <1>3, <2>4 DEF FieldInv, FieldTypeOK, Key
      <3>2. \A i \in Elements : Newest(i, k)' => Newest(i, k)
        BY <1>4, <1>5 DEF Newest, KeysStay
      <3> QED
        BY <1>3, <1>4, <1>5, <2>1, <3>1, <3>2 DEF None, KeysStay, Newest
    <2> QED
      BY <2>3, <2>4
  <1> QED
    BY <1>6, <1>7, <1>8, <1>9, <1>10

(* What does not touch the elements leaves their values and keys.          *)
LEMMA LatestStays ==
  ASSUME LatestInv, UNCHANGED <<elements, latest>>
  PROVE  LatestInv'
  BY DEF LatestInv, None, Newest, Elements, Key

(* All the list has more than the tree is sent there.                      *)
LEMMA SendKeeps ==
  ASSUME FieldInv, Still, InsertR(Len(elements)), found' = NoField,
         sought' \in Keys \union {NoField}, UNCHANGED <<elements, link, nodes, walk, latest>>
  PROVE  FieldTypeOK' /\ TreeInv' /\ WalkInv' /\ PlacesInv' /\ LatestInv'
  <1>1. /\ shuffled = {} /\ walk = NoField /\ searched \in 0 .. Len(elements)
        /\ elements \in Seq(FieldData) /\ Len(elements) \in Nat
        /\ shuffled' = searched + 1 .. Len(elements) /\ searched' = Len(elements)
    BY DEF Still, FieldInv, FieldTypeOK, InsertR
  <1>2. FieldTypeOK'
    <2>1. Elements' = Elements /\ TreeNode' = TreeNode
      BY DEF Elements, TreeNode
    <2>2. searched' \in 0 .. Len(elements) /\ shuffled' \subseteq 1 .. searched'
      BY <1>1
    <2> QED
      BY <1>1, <2>1, <2>2 DEF FieldInv, FieldTypeOK
  <1>3. KeysStay
    BY DEF KeysStay, Elements, Key
  <1>4. TreeInv'
    BY <1>3, TreeStays DEF FieldInv
  <1>5. WalkInv'
    BY <1>1 DEF WalkInv
  <1>6. PlacesInv'
    <2>1. Pending' = Pending
      BY <1>1 DEF Pending, Elements
    <2> QED
      BY <2>1 DEF FieldInv, PlacesInv, InTree, NodeKey, Key, Elements
  <1>7. LatestInv'
    BY LatestStays DEF FieldInv
  <1> QED
    BY <1>2, <1>4, <1>5, <1>6, <1>7

(* The map stays as it is, but for what find has returned.                 *)
LEMMA MapKeeps ==
  ASSUME FieldInv, UNCHANGED <<elements, link, searched, shuffled, nodes, walk, sought, latest>>,
         found' \in {found, NoField}
  PROVE  FieldTypeOK' /\ TreeInv' /\ WalkInv' /\ PlacesInv' /\ LatestInv'
  <1>1. FieldTypeOK'
    <2>1. Elements' = Elements /\ TreeNode' = TreeNode
      BY DEF Elements, TreeNode
    <2> QED
      BY <2>1 DEF FieldInv, FieldTypeOK
  <1>2. KeysStay
    BY DEF KeysStay, Elements, Key
  <1>3. TreeInv'
    BY <1>2, TreeStays DEF FieldInv
  <1>4. WalkInv'
    BY DEF FieldInv, WalkInv, OnTheWay, Turns, NodeKey, Key, Below
  <1>5. PlacesInv'
    BY DEF FieldInv, PlacesInv, Pending, InTree, NodeKey, Key, Elements
  <1>6. LatestInv'
    BY LatestStays DEF FieldInv
  <1> QED
    BY <1>1, <1>3, <1>4, <1>5, <1>6

(* What find has returned stays true when the elements stay.               *)
LEMMA FoundStays ==
  ASSUME FoundInv, UNCHANGED <<elements, searched, sought, found, update>>
  PROVE  FoundInv'
  BY DEF FoundInv, None, Newest, Elements, Key, More, Field

LEMMA PutKeeps == ASSUME FieldInv, NEW field \in FieldData, Put(field) PROVE FieldInv'
  <1>1. Still /\ Insert(field) /\ found' = NoField /\ found = NoField /\ update' = NoField
    BY DEF Put, Calm
  <1>2. sought' = NoField
    BY <1>1 DEF Insert, Still
  <1> QED
    BY <1>1, <1>2, InsertKeeps DEF FieldInv, FoundInv, UpdateTypeOK

LEMMA FieldBeginKeeps == ASSUME FieldInv, Begin PROVE FieldInv'
  <1>1. /\ Still /\ InsertR(Len(elements)) /\ found' = NoField /\ update' = NoField /\ sought' = NoField
        /\ UNCHANGED <<elements, link, nodes, walk, latest>>
    BY DEF Begin, Calm, Still
  <1> QED
    BY <1>1, SendKeeps DEF FieldInv, FoundInv, UpdateTypeOK

LEMMA FindKeeps ==
  ASSUME FieldInv, NEW k \in Keys, Find(k), UNCHANGED <<update, latest>>,
         update # NoField => update.step \in {"check", "copy"} /\ More /\ k = Field.key
  PROVE  FieldInv'
  <1>1. /\ Still /\ InsertR(Len(elements)) /\ found' = NoField /\ sought' = k
        /\ searched' = Len(elements') /\ UNCHANGED <<elements, link, nodes, walk, latest>>
    BY DEF Find, InsertR
  <1>2. FoundInv'
    BY <1>1 DEF FoundInv, More, Field
  <1> QED
    BY <1>1, <1>2, SendKeeps DEF FieldInv, UpdateTypeOK

LEMMA UpdateFieldsKeeps == ASSUME FieldInv, NEW new \in Updates, UpdateFields(new) PROVE FieldInv'
  <1>1. /\ Still /\ InsertR(Len(elements)) /\ found' = NoField /\ sought' = NoField
        /\ update' = [new |-> new, step |-> "size", at |-> 1, count |-> 0]
        /\ UNCHANGED <<elements, link, nodes, walk, latest>>
    BY DEF UpdateFields, Calm, Still
  <1>2. new \in Seq(FieldData)
    BY FieldAssumption DEF Updates
  <1>3. UpdateTypeOK'
    BY <1>1, <1>2 DEF UpdateTypeOK, UpdateType
  <1>4. FoundInv'
    BY <1>1 DEF FoundInv
  <1> QED
    BY <1>1, <1>3, <1>4, SendKeeps DEF FieldInv

LEMMA ForgetKeeps == ASSUME FieldInv, Forget PROVE FieldInv'
  <1>1. /\ UNCHANGED <<elements, link, searched, shuffled, nodes, walk, sought, update, latest>>
        /\ found' = NoField /\ update = NoField /\ sought' = NoField
    BY DEF Forget, Still
  <1> QED
    BY <1>1, MapKeeps DEF FieldInv, FoundInv, UpdateTypeOK

LEMMA SizeOfList == ASSUME FieldTypeOK PROVE Cardinality(link) \in Nat
  <1>1. IsFiniteSet(1 .. Len(elements))
    BY FS_Interval DEF FieldTypeOK
  <1>2. IsFiniteSet(link)
    BY <1>1, FS_Subset DEF FieldTypeOK, Elements
  <1> QED
    BY <1>2, FS_CardinalityType

LEMMA FieldTyped == ASSUME UpdateTypeOK, update # NoField, More PROVE Field \in FieldData
  BY DEF UpdateTypeOK, UpdateType, More, Field

(* A request that goes on or ends leaves the map alone, and nothing is     *)
(* looked for.                                                             *)
LEMMA UpdateKeeps ==
  ASSUME FieldInv, Still, UpdateTypeOK', found' = NoField,
         UNCHANGED <<elements, link, searched, shuffled, nodes, walk, sought, latest>>
  PROVE  FieldInv'
  <1>1. FoundInv'
    BY DEF FoundInv, Still
  <1> QED
    BY <1>1, MapKeeps DEF FieldInv

LEMMA SizeKeeps == ASSUME FieldInv, Size PROVE FieldInv'
  <1>1. Still /\ update # NoField /\ update.step = "size" /\ found' = found
    BY DEF Size, Doing, mapVars
  <1>2. found = NoField
    BY <1>1 DEF FieldInv, FoundInv
  <1>3. UpdateTypeOK'
    <2>1. update' = [[update EXCEPT !.step = "check"] EXCEPT !.count = Cardinality(link)]
      BY DEF Size
    <2>2. [update EXCEPT !.step = "check"] \in UpdateType
      BY <1>1 DEF FieldInv, UpdateTypeOK, UpdateType
    <2> QED
      BY <2>1, <2>2, SizeOfList DEF FieldInv, UpdateTypeOK, UpdateType
  <1> QED
    BY <1>1, <1>2, <1>3, UpdateKeeps DEF Size, mapVars

LEMMA LookUpKeeps == ASSUME FieldInv, LookUp PROVE FieldInv'
  <1>1. Field.key \in Keys
    BY FieldTyped DEF FieldInv, LookUp, FieldData
  <1> QED
    BY <1>1, FindKeeps DEF LookUp

LEMMA CheckFieldKeeps == ASSUME FieldInv, CheckField PROVE FieldInv'
  <1>1. Still /\ update # NoField
    BY DEF CheckField, Doing
  <1>2. UpdateTypeOK'
    <2>1. update' = [[update EXCEPT !.at = @ + 1] EXCEPT !.count = Count]
      BY DEF CheckField
    <2>2. [update EXCEPT !.at = @ + 1] \in UpdateType /\ Count \in Nat
      BY <1>1 DEF FieldInv, UpdateTypeOK, UpdateType, Count
    <2> QED
      BY <2>1, <2>2 DEF UpdateTypeOK, UpdateType
  <1> QED
    BY <1>1, <1>2, UpdateKeeps DEF CheckField

LEMMA TooManyFieldsKeeps == ASSUME FieldInv, TooManyFields PROVE FieldInv'
  <1>1. Still /\ UpdateTypeOK'
    BY DEF TooManyFields, Doing, Report, UpdateTypeOK
  <1> QED
    BY <1>1, UpdateKeeps DEF TooManyFields

LEMMA GoesOn == ASSUME NEW u \in UpdateType PROVE [u EXCEPT !.at = 1] \in UpdateType
  BY DEF UpdateType

LEMMA CheckedKeeps == ASSUME FieldInv, Checked PROVE FieldInv'
  <1>1. Still /\ update # NoField /\ ~More /\ found' = found
    BY DEF Checked, Doing, mapVars
  <1>2. found = NoField
    BY <1>1 DEF FieldInv, FoundInv
  <1>3. UpdateTypeOK'
    <2>1. update' = [[update EXCEPT !.step = "copy"] EXCEPT !.at = 1]
      BY DEF Checked
    <2>2. [update EXCEPT !.step = "copy"] \in UpdateType
      BY <1>1 DEF FieldInv, UpdateTypeOK, UpdateType
    <2> QED
      BY <2>1, <2>2, GoesOn DEF UpdateTypeOK
  <1> QED
    BY <1>1, <1>2, <1>3, UpdateKeeps DEF Checked, mapVars

LEMMA ReportKeeps == ASSUME FieldInv, TooBigField \/ Copied PROVE FieldInv'
  <1>1. Still /\ update # NoField /\ update' = NoField /\ (found = NoField \/ ~More)
    BY DEF TooBigField, Copied, Doing, Report
  <1>2. found = NoField
    BY <1>1 DEF FieldInv, FoundInv
  <1> QED
    BY <1>1, <1>2, UpdateKeeps DEF TooBigField, Copied, mapVars, UpdateTypeOK

(* The value of an element that was found is changed: it is the last of    *)
(* its key, and no key changes.                                            *)
LEMMA CopyFieldKeeps == ASSUME FieldInv, CopyField PROVE FieldInv'
  <1>1. /\ Still /\ update # NoField /\ More /\ found # NoField /\ found' = NoField
        /\ update' = [update EXCEPT !.at = @ + 1]
    BY DEF CopyField, Doing
  <1>2. Field \in FieldData /\ found.key = Field.key
    BY <1>1, FieldTyped DEF FieldInv, FoundInv
  <1>3. UpdateTypeOK'
    BY <1>1 DEF FieldInv, UpdateTypeOK, UpdateType
  <1>4. CASE found.e = 0
    <2>1. Insert(Field)
      BY <1>4 DEF CopyField
    <2>2. sought' = NoField
      BY <1>1, <2>1 DEF Insert, Still
    <2>3. FoundInv'
      BY <1>1, <2>2 DEF FoundInv
    <2> QED
      BY <1>1, <1>2, <1>3, <2>1, <2>3, InsertKeeps DEF FieldInv
  <1>5. CASE found.e # 0
    <2> DEFINE e == found.e
               k == Field.key
    <2>1. /\ elements' = [elements EXCEPT ![e].value = Field.value]
          /\ latest' = [latest EXCEPT ![k] = Field.value]
          /\ UNCHANGED <<link, searched, shuffled, nodes, walk, sought>>
      BY <1>5 DEF CopyField
    <2>2. e \in Elements /\ Key(e) = k /\ \A i \in Elements : Key(i) = k => i <= e
      BY <1>1, <1>2, <1>5 DEF FieldInv, FoundInv, Newest
    <2>3. elements \in Seq(FieldData) /\ Elements = DOMAIN elements
      BY DEF FieldInv, FieldTypeOK, Elements
    <2>4. /\ elements' \in Seq(FieldData) /\ Len(elements') = Len(elements)
          /\ \A i \in Elements : /\ elements'[i].key = elements[i].key
                                 /\ elements'[i].value = IF i = e THEN Field.value ELSE elements[i].value
      <3>0. elements[e] \in FieldData
        BY <2>2, <2>3
      <3>1. [elements[e] EXCEPT !.value = Field.value] \in FieldData
        BY <1>2, <3>0 DEF FieldData
      <3>2. elements' = [elements EXCEPT ![e] = [elements[e] EXCEPT !.value = Field.value]]
        BY <2>1
      <3>3. elements' \in Seq(FieldData) /\ Len(elements') = Len(elements)
        BY <2>2, <2>3, <3>1, <3>2
      <3>4. \A i \in Elements : elements[i] \in FieldData
        BY <2>3
      <3> QED
        BY <2>2, <2>3, <3>0, <3>1, <3>2, <3>3, <3>4 DEF FieldData
    <2>5. Elements' = Elements /\ TreeNode' = TreeNode
      BY <2>4 DEF Elements, TreeNode
    <2>6. KeysStay
      BY <2>4, <2>5 DEF KeysStay, Key
    <2>7. FieldTypeOK'
      <3>1. latest' \in [Keys -> Values \union {NoField}]
        BY <1>2, <2>1 DEF FieldInv, FieldTypeOK, FieldData
      <3> QED
        BY <1>1, <2>1, <2>4, <2>5, <3>1 DEF FieldInv, FieldTypeOK
    <2>8. TreeInv'
      BY <2>1, <2>6, TreeStays DEF FieldInv
    <2>9. WalkInv'
      BY <1>1, <2>1 DEF WalkInv, Still
    <2>10. PlacesInv'
      <3>1. \A n \in DOMAIN nodes : NodeKey(n)' = NodeKey(n)
        BY <2>1, <2>6, NodesTyped DEF FieldInv, FieldTypeOK, NodeKey, KeysStay
      <3>2. Pending' = Pending /\ InTree' = InTree
        BY <2>1, <2>4, <2>5 DEF Pending, InTree
      <3> QED
        BY <2>1, <2>5, <2>6, <3>1, <3>2 DEF FieldInv, PlacesInv, KeysStay
    <2>11. LatestInv'
      <3> SUFFICES ASSUME NEW j \in Keys
                   PROVE  /\ None(j)' <=> latest'[j] = NoField
                          /\ \A i \in Elements : Newest(i, j)' => elements'[i].value = latest'[j]
        BY <2>5 DEF LatestInv
      <3>1. /\ None(j)' <=> None(j)
            /\ \A i \in Elements : Newest(i, j)' <=> Newest(i, j)
        BY <2>5, <2>6 DEF None, Newest, KeysStay
      <3>2. /\ None(j) <=> latest[j] = NoField
            /\ \A i \in Elements : Newest(i, j) => elements[i].value = latest[j]
        BY DEF FieldInv, LatestInv
      <3>3. CASE j = k
        <4>1. ~None(j) /\ \A i \in Elements : Newest(i, j) => i = e
          BY <2>2, <3>3 DEF None, Newest, Elements
        <4>2. latest'[j] = Field.value /\ Field.value # NoField
          BY <1>2, <2>1, <3>3, FieldAssumption DEF FieldInv, FieldTypeOK, FieldData
        <4> QED
          BY <2>4, <3>1, <4>1, <4>2
      <3>4. CASE j # k
        <4>1. latest'[j] = latest[j] /\ ~Newest(e, j)
          BY <2>1, <2>2, <3>4 DEF FieldInv, FieldTypeOK, Newest
        <4> QED
          BY <2>4, <3>1, <3>2, <4>1
      <3> QED
        BY <3>3, <3>4
    <2>12. FoundInv'
      BY <1>1, <2>1 DEF FoundInv, Still
    <2> QED
      BY <1>3, <2>7, <2>8, <2>9, <2>10, <2>11, <2>12 DEF FieldInv
  <1> QED
    BY <1>4, <1>5

-----------------------------------------------------------------------------
(* Tree::insert and findNode.                                              *)

(* When everything has been sent to the tree and nothing is on its way,    *)
(* the node of a key has its last element.                                 *)
LEMMA TreeHasLast ==
  ASSUME FieldInv, sought # NoField, shuffled = {}, walk # NoField, walk.e = 0
  PROVE  /\ \A n \in DOMAIN nodes : Newest(nodes[n].e, NodeKey(n))
         /\ \A k : (\A n \in DOMAIN nodes : NodeKey(n) # k) => None(k)
  <1>1. elements \in Seq(FieldData) /\ Elements \subseteq Nat \ {0} /\ searched = Len(elements)
    BY DEF FieldInv, FieldTypeOK, FoundInv, Elements
  <1>2. Pending = {}
    BY <1>1 DEF Pending
  <1>3. \A i \in Elements : \E n \in DOMAIN nodes : NodeKey(n) = Key(i) /\ nodes[n].e >= i
    BY <1>2 DEF FieldInv, PlacesInv
  <1>4. \A n \in DOMAIN nodes : nodes[n].e \in Elements
    BY NodesTyped DEF FieldInv, FieldTypeOK
  <1>5. \A n \in DOMAIN nodes : Newest(nodes[n].e, NodeKey(n))
    BY <1>3, <1>4 DEF Newest, NodeKey, FieldInv, TreeInv, KeysDiffer
  <1>6. \A k : (\A n \in DOMAIN nodes : NodeKey(n) # k) => None(k)
    BY <1>3 DEF None
  <1> QED
    BY <1>5, <1>6

(* Where the walk ends without its key, no node has this key.              *)
LEMMA NoSuchNode ==
  ASSUME TreeInv, nodes \in Seq(TreeNode), NEW k \in Keys, NEW n, OnTheWay(k, n), NodeKey(n) # k,
         Turn[k][NodeKey(n)] \in Sides, nodes[n].child[Turn[k][NodeKey(n)]] = 0
  PROVE  \A m \in DOMAIN nodes : NodeKey(m) # k
  <1> SUFFICES ASSUME NEW m \in DOMAIN nodes, NodeKey(m) = k PROVE FALSE
    OBVIOUS
  <1>1. n \in DOMAIN nodes /\ Below(n, m) /\ n # m
    BY DEF OnTheWay
  <1>2. PICK d \in Sides : <<n, d>> \in Turns(m)
    BY <1>1 DEF Below
  <1>3. d = Turn[k][NodeKey(n)]
    BY <1>1, <1>2 DEF TreeInv, TurnsTold
  <1> QED
    BY <1>1, <1>2, <1>3 DEF TreeInv, TurnsLead

(* A step of the walk that does not change the map.                        *)
LEMMA WalkKeeps ==
  ASSUME FieldInv, UNCHANGED <<elements, link, searched, shuffled, nodes, update, latest>>,
         walk' \in [e : 0 .. searched, key : Keys, at : 0 .. Len(nodes)] \union {NoField},
         WalkInv', walk # NoField /\ walk' # NoField => walk'.e = walk.e,
         walk = NoField /\ walk' # NoField => walk'.e = 0,
         walk # NoField /\ walk' = NoField => walk.e = 0,
         sought' \in Keys \union {NoField}, found' \in [key : Keys, e : 0 .. Len(elements)] \union {NoField},
         FoundInv'
  PROVE  FieldInv'
  <1>1. Elements' = Elements /\ TreeNode' = TreeNode
    BY DEF Elements, TreeNode
  <1>2. FieldTypeOK' /\ UpdateTypeOK'
    BY <1>1 DEF FieldInv, FieldTypeOK, UpdateTypeOK
  <1>3. KeysStay
    BY DEF KeysStay, Elements, Key
  <1>4. TreeInv'
    BY <1>3, TreeStays DEF FieldInv
  <1>5. Pending' = Pending
    <2>1. 0 \notin Elements
      BY DEF Elements
    <2> QED
      BY <1>1, <2>1 DEF Pending
  <1>6. PlacesInv'
    BY <1>1, <1>5 DEF FieldInv, PlacesInv, InTree, NodeKey, Key
  <1>7. LatestInv'
    BY LatestStays DEF FieldInv
  <1> QED
    BY <1>2, <1>4, <1>6, <1>7 DEF FieldInv

LEMMA FindNodeKeeps == ASSUME FieldInv, FindNode PROVE FieldInv'
  <1>1. /\ walk = NoField /\ shuffled = {} /\ sought \in Keys
        /\ walk' = [e |-> 0, key |-> sought, at |-> IF nodes = <<>> THEN 0 ELSE 1]
        /\ UNCHANGED <<elements, link, searched, shuffled, nodes, sought, found, update, latest>>
    BY DEF FindNode, FieldInv, FieldTypeOK
  <1>2. nodes \in Seq(TreeNode) /\ searched \in Nat
    BY DEF FieldInv, FieldTypeOK
  <1>3. nodes # <<>> => 1 \in DOMAIN nodes
    BY <1>2
  <1>4. walk' \in [e : 0 .. searched, key : Keys, at : 0 .. Len(nodes)]
    BY <1>1, <1>2
  <1>5. nodes # <<>> => OnTheWay(sought, 1)
    BY <1>3 DEF FieldInv, TreeInv, RootFirst, OnTheWay
  <1>6. WalkInv'
    BY <1>1, <1>5 DEF WalkInv, OnTheWay, Turns, NodeKey, Key, Below
  <1>7. FoundInv'
    BY <1>1, FoundStays DEF FieldInv
  <1> QED
    BY <1>1, <1>4, <1>6, <1>7, WalkKeeps DEF FieldInv, FieldTypeOK

(* The node the walk is at, and the side it turns to.                      *)
LEMMA HereTyped ==
  ASSUME FieldInv, walk # NoField, walk.at # 0
  PROVE  /\ walk.at \in DOMAIN nodes /\ walk.key \in Keys /\ walk.e \in 0 .. searched
         /\ Here.e \in Elements /\ Key(Here.e) = NodeKey(walk.at) /\ Key(Here.e) \in Keys
         /\ Side \in Sides /\ Child \in Nat
         /\ OnTheWay(walk.key, walk.at)
  <1>1. nodes \in Seq(TreeNode) /\ walk \in [e : 0 .. searched, key : Keys, at : 0 .. Len(nodes)]
    BY DEF FieldInv, FieldTypeOK
  <1>2. walk.at \in DOMAIN nodes /\ walk.key \in Keys /\ walk.e \in 0 .. searched
    BY <1>1
  <1>3. Here.e \in Elements /\ Here.child \in [Sides -> Nat]
    BY <1>1, <1>2, NodesTyped DEF Here
  <1>4. Key(Here.e) \in Keys
    <2>1. elements[Here.e] \in FieldData
      BY <1>3 DEF FieldInv, FieldTypeOK, Elements
    <2> QED
      BY <2>1 DEF Key, FieldData
  <1>5. Side \in Sides
    BY <1>2, <1>4, FieldAssumption DEF Side
  <1>6. OnTheWay(walk.key, walk.at)
    BY DEF FieldInv, WalkInv
  <1> QED
    BY <1>2, <1>3, <1>4, <1>5, <1>6 DEF Child, Here, NodeKey

LEMMA DescendKeeps == ASSUME FieldInv, Descend PROVE FieldInv'
  <1>1. /\ walk # NoField /\ walk.at # 0 /\ Key(Here.e) # walk.key /\ Child # 0
        /\ walk' = [walk EXCEPT !.at = Child]
        /\ UNCHANGED <<elements, link, searched, shuffled, nodes, sought, found, update, latest>>
    BY DEF Descend
  <1>2. /\ walk \in [e : 0 .. searched, key : Keys, at : 0 .. Len(nodes)] /\ nodes \in Seq(TreeNode)
        /\ walk.at \in DOMAIN nodes /\ Side \in Sides /\ OnTheWay(walk.key, walk.at)
        /\ Key(Here.e) = NodeKey(walk.at)
    BY <1>1, HereTyped DEF FieldInv, FieldTypeOK
  <1>3. Child \in DOMAIN nodes /\ Turns(Child) = Turns(walk.at) \union {<<walk.at, Side>>}
    BY <1>1, <1>2 DEF FieldInv, TreeInv, ChildrenTurn, Child, Here
  <1>4. OnTheWay(walk.key, Child)
    <2>1. ASSUME NEW a \in DOMAIN nodes, NEW d \in Sides, <<a, d>> \in Turns(Child)
          PROVE  d = Turn[walk.key][NodeKey(a)]
      BY <1>2, <1>3, <2>1 DEF OnTheWay, Side
    <2>2. ASSUME NEW m \in DOMAIN nodes, NodeKey(m) = walk.key
          PROVE  Below(Child, m)
      <3>1. Below(walk.at, m) /\ walk.at # m
        BY <1>1, <1>2, <2>2 DEF OnTheWay
      <3>2. PICK d \in Sides : <<walk.at, d>> \in Turns(m)
        BY <3>1 DEF Below
      <3>3. d = Side
        BY <1>2, <2>2, <3>2 DEF FieldInv, TreeInv, TurnsTold, Side
      <3> QED
        BY <1>2, <3>2, <3>3 DEF FieldInv, TreeInv, TurnsLead, Child, Here
    <2> QED
      BY <1>3, <2>1, <2>2 DEF OnTheWay
  <1>5. /\ walk' \in [e : 0 .. searched, key : Keys, at : 0 .. Len(nodes)]
        /\ walk'.e = walk.e /\ walk'.key = walk.key /\ walk'.at = Child
    BY <1>1, <1>2, <1>3
  <1>6. walk' # NoField
    BY <1>5, FieldAssumption DEF FieldInv, FieldTypeOK
  <1>7. WalkInv'
    BY <1>1, <1>4, <1>5 DEF FieldInv, WalkInv, OnTheWay, Turns, NodeKey, Key, Below
  <1>8. FoundInv'
    BY <1>1, FoundStays DEF FieldInv
  <1> QED
    BY <1>1, <1>5, <1>6, <1>7, <1>8, WalkKeeps DEF FieldInv, FieldTypeOK

(* find has returned e.                                                    *)
LEMMA ReturnKeeps ==
  ASSUME FieldInv, walk # NoField, walk.e = 0, NEW e \in 0 .. Len(elements), Return(e),
         IF e = 0 THEN None(walk.key) ELSE Newest(e, walk.key)
  PROVE  FieldInv'
  <1>1. /\ found' = [key |-> walk.key, e |-> e] /\ walk' = NoField /\ sought' = NoField
        /\ UNCHANGED <<elements, link, searched, shuffled, nodes, update, latest>>
    BY DEF Return
  <1>2. walk.key \in Keys /\ sought = walk.key /\ sought # NoField
    BY FieldAssumption DEF FieldInv, FieldTypeOK, WalkInv
  <1>3. FoundInv'
    <2>1. PICK k \in Keys : k = walk.key
      BY <1>2
    <2>2. IF e = 0 THEN None(k)' ELSE Newest(e, k)'
      BY <1>1, <2>1 DEF None, Newest, Elements, Key
    <2>3. found'.e = e /\ found'.key = k
      BY <1>1, <2>1
    <2>4. update # NoField => update.step \in {"check", "copy"} /\ More /\ k = Field.key
      BY <1>2, <2>1 DEF FieldInv, FoundInv
    <2>5. None(k)' = None(found.key)' /\ Newest(e, k)' = Newest(found.e, found.key)'
      BY <2>3 DEF None, Newest
    <2> QED
      BY <1>1, <2>2, <2>3, <2>4, <2>5 DEF FoundInv, More, Field
  <1>4. WalkInv'
    BY <1>1 DEF WalkInv
  <1> QED
    BY <1>1, <1>2, <1>3, <1>4, WalkKeeps

LEMMA FoundKeeps == ASSUME FieldInv, Found PROVE FieldInv'
  <1>1. walk # NoField /\ walk.e = 0 /\ walk.at # 0 /\ Key(Here.e) = walk.key /\ Return(Here.e)
    BY DEF Found
  <1>2. walk.at \in DOMAIN nodes /\ Here.e \in Elements /\ Key(Here.e) = NodeKey(walk.at) /\ walk.key \in Keys
    BY <1>1, HereTyped
  <1>3. sought # NoField /\ shuffled = {}
    BY <1>1, <1>2, FieldAssumption DEF FieldInv, WalkInv
  <1>4. Newest(Here.e, walk.key)
    BY <1>1, <1>2, <1>3, TreeHasLast DEF Here
  <1>5. Here.e \in 0 .. Len(elements) /\ Here.e # 0
    BY <1>2 DEF Elements, FieldInv, FieldTypeOK
  <1> QED
    BY <1>1, <1>4, <1>5, ReturnKeeps

LEMMA NotFoundKeeps == ASSUME FieldInv, NotFound PROVE FieldInv'
  <1>1. /\ walk # NoField /\ walk.e = 0 /\ Return(0)
        /\ walk.at # 0 => Key(Here.e) # walk.key /\ Child = 0
    BY DEF NotFound
  <1>2. walk.key \in Keys /\ nodes \in Seq(TreeNode) /\ Len(elements) \in Nat
    BY <1>1 DEF FieldInv, FieldTypeOK
  <1>3. sought # NoField /\ shuffled = {}
    BY <1>1, <1>2, FieldAssumption DEF FieldInv, WalkInv
  <1>4. \A n \in DOMAIN nodes : NodeKey(n) # walk.key
    <2>1. CASE walk.at = 0
      BY <1>1, <2>1 DEF FieldInv, WalkInv
    <2>2. CASE walk.at # 0
      <3>1. /\ OnTheWay(walk.key, walk.at) /\ NodeKey(walk.at) # walk.key
            /\ Turn[walk.key][NodeKey(walk.at)] \in Sides
            /\ nodes[walk.at].child[Turn[walk.key][NodeKey(walk.at)]] = 0
        BY <1>1, <2>2, HereTyped DEF Side, Child, Here, NodeKey
      <3> QED
        BY <1>2, <3>1, NoSuchNode DEF FieldInv
    <2> QED
      BY <2>1, <2>2
  <1>5. None(walk.key)
    BY <1>1, <1>3, <1>4, TreeHasLast
  <1> QED
    BY <1>1, <1>2, <1>5, ReturnKeeps

(* The next element leaves those on their way, for the root.               *)
LEMMA NextElementKeeps == ASSUME FieldInv, NEW e \in shuffled, NextElement(e) PROVE FieldInv'
  <1>1. /\ walk = NoField /\ shuffled' = shuffled \ {e}
        /\ UNCHANGED <<elements, link, searched, sought, found, update, latest>>
    BY DEF NextElement
  <1>2. /\ elements \in Seq(FieldData) /\ nodes \in Seq(TreeNode) /\ searched \in 0 .. Len(elements)
        /\ e \in 1 .. searched /\ e \in Elements /\ Elements \subseteq Nat \ {0}
    <2>1. /\ elements \in Seq(FieldData) /\ nodes \in Seq(TreeNode) /\ searched \in 0 .. Len(elements)
          /\ shuffled \subseteq 1 .. searched
      BY DEF FieldInv, FieldTypeOK
    <2>2. e \in 1 .. searched
      BY <2>1
    <2>3. Len(elements) \in Nat
      BY <2>1
    <2>4. e \in Elements /\ Elements \subseteq Nat \ {0}
      BY <2>1, <2>2, <2>3 DEF Elements
    <2> QED
      BY <2>1, <2>2, <2>4
  <1>3. Elements' = Elements /\ TreeNode' = TreeNode
    BY <1>1 DEF Elements, TreeNode
  <1>4. KeysStay
    BY <1>1, <1>3 DEF KeysStay, Key
  <1>5. LatestInv' /\ FoundInv' /\ UpdateTypeOK'
    BY <1>1, LatestStays, FoundStays DEF FieldInv, UpdateTypeOK
  <1>6. e \in Pending
    BY DEF Pending
  <1>7. CASE nodes = <<>>
    <2>1. nodes' = <<Node(e, {})>> /\ walk' = NoField
      BY <1>1, <1>7 DEF NextElement
    <2>2. Node(e, {}) \in TreeNode
      BY <1>2 DEF Node, TreeNode
    <2>3. nodes' \in Seq(TreeNode) /\ DOMAIN nodes' = {1} /\ nodes'[1] = Node(e, {})
      BY <2>1, <2>2
    <2>4. nodes'[1].e = e /\ nodes'[1].turns = {} /\ \A d \in Sides : nodes'[1].child[d] = 0
      BY <2>3 DEF Node
    <2>5. FieldTypeOK'
      BY <1>1, <1>3, <2>1, <2>3 DEF FieldInv, FieldTypeOK
    <2>6. TreeInv'
      <3>1. TurnsTold'
        BY <2>3, <2>4 DEF TurnsTold, Turns
      <3>2. ChildrenTurn' /\ TurnsLead'
        BY <2>3, <2>4 DEF ChildrenTurn, TurnsLead, Turns
      <3>3. RootFirst' /\ KeysDiffer'
        BY <2>3, <2>4 DEF RootFirst, KeysDiffer, Turns, Below
      <3> QED
        BY <3>1, <3>2, <3>3 DEF TreeInv
    <2>7. WalkInv'
      BY <2>1 DEF WalkInv
    <2>8. PlacesInv'
      <3>1. Pending' = Pending \ {e}
        BY <1>1, <1>2, <1>3, <2>1 DEF Pending
      <3>2. InTree' = {e} /\ InTree = {}
        BY <1>7, <2>3, <2>4 DEF InTree
      <3>3. ASSUME NEW i \in Elements \ Pending'
            PROVE  \E n \in DOMAIN nodes' : NodeKey(n)' = Key(i)' /\ nodes'[n].e >= i
        <4>1. i = e
          BY <1>7, <3>1, <3>3 DEF FieldInv, PlacesInv
        <4> QED
          BY <1>2, <2>3, <2>4, <4>1 DEF NodeKey
      <3> QED
        BY <1>1, <1>3, <1>6, <3>1, <3>2, <3>3 DEF FieldInv, PlacesInv
    <2> QED
      BY <1>5, <2>5, <2>6, <2>7, <2>8 DEF FieldInv
  <1>8. CASE nodes # <<>>
    <2>1. walk' = [e |-> e, key |-> Key(e), at |-> 1] /\ nodes' = nodes
      BY <1>1, <1>8 DEF NextElement
    <2>2. Key(e) \in Keys
      <3>1. elements[e] \in FieldData
        BY <1>2 DEF Elements
      <3> QED
        BY <3>1 DEF Key, FieldData
    <2>3. 1 \in DOMAIN nodes
      BY <1>2, <1>8
    <2>4. walk' \in [e : 0 .. searched, key : Keys, at : 0 .. Len(nodes)]
      BY <1>2, <2>1, <2>2, <2>3
    <2>5. walk' # NoField
      BY <1>2, <2>4, FieldAssumption
    <2>6. FieldTypeOK'
      BY <1>1, <1>3, <2>1, <2>4 DEF FieldInv, FieldTypeOK
    <2>7. TreeInv'
      BY <1>4, <2>1, TreeStays DEF FieldInv
    <2>8. WalkInv'
      <3>1. OnTheWay(Key(e), 1)
        BY <1>8, <2>3 DEF FieldInv, TreeInv, RootFirst, OnTheWay
      <3>2. OnTheWay(walk.key, walk.at)'
        BY <1>1, <2>1, <3>1 DEF OnTheWay, Turns, NodeKey, Key, Below
      <3> QED
        BY <1>1, <1>2, <2>1, <3>2 DEF WalkInv, Key
    <2>9. PlacesInv'
      <3>1. Pending' = Pending
        BY <1>1, <1>2, <1>3, <2>1, <2>5 DEF Pending
      <3> QED
        BY <1>1, <1>3, <2>1, <3>1 DEF FieldInv, PlacesInv, InTree, NodeKey, Key
    <2> QED
      BY <1>5, <2>6, <2>7, <2>8, <2>9 DEF FieldInv
  <1> QED
    BY <1>7, <1>8

(* An element whose key no node has gets a node, in the place to which the *)
(* turns of its key lead.                                                  *)
LEMMA AttachKeeps == ASSUME FieldInv, Attach PROVE FieldInv'
  <1>1. /\ walk # NoField /\ walk.e # 0 /\ Key(Here.e) # walk.key /\ Child = 0
        /\ nodes' = Append([nodes EXCEPT ![walk.at].child[Side] = Len(nodes) + 1],
                           Node(walk.e, Here.turns \union {<<walk.at, Side>>}))
        /\ walk' = NoField
        /\ UNCHANGED <<elements, link, searched, shuffled, sought, found, update, latest>>
    BY DEF Attach
  <1>2. /\ elements \in Seq(FieldData) /\ nodes \in Seq(TreeNode) /\ searched \in 0 .. Len(elements)
        /\ walk.e \in 0 .. searched /\ walk.at # 0
    BY <1>1 DEF FieldInv, FieldTypeOK, WalkInv
  <1>3. PICK e, k, a, s, N :
          /\ e = walk.e /\ k = walk.key /\ a = walk.at /\ s = Side /\ N = Len(nodes) + 1
    OBVIOUS
  <1>4. /\ a \in DOMAIN nodes /\ k \in Keys /\ s \in Sides /\ OnTheWay(k, a)
        /\ NodeKey(a) # k /\ s = Turn[k][NodeKey(a)] /\ nodes[a].child[s] = 0
    BY <1>1, <1>2, <1>3, HereTyped DEF Side, Child, Here
  <1>5. e \in Elements /\ Elements \subseteq Nat \ {0} /\ k = Key(e) /\ e \notin shuffled /\ e \in Pending
    BY <1>1, <1>2, <1>3 DEF FieldInv, WalkInv, Elements, Pending
  <1>6. /\ Len(nodes) \in Nat /\ N \in Nat /\ N \notin DOMAIN nodes /\ N # 0 /\ 0 \notin DOMAIN nodes
        /\ DOMAIN nodes = 1 .. Len(nodes)
    BY <1>2, <1>3
  <1>7. \A n \in DOMAIN nodes : /\ nodes[n] \in TreeNode /\ nodes[n].e \in Elements
                                /\ nodes[n].child \in [Sides -> Nat] /\ Turns(n) \subseteq Nat \X Sides
    BY <1>2, NodesTyped
  <1>8. /\ nodes' \in Seq(TreeNode) /\ DOMAIN nodes' = DOMAIN nodes \union {N}
        /\ nodes'[N] = Node(e, nodes[a].turns \union {<<a, s>>})
        /\ \A n \in DOMAIN nodes \ {a} : nodes'[n] = nodes[n]
        /\ nodes'[a] = [nodes[a] EXCEPT !.child = [nodes[a].child EXCEPT ![s] = N]]
    <2>1. nodes' = Append([nodes EXCEPT ![a] = [nodes[a] EXCEPT !.child = [nodes[a].child EXCEPT ![s] = N]]],
                          Node(e, nodes[a].turns \union {<<a, s>>}))
      BY <1>1, <1>3 DEF Here
    <2>2. [nodes[a].child EXCEPT ![s] = N] \in [Sides -> Nat]
      BY <1>4, <1>6, <1>7
    <2>3. [nodes[a] EXCEPT !.child = [nodes[a].child EXCEPT ![s] = N]] \in TreeNode
      BY <1>4, <1>7, <2>2 DEF TreeNode
    <2>4. Node(e, nodes[a].turns \union {<<a, s>>}) \in TreeNode
      BY <1>4, <1>5, <1>6, <1>7 DEF Node, TreeNode, Turns
    <2> DEFINE M == [nodes EXCEPT ![a] = [nodes[a] EXCEPT !.child = [nodes[a].child EXCEPT ![s] = N]]]
    <2>5. M \in Seq(TreeNode) /\ Len(M) = Len(nodes) /\ \A n \in DOMAIN nodes \ {a} : M[n] = nodes[n]
      BY <1>2, <1>4, <1>6, <2>3
    <2>6. M[a] = [nodes[a] EXCEPT !.child = [nodes[a].child EXCEPT ![s] = N]]
      BY <1>2, <1>4
    <2> HIDE DEF M
    <2>7. nodes' = Append(M, Node(e, nodes[a].turns \union {<<a, s>>}))
      BY <2>1 DEF M
    <2>8. nodes' \in Seq(TreeNode) /\ Len(nodes') = N /\ DOMAIN nodes' = 1 .. N
      BY <1>3, <1>6, <2>4, <2>5, <2>7
    <2>9. nodes'[N] = Node(e, nodes[a].turns \union {<<a, s>>}) /\ \A n \in 1 .. Len(nodes) : nodes'[n] = M[n]
      BY <1>3, <1>6, <2>4, <2>5, <2>7
    <2> QED
      BY <1>3, <1>4, <1>6, <2>5, <2>6, <2>8, <2>9
  <1>9. /\ \A n \in DOMAIN nodes : /\ nodes'[n].e = nodes[n].e /\ nodes'[n].turns = nodes[n].turns
                                   /\ \A d \in Sides : nodes'[n].child[d]
                                        = IF n = a /\ d = s THEN N ELSE nodes[n].child[d]
        /\ nodes'[N].e = e /\ nodes'[N].turns = nodes[a].turns \union {<<a, s>>}
        /\ \A d \in Sides : nodes'[N].child[d] = 0
    <2>1. ASSUME NEW n \in DOMAIN nodes
          PROVE  /\ nodes'[n].e = nodes[n].e /\ nodes'[n].turns = nodes[n].turns
                 /\ \A d \in Sides : nodes'[n].child[d] = IF n = a /\ d = s THEN N ELSE nodes[n].child[d]
      <3>1. CASE n = a
        BY <1>4, <1>7, <1>8, <3>1 DEF TreeNode
      <3>2. CASE n # a
        BY <1>8, <3>2
      <3> QED
        BY <3>1, <3>2
    <2>2. /\ nodes'[N].e = e /\ nodes'[N].turns = nodes[a].turns \union {<<a, s>>}
          /\ \A d \in Sides : nodes'[N].child[d] = 0
      BY <1>8 DEF Node
    <2> QED
      BY <2>1, <2>2
  <1>10. Elements' = Elements /\ TreeNode' = TreeNode
    BY <1>1 DEF Elements, TreeNode
  <1>11. /\ \A n \in DOMAIN nodes : NodeKey(n)' = NodeKey(n) /\ Turns(n)' = Turns(n)
         /\ NodeKey(N)' = k /\ Turns(N)' = Turns(a) \union {<<a, s>>}
    BY <1>1, <1>5, <1>9 DEF NodeKey, Turns, Key
  <1>12. \A n \in DOMAIN nodes : NodeKey(n) # k
    <2>1. nodes[a].child[Turn[k][NodeKey(a)]] = 0 /\ Turn[k][NodeKey(a)] \in Sides
      BY <1>4
    <2> QED
      BY <1>2, <1>4, <2>1, NoSuchNode DEF FieldInv
  <1>13. FieldTypeOK'
    BY <1>1, <1>8, <1>10 DEF FieldInv, FieldTypeOK
  <1>14. TreeInv'
    <2>1. \A n \in DOMAIN nodes : \A b \in DOMAIN nodes, d \in Sides : <<b, d>> \in Turns(n) => nodes[b].child[d] # 0
      BY DEF FieldInv, TreeInv, TurnsLead
    <2>2. TurnsTold'
      <3>1. \A n \in DOMAIN nodes : Turns(n) \subseteq (DOMAIN nodes) \X Sides
        BY DEF FieldInv, TreeInv, TurnsTold
      <3>2. \A n \in DOMAIN nodes' : Turns(n)' \subseteq (DOMAIN nodes') \X Sides
        BY <1>4, <1>8, <1>11, <3>1
      <3>3. ASSUME NEW n \in DOMAIN nodes', NEW b \in DOMAIN nodes', NEW d \in Sides, <<b, d>> \in Turns(n)'
            PROVE  d = Turn[NodeKey(n)'][NodeKey(b)']
        <4>1. b \in DOMAIN nodes
          BY <1>4, <1>8, <1>11, <3>1, <3>3
        <4>2. CASE n \in DOMAIN nodes
          BY <1>11, <3>3, <4>1, <4>2 DEF FieldInv, TreeInv, TurnsTold
        <4>3. CASE n = N
          BY <1>4, <1>11, <3>3, <4>1, <4>3 DEF OnTheWay
        <4> QED
          BY <1>8, <4>2, <4>3
      <3> QED
        BY <3>2, <3>3 DEF TurnsTold
    <2>3. ChildrenTurn'
      <3> SUFFICES ASSUME NEW b \in DOMAIN nodes', NEW d \in Sides, nodes'[b].child[d] # 0
                   PROVE  /\ nodes'[b].child[d] \in DOMAIN nodes'
                          /\ nodes'[nodes'[b].child[d]].turns = nodes'[b].turns \union {<<b, d>>}
        BY DEF ChildrenTurn, Turns
      <3>1. b \in DOMAIN nodes
        BY <1>8, <1>9
      <3>2. CASE b = a /\ d = s
        BY <1>8, <1>9, <3>1, <3>2
      <3>3. CASE ~(b = a /\ d = s)
        BY <1>8, <1>9, <3>1, <3>3 DEF FieldInv, TreeInv, ChildrenTurn, Turns
      <3> QED
        BY <3>2, <3>3
    <2>4. TurnsLead'
      <3> SUFFICES ASSUME NEW n \in DOMAIN nodes', NEW b \in DOMAIN nodes', NEW d \in Sides,
                          <<b, d>> \in Turns(n)'
                   PROVE  nodes'[b].child[d] # 0 /\ (nodes'[b].child[d] = n
                            \/ \E c \in Sides : <<nodes'[b].child[d], c>> \in Turns(n)')
        BY DEF TurnsLead, Below, Turns
      <3>1. b \in DOMAIN nodes
        BY <1>4, <1>8, <1>11 DEF FieldInv, TreeInv, TurnsTold
      <3>2. CASE n \in DOMAIN nodes
        <4>1. <<b, d>> \in Turns(n) /\ ~(b = a /\ d = s)
          BY <1>4, <1>11, <2>1, <3>2
        <4> QED
          BY <1>9, <1>11, <3>1, <3>2, <4>1 DEF FieldInv, TreeInv, TurnsLead, Below
      <3>3. CASE n = N /\ b = a /\ d = s
        BY <1>6, <1>9, <3>1, <3>3
      <3>4. CASE n = N /\ ~(b = a /\ d = s)
        <4>1. <<b, d>> \in Turns(a)
          BY <1>11, <3>4
        <4>2. nodes[b].child[d] # 0 /\ Below(nodes[b].child[d], a)
          BY <1>4, <3>1, <4>1 DEF FieldInv, TreeInv, TurnsLead
        <4>3. nodes'[b].child[d] = nodes[b].child[d]
          BY <1>9, <3>1, <3>4
        <4>4. CASE nodes[b].child[d] = a
          BY <1>4, <1>11, <3>4, <4>2, <4>3, <4>4
        <4>5. CASE nodes[b].child[d] # a
          <5>1. PICK c \in Sides : <<nodes[b].child[d], c>> \in Turns(a)
            BY <4>2, <4>5 DEF Below
          <5> QED
            BY <1>11, <3>4, <4>2, <4>3, <5>1
        <4> QED
          BY <4>4, <4>5
      <3> QED
        BY <1>8, <3>2, <3>3, <3>4
    <2>5. RootFirst'
      <3>1. nodes # <<>> /\ 1 \in DOMAIN nodes
        BY <1>2, <1>4, <1>6
      <3>2. Turns(1) = {} /\ \A n \in DOMAIN nodes : Below(1, n)
        BY <3>1 DEF FieldInv, TreeInv, RootFirst
      <3>3. Turns(1)' = {}
        BY <1>11, <3>1, <3>2
      <3>4. ASSUME NEW n \in DOMAIN nodes'
            PROVE  1 = n \/ \E d \in Sides : <<1, d>> \in Turns(n)'
        <4>1. CASE n \in DOMAIN nodes
          BY <1>11, <3>2, <4>1 DEF Below
        <4>2. CASE n = N
          <5>1. CASE a = 1
            BY <1>4, <1>11, <4>2, <5>1
          <5>2. CASE a # 1
            BY <1>4, <1>11, <3>2, <4>2, <5>2 DEF Below
          <5> QED
            BY <5>1, <5>2
        <4> QED
          BY <1>8, <4>1, <4>2
      <3> QED
        BY <3>3, <3>4 DEF RootFirst, Below
    <2>6. KeysDiffer'
      BY <1>8, <1>11, <1>12 DEF FieldInv, TreeInv, KeysDiffer
    <2> QED
      BY <2>2, <2>3, <2>4, <2>5, <2>6 DEF TreeInv
  <1>15. WalkInv'
    BY <1>1 DEF WalkInv
  <1>16. PlacesInv'
    <2>1. InTree' = InTree \union {e}
      BY <1>8, <1>9 DEF InTree
    <2>2. Pending' = Pending \ {e}
      BY <1>1, <1>2, <1>3, <1>5, <1>10 DEF Pending
    <2>3. ASSUME NEW i \in Elements \ Pending'
          PROVE  \E n \in DOMAIN nodes' : NodeKey(n)' = Key(i)' /\ nodes'[n].e >= i
      <3>1. CASE i = e
        BY <1>1, <1>5, <1>8, <1>9, <1>11, <3>1 DEF Key
      <3>2. CASE i # e
        <4>1. PICK n \in DOMAIN nodes : NodeKey(n) = Key(i) /\ nodes[n].e >= i
          BY <2>2, <2>3, <3>2 DEF FieldInv, PlacesInv
        <4> QED
          BY <1>1, <1>8, <1>9, <1>11, <4>1 DEF Key
      <3> QED
        BY <3>1, <3>2
    <2> QED
      BY <1>1, <1>5, <1>10, <2>1, <2>2, <2>3 DEF FieldInv, PlacesInv
  <1>17. LatestInv' /\ FoundInv' /\ UpdateTypeOK'
    BY <1>1, LatestStays, FoundStays DEF FieldInv, UpdateTypeOK
  <1> QED
    BY <1>13, <1>14, <1>15, <1>16, <1>17 DEF FieldInv

(* The element that comes to a node of its key leaves there the later of   *)
(* the two.                                                                *)
LEMMA ReplaceKeeps == ASSUME FieldInv, Replace PROVE FieldInv'
  <1>1. /\ walk # NoField /\ walk.e # 0 /\ Key(Here.e) = walk.key /\ walk' = NoField
        /\ UNCHANGED <<elements, searched, shuffled, sought, found, update, latest>>
    BY DEF Replace, Drop
  <1>2. /\ elements \in Seq(FieldData) /\ nodes \in Seq(TreeNode) /\ searched \in 0 .. Len(elements)
        /\ walk.e \in 0 .. searched /\ walk.at # 0
    BY <1>1 DEF FieldInv, FieldTypeOK, WalkInv
  <1>3. PICK e, a, h : e = walk.e /\ a = walk.at /\ h = nodes[walk.at].e
    OBVIOUS
  <1>4. /\ a \in DOMAIN nodes /\ h \in Elements /\ NodeKey(a) = Key(e) /\ Key(h) = Key(e)
        /\ e \in Elements /\ Elements \subseteq Nat \ {0} /\ e \notin shuffled /\ e \in Pending
    BY <1>1, <1>2, <1>3, HereTyped DEF FieldInv, WalkInv, Elements, Pending, Here
  <1>5. h \in InTree /\ h \notin Pending /\ h # e
    BY <1>3, <1>4 DEF FieldInv, PlacesInv, InTree
  <1>6. \/ h > e /\ link' = link \ {e} /\ nodes' = nodes
        \/ ~(h > e) /\ link' = link \ {h} /\ nodes' = [nodes EXCEPT ![a] = [nodes[a] EXCEPT !.e = e]]
    BY <1>3 DEF Replace, Drop, Here
  <1>7. Elements' = Elements /\ TreeNode' = TreeNode
    BY <1>1 DEF Elements, TreeNode
  <1>8. KeysStay
    BY <1>1, <1>7 DEF KeysStay, Key
  <1>9. WalkInv' /\ LatestInv' /\ FoundInv' /\ UpdateTypeOK'
    BY <1>1, LatestStays, FoundStays DEF FieldInv, UpdateTypeOK, WalkInv
  <1>10. Pending' = Pending \ {e}
    BY <1>1, <1>2, <1>3, <1>4, <1>7 DEF Pending
  <1>11. CASE h > e /\ link' = link \ {e} /\ nodes' = nodes
    <2>1. FieldTypeOK'
      BY <1>1, <1>7, <1>11 DEF FieldInv, FieldTypeOK
    <2>2. TreeInv'
      BY <1>8, <1>11, TreeStays DEF FieldInv
    <2>3. PlacesInv'
      <3>1. InTree' = InTree
        BY <1>11 DEF InTree
      <3>2. ASSUME NEW i \in Elements \ Pending'
            PROVE  \E n \in DOMAIN nodes' : NodeKey(n)' = Key(i)' /\ nodes'[n].e >= i
        <4>1. \E n \in DOMAIN nodes : NodeKey(n) = Key(i) /\ nodes[n].e >= i
          <5>1. CASE i = e
            BY <1>3, <1>4, <1>11, <5>1
          <5>2. CASE i # e
            BY <1>10, <3>2, <5>2 DEF FieldInv, PlacesInv
          <5> QED
            BY <5>1, <5>2
        <4> QED
          BY <1>1, <1>11, <4>1 DEF NodeKey, Key
      <3> QED
        BY <1>4, <1>7, <1>10, <1>11, <3>1, <3>2 DEF FieldInv, PlacesInv
    <2> QED
      BY <1>9, <2>1, <2>2, <2>3 DEF FieldInv
  <1>12. CASE ~(h > e) /\ link' = link \ {h} /\ nodes' = [nodes EXCEPT ![a] = [nodes[a] EXCEPT !.e = e]]
    <2>1. nodes[a] \in TreeNode
      BY <1>2, <1>4
    <2>2. [nodes[a] EXCEPT !.e = e] \in TreeNode
      BY <1>4, <2>1 DEF TreeNode
    <2>3. /\ nodes' \in Seq(TreeNode) /\ DOMAIN nodes' = DOMAIN nodes
          /\ nodes'[a] = [nodes[a] EXCEPT !.e = e] /\ \A n \in DOMAIN nodes \ {a} : nodes'[n] = nodes[n]
      BY <1>2, <1>4, <1>12, <2>2
    <2>4. \A n \in DOMAIN nodes : /\ nodes'[n].e = IF n = a THEN e ELSE nodes[n].e
                                  /\ nodes'[n].child = nodes[n].child /\ nodes'[n].turns = nodes[n].turns
      <3>1. /\ nodes'[a].e = e /\ nodes'[a].child = nodes[a].child /\ nodes'[a].turns = nodes[a].turns
        BY <2>1, <2>3 DEF TreeNode
      <3> QED
        BY <2>3, <3>1
    <2>5. \A n \in DOMAIN nodes : NodeKey(n)' = NodeKey(n) /\ Turns(n)' = Turns(n)
      BY <1>1, <1>4, <2>4 DEF NodeKey, Turns, Key
    <2>6. FieldTypeOK'
      BY <1>1, <1>4, <1>7, <1>12, <2>3 DEF FieldInv, FieldTypeOK
    <2>7. TreeInv'
      <3>1. TurnsTold'
        BY <2>3, <2>5 DEF FieldInv, TreeInv, TurnsTold
      <3>2. ChildrenTurn'
        BY <2>3, <2>4, <2>5 DEF FieldInv, TreeInv, ChildrenTurn
      <3>3. ASSUME NEW n \in DOMAIN nodes, NEW b \in DOMAIN nodes, NEW d \in Sides, <<b, d>> \in Turns(n)'
             PROVE  /\ nodes'[b].child[d] # 0
                    /\ nodes'[b].child[d] = n \/ \E c \in Sides : <<nodes'[b].child[d], c>> \in Turns(n)'
        BY <2>4, <2>5, <3>3 DEF FieldInv, TreeInv, TurnsLead, Below
      <3>4. TurnsLead'
        BY <2>3, <3>3 DEF TurnsLead, Below
      <3>5. RootFirst'
        <4>1. nodes # <<>> /\ 1 \in DOMAIN nodes
          BY <1>2, <1>4
        <4> QED
          BY <2>3, <2>5, <4>1 DEF FieldInv, TreeInv, RootFirst, Below
      <3>6. KeysDiffer'
        BY <2>3, <2>5 DEF FieldInv, TreeInv, KeysDiffer
      <3> QED
        BY <3>1, <3>2, <3>4, <3>5, <3>6 DEF TreeInv
    <2>8. PlacesInv'
      <3>1. InTree' = (InTree \ {h}) \union {e}
        <4>1. \A n \in DOMAIN nodes : nodes[n].e = h => n = a
          BY <1>3, <1>4 DEF FieldInv, TreeInv, KeysDiffer, NodeKey
        <4> QED
          BY <1>3, <1>4, <2>3, <2>4, <4>1 DEF InTree
      <3>2. ASSUME NEW i \in Elements \ Pending'
            PROVE  \E n \in DOMAIN nodes' : NodeKey(n)' = Key(i)' /\ nodes'[n].e >= i
        <4>1. CASE i = e
          BY <1>1, <1>4, <2>3, <2>4, <2>5, <4>1 DEF Key
        <4>2. CASE i # e
          <5>1. PICK n \in DOMAIN nodes : NodeKey(n) = Key(i) /\ nodes[n].e >= i
            BY <1>10, <3>2, <4>2 DEF FieldInv, PlacesInv
          <5>2. nodes'[n].e >= i
            <6>1. CASE n = a
              <7>1. nodes[n].e = h /\ nodes'[n].e = e
                BY <1>3, <2>4, <6>1
              <7>2. h >= i /\ ~(h > e) /\ h \in Nat /\ e \in Nat /\ i \in Nat
                BY <1>4, <1>12, <5>1, <7>1
              <7> QED
                BY <7>1, <7>2
            <6>2. CASE n # a
              BY <2>4, <5>1, <6>2
            <6> QED
              BY <6>1, <6>2
          <5> QED
            BY <1>1, <2>3, <2>5, <5>1, <5>2 DEF Key
        <4> QED
          BY <4>1, <4>2
      <3> QED
        BY <1>4, <1>5, <1>7, <1>10, <1>12, <3>1, <3>2 DEF FieldInv, PlacesInv
    <2> QED
      BY <1>9, <2>6, <2>7, <2>8 DEF FieldInv
  <1> QED
    BY <1>6, <1>11, <1>12

-----------------------------------------------------------------------------
LEMMA FieldStepKeeps == FieldInv /\ [FieldNext]_fieldVars => FieldInv'
  <1> SUFFICES ASSUME FieldInv, [FieldNext]_fieldVars PROVE FieldInv'
    OBVIOUS
  <1>1. ASSUME NEW field \in FieldData, Put(field) PROVE FieldInv'
    BY <1>1, PutKeeps
  <1>2. CASE Begin
    BY <1>2, FieldBeginKeeps
  <1>3. ASSUME NEW k \in Keys, Calm, Find(k), UNCHANGED <<update, latest>> PROVE FieldInv'
    BY <1>3, FindKeeps DEF Calm
  <1>4. ASSUME NEW e \in shuffled, NextElement(e) PROVE FieldInv'
    BY <1>4, NextElementKeeps
  <1>5. CASE FindNode \/ Descend \/ Attach \/ Replace
    BY <1>5, FindNodeKeeps, DescendKeeps, AttachKeeps, ReplaceKeeps
  <1>6. CASE Found \/ NotFound \/ Forget
    BY <1>6, FoundKeeps, NotFoundKeeps, ForgetKeeps
  <1>7. ASSUME NEW new \in Updates, UpdateFields(new) PROVE FieldInv'
    BY <1>7, UpdateFieldsKeeps
  <1>8. CASE Updating
    BY <1>8, SizeKeeps, LookUpKeeps, CheckFieldKeeps, TooManyFieldsKeeps, CheckedKeeps, CopyFieldKeeps,
       ReportKeeps DEF Updating
  <1>9. CASE UNCHANGED fieldVars
    <2>1. UNCHANGED <<elements, link, searched, shuffled, nodes, walk, sought, found, update, latest>>
      BY <1>9 DEF fieldVars, mapVars
    <2> QED
      BY <2>1, MapKeeps, FoundStays DEF FieldInv, UpdateTypeOK
  <1> QED
    BY <1>1, <1>2, <1>3, <1>4, <1>5, <1>6, <1>7, <1>8, <1>9 DEF FieldNext

(* What holds when nothing is on its way is what find and begin give.      *)
LEMMA InvGives == FieldInv => LatestWins
  <1> SUFFICES ASSUME FieldInv PROVE LatestWins
    OBVIOUS
  <1>1. elements \in Seq(FieldData) /\ Elements \subseteq Nat \ {0} /\ Elements = DOMAIN elements
    BY DEF FieldInv, FieldTypeOK, Elements
  <1>2. \A i \in Elements : Key(i) \in Keys
    <2>1. \A i \in Elements : elements[i] \in FieldData
      BY <1>1
    <2> QED
      BY <2>1 DEF Key, FieldData
  <1>3. FoundIsLatest
    <2> SUFFICES ASSUME found # NoField
                 PROVE  IF found.e = 0 THEN latest[found.key] = NoField
                        ELSE Key(found.e) = found.key /\ elements[found.e].value = latest[found.key]
      BY DEF FoundIsLatest
    <2>1. found.key \in Keys
      BY DEF FieldInv, FieldTypeOK
    <2> QED
      BY <2>1 DEF FieldInv, FoundInv, LatestInv, Newest
  <1>4. ListIsLatest
    <2> SUFFICES ASSUME shuffled = {}, walk = NoField, searched = Len(elements)
                 PROVE  /\ \A i, j \in link : Key(i) = Key(j) => i = j
                        /\ \A k \in Keys : latest[k] # NoField =>
                             \E i \in link : Key(i) = k /\ elements[i].value = latest[k]
                        /\ \A i \in link : latest[Key(i)] = elements[i].value
      BY DEF ListIsLatest
    <2>1. Pending = {}
      BY <1>1 DEF Pending
    <2>2. /\ \A i \in Elements : \E n \in DOMAIN nodes : NodeKey(n) = Key(i) /\ nodes[n].e >= i
          /\ link = InTree
      BY <2>1 DEF FieldInv, PlacesInv
    <2>3. \A n \in DOMAIN nodes : nodes[n].e \in Elements
      BY NodesTyped DEF FieldInv, FieldTypeOK
    <2>4. \A n \in DOMAIN nodes : Newest(nodes[n].e, NodeKey(n))
      BY <2>2, <2>3 DEF Newest, NodeKey, FieldInv, TreeInv, KeysDiffer
    <2>5. \A i, j \in link : Key(i) = Key(j) => i = j
      BY <2>2 DEF InTree, FieldInv, TreeInv, KeysDiffer, NodeKey
    <2>6. \A i \in link : i \in Elements /\ latest[Key(i)] = elements[i].value
      BY <1>2, <2>2, <2>3, <2>4 DEF InTree, NodeKey, FieldInv, LatestInv
    <2>7. ASSUME NEW k \in Keys, latest[k] # NoField
          PROVE  \E i \in link : Key(i) = k /\ elements[i].value = latest[k]
      <3>1. PICK i \in Elements : Key(i) = k
        BY <2>7 DEF FieldInv, LatestInv, None
      <3>2. PICK n \in DOMAIN nodes : NodeKey(n) = k
        BY <2>2, <3>1
      <3> QED
        BY <2>2, <2>6, <3>2 DEF InTree, NodeKey
    <2> QED
      BY <2>5, <2>6, <2>7
  <1> QED
    BY <1>3, <1>4 DEF LatestWins, FieldInv

(* A field is found, counted and saved as it was last given, and nothing   *)
(* else is, however its elements were shuffled and whatever keycmp says of *)
(* different keys (Map::find, Map::begin, UpdateFields).                   *)
THEOREM LatestWinsHolds == FieldSpec => []LatestWins
  <1>1. FieldSpec => []FieldInv
    BY FieldInitKeeps, FieldStepKeeps, PTL DEF FieldSpec
  <1> QED
    BY <1>1, InvGives, PTL

-----------------------------------------------------------------------------
(***************************************************************************)
(* The life of a server.                                                   *)
(***************************************************************************)
Places    == {"none", "loop", "wait", "asleep", "end", "broadcast", "leave", "over"}
Threaded  == [run : BOOLEAN, stop : BOOLEAN, at : Places]
InStart   == {"monitor", "threads", "listen", "links", "connect", "main", "server", "own", "ran"}
InStop    == {"stopThread", "toWait", "timedWait"}
InEngine  == {"main"} \union Pollers
CallPlaces == {"idle", "stopEngine", "stopMonitor"} \union InStart \union InStop

(* Types; m_bStop of a thread says whether it is before or after its work. *)
LifeKinds ==
  /\ LifeTypeOK
  /\ monitor \in [stop : BOOLEAN, epoll : 0 .. MaxStarts]
  /\ caller \in [pc : CallPlaces, todo : Seq(LifeThreads)]
  /\ \A t \in LifeThreads : thread[t].stop <=> thread[t].at \in {"none", "broadcast", "leave", "over"}

(* Where the caller is, what the call has come to, and m_stop.             *)
CallInv ==
  /\ caller.pc \in InStart => result = "starting" /\ ~m_stop
  /\ caller.pc = "idle" => \/ result = "started" /\ ~m_stop
                           \/ result \in {"none", "failed", "stopped"} /\ m_stop
  /\ caller.pc = "monitor" => monitor.epoll < MaxStarts
  /\ caller.pc = "ran" => \E t \in {"connect", "main", "own"} : caller.todo = <<t>>
  /\ caller.pc \in {"stopEngine", "stopMonitor"} \union InStop => result \in {"failed", "stopping"}
  /\ caller.pc = "stopMonitor" => m_stop
  /\ caller.pc \in InStop => \/ caller.todo = <<"own">> /\ result = "stopping"
                             \/ caller.todo \in Seq(InEngine) \ {<<>>} /\ m_stop

(* The threads that Stop has gone past do not run, nor does Main of the    *)
(* server before it was started.                                           *)
StillInv == alive =>
  /\ caller.pc \in {"monitor", "threads", "listen", "stopEngine", "stopMonitor"} => ~Runs("own")
  /\ caller.pc = "idle" /\ result # "started" => ~Runs("own")
  /\ caller.pc \in InStop /\ caller.todo # <<"own">> =>
       /\ ~Runs("own")
       /\ \A t \in InEngine : Runs(t) => \E i \in DOMAIN caller.todo : caller.todo[i] = t
  /\ caller.pc = "idle" /\ result \in {"stopped", "failed"} => \A t \in InEngine : ~Runs(t)

(* The first start, step by step, and what follows until Stop is called.   *)
Unborn(t) == thread[t].at = "none" /\ ~thread[t].run
IsRun(t)  == caller.pc = "ran" /\ caller.todo = <<t>>

FirstInv ==
  /\ monitor.epoll = 0 =>
       /\ caller.pc \in {"idle", "monitor"} /\ result \in {"none", "starting"}
       /\ waiter = "free" /\ ~m_sigStop
       /\ \A t \in LifeThreads : Unborn(t)
  /\ \A p \in Ports : m_serverPorts[p].in <= monitor.epoll
  /\ monitor.epoll = 1 /\ result \in {"starting", "started"} /\ caller.pc # "monitor" =>
       /\ ~m_sigStop
       /\ result = "starting" => waiter = "free"
       /\ caller.pc # "threads" => \A t \in Pollers : Runs(t)
       /\ caller.pc \in {"threads", "listen", "links", "connect"} => Unborn("connect") /\ Unborn("main")
       /\ caller.pc = "main" \/ IsRun("connect") => Unborn("main")
       /\ caller.pc \in {"main", "server", "own", "ran", "idle"} => Runs("connect")
       /\ caller.pc \in {"server", "own", "idle"} \/ IsRun("main") \/ IsRun("own") => Runs("main")
       /\ caller.pc \notin {"threads", "listen"} =>
            \A p \in Ports \ Taken : m_serverPorts[p].asked => m_serverPorts[p].in = 1

LifeIInv == LifeKinds /\ CallInv /\ StillInv /\ FirstInv /\ WaitedForEnd

Busy == {"loop", "wait", "asleep"}
Rests == {"none", "broadcast", "leave", "over"}

LEMMA LifeTyped ==
  ASSUME LifeKinds
  PROVE  /\ thread \in [LifeThreads -> Threaded] /\ {m_stop, m_sigStop, bStop, alive} \subseteq BOOLEAN
         /\ \A t \in LifeThreads :
              /\ thread[t].run \in BOOLEAN /\ thread[t].stop \in BOOLEAN /\ thread[t].at \in Places
              /\ Runs(t) <=> thread[t].at \in Busy
              /\ thread[t].stop <=> thread[t].at \in Rests
         /\ monitor.epoll \in 0 .. MaxStarts /\ monitor.epoll \in Int /\ monitor.stop \in BOOLEAN
         /\ {"main", "connect", "own"} \subseteq LifeThreads /\ InEngine \subseteq LifeThreads
         /\ Pollers \subseteq LifeThreads /\ Pollers \subseteq InEngine /\ "main" \in InEngine /\ "own" \notin InEngine
  BY LifeAssumption DEF LifeKinds, LifeTypeOK, Threaded, Places, Runs, Busy, Rests, LifeThreads, InEngine

LEMMA LifeInitKeeps == LifeInit => LifeIInv
  <1> SUFFICES ASSUME LifeInit PROVE LifeIInv
    OBVIOUS
  <1>1. MaxStarts \in Nat
    BY LifeAssumption
  <1>2. \A t \in LifeThreads : thread[t] = [run |-> FALSE, stop |-> TRUE, at |-> "none"]
    BY DEF LifeInit
  <1>3. \A t \in LifeThreads : ~Runs(t)
    BY <1>2 DEF Runs
  <1>4. LifeKinds
    <2>1. LifeTypeOK
      <3>1. {m_stop, m_sigStop, bStop, alive, monitor.stop} \subseteq BOOLEAN /\ monitor.epoll \in 0 .. MaxStarts
        <4>1. m_stop = TRUE /\ m_sigStop = FALSE /\ bStop = TRUE /\ alive = TRUE /\ monitor.stop = TRUE /\ monitor.epoll = 0
          BY DEF LifeInit
        <4>2. {m_stop, m_sigStop, bStop, alive, monitor.stop} \subseteq BOOLEAN
          BY <4>1, Zenon
        <4>3. monitor.epoll \in 0 .. MaxStarts
          BY <1>1, <4>1
        <4> QED
          BY <4>2, <4>3
      <3>2. m_serverPorts \in [Ports -> [asked : BOOLEAN, in : 0 .. MaxStarts]]
        BY <1>1 DEF LifeInit
      <3>3. thread \in [LifeThreads -> Threaded]
        BY DEF LifeInit, Threaded, Places
      <3> QED
        BY <3>1, <3>2, <3>3 DEF LifeInit, LifeTypeOK, Threaded, Places
    <2>2. caller \in [pc : CallPlaces, todo : Seq(LifeThreads)]
      BY DEF LifeInit, CallPlaces
    <2>3. monitor \in [stop : BOOLEAN, epoll : 0 .. MaxStarts]
      BY <1>1 DEF LifeInit
    <2> QED
      BY <1>2, <2>1, <2>2, <2>3 DEF LifeKinds
  <1>5. CallInv
    BY DEF LifeInit, CallInv, InStart, InStop
  <1>6. StillInv
    <2>1. "own" \in LifeThreads
      BY DEF LifeThreads
    <2> QED
      BY <1>3, <2>1 DEF LifeInit, StillInv, InStop
  <1>7. FirstInv
    BY <1>2 DEF LifeInit, FirstInv, Unborn
  <1>8. WaitedForEnd
    BY DEF LifeInit, WaitedForEnd
  <1> QED
    BY <1>4, <1>5, <1>6, <1>7, <1>8 DEF LifeIInv

LEMMA Working ==
  ASSUME LifeKinds, CallInv, result \in {"starting", "started"}
  PROVE  ~m_stop
  <1>1. caller.pc \in CallPlaces
    BY DEF LifeKinds
  <1> QED
    BY <1>1 DEF CallInv, CallPlaces

(* A thread goes on by itself.                                             *)
LEMMA ThreadMoves ==
  ASSUME LifeIInv, NEW t \in LifeThreads, thread[t].at # "none",
         thread' \in [LifeThreads -> Threaded], \A u \in LifeThreads \ {t} : thread'[u] = thread[u],
         thread'[t].stop <=> thread'[t].at \in Rests, thread'[t].at \in Busy => thread[t].at \in Busy,
         t # "own" /\ ~m_stop /\ ~m_sigStop /\ thread[t].at \in Busy => thread'[t].at \in Busy,
         m_sigStop' \in BOOLEAN, m_sigStop' => m_sigStop,
         UNCHANGED <<m_stop, monitor, m_serverPorts, bStop, caller, waiter, result, alive>>
  PROVE  LifeIInv'
  <1>1. /\ \A u \in LifeThreads : Runs(u) <=> thread[u].at \in Busy
        /\ \A u \in LifeThreads : Runs(u)' <=> thread'[u].at \in Busy
        /\ {"main", "connect", "own"} \subseteq LifeThreads /\ InEngine \subseteq LifeThreads
        /\ Pollers \subseteq LifeThreads
        /\ "own" \notin {"main", "connect"} \union Pollers
    BY LifeTyped, LifeAssumption DEF LifeIInv, Runs, Busy
  <1>2. \A u \in LifeThreads : Runs(u)' => Runs(u)
    BY <1>1
  <1>3. LifeKinds'
    <2>1. LifeTypeOK'
      BY LifeTyped DEF LifeIInv, LifeKinds, LifeTypeOK, Threaded, Places
    <2>2. \A u \in LifeThreads : thread'[u].stop <=> thread'[u].at \in Rests
      BY DEF LifeIInv, LifeKinds, Rests
    <2> QED
      BY <2>1, <2>2 DEF LifeIInv, LifeKinds, Rests
  <1>4. CallInv'
    BY DEF LifeIInv, CallInv
  <1>5. StillInv'
    <2>1. StillInv
      BY DEF LifeIInv
    <2> QED
      BY <1>1, <1>2, <2>1 DEF StillInv
  <1>6. FirstInv'
    <2>1. \A u \in LifeThreads : Unborn(u) => Unborn(u)'
      BY DEF Unborn
    <2>2. ASSUME result \in {"starting", "started"}, ~m_sigStop
          PROVE  \A u \in LifeThreads : u # "own" /\ Runs(u) => Runs(u)'
      BY <1>1, <2>2, Working DEF LifeIInv
    <2>3. \A u \in {"connect", "main", "own"} : IsRun(u)' <=> IsRun(u)
      BY DEF IsRun
    <2>4. FirstInv
      BY DEF LifeIInv
    <2>5. monitor.epoll = 0 => \A u \in LifeThreads : Unborn(u)
      BY <2>4 DEF FirstInv
    <2>6. monitor.epoll # 0
      BY <2>5 DEF Unborn
    <2>7. ASSUME monitor.epoll = 1, result \in {"starting", "started"}, caller.pc # "monitor"
          PROVE  /\ ~m_sigStop'
                 /\ caller.pc # "threads" => \A u \in Pollers : Runs(u)'
                 /\ caller.pc \in {"threads", "listen", "links", "connect"} => Unborn("connect")' /\ Unborn("main")'
                 /\ caller.pc = "main" \/ IsRun("connect") => Unborn("main")'
                 /\ caller.pc \in {"main", "server", "own", "ran", "idle"} => Runs("connect")'
                 /\ caller.pc \in {"server", "own", "idle"} \/ IsRun("main") \/ IsRun("own") => Runs("main")'
      <3>1. ~m_sigStop
        BY <2>4, <2>7 DEF FirstInv
      <3>2. \A u \in LifeThreads : u # "own" /\ Runs(u) => Runs(u)'
        BY <2>2, <2>7, <3>1
      <3> QED
        BY <1>1, <2>1, <2>4, <2>7, <3>1, <3>2 DEF FirstInv
    <2> QED
      BY <2>3, <2>4, <2>6, <2>7 DEF FirstInv
  <1>7. WaitedForEnd'
    <2>1. WaitedForEnd
      BY DEF LifeIInv
    <2> QED
      BY <1>1, <1>2, <2>1 DEF WaitedForEnd
  <1> QED
    BY <1>3, <1>4, <1>5, <1>6, <1>7 DEF LifeIInv

\* What such a thread writes of itself.
LEMMA ThreadTurns ==
  ASSUME LifeIInv, NEW t \in LifeThreads, thread[t].at # "none", NEW x \in Threaded,
         thread' = [thread EXCEPT ![t] = x],
         x.stop <=> x.at \in Rests, x.at \in Busy => thread[t].at \in Busy,
         t # "own" /\ ~m_stop /\ ~m_sigStop /\ thread[t].at \in Busy => x.at \in Busy,
         m_sigStop' \in BOOLEAN, m_sigStop' => m_sigStop,
         UNCHANGED <<m_stop, monitor, m_serverPorts, bStop, caller, waiter, result, alive>>
  PROVE  LifeIInv'
  <1>1. /\ thread' \in [LifeThreads -> Threaded] /\ thread'[t] = x
        /\ \A u \in LifeThreads \ {t} : thread'[u] = thread[u]
    BY LifeTyped DEF LifeIInv
  <1> QED
    BY <1>1, ThreadMoves

LEMMA ThreadStepKeeps ==
  ASSUME LifeIInv, NEW t \in LifeThreads,
         Ended(t) \/ Left(t) \/ Loop(t) \/ WaitEvent(t) \/ Event(t)
           \/ (t = "main" /\ Main) \/ (t = "connect" /\ ConnectThread) \/ (t = "own" /\ OwnMain)
  PROVE  LifeIInv'
  <1>1. PICK r \in BOOLEAN, s \in BOOLEAN, a \in Places : thread[t] = [run |-> r, stop |-> s, at |-> a]
    BY LifeTyped DEF LifeIInv, Threaded
  <1>2. (s <=> a \in Rests) /\ thread[t].at = a /\ thread \in [LifeThreads -> Threaded]
        /\ m_sigStop \in BOOLEAN /\ m_stop \in BOOLEAN
    BY <1>1, LifeTyped DEF LifeIInv
  <1>3. CASE Ended(t)
    <2>1. /\ a = "end" /\ thread' = [thread EXCEPT ![t] = [run |-> r, stop |-> TRUE, at |-> "broadcast"]]
          /\ UNCHANGED <<m_stop, monitor, m_serverPorts, m_sigStop, bStop, caller, waiter, result, alive>>
      BY <1>1, <1>2, <1>3 DEF Ended, IsAt
    <2> DEFINE x == [run |-> r, stop |-> TRUE, at |-> "broadcast"]
    <2>2. x \in Threaded /\ (x.stop <=> x.at \in Rests) /\ x.at \notin Busy /\ a \notin Busy
      BY <2>1 DEF Threaded, Places, Rests, Busy
    <2> HIDE DEF x
    <2>3. thread' = [thread EXCEPT ![t] = x]
      BY <2>1 DEF x
    <2> QED
      BY <1>2, <2>1, <2>2, <2>3, ThreadTurns
  <1>4. CASE Left(t)
    <2>1. /\ a = "leave" /\ thread' = [thread EXCEPT ![t] = [run |-> FALSE, stop |-> s, at |-> "over"]]
          /\ UNCHANGED <<m_stop, monitor, m_serverPorts, m_sigStop, bStop, caller, waiter, result, alive>>
      BY <1>1, <1>2, <1>4 DEF Left, IsAt
    <2> DEFINE x == [run |-> FALSE, stop |-> s, at |-> "over"]
    <2>2. x \in Threaded /\ (x.stop <=> x.at \in Rests) /\ x.at \notin Busy /\ a \notin Busy
      BY <1>2, <2>1 DEF Threaded, Places, Rests, Busy
    <2> HIDE DEF x
    <2>3. thread' = [thread EXCEPT ![t] = x]
      BY <2>1 DEF x
    <2> QED
      BY <1>2, <2>1, <2>2, <2>3, ThreadTurns
  <1>5. CASE Loop(t) \/ WaitEvent(t) \/ Event(t) \/ (t = "main" /\ Main) \/ (t = "connect" /\ ConnectThread) \/ (t = "own" /\ OwnMain)
    <2>1. PICK b \in {"loop", "wait", "asleep", "end"} : Moves(t, b)
      BY <1>5 DEF Loop, WaitEvent, Event, Main, ConnectThread, OwnMain
    <2>2. thread' = [thread EXCEPT ![t] = [run |-> r, stop |-> s, at |-> b]]
      <3>1. thread' = [thread EXCEPT ![t].at = b]
        BY <2>1 DEF Moves
      <3>2. [thread[t] EXCEPT !.at = b] = [run |-> r, stop |-> s, at |-> b]
        BY <1>1
      <3> QED
        BY <3>1, <3>2
    <2>3. /\ a \in Busy /\ UNCHANGED <<m_stop, monitor, m_serverPorts, bStop, caller, waiter, result, alive>>
          /\ m_sigStop' \in BOOLEAN /\ (m_sigStop' => m_sigStop)
      <3>1. a \in {"loop", "wait", "asleep"}
        BY <1>2, <1>5 DEF Loop, WaitEvent, Event, Main, ConnectThread, OwnMain, IsAt
      <3>2. UNCHANGED <<m_stop, monitor, m_serverPorts, bStop, caller, waiter, result, alive>>
        BY <1>5 DEF Loop, WaitEvent, Event, Main, ConnectThread, OwnMain
      <3>3. m_sigStop' \in BOOLEAN /\ (m_sigStop' => m_sigStop)
        <4>1. m_sigStop' = m_sigStop \/ m_sigStop' = FALSE
          BY <1>5 DEF Loop, WaitEvent, Event, Main, ConnectThread, OwnMain
        <4>2. CASE m_sigStop' = m_sigStop
          BY <1>2, <4>2
        <4>3. CASE m_sigStop' = FALSE
          BY <4>3, Zenon
        <4> QED
          BY <4>1, <4>2, <4>3
      <3> QED
        BY <3>1, <3>2, <3>3 DEF Busy
    <2>4. thread'[t].at = b
      BY <1>2, <2>2
    <2>5. t # "own" /\ ~m_stop /\ ~m_sigStop => b # "end"
      <3>1. CASE Loop(t)
        BY <1>2, <2>4, <3>1 DEF Loop, Moves, Threaded
      <3>2. CASE WaitEvent(t)
        BY <1>2, <2>4, <3>2 DEF WaitEvent, Moves, Threaded
      <3>3. CASE Event(t)
        BY <1>2, <2>4, <3>3 DEF Event, Moves, Threaded
      <3>4. CASE t = "main" /\ Main
        BY <1>2, <2>4, <3>4 DEF Main, Moves, Threaded
      <3>5. CASE t = "connect" /\ ConnectThread
        BY <1>2, <2>4, <3>5 DEF ConnectThread, Moves, Threaded
      <3> QED
        BY <1>5, <3>1, <3>2, <3>3, <3>4, <3>5
    <2> DEFINE x == [run |-> r, stop |-> s, at |-> b]
    <2>6. x \in Threaded /\ (x.stop <=> x.at \in Rests) /\ x.at = b
      BY <1>2, <2>1, <2>3 DEF Threaded, Places, Rests, Busy
    <2>7. thread' = [thread EXCEPT ![t] = x]
      BY <2>2
    <2>8. t # "own" /\ ~m_stop /\ ~m_sigStop /\ thread[t].at \in Busy => x.at \in Busy
      BY <2>1, <2>5, <2>6 DEF Busy
    <2>9. thread[t].at \in Busy /\ thread[t].at # "none"
      BY <1>2, <2>3 DEF Busy
    <2> HIDE DEF x
    <2> QED
      BY <2>3, <2>6, <2>7, <2>8, <2>9, ThreadTurns
  <1> QED
    BY <1>3, <1>4, <1>5

(* Stop has waited for a thread, or gives it up.                           *)
LEMMA StoppedIs ==
  ASSUME LifeIInv, caller.pc \in InStop, NEW t, t = Head(caller.todo), IsStopped(t)
  PROVE  /\ t \in LifeThreads /\ caller.todo \in Seq(LifeThreads)
         /\ result \in {"failed", "stopping"}
         /\ \/ /\ t = "own" /\ caller' = [pc |-> "stopEngine", todo |-> <<>>] /\ result' = "stopping"
            \/ /\ t \in InEngine /\ m_stop /\ caller.todo # <<"own">> /\ caller.todo # <<>>
               /\ \/ /\ caller' = [pc |-> "stopThread", todo |-> Tail(caller.todo)] /\ result' = result
                     /\ Tail(caller.todo) \in Seq(InEngine) \ {<<>>}
                  \/ /\ caller' = [pc |-> "idle", todo |-> <<>>] /\ Tail(caller.todo) = <<>>
                     /\ result' = IF result = "stopping" THEN "stopped" ELSE result
  <1>1. InEngine \subseteq LifeThreads /\ "own" \notin InEngine /\ "own" \in LifeThreads
    BY LifeTyped DEF LifeIInv
  <1>2. caller.pc \notin {"stopEngine", "idle"} /\ result \in {"failed", "stopping"}
    BY DEF LifeIInv, CallInv, InStop
  <1>3. CASE caller.todo = <<"own">> /\ result = "stopping"
    <2>1. t = "own" /\ Len(caller.todo) = 1 /\ Tail(caller.todo) = <<>>
      BY <1>3
    <2>2. caller' = [pc |-> "stopEngine", todo |-> <<>>]
      <3>1. caller' = [pc |-> IF Len(caller.todo) > 1 THEN "stopThread" ELSE IF t = "own" THEN "stopEngine" ELSE "idle",
                       todo |-> Tail(caller.todo)]
        BY DEF IsStopped
      <3>2. ~(Len(caller.todo) > 1)
        BY <2>1
      <3> QED
        BY <2>1, <3>1, <3>2
    <2>3. result' = "stopping"
      BY <1>3, <2>2 DEF IsStopped
    <2> QED
      BY <1>1, <1>2, <1>3, <2>1, <2>2, <2>3
  <1>4. CASE caller.todo \in Seq(InEngine) \ {<<>>} /\ m_stop
    <2> DEFINE s == caller.todo
    <2>1. s \in Seq(InEngine) \ {<<>>} /\ t = Head(s)
      BY <1>4
    <2>2. t \in InEngine /\ Tail(s) \in Seq(InEngine) /\ s # <<"own">> /\ s \in Seq(LifeThreads)
      <3>1. t \in InEngine /\ Tail(s) \in Seq(InEngine)
        BY <2>1
      <3>2. s # <<"own">>
        BY <1>1, <2>1
      <3>3. s \in Seq(LifeThreads)
        BY <1>1, <2>1
      <3> QED
        BY <3>1, <3>2, <3>3
    <2>3. (Len(s) > 1 => Tail(s) # <<>>) /\ (~(Len(s) > 1) => Tail(s) = <<>>)
      <3>1. Len(s) \in Nat \ {0} /\ Tail(s) \in Seq(InEngine) /\ Len(Tail(s)) = Len(s) - 1
        BY <2>1
      <3>2. Tail(s) = <<>> <=> Len(Tail(s)) = 0
        BY <3>1, EmptySeq
      <3> DEFINE n == Len(s)
                 m == Len(Tail(s))
      <3>3. n \in Nat \ {0} /\ m = n - 1
        BY <3>1
      <3>4. Tail(s) = <<>> <=> m = 0
        BY <3>2
      <3>5. n > 1 <=> m # 0
        <4> HIDE DEF n, m
        <4> QED
          BY <3>3
      <3> QED
        BY <3>4, <3>5, Zenon
    <2>4. caller' = [pc |-> IF Len(s) > 1 THEN "stopThread" ELSE "idle", todo |-> Tail(s)]
      BY <1>1, <2>2 DEF IsStopped
    <2>5. CASE Len(s) > 1
      <3>1. caller' = [pc |-> "stopThread", todo |-> Tail(s)]
        BY <2>4, <2>5
      <3>2. result' = result
        BY <3>1 DEF IsStopped
      <3> QED
        BY <1>1, <1>2, <1>4, <2>2, <2>3, <2>5, <3>1, <3>2
    <2>6. CASE ~(Len(s) > 1)
      <3>1. caller' = [pc |-> "idle", todo |-> <<>>]
        BY <2>3, <2>4, <2>6
      <3>2. result' = IF result = "stopping" THEN "stopped" ELSE result
        BY <3>1 DEF IsStopped
      <3> QED
        BY <1>1, <1>2, <1>4, <2>2, <2>3, <2>6, <3>1, <3>2
    <2> QED
      BY <2>5, <2>6
  <1> QED
    BY <1>3, <1>4 DEF LifeIInv, CallInv

LEMMA StoppedOne ==
  ASSUME LifeIInv, caller.pc \in InStop, NEW t, t = Head(caller.todo), IsStopped(t),
         thread' \in [LifeThreads -> Threaded], \A u \in LifeThreads \ {t} : thread'[u] = thread[u],
         thread'[t].stop <=> thread'[t].at \in Rests, thread'[t].at \in Busy => thread[t].at \in Busy,
         alive' \in BOOLEAN, alive' => alive, alive' => thread'[t].at \notin Busy,
         \/ waiter' = waiter
         \/ waiter = "waitMain" /\ t = "main" /\ waiter' = "toOwn"
         \/ waiter = "waitOwn" /\ t = "own" /\ waiter' = "returned",
         UNCHANGED <<m_stop, monitor, m_serverPorts, m_sigStop, bStop>>
  PROVE  LifeIInv'
  <1>1. /\ t \in LifeThreads /\ caller.todo \in Seq(LifeThreads)
        /\ result \in {"failed", "stopping"}
        /\ \/ /\ t = "own" /\ caller' = [pc |-> "stopEngine", todo |-> <<>>] /\ result' = "stopping"
           \/ /\ t \in InEngine /\ m_stop /\ caller.todo # <<"own">> /\ caller.todo # <<>>
              /\ \/ /\ caller' = [pc |-> "stopThread", todo |-> Tail(caller.todo)] /\ result' = result
                    /\ Tail(caller.todo) \in Seq(InEngine) \ {<<>>}
                 \/ /\ caller' = [pc |-> "idle", todo |-> <<>>] /\ Tail(caller.todo) = <<>>
                    /\ result' = IF result = "stopping" THEN "stopped" ELSE result
    BY StoppedIs
  <1>2. /\ \A u \in LifeThreads : Runs(u) <=> thread[u].at \in Busy
        /\ \A u \in LifeThreads : Runs(u)' <=> thread'[u].at \in Busy
        /\ {"main", "connect", "own"} \subseteq LifeThreads /\ InEngine \subseteq LifeThreads
        /\ "own" \notin InEngine
    BY LifeTyped DEF LifeIInv, Runs, Busy
  <1>3. \A u \in LifeThreads : Runs(u)' => Runs(u)
    BY <1>2
  <1>4. result' \in {"failed", "stopping", "stopped"}
    BY <1>1
  <1>5. LifeKinds'
    <2>1. LifeTypeOK'
      BY <1>4 DEF LifeIInv, LifeKinds, LifeTypeOK, Threaded, Places
    <2>2. \A u \in LifeThreads : thread'[u].stop <=> thread'[u].at \in Rests
      BY DEF LifeIInv, LifeKinds, Rests
    <2>3. caller' \in [pc : CallPlaces, todo : Seq(LifeThreads)]
      <3>1. \A s \in Seq(InEngine) : s \in Seq(LifeThreads)
        BY <1>2
      <3> QED
        <4>1. CASE caller' = [pc |-> "stopEngine", todo |-> <<>>]
          BY <4>1 DEF CallPlaces
        <4>2. CASE caller' = [pc |-> "stopThread", todo |-> Tail(caller.todo)] /\ Tail(caller.todo) \in Seq(InEngine)
          BY <3>1, <4>2 DEF CallPlaces, InStop
        <4>3. CASE caller' = [pc |-> "idle", todo |-> <<>>]
          BY <4>3 DEF CallPlaces
        <4> QED
          BY <1>1, <4>1, <4>2, <4>3
    <2> QED
      BY <2>1, <2>2, <2>3 DEF LifeIInv, LifeKinds, Rests
  <1>6. CallInv'
    <2>1. CASE t = "own" /\ caller' = [pc |-> "stopEngine", todo |-> <<>>] /\ result' = "stopping"
      BY <2>1 DEF CallInv, InStart, InStop
    <2>2. CASE /\ m_stop /\ caller' = [pc |-> "stopThread", todo |-> Tail(caller.todo)] /\ result' = result
               /\ Tail(caller.todo) \in Seq(InEngine) \ {<<>>}
      BY <1>1, <2>2 DEF CallInv, InStart, InStop
    <2>3. CASE /\ m_stop /\ caller' = [pc |-> "idle", todo |-> <<>>]
               /\ result' = IF result = "stopping" THEN "stopped" ELSE result
      BY <1>1, <2>3 DEF CallInv, InStart, InStop
    <2> QED
      BY <1>1, <2>1, <2>2, <2>3
  <1>7. StillInv'
    <2> SUFFICES ASSUME alive' PROVE
          /\ caller.pc' \in {"monitor", "threads", "listen", "stopEngine", "stopMonitor"} => ~Runs("own")'
          /\ caller.pc' = "idle" /\ result' # "started" => ~Runs("own")'
          /\ caller.pc' \in InStop /\ caller.todo' # <<"own">> =>
               /\ ~Runs("own")'
               /\ \A u \in InEngine : Runs(u)' => \E i \in DOMAIN caller.todo' : caller.todo'[i] = u
          /\ caller.pc' = "idle" /\ result' \in {"stopped", "failed"} => \A u \in InEngine : ~Runs(u)'
      BY DEF StillInv
    <2>1. alive /\ ~Runs(t)'
      BY <1>1, <1>2
    <2>2. CASE t = "own" /\ caller' = [pc |-> "stopEngine", todo |-> <<>>] /\ result' = "stopping"
      BY <2>1, <2>2 DEF InStop
    <2>3. CASE t \in InEngine /\ caller.todo # <<"own">> /\ caller.todo # <<>>
      <3>1. ~Runs("own") /\ \A u \in InEngine : Runs(u) => \E i \in DOMAIN caller.todo : caller.todo[i] = u
        BY <2>1, <2>3 DEF LifeIInv, StillInv
      <3>2. \A u \in InEngine : Runs(u)' => \E i \in DOMAIN Tail(caller.todo) : Tail(caller.todo)[i] = u
        <4> SUFFICES ASSUME NEW u \in InEngine, Runs(u)'
                     PROVE  \E i \in DOMAIN Tail(caller.todo) : Tail(caller.todo)[i] = u
          OBVIOUS
        <4>1. PICK i \in DOMAIN caller.todo : caller.todo[i] = u
          BY <1>2, <1>3, <3>1
        <4>2. u # t
          BY <2>1
        <4>3. i \in 2 .. Len(caller.todo)
          BY <1>1, <2>3, <4>1, <4>2
        <4>4. i - 1 \in DOMAIN Tail(caller.todo) /\ Tail(caller.todo)[i - 1] = u
          BY <1>1, <2>3, <4>1, <4>3
        <4> QED
          BY <4>4
      <3>3. ~Runs("own")'
        BY <1>2, <1>3, <3>1
      <3>4. CASE caller' = [pc |-> "stopThread", todo |-> Tail(caller.todo)]
        BY <3>2, <3>3, <3>4 DEF InStop
      <3>5. CASE caller' = [pc |-> "idle", todo |-> <<>>] /\ Tail(caller.todo) = <<>>
        <4>1. \A u \in InEngine : ~Runs(u)'
          BY <3>2, <3>5
        <4> QED
          BY <3>3, <3>5, <4>1 DEF InStop
      <3> QED
        BY <1>1, <2>3, <1>2, <3>4, <3>5
    <2> QED
      BY <1>1, <2>2, <2>3
  <1>8. FirstInv'
    <2>1. FirstInv
      BY DEF LifeIInv
    <2>2. monitor.epoll # 0
      BY <2>1 DEF FirstInv, InStop
    <2>3. result' \notin {"starting", "started"}
      BY <1>4
    <2> QED
      BY <2>1, <2>2, <2>3 DEF FirstInv
  <1>9. WaitedForEnd'
    <2>1. WaitedForEnd
      BY DEF LifeIInv
    <2>2. ASSUME alive', monitor.epoll = 1
          PROVE  /\ waiter' \in {"toOwn", "waitOwn", "returned"} => ~Runs("main")'
                 /\ waiter' = "returned" => ~Runs("own")'
      <3>1. ~Runs(t)'
        BY <1>1, <1>2, <2>2
      <3>2. /\ waiter \in {"toOwn", "waitOwn", "returned"} => ~Runs("main")
            /\ waiter = "returned" => ~Runs("own")
        BY <2>1, <2>2 DEF WaitedForEnd
      <3> QED
        BY <1>2, <1>3, <3>1, <3>2
    <2> QED
      BY <2>2 DEF WaitedForEnd
  <1> QED
    BY <1>5, <1>6, <1>7, <1>8, <1>9 DEF LifeIInv

LEMMA BroadcastThreadKeeps == ASSUME LifeIInv, NEW t \in LifeThreads, Broadcast(t) PROVE LifeIInv'
  <1> DEFINE heard == caller.pc = "timedWait" /\ Head(caller.todo) = t
  <1>1. PICK r \in BOOLEAN, s \in BOOLEAN, a \in Places : thread[t] = [run |-> r, stop |-> s, at |-> a]
    BY LifeTyped DEF LifeIInv, Threaded
  <1>2. /\ (s <=> a \in Rests) /\ thread[t].at = a /\ thread \in [LifeThreads -> Threaded]
        /\ m_sigStop \in BOOLEAN /\ alive \in BOOLEAN
    BY <1>1, LifeTyped DEF LifeIInv
  <1>3. /\ a = "broadcast" /\ (IF heard THEN IsStopped(t) ELSE UNCHANGED <<caller, result>>)
        /\ thread' = [thread EXCEPT ![t].at = "leave", ![t].run = IF heard THEN FALSE ELSE @]
        /\ waiter' = CASE waiter = "waitMain" /\ t = "main" -> "toOwn"
                       [] waiter = "waitOwn" /\ t = "own" -> "returned"
                       [] OTHER -> waiter
        /\ UNCHANGED <<m_stop, monitor, m_serverPorts, m_sigStop, bStop, alive>>
    BY <1>2 DEF Broadcast, IsAt
  <1>5. \/ waiter' = waiter
        \/ waiter = "waitMain" /\ t = "main" /\ waiter' = "toOwn"
        \/ waiter = "waitOwn" /\ t = "own" /\ waiter' = "returned"
    BY <1>3
  <1>6. /\ thread' \in [LifeThreads -> Threaded] /\ \A u \in LifeThreads \ {t} : thread'[u] = thread[u]
        /\ thread'[t].stop = thread[t].stop /\ thread'[t].at = "leave"
    <2>1. PICK b \in BOOLEAN : thread' = [thread EXCEPT ![t].at = "leave", ![t].run = b]
      <3>1. CASE heard
        <4>1. thread' = [thread EXCEPT ![t].at = "leave", ![t].run = FALSE]
          BY <1>3, <3>1
        <4> QED
          BY <4>1
      <3>2. CASE ~heard
        <4>1. thread' = [thread EXCEPT ![t].at = "leave"]
          BY <1>2, <1>3, <3>2 DEF Threaded
        <4>2. thread' = [thread EXCEPT ![t].at = "leave", ![t].run = thread[t].run]
          BY <1>2, <4>1 DEF Threaded
        <4>3. thread[t].run \in BOOLEAN
          BY <1>2 DEF Threaded
        <4> QED
          BY <4>2, <4>3
      <3> QED
        BY <3>1, <3>2
    <2> QED
      BY <1>2, <2>1 DEF Threaded, Places
  <1>7. (thread'[t].stop <=> thread'[t].at \in Rests) /\ thread'[t].at \notin Busy
    BY <1>1, <1>2, <1>3, <1>6 DEF Rests, Busy
  <1>8. CASE heard
    <2>1. IsStopped(t) /\ caller.pc \in InStop /\ t = Head(caller.todo)
      BY <1>3, <1>8 DEF InStop
    <2> QED
      BY <1>2, <1>3, <1>5, <1>6, <1>7, <2>1, StoppedOne
  <1>9. CASE ~heard
    <2>1. UNCHANGED <<caller, result>>
      BY <1>3, <1>9
    <2>2. /\ \A u \in LifeThreads : Runs(u) <=> thread[u].at \in Busy
          /\ \A u \in LifeThreads : Runs(u)' <=> thread'[u].at \in Busy
          /\ {"main", "connect", "own"} \subseteq LifeThreads /\ InEngine \subseteq LifeThreads
      BY LifeTyped DEF LifeIInv, Runs, Busy
    <2>3. \A u \in LifeThreads : Runs(u)' <=> Runs(u)
      <3>1. thread[t].at \notin Busy
        BY <1>2, <1>3 DEF Busy
      <3> QED
        BY <1>6, <1>7, <2>2, <3>1
    <2>4. \A u \in LifeThreads : Unborn(u)' <=> Unborn(u)
      <3>1. ~Unborn(t) /\ ~Unborn(t)'
        BY <1>2, <1>3, <1>6 DEF Unborn
      <3> QED
        BY <1>6, <3>1 DEF Unborn
    <2>5. waiter' \in {"free", "waitMain", "toOwn", "waitOwn", "returned"} /\ (waiter = "free" => waiter' = "free")
      BY <1>5 DEF LifeIInv, LifeKinds, LifeTypeOK
    <2>6. LifeKinds'
      <3>1. LifeTypeOK'
        BY <1>3, <1>6, <2>1, <2>5 DEF LifeIInv, LifeKinds, LifeTypeOK, Threaded, Places
      <3>2. \A u \in LifeThreads : thread'[u].stop <=> thread'[u].at \in Rests
        BY <1>6, <1>7 DEF LifeIInv, LifeKinds, Rests
      <3> QED
        BY <1>3, <2>1, <3>1, <3>2 DEF LifeIInv, LifeKinds, Rests
    <2>7. CallInv'
      BY <1>3, <2>1 DEF LifeIInv, CallInv
    <2>8. StillInv'
      BY <1>3, <2>1, <2>2, <2>3 DEF LifeIInv, StillInv
    <2>9. FirstInv'
      <3>1. FirstInv
        BY DEF LifeIInv
      <3>2. monitor.epoll # 0
        BY <1>2, <1>3, <3>1 DEF FirstInv, Unborn
      <3>3. \A u \in {"connect", "main", "own"} : IsRun(u)' <=> IsRun(u)
        BY <2>1 DEF IsRun
      <3>4. Pollers \subseteq LifeThreads
        BY DEF LifeThreads
      <3> QED
        BY <1>3, <2>1, <2>2, <2>3, <2>4, <2>5, <3>1, <3>2, <3>3, <3>4 DEF FirstInv
    <2>10. WaitedForEnd'
      <3>1. ~Runs(t)'
        BY <1>7, <2>2
      <3>2. WaitedForEnd
        BY DEF LifeIInv
      <3>3. ASSUME alive, monitor.epoll = 1
            PROVE  /\ waiter' \in {"toOwn", "waitOwn", "returned"} => ~Runs("main")'
                   /\ waiter' = "returned" => ~Runs("own")'
        <4>1. /\ waiter \in {"toOwn", "waitOwn", "returned"} => ~Runs("main")
              /\ waiter = "returned" => ~Runs("own")
          BY <3>2, <3>3 DEF WaitedForEnd
        <4> QED
          BY <1>5, <2>2, <2>3, <3>1, <4>1
      <3> QED
        BY <1>3, <3>3 DEF WaitedForEnd
    <2> QED
      BY <2>6, <2>7, <2>8, <2>9, <2>10 DEF LifeIInv
  <1> QED
    BY <1>8, <1>9

\* A caller that only goes on to its next step.
LEMMA TimedWaitKeeps == ASSUME LifeIInv, TimedWait PROVE LifeIInv'
  <1>1. /\ caller.pc = "toWait" /\ caller' = [caller EXCEPT !.pc = "timedWait"]
        /\ UNCHANGED <<m_stop, monitor, m_serverPorts, thread, m_sigStop, bStop, waiter, result, alive>>
    BY DEF TimedWait, InCall, Continue
  <1>2. PICK s \in Seq(LifeThreads) : caller = [pc |-> "toWait", todo |-> s]
    BY <1>1 DEF LifeIInv, LifeKinds
  <1>3. caller' = [pc |-> "timedWait", todo |-> s]
    BY <1>1, <1>2
  <1>4. \A u \in LifeThreads : Runs(u)' <=> Runs(u)
    BY <1>1 DEF Runs
  <1>5. {"own", "main"} \subseteq LifeThreads /\ InEngine \subseteq LifeThreads
    BY LifeTyped DEF LifeIInv
  <1>6. LifeKinds'
    BY <1>1, <1>3 DEF LifeIInv, LifeKinds, LifeTypeOK, CallPlaces, InStop
  <1>7. CallInv'
    BY <1>1, <1>2, <1>3 DEF LifeIInv, CallInv, InStop, InStart
  <1>8. StillInv'
    BY <1>1, <1>2, <1>3, <1>4, <1>5 DEF LifeIInv, StillInv, InStop
  <1>9. FirstInv'
    <2>1. result \in {"failed", "stopping"}
      BY <1>1 DEF LifeIInv, CallInv, InStop
    <2> QED
      BY <1>1, <1>2, <2>1 DEF LifeIInv, FirstInv
  <1>10. WaitedForEnd'
    BY <1>1, <1>4, <1>5 DEF LifeIInv, WaitedForEnd
  <1> QED
    BY <1>6, <1>7, <1>8, <1>9, <1>10 DEF LifeIInv

LEMMA StopThreadStepKeeps == ASSUME LifeIInv, StopThread \/ TimeOut PROVE LifeIInv'
  <1> DEFINE t == Head(caller.todo)
  <1>1. caller.pc \in InStop /\ alive /\ UNCHANGED <<m_stop, monitor, m_serverPorts, m_sigStop, bStop, waiter>>
    BY DEF StopThread, TimeOut, InCall, InStop
  <1>2. /\ t \in LifeThreads /\ alive \in BOOLEAN
    <2>1. caller.todo \in Seq(LifeThreads) \ {<<>>} /\ alive \in BOOLEAN
      <3>1. caller.todo # <<>>
        BY <1>1 DEF LifeIInv, CallInv
      <3> QED
        BY <3>1, LifeTyped DEF LifeIInv, LifeKinds
    <2> QED
      BY <2>1
  <1>3. PICK r \in BOOLEAN, s \in BOOLEAN, a \in Places : thread[t] = [run |-> r, stop |-> s, at |-> a]
    BY <1>2, LifeTyped DEF LifeIInv, Threaded
  <1>4. (s <=> a \in Rests) /\ thread[t].at = a /\ thread \in [LifeThreads -> Threaded]
    BY <1>2, <1>3, LifeTyped DEF LifeIInv
  <1>5. ASSUME IsStopped(t), thread' = [thread EXCEPT ![t].run = FALSE],
               alive' \in BOOLEAN, alive' => a \notin Busy
        PROVE  LifeIInv'
    <2>2. /\ thread' \in [LifeThreads -> Threaded] /\ \A u \in LifeThreads \ {t} : thread'[u] = thread[u]
          /\ thread'[t].stop = thread[t].stop /\ thread'[t].at = a
      <3> HIDE DEF t
      <3> QED
        BY <1>2, <1>4, <1>5 DEF Threaded
    <2> HIDE DEF t
    <2>3. t = Head(caller.todo)
      BY DEF t
    <2>4. /\ thread'[t].stop <=> thread'[t].at \in Rests
          /\ thread'[t].at \in Busy => thread[t].at \in Busy
          /\ alive' => thread'[t].at \notin Busy
          /\ waiter' = waiter
      BY <1>1, <1>3, <1>4, <1>5, <2>2
    <2> QED
      BY <1>1, <1>5, <2>2, <2>3, <2>4, StoppedOne
  <1>6. CASE TimeOut
    <2>1. IsStopped(t) /\ thread' = [thread EXCEPT ![t].run = FALSE]
      BY <1>6 DEF TimeOut
    <2>2. alive' \in BOOLEAN /\ (alive' => a \notin Busy)
      <3>1. CASE a = "over"
        BY <1>4, <1>6, <3>1 DEF TimeOut, Busy
      <3>2. CASE a # "over"
        <4>1. alive' = FALSE
          BY <1>4, <1>6, <3>2 DEF TimeOut
        <4> QED
          BY <4>1, Zenon
      <3> QED
        BY <3>1, <3>2
    <2> QED
      BY <1>5, <2>1, <2>2
  <1>7. CASE StopThread /\ thread[t].stop
    <2>1. IsStopped(t) /\ thread' = [thread EXCEPT ![t].run = FALSE] /\ alive' = alive
      BY <1>7 DEF StopThread
    <2>2. a \notin Busy
      BY <1>3, <1>4, <1>7 DEF Rests, Busy
    <2> QED
      BY <1>2, <1>5, <2>1, <2>2
  <1>8. CASE StopThread /\ ~thread[t].stop
    <2>1. /\ caller.pc = "stopThread" /\ caller' = [caller EXCEPT !.pc = "toWait"]
          /\ UNCHANGED <<m_stop, monitor, m_serverPorts, thread, m_sigStop, bStop, waiter, result, alive>>
      BY <1>8 DEF StopThread, InCall, Continue
    <2>2. PICK q \in Seq(LifeThreads) : caller = [pc |-> "stopThread", todo |-> q]
      BY <2>1 DEF LifeIInv, LifeKinds
    <2>3. caller' = [pc |-> "toWait", todo |-> q]
      BY <2>1, <2>2
    <2>4. \A u \in LifeThreads : Runs(u)' <=> Runs(u)
      BY <2>1 DEF Runs
    <2>5. {"own", "main"} \subseteq LifeThreads /\ InEngine \subseteq LifeThreads
      BY LifeTyped DEF LifeIInv
    <2>6. LifeKinds'
      BY <2>1, <2>3 DEF LifeIInv, LifeKinds, LifeTypeOK, CallPlaces, InStop
    <2>7. CallInv'
      BY <2>1, <2>2, <2>3 DEF LifeIInv, CallInv, InStop, InStart
    <2>8. StillInv'
      BY <2>1, <2>2, <2>3, <2>4, <2>5 DEF LifeIInv, StillInv, InStop
    <2>9. FirstInv'
      <3>1. result \in {"failed", "stopping"}
        BY <2>1 DEF LifeIInv, CallInv, InStop
      <3> QED
        BY <2>1, <2>2, <3>1 DEF LifeIInv, FirstInv
    <2>10. WaitedForEnd'
      BY <2>1, <2>4, <2>5 DEF LifeIInv, WaitedForEnd
    <2> QED
      BY <2>6, <2>7, <2>8, <2>9, <2>10 DEF LifeIInv
  <1> QED
    BY <1>6, <1>7, <1>8

\* What every step of the caller may use.
LEMMA CallerFacts ==
  ASSUME LifeIInv
  PROVE  /\ LifeKinds /\ CallInv /\ StillInv /\ FirstInv /\ WaitedForEnd
         /\ {"main", "connect", "own"} \subseteq LifeThreads /\ InEngine \subseteq LifeThreads
         /\ Pollers \subseteq LifeThreads /\ "own" \notin InEngine
         /\ monitor.epoll \in Int /\ 0 <= monitor.epoll
         /\ \E s \in Seq(LifeThreads) : caller = [pc |-> caller.pc, todo |-> s]
  <1>1. \E s \in Seq(LifeThreads) : caller = [pc |-> caller.pc, todo |-> s]
    BY DEF LifeIInv, LifeKinds
  <1> QED
    BY <1>1, LifeTyped DEF LifeIInv

LEMMA SameThreads ==
  ASSUME UNCHANGED thread
  PROVE  /\ \A u \in LifeThreads : (Runs(u)' <=> Runs(u)) /\ (Unborn(u)' <=> Unborn(u))
  BY DEF Runs, Unborn

\* The caller goes on, the threads stay.
LEMMA CallerKinds ==
  ASSUME LifeKinds, UNCHANGED thread, m_stop' \in BOOLEAN, m_sigStop' \in BOOLEAN, bStop' \in BOOLEAN,
         alive' \in BOOLEAN,
         monitor' \in [stop : BOOLEAN, epoll : 0 .. MaxStarts],
         m_serverPorts' \in [Ports -> [asked : BOOLEAN, in : 0 .. MaxStarts]],
         waiter' \in {"free", "waitMain", "toOwn", "waitOwn", "returned"},
         result' \in {"none", "starting", "started", "failed", "stopping", "stopped"},
         caller' \in [pc : CallPlaces, todo : Seq(LifeThreads)]
  PROVE  LifeKinds'
  <1>1. {m_stop', m_sigStop', bStop', alive', monitor'.stop} \subseteq BOOLEAN
    <2>1. monitor'.stop \in BOOLEAN
      OBVIOUS
    <2> QED
      BY <2>1, Zenon
  <1>2. monitor'.epoll \in 0 .. MaxStarts
    OBVIOUS
  <1> QED
    BY <1>1, <1>2 DEF LifeKinds, LifeTypeOK

LEMMA KindsOf ==
  ASSUME LifeKinds
  PROVE  /\ m_stop \in BOOLEAN /\ m_sigStop \in BOOLEAN /\ bStop \in BOOLEAN /\ alive \in BOOLEAN
         /\ monitor \in [stop : BOOLEAN, epoll : 0 .. MaxStarts]
         /\ m_serverPorts \in [Ports -> [asked : BOOLEAN, in : 0 .. MaxStarts]]
         /\ waiter \in {"free", "waitMain", "toOwn", "waitOwn", "returned"}
         /\ result \in {"none", "starting", "started", "failed", "stopping", "stopped"}
         /\ caller \in [pc : CallPlaces, todo : Seq(LifeThreads)]
  BY DEF LifeKinds, LifeTypeOK

LEMMA StartKeeps == ASSUME LifeIInv, Start PROVE LifeIInv'
  <1>1. /\ caller.pc = "idle" /\ alive /\ result \in {"none", "failed", "stopped"} /\ monitor.epoll < MaxStarts
        /\ result' = "starting" /\ m_stop' = FALSE /\ caller' = [caller EXCEPT !.pc = IF m_stop THEN "monitor" ELSE "server"]
        /\ UNCHANGED <<monitor, m_serverPorts, thread, m_sigStop, bStop, waiter, alive>>
    BY DEF Start, InCall, Continue
  <1>2. m_stop
    BY <1>1 DEF LifeIInv, CallInv
  <1>3. PICK s \in Seq(LifeThreads) : caller' = [pc |-> "monitor", todo |-> s]
    BY <1>1, <1>2, CallerFacts
  <1>4. LifeKinds'
    <2>1. m_stop' \in BOOLEAN
      BY <1>1, Zenon
    <2>2. caller' \in [pc : CallPlaces, todo : Seq(LifeThreads)]
      BY <1>3 DEF CallPlaces, InStart
    <2> QED
      BY <1>1, <2>1, <2>2, KindsOf, CallerKinds DEF LifeIInv
  <1>5. CallInv'
    BY <1>1, <1>3 DEF CallInv, InStart, InStop
  <1>6. StillInv'
    <2>1. ~Runs("own")
      BY <1>1, CallerFacts DEF StillInv
    <2>2. ~Runs("own")'
      BY <1>1, <2>1, SameThreads, CallerFacts
    <2> QED
      BY <1>3, <2>2 DEF StillInv, InStop
  <1>7. FirstInv'
    BY <1>1, <1>3, SameThreads, CallerFacts DEF FirstInv
  <1>8. WaitedForEnd'
    BY <1>1, SameThreads, CallerFacts DEF WaitedForEnd
  <1> QED
    BY <1>4, <1>5, <1>6, <1>7, <1>8 DEF LifeIInv

LEMMA StartMonitorKeeps == ASSUME LifeIInv, StartMonitor PROVE LifeIInv'
  <1>1. /\ caller.pc = "monitor" /\ alive
        /\ UNCHANGED <<m_stop, m_serverPorts, thread, m_sigStop, bStop, waiter, alive>>
    BY DEF StartMonitor, InCall
  <1>2. PICK b \in BOOLEAN : monitor' = [stop |-> b, epoll |-> monitor.epoll + 1]
    <2>1. CASE monitor' = [stop |-> FALSE, epoll |-> monitor.epoll + 1]
      BY <2>1
    <2>2. CASE monitor' = [monitor EXCEPT !.epoll = @ + 1]
      BY <2>2, KindsOf DEF LifeIInv
    <2> QED
      BY <2>1, <2>2 DEF StartMonitor
  <1>3. PICK s \in Seq(LifeThreads), pc \in {"threads", "stopEngine"} :
          /\ caller' = [pc |-> pc, todo |-> s]
          /\ result' = IF pc = "threads" THEN result ELSE "failed"
    <2>1. PICK s \in Seq(LifeThreads) : caller = [pc |-> caller.pc, todo |-> s]
      BY CallerFacts
    <2>2. CASE Continue("threads") /\ UNCHANGED result
      <3>1. caller' = [pc |-> "threads", todo |-> s]
        BY <2>1, <2>2 DEF Continue
      <3> QED
        BY <2>2, <3>1
    <2>3. CASE Continue("stopEngine") /\ result' = "failed"
      <3>1. caller' = [pc |-> "stopEngine", todo |-> s]
        BY <2>1, <2>3 DEF Continue
      <3> QED
        BY <2>3, <3>1
    <2> QED
      BY <2>2, <2>3 DEF StartMonitor
  <1>4. result = "starting" /\ ~m_stop /\ monitor.epoll < MaxStarts /\ MaxStarts \in Nat
    BY <1>1, LifeAssumption DEF LifeIInv, CallInv, InStart
  <1>5. monitor'.epoll = monitor.epoll + 1 /\ monitor.epoll \in Int /\ 0 <= monitor.epoll
    BY <1>2, CallerFacts
  <1>6. LifeKinds'
    <2>1. monitor' \in [stop : BOOLEAN, epoll : 0 .. MaxStarts]
      <3>1. monitor.epoll + 1 \in 0 .. MaxStarts
        BY <1>4, <1>5
      <3> QED
        BY <1>2, <3>1
    <2>2. caller' \in [pc : CallPlaces, todo : Seq(LifeThreads)]
      BY <1>3 DEF CallPlaces, InStart
    <2>3. result' \in {"starting", "failed"}
      BY <1>3, <1>4
    <2> QED
      BY <1>1, <2>1, <2>2, <2>3, KindsOf, CallerKinds DEF LifeIInv
  <1>7. CallInv'
    <2>1. CASE pc = "threads"
      BY <1>1, <1>3, <1>4, <2>1 DEF CallInv, InStart, InStop
    <2>2. CASE pc = "stopEngine"
      BY <1>1, <1>3, <1>4, <2>2 DEF CallInv, InStart, InStop
    <2> QED
      BY <2>1, <2>2
  <1>8. StillInv'
    <2>1. ~Runs("own")
      BY <1>1, CallerFacts DEF StillInv
    <2>2. ~Runs("own")'
      BY <1>1, <2>1, SameThreads, CallerFacts
    <2> QED
      BY <1>3, <2>2 DEF StillInv, InStop
  <1>9. FirstInv'
    <2>1. FirstInv
      BY CallerFacts
    <2>2. \A p \in Ports : m_serverPorts'[p].in <= monitor'.epoll
      <3>1. \A p \in Ports : m_serverPorts[p].in \in Int
        BY KindsOf DEF LifeIInv
      <3> QED
        BY <1>1, <1>5, <2>1, <3>1 DEF FirstInv
    <2>3. monitor'.epoll # 0
      BY <1>5
    <2>4. ASSUME monitor'.epoll = 1
          PROVE  ~m_sigStop' /\ waiter' = "free" /\ \A u \in LifeThreads : Unborn(u)'
      <3>1. monitor.epoll = 0
        BY <1>5, <2>4
      <3> QED
        BY <1>1, <2>1, <3>1, SameThreads DEF FirstInv
    <2>5. CASE pc = "threads"
      BY <1>3, <2>2, <2>3, <2>4, <2>5, CallerFacts DEF FirstInv, IsRun
    <2>6. CASE pc = "stopEngine"
      BY <1>3, <2>2, <2>3, <2>6 DEF FirstInv
    <2> QED
      BY <2>5, <2>6
  <1>10. WaitedForEnd'
    <2>1. ASSUME monitor'.epoll = 1 PROVE waiter' = "free"
      <3>1. monitor.epoll = 0
        BY <1>5, <2>1
      <3> QED
        BY <1>1, <3>1, CallerFacts DEF FirstInv
    <2> QED
      BY <2>1 DEF WaitedForEnd
  <1> QED
    BY <1>6, <1>7, <1>8, <1>9, <1>10 DEF LifeIInv

LEMMA StartThreadsKeeps == ASSUME LifeIInv, StartThreads PROVE LifeIInv'
  <1>1. /\ caller.pc = "threads" /\ alive
        /\ thread' = [t \in LifeThreads |-> IF t \in Pollers THEN [Created(thread[t]) EXCEPT !.run = TRUE]
                                            ELSE thread[t]]
        /\ UNCHANGED <<m_stop, monitor, m_serverPorts, m_sigStop, bStop, waiter, result, alive>>
    BY DEF StartThreads, InCall
  <1>2. PICK s \in Seq(LifeThreads) : caller' = [pc |-> "listen", todo |-> s]
    BY CallerFacts DEF StartThreads, Continue
  <1>3. /\ thread' \in [LifeThreads -> Threaded]
        /\ \A t \in Pollers : thread'[t].at = "loop" /\ ~thread'[t].stop
        /\ \A t \in LifeThreads \ Pollers : thread'[t] = thread[t]
    <2>1. \A t \in LifeThreads : thread[t] \in Threaded
      BY LifeTyped DEF LifeIInv
    <2>2. ASSUME NEW t \in Pollers
          PROVE  thread'[t] \in Threaded /\ thread'[t].at = "loop" /\ thread'[t].stop = FALSE
      <3>1. t \in LifeThreads /\ thread'[t] = [Created(thread[t]) EXCEPT !.run = TRUE]
        BY <1>1, CallerFacts
      <3> QED
        BY <2>1, <3>1 DEF Created, Threaded, Places
    <2>3. thread' = [t \in LifeThreads |-> thread'[t]] /\ \A t \in LifeThreads \ Pollers : thread'[t] = thread[t]
      BY <1>1
    <2> QED
      BY <2>1, <2>2, <2>3
  <1>4. result = "starting" /\ ~m_stop
    BY <1>1 DEF LifeIInv, CallInv, InStart
  <1>5. /\ {"main", "connect", "own"} \subseteq LifeThreads \ Pollers
        /\ \A t \in {"main", "connect", "own"} : (Runs(t)' <=> Runs(t)) /\ (Unborn(t)' <=> Unborn(t))
        /\ \A t \in Pollers : Runs(t)'
    <2>1. {"main", "connect", "own"} \subseteq LifeThreads \ Pollers
      BY CallerFacts, LifeAssumption
    <2> QED
      BY <1>3, <2>1 DEF Runs, Unborn
  <1>6. LifeKinds'
    <2>1. \A u \in LifeThreads : thread'[u].stop <=> thread'[u].at \in {"none", "broadcast", "leave", "over"}
      BY <1>3, CallerFacts DEF LifeKinds
    <2>2. LifeTypeOK'
      BY <1>1, <1>3, CallerFacts DEF LifeKinds, LifeTypeOK, Threaded, Places
    <2> QED
      BY <1>1, <1>2, <2>1, <2>2, CallerFacts DEF LifeKinds, CallPlaces, InStart
  <1>7. CallInv'
    BY <1>1, <1>2, <1>4 DEF CallInv, InStart, InStop
  <1>8. StillInv'
    <2>1. ~Runs("own")
      BY <1>1, CallerFacts DEF StillInv
    <2>2. ~Runs("own")'
      BY <1>5, <2>1
    <2> QED
      BY <1>2, <2>2 DEF StillInv, InStop
  <1>9. FirstInv'
    <2>1. FirstInv /\ monitor.epoll # 0
      BY <1>1, CallerFacts DEF FirstInv
    <2>2. monitor.epoll = 1 => ~m_sigStop /\ waiter = "free" /\ Unborn("connect") /\ Unborn("main")
      BY <1>1, <1>4, <2>1 DEF FirstInv
    <2> QED
      BY <1>1, <1>2, <1>4, <1>5, <2>1, <2>2 DEF FirstInv, IsRun
  <1>10. WaitedForEnd'
    <2>1. monitor.epoll = 1 => waiter = "free"
      BY <1>1, <1>4, CallerFacts DEF FirstInv
    <2> QED
      BY <1>1, <2>1 DEF WaitedForEnd
  <1> QED
    BY <1>6, <1>7, <1>8, <1>9, <1>10 DEF LifeIInv

LEMMA ConnectOrServerKeeps ==
  ASSUME LifeIInv, ConnectAll("links", "connect") \/ StartServer
  PROVE  LifeIInv'
  <1>1. PICK from \in {"links", "server"}, pc \in {"connect", "own"} :
          /\ caller.pc = from /\ caller' = [caller EXCEPT !.pc = pc] /\ (from = "links" <=> pc = "connect")
          /\ bStop' \in BOOLEAN
          /\ UNCHANGED <<m_stop, monitor, m_serverPorts, thread, m_sigStop, waiter, result, alive>>
    <2>1. CASE ConnectAll("links", "connect")
      BY <2>1, KindsOf DEF LifeIInv, ConnectAll, InCall, Continue
    <2>2. CASE StartServer
      <3>1. bStop' \in BOOLEAN
        BY <2>2, Zenon DEF StartServer
      <3> QED
        BY <2>2, <3>1 DEF StartServer, InCall, Continue
    <2> QED
      BY <2>1, <2>2
  <1>2. PICK s \in Seq(LifeThreads) : caller' = [pc |-> pc, todo |-> s]
    BY <1>1, CallerFacts
  <1>3. result = "starting" /\ ~m_stop
    BY <1>1 DEF LifeIInv, CallInv, InStart
  <1>4. LifeKinds'
    <2>1. caller' \in [pc : CallPlaces, todo : Seq(LifeThreads)]
      BY <1>2 DEF CallPlaces, InStart
    <2> QED
      BY <1>1, <2>1, KindsOf, CallerKinds DEF LifeIInv
  <1>5. CallInv'
    BY <1>1, <1>2, <1>3 DEF CallInv, InStart, InStop
  <1>6. StillInv'
    BY <1>2 DEF StillInv, InStop
  <1>7. FirstInv'
    <2>1. FirstInv /\ monitor.epoll # 0
      BY <1>1, CallerFacts DEF FirstInv
    <2>2. CASE from = "links"
      BY <1>1, <1>2, <1>3, <2>1, <2>2, SameThreads, CallerFacts DEF FirstInv, IsRun
    <2>3. CASE from = "server"
      BY <1>1, <1>2, <1>3, <2>1, <2>3, SameThreads, CallerFacts DEF FirstInv, IsRun
    <2> QED
      BY <2>2, <2>3
  <1>8. WaitedForEnd'
    BY <1>1, SameThreads, CallerFacts DEF WaitedForEnd
  <1> QED
    BY <1>4, <1>5, <1>6, <1>7, <1>8 DEF LifeIInv

\* Two starts of a thread: that of the thread, and that it is noted.
LEMMA RunThreadKeeps ==
  ASSUME LifeIInv, NEW t \in {"connect", "main", "own"}, RunThread(t)
  PROVE  LifeIInv'
  <1>1. /\ caller.pc = t /\ alive /\ UNCHANGED <<m_stop, monitor, m_serverPorts, m_sigStop, bStop, waiter, alive>>
        /\ result' = IF caller'.pc = "idle" THEN "started" ELSE result
    BY DEF RunThread, InCall
  <1>2. result = "starting" /\ ~m_stop /\ t \in LifeThreads
    BY <1>1, CallerFacts DEF CallInv, InStart
  <1>3. FirstInv /\ monitor.epoll # 0
    BY <1>1, CallerFacts DEF FirstInv
  <1>4. monitor.epoll = 1 => waiter = "free"
    BY <1>1, <1>2, <1>3 DEF FirstInv
  <1>5. WaitedForEnd'
    BY <1>1, <1>4 DEF WaitedForEnd
  <1>6. CASE thread[t].run
    <2>1. caller' = [caller EXCEPT !.pc = After(t)] /\ UNCHANGED thread
      BY <1>6 DEF RunThread, Continue
    <2>2. PICK s \in Seq(LifeThreads), pc \in {"main", "server", "idle"} :
            /\ caller' = [pc |-> pc, todo |-> s]
            /\ (t = "connect" <=> pc = "main") /\ (t = "main" <=> pc = "server") /\ (t = "own" <=> pc = "idle")
      BY <2>1, CallerFacts DEF After
    <2>3. result' = IF pc = "idle" THEN "started" ELSE "starting"
      BY <1>1, <1>2, <2>2
    <2>4. LifeKinds'
      <3>1. caller' \in [pc : CallPlaces, todo : Seq(LifeThreads)]
        BY <2>2 DEF CallPlaces, InStart
      <3>2. result' \in {"started", "starting"}
        BY <2>3
      <3> QED
        BY <1>1, <2>1, <3>1, <3>2, KindsOf, CallerKinds DEF LifeIInv
    <2>5. CallInv'
      BY <1>1, <1>2, <2>2, <2>3 DEF CallInv, InStart, InStop
    <2>6. StillInv'
      BY <2>2, <2>3 DEF StillInv, InStop
    <2>7. FirstInv'
      <3>1. ~Unborn(t)
        BY <1>6 DEF Unborn
      <3>2. CASE monitor.epoll = 1
        <4>1. t = "own"
          BY <1>1, <1>2, <1>3, <3>1, <3>2 DEF FirstInv
        <4>2. pc = "idle" /\ result' = "started"
          BY <2>2, <2>3, <4>1
        <4> QED
          BY <1>1, <1>2, <1>3, <2>1, <2>2, <3>2, <4>1, <4>2, SameThreads, CallerFacts DEF FirstInv, IsRun
      <3>3. CASE monitor.epoll # 1
        BY <1>1, <1>3, <3>3 DEF FirstInv
      <3> QED
        BY <3>2, <3>3
    <2> QED
      BY <1>5, <2>4, <2>5, <2>6, <2>7 DEF LifeIInv
  <1>7. CASE ~thread[t].run
    <2>1. /\ thread' = [thread EXCEPT ![t] = Created(@)]
          /\ caller' = [pc |-> "ran", todo |-> <<t>>]
      BY <1>7 DEF RunThread
    <2>2. result' = result
      BY <1>1, <2>1
    <2>3. /\ thread' \in [LifeThreads -> Threaded] /\ \A u \in LifeThreads \ {t} : thread'[u] = thread[u]
          /\ thread'[t].at = "loop" /\ thread'[t].stop = FALSE
      BY <1>2, <2>1, LifeTyped DEF LifeIInv, Created, Threaded, Places
    <2>4. Runs(t)' /\ \A u \in LifeThreads \ {t} : (Runs(u)' <=> Runs(u)) /\ (Unborn(u)' <=> Unborn(u))
      BY <2>3 DEF Runs, Unborn
    <2>5. LifeKinds'
      <3>1. LifeTypeOK'
        BY <1>1, <2>2, <2>3, CallerFacts DEF LifeKinds, LifeTypeOK, Threaded, Places
      <3>2. \A u \in LifeThreads : thread'[u].stop <=> thread'[u].at \in {"none", "broadcast", "leave", "over"}
        BY <2>3, CallerFacts DEF LifeKinds
      <3>3. caller' \in [pc : CallPlaces, todo : Seq(LifeThreads)]
        BY <1>2, <2>1 DEF CallPlaces, InStart
      <3> QED
        BY <1>1, <3>1, <3>2, <3>3, CallerFacts DEF LifeKinds
    <2>6. CallInv'
      BY <1>1, <1>2, <2>1, <2>2 DEF CallInv, InStart, InStop
    <2>7. StillInv'
      BY <2>1 DEF StillInv, InStop
    <2>8. FirstInv'
      <3>1. \A u \in {"connect", "main", "own"} : IsRun(u)' <=> u = t
        BY <2>1 DEF IsRun
      <3>2. CASE monitor.epoll = 1
        <4>1. /\ ~m_sigStop /\ waiter = "free" /\ \A u \in Pollers : Runs(u)'
              /\ \A p \in Ports \ Taken : m_serverPorts[p].asked => m_serverPorts[p].in = 1
          <5>1. /\ ~m_sigStop /\ waiter = "free" /\ \A u \in Pollers : Runs(u)
                /\ \A p \in Ports \ Taken : m_serverPorts[p].asked => m_serverPorts[p].in = 1
            BY <1>1, <1>2, <1>3, <3>2 DEF FirstInv
          <5>2. t \notin Pollers /\ Pollers \subseteq LifeThreads
            BY LifeAssumption, CallerFacts
          <5> QED
            BY <2>4, <5>1, <5>2
        <4>2. CASE t = "connect"
          <5>1. Unborn("main")' /\ Runs("connect")'
            BY <1>1, <1>2, <1>3, <2>4, <3>2, <4>2, CallerFacts DEF FirstInv
          <5> QED
            BY <1>1, <1>2, <1>3, <2>1, <2>2, <3>1, <3>2, <4>1, <4>2, <5>1 DEF FirstInv
        <4>3. CASE t = "main"
          <5>1. Runs("main")' /\ Runs("connect")'
            BY <1>1, <1>2, <1>3, <2>4, <3>2, <4>3, CallerFacts DEF FirstInv
          <5> QED
            BY <1>1, <1>2, <1>3, <2>1, <2>2, <3>1, <3>2, <4>1, <4>3, <5>1 DEF FirstInv
        <4>4. CASE t = "own"
          <5>1. Runs("main")' /\ Runs("connect")'
            BY <1>1, <1>2, <1>3, <2>4, <3>2, <4>4, CallerFacts DEF FirstInv
          <5> QED
            BY <1>1, <1>2, <1>3, <2>1, <2>2, <3>1, <3>2, <4>1, <4>4, <5>1 DEF FirstInv
        <4> QED
          BY <4>2, <4>3, <4>4
      <3>3. CASE monitor.epoll # 1
        BY <1>1, <1>3, <3>3 DEF FirstInv
      <3> QED
        BY <3>2, <3>3
    <2> QED
      BY <1>5, <2>5, <2>6, <2>7, <2>8 DEF LifeIInv
  <1> QED
    BY <1>6, <1>7

LEMMA RanKeeps == ASSUME LifeIInv, Ran PROVE LifeIInv'
  <1>1. PICK t \in {"connect", "main", "own"} : caller.todo = <<t>>
    BY DEF Ran, InCall, LifeIInv, CallInv
  <1>2. t = Head(caller.todo)
    BY <1>1
  <1>3. /\ caller.pc = "ran" /\ alive /\ thread' = [thread EXCEPT ![t].run = TRUE]
        /\ caller' = [pc |-> After(t), todo |-> <<>>]
        /\ result' = IF t = "own" THEN "started" ELSE result
        /\ UNCHANGED <<m_stop, monitor, m_serverPorts, m_sigStop, bStop, waiter, alive>>
    BY <1>2 DEF Ran, InCall
  <1>4. PICK pc \in {"main", "server", "idle"} :
          /\ caller' = [pc |-> pc, todo |-> <<>>]
          /\ (t = "connect" <=> pc = "main") /\ (t = "main" <=> pc = "server") /\ (t = "own" <=> pc = "idle")
    BY <1>3 DEF After
  <1>5. result = "starting" /\ ~m_stop /\ t \in LifeThreads
    BY <1>3, CallerFacts DEF CallInv, InStart
  <1>6. result' = IF pc = "idle" THEN "started" ELSE "starting"
    BY <1>3, <1>4, <1>5
  <1>7. /\ thread' \in [LifeThreads -> Threaded] /\ \A u \in LifeThreads \ {t} : thread'[u] = thread[u]
        /\ thread'[t].at = thread[t].at /\ thread'[t].stop = thread[t].stop
    BY <1>3, <1>5, LifeTyped DEF LifeIInv, Threaded
  <1>8. (\A u \in LifeThreads : Runs(u)' <=> Runs(u)) /\ \A u \in LifeThreads \ {t} : Unborn(u)' <=> Unborn(u)
    BY <1>7 DEF Runs, Unborn
  <1>9. LifeKinds'
    <2>1. LifeTypeOK'
      <3>1. result' \in {"starting", "started"}
        BY <1>6
      <3> QED
        BY <1>3, <1>7, <3>1, CallerFacts DEF LifeKinds, LifeTypeOK, Threaded, Places
    <2>2. \A u \in LifeThreads : thread'[u].stop <=> thread'[u].at \in {"none", "broadcast", "leave", "over"}
      BY <1>7, CallerFacts DEF LifeKinds
    <2>3. caller' \in [pc : CallPlaces, todo : Seq(LifeThreads)]
      BY <1>4 DEF CallPlaces, InStart
    <2> QED
      BY <1>3, <2>1, <2>2, <2>3, CallerFacts DEF LifeKinds
  <1>10. CallInv'
    BY <1>3, <1>4, <1>5, <1>6 DEF CallInv, InStart, InStop
  <1>11. StillInv'
    BY <1>4, <1>6 DEF StillInv, InStop
  <1>12. FirstInv'
    <2>1. FirstInv /\ monitor.epoll # 0
      BY <1>3, CallerFacts DEF FirstInv
    <2>2. IsRun(t) /\ \A u : ~IsRun(u)'
      BY <1>1, <1>3, <1>4 DEF IsRun
    <2>3. CASE monitor.epoll = 1
      <3>1. /\ ~m_sigStop /\ waiter = "free" /\ (\A u \in Pollers : Runs(u)') /\ Runs("connect")'
            /\ \A p \in Ports \ Taken : m_serverPorts[p].asked => m_serverPorts[p].in = 1
        BY <1>3, <1>5, <1>8, <2>1, <2>3, CallerFacts DEF FirstInv
      <3>2. t = "connect" => Unborn("main")'
        BY <1>3, <1>5, <1>8, <2>1, <2>2, <2>3, CallerFacts DEF FirstInv
      <3>3. t # "connect" => Runs("main")'
        BY <1>3, <1>5, <1>8, <2>1, <2>2, <2>3, CallerFacts DEF FirstInv
      <3>4. pc \notin {"threads", "listen", "links", "connect", "own", "ran"}
        BY <1>4
      <3> QED
        BY <1>3, <1>4, <2>1, <2>2, <2>3, <3>1, <3>2, <3>3, <3>4 DEF FirstInv
    <2>4. CASE monitor.epoll # 1
      BY <1>3, <2>1, <2>4 DEF FirstInv
    <2> QED
      BY <2>3, <2>4
  <1>13. WaitedForEnd'
    BY <1>3, <1>8, CallerFacts DEF WaitedForEnd
  <1> QED
    BY <1>9, <1>10, <1>11, <1>12, <1>13 DEF LifeIInv

LEMMA StopKeeps == ASSUME LifeIInv, Stop PROVE LifeIInv'
  <1>1. /\ caller.pc = "idle" /\ result = "started" /\ result' = "stopping" /\ bStop' = TRUE
        /\ caller' = [pc |-> "stopThread", todo |-> <<"own">>]
        /\ UNCHANGED <<m_stop, monitor, m_serverPorts, thread, m_sigStop, waiter, alive>>
    BY DEF Stop, InCall
  <1>2. LifeKinds'
    <2>1. bStop' \in BOOLEAN
      BY <1>1, Zenon
    <2>2. caller' \in [pc : CallPlaces, todo : Seq(LifeThreads)]
      BY <1>1 DEF CallPlaces, InStop, LifeThreads
    <2> QED
      BY <1>1, <2>1, <2>2, KindsOf, CallerKinds DEF LifeIInv
  <1>3. CallInv'
    BY <1>1 DEF CallInv, InStart, InStop
  <1>4. StillInv'
    BY <1>1 DEF StillInv, InStop
  <1>5. FirstInv'
    BY <1>1, CallerFacts DEF FirstInv
  <1>6. WaitedForEnd'
    BY <1>1, SameThreads, CallerFacts DEF WaitedForEnd
  <1> QED
    BY <1>2, <1>3, <1>4, <1>5, <1>6 DEF LifeIInv

LEMMA StopEngineKeeps == ASSUME LifeIInv, StopEngine PROVE LifeIInv'
  <1>1. /\ caller.pc = "stopEngine" /\ m_stop' = TRUE
        /\ UNCHANGED <<monitor, m_serverPorts, thread, m_sigStop, bStop, waiter, result, alive>>
    BY DEF StopEngine, InCall
  <1>2. PICK s \in Seq(LifeThreads) : caller' = [pc |-> "stopMonitor", todo |-> s]
    BY CallerFacts DEF StopEngine, Continue
  <1>3. result \in {"failed", "stopping"}
    BY <1>1, CallerFacts DEF CallInv
  <1>4. LifeKinds'
    <2>1. m_stop' \in BOOLEAN
      BY <1>1, Zenon
    <2>2. caller' \in [pc : CallPlaces, todo : Seq(LifeThreads)]
      BY <1>2 DEF CallPlaces
    <2> QED
      BY <1>1, <2>1, <2>2, KindsOf, CallerKinds DEF LifeIInv
  <1>5. CallInv'
    BY <1>1, <1>2, <1>3 DEF CallInv, InStart, InStop
  <1>6. StillInv'
    <2>1. alive => ~Runs("own")'
      BY <1>1, SameThreads, CallerFacts DEF StillInv
    <2> QED
      BY <1>1, <1>2, <2>1 DEF StillInv, InStop
  <1>7. FirstInv'
    BY <1>1, <1>2, <1>3, CallerFacts DEF FirstInv
  <1>8. WaitedForEnd'
    BY <1>1, SameThreads, CallerFacts DEF WaitedForEnd
  <1> QED
    BY <1>4, <1>5, <1>6, <1>7, <1>8 DEF LifeIInv

\* The sequence of a finite set has every member of it.
LEMMA SetToSeqHasAll ==
  ASSUME NEW S, IsFiniteSet(S)
  PROVE  SetToSeq(S) \in Seq(S) /\ \A x \in S : \E i \in DOMAIN SetToSeq(S) : SetToSeq(S)[i] = x
  <1> DEFINE n == Cardinality(S)
             f == SetToSeq(S)
  <1>1. n \in Nat /\ ExistsBijection(1 .. n, S)
    BY FS_CardinalityType
  <1>2. \E g \in [1 .. n -> S] : IsInjective(g)
    BY <1>1 DEF ExistsBijection, Bijection, Injection
  <1>3. f \in [1 .. n -> S] /\ IsInjective(f)
    BY <1>2 DEF SetToSeq
  <1>4. Cardinality(1 .. n) = n
    BY <1>1, FS_Interval
  <1> HIDE DEF f
  <1>5. f \in Injection(1 .. n, S)
    BY <1>3 DEF Injection
  <1>6. f \in Surjection(1 .. n, S)
    BY <1>4, <1>5, FS_Injection
  <1>7. \A x \in S : \E i \in 1 .. n : f[i] = x
    BY <1>6 DEF Surjection
  <1>8. f \in Seq(S) /\ DOMAIN f = 1 .. n
    BY <1>1, <1>3
  <1> QED
    BY <1>7, <1>8 DEF f

LEMMA EngineStops ==
  LET s == <<"main">> \o SetToSeq(Pollers)
  IN s \in Seq(InEngine) \ {<<>>} /\ \A t \in InEngine : \E i \in DOMAIN s : s[i] = t
  <1> DEFINE q == SetToSeq(Pollers)
             s == <<"main">> \o q
  <1>1. q \in Seq(Pollers) /\ \A t \in Pollers : \E i \in DOMAIN q : q[i] = t
    BY SetToSeqHasAll, LifeAssumption
  <1> HIDE DEF q
  <1>2. q \in Seq(InEngine) /\ <<"main">> \in Seq(InEngine)
    BY <1>1 DEF InEngine
  <1>3. /\ s \in Seq(InEngine) /\ Len(s) = 1 + Len(q) /\ s[1] = "main"
        /\ \A i \in 1 .. Len(q) : s[i + 1] = q[i]
    BY <1>2
  <1>4. DOMAIN s = 1 .. Len(s) /\ DOMAIN q = 1 .. Len(q) /\ Len(q) \in Nat
    BY <1>2, <1>3
  <1> HIDE DEF s
  <1>5. s # <<>>
    BY <1>3, <1>4
  <1>6. ASSUME NEW t \in InEngine PROVE \E i \in DOMAIN s : s[i] = t
    <2>1. CASE t = "main"
      BY <1>3, <1>4, <2>1
    <2>2. CASE t \in Pollers
      <3>1. PICK i \in 1 .. Len(q) : q[i] = t
        BY <1>1, <1>4, <2>2
      <3> QED
        BY <1>3, <1>4, <3>1
    <2> QED
      BY <2>1, <2>2 DEF InEngine
  <1> QED
    BY <1>3, <1>5, <1>6 DEF s, q

LEMMA StopMonitorKeeps == ASSUME LifeIInv, StopMonitor PROVE LifeIInv'
  <1> DEFINE s == <<"main">> \o SetToSeq(Pollers)
  <1>1. /\ caller.pc = "stopMonitor" /\ m_sigStop' = TRUE /\ caller' = [pc |-> "stopThread", todo |-> s]
        /\ monitor' = [monitor EXCEPT !.stop = TRUE]
        /\ UNCHANGED <<m_stop, m_serverPorts, thread, bStop, waiter, result, alive>>
    BY DEF StopMonitor, InCall
  <1>2. s \in Seq(InEngine) \ {<<>>} /\ \A t \in InEngine : \E i \in DOMAIN s : s[i] = t
    BY EngineStops
  <1> HIDE DEF s
  <1>3. result \in {"failed", "stopping"} /\ m_stop
    BY <1>1, CallerFacts DEF CallInv
  <1>4. monitor' \in [stop : BOOLEAN, epoll : 0 .. MaxStarts] /\ monitor'.epoll = monitor.epoll
    BY <1>1, KindsOf DEF LifeIInv
  <1>5. LifeKinds'
    <2>1. m_sigStop' \in BOOLEAN
      BY <1>1, Zenon
    <2>2. caller' \in [pc : CallPlaces, todo : Seq(LifeThreads)]
      BY <1>1, <1>2, CallerFacts DEF CallPlaces, InStop
    <2> QED
      BY <1>1, <1>4, <2>1, <2>2, KindsOf, CallerKinds DEF LifeIInv
  <1>6. CallInv'
    BY <1>1, <1>2, <1>3 DEF CallInv, InStart, InStop
  <1>7. StillInv'
    <2>1. alive => ~Runs("own")'
      BY <1>1, SameThreads, CallerFacts DEF StillInv
    <2> QED
      BY <1>1, <1>2, <2>1 DEF StillInv
  <1>8. FirstInv'
    BY <1>1, <1>3, <1>4, CallerFacts DEF FirstInv
  <1>9. WaitedForEnd'
    BY <1>1, <1>4, SameThreads, CallerFacts DEF WaitedForEnd
  <1> QED
    BY <1>5, <1>6, <1>7, <1>8, <1>9 DEF LifeIInv

\* The ports change, and the rest of what the parts speak of stays.
LEMMA ListenKeeps == ASSUME LifeIInv, NEW p \in Ports, Listen(p) PROVE LifeIInv'
  <1>1. /\ m_serverPorts' = [m_serverPorts EXCEPT ![p].asked = TRUE,
                                                  ![p].in = IF m_stop THEN 0 ELSE ListenPort(p)]
        /\ UNCHANGED <<m_stop, monitor, thread, m_sigStop, bStop, caller, waiter, result, alive>>
    BY DEF Listen
  <1> DEFINE in == IF m_stop THEN 0 ELSE ListenPort(p)
  <1>2. in \in 0 .. MaxStarts /\ in <= monitor.epoll
    BY LifeAssumption, LifeTyped, CallerFacts DEF LifeIInv, ListenPort
  <1>3. ~m_stop /\ p \notin Taken => in = monitor.epoll
    BY DEF ListenPort
  <1> HIDE DEF in
  <1>4. /\ m_serverPorts' \in [Ports -> [asked : BOOLEAN, in : 0 .. MaxStarts]]
        /\ \A q \in Ports \ {p} : m_serverPorts'[q] = m_serverPorts[q]
        /\ m_serverPorts'[p].in = in
    <2>1. m_serverPorts' = [m_serverPorts EXCEPT ![p].asked = TRUE, ![p].in = in]
      BY <1>1 DEF in
    <2> QED
      BY <1>2, <2>1, KindsOf DEF LifeIInv
  <1>5. LifeKinds'
    BY <1>1, <1>4, KindsOf, CallerKinds DEF LifeIInv
  <1>6. CallInv'
    BY <1>1, CallerFacts DEF CallInv
  <1>7. StillInv'
    BY <1>1, SameThreads, CallerFacts DEF StillInv
  <1>8. FirstInv'
    <2>1. FirstInv
      BY CallerFacts
    <2>2. \A q \in Ports : m_serverPorts'[q].in <= monitor.epoll
      BY <1>2, <1>4, <2>1 DEF FirstInv
    <2>3. ASSUME monitor.epoll = 1, result \in {"starting", "started"},
                 \A q \in Ports \ Taken : m_serverPorts[q].asked => m_serverPorts[q].in = 1
          PROVE  \A q \in Ports \ Taken : m_serverPorts'[q].asked => m_serverPorts'[q].in = 1
      <3>1. ~m_stop
        BY <2>3, Working, CallerFacts
      <3> QED
        BY <1>3, <1>4, <2>3, <3>1
    <2>4. \A u \in {"connect", "main", "own"} : IsRun(u)' <=> IsRun(u)
      BY <1>1 DEF IsRun
    <2> QED
      BY <1>1, <2>1, <2>2, <2>3, <2>4, SameThreads, CallerFacts DEF FirstInv
  <1>9. WaitedForEnd'
    BY <1>1, SameThreads, CallerFacts DEF WaitedForEnd
  <1> QED
    BY <1>5, <1>6, <1>7, <1>8, <1>9 DEF LifeIInv

LEMMA ListenAllKeeps == ASSUME LifeIInv, ListenAll PROVE LifeIInv'
  <1>1. /\ caller.pc = "listen"
        /\ m_serverPorts' = [p \in Ports |->
             IF m_serverPorts[p].asked /\ m_serverPorts[p].in = 0
             THEN [m_serverPorts[p] EXCEPT !.in = ListenPort(p)] ELSE m_serverPorts[p]]
        /\ UNCHANGED <<m_stop, monitor, thread, m_sigStop, bStop, waiter, alive>>
    BY DEF ListenAll, InCall
  <1>2. PICK pc \in {"stopEngine", "links"} :
          Continue(pc) /\ result' = IF pc = "links" THEN result ELSE "failed"
    BY DEF ListenAll
  <1>3. PICK s \in Seq(LifeThreads) : caller' = [pc |-> pc, todo |-> s]
    BY <1>2, CallerFacts DEF Continue
  <1>4. result = "starting" /\ ~m_stop
    BY <1>1, CallerFacts DEF CallInv, InStart
  <1>5. \A p \in Ports : ListenPort(p) \in 0 .. MaxStarts /\ ListenPort(p) <= monitor.epoll
    BY LifeAssumption, LifeTyped, CallerFacts DEF LifeIInv, ListenPort
  <1>6. /\ m_serverPorts' \in [Ports -> [asked : BOOLEAN, in : 0 .. MaxStarts]]
        /\ \A p \in Ports : /\ m_serverPorts'[p].asked = m_serverPorts[p].asked
                            /\ m_serverPorts'[p].in = IF m_serverPorts[p].asked /\ m_serverPorts[p].in = 0
                                                      THEN ListenPort(p) ELSE m_serverPorts[p].in
    BY <1>1, <1>5, KindsOf DEF LifeIInv
  <1>7. LifeKinds'
    <2>1. caller' \in [pc : CallPlaces, todo : Seq(LifeThreads)]
      BY <1>3 DEF CallPlaces, InStart
    <2>2. result' \in {"starting", "failed"}
      BY <1>2, <1>4
    <2> QED
      BY <1>1, <1>6, <2>1, <2>2, KindsOf, CallerKinds DEF LifeIInv
  <1>8. CallInv'
    <2>1. CASE pc = "links"
      BY <1>1, <1>2, <1>3, <1>4, <2>1 DEF CallInv, InStart, InStop
    <2>2. CASE pc = "stopEngine"
      BY <1>1, <1>2, <1>3, <1>4, <2>2 DEF CallInv, InStart, InStop
    <2> QED
      BY <2>1, <2>2
  <1>9. StillInv'
    <2>1. alive => ~Runs("own")'
      BY <1>1, SameThreads, CallerFacts DEF StillInv
    <2> QED
      BY <1>1, <1>3, <2>1 DEF StillInv, InStop
  <1>10. FirstInv'
    <2>1. FirstInv /\ monitor.epoll # 0
      BY <1>1, CallerFacts DEF FirstInv
    <2>2. \A p \in Ports : m_serverPorts'[p].in <= monitor.epoll
      BY <1>5, <1>6, <2>1 DEF FirstInv
    <2>3. CASE pc = "stopEngine"
      BY <1>1, <1>2, <1>3, <2>1, <2>2, <2>3 DEF FirstInv
    <2>4. CASE pc = "links"
      <3>1. ASSUME monitor.epoll = 1, NEW p \in Ports \ Taken, m_serverPorts'[p].asked
            PROVE  m_serverPorts'[p].in = 1
        <4>1. m_serverPorts[p].in <= 1 /\ m_serverPorts[p].in \in 0 .. MaxStarts /\ MaxStarts \in Nat
          BY <2>1, <3>1, KindsOf, LifeAssumption DEF FirstInv, LifeIInv
        <4>2. ListenPort(p) = 1
          BY <3>1 DEF ListenPort
        <4> QED
          BY <1>6, <3>1, <4>1, <4>2
      <3>2. \A u : ~IsRun(u)'
        BY <1>3 DEF IsRun
      <3> QED
        BY <1>1, <1>2, <1>3, <1>4, <2>1, <2>2, <2>4, <3>1, <3>2, SameThreads, CallerFacts DEF FirstInv
    <2> QED
      BY <2>3, <2>4
  <1>11. WaitedForEnd'
    BY <1>1, SameThreads, CallerFacts DEF WaitedForEnd
  <1> QED
    BY <1>7, <1>8, <1>9, <1>10, <1>11 DEF LifeIInv

LEMMA WaitStopKeeps == ASSUME LifeIInv, WaitStop PROVE LifeIInv'
  <1>1. /\ \/ waiter = "free" /\ result = "started" /\ waiter' = "waitMain"
           \/ waiter = "toOwn" /\ waiter' = "waitOwn"
        /\ UNCHANGED <<m_stop, monitor, m_serverPorts, thread, m_sigStop, bStop, caller, result, alive>>
    BY DEF WaitStop
  <1>2. LifeKinds'
    BY <1>1, KindsOf, CallerKinds DEF LifeIInv
  <1>3. CallInv'
    BY <1>1, CallerFacts DEF CallInv
  <1>4. StillInv'
    BY <1>1, SameThreads, CallerFacts DEF StillInv
  <1>5. FirstInv'
    <2>1. \A u \in {"connect", "main", "own"} : IsRun(u)' <=> IsRun(u)
      BY <1>1 DEF IsRun
    <2>2. FirstInv
      BY CallerFacts
    <2>3. monitor.epoll # 0
      BY <1>1, <2>2 DEF FirstInv
    <2>4. monitor.epoll = 1 /\ caller.pc # "monitor" => result # "starting"
      BY <1>1, <2>2 DEF FirstInv
    <2> QED
      BY <1>1, <2>1, <2>2, <2>3, <2>4, SameThreads, CallerFacts DEF FirstInv
  <1>6. WaitedForEnd'
    BY <1>1, SameThreads, CallerFacts DEF WaitedForEnd
  <1> QED
    BY <1>2, <1>3, <1>4, <1>5, <1>6 DEF LifeIInv

LEMMA LifeStepKeeps == LifeIInv /\ [LifeNext]_lifeVars => LifeIInv'
  <1> SUFFICES ASSUME LifeIInv, [LifeNext]_lifeVars PROVE LifeIInv'
    OBVIOUS
  <1>1. CASE UNCHANGED lifeVars
    <2>1. UNCHANGED <<m_stop, monitor, m_serverPorts, thread, m_sigStop, bStop, caller, waiter, result, alive>>
      BY <1>1 DEF lifeVars
    <2>2. LifeKinds' /\ CallInv'
      BY <2>1, KindsOf, CallerKinds, CallerFacts DEF CallInv
    <2>3. StillInv' /\ WaitedForEnd'
      BY <2>1, SameThreads, CallerFacts DEF StillInv, WaitedForEnd
    <2>4. FirstInv'
      <3>1. \A u \in {"connect", "main", "own"} : IsRun(u)' <=> IsRun(u)
        BY <2>1 DEF IsRun
      <3> QED
        BY <2>1, <3>1, SameThreads, CallerFacts DEF FirstInv
    <2> QED
      BY <2>2, <2>3, <2>4 DEF LifeIInv
  <1>2. CASE Start \/ Stop \/ WaitStop
    BY <1>2, StartKeeps, StopKeeps, WaitStopKeeps
  <1>3. CASE CallerStep
    <2>1. CASE ListenAll \/ StartMonitor \/ StartThreads \/ ConnectAll("links", "connect") \/ StartServer
      BY <2>1, ListenAllKeeps, StartMonitorKeeps, StartThreadsKeeps, ConnectOrServerKeeps
    <2>2. CASE (\E t \in {"connect", "main", "own"} : RunThread(t)) \/ Ran
      BY <2>2, RunThreadKeeps, RanKeeps
    <2>3. CASE StopEngine \/ StopMonitor \/ StopThread \/ TimedWait \/ TimeOut
      BY <2>3, StopEngineKeeps, StopMonitorKeeps, StopThreadStepKeeps, TimedWaitKeeps
    <2> QED
      BY <1>3, <2>1, <2>2, <2>3 DEF CallerStep
  <1>4. CASE \E p \in Ports : Listen(p)
    BY <1>4, ListenKeeps
  <1>5. ASSUME NEW t \in LifeThreads, ThreadStep(t) \/ Event(t) PROVE LifeIInv'
    <2>1. CASE Broadcast(t)
      BY <2>1, BroadcastThreadKeeps
    <2>2. CASE ~Broadcast(t)
      <3>1. Ended(t) \/ Left(t) \/ Loop(t) \/ WaitEvent(t) \/ Event(t)
        BY <1>5, <2>2 DEF ThreadStep
      <3> QED
        BY <3>1, ThreadStepKeeps
    <2> QED
      BY <2>1, <2>2
  <1>6. CASE Main \/ ConnectThread \/ OwnMain
    BY <1>6, CallerFacts, ThreadStepKeeps
  <1> QED
    BY <1>1, <1>2, <1>3, <1>4, <1>5, <1>6 DEF LifeNext

LEMMA LifeImplies == LifeIInv => LifeInv
  <1> SUFFICES ASSUME LifeIInv PROVE LifeInv
    OBVIOUS
  <1>1. LifeTypeOK /\ WaitedForEnd
    BY CallerFacts DEF LifeKinds
  <1>2. Serves
    <2> SUFFICES ASSUME result = "started", monitor.epoll = 1, caller.pc = "idle"
                 PROVE  /\ \A p \in Ports \ Taken : m_serverPorts[p].asked => m_serverPorts[p].in = monitor.epoll
                        /\ \A t \in LifeThreads \ {"own"} : Runs(t)
      BY DEF Serves
    <2> QED
      BY CallerFacts DEF FirstInv, LifeThreads
  <1>3. StoppedIsStill
    <2>1. \A t \in {"main", "own"} \union Pollers : t = "own" \/ t \in InEngine
      BY DEF InEngine
    <2> QED
      BY <2>1, CallerFacts DEF StillInv, StoppedIsStill
  <1> QED
    BY <1>1, <1>2, <1>3 DEF LifeInv

(* At every moment of the life of a server: it serves from the end of its  *)
(* first Start until Stop, a Stop or a failed Start leaves no thread of    *)
(* the engine at work, and who waits for its end is not told too early.    *)
THEOREM LifeInvHolds == LifeSpec => []LifeInv
  <1>1. LifeInit => LifeIInv
    BY LifeInitKeeps
  <1>2. LifeIInv /\ [LifeNext]_lifeVars => LifeIInv'
    BY LifeStepKeeps
  <1>3. LifeIInv => LifeInv
    BY LifeImplies
  <1> QED
    BY <1>1, <1>2, <1>3, PTL DEF LifeSpec

-----------------------------------------------------------------------------
(* What holds of a server, its connections' data and its timers at every   *)
(* moment (Lifecycle, HostData and Timer side by side).                    *)
THEOREM ServerInvHolds == MCSpec => []ServerInv
  <1>1. MCInit => LifeInit /\ HostDataInit /\ TimerInit
    BY DEF MCInit
  <1>2. [MCNext]_<<what, lifeVars, hostDataVars, timerVars, fieldVars>> =>
          [LifeNext]_lifeVars /\ [HostDataNext]_hostDataVars /\ [TimerNext]_timerVars
    BY DEF MCNext
  <1>3. MCSpec => LifeSpec /\ HostDataSpec /\ TimerSpec
    BY <1>1, <1>2, PTL DEF MCSpec, LifeSpec, HostDataSpec, TimerSpec
  <1>4. LifeInv /\ HostDataTypeOK /\ TimerInv => ServerInv
    BY DEF ServerInv
  <1> QED
    BY <1>3, <1>4, LifeInvHolds, HostTypeCorrect, TimerInvHolds, PTL
=============================================================================
