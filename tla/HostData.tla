------------------------------ MODULE HostData ------------------------------
(***************************************************************************)
(* The data a server keeps with a connection of the multi-threaded engine  *)
(* (HostData.cpp, SetData and GetData of NetConnect.cpp) and the copies of *)
(* NetHost through which threads reach the connection (NetHost.cpp).       *)
(*                                                                         *)
(* With autoFree the data lives as long as the connection and is reached   *)
(* through hosts only.  Without, every GetData and the creator have to     *)
(* Release it, the connection counts as one more user, and the data keeps  *)
(* a copy of the host until SetData(NULL).  One thread calls SetData, for  *)
(* one object, as NetHost.h asks; anything else may happen at any time.    *)
(***************************************************************************)
EXTENDS Integers, FiniteSets

CONSTANTS
  Hosts,   \* threads that are given a NetHost
  Setter,  \* the one that calls SetData
  NoThread

ASSUME HostDataAssumption == Setter \in Hosts /\ NoThread \notin Hosts /\ IsFiniteSet(Hosts)

VARIABLES
  mode,     \* how the server uses its data: "auto" (autoFree) or "own"
  step,     \* what each thread does next
  hosts,    \* copies of the host each thread has
  engine,   \* the engine has the connection
  useCount, \* m_useCount of the connection
  linked,   \* m_pHostData is the data; else NULL
  autoFreeData, \* m_autoFreeData of the connection
  keeper,   \* who has m_mutexData
  refCount, \* m_refCount of the data
  autoFree, \* m_autoFree of the data
  hostRef,  \* m_hostRef is a copy of the host; else empty
  proxy,    \* m_pHost is the host of the connection; else it is m_hostRef
  setting,  \* what SetData was called with: [data, auto]
  owned,    \* the creator's reference: "none" yet, "held", "gone"
  stray,    \* GetData gave out data in "own" mode that it did not count (history)
  freed     \* what was deleted

hostDataVars == <<mode, step, hosts, engine, useCount, linked, autoFreeData, keeper, refCount,
                  autoFree, hostRef, proxy, setting, owned, stray, freed>>
theConnect == <<useCount, linked, autoFreeData, keeper, engine>>
theData    == <<refCount, autoFree, hostRef, proxy>>
history    == <<mode, owned, stray>>

HostDataInit ==
  /\ mode \in {"auto", "own"}
  /\ step = [t \in Hosts |-> "free"]
  /\ hosts = [t \in Hosts |-> 1]
  /\ engine = TRUE /\ useCount = 1 + Cardinality(Hosts)
  /\ linked = FALSE /\ autoFreeData = TRUE /\ keeper = NoThread
  /\ refCount = 0 /\ autoFree = FALSE /\ hostRef = FALSE /\ proxy = FALSE
  /\ setting = [data |-> FALSE, auto |-> TRUE]
  /\ owned = "none" /\ stray = FALSE
  /\ freed = {}

(* The objects a thread reads or writes in its next step.                  *)
InData == {"using", "release", "setRelease", "setCount", "setMode"}
InConnect == {"get", "getPlain", "getLock", "getLocked", "setAuto", "setOld", "setLock", "setNull", "setLink"}

Touches(t) ==
  (IF step[t] \in InData \/ (step[t] \in {"getLocked", "setOld"} /\ linked) THEN {"data"} ELSE {})
    \union (IF step[t] \in InConnect THEN {"connect"} ELSE {})

Does(t, s) == step[t] = s /\ Touches(t) \intersect freed = {}
ToStep(t, s) == step' = [step EXCEPT ![t] = s]

-----------------------------------------------------------------------------
(* Counts.  Whoever brings the count of the connection to 0 deletes it     *)
(* and, with it, releases the data it is linked to; who brings that of the *)
(* data below 0 deletes the data and, with it, its copy of the host.       *)
DropConnect(n, gone) ==
  /\ useCount' = useCount - n
  /\ freed' = freed \union gone \union
       (IF useCount = n THEN {"connect"} \union (IF linked /\ refCount = 0 THEN {"data"} ELSE {}) ELSE {})
  /\ refCount' = refCount - (IF useCount = n /\ linked THEN 1 ELSE 0) - (IF gone = {} THEN 0 ELSE 1)

ReleaseData ==
  IF refCount = 0
  THEN /\ hostRef' = FALSE
       /\ IF hostRef THEN DropConnect(1, {"data"})
          ELSE refCount' = -1 /\ freed' = freed \union {"data"} /\ UNCHANGED useCount
  ELSE refCount' = refCount - 1 /\ UNCHANGED <<hostRef, freed, useCount>>

CopyHost(t) == hosts' = [hosts EXCEPT ![t] = @ + 1] /\ useCount' = useCount + 1

\* A thread drops a host; one that uses data without owning it keeps its host.
DropHost(t) ==
  /\ Does(t, "free") \/ (Does(t, "using") /\ mode = "own")
  /\ hosts[t] > 0
  /\ hosts' = [hosts EXCEPT ![t] = @ - 1]
  /\ DropConnect(1, {})
  /\ UNCHANGED <<step, engine, linked, autoFreeData, keeper, autoFree, hostRef, proxy, setting, history>>

\* The engine has closed the connection and lets it go.
EngineDrops ==
  /\ engine /\ engine' = FALSE
  /\ DropConnect(1, {})
  /\ UNCHANGED <<step, hosts, linked, autoFreeData, keeper, autoFree, hostRef, proxy, setting, history>>

-----------------------------------------------------------------------------
(* GetData, the use of what it returns, and Release.                       *)
GetData(t) ==
  /\ Does(t, "free") /\ hosts[t] > 0
  /\ ToStep(t, "get")
  /\ UNCHANGED <<hosts, theConnect, theData, setting, history, freed>>

CheckAuto(t) ==
  /\ Does(t, "get")
  /\ ToStep(t, IF autoFreeData THEN "getPlain" ELSE "getLock")
  /\ UNCHANGED <<hosts, theConnect, theData, setting, history, freed>>

GetPlain(t) ==
  /\ Does(t, "getPlain")
  /\ ToStep(t, IF linked THEN "using" ELSE "free")
  /\ stray' = (stray \/ (linked /\ mode = "own"))
  /\ UNCHANGED <<hosts, theConnect, theData, setting, mode, owned, freed>>

GetLock(t) ==
  /\ Does(t, "getLock") /\ keeper = NoThread
  /\ keeper' = t
  /\ ToStep(t, "getLocked")
  /\ UNCHANGED <<hosts, useCount, linked, autoFreeData, engine, theData, setting, history, freed>>

\* Mutant of GetLocked: GetData does not count what it returns.
GetLockedUncounted(t) ==
  /\ Does(t, "getLocked")
  /\ keeper' = NoThread
  /\ ToStep(t, IF linked THEN "using" ELSE "free")
  /\ UNCHANGED <<hosts, useCount, linked, autoFreeData, engine, theData, setting, mode, owned, stray, freed>>

GetLocked(t) ==
  LET counts == linked /\ ~ autoFree
      finds  == linked /\ (autoFree \/ refCount # -1)
  IN /\ Does(t, "getLocked")
     /\ keeper' = NoThread
     /\ refCount' = IF counts THEN refCount + 1 ELSE refCount
     /\ ToStep(t, IF finds THEN "using" ELSE "free")
     /\ UNCHANGED <<hosts, useCount, linked, autoFreeData, engine, autoFree, hostRef, proxy,
                    setting, mode, owned, stray, freed>>

GetHost(t) ==
  /\ Does(t, "using") /\ hosts[t] < 2
  /\ proxy \/ hostRef
  /\ CopyHost(t)
  /\ UNCHANGED <<step, linked, autoFreeData, keeper, engine, theData, setting, history, freed>>

EndUse(t) ==
  /\ Does(t, "using")
  /\ ToStep(t, IF mode = "own" THEN "release" ELSE "free")
  /\ UNCHANGED <<hosts, theConnect, theData, setting, history, freed>>

Release(t) ==
  /\ Does(t, "release")
  /\ ReleaseData
  /\ ToStep(t, "free")
  /\ UNCHANGED <<hosts, linked, autoFreeData, keeper, engine, autoFree, proxy, setting, mode, owned, stray>>

\* The creator of the data gives up its own reference.
ReleaseOwn ==
  /\ Does(Setter, "free") /\ owned = "held" /\ mode = "own"
  /\ owned' = "gone"
  /\ ToStep(Setter, "release")
  /\ UNCHANGED <<hosts, theConnect, theData, setting, mode, stray, freed>>

-----------------------------------------------------------------------------
(* SetData of new data, or of NULL.                                        *)
SetData(data, auto) ==
  /\ Does(Setter, "free") /\ hosts[Setter] > 0
  /\ IF data THEN owned = "none" /\ owned' = (IF mode = "own" THEN "held" ELSE "gone") /\ auto = (mode = "auto")
     ELSE owned # "none" /\ UNCHANGED owned
  /\ setting' = [data |-> data, auto |-> auto]
  /\ ToStep(Setter, "setAuto")
  /\ UNCHANGED <<hosts, theConnect, theData, mode, stray, freed>>

SetAuto ==
  /\ Does(Setter, "setAuto")
  /\ autoFreeData' = setting.auto
  /\ ToStep(Setter, "setOld")
  /\ UNCHANGED <<hosts, useCount, linked, keeper, engine, theData, setting, history, freed>>

\* Data of a connection that frees it stays; other data is told by SetHost.
SetOld ==
  /\ Does(Setter, "setOld")
  /\ IF ~ linked
     THEN /\ ToStep(Setter, IF setting.data THEN "setCount" ELSE "free")
          /\ UNCHANGED <<useCount, refCount, hostRef, freed>>
     ELSE IF autoFree THEN ToStep(Setter, "free") /\ UNCHANGED <<useCount, refCount, hostRef, freed>>
     ELSE /\ hostRef' = FALSE
          /\ IF hostRef THEN DropConnect(1, {}) ELSE UNCHANGED <<useCount, refCount, freed>>
          /\ ToStep(Setter, "setLock")
  /\ UNCHANGED <<hosts, linked, autoFreeData, keeper, engine, autoFree, proxy, setting, history>>

SetLock ==
  /\ Does(Setter, "setLock") /\ keeper = NoThread
  /\ keeper' = Setter
  /\ ToStep(Setter, "setRelease")
  /\ UNCHANGED <<hosts, useCount, linked, autoFreeData, engine, theData, setting, history, freed>>

SetRelease ==
  /\ Does(Setter, "setRelease")
  /\ ReleaseData
  /\ ToStep(Setter, "setNull")
  /\ UNCHANGED <<hosts, linked, autoFreeData, keeper, engine, autoFree, proxy, setting, history>>

SetNull ==
  /\ Does(Setter, "setNull")
  /\ linked' = FALSE /\ keeper' = NoThread
  /\ ToStep(Setter, IF setting.data THEN "setCount" ELSE "free")
  /\ UNCHANGED <<hosts, useCount, autoFreeData, engine, theData, setting, history, freed>>

SetCount ==
  /\ Does(Setter, "setCount")
  /\ refCount' = refCount + 1
  /\ autoFree' = setting.auto
  /\ ToStep(Setter, IF refCount = -1 THEN "free" ELSE "setMode")
  /\ UNCHANGED <<hosts, theConnect, hostRef, proxy, setting, history, freed>>

SetMode ==
  /\ Does(Setter, "setMode")
  /\ IF setting.auto THEN refCount' = refCount - 1 /\ proxy' = TRUE /\ UNCHANGED <<useCount, hostRef>>
     ELSE hostRef' = TRUE /\ useCount' = useCount + 1 /\ UNCHANGED <<refCount, proxy>>
  /\ ToStep(Setter, "setLink")
  /\ UNCHANGED <<hosts, linked, autoFreeData, keeper, engine, autoFree, setting, history, freed>>

SetLink ==
  /\ Does(Setter, "setLink")
  /\ linked' = TRUE
  /\ ToStep(Setter, "free")
  /\ UNCHANGED <<hosts, useCount, autoFreeData, keeper, engine, theData, setting, history, freed>>

-----------------------------------------------------------------------------
HostDataNext ==
  \/ EngineDrops
  \/ \E t \in Hosts :
       \/ DropHost(t)
       \/ GetData(t) \/ CheckAuto(t) \/ GetPlain(t) \/ GetLock(t) \/ GetLocked(t)
       \/ GetHost(t) \/ EndUse(t) \/ Release(t)
  \/ ReleaseOwn
  \/ \E data, auto \in BOOLEAN : SetData(data, auto)
  \/ SetAuto \/ SetOld \/ SetLock \/ SetRelease \/ SetNull \/ SetCount \/ SetMode \/ SetLink

HostDataSpec == HostDataInit /\ [][HostDataNext]_hostDataVars

-----------------------------------------------------------------------------
HostDataTypeOK ==
  /\ mode \in {"auto", "own"} /\ owned \in {"none", "held", "gone"}
  /\ step \in [Hosts -> InData \union InConnect \union {"free"}]
  /\ hosts \in [Hosts -> 0 .. 2] /\ useCount \in Nat /\ refCount \in Int
  /\ {engine, linked, autoFreeData, autoFree, hostRef, proxy, stray} \subseteq BOOLEAN
  /\ keeper \in Hosts \union {NoThread}
  /\ setting \in [data : BOOLEAN, auto : BOOLEAN]
  /\ freed \subseteq {"connect", "data"}

(* Nobody uses data or a connection that was deleted, and nobody releases  *)
(* data once more than it was counted (NetHost.h: but for several SetData  *)
(* at once, any use by several threads is safe; HostData.cpp:50 asserts    *)
(* the second).                                                            *)
ThreadSafe ==
  \A t \in Hosts : /\ Touches(t) \intersect freed = {}
                   /\ hosts[t] > 0 => "connect" \notin freed
                   /\ step[t] \in {"release", "setRelease"} => refCount >= 0

Quiet ==
  /\ ~ engine /\ (linked => autoFree) /\ owned = "gone"
  /\ \A t \in Hosts : step[t] = "free" /\ hosts[t] = 0

(* Unless GetData has read m_autoFreeData while SetData changed it, and so *)
(* has given out data without counting it, all uses are safe, and in the   *)
(* end, after SetData(NULL) and every Release, connection and data are     *)
(* deleted (NetConnect::SetData, GetData, HostData::Release).              *)
SafeUnlessStray ==
  ~ stray => /\ ThreadSafe
             /\ Quiet => freed = {"connect", "data"}
=============================================================================
