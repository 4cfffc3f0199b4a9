------------------------------- MODULE DbPool -------------------------------
(***************************************************************************)
(* The pool of database connections (DbNVManager.cpp) and the way the DAOs *)
(* use it: a worker takes a connection, runs its statements and gives it   *)
(* back.  WisUserDao::handleUserQuit holds one connection while it logs    *)
(* the user out over a second; WisDeviceDao::regist keeps its connection   *)
(* when the insert succeeds.  Each call of the pool is one section under   *)
(* m_pConnectLock.                                                         *)
(***************************************************************************)
EXTENDS Naturals, FiniteSets, SequencesExt

CONSTANTS
  Threads,         \* the worker threads
  Handles,         \* addresses of CNVDataAccess objects, by increasing key
  MaxRegistrations \* bound: devices registered, each costs a connection

ASSUME ThreadsAssumption == IsFiniteSet(Threads)
ASSUME HandlesAssumption == Handles \subseteq Nat
ASSUME BoundAssumption == MaxRegistrations \in Nat

VARIABLES
  m_mapConnection,  \* the connections of the pool
  reference_count,  \* connection -> its reference_count_
  pRes,             \* the connections that hold a result set
  held,             \* thread -> the connections it took, latest last
  dao,              \* thread -> the kind of DAO call it is in
  registered        \* connections that were never given back (history)

vars == <<m_mapConnection, reference_count, pRes, held, dao, registered>>

Init ==
  /\ m_mapConnection = {}
  /\ reference_count = [h \in Handles |-> 0]
  /\ pRes = {}
  /\ held = [t \in Threads |-> <<>>]
  /\ dao = [t \in Threads |-> "none"]
  /\ registered = {}

IsLock(h) == reference_count[h] > 0

(* Mutant: a locked connection is handed out, too.                         *)
AnyConnection == m_mapConnection

Unlocked == {h \in m_mapConnection : ~IsLock(h)}
Lock(h) == reference_count' = [reference_count EXCEPT ![h] = @ + 1]

(* Mutant: a connection just created is not locked.                        *)
GetUnlocked(t) ==
  /\ \E h \in Handles :
       /\ \/ /\ h \in Unlocked
             /\ \A g \in Unlocked : h <= g
             /\ Lock(h)
          \/ /\ Unlocked = {}
             /\ h \notin m_mapConnection
             /\ UNCHANGED reference_count
       /\ m_mapConnection' = m_mapConnection \cup {h}
       /\ held' = [held EXCEPT ![t] = Append(@, h)]
  /\ UNCHANGED <<pRes, registered>>

(* Mutant: a connection is created although one is free.                   *)
GetNew(t) ==
  /\ \E h \in Handles \ m_mapConnection :
       /\ Lock(h)
       /\ m_mapConnection' = m_mapConnection \cup {h}
       /\ held' = [held EXCEPT ![t] = Append(@, h)]
  /\ UNCHANGED <<pRes, registered>>

(* GetNVDataAccess: the first unlocked connection in the order of the map, *)
(* or else a new one.  A new object gets an address no other one has; that *)
(* its connect failed only shows in its statements.                        *)
GetNVDataAccess(t) ==
  /\ \E h \in Handles :
       /\ \/ /\ h \in Unlocked
             /\ \A g \in Unlocked : h <= g
          \/ /\ Unlocked = {}
             /\ h \notin m_mapConnection
       /\ Lock(h)
       /\ m_mapConnection' = m_mapConnection \cup {h}
       /\ held' = [held EXCEPT ![t] = Append(@, h)]
  /\ UNCHANGED <<pRes, registered>>

Current(t) == Last(held[t])

(* Mutant: the result set stays.                                           *)
ReleaseOnly(t) ==
  /\ Current(t) \in m_mapConnection
  /\ reference_count' = [reference_count EXCEPT ![Current(t)] = @ - 1]
  /\ held' = [held EXCEPT ![t] = Front(@)]
  /\ UNCHANGED <<m_mapConnection, pRes, registered>>

(* ReleaseNVDataAccess: if the map knows the connection, unlock it and     *)
(* free its result set.                                                    *)
ReleaseNVDataAccess(t) ==
  /\ Current(t) \in m_mapConnection
  /\ reference_count' = [reference_count EXCEPT ![Current(t)] = @ - 1]
  /\ pRes' = pRes \ {Current(t)}
  /\ held' = [held EXCEPT ![t] = Front(@)]
  /\ UNCHANGED <<m_mapConnection, registered>>

-----------------------------------------------------------------------------
(* The calls of the DAOs.  "plain" is any call that takes one connection   *)
(* and gives it back on every path.                                        *)
Begin(t, kind) ==
  /\ dao[t] = "none"
  /\ dao' = [dao EXCEPT ![t] = kind]
  /\ GetNVDataAccess(t)

(* ExecuteNoThrow leaves its result set in the connection, until it is     *)
(* fetched to the end or freed.                                            *)
ExecuteNoThrow(t) ==
  /\ held[t] # <<>>
  /\ dao[t] = "plain"
  /\ pRes' = pRes \cup {Current(t)}
  /\ UNCHANGED <<m_mapConnection, reference_count, held, dao, registered>>

FreeResult(t) ==
  /\ held[t] # <<>>
  /\ Current(t) \in pRes
  /\ pRes' = pRes \ {Current(t)}
  /\ UNCHANGED <<m_mapConnection, reference_count, held, dao, registered>>

(* The call ends with its only connection given back.                      *)
Finish(t) ==
  /\ Len(held[t]) = 1
  /\ ReleaseNVDataAccess(t)
  /\ dao' = [dao EXCEPT ![t] = "none"]

(* handleUserQuit: WisUserDao::logout takes and returns a connection of    *)
(* its own inside.                                                         *)
NestedLogout(t) ==
  /\ dao[t] = "quit"
  /\ Len(held[t]) = 1
  /\ GetNVDataAccess(t)
  /\ dao' = [dao EXCEPT ![t] = "logout"]

EndNestedLogout(t) ==
  /\ dao[t] = "logout"
  /\ Len(held[t]) = 2
  /\ ReleaseNVDataAccess(t)
  /\ dao' = [dao EXCEPT ![t] = "quit"]

(* WisDeviceDao::regist returns without giving the connection back when    *)
(* its insert succeeds, and gives it back (Finish) when it fails.          *)
RegisterDevice(t) ==
  /\ dao[t] = "regist"
  /\ Cardinality(registered) < MaxRegistrations
  /\ registered' = registered \cup {Current(t)}
  /\ held' = [held EXCEPT ![t] = Front(@)]
  /\ dao' = [dao EXCEPT ![t] = "none"]
  /\ UNCHANGED <<m_mapConnection, reference_count, pRes>>

Thread(t) ==
  \/ \E kind \in {"plain", "quit", "regist"} : Begin(t, kind)
  \/ ExecuteNoThrow(t) \/ FreeResult(t)
  \/ dao[t] # "logout" /\ Finish(t)
  \/ NestedLogout(t) \/ EndNestedLogout(t)
  \/ RegisterDevice(t)

Next == \E t \in Threads : Thread(t)

Spec == Init /\ [][Next]_vars
-----------------------------------------------------------------------------
(* The type of the state.                                                  *)
TypeOK ==
  /\ m_mapConnection \subseteq Handles
  /\ reference_count \in [Handles -> Nat]
  /\ pRes \subseteq Handles
  /\ held \in [Threads -> Seq(Handles)]
  /\ dao \in [Threads -> {"none", "plain", "quit", "logout", "regist"}]
  /\ registered \subseteq Handles

Uses(t) == Range(held[t])
Taken == {h \in Handles : h \in registered \/ \E t \in Threads : h \in Uses(t)}

(* A connection is used by one call at a time: no two threads hold the     *)
(* same one, no thread holds one twice, and one that was never given back  *)
(* is held by nobody.                                                      *)
OneUser ==
  /\ \A s, t \in Threads : s # t => Uses(s) \cap Uses(t) = {}
  /\ \A t \in Threads : IsInjective(held[t])
  /\ \A t \in Threads : Uses(t) \cap registered = {}

(* The reference counts say so: the locked connections are exactly those   *)
(* somebody holds or kept, each counted once, so UINT32 never wraps and    *)
(* the only connections lost to the pool are those of new devices.         *)
CountsHolders ==
  \A h \in Handles : reference_count[h] = IF h \in Taken THEN 1 ELSE 0

(* A connection is handed out without the result set of an earlier call.   *)
HandedOutClean == pRes \cap Unlocked = {}

(* The pool is no larger than it was ever needed at once: a connection is  *)
(* created only while every other one is in use or lost, so there are at   *)
(* most two per thread and one per registered device.                      *)
PoolBounded ==
  Cardinality(m_mapConnection) <= 2 * Cardinality(Threads) + Cardinality(registered)
=============================================================================
