---------------------------- MODULE DbPoolProofs ----------------------------
(***************************************************************************)
(* Theorems about DbPool, for any number of threads and registrations: a   *)
(* pooled connection has one user at a time, and the reference counts say  *)
(* who; the pool never has more connections than were in use at once.      *)
(***************************************************************************)
EXTENDS DbPool, TLAPS, FiniteSetTheorems

(* How many connections each kind of call holds.                           *)
Holding(kind) == IF kind = "none" THEN 0 ELSE IF kind = "logout" THEN 2 ELSE 1
HoldsAsItShould == \A t \in Threads : Len(held[t]) = Holding(dao[t])

(* A connection in use, or lost, is in the pool.                            *)
TakenInPool == Taken \subseteq m_mapConnection
CleanWhenFree == \A h \in pRes : h \in m_mapConnection /\ IsLock(h)

PoolInv ==
  /\ TypeOK
  /\ HoldsAsItShould
  /\ OneUser
  /\ CountsHolders
  /\ TakenInPool
  /\ CleanWhenFree
-----------------------------------------------------------------------------
LEMMA PoolInit == Init => PoolInv
  BY DEF Init, PoolInv, TypeOK, HoldsAsItShould, Holding, OneUser, CountsHolders, TakenInPool, Taken,
         CleanWhenFree, Uses, Range, IsInjective

(* The one-element changes of a sequence of connections.                   *)
LEMMA AppendUses ==
  ASSUME NEW s \in Seq(Handles), NEW h \in Handles, h \notin Range(s), IsInjective(s)
  PROVE  /\ Append(s, h) \in Seq(Handles)
         /\ Len(Append(s, h)) = Len(s) + 1
         /\ Range(Append(s, h)) = Range(s) \cup {h}
         /\ IsInjective(Append(s, h))
<1>1. \A i \in 1 .. Len(s) : Append(s, h)[i] = s[i] /\ s[i] \in Range(s)
  BY DEF Range
<1>2. Append(s, h) \in Seq(Handles) /\ Len(Append(s, h)) = Len(s) + 1
      /\ DOMAIN Append(s, h) = 1 .. Len(s) + 1 /\ Append(s, h)[Len(s) + 1] = h
      /\ DOMAIN s = 1 .. Len(s) /\ Len(s) \in Nat
  OBVIOUS
<1>3. Range(Append(s, h)) = Range(s) \cup {h}
  <2>1. Range(Append(s, h)) \subseteq Range(s) \cup {h}
    BY <1>1, <1>2 DEF Range
  <2>2. Range(s) \cup {h} \subseteq Range(Append(s, h))
    BY <1>1, <1>2 DEF Range
  <2> QED
    BY <2>1, <2>2
<1>4. IsInjective(Append(s, h))
  BY <1>1, <1>2 DEF IsInjective
<1> QED
  BY <1>2, <1>3, <1>4

LEMMA FrontUses ==
  ASSUME NEW s \in Seq(Handles), s # <<>>, IsInjective(s)
  PROVE  /\ Last(s) \in Range(s) /\ Last(s) \in Handles
         /\ Front(s) \in Seq(Handles)
         /\ Len(Front(s)) = Len(s) - 1
         /\ Range(Front(s)) = Range(s) \ {Last(s)}
         /\ IsInjective(Front(s))
<1>1. Len(s) \in Nat \ {0} /\ DOMAIN s = 1 .. Len(s) /\ Last(s) = s[Len(s)]
  BY DEF Last
<1>2. /\ Front(s) \in Seq(Handles) /\ Len(Front(s)) = Len(s) - 1
      /\ DOMAIN Front(s) = 1 .. Len(s) - 1
      /\ \A i \in 1 .. Len(s) - 1 : Front(s)[i] = s[i]
  BY <1>1 DEF Front
<1>3. \A i \in 1 .. Len(s) - 1 : s[i] # s[Len(s)]
  BY <1>1 DEF IsInjective
<1>4. Last(s) \in Range(s) /\ Last(s) \in Handles
  BY <1>1 DEF Range
<1>5. Range(Front(s)) \subseteq Range(s) \ {Last(s)}
  BY <1>1, <1>2, <1>3 DEF Range
<1>6. Range(s) \ {Last(s)} \subseteq Range(Front(s))
  BY <1>1, <1>2 DEF Range
<1>7. IsInjective(Front(s))
  BY <1>1, <1>2 DEF IsInjective
<1> QED
  BY <1>2, <1>4, <1>5, <1>6, <1>7

(* What a thread holds are connections, each of them taken.                *)
LEMMA UsesTaken ==
  ASSUME TypeOK, NEW t \in Threads
  PROVE  Uses(t) \subseteq Handles /\ Uses(t) \subseteq Taken
<1>1. held[t] \in Seq(Handles)
  BY DEF TypeOK
<1>2. Uses(t) \subseteq Handles
  BY <1>1 DEF Uses, Range
<1> QED
  BY <1>2 DEF Taken

(* A thread takes a connection nobody has.                                 *)
LEMMA GetStep ==
  ASSUME PoolInv, NEW t \in Threads, GetNVDataAccess(t)
  PROVE  /\ m_mapConnection' \subseteq Handles
         /\ reference_count' \in [Handles -> Nat]
         /\ held' \in [Threads -> Seq(Handles)]
         /\ \A u \in Threads \ {t} : held'[u] = held[u]
         /\ Len(held'[t]) = Len(held[t]) + 1
         /\ OneUser' /\ CountsHolders' /\ TakenInPool' /\ CleanWhenFree'
<1>0. TypeOK /\ OneUser /\ CountsHolders /\ TakenInPool /\ CleanWhenFree
  BY DEF PoolInv
<1>1. PICK h \in Handles :
        /\ h \in Unlocked \/ h \notin m_mapConnection
        /\ reference_count' = [reference_count EXCEPT ![h] = @ + 1]
        /\ m_mapConnection' = m_mapConnection \cup {h}
        /\ held' = [held EXCEPT ![t] = Append(@, h)]
        /\ pRes' = pRes /\ registered' = registered
  BY DEF GetNVDataAccess, Lock
<1>2. h \notin Taken /\ reference_count[h] = 0
  BY <1>0, <1>1 DEF Unlocked, IsLock, CountsHolders, TakenInPool
<1>3. h \notin registered /\ \A u \in Threads : h \notin Uses(u)
  BY <1>2 DEF Taken
<1>4. held[t] \in Seq(Handles) /\ IsInjective(held[t]) /\ held'[t] = Append(held[t], h)
  BY <1>0, <1>1 DEF TypeOK, OneUser
<1>5. /\ held'[t] \in Seq(Handles) /\ Len(held'[t]) = Len(held[t]) + 1
      /\ Uses(t)' = Uses(t) \cup {h} /\ IsInjective(held'[t])
  BY <1>3, <1>4, AppendUses DEF Uses
<1>6. \A u \in Threads \ {t} : held'[u] = held[u] /\ Uses(u)' = Uses(u)
  BY <1>0, <1>1 DEF TypeOK, Uses
<1>7. Taken' = Taken \cup {h}
  BY <1>1, <1>5, <1>6 DEF Taken
<1>8. OneUser'
  <2>1. \A r, s \in Threads : r # s => Uses(r)' \cap Uses(s)' = {}
    BY <1>0, <1>3, <1>5, <1>6 DEF OneUser
  <2>2. \A s \in Threads : IsInjective(held'[s])
    BY <1>0, <1>5, <1>6 DEF OneUser
  <2>3. \A s \in Threads : Uses(s)' \cap registered' = {}
    BY <1>0, <1>1, <1>3, <1>5, <1>6 DEF OneUser
  <2> QED
    BY <2>1, <2>2, <2>3 DEF OneUser
<1>9. reference_count' \in [Handles -> Nat] /\ CountsHolders'
  BY <1>0, <1>1, <1>2, <1>7 DEF TypeOK, CountsHolders
<1>10. m_mapConnection' \subseteq Handles /\ held' \in [Threads -> Seq(Handles)]
  BY <1>0, <1>1, <1>4, <1>5 DEF TypeOK
<1>11. TakenInPool'
  BY <1>0, <1>1, <1>7 DEF TakenInPool
<1>12. CleanWhenFree'
  BY <1>0, <1>1 DEF TypeOK, CleanWhenFree, IsLock
<1> QED
  BY <1>5, <1>6, <1>8, <1>9, <1>10, <1>11, <1>12

(* A thread stops using its latest connection.                             *)
LEMMA DropStep ==
  ASSUME PoolInv, NEW t \in Threads, held[t] # <<>>,
         held' = [held EXCEPT ![t] = Front(@)]
  PROVE  /\ Current(t) \in Uses(t) /\ Current(t) \in Taken /\ Current(t) \in Handles
         /\ held' \in [Threads -> Seq(Handles)]
         /\ \A u \in Threads \ {t} : held'[u] = held[u] /\ Uses(u)' = Uses(u)
         /\ Len(held'[t]) = Len(held[t]) - 1
         /\ Uses(t)' = Uses(t) \ {Current(t)} /\ IsInjective(held'[t])
<1>1. TypeOK /\ held[t] \in Seq(Handles) /\ IsInjective(held[t]) /\ held'[t] = Front(held[t])
  BY DEF PoolInv, TypeOK, OneUser
<1>2. /\ Current(t) \in Uses(t) /\ Current(t) \in Handles
      /\ held'[t] \in Seq(Handles) /\ Len(held'[t]) = Len(held[t]) - 1
      /\ Uses(t)' = Uses(t) \ {Current(t)} /\ IsInjective(held'[t])
  BY <1>1, FrontUses DEF Uses, Current
<1>3. held' \in [Threads -> Seq(Handles)]
  BY <1>1, <1>2 DEF TypeOK
<1>4. \A u \in Threads \ {t} : held'[u] = held[u] /\ Uses(u)' = Uses(u)
  BY <1>1 DEF TypeOK, Uses
<1> QED
  BY <1>1, <1>2, <1>3, <1>4, UsesTaken

(* A thread gives its latest connection back.                              *)
LEMMA ReleaseStep ==
  ASSUME PoolInv, NEW t \in Threads, held[t] # <<>>, ReleaseNVDataAccess(t)
  PROVE  /\ reference_count' \in [Handles -> Nat]
         /\ held' \in [Threads -> Seq(Handles)]
         /\ \A u \in Threads \ {t} : held'[u] = held[u]
         /\ Len(held'[t]) = Len(held[t]) - 1
         /\ OneUser' /\ CountsHolders' /\ TakenInPool' /\ CleanWhenFree'
<1> DEFINE h == Current(t)
<1>0. TypeOK /\ OneUser /\ CountsHolders /\ TakenInPool /\ CleanWhenFree
  BY DEF PoolInv
<1>1. /\ reference_count' = [reference_count EXCEPT ![h] = @ - 1]
      /\ pRes' = pRes \ {h}
      /\ held' = [held EXCEPT ![t] = Front(@)]
      /\ m_mapConnection' = m_mapConnection /\ registered' = registered
  BY DEF ReleaseNVDataAccess
<1>2. /\ h \in Uses(t) /\ h \in Taken /\ h \in Handles
      /\ held' \in [Threads -> Seq(Handles)]
      /\ Len(held'[t]) = Len(held[t]) - 1
      /\ Uses(t)' = Uses(t) \ {h} /\ IsInjective(held'[t])
  BY <1>1, DropStep
<1>3. \A u \in Threads \ {t} : held'[u] = held[u] /\ Uses(u)' = Uses(u)
  BY <1>1, DropStep
<1> HIDE DEF h
<1>4. h \notin registered /\ \A u \in Threads \ {t} : h \notin Uses(u)
  BY <1>0, <1>2 DEF OneUser
<1>5. Taken' = Taken \ {h}
  BY <1>1, <1>2, <1>3, <1>4 DEF Taken
<1>6. OneUser'
  <2>1. \A r, s \in Threads : r # s => Uses(r)' \cap Uses(s)' = {}
    BY <1>0, <1>2, <1>3 DEF OneUser
  <2>2. \A s \in Threads : IsInjective(held'[s])
    BY <1>0, <1>2, <1>3 DEF OneUser
  <2>3. \A s \in Threads : Uses(s)' \cap registered' = {}
    BY <1>0, <1>1, <1>2, <1>3 DEF OneUser
  <2> QED
    BY <2>1, <2>2, <2>3 DEF OneUser
<1>7. reference_count[h] = 1
  BY <1>0, <1>2 DEF CountsHolders
<1>8. reference_count' \in [Handles -> Nat] /\ CountsHolders'
  BY <1>0, <1>1, <1>2, <1>5, <1>7 DEF TypeOK, CountsHolders
<1>9. TakenInPool'
  BY <1>0, <1>1, <1>5 DEF TakenInPool
<1>10. CleanWhenFree'
  BY <1>0, <1>1, <1>2 DEF TypeOK, CleanWhenFree, IsLock
<1> QED
  BY <1>2, <1>3, <1>6, <1>8, <1>9, <1>10

(* Result sets come and go without a change to who has what.               *)
LEMMA Unaffected ==
  ASSUME PoolInv, UNCHANGED <<m_mapConnection, reference_count, held, dao, registered>>
  PROVE  HoldsAsItShould' /\ OneUser' /\ CountsHolders' /\ TakenInPool'
<1>1. Taken' = Taken /\ \A t \in Threads : Uses(t)' = Uses(t)
  BY DEF Taken, Uses
<1>2. HoldsAsItShould'
  BY DEF PoolInv, HoldsAsItShould
<1>3. OneUser'
  BY <1>1 DEF PoolInv, OneUser
<1>4. CountsHolders' /\ TakenInPool'
  BY <1>1 DEF PoolInv, CountsHolders, TakenInPool
<1> QED
  BY <1>2, <1>3, <1>4

(* One thread moves to another kind of call, with as many connections.     *)
LEMMA HoldsStep ==
  ASSUME TypeOK, HoldsAsItShould, NEW t \in Threads, NEW kind,
         dao' = [dao EXCEPT ![t] = kind],
         \A u \in Threads \ {t} : held'[u] = held[u],
         Len(held'[t]) = Holding(kind)
  PROVE  HoldsAsItShould'
<1>1. dao'[t] = kind /\ \A u \in Threads \ {t} : dao'[u] = dao[u]
  BY DEF TypeOK
<1>2. ASSUME NEW u \in Threads \ {t}
      PROVE  Len(held'[u]) = Holding(dao'[u])
  BY <1>1 DEF HoldsAsItShould
<1> QED
  BY <1>1, <1>2 DEF HoldsAsItShould

(* A thread that holds one or two connections has a latest one.            *)
LEMMA SomeHeld ==
  ASSUME TypeOK, NEW t \in Threads, Len(held[t]) \in {1, 2}
  PROVE  held[t] # <<>>
<1>1. Len(<<>>) = 0
  OBVIOUS
<1> QED
  BY <1>1

LEMMA PoolStep == PoolInv /\ [Next]_vars => PoolInv'
<1> SUFFICES ASSUME PoolInv, [Next]_vars PROVE PoolInv'
  OBVIOUS
<1>0. TypeOK /\ HoldsAsItShould
  BY DEF PoolInv
<1>1. ASSUME NEW t \in Threads, NEW kind \in {"plain", "quit", "regist"}, Begin(t, kind)
      PROVE  PoolInv'
  <2>1. GetNVDataAccess(t) /\ dao[t] = "none" /\ dao' = [dao EXCEPT ![t] = kind]
        /\ pRes' = pRes /\ registered' = registered
    BY <1>1 DEF Begin, GetNVDataAccess
  <2>2. (\A u \in Threads \ {t} : held'[u] = held[u]) /\ Len(held'[t]) = Len(held[t]) + 1
    BY <2>1, GetStep
  <2>3. Len(held'[t]) = Holding(kind)
    BY <1>0, <2>1, <2>2 DEF HoldsAsItShould, Holding
  <2>4. HoldsAsItShould'
    BY <1>0, <2>1, <2>2, <2>3, HoldsStep
  <2> QED
    BY <1>0, <2>1, <2>4, GetStep DEF PoolInv, TypeOK
<1>2. ASSUME NEW t \in Threads, NestedLogout(t) PROVE PoolInv'
  <2>1. GetNVDataAccess(t) /\ dao[t] = "quit" /\ dao' = [dao EXCEPT ![t] = "logout"]
        /\ pRes' = pRes /\ registered' = registered
    BY <1>2 DEF NestedLogout, GetNVDataAccess
  <2>2. (\A u \in Threads \ {t} : held'[u] = held[u]) /\ Len(held'[t]) = Len(held[t]) + 1
    BY <2>1, GetStep
  <2>3. Len(held'[t]) = Holding("logout")
    BY <1>0, <2>1, <2>2 DEF HoldsAsItShould, Holding
  <2>4. HoldsAsItShould'
    BY <1>0, <2>1, <2>2, <2>3, HoldsStep
  <2> QED
    BY <1>0, <2>1, <2>4, GetStep DEF PoolInv, TypeOK
<1>3. ASSUME NEW t \in Threads, dao[t] # "logout", Finish(t) PROVE PoolInv'
  <2>1. /\ ReleaseNVDataAccess(t) /\ dao' = [dao EXCEPT ![t] = "none"]
        /\ Len(held[t]) = 1 /\ held[t] # <<>>
        /\ pRes' \subseteq pRes /\ registered' = registered
        /\ m_mapConnection' = m_mapConnection
    BY <1>0, <1>3, SomeHeld DEF Finish, ReleaseNVDataAccess
  <2>2. (\A u \in Threads \ {t} : held'[u] = held[u]) /\ Len(held'[t]) = Len(held[t]) - 1
    BY <2>1, ReleaseStep
  <2>3. Len(held'[t]) = Holding("none")
    BY <1>0, <2>1, <2>2 DEF HoldsAsItShould, Holding
  <2>4. HoldsAsItShould'
    BY <1>0, <2>1, <2>2, <2>3, HoldsStep
  <2> QED
    BY <1>0, <2>1, <2>4, ReleaseStep DEF PoolInv, TypeOK
<1>4. ASSUME NEW t \in Threads, EndNestedLogout(t) PROVE PoolInv'
  <2>1. /\ ReleaseNVDataAccess(t) /\ dao' = [dao EXCEPT ![t] = "quit"]
        /\ Len(held[t]) = 2 /\ held[t] # <<>>
        /\ pRes' \subseteq pRes /\ registered' = registered
        /\ m_mapConnection' = m_mapConnection
    BY <1>0, <1>4, SomeHeld DEF EndNestedLogout, ReleaseNVDataAccess
  <2>2. (\A u \in Threads \ {t} : held'[u] = held[u]) /\ Len(held'[t]) = Len(held[t]) - 1
    BY <2>1, ReleaseStep
  <2>3. Len(held'[t]) = Holding("quit")
    BY <1>0, <2>1, <2>2 DEF HoldsAsItShould, Holding
  <2>4. HoldsAsItShould'
    BY <1>0, <2>1, <2>2, <2>3, HoldsStep
  <2> QED
    BY <1>0, <2>1, <2>4, ReleaseStep DEF PoolInv, TypeOK
<1>5. ASSUME NEW t \in Threads, ExecuteNoThrow(t) \/ FreeResult(t) PROVE PoolInv'
  <2>1. /\ held[t] # <<>> /\ pRes' \subseteq pRes \cup {Current(t)}
        /\ UNCHANGED <<m_mapConnection, reference_count, held, dao, registered>>
    BY <1>5 DEF ExecuteNoThrow, FreeResult
  <2>2. held[t] \in Seq(Handles) /\ IsInjective(held[t])
    BY <1>0 DEF PoolInv, TypeOK, OneUser
  <2>3. Current(t) \in Uses(t) /\ Current(t) \in Handles
    BY <2>1, <2>2, FrontUses DEF Uses, Current
  <2>4. Current(t) \in Taken
    BY <1>0, <2>3, UsesTaken
  <2>5. Current(t) \in m_mapConnection /\ IsLock(Current(t))
    BY <2>3, <2>4 DEF PoolInv, TakenInPool, CountsHolders, IsLock
  <2>6. CleanWhenFree'
    BY <2>1, <2>5 DEF PoolInv, CleanWhenFree, IsLock
  <2>7. TypeOK'
    BY <1>0, <2>1, <2>3 DEF TypeOK
  <2> QED
    BY <2>1, <2>6, <2>7, Unaffected DEF PoolInv
<1>6. ASSUME NEW t \in Threads, RegisterDevice(t) PROVE PoolInv'
  <2> DEFINE h == Current(t)
  <2>1. /\ dao[t] = "regist" /\ dao' = [dao EXCEPT ![t] = "none"]
        /\ registered' = registered \cup {h}
        /\ held' = [held EXCEPT ![t] = Front(@)]
        /\ m_mapConnection' = m_mapConnection /\ reference_count' = reference_count
        /\ pRes' = pRes
    BY <1>6 DEF RegisterDevice
  <2>2. Len(held[t]) = 1 /\ held[t] # <<>>
    BY <1>0, <2>1, SomeHeld DEF HoldsAsItShould, Holding
  <2>3. /\ h \in Uses(t) /\ h \in Taken /\ h \in Handles
        /\ held' \in [Threads -> Seq(Handles)]
        /\ Len(held'[t]) = Len(held[t]) - 1
        /\ Uses(t)' = Uses(t) \ {h} /\ IsInjective(held'[t])
    BY <2>1, <2>2, DropStep
  <2>4. \A u \in Threads \ {t} : held'[u] = held[u] /\ Uses(u)' = Uses(u)
    BY <2>1, <2>2, DropStep
  <2> HIDE DEF h
  <2>5. \A u \in Threads \ {t} : h \notin Uses(u)
    BY <2>3 DEF PoolInv, OneUser
  <2>6. Taken' = Taken
    BY <2>1, <2>3, <2>4 DEF Taken
  <2>7. OneUser'
    <3>1. \A r, s \in Threads : r # s => Uses(r)' \cap Uses(s)' = {}
      BY <2>3, <2>4 DEF PoolInv, OneUser
    <3>2. \A s \in Threads : IsInjective(held'[s])
      BY <2>3, <2>4 DEF PoolInv, OneUser
    <3>3. \A s \in Threads : Uses(s)' \cap registered' = {}
      BY <2>1, <2>3, <2>4, <2>5 DEF PoolInv, OneUser
    <3> QED
      BY <3>1, <3>2, <3>3 DEF OneUser
  <2>8. CountsHolders'
    BY <2>1, <2>6 DEF PoolInv, CountsHolders
  <2>9. TakenInPool' /\ CleanWhenFree'
    BY <2>1, <2>6 DEF PoolInv, TakenInPool, CleanWhenFree, IsLock
  <2>10. HoldsAsItShould'
    <3>1. Len(held'[t]) = Holding("none")
      BY <2>2, <2>3 DEF Holding
    <3> QED
      BY <1>0, <2>1, <2>4, <3>1, HoldsStep
  <2>11. TypeOK'
    BY <1>0, <2>1, <2>3 DEF TypeOK
  <2> QED
    BY <2>7, <2>8, <2>9, <2>10, <2>11 DEF PoolInv
<1>7. CASE UNCHANGED vars
  <2>1. /\ UNCHANGED <<m_mapConnection, reference_count, held, dao, registered>>
        /\ pRes' = pRes
    BY <1>7 DEF vars
  <2>2. TypeOK' /\ CleanWhenFree'
    BY <2>1 DEF PoolInv, TypeOK, CleanWhenFree, IsLock
  <2> QED
    BY <2>1, <2>2, Unaffected DEF PoolInv
<1> QED
  BY <1>1, <1>2, <1>3, <1>4, <1>5, <1>6, <1>7 DEF Next, Thread

LEMMA PoolInvCorrect == Spec => []PoolInv
  BY PoolInit, PoolStep, PTL DEF Spec

(* Every variable keeps its type: a reference count never falls below 0.   *)
THEOREM TypeCorrect == Spec => []TypeOK
  BY PoolInvCorrect, PTL DEF PoolInv

(* No connection is ever used by two calls, whatever threads nest or keep. *)
THEOREM OneUserAtATime == Spec => []OneUser
  BY PoolInvCorrect, PTL DEF PoolInv

(* The reference count of a connection tells whether somebody has it.      *)
THEOREM CountsCorrect == Spec => []CountsHolders
  BY PoolInvCorrect, PTL DEF PoolInv

(* A connection that can be handed out has no result set.                  *)
THEOREM CleanHandOut == Spec => []HandedOutClean
<1>1. PoolInv => HandedOutClean
  BY DEF PoolInv, CleanWhenFree, HandedOutClean, Unlocked
<1> QED
  BY <1>1, PoolInvCorrect, PTL
-----------------------------------------------------------------------------
(* The size of the pool.  What is taken can be counted by thread and       *)
(* position, of which there are two per thread.                            *)
LEMMA TakenSmall ==
  PoolInv /\ IsFiniteSet(registered) =>
    /\ IsFiniteSet(Taken)
    /\ Cardinality(Taken) <= 2 * Cardinality(Threads) + Cardinality(registered)
<1> SUFFICES ASSUME PoolInv, IsFiniteSet(registered)
             PROVE  /\ IsFiniteSet(Taken)
                    /\ Cardinality(Taken) <= 2 * Cardinality(Threads) + Cardinality(registered)
  OBVIOUS
<1> DEFINE Places == Threads \X {1, 2}
           D == {p \in Places : p[2] \in DOMAIN held[p[1]]}
           Used == {h \in Handles : \E t \in Threads : h \in Uses(t)}
           f == [p \in D |-> held[p[1]][p[2]]]
<1>1. IsFiniteSet(Places) /\ Cardinality(Places) = 2 * Cardinality(Threads)
  <2>1. IsFiniteSet({1, 2}) /\ Cardinality({1, 2}) = 2
    <3>1. IsFiniteSet({1}) /\ Cardinality({1}) = 1
      BY FS_Singleton
    <3>2. IsFiniteSet({1} \cup {2}) /\ Cardinality({1} \cup {2}) = Cardinality({1}) + 1
      BY <3>1, FS_AddElement
    <3>3. {1, 2} = {1} \cup {2}
      OBVIOUS
    <3> QED
      BY <3>1, <3>2, <3>3
  <2>2. Cardinality(Threads) \in Nat
    BY ThreadsAssumption, FS_CardinalityType
  <2>3. IsFiniteSet(Places) /\ Cardinality(Places) = Cardinality(Threads) * Cardinality({1, 2})
    BY <2>1, ThreadsAssumption, FS_Product
  <2> QED
    BY <2>1, <2>2, <2>3
<1>2. IsFiniteSet(D) /\ Cardinality(D) <= 2 * Cardinality(Threads)
  BY <1>1, FS_Subset
<1>3. ASSUME NEW t \in Threads PROVE held[t] \in Seq(Handles) /\ DOMAIN held[t] \subseteq {1, 2}
  <2>1. held[t] \in Seq(Handles) /\ Len(held[t]) \in {0, 1, 2}
    BY DEF PoolInv, TypeOK, HoldsAsItShould, Holding
  <2> QED
    BY <2>1
<1>4. f \in [D -> Used]
  <2>1. ASSUME NEW p \in D PROVE held[p[1]][p[2]] \in Used
    <3>1. p[1] \in Threads /\ p[2] \in DOMAIN held[p[1]]
      OBVIOUS
    <3>2. held[p[1]][p[2]] \in Uses(p[1])
      BY <3>1 DEF Uses, Range
    <3>3. held[p[1]][p[2]] \in Handles
      BY <1>3, <3>1
    <3> QED
      BY <3>1, <3>2, <3>3
  <2> QED
    BY <2>1
<1>5. ASSUME NEW h \in Used PROVE \E p \in D : f[p] = h
  <2>1. PICK t \in Threads : h \in Uses(t)
    OBVIOUS
  <2>2. PICK i \in DOMAIN held[t] : h = held[t][i]
    BY <2>1 DEF Uses, Range
  <2>3. i \in {1, 2}
    BY <1>3, <2>2
  <2>4. <<t, i>> \in D
    BY <2>2, <2>3
  <2> QED
    BY <2>2, <2>4
<1> HIDE DEF D, Used, f, Places
<1>6. f \in Surjection(D, Used)
  BY <1>4, <1>5 DEF Surjection
<1>7. IsFiniteSet(Used) /\ Cardinality(Used) <= Cardinality(D)
  BY <1>2, <1>6, FS_Surjection
<1>8. Taken = Used \cup registered
  BY DEF Taken, Used, PoolInv, TypeOK
<1>9. /\ IsFiniteSet(Taken)
      /\ Cardinality(Taken) = Cardinality(Used) + Cardinality(registered) - Cardinality(Used \cap registered)
  BY <1>7, <1>8, FS_Union
<1>10. IsFiniteSet(Used \cap registered)
  BY <1>7, FS_Subset
<1>11. /\ Cardinality(Used) \in Nat /\ Cardinality(registered) \in Nat /\ Cardinality(D) \in Nat
       /\ Cardinality(Used \cap registered) \in Nat /\ Cardinality(Threads) \in Nat
  BY <1>2, <1>7, <1>10, ThreadsAssumption, FS_CardinalityType
<1> QED
  BY <1>2, <1>7, <1>9, <1>11

LEMMA TakenSmallNext ==
  PoolInv' /\ IsFiniteSet(registered)' =>
    /\ IsFiniteSet(Taken)'
    /\ (Cardinality(Taken) <= 2 * Cardinality(Threads) + Cardinality(registered))'
  BY TakenSmall, PTL

(* The pool grows only when everything in it is taken, the new connection  *)
(* included.                                                               *)
LEMMA GrowsWhenTaken ==
  ASSUME PoolInv, PoolInv', [Next]_vars
  PROVE  /\ m_mapConnection' = m_mapConnection \/ m_mapConnection' \subseteq Taken'
         /\ registered' = registered \/ \E h : registered' = registered \cup {h}
<1>1. ASSUME NEW t \in Threads, GetNVDataAccess(t)
      PROVE  /\ m_mapConnection' = m_mapConnection \/ m_mapConnection' \subseteq Taken'
             /\ registered' = registered
  <2>1. PICK h \in Handles :
          /\ h \in Unlocked \/ (Unlocked = {} /\ h \notin m_mapConnection)
          /\ reference_count' = [reference_count EXCEPT ![h] = @ + 1]
          /\ m_mapConnection' = m_mapConnection \cup {h}
    BY <1>1 DEF GetNVDataAccess, Lock
  <2>2. registered' = registered
    BY <1>1 DEF GetNVDataAccess
  <2>3. CASE h \in m_mapConnection
    BY <2>1, <2>2, <2>3
  <2>4. CASE h \notin m_mapConnection
    <3>1. \A g \in m_mapConnection : reference_count[g] > 0
      BY <2>1, <2>4 DEF Unlocked, IsLock
    <3>2. ASSUME NEW g \in m_mapConnection' PROVE g \in Taken'
      <4>1. g \in Handles /\ reference_count'[g] > 0
        BY <2>1, <3>1 DEF PoolInv, TypeOK
      <4> QED
        BY <4>1 DEF PoolInv, CountsHolders
    <3> QED
      BY <2>2, <3>2
  <2> QED
    BY <2>3, <2>4
<1>2. ASSUME NEW t \in Threads, ReleaseNVDataAccess(t) PROVE UNCHANGED <<m_mapConnection, registered>>
  BY <1>2 DEF ReleaseNVDataAccess
<1>3. ASSUME NEW t \in Threads, ExecuteNoThrow(t) \/ FreeResult(t) PROVE UNCHANGED <<m_mapConnection, registered>>
  BY <1>3 DEF ExecuteNoThrow, FreeResult
<1>4. ASSUME NEW t \in Threads, RegisterDevice(t)
      PROVE  m_mapConnection' = m_mapConnection /\ \E h : registered' = registered \cup {h}
  BY <1>4 DEF RegisterDevice
<1>5. CASE UNCHANGED vars
  BY <1>5 DEF vars
<1> QED
  BY <1>1, <1>2, <1>3, <1>4, <1>5 DEF Next, Thread, Begin, Finish, NestedLogout, EndNestedLogout

(* The pool is bounded by the threads that run and the devices registered. *)
THEOREM PoolSmall == Spec => []PoolBounded
<1> DEFINE Small == IsFiniteSet(registered) /\ IsFiniteSet(m_mapConnection) /\ PoolBounded
<1>1. Init => Small
  BY FS_EmptySet, ThreadsAssumption, FS_CardinalityType DEF Init, PoolBounded
<1>2. Small /\ PoolInv /\ PoolInv' /\ [Next]_vars => Small'
  <2> SUFFICES ASSUME Small, PoolInv, PoolInv', [Next]_vars PROVE Small'
    OBVIOUS
  <2>1. m_mapConnection' = m_mapConnection \/ m_mapConnection' \subseteq Taken'
    BY GrowsWhenTaken
  <2>2. /\ IsFiniteSet(registered')
        /\ Cardinality(registered') \in Nat /\ Cardinality(registered) \in Nat
        /\ Cardinality(registered') >= Cardinality(registered)
    <3>1. CASE registered' = registered
      BY <3>1, FS_CardinalityType
    <3>2. ASSUME NEW h, registered' = registered \cup {h}
          PROVE  /\ IsFiniteSet(registered')
                 /\ Cardinality(registered') \in Nat /\ Cardinality(registered) \in Nat
                 /\ Cardinality(registered') >= Cardinality(registered)
      <4>1. /\ IsFiniteSet(registered \cup {h})
            /\ Cardinality(registered \cup {h}) =
                 IF h \in registered THEN Cardinality(registered) ELSE Cardinality(registered) + 1
        BY FS_AddElement
      <4>2. Cardinality(registered) \in Nat
        BY FS_CardinalityType
      <4> QED
        BY <3>2, <4>1, <4>2
    <3> QED
      BY <3>1, <3>2, GrowsWhenTaken
  <2>3. Cardinality(Threads) \in Nat
    BY ThreadsAssumption, FS_CardinalityType
  <2>4. CASE m_mapConnection' = m_mapConnection
    <3>1. Cardinality(m_mapConnection) \in Nat
      BY FS_CardinalityType
    <3> QED
      BY <2>2, <2>3, <2>4, <3>1 DEF PoolBounded
  <2>5. CASE m_mapConnection' \subseteq Taken'
    <3>1. IsFiniteSet(Taken') /\ Cardinality(Taken') <= 2 * Cardinality(Threads) + Cardinality(registered')
      BY <2>2, TakenSmallNext
    <3>2. IsFiniteSet(m_mapConnection') /\ Cardinality(m_mapConnection') <= Cardinality(Taken')
      BY <2>5, <3>1, FS_Subset
    <3>3. Cardinality(m_mapConnection') \in Nat /\ Cardinality(Taken') \in Nat
      BY <3>1, <3>2, FS_CardinalityType
    <3> QED
      BY <2>2, <2>3, <3>1, <3>2, <3>3 DEF PoolBounded
  <2> QED
    BY <2>1, <2>4, <2>5
<1>3. Small => PoolBounded
  OBVIOUS
<1> QED
  BY <1>1, <1>2, <1>3, PoolInvCorrect, PTL DEF Spec
=============================================================================
