--------------------------- MODULE SessionProofs ---------------------------
(***************************************************************************)
(* Theorems about Session, for any number of links, users and devices.     *)
(* Types, one address per account, and the routing of what is sent to an   *)
(* account come first.  Then the two that count hang-ups and logins: while *)
(* the handlers of an account take turns (Turns), the link logged in as a  *)
(* user is the one recorded for it (Standing); and every account that was  *)
(* never shared stands where the handler of its only link has brought it   *)
(* (Stages), which is what the status column shows.                        *)
(***************************************************************************)
EXTENDS Session, FiniteSetTheorems, TLAPS

USE AccountsDisjoint DEF NoDevice, Accounts, Goto, startup, StartUpType

(* What makes the types inductive: a link that is logged in has a uuid,    *)
(* and a handler that works on an account has one.                         *)
HandlersTyped ==
  \A l \in Links :
    /\ cdev[l].logined => cdev[l].uuid # NoUuid
    /\ pc[l] \in {"registering", "recording", "answering", "quitting", "quit", "closing",
                  "closed"} => acct[l] # NoUuid
    /\ pc[l] = "counted" => acct[l] = cdev[l].uuid

TypeInv == TypeOK /\ HandlersTyped
-----------------------------------------------------------------------------
LEMMA TypeInit == Init => TypeInv
  BY DEF Init, TypeInv, TypeOK, HandlersTyped, StartUpInit

(* The start-up keeps its own types.                                       *)
LEMMA StartModuleType ==
  ASSUME StartUpType, StartModule
  PROVE  StartUpType'
<1> USE DEF StartUpType, Step, Failed
<1>1. CASE Execute
  BY <1>1 DEF Execute
<1>2. CASE LoadConfigFile
  BY <1>2 DEF LoadConfigFile
<1>3. CASE StartTimerModule
  BY <1>3 DEF StartTimerModule
<1>4. CASE LogModuleInit
  BY <1>4 DEF LogModuleInit
<1>5. CASE DatabaseModuleInit
  BY <1>5 DEF DatabaseModuleInit
<1>6. CASE StartTcpServer
  BY <1>6 DEF StartTcpServer
<1>7. CASE startServrThread
  BY <1>7 DEF startServrThread
<1> QED
  BY <1>1, <1>2, <1>3, <1>4, <1>5, <1>6, <1>7 DEF StartModule

LEMMA BeginType ==
  ASSUME TypeOK, NEW l \in Links, NEW a \in Accounts \cup {NoUuid}, Begin(l, a)
  PROVE  /\ acct' = [acct EXCEPT ![l] = a]
         /\ overlapped' \subseteq Accounts
  BY DEF Begin, TypeOK

LEMMA PutOnlineType ==
  ASSUME TypeInv, NEW l \in Links, NEW a \in Accounts,
         NEW where \in {"registering", "recording"}, PutOnline(l, a, where)
  PROVE  TypeInv'
<1> USE DEF TypeInv
<1>1. Begin(l, a) /\ a # NoUuid
  BY DEF PutOnline
<1>2. acct' = [acct EXCEPT ![l] = a] /\ overlapped' \subseteq Accounts
  BY <1>1, BeginType
<1>3. shared' \subseteq Accounts
  BY DEF PutOnline, TypeOK
<1>4. /\ UNCHANGED <<startup, m_mapDevice, cdev, mUser, mDevice, count, stranded, quitted>>
      /\ status' = [status EXCEPT ![a] = TRUE]
      /\ pc' = [pc EXCEPT ![l] = where]
  BY DEF PutOnline, links
<1>5. TypeOK'
  BY <1>2, <1>3, <1>4 DEF TypeOK
<1>6. HandlersTyped'
  BY <1>1, <1>2, <1>4 DEF TypeOK, HandlersTyped
<1> QED
  BY <1>5, <1>6

(* A login packet starts with a status that is written.                    *)
LEMMA PacketIs ==
  ASSUME NEW l \in Links, Packet(l)
  PROVE  \/ handleUserQuit(l)
         \/ \E a \in Accounts, where \in {"registering", "recording"} :
              /\ PutOnline(l, a, where)
              /\ where = "registering" => a \in Devices
              /\ cdev[l].uuid \in Users => a \in Users
              /\ cdev[l].uuid \in Devices => a \in Devices
  BY DEF Packet, handleUserLogin, handleDeviceLogin

(* Kicking links out keeps the types, the uuids and whatever was logged    *)
(* out.                                                                    *)
LEMMA KickoutKeeps ==
  ASSUME TypeOK, NEW ks, Kickout(ks)
  PROVE  /\ cdev' \in [Links -> [logined : BOOLEAN, uuid : Accounts \cup {NoUuid}]]
         /\ \A k \in Links :
              /\ cdev'[k].uuid = cdev[k].uuid
              /\ cdev'[k].logined => cdev[k].logined
              /\ k \notin ks => cdev'[k] = cdev[k]
<1> DEFINE T == [logined : BOOLEAN, uuid : Accounts \cup {NoUuid}]
           out(k) == [cdev[k] EXCEPT !.logined = FALSE]
           to(k) == IF k \in ks \cap m_mapDevice THEN out(k) ELSE cdev[k]
<1>1. cdev' = [k \in Links |-> to(k)]
  BY DEF Kickout
<1>2. ASSUME NEW k \in Links
      PROVE  /\ out(k) \in T
             /\ out(k).uuid = cdev[k].uuid
             /\ ~out(k).logined
  <2>1. cdev[k] \in T
    BY DEF TypeOK
  <2> QED
    BY <2>1
<1>3. \A k \in Links : cdev[k] \in T
  BY DEF TypeOK
<1> HIDE DEF T, out
<1>4. \A k \in Links : to(k) \in T
  BY <1>2, <1>3
<1>5. cdev' \in [Links -> T]
  BY <1>1, <1>4
<1> QED
  BY <1>1, <1>2, <1>5 DEF T

(* mapAddUser and mapAddDevice record the account of the link there and    *)
(* nowhere else.                                                           *)
LEMMA MapAddUserIs ==
  ASSUME TypeOK, NEW l \in Links, mapAddUser(l)
  PROVE  /\ mUser' \in [Links -> Users \cup {NoUuid}]
         /\ mUser'[l] = acct[l]
         /\ \A k \in Links \ {l} :
              mUser'[k] = IF mUser[k] = acct[l] THEN NoUuid ELSE mUser[k]
  BY DEF mapAddUser, Recorded, Others, TypeOK

LEMMA MapAddDeviceIs ==
  ASSUME TypeOK, NEW l \in Links, mapAddDevice(l)
  PROVE  /\ mDevice' \in [Links -> Devices \cup {NoUuid}]
         /\ mDevice'[l] = acct[l]
         /\ \A k \in Links \ {l} :
              mDevice'[k] = IF mDevice[k] = acct[l] THEN NoUuid ELSE mDevice[k]
  BY DEF mapAddDevice, Recorded, Others, TypeOK

LEMMA SameUuidFinite ==
  ASSUME TypeOK, NEW l \in Links
  PROVE  Cardinality(SameUuid(l)) \in Nat
<1>1. SameUuid(l) \in SUBSET Links
  BY DEF SameUuid, TypeOK
<1>2. IsFiniteSet(SameUuid(l))
  BY <1>1, LinksFinite, FS_Subset
<1> QED
  BY <1>2, FS_CardinalityType

LEMMA TypeStep == TypeInv /\ [Next]_vars => TypeInv'
<1> SUFFICES ASSUME TypeInv, [Next]_vars PROVE TypeInv'
  OBVIOUS
<1> USE DEF TypeInv
<1>1. ASSUME NEW l \in Links, OnConnect(l) PROVE TypeInv'
  BY <1>1 DEF OnConnect, history, TypeOK, HandlersTyped
<1>2. ASSUME NEW l \in Links, Packet(l) PROVE TypeInv'
  <2>1. CASE handleUserQuit(l)
    <3>1. acct' = [acct EXCEPT ![l] = cdev[l].uuid] /\ overlapped' \subseteq Accounts
      BY <2>1, BeginType DEF handleUserQuit, TypeOK
    <3>2. TypeOK'
      BY <2>1, <3>1 DEF handleUserQuit, links, TypeOK
    <3>3. HandlersTyped'
      BY <2>1, <3>1 DEF handleUserQuit, links, TypeOK, HandlersTyped
    <3> QED
      BY <3>2, <3>3
  <2> QED
    BY <1>2, <2>1, PacketIs, PutOnlineType
<1>3. ASSUME NEW l \in Links, CountByUuid(l) PROVE TypeInv'
  <2>1. acct' = [acct EXCEPT ![l] = cdev[l].uuid] /\ overlapped' \subseteq Accounts
    BY <1>3, BeginType DEF CountByUuid, TypeOK
  <2>2. count' \in [Links -> Nat]
    BY <1>3, SameUuidFinite DEF CountByUuid, TypeOK
  <2>3. TypeOK'
    BY <1>3, <2>1, <2>2 DEF CountByUuid, links, TypeOK
  <2>4. HandlersTyped'
    BY <1>3, <2>1 DEF CountByUuid, links, TypeOK, HandlersTyped
  <2> QED
    BY <2>3, <2>4
<1>4. ASSUME NEW l \in Links, mapAddUser(l) PROVE TypeInv'
  <2>1. cdev' \in [Links -> [logined : BOOLEAN, uuid : Accounts \cup {NoUuid}]]
    BY <1>4, KickoutKeeps DEF mapAddUser
  <2>2. mUser' \in [Links -> Users \cup {NoUuid}]
    BY <1>4, MapAddUserIs DEF mapAddUser, TypeOK
  <2>3. TypeOK'
    BY <1>4, <2>1, <2>2 DEF mapAddUser, Recover, TypeOK
  <2>4. HandlersTyped'
    BY <1>4, KickoutKeeps DEF mapAddUser, TypeOK, HandlersTyped
  <2> QED
    BY <2>3, <2>4
<1>5. ASSUME NEW l \in Links, mapAddDevice(l) PROVE TypeInv'
  <2>1. mDevice' \in [Links -> Devices \cup {NoUuid}]
    BY <1>5, MapAddDeviceIs DEF mapAddDevice, TypeOK
  <2> QED
    BY <1>5, <2>1 DEF mapAddDevice, Recover, TypeOK, HandlersTyped
<1>6. ASSUME NEW l \in Links, sendLoginResponse(l) PROVE TypeInv'
  BY <1>6 DEF sendLoginResponse, history, TypeOK, HandlersTyped
<1>7. ASSUME NEW l \in Links, OnDisconnect(l) PROVE TypeInv'
  BY <1>7 DEF OnDisconnect, links, history, TypeOK, HandlersTyped
<1>8. ASSUME NEW l \in Links, logout(l) PROVE TypeInv'
  <2>1. acct[l] \in Accounts
    BY <1>8 DEF logout, TypeOK, HandlersTyped
  <2>2. TypeOK'
    BY <1>8, <2>1 DEF logout, links, TypeOK
  <2>3. HandlersTyped'
    BY <1>8, <2>1 DEF logout, links, TypeOK, HandlersTyped
  <2> QED
    BY <2>2, <2>3
<1>9. ASSUME NEW l \in Links, mapDelete(l) PROVE TypeInv'
  <2>1. mUser' \in [Links -> Users \cup {NoUuid}] /\ mDevice' \in [Links -> Devices \cup {NoUuid}]
    BY <1>9 DEF mapDelete, TypeOK
  <2>2. acct' \in [Links -> Accounts \cup {NoUuid}]
    BY <1>9 DEF mapDelete, TypeOK
  <2>3. TypeOK'
    BY <1>9, <2>1, <2>2 DEF mapDelete, history, TypeOK
  <2>4. HandlersTyped'
    BY <1>9 DEF mapDelete, TypeOK, HandlersTyped
  <2> QED
    BY <2>3, <2>4
<1>10. ASSUME NEW l \in Links, DeleteDeviceClient(l) PROVE TypeInv'
  BY <1>10 DEF DeleteDeviceClient, history, TypeOK, HandlersTyped
<1>11. CASE Crash
  <2>1. StartUpType'
    BY <1>11 DEF Crash, StartModuleFailed, End
  <2> QED
    BY <1>11, <2>1 DEF Crash, TypeOK, HandlersTyped
<1>12. CASE DbaModule_Initialize
  <2>1. StartUpType'
    BY <1>12 DEF DbaModule_Initialize, Step, Failed, StartUpType, TypeOK
  <2> QED
    BY <1>12, <2>1 DEF DbaModule_Initialize, history, links, locals, TypeOK, HandlersTyped
<1>15. ASSUME NEW l \in Links, login(l) PROVE TypeInv'
  <2>1. acct[l] \in Accounts
    BY <1>15 DEF login, TypeOK, HandlersTyped
  <2>2. TypeOK'
    BY <1>15, <2>1 DEF login, links, TypeOK
  <2>3. HandlersTyped'
    BY <1>15, <2>1 DEF login, links, TypeOK, HandlersTyped
  <2> QED
    BY <2>2, <2>3
<1>13. CASE StartModule /\ UNCHANGED <<links, status, locals, history>>
  <2>1. StartUpType'
    BY <1>13, StartModuleType DEF TypeOK
  <2> QED
    BY <1>13, <2>1 DEF history, links, locals, TypeOK, HandlersTyped
<1>14. CASE UNCHANGED vars
  BY <1>14 DEF vars, links, locals, history, TypeOK, HandlersTyped, StartUpType
<1> QED
  BY <1>1, <1>2, <1>3, <1>4, <1>5, <1>6, <1>7, <1>8, <1>9, <1>10, <1>11, <1>12, <1>13, <1>14, <1>15
     DEF Next, Work

LEMMA TypeInvCorrect == Spec => []TypeInv
  BY TypeInit, TypeStep, PTL DEF Spec

(* Every variable keeps its type; in particular only users are recorded in *)
(* mUser and only devices in mDevice.                                      *)
THEOREM TypeCorrect == Spec => []TypeOK
  BY TypeInvCorrect, PTL DEF TypeInv
-----------------------------------------------------------------------------
LEMMA OneAddressInit == Init => OneAddressPerAccount
  BY DEF Init, OneAddressPerAccount

LEMMA OneAddressStep ==
  TypeOK /\ OneAddressPerAccount /\ [Next]_vars => OneAddressPerAccount'
<1> SUFFICES ASSUME TypeOK, OneAddressPerAccount, [Next]_vars
             PROVE  OneAddressPerAccount'
  OBVIOUS
<1> USE DEF OneAddressPerAccount
<1>1. ASSUME UNCHANGED <<mUser, mDevice>> PROVE OneAddressPerAccount'
  BY <1>1
<1>2. ASSUME NEW l \in Links, mapAddUser(l) PROVE OneAddressPerAccount'
  <2>1. /\ acct[l] \in Users /\ mDevice' = mDevice
        /\ mUser'[l] = acct[l]
        /\ \A k \in Links \ {l} :
             mUser'[k] = IF mUser[k] = acct[l] THEN NoUuid ELSE mUser[k]
    BY <1>2, MapAddUserIs DEF mapAddUser, TypeOK
  <2> QED
    BY <2>1
<1>3. ASSUME NEW l \in Links, mapAddDevice(l) PROVE OneAddressPerAccount'
  <2>1. /\ acct[l] \in Devices /\ mUser' = mUser
        /\ mDevice'[l] = acct[l]
        /\ \A k \in Links \ {l} :
             mDevice'[k] = IF mDevice[k] = acct[l] THEN NoUuid ELSE mDevice[k]
    BY <1>3, MapAddDeviceIs DEF mapAddDevice, TypeOK
  <2> QED
    BY <2>1
<1>4. ASSUME NEW l \in Links, mapDelete(l) PROVE OneAddressPerAccount'
  <2>1. \A k \in Links : mUser'[k] \in {mUser[k], NoUuid} /\ mDevice'[k] \in {mDevice[k], NoUuid}
    BY <1>4 DEF mapDelete, TypeOK
  <2> QED
    BY <2>1
<1>5. CASE Crash
  BY <1>5 DEF Crash
<1>6. ASSUME NEW l \in Links, Packet(l) PROVE OneAddressPerAccount'
  BY <1>1, <1>6, PacketIs DEF PutOnline, handleUserQuit, links
<1>7. ASSUME NEW l \in Links,
             OnConnect(l) \/ CountByUuid(l) \/ login(l) \/ sendLoginResponse(l)
               \/ OnDisconnect(l) \/ logout(l) \/ DeleteDeviceClient(l)
      PROVE  OneAddressPerAccount'
  BY <1>1, <1>7 DEF OnConnect, CountByUuid, login, sendLoginResponse, OnDisconnect, logout,
                    DeleteDeviceClient, links
<1>8. CASE UNCHANGED <<links, locals>>
  BY <1>1, <1>8 DEF links
<1> QED
  BY <1>2, <1>3, <1>4, <1>5, <1>6, <1>7, <1>8
     DEF Next, Work, DbaModule_Initialize, vars

(* However logins, kicks and hang-ups interleave, at most one address is   *)
(* recorded for a user or a device.                                        *)
THEOREM OneAddress == Spec => []OneAddressPerAccount
  BY TypeCorrect, OneAddressInit, OneAddressStep, PTL DEF Spec
-----------------------------------------------------------------------------
(* The inductive form of RoutedToLoggedIn: what a recorded link may be     *)
(* recorded as, wherever its worker is.                                    *)
Owned(l, a) == a # NoUuid => cdev[l] = [logined |-> TRUE, uuid |-> a]
HangingUp == {"counted", "closing", "closed", "deleting"}
Quitting == {"quitting", "quit"}
Settled == {"idle", "registering", "recording"} \cup Quitting \cup HangingUp
RouteOf(l) ==
  /\ pc[l] = "fresh" => mUser[l] = NoUuid /\ mDevice[l] = NoUuid
  /\ pc[l] \in Settled => Owned(l, mUser[l]) /\ Owned(l, mDevice[l])
  /\ pc[l] \in {"registering", "recording"} =>
       /\ cdev[l].uuid \in Users => acct[l] \in Users
       /\ cdev[l].uuid \in Devices => acct[l] \in Devices
  /\ pc[l] = "answering" => mUser[l] \in {NoUuid, acct[l]} /\ mDevice[l] \in {NoUuid, acct[l]}
Routes == \A l \in Links : RouteOf(l)

LEMMA RoutesInit == Init => Routes
  BY DEF Init, Routes, RouteOf, Owned, Settled, HangingUp, Quitting

(* A link that a step does not concern keeps its route even if it loses    *)
(* its addresses.                                                          *)
LEMMA RouteKept ==
  ASSUME NEW k \in Links, RouteOf(k),
         pc'[k] = pc[k], acct'[k] = acct[k], cdev'[k].uuid = cdev[k].uuid,
         mUser'[k] \in {mUser[k], NoUuid}, mDevice'[k] \in {mDevice[k], NoUuid},
         cdev'[k] = cdev[k] \/ (mUser'[k] = NoUuid /\ mDevice[k] = NoUuid)
  PROVE  RouteOf(k)'
  BY DEF RouteOf, Owned, Settled, HangingUp, Quitting

LEMMA RoutesStep == TypeInv /\ TypeInv' /\ Routes /\ [Next]_vars => Routes'
<1> SUFFICES ASSUME TypeInv, TypeInv', Routes, [Next]_vars PROVE Routes'
  OBVIOUS
<1> USE DEF TypeInv
<1>1. ASSUME NEW l \in Links,
             UNCHANGED <<cdev, mUser, mDevice>>,
             \A k \in Links \ {l} : pc'[k] = pc[k] /\ acct'[k] = acct[k],
             RouteOf(l)'
      PROVE  Routes'
  BY <1>1, RouteKept DEF Routes
<1>2. ASSUME NEW l \in Links, OnConnect(l) PROVE Routes'
  <2>1. RouteOf(l)'
    BY <1>2 DEF OnConnect, Routes, RouteOf, Owned, Settled, HangingUp, Quitting, TypeOK
  <2>2. ASSUME NEW k \in Links \ {l} PROVE RouteOf(k)'
    BY <1>2, RouteKept DEF OnConnect, Routes, TypeOK
  <2> QED
    BY <2>1, <2>2 DEF Routes
<1>3. ASSUME NEW l \in Links, Packet(l) PROVE Routes'
  <2>1. /\ UNCHANGED <<cdev, mUser, mDevice>>
        /\ \A k \in Links \ {l} : pc'[k] = pc[k] /\ acct'[k] = acct[k]
    BY <1>3, PacketIs DEF PutOnline, handleUserQuit, Begin, links, TypeOK
  <2>2. RouteOf(l)'
    <3>1. RouteOf(l) /\ pc[l] = "idle"
      BY <1>3, PacketIs DEF PutOnline, handleUserQuit, Routes
    <3>2. CASE handleUserQuit(l)
      BY <3>1, <3>2, <2>1 DEF handleUserQuit, TypeOK, RouteOf, Owned, Settled, HangingUp, Quitting
    <3>3. ASSUME NEW a \in Accounts, NEW where \in {"registering", "recording"},
                 PutOnline(l, a, where),
                 cdev[l].uuid \in Users => a \in Users,
                 cdev[l].uuid \in Devices => a \in Devices
          PROVE  RouteOf(l)'
      <4>1. pc'[l] = where /\ acct'[l] = a
        BY <3>3 DEF PutOnline, Begin, TypeOK
      <4> QED
        BY <3>1, <3>3, <4>1, <2>1 DEF RouteOf, Owned, Settled, HangingUp, Quitting
    <3> QED
      BY <1>3, <3>2, <3>3, PacketIs
  <2> QED
    BY <1>1, <2>1, <2>2
<1>13. ASSUME NEW l \in Links, login(l) PROVE Routes'
  <2>1. /\ UNCHANGED <<cdev, mUser, mDevice>>
        /\ \A k \in Links \ {l} : pc'[k] = pc[k] /\ acct'[k] = acct[k]
        /\ pc[l] = "registering"
        /\ \/ pc'[l] = "recording" /\ acct'[l] = acct[l]
           \/ pc'[l] = "idle"
    BY <1>13 DEF login, links, TypeOK
  <2>2. RouteOf(l)'
    BY <2>1 DEF Routes, RouteOf, Owned, Settled, HangingUp, Quitting
  <2> QED
    BY <1>1, <2>1, <2>2
<1>4. ASSUME NEW l \in Links, mapAddUser(l) PROVE Routes'
  <2> DEFINE a == acct[l]
  <2>1. /\ a \in Users /\ a # NoUuid /\ pc[l] = "recording"
        /\ pc' = [pc EXCEPT ![l] = "answering"]
        /\ mDevice' = mDevice /\ acct' = acct
        /\ mUser'[l] = a
        /\ \A k \in Links \ {l} : mUser'[k] = IF mUser[k] = a THEN NoUuid ELSE mUser[k]
        /\ Kickout(Others(mUser, l, a))
    BY <1>4, MapAddUserIs DEF mapAddUser, TypeOK
  <2>2. RouteOf(l)'
    <3>1. mDevice[l] = NoUuid
      BY <2>1 DEF Routes, RouteOf, Owned, Settled, HangingUp, Quitting, TypeOK
    <3> QED
      BY <2>1, <3>1 DEF RouteOf, Settled, HangingUp, Quitting, TypeOK
  <2>3. ASSUME NEW k \in Links \ {l} PROVE RouteOf(k)'
    <3>1. /\ pc'[k] = pc[k] /\ acct'[k] = acct[k]
          /\ cdev'[k].uuid = cdev[k].uuid
          /\ mUser'[k] \in {mUser[k], NoUuid} /\ mDevice'[k] = mDevice[k]
          /\ mUser[k] = a \/ cdev'[k] = cdev[k]
      BY <2>1, KickoutKeeps DEF Others, TypeOK
    <3>2. CASE mUser[k] = a
      <4>1. mUser'[k] = NoUuid
        BY <2>1, <3>2
      <4>2. pc[k] \in Settled => mDevice[k] = NoUuid
        BY <2>1, <3>2 DEF Routes, RouteOf, Owned, TypeOK
      <4> QED
        BY <3>1, <4>1, <4>2 DEF Routes, RouteOf, Owned, Settled, HangingUp, Quitting
    <3>3. CASE mUser[k] # a
      BY <3>1, <3>3, RouteKept DEF Routes
    <3> QED
      BY <3>2, <3>3
  <2> QED
    BY <2>2, <2>3 DEF Routes
<1>5. ASSUME NEW l \in Links, mapAddDevice(l) PROVE Routes'
  <2> DEFINE a == acct[l]
  <2>1. /\ a \in Devices /\ a # NoUuid /\ pc[l] = "recording"
        /\ pc' = [pc EXCEPT ![l] = "answering"]
        /\ UNCHANGED <<cdev, mUser, acct>>
        /\ mDevice'[l] = a
        /\ \A k \in Links \ {l} : mDevice'[k] = IF mDevice[k] = a THEN NoUuid ELSE mDevice[k]
    BY <1>5, MapAddDeviceIs DEF mapAddDevice, TypeOK
  <2>2. RouteOf(l)'
    <3>1. mUser[l] = NoUuid
      BY <2>1 DEF Routes, RouteOf, Owned, Settled, HangingUp, Quitting, TypeOK
    <3> QED
      BY <2>1, <3>1 DEF RouteOf, Settled, HangingUp, Quitting, TypeOK
  <2>3. ASSUME NEW k \in Links \ {l} PROVE RouteOf(k)'
    BY <2>1, RouteKept DEF Routes, TypeOK
  <2> QED
    BY <2>2, <2>3 DEF Routes
<1>6. ASSUME NEW l \in Links, sendLoginResponse(l) PROVE Routes'
  <2>1. /\ pc[l] = "answering" /\ acct[l] # NoUuid
        /\ pc' = [pc EXCEPT ![l] = "idle"]
        /\ acct' = [acct EXCEPT ![l] = NoUuid]
        /\ cdev' = [cdev EXCEPT ![l] = [logined |-> TRUE, uuid |-> acct[l]]]
        /\ UNCHANGED <<mUser, mDevice>>
    BY <1>6 DEF sendLoginResponse, HandlersTyped
  <2>2. RouteOf(l)'
    BY <2>1 DEF Routes, RouteOf, Owned, Settled, HangingUp, Quitting, TypeOK
  <2>3. ASSUME NEW k \in Links \ {l} PROVE RouteOf(k)'
    BY <2>1, RouteKept DEF Routes, TypeOK
  <2> QED
    BY <2>2, <2>3 DEF Routes
<1>7. ASSUME NEW l \in Links, CountByUuid(l) \/ OnDisconnect(l) PROVE Routes'
  <2>1. /\ UNCHANGED <<cdev, mUser, mDevice>>
        /\ \A k \in Links \ {l} : pc'[k] = pc[k] /\ acct'[k] = acct[k]
        /\ pc[l] \in Settled /\ pc'[l] \in {"counted", "closing", "deleting"}
    BY <1>7 DEF CountByUuid, OnDisconnect, Begin, links, TypeOK, Settled, HangingUp
  <2>2. RouteOf(l)'
    BY <2>1 DEF Routes, RouteOf, Owned, Settled, HangingUp, Quitting
  <2> QED
    BY <1>1, <2>1, <2>2
<1>8. ASSUME NEW l \in Links, logout(l) PROVE Routes'
  <2>1. /\ UNCHANGED <<cdev, mUser, mDevice>>
        /\ \A k \in Links \ {l} : pc'[k] = pc[k] /\ acct'[k] = acct[k]
        /\ \/ pc[l] = "closing" /\ pc'[l] \in {"closed", "deleting"}
           \/ pc[l] = "quitting" /\ pc'[l] \in {"quit", "idle"}
    BY <1>8 DEF logout, links, TypeOK
  <2>2. RouteOf(l)'
    BY <2>1 DEF Routes, RouteOf, Owned, Settled, HangingUp, Quitting
  <2> QED
    BY <1>1, <2>1, <2>2
<1>9. ASSUME NEW l \in Links, mapDelete(l) PROVE Routes'
  <2>1. /\ cdev' = cdev
        /\ \A k \in Links : /\ mUser'[k] \in {mUser[k], NoUuid}
                             /\ mDevice'[k] \in {mDevice[k], NoUuid}
        /\ \A k \in Links \ {l} : pc'[k] = pc[k] /\ acct'[k] = acct[k]
        /\ \/ pc[l] = "closed" /\ pc'[l] = "deleting"
           \/ pc[l] = "quit" /\ pc'[l] = "idle"
    BY <1>9 DEF mapDelete, TypeOK
  <2>2. RouteOf(l)'
    BY <2>1 DEF Routes, RouteOf, Owned, Settled, HangingUp, Quitting
  <2>3. ASSUME NEW k \in Links \ {l} PROVE RouteOf(k)'
    BY <2>1, RouteKept DEF Routes
  <2> QED
    BY <2>2, <2>3 DEF Routes
<1>10. ASSUME NEW l \in Links, DeleteDeviceClient(l) PROVE Routes'
  <2>1. RouteOf(l)'
    BY <1>10 DEF DeleteDeviceClient, RouteOf, Settled, HangingUp, Quitting, TypeOK
  <2>2. ASSUME NEW k \in Links \ {l} PROVE RouteOf(k)'
    BY <1>10, RouteKept DEF DeleteDeviceClient, Routes, TypeOK
  <2> QED
    BY <2>1, <2>2 DEF Routes
<1>11. CASE Crash
  BY <1>11 DEF Crash, Routes, RouteOf, Settled, HangingUp, Quitting
<1>12. CASE UNCHANGED <<links, locals>>
  BY <1>12, RouteKept DEF links, locals, Routes
<1> QED
  BY <1>2, <1>3, <1>4, <1>5, <1>6, <1>7, <1>8, <1>9, <1>10, <1>11, <1>12, <1>13
     DEF Next, Work, DbaModule_Initialize, vars

(* What is sent to a recorded user or device goes to a link that is logged *)
(* in as that user or device.                                              *)
THEOREM Routed == Spec => []RoutedToLoggedIn
<1>1. Routes => RoutedToLoggedIn
  BY DEF Routes, RouteOf, Owned, Settled, HangingUp, Quitting, RoutedToLoggedIn
<1> QED
  BY <1>1, TypeInvCorrect, RoutesInit, RoutesStep, PTL DEF Spec
-----------------------------------------------------------------------------
(* What a step of one link leaves alone of another one: everything but its *)
(* addresses, which it may lose, and its login, when it is kicked out.     *)
LinkStep(l) == OnConnect(l) \/ Packet(l) \/ CountByUuid(l) \/ Work(l)

KeptBy(k, l) ==
  /\ pc'[k] = pc[k] /\ acct'[k] = acct[k] /\ count'[k] = count[k]
  /\ cdev'[k].uuid = cdev[k].uuid
  /\ k \in m_mapDevice' <=> k \in m_mapDevice
  /\ cdev'[k] # cdev[k] => /\ k \in m_mapDevice /\ ~cdev'[k].logined
                           /\ mUser[k] # NoUuid /\ mUser[k] = acct[l]
  /\ mUser'[k] = mUser[k] \/ (mUser'[k] = NoUuid /\ mUser[k] = acct[l])
  /\ mDevice'[k] = mDevice[k] \/ (mDevice'[k] = NoUuid /\ mDevice[k] = acct[l])

LEMMA OthersKept ==
  ASSUME TypeInv, NEW l \in Links, LinkStep(l), NEW k \in Links \ {l}
  PROVE  KeptBy(k, l)
<1> USE DEF TypeInv, KeptBy
<1>1. CASE OnConnect(l)
  BY <1>1 DEF OnConnect, TypeOK
<1>2. CASE Packet(l)
  BY <1>2, PacketIs DEF PutOnline, handleUserQuit, Begin, links, TypeOK
<1>3. CASE CountByUuid(l)
  BY <1>3 DEF CountByUuid, Begin, links, TypeOK
<1>4. CASE mapAddUser(l)
  <2>1. /\ cdev'[k].uuid = cdev[k].uuid
        /\ mUser[k] # acct[l] => cdev'[k] = cdev[k]
        /\ k \notin m_mapDevice => cdev'[k] = cdev[k]
        /\ cdev'[k] # cdev[k] => ~cdev'[k].logined
    <3>1. Kickout(Others(mUser, l, acct[l]))
      BY <1>4 DEF mapAddUser
    <3>2. k \in Others(mUser, l, acct[l]) <=> mUser[k] = acct[l]
      BY DEF Others
    <3>3. cdev[k] \in [logined : BOOLEAN, uuid : Accounts \cup {NoUuid}]
      BY DEF TypeOK
    <3>4. cdev'[k] = IF mUser[k] = acct[l] /\ k \in m_mapDevice
                       THEN [cdev[k] EXCEPT !.logined = FALSE] ELSE cdev[k]
      BY <3>1, <3>2 DEF Kickout
    <3> QED
      BY <3>3, <3>4
  <2>2. acct[l] \in Users /\ mUser'[k] = IF mUser[k] = acct[l] THEN NoUuid ELSE mUser[k]
    BY <1>4, MapAddUserIs DEF mapAddUser
  <2> QED
    BY <1>4, <2>1, <2>2 DEF mapAddUser, TypeOK
<1>5. CASE mapAddDevice(l)
  BY <1>5, MapAddDeviceIs DEF mapAddDevice, TypeOK
<1>6. CASE sendLoginResponse(l)
  BY <1>6 DEF sendLoginResponse, TypeOK
<1>7. CASE login(l) \/ OnDisconnect(l) \/ logout(l)
  BY <1>7 DEF login, OnDisconnect, logout, links, TypeOK
<1>8. CASE mapDelete(l)
  BY <1>8 DEF mapDelete, Erased, TypeOK
<1>9. CASE DeleteDeviceClient(l)
  BY <1>9 DEF DeleteDeviceClient, TypeOK
<1> QED
  BY <1>1, <1>2, <1>3, <1>4, <1>5, <1>6, <1>7, <1>8, <1>9 DEF LinkStep, Work

LEMMA HistoryGrows ==
  ASSUME NEW l \in Links, LinkStep(l)
  PROVE  shared \subseteq shared' /\ overlapped \subseteq overlapped' /\ quitted \subseteq quitted'
  BY PacketIs
     DEF LinkStep, Work, PutOnline, handleUserQuit, Begin, OnConnect, CountByUuid, login, mapAddUser,
         mapAddDevice, Recover, sendLoginResponse, OnDisconnect, logout, mapDelete,
         DeleteDeviceClient, history

(* A step that is of no link leaves the links alone or loses them all.     *)
LEMMA StepKinds ==
  ASSUME [Next]_vars
  PROVE  \/ \E l \in Links : LinkStep(l)
         \/ Crash
         \/ UNCHANGED <<links, locals, history>>
  BY DEF Next, LinkStep, DbaModule_Initialize, vars
-----------------------------------------------------------------------------
(* Which links have a CDevice, and what its worker knows.                  *)
PlaceOf(l) ==
  /\ l \in m_mapDevice <=> Living(l)
  /\ ~Living(l) => cdev[l] = NoDevice
  /\ ~InHandler(l) => acct[l] = NoUuid
  /\ pc[l] \in HangingUp \cup Quitting => acct[l] = cdev[l].uuid
  /\ pc[l] \in Quitting => acct[l] \in quitted
Places == \A l \in Links : PlaceOf(l)

LEMMA PlacesInit == Init => Places
  BY DEF Init, Places, PlaceOf, Living, InHandler, HangingUp, Quitting

LEMMA PlacesStep == TypeInv /\ TypeInv' /\ Places /\ [Next]_vars => Places'
<1> SUFFICES ASSUME TypeInv, TypeInv', Places, [Next]_vars PROVE Places'
  OBVIOUS
<1> USE DEF TypeInv, Living, InHandler, HangingUp, Quitting
<1>1. ASSUME NEW l \in Links, LinkStep(l) PROVE Places'
  <2>1. ASSUME NEW k \in Links \ {l} PROVE PlaceOf(k)'
    <3>1. KeptBy(k, l) /\ quitted \subseteq quitted' /\ PlaceOf(k)
      BY <1>1, OthersKept, HistoryGrows DEF Places
    <3> QED
      BY <3>1 DEF KeptBy, PlaceOf
  <2>2. PlaceOf(l)
    BY DEF Places
  <2>3. PlaceOf(l)'
    <3>1. CASE OnConnect(l)
      BY <2>2, <3>1 DEF OnConnect, PlaceOf, TypeOK
    <3>2. CASE handleUserQuit(l)
      BY <2>2, <3>2 DEF handleUserQuit, Begin, links, PlaceOf, TypeOK
    <3>3. ASSUME NEW a \in Accounts, NEW where \in {"registering", "recording"},
                 PutOnline(l, a, where)
          PROVE  PlaceOf(l)'
      BY <2>2, <3>3 DEF PutOnline, Begin, links, PlaceOf, TypeOK
    <3>4. CASE CountByUuid(l)
      BY <2>2, <3>4 DEF CountByUuid, Begin, links, PlaceOf, TypeOK
    <3>5. CASE mapAddUser(l) \/ mapAddDevice(l)
      BY <2>2, <3>5 DEF mapAddUser, mapAddDevice, Recover, PlaceOf, TypeOK
    <3>11. CASE login(l)
      BY <2>2, <3>11 DEF login, links, PlaceOf, TypeOK
    <3>6. CASE sendLoginResponse(l)
      BY <2>2, <3>6 DEF sendLoginResponse, PlaceOf, TypeOK
    <3>7. CASE OnDisconnect(l)
      BY <2>2, <3>7 DEF OnDisconnect, links, PlaceOf, TypeOK
    <3>8. CASE logout(l)
      BY <2>2, <3>8 DEF logout, links, PlaceOf, TypeOK
    <3>9. CASE mapDelete(l)
      BY <2>2, <3>9 DEF mapDelete, history, PlaceOf, TypeOK
    <3>10. CASE DeleteDeviceClient(l)
      BY <2>2, <3>10 DEF DeleteDeviceClient, PlaceOf, TypeOK
    <3> QED
      BY <1>1, <3>1, <3>2, <3>3, <3>4, <3>5, <3>6, <3>7, <3>8, <3>9, <3>10, <3>11, PacketIs
         DEF LinkStep, Work
  <2> QED
    BY <2>1, <2>3 DEF Places
<1>2. CASE Crash
  BY <1>2 DEF Crash, Places, PlaceOf
<1>3. CASE UNCHANGED <<links, locals, history>>
  BY <1>3 DEF links, locals, history, Places, PlaceOf
<1> QED
  BY <1>1, <1>2, <1>3, StepKinds
-----------------------------------------------------------------------------
(* While the handlers that concern an account take turns, one of them at   *)
(* most works on it, and no other link claims the account of a hang-up     *)
(* that found itself to be the only one.                                   *)
Alone(l) == pc[l] \in {"closing", "closed"} \/ (pc[l] = "counted" /\ count[l] < 2)
Turns ==
  \A k, l \in Links, a \in Accounts \ overlapped :
    /\ WorksOn(k, a) /\ WorksOn(l, a) => k = l
    /\ Alone(k) /\ acct[k] = a /\ a \in Claims(l) => k = l

LEMMA TurnsInit == Init => Turns
  BY DEF Init, Turns, WorksOn, InHandler, Living, Claims, Alone

(* The links with a claim have a CDevice, and those without a handler      *)
(* claim the account of their CDevice only.                                *)
LEMMA ClaimantsLive ==
  ASSUME TypeInv, Places, NEW l \in Links, NEW a \in Claims(l)
  PROVE  /\ Living(l) /\ l \in m_mapDevice /\ a \in Accounts
         /\ WorksOn(l, a) \/ (pc[l] = "idle" /\ acct[l] = NoUuid /\ cdev[l].uuid = a)
  BY DEF TypeInv, TypeOK, Places, PlaceOf, Claims, WorksOn, InHandler, Living

(* The count of a hang-up covers every link with the uuid.                 *)
LEMMA CountSmall ==
  ASSUME TypeInv, NEW l \in m_mapDevice, NEW k \in m_mapDevice,
         cdev[k].uuid = cdev[l].uuid, Cardinality(SameUuid(l)) < 2
  PROVE  k = l
<1>1. SameUuid(l) \in SUBSET Links
  BY DEF SameUuid, TypeInv, TypeOK
<1>2. IsFiniteSet(SameUuid(l))
  BY <1>1, LinksFinite, FS_Subset
<1>3. {k, l} \subseteq SameUuid(l)
  BY DEF SameUuid
<1>4. Cardinality({k, l}) <= Cardinality(SameUuid(l)) /\ Cardinality(SameUuid(l)) \in Nat
  BY <1>2, <1>3, FS_Subset, FS_CardinalityType
<1>5. ASSUME k # l PROVE Cardinality({k, l}) = 2
  <2>1. IsFiniteSet({l}) /\ Cardinality({l}) = 1
    BY FS_Singleton
  <2>2. {k, l} = {l} \cup {k} /\ k \notin {l}
    BY <1>5
  <2>3. Cardinality({l} \cup {k}) = Cardinality({l}) + 1
    BY <2>1, <2>2, FS_AddElement
  <2> QED
    BY <2>1, <2>2, <2>3
<1>6. Cardinality({k, l}) \in Nat
  BY <1>2, <1>3, FS_Subset, FS_CardinalityType
<1> QED
  BY <1>4, <1>5, <1>6

(* What a step of a link adds to its own claims and work.                  *)
LEMMA NewWork ==
  ASSUME TypeInv, TypeInv', Places, Places', NEW l \in Links, LinkStep(l),
         NEW a \in Accounts \ overlapped'
  PROVE  /\ WorksOn(l, a)' => WorksOn(l, a) \/ \A k \in Links \ {l} : ~WorksOn(k, a)
         /\ a \in Claims(l)' => a \in Claims(l) \/ \A k \in Links \ {l} : ~WorksOn(k, a)
         /\ Alone(l)' /\ acct'[l] = a =>
              \/ Alone(l) /\ acct[l] = a
              \/ \A k \in Links \ {l} : a \notin Claims(k)
<1> USE DEF TypeInv
<1>a. a # NoUuid
  OBVIOUS
<1>1. ASSUME NEW b \in Accounts \cup {NoUuid}, Begin(l, b), UNCHANGED cdev
      PROVE  /\ Claims(l)' \subseteq Claims(l) \cup {b}
             /\ a \in {b, cdev[l].uuid} => \A k \in Links \ {l} : ~WorksOn(k, a)
  BY <1>1 DEF Begin, Claims, TypeOK
<1>2. ASSUME NEW b \in Accounts \cup {NoUuid}, Begin(l, b), UNCHANGED cdev, pc[l] = "idle",
             pc'[l] \notin {"closing", "closed", "counted"}
      PROVE  /\ WorksOn(l, a)' => \A k \in Links \ {l} : ~WorksOn(k, a)
             /\ a \in Claims(l)' => a \in Claims(l) \/ \A k \in Links \ {l} : ~WorksOn(k, a)
             /\ ~Alone(l)'
  <2>1. acct' = [acct EXCEPT ![l] = b]
    BY <1>2 DEF Begin
  <2>2. Claims(l)' \subseteq {b, cdev[l].uuid}
    BY <1>2, <2>1 DEF Claims, TypeOK
  <2> QED
    BY <1>1, <1>2, <2>2 DEF WorksOn, Alone
<1>3. CASE Packet(l)
  <2>1. CASE handleUserQuit(l)
    <3>1. cdev[l].uuid \in Accounts \cup {NoUuid}
      BY DEF TypeOK
    <3>2. pc'[l] = "quitting"
      BY <2>1 DEF handleUserQuit, TypeOK
    <3> QED
      BY <1>2, <2>1, <3>1, <3>2 DEF handleUserQuit, links
  <2>2. ASSUME NEW b \in Accounts, NEW where \in {"registering", "recording"},
               PutOnline(l, b, where)
        PROVE  /\ WorksOn(l, a)' => \A k \in Links \ {l} : ~WorksOn(k, a)
               /\ a \in Claims(l)' => a \in Claims(l) \/ \A k \in Links \ {l} : ~WorksOn(k, a)
               /\ ~Alone(l)'
    <3>1. pc'[l] = where
      BY <2>2 DEF PutOnline, TypeOK
    <3> QED
      BY <1>2, <2>2, <3>1 DEF PutOnline, links
  <2> QED
    BY <1>3, <2>1, <2>2, PacketIs
<1>4. CASE CountByUuid(l)
  <2>1. /\ pc[l] = "idle" /\ Begin(l, cdev[l].uuid) /\ UNCHANGED cdev
        /\ count'[l] = Cardinality(SameUuid(l))
        /\ acct'[l] = cdev[l].uuid /\ pc'[l] = "counted"
    BY <1>4 DEF CountByUuid, Begin, links, TypeOK
  <2>2. cdev[l].uuid \in Accounts \cup {NoUuid}
    BY DEF TypeOK
  <2>3. Claims(l)' = Claims(l)
    BY <2>1 DEF Claims, Places, PlaceOf, InHandler, Living
  <2>4. WorksOn(l, a)' => \A k \in Links \ {l} : ~WorksOn(k, a)
    BY <2>1, <2>2, <2>3, <1>1 DEF WorksOn, Claims, Places, PlaceOf, InHandler, Living
  <2>5. ASSUME Alone(l)', acct'[l] = a, NEW k \in Links \ {l}, a \in Claims(k) PROVE FALSE
    <3>1. Cardinality(SameUuid(l)) < 2 /\ a = cdev[l].uuid
      BY <2>1, <2>5 DEF Alone
    <3>2. k \in m_mapDevice /\ (WorksOn(k, a) \/ cdev[k].uuid = a)
      BY <2>5, ClaimantsLive
    <3>3. l \in m_mapDevice
      BY <2>1 DEF Places, PlaceOf, Living
    <3>4. ~WorksOn(k, a)
      BY <1>1, <2>1, <2>2, <3>1
    <3> QED
      BY <3>1, <3>2, <3>3, <3>4, CountSmall, <2>5
  <2> QED
    BY <2>3, <2>4, <2>5
<1>5. CASE OnConnect(l)
  BY <1>5 DEF OnConnect, WorksOn, InHandler, Living, Claims, Alone, Places, PlaceOf, TypeOK
<1>6. CASE mapAddUser(l) \/ mapAddDevice(l)
  <2>1. cdev'[l].uuid = cdev[l].uuid
    BY <1>6, KickoutKeeps DEF mapAddUser, mapAddDevice
  <2> QED
    BY <1>6, <2>1 DEF mapAddUser, mapAddDevice, WorksOn, InHandler, Living, Claims, Alone, TypeOK
<1>7. CASE sendLoginResponse(l)
  BY <1>7 DEF sendLoginResponse, WorksOn, InHandler, Living, Claims, Alone, TypeOK
<1>12. CASE login(l)
  BY <1>12 DEF login, links, WorksOn, InHandler, Living, Claims, Alone, TypeOK
<1>8. CASE OnDisconnect(l)
  BY <1>8 DEF OnDisconnect, links, WorksOn, InHandler, Living, Claims, Alone, TypeOK
<1>9. CASE logout(l)
  BY <1>9 DEF logout, links, WorksOn, InHandler, Living, Claims, Alone, TypeOK
<1>10. CASE mapDelete(l)
  BY <1>10 DEF mapDelete, WorksOn, InHandler, Living, Claims, Alone, TypeOK
<1>11. CASE DeleteDeviceClient(l)
  BY <1>11 DEF DeleteDeviceClient, WorksOn, InHandler, Living, Claims, Alone, TypeOK
<1> QED
  BY <1>3, <1>4, <1>5, <1>6, <1>7, <1>8, <1>9, <1>10, <1>11, <1>12 DEF LinkStep, Work

LEMMA TurnsStep ==
  TypeInv /\ TypeInv' /\ Places /\ Places' /\ Turns /\ [Next]_vars => Turns'
<1> SUFFICES ASSUME TypeInv, TypeInv', Places, Places', Turns, [Next]_vars PROVE Turns'
  OBVIOUS
<1>1. ASSUME NEW m \in Links, LinkStep(m) PROVE Turns'
  <2> SUFFICES ASSUME NEW k \in Links, NEW l \in Links, NEW a \in Accounts \ overlapped'
               PROVE  /\ WorksOn(k, a)' /\ WorksOn(l, a)' => k = l
                      /\ Alone(k)' /\ acct'[k] = a /\ a \in Claims(l)' => k = l
    BY DEF Turns
  <2>1. a \notin overlapped
    BY <1>1, HistoryGrows
  <2>2. ASSUME NEW j \in Links \ {m}
        PROVE  /\ WorksOn(j, a)' <=> WorksOn(j, a)
               /\ a \in Claims(j)' <=> a \in Claims(j)
               /\ Alone(j)' <=> Alone(j)
               /\ acct'[j] = acct[j]
    BY <1>1, OthersKept DEF KeptBy, WorksOn, InHandler, Living, Claims, Alone
  <2>3. /\ WorksOn(m, a)' => WorksOn(m, a) \/ \A j \in Links \ {m} : ~WorksOn(j, a)
        /\ a \in Claims(m)' => a \in Claims(m) \/ \A j \in Links \ {m} : ~WorksOn(j, a)
        /\ Alone(m)' /\ acct'[m] = a =>
             \/ Alone(m) /\ acct[m] = a
             \/ \A j \in Links \ {m} : a \notin Claims(j)
    BY <1>1, NewWork
  <2>4. ASSUME NEW j \in Links, Alone(j), acct[j] = a PROVE WorksOn(j, a)
    BY <2>4 DEF Alone, WorksOn, InHandler, Living, Claims
  <2>5. /\ WorksOn(k, a) /\ WorksOn(l, a) => k = l
        /\ Alone(k) /\ acct[k] = a /\ a \in Claims(l) => k = l
    BY <2>1 DEF Turns
  <2> QED
    BY <2>2, <2>3, <2>4, <2>5
<1>2. CASE Crash
  BY <1>2 DEF Crash, Turns, WorksOn, InHandler, Living, Claims, Alone
<1>3. CASE UNCHANGED <<links, locals, history>>
  BY <1>3 DEF links, locals, history, Turns, WorksOn, InHandler, Living, Claims, Alone
<1> QED
  BY <1>1, <1>2, <1>3, StepKinds
-----------------------------------------------------------------------------
(* While the handlers take turns and the user has not quit, the link that  *)
(* is logged in as the user is the one recorded for it.                    *)
StandingOf(l) ==
  /\ /\ Living(l) /\ pc[l] \notin {"answering", "deleting"} /\ cdev[l].logined
     /\ cdev[l].uuid \in Users \ (quitted \cup overlapped)
     => mUser[l] = cdev[l].uuid
  /\ pc[l] = "answering" /\ acct[l] \in Users \ (quitted \cup overlapped)
     => mUser[l] = acct[l]
Standing == \A l \in Links : StandingOf(l)

LEMMA StandingInit == Init => Standing
  BY DEF Init, Standing, StandingOf, Living

(* A step of l takes the address of another link k only from a user that   *)
(* quits or overlaps, or by kicking k out.                                 *)
LEMMA AddressesKept ==
  ASSUME TypeInv, Places, Turns, NEW l \in Links, LinkStep(l), NEW k \in Links \ {l},
         NEW u \in Users \ (quitted' \cup overlapped'), mUser[k] = u, u \in Claims(k)
  PROVE  \/ mUser'[k] = u
         \/ ~cdev'[k].logined /\ pc[k] # "answering"
<1> USE DEF TypeInv
<1>1. u \notin quitted /\ u \notin overlapped
  BY HistoryGrows
<1>2. KeptBy(k, l)
  BY OthersKept
<1>3. CASE mapAddUser(l)
  <2>1. ASSUME acct[l] = u PROVE ~cdev'[k].logined /\ pc[k] # "answering"
    <3>1. k \in m_mapDevice
      BY ClaimantsLive
    <3>2. k \in Others(mUser, l, u) \cap m_mapDevice
      BY <3>1 DEF Others
    <3>3. cdev[k] \in [logined : BOOLEAN, uuid : Accounts \cup {NoUuid}]
      BY DEF TypeOK
    <3>4. cdev'[k] = [cdev[k] EXCEPT !.logined = FALSE]
      BY <1>3, <2>1, <3>2 DEF mapAddUser, Kickout
    <3>5. ~cdev'[k].logined
      BY <3>3, <3>4
    <3>6. WorksOn(l, u)
      BY <1>3, <2>1 DEF mapAddUser, WorksOn, InHandler, Living, Claims
    <3>7. pc[k] = "answering" => WorksOn(k, u)
      BY DEF WorksOn, InHandler, Living
    <3> QED
      BY <1>1, <3>5, <3>6, <3>7 DEF Turns
  <2> QED
    BY <1>2, <2>1 DEF KeptBy
<1>4. CASE mapDelete(l)
  <2>1. ASSUME acct[l] = u PROVE FALSE
    <3>1. pc[l] # "quit"
      BY <1>1, <2>1 DEF Places, PlaceOf, Quitting
    <3>2. Alone(l)
      BY <1>4, <3>1 DEF mapDelete, Alone
    <3> QED
      BY <1>1, <2>1, <3>2 DEF Turns
  <2> QED
    BY <1>2, <2>1 DEF KeptBy
<1>5. CASE ~mapAddUser(l) /\ ~mapDelete(l)
  <2>1. mUser' = mUser
    BY <1>5, PacketIs
       DEF LinkStep, Work, PutOnline, handleUserQuit, OnConnect, CountByUuid, login, mapAddDevice,
           sendLoginResponse, OnDisconnect, logout, DeleteDeviceClient, links
  <2> QED
    BY <2>1
<1> QED
  BY <1>3, <1>4, <1>5

LEMMA StandingStep ==
  TypeInv /\ TypeInv' /\ Places /\ Turns /\ Standing /\ [Next]_vars => Standing'
<1> SUFFICES ASSUME TypeInv, TypeInv', Places, Turns, Standing, [Next]_vars PROVE Standing'
  OBVIOUS
<1> USE DEF TypeInv
<1>1. ASSUME NEW l \in Links, LinkStep(l) PROVE Standing'
  <2>1. quitted \subseteq quitted' /\ overlapped \subseteq overlapped'
    BY <1>1, HistoryGrows
  <2>2. ASSUME NEW k \in Links \ {l} PROVE StandingOf(k)'
    <3>1. KeptBy(k, l) /\ StandingOf(k) /\ (cdev'[k].logined => cdev[k] = cdev'[k])
      BY <1>1, OthersKept DEF Standing, KeptBy
    <3>2. ASSUME Living(k)', pc'[k] \notin {"answering", "deleting"}, cdev'[k].logined,
                 cdev'[k].uuid \in Users \ (quitted' \cup overlapped')
          PROVE  mUser'[k] = cdev'[k].uuid
      <4> DEFINE u == cdev[k].uuid
      <4>1. mUser[k] = u /\ u \in Users \ (quitted' \cup overlapped') /\ cdev'[k].uuid = u
        BY <2>1, <3>1, <3>2 DEF KeptBy, StandingOf, Living
      <4>2. u \in Claims(k)
        BY <4>1 DEF Claims
      <4> QED
        BY <1>1, <3>2, <4>1, <4>2, AddressesKept
    <3>3. ASSUME pc'[k] = "answering", acct'[k] \in Users \ (quitted' \cup overlapped')
          PROVE  mUser'[k] = acct'[k]
      <4> DEFINE u == acct[k]
      <4>1. mUser[k] = u /\ u \in Users \ (quitted' \cup overlapped') /\ acct'[k] = u
            /\ pc[k] = "answering"
        BY <2>1, <3>1, <3>3 DEF KeptBy, StandingOf
      <4>2. u \in Claims(k)
        BY <4>1 DEF Claims
      <4> QED
        BY <1>1, <4>1, <4>2, AddressesKept
    <3> QED
      BY <3>2, <3>3 DEF StandingOf
  <2>3. StandingOf(l)
    BY DEF Standing
  <2>4. StandingOf(l)'
    <3>1. CASE OnConnect(l)
      BY <3>1 DEF OnConnect, StandingOf, TypeOK
    <3>2. CASE handleUserQuit(l)
      BY <3>2 DEF handleUserQuit, links, StandingOf, TypeOK
    <3>3. ASSUME NEW a \in Accounts, NEW where \in {"registering", "recording"},
                 PutOnline(l, a, where)
          PROVE  StandingOf(l)'
      BY <2>1, <2>3, <3>3 DEF PutOnline, links, StandingOf, Living, TypeOK
    <3>4. CASE CountByUuid(l)
      BY <2>1, <2>3, <3>4 DEF CountByUuid, links, StandingOf, Living, TypeOK
    <3>5. CASE mapAddUser(l)
      <4>1. mUser'[l] = acct[l] /\ pc'[l] = "answering" /\ acct' = acct
        BY <3>5, MapAddUserIs DEF mapAddUser, TypeOK
      <4> QED
        BY <4>1 DEF StandingOf
    <3>6. CASE mapAddDevice(l)
      BY <3>6 DEF mapAddDevice, StandingOf, TypeOK
    <3>7. CASE sendLoginResponse(l)
      BY <2>1, <2>3, <3>7 DEF sendLoginResponse, history, StandingOf, Living, TypeOK
    <3>8. CASE login(l) \/ OnDisconnect(l) \/ logout(l)
      BY <2>1, <2>3, <3>8 DEF login, OnDisconnect, logout, links, history, StandingOf, Living, TypeOK
    <3>9. CASE mapDelete(l)
      <4>1. pc'[l] = "deleting" \/ cdev[l].uuid \in quitted
        BY <3>9 DEF mapDelete, Places, PlaceOf, Quitting, TypeOK
      <4>2. cdev' = cdev /\ pc'[l] \in {"deleting", "idle"}
        BY <3>9 DEF mapDelete, TypeOK
      <4> QED
        BY <2>1, <4>1, <4>2 DEF StandingOf
    <3>10. CASE DeleteDeviceClient(l)
      BY <3>10 DEF DeleteDeviceClient, StandingOf, Living, TypeOK
    <3> QED
      BY <1>1, <3>1, <3>2, <3>3, <3>4, <3>5, <3>6, <3>7, <3>8, <3>9, <3>10,
         PacketIs
         DEF LinkStep, Work
  <2> QED
    BY <2>2, <2>4 DEF Standing
<1>2. CASE Crash
  BY <1>2 DEF Crash, Standing, StandingOf, Living
<1>3. CASE UNCHANGED <<links, locals, history>>
  BY <1>3 DEF links, locals, history, Standing, StandingOf, Living
<1> QED
  BY <1>1, <1>2, <1>3, StepKinds

TurnsInv == TypeInv /\ Places /\ Turns /\ Standing

LEMMA TurnsInvCorrect == Spec => []TurnsInv
<1>1. Init => TurnsInv
  BY TypeInit, PlacesInit, TurnsInit, StandingInit DEF TurnsInv
<1>2. TurnsInv /\ [Next]_vars => TurnsInv'
  BY TypeStep, PlacesStep, TurnsStep, StandingStep DEF TurnsInv
<1> QED
  BY <1>1, <1>2, PTL DEF Spec

(* While the handlers that concern a user take turns, and the user has not *)
(* quit, one link at most is logged in as the user: mapAddUser kicked the  *)
(* others out.                                                             *)
THEOREM KickedOutOthers == Spec => []KickedOutInTurn
<1>1. TurnsInv /\ OneAddressPerAccount => KickedOutInTurn
  <2> SUFFICES ASSUME TurnsInv, OneAddressPerAccount,
                      NEW u \in Users \ (quitted \cup overlapped),
                      \A l \in Links : ~WorksOn(l, u)
               PROVE  Cardinality(LoggedInAs(u)) <= 1
    BY DEF KickedOutInTurn
  <2> USE DEF TurnsInv
  <2>1. ASSUME NEW k \in LoggedInAs(u) PROVE k \in Links /\ mUser[k] = u
    <3>1. k \in Links /\ k \in m_mapDevice /\ cdev[k].logined /\ cdev[k].uuid = u
      BY DEF LoggedInAs, TypeInv, TypeOK
    <3>2. u \in Claims(k)
      BY <3>1 DEF Claims
    <3>3. Living(k) /\ pc[k] = "idle"
      BY <3>1, <3>2, ClaimantsLive
    <3> QED
      BY <3>1, <3>3 DEF Standing, StandingOf
  <2>2. \A k, l \in LoggedInAs(u) : k = l
    BY <2>1 DEF OneAddressPerAccount
  <2>3. CASE LoggedInAs(u) = {}
    BY <2>3, FS_EmptySet
  <2>4. ASSUME NEW k \in LoggedInAs(u) PROVE Cardinality(LoggedInAs(u)) <= 1
    <3>1. LoggedInAs(u) = {k}
      BY <2>2, <2>4
    <3> QED
      BY <3>1, FS_Singleton
  <2> QED
    BY <2>3, <2>4
<1> QED
  BY <1>1, TurnsInvCorrect, OneAddress, PTL

(* A link that hangs up takes the address of its user from no other link   *)
(* that is logged in as that user, while the handlers take turns.          *)
THEOREM HangUpSpares == Spec => HangUpSparesOthers
<1>1. TurnsInv => [\A k, l \in Links :
                     /\ k # l
                     /\ mapDelete(k) /\ pc[k] = "closed"
                     /\ cdev[l].logined /\ mUser[l] = cdev[l].uuid
                     /\ mUser[l] \notin overlapped
                     => mUser'[l] = mUser[l]]_vars
  <2> SUFFICES ASSUME TurnsInv, NEW k \in Links, NEW l \in Links \ {k},
                      mapDelete(k), pc[k] = "closed",
                      cdev[l].logined, mUser[l] = cdev[l].uuid, mUser[l] \notin overlapped
               PROVE  mUser'[l] = mUser[l]
    BY DEF mapDelete
  <2> USE DEF TurnsInv
  <2>1. cdev[l].uuid \in Accounts
    BY DEF TypeInv, TypeOK, HandlersTyped
  <2>2. cdev[l].uuid \in Claims(l) /\ Alone(k)
    BY <2>1 DEF Claims, Alone
  <2>3. acct[k] # cdev[l].uuid
    BY <2>1, <2>2 DEF Turns
  <2>4. KeptBy(l, k)
    BY OthersKept DEF LinkStep, Work
  <2> QED
    BY <2>3, <2>4 DEF KeptBy
<1> QED
  BY <1>1, TurnsInvCorrect, PTL DEF Spec, HangUpSparesOthers
-----------------------------------------------------------------------------
(* The inductive form of OnlineStatusExact.  An account that is not shared *)
(* is claimed by one link at most, is recorded there only once that link's *)
(* handler has recorded it, and its status is what that handler made of it *)
(* so far; an account nobody claims is offline once the start-up has       *)
(* cleared the table, unless it is stranded.                               *)
At(l, a) == a \in {mUser[l], mDevice[l]}
Holds(l, a) == cdev[l].uuid = a \/ (pc[l] = "answering" /\ acct[l] = a)
StageOf(l, a) ==
  /\ pc[l] \in {"registering", "recording", "answering"} => acct[l] = a /\ status[a]
  /\ pc[l] = "answering" => At(l, a) /\ a \notin stranded
  /\ pc[l] \in {"idle", "quitting", "counted", "closing"} =>
       (status[a] <=> (At(l, a) \/ a \in stranded))
  /\ pc[l] \in {"quit", "closed"} => ~status[a]
  /\ pc[l] = "deleting" => (status[a] => a \in stranded) /\ (At(l, a) => a \in stranded)
  /\ pc[l] = "counted" => count[l] < 2
  /\ cdev[l].uuid = a => cdev[l].logined
StagesAt(l, a) ==
  /\ \A k \in Links \ {l} : a \in Claims(l) => a \notin Claims(k)
  /\ \A k \in Links \ {l} : Holds(l, a) => ~At(k, a)
  /\ At(l, a) => a \in Claims(l) \/ a \in stranded
  /\ a \in Claims(l) => StageOf(l, a)
  /\ a \in stranded => status[a]
Stages == \A a \in Accounts \ shared, l \in Links : StagesAt(l, a)

Started == main \in {"listening", "serving", "deaf"} \/ (main = "started" /\ Result)
Cleared ==
  /\ main = "devices" => \A u \in Users : ~status[u]
  /\ Links = {} => stranded = {}
  /\ main # "serving" => stranded = {} /\ \A l \in Links : pc[l] = "fresh"
  /\ \A a \in Accounts \ shared :
       Started /\ (\A l \in Links : a \notin Claims(l)) => (status[a] => a \in stranded)

LEMMA StagesInit == Init => Stages /\ Cleared
  BY DEF Init, StartUpInit, Stages, StagesAt, Holds, Claims, At, Cleared, Started

(* A status changes only by the handler of a link that claims the account, *)
(* and so does whether the account is stranded.                            *)
LEMMA StatusKept ==
  ASSUME TypeInv, NEW l \in Links, LinkStep(l), NEW a \in Accounts
  PROVE  /\ status'[a] = status[a] \/ a \in Claims(l)' \/ a \in Claims(l)
         /\ status'[a] /\ ~status[a] => a \in Claims(l)'
         /\ a # acct[l] => (a \in stranded' <=> a \in stranded)
<1> USE DEF TypeInv
<1>1. ASSUME NEW b \in Accounts, NEW where \in {"registering", "recording"}, PutOnline(l, b, where)
      PROVE  /\ status'[a] = status[a] \/ a \in Claims(l)'
             /\ stranded' = stranded
  BY <1>1 DEF PutOnline, Begin, Claims, TypeOK
<1>2. CASE logout(l)
  <2>1. \/ status' = [status EXCEPT ![acct[l]] = FALSE]
        \/ status' = status
    BY <1>2 DEF logout
  <2>2. a = acct[l] => a \in Claims(l)
    BY DEF Claims
  <2>3. a # acct[l] => (a \in stranded' <=> a \in stranded)
    BY <1>2 DEF logout
  <2> QED
    BY <2>1, <2>2, <2>3 DEF TypeOK
<1>3. CASE login(l)
  <2>1. \/ status' = [status EXCEPT ![acct[l]] = TRUE] /\ acct' = acct /\ UNCHANGED stranded
        \/ status' = status /\ stranded' = stranded \cup {b \in {acct[l]} : status[b]}
    BY <1>3 DEF login
  <2>2. acct' = acct /\ a = acct[l] => a \in Claims(l)'
    BY DEF Claims
  <2> QED
    BY <2>1, <2>2 DEF TypeOK
<1>4. CASE mapAddUser(l) \/ mapAddDevice(l)
  BY <1>4 DEF mapAddUser, mapAddDevice, Recover
<1>5. CASE ~Packet(l) /\ ~logout(l) /\ ~login(l) /\ ~mapAddUser(l) /\ ~mapAddDevice(l)
  BY <1>5 DEF LinkStep, Work, OnConnect, CountByUuid, sendLoginResponse, OnDisconnect, mapDelete,
              DeleteDeviceClient, history
<1>6. CASE handleUserQuit(l)
  BY <1>6 DEF handleUserQuit
<1> QED
  BY <1>1, <1>2, <1>3, <1>4, <1>5, <1>6, PacketIs

(* A step of l does nothing to the accounts of another link, and leaves it *)
(* an address at most.                                                     *)
LEMMA StageKept ==
  ASSUME TypeInv, Places, Routes, Stages, NEW l \in Links, LinkStep(l), NEW k \in Links \ {l},
         NEW a \in Accounts \ shared
  PROVE  /\ a \in Claims(k)' <=> a \in Claims(k)
         /\ Holds(k, a)' <=> Holds(k, a)
         /\ At(k, a)' => At(k, a)
         /\ a \in Claims(k) /\ a \notin Claims(l)' => StageOf(k, a)'
<1> USE DEF TypeInv
<1>1. KeptBy(k, l) /\ StagesAt(k, a) /\ StagesAt(l, a)
  BY OthersKept DEF Stages
<1>2. a # NoUuid
  OBVIOUS
<1>3. /\ a \in Claims(k)' <=> a \in Claims(k)
      /\ Holds(k, a)' <=> Holds(k, a)
  BY <1>1 DEF KeptBy, Claims, Holds
<1>4. At(k, a)' => At(k, a)
  BY <1>1, <1>2 DEF KeptBy, At
<1>5. ASSUME a \in Claims(k), a \notin Claims(l)' PROVE StageOf(k, a)'
  <2>1. a \notin Claims(l) /\ StageOf(k, a)
    BY <1>1, <1>5 DEF StagesAt
  <2>2. acct[l] # a
    BY <1>2, <2>1 DEF Claims
  <2>3. status'[a] = status[a] /\ (a \in stranded' <=> a \in stranded)
    BY <1>5, <2>1, <2>2, StatusKept
  <2>4. At(k, a)' <=> At(k, a)
    BY <1>1, <1>4, <2>2 DEF KeptBy, At
  <2>5. cdev[k].uuid = a => cdev'[k] = cdev[k]
    <3>1. SUFFICES ASSUME cdev[k].uuid = a, cdev'[k] # cdev[k] PROVE FALSE
      OBVIOUS
    <3>2. /\ k \in m_mapDevice /\ mUser[k] # NoUuid
          /\ mUser[k] = acct[l] /\ acct[l] # a
      BY <1>1, <2>2, <3>1 DEF KeptBy
    <3>3. CASE pc[k] \in Settled
      <4>1. Owned(k, mUser[k])
        BY <3>3 DEF Routes, RouteOf
      <4> QED
        BY <3>1, <3>2, <4>1 DEF Owned
    <3>4. CASE pc[k] = "answering"
      <4>1. mUser[k] = acct[k] /\ acct[k] = a
        BY <2>1, <3>2, <3>4 DEF Routes, RouteOf, StageOf
      <4> QED
        BY <3>2, <4>1
    <3>5. Living(k)
      BY <3>2 DEF Places, PlaceOf
    <3> QED
      BY <3>3, <3>4, <3>5 DEF Living, Settled, HangingUp, Quitting, TypeOK
  <2>6. cdev'[k].uuid = a => cdev'[k].logined
    BY <1>1, <2>1, <2>5 DEF KeptBy, StageOf
  <2> QED
    BY <1>1, <2>1, <2>3, <2>4, <2>6 DEF KeptBy, StageOf
<1> QED
  BY <1>3, <1>4, <1>5

(* What a step of l makes of its own accounts.                             *)
Own(l, a) ==
  /\ At(l, a)' => a \in Claims(l)' \/ (At(l, a) /\ a \in stranded')
  /\ a \in Claims(l)' => StageOf(l, a)'
  /\ a \in Claims(l) /\ a \notin Claims(l)' => (status'[a] => a \in stranded')
  /\ Holds(l, a)' => Holds(l, a) \/ \A k \in Links \ {l} : ~At(k, a)'
  /\ a \in stranded /\ a \notin stranded' => \A k \in Links \ {l} : ~At(k, a)'
  /\ a \in stranded' => status'[a]

LEMMA StageOwn ==
  ASSUME TypeInv, TypeInv', Places, Routes, Stages, NEW l \in Links, LinkStep(l),
         NEW a \in Accounts \ shared'
  PROVE  /\ a \in Claims(l)' => \A k \in Links \ {l} : a \notin Claims(k)
         /\ Own(l, a)
<1> USE DEF TypeInv
<1>a. a \notin shared /\ a # NoUuid
  BY HistoryGrows
<1>b. StagesAt(l, a) /\ RouteOf(l) /\ PlaceOf(l)
  BY <1>a DEF Stages, Routes, Places
<1> DEFINE Sole == a \in Claims(l)' => \A k \in Links \ {l} : a \notin Claims(k)
<1>c. ASSUME a \in Claims(l)' => a \in Claims(l) PROVE Sole
  BY <1>b, <1>c DEF StagesAt
<1>d. Holds(l, a) => \A k \in Links \ {l} : ~At(k, a)
  BY <1>b DEF StagesAt
<1>1. CASE OnConnect(l)
  <2>1. /\ pc'[l] = "idle" /\ cdev'[l] = NoDevice /\ acct'[l] = NoUuid
        /\ UNCHANGED <<mUser, mDevice, status, stranded>>
    BY <1>1, <1>b DEF OnConnect, PlaceOf, InHandler, Living, history, TypeOK
  <2>2. ~At(l, a)
    BY <1>1, <1>a, <1>b DEF OnConnect, RouteOf, At
  <2>3. a \notin Claims(l) /\ a \notin Claims(l)' /\ ~Holds(l, a)'
    BY <1>1, <1>a, <1>b, <2>1 DEF OnConnect, PlaceOf, InHandler, Living, Claims, Holds
  <2> QED
    BY <1>b, <2>1, <2>2, <2>3 DEF At, Own, StagesAt
<1>2. CASE handleUserQuit(l)
  <2>1. /\ pc[l] = "idle" /\ pc'[l] = "quitting" /\ acct'[l] = cdev[l].uuid /\ acct[l] = NoUuid
        /\ UNCHANGED <<cdev, mUser, mDevice, status, count, stranded>>
    BY <1>2, <1>b DEF handleUserQuit, Begin, links, PlaceOf, InHandler, TypeOK
  <2>2. Claims(l)' = Claims(l) /\ (Holds(l, a)' <=> Holds(l, a)) /\ (At(l, a)' <=> At(l, a))
    BY <2>1 DEF Claims, Holds, At
  <2> QED
    BY <1>c, <1>b, <2>1, <2>2 DEF StagesAt, StageOf, Own
<1>3. ASSUME NEW b \in Accounts, NEW where \in {"registering", "recording"}, PutOnline(l, b, where)
      PROVE  Own(l, a) /\ Sole
  <2>1. /\ pc[l] = "idle" /\ pc'[l] = where /\ acct'[l] = b /\ acct[l] = NoUuid
        /\ UNCHANGED <<cdev, mUser, mDevice, count, stranded>>
        /\ status' = [status EXCEPT ![b] = TRUE]
    BY <1>3, <1>b DEF PutOnline, Begin, links, PlaceOf, InHandler, TypeOK
  <2>2. /\ a = b => \A k \in Links \ {l} : Living(k) => a \notin Claims(k)
        /\ a = cdev[l].uuid => a = b
    BY <1>3, <1>a DEF PutOnline
  <2>3. a \in Claims(l)' <=> a = b
    BY <2>1, <2>2 DEF Claims
  <2>4. a \in Claims(l) => a = b
    BY <2>1, <2>2 DEF Claims
  <2>5. Sole
    BY <2>2, <2>3, ClaimantsLive
  <2>6. (At(l, a)' <=> At(l, a)) /\ (Holds(l, a)' => Holds(l, a))
    BY <2>1 DEF At, Holds
  <2>7. a = b => status'[a]
    BY <2>1 DEF TypeOK
  <2>8. a \in Claims(l)' => StageOf(l, a)'
    <3> SUFFICES ASSUME a = b PROVE StageOf(l, a)'
      BY <2>3
    <3>2. cdev[l].uuid = a => cdev[l].logined
      BY <1>b, <2>1, <1>a DEF StagesAt, StageOf, Claims
    <3> QED
      BY <2>1, <2>7, <3>2 DEF StageOf
  <2>9. a \in stranded' => status'[a]
    BY <1>b, <2>1, <2>7 DEF StagesAt, TypeOK
  <2> QED
    BY <1>b, <2>1, <2>3, <2>4, <2>5, <2>6, <2>8, <2>9 DEF StagesAt, Own
<1>12. CASE login(l)
  <2>1. /\ pc[l] = "registering" /\ UNCHANGED <<cdev, mUser, mDevice, count>>
    BY <1>12 DEF login, links
  <2>2. CASE pc'[l] = "recording"
    <3>1. status' = [status EXCEPT ![acct[l]] = TRUE] /\ acct' = acct /\ stranded' = stranded
      BY <1>12, <2>2 DEF login, TypeOK
    <3>2. Claims(l)' = Claims(l) /\ (Holds(l, a)' <=> Holds(l, a)) /\ (At(l, a)' <=> At(l, a))
      BY <2>1, <2>2, <3>1 DEF Claims, Holds, At
    <3>3. status[a] => status'[a]
      BY <3>1 DEF TypeOK
    <3>4. a \in Claims(l) => acct[l] = a /\ status[a]
      BY <1>b, <2>1 DEF StagesAt, StageOf
    <3> QED
      BY <1>c, <1>b, <2>1, <2>2, <3>1, <3>2, <3>3, <3>4 DEF StagesAt, StageOf, Own
  <2>3. CASE pc'[l] = "idle"
    <3>1. /\ status' = status /\ acct'[l] = NoUuid
          /\ stranded' = stranded \cup {x \in {acct[l]} : status[x]}
      BY <1>12, <2>3 DEF login, TypeOK
    <3>2. /\ a \in Claims(l)' => a \in Claims(l) /\ cdev[l].uuid = a
          /\ Holds(l, a)' => Holds(l, a)
          /\ At(l, a)' <=> At(l, a)
      BY <1>a, <2>1, <2>3, <3>1 DEF Claims, Holds, At
    <3>3. a \in Claims(l) => a \in stranded' /\ status[a]
      BY <1>b, <2>1, <3>1 DEF StagesAt, StageOf
    <3>4. a \in stranded' => status[a]
      BY <1>b, <3>1 DEF StagesAt
    <3>5. a \in Claims(l)' => StageOf(l, a)'
      BY <1>b, <2>1, <2>3, <3>1, <3>2, <3>3 DEF StagesAt, StageOf
    <3>6. a \in stranded => a \in stranded'
      BY <3>1
    <3> QED
      BY <1>c, <1>b, <3>1, <3>2, <3>3, <3>4, <3>5, <3>6 DEF StagesAt, Own
  <2> QED
    BY <1>12, <2>2, <2>3 DEF login, TypeOK
<1>4. CASE CountByUuid(l)
  <2>1. /\ pc[l] = "idle" /\ pc'[l] = "counted" /\ acct'[l] = cdev[l].uuid /\ acct[l] = NoUuid
        /\ UNCHANGED <<cdev, mUser, mDevice, status, stranded>>
        /\ count'[l] = Cardinality(SameUuid(l))
    BY <1>4, <1>b DEF CountByUuid, Begin, links, PlaceOf, InHandler, TypeOK
  <2>2. Claims(l)' = Claims(l) /\ (Holds(l, a)' <=> Holds(l, a)) /\ (At(l, a)' <=> At(l, a))
    BY <2>1 DEF Claims, Holds, At
  <2>3. a \in Claims(l) => count'[l] < 2
    <3> SUFFICES ASSUME a \in Claims(l) PROVE Cardinality(SameUuid(l)) < 2
      BY <2>1
    <3>1. cdev[l].uuid = a
      BY <2>1 DEF Claims
    <3>2. SameUuid(l) \subseteq {l}
      <4>1. \A k \in SameUuid(l) : k \in Links /\ a \in Claims(k)
        BY <3>1, <1>a DEF SameUuid, Claims, TypeOK
      <4> QED
        BY <4>1, <1>b DEF StagesAt
    <3>3. IsFiniteSet({l}) /\ Cardinality({l}) = 1
      BY FS_Singleton
    <3>4. Cardinality(SameUuid(l)) <= Cardinality({l}) /\ Cardinality(SameUuid(l)) \in Nat
      BY <3>2, <3>3, FS_Subset, SameUuidFinite
    <3> QED
      BY <3>3, <3>4
  <2> QED
    BY <1>c, <1>b, <2>1, <2>2, <2>3 DEF StagesAt, StageOf, Own
<1>5. CASE mapAddUser(l) \/ mapAddDevice(l)
  <2>1. /\ pc[l] = "recording" /\ pc'[l] = "answering"
        /\ UNCHANGED <<acct, count, status>>
        /\ stranded' = stranded \ {acct[l]}
    BY <1>5 DEF mapAddUser, mapAddDevice, Recover, TypeOK
  <2>2. cdev'[l] = cdev[l]
    BY <1>5, KickoutKeeps DEF mapAddUser, mapAddDevice, Others
  <2>3. /\ acct[l] = mUser'[l] \/ acct[l] = mDevice'[l]
        /\ At(l, a)' => acct[l] = a \/ At(l, a)
        /\ acct[l] = a => \A k \in Links \ {l} : ~At(k, a)'
    <3>1. CASE mapAddUser(l)
      <4>1. /\ mUser'[l] = acct[l] /\ mDevice' = mDevice /\ acct[l] \in Users
            /\ \A k \in Links \ {l} :
                 mUser'[k] = IF mUser[k] = acct[l] THEN NoUuid ELSE mUser[k]
        BY <3>1, MapAddUserIs DEF mapAddUser
      <4>2. \A k \in Links : mDevice[k] \notin Users
        BY DEF TypeOK
      <4> QED
        BY <1>a, <4>1, <4>2 DEF At
    <3>2. CASE mapAddDevice(l)
      <4>1. /\ mDevice'[l] = acct[l] /\ mUser' = mUser /\ acct[l] \in Devices
            /\ \A k \in Links \ {l} :
                 mDevice'[k] = IF mDevice[k] = acct[l] THEN NoUuid ELSE mDevice[k]
        BY <3>2, MapAddDeviceIs DEF mapAddDevice
      <4>2. \A k \in Links : mUser[k] \notin Devices
        BY DEF TypeOK
      <4> QED
        BY <1>a, <4>1, <4>2 DEF At
    <3> QED
      BY <1>5, <3>1, <3>2
  <2>4. Claims(l)' = Claims(l)
    BY <2>1, <2>2 DEF Claims
  <2>5. acct[l] = a => a \in Claims(l) /\ At(l, a)'
    BY <2>3, <1>a DEF Claims, At
  <2>6. a \in Claims(l) => acct[l] = a /\ status[a]
    BY <1>b, <2>1 DEF StagesAt, StageOf
  <2>7. Holds(l, a)' => Holds(l, a) \/ acct[l] = a
    BY <2>1, <2>2 DEF Holds
  <2>8. a \in Claims(l)' => StageOf(l, a)'
    BY <1>b, <2>1, <2>2, <2>4, <2>5, <2>6 DEF StagesAt, StageOf
  <2> QED
    BY <1>c, <1>b, <2>1, <2>3, <2>4, <2>5, <2>7, <2>8 DEF StagesAt, Own
<1>7. CASE sendLoginResponse(l)
  <2>1. /\ pc[l] = "answering" /\ pc'[l] = "idle" /\ acct'[l] = NoUuid
        /\ cdev'[l] = [logined |-> TRUE, uuid |-> acct[l]]
        /\ UNCHANGED <<mUser, mDevice, status, stranded>>
    BY <1>7 DEF sendLoginResponse, history, TypeOK
  <2>2. a \in Claims(l)' <=> a = acct[l]
    BY <2>1, <1>a DEF Claims
  <2>3. a \in Claims(l) <=> a = acct[l]
    BY <1>b, <2>1, <1>a DEF StagesAt, StageOf, Claims
  <2>4. (At(l, a)' <=> At(l, a)) /\ (Holds(l, a)' => Holds(l, a))
    BY <2>1 DEF At, Holds
  <2> QED
    BY <1>c, <1>b, <2>1, <2>2, <2>3, <2>4 DEF StagesAt, StageOf, Own
<1>8. CASE OnDisconnect(l)
  <2>1. /\ pc[l] = "counted" /\ acct[l] = cdev[l].uuid
        /\ UNCHANGED <<cdev, mUser, mDevice, acct, status, stranded>>
        /\ \/ pc'[l] = "closing"
           \/ pc'[l] = "deleting" /\ (~cdev[l].logined \/ ~(count[l] < 2))
    BY <1>8, <1>b DEF OnDisconnect, links, history, PlaceOf, HangingUp, TypeOK
  <2>2. Claims(l)' = Claims(l) /\ (Holds(l, a)' <=> Holds(l, a)) /\ (At(l, a)' <=> At(l, a))
    BY <2>1 DEF Claims, Holds, At
  <2>3. a \in Claims(l) => cdev[l].logined /\ count[l] < 2
    BY <1>b, <2>1 DEF StagesAt, StageOf, Claims
  <2> QED
    BY <1>c, <1>b, <2>1, <2>2, <2>3 DEF StagesAt, StageOf, Own
<1>9. CASE logout(l)
  <2>1. UNCHANGED <<cdev, mUser, mDevice, count>> /\ acct[l] = cdev[l].uuid /\ pc[l] # "answering"
    BY <1>9, <1>b DEF logout, links, PlaceOf, HangingUp, Quitting
  <2>2. /\ Claims(l)' = Claims(l) /\ (At(l, a)' <=> At(l, a))
        /\ pc'[l] # "answering" /\ (Holds(l, a)' <=> Holds(l, a))
    BY <1>9, <2>1 DEF logout, Claims, Holds, At, TypeOK
  <2>3. CASE acct[l] = a
    <3>1. Holds(l, a) /\ \A k \in Links \ {l} : ~At(k, a)'
      BY <1>d, <2>1, <2>3 DEF Holds, At
    <3>2. a \in Claims(l) /\ StageOf(l, a)
      BY <1>a, <1>b, <2>3 DEF Claims, StagesAt
    <3>3. CASE pc'[l] \in {"closed", "quit"}
      <4>1. ~status'[a] /\ a \notin stranded'
        BY <1>9, <2>3, <3>3 DEF logout, TypeOK
      <4> QED
        BY <1>c, <2>1, <2>2, <3>1, <3>2, <3>3, <4>1 DEF StageOf, Own
    <3>4. CASE pc'[l] = "deleting"
      <4>1. /\ pc[l] = "closing" /\ status' = status
            /\ stranded' = stranded \cup {x \in {acct[l]} : status[x]}
        BY <1>9, <3>4 DEF logout, TypeOK
      <4>2. a \in stranded' <=> status[a]
        BY <1>b, <2>3, <4>1 DEF StagesAt
      <4> QED
        BY <1>c, <2>1, <2>2, <3>1, <3>2, <3>4, <4>1, <4>2 DEF StageOf, Own
    <3>5. CASE pc'[l] = "idle"
      <4>1. pc[l] = "quitting" /\ status' = status /\ stranded' = stranded
        BY <1>9, <3>5 DEF logout, TypeOK
      <4> QED
        BY <1>b, <1>c, <2>1, <2>2, <3>1, <3>2, <3>5, <4>1 DEF StagesAt, StageOf, Own
    <3> QED
      BY <1>9, <3>3, <3>4, <3>5 DEF logout, TypeOK
  <2>4. CASE acct[l] # a
    <3>1. a \notin Claims(l)
      BY <2>1, <2>4 DEF Claims
    <3>2. status'[a] = status[a] /\ (a \in stranded' <=> a \in stranded)
      BY <1>9, <2>4 DEF logout, TypeOK
    <3> QED
      BY <1>c, <1>b, <2>1, <2>2, <3>1, <3>2 DEF StagesAt, Own
  <2> QED
    BY <2>3, <2>4
<1>10. CASE mapDelete(l)
  <2>1. /\ UNCHANGED <<cdev, status, count, stranded>> /\ acct[l] = cdev[l].uuid
        /\ \/ pc[l] = "closed" /\ pc'[l] = "deleting" /\ acct' = acct
           \/ pc[l] = "quit" /\ pc'[l] = "idle" /\ acct'[l] = NoUuid
        /\ mUser'[l] = mUser[l] \/ mUser'[l] = NoUuid
        /\ mDevice'[l] = mDevice[l] \/ mDevice'[l] = NoUuid
    BY <1>10, <1>b DEF mapDelete, history, Erased, PlaceOf, HangingUp, Quitting, TypeOK
  <2>2. Claims(l)' = Claims(l) /\ (Holds(l, a)' => Holds(l, a))
    BY <2>1 DEF Claims, Holds
  <2>3. acct[l] = a => ~At(l, a)'
    BY <1>10, <1>a DEF mapDelete, Erased, At, TypeOK
  <2>4. a \in Claims(l) <=> acct[l] = a
    BY <2>1, <1>a DEF Claims
  <2>5. At(l, a)' => At(l, a)
    BY <2>1, <1>a DEF At
  <2>6. a \in Claims(l) => ~status[a] /\ a \notin stranded
    BY <1>b, <2>1 DEF StagesAt, StageOf
  <2> QED
    BY <1>c, <1>b, <2>1, <2>2, <2>3, <2>4, <2>5, <2>6 DEF StagesAt, StageOf, Own
<1>11. CASE DeleteDeviceClient(l)
  <2>1. /\ pc[l] = "deleting" /\ pc'[l] = "gone" /\ UNCHANGED <<mUser, mDevice, status, stranded>>
        /\ cdev'[l] = NoDevice /\ acct'[l] = NoUuid
    BY <1>11 DEF DeleteDeviceClient, history, TypeOK
  <2>2. a \notin Claims(l)' /\ ~Holds(l, a)' /\ (At(l, a)' <=> At(l, a))
    BY <2>1, <1>a DEF Claims, Holds, At
  <2> QED
    BY <1>b, <2>1, <2>2 DEF StagesAt, StageOf, Own
<1> QED
  BY <1>1, <1>2, <1>3, <1>4, <1>5, <1>7, <1>8, <1>9, <1>10, <1>11, <1>12, PacketIs
     DEF LinkStep, Work

LEMMA StagesStep ==
  TypeInv /\ TypeInv' /\ Places /\ Places' /\ Routes /\ Stages /\ Cleared /\ [Next]_vars
    => Stages' /\ Cleared'
<1> SUFFICES ASSUME TypeInv, TypeInv', Places, Places', Routes, Stages, Cleared, [Next]_vars
             PROVE  Stages' /\ Cleared'
  OBVIOUS
<1>1. ASSUME NEW l \in Links, LinkStep(l) PROVE Stages' /\ Cleared'
  <2>1. shared \subseteq shared'
    BY <1>1, HistoryGrows
  <2>2. ASSUME NEW a \in Accounts \ shared', NEW k \in Links PROVE StagesAt(k, a)'
    <3>1. /\ a \in Claims(l)' => \A j \in Links \ {l} : a \notin Claims(j)
          /\ Own(l, a)
      BY <1>1, StageOwn
    <3>2. ASSUME NEW j \in Links \ {l}
          PROVE  /\ a \in Claims(j)' <=> a \in Claims(j)
                 /\ Holds(j, a)' <=> Holds(j, a)
                 /\ At(j, a)' => At(j, a)
                 /\ a \in Claims(j) /\ a \notin Claims(l)' => StageOf(j, a)'
      BY <1>1, <2>1, StageKept
    <3>3. \A j \in Links : StagesAt(j, a)
      BY <2>1 DEF Stages
    <3>4. a \in stranded' => status'[a]
      BY <3>1 DEF Own
    <3>5. CASE k = l
      <4>1. \A j \in Links \ {l} : a \in Claims(l)' => a \notin Claims(j)'
        BY <3>1, <3>2
      <4>2. \A j \in Links \ {l} : Holds(l, a)' => ~At(j, a)'
        BY <3>1, <3>2, <3>3 DEF StagesAt, Own
      <4>3. /\ At(l, a)' => a \in Claims(l)' \/ a \in stranded'
            /\ a \in Claims(l)' => StageOf(l, a)'
        BY <3>1 DEF Own
      <4> QED
        BY <3>4, <3>5, <4>1, <4>2, <4>3 DEF StagesAt
    <3>6. CASE k # l
      <4>1. a \in Claims(k) => a \notin Claims(l)'
        BY <3>1, <3>6
      <4>2. \A j \in Links \ {k} : a \in Claims(k)' => a \notin Claims(j)'
        BY <3>2, <3>3, <3>6, <4>1 DEF StagesAt
      <4>3. \A j \in Links \ {k} : Holds(k, a)' => ~At(j, a)'
        <5> SUFFICES ASSUME NEW j \in Links \ {k}, Holds(k, a)', At(j, a)' PROVE FALSE
          OBVIOUS
        <5>1. Holds(k, a) /\ ~At(j, a)
          BY <3>2, <3>3, <3>6 DEF StagesAt
        <5>2. a \in Claims(k) \/ a = NoUuid
          BY <5>1 DEF Holds, Claims
        <5>3. j = l
          BY <3>2, <5>1
        <5> QED
          BY <3>1, <4>1, <5>1, <5>2, <5>3 DEF Own
      <4>4. At(k, a)' => a \in Claims(k)' \/ a \in stranded'
        BY <3>1, <3>2, <3>3, <3>6 DEF StagesAt, Own
      <4>5. a \in Claims(k)' => StageOf(k, a)'
        BY <3>2, <3>6, <4>1
      <4> QED
        BY <3>4, <4>2, <4>3, <4>4, <4>5 DEF StagesAt
    <3> QED
      BY <3>5, <3>6
  <2>3. main' = main /\ Result' = Result
    BY <1>1, PacketIs
       DEF LinkStep, Work, PutOnline, handleUserQuit, OnConnect, CountByUuid, login, mapAddUser,
           mapAddDevice, sendLoginResponse, OnDisconnect, logout, mapDelete, DeleteDeviceClient
  <2>4. main = "serving"
    <3>1. ASSUME pc[l] = "fresh" PROVE up
      BY <1>1, <3>1, PacketIs
         DEF LinkStep, Work, PutOnline, handleUserQuit, OnConnect, CountByUuid, login, mapAddUser,
             mapAddDevice, sendLoginResponse, OnDisconnect, logout, mapDelete, DeleteDeviceClient
    <3> QED
      BY <3>1 DEF Cleared, up
  <2>5. ASSUME NEW a \in Accounts \ shared', \A k \in Links : a \notin Claims(k)'
        PROVE  status'[a] => a \in stranded'
    <3>1. CASE a \in Claims(l)
      BY <1>1, <2>5, <3>1, StageOwn DEF Own
    <3>2. CASE a \notin Claims(l)
      <4>1. \A k \in Links : a \notin Claims(k)
        BY <1>1, <2>1, <2>5, <3>2, StageKept
      <4>2. status[a] => a \in stranded
        BY <2>1, <2>4, <4>1 DEF Cleared, Started
      <4>3. a # acct[l]
        BY <3>2 DEF Claims
      <4> QED
        BY <1>1, <2>5, <4>2, <4>3, StatusKept
    <3> QED
      BY <3>1, <3>2
  <2>6. Cleared'
    BY <2>3, <2>4, <2>5 DEF Cleared
  <2> QED
    BY <2>2, <2>6 DEF Stages
<1>2. CASE Crash
  BY <1>2 DEF Crash, End, StartModuleFailed, Stages, StagesAt, Holds, Claims, At, Cleared, Started
<1>3. ASSUME UNCHANGED <<links, locals, history>>, UNCHANGED status PROVE Stages'
  BY <1>3 DEF links, locals, history, Stages, StagesAt, StageOf, Holds, Claims, At
<1>4. CASE DbaModule_Initialize
  <2>1. /\ UNCHANGED <<links, locals, history>>
        /\ main \in {"users", "devices"} /\ main' \in {"devices", "started"}
    BY <1>4 DEF DbaModule_Initialize, Step
  <2>2. stranded = {} /\ \A l \in Links : pc[l] = "fresh"
    BY <2>1 DEF Cleared
  <2>3. ASSUME NEW a \in Accounts \ shared, NEW l \in Links
        PROVE  a \notin Claims(l) /\ ~At(l, a)
    BY <2>2 DEF Places, PlaceOf, InHandler, Living, Claims, Stages, StagesAt
  <2>4. Stages'
    BY <2>1, <2>2, <2>3 DEF links, locals, history, Stages, StagesAt, Claims, At
  <2>5. main' = "devices" => \A u \in Users : ~status'[u]
    BY <1>4 DEF DbaModule_Initialize, Step
  <2>6. Started' => \A a \in Accounts : ~status'[a]
    BY <1>4 DEF DbaModule_Initialize, Step, Failed, Started, Cleared
  <2> QED
    BY <2>1, <2>2, <2>4, <2>5, <2>6 DEF Cleared, locals, history
<1>5. CASE StartModule /\ UNCHANGED <<links, status, locals, history>>
  <2>1. main # "serving" /\ main' # "devices"
    BY <1>5 DEF StartModule, Execute, LoadConfigFile, StartTimerModule, LogModuleInit,
                DatabaseModuleInit, StartTcpServer, startServrThread, Step
  <2>2. Started' => Started
    BY <1>5, <2>1 DEF StartModule, Execute, LoadConfigFile, StartTimerModule, LogModuleInit,
                DatabaseModuleInit, StartTcpServer, startServrThread, Step, Failed, Started
  <2>3. Stages'
    BY <1>3, <1>5
  <2>4. /\ \A l \in Links : pc'[l] = "fresh"
        /\ UNCHANGED <<shared, stranded, status>>
        /\ \A l \in Links : Claims(l)' = Claims(l)
    BY <1>5, <2>1 DEF Cleared, links, locals, history, Claims
  <2> QED
    BY <2>1, <2>2, <2>3, <2>4 DEF Cleared
<1>6. CASE UNCHANGED vars
  BY <1>3, <1>6 DEF vars, startup, links, locals, history, Cleared, Started, Claims
<1> QED
  BY <1>1, <1>2, <1>4, <1>5, <1>6 DEF Next, LinkStep

StatusInv == TypeInv /\ Places /\ Routes /\ Stages /\ Cleared

LEMMA StatusInvCorrect == Spec => []StatusInv
<1>1. Init => StatusInv
  BY TypeInit, PlacesInit, RoutesInit, StagesInit DEF StatusInv
<1>2. StatusInv /\ [Next]_vars => StatusInv'
  BY TypeStep, PlacesStep, RoutesStep, StagesStep DEF StatusInv
<1> QED
  BY <1>1, <1>2, PTL DEF Spec

(* The status column, the tables of addresses and the links agree about    *)
(* every account no handler works on: across hang-ups, refused logouts of  *)
(* others, crashes and restarts that clear the column.                     *)
THEOREM StatusExact == Spec => []OnlineStatusExact
<1>1. StatusInv => OnlineStatusExact
  <2> SUFFICES ASSUME StatusInv, up, NEW a \in Accounts \ shared,
                      \A l \in Links : ~WorksOn(l, a)
               PROVE  /\ status[a] <=> (AddressesOf(a) # {} \/ a \in stranded)
                      /\ a \notin stranded => AddressesOf(a) \subseteq m_mapDevice
    BY DEF OnlineStatusExact
  <2> USE DEF StatusInv
  <2>1. ASSUME NEW l \in Links PROVE l \in AddressesOf(a) <=> At(l, a)
    BY DEF AddressesOf, At, TypeInv, TypeOK
  <2>2. AddressesOf(a) \subseteq Links
    BY DEF AddressesOf
  <2>3. ASSUME NEW l \in Links, a \in Claims(l)
        PROVE  l \in m_mapDevice /\ (status[a] <=> (At(l, a) \/ a \in stranded))
    BY <2>3, ClaimantsLive DEF Stages, StagesAt, StageOf
  <2>4. ASSUME NEW l \in Links, At(l, a) PROVE a \in Claims(l) \/ a \in stranded
    BY <2>4 DEF Stages, StagesAt
  <2>5. CASE \E l \in Links : a \in Claims(l)
    <3>1. PICK l \in Links : a \in Claims(l)
      BY <2>5
    <3>2. \A k \in Links : At(k, a) => k = l \/ a \in stranded
      BY <3>1, <2>4 DEF Stages, StagesAt
    <3> QED
      BY <2>1, <2>2, <2>3, <3>1, <3>2
  <2>6. CASE \A l \in Links : a \notin Claims(l)
    <3>1. status[a] => a \in stranded
      BY <2>6 DEF Cleared, Started, up
    <3>2. AddressesOf(a) # {} => a \in stranded
      BY <2>1, <2>2, <2>4, <2>6
    <3>3. a \in stranded => status[a]
      BY DEF Stages, StagesAt, Cleared
    <3> QED
      BY <3>1, <3>2, <3>3
  <2> QED
    BY <2>5, <2>6
<1> QED
  BY <1>1, StatusInvCorrect, PTL
=============================================================================
