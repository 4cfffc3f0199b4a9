------------------------------ MODULE Session ------------------------------
(***************************************************************************)
(* Who is logged in: the CDevice object of every link and the map that     *)
(* holds them (device.cpp, deviceManager.cpp), the tables of user and      *)
(* device addresses (wisLogginHandler.cpp), and the status column the DAOs *)
(* keep in the database (wisUserDao.cpp, WisDeviceDao.cpp).                *)
(*                                                                         *)
(* Every link is served by at most one worker at a time, which runs        *)
(* OnConnect, then one handler per packet, then OnDisconnect (what module  *)
(* LinkLife promises); the workers of different links interleave.  A step  *)
(* here is what a handler does between two points where another worker     *)
(* can get in: a database call, or a section under uMutex, dMutex or       *)
(* m_Device_mutex.  The tables of addresses are keyed by BUS_ADDRESS, an   *)
(* object of its own per link that is never freed; m_mapDevice is keyed by *)
(* ip and port, and here, unlike in TcpLinks, no peer comes back from the  *)
(* ip and port of a link before OnDisconnect of that link returned.        *)
(***************************************************************************)
EXTENDS Naturals, FiniteSets, StartUp

CONSTANTS
  Links,    \* the connections, by BUS_ADDRESS pointer
  Users,    \* names of wis_user_tbl
  Devices,  \* uuids of wis_device_tbl
  NoUuid    \* the empty string

ASSUME LinksFinite == IsFiniteSet(Links)
ASSUME AccountsDisjoint == Users \cap Devices = {} /\ NoUuid \notin Users \cup Devices

Accounts == Users \cup Devices

VARIABLES
  m_mapDevice,  \* the links that have a CDevice in the map
  cdev,         \* link -> its CDevice: m_isLogined, m_uuid (m_loginType is the
                \* table the uuid belongs to)
  mUser,        \* link -> user recorded for it, or NoUuid
  mDevice,      \* link -> device recorded for it, or NoUuid
  status,       \* account -> the status column; survives a crash
  pc,           \* link -> where its worker is
  acct,         \* link -> the account its handler works on
  count         \* link -> the result of CountByUuid in OnDisconnect

(* History, read by the properties only.                                   *)
VARIABLES
  shared,       \* accounts several living links claimed, or a link swapped for
                \* another one
  stranded,     \* accounts the database keeps online because it refused the
                \* logout of a hang-up or the login after a registration
  overlapped,   \* accounts two handlers of different links worked on at once
  quitted       \* users that sent WIS_CMD_USER_QUIT on a link

links == <<m_mapDevice, cdev, mUser, mDevice>>
locals == <<pc, acct, count>>
history == <<shared, stranded, overlapped, quitted>>
vars == <<startup, links, status, locals, history>>

NoDevice == [logined |-> FALSE, uuid |-> NoUuid]

Init ==
  /\ StartUpInit
  /\ m_mapDevice = {}
  /\ cdev = [l \in Links |-> NoDevice]
  /\ mUser = [l \in Links |-> NoUuid]
  /\ mDevice = [l \in Links |-> NoUuid]
  /\ status = [a \in Accounts |-> FALSE]
  /\ pc = [l \in Links |-> "fresh"]
  /\ acct = [l \in Links |-> NoUuid]
  /\ count = [l \in Links |-> 0]
  /\ shared = {} /\ stranded = {} /\ overlapped = {} /\ quitted = {}

Living(l) == pc[l] \notin {"fresh", "gone"}
InHandler(l) == Living(l) /\ pc[l] # "idle"
Claims(l) == {cdev[l].uuid, acct[l]} \ {NoUuid}
WorksOn(l, a) == InHandler(l) /\ a \in Claims(l)

Goto(l, where) == pc' = [pc EXCEPT ![l] = where]

(* A handler of l begins to work on account a.                             *)
Begin(l, a) ==
  /\ acct' = [acct EXCEPT ![l] = a]
  /\ overlapped' = overlapped \cup
       {x \in {a, cdev[l].uuid} \ {NoUuid} :
          \E k \in Links \ {l} : WorksOn(k, x)}

-----------------------------------------------------------------------------
(* CDeviceManager::OnConnect: a CDevice that is not logged in.             *)
OnConnect(l) ==
  /\ up
  /\ pc[l] = "fresh"
  /\ m_mapDevice' = m_mapDevice \cup {l}
  /\ cdev' = [cdev EXCEPT ![l] = NoDevice]
  /\ Goto(l, "idle")
  /\ UNCHANGED <<startup, mUser, mDevice, status, acct, count, history>>

(* A statement that writes status 1 for account a, the first of a handler. *)
PutOnline(l, a, where) ==
  /\ pc[l] = "idle"
  /\ status' = [status EXCEPT ![a] = TRUE]
  /\ Begin(l, a)
  /\ shared' = shared
       \cup {x \in {a} : \E k \in Links \ {l} : Living(k) /\ x \in Claims(k)}
       \cup ({cdev[l].uuid} \ {a, NoUuid})
  /\ Goto(l, where)
  /\ UNCHANGED <<startup, links, count, stranded, quitted>>

(* handleUserLogin up to a successful WisUserDao::login.  With bad         *)
(* credentials, or when the database fails, the answer is -1 and nothing   *)
(* changes.  A client stays with one kind of login on one link.            *)
handleUserLogin(l, u) == cdev[l].uuid \notin Devices /\ PutOnline(l, u, "recording")

(* handleDeviceLogin: WisDeviceDao::check finds the device and login, an   *)
(* UPDATE, succeeds; or check finds no row, or fails, and regist inserts a *)
(* row that is online.  Where check fails a device may get a second row:   *)
(* status says whether one of them is 1.  If the first of these writes     *)
(* fails the answer is -1 and nothing changes.                             *)
handleDeviceLogin(l, d) ==
  /\ cdev[l].uuid \notin Users
  /\ PutOnline(l, d, "recording") \/ PutOnline(l, d, "registering")

(* The UPDATE of WisDeviceDao::login after a registration.  If it fails    *)
(* the answer is -1, with which CDevice::Send leaves the CDevice alone,    *)
(* and the row that was inserted stays.                                    *)
login(l) ==
  /\ pc[l] = "registering"
  /\ \/ /\ status' = [status EXCEPT ![acct[l]] = TRUE]
        /\ Goto(l, "recording")
        /\ UNCHANGED <<acct, stranded>>
     \/ /\ stranded' = stranded \cup {a \in {acct[l]} : status[a]}
        /\ acct' = [acct EXCEPT ![l] = NoUuid]
        /\ Goto(l, "idle")
        /\ UNCHANGED status
  /\ UNCHANGED <<startup, links, count, shared, overlapped, quitted>>

(* SendData(addr, WIS_CMD_SERVICE_KICKOUT_USER): CDevice::Send clears      *)
(* m_isLogined of every link in ks that still has a CDevice.               *)
Kickout(ks) ==
  cdev' = [k \in Links |->
             IF k \in ks \cap m_mapDevice
               THEN [cdev[k] EXCEPT !.logined = FALSE] ELSE cdev[k]]

(* mapAddUser, under uMutex: the other addresses of the user are kicked    *)
(* out and erased, then this one is recorded.                              *)
Others(table, l, a) == {k \in Links \ {l} : table[k] = a}

(* Mutant: the other addresses stay recorded.                              *)
RecordedToo(table, l, a) == [table EXCEPT ![l] = a]

Recorded(table, l, a) ==
  [k \in Links |-> IF k = l THEN a
                   ELSE IF k \in Others(table, l, a) THEN NoUuid
                   ELSE table[k]]

(* With that the status of the account tells the truth again.              *)
Recover(l) ==
  /\ stranded' = stranded \ {acct[l]}
  /\ UNCHANGED <<shared, overlapped, quitted>>

(* Mutant: the other addresses are erased and not kicked out.              *)
mapAddQuietly(l) ==
  /\ pc[l] = "recording"
  /\ acct[l] \in Users
  /\ mUser' = Recorded(mUser, l, acct[l])
  /\ Recover(l)
  /\ Goto(l, "answering")
  /\ UNCHANGED <<startup, m_mapDevice, cdev, mDevice, status, acct, count>>

mapAddUser(l) ==
  /\ pc[l] = "recording"
  /\ acct[l] \in Users
  /\ Kickout(Others(mUser, l, acct[l]))
  /\ mUser' = Recorded(mUser, l, acct[l])
  /\ Recover(l)
  /\ Goto(l, "answering")
  /\ UNCHANGED <<startup, m_mapDevice, mDevice, status, acct, count>>

(* mapAddDevice, under dMutex: the other addresses are erased, their links *)
(* stay logged in.                                                         *)
mapAddDevice(l) ==
  /\ pc[l] = "recording"
  /\ acct[l] \in Devices
  /\ mDevice' = Recorded(mDevice, l, acct[l])
  /\ Recover(l)
  /\ Goto(l, "answering")
  /\ UNCHANGED <<startup, m_mapDevice, cdev, mUser, status, acct, count>>

(* Mutant: the CDevice keeps the uuid of its first login.                  *)
sendKeepingUuid(l) ==
  /\ pc[l] = "answering"
  /\ cdev' = [cdev EXCEPT ![l] =
       [logined |-> TRUE, uuid |-> IF @.uuid = NoUuid THEN acct[l] ELSE @.uuid]]
  /\ acct' = [acct EXCEPT ![l] = NoUuid]
  /\ Goto(l, "idle")
  /\ UNCHANGED <<startup, m_mapDevice, mUser, mDevice, status, count, history>>

(* sendLoginResponse with success: CDevice::Send reads the result it sends *)
(* and marks the link as logged in.                                        *)
sendLoginResponse(l) ==
  /\ pc[l] = "answering"
  /\ cdev' = [cdev EXCEPT ![l] = [logined |-> TRUE, uuid |-> acct[l]]]
  /\ acct' = [acct EXCEPT ![l] = NoUuid]
  /\ Goto(l, "idle")
  /\ UNCHANGED <<startup, m_mapDevice, mUser, mDevice, status, count, history>>

(* handleUserQuit, let through by ParserCallback only on a logged-in link: *)
(* it logs the user out but leaves the CDevice logged in.  The packet      *)
(* carries the uuid of the user of the link.                               *)
handleUserQuit(l) ==
  /\ pc[l] = "idle"
  /\ cdev[l].logined
  /\ cdev[l].uuid \in Users
  /\ Begin(l, cdev[l].uuid)
  /\ quitted' = quitted \cup {cdev[l].uuid}
  /\ Goto(l, "quitting")
  /\ UNCHANGED <<startup, links, status, count, shared, stranded>>

-----------------------------------------------------------------------------
(* CDeviceManager::OnDisconnect: count the CDevices with this uuid, ...    *)
SameUuid(l) == {k \in m_mapDevice : cdev[k].uuid = cdev[l].uuid}

CountByUuid(l) ==
  /\ pc[l] = "idle"
  /\ Begin(l, cdev[l].uuid)
  /\ count' = [count EXCEPT ![l] = Cardinality(SameUuid(l))]
  /\ Goto(l, "counted")
  /\ UNCHANGED <<startup, links, status, shared, stranded, quitted>>

(* Mutant: the count is compared with 1.                                   *)
OnDisconnectOne(l) ==
  /\ pc[l] = "counted"
  /\ \/ cdev[l].logined /\ count[l] < 1 /\ Goto(l, "closing")
     \/ (~cdev[l].logined \/ count[l] >= 1) /\ Goto(l, "deleting")
  /\ count' = [count EXCEPT ![l] = 0]
  /\ UNCHANGED <<startup, links, status, acct, history>>

(* Mutant: the count is ignored.                                           *)
OnDisconnectAll(l) ==
  /\ pc[l] = "counted"
  /\ \/ cdev[l].logined /\ Goto(l, "closing")
     \/ ~cdev[l].logined /\ Goto(l, "deleting")
  /\ count' = [count EXCEPT ![l] = 0]
  /\ UNCHANGED <<startup, links, status, acct, history>>

(* ... log the account out if the link is logged in and is the only one,   *)
OnDisconnect(l) ==
  /\ pc[l] = "counted"
  /\ \/ /\ cdev[l].logined
        /\ count[l] < 2
        /\ Goto(l, "closing")
     \/ /\ ~cdev[l].logined \/ count[l] >= 2
        /\ Goto(l, "deleting")
  /\ count' = [count EXCEPT ![l] = 0]
  /\ UNCHANGED <<startup, links, status, acct, history>>

(* (WisUserDao::logout and WisDeviceDao::logout: status 0, unless the      *)
(* database fails, which ends the logout with nothing erased)              *)
logout(l) ==
  /\ \/ /\ \/ pc[l] = "closing" /\ Goto(l, "closed")
           \/ pc[l] = "quitting" /\ Goto(l, "quit")
        /\ status' = [status EXCEPT ![acct[l]] = FALSE]
        /\ stranded' = stranded \ {acct[l]}
        /\ UNCHANGED acct
     \/ /\ pc[l] = "closing" /\ Goto(l, "deleting")
        /\ stranded' = stranded \cup {a \in {acct[l]} : status[a]}
        /\ UNCHANGED <<status, acct>>
     \/ /\ pc[l] = "quitting" /\ Goto(l, "idle")
        /\ acct' = [acct EXCEPT ![l] = NoUuid]
        /\ UNCHANGED <<status, stranded>>
  /\ UNCHANGED <<startup, links, count, shared, overlapped, quitted>>

(* (mapDeleteSameUser, under uMutex, erases every address of the user;     *)
(* mapDeleteDevice, under dMutex, erases this address)                     *)
Erased(l) == {k \in Links : mUser[k] = acct[l]}
mapDelete(l) ==
  /\ pc[l] \in {"closed", "quit"}
  /\ \/ pc[l] = "closed" /\ Goto(l, "deleting") /\ UNCHANGED acct
     \/ /\ pc[l] = "quit"
        /\ Goto(l, "idle")
        /\ acct' = [acct EXCEPT ![l] = NoUuid]
  /\ \/ /\ acct[l] \in Users
        /\ mUser' = [k \in Links |-> IF k \in Erased(l) THEN NoUuid ELSE mUser[k]]
        /\ UNCHANGED mDevice
     \/ /\ acct[l] \in Devices
        /\ mDevice' = [mDevice EXCEPT ![l] = NoUuid]
        /\ UNCHANGED mUser
  /\ UNCHANGED <<startup, m_mapDevice, cdev, status, count, history>>

(* ... and delete the CDevice.                                             *)
DeleteDeviceClient(l) ==
  /\ pc[l] = "deleting"
  /\ m_mapDevice' = m_mapDevice \ {l}
  /\ cdev' = [cdev EXCEPT ![l] = NoDevice]
  /\ acct' = [acct EXCEPT ![l] = NoUuid]
  /\ Goto(l, "gone")
  /\ UNCHANGED <<startup, mUser, mDevice, status, count, history>>

-----------------------------------------------------------------------------
(* The process ends, by a fault or because main returns: everything but    *)
(* the database is lost, and every link with it.                           *)
Crash ==
  /\ End \/ StartModuleFailed
  /\ m_mapDevice' = {}
  /\ cdev' = [l \in Links |-> NoDevice]
  /\ mUser' = [l \in Links |-> NoUuid]
  /\ mDevice' = [l \in Links |-> NoUuid]
  /\ pc' = [l \in Links |-> "fresh"]
  /\ acct' = [l \in Links |-> NoUuid]
  /\ count' = [l \in Links |-> 0]
  /\ shared' = {} /\ stranded' = {} /\ overlapped' = {} /\ quitted' = {}
  /\ UNCHANGED status

(* DbaModule_Initialize clears the status of the users, then of the        *)
(* devices; the first statement that fails is the last one.                *)
DbaModule_Initialize ==
  /\ \/ /\ \/ /\ Step("users", "devices")
              /\ status' = [a \in Accounts |-> a \in Devices /\ status[a]]
           \/ /\ Step("devices", "started")
              /\ status' = [a \in Accounts |-> a \in Users /\ status[a]]
        /\ UNCHANGED Result
     \/ /\ Step("users", "started") \/ Step("devices", "started")
        /\ Failed
        /\ UNCHANGED status
  /\ UNCHANGED <<m_ConfigXmlFile, links, locals, history>>

(* ParserCallback and ShowClientReceiveData: the packets that count here.  *)
Packet(l) ==
  \/ \E u \in Users : handleUserLogin(l, u)
  \/ \E d \in Devices : handleDeviceLogin(l, d)
  \/ handleUserQuit(l)

Work(l) ==
  \/ login(l) \/ mapAddUser(l) \/ mapAddDevice(l) \/ sendLoginResponse(l)
  \/ OnDisconnect(l) \/ logout(l) \/ mapDelete(l) \/ DeleteDeviceClient(l)

Next ==
  \/ \E l \in Links : OnConnect(l) \/ Packet(l) \/ CountByUuid(l) \/ Work(l)
  \/ Crash
  \/ DbaModule_Initialize
  \/ StartModule /\ UNCHANGED <<links, status, locals, history>>

Spec == Init /\ [][Next]_vars
-----------------------------------------------------------------------------
(* The type of the state.                                                  *)
TypeOK ==
  /\ StartUpType
  /\ m_mapDevice \subseteq Links
  /\ cdev \in [Links -> [logined : BOOLEAN, uuid : Accounts \cup {NoUuid}]]
  /\ mUser \in [Links -> Users \cup {NoUuid}]
  /\ mDevice \in [Links -> Devices \cup {NoUuid}]
  /\ status \in [Accounts -> BOOLEAN]
  /\ pc \in [Links -> {"fresh", "idle", "registering", "recording", "answering",
                       "quitting", "quit", "counted", "closing", "closed",
                       "deleting", "gone"}]
  /\ acct \in [Links -> Accounts \cup {NoUuid}]
  /\ count \in [Links -> Nat]
  /\ shared \subseteq Accounts
  /\ stranded \subseteq Accounts
  /\ overlapped \subseteq Accounts
  /\ quitted \subseteq Users

(* At any time a user, and a device, is recorded at one address at most:   *)
(* getUserAddress and getDeviceAddress return the first match and have     *)
(* nothing to choose from.                                                 *)
OneAddressPerAccount ==
  \A k, l \in Links :
    /\ mUser[k] = mUser[l] /\ mUser[k] # NoUuid => k = l
    /\ mDevice[k] = mDevice[l] /\ mDevice[k] # NoUuid => k = l

(* What is sent to a recorded user or device goes to a link logged in as   *)
(* that user or device: whatever logins, kicks and hang-ups raced, a       *)
(* recorded link that still has its CDevice and is in no handler has       *)
(* answered a login of that account and was not kicked since.              *)
RoutedToLoggedIn ==
  \A l \in Links :
    pc[l] = "idle" =>
      /\ mUser[l] # NoUuid => cdev[l] = [logined |-> TRUE, uuid |-> mUser[l]]
      /\ mDevice[l] # NoUuid => cdev[l] = [logined |-> TRUE, uuid |-> mDevice[l]]

(* The online status in the database, the table of addresses and the links *)
(* agree about every account no handler works on, across hang-ups and      *)
(* crashes, as long as no two living links claimed the account and none    *)
(* was re-used for another account.  Only when the database refused the    *)
(* logout of a hang-up, or the login of a device it had just registered,   *)
(* is an account online that is not at a living link, and only until it    *)
(* logs in again.                                                          *)
AddressesOf(a) ==
  {l \in Links : (IF a \in Users THEN mUser ELSE mDevice)[l] = a}
OnlineStatusExact ==
  \A a \in Accounts \ shared :
    up /\ ~(\E l \in Links : WorksOn(l, a)) =>
      /\ status[a] <=> (AddressesOf(a) # {} \/ a \in stranded)
      /\ a \notin stranded => AddressesOf(a) \subseteq m_mapDevice

(* The comment in mapAddUser: "kick out other user with the same id".      *)
(* After a login of a user no other link is logged in as that user.        *)
LoggedInAs(u) == {l \in m_mapDevice : cdev[l] = [logined |-> TRUE, uuid |-> u]}
KickedOut ==
  \A u \in Users \ quitted :
    ~(\E l \in Links : WorksOn(l, u)) => Cardinality(LoggedInAs(u)) <= 1

(* It does hold while the handlers that concern a user take turns.         *)
KickedOutInTurn ==
  \A u \in Users \ (quitted \cup overlapped) :
    ~(\E l \in Links : WorksOn(l, u)) => Cardinality(LoggedInAs(u)) <= 1

(* A link that hangs up takes the user's address from no other link that   *)
(* is logged in as that user, while the handlers concerning the user take  *)
(* turns: that is what CountByUuid is for.                                 *)
HangUpSparesOthers ==
  [][\A k, l \in Links :
       /\ k # l
       /\ mapDelete(k) /\ pc[k] = "closed"
       /\ cdev[l].logined /\ mUser[l] = cdev[l].uuid
       /\ mUser[l] \notin overlapped
       => mUser'[l] = mUser[l]]_vars
=============================================================================
