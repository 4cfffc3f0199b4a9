----------------------------- MODULE ClientLinks -----------------------------
(***************************************************************************)
(* Connections the program opens itself: CUniteDataModule::ConnectServer   *)
(* down to a ClientSocket with an event loop in a thread of its own, whose *)
(* callbacks go to ClientSocket::owner, one static pointer for all client  *)
(* sockets, and StopTcpServer.  A connection is named by its number; its   *)
(* CTCPService, its ClientSocket and its bufferevent have the same name.   *)
(*                                                                         *)
(* The callbacks of one connection are steps of its thread, one for every  *)
(* section of a mutex; those of different connections interleave.          *)
(***************************************************************************)
EXTENDS Naturals

CONSTANTS
  Clients,  \* the connections, numbered in the order they are asked for
  Addrs,    \* ip and port of servers
  None      \* NULL, no address

ASSUME ClientsAssumption == Clients \subseteq Nat
ASSUME NoneAssumption == None \notin Clients \cup Addrs

VARIABLES
  owner,             \* ClientSocket::owner
  deleted,           \* the CTCPService objects that were deleted
  thread,            \* client -> where its thread is
  at,                \* client -> the next step of the callback it is in
  by,                \* client -> the CTCPService the callback was called on
  addrOf,            \* client -> the server's address
  m_mapHostAddress,  \* address -> bufferevent, or None
  m_mapTcpLink,      \* address -> CTCPService, or None
  m_mapDevice,       \* addresses that have a CDevice
  stopping,          \* the address StopTcpServer works on
  undefined          \* a deleted CTCPService was called: what follows is not modelled

(* History, read by the properties only.                                   *)
VARIABLES
  called,      \* <<service, client>>: a callback of client went to service
  overlapped,  \* two connections were open or being opened at once
  collided,    \* servers that two such connections were to
  stopped      \* StopTcpServer was called

tables == <<m_mapHostAddress, m_mapTcpLink, m_mapDevice>>
history == <<called, overlapped, collided, stopped>>
vars == <<owner, deleted, thread, at, by, addrOf, tables, stopping, undefined, history>>

Init ==
  /\ owner = None /\ deleted = {}
  /\ thread = [c \in Clients |-> "none"]
  /\ at = [c \in Clients |-> "none"]
  /\ by = [c \in Clients |-> None]
  /\ addrOf = [c \in Clients |-> None]
  /\ m_mapHostAddress = [a \in Addrs |-> None]
  /\ m_mapTcpLink = [a \in Addrs |-> None]
  /\ m_mapDevice = {}
  /\ stopping = None /\ undefined = FALSE
  /\ called = {} /\ overlapped = FALSE /\ collided = {} /\ stopped = FALSE

Live(c) == thread[c] \notin {"none", "ended"}

-----------------------------------------------------------------------------
(* A service, a socket and a thread for it.                                *)
CreateTcpClient(c, a) ==
  /\ thread' = [thread EXCEPT ![c] = "started"]
  /\ addrOf' = [addrOf EXCEPT ![c] = a]
  /\ UNCHANGED <<deleted, at, by, tables, stopping, undefined>>

(* CreateConnectToDevice looks for a CDevice first, under an ip it copies  *)
(* without its end, so that it may miss one that is there.                 *)
CreateConnectToDevice(c, a) ==
  /\ ~undefined
  /\ thread[c] = "none" /\ \A d \in Clients : d < c => thread[d] # "none"
  /\ CreateTcpClient(c, a)
  /\ overlapped' = (overlapped \/ \E d \in Clients : Live(d))
  /\ collided' = collided \cup {x \in {a} : \E d \in Clients : Live(d) /\ addrOf[d] = a}
  /\ UNCHANGED <<called, stopped>>

(* Mutant: the first owner stays.                                          *)
ConnectKeepingOwner(c, a) == CreateConnectToDevice(c, a) /\ owner' = IF owner = None THEN c ELSE owner

(* The new ClientSocket sets owner for all.                                *)
ConnectServer(c, a) == CreateConnectToDevice(c, a) /\ owner' = c

(* startClientThread up to event_base_dispatch.  When the socket cannot be *)
(* made, or the connect fails at once, the thread ends without a callback. *)
startClientThread(c) ==
  /\ ~undefined
  /\ thread[c] = "started"
  /\ \E next \in {"dialing", "ended"} : thread' = [thread EXCEPT ![c] = next]
  /\ UNCHANGED <<owner, deleted, at, by, addrOf, tables, stopping, undefined, history>>

(* A callback of c calls owner.                                            *)
Notify(c, step) ==
  /\ ~undefined /\ at[c] = "none"
  /\ called' = called \cup {<<owner, c>>}
  /\ IF owner \in deleted
     THEN undefined' = TRUE /\ UNCHANGED <<at, by>>
     ELSE /\ at' = [at EXCEPT ![c] = step]
          /\ by' = [by EXCEPT ![c] = IF step = "none" THEN None ELSE owner]
          /\ UNCHANGED undefined
  /\ UNCHANGED <<owner, deleted, addrOf, tables, stopping, overlapped, collided, stopped>>

(* event_cb: connected, or end of file or an error, which frees the        *)
(* bufferevent and so ends the event loop.                                 *)
event_cb(c) ==
  \/ /\ thread[c] = "dialing"
     /\ thread' = [thread EXCEPT ![c] = "open"]
     /\ Notify(c, "SetHostAddress")
  \/ /\ ~undefined /\ thread[c] \in {"dialing", "open"} /\ at[c] = "none"
     /\ thread' = [thread EXCEPT ![c] = IF @ = "open" THEN "freed" ELSE "failed"]
     /\ UNCHANGED <<owner, deleted, at, by, addrOf, tables, stopping, undefined, history>>

(* OnCmdCome: the data go to the CDevice of the address, if there is one,  *)
(* which is module TcpLinks.                                               *)
read_cb(c) ==
  /\ thread[c] = "open"
  /\ Notify(c, "none")
  /\ UNCHANGED thread

(* After the loop, OnClose also for a connection that was never made.      *)
OnClose(c) ==
  /\ thread[c] \in {"freed", "failed"}
  /\ thread' = [thread EXCEPT ![c] = "closing"]
  /\ Notify(c, "OnDisconnect")

-----------------------------------------------------------------------------
Step(c, from, to) ==
  /\ ~undefined
  /\ at[c] = from
  /\ at' = [at EXCEPT ![c] = to]
  /\ UNCHANGED <<owner, addrOf, stopping, history>>

(* A step that uses the service, which another thread may have deleted.    *)
UsesService(c) == undefined' = (by[c] \in deleted)

(* OnConnect: SaveLinkAndCallBack.                                         *)
SetHostAddress(c) ==
  /\ Step(c, "SetHostAddress", "insert")
  /\ m_mapHostAddress' = [m_mapHostAddress EXCEPT ![addrOf[c]] = None]
  /\ UNCHANGED <<undefined, thread, by, deleted, m_mapTcpLink, m_mapDevice>>

insert(c) ==
  /\ Step(c, "insert", "OnConnect")
  /\ m_mapHostAddress' = [m_mapHostAddress EXCEPT ![addrOf[c]] = IF @ = None THEN c ELSE @]
  /\ UNCHANGED <<undefined, thread, by, deleted, m_mapTcpLink, m_mapDevice>>

OnConnect(c) ==
  /\ Step(c, "OnConnect", "insertLink")
  /\ UsesService(c)
  /\ m_mapDevice' = m_mapDevice \cup {addrOf[c]}
  /\ UNCHANGED <<thread, by, deleted, m_mapHostAddress, m_mapTcpLink>>

insertLink(c) ==
  /\ Step(c, "insertLink", "none")
  /\ m_mapTcpLink' = [m_mapTcpLink EXCEPT ![addrOf[c]] = IF @ = None THEN by[c] ELSE @]
  /\ by' = [by EXCEPT ![c] = None]
  /\ UNCHANGED <<undefined, thread, deleted, m_mapHostAddress, m_mapDevice>>

(* Mutant: the CDevice stays.                                              *)
KeepDevice(c) ==
  /\ Step(c, "OnDisconnect", "RemoveHostAddress")
  /\ UsesService(c)
  /\ UNCHANGED <<thread, by, deleted, tables>>

(* OnClose: DeleteLinkAndCallBack.                                         *)
OnDisconnect(c) ==
  /\ Step(c, "OnDisconnect", "RemoveHostAddress")
  /\ UsesService(c)
  /\ m_mapDevice' = m_mapDevice \ {addrOf[c]}
  /\ UNCHANGED <<thread, by, deleted, m_mapHostAddress, m_mapTcpLink>>

(* Mutant: the host address stays.                                         *)
RemoveNothing(c) ==
  /\ Step(c, "RemoveHostAddress", "eraseLink")
  /\ UNCHANGED <<undefined, thread, by, deleted, tables>>

RemoveHostAddress(c) ==
  /\ Step(c, "RemoveHostAddress", "eraseLink")
  /\ m_mapHostAddress' = [m_mapHostAddress EXCEPT ![addrOf[c]] = None]
  /\ UNCHANGED <<undefined, thread, by, deleted, m_mapTcpLink, m_mapDevice>>

(* The service the table has for the address is deleted: of a link that    *)
(* was made, its own, which is in the middle of OnClose.  Then             *)
(* startClientThread deletes its objects and ends.                         *)
DeleteLink(a) ==
  /\ undefined' = (m_mapTcpLink[a] \in deleted)
  /\ deleted' = deleted \cup ({m_mapTcpLink[a]} \ {None})
  /\ m_mapTcpLink' = [m_mapTcpLink EXCEPT ![a] = None]

eraseLink(c) ==
  /\ Step(c, "eraseLink", "none")
  /\ DeleteLink(addrOf[c])
  /\ thread' = [thread EXCEPT ![c] = "ended"]
  /\ by' = [by EXCEPT ![c] = None]
  /\ UNCHANGED <<m_mapHostAddress, m_mapDevice>>

-----------------------------------------------------------------------------
(* StopTcpServer: RemoveTcpService removes the host address, calling       *)
(* CloseConnection, which does nothing, ...                                *)
StopTcpServer(a) ==
  /\ ~undefined /\ stopping = None
  /\ a \in m_mapDevice
  /\ stopping' = a
  /\ stopped' = TRUE
  /\ m_mapHostAddress' = [m_mapHostAddress EXCEPT ![a] = None]
  /\ UNCHANGED <<owner, deleted, thread, at, by, addrOf, m_mapTcpLink, m_mapDevice, undefined, called, overlapped, collided>>

(* ... and deletes the service.                                            *)
RemoveTcpService ==
  /\ ~undefined /\ stopping # None
  /\ DeleteLink(stopping)
  /\ stopping' = None
  /\ UNCHANGED <<owner, thread, at, by, addrOf, m_mapHostAddress, m_mapDevice, history>>

(* CommonTCPManager::Send looks the handle up in the bufferevents of the   *)
(* server sockets.  Those of client sockets are never put there.           *)
bufMap == {}
Sent(a) == m_mapHostAddress[a] \in bufMap

Thread(c) ==
  \/ startClientThread(c) \/ OnClose(c)
  \/ SetHostAddress(c) \/ insert(c) \/ OnConnect(c) \/ insertLink(c)
  \/ OnDisconnect(c) \/ RemoveHostAddress(c) \/ eraseLink(c)

Next ==
  \/ \E c \in Clients :
       \/ \E a \in Addrs : ConnectServer(c, a)
       \/ event_cb(c) \/ read_cb(c)
       \/ Thread(c)
  \/ \E a \in Addrs : StopTcpServer(a)
  \/ RemoveTcpService

(* Threads go on; what the network does is up to the peers.                *)
Spec == Init /\ [][Next]_vars /\ \A c \in Clients : WF_vars(Thread(c))
-----------------------------------------------------------------------------
(* The type of the state.                                                  *)
TypeOK ==
  /\ owner \in Clients \cup {None} /\ deleted \subseteq Clients
  /\ thread \in [Clients -> {"none", "started", "dialing", "open", "failed", "freed", "closing", "ended"}]
  /\ at \in [Clients -> {"none", "SetHostAddress", "insert", "OnConnect", "insertLink",
                         "OnDisconnect", "RemoveHostAddress", "eraseLink"}]
  /\ by \in [Clients -> Clients \cup {None}]
  /\ addrOf \in [Clients -> Addrs \cup {None}]
  /\ m_mapHostAddress \in [Addrs -> Clients \cup {None}]
  /\ m_mapTcpLink \in [Addrs -> Clients \cup {None}]
  /\ m_mapDevice \subseteq Addrs
  /\ stopping \in Addrs \cup {None} /\ undefined \in BOOLEAN
  /\ called \subseteq Clients \X Clients
  /\ overlapped \in BOOLEAN /\ collided \subseteq Addrs /\ stopped \in BOOLEAN
  /\ \A c \in Clients : at[c] # "none" <=> by[c] # None

(* With one connection at a time, and without StopTcpServer, callbacks go  *)
(* to the service of their own connection and never to a deleted one.      *)
AloneSafe ==
  ~overlapped /\ ~stopped => ~undefined /\ \A p \in called : p[1] = p[2]

(* Also when connections to different servers overlap and share the owner, *)
(* the tables have an entry for a server while its connection is made, and *)
(* none when it is closed or was never made.                               *)
TablesFollowLinks ==
  ~stopped /\ ~undefined =>
    \A a \in Addrs \ collided :
      LET to == {c \in Clients : addrOf[c] = a}
          made == {c \in to : thread[c] \in {"open", "freed"}}
      IN (\A c \in to : at[c] = "none") =>
           /\ \A c \in made : m_mapHostAddress[a] = c /\ m_mapTcpLink[a] # None /\ a \in m_mapDevice
           /\ made = {} => m_mapHostAddress[a] = None /\ m_mapTcpLink[a] = None /\ a \notin m_mapDevice

(* A connection that ends is forgotten: its thread ends, and its server    *)
(* has no CDevice unless another connection is open.                       *)
ClosedLinkForgotten ==
  \A c \in Clients :
    thread[c] = "freed" ~>
      \/ undefined
      \/ thread[c] = "ended" /\ (addrOf[c] \in m_mapDevice => \E d \in Clients \ {c} : Live(d))
=============================================================================
