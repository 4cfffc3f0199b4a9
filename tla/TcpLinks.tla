------------------------------ MODULE TcpLinks ------------------------------
(***************************************************************************)
(* The tables that find a link by the ip and port of its peer: host        *)
(* addresses (HostAddressMap.cpp), TCP services (TCPServiceManager.cpp)    *)
(* and CDevice objects (deviceManager.cpp), and the sends that go through  *)
(* them.  The calls a link's worker makes come from LinkLife, the contract *)
(* the queues of ServrSocket implement; jobs of one descriptor are run in  *)
(* order (FdHandedOverInOrder there), those of different ones interleave   *)
(* at every mutex.  A peer may come back from the address of a link that   *)
(* is closed while the close still waits in a queue.                       *)
(***************************************************************************)
EXTENDS Naturals, Functions

CONSTANTS
  Links,     \* the connections, numbered in the order they are accepted
  Addrs,     \* ip and port of peers
  Bevs,      \* addresses of bufferevents
  Fds,       \* descriptors, each with a worker of its own
  MaxReads,  \* bound: chunks read from all links together
  None       \* no handle, no link, no address

ASSUME LinksAssumption == Links \subseteq Nat
ASSUME NoneAssumption == None \notin Links \cup Addrs \cup Bevs

(* The variables of LinkLife, and what a link was given when it connected, *)
(* as long as it is known.                                                 *)
VARIABLES peer, received, delivered, phase, addrOf, bevOf, fdOf

VARIABLES
  m_mapHostAddress,  \* address -> bufferevent, or None
  m_mapTcpLink,      \* address -> link whose CTCPService it is, or None
  m_mapDevice,       \* address -> link whose OnConnect made the CDevice
  at,                \* link -> the next step of its handler
  pGatewayDevice,    \* link -> the CDevice its handler works with, or None
  sending,           \* the SendData of some other worker
  early              \* addresses that came back early, until every link from
                     \* there is forgotten (history)

Life == INSTANCE LinkLife

given == <<addrOf, bevOf, fdOf>>
tables == <<m_mapHostAddress, m_mapTcpLink, m_mapDevice>>
vars == <<peer, received, delivered, phase, given, tables, at, pGatewayDevice, sending, early>>

NotSending == [step |-> "none", addr |-> None, bev |-> None, link |-> None]

Init ==
  /\ Life!Init
  /\ addrOf = [l \in Links |-> None]
  /\ bevOf = [l \in Links |-> None]
  /\ fdOf = [l \in Links |-> None]
  /\ m_mapHostAddress = [a \in Addrs |-> None]
  /\ m_mapTcpLink = [a \in Addrs |-> None]
  /\ m_mapDevice = [a \in Addrs |-> None]
  /\ at = [l \in Links |-> "none"]
  /\ pGatewayDevice = [l \in Links |-> None]
  /\ sending = NotSending
  /\ early = {}

From(a) == {l \in Links : addrOf[l] = a}
OpenFrom(a) == {l \in From(a) : peer[l] = "open"}

-----------------------------------------------------------------------------
(* The event thread.  What it hands out, nobody open has.                  *)
Connect(l, a, b, fd) ==
  /\ \A k \in Links : k < l => peer[k] # "fresh"
  /\ \A k \in Links :
       peer[k] = "open" => addrOf[k] # a /\ bevOf[k] # b /\ fdOf[k] # fd
  /\ Life!Connect(l)
  /\ addrOf' = [addrOf EXCEPT ![l] = a]
  /\ bevOf' = [bevOf EXCEPT ![l] = b]
  /\ fdOf' = [fdOf EXCEPT ![l] = fd]
  /\ early' = early \cup {x \in {a} : From(x) # {}}
  /\ UNCHANGED <<tables, at, pGatewayDevice, sending>>

Network(l) ==
  /\ \/ FoldFunction(LAMBDA x, y : x + y, 0, received) < MaxReads /\ Life!Receive(l)
     \/ Life!HangUp(l)
  /\ UNCHANGED <<given, tables, at, pGatewayDevice, sending, early>>

Enter(l, step) ==
  /\ at' = [at EXCEPT ![l] = step]
  /\ UNCHANGED <<given, tables, pGatewayDevice, sending, early>>

(* A step of l's handler that goes on with another one.                    *)
Step(l, from, to) ==
  /\ at[l] = from
  /\ at' = [at EXCEPT ![l] = to]
  /\ UNCHANGED <<peer, received, delivered, phase, given, sending, early>>

(* The handler returns; after OnClose nothing refers to what the link was  *)
(* given any more.                                                         *)
Forget(l) ==
  /\ addrOf' = [addrOf EXCEPT ![l] = None]
  /\ bevOf' = [bevOf EXCEPT ![l] = None]
  /\ fdOf' = [fdOf EXCEPT ![l] = None]
  /\ early' = early \ {a \in {addrOf[l]} : From(a) = {l}}

Return(l) ==
  /\ at[l] = "return"
  /\ Life!Return(l)
  /\ \/ phase[l] = "closing" /\ Forget(l)
     \/ phase[l] # "closing" /\ UNCHANGED <<given, early>>
  /\ at' = [at EXCEPT ![l] = "none"]
  /\ pGatewayDevice' = [pGatewayDevice EXCEPT ![l] = None]
  /\ UNCHANGED <<tables, sending>>

-----------------------------------------------------------------------------
(* OnAccept, SaveLinkAndCallBack.                                          *)
OnAccept(l) ==
  /\ \A k \in Links : k < l => fdOf[k] # fdOf[l]
  /\ Life!OnAccept(l)
  /\ Enter(l, "SetHostAddress")

(* SetHostAddress removes the entry of the address (CloseConnection, which *)
(* that calls on the old handle, does nothing), ...                        *)
SetHostAddress(l) ==
  /\ Step(l, "SetHostAddress", "insert")
  /\ m_mapHostAddress' = [m_mapHostAddress EXCEPT ![addrOf[l]] = None]
  /\ UNCHANGED <<m_mapTcpLink, m_mapDevice, pGatewayDevice>>

(* ... then, in a second section, inserts the new one unless there is one. *)
insert(l) ==
  /\ Step(l, "insert", "OnConnect")
  /\ m_mapHostAddress' =
       [m_mapHostAddress EXCEPT ![addrOf[l]] = IF @ = None THEN bevOf[l] ELSE @]
  /\ UNCHANGED <<m_mapTcpLink, m_mapDevice, pGatewayDevice>>

(* CDeviceManager::OnConnect: the CDevice of the address, or a new one, ... *)
OnConnect(l) ==
  /\ Step(l, "OnConnect", "InsertDeviceClient")
  /\ pGatewayDevice' = [pGatewayDevice EXCEPT
       ![l] = IF m_mapDevice[addrOf[l]] = None THEN l ELSE m_mapDevice[addrOf[l]]]
  /\ UNCHANGED tables

(* ... is written to the map.                                              *)
InsertDeviceClient(l) ==
  /\ Step(l, "InsertDeviceClient", "insertLink")
  /\ m_mapDevice' = [m_mapDevice EXCEPT ![addrOf[l]] = pGatewayDevice[l]]
  /\ UNCHANGED <<m_mapHostAddress, m_mapTcpLink, pGatewayDevice>>

insertLink(l) ==
  /\ Step(l, "insertLink", "return")
  /\ m_mapTcpLink' = [m_mapTcpLink EXCEPT ![addrOf[l]] = IF @ = None THEN l ELSE @]
  /\ UNCHANGED <<m_mapHostAddress, m_mapDevice, pGatewayDevice>>

-----------------------------------------------------------------------------
(* OnCmdCome, OnReceive: the chunk is dropped if the address has no        *)
(* CDevice, else the CDevice parses it.                                    *)
OnCmdCome(l) == Life!OnCmdCome(l) /\ Enter(l, "OnReceive")

OnReceive(l) ==
  LET found == m_mapDevice[addrOf[l]] IN
  /\ Step(l, "OnReceive", IF found = None THEN "return" ELSE "Receive")
  /\ pGatewayDevice' = [pGatewayDevice EXCEPT ![l] = found]
  /\ UNCHANGED tables

Receive(l) ==
  /\ Step(l, "Receive", "return")
  /\ UNCHANGED <<tables, pGatewayDevice>>

-----------------------------------------------------------------------------
(* OnClose, DeleteLinkAndCallBack: OnDisconnect deletes the CDevice of the *)
(* address, then its entries in the other tables are deleted, too.         *)
OnClose(l) == Life!OnClose(l) /\ Enter(l, "OnDisconnect")

(* Mutant: the CDevice stays.                                              *)
KeepDevice(l) ==
  /\ Step(l, "OnDisconnect", "RemoveHostAddress")
  /\ UNCHANGED <<tables, pGatewayDevice>>

OnDisconnect(l) ==
  /\ Step(l, "OnDisconnect", "RemoveHostAddress")
  /\ m_mapDevice' = [m_mapDevice EXCEPT ![addrOf[l]] = None]
  /\ UNCHANGED <<m_mapHostAddress, m_mapTcpLink, pGatewayDevice>>

(* Mutant: the host address stays.                                         *)
RemoveNothing(l) ==
  /\ Step(l, "RemoveHostAddress", "eraseLink")
  /\ UNCHANGED <<tables, pGatewayDevice>>

RemoveHostAddress(l) ==
  /\ Step(l, "RemoveHostAddress", "eraseLink")
  /\ m_mapHostAddress' = [m_mapHostAddress EXCEPT ![addrOf[l]] = None]
  /\ UNCHANGED <<m_mapTcpLink, m_mapDevice, pGatewayDevice>>

(* Mutant: the service stays.                                              *)
keepLink(l) ==
  /\ Step(l, "eraseLink", "return")
  /\ UNCHANGED <<tables, pGatewayDevice>>

eraseLink(l) ==
  /\ Step(l, "eraseLink", "return")
  /\ m_mapTcpLink' = [m_mapTcpLink EXCEPT ![addrOf[l]] = None]
  /\ UNCHANGED <<m_mapHostAddress, m_mapDevice, pGatewayDevice>>

-----------------------------------------------------------------------------
(* CDeviceManager::SendData of some worker to the link of an address: the  *)
(* CDevice is looked up, ...                                               *)
SendData(a) ==
  /\ sending.step = "none"
  /\ m_mapDevice[a] # None
  /\ sending' = [sending EXCEPT !.step = "GetHostAddress", !.addr = a]
  /\ UNCHANGED <<peer, received, delivered, phase, given, tables, at, pGatewayDevice, early>>

(* ... its Send looks the handle up, and gives up if there is none, ...    *)
GetHostAddress ==
  LET a == sending.addr IN
  /\ sending.step = "GetHostAddress"
  /\ \/ /\ m_mapHostAddress[a] = None
        /\ sending' = NotSending
     \/ /\ m_mapHostAddress[a] # None
        /\ sending' = [sending EXCEPT
             !.step = "bufSend",
             !.bev = m_mapHostAddress[a],
             !.link = IF OpenFrom(a) = {} THEN None ELSE CHOOSE l \in OpenFrom(a) : TRUE]
  /\ UNCHANGED <<peer, received, delivered, phase, given, tables, at, pGatewayDevice, early>>

(* ... and bufSend writes to the bufferevent if there is one at that       *)
(* address now.                                                            *)
WrittenTo == {l \in Links : peer[l] = "open" /\ bevOf[l] = sending.bev}
bufSend ==
  /\ sending.step = "bufSend"
  /\ sending' = NotSending
  /\ UNCHANGED <<peer, received, delivered, phase, given, tables, at, pGatewayDevice, early>>

Handler(l) ==
  \/ OnAccept(l) \/ SetHostAddress(l) \/ insert(l) \/ OnConnect(l)
  \/ InsertDeviceClient(l) \/ insertLink(l)
  \/ OnCmdCome(l) \/ OnReceive(l) \/ Receive(l)
  \/ OnClose(l) \/ OnDisconnect(l) \/ RemoveHostAddress(l) \/ eraseLink(l)
  \/ Return(l)

Next ==
  \/ \E l \in Links, a \in Addrs, b \in Bevs, fd \in Fds : Connect(l, a, b, fd)
  \/ \E l \in Links : Network(l) \/ Handler(l)
  \/ \E a \in Addrs : SendData(a)
  \/ GetHostAddress \/ bufSend

Spec == Init /\ [][Next]_vars
-----------------------------------------------------------------------------
(* The type of the state; a handler calls no method of a CDevice that is   *)
(* not there.                                                              *)
TypeOK ==
  /\ peer \in [Links -> {"fresh", "open", "closed"}]
  /\ phase \in [Links -> {"unknown", "accepting", "idle", "reading", "closing", "forgotten"}]
  /\ addrOf \in [Links -> Addrs \cup {None}]
  /\ bevOf \in [Links -> Bevs \cup {None}]
  /\ m_mapHostAddress \in [Addrs -> Bevs \cup {None}]
  /\ m_mapTcpLink \in [Addrs -> Links \cup {None}]
  /\ m_mapDevice \in [Addrs -> Links \cup {None}]
  /\ pGatewayDevice \in [Links -> Links \cup {None}]
  /\ \A l \in Links : at[l] # "none" <=> phase[l] \in {"accepting", "reading", "closing"}
  /\ \A l \in Links : at[l] \in {"InsertDeviceClient", "Receive"} => pGatewayDevice[l] # None
  /\ early \subseteq Addrs

(* The three tables agree with each other and with the links.  While no    *)
(* handler of a link from an address runs, the address has an entry in all *)
(* of them or in none, and an entry is of the link from there the service  *)
(* knows - if a peer comes back to an address only after the close of its  *)
(* last link was handled.                                                  *)
Entries(a) == <<m_mapHostAddress[a], m_mapTcpLink[a], m_mapDevice[a]>>
TablesFollowLinks ==
  \A a \in Addrs \ early :
    (\A l \in From(a) : at[l] = "none") =>
      LET accepted == {l \in From(a) : phase[l] = "idle"} IN
      /\ \A l \in accepted : Entries(a) = <<bevOf[l], l, l>>
      /\ accepted = {} => Entries(a) = <<None, None, None>>

(* A handler works with a CDevice that is still in the map and was made    *)
(* for its own link, under the same condition.                             *)
OwnDevice ==
  \A l \in Links :
    at[l] = "Receive" /\ addrOf[l] \notin early =>
      pGatewayDevice[l] = l /\ m_mapDevice[addrOf[l]] = l

(* What is sent to an address reaches the link that was open from there    *)
(* when its handle was looked up, if that link is still open, and no other *)
(* link - whatever bufferevents were freed and given out in between.       *)
StillThere == sending.link # None /\ peer[sending.link] = "open"
ReachesPeer ==
  [][bufSend /\ StillThere /\ sending.addr \notin early
       => WrittenTo = {sending.link}]_vars

(* The comment on SendData: it sends data to the peer.  What is written    *)
(* goes to a link from the address it is meant for, or to nobody.          *)
SentToPeer ==
  [][bufSend => \A l \in WrittenTo : addrOf[l] = sending.addr]_vars
=============================================================================
