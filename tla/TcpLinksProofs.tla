--------------------------- MODULE TcpLinksProofs ---------------------------
(***************************************************************************)
(* Theorems about TcpLinks, for any number of links, addresses,            *)
(* bufferevents and descriptors: the tables follow the links, a handler    *)
(* works with its own CDevice, and what is sent reaches the link it was    *)
(* looked up for.                                                          *)
(***************************************************************************)
EXTENDS TcpLinks, TLAPS

(* The steps of each handler.                                              *)
Accepting == {"SetHostAddress", "insert", "OnConnect", "InsertDeviceClient", "insertLink"}
Reading == {"OnReceive", "Receive"}
Closing == {"OnDisconnect", "RemoveHostAddress", "eraseLink"}

Typed ==
  /\ TypeOK
  /\ at \in [Links -> {"none", "return"} \cup Accepting \cup Reading \cup Closing]
  /\ fdOf \in [Links -> Fds \cup {None}]
  /\ sending \in [step : {"none", "GetHostAddress", "bufSend"}, addr : Addrs \cup {None},
                  bev : Bevs \cup {None}, link : Links \cup {None}]
  /\ sending.step # "none" => sending.addr \in Addrs

(* Where a link is says what it was given and which handler may run.       *)
Places ==
  \A l \in Links :
    /\ peer[l] = "fresh" => phase[l] = "unknown"
    /\ addrOf[l] = None <=> peer[l] = "fresh" \/ phase[l] = "forgotten"
    /\ bevOf[l] = None <=> addrOf[l] = None
    /\ phase[l] \in {"closing", "forgotten"} => peer[l] = "closed"
    /\ at[l] \in Accepting => phase[l] = "accepting"
    /\ at[l] \in Reading => phase[l] = "reading"
    /\ at[l] \in Closing => phase[l] = "closing"

(* An address without an early comer has one link, and open links share    *)
(* nothing.                                                                *)
Apart ==
  /\ \A a \in Addrs \ early : \A k, l \in Links : addrOf[k] = a /\ addrOf[l] = a => k = l
  /\ \A k, l \in Links : peer[k] = "open" /\ peer[l] = "open" /\ k # l =>
       addrOf[k] # addrOf[l] /\ bevOf[k] # bevOf[l]

Inv == Typed /\ Places /\ Apart

(* The links whose entry in a table may be there: inserted, and not yet    *)
(* erased by the close.                                                    *)
Connected(l, done) == phase[l] = "accepting" /\ at[l] \in done \cup {"return"}
HasHost(l) ==
  \/ Connected(l, {"OnConnect", "InsertDeviceClient", "insertLink"})
  \/ phase[l] \in {"idle", "reading"}
  \/ at[l] \in {"OnDisconnect", "RemoveHostAddress"}
HasDevice(l) ==
  \/ Connected(l, {"insertLink"})
  \/ phase[l] \in {"idle", "reading"}
  \/ at[l] = "OnDisconnect"
HasLink(l) ==
  \/ Connected(l, {})
  \/ phase[l] \in {"idle", "reading"}
  \/ at[l] \in Closing

(* Whoever comes back to an address, an entry there is one that some link  *)
(* from there will still erase: a forgotten address has none.              *)
Cleared ==
  \A a \in Addrs :
    /\ m_mapHostAddress[a] # None => \E l \in Links : addrOf[l] = a /\ HasHost(l)
    /\ m_mapDevice[a] # None => \E l \in Links : addrOf[l] = a /\ HasDevice(l)
    /\ m_mapTcpLink[a] # None => \E l \in Links : addrOf[l] = a /\ HasLink(l)

(* The entries of an address without an early comer are exactly those its  *)
(* only link has made and not erased.                                      *)
Entered ==
  \A l \in Links : addrOf[l] \in Addrs \ early =>
    /\ m_mapHostAddress[addrOf[l]] = IF HasHost(l) THEN bevOf[l] ELSE None
    /\ m_mapDevice[addrOf[l]] = IF HasDevice(l) THEN l ELSE None
    /\ m_mapTcpLink[addrOf[l]] = IF HasLink(l) THEN l ELSE None
    /\ at[l] \in {"InsertDeviceClient", "Receive"} => pGatewayDevice[l] = l

(* A send that has its handle still has the handle of the link it saw.     *)
Sent ==
  sending.step = "bufSend" /\ sending.link # None =>
    /\ peer[sending.link] # "fresh"
    /\ peer[sending.link] = "open" =>
         /\ addrOf[sending.link] = sending.addr
         /\ sending.addr \notin early => bevOf[sending.link] = sending.bev
-----------------------------------------------------------------------------
(* What the event thread does to a link that is there.                     *)
LEMMA NetworkEffect ==
  ASSUME NEW l \in Links, Network(l)
  PROVE  /\ peer' = peer \/ (peer[l] = "open" /\ peer' = [peer EXCEPT ![l] = "closed"])
         /\ UNCHANGED <<phase, given, tables, at, pGatewayDevice, sending, early>>
  BY DEF Network, Life!Receive, Life!HangUp

(* What the second step of a send finds.                                   *)
LEMMA LookUpEffect ==
  ASSUME Typed, GetHostAddress
  PROVE  \/ sending' = NotSending
         \/ /\ sending.addr \in Addrs
            /\ m_mapHostAddress[sending.addr] \in Bevs
            /\ \E k \in OpenFrom(sending.addr) \cup {None} :
                 sending' = [sending EXCEPT !.step = "bufSend", !.bev = m_mapHostAddress[sending.addr], !.link = k]
<1> DEFINE a == sending.addr
           open == IF OpenFrom(a) = {} THEN None ELSE CHOOSE k \in OpenFrom(a) : TRUE
<1>1. a \in Addrs
  BY DEF Typed, GetHostAddress
<1>2. open \in OpenFrom(a) \cup {None}
  OBVIOUS
<1>3. \/ sending' = NotSending
      \/ /\ m_mapHostAddress[a] # None
         /\ sending' = [sending EXCEPT !.step = "bufSend", !.bev = m_mapHostAddress[a], !.link = open]
  BY DEF GetHostAddress
<1> HIDE DEF open
<1> QED
  BY <1>1, <1>2, <1>3 DEF Typed, TypeOK

LEMMA InvInit == Init => Inv
<1> SUFFICES ASSUME Init PROVE Inv
  OBVIOUS
<1> USE NoneAssumption DEF Init, Life!Init
<1>1. TypeOK
  BY DEF TypeOK
<1>2. Typed
  BY <1>1 DEF Typed, NotSending
<1>3. Places /\ Apart
  BY DEF Places, Apart, Accepting, Reading, Closing
<1> QED
  BY <1>2, <1>3 DEF Inv

LEMMA InvNext == Inv /\ [Next]_vars => Inv'
<1> SUFFICES ASSUME Inv, [Next]_vars PROVE Inv'
  OBVIOUS
<1> USE NoneAssumption DEF Inv, Typed, TypeOK, Places, Apart, Accepting, Reading, Closing, given, tables
<1>1. ASSUME NEW l \in Links, NEW a \in Addrs, NEW b \in Bevs, NEW fd \in Fds, Connect(l, a, b, fd) PROVE Inv'
  <2>1. /\ peer[l] = "fresh" /\ addrOf[l] = None
        /\ peer' = [peer EXCEPT ![l] = "open"]
        /\ addrOf' = [addrOf EXCEPT ![l] = a]
        /\ bevOf' = [bevOf EXCEPT ![l] = b]
        /\ fdOf' = [fdOf EXCEPT ![l] = fd]
        /\ \A k \in Links : peer[k] = "open" => addrOf[k] # a /\ bevOf[k] # b
        /\ UNCHANGED <<phase, tables, at, pGatewayDevice, sending>>
    BY <1>1 DEF Connect, Life!Connect
  <2>2. early' \subseteq Addrs /\ early \subseteq early'
    BY <1>1 DEF Connect
  <2>3. \A k \in Links : addrOf[k] = a => a \in early'
    BY <1>1 DEF Connect, From
  <2>4. Typed'
    BY <2>1, <2>2
  <2>5. Places'
    BY <2>1
  <2>6. \A x \in Addrs \ early' : \A k, m \in Links : addrOf'[k] = x /\ addrOf'[m] = x => k = m
    BY <2>1, <2>2, <2>3
  <2>7. Apart'
    BY <2>1, <2>6
  <2> QED
    BY <2>4, <2>5, <2>7
<1>2. ASSUME NEW l \in Links, Network(l) PROVE Inv'
  BY <1>2, NetworkEffect
<1>3. ASSUME NEW l \in Links, OnAccept(l) PROVE Inv'
  BY <1>3 DEF OnAccept, Enter, Life!OnAccept, Life!Move
<1>4. ASSUME NEW l \in Links, SetHostAddress(l) PROVE Inv'
  BY <1>4 DEF SetHostAddress, Step
<1>5. ASSUME NEW l \in Links, insert(l) PROVE Inv'
  BY <1>5 DEF insert, Step
<1>6. ASSUME NEW l \in Links, OnConnect(l) PROVE Inv'
  BY <1>6 DEF OnConnect, Step
<1>7. ASSUME NEW l \in Links, InsertDeviceClient(l) PROVE Inv'
  BY <1>7 DEF InsertDeviceClient, Step
<1>8. ASSUME NEW l \in Links, insertLink(l) PROVE Inv'
  BY <1>8 DEF insertLink, Step
<1>9. ASSUME NEW l \in Links, OnCmdCome(l) PROVE Inv'
  BY <1>9 DEF OnCmdCome, Enter, Life!OnCmdCome, Life!Move
<1>10. ASSUME NEW l \in Links, OnReceive(l) PROVE Inv'
  BY <1>10 DEF OnReceive, Step
<1>11. ASSUME NEW l \in Links, Receive(l) PROVE Inv'
  BY <1>11 DEF Receive, Step
<1>12. ASSUME NEW l \in Links, OnClose(l) PROVE Inv'
  BY <1>12 DEF OnClose, Enter, Life!OnClose, Life!Move
<1>13. ASSUME NEW l \in Links, OnDisconnect(l) PROVE Inv'
  BY <1>13 DEF OnDisconnect, Step
<1>14. ASSUME NEW l \in Links, RemoveHostAddress(l) PROVE Inv'
  BY <1>14 DEF RemoveHostAddress, Step
<1>15. ASSUME NEW l \in Links, eraseLink(l) PROVE Inv'
  BY <1>15 DEF eraseLink, Step
<1>16. ASSUME NEW l \in Links, Return(l) PROVE Inv'
  <2>1. /\ at[l] = "return"
        /\ phase[l] \in {"accepting", "reading", "closing"}
        /\ phase' = [phase EXCEPT ![l] = IF phase[l] = "closing" THEN "forgotten" ELSE "idle"]
        /\ at' = [at EXCEPT ![l] = "none"]
        /\ pGatewayDevice' = [pGatewayDevice EXCEPT ![l] = None]
        /\ UNCHANGED <<peer, tables, sending>>
    BY <1>16 DEF Return, Life!Return, Life!Move
  <2>2. CASE phase[l] # "closing"
    <3>1. UNCHANGED <<given, early>>
      BY <1>16, <2>2 DEF Return
    <3> QED
      BY <2>1, <2>2, <3>1
  <2>3. CASE phase[l] = "closing"
    <3>1. /\ addrOf' = [addrOf EXCEPT ![l] = None]
          /\ bevOf' = [bevOf EXCEPT ![l] = None]
          /\ fdOf' = [fdOf EXCEPT ![l] = None]
          /\ early' = early \ {a \in {addrOf[l]} : From(a) = {l}}
      BY <1>16, <2>3 DEF Return, Forget
    <3>2. early' \subseteq early
      BY <3>1
    <3>3. \A a \in early \ early' : \A k \in Links : addrOf[k] = a => k = l
      BY <3>1 DEF From
    <3>4. Typed'
      BY <2>1, <2>3, <3>1, <3>2
    <3>5. Places'
      BY <2>1, <2>3, <3>1
    <3>6. \A x \in Addrs \ early' : \A k, m \in Links : addrOf'[k] = x /\ addrOf'[m] = x => k = m
      BY <3>1, <3>2, <3>3
    <3>7. Apart'
      BY <2>1, <3>1, <3>6
    <3> QED
      BY <3>4, <3>5, <3>7
  <2> QED
    BY <2>2, <2>3
<1>17. ASSUME NEW a \in Addrs, SendData(a) PROVE Inv'
  <2>1. sending' \in [step : {"none", "GetHostAddress", "bufSend"}, addr : Addrs \cup {None},
                      bev : Bevs \cup {None}, link : Links \cup {None}]
    BY <1>17 DEF SendData
  <2>2. sending'.addr = a
    BY <1>17 DEF SendData
  <2>3. UNCHANGED <<peer, phase, given, tables, at, pGatewayDevice, early>>
    BY <1>17 DEF SendData
  <2> QED
    BY <2>1, <2>2, <2>3
<1>18. CASE GetHostAddress
  <2>1. /\ sending' \in [step : {"none", "GetHostAddress", "bufSend"}, addr : Addrs \cup {None},
                         bev : Bevs \cup {None}, link : Links \cup {None}]
        /\ sending'.step # "none" => sending'.addr \in Addrs
    <3>1. CASE sending' = NotSending
      BY <3>1 DEF NotSending
    <3>2. CASE sending' # NotSending
      <4>1. PICK k \in OpenFrom(sending.addr) \cup {None} :
              /\ sending.addr \in Addrs
              /\ m_mapHostAddress[sending.addr] \in Bevs
              /\ sending' = [sending EXCEPT !.step = "bufSend", !.bev = m_mapHostAddress[sending.addr], !.link = k]
        BY <1>18, <3>2, LookUpEffect
      <4>2. k \in Links \cup {None}
        BY DEF OpenFrom, From
      <4> QED
        BY <4>1, <4>2
    <3> QED
      BY <3>1, <3>2
  <2>2. UNCHANGED <<peer, phase, given, tables, at, pGatewayDevice, early>>
    BY <1>18 DEF GetHostAddress
  <2> QED
    BY <2>1, <2>2
<1>19. CASE bufSend
  BY <1>19 DEF bufSend, NotSending
<1>20. CASE UNCHANGED vars
  BY <1>20 DEF vars
<1> HIDE DEF Inv
<1> QED
  BY <1>1, <1>2, <1>3, <1>4, <1>5, <1>6, <1>7, <1>8, <1>9, <1>10, <1>11, <1>12, <1>13, <1>14, <1>15,
     <1>16, <1>17, <1>18, <1>19, <1>20 DEF Next, Handler
LEMMA EntriesInit == Init => Cleared /\ Entered /\ Sent
  BY NoneAssumption DEF Init, Life!Init, Cleared, Entered, Sent, StillThere, NotSending, HasHost, HasDevice, HasLink, Connected, Closing

(* An entry that no step made is kept by the link that will erase it.      *)
LEMMA EntriesKept ==
  ASSUME Cleared, UNCHANGED tables,
         \A k \in Links : /\ HasHost(k) => addrOf'[k] = addrOf[k] /\ HasHost(k)'
                          /\ HasDevice(k) => addrOf'[k] = addrOf[k] /\ HasDevice(k)'
                          /\ HasLink(k) => addrOf'[k] = addrOf[k] /\ HasLink(k)'
  PROVE  Cleared'
  BY DEF Cleared, tables

(* Whatever a handler does, an entry keeps a link that will erase it.      *)
LEMMA ClearedNext == Inv /\ Cleared /\ [Next]_vars => Cleared'
<1> SUFFICES ASSUME Inv /\ Cleared, [Next]_vars PROVE Cleared'
  OBVIOUS
<1> USE NoneAssumption DEF Inv, Typed, TypeOK, Places, Apart, Accepting, Reading, Closing, given, tables, Cleared, HasHost, HasDevice, HasLink, Connected
<1>1. ASSUME NEW l \in Links, NEW a \in Addrs, NEW b \in Bevs, NEW fd \in Fds, Connect(l, a, b, fd) PROVE Cleared'
  BY <1>1 DEF Connect, Life!Connect, From
<1>2. ASSUME NEW l \in Links, Network(l) PROVE Cleared'
  BY <1>2, NetworkEffect
<1>3. ASSUME NEW l \in Links, OnAccept(l) PROVE Cleared'
  BY <1>3 DEF OnAccept, Enter, Life!OnAccept, Life!Move
<1>4. ASSUME NEW l \in Links, SetHostAddress(l) PROVE Cleared'
  BY <1>4 DEF SetHostAddress, Step
<1>5. ASSUME NEW l \in Links, insert(l) PROVE Cleared'
  BY <1>5 DEF insert, Step
<1>6. ASSUME NEW l \in Links, OnConnect(l) PROVE Cleared'
  BY <1>6 DEF OnConnect, Step
<1>7. ASSUME NEW l \in Links, InsertDeviceClient(l) PROVE Cleared'
  BY <1>7 DEF InsertDeviceClient, Step
<1>8. ASSUME NEW l \in Links, insertLink(l) PROVE Cleared'
  BY <1>8 DEF insertLink, Step
<1>9. ASSUME NEW l \in Links, OnCmdCome(l) PROVE Cleared'
  BY <1>9 DEF OnCmdCome, Enter, Life!OnCmdCome, Life!Move
<1>10. ASSUME NEW l \in Links, OnReceive(l) PROVE Cleared'
  BY <1>10 DEF OnReceive, Step
<1>11. ASSUME NEW l \in Links, Receive(l) PROVE Cleared'
  BY <1>11 DEF Receive, Step
<1>12. ASSUME NEW l \in Links, OnClose(l) PROVE Cleared'
  BY <1>12 DEF OnClose, Enter, Life!OnClose, Life!Move
<1>13. ASSUME NEW l \in Links, OnDisconnect(l) PROVE Cleared'
  BY <1>13 DEF OnDisconnect, Step
<1>14. ASSUME NEW l \in Links, RemoveHostAddress(l) PROVE Cleared'
  BY <1>14 DEF RemoveHostAddress, Step
<1>15. ASSUME NEW l \in Links, eraseLink(l) PROVE Cleared'
  BY <1>15 DEF eraseLink, Step
<1>16. ASSUME NEW l \in Links, Return(l) PROVE Cleared'
  <2>1. UNCHANGED tables
    BY <1>16 DEF Return
  <2>2. ASSUME NEW k \in Links, k # l
        PROVE  /\ addrOf'[k] = addrOf[k]
               /\ HasHost(k) => HasHost(k)'
               /\ HasDevice(k) => HasDevice(k)'
               /\ HasLink(k) => HasLink(k)'
    <3>1. addrOf'[k] = addrOf[k] /\ phase'[k] = phase[k] /\ at'[k] = at[k]
      BY <1>16, <2>2 DEF Return, Forget, Life!Return, Life!Move
    <3> QED
      BY <3>1
  <2>3. CASE phase[l] = "closing"
    <3>1. ~HasHost(l) /\ ~HasDevice(l) /\ ~HasLink(l)
      BY <1>16, <2>3 DEF Return
    <3> QED
      BY <2>1, <2>2, <3>1, EntriesKept
  <2>4. CASE phase[l] # "closing"
    <3>1. addrOf' = addrOf /\ phase'[l] = "idle"
      BY <1>16, <2>4 DEF Return, Life!Return, Life!Move
    <3>2. HasHost(l)' /\ HasDevice(l)' /\ HasLink(l)'
      BY <3>1
    <3> QED
      BY <2>1, <2>2, <3>1, <3>2, EntriesKept
  <2> QED
    BY <2>3, <2>4
<1>17. ASSUME NEW a \in Addrs, SendData(a) PROVE Cleared'
  BY <1>17 DEF SendData
<1>18. CASE GetHostAddress
  BY <1>18 DEF GetHostAddress
<1>19. CASE bufSend
  BY <1>19 DEF bufSend
<1>20. CASE UNCHANGED vars
  BY <1>20 DEF vars
<1> HIDE DEF Inv, Cleared
<1> QED
  BY <1>1, <1>2, <1>3, <1>4, <1>5, <1>6, <1>7, <1>8, <1>9, <1>10, <1>11, <1>12, <1>13, <1>14, <1>15, <1>16, <1>17, <1>18, <1>19, <1>20 DEF Next, Handler

(* A handler changes the entries of its own address only, and then the     *)
(* address of its link has no other link, or an early comer.               *)
LEMMA EnteredNext == Inv /\ Cleared /\ Entered /\ [Next]_vars => Entered'
<1> SUFFICES ASSUME Inv /\ Cleared /\ Entered, [Next]_vars PROVE Entered'
  OBVIOUS
<1> USE NoneAssumption DEF Inv, Typed, TypeOK, Places, Apart, Accepting, Reading, Closing, given, tables, Cleared, Entered, HasHost, HasDevice, HasLink, Connected
<1>1. ASSUME NEW l \in Links, NEW a \in Addrs, NEW b \in Bevs, NEW fd \in Fds, Connect(l, a, b, fd) PROVE Entered'
  BY <1>1 DEF Connect, Life!Connect, From
<1>2. ASSUME NEW l \in Links, Network(l) PROVE Entered'
  BY <1>2, NetworkEffect
<1>3. ASSUME NEW l \in Links, OnAccept(l) PROVE Entered'
  BY <1>3 DEF OnAccept, Enter, Life!OnAccept, Life!Move
<1>4. ASSUME NEW l \in Links, SetHostAddress(l) PROVE Entered'
  BY <1>4 DEF SetHostAddress, Step
<1>5. ASSUME NEW l \in Links, insert(l) PROVE Entered'
  BY <1>5 DEF insert, Step
<1>6. ASSUME NEW l \in Links, OnConnect(l) PROVE Entered'
  BY <1>6 DEF OnConnect, Step
<1>7. ASSUME NEW l \in Links, InsertDeviceClient(l) PROVE Entered'
  BY <1>7 DEF InsertDeviceClient, Step
<1>8. ASSUME NEW l \in Links, insertLink(l) PROVE Entered'
  BY <1>8 DEF insertLink, Step
<1>9. ASSUME NEW l \in Links, OnCmdCome(l) PROVE Entered'
  BY <1>9 DEF OnCmdCome, Enter, Life!OnCmdCome, Life!Move
<1>10. ASSUME NEW l \in Links, OnReceive(l) PROVE Entered'
  BY <1>10 DEF OnReceive, Step
<1>11. ASSUME NEW l \in Links, Receive(l) PROVE Entered'
  BY <1>11 DEF Receive, Step
<1>12. ASSUME NEW l \in Links, OnClose(l) PROVE Entered'
  BY <1>12 DEF OnClose, Enter, Life!OnClose, Life!Move
<1>13. ASSUME NEW l \in Links, OnDisconnect(l) PROVE Entered'
  BY <1>13 DEF OnDisconnect, Step
<1>14. ASSUME NEW l \in Links, RemoveHostAddress(l) PROVE Entered'
  BY <1>14 DEF RemoveHostAddress, Step
<1>15. ASSUME NEW l \in Links, eraseLink(l) PROVE Entered'
  BY <1>15 DEF eraseLink, Step
<1>16. ASSUME NEW l \in Links, Return(l) PROVE Entered'
  BY <1>16 DEF Return, Forget, From, Life!Return, Life!Move
<1>17. ASSUME NEW a \in Addrs, SendData(a) PROVE Entered'
  BY <1>17 DEF SendData
<1>18. CASE GetHostAddress
  BY <1>18 DEF GetHostAddress
<1>19. CASE bufSend
  BY <1>19 DEF bufSend
<1>20. CASE UNCHANGED vars
  BY <1>20 DEF vars
<1> HIDE DEF Inv, Entered
<1> QED
  BY <1>1, <1>2, <1>3, <1>4, <1>5, <1>6, <1>7, <1>8, <1>9, <1>10, <1>11, <1>12, <1>13, <1>14, <1>15, <1>16, <1>17, <1>18, <1>19, <1>20 DEF Next, Handler

(* A handle that was looked up is the one of the link seen, whatever       *)
(* happens to the address until it is used.                                *)
LEMMA SentNext == Inv /\ Entered /\ Sent /\ [Next]_vars => Sent'
<1> SUFFICES ASSUME Inv /\ Entered /\ Sent, [Next]_vars PROVE Sent'
  OBVIOUS
<1> USE NoneAssumption DEF Inv, Typed, TypeOK, Places, Apart, Accepting, Reading, Closing, given, tables, Sent
<1>1. ASSUME NEW l \in Links, NEW a \in Addrs, NEW b \in Bevs, NEW fd \in Fds, Connect(l, a, b, fd) PROVE Sent'
  <2>1. /\ peer[l] = "fresh"
        /\ peer' = [peer EXCEPT ![l] = "open"]
        /\ addrOf' = [addrOf EXCEPT ![l] = a]
        /\ bevOf' = [bevOf EXCEPT ![l] = b]
        /\ sending' = sending
    BY <1>1 DEF Connect, Life!Connect
  <2>2. early \subseteq early'
    BY <1>1 DEF Connect
  <2> QED
    BY <2>1, <2>2
<1>2. ASSUME NEW l \in Links, Network(l) PROVE Sent'
  BY <1>2, NetworkEffect
<1>3. ASSUME NEW l \in Links, OnAccept(l) PROVE Sent'
  BY <1>3 DEF OnAccept, Enter, Life!OnAccept, Life!Move
<1>4. ASSUME NEW l \in Links, SetHostAddress(l) PROVE Sent'
  BY <1>4 DEF SetHostAddress, Step
<1>5. ASSUME NEW l \in Links, insert(l) PROVE Sent'
  BY <1>5 DEF insert, Step
<1>6. ASSUME NEW l \in Links, OnConnect(l) PROVE Sent'
  BY <1>6 DEF OnConnect, Step
<1>7. ASSUME NEW l \in Links, InsertDeviceClient(l) PROVE Sent'
  BY <1>7 DEF InsertDeviceClient, Step
<1>8. ASSUME NEW l \in Links, insertLink(l) PROVE Sent'
  BY <1>8 DEF insertLink, Step
<1>9. ASSUME NEW l \in Links, OnCmdCome(l) PROVE Sent'
  BY <1>9 DEF OnCmdCome, Enter, Life!OnCmdCome, Life!Move
<1>10. ASSUME NEW l \in Links, OnReceive(l) PROVE Sent'
  BY <1>10 DEF OnReceive, Step
<1>11. ASSUME NEW l \in Links, Receive(l) PROVE Sent'
  BY <1>11 DEF Receive, Step
<1>12. ASSUME NEW l \in Links, OnClose(l) PROVE Sent'
  BY <1>12 DEF OnClose, Enter, Life!OnClose, Life!Move
<1>13. ASSUME NEW l \in Links, OnDisconnect(l) PROVE Sent'
  BY <1>13 DEF OnDisconnect, Step
<1>14. ASSUME NEW l \in Links, RemoveHostAddress(l) PROVE Sent'
  BY <1>14 DEF RemoveHostAddress, Step
<1>15. ASSUME NEW l \in Links, eraseLink(l) PROVE Sent'
  BY <1>15 DEF eraseLink, Step
<1>16. ASSUME NEW l \in Links, Return(l) PROVE Sent'
  BY <1>16 DEF Return, Forget, From, Life!Return, Life!Move
<1>17. ASSUME NEW a \in Addrs, SendData(a) PROVE Sent'
  BY <1>17 DEF SendData
<1>18. CASE GetHostAddress
  <2>1. CASE sending' = NotSending
    BY <2>1 DEF NotSending
  <2>2. CASE sending' # NotSending
    <3>1. PICK k \in OpenFrom(sending.addr) \cup {None} :
            /\ sending.addr \in Addrs
            /\ m_mapHostAddress[sending.addr] \in Bevs
            /\ sending' = [sending EXCEPT !.step = "bufSend", !.bev = m_mapHostAddress[sending.addr], !.link = k]
      BY <1>18, <2>2, LookUpEffect
    <3>2. k # None => k \in Links /\ addrOf[k] = sending.addr /\ peer[k] = "open"
      BY DEF OpenFrom, From
    <3>3. k # None /\ sending.addr \notin early => bevOf[k] = m_mapHostAddress[sending.addr]
      BY <3>1, <3>2 DEF Entered
    <3>4. sending'.addr = sending.addr /\ sending'.bev = m_mapHostAddress[sending.addr] /\ sending'.link = k
      BY <3>1
    <3>5. UNCHANGED <<peer, phase, given, early>>
      BY <1>18 DEF GetHostAddress
    <3> QED
      BY <3>2, <3>3, <3>4, <3>5
  <2> QED
    BY <2>1, <2>2
<1>19. CASE bufSend
  BY <1>19 DEF bufSend, NotSending
<1>20. CASE UNCHANGED vars
  BY <1>20 DEF vars
<1> HIDE DEF Inv, Sent
<1> QED
  BY <1>1, <1>2, <1>3, <1>4, <1>5, <1>6, <1>7, <1>8, <1>9, <1>10, <1>11, <1>12, <1>13, <1>14, <1>15, <1>16, <1>17, <1>18, <1>19, <1>20 DEF Next, Handler

-----------------------------------------------------------------------------
(* The inductive invariant of the tables and of a send under way.          *)
LEMMA Invariant == Spec => [](Inv /\ Cleared /\ Entered /\ Sent)
<1>1. Init => Inv /\ Cleared /\ Entered /\ Sent
  BY InvInit, EntriesInit
<1>2. Inv /\ Cleared /\ Entered /\ Sent /\ [Next]_vars => (Inv /\ Cleared /\ Entered /\ Sent)'
  BY InvNext, ClearedNext, EnteredNext, SentNext
<1> QED
  BY <1>1, <1>2, PTL DEF Spec

(* The state keeps its type; no handler calls a method of a CDevice that   *)
(* is not there (CDeviceManager::OnReceive, OnConnect).                    *)
THEOREM TypeCorrect == Spec => []TypeOK
  BY Invariant, PTL DEF Inv, Typed

(* While no handler of an address runs, the tables of host addresses,      *)
(* services and devices agree with each other and with the links.          *)
THEOREM TablesFollow == Spec => []TablesFollowLinks
<1>1. ASSUME Inv, Cleared, Entered PROVE TablesFollowLinks
  <2> SUFFICES ASSUME NEW a \in Addrs \ early, \A l \in From(a) : at[l] = "none"
               PROVE  LET accepted == {l \in From(a) : phase[l] = "idle"} IN
                      /\ \A l \in accepted : Entries(a) = <<bevOf[l], l, l>>
                      /\ accepted = {} => Entries(a) = <<None, None, None>>
    BY DEF TablesFollowLinks
  <2> USE <1>1 DEF From
  <2>1. ASSUME NEW l \in From(a), phase[l] = "idle" PROVE Entries(a) = <<bevOf[l], l, l>>
    BY <2>1 DEF Entered, Entries, HasHost, HasDevice, HasLink
  <2>2. ASSUME \A l \in From(a) : phase[l] # "idle" PROVE Entries(a) = <<None, None, None>>
    <3>1. \A l \in From(a) : phase[l] \notin {"accepting", "reading", "closing", "idle"}
      BY <2>2 DEF Inv, Typed, TypeOK
    <3>2. \A l \in Links : addrOf[l] = a => ~HasHost(l) /\ ~HasDevice(l) /\ ~HasLink(l)
      BY <3>1 DEF HasHost, HasDevice, HasLink, Connected, Closing
    <3> QED
      BY <3>2 DEF Cleared, Entries
  <2> QED
    BY <2>1, <2>2
<1> QED
  BY <1>1, Invariant, PTL

(* The chunk a worker hands to a CDevice goes to the one made for its own  *)
(* link, which is still in the map.                                        *)
THEOREM ReadsOwnDevice == Spec => []OwnDevice
<1>1. ASSUME Inv, Entered PROVE OwnDevice
  BY <1>1, NoneAssumption DEF OwnDevice, Entered, Inv, Typed, TypeOK, Places, Reading, HasDevice
<1> QED
  BY <1>1, Invariant, PTL

(* CDeviceManager::SendData: what is sent to an address reaches the link   *)
(* its handle was of, and no other.                                        *)
THEOREM SendsReachPeer == Spec => ReachesPeer
<1>1. ASSUME Inv, Sent, bufSend, StillThere, sending.addr \notin early PROVE WrittenTo = {sending.link}
  <2>1. sending.link \in Links /\ peer[sending.link] = "open" /\ bevOf[sending.link] = sending.bev
    BY <1>1 DEF Sent, StillThere, bufSend, Inv, Typed
  <2>2. \A l \in Links : peer[l] = "open" /\ bevOf[l] = sending.bev => l = sending.link
    BY <1>1, <2>1 DEF Inv, Apart
  <2> QED
    BY <2>1, <2>2 DEF WrittenTo
<1>2. Inv /\ Sent => (bufSend /\ StillThere /\ sending.addr \notin early => WrittenTo = {sending.link})
  BY <1>1
<1> QED
  BY <1>2, Invariant, PTL DEF ReachesPeer
=============================================================================
