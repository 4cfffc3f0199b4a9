------------------------- MODULE ClientLinksProofs -------------------------
(***************************************************************************)
(* Theorems about ClientLinks, for any number of connections and servers:  *)
(* when the callbacks of a connection are its own, and when the tables of  *)
(* addresses follow the connections.                                       *)
(***************************************************************************)
EXTENDS ClientLinks, TLAPS

(* Where a thread is says which callbacks it can be in.                    *)
Opening == {"SetHostAddress", "insert", "OnConnect", "insertLink"}
Closing == {"OnDisconnect", "RemoveHostAddress", "eraseLink"}
Places ==
  \A c \in Clients :
    /\ thread[c] # "none" => addrOf[c] \in Addrs /\ owner \in Clients
    /\ at[c] \in Opening => thread[c] = "open"
    /\ at[c] \in Closing => thread[c] = "closing"
    /\ thread[c] = "closing" => at[c] \in Closing \/ undefined
StopsNothing == ~stopped => stopping = None

Inv == TypeOK /\ Places /\ StopsNothing
-----------------------------------------------------------------------------
LEMMA InvInit == Init => Inv
  BY NoneAssumption DEF Init, Inv, TypeOK, Places, StopsNothing, Opening, Closing

(* The first steps of what the three callbacks call.                       *)
Callbacks == {"none", "SetHostAddress", "OnDisconnect"}

(* What Notify does, at each connection: the callback goes to the owner's  *)
(* service, unless that was deleted.                                       *)
Called(c) == owner \in Clients /\ called' = called \cup {<<owner, c>>} /\ called' \subseteq Clients \X Clients
Notification(c, step) ==
  /\ owner \in Clients /\ undefined = FALSE /\ at[c] = "none" /\ by[c] = None
  /\ undefined' \in BOOLEAN /\ (undefined' = TRUE <=> owner \in deleted)
  /\ \A d \in Clients :
       /\ at'[d] = IF d = c /\ owner \notin deleted THEN step ELSE at[d]
       /\ by'[d] = IF d = c /\ owner \notin deleted /\ step # "none" THEN owner ELSE by[d]
  /\ at' \in [Clients -> {"none", "SetHostAddress", "insert", "OnConnect", "insertLink",
                         "OnDisconnect", "RemoveHostAddress", "eraseLink"}]
  /\ by' \in [Clients -> Clients \cup {None}]
  /\ owner' = owner /\ deleted' = deleted /\ addrOf' = addrOf
  /\ m_mapHostAddress' = m_mapHostAddress /\ m_mapTcpLink' = m_mapTcpLink /\ m_mapDevice' = m_mapDevice
  /\ stopping' = stopping /\ overlapped' = overlapped /\ collided' = collided /\ stopped' = stopped

LEMMA Notified ==
  ASSUME Inv, NEW c \in Clients, thread[c] # "none", NEW step \in Callbacks, Notify(c, step)
  PROVE  Notification(c, step) /\ Called(c)
<1>1. /\ owner \in Clients /\ called \subseteq Clients \X Clients /\ undefined = FALSE
      /\ at[c] = "none" /\ by[c] = None
      /\ at \in [Clients -> {"none", "SetHostAddress", "insert", "OnConnect", "insertLink",
                             "OnDisconnect", "RemoveHostAddress", "eraseLink"}]
      /\ by \in [Clients -> Clients \cup {None}]
  BY DEF Inv, TypeOK, Places, Notify
<1>2. called' = called \cup {<<owner, c>>} /\ <<owner, c>> \in Clients \X Clients
  BY <1>1 DEF Notify
<1>3. called' \subseteq Clients \X Clients
  BY <1>1, <1>2
<1>4. CASE owner \in deleted
  BY <1>1, <1>2, <1>3, <1>4 DEF Notify, Notification, Called, tables, Callbacks
<1>5. CASE owner \notin deleted
  <2>1. /\ at' = [at EXCEPT ![c] = step] /\ by' = [by EXCEPT ![c] = IF step = "none" THEN None ELSE owner]
        /\ undefined' = undefined
    BY <1>5 DEF Notify
  <2>2. undefined' \in BOOLEAN /\ (undefined' = TRUE <=> owner \in deleted)
    BY <1>1, <1>5, <2>1
  <2>3. /\ owner' = owner /\ deleted' = deleted /\ addrOf' = addrOf
        /\ m_mapHostAddress' = m_mapHostAddress /\ m_mapTcpLink' = m_mapTcpLink /\ m_mapDevice' = m_mapDevice
        /\ stopping' = stopping /\ overlapped' = overlapped /\ collided' = collided /\ stopped' = stopped
    BY DEF Notify, tables
  <2> QED
    BY <1>1, <1>2, <1>3, <1>5, <2>1, <2>2, <2>3 DEF Notification, Called, Callbacks
<1> QED
  BY <1>4, <1>5

LEMMA NotifiedTypeOK ==
  ASSUME TypeOK, NEW c \in Clients, NEW step, step # "none" <=> step \in Opening \cup Closing,
         Notification(c, step), Called(c),
         thread' \in [Clients -> {"none", "started", "dialing", "open", "failed", "freed", "closing", "ended"}]
  PROVE  TypeOK'
<1>1. \A d \in Clients : at'[d] # "none" <=> by'[d] # None
  BY NoneAssumption DEF TypeOK, Notification
<1>2. called' \subseteq Clients \X Clients
  BY DEF Called
<1> QED
  BY <1>1, <1>2 DEF TypeOK, Notification

LEMMA InvNext == Inv /\ [Next]_vars => Inv'
<1> SUFFICES ASSUME Inv, [Next]_vars PROVE Inv'
  OBVIOUS
<1>0. ASSUME NEW c \in Clients, thread[c] # "none", NEW step \in Callbacks, Notify(c, step)
      PROVE  Notification(c, step) /\ Called(c)
  BY <1>0, Notified
<1> USE NoneAssumption DEF Inv, TypeOK, Places, StopsNothing, Opening, Closing, tables, history
<1>1. ASSUME NEW c \in Clients, NEW a \in Addrs, ConnectServer(c, a) PROVE Inv'
  BY <1>1 DEF ConnectServer, CreateConnectToDevice, CreateTcpClient
<1>2. ASSUME NEW c \in Clients, startClientThread(c) PROVE Inv'
  BY <1>2 DEF startClientThread
<1>3. ASSUME NEW c \in Clients, event_cb(c) PROVE Inv'
  <2>1. ASSUME Notify(c, "SetHostAddress"), thread[c] = "dialing", thread' = [thread EXCEPT ![c] = "open"]
        PROVE  Inv'
    <3>0. Notification(c, "SetHostAddress") /\ Called(c)
      BY <2>1, <1>0 DEF Callbacks
    <3>1. TypeOK'
      BY <2>1, <3>0, NotifiedTypeOK
    <3>2. Places' /\ StopsNothing'
      BY <2>1, <3>0 DEF Notification
    <3> QED
      BY <3>1, <3>2
  <2>2. CASE /\ ~undefined /\ thread[c] \in {"dialing", "open"} /\ at[c] = "none"
             /\ thread' = [thread EXCEPT ![c] = IF @ = "open" THEN "freed" ELSE "failed"]
             /\ UNCHANGED <<owner, deleted, at, by, addrOf, tables, stopping, undefined, history>>
    BY <2>2
  <2> QED
    BY <1>3, <2>1, <2>2 DEF event_cb
<1>4. ASSUME NEW c \in Clients, read_cb(c) PROVE Inv'
  <2>0. Notification(c, "none") /\ Called(c)
    BY <1>4, <1>0 DEF read_cb, Callbacks
  <2>1. TypeOK'
    BY <1>4, <2>0, NotifiedTypeOK DEF read_cb
  <2>2. Places' /\ StopsNothing'
    BY <1>4, <2>0 DEF read_cb, Notification
  <2> QED
    BY <2>1, <2>2
<1>5. ASSUME NEW c \in Clients, OnClose(c) PROVE Inv'
  <2>0. Notification(c, "OnDisconnect") /\ Called(c)
    BY <1>5, <1>0 DEF OnClose, Callbacks
  <2>1. TypeOK'
    BY <1>5, <2>0, NotifiedTypeOK DEF OnClose
  <2>2. Places' /\ StopsNothing'
    BY <1>5, <2>0 DEF OnClose, Notification
  <2> QED
    BY <2>1, <2>2
<1>6. ASSUME NEW c \in Clients, SetHostAddress(c) PROVE Inv'
  BY <1>6 DEF SetHostAddress, Step
<1>7. ASSUME NEW c \in Clients, insert(c) PROVE Inv'
  BY <1>7 DEF insert, Step
<1>8. ASSUME NEW c \in Clients, OnConnect(c) PROVE Inv'
  BY <1>8 DEF OnConnect, Step, UsesService
<1>9. ASSUME NEW c \in Clients, insertLink(c) PROVE Inv'
  BY <1>9 DEF insertLink, Step
<1>10. ASSUME NEW c \in Clients, OnDisconnect(c) PROVE Inv'
  BY <1>10 DEF OnDisconnect, Step, UsesService
<1>11. ASSUME NEW c \in Clients, RemoveHostAddress(c) PROVE Inv'
  BY <1>11 DEF RemoveHostAddress, Step
<1>12. ASSUME NEW c \in Clients, eraseLink(c) PROVE Inv'
  BY <1>12 DEF eraseLink, Step, DeleteLink
<1>13. ASSUME NEW a \in Addrs, StopTcpServer(a) PROVE Inv'
  BY <1>13 DEF StopTcpServer
<1>14. CASE RemoveTcpService
  BY <1>14 DEF RemoveTcpService, DeleteLink
<1>15. CASE UNCHANGED vars
  BY <1>15 DEF vars
<1> HIDE DEF Inv
<1> QED
  BY <1>1, <1>2, <1>3, <1>4, <1>5, <1>6, <1>7, <1>8, <1>9, <1>10, <1>11, <1>12, <1>13, <1>14, <1>15
     DEF Next, Thread
-----------------------------------------------------------------------------
(* AloneSafe.  While connections come one after the other, the only one    *)
(* there is owns the callbacks, and the table has no other's service.      *)
Alone ==
  ~overlapped /\ ~stopped =>
    /\ ~undefined
    /\ \A p \in called : p[1] = p[2]
    /\ \A c, d \in Clients : Live(c) /\ Live(d) => c = d
    /\ \A c \in Clients : Live(c) => owner = c /\ c \notin deleted
    /\ \A c \in Clients : thread[c] = "none" => c \notin deleted
    /\ \A c \in Clients : at[c] # "none" => by[c] = c
    /\ \A a \in Addrs : m_mapTcpLink[a] # None =>
         thread[m_mapTcpLink[a]] \in {"open", "freed", "closing"} /\ addrOf[m_mapTcpLink[a]] = a

LEMMA AloneNotified ==
  ASSUME TypeOK, Alone, NEW c \in Clients, Live(c), NEW step, Notification(c, step), Called(c),
         NEW place \in {"open", "closing"}, thread' = [thread EXCEPT ![c] = place]
  PROVE  Alone'
<1> SUFFICES ASSUME overlapped = FALSE, stopped = FALSE PROVE Alone'
  BY DEF TypeOK, Alone, Notification
<1>1. owner = c /\ c \notin deleted
  BY DEF Alone
<1>2. \A p \in called' : p[1] = p[2]
  BY <1>1 DEF Alone, Called
<1>3. \A d \in Clients : Live(d)' <=> Live(d)
  BY DEF TypeOK, Live
<1>4. \A d \in Clients : thread'[d] = "none" => thread[d] = "none"
  BY DEF TypeOK
<1>5. \A d \in Clients : at'[d] # "none" => by'[d] = d
  BY <1>1 DEF Alone, Notification
<1>6. \A a \in Addrs : m_mapTcpLink'[a] # None =>
        thread'[m_mapTcpLink[a]] \in {"open", "freed", "closing"} /\ addrOf'[m_mapTcpLink[a]] = a
  BY DEF TypeOK, Alone, Notification
<1>7. undefined' = FALSE
  BY <1>1 DEF Notification
<1> QED
  BY <1>1, <1>2, <1>3, <1>4, <1>5, <1>6, <1>7 DEF Alone, Notification

LEMMA AloneNext == Inv /\ Alone /\ [Next]_vars => Alone'
<1> SUFFICES ASSUME Inv, Alone, [Next]_vars PROVE Alone'
  OBVIOUS
<1>0. ASSUME NEW c \in Clients, Live(c), NEW step \in Callbacks, Notify(c, step),
             NEW place \in {"open", "closing"}, thread' = [thread EXCEPT ![c] = place]
      PROVE  Alone'
  <2>1. TypeOK /\ thread[c] # "none"
    BY <1>0 DEF Inv, Live
  <2> QED
    BY <1>0, <2>1, Notified, AloneNotified
<1> USE NoneAssumption DEF Inv, TypeOK, Places, StopsNothing, Opening, Closing, Live, Alone, tables, history
<1>1. ASSUME NEW c \in Clients, NEW a \in Addrs, ConnectServer(c, a) PROVE Alone'
  <2> SUFFICES ASSUME overlapped' = FALSE, stopped = FALSE PROVE Alone'
    BY <1>1 DEF ConnectServer, CreateConnectToDevice, CreateTcpClient
  <2>1. overlapped = FALSE /\ (\A d \in Clients : ~Live(d))
    BY <1>1 DEF ConnectServer, CreateConnectToDevice
  <2>2. /\ undefined = FALSE /\ undefined' = undefined /\ called' = called /\ stopped' = stopped /\ owner' = c
        /\ deleted' = deleted /\ at' = at /\ by' = by /\ m_mapTcpLink' = m_mapTcpLink /\ thread[c] = "none"
        /\ thread' = [thread EXCEPT ![c] = "started"] /\ addrOf' = [addrOf EXCEPT ![c] = a]
    BY <1>1 DEF ConnectServer, CreateConnectToDevice, CreateTcpClient
  <2>3. \A x \in Addrs : m_mapTcpLink[x] = None
    BY <2>1
  <2>4. \A d \in Clients : Live(d)' <=> d = c
    BY <2>1, <2>2
  <2> QED
    BY <2>1, <2>2, <2>3, <2>4
<1>2. ASSUME NEW c \in Clients, startClientThread(c) PROVE Alone'
  BY <1>2 DEF startClientThread
<1>3. ASSUME NEW c \in Clients, event_cb(c) PROVE Alone'
  <2>1. ASSUME Notify(c, "SetHostAddress"), thread[c] = "dialing", thread' = [thread EXCEPT ![c] = "open"]
        PROVE  Alone'
    BY <2>1, <1>0 DEF Callbacks
  <2>2. CASE /\ ~undefined /\ thread[c] \in {"dialing", "open"} /\ at[c] = "none"
             /\ thread' = [thread EXCEPT ![c] = IF @ = "open" THEN "freed" ELSE "failed"]
             /\ UNCHANGED <<owner, deleted, at, by, addrOf, tables, stopping, undefined, history>>
    BY <2>2
  <2> QED
    BY <1>3, <2>1, <2>2 DEF event_cb
<1>4. ASSUME NEW c \in Clients, read_cb(c) PROVE Alone'
  <2>1. Live(c) /\ Notify(c, "none") /\ thread' = [thread EXCEPT ![c] = "open"]
    BY <1>4 DEF read_cb
  <2> QED
    BY <2>1, <1>0 DEF Callbacks
<1>5. ASSUME NEW c \in Clients, OnClose(c) PROVE Alone'
  BY <1>5, <1>0 DEF OnClose, Callbacks
<1>6. ASSUME NEW c \in Clients, SetHostAddress(c) PROVE Alone'
  BY <1>6 DEF SetHostAddress, Step
<1>7. ASSUME NEW c \in Clients, insert(c) PROVE Alone'
  BY <1>7 DEF insert, Step
<1>8. ASSUME NEW c \in Clients, OnConnect(c) PROVE Alone'
  BY <1>8 DEF OnConnect, Step, UsesService
<1>9. ASSUME NEW c \in Clients, insertLink(c) PROVE Alone'
  BY <1>9 DEF insertLink, Step
<1>10. ASSUME NEW c \in Clients, OnDisconnect(c) PROVE Alone'
  BY <1>10 DEF OnDisconnect, Step, UsesService
<1>11. ASSUME NEW c \in Clients, RemoveHostAddress(c) PROVE Alone'
  BY <1>11 DEF RemoveHostAddress, Step
<1>12. ASSUME NEW c \in Clients, eraseLink(c) PROVE Alone'
  BY <1>12 DEF eraseLink, Step, DeleteLink
<1>13. ASSUME NEW a \in Addrs, StopTcpServer(a) PROVE Alone'
  BY <1>13 DEF StopTcpServer
<1>14. CASE RemoveTcpService
  BY <1>14 DEF RemoveTcpService, DeleteLink
<1>15. CASE UNCHANGED vars
  BY <1>15 DEF vars
<1> HIDE DEF Alone, Inv
<1> QED
  BY <1>1, <1>2, <1>3, <1>4, <1>5, <1>6, <1>7, <1>8, <1>9, <1>10, <1>11, <1>12, <1>13, <1>14, <1>15
     DEF Next, Thread
-----------------------------------------------------------------------------
(* TablesFollowLinks.  A server that never had two connections at once has *)
(* at most one now, whose thread says what the tables have for the server; *)
(* without one they have nothing.                                          *)
Made(c) == thread[c] \in {"open", "freed"}
Entered(c, a) ==
  /\ thread[c] # "closing" =>
       /\ m_mapHostAddress[a] = IF Made(c) /\ at[c] \notin {"SetHostAddress", "insert"} THEN c ELSE None
       /\ a \in m_mapDevice <=> Made(c) /\ at[c] \notin {"SetHostAddress", "insert", "OnConnect"}
       /\ m_mapTcpLink[a] # None <=> Made(c) /\ at[c] \notin Opening
  /\ thread[c] = "closing" =>
       /\ a \in m_mapDevice => at[c] = "OnDisconnect"
       /\ m_mapHostAddress[a] # None => at[c] \in {"OnDisconnect", "RemoveHostAddress"}
Nothing(a) == m_mapHostAddress[a] = None /\ m_mapTcpLink[a] = None /\ a \notin m_mapDevice
Follows ==
  ~stopped /\ ~undefined =>
    \A a \in Addrs \ collided :
      /\ \A c, d \in Clients : Live(c) /\ Live(d) /\ addrOf[c] = a /\ addrOf[d] = a => c = d
      /\ \A c \in Clients : Live(c) /\ addrOf[c] = a => Entered(c, a)
      /\ (\A c \in Clients : Live(c) => addrOf[c] # a) => Nothing(a)

(* The callback of a thread that is at from goes to the next place.        *)
Moves(from, place, step) ==
  \/ from = "dialing" /\ place = "open" /\ step = "SetHostAddress"
  \/ from = "open" /\ place = "open" /\ step = "none"
  \/ from \in {"freed", "failed"} /\ place = "closing" /\ step = "OnDisconnect"

LEMMA FollowsNotified ==
  ASSUME Inv, Follows, NEW c \in Clients, Live(c), NEW step, Notification(c, step),
         NEW place, thread' = [thread EXCEPT ![c] = place], Moves(thread[c], place, step)
  PROVE  Follows'
<1> USE DEF Moves
<1> SUFFICES ASSUME stopped = FALSE, undefined' = FALSE, NEW a \in Addrs \ collided
             PROVE  /\ (\A e, d \in Clients : Live(e) /\ Live(d) /\ addrOf[e] = a /\ addrOf[d] = a => e = d)'
                    /\ \A e \in Clients : Live(e)' /\ addrOf'[e] = a => Entered(e, a)'
                    /\ (\A e \in Clients : Live(e) => addrOf[e] # a)' => Nothing(a)'
  BY DEF Follows, Notification, Inv, TypeOK
<1>1. undefined = FALSE /\ owner \notin deleted /\ addrOf' = addrOf
  BY DEF Notification
<1>2. \A d \in Clients : Live(d)' <=> Live(d)
  BY DEF Inv, TypeOK, Live
<1>3. ASSUME NEW e \in Clients, Live(e)', addrOf'[e] = a PROVE Entered(e, a)'
  <2>1. Entered(e, a)
    BY <1>1, <1>2, <1>3 DEF Follows
  <2>2. CASE e # c
    BY <2>1, <2>2, <1>1 DEF Entered, Made, Notification, Inv, TypeOK
  <2>3. CASE e = c
    BY <2>1, <2>3, <1>1 DEF Entered, Made, Notification, Inv, TypeOK, Opening
  <2> QED
    BY <2>2, <2>3
<1>4. ASSUME \A e \in Clients : Live(e) => addrOf[e] # a PROVE Nothing(a)'
  BY <1>1, <1>4 DEF Follows, Nothing, Notification
<1> QED
  BY <1>1, <1>2, <1>3, <1>4 DEF Follows

LEMMA FollowsNext == Inv /\ Follows /\ [Next]_vars => Follows'
<1> SUFFICES ASSUME Inv, Follows, [Next]_vars PROVE Follows'
  OBVIOUS
<1>0. ASSUME NEW c \in Clients, Live(c), NEW step \in Callbacks, Notify(c, step),
             NEW place, thread' = [thread EXCEPT ![c] = place], Moves(thread[c], place, step)
      PROVE  Follows'
  <2>1. thread[c] # "none"
    BY <1>0 DEF Live
  <2> QED
    BY <1>0, <2>1, Notified, FollowsNotified
<1>3. ASSUME NEW c \in Clients, event_cb(c) PROVE Follows'
  <2>1. ASSUME Notify(c, "SetHostAddress"), thread[c] = "dialing", thread' = [thread EXCEPT ![c] = "open"]
        PROVE  Follows'
    BY <2>1, <1>0 DEF Live, Moves, Callbacks
  <2>2. CASE /\ ~undefined /\ thread[c] \in {"dialing", "open"} /\ at[c] = "none"
             /\ thread' = [thread EXCEPT ![c] = IF @ = "open" THEN "freed" ELSE "failed"]
             /\ UNCHANGED <<owner, deleted, at, by, addrOf, tables, stopping, undefined, history>>
    BY <2>2 DEF Inv, TypeOK, Live, Follows, Entered, Nothing, Made, Opening, tables, history
  <2> QED
    BY <1>3, <2>1, <2>2 DEF event_cb
<1>4. ASSUME NEW c \in Clients, read_cb(c) PROVE Follows'
  <2>1. Live(c) /\ Notify(c, "none") /\ thread[c] = "open" /\ thread' = [thread EXCEPT ![c] = "open"]
    BY <1>4 DEF read_cb, Live, Inv, TypeOK
  <2> QED
    BY <2>1, <1>0 DEF Moves, Callbacks
<1>5. ASSUME NEW c \in Clients, OnClose(c) PROVE Follows'
  BY <1>5, <1>0 DEF OnClose, Live, Moves, Callbacks
<1> USE NoneAssumption DEF Inv, TypeOK, Places, StopsNothing, Opening, Closing, Live, tables, history,
        Follows, Entered, Made, Nothing
<1>1. ASSUME NEW c \in Clients, NEW a \in Addrs, ConnectServer(c, a) PROVE Follows'
  BY <1>1 DEF ConnectServer, CreateConnectToDevice, CreateTcpClient
<1>2. ASSUME NEW c \in Clients, startClientThread(c) PROVE Follows'
  BY <1>2 DEF startClientThread
<1>6. ASSUME NEW c \in Clients, SetHostAddress(c) PROVE Follows'
  BY <1>6 DEF SetHostAddress, Step
<1>7. ASSUME NEW c \in Clients, insert(c) PROVE Follows'
  BY <1>7 DEF insert, Step
<1>8. ASSUME NEW c \in Clients, OnConnect(c) PROVE Follows'
  BY <1>8 DEF OnConnect, Step, UsesService
<1>9. ASSUME NEW c \in Clients, insertLink(c) PROVE Follows'
  BY <1>9 DEF insertLink, Step
<1>10. ASSUME NEW c \in Clients, OnDisconnect(c) PROVE Follows'
  BY <1>10 DEF OnDisconnect, Step, UsesService
<1>11. ASSUME NEW c \in Clients, RemoveHostAddress(c) PROVE Follows'
  BY <1>11 DEF RemoveHostAddress, Step
<1>12. ASSUME NEW c \in Clients, eraseLink(c) PROVE Follows'
  BY <1>12 DEF eraseLink, Step, DeleteLink
<1>13. ASSUME NEW a \in Addrs, StopTcpServer(a) PROVE Follows'
  BY <1>13 DEF StopTcpServer
<1>14. CASE RemoveTcpService
  BY <1>14 DEF RemoveTcpService, DeleteLink
<1>15. CASE UNCHANGED vars
  BY <1>15 DEF vars
<1> HIDE DEF Follows, Inv
<1> QED
  BY <1>1, <1>2, <1>3, <1>4, <1>5, <1>6, <1>7, <1>8, <1>9, <1>10, <1>11, <1>12, <1>13, <1>14, <1>15
     DEF Next, Thread
-----------------------------------------------------------------------------
(* Every variable of ClientLinks keeps its type.                           *)
THEOREM TypeCorrect == Spec => []TypeOK
<1>1. Inv => TypeOK
  BY DEF Inv
<1> QED
  BY <1>1, InvInit, InvNext, PTL DEF Spec

(* While one connection is made at a time and none is stopped, its         *)
(* callbacks go to its own service, which is there.                        *)
THEOREM OwnCallbacks == Spec => []AloneSafe
<1>1. Init => Alone
  BY DEF Init, Alone, Live
<1>2. Alone => AloneSafe
  BY DEF Alone, AloneSafe
<1> QED
  BY <1>1, <1>2, InvInit, InvNext, AloneNext, PTL DEF Spec

(* The tables of addresses have a server that never had two connections at *)
(* once exactly while its connection is made, whatever the others do to    *)
(* the owner that all share.                                               *)
THEOREM TablesAreRight == Spec => []TablesFollowLinks
<1>1. Init => Follows
  BY DEF Init, Follows, Nothing, Live
<1>2. Inv /\ Follows => TablesFollowLinks
  <2> SUFFICES ASSUME Inv, Follows, ~stopped, ~undefined, NEW a \in Addrs \ collided,
                      \A c \in {c \in Clients : addrOf[c] = a} : at[c] = "none"
               PROVE  LET made == {c \in {c \in Clients : addrOf[c] = a} : thread[c] \in {"open", "freed"}}
                      IN  /\ \A c \in made :
                               m_mapHostAddress[a] = c /\ m_mapTcpLink[a] # None /\ a \in m_mapDevice
                          /\ made = {} => Nothing(a)
    BY DEF TablesFollowLinks, Nothing
  <2>1. ASSUME NEW c \in Clients, addrOf[c] = a, Live(c)
        PROVE  IF Made(c)
               THEN m_mapHostAddress[a] = c /\ m_mapTcpLink[a] # None /\ a \in m_mapDevice
               ELSE Nothing(a)
    <3>1. Entered(c, a) /\ at[c] = "none" /\ thread[c] # "closing"
      BY <2>1 DEF Follows, Inv, Places, Closing
    <3> QED
      BY <3>1 DEF Entered, Nothing, Opening
  <2>2. (\A c \in Clients : Live(c) => addrOf[c] # a) => Nothing(a)
    BY DEF Follows
  <2> QED
    BY <2>1, <2>2 DEF Live, Made
<1> QED
  BY <1>1, <1>2, InvInit, InvNext, FollowsNext, PTL DEF Spec
=============================================================================
