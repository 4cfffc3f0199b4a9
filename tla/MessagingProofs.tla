-------------------------- MODULE MessagingProofs --------------------------
(***************************************************************************)
(* Theorems about Messaging, for any number of links, users, devices and   *)
(* telephones: who is written to, how often, whose telephone is pushed to, *)
(* and what the sender is told.                                            *)
(***************************************************************************)
EXTENDS Messaging, TLAPS, FiniteSetTheorems

LEMMA PayloadRecipients ==
  ASSUME tokens \subseteq Tokens
  PROVE  Recipients(Payload, Tokens) = tokens
<1>1. Payload.audience = [x \in {"registration_id"} |-> tokens]
  BY DEF Payload, push_SpecifiedIDs, Options, Notification, Audience, Platform, AudienceNames
<1>2. DOMAIN Payload.audience = {"registration_id"} /\ Payload.audience["registration_id"] = tokens
  BY <1>1
<1> QED
  BY <1>2 DEF Recipients

LEMMA BoundFact ==
  \A u : <<"bound", u>> \in Facts <=>
     u \in Users /\ kind \in OfBound /\ <<Subject, u>> \in DOMAIN rows /\ rows[<<Subject, u>>] > 0
  BY DEF Facts
LEMMA AtFact ==
  \A a, k : <<"at", a, k>> \in Facts <=>
     a \in Concerned /\ k \in m_mapDevice /\ a \in {mUser[k], mDevice[k]}
  BY DEF Facts
LEMMA AtFactNext ==
  \A a, k : <<"at", a, k>> \in Facts' => a \in Concerned' /\ k \in m_mapDevice' /\ a \in {mUser[k], mDevice[k]}'
  BY DEF Facts
LEMMA PhoneFact ==
  \A u, t : <<"phone", u, t>> \in Facts <=>
     u \in Users /\ t \in Tokens /\ kind = "push" /\ tokenOf[t] = u
  BY DEF Facts
-----------------------------------------------------------------------------
(* No account is recorded at two links.                                    *)
Unique ==
  \A k, l \in Links :
    k # l => /\ mUser[k] # NoUuid => mUser[k] # mUser[l]
             /\ mDevice[k] # NoUuid => mDevice[k] # mDevice[l]

(* What the kind of the packet says about the place of its handler, and    *)
(* what has not been done there yet.                                       *)
ToList == {"all", "login", "logout"}
ToOne == {"one", "private"}
Places ==
  /\ pc = "idle" => heard = {} /\ failed = {} /\ writes = 0 /\ list = Nobody
  /\ pc # "done" => told = {} /\ saved = FALSE /\ pushed = {}
  /\ pc # "idle" =>
       /\ from \in Accounts /\ to \in Accounts
       /\ kind \in {"login", "logout"} => from \in Devices
       /\ kind = "private" => to \in Devices
       /\ kind = "none" => pc \in {"refusing", "done"} /\ list = Nobody
       /\ kind = "push" => pc \in {"listing", "tokens", "posting", "done"}
       /\ kind \in ToList => pc \in {"listing", "next", "lookup", "send", "done"}
       /\ kind \in ToOne => pc \in {"lookup", "send", "done"} /\ list = Nobody
       /\ kind \in {"none", "push", "login"} \/ pc = "listing" => heard = {} /\ failed = {} /\ writes = 0
  /\ pc = "listing" => list = Nobody
  /\ pc \in {"lookup", "send"} =>
       /\ kind \in ToOne => whom = to /\ heard = {} /\ failed = {}
       /\ kind \in ToList => whom \in Users
  /\ pc = "send" => found \in Links /\ kind # "login"
  /\ pc = "done" => list = Nobody \/ kind = "push"

Inv == TypeOK /\ Unique /\ Places
-----------------------------------------------------------------------------
LEMMA InvInit == Init => Inv
<1> SUFFICES ASSUME Init PROVE Inv
  OBVIOUS
<1> USE DEF Init
<1>1. TypeOK
  <2>1. list \in [Users -> 0..2]
    BY DEF Nobody
  <2>2. m_mapDevice \subseteq Links /\ mUser \in [Links -> Users \cup {NoUuid}]
        /\ mDevice \in [Links -> Devices \cup {NoUuid}]
    OBVIOUS
  <2>3. rows \in [Devices \X Users -> 0..2] /\ tokenOf \in [Tokens -> Users \cup {NoUuid}]
    OBVIOUS
  <2>4. heard \subseteq Accounts \X Links /\ failed \subseteq Accounts \X Links
    OBVIOUS
  <2>5. saved \in BOOLEAN /\ writes \in Nat /\ told \subseteq {0, -1}
    OBVIOUS
  <2> QED
    BY <2>1, <2>2, <2>3, <2>4, <2>5 DEF TypeOK
<1>2. Unique
  BY DEF Unique
<1>3. Places
  BY Zenon DEF Places
<1> QED
  BY <1>1, <1>2, <1>3 DEF Inv

LEMMA AddressFound ==
  ASSUME NEW table, NEW a
  PROVE  \/ AddressOf(table, a) \in Links /\ table[AddressOf(table, a)] = a
         \/ AddressOf(table, a) = NoLink /\ \A k \in Links : table[k] # a
<1> DEFINE ks == {k \in Links : table[k] = a}
<1>1. CASE ks = {}
  BY <1>1 DEF AddressOf
<1>2. CASE ks # {}
  <2>1. PICK k : k \in ks
    BY <1>2
  <2>2. (CHOOSE x \in ks : TRUE) \in ks
    BY <2>1
  <2>3. AddressOf(table, a) = CHOOSE x \in ks : TRUE
    BY <1>2 DEF AddressOf
  <2> QED
    BY <2>2, <2>3
<1> QED
  BY <1>1, <1>2

LEMMA TypeNext == TypeOK /\ Unique /\ Places /\ Next => TypeOK'
<1> SUFFICES ASSUME TypeOK, Unique, Places, Next PROVE TypeOK'
  OBVIOUS
<1> USE DEF TypeOK, tables, request, local, outcome, Elsewhere, Goto
<1>1. ASSUME NEW k \in Links, NEW u \in Users, mapAddUser(k, u) PROVE TypeOK'
  BY <1>1 DEF mapAddUser
<1>2. ASSUME NEW k \in Links, DeleteDeviceClient(k) PROVE TypeOK'
  BY <1>2 DEF DeleteDeviceClient
<1>3. ASSUME NEW k \in Links, OnConnect(k) PROVE TypeOK'
  BY <1>3 DEF OnConnect
<1>4. ASSUME NEW u \in Users, mapDeleteSameUser(u) PROVE TypeOK'
  BY <1>4 DEF mapDeleteSameUser
<1>5. ASSUME NEW d \in Devices, NEW u \in Users, addBind(d, u) PROVE TypeOK'
  BY <1>5 DEF addBind
<1>6. ASSUME NEW d \in Devices, NEW u \in Users, delBind(d, u) PROVE TypeOK'
  BY <1>6 DEF delBind
<1>7. ASSUME NEW t \in Tokens, NEW u \in Users \cup {NoUuid}, saveToken(t, u) PROVE TypeOK'
  BY <1>7 DEF saveToken
<1>8. ASSUME NEW k \in Links, NEW f \in Flags, NEW b \in Accounts, handleToUser(k, f, b) PROVE TypeOK'
  BY <1>8 DEF handleToUser, Begin, KindOf, Nobody, Accounts
<1>9. ASSUME NEW k \in Links, NEW d \in Devices, handleUserPrivate(k, d) PROVE TypeOK'
  BY <1>9 DEF handleUserPrivate, Begin, Nobody, Accounts
<1>10. ASSUME NEW k \in Links, NEW d \in Devices, handleDeviceLogin(k, d) PROVE TypeOK'
  BY <1>10 DEF handleDeviceLogin, mapAddDevice, Begin, Nobody, Accounts
<1>11. ASSUME NEW k \in Links, handleDeviceLogout(k) PROVE TypeOK'
  BY <1>11 DEF handleDeviceLogout, Begin, Nobody, Accounts
<1>12. CASE getBindedUsers
  BY <1>12 DEF getBindedUsers, Buddies
<1>13. CASE next
  <2>1. list' \in [Users -> 0..2]
    BY <1>13 DEF next, Rest
  <2>2. whom' \in Accounts \cup {NoUuid} /\ told' \subseteq {0, -1} /\ pc' \in {"lookup", "done"}
    BY <1>13 DEF next, Accounts
  <2> QED
    BY <1>13, <2>1, <2>2 DEF next
<1>14. CASE getAddress
  <2>1. found' \in Links \cup {NoLink}
    BY <1>14, AddressFound DEF getAddress
  <2> QED
    BY <1>14, <2>1 DEF getAddress
<1>15. CASE SendData
  <2>1. found \in Links /\ whom \in Accounts
    BY <1>15 DEF SendData, Places, ToOne, ToList, Accounts
  <2>2. told' \subseteq {0, -1}
    <3>1. \A sent \in BOOLEAN : Answer(sent) \subseteq {0, -1}
      BY DEF Answer
    <3> QED
      BY <1>15, <3>1 DEF SendData
  <2>3. saved' \in BOOLEAN
    BY <1>15 DEF SendData, save
  <2>4. heard' \subseteq Accounts \X Links /\ failed' \subseteq Accounts \X Links /\ writes' \in Nat
    <3>1. <<whom, found>> \in Accounts \X Links
      BY <2>1
    <3>2. heard' \in {heard, heard \cup {<<whom, found>>}} /\ failed' \in {failed, failed \cup {<<whom, found>>}}
          /\ writes' \in {writes, writes + 1}
      BY <1>15 DEF SendData
    <3> QED
      BY <3>1, <3>2
  <2> HIDE DEF Accounts
  <2> QED
    BY <1>15, <2>2, <2>3, <2>4 DEF SendData
<1>16. CASE getTokens
  BY <1>16 DEF getTokens
<1>17. CASE handlePushMessage
  <2>1. pushed' \subseteq Tokens /\ told' \subseteq {0, -1}
    BY <1>17, PayloadRecipients DEF handlePushMessage
  <2>2. saved' \in BOOLEAN
    BY <1>17 DEF handlePushMessage, save
  <2> QED
    BY <1>17, <2>1, <2>2 DEF handlePushMessage
<1>18. CASE refuse
  BY <1>18 DEF refuse
<1>19. CASE return
  <2>1. list' \in [Users -> 0..2]
    BY <1>19 DEF return, Nobody
  <2> QED
    BY <1>19, <2>1 DEF return
<1> HIDE DEF TypeOK, tables, request, local, outcome, Elsewhere, Goto
<1>20. CASE Others
  BY <1>20, <1>1, <1>2, <1>3, <1>4, <1>5, <1>6, <1>7 DEF Others
<1>21. CASE Packet
  BY <1>21, <1>8, <1>9, <1>10, <1>11 DEF Packet
<1>22. CASE Work
  BY <1>22, <1>12, <1>13, <1>14, <1>15, <1>16, <1>17, <1>18, <1>19 DEF Work
<1> QED
  BY <1>20, <1>21, <1>22 DEF Next

LEMMA UniqueNext == TypeOK /\ Unique /\ Next => Unique'
<1> SUFFICES ASSUME TypeOK, Unique, Next PROVE Unique'
  OBVIOUS
<1>1. ASSUME NEW k \in Links, NEW u \in Users, mapAddUser(k, u) PROVE Unique'
  BY <1>1 DEF mapAddUser, TypeOK, Unique
<1>2. ASSUME NEW u \in Users, mapDeleteSameUser(u) PROVE Unique'
  BY <1>2 DEF mapDeleteSameUser, TypeOK, Unique
<1>3. ASSUME NEW k \in Links, NEW d \in Devices, handleDeviceLogin(k, d) PROVE Unique'
  BY <1>3 DEF handleDeviceLogin, mapAddDevice, TypeOK, Unique
<1>4. ASSUME NEW k \in Links, handleDeviceLogout(k) PROVE Unique'
  BY <1>4 DEF handleDeviceLogout, TypeOK, Unique
<1>5. ASSUME UNCHANGED <<mUser, mDevice>> PROVE Unique'
  BY <1>5 DEF Unique
<1>6. CASE Others
  BY <1>1, <1>2, <1>5, <1>6 DEF Others, DeleteDeviceClient, OnConnect, addBind, delBind, saveToken
<1>7. CASE Packet
  BY <1>3, <1>4, <1>5, <1>7 DEF Packet, handleToUser, handleUserPrivate, tables
<1>8. CASE Work
  BY <1>5, <1>8 DEF Work, tables, getBindedUsers, next, getAddress, SendData, getTokens, handlePushMessage, refuse, return
<1> QED
  BY <1>6, <1>7, <1>8 DEF Next

LEMMA BeginPlaces ==
  ASSUME Places, NEW k, NEW what, NEW f, NEW a \in Accounts, NEW b \in Accounts, NEW where,
         Begin(k, what, f, a, b, where),
         what \in {"login", "logout"} => a \in Devices,
         what = "private" => b \in Devices,
         \/ what \in ToOne /\ where = "lookup"
         \/ what = "none" /\ where = "refusing"
         \/ what \in {"push"} \cup ToList /\ where = "listing"
  PROVE  Places'
<1>1. /\ pc = "idle" /\ pc' = where
      /\ kind' = what /\ from' = a /\ to' = b /\ list' = Nobody /\ whom' = b
      /\ UNCHANGED outcome
  BY DEF Begin, Goto
<1>2. heard' = {} /\ failed' = {} /\ writes' = 0 /\ pushed' = {} /\ saved' = FALSE /\ told' = {}
  BY <1>1 DEF Places, outcome
<1> QED
  BY <1>1, <1>2 DEF Places, ToOne, ToList, Nobody

LEMMA PlacesNext == TypeOK /\ Places /\ Next => Places'
<1> SUFFICES ASSUME TypeOK, Places, Next PROVE Places'
  OBVIOUS
<1> USE DEF request, local, outcome, ToOne, ToList, Goto
<1>1. CASE Others
  <2>1. Elsewhere
    BY <1>1 DEF Others, mapAddUser, mapDeleteSameUser, DeleteDeviceClient, OnConnect, addBind, delBind, saveToken
  <2> QED
    BY <2>1 DEF Elsewhere, Places, Nobody
<1>2. ASSUME NEW k \in Links, NEW f \in Flags, NEW b \in Accounts, handleToUser(k, f, b) PROVE Places'
  <2>1. PICK a \in {mUser[k], mDevice[k]} \ {NoUuid} :
          Begin(k, KindOf(f), f, a, b, CASE KindOf(f) = "one" -> "lookup" [] KindOf(f) = "none" -> "refusing"
                                         [] OTHER -> "listing")
    BY <1>2 DEF handleToUser
  <2>2. a \in Accounts
    BY DEF TypeOK, Accounts
  <2>3. KindOf(f) \in {"one", "all", "push", "none"}
    BY DEF KindOf
  <2> QED
    BY <2>1, <2>2, <2>3, BeginPlaces
<1>3. ASSUME NEW k \in Links, NEW d \in Devices, handleUserPrivate(k, d) PROVE Places'
  BY <1>3, BeginPlaces DEF handleUserPrivate, Accounts, TypeOK
<1>4. ASSUME NEW k \in Links, NEW d \in Devices, handleDeviceLogin(k, d) PROVE Places'
  BY <1>4, BeginPlaces DEF handleDeviceLogin, Accounts
<1>5. ASSUME NEW k \in Links, handleDeviceLogout(k) PROVE Places'
  BY <1>5, BeginPlaces DEF handleDeviceLogout, Accounts, TypeOK
<1>6. CASE getBindedUsers
  BY <1>6 DEF getBindedUsers, Places
<1>7. CASE next
  BY <1>7 DEF next, Places, Nobody
<1>8. CASE getAddress
  <2>1. found' \in Links \cup {NoLink}
    BY <1>8, AddressFound DEF getAddress
  <2>2. kind = "login" => found' = NoLink
    <3>1. ASSUME kind = "login" PROVE \A x \in Links : mUser[x] # from
      BY <1>8, <3>1, AccountsDisjoint DEF getAddress, Places, TypeOK
    <3> QED
      BY <1>8, <3>1, AddressFound, NoLinkIsNone DEF getAddress
  <2> QED
    BY <1>8, <2>1, <2>2 DEF getAddress, Places, Nobody
<1>9. CASE SendData
  BY <1>9 DEF SendData, Places, Answer, Nobody
<1>10. CASE getTokens
  BY <1>10 DEF getTokens, Places, Nobody
<1>11. CASE handlePushMessage
  <2>1. kind = "push"
    BY <1>11 DEF handlePushMessage, TypeOK, Places
  <2>2. pc' = "done" /\ UNCHANGED <<request, local, heard, writes, failed>>
    BY <1>11 DEF handlePushMessage
  <2> QED
    BY <1>11, <2>1, <2>2 DEF handlePushMessage, Places, Nobody
<1>12. CASE refuse
  <2>1. kind = "none"
    BY <1>12 DEF refuse, TypeOK, Places
  <2> QED
    BY <1>12, <2>1 DEF refuse, Places, Nobody
<1>13. CASE return
  BY <1>13 DEF return, Places, Nobody
<1>14. CASE Packet
  BY <1>14, <1>2, <1>3, <1>4, <1>5 DEF Packet
<1>15. CASE Work
  BY <1>15, <1>6, <1>7, <1>8, <1>9, <1>10, <1>11, <1>12, <1>13 DEF Work
<1> QED
  BY <1>1, <1>14, <1>15 DEF Next
-----------------------------------------------------------------------------
LEMMA InvNext == Inv /\ [Next]_vars => Inv'
<1>1. CASE UNCHANGED vars
  BY <1>1 DEF Inv, TypeOK, Unique, Places, Nobody, vars, tables, request, local, outcome
<1>2. CASE Next
  BY <1>2, TypeNext, UniqueNext, PlacesNext DEF Inv
<1> QED
  BY <1>1, <1>2

(* What a step does to the history of facts.                               *)
LEMMA Observed ==
  ASSUME Next, pc' # "idle"
  PROVE  /\ always' \subseteq Facts' /\ Facts' \subseteq ever'
         /\ pc # "idle" => always' \subseteq always /\ ever \subseteq ever'
  BY DEF Next, Observe

LEMMA FactsUnchanged == UNCHANGED <<tables, request>> => Facts' = Facts
  BY DEF tables, request, Facts, Subject, Concerned

(* What the other links leave alone.                                       *)
LEMMA OthersApart ==
  ASSUME Others
  PROVE  Elsewhere /\ (found \in m_mapDevice' => found \in m_mapDevice)
  BY DEF Others, mapAddUser, mapDeleteSameUser, DeleteDeviceClient, OnConnect, addBind, delBind, saveToken,
         Elsewhere, local

(* Every packet finds a handler that has written nothing.                  *)
LEMMA PacketBegins ==
  ASSUME Packet
  PROVE  /\ pc = "idle" /\ pc' \in {"lookup", "listing", "refusing"} /\ list' = Nobody
         /\ kind' \in ToList => pc' = "listing"
         /\ UNCHANGED outcome
  BY DEF Packet, handleToUser, handleUserPrivate, handleDeviceLogin, handleDeviceLogout, Begin, Goto, KindOf, ToList

(* The steps of a handler leave what it reads alone.                       *)
LEMMA WorkApart ==
  ASSUME Work
  PROVE  UNCHANGED tables /\ (pc' # "idle" => UNCHANGED request /\ Facts' = Facts /\ ~return)
  BY FactsUnchanged DEF Work, getBindedUsers, next, getAddress, SendData, getTokens, handlePushMessage, refuse,
         return, Goto
-----------------------------------------------------------------------------
(* OnlyAddressees holds, because what a handler is about to do rests on    *)
(* facts it has seen.                                                      *)
Written ==
  /\ OnlyAddressees
  /\ \A u \in Users : list[u] > 0 => <<"bound", u>> \in ever
  /\ pc \in {"lookup", "send"} /\ kind \in ToList => <<"bound", whom>> \in ever
  /\ pc = "send" /\ found \in m_mapDevice => <<"at", whom, found>> \in ever

LEMMA WrittenNext == ASSUME Inv, Written, Next, Inv' PROVE Written'
<1> USE DEF request, local, outcome, Goto
<1>1. CASE pc' = "idle"
  BY <1>1 DEF Inv, Places, Nobody, Written, OnlyAddressees
<1>2. CASE pc' # "idle" /\ Others
  BY <1>2, OthersApart, Observed DEF Elsewhere, Inv, Places, Nobody, Written, OnlyAddressees
<1>3. CASE pc' # "idle" /\ Packet
  BY <1>3, PacketBegins DEF Inv, Places, Nobody, Written, OnlyAddressees
<1>4. CASE pc' # "idle" /\ Work
  <2>0. /\ UNCHANGED <<tables, request>> /\ Facts' = Facts /\ Facts \subseteq ever' /\ pc # "idle"
        /\ ever \subseteq ever'
    BY <1>4, WorkApart, Observed
       DEF Work, getBindedUsers, next, getAddress, SendData, getTokens, handlePushMessage, refuse, return
  <2>1. CASE getBindedUsers
    <3>0. kind \in OfBound
      BY <2>1, <2>0 DEF getBindedUsers, Inv, Places, TypeOK, OfBound, ToList, ToOne
    <3>1. \A u \in Users : list'[u] > 0 => <<"bound", u>> \in Facts
      BY <2>1, <3>0, BoundFact DEF getBindedUsers, Buddies
    <3> QED
      BY <2>0, <2>1, <3>1 DEF getBindedUsers, Written, OnlyAddressees
  <2>2. CASE next
    BY <2>0, <2>2 DEF next, Rest, Written, OnlyAddressees, Inv, TypeOK
  <2>3. CASE getAddress
    <3>1. ASSUME found' \in m_mapDevice, pc' = "send" PROVE <<"at", whom, found'>> \in Facts
      BY <2>3, <3>1, AddressFound, AtFact, AccountsDisjoint, WorkApart, NoLinkIsNone
         DEF getAddress, Concerned, Inv, TypeOK, Places, ToOne, ToList, Accounts
    <3> QED
      BY <2>0, <2>3, <3>1 DEF getAddress, Written, OnlyAddressees, tables
  <2>4. CASE SendData
    <3>1. \A x \in heard' : x \in heard \/ (x = <<whom, found>> /\ found \in m_mapDevice)
      BY <2>4 DEF SendData
    <3>2. kind \notin {"all", "logout"} => whom = to
      BY <2>4 DEF SendData, Inv, TypeOK, Places, ToOne, ToList
    <3>3. pc = "send" /\ pc' \in {"done", "next"} /\ UNCHANGED <<request, list>>
      BY <2>4 DEF SendData
    <3>4. OnlyAddressees'
      <4>1. ASSUME NEW x \in heard
            PROVE  /\ <<"at", x[1], x[2]>> \in ever'
                   /\ IF kind \in {"all", "logout"} THEN <<"bound", x[1]>> \in ever' ELSE x[1] = to
        BY <2>0 DEF Written, OnlyAddressees
      <4>2. found \in m_mapDevice =>
                   /\ <<"at", whom, found>> \in ever'
                   /\ IF kind \in {"all", "logout"} THEN <<"bound", whom>> \in ever' ELSE whom = to
        BY <2>0, <3>2, <3>3 DEF Written, ToList
      <4>3. ASSUME NEW x \in heard'
            PROVE  /\ <<"at", x[1], x[2]>> \in ever'
                   /\ IF kind \in {"all", "logout"} THEN <<"bound", x[1]>> \in ever' ELSE x[1] = to
        BY <3>1, <4>1, <4>2
      <4> QED
        BY <3>3, <4>3 DEF OnlyAddressees
    <3> QED
      BY <2>0, <3>3, <3>4 DEF Written
  <2>5. CASE getTokens \/ handlePushMessage \/ refuse
    BY <2>0, <2>5 DEF getTokens, handlePushMessage, refuse, Written, OnlyAddressees
  <2> QED
    BY <1>4, <2>1, <2>2, <2>3, <2>4, <2>5, WorkApart DEF Work
<1> QED
  BY <1>1, <1>2, <1>3, <1>4 DEF Next

(* ServedOnce.  Who is still to be served was not written to, ...          *)
Counted ==
  /\ IsFiniteSet({p[1] : p \in heard}) /\ writes = Cardinality({p[1] : p \in heard})
  /\ \A u \in Users : list[u] \in {0, 1} /\ (list[u] = 1 => \A p \in heard : p[1] # u)
  /\ pc \in {"lookup", "send"} =>
       /\ \A p \in heard : p[1] # whom
       /\ whom \in Users => list[whom] = 0

LEMMA OneMore ==
  ASSUME NEW S, IsFiniteSet({p[1] : p \in S}), NEW a, NEW k, \A p \in S : p[1] # a
  PROVE  /\ IsFiniteSet({p[1] : p \in S \cup {<<a, k>>}})
         /\ Cardinality({p[1] : p \in S \cup {<<a, k>>}}) = Cardinality({p[1] : p \in S}) + 1
<1> DEFINE names == {p[1] : p \in S}
           more == {p[1] : p \in S \cup {<<a, k>>}}
<1>1. more = names \cup {a}
  <2>1. ASSUME NEW n \in more PROVE n \in names \cup {a}
    OBVIOUS
  <2>2. ASSUME NEW n \in names PROVE n \in more
    OBVIOUS
  <2>3. a \in more
    <3>1. <<a, k>>[1] = a
      OBVIOUS
    <3> QED
      BY <3>1, Zenon
  <2> QED
    BY <2>1, <2>2, <2>3
<1>2. a \notin names
  OBVIOUS
<1> QED
  BY <1>1, <1>2, FS_AddElement

LEMMA CountedNext == ASSUME Inv, Counted, Next, Inv' PROVE Counted'
<1> USE DEF request, local, outcome, Goto
<1>0. Cardinality({p[1] : p \in {}}) = 0 /\ IsFiniteSet({p[1] : p \in {}})
  <2>1. {p[1] : p \in {}} = {}
    OBVIOUS
  <2> QED
    BY <2>1, FS_EmptySet
<1>1. CASE pc' = "idle"
  BY <1>0, <1>1 DEF Inv, Places, Nobody, Counted
<1>2. CASE Others
  BY <1>2, OthersApart DEF Elsewhere, Counted
<1>3. CASE Packet
  <2>1. heard' = {} /\ writes' = 0 /\ list' = Nobody
    BY <1>3, PacketBegins DEF Inv, Places
  <2> QED
    BY <1>0, <2>1 DEF Counted, Nobody
<1>4. CASE getBindedUsers
  <2>1. heard = {}
    BY <1>4 DEF getBindedUsers, Inv, Places
  <2> QED
    BY <1>4, <2>1 DEF getBindedUsers, Buddies, Counted
<1>5. CASE next
  BY <1>5 DEF next, Rest, Counted, Inv, TypeOK
<1>6. CASE getAddress
  BY <1>6 DEF getAddress, Counted
<1>7. CASE SendData
  <2>1. CASE heard' = heard \cup {<<whom, found>>} /\ writes' = writes + 1
    <3>1. IsFiniteSet({p[1] : p \in heard'}) /\ writes' = Cardinality({p[1] : p \in heard'})
      BY <1>7, <2>1, OneMore DEF SendData, Counted
    <3> QED
      BY <1>7, <2>1, <3>1 DEF SendData, Counted
  <2>2. CASE UNCHANGED <<heard, writes>>
    BY <1>7, <2>2 DEF SendData, Counted
  <2> QED
    BY <1>7, <2>1, <2>2 DEF SendData
<1>8. CASE getTokens \/ handlePushMessage \/ refuse
  BY <1>8 DEF getTokens, handlePushMessage, refuse, Counted
<1> QED
  BY <1>1, <1>2, <1>3, <1>4, <1>5, <1>6, <1>7, <1>8 DEF Next, Work, return

(* ... and whoever the facts speak of all the time is served or will be.   *)
Waits(a) ==
  \/ pc = "listing"
  \/ a \in Users /\ list[a] > 0
  \/ pc \in {"lookup", "send"} /\ whom = a
Served ==
  /\ pc # "idle" => always \subseteq Facts
  /\ pc # "idle" => \A a \in Accounts, k \in Links :
       <<"at", a, k>> \in always /\ (kind \in {"all", "logout"} => <<"bound", a>> \in always)
         => <<a, k>> \in heard \cup failed \/ Waits(a)
  /\ pc = "send" => \A k \in Links : <<"at", whom, k>> \in always => k = found

LEMMA ServedNext == ASSUME Inv, Served, Next, Inv' PROVE Served'
<1> USE DEF request, local, outcome, Goto
<1>0. pc' # "idle" => always' \subseteq Facts'
  BY Observed
<1>1. CASE pc' = "idle"
  BY <1>1 DEF Served
<1>2. CASE pc' # "idle" /\ Others
  <2>1. UNCHANGED <<pc, kind, heard, failed, list, whom, found>> /\ pc # "idle" /\ always' \subseteq always
    BY <1>2, OthersApart, Observed DEF Elsewhere
  <2>2. \A a : Waits(a)' <=> Waits(a)
    BY <2>1 DEF Waits
  <2>3. ASSUME NEW a \in Accounts, NEW k \in Links, <<"at", a, k>> \in always',
               kind' \in {"all", "logout"} => <<"bound", a>> \in always'
        PROVE  <<a, k>> \in heard' \cup failed' \/ Waits(a)'
    BY <2>1, <2>2, <2>3 DEF Served
  <2> QED
    BY <1>0, <2>1, <2>3 DEF Served
<1>3. CASE pc' # "idle" /\ Packet
  <2>1. ASSUME NEW a \in Accounts, NEW k \in Links, <<"at", a, k>> \in always' PROVE Waits(a)'
    <3>1. a \in Concerned'
      BY <1>3, <2>1, Observed, AtFactNext
    <3>2. kind' # "none" /\ (pc' = "lookup" => a = to' /\ whom' = to')
      BY <1>3, <3>1, PacketBegins DEF Concerned, Inv, TypeOK, Places, ToOne, ToList
    <3> QED
      BY <1>3, <3>2, PacketBegins DEF Waits, Inv, TypeOK, Places, ToOne, ToList
  <2> QED
    BY <1>0, <1>3, <2>1, PacketBegins DEF Served
<1>4. CASE pc' # "idle" /\ Work
  <2>0. UNCHANGED <<tables, request>> /\ Facts' = Facts /\ always' \subseteq Facts /\ always' \subseteq always /\ pc # "idle"
    BY <1>4, WorkApart, Observed
       DEF Work, getBindedUsers, next, getAddress, SendData, getTokens, handlePushMessage, refuse, return
  <2> SUFFICES /\ \A a \in Accounts, k \in Links :
                    <<"at", a, k>> \in always' /\ (kind \in {"all", "logout"} => <<"bound", a>> \in always')
                      => <<a, k>> \in heard' \cup failed' \/ Waits(a)'
               /\ pc' = "send" => \A k \in Links : <<"at", whom', k>> \in always' => k = found'
    BY <1>0, <2>0 DEF Served
  <2>a. ASSUME NEW a \in Accounts, NEW k \in Links,
               <<"at", a, k>> \in always', kind \in {"all", "logout"} => <<"bound", a>> \in always'
        PROVE  (<<a, k>> \in heard \cup failed \/ Waits(a)) /\ a \in Concerned /\ k \in m_mapDevice
               /\ a \in {mUser[k], mDevice[k]}
    BY <2>0, <2>a, AtFact DEF Served
  <2>1. CASE getBindedUsers
    <3>1. kind \in {"all", "push", "login", "logout"}
      BY <2>1 DEF getBindedUsers, Inv, TypeOK, Places, ToOne
    <3>2. ASSUME NEW a \in Concerned, <<"bound", a>> \in Facts PROVE a \in Users /\ Buddies(Subject)[a] > 0
      BY <3>2, BoundFact DEF Buddies
    <3>3. Concerned # {} => kind \in {"all", "logout"}
      BY <3>1 DEF Concerned
    <3> QED
      BY <2>0, <2>1, <2>a, <3>2, <3>3 DEF getBindedUsers, Waits
  <2>2. CASE next
    <3>1. ASSUME NEW a, Waits(a) PROVE Waits(a)'
      BY <2>2, <3>1 DEF next, Waits, Rest, Nobody, Inv, TypeOK
    <3> QED
      BY <2>2, <2>a, <3>1 DEF next
  <2>3. CASE getAddress
    <3>1. ASSUME NEW k \in Links, <<"at", whom, k>> \in Facts PROVE found' = k
      <4>1. whom \in Concerned /\ whom \in {mUser[k], mDevice[k]}
        BY <3>1, AtFact
      <4>2. CASE kind = "private"
        <5>1. whom \in Devices /\ whom = to /\ mDevice[k] = to
          BY <2>3, <4>1, <4>2, AccountsDisjoint DEF getAddress, Inv, TypeOK, Places, ToOne
        <5> QED
          BY <2>3, <4>2, <5>1, AddressFound, AccountsDisjoint DEF getAddress, Inv, Unique, TypeOK
      <4>3. CASE kind # "private"
        <5>1. whom \in Users /\ mUser[k] = whom /\ kind # "login"
          BY <2>3, <4>1, <4>3, AccountsDisjoint DEF getAddress, Inv, TypeOK, Places, ToOne, ToList, Concerned
        <5> QED
          BY <2>3, <4>3, <5>1, AddressFound, AccountsDisjoint DEF getAddress, Inv, Unique, TypeOK
      <4> QED
        BY <4>2, <4>3
    <3>2. pc' # "send" => found' = NoLink
      BY <2>3 DEF getAddress
    <3>3. ASSUME NEW a \in Accounts, NEW k \in Links, <<"at", a, k>> \in always', Waits(a) PROVE Waits(a)'
      <4>1. pc' # "send" => a # whom
        BY <2>0, <3>1, <3>2, <3>3, NoLinkIsNone
      <4> QED
        BY <2>3, <3>3, <4>1 DEF getAddress, Waits
    <3> QED
      BY <2>0, <2>3, <2>a, <3>1, <3>3 DEF getAddress
  <2>4. CASE SendData
    <3>1. ASSUME NEW a \in Accounts, NEW k \in Links, <<"at", a, k>> \in always', Waits(a)
          PROVE  <<a, k>> \in heard' \cup failed' \/ Waits(a)'
      <4>1. CASE a = whom
        BY <2>0, <2>4, <3>1, <4>1 DEF SendData, Served
      <4>2. CASE a # whom
        BY <2>4, <3>1, <4>2 DEF SendData, Waits
      <4> QED
        BY <4>1, <4>2
    <3> QED
      BY <2>4, <2>a, <3>1 DEF SendData
  <2>5. CASE getTokens \/ handlePushMessage \/ refuse
    <3>1. kind \in {"push", "none"}
      BY <2>5 DEF getTokens, handlePushMessage, refuse, Inv, TypeOK, Places, ToOne, ToList
    <3>2. Concerned = {}
      BY <3>1 DEF Concerned
    <3> QED
      BY <2>5, <2>a, <3>2 DEF getTokens, handlePushMessage, refuse
  <2> QED
    BY <1>4, <2>1, <2>2, <2>3, <2>4, <2>5, WorkApart DEF Work
<1> QED
  BY <1>1, <1>2, <1>3, <1>4 DEF Next

-----------------------------------------------------------------------------
(* AnswerTrue: what is told agrees with what was written, and a private    *)
(* message goes unanswered only when the device was nowhere recorded.      *)
Answers ==
  /\ told \in {{}, {0}, {-1}}
  /\ pc = "done" =>
       /\ kind \in ToOne => (0 \in told <=> heard # {})
       /\ kind \in {"one", "all", "push", "none"} => told # {}
       /\ kind = "private" /\ told = {} => \A k \in Links : <<"at", to, k>> \notin always
       /\ kind = "private" /\ saved => -1 \in told

LEMMA AnswersNext == ASSUME Inv, Answers, Next, Inv' PROVE Answers'
<1> USE DEF request, local, outcome, Goto
<1>1. CASE Others
  <2>1. UNCHANGED <<pc, request, outcome>> /\ (pc = "done" => always' \subseteq always)
    BY <1>1, OthersApart, Observed DEF Elsewhere
  <2> QED
    BY <2>1 DEF Answers
<1>2. CASE Packet
  BY <1>2, PacketBegins DEF Answers, Inv, Places
<1>3. CASE getBindedUsers \/ getTokens
  BY <1>3 DEF getBindedUsers, getTokens, Answers
<1>4. CASE next
  BY <1>4 DEF next, Answers, Inv, Places, ToOne, ToList
<1>5. CASE getAddress
  <2>1. UNCHANGED <<tables, request>> /\ pc' \in {"send", "next", "done"}
    BY <1>5 DEF getAddress, tables
  <2>2. kind = "private" /\ found' = NoLink => \A k \in Links : <<"at", to, k>> \notin always'
    <3>1. ASSUME kind = "private", found' = NoLink, NEW k \in Links PROVE <<"at", to, k>> \notin Facts
      <4>1. \A x \in Links : mDevice[x] # to
        <5>1. AddressOf(mDevice, to) = NoLink
          BY <1>5, <3>1 DEF getAddress
        <5> QED
          BY <5>1, AddressFound, NoLinkIsNone
      <4>2. mUser[k] # to
        BY <1>5, <3>1, AccountsDisjoint DEF getAddress, Inv, TypeOK, Places
      <4> QED
        BY <4>1, <4>2, AtFact
    <3> QED
      BY <2>1, <3>1, FactsUnchanged, Observed
  <2>3. pc' = "done" => /\ found' = NoLink
                        /\ \/ kind = "one" /\ told' = {-1}
                           \/ kind = "private" /\ told' = told
    BY <1>5 DEF getAddress
  <2>4. UNCHANGED <<heard, saved, request>> /\ told' \in {told, {-1}} /\ told = {} /\ saved = FALSE
        /\ (kind \in ToOne => heard = {})
    BY <1>5 DEF getAddress, Inv, Places
  <2> QED
    BY <2>1, <2>2, <2>3, <2>4 DEF Answers, ToOne
<1>6. CASE SendData
  <2>1. UNCHANGED request /\ pc' \in {"done", "next"}
        /\ (pc' = "done" => kind \in ToOne)
        /\ (kind \in ToOne => heard = {})
    BY <1>6 DEF SendData, ToOne, Inv, Places
  <2>2. CASE told' = Answer(TRUE) /\ saved' = FALSE /\ heard' # {}
    BY <2>1, <2>2 DEF Answer, Answers, ToOne
  <2>3. CASE told' = Answer(FALSE) /\ heard' = heard
    BY <2>1, <2>3 DEF Answer, Answers, ToOne
  <2> QED
    BY <1>6, <2>2, <2>3 DEF SendData, Inv, Places
<1>7. CASE handlePushMessage \/ refuse
  <2>1. kind' \in {"push", "none"} /\ told' \in {{0}, {-1}}
    BY <1>7 DEF handlePushMessage, refuse, Inv, TypeOK, Places, ToOne, ToList
  <2> QED
    BY <2>1 DEF Answers, ToOne
<1>8. CASE return
  BY <1>8 DEF return, Answers
<1> QED
  BY <1>1, <1>2, <1>3, <1>4, <1>5, <1>6, <1>7, <1>8 DEF Next, Work

(* PushedToBound.                                                          *)
Pushing ==
  /\ pc = "posting" => \A t \in tokens : \E u \in Users : list[u] > 0 /\ <<"phone", u, t>> \in ever
  /\ \A t \in pushed : \E u \in Users : <<"bound", u>> \in ever /\ <<"phone", u, t>> \in ever
  /\ pc \in {"tokens", "posting"} => \A u \in Users : <<"bound", u>> \in always => list[u] > 0
  /\ pc = "posting" => \A t \in Tokens, u \in Users :
       <<"bound", u>> \in always /\ <<"phone", u, t>> \in always => t \in tokens
  /\ pc = "done" /\ kind = "push" /\ 0 \in told => \A t \in Tokens, u \in Users :
       <<"bound", u>> \in always /\ <<"phone", u, t>> \in always => t \in pushed

LEMMA PushingNext == ASSUME Inv, Written, Pushing, Next, Inv' PROVE Pushing'
<1> USE DEF request, local, outcome, Goto
<1>1. CASE pc' = "idle"
  BY <1>1 DEF Pushing, Inv, Places
<1>2. CASE pc' # "idle" /\ Others
  <2>1. UNCHANGED <<pc, request, local, outcome>> /\ always' \subseteq always /\ ever \subseteq ever'
    BY <1>2, OthersApart, Observed DEF Elsewhere
  <2> QED
    BY <2>1 DEF Pushing
<1>3. CASE pc' # "idle" /\ Packet
  <2>1. pushed' = {} /\ pc' \notin {"tokens", "posting", "done"}
    BY <1>3, PacketBegins DEF Inv, Places
  <2> QED
    BY <2>1 DEF Pushing
<1>4. CASE pc' # "idle" /\ Work
  <2>0. /\ UNCHANGED <<tables, request>> /\ Facts' = Facts /\ always' \subseteq Facts /\ Facts \subseteq ever'
        /\ always' \subseteq always /\ ever \subseteq ever' /\ pc # "idle"
    BY <1>4, WorkApart, Observed
       DEF Work, getBindedUsers, next, getAddress, SendData, getTokens, handlePushMessage, refuse, return
  <2>1. CASE getBindedUsers
    <3>1. \A u \in Users : <<"bound", u>> \in Facts => list'[u] > 0
      BY <2>1, BoundFact DEF getBindedUsers, Buddies
    <3> QED
      BY <2>0, <2>1, <3>1 DEF getBindedUsers, Pushing
  <2>2. CASE next \/ getAddress \/ SendData
    <3>1. pushed' = {} /\ pc' \notin {"tokens", "posting"} /\ kind' # "push"
      BY <2>2 DEF next, getAddress, SendData, Inv, Places
    <3> QED
      BY <3>1 DEF Pushing
  <2>3. CASE getTokens
    <3>1. kind = "push"
      BY <2>3 DEF getTokens, Inv, TypeOK, Places, ToOne, ToList
    <3>2. \A t \in tokens' : \E u \in Users : list[u] > 0 /\ <<"phone", u, t>> \in Facts
      BY <2>3, <3>1, PhoneFact DEF getTokens, Inv, TypeOK
    <3>3. \A t \in Tokens, u \in Users : list[u] > 0 /\ <<"phone", u, t>> \in Facts => t \in tokens'
      BY <2>3, AccountsDisjoint, PhoneFact DEF getTokens
    <3> QED
      BY <2>0, <2>3, <3>2, <3>3 DEF getTokens, Pushing, Inv, Places
  <2>4. CASE handlePushMessage
    <3>1. pushed' \in {{}, tokens} /\ (0 \in told' => pushed' = tokens) /\ pc = "posting" /\ pc' = "done"
      <4>1. pushed = {} /\ Recipients(Payload, Tokens) = tokens
        BY <2>4, PayloadRecipients DEF handlePushMessage, Inv, TypeOK, Places
      <4>2. pushed' = tokens \/ (pushed' = {} /\ told' = {-1})
        BY <2>4, <4>1 DEF handlePushMessage
      <4> QED
        BY <2>4, <4>2 DEF handlePushMessage
    <3>2. \A t \in tokens : \E u \in Users : <<"bound", u>> \in ever' /\ <<"phone", u, t>> \in ever'
      BY <2>0, <3>1 DEF Pushing, Written
    <3> QED
      BY <2>0, <3>1, <3>2 DEF Pushing, Inv, TypeOK
  <2>5. CASE refuse
    <3>1. kind' # "push" /\ pushed' = {} /\ pc' = "done"
      BY <2>5 DEF refuse, Inv, Places
    <3> QED
      BY <3>1 DEF Pushing
  <2> QED
    BY <1>4, <2>1, <2>2, <2>3, <2>4, <2>5, WorkApart DEF Work
<1> QED
  BY <1>1, <1>2, <1>3, <1>4 DEF Next

-----------------------------------------------------------------------------
MessagingInv == Inv /\ Written /\ Counted /\ Served /\ Answers /\ Pushing

LEMMA MessagingInvariant == Spec => []MessagingInv
<1>1. Init => MessagingInv
  <2> SUFFICES ASSUME Init PROVE MessagingInv
    OBVIOUS
  <2>1. Counted
    <3>1. {p[1] : p \in heard} = {}
      BY DEF Init
    <3> QED
      BY <3>1, FS_EmptySet DEF Init, Counted, Nobody
  <2>2. Written /\ Served
    BY DEF Init, Written, OnlyAddressees, Served, Nobody
  <2>3. Answers /\ Pushing
    BY DEF Init, Answers, Pushing
  <2> QED
    BY <2>1, <2>2, <2>3, InvInit DEF MessagingInv
<1>2. MessagingInv /\ [Next]_vars => MessagingInv'
  <2> SUFFICES ASSUME MessagingInv, [Next]_vars PROVE MessagingInv'
    OBVIOUS
  <2>1. Inv'
    BY InvNext DEF MessagingInv
  <2>2. CASE Next
    BY <2>1, <2>2, WrittenNext, CountedNext, ServedNext, AnswersNext, PushingNext DEF MessagingInv
  <2>3. CASE UNCHANGED vars
    <3> USE <2>3 DEF vars, tables, request, local, outcome, MessagingInv
    <3>1. Written' /\ Counted'
      BY DEF Written, OnlyAddressees, Counted
    <3>2. Served' /\ Answers'
      BY FactsUnchanged DEF Served, Waits, Answers
    <3>3. Pushing'
      BY DEF Pushing
    <3> QED
      BY <2>1, <3>1, <3>2, <3>3
  <2> QED
    BY <2>2, <2>3
<1> QED
  BY <1>1, <1>2, PTL DEF Spec

(* The variables have their types.                                         *)
THEOREM TypeCorrect == Spec => []TypeOK
<1>1. MessagingInv => TypeOK
  BY DEF MessagingInv, Inv
<1> QED
  BY <1>1, MessagingInvariant, PTL

(* Nobody hears a message who was not, at some time since its handler      *)
(* began, at the address it went to and the addressee or bound to the      *)
(* device (handleSendToAll, handleUserPrivate, handleDeviceLogout).        *)
THEOREM NobodyElse == Spec => []OnlyAddressees
<1>1. MessagingInv => OnlyAddressees
  BY DEF MessagingInv, Written
<1> QED
  BY <1>1, MessagingInvariant, PTL

(* Whoever stayed bound and at one address while the handler ran was       *)
(* written to there, or the write failed; and nobody was written to twice. *)
THEOREM NobodyLeftOut == Spec => []ServedOnce
<1>1. MessagingInv => ServedOnce
  <2> SUFFICES ASSUME MessagingInv PROVE ServedOnce
    OBVIOUS
  <2>1. writes = Cardinality({p[1] : p \in heard})
    BY DEF MessagingInv, Counted
  <2>2. ASSUME pc = "done", NEW k \in Links, NEW a \in Accounts, <<"at", a, k>> \in always,
               kind \in {"all", "logout"} => <<"bound", a>> \in always
        PROVE  <<a, k>> \in heard \cup failed
    <3>1. <<a, k>> \in heard \cup failed \/ Waits(a)
      BY <2>2 DEF MessagingInv, Served
    <3>2. list = Nobody \/ kind = "push"
      BY <2>2 DEF MessagingInv, Inv, Places
    <3>3. kind # "push"
      BY <2>2, AtFact DEF MessagingInv, Served, Concerned
    <3> QED
      BY <2>2, <3>1, <3>2, <3>3 DEF Waits, Nobody
  <2> QED
    BY <2>1, <2>2 DEF ServedOnce
<1> QED
  BY <1>1, MessagingInvariant, PTL

(* The sender is told 0 of a message to one, or a private message, exactly *)
(* when it was written, and of every other message something.              *)
THEOREM ToldTheTruth == Spec => []AnswerTrue
<1>1. MessagingInv => AnswerTrue
  <2> SUFFICES ASSUME MessagingInv PROVE AnswerTrue
    OBVIOUS
  <2>1. Cardinality(told) <= 1
    BY FS_EmptySet, FS_Singleton DEF MessagingInv, Answers
  <2> QED
    BY <2>1 DEF MessagingInv, Answers, AnswerTrue, ToOne
<1> QED
  BY <1>1, MessagingInvariant, PTL

(* A push reaches telephones of bound users only, and all that stayed so.  *)
THEOREM PushedRight == Spec => []PushedToBound
<1>1. MessagingInv => PushedToBound
  BY DEF MessagingInv, Pushing, PushedToBound
<1> QED
  BY <1>1, MessagingInvariant, PTL
=============================================================================
