----------------------------- MODULE Messaging -----------------------------
(***************************************************************************)
(* How a packet of one link reaches others: messages to users and their    *)
(* pushes (WisToUserHandler.cpp), private messages to devices              *)
(* (WisUserPrivateHandler.cpp), and what users are told when a device logs *)
(* in or out (wisLogginHandler.cpp).                                       *)
(*                                                                         *)
(* Each of these handlers reads a list from the database, looks addresses  *)
(* up in the tables of module Session under their mutexes, and sends after *)
(* the mutex was released.  The handlers share nothing else, so one at a   *)
(* time is followed here, that of link self, from the packet to its end;   *)
(* what the other links do is reduced to the steps that change what it     *)
(* reads: the tables, the CDevices, the bindings and the tokens.           *)
(***************************************************************************)
EXTENDS Integers, FiniteSets, JPush

CONSTANTS
  Links,    \* the connections, by BUS_ADDRESS pointer
  Users,    \* names of wis_user_tbl
  Devices,  \* uuids of wis_device_tbl
  Tokens,   \* tokens of telephones, keys of wis_ios_token_tbl2
  NoUuid,   \* the empty string
  NoLink,   \* NULL
  Flags     \* values of the flag field of a message

ASSUME AccountsDisjoint == Users \cap Devices = {} /\ NoUuid \notin Users \cup Devices
ASSUME NoLinkIsNone == NoLink \notin Links
ASSUME FlagsBits == Flags \subseteq 0..7

Accounts == Users \cup Devices

(* handleToUser: CMD_FLAG_USER_ONE, _USER_ALL, _ISO_APNS_ALL_OFFLINE.      *)
KindOf(flag) == CASE flag = 0 -> "one" [] flag = 1 -> "all" [] flag = 7 -> "push"
                  [] OTHER -> "none"

VARIABLES
  m_mapDevice,  \* the links that have a CDevice
  mUser,        \* link -> user recorded for it, or NoUuid
  mDevice,      \* link -> device recorded for it, or NoUuid
  rows,         \* <<device, user>> -> rows in wis_device_bind_tbl
  tokenOf,      \* token -> user of its row, or NoUuid
  self, pc,     \* the link whose handler is followed, where its worker is
  kind, flag,   \* what it handles
  from, to,     \* the uuid of self, the uuid in the packet
  list,         \* user -> times it is still to be served
  whom, found,  \* the account being served, the address found for it
  tokens        \* the tokens found

(* History of the handler, read by the properties only.                    *)
VARIABLES
  heard,   \* <<account, link>> that was written to
  writes,  \* number of writes
  failed,  \* <<account, link>> whose write failed
  pushed,  \* tokens pushed to
  saved,   \* the message was saved
  told,    \* the answers to self
  always,  \* facts that held ever since the handler began
  ever     \* facts that held at some time since then

tables == <<m_mapDevice, mUser, mDevice, rows, tokenOf>>
request == <<self, kind, flag, from, to>>
local == <<list, whom, found, tokens>>
outcome == <<heard, writes, failed, pushed, saved, told>>
vars == <<tables, request, pc, local, outcome, always, ever>>

(* The device whose users the handler asks for: handlePushMessage takes    *)
(* the uuid in the packet, the others the uuid of the link.                *)
Subject == IF kind = "push" THEN to ELSE from

(* What is the case and matters to the handler.                            *)
OfBound == {"all", "login", "logout", "push"}
Concerned ==
  CASE kind = "one" -> {to} \cap Users
    [] kind = "private" -> {to}
    [] kind \in {"all", "logout"} -> Users
    [] OTHER -> {}
Facts ==
  {f \in {"bound"} \X Users : kind \in OfBound /\ <<Subject, f[2]>> \in DOMAIN rows /\ rows[<<Subject, f[2]>>] > 0}
    \cup {f \in {"at"} \X Concerned \X m_mapDevice : f[2] \in {mUser[f[3]], mDevice[f[3]]}}
    \cup {f \in {"phone"} \X Users \X Tokens : kind = "push" /\ tokenOf[f[3]] = f[2]}

Nobody == [u \in Users |-> 0]

Init ==
  /\ m_mapDevice = Links
  /\ mUser = [k \in Links |-> NoUuid]
  /\ mDevice = [k \in Links |-> NoUuid]
  /\ rows = [b \in Devices \X Users |-> 0]
  /\ tokenOf = [t \in Tokens |-> NoUuid]
  /\ self = NoLink /\ pc = "idle" /\ kind = "none" /\ flag = 0
  /\ from = NoUuid /\ to = NoUuid
  /\ list = Nobody /\ whom = NoUuid /\ found = NoLink /\ tokens = {}
  /\ heard = {} /\ writes = 0 /\ failed = {} /\ pushed = {} /\ saved = FALSE /\ told = {}
  /\ always = {} /\ ever = {}

-----------------------------------------------------------------------------
(* What the other links' workers do to the tables.                         *)
Elsewhere == UNCHANGED <<request, pc, local, outcome>>

Busy(k) == pc # "idle" /\ k = self

(* mapAddUser: the other addresses of u are erased, this one recorded.  A  *)
(* link keeps to one kind of login.                                        *)
mapAddUser(k, u) ==
  /\ k \in m_mapDevice /\ ~Busy(k) /\ mDevice[k] = NoUuid
  /\ mUser' = [x \in Links |-> IF x = k THEN u ELSE IF mUser[x] = u THEN NoUuid ELSE mUser[x]]
  /\ UNCHANGED <<m_mapDevice, mDevice, rows, tokenOf>>
  /\ Elsewhere

(* mapDeleteSameUser, when a user quits or its last link hangs up.         *)
mapDeleteSameUser(u) ==
  /\ mUser' = [x \in Links |-> IF mUser[x] = u THEN NoUuid ELSE mUser[x]]
  /\ UNCHANGED <<m_mapDevice, mDevice, rows, tokenOf>>
  /\ Elsewhere

mapAddDevice(k, d) ==
  mDevice' = [x \in Links |-> IF x = k THEN d ELSE IF mDevice[x] = d THEN NoUuid ELSE mDevice[x]]

DeleteDeviceClient(k) ==
  /\ k \in m_mapDevice /\ ~Busy(k)
  /\ m_mapDevice' = m_mapDevice \ {k}
  /\ UNCHANGED <<mUser, mDevice, rows, tokenOf>>
  /\ Elsewhere

(* OnConnect of a new link, whose BUS_ADDRESS has never been in a table;   *)
(* an old name of no further use stands for it.                            *)
OnConnect(k) ==
  /\ k \notin m_mapDevice /\ ~Busy(k)
  /\ mUser[k] = NoUuid /\ mDevice[k] = NoUuid
  /\ k # found /\ \A f \in ever : f[1] = "at" => f[3] # k
  /\ m_mapDevice' = m_mapDevice \cup {k}
  /\ UNCHANGED <<mUser, mDevice, rows, tokenOf>>
  /\ Elsewhere

(* addBind and delBind: two racing addBind may leave two rows.             *)
addBind(d, u) ==
  /\ rows[<<d, u>>] < 2
  /\ rows' = [rows EXCEPT ![<<d, u>>] = @ + 1]
  /\ UNCHANGED <<m_mapDevice, mUser, mDevice, tokenOf>>
  /\ Elsewhere

delBind(d, u) ==
  /\ rows' = [rows EXCEPT ![<<d, u>>] = 0]
  /\ UNCHANGED <<m_mapDevice, mUser, mDevice, tokenOf>>
  /\ Elsewhere

(* WisIOSTokenDao::save at a login, and its end when the user quits.       *)
saveToken(t, u) ==
  /\ tokenOf' = [tokenOf EXCEPT ![t] = u]
  /\ UNCHANGED <<m_mapDevice, mUser, mDevice, rows>>
  /\ Elsewhere

-----------------------------------------------------------------------------
Goto(where) == pc' = where

Begin(k, what, f, a, b, where) ==
  /\ pc = "idle"
  /\ k \in m_mapDevice
  /\ self' = k /\ kind' = what /\ flag' = f /\ from' = a /\ to' = b
  /\ list' = Nobody /\ whom' = b /\ found' = NoLink /\ tokens' = {}
  /\ Goto(where)
  /\ UNCHANGED outcome

(* handleToUser, from a user or a device that is logged in.  Only a        *)
(* message to one and a push look at the uuid in the packet.               *)
handleToUser(k, f, b) ==
  /\ \E a \in {mUser[k], mDevice[k]} \ {NoUuid} :
       LET what == KindOf(f) IN
       /\ what \in {"one", "push"} \/ b = a
       /\ Begin(k, what, f, a, b, CASE what = "one" -> "lookup"
                                    [] what = "none" -> "refusing"
                                    [] OTHER -> "listing")
  /\ UNCHANGED tables

(* handleUserPrivate.                                                      *)
handleUserPrivate(k, d) ==
  /\ mUser[k] # NoUuid
  /\ Begin(k, "private", 0, mUser[k], d, "lookup")
  /\ UNCHANGED tables

(* handleDeviceLogin from where the device is recorded.                    *)
handleDeviceLogin(k, d) ==
  /\ mUser[k] = NoUuid
  /\ Begin(k, "login", 0, d, d, "listing")
  /\ mapAddDevice(k, d)
  /\ UNCHANGED <<m_mapDevice, mUser, rows, tokenOf>>

(* handleDeviceLogout from where its address is erased.                    *)
handleDeviceLogout(k) ==
  /\ mDevice[k] # NoUuid
  /\ Begin(k, "logout", 0, mDevice[k], mDevice[k], "listing")
  /\ mDevice' = [mDevice EXCEPT ![k] = NoUuid]
  /\ UNCHANGED <<m_mapDevice, mUser, rows, tokenOf>>

(* Mutant: a row of the table is a user to serve.                          *)
BuddiesPerRow(d) == [u \in Users |-> IF <<d, u>> \in DOMAIN rows THEN rows[<<d, u>>] ELSE 0]

(* Mutant: every user is listed.                                           *)
BuddiesOfAnyone(d) == [u \in Users |-> 1]

(* getBindedUsers fills a map: a user counts once, however many rows there *)
(* are.  A query that fails looks like one without rows.                   *)
Buddies(d) == [u \in Users |-> IF <<d, u>> \in DOMAIN rows /\ rows[<<d, u>>] > 0 THEN 1 ELSE 0]

getBindedUsers ==
  /\ pc = "listing"
  /\ list' = Buddies(Subject)
  /\ Goto(IF kind = "push" THEN "tokens" ELSE "next")
  /\ UNCHANGED <<tables, request, whom, found, tokens, outcome>>

(* The loop over the map.                                                  *)
Rest(u) == [list EXCEPT ![u] = @ - 1]

next ==
  /\ pc = "next"
  /\ \/ \E u \in Users :
          /\ list[u] > 0
          /\ list' = Rest(u)
          /\ whom' = u
          /\ Goto("lookup")
          /\ UNCHANGED told
     \/ /\ list = Nobody
        /\ told' = IF kind = "all" THEN {0} ELSE told
        /\ Goto("done")
        /\ UNCHANGED <<list, whom>>
  /\ UNCHANGED <<tables, request, found, tokens, heard, writes, failed, pushed, saved>>

(* Mutant: any recorded address is taken.                                  *)
AddressOfAny(table, a) ==
  LET ks == {k \in Links : table[k] # NoUuid} IN
  IF ks = {} THEN NoLink ELSE CHOOSE k \in ks : TRUE

AddressOf(table, a) ==
  LET ks == {k \in Links : table[k] = a} IN
  IF ks = {} THEN NoLink ELSE CHOOSE k \in ks : TRUE

(* getUserAddress and getDeviceAddress.  handleDeviceLogin looks for the   *)
(* uuid of the device among the users.  The account and its address are    *)
(* gone after the turn of the loop.                                        *)
getAddress ==
  /\ pc = "lookup"
  /\ found' = IF kind = "private" THEN AddressOf(mDevice, to)
              ELSE AddressOf(mUser, IF kind = "login" THEN from ELSE whom)
  /\ \/ /\ found' # NoLink
        /\ Goto("send")
        /\ UNCHANGED told
     \/ /\ found' = NoLink
        /\ kind # "one"
        /\ Goto(IF kind = "private" THEN "done" ELSE "next")
        /\ UNCHANGED told
     \/ /\ found' = NoLink
        /\ kind = "one"
        /\ told' = {-1}
        /\ Goto("done")
  /\ whom' = IF found' = NoLink THEN NoUuid ELSE whom
  /\ UNCHANGED <<tables, request, list, tokens, heard, writes, failed, pushed, saved>>

(* Mutant: the answer does not depend on the write.                        *)
AnswerAnyway(sent) == IF kind \in {"one", "private"} THEN {0} ELSE {}

Answer(sent) ==
  IF kind \notin {"one", "private"} THEN {} ELSE IF sent THEN {0} ELSE {-1}

(* WisDeviceCommandDao::save: the INSERT may fail, and nobody looks.       *)
save == BOOLEAN

(* SendData: without a CDevice, or when the write fails, it returns false. *)
(* The private message that was not sent is kept in wis_device_cmd_tbl.    *)
SendData ==
  /\ pc = "send"
  /\ \/ /\ found \in m_mapDevice
        /\ heard' = heard \cup {<<whom, found>>}
        /\ writes' = writes + 1
        /\ told' = Answer(TRUE)
        /\ UNCHANGED <<failed, saved>>
     \/ /\ failed' = failed \cup {<<whom, found>>}
        /\ told' = Answer(FALSE)
        /\ saved' \in (IF kind = "private" THEN save ELSE {FALSE})
        /\ UNCHANGED <<heard, writes>>
  /\ whom' = NoUuid /\ found' = NoLink
  /\ Goto(IF kind \in {"one", "private"} THEN "done" ELSE "next")
  /\ UNCHANGED <<tables, request, list, tokens, pushed>>

(* The set of the tokens of the users listed.                              *)
getTokens ==
  /\ pc = "tokens"
  /\ tokens' = {t \in Tokens : tokenOf[t] # NoUuid /\ list[tokenOf[t]] > 0}
  /\ Goto("posting")
  /\ UNCHANGED <<tables, request, list, whom, found, outcome>>

(* If there is one, they are posted to the push service; then the answer,  *)
(* and unless the post failed the message is saved.                        *)
Payload == push_SpecifiedIDs("data", "device message", 1, tokens)

handlePushMessage ==
  /\ pc = "posting"
  /\ \/ /\ tokens = {} \/ TRUE \in Outcomes
        /\ pushed' = IF tokens = {} THEN {} ELSE Recipients(Payload, Tokens)
        /\ told' = {0}
        /\ saved' \in save
     \/ /\ tokens # {} /\ FALSE \in Outcomes
        /\ told' = {-1}
        /\ UNCHANGED <<pushed, saved>>
  /\ Goto("done")
  /\ UNCHANGED <<tables, request, local, heard, writes, failed>>

(* A flag that is not known.                                               *)
refuse ==
  /\ pc = "refusing"
  /\ told' = {-1}
  /\ Goto("done")
  /\ UNCHANGED <<tables, request, local, heard, writes, failed, pushed, saved>>

return ==
  /\ pc = "done"
  /\ Goto("idle")
  /\ self' = NoLink /\ kind' = "none" /\ flag' = 0 /\ from' = NoUuid /\ to' = NoUuid
  /\ list' = Nobody /\ whom' = NoUuid /\ found' = NoLink /\ tokens' = {}
  /\ heard' = {} /\ writes' = 0 /\ failed' = {} /\ pushed' = {} /\ saved' = FALSE /\ told' = {}
  /\ UNCHANGED tables

-----------------------------------------------------------------------------
Others ==
  \/ \E k \in Links :
       \/ \E u \in Users : mapAddUser(k, u)
       \/ DeleteDeviceClient(k)
       \/ OnConnect(k)
  \/ \E u \in Users : mapDeleteSameUser(u)
  \/ \E d \in Devices, u \in Users : addBind(d, u) \/ delBind(d, u)
  \/ \E t \in Tokens, u \in Users \cup {NoUuid} : saveToken(t, u)

Packet ==
  \E k \in Links :
    \/ \E f \in Flags, b \in Accounts : handleToUser(k, f, b)
    \/ \E d \in Devices : handleUserPrivate(k, d) \/ handleDeviceLogin(k, d)
    \/ handleDeviceLogout(k)

Work ==
  \/ getBindedUsers \/ next \/ getAddress \/ SendData
  \/ getTokens \/ handlePushMessage \/ refuse \/ return

(* The history of facts.                                                   *)
Observe ==
  /\ always' = IF pc' = "idle" THEN {} ELSE IF pc = "idle" THEN Facts' ELSE always \cap Facts'
  /\ ever' = IF pc' = "idle" THEN {} ELSE IF pc = "idle" THEN Facts' ELSE ever \cup Facts'

Next == (Others \/ Packet \/ Work) /\ Observe

Spec == Init /\ [][Next]_vars
-----------------------------------------------------------------------------
(* The type of the state.                                                  *)
TypeOK ==
  /\ m_mapDevice \subseteq Links
  /\ mUser \in [Links -> Users \cup {NoUuid}]
  /\ mDevice \in [Links -> Devices \cup {NoUuid}]
  /\ rows \in [Devices \X Users -> 0..2]
  /\ tokenOf \in [Tokens -> Users \cup {NoUuid}]
  /\ self \in Links \cup {NoLink}
  /\ pc \in {"idle", "listing", "next", "lookup", "send", "tokens", "posting", "refusing", "done"}
  /\ kind \in {"none", "one", "all", "push", "private", "login", "logout"}
  /\ flag \in Flags \cup {0}
  /\ from \in Accounts \cup {NoUuid} /\ to \in Accounts \cup {NoUuid}
  /\ list \in [Users -> 0..2]
  /\ whom \in Accounts \cup {NoUuid} /\ found \in Links \cup {NoLink} /\ tokens \subseteq Tokens
  /\ heard \subseteq Accounts \X Links /\ failed \subseteq Accounts \X Links
  /\ writes \in Nat
  /\ pushed \subseteq Tokens /\ saved \in BOOLEAN /\ told \subseteq {0, -1}

(* A message to all, and the notice that a device logged out, leaves out   *)
(* nobody: a user who was bound to the device, and logged in on one link,  *)
(* from the moment the handler began to its end has it on that link unless *)
(* the write failed, whoever else logged in, hung up, bound or unbound in  *)
(* the meantime.  So has the user a message to one is for, and the device  *)
(* of a private message.  And nobody has it twice, although a racing bind  *)
(* may leave two rows for one binding and a user may change links during   *)
(* the loop.                                                               *)
ServedOnce ==
  /\ writes = Cardinality({p[1] : p \in heard})
  /\ pc = "done" =>
    \A k \in Links, a \in Accounts :
      /\ <<"at", a, k>> \in always
      /\ kind \in {"all", "logout"} => <<"bound", a>> \in always
      => <<a, k>> \in heard \cup failed

(* Nobody else hears it: whoever was written to was, at some time since    *)
(* the handler began, at that address, and the addressee of the message,   *)
(* or a user bound to the device.  More the code does not give: the        *)
(* address is used after uMutex was released (WisToUserHandler.cpp:56).    *)
OnlyAddressees ==
  \A p \in heard :
    /\ <<"at", p[1], p[2]>> \in ever
    /\ IF kind \in {"all", "logout"} THEN <<"bound", p[1]>> \in ever ELSE p[1] = to

(* The answer is the truth: to a message to one or a private message 0 if  *)
(* it was written and -1 if not; a message to all is always answered with  *)
(* 0.  There is one answer, unless the device of a private message was     *)
(* away at some time, or nothing was asked.                                *)
AnswerTrue ==
  pc = "done" =>
    /\ Cardinality(told) <= 1
    /\ kind \in {"one", "private"} => (0 \in told <=> heard # {})
    /\ kind \in {"one", "all", "push", "none"} => told # {}
    /\ kind = "private" /\ told = {} => \A k \in Links : <<"at", to, k>> \notin always
    /\ kind = "private" /\ saved => -1 \in told

(* A push goes to telephones of bound users only, where token and binding  *)
(* may have changed since they were read, and to all that stayed theirs,   *)
(* unless the answer says that it failed.                                  *)
PushedToBound ==
  /\ \A t \in pushed : \E u \in Users : <<"bound", u>> \in ever /\ <<"phone", u, t>> \in ever
  /\ pc = "done" /\ kind = "push" /\ 0 \in told =>
       \A t \in Tokens, u \in Users :
         <<"bound", u>> \in always /\ <<"phone", u, t>> \in always => t \in pushed
=============================================================================
