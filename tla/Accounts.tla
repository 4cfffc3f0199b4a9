------------------------------ MODULE Accounts ------------------------------
(***************************************************************************)
(* What the handlers of accounts, bindings and push tokens do to the       *)
(* database (wisUserDao.cpp, WisBindDao.cpp, WisDeviceDao.cpp,             *)
(* WisIOSTokenDao.cpp).  No handler uses a transaction, so every SQL       *)
(* statement is a step of its own, may fail, and the statements of two     *)
(* workers interleave.  The answer to the client is a step after the last  *)
(* statement, with no lock held: answers may come in another order than    *)
(* the statements they are about.                                          *)
(*                                                                         *)
(* A table is, for each of its keys, the rows that have the key: of a row  *)
(* there is the one column that matters.  The keys are the names of        *)
(* wis_user_tbl (password), the uuids of wis_device_tbl, the pairs of      *)
(* wis_device_bind_tbl and the tokens of wis_ios_token_tbl2 (user).  The   *)
(* schema is not in the repository: the tables may or may not have unique  *)
(* indexes on the keys.                                                    *)
(* Clients write a token in the same way at login and when they quit.      *)
(***************************************************************************)
EXTENDS Naturals, FiniteSets, SequencesExt

CONSTANTS
  Workers,
  Users,        \* names of users
  Passwords,
  Devices,      \* uuids of devices
  Tokens,       \* tokens of phones
  None,         \* no column, no request
  MaxRequests   \* bound: requests handled

Binds == Users \X Devices
Keys == Users \cup Devices \cup Binds \cup Tokens

ASSUME KeysDisjoint ==
  /\ Users \cap Devices = {} /\ Users \cap Tokens = {} /\ Devices \cap Tokens = {}
  /\ Binds \cap (Users \cup Devices \cup Tokens) = {}
  /\ None \notin Keys \cup Passwords

Columns(k) == IF k \in Users THEN Passwords ELSE IF k \in Tokens THEN Users ELSE {None}

(* What a request does about a key: it adds a row with this column, sets   *)
(* the column of its rows, or drops them.                                  *)
Change == [op : {"add", "set", "drop"}, key : Keys, val : Users \cup Passwords \cup {None}]

VARIABLES
  unique,     \* the tables have unique indexes
  tables,     \* key -> its rows: the column of each, oldest first
  at,         \* worker -> the statement its handler executes next
  req,        \* worker -> what its request does
  requests    \* requests taken so far

(* History, read by the properties only.                                   *)
VARIABLES
  told,       \* key -> the columns clients were last told it has, or None
  overlapped, \* keys two requests whose statements could interleave were about
  contended,  \* keys two requests that do not agree were about, the answer included
  doubted     \* keys whose look-up failed and was taken for "not there", and
              \* tokens saved twice in one second

history == <<told, overlapped, contended, doubted>>
vars == <<unique, tables, at, req, requests, history>>

NoChange == [op |-> None, key |-> None, val |-> None]

(* Two requests about a key agree if it does not matter whose answer comes *)
(* last.                                                                   *)
Agree(r, s) == r.op = s.op /\ (r.op = "set" => r.val = s.val)

(* No row has the key of another one.                                      *)
Init ==
  /\ unique \in BOOLEAN
  /\ tables \in [Keys -> {<<>>} \cup {<<v>> : v \in Users \cup Passwords \cup {None}}]
  /\ \A k \in Keys : ToSet(tables[k]) \subseteq Columns(k)
  /\ at = [w \in Workers |-> "idle"]
  /\ req = [w \in Workers |-> NoChange]
  /\ requests = 0
  /\ told = [k \in Keys |-> None]
  /\ overlapped = {} /\ contended = {} /\ doubted = {}

Rows(k) == ToSet(tables[k])

Insert(r) == [tables EXCEPT ![r.key] = Append(@, r.val)]
Update(r) == [tables EXCEPT ![r.key] = [n \in DOMAIN @ |-> r.val]]
Delete(k) == [tables EXCEPT ![k] = <<>>]

(* An INSERT: it succeeds, or it fails, which it must if there is a unique *)
(* index and the key is there.                                             *)
Inserts(r) == ~(unique /\ Rows(r.key) # {}) /\ tables' = Insert(r)

(* What the answer to a request that is done tells the client of its key.  *)
Answer(r) == IF r.op = "drop" THEN {} ELSE {r.val}

-----------------------------------------------------------------------------
(* A request r arrives at worker w, ...                                    *)
Request(w, r) ==
  /\ at[w] = "idle"
  /\ requests < MaxRequests
  /\ requests' = requests + 1
  /\ overlapped' = overlapped \cup
       {k \in {r.key} : \E x \in Workers \ {w} : at[x] # "answering" /\ req[x].key = k}
  /\ contended' = contended \cup
       {k \in {r.key} : \E x \in Workers \ {w} : req[x].key = k /\ ~Agree(r, req[x])}
  /\ UNCHANGED <<unique, told, doubted>>

(* ... and its handler goes on with another statement or the answer, ...   *)
Begin(w, r, step) ==
  /\ Request(w, r)
  /\ at' = [at EXCEPT ![w] = step]
  /\ req' = [req EXCEPT ![w] = r]

(* ... or the database refuses it, and it is answered so.                  *)
Refused(w, r) == Request(w, r) /\ UNCHANGED <<tables, at, req>>

Continue(w, from, to) ==
  /\ at[w] = from
  /\ at' = [at EXCEPT ![w] = to]
  /\ req' = IF to = "idle" THEN [req EXCEPT ![w] = NoChange] ELSE req
  /\ UNCHANGED <<unique, requests, told, overlapped, contended>>

(* The answer, once the handler's last statement is done.                  *)
sendResponse(w) ==
  /\ at[w] = "answering"
  /\ told' = [told EXCEPT ![req[w].key] = Answer(req[w])]
  /\ at' = [at EXCEPT ![w] = "idle"]
  /\ req' = [req EXCEPT ![w] = NoChange]
  /\ UNCHANGED <<unique, tables, requests, overlapped, contended, doubted>>

-----------------------------------------------------------------------------
(* WisUserDao::handleUserRegist: checkUser, which is false as well when    *)
(* the database fails, ...                                                 *)
handleUserRegist(w, u, p) ==
  Begin(w, [op |-> "add", key |-> u, val |-> p], "checkUser") /\ UNCHANGED tables

checkUser(w) ==
  LET k == req[w].key IN
  /\ \/ Continue(w, "checkUser", "idle") /\ Rows(k) # {} /\ UNCHANGED doubted
     \/ Continue(w, "checkUser", "insertUser") /\ Rows(k) = {} /\ UNCHANGED doubted
     \/ Continue(w, "checkUser", "insertUser") /\ doubted' = doubted \cup {k}
  /\ UNCHANGED tables

(* ... then the INSERT, answered with 0 or -1.                             *)
insertUser(w) ==
  /\ \/ Continue(w, "insertUser", "answering") /\ Inserts(req[w])
     \/ Continue(w, "insertUser", "idle") /\ UNCHANGED tables
  /\ UNCHANGED doubted

(* handleUserModifyPassword: one UPDATE, of a user that is logged in.      *)
handleUserModifyPassword(w, u, p) ==
  LET r == [op |-> "set", key |-> u, val |-> p] IN
  /\ Rows(u) # {}
  /\ \/ Begin(w, r, "answering") /\ tables' = Update(r)
     \/ Refused(w, r)

-----------------------------------------------------------------------------
(* WisBindDao::addBind: a SELECT, which is answered with 2 when the pair   *)
(* is there and with 1 when it fails, then the INSERT, answered with 0 or  *)
(* 1.                                                                      *)
addBind(w, b) ==
  Begin(w, [op |-> "add", key |-> b, val |-> None], "selectBind") /\ UNCHANGED tables

(* Mutant: a failed SELECT counts as an empty one.                         *)
selectBindFailing(w) ==
  /\ \/ Continue(w, "selectBind", "insertBind")
     \/ Continue(w, "selectBind", "answering") /\ Rows(req[w].key) # {}
  /\ UNCHANGED <<tables, doubted>>

selectBind(w) ==
  LET k == req[w].key IN
  /\ \/ Continue(w, "selectBind", "insertBind") /\ Rows(k) = {}
     \/ Continue(w, "selectBind", "answering") /\ Rows(k) # {}
     \/ Continue(w, "selectBind", "idle")
  /\ UNCHANGED <<tables, doubted>>

insertBind(w) ==
  /\ \/ Continue(w, "insertBind", "answering") /\ Inserts(req[w])
     \/ Continue(w, "insertBind", "idle") /\ UNCHANGED tables
  /\ UNCHANGED doubted

(* delBind: one DELETE, of every row with the pair.                        *)
delBind(w, b) ==
  LET r == [op |-> "drop", key |-> b, val |-> None] IN
  \/ Begin(w, r, "answering") /\ tables' = Delete(b)
  \/ Refused(w, r)

-----------------------------------------------------------------------------
(* The device part of handleDeviceLogin: check, regist unless the device   *)
(* is known, ...                                                           *)
handleDeviceLogin(w, d) ==
  Begin(w, [op |-> "add", key |-> d, val |-> None], "check") /\ UNCHANGED tables

check(w) ==
  LET k == req[w].key IN
  /\ \/ Continue(w, "check", "login") /\ Rows(k) # {} /\ UNCHANGED doubted
     \/ Continue(w, "check", "regist") /\ Rows(k) = {} /\ UNCHANGED doubted
     \/ Continue(w, "check", "regist") /\ doubted' = doubted \cup {k}
  /\ UNCHANGED tables

(* Mutant: the result of regist is not looked at.                          *)
registBlindly(w) ==
  /\ Continue(w, "regist", "login")
  /\ Inserts(req[w]) \/ UNCHANGED tables
  /\ UNCHANGED doubted

regist(w) ==
  /\ \/ Continue(w, "regist", "login") /\ Inserts(req[w])
     \/ Continue(w, "regist", "idle") /\ UNCHANGED tables
  /\ UNCHANGED doubted

(* ... and login, an UPDATE of the status, answered with 1 or -1.          *)
login(w) ==
  /\ Continue(w, "login", "answering") \/ Continue(w, "login", "idle")
  /\ UNCHANGED <<tables, doubted>>

-----------------------------------------------------------------------------
(* handleUserLogin with a name and a password that are in the table, and a *)
(* token; WisUserDao::login may fail, which ends it, ...                   *)
handleUserLogin(w, u, t) ==
  /\ Rows(u) # {}
  /\ Begin(w, [op |-> "set", key |-> t, val |-> u], "update") /\ UNCHANGED tables

(* Mutant: the token's rows are not updated.                               *)
updateNothing(w) ==
  /\ Continue(w, "update", "insert")
  /\ UNCHANGED <<tables, doubted>>

(* ... then WisIOSTokenDao::save: an UPDATE of the token's user and time   *)
(* and, if MySQL says that it changed no row, an INSERT.  A row that has   *)
(* this user and was written in this second does not change.  The login is *)
(* answered in the same way when the token could not be saved: that answer *)
(* says nothing of the token.                                              *)
update(w) ==
  LET k == req[w].key IN
  \/ Continue(w, "update", "idle") /\ UNCHANGED <<tables, doubted>>
  \/ /\ Continue(w, "update", "answering")
     /\ Rows(k) # {}
     /\ tables' = Update(req[w])
     /\ UNCHANGED doubted
  \/ /\ Continue(w, "update", "insert")
     /\ Rows(k) \subseteq {req[w].val}
     /\ doubted' = doubted \cup {x \in {k} : Rows(k) # {}}
     /\ UNCHANGED tables

insert(w) ==
  /\ \/ Continue(w, "insert", "answering") /\ Inserts(req[w])
     \/ Continue(w, "insert", "idle") /\ UNCHANGED tables
  /\ UNCHANGED doubted

(* handleUserQuit: a DELETE of the token's rows.                           *)
handleUserQuit(w, u, t) ==
  LET r == [op |-> "drop", key |-> t, val |-> u] IN
  \/ Begin(w, r, "answering") /\ tables' = Delete(t)
  \/ Refused(w, r)

(* The packets of ShowClientReceiveData that write to these tables.        *)
Packet(w) ==
  \/ \E u \in Users, p \in Passwords :
       handleUserRegist(w, u, p) \/ handleUserModifyPassword(w, u, p)
  \/ \E b \in Binds : addBind(w, b) \/ delBind(w, b)
  \/ \E d \in Devices : handleDeviceLogin(w, d)
  \/ \E u \in Users, t \in Tokens : handleUserLogin(w, u, t) \/ handleUserQuit(w, u, t)

Statement(w) ==
  \/ checkUser(w) \/ insertUser(w)
  \/ selectBind(w) \/ insertBind(w)
  \/ check(w) \/ regist(w) \/ login(w)
  \/ update(w) \/ insert(w)

Next == \E w \in Workers : Packet(w) \/ Statement(w) \/ sendResponse(w)

Spec == Init /\ [][Next]_vars
-----------------------------------------------------------------------------
(* The type of the state.                                                  *)
TypeOK ==
  /\ unique \in BOOLEAN
  /\ DOMAIN tables = Keys /\ \A k \in Keys : tables[k] \in Seq(Columns(k))
  /\ at \in [Workers -> {"idle", "checkUser", "insertUser", "selectBind", "insertBind",
                         "check", "regist", "login", "update", "insert", "answering"}]
  /\ req \in [Workers -> Change \cup {NoChange}]
  /\ \A w \in Workers : at[w] = "idle" <=> req[w] = NoChange
  /\ overlapped \subseteq Keys /\ contended \subseteq Keys /\ doubted \subseteq Keys

(* The conditions under which look-up and insertion are safe: a unique     *)
(* index, or requests about the key took turns and no look-up failed.      *)
Safe(k) == unique \/ k \notin overlapped \cup doubted

(* A name, a device, a binding and a token have one row at most, although  *)
(* look-up and insertion are two statements.  A binding's look-up that     *)
(* fails does no harm.                                                     *)
NoDuplicateRows == \A k \in Keys : Safe(k) => Len(tables[k]) <= 1

(* Once the answers about a key are out, what they told the clients last   *)
(* is what the tables say: the password is the one last registered or set, *)
(* a binding is there or not, a device is known, and a token belongs to    *)
(* the user whose login last saved it, unless a quit dropped it since.     *)
(* Requests that agree may interleave, those about a binding even without  *)
(* a unique index; two that do not (a login and a quit, two new passwords) *)
(* may be answered in the other order than their statements came.          *)
AnswersTrue ==
  \A k \in Keys :
    /\ told[k] # None /\ k \notin contended
    /\ Safe(k) \/ k \in Binds
    /\ ~\E w \in Workers : at[w] = "answering" /\ req[w].key = k
    => Rows(k) = told[k]

(* A phone gets the pushes of one user only: the rows of a token name the  *)
(* same user, unless two logins with it overlapped without a unique index. *)
TokenOfOneUser ==
  \A t \in Tokens : unique \/ t \notin overlapped => Cardinality(Rows(t)) <= 1
=============================================================================
