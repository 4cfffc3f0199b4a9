--------------------------- MODULE AccountsProofs ---------------------------
(***************************************************************************)
(* Theorems about Accounts, for any number of workers, users, passwords,   *)
(* devices and tokens, and any bound on the requests.                      *)
(*                                                                         *)
(* A handler looks a key up and inserts it in two statements, and answers  *)
(* in a third step.  What makes the rows unique is that two requests about *)
(* a key that does not overlap take turns (TakeTurns), so that what the    *)
(* look-up saw still holds when the insertion comes (WorkerOK).  What      *)
(* makes the answers true is that requests about a key that is not         *)
(* contended agree (TakeTurns again), so that an answer still holds when   *)
(* it is sent (PendingOK).                                                 *)
(***************************************************************************)
EXTENDS Accounts, FiniteSetTheorems, TLAPS

USE KeysDisjoint DEF Keys, Columns

(* What the request of a worker is about, by the statement it executes     *)
(* next.                                                                   *)
RequestOf(w) ==
  /\ at[w] # "idle" => req[w].key \in Keys /\ req[w].val \in Columns(req[w].key)
  /\ at[w] \in {"checkUser", "insertUser"} => req[w].key \in Users
  /\ at[w] \in {"selectBind", "insertBind"} => req[w].key \in Binds
  /\ at[w] \in {"check", "regist", "login"} => req[w].key \in Devices
  /\ at[w] \in {"update", "insert"} => req[w].key \in Tokens /\ req[w].op = "set"
  /\ at[w] \in {"checkUser", "insertUser", "selectBind", "insertBind",
                "check", "regist", "login"} => req[w].op = "add"
  /\ at[w] = "answering" /\ req[w].key \in Devices => req[w].op = "add"
TypeInv ==
  /\ TypeOK
  /\ \A w \in Workers : RequestOf(w)
  /\ DOMAIN told = Keys

(* Two requests about the same key: if statements of both are to come, the *)
(* key overlaps; if they do not agree, it is contended.                    *)
Busy(w) == at[w] \notin {"idle", "answering"}
TakeTurns ==
  \A w, x \in Workers :
    w # x /\ at[w] # "idle" /\ at[x] # "idle" /\ req[w].key = req[x].key
    => /\ Busy(w) /\ Busy(x) => req[w].key \in overlapped
       /\ req[w].key \in contended \/ Agree(req[w], req[x])

(* What the look-up of a worker saw still holds: a key it goes on to       *)
(* insert is not there, the rows of a token it found unchanged have its    *)
(* user, and a device it logs in is there.                                 *)
WorkerOK(w) ==
  LET k == req[w].key IN
  /\ at[w] \in {"insertUser", "insertBind", "regist", "insert"}
       /\ ~unique /\ k \notin overlapped \cup doubted
     => tables[k] = <<>>
  /\ at[w] = "insert" /\ ~unique /\ k \notin overlapped => Rows(k) \subseteq {req[w].val}
  /\ at[w] = "login" => tables[k] # <<>>

(* A key whose answers are promised to be true, and an answer that is yet  *)
(* to be sent.                                                             *)
Promised(k) == k \notin contended /\ (Safe(k) \/ k \in Binds)
Pending(k) == \E w \in Workers : at[w] = "answering" /\ req[w].key = k

PendingOK(w) ==
  at[w] = "answering" /\ Promised(req[w].key) => Rows(req[w].key) = Answer(req[w])

(* The rows of a key, what the clients know of it, and the user of a       *)
(* token.                                                                  *)
KeyOK(k) ==
  /\ Safe(k) => Len(tables[k]) <= 1
  /\ told[k] # None /\ Promised(k) /\ ~Pending(k) => Rows(k) = told[k]
  /\ k \in Devices => told[k] \in {None, {None}}
  /\ k \in Tokens /\ (unique \/ k \notin overlapped) => \A u, v \in Rows(k) : u = v

Inv ==
  /\ TakeTurns
  /\ \A w \in Workers : WorkerOK(w) /\ PendingOK(w)
  /\ \A k \in Keys : KeyOK(k)
-----------------------------------------------------------------------------
(* The rows of a key after a statement that writes.                        *)
Overwritten(s, v) == [n \in DOMAIN s |-> v]

LEMMA RowsAre ==
  ASSUME NEW S, NEW s \in Seq(S), NEW v \in S
  PROVE  /\ Append(s, v) \in Seq(S) /\ Len(Append(s, v)) = Len(s) + 1
         /\ ToSet(Append(s, v)) = ToSet(s) \cup {v}
         /\ Overwritten(s, v) \in Seq(S) /\ Len(Overwritten(s, v)) = Len(s)
         /\ ToSet(s) # {} => ToSet(Overwritten(s, v)) = {v}
         /\ ToSet(Overwritten(s, v)) \subseteq {v}
         /\ s = <<>> <=> ToSet(s) = {}
         /\ s = <<>> <=> Len(s) = 0
<1>1. Append(s, v) \in Seq(S) /\ Len(Append(s, v)) = Len(s) + 1
  OBVIOUS
<1>2. ToSet(Append(s, v)) = ToSet(s) \cup {v}
  BY DEF ToSet
<1>3. Overwritten(s, v) \in Seq(S) /\ Len(Overwritten(s, v)) = Len(s)
  BY DEF Overwritten
<1>4. ToSet(Overwritten(s, v)) \subseteq {v}
  BY DEF ToSet, Overwritten
<1>5. ToSet(s) # {} => ToSet(Overwritten(s, v)) = {v}
  BY DEF ToSet, Overwritten
<1>6. (s = <<>> <=> ToSet(s) = {}) /\ (s = <<>> <=> Len(s) = 0)
  <2>1. s = <<>> <=> Len(s) = 0
    OBVIOUS
  <2>2. Len(s) # 0 => s[1] \in ToSet(s)
    BY DEF ToSet
  <2>3. Len(s) = 0 => ToSet(s) = {}
    BY DEF ToSet
  <2> QED
    BY <2>1, <2>2, <2>3
<1> QED
  BY <1>1, <1>2, <1>3, <1>4, <1>5, <1>6

TablesOf(t) == DOMAIN t = Keys /\ \A k \in Keys : t[k] \in Seq(Columns(k))

LEMMA Written ==
  ASSUME TypeOK, NEW r, r.key \in Keys, r.val \in Columns(r.key)
  PROVE  /\ TablesOf(Insert(r)) /\ TablesOf(Update(r)) /\ TablesOf(Delete(r.key))
         /\ \A j \in Keys \ {r.key} : /\ Insert(r)[j] = tables[j]
                                      /\ Update(r)[j] = tables[j]
                                      /\ Delete(r.key)[j] = tables[j]
         /\ ToSet(Insert(r)[r.key]) = Rows(r.key) \cup {r.val}
         /\ Len(Insert(r)[r.key]) = Len(tables[r.key]) + 1
         /\ ToSet(Update(r)[r.key]) \subseteq {r.val}
         /\ Rows(r.key) # {} => ToSet(Update(r)[r.key]) = {r.val}
         /\ Len(Update(r)[r.key]) = Len(tables[r.key])
         /\ Delete(r.key)[r.key] = <<>>
<1> DEFINE s == tables[r.key]
<1>1. DOMAIN tables = Keys /\ s \in Seq(Columns(r.key))
  BY DEF TypeOK
<1>2. Insert(r)[r.key] = Append(s, r.val)
  BY <1>1 DEF Insert
<1>3. Update(r)[r.key] = Overwritten(s, r.val)
  BY <1>1 DEF Update, Overwritten
<1>4. Delete(r.key)[r.key] = <<>>
  BY <1>1 DEF Delete
<1>5. \A j \in Keys \ {r.key} : /\ Insert(r)[j] = tables[j]
                                /\ Update(r)[j] = tables[j]
                                /\ Delete(r.key)[j] = tables[j]
  BY <1>1 DEF Insert, Update, Delete
<1>6. DOMAIN Insert(r) = Keys /\ DOMAIN Update(r) = Keys /\ DOMAIN Delete(r.key) = Keys
  BY <1>1 DEF Insert, Update, Delete
<1> HIDE DEF Keys, Columns
<1>7. /\ Append(s, r.val) \in Seq(Columns(r.key)) /\ Len(Append(s, r.val)) = Len(s) + 1
      /\ ToSet(Append(s, r.val)) = ToSet(s) \cup {r.val}
      /\ Overwritten(s, r.val) \in Seq(Columns(r.key))
      /\ Len(Overwritten(s, r.val)) = Len(s)
      /\ ToSet(s) # {} => ToSet(Overwritten(s, r.val)) = {r.val}
      /\ ToSet(Overwritten(s, r.val)) \subseteq {r.val}
  <2> DEFINE C == Columns(r.key)
             v == r.val
  <2>1. s \in Seq(C) /\ v \in C
    BY <1>1
  <2> HIDE DEF C, v, s
  <2>2. Append(s, v) \in Seq(C) /\ Len(Append(s, v)) = Len(s) + 1
    BY <2>1, RowsAre
  <2>3. ToSet(Append(s, v)) = ToSet(s) \cup {v}
    BY <2>1, RowsAre
  <2>4. Overwritten(s, v) \in Seq(C) /\ Len(Overwritten(s, v)) = Len(s)
    BY <2>1, RowsAre
  <2>5. ToSet(s) # {} => ToSet(Overwritten(s, v)) = {v}
    BY <2>1, RowsAre
  <2>6. ToSet(Overwritten(s, v)) \subseteq {v}
    BY <2>1, RowsAre
  <2> QED
    BY <2>2, <2>3, <2>4, <2>5, <2>6 DEF C, v
<1>8. <<>> \in Seq(Columns(r.key))
  OBVIOUS
<1>9. TablesOf(Insert(r)) /\ TablesOf(Update(r)) /\ TablesOf(Delete(r.key))
  <2>1. \A j \in Keys \ {r.key} : tables[j] \in Seq(Columns(j))
    BY DEF TypeOK
  <2>2. \A t : /\ DOMAIN t = Keys /\ t[r.key] \in Seq(Columns(r.key))
               /\ \A j \in Keys \ {r.key} : t[j] = tables[j]
               => TablesOf(t)
    BY <2>1 DEF TablesOf
  <2> QED
    BY <2>2, <1>2, <1>3, <1>4, <1>5, <1>6, <1>7, <1>8
<1> QED
  BY <1>2, <1>3, <1>4, <1>5, <1>7, <1>9 DEF Rows

-----------------------------------------------------------------------------
(* A step of worker w is about request r: it leaves the rows of the other  *)
(* keys alone, and what clients know of them; if another worker's request  *)
(* is about the same key, the two agree or the key is contended, and if    *)
(* both have statements to come, the key overlaps.                         *)
About(w, r) ==
  /\ unique' = unique
  /\ overlapped \subseteq overlapped' /\ overlapped' \subseteq overlapped \cup {r.key}
  /\ contended \subseteq contended' /\ contended' \subseteq contended \cup {r.key}
  /\ doubted \subseteq doubted' /\ doubted' \subseteq doubted \cup {r.key}
  /\ TablesOf(tables') /\ DOMAIN told' = Keys
  /\ \A j \in Keys \ {r.key} : tables'[j] = tables[j] /\ told'[j] = told[j]
  /\ at[w] # "idle" => req[w] = r
  /\ at'[w] # "idle" => req'[w] = r
  /\ \A x \in Workers \ {w} :
       /\ at'[x] = at[x] /\ req'[x] = req[x]
       /\ at[x] # "idle" /\ req[x].key = r.key =>
            /\ r.key \in contended' \/ Agree(r, req[x])
            /\ Busy(x) /\ (Busy(w)' \/ tables'[r.key] # tables[r.key]) => r.key \in overlapped'

Steps == {"checkUser", "insertUser", "selectBind", "insertBind",
          "check", "regist", "login", "update", "insert"}
Places == Steps \cup {"idle", "answering"}

LEMMA ContinueIs ==
  ASSUME TypeInv, NEW w \in Workers, NEW from \in Steps, NEW to \in Places,
         Continue(w, from, to)
  PROVE  /\ at[w] = from /\ at'[w] = to
         /\ \A x \in Workers \ {w} : at'[x] = at[x] /\ req'[x] = req[x]
         /\ req'[w] = IF to = "idle" THEN NoChange ELSE req[w]
         /\ at' \in [Workers -> Places]
         /\ req' \in [Workers -> Change \cup {NoChange}]
         /\ req[w].key \in Keys /\ req[w].val \in Columns(req[w].key) /\ req[w] # NoChange
         /\ UNCHANGED <<unique, requests, told, overlapped, contended>>
  BY DEF Continue, TypeInv, TypeOK, RequestOf, Steps, Places

LEMMA StatementIs ==
  ASSUME TypeInv, TakeTurns, NEW w \in Workers, Statement(w)
  PROVE  About(w, req[w])
<1> DEFINE k == req[w].key
<1>1. PICK from \in Steps, to \in Places : Continue(w, from, to)
  BY DEF Statement, Steps, Places, checkUser, insertUser, selectBind, insertBind, check, regist,
         login, update, insert
<1>2. /\ at[w] \in Steps
      /\ \A x \in Workers \ {w} : at'[x] = at[x] /\ req'[x] = req[x]
      /\ at'[w] # "idle" => req'[w] = req[w]
      /\ k \in Keys /\ req[w].val \in Columns(k)
      /\ UNCHANGED <<unique, requests, told, overlapped, contended>>
  BY <1>1, ContinueIs
<1>3. \/ tables' = tables
      \/ tables' = Insert(req[w])
      \/ tables' = Update(req[w])
  BY DEF Statement, checkUser, insertUser, selectBind, insertBind, check, regist, login,
         update, insert, Inserts
<1>4. doubted \subseteq doubted' /\ doubted' \subseteq doubted \cup {k}
  BY DEF Statement, checkUser, insertUser, selectBind, insertBind, check, regist, login,
         update, insert
<1>5. TablesOf(tables') /\ \A j \in Keys \ {k} : tables'[j] = tables[j]
  <2>1. TypeOK /\ TablesOf(tables)
    BY DEF TypeInv, TypeOK, TablesOf
  <2>2. /\ TablesOf(Insert(req[w])) /\ TablesOf(Update(req[w]))
        /\ \A j \in Keys \ {k} : /\ Insert(req[w])[j] = tables[j]
                               /\ Update(req[w])[j] = tables[j]
    BY <1>2, <2>1, Written
  <2> QED
    BY <1>3, <2>1, <2>2
<1>6. DOMAIN told' = Keys
  BY <1>2 DEF TypeInv
<1>7. at[w] \notin {"idle", "answering"}
  BY <1>2 DEF Steps
<1>8. ASSUME NEW x \in Workers \ {w}, at[x] # "idle", req[x].key = k
      PROVE  /\ k \in contended \/ Agree(req[w], req[x])
             /\ Busy(x) => k \in overlapped
  BY <1>7, <1>8 DEF TakeTurns, Busy
<1> QED
  BY <1>2, <1>4, <1>5, <1>6, <1>8 DEF About

LEMMA ResponseIs ==
  ASSUME TypeInv, TakeTurns, NEW w \in Workers, sendResponse(w)
  PROVE  /\ About(w, req[w]) /\ at[w] = "answering" /\ at'[w] = "idle" /\ req'[w] = NoChange
         /\ req[w].key \in Keys /\ req[w].val \in Columns(req[w].key)
         /\ at' \in [Workers -> Places] /\ req' \in [Workers -> Change \cup {NoChange}]
         /\ told'[req[w].key] = Answer(req[w]) /\ tables' = tables
         /\ UNCHANGED <<unique, overlapped, contended, doubted>>
<1>1. at[w] = "answering" /\ tables' = tables /\ UNCHANGED <<unique, overlapped, contended, doubted>>
  BY DEF sendResponse
<1>2. /\ at' = [at EXCEPT ![w] = "idle"] /\ req' = [req EXCEPT ![w] = NoChange]
      /\ told' = [told EXCEPT ![req[w].key] = Answer(req[w])]
  BY DEF sendResponse
<1>3. /\ at \in [Workers -> Places] /\ req \in [Workers -> Change \cup {NoChange}]
      /\ TablesOf(tables) /\ DOMAIN told = Keys
  BY DEF TypeInv, TypeOK, TablesOf, Steps, Places
<1>4. req[w].key \in Keys /\ req[w].val \in Columns(req[w].key)
  BY <1>1 DEF TypeInv, RequestOf
<1>5. /\ at' \in [Workers -> Places] /\ req' \in [Workers -> Change \cup {NoChange}]
      /\ at'[w] = "idle" /\ req'[w] = NoChange
      /\ \A x \in Workers \ {w} : at'[x] = at[x] /\ req'[x] = req[x]
  BY <1>2, <1>3 DEF Places
<1>6. /\ DOMAIN told' = Keys /\ told'[req[w].key] = Answer(req[w])
      /\ \A j \in Keys \ {req[w].key} : told'[j] = told[j]
  BY <1>2, <1>3, <1>4
<1>7. ASSUME NEW x \in Workers \ {w}, at[x] # "idle", req[x].key = req[w].key
      PROVE  req[w].key \in contended \/ Agree(req[w], req[x])
  BY <1>1, <1>7 DEF TakeTurns
<1>8. ~Busy(w)'
  BY <1>5 DEF Busy
<1> QED
  BY <1>1, <1>3, <1>4, <1>5, <1>6, <1>7, <1>8 DEF About

LEMMA RequestIs ==
  ASSUME TypeInv, NEW w \in Workers, NEW r, r.key \in Keys, Request(w, r),
         TablesOf(tables'), \A j \in Keys \ {r.key} : tables'[j] = tables[j],
         \A x \in Workers \ {w} : at'[x] = at[x] /\ req'[x] = req[x],
         at'[w] # "idle" => req'[w] = r
  PROVE  About(w, r) /\ at[w] = "idle" /\ UNCHANGED <<told, doubted>>
<1>1. at[w] = "idle" /\ UNCHANGED <<unique, told, doubted>>
  BY DEF Request
<1>2. /\ overlapped \subseteq overlapped' /\ overlapped' \subseteq overlapped \cup {r.key}
      /\ contended \subseteq contended' /\ contended' \subseteq contended \cup {r.key}
  BY DEF Request
<1>3. ASSUME NEW x \in Workers \ {w}, req[x].key = r.key
      PROVE  /\ at[x] # "answering" => r.key \in overlapped'
             /\ r.key \in contended' \/ Agree(r, req[x])
  BY <1>3 DEF Request
<1>4. DOMAIN told' = Keys
  BY <1>1 DEF TypeInv
<1> QED
  BY <1>1, <1>2, <1>3, <1>4 DEF About, Busy

LEMMA BeginIs ==
  ASSUME TypeInv, NEW w \in Workers, NEW r \in Change, r.val \in Columns(r.key),
         NEW step \in Steps \cup {"answering"}, Begin(w, r, step),
         tables' \in {tables, Update(r), Delete(r.key)}
  PROVE  /\ About(w, r) /\ UNCHANGED <<told, doubted>>
         /\ at[w] = "idle" /\ at'[w] = step /\ req'[w] = r
         /\ at' \in [Workers -> Places] /\ req' \in [Workers -> Change \cup {NoChange}]
<1>1. Request(w, r) /\ r.key \in Keys
  BY DEF Begin, Change
<1>2. at' = [at EXCEPT ![w] = step] /\ req' = [req EXCEPT ![w] = r]
  BY DEF Begin
<1>3. /\ at \in [Workers -> Places] /\ req \in [Workers -> Change \cup {NoChange}]
      /\ TypeOK /\ TablesOf(tables)
  BY DEF TypeInv, TypeOK, TablesOf, Steps, Places
<1>4. /\ at' \in [Workers -> Places] /\ req' \in [Workers -> Change \cup {NoChange}]
      /\ at'[w] = step /\ req'[w] = r
      /\ \A x \in Workers \ {w} : at'[x] = at[x] /\ req'[x] = req[x]
  BY <1>2, <1>3 DEF Places
<1>5. TablesOf(tables') /\ \A j \in Keys \ {r.key} : tables'[j] = tables[j]
  <2>1. /\ TablesOf(Update(r)) /\ TablesOf(Delete(r.key))
        /\ \A j \in Keys \ {r.key} : Update(r)[j] = tables[j] /\ Delete(r.key)[j] = tables[j]
    BY <1>1, <1>3, Written
  <2> QED
    BY <1>3, <2>1
<1>6. About(w, r) /\ at[w] = "idle" /\ UNCHANGED <<told, doubted>>
  BY <1>1, <1>4, <1>5, RequestIs
<1> QED
  BY <1>4, <1>6

LEMMA RefusedIs ==
  ASSUME TypeInv, NEW w \in Workers, NEW r \in Change, Refused(w, r)
  PROVE  About(w, r) /\ at[w] = "idle" /\ UNCHANGED <<tables, at, req, told, doubted>>
<1>1. Request(w, r) /\ r.key \in Keys /\ UNCHANGED <<tables, at, req>>
  BY DEF Refused, Change
<1>2. TablesOf(tables') /\ at'[w] = "idle"
  BY <1>1 DEF TypeInv, TypeOK, TablesOf, Request
<1> QED
  BY <1>1, <1>2, RequestIs

(* The requests a packet makes.                                            *)
LEMMA RequestsTyped ==
  /\ \A u \in Users, p \in Passwords, o \in {"add", "set"} :
       [op |-> o, key |-> u, val |-> p] \in Change /\ p \in Columns(u)
  /\ \A b \in Binds, o \in {"add", "drop"} :
       [op |-> o, key |-> b, val |-> None] \in Change /\ None \in Columns(b)
  /\ \A d \in Devices : [op |-> "add", key |-> d, val |-> None] \in Change /\ None \in Columns(d)
  /\ \A u \in Users, t \in Tokens, o \in {"set", "drop"} :
       [op |-> o, key |-> t, val |-> u] \in Change /\ u \in Columns(t)
  BY DEF Change

(* What a packet about request r does: its handler goes on with a          *)
(* statement, it is refused, or its one statement is done.                 *)
Starts(w, r) ==
  /\ tables' = tables /\ req'[w] = r
  /\ \/ at'[w] = "checkUser" /\ r.key \in Users /\ r.op = "add"
     \/ at'[w] = "selectBind" /\ r.key \in Binds /\ r.op = "add"
     \/ at'[w] = "check" /\ r.key \in Devices /\ r.op = "add"
     \/ at'[w] = "update" /\ r.key \in Tokens /\ r.op = "set"
Drops(w, r) ==
  /\ tables' = Delete(r.key) /\ req'[w] = r /\ at'[w] = "answering"
  /\ r.key \notin Devices /\ r.op = "drop"
Sets(w, r) ==
  /\ tables' = Update(r) /\ req'[w] = r /\ at'[w] = "answering"
  /\ r.key \in Users /\ r.op = "set" /\ Rows(r.key) # {}

PacketAbout(w, r) ==
  /\ About(w, r) /\ r.val \in Columns(r.key) /\ at[w] = "idle" /\ UNCHANGED <<told, doubted>>
  /\ at' \in [Workers -> Places] /\ req' \in [Workers -> Change \cup {NoChange}]
  /\ \/ Starts(w, r)
     \/ UNCHANGED <<tables, at, req>>
     \/ Drops(w, r)
     \/ Sets(w, r)

LEMMA PacketIs ==
  ASSUME TypeInv, NEW w \in Workers, Packet(w)
  PROVE  \E r \in Change : PacketAbout(w, r)
<1>1. ASSUME NEW r \in Change, r.val \in Columns(r.key), NEW step, Begin(w, r, step),
             tables' = tables,
             \/ step = "checkUser" /\ r.key \in Users /\ r.op = "add"
             \/ step = "selectBind" /\ r.key \in Binds /\ r.op = "add"
             \/ step = "check" /\ r.key \in Devices /\ r.op = "add"
             \/ step = "update" /\ r.key \in Tokens /\ r.op = "set"
      PROVE  PacketAbout(w, r)
  <2>1. step \in Steps \cup {"answering"}
    BY <1>1 DEF Steps
  <2>2. /\ About(w, r) /\ UNCHANGED <<told, doubted>>
        /\ at[w] = "idle" /\ at'[w] = step /\ req'[w] = r
        /\ at' \in [Workers -> Places] /\ req' \in [Workers -> Change \cup {NoChange}]
    BY <1>1, <2>1, BeginIs
  <2> QED
    BY <1>1, <2>2 DEF PacketAbout, Starts
<1>2. ASSUME NEW r \in Change, r.val \in Columns(r.key), Refused(w, r)
      PROVE  PacketAbout(w, r)
  <2>1. at \in [Workers -> Places] /\ req \in [Workers -> Change \cup {NoChange}]
    BY DEF TypeInv, TypeOK, Steps, Places
  <2> QED
    BY <1>2, <2>1, RefusedIs DEF PacketAbout
<1>3. ASSUME NEW r \in Change, r.val \in Columns(r.key), Begin(w, r, "answering"),
             tables' = Delete(r.key), r.key \notin Devices, r.op = "drop"
      PROVE  PacketAbout(w, r)
  BY <1>3, BeginIs DEF PacketAbout, Drops
<1>4. ASSUME NEW r \in Change, r.val \in Columns(r.key), Begin(w, r, "answering"),
             tables' = Update(r), r.key \in Users, r.op = "set", Rows(r.key) # {}
      PROVE  PacketAbout(w, r)
  BY <1>4, BeginIs DEF PacketAbout, Sets
<1>5. ASSUME NEW u \in Users, NEW p \in Passwords,
             handleUserRegist(w, u, p) \/ handleUserModifyPassword(w, u, p)
      PROVE  \E r \in Change : PacketAbout(w, r)
  <2>1. CASE handleUserRegist(w, u, p)
    <3>1. PICK r \in Change : r = [op |-> "add", key |-> u, val |-> p]
      BY RequestsTyped
    <3>2. r.key = u /\ r.val = p /\ r.op = "add" /\ r.val \in Columns(r.key)
      BY <3>1, RequestsTyped
    <3>3. Begin(w, r, "checkUser") /\ tables' = tables
      BY <2>1, <3>1 DEF handleUserRegist
    <3> QED
      BY <1>1, <3>2, <3>3
  <2>2. CASE handleUserModifyPassword(w, u, p)
    <3>1. PICK r \in Change : r = [op |-> "set", key |-> u, val |-> p]
      BY RequestsTyped
    <3>2. r.key = u /\ r.val = p /\ r.op = "set" /\ r.val \in Columns(r.key)
      BY <3>1, RequestsTyped
    <3>3. /\ Rows(u) # {}
          /\ \/ Begin(w, r, "answering") /\ tables' = Update(r)
             \/ Refused(w, r)
      BY <2>2, <3>1 DEF handleUserModifyPassword
    <3> QED
      BY <1>2, <1>4, <3>2, <3>3
  <2> QED
    BY <1>5, <2>1, <2>2
<1>6. ASSUME NEW b \in Binds, addBind(w, b) \/ delBind(w, b)
      PROVE  \E r \in Change : PacketAbout(w, r)
  <2>1. CASE addBind(w, b)
    <3>1. PICK r \in Change : r = [op |-> "add", key |-> b, val |-> None]
      BY RequestsTyped
    <3>2. r.key = b /\ r.val = None /\ r.op = "add" /\ r.val \in Columns(r.key)
      BY <3>1, RequestsTyped
    <3>3. Begin(w, r, "selectBind") /\ tables' = tables
      BY <2>1, <3>1 DEF addBind
    <3> QED
      BY <1>1, <3>2, <3>3
  <2>2. CASE delBind(w, b)
    <3>1. PICK r \in Change : r = [op |-> "drop", key |-> b, val |-> None]
      BY RequestsTyped
    <3>2. r.key = b /\ r.val = None /\ r.op = "drop" /\ r.val \in Columns(r.key)
      BY <3>1, RequestsTyped
    <3>3. \/ Begin(w, r, "answering") /\ tables' = Delete(b)
          \/ Refused(w, r)
      BY <2>2, <3>1 DEF delBind
    <3>4. r.key \notin Devices
      BY <3>2
    <3> QED
      BY <1>2, <1>3, <3>2, <3>3, <3>4
  <2> QED
    BY <1>6, <2>1, <2>2
<1>7. ASSUME NEW d \in Devices, handleDeviceLogin(w, d)
      PROVE  \E r \in Change : PacketAbout(w, r)
  <2>1. PICK r \in Change : r = [op |-> "add", key |-> d, val |-> None]
    BY RequestsTyped
  <2>2. r.key = d /\ r.val = None /\ r.op = "add" /\ r.val \in Columns(r.key)
    BY <2>1, RequestsTyped
  <2>3. Begin(w, r, "check") /\ tables' = tables
    BY <1>7, <2>1 DEF handleDeviceLogin
  <2> QED
    BY <1>1, <2>2, <2>3
<1>8. ASSUME NEW u \in Users, NEW t \in Tokens, handleUserLogin(w, u, t) \/ handleUserQuit(w, u, t)
      PROVE  \E r \in Change : PacketAbout(w, r)
  <2>1. CASE handleUserLogin(w, u, t)
    <3>1. PICK r \in Change : r = [op |-> "set", key |-> t, val |-> u]
      BY RequestsTyped
    <3>2. r.key = t /\ r.val = u /\ r.op = "set" /\ r.val \in Columns(r.key)
      BY <3>1, RequestsTyped
    <3>3. Begin(w, r, "update") /\ tables' = tables
      BY <2>1, <3>1 DEF handleUserLogin
    <3> QED
      BY <1>1, <3>2, <3>3
  <2>2. CASE handleUserQuit(w, u, t)
    <3>1. PICK r \in Change : r = [op |-> "drop", key |-> t, val |-> u]
      BY RequestsTyped
    <3>2. r.key = t /\ r.val = u /\ r.op = "drop" /\ r.val \in Columns(r.key)
      BY <3>1, RequestsTyped
    <3>3. \/ Begin(w, r, "answering") /\ tables' = Delete(t)
          \/ Refused(w, r)
      BY <2>2, <3>1 DEF handleUserQuit
    <3>4. r.key \notin Devices
      BY <3>2
    <3> QED
      BY <1>2, <1>3, <3>2, <3>3, <3>4
  <2> QED
    BY <1>8, <2>1, <2>2
<1> HIDE DEF Keys, Columns
<1> QED
  BY <1>5, <1>6, <1>7, <1>8 DEF Packet
-----------------------------------------------------------------------------
LEMMA TypeInit == Init => TypeInv
<1> SUFFICES ASSUME Init PROVE TypeInv
  OBVIOUS
<1>1. DOMAIN tables = Keys /\ DOMAIN told = Keys
  BY DEF Init
<1>2. ASSUME NEW k \in Keys PROVE tables[k] \in Seq(Columns(k))
  <2>1. tables[k] = <<>> \/ \E v : tables[k] = <<v>>
    BY DEF Init
  <2>2. ASSUME NEW v, tables[k] = <<v>> PROVE v \in Columns(k)
    <3>1. v \in ToSet(tables[k])
      BY <2>2 DEF ToSet
    <3> QED
      BY <3>1 DEF Init
  <2> HIDE DEF Columns
  <2>3. <<>> \in Seq(Columns(k)) /\ \A v \in Columns(k) : <<v>> \in Seq(Columns(k))
    OBVIOUS
  <2> QED
    BY <2>1, <2>2, <2>3
<1>3. /\ unique \in BOOLEAN
      /\ at = [w \in Workers |-> "idle"] /\ req = [w \in Workers |-> NoChange]
      /\ overlapped = {} /\ contended = {} /\ doubted = {}
  BY DEF Init
<1> QED
  BY <1>1, <1>2, <1>3 DEF TypeInv, TypeOK, RequestOf

LEMMA StatementTyped ==
  ASSUME TypeInv, NEW w \in Workers, Statement(w)
  PROVE  /\ at' \in [Workers -> Places] /\ req' \in [Workers -> Change \cup {NoChange}]
         /\ at'[w] = "idle" <=> req'[w] = NoChange
         /\ RequestOf(w)'
         /\ req[w].key \in Keys /\ req[w].val \in Columns(req[w].key) /\ at[w] \in Steps
<1>1. PICK from \in Steps, to \in Places :
        /\ Continue(w, from, to)
        /\ \/ to = "idle"
           \/ from = "checkUser" /\ to = "insertUser"
           \/ from = "selectBind" /\ to = "insertBind"
           \/ from = "check" /\ to \in {"regist", "login"}
           \/ from = "regist" /\ to = "login"
           \/ from = "update" /\ to = "insert"
           \/ from \in Steps /\ to = "answering"
  BY DEF Statement, Steps, Places, checkUser, insertUser, selectBind, insertBind, check, regist,
         login, update, insert
<1>2. /\ at[w] = from /\ at'[w] = to
      /\ req'[w] = IF to = "idle" THEN NoChange ELSE req[w]
      /\ at' \in [Workers -> Places] /\ req' \in [Workers -> Change \cup {NoChange}]
      /\ req[w].key \in Keys /\ req[w].val \in Columns(req[w].key) /\ req[w] # NoChange
  BY <1>1, ContinueIs
<1>3. RequestOf(w)
  BY DEF TypeInv
<1> HIDE DEF Keys, Columns
<1>4. RequestOf(w)'
  <2>1. CASE to = "idle"
    BY <1>2, <2>1 DEF RequestOf
  <2>2. CASE to = "answering"
    <3>1. req[w].key \in Devices => from \in {"check", "regist", "login"}
      BY <1>1, <1>2, <1>3, KeysDisjoint DEF RequestOf, Steps
    <3> QED
      BY <1>2, <1>3, <2>2, <3>1 DEF RequestOf
  <2>3. CASE to \notin {"idle", "answering"}
    BY <1>1, <1>2, <1>3, <2>3 DEF RequestOf
  <2> QED
    BY <2>1, <2>2, <2>3
<1> QED
  BY <1>1, <1>2, <1>4

LEMMA TypeStep == TypeInv /\ TakeTurns /\ [Next]_vars => TypeInv'
<1> SUFFICES ASSUME TypeInv, TakeTurns, [Next]_vars PROVE TypeInv'
  OBVIOUS
<1>1. ASSUME NEW w \in Workers, NEW r, r.key \in Keys, About(w, r),
             at' \in [Workers -> Places], req' \in [Workers -> Change \cup {NoChange}],
             at'[w] = "idle" <=> req'[w] = NoChange,
             RequestOf(w)'
      PROVE  TypeInv'
  <2>1. /\ unique' \in BOOLEAN /\ overlapped' \subseteq Keys /\ contended' \subseteq Keys
        /\ doubted' \subseteq Keys
        /\ DOMAIN tables' = Keys /\ (\A j \in Keys : tables'[j] \in Seq(Columns(j)))
        /\ DOMAIN told' = Keys
    BY <1>1 DEF About, TypeInv, TypeOK, TablesOf
  <2>2. \A x \in Workers : (at'[x] = "idle" <=> req'[x] = NoChange) /\ RequestOf(x)'
    BY <1>1 DEF About, TypeInv, TypeOK, RequestOf
  <2> QED
    BY <1>1, <2>1, <2>2 DEF TypeInv, TypeOK, Steps, Places
<1>2. ASSUME NEW w \in Workers, Statement(w) PROVE TypeInv'
  BY <1>1, <1>2, StatementIs, StatementTyped
<1>3. ASSUME NEW w \in Workers, Packet(w) PROVE TypeInv'
  <2>1. PICK r \in Change : PacketAbout(w, r)
    BY <1>3, PacketIs
  <2>2. /\ About(w, r) /\ r.key \in Keys /\ r.val \in Columns(r.key)
        /\ at' \in [Workers -> Places] /\ req' \in [Workers -> Change \cup {NoChange}]
    BY <2>1 DEF PacketAbout, Change
  <2>3. (at'[w] = "idle" <=> req'[w] = NoChange) /\ RequestOf(w)'
    <3>1. r # NoChange
      BY <2>2 DEF NoChange
    <3>2. CASE Starts(w, r)
      BY <2>2, <3>1, <3>2 DEF Starts, RequestOf
    <3>3. CASE UNCHANGED <<tables, at, req>>
      BY <3>3 DEF TypeInv, TypeOK, RequestOf
    <3>4. CASE Drops(w, r) \/ Sets(w, r)
      BY <2>2, <3>1, <3>4 DEF Drops, Sets, RequestOf
    <3> QED
      BY <2>1, <3>2, <3>3, <3>4 DEF PacketAbout
  <2> QED
    BY <1>1, <2>2, <2>3
<1>4. ASSUME NEW w \in Workers, sendResponse(w) PROVE TypeInv'
  <2>1. /\ About(w, req[w]) /\ req[w].key \in Keys /\ at'[w] = "idle" /\ req'[w] = NoChange
        /\ at' \in [Workers -> Places] /\ req' \in [Workers -> Change \cup {NoChange}]
    BY <1>4, ResponseIs
  <2>2. RequestOf(w)'
    BY <2>1 DEF RequestOf
  <2> QED
    BY <1>1, <2>1, <2>2
<1>5. CASE UNCHANGED vars
  BY <1>5 DEF vars, history, TypeInv, TypeOK, RequestOf
<1> QED
  BY <1>2, <1>3, <1>4, <1>5 DEF Next

LEMMA TakeTurnsStep == TypeInv /\ TypeInv' /\ TakeTurns /\ [Next]_vars => TakeTurns'
<1> SUFFICES ASSUME TypeInv, TypeInv', TakeTurns, [Next]_vars PROVE TakeTurns'
  OBVIOUS
<1>1. ASSUME NEW w \in Workers, NEW r, About(w, r) PROVE TakeTurns'
  <2> SUFFICES ASSUME NEW x \in Workers, NEW y \in Workers, x # y, at'[x] # "idle", at'[y] # "idle",
                      req'[x].key = req'[y].key
               PROVE  /\ Busy(x)' /\ Busy(y)' => req'[x].key \in overlapped'
                      /\ req'[x].key \in contended' \/ Agree(req'[x], req'[y])
    BY DEF TakeTurns
  <2>1. CASE x # w /\ y # w
    BY <1>1, <2>1 DEF About, TakeTurns, Busy
  <2>2. ASSUME NEW z \in Workers \ {w}, at'[z] # "idle", at'[w] # "idle", req'[w].key = req'[z].key
        PROVE  /\ Busy(w)' /\ Busy(z)' => r.key \in overlapped'
               /\ r.key \in contended' \/ Agree(r, req'[z])
               /\ req'[w] = r
    BY <1>1, <2>2 DEF About, Busy
  <2>3. CASE x = w
    BY <2>2, <2>3
  <2>4. CASE y = w
    BY <2>2, <2>4 DEF Agree
  <2> QED
    BY <2>1, <2>3, <2>4
<1>2. CASE UNCHANGED vars
  BY <1>2 DEF vars, history, TakeTurns, Busy
<1>3. ASSUME NEW w \in Workers, Packet(w) PROVE TakeTurns'
  BY <1>1, <1>3, PacketIs DEF PacketAbout
<1> QED
  BY <1>1, <1>2, <1>3, StatementIs, ResponseIs DEF Next
-----------------------------------------------------------------------------
(* What the rows of a key are.                                             *)
LEMMA RowsTyped ==
  ASSUME TypeInv, NEW k \in Keys
  PROVE  /\ Rows(k) \subseteq Columns(k)
         /\ Rows(k) = {} <=> tables[k] = <<>>
         /\ Len(tables[k]) \in Nat
         /\ Rows(k) = {} <=> Len(tables[k]) = 0
<1> HIDE DEF Columns, Keys
<1>1. tables[k] \in Seq(Columns(k))
  BY DEF TypeInv, TypeOK
<1> DEFINE s == tables[k]
           C == Columns(k)
<1> HIDE DEF s, C
<1>2. s \in Seq(C)
  BY <1>1 DEF s, C
<1>3. ToSet(s) \subseteq C /\ Len(s) \in Nat
  BY <1>2 DEF ToSet
<1>4. s = <<>> <=> Len(s) = 0
  BY <1>2
<1>5. Len(s) # 0 => s[1] \in ToSet(s)
  BY <1>2 DEF ToSet
<1>6. Len(s) = 0 => ToSet(s) = {}
  BY <1>2 DEF ToSet
<1> QED
  BY <1>3, <1>4, <1>5, <1>6 DEF s, C, Rows

LEMMA InvInit == Init => Inv
<1> SUFFICES ASSUME Init PROVE Inv
  OBVIOUS
<1>1. ASSUME NEW k \in Keys PROVE KeyOK(k)
  <2>1. tables[k] = <<>> \/ \E v : tables[k] = <<v>>
    BY DEF Init
  <2>2. told[k] = None
    BY DEF Init
  <2>3. Len(tables[k]) <= 1 /\ \A u, v \in Rows(k) : u = v
    <3>1. CASE tables[k] = <<>>
      <4>1. Len(tables[k]) = 0 /\ DOMAIN tables[k] = {}
        BY <3>1
      <4> QED
        BY <4>1 DEF Rows, ToSet
    <3>2. ASSUME NEW v, tables[k] = <<v>> PROVE Len(tables[k]) = 1 /\ Rows(k) = {v}
      BY <3>2 DEF Rows, ToSet
    <3>3. CASE \E v : tables[k] = <<v>>
      <4>1. PICK v : tables[k] = <<v>>
        BY <3>3
      <4>2. Len(tables[k]) = 1 /\ Rows(k) = {v}
        BY <3>2, <4>1
      <4> QED
        BY <4>2
    <3> QED
      BY <2>1, <3>1, <3>3
  <2> QED
    BY <2>2, <2>3 DEF KeyOK
<1>2. TakeTurns /\ \A w \in Workers : WorkerOK(w) /\ PendingOK(w)
  BY DEF Init, TakeTurns, WorkerOK, PendingOK
<1> QED
  BY <1>1, <1>2 DEF Inv

(* Promises are only ever withdrawn.                                       *)
LEMMA PromisedStays ==
  ASSUME NEW w, NEW r, About(w, r), NEW k
  PROVE  /\ Safe(k)' => Safe(k)
         /\ Promised(k)' => Promised(k)
         /\ k # r.key => (Safe(k)' <=> Safe(k)) /\ (Promised(k)' <=> Promised(k))
  BY DEF About, Safe, Promised

(* A step that writes nothing leaves its key and the answers about it      *)
(* alone.                                                                  *)
LEMMA QuietKey ==
  ASSUME TypeInv, NEW w \in Workers, NEW r, r.key \in Keys, About(w, r), KeyOK(r.key),
         tables'[r.key] = tables[r.key], told'[r.key] = told[r.key], at[w] # "answering"
  PROVE  KeyOK(r.key)'
<1> DEFINE k == r.key
<1>1. Rows(k)' = Rows(k)
  BY DEF Rows
<1>2. Pending(k) => Pending(k)'
  <2> SUFFICES ASSUME NEW x \in Workers, at[x] = "answering", req[x].key = k
               PROVE  at'[x] = "answering" /\ req'[x].key = k
    BY DEF Pending
  <2> QED
    BY DEF About
<1>3. (Safe(k)' => Safe(k)) /\ (Promised(k)' => Promised(k))
  BY PromisedStays
<1>4. unique' \/ k \notin overlapped' => unique \/ k \notin overlapped
  BY DEF About
<1> QED
  BY <1>1, <1>2, <1>3, <1>4 DEF KeyOK

LEMMA QuietPending ==
  ASSUME TypeInv, NEW w \in Workers, NEW r, r.key \in Keys, About(w, r), tables'[r.key] = tables[r.key],
         NEW x \in Workers \ {w}, PendingOK(x)
  PROVE  PendingOK(x)'
<1>1. at'[x] = at[x] /\ req'[x] = req[x]
  BY DEF About
<1>2. at[x] = "answering" => req[x].key \in Keys
  BY DEF TypeInv, RequestOf
<1>3. at[x] = "answering" => Rows(req[x].key)' = Rows(req[x].key)
  BY <1>1, <1>2 DEF About, Rows
<1>4. Promised(req[x].key)' => Promised(req[x].key)
  BY <1>1, PromisedStays
<1> QED
  BY <1>1, <1>3, <1>4 DEF PendingOK

(* A statement that writes: what it leaves is what its answer tells, and   *)
(* what the others that wait to answer about the key will tell.            *)
LEMMA WrittenPending ==
  ASSUME TypeInv, NEW w \in Workers, NEW r, r.key \in Keys, About(w, r),
         Promised(r.key)' => Rows(r.key)' = Answer(r),
         r.op = "add" /\ Promised(r.key)' =>
            \/ Rows(r.key) = {}
            \/ r.key \in Binds \cup Devices /\ r.val \in Columns(r.key),
         NEW x \in Workers \ {w}, PendingOK(x)
  PROVE  PendingOK(x)'
<1> DEFINE k == r.key
<1>1. at'[x] = at[x] /\ req'[x] = req[x]
  BY DEF About
<1>2. at[x] = "answering" => /\ req[x].key \in Keys /\ req[x].val \in Columns(req[x].key)
                             /\ req[x].op \in {"add", "set", "drop"}
  BY DEF TypeInv, TypeOK, RequestOf, Change
<1>3. CASE at[x] = "answering" /\ req[x].key = k /\ Promised(k)'
  <2>1. Agree(r, req[x])
    BY <1>3 DEF About, Promised
  <2>2. Promised(k) /\ Rows(k) = Answer(req[x])
    BY <1>3, PromisedStays DEF PendingOK
  <2>3. Answer(r) = Answer(req[x])
    <3>1. CASE r.op = "add"
      <4>1. req[x].op = "add"
        BY <2>1, <3>1 DEF Agree
      <4>2. Answer(req[x]) = {req[x].val} /\ Answer(r) = {r.val}
        BY <3>1, <4>1 DEF Answer
      <4>3. Rows(k) # {}
        BY <2>2, <4>2
      <4>4. k \in Binds \cup Devices /\ r.val \in Columns(k)
        BY <1>3, <3>1, <4>3
      <4>5. r.val = None /\ req[x].val = None
        BY <1>2, <1>3, <4>4
      <4> QED
        BY <4>2, <4>5
    <3>2. CASE r.op # "add"
      BY <1>2, <1>3, <2>1, <3>2 DEF Agree, Answer
    <3> QED
      BY <3>1, <3>2
  <2> QED
    BY <1>1, <1>3, <2>3 DEF PendingOK
<1>4. CASE at[x] = "answering" /\ req[x].key # k
  <2>1. tables'[req[x].key] = tables[req[x].key]
    BY <1>2, <1>4 DEF About
  <2>2. Rows(req[x].key)' = Rows(req[x].key)
    BY <1>1, <2>1 DEF Rows
  <2>3. Promised(req[x].key)' => Promised(req[x].key)
    BY <1>1, PromisedStays
  <2> QED
    BY <1>1, <1>4, <2>2, <2>3 DEF PendingOK
<1> QED
  BY <1>1, <1>3, <1>4 DEF PendingOK

(* A step about k does nothing to the other keys, and what it does to k    *)
(* matters to the other workers only if k overlaps.                        *)
LEMMA OthersOK ==
  ASSUME TypeInv, Inv, TakeTurns', NEW w \in Workers, NEW r, r.key \in Keys, About(w, r),
         KeyOK(r.key)', WorkerOK(w)', PendingOK(w)',
         \A x \in Workers \ {w} : PendingOK(x)',
         r.key \in Devices /\ tables[r.key] # <<>> => tables'[r.key] # <<>>
  PROVE  Inv'
<1> DEFINE k == r.key
<1>1. ASSUME NEW j \in Keys PROVE KeyOK(j)'
  <2>1. CASE j # k
    <3>1. /\ tables'[j] = tables[j] /\ told'[j] = told[j] /\ unique' = unique
          /\ j \in overlapped' <=> j \in overlapped
      BY <2>1 DEF About
    <3>2. KeyOK(j)
      BY DEF Inv
    <3>3. (Safe(j)' <=> Safe(j)) /\ (Promised(j)' <=> Promised(j)) /\ Rows(j)' = Rows(j)
      BY <2>1, <3>1, PromisedStays DEF Rows
    <3>4. Pending(j) => Pending(j)'
      <4> SUFFICES ASSUME NEW x \in Workers, at[x] = "answering", req[x].key = j
                   PROVE  at'[x] = "answering" /\ req'[x].key = j
        BY DEF Pending
      <4> QED
        BY <2>1 DEF About
    <3> QED
      BY <3>1, <3>2, <3>3, <3>4 DEF KeyOK
  <2> QED
    BY <2>1
<1>2. ASSUME NEW x \in Workers PROVE WorkerOK(x)'
  <2>1. CASE x # w
    <3>1. PICK j : j = req[x].key
      OBVIOUS
    <3>2. /\ at'[x] = at[x] /\ req'[x].key = j /\ req'[x].val = req[x].val /\ unique' = unique
          /\ overlapped \subseteq overlapped' /\ doubted \subseteq doubted'
          /\ at[x] \notin {"idle", "answering"} /\ j = k =>
               k \in overlapped' \/ tables'[k] = tables[k]
      BY <2>1, <3>1 DEF About, Busy
    <3>3. at[x] # "idle" => j \in Keys
      BY <3>1 DEF TypeInv, RequestOf
    <3>4. at[x] # "idle" /\ j # k => tables'[j] = tables[j]
      BY <3>3 DEF About
    <3>5. at[x] = "login" => j \in Devices
      BY <3>1, <3>3 DEF TypeInv, RequestOf
    <3>6. WorkerOK(x)
      BY DEF Inv
    <3> QED
      BY <3>1, <3>2, <3>4, <3>5, <3>6 DEF WorkerOK, Rows
  <2> QED
    BY <2>1
<1>3. \A x \in Workers : PendingOK(x)'
  OBVIOUS
<1> QED
  BY <1>1, <1>2, <1>3 DEF Inv

LEMMA QuietStep ==
  ASSUME TypeInv, Inv, TakeTurns', NEW w \in Workers, NEW r, r.key \in Keys, About(w, r),
         tables' = tables, told' = told, at[w] # "answering", WorkerOK(w)',
         at'[w] = "answering" => Rows(r.key) = Answer(r)
  PROVE  Inv'
<1>1. KeyOK(r.key)'
  BY QuietKey DEF Inv
<1>2. PendingOK(w)'
  <2>1. at'[w] = "answering" => req'[w] = r /\ Rows(r.key)' = Rows(r.key)
    BY DEF About, Rows
  <2> QED
    BY <2>1 DEF PendingOK
<1>3. \A x \in Workers \ {w} : PendingOK(x)'
  BY QuietPending DEF Inv
<1> QED
  BY <1>1, <1>2, <1>3, OthersOK

(* An insertion that succeeds.                                             *)
LEMMA InsertedKey ==
  ASSUME TypeInv, Inv, TakeTurns', NEW w \in Workers, NEW r, r = req[w], About(w, r),
         at[w] \in {"insertUser", "insertBind", "regist", "insert"},
         Inserts(r), told' = told,
         at'[w] = (IF at[w] = "regist" THEN "login" ELSE "answering")
  PROVE  Inv'
<1> DEFINE k == r.key
           v == r.val
<1>1. k \in Keys /\ v \in Columns(k) /\ r.op \in {"add", "set"}
  BY DEF TypeInv, RequestOf
<1>2. TypeOK /\ WorkerOK(w) /\ KeyOK(k)
  BY <1>1 DEF TypeInv, Inv
<1>3. ToSet(tables'[k]) = Rows(k) \cup {v} /\ Len(tables'[k]) = Len(tables[k]) + 1
  BY <1>1, <1>2, Written DEF Inserts
<1>4. unique => Rows(k) = {}
  BY DEF Inserts
<1>5. /\ Rows(k) \subseteq Columns(k)
      /\ Rows(k) = {} <=> tables[k] = <<>>
      /\ Len(tables[k]) \in Nat
      /\ Rows(k) = {} <=> Len(tables[k]) = 0
  BY <1>1, RowsTyped
<1>6. Safe(k)' => Safe(k) /\ Rows(k) = {}
  BY <1>2, <1>4, <1>5 DEF About, Safe, WorkerOK
<1>7. Rows(k)' = Rows(k) \cup {v}
  BY <1>3 DEF Rows
<1>8. k \in Binds \cup Devices => Rows(k)' = {v} /\ v = None
  BY <1>1, <1>5, <1>7
<1>9. k \in Devices <=> at[w] = "regist"
  BY <1>1 DEF TypeInv, RequestOf
<1>10. ASSUME k \in Tokens, unique' \/ k \notin overlapped' PROVE Rows(k) \subseteq {v}
  <2>1. at[w] = "insert" /\ (unique \/ k \notin overlapped)
    BY <1>1, <1>10 DEF TypeInv, RequestOf, About
  <2> QED
    BY <1>2, <2>1, <1>4 DEF WorkerOK
<1>11. Safe(k)' => Len(tables'[k]) <= 1
  BY <1>3, <1>5, <1>6
<1>12. Answer(r) = {v}
  BY <1>1 DEF Answer
<1>13. Promised(k)' => Rows(k)' = Answer(r) /\ (Rows(k) = {} \/ k \in Binds)
  BY <1>6, <1>7, <1>8, <1>12 DEF Promised
<1>14. told'[k] # None /\ Promised(k)' /\ ~Pending(k)' => Rows(k)' = told'[k]
  <2>1. CASE at[w] # "regist"
    <3>1. Pending(k)'
      BY <2>1 DEF Pending, About
    <3> QED
      BY <3>1
  <2>2. CASE at[w] = "regist"
    BY <2>2, <1>2, <1>8, <1>9 DEF KeyOK
  <2> QED
    BY <2>1, <2>2
<1>15. k \in Devices => told'[k] \in {None, {None}}
  BY <1>2 DEF KeyOK
<1>16. tables'[k] # <<>>
  BY <1>3, <1>5
<1>17. k \in Tokens /\ (unique' \/ k \notin overlapped') => \A a, b \in Rows(k)' : a = b
  BY <1>7, <1>10
<1>18. KeyOK(k)'
  BY <1>11, <1>14, <1>15, <1>17 DEF KeyOK
<1>19. at'[w] = "login" \/ at'[w] = "answering"
  OBVIOUS
<1>20. req'[w] = r
  BY <1>19 DEF About
<1>21. WorkerOK(w)'
  BY <1>16, <1>19, <1>20 DEF WorkerOK
<1>22. PendingOK(w)'
  BY <1>13, <1>20 DEF PendingOK
<1>23. \A x \in Workers \ {w} : PendingOK(x)'
  <2> SUFFICES ASSUME NEW x \in Workers \ {w} PROVE PendingOK(x)'
    OBVIOUS
  <2>1. Promised(k)' => Rows(k)' = Answer(r)
    BY <1>13
  <2>2. r.op = "add" /\ Promised(k)' =>
          \/ Rows(k) = {}
          \/ k \in Binds \cup Devices /\ r.val \in Columns(k)
    BY <1>1, <1>13
  <2>3. PendingOK(x)
    BY DEF Inv
  <2> HIDE DEF Keys, Columns, Binds
  <2> QED
    BY <1>1, <2>1, <2>2, <2>3, WrittenPending
<1> HIDE DEF Keys
<1> QED
  BY <1>1, <1>16, <1>18, <1>21, <1>22, <1>23, OthersOK

(* An update.                                                              *)
LEMMA UpdatedKey ==
  ASSUME TypeInv, Inv, TakeTurns', NEW w \in Workers, NEW r, r.key \in Keys \ Devices,
         r.val \in Columns(r.key), r.op = "set", About(w, r), Rows(r.key) # {},
         tables' = Update(r), told' = told, at'[w] = "answering"
  PROVE  Inv'
<1> DEFINE k == r.key
<1>1. TypeOK /\ KeyOK(k)
  BY DEF TypeInv, Inv
<1>2. ToSet(tables'[k]) = {r.val} /\ Len(tables'[k]) = Len(tables[k])
  BY <1>1, Written
<1>3. Len(tables[k]) # 0 /\ Len(tables[k]) \in Nat
  BY RowsTyped
<1>4. (Safe(k)' => Safe(k)) /\ req'[w] = r
  BY PromisedStays DEF About
<1>5. Rows(k)' = {r.val} /\ Answer(r) = {r.val}
  BY <1>2 DEF Rows, Answer
<1>6. Pending(k)'
  BY <1>4 DEF Pending
<1>7. KeyOK(k)'
  BY <1>1, <1>2, <1>4, <1>5, <1>6 DEF KeyOK
<1>8. WorkerOK(w)' /\ PendingOK(w)'
  BY <1>4, <1>5 DEF WorkerOK, PendingOK
<1>9. \A x \in Workers \ {w} : PendingOK(x)'
  BY <1>5, WrittenPending DEF Inv
<1> QED
  BY <1>7, <1>8, <1>9, OthersOK

(* A deletion.                                                             *)
LEMMA DeletedKey ==
  ASSUME TypeInv, Inv, TakeTurns', NEW w \in Workers, NEW r, r.key \in Keys \ Devices,
         r.op = "drop", About(w, r),
         tables' = Delete(r.key), told' = told, at'[w] = "answering"
  PROVE  Inv'
<1> DEFINE k == r.key
<1>1. tables'[k] = <<>>
  BY DEF Delete, TypeInv, TypeOK
<1>2. Len(tables'[k]) = 0 /\ DOMAIN tables'[k] = {}
  BY <1>1
<1>3. Rows(k)' = {} /\ Answer(r) = {}
  BY <1>2 DEF Rows, ToSet, Answer
<1>4. req'[w] = r
  BY DEF About
<1>5. Pending(k)'
  BY <1>4 DEF Pending
<1>6. KeyOK(k)'
  BY <1>2, <1>3, <1>5 DEF KeyOK
<1>7. WorkerOK(w)' /\ PendingOK(w)'
  BY <1>3, <1>4 DEF WorkerOK, PendingOK
<1>8. \A x \in Workers \ {w} : PendingOK(x)'
  BY <1>3, WrittenPending DEF Inv
<1> QED
  BY <1>6, <1>7, <1>8, OthersOK
-----------------------------------------------------------------------------
LEMMA InvStep == TypeInv /\ TypeInv' /\ Inv /\ [Next]_vars => Inv'
<1> SUFFICES ASSUME TypeInv, TypeInv', Inv, [Next]_vars PROVE Inv'
  OBVIOUS
<1>a. TakeTurns /\ TakeTurns'
  BY TakeTurnsStep DEF Inv
<1>1. ASSUME NEW w \in Workers, Packet(w) PROVE Inv'
  <2>1. PICK r \in Change : PacketAbout(w, r)
    BY <1>1, PacketIs
  <2>2. /\ r.key \in Keys /\ About(w, r) /\ r.val \in Columns(r.key)
        /\ at[w] = "idle" /\ told' = told
    BY <2>1 DEF PacketAbout, Change
  <2>3. CASE Starts(w, r)
    <3>1. WorkerOK(w)' /\ at'[w] # "answering" /\ tables' = tables
      BY <2>3 DEF Starts, WorkerOK
    <3> QED
      BY <1>a, <2>2, <3>1, QuietStep
  <2>4. CASE UNCHANGED <<tables, at, req>>
    <3>1. WorkerOK(w)' /\ at'[w] # "answering" /\ tables' = tables
      BY <2>2, <2>4 DEF WorkerOK
    <3> QED
      BY <1>a, <2>2, <3>1, QuietStep
  <2>5. CASE Drops(w, r)
    BY <1>a, <2>2, <2>5, DeletedKey DEF Drops
  <2>6. CASE Sets(w, r)
    <3>1. r.key \in Keys \ Devices
      BY <2>2, <2>6 DEF Sets
    <3> QED
      BY <1>a, <2>2, <2>6, <3>1, UpdatedKey DEF Sets
  <2> QED
    BY <2>1, <2>3, <2>4, <2>5, <2>6 DEF PacketAbout
<1>2. ASSUME NEW w \in Workers, Statement(w) PROVE Inv'
  <2>1. PICK r : r = req[w]
    OBVIOUS
  <2>2. PICK k : k = r.key
    OBVIOUS
  <2>3. About(w, r) /\ k \in Keys /\ r.val \in Columns(k) /\ at[w] \in Steps
    BY <1>2, <1>a, <2>1, <2>2, StatementIs, StatementTyped
  <2>4. WorkerOK(w)
    BY DEF Inv
  <2>5. /\ Rows(k) \subseteq Columns(k)
        /\ Rows(k) = {} <=> tables[k] = <<>>
    BY <2>3, RowsTyped
  <2>6. at'[w] # "idle" => req'[w] = r
    BY <2>3 DEF About
  <2>7. at'[w] = "idle" \/ at'[w] = "answering" => WorkerOK(w)'
    BY DEF WorkerOK
  <2>8. ASSUME tables' = tables, told' = told, WorkerOK(w)',
               at'[w] = "answering" => Rows(k) = Answer(r)
        PROVE  Inv'
    <3>1. at[w] # "answering"
      BY <2>3 DEF Steps
    <3> QED
      BY <1>a, <2>2, <2>3, <2>8, <3>1, QuietStep
  <2>9. CASE checkUser(w) \/ check(w)
    <3>1. /\ UNCHANGED <<tables, told>> /\ unique' = unique
          /\ \/ at'[w] = "idle"
             \/ at'[w] = "login" /\ Rows(k) # {}
             \/ at'[w] \in {"insertUser", "regist"} /\ Rows(k) = {}
             \/ at'[w] \in {"insertUser", "regist"} /\ k \in doubted'
      BY <2>1, <2>2, <2>9, ContinueIs DEF checkUser, check, Steps, Places
    <3>2. WorkerOK(w)'
      BY <2>2, <2>5, <2>6, <3>1 DEF WorkerOK
    <3>3. at'[w] # "answering"
      BY <3>1
    <3> QED
      BY <2>8, <3>1, <3>2, <3>3
  <2>10. CASE selectBind(w)
    <3>1. at[w] = "selectBind"
      BY <2>10 DEF selectBind, Continue
    <3>2. k \in Binds /\ r.op = "add"
      BY <2>1, <2>2, <3>1 DEF TypeInv, RequestOf
    <3>3. (Rows(k) # {} => Rows(k) = {r.val}) /\ Answer(r) = {r.val}
      BY <2>3, <2>5, <3>2 DEF Answer
    <3>4. /\ tables' = tables /\ told' = told
          /\ \/ at'[w] = "insertBind" /\ Rows(k) = {}
             \/ at'[w] = "answering" /\ Rows(k) # {}
             \/ at'[w] = "idle"
      BY <2>1, <2>2, <2>10, ContinueIs DEF selectBind, Steps, Places
    <3>5. WorkerOK(w)'
      BY <2>2, <2>5, <2>6, <3>4 DEF WorkerOK
    <3>6. at'[w] = "answering" => Rows(k) = Answer(r)
      BY <3>3, <3>4
    <3> QED
      BY <2>8, <3>4, <3>5, <3>6
  <2>11. CASE insertUser(w) \/ insertBind(w) \/ insert(w)
    <3>1. /\ at[w] \in {"insertUser", "insertBind", "insert"} /\ told' = told
          /\ \/ at'[w] = "answering" /\ Inserts(r)
             \/ at'[w] = "idle" /\ tables' = tables
      BY <2>1, <2>11, ContinueIs DEF insertUser, insertBind, insert, Steps, Places
    <3>2. CASE at'[w] = "answering" /\ Inserts(r)
      BY <1>a, <2>1, <2>3, <3>1, <3>2, InsertedKey
    <3>3. CASE at'[w] = "idle" /\ tables' = tables
      BY <2>7, <2>8, <3>1, <3>3
    <3> QED
      BY <3>1, <3>2, <3>3
  <2>12. CASE regist(w)
    <3>1. /\ at[w] = "regist" /\ told' = told
          /\ \/ at'[w] = "login" /\ Inserts(r)
             \/ at'[w] = "idle" /\ tables' = tables
      BY <2>1, <2>12, ContinueIs DEF regist, Steps, Places
    <3>2. CASE at'[w] = "login" /\ Inserts(r)
      BY <1>a, <2>1, <2>3, <3>1, <3>2, InsertedKey
    <3>3. CASE at'[w] = "idle" /\ tables' = tables
      BY <2>7, <2>8, <3>1, <3>3
    <3> QED
      BY <3>1, <3>2, <3>3
  <2>13. CASE login(w)
    <3>1. /\ at[w] = "login" /\ at'[w] \in {"answering", "idle"} /\ tables' = tables
          /\ told' = told
      BY <2>13, ContinueIs DEF login, Steps, Places
    <3>2. k \in Devices /\ tables[k] # <<>> /\ r.op = "add"
      BY <2>1, <2>2, <2>3, <2>4, <3>1 DEF TypeInv, RequestOf, WorkerOK
    <3>3. Rows(k) = {None} /\ Answer(r) = {None}
      BY <2>3, <2>5, <3>2 DEF Answer
    <3> QED
      BY <2>7, <2>8, <3>1, <3>3
  <2>14. CASE update(w)
    <3>1. /\ at[w] = "update" /\ told' = told
          /\ \/ at'[w] = "idle" /\ tables' = tables
             \/ at'[w] = "answering" /\ Rows(k) # {} /\ tables' = Update(r)
             \/ /\ at'[w] = "insert" /\ Rows(k) \subseteq {r.val} /\ tables' = tables
                /\ Rows(k) # {} => k \in doubted'
      BY <2>1, <2>2, <2>14, ContinueIs DEF update, Steps, Places
    <3>2. k \in Tokens /\ k \in Keys \ Devices /\ r.op = "set"
      BY <2>1, <2>2, <2>3, <3>1 DEF TypeInv, RequestOf
    <3>3. CASE at'[w] = "answering" /\ Rows(k) # {} /\ tables' = Update(r)
      BY <1>a, <2>2, <2>3, <3>1, <3>2, <3>3, UpdatedKey
    <3>4. CASE /\ at'[w] = "insert" /\ Rows(k) \subseteq {r.val} /\ tables' = tables
               /\ Rows(k) # {} => k \in doubted'
      <4>1. req'[w].key = k /\ req'[w].val = r.val /\ Rows(k)' = Rows(k)
        BY <2>2, <2>6, <3>4 DEF Rows
      <4>2. WorkerOK(w)'
        <5>1. tables'[k] = <<>> \/ k \in doubted'
          BY <2>5, <3>4
        <5>2. Rows(req[w].key)' = ToSet(tables'[k])
          BY <4>1 DEF Rows
        <5>3. ToSet(tables'[k]) \subseteq {r.val}
          BY <3>4 DEF Rows
        <5> QED
          BY <3>4, <4>1, <5>1, <5>2, <5>3 DEF WorkerOK
      <4> QED
        BY <2>8, <3>1, <3>4, <4>2
    <3>5. CASE at'[w] = "idle" /\ tables' = tables
      BY <2>7, <2>8, <3>1, <3>5
    <3> QED
      BY <3>1, <3>3, <3>4, <3>5
  <2> QED
    BY <1>2, <2>9, <2>10, <2>11, <2>12, <2>13, <2>14 DEF Statement
<1>3. ASSUME NEW w \in Workers, sendResponse(w) PROVE Inv'
  <2>1. PICK r : r = req[w]
    OBVIOUS
  <2>2. PICK k : k = r.key
    OBVIOUS
  <2>3. /\ About(w, r) /\ at[w] = "answering" /\ at'[w] = "idle"
        /\ k \in Keys /\ r.val \in Columns(k)
        /\ told'[k] = Answer(r) /\ tables' = tables
        /\ UNCHANGED <<unique, overlapped, contended, doubted>>
    BY <1>3, <1>a, <2>1, <2>2, ResponseIs
  <2>4. KeyOK(k) /\ PendingOK(w)
    BY <2>3 DEF Inv
  <2>5. (Promised(k)' <=> Promised(k)) /\ (Safe(k)' <=> Safe(k)) /\ Rows(k)' = Rows(k)
    BY <2>3 DEF Promised, Safe, Rows
  <2>6. Promised(k) => Rows(k) = Answer(r)
    BY <2>1, <2>2, <2>3, <2>4 DEF PendingOK
  <2>7. k \in Devices => Answer(r) = {None}
    BY <2>1, <2>2, <2>3 DEF TypeInv, RequestOf, Answer
  <2>8. KeyOK(k)'
    BY <2>3, <2>4, <2>5, <2>6, <2>7 DEF KeyOK
  <2>9. WorkerOK(w)' /\ PendingOK(w)'
    BY <2>3 DEF WorkerOK, PendingOK
  <2>10. \A x \in Workers \ {w} : PendingOK(x)'
    BY <2>2, <2>3, QuietPending DEF Inv
  <2> QED
    BY <1>a, <2>2, <2>3, <2>8, <2>9, <2>10, OthersOK
<1>4. CASE UNCHANGED vars
  <2>1. /\ UNCHANGED <<unique, tables, at, req, told, overlapped, contended, doubted>>
    BY <1>4 DEF vars, history
  <2>2. \A k \in Keys : KeyOK(k)'
    BY <2>1 DEF Inv, KeyOK, Safe, Promised, Pending, Rows
  <2>3. \A w \in Workers : WorkerOK(w)' /\ PendingOK(w)'
    BY <2>1 DEF Inv, WorkerOK, PendingOK, Promised, Safe, Rows
  <2> QED
    BY <1>a, <2>2, <2>3 DEF Inv
<1> QED
  BY <1>1, <1>2, <1>3, <1>4 DEF Next
-----------------------------------------------------------------------------
LEMMA InvCorrect == Spec => [](TypeInv /\ Inv)
<1>1. Init => TypeInv /\ Inv
  BY TypeInit, InvInit
<1>2. TypeInv /\ Inv /\ [Next]_vars => TypeInv' /\ Inv'
  BY TypeStep, InvStep DEF Inv
<1> QED
  BY <1>1, <1>2, PTL DEF Spec

(* Every variable keeps its type; in particular a handler only ever writes *)
(* to the table its request is about.                                      *)
THEOREM TypeCorrect == Spec => []TypeOK
  BY InvCorrect, PTL DEF TypeInv

(* A key has one row at most, if its table has a unique index or its       *)
(* requests took turns and no look-up failed.                              *)
THEOREM RowsUnique == Spec => []NoDuplicateRows
<1>1. Inv => NoDuplicateRows
  BY DEF Inv, KeyOK, NoDuplicateRows
<1> QED
  BY <1>1, InvCorrect, PTL

(* Once the answers about a key are out, what they told last is what its   *)
(* table says, unless requests that did not agree were about it at once.   *)
THEOREM AnswersAreTrue == Spec => []AnswersTrue
<1>1. Inv => AnswersTrue
  BY DEF Inv, KeyOK, AnswersTrue, Promised, Pending
<1> QED
  BY <1>1, InvCorrect, PTL

(* The rows of a token name the same user.                                 *)
THEOREM OneUserPerToken == Spec => []TokenOfOneUser
<1>1. Inv => TokenOfOneUser
  <2> SUFFICES ASSUME Inv, NEW t \in Tokens, unique \/ t \notin overlapped
               PROVE  Cardinality(Rows(t)) <= 1
    BY DEF TokenOfOneUser
  <2>1. \A u, v \in Rows(t) : u = v
    BY DEF Inv, KeyOK
  <2>2. CASE Rows(t) = {}
    BY <2>2, FS_EmptySet
  <2>3. ASSUME NEW u \in Rows(t) PROVE Cardinality(Rows(t)) <= 1
    <3>1. Rows(t) = {u}
      BY <2>1
    <3>2. Cardinality({u}) = 1
      BY FS_Singleton
    <3>3. Cardinality(Rows(t)) = 1
      BY <3>1, <3>2, Zenon
    <3> QED
      BY <3>3
  <2> QED
    BY <2>2, <2>3
<1> QED
  BY <1>1, InvCorrect, PTL
=============================================================================
