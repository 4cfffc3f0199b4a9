----------------------------- MODULE LinkLife -----------------------------
(***************************************************************************)
(* What the network library promises to the owner of the server socket     *)
(* (CISocketOwner): of every TCP link the owner hears, in this order and   *)
(* one call at a time, OnAccept, then OnCmdCome once per chunk of data the *)
(* event loop read from the link, then OnClose, which is the last call.    *)
(* Nothing that was read is lost and nothing is reported twice.            *)
(***************************************************************************)
EXTENDS Naturals

CONSTANT Links

VARIABLES
  peer,       \* the link as the event loop sees it
  received,   \* chunks the event loop has read from the link
  delivered,  \* chunks for which OnCmdCome has been called
  phase       \* what the owner has been told of the link

vars == <<peer, received, delivered, phase>>

Init ==
  /\ peer = [l \in Links |-> "fresh"]
  /\ received = [l \in Links |-> 0]
  /\ delivered = [l \in Links |-> 0]
  /\ phase = [l \in Links |-> "unknown"]

(* The network side.                                                       *)
Connect(l) ==
  /\ peer[l] = "fresh"
  /\ peer' = [peer EXCEPT ![l] = "open"]
  /\ UNCHANGED <<received, delivered, phase>>

Receive(l) ==
  /\ peer[l] = "open"
  /\ received' = [received EXCEPT ![l] = @ + 1]
  /\ UNCHANGED <<peer, delivered, phase>>

HangUp(l) ==
  /\ peer[l] = "open"
  /\ peer' = [peer EXCEPT ![l] = "closed"]
  /\ UNCHANGED <<received, delivered, phase>>

(* The calls to the owner: each one begins and returns.                    *)
Move(l, from, to) ==
  /\ phase[l] = from
  /\ phase' = [phase EXCEPT ![l] = to]
  /\ UNCHANGED <<peer, received>>

OnAccept(l) ==
  /\ peer[l] # "fresh"
  /\ Move(l, "unknown", "accepting")
  /\ UNCHANGED delivered

OnCmdCome(l) ==
  /\ delivered[l] < received[l]
  /\ Move(l, "idle", "reading")
  /\ delivered' = [delivered EXCEPT ![l] = @ + 1]

OnClose(l) ==
  /\ peer[l] = "closed"
  /\ delivered[l] = received[l]
  /\ Move(l, "idle", "closing")
  /\ UNCHANGED delivered

Return(l) ==
  /\ \/ Move(l, "accepting", "idle")
     \/ Move(l, "reading", "idle")
     \/ Move(l, "closing", "forgotten")
  /\ UNCHANGED delivered

Next ==
  \E l \in Links :
    \/ Connect(l) \/ Receive(l) \/ HangUp(l)
    \/ OnAccept(l) \/ OnCmdCome(l) \/ OnClose(l) \/ Return(l)

Spec == Init /\ [][Next]_vars
=============================================================================
