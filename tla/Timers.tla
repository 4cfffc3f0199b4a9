------------------------------- MODULE Timers -------------------------------
(***************************************************************************)
(* The timers of timer/src/TimerThread.cpp: a list, a thread that walks    *)
(* over it once a second under a mutex and calls the timers that ran out,  *)
(* and threads that register timers, under the mutex, and unregister them, *)
(* without it, as the comment at TimerThread.cpp:52 explains.              *)
(*                                                                         *)
(* A step of the walk visits one node.  unRegister is two steps, finding   *)
(* the node and erasing it, and meanwhile its thread is in the list, as    *)
(* the timer thread is during a walk.  A list that is written while        *)
(* another thread is in it (races) is a data race: a node may be used      *)
(* after it was freed, or nothing bad comes of it.                         *)
(***************************************************************************)
EXTENDS Integers, SequencesExt

CONSTANTS
  Timers,     \* Timer objects
  Clients,    \* threads that use timers
  Intervals,  \* values of _interval
  NoTimer     \* end() of the list

ASSUME NoTimerIsNone == NoTimer \notin Timers
ASSUME IntervalsPositive == Intervals \subseteq Nat \ {0}

VARIABLES
  _timer_list,  \* the list
  _interval,    \* timer -> _interval
  leftsecs,     \* timer -> leftsecs
  callback,     \* timer -> what its callback does: <<operation, timer>>
  pc, ite,      \* where the timer thread is, the node it is at
  finding,      \* client -> the node its unRegister has found
  undefined     \* freed memory was used: what follows is not modelled

(* History, read by the properties only.                                   *)
VARIABLES
  age,   \* timer -> walks since it was registered and since its last call,
         \* counted up to one more than _interval
  raced  \* the list was written while another thread was in it

list == <<_timer_list, _interval, leftsecs, callback>>
thread == <<pc, ite>>
vars == <<list, thread, finding, undefined, age, raced>>

In(t) == t \in ToSet(_timer_list)

(* Where timer t is in the list l, and the list without that node.         *)
Place(t, l) == CHOOSE n \in 1..Len(l) : l[n] = t
Without(t) ==
  IF In(t) THEN RemoveAt(_timer_list, Place(t, _timer_list)) ELSE _timer_list

begin == IF _timer_list = <<>> THEN NoTimer ELSE Head(_timer_list)

(* What callbacks do, to their own timer or to another one.                *)
Operations == {<<"nothing", NoTimer>>} \cup {"unRegister", "Register"} \X Timers

Init ==
  /\ _timer_list = <<>>
  /\ _interval = [t \in Timers |-> 0]
  /\ leftsecs = [t \in Timers |-> 0]
  /\ callback = [t \in Timers |-> <<"nothing", NoTimer>>]
  /\ pc = "sleep" /\ ite = NoTimer
  /\ finding = [c \in Clients |-> NoTimer]
  /\ undefined = FALSE
  /\ age = [t \in Timers |-> 0] /\ raced = FALSE

(* Who is in the list: a thread in its unRegister, and the timer thread,   *)
(* which holds the mutex when it walks.                                    *)
Unregistering(clients) == \E c \in clients : finding[c] # NoTimer
Inside(c) == pc = "walk" \/ Unregistering(Clients \ {c})

(* A write to the list, which uses freed memory for sure if the node it    *)
(* takes out or goes on from is gone, and maybe if others are in the list. *)
Write(others, gone) ==
  /\ \/ undefined' = gone
     \/ others /\ undefined' = TRUE
  /\ raced' = (raced \/ others)

-----------------------------------------------------------------------------
Opened(t, n, op) ==
  /\ leftsecs' = [leftsecs EXCEPT ![t] = n]
  /\ _interval' = [_interval EXCEPT ![t] = n]
  /\ callback' = [callback EXCEPT ![t] = op]

(* Timer::open and Register.  A client opens a timer that is not in the    *)
(* list and that nobody is about to unregister.  push_back waits for the   *)
(* mutex, which an unRegister does not hold: it may write through a last   *)
(* node that another client has just freed.                                *)
Register(c, t, n, op) ==
  /\ ~undefined /\ finding[c] = NoTimer
  /\ pc = "sleep"
  /\ ~In(t) /\ \A x \in Clients : finding[x] # t
  /\ Opened(t, n, op)
  /\ _timer_list' = Append(_timer_list, t)
  /\ age' = [age EXCEPT ![t] = 0]
  /\ Write(Inside(c), FALSE)
  /\ UNCHANGED <<thread, finding>>

(* unRegister of a client: the loop that finds the node.                   *)
find(c, t) ==
  /\ ~undefined /\ finding[c] = NoTimer
  /\ In(t)
  /\ finding' = [finding EXCEPT ![c] = t]
  /\ UNCHANGED <<list, thread, undefined, age, raced>>

(* ... and erase.  A node that is erased twice is used after it was freed. *)
erase(c) ==
  LET t == finding[c] IN
  /\ ~undefined /\ t # NoTimer
  /\ _timer_list' = Without(t)
  /\ Write(Inside(c), ~In(t))
  /\ finding' = [finding EXCEPT ![c] = NoTimer]
  /\ UNCHANGED <<_interval, leftsecs, callback, thread, age>>

-----------------------------------------------------------------------------
lock ==
  /\ ~undefined /\ pc = "sleep"
  /\ pc' = "walk"
  /\ ite' = begin
  /\ age' = [t \in Timers |-> IF In(t) /\ age[t] <= _interval[t] THEN age[t] + 1 ELSE age[t]]
  /\ UNCHANGED <<list, finding, undefined, raced>>

Fires(t) == leftsecs[t] - 1 = 0

(* Mutant: the interval starts again with its first second counted.        *)
LeftLate(t) == IF Fires(t) THEN _interval[t] + 1 ELSE leftsecs[t] - 1

(* Mutant: a timer is called once.                                         *)
LeftOnce(t) == IF leftsecs[t] = 0 THEN 0 ELSE leftsecs[t] - 1

(* leftsecs after a visit.                                                 *)
Left(t) == IF Fires(t) THEN _interval[t] ELSE leftsecs[t] - 1

(* Mutant: the walk went on before the callback.                           *)
SuccessorEarly(t, l) ==
  LET i == Place(t, _timer_list) IN
  IF i = Len(_timer_list) THEN NoTimer ELSE _timer_list[i + 1]

(* ite++, in the list l the callback has left.                             *)
Successor(t, l) ==
  LET i == Place(t, l) IN
  IF i = Len(l) THEN NoTimer ELSE l[i + 1]

(* A visit without a callback, with one that returns, which may take a     *)
(* timer out as a client does, and with one that registers: it waits for   *)
(* the mutex its own thread holds.                                         *)
pass ==
  /\ ~Fires(ite)
  /\ age' = age
  /\ ite' = Successor(ite, _timer_list)
  /\ UNCHANGED <<_timer_list, pc, undefined, raced>>

call ==
  LET op == callback[ite] IN
  /\ Fires(ite) /\ op[1] # "Register"
  /\ _timer_list' = IF op[1] = "unRegister" THEN Without(op[2]) ELSE _timer_list
  /\ age' = [age EXCEPT ![ite] = 0]
  /\ Write(op[1] = "unRegister" /\ Unregistering(Clients), op = <<"unRegister", ite>>)
  /\ ite' = IF undefined' THEN ite ELSE Successor(ite, _timer_list')
  /\ UNCHANGED pc

wait ==
  /\ Fires(ite) /\ callback[ite][1] = "Register"
  /\ pc' = "stuck"
  /\ UNCHANGED <<_timer_list, ite, undefined, raced, age>>

(* leftsecs--; when it is 0, the callback and the next interval; ite++.    *)
visit ==
  /\ ~undefined /\ pc = "walk" /\ ite # NoTimer
  /\ IF In(ite)
     THEN /\ pass \/ call \/ wait
          /\ leftsecs' = [leftsecs EXCEPT ![ite] = Left(ite)]
     ELSE /\ undefined' = TRUE
          /\ UNCHANGED <<_timer_list, leftsecs, age, thread, raced>>
  /\ UNCHANGED <<_interval, callback, finding>>

unlock ==
  /\ ~undefined /\ pc = "walk" /\ ite = NoTimer
  /\ pc' = "sleep"
  /\ UNCHANGED <<list, ite, finding, undefined, age, raced>>

run == lock \/ visit \/ unlock

Next ==
  \/ \E c \in Clients :
       \/ \E t \in Timers, n \in Intervals, op \in Operations : Register(c, t, n, op)
       \/ \E t \in Timers : find(c, t)
       \/ erase(c)
  \/ run

(* The timer thread goes on, and so does an unRegister that has begun.     *)
Spec == Init /\ [][Next]_vars /\ WF_vars(run) /\ \A c \in Clients : WF_vars(erase(c))
-----------------------------------------------------------------------------
(* The type of the state.                                                  *)
TypeOK ==
  /\ _timer_list \in Seq(Timers)
  /\ _interval \in [Timers -> Intervals \cup {0}]
  /\ leftsecs \in [Timers -> Nat]
  /\ callback \in [Timers -> Operations]
  /\ pc \in {"sleep", "walk", "stuck"}
  /\ ite \in Timers \cup {NoTimer}
  /\ finding \in [Clients -> Timers \cup {NoTimer}]
  /\ undefined \in BOOLEAN /\ raced \in BOOLEAN
  /\ age \in [Timers -> Nat]

(* Between two walks every timer in the list has what is left of its       *)
(* interval since it was registered or last called: every walk has visited *)
(* every timer once, although callbacks and clients took others out.       *)
FiresOnTime ==
  pc = "sleep" /\ ~undefined =>
    /\ \A m, n \in 1..Len(_timer_list) : _timer_list[m] = _timer_list[n] => m = n
    /\ \A t \in ToSet(_timer_list) : age[t] < _interval[t] /\ leftsecs[t] = _interval[t] - age[t]

(* The comment at TimerThread.cpp:52: without a lock unRegister is not     *)
(* safe, but a timer can unregister another one.  Freed memory is used     *)
(* only if the list was written, by an unRegister or by a Register, while  *)
(* another thread walked over it or was in its unRegister, or by a walk    *)
(* whose callback took out its own timer; never because a callback took    *)
(* out another one.                                                        *)
OthersMayUnregister ==
  undefined => raced \/ callback[ite] = <<"unRegister", ite>>

(* A timer that stays in the list is called again and again.               *)
CalledAgain ==
  \A t \in Timers :
    In(t) /\ age[t] > 0 ~> age[t] = 0 \/ ~In(t) \/ undefined \/ pc = "stuck"
=============================================================================
