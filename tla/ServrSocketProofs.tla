------------------------- MODULE ServrSocketProofs -------------------------
(***************************************************************************)
(* Theorems about ServrSocket, for any number of links, descriptors,       *)
(* bufferevents and workers and any limit of missed heartbeats.            *)
(*                                                                         *)
(* The invariants are proved in layers: the type of the state, then that   *)
(* every job of a link is with the worker of the link's descriptor (from   *)
(* which handlers cannot overlap), and that the maps of the event thread   *)
(* follow the sockets (from which a link expires only when silent).  Then  *)
(* the order of the jobs in the lists, from which a descriptor is handed   *)
(* over in order, and on all of these the refinement of LinkLife.          *)
(***************************************************************************)
EXTENDS ServrSocket, TLAPS, FiniteSetTheorems, Functions

USE DEF NoCounter, Idle

(* The inductive half of HandlersNeverOverlap: a job, queued or running,   *)
(* is with the worker of its link's descriptor, which no longer changes.   *)
AtHome(j, w) == conn[j.link] # "fresh" /\ WorkerOf(fdOf[j.link]) = w
JobsAtHome ==
  \A w \in Workers :
    /\ \A i \in DOMAIN jobList[w] : AtHome(jobList[w][i], w)
    /\ running[w] # Idle => AtHome(running[w], w)
-----------------------------------------------------------------------------
(* CThreadPool::Run indexes vWork within its bounds.                       *)
LEMMA WorkerOfType == ASSUME NEW fd \in Fds PROVE WorkerOf(fd) \in Workers
  BY PoolAssumption, FdAssumption DEF WorkerOf, Workers

(* What the callbacks have in common: queueing a job keeps the types of    *)
(* the queues.                                                             *)
LEMMA AddJobType ==
  ASSUME TypeOK, NEW kind \in {"accept", "read", "close"},
         NEW l \in Links, NEW fd \in Fds, AddJobToPool(kind, l, fd)
  PROVE  /\ jobList' \in [Workers -> Seq(Job)]
         /\ running' \in [Workers -> Job \cup {Idle}]
         /\ waiting' \subseteq Workers
         /\ queued' \in [Links -> Nat]
<1> DEFINE j == [kind |-> kind, link |-> l, nr |-> queued[l]]
           w == WorkerOf(fd)
<1>1. j \in Job
  BY DEF TypeOK, Job
<1>2. w \in Workers
  BY WorkerOfType
<1>3. jobList' = [jobList EXCEPT ![w] = Append(@, j)]
  BY DEF AddJobToPool
<1>4. jobList' \in [Workers -> Seq(Job)]
  <2>1. Append(jobList[w], j) \in Seq(Job)
    BY <1>1, <1>2 DEF TypeOK
  <2> QED
    BY <1>2, <1>3, <2>1 DEF TypeOK
<1> QED
  BY <1>4 DEF AddJobToPool, TypeOK

(* The state has its type in every step.                                   *)
LEMMA TypeInit == Init => TypeOK
<1> SUFFICES ASSUME Init PROVE TypeOK
  OBVIOUS
<1>1. (CHOOSE b \in Bevs : TRUE) \in Bevs
  BY FdAssumption
<1>2. (CHOOSE f \in Fds : TRUE) \in Fds
  BY FdAssumption
<1> QED
  BY <1>1, <1>2, BoundAssumption DEF Init, TypeOK

LEMMA TypeStep == TypeOK /\ [Next]_vars => TypeOK'
<1> SUFFICES ASSUME TypeOK, [Next]_vars PROVE TypeOK'
  OBVIOUS
<1> USE DEF TypeOK
<1>1. ASSUME NEW l \in Links, NEW b \in Bevs, NEW fd \in Fds, accept_conn_cb(l, b, fd)
      PROVE  TypeOK'
  <2>1. AddJobToPool("accept", l, fd)
    BY <1>1 DEF accept_conn_cb
  <2>2. /\ jobList' \in [Workers -> Seq(Job)] /\ running' \in [Workers -> Job \cup {Idle}]
        /\ waiting' \subseteq Workers /\ queued' \in [Links -> Nat]
    BY <2>1, AddJobType
  <2>3. bufMap' \in [Bevs -> Links \cup {NoLink}] /\ mCounter' \in [Bevs -> NoCounter .. MaxMissed]
    BY <1>1, BoundAssumption DEF accept_conn_cb
  <2>4. /\ conn' \in [Links -> {"fresh", "open", "closed"}]
        /\ bevOf' \in [Links -> Bevs] /\ fdOf' \in [Links -> Fds]
        /\ silent' \in [Links -> Nat] /\ listening' \in BOOLEAN
    BY <1>1 DEF accept_conn_cb
  <2> QED
    BY <2>2, <2>3, <2>4
<1>2. ASSUME NEW l \in Links, read_cb(l) PROVE TypeOK'
  <2>1. AddJobToPool("read", l, fdOf[l])
    BY <1>2 DEF read_cb
  <2> QED
    BY <1>2, <2>1, AddJobType, BoundAssumption DEF read_cb
<1>3. ASSUME NEW l \in Links, bufMapDeleteBuf(l), silent' \in [Links -> Nat]
      PROVE  TypeOK'
  <2>1. AddJobToPool("close", l, fdOf[l])
    BY <1>3 DEF bufMapDeleteBuf
  <2> QED
    BY <1>3, <2>1, AddJobType, BoundAssumption DEF bufMapDeleteBuf
<1>4. ASSUME NEW l \in Links, event_cb(l) PROVE TypeOK'
  BY <1>3, <1>4 DEF event_cb
<1>5. ASSUME NEW l \in Links, timer_cb(l) PROVE TypeOK'
  <2> DEFINE missed == mCounter[bevOf[l]] + 1
  <2>1. silent' \in [Links -> Nat]
    BY <1>5 DEF timer_cb
  <2>2. CASE missed > MaxMissed /\ bufMapDeleteBuf(l)
    BY <1>3, <2>1, <2>2
  <2>3. CASE missed <= MaxMissed /\ mCounter' = [mCounter EXCEPT ![bevOf[l]] = missed]
                /\ UNCHANGED <<listening, conn, bevOf, fdOf, bufMap, poolVars, queued>>
    <3>1. missed \in NoCounter .. MaxMissed
      BY <2>3, BoundAssumption
    <3> HIDE DEF missed
    <3> QED
      BY <2>1, <2>3, <3>1 DEF poolVars
  <2> QED
    BY <1>5, <2>2, <2>3 DEF timer_cb
<1>6. CASE accept_error_cb
  BY <1>6 DEF accept_error_cb, poolVars
<1>7. ASSUME NEW w \in Workers, waitForJob(w) PROVE TypeOK'
  BY <1>7 DEF waitForJob, netVars
<1>8. ASSUME NEW w \in Workers, getJob(w) PROVE TypeOK'
  <2>1. jobList[w] \in Seq(Job) /\ jobList[w] # <<>>
    BY <1>8 DEF getJob
  <2>2. Head(jobList[w]) \in Job /\ Tail(jobList[w]) \in Seq(Job)
    BY <2>1
  <2> QED
    BY <1>8, <2>2 DEF getJob, netVars
<1>9. ASSUME NEW w \in Workers, jobDone(w) PROVE TypeOK'
  BY <1>9 DEF jobDone, netVars
<1>10. CASE UNCHANGED vars
  BY <1>10 DEF vars, netVars, poolVars
<1> QED
  BY <1>1, <1>2, <1>4, <1>5, <1>6, <1>7, <1>8, <1>9, <1>10 DEF Next, EventLoop, Worker

(* Every variable keeps its type: in particular a heartbeat counter never  *)
(* exceeds the limit, and every job is one of the three of netJob.h.       *)
THEOREM TypeCorrect == Spec => []TypeOK
  BY TypeInit, TypeStep, PTL DEF Spec
-----------------------------------------------------------------------------
(* Queueing a job of a link with its own descriptor keeps all jobs at      *)
(* home.                                                                   *)
LEMMA AddJobAtHome ==
  ASSUME TypeOK, TypeOK', JobsAtHome,
         NEW kind \in {"accept", "read", "close"}, NEW l \in Links,
         conn'[l] # "fresh",
         AddJobToPool(kind, l, fdOf'[l]),
         \A k \in Links : conn[k] # "fresh" =>
           conn'[k] # "fresh" /\ fdOf'[k] = fdOf[k]
  PROVE  JobsAtHome'
<1>1. PICK h \in Workers : WorkerOf(fdOf'[l]) = h
  BY WorkerOfType DEF TypeOK
<1>2. PICK j \in Job :
        /\ j.link = l
        /\ jobList' = [jobList EXCEPT ![h] = Append(@, j)]
        /\ running' = running
  <2> DEFINE x == [kind |-> kind, link |-> l, nr |-> queued[l]]
  <2>1. x \in Job /\ x.link = l
    BY DEF Job, TypeOK
  <2> QED
    BY <1>1, <2>1 DEF AddJobToPool
<1>3. ASSUME NEW w \in Workers, NEW x \in Job, AtHome(x, w) PROVE AtHome(x, w)'
  <2>1. x.link \in Links
    BY DEF Job
  <2> QED
    BY <1>3, <2>1 DEF AtHome, WorkerOf
<1>4. AtHome(j, h)'
  BY <1>1, <1>2 DEF AtHome, WorkerOf
<1>5. ASSUME NEW w \in Workers, NEW i \in DOMAIN jobList'[w]
      PROVE  AtHome(jobList[w][i], w)'
  <2>1. jobList[w] \in Seq(Job) /\ jobList'[w] \in Seq(Job)
    BY DEF TypeOK
  <2>2. CASE w = h /\ i = Len(jobList[w]) + 1
    <3>1. jobList'[w][i] = j
      BY <1>1, <1>2, <2>1, <2>2 DEF TypeOK
    <3> QED
      BY <3>1, <2>2, <1>4
  <2>3. CASE ~(w = h /\ i = Len(jobList[w]) + 1)
    <3>1. i \in DOMAIN jobList[w] /\ jobList'[w][i] = jobList[w][i]
      BY <1>1, <1>2, <2>1, <2>3 DEF TypeOK
    <3>2. jobList[w][i] \in Job /\ AtHome(jobList[w][i], w)
      BY <2>1, <3>1 DEF JobsAtHome
    <3> QED
      BY <3>1, <3>2, <1>3
  <2> QED
    BY <2>2, <2>3
<1>6. ASSUME NEW w \in Workers, running'[w] # Idle PROVE AtHome(running[w], w)'
  <2>1. running[w] \in Job /\ AtHome(running[w], w) /\ running'[w] = running[w]
    BY <1>2, <1>6 DEF TypeOK, JobsAtHome
  <2> QED
    BY <2>1, <1>3
<1> QED
  BY <1>5, <1>6 DEF JobsAtHome

(* When no job is added and no link changes, jobs stay at home.            *)
LEMMA MoveAtHome ==
  ASSUME TypeOK, JobsAtHome, conn' = conn, fdOf' = fdOf,
         \A w \in Workers :
           /\ \A i \in DOMAIN jobList'[w] :
                \E k \in DOMAIN jobList[w] : jobList'[w][i] = jobList[w][k]
           /\ running'[w] # Idle =>
                \/ running'[w] = running[w]
                \/ \E k \in DOMAIN jobList[w] : running'[w] = jobList[w][k]
  PROVE  JobsAtHome'
  BY DEF JobsAtHome, AtHome, WorkerOf

LEMMA HomeInit == Init => JobsAtHome
  BY DEF Init, JobsAtHome

LEMMA HomeStep == TypeOK /\ TypeOK' /\ JobsAtHome /\ [Next]_vars => JobsAtHome'
<1> SUFFICES ASSUME TypeOK, TypeOK', JobsAtHome, [Next]_vars PROVE JobsAtHome'
  OBVIOUS
<1>1. ASSUME NEW l \in Links, NEW b \in Bevs, NEW fd \in Fds, accept_conn_cb(l, b, fd)
      PROVE  JobsAtHome'
  <2>1. conn'[l] = "open" /\ fdOf'[l] = fd
    BY <1>1 DEF accept_conn_cb, TypeOK
  <2>2. AddJobToPool("accept", l, fdOf'[l])
    BY <1>1, <2>1 DEF accept_conn_cb
  <2>3. ASSUME NEW k \in Links, conn[k] # "fresh"
        PROVE  conn'[k] # "fresh" /\ fdOf'[k] = fdOf[k]
    BY <1>1, <2>3 DEF accept_conn_cb, TypeOK
  <2> QED
    BY <2>1, <2>2, <2>3, AddJobAtHome
<1>2. ASSUME NEW l \in Links, read_cb(l) PROVE JobsAtHome'
  <2>1. conn' = conn /\ fdOf' = fdOf /\ conn[l] = "open" /\ AddJobToPool("read", l, fdOf'[l])
    BY <1>2 DEF read_cb
  <2> QED
    BY <2>1, AddJobAtHome
<1>3. ASSUME NEW l \in Links, bufMapDeleteBuf(l) PROVE JobsAtHome'
  <2>1. /\ conn' = [conn EXCEPT ![l] = "closed"] /\ fdOf' = fdOf
        /\ AddJobToPool("close", l, fdOf'[l])
    BY <1>3 DEF bufMapDeleteBuf
  <2>2. conn'[l] # "fresh" /\ \A k \in Links : conn[k] # "fresh" => conn'[k] # "fresh"
    BY <2>1 DEF TypeOK
  <2> QED
    BY <2>1, <2>2, AddJobAtHome
<1>4. ASSUME NEW l \in Links, event_cb(l) PROVE JobsAtHome'
  BY <1>3, <1>4 DEF event_cb
<1>5. ASSUME UNCHANGED <<conn, fdOf, jobList, running>> PROVE JobsAtHome'
  BY <1>5, MoveAtHome
<1>6. ASSUME NEW l \in Links, timer_cb(l) PROVE JobsAtHome'
  BY <1>3, <1>5, <1>6 DEF timer_cb, poolVars
<1>7. CASE accept_error_cb
  BY <1>5, <1>7 DEF accept_error_cb, poolVars
<1>8. ASSUME NEW w \in Workers, waitForJob(w) PROVE JobsAtHome'
  BY <1>5, <1>8 DEF waitForJob, netVars
<1>9. ASSUME NEW w \in Workers, getJob(w) PROVE JobsAtHome'
  <2>1. /\ jobList[w] \in Seq(Job) /\ jobList[w] # <<>>
        /\ running' = [running EXCEPT ![w] = Head(jobList[w])]
        /\ jobList' = [jobList EXCEPT ![w] = Tail(@)]
        /\ conn' = conn /\ fdOf' = fdOf
    BY <1>9 DEF getJob, netVars, TypeOK
  <2>2. 1 \in DOMAIN jobList[w] /\ Head(jobList[w]) = jobList[w][1]
    BY <2>1
  <2>3. ASSUME NEW i \in DOMAIN Tail(jobList[w])
        PROVE  i + 1 \in DOMAIN jobList[w] /\ Tail(jobList[w])[i] = jobList[w][i + 1]
    BY <2>1
  <2>4. ASSUME NEW v \in Workers
        PROVE  /\ \A i \in DOMAIN jobList'[v] :
                    \E k \in DOMAIN jobList[v] : jobList'[v][i] = jobList[v][k]
               /\ running'[v] # Idle =>
                    \/ running'[v] = running[v]
                    \/ \E k \in DOMAIN jobList[v] : running'[v] = jobList[v][k]
    <3>1. CASE v = w
      <4>1. jobList'[v] = Tail(jobList[w]) /\ running'[v] = Head(jobList[w])
        BY <2>1, <3>1 DEF TypeOK
      <4> QED
        BY <4>1, <3>1, <2>2, <2>3
    <3>2. CASE v # w
      <4>1. jobList'[v] = jobList[v] /\ running'[v] = running[v]
        BY <2>1, <3>2 DEF TypeOK
      <4> QED
        BY <4>1
    <3> QED
      BY <3>1, <3>2
  <2> QED
    BY <2>1, <2>4, MoveAtHome
<1>10. ASSUME NEW w \in Workers, jobDone(w) PROVE JobsAtHome'
  BY <1>10, MoveAtHome DEF jobDone, netVars, TypeOK
<1>11. CASE UNCHANGED vars
  BY <1>5, <1>11 DEF vars, netVars, poolVars
<1> QED
  BY <1>1, <1>2, <1>4, <1>6, <1>7, <1>8, <1>9, <1>10, <1>11 DEF Next, EventLoop, Worker

(* Two workers never run handlers of links with the same descriptor at the *)
(* same time: each descriptor has one worker.                              *)
THEOREM NoOverlap == Spec => []HandlersNeverOverlap
<1>1. JobsAtHome => HandlersNeverOverlap
  BY DEF JobsAtHome, AtHome, HandlersNeverOverlap
<1> QED
  BY <1>1, TypeCorrect, HomeInit, HomeStep, PTL DEF Spec
-----------------------------------------------------------------------------
LEMMA MapsInit == Init => MapsFollowSockets
  BY DEF Init, MapsFollowSockets, Mapped, Counting

(* A step that closes a link in bufMapDeleteBuf keeps the maps in step.    *)
LEMMA DeleteKeepsMaps ==
  ASSUME TypeOK, MapsFollowSockets, NEW l \in Links,
         conn[l] = "open", bufMapDeleteBuf(l),
         \A k \in Links \ {l} : silent'[k] = silent[k]
  PROVE  MapsFollowSockets'
<1> DEFINE b == bevOf[l]
<1>1. /\ b \in Bevs /\ bufMap[b] = l
      /\ bufMap' = [bufMap EXCEPT ![b] = NoLink]
      /\ mCounter' = [mCounter EXCEPT ![b] = NoCounter]
      /\ conn' = [conn EXCEPT ![l] = "closed"] /\ bevOf' = bevOf
  BY DEF bufMapDeleteBuf, MapsFollowSockets, TypeOK
<1>2. ASSUME NEW k \in Links, conn'[k] = "open"
      PROVE  bufMap'[bevOf'[k]] = k /\ mCounter'[bevOf'[k]] = silent'[k]
  <2>1. k # l /\ conn[k] = "open"
    BY <1>1, <1>2 DEF TypeOK
  <2>2. bufMap[bevOf[k]] = k /\ mCounter[bevOf[k]] = silent[k] /\ bevOf[k] # b
    BY <1>1, <2>1 DEF MapsFollowSockets
  <2> QED
    BY <1>1, <2>1, <2>2 DEF TypeOK
<1>3. ASSUME NEW c \in Bevs, bufMap'[c] # NoLink
      PROVE  conn'[bufMap'[c]] = "open" /\ bevOf'[bufMap'[c]] = c
  <2>1. c # b /\ bufMap'[c] = bufMap[c]
    BY <1>1, <1>3 DEF TypeOK
  <2>2. bufMap[c] \in Links /\ conn[bufMap[c]] = "open" /\ bevOf[bufMap[c]] = c
    BY <1>3, <2>1 DEF MapsFollowSockets, Mapped, TypeOK
  <2> QED
    BY <1>1, <2>1, <2>2 DEF TypeOK
<1>4. ASSUME NEW c \in Bevs PROVE mCounter'[c] # NoCounter <=> bufMap'[c] # NoLink
  BY <1>1 DEF MapsFollowSockets, Mapped, Counting, TypeOK
<1> QED
  BY <1>2, <1>3, <1>4 DEF MapsFollowSockets, Mapped, Counting

LEMMA MapsStep == TypeOK /\ MapsFollowSockets /\ [Next]_vars => MapsFollowSockets'
<1> SUFFICES ASSUME TypeOK, MapsFollowSockets, [Next]_vars PROVE MapsFollowSockets'
  OBVIOUS
<1> USE DEF MapsFollowSockets, Mapped, Counting
<1>1. ASSUME NEW l \in Links, NEW b \in Bevs, NEW fd \in Fds, accept_conn_cb(l, b, fd)
      PROVE  MapsFollowSockets'
  <2>1. bufMap[b] = NoLink
    BY <1>1 DEF accept_conn_cb, TypeOK
  <2>2. /\ bufMap' = [bufMap EXCEPT ![b] = l]
        /\ mCounter' = [mCounter EXCEPT ![b] = 0]
        /\ conn' = [conn EXCEPT ![l] = "open"] /\ bevOf' = [bevOf EXCEPT ![l] = b]
        /\ silent' = [silent EXCEPT ![l] = 0]
    BY <1>1, <2>1 DEF accept_conn_cb
  <2>3. \A k \in Links : conn[k] = "open" => bevOf[k] # b
    BY <1>1 DEF accept_conn_cb
  <2>4. l \in Links /\ l # NoLink /\ conn[l] = "fresh"
    BY <1>1, NoLinkAssumption DEF accept_conn_cb
  <2>5. ASSUME NEW k \in Links, conn'[k] = "open"
        PROVE  bufMap'[bevOf'[k]] = k /\ mCounter'[bevOf'[k]] = silent'[k]
    BY <2>2, <2>3, <2>5 DEF TypeOK
  <2>6. ASSUME NEW c \in Bevs, bufMap'[c] # NoLink
        PROVE  conn'[bufMap'[c]] = "open" /\ bevOf'[bufMap'[c]] = c
    <3>1. CASE c = b
      BY <2>2, <3>1 DEF TypeOK
    <3>2. CASE c # b
      <4>1. /\ bufMap'[c] = bufMap[c] /\ bufMap[c] \in Links
            /\ conn[bufMap[c]] = "open" /\ bevOf[bufMap[c]] = c
        BY <2>2, <2>6, <3>2 DEF TypeOK
      <4>2. bufMap[c] # l
        BY <4>1, <2>4
      <4> QED
        BY <4>1, <4>2, <2>2 DEF TypeOK
    <3> QED
      BY <3>1, <3>2
  <2>7. ASSUME NEW c \in Bevs PROVE mCounter'[c] # NoCounter <=> bufMap'[c] # NoLink
    BY <2>2, <2>4 DEF TypeOK
  <2> QED
    BY <2>5, <2>6, <2>7
<1>2. ASSUME NEW l \in Links, NEW n \in Nat, conn[l] = "open",
             mCounter' = [mCounter EXCEPT ![bevOf[l]] = n],
             silent' = [silent EXCEPT ![l] = n],
             UNCHANGED <<conn, bevOf, bufMap>>
      PROVE  MapsFollowSockets'
  <2>1. bevOf[l] \in Bevs /\ bufMap[bevOf[l]] = l /\ l # NoLink
    BY <1>2, NoLinkAssumption DEF TypeOK
  <2>2. ASSUME NEW k \in Links, conn'[k] = "open"
        PROVE  bufMap'[bevOf'[k]] = k /\ mCounter'[bevOf'[k]] = silent'[k]
    <3>1. CASE k = l
      BY <1>2, <2>1, <3>1 DEF TypeOK
    <3>2. CASE k # l
      <4>1. bevOf[k] # bevOf[l] /\ mCounter[bevOf[k]] = silent[k] /\ bufMap[bevOf[k]] = k
        BY <1>2, <2>1, <2>2, <3>2
      <4> QED
        BY <1>2, <3>2, <4>1 DEF TypeOK
    <3> QED
      BY <3>1, <3>2
  <2>3. ASSUME NEW c \in Bevs PROVE mCounter'[c] # NoCounter <=> bufMap'[c] # NoLink
    BY <1>2, <2>1 DEF TypeOK
  <2> QED
    BY <1>2, <2>2, <2>3
<1>3. ASSUME NEW l \in Links, read_cb(l) PROVE MapsFollowSockets'
  BY <1>2, <1>3 DEF read_cb
<1>4. ASSUME NEW l \in Links, event_cb(l) PROVE MapsFollowSockets'
  BY <1>4, DeleteKeepsMaps DEF event_cb
<1>5. ASSUME NEW l \in Links, timer_cb(l) PROVE MapsFollowSockets'
  <2> DEFINE missed == mCounter[bevOf[l]] + 1
  <2>1. /\ conn[l] = "open" /\ silent' = [silent EXCEPT ![l] = @ + 1]
        /\ missed = silent[l] + 1 /\ missed \in Nat
    BY <1>5 DEF timer_cb, TypeOK
  <2>2. CASE bufMapDeleteBuf(l)
    BY <2>1, <2>2, DeleteKeepsMaps DEF TypeOK
  <2>3. CASE mCounter' = [mCounter EXCEPT ![bevOf[l]] = missed]
             /\ UNCHANGED <<conn, bevOf, bufMap>>
    <3>1. silent' = [silent EXCEPT ![l] = missed]
      BY <2>1
    <3> HIDE DEF missed
    <3> QED
      BY <1>2, <2>1, <2>3, <3>1
  <2> QED
    BY <1>5, <2>2, <2>3 DEF timer_cb
<1>6. ASSUME UNCHANGED <<conn, bevOf, bufMap, mCounter, silent>> PROVE MapsFollowSockets'
  BY <1>6
<1>7. CASE accept_error_cb
  BY <1>6, <1>7 DEF accept_error_cb
<1>8. ASSUME NEW w \in Workers, Worker(w) PROVE MapsFollowSockets'
  BY <1>6, <1>8 DEF Worker, waitForJob, getJob, jobDone, netVars
<1>9. CASE UNCHANGED vars
  BY <1>6, <1>9 DEF vars, netVars
<1> QED
  BY <1>1, <1>3, <1>4, <1>5, <1>7, <1>8, <1>9 DEF Next, EventLoop

(* The maps of the event thread follow the sockets although descriptors    *)
(* and bufferevent addresses are used again.                               *)
THEOREM MapsCorrect == Spec => []MapsFollowSockets
  BY TypeCorrect, MapsInit, MapsStep, PTL DEF Spec

(* A timer closes a link only at the tick after MaxMissed ticks in a row   *)
(* without data, neither earlier nor later.                                *)
THEOREM ExpiryExact == Spec => ExpiresOnlyWhenSilent
<1> DEFINE Exact ==
      \A l \in Links :
        timer_cb(l) /\ conn[l] = "open" /\ conn'[l] = "closed"
          => silent'[l] = MaxMissed + 1
<1>1. TypeOK /\ MapsFollowSockets => Exact
  <2> SUFFICES ASSUME TypeOK, MapsFollowSockets, NEW l \in Links,
                      timer_cb(l), conn[l] = "open", conn'[l] = "closed"
               PROVE  silent'[l] = MaxMissed + 1
    OBVIOUS
  <2>1. bevOf[l] \in Bevs /\ mCounter[bevOf[l]] = silent[l] /\ silent[l] \in Nat
    BY DEF MapsFollowSockets, TypeOK
  <2>2. silent[l] <= MaxMissed
    BY <2>1, BoundAssumption DEF TypeOK
  <2>3. silent[l] + 1 > MaxMissed /\ silent'[l] = silent[l] + 1
    BY <2>1 DEF timer_cb, TypeOK
  <2> QED
    BY <2>1, <2>2, <2>3, BoundAssumption
<1>2. TypeOK /\ MapsFollowSockets /\ [Next]_vars => [Exact]_vars
  BY <1>1
<1>3. Spec => [][Exact]_vars
  BY <1>2, TypeCorrect, MapsCorrect, PTL DEF Spec
<1> QED
  BY <1>3 DEF ExpiresOnlyWhenSilent
-----------------------------------------------------------------------------
(* The order of the queues.  Of two links that were given one descriptor,  *)
(* the earlier is closed, and as long as a job of it is queued or running, *)
(* the accept job of the later is queued behind all of them.               *)
Ahead(k, l) ==
  /\ conn[k] = "closed"
  /\ Pending(k) \/ Handled(k) =>
       \E w \in Workers : \E n \in InList(w, l) :
         jobList[w][n].kind = "accept" /\ \A i \in InList(w, k) : i < n
LinksInOrder ==
  \A k, l \in Links :
    k # l /\ conn[k] # "fresh" /\ conn[l] # "fresh" /\ fdOf[k] = fdOf[l] =>
      Ahead(k, l) \/ Ahead(l, k)

(* The jobs of one link: its first is the accept job, its last, once the   *)
(* link is closed, the close job; they are queued and run in their order,  *)
(* and while one of them is left, so is the last.                          *)
Numbered(j) ==
  /\ j.nr < queued[j.link]
  /\ j.kind = "accept" <=> j.nr = 0
  /\ j.kind = "close" <=> conn[j.link] = "closed" /\ j.nr = queued[j.link] - 1
LastQueued(j, w) ==
  j.nr + 1 < queued[j.link] =>
    \E i \in InList(w, j.link) : jobList[w][i].nr = queued[j.link] - 1
JobsInOrder ==
  /\ \A l \in Links : queued[l] >= IF conn[l] = "fresh" THEN 0 ELSE IF conn[l] = "open" THEN 1 ELSE 2
  /\ \A l \in Links : conn[l] = "fresh" => queued[l] = 0
  /\ \A w \in Workers :
       /\ \A i \in DOMAIN jobList[w] : Numbered(jobList[w][i]) /\ LastQueued(jobList[w][i], w)
       /\ \A i, k \in DOMAIN jobList[w] :
            i < k /\ jobList[w][i].link = jobList[w][k].link => jobList[w][i].nr < jobList[w][k].nr
       /\ running[w] # Idle =>
            /\ Numbered(running[w])
            /\ LastQueued(running[w], w)
            /\ \A i \in InList(w, running[w].link) : running[w].nr < jobList[w][i].nr
-----------------------------------------------------------------------------
(* What happens to the queues, job by job.                                 *)
JobAdded(kind, l, h) ==
  LET n == Len(jobList[h]) + 1 IN
  /\ h \in Workers
  /\ h = WorkerOf(fdOf'[l])
  /\ n \notin DOMAIN jobList[h]
  /\ \A i \in DOMAIN jobList[h] : i < n
  /\ \A v \in Workers :
       /\ DOMAIN jobList'[v] = IF v = h THEN DOMAIN jobList[v] \cup {n} ELSE DOMAIN jobList[v]
       /\ \A i \in DOMAIN jobList[v] : jobList'[v][i] = jobList[v][i]
  /\ jobList'[h][n].kind = kind /\ jobList'[h][n].link = l /\ jobList'[h][n].nr = queued[l]
  /\ running' = running
  /\ queued' = [queued EXCEPT ![l] = @ + 1]

LEMMA AddJobEffect ==
  ASSUME TypeOK, NEW kind \in {"accept", "read", "close"}, NEW l \in Links,
         fdOf'[l] \in Fds, AddJobToPool(kind, l, fdOf'[l])
  PROVE  \E h \in Workers : JobAdded(kind, l, h)
<1> DEFINE j == [kind |-> kind, link |-> l, nr |-> queued[l]]
           h == WorkerOf(fdOf'[l])
           n == Len(jobList[h]) + 1
<1>1. h \in Workers
  BY WorkerOfType
<1>2. jobList[h] \in Seq(Job) /\ j \in Job
  BY <1>1 DEF TypeOK, Job
<1>3. jobList' = [jobList EXCEPT ![h] = Append(@, j)] /\ running' = running /\ queued' = [queued EXCEPT ![l] = @ + 1]
  BY DEF AddJobToPool
<1>4. jobList'[h] = Append(jobList[h], j) /\ \A v \in Workers : v # h => jobList'[v] = jobList[v]
  BY <1>1, <1>3 DEF TypeOK
<1> HIDE DEF j, h
<1>5. /\ n \notin DOMAIN jobList[h]
      /\ \A i \in DOMAIN jobList[h] : i < n
      /\ DOMAIN jobList'[h] = DOMAIN jobList[h] \cup {n}
      /\ \A i \in DOMAIN jobList[h] : jobList'[h][i] = jobList[h][i]
      /\ jobList'[h][n] = j
  BY <1>2, <1>4
<1>6. ASSUME NEW v \in Workers
      PROVE  /\ DOMAIN jobList'[v] = IF v = h THEN DOMAIN jobList[v] \cup {n} ELSE DOMAIN jobList[v]
             /\ \A i \in DOMAIN jobList[v] : jobList'[v][i] = jobList[v][i]
  BY <1>4, <1>5
<1>7. jobList'[h][n].kind = kind /\ jobList'[h][n].link = l /\ jobList'[h][n].nr = queued[l]
  BY <1>5 DEF j
<1>8. h = WorkerOf(fdOf'[l])
  BY DEF h
<1> QED
  BY <1>1, <1>3, <1>5, <1>6, <1>7, <1>8 DEF JobAdded

JobTaken(w) ==
  /\ running[w] = Idle
  /\ running'[w] # Idle
  /\ 1 \in DOMAIN jobList[w]
  /\ running'[w] = jobList[w][1]
  /\ \A i \in DOMAIN jobList[w] :
       i # 1 => 1 < i /\ i - 1 \in DOMAIN jobList'[w] /\ jobList'[w][i - 1] = jobList[w][i]
  /\ \A i \in DOMAIN jobList'[w] : i + 1 \in DOMAIN jobList[w] /\ jobList'[w][i] = jobList[w][i + 1]
  /\ \A v \in Workers : v # w => jobList'[v] = jobList[v] /\ running'[v] = running[v]

LEMMA JobNotIdle == \A j \in Job : j # Idle
  BY DEF Job

LEMMA GetJobEffect ==
  ASSUME TypeOK, NEW w \in Workers, getJob(w)
  PROVE  JobTaken(w)
<1>1. jobList[w] \in Seq(Job) /\ jobList[w] # <<>>
  BY DEF getJob, TypeOK
<1>2. 1 \in DOMAIN jobList[w] /\ Head(jobList[w]) = jobList[w][1] /\ jobList[w][1] \in Job
  BY <1>1
<1>3. /\ running'[w] = Head(jobList[w]) /\ jobList'[w] = Tail(jobList[w])
      /\ \A v \in Workers : v # w => jobList'[v] = jobList[v] /\ running'[v] = running[v]
  BY DEF getJob, TypeOK
<1>4. ASSUME NEW i \in DOMAIN jobList[w], i # 1
      PROVE  1 < i /\ i - 1 \in DOMAIN Tail(jobList[w]) /\ Tail(jobList[w])[i - 1] = jobList[w][i]
  BY <1>1, <1>4
<1>5. ASSUME NEW i \in DOMAIN Tail(jobList[w])
      PROVE  i + 1 \in DOMAIN jobList[w] /\ Tail(jobList[w])[i] = jobList[w][i + 1]
  BY <1>1
<1> QED
  BY <1>2, <1>3, <1>4, <1>5, JobNotIdle DEF JobTaken, getJob

(* The numbers of the jobs in a list are numbers.                          *)
LEMMA Positions ==
  TypeOK => \A w \in Workers : \A i \in DOMAIN jobList[w] : i \in Nat /\ i >= 1 /\ jobList[w][i] \in Job
<1> SUFFICES ASSUME TypeOK, NEW w \in Workers
             PROVE  \A i \in DOMAIN jobList[w] : i \in Nat /\ i >= 1 /\ jobList[w][i] \in Job
  OBVIOUS
<1>1. jobList[w] \in Seq(Job)
  BY DEF TypeOK
<1> QED
  BY <1>1

(* A job that is added to one link leaves the jobs of the others alone.    *)
SameJobs(k) ==
  \A v \in Workers :
    InList(v, k)' = InList(v, k) /\ \A i \in InList(v, k) : jobList'[v][i] = jobList[v][i]

LEMMA OthersJobs ==
  ASSUME NEW kind, NEW l \in Links, NEW h \in Workers, JobAdded(kind, l, h), NEW k \in Links \ {l}
  PROVE  SameJobs(k)
<1> SUFFICES ASSUME NEW v \in Workers
             PROVE  InList(v, k)' = InList(v, k) /\ \A i \in InList(v, k) : jobList'[v][i] = jobList[v][i]
  BY DEF SameJobs
<1>1. PICK n : n = Len(jobList[h]) + 1
  OBVIOUS
<1>2. /\ DOMAIN jobList'[v] = IF v = h THEN DOMAIN jobList[v] \cup {n} ELSE DOMAIN jobList[v]
      /\ \A i \in DOMAIN jobList[v] : jobList'[v][i] = jobList[v][i]
      /\ v = h => jobList'[v][n].link = l
  BY <1>1 DEF JobAdded
<1> QED
  BY <1>2 DEF InList
-----------------------------------------------------------------------------
LEMMA LinksInit == Init => LinksInOrder
  BY DEF Init, LinksInOrder

(* Neither a job that is added to another link, ...                        *)
LEMMA LinksAdd ==
  ASSUME TypeOK, TypeOK', LinksInOrder,
         NEW kind \in {"accept", "read", "close"}, NEW l \in Links, NEW h \in Workers, JobAdded(kind, l, h),
         \A k \in Links \ {l} : conn'[k] = conn[k] /\ fdOf'[k] = fdOf[k],
         conn[l] # "fresh" => kind # "accept" /\ conn[l] = "open" /\ fdOf'[l] = fdOf[l],
         conn[l] = "fresh" => kind = "accept" /\ conn'[l] = "open" /\ \A k \in Links : conn[k] = "open" => fdOf[k] # fdOf'[l]
  PROVE  LinksInOrder'
<1> DEFINE n == Len(jobList[h]) + 1
<1>1. ASSUME NEW k \in Links \ {l}
      PROVE  /\ \A v \in Workers : InList(v, k)' = InList(v, k)
             /\ \A v \in Workers : \A i \in InList(v, k) : jobList'[v][i] = jobList[v][i]
             /\ Pending(k)' <=> Pending(k)
             /\ Handled(k)' <=> Handled(k)
  <2>1. SameJobs(k)
    BY OthersJobs
  <2>2. running' = running
    BY DEF JobAdded
  <2> QED
    BY <2>1, <2>2 DEF SameJobs, Pending, Handled, Runs
<1>2. \A v \in Workers : InList(v, l) \subseteq InList(v, l)' /\ \A i \in InList(v, l) : jobList'[v][i] = jobList[v][i]
  BY DEF JobAdded, InList
<1>3. ASSUME NEW k \in Links, NEW m \in Links \ {k}, k # l, Ahead(k, m) PROVE Ahead(k, m)'
  <2>1. conn'[k] = "closed"
    BY <1>3 DEF Ahead
  <2>2. ASSUME Pending(k)' \/ Handled(k)'
        PROVE  \E w \in Workers : \E i \in InList(w, m)' :
                 jobList'[w][i].kind = "accept" /\ \A x \in InList(w, k)' : x < i
    <3>1. Pending(k) \/ Handled(k)
      BY <1>1, <1>3, <2>2
    <3>2. PICK w \in Workers : \E i \in InList(w, m) : jobList[w][i].kind = "accept" /\ \A x \in InList(w, k) : x < i
      BY <1>3, <3>1 DEF Ahead
    <3> QED
      BY <1>1, <1>2, <1>3, <3>2
  <2> QED
    BY <2>1, <2>2 DEF Ahead
<1>4. ASSUME NEW k \in Links \ {l}, conn[l] = "fresh", conn[k] = "closed", fdOf'[k] = fdOf'[l] PROVE Ahead(k, l)'
  <2>1. n \in InList(h, l)' /\ jobList'[h][n].kind = "accept"
    BY <1>4 DEF JobAdded, InList
  <2>2. \A x \in InList(h, k)' : x < n
    BY <1>1 DEF JobAdded, InList
  <2> QED
    BY <1>4, <2>1, <2>2 DEF Ahead
<1>5. SUFFICES ASSUME NEW k \in Links, NEW m \in Links, k # m, conn'[k] # "fresh", conn'[m] # "fresh", fdOf'[k] = fdOf'[m]
               PROVE  Ahead(k, m)' \/ Ahead(m, k)'
  BY DEF LinksInOrder
<1>6. CASE conn[l] # "fresh"
  <2>1. Ahead(k, m) \/ Ahead(m, k)
    BY <1>5, <1>6 DEF LinksInOrder
  <2>2. ~Ahead(l, m) /\ ~Ahead(l, k)
    BY <1>6 DEF Ahead
  <2> QED
    BY <1>3, <1>5, <2>1, <2>2
<1>7. CASE conn[l] = "fresh" /\ k # l /\ m # l
  BY <1>3, <1>5, <1>7 DEF LinksInOrder
<1>8. CASE conn[l] = "fresh" /\ k = l
  BY <1>4, <1>5, <1>8 DEF TypeOK
<1>9. CASE conn[l] = "fresh" /\ m = l
  BY <1>4, <1>5, <1>9 DEF TypeOK
<1> QED
  BY <1>6, <1>7, <1>8, <1>9

(* ... nor one that is taken from the front of a list, ...                 *)
LEMMA LinksTake ==
  ASSUME TypeOK, TypeOK', JobsAtHome, LinksInOrder, NEW w \in Workers, JobTaken(w), conn' = conn, fdOf' = fdOf
  PROVE  LinksInOrder'
<1>1. ASSUME NEW k \in Links, Pending(k)' \/ Handled(k)' PROVE Pending(k) \/ Handled(k)
  BY <1>1 DEF JobTaken, Pending, Handled, Runs, InList
<1>2. ASSUME NEW k \in Links, NEW l \in Links, k # l, fdOf[k] = fdOf[l], Ahead(k, l)
      PROVE  Ahead(k, l)'
  <2> SUFFICES ASSUME Pending(k)' \/ Handled(k)'
               PROVE  \E v \in Workers : \E n \in InList(v, l)' :
                        jobList'[v][n].kind = "accept" /\ \A i \in InList(v, k)' : i < n
    BY <1>2 DEF Ahead
  <2>0. PICK v \in Workers : \E n \in InList(v, l) : jobList[v][n].kind = "accept" /\ \A i \in InList(v, k) : i < n
    BY <1>1, <1>2 DEF Ahead
  <2>1. PICK n \in InList(v, l) : jobList[v][n].kind = "accept" /\ \A i \in InList(v, k) : i < n
    BY <2>0
  <2>2. CASE v # w
    BY <2>1, <2>2 DEF JobTaken, InList
  <2>3. CASE v = w
    <3>1. n \in Nat /\ \A i \in DOMAIN jobList[w] : i \in Nat
      BY <2>1, <2>3, Positions DEF InList
    <3>2. CASE n # 1
      <4>1. n - 1 \in InList(w, l)' /\ jobList'[w][n - 1].kind = "accept"
        BY <2>1, <2>3, <3>2 DEF JobTaken, InList
      <4>2. ASSUME NEW i \in InList(w, k)' PROVE i < n - 1
        <5>1. i + 1 \in InList(w, k)
          BY <4>2 DEF JobTaken, InList
        <5>2. i + 1 \in DOMAIN jobList[w] /\ i + 1 < n
          BY <2>1, <2>3, <5>1 DEF InList
        <5>3. i \in DOMAIN jobList'[w]
          BY <4>2 DEF InList
        <5>4. jobList'[w] \in Seq(Job)
          BY DEF TypeOK
        <5> QED
          BY <3>1, <5>2, <5>3, <5>4
      <4> QED
        BY <4>1, <4>2
    <3>3. CASE n = 1
      <4>1. InList(w, k) = {}
        <5>1. \A i \in DOMAIN jobList[w] : i >= 1
          BY Positions
        <5> QED
          BY <2>1, <2>3, <3>1, <3>3, <5>1 DEF InList
      <4>2. \A u \in Workers : u # w => InList(u, k) = {} /\ ~Runs(u, k)
        <5>1. WorkerOf(fdOf[k]) = w
          BY <1>2, <2>1, <2>3 DEF JobsAtHome, AtHome, InList
        <5> QED
          BY <5>1 DEF JobsAtHome, AtHome, InList, Runs
      <4>3. InList(w, k)' = {}
        BY <4>1 DEF JobTaken, InList
      <4>4. ~Runs(w, k)'
        BY <1>2, <2>1, <2>3, <3>3 DEF JobTaken, Runs, InList
      <4>5. \A u \in Workers : u # w => InList(u, k)' = {} /\ ~Runs(u, k)'
        BY <4>2 DEF JobTaken, InList, Runs
      <4> QED
        BY <4>3, <4>4, <4>5 DEF Pending, Handled
    <3> QED
      BY <2>3, <3>2, <3>3
  <2> QED
    BY <2>2, <2>3
<1> QED
  BY <1>2 DEF LinksInOrder

(* ... nor one that is done disturbs the order.                            *)
LEMMA LinksKeep ==
  ASSUME LinksInOrder, UNCHANGED <<conn, fdOf, jobList>>,
         \A w \in Workers : running'[w] = running[w] \/ running'[w] = Idle
  PROVE  LinksInOrder'
<1>1. \A k \in Links : Handled(k)' => Handled(k)
  BY DEF Handled, Runs
<1>2. \A k, l \in Links : Ahead(k, l) => Ahead(k, l)'
  BY <1>1 DEF Ahead, Pending, InList
<1> QED
  BY <1>2 DEF LinksInOrder

(* The callback or worker that a step is of, seen from the queues.         *)
LEMMA StepEffect ==
  ASSUME TypeOK, MapsFollowSockets, [Next]_vars
  PROVE  \/ \E l \in Links, h \in Workers :
              /\ JobAdded("accept", l, h)
              /\ conn[l] = "fresh" /\ conn' = [conn EXCEPT ![l] = "open"]
              /\ fdOf' = [fdOf EXCEPT ![l] = fdOf'[l]]
              /\ \A k \in Links : conn[k] = "open" => fdOf[k] # fdOf'[l]
         \/ \E l \in Links, h \in Workers :
              /\ JobAdded("read", l, h)
              /\ conn[l] = "open" /\ conn' = conn /\ fdOf' = fdOf
         \/ \E l \in Links, h \in Workers :
              /\ JobAdded("close", l, h)
              /\ conn[l] = "open" /\ conn' = [conn EXCEPT ![l] = "closed"] /\ fdOf' = fdOf
         \/ \E w \in Workers : JobTaken(w) /\ UNCHANGED <<conn, fdOf, queued>>
         \/ \E w \in Workers :
              /\ running[w] # Idle /\ running' = [running EXCEPT ![w] = Idle]
              /\ UNCHANGED <<conn, fdOf, queued, jobList>>
         \/ UNCHANGED <<conn, fdOf, queued, jobList, running>>
<1>1. ASSUME NEW l \in Links, NEW b \in Bevs, NEW fd \in Fds, accept_conn_cb(l, b, fd)
      PROVE  \E h \in Workers :
              /\ JobAdded("accept", l, h)
              /\ conn[l] = "fresh" /\ conn' = [conn EXCEPT ![l] = "open"]
              /\ fdOf' = [fdOf EXCEPT ![l] = fdOf'[l]]
              /\ \A k \in Links : conn[k] = "open" => fdOf[k] # fdOf'[l]
  <2>1. fdOf'[l] = fd /\ fdOf' = [fdOf EXCEPT ![l] = fdOf'[l]]
    BY <1>1 DEF accept_conn_cb, TypeOK
  <2>2. AddJobToPool("accept", l, fdOf'[l])
    BY <1>1, <2>1 DEF accept_conn_cb
  <2>3. \E h \in Workers : JobAdded("accept", l, h)
    BY <2>1, <2>2, AddJobEffect
  <2> QED
    BY <1>1, <2>1, <2>3 DEF accept_conn_cb
<1>2. ASSUME NEW l \in Links, read_cb(l)
      PROVE  \E h \in Workers :
              /\ JobAdded("read", l, h)
              /\ conn[l] = "open" /\ conn' = conn /\ fdOf' = fdOf
  <2>1. conn[l] = "open" /\ conn' = conn /\ fdOf' = fdOf
    BY <1>2 DEF read_cb
  <2>2. fdOf'[l] \in Fds /\ AddJobToPool("read", l, fdOf'[l])
    BY <1>2, <2>1 DEF read_cb, TypeOK
  <2> QED
    BY <2>1, <2>2, AddJobEffect
<1>3. ASSUME NEW l \in Links, conn[l] = "open", bufMapDeleteBuf(l)
      PROVE  \E h \in Workers :
              /\ JobAdded("close", l, h)
              /\ conn[l] = "open" /\ conn' = [conn EXCEPT ![l] = "closed"] /\ fdOf' = fdOf
  <2>1. conn' = [conn EXCEPT ![l] = "closed"] /\ fdOf' = fdOf
    BY <1>3 DEF bufMapDeleteBuf
  <2>2. fdOf'[l] \in Fds /\ AddJobToPool("close", l, fdOf'[l])
    BY <1>3, <2>1 DEF bufMapDeleteBuf, TypeOK
  <2> QED
    BY <1>3, <2>1, <2>2, AddJobEffect
<1>4. ASSUME NEW l \in Links, event_cb(l) PROVE conn[l] = "open" /\ bufMapDeleteBuf(l)
  BY <1>4 DEF event_cb
<1>5. ASSUME NEW l \in Links, timer_cb(l)
      PROVE  \/ conn[l] = "open" /\ bufMapDeleteBuf(l)
             \/ UNCHANGED <<conn, fdOf, queued, jobList, running>>
  BY <1>5 DEF timer_cb, poolVars
<1>6. CASE accept_error_cb
  BY <1>6 DEF accept_error_cb, poolVars
<1>7. ASSUME NEW w \in Workers, waitForJob(w) PROVE UNCHANGED <<conn, fdOf, queued, jobList, running>>
  BY <1>7 DEF waitForJob, netVars
<1>8. ASSUME NEW w \in Workers, getJob(w) PROVE JobTaken(w) /\ UNCHANGED <<conn, fdOf, queued>>
  BY <1>8, GetJobEffect DEF getJob, netVars
<1>9. ASSUME NEW w \in Workers, jobDone(w)
      PROVE  /\ running[w] # Idle /\ running' = [running EXCEPT ![w] = Idle]
             /\ UNCHANGED <<conn, fdOf, queued, jobList>>
  BY <1>9 DEF jobDone, netVars
<1>10. CASE UNCHANGED vars
  BY <1>10 DEF vars, netVars, poolVars
<1> QED
  BY <1>1, <1>2, <1>3, <1>4, <1>5, <1>6, <1>7, <1>8, <1>9, <1>10 DEF Next, EventLoop, Worker

LEMMA LinksStep ==
  TypeOK /\ TypeOK' /\ JobsAtHome /\ MapsFollowSockets /\ LinksInOrder /\ [Next]_vars => LinksInOrder'
<1> SUFFICES ASSUME TypeOK, TypeOK', JobsAtHome, MapsFollowSockets, LinksInOrder, [Next]_vars
             PROVE  LinksInOrder'
  OBVIOUS
<1>1. ASSUME NEW l \in Links, NEW h \in Workers, JobAdded("accept", l, h),
             conn[l] = "fresh", conn' = [conn EXCEPT ![l] = "open"],
             fdOf' = [fdOf EXCEPT ![l] = fdOf'[l]],
             \A k \in Links : conn[k] = "open" => fdOf[k] # fdOf'[l]
      PROVE  LinksInOrder'
  <2>1. conn'[l] = "open" /\ \A k \in Links \ {l} : conn'[k] = conn[k] /\ fdOf'[k] = fdOf[k]
    BY <1>1 DEF TypeOK
  <2> QED
    BY <1>1, <2>1, LinksAdd
<1>2. ASSUME NEW l \in Links, NEW h \in Workers, JobAdded("read", l, h), conn[l] = "open", conn' = conn, fdOf' = fdOf
      PROVE  LinksInOrder'
  BY <1>2, LinksAdd
<1>3. ASSUME NEW l \in Links, NEW h \in Workers, JobAdded("close", l, h),
             conn[l] = "open", conn' = [conn EXCEPT ![l] = "closed"], fdOf' = fdOf
      PROVE  LinksInOrder'
  <2>1. \A k \in Links \ {l} : conn'[k] = conn[k] /\ fdOf'[k] = fdOf[k]
    BY <1>3 DEF TypeOK
  <2> QED
    BY <1>3, <2>1, LinksAdd
<1>4. ASSUME NEW w \in Workers, JobTaken(w), UNCHANGED <<conn, fdOf, queued>> PROVE LinksInOrder'
  BY <1>4, LinksTake
<1>5. ASSUME NEW w \in Workers, running' = [running EXCEPT ![w] = Idle], UNCHANGED <<conn, fdOf, queued, jobList>>
      PROVE  LinksInOrder'
  BY <1>5, LinksKeep DEF TypeOK
<1>6. ASSUME UNCHANGED <<conn, fdOf, queued, jobList, running>> PROVE LinksInOrder'
  BY <1>6, LinksKeep
<1> QED
  BY <1>1, <1>2, <1>3, <1>4, <1>5, <1>6, StepEffect

(* A descriptor that is used again is handed over in order: the service    *)
(* hears of the new link only after OnClose of the old one has returned.   *)
THEOREM HandedOver == Spec => []FdHandedOverInOrder
<1>1. LinksInOrder => FdHandedOverInOrder
  <2> SUFFICES ASSUME LinksInOrder, NEW k \in Links, NEW l \in Links, k # l, Known(k), Known(l), fdOf[k] = fdOf[l]
               PROVE  FALSE
    BY DEF FdHandedOverInOrder
  <2>1. \A j \in Links : \A m \in Links : Known(j) /\ Ahead(j, m) => AcceptPending(m)
    BY DEF Known, Ahead, AcceptPending
  <2> QED
    BY <2>1 DEF LinksInOrder, Known
<1> QED
  BY <1>1, TypeCorrect, TypeInit, TypeStep, HomeInit, HomeStep, MapsCorrect, LinksInit, LinksStep, PTL DEF Spec
-----------------------------------------------------------------------------
LEMMA JobsInit == Init => JobsInOrder
  BY DEF Init, JobsInOrder

(* A job that is added is the last of its link.                            *)
LEMMA JobsAdd ==
  ASSUME TypeOK, TypeOK', JobsAtHome, JobsInOrder,
         NEW kind \in {"accept", "read", "close"}, NEW l \in Links, NEW h \in Workers, JobAdded(kind, l, h),
         \A k \in Links \ {l} : conn'[k] = conn[k],
         conn[l] = IF kind = "accept" THEN "fresh" ELSE "open",
         conn'[l] = IF kind = "close" THEN "closed" ELSE "open",
         conn[l] # "fresh" => fdOf'[l] = fdOf[l]
  PROVE  JobsInOrder'
<1> DEFINE q == queued[l]
<1>0. PICK n \in Nat : n = Len(jobList[h]) + 1
  BY DEF TypeOK
<1>1. q \in Nat /\ queued'[l] = q + 1 /\ \A k \in Links : k # l => queued'[k] = queued[k]
  BY DEF JobAdded, TypeOK
<1>2. (q = 0 <=> kind = "accept")
  BY <1>1 DEF JobsInOrder
<1>3. n \in InList(h, l)' /\ jobList'[h][n].link = l /\ jobList'[h][n].nr = q
  BY <1>0 DEF JobAdded, InList
<1>4. Numbered(jobList[h][n])' /\ LastQueued(jobList[h][n], h)'
  <2>1. PICK x \in Job : jobList'[h][n] = x
    BY <1>3 DEF TypeOK, InList
  <2>2. x.kind = kind /\ x.link = l /\ x.nr = q
    BY <1>0, <2>1 DEF JobAdded
  <2>3. Numbered(x)' /\ LastQueued(x, h)'
    BY <1>1, <1>2, <1>3, <2>2 DEF Numbered, LastQueued
  <2> QED
    BY <2>1, <2>3
<1>5. ASSUME NEW w \in Workers, NEW j \in Job, AtHome(j, w), Numbered(j), LastQueued(j, w)
      PROVE  Numbered(j)' /\ LastQueued(j, w)' /\ (j.link = l => w = h /\ j.nr < q)
  <2>1. j.link \in Links /\ j.nr \in Nat
    BY DEF Job
  <2>2. CASE j.link # l
    <3>1. Numbered(j)'
      BY <1>1, <1>5, <2>1, <2>2 DEF Numbered
    <3>2. LastQueued(j, w)'
      BY <1>1, <1>5, <2>1, <2>2 DEF LastQueued, JobAdded, InList
    <3> QED
      BY <2>2, <3>1, <3>2
  <2>3. CASE j.link = l
    <3>1. conn[l] = "open" /\ kind # "accept" /\ w = h
      BY <1>5, <2>3 DEF AtHome, JobAdded
    <3>2. j.nr < q /\ (j.kind = "accept" <=> j.nr = 0) /\ j.kind # "close"
      BY <1>5, <2>3, <3>1 DEF Numbered
    <3>3. Numbered(j)'
      BY <1>1, <2>1, <2>3, <3>2 DEF Numbered
    <3>4. LastQueued(j, w)'
      BY <1>1, <1>3, <2>3, <3>1 DEF LastQueued
    <3> QED
      BY <3>1, <3>2, <3>3, <3>4
  <2> QED
    BY <2>2, <2>3
<1>6. ASSUME NEW w \in Workers, NEW i \in DOMAIN jobList[w]
      PROVE  /\ jobList'[w][i] = jobList[w][i] /\ i \in DOMAIN jobList'[w]
             /\ Numbered(jobList[w][i])' /\ LastQueued(jobList[w][i], w)'
             /\ (jobList[w][i].link = l => w = h /\ jobList[w][i].nr < q)
  <2>1. PICK x \in Job : x = jobList[w][i]
    BY Positions
  <2>2. AtHome(x, w) /\ Numbered(x) /\ LastQueued(x, w)
    BY <2>1 DEF JobsAtHome, JobsInOrder
  <2>3. jobList'[w][i] = x /\ i \in DOMAIN jobList'[w]
    BY <2>1 DEF JobAdded
  <2> QED
    BY <1>5, <2>1, <2>2, <2>3
<1>7. ASSUME NEW w \in Workers, running[w] # Idle
      PROVE  /\ running'[w] = running[w]
             /\ Numbered(running[w])' /\ LastQueued(running[w], w)'
             /\ (running[w].link = l => w = h /\ running[w].nr < q)
  <2>1. PICK x \in Job : x = running[w]
    BY <1>7 DEF TypeOK
  <2>2. AtHome(x, w) /\ Numbered(x) /\ LastQueued(x, w)
    BY <1>7, <2>1 DEF JobsAtHome, JobsInOrder
  <2>3. running'[w] = x
    BY <2>1 DEF JobAdded
  <2> QED
    BY <1>5, <2>1, <2>2, <2>3
<1>8. \A w \in Workers : \A i \in DOMAIN jobList'[w] : i \in DOMAIN jobList[w] \/ (w = h /\ i = n)
  <2>1. \A w \in Workers : DOMAIN jobList'[w] = IF w = h THEN DOMAIN jobList[w] \cup {n} ELSE DOMAIN jobList[w]
    BY <1>0 DEF JobAdded
  <2> QED
    BY <2>1
<1>10. ASSUME NEW w \in Workers, NEW i \in DOMAIN jobList'[w] PROVE Numbered(jobList[w][i])' /\ LastQueued(jobList[w][i], w)'
  BY <1>4, <1>6, <1>8
<1>11. ASSUME NEW w \in Workers, NEW i \in DOMAIN jobList'[w], NEW k \in DOMAIN jobList'[w],
              i < k, jobList'[w][i].link = jobList'[w][k].link
       PROVE  jobList'[w][i].nr < jobList'[w][k].nr
  <2>1. CASE w = h /\ i = n
    <3>1. k = n \/ k < n
      BY <1>0, <1>8, <2>1 DEF JobAdded
    <3>2. k \in Nat /\ i \in Nat
      <4>1. jobList'[w] \in Seq(Job)
        BY DEF TypeOK
      <4> QED
        BY <4>1
    <3> QED
      BY <1>11, <2>1, <3>1, <3>2
  <2>2. CASE w = h /\ k = n /\ i # n
    BY <1>3, <1>6, <1>8, <1>11, <2>2
  <2>3. CASE i \in DOMAIN jobList[w] /\ k \in DOMAIN jobList[w]
    BY <1>6, <1>11, <2>3 DEF JobsInOrder
  <2> QED
    BY <1>8, <2>1, <2>2, <2>3
<1>12. ASSUME NEW w \in Workers, running'[w] # Idle
       PROVE  /\ Numbered(running[w])'
              /\ LastQueued(running[w], w)'
              /\ \A i \in InList(w, running[w].link)' : running'[w].nr < jobList'[w][i].nr
  <2>1. running'[w] = running[w]
    BY DEF JobAdded
  <2>2. ASSUME NEW i \in InList(w, running[w].link)' PROVE running[w].nr < jobList'[w][i].nr
    <3>1. i \in DOMAIN jobList'[w] /\ jobList'[w][i].link = running[w].link
      BY <2>1, <2>2 DEF InList
    <3>2. CASE i \in DOMAIN jobList[w]
      <4>1. jobList'[w][i] = jobList[w][i]
        BY <1>6, <3>2
      <4>2. i \in InList(w, running[w].link)
        BY <3>1, <3>2, <4>1 DEF InList
      <4> QED
        BY <1>12, <2>1, <4>1, <4>2 DEF JobsInOrder
    <3>3. CASE w = h /\ i = n
      BY <1>3, <1>7, <1>12, <2>1, <3>1, <3>3
    <3> QED
      BY <1>8, <3>1, <3>2, <3>3
  <2> QED
    BY <1>7, <1>12, <2>1, <2>2
<1>13. \A k \in Links :
         /\ queued'[k] >= IF conn'[k] = "fresh" THEN 0 ELSE IF conn'[k] = "open" THEN 1 ELSE 2
         /\ conn'[k] = "fresh" => queued'[k] = 0
  <2>1. q >= 1 \/ kind = "accept"
    BY <1>1, <1>2
  <2>2. queued'[l] >= IF conn'[l] = "fresh" THEN 0 ELSE IF conn'[l] = "open" THEN 1 ELSE 2
    BY <1>1, <2>1
  <2> QED
    BY <1>1, <2>2 DEF JobsInOrder
<1> QED
  BY <1>10, <1>11, <1>12, <1>13 DEF JobsInOrder

(* A job that is taken is the first of its link.                           *)
LEMMA JobsTake ==
  ASSUME TypeOK, TypeOK', JobsInOrder, NEW w \in Workers, JobTaken(w), UNCHANGED <<conn, queued>>
  PROVE  JobsInOrder'
<1>1. \A i \in DOMAIN jobList[w] : i \in Nat /\ jobList[w][i] \in Job
  BY Positions
<1>2. \A i \in DOMAIN jobList'[w] : i \in Nat
  <2>1. jobList'[w] \in Seq(Job)
    BY DEF TypeOK
  <2> QED
    BY <2>1
<1>3. ASSUME NEW j, Numbered(j) PROVE Numbered(j)'
  BY <1>3 DEF Numbered
<1>4. ASSUME NEW i \in DOMAIN jobList[w], i # 1, jobList[w][i].link = jobList[w][1].link
      PROVE  jobList[w][1].nr < jobList[w][i].nr
  BY <1>1, <1>4 DEF JobsInOrder, JobTaken
<1>5. ASSUME NEW i \in DOMAIN jobList[w], NEW j \in Job, j = jobList[w][i] PROVE LastQueued(j, w)'
  <2>1. SUFFICES ASSUME j.nr + 1 < queued[j.link]
                 PROVE  \E m \in InList(w, j.link)' : jobList'[w][m].nr = queued[j.link] - 1
    BY DEF LastQueued
  <2>2. PICK m \in InList(w, j.link) : jobList[w][m].nr = queued[j.link] - 1
    BY <1>5, <2>1 DEF JobsInOrder, LastQueued
  <2>3. j.nr \in Nat /\ j.link \in Links /\ queued[j.link] \in Nat
    BY <1>1 DEF Job, TypeOK
  <2>4. m # 1
    <3>1. CASE i = 1
      BY <1>5, <2>1, <2>2, <2>3, <3>1
    <3>2. CASE i # 1
      <4>1. m = 1 => jobList[w][1].nr < j.nr
        BY <1>4, <1>5, <2>2, <3>2 DEF InList
      <4> QED
        BY <2>1, <2>2, <2>3, <4>1
    <3> QED
      BY <3>1, <3>2
  <2>5. m - 1 \in InList(w, j.link)' /\ jobList'[w][m - 1] = jobList[w][m]
    BY <2>2, <2>4 DEF JobTaken, InList
  <2> QED
    BY <2>2, <2>5
<1>6. ASSUME NEW i \in DOMAIN jobList'[w] PROVE Numbered(jobList[w][i])' /\ LastQueued(jobList[w][i], w)'
  <2>1. PICK x \in Job : x = jobList[w][i + 1]
    BY <1>1 DEF JobTaken
  <2>2. i + 1 \in DOMAIN jobList[w] /\ jobList'[w][i] = x
    BY <2>1 DEF JobTaken
  <2>3. Numbered(x)' /\ LastQueued(x, w)'
    BY <1>3, <1>5, <2>1, <2>2 DEF JobsInOrder
  <2> QED
    BY <2>2, <2>3
<1>7. ASSUME NEW i \in DOMAIN jobList'[w], NEW k \in DOMAIN jobList'[w],
             i < k, jobList'[w][i].link = jobList'[w][k].link
      PROVE  jobList'[w][i].nr < jobList'[w][k].nr
  <2>1. i + 1 < k + 1
    BY <1>2, <1>7
  <2> QED
    BY <1>7, <2>1 DEF JobTaken, JobsInOrder
<1>8. /\ Numbered(running[w])' /\ LastQueued(running[w], w)'
      /\ \A i \in InList(w, running[w].link)' : running'[w].nr < jobList'[w][i].nr
  <2>1. PICK x \in Job : x = jobList[w][1]
    BY <1>1 DEF JobTaken
  <2>2. running'[w] = x /\ 1 \in DOMAIN jobList[w]
    BY <2>1 DEF JobTaken
  <2>3. Numbered(x)' /\ LastQueued(x, w)'
    BY <1>3, <1>5, <2>1, <2>2 DEF JobsInOrder
  <2>4. ASSUME NEW i \in InList(w, x.link)' PROVE x.nr < jobList'[w][i].nr
    <3>1. i + 1 \in DOMAIN jobList[w] /\ jobList'[w][i] = jobList[w][i + 1] /\ i \in Nat /\ i >= 1
      <4>1. i \in DOMAIN jobList'[w] /\ jobList'[w] \in Seq(Job)
        BY <2>4 DEF InList, TypeOK
      <4> QED
        BY <4>1 DEF JobTaken
    <3> QED
      BY <1>4, <2>1, <2>4, <3>1 DEF InList
  <2> QED
    BY <2>2, <2>3, <2>4
<1>9. ASSUME NEW v \in Workers, v # w
      PROVE  /\ \A i \in DOMAIN jobList'[v] : Numbered(jobList[v][i])' /\ LastQueued(jobList[v][i], v)'
             /\ \A i, k \in DOMAIN jobList'[v] :
                  i < k /\ jobList'[v][i].link = jobList'[v][k].link => jobList'[v][i].nr < jobList'[v][k].nr
             /\ running'[v] # Idle =>
                  /\ Numbered(running[v])'
                  /\ LastQueued(running[v], v)'
                  /\ \A i \in InList(v, running[v].link)' : running'[v].nr < jobList'[v][i].nr
  <2>1. jobList'[v] = jobList[v] /\ running'[v] = running[v]
    BY <1>9 DEF JobTaken
  <2>2. \A x : Numbered(x)' <=> Numbered(x)
    BY DEF Numbered
  <2>3. \A x : LastQueued(x, v)' <=> LastQueued(x, v)
    BY <2>1 DEF LastQueued, InList
  <2>4. \A k : InList(v, k)' = InList(v, k)
    BY <2>1 DEF InList
  <2>5. \A i \in DOMAIN jobList'[v] : Numbered(jobList[v][i])' /\ LastQueued(jobList[v][i], v)'
    BY <2>1, <2>2, <2>3 DEF JobsInOrder
  <2>6. running'[v] # Idle => Numbered(running[v])' /\ LastQueued(running[v], v)'
    BY <2>1, <2>2, <2>3 DEF JobsInOrder
  <2> QED
    BY <2>1, <2>4, <2>5, <2>6 DEF JobsInOrder
<1> QED
  BY <1>6, <1>7, <1>8, <1>9 DEF JobsInOrder

(* When a job is done, or nothing happens to the queues, none is lost.     *)
LEMMA JobsKeep ==
  ASSUME JobsInOrder, UNCHANGED <<conn, queued, jobList>>,
         \A w \in Workers : running'[w] = running[w] \/ running'[w] = Idle
  PROVE  JobsInOrder'
<1>1. \A x : Numbered(x)' <=> Numbered(x)
  BY DEF Numbered
<1>2. \A w, k : InList(w, k)' = InList(w, k)
  BY DEF InList
<1>3. \A w, x : LastQueued(x, w)' <=> LastQueued(x, w)
  BY <1>2 DEF LastQueued
<1>4. ASSUME NEW w \in Workers, NEW i \in DOMAIN jobList'[w] PROVE Numbered(jobList[w][i])' /\ LastQueued(jobList[w][i], w)'
  BY <1>1, <1>3 DEF JobsInOrder
<1>5. ASSUME NEW w \in Workers, running'[w] # Idle
      PROVE  /\ Numbered(running[w])' /\ LastQueued(running[w], w)'
             /\ \A i \in InList(w, running[w].link)' : running'[w].nr < jobList'[w][i].nr
  <2>1. running'[w] = running[w]
    BY <1>5
  <2>2. Numbered(running[w])' /\ LastQueued(running[w], w)'
    BY <1>1, <1>3, <1>5, <2>1 DEF JobsInOrder
  <2> QED
    BY <1>2, <1>5, <2>1, <2>2 DEF JobsInOrder
<1> QED
  BY <1>4, <1>5 DEF JobsInOrder

LEMMA JobsStep == TypeOK /\ TypeOK' /\ JobsAtHome /\ MapsFollowSockets /\ JobsInOrder /\ [Next]_vars => JobsInOrder'
<1> SUFFICES ASSUME TypeOK, TypeOK', JobsAtHome, MapsFollowSockets, JobsInOrder, [Next]_vars
             PROVE  JobsInOrder'
  OBVIOUS
<1>1. ASSUME NEW l \in Links, NEW h \in Workers, JobAdded("accept", l, h),
             conn[l] = "fresh", conn' = [conn EXCEPT ![l] = "open"]
      PROVE  JobsInOrder'
  <2>1. conn'[l] = "open" /\ \A k \in Links \ {l} : conn'[k] = conn[k]
    BY <1>1 DEF TypeOK
  <2> QED
    BY <1>1, <2>1, JobsAdd
<1>2. ASSUME NEW l \in Links, NEW h \in Workers, JobAdded("read", l, h), conn[l] = "open", conn' = conn, fdOf' = fdOf
      PROVE  JobsInOrder'
  BY <1>2, JobsAdd
<1>3. ASSUME NEW l \in Links, NEW h \in Workers, JobAdded("close", l, h),
             conn[l] = "open", conn' = [conn EXCEPT ![l] = "closed"], fdOf' = fdOf
      PROVE  JobsInOrder'
  <2>1. conn'[l] = "closed" /\ \A k \in Links \ {l} : conn'[k] = conn[k]
    BY <1>3 DEF TypeOK
  <2> QED
    BY <1>3, <2>1, JobsAdd
<1>4. ASSUME NEW w \in Workers, JobTaken(w), UNCHANGED <<conn, fdOf, queued>> PROVE JobsInOrder'
  BY <1>4, JobsTake
<1>5. ASSUME NEW w \in Workers, running' = [running EXCEPT ![w] = Idle], UNCHANGED <<conn, fdOf, queued, jobList>>
      PROVE  JobsInOrder'
  BY <1>5, JobsKeep DEF TypeOK
<1>6. ASSUME UNCHANGED <<conn, fdOf, queued, jobList, running>> PROVE JobsInOrder'
  BY <1>6, JobsKeep
<1> QED
  BY <1>1, <1>2, <1>3, <1>4, <1>5, <1>6, StepEffect
-----------------------------------------------------------------------------
(* The refinement of LinkLife.  What is read and not handled is counted in *)
(* the list of the one worker that has the link's jobs.                    *)
Reads(h, l) == {i \in InList(h, l) : jobList[h][i].kind = "read"}
HomeOf(h, l) == conn[l] # "fresh" => h = WorkerOf(fdOf[l])
Unread(l) == Cardinality(ReadsPending(l))

LEMMA OneToOne ==
  ASSUME NEW S, NEW T, IsFiniteSet(S), NEW f \in [S -> T],
         \A x, y \in S : f[x] = f[y] => x = y,
         \A y \in T : \E x \in S : f[x] = y
  PROVE  IsFiniteSet(T) /\ Cardinality(T) = Cardinality(S)
<1>1. f \in Bijection(S, T)
  BY DEF Bijection, Injection, Surjection, IsInjective
<1> QED
  BY <1>1, FS_Bijection DEF ExistsBijection

LEMMA ReadsCounted ==
  TypeOK /\ JobsAtHome =>
    \A l \in Links : \A h \in Workers :
      HomeOf(h, l) => IsFiniteSet(Reads(h, l)) /\ Unread(l) = Cardinality(Reads(h, l))
<1> SUFFICES ASSUME TypeOK, JobsAtHome, NEW l \in Links, NEW h \in Workers, HomeOf(h, l)
             PROVE  IsFiniteSet(Reads(h, l)) /\ Unread(l) = Cardinality(Reads(h, l))
  OBVIOUS
<1>1. IsFiniteSet(Reads(h, l))
  <2>1. jobList[h] \in Seq(Job)
    BY DEF TypeOK
  <2>2. Len(jobList[h]) \in Nat /\ Reads(h, l) \in SUBSET Nat /\ \A i \in Reads(h, l) : i <= Len(jobList[h])
    BY <2>1 DEF Reads, InList
  <2> QED
    BY <2>2, FS_BoundedSetOfNaturals
<1> DEFINE f == [i \in Reads(h, l) |-> <<h, i>>]
<1>2. \A i \in Reads(h, l) : f[i] \in ReadsPending(l)
  <2> TAKE i \in Reads(h, l)
  <2>1. i \in InList(h, l) /\ jobList[h][i].kind = "read"
    BY DEF Reads
  <2>2. <<h, i>> \in UNION {{w} \X InList(w, l) : w \in Workers}
    BY <2>1
  <2> QED
    BY <2>1, <2>2 DEF ReadsPending
<1>3. ASSUME NEW y \in ReadsPending(l) PROVE \E i \in Reads(h, l) : f[i] = y
  <2>1. PICK w \in Workers : y \in {w} \X InList(w, l)
    BY DEF ReadsPending
  <2>2. PICK i \in InList(w, l) : y = <<w, i>>
    BY <2>1
  <2>3. jobList[w][i].kind = "read"
    BY <2>2 DEF ReadsPending
  <2>4. w = h
    BY <2>2 DEF JobsAtHome, AtHome, HomeOf, InList
  <2> QED
    BY <2>2, <2>3, <2>4 DEF Reads
<1>4. f \in [Reads(h, l) -> ReadsPending(l)] /\ \A x, y \in Reads(h, l) : f[x] = f[y] => x = y
  BY <1>2
<1> HIDE DEF f
<1> QED
  BY <1>1, <1>3, <1>4, OneToOne DEF Unread

LEMMA ReadsCountedNext ==
  TypeOK' /\ JobsAtHome' =>
    (\A l \in Links : \A h \in Workers :
      HomeOf(h, l) => IsFiniteSet(Reads(h, l)) /\ Unread(l) = Cardinality(Reads(h, l)))'
  BY ReadsCounted, PTL

(* A read that is queued is one more, ...                                  *)
LEMMA UnreadAdd ==
  ASSUME TypeOK, TypeOK', JobsAtHome, JobsAtHome',
         NEW kind \in {"accept", "read", "close"}, NEW l \in Links, NEW h \in Workers, JobAdded(kind, l, h),
         conn'[l] # "fresh",
         \A k \in Links \ {l} : conn'[k] = conn[k] /\ fdOf'[k] = fdOf[k],
         conn[l] # "fresh" => fdOf'[l] = fdOf[l],
         NEW k \in Links
  PROVE  Unread(k)' = IF k = l /\ kind = "read" THEN Unread(k) + 1 ELSE Unread(k)
<1>0. PICK n \in Nat : n = Len(jobList[h]) + 1
  BY DEF TypeOK
<1>1. CASE k = l
  <2>1. HomeOf(h, l) /\ HomeOf(h, l)'
    BY <1>1 DEF HomeOf, JobAdded, WorkerOf
  <2>2. Unread(l) = Cardinality(Reads(h, l)) /\ IsFiniteSet(Reads(h, l)) /\ Unread(l)' = Cardinality(Reads(h, l)')
    BY <2>1, ReadsCounted, ReadsCountedNext
  <2>3. /\ n \notin DOMAIN jobList[h]
        /\ DOMAIN jobList'[h] = DOMAIN jobList[h] \cup {n}
        /\ \A i \in DOMAIN jobList[h] : jobList'[h][i] = jobList[h][i]
        /\ jobList'[h][n].kind = kind /\ jobList'[h][n].link = l
    BY <1>0 DEF JobAdded
  <2>4. n \notin Reads(h, l) /\ Reads(h, l)' = IF kind = "read" THEN Reads(h, l) \cup {n} ELSE Reads(h, l)
    BY <2>3 DEF Reads, InList
  <2>5. CASE kind = "read"
    <3>1. Cardinality(Reads(h, l) \cup {n}) = Cardinality(Reads(h, l)) + 1
      BY <2>2, <2>4, FS_AddElement
    <3> QED
      BY <1>1, <2>2, <2>4, <2>5, <3>1
  <2>6. CASE kind # "read"
    BY <1>1, <2>2, <2>4, <2>6
  <2> QED
    BY <2>5, <2>6
<1>2. CASE k # l
  <2>0. SameJobs(k)
    BY <1>2, OthersJobs
  <2>1. WorkerOf(fdOf[k]) \in Workers
    BY WorkerOfType DEF TypeOK
  <2>2. PICK v \in Workers : v = WorkerOf(fdOf[k])
    BY <2>1
  <2>3. HomeOf(v, k) /\ HomeOf(v, k)'
    BY <1>2, <2>2 DEF HomeOf, WorkerOf
  <2>4. Unread(k) = Cardinality(Reads(v, k)) /\ Unread(k)' = Cardinality(Reads(v, k)')
    BY <2>3, ReadsCounted, ReadsCountedNext
  <2>5. Reads(v, k)' = Reads(v, k)
    BY <2>0 DEF Reads, SameJobs
  <2> QED
    BY <1>2, <2>4, <2>5
<1> QED
  BY <1>1, <1>2

(* ... one that is taken is one less.                                      *)
LEMMA UnreadTake ==
  ASSUME TypeOK, TypeOK', JobsAtHome, JobsAtHome',
         NEW w \in Workers, JobTaken(w), UNCHANGED <<conn, fdOf>>, NEW k \in Links
  PROVE  IF running'[w].link = k /\ running'[w].kind = "read"
         THEN Unread(k)' = Unread(k) - 1 /\ Unread(k) > 0
         ELSE Unread(k)' = Unread(k)
<1>1. WorkerOf(fdOf[k]) \in Workers
  BY WorkerOfType DEF TypeOK
<1>2. PICK v \in Workers : v = WorkerOf(fdOf[k])
  BY <1>1
<1>3. HomeOf(v, k) /\ HomeOf(v, k)'
  BY <1>2 DEF HomeOf, WorkerOf
<1>4. IsFiniteSet(Reads(v, k)) /\ Unread(k) = Cardinality(Reads(v, k)) /\ Unread(k)' = Cardinality(Reads(v, k)')
  BY <1>3, ReadsCounted, ReadsCountedNext
<1>5. CASE v # w
  <2>0. jobList'[v] = jobList[v]
    BY <1>2, <1>5 DEF JobTaken
  <2>1. Reads(v, k)' = Reads(v, k)
    <3>1. InList(v, k)' = InList(v, k)
      BY <2>0 DEF InList
    <3> QED
      BY <2>0, <3>1 DEF Reads
  <2>2. running'[w].link # k
    <3>1. AtHome(jobList[w][1], w)
      BY DEF JobsAtHome, JobTaken
    <3> QED
      BY <1>2, <1>5, <3>1 DEF AtHome, JobTaken
  <2> QED
    BY <1>4, <2>1, <2>2
<1>6. CASE v = w
  <2> DEFINE S == Reads(w, k) \ {1}
             T == Reads(w, k)'
             f == [i \in S |-> i - 1]
  <2>1. \A i \in DOMAIN jobList[w] : i \in Nat
    BY Positions
  <2>2. jobList'[w] \in Seq(Job)
    BY DEF TypeOK
  <2>3. \A i \in S : i \in Nat /\ i - 1 \in T
    BY <2>1 DEF Reads, InList, JobTaken
  <2>4. ASSUME NEW y \in T PROVE y + 1 \in S /\ (y + 1) - 1 = y
    <3>1. y \in DOMAIN jobList'[w]
      BY DEF Reads, InList
    <3>2. y \in Nat /\ y >= 1
      BY <2>2, <3>1
    <3>3. y + 1 \in Reads(w, k)
      BY DEF Reads, InList, JobTaken
    <3> QED
      BY <3>2, <3>3
  <2>5. IsFiniteSet(S) /\ Cardinality(S) = IF 1 \in Reads(w, k) THEN Unread(k) - 1 ELSE Unread(k)
    BY <1>4, <1>6, FS_RemoveElement
  <2>6. f \in [S -> T] /\ (\A x, y \in S : f[x] = f[y] => x = y) /\ \A y \in T : \E x \in S : f[x] = y
    BY <2>3, <2>4
  <2> HIDE DEF S, T, f
  <2>7. Cardinality(T) = Cardinality(S)
    BY <2>5, <2>6, OneToOne
  <2>8. 1 \in Reads(w, k) <=> running'[w].link = k /\ running'[w].kind = "read"
    BY DEF Reads, InList, JobTaken
  <2>9. 1 \in Reads(w, k) => Unread(k) # 0
    BY <1>4, <1>6, FS_EmptySet
  <2>10. Unread(k) \in Nat
    BY <1>4, FS_CardinalityType
  <2> QED
    BY <1>4, <1>6, <2>5, <2>7, <2>8, <2>9, <2>10 DEF T
<1> QED
  BY <1>5, <1>6

(* What the service has been told of a link depends on its own jobs only.  *)
SameView(k) ==
  /\ conn'[k] = conn[k]
  /\ AcceptPending(k)' <=> AcceptPending(k)
  /\ Pending(k)' <=> Pending(k)
  /\ Handled(k)' <=> Handled(k)
  /\ \A kind \in {"accept", "read", "close"} : RunsKind(k, kind)' <=> RunsKind(k, kind)

LEMMA PhaseKept == ASSUME NEW k \in Links, SameView(k) PROVE phaseOf'[k] = phaseOf[k]
  BY DEF SameView, phaseOf, Known

LEMMA ViewAdd ==
  ASSUME NEW kind, NEW l \in Links, NEW h \in Workers, JobAdded(kind, l, h),
         NEW k \in Links, k # l, conn'[k] = conn[k]
  PROVE  SameView(k)
<1>1. SameJobs(k)
  BY OthersJobs
<1>2. (AcceptPending(k)' <=> AcceptPending(k)) /\ (Pending(k)' <=> Pending(k))
  BY <1>1 DEF SameJobs, AcceptPending, Pending
<1>3. running' = running
  BY DEF JobAdded
<1> QED
  BY <1>2, <1>3 DEF SameView, Handled, Runs, RunsKind

LEMMA AcceptKept ==
  ASSUME NEW kind, kind # "accept", NEW l \in Links, NEW h \in Workers, JobAdded(kind, l, h)
  PROVE  AcceptPending(l)' <=> AcceptPending(l)
<1>1. ASSUME NEW w \in Workers, NEW i \in InList(w, l), jobList[w][i].kind = "accept" PROVE AcceptPending(l)'
  <2>1. i \in InList(w, l)' /\ jobList'[w][i].kind = "accept"
    BY <1>1 DEF JobAdded, InList
  <2> QED
    BY <2>1 DEF AcceptPending
<1>2. ASSUME NEW w \in Workers, NEW i \in InList(w, l)', jobList'[w][i].kind = "accept" PROVE AcceptPending(l)
  <2>1. i \in DOMAIN jobList[w] /\ jobList'[w][i] = jobList[w][i]
    BY <1>2 DEF JobAdded, InList
  <2>2. i \in InList(w, l)
    BY <2>1 DEF InList
  <2> QED
    BY <1>2, <2>1, <2>2 DEF AcceptPending
<1> QED
  BY <1>1, <1>2 DEF AcceptPending

LEMMA ViewTake ==
  ASSUME NEW w \in Workers, JobTaken(w), conn' = conn, NEW k \in Links, running'[w].link # k
  PROVE  SameView(k)
<1>1. AcceptPending(k)' <=> AcceptPending(k)
  BY DEF AcceptPending, InList, JobTaken
<1>2. Pending(k)' <=> Pending(k)
  BY DEF Pending, InList, JobTaken
<1>3. \A v \in Workers : Runs(v, k)' <=> Runs(v, k)
  BY DEF Runs, JobTaken
<1>4. \A v \in Workers : Runs(v, k) => running'[v] = running[v]
  BY DEF Runs, JobTaken
<1> QED
  BY <1>1, <1>2, <1>3, <1>4 DEF SameView, Handled, RunsKind

LEMMA ViewDone ==
  ASSUME NEW w \in Workers, running \in [Workers -> Job \cup {Idle}], running' = [running EXCEPT ![w] = Idle],
         UNCHANGED <<conn, jobList>>, NEW k \in Links, running[w].link # k
  PROVE  SameView(k)
<1>1. (AcceptPending(k)' <=> AcceptPending(k)) /\ (Pending(k)' <=> Pending(k))
  BY DEF AcceptPending, Pending, InList
<1>2. \A v \in Workers : Runs(v, k)' <=> Runs(v, k)
  BY DEF Runs
<1>3. \A v \in Workers : Runs(v, k) => running'[v] = running[v]
  BY DEF Runs
<1> QED
  BY <1>1, <1>2, <1>3 DEF SameView, Handled, RunsKind

(* A job is taken in the phase the contract asks for, ...                  *)
LEMMA PhaseTake ==
  ASSUME TypeOK, TypeOK', JobsAtHome, JobsAtHome', JobsInOrder, JobsInOrder',
         NEW w \in Workers, JobTaken(w), UNCHANGED <<conn, fdOf, queued>>,
         NEW j \in Job, j = running'[w]
  PROVE  /\ conn[j.link] # "fresh"
         /\ j.kind = "accept" => phaseOf[j.link] = "unknown" /\ phaseOf'[j.link] = "accepting"
         /\ j.kind = "read" => phaseOf[j.link] = "idle" /\ phaseOf'[j.link] = "reading"
         /\ j.kind = "close" => /\ phaseOf[j.link] = "idle" /\ phaseOf'[j.link] = "closing"
                               /\ conn[j.link] = "closed" /\ ReadsPending(j.link) = {}
<1> DEFINE l == j.link
<1>1. l \in Links /\ j.nr \in Nat /\ j = jobList[w][1] /\ 1 \in InList(w, l) /\ j.kind \in {"accept", "read", "close"}
  BY DEF Job, JobTaken, InList
<1>2. conn[l] # "fresh" /\ WorkerOf(fdOf[l]) = w
  BY <1>1 DEF JobsAtHome, AtHome, InList
<1>3. \A v \in Workers \ {w} : InList(v, l) = {} /\ ~Runs(v, l) /\ InList(v, l)' = {} /\ ~Runs(v, l)'
  <2>1. \A v \in Workers \ {w} : InList(v, l) = {} /\ ~Runs(v, l)
    BY <1>2 DEF JobsAtHome, AtHome, InList, Runs
  <2> QED
    BY <2>1 DEF JobTaken, InList, Runs
<1>4. ~Runs(w, l) /\ Runs(w, l)' /\ running[w] = Idle
  BY DEF Runs, JobTaken
<1>5. \A i \in InList(w, l) : i # 1 => j.nr < jobList[w][i].nr
  BY <1>1, Positions DEF JobsInOrder, InList, JobTaken
<1>6. ASSUME NEW i \in InList(w, l)
      PROVE  /\ jobList[w][i].nr \in Nat /\ jobList[w][i].nr < queued[l]
             /\ jobList[w][i].kind = "accept" <=> jobList[w][i].nr = 0
             /\ jobList[w][i].kind = "close" <=> conn[l] = "closed" /\ jobList[w][i].nr = queued[l] - 1
  <2>1. PICK x \in Job : x = jobList[w][i]
    BY Positions DEF InList
  <2>2. x.link = l /\ Numbered(x) /\ x.nr \in Nat
    BY <2>1 DEF InList, JobsInOrder, Job
  <2> QED
    BY <2>1, <2>2 DEF Numbered
<1>7. queued[l] \in Nat
  BY <1>1 DEF TypeOK
<1>8. Pending(l)
  BY <1>1 DEF Pending
<1>9. ~AcceptPending(l)'
  <2>1. ASSUME NEW i \in InList(w, l)' PROVE jobList'[w][i].kind # "accept"
    <3>1. jobList'[w] \in Seq(Job)
      BY DEF TypeOK
    <3>2. i \in Nat /\ i >= 1
      BY <3>1 DEF InList
    <3>3. i + 1 \in InList(w, l) /\ jobList'[w][i] = jobList[w][i + 1]
      BY DEF InList, JobTaken
    <3>4. j.nr < jobList[w][i + 1].nr
      BY <1>5, <3>2, <3>3
    <3> QED
      BY <1>1, <1>6, <3>3, <3>4
  <2> QED
    BY <1>3, <2>1 DEF AcceptPending
<1>10. \A kind : ~RunsKind(l, kind) /\ (RunsKind(l, kind)' <=> kind = j.kind)
  BY <1>3, <1>4 DEF RunsKind
<1>11. j.kind # "accept" => ~AcceptPending(l)
  <2> SUFFICES ASSUME j.kind # "accept", NEW i \in InList(w, l), jobList[w][i].kind = "accept" PROVE FALSE
    BY <1>3 DEF AcceptPending
  <2>1. i # 1 /\ jobList[w][i].nr = 0
    BY <1>1, <1>6
  <2> QED
    BY <1>1, <1>5, <2>1
<1>12. j.kind = "accept" => AcceptPending(l)
  BY <1>1 DEF AcceptPending
<1>13. j.kind = "close" => conn[l] = "closed" /\ ReadsPending(l) = {}
  <2> SUFFICES ASSUME j.kind = "close", NEW y \in ReadsPending(l) PROVE FALSE
    BY <1>1, <1>6
  <2>1. PICK v \in Workers : y \in {v} \X InList(v, l)
    BY DEF ReadsPending
  <2>2. PICK i \in InList(v, l) : y = <<v, i>>
    BY <2>1
  <2>3. jobList[v][i].kind = "read" /\ v = w
    BY <1>3, <2>2 DEF ReadsPending
  <2>4. j.nr = queued[l] - 1 /\ i # 1
    BY <1>1, <1>6, <2>3
  <2> QED
    BY <1>1, <1>5, <1>6, <1>7, <2>2, <2>3, <2>4
<1>14. conn' = conn
  OBVIOUS
<1> HIDE DEF l
<1>15. /\ j.kind = "accept" => phaseOf[l] = "unknown" /\ phaseOf'[l] = "accepting"
       /\ j.kind = "read" => phaseOf[l] = "idle" /\ phaseOf'[l] = "reading"
       /\ j.kind = "close" => phaseOf[l] = "idle" /\ phaseOf'[l] = "closing"
  BY <1>1, <1>2, <1>8, <1>9, <1>10, <1>11, <1>12, <1>14 DEF phaseOf, Known
<1> QED
  BY <1>2, <1>13, <1>15 DEF l

(* ... and leaves the link in the phase the contract says.                 *)
LEMMA PhaseDone ==
  ASSUME TypeOK, JobsAtHome, JobsInOrder,
         NEW w \in Workers, running[w] # Idle, running' = [running EXCEPT ![w] = Idle],
         UNCHANGED <<conn, fdOf, queued, jobList>>,
         NEW j \in Job, j = running[w]
  PROVE  /\ j.kind = "accept" => phaseOf[j.link] = "accepting" /\ phaseOf'[j.link] = "idle"
         /\ j.kind = "read" => phaseOf[j.link] = "reading" /\ phaseOf'[j.link] = "idle"
         /\ j.kind = "close" => phaseOf[j.link] = "closing" /\ phaseOf'[j.link] = "forgotten"
<1> DEFINE l == j.link
<1>1. l \in Links /\ j.nr \in Nat /\ j.kind \in {"accept", "read", "close"} /\ queued[l] \in Nat
  BY DEF Job, TypeOK
<1>2. conn[l] # "fresh" /\ WorkerOf(fdOf[l]) = w
  BY DEF JobsAtHome, AtHome
<1>3. \A v \in Workers \ {w} : InList(v, l) = {} /\ ~Runs(v, l) /\ ~Runs(v, l)'
  <2>1. \A v \in Workers \ {w} : InList(v, l) = {} /\ ~Runs(v, l)
    BY <1>2 DEF JobsAtHome, AtHome, InList, Runs
  <2> QED
    BY <2>1 DEF Runs, TypeOK
<1>4. Runs(w, l) /\ ~Runs(w, l)'
  BY DEF Runs, TypeOK
<1>5. Numbered(j) /\ LastQueued(j, w) /\ \A i \in InList(w, l) : j.nr < jobList[w][i].nr
  BY DEF JobsInOrder
<1>6. ASSUME NEW i \in InList(w, l)
      PROVE  /\ jobList[w][i].nr \in Nat /\ jobList[w][i].nr < queued[l]
             /\ jobList[w][i].kind = "accept" <=> jobList[w][i].nr = 0
  <2>1. PICK x \in Job : x = jobList[w][i]
    BY Positions DEF InList
  <2>2. x.link = l /\ Numbered(x) /\ x.nr \in Nat
    BY <2>1 DEF InList, JobsInOrder, Job
  <2> QED
    BY <2>1, <2>2 DEF Numbered
<1>7. ~AcceptPending(l) /\ ~AcceptPending(l)'
  <2>1. ~AcceptPending(l)
    <3> SUFFICES ASSUME NEW i \in InList(w, l), jobList[w][i].kind = "accept" PROVE FALSE
      BY <1>3 DEF AcceptPending
    <3>1. jobList[w][i].nr = 0 /\ j.nr < jobList[w][i].nr
      BY <1>5, <1>6
    <3> QED
      BY <1>1, <3>1
  <2> QED
    BY <2>1 DEF AcceptPending, InList
<1>8. \A kind : (RunsKind(l, kind) <=> kind = j.kind) /\ ~RunsKind(l, kind)'
  BY <1>3, <1>4 DEF RunsKind
<1>9. ~Handled(l)'
  BY <1>3, <1>4 DEF Handled
<1>10. Pending(l)' <=> Pending(l)
  BY DEF Pending, InList
<1>11. j.kind # "close" => conn[l] = "open" \/ Pending(l)
  <2> SUFFICES ASSUME j.kind # "close", conn[l] = "closed" PROVE Pending(l)
    BY <1>1, <1>2 DEF TypeOK
  <2>1. j.nr + 1 < queued[l]
    BY <1>1, <1>5 DEF Numbered
  <2> QED
    BY <1>5, <2>1 DEF LastQueued, Pending
<1>12. j.kind = "close" => conn[l] = "closed" /\ ~Pending(l)
  <2> SUFFICES ASSUME j.kind = "close" PROVE conn[l] = "closed" /\ InList(w, l) = {}
    BY <1>3 DEF Pending
  <2>1. conn[l] = "closed" /\ j.nr = queued[l] - 1
    BY <1>5 DEF Numbered
  <2>2. ASSUME NEW i \in InList(w, l) PROVE FALSE
    <3>1. j.nr < jobList[w][i].nr /\ jobList[w][i].nr < queued[l] /\ jobList[w][i].nr \in Nat
      BY <1>5, <1>6
    <3> QED
      BY <1>1, <2>1, <3>1
  <2> QED
    BY <2>1, <2>2
<1>13. conn' = conn
  OBVIOUS
<1> HIDE DEF l
<1>14. /\ j.kind = "accept" => phaseOf[l] = "accepting" /\ phaseOf'[l] = "idle"
       /\ j.kind = "read" => phaseOf[l] = "reading" /\ phaseOf'[l] = "idle"
       /\ j.kind = "close" => phaseOf[l] = "closing" /\ phaseOf'[l] = "forgotten"
  BY <1>1, <1>2, <1>7, <1>8, <1>9, <1>10, <1>11, <1>12, <1>13 DEF phaseOf, Known
<1> QED
  BY <1>14 DEF l

(* Each step of the callbacks and workers is a step of the contract: the   *)
(* kind of job that is queued or taken names it.                           *)
Delivered == [l \in Links |-> readsQueued[l] - Cardinality(ReadsPending(l))]

LEMMA ContractInit == Init => Contract!Init
<1> SUFFICES ASSUME Init PROVE Contract!Init
  OBVIOUS
<1>1. conn = [l \in Links |-> "fresh"] /\ queued = [l \in Links |-> 0]
  BY DEF Init
<1>2. readsQueued = [l \in Links |-> 0]
  BY <1>1 DEF readsQueued
<1>3. ASSUME NEW l \in Links PROVE Cardinality(ReadsPending(l)) = 0
  <2>1. \A w \in Workers : InList(w, l) = {}
    BY DEF Init, InList
  <2>2. ReadsPending(l) = {}
    BY <2>1 DEF ReadsPending
  <2> QED
    BY <2>2, FS_EmptySet
<1>4. phaseOf = [l \in Links |-> "unknown"]
  BY <1>1 DEF phaseOf
<1> QED
  BY <1>1, <1>2, <1>3, <1>4 DEF Contract!Init

LEMMA ContractStep ==
  /\ TypeOK /\ JobsAtHome /\ MapsFollowSockets /\ JobsInOrder
  /\ TypeOK' /\ JobsAtHome' /\ JobsInOrder'
  /\ [Next]_vars
  => [Contract!Next]_(Contract!vars)
<1> SUFFICES ASSUME TypeOK, JobsAtHome, MapsFollowSockets, JobsInOrder,
                    TypeOK', JobsAtHome', JobsInOrder', [Next]_vars
             PROVE  [Contract!Next]_(Contract!vars)
  OBVIOUS
<1>1. ASSUME NEW l \in Links, NEW h \in Workers, JobAdded("accept", l, h),
             conn[l] = "fresh", conn' = [conn EXCEPT ![l] = "open"], fdOf' = [fdOf EXCEPT ![l] = fdOf'[l]]
      PROVE  Contract!Connect(l)
  <2>1. conn'[l] = "open" /\ \A k \in Links \ {l} : conn'[k] = conn[k] /\ fdOf'[k] = fdOf[k]
    BY <1>1 DEF TypeOK
  <2>2. queued[l] = 0 /\ queued'[l] = 1 /\ \A k \in Links \ {l} : queued'[k] = queued[k]
    BY <1>1 DEF JobsInOrder, JobAdded, TypeOK
  <2>3. readsQueued' = readsQueued
    BY <1>1, <2>1, <2>2 DEF readsQueued
  <2>4. \A k \in Links : Unread(k)' = Unread(k)
    BY <1>1, <2>1, UnreadAdd
  <2>5. Delivered' = Delivered
    BY <2>3, <2>4 DEF Delivered, Unread
  <2>6. AcceptPending(l)'
    <3>1. PICK n \in DOMAIN jobList'[h] : jobList'[h][n].kind = "accept" /\ jobList'[h][n].link = l
      BY <1>1 DEF JobAdded
    <3> QED
      BY <3>1 DEF AcceptPending, InList
  <2>7. ASSUME NEW k \in Links PROVE phaseOf'[k] = phaseOf[k]
    <3>1. CASE k = l
      BY <1>1, <2>6, <3>1 DEF phaseOf
    <3>2. CASE k # l
      BY <1>1, <2>1, <3>2, ViewAdd, PhaseKept
    <3> QED
      BY <3>1, <3>2
  <2>8. phaseOf' = phaseOf
    BY <2>7 DEF phaseOf
  <2> QED
    BY <1>1, <2>3, <2>5, <2>8 DEF Contract!Connect, Delivered
<1>2. ASSUME NEW l \in Links, NEW h \in Workers, JobAdded("read", l, h),
             conn[l] = "open", conn' = conn, fdOf' = fdOf
      PROVE  Contract!Receive(l)
  <2>1. queued'[l] = queued[l] + 1 /\ queued[l] \in Nat /\ \A k \in Links \ {l} : queued'[k] = queued[k]
    BY <1>2 DEF JobAdded, TypeOK
  <2>2. readsQueued' = [readsQueued EXCEPT ![l] = @ + 1]
    <3>1. ASSUME NEW k \in Links PROVE readsQueued'[k] = IF k = l THEN readsQueued[k] + 1 ELSE readsQueued[k]
      BY <1>2, <2>1 DEF readsQueued
    <3> QED
      BY <3>1 DEF readsQueued
  <2>3. \A k \in Links : Unread(k)' = IF k = l THEN Unread(k) + 1 ELSE Unread(k)
    BY <1>2, UnreadAdd
  <2>4. Unread(l) \in Nat
    <3>1. WorkerOf(fdOf[l]) \in Workers /\ HomeOf(WorkerOf(fdOf[l]), l)
      BY WorkerOfType DEF HomeOf, TypeOK
    <3> QED
      BY <3>1, ReadsCounted, FS_CardinalityType
  <2>5. ASSUME NEW k \in Links PROVE Delivered'[k] = Delivered[k]
    <3>1. readsQueued[l] \in Int /\ readsQueued'[l] = readsQueued[l] + 1
      BY <1>2, <2>1, <2>2 DEF readsQueued
    <3>2. Delivered[k] = readsQueued[k] - Unread(k) /\ Delivered'[k] = readsQueued'[k] - Unread(k)'
      BY DEF Delivered, Unread
    <3>3. k # l => readsQueued'[k] = readsQueued[k]
      BY <2>1, <1>2 DEF readsQueued
    <3> QED
      BY <2>3, <2>4, <3>1, <3>2, <3>3
  <2>6. Delivered' = Delivered
    BY <2>5 DEF Delivered
  <2>7. (AcceptPending(l)' <=> AcceptPending(l)) /\ running' = running
    <3>1. AcceptPending(l)' <=> AcceptPending(l)
      BY <1>2, AcceptKept
    <3> QED
      BY <1>2, <3>1 DEF JobAdded
  <2>8. ASSUME NEW k \in Links PROVE phaseOf'[k] = phaseOf[k]
    <3>1. CASE k = l
      BY <1>2, <2>7, <3>1 DEF phaseOf, Known, RunsKind, Runs
    <3>2. CASE k # l
      BY <1>2, <3>2, ViewAdd, PhaseKept
    <3> QED
      BY <3>1, <3>2
  <2>9. phaseOf' = phaseOf
    BY <2>8 DEF phaseOf
  <2> QED
    BY <1>2, <2>2, <2>6, <2>9 DEF Contract!Receive, Delivered
<1>3. ASSUME NEW l \in Links, NEW h \in Workers, JobAdded("close", l, h),
             conn[l] = "open", conn' = [conn EXCEPT ![l] = "closed"], fdOf' = fdOf
      PROVE  Contract!HangUp(l)
  <2>1. conn'[l] = "closed" /\ \A k \in Links \ {l} : conn'[k] = conn[k]
    BY <1>3 DEF TypeOK
  <2>2. queued'[l] = queued[l] + 1 /\ queued[l] \in Nat /\ \A k \in Links \ {l} : queued'[k] = queued[k]
    BY <1>3 DEF JobAdded, TypeOK
  <2>3. readsQueued' = readsQueued
    <3>1. ASSUME NEW k \in Links PROVE readsQueued'[k] = readsQueued[k]
      BY <1>3, <2>1, <2>2 DEF readsQueued
    <3> QED
      BY <3>1 DEF readsQueued
  <2>4. \A k \in Links : Unread(k)' = Unread(k)
    BY <1>3, <2>1, UnreadAdd
  <2>5. Delivered' = Delivered
    BY <2>3, <2>4 DEF Delivered, Unread
  <2>6. (AcceptPending(l)' <=> AcceptPending(l)) /\ Pending(l)' /\ running' = running
    <3>1. AcceptPending(l)' <=> AcceptPending(l)
      BY <1>3, AcceptKept
    <3>2. Pending(l)'
      BY <1>3 DEF JobAdded, Pending, InList
    <3> QED
      BY <1>3, <3>1, <3>2 DEF JobAdded
  <2>7. ASSUME NEW k \in Links PROVE phaseOf'[k] = phaseOf[k]
    <3>1. CASE k = l
      BY <1>3, <2>1, <2>6, <3>1 DEF phaseOf, Known, RunsKind, Runs
    <3>2. CASE k # l
      BY <1>3, <2>1, <3>2, ViewAdd, PhaseKept
    <3> QED
      BY <3>1, <3>2
  <2>8. phaseOf' = phaseOf
    BY <2>7 DEF phaseOf
  <2> QED
    BY <1>3, <2>3, <2>5, <2>8 DEF Contract!HangUp, Delivered
<1>4. ASSUME NEW w \in Workers, JobTaken(w), UNCHANGED <<conn, fdOf, queued>>
      PROVE  \E l \in Links : Contract!OnAccept(l) \/ Contract!OnCmdCome(l) \/ Contract!OnClose(l)
  <2>1. PICK j \in Job : j = running'[w]
    BY <1>4, Positions DEF JobTaken
  <2>2. PICK l \in Links : l = j.link
    BY DEF Job
  <2>3. readsQueued' = readsQueued
    BY <1>4 DEF readsQueued
  <2>4. \A k \in Links : IF k = l /\ j.kind = "read" THEN Unread(k)' = Unread(k) - 1 /\ Unread(k) > 0
                                                    ELSE Unread(k)' = Unread(k)
    BY <1>4, <2>1, <2>2, UnreadTake
  <2>5. \A k \in Links \ {l} : phaseOf'[k] = phaseOf[k]
    BY <1>4, <2>1, <2>2, ViewTake, PhaseKept
  <2>6. /\ conn[l] # "fresh"
        /\ j.kind = "accept" => phaseOf[l] = "unknown" /\ phaseOf'[l] = "accepting"
        /\ j.kind = "read" => phaseOf[l] = "idle" /\ phaseOf'[l] = "reading"
        /\ j.kind = "close" => /\ phaseOf[l] = "idle" /\ phaseOf'[l] = "closing"
                              /\ conn[l] = "closed" /\ ReadsPending(l) = {}
    BY <1>4, <2>1, <2>2, PhaseTake
  <2>7. phaseOf' = [phaseOf EXCEPT ![l] = phaseOf'[l]]
    BY <2>5 DEF phaseOf
  <2>8. j.kind # "read" => Delivered' = Delivered
    BY <2>3, <2>4 DEF Delivered, Unread
  <2>9. CASE j.kind = "accept"
    BY <1>4, <2>3, <2>6, <2>7, <2>8, <2>9 DEF Contract!OnAccept, Contract!Move, Delivered
  <2>10. CASE j.kind = "close"
    <3>1. Delivered[l] = readsQueued[l]
      <4>1. readsQueued[l] \in Int
        BY <2>6, <2>10 DEF readsQueued, TypeOK
      <4> QED
        BY <2>6, <2>10, <4>1, FS_EmptySet DEF Delivered
    <3> QED
      BY <1>4, <2>3, <2>6, <2>7, <2>8, <2>10, <3>1 DEF Contract!OnClose, Contract!Move, Delivered
  <2>11. CASE j.kind = "read"
    <3>1. Unread(l) \in Nat /\ readsQueued[l] \in Int
      <4>1. WorkerOf(fdOf[l]) \in Workers /\ HomeOf(WorkerOf(fdOf[l]), l)
        BY WorkerOfType DEF HomeOf, TypeOK
      <4>2. Unread(l) \in Nat
        BY <4>1, ReadsCounted, FS_CardinalityType
      <4> QED
        BY <4>2, <2>6 DEF readsQueued, TypeOK
    <3>2. \A k \in Links : Delivered[k] = readsQueued[k] - Unread(k) /\ Delivered'[k] = readsQueued[k] - Unread(k)'
      BY <2>3 DEF Delivered, Unread
    <3>3. Delivered[l] < readsQueued[l] /\ Delivered'[l] = Delivered[l] + 1
      BY <2>4, <2>11, <3>1, <3>2
    <3>4. Delivered' = [Delivered EXCEPT ![l] = @ + 1]
      <4>1. \A k \in Links \ {l} : Delivered'[k] = Delivered[k]
        BY <2>4, <3>2
      <4> QED
        BY <3>3, <4>1 DEF Delivered
    <3> QED
      BY <1>4, <2>3, <2>6, <2>7, <2>11, <3>3, <3>4 DEF Contract!OnCmdCome, Contract!Move, Delivered
  <2> QED
    BY <2>9, <2>10, <2>11 DEF Job
<1>5. ASSUME NEW w \in Workers, running[w] # Idle, running' = [running EXCEPT ![w] = Idle],
             UNCHANGED <<conn, fdOf, queued, jobList>>
      PROVE  \E l \in Links : Contract!Return(l)
  <2>1. PICK j \in Job : j = running[w]
    BY <1>5 DEF TypeOK
  <2>2. PICK l \in Links : l = j.link
    BY DEF Job
  <2>3. readsQueued' = readsQueued
    BY <1>5 DEF readsQueued
  <2>4. \A k \in Links : ReadsPending(k)' = ReadsPending(k)
    BY <1>5 DEF ReadsPending, InList
  <2>5. Delivered' = Delivered
    BY <2>3, <2>4 DEF Delivered
  <2>6. \A k \in Links \ {l} : phaseOf'[k] = phaseOf[k]
    BY <1>5, <2>1, <2>2, ViewDone, PhaseKept DEF TypeOK
  <2>7. phaseOf' = [phaseOf EXCEPT ![l] = phaseOf'[l]]
    BY <2>6 DEF phaseOf
  <2>8. /\ j.kind = "accept" => phaseOf[l] = "accepting" /\ phaseOf'[l] = "idle"
        /\ j.kind = "read" => phaseOf[l] = "reading" /\ phaseOf'[l] = "idle"
        /\ j.kind = "close" => phaseOf[l] = "closing" /\ phaseOf'[l] = "forgotten"
    BY <1>5, <2>1, <2>2, PhaseDone
  <2>9. j.kind \in {"accept", "read", "close"}
    BY DEF Job
  <2> QED
    BY <1>5, <2>3, <2>5, <2>7, <2>8, <2>9 DEF Contract!Return, Contract!Move, Delivered
<1>6. ASSUME UNCHANGED <<conn, fdOf, queued, jobList, running>> PROVE UNCHANGED Contract!vars
  <2>1. readsQueued' = readsQueued
    BY <1>6 DEF readsQueued
  <2>2. \A k \in Links : ReadsPending(k)' = ReadsPending(k)
    BY <1>6 DEF ReadsPending, InList
  <2>3. \A k \in Links : SameView(k)
    BY <1>6 DEF SameView, AcceptPending, Pending, Handled, RunsKind, Runs, InList
  <2>4. phaseOf' = phaseOf
    BY <2>3, PhaseKept DEF phaseOf
  <2> QED
    BY <1>6, <2>1, <2>2, <2>4 DEF Contract!vars
<1> QED
  BY <1>1, <1>2, <1>3, <1>4, <1>5, <1>6, StepEffect DEF Contract!Next

(* The event thread and the workers keep the promise to the owner: of      *)
(* every link OnAccept, one OnCmdCome per chunk, OnClose, in this order    *)
(* and one at a time.                                                      *)
THEOREM Implements == Spec => ImplementsLinkLife
  BY TypeCorrect, TypeInit, TypeStep, HomeInit, HomeStep, MapsCorrect, JobsInit, JobsStep,
     ContractInit, ContractStep, PTL DEF Spec, ImplementsLinkLife, Contract!Spec
=============================================================================
