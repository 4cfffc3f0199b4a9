---------------------------- MODULE ServrSocket ----------------------------
(***************************************************************************)
(* The server half of libEventMoudle: the event thread that owns the       *)
(* listener and the bufferevents (ServrSocket.cpp), and the pool of worker *)
(* threads that run the jobs the callbacks queue (CThreadPool.cpp,         *)
(* CWorkThread.cpp, netJob.h).  CommonTCPManager::AddJobToPool picks the   *)
(* worker by the file descriptor, so the order of the calls the service    *)
(* receives depends on which descriptors and which bufferevent addresses   *)
(* the kernel and the allocator hand out again.                            *)
(*                                                                         *)
(* A link is one accepted TCP connection.  The program identifies it by    *)
(* the BUS_ADDRESS object accept_conn_cb allocates; that object is never   *)
(* freed, so its address is never used for another link.                   *)
(***************************************************************************)
EXTENDS Integers, Sequences, FiniteSets

CONSTANTS
  Links,      \* the connections that may ever be accepted
  Bevs,       \* addresses of bufferevent objects; reused after a free
  Fds,        \* file descriptors of sockets; reused after a close
  PoolSize,   \* the number of worker threads, vWork.size()
  MaxMissed,  \* timer_cb gives a link up when its counter exceeds this: 4
  MaxReads,   \* bound: chunks read from one link
  NoLink      \* the absence of a link

ASSUME PoolAssumption == PoolSize \in Nat \ {0}
ASSUME FdAssumption == Fds \subseteq Nat /\ Fds # {} /\ Bevs # {}
ASSUME BoundAssumption == MaxReads \in Nat /\ MaxMissed \in Nat
ASSUME NoLinkAssumption == NoLink \notin Links

VARIABLES
  listening,  \* the event thread is inside event_base_dispatch
  conn,       \* the socket of each link: "fresh", "open" or "closed"
  bevOf,      \* the bufferevent each link was given
  fdOf,       \* the file descriptor each link was given
  bufMap,     \* bufferevent -> link of its timer event, or NoLink
  mCounter,   \* bufferevent -> heartbeats since the last data, or NoCounter
  jobList,    \* worker -> the jobs queued for it
  running,    \* worker -> the job it runs, or Idle
  waiting,    \* the workers blocked in m_JobCond.wait
  queued,     \* link -> how many jobs were queued for it so far (history)
  silent      \* link -> timer ticks since its last data (history)

netVars == <<listening, conn, bevOf, fdOf, bufMap, mCounter, silent>>
poolVars == <<jobList, running, waiting>>
vars == <<netVars, poolVars, queued>>

NoCounter == -1

Workers == 0 .. PoolSize - 1

(* Mutant: the job goes to a worker with the shortest list.                *)
LeastLoaded(fd) ==
  CHOOSE w \in Workers : \A v \in Workers : Len(jobList[w]) <= Len(jobList[v])

(* CThreadPool::Run: a descriptor has a worker of its own.                 *)
WorkerOf(fd) == fd % PoolSize

(* netJob.h.  nr is the position of the job among the jobs of its link;    *)
(* the program does not store it.                                          *)
Job == [kind : {"accept", "read", "close"}, link : Links, nr : Nat]
Idle == [kind |-> "none"]

Counting(b) == mCounter[b] # NoCounter
Mapped(b) == bufMap[b] # NoLink

Init ==
  /\ listening = TRUE
  /\ conn = [l \in Links |-> "fresh"]
  /\ bevOf = [l \in Links |-> CHOOSE b \in Bevs : TRUE]   \* not read while fresh
  /\ fdOf = [l \in Links |-> CHOOSE f \in Fds : TRUE]     \* not read while fresh
  /\ bufMap = [b \in Bevs |-> NoLink]
  /\ mCounter = [b \in Bevs |-> NoCounter]
  /\ jobList = [w \in Workers |-> <<>>]
  /\ running = [w \in Workers |-> Idle]
  /\ waiting = {}
  /\ queued = [l \in Links |-> 0]
  /\ silent = [l \in Links |-> 0]

-----------------------------------------------------------------------------

(* AddJobToPool, CThreadPool::Run and CWorkerThread::addJob: append to the *)
(* list of the worker of the descriptor and wake it, under m_JobCondMutex. *)
AddJobToPool(kind, l, fd) ==
  LET w == WorkerOf(fd) IN
  /\ jobList' = [jobList EXCEPT
       ![w] = Append(@, [kind |-> kind, link |-> l, nr |-> queued[l]])]
  /\ waiting' = waiting \ {w}
  /\ queued' = [queued EXCEPT ![l] = @ + 1]
  /\ UNCHANGED running

(* Mutant: accept_conn_cb does not start the counter.                      *)
acceptUncounted(l, b, fd) ==
  /\ listening
  /\ conn[l] = "fresh"
  /\ \A k \in Links : conn[k] = "open" => bevOf[k] # b /\ fdOf[k] # fd
  /\ conn' = [conn EXCEPT ![l] = "open"]
  /\ bevOf' = [bevOf EXCEPT ![l] = b]
  /\ fdOf' = [fdOf EXCEPT ![l] = fd]
  /\ bufMap' = [bufMap EXCEPT ![b] = IF @ = NoLink THEN l ELSE @]
  /\ silent' = [silent EXCEPT ![l] = 0]
  /\ AddJobToPool("accept", l, fd)
  /\ UNCHANGED <<listening, mCounter>>

(* accept_conn_cb.  The kernel hands out a descriptor no open socket has,  *)
(* the allocator an address no living bufferevent has.                     *)
accept_conn_cb(l, b, fd) ==
  /\ listening
  /\ conn[l] = "fresh"
  /\ \A k \in Links : conn[k] = "open" => bevOf[k] # b /\ fdOf[k] # fd
  /\ conn' = [conn EXCEPT ![l] = "open"]
  /\ bevOf' = [bevOf EXCEPT ![l] = b]
  /\ fdOf' = [fdOf EXCEPT ![l] = fd]
  /\ mCounter' = [mCounter EXCEPT ![b] = 0]
  /\ bufMap' = [bufMap EXCEPT ![b] = IF @ = NoLink THEN l ELSE @]
  /\ silent' = [silent EXCEPT ![l] = 0]
  /\ AddJobToPool("accept", l, fd)
  /\ UNCHANGED listening

(* Mutant: read_cb leaves the counter alone.                               *)
readUncounted(l) ==
  /\ listening
  /\ conn[l] = "open"
  /\ queued[l] <= MaxReads
  /\ silent' = [silent EXCEPT ![l] = 0]
  /\ AddJobToPool("read", l, fdOf[l])
  /\ UNCHANGED <<listening, conn, bevOf, fdOf, bufMap, mCounter>>

(* read_cb: any data takes the heartbeat counter back to 0.                *)
read_cb(l) ==
  /\ listening
  /\ conn[l] = "open"
  /\ queued[l] <= MaxReads
  /\ mCounter' = [mCounter EXCEPT ![bevOf[l]] = 0]
  /\ silent' = [silent EXCEPT ![l] = 0]
  /\ AddJobToPool("read", l, fdOf[l])
  /\ UNCHANGED <<listening, conn, bevOf, fdOf, bufMap>>

(* Mutant: the counter of a freed bufferevent stays.                       *)
deleteBufOnly(l) ==
  LET b == bevOf[l] IN
  /\ Mapped(b)
  /\ AddJobToPool("close", l, fdOf[l])
  /\ bufMap' = [bufMap EXCEPT ![b] = NoLink]
  /\ conn' = [conn EXCEPT ![l] = "closed"]
  /\ UNCHANGED <<listening, bevOf, fdOf, mCounter>>

(* bufMapDeleteBuf, under bufMapMutex: nothing happens to a bufferevent    *)
(* that is not in the map.  bufferevent_free closes the socket.            *)
bufMapDeleteBuf(l) ==
  LET b == bevOf[l] IN
  /\ Mapped(b)
  /\ AddJobToPool("close", l, fdOf[l])
  /\ mCounter' = [mCounter EXCEPT ![b] = NoCounter]
  /\ bufMap' = [bufMap EXCEPT ![b] = NoLink]
  /\ conn' = [conn EXCEPT ![l] = "closed"]
  /\ UNCHANGED <<listening, bevOf, fdOf>>

(* event_cb with BEV_EVENT_ERROR or BEV_EVENT_EOF; other events are only   *)
(* logged.                                                                 *)
event_cb(l) ==
  /\ listening
  /\ conn[l] = "open"
  /\ bufMapDeleteBuf(l)
  /\ UNCHANGED silent

(* timer_cb, every HEARTBEAT_TIME seconds: count, then give the link up or *)
(* send it a heartbeat.                                                    *)
timer_cb(l) ==
  LET b == bevOf[l]
      missed == mCounter[b] + 1 IN
  /\ listening
  /\ conn[l] = "open"
  /\ Counting(b)
  /\ silent' = [silent EXCEPT ![l] = @ + 1]
  /\ \/ /\ missed > MaxMissed
        /\ bufMapDeleteBuf(l)
     \/ /\ missed <= MaxMissed
        /\ mCounter' = [mCounter EXCEPT ![b] = missed]
        /\ UNCHANGED <<listening, conn, bevOf, fdOf, bufMap, poolVars, queued>>

(* accept_error_cb leaves the event loop: no callback runs afterwards.     *)
accept_error_cb ==
  /\ listening
  /\ listening' = FALSE
  /\ UNCHANGED <<conn, bevOf, fdOf, bufMap, mCounter, silent, poolVars, queued>>

-----------------------------------------------------------------------------
(* CWorkerThread::getJob, under m_JobCondMutex: wait while the list is     *)
(* empty, else take its first job.                                         *)
waitForJob(w) ==
  /\ running[w] = Idle
  /\ w \notin waiting
  /\ jobList[w] = <<>>
  /\ waiting' = waiting \cup {w}
  /\ UNCHANGED <<netVars, jobList, running, queued>>

(* Mutant: getJob takes the last job.                                      *)
getLastJob(w) ==
  /\ running[w] = Idle
  /\ w \notin waiting
  /\ jobList[w] # <<>>
  /\ running' = [running EXCEPT ![w] = jobList[w][Len(jobList[w])]]
  /\ jobList' = [jobList EXCEPT ![w] = SubSeq(@, 1, Len(@) - 1)]
  /\ UNCHANGED <<netVars, waiting, queued>>

getJob(w) ==
  /\ running[w] = Idle
  /\ w \notin waiting
  /\ jobList[w] # <<>>
  /\ running' = [running EXCEPT ![w] = Head(jobList[w])]
  /\ jobList' = [jobList EXCEPT ![w] = Tail(@)]
  /\ UNCHANGED <<netVars, waiting, queued>>

(* CWorkerThread::Run: job->Run() returned and the job is deleted.         *)
jobDone(w) ==
  /\ running[w] # Idle
  /\ running' = [running EXCEPT ![w] = Idle]
  /\ UNCHANGED <<netVars, jobList, waiting, queued>>

Worker(w) == waitForJob(w) \/ getJob(w) \/ jobDone(w)

EventLoop ==
  \/ \E l \in Links, b \in Bevs, fd \in Fds : accept_conn_cb(l, b, fd)
  \/ \E l \in Links : read_cb(l) \/ event_cb(l) \/ timer_cb(l)
  \/ accept_error_cb

Next == EventLoop \/ \E w \in Workers : Worker(w)

(* The persistent timer of a link fires as long as the loop runs; workers  *)
(* are scheduled and their handlers return.  Peers owe nothing.            *)
Fairness ==
  /\ \A l \in Links : WF_vars(timer_cb(l))
  /\ \A w \in Workers : WF_vars(Worker(w))

Spec == Init /\ [][Next]_vars /\ Fairness
-----------------------------------------------------------------------------
(* Views of the queues.                                                    *)
InList(w, l) == {i \in DOMAIN jobList[w] : jobList[w][i].link = l}
Runs(w, l) == running[w] # Idle /\ running[w].link = l
Pending(l) == \E w \in Workers : InList(w, l) # {}
Handled(l) == \E w \in Workers : Runs(w, l)

(* The service knows the link: OnAccept was entered, OnClose has not       *)
(* returned.                                                               *)
AcceptPending(l) ==
  \E w \in Workers : \E i \in InList(w, l) : jobList[w][i].kind = "accept"
Known(l) ==
  /\ conn[l] # "fresh"
  /\ ~AcceptPending(l)
  /\ conn[l] = "open" \/ Pending(l) \/ Handled(l)

(* The type of the state.                                                  *)
TypeOK ==
  /\ listening \in BOOLEAN
  /\ conn \in [Links -> {"fresh", "open", "closed"}]
  /\ bevOf \in [Links -> Bevs]
  /\ fdOf \in [Links -> Fds]
  /\ bufMap \in [Bevs -> Links \cup {NoLink}]
  /\ mCounter \in [Bevs -> NoCounter .. MaxMissed]
  /\ jobList \in [Workers -> Seq(Job)]
  /\ running \in [Workers -> Job \cup {Idle}]
  /\ waiting \subseteq Workers
  /\ queued \in [Links -> Nat]
  /\ silent \in [Links -> Nat]

(* The maps of the event thread follow the sockets: a bufferevent is in    *)
(* bufMap exactly while a link it was given to is open, it then carries    *)
(* the timer of that link, and it has a counter exactly while mapped (the  *)
(* counter being the number of ticks since the link's last data, although  *)
(* the address may have served other links before).                        *)
MapsFollowSockets ==
  /\ \A l \in Links :
       conn[l] = "open" => /\ bufMap[bevOf[l]] = l
                           /\ mCounter[bevOf[l]] = silent[l]
  /\ \A b \in Bevs : Mapped(b) => /\ conn[bufMap[b]] = "open"
                                  /\ bevOf[bufMap[b]] = b
  /\ \A b \in Bevs : Counting(b) <=> Mapped(b)

(* Two workers never run handlers of one link at the same time, nor of two *)
(* links that were given the same descriptor.                              *)
HandlersNeverOverlap ==
  \A v, w \in Workers :
    /\ v # w
    /\ running[v] # Idle
    /\ running[w] # Idle
    => fdOf[running[v].link] # fdOf[running[w].link]

(* A reused descriptor is handed over in order: the service has been told  *)
(* that the old link is closed before it hears of the new one.             *)
FdHandedOverInOrder ==
  \A k, l \in Links :
    k # l /\ Known(k) /\ Known(l) => fdOf[k] # fdOf[l]

(* A link that never fails and never hits end-of-file is closed only after *)
(* five ticks of its timer in a row without data.                          *)
ExpiresOnlyWhenSilent ==
  [][\A l \in Links :
       timer_cb(l) /\ conn[l] = "open" /\ conn'[l] = "closed"
         => silent'[l] = MaxMissed + 1]_vars

(* A dead peer is noticed, and forgotten: with its data exhausted, every   *)
(* open link is closed in the end and all of its jobs are run, the close   *)
(* job included, unless the event loop was left before it was closed.      *)
SilentLinkForgotten ==
  \A l \in Links :
    conn[l] = "open" ~> (conn[l] = "closed" /\ ~Known(l)) \/ (conn[l] = "open" /\ ~listening)

(* The queues of the workers implement the contract of LinkLife.           *)
RunsKind(l, kind) == \E w \in Workers : Runs(w, l) /\ running[w].kind = kind
ReadsPending(l) ==
  {at \in UNION {{w} \X InList(w, l) : w \in Workers} :
     jobList[at[1]][at[2]].kind = "read"}
readsQueued ==
  [l \in Links |->
     queued[l] - (IF conn[l] = "fresh" THEN 0
                  ELSE IF conn[l] = "open" THEN 1 ELSE 2)]
phaseOf ==
  [l \in Links |->
     IF conn[l] = "fresh" \/ AcceptPending(l) THEN "unknown"
     ELSE IF RunsKind(l, "accept") THEN "accepting"
     ELSE IF RunsKind(l, "read") THEN "reading"
     ELSE IF RunsKind(l, "close") THEN "closing"
     ELSE IF Known(l) THEN "idle" ELSE "forgotten"]

Contract == INSTANCE LinkLife WITH
  peer <- conn,
  received <- readsQueued,
  delivered <- [l \in Links |-> readsQueued[l] - Cardinality(ReadsPending(l))],
  phase <- phaseOf

ImplementsLinkLife == Contract!Spec
=============================================================================
