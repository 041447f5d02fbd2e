------------------------------ MODULE WebServer ------------------------------
(***************************************************************************)
(* The multi-threaded web server (server.c over queue.c): the main thread  *)
(* accepts connections and puts them into wait_queue, a fixed pool of      *)
(* worker threads takes them from there, keeps them in worker_queue while  *)
(* requestHandle runs, and one mutex with two condition variables (cond    *)
(* for the workers, cond_block for main) protects both queues.             *)
(*                                                                         *)
(* One action per stretch of code between two points where another thread  *)
(* can intervene: taking the mutex, the work done under it up to the       *)
(* unlock or the wait, accept, requestHandle, and the Close outside it.    *)
(* A connection is named by its arrival time, a counter.                   *)
(***************************************************************************)
EXTENDS RequestQueue, FiniteSets

CONSTANTS Threads,        \* the worker threads of the pool
          Main,           \* the main thread
          Free,           \* "no thread" (mutex) and "no connection" (a local)
          Fds,            \* descriptors the kernel can give to client sockets
          QueueSizes,     \* queue_size arguments the server is started with
          Policies,       \* overload policy arguments it is started with
          MaxConns,       \* bound: connections made during a behaviour
          MaxSilent,      \* bound: clients that never complete their request
          MaxResets       \* bound: clients that reset their connection

KnownPolicies == {"block", "dt", "dh", "random"}

ASSUME ThreadsAssumption ==
  /\ IsFiniteSet(Threads)
  /\ Threads # {}
  /\ Main \notin Threads
  /\ Free \notin Threads \cup {Main}

ASSUME NumbersAssumption ==
  /\ Fds \subseteq Nat
  /\ QueueSizes \subseteq Nat \ {0}
  /\ MaxConns \in Nat
  /\ MaxSilent \in Nat
  /\ MaxResets \in Nat

Actors == Threads \cup {Main}

Conns == 1 .. MaxConns

(* A node of either queue, and the locals connfd/arrival and fd/arrival.   *)
Jobs == [value : Fds, arrival_time : Conns]

VARIABLES
  policy,          \* argv[4], never changed
  queue_max_size,  \* argv[3], never changed
  mutex,           \* its owner, or Free
  wait_queue,      \* accepted connections no worker has taken yet
  worker_queue,    \* connections some worker has taken
  pc,              \* where each thread is
  job,             \* the connection a thread holds in its locals
  toDrop,          \* iterations left of main's random-drop loop
  clock,           \* arrival time of the last connection
  sock,            \* kernel: the connection behind each descriptor, 0 if closed
  client,          \* what each client does, and "answered" after its response
  status           \* the server process: running, exited, segfault

args   == <<policy, queue_max_size>>
queues == <<wait_queue, worker_queue>>
kernel == <<clock, sock, client>>
vars   == <<args, mutex, queues, pc, job, toDrop, kernel, status>>

-----------------------------------------------------------------------------
(* main.start: arguments, empty queues, threads created, listenfd open.    *)
Init ==
  /\ policy \in Policies
  /\ queue_max_size \in QueueSizes
  /\ mutex = Free
  /\ wait_queue = << >>
  /\ worker_queue = << >>
  /\ pc = [t \in Actors |-> IF t = Main THEN "accept" ELSE "lock"]
  /\ job = [t \in Actors |-> Free]
  /\ toDrop = 0
  /\ clock = 0
  /\ sock = [fd \in Fds |-> 0]
  /\ client = [c \in Conns |-> "none"]
  /\ status = "running"

Goto(t, label) == pc' = [pc EXCEPT ![t] = label]

(* pthread_mutex_lock, and the second half of pthread_cond_wait.           *)
Lock(t, from, to) ==
  /\ status = "running"
  /\ pc[t] = from
  /\ mutex = Free
  /\ mutex' = t
  /\ Goto(t, to)
  /\ UNCHANGED <<args, queues, job, toDrop, kernel, status>>

(* Mutation: the connections being served are not counted.                 *)
FullOfWaiting == queueCurrSize(wait_queue) = queue_max_size

Full == queueCurrSize(worker_queue) + queueCurrSize(wait_queue) = queue_max_size

(* The close system call: closing a descriptor that is not open makes the  *)
(* Close wrapper report "Close error" and exit.                            *)
Close(fd) ==
  IF sock[fd] # 0
  THEN sock' = [sock EXCEPT ![fd] = 0] /\ UNCHANGED status
  ELSE status' = "exited" /\ UNCHANGED sock

-----------------------------------------------------------------------------
(* The kernel returns any unused descriptor: workers open files meanwhile, *)
(* so which one is the lowest unused varies.  The client's behaviour is    *)
(* the environment's choice, bounded by MaxSilent and MaxResets.           *)
MainAccept ==
  /\ status = "running"
  /\ pc[Main] = "accept"
  /\ clock < MaxConns
  /\ \E fd \in {f \in Fds : sock[f] = 0}, kind \in {"asks", "silent", "resets"} :
       /\ kind = "silent" => Cardinality({c \in Conns : client[c] = kind}) < MaxSilent
       /\ kind = "resets" => Cardinality({c \in Conns : client[c] = kind}) < MaxResets
       /\ sock' = [sock EXCEPT ![fd] = clock + 1]
       /\ client' = [client EXCEPT ![clock + 1] = kind]
       /\ job' = [job EXCEPT ![Main] = [value |-> fd, arrival_time |-> clock + 1]]
  /\ clock' = clock + 1
  /\ Goto(Main, "lock")
  /\ UNCHANGED <<args, mutex, queues, toDrop, status>>

(* accept fails when the process is out of descriptors, of which each      *)
(* worker may have one more open, for the file it sends: the wrapper exits.*)
MainAcceptFails ==
  /\ status = "running"
  /\ pc[Main] = "accept"
  /\ clock < MaxConns
  /\ Cardinality({fd \in Fds : sock[fd] # 0}) + Cardinality({w \in Threads : pc[w] = "handle"})
       >= Cardinality(Fds)
  /\ status' = "exited"
  /\ UNCHANGED <<args, mutex, queues, pc, job, toDrop, kernel>>

MainLock == Lock(Main, "lock", "admit")

(* Main holds the mutex and evaluates the overload condition (the while    *)
(* condition of policy block too, each time it is woken).                  *)
AtAdmit == status = "running" /\ pc[Main] = "admit"

MainHasRoom ==
  /\ AtAdmit
  /\ ~ Full
  /\ Goto(Main, "enqueue")
  /\ UNCHANGED <<args, mutex, queues, job, toDrop, kernel, status>>

MainBlock ==
  /\ AtAdmit
  /\ Full
  /\ policy = "block"
  /\ mutex' = Free
  /\ Goto(Main, "cond_block")
  /\ UNCHANGED <<args, queues, job, toDrop, kernel, status>>

(* Mutation: the path back to accept forgets pthread_mutex_unlock.         *)
MainDropNewKeepsMutex ==
  /\ AtAdmit
  /\ Full
  /\ policy = "dt" \/ (policy \in {"dh", "random"} /\ queueEmpty(wait_queue))
  /\ Close(job[Main].value)
  /\ job' = [job EXCEPT ![Main] = Free]
  /\ Goto(Main, "accept")
  /\ UNCHANGED <<args, mutex, queues, toDrop, clock, client>>

(* The new connection is closed: always under dt, and under dh and random  *)
(* when every connection in the server is already with a worker.           *)
MainDropNew ==
  /\ AtAdmit
  /\ Full
  /\ policy = "dt" \/ (policy \in {"dh", "random"} /\ queueEmpty(wait_queue))
  /\ Close(job[Main].value)
  /\ job' = [job EXCEPT ![Main] = Free]
  /\ mutex' = Free
  /\ Goto(Main, "accept")
  /\ UNCHANGED <<args, queues, toDrop, clock, client>>

(* Mutation: the new connection's descriptor is closed, not the head's.    *)
MainDropHeadClosesNew ==
  /\ AtAdmit
  /\ Full
  /\ policy = "dh"
  /\ ~ queueEmpty(wait_queue)
  /\ wait_queue' = dequeue(wait_queue)
  /\ Close(job[Main].value)
  /\ Goto(Main, "enqueue")
  /\ UNCHANGED <<args, mutex, worker_queue, job, toDrop, clock, client>>

MainDropHead ==
  /\ AtAdmit
  /\ Full
  /\ policy = "dh"
  /\ ~ queueEmpty(wait_queue)
  /\ wait_queue' = dequeue(wait_queue)
  /\ Close(dequeueValue(wait_queue))
  /\ Goto(Main, "enqueue")
  /\ UNCHANGED <<args, mutex, worker_queue, job, toDrop, clock, client>>

(* Mutation: half of the queue is rounded down.                            *)
MainStartRandomRoundsDown ==
  /\ AtAdmit
  /\ Full
  /\ policy = "random"
  /\ ~ queueEmpty(wait_queue)
  /\ toDrop' = queueCurrSize(wait_queue) \div 2
  /\ Goto(Main, "dropping")
  /\ UNCHANGED <<args, mutex, queues, job, kernel, status>>

MainStartRandom ==
  /\ AtAdmit
  /\ Full
  /\ policy = "random"
  /\ ~ queueEmpty(wait_queue)
  /\ toDrop' = (queueCurrSize(wait_queue) + 1) \div 2
  /\ Goto(Main, "dropping")
  /\ UNCHANGED <<args, mutex, queues, job, kernel, status>>

(* Mutation: the loop runs once more than it should.                       *)
MainDropRandomOnceMore ==
  /\ status = "running"
  /\ pc[Main] = "dropping"
  /\ \E index \in 0 .. queueCurrSize(wait_queue) - 1 :
       /\ wait_queue' = dequeueByIndex(wait_queue, queue_max_size, index)
       /\ Close(wait_queue[index + 1].value)
  /\ toDrop' = toDrop - 1
  /\ Goto(Main, IF toDrop = 0 THEN "enqueue" ELSE "dropping")
  /\ UNCHANGED <<args, mutex, worker_queue, job, clock, client>>

(* One iteration of the loop: the index is rand() % size.                  *)
MainDropRandom ==
  /\ status = "running"
  /\ pc[Main] = "dropping"
  /\ \E index \in 0 .. queueCurrSize(wait_queue) - 1 :
       /\ wait_queue' = dequeueByIndex(wait_queue, queue_max_size, index)
       /\ Close(wait_queue[index + 1].value)
  /\ toDrop' = toDrop - 1
  /\ Goto(Main, IF toDrop = 1 THEN "enqueue" ELSE "dropping")
  /\ UNCHANGED <<args, mutex, worker_queue, job, clock, client>>

(* No strcmp matches: main goes on to enqueue although there is no room.   *)
MainUnknownPolicy ==
  /\ AtAdmit
  /\ Full
  /\ policy \notin KnownPolicies
  /\ Goto(Main, "enqueue")
  /\ UNCHANGED <<args, mutex, queues, job, toDrop, kernel, status>>

Sleepers == {w \in Threads : pc[w] = "cond"}

(* Mutation: main signals only when the queue was empty.                   *)
MainEnqueueSignalsFirst ==
  /\ status = "running"
  /\ pc[Main] = "enqueue"
  /\ wait_queue' = enqueue(wait_queue, queue_max_size, job[Main])
  /\ \/ /\ Sleepers = {} \/ ~ queueEmpty(wait_queue)
        /\ Goto(Main, "accept")
     \/ \E w \in Sleepers :
          /\ queueEmpty(wait_queue)
          /\ pc' = [pc EXCEPT ![Main] = "accept", ![w] = "lock"]
  /\ job' = [job EXCEPT ![Main] = Free]
  /\ mutex' = Free
  /\ UNCHANGED <<args, worker_queue, toDrop, kernel, status>>

(* enqueue, signal cond (it wakes one of the workers that wait, if any),   *)
(* unlock.  A woken thread competes for the mutex like any other.          *)
MainEnqueue ==
  /\ status = "running"
  /\ pc[Main] = "enqueue"
  /\ wait_queue' = enqueue(wait_queue, queue_max_size, job[Main])
  /\ \/ /\ Sleepers = {}
        /\ Goto(Main, "accept")
     \/ \E w \in Sleepers :
          pc' = [pc EXCEPT ![Main] = "accept", ![w] = "lock"]
  /\ job' = [job EXCEPT ![Main] = Free]
  /\ mutex' = Free
  /\ UNCHANGED <<args, worker_queue, toDrop, kernel, status>>

-----------------------------------------------------------------------------
(* thread_function, for the worker w.                                      *)
WorkerLock(w) == Lock(w, "lock", "check")

WorkerSleep(w) ==
  /\ status = "running"
  /\ pc[w] = "check"
  /\ queueEmpty(wait_queue)
  /\ mutex' = Free
  /\ Goto(w, "cond")
  /\ UNCHANGED <<args, queues, job, toDrop, kernel, status>>

(* The head moves from wait_queue to worker_queue, which drops it silently *)
(* if that queue is full.                                                  *)
WorkerTake(w) ==
  /\ status = "running"
  /\ pc[w] = "check"
  /\ ~ queueEmpty(wait_queue)
  /\ wait_queue' = dequeue(wait_queue)
  /\ worker_queue' = enqueue(worker_queue, queue_max_size, Head(wait_queue))
  /\ job' = [job EXCEPT ![w] = Head(wait_queue)]
  /\ mutex' = Free
  /\ Goto(w, "handle")
  /\ UNCHANGED <<args, toDrop, kernel, status>>

(* requestHandle, without the mutex: it reads the request, blocking for as *)
(* long as the client does not send it whole, and writes a response.       *)
(* The client is the one behind the descriptor.                            *)
WorkerHandle(w) ==
  /\ status = "running"
  /\ pc[w] = "handle"
  /\ LET c == sock[job[w].value]
     IN  /\ c # 0
         /\ client[c] = "asks"
         /\ client' = [client EXCEPT ![c] = "answered"]
  /\ Goto(w, "close")
  /\ UNCHANGED <<args, mutex, queues, job, toDrop, clock, sock, status>>

(* A Rio_ wrapper fails, on a reset or a closed descriptor: the whole      *)
(* process exits.                                                          *)
WorkerIoError(w) ==
  /\ status = "running"
  /\ pc[w] = "handle"
  /\ LET c == sock[job[w].value] IN c = 0 \/ client[c] = "resets"
  /\ status' = "exited"
  /\ UNCHANGED <<args, mutex, queues, pc, job, toDrop, kernel>>

(* The descriptor is closed before the mutex is taken and the entry leaves *)
(* worker_queue: until then accept may give the same number out again.     *)
WorkerClose(w) ==
  /\ status = "running"
  /\ pc[w] = "close"
  /\ Close(job[w].value)
  /\ Goto(w, "lock_done")
  /\ UNCHANGED <<args, mutex, queues, job, toDrop, clock, client>>

WorkerLockDone(w) == Lock(w, "lock_done", "remove")

JobIndex(w) == queueFindIndex(worker_queue, job[w].value)

(* Mutation: the worker does not signal cond_block.                        *)
WorkerRemoveSilently(w) ==
  /\ status = "running"
  /\ pc[w] = "remove"
  /\ ~ indexFaults(worker_queue, queue_max_size, JobIndex(w))
  /\ worker_queue' = dequeueByIndex(worker_queue, queue_max_size, JobIndex(w))
  /\ job' = [job EXCEPT ![w] = Free]
  /\ mutex' = Free
  /\ Goto(w, "lock")
  /\ UNCHANGED <<args, wait_queue, toDrop, kernel, status>>

(* The entry is found by its descriptor; then signal cond_block and unlock.*)
WorkerRemove(w) ==
  /\ status = "running"
  /\ pc[w] = "remove"
  /\ ~ indexFaults(worker_queue, queue_max_size, JobIndex(w))
  /\ worker_queue' = dequeueByIndex(worker_queue, queue_max_size, JobIndex(w))
  /\ job' = [job EXCEPT ![w] = Free]
  /\ mutex' = Free
  /\ IF pc[Main] = "cond_block"
     THEN pc' = [pc EXCEPT ![w] = "lock", ![Main] = "lock"]
     ELSE Goto(w, "lock")
  /\ UNCHANGED <<args, wait_queue, toDrop, kernel, status>>

WorkerFaults(w) ==
  /\ status = "running"
  /\ pc[w] = "remove"
  /\ indexFaults(worker_queue, queue_max_size, JobIndex(w))
  /\ status' = "segfault"
  /\ UNCHANGED <<args, mutex, queues, pc, job, toDrop, kernel>>

(* pthread_cond_wait may return although nobody signalled.                 *)
SpuriousWakeup(t) ==
  /\ status = "running"
  /\ pc[t] \in {"cond", "cond_block"}
  /\ Goto(t, "lock")
  /\ UNCHANGED <<args, mutex, queues, job, toDrop, kernel, status>>

-----------------------------------------------------------------------------
MainSteps ==
  \/ MainHasRoom \/ MainBlock \/ MainDropNew \/ MainDropHead
  \/ MainStartRandom \/ MainDropRandom \/ MainUnknownPolicy \/ MainEnqueue

WorkerSteps(w) ==
  \/ WorkerSleep(w) \/ WorkerTake(w) \/ WorkerHandle(w) \/ WorkerIoError(w)
  \/ WorkerClose(w) \/ WorkerRemove(w) \/ WorkerFaults(w)

Next ==
  \/ MainAccept \/ MainAcceptFails \/ MainLock \/ MainSteps
  \/ \E w \in Threads : WorkerLock(w) \/ WorkerLockDone(w) \/ WorkerSteps(w)
  \/ \E t \in Actors : SpuriousWakeup(t)

Spec == Init /\ [][Next]_vars

(* Every thread keeps running, and a thread that asks for the mutex again  *)
(* and again while it becomes free gets it.  Nothing forces a connection,  *)
(* a client's data or a spurious wakeup.                                   *)
Fairness ==
  /\ WF_vars(MainSteps)
  /\ SF_vars(MainLock)
  /\ \A w \in Threads : /\ WF_vars(WorkerSteps(w))
                        /\ SF_vars(WorkerLock(w))
                        /\ SF_vars(WorkerLockDone(w))

FairSpec == Spec /\ Fairness

-----------------------------------------------------------------------------
(* Where a thread is when it owns the connection in its locals, and when   *)
(* it has taken one and not yet removed the entry from worker_queue.       *)
OwnsSocket(t) ==
  pc[t] \in IF t = Main
            THEN {"lock", "admit", "cond_block", "dropping", "enqueue"}
            ELSE {"handle", "close"}

InFlight(w) == pc[w] \in {"handle", "close", "lock_done", "remove"}

HoldsMutex(t) ==
  pc[t] \in IF t = Main THEN {"admit", "dropping", "enqueue"} ELSE {"check", "remove"}

(* The types of the variables, and the range of each thread's position.    *)
TypeOK ==
  /\ policy \in Policies
  /\ queue_max_size \in QueueSizes
  /\ mutex \in Actors \cup {Free}
  /\ wait_queue \in Seq(Jobs)
  /\ worker_queue \in Seq(Jobs)
  /\ pc \in [Actors -> {"accept", "lock", "admit", "cond_block", "dropping", "enqueue",
                        "check", "cond", "handle", "close", "lock_done", "remove"}]
  /\ pc[Main] \in {"accept", "lock", "admit", "cond_block", "dropping", "enqueue"}
  /\ \A w \in Threads :
       pc[w] \in {"lock", "check", "cond", "handle", "close", "lock_done", "remove"}
  /\ job \in [Actors -> Jobs \cup {Free}]
  /\ toDrop \in Nat
  /\ clock \in 0 .. MaxConns
  /\ sock \in [Fds -> 0 .. MaxConns]
  /\ client \in [Conns -> {"none", "asks", "silent", "resets", "answered"}]
  /\ status \in {"running", "exited", "segfault"}

(* Mutual exclusion: a thread is inside a critical section exactly when it *)
(* owns the mutex, so every path out of one, the early continues of main   *)
(* included, has unlocked it.                                              *)
LockDiscipline ==
  status = "running" => \A t \in Actors : HoldsMutex(t) <=> mutex = t

(* The server never holds more connections, waiting and being served, than *)
(* its queue_size argument, whatever the overload policy (server.c:101).   *)
CapacityBound ==
  policy \in KnownPolicies =>
    Len(wait_queue) + Len(worker_queue) <= queue_max_size

(* Each open client descriptor belongs to one owner: main, an entry of     *)
(* wait_queue or the worker that serves it.  An owner's descriptor is open *)
(* and still stands for its own connection, so none is closed twice, lost  *)
(* or closed under another connection that got the same number.            *)
SocketOwnership ==
  policy \in KnownPolicies =>
    LET holders == {t \in Actors : OwnsSocket(t)}
        owned   == ToSet(wait_queue) \cup {job[t] : t \in holders}
    IN  /\ \A j \in owned : sock[j.value] = j.arrival_time
        /\ \A fd \in Fds : sock[fd] # 0 => \E j \in owned : j.arrival_time = sock[fd]
        /\ Cardinality(owned) = Len(wait_queue) + Cardinality(holders)

(* worker_queue holds, descriptor by descriptor, as many entries as there  *)
(* are workers with such a job, although a descriptor that was closed and  *)
(* accepted again may stand in it twice: the search of a finishing worker  *)
(* always finds an entry and the server does not fall off the list.        *)
EveryJobHasItsEntry ==
  policy \in KnownPolicies =>
    /\ status # "segfault"
    /\ \A fd \in Fds :
         Cardinality({i \in DOMAIN worker_queue : worker_queue[i].value = fd})
           = Cardinality({w \in Threads : InFlight(w) /\ job[w].value = fd})

(* No wakeup is lost.  While some worker sleeps on cond, every waiting     *)
(* connection has a worker of its own on its way to the queue, so no       *)
(* connection waits behind busy workers; and main sleeps on cond_block     *)
(* only while the server is full.                                          *)
NoLostWakeup ==
  /\ Sleepers # {} =>
       Len(wait_queue) <= Cardinality({w \in Threads : pc[w] \in {"lock", "check"}})
  /\ pc[Main] = "cond_block" => Full

Silent == {c \in Conns : client[c] = "silent"}

(* As many silent clients as workers, or as the queue size, stop it all.   *)
Overwhelmed ==
  \/ Cardinality(Silent) >= Cardinality(Threads)
  \/ Cardinality(Silent) >= queue_max_size

Closed(c) == c <= clock /\ \A fd \in Fds : sock[fd] # c

(* A client that sends its request gets an answer or is dropped, and its   *)
(* connection is closed, as long as fewer clients stay silent than there   *)
(* are workers and places in the server; unless the server ran out of      *)
(* descriptors, and exited.                                                *)
EveryRequestResolved ==
  \A c \in Conns : client[c] = "asks" ~> Closed(c) \/ Overwhelmed \/ status = "exited"

(* Main gets rid of every connection it accepts, by queueing or closing    *)
(* it, and returns to accept: it never stays blocked on a full server.     *)
MainReturnsToAccept ==
  pc[Main] = "lock" ~> pc[Main] = "accept" \/ Overwhelmed \/ status = "exited"
=============================================================================
