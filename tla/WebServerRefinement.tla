------------------------- MODULE WebServerRefinement -------------------------
(***************************************************************************)
(* WebServer, started with one of the four known policies, implements      *)
(* ServerContract.                                                         *)
(***************************************************************************)
EXTENDS WebServer

(* The stage of a connection, read off the thread or the queue that has it.*)
Stage(c) ==
  LET serving == {w \in Threads : InFlight(w) /\ job[w].arrival_time = c}
  IN  CASE c > clock -> "new"
        [] OwnsSocket(Main) /\ job[Main].arrival_time = c -> "arrived"
        [] \E i \in DOMAIN wait_queue : wait_queue[i].arrival_time = c -> "waiting"
        [] serving # {} /\ client[c] # "answered" -> "serving"
        [] serving # {} /\ client[c] = "answered" -> "leaving"
        [] OTHER -> IF client[c] = "answered" THEN "served" ELSE "refused"

Contract == INSTANCE ServerContract WITH
  PoolSize   <- Cardinality(Threads),
  Capacities <- QueueSizes,
  capacity   <- queue_max_size,
  stage      <- [c \in Conns |-> Stage(c)],
  quota      <- toDrop,
  up         <- status = "running"

(* Every step of the server is a step of the contract: connections are     *)
(* taken in arrival order, never more than the queue size are inside, each *)
(* is answered or refused once, and a policy refuses only what it says,    *)
(* and only when the server is full (server.c:101-150).                    *)
ImplementsContract == Contract!Spec
=============================================================================
