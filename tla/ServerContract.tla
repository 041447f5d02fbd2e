--------------------------- MODULE ServerContract ---------------------------
(***************************************************************************)
(* What the web server promises its clients, with no threads, locks,       *)
(* queues or descriptors: the stages a connection goes through, how many   *)
(* connections are in the server and with a worker at most, the order in   *)
(* which they are taken, and which one each overload policy may refuse.    *)
(* Nothing maps these definitions to lines: WebServer implements them.     *)
(***************************************************************************)
EXTENDS Integers, FiniteSets

CONSTANTS MaxConns, PoolSize, Capacities, Policies

VARIABLES policy, capacity, stage, quota, up

vars == <<policy, capacity, stage, quota, up>>

Conns == 1 .. MaxConns

At(stages) == {c \in Conns : stage[c] \in stages}

Waiting == At({"waiting"})

InSystem == At({"waiting", "serving", "leaving"})

Overloaded == Cardinality(InSystem) = capacity

IsOldest(c, S) == c \in S /\ \A d \in S : c <= d

Init ==
  /\ policy \in Policies
  /\ capacity \in Capacities
  /\ stage = [c \in Conns |-> "new"]
  /\ quota = 0
  /\ up = TRUE

Move(c, to) ==
  /\ up
  /\ stage' = [stage EXCEPT ![c] = to]
  /\ UNCHANGED <<policy, capacity, up>>

(* Connections come one at a time.                                         *)
Arrive(c) ==
  /\ At({"arrived"}) = {}
  /\ IsOldest(c, At({"new"}))
  /\ Move(c, "arrived")
  /\ UNCHANGED quota

Admit(c) ==
  /\ c \in At({"arrived"})
  /\ ~ Overloaded
  /\ quota = 0
  /\ Move(c, "waiting")
  /\ UNCHANGED quota

RefuseNew(c) ==
  /\ c \in At({"arrived"})
  /\ Overloaded
  /\ policy = "dt" \/ (policy \in {"dh", "random"} /\ Waiting = {})
  /\ Move(c, "refused")
  /\ UNCHANGED quota

RefuseOldest(c) ==
  /\ At({"arrived"}) # {}
  /\ Overloaded
  /\ policy = "dh"
  /\ IsOldest(c, Waiting)
  /\ Move(c, "refused")
  /\ UNCHANGED quota

(* Random refusal: half of the waiting connections, rounded up.            *)
StartRefusing ==
  /\ up
  /\ At({"arrived"}) # {}
  /\ Overloaded
  /\ policy = "random"
  /\ Waiting # {}
  /\ quota = 0
  /\ quota' = (Cardinality(Waiting) + 1) \div 2
  /\ UNCHANGED <<policy, capacity, stage, up>>

RefuseAny(c) ==
  /\ quota > 0
  /\ c \in Waiting
  /\ Move(c, "refused")
  /\ quota' = quota - 1

(* The oldest waiting connection is taken by a free worker.                *)
Start(c) ==
  /\ IsOldest(c, Waiting)
  /\ Cardinality(At({"serving", "leaving"})) < PoolSize
  /\ quota = 0
  /\ Move(c, "serving")
  /\ UNCHANGED quota

Answer(c) == c \in At({"serving"}) /\ Move(c, "leaving") /\ UNCHANGED quota

Leave(c) == c \in At({"leaving"}) /\ Move(c, "served") /\ UNCHANGED quota

(* An I/O error of one connection stops the whole server.                  *)
Stop ==
  /\ up
  /\ up' = FALSE
  /\ UNCHANGED <<policy, capacity, stage, quota>>

Next ==
  \/ \E c \in Conns :
       \/ Arrive(c) \/ Admit(c) \/ RefuseNew(c) \/ RefuseOldest(c) \/ RefuseAny(c)
       \/ Start(c) \/ Answer(c) \/ Leave(c)
  \/ StartRefusing
  \/ Stop

Spec == Init /\ [][Next]_vars
=============================================================================
