--------------------------- MODULE RequestHandling ---------------------------
(***************************************************************************)
(* What the workers of the web server do with a request (request.c): the   *)
(* answer, its statistics, and the CGI children, which are forked with all *)
(* the descriptors the server has open.  The queue is a sequence here; the *)
(* mutex, the policies and failing calls are in WebServer.                 *)
(***************************************************************************)
EXTENDS Integers, Sequences, FiniteSets

CONSTANTS Threads,      \* the workers
          Descriptors,  \* what accept may return
          Requests,     \* [get, found, cgi, allowed]: what a client may ask
          MaxConns      \* bound: connections in a run

RequestAssumption ==
  Requests \subseteq [get : BOOLEAN, found : BOOLEAN, cgi : BOOLEAN, allowed : BOOLEAN]

VARIABLES conns,    \* the connections: what each asks for and what it got
          sock,     \* descriptor -> its connection, or 0
          waiting,  \* wait_queue
          worker,   \* thread -> where it is, and its fd
          counts,   \* thread -> total_threads, static_threads, dynamic_threads
          children  \* CGI processes: parent, standard output, what they hold

vars == <<conns, sock, waiting, worker, counts, children>>

Open == {sock[fd] : fd \in Descriptors} \ {0}

Init ==
  /\ conns = << >> /\ waiting = << >> /\ children = {}
  /\ sock = [fd \in Descriptors |-> 0]
  /\ worker = [w \in Threads |-> [at |-> "idle", fd |-> 0]]
  /\ counts = [w \in Threads |-> [total |-> 0, static |-> 0, dynamic |-> 0]]

Accept ==
  /\ Len(conns) < MaxConns
  /\ \E fd \in Descriptors, r \in Requests :
       /\ sock[fd] = 0
       /\ sock' = [sock EXCEPT ![fd] = Len(conns) + 1]
       /\ conns' = Append(conns, [asks |-> r, got |-> << >>])
       /\ waiting' = Append(waiting, fd)
  /\ UNCHANGED <<worker, counts, children>>

GoTo(w, place) == worker' = [worker EXCEPT ![w].at = place]

Take(w) ==
  /\ worker[w].at = "idle" /\ waiting # << >>
  /\ worker' = [worker EXCEPT ![w] = [at |-> "handle", fd |-> Head(waiting)]]
  /\ waiting' = Tail(waiting)
  /\ UNCHANGED <<conns, sock, counts, children>>

Send(c, part) == conns' = [conns EXCEPT ![c].got = Append(@, part)]

(* 501, 404 and 403; of the request only its kind is left out.             *)
Refused(r) == ~ (r.get /\ r.found /\ r.allowed)

Counted(n, r) ==
  [total   |-> n.total + 1,
   static  |-> n.static + (IF ~ Refused(r) /\ ~ r.cgi THEN 1 ELSE 0),
   dynamic |-> n.dynamic + (IF ~ Refused(r) /\ r.cgi THEN 1 ELSE 0)]

(* The request is counted before the header shows the counts.              *)
Handle(w) ==
  LET c == sock[worker[w].fd]
      r == conns[c].asks
  IN  /\ worker[w].at = "handle"
      /\ counts' = [counts EXCEPT ![w] = Counted(@, r)]
      /\ Send(c, [by |-> w, count |-> counts'[w]])
      /\ GoTo(w, IF r.cgi /\ ~ Refused(r) THEN "fork" ELSE "content")
      /\ UNCHANGED <<sock, waiting, children>>

(* The file or the text of the error.                                      *)
Content(w) ==
  /\ worker[w].at = "content"
  /\ Send(sock[worker[w].fd], "content")
  /\ GoTo(w, "close")
  /\ UNCHANGED <<sock, waiting, counts, children>>

Child(w) == [parent |-> w, out |-> sock[worker[w].fd], holds |-> Open, wrote |-> FALSE]

(* Mutation: the worker does not wait for its child.                       *)
ServeDynamicUnwaited(w) ==
  /\ worker[w].at = "fork"
  /\ children' = children \cup {Child(w)}
  /\ GoTo(w, "close")
  /\ UNCHANGED <<conns, sock, waiting, counts>>

ServeDynamic(w) ==
  /\ worker[w].at = "fork"
  /\ children' = children \cup {Child(w)}
  /\ GoTo(w, "wait")
  /\ UNCHANGED <<conns, sock, waiting, counts>>

WaitForChild(w) ==
  /\ worker[w].at = "wait"
  /\ \A child \in children : child.parent # w
  /\ GoTo(w, "close")
  /\ UNCHANGED <<conns, sock, waiting, counts, children>>

CloseSocket(w) ==
  /\ worker[w].at = "close"
  /\ sock' = [sock EXCEPT ![worker[w].fd] = 0]
  /\ GoTo(w, "idle")
  /\ UNCHANGED <<conns, waiting, counts, children>>

(* output.cgi: one answer on its standard output, then it ends.            *)
ChildWrites(child) ==
  /\ ~ child.wrote
  /\ children' = (children \ {child}) \cup {[child EXCEPT !.wrote = TRUE]}
  /\ Send(child.out, "content")
  /\ UNCHANGED <<sock, waiting, worker, counts>>

ChildEnds(child) ==
  /\ child.wrote
  /\ children' = children \ {child}
  /\ UNCHANGED <<conns, sock, waiting, worker, counts>>

Next ==
  \/ Accept
  \/ \E w \in Threads :
       \/ Take(w) \/ Handle(w) \/ Content(w)
       \/ ServeDynamic(w) \/ WaitForChild(w) \/ CloseSocket(w)
  \/ \E child \in children : ChildWrites(child) \/ ChildEnds(child)

Spec == Init /\ [][Next]_vars

-----------------------------------------------------------------------------
(* The client sees the end of the answer once nobody holds the connection. *)
AtEnd(c) == c \notin Open /\ \A child \in children : c \notin child.holds

Answered == {c \in DOMAIN conns : conns[c].got # << >>}

Header(c) == conns[c].got[1]

(* The answers of c's thread up to c's.                                    *)
UpTo(c) ==
  {d \in Answered : Header(d).by = Header(c).by /\ Header(d).count.total <= Header(c).count.total}

(* The counts in a header are the thread's answers up to and with this one.*)
CountsAreTrue ==
  \A c \in Answered :
    LET good(cgi) == {d \in UpTo(c) : ~ Refused(conns[d].asks) /\ conns[d].asks.cgi = cgi}
    IN  Header(c).count = [total   |-> Cardinality(UpTo(c)),
                           static  |-> Cardinality(good(FALSE)),
                           dynamic |-> Cardinality(good(TRUE))]

(* A client that sees the end has had one header and one content; and when *)
(* all workers wait for work every client has seen it, whatever copies of  *)
(* its descriptor the children of other workers were born with.            *)
AnswersAreWhole ==
  /\ \A c \in DOMAIN conns : /\ Len(conns[c].got) <= 2
                             /\ AtEnd(c) => Len(conns[c].got) = 2
                             /\ 2 \in DOMAIN conns[c].got => conns[c].got[2] = "content"
  /\ waiting = << >> /\ (\A w \in Threads : worker[w].at = "idle") =>
       \A c \in DOMAIN conns : AtEnd(c)

RequestsAreAnswered == CountsAreTrue /\ AnswersAreWhole
=============================================================================
