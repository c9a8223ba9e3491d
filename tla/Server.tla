-------------------------------- MODULE Server --------------------------------
(***************************************************************************)
(* TcpServer and UdsServer: an acceptor that always has one accept pending *)
(* while the server serves.  Each accept is given its client socket        *)
(* beforehand.  The private part is kept alive by the handler of the       *)
(* pending accept, so it can outlive the server it reports to through `q`. *)
(***************************************************************************)
EXTENDS Naturals, FiniteSets, SequencesExt

CONSTANTS
  MaxClients,  \* bound: client sockets made
  MaxPeers     \* bound: peers that connect

VARIABLES
  alive,     \* q is not null: the server exists
  acceptor,  \* "closed", "open" after a failed bind, "listening"
  backlog,   \* connections that wait to be accepted
  peers,     \* connections ever made
  accepts,   \* the clients of pending accepts, oldest first
  tasks,     \* the loop's queue: completed accepts and posted deletions
  client,    \* what became of each client socket
  broken     \* the rules of use that were broken

vars == <<alive, acceptor, backlog, peers, accepts, tasks, client, broken>>

\* What user and system owe.
\* "acceptWorks": an accept fails only because the acceptor was closed.
\* "stopFirst":   the server is destroyed when it has been stopped and the
\*                accepts of that time were handled.
\* "drainFirst":  it listens again only then.
Breaks(rule, when) == broken' = broken \cup (IF when THEN {rule} ELSE {})

Clients == 1..MaxClients

\* The socket that StartAccept makes: a free number.
Fresh == {c \in Clients : client[c] = "none" /\ \A b \in 1..(c - 1) : client[b] # "none"}

Accepted(c, ok) == [op |-> "accept", c |-> c, ok |-> ok]

Pending == accepts # <<>> \/ \E i \in DOMAIN tasks : tasks[i].op = "accept"

\* Mutant: no accept is started.
StartAccept_Never(open, made) == accepts' = accepts /\ client' = made

\* StartAccept on an acceptor that is open or not; `made` are the clients.
StartAccept(open, made) ==
  IF ~alive \/ ~open THEN accepts' = accepts /\ client' = made
  ELSE \E c \in Fresh : /\ accepts' = Append(accepts, c)
                        /\ client' = [made EXCEPT ![c] = "waits"]

\* Listen, and the first accept. An acceptor that is open refuses to open; one
\* that could not bind stays open.
ListenAndServ(result) ==
  /\ alive
  /\ IF acceptor # "closed" THEN UNCHANGED <<acceptor, accepts, client>>
     ELSE IF result = "listening"
     THEN acceptor' = "listening" /\ StartAccept(TRUE, client)
     ELSE acceptor' = result /\ UNCHANGED <<accepts, client>>
  /\ Breaks("drainFirst", acceptor = "closed" /\ Pending)
  /\ UNCHANGED <<alive, backlog, peers, tasks>>

\* Closing the acceptor cancels what is pending and resets who waits.
Stop ==
  /\ alive
  /\ acceptor' = "closed" /\ backlog' = 0 /\ accepts' = <<>>
  /\ tasks' = tasks \o [i \in DOMAIN accepts |-> Accepted(accepts[i], FALSE)]
  /\ UNCHANGED <<alive, peers, client, broken>>

\* The destructor clears q. The acceptor goes with the private part, which a
\* pending accept keeps.
Destroy ==
  /\ alive
  /\ alive' = FALSE
  /\ IF Pending THEN UNCHANGED <<acceptor, backlog>>
                ELSE acceptor' = "closed" /\ backlog' = 0
  /\ Breaks("stopFirst", Pending \/ acceptor = "listening")
  /\ UNCHANGED <<peers, accepts, tasks, client>>

PeerConnects ==
  /\ acceptor = "listening" /\ peers < MaxPeers
  /\ peers' = peers + 1 /\ backlog' = backlog + 1
  /\ UNCHANGED <<alive, acceptor, accepts, tasks, client, broken>>

\* The kernel answers the oldest accept.
AcceptDone(ok) ==
  /\ accepts # <<>> /\ (ok => backlog > 0)
  /\ backlog' = IF ok THEN backlog - 1 ELSE backlog
  /\ accepts' = Tail(accepts)
  /\ tasks' = Append(tasks, Accepted(Head(accepts), ok))
  /\ Breaks("acceptWorks", ~ok)
  /\ UNCHANGED <<alive, acceptor, peers, client>>

\* Mutant: a stopped server hands nothing over.
Handed_IfOpen == IF alive /\ acceptor = "listening" THEN "given" ELSE "orphan"

\* InComingConnection hands the client to the user: through q, if it is there.
Handed == IF alive THEN "given" ELSE "orphan"

\* After a failure nothing is accepted any more; after a success the next
\* accept is started before the client is read from and handed over.
HandleAccept ==
  /\ tasks # <<>> /\ Head(tasks).op = "accept"
  /\ LET c == Head(tasks).c
     IN  IF Head(tasks).ok
         THEN /\ StartAccept(acceptor # "closed", [client EXCEPT ![c] = Handed])
              /\ tasks' = Tail(tasks)
         ELSE /\ client' = [client EXCEPT ![c] = "dying"]
              /\ tasks' = Append(Tail(tasks), [op |-> "delete", c |-> c, ok |-> TRUE])
              /\ UNCHANGED accepts
  /\ IF alive \/ accepts' # <<>> THEN UNCHANGED <<acceptor, backlog>>
     ELSE acceptor' = "closed" /\ backlog' = 0
  /\ UNCHANGED <<alive, peers, broken>>

DeleteClient ==
  /\ tasks # <<>> /\ Head(tasks).op = "delete"
  /\ client' = [client EXCEPT ![Head(tasks).c] = "none"]
  /\ tasks' = Tail(tasks)
  /\ UNCHANGED <<alive, acceptor, backlog, peers, accepts, broken>>

Init == /\ alive = TRUE /\ acceptor = "closed" /\ backlog = 0 /\ peers = 0
        /\ accepts = <<>> /\ tasks = <<>>
        /\ client = [c \in Clients |-> "none"] /\ broken = {}

\* A behaviour ends where a rule is broken.
Next == /\ broken = {}
        /\ \/ \E result \in {"listening", "open", "closed"} : ListenAndServ(result)
           \/ Stop \/ Destroy \/ PeerConnects
           \/ \E ok \in BOOLEAN : AcceptDone(ok)
           \/ HandleAccept \/ DeleteClient

\* The kernel accepts who waits, and the loop runs its queue.
Fairness == WF_vars(broken = {} /\ (AcceptDone(TRUE) \/ HandleAccept \/ DeleteClient))

Spec == Init /\ [][Next]_vars /\ Fairness

Owed == {c \in Clients : \/ Contains(accepts, c)
                         \/ \E i \in DOMAIN tasks : tasks[i].c = c}

\* No connection falls between server and user: every client socket waits in
\* an accept, is handed over, or is deleted, whenever the server is stopped,
\* restarted or destroyed around the accept.
NoOrphan ==
  broken = {} => \A c \in Clients :
    /\ client[c] # "orphan"
    /\ client[c] \in {"waits", "dying"} <=> c \in Owed

\* A server that listens is never deaf, and never accepts twice at once.
OneAccept ==
  broken = {} /\ acceptor = "listening" =>
    Len(accepts)
      + Cardinality({i \in DOMAIN tasks : tasks[i].op = "accept" /\ tasks[i].ok}) = 1

\* Who connects is accepted, as long as the server is not stopped.
Served ==
  backlog > 0 ~> backlog = 0 \/ broken # {}

=============================================================================
