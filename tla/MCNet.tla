-------------------------------- MODULE MCNet --------------------------------
(***************************************************************************)
(* Sockets and what makes them: the connector, the servers' accept loop,   *)
(* the datagram socket and the other owners of a stream.  Each has its own *)
(* state; `part` says which of them a behaviour uses.                      *)
(***************************************************************************)
EXTENDS Connector, TLC

CONSTANTS MaxClients, MaxPeers, MaxOpens, MaxSends, MaxDatagrams, MaxWrites,
          MaxReads, DeviceRules

VARIABLES
  part,
  \* Server
  serving, acceptor, backlog, peers, accepts, tasks, client, unserved,
  \* UdpSocket
  exists, hasFd, bound, halted, closeCalled, receives, sends, done, kernel,
  buffer, arrived, binds, sent, delivered, udpFault, reopened,
  \* Device
  kind, stream, open, stopped, close_called, unsent, q, ops, queue, dying,
  opens, opened, writes, reads, dangled

serverVars == <<serving, acceptor, backlog, peers, accepts, tasks, client,
                unserved>>
udpVars    == <<exists, hasFd, bound, halted, closeCalled, receives, sends,
                done, kernel, buffer, arrived, binds, sent, delivered, udpFault,
                reopened>>
deviceVars == <<kind, stream, open, stopped, close_called, unsent, q, ops,
                queue, dying, opens, opened, writes, reads, dangled>>

allVars == <<part, vars, serverVars, udpVars, deviceVars>>

Serve == INSTANCE Server WITH alive <- serving, broken <- unserved

Udp == INSTANCE UdpSocket WITH
         alive <- exists, open <- hasFd, stopped <- halted, reads <- receives,
         tasks <- done, opens <- binds, fault <- udpFault, broken <- reopened

Dev == INSTANCE Device WITH
         pending <- ops, ready <- queue, deleting <- dying, answers <- opened,
         fault <- dangled

MCInit == /\ part \in {"connector", "server", "udp", "device"}
          /\ Init /\ Serve!Init /\ Udp!Init /\ Dev!Init
          /\ part # "device" => kind = "uds" /\ opens = 0

Connects == /\ part = "connector" /\ Next
            /\ UNCHANGED <<serverVars, udpVars, deviceVars>>

Serves == /\ part = "server" /\ Serve!Next
          /\ UNCHANGED <<vars, udpVars, deviceVars>>

SendsDatagrams == /\ part = "udp" /\ Udp!Next
                  /\ UNCHANGED <<vars, serverVars, deviceVars>>

Streams == /\ part = "device" /\ Dev!Next
           /\ UNCHANGED <<vars, serverVars, udpVars>>

MCNext == UNCHANGED part /\ (Connects \/ Serves \/ SendsDatagrams \/ Streams)

\* No step of a part that the behaviour does not use is ever enabled.
MCSpec == /\ MCInit /\ [][MCNext]_allVars
          /\ WF_vars(Loop)
          /\ \A a \in Attempts : WF_vars(Expire(a))
          /\ Serve!Fairness /\ Dev!Fairness

-----------------------------------------------------------------------------

\* A server keeps accepting, one accept at a time, and no accepted client is
\* left that nobody was told of.
ClientsHandedOver == Serve!NoOrphan /\ Serve!OneAccept

\* A connection that waits is handed over, while the server serves.
Served == Serve!Served

\* A socket or device the user closed ends closed, whatever was under way.
EndsClosed == Udp!StoppedIsClosed /\ Dev!ClosedInTheEnd

\* Every attempt and every open is answered by a signal.
AllAnswered == Answered /\ Dev!OpenAnswered

=============================================================================
