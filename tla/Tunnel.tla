------------------------------- MODULE Tunnel -------------------------------
(***************************************************************************)
(* pkg/checktun: packets wait in a queue of the kernel, workers read them  *)
(* in order and handle them side by side.  Every packet is dropped, by a   *)
(* verdict on it and all packets before it that is given for every Batch-th *)
(* one; a copy of a marked one goes into the tunnel.                        *)
(*                                                                         *)
(* Packet identifiers only matter by their order, so the queue is two       *)
(* numbers: held packets, of which the first read have been read.  The     *)
(* content of a packet is looked at only by Encapsulate, which chooses it.  *)
(***************************************************************************)
EXTENDS ProbePacket

CONSTANTS
    Workers,        \* worker_num goroutines that call nfqueueHandler
    Batch,          \* 100
    MaxQueueLen,    \* max_queue_len of the kernel's queue
    MaxFailures,    \* bound: verdicts that fail for good
    Probes          \* what checks send

ASSUME BatchAssumption ==
    /\ Batch \in Nat \ {0}
    /\ MaxQueueLen \in Nat /\ MaxFailures \in Nat
    /\ IsFiniteSet(Workers)

(* The queue must have room for what all workers together may leave behind  *)
(* in it: Batch - 1 packets each, and Batch for every verdict that failed.   *)
ASSUME QueueAssumption ==
    MaxQueueLen > Cardinality(Workers) * (Batch - 1) + MaxFailures * Batch

VARIABLES
    held,           \* packets in the kernel's queue
    read,           \* those of them that a worker has read
    packetInQueue,  \* CheckTun.packetInQueue
    pc,             \* where a worker is in nfqueueHandler
    packetID,       \* the place in the queue of a worker's packet; 0: it left
    failures,       \* verdicts that failed so far
    last            \* the last packet handled, its message, was it sent

queueVars == <<held, read, packetID>>
vars == <<held, read, packetInQueue, pc, packetID, failures, last>>

(* A packet in the queue: marked by a dialer or not; with our option, with   *)
(* none, such as an answer the kernel gives by itself, or without a payload; *)
(* of the others nothing is looked at.                                       *)
Packets == [marked : {TRUE}, payload : {"plain", "probe"}, probe : Probes]
               \cup [marked : BOOLEAN, payload : {"none"}]

Payload(packet) ==
    IF packet.payload = "probe" THEN Emitted(packet.probe) ELSE Plain(packet.probe)

(* nfqueueHandler after dropPacket, with encapsulatePacket up to getSocket.   *)
MessageOf(packet) ==
    IF packet.marked /\ packet.payload # "none" THEN Handle(Payload(packet)) ELSE NoMessage

(* The packets with what is made of them: whether the message, if there is   *)
(* one, can be sent depends on the socket for it.                             *)
Handled ==
    {LET message == MessageOf(packet)
     IN  [packet |-> packet, message |-> message,
          sent |-> message # NoMessage /\ GetSocket(message)] : packet \in Packets}

NoPacket == [marked |-> FALSE, payload |-> "none"]

Init ==
    /\ held = 0 /\ read = 0 /\ packetInQueue = 0 /\ failures = 0
    /\ pc = [w \in Workers |-> "idle"]
    /\ packetID = [w \in Workers |-> 0]
    /\ last = [packet |-> NoPacket, message |-> NoMessage, sent |-> FALSE]

(* The kernel queues a packet, or drops it if the queue is full.             *)
Arrive ==
    /\ held < MaxQueueLen
    /\ held' = held + 1
    /\ UNCHANGED <<read, packetInQueue, pc, packetID, failures, last>>

(* A worker gets the next packet.                                            *)
Receive(w) ==
    /\ pc[w] = "idle" /\ read < held
    /\ read' = read + 1
    /\ packetID' = [packetID EXCEPT ![w] = read + 1]
    /\ pc' = [pc EXCEPT ![w] = "count"]
    /\ UNCHANGED <<held, packetInQueue, failures, last>>

(* dropPacket under packetInQueueMutex.                                      *)
Count(w) ==
    /\ pc[w] = "count"
    /\ packetInQueue' = (packetInQueue + 1) % Batch
    /\ pc' = [pc EXCEPT ![w] = IF packetInQueue + 1 < Batch THEN "encapsulate" ELSE "verdict"]
    /\ UNCHANGED <<held, read, packetID, failures, last>>

(* The packets up to the one with this identifier leave the queue.           *)
DropUpTo(id) ==
    /\ held' = held - id
    /\ read' = read - id
    /\ packetID' = [v \in Workers |-> IF packetID[v] > id THEN packetID[v] - id ELSE 0]

(* Faulty: a verdict on this packet only.                                    *)
VerdictSingle(w) ==
    /\ pc[w] = "verdict"
    /\ IF packetID[w] > 0 THEN DropUpTo(1) ELSE UNCHANGED queueVars
    /\ pc' = [pc EXCEPT ![w] = "encapsulate"]
    /\ UNCHANGED <<packetInQueue, failures, last>>

(* SetVerdictBatch succeeds; until then temporary errors repeat it.           *)
Verdict(w) ==
    /\ pc[w] = "verdict"
    /\ DropUpTo(packetID[w])
    /\ pc' = [pc EXCEPT ![w] = "encapsulate"]
    /\ UNCHANGED <<packetInQueue, failures, last>>

(* Faulty: the handler returns when the packet cannot be dropped.            *)
VerdictFailsAndReturns(w) ==
    /\ pc[w] = "verdict" /\ failures < MaxFailures
    /\ failures' = failures + 1
    /\ pc' = [pc EXCEPT ![w] = "idle"]
    /\ UNCHANGED <<held, read, packetID, packetInQueue, last>>

(* Another error: it is logged, and the packet is handled all the same.       *)
VerdictFails(w) ==
    /\ pc[w] = "verdict" /\ failures < MaxFailures
    /\ failures' = failures + 1
    /\ pc' = [pc EXCEPT ![w] = "encapsulate"]
    /\ UNCHANGED <<held, read, packetID, packetInQueue, last>>

(* encapsulatePacket, with the packet the worker has got.                     *)
Encapsulate(w) ==
    /\ pc[w] = "encapsulate"
    /\ last' \in Handled
    /\ pc' = [pc EXCEPT ![w] = "idle"]
    /\ packetID' = [packetID EXCEPT ![w] = 0]
    /\ UNCHANGED <<held, read, packetInQueue, failures>>

Next ==
    \/ Arrive
    \/ \E w \in Workers : \/ Receive(w) \/ Count(w) \/ Verdict(w) \/ VerdictFails(w)
                          \/ Encapsulate(w)

Spec == Init /\ [][Next]_vars

(* Workers run, and no verdict fails for a temporary reason for ever.         *)
FairSpec ==
    /\ Spec
    /\ \A w \in Workers : WF_vars(Receive(w)) /\ WF_vars(Count(w)) /\ WF_vars(Verdict(w))
                          /\ WF_vars(Encapsulate(w))

-----------------------------------------------------------------------------
(* The counters stay in their ranges, and a worker's packet is one that was  *)
(* read, by nobody else.                                                     *)
TypeOK ==
    /\ held \in 0..MaxQueueLen /\ read \in 0..held
    /\ packetInQueue \in 0..(Batch - 1)
    /\ failures \in 0..MaxFailures
    /\ pc \in [Workers -> {"idle", "count", "verdict", "encapsulate"}]
    /\ packetID \in [Workers -> 0..read]
    /\ \A v, w \in Workers : packetID[v] = packetID[w] /\ packetID[v] > 0 => v = w

(* What a check sends is found again: the message is for its real server, by *)
(* its method, and its payload is the packet the check would have sent       *)
(* without the option, with a right checksum and right lengths.              *)
Restores(probe, m) ==
    /\ m.ip = probe.real
    /\ m.lvsMethod = ForwardingMethod(probe)
    /\ m.payload = Plain(probe)

(* The real server can unpack the datagram: protocol or EtherType say of     *)
(* which version the packet inside is.                                       *)
Unpacks(d) ==
    /\ d.family = AF(d.to)
    /\ <<d.proto, d.etherType, d.payload.version>> \in
           {<<"IPIP", "none", 4>>, <<"IPV6", "none", 6>>, <<"GRE", "IPv4", 4>>, <<"GRE", "IPv6", 6>>}

(* A probe, and nothing but a probe, is made into a message, and the message *)
(* restores it, whatever the families of the checked address and of the real *)
(* server, and needs one of the sockets that New opens (ipv4Handler,         *)
(* ipv6Handler, removeIpv4Options, getSocket).                               *)
ProbeRestored ==
    LET packet == last.packet IN
    IF packet.marked /\ packet.payload = "probe"
    THEN last.message # NoMessage /\ Restores(packet.probe, last.message)
         /\ Unpacks(Datagram(last.message))
         /\ Socket(last.message) \in OpenedSockets
    ELSE last.message = NoMessage

(* When all packets are handled there is room for the next ones: otherwise   *)
(* none would come, the count would never reach Batch, and the queue would   *)
(* stay full for ever.  Workers that fall behind must not use up the room     *)
(* (dropPacket).                                                              *)
RoomWhenIdle ==
    read = held /\ (\A w \in Workers : pc[w] = "idle") => held < MaxQueueLen

(* A packet a worker has read is handled, whatever becomes of its verdict     *)
(* (nfqueueHandler).                                                          *)
PacketIsHandled == \A w \in Workers : pc[w] = "count" ~> pc[w] = "encapsulate"

(* Every message is sent.  Fails: see Sockets.                                *)
MessageIsSent == last.message # NoMessage => last.sent

-----------------------------------------------------------------------------
(* The inductive invariant behind RoomWhenIdle.  A verdict on the packet at *)
(* place b leaves the packets after it; so for every place b at which a     *)
(* verdict may still come, and for the last verdict given (place 0), the    *)
(* packets after b are bounded.                                             *)
Uncounted(b) == {w \in Workers : pc[w] = "count" /\ packetID[w] <= b}
UncountedAfter(b) == {w \in Workers : pc[w] = "count" /\ packetID[w] > b}
VerdictsAfter(b) == {w \in Workers : pc[w] = "verdict" /\ packetID[w] > b}

Places == {0} \cup {packetID[w] : w \in {v \in Workers : pc[v] \in {"count", "verdict"}}}

(* The packets after b that were counted.                                   *)
CountedAfter(b) == read - b - Cardinality(UncountedAfter(b))

(* Of Batch counted packets one brings a verdict.  It is about to be given  *)
(* after b, or failed, or went to a packet up to b that had not been counted *)
(* when the first one after b was read: one of another worker each.         *)
BoundedAfter(b) ==
    IF Uncounted(b) = Workers
    THEN CountedAfter(b) = 0
    ELSE CountedAfter(b) + (Batch - 1) * Cardinality(Uncounted(b))
           <= packetInQueue + Batch * (Cardinality(VerdictsAfter(b)) + failures)
                + (Batch - 1) * (Cardinality(Workers) - 1)

QueueInv == TypeOK /\ \A b \in Places : BoundedAfter(b)
=============================================================================
