---------------------------- MODULE ProbePacket ----------------------------
(***************************************************************************)
(* The packets of a tunnelled health check.  internal/utils/xnet has the    *)
(* kernel add an option to them that names the real server and the method; *)
(* pkg/checktun finds the option, takes it out again and sends what is left *)
(* through the tunnel.  Addresses and options are sequences of bytes, since *)
(* their lengths and offsets are what the two sides must agree on; the     *)
(* rest of a header is a record.                                            *)
(***************************************************************************)
EXTENDS Integers, Sequences, FiniteSetsExt, SequencesExt

IPOptionForExperiment == 30
IPVSConnFTunnel == 2
IPVSConnFGRETunnel == 5

HOPOPTS == 0
TCP == 6
ROUTING == 43
FRAGMENT == 44
DSTOPTS == 60

IPv4HeaderLen == 20

(* b[i] of the Go slice, and b[i:j].                                        *)
Byte(b, i) == b[i + 1]

Slice(b, i, j) == SubSeq(b, i + 1, j)

Zeros(n) == [i \in 1..n |-> 0]

-----------------------------------------------------------------------------
(* The sending side: exp_header.go and net_dialer.go.                       *)

ConstructExperimentalHeaderWithIP(ip, method) ==
    <<IPOptionForExperiment, 2 + Len(ip) + 1>> \o ip \o <<method>>

(* Pad1 or PadN up to a multiple of 8.                                      *)
Padding(n) ==
    CASE n = 0 -> <<>>
      [] n = 1 -> <<0>>
      [] OTHER -> <<1, n - 2>> \o Zeros(n - 2)

(* Its first byte, the next header, is filled by the kernel.                *)
ConstructDstHeaderWithIP(ip, method) ==
    LET payloadLen == 2 + 2 + Len(ip) + 1
        pad == (8 - (payloadLen % 8)) % 8
    IN  <<0, ((payloadLen + pad) \div 8) - 1, IPOptionForExperiment, Len(ip) + 1>>
        \o ip \o <<method>> \o Padding(pad)

(* A probe is what a check sends: the family of the address it checks, the  *)
(* real server, the forwarding method as the configuration spells it, the   *)
(* bytes it carries, and what else is in the headers.                       *)
ForwardingMethod(probe) ==
    IF probe.method = "GRE" THEN IPVSConnFGRETunnel ELSE IPVSConnFTunnel

Header(probe) ==
    IF probe.version = 4
    THEN ConstructExperimentalHeaderWithIP(probe.real, ForwardingMethod(probe))
    ELSE ConstructDstHeaderWithIP(probe.real, ForwardingMethod(probe))

-----------------------------------------------------------------------------
(* calculateIpv4Checksum.  The header is the 16-bit words                   *)
(* version/ihl/tos, total length, four words with the checksum last, and    *)
(* the addresses; "before" and "after" are those around the checksum.       *)
HeaderWords(p, checksum) ==
    <<(p.version * 16 + p.ihl) * 256, p.totalLen>> \o p.before \o <<checksum>> \o p.after

WordSum(words) == SumFunction(words)

(* Faulty: the carry is added once.                                         *)
FoldOnce(sum) == IF sum > 65535 THEN (sum \div 65536) + (sum % 65536) ELSE sum

Fold(sum) == LET f[s \in Nat] == IF s > 65535 THEN f[(s \div 65536) + (s % 65536)] ELSE s
             IN  f[sum]

(* uint16(^sum)                                                             *)
CalculateIpv4Checksum(words) == (-1 - Fold(WordSum(words))) % 65536

(* Its definition: the end-around carry makes a sum one modulo 2^16 - 1,    *)
(* and a header is right if its words, the checksum included, add up to     *)
(* minus zero.                                                              *)
OnesComplementSum(words) ==
    IF WordSum(words) = 0 THEN 0 ELSE ((WordSum(words) - 1) % 65535) + 1

(* What the kernel puts on the wire; external.  It pads the options of      *)
(* IPv4 to words, chains the extension headers of IPv6 and computes the     *)
(* checksum.  "front" are extension headers it was told to put before ours, *)
(* each a pair of type and bytes whose first is the next header.            *)
KernelIPv4(probe, option) ==
    LET options == option \o Zeros((4 - (Len(option) % 4)) % 4)
        p == [version |-> 4, ihl |-> 5 + Len(options) \div 4,
              totalLen |-> IPv4HeaderLen + Len(options) + Len(probe.body),
              before |-> probe.before, after |-> probe.after,
              options |-> options, body |-> probe.body, checksum |-> 0]
        words == HeaderWords(p, 0) \o
                 [i \in 1..(Len(options) \div 2) |-> options[2 * i - 1] * 256 + options[2 * i]]
    IN  [p EXCEPT !.checksum = 65535 - OnesComplementSum(words)]

KernelIPv6(probe, headers) ==
    LET next(i) == IF i < Len(headers) THEN headers[i + 1].type ELSE TCP
        chain == [i \in 1..Len(headers) |-> [headers[i].bytes EXCEPT ![1] = next(i)]]
        bytes == FlattenSeq(chain) \o probe.body
    IN  [version |-> 6, nextHeader |-> next(0), payloadLen |-> Len(bytes), options |-> bytes]

Emitted(probe) ==
    IF probe.version = 4 THEN KernelIPv4(probe, Header(probe))
    ELSE KernelIPv6(probe, Append(probe.front, [type |-> DSTOPTS, bytes |-> Header(probe)]))

(* The packet of the same check without our option.                         *)
Plain(probe) ==
    IF probe.version = 4 THEN KernelIPv4(probe, <<>>) ELSE KernelIPv6(probe, probe.front)

-----------------------------------------------------------------------------
(* The receiving side: check_tun.go.                                        *)

NoMessage == [version |-> 0]

Message(ip, method, payload) ==
    [ip |-> ip, lvsMethod |-> method, payload |-> payload, version |-> payload.version]

(* ipv4Handler goes from option to option; the result is where the first    *)
(* one stands that it can use, or the end of the options.  A usable one     *)
(* holds an address of 4 or of 16 bytes, which AddrFromSlice accepts.       *)
Ipv4Option(options) ==
    LET end == Len(options)
        at[i \in 0..(end + 255)] ==
            IF i > end - 2 \/ Byte(options, i + 1) = 0 \/ Byte(options, i + 1) + i > end THEN end
            ELSE IF Byte(options, i) = IPOptionForExperiment /\ Byte(options, i + 1) \in {7, 19}
                 THEN i
            ELSE at[i + Byte(options, i + 1)]
    IN  at[0]

RemoveIpv4Options(p) ==
    LET q == [p EXCEPT !.options = <<>>, !.ihl = 5, !.totalLen = IPv4HeaderLen + Len(p.body)]
    IN  [q EXCEPT !.checksum = CalculateIpv4Checksum(HeaderWords(q, 0))]

Ipv4Handler(p) ==
    LET i == Ipv4Option(p.options)
        len == Byte(p.options, i + 1)
    IN  IF i = Len(p.options) THEN NoMessage
        ELSE Message(Slice(p.options, i + 2, i + len - 1), Byte(p.options, i + len - 1),
                     RemoveIpv4Options(p))

(* ipv6Handler follows the chain of extension headers.  from is where the   *)
(* type of the header at i stands: Fixed, the next-header field of the IPv6 *)
(* header, or the offset of the header before it.  An option that is ours   *)
(* but of another length moves on without moving from.                      *)
Fixed == -1

TypeAt(p, from) == IF from = Fixed THEN p.nextHeader ELSE Byte(p.options, from)

OctetNum(p, i, from) == IF TypeAt(p, from) = FRAGMENT THEN 1 ELSE Byte(p.options, i + 1)

(* (octetNum+1) << 3, octetNum being a byte.                                *)
HeaderLength(octetNum) == ((octetNum + 1) % 256) * 8

IsOurs(p, i) == /\ Byte(p.options, i + 2) = IPOptionForExperiment
                /\ Byte(p.options, i + 3) + i <= Len(p.options)

Nowhere == [at |-> -1, from |-> Fixed]

Ipv6Option(p) ==
    LET end == Len(p.options)
        find[i \in 0..(end + 2048), from \in Fixed..end] ==
            LET type == TypeAt(p, from)
                next == i + HeaderLength(OctetNum(p, i, from))
            IN  IF i > end - 8 \/ type \notin {DSTOPTS, FRAGMENT, HOPOPTS, ROUTING} THEN Nowhere
                ELSE IF type # DSTOPTS \/ ~IsOurs(p, i) THEN find[next, i]
                ELSE IF Byte(p.options, i + 3) \in {5, 17} THEN [at |-> i, from |-> from]
                ELSE find[next, from]
    IN  find[0, Fixed]

(* The header goes, the one before it points to the one after it.           *)
RemoveDstHeader(p, i, from) ==
    LET next == Byte(p.options, i)
        delta == HeaderLength(Byte(p.options, i + 1))
        linked == IF from = Fixed THEN p.options ELSE [p.options EXCEPT ![from + 1] = next]
    IN  [p EXCEPT !.nextHeader = IF from = Fixed THEN next ELSE @,
                  !.payloadLen = @ - delta,
                  !.options = Slice(linked, 0, i) \o Slice(linked, i + delta, Len(linked))]

Ipv6Handler(p) ==
    LET o == Ipv6Option(p)
        i == o.at
        len == Byte(p.options, i + 3)
    IN  IF i = -1 THEN NoMessage
        ELSE Message(Slice(p.options, i + 4, i + 4 + len - 1), Byte(p.options, i + 4 + len - 1),
                     RemoveDstHeader(p, i, o.from))

(* encapsulatePacket up to getSocket.                                       *)
Handle(p) == IF p.version = 4 THEN Ipv4Handler(p) ELSE Ipv6Handler(p)

-----------------------------------------------------------------------------
(* getSocket: the family of the outer packet and its protocol.              *)
AF(ip) == IF Len(ip) = 4 THEN 4 ELSE 6

Proto(m) ==
    CASE m.lvsMethod = IPVSConnFGRETunnel -> "GRE"
      [] m.lvsMethod = IPVSConnFTunnel /\ m.version = 4 -> "IPIP"
      [] m.lvsMethod = IPVSConnFTunnel /\ m.version = 6 -> "IPV6"

Socket(m) == <<AF(m.ip), Proto(m)>>

(* New opens these sockets, in a local variable.                            *)
OpenedSockets == {4, 6} \X {"IPIP", "IPV6", "GRE"}

(* The field CheckTun.sockets, which getSocket reads, keeps the empty map.  *)
Sockets == {}

(* sendMessage: what goes into the tunnel, with the EtherType in front of   *)
(* it if it is a GRE tunnel.                                                *)
Datagram(m) ==
    [to |-> m.ip, family |-> AF(m.ip), proto |-> Proto(m), payload |-> m.payload,
     etherType |-> IF Proto(m) # "GRE" THEN "none" ELSE IF m.version = 4 THEN "IPv4" ELSE "IPv6"]

GetSocket(m) == Socket(m) \in Sockets
=============================================================================
