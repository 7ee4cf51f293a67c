------------------------------ MODULE MCTunnel ------------------------------
(* Instances of Tunnel: checks of both families, of reals of both families. *)
EXTENDS Tunnel

CONSTANTS w1, w2

RealIPv4 == <<10, 0, 0, 1>>
RealIPv6 == <<32, 1, 13, 184, 0, 0, 0, 0, 0, 0, 0, 0, 0, 0, 0, 30>>

(* The words of the header around the checksum.  With the second kind the   *)
(* sum of the header needs a second carry.                                  *)
Quiet == [before |-> <<1, 0, 518>>, after |-> <<2560, 2, 2560, 3>>]
Loud == [before |-> <<65535, 16384, 518>>, after |-> <<30945, 65535, 65535, 65535>>]

HopByHop == [type |-> HOPOPTS, bytes |-> <<0, 0, 1, 4, 0, 0, 0, 0>>]
SegmentRouting == [type |-> ROUTING, bytes |-> <<0, 2, 4, 0>> \o Zeros(20)]

Probe(version, real, method, words, front) ==
    [version |-> version, real |-> real, method |-> method, before |-> words.before,
     after |-> words.after, front |-> front, body |-> <<7, 7, 7, 7, 7, 7, 7, 7>>]

MCProbes ==
    {Probe(4, real, "GRE", Quiet, <<>>) : real \in {RealIPv4, RealIPv6}}
    \cup {Probe(4, real, "TUN", Loud, <<>>) : real \in {RealIPv4, RealIPv6}}
    \cup {Probe(6, RealIPv4, "GRE", Quiet, <<>>), Probe(6, RealIPv6, "TUN", Quiet, <<>>),
          Probe(6, RealIPv6, "GRE", Quiet, <<HopByHop>>),
          Probe(6, RealIPv4, "TUN", Quiet, <<HopByHop, SegmentRouting>>)}
=============================================================================
