------------------------- MODULE MCReconfiguration -------------------------
(* Instances of Reconfiguration: files as an operator may write them one     *)
(* after the other.                                                          *)
EXTENDS Reconfiguration

CONSTANTS req1, req2, vip1, vip2, ip1, ip2, host1, host2, grp1, grp2, grp3

(* Nil is what the file leaves open.                                         *)
Word(word) == [word |-> word, upper |-> FALSE]
Addr(addr) == [addr |-> addr, mapped |-> FALSE]

Check ==
    [type |-> Nil, connectIP |-> Addr(vip1), bindIP |-> Addr(ip2), connectTimeout |-> 50,
     checkTimeout |-> 0, virtualhost |-> Nil, delayLoop |-> Nil, retries |-> Nil, retryDelay |-> Nil]

Real(checks) ==
    [ip |-> Addr(ip1), port |-> 80, method |-> Nil, virtualhost |-> Nil, delayLoop |-> Nil,
     retries |-> Nil, retryDelay |-> Nil, checkers |-> checks]

Lists(tcp, http, grpc) == [TCP |-> tcp, HTTP |-> http, HTTPS |-> <<>>, GRPC |-> grpc]
OneHTTP == Real(Lists(<<>>, <<Check>>, <<>>))

Service(port, reals) ==
    [vip |-> Addr(vip1), port |-> port, protocol |-> Word("TCP"), method |-> Nil,
     lvsSched |-> [word |-> "wlc", upper |-> TRUE], ops |-> FALSE, group |-> NoGroup, quorumUp |-> Nil,
     virtualhost |-> Nil, delayLoop |-> Nil, retries |-> Nil, retryDelay |-> Nil, reals |-> reals]

Script(args) == [words |-> 3, handler |-> TRUE, args |-> args]

Plain == <<Service(80, <<OneHTTP>>)>>

(* Settings on one, two and three levels; fractions of a second.             *)
OuterSettings ==
    <<[Service(80, <<[OneHTTP EXCEPT !.delayLoop = 20]>>)
          EXCEPT !.delayLoop = 15, !.virtualhost = host1, !.retryDelay = 19]>>
InnerSettings ==
    <<[Service(80, <<[Real(Lists(<<Check>>, <<[Check EXCEPT !.delayLoop = 10, !.retries = 0]>>, <<>>))
                         EXCEPT !.retries = 3, !.virtualhost = host2]>>)
          EXCEPT !.retries = 2, !.virtualhost = host1]>>

(* Checkers that differ in one setting only.                                 *)
Twins ==
    <<Service(80, <<Real(Lists(<<Check>>,
                               <<[Check EXCEPT !.virtualhost = host1], [Check EXCEPT !.virtualhost = host2]>>,
                               <<[Check EXCEPT !.connectIP = [addr |-> vip1, mapped |-> TRUE]]>>))>>)>>

Methods ==
    <<[Service(80, <<OneHTTP, [OneHTTP EXCEPT !.ip = Addr(ip2), !.method = [word |-> "TUN", upper |-> TRUE]]>>)
          EXCEPT !.method = Word("GRE"), !.lvsSched = Word("mh")]>>

(* One prefix, spelled in two ways, with two groups and a service without.   *)
Groups ==
    <<[Service(80, <<OneHTTP>>) EXCEPT !.lvsSched = Word("wlc"), !.ops = TRUE],
      [Service(81, <<OneHTTP>>) EXCEPT !.quorumUp = Script(<<host1, grp1, host2>>)],
      [Service(82, <<OneHTTP>>) EXCEPT !.group = grp2, !.vip = [addr |-> vip1, mapped |-> TRUE]],
      [Service(83, <<OneHTTP>>) EXCEPT !.group = grp2, !.vip = Addr(vip2)]>>

BadScript == <<[Service(80, <<OneHTTP>>) EXCEPT !.quorumUp = Script(<<grp1>>)], Service(81, <<OneHTTP>>)>>
UnknownGroup == <<[Service(80, <<OneHTTP>>) EXCEPT !.group = grp3]>>

(* As text: only what is set, a comment here and there.                      *)
Space == Char(" ")
Line(name, values) == <<Run(name)>> \o FlattenSeq(ForEach(values, LAMBDA v : <<Space, Run(v)>>))
Opening(name, values) == Line(name, values) \o <<Space, Char("{")>>
Closing == <<Space, Space, Char("}")>>
Comment == <<Space, Char("#"), Run("text"), Space, Char("{")>>
Remark == <<Space, Char("!"), Run("text"), Space, Char("{")>>
Conflict == <<Char(">"), Char(">"), Run("text")>>
Glued(name, values) == Line(name, values) \o <<Char("{")>>

Setting(name, value) == IF value = Nil THEN <<>> ELSE <<Line(name, <<value>>)>>
Quoted(name, value) ==
    IF value = Nil THEN <<>> ELSE <<<<Run(name), Space, Char("\""), Run(value), Char("\"")>>>>

Schedule(c) ==
    Setting("delay_loop", c.delayLoop) \o Setting("nb_get_retry", c.retries)
    \o Setting("delay_before_retry", c.retryDelay)

CheckerText(c, name) ==
    <<Opening(name, <<>>), Line("connect_ip", <<c.connectIP>>), Line("bindto", <<c.bindIP>>),
      Line("connect_timeout", <<c.connectTimeout>>), Line("check_timeout", <<c.checkTimeout>>),
      Opening("url", <<>>)>> \o Setting("virtualhost", c.virtualhost) \o <<Closing>>
    \o Schedule(c) \o <<Closing>>

CheckersText(list, name) == FlattenSeq([i \in 1..Len(list) |-> CheckerText(list[i], name)])

RealText(r) ==
    <<Opening("real_server", <<r.ip, r.port>>), Comment, Line("weight", <<1>>)>>
    \o Setting("lvs_method", r.method) \o Setting("virtualhost", r.virtualhost) \o Schedule(r)
    \o CheckersText(r.checkers.GRPC, "GRPC_CHECK") \o CheckersText(r.checkers.TCP, "TCP_CHECK")
    \o CheckersText(r.checkers.HTTP, "HTTP_GET") \o <<Closing>>

ServiceText(s) ==
    <<Opening("virtual_server", <<s.vip, s.port>>), Remark, Line("protocol", <<s.protocol>>),
      Line("lvs_sched", <<s.lvsSched>>)>>
    \o FlattenSeq([i \in 1..Len(s.reals) |-> RealText(s.reals[i])])
    \o Setting("lvs_method", s.method) \o Quoted("quorum_up", s.quorumUp)
    \o (IF s.group = NoGroup THEN <<>> ELSE <<Line("announce_group", <<s.group>>)>>)
    \o (IF s.ops THEN <<Line("ops", <<>>)>> ELSE <<>>)
    \o Setting("virtualhost", s.virtualhost) \o Schedule(s) \o <<Closing>>

Lines(services) == FlattenSeq([i \in 1..Len(services) |-> ServiceText(services[i])])

(* The methods are in a file of its own, included; the last four files are    *)
(* damaged: with a brace too many, cut off within the second service, without  *)
(* the space in front of a brace, with the mark of a merge conflict.           *)
MCMeant ==
    [plain |-> Plain, outer |-> OuterSettings, inner |-> InnerSettings, twins |-> Twins,
     methods |-> Methods, groups |-> Groups, badScript |-> BadScript, unknownGroup |-> UnknownGroup,
     closed |-> Plain, cut |-> Groups, glued |-> Plain, conflict |-> Plain]

MCText ==
    [f \in DOMAIN MCMeant |->
        CASE f = "methods" -> [main |-> <<Comment, <<>>, Line("include", <<"services">>),
                                          Line("include", <<"missing">>)>>,
                               services |-> Lines(Methods)]
          [] f = "closed" -> [main |-> <<Line("include", <<"services">>)>> \o Lines(Plain),
                              services |-> Append(Lines(Plain), Closing)]
          [] f = "cut" -> [main |-> SubSeq(Lines(Groups), 1, 30)]
          [] f = "glued" -> [main |-> [Lines(Plain) EXCEPT ![1] = Glued("virtual_server", <<Addr(vip1), 80>>)]]
          [] f = "conflict" -> [main |-> <<Conflict>> \o Lines(Plain)]
          [] OTHER -> [main |-> Lines(MCMeant[f])]]

MCFiles == DOMAIN MCMeant

(* These files meet what the theorems assume.                                 *)
ASSUME Files = MCFiles => ProperMethods /\ DistinctEntries /\ KnownReplacement

(* Only the connect timeout changes; a checker, a real, a service is there    *)
(* twice; the method of a real in lower case.                                 *)
OneTCP == Real(Lists(<<Check>>, <<>>, <<>>))

OddMeant ==
    [plain |-> Plain,
     timeout |-> <<Service(80, <<Real(Lists(<<>>, <<[Check EXCEPT !.connectTimeout = 10]>>, <<>>))>>)>>,
     checkerTwice |-> <<Service(80, <<Real(Lists(<<>>, <<Check, Check>>, <<>>))>>)>>,
     realTwice |-> <<Service(80, <<OneHTTP, OneTCP>>)>>,
     serviceTwice |-> <<Service(80, <<OneHTTP>>), Service(80, <<OneTCP>>)>>,
     lowerCase |-> <<Service(80, <<[OneHTTP EXCEPT !.method = Word("GRE")]>>)>>]

OddFiles == DOMAIN OddMeant

OddText == [f \in DOMAIN OddMeant |-> [main |-> Lines(OddMeant[f])]]
=============================================================================
