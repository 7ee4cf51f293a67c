--------------------------- MODULE Configuration ---------------------------
(***************************************************************************)
(* The services configuration between the file and the core: defaults,     *)
(* Prepare on its three levels (service, real, checker), the keys by which  *)
(* a reload recognises what it knows, and the settings a checker runs with. *)
(*                                                                         *)
(* Words whose spelling matters are [word, upper], addresses [addr, mapped] *)
(* (an IPv4-mapped address is another spelling), times tenths of a second,  *)
(* an unset pointer Nil.                                                    *)
(***************************************************************************)
EXTENDS Integers, Sequences, FiniteSets, SequencesExt, TLC

CONSTANTS
    Nil,        \* a pointer that is not set, an empty virtualhost or script
    NoGroup,    \* the empty announce group
    Invalid     \* ErrInvalidQuorumScript

(* strings.ToUpper, strings.ToLower, and netip.Addr.Unmap below.             *)
ToUpper(w) == [w EXCEPT !.upper = TRUE]

ToLower(w) == [w EXCEPT !.upper = FALSE]

Unmap(ip) == [ip EXCEPT !.mapped = FALSE]

(* The loops over a list, which change or read one entry after the other.    *)
ForEach(list, Do(_)) == [i \in DOMAIN list |-> Do(list[i])]

Coalesce(values) ==
    LET given == {i \in DOMAIN values : values[i] # Nil}
    IN  IF given = {} THEN Nil ELSE values[CHOOSE i \in given : \A j \in given : i <= j]

(* propagate, of a service to a real and of a real to a checker.             *)
Inherit(inner, outer) ==
    [inner EXCEPT !.delayLoop = Coalesce(<<@, outer.delayLoop>>),
                  !.retries = Coalesce(<<@, outer.retries>>),
                  !.retryDelay = Coalesce(<<@, outer.retryDelay>>),
                  !.virtualhost = Coalesce(<<@, outer.virtualhost>>)]

-----------------------------------------------------------------------------
(* scheduler.Config: the defaults, and the getters, which drop fractions of  *)
(* a second.                                                                 *)
DefaultScheduler == [delayLoop |-> 600, retries |-> 1, retryDelay |-> 30]

WholeSeconds(t) == t - (t % 10)

GetDelayLoop(c) ==
    IF c.delayLoop = Nil THEN DefaultScheduler.delayLoop ELSE WholeSeconds(c.delayLoop)

GetRetries(c) == IF c.retries = Nil THEN DefaultScheduler.retries ELSE c.retries

GetRetryDelay(c) ==
    IF c.retryDelay = Nil THEN DefaultScheduler.retryDelay ELSE WholeSeconds(c.retryDelay)

(* check.Net.GetCheckTimeout.                                                *)
GetCheckTimeout(c) == IF c.checkTimeout = 0 THEN c.connectTimeout ELSE c.checkTimeout

(* What a structure holds before the file sets anything: service.Config and   *)
(* real.Config have a Default, which the decoder calls, checker.Config has     *)
(* zero values.                                                               *)
Omitted == -1

NoAddr == [addr |-> Nil, mapped |-> FALSE]

NewService ==
    [vip |-> NoAddr, port |-> Omitted, protocol |-> [word |-> Nil, upper |-> FALSE],
     lvsSched |-> [word |-> Nil, upper |-> FALSE], method |-> [word |-> "TUN", upper |-> TRUE],
     group |-> NoGroup, quorumUp |-> Nil, virtualhost |-> Nil, ops |-> FALSE, reals |-> <<>>]
    @@ DefaultScheduler

NoScheduler == [delayLoop |-> Nil, retries |-> Nil, retryDelay |-> Nil]

NewReal ==
    [ip |-> NoAddr, port |-> Omitted, method |-> Nil, virtualhost |-> Nil, checkers |-> <<>>]
    @@ NoScheduler

NewChecker ==
    [type |-> Nil, connectIP |-> NoAddr, bindIP |-> NoAddr, connectTimeout |-> 0,
     checkTimeout |-> 0, virtualhost |-> Nil]
    @@ NoScheduler

-----------------------------------------------------------------------------
(* checker.Config.Prepare.                                                    *)
PrepareChecker(c) == [c EXCEPT !.bindIP = Unmap(@), !.connectIP = Unmap(@)]

(* The four lists of a real, each checker with its type, as one.              *)
Checkers(r) ==
    LET typed(type) == ForEach(r.checkers[type], LAMBDA c : [c EXCEPT !.type = type])
    IN  typed("TCP") \o typed("HTTP") \o typed("HTTPS") \o typed("GRPC")

(* real.Config.Prepare, after the service's propagate.                        *)
PrepareReal(real, s) ==
    LET r == [Inherit(real, s) EXCEPT !.method = IF @ = Nil THEN s.method ELSE @,
                                      !.ip = Unmap(@)]
    IN  [r EXCEPT !.checkers = ForEach(Checkers(r), LAMBDA c : PrepareChecker(Inherit(c, r)))]

(* announceGroupFromQuorumScript.  A script is its number of words, whether   *)
(* the first is quorum-handler2.sh, and the parts of the third.               *)
AnnounceGroupFromQuorumScript(script) ==
    IF script = Nil THEN NoGroup
    ELSE IF script.words # 3 \/ ~script.handler \/ Len(script.args) < 2 THEN Invalid
    ELSE script.args[Len(script.args) - 1]

(* service.Config.Prepare; validate gives the group.                          *)
PrepareService(service) ==
    LET s == [service EXCEPT
                  !.vip = Unmap(@), !.protocol = ToUpper(@), !.method = ToUpper(@),
                  !.lvsSched = ToLower(@),
                  !.group = IF @ = NoGroup THEN AnnounceGroupFromQuorumScript(service.quorumUp) ELSE @]
    IN  [s EXCEPT !.reals = ForEach(@, LAMBDA r : PrepareReal(r, s))]

(* key.Service.Prefix: the prefix that holds the address alone.               *)
Prefix(s) == s.vip

(* Faulty: a service keeps the group it names.                                *)
ValidateAnnounceGroupsEach(services) == services

(* validateAnnounceGroups: the group named first for a prefix is the group of *)
(* all its services that name one.                                            *)
ValidateAnnounceGroups(services) ==
    LET naming(prefix) ==
            {i \in DOMAIN services : services[i].group # NoGroup /\ Prefix(services[i]) = prefix}
        first(prefix) == CHOOSE i \in naming(prefix) : \A j \in naming(prefix) : i <= j
    IN  ForEach(services, LAMBDA s : IF s.group = NoGroup THEN s
                                     ELSE [s EXCEPT !.group = services[first(Prefix(s))].group])

(* core.Config.Prepare: a service that is refused refuses the whole.          *)
Prepare(config) ==
    LET services == ForEach(config, PrepareService)
    IN  IF \E s \in ToSet(services) : s.group = Invalid THEN Invalid
        ELSE ValidateAnnounceGroups(services)

-----------------------------------------------------------------------------
(* The keys.                                                                  *)
ServiceKey(s) == <<s.vip, s.port, s.protocol>>

RealKey(r) == <<r.ip, r.port>>

(* Faulty: without the virtual host.                                          *)
CheckerKeyWithoutHost(c) ==
    [type |-> c.type, connectIP |-> c.connectIP, bindIP |-> c.bindIP,
     connectTimeout |-> c.checkTimeout, checkTimeout |-> c.checkTimeout,
     delayLoop |-> GetDelayLoop(c), retries |-> GetRetries(c), retryDelay |-> GetRetryDelay(c)]

(* checker.Config.Key, which has the check timeout twice and the connect      *)
(* timeout not at all.                                                        *)
CheckerKey(c) ==
    [type |-> c.type, connectIP |-> c.connectIP, bindIP |-> c.bindIP,
     connectTimeout |-> c.checkTimeout, checkTimeout |-> c.checkTimeout,
     virtualhost |-> c.virtualhost,
     delayLoop |-> GetDelayLoop(c), retries |-> GetRetries(c), retryDelay |-> GetRetryDelay(c)]

(* What a checker of real r runs with: its own settings and, in NewDialer, a  *)
(* tunnel to the real.                                                        *)
Settings(r, c) ==
    [type |-> c.type, connectIP |-> c.connectIP, bindIP |-> c.bindIP, virtualhost |-> c.virtualhost,
     connectTimeout |-> c.connectTimeout, checkTimeout |-> GetCheckTimeout(c),
     delayLoop |-> GetDelayLoop(c), retries |-> GetRetries(c), retryDelay |-> GetRetryDelay(c),
     tunnel |-> IF r.method = [word |-> "GRE", upper |-> TRUE] THEN "GRE" ELSE "TUN",
     real |-> r.ip]

(* convertScheduler, for the dump; replacement is the experimental value for  *)
(* mh, or Nil.                                                                *)
ConvertScheduler(s, replacement) ==
    CASE s.lvsSched.word = "mh" -> IF replacement = Nil THEN "wrr" ELSE replacement
      [] s.ops /\ s.lvsSched.word = "wlc" -> "wrr"
      [] OTHER -> s.lvsSched.word
=============================================================================
