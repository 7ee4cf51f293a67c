------------------------ MODULE ReconfigurationProofs ------------------------
(* Theorems about Reconfiguration, for any files, any number of requests     *)
(* and any sequence of reloads.                                              *)
EXTENDS Reconfiguration, SequenceTheorems, WellFoundedInduction, TLAPS

-----------------------------------------------------------------------------
(* Lists.                                                                    *)

(* The places of a list are an interval of numbers.                          *)
LEMMA ListDomain ==
    ASSUME NEW list, IsList(list)
    PROVE  /\ Len(list) \in Nat /\ DOMAIN list = 1..Len(list)
           /\ \A i \in DOMAIN list : list[i] \in ToSet(list)
BY DEF IsList, ToSet

(* What the loops make of a list is a list of the same length.               *)
LEMMA ListOf ==
    ASSUME NEW list, NEW n \in Nat, list = [i \in 1..n |-> list[i]]
    PROVE  IsList(list) /\ Len(list) = n
BY DEF IsList, ToSet

(* The first of the numbers in a set.                                        *)
LEMMA Least ==
    ASSUME NEW S \in SUBSET Nat, S # {}
    PROVE  LET m == CHOOSE i \in S : \A j \in S : i <= j
           IN  m \in S /\ \A j \in S : m <= j
<1> DEFINE less == {pair \in Nat \X Nat : pair[1] < pair[2]}
<1>1. IsWellFoundedOn(less, Nat)
    BY NatLessThanWellFounded, Zenon DEF OpToRel
<1>2. PICK m \in S : \A j \in S : ~(<<j, m>> \in less)
  <2> HIDE DEF less
  <2> QED
    BY <1>1, WFMin
<1>3. \A j \in S : m <= j
  <2> SUFFICES ASSUME NEW j \in S, j < m PROVE FALSE
    OBVIOUS
  <2>1. <<j, m>> \in Nat \X Nat /\ <<j, m>>[1] < <<j, m>>[2]
    OBVIOUS
  <2>2. <<j, m>> \in less
    BY <2>1, Zenon
  <2> QED
    BY <1>2, <2>2
<1> QED
    BY <1>3

(* Of two values the first one that is given counts.                         *)
LEMMA CoalesceTwo ==
    ASSUME NEW a, NEW b
    PROVE  Coalesce(<<a, b>>) = IF a # Nil THEN a ELSE b
BY DEF Coalesce

(* The innermost of three levels that gives a setting.                       *)
LEMMA InnermostThree ==
    ASSUME NEW c, NEW r, NEW s, NEW field, NEW default
    PROVE  Innermost(<<c, r, s>>, field, default) =
             IF c[field] # Nil THEN c[field] ELSE IF r[field] # Nil THEN r[field]
             ELSE IF s[field] # Nil THEN s[field] ELSE default
<1> DEFINE levels == <<c, r, s>>
           given == {i \in 1..Len(levels) : levels[i][field] # Nil}
           first == CHOOSE i \in given : \A j \in given : i <= j
<1>1. Len(levels) = 3 /\ levels[1] = c /\ levels[2] = r /\ levels[3] = s
    OBVIOUS
<1>2. Innermost(<<c, r, s>>, field, default) =
         IF given = {} THEN default ELSE levels[first][field]
    BY DEF Innermost
<1>3. \A i : i \in given <=> i \in {1, 2, 3} /\ levels[i][field] # Nil
    BY <1>1
<1> HIDE DEF levels, given
<1>4. CASE given # {}
  <2>1. given \subseteq Nat
    BY <1>3
  <2>2. first \in given /\ \A j \in given : first <= j
    BY <1>4, <2>1, Least
  <2> HIDE DEF first
  <2> QED
    BY <1>1, <1>2, <1>3, <1>4, <2>2
<1>5. CASE given = {}
    BY <1>1, <1>2, <1>3, <1>5
<1> QED
    BY <1>4, <1>5

(* Two lists, one after the other.                                           *)
LEMMA ConcatLists ==
    ASSUME NEW a, NEW b, IsList(a), IsList(b)
    PROVE  /\ IsList(a \o b) /\ Len(a \o b) = Len(a) + Len(b)
           /\ \A k \in 1..(Len(a) + Len(b)) :
                 (a \o b)[k] = IF k <= Len(a) THEN a[k] ELSE b[k - Len(a)]
<1> DEFINE S == ToSet(a) \cup ToSet(b)
<1>1. a \in Seq(S) /\ b \in Seq(S)
    BY DEF IsList
<1> HIDE DEF S
<1>2. /\ a \o b \in Seq(S) /\ Len(a \o b) = Len(a) + Len(b)
      /\ \A k \in 1..(Len(a) + Len(b)) :
            (a \o b)[k] = IF k <= Len(a) THEN a[k] ELSE b[k - Len(a)]
    BY <1>1
<1>3. IsList(a \o b)
  <2> DEFINE ab == a \o b
             n == Len(a) + Len(b)
  <2>1. Len(a) \in Nat /\ Len(b) \in Nat
    BY <1>1
  <2>2. n \in Nat /\ ab \in Seq(S) /\ Len(ab) = n
    BY <1>2, <2>1
  <2> HIDE DEF ab, n
  <2>3. ab = [k \in 1..n |-> ab[k]]
    BY <2>2
  <2> QED
    BY <2>2, <2>3, ListOf DEF ab
<1> QED
    BY <1>2, <1>3

-----------------------------------------------------------------------------
(* What a request has loaded.                                                *)

(* The configuration of a file is what is loaded and prepared.               *)
LEMMA ConfigOfFile ==
    ASSUME NEW f \in Files
    PROVE  ConfigOf(f) = IF LoadConfig(Text[f]) = Invalid THEN Invalid
                         ELSE Prepare(LoadConfig(Text[f]))
<1> DEFINE C(g) == IF LoadConfig(Text[g]) = Invalid THEN Invalid ELSE Prepare(LoadConfig(Text[g]))
<1>1. Loaded = {[file |-> g, config |-> C(g)] : g \in Files}
    BY DEF Loaded
<1> HIDE DEF C
<1>2. \E l \in Loaded : l.file = f
  <2>1. [file |-> f, config |-> C(f)] \in Loaded
    BY <1>1, Zenon
  <2>2. [file |-> f, config |-> C(f)].file = f
    OBVIOUS
  <2> QED
    BY <2>1, <2>2, Zenon
<1>3. \A l \in Loaded : l.file = f => l.config = C(f)
    BY <1>1
<1>4. ConfigOf(f) = C(f)
    BY <1>2, <1>3, MeantAssumption DEF ConfigOf
<1> QED
    BY <1>4 DEF C

(* The services before their groups are compared.                            *)
Written(f) == [i \in DOMAIN Meant[f] |-> PrepareService(WithDefaults(Meant[f][i]))]

(* The configuration of a file that is accepted comes from what it says.     *)
LEMMA PreparedConfig ==
    ASSUME Understood, NEW f \in Files, ConfigOf(f) # Invalid
    PROVE  ConfigOf(f) = ValidateAnnounceGroups(Written(f))
<1>1. LoadConfig(Text[f]) # Invalid /\ ConfigOf(f) = Prepare(LoadConfig(Text[f]))
    BY ConfigOfFile
<1>2. LoadConfig(Text[f]) = [i \in DOMAIN Meant[f] |-> WithDefaults(Meant[f][i])]
    BY <1>1 DEF Understood, UnderstoodFiles, ForEach
<1>3. Written(f) = ForEach(LoadConfig(Text[f]), PrepareService)
    BY <1>2 DEF ForEach, Written
<1> QED
    BY <1>1, <1>3 DEF Prepare

-----------------------------------------------------------------------------
(* What Prepare makes of a service, of a real and of a checker.              *)

(* A service while its reals are prepared.                                   *)
Outer(s) ==
    LET w == WithDefaults(s)
    IN  [w EXCEPT !.vip = Unmap(@), !.protocol = ToUpper(@), !.method = ToUpper(@),
                  !.lvsSched = ToLower(@),
                  !.group = IF @ = NoGroup THEN AnnounceGroupFromQuorumScript(w.quorumUp) ELSE @]

(* Defaults fill in what is left out, the rest stays.                        *)
LEMMA DefaultFields ==
    ASSUME NEW s, IsService(s)
    PROVE  LET w == WithDefaults(s)
           IN  /\ DOMAIN w = DOMAIN s
               /\ w.vip = s.vip /\ w.port = s.port /\ w.protocol = s.protocol
               /\ w.lvsSched = s.lvsSched /\ w.group = s.group /\ w.quorumUp = s.quorumUp
               /\ w.virtualhost = s.virtualhost /\ w.ops = s.ops /\ w.reals = s.reals
               /\ w.method = (IF s.method = Nil THEN [word |-> "TUN", upper |-> TRUE] ELSE s.method)
               /\ w.delayLoop = (IF s.delayLoop = Nil THEN 600 ELSE s.delayLoop)
               /\ w.retries = (IF s.retries = Nil THEN 1 ELSE s.retries)
               /\ w.retryDelay = (IF s.retryDelay = Nil THEN 30 ELSE s.retryDelay)
BY DEF IsService, WithDefaults

(* What a service has for its reals.                                         *)
LEMMA OuterFields ==
    ASSUME NEW s, IsService(s)
    PROVE  LET o == Outer(s)
               w == WithDefaults(s)
           IN  /\ DOMAIN o = DOMAIN s
               /\ o.vip = Unmap(s.vip) /\ o.port = s.port /\ o.protocol = ToUpper(s.protocol)
               /\ o.lvsSched = ToLower(s.lvsSched) /\ o.method = ToUpper(w.method)
               /\ o.group = (IF s.group = NoGroup THEN AnnounceGroupFromQuorumScript(s.quorumUp)
                             ELSE s.group)
               /\ o.virtualhost = s.virtualhost /\ o.ops = s.ops /\ o.reals = s.reals
               /\ o.delayLoop = w.delayLoop /\ o.retries = w.retries
               /\ o.retryDelay = w.retryDelay
<1> DEFINE w == WithDefaults(s)
<1>1. DOMAIN w = {"vip", "port", "protocol", "lvsSched", "method", "group", "quorumUp",
                  "virtualhost", "ops", "delayLoop", "retries", "retryDelay", "reals"}
    BY DefaultFields, Zenon DEF IsService
<1>2. /\ w.vip = s.vip /\ w.port = s.port /\ w.protocol = s.protocol
      /\ w.lvsSched = s.lvsSched /\ w.group = s.group /\ w.quorumUp = s.quorumUp
      /\ w.virtualhost = s.virtualhost /\ w.ops = s.ops /\ w.reals = s.reals
    BY DefaultFields
<1> HIDE DEF w
<1>3. Outer(s) =
        [w EXCEPT !.vip = Unmap(@), !.protocol = ToUpper(@), !.method = ToUpper(@),
                  !.lvsSched = ToLower(@),
                  !.group = IF @ = NoGroup THEN AnnounceGroupFromQuorumScript(w.quorumUp) ELSE @]
    BY DEF Outer, w
<1> QED
    BY <1>1, <1>2, <1>3, DefaultFields DEF w

(* A prepared service has what Outer has, and its reals are prepared with it. *)
LEMMA ServiceFields ==
    ASSUME NEW s, IsService(s)
    PROVE  LET p == PrepareService(WithDefaults(s))
               o == Outer(s)
           IN  /\ DOMAIN p = DOMAIN s
               /\ p.vip = o.vip /\ p.port = o.port /\ p.protocol = o.protocol
               /\ p.lvsSched = o.lvsSched /\ p.method = o.method /\ p.group = o.group
               /\ p.ops = o.ops
               /\ p.reals = [j \in DOMAIN s.reals |-> PrepareReal(s.reals[j], o)]
<1> DEFINE o == Outer(s)
<1>1. PrepareService(WithDefaults(s)) =
        [o EXCEPT !.reals = ForEach(@, LAMBDA r : PrepareReal(r, o))]
    BY DEF PrepareService, Outer
<1>2. DOMAIN o = DOMAIN s /\ o.reals = s.reals
    BY OuterFields
<1>3. DOMAIN o = {"vip", "port", "protocol", "lvsSched", "method", "group", "quorumUp",
                  "virtualhost", "ops", "delayLoop", "retries", "retryDelay", "reals"}
    BY <1>2 DEF IsService
<1>4. ForEach(o.reals, LAMBDA r : PrepareReal(r, o)) =
         [j \in DOMAIN s.reals |-> PrepareReal(s.reals[j], o)]
    BY <1>2 DEF ForEach
<1> HIDE DEF o
<1>5. PrepareService(WithDefaults(s)) =
        [o EXCEPT !.reals = [j \in DOMAIN s.reals |-> PrepareReal(s.reals[j], o)]]
    BY <1>1, <1>4
<1> QED
    BY <1>2, <1>3, <1>5 DEF o

(* A real while its checkers are prepared, in a service o.                    *)
Inner(r, o) ==
    [Inherit(r, o) EXCEPT !.method = IF @ = Nil THEN o.method ELSE @, !.ip = Unmap(@)]

(* What a real has for its checkers.                                          *)
LEMMA InnerFields ==
    ASSUME NEW r, NEW o, IsReal(r)
    PROVE  LET q == Inner(r, o)
           IN  /\ DOMAIN q = DOMAIN r
               /\ q.ip = Unmap(r.ip) /\ q.port = r.port /\ q.checkers = r.checkers
               /\ q.method = (IF r.method = Nil THEN o.method ELSE r.method)
               /\ q.delayLoop = (IF r.delayLoop # Nil THEN r.delayLoop ELSE o.delayLoop)
               /\ q.retries = (IF r.retries # Nil THEN r.retries ELSE o.retries)
               /\ q.retryDelay = (IF r.retryDelay # Nil THEN r.retryDelay ELSE o.retryDelay)
               /\ q.virtualhost = (IF r.virtualhost # Nil THEN r.virtualhost ELSE o.virtualhost)
<1>1. Inner(r, o) =
        [r EXCEPT !.delayLoop = IF r.delayLoop # Nil THEN r.delayLoop ELSE o.delayLoop,
                  !.retries = IF r.retries # Nil THEN r.retries ELSE o.retries,
                  !.retryDelay = IF r.retryDelay # Nil THEN r.retryDelay ELSE o.retryDelay,
                  !.virtualhost = IF r.virtualhost # Nil THEN r.virtualhost ELSE o.virtualhost,
                  !.method = IF r.method = Nil THEN o.method ELSE r.method,
                  !.ip = Unmap(r.ip)]
  <2>1. DOMAIN r = {"ip", "port", "method", "virtualhost", "delayLoop", "retries", "retryDelay",
                    "checkers"}
    BY DEF IsReal
  <2>2. Inherit(r, o) =
        [r EXCEPT !.delayLoop = IF r.delayLoop # Nil THEN r.delayLoop ELSE o.delayLoop,
                  !.retries = IF r.retries # Nil THEN r.retries ELSE o.retries,
                  !.retryDelay = IF r.retryDelay # Nil THEN r.retryDelay ELSE o.retryDelay,
                  !.virtualhost = IF r.virtualhost # Nil THEN r.virtualhost ELSE o.virtualhost]
    <3>1. /\ Coalesce(<<r.delayLoop, o.delayLoop>>) =
                IF r.delayLoop # Nil THEN r.delayLoop ELSE o.delayLoop
          /\ Coalesce(<<r.retries, o.retries>>) = IF r.retries # Nil THEN r.retries ELSE o.retries
          /\ Coalesce(<<r.retryDelay, o.retryDelay>>) =
                IF r.retryDelay # Nil THEN r.retryDelay ELSE o.retryDelay
          /\ Coalesce(<<r.virtualhost, o.virtualhost>>) =
                IF r.virtualhost # Nil THEN r.virtualhost ELSE o.virtualhost
      BY CoalesceTwo
    <3> QED
      BY <2>1, <3>1 DEF Inherit
  <2> QED
    BY <2>1, <2>2 DEF Inner
<1> QED
    BY <1>1 DEF IsReal

(* A prepared real has what Inner has, and its checkers are prepared with it. *)
LEMMA RealFields ==
    ASSUME NEW r, NEW o, IsReal(r)
    PROVE  LET p == PrepareReal(r, o)
               q == Inner(r, o)
           IN  /\ p.ip = q.ip /\ p.port = q.port /\ p.method = q.method
               /\ DOMAIN p.checkers = DOMAIN Checkers(q)
               /\ \A k \in DOMAIN Checkers(q) :
                     p.checkers[k] = PrepareChecker(Inherit(Checkers(q)[k], q))
<1> DEFINE q == Inner(r, o)
<1>1. PrepareReal(r, o) =
        [q EXCEPT !.checkers = ForEach(Checkers(q), LAMBDA c : PrepareChecker(Inherit(c, q)))]
    BY DEF PrepareReal, Inner
<1>2. ForEach(Checkers(q), LAMBDA c : PrepareChecker(Inherit(c, q))) =
        [k \in DOMAIN Checkers(q) |-> PrepareChecker(Inherit(Checkers(q)[k], q))]
    BY DEF ForEach
<1>3. DOMAIN q = {"ip", "port", "method", "virtualhost", "delayLoop", "retries", "retryDelay",
                  "checkers"}
    BY InnerFields DEF IsReal
<1> HIDE DEF q
<1> QED
    BY <1>1, <1>2, <1>3 DEF q

WithType(c, type) == [c EXCEPT !.type = type]

(* A prepared checker of the given type has its own addresses and timeouts,   *)
(* and from its real what it lacks.                                           *)
LEMMA CheckerFields ==
    ASSUME NEW c, NEW type, NEW q, IsChecker(c)
    PROVE  LET p == PrepareChecker(Inherit(WithType(c, type), q))
           IN  /\ p.type = type /\ p.connectIP = Unmap(c.connectIP) /\ p.bindIP = Unmap(c.bindIP)
               /\ p.connectTimeout = c.connectTimeout /\ p.checkTimeout = c.checkTimeout
               /\ p.delayLoop = (IF c.delayLoop # Nil THEN c.delayLoop ELSE q.delayLoop)
               /\ p.retries = (IF c.retries # Nil THEN c.retries ELSE q.retries)
               /\ p.retryDelay = (IF c.retryDelay # Nil THEN c.retryDelay ELSE q.retryDelay)
               /\ p.virtualhost = (IF c.virtualhost # Nil THEN c.virtualhost ELSE q.virtualhost)
<1> DEFINE d == WithType(c, type)
           e == Inherit(d, q)
<1>1. /\ DOMAIN d = {"type", "connectIP", "bindIP", "connectTimeout", "checkTimeout",
                     "virtualhost", "delayLoop", "retries", "retryDelay"}
      /\ d.type = type /\ d.connectIP = c.connectIP /\ d.bindIP = c.bindIP
      /\ d.connectTimeout = c.connectTimeout /\ d.checkTimeout = c.checkTimeout
      /\ d.delayLoop = c.delayLoop /\ d.retries = c.retries /\ d.retryDelay = c.retryDelay
      /\ d.virtualhost = c.virtualhost
    BY DEF IsChecker, WithType
<1> HIDE DEF d
<1>2. e = [d EXCEPT !.delayLoop = IF d.delayLoop # Nil THEN d.delayLoop ELSE q.delayLoop,
                    !.retries = IF d.retries # Nil THEN d.retries ELSE q.retries,
                    !.retryDelay = IF d.retryDelay # Nil THEN d.retryDelay ELSE q.retryDelay,
                    !.virtualhost = IF d.virtualhost # Nil THEN d.virtualhost ELSE q.virtualhost]
  <2>1. /\ Coalesce(<<d.delayLoop, q.delayLoop>>) =
              IF d.delayLoop # Nil THEN d.delayLoop ELSE q.delayLoop
        /\ Coalesce(<<d.retries, q.retries>>) = IF d.retries # Nil THEN d.retries ELSE q.retries
        /\ Coalesce(<<d.retryDelay, q.retryDelay>>) =
              IF d.retryDelay # Nil THEN d.retryDelay ELSE q.retryDelay
        /\ Coalesce(<<d.virtualhost, q.virtualhost>>) =
              IF d.virtualhost # Nil THEN d.virtualhost ELSE q.virtualhost
    BY CoalesceTwo
  <2> QED
    BY <1>1, <2>1 DEF Inherit
<1> HIDE DEF e
<1>3. /\ DOMAIN e = DOMAIN d
      /\ e.type = type /\ e.connectIP = c.connectIP /\ e.bindIP = c.bindIP
      /\ e.connectTimeout = c.connectTimeout /\ e.checkTimeout = c.checkTimeout
      /\ e.delayLoop = (IF c.delayLoop # Nil THEN c.delayLoop ELSE q.delayLoop)
      /\ e.retries = (IF c.retries # Nil THEN c.retries ELSE q.retries)
      /\ e.retryDelay = (IF c.retryDelay # Nil THEN c.retryDelay ELSE q.retryDelay)
      /\ e.virtualhost = (IF c.virtualhost # Nil THEN c.virtualhost ELSE q.virtualhost)
    BY <1>1, <1>2
<1>4. PrepareChecker(e) = [e EXCEPT !.bindIP = Unmap(e.bindIP), !.connectIP = Unmap(e.connectIP)]
    BY <1>1, <1>3 DEF PrepareChecker
<1> HIDE DEF PrepareChecker
<1>5. LET p == PrepareChecker(e)
      IN  /\ p.type = type /\ p.connectIP = Unmap(c.connectIP) /\ p.bindIP = Unmap(c.bindIP)
          /\ p.connectTimeout = c.connectTimeout /\ p.checkTimeout = c.checkTimeout
          /\ p.delayLoop = (IF c.delayLoop # Nil THEN c.delayLoop ELSE q.delayLoop)
          /\ p.retries = (IF c.retries # Nil THEN c.retries ELSE q.retries)
          /\ p.retryDelay = (IF c.retryDelay # Nil THEN c.retryDelay ELSE q.retryDelay)
          /\ p.virtualhost = (IF c.virtualhost # Nil THEN c.virtualhost ELSE q.virtualhost)
    BY <1>1, <1>3, <1>4
<1> QED
    BY <1>5 DEF d, e

(* Where the checker at place k of the one list of a real comes from.         *)
Origin(lists, k) ==
    LET n == Len(lists["TCP"])
        m == n + Len(lists["HTTP"])
        l == m + Len(lists["HTTPS"])
    IN  IF k <= n THEN <<"TCP", k>>
        ELSE IF k <= m THEN <<"HTTP", k - n>>
        ELSE IF k <= l THEN <<"HTTPS", k - m>>
        ELSE <<"GRPC", k - l>>

Four(a, b, c, d) == a \o b \o c \o d

FourAt(a, b, c, d, k) ==
    IF k <= Len(a) THEN a[k]
    ELSE IF k <= Len(a) + Len(b) THEN b[k - Len(a)]
    ELSE IF k <= Len(a) + Len(b) + Len(c) THEN c[k - (Len(a) + Len(b))]
    ELSE d[k - (Len(a) + Len(b) + Len(c))]

(* Four lists, one after the other.                                          *)
LEMMA FourLists ==
    ASSUME NEW a, NEW b, NEW c, NEW d, IsList(a), IsList(b), IsList(c), IsList(d)
    PROVE  /\ IsList(Four(a, b, c, d))
           /\ Len(Four(a, b, c, d)) = Len(a) + Len(b) + Len(c) + Len(d)
           /\ \A k \in 1..(Len(a) + Len(b) + Len(c) + Len(d)) :
                 Four(a, b, c, d)[k] = FourAt(a, b, c, d, k)
<1> DEFINE ab == a \o b
           abc == ab \o c
           n == Len(a)
           m == n + Len(b)
           l == m + Len(c)
<1>1. Len(a) \in Nat /\ Len(b) \in Nat /\ Len(c) \in Nat /\ Len(d) \in Nat
    BY ListDomain
<1>2. /\ IsList(ab) /\ Len(ab) = m
      /\ \A k \in 1..m : ab[k] = IF k <= n THEN a[k] ELSE b[k - n]
    BY ConcatLists
<1> HIDE DEF ab
<1>3. /\ IsList(abc) /\ Len(abc) = Len(ab) + Len(c)
      /\ \A k \in 1..(Len(ab) + Len(c)) :
            abc[k] = IF k <= Len(ab) THEN ab[k] ELSE c[k - Len(ab)]
    BY <1>2, ConcatLists
<1> HIDE DEF abc
<1>4. /\ IsList(abc \o d) /\ Len(abc \o d) = Len(abc) + Len(d)
      /\ \A k \in 1..(Len(abc) + Len(d)) :
            (abc \o d)[k] = IF k <= Len(abc) THEN abc[k] ELSE d[k - Len(abc)]
    BY <1>3, ConcatLists
<1>5. \A k \in 1..(l + Len(d)) :
         (abc \o d)[k] = IF k <= n THEN a[k] ELSE IF k <= m THEN b[k - n]
                         ELSE IF k <= l THEN c[k - m] ELSE d[k - l]
    BY <1>1, <1>2, <1>3, <1>4
<1> QED
    BY <1>2, <1>3, <1>4, <1>5 DEF ab, abc, Four, FourAt

(* The list of one type, each checker with its type.                         *)
LEMMA TypedList ==
    ASSUME NEW list, NEW type, IsList(list)
    PROVE  LET t == ForEach(list, LAMBDA c : [c EXCEPT !.type = type])
           IN  /\ Len(list) \in Nat /\ DOMAIN list = 1..Len(list)
               /\ IsList(t) /\ Len(t) = Len(list)
               /\ \A i \in 1..Len(list) : t[i] = [list[i] EXCEPT !.type = type]
<1> DEFINE t == ForEach(list, LAMBDA c : [c EXCEPT !.type = type])
           n == Len(list)
<1>1. n \in Nat /\ DOMAIN list = 1..n
    BY ListDomain
<1>2. t = [i \in 1..n |-> [list[i] EXCEPT !.type = type]]
    BY <1>1 DEF ForEach
<1> HIDE DEF t, n
<1>3. t = [i \in 1..n |-> t[i]] /\ \A i \in 1..n : t[i] = [list[i] EXCEPT !.type = type]
    BY <1>2
<1>4. IsList(t) /\ Len(t) = n
    BY <1>1, <1>3, ListOf
<1> QED
    BY <1>1, <1>3, <1>4 DEF t, n

(* The one list of a real has each checker of the four lists in one place.    *)
LEMMA CheckersFields ==
    ASSUME NEW q, IsList(q.checkers["TCP"]), IsList(q.checkers["HTTP"]),
           IsList(q.checkers["HTTPS"]), IsList(q.checkers["GRPC"])
    PROVE  LET list == Checkers(q)
               lists == q.checkers
           IN  /\ IsList(list)
               /\ \A k \in DOMAIN list :
                     \E type \in {"TCP", "HTTP", "HTTPS", "GRPC"} : \E i \in DOMAIN lists[type] :
                        /\ Origin(lists, k) = <<type, i>>
                        /\ list[k] = [lists[type][i] EXCEPT !.type = type]
               /\ \A type \in {"TCP", "HTTP", "HTTPS", "GRPC"} : \A i \in DOMAIN lists[type] :
                     \E k \in DOMAIN list : Origin(lists, k) = <<type, i>>
               /\ \A k, l \in DOMAIN list : Origin(lists, k) = Origin(lists, l) => k = l
<1> DEFINE typed(type) == ForEach(q.checkers[type], LAMBDA c : [c EXCEPT !.type = type])
           nt == Len(q.checkers["TCP"])
           nh == Len(q.checkers["HTTP"])
           ns == Len(q.checkers["HTTPS"])
           ng == Len(q.checkers["GRPC"])
           list == typed("TCP") \o typed("HTTP") \o typed("HTTPS") \o typed("GRPC")
<1>1. Checkers(q) = list
    BY DEF Checkers
<1>2. /\ nt \in Nat /\ DOMAIN q.checkers["TCP"] = 1..nt
      /\ IsList(typed("TCP")) /\ Len(typed("TCP")) = nt
      /\ \A i \in 1..nt : typed("TCP")[i] = [q.checkers["TCP"][i] EXCEPT !.type = "TCP"]
    BY TypedList
<1>3. /\ nh \in Nat /\ DOMAIN q.checkers["HTTP"] = 1..nh
      /\ IsList(typed("HTTP")) /\ Len(typed("HTTP")) = nh
      /\ \A i \in 1..nh : typed("HTTP")[i] = [q.checkers["HTTP"][i] EXCEPT !.type = "HTTP"]
    BY TypedList
<1>4. /\ ns \in Nat /\ DOMAIN q.checkers["HTTPS"] = 1..ns
      /\ IsList(typed("HTTPS")) /\ Len(typed("HTTPS")) = ns
      /\ \A i \in 1..ns : typed("HTTPS")[i] = [q.checkers["HTTPS"][i] EXCEPT !.type = "HTTPS"]
    BY TypedList
<1>5. /\ ng \in Nat /\ DOMAIN q.checkers["GRPC"] = 1..ng
      /\ IsList(typed("GRPC")) /\ Len(typed("GRPC")) = ng
      /\ \A i \in 1..ng : typed("GRPC")[i] = [q.checkers["GRPC"][i] EXCEPT !.type = "GRPC"]
    BY TypedList
<1>6. \A k : Origin(q.checkers, k) =
         IF k <= nt THEN <<"TCP", k>>
         ELSE IF k <= nt + nh THEN <<"HTTP", k - nt>>
         ELSE IF k <= nt + nh + ns THEN <<"HTTPS", k - (nt + nh)>>
         ELSE <<"GRPC", k - (nt + nh + ns)>>
    BY DEF Origin
<1> HIDE DEF typed, nt, nh, ns, ng
<1>7. /\ IsList(list) /\ Len(list) = nt + nh + ns + ng
      /\ \A k \in 1..(nt + nh + ns + ng) :
            list[k] = IF k <= nt THEN typed("TCP")[k]
                      ELSE IF k <= nt + nh THEN typed("HTTP")[k - nt]
                      ELSE IF k <= nt + nh + ns THEN typed("HTTPS")[k - (nt + nh)]
                      ELSE typed("GRPC")[k - (nt + nh + ns)]
  <2> DEFINE t == typed("TCP")
             h == typed("HTTP")
             e == typed("HTTPS")
             g == typed("GRPC")
  <2>1. /\ IsList(t) /\ IsList(h) /\ IsList(e) /\ IsList(g)
        /\ Len(t) = nt /\ Len(h) = nh /\ Len(e) = ns /\ Len(g) = ng
    BY <1>2, <1>3, <1>4, <1>5
  <2> HIDE DEF t, h, e, g
  <2>2. /\ IsList(Four(t, h, e, g)) /\ Len(Four(t, h, e, g)) = nt + nh + ns + ng
        /\ \A k \in 1..(nt + nh + ns + ng) :
              Four(t, h, e, g)[k] =
                 IF k <= nt THEN t[k] ELSE IF k <= nt + nh THEN h[k - nt]
                 ELSE IF k <= nt + nh + ns THEN e[k - (nt + nh)] ELSE g[k - (nt + nh + ns)]
    <3>1. /\ IsList(Four(t, h, e, g))
          /\ Len(Four(t, h, e, g)) = Len(t) + Len(h) + Len(e) + Len(g)
          /\ \A k \in 1..(Len(t) + Len(h) + Len(e) + Len(g)) :
                Four(t, h, e, g)[k] = FourAt(t, h, e, g, k)
      BY <2>1, FourLists, Zenon
    <3> QED
      BY <2>1, <3>1, Zenon DEF FourAt
  <2>3. list = Four(t, h, e, g)
    BY DEF t, h, e, g, Four
  <2> HIDE DEF list
  <2> QED
    BY <2>2, <2>3 DEF t, h, e, g
<1> HIDE DEF list
<1>8. DOMAIN list = 1..(nt + nh + ns + ng)
    BY <1>7, ListDomain
<1>9. ASSUME NEW k \in DOMAIN list
      PROVE  \E type \in {"TCP", "HTTP", "HTTPS", "GRPC"} : \E i \in DOMAIN q.checkers[type] :
                /\ Origin(q.checkers, k) = <<type, i>>
                /\ list[k] = [q.checkers[type][i] EXCEPT !.type = type]
  <2>1. CASE k <= nt
    <3>1. k \in DOMAIN q.checkers["TCP"] /\ k \in 1..(nt + nh + ns + ng)
      BY <1>2, <1>3, <1>4, <1>5, <1>8, <2>1
    <3>2. Origin(q.checkers, k) = <<"TCP", k>>
      BY <1>6, <2>1, <3>1
    <3>3. list[k] = typed("TCP")[k]
      BY <1>7, <2>1, <3>1
    <3>4. list[k] = [q.checkers["TCP"][k] EXCEPT !.type = "TCP"]
      BY <1>2, <3>1, <3>3
    <3> QED
      BY <3>1, <3>2, <3>4
  <2>2. CASE ~(k <= nt) /\ k <= nt + nh
    <3>1. k - nt \in DOMAIN q.checkers["HTTP"] /\ k \in 1..(nt + nh + ns + ng)
      BY <1>2, <1>3, <1>4, <1>5, <1>8, <2>2
    <3>2. Origin(q.checkers, k) = <<"HTTP", k - nt>>
      BY <1>6, <2>2, <3>1
    <3>3. list[k] = typed("HTTP")[k - nt]
      BY <1>7, <2>2, <3>1
    <3>4. list[k] = [q.checkers["HTTP"][k - nt] EXCEPT !.type = "HTTP"]
      BY <1>3, <3>1, <3>3
    <3> QED
      BY <3>1, <3>2, <3>4
  <2>3. CASE ~(k <= nt + nh) /\ k <= nt + nh + ns
    <3>1. k - (nt + nh) \in DOMAIN q.checkers["HTTPS"] /\ k \in 1..(nt + nh + ns + ng) /\ ~(k <= nt)
      BY <1>2, <1>3, <1>4, <1>5, <1>8, <2>3
    <3>2. Origin(q.checkers, k) = <<"HTTPS", k - (nt + nh)>>
      BY <1>6, <2>3, <3>1
    <3>3. list[k] = typed("HTTPS")[k - (nt + nh)]
      BY <1>7, <2>3, <3>1
    <3>4. list[k] = [q.checkers["HTTPS"][k - (nt + nh)] EXCEPT !.type = "HTTPS"]
      BY <1>4, <3>1, <3>3
    <3> QED
      BY <3>1, <3>2, <3>4
  <2>4. CASE ~(k <= nt + nh + ns)
    <3>1. k - (nt + nh + ns) \in DOMAIN q.checkers["GRPC"] /\ k \in 1..(nt + nh + ns + ng)
          /\ ~(k <= nt) /\ ~(k <= nt + nh)
      BY <1>2, <1>3, <1>4, <1>5, <1>8, <2>4
    <3>2. Origin(q.checkers, k) = <<"GRPC", k - (nt + nh + ns)>>
      BY <1>6, <2>4, <3>1
    <3>3. list[k] = typed("GRPC")[k - (nt + nh + ns)]
      BY <1>7, <2>4, <3>1
    <3>4. list[k] = [q.checkers["GRPC"][k - (nt + nh + ns)] EXCEPT !.type = "GRPC"]
      BY <1>5, <3>1, <3>3
    <3> QED
      BY <3>1, <3>2, <3>4
  <2> QED
    BY <2>1, <2>2, <2>3, <2>4
<1>10. ASSUME NEW type \in {"TCP", "HTTP", "HTTPS", "GRPC"}, NEW i \in DOMAIN q.checkers[type]
       PROVE  \E k \in DOMAIN list : Origin(q.checkers, k) = <<type, i>>
  <2>1. CASE type = "TCP"
    <3>1. i \in DOMAIN list /\ i <= nt
      BY <1>2, <1>3, <1>4, <1>5, <1>8, <2>1
    <3> QED
      BY <1>6, <2>1, <3>1
  <2>2. CASE type = "HTTP"
    <3>1. i + nt \in DOMAIN list /\ ~(i + nt <= nt) /\ i + nt <= nt + nh /\ (i + nt) - nt = i
      BY <1>2, <1>3, <1>4, <1>5, <1>8, <2>2
    <3> QED
      BY <1>6, <2>2, <3>1
  <2>3. CASE type = "HTTPS"
    <3> DEFINE k == i + (nt + nh)
    <3>1. /\ k \in DOMAIN list /\ ~(k <= nt) /\ ~(k <= nt + nh) /\ k <= nt + nh + ns
          /\ k - (nt + nh) = i
      BY <1>2, <1>3, <1>4, <1>5, <1>8, <2>3
    <3> QED
      BY <1>6, <2>3, <3>1
  <2>4. CASE type = "GRPC"
    <3> DEFINE k == i + (nt + nh + ns)
    <3>1. /\ k \in DOMAIN list /\ ~(k <= nt) /\ ~(k <= nt + nh) /\ ~(k <= nt + nh + ns)
          /\ k - (nt + nh + ns) = i
      BY <1>2, <1>3, <1>4, <1>5, <1>8, <2>4
    <3> QED
      BY <1>6, <2>4, <3>1
  <2> QED
    BY <2>1, <2>2, <2>3, <2>4
<1>11. ASSUME NEW k \in DOMAIN list, NEW l \in DOMAIN list,
              Origin(q.checkers, k) = Origin(q.checkers, l)
       PROVE  k = l
  <2>1. k \in Int /\ l \in Int /\ nt \in Int /\ nh \in Int /\ ns \in Int
    BY <1>2, <1>3, <1>4, <1>5, <1>8
  <2> DEFINE back(o) == o[2] + (IF o[1] = "TCP" THEN 0 ELSE IF o[1] = "HTTP" THEN nt
                                ELSE IF o[1] = "HTTPS" THEN nt + nh ELSE nt + nh + ns)
  <2>2. ASSUME NEW x \in Int PROVE x = back(Origin(q.checkers, x))
    <3>1. CASE x <= nt
      <4>1. Origin(q.checkers, x) = <<"TCP", x>>
        BY <1>6, <2>1, <3>1
      <4>2. Origin(q.checkers, x)[1] = "TCP" /\ Origin(q.checkers, x)[2] = x
        BY <4>1
      <4> QED
        BY <2>1, <4>2
    <3>2. CASE ~(x <= nt) /\ x <= nt + nh
      <4>1. Origin(q.checkers, x) = <<"HTTP", x - nt>>
        BY <1>6, <2>1, <3>2
      <4>2. Origin(q.checkers, x)[1] = "HTTP" /\ Origin(q.checkers, x)[2] = x - nt
        BY <4>1
      <4> QED
        BY <2>1, <4>2
    <3>3. CASE ~(x <= nt) /\ ~(x <= nt + nh) /\ x <= nt + nh + ns
      <4>1. Origin(q.checkers, x) = <<"HTTPS", x - (nt + nh)>>
        BY <1>6, <2>1, <3>3
      <4>2. Origin(q.checkers, x)[1] = "HTTPS" /\ Origin(q.checkers, x)[2] = x - (nt + nh)
        BY <4>1
      <4> QED
        BY <2>1, <4>2
    <3>4. CASE ~(x <= nt) /\ ~(x <= nt + nh) /\ ~(x <= nt + nh + ns)
      <4>1. Origin(q.checkers, x) = <<"GRPC", x - (nt + nh + ns)>>
        BY <1>6, <2>1, <3>4
      <4>2. Origin(q.checkers, x)[1] = "GRPC" /\ Origin(q.checkers, x)[2] = x - (nt + nh + ns)
        BY <4>1
      <4> QED
        BY <2>1, <4>2
    <3> QED
      BY <3>1, <3>2, <3>3, <3>4
  <2> HIDE DEF back
  <2> QED
    BY <1>11, <2>1, <2>2
<1> QED
    BY <1>1, <1>7, <1>9, <1>10, <1>11

-----------------------------------------------------------------------------
(* Services as they are loaded.                                              *)

(* The services that name a group for a prefix, and the group named first.    *)
NamingOf(services, prefix) ==
    {i \in DOMAIN services : services[i].group # NoGroup /\ Prefix(services[i]) = prefix}

FirstOf(services, prefix) ==
    CHOOSE i \in NamingOf(services, prefix) : \A j \in NamingOf(services, prefix) : i <= j

(* Of two services that name groups for one prefix, both get the first one's. *)
LEMMA ValidatedServices ==
    ASSUME NEW w, NEW n \in Nat, DOMAIN w = 1..n
    PROVE  LET v == ValidateAnnounceGroups(w)
           IN  /\ DOMAIN v = 1..n
               /\ \A i \in 1..n :
                     /\ w[i].group = NoGroup => v[i] = w[i]
                     /\ w[i].group # NoGroup =>
                          /\ FirstOf(w, w[i].vip) \in 1..i
                          /\ w[FirstOf(w, w[i].vip)].group # NoGroup
                          /\ w[FirstOf(w, w[i].vip)].vip = w[i].vip
                          /\ v[i] = [w[i] EXCEPT !.group = w[FirstOf(w, w[i].vip)].group]
<1> DEFINE v == ValidateAnnounceGroups(w)
<1>1. v = [i \in DOMAIN w |-> IF w[i].group = NoGroup THEN w[i]
                              ELSE [w[i] EXCEPT !.group = w[FirstOf(w, Prefix(w[i]))].group]]
    BY DEF ValidateAnnounceGroups, ForEach, FirstOf, NamingOf
<1> HIDE DEF v
<1>2. DOMAIN v = 1..n
    BY <1>1
<1>3. ASSUME NEW i \in 1..n, w[i].group # NoGroup
      PROVE  /\ FirstOf(w, w[i].vip) \in 1..i
             /\ w[FirstOf(w, w[i].vip)].group # NoGroup
             /\ w[FirstOf(w, w[i].vip)].vip = w[i].vip
  <2> DEFINE naming == NamingOf(w, w[i].vip)
             first == FirstOf(w, w[i].vip)
  <2>1. i \in naming /\ naming \subseteq 1..n
    BY <1>3 DEF NamingOf, Prefix
  <2>2. naming \subseteq Nat /\ naming # {}
    BY <2>1
  <2>3. first \in naming /\ \A j \in naming : first <= j
    <3>1. first = CHOOSE k \in naming : \A j \in naming : k <= j
      BY DEF FirstOf
    <3> HIDE DEF first, naming
    <3> QED
      BY <2>2, <3>1, Least
  <2> HIDE DEF first
  <2>4. first \in 1..i
    <3> HIDE DEF naming
    <3> QED
      BY <2>1, <2>3
  <2>5. w[first].group # NoGroup /\ w[first].vip = w[i].vip
    BY <2>3 DEF NamingOf, Prefix
  <2> QED
    BY <2>4, <2>5 DEF first
<1>4. \A i \in 1..n :
         /\ w[i].group = NoGroup => v[i] = w[i]
         /\ w[i].group # NoGroup => v[i] = [w[i] EXCEPT !.group = w[FirstOf(w, w[i].vip)].group]
    BY <1>1 DEF Prefix
<1> QED
    BY <1>2, <1>3, <1>4 DEF v

(* The services of an accepted file, one by one and in its order.             *)
LEMMA LoadedService ==
    ASSUME Understood, NEW f \in Files, ConfigOf(f) # Invalid
    PROVE  /\ Len(Meant[f]) \in Nat /\ DOMAIN Meant[f] = 1..Len(Meant[f])
           /\ DOMAIN ConfigOf(f) = 1..Len(Meant[f])
           /\ \A i \in 1..Len(Meant[f]) :
                 LET s == Meant[f][i]
                     p == ConfigOf(f)[i]
                 IN  /\ IsService(s)
                     /\ p.vip = Unmap(s.vip) /\ p.port = s.port /\ p.protocol = ToUpper(s.protocol)
                     /\ p.lvsSched = ToLower(s.lvsSched) /\ p.ops = s.ops
                     /\ p.reals = [j \in DOMAIN s.reals |-> PrepareReal(s.reals[j], Outer(s))]
                     /\ p.group # NoGroup =>
                          LET m == FirstOf(Written(f), p.vip)
                          IN  /\ m \in 1..i /\ Unmap(Meant[f][m].vip) = p.vip
                              /\ p.group = Outer(Meant[f][m]).group
<1> DEFINE n == Len(Meant[f])
           w == Written(f)
           C == ConfigOf(f)
<1>1. n \in Nat /\ DOMAIN Meant[f] = 1..n
    BY MeantAssumption, ListDomain
<1>2. \A i \in 1..n : IsService(Meant[f][i])
    BY <1>1, MeantAssumption, ListDomain
<1>3. DOMAIN w = 1..n /\ \A i \in 1..n : w[i] = PrepareService(WithDefaults(Meant[f][i]))
    BY <1>1 DEF Written
<1>4. C = ValidateAnnounceGroups(w)
    BY PreparedConfig
<1> HIDE DEF n, w, C
<1>5. /\ DOMAIN C = 1..n
      /\ \A i \in 1..n :
            /\ w[i].group = NoGroup => C[i] = w[i]
            /\ w[i].group # NoGroup =>
                 /\ FirstOf(w, w[i].vip) \in 1..i
                 /\ w[FirstOf(w, w[i].vip)].group # NoGroup
                 /\ w[FirstOf(w, w[i].vip)].vip = w[i].vip
                 /\ C[i] = [w[i] EXCEPT !.group = w[FirstOf(w, w[i].vip)].group]
    BY <1>1, <1>3, <1>4, ValidatedServices
<1>6. \A i \in 1..n :
         /\ DOMAIN w[i] = DOMAIN Meant[f][i]
         /\ w[i].vip = Unmap(Meant[f][i].vip) /\ w[i].port = Meant[f][i].port
         /\ w[i].protocol = ToUpper(Meant[f][i].protocol)
         /\ w[i].lvsSched = ToLower(Meant[f][i].lvsSched) /\ w[i].ops = Meant[f][i].ops
         /\ w[i].group = Outer(Meant[f][i]).group
         /\ w[i].reals = [j \in DOMAIN Meant[f][i].reals |->
                             PrepareReal(Meant[f][i].reals[j], Outer(Meant[f][i]))]
  <2> SUFFICES ASSUME NEW s, IsService(s)
               PROVE  LET p == PrepareService(WithDefaults(s))
                      IN  /\ DOMAIN p = DOMAIN s
                          /\ p.vip = Unmap(s.vip) /\ p.port = s.port
                          /\ p.protocol = ToUpper(s.protocol) /\ p.lvsSched = ToLower(s.lvsSched)
                          /\ p.ops = s.ops /\ p.group = Outer(s).group
                          /\ p.reals = [j \in DOMAIN s.reals |-> PrepareReal(s.reals[j], Outer(s))]
    BY <1>2, <1>3
  <2> QED
    BY ServiceFields, OuterFields
<1>7. ASSUME NEW i \in 1..n
      PROVE  /\ C[i].vip = Unmap(Meant[f][i].vip) /\ C[i].port = Meant[f][i].port
             /\ C[i].protocol = ToUpper(Meant[f][i].protocol)
             /\ C[i].lvsSched = ToLower(Meant[f][i].lvsSched) /\ C[i].ops = Meant[f][i].ops
             /\ C[i].reals = [j \in DOMAIN Meant[f][i].reals |->
                                 PrepareReal(Meant[f][i].reals[j], Outer(Meant[f][i]))]
             /\ C[i].group # NoGroup =>
                  /\ FirstOf(w, C[i].vip) \in 1..i
                  /\ Unmap(Meant[f][FirstOf(w, C[i].vip)].vip) = C[i].vip
                  /\ C[i].group = Outer(Meant[f][FirstOf(w, C[i].vip)]).group
  <2>1. CASE w[i].group = NoGroup
    <3>1. C[i] = w[i]
      BY <1>5, <2>1
    <3> QED
      BY <1>6, <2>1, <3>1
  <2>2. CASE w[i].group # NoGroup
    <3> DEFINE m == FirstOf(w, w[i].vip)
    <3>1. /\ m \in 1..i /\ w[m].group # NoGroup /\ w[m].vip = w[i].vip
          /\ C[i] = [w[i] EXCEPT !.group = w[m].group]
      BY <1>5, <2>2
    <3> HIDE DEF m
    <3>2. m \in 1..n
      BY <1>1, <3>1
    <3>3. DOMAIN w[i] = {"vip", "port", "protocol", "lvsSched", "method", "group", "quorumUp",
                         "virtualhost", "ops", "delayLoop", "retries", "retryDelay", "reals"}
      BY <1>2, <1>6 DEF IsService
    <3>4. /\ C[i].vip = w[i].vip /\ C[i].port = w[i].port /\ C[i].protocol = w[i].protocol
          /\ C[i].lvsSched = w[i].lvsSched /\ C[i].ops = w[i].ops /\ C[i].reals = w[i].reals
          /\ C[i].group = w[m].group
      BY <3>1, <3>3
    <3>5. FirstOf(w, C[i].vip) = m
      BY <3>4 DEF m
    <3> QED
      BY <1>6, <3>1, <3>2, <3>4, <3>5
  <2> QED
    BY <2>1, <2>2
<1> QED
    BY <1>1, <1>2, <1>5, <1>7 DEF n, w, C

-----------------------------------------------------------------------------
(* Checkers as they are loaded.                                              *)

(* A word in upper case.                                                     *)
LEMMA UpperWord ==
    ASSUME NEW w, IsWord(w)
    PROVE  ToUpper(w) = [word |-> w.word, upper |-> TRUE]
<1> DEFINE up == TRUE
           word == w.word
           spelt == [x \in {"word", "upper"} |-> IF x = "upper" THEN up ELSE word]
<1> HIDE DEF up
<1>1. w = [word |-> word, upper |-> w.upper]
    BY DEF IsWord
<1> HIDE DEF word
<1>2. [w EXCEPT !.upper = up] = spelt
    BY <1>1
<1>3. [word |-> word, upper |-> up] = spelt
    OBVIOUS
<1>4. [w EXCEPT !.upper = up] = [word |-> word, upper |-> up]
    BY <1>2, <1>3
<1> QED
    BY <1>4 DEF ToUpper, word, up

(* The forwarding method a real of a service is given.                       *)
MethodOf(s, r) ==
    IF r.method # Nil THEN r.method
    ELSE IF s.method # Nil THEN ToUpper(s.method) ELSE [word |-> "TUN", upper |-> TRUE]

(* The innermost level that gives a number, if the outermost has a default.   *)
LEMMA InnermostNumber ==
    ASSUME NEW c, NEW r, NEW s, NEW field, NEW default \in Nat,
           c[field] \in Nat \cup {Nil}, r[field] \in Nat \cup {Nil}, s[field] \in Nat \cup {Nil}
    PROVE  Innermost(<<c, r, s>>, field, default) \in Nat
BY InnermostThree

(* What the innermost level gives is what is inherited, level by level.       *)
LEMMA PreparedChecker ==
    ASSUME NEW s, IsService(s), NEW r, IsReal(r), NEW c, IsChecker(c), NEW type
    PROVE  LET q == Inner(r, Outer(s))
               p == PrepareChecker(Inherit(WithType(c, type), q))
               levels == <<c, r, s>>
           IN  /\ p.type = type /\ p.connectIP = Unmap(c.connectIP) /\ p.bindIP = Unmap(c.bindIP)
               /\ p.connectTimeout = c.connectTimeout /\ p.checkTimeout = c.checkTimeout
               /\ p.virtualhost = Innermost(levels, "virtualhost", Nil)
               /\ p.delayLoop = Innermost(levels, "delayLoop", 600) /\ p.delayLoop \in Nat
               /\ p.retries = Innermost(levels, "retries", 1) /\ p.retries \in Nat
               /\ p.retryDelay = Innermost(levels, "retryDelay", 30) /\ p.retryDelay \in Nat
<1> DEFINE o == Outer(s)
           q == Inner(r, o)
           p == PrepareChecker(Inherit(WithType(c, type), q))
<1>1. /\ o.delayLoop = (IF s.delayLoop = Nil THEN 600 ELSE s.delayLoop)
      /\ o.retries = (IF s.retries = Nil THEN 1 ELSE s.retries)
      /\ o.retryDelay = (IF s.retryDelay = Nil THEN 30 ELSE s.retryDelay)
      /\ o.virtualhost = s.virtualhost
    BY OuterFields, DefaultFields
<1> HIDE DEF o
<1>2. /\ q.delayLoop = (IF r.delayLoop # Nil THEN r.delayLoop ELSE o.delayLoop)
      /\ q.retries = (IF r.retries # Nil THEN r.retries ELSE o.retries)
      /\ q.retryDelay = (IF r.retryDelay # Nil THEN r.retryDelay ELSE o.retryDelay)
      /\ q.virtualhost = (IF r.virtualhost # Nil THEN r.virtualhost ELSE o.virtualhost)
    BY InnerFields
<1> HIDE DEF q
<1>3. /\ p.type = type /\ p.connectIP = Unmap(c.connectIP) /\ p.bindIP = Unmap(c.bindIP)
      /\ p.connectTimeout = c.connectTimeout /\ p.checkTimeout = c.checkTimeout
      /\ p.delayLoop = (IF c.delayLoop # Nil THEN c.delayLoop ELSE q.delayLoop)
      /\ p.retries = (IF c.retries # Nil THEN c.retries ELSE q.retries)
      /\ p.retryDelay = (IF c.retryDelay # Nil THEN c.retryDelay ELSE q.retryDelay)
      /\ p.virtualhost = (IF c.virtualhost # Nil THEN c.virtualhost ELSE q.virtualhost)
    BY CheckerFields
<1> HIDE DEF p
<1>4. /\ c.delayLoop \in Nat \cup {Nil} /\ r.delayLoop \in Nat \cup {Nil}
      /\ s.delayLoop \in Nat \cup {Nil}
      /\ c.retries \in Nat \cup {Nil} /\ r.retries \in Nat \cup {Nil}
      /\ s.retries \in Nat \cup {Nil}
      /\ c.retryDelay \in Nat \cup {Nil} /\ r.retryDelay \in Nat \cup {Nil}
      /\ s.retryDelay \in Nat \cup {Nil}
    BY DEF IsService, IsReal, IsChecker, IsScheduler
<1>5. p.virtualhost = Innermost(<<c, r, s>>, "virtualhost", Nil)
    BY <1>1, <1>2, <1>3, InnermostThree
<1>6. p.delayLoop = Innermost(<<c, r, s>>, "delayLoop", 600) /\ p.delayLoop \in Nat
    BY <1>1, <1>2, <1>3, <1>4, InnermostThree
<1>7. p.retries = Innermost(<<c, r, s>>, "retries", 1) /\ p.retries \in Nat
    BY <1>1, <1>2, <1>3, <1>4, InnermostThree
<1>8. p.retryDelay = Innermost(<<c, r, s>>, "retryDelay", 30) /\ p.retryDelay \in Nat
    BY <1>1, <1>2, <1>3, <1>4, InnermostThree
<1> QED
    BY <1>3, <1>5, <1>6, <1>7, <1>8 DEF p, q, o

(* A checker as it is loaded, for checker c of the given type, real and       *)
(* service.                                                                   *)
Prepared(p, s, r, c, type) ==
    /\ p.type = type /\ p.connectIP = Unmap(c.connectIP) /\ p.bindIP = Unmap(c.bindIP)
    /\ p.connectTimeout = c.connectTimeout /\ p.checkTimeout = c.checkTimeout
    /\ p.virtualhost = Innermost(<<c, r, s>>, "virtualhost", Nil)
    /\ p.delayLoop = Innermost(<<c, r, s>>, "delayLoop", 600) /\ p.delayLoop \in Nat
    /\ p.retries = Innermost(<<c, r, s>>, "retries", 1) /\ p.retries \in Nat
    /\ p.retryDelay = Innermost(<<c, r, s>>, "retryDelay", 30) /\ p.retryDelay \in Nat

(* A prepared real, and its checkers.                                         *)
LEMMA PreparedReal ==
    ASSUME NEW s, IsService(s), NEW r, IsReal(r)
    PROVE  LET p == PrepareReal(r, Outer(s))
               types == {"TCP", "HTTP", "HTTPS", "GRPC"}
           IN  /\ p.ip = Unmap(r.ip) /\ p.port = r.port /\ p.method = MethodOf(s, r)
               /\ \A k \in DOMAIN p.checkers :
                     \E type \in types : \E n \in DOMAIN r.checkers[type] :
                        /\ Origin(r.checkers, k) = <<type, n>>
                        /\ IsChecker(r.checkers[type][n])
                        /\ Prepared(p.checkers[k], s, r, r.checkers[type][n], type)
               /\ \A type \in types : \A n \in DOMAIN r.checkers[type] :
                     \E k \in DOMAIN p.checkers : Origin(r.checkers, k) = <<type, n>>
               /\ \A k, l \in DOMAIN p.checkers : Origin(r.checkers, k) = Origin(r.checkers, l) => k = l
<1> DEFINE o == Outer(s)
           q == Inner(r, o)
           p == PrepareReal(r, o)
           list == Checkers(q)
<1>1. /\ p.ip = q.ip /\ p.port = q.port /\ p.method = q.method
      /\ DOMAIN p.checkers = DOMAIN list
      /\ \A k \in DOMAIN list : p.checkers[k] = PrepareChecker(Inherit(list[k], q))
    BY RealFields
<1>2. /\ q.ip = Unmap(r.ip) /\ q.port = r.port /\ q.checkers = r.checkers
      /\ q.method = (IF r.method = Nil THEN o.method ELSE r.method)
    BY InnerFields
<1>3. o.method = (IF s.method # Nil THEN ToUpper(s.method) ELSE [word |-> "TUN", upper |-> TRUE])
  <2>1. o.method = ToUpper(WithDefaults(s).method)
    BY OuterFields
  <2>2. ToUpper([word |-> "TUN", upper |-> TRUE]) = [word |-> "TUN", upper |-> TRUE]
    <3> DEFINE w == [word |-> "TUN", upper |-> TRUE]
    <3>1. w.word = "TUN" /\ w.upper = TRUE
      OBVIOUS
    <3> HIDE DEF w
    <3>2. w = [word |-> w.word, upper |-> w.upper]
      BY <3>1, Zenon DEF w
    <3> QED
      BY <3>1, <3>2, UpperWord, Zenon DEF w, IsWord
  <2> QED
    BY <2>1, <2>2, DefaultFields
<1>4. p.method = MethodOf(s, r)
    BY <1>1, <1>2, <1>3 DEF MethodOf
<1>5. \A type \in {"TCP", "HTTP", "HTTPS", "GRPC"} :
         IsList(r.checkers[type]) /\ \A n \in DOMAIN r.checkers[type] : IsChecker(r.checkers[type][n])
    BY ListDomain DEF IsReal
<1>6. /\ \A k \in DOMAIN list :
            \E type \in {"TCP", "HTTP", "HTTPS", "GRPC"} : \E n \in DOMAIN r.checkers[type] :
               /\ Origin(r.checkers, k) = <<type, n>>
               /\ list[k] = WithType(r.checkers[type][n], type)
      /\ \A type \in {"TCP", "HTTP", "HTTPS", "GRPC"} : \A n \in DOMAIN r.checkers[type] :
            \E k \in DOMAIN list : Origin(r.checkers, k) = <<type, n>>
      /\ \A k, l \in DOMAIN list : Origin(r.checkers, k) = Origin(r.checkers, l) => k = l
  <2>1. /\ IsList(q.checkers["TCP"]) /\ IsList(q.checkers["HTTP"])
        /\ IsList(q.checkers["HTTPS"]) /\ IsList(q.checkers["GRPC"])
    BY <1>2, <1>5
  <2> HIDE DEF q
  <2> QED
    BY <1>2, <2>1, CheckersFields, SMTT(30) DEF WithType
<1>7. ASSUME NEW k \in DOMAIN p.checkers
      PROVE  \E type \in {"TCP", "HTTP", "HTTPS", "GRPC"} : \E n \in DOMAIN r.checkers[type] :
                /\ Origin(r.checkers, k) = <<type, n>>
                /\ IsChecker(r.checkers[type][n])
                /\ Prepared(p.checkers[k], s, r, r.checkers[type][n], type)
  <2> HIDE DEF p, list
  <2>0. PICK type \in {"TCP", "HTTP", "HTTPS", "GRPC"} : \E n \in DOMAIN r.checkers[type] :
               /\ Origin(r.checkers, k) = <<type, n>>
               /\ list[k] = WithType(r.checkers[type][n], type)
    BY <1>1, <1>6
  <2>1. PICK n \in DOMAIN r.checkers[type] :
               /\ Origin(r.checkers, k) = <<type, n>>
               /\ list[k] = WithType(r.checkers[type][n], type)
    BY <2>0
  <2>2. IsChecker(r.checkers[type][n])
    BY <1>5
  <2>3. p.checkers[k] = PrepareChecker(Inherit(WithType(r.checkers[type][n], type), q))
    BY <1>1, <2>1
  <2>4. Prepared(p.checkers[k], s, r, r.checkers[type][n], type)
    <3> DEFINE c == r.checkers[type][n]
    <3> HIDE DEF c
    <3>1. IsChecker(c)
      BY <2>2 DEF c
    <3>2. Prepared(PrepareChecker(Inherit(WithType(c, type), q)), s, r, c, type)
      BY <3>1, PreparedChecker DEF Prepared
    <3> QED
      BY <2>3, <3>2 DEF c
  <2> QED
    BY <2>1, <2>2, <2>4
<1> HIDE DEF p, list
<1> QED
    BY <1>1, <1>2, <1>4, <1>6, <1>7 DEF p, o

-----------------------------------------------------------------------------
(* The entries of a configuration.                                           *)

(* The places of a configuration.                                            *)
LEMMA PlaceOf ==
    ASSUME NEW config, NEW p
    PROVE  p \in Places(config) <=>
             \E i \in DOMAIN config : \E j \in DOMAIN config[i].reals :
                \E k \in DOMAIN config[i].reals[j].checkers : p = <<i, j, k>>
BY DEF Places

(* Entries are those of the places.                                          *)
LEMMA EntriesAt ==
    ASSUME NEW config, NEW e
    PROVE  e \in Entries(config) <=> \E p \in Places(config) : e = EntryAt(config, p)
BY DEF Entries

(* The settings of an entry are those of its key and its method, but for the  *)
(* timeouts.                                                                  *)
LEMMA EntryFields ==
    ASSUME NEW config, NEW e \in Entries(config)
    PROVE  /\ e = [id |-> e.id, settings |-> e.settings, method |-> e.method]
           /\ DOMAIN e.settings = {"type", "connectIP", "bindIP", "virtualhost", "connectTimeout",
                                   "checkTimeout", "delayLoop", "retries", "retryDelay", "tunnel",
                                   "real"}
           /\ e.settings.type = e.id[3].type /\ e.settings.connectIP = e.id[3].connectIP
           /\ e.settings.bindIP = e.id[3].bindIP /\ e.settings.virtualhost = e.id[3].virtualhost
           /\ e.settings.delayLoop = e.id[3].delayLoop /\ e.settings.retries = e.id[3].retries
           /\ e.settings.retryDelay = e.id[3].retryDelay /\ e.settings.real = e.id[2][1]
           /\ e.settings.tunnel = (IF e.method = [word |-> "GRE", upper |-> TRUE]
                                   THEN "GRE" ELSE "TUN")
<1>1. PICK p \in Places(config) : e = EntryAt(config, p)
    BY EntriesAt
<1> DEFINE s == config[p[1]]
           r == s.reals[p[2]]
           c == r.checkers[p[3]]
<1>2. e = [id |-> <<ServiceKey(s), RealKey(r), CheckerKey(c)>>, settings |-> Settings(r, c),
           method |-> r.method]
    BY <1>1 DEF EntryAt, IdAt
<1> HIDE DEF s, r, c
<1>3. /\ e.id[3] = CheckerKey(c) /\ e.id[2] = RealKey(r) /\ e.settings = Settings(r, c)
      /\ e.method = r.method
    BY <1>2
<1>4. /\ CheckerKey(c).type = c.type /\ CheckerKey(c).connectIP = c.connectIP
      /\ CheckerKey(c).bindIP = c.bindIP /\ CheckerKey(c).virtualhost = c.virtualhost
      /\ CheckerKey(c).delayLoop = GetDelayLoop(c) /\ CheckerKey(c).retries = GetRetries(c)
      /\ CheckerKey(c).retryDelay = GetRetryDelay(c)
    BY DEF CheckerKey
<1>5. RealKey(r)[1] = r.ip
    BY DEF RealKey
<1> DEFINE g == Settings(r, c)
           tunnel == IF r.method = [word |-> "GRE", upper |-> TRUE] THEN "GRE" ELSE "TUN"
<1>6. g = [type |-> c.type, connectIP |-> c.connectIP, bindIP |-> c.bindIP,
           virtualhost |-> c.virtualhost, connectTimeout |-> c.connectTimeout,
           checkTimeout |-> GetCheckTimeout(c), delayLoop |-> GetDelayLoop(c),
           retries |-> GetRetries(c), retryDelay |-> GetRetryDelay(c), tunnel |-> tunnel,
           real |-> r.ip]
    BY DEF Settings
<1> HIDE DEF tunnel, g
<1>7. /\ DOMAIN g = {"type", "connectIP", "bindIP", "virtualhost", "connectTimeout",
                     "checkTimeout", "delayLoop", "retries", "retryDelay", "tunnel", "real"}
      /\ g.type = c.type /\ g.connectIP = c.connectIP /\ g.bindIP = c.bindIP
      /\ g.virtualhost = c.virtualhost /\ g.delayLoop = GetDelayLoop(c)
      /\ g.retries = GetRetries(c) /\ g.retryDelay = GetRetryDelay(c) /\ g.tunnel = tunnel
      /\ g.real = r.ip
    BY <1>6
<1>8. e.settings = g
    BY <1>3 DEF g
<1>9. e = [id |-> e.id, settings |-> e.settings, method |-> e.method]
    BY <1>2
<1>10. e.settings.tunnel = (IF e.method = [word |-> "GRE", upper |-> TRUE] THEN "GRE" ELSE "TUN")
    BY <1>3, <1>7, <1>8, Zenon DEF tunnel
<1> QED
    BY <1>3, <1>4, <1>5, <1>7, <1>8, <1>9, <1>10

(* So entries of one key and method differ in timeouts only.                  *)
LEMMA KeySettles ==
    ASSUME NEW old, NEW new, NEW a \in Entries(old), NEW b \in Entries(new),
           a.id = b.id, a.method = b.method
    PROVE  SameButTimeouts(a, b)
<1>1. /\ a.settings.type = b.settings.type /\ a.settings.connectIP = b.settings.connectIP
      /\ a.settings.bindIP = b.settings.bindIP /\ a.settings.virtualhost = b.settings.virtualhost
      /\ a.settings.delayLoop = b.settings.delayLoop /\ a.settings.retries = b.settings.retries
      /\ a.settings.retryDelay = b.settings.retryDelay /\ a.settings.real = b.settings.real
    BY EntryFields
<1>2. a.settings.tunnel = b.settings.tunnel
  <2>1. a.settings.tunnel = (IF a.method = [word |-> "GRE", upper |-> TRUE] THEN "GRE" ELSE "TUN")
    BY EntryFields
  <2>2. b.settings.tunnel = (IF b.method = [word |-> "GRE", upper |-> TRUE] THEN "GRE" ELSE "TUN")
    BY EntryFields
  <2> QED
    BY <2>1, <2>2, Zenon
<1>3. DOMAIN b.settings \ {"connectTimeout", "checkTimeout"} =
        {"type", "connectIP", "bindIP", "virtualhost", "delayLoop", "retries", "retryDelay",
         "tunnel", "real"}
    BY EntryFields
<1> QED
    BY <1>1, <1>2, <1>3 DEF SameButTimeouts

-----------------------------------------------------------------------------
(* The entries of a file.                                                    *)

(* Entry e is the one for checker c of the given type, real and service.      *)
ComesFrom(e, s, r, c, type) ==
    \E p : /\ Prepared(p, s, r, c, type)
           /\ e.id = <<<<Unmap(s.vip), s.port, ToUpper(s.protocol)>>, <<Unmap(r.ip), r.port>>,
                       CheckerKey(p)>>
           /\ e.method = MethodOf(s, r)

(* The reals of a service as it is loaded.                                    *)
LEMMA LoadedReal ==
    ASSUME Understood, NEW f \in Files, ConfigOf(f) # Invalid,
           NEW i \in 1..Len(Meant[f])
    PROVE  /\ DOMAIN ConfigOf(f)[i].reals = DOMAIN Meant[f][i].reals
           /\ \A j \in DOMAIN Meant[f][i].reals :
                 /\ IsReal(Meant[f][i].reals[j])
                 /\ ConfigOf(f)[i].reals[j] = PrepareReal(Meant[f][i].reals[j], Outer(Meant[f][i]))
<1> DEFINE s == Meant[f][i]
           list == ConfigOf(f)[i].reals
<1>1. IsService(s) /\ list = [j \in DOMAIN s.reals |-> PrepareReal(s.reals[j], Outer(s))]
    BY LoadedService
<1>2. \A j \in DOMAIN s.reals : IsReal(s.reals[j])
    BY <1>1, ListDomain DEF IsService
<1> HIDE DEF s, list
<1>3. DOMAIN list = DOMAIN s.reals /\ \A j \in DOMAIN s.reals : list[j] = PrepareReal(s.reals[j], Outer(s))
    BY <1>1
<1> QED
    BY <1>2, <1>3 DEF s, list

(* Where the checker at a place of the configuration is written.              *)
OriginOf(f, p) ==
    LET o == Origin(Meant[f][p[1]].reals[p[2]].checkers, p[3])
    IN  <<p[1], p[2], o[1], o[2]>>

(* The places of checkers in a file.                                          *)
LEMMA WrittenPlaceOf ==
    ASSUME NEW list, NEW p
    PROVE  p \in WrittenPlaces(list) <=>
             \E i \in DOMAIN list : \E j \in DOMAIN list[i].reals :
                \E type \in DOMAIN list[i].reals[j].checkers :
                   \E n \in DOMAIN list[i].reals[j].checkers[type] : p = <<i, j, type, n>>
BY DEF WrittenPlaces

(* Each entry of the configuration is that of a checker written in the file.  *)
LEMMA EntryWritten ==
    ASSUME Understood, NEW f \in Files, ConfigOf(f) # Invalid, NEW p \in Places(ConfigOf(f))
    PROVE  LET o == OriginOf(f, p)
               s == Meant[f][o[1]]
               r == s.reals[o[2]]
               c == r.checkers[o[3]][o[4]]
           IN  /\ o \in WrittenPlaces(Meant[f])
               /\ IsService(s) /\ IsReal(r) /\ IsChecker(c)
               /\ s \in ToSet(Meant[f]) /\ r \in ToSet(s.reals)
               /\ ComesFrom(EntryAt(ConfigOf(f), p), s, r, c, o[3])
<1> DEFINE C == ConfigOf(f)
<1>1. PICK i \in DOMAIN C : \E j \in DOMAIN C[i].reals :
             \E k \in DOMAIN C[i].reals[j].checkers : p = <<i, j, k>>
    BY PlaceOf
<1>2. PICK j \in DOMAIN C[i].reals : \E k \in DOMAIN C[i].reals[j].checkers : p = <<i, j, k>>
    BY <1>1
<1>3. PICK k \in DOMAIN C[i].reals[j].checkers : p = <<i, j, k>>
    BY <1>2
<1> DEFINE s == Meant[f][i]
           r == s.reals[j]
           P == C[i].reals[j]
<1>4. /\ i \in DOMAIN Meant[f] /\ i \in 1..Len(Meant[f]) /\ IsService(s)
      /\ C[i].vip = Unmap(s.vip) /\ C[i].port = s.port /\ C[i].protocol = ToUpper(s.protocol)
    BY LoadedService
<1>5. j \in DOMAIN s.reals /\ IsReal(r) /\ P = PrepareReal(r, Outer(s))
    BY <1>4, LoadedReal
<1> HIDE DEF C
<1>6. /\ P.ip = Unmap(r.ip) /\ P.port = r.port /\ P.method = MethodOf(s, r)
      /\ \E type \in {"TCP", "HTTP", "HTTPS", "GRPC"} : \E n \in DOMAIN r.checkers[type] :
            /\ Origin(r.checkers, k) = <<type, n>>
            /\ IsChecker(r.checkers[type][n])
            /\ Prepared(P.checkers[k], s, r, r.checkers[type][n], type)
  <2>1. k \in DOMAIN P.checkers
    OBVIOUS
  <2> HIDE DEF s, r, P
  <2>2. /\ PrepareReal(r, Outer(s)).ip = Unmap(r.ip) /\ PrepareReal(r, Outer(s)).port = r.port
        /\ PrepareReal(r, Outer(s)).method = MethodOf(s, r)
    BY <1>4, <1>5, PreparedReal
  <2>3. \A l \in DOMAIN PrepareReal(r, Outer(s)).checkers :
           \E type \in {"TCP", "HTTP", "HTTPS", "GRPC"} : \E n \in DOMAIN r.checkers[type] :
              /\ Origin(r.checkers, l) = <<type, n>>
              /\ IsChecker(r.checkers[type][n])
              /\ Prepared(PrepareReal(r, Outer(s)).checkers[l], s, r, r.checkers[type][n], type)
    BY <1>4, <1>5, PreparedReal
  <2> QED
    BY <1>5, <2>1, <2>2, <2>3
<1>7. PICK type \in {"TCP", "HTTP", "HTTPS", "GRPC"} : \E n \in DOMAIN r.checkers[type] :
            /\ Origin(r.checkers, k) = <<type, n>>
            /\ IsChecker(r.checkers[type][n])
            /\ Prepared(P.checkers[k], s, r, r.checkers[type][n], type)
    BY <1>6
<1>8. PICK n \in DOMAIN r.checkers[type] :
            /\ Origin(r.checkers, k) = <<type, n>>
            /\ IsChecker(r.checkers[type][n])
            /\ Prepared(P.checkers[k], s, r, r.checkers[type][n], type)
    BY <1>7
<1> DEFINE c == r.checkers[type][n]
           e == EntryAt(C, p)
<1>9. OriginOf(f, p) = <<i, j, type, n>>
  <2>1. p[1] = i /\ p[2] = j /\ p[3] = k
    BY <1>3
  <2>2. OriginOf(f, p) = <<i, j, Origin(r.checkers, k)[1], Origin(r.checkers, k)[2]>>
    BY <2>1 DEF OriginOf
  <2>3. Origin(r.checkers, k)[1] = type /\ Origin(r.checkers, k)[2] = n
    <3>1. Origin(r.checkers, k) = <<type, n>>
      BY <1>8
    <3> HIDE DEF r
    <3> QED
      BY <3>1
  <2> QED
    BY <2>2, <2>3
<1>10. <<i, j, type, n>> \in WrittenPlaces(Meant[f])
  <2>1. type \in DOMAIN r.checkers
    BY <1>5 DEF IsReal
  <2> QED
    BY <1>4, <1>5, <2>1, WrittenPlaceOf
<1>11. s \in ToSet(Meant[f]) /\ r \in ToSet(s.reals)
    BY <1>4, <1>5 DEF ToSet
<1>12. /\ e.id = <<<<C[i].vip, C[i].port, C[i].protocol>>, <<P.ip, P.port>>,
                   CheckerKey(P.checkers[k])>>
       /\ e.method = P.method
    BY <1>3 DEF EntryAt, IdAt, ServiceKey, RealKey
<1>13. ComesFrom(e, s, r, c, type)
  <2> HIDE DEF e, c, r, P
  <2>1. Prepared(P.checkers[k], s, r, c, type)
    BY <1>8 DEF c
  <2>2. e.id = <<<<Unmap(s.vip), s.port, ToUpper(s.protocol)>>, <<Unmap(r.ip), r.port>>,
                 CheckerKey(P.checkers[k])>>
    BY <1>4, <1>6, <1>12
  <2>3. e.method = MethodOf(s, r)
    BY <1>6, <1>12
  <2> QED
    BY <2>1, <2>2, <2>3 DEF ComesFrom
<1> HIDE DEF e
<1>14. IsChecker(c)
    BY <1>8
<1>15. /\ OriginOf(f, p)[1] = i /\ OriginOf(f, p)[2] = j
       /\ OriginOf(f, p)[3] = type /\ OriginOf(f, p)[4] = n
    BY <1>9
<1> QED
    BY <1>4, <1>5, <1>9, <1>10, <1>11, <1>13, <1>14, <1>15 DEF e, C

(* Each checker written in the file has an entry.                             *)
LEMMA OriginOnto ==
    ASSUME Understood, NEW f \in Files, ConfigOf(f) # Invalid, NEW w \in WrittenPlaces(Meant[f])
    PROVE  \E p \in Places(ConfigOf(f)) : OriginOf(f, p) = w
<1> DEFINE C == ConfigOf(f)
<1>1. PICK i \in DOMAIN Meant[f] : \E j \in DOMAIN Meant[f][i].reals :
             \E type \in DOMAIN Meant[f][i].reals[j].checkers :
                \E n \in DOMAIN Meant[f][i].reals[j].checkers[type] : w = <<i, j, type, n>>
    BY WrittenPlaceOf
<1> DEFINE s == Meant[f][i]
<1>2. PICK j \in DOMAIN s.reals : \E type \in DOMAIN s.reals[j].checkers :
             \E n \in DOMAIN s.reals[j].checkers[type] : w = <<i, j, type, n>>
    BY <1>1
<1> DEFINE r == s.reals[j]
<1>3. PICK type \in DOMAIN r.checkers : \E n \in DOMAIN r.checkers[type] : w = <<i, j, type, n>>
    BY <1>2
<1>4. PICK n \in DOMAIN r.checkers[type] : w = <<i, j, type, n>>
    BY <1>3
<1>5. i \in DOMAIN C /\ i \in 1..Len(Meant[f]) /\ IsService(s)
    BY LoadedService
<1> DEFINE P == C[i].reals[j]
<1>6. j \in DOMAIN C[i].reals /\ IsReal(r) /\ P = PrepareReal(r, Outer(s))
    BY <1>5, LoadedReal
<1>7. type \in {"TCP", "HTTP", "HTTPS", "GRPC"}
    BY <1>6 DEF IsReal
<1>8. PICK k \in DOMAIN P.checkers : Origin(r.checkers, k) = <<type, n>>
  <2>1. n \in DOMAIN r.checkers[type]
    OBVIOUS
  <2> HIDE DEF s, r, P
  <2>2. \A t \in {"TCP", "HTTP", "HTTPS", "GRPC"} : \A m \in DOMAIN r.checkers[t] :
           \E k \in DOMAIN PrepareReal(r, Outer(s)).checkers : Origin(r.checkers, k) = <<t, m>>
    BY <1>5, <1>6, PreparedReal
  <2> QED
    BY <1>6, <1>7, <2>1, <2>2
<1>9. <<i, j, k>> \in Places(C)
    BY <1>5, <1>6, PlaceOf
<1>10. OriginOf(f, <<i, j, k>>) = w
  <2>1. OriginOf(f, <<i, j, k>>) = <<i, j, Origin(r.checkers, k)[1], Origin(r.checkers, k)[2]>>
    BY DEF OriginOf
  <2>2. Origin(r.checkers, k)[1] = type /\ Origin(r.checkers, k)[2] = n
    <3>1. Origin(r.checkers, k) = <<type, n>>
      BY <1>8
    <3> HIDE DEF r
    <3> QED
      BY <3>1
  <2> QED
    BY <1>4, <2>1, <2>2
<1> QED
    BY <1>9, <1>10

(* And has one entry only.                                                    *)
LEMMA OriginInjective ==
    ASSUME Understood, NEW f \in Files, ConfigOf(f) # Invalid,
           NEW p \in Places(ConfigOf(f)), NEW q \in Places(ConfigOf(f)),
           OriginOf(f, p) = OriginOf(f, q)
    PROVE  p = q
<1> DEFINE C == ConfigOf(f)
<1>1. PICK i \in DOMAIN C : \E j \in DOMAIN C[i].reals :
             \E k \in DOMAIN C[i].reals[j].checkers : p = <<i, j, k>>
    BY PlaceOf
<1>2. PICK j \in DOMAIN C[i].reals : \E k \in DOMAIN C[i].reals[j].checkers : p = <<i, j, k>>
    BY <1>1
<1>3. PICK k \in DOMAIN C[i].reals[j].checkers : p = <<i, j, k>>
    BY <1>2
<1>4. PICK l \in DOMAIN C : \E m \in DOMAIN C[l].reals :
             \E n \in DOMAIN C[l].reals[m].checkers : q = <<l, m, n>>
    BY PlaceOf
<1>5. PICK m \in DOMAIN C[l].reals : \E n \in DOMAIN C[l].reals[m].checkers : q = <<l, m, n>>
    BY <1>4
<1>6. PICK n \in DOMAIN C[l].reals[m].checkers : q = <<l, m, n>>
    BY <1>5
<1> DEFINE s == Meant[f][i]
           r == s.reals[j]
           P == C[i].reals[j]
           o(x) == Origin(Meant[f][x[1]].reals[x[2]].checkers, x[3])
<1>7. /\ OriginOf(f, p) = <<p[1], p[2], o(p)[1], o(p)[2]>>
      /\ OriginOf(f, q) = <<q[1], q[2], o(q)[1], o(q)[2]>>
    BY DEF OriginOf
<1> HIDE DEF o
<1>8. p[1] = q[1] /\ p[2] = q[2] /\ o(p)[1] = o(q)[1] /\ o(p)[2] = o(q)[2]
  <2>1. <<p[1], p[2], o(p)[1], o(p)[2]>> = <<q[1], q[2], o(q)[1], o(q)[2]>>
    BY <1>7
  <2> QED
    BY <2>1
<1>9. i = l /\ j = m
    BY <1>3, <1>6, <1>8
<1>10. i \in 1..Len(Meant[f]) /\ IsService(s)
    BY LoadedService
<1>11. j \in DOMAIN s.reals /\ IsReal(r) /\ P = PrepareReal(r, Outer(s))
    BY <1>10, LoadedReal
<1>12. k \in DOMAIN P.checkers /\ n \in DOMAIN P.checkers
    BY <1>9
<1>13. o(p) = Origin(r.checkers, k) /\ o(q) = Origin(r.checkers, n)
    BY <1>3, <1>6, <1>9 DEF o
<1>14. Origin(r.checkers, k) = Origin(r.checkers, n)
  <2>1. Origin(r.checkers, k)[1] = Origin(r.checkers, n)[1] /\ Origin(r.checkers, k)[2] = Origin(r.checkers, n)[2]
    BY <1>8, <1>13
  <2>2. \A lists, x : Origin(lists, x) = <<Origin(lists, x)[1], Origin(lists, x)[2]>>
    BY ZenonT(30) DEF Origin
  <2> HIDE DEF r
  <2> QED
    BY <2>1, <2>2
<1>15. k = n
  <2> HIDE DEF s, r, P
  <2>1. \A x, y \in DOMAIN PrepareReal(r, Outer(s)).checkers :
           Origin(r.checkers, x) = Origin(r.checkers, y) => x = y
    BY <1>10, <1>11, PreparedReal
  <2> QED
    BY <1>11, <1>12, <1>14, <2>1
<1> QED
    BY <1>3, <1>6, <1>9, <1>15

(* What runs for an entry, without the timeouts.                              *)
ViewOf(id, e) ==
    [type |-> e.type, connectIP |-> e.connectIP.addr, bindIP |-> e.bindIP.addr,
     virtualhost |-> e.virtualhost, delayLoop |-> e.delayLoop \div 10, retries |-> e.retries,
     retryDelay |-> e.retryDelay \div 10, tunnel |-> e.tunnel, real |-> e.real.addr,
     service |-> id[1][1].addr]

(* Another spelling is the same address, or the same word.                    *)
LEMMA Spellings ==
    /\ \A ip : IsAddr(ip) => Unmap(ip).addr = ip.addr /\ Unmap(ip).mapped = FALSE
    /\ \A w : IsWord(w) => ToUpper(w).word = w.word /\ ToUpper(w).upper = TRUE
<1>1. ASSUME NEW ip, IsAddr(ip)
      PROVE  Unmap(ip).addr = ip.addr /\ Unmap(ip).mapped = FALSE
    BY <1>1 DEF IsAddr, Unmap
<1>2. ASSUME NEW w, IsWord(w)
      PROVE  ToUpper(w).word = w.word /\ ToUpper(w).upper = TRUE
    BY <1>2, UpperWord
<1> QED
    BY <1>1, <1>2

(* Fractions of a second make no difference to whole seconds.                 *)
LEMMA Seconds ==
    ASSUME NEW t \in Nat
    PROVE  WholeSeconds(t) \div 10 = t \div 10
BY DEF WholeSeconds

(* The key of a prepared checker.                                             *)
LEMMA PreparedKey ==
    ASSUME NEW p, NEW s, NEW r, NEW c, NEW type, Prepared(p, s, r, c, type),
           IsChecker(c)
    PROVE  LET k == CheckerKey(p)
               levels == <<c, r, s>>
           IN  /\ k.type = type /\ k.connectIP.addr = c.connectIP.addr
               /\ k.bindIP.addr = c.bindIP.addr /\ k.checkTimeout = c.checkTimeout
               /\ k.virtualhost = Innermost(levels, "virtualhost", Nil)
               /\ k.delayLoop \div 10 = Innermost(levels, "delayLoop", 600) \div 10
               /\ k.retries = Innermost(levels, "retries", 1)
               /\ k.retryDelay \div 10 = Innermost(levels, "retryDelay", 30) \div 10
<1> DEFINE k == CheckerKey(p)
<1>1. /\ k.type = p.type /\ k.connectIP = p.connectIP /\ k.bindIP = p.bindIP
      /\ k.checkTimeout = p.checkTimeout /\ k.virtualhost = p.virtualhost
      /\ k.delayLoop = GetDelayLoop(p) /\ k.retries = GetRetries(p)
      /\ k.retryDelay = GetRetryDelay(p)
    BY DEF CheckerKey
<1>2. Nil \notin Nat
    BY MeantAssumption
<1>3. /\ GetDelayLoop(p) = WholeSeconds(p.delayLoop) /\ GetRetries(p) = p.retries
      /\ GetRetryDelay(p) = WholeSeconds(p.retryDelay)
    BY <1>2 DEF Prepared, GetDelayLoop, GetRetries, GetRetryDelay
<1>4. /\ p.connectIP.addr = c.connectIP.addr /\ p.bindIP.addr = c.bindIP.addr
    BY Spellings DEF Prepared, IsChecker
<1>5. /\ WholeSeconds(p.delayLoop) \div 10 = p.delayLoop \div 10
      /\ WholeSeconds(p.retryDelay) \div 10 = p.retryDelay \div 10
    BY Seconds DEF Prepared
<1> HIDE DEF k
<1> QED
    BY <1>1, <1>3, <1>4, <1>5 DEF Prepared, k

(* What the key of an entry says of the checker it is for.                    *)
KeySays(e, s, r, c, type) ==
    /\ e.id[1][1].addr = s.vip.addr /\ e.id[1][2] = s.port
    /\ e.id[1][3].word = s.protocol.word
    /\ e.id[2][1].addr = r.ip.addr /\ e.id[2][2] = r.port
    /\ e.id[1][1].mapped = FALSE /\ e.id[1][3].upper = TRUE /\ e.id[2][1].mapped = FALSE
    /\ e.id[3].type = type /\ e.id[3].connectIP.addr = c.connectIP.addr
    /\ e.id[3].bindIP.addr = c.bindIP.addr /\ e.id[3].checkTimeout = c.checkTimeout
    /\ e.id[3].virtualhost = Innermost(<<c, r, s>>, "virtualhost", Nil)
    /\ e.id[3].delayLoop \div 10 = Innermost(<<c, r, s>>, "delayLoop", 600) \div 10
    /\ e.id[3].retries = Innermost(<<c, r, s>>, "retries", 1)
    /\ e.id[3].retryDelay \div 10 = Innermost(<<c, r, s>>, "retryDelay", 30) \div 10
    /\ e.method = MethodOf(s, r)

(* It says all that is written, but for the connect timeout.                  *)
LEMMA EntryKey ==
    ASSUME NEW e, NEW s, NEW r, NEW c, NEW type, ComesFrom(e, s, r, c, type),
           IsService(s), IsReal(r), IsChecker(c)
    PROVE  KeySays(e, s, r, c, type)
<1>1. PICK p : /\ Prepared(p, s, r, c, type)
               /\ e.id = <<<<Unmap(s.vip), s.port, ToUpper(s.protocol)>>, <<Unmap(r.ip), r.port>>,
                           CheckerKey(p)>>
               /\ e.method = MethodOf(s, r)
    BY DEF ComesFrom
<1>2. /\ e.id[1][1] = Unmap(s.vip) /\ e.id[1][2] = s.port /\ e.id[1][3] = ToUpper(s.protocol)
      /\ e.id[2][1] = Unmap(r.ip) /\ e.id[2][2] = r.port /\ e.id[3] = CheckerKey(p)
    BY <1>1
<1>3. IsAddr(s.vip) /\ IsAddr(r.ip) /\ IsWord(s.protocol)
    BY DEF IsService, IsReal
<1>4. /\ Unmap(s.vip).addr = s.vip.addr /\ Unmap(s.vip).mapped = FALSE
      /\ Unmap(r.ip).addr = r.ip.addr /\ Unmap(r.ip).mapped = FALSE
      /\ ToUpper(s.protocol).word = s.protocol.word /\ ToUpper(s.protocol).upper = TRUE
    BY <1>3, Spellings
<1>5. LET k == CheckerKey(p)
          levels == <<c, r, s>>
      IN  /\ k.type = type /\ k.connectIP.addr = c.connectIP.addr
          /\ k.bindIP.addr = c.bindIP.addr /\ k.checkTimeout = c.checkTimeout
          /\ k.virtualhost = Innermost(levels, "virtualhost", Nil)
          /\ k.delayLoop \div 10 = Innermost(levels, "delayLoop", 600) \div 10
          /\ k.retries = Innermost(levels, "retries", 1)
          /\ k.retryDelay \div 10 = Innermost(levels, "retryDelay", 30) \div 10
    BY <1>1, PreparedKey
<1> QED
    BY <1>1, <1>2, <1>4, <1>5 DEF KeySays

(* What tells a written checker apart.                                        *)
Told(s, r, c, type) ==
    <<s.port, s.protocol.word, r.port, c.checkTimeout,
      [Wanted(s, r, c, type) EXCEPT !.tunnel = "any"]>>

(* Checkers whose entries have one key are written alike.                     *)
LEMMA SameWritten ==
    ASSUME NEW e, NEW s, NEW r, NEW c, NEW type, ComesFrom(e, s, r, c, type),
           IsService(s), IsReal(r), IsChecker(c),
           NEW e2, NEW s2, NEW r2, NEW c2, NEW type2, ComesFrom(e2, s2, r2, c2, type2),
           IsService(s2), IsReal(r2), IsChecker(c2),
           e.id = e2.id
    PROVE  Told(s, r, c, type) = Told(s2, r2, c2, type2)
<1>0. KeySays(e, s, r, c, type) /\ KeySays(e2, s2, r2, c2, type2)
    BY EntryKey
<1>1. /\ s.port = s2.port /\ s.protocol.word = s2.protocol.word /\ r.port = r2.port
      /\ c.checkTimeout = c2.checkTimeout
    BY <1>0 DEF KeySays
<1> DEFINE w == Wanted(s, r, c, type)
           w2 == Wanted(s2, r2, c2, type2)
<1>2. /\ w = [type |-> w.type, connectIP |-> w.connectIP, bindIP |-> w.bindIP,
              virtualhost |-> w.virtualhost, delayLoop |-> w.delayLoop, retries |-> w.retries,
              retryDelay |-> w.retryDelay, tunnel |-> w.tunnel, real |-> w.real,
              service |-> w.service]
      /\ w.type = type /\ w.connectIP = c.connectIP.addr /\ w.bindIP = c.bindIP.addr
      /\ w.virtualhost = Innermost(<<c, r, s>>, "virtualhost", Nil)
      /\ w.delayLoop = Innermost(<<c, r, s>>, "delayLoop", 600) \div 10
      /\ w.retries = Innermost(<<c, r, s>>, "retries", 1)
      /\ w.retryDelay = Innermost(<<c, r, s>>, "retryDelay", 30) \div 10
      /\ w.real = r.ip.addr /\ w.service = s.vip.addr
    BY DEF Wanted
<1>3. /\ w2 = [type |-> w2.type, connectIP |-> w2.connectIP, bindIP |-> w2.bindIP,
               virtualhost |-> w2.virtualhost, delayLoop |-> w2.delayLoop, retries |-> w2.retries,
               retryDelay |-> w2.retryDelay, tunnel |-> w2.tunnel, real |-> w2.real,
               service |-> w2.service]
      /\ w2.type = type2 /\ w2.connectIP = c2.connectIP.addr /\ w2.bindIP = c2.bindIP.addr
      /\ w2.virtualhost = Innermost(<<c2, r2, s2>>, "virtualhost", Nil)
      /\ w2.delayLoop = Innermost(<<c2, r2, s2>>, "delayLoop", 600) \div 10
      /\ w2.retries = Innermost(<<c2, r2, s2>>, "retries", 1)
      /\ w2.retryDelay = Innermost(<<c2, r2, s2>>, "retryDelay", 30) \div 10
      /\ w2.real = r2.ip.addr /\ w2.service = s2.vip.addr
    BY DEF Wanted
<1>4. /\ type = e.id[3].type /\ c.connectIP.addr = e.id[3].connectIP.addr
      /\ c.bindIP.addr = e.id[3].bindIP.addr
      /\ Innermost(<<c, r, s>>, "virtualhost", Nil) = e.id[3].virtualhost
      /\ Innermost(<<c, r, s>>, "delayLoop", 600) \div 10 = e.id[3].delayLoop \div 10
      /\ Innermost(<<c, r, s>>, "retries", 1) = e.id[3].retries
      /\ Innermost(<<c, r, s>>, "retryDelay", 30) \div 10 = e.id[3].retryDelay \div 10
      /\ r.ip.addr = e.id[2][1].addr /\ s.vip.addr = e.id[1][1].addr
    BY <1>0 DEF KeySays
<1>5. /\ type2 = e2.id[3].type /\ c2.connectIP.addr = e2.id[3].connectIP.addr
      /\ c2.bindIP.addr = e2.id[3].bindIP.addr
      /\ Innermost(<<c2, r2, s2>>, "virtualhost", Nil) = e2.id[3].virtualhost
      /\ Innermost(<<c2, r2, s2>>, "delayLoop", 600) \div 10 = e2.id[3].delayLoop \div 10
      /\ Innermost(<<c2, r2, s2>>, "retries", 1) = e2.id[3].retries
      /\ Innermost(<<c2, r2, s2>>, "retryDelay", 30) \div 10 = e2.id[3].retryDelay \div 10
      /\ r2.ip.addr = e2.id[2][1].addr /\ s2.vip.addr = e2.id[1][1].addr
    BY <1>0 DEF KeySays
<1> HIDE DEF w, w2
<1>6. /\ w.type = w2.type /\ w.connectIP = w2.connectIP /\ w.bindIP = w2.bindIP
      /\ w.virtualhost = w2.virtualhost /\ w.delayLoop = w2.delayLoop /\ w.retries = w2.retries
      /\ w.retryDelay = w2.retryDelay /\ w.real = w2.real /\ w.service = w2.service
    BY <1>2, <1>3, <1>4, <1>5
<1>7. [w EXCEPT !.tunnel = "any"] = [w2 EXCEPT !.tunnel = "any"]
  <2>1. DOMAIN w = {"type", "connectIP", "bindIP", "virtualhost", "delayLoop", "retries",
                    "retryDelay", "tunnel", "real", "service"}
    BY <1>2
  <2>2. DOMAIN w2 = {"type", "connectIP", "bindIP", "virtualhost", "delayLoop", "retries",
                     "retryDelay", "tunnel", "real", "service"}
    BY <1>3
  <2>3. \A x \in DOMAIN w : x # "tunnel" => w[x] = w2[x]
    BY <1>6, <2>1
  <2> QED
    BY <2>1, <2>2, <2>3
<1> QED
    BY <1>1, <1>7, Zenon DEF w, w2, Told

(* A checker runs with what the file says.                                    *)
LEMMA AsWanted ==
    ASSUME NEW config, NEW e \in Entries(config),
           NEW s, NEW r, NEW c, NEW type, ComesFrom(e, s, r, c, type),
           IsService(s), IsReal(r), IsChecker(c),
           s.method # Nil => s.method.word \in {"TUN", "GRE"},
           r.method # Nil => r.method.word \in {"TUN", "GRE"} /\ r.method.upper = TRUE
    PROVE  ViewOf(e.id, e.settings) = Wanted(s, r, c, type)
<1> DEFINE w == Wanted(s, r, c, type)
           v == ViewOf(e.id, e.settings)
           word == IF r.method # Nil THEN r.method.word
                   ELSE IF s.method # Nil THEN s.method.word ELSE "TUN"
<1>1. /\ e.settings.type = e.id[3].type /\ e.settings.connectIP = e.id[3].connectIP
      /\ e.settings.bindIP = e.id[3].bindIP /\ e.settings.virtualhost = e.id[3].virtualhost
      /\ e.settings.delayLoop = e.id[3].delayLoop /\ e.settings.retries = e.id[3].retries
      /\ e.settings.retryDelay = e.id[3].retryDelay /\ e.settings.real = e.id[2][1]
    BY EntryFields
<1>2. /\ e.id[1][1].addr = s.vip.addr /\ e.id[2][1].addr = r.ip.addr
      /\ e.id[3].type = type /\ e.id[3].connectIP.addr = c.connectIP.addr
      /\ e.id[3].bindIP.addr = c.bindIP.addr
      /\ e.id[3].virtualhost = Innermost(<<c, r, s>>, "virtualhost", Nil)
      /\ e.id[3].delayLoop \div 10 = Innermost(<<c, r, s>>, "delayLoop", 600) \div 10
      /\ e.id[3].retries = Innermost(<<c, r, s>>, "retries", 1)
      /\ e.id[3].retryDelay \div 10 = Innermost(<<c, r, s>>, "retryDelay", 30) \div 10
      /\ e.method = MethodOf(s, r)
  <2>1. KeySays(e, s, r, c, type)
    BY EntryKey
  <2> QED
    BY <2>1 DEF KeySays
<1>3. word \in {"TUN", "GRE"} /\ e.method = [word |-> word, upper |-> TRUE]
  <2>1. CASE r.method # Nil
    <3>1. IsWord(r.method) /\ r.method.upper = TRUE
      BY <2>1 DEF IsReal
    <3>2. r.method = [word |-> r.method.word, upper |-> TRUE]
      BY <3>1, Zenon DEF IsWord
    <3> QED
      BY <1>2, <2>1, <3>2 DEF MethodOf
  <2>2. CASE r.method = Nil /\ s.method # Nil
    <3>1. IsWord(s.method)
      BY <2>2 DEF IsService
    <3>2. ToUpper(s.method) = [word |-> s.method.word, upper |-> TRUE]
      BY <3>1, UpperWord, Zenon
    <3> QED
      BY <1>2, <2>2, <3>2 DEF MethodOf
  <2>3. CASE r.method = Nil /\ s.method = Nil
    BY <1>2, <2>3 DEF MethodOf
  <2> QED
    BY <2>1, <2>2, <2>3
<1>4. e.settings.tunnel = word
  <2>1. e.settings.tunnel = (IF e.method = [word |-> "GRE", upper |-> TRUE] THEN "GRE" ELSE "TUN")
    BY EntryFields
  <2> HIDE DEF word
  <2>2. CASE word = "GRE"
    <3>1. e.method = [word |-> "GRE", upper |-> TRUE]
      BY <1>3, <2>2, Zenon
    <3> QED
      BY <2>1, <2>2, <3>1, Zenon
  <2>3. CASE word = "TUN"
    <3>1. e.method.word = "TUN" /\ [word |-> "GRE", upper |-> TRUE].word = "GRE"
      BY <1>3, <2>3
    <3>2. e.method # [word |-> "GRE", upper |-> TRUE]
      BY <3>1
    <3> QED
      BY <2>1, <2>3, <3>2, Zenon
  <2> QED
    BY <1>3, <2>2, <2>3
<1>5. w = [type |-> type, connectIP |-> c.connectIP.addr, bindIP |-> c.bindIP.addr,
           virtualhost |-> Innermost(<<c, r, s>>, "virtualhost", Nil),
           delayLoop |-> Innermost(<<c, r, s>>, "delayLoop", 600) \div 10,
           retries |-> Innermost(<<c, r, s>>, "retries", 1),
           retryDelay |-> Innermost(<<c, r, s>>, "retryDelay", 30) \div 10,
           tunnel |-> word, real |-> r.ip.addr, service |-> s.vip.addr]
    BY Zenon DEF Wanted
<1> HIDE DEF word, w
<1> QED
    BY <1>1, <1>2, <1>4, <1>5 DEF ViewOf, w

-----------------------------------------------------------------------------
(* The invariant.                                                            *)

(* Keys hold canonical spellings.                                            *)
LEMMA CanonicalKeys ==
    ASSUME Understood, NEW f \in Files, ConfigOf(f) # Invalid, NEW e \in Entries(ConfigOf(f))
    PROVE  ~e.id[1][1].mapped /\ e.id[1][3].upper /\ ~e.id[2][1].mapped
<1>1. PICK p \in Places(ConfigOf(f)) : e = EntryAt(ConfigOf(f), p)
    BY EntriesAt
<1> DEFINE o == OriginOf(f, p)
           s == Meant[f][o[1]]
           r == s.reals[o[2]]
           c == r.checkers[o[3]][o[4]]
<1>2. IsService(s) /\ IsReal(r) /\ IsChecker(c) /\ ComesFrom(e, s, r, c, o[3])
    BY <1>1, EntryWritten
<1> HIDE DEF o, s, r, c
<1>3. KeySays(e, s, r, c, o[3])
    BY <1>2, EntryKey
<1> QED
    BY <1>3 DEF KeySays

(* Before the first reload nothing is configured.                            *)
LEMMA NothingConfigured ==
    ConfigOf(NoFile) = <<>> /\ Known(ConfigOf(NoFile)) = {} /\ Dumped(ConfigOf(NoFile)) = <<>>
<1>1. ConfigOf(NoFile) = <<>>
    BY DEF ConfigOf
<1>2. Places(<<>>) = {} /\ Known(<<>>) = {}
    BY DEF Places, Known
<1>3. Dumped(<<>>) = <<>>
    BY DEF Dumped, ForEach
<1> QED
    BY <1>1, <1>2, <1>3

(* Initially no checker runs, and nothing is dumped.                         *)
LEMMA InitReconfiguration ==
    Init => ReconfigurationInv
<1> SUFFICES ASSUME Init PROVE ReconfigurationInv
    OBVIOUS
<1>1. TypeOK
  <2>1. DOMAIN checkers = {} /\ orphans = {}
    BY DEF Init
  <2>2. DOMAIN request = Requests /\ \A r \in Requests : request[r] = Idle
    BY DEF Init
  <2>3. file \in Files /\ applied = NoFile /\ raced \in BOOLEAN
    BY DEF Init
  <2> QED
    BY <2>1, <2>2, <2>3 DEF TypeOK
<1>2. RunsEntries
    BY NothingConfigured DEF Init, RunsEntries
<1>3. DumpInv
  <2>1. dump = Dumped(ConfigOf(applied)) /\ \A r \in Requests : request[r].at = "idle"
    BY NothingConfigured DEF Init, Idle
  <2> QED
    BY <2>1 DEF DumpInv
<1> QED
    BY <1>1, <1>2, <1>3 DEF Init, ReconfigurationInv

(* A checker that goes on runs with the settings for its key.                *)
LEMMA GoesOn ==
    ASSUME NEW old, NEW new, NEW x, NEW a \in Entries(old), NEW b \in Entries(new),
           SameButTimeouts(x, a), a.id = b.id, x.method = b.method
    PROVE  SameButTimeouts(x, b)
<1>1. a.method = b.method
    BY DEF SameButTimeouts
<1>2. SameButTimeouts(a, b)
    BY <1>1, KeySettles
<1>3. DOMAIN a.settings = DOMAIN b.settings
    BY EntryFields
<1> QED
    BY <1>2, <1>3 DEF SameButTimeouts

(* What runs for a place has the settings there, but for the timeouts.        *)
LEMMA RunningAt ==
    ASSUME RunsEntries, NEW config, NEW p \in Places(config)
    PROVE  SameButTimeouts(Running(config, p), EntryAt(config, p))
<1> DEFINE new == EntryAt(config, p)
           goesOn == /\ IsFirst(config, p)
                     /\ new.id \in DOMAIN checkers /\ checkers[new.id].method = new.method
<1>1. Running(config, p) = IF goesOn THEN checkers[new.id] ELSE new
    BY DEF Running
<1>2. new \in Entries(config)
    BY EntriesAt
<1> HIDE DEF new
<1>3. CASE goesOn
  <2>1. PICK q \in Known(ConfigOf(applied)) :
            /\ IdAt(ConfigOf(applied), q) = new.id
            /\ SameButTimeouts(checkers[new.id], EntryAt(ConfigOf(applied), q))
    BY <1>3 DEF RunsEntries
  <2> DEFINE a == EntryAt(ConfigOf(applied), q)
  <2>2. a \in Entries(ConfigOf(applied))
    BY EntriesAt DEF Known
  <2>3. a.id = new.id
    BY <2>1 DEF EntryAt
  <2>4. SameButTimeouts(checkers[new.id], a)
    BY <2>1
  <2> HIDE DEF a
  <2>5. SameButTimeouts(checkers[new.id], new)
    BY <1>2, <1>3, <2>2, <2>3, <2>4, GoesOn
  <2> QED
    BY <1>1, <1>3, <2>5 DEF new
<1>4. CASE ~goesOn
  <2>1. SameButTimeouts(new, new)
    BY DEF SameButTimeouts
  <2> QED
    BY <1>1, <1>4, <2>1 DEF new
<1> QED
    BY <1>3, <1>4

(* The reload leaves in its maps the checkers of the last entries.            *)
LEMMA ReloadRuns ==
    ASSUME RunsEntries, NEW config
    PROVE  LET c == ReloadedCheckers(config)
           IN  /\ DOMAIN c = {IdAt(config, p) : p \in Known(config)}
               /\ \A id \in DOMAIN c :
                     \E p \in Known(config) :
                        IdAt(config, p) = id /\ SameButTimeouts(c[id], EntryAt(config, p))
<1> DEFINE place(id) == CHOOSE p \in Known(config) : IdAt(config, p) = id
           c == ReloadedCheckers(config)
<1>1. c = [id \in {IdAt(config, p) : p \in Known(config)} |-> Running(config, place(id))]
    BY DEF ReloadedCheckers
<1> HIDE DEF c
<1>2. DOMAIN c = {IdAt(config, p) : p \in Known(config)}
    BY <1>1
<1>3. ASSUME NEW id \in DOMAIN c
      PROVE  \E p \in Known(config) :
                IdAt(config, p) = id /\ SameButTimeouts(c[id], EntryAt(config, p))
  <2>1. place(id) \in Known(config) /\ IdAt(config, place(id)) = id
    BY <1>2
  <2>2. c[id] = Running(config, place(id))
    BY <1>1, <1>2
  <2> HIDE DEF place
  <2>3. SameButTimeouts(Running(config, place(id)), EntryAt(config, place(id)))
    BY <2>1, RunningAt DEF Known
  <2> QED
    BY <2>1, <2>2, <2>3
<1> QED
    BY <1>2, <1>3 DEF c

(* What it loses had a place in the file.                                     *)
LEMMA LostEntries ==
    ASSUME RunsEntries, NEW config, NEW e \in Lost(config)
    PROVE  \E p \in Places(config) : e.id = EntryAt(config, p).id
<1>1. PICK p \in Places(config) : e = Running(config, p)
    BY DEF Lost
<1>2. SameButTimeouts(e, EntryAt(config, p))
    BY <1>1, RunningAt
<1> QED
    BY <1>2 DEF SameButTimeouts

(* Manager.Reload loads and prepares the file as it is.                      *)
LEMMA LoadKeeps ==
    ASSUME ReconfigurationInv, NEW r \in Requests, Load(r)
    PROVE  ReconfigurationInv'
<1> DEFINE q == [at |-> "apply", file |-> file, config |-> ConfigOf(file)]
<1>1. /\ request' = [request EXCEPT ![r] = q] /\ ConfigOf(file) # Invalid /\ request[r] = Idle
      /\ UNCHANGED <<file, applied, groups, checkers, orphans, dump, raced>>
    BY DEF Load
<1>2. DOMAIN request = Requests /\ file \in Files
    BY DEF ReconfigurationInv, TypeOK
<1>3. q.at = "apply" /\ q.file = file /\ q.config = ConfigOf(file) /\ request[r].at = "idle"
    BY <1>1 DEF Idle
<1> HIDE DEF q
<1>4. /\ DOMAIN request' = Requests /\ request'[r] = q
      /\ \A p \in Requests \ {r} : request'[p] = request[p]
    BY <1>1, <1>2
<1>5. TypeOK'
  <2>1. \A p \in Requests :
           \/ request'[p] = Idle
           \/ /\ request'[p].at \in {"apply", "dump"} /\ request'[p].file \in Files
              /\ request'[p].config = ConfigOf(request'[p].file) /\ request'[p].config # Invalid
    BY <1>1, <1>2, <1>3, <1>4 DEF ReconfigurationInv, TypeOK
  <2> QED
    BY <1>1, <1>4, <2>1 DEF ReconfigurationInv, TypeOK
<1>6. RunsEntries'
    BY <1>1 DEF ReconfigurationInv, RunsEntries
<1>7. DumpInv'
  <2>1. \A p \in Requests : (request'[p].at = "dump" <=> request[p].at = "dump")
                            /\ (request'[p].at = "dump" => request'[p].file = request[p].file)
    BY <1>3, <1>4
  <2> QED
    BY <1>1, <2>1 DEF ReconfigurationInv, DumpInv
<1> QED
    BY <1>1, <1>5, <1>6, <1>7 DEF ReconfigurationInv

(* A request that ends leaves the others as they are.                        *)
LEMMA EndsIdle ==
    ASSUME TypeOK, NEW r \in Requests, request' = [request EXCEPT ![r] = Idle],
           UNCHANGED <<file, applied, checkers, orphans>>, raced' \in BOOLEAN
    PROVE  TypeOK' /\ request'[r].at = "idle" /\ \A p \in Requests \ {r} : request'[p] = request[p]
<1>1. DOMAIN request = Requests
    BY DEF TypeOK
<1>2. /\ DOMAIN request' = Requests /\ request'[r] = Idle
      /\ \A p \in Requests \ {r} : request'[p] = request[p]
    BY <1>1
<1>3. \A p \in Requests :
         \/ request'[p] = Idle
         \/ /\ request'[p].at \in {"apply", "dump"} /\ request'[p].file \in Files
            /\ request'[p].config = ConfigOf(request'[p].file) /\ request'[p].config # Invalid
    BY <1>2 DEF TypeOK
<1>4. TypeOK'
    BY <1>2, <1>3 DEF TypeOK
<1> QED
    BY <1>2, <1>4 DEF Idle

(* Config.Dump writes what its request has applied.                          *)
LEMMA DumpKeeps ==
    ASSUME ReconfigurationInv, NEW r \in Requests, Dump(r)
    PROVE  ReconfigurationInv'
<1>1. /\ request[r].at = "dump" /\ request' = [request EXCEPT ![r] = Idle]
      /\ dump' = Dumped(request[r].config)
      /\ UNCHANGED <<file, applied, groups, checkers, orphans, raced>>
    BY DEF Dump
<1>2. TypeOK /\ raced \in BOOLEAN
    BY DEF ReconfigurationInv, TypeOK
<1>3. TypeOK' /\ request'[r].at = "idle" /\ \A p \in Requests \ {r} : request'[p] = request[p]
    BY <1>1, <1>2, EndsIdle
<1>4. RunsEntries'
    BY <1>1 DEF ReconfigurationInv, RunsEntries
<1>5. DumpInv'
  <2> SUFFICES ASSUME ~raced
               PROVE  /\ \A p \in Requests : request'[p].at # "dump"
                      /\ dump' = Dumped(ConfigOf(applied))
    BY <1>1 DEF DumpInv
  <2>1. \A p \in Requests : request'[p].at # "dump"
    BY <1>1, <1>3 DEF ReconfigurationInv, DumpInv
  <2>2. request[r].file = applied
    BY <1>1 DEF ReconfigurationInv, DumpInv
  <2>3. request[r].config = ConfigOf(request[r].file)
    BY <1>1, <1>2 DEF TypeOK, Idle
  <2> QED
    BY <1>1, <2>1, <2>2, <2>3
<1> QED
    BY <1>1, <1>3, <1>4, <1>5 DEF ReconfigurationInv

(* A dump that fails is a race.                                              *)
LEMMA DumpFailsKeeps ==
    ASSUME ReconfigurationInv, NEW r \in Requests, DumpFails(r)
    PROVE  ReconfigurationInv'
<1>1. /\ request' = [request EXCEPT ![r] = Idle] /\ raced' = TRUE
      /\ UNCHANGED <<file, applied, groups, checkers, orphans, dump>>
    BY DEF DumpFails
<1>2. TypeOK'
    BY <1>1, EndsIdle DEF ReconfigurationInv
<1>3. RunsEntries'
    BY <1>1 DEF ReconfigurationInv, RunsEntries
<1>4. DumpInv'
    BY <1>1 DEF DumpInv
<1> QED
    BY <1>1, <1>2, <1>3, <1>4 DEF ReconfigurationInv

(* Core.Reload: the checkers of the file run, and its dump is due.            *)
LEMMA ApplyKeeps ==
    ASSUME Understood, ReconfigurationInv, NEW r \in Requests, Apply(r)
    PROVE  ReconfigurationInv'
<1> DEFINE q == request[r]
<1>0. TypeOK /\ RunsEntries /\ DumpInv
    BY DEF ReconfigurationInv
<1>1. q.at = "apply" /\ q.file \in Files /\ q.config = ConfigOf(q.file) /\ q.config # Invalid
  <2>1. q.at = "apply"
    BY DEF Apply
  <2>2. q # Idle
    BY <2>1 DEF Idle
  <2> QED
    BY <1>0, <2>1, <2>2 DEF TypeOK
<1>2. CASE Acceptable(GroupsOf(q.config))
  <2>1. /\ checkers' = ReloadedCheckers(q.config) /\ applied' = q.file
        /\ orphans' = orphans \cup Lost(q.config)
        /\ raced' = (raced \/ \E p \in Requests : request[p].at = "dump")
        /\ request' = [request EXCEPT ![r].at = "dump"]
        /\ UNCHANGED <<file, dump>>
    BY <1>2 DEF Apply
  <2>2. DOMAIN request = Requests
    BY <1>0 DEF TypeOK
  <2>3. /\ DOMAIN request' = Requests /\ request'[r].at = "dump"
        /\ request'[r].file = q.file /\ request'[r].config = q.config
        /\ \A p \in Requests \ {r} : request'[p] = request[p]
    BY <2>1, <2>2
  <2>4. /\ DOMAIN checkers' = {IdAt(q.config, p) : p \in Known(q.config)}
        /\ \A id \in DOMAIN checkers' :
              \E p \in Known(q.config) :
                 IdAt(q.config, p) = id /\ SameButTimeouts(checkers'[id], EntryAt(q.config, p))
    BY <1>0, <2>1, ReloadRuns
  <2>5. RunsEntries'
    BY <1>1, <2>1, <2>4 DEF RunsEntries
  <2>6. TypeOK'
    <3>1. \A p \in Requests :
             \/ request'[p] = Idle
             \/ /\ request'[p].at \in {"apply", "dump"} /\ request'[p].file \in Files
                /\ request'[p].config = ConfigOf(request'[p].file) /\ request'[p].config # Invalid
      BY <1>0, <1>1, <2>3 DEF TypeOK
    <3>2. \A id \in DOMAIN checkers' : ~id[1][1].mapped /\ id[1][3].upper /\ ~id[2][1].mapped
      <4>1. \A p \in Known(q.config) :
               EntryAt(q.config, p) \in Entries(q.config) /\ EntryAt(q.config, p).id = IdAt(q.config, p)
        BY EntriesAt DEF Known, EntryAt
      <4> QED
        BY <1>1, <2>4, <4>1, CanonicalKeys
    <3>3. \A e \in orphans' : ~e.id[1][1].mapped /\ e.id[1][3].upper /\ ~e.id[2][1].mapped
      <4>1. ASSUME NEW e \in Lost(q.config)
            PROVE  ~e.id[1][1].mapped /\ e.id[1][3].upper /\ ~e.id[2][1].mapped
        <5>1. PICK p \in Places(q.config) : e.id = EntryAt(q.config, p).id
          BY <1>0, LostEntries
        <5>2. EntryAt(q.config, p) \in Entries(q.config)
          BY EntriesAt
        <5> QED
          BY <1>1, <5>1, <5>2, CanonicalKeys
      <4> QED
        BY <1>0, <2>1, <4>1 DEF TypeOK
    <3>4. raced' \in BOOLEAN
      BY <1>0, <2>1 DEF TypeOK
    <3> QED
      BY <1>0, <1>1, <2>1, <2>3, <3>1, <3>2, <3>3, <3>4 DEF TypeOK
  <2>7. DumpInv'
    <3> SUFFICES ASSUME ~raced'
                 PROVE  /\ \A p \in Requests : request'[p].at = "dump" => p = r
                        /\ request'[r].file = applied'
      BY <2>3 DEF DumpInv
    <3>1. \A p \in Requests : request[p].at # "dump"
      BY <2>1
    <3> QED
      BY <2>1, <2>3, <3>1
  <2>8. applied' # NoFile => ConfigOf(applied)' # Invalid
    BY <1>1, <2>1
  <2> QED
    BY <2>5, <2>6, <2>7, <2>8 DEF ReconfigurationInv
<1>3. CASE ~Acceptable(GroupsOf(q.config))
  <2>1. /\ request' = [request EXCEPT ![r] = Idle]
        /\ UNCHANGED <<file, applied, groups, checkers, orphans, dump, raced>>
    BY <1>3 DEF Apply
  <2>2. TypeOK' /\ request'[r].at = "idle" /\ \A p \in Requests \ {r} : request'[p] = request[p]
    <3>1. raced' \in BOOLEAN
      BY <1>0, <2>1 DEF TypeOK
    <3> QED
      BY <1>0, <2>1, <3>1, EndsIdle
  <2>3. RunsEntries'
    BY <1>0, <2>1 DEF RunsEntries
  <2>4. DumpInv'
    <3>1. \A p \in Requests : (request'[p].at = "dump" <=> request[p].at = "dump")
                              /\ (request'[p].at = "dump" => request'[p].file = request[p].file)
      BY <1>1, <2>2
    <3> QED
      BY <1>0, <2>1, <3>1 DEF DumpInv
  <2> QED
    BY <2>1, <2>2, <2>3, <2>4 DEF ReconfigurationInv
<1> QED
    BY <1>2, <1>3

(* However many requests come, and however often the file changes under them, *)
(* the maps of the core lead to the checkers of what it applied last, for each *)
(* key to that of the last entry with it, running with the settings the key     *)
(* stands for, and without a race the dump due is that of the same file         *)
(* (Manager.Reload, Core.Reload, Service.Reload, Real.Reload, Config.Dump).     *)
(* What runs besides is the subject of NoOrphansTheorem.                        *)
THEOREM ReconfigurationInvariant ==
    ASSUME Understood
    PROVE  Spec => []ReconfigurationInv
<1>1. ReconfigurationInv /\ [Next]_vars => ReconfigurationInv'
  <2> SUFFICES ASSUME ReconfigurationInv, [Next]_vars PROVE ReconfigurationInv'
    OBVIOUS
  <2>1. CASE Edit
    <3>1. file' \in Files /\ UNCHANGED <<request, applied, groups, checkers, orphans, dump, raced>>
      BY <2>1 DEF Edit
    <3> QED
      BY <3>1 DEF ReconfigurationInv, TypeOK, RunsEntries, DumpInv
  <2>2. ASSUME NEW r \in Requests, Load(r) PROVE ReconfigurationInv'
    BY <2>2, LoadKeeps
  <2>3. ASSUME NEW r \in Requests, Apply(r) PROVE ReconfigurationInv'
    BY <2>3, ApplyKeeps
  <2>4. ASSUME NEW r \in Requests, Dump(r) PROVE ReconfigurationInv'
    BY <2>4, DumpKeeps
  <2>5. ASSUME NEW r \in Requests, DumpFails(r) PROVE ReconfigurationInv'
    BY <2>5, DumpFailsKeeps
  <2>6. CASE UNCHANGED vars
    BY <2>6 DEF vars, ReconfigurationInv, TypeOK, RunsEntries, DumpInv
  <2> QED
    BY <2>1, <2>2, <2>3, <2>4, <2>5, <2>6 DEF Next
<1> QED
    BY <1>1, InitReconfiguration, PTL DEF Spec

-----------------------------------------------------------------------------
(* What follows from it.                                                     *)

(* An accepted file has as many services as it says.                         *)
LEMMA LoadedList ==
    ASSUME Understood, NEW f \in Files, ConfigOf(f) # Invalid
    PROVE  IsList(ConfigOf(f)) /\ Len(ConfigOf(f)) = Len(Meant[f])
<1> DEFINE C == ConfigOf(f)
           n == Len(Meant[f])
<1>1. n \in Nat /\ DOMAIN C = 1..n
    BY LoadedService
<1>2. C = [i \in DOMAIN C |-> C[i]]
    BY PreparedConfig DEF ValidateAnnounceGroups, ForEach
<1> HIDE DEF C, n
<1>3. C = [i \in 1..n |-> C[i]]
    BY <1>1, <1>2
<1> QED
    BY <1>1, <1>3, ListOf DEF C, n

(* An accepted file names one group for a prefix, a group its services name.  *)
LEMMA GroupsSettled ==
    ASSUME Understood, NEW f \in Files, ConfigOf(f) # Invalid
    PROVE  LET config == ConfigOf(f)
               meant == Meant[f]
           IN  /\ \A p, q \in GroupsOf(config) : p[2] = q[2] => p[3] = q[3]
               /\ \A i \in 1..Len(config) :
                     config[i].group # NoGroup =>
                       \E j \in 1..i : /\ meant[j].vip.addr = config[i].vip.addr
                                       /\ \/ meant[j].group = config[i].group
                                          \/ /\ meant[j].group = NoGroup
                                             /\ AnnounceGroupFromQuorumScript(meant[j].quorumUp)
                                                    = config[i].group
<1> DEFINE C == ConfigOf(f)
           M == Meant[f]
           n == Len(M)
           first(vip) == FirstOf(Written(f), vip)
<1>1. n \in Nat /\ DOMAIN C = 1..n /\ Len(C) = n
    BY LoadedService, LoadedList
<1>2. \A i \in 1..n :
         /\ IsService(M[i])
         /\ C[i].group # NoGroup =>
              /\ first(C[i].vip) \in 1..i /\ Unmap(M[first(C[i].vip)].vip) = C[i].vip
              /\ C[i].group = Outer(M[first(C[i].vip)]).group
    BY LoadedService
<1> HIDE DEF C, M, n, first
<1>3. ASSUME NEW p \in GroupsOf(C), NEW q \in GroupsOf(C), p[2] = q[2]
      PROVE  p[3] = q[3]
  <2>1. \A x \in GroupsOf(C) : \E i \in 1..n : C[i].group # NoGroup /\ x[2] = C[i].vip /\ x[3] = C[i].group
    BY <1>1 DEF GroupsOf, ToSet
  <2>2. PICK i \in 1..n : C[i].group # NoGroup /\ p[2] = C[i].vip /\ p[3] = C[i].group
    BY <2>1
  <2>3. PICK j \in 1..n : C[j].group # NoGroup /\ q[2] = C[j].vip /\ q[3] = C[j].group
    BY <2>1
  <2> QED
    BY <1>2, <1>3, <2>2, <2>3
<1>4. ASSUME NEW i \in 1..Len(C), C[i].group # NoGroup
      PROVE  \E j \in 1..i : /\ M[j].vip.addr = C[i].vip.addr
                             /\ \/ M[j].group = C[i].group
                                \/ /\ M[j].group = NoGroup
                                   /\ AnnounceGroupFromQuorumScript(M[j].quorumUp) = C[i].group
  <2> DEFINE j == first(C[i].vip)
  <2>1. i \in 1..n /\ j \in 1..i /\ Unmap(M[j].vip) = C[i].vip /\ C[i].group = Outer(M[j]).group
    BY <1>1, <1>2, <1>4
  <2> HIDE DEF j
  <2>2. j \in 1..n
    BY <1>1, <2>1
  <2>3. IsService(M[j]) /\ IsAddr(M[j].vip)
    BY <1>2, <2>2 DEF IsService
  <2>4. Unmap(M[j].vip).addr = M[j].vip.addr
    BY <2>3, Spellings
  <2>5. Outer(M[j]).group = IF M[j].group = NoGroup
                            THEN AnnounceGroupFromQuorumScript(M[j].quorumUp) ELSE M[j].group
    BY <2>3, OuterFields
  <2> QED
    BY <2>1, <2>4, <2>5
<1> QED
    BY <1>3, <1>4 DEF C, M

(* Whatever groups the services of a file name, what Prepare hands to the     *)
(* announcer names one group for a prefix, one that an earlier service of the *)
(* prefix names (validateAnnounceGroups, announceGroupFromQuorumScript).       *)
THEOREM OneGroupPerPrefixTheorem ==
    ASSUME Understood
    PROVE  Spec => []OneGroupPerPrefix
<1>1. ReconfigurationInv => OneGroupPerPrefix
  <2> SUFFICES ASSUME ReconfigurationInv, NEW r \in Requests, request[r].at = "apply"
               PROVE  LET config == request[r].config
                          meant == Meant[request[r].file]
                      IN  /\ \A p, q \in GroupsOf(config) : p[2] = q[2] => p[3] = q[3]
                          /\ \A i \in 1..Len(config) :
                                config[i].group # NoGroup =>
                                  \E j \in 1..i :
                                     /\ meant[j].vip.addr = config[i].vip.addr
                                     /\ \/ meant[j].group = config[i].group
                                        \/ /\ meant[j].group = NoGroup
                                           /\ AnnounceGroupFromQuorumScript(meant[j].quorumUp)
                                                  = config[i].group
    BY DEF OneGroupPerPrefix
  <2>1. request[r] # Idle
    BY DEF Idle
  <2>2. /\ request[r].file \in Files /\ request[r].config = ConfigOf(request[r].file)
        /\ request[r].config # Invalid
    BY <2>1 DEF ReconfigurationInv, TypeOK
  <2> DEFINE f == request[r].file
  <2>3. f \in Files /\ ConfigOf(f) # Invalid /\ request[r].config = ConfigOf(f)
    BY <2>2
  <2> HIDE DEF f
  <2>4. LET config == ConfigOf(f)
            meant == Meant[f]
        IN  /\ \A p, q \in GroupsOf(config) : p[2] = q[2] => p[3] = q[3]
            /\ \A i \in 1..Len(config) :
                  config[i].group # NoGroup =>
                    \E j \in 1..i : /\ meant[j].vip.addr = config[i].vip.addr
                                    /\ \/ meant[j].group = config[i].group
                                       \/ /\ meant[j].group = NoGroup
                                          /\ AnnounceGroupFromQuorumScript(meant[j].quorumUp)
                                                 = config[i].group
    BY <2>3, GroupsSettled
  <2> QED
    BY <2>3, <2>4 DEF f
<1> QED
    BY <1>1, ReconfigurationInvariant, PTL

(* Where no file asks twice for a checker, no two places have one key.        *)
LEMMA OnePlace ==
    ASSUME Understood, DistinctEntries, NEW f \in Files, ConfigOf(f) # Invalid,
           NEW p \in Places(ConfigOf(f)), NEW q \in Places(ConfigOf(f)),
           IdAt(ConfigOf(f), p) = IdAt(ConfigOf(f), q)
    PROVE  p = q
<1> DEFINE o == OriginOf(f, p)
           s == Meant[f][o[1]]
           r == s.reals[o[2]]
           c == r.checkers[o[3]][o[4]]
           e == EntryAt(ConfigOf(f), p)
           o2 == OriginOf(f, q)
           s2 == Meant[f][o2[1]]
           r2 == s2.reals[o2[2]]
           c2 == r2.checkers[o2[3]][o2[4]]
           e2 == EntryAt(ConfigOf(f), q)
<1>1. /\ o \in WrittenPlaces(Meant[f]) /\ IsService(s) /\ IsReal(r) /\ IsChecker(c)
      /\ ComesFrom(e, s, r, c, o[3])
    BY EntryWritten
<1>2. /\ o2 \in WrittenPlaces(Meant[f]) /\ IsService(s2) /\ IsReal(r2) /\ IsChecker(c2)
      /\ ComesFrom(e2, s2, r2, c2, o2[3])
    BY EntryWritten
<1>3. e.id = e2.id
    BY DEF EntryAt
<1>4. /\ WrittenAt(Meant[f], o) = Told(s, r, c, o[3])
      /\ WrittenAt(Meant[f], o2) = Told(s2, r2, c2, o2[3])
    BY Zenon DEF WrittenAt, Told
<1> HIDE DEF o, s, r, c, e, o2, s2, r2, c2, e2
<1>5. Told(s, r, c, o[3]) = Told(s2, r2, c2, o2[3])
    BY <1>1, <1>2, <1>3, SameWritten
<1>6. WrittenAt(Meant[f], o) = WrittenAt(Meant[f], o2)
    BY <1>4, <1>5, Zenon
<1>7. o = o2
    BY <1>1, <1>2, <1>6, Zenon DEF DistinctEntries
<1> QED
    BY <1>7, OriginInjective DEF o, o2

(* Where no file repeats a service, no two have one key.                      *)
LEMMA OneService ==
    ASSUME Understood, DistinctEntries, NEW f \in Files, ConfigOf(f) # Invalid,
           NEW i \in DOMAIN ConfigOf(f), NEW j \in DOMAIN ConfigOf(f),
           ServiceKey(ConfigOf(f)[i]) = ServiceKey(ConfigOf(f)[j])
    PROVE  i = j /\ i \in Nat
<1> DEFINE C == ConfigOf(f)
           M == Meant[f]
<1>1. /\ Len(M) \in Nat /\ DOMAIN M = 1..Len(M) /\ DOMAIN C = 1..Len(M)
      /\ \A n \in 1..Len(M) : /\ IsService(M[n]) /\ C[n].vip = Unmap(M[n].vip)
                              /\ C[n].port = M[n].port /\ C[n].protocol = ToUpper(M[n].protocol)
    BY LoadedService
<1>2. \A n \in 1..Len(M) : IsAddr(M[n].vip) /\ IsWord(M[n].protocol)
    BY <1>1 DEF IsService
<1>3. i \in 1..Len(M) /\ j \in 1..Len(M)
    BY <1>1
<1>4. C[i].vip = C[j].vip /\ C[i].port = C[j].port /\ C[i].protocol = C[j].protocol
    BY DEF ServiceKey
<1> HIDE DEF C, M
<1>5. /\ C[i].vip.addr = M[i].vip.addr /\ C[j].vip.addr = M[j].vip.addr
      /\ C[i].protocol.word = M[i].protocol.word /\ C[j].protocol.word = M[j].protocol.word
    BY <1>1, <1>2, <1>3, Spellings
<1>6. M[i].vip.addr = M[j].vip.addr /\ M[i].port = M[j].port /\ M[i].protocol.word = M[j].protocol.word
    BY <1>1, <1>3, <1>4, <1>5
<1>7. i = j
    BY <1>1, <1>3, <1>6, Zenon DEF DistinctEntries, M
<1> QED
    BY <1>1, <1>3, <1>7

(* The reals of a service.                                                   *)
LEMMA OneReal ==
    ASSUME Understood, DistinctEntries, NEW f \in Files, ConfigOf(f) # Invalid,
           NEW n \in DOMAIN ConfigOf(f),
           NEW i \in DOMAIN ConfigOf(f)[n].reals, NEW j \in DOMAIN ConfigOf(f)[n].reals,
           RealKey(ConfigOf(f)[n].reals[i]) = RealKey(ConfigOf(f)[n].reals[j])
    PROVE  i = j /\ i \in Nat
<1> DEFINE C == ConfigOf(f)[n].reals
           s == Meant[f][n]
           M == s.reals
<1>1. n \in 1..Len(Meant[f]) /\ IsService(s) /\ DOMAIN Meant[f] = 1..Len(Meant[f])
    BY LoadedService
<1>2. /\ DOMAIN C = DOMAIN M
      /\ \A m \in DOMAIN M : IsReal(M[m]) /\ C[m] = PrepareReal(M[m], Outer(s))
    BY <1>1, LoadedReal
<1>3. s \in ToSet(Meant[f])
    BY <1>1 DEF ToSet
<1>4. IsList(M)
    BY <1>1 DEF IsService
<1>5. C[i].ip = C[j].ip /\ C[i].port = C[j].port
    BY DEF RealKey
<1>6. i \in DOMAIN M /\ j \in DOMAIN M
    BY <1>2
<1> HIDE DEF C, s
<1>7. \A m \in DOMAIN M : C[m].ip = Unmap(M[m].ip) /\ C[m].port = M[m].port
    BY <1>1, <1>2, PreparedReal
<1>8. \A m \in DOMAIN M : Unmap(M[m].ip).addr = M[m].ip.addr
    BY <1>2, Spellings DEF IsReal
<1>9. M[i].ip.addr = M[j].ip.addr /\ M[i].port = M[j].port
    BY <1>5, <1>6, <1>7, <1>8
<1>10. i = j
    BY <1>3, <1>6, <1>9, Zenon DEF DistinctEntries
<1> QED
    BY <1>4, <1>6, <1>10, ListDomain

(* The checkers of a prepared real are a list.                                *)
LEMMA NumberedCheckers ==
    ASSUME NEW r, NEW o, IsReal(r)
    PROVE  DOMAIN PrepareReal(r, o).checkers \subseteq Nat
<1> DEFINE q == Inner(r, o)
<1>1. DOMAIN PrepareReal(r, o).checkers = DOMAIN Checkers(q)
    BY RealFields
<1>2. q.checkers = r.checkers
    BY InnerFields
<1> HIDE DEF q
<1>3. /\ IsList(q.checkers["TCP"]) /\ IsList(q.checkers["HTTP"])
      /\ IsList(q.checkers["HTTPS"]) /\ IsList(q.checkers["GRPC"])
    BY <1>2 DEF IsReal
<1>4. IsList(Checkers(q))
    BY <1>3, CheckersFields
<1> QED
    BY <1>1, <1>4, ListDomain DEF q

(* Where no file repeats an entry, the maps of a reload know all of them.     *)
LEMMA AllKnown ==
    ASSUME Understood, DistinctEntries, NEW f \in Files, ConfigOf(f) # Invalid
    PROVE  Known(ConfigOf(f)) = Places(ConfigOf(f))
<1> DEFINE C == ConfigOf(f)
<1> SUFFICES ASSUME NEW p \in Places(C) PROVE IsLast(C, p)
    BY DEF Known
<1>1. PICK i \in DOMAIN C : \E j \in DOMAIN C[i].reals :
             \E k \in DOMAIN C[i].reals[j].checkers : p = <<i, j, k>>
    BY PlaceOf
<1>2. PICK j \in DOMAIN C[i].reals : \E k \in DOMAIN C[i].reals[j].checkers : p = <<i, j, k>>
    BY <1>1
<1> DEFINE list == C[i].reals[j].checkers
<1>3. PICK k \in DOMAIN list : p = <<i, j, k>>
    BY <1>2
<1>4. p[1] = i /\ p[2] = j /\ p[3] = k
    BY <1>3
<1> DEFINE one == {n \in DOMAIN C : ServiceKey(C[n]) = ServiceKey(C[i])}
           two == {n \in DOMAIN C[i].reals : RealKey(C[i].reals[n]) = RealKey(C[i].reals[j])}
           three == {n \in DOMAIN list : CheckerKey(list[n]) = CheckerKey(list[k])}
<1>5. SameKey(C, p) = <<one, two, three>>
    BY <1>4 DEF SameKey
<1>6. \A n \in one : n <= i
  <2>1. \A n \in one : n = i /\ n \in Nat
    BY OneService
  <2> QED
    BY <2>1
<1>7. \A n \in two : n <= j
  <2>1. \A n \in two : n = j /\ n \in Nat
    BY OneReal
  <2> QED
    BY <2>1
<1>8. \A n \in three : n <= k
  <2> SUFFICES ASSUME NEW n \in three PROVE n <= k
    OBVIOUS
  <2>1. <<i, j, n>> \in Places(C)
    BY PlaceOf
  <2>2. IdAt(C, <<i, j, n>>) = IdAt(C, p)
    BY <1>4 DEF IdAt
  <2>3. <<i, j, n>> = <<i, j, k>>
    BY <1>3, <2>1, <2>2, OnePlace
  <2>4. n = k
    BY <2>3
  <2>5. n \in Nat
    <3>1. i \in 1..Len(Meant[f])
      BY LoadedService
    <3>2. /\ j \in DOMAIN Meant[f][i].reals /\ IsReal(Meant[f][i].reals[j])
          /\ C[i].reals[j] = PrepareReal(Meant[f][i].reals[j], Outer(Meant[f][i]))
      BY <3>1, LoadedReal
    <3>3. DOMAIN list \subseteq Nat
      BY <3>2, NumberedCheckers
    <3> QED
      BY <3>3
  <2> QED
    BY <2>4, <2>5
<1> HIDE DEF one, two, three, C, list
<1>9. \A level \in 1..3 : \A n \in SameKey(C, p)[level] : n <= p[level]
  <2> SUFFICES ASSUME NEW level \in 1..3, NEW n \in SameKey(C, p)[level] PROVE n <= p[level]
    OBVIOUS
  <2>1. CASE level = 1
    BY <1>4, <1>5, <1>6, <2>1
  <2>2. CASE level = 2
    BY <1>4, <1>5, <1>7, <2>2
  <2>3. CASE level = 3
    BY <1>4, <1>5, <1>8, <2>3
  <2> QED
    BY <2>1, <2>2, <2>3
<1> QED
    BY <1>9 DEF IsLast

(* No checker escapes the maps by which it is stopped, if no file has a        *)
(* service, a real of a service or a checker of a real twice (Config.Key, the   *)
(* maps of Core.Reload, Service.Reload and Real.Reload).                        *)
THEOREM NoOrphansTheorem ==
    ASSUME Understood, DistinctEntries
    PROVE  Spec => []NoOrphans
<1>1. Init => NoOrphans
    BY DEF Init, NoOrphans
<1>2. ReconfigurationInv /\ NoOrphans /\ [Next]_vars => NoOrphans'
  <2> SUFFICES ASSUME ReconfigurationInv, NoOrphans, [Next]_vars PROVE NoOrphans'
    OBVIOUS
  <2>1. ASSUME NEW r \in Requests, Apply(r) PROVE NoOrphans'
    <3>1. request[r] # Idle
      BY <2>1 DEF Apply, Idle
    <3> DEFINE f == request[r].file
    <3>2. f \in Files /\ request[r].config = ConfigOf(f) /\ ConfigOf(f) # Invalid
      BY <3>1 DEF ReconfigurationInv, TypeOK
    <3> HIDE DEF f
    <3>3. Lost(ConfigOf(f)) = {}
      BY <3>2, AllKnown DEF Lost
    <3>4. orphans' = orphans \cup Lost(request[r].config) \/ orphans' = orphans
      BY <2>1 DEF Apply
    <3> QED
      BY <3>2, <3>3, <3>4 DEF NoOrphans
  <2>2. CASE ~\E r \in Requests : Apply(r)
    <3>1. orphans' = orphans
      BY <2>2 DEF Next, vars, Edit, Load, Dump, DumpFails
    <3> QED
      BY <3>1 DEF NoOrphans
  <2> QED
    BY <2>1, <2>2
<1> QED
    BY <1>1, <1>2, ReconfigurationInvariant, PTL DEF Spec

(* What a file wants.                                                         *)
LEMMA WantedOf ==
    ASSUME NEW list, NEW w
    PROVE  w \in WantedCheckers(list) <=>
             \E o \in WrittenPlaces(list) :
                w = Wanted(list[o[1]], list[o[1]].reals[o[2]],
                           list[o[1]].reals[o[2]].checkers[o[3]][o[4]], o[3])
<1>1. w \in WantedCheckers(list) <=>
        \E s \in ToSet(list) : \E r \in ToSet(s.reals) : \E type \in DOMAIN r.checkers :
           \E c \in ToSet(r.checkers[type]) : w = Wanted(s, r, c, type)
    BY DEF WantedCheckers
<1>2. ASSUME NEW s \in ToSet(list), NEW r \in ToSet(s.reals), NEW type \in DOMAIN r.checkers,
             NEW c \in ToSet(r.checkers[type]), w = Wanted(s, r, c, type)
      PROVE  \E o \in WrittenPlaces(list) :
                w = Wanted(list[o[1]], list[o[1]].reals[o[2]],
                           list[o[1]].reals[o[2]].checkers[o[3]][o[4]], o[3])
  <2>1. PICK i \in DOMAIN list : s = list[i]
    BY DEF ToSet
  <2>2. PICK j \in DOMAIN s.reals : r = s.reals[j]
    BY DEF ToSet
  <2>3. PICK n \in DOMAIN r.checkers[type] : c = r.checkers[type][n]
    BY DEF ToSet
  <2> DEFINE o == <<i, j, type, n>>
  <2>4. o \in WrittenPlaces(list)
    BY <2>1, <2>2, <2>3, WrittenPlaceOf
  <2>5. o[1] = i /\ o[2] = j /\ o[3] = type /\ o[4] = n
    OBVIOUS
  <2> HIDE DEF o
  <2>6. w = Wanted(list[o[1]], list[o[1]].reals[o[2]],
                   list[o[1]].reals[o[2]].checkers[o[3]][o[4]], o[3])
    BY <1>2, <2>1, <2>2, <2>3, <2>5
  <2> QED
    BY <2>4, <2>6
<1>3. ASSUME NEW o \in WrittenPlaces(list),
             w = Wanted(list[o[1]], list[o[1]].reals[o[2]],
                        list[o[1]].reals[o[2]].checkers[o[3]][o[4]], o[3])
      PROVE  w \in WantedCheckers(list)
  <2> DEFINE s == list[o[1]]
             r == s.reals[o[2]]
             type == o[3]
             c == r.checkers[type][o[4]]
  <2>1. /\ o[1] \in DOMAIN list /\ o[2] \in DOMAIN s.reals /\ o[3] \in DOMAIN r.checkers
        /\ o[4] \in DOMAIN r.checkers[type]
    BY WrittenPlaceOf
  <2>2. /\ s \in ToSet(list) /\ r \in ToSet(s.reals) /\ type \in DOMAIN r.checkers
        /\ c \in ToSet(r.checkers[type])
    BY <2>1 DEF ToSet
  <2> QED
    BY <1>1, <1>3, <2>2
<1> QED
    BY <1>1, <1>2, <1>3

(* The entry of a place, as the file wants it.                                *)
LEMMA WantedAt ==
    ASSUME Understood, ProperMethods, NEW f \in Files, ConfigOf(f) # Invalid,
           NEW p \in Places(ConfigOf(f))
    PROVE  LET o == OriginOf(f, p)
               s == Meant[f][o[1]]
               e == EntryAt(ConfigOf(f), p)
           IN  /\ o \in WrittenPlaces(Meant[f])
               /\ ViewOf(e.id, e.settings) =
                    Wanted(s, s.reals[o[2]], s.reals[o[2]].checkers[o[3]][o[4]], o[3])
<1> DEFINE o == OriginOf(f, p)
           s == Meant[f][o[1]]
           r == s.reals[o[2]]
           c == r.checkers[o[3]][o[4]]
           e == EntryAt(ConfigOf(f), p)
<1>1. /\ o \in WrittenPlaces(Meant[f]) /\ IsService(s) /\ IsReal(r) /\ IsChecker(c)
      /\ s \in ToSet(Meant[f]) /\ r \in ToSet(s.reals) /\ ComesFrom(e, s, r, c, o[3])
    BY EntryWritten
<1>2. e \in Entries(ConfigOf(f))
    BY EntriesAt
<1> HIDE DEF o, s, r, c, e
<1>3. /\ s.method # Nil => s.method.word \in {"TUN", "GRE"}
      /\ r.method # Nil => r.method.word \in {"TUN", "GRE"} /\ r.method.upper = TRUE
    BY <1>1, Zenon DEF ProperMethods
<1>4. ViewOf(e.id, e.settings) = Wanted(s, r, c, o[3])
    BY <1>1, <1>2, <1>3, AsWanted
<1> QED
    BY <1>1, <1>4 DEF o, s, r, c, e

(* What runs with the settings of an entry looks like it.                     *)
LEMMA ViewSame ==
    ASSUME NEW config, NEW e \in Entries(config), NEW x, SameButTimeouts(x, e)
    PROVE  ViewOf(e.id, x.settings) = ViewOf(e.id, e.settings)
<1> DEFINE a == x.settings
           b == e.settings
<1>1. \A field \in DOMAIN b \ {"connectTimeout", "checkTimeout"} : a[field] = b[field]
    BY DEF SameButTimeouts
<1>2. DOMAIN b = {"type", "connectIP", "bindIP", "virtualhost", "connectTimeout", "checkTimeout",
                  "delayLoop", "retries", "retryDelay", "tunnel", "real"}
    BY EntryFields
<1> HIDE DEF a, b
<1>3. /\ a.type = b.type /\ a.connectIP = b.connectIP /\ a.bindIP = b.bindIP
      /\ a.virtualhost = b.virtualhost /\ a.delayLoop = b.delayLoop /\ a.retries = b.retries
      /\ a.retryDelay = b.retryDelay /\ a.tunnel = b.tunnel /\ a.real = b.real
    BY <1>1, <1>2
<1>4. ViewOf(e.id, a) = ViewOf(e.id, b)
    BY <1>3, Zenon DEF ViewOf
<1> QED
    BY <1>4 DEF a, b

(* What runs for the file that is applied is what it wants.                   *)
LEMMA RunsFile ==
    ASSUME Understood, ProperMethods, DistinctEntries, RunsEntries, NoOrphans,
           applied \in Files, ConfigOf(applied) # Invalid
    PROVE  RunningCheckers = WantedCheckers(Meant[applied])
<1> DEFINE C == ConfigOf(applied)
           M == Meant[applied]
           want(o) == Wanted(M[o[1]], M[o[1]].reals[o[2]],
                             M[o[1]].reals[o[2]].checkers[o[3]][o[4]], o[3])
<1>1. RunningCheckers = {ViewOf(checkers[id].id, checkers[id].settings) : id \in DOMAIN checkers}
  <2>1. RunningCheckers = {ViewOf(e.id, e.settings) : e \in RunningEntries}
    BY DEF RunningCheckers, ViewOf
  <2>2. RunningEntries = {checkers[id] : id \in DOMAIN checkers}
    BY DEF RunningEntries, NoOrphans
  <2> QED
    BY <2>1, <2>2
<1>2. \A w : w \in WantedCheckers(M) <=> \E o \in WrittenPlaces(M) : w = want(o)
    BY WantedOf
<1>3. \A p \in Places(C) :
         /\ OriginOf(applied, p) \in WrittenPlaces(M)
         /\ ViewOf(EntryAt(C, p).id, EntryAt(C, p).settings) = want(OriginOf(applied, p))
    BY WantedAt
<1>4. \A p \in Places(C) : EntryAt(C, p) \in Entries(C) /\ EntryAt(C, p).id = IdAt(C, p)
    BY EntriesAt DEF EntryAt
<1>5. /\ DOMAIN checkers = {IdAt(C, p) : p \in Places(C)}
      /\ \A id \in DOMAIN checkers :
            \E p \in Places(C) : IdAt(C, p) = id /\ SameButTimeouts(checkers[id], EntryAt(C, p))
    BY AllKnown DEF RunsEntries
<1> HIDE DEF C, M, want
<1>6. ASSUME NEW id \in DOMAIN checkers
      PROVE  \E p \in Places(C) :
                /\ IdAt(C, p) = id
                /\ ViewOf(checkers[id].id, checkers[id].settings) = want(OriginOf(applied, p))
  <2>1. PICK p \in Places(C) : IdAt(C, p) = id /\ SameButTimeouts(checkers[id], EntryAt(C, p))
    BY <1>5
  <2> DEFINE e == EntryAt(C, p)
  <2>2. e \in Entries(C) /\ SameButTimeouts(checkers[id], e)
    BY <1>4, <2>1
  <2>3. ViewOf(e.id, e.settings) = want(OriginOf(applied, p))
    BY <1>3
  <2> HIDE DEF e
  <2>4. ViewOf(e.id, checkers[id].settings) = ViewOf(e.id, e.settings)
    BY <2>2, ViewSame
  <2>5. checkers[id].id = e.id
    BY <2>2 DEF SameButTimeouts
  <2> QED
    BY <2>1, <2>3, <2>4, <2>5
<1>7. ASSUME NEW id \in DOMAIN checkers
      PROVE  ViewOf(checkers[id].id, checkers[id].settings) \in WantedCheckers(M)
    BY <1>2, <1>3, <1>6
<1>8. ASSUME NEW w \in WantedCheckers(M)
      PROVE  \E id \in DOMAIN checkers : w = ViewOf(checkers[id].id, checkers[id].settings)
  <2>1. PICK o \in WrittenPlaces(M) : w = want(o)
    BY <1>2
  <2>2. PICK p \in Places(C) : OriginOf(applied, p) = o
    BY <2>1, OriginOnto DEF C, M
  <2>3. IdAt(C, p) \in DOMAIN checkers
    BY <1>5
  <2>4. PICK q \in Places(C) :
            /\ IdAt(C, q) = IdAt(C, p)
            /\ ViewOf(checkers[IdAt(C, p)].id, checkers[IdAt(C, p)].settings)
                  = want(OriginOf(applied, q))
    BY <1>6, <2>3
  <2>5. p = q
    BY <2>4, OnePlace DEF C
  <2> QED
    BY <2>1, <2>2, <2>3, <2>4, <2>5
<1> QED
    BY <1>1, <1>7, <1>8 DEF M

(* After any number of reloads what runs is what the last file that was       *)
(* applied says, with its settings, although a reload leaves the checkers it   *)
(* knows by their key as they are, if files use known methods and have no       *)
(* service, real of a service or checker of a real twice (Core.Reload,           *)
(* Service.Reload, Real.Reload, Config.Key, propagate).                          *)
THEOREM RunsAsConfiguredTheorem ==
    ASSUME Understood, ProperMethods, DistinctEntries
    PROVE  Spec => []RunsAsConfigured
<1>1. ReconfigurationInv /\ NoOrphans => RunsAsConfigured
  <2> SUFFICES ASSUME ReconfigurationInv, NoOrphans PROVE RunsAsConfigured
    OBVIOUS
  <2>1. applied \in Files \cup {NoFile} /\ RunsEntries
    BY DEF ReconfigurationInv, TypeOK
  <2>2. CASE applied = NoFile
    <3>1. DOMAIN checkers = {}
      BY <2>1, <2>2, NothingConfigured DEF RunsEntries
    <3>2. RunningCheckers = {}
      BY <3>1 DEF RunningCheckers, RunningEntries, NoOrphans
    <3>3. WantedCheckers(<<>>) = {}
      BY DEF WantedCheckers, ToSet
    <3> QED
      BY <2>2, <3>2, <3>3 DEF RunsAsConfigured
  <2>3. CASE applied \in Files
    <3>1. applied # NoFile
      BY <2>3, MeantAssumption
    <3>2. ConfigOf(applied) # Invalid
      BY <3>1 DEF ReconfigurationInv
    <3>3. RunningCheckers = WantedCheckers(Meant[applied])
      BY <2>1, <2>3, <3>2, RunsFile
    <3> QED
      BY <3>1, <3>3 DEF RunsAsConfigured
  <2> QED
    BY <2>1, <2>2, <2>3
<1> QED
    BY <1>1, ReconfigurationInvariant, NoOrphansTheorem, PTL

-----------------------------------------------------------------------------
(* The dump.                                                                 *)

(* The scheduler the load balancer is asked for.                             *)
LEMMA KnownScheduler ==
    ASSUME KnownReplacement, NEW s
    PROVE  LET scheduler == ConvertScheduler(s, Replacement)
           IN  scheduler # "mh" /\ ~(s.ops /\ scheduler = "wlc")
BY DEF KnownReplacement, ConvertScheduler

(* The dump of an accepted file has its services and reals.                  *)
LEMMA DumpOf ==
    ASSUME Understood, KnownReplacement, NEW f \in Files, ConfigOf(f) # Invalid
    PROVE  LET d == Dumped(ConfigOf(f))
           IN  /\ ForEach(d, LAMBDA x : <<x.vip.addr, x.vport, ForEach(x.reals, LAMBDA r : r[1].addr)>>)
                  = ForEach(Meant[f], LAMBDA s : <<s.vip.addr, s.port,
                                                   ForEach(s.reals, LAMBDA r : r.ip.addr)>>)
               /\ \A x \in ToSet(d) : x.scheduler # "mh" /\ ~(x.ops /\ x.scheduler = "wlc")
<1> DEFINE C == ConfigOf(f)
           M == Meant[f]
           n == Len(M)
           keys(i) == [j \in DOMAIN C[i].reals |-> RealKey(C[i].reals[j])]
           d == Dumped(C)
<1>1. /\ n \in Nat /\ DOMAIN M = 1..n /\ DOMAIN C = 1..n
      /\ \A i \in 1..n : /\ IsService(M[i]) /\ C[i].vip = Unmap(M[i].vip) /\ C[i].port = M[i].port
    BY LoadedService
<1>2. \A i \in 1..n :
         /\ DOMAIN C[i].reals = DOMAIN M[i].reals
         /\ \A j \in DOMAIN M[i].reals :
               IsReal(M[i].reals[j]) /\ C[i].reals[j] = PrepareReal(M[i].reals[j], Outer(M[i]))
    BY LoadedReal
<1>3. d = [i \in DOMAIN C |-> [vip |-> C[i].vip, vport |-> C[i].port,
                               proto |-> ToLower(C[i].protocol), ops |-> C[i].ops,
                               scheduler |-> ConvertScheduler(C[i], Replacement),
                               method |-> C[i].method, reals |-> keys(i)]]
    BY DEF Dumped, ForEach
<1> HIDE DEF C, M, n, keys, d
<1>4. /\ DOMAIN d = 1..n
      /\ \A i \in 1..n :
            /\ d[i].vip = C[i].vip /\ d[i].vport = C[i].port /\ d[i].ops = C[i].ops
            /\ d[i].scheduler = ConvertScheduler(C[i], Replacement) /\ d[i].reals = keys(i)
    BY <1>1, <1>3
<1>5. \A i \in 1..n : d[i].vip.addr = M[i].vip.addr /\ d[i].vport = M[i].port
    BY <1>1, <1>4, Spellings DEF IsService
<1>6. ASSUME NEW i \in 1..n
      PROVE  [j \in DOMAIN d[i].reals |-> d[i].reals[j][1].addr] =
                [j \in DOMAIN M[i].reals |-> M[i].reals[j].ip.addr]
  <2>1. /\ DOMAIN d[i].reals = DOMAIN M[i].reals
        /\ \A j \in DOMAIN M[i].reals : d[i].reals[j] = RealKey(C[i].reals[j])
    BY <1>2, <1>4 DEF keys
  <2>2. ASSUME NEW j \in DOMAIN M[i].reals
        PROVE  d[i].reals[j][1].addr = M[i].reals[j].ip.addr
    <3> DEFINE r == M[i].reals[j]
    <3>1. IsReal(r) /\ IsService(M[i]) /\ C[i].reals[j] = PrepareReal(r, Outer(M[i]))
      BY <1>1, <1>2
    <3> HIDE DEF r
    <3>2. PrepareReal(r, Outer(M[i])).ip = Unmap(r.ip)
      BY <3>1, PreparedReal
    <3>3. d[i].reals[j][1] = Unmap(r.ip)
      BY <2>1, <3>1, <3>2 DEF RealKey
    <3>4. Unmap(r.ip).addr = r.ip.addr
      BY <3>1, Spellings DEF IsReal
    <3> QED
      BY <3>3, <3>4 DEF r
  <2> QED
    BY <2>1, <2>2
<1>7. [i \in DOMAIN d |-> <<d[i].vip.addr, d[i].vport,
                            [j \in DOMAIN d[i].reals |-> d[i].reals[j][1].addr]>>] =
      [i \in DOMAIN M |-> <<M[i].vip.addr, M[i].port,
                            [j \in DOMAIN M[i].reals |-> M[i].reals[j].ip.addr]>>]
  <2> DEFINE dr(i) == [j \in DOMAIN d[i].reals |-> d[i].reals[j][1].addr]
             mr(i) == [j \in DOMAIN M[i].reals |-> M[i].reals[j].ip.addr]
  <2>1. \A i \in 1..n : dr(i) = mr(i)
    BY <1>6
  <2> HIDE DEF dr, mr
  <2>2. [i \in DOMAIN d |-> <<d[i].vip.addr, d[i].vport, dr(i)>>] =
        [i \in DOMAIN M |-> <<M[i].vip.addr, M[i].port, mr(i)>>]
    BY <1>1, <1>4, <1>5, <2>1
  <2> QED
    BY <2>2 DEF dr, mr
<1>8. \A x \in ToSet(d) : x.scheduler # "mh" /\ ~(x.ops /\ x.scheduler = "wlc")
  <2>1. \A i \in 1..n : d[i].scheduler # "mh" /\ ~(d[i].ops /\ d[i].scheduler = "wlc")
    BY <1>4, KnownScheduler
  <2> QED
    BY <1>4, <2>1 DEF ToSet
<1> QED
    BY <1>7, <1>8 DEF ForEach, d, C, M

(* When no request is under way, the load balancer has the services and reals  *)
(* of the file that is applied, in its order, with schedulers it knows, unless  *)
(* a dump failed or two requests overtook each other (Manager.Reload, Dump,     *)
(* convertScheduler).                                                           *)
THEOREM DumpFollowsTheorem ==
    ASSUME Understood, KnownReplacement
    PROVE  Spec => []DumpFollows
<1>1. ReconfigurationInv => DumpFollows
  <2> SUFFICES ASSUME ReconfigurationInv, ~raced, \A r \in Requests : request[r] = Idle
               PROVE  DumpFollows
    BY DEF DumpFollows
  <2>1. \A r \in Requests : request[r].at # "dump"
    BY DEF Idle
  <2>2. dump = Dumped(ConfigOf(applied)) /\ applied \in Files \cup {NoFile}
    BY <2>1 DEF ReconfigurationInv, DumpInv, TypeOK
  <2>3. CASE applied = NoFile
    <3>1. dump = <<>>
      BY <2>2, <2>3, NothingConfigured
    <3> QED
      BY <2>3, <3>1 DEF DumpFollows, ForEach, ToSet
  <2>4. CASE applied \in Files
    <3>1. applied # NoFile
      BY <2>4, MeantAssumption
    <3>2. ConfigOf(applied) # Invalid
      BY <3>1 DEF ReconfigurationInv
    <3>3. /\ ForEach(dump, LAMBDA x : <<x.vip.addr, x.vport, ForEach(x.reals, LAMBDA r : r[1].addr)>>)
             = ForEach(Meant[applied], LAMBDA s : <<s.vip.addr, s.port,
                                                    ForEach(s.reals, LAMBDA r : r.ip.addr)>>)
          /\ \A x \in ToSet(dump) : x.scheduler # "mh" /\ ~(x.ops /\ x.scheduler = "wlc")
      BY <2>2, <2>4, <3>2, DumpOf
    <3> QED
      BY <3>1, <3>3, Zenon DEF DumpFollows
  <2> QED
    BY <2>2, <2>3, <2>4
<1> QED
    BY <1>1, ReconfigurationInvariant, PTL
=============================================================================
