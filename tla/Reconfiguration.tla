-------------------------- MODULE Reconfiguration --------------------------
(***************************************************************************)
(* Reload requests as the manager handles them: the file is read and        *)
(* prepared, applied to the announcer and to the services under the core's  *)
(* lock, and dumped for the load balancer after the lock is released.       *)
(* How the services follow is the subject of Lifecycle and Health; here it  *)
(* is one step, and what matters is which checkers run with which settings. *)
(***************************************************************************)
EXTENDS Keepalived

CONSTANTS
    Files,          \* the files an operator may write
    Text,           \* their lines, and those of the files they include
    Meant,          \* what the operator means by them: the services
    NoFile,
    Requests,       \* calls of Manager.Reload at a time
    KnownGroups,    \* the groups of the announcer's configuration
    Replacement     \* replace_mh_with, or Nil

VARIABLES
    file,           \* the configuration file
    request,        \* of each request: where it is, its file and its config
    applied,        \* the file whose configuration the core has
    groups,         \* the announcer's group of each service
    checkers,       \* the known checkers and the settings they run with
    orphans,        \* checkers that run and that no map leads to
    dump,           \* the file for the load balancer
    raced           \* history: a dump failed, or its turn came after a later reload

vars == <<file, request, applied, groups, checkers, orphans, dump, raced>>

(* The types of what is written in a file: lists of services, of their reals   *)
(* and, for each type, of their checkers.                                      *)
IsList(list) == list \in Seq(ToSet(list))

IsAddr(ip) == DOMAIN ip = {"addr", "mapped"}

IsWord(w) == w = [word |-> w.word, upper |-> w.upper]

IsScheduler(c) ==
    {c.delayLoop, c.retries, c.retryDelay} \subseteq Nat \cup {Nil}

IsChecker(c) ==
    /\ DOMAIN c = {"type", "connectIP", "bindIP", "connectTimeout", "checkTimeout", "virtualhost",
                   "delayLoop", "retries", "retryDelay"}
    /\ IsAddr(c.connectIP) /\ IsAddr(c.bindIP) /\ IsScheduler(c)

IsReal(r) ==
    /\ DOMAIN r = {"ip", "port", "method", "virtualhost", "delayLoop", "retries", "retryDelay",
                   "checkers"}
    /\ IsAddr(r.ip) /\ IsScheduler(r)
    /\ r.method # Nil => IsWord(r.method)
    /\ DOMAIN r.checkers = {"TCP", "HTTP", "HTTPS", "GRPC"}
    /\ \A type \in DOMAIN r.checkers :
          IsList(r.checkers[type]) /\ \A c \in ToSet(r.checkers[type]) : IsChecker(c)

IsService(s) ==
    /\ DOMAIN s = {"vip", "port", "protocol", "lvsSched", "method", "group", "quorumUp",
                   "virtualhost", "ops", "delayLoop", "retries", "retryDelay", "reals"}
    /\ IsAddr(s.vip) /\ IsWord(s.protocol) /\ IsWord(s.lvsSched) /\ IsScheduler(s)
    /\ s.method # Nil => IsWord(s.method)
    /\ IsList(s.reals) /\ \A r \in ToSet(s.reals) : IsReal(r)

ASSUME MeantAssumption ==
    /\ NoFile \notin Files /\ Nil \notin Nat
    /\ \A f \in Files : IsList(Meant[f]) /\ \A s \in ToSet(Meant[f]) : IsService(s)

Idle == [at |-> "idle", file |-> NoFile, config |-> <<>>]

(* loadConfig and Prepare, for each file.                                     *)
Loaded ==
    {[file |-> f, config |-> LET config == LoadConfig(Text[f])
                             IN  IF config = Invalid THEN Invalid ELSE Prepare(config)] : f \in Files}

ConfigOf(f) == IF f = NoFile THEN <<>> ELSE (CHOOSE l \in Loaded : l.file = f).config

(* The places of the checkers in a prepared configuration, and what there is   *)
(* at one: what the checker is known by on the three levels, the settings for  *)
(* it and the forwarding method of its real.                                   *)
Places(config) ==
    UNION {UNION {{<<i, j, k>> : k \in DOMAIN config[i].reals[j].checkers}
                  : j \in DOMAIN config[i].reals} : i \in DOMAIN config}

IdAt(config, p) ==
    LET s == config[p[1]]
        r == s.reals[p[2]]
    IN  <<ServiceKey(s), RealKey(r), CheckerKey(r.checkers[p[3]])>>

EntryAt(config, p) ==
    LET r == config[p[1]].reals[p[2]]
    IN  [id |-> IdAt(config, p), settings |-> Settings(r, r.checkers[p[3]]), method |-> r.method]

Entries(config) == {EntryAt(config, p) : p \in Places(config)}

(* The entries a reload finds under one key: services of the file, reals of    *)
(* the service, checkers of the real.                                          *)
SameKey(config, p) ==
    LET reals == config[p[1]].reals
        list == reals[p[2]].checkers
    IN  <<{i \in DOMAIN config : ServiceKey(config[i]) = ServiceKey(config[p[1]])},
          {j \in DOMAIN reals : RealKey(reals[j]) = RealKey(reals[p[2]])},
          {k \in DOMAIN list : CheckerKey(list[k]) = CheckerKey(list[p[3]])}>>

IsFirst(config, p) == \A level \in 1..3 : \A n \in SameKey(config, p)[level] : p[level] <= n

IsLast(config, p) == \A level \in 1..3 : \A n \in SameKey(config, p)[level] : n <= p[level]

(* newServices[key], newReals[key], newCheckers[key]: the last entry stays.    *)
Known(config) == {p \in Places(config) : IsLast(config, p)}

(* servicesForAnnouncer of Core.Reload.                                       *)
GroupsOf(config) ==
    {<<ServiceKey(s), s.vip, s.group>> : s \in {t \in ToSet(config) : t.group # NoGroup}}

(* Announcer.ReloadServices accepts known groups, one for each prefix.        *)
Acceptable(pairs) ==
    /\ \A p \in pairs : p[3] \in KnownGroups
    /\ \A p, q \in pairs : p[2] = q[2] => p[3] = q[3]

(* Faulty: a checker with a known key goes on, whatever its method.           *)
RunningKept(config, p) ==
    LET new == EntryAt(config, p)
    IN  IF IsFirst(config, p) /\ new.id \in DOMAIN checkers THEN checkers[new.id] ELSE new

(* Core.Reload, Service.Reload and Real.Reload, for the checker of a place: it *)
(* goes on as it is if its key is known, unless the forwarding method of its    *)
(* real changes; else it is created.  The first entry with a key takes what is  *)
(* known by it out of the old map, so that the next makes an object of its own. *)
Running(config, p) ==
    LET new == EntryAt(config, p)
    IN  IF /\ IsFirst(config, p)
           /\ new.id \in DOMAIN checkers /\ checkers[new.id].method = new.method
        THEN checkers[new.id] ELSE new

(* The new maps; what is left in the old ones is stopped.                      *)
ReloadedCheckers(config) ==
    [id \in {IdAt(config, p) : p \in Known(config)} |->
        Running(config, CHOOSE p \in Known(config) : IdAt(config, p) = id)]

(* Of the entries with one key all but the last are lost to the map, the       *)
(* service or the real with all that runs for it, and nothing stops them.       *)
Lost(config) == {Running(config, p) : p \in Places(config) \ Known(config)}

(* MarshalJSON and Dump, reduced to what is converted.                        *)
Dumped(config) ==
    ForEach(config, LAMBDA s :
        [vip |-> s.vip, vport |-> s.port, proto |-> ToLower(s.protocol), ops |-> s.ops,
         scheduler |-> ConvertScheduler(s, Replacement), method |-> s.method,
         reals |-> ForEach(s.reals, RealKey)])

-----------------------------------------------------------------------------
Init ==
    /\ file \in Files
    /\ request = [r \in Requests |-> Idle]
    /\ applied = NoFile /\ groups = {} /\ checkers = <<>> /\ orphans = {}
    /\ dump = <<>> /\ raced = FALSE

(* The operator writes another file.                                          *)
Edit ==
    /\ file' \in Files \ {file}
    /\ UNCHANGED <<request, applied, groups, checkers, orphans, dump, raced>>

(* Manager.Reload: loadConfig and Prepare; an error ends the request.          *)
Load(r) ==
    /\ request[r] = Idle
    /\ \E config \in {ConfigOf(file)} :
          /\ config # Invalid
          /\ request' = [request EXCEPT ![r] = [at |-> "apply", file |-> file, config |-> config]]
    /\ UNCHANGED <<file, applied, groups, checkers, orphans, dump, raced>>

(* Core.Reload under servicesMu: the announcer first, which may refuse, then   *)
(* the services.  (Once there are orphans, a reload that stops their service    *)
(* or real waits for them for ever; this is not modelled.)                     *)
Apply(r) ==
    LET config == request[r].config IN
    /\ request[r].at = "apply"
    /\ IF Acceptable(GroupsOf(config))
       THEN /\ groups' = GroupsOf(config)
            /\ checkers' = ReloadedCheckers(config)
            /\ orphans' = orphans \cup Lost(config)
            /\ applied' = request[r].file
            /\ request' = [request EXCEPT ![r].at = "dump"]
            /\ raced' = (raced \/ \E q \in Requests : request[q].at = "dump")
       ELSE /\ request' = [request EXCEPT ![r] = Idle]
            /\ UNCHANGED <<applied, groups, checkers, orphans, raced>>
    /\ UNCHANGED <<file, dump>>

(* Faulty: the dump reads the file again.                                      *)
DumpFile(r) ==
    /\ request[r].at = "dump"
    /\ \E config \in {ConfigOf(file)} : config # Invalid /\ dump' = Dumped(config)
    /\ request' = [request EXCEPT ![r] = Idle]
    /\ UNCHANGED <<file, applied, groups, checkers, orphans, raced>>

(* Config.Dump: a temporary file takes the place of the former dump.           *)
Dump(r) ==
    /\ request[r].at = "dump"
    /\ dump' = Dumped(request[r].config)
    /\ request' = [request EXCEPT ![r] = Idle]
    /\ UNCHANGED <<file, applied, groups, checkers, orphans, raced>>

(* An error on the way: the reload stays applied, its caller gets the error.   *)
DumpFails(r) ==
    /\ request[r].at = "dump"
    /\ raced' = TRUE
    /\ request' = [request EXCEPT ![r] = Idle]
    /\ UNCHANGED <<file, applied, groups, checkers, orphans, dump>>

Next == Edit \/ \E r \in Requests : Load(r) \/ Apply(r) \/ Dump(r) \/ DumpFails(r)

Spec == Init /\ [][Next]_vars

-----------------------------------------------------------------------------
(* A request that got past Prepare has a file that Prepare accepts; keys hold   *)
(* canonical spellings only.                                                    *)
TypeOK ==
    /\ file \in Files /\ applied \in Files \cup {NoFile} /\ DOMAIN request = Requests
    /\ \A r \in Requests : \/ request[r] = Idle
                            \/ /\ request[r].at \in {"apply", "dump"} /\ request[r].file \in Files
                               /\ request[r].config = ConfigOf(request[r].file)
                               /\ request[r].config # Invalid
    /\ raced \in BOOLEAN
    /\ \A id \in DOMAIN checkers \cup {e.id : e \in orphans} :
          ~id[1][1].mapped /\ id[1][3].upper /\ ~id[2][1].mapped

(* A service as it is written, with the defaults of service.Config for what is  *)
(* left out.                                                                    *)
WithDefaults(s) ==
    [s EXCEPT !.method = IF @ = Nil THEN [word |-> "TUN", upper |-> TRUE] ELSE @,
              !.delayLoop = IF @ = Nil THEN 600 ELSE @,
              !.retries = IF @ = Nil THEN 1 ELSE @,
              !.retryDelay = IF @ = Nil THEN 30 ELSE @]

UnderstoodFiles ==
    {f \in Files : LoadConfig(Text[f]) \in {Invalid, ForEach(Meant[f], WithDefaults)}}

(* What the theorems start from, of the parser and the decoder.                 *)
Understood == Files \subseteq UnderstoodFiles

(* Parser and decoder (keepalived.LoadConfig) make of a file what it says, with *)
(* comments, includes, quotation and defaults, or refuse it as a whole; of a    *)
(* damaged one they take no part.                                               *)
FileUnderstood == file \in UnderstoodFiles

(* What the file says of a checker, read off the file itself: a setting comes  *)
(* from the innermost level that gives it, else it has its default.            *)
Innermost(levels, field, default) ==
    LET given == {i \in 1..Len(levels) : levels[i][field] # Nil}
    IN  IF given = {} THEN default
        ELSE levels[CHOOSE i \in given : \A j \in given : i <= j][field]

Wanted(s, r, c, type) ==
    LET levels == <<c, r, s>>
        method == IF r.method # Nil THEN r.method.word ELSE IF s.method # Nil THEN s.method.word ELSE "TUN"
    IN  [type |-> type, connectIP |-> c.connectIP.addr, bindIP |-> c.bindIP.addr,
         virtualhost |-> Innermost(levels, "virtualhost", Nil),
         delayLoop |-> Innermost(levels, "delayLoop", 600) \div 10,
         retries |-> Innermost(levels, "retries", 1),
         retryDelay |-> Innermost(levels, "retryDelay", 30) \div 10,
         tunnel |-> method, real |-> r.ip.addr, service |-> s.vip.addr]

WantedCheckers(services) ==
    UNION {UNION {UNION {{Wanted(s, r, c, type) : c \in ToSet(r.checkers[type])}
                         : type \in DOMAIN r.checkers} : r \in ToSet(s.reals)} : s \in ToSet(services)}

(* What runs, known to a map or not, and without the timeouts.                 *)
RunningEntries == {checkers[id] : id \in DOMAIN checkers} \cup orphans

RunningCheckers ==
    {LET settings == e.settings IN
     [type |-> settings.type, connectIP |-> settings.connectIP.addr, bindIP |-> settings.bindIP.addr,
      virtualhost |-> settings.virtualhost, delayLoop |-> settings.delayLoop \div 10,
      retries |-> settings.retries, retryDelay |-> settings.retryDelay \div 10,
      tunnel |-> settings.tunnel, real |-> settings.real.addr, service |-> e.id[1][1].addr]
         : e \in RunningEntries}

(* After any number of reloads the checkers that run are those of the last     *)
(* file that was applied, with the settings it gives them, although a reload   *)
(* keeps those it knows by their key as they are (Real.Reload, Config.Key,      *)
(* propagate).  The timeouts are left out: see TimeoutsFollow.                  *)
RunsAsConfigured ==
    RunningCheckers = WantedCheckers(IF applied = NoFile THEN <<>> ELSE Meant[applied])

(* Whatever groups the file names, what Prepare makes of it names one group    *)
(* for a prefix, a group its services name, and the announcer can refuse it     *)
(* only for an unknown group (validateAnnounceGroups).                          *)
OneGroupPerPrefix ==
    \A r \in Requests : request[r].at = "apply" =>
        LET config == request[r].config
            meant == Meant[request[r].file]
        IN  /\ \A p, q \in GroupsOf(config) : p[2] = q[2] => p[3] = q[3]
            /\ \A i \in 1..Len(config) :
                   config[i].group # NoGroup =>
                       \E j \in 1..i : /\ meant[j].vip.addr = config[i].vip.addr
                                       /\ \/ meant[j].group = config[i].group
                                          \/ /\ meant[j].group = NoGroup
                                             /\ AnnounceGroupFromQuorumScript(meant[j].quorumUp)
                                                    = config[i].group

(* No checker escapes the maps by which it is stopped, its own real's, its      *)
(* service's and the core's: entries that differ have different keys on each     *)
(* level (Core.Reload, Service.Reload, Real.Reload).  Holds if the file repeats  *)
(* no service, real of a service or checker of a real.                           *)
NoOrphans == orphans = {}

(* When no request is under way, the dump is that of what is applied, unless a  *)
(* dump failed or two requests overtook each other after Core.Reload: it has    *)
(* the services of the file and their reals, in the order of the file, and      *)
(* asks for no scheduler the load balancer lacks (Dump, convertScheduler).      *)
DumpFollows ==
    ~raced /\ (\A r \in Requests : request[r] = Idle) =>
        /\ ForEach(dump, LAMBDA d : <<d.vip.addr, d.vport, ForEach(d.reals, LAMBDA r : r[1].addr)>>)
           = ForEach(IF applied = NoFile THEN <<>> ELSE Meant[applied],
                     LAMBDA s : <<s.vip.addr, s.port, ForEach(s.reals, LAMBDA r : r.ip.addr)>>)
        /\ \A d \in ToSet(dump) : d.scheduler # "mh" /\ ~(d.ops /\ d.scheduler = "wlc")

(* The timeouts are those of the file, too.  Fails: the key of a checker lacks  *)
(* the connect timeout.                                                         *)
TimeoutsFollow ==
    {[connect |-> e.settings.connectTimeout, check |-> e.settings.checkTimeout] : e \in RunningEntries}
    = {[connect |-> e.settings.connectTimeout, check |-> e.settings.checkTimeout]
         : e \in Entries(ConfigOf(applied))}

-----------------------------------------------------------------------------
(* What the theorems assume of the files.  Methods are known, and those of    *)
(* reals in upper case: nothing converts these.                               *)
ProperMethods ==
    \A f \in Files : \A s \in ToSet(Meant[f]) :
        /\ s.method # Nil => s.method.word \in {"TUN", "GRE"}
        /\ \A r \in ToSet(s.reals) :
              r.method # Nil => r.method.word \in {"TUN", "GRE"} /\ r.method.upper = TRUE

(* The places of checkers in a file, and what tells them apart.               *)
WrittenPlaces(services) ==
    UNION {UNION {UNION {{<<i, j, type, k>> : k \in DOMAIN services[i].reals[j].checkers[type]}
                         : type \in DOMAIN services[i].reals[j].checkers}
                  : j \in DOMAIN services[i].reals} : i \in DOMAIN services}

WrittenAt(services, p) ==
    LET s == services[p[1]]
        r == s.reals[p[2]]
        c == r.checkers[p[3]][p[4]]
    IN  <<s.port, s.protocol.word, r.port, c.checkTimeout,
          [Wanted(s, r, c, p[3]) EXCEPT !.tunnel = "any"]>>

(* No file has a service, a real of a service or a checker of a real twice.   *)
DistinctEntries ==
    \A f \in Files :
        /\ \A i, j \in DOMAIN Meant[f] :
              LET s == Meant[f][i]
                  t == Meant[f][j]
              IN  <<s.vip.addr, s.port, s.protocol.word>> = <<t.vip.addr, t.port, t.protocol.word>>
                  => i = j
        /\ \A s \in ToSet(Meant[f]) : \A i, j \in DOMAIN s.reals :
              LET r == s.reals[i]
                  t == s.reals[j]
              IN  <<r.ip.addr, r.port>> = <<t.ip.addr, t.port>> => i = j
        /\ \A p, q \in WrittenPlaces(Meant[f]) :
              WrittenAt(Meant[f], p) = WrittenAt(Meant[f], q) => p = q

(* The load balancer must know the replacement for mh.                        *)
KnownReplacement == Replacement \notin {"mh", "wlc"}

-----------------------------------------------------------------------------
(* The inductive invariant.  A checker runs with the settings its key stands   *)
(* for; the connect timeout is not part of it.                                 *)
SameButTimeouts(old, new) ==
    /\ old.id = new.id /\ old.method = new.method
    /\ \A field \in DOMAIN new.settings \ {"connectTimeout", "checkTimeout"} :
          old.settings[field] = new.settings[field]

(* The maps lead to the checkers of the last entries with their keys.          *)
RunsEntries ==
    LET config == ConfigOf(applied) IN
    /\ DOMAIN checkers = {IdAt(config, p) : p \in Known(config)}
    /\ \A id \in DOMAIN checkers :
          \E p \in Known(config) :
              IdAt(config, p) = id /\ SameButTimeouts(checkers[id], EntryAt(config, p))

(* Without a race at most one dump is due, that of what is applied.            *)
DumpInv ==
    ~raced =>
      /\ \A q, r \in Requests : request[q].at = "dump" /\ request[r].at = "dump" => q = r
      /\ \A r \in Requests : request[r].at = "dump" => request[r].file = applied
      /\ (\A r \in Requests : request[r].at # "dump") => dump = Dumped(ConfigOf(applied))

ReconfigurationInv ==
    TypeOK /\ (applied # NoFile => ConfigOf(applied) # Invalid) /\ RunsEntries /\ DumpInv
=============================================================================
