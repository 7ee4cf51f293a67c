----------------------------- MODULE Keepalived -----------------------------
(***************************************************************************)
(* pkg/keepalived: from the lines of the services configuration to a tree  *)
(* of items, and from the tree to the structures of Configuration.  A line *)
(* is the characters that mean something to the parser (those a name may   *)
(* not have among them) and, between them, runs of others, which are values *)
(* that are converted already.                                             *)
(***************************************************************************)
EXTENDS Configuration

Char(c) == [char |-> c, value |-> c]

Run(value) == [char |-> "run", value |-> value]

IsSpecial(u) == u.char \in {"#", "{", "}"}

(* What makes a line a comment, in front of its first token.                  *)
IsComment(u) == u.char \in {"#", "!"}

(* splitLine.  A special character is a token; a word ends before the next    *)
(* space or special character, which is skipped; a quotation ends before the  *)
(* next quote without a backslash, and must end.                              *)
SplitLine(line) ==
    LET end == Len(line)
        first(set) == IF set = {} THEN end + 1 ELSE CHOOSE j \in set : \A k \in set : j <= k
        wordEnd(i) == first({j \in i..end : line[j].char = " " \/ IsSpecial(line[j])})
        escaped[i \in Nat, j \in Nat] == j > i /\ line[j - 1].char = "\\" /\ ~escaped[i, j - 1]
        quoteEnd(i) == first({j \in i..end : line[j].char = "\"" /\ ~escaped[i, j]})
        token(i, j) ==
            IF i = j THEN line[i]
            ELSE [char |-> IF IsComment(line[i]) THEN line[i].char ELSE "mixed",
                  value |-> SubSeq(line, i, j)]
        prepend(t, tokens) == IF tokens = Invalid THEN Invalid ELSE <<t>> \o tokens
        split[i \in Nat] ==
            IF i > end THEN <<>>
            ELSE IF IsSpecial(line[i]) THEN prepend(line[i], split[i + 1])
            ELSE IF line[i].char = "\""
                 THEN IF quoteEnd(i + 1) > end THEN Invalid
                      ELSE prepend(token(i + 1, quoteEnd(i + 1) - 1), split[quoteEnd(i + 1) + 1])
            ELSE IF wordEnd(i) = i THEN split[i + 1]
            ELSE prepend(token(i, wordEnd(i) - 1), split[wordEnd(i) + 1])
    IN  split[1]

-----------------------------------------------------------------------------
(* parseConfig and parseFile.  text gives the lines of each file.  A block is *)
(* its items, the line after it, how many more braces were opened than        *)
(* closed, and whether it, with the files it includes, is in order.  A file    *)
(* that is not balanced is refused, and a name with an unexpected character;   *)
(* an include that matches no file adds nothing.                               *)
Block(items, next, unbalanced, ok) ==
    [items |-> items, next |-> next, unbalanced |-> unbalanced, ok |-> ok]

Refused(i) == Block(<<>>, i, 0, FALSE)

Opens(tokens) == Len(tokens) > 1 /\ Last(tokens).char = "{"

(* The name, the values without the brace, and what is inside.                *)
Item(tokens, sub) ==
    LET values == Tail(IF Opens(tokens) THEN Front(tokens) ELSE tokens)
    IN  [name |-> tokens[1].value, values |-> ForEach(values, LAMBDA u : u.value), sub |-> sub]

(* The item in front of the rest of its block.                                *)
Before(item, rest) == [rest EXCEPT !.items = <<item>> \o @]

(* Faulty: the braces are not counted.                                        *)
InOrderUncounted(root) == root.ok

InOrder(root) == root.ok /\ root.unbalanced = 0

Parse(text) ==
    LET parsed[f \in DOMAIN text, i \in Nat] ==
            LET tokens == SplitLine(text[f][i])
                rest == parsed[f, i + 1]
                sub == parsed[f, i + 1]
                after == parsed[f, sub.next]
                included == parsed[tokens[2].value, 1]
            IN  IF i > Len(text[f]) THEN Block(<<>>, i, 0, TRUE)
                ELSE IF tokens = Invalid THEN Refused(i)
                ELSE IF tokens = <<>> THEN rest
                ELSE CASE IsComment(tokens[1]) -> rest
                       [] tokens[1].char = "}" -> Block(<<>>, i + 1, -1, TRUE)
                       [] tokens[1].char # "run" -> Refused(i)
                       [] tokens[1].value = "include" ->
                              IF Len(tokens) # 2 THEN Refused(i)
                              ELSE IF tokens[2].value \notin DOMAIN text THEN rest
                              ELSE [rest EXCEPT !.items = included.items \o @,
                                                !.ok = @ /\ InOrder(included)]
                       [] Opens(tokens) ->
                              [Before(Item(tokens, sub.items), after)
                                 EXCEPT !.unbalanced = 1 + sub.unbalanced + @,
                                        !.ok = sub.ok /\ @]
                       [] OTHER -> Before(Item(tokens, <<>>), rest)
        root == parsed["main", 1]
    IN  IF InOrder(root) THEN root.items ELSE Invalid

-----------------------------------------------------------------------------
(* decoder.go.  The names a structure knows and the fields they stand for;    *)
(* retry has two names.                                                       *)
SchedulerNames ==
    [delay_loop |-> "delayLoop", retry |-> "retries", nb_get_retry |-> "retries",
     delay_before_retry |-> "retryDelay"]

ServiceNames ==
    [protocol |-> "protocol", lvs_sched |-> "lvsSched", lvs_method |-> "method",
     announce_group |-> "group", quorum_up |-> "quorumUp", virtualhost |-> "virtualhost"]
    @@ SchedulerNames

RealNames == [lvs_method |-> "method", virtualhost |-> "virtualhost"] @@ SchedulerNames

CheckerNames ==
    [connect_ip |-> "connectIP", bindto |-> "bindIP", connect_timeout |-> "connectTimeout",
     check_timeout |-> "checkTimeout"] @@ SchedulerNames

URLNames == [virtualhost |-> "virtualhost"]

(* configAssignConf for a scalar: exactly one value; the last line wins.      *)
Assign(object, names, item) ==
    IF object = Invalid \/ item.name \notin DOMAIN names THEN object
    ELSE IF Len(item.values) # 1 \/ item.sub # <<>> THEN Invalid
    ELSE [object EXCEPT ![names[item.name]] = item.values[1]]

(* configAssignConf for a structure: the positional values, then the named    *)
(* ones in their order; names it does not know are passed over.               *)
Struct(default, positions, names, item) ==
    IF Len(item.values) > Len(positions) THEN Invalid
    ELSE LET placed == FoldLeft(LAMBDA object, i : [object EXCEPT ![positions[i]] = item.values[i]],
                                default, [i \in 1..Len(item.values) |-> i])
         IN  FoldLeft(LAMBDA object, sub : Assign(object, names, sub), placed, item.sub)

SubItems(item, name) == SelectSeq(item.sub, LAMBDA sub : sub.name = name)

DecodeChecker(item) ==
    FoldLeft(LAMBDA c, url : IF c = Invalid THEN c ELSE Struct(c, <<>>, URLNames, url),
             Struct(NewChecker, <<>>, CheckerNames, item), SubItems(item, "url"))

DecodeReal(item) ==
    LET list(name) == ForEach(SubItems(item, name), DecodeChecker)
        lists == [TCP |-> list("TCP_CHECK"), HTTP |-> list("HTTP_GET"),
                  HTTPS |-> list("SSL_GET"), GRPC |-> list("GRPC_CHECK")]
        r == Struct(NewReal, <<"ip", "port">>, RealNames, item)
    IN  IF r = Invalid \/ \E type \in DOMAIN lists : Invalid \in ToSet(lists[type]) THEN Invalid
        ELSE [r EXCEPT !.checkers = lists]

(* A flag such as ops is set by its name, whatever follows.                   *)
DecodeService(item) ==
    LET reals == ForEach(SubItems(item, "real_server"), DecodeReal)
        s == Struct(NewService, <<"vip", "port">>, ServiceNames, item)
    IN  IF s = Invalid \/ Invalid \in ToSet(reals) THEN Invalid
        ELSE [s EXCEPT !.reals = reals, !.ops = SubItems(item, "ops") # <<>>]

(* LoadConfig: an error anywhere refuses the whole.                           *)
LoadConfig(text) ==
    LET items == Parse(text)
        services == ForEach(SubItems([sub |-> items], "virtual_server"), DecodeService)
    IN  IF items = Invalid THEN Invalid
        ELSE IF Invalid \in ToSet(services) THEN Invalid ELSE services
=============================================================================
