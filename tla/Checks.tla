------------------------------- MODULE Checks -------------------------------
(***************************************************************************)
(* internal/core/checker/check: what a TCP, HTTP(S) or gRPC check makes of *)
(* the answer it gets.  Connections, TLS and request headers are left out: *)
(* an answer says how far the exchange went and what came back.            *)
(***************************************************************************)
EXTENDS Weight

(* The text of a weight: absent, not a natural number, or a number.         *)
Absent == -3
Garbage == -2

(* Weight.UnmarshalText never fails; what it cannot use it omits.           *)
Unmarshal(text) == IF text < 0 THEN Omitted ELSE text

(* check.Metadata before the check, copied from the checker's state, and    *)
(* SetInactive.                                                             *)
Metadata(alive, weight) == [alive |-> alive, weight |-> weight]

SetInactive == Metadata(FALSE, Omitted)

(* HTTPCheck.matchStatusCode, matchDigest; "any" is the zero value of each.  *)
MatchStatusCode(config, answer) == config.status \in {"any", answer.status}

MatchDigest(config, answer) == config.digest \in {"any", answer.digest}

(* HTTPCheck.getWeightFrom: the header RS-Weight, or what follows rs_weight= *)
(* in the first line of the body.                                           *)
HTTPWeightFrom(config, answer) ==
    IF ~config.dynamic THEN Omitted
    ELSE Unmarshal(IF config.inHeader THEN answer.header ELSE answer.body)

(* GRPCCheck.getWeightFrom: the header X-RS-Weight, which counts as absent   *)
(* unless it is there exactly once.                                         *)
GRPCWeightFrom(config, answer) ==
    IF ~config.dynamic THEN Omitted ELSE Unmarshal(answer.header)

(* TCPCheck.Do: the connection is made and closed.                          *)
TCPAccepted(config, answer) == answer.connected /\ answer.complete

(* HTTPCheck.handle: the expected status, the body read, the right digest.  *)
HTTPAccepted(config, answer) ==
    /\ answer.connected
    /\ MatchStatusCode(config, answer)
    /\ answer.complete
    /\ MatchDigest(config, answer)

(* GRPCCheck.handle, matchStatus.                                           *)
GRPCAccepted(config, answer) == answer.connected /\ answer.status = "SERVING"

Accepted(config, answer) ==
    CASE config.kind = "tcp" -> TCPAccepted(config, answer)
      [] config.kind = "http" -> HTTPAccepted(config, answer)
      [] config.kind = "grpc" -> GRPCAccepted(config, answer)

WeightFrom(config, answer) ==
    CASE config.kind = "tcp" -> Omitted
      [] config.kind = "http" -> HTTPWeightFrom(config, answer)
      [] config.kind = "grpc" -> GRPCWeightFrom(config, answer)

(* Faulty variant: only a refused connection makes the metadata inactive.   *)
DoKeepsMetadata(config, md, answer) ==
    [ok |-> Accepted(config, answer),
     md |-> CASE Accepted(config, answer) -> Metadata(TRUE, WeightFrom(config, answer))
              [] ~Accepted(config, answer) /\ answer.connected -> md
              [] OTHER -> SetInactive]

(* Do: whether the check returns no error, and the metadata it leaves.      *)
Do(config, md, answer) ==
    [ok |-> Accepted(config, answer),
     md |-> IF Accepted(config, answer) THEN Metadata(TRUE, WeightFrom(config, answer))
            ELSE SetInactive]

(* A check that ran into its timeout or whose context was cancelled.        *)
NoAnswer == [connected |-> FALSE, complete |-> FALSE, status |-> "none",
             digest |-> "none", header |-> Absent, body |-> Absent]

(* GetCheckTimeout falls back to the connect timeout; with both zero an     *)
(* HTTP check waits for ever, while the context of a gRPC check has expired *)
(* already.  Connecting is bounded by the connect timeout, zero again being *)
(* no bound.                                                                *)
CheckTimeout(config) ==
    IF config.checkTimeout = 0 THEN config.connectTimeout ELSE config.checkTimeout

TimesOut(config) ==
    CASE config.kind = "tcp" -> config.connectTimeout > 0
      [] config.kind = "http" -> CheckTimeout(config) > 0
      [] config.kind = "grpc" -> TRUE
=============================================================================
