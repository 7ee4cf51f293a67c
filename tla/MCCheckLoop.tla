---------------------------- MODULE MCCheckLoop ----------------------------
(* Instances of CheckLoop: every kind of check, with and without a dynamic  *)
(* weight and timeouts, and answers that fail in each possible way.         *)
EXTENDS CheckLoop

Settings(kind, dynamic, inHeader, retries, timeout) ==
    [kind |-> kind, dynamic |-> dynamic, inHeader |-> inHeader, coeff |-> 0,
     retries |-> retries, status |-> IF kind = "http" THEN "200" ELSE "any",
     digest |-> IF dynamic THEN "any" ELSE "md5",
     connectTimeout |-> timeout, checkTimeout |-> 0]

MCCheckConfigs ==
    {Settings("tcp", FALSE, FALSE, 1, 1), Settings("http", FALSE, FALSE, 1, 0),
     Settings("http", TRUE, TRUE, 2, 1), Settings("http", TRUE, FALSE, 0, 1),
     Settings("grpc", TRUE, TRUE, 1, 0)}

Response(status, digest, header, body) ==
    [connected |-> TRUE, complete |-> TRUE, status |-> status, digest |-> digest,
     header |-> header, body |-> body]

MCAnswers ==
    {NoAnswer, [Response("200", "md5", Absent, Absent) EXCEPT !.complete = FALSE],
     Response("200", "md5", Absent, 3), Response("200", "other", 3, Garbage),
     Response("500", "md5", 3, 3), Response("SERVING", "md5", 3, Absent),
     Response("SERVING", "md5", Garbage, Absent)}
=============================================================================
