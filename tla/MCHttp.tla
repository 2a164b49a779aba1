------------------------------- MODULE MCHttp --------------------------------
(***************************************************************************)
(* An instance of Http for TLC: each kind of call and of refusal, and      *)
(* texts and numbers at the limits and beyond them.                        *)
(***************************************************************************)
EXTENDS Http

CONSTANTS t1, e1

Bearer == [scheme |-> "bearer", token |-> t1]
Unknown == [scheme |-> "bearer", token |-> "unknown"]
Basic == [scheme |-> "basic", token |-> t1]

Registration ==
    [cmd |-> Text(10, 4), label |-> Text(5, 5), cwd |-> Absent, env |-> Absent,
     autoStart |-> Absent, start |-> Absent]
Instance ==
    [requester |-> Text(5, 5), kind |-> Name("task"), key |-> Absent,
     options |-> Absent, label |-> Absent, ttl |-> Absent]

Path(segs) == [segs |-> segs, exact |-> TRUE]
Asks(path, method) ==
    [path |-> path, method |-> method, auth |-> Bearer, body |-> "ok", fields |-> Registration]
Registers(fields) == [Asks(Path(<<"processes">>), "POST") EXCEPT !.fields = fields]
Spawns(fields) == [Asks(Path(<<"spawn">>), "POST") EXCEPT !.fields = fields]

SomeRequests ==
    {Registers([Registration EXCEPT !.cmd = Text(4096, 4), !.label = Text(128, 128)]),
     Registers([Registration EXCEPT !.cmd = Text(4097, 4), !.env = Other]),
     Registers([Registration EXCEPT !.label = Absent, !.cmd = Text(200, 129)]),
     Registers([Registration EXCEPT !.label = Text(129, 1)]),
     Registers([Registration EXCEPT !.label = Text(2, 2), !.cwd = Number(1)]),
     Registers([Registration EXCEPT !.autoStart = Other, !.start = Other]),
     Spawns([Instance EXCEPT !.label = Text(256, 3), !.requester = Text(64, 64)]),
     Spawns([Instance EXCEPT !.label = Text(257, 3)]),
     Spawns([Instance EXCEPT !.kind = Name("service"), !.key = Other]),
     Spawns([Instance EXCEPT !.ttl = Number(60)]),
     Spawns([Instance EXCEPT !.ttl = Number(86401), !.label = Text(0, 0)]),
     [Registers(Registration) EXCEPT !.body = "declared too large"],
     [Registers(Registration) EXCEPT !.body = "turns out too large"],
     [Registers(Registration) EXCEPT !.auth = Unknown],
     Asks(Path(<<"processes", e1>>), "PUT"),
     Asks(Path(<<"processes", e1>>), "DELETE"),
     Asks(Path(<<"processes", e1>>), "POST"),
     Asks(Path(<<"processes", e1, "run">>), "POST"),
     Asks(Path(<<"processes", e1, "pause">>), "POST"),
     Asks([segs |-> <<"spawn">>, exact |-> FALSE], "POST"),
     [Asks(Path(<< >>), "HEAD") EXCEPT !.auth = Basic]}
=============================================================================
