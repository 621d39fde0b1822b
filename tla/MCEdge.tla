-------------------------------- MODULE MCEdge --------------------------------
\* An instance of Edge: two front doors of two versions, one client.  A second
\* is two ticks, a day two seconds.
EXTENDS Edge

MCEmbedded == [p \in Processes |-> IF p = "new" THEN 2 ELSE 1]
MCCapital == [m \in {"get"} |-> "GET"]

Ping == [method |-> "GET", path |-> "/ping", query |-> <<"a=1", "b=2">>, body |-> ""]
MCAsks == {Ping}
MCVariants ==
  {Ping, [Ping EXCEPT !.method = "get", !.query = <<"b=2", "a=1">>],
   [Ping EXCEPT !.method = "PUT"], [Ping EXCEPT !.path = "/f"],
   [Ping EXCEPT !.query = <<"b=2", "b=2">>], [Ping EXCEPT !.body = "x"]}
MCServiceOf == [path \in {"/ping", "/f"} |-> IF path = "/f" THEN "func" ELSE "ws"]

MCCreds == {[key |-> "k", secret |-> "s"], [key |-> "k", secret |-> "old"]}
MCStored == [key \in {"k"} |-> "s"]
=============================================================================
