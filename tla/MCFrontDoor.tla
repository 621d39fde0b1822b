----------------------------- MODULE MCFrontDoor -----------------------------
\* Instances of FrontDoor: part of chala's routes (cmd/frontdoor/main.go) and
\* /ping, in two orders, and with one route declared wrongly.
EXTENDS FrontDoor

I == <<"/", "instances">>
Route(method, prefix, service, verb, named, here) ==
  [method |-> method, prefix |-> prefix, service |-> service,
   action |-> <<service, verb>>, named |-> named, type |-> "instance", here |-> here]

Describe == Route("GET", Append(I, "/"), "chala", "DescribeInstance", TRUE, FALSE)
Terminate == Route("DELETE", Append(I, "/"), "chala", "TerminateInstance", TRUE, FALSE)
List == Route("GET", I, "chala", "DescribeInstances", FALSE, FALSE)
Ping == Route("", <<"/", "ping">>, "dariya", "Ping", FALSE, TRUE)
Wrong == [Terminate EXCEPT !.action = Describe.action]

MCTables ==
  {<<List, Ping, Terminate, Describe>>, <<Describe, Terminate, Ping, List>>,
   <<List, Describe, Wrong>>}

MCServes == {Describe, Terminate, List}

MCAsks ==
  {[method |-> "GET", path |-> I, csrf |-> FALSE],
   [method |-> "GET", path |-> I \o <<"/", "web">>, csrf |-> FALSE],
   [method |-> "DELETE", path |-> I \o <<"/", "web">>, csrf |-> TRUE],
   [method |-> "DELETE", path |-> I \o <<"/", "web">>, csrf |-> FALSE],
   [method |-> "GET", path |-> Ping.prefix, csrf |-> FALSE]}

Statement(effect, action, resource) ==
  [effect |-> effect, actions |-> {action}, resources |-> {resource}]
MCDocuments ==
  {{Statement("allow", <<"chala", "*">>, <<"*">>), Statement("allow", Ping.action, <<"*">>)},
   {Statement("deny", Terminate.action, <<"chala", "instance", "*">>)}}
=============================================================================
