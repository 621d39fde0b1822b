--------------------------- MODULE InstanceService ---------------------------
(***************************************************************************)
(* What chala promises those who call it, with nothing of how it is done:  *)
(* a name has at most one instance, and each call takes effect in one      *)
(* step between its start and its answer.  No daemon, no ids, no looks     *)
(* that grow stale.  Module Chala implements this.                         *)
(*                                                                         *)
(* The promises are those of internal/chala/server.go: of two racing       *)
(* creates one gets through, and the loser gets the winner's instance if   *)
(* it asked for the same; RUNNING means done; a terminate takes away what  *)
(* has the name once, and a second one is told that it is done.            *)
(***************************************************************************)
CONSTANTS
  Key,     \* an account and a name
  Want,    \* what a RunInstance asks for
  Call     \* calls in flight

VARIABLES
  instances,   \* instances[k]: the instance of that name, if there is one
  calls        \* calls[r]: what was asked for, and whether it is still open

vars == <<instances, calls>>

\* An instance is what was asked for, its status, and the networks it is on:
\* its account's own, or all that were asked for.
None == [status |-> "none"]
Idle == [op |-> "none"]

Init ==
  /\ instances = [k \in Key |-> None]
  /\ calls = [r \in Call |-> Idle]

\* What call r has still to do, and to what.
Running(r) == calls[r].op = "run" /\ calls[r].state = "open"
Terminating(r) == calls[r].op = "terminate" /\ calls[r].state = "open"
Mine(r) ==
  /\ instances[calls[r].key] # None
  /\ instances[calls[r].key].want = calls[r].want

Change(k, i) == instances' = [instances EXCEPT ![k] = i]
Finished(r) == calls' = [calls EXCEPT ![r].state = "done"]

-----------------------------------------------------------------------------
AskRun(r, k, w) ==
  /\ calls[r] = Idle
  /\ calls' = [calls EXCEPT ![r] = [op |-> "run", key |-> k, want |-> w, state |-> "open"]]
  /\ UNCHANGED instances

AskTerminate(r, k) ==
  /\ calls[r] = Idle
  /\ calls' = [calls EXCEPT ![r] = [op |-> "terminate", key |-> k, state |-> "open"]]
  /\ UNCHANGED instances

\* An instance is made only where there is none, and as a call asks for it.
Make(r) ==
  /\ Running(r)
  /\ instances[calls[r].key] = None
  /\ \E on \in {"own", "asked"} :
       Change(calls[r].key, [want |-> calls[r].want, status |-> "created", on |-> on])
  /\ UNCHANGED calls

\* A call works on an instance that is as it asked for, whoever made it; it
\* is done when that instance is attached and has been started.
Attach(r) ==
  /\ Running(r) /\ Mine(r)
  /\ LET k == calls[r].key IN
       /\ Change(k, [instances[k] EXCEPT !.on = "asked"])
       /\ UNCHANGED calls \/ (instances[k].status # "created" /\ Finished(r))

\* Only what is attached is started; it may have ended in the meantime.
Start(r) ==
  /\ Running(r) /\ Mine(r)
  /\ LET k == calls[r].key IN
       /\ instances[k].on = "asked"
       /\ Change(k, [instances[k] EXCEPT !.status = "running"])
       /\ Finished(r)

\* Another call, or an earlier one, has done it all.
FindDone(r) ==
  /\ Running(r) /\ Mine(r)
  /\ instances[calls[r].key].on = "asked"
  /\ instances[calls[r].key].status # "created"
  /\ Finished(r)
  /\ UNCHANGED instances

\* A terminate takes away one instance, and ends.  Others of that name that
\* were under way may be done by it; they take away nothing more.
Remove(r) ==
  /\ Terminating(r)
  /\ instances[calls[r].key] # None
  /\ Change(calls[r].key, None)
  /\ \E others \in SUBSET {q \in Call \ {r} : Terminating(q) /\ calls[q].key = calls[r].key} :
       calls' = [q \in Call |-> IF q = r THEN Idle
                                ELSE IF q \in others THEN [calls[q] EXCEPT !.state = "done"]
                                ELSE calls[q]]

\* An answer when a call is done, an error at any point.
End(r) ==
  /\ calls[r] # Idle
  /\ calls' = [calls EXCEPT ![r] = Idle]
  /\ UNCHANGED instances

\* An instance's process ends.
Exit(k) ==
  /\ instances[k].status = "running"
  /\ Change(k, [instances[k] EXCEPT !.status = "exited"])
  /\ UNCHANGED calls

Next ==
  \/ \E r \in Call : Make(r) \/ Attach(r) \/ Start(r) \/ FindDone(r) \/ Remove(r) \/ End(r)
  \/ \E r \in Call, k \in Key : AskTerminate(r, k) \/ \E w \in Want : AskRun(r, k, w)
  \/ \E k \in Key : Exit(k)

Spec == Init /\ [][Next]_vars
=============================================================================
