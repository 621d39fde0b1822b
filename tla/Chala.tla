-------------------------------- MODULE Chala --------------------------------
(***************************************************************************)
(* chala's instance service (internal/chala): RunInstance, a PUT that any  *)
(* retry completes, TerminateInstance and DescribeInstances.               *)
(*                                                                         *)
(* chala keeps no state: the docker daemon's containers and networks are   *)
(* the state, and a handler is a series of calls to the daemon             *)
(* (internal/chala/docker) between which anything may happen.  Each call   *)
(* is a step.  The daemon is modelled from the calls and the answers the   *)
(* client code relies on.                                                  *)
(***************************************************************************)
EXTENDS Integers, FiniteSets

CONSTANTS
  Accounts,                \* the accounts that run instances
  Customers,               \* the accounts whose networks may be attached to
  Services,                \* Config.ServiceAccounts: they may attach
  Names,                   \* instance names
  Images,                  \* an image and its tags: all adopt compares but the attachment
  Requests,                \* RunInstance and TerminateInstance calls in flight
  Listers,                 \* DescribeInstances calls in flight
  MaxInstancesPerAccount,  \* Config.MaxInstancesPerAccount
  MaxIds,                  \* BOUND: containers ever created
  MayFail                  \* FALSE: no call ever fails

ASSUME ChalaAssumption ==
  /\ IsFiniteSet(Names) /\ IsFiniteSet(Requests)
  /\ Services \subseteq Accounts /\ "" \notin Customers
  /\ MaxInstancesPerAccount \in Nat \ {0} /\ MaxIds \in Nat
  /\ MayFail \in BOOLEAN

\* An account and a name: containerName is injective on them.
Instance == Accounts \X Names
\* NetworkName is injective on accounts: a network is its account.
Network == Accounts \union Customers
\* What a RunInstanceRequest asks for; attach is "" for no attachment.
Want == [image : Images, attach : Customers \union {""}]

Ids == 1 .. MaxIds

VARIABLES
  containers,  \* the daemon's containers, by id
  made,        \* how many ids it has given out
  networks,    \* the networks it has
  requests,    \* run and terminate handlers
  lists,       \* describeInstances handlers
  env          \* whether calls still fail, or have stopped to, for good

daemon == <<containers, made, networks>>
vars == <<containers, made, networks, requests, lists, env>>

-----------------------------------------------------------------------------
Gone == [status |-> "gone"]
Container == [key : Instance, want : Want, status : {"created", "running", "exited"},
              nets : SUBSET Network]

\* What a handler knows: what it was asked for, then the id it works on and
\* that container as it last saw it.
NoRequest == [at |-> "idle"]
Asking == {"inspect", "count", "network", "create", "lost"}
Finishing == {"look", "attach", "connect", "start", "respond"}
Request ==
  {NoRequest} \union
  [at : Asking, key : Instance, want : Want] \union
  [at : Finishing, key : Instance, want : Want, id : Ids, c : Container \union {Gone}] \union
  [at : {"find"}, key : Instance] \union
  [at : {"remove"}, key : Instance, id : Ids]

NoList == [at |-> "idle"]
List == {NoList} \union
        [at : {"list", "look", "answer"}, account : Accounts,
         asof : SUBSET Ids, todo : SUBSET Ids, found : SUBSET Ids]

TypeOK ==
  /\ containers \in [Ids -> Container \union {Gone}]
  /\ made \in 0 .. MaxIds
  /\ networks \in SUBSET Network
  /\ requests \in [Requests -> Request]
  /\ lists \in [Listers -> List]
  /\ env \in {"failing", "calm"}

Init ==
  /\ containers = [i \in Ids |-> Gone]
  /\ made = 0
  /\ networks = {}
  /\ requests = [r \in Requests |-> NoRequest]
  /\ lists = [l \in Listers |-> NoList]
  /\ env = IF MayFail THEN "failing" ELSE "calm"

Present == {i \in Ids : containers[i] # Gone}
Named(k) == {i \in Present : containers[i].key = k}
OfAccount(a) == {i \in Present : containers[i].key[1] = a}

Goto(r, at) == requests' = [requests EXCEPT ![r].at = at]
Reply(r) == requests' = [requests EXCEPT ![r] = NoRequest]

-----------------------------------------------------------------------------
(* RunInstance (server.go).                                                 *)

\* validateAttach: only a service account attaches, and to another's network.
Valid(k, w) == w.attach = "" \/ (k[1] \in Services /\ w.attach # k[1])

\* A call that passes authorization and validation; one that does not ends
\* before it has touched anything.
AskRun(r, k, w) ==
  /\ requests[r] = NoRequest
  /\ Valid(k, w)
  /\ requests' = [requests EXCEPT ![r] = [at |-> "inspect", key |-> k, want |-> w]]
  /\ UNCHANGED <<daemon, lists, env>>

Unstarted(c) == IF c.status = "created" THEN "start" ELSE "respond"

\* Mutation: a request without an attachment is attached too.
FinishUnguarded(w, c) == IF w.attach \notin c.nets THEN "attach" ELSE Unstarted(c)

\* What finish has left to do for a container last seen as c.
Finish(w, c) ==
  IF w.attach # "" /\ w.attach \notin c.nets THEN "attach" ELSE Unstarted(c)

\* The handler now works on container i.
Hold(r, i, at) ==
  requests' = [requests EXCEPT ![r] = [at |-> at, key |-> @.key, want |-> @.want,
                                       id |-> i, c |-> containers[i]]]

\* Mutation: whatever has the name is adopted, whoever asked for it.
AdoptAny(r, i) == Hold(r, i, Finish(requests[r].want, containers[i]))

\* Mutation: what exists is answered with as it is.
AdoptUnfinished(r, i) ==
  IF containers[i].want = requests[r].want THEN Hold(r, i, "respond") ELSE Reply(r)

\* adopt: the same request's instance is finished; another's is a mismatch.
Adopt(r, i) ==
  IF containers[i].want = requests[r].want
    THEN Hold(r, i, Finish(requests[r].want, containers[i]))
    ELSE Reply(r)

\* A retry finds its own instance; so does a second caller.
RunInspect(r) ==
  /\ requests[r].at = "inspect"
  /\ LET k == requests[r].key IN
       \/ Named(k) = {} /\ Goto(r, "count")
       \/ \E i \in Named(k) : Adopt(r, i)
  /\ UNCHANGED <<daemon, lists, env>>

\* Mutation: one more than the limit gets through.
RunCountOffByOne(r) ==
  /\ requests[r].at = "count"
  /\ IF Cardinality(OfAccount(requests[r].key[1])) > MaxInstancesPerAccount
       THEN Reply(r)
       ELSE Goto(r, "network")
  /\ UNCHANGED <<daemon, lists, env>>

\* The quota, for a name that does not exist yet.
RunCount(r) ==
  /\ requests[r].at = "count"
  /\ IF Cardinality(OfAccount(requests[r].key[1])) >= MaxInstancesPerAccount
       THEN Reply(r)
       ELSE Goto(r, "network")
  /\ UNCHANGED <<daemon, lists, env>>

\* EnsureNetwork for the account: a race to create it is won by either.
RunNetwork(r) ==
  /\ requests[r].at = "network"
  /\ networks' = networks \union {requests[r].key[1]}
  /\ Goto(r, "create")
  /\ UNCHANGED <<containers, made, lists, env>>

\* CreateContainer: the name is the lock.  At the bound, the daemon refuses.
RunCreate(r) ==
  /\ requests[r].at = "create"
  /\ LET k == requests[r].key IN
       \/ /\ Named(k) # {}
          /\ Goto(r, "lost")
          /\ UNCHANGED daemon
       \/ /\ Named(k) = {} /\ made < MaxIds
          /\ made' = made + 1
          /\ containers' = [containers EXCEPT ![made + 1] =
                              [key |-> k, want |-> requests[r].want,
                               status |-> "created", nets |-> {k[1]}]]
          /\ Hold(r, made + 1, "look")
          /\ UNCHANGED networks
       \/ /\ Named(k) = {} /\ made = MaxIds
          /\ Reply(r)
          /\ UNCHANGED daemon
  /\ UNCHANGED <<lists, env>>

\* ErrConflict: the winner's is the instance now, if it is still there.
RunLost(r) ==
  /\ requests[r].at = "lost"
  /\ LET k == requests[r].key IN
       \/ Named(k) = {} /\ Reply(r)
       \/ \E i \in Named(k) : Adopt(r, i)
  /\ UNCHANGED <<daemon, lists, env>>

\* Mutation: the new container is started before it is attached.
RunLookStartsFirst(r) ==
  /\ requests[r].at = "look"
  /\ LET i == requests[r].id IN
       IF containers[i] = Gone
         THEN Reply(r)
         ELSE Hold(r, i, Unstarted(containers[i]))
  /\ UNCHANGED <<daemon, lists, env>>

\* The container just made, looked up again.
RunLook(r) ==
  /\ requests[r].at = "look"
  /\ LET i == requests[r].id IN
       IF containers[i] = Gone
         THEN Reply(r)
         ELSE Hold(r, i, Finish(requests[r].want, containers[i]))
  /\ UNCHANGED <<daemon, lists, env>>

\* finish: the other account's network, if the container was not on it.
FinishNetwork(r) ==
  /\ requests[r].at = "attach"
  /\ networks' = networks \union {requests[r].want.attach}
  /\ Goto(r, "connect")
  /\ UNCHANGED <<containers, made, lists, env>>

\* ConnectNetwork; already connected is no error.
FinishConnect(r) ==
  /\ requests[r].at = "connect"
  /\ LET i == requests[r].id IN
       IF containers[i] = Gone
         THEN Reply(r) /\ UNCHANGED containers
         ELSE /\ containers' = [containers EXCEPT ![i].nets = @ \union {requests[r].want.attach}]
              /\ Goto(r, Unstarted(requests[r].c))
  /\ UNCHANGED <<made, networks, lists, env>>

\* StartContainer, because the container was "created" when last seen.  The
\* daemon starts it whatever it is now.
FinishStart(r) ==
  /\ requests[r].at = "start"
  /\ LET i == requests[r].id IN
       IF containers[i] = Gone
         THEN Reply(r) /\ UNCHANGED containers
         ELSE /\ containers' = [containers EXCEPT ![i].status = "running"]
              /\ Goto(r, "respond")
  /\ UNCHANGED <<made, networks, lists, env>>

\* respondWith: the container as it is now, or an error if it is gone.
Respond(r) ==
  /\ requests[r].at = "respond"
  /\ Reply(r)
  /\ UNCHANGED <<daemon, lists, env>>

-----------------------------------------------------------------------------
(* TerminateInstance.                                                       *)

AskTerminate(r, k) ==
  /\ requests[r] = NoRequest
  /\ requests' = [requests EXCEPT ![r] = [at |-> "find", key |-> k]]
  /\ UNCHANGED <<daemon, lists, env>>

\* find, by name: ResourceNotFound tells a caller that it is done.
TerminateFind(r) ==
  /\ requests[r].at = "find"
  /\ LET k == requests[r].key IN
       \/ Named(k) = {} /\ Reply(r)
       \/ \E i \in Named(k) :
            requests' = [requests EXCEPT ![r] = [at |-> "remove", key |-> k, id |-> i]]
  /\ UNCHANGED <<daemon, lists, env>>

\* Mutation: the container is removed by its name.
TerminateRemoveByName(r) ==
  /\ requests[r].at = "remove"
  /\ containers' = [i \in Ids |-> IF i \in Named(requests[r].key) THEN Gone ELSE containers[i]]
  /\ Reply(r)
  /\ UNCHANGED <<made, networks, lists, env>>

\* RemoveContainer, by id; gone already is no error.
TerminateRemove(r) ==
  /\ requests[r].at = "remove"
  /\ containers' = [containers EXCEPT ![requests[r].id] = Gone]
  /\ Reply(r)
  /\ UNCHANGED <<made, networks, lists, env>>

\* A call to the daemon fails, the client goes away or chala dies, before the
\* next call or after the last one took effect.
HandlerFails(r) ==
  /\ env = "failing"
  /\ requests[r] # NoRequest
  /\ Reply(r)
  /\ UNCHANGED <<daemon, lists, env>>

Handle(r) ==
  \/ RunInspect(r) \/ RunCount(r) \/ RunNetwork(r) \/ RunCreate(r) \/ RunLost(r) \/ RunLook(r)
  \/ FinishNetwork(r) \/ FinishConnect(r) \/ FinishStart(r) \/ Respond(r)
  \/ TerminateFind(r) \/ TerminateRemove(r)

-----------------------------------------------------------------------------
(* DescribeInstances.                                                       *)

AskList(l, a) ==
  /\ lists[l] = NoList
  /\ lists' = [lists EXCEPT ![l] = [at |-> "list", account |-> a,
                                    asof |-> {}, todo |-> {}, found |-> {}]]
  /\ UNCHANGED <<daemon, requests, env>>

\* ListContainers: the ids, all at once.
ListIds(l) ==
  /\ lists[l].at = "list"
  /\ LET ids == OfAccount(lists[l].account) IN
       lists' = [lists EXCEPT ![l] = [at |-> "look", account |-> @.account,
                                      asof |-> ids, todo |-> ids, found |-> {}]]
  /\ UNCHANGED <<daemon, requests, env>>

\* Mutation: an instance that is gone ends the listing.
ListLookStops(l) ==
  /\ lists[l].at = "look"
  /\ \E i \in lists[l].todo :
       lists' = [lists EXCEPT ![l] =
                   [at |-> "look", account |-> @.account, asof |-> @.asof,
                    todo |-> IF i \in Present THEN @.todo \ {i} ELSE {},
                    found |-> @.found \union ({i} \cap Present)]]
  /\ UNCHANGED <<daemon, requests, env>>

\* Then each is looked at, in the daemon's order; one that is gone is skipped.
ListLook(l) ==
  /\ lists[l].at = "look"
  /\ \E i \in lists[l].todo :
       lists' = [lists EXCEPT ![l] =
                   [at |-> "look", account |-> @.account, asof |-> @.asof,
                    todo |-> @.todo \ {i}, found |-> @.found \union ({i} \cap Present)]]
  /\ UNCHANGED <<daemon, requests, env>>

ListDone(l) ==
  /\ lists[l].at = "look"
  /\ lists[l].todo = {}
  /\ lists' = [lists EXCEPT ![l].at = "answer"]
  /\ UNCHANGED <<daemon, requests, env>>

\* The answer is sent; or, at any point before, an error is.
ListEnds(l) ==
  /\ lists[l].at = "answer" \/ (env = "failing" /\ lists[l] # NoList)
  /\ lists' = [lists EXCEPT ![l] = NoList]
  /\ UNCHANGED <<daemon, requests, env>>

-----------------------------------------------------------------------------
\* A container's process ends.  There is no restart policy.
ContainerExits(i) ==
  /\ containers[i].status = "running"
  /\ containers' = [containers EXCEPT ![i].status = "exited"]
  /\ UNCHANGED <<made, networks, requests, lists, env>>

Settle == env = "failing" /\ env' = "calm" /\ UNCHANGED <<daemon, requests, lists>>

Next ==
  \/ \E r \in Requests : Handle(r) \/ HandlerFails(r)
  \/ \E r \in Requests, k \in Instance : AskTerminate(r, k) \/ \E w \in Want : AskRun(r, k, w)
  \/ \E l \in Listers : ListIds(l) \/ ListLook(l) \/ ListDone(l) \/ ListEnds(l)
  \/ \E l \in Listers, a \in Accounts : AskList(l, a)
  \/ \E i \in Ids : ContainerExits(i)
  \/ Settle

Spec == Init /\ [][Next]_vars

\* The caller of a PUT that left its instance half made repeats it.
Retry(i) ==
  /\ containers[i].status = "created"
  /\ \E r \in Requests : AskRun(r, containers[i].key, containers[i].want)

\* Handlers run to their reply and failures end at some point; a caller that
\* keeps repeating a PUT gets a turn again and again, among the other calls.
FairSpec ==
  /\ Spec
  /\ \A r \in Requests : WF_vars(Handle(r))
  /\ \A i \in Ids : SF_vars(Retry(i))
  /\ WF_vars(Settle)

-----------------------------------------------------------------------------
(* Properties.                                                              *)

Attached(c) == c.want.attach = "" \/ c.want.attach \in c.nets

\* RUNNING means done: a container that was ever started is on the network its
\* caller asked for, whichever of several handlers finished it, each from a
\* look of its own (server.go:254-256).
RunningIsAttached ==
  \A i \in Present : containers[i].status # "created" => Attached(containers[i])

\* What a RunInstance is about to answer with, if it is still there, is the
\* one instance of that name, made for that very request, attached and
\* started: by this call, by the call it lost the race to, or by an earlier
\* one that died half way (server.go:129-131, 222-231, 237-238).
AnswerIsTrue ==
  \A r \in Requests :
    requests[r].at = "respond" /\ requests[r].id \in Present =>
      LET c == containers[requests[r].id] IN
        /\ Named(requests[r].key) = {requests[r].id}
        /\ c.want = requests[r].want
        /\ c.status # "created"
        /\ Attached(c)

\* The count and the create are calls apart, so an account can go over its
\* quota, by no more than the calls in flight (server.go:181-194).
AboutToCreate(a) ==
  {requests[r].key : r \in {q \in Requests : /\ requests[q].at \in {"network", "create"}
                                              /\ requests[q].key[1] = a}}
KeysOf(a) == {k \in Instance : k[1] = a /\ Named(k) # {}}
OvershootBounded ==
  \A a \in Accounts :
    Cardinality(KeysOf(a) \union AboutToCreate(a))
      <= MaxInstancesPerAccount - 1 + Cardinality(Requests)

\* A listing is made of looks at different times, and still holds every
\* instance that was there from the list to the answer, nothing made since,
\* and no name twice (server.go:367-383); nache takes an instance missing from
\* it for one that is gone.
ListIsWhole ==
  \A l \in Listers :
    lists[l].at = "answer" =>
      /\ lists[l].asof \cap Present \subseteq lists[l].found
      /\ lists[l].found \subseteq lists[l].asof
      /\ \A i, j \in lists[l].found \cap Present :
           containers[i].key = containers[j].key => i = j

\* The promise the rest is for: module InstanceService.  An instance is the
\* container of its name; a RunInstance is done once it is about to answer, a
\* terminate once what it found is gone (server.go:129-131, 316-317).
View(c) == [want |-> c.want, status |-> c.status,
            on |-> IF Attached(c) THEN "asked" ELSE "own"]
InstanceOf(k) ==
  IF Named(k) = {} THEN [status |-> "none"]
                   ELSE View(containers[CHOOSE i \in Named(k) : TRUE])
CallOf(q) ==
  CASE q.at = "idle" -> [op |-> "none"]
    [] q.at \in Asking \union Finishing ->
         [op |-> "run", key |-> q.key, want |-> q.want,
          state |-> IF q.at = "respond" THEN "done" ELSE "open"]
    [] q.at = "find" -> [op |-> "terminate", key |-> q.key, state |-> "open"]
    [] q.at = "remove" ->
         [op |-> "terminate", key |-> q.key,
          state |-> IF containers[q.id] = Gone THEN "done" ELSE "open"]

Promise == INSTANCE InstanceService WITH
             Key <- Instance, Want <- Want, Call <- Requests,
             instances <- [k \in Instance |-> InstanceOf(k)],
             calls <- [r \in Requests |-> CallOf(requests[r])]

\* Seen from outside, calls whose looks, creates, starts and removes mix in any
\* order, and that may die between any two, take effect one at a time: on the
\* one instance of the name, for the one call it was asked for in, never on
\* what was made for the name since (server.go:129-131, 237-238, 316-317).
ImplementsInstanceService == Promise!Spec

\* A RunInstance that dies at any step leaves something the same PUT completes
\* (server.go:237-238).
HalfMadeIsCompleted ==
  \A i \in Ids : (containers[i].status = "created") ~> (containers[i].status # "created")

\* "A container that exits must STAY exited, because a death the daemon quietly
\* papers over is one the reconciler never sees" (docker/docker.go:306-308).
ExitedStaysExited ==
  [][\A i \in Ids : containers[i].status = "exited"
                      => containers'[i].status \in {"exited", "gone"}]_vars
=============================================================================
