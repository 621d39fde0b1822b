---------------------------- MODULE Chala_proofs ----------------------------
(***************************************************************************)
(* Theorems about module Chala, for every set of accounts, names, images,  *)
(* requests and listings and every bound.                                  *)
(***************************************************************************)
EXTENDS Chala, FiniteSetTheorems, TLAPS

-----------------------------------------------------------------------------
(* Type correctness.                                                        *)

\* A handler attaches only if that was asked for.
AttachAsked ==
  \A r \in Requests : requests[r].at \in {"attach", "connect"} => requests[r].want.attach # ""

LEMMA FinishType ==
  ASSUME NEW w, NEW c
  PROVE  Finish(w, c) \in Finishing /\ Unstarted(c) \in Finishing
BY DEF Finish, Unstarted, Finishing

\* What a handler may ask and hold.
LEMMA AskingFields ==
  ASSUME TypeOK, NEW r \in Requests, requests[r].at \in Asking \union Finishing
  PROVE  requests[r].key \in Instance /\ requests[r].want \in Want
BY DEF TypeOK, Request, NoRequest, Asking, Finishing

LEMMA FinishingFields ==
  ASSUME TypeOK, NEW r \in Requests, requests[r].at \in Finishing
  PROVE  requests[r].id \in Ids /\ requests[r].c \in Container \union {Gone}
BY DEF TypeOK, Request, NoRequest, Asking, Finishing

LEMMA HoldType ==
  ASSUME TypeOK, NEW r \in Requests, requests[r].at \in Asking \union Finishing,
         NEW i \in Ids, NEW at \in Finishing, Hold(r, i, at)
  PROVE  requests' \in [Requests -> Request]
BY AskingFields DEF Hold, TypeOK, Request

\* A handler that goes on keeps what it knows.
LEMMA GotoFields ==
  ASSUME TypeOK, NEW r \in Requests, requests[r].at \in Asking \union Finishing,
         NEW at, Goto(r, at)
  PROVE  /\ \A j \in Requests \ {r} : requests'[j] = requests[j]
         /\ requests'[r].at = at
         /\ requests'[r].key = requests[r].key
         /\ requests'[r].want = requests[r].want
         /\ requests[r].at \in Finishing =>
              requests'[r].id = requests[r].id /\ requests'[r].c = requests[r].c
<1>1. /\ requests'[r] = [requests[r] EXCEPT !.at = at]
      /\ \A j \in Requests \ {r} : requests'[j] = requests[j]
  BY DEF Goto, TypeOK
<1>2. CASE requests[r].at \in Asking
  <2>1. requests[r] \in [at : Asking, key : Instance, want : Want]
    BY <1>2 DEF TypeOK, Request, NoRequest, Asking, Finishing
  <2> QED
    BY <1>1, <1>2, <2>1 DEF Asking, Finishing
<1>3. CASE requests[r].at \in Finishing
  <2>1. requests[r] \in [at : Finishing, key : Instance, want : Want, id : Ids,
                         c : Container \union {Gone}]
    BY <1>3 DEF TypeOK, Request, NoRequest, Asking, Finishing
  <2> QED
    BY <1>1, <1>3, <2>1
<1> QED
  BY <1>2, <1>3

LEMMA AdoptType ==
  ASSUME TypeOK, NEW r \in Requests, requests[r].at \in Asking,
         NEW k, NEW i \in Named(k), Adopt(r, i)
  PROVE  requests' \in [Requests -> Request]
<1>1. CASE Reply(r)
  BY <1>1 DEF Reply, TypeOK, Request
<1> QED
  BY <1>1, HoldType, FinishType DEF Adopt, Named, Present

LEMMA HandlerType ==
  ASSUME TypeOK, AttachAsked, NEW r \in Requests, Handle(r) \/ HandlerFails(r)
  PROVE  TypeOK'
<1> USE DEF TypeOK, daemon
<1> DEFINE q == requests[r]
<1>2. ASSUME NEW at \in Asking, q.at \in Asking, Goto(r, at)
      PROVE  requests' \in [Requests -> Request]
  BY <1>2 DEF Goto, Request, NoRequest, Asking, Finishing
<1>3. ASSUME NEW at \in Finishing, q.at \in Finishing, Goto(r, at)
      PROVE  requests' \in [Requests -> Request]
  BY <1>3 DEF Goto, Request, NoRequest, Asking, Finishing
<1>1. ASSUME Reply(r)
      PROVE  requests' \in [Requests -> Request]
  BY <1>1 DEF Reply, Request
<1>4. CASE RunInspect(r)
  BY <1>2, <1>4, AdoptType DEF RunInspect, Asking
<1>5. CASE RunCount(r)
  BY <1>2, <1>5, <1>1 DEF RunCount, Asking
<1>6. CASE RunNetwork(r)
  BY <1>2, <1>6, AskingFields DEF RunNetwork, Asking, Network, Instance
<1>7. CASE RunCreate(r)
  <2>1. q.key \in Instance /\ q.want \in Want
    BY <1>7, AskingFields DEF RunCreate, Asking
  <2>2. CASE Goto(r, "lost") /\ UNCHANGED daemon
    BY <1>2, <1>7, <2>2 DEF RunCreate, Asking
  <2>3. CASE Reply(r) /\ UNCHANGED daemon
    BY <1>7, <1>1, <2>3 DEF RunCreate
  <2>4. CASE /\ made < MaxIds
             /\ made' = made + 1
             /\ containers' = [containers EXCEPT ![made + 1] =
                                 [key |-> q.key, want |-> q.want,
                                  status |-> "created", nets |-> {q.key[1]}]]
             /\ Hold(r, made + 1, "look")
             /\ UNCHANGED networks
    <3>1. made + 1 \in Ids /\ made + 1 \in 0 .. MaxIds
      <4>1. made < MaxIds /\ made \in 0 .. MaxIds /\ MaxIds \in Nat
        BY <2>4, ChalaAssumption
      <4> QED
        BY <4>1 DEF Ids
    <3>2. [key |-> q.key, want |-> q.want, status |-> "created", nets |-> {q.key[1]}]
            \in Container
      BY <2>1 DEF Container, Instance, Network
    <3>3. requests' \in [Requests -> Request]
      BY <1>7, <2>4, <3>1, HoldType DEF RunCreate, Asking, Finishing
    <3> QED
      BY <1>7, <2>4, <3>1, <3>2, <3>3 DEF RunCreate
  <2> QED
    BY <1>7, <2>2, <2>3, <2>4 DEF RunCreate
<1>8. CASE RunLost(r)
  BY <1>8, <1>1, AdoptType DEF RunLost, Asking
<1>9. CASE RunLook(r)
  BY <1>9, <1>1, HoldType, FinishType, FinishingFields DEF RunLook, Finishing
<1>10. CASE FinishNetwork(r)
  <2>1. q.want \in Want /\ q.want.attach # ""
    BY <1>10, AskingFields DEF FinishNetwork, Finishing, AttachAsked
  <2> QED
    BY <1>3, <1>10, <2>1 DEF FinishNetwork, Finishing, Want, Network
<1>11. CASE FinishConnect(r)
  <2>1. q.want \in Want /\ q.want.attach # "" /\ q.id \in Ids
    BY <1>11, AskingFields, FinishingFields DEF FinishConnect, Finishing, AttachAsked
  <2>2. CASE containers[q.id] = Gone
    BY <1>11, <1>1, <2>2 DEF FinishConnect
  <2>3. CASE containers[q.id] # Gone
    <3>1. containers[q.id] \in Container
      BY <2>1, <2>3
    <3>2. [containers[q.id] EXCEPT !.nets = @ \union {q.want.attach}] \in Container
      BY <2>1, <3>1 DEF Container, Want, Network
    <3>3. containers' = [containers EXCEPT ![q.id] =
                           [containers[q.id] EXCEPT !.nets = @ \union {q.want.attach}]]
      BY <1>11, <2>1, <2>3 DEF FinishConnect
    <3> QED
      BY <1>3, <1>11, <2>1, <2>3, <3>2, <3>3, FinishType DEF FinishConnect, Finishing
  <2> QED
    BY <2>2, <2>3
<1>12. CASE FinishStart(r)
  <2>1. q.id \in Ids
    BY <1>12, FinishingFields DEF FinishStart, Finishing
  <2>2. CASE containers[q.id] = Gone
    BY <1>12, <1>1, <2>2 DEF FinishStart
  <2>3. CASE containers[q.id] # Gone
    <3>1. [containers[q.id] EXCEPT !.status = "running"] \in Container
      BY <2>1, <2>3 DEF Container
    <3> QED
      BY <1>3, <1>12, <2>1, <2>3, <3>1 DEF FinishStart, Finishing
  <2> QED
    BY <2>2, <2>3
<1>13. CASE Respond(r) \/ HandlerFails(r)
  BY <1>13, <1>1 DEF Respond, HandlerFails
<1>14. CASE TerminateFind(r)
  <2>1. q.key \in Instance
    BY <1>14 DEF TerminateFind, Request, NoRequest, Asking, Finishing
  <2>2. ASSUME NEW i \in Named(q.key),
               requests' = [requests EXCEPT ![r] = [at |-> "remove", key |-> q.key, id |-> i]]
        PROVE  requests' \in [Requests -> Request]
    BY <2>1, <2>2 DEF Named, Present, Request
  <2> QED
    BY <1>14, <1>1, <2>2 DEF TerminateFind
<1>15. CASE TerminateRemove(r)
  BY <1>15, <1>1 DEF TerminateRemove
<1> QED
  BY <1>4, <1>5, <1>6, <1>7, <1>8, <1>9, <1>10, <1>11, <1>12, <1>13, <1>14, <1>15 DEF Handle

LEMMA AttachAskedStep ==
  ASSUME TypeOK, AttachAsked, NEW r \in Requests, Handle(r) \/ HandlerFails(r)
  PROVE  AttachAsked'
<1>1. ASSUME NEW i, NEW w, NEW c, requests[r].want = w, Hold(r, i, Finish(w, c))
      PROVE  AttachAsked'
  BY <1>1 DEF Hold, Finish, Unstarted, AttachAsked, TypeOK
<1>2. ASSUME Reply(r)
      PROVE  AttachAsked'
  BY <1>2 DEF Reply, NoRequest, AttachAsked, TypeOK
<1>3. ASSUME NEW i, Hold(r, i, "look")
      PROVE  AttachAsked'
  BY <1>3 DEF Hold, AttachAsked, TypeOK
<1>4. ASSUME NEW at, Goto(r, at), at \notin {"attach", "connect"},
             requests[r].at \in Asking \union Finishing
      PROVE  AttachAsked'
  <2>1. \A p \in Requests \ {r} : requests'[p] = requests[p]
    BY <1>4, GotoFields
  <2>2. requests'[r].at \notin {"attach", "connect"}
    BY <1>4, GotoFields
  <2> QED
    BY <2>1, <2>2 DEF AttachAsked
<1>5. ASSUME requests[r].at = "attach", Goto(r, "connect")
      PROVE  AttachAsked'
  <2>1. requests[r].at \in Asking \union Finishing
    BY <1>5 DEF Finishing
  <2>2. \A p \in Requests \ {r} : requests'[p] = requests[p]
    BY <1>5, <2>1, GotoFields
  <2>3. requests'[r].want = requests[r].want
    BY <1>5, <2>1, GotoFields
  <2> QED
    BY <1>5, <2>2, <2>3 DEF AttachAsked
<1>6. ASSUME NEW k, NEW i, requests' = [requests EXCEPT ![r] = [at |-> "remove", key |-> k, id |-> i]]
      PROVE  AttachAsked'
  BY <1>6 DEF AttachAsked, TypeOK
<1>7. CASE RunInspect(r) \/ RunLost(r) \/ RunLook(r)
  BY <1>1, <1>2, <1>4, <1>7 DEF RunInspect, RunLost, RunLook, Adopt, Asking
<1>8. CASE RunCount(r) \/ RunNetwork(r) \/ RunCreate(r)
  BY <1>2, <1>3, <1>4, <1>8 DEF RunCount, RunNetwork, RunCreate, Asking
<1>9. CASE FinishNetwork(r) \/ FinishConnect(r) \/ FinishStart(r)
  BY <1>2, <1>4, <1>5, <1>9 DEF FinishNetwork, FinishConnect, FinishStart, Unstarted, Finishing
<1>10. CASE Respond(r) \/ HandlerFails(r) \/ TerminateFind(r) \/ TerminateRemove(r)
  BY <1>2, <1>6, <1>10 DEF Respond, HandlerFails, TerminateFind, TerminateRemove
<1> QED
  BY <1>7, <1>8, <1>9, <1>10 DEF Handle

LEMMA AskStep ==
  ASSUME TypeOK, AttachAsked, NEW r \in Requests, NEW k \in Instance,
         AskTerminate(r, k) \/ \E w \in Want : AskRun(r, k, w)
  PROVE  TypeOK' /\ AttachAsked'
<1>1. CASE AskTerminate(r, k)
  BY <1>1 DEF AskTerminate, TypeOK, AttachAsked, Request, daemon
<1>2. ASSUME NEW w \in Want, AskRun(r, k, w)
      PROVE  TypeOK' /\ AttachAsked'
  BY <1>2 DEF AskRun, TypeOK, AttachAsked, Request, Asking, daemon
<1> QED
  BY <1>1, <1>2

LEMMA ListType ==
  ASSUME TypeOK, AttachAsked, NEW l \in Listers,
         \/ ListIds(l) \/ ListLook(l) \/ ListDone(l) \/ ListEnds(l)
         \/ \E a \in Accounts : AskList(l, a)
  PROVE  TypeOK' /\ AttachAsked'
<1> USE DEF daemon, List, NoList
<1>1. UNCHANGED <<daemon, requests, env>>
  BY DEF ListIds, ListLook, ListDone, ListEnds, AskList
<1>2. lists[l] \in List
  BY DEF TypeOK
<1>3. \E x \in List : lists' = [lists EXCEPT ![l] = x]
  <2>1. CASE ListIds(l)
    <3>1. OfAccount(lists[l].account) \in SUBSET Ids /\ lists[l].account \in Accounts
      BY <1>2, <2>1 DEF OfAccount, Present, ListIds
    <3> QED
      BY <2>1, <3>1 DEF ListIds
  <2>2. CASE ListLook(l)
    <3>1. lists[l] \in [at : {"list", "look", "answer"}, account : Accounts,
                        asof : SUBSET Ids, todo : SUBSET Ids, found : SUBSET Ids]
      BY <1>2, <2>2 DEF ListLook
    <3>2. PICK i \in lists[l].todo :
            lists' = [lists EXCEPT ![l] =
                        [at |-> "look", account |-> @.account, asof |-> @.asof,
                         todo |-> @.todo \ {i}, found |-> @.found \union ({i} \cap Present)]]
      BY <2>2 DEF ListLook
    <3> QED
      BY <3>1, <3>2
  <2>3. CASE ListDone(l)
    <3>1. [lists[l] EXCEPT !.at = "answer"] \in List
      BY <1>2, <2>3 DEF ListDone
    <3> QED
      BY <2>3, <3>1 DEF ListDone, TypeOK
  <2>4. CASE ListEnds(l)
    BY <2>4 DEF ListEnds
  <2>5. ASSUME NEW a \in Accounts, AskList(l, a)
        PROVE  \E x \in List : lists' = [lists EXCEPT ![l] = x]
    <3>1. [at |-> "list", account |-> a, asof |-> {}, todo |-> {}, found |-> {}] \in List
      OBVIOUS
    <3> QED
      BY <2>5, <3>1 DEF AskList
  <2> QED
    BY <2>1, <2>2, <2>3, <2>4, <2>5
<1>4. lists' \in [Listers -> List]
  BY <1>3 DEF TypeOK
<1> QED
  BY <1>1, <1>4 DEF TypeOK, AttachAsked

LEMMA TypeStep ==
  ASSUME TypeOK, AttachAsked, [Next]_vars
  PROVE  TypeOK' /\ AttachAsked'
<1>1. CASE UNCHANGED vars
  BY <1>1 DEF vars, TypeOK, AttachAsked
<1>2. ASSUME NEW i \in Ids, ContainerExits(i)
      PROVE  TypeOK' /\ AttachAsked'
  <2>1. containers[i] \in Container
    BY <1>2 DEF ContainerExits, TypeOK, Gone
  <2>2. [containers[i] EXCEPT !.status = "exited"] \in Container
    BY <2>1 DEF Container
  <2> QED
    BY <1>2, <2>2 DEF ContainerExits, TypeOK, AttachAsked
<1>3. CASE Settle
  BY <1>3 DEF Settle, daemon, TypeOK, AttachAsked
<1> QED
  BY <1>1, <1>2, <1>3, HandlerType, AttachAskedStep, AskStep, ListType DEF Next

LEMMA InitType == Init => TypeOK /\ AttachAsked
<1> SUFFICES ASSUME Init
             PROVE  TypeOK /\ AttachAsked
  OBVIOUS
<1>1. made \in 0 .. MaxIds /\ env \in {"failing", "calm"}
  <2>1. made \in 0 .. MaxIds
    <3>1. made = 0 /\ MaxIds \in Nat
      BY ChalaAssumption DEF Init
    <3> QED
      BY <3>1
  <2>2. env \in {"failing", "calm"}
    BY Zenon DEF Init
  <2> QED
    BY <2>1, <2>2
<1>2. requests \in [Requests -> Request] /\ lists \in [Listers -> List] /\ AttachAsked
  BY DEF Init, AttachAsked, NoRequest, Request, NoList, List
<1>3. containers \in [Ids -> Container \union {Gone}] /\ networks \in SUBSET Network
  BY DEF Init
<1> QED
  BY <1>1, <1>2, <1>3 DEF TypeOK

\* Every variable keeps its type (TypeOK); what is attached to was asked for.
THEOREM TypeCorrect == Spec => []TypeOK
<1>1. TypeOK /\ AttachAsked /\ [Next]_vars => (TypeOK /\ AttachAsked)'
  BY TypeStep
<1> QED
  BY <1>1, InitType, PTL DEF Spec

-----------------------------------------------------------------------------
(* RUNNING means done, and an answer is true.                               *)

\* No two containers share a name, and no id is given out twice.
NamesUnique == \A i, j \in Present : containers[i].key = containers[j].key => i = j
FreshIds == \A i \in Present : i <= made

\* What a handler knows of the container it works on, if that still exists:
\* whose it is, and where it has got to since it was last looked at.
Knows(q, c) ==
  /\ c.key = q.key
  /\ c.want = q.want
  /\ q.at \in {"attach", "connect"} /\ q.c.status # "created" => c.status # "created"
  /\ q.at \in {"start", "respond"} => Attached(c)
  /\ q.at = "respond" => c.status # "created"
LookHolds ==
  \A r \in Requests :
    requests[r].at \in Finishing =>
      /\ requests[r].id <= made
      /\ requests[r].id \in Present => Knows(requests[r], containers[requests[r].id])

IInv == TypeOK /\ AttachAsked /\ NamesUnique /\ FreshIds /\ RunningIsAttached /\ LookHolds

\* A step that leaves the daemon alone and sends no handler on.
LEMMA KeepsDaemon ==
  ASSUME IInv, TypeOK', AttachAsked', UNCHANGED <<containers, made>>,
         \A r \in Requests : requests'[r] = requests[r] \/ requests'[r].at \notin Finishing
  PROVE  IInv'
<1>1. Present' = Present
  BY DEF Present
<1>2. NamesUnique' /\ FreshIds' /\ RunningIsAttached'
  BY <1>1 DEF IInv, NamesUnique, FreshIds, RunningIsAttached, Attached
<1>3. LookHolds'
  BY <1>1 DEF IInv, LookHolds
<1> QED
  BY <1>2, <1>3 DEF IInv

\* A handler that takes a look at container i, and goes on from what it saw.
LEMMA Looks ==
  ASSUME IInv, TypeOK', AttachAsked', UNCHANGED <<containers, made>>,
         NEW r \in Requests, requests[r].at \in Asking \union Finishing,
         NEW i \in Present, containers[i].key = requests[r].key,
         containers[i].want = requests[r].want,
         Hold(r, i, Finish(requests[r].want, containers[i]))
  PROVE  IInv'
<1>1. Present' = Present
  BY DEF Present
<1>2. NamesUnique' /\ FreshIds' /\ RunningIsAttached'
  BY <1>1 DEF IInv, NamesUnique, FreshIds, RunningIsAttached, Attached
<1>3. /\ \A j \in Requests \ {r} : requests'[j] = requests[j]
      /\ requests'[r] = [at |-> Finish(requests[r].want, containers[i]),
                         key |-> requests[r].key, want |-> requests[r].want,
                         id |-> i, c |-> containers[i]]
  BY DEF Hold, IInv, TypeOK
<1>4. LookHolds'
  <2>1. ASSUME NEW j \in Requests \ {r}, requests'[j].at \in Finishing
        PROVE  requests'[j] = requests[j]
    BY <1>3
  <2>2. i <= made /\ (containers[i].status # "created" => Attached(containers[i]))
    BY DEF IInv, FreshIds, RunningIsAttached
  <2>3. requests'[r].at = Finish(containers[i].want, containers[i])
    BY <1>3
  <2>4. requests'[r].at = "start" \/ requests'[r].at = "respond" => Attached(containers[i])
    BY <2>3 DEF Finish, Attached
  <2>5. requests'[r].at = "respond" => containers[i].status # "created"
    BY <2>3 DEF Finish, Unstarted
  <2>6. /\ requests'[r].id = i /\ requests'[r].c = containers[i]
        /\ containers[i].key = requests'[r].key /\ containers[i].want = requests'[r].want
    BY <1>3
  <2>7. ASSUME NEW j \in Requests, requests'[j].at \in Finishing
        PROVE  /\ requests'[j].id <= made
               /\ requests'[j].id \in Present => Knows(requests'[j], containers[requests'[j].id])
    <3>1. CASE j = r
      BY <2>2, <2>4, <2>5, <2>6, <3>1 DEF Knows
    <3>2. CASE j # r
      BY <2>1, <2>7, <3>2 DEF IInv, LookHolds
    <3> QED
      BY <3>1, <3>2
  <2> QED
    BY <1>1, <2>7 DEF LookHolds
<1> QED
  BY <1>2, <1>4 DEF IInv

\* A step of handler r, or of no handler, in which container i, if it is still
\* there, only gets on: it gains networks, or it starts or ends once attached.
LEMMA GetsOn ==
  ASSUME IInv, TypeOK', AttachAsked', UNCHANGED made, NEW i \in Present, NEW n \in Container,
         containers' = [containers EXCEPT ![i] = n],
         n.key = containers[i].key, n.want = containers[i].want,
         containers[i].nets \subseteq n.nets,
         containers[i].status # "created" => n.status # "created",
         n.status # "created" => Attached(n),
         \A j \in Requests :
           \/ requests'[j] = requests[j]
           \/ requests'[j].at \notin Finishing
           \/ /\ requests'[j].id = i
              /\ requests'[j].key = n.key /\ requests'[j].want = n.want
              /\ requests'[j].at \in {"start", "respond"} => Attached(n)
              /\ requests'[j].at = "respond" => n.status # "created"
              /\ requests'[j].at \notin {"attach", "connect"}
  PROVE  IInv'
<1>1. n # Gone /\ Present' = Present
  BY DEF Present, IInv, TypeOK, Container, Gone
<1>2. /\ \A j \in Present \ {i} : containers'[j] = containers[j]
      /\ containers'[i] = n
  BY DEF Present, IInv, TypeOK
<1>3. NamesUnique' /\ FreshIds'
  BY <1>1, <1>2 DEF IInv, NamesUnique, FreshIds
<1>4. RunningIsAttached'
  <2>1. \A j \in Present : containers[j].status # "created" => Attached(containers[j])
    BY DEF IInv, RunningIsAttached
  <2>2. ASSUME NEW j \in Present, containers'[j].status # "created"
        PROVE  Attached(containers'[j])
    <3> HIDE DEF Attached
    <3>1. CASE j = i
      BY <1>2, <2>2, <3>1, Zenon
    <3>2. CASE j # i
      <4>1. containers'[j] = containers[j]
        BY <1>2, <3>2
      <4> QED
        BY <2>1, <2>2, <4>1, Zenon
    <3> QED
      BY <3>1, <3>2, Zenon
  <2>3. Present' = Present
    BY <1>1
  <2>4. \A j \in Present' : containers'[j].status # "created" => Attached(containers'[j])
    BY <2>2, <2>3, Zenon
  <2> QED
    BY <2>4, Zenon DEF RunningIsAttached, Attached
<1>5. Attached(containers[i]) => Attached(n)
  BY DEF Attached
<1>6. LookHolds'
  <2> SUFFICES ASSUME NEW j \in Requests, requests'[j].at \in Finishing
               PROVE  /\ requests'[j].id <= made
                      /\ requests'[j].id \in Present =>
                           Knows(requests'[j], containers'[requests'[j].id])
    BY <1>1 DEF LookHolds
  <2>1. CASE requests'[j] = requests[j]
    <3>1. CASE requests[j].id = i
      BY <1>2, <1>5, <2>1, <3>1 DEF IInv, LookHolds, Knows
    <3>2. CASE requests[j].id # i
      BY <1>2, <2>1, <3>2 DEF IInv, LookHolds
    <3> QED
      BY <3>1, <3>2
  <2>2. CASE requests'[j].id = i
    BY <1>2, <2>1, <2>2 DEF IInv, FreshIds, Knows
  <2> QED
    BY <2>1, <2>2
<1> QED
  BY <1>3, <1>4, <1>6 DEF IInv

LEMMA AttachedStays ==
  ASSUME NEW c, NEW d, d.want = c.want, c.nets \subseteq d.nets, Attached(c)
  PROVE  Attached(d)
<1>1. d.want.attach = c.want.attach
  OBVIOUS
<1> QED
  BY <1>1 DEF Attached

LEMMA CreateInv ==
  ASSUME IInv, TypeOK', AttachAsked', NEW r \in Requests, RunCreate(r)
  PROVE  IInv'
<1> DEFINE q == requests[r]
           n == [key |-> q.key, want |-> q.want, status |-> "created", nets |-> {q.key[1]}]
<1>1. CASE UNCHANGED daemon /\ (Goto(r, "lost") \/ Reply(r))
  <2>1. q.at \in Asking
    BY DEF RunCreate, Asking
  <2>2. \A j \in Requests : requests'[j] = requests[j] \/ requests'[j].at \notin Finishing
    BY <1>1, <2>1, GotoFields DEF IInv, TypeOK, Reply, NoRequest, Finishing
  <2> QED
    BY <1>1, <2>2, KeepsDaemon DEF daemon
<1>2. CASE /\ Named(q.key) = {} /\ made < MaxIds
           /\ made' = made + 1
           /\ containers' = [containers EXCEPT ![made + 1] = n]
           /\ Hold(r, made + 1, "look")
  <2>1. made + 1 \in Ids /\ made \in 0 .. MaxIds
    <3>1. made < MaxIds /\ made \in 0 .. MaxIds /\ MaxIds \in Nat
      BY <1>2, ChalaAssumption DEF IInv, TypeOK
    <3> QED
      BY <3>1 DEF Ids
  <2>2. made + 1 \notin Present /\ \A i \in Present : i <= made
    BY <2>1 DEF IInv, FreshIds
  <2>3. /\ \A i \in Ids : i # made + 1 => containers'[i] = containers[i]
        /\ containers'[made + 1] = n
    BY <1>2, <2>1 DEF IInv, TypeOK
  <2>4. n # Gone /\ n.key = q.key /\ n.want = q.want /\ n.status = "created"
    BY DEF Gone
  <2>5. Present' = Present \union {made + 1}
    BY <2>1, <2>3, <2>4 DEF Present
  <2>6. /\ requests'[r].at = "look" /\ requests'[r].id = made + 1
        /\ requests'[r].key = q.key /\ requests'[r].want = q.want
        /\ \A j \in Requests \ {r} : requests'[j] = requests[j]
    BY <1>2 DEF Hold, IInv, TypeOK
  <2> HIDE DEF n, q
  <2>7. FreshIds'
    BY <1>2, <2>1, <2>2, <2>5 DEF FreshIds, IInv, TypeOK, Present, Ids
  <2>8. NamesUnique'
    <3>1. \A i \in Present : containers[i].key # n.key
      BY <1>2, <2>4 DEF Named
    <3>2. \A i \in Present : i # made + 1 /\ containers'[i] = containers[i]
      BY <2>2, <2>3 DEF Present
    <3> QED
      BY <2>3, <2>5, <3>1, <3>2 DEF IInv, NamesUnique
  <2>9. RunningIsAttached'
    <3>1. \A i \in Present : containers'[i] = containers[i]
      BY <2>2, <2>3 DEF Present
    <3> QED
      BY <2>3, <2>4, <2>5, <3>1 DEF IInv, RunningIsAttached, Attached
  <2>10. LookHolds'
    <3>1. ASSUME NEW j \in Requests \ {r}, requests[j].at \in Finishing
          PROVE  /\ requests[j].id <= made' /\ requests[j].id # made + 1
                 /\ requests[j].id \in Present' => requests[j].id \in Present
                 /\ requests[j].id \in Present =>
                      containers'[requests[j].id] = containers[requests[j].id]
      <4>1. requests[j].id \in Ids /\ requests[j].id <= made
        BY <3>1, FinishingFields DEF IInv, LookHolds
      <4> QED
        BY <1>2, <2>1, <2>3, <2>5, <4>1 DEF Ids
    <3>2. made' = made + 1 /\ made + 1 <= made'
      BY <1>2, <2>1
    <3>3. ASSUME NEW j \in Requests \ {r}, requests'[j].at \in Finishing
          PROVE  requests'[j] = requests[j] /\ requests[j].at \in Finishing
      BY <2>6, <3>3
    <3> QED
      <4>1. Knows(requests'[r], containers'[requests'[r].id])
        BY <2>3, <2>4, <2>6 DEF Knows
      <4>2. requests'[r].id <= made'
        BY <2>6, <3>2
      <4> QED
        BY <3>1, <3>3, <4>1, <4>2 DEF IInv, LookHolds
  <2> QED
    BY <2>7, <2>8, <2>9, <2>10 DEF IInv
<1> QED
  BY <1>1, <1>2 DEF RunCreate

LEMMA RemoveInv ==
  ASSUME IInv, TypeOK', AttachAsked', NEW r \in Requests, TerminateRemove(r)
  PROVE  IInv'
<1> DEFINE i == requests[r].id
<1>1. /\ \A j \in Ids : j # i => containers'[j] = containers[j]
      /\ \A j \in Ids : j = i => containers'[j] = Gone
      /\ UNCHANGED made
  BY DEF TerminateRemove, IInv, TypeOK
<1>2. Present' \subseteq Present /\ \A j \in Present' : containers'[j] = containers[j]
  BY <1>1 DEF Present
<1>3. \A j \in Requests : requests'[j] = requests[j] \/ requests'[j].at \notin Finishing
  BY DEF TerminateRemove, Reply, NoRequest, Finishing, IInv, TypeOK
<1>4. NamesUnique' /\ FreshIds'
  BY <1>1, <1>2 DEF IInv, NamesUnique, FreshIds
<1>6. RunningIsAttached'
  BY <1>2 DEF IInv, RunningIsAttached, Attached
<1>5. LookHolds'
  BY <1>1, <1>2, <1>3 DEF IInv, LookHolds
<1> QED
  BY <1>4, <1>6, <1>5 DEF IInv

LEMMA HandlerInv ==
  ASSUME IInv, TypeOK', AttachAsked', NEW r \in Requests, Handle(r) \/ HandlerFails(r)
  PROVE  IInv'
<1> DEFINE q == requests[r]
<1>1. ASSUME Reply(r)
      PROVE  \A j \in Requests : requests'[j] = requests[j] \/ requests'[j].at \notin Finishing
  BY <1>1 DEF Reply, NoRequest, Finishing, IInv, TypeOK
<1>2. ASSUME NEW at \in Asking, q.at \in Asking, Goto(r, at)
      PROVE  \A j \in Requests : requests'[j] = requests[j] \/ requests'[j].at \notin Finishing
  BY <1>2, GotoFields DEF Asking, Finishing, IInv
<1>3. ASSUME NEW i \in Named(q.key), Adopt(r, i), q.at \in Asking, UNCHANGED <<containers, made>>
      PROVE  IInv'
  <2>1. CASE Reply(r)
    BY <1>1, <1>3, <2>1, KeepsDaemon
  <2>2. i \in Present /\ containers[i].key = q.key
    BY <1>3 DEF Named
  <2> QED
    BY <1>3, <2>1, <2>2, Looks DEF Adopt
<1>4. CASE RunInspect(r)
  BY <1>2, <1>3, <1>4, KeepsDaemon DEF RunInspect, Asking, daemon
<1>5. CASE RunCount(r)
  BY <1>1, <1>2, <1>5, KeepsDaemon DEF RunCount, Asking, daemon
<1>6. CASE RunNetwork(r)
  BY <1>2, <1>6, KeepsDaemon DEF RunNetwork, Asking
<1>7. CASE RunLost(r)
  BY <1>1, <1>3, <1>7, KeepsDaemon DEF RunLost, Asking, daemon
<1>8. CASE RunLook(r)
  <2>1. q.id \in Ids /\ q.at \in Finishing
    BY <1>8, FinishingFields DEF RunLook, Finishing, IInv
  <2>2. CASE containers[q.id] = Gone
    BY <1>1, <1>8, <2>2, KeepsDaemon DEF RunLook, daemon
  <2>3. CASE containers[q.id] # Gone
    <3>1. q.id \in Present
      BY <2>1, <2>3 DEF Present
    <3> QED
      BY <1>8, <2>1, <2>3, <3>1, Looks DEF RunLook, daemon, IInv, LookHolds, Knows
  <2> QED
    BY <2>2, <2>3
<1>9. CASE FinishNetwork(r)
  <2>1. /\ \A j \in Requests \ {r} : requests'[j] = requests[j]
        /\ requests'[r].at = "connect" /\ requests[r].at = "attach"
        /\ requests'[r].key = q.key /\ requests'[r].want = q.want
        /\ requests'[r].id = q.id /\ requests'[r].c = q.c
    BY <1>9, GotoFields DEF FinishNetwork, Finishing, IInv
  <2>2. Present' = Present /\ UNCHANGED <<containers, made>>
    BY <1>9 DEF FinishNetwork, Present
  <2>3. NamesUnique' /\ FreshIds' /\ RunningIsAttached'
    BY <2>2 DEF IInv, NamesUnique, FreshIds, RunningIsAttached, Attached
  <2>4. LookHolds'
    <3>1. \A c : Knows(q, c) => Knows(requests'[r], c)
      BY <2>1 DEF Knows
    <3> QED
      BY <2>1, <2>2, <3>1 DEF IInv, LookHolds, Finishing
  <2> QED
    BY <2>3, <2>4 DEF IInv
<1>10. CASE FinishConnect(r)
  <2>1. q.id \in Ids /\ q.at = "connect" /\ q.at \in Finishing /\ UNCHANGED made
    BY <1>10, FinishingFields DEF FinishConnect, Finishing, IInv
  <2>2. CASE containers[q.id] = Gone
    BY <1>1, <1>10, <2>2, KeepsDaemon DEF FinishConnect
  <2>3. CASE containers[q.id] # Gone
    <3>1. q.id \in Present /\ containers[q.id] \in Container
      BY <2>1, <2>3 DEF Present, IInv, TypeOK
    <3>2. /\ containers[q.id].key = q.key /\ containers[q.id].want = q.want
          /\ q.c.status # "created" => containers[q.id].status # "created"
      BY <2>1, <3>1 DEF IInv, LookHolds, Knows
    <3>3. q.want \in Want /\ q.want.attach # ""
      BY <2>1, AskingFields DEF IInv, AttachAsked
    <3>4. PICK n \in Container :
            /\ containers' = [containers EXCEPT ![q.id] = n]
            /\ n.key = q.key /\ n.want = q.want /\ n.status = containers[q.id].status
            /\ n.nets = containers[q.id].nets \union {q.want.attach}
      <4>1. [containers[q.id] EXCEPT !.nets = @ \union {q.want.attach}] \in Container
        BY <3>1, <3>3 DEF Container, Want, Network
      <4> QED
        BY <1>10, <2>3, <3>1, <3>2, <4>1 DEF FinishConnect, Container
    <3>5. Attached(n) /\ containers[q.id].nets \subseteq n.nets
      BY <3>4 DEF Attached
    <3>6. /\ \A j \in Requests \ {r} : requests'[j] = requests[j]
          /\ requests'[r].at = Unstarted(q.c)
          /\ requests'[r].key = q.key /\ requests'[r].want = q.want
          /\ requests'[r].id = q.id
      BY <1>10, <2>1, <2>3, GotoFields DEF FinishConnect, IInv
    <3>7. requests'[r].at \in {"start", "respond"}
          /\ (requests'[r].at = "respond" => n.status # "created")
      BY <3>2, <3>4, <3>6 DEF Unstarted
    <3>8. /\ n.key = containers[q.id].key /\ n.want = containers[q.id].want
          /\ containers[q.id].status # "created" => n.status # "created"
      BY <3>2, <3>4
    <3>9. \A j \in Requests :
            \/ requests'[j] = requests[j]
            \/ requests'[j].at \notin Finishing
            \/ /\ requests'[j].id = q.id
               /\ requests'[j].key = n.key /\ requests'[j].want = n.want
               /\ requests'[j].at \in {"start", "respond"} => Attached(n)
               /\ requests'[j].at = "respond" => n.status # "created"
               /\ requests'[j].at \notin {"attach", "connect"}
      BY <3>4, <3>5, <3>6, <3>7
    <3>10. n.status # "created" => Attached(n)
      BY <3>5
    <3>11. containers' = [containers EXCEPT ![q.id] = n] /\ n \in Container
           /\ containers[q.id].nets \subseteq n.nets /\ q.id \in Present /\ UNCHANGED made
      BY <2>1, <3>1, <3>4, <3>5
    <3> HIDE DEF q
    <3> QED
      BY ONLY IInv, TypeOK', AttachAsked', <3>8, <3>9, <3>10, <3>11, GetsOn
  <2> QED
    BY <2>2, <2>3
<1>11. CASE FinishStart(r)
  <2>1. q.id \in Ids /\ q.at = "start" /\ q.at \in Finishing /\ UNCHANGED made
    BY <1>11, FinishingFields DEF FinishStart, Finishing, IInv
  <2>2. CASE containers[q.id] = Gone
    BY <1>1, <1>11, <2>2, KeepsDaemon DEF FinishStart
  <2>3. CASE containers[q.id] # Gone
    <3>1. q.id \in Present /\ containers[q.id] \in Container
      BY <2>1, <2>3 DEF Present, IInv, TypeOK
    <3>2. /\ containers[q.id].key = q.key /\ containers[q.id].want = q.want
          /\ Attached(containers[q.id])
      BY <2>1, <3>1 DEF IInv, LookHolds, Knows
    <3>3. PICK n \in Container :
            /\ containers' = [containers EXCEPT ![q.id] = n]
            /\ n.key = q.key /\ n.want = q.want /\ n.status = "running"
            /\ n.nets = containers[q.id].nets
      <4>1. [containers[q.id] EXCEPT !.status = "running"] \in Container
        BY <3>1 DEF Container
      <4> QED
        BY <1>11, <2>3, <3>1, <3>2, <4>1 DEF FinishStart, Container
    <3>4. Attached(n)
      <4>1. n.want = containers[q.id].want /\ n.nets = containers[q.id].nets
        BY <3>2, <3>3
      <4>2. Attached(containers[q.id])
        BY <3>2
      <4> QED
        BY <4>1, <4>2, AttachedStays
    <3>5. /\ \A j \in Requests \ {r} : requests'[j] = requests[j]
          /\ requests'[r].at = "respond"
          /\ requests'[r].key = q.key /\ requests'[r].want = q.want
          /\ requests'[r].id = q.id
      BY <1>11, <2>1, <2>3, GotoFields DEF FinishStart, IInv
    <3>6. /\ n.key = containers[q.id].key /\ n.want = containers[q.id].want
          /\ containers[q.id].nets \subseteq n.nets
          /\ n.status # "created"
      BY <3>2, <3>3
    <3>7. \A j \in Requests :
            \/ requests'[j] = requests[j]
            \/ /\ requests'[j].id = q.id
               /\ requests'[j].key = n.key /\ requests'[j].want = n.want
               /\ requests'[j].at \notin {"attach", "connect"}
      BY <3>3, <3>5
    <3> QED
      BY <2>1, <3>1, <3>3, <3>4, <3>6, <3>7, GetsOn
  <2> QED
    BY <2>2, <2>3
<1>12. CASE Respond(r) \/ HandlerFails(r)
  BY <1>1, <1>12, KeepsDaemon DEF Respond, HandlerFails, daemon
<1>13. CASE TerminateFind(r)
  <2>1. ASSUME NEW i, requests' = [requests EXCEPT ![r] = [at |-> "remove", key |-> q.key, id |-> i]]
        PROVE  \A j \in Requests : requests'[j] = requests[j] \/ requests'[j].at \notin Finishing
    BY <2>1 DEF Finishing, IInv, TypeOK
  <2> QED
    BY <1>1, <1>13, <2>1, KeepsDaemon DEF TerminateFind, daemon
<1> QED
  BY <1>4, <1>5, <1>6, <1>7, <1>8, <1>9, <1>10, <1>11, <1>12, <1>13, CreateInv, RemoveInv
     DEF Handle

LEMMA NextInv ==
  ASSUME IInv, [Next]_vars
  PROVE  IInv'
<1>1. TypeOK' /\ AttachAsked'
  BY TypeStep DEF IInv
<1>2. ASSUME UNCHANGED <<daemon, requests>>
      PROVE  IInv'
  BY <1>1, <1>2, KeepsDaemon DEF daemon
<1>3. ASSUME NEW r \in Requests, NEW k \in Instance,
             AskTerminate(r, k) \/ \E w \in Want : AskRun(r, k, w)
      PROVE  IInv'
  <2>1. \A j \in Requests : requests'[j] = requests[j] \/ requests'[j].at \notin Finishing
    BY <1>3 DEF AskTerminate, AskRun, Finishing, IInv, TypeOK
  <2> QED
    BY <1>1, <1>3, <2>1, KeepsDaemon DEF AskTerminate, AskRun, daemon
<1>4. ASSUME NEW i \in Ids, ContainerExits(i)
      PROVE  IInv'
  <2> DEFINE n == [containers[i] EXCEPT !.status = "exited"]
  <2>1. i \in Present /\ containers[i] \in Container /\ containers[i].status = "running"
    BY <1>4 DEF ContainerExits, Present, Gone, IInv, TypeOK
  <2>2. /\ n.key = containers[i].key /\ n.want = containers[i].want
        /\ n.status = "exited" /\ n.nets = containers[i].nets /\ n \in Container
    BY <2>1 DEF Container
  <2>3. Attached(n)
    BY <2>1, <2>2 DEF IInv, RunningIsAttached, Attached
  <2>4. containers' = [containers EXCEPT ![i] = n] /\ UNCHANGED <<made, requests>>
    BY <1>4 DEF ContainerExits
  <2> HIDE DEF n
  <2> QED
    BY <1>1, <2>1, <2>2, <2>3, <2>4, GetsOn
<1> QED
  BY <1>1, <1>2, <1>3, <1>4, HandlerInv
     DEF Next, vars, daemon, ListIds, ListLook, ListDone, ListEnds, AskList, Settle

LEMMA InitInv == Init => IInv
BY InitType
   DEF Init, IInv, NamesUnique, FreshIds, RunningIsAttached, LookHolds, Present, NoRequest,
       Finishing

LEMMA InvAnswers == IInv => RunningIsAttached /\ AnswerIsTrue
<1> SUFFICES ASSUME IInv, NEW r \in Requests, requests[r].at = "respond",
                    requests[r].id \in Present
             PROVE  /\ Named(requests[r].key) = {requests[r].id}
                    /\ containers[requests[r].id].want = requests[r].want
                    /\ containers[requests[r].id].status # "created"
                    /\ Attached(containers[requests[r].id])
  BY DEF IInv, AnswerIsTrue
<1>1. requests[r].at \in Finishing
  BY DEF Finishing
<1>2. /\ containers[requests[r].id].key = requests[r].key
      /\ containers[requests[r].id].want = requests[r].want
      /\ containers[requests[r].id].status # "created"
      /\ Attached(containers[requests[r].id])
  BY <1>1 DEF IInv, LookHolds, Knows
<1>3. Named(requests[r].key) = {requests[r].id}
  BY <1>2 DEF IInv, NamesUnique, Named
<1> QED
  BY <1>2, <1>3

\* Whoever finishes an instance, in whatever order, it is attached before it
\* is started (RunningIsAttached), and a RunInstance answers only for the one
\* instance of that name, asked for alike, attached and started (AnswerIsTrue).
THEOREM RunInstanceIsSafe == Spec => [](RunningIsAttached /\ AnswerIsTrue)
<1>1. IInv /\ [Next]_vars => IInv'
  BY NextInv
<1> QED
  BY <1>1, InitInv, InvAnswers, PTL DEF Spec

\* A container that was ever started is on its network (server.go:254-256).
THEOREM RunningIsOnItsNetwork == Spec => []RunningIsAttached
<1>1. Spec => [](RunningIsAttached /\ AnswerIsTrue)
  BY RunInstanceIsSafe
<1> QED
  BY <1>1, PTL

-----------------------------------------------------------------------------
(* A listing is whole.                                                      *)

\* The ids a listing started from are old ones; those still there are found
\* or yet to be looked at.
ListHolds ==
  \A l \in Listers :
    lists[l].at \in {"look", "answer"} =>
      /\ lists[l].found \subseteq lists[l].asof
      /\ \A i \in lists[l].asof : i <= made
      /\ \A i \in lists[l].asof \cap Present : i \in lists[l].found \union lists[l].todo
      /\ lists[l].todo \subseteq lists[l].asof
      /\ lists[l].at = "answer" => lists[l].todo = {}

\* What is there after a step was there before, or has a new id.
LEMMA PresentStep ==
  ASSUME IInv, [Next]_vars
  PROVE  /\ made <= made'
         /\ \A i \in Present' : i \in Present \/ made < i
<1> USE DEF IInv, TypeOK
<1>1. made <= made
  OBVIOUS
<1>2. ASSUME UNCHANGED <<containers, made>>
      PROVE  made <= made' /\ \A i \in Present' : i \in Present
  BY <1>1, <1>2 DEF Present
<1>3. ASSUME NEW r \in Requests, RunCreate(r)
      PROVE  made <= made' /\ \A i \in Present' : i \in Present \/ made < i
  <2>1. CASE UNCHANGED daemon
    BY <1>2, <2>1 DEF daemon
  <2>2. ASSUME NEW n, made' = made + 1, containers' = [containers EXCEPT ![made + 1] = n]
        PROVE  made <= made' /\ \A i \in Present' : i \in Present \/ made < i
    BY <2>2 DEF Present
  <2> QED
    BY <1>3, <2>1, <2>2 DEF RunCreate
<1>4. ASSUME NEW r \in Requests, FinishConnect(r) \/ FinishStart(r)
      PROVE  made <= made' /\ \A i \in Present' : i \in Present
  BY <1>1, <1>4 DEF FinishConnect, FinishStart, Present
<1>5. ASSUME NEW r \in Requests, TerminateRemove(r)
      PROVE  made <= made' /\ \A i \in Present' : i \in Present
  BY <1>1, <1>5 DEF TerminateRemove, Present
<1>6. ASSUME NEW i \in Ids, ContainerExits(i)
      PROVE  made <= made' /\ \A j \in Present' : j \in Present
  BY <1>1, <1>6 DEF ContainerExits, Present, Gone
<1> QED
  BY <1>2, <1>3, <1>4, <1>5, <1>6
     DEF Next, vars, daemon, Handle, HandlerFails, RunInspect, RunCount, RunNetwork, RunLost,
         RunLook, FinishNetwork, Respond, TerminateFind, AskRun, AskTerminate, AskList, ListIds,
         ListLook, ListDone, ListEnds, Settle

LEMMA ListStep ==
  ASSUME IInv, IInv', ListHolds, [Next]_vars
  PROVE  ListHolds'
<1>1. CASE UNCHANGED lists
  <2>1. made \in Int /\ made' \in Int /\ \A i \in Ids : i \in Int
    <3>1. made \in 0 .. MaxIds /\ made' \in 0 .. MaxIds
      BY Zenon DEF IInv, TypeOK
    <3>2. MaxIds \in Nat
      BY ONLY ChalaAssumption
    <3> QED
      BY ONLY <3>1, <3>2 DEF Ids
  <2> SUFFICES ASSUME NEW l \in Listers, lists[l].at \in {"look", "answer"}
               PROVE  /\ \A i \in lists[l].asof : i <= made'
                      /\ \A i \in lists[l].asof \cap Present' :
                           i \in lists[l].found \union lists[l].todo
    BY <1>1 DEF ListHolds
  <2>2. lists[l].asof \subseteq Ids
    BY DEF IInv, TypeOK, List, NoList
  <2> QED
    BY <2>1, <2>2, PresentStep DEF ListHolds
<1>2. ASSUME NEW l \in Listers, UNCHANGED <<daemon, requests, env>>, NEW x,
             lists' = [lists EXCEPT ![l] = x],
             x.at \in {"look", "answer"} =>
               /\ x.found \subseteq x.asof
               /\ \A i \in x.asof : i <= made
               /\ \A i \in x.asof \cap Present : i \in x.found \union x.todo
               /\ x.todo \subseteq x.asof
               /\ x.at = "answer" => x.todo = {}
      PROVE  ListHolds'
  BY <1>2 DEF ListHolds, Present, daemon, IInv, TypeOK
<1>3. ASSUME NEW l \in Listers, ListIds(l)
      PROVE  ListHolds'
  <2> DEFINE ids == OfAccount(lists[l].account)
             x == [at |-> "look", account |-> lists[l].account, asof |-> ids, todo |-> ids,
                   found |-> {}]
  <2>1. ids \subseteq Present /\ \A i \in ids : i <= made
    BY DEF OfAccount, IInv, FreshIds
  <2>2. lists' = [lists EXCEPT ![l] = x]
    BY <1>3 DEF ListIds
  <2>3. /\ x.found = {} /\ x.asof = ids /\ x.todo = ids /\ x.at = "look"
    OBVIOUS
  <2> HIDE DEF ids, x
  <2> QED
    BY <1>2, <1>3, <2>1, <2>2, <2>3 DEF ListIds
<1>4. ASSUME NEW l \in Listers, ListLook(l)
      PROVE  ListHolds'
  <2>1. PICK i \in lists[l].todo :
          lists' = [lists EXCEPT ![l] =
                      [at |-> "look", account |-> @.account, asof |-> @.asof,
                       todo |-> @.todo \ {i}, found |-> @.found \union ({i} \cap Present)]]
    BY <1>4 DEF ListLook
  <2> DEFINE x == [at |-> "look", account |-> lists[l].account, asof |-> lists[l].asof,
                   todo |-> lists[l].todo \ {i},
                   found |-> lists[l].found \union ({i} \cap Present)]
  <2>2. lists' = [lists EXCEPT ![l] = x]
    BY <2>1
  <2>3. /\ x.found = lists[l].found \union ({i} \cap Present) /\ x.asof = lists[l].asof
        /\ x.todo = lists[l].todo \ {i} /\ x.at = "look"
    OBVIOUS
  <2> HIDE DEF x
  <2>4. lists[l].at = "look" /\ UNCHANGED <<daemon, requests, env>>
    BY <1>4 DEF ListLook
  <2>5. /\ x.found \subseteq x.asof
        /\ \A j \in x.asof : j <= made
        /\ \A j \in x.asof \cap Present : j \in x.found \union x.todo
        /\ x.todo \subseteq x.asof
    BY <2>1, <2>3, <2>4 DEF ListHolds
  <2> QED
    BY <1>2, <2>2, <2>3, <2>4, <2>5
<1>5. ASSUME NEW l \in Listers, ListDone(l)
      PROVE  ListHolds'
  <2> DEFINE x == [lists[l] EXCEPT !.at = "answer"]
  <2>1. lists[l] \in [at : {"list", "look", "answer"}, account : Accounts,
                      asof : SUBSET Ids, todo : SUBSET Ids, found : SUBSET Ids]
    BY <1>5 DEF ListDone, IInv, TypeOK, List, NoList
  <2>2. /\ x.found = lists[l].found /\ x.asof = lists[l].asof
        /\ x.todo = lists[l].todo /\ x.at = "answer"
    BY <2>1
  <2>3. lists' = [lists EXCEPT ![l] = x]
    BY <1>5 DEF ListDone
  <2> HIDE DEF x
  <2>4. lists[l].at = "look" /\ lists[l].todo = {} /\ UNCHANGED <<daemon, requests, env>>
    BY <1>5 DEF ListDone
  <2>5. /\ x.found \subseteq x.asof
        /\ \A j \in x.asof : j <= made
        /\ \A j \in x.asof \cap Present : j \in x.found \union x.todo
        /\ x.todo \subseteq x.asof
    BY <2>2, <2>4 DEF ListHolds
  <2> QED
    BY <1>2, <2>2, <2>3, <2>4, <2>5
<1>6. ASSUME NEW l \in Listers, ListEnds(l)
      PROVE  ListHolds'
  BY <1>2, <1>6 DEF ListEnds, NoList
<1>7. ASSUME NEW l \in Listers, NEW a \in Accounts, AskList(l, a)
      PROVE  ListHolds'
  <2>1. lists' = [lists EXCEPT ![l] = [at |-> "list", account |-> a,
                                       asof |-> {}, todo |-> {}, found |-> {}]]
    BY <1>7 DEF AskList
  <2> QED
    BY <1>2, <1>7, <2>1 DEF AskList
<1> QED
  BY <1>1, <1>3, <1>4, <1>5, <1>6, <1>7
     DEF Next, vars, Handle, HandlerFails, RunInspect, RunCount, RunNetwork, RunCreate, RunLost,
         RunLook, FinishNetwork, FinishConnect, FinishStart, Respond, TerminateFind,
         TerminateRemove, AskRun, AskTerminate, ContainerExits, Settle

\* A listing, made of looks at different times, misses nothing that stayed,
\* invents nothing, and names nothing twice (ListIsWhole).
THEOREM ListingsAreWhole == Spec => []ListIsWhole
<1>1. IInv /\ [Next]_vars => IInv'
  BY NextInv
<1>2. IInv /\ IInv' /\ ListHolds /\ [Next]_vars => ListHolds'
  BY ListStep
<1>3. IInv /\ ListHolds => ListIsWhole
  BY DEF IInv, NamesUnique, ListHolds, ListIsWhole
<1>4. Init => ListHolds
  BY DEF Init, ListHolds, NoList
<1> QED
  BY <1>1, <1>2, <1>3, <1>4, InitInv, PTL DEF Spec

-----------------------------------------------------------------------------
(* How far the quota can be overshot.                                       *)

Claimed(a) == KeysOf(a) \union AboutToCreate(a)
Claiming == {"network", "create"}

\* The calls in flight hold no more keys than there are calls.
LEMMA KeysSize ==
  ASSUME NEW f, NEW S \in SUBSET Requests
  PROVE  /\ IsFiniteSet({f[q].key : q \in S})
         /\ Cardinality({f[q].key : q \in S}) <= Cardinality(Requests)
<1> DEFINE T == {f[q].key : q \in S}
           g == [q \in S |-> f[q].key]
<1>1. g \in Surjection(S, T)
  BY DEF Surjection
<1>2. IsFiniteSet(S) /\ Cardinality(S) <= Cardinality(Requests) /\ IsFiniteSet(Requests)
  BY FS_Subset, ChalaAssumption
<1> HIDE DEF T, g
<1>3. IsFiniteSet(T) /\ Cardinality(T) <= Cardinality(S)
  BY <1>1, <1>2, FS_Surjection
<1>4. IsFiniteSet(T) /\ Cardinality(T) <= Cardinality(Requests)
  BY <1>2, <1>3, FS_CardinalityType
<1> QED
  BY <1>4 DEF T

\* An account has no more names in use than containers.
LEMMA NamesSize ==
  ASSUME TypeOK, NEW a \in Accounts
  PROVE  /\ IsFiniteSet(KeysOf(a)) /\ IsFiniteSet(Claimed(a))
         /\ Cardinality(OfAccount(a)) \in Nat
         /\ Cardinality(KeysOf(a)) <= Cardinality(OfAccount(a))
<1> DEFINE g == [i \in OfAccount(a) |-> containers[i].key]
<1>1. IsFiniteSet(OfAccount(a))
  <2>1. MaxIds \in Nat
    BY ChalaAssumption
  <2>2. IsFiniteSet(Ids)
    BY <2>1, FS_Interval DEF Ids
  <2> QED
    BY <2>2, FS_Subset DEF OfAccount, Present
<1>2. g \in Surjection(OfAccount(a), KeysOf(a))
  <2>1. \A i \in OfAccount(a) : g[i] \in KeysOf(a)
    <3> SUFFICES ASSUME NEW i \in OfAccount(a)
                 PROVE  containers[i].key \in KeysOf(a)
      OBVIOUS
    <3>1. i \in Present /\ containers[i] \in Container
      BY DEF OfAccount, Present, TypeOK
    <3>2. containers[i].key \in Instance /\ i \in Named(containers[i].key)
      BY <3>1 DEF Named, Container
    <3> QED
      BY <3>2 DEF KeysOf, OfAccount
  <2>2. \A k \in KeysOf(a) : \E i \in OfAccount(a) : g[i] = k
    BY DEF KeysOf, Named, OfAccount
  <2> QED
    BY <2>1, <2>2 DEF Surjection
<1> HIDE DEF g
<1>3. IsFiniteSet(KeysOf(a)) /\ Cardinality(KeysOf(a)) <= Cardinality(OfAccount(a))
  BY <1>1, <1>2, FS_Surjection
<1>4. IsFiniteSet(AboutToCreate(a))
  BY KeysSize DEF AboutToCreate
<1> QED
  BY <1>1, <1>3, <1>4, FS_Union, FS_CardinalityType DEF Claimed

\* A step that makes no container uses no new name.
LEMMA NoNewName ==
  ASSUME NEW a, \A i \in Present' : i \in Present /\ containers'[i].key = containers[i].key
  PROVE  KeysOf(a)' \subseteq KeysOf(a)
BY DEF KeysOf, Named

\* A handler that claims no name, or claimed it before, adds none.
ClaimsNothing(r) ==
  /\ \A q \in Requests \ {r} : requests'[q] = requests[q]
  /\ \/ requests'[r].at \notin Claiming
     \/ requests[r].at \in Claiming /\ requests'[r].key = requests[r].key

LEMMA NoNewClaim ==
  ASSUME NEW a, NEW r \in Requests, ClaimsNothing(r)
  PROVE  AboutToCreate(a)' \subseteq AboutToCreate(a)
<1> SUFFICES ASSUME NEW q \in Requests, requests'[q].at \in Claiming, requests'[q].key[1] = a
             PROVE  requests'[q].key \in AboutToCreate(a)
  BY DEF AboutToCreate, Claiming
<1> QED
  BY DEF AboutToCreate, Claiming, ClaimsNothing

\* The calls of a handler that makes no container and passes no count.
LEMMA HandlerClaims ==
  ASSUME TypeOK, AttachAsked, NEW a \in Accounts, NEW r \in Requests, Handle(r) \/ HandlerFails(r),
         ~RunCount(r), ~RunCreate(r)
  PROVE  Claimed(a)' \subseteq Claimed(a)
<1>1. ClaimsNothing(r)
  <2> USE DEF ClaimsNothing
  <2>1. ASSUME NEW x, requests' = [requests EXCEPT ![r] = x], x.at \notin Claiming
        PROVE  ClaimsNothing(r)
    BY <2>1 DEF TypeOK
  <2>2. CASE Reply(r)
    BY <2>1, <2>2 DEF Reply, NoRequest, Claiming
  <2>3. ASSUME NEW i, NEW at \in Finishing, Hold(r, i, at)
        PROVE  ClaimsNothing(r)
    <3>1. at \notin Claiming
      BY DEF Finishing, Claiming
    <3> QED
      BY <2>1, <2>3, <3>1 DEF Hold
  <2>4. ASSUME requests[r].at \in Asking \union Finishing, NEW at, Goto(r, at),
               at \notin Claiming \/ requests[r].at \in Claiming
        PROVE  ClaimsNothing(r)
    BY <2>4, GotoFields
  <2>5. ASSUME NEW i, Adopt(r, i)
        PROVE  ClaimsNothing(r)
    BY <2>2, <2>3, <2>5, FinishType DEF Adopt
  <2>6. CASE RunInspect(r)
    BY <2>4, <2>5, <2>6 DEF RunInspect, Asking, Claiming
  <2>7. CASE RunLost(r)
    BY <2>2, <2>5, <2>7 DEF RunLost
  <2>8. CASE RunLook(r)
    BY <2>2, <2>3, <2>8, FinishType DEF RunLook
  <2>9. CASE RunNetwork(r) \/ FinishNetwork(r)
    BY <2>4, <2>9 DEF RunNetwork, FinishNetwork, Asking, Finishing, Claiming
  <2>10. CASE FinishConnect(r) \/ FinishStart(r)
    <3>1. requests[r].at \in Finishing
      BY <2>10 DEF FinishConnect, FinishStart, Finishing
    <3>2. Unstarted(requests[r].c) \notin Claiming /\ "respond" \notin Claiming
      BY DEF Unstarted, Claiming
    <3> QED
      BY <2>2, <2>4, <2>10, <3>1, <3>2 DEF FinishConnect, FinishStart
  <2>11. CASE TerminateFind(r)
    <3>1. ASSUME NEW k, NEW i \in Named(k),
                 requests' = [requests EXCEPT ![r] = [at |-> "remove", key |-> k, id |-> i]]
          PROVE  ClaimsNothing(r)
      BY <2>1, <3>1 DEF Claiming
    <3> QED
      BY <2>2, <2>11, <3>1 DEF TerminateFind
  <2>12. CASE Respond(r) \/ TerminateRemove(r) \/ HandlerFails(r)
    BY <2>2, <2>12 DEF Respond, TerminateRemove, HandlerFails
  <2> QED
    BY <2>6, <2>7, <2>8, <2>9, <2>10, <2>11, <2>12 DEF Handle
<1>2. AboutToCreate(a)' \subseteq AboutToCreate(a)
  BY <1>1, NoNewClaim
<1>3. \A i \in Present' : i \in Present /\ containers'[i].key = containers[i].key
  <2>1. CASE UNCHANGED containers
    BY <2>1 DEF Present
  <2>2. CASE FinishConnect(r) \/ FinishStart(r)
    BY <2>1, <2>2 DEF FinishConnect, FinishStart, Present, TypeOK, Container
  <2>3. CASE TerminateRemove(r)
    BY <2>3 DEF TerminateRemove, Present, TypeOK
  <2> QED
    BY <2>1, <2>2, <2>3
       DEF Handle, HandlerFails, RunInspect, RunNetwork, RunLost, RunLook, FinishNetwork,
           Respond, TerminateFind, daemon
<1> QED
  BY <1>2, <1>3, NoNewName DEF Claimed

\* A step claims no new name, unless it is the count that let a run pass.
LEMMA ClaimedStep ==
  ASSUME TypeOK, AttachAsked, [Next]_vars, NEW a \in Accounts
  PROVE  \/ Claimed(a)' \subseteq Claimed(a)
         \/ KeysOf(a)' = KeysOf(a) /\ Cardinality(OfAccount(a)) < MaxInstancesPerAccount
<1>1. ASSUME NEW r \in Requests, RunCount(r)
      PROVE  \/ Claimed(a)' \subseteq Claimed(a)
             \/ KeysOf(a)' = KeysOf(a) /\ Cardinality(OfAccount(a)) < MaxInstancesPerAccount
  <2>1. KeysOf(a)' = KeysOf(a) /\ requests[r].at \in Asking \union Finishing
    BY <1>1 DEF RunCount, daemon, KeysOf, Named, Present, Asking
  <2>2. CASE Reply(r)
    <3>1. /\ \A q \in Requests \ {r} : requests'[q] = requests[q]
          /\ requests'[r].at \notin Claiming
      BY <2>2 DEF Reply, NoRequest, Claiming, TypeOK
    <3> QED
      BY <2>1, <3>1, NoNewClaim DEF Claimed, ClaimsNothing
  <2>3. CASE /\ Goto(r, "network")
             /\ ~(Cardinality(OfAccount(requests[r].key[1])) >= MaxInstancesPerAccount)
    <3>1. CASE requests[r].key[1] = a
      <4>1. Cardinality(OfAccount(a)) \in Nat /\ MaxInstancesPerAccount \in Nat
        BY NamesSize, ChalaAssumption
      <4> QED
        BY <2>1, <2>3, <3>1, <4>1
    <3>2. CASE requests[r].key[1] # a
      <4>1. /\ \A q \in Requests \ {r} : requests'[q] = requests[q]
            /\ requests'[r].key = requests[r].key
        BY <2>1, <2>3, GotoFields
      <4>2. AboutToCreate(a)' \subseteq AboutToCreate(a)
        BY <3>2, <4>1 DEF AboutToCreate
      <4> QED
        BY <2>1, <4>2 DEF Claimed
    <3> QED
      BY <3>1, <3>2
  <2> QED
    BY <1>1, <2>2, <2>3 DEF RunCount
<1>2. ASSUME NEW r \in Requests, RunCreate(r)
      PROVE  Claimed(a)' \subseteq Claimed(a)
  <2>1. requests[r].at \in Asking \union Finishing /\ requests[r].at \in Claiming
    BY <1>2 DEF RunCreate, Asking, Claiming
  <2>2. /\ \A q \in Requests \ {r} : requests'[q] = requests[q]
        /\ requests'[r].at \notin Claiming
    <3>1. CASE Goto(r, "lost")
      BY <2>1, <3>1, GotoFields DEF Claiming
    <3>2. CASE Reply(r)
      BY <3>2 DEF Reply, NoRequest, Claiming, TypeOK
    <3>3. CASE Hold(r, made + 1, "look")
      BY <3>3 DEF Hold, Claiming, TypeOK
    <3> QED
      BY <1>2, <3>1, <3>2, <3>3 DEF RunCreate
  <2>3. AboutToCreate(a)' \subseteq AboutToCreate(a)
    BY <2>2, NoNewClaim DEF ClaimsNothing
  <2>4. KeysOf(a)' \subseteq Claimed(a)
    <3>1. CASE UNCHANGED daemon
      BY <3>1, NoNewName DEF daemon, Claimed, Present
    <3>2. CASE containers' = [containers EXCEPT ![made + 1] =
                                [key |-> requests[r].key, want |-> requests[r].want,
                                 status |-> "created", nets |-> {requests[r].key[1]}]]
      <4>1. requests[r].key \in Instance
        BY <2>1, AskingFields
      <4>2. requests[r].key[1] = a => requests[r].key \in AboutToCreate(a)
        BY <1>2 DEF RunCreate, AboutToCreate
      <4>3. ASSUME NEW k \in KeysOf(a)', k # requests[r].key
            PROVE  k \in KeysOf(a)
        <5>1. PICK i \in Present' : containers'[i].key = k
          BY <4>3 DEF KeysOf, Named
        <5>2. i # made + 1
          BY <3>2, <4>3, <5>1 DEF Present, TypeOK
        <5>3. i \in Present /\ containers'[i] = containers[i]
          BY <3>2, <5>1, <5>2 DEF Present, TypeOK
        <5> QED
          BY <4>3, <5>1, <5>3 DEF KeysOf, Named
      <4> QED
        BY <4>2, <4>3 DEF KeysOf, Claimed
    <3> QED
      BY <1>2, <3>1, <3>2 DEF RunCreate
  <2> QED
    BY <2>3, <2>4 DEF Claimed
<1>3. ASSUME NEW r \in Requests, NEW k \in Instance,
             AskTerminate(r, k) \/ \E w \in Want : AskRun(r, k, w)
      PROVE  Claimed(a)' \subseteq Claimed(a)
  <2>1. \A i \in Present' : i \in Present /\ containers'[i].key = containers[i].key
    BY <1>3 DEF AskTerminate, AskRun, daemon, Present
  <2>2. CASE AskTerminate(r, k)
    <3>1. /\ \A q \in Requests \ {r} : requests'[q] = requests[q]
          /\ requests'[r].at \notin Claiming
      BY <2>2 DEF AskTerminate, Claiming, TypeOK
    <3> QED
      BY <2>1, <3>1, NoNewName, NoNewClaim DEF Claimed, ClaimsNothing
  <2>3. ASSUME NEW w \in Want, AskRun(r, k, w)
        PROVE  Claimed(a)' \subseteq Claimed(a)
    <3>1. /\ \A q \in Requests \ {r} : requests'[q] = requests[q]
          /\ requests'[r].at \notin Claiming
      BY <2>3 DEF AskRun, Claiming, TypeOK
    <3> QED
      BY <2>1, <3>1, NoNewName, NoNewClaim DEF Claimed, ClaimsNothing
  <2> QED
    BY <1>3, <2>2, <2>3
<1>4. ASSUME UNCHANGED requests,
             \A i \in Present' : i \in Present /\ containers'[i].key = containers[i].key
      PROVE  Claimed(a)' \subseteq Claimed(a)
  BY <1>4, NoNewName DEF Claimed, AboutToCreate
<1>5. ASSUME NEW i \in Ids, ContainerExits(i)
      PROVE  Claimed(a)' \subseteq Claimed(a)
  <2>1. \A j \in Present' : j \in Present /\ containers'[j].key = containers[j].key
    BY <1>5 DEF ContainerExits, Present, Gone, TypeOK, Container
  <2> QED
    BY <1>4, <1>5, <2>1 DEF ContainerExits
<1>6. ASSUME UNCHANGED <<containers, requests>>
      PROVE  Claimed(a)' \subseteq Claimed(a)
  BY <1>4, <1>6 DEF Present
<1> QED
  BY <1>1, <1>2, <1>3, <1>5, <1>6, HandlerClaims
     DEF Next, vars, daemon, AskList, ListIds, ListLook, ListDone, ListEnds, Settle

LEMMA QuotaStep ==
  ASSUME TypeOK, AttachAsked, OvershootBounded, [Next]_vars
  PROVE  OvershootBounded'
<1> SUFFICES ASSUME NEW a \in Accounts
             PROVE  Cardinality(Claimed(a)')
                      <= MaxInstancesPerAccount - 1 + Cardinality(Requests)
  BY DEF OvershootBounded, Claimed
<1>1. /\ IsFiniteSet(Claimed(a)) /\ Cardinality(Claimed(a)) \in Nat
      /\ IsFiniteSet(KeysOf(a)) /\ Cardinality(KeysOf(a)) \in Nat
      /\ Cardinality(OfAccount(a)) \in Nat
      /\ Cardinality(KeysOf(a)) <= Cardinality(OfAccount(a))
      /\ Cardinality(Requests) \in Nat /\ MaxInstancesPerAccount \in Nat
  BY NamesSize, FS_CardinalityType, ChalaAssumption
<1>2. IsFiniteSet(AboutToCreate(a)') /\ Cardinality(AboutToCreate(a)') <= Cardinality(Requests)
  BY KeysSize DEF AboutToCreate
<1>3. CASE Claimed(a)' \subseteq Claimed(a)
  <2>1. Cardinality(Claimed(a)') <= Cardinality(Claimed(a)) /\ Cardinality(Claimed(a)') \in Nat
    BY <1>1, <1>3, FS_Subset, FS_CardinalityType
  <2> QED
    BY <1>1, <2>1 DEF OvershootBounded, Claimed
<1>4. CASE KeysOf(a)' = KeysOf(a) /\ Cardinality(OfAccount(a)) < MaxInstancesPerAccount
  <2>1. Claimed(a)' = KeysOf(a) \union AboutToCreate(a)'
    BY <1>4 DEF Claimed
  <2>2. Cardinality(Claimed(a)') <= Cardinality(KeysOf(a)) + Cardinality(AboutToCreate(a)')
    <3>1. Cardinality(KeysOf(a) \cap AboutToCreate(a)') \in Nat
      BY <1>1, FS_Subset, FS_CardinalityType
    <3>2. Cardinality(AboutToCreate(a)') \in Nat
      BY <1>2, FS_CardinalityType
    <3>3. Cardinality(KeysOf(a) \union AboutToCreate(a)') =
            Cardinality(KeysOf(a)) + Cardinality(AboutToCreate(a)')
              - Cardinality(KeysOf(a) \cap AboutToCreate(a)')
      BY <1>1, <1>2, FS_Union
    <3> QED
      BY <1>1, <2>1, <3>1, <3>2, <3>3
  <2>3. Cardinality(AboutToCreate(a)') \in Nat /\ Cardinality(Claimed(a)') \in Nat
    BY <1>1, <1>2, <2>1, FS_Union, FS_CardinalityType
  <2> QED
    BY <1>1, <1>2, <1>4, <2>2, <2>3
<1> QED
  BY <1>3, <1>4, ClaimedStep

\* An account's instances, with those about to be created, exceed its limit by
\* less than there are calls in flight (OvershootBounded), however many create
\* at once: server.go counts and creates in two calls to the daemon.
THEOREM QuotaBound == Spec => []OvershootBounded
<1>1. TypeOK /\ AttachAsked /\ [Next]_vars => TypeOK' /\ AttachAsked'
  BY TypeStep
<1>2. TypeOK /\ AttachAsked /\ OvershootBounded /\ [Next]_vars => OvershootBounded'
  BY QuotaStep
<1>3. Init => OvershootBounded
  <2> SUFFICES ASSUME Init, NEW a \in Accounts
               PROVE  Cardinality(KeysOf(a) \union AboutToCreate(a))
                        <= MaxInstancesPerAccount - 1 + Cardinality(Requests)
    BY DEF OvershootBounded
  <2>1. KeysOf(a) = {} /\ AboutToCreate(a) = {}
    BY DEF Init, KeysOf, Named, Present, AboutToCreate, NoRequest
  <2>2. Cardinality(KeysOf(a) \union AboutToCreate(a)) = 0
    BY <2>1, FS_EmptySet
  <2>3. Cardinality(Requests) \in Nat /\ MaxInstancesPerAccount \in Nat \ {0}
    BY FS_CardinalityType, ChalaAssumption
  <2> QED
    BY <2>2, <2>3
<1> QED
  BY <1>1, <1>2, <1>3, InitType, PTL DEF Spec

-----------------------------------------------------------------------------
(* What a terminate removes.                                                *)

LEMMA RemoveStep ==
  ASSUME TypeOK, [Next]_vars, NEW i \in Present, containers'[i] = Gone
  PROVE  \E r \in Requests : requests[r].at = "remove" /\ requests[r].id = i
<1>1. ~UNCHANGED containers
  BY DEF Present
<1>2. ASSUME NEW r \in Requests, FinishConnect(r) \/ FinishStart(r)
      PROVE  FALSE
  BY <1>2 DEF FinishConnect, FinishStart, Present, TypeOK, Container, Gone
<1>3. ASSUME NEW r \in Requests, RunCreate(r)
      PROVE  FALSE
  <2>1. ASSUME containers' = [containers EXCEPT ![made + 1] =
                                [key |-> requests[r].key, want |-> requests[r].want,
                                 status |-> "created", nets |-> {requests[r].key[1]}]]
        PROVE  FALSE
    BY <2>1 DEF Present, TypeOK, Gone
  <2> QED
    BY <1>1, <1>3, <2>1 DEF RunCreate, daemon
<1>4. ASSUME NEW j \in Ids, ContainerExits(j)
      PROVE  FALSE
  <2>1. containers[j] \in Container /\ [containers[j] EXCEPT !.status = "exited"] \in Container
    BY <1>4 DEF ContainerExits, TypeOK, Container, Gone
  <2>2. Gone \notin Container
    BY DEF Gone, Container
  <2> QED
    BY <1>4, <2>1, <2>2 DEF ContainerExits, Present, TypeOK
<1>5. ASSUME NEW r \in Requests, TerminateRemove(r)
      PROVE  requests[r].at = "remove" /\ requests[r].id = i
  BY <1>5 DEF TerminateRemove, Present, TypeOK
<1> QED
  BY <1>1, <1>2, <1>3, <1>4, <1>5
     DEF Next, vars, daemon, Handle, HandlerFails, RunInspect, RunCount, RunNetwork, RunLost,
         RunLook, FinishNetwork, Respond, TerminateFind, AskRun, AskTerminate, AskList, ListIds,
         ListLook, ListDone, ListEnds, Settle

\* A terminate removes the instance it found under the name, never one that
\* was made for the name since (server.go:316-333): what a step removes was
\* there when the terminate looked.
RemovesWhatItFound ==
  [][\A i \in Present :
       containers'[i] = Gone =>
         \E r \in Requests : requests[r].at = "remove" /\ requests[r].id = i]_vars

\* Nothing removes an instance but the terminate that found that very one
\* (RemovesWhatItFound), whatever has been made under its name since.
THEOREM TerminateIsExact == Spec => RemovesWhatItFound
<1>1. TypeOK /\ AttachAsked /\ [Next]_vars => TypeOK' /\ AttachAsked'
  BY TypeStep
<1>2. TypeOK /\ [Next]_vars =>
        [\A i \in Present :
           containers'[i] = Gone =>
             \E r \in Requests : requests[r].at = "remove" /\ requests[r].id = i]_vars
  BY RemoveStep
<1> QED
  BY <1>1, <1>2, InitType, PTL DEF Spec, RemovesWhatItFound
-----------------------------------------------------------------------------
(* Chala implements InstanceService.                                        *)

\* What the refinement mapping makes of the containers and the handlers.
stands == [k \in Instance |-> InstanceOf(k)]
outstanding == [r \in Requests |-> CallOf(requests[r])]

NoInstance == [status |-> "none"]
Working == (Asking \union Finishing) \ {"respond"}

\* What a terminate has found is an instance of its name, as long as it is
\* there, and an id that is not given out again once it is gone.
FoundHolds ==
  \A r \in Requests :
    requests[r].at = "remove" =>
      /\ requests[r].id \in Ids /\ requests[r].id <= made
      /\ requests[r].id \in Present => containers[requests[r].id].key = requests[r].key

LEMMA TheOnly ==
  ASSUME NEW S, NEW i, S = {i}
  PROVE  (CHOOSE x \in S : TRUE) = i
OBVIOUS

\* What stands under a name is the one container that has it.
LEMMA OneOfAName ==
  ASSUME IInv, NEW i \in Present
  PROVE  Named(containers[i].key) = {i}
BY DEF IInv, NamesUnique, Named

LEMMA InstanceIs ==
  ASSUME NEW k \in Instance
  PROVE  /\ Named(k) = {} => stands[k] = NoInstance
         /\ \A i : Named(k) = {i} => stands[k] = View(containers[i])
         /\ Named(k)' = {} => stands'[k] = NoInstance
         /\ \A i : Named(k)' = {i} => stands'[k] = View(containers'[i])
<1>1. stands[k] = InstanceOf(k) /\ stands'[k] = InstanceOf(k)'
  BY DEF stands
<1>2. Named(k) = {} => stands[k] = NoInstance
  BY <1>1 DEF InstanceOf, NoInstance
<1>3. Named(k)' = {} => stands'[k] = NoInstance
  BY <1>1 DEF InstanceOf, NoInstance
<1>4. ASSUME NEW i, Named(k) = {i}
      PROVE  stands[k] = View(containers[i])
  <2>1. (CHOOSE x \in Named(k) : TRUE) = i
    BY <1>4, TheOnly
  <2>2. Named(k) # {}
    BY <1>4
  <2> HIDE DEF Named, View
  <2> QED
    BY <1>1, <2>1, <2>2 DEF InstanceOf
<1>5. ASSUME NEW i, Named(k)' = {i}
      PROVE  stands'[k] = View(containers'[i])
  <2>1. (CHOOSE x \in Named(k)' : TRUE) = i
    BY <1>5, TheOnly
  <2>2. Named(k)' # {}
    BY <1>5
  <2>3. InstanceOf(k)' = View(containers'[CHOOSE x \in Named(k)' : TRUE])
    BY <2>2, Zenon DEF InstanceOf, View, Attached
  <2> QED
    BY <1>1, <2>1, <2>3
<1> QED
  BY <1>2, <1>3, <1>4, <1>5

\* A step in which one container changes, or comes to be under a free name.
LEMMA OneChanges ==
  ASSUME IInv, IInv', NEW i \in Ids, NEW k \in Instance,
         \A j \in Ids \ {i} : containers'[j] = containers[j],
         i \in Present => containers[i].key = k,
         i \in Present' => containers'[i].key = k,
         i \in Present \/ Named(k) = {}
  PROVE  stands' = [stands EXCEPT ![k] = IF i \in Present' THEN View(containers'[i])
                                                           ELSE NoInstance]
<1>1. \A j \in Ids \ {i} : j \in Present' <=> j \in Present
  BY DEF Present
<1>2. \A j, m \in Present' : containers'[j].key = containers'[m].key => j = m
  BY DEF IInv, NamesUnique
<1>3. ASSUME NEW h \in Instance, h # k
      PROVE  stands'[h] = stands[h]
  <2>1. Named(h)' = Named(h) /\ i \notin Named(h)
    <3>1. i \notin Named(h) /\ i \notin Named(h)'
      BY <1>3 DEF Named
    <3>2. \A j \in Ids \ {i} : j \in Named(h)' <=> j \in Named(h)
      BY <1>1 DEF Named
    <3>3. Named(h) \subseteq Ids /\ Named(h)' \subseteq Ids
      BY DEF Named, Present
    <3> QED
      BY <3>1, <3>2, <3>3
  <2>2. CASE Named(h) = {}
    BY <2>1, <2>2, InstanceIs
  <2>3. ASSUME NEW j \in Named(h)
        PROVE  stands'[h] = stands[h]
    <3>1. j \in Present /\ j \in Ids \ {i} /\ containers[j].key = h
      BY <2>1, <2>3 DEF Named, Present
    <3>2. Named(h) = {j} /\ containers'[j] = containers[j]
      BY <3>1, OneOfAName
    <3> QED
      BY <2>1, <3>2, InstanceIs
  <2> QED
    BY <2>2, <2>3
<1>4. CASE i \in Present'
  <2>1. Named(k)' = {i}
    BY <1>2, <1>4 DEF Named
  <2>2. stands'[k] = View(containers'[i])
    BY <2>1, InstanceIs
  <2> QED
    BY <1>3, <1>4, <2>2 DEF stands
<1>5. CASE i \notin Present'
  <2>1. Named(k) \subseteq {i}
    <3>1. CASE i \in Present
      BY <3>1, OneOfAName
    <3> QED
      BY <3>1
  <2>2. Named(k)' = {}
    BY <1>1, <1>5, <2>1 DEF Named, Present
  <2>3. stands'[k] = NoInstance
    BY <2>2, InstanceIs
  <2> QED
    BY <1>3, <1>5, <2>3 DEF stands
<1> QED
  BY <1>4, <1>5

LEMMA SameContainers ==
  ASSUME UNCHANGED containers
  PROVE  stands' = stands
BY DEF stands, InstanceOf, Named, Present, View, Attached

\* A call as it is outstanding.
RunCall(k, w, state) == [op |-> "run", key |-> k, want |-> w, state |-> state]
TerminateCall(k, state) == [op |-> "terminate", key |-> k, state |-> state]
NoCall == [op |-> "none"]

\* What is outstanding, now and after a step.
LEMMA CallIs ==
  ASSUME NEW r \in Requests
  PROVE  /\ requests[r].at = "idle" => outstanding[r] = NoCall
         /\ requests[r].at \in Working =>
              outstanding[r] = RunCall(requests[r].key, requests[r].want, "open")
         /\ requests[r].at = "respond" =>
              outstanding[r] = RunCall(requests[r].key, requests[r].want, "done")
         /\ requests[r].at = "find" => outstanding[r] = TerminateCall(requests[r].key, "open")
         /\ requests[r].at = "remove" /\ containers[requests[r].id] # Gone =>
              outstanding[r] = TerminateCall(requests[r].key, "open")
         /\ requests[r].at = "remove" /\ containers[requests[r].id] = Gone =>
              outstanding[r] = TerminateCall(requests[r].key, "done")
<1>1. outstanding[r] = CallOf(requests[r])
  BY DEF outstanding
<1> QED
  BY <1>1 DEF CallOf, NoCall, RunCall, TerminateCall, Working, Asking, Finishing

LEMMA NextCallIs ==
  ASSUME NEW r \in Requests
  PROVE  /\ requests'[r].at = "idle" => outstanding'[r] = NoCall
         /\ requests'[r].at \in Working =>
              outstanding'[r] = RunCall(requests'[r].key, requests'[r].want, "open")
         /\ requests'[r].at = "respond" =>
              outstanding'[r] = RunCall(requests'[r].key, requests'[r].want, "done")
         /\ requests'[r].at = "find" => outstanding'[r] = TerminateCall(requests'[r].key, "open")
         /\ requests'[r].at = "remove" /\ containers'[requests'[r].id] # Gone =>
              outstanding'[r] = TerminateCall(requests'[r].key, "open")
         /\ requests'[r].at = "remove" /\ containers'[requests'[r].id] = Gone =>
              outstanding'[r] = TerminateCall(requests'[r].key, "done")
<1>1. outstanding'[r] = CallOf(requests[r])'
  BY DEF outstanding
<1> QED
  BY <1>1 DEF CallOf, NoCall, RunCall, TerminateCall, Working, Asking, Finishing

LEMMA WhereAt ==
  ASSUME TypeOK, NEW r \in Requests
  PROVE  \/ requests[r] = NoRequest
         \/ requests[r].at \in Working
         \/ requests[r].at \in {"respond", "find", "remove"}
BY DEF TypeOK, Request, Working

\* A call is as it was if its handler is, and what a terminate found is still
\* there or was gone before.
LEMMA CallStays ==
  ASSUME TypeOK, NEW r \in Requests, requests'[r] = requests[r],
         requests[r].at = "remove" =>
           (containers'[requests[r].id] = Gone <=> containers[requests[r].id] = Gone)
  PROVE  outstanding'[r] = outstanding[r]
<1>1. CASE requests[r] = NoRequest \/ requests[r].at \in Working
  BY <1>1, CallIs, NextCallIs DEF NoRequest
<1>2. CASE requests[r].at \in {"respond", "find"}
  BY <1>2, CallIs, NextCallIs
<1>3. CASE requests[r].at = "remove"
  BY <1>3, CallIs, NextCallIs
<1> QED
  BY <1>1, <1>2, <1>3, WhereAt

\* A call that ends: with what it has done, or with an error.
LEMMA Ends ==
  ASSUME TypeOK, NEW r \in Requests, requests[r].at # "idle", Reply(r), UNCHANGED containers
  PROVE  Promise!End(r)
<1>1. requests'[r] = NoRequest /\ \A j \in Requests \ {r} : requests'[j] = requests[j]
  BY DEF Reply, TypeOK
<1>2. outstanding'[r] = NoCall
  BY <1>1, NextCallIs DEF NoRequest
<1>6. ASSUME NEW j \in Requests \ {r}
      PROVE  outstanding'[j] = outstanding[j]
  BY <1>1, CallStays
<1>3. outstanding[r] # NoCall
  <2>1. requests[r].at \in Working \union {"respond", "find", "remove"}
    BY WhereAt DEF NoRequest
  <2>2. \/ \E k, w, d : outstanding[r] = RunCall(k, w, d)
        \/ \E k, d : outstanding[r] = TerminateCall(k, d)
    BY <2>1, CallIs
  <2>3. /\ \A k, w, d : RunCall(k, w, d).op = "run"
        /\ \A k, d : TerminateCall(k, d).op = "terminate"
        /\ NoCall.op = "none"
    BY DEF RunCall, TerminateCall, NoCall
  <2> QED
    BY <2>2, <2>3
<1>4. outstanding' = [outstanding EXCEPT ![r] = NoCall]
  BY <1>2, <1>6 DEF outstanding
<1>5. stands' = stands
  BY SameContainers
<1> QED
  BY <1>3, <1>4, <1>5 DEF Promise!End, Promise!Idle, NoCall, stands, outstanding

\* A run that is done, among calls that are as they were.
LEMMA CallFinished ==
  ASSUME NEW r \in Requests, NEW k, NEW w,
         outstanding[r] = RunCall(k, w, "open"), outstanding'[r] = RunCall(k, w, "done"),
         \A j \in Requests \ {r} : outstanding'[j] = outstanding[j]
  PROVE  outstanding' = [outstanding EXCEPT ![r].state = "done"]
<1>1. [RunCall(k, w, "open") EXCEPT !.state = "done"] = RunCall(k, w, "done")
  BY DEF RunCall
<1>2. outstanding'[r] = [outstanding[r] EXCEPT !.state = "done"]
  BY <1>1
<1>3. outstanding = [j \in Requests |-> outstanding[j]]
      /\ outstanding' = [j \in Requests |-> outstanding'[j]]
  BY DEF outstanding
<1> HIDE DEF outstanding
<1> QED
  BY <1>2, <1>3

\* A run at work that goes on, and touches no container: it is no nearer its
\* end, or it has found all done.
LEMMA GoesOn ==
  ASSUME IInv, IInv', UNCHANGED containers, NEW r \in Requests,
         requests[r].at \in Working, requests'[r].at \in Asking \union Finishing,
         requests'[r].key = requests[r].key, requests'[r].want = requests[r].want,
         \A j \in Requests \ {r} : requests'[j] = requests[j],
         requests'[r].at = "respond" => requests'[r].id \in Present
  PROVE  Promise!FindDone(r) \/ UNCHANGED Promise!vars
<1>1. stands' = stands /\ Present' = Present
  BY SameContainers DEF Present
<1>2. ASSUME NEW j \in Requests \ {r}
      PROVE  outstanding'[j] = outstanding[j]
  BY CallStays DEF IInv
<1>3. outstanding[r] = RunCall(requests[r].key, requests[r].want, "open")
  BY CallIs
<1>4. CASE requests'[r].at # "respond"
  <2>1. outstanding'[r] = RunCall(requests[r].key, requests[r].want, "open")
    BY <1>4, NextCallIs DEF Working
  <2>2. outstanding' = outstanding
    BY <1>2, <1>3, <2>1 DEF outstanding
  <2> QED
    BY <1>1, <2>2 DEF Promise!vars, stands, outstanding
<1>5. CASE requests'[r].at = "respond"
  <2> DEFINE i == requests'[r].id
             k == requests[r].key
  <2>1. i \in Present /\ Knows(requests'[r], containers'[i])
    <3>1. requests'[r].at \in Finishing
      BY <1>5 DEF Finishing
    <3> QED
      BY <1>1, <1>5, <3>1 DEF IInv, LookHolds
  <2>2. /\ containers[i].key = k /\ containers[i].want = requests[r].want
        /\ Attached(containers[i]) /\ containers[i].status # "created"
    BY <1>5, <2>1 DEF Knows
  <2>3. k \in Instance
    BY AskingFields DEF IInv, Working
  <2>4. stands[k] = View(containers[i])
    BY <2>1, <2>2, <2>3, OneOfAName, InstanceIs
  <2>5. /\ stands[k] # NoInstance /\ stands[k].want = requests[r].want
        /\ stands[k].on = "asked" /\ stands[k].status # "created"
    BY <2>2, <2>4 DEF View, NoInstance
  <2>6. outstanding' = [outstanding EXCEPT ![r].state = "done"]
    BY <1>2, <1>3, <1>5, NextCallIs, CallFinished
  <2>7. Promise!Running(r) /\ Promise!Mine(r)
    BY <1>3, <2>5 DEF Promise!Running, Promise!Mine, Promise!None, stands, outstanding,
                      NoInstance, RunCall
  <2> QED
    <3>1. outstanding[r].key = k
      BY <1>3 DEF RunCall
    <3>2. /\ stands[outstanding[r].key].on = "asked"
          /\ stands[outstanding[r].key].status # "created"
      BY <2>5, <3>1
    <3> QED
      BY <1>1, <2>6, <2>7, <3>2 DEF Promise!FindDone, Promise!Finished, stands, outstanding
<1> QED
  BY <1>4, <1>5

\* A container keeps its name as long as it is there.
LEMMA KeysStay ==
  ASSUME IInv, [Next]_vars, NEW i \in Present \cap Present'
  PROVE  containers'[i].key = containers[i].key
<1> USE DEF IInv, TypeOK
<1>1. CASE UNCHANGED containers
  BY <1>1
<1>2. containers[i] \in Container
  BY DEF Present
<1>3. ASSUME NEW r \in Requests, RunCreate(r)
      PROVE  containers'[i].key = containers[i].key
  <2>1. ASSUME NEW n, containers' = [containers EXCEPT ![made + 1] = n]
        PROVE  containers'[i].key = containers[i].key
    <3>1. i # made + 1
      <4>1. i <= made /\ i \in Int /\ made \in Int
        BY DEF FreshIds, Present, Ids
      <4> QED
        BY <4>1
    <3> QED
      BY <2>1, <3>1
  <2> QED
    BY <1>1, <1>3, <2>1 DEF RunCreate, daemon
<1>4. ASSUME NEW r \in Requests, FinishConnect(r) \/ FinishStart(r)
      PROVE  containers'[i].key = containers[i].key
  BY <1>1, <1>2, <1>4 DEF FinishConnect, FinishStart, Container, Present
<1>5. ASSUME NEW r \in Requests, TerminateRemove(r)
      PROVE  containers'[i].key = containers[i].key
  BY <1>5 DEF TerminateRemove, Present
<1>6. ASSUME NEW j \in Ids, ContainerExits(j)
      PROVE  containers'[i].key = containers[i].key
  BY <1>2, <1>6 DEF ContainerExits, Container
<1> QED
  BY <1>1, <1>3, <1>4, <1>5, <1>6
     DEF Next, vars, daemon, Handle, HandlerFails, RunInspect, RunCount, RunNetwork, RunLost,
         RunLook, FinishNetwork, Respond, TerminateFind, AskRun, AskTerminate, AskList, ListIds,
         ListLook, ListDone, ListEnds, Settle

\* Only a look finds what a terminate removes.
LEMMA NewlyFound ==
  ASSUME IInv, [Next]_vars, NEW r \in Requests,
         requests'[r].at = "remove", requests'[r] # requests[r]
  PROVE  /\ UNCHANGED <<containers, made>>
         /\ requests'[r].id \in Named(requests'[r].key)
<1> USE DEF IInv, TypeOK
<1>1. ASSUME NEW q \in Requests, TerminateFind(q)
      PROVE  UNCHANGED <<containers, made>> /\ requests'[r].id \in Named(requests'[r].key)
  <2>1. UNCHANGED <<containers, made>>
    BY <1>1 DEF TerminateFind, daemon
  <2>2. ~Reply(q)
    BY DEF Reply, NoRequest
  <2>3. PICK i \in Named(requests[q].key) :
          requests' = [requests EXCEPT ![q] = [at |-> "remove", key |-> requests[q].key, id |-> i]]
    BY <1>1, <2>2 DEF TerminateFind
  <2>4. requests'[r] = [at |-> "remove", key |-> requests[q].key, id |-> i]
    BY <2>3
  <2>5. requests'[r].id = i /\ requests'[r].key = requests[q].key
    BY <2>4
  <2> QED
    BY <2>1, <2>3, <2>5
<1>2. ASSUME NEW q \in Requests, Reply(q)
      PROVE  FALSE
  BY <1>2 DEF Reply, NoRequest
<1>3. ASSUME NEW q \in Requests, NEW at, at # "remove", Goto(q, at),
             requests[q].at \in Asking \union Finishing
      PROVE  FALSE
  <2>1. /\ \A j \in Requests \ {q} : requests'[j] = requests[j]
        /\ requests'[q].at = at
    BY <1>3, GotoFields
  <2> QED
    BY <1>3, <2>1
<1>4. ASSUME NEW q \in Requests, NEW i, NEW at \in Finishing, Hold(q, i, at)
      PROVE  FALSE
  BY <1>4 DEF Hold, Finishing
<1>5. ASSUME NEW q \in Requests, NEW i, Adopt(q, i)
      PROVE  FALSE
  BY <1>2, <1>4, <1>5, FinishType DEF Adopt
<1>6. ASSUME NEW q \in Requests, RunInspect(q) \/ RunLost(q) \/ RunLook(q)
      PROVE  FALSE
  BY <1>2, <1>3, <1>4, <1>5, <1>6, FinishType DEF RunInspect, RunLost, RunLook, Asking
<1>7. ASSUME NEW q \in Requests, RunCount(q) \/ RunNetwork(q) \/ RunCreate(q)
      PROVE  FALSE
  BY <1>2, <1>3, <1>4, <1>7 DEF RunCount, RunNetwork, RunCreate, Asking, Finishing
<1>8. ASSUME NEW q \in Requests, FinishNetwork(q) \/ FinishConnect(q) \/ FinishStart(q)
      PROVE  FALSE
  BY <1>2, <1>3, <1>8 DEF FinishNetwork, FinishConnect, FinishStart, Unstarted, Finishing
<1>9. ASSUME NEW q \in Requests, Respond(q) \/ TerminateRemove(q) \/ HandlerFails(q)
      PROVE  FALSE
  BY <1>2, <1>9 DEF Respond, TerminateRemove, HandlerFails
<1>10. ASSUME NEW q \in Requests, NEW k \in Instance, NEW w \in Want,
              AskTerminate(q, k) \/ AskRun(q, k, w)
      PROVE  FALSE
  BY <1>10 DEF AskTerminate, AskRun
<1>11. ASSUME NEW q \in Requests, NEW k \in Instance, AskTerminate(q, k)
      PROVE  FALSE
  BY <1>11 DEF AskTerminate
<1>12. ~UNCHANGED requests
  OBVIOUS
<1> QED
  BY <1>1, <1>6, <1>7, <1>8, <1>9, <1>10, <1>11, <1>12
     DEF Next, vars, Handle, AskList, ListIds, ListLook, ListDone, ListEnds, ContainerExits,
         Settle

LEMMA FoundStep ==
  ASSUME IInv, IInv', FoundHolds, [Next]_vars
  PROVE  FoundHolds'
<1> SUFFICES ASSUME NEW r \in Requests, requests'[r].at = "remove"
             PROVE  /\ requests'[r].id \in Ids /\ requests'[r].id <= made'
                    /\ requests'[r].id \in Present' =>
                         containers'[requests'[r].id].key = requests'[r].key
  BY DEF FoundHolds
<1> DEFINE i == requests'[r].id
<1>1. CASE requests'[r] = requests[r]
  <2>1. i \in Ids /\ i <= made /\ (i \in Present => containers[i].key = requests'[r].key)
    BY <1>1 DEF FoundHolds
  <2>2. i \in Int /\ made \in Int /\ made' \in Int
    BY <2>1 DEF Ids, IInv, TypeOK
  <2>3. i <= made'
    BY <2>1, <2>2, PresentStep
  <2>4. i \in Present' => i \in Present
    BY <2>1, <2>2, PresentStep
  <2> QED
    BY <2>1, <2>3, <2>4, KeysStay
<1>2. CASE requests'[r] # requests[r]
  <2>1. UNCHANGED <<containers, made>> /\ i \in Named(requests'[r].key)
    BY <1>2, NewlyFound
  <2> QED
    BY <2>1 DEF Named, Present, IInv, FreshIds
<1> QED
  BY <1>1, <1>2

\* A step in which a container is made, or changes and stays, leaves the calls
\* of the other handlers as they are.
LEMMA OthersStay ==
  ASSUME IInv, FoundHolds, NEW i \in Ids,
         \A j \in Ids \ {i} : containers'[j] = containers[j],
         (i \in Present /\ i \in Present') \/ made < i,
         NEW r \in Requests, requests'[r] = requests[r]
  PROVE  outstanding'[r] = outstanding[r]
<1>1. ASSUME requests[r].at = "remove"
      PROVE  containers'[requests[r].id] = Gone <=> containers[requests[r].id] = Gone
  <2>1. requests[r].id \in Ids /\ requests[r].id <= made
    BY <1>1 DEF FoundHolds
  <2>2. i \in Int /\ requests[r].id \in Int /\ made \in Int
    BY <2>1 DEF Ids, IInv, TypeOK
  <2>3. CASE requests[r].id = i
    BY <2>1, <2>2, <2>3 DEF Present
  <2>4. CASE requests[r].id # i
    BY <2>1, <2>4
  <2> QED
    BY <2>3, <2>4
<1> QED
  BY <1>1, CallStays DEF IInv

LEMMA CreateRefines ==
  ASSUME IInv, IInv', FoundHolds, NEW r \in Requests, RunCreate(r)
  PROVE  Promise!Next \/ UNCHANGED Promise!vars
<1> DEFINE k == requests[r].key
           w == requests[r].want
           i == made + 1
           n == [key |-> k, want |-> w, status |-> "created", nets |-> {k[1]}]
<1>1. k \in Instance /\ requests[r].at \in Working /\ requests[r].at \in Asking
  BY AskingFields DEF RunCreate, Asking, Finishing, Working, IInv
<1>2. CASE Goto(r, "lost") /\ UNCHANGED daemon
  <2>1. /\ \A j \in Requests \ {r} : requests'[j] = requests[j]
        /\ requests'[r].at = "lost"
        /\ requests'[r].key = k /\ requests'[r].want = w
    BY <1>1, <1>2, GotoFields DEF IInv
  <2>2. Promise!FindDone(r) \/ UNCHANGED Promise!vars
    BY <1>1, <1>2, <2>1, GoesOn DEF daemon, Asking
  <2> QED
    BY <2>2 DEF Promise!Next
<1>3. CASE Reply(r) /\ UNCHANGED daemon
  BY <1>1, <1>3, Ends DEF daemon, Promise!Next, Working, Asking, Finishing, IInv
<1>4. CASE /\ Named(k) = {} /\ made < MaxIds
           /\ containers' = [containers EXCEPT ![i] = n]
           /\ Hold(r, i, "look")
  <2>1. i \in Ids /\ made < i
    <3>1. MaxIds \in Nat
      BY ChalaAssumption, Zenon
    <3>2. made < MaxIds /\ made \in 0 .. MaxIds
      BY <1>4 DEF IInv, TypeOK
    <3> QED
      BY <3>1, <3>2 DEF Ids
  <2>2. containers'[i] = n /\ \A j \in Ids \ {i} : containers'[j] = containers[j]
    BY <1>4, <2>1 DEF IInv, TypeOK
  <2>3. n.key = k /\ n.want = w /\ n.status = "created" /\ n # Gone
    BY DEF Gone
  <2>4. i \notin Present /\ i \in Present'
    <3>1. i \notin Present
      BY <2>1 DEF IInv, FreshIds, TypeOK
    <3> QED
      BY <2>1, <2>2, <2>3, <3>1 DEF Present
  <2>5. stands[k] = NoInstance
    BY <1>1, <1>4, InstanceIs
  <2> HIDE DEF n
  <2>6. stands' = [stands EXCEPT ![k] = View(n)]
    BY <1>1, <1>4, <2>1, <2>2, <2>3, <2>4, OneChanges
  <2>7. /\ requests'[r].at = "look" /\ requests'[r].key = k /\ requests'[r].want = w
        /\ \A j \in Requests \ {r} : requests'[j] = requests[j]
    BY <1>4 DEF Hold, IInv, TypeOK
  <2>8. outstanding[r] = RunCall(k, w, "open") /\ outstanding'[r] = RunCall(k, w, "open")
    BY <1>1, <2>7, CallIs, NextCallIs DEF Working, Finishing
  <2>9. ASSUME NEW j \in Requests \ {r}
        PROVE  outstanding'[j] = outstanding[j]
    BY <2>1, <2>2, <2>7, OthersStay
  <2>10. outstanding' = outstanding
    BY <2>8, <2>9 DEF outstanding
  <2>11. Promise!Make(r)
    <3>1. PICK on \in {"own", "asked"} : View(n) = [want |-> w, status |-> "created", on |-> on]
      BY <2>3 DEF View
    <3>3. /\ outstanding[r].op = "run" /\ outstanding[r].state = "open"
          /\ outstanding[r].key = k /\ outstanding[r].want = w
      BY <2>8 DEF RunCall
    <3>4. stands' = [stands EXCEPT ![k] = [want |-> w, status |-> "created", on |-> on]]
      BY <2>6, <3>1
    <3> HIDE DEF k, w
    <3>5. \E x \in {"own", "asked"} :
            stands' = [stands EXCEPT ![outstanding[r].key] =
                         [want |-> outstanding[r].want, status |-> "created", on |-> x]]
      BY <3>3, <3>4
    <3> QED
      BY <2>5, <2>10, <3>3, <3>5
         DEF Promise!Make, Promise!Running, Promise!Change, Promise!None, NoInstance,
             stands, outstanding
  <2> QED
    BY <2>11 DEF Promise!Next
<1> QED
  BY <1>2, <1>3, <1>4 DEF RunCreate

\* An instance that gets on: it is attached, starts or ends.
LEMMA InstanceGetsOn ==
  ASSUME IInv, IInv', NEW i \in Present, NEW n \in Container,
         containers' = [containers EXCEPT ![i] = n],
         n.key = containers[i].key, n.want = containers[i].want
  PROVE  /\ i \in Present' /\ containers'[i] = n /\ n.key \in Instance
         /\ \A j \in Ids \ {i} : containers'[j] = containers[j]
         /\ stands[n.key] = View(containers[i])
         /\ stands' = [stands EXCEPT ![n.key] = View(n)]
<1>1. /\ i \in Ids /\ containers'[i] = n
      /\ \A j \in Ids \ {i} : containers'[j] = containers[j]
  BY DEF Present, IInv, TypeOK
<1>2. i \in Present'
  BY <1>1 DEF Present, Container, Gone
<1>3. n.key \in Instance
  BY DEF Container
<1>4. stands[n.key] = View(containers[i])
  BY <1>3, OneOfAName, InstanceIs
<1>5. stands' = [stands EXCEPT ![n.key] = View(n)]
  BY <1>1, <1>2, <1>3, OneChanges
<1> QED
  BY <1>1, <1>2, <1>3, <1>4, <1>5

\* What a step does for the run that takes it, if the container is there.
LEMMA ConnectRefines ==
  ASSUME IInv, IInv', FoundHolds, NEW r \in Requests, FinishConnect(r)
  PROVE  Promise!Next \/ UNCHANGED Promise!vars
<1> DEFINE q == requests[r]
<1>1. q.id \in Ids /\ q.at = "connect" /\ q.at \in Finishing /\ q.at \in Working
  BY FinishingFields DEF FinishConnect, Finishing, Working, IInv
<1>2. CASE containers[q.id] = Gone
  BY <1>1, <1>2, Ends DEF FinishConnect, Promise!Next, IInv
<1>3. CASE containers[q.id] # Gone
  <2>1. q.id \in Present /\ containers[q.id] \in Container
    BY <1>1, <1>3 DEF Present, IInv, TypeOK
  <2>2. containers[q.id].key = q.key /\ containers[q.id].want = q.want
    BY <1>1, <2>1 DEF IInv, LookHolds, Knows
  <2>3. q.want \in Want /\ q.want.attach # ""
    BY <1>1, AskingFields DEF IInv, AttachAsked
  <2>4. PICK n \in Container :
          /\ containers' = [containers EXCEPT ![q.id] = n]
          /\ n.key = q.key /\ n.want = q.want /\ n.status = containers[q.id].status
          /\ n.nets = containers[q.id].nets \union {q.want.attach}
    <3>1. [containers[q.id] EXCEPT !.nets = @ \union {q.want.attach}] \in Container
      BY <2>1, <2>3 DEF Container, Want, Network
    <3> QED
      BY <1>3, <2>1, <2>2, <3>1 DEF FinishConnect, Container
  <2>5. Attached(n)
    BY <2>4 DEF Attached
  <2>6. /\ \A j \in Requests \ {r} : requests'[j] = requests[j]
        /\ requests'[r].at = Unstarted(q.c)
        /\ requests'[r].key = q.key /\ requests'[r].want = q.want /\ requests'[r].id = q.id
    BY <1>1, <1>3, GotoFields DEF FinishConnect, IInv
  <2>7. /\ q.id \in Present' /\ containers'[q.id] = n /\ q.key \in Instance
        /\ \A j \in Ids \ {q.id} : containers'[j] = containers[j]
        /\ stands[q.key] = View(containers[q.id])
        /\ stands' = [stands EXCEPT ![q.key] = View(n)]
    <3>1. /\ n.key = containers[q.id].key /\ n.want = containers[q.id].want
          /\ containers' = [containers EXCEPT ![q.id] = n]
      BY <2>2, <2>4
    <3>2. n.key = q.key
      BY <2>4
    <3>3. q.id \in Present /\ n \in Container
      BY <2>1
    <3> HIDE DEF q
    <3>4. /\ q.id \in Present' /\ containers'[q.id] = n /\ n.key \in Instance
          /\ \A j \in Ids \ {q.id} : containers'[j] = containers[j]
          /\ stands[n.key] = View(containers[q.id])
          /\ stands' = [stands EXCEPT ![n.key] = View(n)]
      BY ONLY IInv, IInv', <3>1, <3>3, InstanceGetsOn
    <3> QED
      BY <3>2, <3>4
  <2>8. View(n) = [stands[q.key] EXCEPT !.on = "asked"]
    <3> HIDE DEF q
    <3> QED
      BY <2>2, <2>4, <2>5, <2>7 DEF View
  <2>9. ASSUME NEW j \in Requests \ {r}
        PROVE  outstanding'[j] = outstanding[j]
    BY <1>1, <2>1, <2>6, <2>7, OthersStay
  <2>10. outstanding[r] = RunCall(q.key, q.want, "open")
    BY <1>1, CallIs
  <2>11. \/ outstanding' = outstanding
         \/ /\ stands[q.key].status # "created"
            /\ outstanding' = [outstanding EXCEPT ![r].state = "done"]
    <3>1. CASE requests'[r].at = "start"
      <4>1. outstanding'[r] = RunCall(q.key, q.want, "open")
        BY <2>6, <3>1, NextCallIs DEF Working, Finishing
      <4>2. outstanding' = outstanding
        BY <2>9, <2>10, <4>1 DEF outstanding
      <4> QED
        BY <4>2
    <3>2. CASE requests'[r].at = "respond"
      <4>1. outstanding'[r] = RunCall(q.key, q.want, "done")
        BY <2>6, <3>2, NextCallIs
      <4>2. outstanding' = [outstanding EXCEPT ![r].state = "done"]
        BY <2>9, <2>10, <4>1, CallFinished
      <4>3. q.c.status # "created"
        BY <2>6, <3>2 DEF Unstarted
      <4>4. containers[q.id].status # "created"
        BY <1>1, <2>1, <4>3 DEF IInv, LookHolds, Knows
      <4>5. stands[q.key].status # "created"
        BY <2>7, <4>4 DEF View
      <4> QED
        BY <4>2, <4>5
    <3> QED
      BY <2>6, <3>1, <3>2 DEF Unstarted
  <2>12. /\ outstanding[r].op = "run" /\ outstanding[r].state = "open"
         /\ outstanding[r].key = q.key /\ outstanding[r].want = q.want
    BY <2>10 DEF RunCall
  <2>13. stands[q.key] # NoInstance /\ stands[q.key].want = q.want
    BY <2>2, <2>7 DEF View, NoInstance
  <2> HIDE DEF q
  <2>14. stands' = [stands EXCEPT ![q.key] = [stands[q.key] EXCEPT !.on = "asked"]]
    BY <2>7, <2>8
  <2>15. Promise!Running(r) /\ Promise!Mine(r)
    BY <2>12, <2>13 DEF Promise!Running, Promise!Mine, Promise!None, NoInstance, stands,
                        outstanding
  <2>16. Promise!Attach(r)
    BY <2>11, <2>12, <2>14, <2>15
       DEF Promise!Attach, Promise!Change, Promise!Finished, stands, outstanding
  <2> QED
    BY <2>16 DEF Promise!Next
<1> QED
  BY <1>2, <1>3

LEMMA StartRefines ==
  ASSUME IInv, IInv', FoundHolds, NEW r \in Requests, FinishStart(r)
  PROVE  Promise!Next \/ UNCHANGED Promise!vars
<1> DEFINE q == requests[r]
<1>1. q.id \in Ids /\ q.at = "start" /\ q.at \in Finishing /\ q.at \in Working
  BY FinishingFields DEF FinishStart, Finishing, Working, IInv
<1>2. CASE containers[q.id] = Gone
  BY <1>1, <1>2, Ends DEF FinishStart, Promise!Next, IInv
<1>3. CASE containers[q.id] # Gone
  <2>1. q.id \in Present /\ containers[q.id] \in Container
    BY <1>1, <1>3 DEF Present, IInv, TypeOK
  <2>2. /\ containers[q.id].key = q.key /\ containers[q.id].want = q.want
        /\ Attached(containers[q.id])
    BY <1>1, <2>1 DEF IInv, LookHolds, Knows
  <2>3. PICK n \in Container :
          /\ containers' = [containers EXCEPT ![q.id] = n]
          /\ n.key = q.key /\ n.want = q.want /\ n.status = "running"
          /\ n.nets = containers[q.id].nets
    <3>1. [containers[q.id] EXCEPT !.status = "running"] \in Container
      BY <2>1 DEF Container
    <3> QED
      BY <1>3, <2>1, <2>2, <3>1 DEF FinishStart, Container
  <2>4. Attached(n)
    BY <2>2, <2>3, AttachedStays
  <2>5. /\ \A j \in Requests \ {r} : requests'[j] = requests[j]
        /\ requests'[r].at = "respond"
        /\ requests'[r].key = q.key /\ requests'[r].want = q.want /\ requests'[r].id = q.id
    BY <1>1, <1>3, GotoFields DEF FinishStart, IInv
  <2>6. /\ q.id \in Present' /\ containers'[q.id] = n /\ q.key \in Instance
        /\ \A j \in Ids \ {q.id} : containers'[j] = containers[j]
        /\ stands[q.key] = View(containers[q.id])
        /\ stands' = [stands EXCEPT ![q.key] = View(n)]
    <3>1. /\ n.key = containers[q.id].key /\ n.want = containers[q.id].want
          /\ containers' = [containers EXCEPT ![q.id] = n]
      BY <2>2, <2>3
    <3>2. n.key = q.key
      BY <2>3
    <3>3. q.id \in Present /\ n \in Container
      BY <2>1
    <3> HIDE DEF q
    <3>4. /\ q.id \in Present' /\ containers'[q.id] = n /\ n.key \in Instance
          /\ \A j \in Ids \ {q.id} : containers'[j] = containers[j]
          /\ stands[n.key] = View(containers[q.id])
          /\ stands' = [stands EXCEPT ![n.key] = View(n)]
      BY ONLY IInv, IInv', <3>1, <3>3, InstanceGetsOn
    <3> QED
      BY <3>2, <3>4
  <2>7. ASSUME NEW j \in Requests \ {r}
        PROVE  outstanding'[j] = outstanding[j]
    BY <1>1, <2>1, <2>5, <2>6, OthersStay
  <2>8. outstanding[r] = RunCall(q.key, q.want, "open")
    BY <1>1, CallIs
  <2>9. outstanding'[r] = RunCall(q.key, q.want, "done")
    BY <2>5, NextCallIs
  <2>10. outstanding' = [outstanding EXCEPT ![r].state = "done"]
    BY <2>7, <2>8, <2>9, CallFinished
  <2>11. /\ outstanding[r].op = "run" /\ outstanding[r].state = "open"
         /\ outstanding[r].key = q.key /\ outstanding[r].want = q.want
    BY <2>8 DEF RunCall
  <2>12. stands[q.key] # NoInstance /\ stands[q.key].want = q.want /\ stands[q.key].on = "asked"
    BY <2>2, <2>6 DEF View, NoInstance
  <2> HIDE DEF q
  <2>13. stands' = [stands EXCEPT ![q.key] = [stands[q.key] EXCEPT !.status = "running"]]
    <3>1. View(n) = [View(containers[q.id]) EXCEPT !.status = "running"]
      BY <2>2, <2>3, <2>4 DEF View
    <3> QED
      BY <2>6, <3>1
  <2>14. Promise!Running(r) /\ Promise!Mine(r)
    BY <2>11, <2>12 DEF Promise!Running, Promise!Mine, Promise!None, NoInstance, stands,
                        outstanding
  <2>15. Promise!Start(r)
    BY <2>10, <2>11, <2>12, <2>13, <2>14
       DEF Promise!Start, Promise!Change, Promise!Finished, stands, outstanding
  <2> QED
    BY <2>15 DEF Promise!Next
<1> QED
  BY <1>2, <1>3

LEMMA TerminateRefines ==
  ASSUME IInv, IInv', FoundHolds, NEW r \in Requests, TerminateFind(r) \/ TerminateRemove(r)
  PROVE  Promise!Next \/ UNCHANGED Promise!vars
<1> DEFINE q == requests[r]
           i == q.id
           k == q.key
<1>1. TypeOK
  BY DEF IInv
<1>2. ASSUME Reply(r), UNCHANGED containers
      PROVE  Promise!Next
  <2>1. q.at # "idle"
    BY DEF TerminateFind, TerminateRemove
  <2> QED
    BY <1>1, <1>2, <2>1, Ends DEF Promise!Next
<1>3. CASE TerminateFind(r)
  <2>1. ASSUME NEW j \in Named(k),
               requests' = [requests EXCEPT ![r] = [at |-> "remove", key |-> k, id |-> j]]
        PROVE  UNCHANGED Promise!vars
    <3>1. /\ \A p \in Requests \ {r} : requests'[p] = requests[p]
          /\ requests'[r].at = "remove" /\ requests'[r].key = k /\ requests'[r].id = j
      BY <1>1, <2>1 DEF TypeOK
    <3>2. containers' = containers /\ containers'[j] # Gone
      BY <1>3, <2>1 DEF TerminateFind, daemon, Named, Present
    <3>3. outstanding[r] = TerminateCall(k, "open")
      BY <1>3, CallIs DEF TerminateFind
    <3>4. outstanding'[r] = TerminateCall(k, "open")
      BY <3>1, <3>2, NextCallIs
    <3>5. ASSUME NEW p \in Requests \ {r}
          PROVE  outstanding'[p] = outstanding[p]
      BY <1>1, <3>1, <3>2, CallStays
    <3>6. outstanding' = outstanding
      BY <3>3, <3>4, <3>5 DEF outstanding
    <3> QED
      BY <3>2, <3>6, SameContainers DEF Promise!vars, stands, outstanding
  <2> QED
    BY <1>2, <1>3, <2>1 DEF TerminateFind, daemon
<1>4. CASE TerminateRemove(r)
  <2>1. /\ i \in Ids /\ i <= made /\ (i \in Present => containers[i].key = k)
        /\ q.at = "remove" /\ k \in Instance
    BY <1>1, <1>4 DEF TerminateRemove, FoundHolds, TypeOK, Request, NoRequest, Asking, Finishing
  <2>2. /\ \A j \in Ids \ {i} : containers'[j] = containers[j]
        /\ containers'[i] = Gone
    BY <1>1, <1>4, <2>1 DEF TerminateRemove, TypeOK
  <2>3. requests'[r] = NoRequest /\ \A p \in Requests \ {r} : requests'[p] = requests[p]
    BY <1>1, <1>4 DEF TerminateRemove, Reply, TypeOK
  <2>4. CASE i \notin Present
    <3>1. containers' = containers
      BY <1>1, <1>4, <2>1, <2>4 DEF TerminateRemove, Present, TypeOK
    <3> QED
      BY <1>2, <1>4, <3>1 DEF TerminateRemove
  <2>5. CASE i \in Present
    <3> DEFINE others == {p \in Requests \ {r} : requests[p].at = "remove" /\ requests[p].id = i}
    <3>1. stands[k] = View(containers[i])
      BY <2>1, <2>5, OneOfAName, InstanceIs
    <3>2. stands' = [stands EXCEPT ![k] = NoInstance]
      <4>1. i \notin Present'
        BY <2>2 DEF Present
      <4> QED
        BY <2>1, <2>2, <2>5, <4>1, OneChanges
    <3>3. stands[k] # NoInstance
      BY <3>1 DEF View, NoInstance
    <3>4. outstanding[r] = TerminateCall(k, "open") /\ outstanding'[r] = NoCall
      BY <2>1, <2>3, <2>5, CallIs, NextCallIs DEF Present, NoRequest
    <3>5. ASSUME NEW p \in others
          PROVE  outstanding[p] = TerminateCall(k, "open")
                 /\ outstanding'[p] = TerminateCall(k, "done")
      <4>1. requests[p].key = k
        BY <2>1, <2>5 DEF FoundHolds
      <4> QED
        BY <2>2, <2>3, <2>5, <4>1, CallIs, NextCallIs DEF Present
    <3>6. ASSUME NEW p \in Requests \ {r}, p \notin others
          PROVE  outstanding'[p] = outstanding[p]
      <4>1. requests[p].at = "remove" => requests[p].id \in Ids \ {i}
        BY <3>6 DEF FoundHolds
      <4> QED
        BY <1>1, <2>2, <2>3, <4>1, CallStays
    <3>7. \A p \in others : outstanding'[p] = [outstanding[p] EXCEPT !.state = "done"]
      BY <3>5 DEF TerminateCall
    <3>8. /\ \A p \in others : /\ outstanding[p].op = "terminate" /\ outstanding[p].state = "open"
                               /\ outstanding[p].key = k
          /\ outstanding[r].op = "terminate" /\ outstanding[r].state = "open"
          /\ outstanding[r].key = k
      BY <3>4, <3>5 DEF TerminateCall
    <3>9. others \in SUBSET {p \in Requests \ {r} :
                               Promise!Terminating(p) /\ outstanding[p].key = outstanding[r].key}
      BY <3>8 DEF Promise!Terminating, outstanding
    <3>10. outstanding' = [p \in Requests |-> IF p = r THEN NoCall
                             ELSE IF p \in others THEN [outstanding[p] EXCEPT !.state = "done"]
                             ELSE outstanding[p]]
      <4>1. outstanding' = [p \in Requests |-> outstanding'[p]]
        BY DEF outstanding
      <4> HIDE DEF others, outstanding
      <4> QED
        BY <3>4, <3>6, <3>7, <4>1
    <3>11. Promise!Terminating(r)
      BY <3>8 DEF Promise!Terminating, outstanding
    <3> HIDE DEF others, k
    <3>12. Promise!Remove(r)
      BY <3>2, <3>3, <3>8, <3>9, <3>10, <3>11
         DEF Promise!Remove, Promise!Change, Promise!None, Promise!Idle, NoInstance, NoCall,
             stands, outstanding
    <3> QED
      BY <3>12 DEF Promise!Next
  <2> QED
    BY <2>4, <2>5
<1> QED
  BY <1>3, <1>4

LEMMA AskRefines ==
  ASSUME IInv, NEW r \in Requests, NEW k \in Instance,
         AskTerminate(r, k) \/ \E w \in Want : AskRun(r, k, w)
  PROVE  Promise!Next
<1>1. /\ requests[r].at = "idle" /\ containers' = containers /\ TypeOK
      /\ \A p \in Requests \ {r} : requests'[p] = requests[p]
  BY DEF AskTerminate, AskRun, NoRequest, daemon, IInv, TypeOK
<1>2. stands' = stands /\ outstanding[r] = NoCall
  BY <1>1, SameContainers, CallIs
<1>3. ASSUME NEW p \in Requests \ {r}
      PROVE  outstanding'[p] = outstanding[p]
  BY <1>1, CallStays
<1>4. CASE AskTerminate(r, k)
  <2>1. requests'[r].at = "find" /\ requests'[r].key = k
    BY <1>1, <1>4 DEF AskTerminate, TypeOK
  <2>2. outstanding'[r] = TerminateCall(k, "open")
    BY <2>1, NextCallIs
  <2>3. outstanding' = [outstanding EXCEPT ![r] = TerminateCall(k, "open")]
    BY <1>3, <2>2 DEF outstanding
  <2>4. Promise!AskTerminate(r, k)
    BY <1>2, <2>3 DEF Promise!AskTerminate, Promise!Idle, NoCall, TerminateCall, stands, outstanding
  <2> QED
    BY <2>4 DEF Promise!Next
<1>5. ASSUME NEW w \in Want, AskRun(r, k, w)
      PROVE  Promise!Next
  <2>1. requests'[r].at \in Working /\ requests'[r].key = k /\ requests'[r].want = w
    BY <1>1, <1>5 DEF AskRun, TypeOK, Working, Asking
  <2>2. outstanding'[r] = RunCall(k, w, "open")
    BY <2>1, NextCallIs
  <2>3. outstanding' = [outstanding EXCEPT ![r] = RunCall(k, w, "open")]
    BY <1>3, <2>2 DEF outstanding
  <2>4. Promise!AskRun(r, k, w)
    BY <1>2, <2>3 DEF Promise!AskRun, Promise!Idle, NoCall, RunCall, stands, outstanding
  <2> QED
    BY <2>4 DEF Promise!Next
<1> QED
  BY <1>4, <1>5

LEMMA ExitRefines ==
  ASSUME IInv, IInv', FoundHolds, NEW i \in Ids, ContainerExits(i)
  PROVE  Promise!Next
<1> DEFINE n == [containers[i] EXCEPT !.status = "exited"]
           k == containers[i].key
<1>1. i \in Present /\ containers[i] \in Container /\ containers[i].status = "running"
  BY DEF ContainerExits, Present, Gone, IInv, TypeOK
<1>2. /\ n.key = k /\ n.want = containers[i].want
      /\ n.status = "exited" /\ n.nets = containers[i].nets /\ n \in Container
  BY <1>1 DEF Container
<1>3. containers' = [containers EXCEPT ![i] = n] /\ UNCHANGED requests
  BY DEF ContainerExits
<1>4. Attached(n) <=> Attached(containers[i])
  BY <1>2, AttachedStays
<1> HIDE DEF n
<1>5. /\ i \in Present' /\ k \in Instance
      /\ \A j \in Ids \ {i} : containers'[j] = containers[j]
      /\ stands[k] = View(containers[i])
      /\ stands' = [stands EXCEPT ![k] = View(n)]
  BY <1>1, <1>2, <1>3, InstanceGetsOn
<1>6. stands[k].status = "running" /\ View(n) = [stands[k] EXCEPT !.status = "exited"]
  BY <1>1, <1>2, <1>4, <1>5 DEF View
<1>7. ASSUME NEW r \in Requests
      PROVE  outstanding'[r] = outstanding[r]
  BY <1>1, <1>3, <1>5, OthersStay
<1>8. outstanding' = outstanding
  BY <1>7 DEF outstanding
<1> HIDE DEF k
<1>9. Promise!Exit(k)
  BY <1>5, <1>6, <1>8 DEF Promise!Exit, Promise!Change, stands, outstanding
<1> QED
  BY <1>5, <1>9 DEF Promise!Next

LEMMA HandlerRefines ==
  ASSUME IInv, IInv', FoundHolds, NEW r \in Requests, Handle(r) \/ HandlerFails(r)
  PROVE  Promise!Next \/ UNCHANGED Promise!vars
<1> DEFINE q == requests[r]
<1>1. TypeOK
  BY DEF IInv
<1>2. ASSUME q.at # "idle", Reply(r), UNCHANGED containers
      PROVE  Promise!Next
  BY <1>1, <1>2, Ends DEF Promise!Next
<1>3. ASSUME NEW at \in Working, q.at \in Working, Goto(r, at), UNCHANGED containers
      PROVE  Promise!Next \/ UNCHANGED Promise!vars
  <2>1. /\ \A j \in Requests \ {r} : requests'[j] = requests[j]
        /\ requests'[r].at = at
        /\ requests'[r].key = q.key /\ requests'[r].want = q.want
    BY <1>1, <1>3, GotoFields DEF Working
  <2>2. at \in Asking \union Finishing /\ at # "respond"
    BY DEF Working
  <2>3. Promise!FindDone(r) \/ UNCHANGED Promise!vars
    BY <1>3, <2>1, <2>2, GoesOn
  <2> QED
    BY <2>3 DEF Promise!Next
<1>4. ASSUME NEW i \in Present, NEW at \in Finishing, q.at \in Working, Hold(r, i, at),
             UNCHANGED containers
      PROVE  Promise!Next \/ UNCHANGED Promise!vars
  <2>1. /\ \A j \in Requests \ {r} : requests'[j] = requests[j]
        /\ requests'[r].at = at /\ requests'[r].id = i
        /\ requests'[r].key = q.key /\ requests'[r].want = q.want
    BY <1>1, <1>4 DEF Hold, TypeOK
  <2>2. Promise!FindDone(r) \/ UNCHANGED Promise!vars
    BY <1>4, <2>1, GoesOn
  <2> QED
    BY <2>2 DEF Promise!Next
<1>5. ASSUME NEW k, NEW i \in Named(k), Adopt(r, i), q.at \in Working, UNCHANGED containers
      PROVE  Promise!Next \/ UNCHANGED Promise!vars
  <2>1. i \in Present /\ q.at # "idle"
    BY <1>5 DEF Named, Working, Asking, Finishing
  <2> QED
    BY <1>2, <1>4, <1>5, <2>1, FinishType DEF Adopt
<1>6. CASE RunInspect(r) \/ RunLost(r)
  <2>1. q.at \in Working /\ "count" \in Working /\ q.at # "idle" /\ UNCHANGED containers
    BY <1>6 DEF RunInspect, RunLost, Working, Asking, daemon
  <2>2. CASE Goto(r, "count")
    BY <1>3, <2>1, <2>2
  <2>3. CASE Reply(r)
    BY <1>2, <2>1, <2>3
  <2>4. ASSUME NEW i \in Named(q.key), Adopt(r, i)
        PROVE  Promise!Next \/ UNCHANGED Promise!vars
    BY <1>5, <2>1, <2>4
  <2> QED
    BY <1>6, <2>2, <2>3, <2>4 DEF RunInspect, RunLost
<1>7. CASE RunCount(r) \/ RunNetwork(r) \/ FinishNetwork(r)
  <2>1. /\ q.at \in Working /\ {"network", "create", "connect"} \subseteq Working
        /\ q.at # "idle" /\ UNCHANGED containers
    BY <1>7 DEF RunCount, RunNetwork, FinishNetwork, Working, Asking, Finishing, daemon
  <2>2. Reply(r) \/ \E at \in {"network", "create", "connect"} : Goto(r, at)
    BY <1>7 DEF RunCount, RunNetwork, FinishNetwork
  <2> QED
    BY <1>2, <1>3, <2>1, <2>2
<1>8. CASE RunLook(r)
  <2>1. /\ q.at \in Working /\ q.at # "idle" /\ UNCHANGED containers
        /\ q.at \in Finishing
    BY <1>8 DEF RunLook, Working, Finishing, daemon
  <2>2. q.id \in Ids
    BY <1>1, <2>1, FinishingFields
  <2>3. CASE containers[q.id] = Gone
    BY <1>2, <1>8, <2>1, <2>3 DEF RunLook
  <2>4. CASE containers[q.id] # Gone
    <3>1. q.id \in Present
      BY <2>2, <2>4 DEF Present
    <3>2. \E at \in Finishing : Hold(r, q.id, at)
      BY <1>8, <2>4, FinishType DEF RunLook
    <3> QED
      BY <1>4, <2>1, <3>1, <3>2
  <2> QED
    BY <2>3, <2>4
<1>9. CASE Respond(r) \/ HandlerFails(r)
  <2>1. q.at # "idle"
    BY <1>1, <1>9, WhereAt DEF Respond, HandlerFails, Working, Asking, Finishing
  <2> QED
    BY <1>2, <1>9, <2>1 DEF Respond, HandlerFails, daemon
<1> QED
  BY <1>6, <1>7, <1>8, <1>9, CreateRefines, ConnectRefines, StartRefines, TerminateRefines
     DEF Handle

LEMMA StepRefines ==
  ASSUME IInv, IInv', FoundHolds, [Next]_vars
  PROVE  Promise!Next \/ UNCHANGED Promise!vars
<1>1. ASSUME UNCHANGED <<daemon, requests>>
      PROVE  UNCHANGED Promise!vars
  <2>1. UNCHANGED <<containers, requests>>
    BY <1>1 DEF daemon
  <2>2. ASSUME NEW r \in Requests
        PROVE  outstanding'[r] = outstanding[r]
    BY <2>1, CallStays DEF IInv
  <2>3. outstanding' = outstanding
    BY <2>2 DEF outstanding
  <2> QED
    BY <2>1, <2>3, SameContainers DEF Promise!vars, stands, outstanding
<1>2. ASSUME NEW r \in Requests, Handle(r) \/ HandlerFails(r)
      PROVE  Promise!Next \/ UNCHANGED Promise!vars
  BY <1>2, HandlerRefines
<1>3. ASSUME NEW r \in Requests, NEW k \in Instance,
             AskTerminate(r, k) \/ \E w \in Want : AskRun(r, k, w)
      PROVE  Promise!Next
  BY <1>3, AskRefines
<1>4. ASSUME NEW i \in Ids, ContainerExits(i)
      PROVE  Promise!Next
  BY <1>4, ExitRefines
<1>5. \/ UNCHANGED <<daemon, requests>>
      \/ \E r \in Requests : Handle(r) \/ HandlerFails(r)
      \/ \E r \in Requests, k \in Instance :
           AskTerminate(r, k) \/ \E w \in Want : AskRun(r, k, w)
      \/ \E i \in Ids : ContainerExits(i)
  <2>1. CASE Next
    BY <2>1 DEF Next, AskList, ListIds, ListLook, ListDone, ListEnds, Settle
  <2>2. CASE UNCHANGED vars
    BY <2>2 DEF vars, daemon
  <2> QED
    BY <2>1, <2>2
<1> QED
  BY <1>1, <1>2, <1>3, <1>4, <1>5

LEMMA InitRefines == Init => Promise!Init
<1> SUFFICES ASSUME Init
             PROVE  Promise!Init
  OBVIOUS
<1>1. ASSUME NEW k \in Instance
      PROVE  stands[k] = NoInstance
  <2>1. Named(k) = {}
    BY DEF Init, Named, Present
  <2> QED
    BY <2>1, InstanceIs
<1>2. ASSUME NEW r \in Requests
      PROVE  outstanding[r] = NoCall
  <2>1. requests[r].at = "idle"
    BY Zenon DEF Init, NoRequest
  <2> QED
    BY <2>1, CallIs
<1>3. stands = [k \in Instance |-> NoInstance] /\ outstanding = [r \in Requests |-> NoCall]
  BY <1>1, <1>2 DEF stands, outstanding
<1> QED
  BY <1>3 DEF Promise!Init, Promise!None, Promise!Idle, NoInstance, NoCall, stands, outstanding

\* Every step of chala is a step of the service its callers were promised, or
\* none (ImplementsInstanceService): whatever calls run at once, die half way
\* and are repeated, each takes effect on the one instance of its name in one
\* step, and at most once (server.go:129-131, 237-238, 316-317).
THEOREM ChalaImplementsInstanceService == Spec => ImplementsInstanceService
<1>1. IInv /\ [Next]_vars => IInv'
  BY NextInv
<1>2. IInv /\ IInv' /\ FoundHolds /\ [Next]_vars => FoundHolds'
  BY FoundStep
<1>3. IInv /\ IInv' /\ FoundHolds /\ [Next]_vars => [Promise!Next]_(Promise!vars)
  BY StepRefines
<1>4. Init => FoundHolds
  <2>1. Init => requests = [r \in Requests |-> NoRequest]
    BY DEF Init
  <2> QED
    BY <2>1 DEF FoundHolds, NoRequest
<1> QED
  BY <1>1, <1>2, <1>3, <1>4, InitInv, InitRefines, PTL
     DEF Spec, Promise!Spec, ImplementsInstanceService

=============================================================================
