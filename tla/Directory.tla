------------------------------ MODULE Directory ------------------------------
(***************************************************************************)
(* The control plane's tables (internal/control, internal/iam): what the   *)
(* creates, with their idempotency tokens, the deletes, attach and detach, *)
(* and the paged listings do to them when they interleave, fail, are       *)
(* retried and lose their replies; and the policy cache in front of them.  *)
(*                                                                         *)
(* One step is one SQL statement.  A transaction's rows are its own until  *)
(* it commits: another that inserts the same key waits for it, and then    *)
(* finds the key taken, or free if the first rolled back.                  *)
(***************************************************************************)
EXTENDS Integers, FiniteSets

CONSTANTS
  Kinds,       \* which creates are considered
  Listed,      \* and of which a listing is
  Ids,         \* what can be created: account ids, access keys, policy ARNs
  Contents,    \* what is created under them: a name, a principal, a document
  Tokens,      \* client tokens
  NoToken,     \* a create without one
  NoContent,   \* no row
  Principals,  \* users and roles of the account, which policies attach to
  Attachable,  \* BOUND: the policies that are attached and detached
  Calls,       \* API calls that can be in flight at once
  MaxTries,    \* accountIDAttempts
  PageLimit    \* rows in a page

ASSUME DirectoryAssumption ==
  /\ Kinds \subseteq {"account", "key", "policy"}
  /\ Listed \subseteq Kinds
  /\ Ids \subseteq Nat \ {0} /\ IsFiniteSet(Ids)
  /\ NoToken \notin Tokens
  /\ NoContent \notin Contents
  /\ MaxTries \in Nat \ {0}
  /\ PageLimit \in Nat \ {0}

VARIABLES
  kind,         \* what this behaviour creates.  The three have each a table,
                \* and an operation column in idempotency, to themselves
  table,        \* the committed rows: accounts, access_keys or policies
  tokens,       \* the committed rows of idempotency: result_id
  calls,        \* handlers: program counters and locals
  attachments,  \* policy_attachments
  cache,        \* the Authorizer's entries
  load,         \* PoliciesFor, between its query and the entry's store
  list,         \* a client paging through the table
  created,      \* history: how many rows were committed with a token
  told,         \* history: the ids answered to calls with a token
  slipped,      \* history: attachments made while a delete of their policy had
                \* read who is affected and was yet to delete
  overtaken,    \* history: principals whose policies changed after the query of
                \* the load under way
  excused       \* history: principals whose entry comes from such a load, or
                \* misses a change whose handler could not tell the cache about it

store == <<table, tokens, attachments>>
behind == <<slipped, overtaken, excused>>
caching == <<cache, load, behind>>
history == <<created, told>>
vars == <<kind, store, calls, caching, list, history>>

-----------------------------------------------------------------------------
NoId == 0
NoCall == [op |-> "none"]
NotCached == [cached |-> FALSE]
Holding(ps) == [cached |-> TRUE, policies |-> ps]
NoList == [at |-> "idle", after |-> 0, got |-> {}, stable |-> {}]

Rows == {i \in Ids : table[i] # NoContent}
AttachedTo(i) == {u \in Principals : <<i, u>> \in attachments}

\* What PoliciesFor's join returns.
PoliciesOf(u) == {<<i, table[i]>> : i \in {j \in Rows : <<j, u>> \in attachments}}

Create == [op : {"create"}, at : {"insert", "claim", "commit", "replay"},
           token : Tokens \union {NoToken}, content : Contents,
           id : Ids \union {NoId}, tries : 0 .. MaxTries - 1]
Change == [op : {"delete", "attach", "detach"},
           at : {"affected", "delete", "look", "attach", "detach", "drop"},
           id : Ids, drops : SUBSET Principals]
Entry == {NotCached} \union
         [cached : {TRUE}, policies : SUBSET (Ids \X Contents)]

TypeOK ==
  /\ kind \in Kinds
  /\ table \in [Ids -> Contents \union {NoContent}]
  /\ tokens \in [Tokens -> Ids \union {NoId}]
  /\ calls \in [Calls -> {NoCall} \union Create \union Change]
  /\ attachments \in SUBSET (Ids \X Principals)
  /\ cache \in [Principals -> Entry]
  /\ load \in [Principals -> Entry]
  /\ list \in [at : {"idle", "page", "done"}, after : Ids \union {0},
               got : SUBSET Ids, stable : SUBSET Ids]
  /\ created \in [Tokens -> Nat]
  /\ told \in [Tokens -> SUBSET Ids]
  /\ slipped \in SUBSET (Ids \X Principals)
  /\ overtaken \in SUBSET Principals /\ excused \in SUBSET Principals

Init ==
  /\ kind \in Kinds
  /\ table = [i \in Ids |-> NoContent]
  /\ tokens = [t \in Tokens |-> NoId]
  /\ calls = [r \in Calls |-> NoCall]
  /\ attachments = {}
  /\ cache = [u \in Principals |-> NotCached]
  /\ load = [u \in Principals |-> NotCached]
  /\ list = NoList
  /\ created = [t \in Tokens |-> 0]
  /\ told = [t \in Tokens |-> {}]
  /\ slipped = {} /\ overtaken = {} /\ excused = {}

-----------------------------------------------------------------------------
(* Creates.                                                                 *)

Reply(r) == calls' = [calls EXCEPT ![r] = NoCall]
Goto(r, at) == calls' = [calls EXCEPT ![r].at = at]

\* An answer that names id i.
Tell(t, i) == told' = IF t = NoToken THEN told
                      ELSE [told EXCEPT ![t] = @ \union {i}]

Creating(r, at) == calls[r].op = "create" /\ calls[r].at = at

\* Rows of a transaction that has not committed.
HoldsId(r, i) ==
  /\ calls[r].op = "create"
  /\ calls[r].id = i
  /\ calls[r].at \in IF kind = "policy" THEN {"commit"} ELSE {"claim", "commit"}
HoldsToken(r, t) ==
  /\ calls[r].op = "create"
  /\ calls[r].token = t
  /\ calls[r].at \in IF kind = "policy" THEN {"insert", "commit"} ELSE {"commit"}

IdIsFree(r, i) == \A q \in Calls \ {r} : ~HoldsId(q, i)
TokenIsFree(r, t) == \A q \in Calls \ {r} : ~HoldsToken(q, t)

\* A client creates.  CreatePolicy claims the token first; the id of a policy
\* is its name, which the client chose.
AskCreate(r, t, c) ==
  /\ calls[r] = NoCall
  /\ \E i \in IF kind = "policy" THEN Ids ELSE {NoId} :
       calls' = [calls EXCEPT ![r] =
         [op |-> "create", token |-> t, content |-> c, id |-> i, tries |-> 0,
          at |-> IF kind = "policy" /\ t # NoToken THEN "claim" ELSE "insert"]]
  /\ UNCHANGED <<kind, store, caching, list, history>>

\* Mutation: one attempt too many.
InsertAccountOnceMore(r) ==
  /\ kind = "account"
  /\ Creating(r, "insert")
  /\ \E i \in Ids :
       /\ IdIsFree(r, i)
       /\ IF i \notin Rows
            THEN calls' = [calls EXCEPT ![r].id = i, ![r].at =
                             IF calls[r].token = NoToken THEN "commit" ELSE "claim"]
            ELSE IF calls[r].tries = MaxTries
              THEN Reply(r)
              ELSE calls' = [calls EXCEPT ![r].tries = @ + 1]
  /\ UNCHANGED <<kind, store, caching, list, history>>

\* Mutation: drawn again for as long as it takes.
InsertAccountForever(r) ==
  /\ kind = "account"
  /\ Creating(r, "insert")
  /\ \E i \in Ids :
       /\ IdIsFree(r, i)
       /\ IF i \notin Rows
            THEN calls' = [calls EXCEPT ![r].id = i, ![r].at =
                             IF calls[r].token = NoToken THEN "commit" ELSE "claim"]
            ELSE UNCHANGED calls
  /\ UNCHANGED <<kind, store, caching, list, history>>

\* INSERT INTO accounts, under an id just drawn.  Taken: draw again, up to
\* accountIDAttempts times.
InsertAccount(r) ==
  /\ kind = "account"
  /\ Creating(r, "insert")
  /\ \E i \in Ids :
       /\ IdIsFree(r, i)
       /\ IF i \notin Rows
            THEN calls' = [calls EXCEPT ![r].id = i, ![r].at =
                             IF calls[r].token = NoToken THEN "commit" ELSE "claim"]
            ELSE IF calls[r].tries + 1 = MaxTries
              THEN Reply(r)
              ELSE calls' = [calls EXCEPT ![r].tries = @ + 1]
  /\ UNCHANGED <<kind, store, caching, list, history>>

\* INSERT INTO access_keys, under an id just drawn.  Taken: an error.
InsertKey(r) ==
  /\ kind = "key"
  /\ Creating(r, "insert")
  /\ \E i \in Ids :
       /\ IdIsFree(r, i)
       /\ IF i \notin Rows
            THEN calls' = [calls EXCEPT ![r].id = i, ![r].at =
                             IF calls[r].token = NoToken THEN "commit" ELSE "claim"]
            ELSE Reply(r)
  /\ UNCHANGED <<kind, store, caching, list, history>>

\* Mutation: the insert is an upsert.
InsertPolicyUpserts(r) ==
  /\ kind = "policy"
  /\ Creating(r, "insert")
  /\ IdIsFree(r, calls[r].id)
  /\ Goto(r, "commit")
  /\ UNCHANGED <<kind, store, caching, list, history>>

\* INSERT INTO policies.  Taken: AlreadyExists, and the claim rolls back.
InsertPolicy(r) ==
  /\ kind = "policy"
  /\ Creating(r, "insert")
  /\ IdIsFree(r, calls[r].id)
  /\ IF calls[r].id \in Rows THEN Reply(r) ELSE Goto(r, "commit")
  /\ UNCHANGED <<kind, store, caching, list, history>>

\* Mutation: the token is looked for, and inserted by the commit.
ClaimTokenByLooking(r) ==
  /\ Creating(r, "claim")
  /\ IF tokens[calls[r].token] = NoId
       THEN Goto(r, IF kind = "policy" THEN "insert" ELSE "commit")
       ELSE IF kind = "key" THEN Reply(r) ELSE Goto(r, "replay")
  /\ UNCHANGED <<kind, store, caching, list, history>>

\* INSERT INTO idempotency ... ON CONFLICT DO NOTHING.  No row inserted: roll
\* back, and answer with what the token made, or for a key, whose secret is
\* gone, with a conflict.
ClaimToken(r) ==
  /\ Creating(r, "claim")
  /\ TokenIsFree(r, calls[r].token)
  /\ IF tokens[calls[r].token] = NoId
       THEN Goto(r, IF kind = "policy" THEN "insert" ELSE "commit")
       ELSE IF kind = "key" THEN Reply(r) ELSE Goto(r, "replay")
  /\ UNCHANGED <<kind, store, caching, list, history>>

\* COMMIT, and the answer, or its loss.
Commit(r) ==
  /\ Creating(r, "commit")
  /\ LET t == calls[r].token  i == calls[r].id IN
       /\ table' = [table EXCEPT ![i] = calls[r].content]
       /\ IF t = NoToken
            THEN UNCHANGED <<tokens, created>>
            ELSE /\ tokens' = [tokens EXCEPT ![t] = i]
                 /\ created' = [created EXCEPT ![t] = @ + 1]
       /\ Tell(t, i) \/ UNCHANGED told
  /\ Reply(r)
  /\ UNCHANGED <<kind, attachments, caching, list>>

\* Outside the transaction: read result_id, which is never updated, then the
\* row, which may be gone.
Replay(r) ==
  /\ Creating(r, "replay")
  /\ LET t == calls[r].token IN
       IF tokens[t] \in Rows THEN Tell(t, tokens[t]) ELSE UNCHANGED told
  /\ Reply(r)
  /\ UNCHANGED <<kind, store, caching, list, created>>

\* A statement fails, or the client goes away: what is not committed is rolled
\* back.  Once its statement has committed a change goes on to its callbacks.
Fails(r) ==
  /\ calls[r] # NoCall
  /\ calls[r].at # "drop"
  /\ Reply(r)
  /\ UNCHANGED <<kind, store, caching, list, history>>

CreateStep(r) ==
  \/ InsertAccount(r) \/ InsertKey(r) \/ InsertPolicy(r)
  \/ ClaimToken(r) \/ Commit(r) \/ Replay(r)

-----------------------------------------------------------------------------
(* Deletes, attach and detach: one statement, then a callback into the      *)
(* cache for each principal the handler knows to be affected.               *)

AskChange(r, op, at, i, ps) ==
  /\ calls[r] = NoCall
  /\ calls' = [calls EXCEPT ![r] = [op |-> op, at |-> at, id |-> i, drops |-> ps]]
  /\ UNCHANGED <<kind, store, caching, list, history>>

AskDelete(r, i) ==
  \/ kind = "key" /\ AskChange(r, "delete", "delete", i, {})
  \/ kind = "policy" /\ AskChange(r, "delete", "affected", i, {})
AskAttach(r, i, u) ==
  kind = "policy" /\ i \in Attachable /\ AskChange(r, "attach", "look", i, {u})
AskDetach(r, i, u) ==
  kind = "policy" /\ i \in Attachable /\ AskChange(r, "detach", "detach", i, {u})

At(r, at) == calls[r] # NoCall /\ calls[r].at = at

\* Mutation: who is affected is read when there is nobody left.
DeleteReadsNobody(r) ==
  /\ At(r, "affected")
  /\ calls' = [calls EXCEPT ![r].drops = {}, ![r].at = "delete"]
  /\ UNCHANGED <<kind, store, caching, list, history>>

\* principalsAttachedTo, before the cascade destroys the evidence.
DeleteReadsAffected(r) ==
  /\ At(r, "affected")
  /\ calls' = [calls EXCEPT ![r].drops = AttachedTo(calls[r].id), ![r].at = "delete"]
  /\ UNCHANGED <<kind, store, caching, list, history>>

\* The policies of us have changed by r's statement.  The cache will hear of
\* it for those r knows of, unless the reply was lost, and r cannot know of who
\* slipped in; a load whose query is over misses it in any case.
Changed(r, us, lost) ==
  /\ overtaken' = overtaken \union {u \in us : load[u] # NotCached}
  /\ excused' = excused \union
       {u \in us : /\ cache[u] # NotCached
                   /\ lost \/ (u \notin calls[r].drops /\ <<calls[r].id, u>> \in slipped)}
  /\ IF lost THEN Reply(r) ELSE Goto(r, "drop")

\* DELETE FROM policies, with its cascade, or FROM access_keys.  No row:
\* NotFound, and no callback.
DeleteRow(r) ==
  /\ At(r, "delete")
  /\ LET i == calls[r].id IN
       IF i \notin Rows
         THEN Reply(r) /\ UNCHANGED <<store, behind>>
         ELSE /\ table' = [table EXCEPT ![i] = NoContent]
              /\ attachments' = attachments \ ({i} \X Principals)
              /\ slipped' = slipped \ ({i} \X Principals)
              /\ \E lost \in BOOLEAN : Changed(r, AttachedTo(i), lost)
              /\ UNCHANGED tokens
  /\ UNCHANGED <<kind, cache, load, list, history>>

\* getPolicy, for the account the principal must share.
AttachLooks(r) ==
  /\ At(r, "look")
  /\ IF calls[r].id \in Rows THEN Goto(r, "attach") ELSE Reply(r)
  /\ UNCHANGED <<kind, store, caching, list, history>>

\* INSERT ... ON CONFLICT DO NOTHING; the foreign key refuses a policy that is
\* gone by now.
Attach(r) ==
  /\ At(r, "attach")
  /\ LET new == ({calls[r].id} \X calls[r].drops) \ attachments IN
       IF calls[r].id \notin Rows
         THEN Reply(r) /\ UNCHANGED <<attachments, behind>>
         ELSE /\ attachments' = attachments \union new
              /\ slipped' = IF \E q \in Calls : At(q, "delete") /\ calls[q].id = calls[r].id
                              THEN slipped \union new ELSE slipped
              /\ \E lost \in BOOLEAN : Changed(r, calls[r].drops, lost)
  /\ UNCHANGED <<kind, table, tokens, cache, load, list, history>>

\* Nothing was attached: NotFound, and no callback.
Detach(r) ==
  /\ At(r, "detach")
  /\ LET gone == {calls[r].id} \X calls[r].drops IN
       IF gone \cap attachments = {}
         THEN Reply(r) /\ UNCHANGED <<attachments, behind>>
         ELSE /\ attachments' = attachments \ gone
              /\ slipped' = slipped \ gone
              /\ \E lost \in BOOLEAN : Changed(r, calls[r].drops, lost)
  /\ UNCHANGED <<kind, table, tokens, cache, load, list, history>>

\* principalChanged, one at a time: the entry goes, a load under way does not.
\* (A deleted key's callback is TtlCache's Invalidate.)
Drop(r) ==
  /\ At(r, "drop")
  /\ \/ /\ calls[r].drops = {}
        /\ Reply(r)
        /\ UNCHANGED <<cache, excused>>
     \/ \E u \in calls[r].drops :
          /\ cache' = [cache EXCEPT ![u] = NotCached]
          /\ excused' = excused \ {u}
          /\ calls' = [calls EXCEPT ![r].drops = @ \ {u}]
  /\ UNCHANGED <<kind, store, load, slipped, overtaken, list, history>>

ChangeStep(r) ==
  \/ DeleteReadsAffected(r) \/ DeleteRow(r) \/ AttachLooks(r)
  \/ Attach(r) \/ Detach(r) \/ Drop(r)

-----------------------------------------------------------------------------
(* The policy cache.  Module TtlCache is about its lifetimes; here an entry *)
(* expires whenever it likes.                                               *)

\* A Get that missed, at any time before, and found no load to share: by now
\* another load may have stored an entry.
LoadBegin(u) ==
  /\ kind = "policy"
  /\ load[u] = NotCached
  /\ load' = [load EXCEPT ![u] = Holding(PoliciesOf(u))]
  /\ UNCHANGED <<kind, store, calls, cache, behind, list, history>>

\* Stored, over what is there; or refused by a full cache, which keeps that.
LoadEnd(u) ==
  /\ load[u] # NotCached
  /\ \/ /\ cache' = [cache EXCEPT ![u] = load[u]]
        /\ excused' = IF u \in overtaken THEN excused \union {u} ELSE excused \ {u}
     \/ UNCHANGED <<cache, excused>>
  /\ load' = [load EXCEPT ![u] = NotCached]
  /\ overtaken' = overtaken \ {u}
  /\ UNCHANGED <<kind, store, calls, slipped, list, history>>

Expire(u) ==
  /\ cache[u] # NotCached
  /\ cache' = [cache EXCEPT ![u] = NotCached]
  /\ excused' = excused \ {u}
  /\ UNCHANGED <<kind, store, calls, load, slipped, overtaken, list, history>>

-----------------------------------------------------------------------------
(* A listing, page by page, in key order.                                   *)

ListBegin ==
  /\ kind \in Listed
  /\ list.at # "page"
  /\ list' = [NoList EXCEPT !.at = "page", !.stable = Ids]
  /\ UNCHANGED <<kind, store, calls, caching, history>>

\* What is left after the cursor, and its first PageLimit rows in key order.
Rest == {i \in Rows : i > list.after}
IsPage(page) ==
  /\ Cardinality(page) <= PageLimit
  /\ page = Rest \/ Cardinality(page) = PageLimit
  /\ \A i \in page, j \in Rest \ page : i < j

Listing(page, at, after) ==
  list' = [at |-> at, after |-> after, got |-> list.got \union page,
           stable |-> list.stable \cap Rows]

\* Mutation: the cursor is the row that showed there is a next page.
ListPageSkips ==
  /\ list.at = "page"
  /\ \E page \in SUBSET Rest :
       /\ IsPage(page)
       /\ \/ page = Rest /\ Listing(page, "done", list.after)
          \/ \E next \in Rest \ page :
               /\ \A i \in Rest \ page : next <= i
               /\ Listing(page, "page", next)
  /\ UNCHANGED <<kind, store, calls, caching, history>>

\* WHERE key > after ORDER BY key LIMIT limit + 1: the row too many says that
\* there is a next page, which starts after the last row of this one.
\* list.stable is what was there at every page so far.
ListPage ==
  /\ list.at = "page"
  /\ \E page \in SUBSET Rest :
       /\ IsPage(page)
       /\ \/ page = Rest /\ Listing(page, "done", list.after)
          \/ \E last \in page :
               /\ page # Rest /\ \A i \in page : i <= last
               /\ Listing(page, "page", last)
  /\ UNCHANGED <<kind, store, calls, caching, history>>

-----------------------------------------------------------------------------
Step(r) == CreateStep(r) \/ ChangeStep(r)

Next ==
  \/ \E r \in Calls, t \in Tokens \union {NoToken}, c \in Contents : AskCreate(r, t, c)
  \/ \E r \in Calls, i \in Ids : AskDelete(r, i)
  \/ \E r \in Calls, i \in Ids, u \in Principals : AskAttach(r, i, u) \/ AskDetach(r, i, u)
  \/ \E r \in Calls : Step(r) \/ Fails(r)
  \/ \E u \in Principals : LoadBegin(u) \/ LoadEnd(u) \/ Expire(u)
  \/ ListBegin \/ ListPage

Spec == Init /\ [][Next]_vars

\* A handler runs on, and PostgreSQL gives a lock to those who wait for it in
\* turn: strong, since others may take and release it in the meantime.
FairSpec == Spec /\ \A r \in Calls : SF_vars(Step(r))

-----------------------------------------------------------------------------
\* One result per token, through retries, races, rollbacks and lost replies:
\* a token is recorded exactly if its one row was committed with it, "a
\* complete pair or nothing at all" (accounts.go:65-67), which for an account
\* is still there; and every answer to it names that row.
OneResultPerToken ==
  \A t \in Tokens :
    /\ created[t] = IF tokens[t] = NoId THEN 0 ELSE 1
    /\ told[t] \subseteq {tokens[t]}
    /\ kind = "account" /\ tokens[t] # NoId => tokens[t] \in Rows

\* A listing read page by page, among creates and deletes, returns every row
\* that was there all along, and none twice: what it returned lies at or
\* below the cursor (accounts.go:111-112, page.go:24-32).
ListingSkipsNothing ==
  /\ list.at = "page" =>
       /\ \A i \in list.got : i <= list.after
       /\ \A i \in list.stable : i <= list.after => i \in list.got
  /\ list.at = "done" => list.stable \subseteq list.got

\* When the cache holds for a principal what is no longer so, a handler is
\* about to drop it, or it had no way to know: the policy was attached to
\* that principal after the delete had read who is affected, the reply of the
\* statement was lost, or the entry comes from a load that the change
\* overtook, and which may have been stored over an entry that was right
\* (server.go:213-216, 230-231, 287, 306).
Dropping(u) == \E r \in Calls : At(r, "drop") /\ u \in calls[r].drops
StaleIsAccountedFor ==
  \A u \in Principals :
    cache[u] \notin {NotCached, Holding(PoliciesOf(u))} => u \in excused \/ Dropping(u)

\* The promise the rest is for: module DirectoryService.  What a transaction
\* has inserted is nowhere until it commits, and the id it has drawn is no
\* matter; a change whose statement has committed has only its callbacks left.
CallOf(k, c) ==
  CASE c.op = "none" -> NoCall
    [] c.op = "create" -> [op |-> "create", token |-> c.token, content |-> c.content,
                           id |-> IF k = "policy" THEN c.id ELSE NoId]
    [] c.op \in {"delete", "attach", "detach"} /\ c.at = "drop" -> [op |-> "done"]
    [] c.op = "delete" /\ c.at # "drop" -> [op |-> "delete", id |-> c.id]
    [] c.op \in {"attach", "detach"} /\ c.at # "drop" ->
         [op |-> c.op, id |-> c.id, who |-> c.drops]

Promise == INSTANCE DirectoryService WITH
             Id <- Ids, Content <- Contents, Token <- Tokens,
             Principal <- Principals, Call <- Calls,
             calls <- [r \in Calls |-> CallOf(kind, calls[r])]

\* Whatever transactions overlap, roll back, are retried or lose their replies,
\* a token makes a row with its record or "nothing at all", and never a second
\* one; no create writes over what another made; a delete takes the row with
\* all that was attached to it, and nothing is attached to what is gone
\* (accounts.go:65-67, 124-127, server.go:95-99, 132-136, 209-211).
ImplementsDirectoryService == Promise!Spec

\* No handler waits or redraws for ever (accounts.go:30-32): transactions
\* that wait for each other's keys never wait in a circle, and a run of id
\* collisions ends.
CallEnds == \A r \in Calls : calls[r] # NoCall ~> calls[r] = NoCall
=============================================================================
