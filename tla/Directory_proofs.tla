-------------------------- MODULE Directory_proofs --------------------------
(***************************************************************************)
(* Theorems about module Directory, for every set of ids, contents,        *)
(* tokens, principals and calls and every bound.                           *)
(***************************************************************************)
EXTENDS Directory, TLAPS

-----------------------------------------------------------------------------
(* Type correctness.                                                        *)

CreateSteps == {"insert", "claim", "commit", "replay"}
ChangeSteps == {"affected", "delete", "look", "attach", "detach", "drop"}

\* What a create knows of the id and the token it is about.
Drawn ==
  \A r \in Calls : calls[r].op = "create" =>
    \/ calls[r].at = "insert" /\ kind # "policy"
    \/ calls[r].id \in Ids
Asked ==
  \A r \in Calls :
    /\ calls[r].op = "create" /\ calls[r].at \in {"claim", "replay"} =>
         calls[r].token \in Tokens
    /\ calls[r] # NoCall /\ calls[r].op # "create" => kind # "account"

Typed == TypeOK /\ Drawn /\ Asked

LEMMA Constants ==
         /\ NoToken \notin Tokens /\ NoContent \notin Contents
         /\ MaxTries \in Nat \ {0} /\ NoId \notin Ids /\ Ids \subseteq Nat
         /\ Kinds \subseteq {"account", "key", "policy"}
BY DirectoryAssumption DEF NoId

LEMMA CreateFields ==
  ASSUME TypeOK, NEW r \in Calls, calls[r].op = "create"
  PROVE  calls[r] \in Create
<1>1. calls[r] \in {NoCall} \union Create \union Change
  BY DEF TypeOK
<1> QED
  BY <1>1 DEF NoCall, Change

LEMMA ChangeFields ==
  ASSUME TypeOK, NEW r \in Calls, calls[r] # NoCall, calls[r].at \in ChangeSteps
  PROVE  calls[r] \in Change
<1>1. calls[r] \in {NoCall} \union Create \union Change
  BY DEF TypeOK
<1> QED
  BY <1>1 DEF NoCall, Create, ChangeSteps

\* A call that goes on to something else, or ends.
LEMMA CallType ==
  ASSUME TypeOK, NEW r \in Calls, NEW c \in {NoCall} \union Create \union Change,
         calls' = [calls EXCEPT ![r] = c]
  PROVE  /\ calls' \in [Calls -> {NoCall} \union Create \union Change]
         /\ calls'[r] = c
         /\ \A q \in Calls \ {r} : calls'[q] = calls[q]
BY DEF TypeOK

LEMMA ReplyType ==
  ASSUME TypeOK, NEW r \in Calls, Reply(r)
  PROVE  /\ calls' \in [Calls -> {NoCall} \union Create \union Change]
         /\ calls'[r] = NoCall
         /\ \A q \in Calls \ {r} : calls'[q] = calls[q]
BY CallType DEF Reply

LEMMA CreateGoes ==
  ASSUME TypeOK, NEW r \in Calls, calls[r].op = "create",
         NEW at \in CreateSteps, Goto(r, at)
  PROVE  /\ calls' \in [Calls -> {NoCall} \union Create \union Change]
         /\ calls'[r] = [calls[r] EXCEPT !.at = at]
         /\ calls'[r].op = "create" /\ calls'[r].at = at
         /\ calls'[r].id = calls[r].id /\ calls'[r].token = calls[r].token
         /\ \A q \in Calls \ {r} : calls'[q] = calls[q]
<1> DEFINE c == [calls[r] EXCEPT !.at = at]
<1>1. calls[r] \in Create
  BY CreateFields
<1>2. /\ c \in Create /\ c.op = "create" /\ c.at = at
      /\ c.id = calls[r].id /\ c.token = calls[r].token
  BY <1>1 DEF Create, CreateSteps
<1>3. calls' = [calls EXCEPT ![r] = c]
  BY DEF Goto, TypeOK
<1> QED
  BY <1>2, <1>3, CallType

LEMMA ChangeGoes ==
  ASSUME TypeOK, NEW r \in Calls, calls[r] # NoCall, calls[r].at \in ChangeSteps,
         NEW at \in ChangeSteps, Goto(r, at)
  PROVE  /\ calls' \in [Calls -> {NoCall} \union Create \union Change]
         /\ calls'[r].op = calls[r].op /\ calls'[r].at = at
         /\ calls'[r] \in Change
         /\ calls'[r].id = calls[r].id /\ calls'[r].drops = calls[r].drops
         /\ \A q \in Calls \ {r} : calls'[q] = calls[q]
<1> DEFINE c == [calls[r] EXCEPT !.at = at]
<1>1. calls[r] \in Change
  BY ChangeFields
<1>2. /\ c \in Change /\ c.op = calls[r].op /\ c.at = at
      /\ c.id = calls[r].id /\ c.drops = calls[r].drops
  BY <1>1 DEF Change, ChangeSteps
<1>3. calls' = [calls EXCEPT ![r] = c]
  BY DEF Goto, TypeOK
<1> QED
  BY <1>2, <1>3, CallType

\* The statements that insert a row under an id just drawn.
LEMMA InsertGoes ==
  ASSUME TypeOK, NEW r \in Calls, Creating(r, "insert"), NEW i \in Ids,
         calls' = [calls EXCEPT ![r].id = i, ![r].at =
                     IF calls[r].token = NoToken THEN "commit" ELSE "claim"]
  PROVE  /\ calls' \in [Calls -> {NoCall} \union Create \union Change]
         /\ calls'[r].op = "create"
         /\ calls'[r].at = IF calls[r].token = NoToken THEN "commit" ELSE "claim"
         /\ calls'[r].id = i /\ calls'[r].token = calls[r].token
         /\ \A q \in Calls \ {r} : calls'[q] = calls[q]
<1> DEFINE at == IF calls[r].token = NoToken THEN "commit" ELSE "claim"
           c == [calls[r] EXCEPT !.id = i, !.at = at]
<1>1. calls[r] \in Create
  BY CreateFields DEF Creating
<1>2. /\ c \in Create /\ c.op = "create" /\ c.at = at
      /\ c.id = i /\ c.token = calls[r].token
  BY <1>1 DEF Create
<1>3. calls' = [calls EXCEPT ![r] = c]
  BY DEF TypeOK
<1> QED
  BY <1>2, <1>3, CallType

LEMMA RedrawGoes ==
  ASSUME TypeOK, NEW r \in Calls, Creating(r, "insert"), calls[r].tries + 1 # MaxTries,
         calls' = [calls EXCEPT ![r].tries = @ + 1]
  PROVE  /\ calls' \in [Calls -> {NoCall} \union Create \union Change]
         /\ calls'[r].op = "create" /\ calls'[r].at = "insert"
         /\ calls'[r].id = calls[r].id /\ calls'[r].token = calls[r].token
         /\ \A q \in Calls \ {r} : calls'[q] = calls[q]
<1> DEFINE c == [calls[r] EXCEPT !.tries = @ + 1]
<1>1. calls[r] \in Create /\ calls[r].at = "insert"
  BY CreateFields DEF Creating
<1>4. calls[r].tries + 1 \in 0 .. MaxTries - 1
  BY <1>1, DirectoryAssumption DEF Create
<1>2. /\ c \in Create /\ c.op = "create" /\ c.at = "insert"
      /\ c.id = calls[r].id /\ c.token = calls[r].token
  BY <1>1, <1>4 DEF Create
<1>3. calls' = [calls EXCEPT ![r] = c]
  BY DEF TypeOK
<1> QED
  BY <1>2, <1>3, CallType

LEMMA OneCall ==
  ASSUME Typed, NEW r \in Calls, kind' = kind,
         \A q \in Calls \ {r} : calls'[q] = calls[q],
         \/ calls'[r] = NoCall
         \/ /\ calls'[r].op = "create"
            /\ \/ calls'[r].at = "insert" /\ kind # "policy"
               \/ calls'[r].id \in Ids
            /\ calls'[r].at \in {"claim", "replay"} => calls'[r].token \in Tokens
         \/ /\ calls'[r].op # "create"
            /\ kind # "account"
  PROVE  Drawn' /\ Asked'
<1>1. /\ calls'[r].op = "create" =>
           \/ calls'[r].at = "insert" /\ kind' # "policy"
           \/ calls'[r].id \in Ids
      /\ calls'[r].op = "create" /\ calls'[r].at \in {"claim", "replay"} =>
           calls'[r].token \in Tokens
      /\ calls'[r] # NoCall /\ calls'[r].op # "create" => kind' # "account"
  BY DEF NoCall
<1>2. ASSUME NEW q \in Calls \ {r}
      PROVE  /\ calls'[q].op = "create" =>
                  \/ calls'[q].at = "insert" /\ kind' # "policy"
                  \/ calls'[q].id \in Ids
             /\ calls'[q].op = "create" /\ calls'[q].at \in {"claim", "replay"} =>
                  calls'[q].token \in Tokens
             /\ calls'[q] # NoCall /\ calls'[q].op # "create" => kind' # "account"
  BY <1>2 DEF Typed, Drawn, Asked
<1> QED
  BY <1>1, <1>2 DEF Drawn, Asked

LEMMA SameCalls ==
  ASSUME Typed, UNCHANGED <<kind, calls>>
  PROVE  Drawn' /\ Asked'
BY DEF Typed, Drawn, Asked

LEMMA AskType ==
  ASSUME Typed, NEW r \in Calls,
         \/ \E t \in Tokens \union {NoToken}, c \in Contents : AskCreate(r, t, c)
         \/ \E i \in Ids : AskDelete(r, i)
         \/ \E i \in Ids, u \in Principals : AskAttach(r, i, u) \/ AskDetach(r, i, u)
  PROVE  Typed'
<1> USE DEF TypeOK, store, caching, behind, history
<1>1. CASE \E t \in Tokens \union {NoToken}, c \in Contents : AskCreate(r, t, c)
  <2>1. PICK t \in Tokens \union {NoToken}, c \in Contents : AskCreate(r, t, c)
    BY <1>1
  <2>2. PICK i \in IF kind = "policy" THEN Ids ELSE {NoId} :
          calls' = [calls EXCEPT ![r] =
            [op |-> "create", token |-> t, content |-> c, id |-> i, tries |-> 0,
             at |-> IF kind = "policy" /\ t # NoToken THEN "claim" ELSE "insert"]]
    BY <2>1 DEF AskCreate
  <2> DEFINE x == [op |-> "create", token |-> t, content |-> c, id |-> i, tries |-> 0,
                   at |-> IF kind = "policy" /\ t # NoToken THEN "claim" ELSE "insert"]
  <2>3. x \in Create
    BY <2>2, DirectoryAssumption DEF Create
  <2>4. /\ calls' \in [Calls -> {NoCall} \union Create \union Change]
        /\ calls'[r] = x
        /\ \A q \in Calls \ {r} : calls'[q] = calls[q]
    BY <2>2, <2>3, CallType DEF Typed
  <2>5. UNCHANGED <<kind, store, caching, list, history>>
    BY <2>1 DEF AskCreate
  <2>6. Drawn' /\ Asked'
    BY <2>2, <2>4, <2>5, OneCall
  <2> QED
    BY <2>4, <2>5, <2>6 DEF Typed
<1>2. ASSUME NEW i \in Ids, NEW ps \in SUBSET Principals, kind # "account",
             NEW op \in {"delete", "attach", "detach"}, NEW at \in ChangeSteps,
             AskChange(r, op, at, i, ps)
      PROVE  Typed'
  <2> DEFINE x == [op |-> op, at |-> at, id |-> i, drops |-> ps]
  <2>1. x \in Change
    BY DEF Change, ChangeSteps
  <2>2. /\ calls' \in [Calls -> {NoCall} \union Create \union Change]
        /\ calls'[r] = x
        /\ \A q \in Calls \ {r} : calls'[q] = calls[q]
    BY <1>2, <2>1, CallType DEF Typed, AskChange
  <2>3. UNCHANGED <<kind, store, caching, list, history>>
    BY <1>2 DEF AskChange
  <2>4. Drawn' /\ Asked'
    BY <1>2, <2>2, <2>3, OneCall
  <2> QED
    BY <2>2, <2>3, <2>4 DEF Typed
<1>3. CASE \E i \in Ids : AskDelete(r, i)
  BY <1>2, <1>3 DEF AskDelete, ChangeSteps
<1>4. CASE \E i \in Ids, u \in Principals : AskAttach(r, i, u) \/ AskDetach(r, i, u)
  BY <1>2, <1>4 DEF AskAttach, AskDetach, ChangeSteps
<1> QED
  BY <1>1, <1>3, <1>4

\* A step that only moves the call on.
LEMMA MoveType ==
  ASSUME Typed, NEW r \in Calls, UNCHANGED <<kind, store, caching, list, history>>,
         \/ Reply(r)
         \/ \E at \in CreateSteps :
              /\ calls[r].op = "create" /\ Goto(r, at)
              /\ at # "insert" => calls[r].id \in Ids
              /\ at = "insert" => kind # "policy" \/ calls[r].id \in Ids
              /\ at \in {"claim", "replay"} => calls[r].token \in Tokens
         \/ \E at \in ChangeSteps :
              calls[r] # NoCall /\ calls[r].at \in ChangeSteps /\ Goto(r, at)
  PROVE  Typed'
<1> USE DEF TypeOK, store, caching, behind, history
<1>1. CASE Reply(r)
  BY <1>1, ReplyType, OneCall DEF Typed
<1>2. CASE \E at \in CreateSteps :
              /\ calls[r].op = "create" /\ Goto(r, at)
              /\ at # "insert" => calls[r].id \in Ids
              /\ at = "insert" => kind # "policy" \/ calls[r].id \in Ids
              /\ at \in {"claim", "replay"} => calls[r].token \in Tokens
  <2>1. PICK at \in CreateSteps :
              /\ calls[r].op = "create" /\ Goto(r, at)
              /\ at # "insert" => calls[r].id \in Ids
              /\ at = "insert" => kind # "policy" \/ calls[r].id \in Ids
              /\ at \in {"claim", "replay"} => calls[r].token \in Tokens
    BY <1>2
  <2>2. /\ calls' \in [Calls -> {NoCall} \union Create \union Change]
        /\ calls'[r].op = "create" /\ calls'[r].at = at
        /\ calls'[r].id = calls[r].id /\ calls'[r].token = calls[r].token
        /\ \A q \in Calls \ {r} : calls'[q] = calls[q]
    BY <2>1, CreateGoes DEF Typed
  <2>3. Drawn' /\ Asked'
    BY <2>1, <2>2, OneCall
  <2> QED
    BY <2>2, <2>3 DEF Typed
<1>3. CASE \E at \in ChangeSteps :
              calls[r] # NoCall /\ calls[r].at \in ChangeSteps /\ Goto(r, at)
  <2>1. PICK at \in ChangeSteps :
              calls[r] # NoCall /\ calls[r].at \in ChangeSteps /\ Goto(r, at)
    BY <1>3
  <2>2. /\ calls' \in [Calls -> {NoCall} \union Create \union Change]
        /\ calls'[r].op = calls[r].op
        /\ \A q \in Calls \ {r} : calls'[q] = calls[q]
    BY <2>1, ChangeGoes DEF Typed
  <2>3. calls[r].op # "create" /\ kind # "account"
    BY <2>1, ChangeFields DEF Typed, Change, Asked
  <2>4. Drawn' /\ Asked'
    BY <2>2, <2>3, OneCall
  <2> QED
    BY <2>2, <2>4 DEF Typed
<1> QED
  BY <1>1, <1>2, <1>3

LEMMA CreateType ==
  ASSUME Typed, NEW r \in Calls, CreateStep(r) \/ Fails(r)
  PROVE  Typed'
<1> USE DEF TypeOK, store, caching, behind, history
<1>1. calls[r].op = "create" /\ calls[r].at \in {"claim", "commit", "replay"} =>
        calls[r].id \in Ids
  BY DEF Typed, Drawn
<1>2. ASSUME NEW i \in Ids, Creating(r, "insert"),
             UNCHANGED <<kind, store, caching, list, history>>,
             calls' = [calls EXCEPT ![r].id = i, ![r].at =
                         IF calls[r].token = NoToken THEN "commit" ELSE "claim"]
      PROVE  Typed'
  <2>1. /\ calls' \in [Calls -> {NoCall} \union Create \union Change]
        /\ calls'[r].op = "create"
        /\ calls'[r].at = IF calls[r].token = NoToken THEN "commit" ELSE "claim"
        /\ calls'[r].id = i /\ calls'[r].token = calls[r].token
        /\ \A q \in Calls \ {r} : calls'[q] = calls[q]
    BY <1>2, InsertGoes DEF Typed
  <2>2. calls[r].token \in Tokens \union {NoToken}
    BY <1>2, CreateFields DEF Typed, Creating, Create
  <2>3. Drawn' /\ Asked'
    BY <1>2, <2>1, <2>2, OneCall
  <2> QED
    BY <1>2, <2>1, <2>3 DEF Typed
<1>3. CASE InsertAccount(r)
  <2>1. PICK i \in Ids :
          IF i \notin Rows
            THEN calls' = [calls EXCEPT ![r].id = i, ![r].at =
                             IF calls[r].token = NoToken THEN "commit" ELSE "claim"]
            ELSE IF calls[r].tries + 1 = MaxTries
              THEN Reply(r)
              ELSE calls' = [calls EXCEPT ![r].tries = @ + 1]
    BY <1>3 DEF InsertAccount
  <2>2. /\ UNCHANGED <<kind, store, caching, list, history>>
        /\ Creating(r, "insert") /\ kind = "account"
    BY <1>3 DEF InsertAccount
  <2>3. CASE i \notin Rows
    BY <1>2, <2>1, <2>2, <2>3
  <2>4. CASE Reply(r)
    BY <2>2, <2>4, MoveType
  <2>5. CASE calls[r].tries + 1 # MaxTries /\ calls' = [calls EXCEPT ![r].tries = @ + 1]
    <3>1. /\ calls' \in [Calls -> {NoCall} \union Create \union Change]
          /\ calls'[r].op = "create" /\ calls'[r].at = "insert"
          /\ \A q \in Calls \ {r} : calls'[q] = calls[q]
      BY <2>2, <2>5, RedrawGoes DEF Typed
    <3>2. Drawn' /\ Asked'
      BY <2>2, <3>1, OneCall
    <3> QED
      BY <2>2, <3>1, <3>2 DEF Typed
  <2> QED
    BY <2>1, <2>3, <2>4, <2>5
<1>4. CASE InsertKey(r)
  <2>1. PICK i \in Ids :
          IF i \notin Rows
            THEN calls' = [calls EXCEPT ![r].id = i, ![r].at =
                             IF calls[r].token = NoToken THEN "commit" ELSE "claim"]
            ELSE Reply(r)
    BY <1>4 DEF InsertKey
  <2>2. /\ UNCHANGED <<kind, store, caching, list, history>>
        /\ Creating(r, "insert")
    BY <1>4 DEF InsertKey
  <2> QED
    BY <1>2, <2>1, <2>2, MoveType
<1>5. CASE InsertPolicy(r)
  <2>1. /\ UNCHANGED <<kind, store, caching, list, history>>
        /\ calls[r].op = "create" /\ calls[r].id \in Ids
        /\ Reply(r) \/ Goto(r, "commit")
    BY <1>5 DEF InsertPolicy, Creating, Typed, Drawn
  <2> QED
    BY <2>1, MoveType DEF CreateSteps
<1>6. CASE ClaimToken(r)
  <2>1. /\ UNCHANGED <<kind, store, caching, list, history>>
        /\ calls[r].op = "create" /\ calls[r].id \in Ids /\ calls[r].token \in Tokens
        /\ \/ Reply(r)
           \/ Goto(r, "replay")
           \/ Goto(r, IF kind = "policy" THEN "insert" ELSE "commit")
    BY <1>1, <1>6 DEF ClaimToken, Creating, Typed, Asked
  <2> QED
    BY <2>1, MoveType DEF CreateSteps
<1>7. CASE Commit(r)
  <2> DEFINE t == calls[r].token  i == calls[r].id
  <2>1. i \in Ids /\ t \in Tokens \union {NoToken} /\ calls[r].content \in Contents
    BY <1>1, <1>7, CreateFields DEF Commit, Creating, Typed, Create
  <2>2. /\ table' \in [Ids -> Contents \union {NoContent}]
        /\ tokens' \in [Tokens -> Ids \union {NoId}]
        /\ created' \in [Tokens -> Nat]
        /\ told' \in [Tokens -> SUBSET Ids]
    <3>1. table' = [table EXCEPT ![i] = calls[r].content]
      BY <1>7 DEF Commit
    <3>2. \/ UNCHANGED <<tokens, created>>
          \/ /\ tokens' = [tokens EXCEPT ![t] = i]
             /\ created' = [created EXCEPT ![t] = @ + 1]
      BY <1>7 DEF Commit
    <3>3. told' = told \/ told' = [told EXCEPT ![t] = @ \union {i}]
      BY <1>7 DEF Commit, Tell
    <3>4. table' \in [Ids -> Contents \union {NoContent}]
      BY <2>1, <3>1 DEF Typed
    <3>5. tokens' \in [Tokens -> Ids \union {NoId}]
      BY <2>1, <3>2 DEF Typed
    <3>6. created' \in [Tokens -> Nat]
      BY <3>2 DEF Typed
    <3>7. told' \in [Tokens -> SUBSET Ids]
      BY <2>1, <3>3 DEF Typed
    <3> QED
      BY <3>4, <3>5, <3>6, <3>7
  <2>3. Reply(r) /\ UNCHANGED <<kind, attachments, caching, list>>
    BY <1>7 DEF Commit
  <2>4. calls' \in [Calls -> {NoCall} \union Create \union Change] /\ Drawn' /\ Asked'
    BY <2>3, ReplyType, OneCall DEF Typed
  <2> QED
    BY <2>2, <2>3, <2>4 DEF Typed
<1>8. CASE Replay(r)
  <2> DEFINE t == calls[r].token
  <2>1. /\ Reply(r) /\ UNCHANGED <<kind, store, caching, list, created>>
        /\ t \in Tokens
        /\ told' = told \/ (tokens[t] \in Ids /\ told' = [told EXCEPT ![t] = @ \union {tokens[t]}])
    BY <1>8 DEF Replay, Tell, Typed, Asked, Creating, Rows
  <2>2. told' \in [Tokens -> SUBSET Ids]
    BY <2>1 DEF Typed
  <2>3. calls' \in [Calls -> {NoCall} \union Create \union Change] /\ Drawn' /\ Asked'
    BY <2>1, ReplyType, OneCall DEF Typed
  <2> QED
    BY <2>1, <2>2, <2>3 DEF Typed
<1>9. CASE Fails(r)
  BY <1>9, MoveType DEF Fails
<1> QED
  BY <1>3, <1>4, <1>5, <1>6, <1>7, <1>8, <1>9 DEF CreateStep

\* What a change knows.
LEMMA ChangeAt ==
  ASSUME TypeOK, NEW r \in Calls, NEW at \in ChangeSteps, At(r, at)
  PROVE  /\ calls[r] # NoCall /\ calls[r].at = at /\ calls[r] \in Change
         /\ calls[r].op # "create"
         /\ calls[r].id \in Ids /\ calls[r].drops \in SUBSET Principals
<1>1. calls[r] \in Change
  BY ChangeFields DEF At
<1> QED
  BY <1>1 DEF At, Change

LEMMA ChangedType ==
  ASSUME Typed, NEW r \in Calls, calls[r] # NoCall, calls[r].at \in ChangeSteps,
         kind' = kind, NEW us \in SUBSET Principals, NEW lost, Changed(r, us, lost)
  PROVE  /\ overtaken' \in SUBSET Principals /\ excused' \in SUBSET Principals
         /\ calls' \in [Calls -> {NoCall} \union Create \union Change]
         /\ Drawn' /\ Asked'
<1>1. overtaken' \in SUBSET Principals /\ excused' \in SUBSET Principals
  BY DEF Changed, Typed, TypeOK
<1>2. CASE Reply(r)
  BY <1>1, <1>2, ReplyType, OneCall DEF Typed
<1>3. CASE Goto(r, "drop")
  <2>1. /\ calls' \in [Calls -> {NoCall} \union Create \union Change]
        /\ calls'[r].op = calls[r].op
        /\ \A q \in Calls \ {r} : calls'[q] = calls[q]
    BY <1>3, ChangeGoes DEF Typed, ChangeSteps
  <2>2. calls[r].op # "create" /\ kind # "account"
    BY ChangeFields DEF Typed, Change, Asked
  <2>3. Drawn' /\ Asked'
    BY <2>1, <2>2, OneCall
  <2> QED
    BY <1>1, <2>1, <2>3
<1> QED
  BY <1>2, <1>3 DEF Changed

LEMMA ChangeType ==
  ASSUME Typed, NEW r \in Calls, ChangeStep(r)
  PROVE  Typed'
<1> USE DEF TypeOK, store, caching, behind, history
<1>1. CASE DeleteReadsAffected(r)
  <2> DEFINE c == [calls[r] EXCEPT !.drops = AttachedTo(calls[r].id), !.at = "delete"]
  <2>1. calls[r] \in Change
    BY <1>1, ChangeAt DEF DeleteReadsAffected, Typed, ChangeSteps
  <2>2. c \in Change /\ c.op = calls[r].op
    BY <2>1 DEF Change, AttachedTo
  <2>3. calls' = [calls EXCEPT ![r] = c]
    BY <1>1 DEF DeleteReadsAffected, Typed
  <2>4. /\ calls' \in [Calls -> {NoCall} \union Create \union Change]
        /\ calls'[r] = c
        /\ \A q \in Calls \ {r} : calls'[q] = calls[q]
    BY <2>2, <2>3, CallType DEF Typed
  <2>5. c.op # "create" /\ kind # "account"
    BY <1>1, <2>1, <2>2 DEF Change, Typed, Asked, DeleteReadsAffected, At
  <2>6. UNCHANGED <<kind, store, caching, list, history>>
    BY <1>1 DEF DeleteReadsAffected
  <2>7. Drawn' /\ Asked'
    BY <2>4, <2>5, <2>6, OneCall
  <2> QED
    BY <2>4, <2>6, <2>7 DEF Typed
<1>2. CASE DeleteRow(r)
  <2>1. At(r, "delete") /\ UNCHANGED <<kind, cache, load, list, history>>
    BY <1>2 DEF DeleteRow
  <2>2. calls[r] # NoCall /\ calls[r].at \in ChangeSteps /\ calls[r].id \in Ids
    BY <2>1, ChangeAt DEF Typed, ChangeSteps, At
  <2>3. CASE Reply(r) /\ UNCHANGED <<store, behind>>
    BY <2>1, <2>3, MoveType
  <2>4. CASE /\ table' = [table EXCEPT ![calls[r].id] = NoContent]
             /\ attachments' = attachments \ ({calls[r].id} \X Principals)
             /\ slipped' = slipped \ ({calls[r].id} \X Principals)
             /\ \E lost \in BOOLEAN : Changed(r, AttachedTo(calls[r].id), lost)
             /\ UNCHANGED tokens
    <3>1. /\ overtaken' \in SUBSET Principals /\ excused' \in SUBSET Principals
          /\ calls' \in [Calls -> {NoCall} \union Create \union Change]
          /\ Drawn' /\ Asked'
      BY <2>1, <2>2, <2>4, ChangedType DEF AttachedTo
    <3>2. table' \in [Ids -> Contents \union {NoContent}]
      BY <2>4 DEF Typed
    <3>3. attachments' \in SUBSET (Ids \X Principals) /\ slipped' \in SUBSET (Ids \X Principals)
      BY <2>4 DEF Typed
    <3> QED
      BY <2>1, <2>4, <3>1, <3>2, <3>3 DEF Typed
  <2> QED
    BY <1>2, <2>3, <2>4 DEF DeleteRow
<1>3. CASE AttachLooks(r)
  <2>1. /\ calls[r] # NoCall /\ calls[r].at \in ChangeSteps
        /\ UNCHANGED <<kind, store, caching, list, history>>
        /\ Reply(r) \/ Goto(r, "attach")
    BY <1>3 DEF AttachLooks, At, ChangeSteps
  <2> QED
    BY <2>1, MoveType DEF ChangeSteps
<1>4. CASE Attach(r)
  <2>1. At(r, "attach") /\ UNCHANGED <<kind, table, tokens, cache, load, list, history>>
    BY <1>4 DEF Attach
  <2>2. /\ calls[r] # NoCall /\ calls[r].at \in ChangeSteps
        /\ calls[r].id \in Ids /\ calls[r].drops \in SUBSET Principals
    BY <2>1, ChangeAt DEF Typed, ChangeSteps, At
  <2>3. CASE Reply(r) /\ UNCHANGED <<attachments, behind>>
    BY <2>1, <2>3, MoveType
  <2> DEFINE new == ({calls[r].id} \X calls[r].drops) \ attachments
  <2>4. CASE /\ attachments' = attachments \union new
             /\ slipped' = slipped \union new \/ slipped' = slipped
             /\ \E lost \in BOOLEAN : Changed(r, calls[r].drops, lost)
    <3>1. /\ overtaken' \in SUBSET Principals /\ excused' \in SUBSET Principals
          /\ calls' \in [Calls -> {NoCall} \union Create \union Change]
          /\ Drawn' /\ Asked'
      BY <2>1, <2>2, <2>4, ChangedType
    <3>2. new \subseteq Ids \X Principals
      BY <2>2
    <3>3. attachments' \in SUBSET (Ids \X Principals) /\ slipped' \in SUBSET (Ids \X Principals)
      BY <2>4, <3>2 DEF Typed
    <3> QED
      BY <2>1, <2>4, <3>1, <3>3 DEF Typed
  <2> QED
    BY <1>4, <2>3, <2>4 DEF Attach
<1>5. CASE Detach(r)
  <2>1. At(r, "detach") /\ UNCHANGED <<kind, table, tokens, cache, load, list, history>>
    BY <1>5 DEF Detach
  <2>2. /\ calls[r] # NoCall /\ calls[r].at \in ChangeSteps
        /\ calls[r].id \in Ids /\ calls[r].drops \in SUBSET Principals
    BY <2>1, ChangeAt DEF Typed, ChangeSteps, At
  <2>3. CASE Reply(r) /\ UNCHANGED <<attachments, behind>>
    BY <2>1, <2>3, MoveType
  <2>4. CASE /\ attachments' = attachments \ ({calls[r].id} \X calls[r].drops)
             /\ slipped' = slipped \ ({calls[r].id} \X calls[r].drops)
             /\ \E lost \in BOOLEAN : Changed(r, calls[r].drops, lost)
    <3>1. /\ overtaken' \in SUBSET Principals /\ excused' \in SUBSET Principals
          /\ calls' \in [Calls -> {NoCall} \union Create \union Change]
          /\ Drawn' /\ Asked'
      BY <2>1, <2>2, <2>4, ChangedType
    <3>2. attachments' \in SUBSET (Ids \X Principals) /\ slipped' \in SUBSET (Ids \X Principals)
      BY <2>4 DEF Typed
    <3> QED
      BY <2>1, <2>4, <3>1, <3>2 DEF Typed
  <2> QED
    BY <1>5, <2>3, <2>4 DEF Detach
<1>6. CASE Drop(r)
  <2>1. At(r, "drop") /\ UNCHANGED <<kind, store, load, slipped, overtaken, list, history>>
    BY <1>6 DEF Drop
  <2>2. /\ calls[r] # NoCall /\ calls[r] \in Change /\ calls[r].op # "create"
        /\ kind # "account"
    BY <2>1, ChangeAt DEF Typed, ChangeSteps, Asked
  <2>3. CASE Reply(r) /\ UNCHANGED <<cache, excused>>
    BY <2>1, <2>3, MoveType
  <2>4. ASSUME NEW u \in Principals,
               cache' = [cache EXCEPT ![u] = NotCached], excused' = excused \ {u},
               calls' = [calls EXCEPT ![r].drops = @ \ {u}]
        PROVE  Typed'
    <3> DEFINE c == [calls[r] EXCEPT !.drops = @ \ {u}]
    <3>1. c \in Change /\ c.op = calls[r].op
      BY <2>2 DEF Change
    <3>2. calls' = [calls EXCEPT ![r] = c]
      BY <2>4 DEF Typed
    <3>3. /\ calls' \in [Calls -> {NoCall} \union Create \union Change]
          /\ calls'[r] = c
          /\ \A q \in Calls \ {r} : calls'[q] = calls[q]
      BY <3>1, <3>2, CallType DEF Typed
    <3>4. Drawn' /\ Asked'
      BY <2>1, <2>2, <3>1, <3>3, OneCall
    <3>5. cache' \in [Principals -> Entry] /\ excused' \in SUBSET Principals
      BY <2>4 DEF Typed, Entry
    <3> QED
      BY <2>1, <3>3, <3>4, <3>5 DEF Typed
  <2> QED
    BY <1>6, <2>2, <2>3, <2>4 DEF Drop, Change
<1> QED
  BY <1>1, <1>2, <1>3, <1>4, <1>5, <1>6 DEF ChangeStep

LEMMA LoadedType ==
  ASSUME TypeOK, NEW u \in Principals
  PROVE  Holding(PoliciesOf(u)) \in Entry /\ NotCached \in Entry
<1>1. \A i \in Rows : i \in Ids /\ table[i] \in Contents
  BY DEF Rows, TypeOK
<1>2. ASSUME NEW p \in PoliciesOf(u)
      PROVE  p \in Ids \X Contents
  <2>1. PICK i \in {j \in Rows : <<j, u>> \in attachments} : p = <<i, table[i]>>
    BY <1>2 DEF PoliciesOf
  <2> QED
    BY <1>1, <2>1
<1> QED
  BY <1>2 DEF Holding, Entry

LEMMA CacheType ==
  ASSUME Typed, NEW u \in Principals, LoadBegin(u) \/ LoadEnd(u) \/ Expire(u)
  PROVE  Typed'
<1> USE DEF TypeOK, store, caching, behind, history
<1>1. kind' = kind /\ calls' = calls /\ Drawn' /\ Asked'
  BY SameCalls DEF LoadBegin, LoadEnd, Expire
<1>2. CASE LoadBegin(u)
  BY <1>1, <1>2, LoadedType DEF LoadBegin, Typed
<1>3. CASE LoadEnd(u)
  <2>1. /\ cache' = cache \/ cache' = [cache EXCEPT ![u] = load[u]]
        /\ excused' \in {excused, excused \union {u}, excused \ {u}}
        /\ load' = [load EXCEPT ![u] = NotCached] /\ overtaken' = overtaken \ {u}
        /\ UNCHANGED <<kind, store, calls, slipped, list, history>>
    BY <1>3 DEF LoadEnd
  <2>2. /\ cache' \in [Principals -> Entry] /\ load' \in [Principals -> Entry]
        /\ overtaken' \in SUBSET Principals /\ excused' \in SUBSET Principals
    BY <2>1, LoadedType DEF Typed
  <2> QED
    BY <1>1, <2>1, <2>2 DEF Typed
<1>4. CASE Expire(u)
  BY <1>1, <1>4, LoadedType DEF Expire, Typed
<1> QED
  BY <1>2, <1>3, <1>4

LEMMA ListType ==
  ASSUME Typed, ListBegin \/ ListPage
  PROVE  Typed'
<1> USE DEF TypeOK, store, caching, behind, history
<1>1. /\ UNCHANGED <<kind, store, calls, caching, history>>
      /\ Drawn' /\ Asked'
  BY SameCalls DEF ListBegin, ListPage
<1>2. CASE ListBegin
  BY <1>1, <1>2 DEF ListBegin, NoList, Typed
<1>3. CASE ListPage
  <2>1. Rest \subseteq Ids
    BY DEF Rest, Rows
  <2>2. ASSUME NEW page \in SUBSET Rest, NEW at \in {"page", "done"},
               NEW after \in Ids \union {0}, Listing(page, at, after)
        PROVE  list' \in [at : {"idle", "page", "done"}, after : Ids \union {0},
                          got : SUBSET Ids, stable : SUBSET Ids]
    BY <2>1, <2>2 DEF Listing, Typed
  <2>3. list' \in [at : {"idle", "page", "done"}, after : Ids \union {0},
                   got : SUBSET Ids, stable : SUBSET Ids]
    BY <1>3, <2>1, <2>2 DEF ListPage, Typed
  <2> QED
    BY <1>1, <2>3 DEF Typed
<1> QED
  BY <1>2, <1>3

LEMMA TypedInit == Init => Typed
<1> SUFFICES ASSUME Init PROVE Typed
  OBVIOUS
<1>1. TypeOK
  BY DirectoryAssumption DEF Init, TypeOK, NoList, Entry
<1>2. \A r \in Calls : calls[r] = NoCall
  BY DEF Init
<1> QED
  BY <1>1, <1>2 DEF Typed, Drawn, Asked, NoCall

LEMMA TypedNext == Typed /\ [Next]_vars => Typed'
<1> SUFFICES ASSUME Typed, [Next]_vars PROVE Typed'
  OBVIOUS
<1>1. CASE UNCHANGED vars
  BY <1>1 DEF vars, store, caching, behind, history, Typed, TypeOK, Drawn, Asked
<1>2. CASE Next
  BY <1>2, AskType, CreateType, ChangeType, CacheType, ListType DEF Next, Step
<1> QED
  BY <1>1, <1>2

\* Every variable of Directory keeps its type: no create goes on past its last
\* attempt at an id, and nothing is recorded under the id of no row.
THEOREM TypeCorrect == Spec => []TypeOK
<1>1. Typed => TypeOK
  BY DEF Typed
<1> QED
  BY TypedInit, TypedNext, <1>1, PTL DEF Spec

-----------------------------------------------------------------------------
(* Uncommitted rows and tokens.                                             *)

\* No create replaces what another made, nor makes what another is making
\* (server.go:134-136, accounts.go:84-93): a row that was inserted and is not
\* committed yet is nowhere in the table, and its transaction is alone with it.
InsertIsNew ==
  \A r \in Calls, i \in Ids : HoldsId(r, i) => i \notin Rows /\ IdIsFree(r, i)

\* The unique key on idempotency, as a transaction sees it.
TokenIsNew ==
  \A r \in Calls, t \in Tokens : HoldsToken(r, t) => tokens[t] = NoId /\ TokenIsFree(r, t)

\* What one call's step may do to what is uncommitted: take what is free, and
\* commit what it held.
TakesAndCommits(r) ==
  /\ \A i \in Ids : HoldsId(r, i)' => HoldsId(r, i) \/ (i \notin Rows /\ IdIsFree(r, i))
  /\ \A i \in Ids : i \in Rows' => i \in Rows \/ (HoldsId(r, i) /\ ~HoldsId(r, i)')
  /\ \A t \in Tokens : HoldsToken(r, t)' =>
       HoldsToken(r, t) \/ (tokens[t] = NoId /\ TokenIsFree(r, t))
  /\ \A t \in Tokens : tokens'[t] # NoId =>
       tokens[t] # NoId \/ (HoldsToken(r, t) /\ ~HoldsToken(r, t)')

LEMMA HoldsSame ==
  ASSUME kind' = kind, NEW q \in Calls, calls'[q] = calls[q]
  PROVE  /\ \A i : HoldsId(q, i)' <=> HoldsId(q, i)
         /\ \A t : HoldsToken(q, t)' <=> HoldsToken(q, t)
BY DEF HoldsId, HoldsToken

LEMMA StaysNew ==
  ASSUME InsertIsNew, TokenIsNew, kind' = kind, NEW r \in Calls,
         \A q \in Calls \ {r} : calls'[q] = calls[q], TakesAndCommits(r)
  PROVE  InsertIsNew' /\ TokenIsNew'
<1>1. ASSUME NEW q \in Calls, NEW i \in Ids, HoldsId(q, i)'
      PROVE  i \notin Rows' /\ IdIsFree(q, i)'
  <2>1. CASE q = r
    <3>1. i \notin Rows /\ IdIsFree(r, i)
      BY <1>1, <2>1 DEF TakesAndCommits, InsertIsNew
    <3>2. i \notin Rows'
      BY <1>1, <2>1, <3>1 DEF TakesAndCommits
    <3> QED
      BY <2>1, <3>1, <3>2, HoldsSame DEF IdIsFree
  <2>2. CASE q # r
    <3>1. HoldsId(q, i)
      BY <1>1, <2>2, HoldsSame
    <3>2. i \notin Rows /\ IdIsFree(q, i)
      BY <3>1 DEF InsertIsNew
    <3>3. ~HoldsId(r, i) /\ ~IdIsFree(r, i)
      BY <2>2, <3>1, <3>2 DEF IdIsFree
    <3>4. i \notin Rows' /\ ~HoldsId(r, i)'
      BY <3>2, <3>3 DEF TakesAndCommits
    <3> QED
      BY <2>2, <3>2, <3>4, HoldsSame DEF IdIsFree
  <2> QED
    BY <2>1, <2>2
<1>2. ASSUME NEW q \in Calls, NEW t \in Tokens, HoldsToken(q, t)'
      PROVE  tokens'[t] = NoId /\ TokenIsFree(q, t)'
  <2>1. CASE q = r
    <3>1. tokens[t] = NoId /\ TokenIsFree(r, t)
      BY <1>2, <2>1 DEF TakesAndCommits, TokenIsNew
    <3>2. tokens'[t] = NoId
      BY <1>2, <2>1, <3>1 DEF TakesAndCommits
    <3> QED
      BY <2>1, <3>1, <3>2, HoldsSame DEF TokenIsFree
  <2>2. CASE q # r
    <3>1. HoldsToken(q, t)
      BY <1>2, <2>2, HoldsSame
    <3>2. tokens[t] = NoId /\ TokenIsFree(q, t)
      BY <3>1 DEF TokenIsNew
    <3>3. ~HoldsToken(r, t) /\ ~TokenIsFree(r, t)
      BY <2>2, <3>1, <3>2 DEF TokenIsFree
    <3>4. tokens'[t] = NoId /\ ~HoldsToken(r, t)'
      BY <3>2, <3>3 DEF TakesAndCommits
    <3> QED
      BY <2>2, <3>2, <3>4, HoldsSame DEF TokenIsFree
  <2> QED
    BY <2>1, <2>2
<1> QED
  BY <1>1, <1>2 DEF InsertIsNew, TokenIsNew

\* A call that ends or that changes rows holds nothing.
LEMMA HoldsNothing ==
  ASSUME NEW r \in Calls, calls'[r] = NoCall \/ calls'[r].op # "create"
  PROVE  /\ \A i : ~HoldsId(r, i)'
         /\ \A t : ~HoldsToken(r, t)'
BY DEF HoldsId, HoldsToken, NoCall

LEMMA AskTakes ==
  ASSUME Typed, NEW r \in Calls,
         \/ \E t \in Tokens \union {NoToken}, c \in Contents : AskCreate(r, t, c)
         \/ \E i \in Ids : AskDelete(r, i)
         \/ \E i \in Ids, u \in Principals : AskAttach(r, i, u) \/ AskDetach(r, i, u)
  PROVE  /\ UNCHANGED <<kind, store, history>>
         /\ \A q \in Calls \ {r} : calls'[q] = calls[q]
         /\ TakesAndCommits(r)
<1>1. UNCHANGED <<kind, store, history>>
  BY DEF AskCreate, AskDelete, AskAttach, AskDetach, AskChange
<1>2. /\ calls'[r].op # "create" \/ calls'[r].token \notin Tokens
           \/ calls'[r].at # "insert" \/ kind # "policy"
      /\ calls'[r].op # "create" \/ calls'[r].at \in {"insert", "claim"}
      /\ calls'[r].op # "create" \/ calls'[r].at = "insert" \/ kind = "policy"
      /\ \A q \in Calls \ {r} : calls'[q] = calls[q]
  <2>1. CASE \E t \in Tokens \union {NoToken}, c \in Contents : AskCreate(r, t, c)
    <3>1. PICK t \in Tokens \union {NoToken}, c \in Contents : AskCreate(r, t, c)
      BY <2>1
    <3>2. PICK i \in IF kind = "policy" THEN Ids ELSE {NoId} :
            calls' = [calls EXCEPT ![r] =
              [op |-> "create", token |-> t, content |-> c, id |-> i, tries |-> 0,
               at |-> IF kind = "policy" /\ t # NoToken THEN "claim" ELSE "insert"]]
      BY <3>1 DEF AskCreate
    <3>3. /\ calls'[r].token = t
          /\ calls'[r].at = IF kind = "policy" /\ t # NoToken THEN "claim" ELSE "insert"
          /\ \A q \in Calls \ {r} : calls'[q] = calls[q]
      BY <3>2 DEF Typed, TypeOK
    <3> QED
      BY <3>3, DirectoryAssumption
  <2>2. CASE \E i \in Ids : AskDelete(r, i)
    BY <2>2 DEF AskDelete, AskChange, Typed, TypeOK
  <2>3. CASE \E i \in Ids, u \in Principals : AskAttach(r, i, u) \/ AskDetach(r, i, u)
    BY <2>3 DEF AskAttach, AskDetach, AskChange, Typed, TypeOK
  <2> QED
    BY <2>1, <2>2, <2>3
<1>3. (\A i \in Ids : ~HoldsId(r, i)') /\ (\A t \in Tokens : ~HoldsToken(r, t)')
  BY <1>1, <1>2 DEF HoldsId, HoldsToken
<1> QED
  BY <1>1, <1>2, <1>3 DEF TakesAndCommits, Rows, store

\* A call that ends, its rows rolled back.
LEMMA ReplyTakes ==
  ASSUME Typed, NEW r \in Calls, Reply(r), UNCHANGED <<kind, store>>
  PROVE  /\ \A q \in Calls \ {r} : calls'[q] = calls[q]
         /\ TakesAndCommits(r)
BY ReplyType, HoldsNothing DEF Typed, TakesAndCommits, Rows, store

LEMMA CreateTakes ==
  ASSUME Typed, NEW r \in Calls, CreateStep(r) \/ Fails(r)
  PROVE  /\ kind' = kind /\ attachments' = attachments
         /\ UNCHANGED <<cache, load, list, behind>>
         /\ \A q \in Calls \ {r} : calls'[q] = calls[q]
         /\ TakesAndCommits(r)
<1> USE DEF store, caching, history
<1>1. ASSUME NEW i \in Ids, Creating(r, "insert"), kind # "policy",
             i \notin Rows, IdIsFree(r, i), UNCHANGED <<kind, store>>,
             calls' = [calls EXCEPT ![r].id = i, ![r].at =
                         IF calls[r].token = NoToken THEN "commit" ELSE "claim"]
      PROVE  /\ \A q \in Calls \ {r} : calls'[q] = calls[q]
             /\ TakesAndCommits(r)
  <2>1. /\ calls'[r].op = "create"
        /\ calls'[r].at = IF calls[r].token = NoToken THEN "commit" ELSE "claim"
        /\ calls'[r].id = i /\ calls'[r].token = calls[r].token
        /\ \A q \in Calls \ {r} : calls'[q] = calls[q]
    BY <1>1, InsertGoes DEF Typed
  <2>2. \A j : HoldsId(r, j)' => j = i
    BY <1>1, <2>1 DEF HoldsId
  <2>3. \A t \in Tokens : ~HoldsToken(r, t)'
    BY <1>1, <2>1, DirectoryAssumption DEF HoldsToken
  <2> QED
    BY <1>1, <2>1, <2>2, <2>3 DEF TakesAndCommits, Rows
<1>2. CASE InsertAccount(r)
  <2>1. PICK i \in Ids :
          /\ IdIsFree(r, i)
          /\ IF i \notin Rows
            THEN calls' = [calls EXCEPT ![r].id = i, ![r].at =
                             IF calls[r].token = NoToken THEN "commit" ELSE "claim"]
            ELSE IF calls[r].tries + 1 = MaxTries
              THEN Reply(r)
              ELSE calls' = [calls EXCEPT ![r].tries = @ + 1]
    BY <1>2 DEF InsertAccount
  <2>2. /\ UNCHANGED <<kind, store, caching, list, history>>
        /\ Creating(r, "insert") /\ kind = "account"
    BY <1>2 DEF InsertAccount
  <2>3. CASE i \notin Rows
    BY <1>1, <2>1, <2>2, <2>3
  <2>4. CASE Reply(r)
    BY <2>2, <2>4, ReplyTakes
  <2>5. CASE calls[r].tries + 1 # MaxTries /\ calls' = [calls EXCEPT ![r].tries = @ + 1]
    <3>1. /\ calls'[r].op = "create" /\ calls'[r].at = "insert"
          /\ \A q \in Calls \ {r} : calls'[q] = calls[q]
      BY <2>2, <2>5, RedrawGoes DEF Typed
    <3>2. (\A j : ~HoldsId(r, j)') /\ (\A t : ~HoldsToken(r, t)')
      BY <2>2, <3>1 DEF HoldsId, HoldsToken
    <3> QED
      BY <2>2, <3>1, <3>2 DEF TakesAndCommits, Rows
  <2> QED
    BY <2>1, <2>2, <2>3, <2>4, <2>5
<1>3. CASE InsertKey(r)
  <2>1. PICK i \in Ids :
          /\ IdIsFree(r, i)
          /\ IF i \notin Rows
            THEN calls' = [calls EXCEPT ![r].id = i, ![r].at =
                             IF calls[r].token = NoToken THEN "commit" ELSE "claim"]
            ELSE Reply(r)
    BY <1>3 DEF InsertKey
  <2>2. /\ UNCHANGED <<kind, store, caching, list, history>>
        /\ Creating(r, "insert") /\ kind = "key"
    BY <1>3 DEF InsertKey
  <2> QED
    BY <1>1, <2>1, <2>2, ReplyTakes
<1>4. CASE InsertPolicy(r)
  <2>1. /\ UNCHANGED <<kind, store, caching, list, history>>
        /\ Creating(r, "insert") /\ kind = "policy" /\ IdIsFree(r, calls[r].id)
    BY <1>4 DEF InsertPolicy
  <2>2. CASE Reply(r)
    BY <2>1, <2>2, ReplyTakes
  <2>3. CASE calls[r].id \notin Rows /\ Goto(r, "commit")
    <3>1. /\ calls'[r].op = "create" /\ calls'[r].at = "commit"
          /\ calls'[r].id = calls[r].id /\ calls'[r].token = calls[r].token
          /\ \A q \in Calls \ {r} : calls'[q] = calls[q]
      BY <2>1, <2>3, CreateGoes DEF Typed, Creating, CreateSteps
    <3>2. \A j : HoldsId(r, j)' => j = calls[r].id
      BY <3>1 DEF HoldsId
    <3>3. \A t : HoldsToken(r, t)' => HoldsToken(r, t)
      BY <2>1, <3>1 DEF HoldsToken, Creating
    <3> QED
      BY <2>1, <2>3, <3>1, <3>2, <3>3 DEF TakesAndCommits, Rows
  <2> QED
    BY <1>4, <2>1, <2>2, <2>3 DEF InsertPolicy
<1>5. CASE ClaimToken(r)
  <2> DEFINE t == calls[r].token
  <2>1. /\ UNCHANGED <<kind, store, caching, list, history>>
        /\ Creating(r, "claim") /\ TokenIsFree(r, t)
    BY <1>5 DEF ClaimToken
  <2>2. CASE Reply(r)
    BY <2>1, <2>2, ReplyTakes
  <2>3. CASE Goto(r, "replay")
    <3>1. /\ calls'[r].op = "create" /\ calls'[r].at = "replay"
          /\ \A q \in Calls \ {r} : calls'[q] = calls[q]
      BY <2>1, <2>3, CreateGoes DEF Typed, Creating, CreateSteps
    <3>2. (\A j : ~HoldsId(r, j)') /\ (\A u : ~HoldsToken(r, u)')
      BY <2>1, <3>1 DEF HoldsId, HoldsToken
    <3> QED
      BY <2>1, <3>1, <3>2 DEF TakesAndCommits, Rows
  <2>4. CASE tokens[t] = NoId /\ Goto(r, IF kind = "policy" THEN "insert" ELSE "commit")
    <3>1. /\ calls'[r].op = "create"
          /\ calls'[r].at = IF kind = "policy" THEN "insert" ELSE "commit"
          /\ calls'[r].id = calls[r].id /\ calls'[r].token = t
          /\ \A q \in Calls \ {r} : calls'[q] = calls[q]
      BY <2>1, <2>4, CreateGoes DEF Typed, Creating, CreateSteps
    <3>2. \A j : HoldsId(r, j)' => HoldsId(r, j)
      BY <2>1, <3>1 DEF HoldsId, Creating
    <3>3. \A u : HoldsToken(r, u)' => u = t
      BY <3>1 DEF HoldsToken
    <3> QED
      BY <2>1, <2>4, <3>1, <3>2, <3>3 DEF TakesAndCommits, Rows
  <2> QED
    BY <1>5, <2>1, <2>2, <2>3, <2>4 DEF ClaimToken
<1>6. CASE Commit(r)
  <2> DEFINE t == calls[r].token  i == calls[r].id
  <2>1. /\ Creating(r, "commit") /\ Reply(r)
        /\ UNCHANGED <<kind, attachments, caching, list>>
        /\ table' = [table EXCEPT ![i] = calls[r].content]
        /\ tokens' = tokens \/ tokens' = [tokens EXCEPT ![t] = i]
    BY <1>6 DEF Commit
  <2>2. HoldsId(r, i) /\ HoldsToken(r, t)
    BY <2>1 DEF HoldsId, HoldsToken, Creating
  <2>3. /\ \A q \in Calls \ {r} : calls'[q] = calls[q]
        /\ \A j : ~HoldsId(r, j)'
        /\ \A u : ~HoldsToken(r, u)'
    BY <2>1, ReplyType, HoldsNothing DEF Typed
  <2>4. ASSUME NEW j \in Ids, j \in Rows'
        PROVE  j \in Rows \/ j = i
    BY <2>1, <2>4 DEF Typed, TypeOK, Rows
  <2>5. ASSUME NEW u \in Tokens, tokens'[u] # NoId
        PROVE  tokens[u] # NoId \/ u = t
    BY <2>1, <2>5 DEF Typed, TypeOK
  <2> QED
    BY <2>1, <2>2, <2>3, <2>4, <2>5 DEF TakesAndCommits
<1>7. CASE Replay(r)
  BY <1>7, ReplyTakes DEF Replay
<1>8. CASE Fails(r)
  BY <1>8, ReplyTakes DEF Fails
<1> QED
  BY <1>2, <1>3, <1>4, <1>5, <1>6, <1>7, <1>8 DEF CreateStep

\* A change's call after its statement.
LEMMA ChangedCall ==
  ASSUME Typed, NEW r \in Calls, calls[r] # NoCall, calls[r].at \in ChangeSteps,
         NEW us, NEW lost, Changed(r, us, lost)
  PROVE  /\ \A q \in Calls \ {r} : calls'[q] = calls[q]
         /\ calls'[r] = NoCall \/ calls'[r].op # "create"
         /\ calls[r].op # "create"
         /\ \/ lost /\ calls'[r] = NoCall
            \/ ~lost /\ calls'[r].at = "drop" /\ calls'[r] \in Change
               /\ calls'[r].drops = calls[r].drops
<1>1. calls[r].op # "create"
  BY ChangeFields DEF Typed, Change
<1>2. CASE lost
  BY <1>1, <1>2, ReplyType DEF Changed, Typed
<1>3. CASE ~lost
  BY <1>1, <1>3, ChangeGoes DEF Changed, Typed, ChangeSteps
<1> QED
  BY <1>2, <1>3

LEMMA ChangeTakes ==
  ASSUME Typed, NEW r \in Calls, ChangeStep(r)
  PROVE  /\ UNCHANGED <<kind, tokens, load, list, history>>
         /\ \A q \in Calls \ {r} : calls'[q] = calls[q]
         /\ calls[r] # NoCall /\ calls[r].op # "create" /\ kind # "account"
         /\ \A i \in Ids : i \in Rows' => i \in Rows
         /\ TakesAndCommits(r)
<1> USE DEF store, caching, history
<1>1. /\ calls[r] # NoCall /\ calls[r].at \in ChangeSteps
      /\ calls[r] \in Change /\ calls[r].op # "create" /\ kind # "account"
  <2>1. \E at \in ChangeSteps : At(r, at)
    BY DEF ChangeStep, DeleteReadsAffected, DeleteRow, AttachLooks, Attach, Detach, Drop,
           ChangeSteps
  <2> QED
    BY <2>1, ChangeAt DEF Typed, Asked
<1>2. UNCHANGED <<kind, tokens, load, list, history>>
  BY DEF ChangeStep, DeleteReadsAffected, DeleteRow, AttachLooks, Attach, Detach, Drop
<1>3. \A i \in Ids : i \in Rows' => i \in Rows
  <2>1. table' = table \/ table' = [table EXCEPT ![calls[r].id] = NoContent]
    BY DEF ChangeStep, DeleteReadsAffected, DeleteRow, AttachLooks, Attach, Detach, Drop
  <2> QED
    BY <2>1 DEF Typed, TypeOK, Rows
<1>4. /\ \A q \in Calls \ {r} : calls'[q] = calls[q]
      /\ calls'[r] = NoCall \/ calls'[r].op # "create"
  <2>1. CASE DeleteReadsAffected(r)
    <3> DEFINE c == [calls[r] EXCEPT !.drops = AttachedTo(calls[r].id), !.at = "delete"]
    <3>1. c \in Change /\ c.op = calls[r].op
      BY <1>1 DEF Change, AttachedTo
    <3>2. calls' = [calls EXCEPT ![r] = c]
      BY <2>1 DEF DeleteReadsAffected, Typed, TypeOK
    <3> QED
      BY <1>1, <3>1, <3>2, CallType DEF Typed
  <2>2. CASE Drop(r)
    <3>1. CASE Reply(r)
      BY <3>1, ReplyType DEF Typed
    <3>2. ASSUME NEW u \in Principals, calls' = [calls EXCEPT ![r].drops = @ \ {u}]
          PROVE  /\ \A q \in Calls \ {r} : calls'[q] = calls[q]
                 /\ calls'[r].op # "create"
      <4> DEFINE c == [calls[r] EXCEPT !.drops = @ \ {u}]
      <4>1. c \in Change /\ c.op = calls[r].op
        BY <1>1 DEF Change
      <4>2. calls' = [calls EXCEPT ![r] = c]
        BY <3>2 DEF Typed, TypeOK
      <4> QED
        BY <1>1, <4>1, <4>2, CallType DEF Typed
    <3> QED
      BY <1>1, <2>2, <3>1, <3>2 DEF Drop, Change
  <2>3. CASE Reply(r)
    BY <2>3, ReplyType DEF Typed
  <2>4. CASE Goto(r, "attach")
    BY <1>1, <2>4, ChangeGoes DEF Typed, ChangeSteps
  <2>5. CASE \E us, lost : Changed(r, us, lost)
    BY <1>1, <2>5, ChangedCall
  <2> QED
    BY <2>1, <2>2, <2>3, <2>4, <2>5 DEF ChangeStep, DeleteRow, AttachLooks, Attach, Detach
<1> QED
  BY <1>1, <1>2, <1>3, <1>4, HoldsNothing DEF TakesAndCommits

-----------------------------------------------------------------------------
(* What was inserted and is not committed yet.                              *)

Uncommitted == Typed /\ InsertIsNew /\ TokenIsNew

LEMMA UncommittedNext == Uncommitted /\ [Next]_vars => Uncommitted'
<1> SUFFICES ASSUME Uncommitted, [Next]_vars PROVE InsertIsNew' /\ TokenIsNew'
  BY TypedNext DEF Uncommitted
<1> USE DEF Uncommitted
<1>1. CASE UNCHANGED <<kind, table, tokens, calls>>
  BY <1>1 DEF InsertIsNew, TokenIsNew, HoldsId, HoldsToken, IdIsFree, TokenIsFree, Rows
<1>2. CASE UNCHANGED vars
  BY <1>1, <1>2 DEF vars, store
<1>3. CASE ListBegin \/ ListPage
  BY <1>1, <1>3 DEF ListBegin, ListPage, store
<1>4. CASE \E u \in Principals : LoadBegin(u) \/ LoadEnd(u) \/ Expire(u)
  BY <1>1, <1>4 DEF LoadBegin, LoadEnd, Expire, store
<1>5. ASSUME NEW r \in Calls,
         \/ \E t \in Tokens \union {NoToken}, c \in Contents : AskCreate(r, t, c)
         \/ \E i \in Ids : AskDelete(r, i)
         \/ \E i \in Ids, u \in Principals : AskAttach(r, i, u) \/ AskDetach(r, i, u)
      PROVE  InsertIsNew' /\ TokenIsNew'
  BY <1>5, AskTakes, StaysNew
<1>6. ASSUME NEW r \in Calls, CreateStep(r) \/ Fails(r)
      PROVE  InsertIsNew' /\ TokenIsNew'
  BY <1>6, CreateTakes, StaysNew
<1>7. ASSUME NEW r \in Calls, ChangeStep(r)
      PROVE  InsertIsNew' /\ TokenIsNew'
  BY <1>7, ChangeTakes, StaysNew
<1> QED
  BY <1>2, <1>3, <1>4, <1>5, <1>6, <1>7 DEF Next, Step

LEMMA UncommittedInit == Init => Uncommitted
<1> SUFFICES ASSUME Init PROVE InsertIsNew /\ TokenIsNew
  BY TypedInit DEF Uncommitted
<1>1. \A r \in Calls : calls[r] = NoCall
  BY DEF Init
<1> QED
  BY <1>1 DEF InsertIsNew, TokenIsNew, HoldsId, HoldsToken, NoCall

LEMMA UncommittedAlways == Spec => []Uncommitted
BY UncommittedInit, UncommittedNext, PTL DEF Spec

\* No create replaces what another made or is making: what it has inserted and
\* not yet committed is nowhere in the table, and no one else's.
THEOREM InsertsAreNew == Spec => []InsertIsNew
<1>1. Uncommitted => InsertIsNew
  BY DEF Uncommitted
<1> QED
  BY UncommittedAlways, <1>1, PTL

-----------------------------------------------------------------------------
(* Tokens and what was answered to them.                                    *)

LEMMA SameResults ==
  ASSUME OneResultPerToken, UNCHANGED <<kind, tokens, history>>,
         kind = "account" => \A i \in Rows : i \in Rows'
  PROVE  OneResultPerToken'
BY DEF OneResultPerToken, history

LEMMA CommitKeepsResults ==
  ASSUME Uncommitted, OneResultPerToken, NEW r \in Calls, Commit(r)
  PROVE  OneResultPerToken'
<1> DEFINE t == calls[r].token  i == calls[r].id
<1>1. /\ i \in Ids /\ t \in Tokens \union {NoToken} /\ calls[r].content \in Contents
      /\ Creating(r, "commit") /\ kind' = kind
  BY CreateFields DEF Uncommitted, Typed, Drawn, Commit, Creating, Create
<1>2. i \in Rows' /\ \A j \in Rows : j \in Rows'
  BY <1>1, DirectoryAssumption DEF Commit, Rows, Uncommitted, Typed, TypeOK
<1>3. CASE t = NoToken
  BY <1>1, <1>2, <1>3, SameResults DEF Commit, Tell, history
<1>4. CASE t # NoToken
  <2>1. tokens[t] = NoId /\ t \in Tokens
    BY <1>1, <1>4 DEF Uncommitted, TokenIsNew, HoldsToken, Creating
  <2>2. created[t] = 0 /\ told[t] = {}
    BY <2>1, DirectoryAssumption DEF OneResultPerToken, Uncommitted, Typed, TypeOK, NoId
  <2>3. /\ tokens' = [tokens EXCEPT ![t] = i]
        /\ created' = [created EXCEPT ![t] = @ + 1]
        /\ told' = told \/ told' = [told EXCEPT ![t] = @ \union {i}]
    BY <1>4 DEF Commit, Tell
  <2>4. tokens'[t] = i /\ created'[t] = 1 /\ told'[t] \subseteq {i} /\ i # NoId
    BY <1>1, <2>1, <2>2, <2>3, Constants DEF Uncommitted, Typed, TypeOK
  <2>5. ASSUME NEW u \in Tokens, u # t
        PROVE  tokens'[u] = tokens[u] /\ created'[u] = created[u] /\ told'[u] = told[u]
    BY <2>3, <2>5 DEF Uncommitted, Typed, TypeOK
  <2>6. ASSUME NEW u \in Tokens
        PROVE  /\ created'[u] = IF tokens'[u] = NoId THEN 0 ELSE 1
               /\ told'[u] \subseteq {tokens'[u]}
               /\ kind' = "account" /\ tokens'[u] # NoId => tokens'[u] \in Rows'
    BY <1>1, <1>2, <2>4, <2>5 DEF OneResultPerToken
  <2> QED
    BY <2>6 DEF OneResultPerToken
<1> QED
  BY <1>3, <1>4

LEMMA ReplayKeepsResults ==
  ASSUME Uncommitted, OneResultPerToken, NEW r \in Calls, Replay(r)
  PROVE  OneResultPerToken'
<1> DEFINE t == calls[r].token
<1>1. /\ UNCHANGED <<kind, store, created>> /\ t \in Tokens
      /\ told' = told \/ told' = [told EXCEPT ![t] = @ \union {tokens[t]}]
  BY DirectoryAssumption DEF Replay, Tell, Creating, Uncommitted, Typed, Asked
<1>2. ASSUME NEW u \in Tokens
      PROVE  told'[u] \subseteq {tokens[u]}
  BY <1>1, <1>2 DEF OneResultPerToken, Uncommitted, Typed, TypeOK
<1> QED
  BY <1>1, <1>2 DEF OneResultPerToken, store, Rows

LEMMA ResultsNext == Uncommitted /\ OneResultPerToken /\ [Next]_vars => OneResultPerToken'
<1> SUFFICES ASSUME Uncommitted, OneResultPerToken, [Next]_vars PROVE OneResultPerToken'
  OBVIOUS
<1>1. CASE UNCHANGED <<kind, table, tokens, history>>
  BY <1>1, SameResults DEF Rows
<1>2. CASE UNCHANGED vars
  BY <1>1, <1>2 DEF vars, store
<1>3. CASE ListBegin \/ ListPage
  BY <1>1, <1>3 DEF ListBegin, ListPage, store
<1>4. CASE \E u \in Principals : LoadBegin(u) \/ LoadEnd(u) \/ Expire(u)
  BY <1>1, <1>4 DEF LoadBegin, LoadEnd, Expire, store
<1>5. ASSUME NEW r \in Calls,
         \/ \E t \in Tokens \union {NoToken}, c \in Contents : AskCreate(r, t, c)
         \/ \E i \in Ids : AskDelete(r, i)
         \/ \E i \in Ids, u \in Principals : AskAttach(r, i, u) \/ AskDetach(r, i, u)
      PROVE  OneResultPerToken'
  BY <1>1, <1>5, AskTakes DEF Uncommitted, store
<1>6. ASSUME NEW r \in Calls, CreateStep(r) \/ Fails(r)
      PROVE  OneResultPerToken'
  <2>1. CASE Commit(r)
    BY <2>1, CommitKeepsResults
  <2>2. CASE Replay(r)
    BY <2>2, ReplayKeepsResults
  <2>3. CASE InsertAccount(r) \/ InsertKey(r) \/ InsertPolicy(r) \/ ClaimToken(r) \/ Fails(r)
    BY <1>1, <2>3 DEF InsertAccount, InsertKey, InsertPolicy, ClaimToken, Fails, store
  <2> QED
    BY <1>6, <2>1, <2>2, <2>3 DEF CreateStep
<1>7. ASSUME NEW r \in Calls, ChangeStep(r)
      PROVE  OneResultPerToken'
  BY <1>7, ChangeTakes, SameResults DEF Uncommitted
<1> QED
  BY <1>2, <1>3, <1>4, <1>5, <1>6, <1>7 DEF Next, Step

\* A token has at most one result ever, and every answer to it names that one,
\* whatever is retried, raced, rolled back or lost.
THEOREM TokensHaveOneResult == Spec => []OneResultPerToken
<1>1. Init => OneResultPerToken
  BY Constants DEF Init, OneResultPerToken
<1> QED
  BY UncommittedAlways, ResultsNext, <1>1, PTL DEF Spec

-----------------------------------------------------------------------------
(* Listings.                                                                *)

LEMMA PageKeepsListing ==
  ASSUME Typed, ListingSkipsNothing, ListPage
  PROVE  ListingSkipsNothing'
<1> DEFINE Cut(page) == \A i \in page, j \in Rest \ page : i < j
<1>1. /\ list.after \in Nat /\ list.got \subseteq Nat /\ list.stable \subseteq Nat
      /\ Rest \subseteq Nat /\ list.at = "page"
      /\ \A i \in list.got : i <= list.after
      /\ \A i \in list.stable : i <= list.after => i \in list.got
  <2>1. /\ list.after \in Ids \union {0} /\ list.got \in SUBSET Ids
        /\ list.stable \in SUBSET Ids
    BY DEF Typed, TypeOK
  <2>2. Ids \subseteq Nat /\ Rest \subseteq Ids
    BY Constants DEF Rest, Rows
  <2>3. /\ list.at = "page"
        /\ \A i \in list.got : i <= list.after
        /\ \A i \in list.stable : i <= list.after => i \in list.got
    BY DEF ListPage, ListingSkipsNothing
  <2>4. list.after \in Nat
    <3>1. CASE list.after \in Ids
      BY <2>2, <3>1
    <3>2. CASE list.after = 0
      BY <3>2
    <3> QED
      BY <2>1, <3>1, <3>2
  <2> QED
    BY <2>1, <2>2, <2>3, <2>4
<1>2. \A i \in list.stable \cap Rows : i <= list.after \/ i \in Rest
  BY <1>1 DEF Rest
<1>3. CASE \E page \in SUBSET Rest : page = Rest /\ Listing(page, "done", list.after)
  <2>1. /\ list'.at = "done" /\ list'.got = list.got \union Rest
        /\ list'.stable = list.stable \cap Rows
    BY <1>3 DEF Listing
  <2> QED
    BY <1>1, <1>2, <2>1 DEF ListingSkipsNothing
<1>4. CASE \E page \in SUBSET Rest :
             /\ Cut(page)
             /\ \E last \in page :
                  (\A i \in page : i <= last) /\ Listing(page, "page", last)
  <2>1. PICK page \in SUBSET Rest :
             /\ Cut(page)
             /\ \E last \in page :
                  (\A i \in page : i <= last) /\ Listing(page, "page", last)
    BY <1>4
  <2>2. PICK last \in page : (\A i \in page : i <= last) /\ Listing(page, "page", last)
    BY <2>1
  <2>3. /\ list'.at = "page" /\ list'.after = last /\ list'.got = list.got \union page
        /\ list'.stable = list.stable \cap Rows
    BY <2>2 DEF Listing
  <2>4. last \in Nat /\ last > list.after
    BY <1>1, <2>2 DEF Rest
  <2>5. ASSUME NEW i \in list'.got
        PROVE  i <= last
    <3>1. CASE i \in page
      BY <2>2, <3>1
    <3>2. CASE i \in list.got
      <4>1. i \in Nat /\ i <= list.after
        BY <1>1, <3>2
      <4> QED
        BY <1>1, <2>4, <4>1
    <3> QED
      BY <2>3, <2>5, <3>1, <3>2
  <2>6. ASSUME NEW i \in list'.stable, i <= last
        PROVE  i \in list'.got
    <3>1. CASE i <= list.after
      BY <1>1, <2>3, <2>6, <3>1
    <3>2. CASE i \in Rest /\ i \notin page
      <4>1. last < i
        BY <2>1, <2>2, <3>2
      <4>2. i \in Nat /\ ~(i <= last)
        BY <1>1, <2>4, <3>2, <4>1
      <4> QED
        BY <2>6, <4>2
    <3>3. CASE i \in page
      BY <2>3, <3>3
    <3> QED
      BY <1>2, <2>3, <2>6, <3>1, <3>2, <3>3
  <2> QED
    BY <2>3, <2>5, <2>6 DEF ListingSkipsNothing
<1> QED
  BY <1>3, <1>4 DEF ListPage, IsPage

LEMMA ListingNext == Uncommitted /\ ListingSkipsNothing /\ [Next]_vars => ListingSkipsNothing'
<1> SUFFICES ASSUME Uncommitted, ListingSkipsNothing, [Next]_vars
    PROVE  ListingSkipsNothing'
  OBVIOUS
<1>1. CASE UNCHANGED list
  BY <1>1 DEF ListingSkipsNothing
<1>2. CASE ListPage
  BY <1>2, PageKeepsListing DEF Uncommitted
<1>3. CASE ListBegin
  <2>1. list'.at = "page" /\ list'.after = 0 /\ list'.got = {} /\ list'.stable = Ids
    BY <1>3 DEF ListBegin, NoList
  <2>2. \A i \in Ids : ~(i <= 0)
    BY DirectoryAssumption
  <2> QED
    BY <2>1, <2>2 DEF ListingSkipsNothing
<1>4. CASE \E r \in Calls : CreateStep(r) \/ ChangeStep(r) \/ Fails(r)
  BY <1>1, <1>4, CreateTakes, ChangeTakes DEF Uncommitted
<1>5. CASE \/ UNCHANGED vars
           \/ \E u \in Principals : LoadBegin(u) \/ LoadEnd(u) \/ Expire(u)
           \/ \E r \in Calls, t \in Tokens \union {NoToken}, c \in Contents : AskCreate(r, t, c)
           \/ \E r \in Calls, i \in Ids : AskDelete(r, i)
           \/ \E r \in Calls, i \in Ids, u \in Principals : AskAttach(r, i, u) \/ AskDetach(r, i, u)
  BY <1>1, <1>5 DEF vars, LoadBegin, LoadEnd, Expire, AskCreate, AskDelete, AskAttach,
                    AskDetach, AskChange
<1> QED
  BY <1>2, <1>3, <1>4, <1>5 DEF Next, Step

\* A listing read page by page returns every row that was there throughout,
\* and none twice.
THEOREM ListingsSkipNothing == Spec => []ListingSkipsNothing
<1>1. Init => ListingSkipsNothing
  BY DEF Init, NoList, ListingSkipsNothing
<1> QED
  BY UncommittedAlways, ListingNext, <1>1, PTL DEF Spec

-----------------------------------------------------------------------------
(* What a delete knows of who is affected.                                  *)

\* A key is deleted without looking for anyone it may be attached to: nothing
\* is attached but policies.
OnlyPoliciesAttach ==
  kind # "policy" =>
    attachments = {} /\ \A r \in Calls : ~At(r, "look") /\ ~At(r, "attach")

\* A delete that has read who is affected knows of everyone the policy is
\* attached to, but for those who slipped in.
Knows(r) ==
  \A u \in Principals :
    <<calls[r].id, u>> \in attachments =>
      u \in calls[r].drops \/ <<calls[r].id, u>> \in slipped
ReadOrSlipped == \A r \in Calls : At(r, "delete") => Knows(r)

AffectedAreKnown == OnlyPoliciesAttach /\ ReadOrSlipped

\* A step of one call that attaches nothing, or forgets no one it leaves
\* attached.
LEMMA NothingAttached ==
  ASSUME AffectedAreKnown, NEW r \in Calls, kind' = kind,
         \A q \in Calls \ {r} : calls'[q] = calls[q],
         kind # "policy" => ~At(r, "look")' /\ ~At(r, "attach")',
         At(r, "delete")' => Knows(r)',
         \A p : p \in attachments' => p \in attachments,
         \A p : p \in attachments' /\ p \in slipped => p \in slipped'
  PROVE  AffectedAreKnown'
<1>1. OnlyPoliciesAttach'
  <2> SUFFICES ASSUME kind # "policy" PROVE OnlyPoliciesAttach'
    BY DEF OnlyPoliciesAttach
  <2>1. attachments' = {}
    BY DEF AffectedAreKnown, OnlyPoliciesAttach
  <2>2. \A q \in Calls : ~At(q, "look")' /\ ~At(q, "attach")'
    BY DEF AffectedAreKnown, OnlyPoliciesAttach, At
  <2> QED
    BY <2>1, <2>2 DEF OnlyPoliciesAttach
<1>2. ASSUME NEW q \in Calls, At(q, "delete")'
      PROVE  Knows(q)'
  <2>1. CASE q = r
    BY <1>2, <2>1
  <2>2. CASE q # r
    <3>1. calls'[q] = calls[q] /\ Knows(q)
      BY <1>2, <2>2 DEF AffectedAreKnown, ReadOrSlipped, At
    <3> QED
      BY <3>1 DEF Knows
  <2> QED
    BY <2>1, <2>2
<1> QED
  BY <1>1, <1>2 DEF AffectedAreKnown, ReadOrSlipped

LEMMA AskIsKnown ==
  ASSUME Typed, AffectedAreKnown, NEW r \in Calls,
         \/ \E t \in Tokens \union {NoToken}, c \in Contents : AskCreate(r, t, c)
         \/ \E i \in Ids : AskDelete(r, i)
         \/ \E i \in Ids, u \in Principals : AskAttach(r, i, u) \/ AskDetach(r, i, u)
  PROVE  AffectedAreKnown'
<1>1. /\ UNCHANGED <<kind, attachments, slipped>>
      /\ \A q \in Calls \ {r} : calls'[q] = calls[q]
  <2>1. UNCHANGED caching
    BY DEF AskCreate, AskDelete, AskAttach, AskDetach, AskChange
  <2> QED
    BY <2>1, AskTakes DEF store, caching, behind
<1>2. CASE \E t \in Tokens \union {NoToken}, c \in Contents : AskCreate(r, t, c)
  <2>1. PICK t \in Tokens \union {NoToken}, c \in Contents : AskCreate(r, t, c)
    BY <1>2
  <2>2. PICK i \in IF kind = "policy" THEN Ids ELSE {NoId} :
          calls' = [calls EXCEPT ![r] =
            [op |-> "create", token |-> t, content |-> c, id |-> i, tries |-> 0,
             at |-> IF kind = "policy" /\ t # NoToken THEN "claim" ELSE "insert"]]
    BY <2>1 DEF AskCreate
  <2>3. calls'[r].at = IF kind = "policy" /\ t # NoToken THEN "claim" ELSE "insert"
    BY <2>2 DEF Typed, TypeOK
  <2>4. ~At(r, "delete")' /\ ~At(r, "look")' /\ ~At(r, "attach")'
    BY <2>3 DEF At
  <2> QED
    BY <1>1, <2>4, NothingAttached
<1>3. ASSUME NEW op, NEW at, NEW i, NEW ps, AskChange(r, op, at, i, ps),
             at \in {"affected", "detach"} \/ (at = "look" /\ kind = "policy")
               \/ (at = "delete" /\ kind = "key")
      PROVE  AffectedAreKnown'
  <2>1. calls'[r].at = at
    BY <1>3 DEF AskChange, Typed, TypeOK
  <2>2. kind # "policy" => ~At(r, "look")' /\ ~At(r, "attach")'
    BY <1>3, <2>1 DEF At
  <2>3. At(r, "delete")' => Knows(r)'
    <3>1. At(r, "delete")' => attachments' = {}
      BY <1>1, <1>3, <2>1 DEF At, AffectedAreKnown, OnlyPoliciesAttach
    <3> QED
      BY <3>1 DEF Knows
  <2> QED
    BY <1>1, <2>2, <2>3, NothingAttached
<1> QED
  BY <1>2, <1>3 DEF AskDelete, AskAttach, AskDetach

LEMMA CreateIsKnown ==
  ASSUME Uncommitted, AffectedAreKnown, NEW r \in Calls, CreateStep(r) \/ Fails(r)
  PROVE  AffectedAreKnown'
<1>1. /\ UNCHANGED <<kind, attachments, slipped>>
      /\ \A q \in Calls \ {r} : calls'[q] = calls[q]
  BY CreateTakes DEF Uncommitted, behind
<1>2. ~At(r, "delete")' /\ ~At(r, "look")' /\ ~At(r, "attach")'
  <2>1. CASE Reply(r)
    BY <2>1, ReplyType DEF Uncommitted, Typed, At
  <2>2. CASE CreateStep(r) /\ ~Reply(r)
    <3>1. CASE \E i \in Ids :
                 /\ Creating(r, "insert")
                 /\ calls' = [calls EXCEPT ![r].id = i, ![r].at =
                                IF calls[r].token = NoToken THEN "commit" ELSE "claim"]
      BY <3>1, InsertGoes DEF Uncommitted, Typed, At
    <3>2. CASE /\ Creating(r, "insert") /\ calls[r].tries + 1 # MaxTries
               /\ calls' = [calls EXCEPT ![r].tries = @ + 1]
      BY <3>2, RedrawGoes DEF Uncommitted, Typed, At
    <3>3. CASE \E at \in CreateSteps : calls[r].op = "create" /\ Goto(r, at)
      BY <3>3, CreateGoes DEF Uncommitted, Typed, At, CreateSteps
    <3> QED
      BY <2>2, <3>1, <3>2, <3>3
      DEF CreateStep, InsertAccount, InsertKey, InsertPolicy, ClaimToken, Commit, Replay,
          Creating, CreateSteps
  <2> QED
    BY <2>1, <2>2 DEF Fails
<1> QED
  BY <1>1, <1>2, NothingAttached

LEMMA ChangeIsKnown ==
  ASSUME Uncommitted, AffectedAreKnown, NEW r \in Calls, ChangeStep(r)
  PROVE  AffectedAreKnown'
<1>1. kind' = kind /\ \A q \in Calls \ {r} : calls'[q] = calls[q]
  BY ChangeTakes DEF Uncommitted
<1>2. ASSUME \/ calls'[r] = NoCall \/ calls'[r].at = "drop"
             \/ calls'[r].at = "attach" /\ kind = "policy",
             UNCHANGED <<attachments, slipped>>
             \/ \E ps : attachments' = attachments \ ps /\ slipped' = slipped \ ps
      PROVE  AffectedAreKnown'
  <2>1. ~At(r, "delete")' /\ (kind # "policy" => ~At(r, "look")' /\ ~At(r, "attach")')
    BY <1>2 DEF At
  <2>2. \A p : p \in attachments' => p \in attachments /\ (p \in slipped => p \in slipped')
    BY <1>2
  <2> QED
    BY <1>1, <2>1, <2>2, NothingAttached
<1>3. ASSUME calls[r] # NoCall, calls[r].at \in ChangeSteps,
             NEW us, NEW lost, Changed(r, us, lost)
      PROVE  calls'[r] = NoCall \/ calls'[r].at = "drop"
  BY <1>3, ChangedCall DEF Uncommitted
<1>4. CASE DeleteReadsAffected(r)
  <2>1. At(r, "affected") /\ calls[r] \in Change
    BY <1>4, ChangeAt DEF DeleteReadsAffected, Uncommitted, Typed, ChangeSteps
  <2>2. /\ calls' = [calls EXCEPT ![r].drops = AttachedTo(calls[r].id), ![r].at = "delete"]
        /\ UNCHANGED <<attachments, slipped>>
    BY <1>4 DEF DeleteReadsAffected, store, caching, behind
  <2>3. /\ calls'[r].at = "delete" /\ calls'[r].id = calls[r].id
        /\ calls'[r].drops = AttachedTo(calls[r].id)
    BY <2>1, <2>2 DEF Change, Uncommitted, Typed, TypeOK
  <2>4. ~At(r, "look")' /\ ~At(r, "attach")'
    BY <2>3 DEF At
  <2>5. attachments' = attachments
    BY <2>2
  <2>6. \A u \in Principals : <<calls[r].id, u>> \in attachments => u \in calls'[r].drops
    BY <2>3 DEF AttachedTo
  <2>7. Knows(r)'
    BY <2>3, <2>5, <2>6 DEF Knows
  <2> QED
    BY <1>1, <2>2, <2>4, <2>7, NothingAttached
<1>5. CASE DeleteRow(r)
  <2>1. calls[r] # NoCall /\ calls[r].at \in ChangeSteps
    BY <1>5 DEF DeleteRow, At, ChangeSteps
  <2> QED
    BY <1>2, <1>3, <1>5, <2>1, ReplyType DEF DeleteRow, store, behind, Uncommitted, Typed
<1>6. CASE AttachLooks(r)
  <2>1. At(r, "look") /\ kind = "policy" /\ calls[r] # NoCall /\ calls[r].at \in ChangeSteps
    BY <1>6 DEF AttachLooks, AffectedAreKnown, OnlyPoliciesAttach, At, ChangeSteps
  <2>2. CASE Reply(r)
    BY <1>2, <1>6, <2>2, ReplyType
    DEF AttachLooks, store, caching, behind, Uncommitted, Typed
  <2>3. CASE Goto(r, "attach")
    BY <1>2, <1>6, <2>1, <2>3, ChangeGoes
    DEF AttachLooks, store, caching, behind, Uncommitted, Typed, ChangeSteps
  <2> QED
    BY <1>6, <2>2, <2>3 DEF AttachLooks
<1>7. CASE Attach(r)
  <2> DEFINE new == ({calls[r].id} \X calls[r].drops) \ attachments
  <2>1. At(r, "attach") /\ kind = "policy" /\ calls[r] # NoCall /\ calls[r].at \in ChangeSteps
    BY <1>7 DEF Attach, AffectedAreKnown, OnlyPoliciesAttach, At, ChangeSteps
  <2>2. CASE Reply(r) /\ UNCHANGED <<attachments, behind>>
    BY <1>2, <2>2, ReplyType DEF behind, Uncommitted, Typed
  <2>3. CASE /\ attachments' = attachments \union new
             /\ slipped' = IF \E q \in Calls : At(q, "delete") /\ calls[q].id = calls[r].id
                             THEN slipped \union new ELSE slipped
             /\ \E lost \in BOOLEAN : Changed(r, calls[r].drops, lost)
    <3>1. ~At(r, "delete")'
      BY <1>3, <2>1, <2>3 DEF At
    <3>2. ASSUME NEW q \in Calls, At(q, "delete")', NEW u \in Principals,
                 <<calls[q].id, u>> \in attachments'
          PROVE  u \in calls[q].drops \/ <<calls[q].id, u>> \in slipped'
      <4>1. calls'[q] = calls[q] /\ At(q, "delete") /\ Knows(q)
        BY <1>1, <3>1, <3>2 DEF At, AffectedAreKnown, ReadOrSlipped
      <4>2. CASE <<calls[q].id, u>> \in attachments
        BY <2>3, <4>1, <4>2 DEF Knows
      <4>3. CASE <<calls[q].id, u>> \in new
        <5>1. calls[q].id = calls[r].id
          BY <4>3
        <5>2. slipped' = slipped \union new
          BY <2>3, <4>1, <5>1
        <5> QED
          BY <4>3, <5>2
      <4> QED
        BY <2>3, <3>2, <4>2, <4>3
    <3>3. ASSUME NEW q \in Calls, At(q, "delete")'
          PROVE  Knows(q)'
      <4>1. calls'[q] = calls[q]
        BY <1>1, <3>1, <3>3
      <4> QED
        BY <3>2, <3>3, <4>1 DEF Knows
    <3> QED
      BY <1>1, <2>1, <3>3 DEF AffectedAreKnown, ReadOrSlipped, OnlyPoliciesAttach
  <2> QED
    BY <1>7, <2>2, <2>3 DEF Attach
<1>8. CASE Detach(r)
  <2>1. calls[r] # NoCall /\ calls[r].at \in ChangeSteps
    BY <1>8 DEF Detach, At, ChangeSteps
  <2> QED
    BY <1>2, <1>3, <1>8, <2>1, ReplyType DEF Detach, behind, Uncommitted, Typed
<1>9. CASE Drop(r)
  <2>1. /\ calls[r] # NoCall /\ calls[r].at = "drop" /\ calls[r] \in Change
        /\ UNCHANGED <<attachments, slipped>>
    BY <1>9, ChangeAt DEF Drop, Uncommitted, Typed, ChangeSteps, store
  <2>2. CASE Reply(r)
    BY <1>2, <2>1, <2>2, ReplyType DEF Uncommitted, Typed
  <2>3. ASSUME NEW u, calls' = [calls EXCEPT ![r].drops = @ \ {u}]
        PROVE  AffectedAreKnown'
    <3>1. calls'[r].at = "drop"
      BY <2>1, <2>3 DEF Change, Uncommitted, Typed, TypeOK
    <3> QED
      BY <1>2, <2>1, <3>1
  <2> QED
    BY <1>9, <2>2, <2>3 DEF Drop
<1> QED
  BY <1>4, <1>5, <1>6, <1>7, <1>8, <1>9 DEF ChangeStep

LEMMA KnownNext ==
  Uncommitted /\ AffectedAreKnown /\ [Next]_vars => AffectedAreKnown'
<1> SUFFICES ASSUME Uncommitted, AffectedAreKnown, [Next]_vars PROVE AffectedAreKnown'
  OBVIOUS
<1>1. CASE UNCHANGED <<kind, calls, attachments, slipped>>
  BY <1>1 DEF AffectedAreKnown, OnlyPoliciesAttach, ReadOrSlipped, Knows, At
<1>2. CASE \/ UNCHANGED vars
           \/ ListBegin \/ ListPage
           \/ \E u \in Principals : LoadBegin(u) \/ LoadEnd(u) \/ Expire(u)
  BY <1>1, <1>2
  DEF vars, store, caching, behind, ListBegin, ListPage, LoadBegin, LoadEnd, Expire
<1>3. ASSUME NEW r \in Calls,
         \/ \E t \in Tokens \union {NoToken}, c \in Contents : AskCreate(r, t, c)
         \/ \E i \in Ids : AskDelete(r, i)
         \/ \E i \in Ids, u \in Principals : AskAttach(r, i, u) \/ AskDetach(r, i, u)
      PROVE  AffectedAreKnown'
  BY <1>3, AskIsKnown DEF Uncommitted
<1>4. ASSUME NEW r \in Calls, CreateStep(r) \/ Fails(r)
      PROVE  AffectedAreKnown'
  BY <1>4, CreateIsKnown
<1>5. ASSUME NEW r \in Calls, ChangeStep(r)
      PROVE  AffectedAreKnown'
  BY <1>5, ChangeIsKnown
<1> QED
  BY <1>2, <1>3, <1>4, <1>5 DEF Next, Step

LEMMA KnownInit == Init => AffectedAreKnown
BY DEF Init, AffectedAreKnown, OnlyPoliciesAttach, ReadOrSlipped, At

-----------------------------------------------------------------------------
(* The policy cache.                                                        *)

\* The foreign key: what is attached exists.
AttachedExist == \A i \in Ids, u \in Principals : <<i, u>> \in attachments => i \in Rows

\* A load under way that read what is no longer so.
StaleLoadIsAccountedFor ==
  \A u \in Principals :
    load[u] \notin {NotCached, Holding(PoliciesOf(u))} => u \in overtaken

CacheIsAccountedFor == AttachedExist /\ StaleLoadIsAccountedFor /\ StaleIsAccountedFor

LEMMA SamePolicies ==
  ASSUME NEW u \in Principals,
         \A i \in Ids : (i \in Rows' /\ <<i, u>> \in attachments') <=>
                        (i \in Rows /\ <<i, u>> \in attachments),
         \A i \in Ids : i \in Rows /\ <<i, u>> \in attachments => table'[i] = table[i]
  PROVE  PoliciesOf(u)' = PoliciesOf(u)
<1> DEFINE D == {j \in Rows : <<j, u>> \in attachments}
<1>1. Rows \subseteq Ids /\ Rows' \subseteq Ids
  BY DEF Rows
<1>2. {j \in Rows' : <<j, u>> \in attachments'} = D
  BY <1>1
<1>3. \A i \in D : table'[i] = table[i]
  BY <1>1
<1> QED
  BY <1>2, <1>3 DEF PoliciesOf

LEMMA DropsKept ==
  ASSUME NEW r \in Calls, \A q \in Calls \ {r} : calls'[q] = calls[q],
         ~At(r, "drop"), NEW u, Dropping(u)
  PROVE  Dropping(u)'
<1>1. PICK q \in Calls : At(q, "drop") /\ u \in calls[q].drops
  BY DEF Dropping
<1>2. q # r /\ calls'[q] = calls[q]
  BY <1>1
<1> QED
  BY <1>1, <1>2 DEF Dropping, At

\* A step that changes neither the rows nor what the cache knows.
LEMMA CacheUntouched ==
  ASSUME CacheIsAccountedFor, NEW r \in Calls,
         \A q \in Calls \ {r} : calls'[q] = calls[q], ~At(r, "drop"),
         UNCHANGED <<store, caching>>
  PROVE  CacheIsAccountedFor'
<1>1. \A u \in Principals : PoliciesOf(u)' = PoliciesOf(u)
  BY SamePolicies DEF store, Rows
<1>2. AttachedExist'
  BY DEF CacheIsAccountedFor, AttachedExist, store, Rows
<1>3. ASSUME NEW u \in Principals
      PROVE  /\ load'[u] \notin {NotCached, Holding(PoliciesOf(u))'} => u \in overtaken'
             /\ cache'[u] \notin {NotCached, Holding(PoliciesOf(u))'} =>
                  u \in excused' \/ Dropping(u)'
  <2>1. Holding(PoliciesOf(u))' = Holding(PoliciesOf(u))
    BY <1>1 DEF Holding
  <2> QED
    BY <2>1, DropsKept
    DEF CacheIsAccountedFor, StaleLoadIsAccountedFor, StaleIsAccountedFor, caching, behind
<1> QED
  BY <1>2, <1>3 DEF CacheIsAccountedFor, StaleLoadIsAccountedFor, StaleIsAccountedFor

\* A statement that changes what the principals us have.
LEMMA ChangedIsAccountedFor ==
  ASSUME Typed, CacheIsAccountedFor, NEW r \in Calls, calls[r] # NoCall,
         calls[r].at \in ChangeSteps \ {"drop"}, NEW us \in SUBSET Principals,
         NEW lost, Changed(r, us, lost), cache' = cache, load' = load,
         \A u \in us : u \in calls[r].drops \/ <<calls[r].id, u>> \in slipped,
         \A u \in Principals \ us : PoliciesOf(u)' = PoliciesOf(u)
  PROVE  StaleLoadIsAccountedFor' /\ StaleIsAccountedFor'
<1>1. /\ \A q \in Calls \ {r} : calls'[q] = calls[q]
      /\ ~At(r, "drop")
  BY ChangedCall DEF At
<1>2. ASSUME NEW u \in Principals
      PROVE  /\ load'[u] \notin {NotCached, Holding(PoliciesOf(u))'} => u \in overtaken'
             /\ cache'[u] \notin {NotCached, Holding(PoliciesOf(u))'} =>
                  u \in excused' \/ Dropping(u)'
  <2>1. CASE u \notin us
    <3>1. Holding(PoliciesOf(u))' = Holding(PoliciesOf(u))
      BY <2>1 DEF Holding
    <3>2. (u \in overtaken => u \in overtaken') /\ (u \in excused => u \in excused')
      BY DEF Changed
    <3> QED
      BY <1>1, <3>1, <3>2, DropsKept
      DEF CacheIsAccountedFor, StaleLoadIsAccountedFor, StaleIsAccountedFor
  <2>2. CASE u \in us
    <3>1. load'[u] # NotCached => u \in overtaken'
      BY <2>2 DEF Changed
    <3>2. CASE cache[u] = NotCached
      BY <3>1, <3>2
    <3>3. CASE cache[u] # NotCached /\ (lost \/ u \notin calls[r].drops)
      <4>1. u \in excused'
        BY <2>2, <3>3 DEF Changed
      <4> QED
        BY <3>1, <4>1
    <3>4. CASE ~(lost \/ u \notin calls[r].drops)
      <4>1. /\ calls'[r].at = "drop" /\ calls'[r] \in Change
            /\ calls'[r].drops = calls[r].drops
        BY <3>4, ChangedCall
      <4>2. calls'[r] # NoCall
        BY <4>1 DEF Change, NoCall
      <4>3. Dropping(u)'
        BY <3>4, <4>1, <4>2 DEF Dropping, At
      <4> QED
        BY <3>1, <4>3
    <3> QED
      BY <3>2, <3>3, <3>4
  <2> QED
    BY <2>1, <2>2
<1> QED
  BY <1>2 DEF StaleLoadIsAccountedFor, StaleIsAccountedFor

LEMMA CreateIsAccountedFor ==
  ASSUME Uncommitted, CacheIsAccountedFor, NEW r \in Calls, CreateStep(r) \/ Fails(r)
  PROVE  CacheIsAccountedFor'
<1>1. /\ \A q \in Calls \ {r} : calls'[q] = calls[q]
      /\ UNCHANGED <<attachments, caching>>
  BY CreateTakes DEF Uncommitted, caching
<1>2. ~At(r, "drop")
  <2>1. CASE CreateStep(r)
    <3>1. calls[r].op = "create"
      BY <2>1 DEF CreateStep, InsertAccount, InsertKey, InsertPolicy, ClaimToken, Commit,
                  Replay, Creating
    <3> QED
      BY <3>1, CreateFields DEF Uncommitted, Typed, Create, At
  <2>2. CASE Fails(r)
    BY <2>2 DEF Fails, At
  <2> QED
    BY <2>1, <2>2
<1>3. CASE table' = table /\ tokens' = tokens
  BY <1>1, <1>2, <1>3, CacheUntouched DEF store
<1>4. CASE Commit(r)
  <2> DEFINE i == calls[r].id
  <2>1. /\ i \in Ids /\ calls[r].content \in Contents
        /\ table' = [table EXCEPT ![i] = calls[r].content]
    BY <1>4, CreateFields DEF Commit, Creating, Uncommitted, Typed, Drawn, Create
  <2>2. HoldsId(r, i)
    BY <1>4 DEF Commit, Creating, HoldsId
  <2>3. i \notin Rows
    BY <2>1, <2>2 DEF Uncommitted, InsertIsNew
  <2>4. ASSUME NEW j \in Ids, NEW u \in Principals, <<j, u>> \in attachments
        PROVE  j \in Rows /\ j \in Rows' /\ table'[j] = table[j]
    <3>1. j \in Rows /\ j # i
      BY <2>3, <2>4 DEF CacheIsAccountedFor, AttachedExist
    <3> QED
      BY <2>1, <3>1 DEF Uncommitted, Typed, TypeOK, Rows
  <2>5. AttachedExist'
    BY <1>1, <2>4 DEF AttachedExist
  <2>6. ASSUME NEW u \in Principals
        PROVE  /\ load'[u] \notin {NotCached, Holding(PoliciesOf(u))'} => u \in overtaken'
               /\ cache'[u] \notin {NotCached, Holding(PoliciesOf(u))'} =>
                    u \in excused' \/ Dropping(u)'
    <3>1. PoliciesOf(u)' = PoliciesOf(u)
      BY <1>1, <2>4, SamePolicies
    <3>2. Holding(PoliciesOf(u))' = Holding(PoliciesOf(u))
      BY <3>1 DEF Holding
    <3> QED
      BY <1>1, <1>2, <3>2, DropsKept
      DEF CacheIsAccountedFor, StaleLoadIsAccountedFor, StaleIsAccountedFor, caching, behind
  <2> QED
    BY <2>5, <2>6 DEF CacheIsAccountedFor, StaleLoadIsAccountedFor, StaleIsAccountedFor
<1> QED
  BY <1>3, <1>4 DEF CreateStep, InsertAccount, InsertKey, InsertPolicy, ClaimToken, Replay,
                    Fails, store

LEMMA ChangeIsAccountedFor ==
  ASSUME Uncommitted, AffectedAreKnown, CacheIsAccountedFor, NEW r \in Calls, ChangeStep(r)
  PROVE  CacheIsAccountedFor'
<1> DEFINE i == calls[r].id
<1>1. /\ \A q \in Calls \ {r} : calls'[q] = calls[q]
      /\ UNCHANGED <<kind, tokens, load, list, history>>
  BY ChangeTakes DEF Uncommitted
<1>2. ASSUME NEW at \in ChangeSteps, At(r, at)
      PROVE  /\ calls[r] # NoCall /\ calls[r].at = at /\ calls[r] \in Change
             /\ i \in Ids /\ calls[r].drops \in SUBSET Principals
  BY <1>2, ChangeAt DEF Uncommitted, Typed
<1>3. CASE UNCHANGED <<store, caching>> /\ ~At(r, "drop")
  BY <1>1, <1>3, CacheUntouched
<1>4. CASE DeleteReadsAffected(r) \/ AttachLooks(r)
  BY <1>3, <1>4 DEF DeleteReadsAffected, AttachLooks, At
<1>5. CASE DeleteRow(r)
  <2>1. At(r, "delete") /\ UNCHANGED <<kind, cache, load, list, history>>
    BY <1>5 DEF DeleteRow
  <2>2. CASE UNCHANGED <<store, behind>>
    BY <1>3, <2>1, <2>2 DEF At, caching
  <2>3. CASE /\ table' = [table EXCEPT ![i] = NoContent]
             /\ attachments' = attachments \ ({i} \X Principals)
             /\ \E lost \in BOOLEAN : Changed(r, AttachedTo(i), lost)
    <3>1. calls[r] # NoCall /\ calls[r].at = "delete" /\ i \in Ids
      BY <1>2, <2>1 DEF ChangeSteps
    <3>2. AttachedTo(i) \in SUBSET Principals
      BY DEF AttachedTo
    <3>3. ASSUME NEW j \in Ids, NEW u \in Principals
          PROVE  /\ <<j, u>> \in attachments' => <<j, u>> \in attachments /\ j # i
                 /\ <<j, u>> \in attachments /\ j # i => <<j, u>> \in attachments'
                 /\ j # i => table'[j] = table[j]
      BY <2>3 DEF Uncommitted, Typed, TypeOK
    <3>4. AttachedExist'
      BY <3>3 DEF CacheIsAccountedFor, AttachedExist, Rows
    <3>5. ASSUME NEW u \in Principals \ AttachedTo(i)
          PROVE  PoliciesOf(u)' = PoliciesOf(u)
      <4>1. <<i, u>> \notin attachments
        BY <3>5 DEF AttachedTo
      <4> QED
        BY <3>3, <4>1, SamePolicies DEF Rows
    <3>6. \A u \in AttachedTo(i) : u \in calls[r].drops \/ <<i, u>> \in slipped
      BY <2>1 DEF AffectedAreKnown, ReadOrSlipped, Knows, AttachedTo
    <3>7. StaleLoadIsAccountedFor' /\ StaleIsAccountedFor'
      BY <1>1, <2>1, <2>3, <3>1, <3>2, <3>5, <3>6, ChangedIsAccountedFor
      DEF Uncommitted, ChangeSteps
    <3> QED
      BY <3>4, <3>7 DEF CacheIsAccountedFor
  <2> QED
    BY <1>5, <2>2, <2>3 DEF DeleteRow
<1>6. CASE Attach(r)
  <2>1. At(r, "attach") /\ UNCHANGED <<kind, table, tokens, cache, load, list, history>>
    BY <1>6 DEF Attach
  <2>2. CASE UNCHANGED <<attachments, behind>>
    BY <1>3, <2>1, <2>2 DEF At, caching, store
  <2>3. CASE /\ i \in Rows
             /\ attachments' = attachments \union (({i} \X calls[r].drops) \ attachments)
             /\ \E lost \in BOOLEAN : Changed(r, calls[r].drops, lost)
    <3>1. /\ calls[r] # NoCall /\ calls[r].at = "attach" /\ i \in Ids
          /\ calls[r].drops \in SUBSET Principals
      BY <1>2, <2>1 DEF ChangeSteps
    <3>2. ASSUME NEW j \in Ids, NEW u \in Principals
          PROVE  /\ <<j, u>> \in attachments => <<j, u>> \in attachments'
                 /\ <<j, u>> \in attachments' =>
                      <<j, u>> \in attachments \/ (j = i /\ u \in calls[r].drops)
      BY <2>3
    <3>3. AttachedExist'
      BY <2>1, <2>3, <3>2 DEF CacheIsAccountedFor, AttachedExist, Rows
    <3>4. ASSUME NEW u \in Principals \ calls[r].drops
          PROVE  PoliciesOf(u)' = PoliciesOf(u)
      BY <2>1, <3>2, <3>4, SamePolicies DEF Rows
    <3>5. StaleLoadIsAccountedFor' /\ StaleIsAccountedFor'
      BY <1>1, <2>1, <2>3, <3>1, <3>4, ChangedIsAccountedFor
      DEF Uncommitted, ChangeSteps
    <3> QED
      BY <3>3, <3>5 DEF CacheIsAccountedFor
  <2> QED
    BY <1>6, <2>2, <2>3 DEF Attach
<1>7. CASE Detach(r)
  <2>1. At(r, "detach") /\ UNCHANGED <<kind, table, tokens, cache, load, list, history>>
    BY <1>7 DEF Detach
  <2>2. CASE UNCHANGED <<attachments, behind>>
    BY <1>3, <2>1, <2>2 DEF At, caching, store
  <2>3. CASE /\ attachments' = attachments \ ({i} \X calls[r].drops)
             /\ \E lost \in BOOLEAN : Changed(r, calls[r].drops, lost)
    <3>1. /\ calls[r] # NoCall /\ calls[r].at = "detach" /\ i \in Ids
          /\ calls[r].drops \in SUBSET Principals
      BY <1>2, <2>1 DEF ChangeSteps
    <3>2. ASSUME NEW j \in Ids, NEW u \in Principals
          PROVE  /\ <<j, u>> \in attachments' => <<j, u>> \in attachments
                 /\ <<j, u>> \in attachments =>
                      <<j, u>> \in attachments' \/ (j = i /\ u \in calls[r].drops)
      BY <2>3
    <3>3. AttachedExist'
      BY <2>1, <3>2 DEF CacheIsAccountedFor, AttachedExist, Rows
    <3>4. ASSUME NEW u \in Principals \ calls[r].drops
          PROVE  PoliciesOf(u)' = PoliciesOf(u)
      BY <2>1, <3>2, <3>4, SamePolicies DEF Rows
    <3>5. StaleLoadIsAccountedFor' /\ StaleIsAccountedFor'
      BY <1>1, <2>1, <2>3, <3>1, <3>4, ChangedIsAccountedFor
      DEF Uncommitted, ChangeSteps
    <3> QED
      BY <3>3, <3>5 DEF CacheIsAccountedFor
  <2> QED
    BY <1>7, <2>2, <2>3 DEF Detach
<1>8. CASE Drop(r)
  <2>1. At(r, "drop") /\ UNCHANGED <<kind, store, load, slipped, overtaken, list, history>>
    BY <1>8 DEF Drop
  <2>2. AttachedExist' /\ \A u \in Principals : PoliciesOf(u)' = PoliciesOf(u)
    BY <2>1, SamePolicies DEF CacheIsAccountedFor, AttachedExist, Rows, store
  <2>3. \A u \in Principals : Holding(PoliciesOf(u))' = Holding(PoliciesOf(u))
    BY <2>2 DEF Holding
  <2>4. StaleLoadIsAccountedFor'
    BY <2>1, <2>3 DEF CacheIsAccountedFor, StaleLoadIsAccountedFor
  <2>5. CASE calls[r].drops = {} /\ UNCHANGED <<cache, excused>>
    <3>1. ASSUME NEW u \in Principals, Dropping(u)
          PROVE  Dropping(u)'
      <4>1. PICK q \in Calls : At(q, "drop") /\ u \in calls[q].drops
        BY <3>1 DEF Dropping
      <4> QED
        BY <1>1, <2>5, <4>1 DEF Dropping, At
    <3> QED
      BY <2>1, <2>2, <2>3, <2>4, <2>5, <3>1 DEF CacheIsAccountedFor, StaleIsAccountedFor
  <2>6. ASSUME NEW v \in calls[r].drops,
               cache' = [cache EXCEPT ![v] = NotCached], excused' = excused \ {v},
               calls' = [calls EXCEPT ![r].drops = @ \ {v}]
        PROVE  StaleIsAccountedFor'
    <3> DEFINE c == [calls[r] EXCEPT !.drops = @ \ {v}]
    <3>1. calls[r] \in Change /\ v \in Principals
      BY <1>2, <2>1, <2>6 DEF ChangeSteps
    <3>2. c \in Change /\ c.at = calls[r].at /\ c.drops = calls[r].drops \ {v}
      BY <3>1 DEF Change
    <3>3. calls' = [calls EXCEPT ![r] = c]
      BY <2>6 DEF Uncommitted, Typed, TypeOK
    <3>4. calls'[r] = c /\ c # NoCall
      BY <3>2, <3>3, CallType DEF Uncommitted, Typed, Change, NoCall
    <3>5. ASSUME NEW u \in Principals, u # v, Dropping(u)
          PROVE  Dropping(u)'
      <4>1. PICK q \in Calls : At(q, "drop") /\ u \in calls[q].drops
        BY <3>5 DEF Dropping
      <4> QED
        BY <1>1, <3>2, <3>4, <3>5, <4>1 DEF Dropping, At
    <3>6. cache'[v] = NotCached /\ \A u \in Principals \ {v} : cache'[u] = cache[u]
      BY <2>6, <3>1 DEF Uncommitted, Typed, TypeOK
    <3>7. \A u \in Principals \ {v} : u \in excused => u \in excused'
      BY <2>6
    <3> QED
      BY <2>1, <2>3, <3>5, <3>6, <3>7 DEF CacheIsAccountedFor, StaleIsAccountedFor
  <2> QED
    BY <1>8, <2>2, <2>4, <2>5, <2>6 DEF Drop, CacheIsAccountedFor
<1> QED
  BY <1>4, <1>5, <1>6, <1>7, <1>8 DEF ChangeStep

LEMMA LoadIsAccountedFor ==
  ASSUME Typed, CacheIsAccountedFor, NEW u \in Principals,
         LoadBegin(u) \/ LoadEnd(u) \/ Expire(u)
  PROVE  CacheIsAccountedFor'
<1>1. UNCHANGED <<kind, store, calls, list, history>>
  BY DEF LoadBegin, LoadEnd, Expire
<1>2. /\ AttachedExist'
      /\ \A v \in Principals : PoliciesOf(v)' = PoliciesOf(v)
      /\ \A v : Dropping(v)' <=> Dropping(v)
  BY <1>1, SamePolicies DEF CacheIsAccountedFor, AttachedExist, Rows, store, Dropping, At
<1>3. \A v \in Principals : Holding(PoliciesOf(v))' = Holding(PoliciesOf(v))
  BY <1>2 DEF Holding
<1>4. CASE LoadBegin(u)
  <2>1. load' = [load EXCEPT ![u] = Holding(PoliciesOf(u))] /\ UNCHANGED <<cache, behind>>
    BY <1>4 DEF LoadBegin
  <2>2. /\ load'[u] = Holding(PoliciesOf(u))
        /\ \A v \in Principals \ {u} : load'[v] = load[v]
    BY <2>1 DEF Typed, TypeOK
  <2> QED
    BY <1>2, <1>3, <2>1, <2>2
    DEF CacheIsAccountedFor, StaleLoadIsAccountedFor, StaleIsAccountedFor, behind
<1>5. CASE LoadEnd(u)
  <2>1. /\ load' = [load EXCEPT ![u] = NotCached] /\ overtaken' = overtaken \ {u}
        /\ \/ /\ cache' = [cache EXCEPT ![u] = load[u]]
              /\ excused' = IF u \in overtaken THEN excused \union {u} ELSE excused \ {u}
           \/ UNCHANGED <<cache, excused>>
    BY <1>5 DEF LoadEnd
  <2>2. /\ load'[u] = NotCached
        /\ \A v \in Principals \ {u} : load'[v] = load[v] /\ cache'[v] = cache[v]
        /\ \/ cache'[u] = load[u] /\ (u \in overtaken => u \in excused')
           \/ cache'[u] = cache[u] /\ (u \in excused => u \in excused')
    BY <2>1 DEF Typed, TypeOK
  <2>3. \A v \in Principals \ {u} :
          (v \in overtaken => v \in overtaken') /\ (v \in excused => v \in excused')
    BY <2>1
  <2>4. ASSUME NEW v \in Principals
        PROVE  /\ load'[v] \notin {NotCached, Holding(PoliciesOf(v))'} => v \in overtaken'
               /\ cache'[v] \notin {NotCached, Holding(PoliciesOf(v))'} =>
                    v \in excused' \/ Dropping(v)'
    <3>1. CASE v = u
      BY <1>2, <1>3, <2>2, <3>1
      DEF CacheIsAccountedFor, StaleLoadIsAccountedFor, StaleIsAccountedFor
    <3>2. CASE v # u
      BY <1>2, <1>3, <2>2, <2>3, <3>2
      DEF CacheIsAccountedFor, StaleLoadIsAccountedFor, StaleIsAccountedFor
    <3> QED
      BY <3>1, <3>2
  <2> QED
    BY <1>2, <2>4 DEF CacheIsAccountedFor, StaleLoadIsAccountedFor, StaleIsAccountedFor
<1>6. CASE Expire(u)
  <2>1. /\ cache' = [cache EXCEPT ![u] = NotCached] /\ excused' = excused \ {u}
        /\ UNCHANGED <<load, overtaken>>
    BY <1>6 DEF Expire
  <2>2. /\ cache'[u] = NotCached
        /\ \A v \in Principals \ {u} : cache'[v] = cache[v] /\ (v \in excused => v \in excused')
    BY <2>1 DEF Typed, TypeOK
  <2> QED
    BY <1>2, <1>3, <2>1, <2>2
    DEF CacheIsAccountedFor, StaleLoadIsAccountedFor, StaleIsAccountedFor
<1> QED
  BY <1>4, <1>5, <1>6

LEMMA AccountedForNext ==
  Uncommitted /\ AffectedAreKnown /\ CacheIsAccountedFor /\ [Next]_vars => CacheIsAccountedFor'
<1> SUFFICES ASSUME Uncommitted, AffectedAreKnown, CacheIsAccountedFor, [Next]_vars
    PROVE  CacheIsAccountedFor'
  OBVIOUS
<1>1. CASE UNCHANGED <<store, calls, caching>>
  <2>1. AttachedExist' /\ \A u \in Principals : PoliciesOf(u)' = PoliciesOf(u)
    BY <1>1, SamePolicies DEF CacheIsAccountedFor, AttachedExist, Rows, store
  <2>2. \A u \in Principals : Holding(PoliciesOf(u))' = Holding(PoliciesOf(u))
    BY <2>1 DEF Holding
  <2> QED
    BY <1>1, <2>1, <2>2 DEF CacheIsAccountedFor, StaleLoadIsAccountedFor,
       StaleIsAccountedFor, caching, behind, Dropping, At
<1>2. CASE UNCHANGED vars
  BY <1>1, <1>2 DEF vars
<1>3. CASE ListBegin \/ ListPage
  BY <1>1, <1>3 DEF ListBegin, ListPage
<1>4. CASE \E u \in Principals : LoadBegin(u) \/ LoadEnd(u) \/ Expire(u)
  BY <1>4, LoadIsAccountedFor DEF Uncommitted
<1>5. ASSUME NEW r \in Calls,
         \/ \E t \in Tokens \union {NoToken}, c \in Contents : AskCreate(r, t, c)
         \/ \E i \in Ids : AskDelete(r, i)
         \/ \E i \in Ids, u \in Principals : AskAttach(r, i, u) \/ AskDetach(r, i, u)
      PROVE  CacheIsAccountedFor'
  <2>1. \A q \in Calls \ {r} : calls'[q] = calls[q]
    BY <1>5, AskTakes DEF Uncommitted
  <2>2. calls[r] = NoCall /\ UNCHANGED <<store, caching>>
    BY <1>5 DEF AskCreate, AskDelete, AskAttach, AskDetach, AskChange
  <2> QED
    BY <2>1, <2>2, CacheUntouched DEF At
<1>6. ASSUME NEW r \in Calls, CreateStep(r) \/ Fails(r)
      PROVE  CacheIsAccountedFor'
  BY <1>6, CreateIsAccountedFor
<1>7. ASSUME NEW r \in Calls, ChangeStep(r)
      PROVE  CacheIsAccountedFor'
  BY <1>7, ChangeIsAccountedFor
<1> QED
  BY <1>2, <1>3, <1>4, <1>5, <1>6, <1>7 DEF Next, Step

\* What the policy cache holds beyond its time, a handler is about to drop or
\* could not know of, whatever loads overlap and replace each other's entries,
\* for any number of policies, principals and documents.
THEOREM StalenessIsAccountedFor == Spec => []StaleIsAccountedFor
<1>1. Init => CacheIsAccountedFor
  BY DEF Init, CacheIsAccountedFor, AttachedExist, StaleLoadIsAccountedFor, StaleIsAccountedFor
<1>2. CacheIsAccountedFor => StaleIsAccountedFor
  BY DEF CacheIsAccountedFor
<1>3. Spec => []AffectedAreKnown
  BY UncommittedAlways, KnownInit, KnownNext, PTL DEF Spec
<1> QED
  BY UncommittedAlways, AccountedForNext, <1>1, <1>2, <1>3, PTL DEF Spec

-----------------------------------------------------------------------------
(* Directory implements DirectoryService.                                   *)

\* What the refinement mapping makes of the handlers.
shown == [r \in Calls |-> CallOf(kind, calls[r])]

\* The statements of a change are those of the operation it was asked for.
Agrees(c) ==
  c # NoCall =>
    /\ c.at \in {"affected", "delete"} => c.op = "delete"
    /\ c.at \in {"look", "attach"} => c.op = "attach"
    /\ c.at = "detach" => c.op = "detach"
DoesAsAsked == \A r \in Calls : Agrees(calls[r])

LEMMA CallOfIs ==
  ASSUME NEW k, NEW c \in {NoCall} \union Create \union Change
  PROVE  /\ c = NoCall => CallOf(k, c) = NoCall
         /\ c.op = "create" =>
              CallOf(k, c) = [op |-> "create", token |-> c.token, content |-> c.content,
                              id |-> IF k = "policy" THEN c.id ELSE NoId]
         /\ c # NoCall /\ c.op # "create" /\ c.at = "drop" => CallOf(k, c) = [op |-> "done"]
         /\ c # NoCall /\ c.op = "delete" /\ c.at # "drop" =>
              CallOf(k, c) = [op |-> "delete", id |-> c.id]
         /\ c # NoCall /\ c.op \in {"attach", "detach"} /\ c.at # "drop" =>
              CallOf(k, c) = [op |-> c.op, id |-> c.id, who |-> c.drops]
         /\ c # NoCall => CallOf(k, c) # NoCall
<1>1. CASE c = NoCall
  BY <1>1 DEF CallOf, NoCall
<1>2. CASE c \in Create
  <2>1. c.op = "create" /\ c # NoCall
    BY <1>2 DEF Create, NoCall
  <2>2. CallOf(k, c) = [op |-> "create", token |-> c.token, content |-> c.content,
                        id |-> IF k = "policy" THEN c.id ELSE NoId]
    BY <2>1 DEF CallOf
  <2> QED
    BY <2>1, <2>2 DEF NoCall
<1>3. CASE c \in Change
  <2>1. c.op \in {"delete", "attach", "detach"} /\ c # NoCall
    BY <1>3 DEF Change, NoCall
  <2>2. CASE c.at = "drop"
    BY <2>1, <2>2 DEF CallOf, NoCall
  <2>3. CASE c.at # "drop" /\ c.op = "delete"
    BY <2>1, <2>3 DEF CallOf, NoCall
  <2>4. CASE c.at # "drop" /\ c.op \in {"attach", "detach"}
    BY <2>1, <2>4 DEF CallOf, NoCall
  <2> QED
    BY <2>1, <2>2, <2>3, <2>4
<1> QED
  BY <1>1, <1>2, <1>3

LEMMA ShownIs ==
  ASSUME NEW r \in Calls
  PROVE  shown[r] = CallOf(kind, calls[r])
BY DEF shown

\* A step of one call is a step of what is shown of it.
LEMMA OneShows ==
  ASSUME NEW r \in Calls, kind' = kind, \A q \in Calls \ {r} : calls'[q] = calls[q]
  PROVE  shown' = [shown EXCEPT ![r] = CallOf(kind, calls'[r])]
BY DEF shown

\* A step on the way to a change, or a drop after it, is none of the service.
LEMMA Hidden ==
  ASSUME NEW r \in Calls, UNCHANGED <<kind, store, told>>,
         \A q \in Calls \ {r} : calls'[q] = calls[q],
         CallOf(kind, calls'[r]) = CallOf(kind, calls[r])
  PROVE  UNCHANGED Promise!vars
<1>1. shown' = shown
  BY OneShows DEF shown
<1> QED
  BY <1>1 DEF store, shown, Promise!vars

LEMMA Unanswered ==
  ASSUME TypeOK, NEW r \in Calls, calls[r] # NoCall, Reply(r), UNCHANGED <<kind, store, told>>
  PROVE  Promise!End(r)
<1>1. calls'[r] = NoCall /\ \A q \in Calls \ {r} : calls'[q] = calls[q]
  BY ReplyType
<1>2. shown[r] # NoCall /\ CallOf(kind, calls'[r]) = NoCall
  BY <1>1, ShownIs, CallOfIs DEF TypeOK
<1>3. shown' = [shown EXCEPT ![r] = NoCall]
  BY <1>1, <1>2, OneShows
<1> QED
  BY <1>2, <1>3 DEF store, shown, NoCall, Promise!End, Promise!Becomes, Promise!NoCall

LEMMA AskRefines ==
  ASSUME TypeOK, NEW r \in Calls,
         \/ \E t \in Tokens \union {NoToken}, c \in Contents : AskCreate(r, t, c)
         \/ \E i \in Ids : AskDelete(r, i)
         \/ \E i \in Ids, u \in Principals : AskAttach(r, i, u) \/ AskDetach(r, i, u)
  PROVE  Promise!Ask(r)
<1>1. ASSUME NEW x \in Create \union Change, calls[r] = NoCall,
             calls' = [calls EXCEPT ![r] = x],
             CallOf(kind, x) \in Promise!Asked,
             UNCHANGED <<kind, store, told>>
      PROVE  Promise!Ask(r)
  <2>1. calls'[r] = x /\ \A q \in Calls \ {r} : calls'[q] = calls[q]
    BY <1>1, CallType
  <2>2. shown' = [shown EXCEPT ![r] = CallOf(kind, x)]
    BY <1>1, <2>1, OneShows
  <2>3. shown[r] = NoCall
    BY <1>1, ShownIs, CallOfIs
  <2> QED
    BY <1>1, <2>2, <2>3
       DEF store, shown, NoCall, Promise!Ask, Promise!Becomes, Promise!NoCall
<1>2. CASE \E t \in Tokens \union {NoToken}, c \in Contents : AskCreate(r, t, c)
  <2>1. PICK t \in Tokens \union {NoToken}, c \in Contents : AskCreate(r, t, c)
    BY <1>2
  <2>2. PICK i \in IF kind = "policy" THEN Ids ELSE {NoId} :
          calls' = [calls EXCEPT ![r] =
            [op |-> "create", token |-> t, content |-> c, id |-> i, tries |-> 0,
             at |-> IF kind = "policy" /\ t # NoToken THEN "claim" ELSE "insert"]]
    BY <2>1 DEF AskCreate
  <2> DEFINE x == [op |-> "create", token |-> t, content |-> c, id |-> i, tries |-> 0,
                   at |-> IF kind = "policy" /\ t # NoToken THEN "claim" ELSE "insert"]
  <2>3. x \in Create
    BY <2>2, DirectoryAssumption DEF Create
  <2>4. CallOf(kind, x) = [op |-> "create", token |-> t, content |-> c,
                           id |-> IF kind = "policy" THEN i ELSE NoId]
    BY <2>3, CallOfIs
  <2>5. CallOf(kind, x) \in Promise!Asked
    BY <2>2, <2>4 DEF Promise!Asked
  <2>6. calls[r] = NoCall /\ UNCHANGED <<kind, store, told>>
    BY <2>1 DEF AskCreate, history
  <2> QED
    BY <1>1, <2>2, <2>3, <2>5, <2>6
<1>3. ASSUME NEW i \in Ids, NEW ps \in SUBSET Principals,
             NEW op \in {"delete", "attach", "detach"}, NEW at \in ChangeSteps \ {"drop"},
             op = "delete" \/ \E u \in Principals : ps = {u},
             AskChange(r, op, at, i, ps)
      PROVE  Promise!Ask(r)
  <2> DEFINE x == [op |-> op, at |-> at, id |-> i, drops |-> ps]
  <2>1. x \in Change /\ x # NoCall
    BY DEF Change, ChangeSteps, NoCall
  <2>2. /\ op = "delete" => CallOf(kind, x) = [op |-> "delete", id |-> i]
        /\ op # "delete" => CallOf(kind, x) = [op |-> op, id |-> i, who |-> ps]
    BY <2>1, CallOfIs
  <2>3. CallOf(kind, x) \in Promise!Asked
    BY <1>3, <2>2 DEF Promise!Asked
  <2>4. /\ calls[r] = NoCall /\ UNCHANGED <<kind, store, told>>
        /\ calls' = [calls EXCEPT ![r] = x]
    BY <1>3 DEF AskChange, history
  <2> QED
    BY <1>1, <2>1, <2>3, <2>4
<1>4. CASE \E i \in Ids : AskDelete(r, i)
  BY <1>3, <1>4 DEF AskDelete, ChangeSteps
<1>5. CASE \E i \in Ids, u \in Principals : AskAttach(r, i, u) \/ AskDetach(r, i, u)
  BY <1>3, <1>5 DEF AskAttach, AskDetach, ChangeSteps
<1> QED
  BY <1>2, <1>4, <1>5

\* Until it commits, nothing is to be seen of a create.
LEMMA CreateHidden ==
  ASSUME Typed, NEW r \in Calls,
         \/ InsertAccount(r) \/ InsertKey(r) \/ InsertPolicy(r) \/ ClaimToken(r)
  PROVE  Promise!End(r) \/ UNCHANGED Promise!vars
<1> DEFINE q == calls[r]
<1>1. /\ q.op = "create" /\ q \in Create /\ q # NoCall
      /\ UNCHANGED <<kind, store, told>>
  BY CreateFields DEF InsertAccount, InsertKey, InsertPolicy, ClaimToken, Creating, history,
                      NoCall, Typed
<1>2. CASE Reply(r)
  BY <1>1, <1>2, Unanswered DEF Typed
<1>3. ASSUME \A p \in Calls \ {r} : calls'[p] = calls[p],
             calls'[r] \in Create, calls'[r].token = q.token, calls'[r].content = q.content,
             kind = "policy" => calls'[r].id = q.id
      PROVE  UNCHANGED Promise!vars
  <2>1. calls'[r].op = "create"
    BY <1>3 DEF Create
  <2>2. CallOf(kind, calls'[r]) = CallOf(kind, q)
    BY <1>1, <1>3, <2>1, CallOfIs
  <2> QED
    BY <1>1, <1>3, <2>2, Hidden
<1>4. ASSUME NEW at \in CreateSteps, Goto(r, at)
      PROVE  UNCHANGED Promise!vars
  <2> DEFINE c == [q EXCEPT !.at = at]
  <2>1. c \in Create /\ c.token = q.token /\ c.content = q.content /\ c.id = q.id
    BY <1>1 DEF Create, CreateSteps
  <2>2. calls'[r] = c /\ \A p \in Calls \ {r} : calls'[p] = calls[p]
    BY <1>1, <1>4, CreateGoes DEF Typed
  <2> QED
    BY <1>3, <2>1, <2>2
<1>5. ASSUME NEW i \in Ids, kind # "policy",
             calls' = [calls EXCEPT ![r].id = i, ![r].at =
                         IF calls[r].token = NoToken THEN "commit" ELSE "claim"]
      PROVE  UNCHANGED Promise!vars
  <2> DEFINE c == [q EXCEPT !.id = i, !.at = IF q.token = NoToken THEN "commit" ELSE "claim"]
  <2>1. c \in Create /\ c.token = q.token /\ c.content = q.content
    BY <1>1 DEF Create
  <2>2. calls' = [calls EXCEPT ![r] = c]
    BY <1>5 DEF Typed, TypeOK
  <2>3. calls'[r] = c /\ \A p \in Calls \ {r} : calls'[p] = calls[p]
    BY <2>1, <2>2, CallType DEF Typed
  <2> QED
    BY <1>3, <1>5, <2>1, <2>3
<1>6. ASSUME kind # "policy", q.tries + 1 # MaxTries, calls' = [calls EXCEPT ![r].tries = @ + 1]
      PROVE  UNCHANGED Promise!vars
  <2> DEFINE c == [q EXCEPT !.tries = @ + 1]
  <2>1. q.tries + 1 \in 0 .. MaxTries - 1
    BY <1>1, <1>6, DirectoryAssumption DEF Create
  <2>2. c \in Create /\ c.token = q.token /\ c.content = q.content
    BY <1>1, <2>1 DEF Create
  <2>3. calls' = [calls EXCEPT ![r] = c]
    BY <1>6 DEF Typed, TypeOK
  <2>4. calls'[r] = c /\ \A p \in Calls \ {r} : calls'[p] = calls[p]
    BY <2>2, <2>3, CallType DEF Typed
  <2> QED
    BY <1>3, <1>6, <2>2, <2>4
<1>7. CASE InsertAccount(r)
  <2>1. kind # "policy"
    BY <1>7 DEF InsertAccount
  <2> QED
    BY <1>2, <1>5, <1>6, <1>7, <2>1 DEF InsertAccount
<1>8. CASE InsertKey(r)
  <2>1. kind # "policy"
    BY <1>8 DEF InsertKey
  <2> QED
    BY <1>2, <1>5, <1>8, <2>1 DEF InsertKey
<1>9. CASE InsertPolicy(r) \/ ClaimToken(r)
  <2>1. Reply(r) \/ \E at \in CreateSteps : Goto(r, at)
    BY <1>9 DEF InsertPolicy, ClaimToken, CreateSteps
  <2> QED
    BY <1>2, <1>4, <2>1
<1> QED
  BY <1>7, <1>8, <1>9

\* A commit makes the row and its token, for neither was there.
LEMMA CommitRefines ==
  ASSUME Uncommitted, NEW r \in Calls, Commit(r)
  PROVE  Promise!Make(r)
<1> DEFINE t == calls[r].token  i == calls[r].id
<1>1. /\ calls[r] \in Create /\ calls[r].op = "create" /\ calls[r].at = "commit"
      /\ i \in Ids /\ t \in Tokens \union {NoToken}
  BY CreateFields DEF Uncommitted, Typed, Drawn, Commit, Creating, Create
<1>2. shown[r] = [op |-> "create", token |-> t, content |-> calls[r].content,
                  id |-> IF kind = "policy" THEN i ELSE NoId]
  BY <1>1, ShownIs, CallOfIs
<1>3. /\ shown[r].op = "create" /\ shown[r].token = t
      /\ shown[r].content = calls[r].content /\ shown[r].id \in {NoId, i}
  BY <1>2
<1>4. table[i] = NoContent
  BY <1>1 DEF Uncommitted, InsertIsNew, HoldsId, Rows
<1>5. t # NoToken => tokens[t] = NoId
  BY <1>1 DEF Uncommitted, TokenIsNew, HoldsToken
<1>6. /\ calls'[r] = NoCall /\ \A q \in Calls \ {r} : calls'[q] = calls[q]
      /\ kind' = kind
  BY ReplyType DEF Commit, Uncommitted, Typed
<1>7. shown' = [shown EXCEPT ![r] = NoCall]
  BY <1>6, OneShows, CallOfIs
<1>8. /\ table' = [table EXCEPT ![i] = shown[r].content]
      /\ UNCHANGED attachments
      /\ t = NoToken => UNCHANGED <<tokens, told>>
      /\ t # NoToken => /\ tokens' = [tokens EXCEPT ![t] = i]
                        /\ told' \in {told, [told EXCEPT ![t] = @ \union {i}]}
  BY <1>3 DEF Commit, Tell
<1> QED
  BY <1>1, <1>3, <1>4, <1>5, <1>7, <1>8
     DEF shown, NoCall, Promise!Make, Promise!Becomes, Promise!NoCall

LEMMA ReplayRefines ==
  ASSUME Typed, NEW r \in Calls, Replay(r)
  PROVE  Promise!Repeat(r) \/ Promise!End(r)
<1> DEFINE t == calls[r].token
<1>1. /\ calls[r] \in Create /\ calls[r].op = "create" /\ calls[r] # NoCall
      /\ t \in Tokens /\ t # NoToken
      /\ UNCHANGED <<kind, store>> /\ Reply(r)
  BY CreateFields, DirectoryAssumption DEF Typed, Asked, Replay, Creating, NoCall
<1>2. CASE tokens[t] \notin Rows
  BY <1>1, <1>2, Unanswered DEF Replay, Typed
<1>3. CASE tokens[t] \in Rows
  <2>1. /\ told' = [told EXCEPT ![t] = @ \union {tokens[t]}]
        /\ tokens[t] # NoId /\ table[tokens[t]] # NoContent
    BY <1>1, <1>3, Constants DEF Replay, Tell, Rows
  <2>2. shown[r].op = "create" /\ shown[r].token = t
    BY <1>1, ShownIs, CallOfIs
  <2>3. calls'[r] = NoCall /\ \A q \in Calls \ {r} : calls'[q] = calls[q]
    BY <1>1, ReplyType DEF Typed
  <2>4. shown' = [shown EXCEPT ![r] = NoCall]
    BY <1>1, <2>3, OneShows, CallOfIs
  <2> QED
    BY <1>1, <2>1, <2>2, <2>4
       DEF store, shown, NoCall, Promise!Repeat, Promise!Becomes, Promise!NoCall
<1> QED
  BY <1>2, <1>3

LEMMA CreatesAgree ==
  \A c \in {NoCall} \union Create : Agrees(c)
BY DEF Agrees, Create

LEMMA DropsAgree ==
  \A c \in Change : c.at = "drop" => Agrees(c)
BY DEF Agrees, Change

LEMMA AgreesNext == Typed /\ DoesAsAsked /\ [Next]_vars => DoesAsAsked'
<1> SUFFICES ASSUME Typed, DoesAsAsked, [Next]_vars PROVE DoesAsAsked'
  OBVIOUS
<1>1. CASE UNCHANGED calls
  BY <1>1 DEF DoesAsAsked
<1>2. CASE UNCHANGED vars \/ ListBegin \/ ListPage
           \/ \E u \in Principals : LoadBegin(u) \/ LoadEnd(u) \/ Expire(u)
  BY <1>1, <1>2 DEF vars, ListBegin, ListPage, LoadBegin, LoadEnd, Expire
<1>3. ASSUME NEW r \in Calls, \A q \in Calls \ {r} : calls'[q] = calls[q], Agrees(calls'[r])
      PROVE  DoesAsAsked'
  BY <1>3 DEF DoesAsAsked
<1>4. ASSUME NEW r \in Calls, NEW t \in Tokens \union {NoToken}, NEW c \in Contents,
             AskCreate(r, t, c)
      PROVE  DoesAsAsked'
  <2>1. calls' \in [Calls -> {NoCall} \union Create \union Change]
    BY <1>4, TypedNext DEF Next, Typed, TypeOK
  <2>2. calls'[r].op = "create" /\ \A q \in Calls \ {r} : calls'[q] = calls[q]
    BY <1>4 DEF AskCreate, Typed, TypeOK
  <2>3. calls'[r] \in Create
    BY <2>1, <2>2 DEF NoCall, Change
  <2> QED
    BY <1>3, <2>2, <2>3, CreatesAgree
<1>5. ASSUME NEW r \in Calls, NEW i \in Ids, NEW ps, NEW op, NEW at, AskChange(r, op, at, i, ps),
             <<op, at>> \in {<<"delete", "delete">>, <<"delete", "affected">>,
                             <<"attach", "look">>, <<"detach", "detach">>}
      PROVE  DoesAsAsked'
  <2> DEFINE x == [op |-> op, at |-> at, id |-> i, drops |-> ps]
  <2>1. calls'[r] = x /\ \A q \in Calls \ {r} : calls'[q] = calls[q]
    BY <1>5 DEF AskChange, Typed, TypeOK
  <2>2. Agrees(x)
    BY <1>5 DEF Agrees
  <2> QED
    BY <1>3, <2>1, <2>2
<1>6. ASSUME NEW r \in Calls,
             \/ \E i \in Ids : AskDelete(r, i)
             \/ \E i \in Ids, u \in Principals : AskAttach(r, i, u) \/ AskDetach(r, i, u)
      PROVE  DoesAsAsked'
  BY <1>5, <1>6 DEF AskDelete, AskAttach, AskDetach
<1>7. ASSUME NEW r \in Calls, Reply(r)
      PROVE  DoesAsAsked'
  BY <1>3, <1>7, ReplyType, CreatesAgree DEF Typed
<1>8. ASSUME NEW r \in Calls, CreateStep(r) \/ Fails(r)
      PROVE  DoesAsAsked'
  <2>1. CASE Reply(r)
    BY <1>7, <2>1
  <2>2. CASE calls[r].op = "create" /\ \E at \in CreateSteps : Goto(r, at)
    <3>1. PICK at \in CreateSteps : Goto(r, at)
      BY <2>2
    <3>2. /\ calls'[r] = [calls[r] EXCEPT !.at = at] /\ calls[r] \in Create
          /\ \A q \in Calls \ {r} : calls'[q] = calls[q]
      BY <2>2, <3>1, CreateGoes, CreateFields DEF Typed
    <3>3. calls'[r] \in Create
      BY <3>2 DEF Create, CreateSteps
    <3> QED
      BY <1>3, <3>2, <3>3, CreatesAgree
  <2>3. CASE InsertAccount(r) \/ InsertKey(r)
    <3>1. Creating(r, "insert") /\ calls[r] \in Create
      BY <2>3, CreateFields DEF InsertAccount, InsertKey, Creating, Typed
    <3>2. ASSUME NEW i \in Ids,
                 calls' = [calls EXCEPT ![r].id = i, ![r].at =
                             IF calls[r].token = NoToken THEN "commit" ELSE "claim"]
          PROVE  DoesAsAsked'
      <4> DEFINE c == [calls[r] EXCEPT !.id = i,
                         !.at = IF calls[r].token = NoToken THEN "commit" ELSE "claim"]
      <4>1. c \in Create
        BY <3>1 DEF Create
      <4>2. calls' = [calls EXCEPT ![r] = c]
        BY <3>2 DEF Typed, TypeOK
      <4> QED
        BY <1>3, <4>1, <4>2, CallType, CreatesAgree DEF Typed
    <3>3. ASSUME calls[r].tries + 1 # MaxTries, calls' = [calls EXCEPT ![r].tries = @ + 1]
          PROVE  DoesAsAsked'
      <4> DEFINE c == [calls[r] EXCEPT !.tries = @ + 1]
      <4>1. calls[r].tries + 1 \in 0 .. MaxTries - 1
        BY <3>1, <3>3, DirectoryAssumption DEF Create
      <4>2. c \in Create
        BY <3>1, <4>1 DEF Create
      <4>3. calls' = [calls EXCEPT ![r] = c]
        BY <3>3 DEF Typed, TypeOK
      <4> QED
        BY <1>3, <4>2, <4>3, CallType, CreatesAgree DEF Typed
    <3> QED
      BY <2>1, <2>3, <3>2, <3>3 DEF InsertAccount, InsertKey
  <2> QED
    BY <1>8, <2>1, <2>2, <2>3
       DEF CreateStep, InsertPolicy, ClaimToken, Commit, Replay, Fails, Creating, CreateSteps
<1>9. ASSUME NEW r \in Calls, ChangeStep(r)
      PROVE  DoesAsAsked'
  <2>1. CASE Reply(r)
    BY <1>7, <2>1
  <2>2. CASE DeleteReadsAffected(r)
    <3> DEFINE c == [calls[r] EXCEPT !.drops = AttachedTo(calls[r].id), !.at = "delete"]
    <3>1. /\ calls[r] \in Change /\ calls[r] # NoCall /\ calls[r].at = "affected"
          /\ Agrees(calls[r])
      BY <2>2, ChangeAt DEF DeleteReadsAffected, ChangeSteps, Typed, DoesAsAsked
    <3>2. c \in Change /\ c.op = "delete" /\ c.at = "delete"
      BY <3>1 DEF Change, AttachedTo, Agrees
    <3>3. calls' = [calls EXCEPT ![r] = c]
      BY <2>2 DEF DeleteReadsAffected, Typed, TypeOK
    <3>4. calls'[r] = c /\ \A q \in Calls \ {r} : calls'[q] = calls[q]
      BY <3>2, <3>3, CallType DEF Typed
    <3>5. Agrees(c)
      BY <3>2 DEF Agrees
    <3> QED
      BY <1>3, <3>4, <3>5
  <2>3. CASE AttachLooks(r) /\ Goto(r, "attach")
    <3>1. /\ calls[r] # NoCall /\ calls[r].at = "look" /\ Agrees(calls[r])
      BY <2>3 DEF AttachLooks, At, DoesAsAsked
    <3>2. /\ calls'[r].op = calls[r].op /\ calls'[r].at = "attach"
          /\ \A q \in Calls \ {r} : calls'[q] = calls[q]
      BY <2>3, <3>1, ChangeGoes DEF ChangeSteps, Typed
    <3>3. Agrees(calls'[r])
      BY <3>1, <3>2 DEF Agrees
    <3> QED
      BY <1>3, <3>2, <3>3
  <2>4. ASSUME NEW us, NEW lost, NEW at \in ChangeSteps, At(r, at), Changed(r, us, lost)
        PROVE  DoesAsAsked'
    <3>1. /\ \A q \in Calls \ {r} : calls'[q] = calls[q]
          /\ calls'[r] = NoCall \/ (calls'[r] \in Change /\ calls'[r].at = "drop")
      BY <2>4, ChangedCall DEF At
    <3> QED
      BY <1>3, <3>1, CreatesAgree, DropsAgree
  <2>5. CASE Drop(r)
    <3>1. calls[r] \in Change /\ calls[r].at = "drop"
      BY <2>5, ChangeAt DEF Drop, ChangeSteps, Typed
    <3>2. ASSUME NEW u \in Principals, calls' = [calls EXCEPT ![r].drops = @ \ {u}]
          PROVE  DoesAsAsked'
      <4> DEFINE c == [calls[r] EXCEPT !.drops = @ \ {u}]
      <4>1. c \in Change /\ c.at = "drop"
        BY <3>1 DEF Change
      <4>2. calls' = [calls EXCEPT ![r] = c]
        BY <3>2 DEF Typed, TypeOK
      <4> QED
        BY <1>3, <4>1, <4>2, CallType, DropsAgree DEF Typed
    <3> QED
      BY <2>1, <2>5, <3>1, <3>2 DEF Drop, Change
  <2>6. CASE DeleteRow(r) \/ Attach(r) \/ Detach(r)
    BY <2>1, <2>4, <2>6 DEF DeleteRow, Attach, Detach, ChangeSteps
  <2> QED
    BY <1>9, <2>1, <2>2, <2>3, <2>5, <2>6 DEF ChangeStep, AttachLooks
<1> QED
  BY <1>2, <1>4, <1>6, <1>8, <1>9 DEF Next, Step

\* A statement that has committed ends the call, or leaves it its callbacks.
LEMMA ChangedShows ==
  ASSUME Typed, NEW r \in Calls, calls[r] # NoCall, calls[r].at \in ChangeSteps,
         NEW us, NEW lost, Changed(r, us, lost), kind' = kind
  PROVE  Promise!Becomes(r, Promise!Done) \/ Promise!Becomes(r, Promise!NoCall)
<1>1. /\ \A q \in Calls \ {r} : calls'[q] = calls[q]
      /\ calls'[r] = NoCall \/ (calls'[r] \in Change /\ calls'[r].at = "drop")
  BY ChangedCall
<1>2. CallOf(kind, calls'[r]) \in {[op |-> "done"], NoCall}
  <2>1. CASE calls'[r] = NoCall
    BY <2>1, CallOfIs
  <2>2. CASE calls'[r] \in Change /\ calls'[r].at = "drop"
    <3>1. calls'[r].op # "create" /\ calls'[r] # NoCall
      BY <2>2 DEF Change, NoCall
    <3> QED
      BY <2>2, <3>1, CallOfIs
  <2> QED
    BY <1>1, <2>1, <2>2
<1>3. \/ shown' = [shown EXCEPT ![r] = [op |-> "done"]]
      \/ shown' = [shown EXCEPT ![r] = NoCall]
  BY <1>1, <1>2, OneShows
<1> QED
  BY <1>3 DEF shown, NoCall, Promise!Becomes, Promise!Done, Promise!NoCall

LEMMA ChangeRefines ==
  ASSUME Typed, DoesAsAsked, NEW r \in Calls, ChangeStep(r)
  PROVE  \/ Promise!Delete(r) \/ Promise!Attach(r) \/ Promise!Detach(r) \/ Promise!End(r)
         \/ UNCHANGED Promise!vars
<1> DEFINE q == calls[r]
<1>1. ASSUME NEW at \in ChangeSteps, At(r, at)
      PROVE  /\ q # NoCall /\ q.at = at /\ q \in Change /\ q.op # "create" /\ Agrees(q)
             /\ shown[r] = CallOf(kind, q)
  BY <1>1, ChangeAt, ShownIs DEF Typed, DoesAsAsked
<1>2. ASSUME q # NoCall, Reply(r), UNCHANGED <<kind, store, told>>
      PROVE  Promise!End(r)
  BY <1>2, Unanswered DEF Typed
<1>3. CASE DeleteReadsAffected(r)
  <2> DEFINE c == [q EXCEPT !.drops = AttachedTo(q.id), !.at = "delete"]
  <2>1. q # NoCall /\ q.at = "affected" /\ q \in Change /\ q.op = "delete"
    BY <1>1, <1>3 DEF DeleteReadsAffected, ChangeSteps, Agrees
  <2>2. c \in Change /\ c.op = "delete" /\ c.at = "delete" /\ c.id = q.id /\ c # NoCall
    BY <2>1 DEF Change, AttachedTo, NoCall
  <2>3. calls' = [calls EXCEPT ![r] = c]
    BY <1>3 DEF DeleteReadsAffected, Typed, TypeOK
  <2>4. calls'[r] = c /\ \A p \in Calls \ {r} : calls'[p] = calls[p]
    BY <2>2, <2>3, CallType DEF Typed
  <2>5. CallOf(kind, c) = CallOf(kind, q)
    <3> HIDE DEF c, q
    <3> QED
      BY <2>1, <2>2, CallOfIs
  <2>6. UNCHANGED <<kind, store, told>>
    BY <1>3 DEF DeleteReadsAffected, history
  <2> QED
    BY <2>4, <2>5, <2>6, Hidden
<1>4. CASE AttachLooks(r)
  <2>1. q # NoCall /\ q.at = "look" /\ q \in Change /\ q.op = "attach"
    BY <1>1, <1>4 DEF AttachLooks, ChangeSteps, Agrees
  <2>2. UNCHANGED <<kind, store, told>>
    BY <1>4 DEF AttachLooks, history
  <2>3. CASE Reply(r)
    BY <1>2, <2>1, <2>2, <2>3
  <2>4. CASE Goto(r, "attach")
    <3>1. /\ calls'[r] \in Change /\ calls'[r].op = "attach" /\ calls'[r].at = "attach"
          /\ calls'[r].id = q.id /\ calls'[r].drops = q.drops
          /\ \A p \in Calls \ {r} : calls'[p] = calls[p]
      BY <2>1, <2>4, ChangeGoes DEF ChangeSteps, Typed
    <3>2. calls'[r] # NoCall
      BY <3>1 DEF Change, NoCall
    <3>3. CallOf(kind, calls'[r]) = CallOf(kind, q)
      BY <2>1, <3>1, <3>2, CallOfIs
    <3> QED
      BY <2>2, <3>1, <3>3, Hidden
  <2> QED
    BY <1>4, <2>3, <2>4 DEF AttachLooks
<1>5. CASE Drop(r)
  <2>1. q # NoCall /\ q.at = "drop" /\ q \in Change /\ q.op # "create"
    BY <1>1, <1>5 DEF Drop, ChangeSteps
  <2>2. UNCHANGED <<kind, store, told>>
    BY <1>5 DEF Drop, history
  <2>3. CASE Reply(r)
    BY <1>2, <2>1, <2>2, <2>3
  <2>4. ASSUME NEW u \in Principals, calls' = [calls EXCEPT ![r].drops = @ \ {u}]
        PROVE  UNCHANGED Promise!vars
    <3> DEFINE c == [q EXCEPT !.drops = @ \ {u}]
    <3>1. c \in Change /\ c.at = "drop" /\ c.op # "create" /\ c # NoCall
      BY <2>1 DEF Change, NoCall
    <3>2. calls' = [calls EXCEPT ![r] = c]
      BY <2>4 DEF Typed, TypeOK
    <3>3. calls'[r] = c /\ \A p \in Calls \ {r} : calls'[p] = calls[p]
      BY <3>1, <3>2, CallType DEF Typed
    <3>4. CallOf(kind, c) = CallOf(kind, q)
      <4> HIDE DEF c, q
      <4> QED
        BY <2>1, <3>1, CallOfIs
    <3> QED
      BY <2>2, <3>3, <3>4, Hidden
  <2> QED
    BY <1>5, <2>1, <2>3, <2>4 DEF Drop, Change
<1>6. CASE DeleteRow(r)
  <2>1. /\ q # NoCall /\ q.at = "delete" /\ q \in Change /\ q.op = "delete"
        /\ shown[r] = CallOf(kind, q)
    BY <1>1, <1>6 DEF DeleteRow, ChangeSteps, Agrees
  <2>2. shown[r].op = "delete" /\ shown[r].id = q.id /\ q.id \in Ids
    BY <2>1, CallOfIs DEF Change
  <2>3. UNCHANGED <<kind, told>>
    BY <1>6 DEF DeleteRow, history
  <2>4. CASE q.id \notin Rows
    BY <1>2, <1>6, <2>1, <2>3, <2>4 DEF DeleteRow
  <2>5. CASE q.id \in Rows
    <3>1. /\ table' = [table EXCEPT ![q.id] = NoContent]
          /\ attachments' = attachments \ ({q.id} \X Principals)
          /\ tokens' = tokens /\ table[q.id] # NoContent
      BY <1>6, <2>5 DEF DeleteRow, Rows
    <3>2. \E lost \in BOOLEAN : Changed(r, AttachedTo(q.id), lost)
      BY <1>6, <2>5 DEF DeleteRow
    <3>3. Promise!Becomes(r, Promise!Done) \/ Promise!Becomes(r, Promise!NoCall)
      BY <2>1, <2>3, <3>2, ChangedShows DEF ChangeSteps
    <3> QED
      BY <2>2, <2>3, <3>1, <3>3 DEF shown, Promise!Delete, Promise!Change
  <2> QED
    BY <2>4, <2>5
<1>7. CASE Attach(r)
  <2>1. /\ q # NoCall /\ q.at = "attach" /\ q \in Change /\ q.op = "attach"
        /\ shown[r] = CallOf(kind, q)
    BY <1>1, <1>7 DEF Attach, ChangeSteps, Agrees
  <2>2. shown[r].op = "attach" /\ shown[r].id = q.id /\ shown[r].who = q.drops /\ q.id \in Ids
    BY <2>1, CallOfIs DEF Change
  <2>3. UNCHANGED <<kind, table, tokens, told>>
    BY <1>7 DEF Attach, history
  <2>4. CASE q.id \notin Rows
    BY <1>2, <1>7, <2>1, <2>3, <2>4 DEF Attach, store
  <2>5. CASE q.id \in Rows
    <3>1. attachments' = attachments \union ({q.id} \X q.drops) /\ table[q.id] # NoContent
      BY <1>7, <2>5 DEF Attach, Rows
    <3>2. \E lost \in BOOLEAN : Changed(r, q.drops, lost)
      BY <1>7, <2>5 DEF Attach
    <3>3. Promise!Becomes(r, Promise!Done) \/ Promise!Becomes(r, Promise!NoCall)
      BY <2>1, <2>3, <3>2, ChangedShows DEF ChangeSteps
    <3> QED
      BY <2>2, <2>3, <3>1, <3>3 DEF shown, Promise!Attach, Promise!Change, Promise!Pairs
  <2> QED
    BY <2>4, <2>5
<1>8. CASE Detach(r)
  <2>1. /\ q # NoCall /\ q.at = "detach" /\ q \in Change /\ q.op = "detach"
        /\ shown[r] = CallOf(kind, q)
    BY <1>1, <1>8 DEF Detach, ChangeSteps, Agrees
  <2>2. shown[r].op = "detach" /\ shown[r].id = q.id /\ shown[r].who = q.drops
    BY <2>1, CallOfIs
  <2>3. UNCHANGED <<kind, table, tokens, told>>
    BY <1>8 DEF Detach, history
  <2> DEFINE gone == {q.id} \X q.drops
  <2>4. CASE gone \cap attachments = {}
    BY <1>2, <1>8, <2>1, <2>3, <2>4 DEF Detach, store
  <2>5. CASE gone \cap attachments # {}
    <3>1. attachments' = attachments \ gone
      BY <1>8, <2>5 DEF Detach
    <3>2. \E lost \in BOOLEAN : Changed(r, q.drops, lost)
      BY <1>8, <2>5 DEF Detach
    <3>3. Promise!Becomes(r, Promise!Done) \/ Promise!Becomes(r, Promise!NoCall)
      BY <2>1, <2>3, <3>2, ChangedShows DEF ChangeSteps
    <3> QED
      BY <2>2, <2>3, <2>5, <3>1, <3>3
         DEF shown, Promise!Detach, Promise!Change, Promise!Pairs
  <2> QED
    BY <2>4, <2>5
<1> QED
  BY <1>3, <1>4, <1>5, <1>6, <1>7, <1>8 DEF ChangeStep

LEMMA DirectoryRefines ==
  Uncommitted /\ DoesAsAsked /\ [Next]_vars => [Promise!Next]_(Promise!vars)
<1> SUFFICES ASSUME Uncommitted, DoesAsAsked, [Next]_vars
             PROVE  Promise!Next \/ UNCHANGED Promise!vars
  OBVIOUS
<1> USE DEF Uncommitted
<1>1. CASE UNCHANGED <<kind, store, told, calls>>
  BY <1>1 DEF store, Promise!vars
<1>2. CASE UNCHANGED vars \/ ListBegin \/ ListPage
           \/ \E u \in Principals : LoadBegin(u) \/ LoadEnd(u) \/ Expire(u)
  BY <1>1, <1>2 DEF vars, ListBegin, ListPage, LoadBegin, LoadEnd, Expire, history
<1>3. ASSUME NEW r \in Calls,
         \/ \E t \in Tokens \union {NoToken}, c \in Contents : AskCreate(r, t, c)
         \/ \E i \in Ids : AskDelete(r, i)
         \/ \E i \in Ids, u \in Principals : AskAttach(r, i, u) \/ AskDetach(r, i, u)
      PROVE  Promise!Next
  BY <1>3, AskRefines DEF Typed, Promise!Next
<1>4. ASSUME NEW r \in Calls, CreateStep(r) \/ Fails(r)
      PROVE  Promise!Next \/ UNCHANGED Promise!vars
  <2>1. CASE InsertAccount(r) \/ InsertKey(r) \/ InsertPolicy(r) \/ ClaimToken(r)
    BY <2>1, CreateHidden DEF Promise!Next
  <2>2. CASE Commit(r)
    BY <2>2, CommitRefines DEF Promise!Next
  <2>3. CASE Replay(r)
    BY <2>3, ReplayRefines DEF Promise!Next
  <2>4. CASE Fails(r)
    <3>1. calls[r] # NoCall /\ Reply(r) /\ UNCHANGED <<kind, store, told>>
      BY <2>4 DEF Fails, history
    <3> QED
      BY <3>1, Unanswered DEF Typed, Promise!Next
  <2> QED
    BY <1>4, <2>1, <2>2, <2>3, <2>4 DEF CreateStep
<1>5. ASSUME NEW r \in Calls, ChangeStep(r)
      PROVE  Promise!Next \/ UNCHANGED Promise!vars
  BY <1>5, ChangeRefines DEF Promise!Next
<1> QED
  BY <1>2, <1>3, <1>4, <1>5 DEF Next, Step

LEMMA DirectoryInit == Init => Promise!Init /\ DoesAsAsked
<1> SUFFICES ASSUME Init
             PROVE  Promise!Init /\ DoesAsAsked
  OBVIOUS
<1>1. \A r \in Calls : calls[r] = NoCall
  BY DEF Init
<1>2. shown = [r \in Calls |-> NoCall]
  BY <1>1, CallOfIs DEF shown
<1> QED
  BY <1>1, <1>2, CreatesAgree DEF Init, DoesAsAsked, shown, NoCall, Promise!Init, Promise!NoCall

\* Every step of the handlers and their transactions is a step of the service
\* their callers were promised, or none (ImplementsDirectoryService): a create
\* takes effect where it commits, with its token and once; a delete, an attach
\* and a detach where their one statement does (accounts.go:65-67, 124-127,
\* server.go:95-99, 132-136, 209-211).
THEOREM DirectoryImplementsDirectoryService == Spec => ImplementsDirectoryService
BY UncommittedInit, UncommittedNext, AgreesNext, DirectoryInit, DirectoryRefines, PTL
   DEF Spec, Promise!Spec, ImplementsDirectoryService, Uncommitted
=============================================================================
