-------------------------- MODULE DirectoryService --------------------------
(***************************************************************************)
(* What the control plane's tables promise those who call it: each create, *)
(* delete, attach and detach takes effect in one step between its call and *)
(* its answer, if it does, and a token makes one row at most, however      *)
(* often and from however many places it is sent.  No transactions, no ids *)
(* drawn in vain, no locks.  Module Directory implements this.             *)
(*                                                                         *)
(* The promises are those of internal/control/accounts.go and keys.go, and *)
(* of internal/iam/server.go.                                              *)
(***************************************************************************)
CONSTANTS
  Id, NoId,
  Content, NoContent,
  Token, NoToken,
  Principal,
  Call       \* calls in flight

VARIABLES
  table,        \* table[i]: what was created under that id, if it is there
  tokens,       \* tokens[t]: the id of the row that token t made, if any
  attachments,  \* which row is attached to which principal
  told,         \* told[t]: the ids given in answer to token t
  calls         \* calls[r]: what was asked for and is not done yet

vars == <<table, tokens, attachments, told, calls>>

NoCall == [op |-> "none"]
Done == [op |-> "done"]

\* The caller chooses a policy's id, and no other.
Asked ==
  [op : {"create"}, token : Token \union {NoToken}, content : Content,
   id : Id \union {NoId}]
  \union [op : {"delete"}, id : Id]
  \union [op : {"attach", "detach"}, id : Id, who : {{u} : u \in Principal}]

Init ==
  /\ table = [i \in Id |-> NoContent]
  /\ tokens = [t \in Token |-> NoId]
  /\ attachments = {}
  /\ told = [t \in Token |-> {}]
  /\ calls = [r \in Call |-> NoCall]

Becomes(r, c) == calls' = [calls EXCEPT ![r] = c]

-----------------------------------------------------------------------------
Ask(r) ==
  /\ calls[r] = NoCall
  /\ \E c \in Asked : Becomes(r, c)
  /\ UNCHANGED <<table, tokens, attachments, told>>

\* A row and its token, or nothing at all, and never over another row.
Make(r) ==
  /\ calls[r].op = "create"
  /\ \E i \in Id :
       /\ calls[r].id \in {NoId, i}
       /\ table[i] = NoContent
       /\ table' = [table EXCEPT ![i] = calls[r].content]
       /\ \/ calls[r].token = NoToken /\ UNCHANGED <<tokens, told>>
          \/ /\ calls[r].token # NoToken
             /\ tokens[calls[r].token] = NoId
             /\ tokens' = [tokens EXCEPT ![calls[r].token] = i]
             /\ told' \in {told, [told EXCEPT ![calls[r].token] = @ \union {i}]}
  /\ Becomes(r, NoCall)
  /\ UNCHANGED attachments

\* A token that has made a row is answered with that row.
Repeat(r) ==
  /\ calls[r].op = "create" /\ calls[r].token # NoToken
  /\ LET i == tokens[calls[r].token] IN
       /\ i # NoId /\ table[i] # NoContent
       /\ told' = [told EXCEPT ![calls[r].token] = @ \union {i}]
  /\ Becomes(r, NoCall)
  /\ UNCHANGED <<table, tokens, attachments>>

\* A change happens to what is there, all of it at once, and once.  Its answer
\* may be lost.
Change(r, op) ==
  /\ calls[r].op = op
  /\ Becomes(r, Done) \/ Becomes(r, NoCall)
  /\ UNCHANGED <<tokens, told>>

Delete(r) ==
  /\ Change(r, "delete")
  /\ table[calls[r].id] # NoContent
  /\ table' = [table EXCEPT ![calls[r].id] = NoContent]
  /\ attachments' = attachments \ ({calls[r].id} \X Principal)

Pairs(r) == {calls[r].id} \X calls[r].who

Attach(r) ==
  /\ Change(r, "attach")
  /\ table[calls[r].id] # NoContent
  /\ attachments' = attachments \union Pairs(r)
  /\ UNCHANGED table

Detach(r) ==
  /\ Change(r, "detach")
  /\ Pairs(r) \cap attachments # {}
  /\ attachments' = attachments \ Pairs(r)
  /\ UNCHANGED table

\* An answer, or an error, which changes nothing.
End(r) ==
  /\ calls[r] # NoCall
  /\ Becomes(r, NoCall)
  /\ UNCHANGED <<table, tokens, attachments, told>>

Next ==
  \E r \in Call :
    Ask(r) \/ Make(r) \/ Repeat(r) \/ Delete(r) \/ Attach(r) \/ Detach(r) \/ End(r)

Spec == Init /\ [][Next]_vars
=============================================================================
