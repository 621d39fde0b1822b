----------------------------- MODULE Edge_proofs -----------------------------
(***************************************************************************)
(* Theorems about module Edge, for every set of processes and calls, every *)
(* number of migrations in each binary, every request that clients sign or *)
(* that may arrive instead, and every clock.                               *)
(***************************************************************************)
EXTENDS Edge, FiniteSetTheorems, SequenceTheorems, TLAPS

-----------------------------------------------------------------------------
(* Type correctness.                                                        *)

LEMMA Constants ==
  /\ \A p \in Processes : Embedded[p] \in Nat
  /\ Second \in Nat \ {0} /\ MaxSkew \in Nat /\ MaxNow \in Nat
BY EdgeAssumption, SigningAssumption

ProcsOK ==
  /\ procs \in [Processes -> UNION {Process(p) : p \in Processes}]
  /\ \A p \in Processes : procs[p] \in Process(p)

CallOK(q) ==
  IF q.at \in {"in", "let in"} THEN q.meant \in Meant /\ q \in Taken(q.meant)
  ELSE q \in Elsewhere

CallsOK ==
  /\ calls = [c \in Calls |-> calls[c]]
  /\ \A c \in Calls : CallOK(calls[c])

QueryOK == querying \subseteq {c \in Calls : calls[c].at \in {"in", "let in"}}

\* A process at a place it can be.
Somewhere(p, q) ==
  \/ q.at \in {"down", "table", "create", "keys", "serving", "draining", "closing"}
     /\ q = [at |-> q.at, i |-> 0]
  \/ q.at \in InMigration /\ q.i \in 1 .. Embedded[p] /\ q = [at |-> q.at, i |-> q.i]

LEMMA ProcessShape ==
  ASSUME NEW p, NEW q
  PROVE  q \in Process(p) <=> Somewhere(p, q)
<1> DEFINE Rest == {"down", "table", "create", "keys", "serving", "draining", "closing"}
<1>1. q \in [at : Rest, i : {0}] <=> q.at \in Rest /\ q = [at |-> q.at, i |-> 0]
  <2> HIDE DEF Rest
  <2> QED OBVIOUS
<1>2. q \in [at : InMigration, i : 1 .. Embedded[p]]
      <=> q.at \in InMigration /\ q.i \in 1 .. Embedded[p] /\ q = [at |-> q.at, i |-> q.i]
  <2> DEFINE I == 1 .. Embedded[p]
  <2>1. q \in [at : InMigration, i : I]
        <=> q.at \in InMigration /\ q.i \in I /\ q = [at |-> q.at, i |-> q.i]
    <3> HIDE DEF I
    <3> QED OBVIOUS
  <2> QED BY <2>1
<1> QED
  BY <1>1, <1>2 DEF Process, Somewhere

Becomes(p, q) == procs' = [procs EXCEPT ![p] = q]

LEMMA Becoming ==
  ASSUME ProcsOK, NEW p \in Processes, NEW q \in Process(p), Becomes(p, q)
  PROVE  /\ ProcsOK'
         /\ procs'[p] = q
         /\ \A o \in Processes \ {p} : procs'[o] = procs[o]
<1>1. q \in UNION {Process(o) : o \in Processes}
  OBVIOUS
<1>2. /\ procs'[p] = q
      /\ \A o \in Processes \ {p} : procs'[o] = procs[o]
      /\ procs' \in [Processes -> UNION {Process(o) : o \in Processes}]
  <2> DEFINE All == UNION {Process(o) : o \in Processes}
  <2>1. procs \in [Processes -> All] /\ q \in All
    BY <1>1 DEF ProcsOK
  <2> HIDE DEF All
  <2>2. /\ procs'[p] = q
        /\ \A o \in Processes \ {p} : procs'[o] = procs[o]
        /\ procs' \in [Processes -> All]
    BY <2>1 DEF Becomes
  <2> QED BY <2>2 DEF All
<1>3. \A o \in Processes : procs[o] \in Process(o)
  BY DEF ProcsOK
<1>4. \A o \in Processes : procs'[o] \in Process(o)
  BY <1>2, <1>3
<1> QED
  BY <1>2, <1>4 DEF ProcsOK

\* The places a step takes a process to.
LEMMA GoingSomewhere ==
  ASSUME NEW p \in Processes,
         NEW at \in {"down", "table", "create", "keys", "serving", "draining", "closing"}
  PROVE  [at |-> at, i |-> 0] \in Process(p)
BY DEF Process

NextMigration(p, i) ==
  IF i <= Embedded[p] THEN [at |-> "insert", i |-> i] ELSE [at |-> "keys", i |-> 0]

LEMMA GoingToMigrate ==
  ASSUME NEW p \in Processes, NEW i \in Nat \ {0}
  PROVE  NextMigration(p, i) \in Process(p)
<1>1. CASE i <= Embedded[p]
  <2>1. i \in 1 .. Embedded[p]
    BY <1>1, Constants
  <2>2. NextMigration(p, i) = [at |-> "insert", i |-> i]
    BY <1>1 DEF NextMigration
  <2> QED
    BY <2>1, <2>2, ProcessShape DEF Somewhere, InMigration
<1>2. CASE ~(i <= Embedded[p])
  BY <1>2, GoingSomewhere DEF NextMigration
<1> QED
  BY <1>1, <1>2

LEMMA Types ==
  TypeOK <=> /\ table \in BOOLEAN /\ recorded \subseteq Nat /\ applied \in Seq(Nat)
             /\ ProcsOK /\ now \in 0 .. MaxNow /\ CallsOK /\ QueryOK
BY DEF TypeOK, ProcsOK, CallsOK, CallOK, QueryOK

\* What is known of a call, by where it is.
LEMMA CallShape ==
  ASSUME NEW q, CallOK(q)
  PROVE  /\ q.at \in {"in", "let in"} =>
              /\ q.meant \in Meant /\ q.by \in Processes /\ q.got \in OnItsWay(q.meant)
              /\ q = [at |-> q.at, meant |-> q.meant, by |-> q.by, got |-> q.got]
         /\ q.at \in {"away"} \union Over => q.meant \in Meant
<1>1. ASSUME q.at \in {"in", "let in"}
      PROVE  /\ q.meant \in Meant /\ q.by \in Processes /\ q.got \in OnItsWay(q.meant)
             /\ q = [at |-> q.at, meant |-> q.meant, by |-> q.by, got |-> q.got]
  <2>1. q.meant \in Meant /\ q \in Taken(q.meant)
    BY <1>1 DEF CallOK
  <2> DEFINE ways == OnItsWay(q.meant)
  <2>2. q \in [at : {"in", "let in"}, meant : {q.meant}, by : Processes, got : ways]
    BY <2>1 DEF Taken
  <2> HIDE DEF ways
  <2>3. q.by \in Processes /\ q.got \in ways
        /\ q = [at |-> q.at, meant |-> q.meant, by |-> q.by, got |-> q.got]
    BY <2>2
  <2> QED
    BY <2>1, <2>3 DEF ways
<1>2. ASSUME q.at \in {"away"} \union Over
      PROVE  q.meant \in Meant
  <2>1. q \in Elsewhere /\ q.at # "idle"
    BY <1>2 DEF CallOK, Over
  <2>2. q \in [at : {"away", "answered", "cut"}, meant : Meant]
        \/ q \in [at : {"refused"}, meant : Meant, why : Failure]
    BY <2>1 DEF Elsewhere, Idle
  <2> HIDE DEF Meant, Failure
  <2> QED
    BY <2>2
<1> QED
  BY <1>1, <1>2

LEMMA CallGoes ==
  ASSUME NEW m \in Meant
  PROVE  /\ \A at \in {"away", "answered", "cut"} : CallOK([at |-> at, meant |-> m])
         /\ \A why \in Failure : CallOK([at |-> "refused", meant |-> m, why |-> why])
         /\ CallOK(Idle)
         /\ \A p \in Processes, w \in OnItsWay(m), at \in {"in", "let in"} :
              CallOK([at |-> at, meant |-> m, by |-> p, got |-> w])
<1>1. ASSUME NEW at \in {"away", "answered", "cut"}
      PROVE  CallOK([at |-> at, meant |-> m])
  BY DEF CallOK, Elsewhere
<1>2. ASSUME NEW why \in Failure
      PROVE  CallOK([at |-> "refused", meant |-> m, why |-> why])
  BY DEF CallOK, Elsewhere
<1>3. CallOK(Idle)
  BY DEF CallOK, Elsewhere, Idle
<1>4. ASSUME NEW p \in Processes, NEW w \in OnItsWay(m), NEW at \in {"in", "let in"}
      PROVE  CallOK([at |-> at, meant |-> m, by |-> p, got |-> w])
  <2> DEFINE q == [at |-> at, meant |-> m, by |-> p, got |-> w]
  <2>1. q.at \in {"in", "let in"} /\ q.meant = m
    OBVIOUS
  <2>2. q \in Taken(m)
    BY DEF Taken
  <2> HIDE DEF q
  <2>3. CallOK(q)
    BY <2>1, <2>2 DEF CallOK
  <2> QED
    BY <2>3 DEF q
<1> QED
  BY <1>1, <1>2, <1>3, <1>4

CallBecomes(c, q) == calls' = [calls EXCEPT ![c] = q]

LEMMA CallBecoming ==
  ASSUME CallsOK, NEW c \in Calls, NEW q, CallOK(q), CallBecomes(c, q)
  PROVE  /\ CallsOK'
         /\ calls'[c] = q
         /\ \A d \in Calls \ {c} : calls'[d] = calls[d]
<1>1. calls = [d \in Calls |-> calls[d]]
  BY DEF CallsOK
<1>2. /\ calls'[c] = q
      /\ \A d \in Calls \ {c} : calls'[d] = calls[d]
      /\ calls' = [d \in Calls |-> calls'[d]]
  BY <1>1 DEF CallBecomes
<1>3. \A d \in Calls : CallOK(calls[d])
  BY DEF CallsOK
<1>4. \A d \in Calls : CallOK(calls'[d])
  BY <1>2, <1>3
<1> QED
  BY <1>2, <1>4 DEF CallsOK, CallOK

LEMMA Cutting ==
  ASSUME CallsOK, NEW p \in Processes, Cut(p)
  PROVE  /\ CallsOK'
         /\ \A c \in Calls : calls'[c] = IF c \in InHand(p)
                                         THEN [at |-> "cut", meant |-> calls[c].meant]
                                         ELSE calls[c]
<1> DEFINE end(c) == [at |-> "cut", meant |-> calls[c].meant]
<1>1. \A c \in Calls : calls'[c] = IF c \in InHand(p) THEN end(c) ELSE calls[c]
  BY DEF Cut
<1>2. calls' = [c \in Calls |-> calls'[c]]
  BY DEF Cut
<1>3. ASSUME NEW c \in Calls
      PROVE  CallOK(calls'[c])
  <2>1. CallOK(calls[c])
    BY DEF CallsOK
  <2>2. CASE c \in InHand(p)
    <3>1. calls[c].meant \in Meant
      BY <2>1, <2>2, CallShape DEF InHand
    <3> QED
      BY <3>1, <2>2, <1>1, CallGoes
  <2>3. CASE c \notin InHand(p)
    BY <2>1, <2>3, <1>1
  <2> QED
    BY <2>2, <2>3
<1>4. CallsOK'
  BY <1>2, <1>3 DEF CallsOK, CallOK
<1> QED
  BY <1>1, <1>4

-----------------------------------------------------------------------------
(* What a process does, by what it means for the schema.                    *)

SchemaSame == recorded' = recorded /\ applied' = applied

\* It stops, starts, or goes on where the schema is done with.
Rests(p, q) ==
  /\ SchemaSame
  /\ \/ q.at \in {"down", "table", "create"}
     \/ /\ procs[p].at \in {"keys", "serving", "draining", "closing"}
        /\ q.at \in {"serving", "draining", "closing"}
\* It looks for the first migration.
Begins(p, q) == SchemaSame /\ q = NextMigration(p, 1)
\* It finds its migration recorded.
Passes(p, q) ==
  /\ SchemaSame /\ At(p, "insert") /\ procs[p].i \in recorded
  /\ q = NextMigration(p, procs[p].i + 1)
\* It takes its migration on, or is done with the statements of it.
Takes(p, q) ==
  /\ SchemaSame /\ At(p, "insert")
  /\ procs[p].i \notin recorded /\ procs[p].i \notin Locked
  /\ q = [at |-> "apply", i |-> procs[p].i]
Applies(p, q) ==
  /\ SchemaSame /\ At(p, "apply") /\ q = [at |-> "commit", i |-> procs[p].i]
\* It commits.
Commits(p, q) ==
  /\ At(p, "commit")
  /\ recorded' = recorded \union {procs[p].i}
  /\ applied' = Append(applied, procs[p].i)
  /\ q = NextMigration(p, procs[p].i + 1) \/ q = Down

Moves(p, q) ==
  \/ Rests(p, q) \/ Begins(p, q) \/ Passes(p, q) \/ Takes(p, q) \/ Applies(p, q)
  \/ Commits(p, q)
Moved(p) == \E q \in Process(p) : Becomes(p, q) /\ Moves(p, q)

ProcessActs(p) ==
  \/ Open(p) \/ Boot(p) \/ BootFails(p) \/ Signal(p) \/ ListenFails(p) \/ Drained(p)
  \/ DrainTimesOut(p) \/ Exit(p) \/ Crash(p)

LEMMA GotoMoves ==
  ASSUME NEW p \in Processes,
         NEW at \in {"down", "table", "create", "serving", "draining", "closing"},
         Goto(p, at), SchemaSame,
         \/ at \in {"down", "table", "create"}
         \/ procs[p].at \in {"keys", "serving", "draining", "closing"}
  PROVE  Moved(p)
<1> DEFINE q == [at |-> at, i |-> 0]
<1>1. q \in Process(p)
  BY GoingSomewhere
<1>2. Becomes(p, q)
  BY DEF Becomes, Goto
<1>3. q.at = at
  OBVIOUS
<1> HIDE DEF q
<1>4. Rests(p, q)
  BY <1>3 DEF Rests
<1> QED
  BY <1>1, <1>2, <1>4 DEF Moved, Moves

LEMMA MigrationBecomes ==
  ASSUME NEW p \in Processes, NEW i, Migration(p, i)
  PROVE  Becomes(p, NextMigration(p, i))
BY DEF Migration, Becomes, NextMigration

LEMMA InMigrationShape ==
  ASSUME ProcsOK, NEW p \in Processes, procs[p].at \in InMigration
  PROVE  /\ procs[p].i \in 1 .. Embedded[p] /\ procs[p].i \in Nat \ {0}
         /\ procs[p] = [at |-> procs[p].at, i |-> procs[p].i]
<1>1. Somewhere(p, procs[p])
  BY ProcessShape DEF ProcsOK
<1>2. procs[p].i \in 1 .. Embedded[p] /\ procs[p] = [at |-> procs[p].at, i |-> procs[p].i]
  BY <1>1 DEF Somewhere, InMigration
<1> QED
  BY <1>2, Constants

\* Further within the migration that p is in.
LEMMA GoingOn ==
  ASSUME ProcsOK, NEW p \in Processes, procs[p].at \in InMigration,
         NEW at \in InMigration, procs' = [procs EXCEPT ![p].at = at]
  PROVE  /\ [at |-> at, i |-> procs[p].i] \in Process(p)
         /\ Becomes(p, [at |-> at, i |-> procs[p].i])
<1> DEFINE was == procs[p]
           q == [at |-> at, i |-> was.i]
<1>1. was.i \in 1 .. Embedded[p] /\ was = [at |-> was.at, i |-> was.i]
  BY InMigrationShape
<1>2. q \in Process(p)
  BY <1>1 DEF Process
<1>3. [was EXCEPT !.at = at] = q
  <2> HIDE DEF was
  <2> QED
    BY <1>1
<1>4. procs' = [procs EXCEPT ![p] = [was EXCEPT !.at = at]]
  OBVIOUS
<1> QED
  BY <1>2, <1>3, <1>4 DEF Becomes

LEMMA BootMoves ==
  ASSUME TypeOK, NEW p \in Processes, Boot(p)
  PROVE  Moved(p)
<1>1. ProcsOK
  BY Types
<1>2. CASE LookForTable(p)
  <2>1. SchemaSame /\ At(p, "table")
    BY <1>2 DEF LookForTable, schema, SchemaSame
  <2>2. CASE Migration(p, 1)
    <3>1. Becomes(p, NextMigration(p, 1)) /\ NextMigration(p, 1) \in Process(p)
      BY <2>2, MigrationBecomes, GoingToMigrate
    <3> QED
      BY <3>1, <2>1 DEF Moved, Moves, Begins
  <2>3. CASE Goto(p, "create")
    BY <2>3, <2>1, GotoMoves
  <2> QED
    BY <2>2, <2>3, <1>2 DEF LookForTable
<1>3. CASE CreateTable(p)
  <2>1. SchemaSame
    BY <1>3 DEF CreateTable, SchemaSame
  <2>2. CASE Migration(p, 1)
    <3>1. Becomes(p, NextMigration(p, 1)) /\ NextMigration(p, 1) \in Process(p)
      BY <2>2, MigrationBecomes, GoingToMigrate
    <3> QED
      BY <3>1, <2>1 DEF Moved, Moves, Begins
  <2>3. CASE Goto(p, "down")
    BY <2>3, <2>1, GotoMoves
  <2> QED
    BY <2>2, <2>3, <1>3 DEF CreateTable
<1>4. CASE Insert(p)
  <2>1. /\ SchemaSame /\ At(p, "insert") /\ procs[p].i \notin Locked
        /\ procs[p].i \in Nat \ {0}
    BY <1>1, <1>4, InMigrationShape DEF Insert, schema, SchemaSame, At, InMigration
  <2>2. CASE procs[p].i \in recorded
    <3>1. Migration(p, procs[p].i + 1) /\ procs[p].i + 1 \in Nat \ {0}
      BY <1>4, <2>1, <2>2 DEF Insert
    <3>2. /\ Becomes(p, NextMigration(p, procs[p].i + 1))
          /\ NextMigration(p, procs[p].i + 1) \in Process(p)
      BY <3>1, MigrationBecomes, GoingToMigrate
    <3> QED
      BY <3>2, <2>1, <2>2 DEF Moved, Moves, Passes
  <2>3. CASE procs[p].i \notin recorded
    <3>1. procs' = [procs EXCEPT ![p].at = "apply"]
      BY <1>4, <2>3 DEF Insert
    <3>2. /\ [at |-> "apply", i |-> procs[p].i] \in Process(p)
          /\ Becomes(p, [at |-> "apply", i |-> procs[p].i])
      BY <1>1, <2>1, <3>1, GoingOn DEF At, InMigration
    <3> QED
      BY <3>2, <2>1, <2>3 DEF Moved, Moves, Takes
  <2> QED
    BY <2>2, <2>3
<1>5. CASE Apply(p)
  <2>1. SchemaSame /\ At(p, "apply") /\ procs' = [procs EXCEPT ![p].at = "commit"]
    BY <1>5 DEF Apply, schema, SchemaSame
  <2>2. /\ [at |-> "commit", i |-> procs[p].i] \in Process(p)
        /\ Becomes(p, [at |-> "commit", i |-> procs[p].i])
    BY <1>1, <2>1, GoingOn DEF At, InMigration
  <2> QED
    BY <2>1, <2>2 DEF Moved, Moves, Applies
<1>6. CASE Commit(p)
  <2>1. /\ At(p, "commit") /\ recorded' = recorded \union {procs[p].i}
        /\ applied' = Append(applied, procs[p].i)
        /\ procs[p].i \in Nat \ {0}
    BY <1>1, <1>6, InMigrationShape DEF Commit, At, InMigration
  <2>2. CASE Migration(p, procs[p].i + 1)
    <3>1. /\ Becomes(p, NextMigration(p, procs[p].i + 1))
          /\ NextMigration(p, procs[p].i + 1) \in Process(p)
      BY <2>1, <2>2, MigrationBecomes, GoingToMigrate
    <3> QED
      BY <3>1, <2>1 DEF Moved, Moves, Commits
  <2>3. CASE Goto(p, "down")
    <3>1. Becomes(p, Down) /\ Down \in Process(p)
      BY <2>3, GoingSomewhere DEF Becomes, Goto, Down
    <3> QED
      BY <3>1, <2>1 DEF Moved, Moves, Commits
  <2> QED
    BY <2>2, <2>3, <1>6 DEF Commit
<1>7. CASE Listen(p)
  BY <1>7, GotoMoves DEF Listen, At, schema, SchemaSame
<1> QED
  BY <1>2, <1>3, <1>4, <1>5, <1>6, <1>7 DEF Boot

LEMMA ProcessMoves ==
  ASSUME TypeOK, NEW p \in Processes, ProcessActs(p)
  PROVE  Moved(p)
<1>1. CASE Open(p)
  BY <1>1, GotoMoves DEF Open, schema, SchemaSame
<1>2. CASE Boot(p)
  BY <1>2, BootMoves
<1>3. CASE BootFails(p)
  BY <1>3, GotoMoves DEF BootFails, schema, SchemaSame
<1>4. CASE Signal(p)
  BY <1>4, GotoMoves DEF Signal, At, schema, SchemaSame
<1>5. CASE DrainTimesOut(p)
  BY <1>5, GotoMoves DEF DrainTimesOut, At, schema, SchemaSame
<1>6. CASE Exit(p)
  BY <1>6, GotoMoves DEF Exit, schema, SchemaSame
<1>7. CASE Crash(p)
  BY <1>7, GotoMoves DEF Crash, schema, SchemaSame
<1>8. CASE ListenFails(p)
  BY <1>8, GotoMoves DEF ListenFails, At, schema, SchemaSame
<1>9. CASE Drained(p)
  BY <1>9, GotoMoves DEF Drained, At, schema, SchemaSame
<1> QED
  BY <1>1, <1>2, <1>3, <1>4, <1>5, <1>6, <1>7, <1>8, <1>9 DEF ProcessActs

-----------------------------------------------------------------------------
(* What becomes of a call.                                                  *)

LEMMA VerdictKnown ==
  ASSUME NEW w
  PROVE  Verdict(w) \in Failure \union {"ok"}
<1> DEFINE sees == Verify(w.req, w.headers, Stored[w.headers.auth.credential[1]], Region,
                          ServiceOf[w.req.path], now)
<1>1. sees \in Failure \union {"ok"}
  BY Zenon DEF Verify, Failure
<1>2. ParseAuthorization(w.headers.auth) \in Failure \union {"parsed"}
  BY Zenon DEF ParseAuthorization, Failure
<1> HIDE DEF sees
<1>3. Verdict(w) = IF ParseAuthorization(w.headers.auth) # "parsed"
                     THEN ParseAuthorization(w.headers.auth)
                   ELSE IF w.headers.auth.credential[1] \notin DOMAIN Stored
                     THEN "unknown_or_unusable_credentials"
                   ELSE sees
  BY Zenon DEF Verdict, sees
<1> QED
  BY <1>1, <1>2, <1>3 DEF Failure

\* Why a call may be refused.
Explains(c, why) ==
  \/ why \in {"unreadable", "unknown_or_unusable_credentials"}
  \/ why = Verdict(calls[c].got) /\ why # "ok"

\* What a step makes of one call, by how it comes to it.
Called(c, q) ==
  \/ \E m \in Meant : q = [at |-> "away", meant |-> m] /\ calls[c].at \notin {"in", "let in"}
  \/ q = Idle /\ calls[c].at \notin {"in", "let in"}
  \/ \E m \in Meant, p \in Processes : \E w \in OnItsWay(m) :
       /\ calls[c].at = "away"
       /\ q = [at |-> "in", meant |-> m, by |-> p, got |-> w]
  \/ \E m \in Meant, p \in Processes : \E w \in OnItsWay(m) :
       /\ calls[c] = [at |-> "in", meant |-> m, by |-> p, got |-> w]
       /\ Verdict(w) = "ok"
       /\ q = [at |-> "let in", meant |-> m, by |-> p, got |-> w]
  \/ \E m \in Meant, why \in Failure :
       Explains(c, why) /\ q = [at |-> "refused", meant |-> m, why |-> why]
  \/ \E m \in Meant, at \in {"answered", "cut"} : q = [at |-> at, meant |-> m]

LEMMA CalledAt ==
  ASSUME NEW c, NEW q, Called(c, q)
  PROVE  \/ q.at \in {"away", "idle", "in", "answered", "cut"}
         \/ q.at = "refused" /\ Explains(c, q.why)
         \/ q.at = "let in" /\ Verdict(calls[c].got) = "ok"
<1>1. ASSUME NEW m, NEW p, NEW w, NEW at \in {"in", "let in"},
             q = [at |-> at, meant |-> m, by |-> p, got |-> w]
      PROVE  q.at = at
  BY <1>1
<1>2. ASSUME NEW m, NEW why, q = [at |-> "refused", meant |-> m, why |-> why]
      PROVE  q.at = "refused" /\ q.why = why
  BY <1>2
<1>3. ASSUME NEW m, NEW at \in {"away", "answered", "cut"}, q = [at |-> at, meant |-> m]
      PROVE  q.at = at
  BY <1>3
<1>4. q = Idle => q.at = "idle"
  BY DEF Idle
<1>5. ASSUME NEW m, NEW p, NEW w,
             calls[c] = [at |-> "in", meant |-> m, by |-> p, got |-> w]
      PROVE  calls[c].got = w
  BY <1>5
<1> QED
  BY <1>1, <1>2, <1>3, <1>4, <1>5, Zenon DEF Called

CallMoved(c) == \E q : CallOK(q) /\ CallBecomes(c, q) /\ Called(c, q)

CallActs(c) ==
  \/ \E m \in Meant : ClientSigns(c, m)
  \/ SendAgain(c) \/ Forget(c) \/ \E p \in Processes : Arrive(c, p)
  \/ Authenticate(c) \/ AuthenticateFails(c) \/ Answer(c)

LEMMA RefuseMoves ==
  ASSUME CallsOK, NEW c \in Calls, calls[c].at = "in", NEW why \in Failure,
         Explains(c, why), Refuse(c, why)
  PROVE  CallMoved(c)
<1> DEFINE m == calls[c].meant
           q == [at |-> "refused", meant |-> m, why |-> why]
<1>1. m \in Meant
  BY CallShape DEF CallsOK
<1>2. CallBecomes(c, q)
  BY DEF Refuse, CallBecomes
<1> HIDE DEF m
<1>3. CallOK(q)
  BY <1>1, CallGoes
<1>4. Called(c, q)
  BY <1>1 DEF Called
<1> QED
  BY <1>2, <1>3, <1>4 DEF CallMoved

LEMMA LettingIn ==
  ASSUME NEW m, NEW p, NEW w, NEW was,
         was = [at |-> "in", meant |-> m, by |-> p, got |-> w]
  PROVE  [was EXCEPT !.at = "let in"] = [at |-> "let in", meant |-> m, by |-> p, got |-> w]
<1> DEFINE All == [at : {"in", "let in"}, meant : {m}, by : {p}, got : {w}]
           q == [was EXCEPT !.at = "let in"]
<1>1. was \in All
  OBVIOUS
<1>2. q \in All /\ q.at = "let in"
  <2> HIDE DEF q
  <2>1. q = [was EXCEPT !.at = "let in"]
    BY DEF q
  <2> QED
    BY <1>1, <2>1
<1>3. q.meant = m /\ q.by = p /\ q.got = w
  <2> HIDE DEF q
  <2> QED
    BY <1>2
<1>4. q = [at |-> q.at, meant |-> q.meant, by |-> q.by, got |-> q.got]
  <2> HIDE DEF q
  <2> QED
    BY <1>2
<1> HIDE DEF q
<1> QED
  BY <1>2, <1>3, <1>4 DEF q

LEMMA CallMoves ==
  ASSUME CallsOK, NEW c \in Calls, CallActs(c)
  PROVE  CallMoved(c)
<1>1. CallOK(calls[c])
  BY DEF CallsOK
<1>2. ASSUME NEW m \in Meant, ClientSigns(c, m)
      PROVE  CallMoved(c)
  <2> DEFINE q == [at |-> "away", meant |-> m]
  <2>1. CallBecomes(c, q) /\ calls[c].at = "idle"
    BY <1>2 DEF ClientSigns, CallBecomes, Idle
  <2>2. CallOK(q) /\ Called(c, q)
    BY <2>1, CallGoes DEF Called
  <2> QED
    BY <2>1, <2>2 DEF CallMoved
<1>3. CASE SendAgain(c)
  <2> DEFINE m == calls[c].meant
             q == [at |-> "away", meant |-> m]
  <2>1. m \in Meant /\ calls[c].at \notin {"in", "let in"}
    BY <1>1, <1>3, CallShape DEF SendAgain, Over
  <2>2. CallBecomes(c, q)
    BY <1>3 DEF SendAgain, Ends, CallBecomes
  <2> HIDE DEF m
  <2>3. CallOK(q) /\ Called(c, q)
    BY <2>1, CallGoes DEF Called
  <2> QED
    BY <2>2, <2>3 DEF CallMoved
<1>4. CASE Forget(c)
  <2>1. calls[c].at \notin {"in", "let in"} /\ CallBecomes(c, Idle)
    BY <1>4 DEF Forget, Over, CallBecomes
  <2>2. CallOK(Idle) /\ Called(c, Idle)
    BY <2>1 DEF Called, CallOK, Elsewhere, Idle
  <2> QED
    BY <2>1, <2>2 DEF CallMoved
<1>5. ASSUME NEW p \in Processes, Arrive(c, p)
      PROVE  CallMoved(c)
  <2> DEFINE m == calls[c].meant
  <2>1. calls[c].at = "away"
    BY <1>5 DEF Arrive
  <2>2. m \in Meant
    BY <1>1, <2>1, CallShape
  <2>3. PICK w \in OnItsWay(m) :
          calls' = [calls EXCEPT ![c] = [at |-> "in", meant |-> m, by |-> p, got |-> w]]
    BY <1>5 DEF Arrive
  <2> HIDE DEF m
  <2> DEFINE q == [at |-> "in", meant |-> m, by |-> p, got |-> w]
  <2>4. CallOK(q)
    BY <2>2, CallGoes
  <2>5. Called(c, q)
    BY <2>1, <2>2 DEF Called
  <2> QED
    BY <2>3, <2>4, <2>5 DEF CallMoved, CallBecomes
<1>6. CASE Authenticate(c)
  <2> DEFINE m == calls[c].meant
             p == calls[c].by
             w == calls[c].got
  <2>1. /\ calls[c].at = "in" /\ m \in Meant /\ p \in Processes /\ w \in OnItsWay(m)
        /\ calls[c] = [at |-> "in", meant |-> m, by |-> p, got |-> w]
    BY <1>1, <1>6, CallShape DEF Authenticate
  <2>2. CASE Verdict(w) = "ok"
    <3>1. calls' = [calls EXCEPT ![c].at = "let in"]
      BY <1>6, <2>2 DEF Authenticate
    <3> DEFINE was == calls[c]
               q == [at |-> "let in", meant |-> m, by |-> p, got |-> w]
    <3>2. calls' = [calls EXCEPT ![c] = [was EXCEPT !.at = "let in"]]
      BY <3>1
    <3>3. [was EXCEPT !.at = "let in"] = q
      <4>1. was = [at |-> "in", meant |-> m, by |-> p, got |-> w]
        BY <2>1
      <4> HIDE DEF was
      <4> QED
        BY <4>1, LettingIn
    <3>4. CallBecomes(c, q)
      BY <3>2, <3>3 DEF CallBecomes
    <3> HIDE DEF m, p, w, was
    <3>5. CallOK(q)
      BY <2>1, CallGoes
    <3>6. Called(c, q)
      BY <2>1, <2>2 DEF Called
    <3> QED
      BY <3>4, <3>5, <3>6 DEF CallMoved
  <2>3. CASE Verdict(w) # "ok"
    <3>1. Refuse(c, Verdict(w))
      BY <1>6, <2>3 DEF Authenticate
    <3>2. Verdict(w) \in Failure /\ Explains(c, Verdict(w))
      BY <2>3, VerdictKnown DEF Explains
    <3> QED
      BY <2>1, <3>1, <3>2, RefuseMoves
  <2> QED
    BY <2>2, <2>3
<1>7. CASE AuthenticateFails(c)
  BY <1>7, RefuseMoves DEF AuthenticateFails, Failure, Explains
<1>8. CASE Answer(c)
  <2> DEFINE m == calls[c].meant
  <2>1. m \in Meant
    BY <1>1, <1>8, CallShape DEF Answer
  <2>2. PICK how \in {"answered", "cut"} : calls' = [calls EXCEPT ![c] = [at |-> how, meant |-> m]]
    BY <1>8 DEF Answer, Ends
  <2> HIDE DEF m
  <2> DEFINE q == [at |-> how, meant |-> m]
  <2>3. CallBecomes(c, q)
    BY <2>2 DEF CallBecomes
  <2>4. CallOK(q) /\ Called(c, q)
    BY <2>1, CallGoes DEF Called
  <2> QED
    BY <2>3, <2>4 DEF CallMoved
<1> QED
  BY <1>2, <1>3, <1>4, <1>5, <1>6, <1>7, <1>8 DEF CallActs

\* Its handler waits for the database, or no longer.
Waits(c) == Query(c) \/ QueryEnds(c)

LEMMA NextActs ==
  ASSUME Next
  PROVE  \/ \E p \in Processes : ProcessActs(p)
         \/ \E c \in Calls : CallActs(c) \/ Waits(c)
         \/ Tick
BY DEF Next, ProcessActs, CallActs, Waits

LEMMA WaitsOnly ==
  ASSUME NEW c \in Calls, Waits(c)
  PROVE  /\ UNCHANGED <<table, recorded, applied, procs, now, calls>>
         /\ \A d \in querying' : d \in querying \/ (d = c /\ calls[c].at \in {"in", "let in"})
BY DEF Waits, Query, QueryEnds, InHand, schema

\* No call that waits for the database comes to anything else meanwhile.
LEMMA WaitingOn ==
  ASSUME QueryOK, NEW c \in Calls, CallActs(c)
  PROVE  querying' = querying /\ c \notin querying
<1>1. querying' = querying
  BY DEF CallActs, ClientSigns, SendAgain, Forget, Arrive, Authenticate,
         AuthenticateFails, Answer
<1>2. calls[c].at \notin {"in", "let in"} \/ c \notin querying
  <2>1. Idle.at = "idle"
    BY DEF Idle
  <2> QED
    BY <2>1 DEF CallActs, ClientSigns, SendAgain, Forget, Arrive, Authenticate,
                AuthenticateFails, Answer, Over
<1> QED
  BY <1>1, <1>2 DEF QueryOK

LEMMA ProcessStops ==
  ASSUME CallsOK, NEW p \in Processes, ProcessActs(p)
  PROVE  (calls' = calls /\ querying' = querying) \/ Cut(p)
BY DEF ProcessActs, Open, Boot, LookForTable, CreateTable, Insert, Apply, Commit, Listen,
       BootFails, Signal, ListenFails, Drained, DrainTimesOut, Exit, Crash

LEMMA TypeStep_Process ==
  ASSUME TypeOK, NEW p \in Processes, ProcessActs(p)
  PROVE  TypeOK'
<1>1. /\ table \in BOOLEAN /\ recorded \subseteq Nat /\ applied \in Seq(Nat)
      /\ ProcsOK /\ now \in 0 .. MaxNow /\ CallsOK /\ QueryOK
  BY Types
<1>2. PICK q \in Process(p) : Becomes(p, q) /\ Moves(p, q)
  BY ProcessMoves DEF Moved
<1>3. ProcsOK'
  BY <1>1, <1>2, Becoming
<1>4. recorded' \subseteq Nat /\ applied' \in Seq(Nat)
  <2>1. CASE SchemaSame
    BY <1>1, <2>1 DEF SchemaSame
  <2>2. CASE Commits(p, q)
    <3>1. procs[p].i \in Nat
      BY <1>1, <2>2, InMigrationShape DEF Commits, At, InMigration
    <3>2. recorded' = recorded \union {procs[p].i} /\ applied' = Append(applied, procs[p].i)
      BY <2>2 DEF Commits
    <3>3. applied' \in Seq(Nat)
      BY <1>1, <3>1, <3>2, AppendProperties
    <3> QED
      BY <1>1, <3>1, <3>2, <3>3
  <2> QED
    BY <1>2, <2>1, <2>2 DEF Moves, Rests, Begins, Passes, Takes, Applies
<1>5. table' \in BOOLEAN /\ now' = now
  BY <1>1 DEF ProcessActs, Open, Boot, LookForTable, CreateTable, Insert, Apply, Commit,
              Listen, BootFails, Signal, ListenFails, Drained, DrainTimesOut, Exit, Crash,
              schema
<1>6. CallsOK'
  <2>1. CASE calls' = calls
    BY <1>1, <2>1 DEF CallsOK, CallOK
  <2>2. CASE Cut(p)
    BY <1>1, <2>2, Cutting
  <2> QED
    BY <1>1, <2>1, <2>2, ProcessStops
<1>7. now' \in 0 .. MaxNow
  BY <1>1, <1>5
<1>8. QueryOK'
  <2>1. CASE calls' = calls /\ querying' = querying
    BY <1>1, <2>1 DEF QueryOK
  <2>2. CASE Cut(p)
    <3>1. \A c \in Calls : c \in querying' => c \in querying /\ calls'[c] = calls[c]
      BY <1>1, <2>2, Cutting DEF Cut
    <3>2. querying' \subseteq Calls
      BY <1>1, <2>2 DEF Cut, QueryOK
    <3> QED
      BY <1>1, <3>1, <3>2 DEF QueryOK
  <2> QED
    BY <1>1, <2>1, <2>2, ProcessStops
<1> QED
  BY <1>3, <1>4, <1>5, <1>6, <1>7, <1>8 DEF TypeOK, ProcsOK, CallsOK, CallOK, QueryOK

LEMMA TypeStep_Call ==
  ASSUME TypeOK, NEW c \in Calls, CallActs(c)
  PROVE  TypeOK'
<1>1. /\ table \in BOOLEAN /\ recorded \subseteq Nat /\ applied \in Seq(Nat)
      /\ ProcsOK /\ now \in 0 .. MaxNow /\ CallsOK /\ QueryOK
  BY Types
<1>2. PICK q : CallOK(q) /\ CallBecomes(c, q) /\ Called(c, q)
  BY <1>1, CallMoves DEF CallMoved
<1>3. CallsOK'
  BY <1>1, <1>2, CallBecoming
<1>4. /\ table' = table /\ recorded' = recorded /\ applied' = applied
      /\ procs' = procs /\ now' = now
  BY DEF CallActs, ClientSigns, SendAgain, Forget, Arrive, Authenticate, AuthenticateFails,
         Answer, schema
<1>5. QueryOK'
  <2>1. querying' = querying /\ c \notin querying
    BY <1>1, WaitingOn
  <2>2. \A d \in Calls \ {c} : calls'[d] = calls[d]
    BY <1>1, <1>2, CallBecoming
  <2> QED
    BY <1>1, <2>1, <2>2 DEF QueryOK
<1> QED
  BY <1>1, <1>3, <1>4, <1>5 DEF TypeOK, ProcsOK, CallsOK, CallOK, QueryOK

LEMMA TypeStep ==
  ASSUME TypeOK, [Next]_vars
  PROVE  TypeOK'
<1>1. CASE Tick
  <2>1. now \in 0 .. MaxNow /\ now < MaxNow /\ now' = now + 1
    BY <1>1, Types DEF Tick
  <2>2. UNCHANGED <<table, recorded, applied, procs, calls, querying>>
    BY <1>1 DEF Tick, schema
  <2>3. now' \in 0 .. MaxNow
    BY <2>1, Constants
  <2> QED
    BY <2>2, <2>3 DEF TypeOK
<1>2. CASE UNCHANGED vars
  <2>1. UNCHANGED <<table, recorded, applied, procs, calls, now, querying>>
    BY <1>2 DEF vars, schema
  <2> QED
    BY <2>1 DEF TypeOK
<1>3. ASSUME NEW c \in Calls, Waits(c)
      PROVE  TypeOK'
  <2>1. QueryOK /\ UNCHANGED <<table, recorded, applied, procs, now, calls>>
    BY <1>3, WaitsOnly, Types
  <2>2. QueryOK'
    BY <1>3, <2>1, WaitsOnly DEF QueryOK
  <2> QED
    BY <2>1, <2>2 DEF TypeOK, QueryOK
<1> QED
  BY <1>1, <1>2, <1>3, NextActs, TypeStep_Process, TypeStep_Call

LEMMA TypeInit == Init => TypeOK
<1> SUFFICES ASSUME Init PROVE TypeOK
  OBVIOUS
<1>1. ProcsOK
  <2>1. \A p \in Processes : Down \in Process(p)
    BY GoingSomewhere DEF Down
  <2>2. procs = [p \in Processes |-> Down]
    BY DEF Init
  <2> HIDE DEF Down
  <2> QED
    BY <2>1, <2>2 DEF ProcsOK
<1>2. CallsOK
  BY DEF Init, CallsOK, CallOK, Elsewhere, Idle
<1>4. QueryOK
  BY DEF Init, QueryOK
<1>3. table \in BOOLEAN /\ recorded \subseteq Nat /\ applied \in Seq(Nat) /\ now \in 0 .. MaxNow
  <2>1. table = FALSE /\ recorded = {} /\ applied = <<>> /\ now = 0
    BY DEF Init
  <2>2. table \in BOOLEAN
    BY <2>1
  <2>3. applied \in Seq(Nat)
    BY <2>1
  <2>4. now \in 0 .. MaxNow
    BY <2>1, Constants
  <2> QED
    BY <2>1, <2>2, <2>3, <2>4
<1> QED
  BY <1>1, <1>2, <1>3, <1>4, Types

\* Every variable has its type in every state the program reaches: a process in
\* a migration is in one that its binary has, and a call is in the hands of a
\* process, as it arrived, or is nowhere, and then holds no connection.
THEOREM TypeCorrect == Spec => []TypeOK
BY TypeInit, TypeStep, PTL DEF Spec

-----------------------------------------------------------------------------
(* The schema.  Whoever holds a migration holds the next one there is, and  *)
(* nobody else holds any: then its commit adds the next, once.              *)

Holding == {"apply", "commit"}
Past == {"keys", "serving", "draining", "closing"}

\* Where process p may be when n migrations are applied.
Placed(p, q, n) ==
  /\ q.at = "insert" => q.i <= n + 1
  /\ q.at \in Holding => q.i = n + 1
  /\ q.at \in Past => Embedded[p] <= n

Alone ==
  \A p, o \in Processes : procs[p].at \in Holding /\ procs[o].at \in Holding => p = o

InOrderAndRecorded ==
  /\ applied = [i \in 1 .. Len(applied) |-> i]
  /\ recorded = 1 .. Len(applied)

SchemaInv ==
  /\ InOrderAndRecorded
  /\ Alone
  /\ \A p \in Processes : Placed(p, procs[p], Len(applied))

LEMMA SchemaImplies == SchemaInv => SchemaIsMigrated
BY DEF SchemaInv, InOrderAndRecorded, SchemaIsMigrated, Placed, Past

LEMMA NextPlaced ==
  ASSUME NEW p \in Processes, NEW n \in Nat, NEW i \in Nat, i <= n + 1
  PROVE  /\ Placed(p, NextMigration(p, i), n)
         /\ NextMigration(p, i).at \notin Holding
<1>1. Embedded[p] \in Nat
  BY Constants
<1>2. CASE i <= Embedded[p]
  <2>1. NextMigration(p, i) = [at |-> "insert", i |-> i]
    BY <1>2 DEF NextMigration
  <2> QED
    BY <2>1 DEF Placed, Holding, Past
<1>3. CASE ~(i <= Embedded[p])
  <2>1. NextMigration(p, i) = [at |-> "keys", i |-> 0]
    BY <1>3 DEF NextMigration
  <2>2. Embedded[p] <= n
    BY <1>1, <1>3
  <2> QED
    BY <2>1, <2>2 DEF Placed, Holding, Past
<1> QED
  BY <1>2, <1>3

LEMMA PlacedLater ==
  ASSUME NEW p \in Processes, NEW q, NEW n \in Nat, Placed(p, q, n), q.at \notin Holding,
         q.at = "insert" => q.i \in Nat
  PROVE  Placed(p, q, n + 1)
BY Constants DEF Placed

\* One process takes a step that leaves the schema as it is.
LEMMA SchemaKept ==
  ASSUME ProcsOK, SchemaInv, NEW p \in Processes, NEW q \in Process(p), Becomes(p, q),
         SchemaSame, Placed(p, q, Len(applied)),
         q.at \in Holding => \/ procs[p].at \in Holding
                             \/ \A o \in Processes : procs[o].at \notin Holding
  PROVE  SchemaInv'
<1>1. procs'[p] = q /\ \A o \in Processes \ {p} : procs'[o] = procs[o]
  BY Becoming
<1>2. InOrderAndRecorded'
  BY DEF SchemaInv, InOrderAndRecorded, SchemaSame
<1>3. Alone'
  BY <1>1 DEF SchemaInv, Alone
<1>4. \A o \in Processes : Placed(o, procs'[o], Len(applied))
  BY <1>1 DEF SchemaInv
<1>5. applied' = applied
  BY DEF SchemaSame
<1>6. (\A o \in Processes : Placed(o, procs[o], Len(applied)))'
  BY <1>4, <1>5
<1> QED
  BY <1>2, <1>3, <1>6 DEF SchemaInv

LEMMA CommitKeeps ==
  ASSUME TypeOK, SchemaInv, NEW p \in Processes, NEW q \in Process(p), Becomes(p, q),
         Commits(p, q)
  PROVE  SchemaInv'
<1> DEFINE n == Len(applied)
           i == procs[p].i
<1>1. ProcsOK /\ applied \in Seq(Nat) /\ n \in Nat
  BY Types
<1>2. procs'[p] = q /\ \A o \in Processes \ {p} : procs'[o] = procs[o]
  BY <1>1, Becoming
<1>3. procs[p].at \in Holding /\ i = n + 1
  BY DEF Commits, At, Holding, SchemaInv, Placed
<1>4. \A o \in Processes \ {p} : procs[o].at \notin Holding
  BY <1>3 DEF SchemaInv, Alone
<1>5. applied' = Append(applied, n + 1) /\ recorded' = recorded \union {n + 1}
  BY <1>3 DEF Commits
<1>6. Len(applied') = n + 1
  BY <1>1, <1>5, AppendProperties
<1>7. InOrderAndRecorded'
  <2>1. recorded' = 1 .. n + 1
    <3>1. recorded = 1 .. n
      BY DEF SchemaInv, InOrderAndRecorded
    <3> HIDE DEF n
    <3> QED
      BY <1>1, <1>5, <3>1
  <2>2. \A k \in 1 .. n + 1 : applied'[k] = k
    <3>1. \A k \in 1 .. n : applied[k] = k
      BY DEF SchemaInv, InOrderAndRecorded
    <3>2. /\ \A k \in 1 .. n : applied'[k] = applied[k]
          /\ applied'[n + 1] = n + 1
      BY <1>1, <1>5, AppendProperties
    <3> HIDE DEF n
    <3> QED
      BY <1>1, <3>1, <3>2
  <2>3. applied' \in Seq(Nat)
    BY <1>1, <1>5, AppendProperties
  <2>4. applied' = [k \in 1 .. Len(applied') |-> applied'[k]]
    BY <2>3
  <2> HIDE DEF n
  <2>5. applied' = [k \in 1 .. n + 1 |-> k]
    BY <2>2, <2>4, <1>6, Zenon
  <2> QED
    BY <2>1, <2>5, <1>6 DEF InOrderAndRecorded
<1>8. q.at \notin Holding /\ Placed(p, q, n + 1)
  <2>1. CASE q = NextMigration(p, i + 1)
    <3>1. q = NextMigration(p, n + 2)
      BY <1>1, <1>3, <2>1
    <3> HIDE DEF n, i
    <3> QED
      BY <1>1, <3>1, NextPlaced
  <2>2. CASE q = Down
    BY <2>2 DEF Down, Placed, Holding, Past
  <2> QED
    BY <2>1, <2>2 DEF Commits
<1>9. Alone'
  BY <1>2, <1>4, <1>8 DEF Alone
<1>10. ASSUME NEW o \in Processes \ {p}
       PROVE  Placed(o, procs[o], n + 1)
  <2>1. Placed(o, procs[o], n) /\ procs[o].at \notin Holding
    BY <1>4 DEF SchemaInv
  <2>2. procs[o].at = "insert" => procs[o].i \in Nat
    BY <1>1, InMigrationShape DEF InMigration
  <2> HIDE DEF n
  <2> QED
    BY <1>1, <2>1, <2>2, PlacedLater
<1>11. \A o \in Processes : Placed(o, procs'[o], n + 1)
  BY <1>2, <1>8, <1>10
<1>12. (\A o \in Processes : Placed(o, procs[o], Len(applied)))'
  BY <1>6, <1>11
<1> QED
  BY <1>7, <1>9, <1>12 DEF SchemaInv

LEMMA SchemaStep ==
  ASSUME TypeOK, SchemaInv, [Next]_vars
  PROVE  SchemaInv'
<1>1. ProcsOK /\ Len(applied) \in Nat
  BY Types
<1>2. ASSUME NEW p \in Processes, ProcessActs(p)
      PROVE  SchemaInv'
  <2> DEFINE n == Len(applied)
             i == procs[p].i
  <2>1. PICK q \in Process(p) : Becomes(p, q) /\ Moves(p, q)
    BY <1>2, ProcessMoves DEF Moved
  <2>2. Placed(p, procs[p], n)
    BY DEF SchemaInv
  <2>3. CASE Rests(p, q)
    <3>1. Placed(p, q, n) /\ q.at \notin Holding
      BY <2>2, <2>3 DEF Rests, Placed, Holding, Past
    <3> QED
      BY <1>1, <2>1, <2>3, <3>1, SchemaKept DEF Rests
  <2>4. CASE Begins(p, q)
    <3>1. Placed(p, q, n) /\ q.at \notin Holding
      BY <1>1, <2>4, NextPlaced DEF Begins
    <3> QED
      BY <1>1, <2>1, <2>4, <3>1, SchemaKept DEF Begins
  <2>5. CASE Passes(p, q)
    <3>1. i \in 1 .. n
      BY <2>5 DEF Passes, SchemaInv, InOrderAndRecorded
    <3>2. i + 1 \in Nat /\ i + 1 <= n + 1 /\ q = NextMigration(p, i + 1)
      BY <1>1, <2>5, <3>1 DEF Passes
    <3>3. Placed(p, q, n) /\ q.at \notin Holding
      BY <1>1, <3>2, NextPlaced
    <3> QED
      BY <1>1, <2>1, <2>5, <3>3, SchemaKept DEF Passes
  <2>6. CASE Takes(p, q)
    <3>1. i \in Nat \ {0} /\ i <= n + 1 /\ i \notin 1 .. n
      BY <1>1, <2>2, <2>6, InMigrationShape
      DEF Takes, At, InMigration, Placed, SchemaInv, InOrderAndRecorded
    <3>2. i = n + 1
      <4> HIDE DEF i, n
      <4> QED
        BY <1>1, <3>1 DEF n
    <3>3. ASSUME NEW o \in Processes, procs[o].at \in Holding
          PROVE  FALSE
      <4>1. procs[o].i = n + 1
        BY <3>3 DEF SchemaInv, Placed
      <4>2. procs[o].i \in Locked
        BY <3>3 DEF Locked, Holding
      <4> QED
        BY <2>6, <3>2, <4>1, <4>2 DEF Takes
    <3>4. q = [at |-> "apply", i |-> n + 1]
      BY <2>6, <3>2 DEF Takes
    <3>5. Placed(p, q, n)
      BY <3>4 DEF Placed, Holding, Past
    <3> QED
      BY <1>1, <2>1, <2>6, <3>3, <3>5, SchemaKept DEF Takes
  <2>7. CASE Applies(p, q)
    <3>1. procs[p].at \in Holding /\ i = n + 1 /\ q = [at |-> "commit", i |-> n + 1]
      BY <2>2, <2>7 DEF Applies, At, Holding, Placed
    <3>2. Placed(p, q, n)
      BY <3>1 DEF Placed, Holding, Past
    <3> QED
      BY <1>1, <2>1, <2>7, <3>1, <3>2, SchemaKept DEF Applies
  <2>8. CASE Commits(p, q)
    BY <2>1, <2>8, CommitKeeps
  <2> QED
    BY <2>1, <2>3, <2>4, <2>5, <2>6, <2>7, <2>8 DEF Moves
<1>3. ASSUME UNCHANGED <<recorded, applied, procs>>
      PROVE  SchemaInv'
  BY <1>3 DEF SchemaInv, InOrderAndRecorded, Alone
<1>4. ASSUME NEW c \in Calls, CallActs(c)
      PROVE  UNCHANGED <<recorded, applied, procs>>
  BY <1>4 DEF CallActs, ClientSigns, SendAgain, Forget, Arrive, Authenticate,
              AuthenticateFails, Answer, schema
<1>5. Tick \/ UNCHANGED vars \/ (\E c \in Calls : Waits(c))
        => UNCHANGED <<recorded, applied, procs>>
  BY WaitsOnly DEF Tick, vars, schema
<1> QED
  BY <1>2, <1>3, <1>4, <1>5, NextActs

LEMMA SchemaInit == Init => SchemaInv
<1> SUFFICES ASSUME Init PROVE SchemaInv
  OBVIOUS
<1>1. applied = <<>> /\ recorded = {} /\ Len(applied) = 0
  BY DEF Init
<1>2. \A p \in Processes : procs[p] = Down
  BY DEF Init
<1>3. InOrderAndRecorded
  BY <1>1 DEF InOrderAndRecorded
<1>4. Alone
  BY <1>2 DEF Alone, Down, Holding
<1>5. \A p \in Processes : Placed(p, procs[p], Len(applied))
  BY <1>2 DEF Placed, Down, Holding, Past
<1> QED
  BY <1>3, <1>4, <1>5 DEF SchemaInv

\* However many processes start at once, of whatever versions, and wherever
\* they fail: each migration is applied once, in order and with its record
\* (store.go:58-62, 90-93), and who serves has all that its binary embeds.
THEOREM MigratesOnceInOrder == Spec => []SchemaIsMigrated
<1>1. TypeOK /\ SchemaInv /\ [Next]_vars => SchemaInv'
  BY SchemaStep
<1> QED
  BY <1>1, SchemaInit, SchemaImplies, TypeCorrect, PTL DEF Spec

-----------------------------------------------------------------------------
(* Who gets in.                                                             *)

Places(query, pair) == {i \in DOMAIN query : query[i] = pair}
ASequence(query) == Len(query) \in Nat /\ DOMAIN query = 1 .. Len(query)

LEMMA PlacesFinite ==
  ASSUME NEW query, ASequence(query), NEW pair
  PROVE  IsFiniteSet(Places(query, pair))
<1>1. IsFiniteSet(1 .. Len(query))
  BY FS_Interval DEF ASequence
<1>2. Places(query, pair) \in SUBSET (1 .. Len(query))
  BY DEF Places, ASequence
<1> QED
  BY <1>1, <1>2, FS_Subset

Matched(a, b) ==
  \E f \in [DOMAIN a -> DOMAIN b] :
    \A i, j \in DOMAIN a : a[i] = b[f[i]] /\ (i # j => f[i] # f[j])

\* Pairs that occur equally often can be matched one by one.
LEMMA Matching ==
  ASSUME NEW a, NEW b, ASequence(a), ASequence(b), canonicalQuery(a) = canonicalQuery(b)
  PROVE  Matched(a, b)
<1> DEFINE R == {a[i] : i \in DOMAIN a}
<1>1. /\ canonicalQuery(a) = [x \in R |-> Cardinality(Places(a, x))]
      /\ canonicalQuery(b) = [x \in {b[i] : i \in DOMAIN b} |-> Cardinality(Places(b, x))]
  BY DEF canonicalQuery, Places
<1>2. \A x \in R : Cardinality(Places(a, x)) = Cardinality(Places(b, x))
  <2> DEFINE Q == {b[i] : i \in DOMAIN b}
             ca == [x \in R |-> Cardinality(Places(a, x))]
             cb == [x \in Q |-> Cardinality(Places(b, x))]
  <2>1. ca = cb
    BY <1>1
  <2>2. R = Q
    <3>1. DOMAIN ca = R /\ DOMAIN cb = Q
      OBVIOUS
    <3> HIDE DEF ca, cb, R, Q
    <3> QED
      BY <2>1, <3>1
  <2>3. ASSUME NEW x \in R
        PROVE  Cardinality(Places(a, x)) = Cardinality(Places(b, x))
    <3>1. ca[x] = Cardinality(Places(a, x)) /\ (x \in Q => cb[x] = Cardinality(Places(b, x)))
      OBVIOUS
    <3> HIDE DEF ca, cb, R, Q
    <3> QED
      BY <2>1, <2>2, <3>1
  <2> QED
    BY <2>3
<1>3. \A x \in R : \E h : h \in Bijection(Places(a, x), Places(b, x))
  BY <1>2, PlacesFinite, FS_SameCardinalityBij DEF ExistsBijection
<1> DEFINE g == [x \in R |-> CHOOSE h : h \in Bijection(Places(a, x), Places(b, x))]
           f == [i \in DOMAIN a |-> g[a[i]][i]]
<1>4. \A x \in R : g[x] \in Bijection(Places(a, x), Places(b, x))
  BY <1>3
<1>5. \A i \in DOMAIN a : a[i] \in R /\ i \in Places(a, a[i])
  BY DEF Places
<1> HIDE DEF R, g
<1>6. ASSUME NEW i \in DOMAIN a
      PROVE  f[i] = g[a[i]][i] /\ f[i] \in Places(b, a[i])
  <2>1. g[a[i]] \in [Places(a, a[i]) -> Places(b, a[i])]
    BY <1>4, <1>5 DEF Bijection, Injection
  <2> QED
    BY <1>5, <2>1
<1>7. ASSUME NEW i \in DOMAIN a, NEW j \in DOMAIN a, f[i] = f[j]
      PROVE  i = j
  <2>1. a[i] = b[f[i]] /\ a[j] = b[f[j]]
    BY <1>6 DEF Places
  <2>2. a[i] = a[j]
    BY <1>7, <2>1
  <2>3. g[a[i]] \in Injection(Places(a, a[i]), Places(b, a[i]))
    BY <1>4, <1>5 DEF Bijection
  <2>4. g[a[i]][i] = g[a[i]][j] /\ i \in Places(a, a[i]) /\ j \in Places(a, a[i])
    BY <1>5, <1>6, <1>7, <2>2
  <2> QED
    BY <2>3, <2>4 DEF Injection, IsInjective
<1>8. f \in [DOMAIN a -> DOMAIN b] /\ \A i \in DOMAIN a : a[i] = b[f[i]]
  BY <1>6 DEF Places
<1> HIDE DEF f
<1> QED
  BY <1>7, <1>8 DEF Matched

LEMMA NoLonger ==
  ASSUME NEW a, NEW b, ASequence(a), ASequence(b), canonicalQuery(a) = canonicalQuery(b)
  PROVE  Len(a) <= Len(b)
<1>1. Matched(a, b)
  BY Matching, Zenon
<1> DEFINE A == DOMAIN a
           B == DOMAIN b
           la == Len(a)
           lb == Len(b)
<1>2. A = 1 .. la /\ B = 1 .. lb /\ la \in Nat /\ lb \in Nat
  BY Zenon DEF ASequence
<1>3. PICK f \in [A -> B] : \A i, j \in A : a[i] = b[f[i]] /\ (i # j => f[i] # f[j])
  BY <1>1, Zenon DEF Matched
<1>4. \A i, j \in A : f[i] = f[j] => i = j
  BY <1>3, Zenon
<1> HIDE DEF A, B, la, lb
<1>5. f \in Injection(A, B)
  BY <1>3, <1>4 DEF Injection, IsInjective
<1>6. Cardinality(A) = la /\ Cardinality(B) = lb /\ IsFiniteSet(B)
  BY <1>2, FS_Interval
<1>7. la <= lb
  BY <1>5, <1>6, FS_Injection
<1> QED
  BY <1>7 DEF la, lb

LEMMA SameQuery ==
  ASSUME NEW a, NEW b, ASequence(a), ASequence(b), canonicalQuery(a) = canonicalQuery(b)
  PROVE  Len(a) = Len(b) /\ Matched(a, b)
<1> DEFINE la == Len(a)
           lb == Len(b)
<1>1. la <= lb /\ lb <= la
  BY NoLonger, Zenon
<1>2. la \in Nat /\ lb \in Nat
  BY Zenon DEF ASequence
<1> HIDE DEF la, lb
<1>3. la = lb
  BY <1>1, <1>2
<1> QED
  BY <1>3, Matching, Zenon DEF la, lb

\* Rounding a time down to the second.
LEMMA Stamping ==
  ASSUME NEW t \in Int
  PROVE  /\ Stamp(t) \in Int /\ Stamp(t) <= t /\ t - Second < Stamp(t)
<1>1. t % Second \in 0 .. Second - 1
  BY Constants
<1> QED
  BY <1>1, Constants DEF Stamp

LEMMA Meaning ==
  ASSUME NEW m \in Meant
  PROVE  m.sent \in 0 .. MaxNow /\ m.ahead \in Nat /\ m.req \in Asks
<1>1. m.sent \in 0 .. MaxNow /\ m.ahead \in Ahead /\ m.req \in Asks
  BY DEF Meant
<1> QED
  BY <1>1, EdgeAssumption

\* A signed request with one thing changed.
LEMMA OneThingChanged ==
  ASSUME NEW r, NEW al, NEW cr, NEW sg, NEW dt, NEW hs, NEW s,
         s = [req |-> r,
              headers |-> [auth |-> [algorithm |-> al, credential |-> cr, signature |-> sg],
                           date |-> dt, hash |-> hs]],
         NEW x
  PROVE  /\ s.req = r /\ s.headers.auth.signature = sg
         /\ [s EXCEPT !.req = x].req = x
         /\ [s EXCEPT !.req = x].headers.auth.signature = sg
         /\ [s EXCEPT !.headers.date = x].req = r
         /\ [s EXCEPT !.headers.date = x].headers.auth.signature = sg
         /\ [s EXCEPT !.headers.hash = x].req = r
         /\ [s EXCEPT !.headers.hash = x].headers.auth.signature = sg
         /\ [s EXCEPT !.headers.auth.algorithm = x].req = r
         /\ [s EXCEPT !.headers.auth.algorithm = x].headers.auth.signature = sg
         /\ [s EXCEPT !.headers.auth.credential = x].req = r
         /\ [s EXCEPT !.headers.auth.credential = x].headers.auth.signature = sg
         /\ [s EXCEPT !.headers.auth.signature = x].req = r
         /\ [s EXCEPT !.headers.auth.signature = x].headers.auth.signature = x
BY Zenon

\* What the client made of its secret, and of what.
TimeOf(m) == m.sent + m.ahead
ScopeOf(m) == Scope(m.cred.key, Stamp(TimeOf(m)), m.region, m.service)
SignatureOf(m) ==
  mac(m.cred.secret, CanonicalString(m.req, ScopeOf(m), Stamp(TimeOf(m))))

LEMMA OnItsWayShape ==
  ASSUME NEW m \in Meant, NEW w \in OnItsWay(m)
  PROVE  w.headers.auth.signature \in {SignatureOf(m), NoSignature} /\ w.req \in Variants
<1> DEFINE s == AsSigned(m)
           sg == SignatureOf(m)
           dt == Stamp(TimeOf(m))
           hs == HashBody(m.req.body)
           cr == ScopeOf(m)
<1>1. s = [req |-> m.req,
           headers |-> [auth |-> [algorithm |-> Algorithm, credential |-> cr,
                                  signature |-> sg],
                        date |-> dt, hash |-> hs]]
  BY Zenon DEF AsSigned, Sign, SignatureOf, ScopeOf, TimeOf
<1>2. m.req \in Variants
  <2>1. m.req \in Asks
    BY DEF Meant
  <2> QED
    BY <2>1, EdgeAssumption
<1>3. \/ w = s
      \/ \E x \in Variants : w = [s EXCEPT !.req = x]
      \/ \E x : w = [s EXCEPT !.headers.date = x]
      \/ \E x : w = [s EXCEPT !.headers.hash = x]
      \/ \E x : w = [s EXCEPT !.headers.auth.algorithm = x]
      \/ \E x : w = [s EXCEPT !.headers.auth.credential = x]
      \/ w = [s EXCEPT !.headers.auth.signature = NoSignature]
  BY Zenon DEF OnItsWay
<1> HIDE DEF s, sg, dt, hs, cr
<1>4. CASE w = s
  BY <1>1, <1>2, <1>4, OneThingChanged, Zenon DEF sg
<1>5. ASSUME NEW x \in Variants, w = [s EXCEPT !.req = x]
      PROVE  w.headers.auth.signature = sg /\ w.req = x
  BY <1>1, <1>5, OneThingChanged, Zenon
<1>6. ASSUME NEW x, w = [s EXCEPT !.headers.date = x]
      PROVE  w.headers.auth.signature = sg /\ w.req = m.req
  BY <1>1, <1>6, OneThingChanged, Zenon
<1>7. ASSUME NEW x, w = [s EXCEPT !.headers.hash = x]
      PROVE  w.headers.auth.signature = sg /\ w.req = m.req
  BY <1>1, <1>7, OneThingChanged, Zenon
<1>8. ASSUME NEW x, w = [s EXCEPT !.headers.auth.algorithm = x]
      PROVE  w.headers.auth.signature = sg /\ w.req = m.req
  BY <1>1, <1>8, OneThingChanged, Zenon
<1>9. ASSUME NEW x, w = [s EXCEPT !.headers.auth.credential = x]
      PROVE  w.headers.auth.signature = sg /\ w.req = m.req
  BY <1>1, <1>9, OneThingChanged, Zenon
<1>10. ASSUME w = [s EXCEPT !.headers.auth.signature = NoSignature]
       PROVE  w.headers.auth.signature = NoSignature /\ w.req = m.req
  BY <1>1, <1>10, OneThingChanged, Zenon
<1> QED
  BY <1>2, <1>3, <1>4, <1>5, <1>6, <1>7, <1>8, <1>9, <1>10, Zenon DEF sg

\* A verdict of ok is a signature over what is served, and a timestamp in time.
LEMMA VerdictOk ==
  ASSUME NEW w, Verdict(w) = "ok"
  PROVE  LET scope == w.headers.auth.credential IN
         /\ scope[1] \in DOMAIN Stored
         /\ scope[3] = Region /\ scope[4] = ServiceOf[w.req.path]
         /\ now - w.headers.date \in (0 - MaxSkew) .. MaxSkew
         /\ w.headers.auth.signature # NoSignature
         /\ w.headers.auth.signature
            = mac(Stored[scope[1]], CanonicalString(w.req, scope, w.headers.date))
<1> DEFINE scope == w.headers.auth.credential
           sees == Verify(w.req, w.headers, Stored[scope[1]], Region, ServiceOf[w.req.path], now)
<1>1. ParseAuthorization(w.headers.auth) = "parsed"
  BY Zenon DEF Verdict, ParseAuthorization
<1>2. scope[1] \in DOMAIN Stored /\ sees = "ok"
  BY <1>1 DEF Verdict
<1>3. w.headers.auth.signature # NoSignature
  BY <1>1, Zenon DEF ParseAuthorization
<1>4. /\ now - w.headers.date \in (0 - MaxSkew) .. MaxSkew
      /\ scope[3] = Region /\ scope[4] = ServiceOf[w.req.path]
      /\ w.headers.auth.signature
         = mac(Stored[scope[1]], CanonicalString(w.req, scope, w.headers.date))
  BY <1>2, Zenon DEF Verify
<1> QED
  BY <1>2, <1>3, <1>4

\* Equal signatures are signatures over the same, by the same secret.
LEMMA SameSignature ==
  ASSUME NEW s, NEW r, NEW o, NEW d, NEW t, NEW q, NEW u, NEW e,
         mac(s, CanonicalString(r, o, d)) = mac(t, CanonicalString(q, u, e))
  PROVE  /\ s = t /\ o = u /\ d = e
         /\ Upper(r.method) = Upper(q.method)
         /\ canonicalPath(r.path) = canonicalPath(q.path)
         /\ canonicalQuery(r.query) = canonicalQuery(q.query)
         /\ r.body = q.body
<1>1. s = t /\ CanonicalString(r, o, d) = CanonicalString(q, u, e)
  <2> HIDE DEF CanonicalString
  <2> QED
    BY DEF mac
<1>2. ASSUME NEW a1, NEW a2, NEW a3, NEW a4, NEW a5, NEW a6, NEW a7,
             NEW b1, NEW b2, NEW b3, NEW b4, NEW b5, NEW b6, NEW b7,
             <<a1, a2, a3, a4, a5, a6, a7>> = <<b1, b2, b3, b4, b5, b6, b7>>
      PROVE  a2 = b2 /\ a3 = b3 /\ a4 = b4 /\ a5 = b5 /\ a6 = b6 /\ a7 = b7
  BY <1>2
<1>3. /\ Upper(r.method) = Upper(q.method)
      /\ canonicalPath(r.path) = canonicalPath(q.path)
      /\ canonicalQuery(r.query) = canonicalQuery(q.query)
      /\ d = e /\ HashBody(r.body) = HashBody(q.body) /\ o = u
  BY <1>1, <1>2, Zenon DEF CanonicalString
<1>4. r.body = q.body
  BY <1>3 DEF HashBody
<1> QED
  BY <1>1, <1>3, <1>4

LEMMA LetInVerdict ==
  ASSUME TypeOK, Next, NEW c \in Calls, LetIn(c)
  PROVE  Verdict(calls[c].got) = "ok"
<1>1. CallsOK /\ calls[c].at = "in" /\ calls'[c].at = "let in"
  BY Types DEF LetIn
<1>2. ASSUME NEW p \in Processes, ProcessActs(p)
      PROVE  FALSE
  <2>1. calls' # calls
    BY <1>1
  <2>2. Cut(p)
    BY <1>1, <1>2, <2>1, ProcessStops
  <2>3. calls'[c] = [at |-> "cut", meant |-> calls[c].meant] \/ calls'[c] = calls[c]
    BY <1>1, <2>2, Cutting
  <2>4. [at |-> "cut", meant |-> calls[c].meant].at = "cut"
    OBVIOUS
  <2>5. calls'[c].at \in {"cut", "in"}
    BY <1>1, <2>3, <2>4, Zenon
  <2> QED
    BY <1>1, <2>5
<1>3. ASSUME NEW d \in Calls, CallActs(d)
      PROVE  Verdict(calls[c].got) = "ok"
  <2>1. PICK q : CallOK(q) /\ CallBecomes(d, q) /\ Called(d, q)
    BY <1>1, <1>3, CallMoves DEF CallMoved
  <2>2. calls'[d] = q /\ \A e \in Calls \ {d} : calls'[e] = calls[e]
    BY <1>1, <2>1, CallBecoming
  <2>3. c = d
    BY <1>1, <2>2
  <2> QED
    BY <1>1, <2>1, <2>2, <2>3, CalledAt
<1>4. ~Tick /\ \A d \in Calls : ~Waits(d)
  BY <1>1, WaitsOnly DEF Tick
<1> QED
  BY <1>2, <1>3, <1>4, NextActs

LEMMA AcceptedStep ==
  ASSUME TypeOK, Next, NEW c \in Calls, LetIn(c)
  PROVE  LET m == calls[c].meant
             w == calls[c].got
             age == now - (m.sent + m.ahead)
         IN /\ SameRequest(m.req, w.req)
            /\ m.cred.key \in DOMAIN Stored /\ m.cred.secret = Stored[m.cred.key]
            /\ m.region = Region /\ m.service = ServiceOf[w.req.path]
            /\ -MaxSkew - Second < age /\ age <= MaxSkew
<1> DEFINE m == calls[c].meant
           w == calls[c].got
           scope == w.headers.auth.credential
           stamp == Stamp(TimeOf(m))
<1>1. m \in Meant /\ w \in OnItsWay(m)
  BY Types, CallShape DEF LetIn, CallsOK
<1>2. Verdict(w) = "ok"
  BY LetInVerdict
<1> HIDE DEF m, w
<1>3. /\ scope[1] \in DOMAIN Stored
      /\ scope[3] = Region /\ scope[4] = ServiceOf[w.req.path]
      /\ now - w.headers.date \in (0 - MaxSkew) .. MaxSkew
      /\ w.headers.auth.signature # NoSignature
      /\ w.headers.auth.signature
         = mac(Stored[scope[1]], CanonicalString(w.req, scope, w.headers.date))
  BY <1>2, VerdictOk, Zenon
<1>4. w.headers.auth.signature = SignatureOf(m) /\ w.req \in Variants
  BY <1>1, <1>3, OnItsWayShape, Zenon
<1>5. mac(m.cred.secret, CanonicalString(m.req, ScopeOf(m), stamp))
      = mac(Stored[scope[1]], CanonicalString(w.req, scope, w.headers.date))
  BY <1>3, <1>4, Zenon DEF SignatureOf
<1>6. /\ m.cred.secret = Stored[scope[1]] /\ ScopeOf(m) = scope /\ stamp = w.headers.date
      /\ Upper(m.req.method) = Upper(w.req.method)
      /\ canonicalPath(m.req.path) = canonicalPath(w.req.path)
      /\ canonicalQuery(m.req.query) = canonicalQuery(w.req.query)
      /\ m.req.body = w.req.body
  BY <1>5, SameSignature
<1>7. scope[1] = m.cred.key /\ scope[3] = m.region /\ scope[4] = m.service
  <2>1. scope = <<m.cred.key, DateOf(stamp), m.region, m.service>>
    BY <1>6, Zenon DEF ScopeOf, Scope
  <2> HIDE DEF scope, stamp
  <2> QED
    BY <2>1
<1>8. SameRequest(m.req, w.req)
  <2>1. m.req \in Asks
    BY <1>1 DEF Meant
  <2>2. ASequence(m.req.query) /\ ASequence(w.req.query)
    BY <2>1, <1>4, EdgeAssumption, Zenon DEF ASequence
  <2>3. Len(m.req.query) = Len(w.req.query) /\ Matched(m.req.query, w.req.query)
    BY <1>6, <2>2, SameQuery, Zenon
  <2> QED
    BY <1>6, <2>3, Zenon DEF SameRequest, Matched
<1>9. -MaxSkew - Second < now - TimeOf(m) /\ now - TimeOf(m) <= MaxSkew
  <2>1. m.sent \in 0 .. MaxNow /\ m.ahead \in Nat
    BY <1>1, Meaning
  <2>2. TimeOf(m) \in Int
    BY <2>1 DEF TimeOf
  <2> DEFINE t == TimeOf(m)
  <2>3. stamp \in Int /\ stamp <= t /\ t - Second < stamp
    BY <2>2, Stamping
  <2>4. now \in Int /\ now - stamp \in (0 - MaxSkew) .. MaxSkew
    BY <1>3, <1>6, Types
  <2> HIDE DEF stamp, t
  <2>5. t \in Int
    BY <2>2 DEF t
  <2>6. -MaxSkew - Second < now - t /\ now - t <= MaxSkew
    BY <2>3, <2>4, <2>5, Constants
  <2> QED
    BY <2>6 DEF t
<1> QED
  BY <1>3, <1>6, <1>7, <1>8, <1>9, Zenon DEF m, w, TimeOf

\* Who gets in sent what is served, signed it with the key's own secret for
\* here, and did so in time: whatever changed on the way, however often it is
\* sent, and whatever the process was doing (signing.go:330-379).
THEOREM LetInAsSigned == Spec => AcceptedAsSigned
<1>1. TypeOK /\ [Next]_vars =>
        [\A c \in Calls : LetIn(c) =>
           LET m == calls[c].meant
               w == calls[c].got
               age == now - (m.sent + m.ahead)
           IN /\ SameRequest(m.req, w.req)
              /\ m.cred.key \in DOMAIN Stored /\ m.cred.secret = Stored[m.cred.key]
              /\ m.region = Region /\ m.service = ServiceOf[w.req.path]
              /\ -MaxSkew - Second < age /\ age <= MaxSkew]_vars
  BY AcceptedStep, Zenon
<1> QED
  BY <1>1, TypeCorrect, PTL DEF Spec, AcceptedAsSigned

-----------------------------------------------------------------------------
(* Who is turned away.                                                      *)

\* A query in another order is the same to both sides.
LEMMA Reordered ==
  ASSUME NEW a, NEW b, ASequence(a), ASequence(b), Len(a) = Len(b), Matched(a, b)
  PROVE  canonicalQuery(a) = canonicalQuery(b)
<1> DEFINE A == DOMAIN a
           B == DOMAIN b
           la == Len(a)
           lb == Len(b)
           R == {a[i] : i \in A}
           Q == {b[i] : i \in B}
<1>1. A = 1 .. la /\ B = 1 .. lb /\ la \in Nat /\ lb \in Nat /\ la = lb
  BY Zenon DEF ASequence
<1>2. PICK f \in [A -> B] : \A i, j \in A : a[i] = b[f[i]] /\ (i # j => f[i] # f[j])
  BY Zenon DEF Matched
<1>3. (\A i, j \in A : f[i] = f[j] => i = j) /\ (\A i \in A : a[i] = b[f[i]])
  BY <1>2, Zenon
<1>4. f \in Surjection(A, B)
  <2> HIDE DEF A, B, la, lb
  <2>1. f \in Injection(A, B)
    BY <1>2, <1>3 DEF Injection, IsInjective
  <2>2. IsFiniteSet(B) /\ Cardinality(A) = Cardinality(B)
    BY <1>1, FS_Interval
  <2> QED
    BY <2>1, <2>2, FS_Injection
<1>5. \A j \in B : \E i \in A : f[i] = j
  <2> HIDE DEF A, B
  <2> QED
    BY <1>4 DEF Surjection
<1>6. R = Q
  <2>1. ASSUME NEW x \in R
        PROVE  x \in Q
    <3>1. PICK i \in A : x = a[i]
      OBVIOUS
    <3>2. x = b[f[i]] /\ f[i] \in B
      <4> HIDE DEF A, B
      <4> QED
        BY <1>2, <1>3, <3>1
    <3> QED
      BY <3>2
  <2>2. ASSUME NEW x \in Q
        PROVE  x \in R
    <3>1. PICK j \in B : x = b[j]
      OBVIOUS
    <3>2. PICK i \in A : f[i] = j
      BY <1>5, Zenon
    <3>3. x = a[i]
      BY <1>3, <3>1, <3>2, Zenon
    <3> QED
      BY <3>3
  <2> QED
    BY <2>1, <2>2
<1>7. ASSUME NEW x
      PROVE  Cardinality(Places(a, x)) = Cardinality(Places(b, x))
  <2> DEFINE S == Places(a, x)
             T == Places(b, x)
             h == [i \in S |-> f[i]]
  <2>1. /\ \A i : i \in S <=> i \in A /\ a[i] = x
        /\ \A j : j \in T <=> j \in B /\ b[j] = x
    BY DEF Places
  <2>2. IsFiniteSet(S)
    BY PlacesFinite, Zenon
  <2> HIDE DEF S, T, A, B
  <2>3. \A i \in S : f[i] \in T
    BY <1>2, <1>3, <2>1
  <2>4. h \in Injection(S, T)
    BY <1>3, <2>1, <2>3 DEF Injection, IsInjective
  <2>5. \A j \in T : \E i \in S : h[i] = j
    BY <1>3, <1>5, <2>1
  <2>6. h \in Bijection(S, T)
    BY <2>4, <2>5 DEF Bijection, Surjection, Injection
  <2>7. ExistsBijection(S, T)
    BY <2>6 DEF ExistsBijection
  <2>8. Cardinality(S) = Cardinality(T)
    BY <2>2, <2>7, FS_Bijection
  <2> QED
    BY <2>8 DEF S, T
<1>8. canonicalQuery(a) = [x \in R |-> Cardinality(Places(a, x))]
  BY DEF canonicalQuery, Places
<1>9. canonicalQuery(b) = [x \in Q |-> Cardinality(Places(b, x))]
  BY DEF canonicalQuery, Places
<1> HIDE DEF R, Q
<1> QED
  BY <1>6, <1>7, <1>8, <1>9

\* The rest of a signed request with one thing changed.
LEMMA OtherThingsKept ==
  ASSUME NEW r, NEW al, NEW cr, NEW sg, NEW dt, NEW hs, NEW s,
         s = [req |-> r,
              headers |-> [auth |-> [algorithm |-> al, credential |-> cr, signature |-> sg],
                           date |-> dt, hash |-> hs]],
         NEW x
  PROVE  /\ s.headers.hash = hs /\ s.headers.auth.credential = cr
         /\ [s EXCEPT !.req = x].headers.hash = hs
         /\ [s EXCEPT !.req = x].headers.auth.credential = cr
         /\ [s EXCEPT !.headers.date = x].headers.hash = hs
         /\ [s EXCEPT !.headers.date = x].headers.auth.credential = cr
         /\ [s EXCEPT !.headers.hash = x].req = r
         /\ [s EXCEPT !.headers.hash = x].headers.auth.credential = cr
         /\ [s EXCEPT !.headers.auth.algorithm = x].headers.hash = hs
         /\ [s EXCEPT !.headers.auth.algorithm = x].headers.auth.credential = cr
         /\ [s EXCEPT !.headers.auth.credential = x].headers.hash = hs
         /\ [s EXCEPT !.headers.auth.credential = x].headers.auth.credential = x
         /\ [s EXCEPT !.headers.auth.signature = x].headers.hash = hs
         /\ [s EXCEPT !.headers.auth.signature = x].headers.auth.credential = cr
BY Zenon

\* A client's own fields, as signed.
LEMMA AsSignedShape ==
  ASSUME NEW m
  PROVE  AsSigned(m)
         = [req |-> m.req,
            headers |-> [auth |-> [algorithm |-> Algorithm, credential |-> ScopeOf(m),
                                   signature |-> SignatureOf(m)],
                         date |-> Stamp(TimeOf(m)), hash |-> HashBody(m.req.body)]]
BY Zenon DEF AsSigned, Sign, SignatureOf, ScopeOf, TimeOf

\* The hash is that of the body signed, or the request is the one signed; and
\* a credential of four parts has the region signed for.
LEMMA OnItsWayKeeps ==
  ASSUME NEW m \in Meant, NEW w \in OnItsWay(m)
  PROVE  /\ w.headers.hash = HashBody(m.req.body) \/ w.req = m.req
         /\ Len(w.headers.auth.credential) = 4 => w.headers.auth.credential[3] = m.region
<1> DEFINE s == AsSigned(m)
           sg == SignatureOf(m)
           dt == Stamp(TimeOf(m))
           hs == HashBody(m.req.body)
           cr == ScopeOf(m)
           Kept(c) == Len(c) = 4 => c[3] = m.region
<1>1. s = [req |-> m.req,
           headers |-> [auth |-> [algorithm |-> Algorithm, credential |-> cr,
                                  signature |-> sg],
                        date |-> dt, hash |-> hs]]
  BY AsSignedShape, Zenon
<1>2. cr = <<m.cred.key, DateOf(dt), m.region, m.service>>
  BY Zenon DEF ScopeOf, Scope
<1>3. s.headers.auth.credential = cr
  <2> HIDE DEF s, sg, dt, hs, cr
  <2> QED
    BY <1>1, OtherThingsKept, Zenon
<1> DEFINE was == s.headers.auth.credential
           creds == {<<was[1]>>} \union {[was EXCEPT ![4] = v] : v \in Services}
<1>4. \/ w = s
      \/ \E x : w = [s EXCEPT !.req = x]
      \/ \E x : w = [s EXCEPT !.headers.date = x]
      \/ \E x : w = [s EXCEPT !.headers.hash = x]
      \/ \E x : w = [s EXCEPT !.headers.auth.algorithm = x]
      \/ \E x \in creds : w = [s EXCEPT !.headers.auth.credential = x]
      \/ \E x : w = [s EXCEPT !.headers.auth.signature = x]
  <2> DEFINE requests == {[s EXCEPT !.req = r] : r \in Variants}
             dates == {[s EXCEPT !.headers.date = d] :
                         d \in {NoDate, BadDate, s.headers.date + Second,
                                s.headers.date + Day}}
             hashes == {[s EXCEPT !.headers.hash = h] :
                          h \in {NoHash} \union {HashBody(r.body) : r \in Variants}}
             algorithms == {[s EXCEPT !.headers.auth.algorithm = "HMAC"]}
             credentials == {[s EXCEPT !.headers.auth.credential = c] : c \in creds}
             signatures == {[s EXCEPT !.headers.auth.signature = NoSignature]}
  <2>1. OnItsWay(m) = {s} \union requests \union dates \union hashes
                      \union algorithms \union credentials \union signatures
    BY Zenon DEF OnItsWay
  <2> HIDE DEF s, was, creds, requests, dates, hashes, algorithms, credentials, signatures
  <2>2. \/ w = s \/ w \in requests \/ w \in dates \/ w \in hashes
        \/ w \in algorithms \/ w \in credentials \/ w \in signatures
    BY <2>1, Zenon
  <2>3. w \in requests => \E x : w = [s EXCEPT !.req = x]
    BY Zenon DEF requests
  <2>4. w \in dates => \E x : w = [s EXCEPT !.headers.date = x]
    BY Zenon DEF dates
  <2>5. w \in hashes => \E x : w = [s EXCEPT !.headers.hash = x]
    BY Zenon DEF hashes
  <2>6. w \in algorithms => \E x : w = [s EXCEPT !.headers.auth.algorithm = x]
    BY Zenon DEF algorithms
  <2>7. w \in credentials => \E x \in creds : w = [s EXCEPT !.headers.auth.credential = x]
    BY Zenon DEF credentials
  <2>8. w \in signatures => \E x : w = [s EXCEPT !.headers.auth.signature = x]
    BY Zenon DEF signatures
  <2> QED
    BY <2>2, <2>3, <2>4, <2>5, <2>6, <2>7, <2>8, Zenon
<1>5. Kept(cr)
  <2> HIDE DEF cr, dt
  <2> QED
    BY <1>2
<1>6. Kept(<<cr[1]>>)
  BY DEF Kept
<1>7. ASSUME NEW v
      PROVE  Kept([cr EXCEPT ![4] = v])
  <2> HIDE DEF cr, dt
  <2>1. [cr EXCEPT ![4] = v][3] = cr[3]
    BY <1>2
  <2> QED
    BY <1>2, <2>1
<1> HIDE DEF s, sg, dt, hs, cr, Kept, was, creds
<1>8. ASSUME w = s
      PROVE  w.headers.hash = hs /\ Kept(w.headers.auth.credential)
  BY <1>1, <1>5, <1>8, OtherThingsKept, Zenon
<1>9. ASSUME NEW x, w = [s EXCEPT !.req = x]
      PROVE  w.headers.hash = hs /\ Kept(w.headers.auth.credential)
  BY <1>1, <1>5, <1>9, OtherThingsKept, Zenon
<1>10. ASSUME NEW x, w = [s EXCEPT !.headers.date = x]
       PROVE  w.headers.hash = hs /\ Kept(w.headers.auth.credential)
  BY <1>1, <1>5, <1>10, OtherThingsKept, Zenon
<1>11. ASSUME NEW x, w = [s EXCEPT !.headers.hash = x]
       PROVE  w.req = m.req /\ Kept(w.headers.auth.credential)
  BY <1>1, <1>5, <1>11, OtherThingsKept, Zenon
<1>12. ASSUME NEW x, w = [s EXCEPT !.headers.auth.algorithm = x]
       PROVE  w.headers.hash = hs /\ Kept(w.headers.auth.credential)
  BY <1>1, <1>5, <1>12, OtherThingsKept, Zenon
<1>13. ASSUME NEW x, Kept(x), w = [s EXCEPT !.headers.auth.credential = x]
       PROVE  w.headers.hash = hs /\ Kept(w.headers.auth.credential)
  <2>1. w.headers.hash = hs /\ w.headers.auth.credential = x
    BY <1>1, <1>13, OtherThingsKept, Zenon
  <2> QED
    BY <1>13, <2>1, Zenon
<1>14. ASSUME NEW x, w = [s EXCEPT !.headers.auth.signature = x]
       PROVE  w.headers.hash = hs /\ Kept(w.headers.auth.credential)
  BY <1>1, <1>5, <1>14, OtherThingsKept, Zenon
<1>15. was = cr
  BY <1>3 DEF was
<1>16. ASSUME NEW x \in creds
       PROVE  Kept(x)
  <2>1. x = <<cr[1]>> \/ \E v : x = [cr EXCEPT ![4] = v]
    BY <1>15, Zenon DEF creds
  <2> QED
    BY <1>6, <1>7, <2>1, Zenon
<1>17. (w.headers.hash = hs \/ w.req = m.req) /\ Kept(w.headers.auth.credential)
  <2> DEFINE Goal == (w.headers.hash = hs \/ w.req = m.req)
                     /\ Kept(w.headers.auth.credential)
  <2>1. ASSUME \E x : w = [s EXCEPT !.req = x]  PROVE Goal
    BY <1>9, <2>1, Zenon
  <2>2. ASSUME \E x : w = [s EXCEPT !.headers.date = x]  PROVE Goal
    BY <1>10, <2>2, Zenon
  <2>3. ASSUME \E x : w = [s EXCEPT !.headers.hash = x]  PROVE Goal
    BY <1>11, <2>3, Zenon
  <2>4. ASSUME \E x : w = [s EXCEPT !.headers.auth.algorithm = x]  PROVE Goal
    BY <1>12, <2>4, Zenon
  <2>5. ASSUME \E x \in creds : w = [s EXCEPT !.headers.auth.credential = x]
        PROVE  Goal
    BY <1>13, <1>16, <2>5, Zenon
  <2>6. ASSUME \E x : w = [s EXCEPT !.headers.auth.signature = x]  PROVE Goal
    BY <1>14, <2>6, Zenon
  <2>7. ASSUME w = s  PROVE Goal
    BY <1>8, <2>7, Zenon
  <2> HIDE DEF Goal
  <2>8. Goal
    BY <1>4, <2>1, <2>2, <2>3, <2>4, <2>5, <2>6, <2>7, Zenon
  <2> QED
    BY <2>8 DEF Goal
<1> QED
  BY <1>17, Zenon DEF hs, Kept

\* A timestamp is a time.
LEMMA StampIsTime ==
  ASSUME NEW t \in Nat
  PROVE  Stamp(t) \notin {NoDate, BadDate}
<1>1. t % Second <= t
  <2>1. CASE t < Second
    BY <2>1, Constants
  <2>2. CASE t >= Second
    <3>1. t % Second \in 0 .. Second - 1
      BY Constants
    <3> QED
      BY <2>2, <3>1, Constants
  <2> QED
    BY <2>1, <2>2, Constants
<1>2. t % Second \in Int
  BY Constants
<1> QED
  BY <1>1, <1>2 DEF Stamp, NoDate, BadDate

\* What the refusal of a signature has ruled out.
LEMMA VerdictSignature ==
  ASSUME NEW w, Verdict(w) = "signature_does_not_match"
  PROVE  LET scope == w.headers.auth.credential IN
         /\ Len(scope) = 4 /\ scope[3] = Region
         /\ now - w.headers.date \in (0 - MaxSkew) .. MaxSkew
         /\ w.headers.hash \in {NoHash, HashBody(w.req.body)}
<1> DEFINE scope == w.headers.auth.credential
           sees == Verify(w.req, w.headers, Stored[scope[1]], Region, ServiceOf[w.req.path], now)
<1>1. ParseAuthorization(w.headers.auth) = "parsed"
  BY Zenon DEF Verdict, ParseAuthorization
<1>2. sees = "signature_does_not_match"
  BY <1>1, Zenon DEF Verdict
<1>3. Len(scope) = 4
  BY <1>1, Zenon DEF ParseAuthorization
<1>4. now - w.headers.date \in (0 - MaxSkew) .. MaxSkew
  BY <1>2, Zenon DEF Verify
<1>5. scope[3] = Region
  BY <1>2, Zenon DEF Verify
<1>6. w.headers.hash = NoHash \/ w.headers.hash = HashBody(w.req.body)
  BY <1>2, Zenon DEF Verify
<1> QED
  BY <1>3, <1>4, <1>5, <1>6, Zenon

LEMMA NothingBetter ==
  ASSUME TypeOK, NEW c \in Calls, calls[c].at = "in",
         Verdict(calls[c].got) = "signature_does_not_match"
  PROVE  NoBetterName(c)
<1> DEFINE m == calls[c].meant
           w == calls[c].got
           stamp == Stamp(TimeOf(m))
           date == w.headers.date
<1>1. m \in Meant /\ w \in OnItsWay(m)
  BY Types, CallShape DEF CallsOK
<1> HIDE DEF m, w
<1>2. /\ Len(w.headers.auth.credential) = 4 /\ w.headers.auth.credential[3] = Region
      /\ now - date \in (0 - MaxSkew) .. MaxSkew
      /\ w.headers.hash \in {NoHash, HashBody(w.req.body)}
  BY VerdictSignature, Zenon DEF w
<1>3. m.region = Region
  BY <1>1, <1>2, OnItsWayKeeps, Zenon
<1>4. w.req.body = m.req.body \/ w.headers.hash = NoHash
  <2>1. ASSUME NEW a, NEW b, HashBody(a) = HashBody(b)
        PROVE  a = b
    BY <2>1 DEF HashBody
  <2>2. w.headers.hash = HashBody(m.req.body) \/ w.req = m.req
    BY <1>1, OnItsWayKeeps, Zenon
  <2>3. w.headers.hash = NoHash \/ w.headers.hash = HashBody(w.req.body)
    BY <1>2, Zenon
  <2> QED
    BY <2>1, <2>2, <2>3, Zenon
<1>5. AsSigned(m).headers.date = stamp
  BY AsSignedShape, Zenon
<1>6. date = stamp => -MaxSkew - Second < now - TimeOf(m) /\ now - TimeOf(m) <= MaxSkew
  <2>1. m.sent \in 0 .. MaxNow /\ m.ahead \in Nat
    BY <1>1, Meaning
  <2>2. TimeOf(m) \in Int
    BY <2>1 DEF TimeOf
  <2> DEFINE t == TimeOf(m)
  <2>3. stamp \in Int /\ stamp <= t /\ t - Second < stamp
    BY <2>2, Stamping
  <2>4. now \in Int /\ now - date \in (0 - MaxSkew) .. MaxSkew
    BY <1>2, Types
  <2> HIDE DEF stamp, t, date
  <2>5. t \in Int
    BY <2>2 DEF t
  <2>6. date = stamp => -MaxSkew - Second < now - t /\ now - t <= MaxSkew
    BY <2>3, <2>4, <2>5, Constants
  <2> QED
    BY <2>6 DEF t
<1> QED
  BY <1>3, <1>4, <1>5, <1>6, Zenon DEF NoBetterName, m, w, TimeOf

\* Nothing stands in the way of a call that is in order.
LEMMA InOrderIsOk ==
  ASSUME TypeOK, NEW c \in Calls, calls[c].at = "in", InOrder(c)
  PROVE  Verdict(calls[c].got) = "ok"
<1> DEFINE m == calls[c].meant
           w == calls[c].got
           t == TimeOf(m)
           stamp == Stamp(t)
           scope == ScopeOf(m)
<1>1. m \in Meant /\ w \in OnItsWay(m)
  BY Types, CallShape DEF CallsOK
<1>2. /\ w.headers = AsSigned(m).headers /\ SameRequest(m.req, w.req)
      /\ m.cred.key \in DOMAIN Stored /\ m.cred.secret = Stored[m.cred.key]
      /\ m.region = Region /\ m.service = ServiceOf[w.req.path]
      /\ -MaxSkew <= now - t /\ now - t <= MaxSkew - (Second - 1)
  BY Zenon DEF InOrder, TimeOf
<1> HIDE DEF m, w, t
<1>3. /\ w.headers.auth.algorithm = Algorithm /\ w.headers.auth.credential = scope
      /\ w.headers.auth.signature = SignatureOf(m)
      /\ w.headers.date = stamp /\ w.headers.hash = HashBody(m.req.body)
  <2> DEFINE sg == SignatureOf(m)
             hs == HashBody(m.req.body)
             hd == w.headers
  <2>1. AsSigned(m) = [req |-> m.req,
                       headers |-> [auth |-> [algorithm |-> Algorithm, credential |-> scope,
                                              signature |-> sg],
                                    date |-> stamp, hash |-> hs]]
    BY AsSignedShape, Zenon DEF t
  <2>2. hd = AsSigned(m).headers
    BY <1>2, Zenon
  <2> HIDE DEF stamp, scope, sg, hs, hd
  <2>3. hd = [auth |-> [algorithm |-> Algorithm, credential |-> scope, signature |-> sg],
              date |-> stamp, hash |-> hs]
    BY ONLY <2>1, <2>2
  <2>4. /\ hd.auth.algorithm = Algorithm /\ hd.auth.credential = scope
        /\ hd.auth.signature = sg /\ hd.date = stamp /\ hd.hash = hs
    BY <2>3, Zenon
  <2> QED
    BY <2>4, Zenon DEF sg, hs, hd
<1>4. /\ Len(scope) = 4 /\ scope[1] = m.cred.key /\ scope[2] = DateOf(stamp)
      /\ scope[3] = m.region /\ scope[4] = m.service
  <2>1. scope = <<m.cred.key, DateOf(stamp), m.region, m.service>>
    BY Zenon DEF ScopeOf, Scope, t
  <2> HIDE DEF scope, stamp
  <2> QED
    BY <2>1
<1>5. SignatureOf(m) # NoSignature
  <2>1. \A a, b : <<a, b>> # <<>>
    OBVIOUS
  <2> QED
    BY <2>1, Zenon DEF SignatureOf, mac, NoSignature
<1>6. stamp \notin {NoDate, BadDate} /\ now - stamp \in (0 - MaxSkew) .. MaxSkew
  <2>1. m.sent \in 0 .. MaxNow /\ m.ahead \in Nat
    BY <1>1, Meaning
  <2>2. t \in Nat
    BY <2>1, Constants DEF TimeOf, t
  <2>3. stamp \in Int /\ stamp <= t /\ t - Second < stamp
    BY <2>2, Stamping
  <2>4. stamp \notin {NoDate, BadDate}
    BY <2>2, StampIsTime
  <2>5. now \in Int
    BY Types
  <2> HIDE DEF stamp
  <2>6. now - stamp \in (0 - MaxSkew) .. MaxSkew
    BY <1>2, <2>2, <2>3, <2>5, Constants
  <2> QED
    BY <2>4, <2>6
<1>7. /\ Upper(m.req.method) = Upper(w.req.method)
      /\ canonicalPath(m.req.path) = canonicalPath(w.req.path)
      /\ canonicalQuery(m.req.query) = canonicalQuery(w.req.query)
      /\ m.req.body = w.req.body
  <2>1. m.req \in Asks /\ w.req \in Variants
    BY <1>1, Meaning, OnItsWayShape, Zenon
  <2>2. ASequence(m.req.query) /\ ASequence(w.req.query)
    BY <2>1, EdgeAssumption, Zenon DEF ASequence
  <2>3. Len(m.req.query) = Len(w.req.query) /\ Matched(m.req.query, w.req.query)
    BY <1>2, Zenon DEF SameRequest, Matched
  <2>4. canonicalQuery(m.req.query) = canonicalQuery(w.req.query)
    BY <2>2, <2>3, Reordered, Zenon
  <2> QED
    BY <1>2, <2>4, Zenon DEF SameRequest
<1>8. w.headers.auth.signature
      = mac(Stored[m.cred.key], CanonicalString(w.req, scope, stamp))
  <2>1. CanonicalString(m.req, scope, stamp) = CanonicalString(w.req, scope, stamp)
    BY <1>7, Zenon DEF CanonicalString
  <2> QED
    BY <1>2, <1>3, <2>1, Zenon DEF SignatureOf, t
<1>9. ParseAuthorization(w.headers.auth) = "parsed"
  BY <1>3, <1>4, <1>5, Zenon DEF ParseAuthorization
<1>10. Verify(w.req, w.headers, Stored[m.cred.key], Region, ServiceOf[w.req.path], now) = "ok"
  <2>1. stamp # NoDate /\ stamp # BadDate
    BY <1>6
  <2> HIDE DEF stamp, scope
  <2> QED
    BY <1>2, <1>3, <1>4, <1>6, <1>7, <1>8, <2>1, Zenon DEF Verify
<1> QED
  BY <1>2, <1>3, <1>4, <1>9, <1>10, Zenon DEF Verdict, w

LEMMA RefusedStep ==
  ASSUME TypeOK, Next, NEW c \in Calls, TurnedAway(c)
  PROVE  Explains(c, calls'[c].why)
<1>1. CallsOK /\ calls[c].at = "in" /\ calls'[c].at = "refused"
  BY Types DEF TurnedAway
<1>2. ASSUME NEW p \in Processes, ProcessActs(p)
      PROVE  FALSE
  <2>1. calls' # calls
    BY <1>1
  <2>2. Cut(p)
    BY <1>1, <1>2, <2>1, ProcessStops
  <2>3. calls'[c] = [at |-> "cut", meant |-> calls[c].meant] \/ calls'[c] = calls[c]
    BY <1>1, <2>2, Cutting
  <2>4. [at |-> "cut", meant |-> calls[c].meant].at = "cut"
    OBVIOUS
  <2>5. calls'[c].at \in {"cut", "in"}
    BY <1>1, <2>3, <2>4, Zenon
  <2> QED
    BY <1>1, <2>5
<1>3. ASSUME NEW d \in Calls, CallActs(d)
      PROVE  Explains(c, calls'[c].why)
  <2>1. PICK q : CallOK(q) /\ CallBecomes(d, q) /\ Called(d, q)
    BY <1>1, <1>3, CallMoves DEF CallMoved
  <2>2. calls'[d] = q /\ \A e \in Calls \ {d} : calls'[e] = calls[e]
    BY <1>1, <2>1, CallBecoming
  <2>3. c = d
    BY <1>1, <2>2
  <2>4. \/ q.at \in {"away", "idle", "in", "answered", "cut"}
        \/ q.at = "refused" /\ Explains(c, q.why)
        \/ q.at = "let in" /\ Verdict(calls[c].got) = "ok"
    BY <2>1, <2>3, CalledAt, Zenon
  <2>5. q.at = "refused"
    BY <1>1, <2>2, <2>3, Zenon
  <2>6. Explains(c, q.why)
    BY <2>4, <2>5
  <2> QED
    BY <2>2, <2>3, <2>6, Zenon
<1>4. ~Tick /\ \A d \in Calls : ~Waits(d)
  BY <1>1, WaitsOnly DEF Tick
<1> QED
  BY <1>2, <1>3, <1>4, NextActs

LEMMA TurnedAwayStep ==
  ASSUME TypeOK, Next, NEW c \in Calls, TurnedAway(c)
  PROVE  LET why == calls'[c].why IN
           /\ why \in {"unreadable", "unknown_or_unusable_credentials"} \/ ~InOrder(c)
           /\ why = "signature_does_not_match" => NoBetterName(c)
<1> DEFINE why == calls'[c].why
           verdict == Verdict(calls[c].got)
<1>1. \/ why \in {"unreadable", "unknown_or_unusable_credentials"}
      \/ why = verdict /\ why # "ok"
  BY RefusedStep, Zenon DEF Explains
<1>2. calls[c].at = "in"
  BY DEF TurnedAway
<1>3. InOrder(c) => verdict = "ok"
  BY <1>2, InOrderIsOk, Zenon
<1>4. verdict = "signature_does_not_match" => NoBetterName(c)
  BY <1>2, NothingBetter, Zenon
<1> HIDE DEF why, verdict
<1>5. /\ why \in {"unreadable", "unknown_or_unusable_credentials"} \/ ~InOrder(c)
      /\ why = "signature_does_not_match" => NoBetterName(c)
  BY <1>1, <1>3, <1>4
<1> QED
  BY <1>5 DEF why

\* A call in order is let in, unless it could not be read or its key could not
\* be resolved; and a refused signature is never the second thing wrong with
\* the time, the region or the body (signing.go:350-352).
THEOREM TurnsAwayForAReason == Spec => RefusalsAreExplained
<1>1. TypeOK /\ [Next]_vars =>
        [\A c \in Calls : TurnedAway(c) =>
           LET why == calls'[c].why IN
             /\ why \in {"unreadable", "unknown_or_unusable_credentials"} \/ ~InOrder(c)
             /\ why = "signature_does_not_match" => NoBetterName(c)]_vars
  BY TurnedAwayStep, Zenon
<1> QED
  BY <1>1, TypeCorrect, PTL DEF Spec, RefusalsAreExplained
=============================================================================
