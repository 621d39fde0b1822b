------------------------------ MODULE TtlCache ------------------------------
(***************************************************************************)
(* internal/ttlcache: the read-through cache in front of the access keys   *)
(* (control/keycache.go) and of the attached policies (iam/authorize.go).  *)
(* Many goroutines Get; a miss is one load per key, shared through         *)
(* singleflight; a full cache refuses; Invalidate drops one key.           *)
(*                                                                         *)
(* The rows behind the cache are versions: the answer a query gives after  *)
(* the nth change.  Time is in ticks, and only Tick moves it.              *)
(***************************************************************************)
EXTENDS Integers, FiniteSets

CONSTANTS
  Keys,         \* access key ids, or principals
  Gets,         \* goroutines that call Get
  Negative,     \* versions whose answer is an error IsNegative accepts
  TTL,          \* Options.TTL
  NegativeTTL,  \* Options.NegativeTTL
  MaxEntries,   \* Options.MaxEntries
  MaxLoad,      \* how long ago what a load answers may have been read
  MaxVersion,   \* BOUND: changes of one row
  MaxChanged,   \* BOUND: rows that change at all
  MaxTime       \* BOUND: ticks

ASSUME TtlCacheAssumption ==
  /\ IsFiniteSet(Keys)
  /\ TTL \in Nat \ {0} /\ NegativeTTL \in Nat \ {0} /\ MaxEntries \in Nat \ {0}
  /\ MaxLoad \in Nat /\ MaxVersion \in Nat /\ MaxTime \in Nat /\ MaxChanged \in Nat
  /\ Negative \subseteq 0 .. MaxVersion

VARIABLES
  now,      \* c.now()
  truth,    \* the version of each row
  due,      \* the version a change made by this process left, while its
            \* Invalidate has yet to be called; 0 if none
  entries,  \* Cache.entries
  flights,  \* Cache.group: the one load there is for a key
  gets,     \* the Gets under way
  floor,    \* history: the version behind the last Invalidate of a key
  best,     \* history: the newest version a Get has answered with
  refused   \* history: the keys whose entry store has refused to replace

rows == <<truth, due>>
history == <<floor, best, refused>>
vars == <<now, truth, due, entries, flights, gets, floor, best, refused>>

-----------------------------------------------------------------------------
Version == 0 .. MaxVersion
Time == 0 .. MaxTime

\* An entry, with when its row was read.
NoEntry == [v |-> -1]
Entry == [v : Version, asof : Time, expires : Int]

NoFlight == [at |-> "none"]
Flight == {NoFlight, [at |-> "load"], [at |-> "failed"]} \union
          [at : {"store", "loaded"}, v : Version, asof : Time]

\* A Get that has missed, then its answer.  need and saw are what it may expect
\* to see: the floor and the best of its key when it began.
NoGet == [at |-> "idle"]
Get == {NoGet} \union
       [at : {"join", "wait", "error"}, key : Keys, need : Version, saw : Version] \union
       [at : {"done"}, key : Keys, need : Version, saw : Version, v : Version, age : Int]

TypeOK ==
  /\ now \in Time
  /\ truth \in [Keys -> Version] /\ due \in [Keys -> Version]
  /\ entries \in [Keys -> Entry \union {NoEntry}]
  /\ flights \in [Keys -> Flight]
  /\ gets \in [Gets -> Get]
  /\ floor \in [Keys -> Version] /\ best \in [Keys -> Version]
  /\ refused \in SUBSET Keys

Init ==
  /\ now = 0
  /\ truth = [k \in Keys |-> 0] /\ due = [k \in Keys |-> 0]
  /\ entries = [k \in Keys |-> NoEntry]
  /\ flights = [k \in Keys |-> NoFlight]
  /\ gets = [g \in Gets |-> NoGet]
  /\ floor = [k \in Keys |-> 0] /\ best = [k \in Keys |-> 0]
  /\ refused = {}

\* now.Before(expiresAt)
Live(e) == e # NoEntry /\ now < e.expires
Held(es) == {k \in Keys : es[k] # NoEntry}
Newer(a, b) == IF a > b THEN a ELSE b

-----------------------------------------------------------------------------
(* Get.                                                                     *)

Answer(g, k, v, asof) ==
  [at |-> "done", key |-> k, need |-> gets[g].need, saw |-> gets[g].saw,
   v |-> v, age |-> now - asof]

\* Mutation: an entry is still good at the instant it expires.
LookupAtExpiry(g, k) ==
  /\ gets[g] = NoGet
  /\ LET e == entries[k] IN
       IF e # NoEntry /\ now <= e.expires
         THEN /\ gets' = [gets EXCEPT ![g] = [at |-> "done", key |-> k, need |-> floor[k],
                                              saw |-> best[k], v |-> e.v, age |-> now - e.asof]]
              /\ best' = [best EXCEPT ![k] = Newer(@, e.v)]
         ELSE /\ gets' = [gets EXCEPT ![g] = [at |-> "join", key |-> k, need |-> floor[k],
                                              saw |-> best[k]]]
              /\ UNCHANGED best
  /\ UNCHANGED <<now, rows, entries, flights, floor, refused>>

\* lookup: an entry that has not expired is the answer, whatever it holds.
Lookup(g, k) ==
  /\ gets[g] = NoGet
  /\ LET e == entries[k] IN
       IF Live(e)
         THEN /\ gets' = [gets EXCEPT ![g] = [at |-> "done", key |-> k, need |-> floor[k],
                                              saw |-> best[k], v |-> e.v, age |-> now - e.asof]]
              /\ best' = [best EXCEPT ![k] = Newer(@, e.v)]
         ELSE /\ gets' = [gets EXCEPT ![g] = [at |-> "join", key |-> k, need |-> floor[k],
                                              saw |-> best[k]]]
              /\ UNCHANGED best
  /\ UNCHANGED <<now, rows, entries, flights, floor, refused>>

\* group.Do: the load there is for the key, however far it has got, or a new one.
Join(g) ==
  /\ gets[g].at = "join"
  /\ LET k == gets[g].key IN
       flights' = IF flights[k] = NoFlight THEN [flights EXCEPT ![k] = [at |-> "load"]]
                  ELSE flights
  /\ gets' = [gets EXCEPT ![g].at = "wait"]
  /\ UNCHANGED <<now, rows, entries, history>>

\* The row is read, at some point of the load.
LoadReads(k) ==
  /\ flights[k] = [at |-> "load"]
  /\ flights' = [flights EXCEPT ![k] = [at |-> "store", v |-> truth[k], asof |-> now]]
  /\ UNCHANGED <<now, rows, entries, gets, history>>

\* Mutation: what a load that failed would have read is remembered all the same.
LoadFailsIsStored(k) ==
  /\ flights[k] = [at |-> "load"]
  /\ flights' = [flights EXCEPT ![k] = [at |-> "store", v |-> -1, asof |-> now]]
  /\ UNCHANGED <<now, rows, entries, gets, history>>

\* An error that is no answer: the database's, or the leader's context ended.
LoadFails(k) ==
  /\ flights[k] = [at |-> "load"]
  /\ flights' = [flights EXCEPT ![k] = [at |-> "failed"]]
  /\ UNCHANGED <<now, rows, entries, gets, history>>

Swept == [k \in Keys |-> IF Live(entries[k]) THEN entries[k] ELSE NoEntry]

\* store, when there is room: an answer, negative or not, and how long for.
Insert(es, k) ==
  LET f == flights[k] IN
    entries' = [es EXCEPT ![k] =
                  [v |-> f.v, asof |-> f.asof,
                   expires |-> now + IF f.v \in Negative THEN NegativeTTL ELSE TTL]]

\* What a store starts from: a full cache is swept.
Room == IF Cardinality(Held(entries)) >= MaxEntries THEN Swept ELSE entries

\* Of the keys in rs, those whose entry is what it was.
Kept(rs, es) == {j \in rs : entries[j] # NoEntry /\ es[j] = entries[j]}

\* Mutation: a full cache makes room.
StoreEvicts(k) ==
  /\ flights[k].at = "store"
  /\ \/ Cardinality(Held(entries)) < MaxEntries /\ Insert(entries, k)
     \/ /\ Cardinality(Held(entries)) >= MaxEntries
        /\ \E j \in Held(entries) : Insert([entries EXCEPT ![j] = NoEntry], k)
  /\ refused' = Kept(refused, entries')
  /\ flights' = [flights EXCEPT ![k].at = "loaded"]
  /\ UNCHANGED <<now, rows, gets, floor, best>>

\* Mutation: the cache is taken to have room once it has been swept.
StoreOverfills(k) ==
  /\ flights[k].at = "store"
  /\ Insert(Room, k)
  /\ refused' = Kept(refused, entries')
  /\ flights' = [flights EXCEPT ![k].at = "loaded"]
  /\ UNCHANGED <<now, rows, gets, floor, best>>

\* Mutation: in a cache with room, an entry that is there is left there.
StoreKeepsOld(k) ==
  /\ flights[k].at = "store"
  /\ IF Cardinality(Held(Room)) >= MaxEntries
       THEN /\ entries' = Room
            /\ refused' = Kept(refused \union {k}, Room)
       ELSE /\ IF Live(Room[k]) THEN entries' = Room ELSE Insert(Room, k)
            /\ refused' = Kept(refused, entries')
  /\ flights' = [flights EXCEPT ![k].at = "loaded"]
  /\ UNCHANGED <<now, rows, gets, floor, best>>

\* store: a full cache is swept; if it is still full it refuses, even to
\* replace what it holds for that very key.
Store(k) ==
  /\ flights[k].at = "store"
  /\ IF Cardinality(Held(Room)) >= MaxEntries
       THEN /\ entries' = Room
            /\ refused' = Kept(refused \union {k}, Room)
       ELSE /\ Insert(Room, k)
            /\ refused' = Kept(refused \ {k}, entries')
  /\ flights' = [flights EXCEPT ![k].at = "loaded"]
  /\ UNCHANGED <<now, rows, gets, floor, best>>

Waiting(k) == {g \in Gets : gets[g].at = "wait" /\ gets[g].key = k}

\* The load is over: everyone who waits has its result, and the next miss is a
\* load of its own.
Finish(k) ==
  /\ flights[k].at \in {"loaded", "failed"}
  /\ gets' = [g \in Gets |->
                IF g \notin Waiting(k) THEN gets[g]
                ELSE IF flights[k].at = "loaded"
                       THEN Answer(g, k, flights[k].v, flights[k].asof)
                       ELSE [gets[g] EXCEPT !.at = "error"]]
  /\ best' = IF flights[k].at = "loaded" THEN [best EXCEPT ![k] = Newer(@, flights[k].v)] ELSE best
  /\ flights' = [flights EXCEPT ![k] = NoFlight]
  /\ UNCHANGED <<now, rows, entries, floor, refused>>

Return(g) ==
  /\ gets[g].at \in {"done", "error"}
  /\ gets' = [gets EXCEPT ![g] = NoGet]
  /\ UNCHANGED <<now, rows, entries, flights, history>>

-----------------------------------------------------------------------------
(* The rows, and who changes them.                                          *)

\* Another version of k's row.
NewVersion(k) ==
  /\ truth[k] < MaxVersion
  /\ Cardinality({j \in Keys : truth[j] # 0} \union {k}) <= MaxChanged
  /\ truth' = [truth EXCEPT ![k] = @ + 1]

\* A change made elsewhere; or here, by a call that did not learn it had
\* worked, and so does not invalidate.
Change(k) ==
  /\ NewVersion(k)
  /\ UNCHANGED <<now, due, entries, flights, gets, history>>

\* A change made here: the row first, the callback after (keys.go, server.go).
ChangeHere(k) ==
  /\ NewVersion(k) /\ due[k] = 0
  /\ due' = [due EXCEPT ![k] = truth[k] + 1]
  /\ UNCHANGED <<now, entries, flights, gets, history>>

\* Invalidate drops the entry; a load under way goes on.
Invalidate(k) ==
  /\ due[k] # 0
  /\ entries' = [entries EXCEPT ![k] = NoEntry]
  /\ floor' = [floor EXCEPT ![k] = Newer(@, due[k])]
  /\ due' = [due EXCEPT ![k] = 0]
  /\ refused' = refused \ {k}
  /\ UNCHANGED <<now, truth, flights, gets, best>>

\* A load hands over what it read within MaxLoad.
Tick ==
  /\ now < MaxTime
  /\ \A k \in Keys : flights[k].at \in {"store", "loaded"} => now - flights[k].asof < MaxLoad
  /\ now' = now + 1
  /\ UNCHANGED <<rows, entries, flights, gets, history>>

Fly(k) == LoadReads(k) \/ LoadFails(k) \/ Store(k) \/ Finish(k)

Next ==
  \/ \E g \in Gets, k \in Keys : Lookup(g, k)
  \/ \E g \in Gets : Join(g) \/ Return(g)
  \/ \E k \in Keys : Fly(k) \/ Change(k) \/ ChangeHere(k) \/ Invalidate(k)
  \/ Tick

Spec == Init /\ [][Next]_vars

-----------------------------------------------------------------------------
(* Properties.                                                              *)

Lifetime(v) == IF v \in Negative THEN NegativeTTL ELSE TTL

\* "A change made elsewhere takes up to the TTL to be seen here"
\* (ttlcache.go:29): what a Get answers was the row's answer less than the
\* TTL ago, and a "no" less than the shorter one, give or take the time the
\* load that read it took to hand it over; whoever waited on whom, and
\* whatever was refused, swept or invalidated meanwhile.
AnswerIsRecent ==
  \A g \in Gets : gets[g].at = "done" => gets[g].age < Lifetime(gets[g].v) + MaxLoad

\* Refusing keeps the cache within its bound (ttlcache.go:23-26), with as many
\* stores at once as there are keys.
WithinBound == Cardinality(Held(entries)) <= MaxEntries

\* And it never evicts: an entry that has not expired goes only by an
\* Invalidate of its own key, or for a newer answer for it.
NothingLiveIsEvicted ==
  [][\A k \in Keys :
       Live(entries[k]) /\ entries'[k] # entries[k] =>
         \/ due[k] # 0 /\ due'[k] = 0
         \/ entries'[k] # NoEntry /\ entries'[k].v >= entries[k].v]_vars

\* Loads of one key follow each other, and each replaces what is remembered of
\* the key, so a caller who has had an answer never gets an older one after it.
\* The one exception is an entry that a full cache refused to replace
\* (ttlcache.go:172): it answers on, to who finds it there, for as long as it
\* is kept; never to who waited for a load, and never once it is gone.
Answered(g) == gets[g].at # "done" /\ gets'[g].at = "done"
AnswersNeverGoBack ==
  [][\A g \in Gets : Answered(g) =>
       \/ gets'[g].v >= gets'[g].saw
       \/ gets[g] = NoGet /\ gets'[g].key \in refused]_vars

\* "Callers that can detect the change locally should call Invalidate, which
\* makes it immediate on that process" (ttlcache.go:31-33).
SeesLocalChange ==
  \A g \in Gets : gets[g].at = "done" => gets[g].v >= gets[g].need
=============================================================================
