--------------------------- MODULE TtlCache_proofs ---------------------------
(***************************************************************************)
(* What TtlCache promises, for any keys, goroutines, lifetimes and bound:  *)
(* its type, how old an answer may be, the bound on its entries, that no   *)
(* live entry is evicted, and that answers do not go back in time.         *)
(***************************************************************************)
EXTENDS TtlCache, FiniteSetTheorems, TLAPS

-----------------------------------------------------------------------------
(* Types.                                                                   *)

\* What a flight hands to store is an entry's.
LEMMA InsertType ==
  ASSUME TypeOK, NEW k \in Keys, flights[k].at = "store",
         NEW es \in [Keys -> Entry \union {NoEntry}], Insert(es, k)
  PROVE  /\ flights[k].v \in Version /\ flights[k].asof \in Time
         /\ entries' \in [Keys -> Entry \union {NoEntry}]
         /\ entries'[k] = [v |-> flights[k].v, asof |-> flights[k].asof,
                           expires |-> now + Lifetime(flights[k].v)]
         /\ \A j \in Keys \ {k} : entries'[j] = es[j]
<1>1. flights[k] \in Flight /\ now \in Int
  BY DEF TypeOK, Time
<1>2. flights[k].v \in Version /\ flights[k].asof \in Time
  BY <1>1 DEF Flight, NoFlight
<1>3. Lifetime(flights[k].v) \in Int
  BY TtlCacheAssumption DEF Lifetime
<1>4. now + Lifetime(flights[k].v) \in Int
  BY <1>1, <1>3
<1>5. entries' = [es EXCEPT ![k] = [v |-> flights[k].v, asof |-> flights[k].asof,
                                    expires |-> now + Lifetime(flights[k].v)]]
  BY DEF Insert, Lifetime
<1>6. [v |-> flights[k].v, asof |-> flights[k].asof,
       expires |-> now + Lifetime(flights[k].v)] \in Entry
  BY <1>2, <1>4 DEF Entry
<1> QED
  BY <1>2, <1>5, <1>6

LEMMA SweptType ==
  ASSUME TypeOK
  PROVE  Swept \in [Keys -> Entry \union {NoEntry}]
BY DEF TypeOK, Swept

\* Every Store ends in a load that is done; what it leaves of the entries is
\* what it started from, swept or not, with or without the new one.
LEMMA StoreCases ==
  ASSUME TypeOK, NEW k \in Keys, Store(k)
  PROVE  \E es \in {entries, Swept} :
           \/ /\ Cardinality(Held(es)) >= MaxEntries
              /\ entries' = es
              /\ refused' = Kept(refused \union {k}, es)
           \/ /\ ~(Cardinality(Held(es)) >= MaxEntries)
              /\ Insert(es, k)
              /\ refused' = Kept(refused \ {k}, entries')
BY DEF Store, Room

LEMMA TypeStep ==
  ASSUME TypeOK, [Next]_vars
  PROVE  TypeOK'
<1> USE DEF TypeOK
<1>1. ASSUME NEW g \in Gets, NEW k \in Keys, Lookup(g, k) PROVE TypeOK'
  <2>1. CASE Live(entries[k])
    <3>1. entries[k] \in Entry
      BY <2>1 DEF Live
    <3>2. entries[k].v \in Version /\ now - entries[k].asof \in Int
      BY <3>1 DEF Entry, Time
    <3>3. gets' = [gets EXCEPT ![g] = [at |-> "done", key |-> k, need |-> floor[k],
                                       saw |-> best[k], v |-> entries[k].v,
                                       age |-> now - entries[k].asof]]
      BY <1>1, <2>1 DEF Lookup
    <3>4. gets' \in [Gets -> Get]
      BY <3>2, <3>3 DEF Get
    <3>5. best' = [best EXCEPT ![k] = Newer(@, entries[k].v)]
      BY <1>1, <2>1 DEF Lookup
    <3>6. best' \in [Keys -> Version]
      BY <3>2, <3>5 DEF Newer
    <3> QED
      BY <1>1, <3>4, <3>6 DEF Lookup, rows
  <2>2. CASE ~Live(entries[k])
    <3>1. gets' = [gets EXCEPT ![g] = [at |-> "join", key |-> k, need |-> floor[k],
                                       saw |-> best[k]]]
      BY <1>1, <2>2 DEF Lookup
    <3>2. gets' \in [Gets -> Get]
      BY <3>1 DEF Get
    <3> QED
      BY <1>1, <2>2, <3>2 DEF Lookup, rows
  <2> QED
    BY <2>1, <2>2
<1>2. ASSUME NEW g \in Gets, Join(g) PROVE TypeOK'
  <2>1. gets[g] \in Get /\ gets[g].at = "join"
    BY <1>2 DEF Join
  <2>2. /\ gets[g] \in [at : {"join", "wait", "error"}, key : Keys, need : Version, saw : Version]
    BY <2>1 DEF Get, NoGet
  <2>3. [gets[g] EXCEPT !.at = "wait"] \in Get
    BY <2>2 DEF Get
  <2>4. gets' \in [Gets -> Get]
    BY <1>2, <2>3 DEF Join
  <2>5. flights' \in [Keys -> Flight]
    BY <1>2, <2>2 DEF Join, Flight
  <2> QED
    BY <1>2, <2>4, <2>5 DEF Join, rows, history
<1>3. ASSUME NEW k \in Keys, LoadReads(k) PROVE TypeOK'
  BY <1>3 DEF LoadReads, rows, history, Flight
<1>4. ASSUME NEW k \in Keys, LoadFails(k) PROVE TypeOK'
  BY <1>4 DEF LoadFails, rows, history, Flight
<1>5. ASSUME NEW k \in Keys, Store(k) PROVE TypeOK'
  <2>1. flights[k] \in Flight /\ flights[k].at = "store"
    BY <1>5 DEF Store
  <2>2. flights[k] \in [at : {"store", "loaded"}, v : Version, asof : Time]
    BY <2>1 DEF Flight, NoFlight
  <2>3. [flights[k] EXCEPT !.at = "loaded"] \in Flight
    BY <2>2 DEF Flight
  <2>4. flights' \in [Keys -> Flight]
    BY <1>5, <2>3 DEF Store
  <2>5. entries' \in [Keys -> Entry \union {NoEntry}] /\ refused' \in SUBSET Keys
    <3>1. entries \in [Keys -> Entry \union {NoEntry}] /\ Swept \in [Keys -> Entry \union {NoEntry}]
      BY SweptType
    <3>2. PICK es \in {entries, Swept} :
            \/ /\ Cardinality(Held(es)) >= MaxEntries
               /\ entries' = es
               /\ refused' = Kept(refused \union {k}, es)
            \/ /\ ~(Cardinality(Held(es)) >= MaxEntries)
               /\ Insert(es, k)
               /\ refused' = Kept(refused \ {k}, entries')
      BY <1>5, StoreCases
    <3>3. es \in [Keys -> Entry \union {NoEntry}]
      BY <3>1
    <3>4. refused' \in SUBSET Keys
      BY <3>2 DEF Kept
    <3>5. CASE entries' = es
      BY <3>3, <3>4, <3>5
    <3>6. CASE Insert(es, k)
      BY <2>1, <3>3, <3>4, <3>6, InsertType
    <3> QED
      BY <3>2, <3>5, <3>6
  <2> QED
    BY <1>5, <2>4, <2>5 DEF Store, rows
<1>6. ASSUME NEW k \in Keys, Finish(k) PROVE TypeOK'
  <2>1. flights[k] \in Flight /\ flights[k].at \in {"loaded", "failed"}
    BY <1>6 DEF Finish
  <2>2. ASSUME flights[k].at = "loaded"
        PROVE  flights[k].v \in Version /\ flights[k].asof \in Time
    BY <2>1, <2>2 DEF Flight, NoFlight
  <2>3. ASSUME NEW g \in Waiting(k)
        PROVE  /\ flights[k].at = "loaded" => Answer(g, k, flights[k].v, flights[k].asof) \in Get
               /\ [gets[g] EXCEPT !.at = "error"] \in Get
    <3>1. g \in Gets /\ gets[g] \in Get /\ gets[g].at = "wait"
      BY <2>3 DEF Waiting
    <3>2. gets[g] \in [at : {"join", "wait", "error"}, key : Keys, need : Version, saw : Version]
      BY <3>1 DEF Get, NoGet
    <3>3. flights[k].at = "loaded" => now - flights[k].asof \in Int
      BY <2>2 DEF Time
    <3> QED
      BY <2>2, <3>2, <3>3 DEF Get, Answer
  <2>4. gets' \in [Gets -> Get]
    BY <1>6, <2>1, <2>3 DEF Finish
  <2>5. best' \in [Keys -> Version]
    BY <1>6, <2>2 DEF Finish, Newer
  <2> QED
    BY <1>6, <2>4, <2>5 DEF Finish, Flight, rows
<1>7. ASSUME NEW g \in Gets, Return(g) PROVE TypeOK'
  BY <1>7 DEF Return, rows, history, Get
<1>8. ASSUME NEW k \in Keys, Change(k) PROVE TypeOK'
  BY <1>8, TtlCacheAssumption DEF Change, NewVersion, history, Version
<1>9. ASSUME NEW k \in Keys, ChangeHere(k) PROVE TypeOK'
  BY <1>9, TtlCacheAssumption DEF ChangeHere, NewVersion, history, Version
<1>10. ASSUME NEW k \in Keys, Invalidate(k) PROVE TypeOK'
  BY <1>10, TtlCacheAssumption DEF Invalidate, Newer, Version
<1>11. ASSUME Tick PROVE TypeOK'
  BY <1>11, TtlCacheAssumption DEF Tick, rows, history, Time
<1>12. ASSUME UNCHANGED vars PROVE TypeOK'
  BY <1>12 DEF vars
<1> QED
  BY <1>1, <1>2, <1>3, <1>4, <1>5, <1>6, <1>7, <1>8, <1>9, <1>10, <1>11, <1>12
     DEF Next, Fly

LEMMA TypeInit == Init => TypeOK
BY TtlCacheAssumption DEF Init, TypeOK, Time, Version, Flight, Get

\* The cache's variables keep their types: above all, a load that failed is
\* never what is remembered or answered.
THEOREM TypeCorrect == Spec => []TypeOK
<1>1. TypeOK /\ [Next]_vars => TypeOK'
  BY TypeStep
<1> QED
  BY <1>1, TypeInit, PTL DEF Spec

-----------------------------------------------------------------------------
(* How old an answer may be.                                                *)

Carries(f) == f.at \in {"store", "loaded"}

FlightsFresh == \A k \in Keys : Carries(flights[k]) => now - flights[k].asof <= MaxLoad

EntriesExpire ==
  \A k \in Keys :
    entries[k] # NoEntry =>
      entries[k].expires <= entries[k].asof + MaxLoad + Lifetime(entries[k].v)

AgeInv == FlightsFresh /\ EntriesExpire /\ AnswerIsRecent

LEMMA LifetimeType ==
  ASSUME NEW v PROVE Lifetime(v) \in Nat \ {0}
BY TtlCacheAssumption DEF Lifetime

LEMMA CarriedType ==
  ASSUME TypeOK, NEW k \in Keys, Carries(flights[k])
  PROVE  flights[k].v \in Version /\ flights[k].asof \in Time
<1>1. flights[k] \in Flight
  BY DEF TypeOK
<1> QED
  BY <1>1 DEF Flight, NoFlight, Carries

LEMMA EntryType ==
  ASSUME TypeOK, NEW k \in Keys, entries[k] # NoEntry
  PROVE  /\ entries[k].v \in Version /\ entries[k].asof \in Time
         /\ entries[k].expires \in Int
<1>1. entries[k] \in Entry
  BY DEF TypeOK
<1> QED
  BY <1>1 DEF Entry

LEMMA ClockType == TypeOK => now \in Nat /\ Time \subseteq Nat /\ Version \subseteq Nat
BY TtlCacheAssumption DEF TypeOK, Time, Version

LEMMA AgeStep ==
  ASSUME TypeOK, AgeInv, [Next]_vars
  PROVE  AgeInv'
<1> USE DEF AgeInv
<1>t. /\ flights \in [Keys -> Flight] /\ gets \in [Gets -> Get]
      /\ entries \in [Keys -> Entry \union {NoEntry}]
  BY DEF TypeOK
<1>1. ASSUME NEW g \in Gets, NEW k \in Keys, Lookup(g, k) PROVE AgeInv'
  <2>1. FlightsFresh' /\ EntriesExpire'
    BY <1>1 DEF Lookup, rows, FlightsFresh, EntriesExpire
  <2>2. CASE Live(entries[k])
    <3>1. now < entries[k].expires /\ entries[k] # NoEntry
      BY <2>2 DEF Live
    <3>2. now - entries[k].asof < Lifetime(entries[k].v) + MaxLoad
      BY <3>1, EntryType, ClockType, LifetimeType, TtlCacheAssumption DEF EntriesExpire
    <3>3. gets' = [gets EXCEPT ![g] = [at |-> "done", key |-> k, need |-> floor[k],
                                       saw |-> best[k], v |-> entries[k].v,
                                       age |-> now - entries[k].asof]]
      BY <1>1, <2>2 DEF Lookup
    <3>4. AnswerIsRecent'
      BY <1>t, <3>2, <3>3 DEF AnswerIsRecent
    <3> QED
      BY <2>1, <3>4
  <2>3. CASE ~Live(entries[k])
    <3>1. gets' = [gets EXCEPT ![g] = [at |-> "join", key |-> k, need |-> floor[k],
                                       saw |-> best[k]]]
      BY <1>1, <2>3 DEF Lookup
    <3>2. AnswerIsRecent'
      BY <1>t, <3>1 DEF AnswerIsRecent
    <3> QED
      BY <2>1, <3>2
  <2> QED
    BY <2>2, <2>3
<1>2. ASSUME NEW g \in Gets, Join(g) PROVE AgeInv'
  <2>1. FlightsFresh'
    BY <1>2, <1>t DEF Join, FlightsFresh, Carries
  <2>2. EntriesExpire' /\ AnswerIsRecent'
    BY <1>2, <1>t DEF Join, EntriesExpire, AnswerIsRecent
  <2> QED
    BY <2>1, <2>2
<1>3. ASSUME NEW k \in Keys, LoadReads(k) PROVE AgeInv'
  <2>1. now - now <= MaxLoad
    BY ClockType, TtlCacheAssumption
  <2>2. FlightsFresh'
    BY <1>3, <1>t, <2>1 DEF LoadReads, FlightsFresh, Carries
  <2>3. EntriesExpire' /\ AnswerIsRecent'
    BY <1>3 DEF LoadReads, EntriesExpire, AnswerIsRecent
  <2> QED
    BY <2>2, <2>3
<1>4. ASSUME NEW k \in Keys, LoadFails(k) PROVE AgeInv'
  <2>1. FlightsFresh'
    BY <1>4, <1>t DEF LoadFails, FlightsFresh, Carries
  <2>2. EntriesExpire' /\ AnswerIsRecent'
    BY <1>4 DEF LoadFails, EntriesExpire, AnswerIsRecent
  <2> QED
    BY <2>1, <2>2
<1>5. ASSUME NEW k \in Keys, Store(k) PROVE AgeInv'
  <2>1. flights[k].at = "store" /\ Carries(flights[k])
    BY <1>5 DEF Store, Carries
  <2>2. FlightsFresh'
    BY <1>5, <1>t, <2>1 DEF Store, FlightsFresh, Carries
  <2>3. AnswerIsRecent'
    BY <1>5 DEF Store, AnswerIsRecent
  <2>4. EntriesExpire'
    <3>1. PICK es \in {entries, Swept} :
            entries' = es \/ Insert(es, k)
      BY <1>5, StoreCases
    <3>2. es \in [Keys -> Entry \union {NoEntry}]
      BY <1>t, <3>1, SweptType
    <3>3. \A j \in Keys : es[j] # NoEntry => es[j] = entries[j]
      BY <3>1 DEF Swept
    <3>4. CASE entries' = es
      BY <3>3, <3>4 DEF EntriesExpire
    <3>5. CASE Insert(es, k)
      <4>1. now + Lifetime(flights[k].v) <= flights[k].asof + MaxLoad + Lifetime(flights[k].v)
        BY <2>1, CarriedType, ClockType, LifetimeType, TtlCacheAssumption DEF FlightsFresh
      <4>2. entries'[k].expires <= entries'[k].asof + MaxLoad + Lifetime(entries'[k].v)
        <5>1. entries'[k] = [v |-> flights[k].v, asof |-> flights[k].asof,
                             expires |-> now + Lifetime(flights[k].v)]
          BY <2>1, <3>2, <3>5, InsertType
        <5>2. /\ entries'[k].v = flights[k].v /\ entries'[k].asof = flights[k].asof
              /\ entries'[k].expires = now + Lifetime(flights[k].v)
          BY ONLY <5>1
        <5> QED
          BY ONLY <4>1, <5>2
      <4>3. \A j \in Keys \ {k} : entries'[j] = es[j]
        BY <2>1, <3>2, <3>5, InsertType
      <4> QED
        BY <3>3, <4>2, <4>3 DEF EntriesExpire, Lifetime
    <3> QED
      BY <3>1, <3>4, <3>5
  <2> QED
    BY <2>2, <2>3, <2>4
<1>6. ASSUME NEW k \in Keys, Finish(k) PROVE AgeInv'
  <2>1. FlightsFresh' /\ EntriesExpire'
    BY <1>6, <1>t DEF Finish, FlightsFresh, EntriesExpire, Carries, NoFlight
  <2>2. ASSUME flights[k].at = "loaded"
        PROVE  now - flights[k].asof < Lifetime(flights[k].v) + MaxLoad
    <3>1. Carries(flights[k])
      BY <2>2 DEF Carries
    <3> QED
      BY <3>1, CarriedType, ClockType, LifetimeType, TtlCacheAssumption DEF FlightsFresh
  <2>3. ASSUME NEW g \in Gets, gets'[g].at = "done"
        PROVE  gets'[g].age < Lifetime(gets'[g].v) + MaxLoad
    <3>1. CASE g \notin Waiting(k)
      <4>1. gets'[g] = gets[g]
        BY <1>6, <3>1 DEF Finish
      <4> QED
        BY <2>3, <4>1 DEF AnswerIsRecent
    <3>2. CASE g \in Waiting(k) /\ flights[k].at = "loaded"
      <4>1. gets'[g] = Answer(g, k, flights[k].v, flights[k].asof)
        BY <1>6, <3>2 DEF Finish
      <4> QED
        BY <2>2, <3>2, <4>1 DEF Answer
    <3>3. CASE g \in Waiting(k) /\ flights[k].at # "loaded"
      <4>1. gets'[g] = [gets[g] EXCEPT !.at = "error"]
        BY <1>6, <3>3 DEF Finish
      <4>2. gets[g] \in [at : {"join", "wait", "error"}, key : Keys, need : Version, saw : Version]
        BY <1>t, <3>3 DEF Waiting, Get, NoGet
      <4> QED
        BY <2>3, <4>1, <4>2
    <3> QED
      BY <3>1, <3>2, <3>3
  <2>4. AnswerIsRecent'
    BY <2>3 DEF AnswerIsRecent, Lifetime
  <2> QED
    BY <2>1, <2>4
<1>7. ASSUME NEW g \in Gets, Return(g) PROVE AgeInv'
  BY <1>7, <1>t DEF Return, history, rows, FlightsFresh, EntriesExpire, AnswerIsRecent, NoGet
<1>8. ASSUME NEW k \in Keys, Change(k) \/ ChangeHere(k) PROVE AgeInv'
  BY <1>8 DEF Change, ChangeHere, FlightsFresh, EntriesExpire, AnswerIsRecent
<1>9. ASSUME NEW k \in Keys, Invalidate(k) PROVE AgeInv'
  BY <1>9, <1>t DEF Invalidate, FlightsFresh, EntriesExpire, AnswerIsRecent
<1>10. ASSUME Tick PROVE AgeInv'
  <2>1. ASSUME NEW k \in Keys, Carries(flights[k])
        PROVE  now' - flights[k].asof <= MaxLoad
    <3>1. now - flights[k].asof < MaxLoad /\ now' = now + 1
      BY <1>10, <2>1 DEF Tick, Carries
    <3> QED
      BY <2>1, <3>1, CarriedType, ClockType, TtlCacheAssumption
  <2> QED
    BY <1>10, <2>1 DEF Tick, FlightsFresh, EntriesExpire, AnswerIsRecent
<1>11. ASSUME UNCHANGED vars PROVE AgeInv'
  BY <1>11 DEF vars, FlightsFresh, EntriesExpire, AnswerIsRecent
<1> QED
  BY <1>1, <1>2, <1>3, <1>4, <1>5, <1>6, <1>7, <1>8, <1>9, <1>10, <1>11 DEF Next, Fly

\* No answer is older than its lifetime and one load: hit or miss, leader or
\* follower, whatever the cache refused, swept or invalidated.
THEOREM AnswersAreRecent == Spec => []AnswerIsRecent
<1>1. Init => AgeInv
  BY DEF Init, AgeInv, FlightsFresh, EntriesExpire, AnswerIsRecent, Carries, NoFlight, NoGet
<1>2. TypeOK /\ AgeInv /\ [Next]_vars => AgeInv'
  BY AgeStep
<1>3. AgeInv => AnswerIsRecent
  BY DEF AgeInv
<1> QED
  BY <1>1, <1>2, <1>3, TypeCorrect, PTL DEF Spec

-----------------------------------------------------------------------------
(* The bound on the entries.                                                *)

LEMMA FewerAreHeld ==
  ASSUME NEW es, NEW fs, Held(fs) \subseteq Held(es)
  PROVE  /\ Cardinality(Held(es)) \in Nat /\ Cardinality(Held(fs)) \in Nat
         /\ Cardinality(Held(fs)) <= Cardinality(Held(es))
<1>1. IsFiniteSet(Held(es))
  BY TtlCacheAssumption, FS_Subset DEF Held
<1>2. IsFiniteSet(Held(fs))
  BY TtlCacheAssumption, FS_Subset DEF Held
<1> QED
  BY <1>1, <1>2, FS_Subset, FS_CardinalityType

LEMMA OneMoreIsHeld ==
  ASSUME NEW es, NEW fs, NEW k \in Keys,
         \A j \in Keys \ {k} : fs[j] = es[j],
         ~(Cardinality(Held(es)) >= MaxEntries)
  PROVE  Cardinality(Held(fs)) <= MaxEntries
<1>1. IsFiniteSet(Held(es))
  BY TtlCacheAssumption, FS_Subset DEF Held
<1>2. Held(fs) \subseteq Held(es) \union {k}
  BY DEF Held
<1>3. IsFiniteSet(Held(es) \union {k}) /\ Cardinality(Held(es) \union {k}) <= Cardinality(Held(es)) + 1
  <2>1. Cardinality(Held(es)) \in Nat
    BY <1>1, FS_CardinalityType
  <2>2. CASE k \in Held(es)
    <3>1. Held(es) \union {k} = Held(es)
      BY <2>2
    <3> QED
      BY ONLY <1>1, <2>1, <3>1
  <2>3. CASE k \notin Held(es)
    <3>1. /\ IsFiniteSet(Held(es) \union {k})
          /\ Cardinality(Held(es) \union {k}) = Cardinality(Held(es)) + 1
      BY <1>1, <2>3, FS_AddElement
    <3> QED
      BY ONLY <2>1, <3>1
  <2> QED
    BY <2>2, <2>3
<1>4. Cardinality(Held(fs)) <= Cardinality(Held(es) \union {k})
  BY <1>2, <1>3, FS_Subset
<1>5. Cardinality(Held(es)) \in Nat /\ Cardinality(Held(es) \union {k}) \in Nat
  BY <1>1, <1>3, FS_CardinalityType
<1>6. IsFiniteSet(Held(fs))
  BY <1>2, <1>3, FS_Subset
<1>7. Cardinality(Held(fs)) \in Nat
  BY <1>6, FS_CardinalityType
<1> QED
  BY <1>3, <1>4, <1>5, <1>7, TtlCacheAssumption

LEMMA BoundStep ==
  ASSUME TypeOK, WithinBound, [Next]_vars
  PROVE  WithinBound'
<1>1. ASSUME NEW k \in Keys, Store(k) PROVE WithinBound'
  <2>1. PICK es \in {entries, Swept} :
          \/ entries' = es
          \/ ~(Cardinality(Held(es)) >= MaxEntries) /\ Insert(es, k)
    BY <1>1, StoreCases
  <2>2. CASE entries' = es
    <3>1. Held(entries') \subseteq Held(entries)
      BY <2>1, <2>2 DEF Held, Swept
    <3> QED
      BY <3>1, FewerAreHeld, TtlCacheAssumption DEF WithinBound
  <2>3. CASE ~(Cardinality(Held(es)) >= MaxEntries) /\ Insert(es, k)
    <3>1. es \in [Keys -> Entry \union {NoEntry}] /\ flights[k].at = "store"
      BY <1>1, <2>1, SweptType DEF TypeOK, Store
    <3>2. \A j \in Keys \ {k} : entries'[j] = es[j]
      BY <2>3, <3>1, InsertType
    <3>3. Cardinality(Held(entries')) <= MaxEntries
      BY <2>3, <3>2, OneMoreIsHeld
    <3> QED
      BY <3>3 DEF WithinBound, Held
  <2> QED
    BY <2>1, <2>2, <2>3
<1>2. ASSUME NEW k \in Keys, Invalidate(k) PROVE WithinBound'
  <2>1. Held(entries') \subseteq Held(entries)
    BY <1>2 DEF Invalidate, Held, TypeOK
  <2> QED
    BY <2>1, FewerAreHeld, TtlCacheAssumption DEF WithinBound
<1>3. ASSUME entries' = entries PROVE WithinBound'
  BY <1>3 DEF WithinBound, Held
<1> QED
  BY <1>1, <1>2, <1>3
     DEF Next, Fly, vars, Lookup, Join, Return, LoadReads, LoadFails, Finish, Change, ChangeHere, Tick

\* The cache never holds more than MaxEntries, however many keys are stored at
\* once.
THEOREM CacheIsBounded == Spec => []WithinBound
<1>1. ASSUME Init PROVE WithinBound
  <2>1. Held(entries) = {}
    BY <1>1 DEF Init, Held
  <2> QED
    BY <2>1, FS_EmptySet, TtlCacheAssumption DEF WithinBound
<1>2. TypeOK /\ WithinBound /\ [Next]_vars => WithinBound'
  BY BoundStep
<1> QED
  BY <1>1, <1>2, TypeCorrect, PTL DEF Spec

-----------------------------------------------------------------------------
(* Answers follow each other, and nothing live is evicted.                  *)

\* What is remembered or on its way is not newer than the row, nor older than
\* what has been answered; an entry is older than the load under way.
KeyOrder(k) ==
  /\ best[k] <= truth[k]
  /\ entries[k] # NoEntry =>
       entries[k].v <= truth[k] /\ (best[k] <= entries[k].v \/ k \in refused)
  /\ Carries(flights[k]) =>
       /\ best[k] <= flights[k].v /\ flights[k].v <= truth[k]
       /\ entries[k] # NoEntry => entries[k].v <= flights[k].v
  /\ flights[k].at = "loaded" /\ entries[k] # NoEntry =>
       flights[k].v <= entries[k].v \/ k \in refused

GetOrder(g) == gets[g].at \in {"join", "wait"} => gets[g].saw <= best[gets[g].key]

OrderInv == (\A k \in Keys : KeyOrder(k)) /\ (\A g \in Gets : GetOrder(g))

LEMMA RowType ==
  ASSUME TypeOK, NEW k \in Keys
  PROVE  truth[k] \in Nat /\ best[k] \in Nat
BY ClockType DEF TypeOK

LEMMA GetType ==
  ASSUME TypeOK, NEW g \in Gets, gets[g].at \in {"join", "wait"}
  PROVE  gets[g].key \in Keys /\ gets[g].saw \in Nat
<1>1. gets[g] \in Get
  BY DEF TypeOK
<1>2. gets[g] \in [at : {"join", "wait", "error"}, key : Keys, need : Version, saw : Version]
  BY <1>1 DEF Get, NoGet
<1> QED
  BY <1>2, ClockType

\* A Get's own order survives a step that leaves it alone, as what has been
\* answered only gets newer.
LEMMA GetUndisturbed ==
  ASSUME TypeOK, TypeOK', OrderInv, NEW g \in Gets, gets'[g] = gets[g],
         \A k \in Keys : best[k] <= best'[k]
  PROVE  GetOrder(g)'
<1>1. CASE gets[g].at \in {"join", "wait"}
  <2>1. gets[g].key \in Keys /\ gets[g].saw \in Nat
    BY <1>1, GetType
  <2>2. best[gets[g].key] \in Nat /\ best'[gets[g].key] \in Nat
    BY <2>1, TtlCacheAssumption DEF TypeOK, Version
  <2> QED
    BY <1>1, <2>1, <2>2 DEF OrderInv, GetOrder
<1>2. CASE gets[g].at \notin {"join", "wait"}
  BY <1>2 DEF OrderInv, GetOrder
<1> QED
  BY <1>1, <1>2

LEMMA OrderStep ==
  ASSUME TypeOK, TypeOK', OrderInv, [Next]_vars
  PROVE  OrderInv'
<1>t. /\ flights \in [Keys -> Flight] /\ gets \in [Gets -> Get]
      /\ entries \in [Keys -> Entry \union {NoEntry}]
      /\ truth \in [Keys -> Version] /\ best \in [Keys -> Version]
      /\ best' \in [Keys -> Version]
  BY DEF TypeOK
<1>n. \A k \in Keys : best[k] <= best[k]
  BY RowType
<1>1. ASSUME NEW g \in Gets, NEW k \in Keys, Lookup(g, k) PROVE OrderInv'
  <2>1. CASE Live(entries[k])
    <3>1. entries[k] # NoEntry
      BY <2>1 DEF Live
    <3>2. /\ best' = [best EXCEPT ![k] = Newer(@, entries[k].v)]
          /\ gets' = [gets EXCEPT ![g] = [at |-> "done", key |-> k, need |-> floor[k],
                                          saw |-> best[k], v |-> entries[k].v,
                                          age |-> now - entries[k].asof]]
          /\ UNCHANGED <<truth, entries, flights, refused>>
      BY <1>1, <2>1 DEF Lookup, rows
    <3>3. entries[k].v \in Nat /\ best[k] \in Nat /\ truth[k] \in Nat
      BY <3>1, EntryType, RowType, ClockType
    <3>4. \A j \in Keys : best[j] <= best'[j]
      BY <1>t, <3>2, <3>3, RowType DEF Newer
    <3>5. KeyOrder(k)'
      <4>1. Carries(flights[k]) => flights[k].v \in Nat
        BY CarriedType, ClockType
      <4>2. best'[k] = IF best[k] > entries[k].v THEN best[k] ELSE entries[k].v
        BY <1>t, <3>2 DEF Newer
      <4>3. best'[k] <= truth[k] /\ (best'[k] <= entries[k].v \/ k \in refused)
        BY <3>1, <3>3, <4>2 DEF OrderInv, KeyOrder
      <4>4. Carries(flights[k]) => best'[k] <= flights[k].v
        BY <3>1, <3>3, <4>1, <4>2 DEF OrderInv, KeyOrder
      <4> QED
        BY <3>2, <4>3, <4>4 DEF OrderInv, KeyOrder, Carries
    <3>6. ASSUME NEW j \in Keys \ {k} PROVE KeyOrder(j)'
      <4>1. best'[j] = best[j]
        BY <1>t, <3>2
      <4> QED
        BY <3>2, <4>1 DEF OrderInv, KeyOrder, Carries
    <3>7. GetOrder(g)'
      BY <1>t, <3>2 DEF GetOrder
    <3>8. ASSUME NEW h \in Gets \ {g} PROVE GetOrder(h)'
      BY <1>t, <3>2, <3>4, GetUndisturbed
    <3> QED
      BY <3>5, <3>6, <3>7, <3>8 DEF OrderInv
  <2>2. CASE ~Live(entries[k])
    <3>1. /\ gets' = [gets EXCEPT ![g] = [at |-> "join", key |-> k, need |-> floor[k],
                                          saw |-> best[k]]]
          /\ UNCHANGED <<truth, best, entries, flights, refused>>
      BY <1>1, <2>2 DEF Lookup, rows
    <3>2. GetOrder(g)'
      BY <1>t, <1>n, <3>1 DEF GetOrder
    <3>3. ASSUME NEW h \in Gets \ {g} PROVE GetOrder(h)'
      BY <1>t, <1>n, <3>1, GetUndisturbed
    <3> QED
      BY <3>1, <3>2, <3>3 DEF OrderInv, KeyOrder, Carries
  <2> QED
    BY <2>1, <2>2
<1>2. ASSUME NEW g \in Gets, Join(g) PROVE OrderInv'
  <2>1. /\ gets[g].at = "join" /\ gets' = [gets EXCEPT ![g].at = "wait"]
        /\ UNCHANGED <<truth, best, entries, refused>>
    BY <1>2 DEF Join, rows, history
  <2>2. gets[g] \in [at : {"join", "wait", "error"}, key : Keys, need : Version, saw : Version]
    BY <1>t, <2>1 DEF Get, NoGet
  <2>3. /\ gets'[g].at = "wait" /\ gets'[g].key = gets[g].key /\ gets'[g].saw = gets[g].saw
    BY <1>t, <2>1, <2>2
  <2>4. GetOrder(g)'
    BY <2>1, <2>3 DEF OrderInv, GetOrder
  <2>5. ASSUME NEW h \in Gets \ {g} PROVE GetOrder(h)'
    BY <1>t, <1>n, <2>1, GetUndisturbed
  <2>6. \A j \in Keys : flights'[j] = flights[j] \/ flights'[j].at = "load"
    BY <1>2, <1>t, <2>2 DEF Join
  <2>7. ASSUME NEW j \in Keys PROVE KeyOrder(j)'
    BY <2>1, <2>6 DEF OrderInv, KeyOrder, Carries
  <2> QED
    BY <2>4, <2>5, <2>7 DEF OrderInv
<1>3. ASSUME NEW k \in Keys, LoadReads(k) PROVE OrderInv'
  <2>1. /\ flights' = [flights EXCEPT ![k] = [at |-> "store", v |-> truth[k], asof |-> now]]
        /\ UNCHANGED <<truth, best, entries, gets, refused>>
    BY <1>3 DEF LoadReads, rows, history
  <2>2. flights'[k].v = truth[k] /\ flights'[k].at = "store"
    BY <1>t, <2>1
  <2>3. KeyOrder(k)'
    BY <2>1, <2>2, RowType DEF OrderInv, KeyOrder
  <2>4. ASSUME NEW j \in Keys \ {k} PROVE KeyOrder(j)'
    <3>1. flights'[j] = flights[j]
      BY <1>t, <2>1
    <3> QED
      BY <2>1, <3>1 DEF OrderInv, KeyOrder, Carries
  <2>5. ASSUME NEW g \in Gets PROVE GetOrder(g)'
    BY <2>1 DEF OrderInv, GetOrder
  <2> QED
    BY <2>3, <2>4, <2>5 DEF OrderInv
<1>4. ASSUME NEW k \in Keys, LoadFails(k) PROVE OrderInv'
  <2>1. /\ flights' = [flights EXCEPT ![k] = [at |-> "failed"]]
        /\ UNCHANGED <<truth, best, entries, gets, refused>>
    BY <1>4 DEF LoadFails, rows, history
  <2>2. ASSUME NEW j \in Keys PROVE KeyOrder(j)'
    <3>1. flights'[j] = flights[j] \/ flights'[j].at = "failed"
      BY <1>t, <2>1
    <3> QED
      BY <2>1, <3>1 DEF OrderInv, KeyOrder, Carries
  <2>3. ASSUME NEW g \in Gets PROVE GetOrder(g)'
    BY <2>1 DEF OrderInv, GetOrder
  <2> QED
    BY <2>2, <2>3 DEF OrderInv
<1>5. ASSUME NEW k \in Keys, Store(k) PROVE OrderInv'
  <2>1. /\ flights[k].at = "store" /\ flights' = [flights EXCEPT ![k].at = "loaded"]
        /\ UNCHANGED <<truth, best, gets>>
    BY <1>5 DEF Store, rows
  <2>2. flights[k] \in [at : {"store", "loaded"}, v : Version, asof : Time]
    BY <1>t, <2>1 DEF Flight, NoFlight
  <2>3. flights'[k].at = "loaded" /\ flights'[k].v = flights[k].v /\ Carries(flights[k])
    BY <1>t, <2>1, <2>2 DEF Carries
  <2>4. \A j \in Keys \ {k} : flights'[j] = flights[j]
    BY <1>t, <2>1
  <2>5. PICK es \in {entries, Swept} :
          \/ /\ entries' = es
             /\ refused' = Kept(refused \union {k}, es)
          \/ /\ Insert(es, k)
             /\ refused' = Kept(refused \ {k}, entries')
    BY <1>5, StoreCases
  <2>6. es \in [Keys -> Entry \union {NoEntry}]
    BY <1>t, <2>5, SweptType
  <2>7. \A j \in Keys : es[j] = entries[j] \/ es[j] = NoEntry
    BY <2>5 DEF Swept
  <2>9. ASSUME NEW j \in Keys \ {k} PROVE KeyOrder(j)'
    <3>1. entries'[j] = es[j]
      BY <2>1, <2>5, <2>6, InsertType
    <3>2. CASE entries'[j] = NoEntry
      BY <2>1, <2>4, <3>2 DEF OrderInv, KeyOrder, Carries
    <3>3. CASE entries'[j] # NoEntry
      <4>1. entries'[j] = entries[j] /\ es[j] = entries[j]
        BY <2>7, <3>1, <3>3
      <4>2. j \in refused => j \in refused'
        BY <2>5, <3>3, <4>1 DEF Kept
      <4> QED
        BY <2>1, <2>4, <4>1, <4>2 DEF OrderInv, KeyOrder, Carries
    <3> QED
      BY <3>2, <3>3
  <2>10. KeyOrder(k)'
    <3>1. flights[k].v \in Nat /\ best[k] \in Nat /\ truth[k] \in Nat
      BY <2>3, CarriedType, RowType, ClockType
    <3>2. CASE entries' = es /\ refused' = Kept(refused \union {k}, es)
      <4>1. es[k] # NoEntry => k \in refused'
        BY <2>7, <3>2 DEF Kept
      <4> QED
        BY <2>1, <2>3, <2>7, <3>2, <4>1 DEF OrderInv, KeyOrder, Carries
    <3>3. CASE Insert(es, k)
      <4>1. entries'[k] = [v |-> flights[k].v, asof |-> flights[k].asof,
                           expires |-> now + Lifetime(flights[k].v)]
        BY <2>1, <2>6, <3>3, InsertType
      <4>2. entries'[k].v = flights[k].v
        BY ONLY <4>1
      <4> QED
        BY <2>1, <2>3, <3>1, <4>2 DEF OrderInv, KeyOrder
    <3> QED
      BY <2>5, <3>2, <3>3
  <2>11. ASSUME NEW g \in Gets PROVE GetOrder(g)'
    BY <1>n, <2>1, GetUndisturbed
  <2> QED
    BY <2>9, <2>10, <2>11 DEF OrderInv
<1>6. ASSUME NEW k \in Keys, Finish(k) PROVE OrderInv'
  <2>1. /\ flights' = [flights EXCEPT ![k] = NoFlight]
        /\ best' = IF flights[k].at = "loaded"
                     THEN [best EXCEPT ![k] = Newer(@, flights[k].v)] ELSE best
        /\ UNCHANGED <<truth, entries, refused>>
    BY <1>6 DEF Finish, rows
  <2>2. ASSUME flights[k].at = "loaded"
        PROVE  /\ flights[k].v \in Nat /\ best[k] <= flights[k].v
               /\ best'[k] = flights[k].v
    <3>1. Carries(flights[k])
      BY <2>2 DEF Carries
    <3>2. flights[k].v \in Nat /\ best[k] \in Nat /\ best[k] <= flights[k].v
      BY <3>1, CarriedType, RowType, ClockType DEF OrderInv, KeyOrder
    <3>3. best'[k] = IF best[k] > flights[k].v THEN best[k] ELSE flights[k].v
      BY <1>t, <2>1, <2>2 DEF Newer
    <3> QED
      BY <3>2, <3>3
  <2>3. \A j \in Keys \ {k} : flights'[j] = flights[j] /\ best'[j] = best[j]
    BY <1>t, <2>1
  <2>4. flights'[k] = NoFlight
    BY <1>t, <2>1
  <2>5. \A j \in Keys : best[j] <= best'[j]
    BY <1>n, <2>1, <2>2, <2>3
  <2>6. ASSUME NEW j \in Keys \ {k} PROVE KeyOrder(j)'
    BY <2>1, <2>3 DEF OrderInv, KeyOrder, Carries
  <2>7. KeyOrder(k)'
    <3>1. CASE flights[k].at = "loaded"
      <4>1. Carries(flights[k])
        BY <3>1 DEF Carries
      <4> QED
        BY <2>1, <2>2, <2>4, <3>1, <4>1 DEF OrderInv, KeyOrder, Carries, NoFlight
    <3>2. CASE flights[k].at # "loaded"
      BY <2>1, <2>4, <3>2 DEF OrderInv, KeyOrder, Carries, NoFlight
    <3> QED
      BY <3>1, <3>2
  <2>8. ASSUME NEW g \in Gets PROVE GetOrder(g)'
    <3>1. CASE g \notin Waiting(k)
      <4>1. gets'[g] = gets[g]
        BY <1>6, <3>1 DEF Finish
      <4> QED
        BY <2>1, <2>5, <4>1, GetUndisturbed
    <3>2. CASE g \in Waiting(k) /\ flights[k].at = "loaded"
      <4>1. gets'[g] = Answer(g, k, flights[k].v, flights[k].asof)
        BY <1>6, <3>2 DEF Finish
      <4> QED
        BY <4>1 DEF Answer, GetOrder
    <3>3. CASE g \in Waiting(k) /\ flights[k].at # "loaded"
      <4>1. gets'[g] = [gets[g] EXCEPT !.at = "error"]
        BY <1>6, <3>3 DEF Finish
      <4>2. gets[g] \in [at : {"join", "wait", "error"}, key : Keys, need : Version, saw : Version]
        BY <1>t, <3>3 DEF Waiting, Get, NoGet
      <4> QED
        BY <4>1, <4>2 DEF GetOrder
    <3> QED
      BY <3>1, <3>2, <3>3
  <2> QED
    BY <2>6, <2>7, <2>8 DEF OrderInv
<1>7. ASSUME NEW g \in Gets, Return(g) PROVE OrderInv'
  <2>1. /\ gets' = [gets EXCEPT ![g] = NoGet]
        /\ UNCHANGED <<truth, best, entries, flights, refused>>
    BY <1>7 DEF Return, rows, history
  <2>2. ASSUME NEW h \in Gets \ {g} PROVE GetOrder(h)'
    BY <1>t, <1>n, <2>1, GetUndisturbed
  <2>3. GetOrder(g)'
    BY <1>t, <2>1 DEF GetOrder, NoGet
  <2> QED
    BY <2>1, <2>2, <2>3 DEF OrderInv, KeyOrder, Carries
<1>8. ASSUME NEW k \in Keys, Change(k) \/ ChangeHere(k) PROVE OrderInv'
  <2>1. /\ truth' = [truth EXCEPT ![k] = @ + 1]
        /\ UNCHANGED <<best, entries, flights, gets, refused>>
    BY <1>8 DEF Change, ChangeHere, NewVersion, history
  <2>2. ASSUME NEW j \in Keys PROVE KeyOrder(j)'
    <3>1. truth'[j] = truth[j] \/ truth'[j] = truth[j] + 1
      BY <1>t, <2>1
    <3>2. truth[j] \in Nat /\ best[j] \in Nat
      BY RowType
    <3>3. \A n \in Nat : n <= truth[j] => n <= truth'[j]
      BY <3>1, <3>2
    <3>4. entries[j] # NoEntry => entries[j].v \in Nat
      BY EntryType, ClockType
    <3>5. Carries(flights[j]) => flights[j].v \in Nat
      BY CarriedType, ClockType
    <3> QED
      BY <2>1, <3>2, <3>3, <3>4, <3>5 DEF OrderInv, KeyOrder, Carries
  <2>3. ASSUME NEW g \in Gets PROVE GetOrder(g)'
    BY <2>1 DEF OrderInv, GetOrder
  <2> QED
    BY <2>2, <2>3 DEF OrderInv
<1>9. ASSUME NEW k \in Keys, Invalidate(k) PROVE OrderInv'
  <2>1. /\ entries' = [entries EXCEPT ![k] = NoEntry]
        /\ refused' = refused \ {k}
        /\ UNCHANGED <<truth, best, flights, gets>>
    BY <1>9 DEF Invalidate
  <2>2. ASSUME NEW j \in Keys PROVE KeyOrder(j)'
    <3>1. CASE j = k
      <4>1. entries'[j] = NoEntry
        BY <1>t, <2>1, <3>1
      <4> QED
        BY <2>1, <4>1 DEF OrderInv, KeyOrder, Carries
    <3>2. CASE j # k
      <4>1. entries'[j] = entries[j] /\ (j \in refused => j \in refused')
        BY <1>t, <2>1, <3>2
      <4> QED
        BY <2>1, <4>1 DEF OrderInv, KeyOrder, Carries
    <3> QED
      BY <3>1, <3>2
  <2>3. ASSUME NEW g \in Gets PROVE GetOrder(g)'
    BY <2>1 DEF OrderInv, GetOrder
  <2> QED
    BY <2>2, <2>3 DEF OrderInv
<1>10. ASSUME Tick PROVE OrderInv'
  BY <1>10 DEF Tick, rows, history, OrderInv, KeyOrder, GetOrder, Carries
<1>11. ASSUME UNCHANGED vars PROVE OrderInv'
  BY <1>11 DEF vars, OrderInv, KeyOrder, GetOrder, Carries
<1> QED
  BY <1>1, <1>2, <1>3, <1>4, <1>5, <1>6, <1>7, <1>8, <1>9, <1>10, <1>11 DEF Next, Fly

LEMMA OrderInit == Init => OrderInv
BY DEF Init, OrderInv, KeyOrder, GetOrder, Carries, NoFlight, NoGet

\* An entry that has not expired goes only by an Invalidate of its key, or for
\* an answer at least as new.
LEMMA EvictionStep ==
  ASSUME TypeOK, OrderInv, [Next]_vars, NEW k \in Keys,
         Live(entries[k]), entries'[k] # entries[k]
  PROVE  \/ due[k] # 0 /\ due'[k] = 0
         \/ entries'[k] # NoEntry /\ entries'[k].v >= entries[k].v
<1>t. entries \in [Keys -> Entry \union {NoEntry}] /\ due \in [Keys -> Version]
  BY DEF TypeOK
<1>1. ASSUME NEW j \in Keys, Store(j)
      PROVE  entries'[k] # NoEntry /\ entries'[k].v >= entries[k].v
  <2>1. flights[j].at = "store" /\ Carries(flights[j])
    BY <1>1 DEF Store, Carries
  <2>2. PICK es \in {entries, Swept} : entries' = es \/ Insert(es, j)
    BY <1>1, StoreCases
  <2>3. es[k] = entries[k]
    BY <2>2 DEF Swept
  <2>4. Insert(es, j)
    BY <2>2, <2>3
  <2>5. es \in [Keys -> Entry \union {NoEntry}]
    BY <1>t, <2>2, SweptType
  <2>6. k = j
    BY <2>1, <2>3, <2>4, <2>5, InsertType
  <2>7. entries'[k] = [v |-> flights[k].v, asof |-> flights[k].asof,
                       expires |-> now + Lifetime(flights[k].v)]
    BY <2>1, <2>4, <2>5, <2>6, InsertType
  <2>8. entries'[k].v = flights[k].v
    BY ONLY <2>7
  <2>9. entries[k] # NoEntry
    BY DEF Live
  <2>10. entries[k].v <= flights[k].v
    BY <2>1, <2>6, <2>9 DEF OrderInv, KeyOrder
  <2>11. entries[k].v \in Nat /\ flights[k].v \in Nat
    BY <2>1, <2>6, <2>9, EntryType, CarriedType, ClockType
  <2>12. entries'[k].v # -1 /\ entries'[k].v >= entries[k].v
    BY ONLY <2>8, <2>10, <2>11
  <2> QED
    BY <2>12 DEF NoEntry
<1>2. ASSUME NEW j \in Keys, Invalidate(j)
      PROVE  due[k] # 0 /\ due'[k] = 0
  <2>1. k = j
    BY <1>t, <1>2 DEF Invalidate
  <2> QED
    BY <1>t, <1>2, <2>1 DEF Invalidate
<1>3. ASSUME entries' = entries PROVE FALSE
  BY <1>3
<1> QED
  BY <1>1, <1>2, <1>3
     DEF Next, Fly, vars, Lookup, Join, Return, LoadReads, LoadFails, Finish, Change, ChangeHere, Tick

LEMMA OrderHolds == Spec => []OrderInv
<1>1. TypeOK /\ TypeOK' /\ OrderInv /\ [Next]_vars => OrderInv'
  BY OrderStep
<1> QED
  BY <1>1, OrderInit, TypeCorrect, PTL DEF Spec

\* A Get is answered from the entry it finds, or by the load it waits for.
LEMMA AnswerStep ==
  ASSUME TypeOK, OrderInv, [Next]_vars, NEW g \in Gets, Answered(g)
  PROVE  \/ gets'[g].v >= gets'[g].saw
         \/ gets[g] = NoGet /\ gets'[g].key \in refused
<1>t. gets \in [Gets -> Get]
  BY DEF TypeOK
<1>1. ASSUME NEW h \in Gets, NEW k \in Keys, Lookup(h, k)
      PROVE  gets'[g].v >= gets'[g].saw \/ (gets[g] = NoGet /\ gets'[g].key \in refused)
  <2>1. h = g
    BY <1>t, <1>1 DEF Lookup, Answered
  <2>2. Live(entries[k])
    <3>1. SUFFICES ASSUME ~Live(entries[k]) PROVE FALSE
      OBVIOUS
    <3>2. gets'[g].at = "join"
      BY <1>t, <1>1, <2>1, <3>1 DEF Lookup
    <3> QED
      BY <3>2 DEF Answered
  <2>3. gets'[g] = [at |-> "done", key |-> k, need |-> floor[k], saw |-> best[k],
                    v |-> entries[k].v, age |-> now - entries[k].asof]
    BY <1>t, <1>1, <2>1, <2>2 DEF Lookup
  <2>4. gets'[g].v = entries[k].v /\ gets'[g].saw = best[k] /\ gets'[g].key = k
    BY ONLY <2>3
  <2>5. entries[k] # NoEntry /\ entries[k].v \in Nat /\ best[k] \in Nat
    BY <2>2, EntryType, ClockType, RowType DEF Live
  <2>6. best[k] <= entries[k].v \/ k \in refused
    BY <2>5 DEF OrderInv, KeyOrder
  <2>7. gets[g] = NoGet
    BY <1>1, <2>1 DEF Lookup
  <2> QED
    BY <2>4, <2>5, <2>6, <2>7
<1>2. ASSUME NEW k \in Keys, Finish(k) PROVE gets'[g].v >= gets'[g].saw
  <2>1. g \in Waiting(k)
    BY <1>2 DEF Finish, Answered
  <2>2. gets[g].at = "wait" /\ gets[g].key = k /\ gets[g].saw \in Nat
    BY <2>1, GetType DEF Waiting
  <2>3. flights[k].at = "loaded"
    <3>1. SUFFICES ASSUME flights[k].at # "loaded" PROVE FALSE
      OBVIOUS
    <3>2. gets'[g] = [gets[g] EXCEPT !.at = "error"]
      BY <1>2, <2>1, <3>1 DEF Finish
    <3>3. gets[g] \in [at : {"join", "wait", "error"}, key : Keys, need : Version, saw : Version]
      BY <1>t, <2>2 DEF Get, NoGet
    <3> QED
      BY <3>2, <3>3 DEF Answered
  <2>4. gets'[g] = Answer(g, k, flights[k].v, flights[k].asof)
    BY <1>2, <2>1, <2>3 DEF Finish
  <2>5. gets'[g].v = flights[k].v /\ gets'[g].saw = gets[g].saw
    BY <2>4 DEF Answer
  <2>6. Carries(flights[k])
    BY <2>3 DEF Carries
  <2>7. flights[k].v \in Nat /\ best[k] \in Nat
    BY <2>6, CarriedType, RowType, ClockType
  <2>8. gets[g].saw <= best[k] /\ best[k] <= flights[k].v
    BY <2>2, <2>6 DEF OrderInv, GetOrder, KeyOrder
  <2> QED
    BY <2>2, <2>5, <2>7, <2>8
<1>3. ASSUME NEW h \in Gets, Join(h) \/ Return(h) PROVE FALSE
  <2>1. CASE h = g
    <3>1. CASE Join(g)
      <4>1. gets[g] \in [at : {"join", "wait", "error"}, key : Keys, need : Version, saw : Version]
        BY <1>t, <3>1 DEF Join, Get, NoGet
      <4>2. gets'[g] = [gets[g] EXCEPT !.at = "wait"]
        BY <1>t, <3>1 DEF Join
      <4> QED
        BY <4>1, <4>2 DEF Answered
    <3>2. CASE Return(g)
      BY <1>t, <3>2 DEF Return, Answered, NoGet
    <3> QED
      BY <1>3, <2>1, <3>1, <3>2
  <2>2. CASE h # g
    BY <1>t, <1>3, <2>2 DEF Join, Return, Answered
  <2> QED
    BY <2>1, <2>2
<1>4. ASSUME gets' = gets PROVE FALSE
  BY <1>4 DEF Answered
<1> QED
  BY <1>1, <1>2, <1>3, <1>4
     DEF Next, Fly, vars, LoadReads, LoadFails, Store, Change, ChangeHere, Invalidate, Tick

\* Whoever has had an answer never gets an older one, but for the entry that a
\* full cache refused to replace, and only where it is found.
THEOREM AnswersAdvance == Spec => AnswersNeverGoBack
<1>1. TypeOK /\ OrderInv /\ [Next]_vars =>
        [\A g \in Gets : Answered(g) =>
           \/ gets'[g].v >= gets'[g].saw
           \/ gets[g] = NoGet /\ gets'[g].key \in refused]_vars
  BY AnswerStep
<1> QED
  BY <1>1, OrderHolds, TypeCorrect, PTL DEF Spec, AnswersNeverGoBack

\* A full cache refuses; it never makes room at the expense of a live entry.
THEOREM NothingEvicted == Spec => NothingLiveIsEvicted
<1>1. TypeOK /\ OrderInv /\ [Next]_vars =>
        [\A k \in Keys :
           Live(entries[k]) /\ entries'[k] # entries[k] =>
             \/ due[k] # 0 /\ due'[k] = 0
             \/ entries'[k] # NoEntry /\ entries'[k].v >= entries[k].v]_vars
  BY EvictionStep
<1> QED
  BY <1>1, OrderHolds, TypeCorrect, PTL DEF Spec, NothingLiveIsEvicted
=============================================================================
