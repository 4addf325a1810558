---------------------------- MODULE Plugin_proofs ----------------------------
(***************************************************************************)
(* What Plugin keeps, for every family of applications, every schema and   *)
(* every number of restarts: the traversal of the schema is exact, a reset *)
(* comes before the first answer, a load of the application empties        *)
(* nothing, a hit replays what was sent and answers the question that the  *)
(* request asked, Cache-Control is true of it, and callers share what one  *)
(* of them stored only where the route's options let them.                 *)
(***************************************************************************)
EXTENDS Plugin, CacheKeys_proofs

-----------------------------------------------------------------------------
(* The traversal.  Everything known shows the type asked for; and a pass    *)
(* that has added nothing so far has found nothing to add among the models  *)
(* it has visited, so that one that ends that way has closed the set.       *)
Reaches(m, S, skipPrivate) ==
    \E a \in schema[m] : ~(skipPrivate /\ a.private) /\ a.targets \intersect S # {}

Traversal ==
    /\ uid \in known
    /\ \A S \in SUBSET Models : (uid \in S /\ Closed(S, ignorePrivate)) => known \subseteq S
    /\ knownBefore <= Cardinality(known)
    /\ NothingNew => \A m \in Models \ todo : Reaches(m, known, ignorePrivate) => m \in known

RelatedInv == RelatedTypeOK /\ (uid # NoUid => Traversal)

LEMMA KnownIsFinite ==
    ASSUME RelatedTypeOK, NEW S \in SUBSET Models
    PROVE  IsFiniteSet(S) /\ Cardinality(S) \in Nat
BY FiniteAssumption, FS_Subset, FS_CardinalityType

\* A call starts with its own type, which any pass has yet to visit.
LEMMA RelatedCall ==
    ASSUME RelatedInv, NEW t \in Types, NEW p \in BOOLEAN, Call(t, p)
    PROVE  RelatedInv'
<1>1. RelatedTypeOK'
  BY DEF Call, RelatedInv, RelatedTypeOK, Models
<1>2. Cardinality({t}) = 1
  BY FS_Singleton
<1>3. Traversal'
  BY <1>2 DEF Call, Traversal, NothingNew, Closed, Models
<1> QED  BY <1>1, <1>3 DEF RelatedInv

\* A visit adds a model only because it shows something known, and then the
\* pass has added something.
LEMMA RelatedVisit ==
    ASSUME RelatedInv, NEW m \in Models, Visit(m)
    PROVE  RelatedInv'
<1> USE DEF RelatedInv
<1>1. RelatedTypeOK'
  BY DEF Visit, RelatedTypeOK
<1> SUFFICES ASSUME uid # NoUid PROVE Traversal'
  BY <1>1 DEF Visit
<1>2. UNCHANGED <<schema, uid, ignorePrivate, knownBefore>> /\ todo' = todo \ {m}
  BY DEF Visit
<1>3. CASE Reaches(m, known, ignorePrivate) /\ m \notin known
  <2>1. known' = known \union {m}
    BY <1>3 DEF Visit, Reaches, reachesKnown
  <2>2. Cardinality(known') = Cardinality(known) + 1 /\ Cardinality(known) \in Nat
    BY <1>3, <2>1, KnownIsFinite, FS_AddElement DEF RelatedTypeOK
  <2>3. knownBefore < Cardinality(known')
    BY <2>2 DEF Traversal, RelatedTypeOK
  <2>4. ASSUME NEW S \in SUBSET Models, uid \in S, Closed(S, ignorePrivate) PROVE known' \subseteq S
    <3>1. known \subseteq S
      BY <2>4 DEF Traversal
    <3>2. Reaches(m, S, ignorePrivate)
      BY <1>3, <3>1 DEF Reaches
    <3>3. m \in S
      BY <2>4, <3>2 DEF Closed, Reaches
    <3> QED  BY <2>1, <3>1, <3>3
  <2> QED  BY <1>2, <2>1, <2>2, <2>3, <2>4 DEF Traversal, NothingNew, Closed, RelatedTypeOK
<1>4. CASE ~Reaches(m, known, ignorePrivate) \/ m \in known
  <2>1. known' = known
    BY <1>4 DEF Visit, Reaches, reachesKnown
  <2> QED  BY <1>2, <1>4, <2>1 DEF Traversal, NothingNew, Closed, Reaches
<1> QED  BY <1>3, <1>4

LEMMA RelatedNextPass ==
    ASSUME RelatedInv, NextPass
    PROVE  RelatedInv'
<1> USE DEF RelatedInv, NextPass
<1>1. RelatedTypeOK'
  BY KnownIsFinite DEF RelatedTypeOK
<1>2. Cardinality(known) \in Nat
  BY KnownIsFinite DEF RelatedTypeOK
<1>3. Traversal'
  BY <1>2 DEF Traversal, NothingNew, Closed, Reaches
<1> QED  BY <1>1, <1>3

\* An answer is exact: what is known is the least closed set.
LEMMA RelatedAnswer ==
    ASSUME RelatedInv, Answer
    PROVE  /\ RelatedInv'
           /\ related'[uid] = Showing(uid, ignorePrivate)
<1> USE DEF RelatedInv, Answer
<1>1. RelatedInv'
  BY DEF RelatedTypeOK
<1>2. Closed(known, ignorePrivate)
  BY DEF Traversal, Closed, Reaches
<1>3. known \intersect Types = Showing(uid, ignorePrivate)
  <2>1. known \in SUBSET Models /\ uid \in known
    BY DEF RelatedTypeOK, Traversal
  <2>2. known \intersect Types \subseteq Showing(uid, ignorePrivate)
    BY DEF Traversal, Showing
  <2>3. Showing(uid, ignorePrivate) \subseteq known
    BY <1>2, <2>1 DEF Showing
  <2> QED  BY <2>2, <2>3 DEF Showing
<1> QED  BY <1>1, <1>3 DEF RelatedTypeOK

\* A load forgets what earlier calls returned, which no call under way reads.
LEMMA RelatedLoad ==
    ASSUME RelatedInv, related' = [t \in Types |-> {}], UNCHANGED <<schema, callVars>>
    PROVE  RelatedInv'
<1> USE DEF callVars
<1>1. RelatedTypeOK'
  BY DEF RelatedInv, RelatedTypeOK
<1> QED  BY <1>1 DEF RelatedInv, Traversal, NothingNew, Closed, Reaches

LEMMA RelatedKept ==
    ASSUME RelatedInv, UNCHANGED relatedVars
    PROVE  RelatedInv'
BY DEF relatedVars, callVars, RelatedInv, RelatedTypeOK, Traversal, NothingNew, Closed, Reaches

\* The steps of a process that are no part of a traversal.
LEMMA TraversalSteps ==
    ASSUME [Next]_vars
    PROVE  \/ UNCHANGED relatedVars
           \/ related' = [t \in Types |-> {}] /\ UNCHANGED <<schema, callVars>>
           \/ \E t \in Types, p \in BOOLEAN : Call(t, p)
           \/ Traverse
<1> DEFINE Rest == UNCHANGED relatedVars
<1>1. CASE UNCHANGED vars
  BY <1>1 DEF vars
<1>2. ASSUME NEW l \in BOOLEAN, Load(l)
      PROVE  related' = [t \in Types |-> {}] /\ UNCHANGED <<schema, callVars>>
  BY <1>2 DEF Load
<1>3. ASSUME NEW t \in Types, ResolveType(t) \/ EmbeddingMemo(t)
      PROVE  \E p \in BOOLEAN : Call(t, p)
  BY <1>3 DEF ResolveType, EmbeddingMemo
<1>4. CASE Traversing
  BY <1>4 DEF Traversing
<1>5. ASSUME ResolveFails \/ Register \/ CreateFails \/ CreateProvider \/ Listen PROVE Rest
  BY <1>5 DEF ResolveFails, Register, CreateFails, CreateProvider, Listen, Initialize, Fail
<1>6. ASSUME ClientReady \/ ClientError \/ Disconnect \/ Stop PROVE Rest
  BY <1>6 DEF ClientReady, ClientError, Disconnect, Stop, Initialize, Fail
<1>7. ASSUME Serve PROVE Rest
  <2>1. ASSUME NEW q, Bypass(q) \/ Hit(q) \/ Miss(q) PROVE Rest
    BY <2>1 DEF Bypass, Hit, Miss
  <2>2. ASSUME NEW p, ManualPurge(p) PROVE Rest
    BY <2>2 DEF ManualPurge, Purge
  <2>3. ASSUME NEW w, ServiceWrite(w) \/ UncachedWrite(w) \/ RoutedWrite(w) \/ AdminWrite(w)
        PROVE  Rest
    BY <2>3 DEF ServiceWrite, UncachedWrite, RoutedWrite, AdminWrite, Purge
  <2>4. ASSUME NEW e, Expire(e) PROVE Rest
    BY <2>4 DEF Expire
  <2>5. DeleteRole => Rest
    BY DEF DeleteRole
  <2> QED  BY <1>7, <2>1, <2>2, <2>3, <2>4, <2>5 DEF Serve
<1> QED  BY <1>1, <1>2, <1>3, <1>4, <1>5, <1>6, <1>7 DEF Next, LoadStep

LEMMA RelatedStep == RelatedInv /\ [Next]_vars => RelatedInv'
BY TraversalSteps, RelatedKept, RelatedLoad, RelatedCall, RelatedVisit, RelatedNextPass,
   RelatedAnswer DEF Traverse

LEMMA RelatedStart == Init => RelatedInv
<1> SUFFICES ASSUME Init PROVE RelatedInv
  OBVIOUS
<1>1. schema \in [Models -> SUBSET Attribute]
  BY SchemasAssumption DEF Init
<1>2. NoCall /\ related \in [Types -> SUBSET Types]
  BY DEF Init, RelatedInit
<1> QED  BY <1>1, <1>2 DEF NoCall, RelatedInv, RelatedTypeOK

(* A traversal answers exactly the content types that can show the one it   *)
(* is about, for every schema, however its components nest and its          *)
(* relations loop (getRelatedModelsUid.ts).                                 *)
THEOREM TraversalsAreExact == Spec => RelatedExact
<1> DEFINE Exact == \A t \in Types :
               (uid = t /\ uid' = NoUid) => related'[t] = Showing(t, ignorePrivate)
<1>1. RelatedInv /\ [Next]_vars => [Exact]_relatedVars
  <2> SUFFICES ASSUME RelatedInv, [Next]_vars, NEW t \in Types, uid = t, uid' = NoUid
               PROVE  related'[t] = Showing(t, ignorePrivate)
    OBVIOUS
  <2>1. uid # NoUid
    BY ModelsAssumption DEF Models
  <2>2. ~NextPass /\ ~UNCHANGED relatedVars /\ ~UNCHANGED <<schema, callVars>>
    BY <2>1 DEF NextPass, relatedVars, callVars
  <2>3. ASSUME NEW m \in Models PROVE ~Visit(m)
    BY <2>1 DEF Visit
  <2>4. ASSUME NEW s \in Types, NEW p \in BOOLEAN PROVE ~Call(s, p)
    BY <2>1 DEF Call
  <2>5. Answer
    BY <2>2, <2>3, <2>4, TraversalSteps DEF Traverse
  <2> QED  BY <2>5, RelatedAnswer
<1> QED  BY <1>1, RelatedStart, RelatedStep, PTL DEF Spec, RelatedExact

-----------------------------------------------------------------------------
(* The process.  A server listens, `listen` is wrapped exactly when a reset *)
(* is due, and what is injected is what the configuration says.             *)
Phases == {"down", "resolving", "registered", "waiting", "loaded", "serving", "failed"}

BootInv ==
    /\ app \in {Configured(a) : a \in Apps}
    /\ phase \in Phases
    /\ run \in 0 .. MaxRuns /\ (phase # "down" => run >= 1)
    /\ listens \in BOOLEAN /\ wrapped \in BOOLEAN /\ resetRefused \in BOOLEAN
    /\ link \in {"connecting", "ready"}
    /\ phase = "serving" => listens
    /\ phase = "loaded" => wrapped = Options.resetOnStartup
    /\ phase \in {"registered", "waiting", "loaded", "serving"} =>
           Resolvable(app) /\ injected = Injected(app)

\* Serving leaves the process as it is.
LEMMA ServeKeepsProcess ==
    ASSUME Serve
    PROVE  phase = "serving" /\ UNCHANGED <<app, bootVars, link>>
<1> DEFINE Kept == phase = "serving" /\ UNCHANGED <<app, bootVars, link>>
<1> USE DEF Serving
<1>1. ASSUME NEW q, Bypass(q) \/ Hit(q) \/ Miss(q) PROVE Kept
  BY <1>1 DEF Bypass, Hit, Miss
<1>2. ASSUME NEW p, ManualPurge(p) PROVE Kept
  BY <1>2 DEF ManualPurge, Purge
<1>3. ASSUME NEW w, ServiceWrite(w) \/ UncachedWrite(w) \/ RoutedWrite(w) \/ AdminWrite(w)
      PROVE  Kept
  BY <1>3 DEF ServiceWrite, UncachedWrite, RoutedWrite, AdminWrite, Purge
<1>4. ASSUME NEW e, Expire(e) PROVE Kept
  BY <1>4 DEF Expire
<1>5. DeleteRole => Kept
  BY DEF DeleteRole
<1> QED  BY <1>1, <1>2, <1>3, <1>4, <1>5 DEF Serve

LEMMA BootStep == BootInv /\ [Next]_vars => BootInv'
<1> SUFFICES ASSUME BootInv, [Next]_vars PROVE BootInv'
  OBVIOUS
<1> USE BoundsAssumption DEF BootInv, Phases, bootVars
<1>1. Options.resetOnStartup \in BOOLEAN
  BY OptionsAssumption DEF Options
<1>2. CASE UNCHANGED vars
  BY <1>2 DEF vars, Options
<1>3. ASSUME NEW l \in BOOLEAN, Load(l) PROVE BootInv'
  BY <1>3 DEF Load
<1>4. ASSUME NEW t \in Types, ResolveType(t) \/ EmbeddingMemo(t) PROVE BootInv'
  BY <1>4 DEF ResolveType, EmbeddingMemo, Options
<1>5. CASE Traversing
  BY <1>5 DEF Traversing, Options
<1>6. CASE ResolveFails
  BY <1>6 DEF ResolveFails, Fail
<1>7. CASE Register
  BY <1>7 DEF Register
<1>8. CASE CreateFails
  BY <1>8 DEF CreateFails, Fail
<1>9. CASE CreateProvider
  BY <1>1, <1>9 DEF CreateProvider, Initialize, Options
<1>10. CASE Listen
  BY <1>10 DEF Listen, ready
<1>11. CASE ClientReady
  BY <1>1, <1>11 DEF ClientReady, Initialize, Options
<1>12. CASE ClientError
  BY <1>12 DEF ClientError, Fail
<1>13. CASE Disconnect
  BY <1>13 DEF Disconnect, Options
<1>14. CASE Stop
  BY <1>14 DEF Stop
<1>15. CASE Serve
  BY <1>15, ServeKeepsProcess DEF Options
<1> QED  BY <1>2, <1>3, <1>4, <1>5, <1>6, <1>7, <1>8, <1>9, <1>10, <1>11, <1>12, <1>13,
            <1>14, <1>15 DEF Next, LoadStep

LEMMA BootStart == Init => BootInv
<1> SUFFICES ASSUME Init PROVE BootInv
  OBVIOUS
<1>1. app \in {Configured(a) : a \in Apps}
  BY DEF Init
<1>2. listens \in BOOLEAN /\ wrapped \in BOOLEAN /\ resetRefused \in BOOLEAN
  BY Zenon DEF Init
<1>3. phase = "down" /\ run = 0 /\ link = "connecting"
  BY DEF Init
<1> QED  BY <1>1, <1>2, <1>3, BoundsAssumption DEF BootInv, Phases

-----------------------------------------------------------------------------
(* The entries.  Only a miss adds one: what the request it answers may      *)
(* share, under that request's key and this run's number.                   *)
EntryOf(q) == [key |-> KeyOf(q), by |-> q, run |-> run, data |-> Stored(q.response)]

LEMMA StoreSteps ==
    ASSUME [Next]_vars
    PROVE  \/ store' \subseteq store
           \/ \E q \in app.requests :
                 /\ Serving /\ isCacheable(q.response) /\ ConfigOf(q) # Null /\ LooksUp(q)
                 /\ StoreEntry(EntryOf(q)) /\ UNCHANGED <<app, run>>
<1> DEFINE Shrinks == store' \subseteq store
<1>1. CASE UNCHANGED vars
  BY <1>1 DEF vars
<1>2. ASSUME NEW l \in BOOLEAN, Load(l) PROVE Shrinks
  BY <1>2 DEF Load
<1>3. ASSUME NEW t \in Types, ResolveType(t) \/ EmbeddingMemo(t) PROVE Shrinks
  BY <1>3 DEF ResolveType, EmbeddingMemo
<1>4. ASSUME \/ Traversing \/ ResolveFails \/ Register \/ CreateFails \/ CreateProvider \/ Listen
             \/ ClientReady \/ ClientError \/ Disconnect \/ Stop
      PROVE  Shrinks
  BY <1>4 DEF Traversing, ResolveFails, Register, CreateFails, CreateProvider, Listen, ClientReady,
     ClientError, Disconnect, Stop, Initialize, Fail, AfterBootstrap, AfterListen
<1>5. ASSUME NEW q \in app.requests, Bypass(q) \/ Hit(q) PROVE Shrinks
  BY <1>5 DEF Bypass, Hit
<1>6. ASSUME NEW q \in app.requests, Miss(q)
      PROVE  \/ Shrinks
             \/ /\ Serving /\ isCacheable(q.response) /\ ConfigOf(q) # Null /\ LooksUp(q)
                /\ StoreEntry(EntryOf(q)) /\ UNCHANGED <<app, run>>
  BY <1>6 DEF Miss, EntryOf, bootVars
<1>7. ASSUME NEW p, ManualPurge(p) PROVE Shrinks
  BY <1>7 DEF ManualPurge, Purge
<1>8. ASSUME NEW w, ServiceWrite(w) \/ UncachedWrite(w) \/ RoutedWrite(w) \/ AdminWrite(w)
      PROVE  Shrinks
  BY <1>8 DEF ServiceWrite, UncachedWrite, RoutedWrite, AdminWrite, Purge
<1>9. ASSUME NEW e, Expire(e) PROVE Shrinks
  BY <1>9 DEF Expire
<1>10. DeleteRole => Shrinks
  BY DEF DeleteRole
<1> QED  BY <1>1, <1>2, <1>3, <1>4, <1>5, <1>6, <1>7, <1>8, <1>9, <1>10 DEF Next, LoadStep, Serve

\* The provider's room is kept, and its keys are distinct.
Room ==
    /\ IsFiniteSet(store) /\ Cardinality(store) <= MaxEntries
    /\ \A e, f \in store : e.key = f.key => e = f

\* What the app says of the route of a request.
RouteOf(q) == Injected(app)[q.route].config
Entry(e) ==
    /\ e.by \in app.requests /\ e.run \in 1 .. run
    /\ e.data = Stored(e.by.response) /\ isCacheable(e.by.response)
    /\ RouteOf(e.by) # Null /\ e.by.caller \notin Bypassed(RouteOf(e.by).route.hitpass)
    /\ e.key = generateCacheKey(e.by, RouteOf(e.by).route.keys)
StoreInv == Room /\ \A e \in store : Entry(e)

LEMMA RoomKept ==
    ASSUME Room, store' \subseteq store
    PROVE  Room'
<1>1. IsFiniteSet(store') /\ Cardinality(store') <= Cardinality(store)
  BY FS_Subset DEF Room
<1>2. Cardinality(store) \in Nat /\ Cardinality(store') \in Nat /\ MaxEntries \in Nat
  BY <1>1, FS_CardinalityType, BoundsAssumption DEF Room
<1> QED  BY <1>1, <1>2 DEF Room

LEMMA RoomMade ==
    ASSUME Room, NEW entry, StoreEntry(entry)
    PROVE  Room' /\ store' \subseteq store \union {entry} /\ entry \in store'
<1> DEFINE others == {e \in store : e.key # entry.key}
<1>1. /\ IsFiniteSet(others) /\ Cardinality(others) \in Nat
      /\ Cardinality(others) <= Cardinality(store)
      /\ Cardinality(store) \in Nat /\ MaxEntries \in Nat \ {0}
  BY FS_Subset, FS_CardinalityType, BoundsAssumption DEF Room
<1>2. \E kept \in SUBSET others : store' = kept \union {entry} /\ Cardinality(kept) < MaxEntries
                                  /\ IsFiniteSet(kept) /\ Cardinality(kept) \in Nat
  <2>1. CASE Cardinality(others) < MaxEntries
    BY <1>1, <2>1 DEF StoreEntry
  <2>2. CASE ~(Cardinality(others) < MaxEntries)
    <3>1. PICK displaced \in others : store' = (others \ {displaced}) \union {entry}
      BY <2>2 DEF StoreEntry
    <3>2. Cardinality(others \ {displaced}) = Cardinality(others) - 1
          /\ IsFiniteSet(others \ {displaced})
      BY <1>1, <3>1, FS_RemoveElement
    <3>3. Cardinality(store) <= MaxEntries
      BY DEF Room
    <3>4. Cardinality(others) >= 1
      BY <1>1, <2>2
    <3> HIDE DEF others
    <3>5. /\ Cardinality(others \ {displaced}) < MaxEntries
          /\ Cardinality(others \ {displaced}) \in Nat
      BY <1>1, <3>2, <3>3, <3>4
    <3> QED  BY <3>1, <3>2, <3>5
  <2> QED  BY <2>1, <2>2
<1>3. PICK kept \in SUBSET others : store' = kept \union {entry} /\ Cardinality(kept) < MaxEntries
                                    /\ IsFiniteSet(kept) /\ Cardinality(kept) \in Nat
  BY <1>2
<1>4. IsFiniteSet(store') /\ Cardinality(store') <= MaxEntries
  <2>1. /\ IsFiniteSet(kept \union {entry})
        /\ Cardinality(kept \union {entry}) = IF entry \in kept THEN Cardinality(kept)
                                              ELSE Cardinality(kept) + 1
    BY <1>3, FS_AddElement
  <2> QED  BY <1>1, <1>3, <2>1
<1>5. \A e, f \in store' : e.key = f.key => e = f
  BY <1>3 DEF Room
<1> QED  BY <1>3, <1>4, <1>5 DEF Room

LEMMA ProcessSteps == BootInv /\ [Next]_vars => UNCHANGED app /\ run' \in {run, run + 1}
<1> USE DEF bootVars
<1>1. ASSUME NEW l, Load(l) PROVE UNCHANGED app /\ run' = run + 1
  BY <1>1 DEF Load
<1>2. ASSUME UNCHANGED vars \/ LoadStep \/ ClientReady \/ ClientError \/ Disconnect \/ Stop
      PROVE  UNCHANGED <<app, run>>
  BY <1>2 DEF vars, LoadStep, Traversing, ResolveType, EmbeddingMemo, ResolveFails, Register,
     CreateFails, CreateProvider, Listen, ClientReady, ClientError, Disconnect, Stop, Initialize,
     Fail
<1> QED  BY <1>1, <1>2, ServeKeepsProcess DEF Next

LEMMA StoreStep == BootInv /\ StoreInv /\ [Next]_vars => StoreInv'
<1> SUFFICES ASSUME BootInv, StoreInv, [Next]_vars PROVE StoreInv'
  OBVIOUS
<1>1. app' = app /\ run \in Nat /\ run' \in {run, run + 1}
  BY ProcessSteps, BoundsAssumption DEF BootInv
<1>2. \A e : Entry(e) => Entry(e)'
  BY <1>1 DEF Entry, RouteOf
<1>3. CASE store' \subseteq store
  BY <1>2, <1>3, RoomKept DEF StoreInv
<1>4. ASSUME NEW q \in app.requests, Serving, isCacheable(q.response), ConfigOf(q) # Null,
             LooksUp(q), StoreEntry(EntryOf(q)), UNCHANGED <<app, run>>
      PROVE  StoreInv'
  <2>1. Entry(EntryOf(q))
    <3>1. ConfigOf(q) = RouteOf(q)
      BY <1>4 DEF ConfigOf, RouteOf, Serving, BootInv
    <3> QED  BY <1>1, <1>4, <3>1 DEF Entry, EntryOf, KeyOf, LooksUp, Serving, BootInv
  <2>2. Room' /\ store' \subseteq store \union {EntryOf(q)}
    BY <1>4, RoomMade DEF StoreInv
  <2> QED  BY <1>2, <2>1, <2>2 DEF StoreInv
<1> QED  BY <1>3, <1>4, StoreSteps

LEMMA StoreStart == Init => StoreInv
BY FS_EmptySet, BoundsAssumption DEF Init, StoreInv, Room

\* Keys are distinct, so that there are as many as entries.
LEMMA DistinctKeys ==
    ASSUME Room
    PROVE  Cardinality({e.key : e \in store}) = Cardinality(store)
<1> DEFINE keyOf == [e \in store |-> e.key]
<1>1. keyOf \in Bijection(store, {e.key : e \in store})
  BY DEF Room, Bijection, Injection, Surjection, IsInjective
<1> QED  BY <1>1, FS_Bijection DEF Room, ExistsBijection

(* Every variable keeps its type, the provider's room is never exceeded and *)
(* no key is stored twice.                                                  *)
THEOREM PluginTypeCorrect == Spec => []PluginTypeOK
<1> DEFINE Inv == RelatedInv /\ BootInv /\ StoreInv
<1>1. Init => Inv
  BY RelatedStart, BootStart, StoreStart
<1>2. Inv /\ [Next]_vars => Inv'
  BY RelatedStep, BootStep, StoreStep
<1>3. Inv => PluginTypeOK
  <2> SUFFICES ASSUME Inv PROVE PluginTypeOK
    OBVIOUS
  <2>1. Cardinality(store) <= MaxEntries /\ Cardinality({e.key : e \in store}) = Cardinality(store)
    BY DistinctKeys DEF StoreInv, Room
  <2>2. \A e \in store : e.by \in app.requests /\ e.run \in 1 .. run
    BY DEF StoreInv, Entry
  <2>3. {listens, wrapped, resetRefused} \subseteq BOOLEAN
    BY DEF BootInv
  <2> QED  BY <2>1, <2>2, <2>3 DEF RelatedInv, BootInv, Phases, PluginTypeOK
<1> HIDE DEF Inv
<1> QED  BY <1>1, <1>2, <1>3, PTL DEF Spec

-----------------------------------------------------------------------------
(* The reset on startup.                                                    *)
LEMMA ResetStep ==
    ASSUME BootInv, BootInv', StoreInv, ResetBeforeServing, [Next]_vars
    PROVE  ResetBeforeServing'
<1> SUFFICES ASSUME phase' = "serving", Options'.resetOnStartup, ~resetRefused',
                    NEW e \in store'
             PROVE  e.run = run'
  BY DEF ResetBeforeServing
<1> USE DEF bootVars
<1>1. app' = app
  BY ProcessSteps
<1>2. CASE phase = "serving"
  <2>1. UNCHANGED <<run, resetRefused>>
    BY <1>2, ServeKeepsProcess DEF Next, LoadStep, vars, Load, Traversing, ResolveType,
       EmbeddingMemo, ResolveFails, Register, CreateFails, CreateProvider, Listen, ClientReady,
       ClientError, Disconnect, Stop, Initialize, Fail
  <2>2. \A f \in store : f.run = run
    BY <1>1, <1>2, <2>1 DEF ResetBeforeServing, Options
  <2>3. ASSUME NEW q \in app.requests, StoreEntry(EntryOf(q)) PROVE e.run = run
    <3>1. store' \subseteq store \union {EntryOf(q)}
      BY <2>3, RoomMade DEF StoreInv
    <3> QED  BY <2>2, <3>1 DEF EntryOf
  <2> QED  BY <2>1, <2>2, <2>3, StoreSteps
<1>3. CASE phase # "serving"
  <2>1. Listen
    BY <1>3, ServeKeepsProcess DEF Next, LoadStep, vars, Load, Traversing, ResolveType,
       EmbeddingMemo, ResolveFails, Register, CreateFails, CreateProvider, ClientReady, ClientError,
       Disconnect, Stop, Initialize, Fail, Serving
  <2>2. wrapped = Options.resetOnStartup
    BY <2>1 DEF Listen, BootInv
  <2>3. wrapped /\ ready
    BY <1>1, <2>1, <2>2 DEF Listen, Options
  <2> QED  BY <2>1, <2>3 DEF Listen, AfterListen
<1> QED  BY <1>2, <1>3

(* With resetOnStartup a server answers from no entry of an earlier run,    *)
(* unless the provider was not ready for the reset (bootstrap.ts).          *)
THEOREM ResetComesFirst == Spec => []ResetBeforeServing
<1> DEFINE Inv == BootInv /\ StoreInv /\ ResetBeforeServing
<1>1. Init => Inv
  BY BootStart, StoreStart DEF Init, ResetBeforeServing
<1>2. Inv /\ [Next]_vars => Inv'
  BY BootStep, StoreStep, ResetStep
<1> QED  BY <1>1, <1>2, PTL DEF Spec

(* A command that only loads the application leaves a shared cache as it is *)
(* (bootstrap.ts, the wrapped strapi.listen).                               *)
THEOREM LoadEmptiesNothing == Spec => LoadKeepsEntries
<1>1. BootInv /\ [Next]_vars => [(~listens /\ phase # "down" /\ Redis) => store' = store]_vars
  <2> SUFFICES ASSUME BootInv, Next, ~listens, phase # "down", Redis PROVE store' = store
    OBVIOUS
  <2>1. phase # "serving"
    BY DEF BootInv
  <2> QED  BY <2>1, ServeKeepsProcess DEF Next, LoadStep, Load, Traversing, ResolveType,
     EmbeddingMemo, ResolveFails, Register, CreateFails, CreateProvider, Listen, ClientReady, ClientError,
     Disconnect, Stop, Initialize, Fail, AfterBootstrap, bootVars, Serving
<1> QED  BY <1>1, BootStart, BootStep, PTL DEF Spec, LoadKeepsEntries

-----------------------------------------------------------------------------
(* The answers.  A server gave the last one and nothing has happened since: *)
(* a hit replays an entry that its request stored, and a response that      *)
(* carries the plugin's Cache-Control is stored.                            *)
AnswerInv ==
    Answers =>
        /\ phase = "serving" /\ last.request \in app.requests
        /\ last.via = "hit" =>
            LET response == last.by.response IN
            /\ last.by \in app.requests /\ isCacheable(response)
            /\ ConfigOf(last.request) # Null /\ KeyOf(last.by) = KeyOf(last.request)
            /\ ConfigOf(last.by) # Null /\ LooksUp(last.by) /\ LooksUp(last.request)
            /\ last.body = Stored(response).body /\ last.type = replay(Stored(response))
        /\ last.cacheControl # Null =>
            /\ ConfigOf(last.request) # Null
            /\ last.cacheControl = CacheControl(Options.cacheControl, ConfigOf(last.request).route)
            /\ ready => Found(last.request) # {}

\* A step that answers nothing.
LEMMA QuietSteps ==
    ASSUME [Next]_vars
    PROVE  \/ \E q \in app.requests : Bypass(q) \/ Hit(q) \/ Miss(q)
           \/ ~Answers'
           \/ last' = last /\ (phase # "serving" \/ UNCHANGED <<app, phase, injected, link, store>>)
<1> DEFINE Quiet ==
        \/ ~Answers'
        \/ last' = last /\ (phase # "serving" \/ UNCHANGED <<app, phase, injected, link, store>>)
<1> USE DEF Answers, bootVars
<1>1. CASE UNCHANGED vars
  BY <1>1 DEF vars
<1>2. ASSUME NEW l \in BOOLEAN, Load(l) PROVE Quiet
  BY <1>2 DEF Load, Nothing
<1>3. ASSUME NEW t \in Types, ResolveType(t) \/ EmbeddingMemo(t) PROVE Quiet
  <2>1. ResolveType(t) => Quiet
    BY DEF ResolveType
  <2>2. EmbeddingMemo(t) => last' = Nothing
    BY DEF EmbeddingMemo
  <2> QED  BY <1>3, <2>1, <2>2 DEF Nothing
<1>4. ASSUME Traversing \/ ResolveFails \/ Register \/ CreateFails \/ CreateProvider \/ Listen
      PROVE  Quiet
  BY <1>4 DEF Traversing, ResolveFails, Register, CreateFails, CreateProvider, Listen,
     Initialize, Fail
<1>5. ASSUME ClientReady \/ ClientError \/ Disconnect \/ Stop PROVE Quiet
  BY <1>5 DEF ClientReady, ClientError, Disconnect, Stop, Initialize, Fail, Nothing
<1>6. ASSUME NEW p, ManualPurge(p) PROVE Quiet
  BY <1>6 DEF ManualPurge, Purge
<1>7. ASSUME NEW w, ServiceWrite(w) \/ UncachedWrite(w) \/ RoutedWrite(w) \/ AdminWrite(w)
      PROVE  Quiet
  <2>1. ServiceWrite(w) => last'.kind = "purge"
    BY DEF ServiceWrite, Purge
  <2>2. UncachedWrite(w) => last'.kind = "purge"
    BY DEF UncachedWrite, Purge
  <2>3. RoutedWrite(w) => last'.kind = "purge"
    BY DEF RoutedWrite, Purge
  <2>4. AdminWrite(w) => last'.kind = "purge"
    BY DEF AdminWrite, Purge
  <2> QED  BY <1>7, <2>1, <2>2, <2>3, <2>4
<1>8. ASSUME NEW e, Expire(e) PROVE Quiet
  BY <1>8 DEF Expire, Nothing
<1>9. DeleteRole => Quiet
  BY DEF DeleteRole, Nothing
<1> QED  BY <1>1, <1>2, <1>3, <1>4, <1>5, <1>6, <1>7, <1>8, <1>9 DEF Next, LoadStep, Serve

LEMMA BypassAnswers ==
    ASSUME NEW q \in app.requests, Bypass(q)
    PROVE  AnswerInv'
BY DEF Bypass, Serving, Origin, Answered, AnswerInv, Answers, bootVars

LEMMA HitAnswers ==
    ASSUME BootInv, StoreInv, NEW q \in app.requests, Hit(q)
    PROVE  AnswerInv'
<1> USE DEF Hit, Serving, bootVars
<1>1. PICK e \in Found(q) :
          last' = Answered(q, "hit", e.by, [body |-> e.data.body, type |-> replay(e.data)],
                           CacheControl(Options.cacheControl, ConfigOf(q).route))
  OBVIOUS
<1>2. Entry(e) /\ e.key = KeyOf(q)
  BY DEF Found, StoreInv
<1>3. UNCHANGED <<app, injected, link, store, phase>>
  OBVIOUS
<1>4. /\ e.by \in app.requests /\ e.data = Stored(e.by.response) /\ isCacheable(e.by.response)
      /\ ConfigOf(e.by) # Null /\ LooksUp(e.by) /\ KeyOf(e.by) = KeyOf(q)
  <2>1. ConfigOf(e.by) = RouteOf(e.by)
    BY DEF ConfigOf, RouteOf, BootInv
  <2> QED  BY <1>2, <2>1 DEF Entry, LooksUp, KeyOf
<1>5. /\ ConfigOf(e.by)' = ConfigOf(e.by) /\ LooksUp(e.by)' = LooksUp(e.by)
      /\ KeyOf(e.by)' = KeyOf(e.by) /\ KeyOf(q)' = KeyOf(q) /\ LooksUp(q)' = LooksUp(q)
  BY <1>3 DEF ConfigOf, LooksUp, KeyOf
<1>6. Found(q)' = Found(q) /\ ConfigOf(q)' = ConfigOf(q) /\ Options' = Options /\ ready' = ready
  BY <1>3 DEF Found, ConfigOf, KeyOf, Options, ready, Redis
<1> HIDE DEF Hit
<1>7. ConfigOf(q) # Null /\ LooksUp(q) /\ phase = "serving"
  BY DEF Hit
<1> QED  BY <1>1, <1>3, <1>6, <1>4, <1>5, <1>7 DEF AnswerInv, Answers, Answered

LEMMA MissAnswers ==
    ASSUME StoreInv, NEW q \in app.requests, Miss(q)
    PROVE  AnswerInv'
<1> USE DEF Miss, Serving, bootVars
<1>1. UNCHANGED <<app, injected, link, phase>> /\ phase = "serving" /\ ConfigOf(q) # Null
  OBVIOUS
<1>2. ConfigOf(q)' = ConfigOf(q) /\ KeyOf(q)' = KeyOf(q) /\ Options' = Options /\ ready' = ready
  BY <1>1 DEF ConfigOf, KeyOf, Options, ready, Redis
<1>3. CASE isCacheable(q.response)
  <2> DEFINE cc == Advertised(q.response, ConfigOf(q).route)
  <2>1. last' = Answered(q, "origin", q, Sent(q.response), cc)
    BY <1>3 DEF Origin
  <2>2. cc # Null => cc = CacheControl(Options.cacheControl, ConfigOf(q).route)
    BY DEF Advertised
  <2>3. ready => \E e \in store' : e.key = KeyOf(q)
    <3> SUFFICES ASSUME ready PROVE EntryOf(q) \in store' /\ EntryOf(q).key = KeyOf(q)
      OBVIOUS
    <3>1. StoreEntry(EntryOf(q))
      BY <1>3 DEF EntryOf
    <3> QED  BY <3>1, RoomMade DEF StoreInv, EntryOf
  <2>4. ready' => Found(q)' # {}
    BY <1>2, <2>3 DEF Found
  <2> HIDE DEF cc
  <2> QED  BY <1>1, <1>2, <2>1, <2>2, <2>4 DEF AnswerInv, Answers, Answered
<1>4. CASE ~isCacheable(q.response)
  BY <1>1, <1>4 DEF Origin, Answered, AnswerInv, Answers
<1> QED  BY <1>3, <1>4

LEMMA AnswerStep == BootInv /\ StoreInv /\ AnswerInv /\ [Next]_vars => AnswerInv'
<1> SUFFICES ASSUME BootInv, StoreInv, AnswerInv, [Next]_vars PROVE AnswerInv'
  OBVIOUS
<1>1. ASSUME last' = last, phase = "serving", UNCHANGED <<app, phase, injected, link, store>>
      PROVE  AnswerInv'
  BY <1>1 DEF AnswerInv, Answers, Found, ConfigOf, KeyOf, LooksUp, Options, ready, Redis
<1>2. ASSUME last' = last, phase # "serving" PROVE AnswerInv'
  BY <1>2 DEF AnswerInv, Answers
<1>3. ~Answers' => AnswerInv'
  BY DEF AnswerInv
<1> QED  BY <1>1, <1>2, <1>3, QuietSteps, BypassAnswers, HitAnswers, MissAnswers

LEMMA AnswersInvariant == Spec => [](BootInv /\ StoreInv /\ AnswerInv)
<1>1. Init => BootInv /\ StoreInv /\ AnswerInv
  BY BootStart, StoreStart DEF Init, AnswerInv, Answers, Nothing
<1> QED  BY <1>1, BootStep, StoreStep, AnswerStep, PTL DEF Spec

\* What a handler sends, what is kept of it, and what is replayed.
LEMMA ReplayIsPassive ==
    ASSUME NEW response, response.body \in Bodies, response.type # Null, isCacheable(response)
    PROVE  LET sent == Sent(response)
               entry == Stored(response)
               bound == Activity(Inferred(entry.body))
           IN  /\ entry.body = sent.body
               /\ Activity(replay(entry)) <= bound
               /\ Activity(sent.type) <= bound => replay(entry).mime = sent.type.mime
<1>1. response.body \in {"json", "text", "markup", "array"}
  BY DEF Bodies, isCacheable
<1> DEFINE body == response.body
           type == SentType(response)
           entry == Stored(response)
\* An object is sent as JSON, and so are its replays.
<1>2. CASE body \in {"json", "array"}
  <2>1. /\ entry = [body |-> "json", type |-> Null]
        /\ type = Inferred("json")
    BY <1>2 DEF Stored, typeToKeep, IsString, SentType, Inferred
  <2>2. replay(entry) = Inferred("json")
    BY <2>1 DEF replay
  <2>3. Activity(Inferred("json")) = 0
    BY DEF Activity, Inferred, Type, UTF8
  <2>4. Sent(response).body = "json" /\ Sent(response).type = type
    BY <1>2 DEF Sent, IsString
  <2> QED  BY <2>1, <2>2, <2>3, <2>4
\* A text keeps its type if that can be replayed, and no other can be sent
\* that is as passive as the one inferred.
<1>3. CASE IsString(body)
  <2>1. body \in {"text", "markup"}
    BY <1>3 DEF IsString
  <2>2. /\ entry.body = body
        /\ entry.type = IF isReplayable(type, body) THEN type ELSE Null
    BY <1>3 DEF Stored, typeToKeep
  <2>3. replay(entry) = IF isReplayable(type, body) THEN type ELSE Inferred(body)
    <3>1. type = Or(response.type, Inferred(body))
      BY <2>1 DEF SentType
    <3>2. type = Null => type = Inferred(body)
      BY <3>1 DEF Or
    <3> HIDE DEF entry, type
    <3> QED  BY <1>3, <2>2, <3>2 DEF replay
  <2>4. Sent(response).body = body /\ Sent(response).type = type
    BY <2>1 DEF Sent
  <2>5. Inferred("text") = Type("text/plain", UTF8) /\ Inferred("markup") = Type("text/html", UTF8)
    BY DEF Inferred
  <2>6. Activity(Inferred(body)) = (IF body = "text" THEN 0 ELSE 1)
    BY <2>1, <2>5 DEF Activity, Type, UTF8
  <2>7. isReplayable(type, body) => Activity(type) <= Activity(Inferred(body))
    <3> HIDE DEF type
    <3> QED  BY <2>1, <2>6 DEF isReplayable, PassiveTypes, MarkupTypes, Activity
  <2>8. ~isReplayable(type, body) /\ Activity(type) <= Activity(Inferred(body))
            => type.mime = Inferred(body).mime
    <3> HIDE DEF type
    <3>1. Activity(type) \in {0, 1, 2}
      BY DEF Activity
    <3>2. Activity(type) \in {0, 1}
              => /\ type.charset \in {UTF8, Null}
                 /\ type.mime \in PassiveTypes \union {"text/html", "application/xml"}
      BY DEF Activity, PassiveTypes
    <3>3. Activity(type) = 0 => type.mime \in PassiveTypes
      BY DEF Activity, PassiveTypes
    <3>4. Activity(type) <= Activity(Inferred(body))
              => Activity(type) \in {0, 1} /\ (body = "text" => Activity(type) = 0)
      BY <2>1, <2>6, <3>1
    <3>5. ~isReplayable(type, body) /\ Activity(type) <= Activity(Inferred(body))
              => body = "markup" /\ type.mime = "text/html"
      BY <2>1, <3>2, <3>3, <3>4 DEF isReplayable, MarkupTypes
    <3> QED  BY <2>5, <3>5 DEF Type
  <2> QED  BY <2>2, <2>3, <2>4, <2>6, <2>7, <2>8
<1> QED  BY <1>1, <1>2, <1>3 DEF IsString

(* A hit replays the body that was sent, with a type no more active than    *)
(* the one koa would infer, and with the type that was sent when it can be  *)
(* (recv.ts, isReplayable): for every response a handler can give.          *)
THEOREM HitsReplayWhatWasSent == Spec => []ReplayedAsSent
<1>1. BootInv /\ AnswerInv => ReplayedAsSent
  <2> SUFFICES ASSUME BootInv, AnswerInv, Hits PROVE ReplayedAsSent
    BY DEF ReplayedAsSent
  <2> DEFINE response == last.by.response
  <2>1. /\ last.by \in app.requests /\ isCacheable(response)
        /\ last.body = Stored(response).body /\ last.type = replay(Stored(response))
    BY DEF Hits, AnswerInv
  <2>2. response.body \in Bodies /\ response.type # Null
    BY <2>1, RequestsAssumption DEF BootInv
  <2> QED  BY <2>1, <2>2, ReplayIsPassive DEF ReplayedAsSent
<1> QED  BY <1>1, AnswersInvariant, PTL

\* A public response holds no caller in its key.
LEMMA PublicKeysHoldNoCaller ==
    ASSUME NEW q, {"route", "path", "query", "headers", "auth"} \subseteq DOMAIN q, NEW auth,
           CacheControl(Options.cacheControl, ConfigOf(q).route) # Null,
           CacheControl(Options.cacheControl, ConfigOf(q).route).scope = "public"
    PROVE  KeyOf([q EXCEPT !.auth = auth]) = KeyOf(q)
<1> DEFINE other == [q EXCEPT !.auth = auth]
           keys == ConfigOf(q).route.keys
<1>1. /\ other.route = q.route /\ other.path = q.path
      /\ other.query = q.query /\ other.headers = q.headers
  OBVIOUS
<1>2. ~Truthy(keys.useAuth)
  BY DEF CacheControl, Scope
<1>3. ConfigOf(other).route.keys = keys
  BY <1>1 DEF ConfigOf
<1> HIDE DEF other, keys
<1>4. generateCacheKey(other, keys) = generateCacheKey(q, keys)
  BY <1>1, <1>2 DEF generateCacheKey
<1> QED  BY <1>3, <1>4 DEF KeyOf, other, keys

(* The Cache-Control the plugin adds is true: the response is in the cache, *)
(* `public` means that whoever asks gets this entry, and the advertised age *)
(* is the entry's own rounded down to seconds (buildCacheControl.ts).       *)
THEOREM CacheControlIsTrue == Spec => []AdvertisedTruly
<1>1. BootInv /\ AnswerInv => AdvertisedTruly
  <2> DEFINE request == last.request
             route == ConfigOf(request).route
             control == Options.cacheControl
  <2> SUFFICES ASSUME BootInv, AnswerInv, Answers, last.cacheControl # Null
               PROVE  /\ ready => Found(request) # {}
                      /\ last.cacheControl.scope = "public" =>
                            \A auth : KeyOf([request EXCEPT !.auth = auth]) = KeyOf(request)
                      /\ control.maxAge = Unset =>
                            /\ last.cacheControl.maxAge * 1000 <= route.maxAge
                            /\ route.maxAge < (last.cacheControl.maxAge + 1) * 1000
    BY DEF AdvertisedTruly
  <2>1. /\ phase = "serving" /\ request \in app.requests /\ ConfigOf(request) # Null
        /\ last.cacheControl = CacheControl(control, route)
        /\ ready => Found(request) # {}
    BY DEF AnswerInv
  <2>2. {"route", "path", "query", "headers", "auth"} \subseteq DOMAIN request
    BY <2>1, RequestsAssumption DEF BootInv
  <2>3. ASSUME control.maxAge = Unset
        PROVE  /\ last.cacheControl.maxAge * 1000 <= route.maxAge
               /\ route.maxAge < (last.cacheControl.maxAge + 1) * 1000
    <3>1. route.maxAge \in Nat
      BY <2>1, RequestsAssumption DEF BootInv, ConfigOf
    <3>2. last.cacheControl.maxAge = route.maxAge \div 1000
      BY <2>1, <2>3, OptionAssumption DEF CacheControl, toSeconds, Or
    <3> QED  BY <3>1, <3>2
  <2> QED  BY <2>1, <2>2, <2>3, PublicKeysHoldNoCaller
<1> QED  BY <1>1, AnswersInvariant, PTL

-----------------------------------------------------------------------------
(* The key of a hit is that of the request that stored the entry, and its   *)
(* parts can be told apart: CacheKeys_proofs.                               *)
THEOREM HitsAnswer == Spec => []HitsAnswerTheRequest
<1>1. BootInv /\ AnswerInv => HitsAnswerTheRequest
  <2> DEFINE q == last.request
             r == last.by
             keys == ConfigOf(q).route.keys
  <2> SUFFICES ASSUME BootInv, AnswerInv, Hits PROVE SameQuestion(q, r, keys)
    BY DEF HitsAnswerTheRequest
  <2>1. q \in app.requests /\ r \in app.requests /\ KeyOf(q) = KeyOf(r)
    BY DEF Hits, AnswerInv
  <2> HIDE DEF q, r
  <2>2. PICK a \in Apps : app = Configured(a)
    BY DEF BootInv
  <2>3. PICK api, admin \in {"api-token", "content-api-token", "admin", "admin-token"} :
            AuthNames(api, admin) /\ \A x \in app.requests : x.auth \in Auths(api, admin)
    BY <2>2, CallersAssumption
  <2>4. IsRequest(q) /\ IsRequest(r)
    BY <2>1, <2>2, RequestsAssumption
  <2>5. q.auth \in Auths(api, admin) /\ r.auth \in Auths(api, admin)
    BY <2>1, <2>3
  <2> DEFINE others == ConfigOf(r).route.keys
  <2>6. generateCacheKey(q, keys) = generateCacheKey(r, others)
    BY <2>1 DEF KeyOf
  <2>7. /\ NormalizedPath(q.path) = NormalizedPath(r.path)
        /\ keys = others => SameParts(q, r, keys)
    <3> HIDE DEF keys, others
    <3> QED  BY <2>3, <2>4, <2>5, <2>6, KeysTell
  <2>8. q.route = r.route /\ FoldedParams(q) = FoldedParams(r)
    BY <2>1, <2>2, <2>7, RoutingAssumption
  <2>9. keys = others
    BY <2>8 DEF ConfigOf
  <2> HIDE DEF keys, others
  <2> QED  BY <2>7, <2>8, <2>9 DEF SameQuestion, SameParts
<1> QED  BY <1>1, AnswersInvariant, PTL

-----------------------------------------------------------------------------
(* The configuration.  A resolved route carries what its options say of the *)
(* callers it lets in, in `hitpass`.                                        *)
\* A set of positions of a list has a last one.
LEMMA MaxIs ==
    ASSUME NEW n \in Nat, NEW S, S \subseteq 1 .. n, S # {}
    PROVE  Ext!Max(S) \in S
<1> DEFINE R == {n - k : k \in S}
<1>1. \A k \in S : k \in Nat /\ n - k \in Nat
  OBVIOUS
<1>2. R \subseteq Nat /\ R # {}
  BY <1>1
<1>3. PICK m \in R : \A x \in R : m <= x
  <2> HIDE DEF R
  <2> QED  BY <1>2, Least
<1>4. PICK k \in S : m = n - k
  BY <1>3
<1>5. \A l \in S : k >= l
  <2> SUFFICES ASSUME NEW l \in S PROVE k >= l
    OBVIOUS
  <2>1. n - l \in R
    OBVIOUS
  <2>2. n - k <= n - l /\ k \in Nat /\ l \in Nat
    BY <1>1, <1>3, <1>4, <2>1
  <2> HIDE DEF R
  <2> QED  BY <2>2
<1> QED  BY <1>4, <1>5 DEF Ext!Max

\* Without a caller in the key, a listed route lets in no caller that its
\* own hitpass, or without one the strategy's, bypasses.
LEMMA ListedSays ==
    ASSUME NEW strategy \in {Null} \union Hitpass, NEW type \in {Unset, Null} \union Hitpass,
           NEW own, NEW keys, ~Truthy(keys.useAuth),
           NEW caller,
           caller \notin Bypassed(Or(Or(own, ListedHitpass(strategy, type, keys)), Never))
    PROVE  caller \notin Bypassed(Or(own, strategy))
<1>1. CASE own # Unset
  BY <1>1 DEF Or
<1>2. CASE own = Unset /\ type \in {Unset, Null}
  <2>1. ListedHitpass(strategy, type, keys) = strategy
    BY <1>2 DEF ListedHitpass
  <2>2. strategy # Unset
    BY OptionAssumption
  <2> QED  BY <1>2, <2>1, <2>2 DEF Or
<1>3. CASE own = Unset /\ type \notin {Unset, Null}
  <2> DEFINE both == [literal |-> "function", bypass |-> Bypassed(strategy) \union Bypassed(type)]
  <2>1. Bypassed(strategy) \subseteq Callers /\ Bypassed(type) \subseteq Callers
    BY <1>3 DEF Bypassed, Hitpass
  <2>2. both \in Hitpass
    BY <2>1 DEF Hitpass
  <2>3. both # Unset /\ both # Null
    BY <2>2, OptionAssumption
  <2>4. ~IsTrue(keys.useAuth)
    BY DEF IsTrue, Truthy
  <2>5. ListedHitpass(strategy, type, keys) = both
    BY <1>3, <2>4 DEF ListedHitpass
  <2>6. Bypassed(both) = Bypassed(strategy) \union Bypassed(type)
    BY <2>3 DEF Bypassed
  <2> HIDE DEF both
  <2> QED  BY <1>3, <2>3, <2>5, <2>6, OptionAssumption DEF Or
<1> QED  BY <1>1, <1>2, <1>3

\* What the routes of a content type say.
Chosen(c) ==
    \A caller : ~Truthy(c.route.keys.useAuth) /\ caller \notin Bypassed(c.route.hitpass)
                    => caller \notin Bypassed(c.says)
OptionsOK(options) ==
    /\ options.hitpass \in {Null} \union Hitpass
    /\ \A i \in DOMAIN options.contentTypes :
          LET entry == options.contentTypes[i] IN
          IsList(entry.routes) /\ entry.hitpass \in {Unset, Null} \union Hitpass

LEMMA ListIs ==
    ASSUME NEW s, IsList(s)
    PROVE  Len(s) \in Nat /\ DOMAIN s = 1 .. Len(s) /\ s \in Seq({s[i] : i \in DOMAIN s})
BY LenProperties DEF IsList

LEMMA DefaultRoutesAre ==
    ASSUME NEW a, IsList(a.routes), NEW entry
    PROVE  LET C == {RouteConfig(a.prefix \o a.routes[i].path, a.routes[i].method,
                                 KeysConfig(Coalesce(entry.keys, a.options.keys)),
                                 Or(entry.maxAge, a.options.maxAge),
                                 Or(entry.hitpass, a.options.hitpass)) : i \in DOMAIN a.routes}
           IN  DefaultRoutes(a, entry) \in Seq(C)
<1> DEFINE config(r) == RouteConfig(a.prefix \o r.path, r.method,
                                    KeysConfig(Coalesce(entry.keys, a.options.keys)),
                                    Or(entry.maxAge, a.options.maxAge),
                                    Or(entry.hitpass, a.options.hitpass))
           type == a.types[entry.uid]
           core(r) == r.plugin = Null /\ r.api = type.api /\ IsDefaultRoute(type, r)
           parts == [i \in DOMAIN a.routes |->
                        IF core(a.routes[i]) THEN <<config(a.routes[i])>> ELSE <<>>]
           C == {config(a.routes[i]) : i \in DOMAIN a.routes}
<1>1. DefaultRoutes(a, entry) = Ext!FlattenSeq(parts)
  BY DEF DefaultRoutes
<1>2. Len(a.routes) \in Nat /\ DOMAIN a.routes = 1 .. Len(a.routes)
  BY ListIs
<1>3. parts \in Seq(Seq(C))
  <2>1. \A i \in 1 .. Len(a.routes) : config(a.routes[i]) \in C
    BY <1>2
  <2> HIDE DEF config, core, C
  <2>2. \A i \in 1 .. Len(a.routes) : parts[i] \in Seq(C)
    BY <1>2, <2>1
  <2>3. parts = [i \in 1 .. Len(a.routes) |-> parts[i]]
    BY <1>2
  <2> HIDE DEF parts
  <2> QED  BY <1>2, <2>2, <2>3
<1>4. Ext!FlattenSeq(parts) \in Seq(C)
  <2> HIDE DEF parts, C
  <2> QED  BY <1>3, FlattenType
<1> QED  BY <1>1, <1>4

\* Each route a content type resolves to says what it does.
LEMMA RoutesSay ==
    ASSUME NEW a, IsList(a.routes), OptionsOK(a.options),
           NEW n \in DOMAIN a.options.contentTypes
    PROVE  LET configs == ContentTypeConfig(a, a.options.contentTypes[n])
           IN  /\ \A j \in DOMAIN configs : Chosen(configs[j])
               /\ configs \in Seq({configs[j] : j \in DOMAIN configs})
<1> DEFINE entry == a.options.contentTypes[n]
           options == a.options
           own == Listed(a, entry)
           core == IF InjectsDefaults(a, entry) THEN DefaultRoutes(a, entry) ELSE <<>>
           configs == ContentTypeConfig(a, entry)
           routes == own \o core
           D == {RouteConfig(a.prefix \o a.routes[i].path, a.routes[i].method,
                             KeysConfig(Coalesce(entry.keys, a.options.keys)),
                             Or(entry.maxAge, a.options.maxAge),
                             Or(entry.hitpass, a.options.hitpass)) : i \in DOMAIN a.routes}
           O == {own[i] : i \in DOMAIN own}
<1>1. /\ options.hitpass \in {Null} \union Hitpass /\ entry.hitpass \in {Unset, Null} \union Hitpass
      /\ IsList(entry.routes)
  BY DEF OptionsOK
<1> HIDE DEF entry
<1>2. Len(entry.routes) \in Nat /\ DOMAIN entry.routes = 1 .. Len(entry.routes)
  BY <1>1, ListIs
<1>3. core \in Seq(D)
  BY DefaultRoutesAre
<1>4. /\ DOMAIN own = 1 .. Len(entry.routes)
      /\ \A i \in 1 .. Len(entry.routes) : own[i] = ListedRoute(options, entry, entry.routes[i])
  BY <1>2 DEF Listed
<1>5. own \in Seq(O) /\ Len(own) = Len(entry.routes)
  <2>1. own = [i \in 1 .. Len(entry.routes) |-> own[i]]
    BY <1>2 DEF Listed
  <2> HIDE DEF own
  <2> QED  BY <1>2, <1>4, <2>1
<1>6. RoutesOf(a, entry) = routes
  BY DEF RoutesOf
<1>7. /\ own \in Seq(O \union D) /\ core \in Seq(O \union D)
  BY <1>3, <1>5, SeqMono
<1>8. /\ routes \in Seq(O \union D) /\ Len(routes) = Len(own) + Len(core)
      /\ DOMAIN routes = 1 .. Len(own) + Len(core) /\ Len(core) \in Nat
      /\ \A j \in 1 .. Len(own) + Len(core) :
            routes[j] = IF j <= Len(own) THEN own[j] ELSE core[j - Len(own)]
  <2> HIDE DEF own, core, O, D
  <2> QED  BY <1>7, ConcatProperties, LenProperties
<1>9. /\ DOMAIN configs = DOMAIN routes
      /\ configs = [j \in DOMAIN routes |-> configs[j]]
      /\ \A j \in DOMAIN routes :
            configs[j].route = routes[j] /\ configs[j].says = Says(a, entry, j)
  BY <1>6 DEF ContentTypeConfig
<1> HIDE DEF own, core, configs, routes, O
<1>10. ASSUME NEW j \in DOMAIN routes PROVE Chosen(configs[j])
  <2> SUFFICES ASSUME NEW caller, ~Truthy(routes[j].keys.useAuth),
                      caller \notin Bypassed(routes[j].hitpass)
               PROVE  caller \notin Bypassed(Says(a, entry, j))
    BY <1>9, <1>10 DEF Chosen
  <2>1. CASE j <= Len(own)
    <3> DEFINE r == entry.routes[j]
               keys == KeysConfig(Coalesce(r.keys, Coalesce(entry.keys, options.keys)))
    <3>1. j \in 1 .. Len(entry.routes) /\ routes[j] = ListedRoute(options, entry, r)
      BY <1>4, <1>5, <1>8, <1>10, <2>1
    <3>2. /\ routes[j].keys = keys
          /\ routes[j].hitpass
                 = Or(Or(r.hitpass, ListedHitpass(options.hitpass, entry.hitpass, keys)), Never)
      BY <3>1 DEF ListedRoute, RouteConfig
    <3>3. Says(a, entry, j) = Or(r.hitpass, options.hitpass)
      BY <1>2, <3>1 DEF Says
    <3> HIDE DEF r, keys
    <3>4. ~Truthy(keys.useAuth)
      BY <3>2
    <3>5. caller \notin Bypassed(Or(Or(r.hitpass,
                                       ListedHitpass(options.hitpass, entry.hitpass, keys)), Never))
      BY <3>2
    <3>6. caller \notin Bypassed(Or(r.hitpass, options.hitpass))
      BY <1>1, <3>4, <3>5, ListedSays
    <3> QED  BY <3>3, <3>6
  <2>2. CASE ~(j <= Len(own))
    <3>1. j - Len(own) \in 1 .. Len(core) /\ routes[j] = core[j - Len(own)]
          /\ j > Len(entry.routes)
      BY <1>2, <1>5, <1>8, <1>10, <2>2
    <3>2. routes[j] \in D
      <4> HIDE DEF D
      <4> QED  BY <1>3, <3>1, ElementOfSeq
    <3> DEFINE h == Or(entry.hitpass, options.hitpass)
    <3>3. routes[j].hitpass = Or(h, Never)
      <4>1. PICK i \in DOMAIN a.routes :
                routes[j] = RouteConfig(a.prefix \o a.routes[i].path, a.routes[i].method,
                                        KeysConfig(Coalesce(entry.keys, a.options.keys)),
                                        Or(entry.maxAge, a.options.maxAge), h)
        BY <3>2
      <4>2. \A p, m, k, age : RouteConfig(p, m, k, age, h).hitpass = Or(h, Never)
        BY DEF RouteConfig
      <4> HIDE DEF h
      <4> QED  BY <4>1, <4>2
    <3>4. h # Unset
      BY <1>1, OptionAssumption DEF Or
    <3>5. Says(a, entry, j) = h
      BY <1>2, <1>5, <1>8, <1>10, <3>1 DEF Says
    <3> HIDE DEF h
    <3>6. routes[j].hitpass = h
      BY <3>3, <3>4 DEF Or
    <3> QED  BY <3>5, <3>6
  <2> QED  BY <2>1, <2>2
<1>11. configs \in Seq({configs[j] : j \in DOMAIN configs})
  <2>1. DOMAIN configs = 1 .. Len(own) + Len(core) /\ Len(own) + Len(core) \in Nat
    BY <1>2, <1>5, <1>8, <1>9
  <2>2. configs = [j \in 1 .. Len(own) + Len(core) |-> configs[j]]
    BY <1>8, <1>9
  <2> QED  BY <2>1, <2>2
<1> QED  BY <1>9, <1>10, <1>11 DEF configs, entry

\* And so does each resolved route.
LEMMA ConfigsSay ==
    ASSUME NEW a, IsList(a.routes), IsList(a.options.contentTypes), OptionsOK(a.options)
    PROVE  /\ Len(Configs(a)) \in Nat /\ DOMAIN Configs(a) = 1 .. Len(Configs(a))
           /\ \A k \in DOMAIN Configs(a) : Chosen(Configs(a)[k])
<1> DEFINE types == a.options.contentTypes
           of(n) == ContentTypeConfig(a, types[n])
           C == UNION {{of(n)[j] : j \in DOMAIN of(n)} : n \in DOMAIN types}
           parts == [n \in DOMAIN types |-> of(n)]
<1>1. Len(types) \in Nat /\ DOMAIN types = 1 .. Len(types)
  BY ListIs
<1>2. \A n \in DOMAIN types : /\ \A j \in DOMAIN of(n) : Chosen(of(n)[j])
                              /\ of(n) \in Seq({of(n)[j] : j \in DOMAIN of(n)})
  BY RoutesSay
<1>3. Configs(a) = Ext!FlattenSeq(parts)
  BY DEF Configs
<1> HIDE DEF of, types
<1>4. \A n \in DOMAIN types : of(n) \in Seq(C)
  <2> SUFFICES ASSUME NEW n \in DOMAIN types PROVE of(n) \in Seq(C)
    OBVIOUS
  <2>1. {of(n)[j] : j \in DOMAIN of(n)} \subseteq C
    OBVIOUS
  <2> HIDE DEF C
  <2> QED  BY <1>2, <2>1, SeqMono
<1>5. \A c \in C : Chosen(c)
  BY <1>2
<1> HIDE DEF C
<1>6. parts \in Seq(Seq(C))
  BY <1>1, <1>4
<1> HIDE DEF parts
<1>7. Configs(a) \in Seq(C)
  BY <1>3, <1>6, FlattenType
<1> QED  BY <1>5, <1>7, LenProperties, ElementOfSeq

\* The config a middleware has been given is one of them.
LEMMA InjectedSays ==
    ASSUME NEW a, IsList(a.routes), IsList(a.options.contentTypes), OptionsOK(a.options),
           NEW i \in DOMAIN Injected(a), Injected(a)[i].config # Null
    PROVE  Chosen(Injected(a)[i].config)
<1> DEFINE routes == Flattened(a)
           configs == Configs(a)
           matching == {k \in DOMAIN configs :
                           /\ SameRoute(routes[i], configs[k].route)
                           /\ \A j \in 1 .. i - 1 : ~SameRoute(routes[j], configs[k].route)}
<1>1. /\ Len(configs) \in Nat /\ DOMAIN configs = 1 .. Len(configs)
      /\ \A k \in DOMAIN configs : Chosen(configs[k])
  BY ConfigsSay
<1>2. Injected(a)[i].config # Null
          => matching # {} /\ Injected(a)[i].config = configs[Ext!Max(matching)]
  BY DEF Injected
<1> HIDE DEF configs
<1>3. matching \subseteq DOMAIN configs
  OBVIOUS
<1> HIDE DEF matching
<1>4. Ext!Max(matching) \in matching
  BY <1>1, <1>2, <1>3, MaxIs
<1> QED  BY <1>1, <1>2, <1>3, <1>4

(* Callers share what one of them stored only where the options that govern *)
(* that route let both in: a content type's hitpass opens none of its       *)
(* listed routes; it adds to what the strategy's bypasses there, unless the *)
(* key holds the caller (resolveUserStrategy.ts).                           *)
THEOREM SharingChosen == Spec => []SharingIsChosen
<1>1. BootInv /\ AnswerInv /\ HitsAnswerTheRequest => SharingIsChosen
  <2> DEFINE q == last.request
             r == last.by
             config == ConfigOf(q)
  <2> SUFFICES ASSUME BootInv, AnswerInv, HitsAnswerTheRequest, Shared
               PROVE  {r.caller, q.caller} \intersect Bypassed(config.says) = {}
    BY DEF SharingIsChosen
  <2>1. /\ phase = "serving" /\ q \in app.requests /\ r \in app.requests /\ config # Null
        /\ LooksUp(r) /\ LooksUp(q) /\ r.auth # q.auth
    BY DEF AnswerInv, Shared, Hits
  <2>2. q.route = r.route /\ (Truthy(config.route.keys.useAuth) => q.auth = r.auth)
    BY DEF Shared, HitsAnswerTheRequest, SameQuestion
  <2> HIDE DEF q, r
  <2>3. /\ ~Truthy(config.route.keys.useAuth)
        /\ r.caller \notin Bypassed(config.route.hitpass)
        /\ q.caller \notin Bypassed(config.route.hitpass)
    BY <2>1, <2>2 DEF LooksUp, ConfigOf
  <2>4. PICK a \in Apps : app = Configured(a)
    BY DEF BootInv
  <2>5. /\ IsList(app.routes) /\ IsList(app.options.contentTypes) /\ OptionsOK(app.options)
    BY <2>4, OptionsAssumption DEF OptionsOK
  <2>6. /\ config = Injected(app)[q.route].config /\ q.route \in DOMAIN Injected(app)
    BY <2>1, <2>4, RequestsAssumption DEF BootInv, ConfigOf
  <2> HIDE DEF config
  <2>7. Chosen(config)
    BY <2>1, <2>5, <2>6, InjectedSays
  <2> QED  BY <2>3, <2>7 DEF Chosen
<1> QED  BY <1>1, AnswersInvariant, HitsAnswer, PTL

=============================================================================
