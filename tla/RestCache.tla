------------------------------ MODULE RestCache ------------------------------
(***************************************************************************)
(* The read path of middlewares/recv.ts, the operations of                 *)
(* services/cacheStore.ts it uses, the purges that race it, and the        *)
(* asynchronous provider between them.                                     *)
(*                                                                         *)
(* The process is single-threaded: an action is the code from one `await`  *)
(* to the next.  A request walks                                           *)
(*                                                                         *)
(*   idle -> etag -> entry -> looked -> waiting -> released -> done        *)
(*                               \-> origin -> read -> storing             *)
(*                                              -> cleaning -> done        *)
(*                                                                         *)
(* and a write walks  idle -> committed -> listing -> deleting -> idle,    *)
(* where a purge that is not caused by a write enters at `listing`.        *)
(*                                                                         *)
(* A response body is its content's version: the number of the last write  *)
(* that touched the key when the origin read it.  An ETag is a hash of the *)
(* body, so it is the version of the body it was computed from.            *)
(***************************************************************************)
EXTENDS PurgeLog, FiniteSets

CONSTANTS
    Requests,       \* slots for concurrent GET requests
    Writers,        \* slots for concurrent writes, manual purges and resets
    Outcomes,       \* what an origin call may end in
    EnableEtag,     \* strategy.enableEtag
    KeysPrefix,     \* whether strategy.keysPrefix is set
    MaxWrites,      \* bound: writes committed in a behaviour
    MaxFaults,      \* bound: deletes the provider loses in a behaviour
    None            \* "nothing": null, undefined, no entry

Parts == IF EnableEtag THEN {"body", "etag"} ELSE {"body"}
Entries == Keys \X Parts
Versions == 0 .. MaxWrites
\* A response body: its content's version, and whether isCacheable refused it.
Body == [version : Versions, private : BOOLEAN]
Response == [body : Body \union {None}, etag : Body \union {None},
             via : {"origin", "shared", "hit", "etag", "error"},
             cached : BOOLEAN]

ASSUME OutcomesAssumption == Outcomes \subseteq {"ok", "refused", "throws"}
ASSUME FlagsAssumption == EnableEtag \in BOOLEAN /\ KeysPrefix \in BOOLEAN
ASSUME BoundsAssumption == MaxWrites \in Nat /\ MaxFaults \in Nat
ASSUME NoneAssumption == None \notin Body \union Response \union Requests \union Keys

VARIABLES
    \* the content, the provider, the in-flight reads
    clock,          \* number of committed writes
    db,             \* per key: the last write that touched its content
    acked,          \* per key: the last such write that has returned
    store,          \* the provider: per entry its value, or None
    inFlight,       \* per key: the request registered as reading it, or None
    faults,         \* deletes lost so far
    \* the requests
    pc, key,
    lookup,         \* the verdict of shouldLookup
    ifNoneMatch,    \* the version named by the request's If-None-Match
    floor,          \* acked, for its key, when the request arrived
    etagCached, got,        \* what the provider answered
    waitOn, shared,         \* the read it waits for; what that promise gave
    gen,            \* `generation` sampled before calling the origin
    body,           \* what the origin returned
    unstored,       \* entries whose store.set has not settled
    uncleaned,      \* entries its own delMany has not deleted yet
    response,
    \* the writes and purges
    wpc, scope,
    wrote,          \* its commit's number; 0 for a purge without a write
    todo            \* entries its delMany has not deleted yet

contentVars == <<clock, db, acked>>
lookupVars == <<key, lookup, ifNoneMatch, floor, etagCached, got>>
readVars == <<waitOn, shared, gen, body, unstored, uncleaned>>
requestVars == <<pc, lookupVars, readVars, response>>
writerVars == <<wpc, scope, wrote, todo>>
vars == <<logVars, contentVars, store, inFlight, faults, requestVars, writerVars>>

-----------------------------------------------------------------------------

Init ==
    /\ LogInit
    /\ clock = 0
    /\ db = [k \in Keys |-> 0]
    /\ acked = [k \in Keys |-> 0]
    /\ store = [e \in Entries |-> None]
    /\ inFlight = [k \in Keys |-> None]
    /\ faults = 0
    /\ pc = [r \in Requests |-> "idle"]
    /\ key = [r \in Requests |-> None]
    /\ lookup = [r \in Requests |-> FALSE]
    /\ ifNoneMatch = [r \in Requests |-> None]
    /\ floor = [r \in Requests |-> 0]
    /\ etagCached = [r \in Requests |-> None]
    /\ got = [r \in Requests |-> None]
    /\ waitOn = [r \in Requests |-> None]
    /\ shared = [r \in Requests |-> None]
    /\ gen = [r \in Requests |-> 0]
    /\ body = [r \in Requests |-> None]
    /\ unstored = [r \in Requests |-> {}]
    /\ uncleaned = [r \in Requests |-> {}]
    /\ response = [r \in Requests |-> None]
    /\ wpc = [w \in Writers |-> "idle"]
    /\ scope = [w \in Writers |-> {}]
    /\ wrote = [w \in Writers |-> 0]
    /\ todo = [w \in Writers |-> {}]

-----------------------------------------------------------------------------
\* Helpers of the actions.

EntriesOf(k) == {k} \X Parts
Stored == {e \in Entries : store[e] # None}

Respond(r, resp) ==
    /\ pc' = [pc EXCEPT ![r] = "done"]
    /\ response' = [response EXCEPT ![r] = resp]

\* The code from the miss to the call of `next()`: sample the generation,
\* register the read (over whatever is registered) when it may be shared.
StartRead(r, k, shareable) ==
    /\ pc' = [pc EXCEPT ![r] = "origin"]
    /\ gen' = [gen EXCEPT ![r] = generation]
    /\ inFlight' = IF shareable THEN [inFlight EXCEPT ![k] = r] ELSE inFlight

\* May r take over the result of the read registered for its key?
JoinsPurgedRead(r) == inFlight[key[r]] # None
Joins(r) ==
    /\ inFlight[key[r]] # None
    /\ ~purgedSince(gen[inFlight[key[r]]], key[r])

\* The `finally` after `next()`: unregister, if the registered read is ours.
UnregisterAny(r) == [inFlight EXCEPT ![key[r]] = None]
Unregister(r) ==
    IF inFlight[key[r]] = r THEN [inFlight EXCEPT ![key[r]] = None] ELSE inFlight

\* Settle r's shared promise: everyone awaiting it is scheduled to resume
\* with `value` (None when it was abandoned) and r itself moves to `next`.
KeepWaiting(r, next, value) ==
    /\ pc' = [pc EXCEPT ![r] = next]
    /\ UNCHANGED <<shared, waitOn>>
Settle(r, next, value) ==
    LET resumed == {x \in Requests : pc[x] = "waiting" /\ waitOn[x] = r}
    IN  /\ pc' = [x \in Requests |-> IF x = r THEN next
                                     ELSE IF x \in resumed THEN "released"
                                     ELSE pc[x]]
        /\ shared' = [x \in Requests |-> IF x \in resumed THEN value ELSE shared[x]]
        /\ waitOn' = [x \in Requests |-> IF x \in resumed THEN None ELSE waitOn[x]]

\* What the requests waiting on r receive: a response that may be stored.
PublishedBeforeVerdict(r, verdict) == body'[r]
Published(r, verdict) == IF verdict = "ok" THEN body'[r] ELSE None

\* The two questions recv asks of the purge log about its own read, and what
\* it deletes when the answer to the second is yes.
NotRaced(r) == FALSE
RacedBefore(r) == purgedSince(gen[r], key[r])
RacedWhileStoring(r) == purgedSince(gen[r], key[r])
BodyOnly(r) == {<<key[r], "body">>}
Unstorable(r) == EntriesOf(key[r])

-----------------------------------------------------------------------------
\* Requests: recv.

\* A GET arrives and shouldLookup lets it use the cache.
Arrive(r, k, tag) ==
    /\ pc[r] = "idle"
    /\ pc' = [pc EXCEPT ![r] = IF EnableEtag THEN "etag" ELSE "entry"]
    /\ key' = [key EXCEPT ![r] = k]
    /\ lookup' = [lookup EXCEPT ![r] = TRUE]
    /\ ifNoneMatch' = [ifNoneMatch EXCEPT ![r] = tag]
    /\ floor' = [floor EXCEPT ![r] = acked[k]]
    /\ UNCHANGED <<logVars, contentVars, store, inFlight, faults, etagCached, got,
                   readVars, response, writerVars>>

\* A GET arrives and shouldLookup says hitpass: straight to the origin.
Hitpass(r, k) ==
    /\ pc[r] = "idle"
    /\ StartRead(r, k, FALSE)
    /\ key' = [key EXCEPT ![r] = k]
    /\ floor' = [floor EXCEPT ![r] = acked[k]]
    /\ UNCHANGED <<logVars, contentVars, store, faults, lookup, ifNoneMatch,
                   etagCached, got, waitOn, shared, body, unstored, uncleaned,
                   response, writerVars>>

\* etagLookup answers, with what is stored or (timeout, error) with null.
\* A match is answered 304 at once.
ReadEtag(r, answered) ==
    /\ pc[r] = "etag"
    /\ LET tag == IF answered THEN store[<<key[r], "etag">>] ELSE None IN
       IF tag # None /\ tag = ifNoneMatch[r]
       THEN /\ Respond(r, [body |-> tag, etag |-> None, via |-> "etag", cached |-> TRUE])
            /\ UNCHANGED etagCached
       ELSE /\ pc' = [pc EXCEPT ![r] = "entry"]
            /\ etagCached' = [etagCached EXCEPT ![r] = tag]
            /\ UNCHANGED response
    /\ UNCHANGED <<logVars, contentVars, store, inFlight, faults, key, lookup,
                   ifNoneMatch, floor, got, readVars, writerVars>>

\* The provider answers getEntry, with what is stored or (timeout, error,
\* not ready) with null; the request resumes later.
ReadEntry(r, answered) ==
    /\ pc[r] = "entry"
    /\ pc' = [pc EXCEPT ![r] = "looked"]
    /\ got' = [got EXCEPT ![r] = IF answered THEN store[<<key[r], "body">>] ELSE None]
    /\ UNCHANGED <<logVars, contentVars, store, inFlight, faults, key, lookup,
                   ifNoneMatch, floor, etagCached, readVars, response, writerVars>>

Hit(r) ==
    /\ pc[r] = "looked" /\ got[r] # None
    /\ Respond(r, [body |-> got[r], etag |-> etagCached[r], via |-> "hit", cached |-> TRUE])
    /\ UNCHANGED <<logVars, contentVars, store, inFlight, faults, lookupVars,
                   readVars, writerVars>>

\* A miss that waits for the read in flight.
Join(r) ==
    /\ pc[r] = "looked" /\ got[r] = None
    /\ Joins(r)
    /\ pc' = [pc EXCEPT ![r] = "waiting"]
    /\ waitOn' = [waitOn EXCEPT ![r] = inFlight[key[r]]]
    /\ UNCHANGED <<logVars, contentVars, store, inFlight, faults, lookupVars,
                   shared, gen, body, unstored, uncleaned, response, writerVars>>

\* A miss with nothing to join, or a waiter whose leader gave up: the
\* request calls the origin itself.  The waiter does not look again.
Lead(r) ==
    /\ \/ pc[r] = "looked" /\ got[r] = None /\ ~Joins(r)
       \/ pc[r] = "released" /\ shared[r] = None
    /\ StartRead(r, key[r], TRUE)
    /\ UNCHANGED <<logVars, contentVars, store, faults, lookupVars, waitOn, shared,
                   body, unstored, uncleaned, response, writerVars>>

ServeShared(r) ==
    /\ pc[r] = "released" /\ shared[r] # None
    /\ Respond(r, [body |-> shared[r], etag |-> None, via |-> "shared", cached |-> FALSE])
    /\ UNCHANGED <<logVars, contentVars, store, inFlight, faults, lookupVars,
                   readVars, writerVars>>

\* The origin reads the content; the response travels back later.
OriginRead(r) ==
    /\ pc[r] = "origin"
    /\ pc' = [pc EXCEPT ![r] = "read"]
    /\ body' = [body EXCEPT ![r] = [version |-> db[key[r]], private |-> FALSE]]
    /\ UNCHANGED <<logVars, contentVars, store, inFlight, faults, lookupVars, waitOn,
                   shared, gen, unstored, uncleaned, response, writerVars>>

Answer(r, cached) ==
    [body |-> body'[r], via |-> "origin", cached |-> cached,
     etag |-> IF cached /\ EnableEtag THEN body'[r] ELSE None]

HitpassReturn(r) ==
    /\ pc[r] = "read" /\ ~lookup[r]
    /\ UNCHANGED body
    /\ Respond(r, Answer(r, FALSE))
    /\ UNCHANGED <<logVars, contentVars, store, inFlight, faults, lookupVars, waitOn,
                   shared, gen, unstored, uncleaned, writerVars>>

\* `next()` or isCacheable throws: abandon, unregister, rethrow.
Throws(r) ==
    /\ pc[r] = "read" /\ lookup[r] /\ "throws" \in Outcomes
    /\ Settle(r, "done", None)
    /\ inFlight' = Unregister(r)
    /\ response' = [response EXCEPT ![r] =
           [body |-> None, etag |-> None, via |-> "error", cached |-> FALSE]]
    /\ UNCHANGED <<logVars, contentVars, store, faults, lookupVars, gen, body,
                   unstored, uncleaned, writerVars>>

\* isCacheable refuses the response (private, no-store, Set-Cookie, a stream,
\* not a 200): it is the caller's alone, and the waiters are sent away.
Refused(r) ==
    /\ pc[r] = "read" /\ lookup[r] /\ "refused" \in Outcomes
    /\ body' = [body EXCEPT ![r].private = TRUE]
    /\ Settle(r, "done", Published(r, "refused"))
    /\ inFlight' = Unregister(r)
    /\ response' = [response EXCEPT ![r] = Answer(r, FALSE)]
    /\ UNCHANGED <<logVars, contentVars, store, faults, lookupVars, gen,
                   unstored, uncleaned, writerVars>>

\* A shareable response whose key was purged while it was read: shared with
\* the requests that joined it, not stored, not advertised.
ReturnRaced(r) ==
    /\ pc[r] = "read" /\ lookup[r] /\ "ok" \in Outcomes
    /\ RacedBefore(r)
    /\ UNCHANGED body
    /\ Settle(r, "done", Published(r, "ok"))
    /\ inFlight' = Unregister(r)
    /\ response' = [response EXCEPT ![r] = Answer(r, FALSE)]
    /\ UNCHANGED <<logVars, contentVars, store, faults, lookupVars, gen,
                   unstored, uncleaned, writerVars>>

\* A shareable response: shared, advertised, and its store.set calls issued.
ReturnStoring(r) ==
    /\ pc[r] = "read" /\ lookup[r] /\ "ok" \in Outcomes
    /\ ~RacedBefore(r)
    /\ UNCHANGED body
    /\ Settle(r, "storing", Published(r, "ok"))
    /\ inFlight' = Unregister(r)
    /\ response' = [response EXCEPT ![r] = Answer(r, TRUE)]
    /\ unstored' = [unstored EXCEPT ![r] = EntriesOf(key[r])]
    /\ UNCHANGED <<logVars, contentVars, store, faults, lookupVars, gen,
                   uncleaned, writerVars>>

\* One store.set settles, its value stored or (`stored` false) refused by the
\* provider; recv swallows the failure.  The two of a response are independent.
Land(r, e, stored) ==
    /\ pc[r] = "storing" /\ e \in unstored[r]
    /\ store' = IF stored THEN [store EXCEPT ![e] = body[r]] ELSE store
    /\ unstored' = [unstored EXCEPT ![r] = @ \ {e}]
    /\ UNCHANGED <<logVars, contentVars, inFlight, faults, pc, lookupVars, waitOn,
                   shared, gen, body, uncleaned, response, writerVars>>

\* Both sets settled: recv asks the purge log again, and answers or deletes.
Recheck(r) ==
    /\ pc[r] = "storing" /\ unstored[r] = {}
    /\ IF RacedWhileStoring(r)
       THEN /\ pc' = [pc EXCEPT ![r] = "cleaning"]
            /\ uncleaned' = [uncleaned EXCEPT ![r] = Unstorable(r)]
       ELSE /\ pc' = [pc EXCEPT ![r] = "done"]
            /\ UNCHANGED uncleaned
    /\ UNCHANGED <<logVars, contentVars, store, inFlight, faults, lookupVars, waitOn,
                   shared, gen, body, unstored, response, writerVars>>

\* delMany deletes one of the entries; recv answers after the last.
Clean(r, e) ==
    /\ pc[r] = "cleaning" /\ e \in uncleaned[r]
    /\ store' = [store EXCEPT ![e] = None]
    /\ uncleaned' = [uncleaned EXCEPT ![r] = @ \ {e}]
    /\ pc' = [pc EXCEPT ![r] = IF uncleaned'[r] = {} THEN "done" ELSE @]
    /\ UNCHANGED <<logVars, contentVars, inFlight, faults, lookupVars, waitOn, shared,
                   gen, body, unstored, response, writerVars>>

\* delMany fails or the provider is not ready: logged, and recv answers.
CleanLost(r) ==
    /\ pc[r] = "cleaning" /\ faults < MaxFaults
    /\ faults' = faults + 1
    /\ uncleaned' = [uncleaned EXCEPT ![r] = {}]
    /\ pc' = [pc EXCEPT ![r] = "done"]
    /\ UNCHANGED <<logVars, contentVars, store, inFlight, lookupVars, waitOn, shared,
                   gen, body, unstored, response, writerVars>>

\* The response is sent and the slot is free for another request.
Depart(r) ==
    /\ pc[r] = "done"
    /\ pc' = [pc EXCEPT ![r] = "idle"]
    /\ key' = [key EXCEPT ![r] = None]
    /\ lookup' = [lookup EXCEPT ![r] = FALSE]
    /\ ifNoneMatch' = [ifNoneMatch EXCEPT ![r] = None]
    /\ floor' = [floor EXCEPT ![r] = 0]
    /\ etagCached' = [etagCached EXCEPT ![r] = None]
    /\ got' = [got EXCEPT ![r] = None]
    /\ shared' = [shared EXCEPT ![r] = None]
    /\ gen' = [gen EXCEPT ![r] = 0]
    /\ body' = [body EXCEPT ![r] = None]
    /\ response' = [response EXCEPT ![r] = None]
    /\ UNCHANGED <<logVars, contentVars, store, inFlight, faults, waitOn, unstored,
                   uncleaned, writerVars>>

Step(r) ==
    \/ \E answered \in BOOLEAN : ReadEtag(r, answered) \/ ReadEntry(r, answered)
    \/ Hit(r) \/ Join(r) \/ Lead(r) \/ ServeShared(r)
    \/ OriginRead(r) \/ HitpassReturn(r) \/ Throws(r) \/ Refused(r)
    \/ ReturnRaced(r) \/ ReturnStoring(r)
    \/ \E e \in Entries, stored \in BOOLEAN : Land(r, e, stored)
    \/ Recheck(r)
    \/ \E e \in Entries : Clean(r, e)
    \/ CleanLost(r)

\* The tags a client can hold: of content that has existed.
Tags == IF EnableEtag
        THEN {None} \union [version : 0 .. clock, private : {FALSE}]
        ELSE {None}

Request(r) ==
    \/ \E k \in Keys, tag \in Tags : Arrive(r, k, tag)
    \/ \E k \in Keys : Hitpass(r, k)
    \/ Step(r)
    \/ Depart(r)

-----------------------------------------------------------------------------
\* Writes, manual purges and resets.

\* A purge may still start: those that committed writes owe are reserved.
Budget == generation + Cardinality({w \in Writers : wpc[w] = "committed"}) < MaxPurges

\* The write's own `next()`: the content behind the keys of `keys` changes.
Commit(w, keys) ==
    /\ wpc[w] = "idle" /\ clock < MaxWrites /\ Budget
    /\ wpc' = [wpc EXCEPT ![w] = "committed"]
    /\ clock' = clock + 1
    /\ db' = [k \in Keys |-> IF k \in keys THEN clock + 1 ELSE db[k]]
    /\ scope' = [scope EXCEPT ![w] = keys]
    /\ wrote' = [wrote EXCEPT ![w] = clock + 1]
    /\ UNCHANGED <<logVars, acked, store, inFlight, faults, requestVars, todo>>

\* clearByRegexp: record the purge, then ask the provider for its keys.
PurgeUnrecorded(w, keys) == UNCHANGED logVars
StartPurge(w, keys) == RecordPurge(keys)

PurgeAfterWrite(w) ==
    /\ wpc[w] = "committed"
    /\ StartPurge(w, scope[w])
    /\ wpc' = [wpc EXCEPT ![w] = "listing"]
    /\ UNCHANGED <<contentVars, store, inFlight, faults, requestVars, scope, wrote, todo>>

\* A purge asked for by an administrator, the content API or the MCP tool.
ManualPurge(w, keys) ==
    /\ wpc[w] = "idle" /\ Budget
    /\ StartPurge(w, keys)
    /\ wpc' = [wpc EXCEPT ![w] = "listing"]
    /\ scope' = [scope EXCEPT ![w] = keys]
    /\ UNCHANGED <<contentVars, store, inFlight, faults, requestVars, wrote, todo>>

\* reset: a prefixed store lists and deletes its own keys, another is cleared.
Reset(w) ==
    /\ wpc[w] = "idle" /\ Budget
    /\ StartPurge(w, Keys)
    /\ wpc' = [wpc EXCEPT ![w] = IF KeysPrefix THEN "listing" ELSE "clearing"]
    /\ scope' = [scope EXCEPT ![w] = Keys]
    /\ UNCHANGED <<contentVars, store, inFlight, faults, requestVars, wrote, todo>>

\* The provider answers keys(); delMany is called with the matching ones.
ListKeys(w) ==
    /\ wpc[w] = "listing"
    /\ wpc' = [wpc EXCEPT ![w] = "deleting"]
    /\ todo' = [todo EXCEPT ![w] = {e \in Stored : e[1] \in scope[w]}]
    /\ UNCHANGED <<logVars, contentVars, store, inFlight, faults, requestVars, scope, wrote>>

\* The provider deletes one of them.
Delete(w, e) ==
    /\ wpc[w] = "deleting" /\ e \in todo[w]
    /\ store' = [store EXCEPT ![e] = None]
    /\ todo' = [todo EXCEPT ![w] = @ \ {e}]
    /\ UNCHANGED <<logVars, contentVars, inFlight, faults, requestVars, wpc, scope, wrote>>

\* The provider's own clear().
Clear(w) ==
    /\ wpc[w] = "clearing"
    /\ wpc' = [wpc EXCEPT ![w] = "deleting"]
    /\ store' = [e \in Entries |-> None]
    /\ UNCHANGED <<logVars, contentVars, inFlight, faults, requestVars, scope, wrote, todo>>

\* keys(), delMany or clear fails: caught, and what is left stays stored.
PurgeLost(w) ==
    /\ wpc[w] \in {"listing", "deleting", "clearing"} /\ faults < MaxFaults
    /\ faults' = faults + 1
    /\ wpc' = [wpc EXCEPT ![w] = "deleting"]
    /\ todo' = [todo EXCEPT ![w] = {}]
    /\ UNCHANGED <<logVars, contentVars, store, inFlight, requestVars, scope, wrote>>

\* The purge is over, so the write returns to its caller.
Return(w) ==
    /\ wpc[w] = "deleting" /\ todo[w] = {}
    /\ wpc' = [wpc EXCEPT ![w] = "idle"]
    /\ acked' = [k \in Keys |-> IF k \in scope[w] /\ wrote[w] > acked[k]
                                THEN wrote[w] ELSE acked[k]]
    /\ scope' = [scope EXCEPT ![w] = {}]
    /\ wrote' = [wrote EXCEPT ![w] = 0]
    /\ UNCHANGED <<logVars, clock, db, store, inFlight, faults, requestVars, todo>>

PurgeStep(w) ==
    \/ PurgeAfterWrite(w) \/ ListKeys(w) \/ Clear(w) \/ PurgeLost(w) \/ Return(w)
    \/ \E e \in Entries : Delete(w, e)

Writer(w) ==
    \/ \E keys \in Scopes : Commit(w, keys) \/ ManualPurge(w, keys)
    \/ Reset(w)
    \/ PurgeStep(w)

\* An entry reaches its maxAge, or the memory provider evicts it.
Expire(e) ==
    /\ store[e] # None
    /\ store' = [store EXCEPT ![e] = None]
    /\ UNCHANGED <<logVars, contentVars, inFlight, faults, requestVars, writerVars>>

Next ==
    \/ \E r \in Requests : Request(r)
    \/ \E w \in Writers : Writer(w)
    \/ \E e \in Entries : Expire(e)

Spec == Init /\ [][Next]_vars

(* The event loop and the provider keep going: a request that can take a    *)
(* step, and a purge that can take one, eventually does.  This includes the *)
(* origin: a handler that never settles is outside what recv can do         *)
(* anything about.                                                          *)
FairSpec ==
    /\ Spec
    /\ \A r \in Requests : WF_vars(Step(r))
    /\ \A w \in Writers : WF_vars(PurgeStep(w))

-----------------------------------------------------------------------------

TypeOK ==
    /\ LogTypeOK
    /\ clock \in Versions
    /\ db \in [Keys -> Versions]
    /\ acked \in [Keys -> Versions]
    /\ store \in [Entries -> Body \union {None}]
    /\ inFlight \in [Keys -> Requests \union {None}]
    /\ faults \in 0 .. MaxFaults
    /\ pc \in [Requests -> {"idle", "etag", "entry", "looked", "waiting", "released",
                            "origin", "read", "storing", "cleaning", "done"}]
    /\ key \in [Requests -> Keys \union {None}]
    /\ lookup \in [Requests -> BOOLEAN]
    /\ ifNoneMatch \in [Requests -> Body \union {None}]
    /\ floor \in [Requests -> Versions]
    /\ etagCached \in [Requests -> Body \union {None}]
    /\ got \in [Requests -> Body \union {None}]
    /\ waitOn \in [Requests -> Requests \union {None}]
    /\ shared \in [Requests -> Body \union {None}]
    /\ gen \in [Requests -> Nat]
    /\ body \in [Requests -> Body \union {None}]
    /\ unstored \in [Requests -> SUBSET Entries]
    /\ uncleaned \in [Requests -> SUBSET Entries]
    /\ response \in [Requests -> Response \union {None}]
    /\ wpc \in [Writers -> {"idle", "committed", "listing", "deleting", "clearing"}]
    /\ scope \in [Writers -> SUBSET Keys]
    /\ wrote \in [Writers -> Versions]
    /\ todo \in [Writers -> SUBSET Entries]

\* The entry holds content older than what the database now holds.
Stale(e) == store[e] # None /\ store[e].version < db[e[1]]

\* A write whose commit outdated key k has yet to list the provider's keys.
PurgePending(k) ==
    \E w \in Writers : /\ wpc[w] \in {"committed", "listing", "clearing"}
                       /\ k \in scope[w]

\* Somebody is bound to delete e: a purge that has listed it, a purge that
\* has yet to list, or a read that stored it and will find it was purged.
Owned(e) ==
    \/ PurgePending(e[1])
    \/ \E w \in Writers : wpc[w] = "deleting" /\ e \in todo[w]
    \/ \E r \in Requests : /\ pc[r] = "storing" /\ key[r] = e[1]
                           /\ purgedSince(gen[r], e[1])
    \/ \E r \in Requests : pc[r] = "cleaning" /\ e \in uncleaned[r]

(* A stale entry never stays behind: as long as the provider loses no       *)
(* delete, an entry older than the database is always about to be deleted   *)
(* by somebody still running.  It is what the purge log, the check before   *)
(* storing, the awaited sets and the check after them achieve together      *)
(* (recv.ts, the comments at 390, 432 and 444; cacheStore.ts, recordPurge). *)
StaleIsOwned == faults = 0 => \A e \in Entries : Stale(e) => Owned(e)

(* Coalescing never hands out pre-write content: a response that came from  *)
(* the origin, the request's own call or the one it joined, contains every  *)
(* write that had returned when the request arrived, even when deletes are  *)
(* lost (recv.ts, the purgedSince check before joining).                    *)
OriginResponsesAreFresh ==
    \A r \in Requests :
        (response[r] # None /\ response[r].via \in {"origin", "shared"})
            => response[r].body.version >= floor[r]

(* Concurrent misses cost one origin call: two requests call the origin for *)
(* one key at the same time only if a purge of the key separates them (or   *)
(* more purges than the log remembers), when no origin call fails or is     *)
(* refused (recv.ts, inFlight; "exactly one calls the origin").             *)
SingleFlight ==
    \A r, s \in Requests :
        (/\ r # s /\ key[r] = key[s] /\ lookup[r] /\ lookup[s]
         /\ {pc[r], pc[s]} \subseteq {"origin", "read"}
         /\ gen[r] <= gen[s])
        => \/ \E g \in gen[r] + 1 .. gen[s] : key[r] \in history[g]
           \/ gen[s] - gen[r] > PurgeLogSize

(* A response isCacheable refused reaches nobody but the request that asked *)
(* for it: it is never stored and never shared with a request that waited   *)
(* (recv.ts, the verdict decided before publish).                           *)
RefusedStaysPrivate ==
    /\ \A e \in Stored : ~store[e].private
    /\ \A r \in Requests :
          (response[r] # None /\ response[r].via \in {"shared", "hit", "etag"})
              => ~response[r].body.private

(* What is stored and advertised was current: recv starts storing only a    *)
(* response that contains every write that has returned by then, also the   *)
(* writes that returned while the origin was being read.                    *)
OnlyCurrentReadsStored ==
    [][\A r \in Requests :
            (pc[r] = "read" /\ pc'[r] = "storing")
                => body[r].version >= acked[key[r]]]_vars

(* Every request is answered: a waiter in particular is released whatever   *)
(* becomes of the read it joined.                                           *)
EveryRequestAnswered ==
    \A r \in Requests : pc[r] # "idle" ~> pc[r] = "done"

(* When writes cease, the cache and the database come to agree and stay so: *)
(* no read that was under way leaves an older entry behind.                 *)
ConvergesAfterWrites == <>[](\A e \in Entries : ~Stale(e))

(* What the documentation promises of a write ("a client that writes and    *)
(* immediately reads sees fresh content"): a hit contains every write that  *)
(* had returned when the request arrived.                                   *)
HitsAreFresh ==
    \A r \in Requests :
        (response[r] # None /\ response[r].via = "hit")
            => response[r].body.version >= floor[r]

=============================================================================
