------------------------------- MODULE Plugin -------------------------------
(***************************************************************************)
(* The plugin in a Strapi application, from one start of a process to the  *)
(* next: register resolves the strategy and injects the middlewares,       *)
(* bootstrap creates the provider, and the server answers requests from    *)
(* the cache and purges it.  An application is a schema, the registered    *)
(* routes and a configuration; the module composes the traversal of the    *)
(* schema with the functions of the configuration, of keys, of patterns    *)
(* and of responses.                                                       *)
(*                                                                         *)
(* A request, a write or a purge is one step here: RestCache is about how  *)
(* they interleave.  An entry is kept with the request that stored it      *)
(* (`by`) and the process that did (`run`), which no code reads.           *)
(***************************************************************************)
EXTENDS RelatedTypes, CacheKeys, Responses

CONSTANTS
    Apps,           \* the applications
    MaxRuns,        \* bound: how many processes are started, one at a time
    MaxEntries      \* bound: entries stored at once; one more displaces one

ASSUME BoundsAssumption == MaxRuns \in Nat /\ MaxEntries \in Nat \ {0}

VARIABLES
    app,            \* the application
    phase,          \* where the process is
    run,            \* its number
    listens,        \* whether it serves, or is a command that only loads
    injected,       \* per registered route: the config of its middleware
    link,           \* client.status of the redis connection
    wrapped,        \* strapi.listen is the wrapper that resets first
    resetRefused,   \* that reset found the provider not ready
    store,          \* the provider's entries
    last            \* the step just taken, if it answered or purged

bootVars == <<phase, run, listens, injected, wrapped, resetRefused>>
vars == <<relatedVars, app, bootVars, link, store, last>>

Nothing == [kind |-> "nothing"]
Redis == app.provider.name = "redis"
ready == Redis => link = "ready"
Options == app.options
ConfiguredUids == {Options.contentTypes[i].uid : i \in DOMAIN Options.contentTypes}

\* The application as register reads it: under its options, the shipped ones.
Configured(a) == [a EXCEPT !.options = PluginStrategy(@)]

ASSUME SchemasAssumption == \A a \in Apps : Configured(a).schema \in [Models -> SUBSET Attribute]
\* An application's registered routes, and its options, are lists.
IsList(s) == s \in Seq({s[i] : i \in DOMAIN s})
ASSUME OptionsAssumption ==
    \A a \in Apps :
        LET options == Configured(a).options IN
        /\ options.resetOnStartup \in BOOLEAN /\ options.hitpass \in {Null} \union Hitpass
        /\ IsList(Configured(a).routes) /\ IsList(options.contentTypes)
        /\ \A i \in DOMAIN options.contentTypes :
              LET entry == options.contentTypes[i] IN
              IsList(entry.routes) /\ entry.hitpass \in {Unset, Null} \union Hitpass
ASSUME RequestsAssumption ==
    \A a \in Apps :
        LET routes == Injected(Configured(a)) IN
        \A q \in Configured(a).requests :
            /\ {"route", "path", "query", "headers", "auth"} \subseteq DOMAIN q
            /\ IsRequest(q)
            /\ q.response.body \in Bodies /\ q.response.type # Null
            /\ Resolvable(Configured(a)) =>
                  /\ q.route \in DOMAIN routes
                  /\ routes[q.route].config # Null =>
                        routes[q.route].config.route.maxAge \in Nat

ASSUME CallersAssumption ==
    \A a \in Apps : \E api, admin \in {"api-token", "content-api-token", "admin", "admin-token"} :
        AuthNames(api, admin) /\ \A q \in Configured(a).requests : q.auth \in Auths(api, admin)

\* Values that differ in the case of an ASCII letter are one value: the
\* path of a key is folded.
Folded(value) ==
    [i \in DOMAIN value |->
        [j \in DOMAIN value[i] |-> IF value[i][j] = "A" THEN "a" ELSE value[i][j]]]
FoldedParams(q) == [n \in DOMAIN q.params |-> Folded(q.params[n])]

\* The router takes paths that are one when normalised to one route, with
\* parameters that are one when folded.
ASSUME RoutingAssumption ==
    \A a \in Apps : \A q, r \in Configured(a).requests :
        NormalizedPath(q.path) = NormalizedPath(r.path)
            => q.route = r.route /\ FoldedParams(q) = FoldedParams(r)

Init ==
    /\ app \in {Configured(a) : a \in Apps}
    /\ schema = app.schema /\ WellFormed(schema)
    /\ RelatedInit
    /\ phase = "down" /\ run = 0 /\ listens = FALSE
    /\ injected = <<>> /\ wrapped = FALSE /\ resetRefused = FALSE
    /\ link = "connecting"
    /\ store = {}
    /\ last = Nothing

-----------------------------------------------------------------------------
\* Register.

\* strapi.load(): of `strapi start`, or of a command such as an export.
Load(l) ==
    /\ phase = "down" /\ run < MaxRuns
    /\ phase' = "resolving" /\ run' = run + 1 /\ listens' = l
    /\ related' = [t \in Types |-> {}]
    /\ last' = Nothing
    /\ UNCHANGED <<schema, callVars, app, injected, wrapped, resetRefused, link, store>>

\* The traversal for each configured content type, in resolveUserStrategy.
Traversing ==
    /\ Traverse
    /\ UNCHANGED <<app, bootVars, link, store, last>>

ResolveType(t) ==
    /\ phase = "resolving" /\ Resolvable(app)
    /\ t \in ConfiguredUids /\ related[t] = {}
    /\ Call(t, FALSE)
    /\ UNCHANGED <<app, bootVars, link, store, last>>

Fail ==
    /\ phase' = "failed"
    /\ UNCHANGED <<relatedVars, app, run, listens, injected, wrapped, resetRefused,
                   link, store, last>>

ResolveFails == phase = "resolving" /\ ~Resolvable(app) /\ Fail

Register ==
    /\ phase = "resolving" /\ Resolvable(app)
    /\ uid = NoUid /\ \A t \in ConfiguredUids : related[t] # {}
    /\ injected' = Injected(app)
    /\ phase' = "registered"
    /\ UNCHANGED <<relatedVars, app, run, listens, wrapped, resetRefused, link, store, last>>

-----------------------------------------------------------------------------
\* Bootstrap.

\* createProvider: the package is resolved from the application, then from
\* the plugin, then by its bare name; what it makes must be a CacheProvider.
ProviderLoads == app.provider.package \in {"application", "plugin", "bare"}
CreateFails ==
    /\ phase = "registered"
    /\ \/ ~ProviderLoads
       \/ Redis /\ ~app.provider.connected     \* no redis plugin, no such connection
    /\ Fail

\* waitForRedis resolves at once for a client that is ready already.
NeverReadyYet == FALSE
ReadyAlready == link = "ready"

\* cacheStore.init and the rest of bootstrap: the reset waits for listen().
ResetInBootstrap == IF Options.resetOnStartup THEN {} ELSE store
AfterBootstrap == store
Initialize ==
    /\ phase' = "loaded"
    /\ wrapped' = Options.resetOnStartup
    /\ store' = AfterBootstrap
    /\ UNCHANGED <<relatedVars, app, run, listens, injected, resetRefused, last>>

CreateProvider ==
    /\ phase = "registered" /\ ProviderLoads
    /\ \/ /\ ~Redis \/ ReadyAlready
          /\ Initialize
       \/ /\ Redis /\ app.provider.connected /\ ~ReadyAlready
          /\ phase' = "waiting"
          /\ UNCHANGED <<relatedVars, app, run, listens, injected, wrapped,
                         resetRefused, store, last>>
    /\ UNCHANGED link

\* The redis client's events.  It reconnects by itself.
ClientReady ==
    /\ Redis /\ link = "connecting"
    /\ link' = "ready"
    /\ IF phase = "waiting" THEN Initialize
       ELSE last' = Nothing /\ UNCHANGED <<relatedVars, app, bootVars, store>>
ClientError ==
    /\ Redis /\ phase = "waiting" /\ link = "connecting"
    /\ Fail
Disconnect ==
    /\ Redis /\ link = "ready" /\ phase \in {"loaded", "serving"}
    /\ link' = "connecting"
    /\ last' = Nothing
    /\ UNCHANGED <<relatedVars, app, bootVars, store>>

-----------------------------------------------------------------------------
\* Listening, and the end of the process.

\* strapi.listen(), wrapped or not.
WithoutReset == store
AfterListen == IF wrapped /\ ready THEN {} ELSE store
Listen ==
    /\ phase = "loaded" /\ listens
    /\ phase' = "serving"
    /\ store' = AfterListen
    /\ wrapped' = FALSE
    /\ resetRefused' = (wrapped /\ ~ready)
    /\ UNCHANGED <<relatedVars, app, run, listens, injected, link, last>>

\* The process ends, or dies: what is in redis stays.
Stop ==
    /\ phase \in {"loaded", "serving", "failed"} /\ uid = NoUid
    /\ phase' = "down"
    /\ store' = IF Redis THEN store ELSE {}
    /\ link' = "connecting"
    /\ wrapped' = FALSE /\ resetRefused' = FALSE /\ listens' = FALSE
    /\ injected' = <<>>
    /\ last' = Nothing
    /\ UNCHANGED <<relatedVars, app, run>>

-----------------------------------------------------------------------------
\* A GET request, through recv where it is injected.

Answered(request, via, by, entry, cacheControl) ==
    [kind |-> "answer", via |-> via, request |-> request, by |-> by,
     body |-> entry.body, type |-> entry.type, cacheControl |-> cacheControl]

\* A handler's own Cache-Control outranks the plugin's.
Advertised(response, route) ==
    IF response.cacheControl # {} THEN Null ELSE CacheControl(Options.cacheControl, route)

Sent(response) ==
    [body |-> IF response.body = "array" THEN "json" ELSE response.body,
     type |-> SentType(response)]

Origin(request, cacheControl) ==
    last' = Answered(request, "origin", request, Sent(request.response), cacheControl)

\* The provider makes room for what it stores (lru-cache `max`, redis maxmemory).
StoreMore(entry) == store' = store \union {entry}
StoreEntry(entry) ==
    LET others == {e \in store : e.key # entry.key} IN
    IF Cardinality(others) < MaxEntries THEN store' = others \union {entry}
    ELSE \E displaced \in others : store' = (others \ {displaced}) \union {entry}

\* The middleware's config for a request, and its key there.
ConfigOf(request) == injected[request.route].config
KeyOf(request) == generateCacheKey(request, ConfigOf(request).route.keys)
LooksUp(request) == request.caller \notin Bypassed(ConfigOf(request).route.hitpass)
Found(request) == {e \in store : ready /\ e.key = KeyOf(request)}

Serving == phase = "serving" /\ uid = NoUid

Bypass(request) ==
    /\ Serving
    /\ ConfigOf(request) = Null \/ ~LooksUp(request)
    /\ Origin(request, Null)
    /\ UNCHANGED <<relatedVars, app, bootVars, link, store>>

Hit(request) ==
    /\ Serving /\ ConfigOf(request) # Null /\ LooksUp(request)
    /\ \E e \in Found(request) :
          last' = Answered(request, "hit", e.by, [body |-> e.data.body, type |-> replay(e.data)],
                          CacheControl(Options.cacheControl, ConfigOf(request).route))
    /\ UNCHANGED <<relatedVars, app, bootVars, link, store>>

Miss(request) ==
    /\ Serving /\ ConfigOf(request) # Null /\ LooksUp(request) /\ Found(request) = {}
    /\ IF isCacheable(request.response)
       THEN /\ Origin(request, Advertised(request.response, ConfigOf(request).route))
            /\ IF ready
               THEN StoreEntry([key |-> KeyOf(request), by |-> request, run |-> run,
                                data |-> Stored(request.response)])
               ELSE UNCHANGED store
       ELSE Origin(request, Null) /\ UNCHANGED store
    /\ UNCHANGED <<relatedVars, app, bootVars, link>>

Expire(e) ==
    /\ Serving
    /\ store' = store \ {e}
    /\ last' = Nothing
    /\ UNCHANGED <<relatedVars, app, bootVars, link>>

-----------------------------------------------------------------------------
\* Purges.

isCached(t) == t \in ConfiguredUids

\* getCacheKeysRegexp: the keys of the content type's GET routes.
Matched(t, params, wildcard) ==
    LET configs == Configs(app)
        paths == {configs[i].route.path :
                    i \in {j \in DOMAIN configs : configs[j].uid = t
                                                  /\ configs[j].route.method = "GET"}}
    IN  {e \in store : \E p \in paths :
            getRouteRegExp(p, params, wildcard, NormalizedPath(e.by.path))}

EveryKey(types) == UNION {Matched(t, <<>>, TRUE) : t \in types}

clearByUid(t, params, wildcard) ==
    Matched(t, params, wildcard)
    \union (IF Options.clearRelatedCache THEN EveryKey(related[t] \intersect ConfiguredUids) ELSE {})

\* The purge a step has made, and by whom.
Purge(gone, t, params, wildcard, private) ==
    /\ store' = IF ready THEN store \ gone ELSE store
    /\ last' = [kind |-> "purge", uid |-> t, params |-> params, wildcard |-> wildcard,
                private |-> private]
    /\ UNCHANGED <<relatedVars, app, bootVars, link>>

\* The admin's or the content API's purge.
ManualPurge(p) ==
    /\ Serving
    /\ p.contentApi => Options.enableContentApiPurge
    /\ isCached(p.uid)
    /\ Purge(clearByUid(p.uid, p.params, p.wildcard), p.uid, p.params, p.wildcard, FALSE)

\* A write reaches the document service, whatever it came by.
ServiceWrite(w) ==
    /\ Serving /\ PurgesViaDocumentService(app)
    /\ isCached(w.uid)
    /\ LET wildcard == w.params = <<>> IN
       Purge(clearByUid(w.uid, w.params, wildcard), w.uid, w.params, wildcard, FALSE)

\* cachedTypesEmbedding, for a type that is not cached: traversed once.
EmbeddingMemo(t) ==
    /\ Serving /\ PurgesViaDocumentService(app) /\ Options.clearRelatedCache
    /\ ~isCached(t) /\ related[t] = {} /\ \E w \in app.writes : w.uid = t
    /\ Call(t, TRUE)
    /\ last' = Nothing
    /\ UNCHANGED <<app, bootVars, link, store>>
UncachedWrite(w) ==
    /\ Serving /\ PurgesViaDocumentService(app) /\ Options.clearRelatedCache
    /\ ~isCached(w.uid) /\ related[w.uid] # {}
    /\ Purge(EveryKey(related[w.uid] \intersect ConfiguredUids), w.uid, <<>>, FALSE, TRUE)

\* The purge middleware of a content API route, and purgeAdmin.
RoutedWrite(w) ==
    /\ Serving /\ ~PurgesViaDocumentService(app)
    /\ w.via = "route" /\ ConfigOf(w) # Null
    /\ Purge(clearByUid(ConfigOf(w).uid, w.params, FALSE), w.uid, w.params, FALSE, FALSE)
AdminWrite(w) ==
    /\ Serving /\ w.via \in AdminPurged(app) /\ isCached(w.uid)
    /\ Purge(clearByUid(w.uid, w.params, FALSE), w.uid, w.params, FALSE, FALSE)

\* The role's beforeDelete: reset, refused when the provider is not ready.
DeleteRole ==
    /\ Serving /\ app.usersPermissions
    /\ store' = IF ready THEN {} ELSE store
    /\ last' = Nothing
    /\ UNCHANGED <<relatedVars, app, bootVars, link>>

-----------------------------------------------------------------------------

LoadStep ==
    \/ Traversing \/ ResolveFails \/ Register
    \/ \E t \in Types : ResolveType(t) \/ EmbeddingMemo(t)
    \/ CreateFails \/ CreateProvider \/ Listen

Serve ==
    \/ \E request \in app.requests : Bypass(request) \/ Hit(request) \/ Miss(request)
    \/ \E p \in app.purges : ManualPurge(p)
    \/ \E w \in app.writes :
          ServiceWrite(w) \/ UncachedWrite(w) \/ RoutedWrite(w) \/ AdminWrite(w)
    \/ \E e \in store : Expire(e)
    \/ DeleteRole

Next ==
    \/ \E l \in BOOLEAN : Load(l)
    \/ LoadStep
    \/ ClientReady \/ ClientError \/ Disconnect
    \/ Stop
    \/ Serve

(* The process goes on loading, and the redis client goes on connecting:    *)
(* it reports that it is ready or that it failed.                           *)
Spec ==
    /\ Init /\ [][Next]_vars
    /\ WF_vars(LoadStep)
    /\ WF_vars(ClientReady \/ ClientError)

-----------------------------------------------------------------------------

PluginTypeOK ==
    /\ RelatedTypeOK
    /\ app \in {Configured(a) : a \in Apps}
    /\ phase \in {"down", "resolving", "registered", "waiting", "loaded", "serving", "failed"}
    /\ run \in 0 .. MaxRuns
    /\ {listens, wrapped, resetRefused} \subseteq BOOLEAN
    /\ link \in {"connecting", "ready"}
    /\ Cardinality(store) <= MaxEntries /\ Cardinality({e.key : e \in store}) = Cardinality(store)
    /\ \A e \in store : e.by \in app.requests /\ e.run \in 1 .. run

Answers == last.kind = "answer"
Hits == Answers /\ last.via = "hit"

\* Two requests ask for the same thing, by what the route's keys tell apart.
SameQuestion(r, s, keys) ==
    LET query(q) == [n \in Selected(q.query, keys.useQueryParams) |-> q.query[n]]
        headers(q) == [n \in SentHeaders(q.headers, keys.useHeaders) |-> q.headers[n]]
    IN  /\ r.route = s.route /\ FoldedParams(r) = FoldedParams(s)
        /\ query(r) = query(s) /\ headers(r) = headers(s)
        /\ Truthy(keys.useAuth) => r.auth = s.auth

(* A hit answers the question the request asked: the entry was stored by a  *)
(* request for the same route, parameters, selected query and headers and,  *)
(* where the key holds the caller, by the same caller; no value can pose as *)
(* another parameter, header or caller (escapeKeyPart.ts, invariants 1-4).  *)
HitsAnswerTheRequest ==
    Hits => SameQuestion(last.request, last.by, ConfigOf(last.request).route.keys)

\* What one authenticated caller stored was served to another.
Shared == Hits /\ last.by.caller # Anonymous /\ last.by.auth # last.request.auth

(* Callers share what one of them stored only where the options that govern *)
(* that route let both in, as `hitpass: false` does: a content type's       *)
(* opens none of its listed routes (resolveUserStrategy.ts, #230).          *)
SharingIsChosen ==
    Shared => {last.by.caller, last.request.caller}
                  \intersect Bypassed(ConfigOf(last.request).says) = {}

(* Such a route is one the operator was warned about at boot, and one the   *)
(* dashboard's badge names ("The server logs a warning at boot when a       *)
(* content type sets `hitpass: false` without `keys.useAuth`").             *)
SharingIsAnnounced == Shared => ConfigOf(last.request).warned

(* The Cache-Control the plugin adds is true of the response: it is in the  *)
(* cache, `public` means that every caller the cache would answer gets this *)
(* same entry, and the advertised age is the entry's own, in seconds        *)
(* rounded down (buildCacheControl.ts, #175).                               *)
AdvertisedTruly ==
    (Answers /\ last.cacheControl # Null) =>
        LET request == last.request
            route == ConfigOf(request).route
        IN  /\ ready => Found(request) # {}
            /\ last.cacheControl.scope = "public" =>
                  \A other \in app.requests :
                      (other.route = request.route /\ LooksUp(other)) =>
                          KeyOf([request EXCEPT !.auth = other.auth]) = KeyOf(request)
            /\ Options.cacheControl.maxAge = Unset =>
                  /\ last.cacheControl.maxAge * 1000 <= route.maxAge
                  /\ route.maxAge < (last.cacheControl.maxAge + 1) * 1000

\* How much a browser may be made to run: text, markup, active markup.
Activity(type) ==
    IF type.charset \notin {UTF8, Null} THEN 2
    ELSE CASE type.mime \in {"text/plain", "text/csv", "text/tab-separated-values",
                              "application/json"} -> 0
           [] type.mime \in {"text/html", "application/xml"} -> 1
           [] OTHER -> 2

(* A hit replays the body that was sent, with a type no more active than    *)
(* the one koa would infer from it, so that no caller chooses the type for  *)
(* another; and with the type that was sent whenever that one is no more    *)
(* active (recv.ts, isReplayable; isCacheable.ts, #133).                    *)
ReplayedAsSent ==
    Hits => LET sent == Sent(last.by.response)
                bound == Activity(Inferred(last.body))
            IN  /\ last.body = sent.body
                /\ Activity(last.type) <= bound
                /\ Activity(sent.type) <= bound => last.type.mime = sent.type.mime

\* A purge is about a request: one of its content type, for the parameters
\* given, or one of a type that shows it.
Due(request, purge) ==
    \/ /\ request.uid = purge.uid
       /\ \/ purge.wildcard
          \/ \A n \in DOMAIN request.params :
                 /\ n \in DOMAIN purge.params
                 /\ Folded(purge.params[n]) = Folded(request.params[n])
    \/ Options.clearRelatedCache /\ request.uid \in Showing(purge.uid, purge.private)

(* A purge leaves no entry it is about: neither of the document, however    *)
(* its parameters were written in the request's path and in the purge, nor  *)
(* of a content type that shows it (getRouteRegExp.ts, clearByUid).         *)
PurgeReaches ==
    [][(last' # last /\ last'.kind = "purge" /\ ready)
            => \A e \in store' : ~Due(e.by, last')]_vars

(* A purge removes nothing else: no other document's entry and no entry of  *)
(* an unrelated content type ("`n.ws` also purged the entry for `news`").   *)
PurgeSpares ==
    [][(last' # last /\ last'.kind = "purge")
            => \A e \in store \ store' : Due(e.by, last')]_vars

(* With resetOnStartup, a server serves no entry of an earlier run, unless  *)
(* the provider was not ready for the reset (bootstrap.ts,                  *)
(* resetCacheOnListen).                                                     *)
ResetBeforeServing ==
    (phase = "serving" /\ Options.resetOnStartup /\ ~resetRefused)
        => \A e \in store : e.run = run

(* A command that only loads the application empties nothing: the cache it  *)
(* shares with a server stays as it is (bootstrap.ts, "each of those would  *)
(* empty the production cache").                                            *)
LoadKeepsEntries ==
    [][(~listens /\ phase # "down" /\ Redis) => store' = store]_vars

(* Every load ends: serving, ready for its command, or refused; the         *)
(* traversal ends, and a redis client that was ready before is not awaited. *)
LoadEnds ==
    (phase \in {"resolving", "registered", "waiting"})
        ~> (phase \in {"loaded", "serving", "failed"})

=============================================================================
