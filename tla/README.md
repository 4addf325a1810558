# A verification project for plugin-rest-cache

TLA+ models of the Strapi REST cache plugin and of its redis provider, TLC
configurations that check them, and TLAPS proofs about them. Paths below are
relative to `src/packages/`; `server/` abbreviates `plugin-rest-cache/server/src/`.

To repeat a check: `tlc -workers 2 -config <X>.cfg <M>.tla`. To repeat a proof:
`tlapm <M>_proofs.tla`. `PROJECT.json` lists the components, the runs, the source
lines behind every definition, the hazards the properties are for, and, for every
checked property, a plausible bug that breaks it (a *mutant*).

## 1. The system

The plugin caches the GET responses of a Strapi server. A *provider* (memory or
redis) holds the entries; a write to a content type *purges* the entries that may
show it. The server is one Node process, so JavaScript runs one callback at a time
and everything hard happens between two `await`s; several processes may share one
redis.

| component | source | state | operations | interacts with |
|---|---|---|---|---|
| purge log | `server/services/cacheStore.ts` 135-173, 263-286 | `generation`, `purgeLog` (at most 1000 purges) | `recordPurge`, `purgedSince` | written by every purge, read by every miss |
| cache store | `server/services/cacheStore.ts` | the provider, `initialized` | `getEntry`, `set`, `delMany`, `keys`, `reset`, `clearByRegexp`, `clearByUid` | the provider; swallows its errors |
| read path | `server/middlewares/recv.ts` | `inFlight`: per key, the read under way | one request: ETag lookup, entry lookup, coalescing, origin, store, re-check, clean-up | store, purge log, origin handler |
| invalidation by write | `server/utils/middlewares/registerDocumentServiceMiddleware.ts`, `server/middlewares/purge*.ts` | AsyncLocalStorage scope, memo of embedding types | commit, then awaited purge | `clearByUid` |
| invalidation by database event | `server/utils/middlewares/registerDatabaseLifecyclePurge.ts` | none | `after*` events of plugin types | `clearByUid`; reads the scope |
| manual purge | `server/controllers/purge.ts` | none | purge of content types, of documents, of everything | `clearByUid` |
| boot | `server/register.ts`, `server/bootstrap.ts` | resolved strategy | register, create provider, reset before `listen()`, reset before a role is deleted | store |
| configuration | `server/utils/config/*`, `server/services/cacheConfig.ts` | frozen strategy | related types, route patterns | read by all |
| cache keys | `server/utils/keys/*` | none | request to key | read path, patterns |
| memory provider | `provider-rest-cache-memory/src/MemoryCacheProvider.ts` | an LRU map | get, set, delMany, keys, clear | store |
| redis provider | `provider-rest-cache-redis/src/RedisCacheProvider.ts` | entries and a *tracking set* of their names in the server; prune state | set, keys, delMany, clear, prune | store; other processes |
| admin data layer | `plugin-rest-cache/admin/src/services/restCache.ts` | one entry per endpoint: data, error, promise, version, listeners; per component what its last render saw | render, effects, fetch, invalidate, notify | React components; the plugin's endpoints |

What makes them hard, and what must hold:

- **A read races a purge.** A response is read from the origin, then stored. A write
  in between must not be undone by that store. *A stale entry never stays; nothing
  outdated starts being stored; when writes cease, the cache agrees with the
  database.*
- **Requests share an origin call.** *A request never gets content older than a write
  that had returned when it arrived; a response refused by `isCacheable` reaches only
  its own request; every waiter is released; concurrent misses make one call.*
- **The log is bounded.** *Forgetting may cost a store, never hide a purge; the answer
  never goes from yes to no.*
- **Entries and tracking set change by separate commands**, of writes, deletes and a
  background prune, from several processes. *No live entry is left where no purge can
  find it.*
- **Failures**: a provider that times out, rejects or is not ready; commands that fail
  half way; a re-add that is retried.
- **Three hooks purge the same write.** The document service middleware, the database
  lifecycles and the route middlewares must between them purge every write before it
  returns, and not twice, however writes nest. *What a write outdated is matched by a
  purge its own call chain still owes; a failed purge is nobody's failure.*
- **The configuration decides who shares what.** A `hitpass` and a `useAuth` are
  inherited over three levels. *One caller's response is served to another only where the
  configuration says so; a key tells apart what the route's options say it tells apart;
  a purge pattern matches the entries of its document and no other; the related content
  types are all those, and only those, that can show the type.*
- **A hit replays another caller's response.** *With the body that was sent and a type a
  browser does no more with; what is advertised to other caches is true.*
- **Start and restart.** Redis survives the process, may not be ready, and may have been
  ready long before. *A reset on startup precedes the first request and is not run by
  commands; loading ends.*
- **The admin panel is a cache of its own**, with late answers, components that go, an
  invalidation, and a gap between a render and the effects that subscribe it. *Requests are
  shared, nothing keeps loading, no spinner stays, a control appears for whoever may use it,
  and it purges what it shows.*

`PROJECT.json` lists these hazards one by one with their lines.

## 2. The models

All models keep the control flow: an action is the code from one `await` to the next
(or one command as the redis server executes it), with its guards, early returns and
error paths. Data is reduced to what the properties tell apart.

### PurgeLog

`generation` and `purgeLog` are the variables of `cacheStore.ts`; `recordPurge` and
`purgedSince` are translated line by line. The patterns of a purge become the set of
keys they match, `null` (a reset) the set of all keys. `history`, which no code reads,
is what the log forgets: the properties compare the code's answer, computed from the
bounded log, with the truth.

### RestCache (extends PurgeLog)

Composes the read path, the store, the purges and the asynchronous provider.

- *Content.* `clock` numbers the committed writes; `db[k]` is the last one that
  changed what is behind key `k`; a response body is the version the origin read; an
  ETag, a hash of the body, is that same version. `acked[k]` is the last write of `k`
  that has returned to its caller, and `floor[r]` is `acked` when `r` arrived: what the
  client of `r` may expect to see.
- *Provider.* `store` maps an entry (the body or the ETag of a key) to its value. Every
  set and delete takes effect at a moment of its own (`Land`, `Clean`, `Delete`, and
  `Clear` for `clear()`); an entry may vanish at any time (`Expire`: maxAge, LRU
  eviction); a lookup answers what is stored or null (timeout, error, not ready); a set
  may be refused; a delete may be lost (`CleanLost`, `PurgeLost`, bounded by
  `MaxFaults`).
- *Requests.* `pc` is where a request stands between two awaits:

  | `pc` | waits for |
  |---|---|
  | `etag`, `entry` | the provider's answer to `etagLookup`, to `getEntry` |
  | `looked` | its turn, with the answer in `got` |
  | `waiting`, `released` | the shared promise; its turn, with that promise's value in `shared` |
  | `origin`, `read` | the origin: before and after it reads the content |
  | `storing` | its `store.set` calls (`unstored`) |
  | `cleaning` | its `delMany` (`uncleaned`) |

  `Throws`, `Refused`, `ReturnRaced` and `ReturnStoring` are the ways out of `next()`;
  each includes the `finally` that unregisters the read and the settling of the shared
  promise, as the code runs them without an await in between.
- *Writes.* `committed -> listing -> deleting -> idle` (or `clearing`); a manual purge
  and a reset enter where the purge is recorded. `PurgeAfterWrite` records the purge and
  calls `keys()`; `ListKeys` is its answer and computes the matching names; `Return` is
  the return of the write, when its caller may expect to read it.
- *Slots.* `Requests` and `Writers` are concurrency, not totals: a request departs and
  its slot is free for another, so behaviours are unbounded in requests.

Only the configuration flags that change control are kept: `EnableEtag`, and
`KeysPrefix`, which decides whether a reset lists or clears.

### LeaseCache and RestCacheRefinement

`LeaseCache` says what the read path and the purge log promise together, in the terms of
a cache filled under leases: a client that is about to ask the origin takes a lease on
the key, a purge revokes the leases on the keys it matches (and may revoke others), a
revoked lease stays revoked, filling begins only under a lease nobody revoked, and a
client whose lease is revoked during the fill retracts what it put. It has no counter, no
log, no flights and no states of a purge: those are how RestCache does it.

`RestCacheRefinement` is the refinement mapping. Nothing in the code stores the state of
a lease; `Lease(r)` computes it from where `r` stands and from what `purgedSince` answers
about the generation it sampled. A purge that overflows the log revokes leases on keys it
does not match, which is what `others` in `LeaseCache!Purge` allows. `ImplementsLeases`
is `LeaseCache!Spec` under the mapping.

### TrackingSet

The redis provider: entries (`live`) and the set of their names (`tracked`), changed
command by command. A write or delete is one MULTI on a standalone server (`SetMulti`,
`DelMulti`) and two commands on a cluster, in the orders `WriteOrder` and
`DeleteOrder`; `isCluster` is chosen once, so both servers are checked and proved
together. A pruner is `untrackDead` on one batch: `Check` (EXISTS), `Untrack` (SREM,
possibly failing and possibly applied all the same), `Recheck` (EXISTS again), then
`Retrack`, `RetrackAgain` or `RetrackFails` (SADD, tried twice). Setters, purgers and
pruners may be in different processes. A batch is any subset of the members, which is
what SSCAN can answer.

### DocumentPurge

Which purge follows which write, on one call chain: the asynchronous calls that descend
from a request, a timer or a job. `stack` holds the chain's writes under way (calls of
the document service, or of one route with a purge middleware), the innermost last;
`event` the database event whose purge is being awaited. `mode` is
`enableDocumentServiceMiddleware` and decides, as `injectMiddlewares.ts`,
`register.ts` and `bootstrap.ts` do, between the two hooks of the service and the route middlewares.

- A frame's `scope` is what `documentServiceWrites.run` stored; `Scope(c)` is
  `getStore()`, `InProgress` is `isDocumentServiceWriteInProgress`. Code started inside a
  write and not awaited keeps the storage, so `Arrive` begins a chain with any scope.
- `Write` is the entry of the middleware, `Row` one row of the write and its database
  event, `RawWrite` a `strapi.db.query` of a plugin's type, `Resolve` the end of
  `next()`, `Purged` and `PurgeFails` the end of the awaited purge, `Fail` a write that
  fails and is not purged. `EventPurged` and `EventPurgeFails` end the lifecycle's.
- A purge is the set of entries it matches (`Matches`, `EventMatches`, `ClearByUid`):
  a wildcard of the type, or the routes that the document's id fills in, and with
  `clearRelatedCache` the wildcards of the related cached types. An entry is a type's
  collection route or the route of one document. A plugin's routes are keyed by a
  numeric id that no documentId matches.
- `pending` holds what the chain has outdated and nothing purged since.

The purge of this module is one step: how it races the reads is RestCache's subject,
which in turn takes the matched set as given. Assumed of the application: a document
service write runs in a transaction, which undoes the writes nested in it when it
fails. Left out, as the documentation excludes them: raw writes to application
(`api::`) types, and the transaction around a bulk operation.

### Plugin, with RelatedTypes, Strategy, RoutePatterns, CacheKeys and Responses

The plugin in one application, through the starts and ends of its processes. An
application is a schema, the routes that are registered, a configuration, a provider and
the requests, writes and purges that come; the initial states enumerate a set of them.

- `RelatedTypes` is `getRelatedModelsUid` as the passes it makes: an action is one model
  visited (`Visit`) or the decision at the end of a pass (`NextPass`, `Answer`). The
  result is compared with `Showing`, the least closed set.
- `Strategy` is the configuration: `PluginStrategy` puts the user's options over the
  shipped ones, `ListedRoute`, `DefaultRoutes` and `RouteConfig` resolve every option of
  every route (absent, undefined and null are told apart, because the code uses
  destructuring, spreading and `??` in different places), `Flattened` gives each
  registered route its global path, `Injected` decides which config each gets,
  `CacheControl` is the header.
- `RoutePatterns!getRouteRegExp` is the set of key paths a purge pattern matches, over
  segments of tokens: a token is a character, a word, or a percent-encoded character, and
  the alphabet has one character of each class the code treats differently.
  `CacheKeys!generateCacheKey` is the key as a sequence of such tokens, escaping included.
- `Responses` is `isCacheable`, and the type a stored body is replayed with.
- `Plugin` composes them. `phase` goes `down -> resolving -> registered -> (waiting ->)
  loaded -> serving`, or to `failed`; `listens` tells a server from a command that only
  loads the application. `Load`, `ResolveType`, `Register` are `register.ts` (the
  traversal runs inside, interleaved with nothing, but it runs again during service for
  the first write to a type that is not cached: `EmbeddingMemo`); `CreateProvider`,
  `ClientReady`, `ClientError`, `Initialize` are `bootstrap.ts` and the redis `init`;
  `Listen` is the wrapped `strapi.listen`. `Bypass`, `Hit`, `Miss` answer one request,
  `ManualPurge`, `ServiceWrite`, `UncachedWrite`, `RoutedWrite`, `AdminWrite`,
  `DeleteRole` purge. `Stop` ends the process: what is in redis stays.

A request or a purge is one step here. How they interleave is RestCache's subject, which
takes keys and the keys a purge matches as given; Plugin says which those are.

### AdminQuery

One browser tab. `entry` is `restCache.ts`'s cache of endpoints. Each component that uses
one is a member of `Components`, and shows what its last render saw, `view`: `Render` takes
that snapshot of the entries, and `isLoading`, `Enabled`, `PurgeableContentTypes` and the
controls are computed from it. `Effects` come in a task of their own after the render. They
register the component's listeners (`ran` is what they last ran for, and holds an endpoint
exactly when its listener is there) and ask for what is missing: for the version and the
`enabled` of the render, but with the entry as it is by then. `Answer` fills the entry and
notifies the listeners there are, which makes their components `due` for a render; so does
an invalidation (`Settled`). `requests` and `purges` are what is on its way, `button` and
`table` the state of the two components that hold any. `Navigate` unmounts and mounts; a
component that is gone keeps nothing, but its requests and purges go on.

The server's half of a purge is `Serve`: the controller's checks, then `clearByUid`, whose
patterns are those of the routes the parameters fill (`Matched`, a route without
parameters always) and, with `clearRelatedCache`, every route of the cached types related
to it. Its answer arrives by `Resolve`, or `Reject` when the client gives up on it, applied
or not.

## 3. What is checked

| run | module, cfg | shows | distinct states |
|---|---|---|---|
| `core` | MCRestCache | two requests, two keys, a write and a manual purge, a prefixed store, a log of one purge | 0.9 M |
| `coalescing` | MCCoalescing.cfg | three requests for one key and one lost delete: who shares whose call | 2.4 M |
| `purges` | MCPurges.cfg | one request, two overlapping writes, purges or `clear()`s, with ETags and one lost delete | 2.3 M |
| `liveness` | MCLiveness.cfg | every request is answered; the cache converges | 0.3 M |
| `tracking` | MCTrackingSet | a write, a purge and two prunes over two names, both server kinds, one failed command | 1.3 M |
| `document_purge` | MCDocumentPurge | nested writes, raw writes and detached code over three types, both modes, both values of `clearRelatedCache`, one failed purge | 0.3 M |
| `plugin` | MCPlugin | 122 applications, two processes one after the other | 29 k |
| `admin` | MCAdminQuery | six pages, two purges, one failing request, every combination of permissions, both values of `clearRelatedCache` | 0.8 M |
| `read_your_writes` | MCReadYourWrites.cfg | *violated*: a hit older than a returned write | |
| `failed_purge` | MCFailedPurge.cfg | *violated*: a failed purge fails the request whose write succeeded | |
| `prune_hides_entry` | MCPruneHidesEntry.cfg | *violated*: a purge misses an entry a prune has untracked | |
| `unannounced_sharing` | MCSharing.cfg | *violated*: a route shares authenticated responses and no warning names it | |

### Properties

PurgeLog, checked on the log as RestCache uses it: `LogIsSuffix` (the log is the end of
the history, which bounds it); `NoMissedPurge` (a read that raced a purge of its key is told so,
however small the log); `UnrelatedPurgesIgnored` (until the log overflows, only those);
`PurgedIsSticky` (never from yes to no).

RestCache: `StaleIsOwned` (an entry older than the database is always about to be
deleted by somebody still running: the joint effect of the log, the check before
storing, the awaited sets and the check after them; conditional on no delete having
been lost, since a lost delete has nobody to repeat it); `OriginResponsesAreFresh`
(unconditional: coalescing never hands out pre-write content, even after lost deletes);
`RefusedStaysPrivate`; `OnlyCurrentReadsStored`; `SingleFlight`; `EveryRequestAnswered`;
`ConvergesAfterWrites`; `ImplementsLeases`, the refinement.

`SingleFlight` is checked with origins that succeed. When a shared read fails or is
refused, every request that waited on it calls the origin itself, at the same time:
recv means that (a refused response must not be shared), so the property is not claimed
there.

TrackingSet: `UntrackedIsAdopted` (a live entry outside the tracking set belongs to an
operation under way that will track or remove it) and `PurgeRemovesSettled` (a purge
that has returned removed what was complete when it began), the latter proved where
nobody prunes and refuted where somebody does.

DocumentPurge: `EachWriteIsPurged` (what a chain has outdated is matched by a purge that
one of its unfinished calls still owes, so nothing is left when the outermost returns)
and `PurgedOnce` (the events of a document service write's own rows do not purge again,
however deep the nesting). `EachWriteIsPurged` names its exceptions in `Excused`: with
`clearRelatedCache` off, entries whose route parameters the purge cannot fill in
(documented); and raw writes by code that was started inside a write to the same type
and not awaited, whose events are ignored although nothing will purge for them (neither
documented nor excluded; see the hazards).

Plugin: `RelatedExact` (a traversal answers the content types that can show the one it is
about: none left stale, none purged needlessly); `HitsAnswerTheRequest` (a hit was stored
by a request with the same route, parameters, selected query and headers and, where the
key holds the caller, the same caller); `SharingIsChosen`; `AdvertisedTruly`;
`ReplayedAsSent`; `PurgeReaches` and `PurgeSpares` (a purge leaves no entry it is about,
and removes nothing else; both follow the entry back to the request that stored it, so
the pattern and the key are checked against each other and against the parameters);
`ResetBeforeServing` (unless the provider was not ready for the reset); `LoadKeepsEntries`;
`LoadEnds`.

AdminQuery: `OneRequestPerVersion`; `SpinnersEnd`; `DocumentIsPurged` (the edit view's purge
removes every entry its document is in by its route; what it removes beyond those is of
related types, and only with `clearRelatedCache` on, where a type's own wildcards are among
them); `OnlyMountingMisses` (a component can fall behind the entries it shows, with nothing
due to render it again, only by its first effects after it was mounted; from then on it
misses no answer and no invalidation); `LoadingEnds` (who shows a loading state waits for a
render, effects or an answer) and `ControlsAppear` (with none of these on its way, a control
is there for whoever may use it). As React renders what is due and runs the effects of a
render, and a request is answered or rejected, no page keeps loading and every such control
does appear. The last two except `Overtaken`, a component that was left behind by its first
effects: there are some, see the differences below. What is *not* claimed: that what a page
shows was requested after the last invalidation. A late answer fills the entry the
invalidation emptied, with counts of before; nothing in the code promises otherwise.

### Bounds

- Applications (`MCApps`): seven families, each around one part: five schemas with
  chains of components, private relations and types that are not cached; every
  combination of `hitpass` and `useAuth` over the levels; queries, headers and callers
  whose values hold every character that is structure in a key; every modifier and
  constraint of a parameter and one character of every class; every kind of body and
  response type; every provider and reset on startup; both invalidation modes with
  routes of the api, of a plugin and of the content-manager. Each application has few
  routes and requests, so that all pairs of a stored and a new request are met.
  `MaxEntries` 2 is such a pair, and displaces. `MaxRuns` 2 is a restart; the runs of
  Plugin end when the last process has ended, and deadlock checking is off there and
  nowhere else.
- AdminQuery: two purges overlap, one request fails; the pages mount every component that
  reads or purges, on a cached type, a single type and an uncached type. The entries are of
  two documents, by documentId and by a field, of a collection route and of a route of the single
  type's; a type is related to itself, and the collection type to the single type.
- `Chains`: one. Chains share nothing but the count of failed purges, which is what the
  AsyncLocalStorage is for; the theorems are for any number. `MaxDepth` 2 nests one write
  in another, which is what tells a scope that is extended from one that is replaced.
  The schema has a cached type, a cached plugin type and an uncached type that both
  embed or are embedded in, in a cycle.

- `Requests`: two requests are a reader and a raced reader, or a leader and a waiter;
  three are a leader, a waiter and a request that arrives after a purge and displaces
  the leader's registration, which is what `Unregister` guards against.
- `Writers`: two make purges overlap (one lists while the other deletes).
- `Keys`: one key makes the races; a second one lets a purge be unrelated (`core`).
  Nothing in RestCache tells two keys, two requests or two writers apart, so the safety
  runs take each of these sets as symmetric; the liveness run takes none.
- `PurgeLogSize` 1 with `MaxPurges` 2 makes the log overflow during a read; 2 with
  `MaxPurges` 3 in `purges` lets it answer from two entries and overflow too.
- `MaxPurges`, `MaxWrites` end a behaviour's writes. `Budget` keeps a purge in reserve
  for every committed write, so the bound never stops a write half way.
- `MaxFaults` 1: one lost delete, one failed command. Properties that need "no fault"
  say so.

### Fairness

`FairSpec` asks weak fairness of every request's `Step` and every writer's `PurgeStep`,
not of arrivals, writes or expiry. That is the event loop running every callback whose
promise has settled, the provider answering (a lookup at the latest by `getTimeout`,
`withTimeout.ts`) and the origin's handler settling. The last is an assumption about
the application: recv has no timeout around `next()`.

Plugin asks it of `LoadStep` (a process that is loading goes on: synchronous code and
awaited promises) and of `ClientReady \/ ClientError` (the redis client, which reconnects
by itself, reports one or the other; `waitForRedis` waits for these two events). Nothing
asks that requests, purges or a `Stop` come. No property of AdminQuery asks any.

### What the refuted properties say

1. `HitsAreFresh`. The documentation promises that a client that writes and immediately
   reads sees fresh content. A read that began before the write can have its set land
   after the write's purge listed the keys; until that read makes its second check, a
   new request hits the old body. `StaleIsOwned` and `ConvergesAfterWrites` show that
   the window closes.
2. `FailedPurgeNeverFailsWrite`. `keys()` returns the provider's promise without awaiting
   it inside its `try`, so a rejection is not caught there. The document service and the
   lifecycle catch it; in the route-based mode nobody does, and the request fails after
   its write succeeded. The documentation says a failed purge never fails the write.
3. `PurgeRemovesSettled`. `untrackDead` documents that either way the entry stays
   tracked. Between its SREM and its re-add it does not, and a purge that reads the set
   there returns with the entry live, although no command failed.
4. `SharingIsAnnounced`. With `hitpass: false` on the strategy and on a content type, a
   route listed without options of its own gets the function that `listedRouteHitpass`
   composes of the two. It bypasses nothing, but `isUnkeyedAuthenticatedRoute` compares
   with the literal `false`, so neither the boot warning nor the badge names the route.

### Other differences between code and documentation

Read while modelling; the models follow the code, and no run refutes the text:

- `restCache.ts:116` says of `useEndpoint` "Re-render on any change to the entry - a fetch
  completing as well as an invalidation", and 49-50 that the version keeps a page from
  staying on its loading state. The listener is registered by a passive effect (122-129), in
  a task after the render (unless a click forced that render; pages and widgets load
  lazily), and nothing compares the entry with what was rendered once it is there. A request
  that an earlier page left on its way can be answered in between. Then the settings page
  keeps its loading state although the data is there; or the strategy's 403, or the list of
  purgeable types, is never seen, and the purge control does not appear until something else
  renders its component. That is `Overtaken` in AdminQuery; without that exception TLC
  refutes `LoadingEnds` by an admin who goes from the home page to the settings, and
  `ControlsAppear` by one without `cache.read-strategy` who goes from a list view to an edit
  view.
- `docs/guide/caching/index.md:159` says that a route that overrides an option wins.
  Where the overriding listed route *is* one of the injected core routes, both configs
  exist, the listed first (`resolveUserStrategy.ts:137-191`, `239-293`), and
  `injectMiddlewares.ts:83` lets the later one replace the earlier: the defaults win. The
  text on custom routes says that listing does not switch the injection off
  (`docs/guide/caching/custom-routes.md:80-82`), not what becomes of such a route.
- `docs/guide/reference/config.md:318` says that the reset completes before the first
  request is accepted. On a provider that is not ready at that moment the reset is
  refused and logged, and the server serves the earlier entries (`resetRefused` in
  Plugin).
- `recv.ts:219` answers a 304 from the ETag alone, which its comment (224-225) justifies
  by an ETag being "only stored alongside a body that was stored". The two are stored,
  expire and are evicted independently; RestCache has both entries and the 304.
- A caller of an authentication strategy the plugin does not know is `strategy:<name>` in
  the key (`generateAuthKey.ts:80-82`), whoever it is; no request of the models uses one.
- `SettingsPage` recognises a 403 by `error.response.status` only (`pages/SettingsPage`
  17-18), the data layer by `error.status` as well (`restCache.ts:181-188`).
- A path that is requested with an encoded `:` is stored under another key than the one
  a pattern matches, as for every character `getRouteRegExp` leaves literal.
- A `keysPrefix` that is the beginning of another cache's prefix makes a reset remove the
  other's entries too.

## 4. What is proved

| theorem | statement | argument |
|---|---|---|
| `RestCache_proofs!LogSuffixCorrect` | `LogSpec => []LogIsSuffix` | inductive: a push keeps the log a suffix of the history, a shift drops its oldest |
| `NoPurgeIsMissed`, `UnrelatedPurgesDoNotCount` | `[]NoMissedPurge`, `[]UnrelatedPurgesIgnored` | consequences of `LogIsSuffix`: either the log reaches back to `since`, and the loop sees what the history holds, or it does not and the answer is yes |
| `PurgedNeverTakenBack` | `[][PurgedIsSticky]` | from the same invariant, by cases on whether the new purge pushes one out |
| `RestCache_proofs!TypeCorrect` | `Spec => []TypeOK` | `TypeInv`, which adds what each `pc` implies about a request's variables |
| `StaleNeverStays` | `Spec => []StaleIsOwned` | `StaleInv`, below |
| `RestCacheRefinement_proofs!ReadPathImplementsLeases` | `Spec /\ [](faults = 0) => ImplementsLeases` | step simulation, below |
| `RestCacheResponses_proofs!RefusedNeverShared` | `Spec => []RefusedStaysPrivate` | `PublicInv` |
| `StoredReadsAreCurrent` | `Spec => OnlyCurrentReadsStored` | `ReadInv`, below |
| `SharedReadsAreFresh` | `Spec => []OriginResponsesAreFresh` | `ReadInv`, `FlightInv`, `FreshInv`, below |
| `MissesShareOneRead` | `Outcomes \subseteq {"ok"}` proves `Spec => []SingleFlight` | `SingleInv`, below |
| `TrackingSet_proofs!TypeCorrect`, `NoEntryIsLost` | `Spec => []UntrackedIsAdopted` | with "a setter holds one name" and "what is still to delete is part of what was listed" |
| `PurgeIsComplete` | `Pruners = {} => (Spec => []PurgeRemovesSettled)` | `SettledIsRemoved`: what a purge must remove is in what it listed, or another purge is at it |
| `DocumentPurge_proofs!TypeCorrect`, `WritesArePurged`, `WritesArePurgedOnce` | `Spec => []EachWriteIsPurged`, `[]PurgedOnce` | `IInv`, below |
| `Plugin_proofs!TraversalsAreExact` | `Spec => RelatedExact` | `Traversal`, below |
| `PluginTypeCorrect`, `ResetComesFirst`, `LoadEmptiesNothing` | `Spec => []PluginTypeOK`, `[]ResetBeforeServing`, `LoadKeepsEntries` | `BootInv` (what each `phase` implies) and `StoreInv` (what an entry may be) |
| `HitsReplayWhatWasSent`, `CacheControlIsTrue` | `Spec => []ReplayedAsSent`, `[]AdvertisedTruly` | `AnswerInv`: an answer was computed by the functions of Responses and Strategy, from an entry of `StoreInv` |
| `CacheKeys_proofs!KeysTell` | two requests with one key have one normalised path and, under the same `keys`, the same selected parameters and headers and, where it counts, the same caller | below |
| `Plugin_proofs!HitsAnswer` | `Spec => []HitsAnswerTheRequest` | `KeysTell` and `AnswerInv`, below |
| `SharingChosen` | `Spec => []SharingIsChosen` | `HitsAnswerTheRequest` and what a resolved route's `hitpass` can be, below |
| `AdminQuery_proofs!AdminTypeCorrect` | `Spec => []AdminTypeOK` | `ShapeInv`, `PurgesInv`, `DueInv`, below |
| `RequestsAreShared` | `Spec => []OneRequestPerVersion` | `SingleInv` of that module, below |
| `SpinnersHaveTheirPurge` | `Spec => []SpinnersEnd` | with `PurgesInv`: a live purge is unmounted only with its component |
| `OnlyFirstEffectsMiss` | `Spec => OnlyMountingMisses` | `MissesStep`, below |
| `LoadingIsAwaited`, `ControlsAreOffered` | `Spec => []LoadingEnds`, `[]ControlsAppear` | `AskedInv`, `RightsInv`, below |
| `EditViewPurgesItsDocument` | `Spec => DocumentIsPurged` | `ServedIsDocument`: the step is the serving of that purge; `AddressesItsDocument`: its parameters are still those of the document it was confirmed on, so the routes they match are those the document is in |

They hold for any sets of keys, requests, writers, processes, content types, documents,
applications and pages, any relations between the types, any depth of nesting, any
number of restarts, any text in a query or a header, any size of the log and any bounds.

**Assumptions.** All are named in the modules and evaluated by TLC on every run.

- Bounds and flags of the right type: `SizeAssumption`, `BoundAssumption`,
  `BoundsAssumption`, `FaultsAssumption`, `LimitsAssumption`, `FlagsAssumption`,
  `ServersAssumption`, `OutcomesAssumption`.
- Sets that the models relate: `KeysAssumption`, `TypesAssumption`,
  `RelatedAssumption`, `CachedAssumption`, `VisitedAssumption`, `ModelsAssumption`. A
  schema is finite (`FiniteAssumption`): Strapi's registry of models is an object.
- Markers are not values: `NoneAssumption`, `UndefinedAssumption` (JavaScript's `undefined` is
  none of the answers of the server) and `OptionAssumption` (an absent option is not a
  null one, and neither is a hitpass).
- Of an application: attributes have targets (`SchemasAssumption`); its registered routes
  and its options are lists, `resetOnStartup` is a boolean and a `hitpass` is a boolean or
  a function, where it is given (`OptionsAssumption`: their declared types,
  `types/CachePluginStrategy.ts`).
- Of a request (`RequestsAssumption`): it has the parts koa gives every request, its
  response a type, it reaches a registered route, and the `maxAge` that route resolved to
  is a number. The last is a fact about `Flattened`, which goes through `FlattenSeq` and
  is computed by TLC for each application. `IsRequest` says what the parts are: names and
  values of the query and the headers are any sequences of strings, values of the query
  also null and what `qs` nests; the path is percent-encoded, as HTTP requires, and its
  segments hold no "/" and no "?", which separate them.
- Of callers (`CallersAssumption`): they come through the strategies that
  `generateAuthKey` knows, one for each kind of token (`AuthNames`: Strapi has one name
  for each, which depends on its version), and the id of a user or a token is neither the
  separator "&" nor the word "public", which stands for no user. Callers of a
  custom strategy share one key by design (`generateAuthKey.ts:80-82`) and are outside the
  theorem.
- Of koa's router (`RoutingAssumption`): it takes paths that are one when normalised to
  one route, with parameters that are one when folded. A raw path with ".", ".." or empty
  segments, which normalising changes and the router may not, is outside it.
- Of the admin's documents: what the key of a route with a parameter is told apart by is a
  scalar field that every document has (`EntriesAssumption`); a route without parameters
  has one entry.

Two theorems have a hypothesis. `ReadPathImplementsLeases` is about behaviours in which
no delete is lost, as `StaleIsOwned` itself says: a lost `delMany` leaves behind what a
lease would have retracted. `MissesShareOneRead` is about origins that succeed: after a
refused response each waiter asks for itself, by design.

**Inductive invariants.** `StaleIsOwned` is not inductive: it says nothing of an outdated
body on its way to the store. `ReadCovered` adds it: a body that a request holds and that
is older than the database is covered by a committed write that has not begun its purge,
or the log already answers yes about that read. That in turn needs the log to keep
answering yes (the lemmas on the purge log) and a request's `gen` to have been sampled
in the past (`Progress`). Then no set can land an entry nobody owns.

*Refinement.* `LeaseShape` tells the state of a lease from `pc` and from what
`purgedSince` answers about the generation the request sampled. A lease is taken after
its sample, so it starts valid; a purge can only turn answers to yes, so it revokes and
never reinstates; and `LeaseInv` says a request holds no body outside its lease, so that
what the mapping shows of it changes only with the lease. Each action of RestCache is one
step of LeaseCache or a stutter, with one lemma per action.

*Responses.* The responses of an origin are about reads, not entries, and stay true when
deletes are lost. `AckCovered`: if the body a request holds lacks a write that has
returned, or one whose purge is under way, the log answers yes about that read. So a
request that finds the log silent (to store, or to join a flight) holds or joins a body
that no returned write outdates: `OnlyCurrentReadsStored` at the step that begins a set,
`FreshInv` for what waiters are given, with `floor` at most `acked` and `FlightInv`
tying a registered flight to a request that is still on its key. `SingleFlight` is not
inductive either: a flight may be unregistered by the successor it lets in. `Registered`
says every flight that is not outrun by a purge is the registered one; then a second
flight for the key needs a purge in between.

*Writes.* `EachWriteIsPurged` is not inductive. When a write fails, what was pending
before it comes back into force, so `IInv` says of every frame that what was pending when
it began is owed by the frames below it; and that a frame's scope is the inherited one and
the types of the frames up to it, so that an ignored event belongs to a frame whose
purge will match it. For a plugin's type that purge names at most one document, and
`RawIsMatched` shows that it nevertheless loses nothing but what `Excused` names.

*Traversal.* During a call, `known` lies in every closed set that contains the type, and
a pass that has added nothing so far (its `knownBefore` is still the cardinality) leaves
no visited model that reaches `known` from outside it. When a whole pass is like that,
`known` is itself closed, so it is the least such set. Here cardinalities decide, hence
`FiniteAssumption`.

*Admin.* `entry[e].version` plus the number of purges under way is at most the number
confirmed: with that the version of an endpoint is bounded, and with "every purge has a
number of its own" no two are confused. Two requests for an endpoint need two versions,
because a request of the entry's own version means the entry is not missing
(`RequestsInv`), and only a missing entry is requested, by one component of a page
(`EffectsShape`). A component is there with its page, and listens only once it was rendered
(`ViewsOK`, `DueInv`). For what it misses: an entry changes in what is shown only by an
answer or an invalidation, both of which make every listener due, and a component stops
being due only by a render, whose snapshot is the entry's. So a component that has run its
effects and was not left behind stays so until it goes. For what it waits for: `AskedInv`
says that a promise has its request on the way, and that an endpoint the effects of a
component ran for, `enabled` and at the entry's version, is answered or has a request on the
way. So a component to which nothing is on its way shows entries that are answered
(`AtRest`), and `RightsInv` says what the answers are as long as no request failed.

*Keys.* Each list in a key is written symbol by symbol, or item by item, in a code that
can be read from one end (`PrefixCode`, `SuffixCode`), so two texts with one code are one
text; and a text that is kept as it is cannot be taken for an encoded one, which holds a
"%". No part holds the symbol that ends it: "?" ends the path and "&" the query and the
headers, "=" ends a name and no name holds a raw ",". A value may hold a ",": the next
"=" then tells where it ends, as the name before it is what follows the last ",". So a
key splits in one way, and equal keys have equal parts. The proofs go by induction on the
length of sequences. The library's induction theorems take an operator, so the induction
is over a set (`Induction`): a set of naturals has a least element (`Least`, from `WFMin`
and `NatLessThanWellFounded`). That reaches through `FlattenSeq` and the folds, of which
the proofs use only the defining equations.

*Sharing.* `BootInv` says that the middleware of a route has a config that the resolution
of the options made. `ListedSays`, `RoutesSay`, `ConfigsSay` and `InjectedSays` follow
`hitpass` through that resolution, to `Chosen`: where the key does not hold the caller, a
route's hitpass lets in only callers that what its options say lets in. The request that
stored an entry and the one it answers have one route by `HitsAnswerTheRequest`, and both
passed its hitpass.

**Only model-checked.** Outside this prover's reach: `EveryRequestAnswered`,
`ConvergesAfterWrites`, `LoadEnds` (liveness under fairness). Planned, in section 6:
`PurgeReaches` and `PurgeSpares`, which rest on what `getRouteRegExp` matches.

## 5. What is not modelled

In the modelled parts:

- in RestCache, a `reset` while the provider is not ready, which records nothing (Plugin
  has it, without reads in flight);
- a set that rejects and takes effect later all the same;
- several processes with a purge log each over one redis (`RestCache` and `Plugin` have
  one at a time; TrackingSet has several). The documentation describes the window this
  leaves (`docs/guide/caching/index.md:290`);
- a bulk operation, whose transaction commits after the purge (in RestCache and in
  DocumentPurge);
- the row of a deleted role, which goes after the reset (`bootstrap.ts:163`);
- standalone `clear()` of the redis provider and `useRedisSets: false`, which lists by
  SCAN and has no tracking set; the cursor of SSCAN; how names are escaped;
- `keysPrefix` in Plugin; the text of a key's JSON, of patterns and of the log;
- `debug`, `enableXCacheHeaders`, the totals and flags of the statistics,
  `config/provider`, and `deepFreeze` (no definition assigns to the strategy after boot);
- a database event of a `*Many` call that touched no row, which the code skips;
- in the admin: layout, translations, notifications; components of one page are mounted
  in one step, and the document action that the content-manager also evaluates per row of
  a list view is mounted on edit views only;
- the listing and deleting of a purge confirmed in the panel are one step (`Serve`); their
  races are RestCache's.

Not modelled at all: the build, release and benchmark scripts, the redis-cluster check
scripts, the playgrounds and the tests (under `src/scripts`, `src/shared`,
`src/playgrounds`): they exercise the packages and hold no state of the system. They are
a good part of the lines of the repository.

## 6. Plan

Proofs: `PurgeReaches` and `PurgeSpares`. A pattern made from a route and a key made from
a request agree segment by segment; `KeysTell` and its lemmas on paths give the key's side
of that.

Model: several processes of RestCache over one store, to say what holds across processes
and what the documented window leaves; the transaction of bulk operations.
