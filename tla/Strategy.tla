------------------------------ MODULE Strategy ------------------------------
(***************************************************************************)
(* From the plugin's configuration to what each registered route gets:     *)
(* resolveUserStrategy and the config classes it fills, flattenRoutes,     *)
(* injectMiddlewares and buildCacheControl.                                *)
(*                                                                         *)
(* An option is a value, Unset (absent, or present with the value          *)
(* undefined) or Null.  A path is a sequence of segments                   *)
(* [name, param, mod, accepts]; RoutePatterns says what they match.        *)
(* A `hitpass` is the literal it was written as and the callers it         *)
(* bypasses; useAuth is "false", "true", or "truthy": any other truthy     *)
(* value, such as a string read from the environment.                      *)
(***************************************************************************)
EXTENDS Integers, Sequences

CONSTANTS Unset, Null,
          Callers, Anonymous    \* who may send a request

\* A hitpass that is neither absent nor null.
Hitpass == [literal : {"true", "false", "function"}, bypass : SUBSET Callers]

ASSUME OptionAssumption == Unset # Null /\ {Unset, Null} \intersect Hitpass = {}

Ext == INSTANCE SequencesExt

Given(x) == x # Unset
Or(x, default) == IF x = Unset THEN default ELSE x                  \* destructuring, definedOnly
Coalesce(x, default) == IF x \in {Unset, Null} THEN default ELSE x  \* ??

Always == [literal |-> "true", bypass |-> Callers]
Never == [literal |-> "false", bypass |-> {}]
\* config/index.ts: bypass what carries an authorization or cookie header.
Authenticated == [literal |-> "function", bypass |-> Callers \ {Anonymous}]

\* shouldLookup: anything but a boolean or a function bypasses.
Bypassed(hitpass) == IF hitpass = Null THEN Callers ELSE hitpass.bypass

Hour == 3600000
EveryParam == Null          \* useQueryParams: true; a set names the parameters

\* new CacheKeysConfig(options)
KeysConfig(k) ==
    IF k = Unset THEN [useHeaders |-> {}, useQueryParams |-> EveryParam, useAuth |-> "false"]
    ELSE [useHeaders |-> Or(k.useHeaders, {}),
          useQueryParams |-> Or(k.useQueryParams, EveryParam),
          useAuth |-> Or(k.useAuth, "false")]
IsTrue(useAuth) == useAuth = "true"
Truthy(useAuth) == useAuth # "false"

\* The shipped configuration.
DefaultStrategy ==
    [contentTypes |-> <<>>, hitpass |-> Authenticated, maxAge |-> Hour,
     keys |-> [useHeaders |-> {}, useQueryParams |-> EveryParam, useAuth |-> Unset],
     enableDocumentServiceMiddleware |-> TRUE, enableAdminCTBMiddleware |-> TRUE,
     enableContentApiPurge |-> FALSE, clearRelatedCache |-> TRUE, resetOnStartup |-> FALSE,
     cacheControl |-> Unset]

\* new CacheControlConfig(options).  maxAge is Null for 'none', Unset for
\* 'config', or milliseconds.
CacheControlConfig(options) ==
    IF options = Unset
    THEN [enabled |-> FALSE, maxAge |-> Unset, scope |-> "private", staleWhileRevalidate |-> Null]
    ELSE [enabled |-> Or(options.enabled, FALSE), maxAge |-> options.maxAge,
          scope |-> Or(options.scope, "private"),
          staleWhileRevalidate |-> Or(options.staleWhileRevalidate, Null)]

\* What the user gives over what is shipped; new CachePluginStrategy(options)
\* fills the same values.
PluginStrategy(options) ==
    LET given == [o \in DOMAIN DefaultStrategy |-> Or(options[o], DefaultStrategy[o])]
    IN  [given EXCEPT !.cacheControl = CacheControlConfig(@)]

\* new CacheRouteConfig({maxAge, hitpass, ...route, keys})
RouteConfig(path, method, keys, maxAge, hitpass) ==
    [path |-> path, method |-> method, keys |-> keys,
     maxAge |-> Or(maxAge, Hour), hitpass |-> Or(hitpass, Never)]

-----------------------------------------------------------------------------
\* resolveUserStrategy.

TypeHitpass(strategy, type, keys) == Coalesce(type, strategy)
ListedHitpass(strategy, type, keys) ==
    IF type \in {Unset, Null} THEN strategy
    ELSE IF IsTrue(keys.useAuth) THEN type
    ELSE [literal |-> "function", bypass |-> Bypassed(strategy) \union Bypassed(type)]

\* A route listed under a content type; a bare string has every option Unset.
ListedRoute(options, entry, r) ==
    LET inherited == Coalesce(entry.keys, options.keys)
        keys == KeysConfig(Coalesce(r.keys, inherited))
    IN  RouteConfig(r.path, Or(r.method, "GET"), keys,
                    Or(r.maxAge, Coalesce(entry.maxAge, options.maxAge)),
                    Or(r.hitpass, ListedHitpass(options.hitpass, entry.hitpass, keys)))

\* The core routes of a content type, of those its api registers.
IsDefaultRoute(type, r) ==
    IF type.single THEN r.path = type.path /\ r.method \in {"GET", "PUT", "DELETE"}
    ELSE \/ r.path = type.path /\ r.method \in {"GET", "POST"}
         \/ r.path = Append(type.path, type.id) /\ r.method \in {"GET", "PUT", "DELETE"}

DefaultRoutes(app, entry) ==
    LET type == app.types[entry.uid]
        config(r) == RouteConfig(app.prefix \o r.path, r.method,
                                 KeysConfig(Coalesce(entry.keys, app.options.keys)),
                                 Or(entry.maxAge, app.options.maxAge),
                                 Or(entry.hitpass, app.options.hitpass))
        core(r) == r.plugin = Null /\ r.api = type.api /\ IsDefaultRoute(type, r)
    IN  Ext!FlattenSeq([i \in DOMAIN app.routes |->
            IF core(app.routes[i]) THEN <<config(app.routes[i])>> ELSE <<>>])

InjectsDefaults(app, entry) ==
    Or(entry.injectDefaultRoutes, TRUE) /\ ~app.types[entry.uid].plugin

Listed(app, entry) ==
    [i \in DOMAIN entry.routes |-> ListedRoute(app.options, entry, entry.routes[i])]

\* Listed routes first, then the core ones.
RoutesOf(app, entry) ==
    Listed(app, entry) \o (IF InjectsDefaults(app, entry) THEN DefaultRoutes(app, entry) ELSE <<>>)

\* An unknown content type, or one whose api has no routes object: boot throws.
Resolvable(app) ==
    \A i \in DOMAIN app.options.contentTypes :
        LET entry == app.options.contentTypes[i] IN
        /\ entry.uid \in DOMAIN app.types
        /\ InjectsDefaults(app, entry) =>
              \E j \in DOMAIN app.routes : app.routes[j].api = app.types[entry.uid].api

\* isUnkeyedAuthenticatedRoute, what the boot warning and the badge tell.
Unkeyed(app, entry, route) ==
    route.method = "GET" /\ route.hitpass = Never /\ ~Truthy(route.keys.useAuth)

Says(app, entry, j) ==
    IF j > Len(entry.routes) THEN Or(entry.hitpass, app.options.hitpass)
    ELSE Or(entry.routes[j].hitpass, app.options.hitpass)

\* new CacheContentTypeConfig(cacheConfig), as one record per route; `says`
\* is the hitpass the operator wrote for it, which no code keeps.
ContentTypeConfig(app, entry) ==
    LET routes == RoutesOf(app, entry)
    IN  [j \in DOMAIN routes |-> [uid |-> entry.uid, route |-> routes[j],
                                  says |-> Says(app, entry, j),
                                  warned |-> Unkeyed(app, entry, routes[j])]]

\* Every resolved route with its content type, in order.
Configs(app) ==
    Ext!FlattenSeq([i \in DOMAIN app.options.contentTypes |->
                       ContentTypeConfig(app, app.options.contentTypes[i])])

-----------------------------------------------------------------------------
\* flattenRoutes and injectMiddlewares.

\* A route with its global path; a plugin's is under the plugin's name, its
\* router's prefix or, with a prefix of its own, neither.
Flattened(app) ==
    LET global(r) == [r EXCEPT !.path = app.prefix \o
            (IF r.plugin = Null \/ r.ownPrefix THEN <<>> ELSE Coalesce(r.prefix, <<r.plugin>>)) \o @]
        ofApis == SelectSeq(app.routes, LAMBDA r : r.plugin = Null)
        ofPlugins == SelectSeq(app.routes, LAMBDA r : r.plugin # Null /\ r.router = "content-api")
        all == ofApis \o ofPlugins
    IN  [i \in DOMAIN all |-> global(all[i])]

\* normalizeRoutePath: a trailing "+" does not count.
Normalized(path) ==
    IF path = <<>> THEN path
    ELSE [path EXCEPT ![Len(path)] = IF @.mod = "+" THEN [@ EXCEPT !.mod = ""] ELSE @]

SameRoute(registered, config) ==
    /\ registered.method = config.method
    /\ Normalized(registered.path) = Normalized(config.path)

PurgesViaDocumentService(app) == app.options.enableDocumentServiceMiddleware

\* The config each registered route gets, as recv's or purge's option, or
\* Null.  Only the first registered route a config matches gets it, and a
\* later config replaces an earlier one.
Injected(app) ==
    LET routes == Flattened(app)
        first(c, i) == /\ SameRoute(routes[i], c.route)
                       /\ \A j \in 1 .. i - 1 : ~SameRoute(routes[j], c.route)
        configs == Configs(app)
        matching(i) == {k \in DOMAIN configs : first(configs[k], i)}
    IN  [i \in DOMAIN routes |->
            [route |-> routes[i],
             config |-> IF matching(i) = {} \/ (routes[i].method # "GET"
                                                /\ PurgesViaDocumentService(app))
                        THEN Null ELSE configs[Ext!Max(matching(i))]]]

\* The content-manager's writes that get the purgeAdmin middleware: those of
\* `adminRoutes` that the content-manager registers.
AdminRoutes ==
    {"publish", "unpublish", "discard", "create", "clone", "auto-clone", "bulkDelete",
     "bulkPublish", "bulkUnpublish", "update", "delete"}
AdminPurged(app) ==
    IF app.options.enableAdminCTBMiddleware /\ ~PurgesViaDocumentService(app)
    THEN AdminRoutes \intersect app.contentManager ELSE {}

-----------------------------------------------------------------------------
\* buildCacheControl.

toSeconds(ms) == ms \div 1000
ScopeUnlessTrue(config, route) ==
    IF config.scope = "public" /\ IsTrue(route.keys.useAuth) THEN "private" ELSE config.scope
Scope(config, route) ==
    IF config.scope = "public" /\ Truthy(route.keys.useAuth) THEN "private" ELSE config.scope

\* The header's directives, or Null.
CacheControl(config, route) ==
    IF ~config.enabled THEN Null
    ELSE [scope |-> Scope(config, route),
          maxAge |-> IF config.maxAge = Null THEN Null
                     ELSE toSeconds(Or(config.maxAge, route.maxAge)),
          staleWhileRevalidate |-> IF config.staleWhileRevalidate = Null THEN Null
                                   ELSE toSeconds(config.staleWhileRevalidate)]

=============================================================================
