------------------------------ MODULE MCPlugin ------------------------------
(* Families of applications for Plugin, each about one part of it. *)
EXTENDS Plugin

\* Pages hold blocks, blocks hold an seo component, which points at articles.
Relation(t, private) == [kind |-> "relation", targets |-> {t}, private |-> private]
Holds(kind, c) == [kind |-> kind, targets |-> {c}, private |-> FALSE]
Flat == [m \in Models |-> {}]
Nested ==
    [Flat EXCEPT !["page"] = {Holds("dynamiczone", "block")},
                 !["block"] = {Holds("component", "seo")},
                 !["seo"] = {Relation("article", FALSE)},
                 !["article"] = {Relation("author", TRUE)}]

Word(w) == <<w>>
Api == Literal("api")
Coll(api, words) == [single |-> FALSE, plugin |-> FALSE, api |-> api, path |-> words,
                     id |-> Param("id", "", {})]
Articles == Literal("articles")
Authors == Literal("authors")
MCTypes ==
    ("article" :> Coll("article", <<Articles>>)) @@ ("author" :> Coll("author", <<Authors>>))
    @@ ("page" :> [Coll("page", <<Literal("page")>>) EXCEPT !.single = TRUE])

ApiRoute(api, method, path) ==
    [plugin |-> Null, api |-> api, router |-> Null, prefix |-> Unset, ownPrefix |-> FALSE,
     method |-> method, path |-> path]
PluginRoute(router, prefix, ownPrefix, path) ==
    [plugin |-> Literal("rest-search"), api |-> Null, router |-> router, prefix |-> prefix,
     ownPrefix |-> ownPrefix, method |-> "GET", path |-> path]
Entry(t) ==
    [uid |-> t, maxAge |-> Unset, hitpass |-> Unset, keys |-> Unset,
     injectDefaultRoutes |-> Unset, routes |-> <<>>]
Listing(path, maxAge, hitpass, keys) ==
    [path |-> path, method |-> Unset, maxAge |-> maxAge, hitpass |-> hitpass, keys |-> keys]
Keyed(query, headers, auth) ==
    [useQueryParams |-> query, useHeaders |-> headers, useAuth |-> auth]

Memory == [name |-> "memory", package |-> "plugin", connected |-> TRUE]
Base ==
    [schema |-> Flat, prefix |-> <<Api>>, types |-> MCTypes,
     routes |-> <<ApiRoute("article", "GET", <<Articles>>)>>,
     contentManager |-> {"create", "update", "delete", "publish"},
     options |->
        [contentTypes |-> <<Entry("article")>>, keys |-> Unset, hitpass |-> Never,
         maxAge |-> 2500, enableDocumentServiceMiddleware |-> Unset,
         enableAdminCTBMiddleware |-> Unset, enableContentApiPurge |-> Unset,
         clearRelatedCache |-> Unset, resetOnStartup |-> Unset,
         cacheControl |-> [enabled |-> Unset, scope |-> "public", maxAge |-> Unset,
                           staleWhileRevalidate |-> Unset]],
     provider |-> Memory, usersPermissions |-> FALSE,
     requests |-> {}, writes |-> {}, purges |-> {}]

UP(id) == [strategy |-> "users-permissions",
           credentials |-> IF id = Null THEN Null ELSE [id |-> id]]
Token(id, type) == [strategy |-> "api-token", credentials |-> [id |-> id, type |-> type]]
AdminUser(id) == [strategy |-> "admin", credentials |-> [id |-> id]]

Plain == [respond |-> TRUE, status |-> 200, body |-> "json", type |-> Unset,
          setCookie |-> FALSE, cacheControl |-> {}]
Get(i, t, path) ==
    [path |-> <<Word("api")>> \o path, query |-> <<>>, headers |-> <<>>, caller |-> Anonymous,
     auth |-> UP(Null), route |-> i, uid |-> t, params |-> <<>>, response |-> Plain]
List(i) == Get(i, "article", <<Word("articles")>>)
By(request, caller, auth) == [request EXCEPT !.caller = caller, !.auth = auth]
Write(t, via, i, params) == [uid |-> t, via |-> via, route |-> i, params |-> params]
PurgeOf(t, params, wildcard) ==
    [uid |-> t, params |-> params, wildcard |-> wildcard, contentApi |-> FALSE]

-----------------------------------------------------------------------------
\* Related content types: a chain of components, private relations, and
\* types that are not cached.
RelatedApps ==
    LET routes == <<ApiRoute("article", "GET", <<Articles>>),
                    ApiRoute("author", "GET", <<Authors>>),
                    ApiRoute("page", "GET", <<Literal("page")>>)>>
        requests == {List(1), Get(2, "author", <<Word("authors")>>), Get(3, "page", <<Word("page")>>)}
        embedding(s, uids) ==
            [Base EXCEPT !.schema = s, !.routes = routes,
                !.options.contentTypes = [i \in DOMAIN uids |-> Entry(uids[i])],
                !.requests = {r \in requests : \E i \in DOMAIN uids : uids[i] = r.uid},
                !.writes = {Write(t, "service", 1, <<>>) : t \in {"article", "author"}},
                !.purges = {PurgeOf("article", <<>>, TRUE)}]
    IN  {embedding(Nested, <<"article", "page">>), embedding(Nested, <<"page">>),
         embedding(Nested, <<"author", "page">>),
         embedding([Nested EXCEPT !["author"] = {Relation("page", FALSE)}], <<"author", "page">>),
         embedding([Nested EXCEPT !["seo"] = {Relation("article", TRUE)}], <<"page">>)}

\* Who may share what: every level of hitpass, and every kind of useAuth.
SharingApps ==
    LET listing(h, auth) ==
            Listing(<<Api, Articles, Literal("top")>>, Unset, h, Keyed(Unset, Unset, auth))
        requests == UNION {{r, By(r, "ann", UP("1")), By(r, "bob", UP("2"))} :
                           r \in {List(1), Get(2, "article", <<Word("articles"), Word("top")>>)}}
    IN  {[Base EXCEPT
            !.routes = <<@[1], ApiRoute("article", "GET", <<Articles, Literal("top")>>)>>,
            !.options.hitpass = strategy,
            !.options.contentTypes =
                <<[Entry("article") EXCEPT !.hitpass = type,
                                           !.routes = <<listing(route, auth)>>]>>,
            !.options.cacheControl.enabled = TRUE, !.options.cacheControl.maxAge = age,
            !.requests = requests] :
         strategy \in {Never, Unset}, type \in {Unset, Null, Never, Always},
         route \in {Unset, Never}, auth \in {"false", "true", "truthy"}, age \in {Unset, 60000}}

\* Keys: values that hold the characters a key is built of.
Query(v) == <<"locale">> :> v
Str(s) == QueryString(s)
KeyApps ==
    LET plain == List(1)
        ask(q) == [plain EXCEPT !.query = q]
        queries == {<<>>, Query(Null), Query(Str(<<>>)), Query(Str(<<"%">>)), Query(Str(<<"%", "25">>)),
            Query(Str(<<"x", ",", "populate", "=", "a">>)),
            Query(Str(<<"x">>)) @@ (<<"populate">> :> Str(<<"a">>)),
            <<"populate">> :> Str(<<"a", ",", "locale", "=", "x">>),
            Query(Str(<<"b", "=", "c">>)), (<<"locale", "=", "b">> :> Str(<<"c">>)),
            Query(Str(<<"{", "\"", "a", "\"", ":", "\"", "b", "\"", "}">>)),
            Query(QueryObject(<<[name |-> <<"a">>, value |-> Str(<<"b">>).string]>>)),
            Query(QueryObject(<<[name |-> Null, value |-> <<"a">>], [name |-> Null, value |-> Null]>>)),
            Query(Str(<<"[", "\"", "a", "\"", ",", "null", "]">>))}
        headed(h) == [plain EXCEPT !.headers = h]
    IN  {[Base EXCEPT !.options.keys = Keyed(EveryParam, Unset, "false"),
            !.requests = {ask(q) : q \in queries}
                \union {[plain EXCEPT !.path = <<Word("api"), <<>>, Word("articles"), <<>>>>],
                        [plain EXCEPT !.path = <<Word("x"), Word(".."), Word("api"), Word("articles")>>]}],
         [Base EXCEPT !.options.keys = Keyed({<<"locale">>}, {"X-B", "b"}, "true"),
            !.requests = {plain, ask(Query(Str(<<"x", "&", "b", "=", "y">>))),
                ask(Query(Str(<<"x">>))), [ask(Query(Str(<<"x">>))) EXCEPT !.headers = ("b" :> <<"y">>)],
                headed("x-b" :> <<"1", ",", "b", "=", "2">>),
                headed(("x-b" :> <<"1">>) @@ ("b" :> <<"2">>)), headed("cookie" :> <<"1">>),
                By(plain, "ann", UP("1")), By(plain, "bob", UP("2")),
                By(plain, "ann", AdminUser("1")), By(plain, "bob", Token("1", "full-access")),
                By(plain, "bob", Token("1", "custom"))}]}

\* Purge patterns: parameters with modifiers, constraints and any character.
PatternApps ==
    LET slug(mod) == <<Api, Articles, Literal("by"), Param("bySlug", mod, {})>>
        listed(path) == Listing(path, Unset, Unset, Unset)
        at(i, parts, params) ==
            [Get(i, "article", <<Word("articles"), Word("by")>> \o parts) EXCEPT !.params = params]
        of(v) == "bySlug" :> v
        case(mod, requests, params) ==
            [Base EXCEPT !.options.clearRelatedCache = FALSE,
                !.options.enableContentApiPurge = TRUE,
                !.routes = <<ApiRoute("article", "GET", SubSeq(slug(mod), 2, 4))>>,
                !.options.contentTypes = <<[Entry("article") EXCEPT
                    !.injectDefaultRoutes = FALSE, !.routes = <<listed(slug(mod))>>]>>,
                !.requests = requests,
                !.purges = {PurgeOf("article", p, FALSE) : p \in params}
                    \union {PurgeOf("article", <<>>, w) : w \in BOOLEAN}
                    \union {[PurgeOf("article", <<>>, TRUE) EXCEPT !.contentApi = TRUE]}]
        encoded == {<< <<"E'">>, <<"%C3%89">> >>, << <<"e'">>, <<"%c3%a9">> >>,
                    << <<"n", ".", "s">>, <<"n", ".", "s">> >>, << <<"n", "e", "s">>, <<"n", "e", "s">> >>,
                    << <<"a", "|">>, <<"A", "|">> >>, << <<"A", "|">>, <<"a", "%7c">> >>,
                    << <<"a", " ", "b">>, <<"a", "%20", "b">> >>}
        two == <<Api, Articles, Param("year", "", {Word("2024"), Word("2025")}), Param("id", "", {})>>
    IN  {case("", {at(1, << s[2] >>, of(<< s[1] >>)) : s \in encoded}, {of(<< s[1] >>) : s \in encoded})}
        \union
        {case(mod, {at(1, << <<"a">> >>, of(<< <<"a">> >>))}
                \union (IF mod = "+" THEN {} ELSE {at(1, <<>>, of(<<>>))})
                \union (IF mod = "?" THEN {} ELSE {at(1, << <<"a">>, <<"b">> >>, of(<< <<"a">>, <<"b">> >>))}),
             {of(<<>>), of(<< <<"a">> >>), of(<< <<"a">>, <<"b">> >>)}) : mod \in {"?", "+", "*"}}
        \union
        {[case("", {[Get(1, "article", <<Word("articles"), y, i>>) EXCEPT
                        !.params = ("year" :> <<y>>) @@ ("id" :> <<i>>)] :
                    y \in {Word("2024"), Word("2025")}, i \in {Word("1"), Word("2")}},
                {("id" :> <<Word("1")>>), ("id" :> <<Word("1")>>) @@ ("year" :> <<Word("2024")>>)})
          EXCEPT !.routes = <<ApiRoute("article", "GET", SubSeq(two, 2, 4))>>,
                 !.options.contentTypes[1].routes = <<listed(two)>>]}

\* What is stored, and with which type it is replayed.
ReplayApps ==
    LET types == {Unset, Type("text/csv", Null), Type("text/tab-separated-values", UTF8),
                  Type("application/xml", UTF8), Type("text/html", UTF8),
                  Type("image/svg", UTF8), Type("application/json", UTF8), Type("text/plain", "utf-7")}
        cc(directives) == [Plain EXCEPT !.cacheControl = directives]
        responses == {[Plain EXCEPT !.body = b, !.type = t] : b \in Bodies, t \in types}
            \union {[Plain EXCEPT !.status = 404], [Plain EXCEPT !.status = 301],
                    [Plain EXCEPT !.setCookie = TRUE], [Plain EXCEPT !.respond = FALSE],
                    cc({"private"}), cc({"max-age"}), cc({"no-store"})}
    IN  {[Base EXCEPT !.options.cacheControl =
                [enabled |-> TRUE, scope |-> Unset, maxAge |-> Null, staleWhileRevalidate |-> 1500],
             !.requests = {[List(1) EXCEPT !.response = r] : r \in responses}]}

\* Starting: providers, packages, connections, and a reset on startup.
BootApps ==
    LET boot(p, reset) == [Base EXCEPT !.provider = p, !.options.resetOnStartup = reset,
            !.usersPermissions = reset, !.purges = {PurgeOf("article", <<>>, TRUE)},
            !.requests = {List(1), [List(1) EXCEPT !.query = <<"locale">> :> QueryString(<<"x">>)]}]
        redis(package, connected) == [name |-> "redis", package |-> package, connected |-> connected]
    IN  {boot(p, reset) : reset \in BOOLEAN,
            p \in {Memory, [Memory EXCEPT !.package = "missing"], redis("application", TRUE),
                   redis("bare", FALSE)}}
        \union {[Base EXCEPT !.options.contentTypes = Unset, !.options.cacheControl = Unset],
                [Base EXCEPT !.options.contentTypes = <<Entry("unknown")>>],
                [Base EXCEPT !.options.contentTypes = <<Entry("page")>>]}

\* Purges by route middlewares and by the admin's.
MiddlewareApps ==
    LET id(n) == "id" :> <<Word(n)>>
        path == <<Articles, Param("id", "", {})>>
    IN  {[Base EXCEPT !.options.enableDocumentServiceMiddleware = service,
            !.options.contentTypes = <<[Entry("article") EXCEPT !.routes =
                <<Listing(<<Api, Literal("rest-search"), Literal("hot")>>, Unset, Unset, Unset)>>]>>,
            !.routes = <<ApiRoute("article", "GET", path),
                         ApiRoute("article", "PUT", [path EXCEPT ![2].mod = "+"]),
                         ApiRoute("article", "DELETE", path),
                         PluginRoute("content-api", Unset, FALSE, <<Literal("hot")>>),
                         PluginRoute("content-api", <<Literal("other")>>, FALSE, <<Literal("hot")>>),
                         PluginRoute("content-api", Unset, TRUE, <<Literal("hot")>>),
                         PluginRoute("admin", Unset, FALSE, <<Literal("hot")>>)>>,
            !.requests = {[Get(1, "article", <<Word("articles"), Word(n)>>) EXCEPT !.params = id(n)] :
                            n \in {"1", "2"}}
                \union {Get(4, "article", <<Word("rest-search"), Word("hot")>>)},
            !.writes = {Write("article", "route", 2, id("1")), Write("article", "route", 3, id("1")),
                        Write("article", "update", 1, id("2")), Write("author", "update", 1, id("1")),
                        Write("article", "reorder", 1, id("1"))}] : service \in BOOLEAN}

MCApps ==
    RelatedApps \union SharingApps \union KeyApps \union PatternApps \union ReplayApps
    \union BootApps \union MiddlewareApps

=============================================================================
