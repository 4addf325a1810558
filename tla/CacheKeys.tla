------------------------------ MODULE CacheKeys ------------------------------
(***************************************************************************)
(* generateCacheKey: the key under which a request's response is stored.   *)
(*                                                                         *)
(* A string is a sequence of tokens: a character or a word without any of  *)
(* the characters that are structure in a key.  The alphabet holds every   *)
(* such character, and every character the code escapes.                   *)
(***************************************************************************)
EXTENDS Strategy, RoutePatterns, FiniteSets

\* encodeURIComponent of the characters it does not leave alone.
URIComponent ==
    [c \in {"%", "&", ",", "=", "{", "[", "\"", ":", "\\"} |->
        CASE c = "%" -> "25" [] c = "&" -> "26" [] c = "," -> "2C" [] c = "=" -> "3D"
          [] c = "{" -> "7B" [] c = "[" -> "5B" [] c = "\"" -> "22" [] c = ":" -> "3A"
          [] c = "\\" -> "5C"]
EncodedToken(t) == IF t \in DOMAIN URIComponent THEN <<"%", URIComponent[t]>> ELSE <<t>>
encode(s) == Ext!FlattenSeq([i \in DOMAIN s |-> EncodedToken(s[i])])

\* Kept as it is, unless it holds structure or starts like JSON.
Escaped(s, structure) ==
    IF (\E i \in DOMAIN s : s[i] \in structure) \/ (s # <<>> /\ s[1] \in {"{", "[", "\""})
    THEN encode(s) ELSE s
RawValue(s) == s
escapeKeyValue(s) == Escaped(s, {"%", "&", "="})
escapeKeyName(s) == Escaped(s, {"%", "&", "=", ","})
KEY_NULL == <<"%">>

\* A value of ctx.query: Null for a bare parameter, a string, or an object
\* or array of strings and nulls as qs builds it; an array has no names.
QueryString(s) == [kind |-> "string", string |-> s]
QueryObject(fields) == [kind |-> "object", fields |-> fields]

\* JSON.stringify of the escaped strings.
QuotedToken(t) == IF t \in {"\"", "\\"} THEN <<"\\", t>> ELSE <<t>>
Quoted(s) ==
    <<"\"">> \o Ext!FlattenSeq([i \in DOMAIN s |-> QuotedToken(s[i])]) \o <<"\"">>
Joined(parts) ==
    Ext!FlattenSeq([i \in DOMAIN parts |-> IF i = 1 THEN parts[i] ELSE <<",">> \o parts[i]])
escapeKeyJson(fields) ==
    LET json(s) == IF s = Null THEN <<"null">> ELSE Quoted(escapeKeyValue(s))
        field(f) == IF f.name = Null THEN json(f.value) ELSE json(f.name) \o <<":">> \o json(f.value)
        all == Joined([i \in DOMAIN fields |-> field(fields[i])])
    IN  IF fields # <<>> /\ fields[1].name # Null THEN <<"{">> \o all \o <<"}">>
        ELSE <<"[">> \o all \o <<"]">>

QueryValue(v) ==
    IF v = Null THEN KEY_NULL
    ELSE IF v.kind = "object" THEN escapeKeyJson(v.fields)
    ELSE escapeKeyValue(v.string)

\* The parameters that count, in an order that depends on their names alone.
Selected(query, useQueryParams) ==
    IF useQueryParams = EveryParam THEN DOMAIN query ELSE DOMAIN query \intersect useQueryParams
generateQueryParamsKey(query, useQueryParams) ==
    LET names == Ext!SetToSeq(Selected(query, useQueryParams))
    IN  Joined([i \in DOMAIN names |->
            escapeKeyName(names[i]) \o <<"=">> \o QueryValue(query[names[i]])])

\* The configured headers that the request has; their names are in lower case.
SentHeaders(headers, useHeaders) == DOMAIN headers \intersect {Lower(h) : h \in useHeaders}
generateHeadersKey(headers, useHeaders) ==
    LET names == Ext!SetToSeq(SentHeaders(headers, useHeaders))
    IN  Joined([i \in DOMAIN names |->
            escapeKeyName(<<names[i]>>) \o <<"=">> \o escapeKeyValue(headers[names[i]])])

\* ctx.state.auth: Null, or the strategy's name and the credentials.
generateAuthKey(auth) ==
    IF auth = Null THEN <<"unauthenticated">>
    ELSE CASE auth.strategy = "users-permissions" ->
                 IF auth.credentials = Null THEN <<"up", ":", "public">>
                 ELSE <<"up", ":", auth.credentials.id>>
           [] auth.strategy \in {"api-token", "content-api-token"} ->
                 <<"token", ":", auth.credentials.id, ":", auth.credentials.type>>
           [] auth.strategy \in {"admin", "admin-token"} -> <<"admin", ":", auth.credentials.id>>
           [] OTHER -> <<"strategy", ":", auth.strategy>>

\* The path is normalised, lower-cased and loses a trailing slash: that is,
\* empty segments and "." go, and ".." takes the segment before it along.
NormalizedPath(path) ==
    LET step(done, segment) ==
            IF segment \in {<<>>, <<".">>} THEN done
            ELSE IF segment = <<"..">> THEN IF done = <<>> THEN done ELSE Ext!Front(done)
            ELSE Append(done, Lowered(segment))
    IN  Ext!FoldLeft(step, <<>>, path)

generateCacheKey(request, keys) ==
    LET path == NormalizedPath(request.path)
    IN  Ext!FlattenSeq([i \in DOMAIN path |-> <<"/">> \o path[i]]) \o <<"?">>
        \o generateQueryParamsKey(request.query, keys.useQueryParams) \o <<"&">>
        \o generateHeadersKey(request.headers, keys.useHeaders) \o <<"&">>
        \o (IF Truthy(keys.useAuth) THEN generateAuthKey(request.auth) ELSE <<>>)

-----------------------------------------------------------------------------
(* What a request may hold: any text at all in its query and its headers.   *)
(* Its path is percent-encoded still.  A caller is known to users and       *)
(* permissions, to the API tokens or to the admin; Strapi has one name for  *)
(* the strategy of each, `api` and `admin` here, which depends on its       *)
(* version.                                                                 *)
Text == Seq(STRING)
QueryFields ==
    Seq([name : {Null}, value : {Null} \union Text])
    \union Seq([name : Text \ {Null}, value : {Null} \union Text])
QueryValues ==
    {Null} \union [kind : {"string"}, string : Text]
           \union [kind : {"object"}, fields : QueryFields]

Id == STRING \ {"&", "public"}
Auths(api, admin) ==
    {Null} \union [strategy : {"users-permissions"}, credentials : {Null} \union [id : Id]]
           \union [strategy : {api}, credentials : [id : Id, type : Id]]
           \union [strategy : {admin}, credentials : [id : Id]]
AuthNames(api, admin) ==
    api \in {"api-token", "content-api-token"} /\ admin \in {"admin", "admin-token"}

IsRequest(q) ==
    /\ NormalizedPath(q.path) \in Seq(Seq(STRING \ {"/", "?"}))
    /\ IsFiniteSet(DOMAIN q.query) /\ DOMAIN q.query \subseteq Text
    /\ \A n \in DOMAIN q.query : q.query[n] \in QueryValues
    /\ IsFiniteSet(DOMAIN q.headers) /\ DOMAIN q.headers \subseteq STRING
    /\ \A n \in DOMAIN q.headers : q.headers[n] \in Text

=============================================================================
