------------------------------ MODULE Responses ------------------------------
(***************************************************************************)
(* Which responses are stored, and with which type they are replayed:      *)
(* isCacheable, typeToKeep, isReplayable and replay of recv, serialize and *)
(* deserialize.                                                            *)
(*                                                                         *)
(* A response is [respond, status, body, type, setCookie, cacheControl]:   *)
(* `body` is the kind of its body, `type` the Content-Type the handler set *)
(* (Unset if none), `cacheControl` the directives of its Cache-Control.    *)
(***************************************************************************)
EXTENDS Strategy

\* Kinds of body: a string, and one that starts with "<", are "text" and
\* "markup"; "array" is a typed array that is no Buffer.
Bodies == {"none", "json", "text", "markup", "array", "buffer", "stream"}
IsString(body) == body \in {"text", "markup"}

Type(mime, charset) == [mime |-> mime, charset |-> charset]
UTF8 == "utf-8"

\* The type koa infers for a body when none is set.
Inferred(body) ==
    CASE body \in {"json", "array", "none"} -> Type("application/json", UTF8)
      [] body = "text" -> Type("text/plain", UTF8)
      [] body = "markup" -> Type("text/html", UTF8)
      [] OTHER -> Type("application/octet-stream", UTF8)

\* The type on the wire: koa overwrites what the handler set for an object.
SentType(response) ==
    IF response.body \in {"json", "array"} THEN Inferred(response.body)
    ELSE Or(response.type, Inferred(response.body))

isCacheable(response) ==
    /\ response.respond
    /\ response.body # "none"
    /\ response.status \in 200 .. 300
    /\ response.body \notin {"stream", "buffer"}
    /\ ~response.setCookie
    /\ response.cacheControl \intersect {"no-store", "private"} = {}

PassiveTypes == {"text/plain", "text/csv", "text/tab-separated-values", "application/json"}
MarkupTypes == {"application/xml"}

AnyBody(type, body) == type.charset \in {UTF8, Null} /\ type.mime \in PassiveTypes \union MarkupTypes
isReplayable(type, body) ==
    /\ type.charset \in {UTF8, Null}
    /\ \/ type.mime \in PassiveTypes
       \/ type.mime \in MarkupTypes /\ body = "markup"

typeToKeep(response) ==
    IF IsString(response.body) /\ isReplayable(SentType(response), response.body)
    THEN SentType(response) ELSE Null

\* serialize and deserializeEntry: JSON turns anything that is no string into
\* an object, and a type is kept only if there is one.
Stored(response) ==
    [body |-> IF IsString(response.body) THEN response.body ELSE "json",
     type |-> typeToKeep(response)]

\* The type a hit is sent with.
replay(entry) ==
    IF entry.type # Null /\ IsString(entry.body) /\ isReplayable(entry.type, entry.body)
    THEN entry.type ELSE Inferred(entry.body)

=============================================================================
