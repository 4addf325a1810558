---------------------------- MODULE RoutePatterns ----------------------------
(***************************************************************************)
(* getRouteRegExp: which cache keys a purge of a route matches.            *)
(*                                                                         *)
(* A cache key's path is a sequence of segments, a segment a sequence of   *)
(* tokens: a character, a whole word, or the percent-encoded form of a     *)
(* character.  The alphabet has one character of each class the code tells *)
(* apart; e' and E' stand for a small and a capital e with an accent.      *)
(***************************************************************************)
EXTENDS Naturals, Sequences, TLC

LOCAL LowerCase == ("A" :> "a") @@ ("%C3%89" :> "%c3%89") @@ ("E'" :> "e'") @@ ("bySlug" :> "byslug") @@ ("X-B" :> "x-b")
Lower(t) == IF t \in DOMAIN LowerCase THEN LowerCase[t] ELSE t
Lowered(segment) == [i \in DOMAIN segment |-> Lower(segment[i])]

\* Encoded as UTF-8; lower-cased, as the whole pattern will be.
LOCAL Percent == ("e'" :> "%c3%a9") @@ ("E'" :> "%c3%89") @@ (" " :> "%20")
                 @@ ("?" :> "%3f") @@ ("|" :> "%7c")
\* Printable, and neither PATH_LITERAL nor "#" or "?".
LOCAL SentEitherWay == {"|"}

\* paramToPattern: what one character of a value matches.
LoweredFirst(c) == IF Lower(c) \in DOMAIN Percent THEN {Percent[Lower(c)]} ELSE {Lower(c)}
CharPattern(c) ==
    IF c \in SentEitherWay THEN {c, Percent[c]}
    ELSE IF c \in DOMAIN Percent THEN {Percent[c]}
    ELSE {Lower(c)}

\* The path of a route: literals, and parameters with a modifier ("", "?",
\* "+" or "*") and a constraint (the segments it accepts, or {} for none).
Literal(word) == [name |-> word, param |-> FALSE, mod |-> "", accepts |-> {}]
Param(name, mod, accepts) == [name |-> name, param |-> TRUE, mod |-> mod, accepts |-> accepts]
ParamNames(path) == {path[i].name : i \in {j \in DOMAIN path : path[j].param}}

\* wildcardFor: `?` and `*` match the bare path, `+` and `*` span segments.
OneSegment(seg, n) == n = 1 \/ (n = 0 /\ seg.mod \in {"?", "*"})
Spans(seg, n) ==
    \/ n = 1
    \/ n = 0 /\ seg.mod \in {"?", "*"}
    \/ n > 1 /\ seg.mod \in {"+", "*"}
Accepts(seg, segment) == seg.accepts = {} \/ segment \in seg.accepts

FitsWildcard(seg, part) ==
    IF seg.param THEN Spans(seg, Len(part)) /\ \A i \in DOMAIN part : Accepts(seg, part[i])
    ELSE part = << <<Lower(seg.name)>> >>

\* A value is a sequence of segments: a "/" in it is kept.  An empty one is
\* the bare path where the parameter is optional, and else matches nothing.
FitsValue(seg, part, value) ==
    IF value = <<>> THEN part = <<>> /\ seg.mod \in {"?", "*"}
    ELSE /\ Len(part) = Len(value)
         /\ \A i \in DOMAIN part :
               /\ Len(part[i]) = Len(value[i])
               /\ \A j \in DOMAIN part[i] : part[i][j] \in CharPattern(value[i][j])

\* The ways to split a path of n segments over m route segments.
Cuts(m, n) ==
    {c \in [0 .. m -> 0 .. n] :
        c[0] = 0 /\ c[m] = n /\ \A i \in 1 .. m : c[i - 1] <= c[i]}
Fits(path, key, Fit(_, _)) ==
    \E c \in Cuts(Len(path), Len(key)) :
        \A i \in DOMAIN path : Fit(path[i], SubSeq(key, c[i - 1] + 1, c[i]))

\* Does the purge of a route, given these parameters, match this key's path?
\* A parameter that was not given leaves the route out.
Guessed(path, params) == FALSE
Unresolved(path, params) == ~(ParamNames(path) \subseteq DOMAIN params)
getRouteRegExp(path, params, wildcard, key) ==
    IF wildcard \/ ParamNames(path) = {} THEN Fits(path, key, FitsWildcard)
    ELSE /\ ~Unresolved(path, params)
         /\ Fits(path, key, LAMBDA seg, part :
                IF seg.param /\ seg.name \in DOMAIN params
                THEN FitsValue(seg, part, params[seg.name])
                ELSE FitsWildcard(seg, part))

=============================================================================
