---------------------------- MODULE RelatedTypes ----------------------------
(***************************************************************************)
(* getRelatedModelsUid: which content types may show a content type in     *)
(* their responses, and so must be purged when it changes.                 *)
(*                                                                         *)
(* The code repeats a pass over the whole schema, components first, until  *)
(* a pass adds nothing.  An action is one model visited, or the decision   *)
(* at the end of a pass; the two sets of uids are the one set `known`.     *)
(***************************************************************************)
EXTENDS Naturals, FiniteSets

CONSTANTS
    Types,          \* strapi.contentTypes
    Components,     \* strapi.components
    NoUid           \* no traversal under way

Models == Types \union Components
Attribute == [kind : {"relation", "component", "dynamiczone"},
              targets : SUBSET Models, private : BOOLEAN]

ASSUME ModelsAssumption == Types \intersect Components = {} /\ NoUid \notin Models
ASSUME FiniteAssumption == IsFiniteSet(Models)

VARIABLES
    schema,         \* per model: its attributes
    uid, ignorePrivate,     \* the arguments of the call under way
    known,          \* contentTypeUids and componentUids
    todo,           \* models the pass has yet to visit
    knownBefore,    \* how many were known when the pass began
    related         \* per content type: what the last call returned, or {}

callVars == <<uid, ignorePrivate, known, todo, knownBefore>>
relatedVars == <<schema, callVars, related>>

\* What strapi accepts: relations point at types, the others at components.
WellFormed(attributes) ==
    \A m \in Models : \A a \in attributes[m] :
        a.targets \subseteq (IF a.kind = "relation" THEN Types ELSE Components)

NoCall ==
    /\ uid = NoUid /\ ignorePrivate = FALSE
    /\ known = {} /\ todo = {} /\ knownBefore = 0

RelatedInit ==
    /\ NoCall
    /\ related = [t \in Types |-> {}]

-----------------------------------------------------------------------------

\* Does the attribute reach something already known to be related?
reachesKnown(a) ==
    /\ ~(ignorePrivate /\ a.private)
    /\ a.targets \intersect known # {}

Call(t, skipPrivate) ==
    /\ uid = NoUid
    /\ uid' = t
    /\ ignorePrivate' = skipPrivate
    /\ known' = {t}
    /\ todo' = Models
    /\ knownBefore' = 1
    /\ UNCHANGED <<schema, related>>

Visit(m) ==
    /\ m \in todo
    /\ m \in Types => todo \intersect Components = {}
    /\ todo' = todo \ {m}
    /\ known' = IF \E a \in schema[m] : reachesKnown(a) THEN known \union {m} ELSE known
    /\ UNCHANGED <<schema, uid, ignorePrivate, knownBefore, related>>

\* The pass added nothing.
AfterOnePass == TRUE
NothingNew == Cardinality(known) = knownBefore

NextPass ==
    /\ uid # NoUid /\ todo = {}
    /\ ~NothingNew
    /\ todo' = Models
    /\ knownBefore' = Cardinality(known)
    /\ UNCHANGED <<schema, uid, ignorePrivate, known, related>>

Answer ==
    /\ uid # NoUid /\ todo = {}
    /\ NothingNew
    /\ related' = [related EXCEPT ![uid] = known \intersect Types]
    /\ uid' = NoUid /\ ignorePrivate' = FALSE
    /\ known' = {} /\ todo' = {} /\ knownBefore' = 0
    /\ UNCHANGED schema

Traverse == (\E m \in Models : Visit(m)) \/ NextPass \/ Answer

RelatedNext == Traverse \/ \E t \in Types, p \in BOOLEAN : Call(t, p)

RelatedSpec ==
    /\ schema \in [Models -> SUBSET Attribute] /\ WellFormed(schema)
    /\ RelatedInit
    /\ [][RelatedNext]_relatedVars

-----------------------------------------------------------------------------

RelatedTypeOK ==
    /\ schema \in [Models -> SUBSET Attribute]
    /\ uid \in Types \union {NoUid}
    /\ ignorePrivate \in BOOLEAN
    /\ known \in SUBSET Models
    /\ todo \in SUBSET Models
    /\ knownBefore \in Nat
    /\ related \in [Types -> SUBSET Types]

\* S holds everything that shows, at any depth, something in S.
Closed(S, skipPrivate) ==
    \A m \in Models :
        (\E a \in schema[m] : ~(skipPrivate /\ a.private) /\ a.targets \intersect S # {})
            => m \in S

\* The content types that show t, through any chain of components, dynamic
\* zones and relations: those in every closed set that holds t.
Showing(t, skipPrivate) ==
    {s \in Types : \A S \in SUBSET Models : (t \in S /\ Closed(S, skipPrivate)) => s \in S}

(* A traversal answers exactly the content types that can show the one it   *)
(* is about: none is missed however deep the components nest, so none is    *)
(* left stale, and none is added (getRelatedModelsUid.ts, "the loop ends    *)
(* when a full round adds nothing").                                        *)
RelatedExact ==
    [][\A t \in Types :
            (uid = t /\ uid' = NoUid) => related'[t] = Showing(t, ignorePrivate)]_relatedVars

=============================================================================
