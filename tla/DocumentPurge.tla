---------------------------- MODULE DocumentPurge ----------------------------
(***************************************************************************)
(* Who purges what after a write.                                          *)
(*                                                                         *)
(* A write reaches the cache through one of three hooks:                   *)
(*  - the document service middleware                                      *)
(*    (registerDocumentServiceMiddleware.ts), around strapi.documents();   *)
(*  - the database lifecycles (registerDatabaseLifecyclePurge.ts), after   *)
(*    each row written, which ignore a row of a type the document service  *)
(*    is writing on the same async call chain;                             *)
(*  - with enableDocumentServiceMiddleware off, the middlewares purge.ts   *)
(*    and purgeAdmin.ts around the routes (injectMiddlewares.ts).          *)
(*                                                                         *)
(* A call chain runs code that may write, nest writes (a lifecycle hook    *)
(* that writes another type) and start code it does not await.  What the   *)
(* AsyncLocalStorage holds is `scope`: the types being written by the      *)
(* document service on the chain.  How a purge races the reads is the      *)
(* business of RestCache; here a purge is the set of entries it matches.   *)
(***************************************************************************)
EXTENDS Naturals, Sequences

CONSTANTS
    Chains,         \* slots for concurrent call chains
    Types,          \* content types
    Cached,         \* those that are configured for caching
    PluginTypes,    \* those whose uid starts with `plugin::`
    Docs,           \* documents of a type
    Related,        \* per type: cacheConf.relatedContentTypeUid
    Shown,          \* per type: the types whose responses can contain it
    Flags,          \* the values strategy.clearRelatedCache can have
    Modes,          \* which hooks: "service", "routes"
    MaxDepth,       \* bound: nested document service writes
    MaxFaults,      \* bound: failed purges
    None            \* no document, no type

ASSUME TypesAssumption ==
    /\ Cached \subseteq Types /\ PluginTypes \subseteq Types
    /\ Modes \subseteq {"service", "routes"}
    /\ Flags \subseteq BOOLEAN
    /\ MaxDepth \in Nat /\ MaxFaults \in Nat
    /\ None \notin Types \union Docs
\* Both are getRelatedModelsUid, Shown without the private attributes.
ASSUME RelatedAssumption ==
    /\ Related \in [Types -> SUBSET Types]
    /\ Shown \in [Types -> SUBSET Types]
    /\ \A t \in Types : {t} \union Shown[t] \subseteq Related[t]

Parts == Docs \union {None}
\* An entry: of a type's collection route (None), or of one of its documents.
Entries == Cached \X Parts
\* A write under way; `doc` is the document its purge can name, None where it
\* names none (a creation, a bulk action), `before` what was pending when it
\* began.
Frame == [uid : Types, doc : Parts, scope : SUBSET Types,
          phase : {"writing", "purging"}, before : SUBSET Entries]

VARIABLES
    mode,           \* the hooks in use; never changes
    clearRelated,   \* strategy.clearRelatedCache; never changes
    active,         \* per chain: whether it runs
    inherited,      \* per chain: the scope it was started in
    stack,          \* per chain: its writes under way, the innermost last
    event,          \* per chain: the type whose database event it is purging
    pending,        \* per chain: entries it outdated and nothing purged since
    failed,         \* per chain: why its request failed
    faults          \* purges that failed so far

settings == <<mode, clearRelated>>
vars == <<settings, active, inherited, stack, event, pending, failed, faults>>

Init ==
    /\ mode \in Modes
    /\ clearRelated \in Flags
    /\ active = [c \in Chains |-> FALSE]
    /\ inherited = [c \in Chains |-> {}]
    /\ stack = [c \in Chains |-> <<>>]
    /\ event = [c \in Chains |-> None]
    /\ pending = [c \in Chains |-> {}]
    /\ failed = [c \in Chains |-> "no"]
    /\ faults = 0

-----------------------------------------------------------------------------
\* What a write outdates and what a purge matches.  With clearRelatedCache off
\* only the entries of the written type are promised.

Wildcard(t) == {t} \X Parts
Unfiltered(types) == UNION {Wildcard(t) : t \in types}
WildcardsOf(types) == UNION {Wildcard(t) : t \in types \intersect Cached}
\* The routes whose parameters { id: d } fills in.
Targeted(t, d) == {<<t, None>>, <<t, d>>}
\* A plugin's routes are keyed by a numeric id, not by the documentId.
ByDocumentId(t, d) == IF t \in PluginTypes THEN {<<t, None>>} ELSE Targeted(t, d)

Outdates(t, d) ==
    (IF t \in Cached THEN Targeted(t, d) ELSE {})
        \union (IF clearRelated THEN WildcardsOf(Shown[t]) ELSE {})

\* clearByUid, of a purge that matches `own` of the type itself.
ClearByUid(t, own) == own \union IF clearRelated THEN WildcardsOf(Related[t]) ELSE {}

\* What the purge after the write f matches.
Embedding(f) == IF clearRelated THEN WildcardsOf(Shown[f.uid] \ {f.uid}) ELSE {}
Matches(f) ==
    IF f.uid \notin Cached THEN Embedding(f)
    ELSE ClearByUid(f.uid, IF mode = "routes" THEN Targeted(f.uid, f.doc)
                           ELSE IF f.doc = None THEN Wildcard(f.uid)
                           ELSE ByDocumentId(f.uid, f.doc))
EventMatches(t) == ClearByUid(t, Wildcard(t))

-----------------------------------------------------------------------------
\* The call chain.

Top(c) == stack[c][Len(stack[c])]
Push(c, f) == stack' = [stack EXCEPT ![c] = Append(@, f)]
Pop(c) == stack' = [stack EXCEPT ![c] = SubSeq(@, 1, Len(@) - 1)]
SetTop(c, f) == stack' = [stack EXCEPT ![c][Len(stack[c])] = f]

\* Application code runs on c: nothing it called is still purging.
Running(c) ==
    /\ active[c] /\ event[c] = None
    /\ stack[c] # <<>> => Top(c).phase = "writing"

\* documentServiceWrites.getStore(), in the code running on c.
Scope(c) == IF stack[c] = <<>> THEN inherited[c] ELSE Top(c).scope
\* isDocumentServiceWriteInProgress
AnyInProgress(c, t) == Scope(c) # {}
InProgress(c, t) == t \in Scope(c)
OwnScope(c, t) == {t}
InnerScope(c, t) == Scope(c) \union {t}

\* A row of type t was written on c.
Written(c, t, d) == pending' = [pending EXCEPT ![c] = @ \union Outdates(t, d)]
\* The database event of that row: purged, or left to the write in progress.
Event(c, t) ==
    event' = [event EXCEPT ![c] =
        IF mode = "service" /\ t \in Cached \intersect PluginTypes /\ ~InProgress(c, t)
        THEN t ELSE None]

\* Code starts on c, for a request, a timer or a job, or because code running
\* in a document service write started it without awaiting it: then it has
\* inherited the storage, and keeps it when that write is long over.
Arrive(c, scope) ==
    /\ ~active[c]
    /\ mode = "routes" => scope = {}
    /\ active' = [active EXCEPT ![c] = TRUE]
    /\ inherited' = [inherited EXCEPT ![c] = scope]
    /\ UNCHANGED <<settings, stack, event, pending, failed, faults>>

\* A call of the document service, or of a route with a purge middleware
\* (those are only injected for cached types and do not nest).
Write(c, t, d) ==
    /\ Running(c) /\ Len(stack[c]) < MaxDepth
    /\ mode = "routes" => t \in Cached /\ stack[c] = <<>> /\ failed[c] = "no"
    /\ Push(c, [uid |-> t, doc |-> d, phase |-> "writing", before |-> pending[c],
                scope |-> IF mode = "service" THEN InnerScope(c, t) ELSE {}])
    /\ UNCHANGED <<settings, active, inherited, event, pending, failed, faults>>

\* The write's own rows (draft, published version, each locale; of several
\* documents in a bulk action).
Row(c, d) ==
    /\ Running(c) /\ stack[c] # <<>>
    /\ Top(c).doc \in {d, None}
    /\ Written(c, Top(c).uid, d)
    /\ Event(c, Top(c).uid)
    /\ UNCHANGED <<settings, active, inherited, stack, failed, faults>>

\* strapi.db.query, of a type whose writes are observed.  (A call that
\* touched no row changes nothing and is not purged.)
RawWrite(c, t, d) ==
    /\ Running(c) /\ mode = "service"
    /\ t \in Cached \intersect PluginTypes
    /\ Written(c, t, d)
    /\ Event(c, t)
    /\ UNCHANGED <<settings, active, inherited, stack, failed, faults>>

\* The write itself fails, and is not purged.  The document service runs it
\* in a transaction, which undoes what was written meanwhile; a route's
\* handler may have written before it failed.
Fail(c) ==
    /\ Running(c) /\ stack[c] # <<>>
    /\ Pop(c)
    /\ IF mode = "service"
       THEN /\ pending' = [pending EXCEPT ![c] = @ \intersect Top(c).before]
            /\ UNCHANGED failed
       ELSE /\ failed' = [failed EXCEPT ![c] = "write"]
            /\ UNCHANGED pending
    /\ UNCHANGED <<settings, active, inherited, event, faults>>

\* The write's `next()` resolves.  An uncached type that nothing cached
\* embeds is not purged.
Unpurged(f) == f.uid \notin Cached /\ Matches(f) = {}
Resolve(c) ==
    /\ Running(c) /\ stack[c] # <<>>
    /\ IF Unpurged(Top(c)) THEN Pop(c)
                           ELSE SetTop(c, [Top(c) EXCEPT !.phase = "purging"])
    /\ UNCHANGED <<settings, active, inherited, event, pending, failed, faults>>

\* The awaited purge is over, and the write returns.
Purged(c) ==
    /\ stack[c] # <<>> /\ Top(c).phase = "purging"
    /\ pending' = [pending EXCEPT ![c] = @ \ Matches(Top(c))]
    /\ Pop(c)
    /\ UNCHANGED <<settings, active, inherited, event, failed, faults>>

EventPurged(c) ==
    /\ event[c] # None
    /\ pending' = [pending EXCEPT ![c] = @ \ EventMatches(event[c])]
    /\ event' = [event EXCEPT ![c] = None]
    /\ UNCHANGED <<settings, active, inherited, stack, failed, faults>>

\* The purge fails: delMany swallows its error; keys() does not, and only
\* the document service catches what clearByUid throws.
PurgeFails(c, rejects) ==
    /\ stack[c] # <<>> /\ Top(c).phase = "purging" /\ faults < MaxFaults
    /\ faults' = faults + 1
    /\ Pop(c)
    /\ failed' = [failed EXCEPT ![c] = IF rejects /\ mode = "routes" THEN "purge" ELSE @]
    /\ UNCHANGED <<settings, active, inherited, event, pending>>

EventPurgeFails(c) ==
    /\ event[c] # None /\ faults < MaxFaults
    /\ faults' = faults + 1
    /\ event' = [event EXCEPT ![c] = None]
    /\ UNCHANGED <<settings, active, inherited, stack, pending, failed>>

End(c) ==
    /\ Running(c) /\ stack[c] = <<>>
    /\ active' = [active EXCEPT ![c] = FALSE]
    /\ inherited' = [inherited EXCEPT ![c] = {}]
    /\ pending' = [pending EXCEPT ![c] = {}]
    /\ failed' = [failed EXCEPT ![c] = "no"]
    /\ UNCHANGED <<settings, stack, event, faults>>

Chain(c) ==
    \/ Fail(c) \/ Resolve(c) \/ Purged(c) \/ EventPurged(c)
    \/ EventPurgeFails(c) \/ End(c)
    \/ \E d \in Parts : Row(c, d)
    \/ \E t \in Types, d \in Parts : Write(c, t, d) \/ RawWrite(c, t, d)
    \/ \E rejects \in BOOLEAN : PurgeFails(c, rejects)
    \/ \E scope \in SUBSET Types : Arrive(c, scope)

Next == \E c \in Chains : Chain(c)

Spec == Init /\ [][Next]_vars

-----------------------------------------------------------------------------

TypeOK ==
    /\ mode \in Modes
    /\ clearRelated \in BOOLEAN
    /\ active \in [Chains -> BOOLEAN]
    /\ inherited \in [Chains -> SUBSET Types]
    /\ stack \in [Chains -> Seq(Frame)]
    /\ \A c \in Chains : Len(stack[c]) <= MaxDepth
    /\ event \in [Chains -> Types \union {None}]
    /\ pending \in [Chains -> SUBSET Entries]
    /\ failed \in [Chains -> {"no", "write", "purge"}]
    /\ faults \in 0 .. MaxFaults

\* What the purges under way or to come on the chain will match.
Owed(c) ==
    (UNION {Matches(stack[c][i]) : i \in DOMAIN stack[c]})
        \union IF event[c] = None THEN {} ELSE EventMatches(event[c])

\* What is not purged.  With clearRelatedCache off, as documented: the entries
\* of a plugin's documents, which no documentId names, and those of documents
\* a route writes without naming them (docs/guide/invalidation/index.md, "Why
\* purges look wider").  And what code outdated that was started inside a write
\* of the same type and not awaited.
Unnamed == (IF mode = "routes" THEN Cached ELSE PluginTypes) \X Docs
Excused(c) ==
    (IF clearRelated THEN {} ELSE Unnamed)
        \union UNION {Outdates(t, d) : t \in inherited[c], d \in Parts}

(* Every write is purged before it returns: what a chain has outdated and   *)
(* not purged yet is matched by a purge that one of its own unfinished      *)
(* calls will make, so nothing is left when the outermost of them returns,  *)
(* however writes, nested writes and raw writes of plugin types are mixed   *)
(* (registerDocumentServiceMiddleware.ts, "purge before returning";         *)
(* registerDatabaseLifecyclePurge.ts, the events it leaves to the write in  *)
(* progress).                                                               *)
EachWriteIsPurged ==
    faults = 0 => \A c \in Chains : failed[c] = "no" =>
        pending[c] \subseteq Owed(c) \union Excused(c)

(* A document service write is purged once: the database events on its own  *)
(* call chain do not purge its type again, however deep the nesting         *)
(* (registerDatabaseLifecyclePurge.ts, the check of the write in progress). *)
PurgedOnce ==
    \A c \in Chains : event[c] # None =>
        \A i \in DOMAIN stack[c] : stack[c][i].uid # event[c]

(* What the documentation says of every mode: a failed purge never fails    *)
(* the write (docs/guide/invalidation/index.md, "Timing and failure").      *)
FailedPurgeNeverFailsWrite == \A c \in Chains : failed[c] # "purge"

=============================================================================
