----------------------------- MODULE AdminQuery -----------------------------
(***************************************************************************)
(* The admin panel: one browser tab, its cache of the plugin's endpoints   *)
(* (services/restCache.ts), the components that subscribe to it and purge, *)
(* and the server's side of their requests.                                *)
(*                                                                         *)
(* A component shows what it found when it was rendered (`view`).  Effects *)
(* come in a task after the render: they subscribe the component and ask   *)
(* for what is missing, for the render's version and `enabled` (`ran`).    *)
(* The host's fetch client may reject any request, and the server may      *)
(* apply a purge whose request rejects.                                    *)
(***************************************************************************)
EXTENDS Naturals, FiniteSets

CONSTANTS
    Types,              \* content types
    Cached,             \* those of the strategy
    Singles,            \* those that are single types
    Related,            \* per type: the types whose responses may hold one of its
    Documents,          \* per documentId: its scalar fields and relations
    Object,             \* a field's value that is no string and no number
    Entries,            \* cache entries, [type, param, value]
    Visited,            \* the pages visited
    Permissions,        \* the permissions an admin may hold
    Flags,              \* the values of clearRelatedCache considered
    MaxPurges,          \* bound: purges confirmed
    MaxFaults,          \* bound: requests that fail for no reason of the server
    Undefined

ASSUME CachedAssumption == Cached \subseteq Types /\ Singles \subseteq Types
ASSUME LimitsAssumption == MaxPurges \in Nat /\ MaxFaults \in Nat /\ Flags \subseteq BOOLEAN
\* What a key is told apart by is a scalar field that every document has, or
\* nothing, for a route without parameters.
ASSUME EntriesAssumption ==
    \A d \in DOMAIN Documents :
        /\ "id" \in DOMAIN Documents[d] /\ Documents[d].id # Object
        /\ \A s \in Entries : s.param # Undefined =>
              s.param \in DOMAIN Documents[d] /\ s.value # Object
ASSUME UndefinedAssumption ==
    Undefined \notin Types \union {"status 403", "response.status 403", "failed"}
                    \union [uids : SUBSET Types, held : SUBSET {s.type : s \in Entries}]

VARIABLES
    entry,              \* per endpoint: data, error, promise, version
    view,               \* per component: the entries as its last render found them
    ran,                \* per component: what its effects last ran for
    due,                \* components to be rendered: new ones, and by setState
    requests,           \* GETs on their way
    page,               \* the page shown, [name, model, documentId]
    button, table,      \* the state of PurgeCacheButton and of ContentTypeTable
    purges,             \* POSTs on their way
    confirmed,          \* how many there have been
    permissions,        \* what this admin may do
    clearRelated,       \* strategy.clearRelatedCache
    stored,             \* the server's cache entries
    faults

components == <<view, ran>>
settings == <<permissions, clearRelated>>
vars == <<entry, components, due, requests, page, button, table, purges, confirmed,
          settings, stored, faults>>

STRATEGY_KEY == "config/strategy"
STATS_KEY == "stats"
PURGEABLE_KEY == "purge/content-types"
Endpoints == {STRATEGY_KEY, STATS_KEY, PURGEABLE_KEY}

\* The components that use an endpoint: CacheOverview, SettingsPage,
\* PurgeCacheButton, PurgeDocumentAction and EditViewInfoDocumentPanel.
Components == {"widget", "settings", "button", "action", "panel"}
Uses(c) == IF c \in {"widget", "settings"} THEN {STATS_KEY} ELSE {STRATEGY_KEY, PURGEABLE_KEY}
ComponentsOf(p) ==
    CASE p.name = "home" -> {"widget"}
      [] p.name = "settings" -> {"settings"}
      [] p.name = "list" -> {"button"}
      [] p.name = "edit" -> {"action", "panel"}
Pages ==
    [name : {"home", "settings"}, model : {Undefined}, documentId : {Undefined}]
    \union [name : {"list"}, model : Types, documentId : {Undefined}]
    \union [name : {"edit"}, model : Types, documentId : DOMAIN Documents \union {Undefined}]

ASSUME VisitedAssumption == Visited \subseteq Pages

NotRendered == [e \in {} |-> e]
NotRun == [e \in {} |-> e]
Idle == [isLoading |-> FALSE, open |-> FALSE]
Closed == [isLoading |-> FALSE, pendingUid |-> Undefined]

Init ==
    /\ entry = [e \in Endpoints |->
                  [data |-> Undefined, error |-> Undefined, promise |-> FALSE, version |-> 0]]
    /\ view = [c \in Components |-> NotRendered]
    /\ ran = [c \in Components |-> NotRun]
    /\ requests = {}
    /\ page \in {p \in Visited : p.name = "home"}
    /\ due = ComponentsOf(page)
    /\ button = Idle /\ table = Closed
    /\ purges = {} /\ confirmed = 0
    /\ permissions \in Permissions /\ clearRelated \in Flags
    /\ stored = Entries
    /\ faults = 0

-----------------------------------------------------------------------------
\* services/restCache.ts, as a component's render sees it.

\* A 403 on the error's status, or on its response's.
OnResponse(error) == error = "response.status 403"
isForbidden(error) == error \in {"status 403", "response.status 403"}

Snapshot(e) == [data |-> entry[e].data, error |-> entry[e].error, version |-> entry[e].version]
Mounted(c) == view[c] # NotRendered
isLoading(c, e) == view[c][e].data = Undefined /\ view[c][e].error = Undefined

\* The fallback is asked only after a 403.
Enabled(c, e) == e = PURGEABLE_KEY => isForbidden(view[c][STRATEGY_KEY].error)

\* Uids a purge is offered for; a request not yet answered offers none.
AnyUid(c) == Types
PurgeableContentTypes(c) ==
    LET data == IF view[c][STRATEGY_KEY].data # Undefined THEN view[c][STRATEGY_KEY].data
                ELSE view[c][PURGEABLE_KEY].data
    IN  IF data = Undefined THEN {} ELSE data.uids

\* Effects run again when the version or `enabled` of the render has changed.
Dependencies(c, e) == [version |-> view[c][e].version, enabled |-> Enabled(c, e)]
Changed(c) == {e \in DOMAIN view[c] : e \notin DOMAIN ran[c] \/ ran[c][e] # Dependencies(c, e)}
EffectsPending == {c \in Components : Changed(c) # {}}

\* SettingsPage; its own isForbidden looks at the response alone.  The table
\* is there once there is data and no error.
SettingsShows(stats) ==
    CASE stats.data = Undefined /\ stats.error = Undefined -> "loading"
      [] OnResponse(stats.error) -> "no permissions"
      [] stats.error # Undefined /\ ~OnResponse(stats.error) -> "error"
      [] OTHER -> "table"
TableMounted == Mounted("settings") /\ SettingsShows(view["settings"][STATS_KEY]) = "table"

\* A component that goes takes its state along; its purges go on without it.
Unmounted(ps, by) == {IF p.by \in by THEN [p EXCEPT !.live = FALSE] ELSE p : p \in ps}

\* Components of the page are rendered: all that are due, and others along
\* with a parent.  What an earlier render left to its effects runs first.
Render(cs) ==
    /\ EffectsPending = {}
    /\ cs # {} /\ due \subseteq cs /\ cs \subseteq ComponentsOf(page)
    /\ view' = [c \in Components |-> IF c \in cs THEN [e \in Uses(c) |-> Snapshot(e)] ELSE view[c]]
    /\ due' = due \ cs
    /\ table' = IF TableMounted' THEN table ELSE Closed
    /\ purges' = IF TableMounted' THEN purges ELSE Unmounted(purges, {"table"})
    /\ UNCHANGED <<entry, ran, requests, page, button, confirmed, settings, stored, faults>>

-----------------------------------------------------------------------------
\* services/restCache.ts: effects, answers and invalidation.

\* Whether an effect finds something to ask for: the entry is read as it is
\* now, with the promise an effect before it may have left.
UnlessAnswered(e, promised) == entry[e].data = Undefined /\ entry[e].error = Undefined
Missing(e, promised) == UnlessAnswered(e, promised) /\ ~entry[e].promise /\ ~promised

\* All pending effects run in one go, those of the header's action before
\* those of the side panel.  Both effects of useEndpoint: from here on the
\* component's listener is registered.
Before(c, d) == c = "action" /\ d = "panel"
Effects ==
    LET wanted == {w \in EffectsPending \X Endpoints :
                     w[2] \in Changed(w[1]) /\ Enabled(w[1], w[2])} IN
    /\ EffectsPending # {}
    /\ ran' = [c \in Components |-> IF c \in EffectsPending
                                    THEN [e \in DOMAIN view[c] |-> Dependencies(c, e)] ELSE ran[c]]
    /\ \E asking \in SUBSET wanted :
          /\ \A w \in wanted :
                w \in asking <=>
                    Missing(w[2], \E v \in asking : v[2] = w[2] /\ Before(v[1], w[1]))
          /\ entry' = [e \in Endpoints |-> IF \E w \in asking : w[2] = e
                                           THEN [entry[e] EXCEPT !.promise = TRUE] ELSE entry[e]]
          /\ requests' = requests \union
                 {[endpoint |-> w[2], version |-> entry[w[2]].version, by |-> w[1]] : w \in asking}
    /\ UNCHANGED <<view, due, page, button, table, purges, confirmed, settings, stored, faults>>

\* notify: a listener makes its component render again, whatever has changed.
\* A counter taken from entry.version would not when an answer arrives.
Counters(e) == {c \in Components : e \in DOMAIN ran[c] /\ view[c][e].version # entry'[e].version}
Listeners(e) == {c \in Components : e \in DOMAIN ran[c]}

\* invalidateCache: the data goes, and the version makes effects run.
Cleared(old) == [old EXCEPT !.data = Undefined, !.error = Undefined, !.promise = FALSE]
Invalidated(old) == [Cleared(old) EXCEPT !.version = @ + 1]

\* The server's answer, by the policy of the route.
MayPurge == "purge" \in permissions
Allowed(e) == IF e = PURGEABLE_KEY THEN MayPurge ELSE "read-strategy" \in permissions
summary == [uids |-> Cached, held |-> {s.type : s \in stored}]
Body(e) == IF e = STATS_KEY THEN summary ELSE [uids |-> Cached, held |-> {}]

\* .then, .catch and .finally: whatever the request, its endpoint's entry.
Answer(r) ==
    /\ r \in requests
    /\ requests' = requests \ {r}
    /\ \/ /\ Allowed(r.endpoint)
          /\ entry' = [entry EXCEPT ![r.endpoint].data = Body(r.endpoint),
                                    ![r.endpoint].error = Undefined,
                                    ![r.endpoint].promise = FALSE]
          /\ UNCHANGED faults
       \/ \E error \in {"status 403", "response.status 403"} :
             /\ ~Allowed(r.endpoint)
             /\ entry' = [entry EXCEPT ![r.endpoint].error = error, ![r.endpoint].promise = FALSE]
             /\ UNCHANGED faults
       \/ /\ faults < MaxFaults /\ faults' = faults + 1
          /\ entry' = [entry EXCEPT ![r.endpoint].error = "failed", ![r.endpoint].promise = FALSE]
    /\ due' = due \union Listeners(r.endpoint)
    /\ UNCHANGED <<components, page, button, table, purges, confirmed, settings, stored>>

-----------------------------------------------------------------------------
\* The pages.

Navigate(p) ==
    /\ EffectsPending = {}
    /\ p \in Visited /\ p # page
    /\ page' = p
    /\ view' = [c \in Components |-> NotRendered]
    /\ ran' = [c \in Components |-> NotRun]
    /\ due' = ComponentsOf(p)
    /\ button' = Idle /\ table' = Closed
    /\ purges' = Unmounted(purges, {"button", "table"})
    /\ UNCHANGED <<entry, requests, confirmed, settings, stored, faults>>

Post(by, uid, params, wildcard) ==
    /\ confirmed < MaxPurges /\ confirmed' = confirmed + 1
    /\ purges' = purges \union {[by |-> by, contentType |-> uid, params |-> params,
                                 wildcard |-> wildcard, document |-> page.documentId,
                                 n |-> confirmed, live |-> TRUE, status |-> "sent"]}

\* PurgeCacheButton on the list view, a wildcard; hidden unless it is offered.
\* A change of its own state renders it again.
ButtonShown == Mounted("button") /\ page.model \in PurgeableContentTypes("button")
ToggleButton(open) ==
    /\ ButtonShown
    /\ button.open # open
    /\ button' = [button EXCEPT !.open = open]
    /\ due' = due \union {"button"}
    /\ UNCHANGED <<entry, components, requests, page, table, purges, confirmed, settings, stored, faults>>
ConfirmButton ==
    /\ ButtonShown /\ button.open /\ ~button.isLoading
    /\ button' = [button EXCEPT !.isLoading = TRUE]
    /\ due' = due \union {"button"}
    /\ Post("button", page.model, [n \in {} |-> n], TRUE)
    /\ UNCHANGED <<entry, components, requests, page, table, settings, stored, faults>>

\* ContentTypeTable: one dialog at a time and one loading state for all rows.
ToggleRow(uid) ==
    /\ TableMounted
    /\ LET stats == view["settings"][STATS_KEY].data IN
       /\ uid \in stats.uids
       /\ table.pendingUid = Undefined => uid \in stats.held
    /\ table.pendingUid \in {Undefined, uid}
    /\ table' = [table EXCEPT !.pendingUid = IF @ = uid THEN Undefined ELSE uid]
    /\ UNCHANGED <<entry, components, due, requests, page, button, purges, confirmed, settings,
                   stored, faults>>
ConfirmRow(uid) ==
    /\ TableMounted /\ table.pendingUid = uid /\ ~table.isLoading
    /\ table' = [table EXCEPT !.isLoading = TRUE]
    /\ Post("table", uid, [n \in {} |-> n], TRUE)
    /\ UNCHANGED <<entry, components, due, requests, page, button, settings, stored, faults>>

\* useCachedDocument: the scalars of a document, and its documentId for `id`.
toPurgeParams(values) == [n \in {f \in DOMAIN values : values[f] # Object} |-> values[n]]
RowParams(documentId) == toPurgeParams(Documents[documentId])
toEntryParams(documentId) == [toPurgeParams(Documents[documentId]) EXCEPT !["id"] = documentId]
isEligible(c) ==
    /\ Mounted(c) /\ page.documentId # Undefined
    /\ page.model \in PurgeableContentTypes(c)

\* PurgeDocumentAction: its dialog is the content-manager's.
ConfirmAction ==
    /\ isEligible("action")
    /\ LET single == page.model \in Singles IN
       Post("action", page.model,
            IF single THEN [n \in {} |-> n] ELSE toEntryParams(page.documentId), single)
    /\ UNCHANGED <<entry, components, due, requests, page, button, table, settings, stored, faults>>

\* EditViewInfoDocumentPanel.
PanelShown == isEligible("panel") /\ view["panel"][STRATEGY_KEY].data # Undefined

-----------------------------------------------------------------------------
\* POST /purge: the policy, the controller, and then the answer.

\* The routes of the type whose parameters the purge fills in: those without
\* any always, all of them for a wildcard.
Matched(p) ==
    {s \in stored : s.type = p.contentType
                    /\ \/ p.wildcard \/ s.param = Undefined
                       \/ s.param \in DOMAIN p.params /\ s.value = p.params[s.param]}
\* clearByUid: and every route of the cached types related to it.
Purged(p) ==
    Matched(p) \union
        IF clearRelated THEN {s \in stored : s.type \in Related[p.contentType] \intersect Cached}
        ELSE {}
Serve(p) ==
    /\ p \in purges /\ p.status = "sent"
    /\ LET accepted == MayPurge /\ p.contentType \in Cached IN
       /\ stored' = IF accepted THEN stored \ Purged(p) ELSE stored
       /\ purges' = (purges \ {p})
                    \union {[p EXCEPT !.status = IF accepted THEN "done" ELSE "refused"]}
    /\ UNCHANGED <<entry, components, due, requests, page, button, table, confirmed, settings, faults>>

\* Counts change, configuration does not.  The state is reset either way.
Settled(p, success) ==
    /\ entry' = IF success THEN [entry EXCEPT ![STATS_KEY] = Invalidated(@)] ELSE entry
    /\ due' = due \union (IF success THEN Listeners(STATS_KEY) ELSE {})
                  \union (IF p.by = "button" /\ p.live THEN {"button"} ELSE {})
    /\ button' = IF p.by = "button" /\ p.live THEN Idle ELSE button
    /\ table' = IF p.by = "table" /\ p.live THEN Closed ELSE table
    /\ purges' = purges \ {p}
    /\ UNCHANGED <<components, requests, page, confirmed, settings, stored>>
OnSuccess(p, success) ==
    IF success THEN Settled(p, TRUE)
    ELSE /\ purges' = purges \ {p}
         /\ UNCHANGED <<entry, components, due, requests, page, button, table, confirmed, settings,
                        stored>>
Finally(p, success) == Settled(p, success)
Resolve(p) ==
    /\ p \in purges /\ p.status # "sent"
    /\ Finally(p, p.status = "done")
    /\ UNCHANGED faults
Reject(p) ==
    /\ p \in purges
    /\ faults < MaxFaults /\ faults' = faults + 1
    /\ Finally(p, FALSE)

\* Traffic on the API, until everything is cached.
Fill ==
    /\ stored # Entries
    /\ stored' = Entries
    /\ UNCHANGED <<entry, components, due, requests, page, button, table, purges, confirmed,
                   settings, faults>>

-----------------------------------------------------------------------------

Answering == \E r \in requests : Answer(r)
Purging == \E p \in purges : Serve(p) \/ Resolve(p)

Next ==
    \/ Effects \/ Answering \/ Purging
    \/ \E cs \in SUBSET ComponentsOf(page) : Render(cs)
    \/ \E p \in purges : Reject(p)
    \/ \E p \in Visited : Navigate(p)
    \/ \E open \in BOOLEAN : ToggleButton(open)
    \/ ConfirmButton \/ ConfirmAction
    \/ \E uid \in Types : ToggleRow(uid) \/ ConfirmRow(uid)
    \/ Fill

Spec == Init /\ [][Next]_vars

-----------------------------------------------------------------------------

AdminTypeOK ==
    /\ \A e \in Endpoints : entry[e].promise \in BOOLEAN /\ entry[e].version \in 0 .. MaxPurges
    /\ \A c \in Components :
          /\ Mounted(c) => (DOMAIN view[c] = Uses(c) /\ c \in ComponentsOf(page))
          /\ ran[c] = NotRun \/ DOMAIN ran[c] = DOMAIN view[c]
    /\ due \subseteq ComponentsOf(page)
    /\ requests \subseteq [endpoint : Endpoints, version : 0 .. MaxPurges, by : Components]
    /\ page \in Pages
    /\ button \in [isLoading : BOOLEAN, open : BOOLEAN]
    /\ table \in [isLoading : BOOLEAN, pendingUid : Cached \union {Undefined}]
    /\ \A p \in purges : p.contentType \in Cached    \* never a 400
    /\ confirmed \in 0 .. MaxPurges /\ faults \in 0 .. MaxFaults
    /\ permissions \in Permissions /\ clearRelated \in Flags /\ stored \subseteq Entries

(* Components that need the same endpoint share one request, on one page or *)
(* across pages: two are on their way at once only if an invalidation came  *)
(* between them (restCache.ts, "Concurrent subscribers await the same       *)
(* promise"), however late an older one is answered.                        *)
OneRequestPerVersion ==
    \A r, s \in requests : (r.endpoint = s.endpoint /\ r.version = s.version) => r = s

(* A confirmation is disabled by a spinner only while the purge it stands   *)
(* for is under way, whatever became of earlier ones and of the component   *)
(* (PurgeCacheButton: "a disabled spinner as the only action, until a       *)
(* reload remounts it").                                                    *)
SpinnersEnd ==
    /\ button.isLoading => \E p \in purges : p.by = "button" /\ p.live
    /\ table.isLoading => \E p \in purges : p.by = "table" /\ p.live

(* The edit view's purge removes every entry that its document is in by its *)
(* route: by documentId, by a field of its own, or a route without          *)
(* parameters; a single type's whatever the route.  Beyond those it removes *)
(* entries of related types, and only with clearRelatedCache on             *)
(* (useCachedDocument.ts, "with it off, the edit-view purge removed nothing *)
(* for the entry it was opened on").                                        *)
InDocument(s, p) ==
    /\ s.type = p.contentType
    /\ \/ s.type \in Singles \/ s.param = Undefined
       \/ s.param = "id" /\ s.value = p.document
       \/ s.param \notin {"id", Undefined} /\ s.value = Documents[p.document][s.param]
DocumentIsPurged ==
    [][\A p \in purges :
        (p.by = "action" /\ p.status = "sent" /\ [p EXCEPT !.status = "done"] \in purges') =>
            \A s \in stored :
                /\ InDocument(s, p) => s \notin stored'
                /\ s \notin stored' =>
                      InDocument(s, p) \/ (clearRelated /\ s.type \in Related[p.contentType])]_vars

-----------------------------------------------------------------------------
(* What changed between a component's render and its subscription notifies  *)
(* nobody: it is left behind, with nothing on the way to render it again.   *)
Behind(c) == \E e \in DOMAIN view[c] : view[c][e] # Snapshot(e)
Overtaken(c) == ran[c] # NotRun /\ c \notin due /\ Behind(c)

(* That is the only way: once its effects have run, a component misses no   *)
(* answer and no invalidation, although an answer leaves the version as it  *)
(* is (restCache.ts, "the arriving data would never be painted").           *)
OnlyMountingMisses ==
    [][\A c \in Components : Overtaken(c)' => (Overtaken(c) \/ ran[c] = NotRun)]_vars

\* What is on its way to a component: its render, its effects, an answer.
Awaits(c) ==
    c \in due \/ Changed(c) # {} \/ \E r \in requests : r.endpoint \in Uses(c)

(* A page that shows its loading state is waiting for something: after an   *)
(* invalidation whoever shows the entry asks for it again, and a late       *)
(* answer to an older request leaves nobody without one (restCache.ts, "the *)
(* page sits on its loading state for good").  Unless it was Overtaken.     *)
LoadingEnds ==
    \A c \in {"widget", "settings"} \intersect ComponentsOf(page) :
        (~Mounted(c) \/ isLoading(c, STATS_KEY)) => (Awaits(c) \/ Overtaken(c))

(* Where nothing is on its way any more, an admin who may purge is offered  *)
(* it on a cached content type, with or without the permission to read the  *)
(* strategy, and one who may read it is told about the caching, unless a    *)
(* request failed or the component was Overtaken (restCache.ts,             *)
(* usePurgeableContentTypes).                                               *)
Offered(c) ==
    CASE c = "button" -> ButtonShown
      [] c = "action" -> isEligible("action")
      [] c = "panel"  -> PanelShown
ControlsAppear ==
    \A c \in {"button", "action", "panel"} \intersect ComponentsOf(page) :
        (/\ faults = 0 /\ page.model \in Cached
         /\ c # "button" => page.documentId # Undefined
         /\ (IF c = "panel" THEN "read-strategy" ELSE "purge") \in permissions)
        => (Offered(c) \/ Awaits(c) \/ Overtaken(c))

=============================================================================
