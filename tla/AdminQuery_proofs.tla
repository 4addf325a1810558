-------------------------- MODULE AdminQuery_proofs --------------------------
(***************************************************************************)
(* What the admin panel keeps, for every number of content types, pages,   *)
(* documents, purges and failures: requests are shared, spinners end, only *)
(* the first effects of a component miss a change, and the edit view       *)
(* purges its own document.                                                *)
(***************************************************************************)
EXTENDS AdminQuery, FiniteSetTheorems, TLAPS

-----------------------------------------------------------------------------
(* Types.  An endpoint's data is the server's answer, a list of the cached  *)
(* types, what a component was rendered with is such data, and so every     *)
(* purge that is offered is of a cached type.  A component is there with    *)
(* its page, and its effects have run only if it was rendered.              *)
Bodies == [uids : {Cached}, held : SUBSET {s.type : s \in Entries}]
Errors == {"status 403", "response.status 403", "failed"}

EntriesOK ==
    entry \in [Endpoints -> [data : Bodies \union {Undefined}, error : Errors \union {Undefined},
                             promise : BOOLEAN, version : Nat]]

Snapshots == [data : Bodies \union {Undefined}, error : Errors \union {Undefined}, version : Nat]
ViewOK(c) ==
    /\ Mounted(c) => (view[c] \in [Uses(c) -> Snapshots] /\ c \in ComponentsOf(page))
    /\ ran[c] # NotRun => (Mounted(c) /\ DOMAIN ran[c] = Uses(c))
ViewsOK == \A c \in Components : ViewOK(c)

FieldsOK ==
    /\ requests \subseteq [endpoint : Endpoints, version : Nat, by : Components]
    /\ page \in Pages
    /\ button \in [isLoading : BOOLEAN, open : BOOLEAN]
    /\ table \in [isLoading : BOOLEAN, pendingUid : Cached \union {Undefined}]
    /\ confirmed \in 0 .. MaxPurges /\ faults \in 0 .. MaxFaults
    /\ permissions \in Permissions /\ clearRelated \in Flags /\ stored \subseteq Entries

ShapeInv == EntriesOK /\ ViewsOK /\ FieldsOK

LEMMA ClosedShape == Closed \in [isLoading : BOOLEAN, pendingUid : Cached \union {Undefined}]
BY DEF Closed

LEMMA KeysFact ==
    /\ Endpoints = {STRATEGY_KEY, STATS_KEY, PURGEABLE_KEY}
    /\ STRATEGY_KEY # STATS_KEY /\ PURGEABLE_KEY # STATS_KEY /\ STRATEGY_KEY # PURGEABLE_KEY
BY DEF Endpoints, STRATEGY_KEY, STATS_KEY, PURGEABLE_KEY

LEMMA UsesFact ==
    /\ Uses("widget") = {STATS_KEY} /\ Uses("settings") = {STATS_KEY}
    /\ \A c \in {"button", "action", "panel"} : Uses(c) = {STRATEGY_KEY, PURGEABLE_KEY}
    /\ \A c \in Components : Uses(c) \subseteq Endpoints /\ Uses(c) # {}
BY DEF Uses, Components, Endpoints

\* What is not rendered shows nothing, what has not run has no listener.
LEMMA EmptyFact == DOMAIN NotRendered = {} /\ DOMAIN NotRun = {} /\ NotRun = NotRendered
BY DEF NotRendered, NotRun

LEMMA ComponentsFact ==
    ASSUME NEW p \in Pages
    PROVE  /\ ComponentsOf(p) \in {{"widget"}, {"settings"}, {"button"}, {"action", "panel"}}
           /\ ComponentsOf(p) \subseteq Components
           /\ \A c, d \in ComponentsOf(p) : c = d \/ Before(c, d) \/ Before(d, c)
<1>1. p.name \in {"home", "settings", "list", "edit"}
  BY DEF Pages
<1>2. ComponentsOf(p) \in {{"widget"}, {"settings"}, {"button"}, {"action", "panel"}}
  BY <1>1 DEF ComponentsOf
<1> QED  BY <1>2 DEF Components, Before

\* An invalidated entry has neither data nor error nor promise, and the next version.
LEMMA InvalidatedShape ==
    ASSUME NEW old \in [data : Bodies \union {Undefined}, error : Errors \union {Undefined},
                        promise : BOOLEAN, version : Nat]
    PROVE  Invalidated(old) = [data |-> Undefined, error |-> Undefined, promise |-> FALSE,
                               version |-> old.version + 1]
<1>1. Invalidated(old) = [[[[old EXCEPT !.data = Undefined] EXCEPT !.error = Undefined]
                             EXCEPT !.promise = FALSE] EXCEPT !.version = old.version + 1]
  BY DEF Invalidated, Cleared
<1>2. old = [data |-> old.data, error |-> old.error, promise |-> old.promise,
             version |-> old.version]
  OBVIOUS
<1> QED  BY <1>1, <1>2

LEMMA BodyShape ==
    ASSUME stored \subseteq Entries, NEW e \in Endpoints
    PROVE  Body(e) \in Bodies /\ Body(e) # Undefined
<1>1. Body(e) \in Bodies
  BY DEF Body, summary, Bodies
<1>2. Body(e) \in [uids : SUBSET Types, held : SUBSET {s.type : s \in Entries}]
  BY <1>1, CachedAssumption DEF Bodies
<1> QED  BY <1>1, <1>2, UndefinedAssumption

LEMMA SnapshotShape ==
    ASSUME EntriesOK, NEW e \in Endpoints
    PROVE  Snapshot(e) \in Snapshots
BY DEF EntriesOK, Snapshot, Snapshots

LEMMA OffersCached ==
    ASSUME ViewsOK, NEW c \in {"button", "action", "panel"}, Mounted(c)
    PROVE  PurgeableContentTypes(c) \subseteq Cached
<1>1. view[c] \in [{STRATEGY_KEY, PURGEABLE_KEY} -> Snapshots]
  BY UsesFact DEF ViewsOK, ViewOK, Components
<1> QED  BY <1>1 DEF Snapshots, Bodies, PurgeableContentTypes

LEMMA RowsAreCached ==
    ASSUME ViewsOK, TableMounted
    PROVE  view["settings"][STATS_KEY].data \in Bodies
<1>1. view["settings"] \in [{STATS_KEY} -> Snapshots]
  BY UsesFact DEF ViewsOK, ViewOK, Components, TableMounted
<1>2. view["settings"][STATS_KEY] \in Snapshots
  BY <1>1
<1> DEFINE stats == view["settings"][STATS_KEY]
<1>3. SettingsShows(stats) = "table"
  BY DEF TableMounted
<1> HIDE DEF stats
<1>4. stats.data # Undefined
  BY <1>3, UndefinedAssumption DEF SettingsShows, OnResponse
<1> QED  BY <1>2, <1>4 DEF stats, Snapshots

\* The answer to a request, whichever it is.
LEMMA AnswerShape ==
    ASSUME ShapeInv, NEW r \in requests, Answer(r)
    PROVE  \E data \in Bodies \union {Undefined}, error \in Errors \union {Undefined} :
              /\ data # Undefined \/ error # Undefined
              /\ entry' = [entry EXCEPT ![r.endpoint].data = data, ![r.endpoint].error = error,
                                        ![r.endpoint].promise = FALSE]
<1> USE DEF ShapeInv, FieldsOK, EntriesOK
<1>1. r.endpoint \in Endpoints /\ entry[r.endpoint].data \in Bodies \union {Undefined}
  OBVIOUS
<1>2. ASSUME NEW error \in Errors,
             entry' = [entry EXCEPT ![r.endpoint].error = error, ![r.endpoint].promise = FALSE]
      PROVE  entry' = [entry EXCEPT ![r.endpoint].data = entry[r.endpoint].data,
                                    ![r.endpoint].error = error, ![r.endpoint].promise = FALSE]
  BY <1>1, <1>2
<1>3. Body(r.endpoint) \in Bodies /\ Body(r.endpoint) # Undefined
  BY <1>1, BodyShape
<1>4. \A error \in Errors : error # Undefined
  BY UndefinedAssumption DEF Errors
<1>5. CASE entry' = [entry EXCEPT ![r.endpoint].data = Body(r.endpoint),
                                  ![r.endpoint].error = Undefined, ![r.endpoint].promise = FALSE]
  BY <1>3, <1>5
<1>6. CASE \E error \in Errors :
              entry' = [entry EXCEPT ![r.endpoint].error = error, ![r.endpoint].promise = FALSE]
  <2>1. PICK error \in Errors :
            entry' = [entry EXCEPT ![r.endpoint].error = error, ![r.endpoint].promise = FALSE]
    BY <1>6
  <2>2. entry' = [entry EXCEPT ![r.endpoint].data = entry[r.endpoint].data,
                               ![r.endpoint].error = error, ![r.endpoint].promise = FALSE]
    BY <1>2, <2>1
  <2> QED  BY <1>1, <1>4, <2>2
<1> QED  BY <1>5, <1>6 DEF Answer, Errors

\* An answer changes no version and leaves nothing to ask for.
MissingNow(old) == old.data = Undefined /\ old.error = Undefined /\ ~old.promise
LEMMA AnswerStep ==
    ASSUME ShapeInv, NEW r \in requests, Answer(r)
    PROVE  /\ EntriesOK'
           /\ r.endpoint \in Endpoints
           /\ \A e \in Endpoints : e # r.endpoint => entry'[e] = entry[e]
           /\ entry'[r.endpoint].version = entry[r.endpoint].version
           /\ ~MissingNow(entry'[r.endpoint])
           /\ due' = due \union Listeners(r.endpoint)
           /\ requests' = requests \ {r} /\ faults' \in {faults, faults + 1}
           /\ faults' # faults => faults < MaxFaults
           /\ UNCHANGED <<components, page, button, table, purges, confirmed, settings, stored>>
<1>1. PICK data \in Bodies \union {Undefined}, error \in Errors \union {Undefined} :
          /\ data # Undefined \/ error # Undefined
          /\ entry' = [entry EXCEPT ![r.endpoint].data = data, ![r.endpoint].error = error,
                                    ![r.endpoint].promise = FALSE]
  BY AnswerShape
<1>2. r.endpoint \in Endpoints
  BY DEF ShapeInv, FieldsOK
<1>3. /\ EntriesOK'
      /\ \A e \in Endpoints : e # r.endpoint => entry'[e] = entry[e]
      /\ entry'[r.endpoint].version = entry[r.endpoint].version
      /\ ~MissingNow(entry'[r.endpoint])
  BY <1>1, <1>2 DEF ShapeInv, EntriesOK, MissingNow
<1>4. faults' \in {faults, faults + 1} /\ (faults' # faults => faults < MaxFaults)
  BY Zenon DEF Answer
<1> QED  BY <1>2, <1>3, <1>4 DEF Answer

\* Effects ask for what is missing, and at most one component asks.
LEMMA EffectsShape ==
    ASSUME ShapeInv, Effects
    PROVE  \E asking \in SUBSET (Components \X Endpoints) :
              /\ \A v, w \in asking : v[2] = w[2] => v = w
              /\ \A w \in asking : MissingNow(entry[w[2]])
              /\ \A c \in EffectsPending, e \in Endpoints :
                    (e \in Changed(c) /\ Enabled(c, e) /\ MissingNow(entry[e]))
                        => \E w \in asking : w[2] = e
              /\ entry' = [e \in Endpoints |-> IF \E w \in asking : w[2] = e
                                               THEN [entry[e] EXCEPT !.promise = TRUE] ELSE entry[e]]
              /\ requests' = requests \union
                     {[endpoint |-> w[2], version |-> entry[w[2]].version, by |-> w[1]] : w \in asking}
<1> DEFINE wanted == {w \in EffectsPending \X Endpoints :
                        w[2] \in Changed(w[1]) /\ Enabled(w[1], w[2])}
<1>1. PICK asking \in SUBSET wanted :
          /\ \A w \in wanted :
                w \in asking <=>
                    Missing(w[2], \E v \in asking : v[2] = w[2] /\ Before(v[1], w[1]))
          /\ entry' = [e \in Endpoints |-> IF \E w \in asking : w[2] = e
                                           THEN [entry[e] EXCEPT !.promise = TRUE] ELSE entry[e]]
          /\ requests' = requests \union
                 {[endpoint |-> w[2], version |-> entry[w[2]].version, by |-> w[1]] : w \in asking}
  BY Zenon DEF Effects
<1>2. \A w \in wanted : w \in Components \X Endpoints /\ w[1] \in EffectsPending
  BY DEF EffectsPending
<1>3. \A c \in EffectsPending : c \in ComponentsOf(page)
  BY EmptyFact DEF EffectsPending, Changed, ShapeInv, ViewsOK, ViewOK, Mounted
<1> HIDE DEF wanted
<1>4. ASSUME NEW w \in asking
      PROVE  /\ MissingNow(entry[w[2]])
             /\ ~\E v \in asking : v[2] = w[2] /\ Before(v[1], w[1])
  <2>1. Missing(w[2], \E v \in asking : v[2] = w[2] /\ Before(v[1], w[1]))
    BY <1>1
  <2> QED  BY <2>1 DEF Missing, UnlessAnswered, MissingNow
<1>5. ASSUME NEW v \in asking, NEW w \in asking, v[2] = w[2] PROVE v = w
  <2>1. v[1] \in ComponentsOf(page) /\ w[1] \in ComponentsOf(page)
    BY <1>1, <1>2, <1>3
  <2>2. v[1] = w[1] \/ Before(v[1], w[1]) \/ Before(w[1], v[1])
    BY <2>1, ComponentsFact DEF ShapeInv, FieldsOK
  <2>3. v[1] = w[1]
    BY <1>4, <1>5, <2>2
  <2> QED  BY <1>1, <1>2, <1>5, <2>3
<1>6. ASSUME NEW c \in EffectsPending, NEW e \in Endpoints,
             e \in Changed(c), Enabled(c, e), MissingNow(entry[e])
      PROVE  \E w \in asking : w[2] = e
  <2>1. <<c, e>> \in wanted
    BY <1>6 DEF wanted
  <2>2. <<c, e>> \in asking <=> Missing(e, \E v \in asking : v[2] = e /\ Before(v[1], c))
    BY <1>1, <2>1
  <2>3. ~(\E v \in asking : v[2] = e /\ Before(v[1], c)) => <<c, e>> \in asking
    BY <1>6, <2>2 DEF Missing, UnlessAnswered, MissingNow
  <2> QED  BY <2>3
<1> QED  BY <1>1, <1>2, <1>4, <1>5, <1>6

LEMMA EntriesStep ==
    ASSUME ShapeInv, [Next]_vars
    PROVE  EntriesOK'
<1> USE DEF ShapeInv
<1>1. CASE Effects
  <2>1. PICK asking \in SUBSET (Components \X Endpoints) :
            entry' = [e \in Endpoints |-> IF \E w \in asking : w[2] = e
                                         THEN [entry[e] EXCEPT !.promise = TRUE] ELSE entry[e]]
    BY <1>1, EffectsShape
  <2>2. \A e \in Endpoints : entry'[e] = entry[e] \/ entry'[e] = [entry[e] EXCEPT !.promise = TRUE]
    BY <2>1
  <2>3. entry' = [e \in Endpoints |-> entry'[e]]
    BY <2>1
  <2> DEFINE Record == [data : Bodies \union {Undefined}, error : Errors \union {Undefined},
                       promise : BOOLEAN, version : Nat]
  <2>4. ASSUME NEW e \in Endpoints PROVE entry'[e] \in Record
    <3>1. entry[e] \in Record
      BY DEF EntriesOK
    <3> QED  BY <2>2, <3>1
  <2> QED  BY <2>3, <2>4 DEF EntriesOK
<1>2. ASSUME NEW r \in requests, Answer(r) PROVE EntriesOK'
  BY <1>2, AnswerStep
<1>3. ASSUME NEW p, NEW success \in BOOLEAN, Settled(p, success) PROVE EntriesOK'
  <2>1. entry' = entry \/ entry' = [entry EXCEPT ![STATS_KEY] = Invalidated(@)]
    BY <1>3 DEF Settled
  <2>2. entry[STATS_KEY] \in [data : Bodies \union {Undefined}, error : Errors \union {Undefined},
                              promise : BOOLEAN, version : Nat]
    BY KeysFact DEF EntriesOK
  <2>3. [data |-> Undefined, error |-> Undefined, promise |-> FALSE,
         version |-> entry[STATS_KEY].version + 1] \in
            [data : Bodies \union {Undefined}, error : Errors \union {Undefined},
             promise : BOOLEAN, version : Nat]
    BY <2>2
  <2> QED  BY <2>1, <2>2, <2>3, InvalidatedShape DEF EntriesOK
<1>4. ASSUME NEW p \in purges, Serve(p) \/ Resolve(p) \/ Reject(p) PROVE EntriesOK'
  BY <1>3, <1>4 DEF Serve, Resolve, Reject, Finally, EntriesOK
<1>5. ASSUME NEW p, Navigate(p) PROVE EntriesOK'
  BY <1>5 DEF Navigate, EntriesOK
<1>6. ASSUME NEW open, ToggleButton(open) PROVE EntriesOK'
  BY <1>6 DEF ToggleButton, EntriesOK
<1>7. CASE ConfirmButton \/ ConfirmAction \/ Fill \/ UNCHANGED vars
  BY <1>7 DEF ConfirmButton, ConfirmAction, Fill, vars, EntriesOK
<1>8. ASSUME NEW uid, ToggleRow(uid) \/ ConfirmRow(uid) PROVE EntriesOK'
  BY <1>8 DEF ToggleRow, ConfirmRow, EntriesOK
<1>9. ASSUME NEW cs, Render(cs) PROVE EntriesOK'
  BY <1>9 DEF Render, EntriesOK
<1> QED  BY <1>1, <1>2, <1>4, <1>5, <1>6, <1>7, <1>8, <1>9 DEF Next, Answering, Purging

\* Only Render, Effects and Navigate touch what components have.
LEMMA ComponentsMove ==
    ASSUME [Next]_vars
    PROVE  \/ \E cs : Render(cs)
           \/ Effects
           \/ \E p \in Visited : Navigate(p)
           \/ UNCHANGED <<view, ran, page>>
<1> USE DEF components
<1>1. ASSUME NEW r, Answer(r) PROVE UNCHANGED <<view, ran, page>>
  BY <1>1 DEF Answer
<1>2. ASSUME NEW p, Serve(p) \/ Resolve(p) \/ Reject(p) PROVE UNCHANGED <<view, ran, page>>
  BY <1>2 DEF Serve, Resolve, Reject, Finally, Settled
<1>3. ASSUME NEW open, ToggleButton(open) PROVE UNCHANGED <<view, ran, page>>
  BY <1>3 DEF ToggleButton
<1>4. CASE ConfirmButton \/ ConfirmAction \/ Fill \/ UNCHANGED vars
  BY <1>4 DEF ConfirmButton, ConfirmAction, Fill, vars
<1>5. ASSUME NEW uid, ToggleRow(uid) \/ ConfirmRow(uid) PROVE UNCHANGED <<view, ran, page>>
  BY <1>5 DEF ToggleRow, ConfirmRow
<1> QED  BY <1>1, <1>2, <1>3, <1>4, <1>5 DEF Next, Answering, Purging

LEMMA ViewsStep ==
    ASSUME ShapeInv, [Next]_vars
    PROVE  ViewsOK'
<1> USE DEF ShapeInv
<1>1. ASSUME NEW cs, Render(cs) PROVE ViewsOK'
  <2> SUFFICES ASSUME NEW c \in Components PROVE ViewOK(c)'
    BY DEF ViewsOK
  <2>1. ViewOK(c)
    BY DEF ViewsOK
  <2>2. ran'[c] = ran[c] /\ page' = page
    BY <1>1 DEF Render
  <2>3. CASE c \in cs
    <3>1. view'[c] = [e \in Uses(c) |-> Snapshot(e)] /\ c \in ComponentsOf(page)
      BY <1>1, <2>3 DEF Render
    <3>2. view'[c] \in [Uses(c) -> Snapshots]
      BY <3>1, UsesFact, SnapshotShape
    <3>3. view'[c] # NotRendered
      BY <3>1, UsesFact, EmptyFact
    <3> QED  BY <2>1, <2>2, <3>1, <3>2, <3>3 DEF ViewOK, Mounted
  <2>4. CASE c \notin cs
    <3>1. view'[c] = view[c]
      BY <1>1, <2>4 DEF Render
    <3> QED  BY <2>1, <2>2, <3>1 DEF ViewOK, Mounted
  <2> QED  BY <2>3, <2>4
<1>2. CASE Effects
  <2> SUFFICES ASSUME NEW c \in Components PROVE ViewOK(c)'
    BY DEF ViewsOK
  <2>1. ViewOK(c)
    BY DEF ViewsOK
  <2>2. view' = view /\ page' = page
    BY <1>2 DEF Effects
  <2>3. ran'[c] = IF c \in EffectsPending THEN [e \in DOMAIN view[c] |-> Dependencies(c, e)]
                  ELSE ran[c]
    BY <1>2, Zenon DEF Effects
  <2>4. CASE c \in EffectsPending
    <3>1. Mounted(c)
      BY <2>4, EmptyFact DEF EffectsPending, Changed, Mounted
    <3>2. DOMAIN ran'[c] = Uses(c)
      BY <2>1, <2>3, <2>4, <3>1 DEF ViewOK
    <3> QED  BY <2>1, <2>2, <3>1, <3>2 DEF ViewOK, Mounted
  <2>5. CASE c \notin EffectsPending
    BY <2>1, <2>2, <2>3, <2>5 DEF ViewOK, Mounted
  <2> QED  BY <2>4, <2>5
<1>3. ASSUME NEW p, Navigate(p) PROVE ViewsOK'
  <2>1. \A c \in Components : view'[c] = NotRendered /\ ran'[c] = NotRun
    BY <1>3 DEF Navigate
  <2> QED  BY <2>1 DEF ViewsOK, ViewOK, Mounted
<1>4. CASE UNCHANGED <<view, ran, page>>
  BY <1>4 DEF ViewsOK, ViewOK, Mounted
<1> QED  BY <1>1, <1>2, <1>3, <1>4, ComponentsMove

LEMMA FieldsStep ==
    ASSUME ShapeInv, [Next]_vars
    PROVE  FieldsOK'
<1> USE LimitsAssumption, VisitedAssumption DEF ShapeInv, FieldsOK, Idle, Closed, settings
<1>1. CASE Effects
  <2>1. PICK asking \in SUBSET (Components \X Endpoints) :
            requests' = requests \union
                {[endpoint |-> w[2], version |-> entry[w[2]].version, by |-> w[1]] : w \in asking}
    BY <1>1, EffectsShape
  <2>2. \A w \in asking : w[1] \in Components /\ w[2] \in Endpoints /\ entry[w[2]].version \in Nat
    BY DEF EntriesOK
  <2>3. requests' \subseteq [endpoint : Endpoints, version : Nat, by : Components]
    BY <2>1, <2>2
  <2>4. UNCHANGED <<page, button, table, confirmed, settings, stored, faults>>
    BY <1>1 DEF Effects
  <2> QED  BY <2>3, <2>4
<1>2. ASSUME NEW r \in requests, Answer(r) PROVE FieldsOK'
  <2>1. faults' \in 0 .. MaxFaults
    BY <1>2, AnswerStep
  <2>2. requests' \subseteq requests /\ UNCHANGED <<page, button, table, confirmed, settings, stored>>
    BY <1>2, AnswerStep
  <2> QED  BY <2>1, <2>2
<1>3. ASSUME NEW p, NEW success \in BOOLEAN, Settled(p, success), faults' \in 0 .. MaxFaults
      PROVE  FieldsOK'
  <2>1. button' \in {button, Idle} /\ table' \in {table, Closed}
    BY <1>3, Zenon DEF Settled
  <2>2. UNCHANGED <<requests, page, confirmed, settings, stored>>
    BY <1>3 DEF Settled
  <2>3. table' \in [isLoading : BOOLEAN, pendingUid : Cached \union {Undefined}]
    BY <2>1, ClosedShape, Zenon
  <2>4. button' \in [isLoading : BOOLEAN, open : BOOLEAN]
    <3>1. Idle \in [isLoading : BOOLEAN, open : BOOLEAN]
      OBVIOUS
    <3> QED  BY <2>1, <3>1, Zenon
  <2> QED  BY <1>3, <2>2, <2>3, <2>4
<1>4. ASSUME NEW p \in purges, Serve(p) \/ Resolve(p) \/ Reject(p) PROVE FieldsOK'
  <2>1. CASE Serve(p)
    BY <2>1 DEF Serve
  <2>2. CASE Resolve(p)
    <3>1. \E success \in BOOLEAN : Settled(p, success)
      BY <2>2, Zenon DEF Resolve, Finally
    <3> QED  BY <1>3, <2>2, <3>1 DEF Resolve
  <2>3. CASE Reject(p)
    <3>1. Settled(p, FALSE)
      BY <2>3, Zenon DEF Reject, Finally
    <3>2. faults' \in 0 .. MaxFaults
      BY <2>3 DEF Reject
    <3> QED  BY <1>3, <3>1, <3>2
  <2> QED  BY <1>4, <2>1, <2>2, <2>3
<1>5. ASSUME NEW p \in Visited, Navigate(p) PROVE FieldsOK'
  BY <1>5 DEF Navigate
<1>6. ASSUME NEW open \in BOOLEAN, ToggleButton(open) PROVE FieldsOK'
  BY <1>6 DEF ToggleButton
<1>7. CASE ConfirmButton
  <2>1. confirmed' \in 0 .. MaxPurges
    BY <1>7 DEF ConfirmButton, Post
  <2>2. /\ button' = [button EXCEPT !.isLoading = TRUE]
        /\ UNCHANGED <<requests, page, table, settings, stored, faults>>
    BY <1>7 DEF ConfirmButton
  <2> QED  BY <2>1, <2>2
<1>8. CASE ConfirmAction
  BY <1>8 DEF ConfirmAction, Post
<1>9. CASE Fill \/ UNCHANGED vars
  BY <1>9 DEF Fill, vars
<1>10. ASSUME NEW uid \in Types, ToggleRow(uid) PROVE FieldsOK'
  <2>1. view["settings"][STATS_KEY].data \in Bodies
    BY <1>10, RowsAreCached DEF ToggleRow
  <2>2. uid \in Cached
    BY <1>10, <2>1 DEF ToggleRow, Bodies
  <2> QED  BY <1>10, <2>2 DEF ToggleRow
<1>11. ASSUME NEW uid \in Types, ConfirmRow(uid) PROVE FieldsOK'
  <2>1. confirmed' \in 0 .. MaxPurges
    BY <1>11 DEF ConfirmRow, Post
  <2>2. /\ table' = [table EXCEPT !.isLoading = TRUE]
        /\ UNCHANGED <<requests, page, button, settings, stored, faults>>
    BY <1>11 DEF ConfirmRow
  <2> QED  BY <2>1, <2>2
<1>12. ASSUME NEW cs, Render(cs) PROVE FieldsOK'
  <2>1. table' \in {table, Closed}
    BY <1>12, Zenon DEF Render
  <2>2. UNCHANGED <<requests, page, button, confirmed, settings, stored, faults>>
    BY <1>12 DEF Render
  <2>3. table' \in [isLoading : BOOLEAN, pendingUid : Cached \union {Undefined}]
    BY <2>1, ClosedShape, Zenon
  <2> QED  BY <2>2, <2>3
<1> QED  BY <1>1, <1>2, <1>4, <1>5, <1>6, <1>7, <1>8, <1>9, <1>10, <1>11, <1>12
         DEF Next, Answering, Purging

\* The shapes of the tab's variables are kept.
LEMMA ShapeCorrect == Spec => []ShapeInv
<1>1. Init => ShapeInv
  BY LimitsAssumption, VisitedAssumption
     DEF Init, ShapeInv, EntriesOK, ViewsOK, ViewOK, Mounted, FieldsOK, Idle, Closed
<1>2. ShapeInv /\ [Next]_vars => ShapeInv'
  BY EntriesStep, ViewsStep, FieldsStep DEF ShapeInv
<1> QED  BY <1>1, <1>2, PTL DEF Spec

-----------------------------------------------------------------------------
(* Purges.  Each has a number of its own, and what it addresses is what its *)
(* component put into it; an invalidation is paid for by a purge that ends. *)
Params == {[n \in {} |-> n]} \union {toEntryParams(d) : d \in DOMAIN Documents}
PurgeRecord ==
    [by : {"button", "table", "action"}, contentType : Cached, params : Params,
     wildcard : BOOLEAN, document : DOMAIN Documents \union {Undefined}, n : Nat,
     live : BOOLEAN, status : {"sent", "done", "refused"}]

Addressed(p) ==
    p.by = "action" =>
        /\ p.document \in DOMAIN Documents
        /\ p.wildcard = (p.contentType \in Singles)
        /\ ~p.wildcard => p.params = toEntryParams(p.document)

Distinct(ps) == \A p, q \in ps : p.n = q.n => p = q
Sane(ps) == ps \subseteq PurgeRecord /\ Distinct(ps) /\ \A p \in ps : Addressed(p)
NumbersOf(ps) == {p.n : p \in ps}

PurgesInv ==
    /\ Sane(purges)
    /\ NumbersOf(purges) \subseteq 0 .. (confirmed - 1)
    /\ \A e \in Endpoints : entry[e].version + Cardinality(NumbersOf(purges)) <= confirmed

\* One purge of Unmounted(ps, by).
Kept(p, by) == IF p.by \in by THEN [p EXCEPT !.live = FALSE] ELSE p

LEMMA KeptShape ==
    ASSUME NEW p \in PurgeRecord, NEW by
    PROVE  /\ Kept(p, by) \in PurgeRecord
           /\ Kept(p, by).n = p.n /\ Kept(p, by).by = p.by /\ Kept(p, by).status = p.status
           /\ Kept(p, by).contentType = p.contentType /\ Kept(p, by).params = p.params
           /\ Kept(p, by).wildcard = p.wildcard /\ Kept(p, by).document = p.document
           /\ p.by \notin by => Kept(p, by) = p
BY DEF Kept, PurgeRecord

LEMMA UnmountedSane ==
    ASSUME NEW ps, Sane(ps), NEW by
    PROVE  Sane(Unmounted(ps, by)) /\ NumbersOf(Unmounted(ps, by)) = NumbersOf(ps)
<1>1. Unmounted(ps, by) = {Kept(p, by) : p \in ps}
  BY DEF Unmounted, Kept
<1>2. \A p \in ps : p \in PurgeRecord
  BY DEF Sane
<1>3. Unmounted(ps, by) \subseteq PurgeRecord
  BY <1>1, <1>2, KeptShape
<1>4. Distinct(Unmounted(ps, by))
  <2> SUFFICES ASSUME NEW p \in ps, NEW q \in ps, Kept(p, by).n = Kept(q, by).n
               PROVE  Kept(p, by) = Kept(q, by)
    BY <1>1 DEF Distinct
  <2>1. p.n = q.n
    BY <1>2, KeptShape
  <2> QED  BY <2>1 DEF Sane, Distinct
<1>5. ASSUME NEW p \in ps PROVE Addressed(Kept(p, by))
  BY <1>2, KeptShape DEF Sane, Addressed
<1>6. NumbersOf(Unmounted(ps, by)) = NumbersOf(ps)
  BY <1>1, <1>2, KeptShape DEF NumbersOf
<1> QED  BY <1>1, <1>3, <1>4, <1>5, <1>6 DEF Sane

LEMMA UnmountedNone ==
    ASSUME NEW ps
    PROVE  Unmounted(ps, {}) = ps
BY DEF Unmounted

-----------------------------------------------------------------------------
\* What a step does to the purges: they lose their components, one is
\* confirmed, one is served, or one ends and may have invalidated an endpoint.
SameVersions == \A e \in Endpoints : entry'[e].version = entry[e].version
LoseComponents ==
    /\ \E by : purges' = Unmounted(purges, by)
    /\ confirmed' = confirmed /\ SameVersions
Confirmed(p) ==
    /\ p \in PurgeRecord /\ Addressed(p) /\ p.n = confirmed /\ p.status = "sent"
    /\ purges' = purges \union {p}
    /\ confirmed' = confirmed + 1 /\ SameVersions
Ended(p) ==
    /\ p \in purges
    /\ purges' = purges \ {p}
    /\ confirmed' = confirmed
    /\ \A e \in Endpoints : entry'[e].version \in {entry[e].version, entry[e].version + 1}

LEMMA PageShape ==
    ASSUME ShapeInv
    PROVE  page.documentId \in DOMAIN Documents \union {Undefined}
BY DEF ShapeInv, FieldsOK, Pages

LEMMA PostConfirms ==
    ASSUME ShapeInv, NEW by \in {"button", "table", "action"}, NEW uid \in Cached,
           NEW params \in Params, NEW wildcard \in BOOLEAN, Post(by, uid, params, wildcard),
           UNCHANGED entry,
           by = "action" => /\ page.documentId \in DOMAIN Documents
                            /\ wildcard = (uid \in Singles)
                            /\ ~wildcard => params = toEntryParams(page.documentId)
    PROVE  \E p : p.by = by /\ p.live /\ Confirmed(p)
<1> DEFINE p == [by |-> by, contentType |-> uid, params |-> params,
                 wildcard |-> wildcard, document |-> page.documentId,
                 n |-> confirmed, live |-> TRUE, status |-> "sent"]
<1>1. confirmed \in Nat
  BY LimitsAssumption DEF ShapeInv, FieldsOK
<1>2. p \in PurgeRecord
  BY <1>1, PageShape DEF PurgeRecord
<1>3. Addressed(p)
  BY DEF Addressed
<1>4. purges' = purges \union {p} /\ confirmed' = confirmed + 1
  BY DEF Post
<1>5. p.by = by /\ p.live /\ p.n = confirmed /\ p.status = "sent"
  OBVIOUS
<1> HIDE DEF p
<1>6. SameVersions
  BY DEF SameVersions
<1> QED  BY <1>2, <1>3, <1>4, <1>5, <1>6 DEF Confirmed

LEMMA SettledEnds ==
    ASSUME ShapeInv, NEW p \in purges, NEW success \in BOOLEAN, Settled(p, success)
    PROVE  Ended(p)
<1>1. /\ entry' = entry \/ entry' = [entry EXCEPT ![STATS_KEY] = Invalidated(@)]
      /\ purges' = purges \ {p} /\ confirmed' = confirmed
  BY DEF Settled
<1>2. Invalidated(entry[STATS_KEY]).version = entry[STATS_KEY].version + 1
  BY KeysFact, InvalidatedShape DEF ShapeInv, EntriesOK
<1>3. \A e \in Endpoints : entry'[e].version \in {entry[e].version, entry[e].version + 1}
  BY <1>1, <1>2, KeysFact DEF ShapeInv, EntriesOK
<1> QED  BY <1>1, <1>3 DEF Ended

LEMMA PurgesMove ==
    ASSUME ShapeInv, [Next]_vars
    PROVE  \/ LoseComponents
           \/ \E p : Confirmed(p)
           \/ \E p \in purges : Serve(p)
           \/ \E p : Ended(p)
<1>0. ASSUME UNCHANGED <<entry, purges, confirmed>> PROVE LoseComponents
  <2>1. purges' = Unmounted(purges, {})
    BY <1>0, UnmountedNone
  <2> QED  BY <1>0, <2>1 DEF LoseComponents, SameVersions
<1>1. CASE Effects
  <2>1. purges' = Unmounted(purges, {}) /\ confirmed' = confirmed
    BY <1>1, UnmountedNone DEF Effects
  <2>2. SameVersions
    BY <1>1, EffectsShape DEF SameVersions, ShapeInv, EntriesOK
  <2> QED  BY <2>1, <2>2 DEF LoseComponents
<1>2. ASSUME NEW r \in requests, Answer(r) PROVE LoseComponents
  <2>1. purges' = Unmounted(purges, {}) /\ confirmed' = confirmed
    BY <1>2, AnswerStep, UnmountedNone
  <2>2. SameVersions
    BY <1>2, AnswerStep DEF SameVersions
  <2> QED  BY <2>1, <2>2 DEF LoseComponents
<1>3. ASSUME NEW p \in purges, Resolve(p) \/ Reject(p) PROVE Ended(p)
  <2>1. \E success \in BOOLEAN : Settled(p, success)
    BY <1>3, Zenon DEF Resolve, Reject, Finally
  <2> QED  BY <2>1, SettledEnds
<1>4. ASSUME NEW p, Navigate(p) PROVE LoseComponents
  BY <1>4 DEF Navigate, LoseComponents, SameVersions
<1>5. ASSUME NEW open, ToggleButton(open) PROVE LoseComponents
  BY <1>0, <1>5 DEF ToggleButton
<1>6. CASE ConfirmButton
  <2>1. page.model \in Cached
    BY <1>6, OffersCached DEF ConfirmButton, ButtonShown, ShapeInv
  <2>2. Post("button", page.model, [n \in {} |-> n], TRUE) /\ UNCHANGED entry
    BY <1>6 DEF ConfirmButton
  <2> QED  BY <2>1, <2>2, PostConfirms DEF Params
<1>7. CASE ConfirmAction
  <2>1. /\ page.model \in Cached
        /\ page.documentId \in DOMAIN Documents
    BY <1>7, OffersCached, PageShape DEF ConfirmAction, isEligible, ShapeInv
  <2> DEFINE single == page.model \in Singles
             params == IF single THEN [n \in {} |-> n] ELSE toEntryParams(page.documentId)
  <2>2. Post("action", page.model, params, single) /\ UNCHANGED entry
    BY <1>7, Zenon DEF ConfirmAction
  <2>3. params \in Params
    BY <2>1 DEF Params
  <2>4. single \in BOOLEAN
    OBVIOUS
  <2>5. ~single => params = toEntryParams(page.documentId)
    OBVIOUS
  <2> QED
    <3> HIDE DEF params
    <3> QED  BY <2>1, <2>2, <2>3, <2>4, <2>5, PostConfirms
<1>8. CASE Fill \/ UNCHANGED vars
  BY <1>0, <1>8 DEF Fill, vars
<1>9. ASSUME NEW uid \in Types, ToggleRow(uid) PROVE LoseComponents
  BY <1>0, <1>9 DEF ToggleRow
<1>10. ASSUME NEW uid \in Types, ConfirmRow(uid) PROVE \E p : Confirmed(p)
  <2>1. uid \in Cached
    BY <1>10, UndefinedAssumption DEF ConfirmRow, ShapeInv, FieldsOK
  <2>2. Post("table", uid, [n \in {} |-> n], TRUE) /\ UNCHANGED entry
    BY <1>10 DEF ConfirmRow
  <2> QED  BY <2>1, <2>2, PostConfirms DEF Params
<1>11. ASSUME NEW cs, Render(cs) PROVE LoseComponents
  <2>1. purges' = Unmounted(purges, {}) \/ purges' = Unmounted(purges, {"table"})
    BY <1>11, UnmountedNone, Zenon DEF Render
  <2>2. UNCHANGED <<entry, confirmed>>
    BY <1>11 DEF Render
  <2> QED  BY <2>1, <2>2 DEF LoseComponents, SameVersions
<1> QED  BY <1>1, <1>2, <1>3, <1>4, <1>5, <1>6, <1>7, <1>8, <1>9, <1>10, <1>11
         DEF Next, Answering, Purging

\* A served purge stands where it stood, with a status.
LEMMA ServedSane ==
    ASSUME Sane(purges), NEW p \in purges, Serve(p)
    PROVE  /\ Sane(purges') /\ NumbersOf(purges') = NumbersOf(purges)
           /\ confirmed' = confirmed /\ SameVersions
<1>1. PICK status \in {"done", "refused"} :
          purges' = (purges \ {p}) \union {[p EXCEPT !.status = status]}
  BY DEF Serve
<1> DEFINE q == [p EXCEPT !.status = status]
<1>2. /\ p \in PurgeRecord /\ q \in PurgeRecord /\ q.n = p.n
      /\ Addressed(p) => Addressed(q)
  BY DEF Sane, PurgeRecord, Addressed
<1> HIDE DEF q
<1>3. NumbersOf(purges') = NumbersOf(purges)
  BY <1>1, <1>2 DEF NumbersOf, q
<1>4. Distinct(purges')
  BY <1>1, <1>2 DEF Sane, Distinct, q
<1>5. purges' \subseteq PurgeRecord /\ \A a \in purges' : Addressed(a)
  BY <1>1, <1>2 DEF Sane, q
<1> QED  BY <1>3, <1>4, <1>5 DEF Serve, Sane, SameVersions

LEMMA PurgesStep ==
    ASSUME ShapeInv, PurgesInv, [Next]_vars
    PROVE  PurgesInv'
<1>1. confirmed \in Nat /\ \A e \in Endpoints : entry[e].version \in Nat
  BY LimitsAssumption DEF ShapeInv, FieldsOK, EntriesOK
<1>2. IsFiniteSet(NumbersOf(purges)) /\ Cardinality(NumbersOf(purges)) \in Nat
  <2>1. IsFiniteSet(0 .. (confirmed - 1)) /\ NumbersOf(purges) \in SUBSET (0 .. (confirmed - 1))
    BY <1>1, FS_Interval DEF PurgesInv
  <2> QED  BY <2>1, FS_Subset, FS_CardinalityType
<1>3. CASE LoseComponents
  <2>1. Sane(purges') /\ NumbersOf(purges') = NumbersOf(purges)
    BY <1>3, UnmountedSane DEF LoseComponents, PurgesInv
  <2> QED  BY <1>3, <2>1 DEF LoseComponents, PurgesInv, SameVersions
<1>4. ASSUME NEW p, Confirmed(p) PROVE PurgesInv'
  <2>1. NumbersOf(purges') = NumbersOf(purges) \union {confirmed}
    BY <1>4 DEF Confirmed, NumbersOf
  <2>2. confirmed \notin NumbersOf(purges)
    BY <1>1 DEF PurgesInv
  <2>3. Sane(purges')
    BY <1>4, <2>2 DEF Confirmed, PurgesInv, Sane, Distinct, NumbersOf
  <2>4. Cardinality(NumbersOf(purges')) = Cardinality(NumbersOf(purges)) + 1
    BY <1>2, <2>1, <2>2, FS_AddElement
  <2>5. NumbersOf(purges') \subseteq 0 .. (confirmed' - 1)
    <3>1. confirmed' - 1 = confirmed
      BY <1>1, <1>4 DEF Confirmed
    <3> QED  BY <1>1, <2>1, <3>1 DEF PurgesInv
  <2>6. ASSUME NEW e \in Endpoints
        PROVE  entry'[e].version + Cardinality(NumbersOf(purges')) <= confirmed'
    BY <1>1, <1>2, <1>4, <2>4 DEF Confirmed, SameVersions, PurgesInv
  <2> QED  BY <2>3, <2>5, <2>6 DEF PurgesInv
<1>5. ASSUME NEW p \in purges, Serve(p) PROVE PurgesInv'
  BY <1>5, ServedSane DEF PurgesInv, SameVersions
<1>6. ASSUME NEW p, Ended(p) PROVE PurgesInv'
  <2>1. Sane(purges \ {p}) /\ NumbersOf(purges \ {p}) = NumbersOf(purges) \ {p.n}
    BY <1>6 DEF Ended, PurgesInv, Sane, Distinct, NumbersOf
  <2>2. Sane(purges') /\ NumbersOf(purges') = NumbersOf(purges) \ {p.n}
    BY <1>6, <2>1 DEF Ended
  <2>3. p.n \in NumbersOf(purges)
    BY <1>6 DEF Ended, NumbersOf
  <2>4. Cardinality(NumbersOf(purges')) = Cardinality(NumbersOf(purges)) - 1
    BY <1>2, <2>2, <2>3, FS_RemoveElement
  <2>5. ASSUME NEW e \in Endpoints
        PROVE  entry'[e].version + Cardinality(NumbersOf(purges')) <= confirmed'
    BY <1>1, <1>2, <1>6, <2>4 DEF Ended, PurgesInv
  <2> QED  BY <1>6, <2>2, <2>5 DEF Ended, PurgesInv
<1> QED  BY <1>3, <1>4, <1>5, <1>6, PurgesMove

\* The purges under way are numbered, addressed and paid for.
LEMMA PurgesCorrect == Spec => []PurgesInv
<1>1. ASSUME Init PROVE PurgesInv
  <2>1. purges = {} /\ confirmed = 0 /\ \A e \in Endpoints : entry[e].version = 0
    BY <1>1 DEF Init
  <2>2. NumbersOf(purges) = {}
    BY <2>1 DEF NumbersOf
  <2> QED  BY <2>1, <2>2, FS_EmptySet DEF PurgesInv, Sane, Distinct
<1>2. ShapeInv /\ PurgesInv /\ [Next]_vars => PurgesInv'
  BY PurgesStep
<1> QED  BY <1>1, <1>2, ShapeCorrect, PTL DEF Spec

-----------------------------------------------------------------------------
(* Requests.  One of an entry's own version keeps it from being asked for   *)
(* again: it has a promise until it has data or an error, and all three go  *)
(* only with the version.                                                   *)
RequestsInv ==
    \A r \in requests :
        /\ r.version <= entry[r.endpoint].version
        /\ r.version = entry[r.endpoint].version => ~Missing(r.endpoint, FALSE)

SingleInv == RequestsInv /\ OneRequestPerVersion

\* A step that adds no request and clears no entry without a new version.
LEMMA NoNewRequests ==
    ASSUME ShapeInv, SingleInv, requests' \subseteq requests,
           \A e \in Endpoints :
              \/ entry'[e] = entry[e]
              \/ entry'[e].version = entry[e].version /\ ~MissingNow(entry'[e])
              \/ entry'[e].version = entry[e].version + 1
    PROVE  SingleInv'
<1>1. OneRequestPerVersion'
  BY DEF SingleInv, OneRequestPerVersion
<1>2. ASSUME NEW r \in requests'
      PROVE  /\ r.version <= entry'[r.endpoint].version
             /\ r.version = entry'[r.endpoint].version => ~MissingNow(entry'[r.endpoint])
  <2>1. r \in requests /\ r.endpoint \in Endpoints /\ r.version \in Nat
    BY DEF ShapeInv, FieldsOK
  <2>2. /\ r.version <= entry[r.endpoint].version
        /\ r.version = entry[r.endpoint].version => ~MissingNow(entry[r.endpoint])
    BY <2>1 DEF SingleInv, RequestsInv, Missing, UnlessAnswered, MissingNow
  <2>3. entry[r.endpoint].version \in Nat
    BY <2>1 DEF ShapeInv, EntriesOK
  <2> QED  BY <2>1, <2>2, <2>3
<1> QED  BY <1>1, <1>2 DEF SingleInv, RequestsInv, Missing, UnlessAnswered, MissingNow

LEMMA RequestsStep ==
    ASSUME ShapeInv, SingleInv, [Next]_vars
    PROVE  SingleInv'
<1>0. ASSUME UNCHANGED <<entry, requests>> PROVE SingleInv'
  BY <1>0, NoNewRequests
<1>1. CASE Effects
  <2> DEFINE New(w) == [endpoint |-> w[2], version |-> entry[w[2]].version, by |-> w[1]]
  <2>1. PICK asking \in SUBSET (Components \X Endpoints) :
            /\ \A v, w \in asking : v[2] = w[2] => v = w
            /\ \A w \in asking : MissingNow(entry[w[2]])
            /\ entry' = [e \in Endpoints |-> IF \E w \in asking : w[2] = e
                                             THEN [entry[e] EXCEPT !.promise = TRUE] ELSE entry[e]]
            /\ requests' = requests \union {New(w) : w \in asking}
    BY <1>1, EffectsShape
  <2>2. \A w \in asking : w[2] \in Endpoints
    OBVIOUS
  <2>3. \A r \in requests :
           /\ r.endpoint \in Endpoints /\ r.version \in Nat
           /\ r.version <= entry[r.endpoint].version
           /\ r.version = entry[r.endpoint].version => ~MissingNow(entry[r.endpoint])
    BY DEF ShapeInv, FieldsOK, SingleInv, RequestsInv, Missing, UnlessAnswered, MissingNow
  <2>4. \A e \in Endpoints :
           /\ entry'[e].version = entry[e].version
           /\ \/ entry'[e] = entry[e] /\ ~\E w \in asking : w[2] = e
              \/ ~MissingNow(entry'[e])
    BY <2>1 DEF ShapeInv, EntriesOK, MissingNow
  <2>7. OneRequestPerVersion'
    <3> SUFFICES ASSUME NEW r \in requests', NEW s \in requests',
                        r.endpoint = s.endpoint, r.version = s.version
                 PROVE  r = s
      BY DEF OneRequestPerVersion
    <3>1. CASE r \in requests /\ s \in requests
      BY <3>1 DEF SingleInv, OneRequestPerVersion
    <3>2. ASSUME NEW a \in requests, NEW w \in asking
          PROVE  ~(a.endpoint = New(w).endpoint /\ a.version = New(w).version)
      BY <2>1, <2>3
    <3>3. CASE r \in requests /\ s \notin requests
      BY <2>1, <3>2, <3>3
    <3>4. CASE r \notin requests /\ s \in requests
      BY <2>1, <3>2, <3>4
    <3>5. CASE r \notin requests /\ s \notin requests
      <4>1. PICK v \in asking, w \in asking : r = New(v) /\ s = New(w)
        BY <2>1, <3>5
      <4>2. v = w
        BY <2>1, <4>1
      <4> QED  BY <4>1, <4>2
    <3> QED  BY <3>1, <3>3, <3>4, <3>5
  <2>8. ASSUME NEW r \in requests'
        PROVE  /\ r.version <= entry'[r.endpoint].version
               /\ r.version = entry'[r.endpoint].version => ~MissingNow(entry'[r.endpoint])
    <3>1. CASE r \in requests
      BY <2>3, <2>4, <3>1
    <3>2. CASE r \notin requests
      <4>1. PICK w \in asking : r = New(w)
        BY <2>1, <3>2
      <4>2. entry[w[2]].version \in Nat
        BY <2>2 DEF ShapeInv, EntriesOK
      <4>3. r.endpoint = w[2] /\ r.version = entry[w[2]].version
        BY <4>1
      <4> QED  BY <2>2, <2>4, <4>2, <4>3
    <3> QED  BY <3>1, <3>2
  <2> QED  BY <2>7, <2>8 DEF SingleInv, RequestsInv, Missing, UnlessAnswered, MissingNow
<1>2. ASSUME NEW r \in requests, Answer(r) PROVE SingleInv'
  <2>1. \A e \in Endpoints :
           \/ entry'[e] = entry[e]
           \/ entry'[e].version = entry[e].version /\ ~MissingNow(entry'[e])
    BY <1>2, AnswerStep
  <2>2. requests' \subseteq requests
    BY <1>2, AnswerStep
  <2> QED  BY <2>1, <2>2, NoNewRequests
<1>3. ASSUME NEW p, NEW success \in BOOLEAN, Settled(p, success) PROVE SingleInv'
  <2>1. /\ entry' = entry \/ entry' = [entry EXCEPT ![STATS_KEY] = Invalidated(@)]
        /\ requests' = requests
    BY <1>3 DEF Settled
  <2>2. Invalidated(entry[STATS_KEY]).version = entry[STATS_KEY].version + 1
    BY KeysFact, InvalidatedShape DEF ShapeInv, EntriesOK
  <2>3. \A e \in Endpoints :
           \/ entry'[e] = entry[e]
           \/ entry'[e].version = entry[e].version + 1
    BY <2>1, <2>2, KeysFact DEF ShapeInv, EntriesOK
  <2> QED  BY <2>1, <2>3, NoNewRequests
<1>4. ASSUME NEW p \in purges, Serve(p) \/ Resolve(p) \/ Reject(p) PROVE SingleInv'
  <2>1. CASE Serve(p)
    BY <1>0, <2>1 DEF Serve
  <2>2. CASE Resolve(p) \/ Reject(p)
    <3>1. \E success \in BOOLEAN : Settled(p, success)
      BY <2>2, Zenon DEF Resolve, Reject, Finally
    <3> QED  BY <1>3, <3>1
  <2> QED  BY <1>4, <2>1, <2>2
<1>5. ASSUME NEW p, Navigate(p) PROVE SingleInv'
  BY <1>0, <1>5 DEF Navigate
<1>6. ASSUME NEW open, ToggleButton(open) PROVE SingleInv'
  BY <1>0, <1>6 DEF ToggleButton
<1>7. CASE ConfirmButton \/ ConfirmAction
  BY <1>0, <1>7 DEF ConfirmButton, ConfirmAction
<1>8. CASE Fill \/ UNCHANGED vars
  BY <1>0, <1>8 DEF Fill, vars
<1>9. ASSUME NEW uid, ToggleRow(uid) \/ ConfirmRow(uid) PROVE SingleInv'
  BY <1>0, <1>9 DEF ToggleRow, ConfirmRow
<1>10. ASSUME NEW cs, Render(cs) PROVE SingleInv'
  BY <1>0, <1>10 DEF Render
<1> QED  BY <1>1, <1>2, <1>4, <1>5, <1>6, <1>7, <1>8, <1>9, <1>10 DEF Next, Answering, Purging

\* A request of an entry's own version means that nothing else asks for it.
LEMMA RequestsCorrect == Spec => []SingleInv
<1>1. Init => SingleInv
  BY DEF Init, SingleInv, RequestsInv, OneRequestPerVersion
<1>2. ShapeInv /\ SingleInv /\ [Next]_vars => SingleInv'
  BY RequestsStep
<1> QED  BY <1>1, <1>2, ShapeCorrect, PTL DEF Spec

(* Two requests for one endpoint are on their way together only across an   *)
(* invalidation, with any number of subscribers, navigations and failures   *)
(* (restCache.ts, useEntry).                                                *)
THEOREM RequestsAreShared == Spec => []OneRequestPerVersion
<1>1. SingleInv => OneRequestPerVersion
  BY DEF SingleInv
<1> QED  BY <1>1, RequestsCorrect, PTL

-----------------------------------------------------------------------------
(* Spinners.  A disabled confirmation has its live purge among those under  *)
(* way: the purge that ends while its component is there takes the spinner  *)
(* with it, and a component that goes takes its own spinner along.          *)
LEMMA SpinnersStep ==
    ASSUME ShapeInv, PurgesInv, SpinnersEnd, [Next]_vars
    PROVE  SpinnersEnd'
<1>0. purges \subseteq PurgeRecord
  BY DEF PurgesInv, Sane
<1>1. ASSUME UNCHANGED <<purges, button, table>> PROVE SpinnersEnd'
  BY <1>1 DEF SpinnersEnd
<1>2. ASSUME NEW ps \in SUBSET purges, NEW p \in ps, NEW by, p.by \notin by
      PROVE  p \in Unmounted(ps, by)
  BY <1>2 DEF Unmounted
<1>3. ASSUME NEW cs, Render(cs) PROVE SpinnersEnd'
  <2>1. /\ button' = button
        /\ \/ table' = table /\ purges' = purges
           \/ table' = Closed /\ purges' = Unmounted(purges, {"table"})
    BY <1>3, Zenon DEF Render
  <2>2. CASE table' = table /\ purges' = purges
    BY <1>1, <2>1, <2>2
  <2>3. CASE table' = Closed /\ purges' = Unmounted(purges, {"table"})
    <3>1. ~table'.isLoading
      BY <2>3 DEF Closed
    <3>2. button'.isLoading => \E p \in purges' : p.by = "button" /\ p.live
      <4> SUFFICES ASSUME button.isLoading PROVE \E p \in purges' : p.by = "button" /\ p.live
        BY <2>1
      <4>1. PICK p \in purges : p.by = "button" /\ p.live
        BY DEF SpinnersEnd
      <4>2. p \in purges'
        BY <1>2, <2>3, <4>1
      <4> QED  BY <4>1, <4>2
    <3> QED  BY <3>1, <3>2 DEF SpinnersEnd
  <2> QED  BY <2>1, <2>2, <2>3
<1>4. ASSUME NEW p \in purges, NEW success \in BOOLEAN, Settled(p, success) PROVE SpinnersEnd'
  <2>1. /\ purges' = purges \ {p}
        /\ table' = IF p.by = "table" /\ p.live THEN Closed ELSE table
        /\ button' = IF p.by = "button" /\ p.live THEN Idle ELSE button
    BY <1>4, Zenon DEF Settled
  <2>2. button'.isLoading => \E q \in purges' : q.by = "button" /\ q.live
    <3> SUFFICES ASSUME button'.isLoading PROVE \E q \in purges' : q.by = "button" /\ q.live
      OBVIOUS
    <3>1. ~(p.by = "button" /\ p.live) /\ button' = button
      BY <2>1 DEF Idle
    <3> QED  BY <2>1, <3>1 DEF SpinnersEnd
  <2>3. table'.isLoading => \E q \in purges' : q.by = "table" /\ q.live
    <3> SUFFICES ASSUME table'.isLoading PROVE \E q \in purges' : q.by = "table" /\ q.live
      OBVIOUS
    <3>1. ~(p.by = "table" /\ p.live) /\ table' = table
      BY <2>1 DEF Closed
    <3> QED  BY <2>1, <3>1 DEF SpinnersEnd
  <2> QED  BY <2>2, <2>3 DEF SpinnersEnd
<1>5. ASSUME NEW p \in purges, Serve(p) PROVE SpinnersEnd'
  <2>1. PICK status :
            /\ purges' = (purges \ {p}) \union {[p EXCEPT !.status = status]}
            /\ UNCHANGED <<button, table>>
    BY <1>5 DEF Serve
  <2>2. [p EXCEPT !.status = status].by = p.by /\ [p EXCEPT !.status = status].live = p.live
    BY <1>0 DEF PurgeRecord
  <2>3. \A q \in purges : \E a \in purges' : a.by = q.by /\ a.live = q.live
    BY <2>1, <2>2
  <2> QED  BY <2>1, <2>3 DEF SpinnersEnd
<1>6. ASSUME NEW p \in purges, Resolve(p) \/ Reject(p) PROVE SpinnersEnd'
  <2>1. \E success \in BOOLEAN : Settled(p, success)
    BY <1>6, Zenon DEF Resolve, Reject, Finally
  <2> QED  BY <1>4, <2>1
<1>7. ASSUME NEW p, Navigate(p) PROVE SpinnersEnd'
  BY <1>7 DEF Navigate, SpinnersEnd, Idle, Closed
<1>8. ASSUME NEW open, ToggleButton(open) PROVE SpinnersEnd'
  <2>1. button'.isLoading = button.isLoading /\ purges' = purges /\ table' = table
    BY <1>8 DEF ToggleButton, ShapeInv, FieldsOK
  <2> QED  BY <2>1 DEF SpinnersEnd
<1>9. ASSUME NEW by, NEW uid, NEW params, NEW wildcard, Post(by, uid, params, wildcard)
      PROVE  /\ purges \subseteq purges'
             /\ \E p \in purges' : p.by = by /\ p.live
  <2> DEFINE p == [by |-> by, contentType |-> uid, params |-> params,
                   wildcard |-> wildcard, document |-> page.documentId,
                   n |-> confirmed, live |-> TRUE, status |-> "sent"]
  <2>1. purges' = purges \union {p}
    BY <1>9 DEF Post
  <2>2. p.by = by /\ p.live
    OBVIOUS
  <2> HIDE DEF p
  <2> QED  BY <2>1, <2>2
<1>10. CASE ConfirmButton
  <2>1. Post("button", page.model, [n \in {} |-> n], TRUE) /\ table' = table
    BY <1>10 DEF ConfirmButton
  <2> QED  BY <1>9, <2>1 DEF SpinnersEnd
<1>11. CASE ConfirmAction
  <2>1. /\ \E params, single : Post("action", page.model, params, single)
        /\ table' = table /\ button' = button
    BY <1>11, Zenon DEF ConfirmAction
  <2> QED  BY <1>9, <2>1 DEF SpinnersEnd
<1>12. ASSUME NEW uid, ToggleRow(uid) PROVE SpinnersEnd'
  <2>1. table'.isLoading = table.isLoading /\ purges' = purges /\ button' = button
    BY <1>12 DEF ToggleRow, ShapeInv, FieldsOK
  <2> QED  BY <2>1 DEF SpinnersEnd
<1>13. ASSUME NEW uid, ConfirmRow(uid) PROVE SpinnersEnd'
  <2>1. Post("table", uid, [n \in {} |-> n], TRUE) /\ button' = button
    BY <1>13 DEF ConfirmRow
  <2> QED  BY <1>9, <2>1 DEF SpinnersEnd
<1>14. CASE Effects \/ Answering \/ Fill \/ UNCHANGED vars
  BY <1>1, <1>14 DEF Effects, Answering, Answer, Fill, vars
<1> QED  BY <1>3, <1>5, <1>6, <1>7, <1>8, <1>10, <1>11, <1>12, <1>13, <1>14
         DEF Next, Answering, Purging

(* No confirmation stays disabled by a spinner whose purge is over, however *)
(* many purges there are, of whichever component, and whichever fail        *)
(* (PurgeCacheButton/index.tsx, ContentTypeTable/index.tsx).                *)
THEOREM SpinnersHaveTheirPurge == Spec => []SpinnersEnd
<1>1. Init => SpinnersEnd
  BY DEF Init, SpinnersEnd, Idle, Closed
<1>2. ShapeInv /\ PurgesInv /\ SpinnersEnd /\ [Next]_vars => SpinnersEnd'
  BY SpinnersStep
<1> QED  BY <1>1, <1>2, ShapeCorrect, PurgesCorrect, PTL DEF Spec

-----------------------------------------------------------------------------
(* Renders.  What is due is on the page: a listener goes with its component *)
(* and a button's purge can render it again only while it is there.         *)
LiveOK(ps) == \A p \in ps : (p.by = "button" /\ p.live) => "button" \in ComponentsOf(page)
DueInv == due \subseteq ComponentsOf(page) /\ LiveOK(purges)

LEMMA ListenersHere ==
    ASSUME ViewsOK, NEW e
    PROVE  Listeners(e) \subseteq ComponentsOf(page)
BY EmptyFact DEF ViewsOK, ViewOK, Listeners

LEMMA ButtonHere ==
    ASSUME ViewsOK, ButtonShown
    PROVE  "button" \in ComponentsOf(page)
BY DEF ViewsOK, ViewOK, ButtonShown, Components

LEMMA UnmountedLive ==
    ASSUME PurgesInv, NEW by, LiveOK(purges)
    PROVE  LiveOK(Unmounted(purges, by))
<1> SUFFICES ASSUME NEW p \in purges, Kept(p, by).by = "button", Kept(p, by).live
             PROVE  "button" \in ComponentsOf(page)
  BY DEF Unmounted, Kept, LiveOK
<1>1. p \in PurgeRecord
  BY DEF PurgesInv, Sane
<1>2. p.by = "button" /\ p.live
  BY <1>1 DEF Kept, PurgeRecord
<1> QED  BY <1>2 DEF LiveOK

LEMMA DueStep ==
    ASSUME ShapeInv, PurgesInv, DueInv, [Next]_vars
    PROVE  DueInv'
<1> USE DEF ShapeInv, DueInv
<1>1. ASSUME UNCHANGED <<due, page, purges>> PROVE DueInv'
  BY <1>1 DEF LiveOK
<1>2. ASSUME NEW r \in requests, Answer(r) PROVE DueInv'
  BY <1>2, AnswerStep, ListenersHere DEF LiveOK
<1>3. ASSUME NEW p \in purges, NEW success \in BOOLEAN, Settled(p, success) PROVE DueInv'
  BY <1>3, ListenersHere DEF Settled, LiveOK
<1>4. ASSUME NEW p \in purges, Resolve(p) \/ Reject(p) PROVE DueInv'
  <2>1. \E success \in BOOLEAN : Settled(p, success)
    BY <1>4, Zenon DEF Resolve, Reject, Finally
  <2> QED  BY <1>3, <2>1
<1>5. ASSUME NEW p \in purges, Serve(p) PROVE DueInv'
  <2>1. PICK status :
            /\ purges' = (purges \ {p}) \union {[p EXCEPT !.status = status]}
            /\ UNCHANGED <<due, page>>
    BY <1>5 DEF Serve
  <2>2. p \in PurgeRecord
    BY DEF PurgesInv, Sane
  <2>3. [p EXCEPT !.status = status].by = p.by /\ [p EXCEPT !.status = status].live = p.live
    BY <2>2 DEF PurgeRecord
  <2> QED  BY <2>1, <2>3 DEF LiveOK
<1>6. ASSUME NEW p, Navigate(p) PROVE DueInv'
  <2>1. due' = ComponentsOf(page')
    BY <1>6 DEF Navigate
  <2>2. purges' = Unmounted(purges, {"button", "table"})
    BY <1>6 DEF Navigate
  <2>3. \A q \in purges : Kept(q, {"button", "table"}).by = "button"
                           => ~Kept(q, {"button", "table"}).live
    BY DEF PurgesInv, Sane, PurgeRecord, Kept
  <2>4. \A q \in purges' : q.by = "button" => ~q.live
    BY <2>2, <2>3 DEF Unmounted, Kept
  <2> QED  BY <2>1, <2>4 DEF LiveOK
<1>7. ASSUME NEW open, ToggleButton(open) PROVE DueInv'
  BY <1>7, ButtonHere DEF ToggleButton, LiveOK
<1>8. ASSUME NEW by, NEW uid, NEW params, NEW wildcard, Post(by, uid, params, wildcard),
             page' = page, by = "button" => "button" \in ComponentsOf(page)
      PROVE  LiveOK(purges)'
  <2> DEFINE p == [by |-> by, contentType |-> uid, params |-> params,
                   wildcard |-> wildcard, document |-> page.documentId,
                   n |-> confirmed, live |-> TRUE, status |-> "sent"]
  <2>1. purges' = purges \union {p}
    BY <1>8 DEF Post
  <2>2. p.by = by
    OBVIOUS
  <2> HIDE DEF p
  <2> QED  BY <1>8, <2>1, <2>2 DEF LiveOK
<1>9. CASE ConfirmButton
  <2>1. Post("button", page.model, [n \in {} |-> n], TRUE) /\ page' = page
    BY <1>9 DEF ConfirmButton
  <2>2. "button" \in ComponentsOf(page) /\ due' = due \union {"button"}
    BY <1>9, ButtonHere DEF ConfirmButton
  <2> QED  BY <1>8, <2>1, <2>2
<1>10. CASE ConfirmAction
  <2>1. /\ \E params, single : Post("action", page.model, params, single)
        /\ page' = page /\ due' = due
    BY <1>10, Zenon DEF ConfirmAction
  <2> QED  BY <1>8, <2>1
<1>11. ASSUME NEW uid, ConfirmRow(uid) PROVE DueInv'
  <2>1. Post("table", uid, [n \in {} |-> n], TRUE) /\ page' = page /\ due' = due
    BY <1>11 DEF ConfirmRow
  <2> QED  BY <1>8, <2>1
<1>12. ASSUME NEW cs, Render(cs) PROVE DueInv'
  <2>1. due' = due \ cs /\ page' = page
    BY <1>12 DEF Render
  <2>2. purges' = purges \/ purges' = Unmounted(purges, {"table"})
    BY <1>12, Zenon DEF Render
  <2>3. LiveOK(purges')
    BY <2>2, UnmountedLive
  <2> QED  BY <2>1, <2>3 DEF LiveOK
<1>13. CASE Effects \/ Fill \/ (\E uid \in Types : ToggleRow(uid)) \/ UNCHANGED vars
  BY <1>1, <1>13 DEF Effects, Fill, ToggleRow, vars
<1> QED  BY <1>2, <1>4, <1>5, <1>6, <1>7, <1>9, <1>10, <1>11, <1>12, <1>13
         DEF Next, Answering, Purging

LEMMA DueCorrect == Spec => []DueInv
<1>1. Init => DueInv
  BY DEF Init, DueInv, LiveOK
<1>2. ShapeInv /\ PurgesInv /\ DueInv /\ [Next]_vars => DueInv'
  BY DueStep
<1> QED  BY <1>1, <1>2, ShapeCorrect, PurgesCorrect, PTL DEF Spec

LEMMA UnchangedSnapshots ==
    ASSUME NEW c, Overtaken(c)', view'[c] = view[c], ran'[c] = ran[c], c \notin due,
           \A e \in DOMAIN view[c] : Snapshot(e)' = Snapshot(e)
    PROVE  Overtaken(c)
BY DEF Overtaken, Behind

LEMMA MissesStep ==
    ASSUME ShapeInv, [Next]_vars, NEW c \in Components, ran[c] # NotRun, Overtaken(c)'
    PROVE  Overtaken(c)
<1> USE DEF ShapeInv
<1>0. /\ Mounted(c) /\ view[c] \in [Uses(c) -> Snapshots] /\ DOMAIN ran[c] = Uses(c)
      /\ Uses(c) \subseteq Endpoints /\ c \in ComponentsOf(page)
  BY UsesFact DEF ViewsOK, ViewOK
<1>1. ASSUME UNCHANGED <<view, ran, entry>>, due \subseteq due' PROVE Overtaken(c)
  <2>1. \A e \in Endpoints : Snapshot(e)' = Snapshot(e)
    BY <1>1 DEF Snapshot
  <2>2. c \notin due
    BY <1>1 DEF Overtaken
  <2> QED  BY <1>0, <1>1, <2>1, <2>2, UnchangedSnapshots
<1>2. CASE Effects
  <2>1. PICK asking \in SUBSET (Components \X Endpoints) :
            entry' = [e \in Endpoints |-> IF \E w \in asking : w[2] = e
                                         THEN [entry[e] EXCEPT !.promise = TRUE] ELSE entry[e]]
    BY <1>2, EffectsShape
  <2>2. ASSUME NEW e \in Endpoints PROVE Snapshot(e)' = Snapshot(e)
    <3>1. entry'[e] = entry[e] \/ entry'[e] = [entry[e] EXCEPT !.promise = TRUE]
      BY <2>1
    <3> QED  BY <3>1 DEF Snapshot, EntriesOK
  <2>3. view' = view /\ due' = due
    BY <1>2 DEF Effects
  <2> QED  BY <1>0, <2>2, <2>3 DEF Overtaken, Behind
<1>3. ASSUME NEW e \in Endpoints, \A x \in Endpoints : x # e => entry'[x] = entry[x],
             due \union Listeners(e) \subseteq due', UNCHANGED <<view, ran>>
      PROVE  Overtaken(c)
  <2>1. c \notin due'
    BY DEF Overtaken
  <2>2. e \notin Uses(c)
    BY <1>0, <1>3, <2>1 DEF Listeners
  <2>3. \A x \in Uses(c) : Snapshot(x)' = Snapshot(x)
    BY <1>0, <1>3, <2>2 DEF Snapshot
  <2> QED  BY <1>0, <1>3, <2>1, <2>3, UnchangedSnapshots
<1>4. ASSUME NEW r \in requests, Answer(r) PROVE Overtaken(c)
  <2>1. UNCHANGED <<view, ran>>
    BY <1>4, AnswerStep DEF components
  <2> QED  BY <1>3, <1>4, <2>1, AnswerStep
<1>5. ASSUME NEW p, NEW success \in BOOLEAN, Settled(p, success) PROVE Overtaken(c)
  <2>1. UNCHANGED <<view, ran>> /\ due \subseteq due'
    BY <1>5 DEF Settled, components
  <2>2. CASE success
    <3>1. entry' = [entry EXCEPT ![STATS_KEY] = Invalidated(@)]
      BY <1>5, <2>2 DEF Settled
    <3>2. \A x \in Endpoints : x # STATS_KEY => entry'[x] = entry[x]
      BY <3>1 DEF EntriesOK
    <3>3. Listeners(STATS_KEY) \subseteq due'
      BY <1>5, <2>2 DEF Settled
    <3> QED  BY <1>3, <2>1, <3>2, <3>3, KeysFact
  <2>3. CASE ~success
    BY <1>1, <1>5, <2>1, <2>3 DEF Settled
  <2> QED  BY <2>2, <2>3
<1>6. ASSUME NEW p \in purges, Serve(p) \/ Resolve(p) \/ Reject(p) PROVE Overtaken(c)
  <2>1. CASE Serve(p)
    BY <1>1, <2>1 DEF Serve, components
  <2>2. CASE Resolve(p) \/ Reject(p)
    <3>1. \E success \in BOOLEAN : Settled(p, success)
      BY <2>2, Zenon DEF Resolve, Reject, Finally
    <3> QED  BY <1>5, <3>1
  <2> QED  BY <1>6, <2>1, <2>2
<1>7. ASSUME NEW p, Navigate(p) PROVE FALSE
  BY <1>7 DEF Navigate, Overtaken
<1>8. ASSUME NEW cs, Render(cs) PROVE Overtaken(c)
  <2>1. \A e \in Endpoints : Snapshot(e)' = Snapshot(e)
    BY <1>8 DEF Render, Snapshot
  <2>2. CASE c \in cs
    <3>1. view'[c] = [e \in Uses(c) |-> Snapshot(e)]
      BY <1>8, <2>2 DEF Render
    <3>2. ~Behind(c)'
      BY <1>0, <2>1, <3>1 DEF Behind
    <3> QED  BY <3>2 DEF Overtaken
  <2>3. CASE c \notin cs
    <3>1. view'[c] = view[c] /\ ran'[c] = ran[c] /\ (c \in due <=> c \in due')
      BY <1>8, <2>3 DEF Render
    <3> QED  BY <1>0, <2>1, <3>1, UnchangedSnapshots DEF Overtaken
  <2> QED  BY <2>2, <2>3
<1>9. ASSUME NEW open, ToggleButton(open) PROVE Overtaken(c)
  BY <1>1, <1>9 DEF ToggleButton, components
<1>10. CASE ConfirmButton \/ ConfirmAction \/ Fill \/ UNCHANGED vars
  BY <1>1, <1>10 DEF ConfirmButton, ConfirmAction, Fill, vars, components
<1>11. ASSUME NEW uid, ToggleRow(uid) \/ ConfirmRow(uid) PROVE Overtaken(c)
  BY <1>1, <1>11 DEF ToggleRow, ConfirmRow, components
<1> QED  BY <1>2, <1>4, <1>6, <1>7, <1>8, <1>9, <1>10, <1>11 DEF Next, Answering, Purging

(* A component that has run its effects misses nothing from then on: every  *)
(* change of an entry finds its listener, and what makes it render again    *)
(* stays due until the render, whose snapshot is the entry's.  So only the  *)
(* first effects after a mount can leave a component behind (restCache.ts,  *)
(* useEndpoint).                                                            *)
THEOREM OnlyFirstEffectsMiss == Spec => OnlyMountingMisses
<1> DEFINE Misses == \A c \in Components : Overtaken(c)' => (Overtaken(c) \/ ran[c] = NotRun)
<1>1. ShapeInv /\ [Next]_vars => [Misses]_vars
  BY MissesStep
<1> QED  BY <1>1, ShapeCorrect, PTL DEF Spec, OnlyMountingMisses

-----------------------------------------------------------------------------
(* Waiting.  A component that has run its effects for an entry as it is has *)
(* an answer in it or one on the way; versions only grow, so an effect that *)
(* ran for an older one has still to run again.                             *)
Answered(e) == entry[e].data # Undefined \/ entry[e].error # Undefined
OnItsWay(e) == \E r \in requests : r.endpoint = e

AskedInv ==
    /\ \A c \in ComponentsOf(page) : Mounted(c) \/ c \in due
    /\ \A e \in Endpoints : entry[e].promise => OnItsWay(e)
    /\ \A c \in Components : \A e \in DOMAIN view[c] : view[c][e].version <= entry[e].version
    /\ \A c \in Components : \A e \in DOMAIN ran[c] :
          /\ ran[c][e].version \in Nat /\ ran[c][e].version <= entry[e].version
          /\ (ran[c][e].enabled /\ ran[c][e].version = entry[e].version)
                 => (Answered(e) \/ OnItsWay(e))

\* A step that keeps the components, and every request of what it leaves as it is.
LEMMA AskedKept ==
    ASSUME ShapeInv, AskedInv, UNCHANGED <<view, ran, page>>, due \subseteq due',
           \A e \in Endpoints :
              \/ entry'[e] = entry[e] /\ (OnItsWay(e) => OnItsWay(e)')
              \/ entry'[e].version = entry[e].version /\ Answered(e)' /\ ~entry'[e].promise
              \/ entry'[e].version = entry[e].version + 1 /\ ~entry'[e].promise
    PROVE  AskedInv'
<1>1. \A e \in Endpoints : entry[e].version \in Nat
  BY DEF ShapeInv, EntriesOK
<1>2. ASSUME NEW c \in Components
      PROVE  /\ DOMAIN view[c] \subseteq Endpoints /\ DOMAIN ran[c] \subseteq Endpoints
             /\ \A e \in DOMAIN view[c] : view[c][e].version \in Nat
  BY UsesFact, EmptyFact DEF ShapeInv, ViewsOK, ViewOK, Mounted, Snapshots
<1>3. \A c \in ComponentsOf(page') : Mounted(c)' \/ c \in due'
  BY DEF AskedInv, Mounted
<1>4. \A e \in Endpoints : entry'[e].promise => OnItsWay(e)'
  BY DEF AskedInv
<1>5. ASSUME NEW c \in Components, NEW e \in DOMAIN view[c]
      PROVE  view[c][e].version <= entry'[e].version
  <2>1. e \in Endpoints /\ view[c][e].version <= entry[e].version /\ view[c][e].version \in Nat
    BY <1>2 DEF AskedInv
  <2> QED  BY <1>1, <2>1
<1>6. ASSUME NEW c \in Components, NEW e \in DOMAIN ran[c]
      PROVE  /\ ran[c][e].version \in Nat /\ ran[c][e].version <= entry'[e].version
             /\ (ran[c][e].enabled /\ ran[c][e].version = entry'[e].version)
                    => (Answered(e)' \/ OnItsWay(e)')
  <2>1. /\ e \in Endpoints /\ ran[c][e].version \in Nat /\ ran[c][e].version <= entry[e].version
        /\ (ran[c][e].enabled /\ ran[c][e].version = entry[e].version)
               => (Answered(e) \/ OnItsWay(e))
    BY <1>2 DEF AskedInv
  <2>2. CASE entry'[e] = entry[e] /\ (OnItsWay(e) => OnItsWay(e)')
    BY <2>1, <2>2 DEF Answered
  <2>3. CASE entry'[e].version = entry[e].version /\ Answered(e)'
    BY <2>1, <2>3
  <2>4. CASE entry'[e].version = entry[e].version + 1
    BY <1>1, <2>1, <2>4
  <2> QED  BY <2>1, <2>2, <2>3, <2>4
<1> QED  BY <1>3, <1>4, <1>5, <1>6 DEF AskedInv

LEMMA AskedByEffects ==
    ASSUME ShapeInv, AskedInv, Effects
    PROVE  AskedInv'
<1>1. PICK asking \in SUBSET (Components \X Endpoints) :
          /\ \A c \in EffectsPending, e \in Endpoints :
                (e \in Changed(c) /\ Enabled(c, e) /\ MissingNow(entry[e]))
                    => \E w \in asking : w[2] = e
          /\ entry' = [e \in Endpoints |-> IF \E w \in asking : w[2] = e
                                           THEN [entry[e] EXCEPT !.promise = TRUE] ELSE entry[e]]
          /\ requests' = requests \union
                 {[endpoint |-> w[2], version |-> entry[w[2]].version, by |-> w[1]] : w \in asking}
  BY EffectsShape
<1>2. ASSUME NEW e \in Endpoints, \E w \in asking : w[2] = e PROVE OnItsWay(e)'
  <2>1. PICK w \in asking : w[2] = e
    BY <1>2
  <2>2. [endpoint |-> w[2], version |-> entry[w[2]].version, by |-> w[1]] \in requests'
    BY <1>1, <2>1
  <2> QED  BY <2>1, <2>2 DEF OnItsWay
<1>3. \A e \in Endpoints : OnItsWay(e) => OnItsWay(e)'
  BY <1>1 DEF OnItsWay
<1>4. ASSUME NEW e \in Endpoints
      PROVE  /\ entry'[e].version = entry[e].version /\ (Answered(e)' <=> Answered(e))
             /\ entry'[e].promise => (entry[e].promise \/ \E w \in asking : w[2] = e)
  <2>1. entry'[e] = entry[e] \/ entry'[e] = [entry[e] EXCEPT !.promise = TRUE]
    BY <1>1
  <2>2. entry'[e].promise => (entry[e].promise \/ \E w \in asking : w[2] = e)
    BY <1>1
  <2> QED  BY <2>1, <2>2 DEF Answered, ShapeInv, EntriesOK
<1>5. view' = view /\ due' = due /\ page' = page
  BY DEF Effects
<1>6. ASSUME NEW c \in Components
      PROVE  /\ ran'[c] = IF c \in EffectsPending THEN [e \in DOMAIN view[c] |-> Dependencies(c, e)]
                          ELSE ran[c]
             /\ DOMAIN view[c] \subseteq Endpoints /\ DOMAIN ran[c] \subseteq Endpoints
             /\ \A e \in DOMAIN view[c] : view[c][e].version \in Nat
  <2>1. ran'[c] = IF c \in EffectsPending THEN [e \in DOMAIN view[c] |-> Dependencies(c, e)]
                  ELSE ran[c]
    BY Zenon DEF Effects
  <2> QED  BY <2>1, UsesFact, EmptyFact DEF ShapeInv, ViewsOK, ViewOK, Mounted, Snapshots
<1>7. ASSUME NEW c \in Components, NEW e \in DOMAIN ran'[c]
      PROVE  /\ ran'[c][e].version \in Nat /\ ran'[c][e].version <= entry'[e].version
             /\ (ran'[c][e].enabled /\ ran'[c][e].version = entry'[e].version)
                    => (Answered(e)' \/ OnItsWay(e)')
  <2>1. CASE e \in DOMAIN ran[c] /\ ran'[c][e] = ran[c][e]
    <3>1. /\ e \in Endpoints /\ ran[c][e].version \in Nat /\ ran[c][e].version <= entry[e].version
          /\ (ran[c][e].enabled /\ ran[c][e].version = entry[e].version)
                 => (Answered(e) \/ OnItsWay(e))
      BY <1>6, <2>1 DEF AskedInv
    <3> QED  BY <1>3, <1>4, <2>1, <3>1
  <2>2. CASE c \in EffectsPending /\ e \in Changed(c)
    <3>1. e \in DOMAIN view[c] /\ e \in Endpoints /\ ran'[c][e] = Dependencies(c, e)
      BY <1>6, <2>2
    <3>2. /\ ran'[c][e].version = view[c][e].version /\ view[c][e].version \in Nat
          /\ view[c][e].version <= entry[e].version
          /\ ran'[c][e].enabled => Enabled(c, e)
      <4>1. /\ ran'[c][e].version = view[c][e].version
            /\ ran'[c][e].enabled = Enabled(c, e)
        BY <3>1 DEF Dependencies
      <4>2. view[c][e].version \in Nat /\ view[c][e].version <= entry[e].version
        BY <1>6, <3>1 DEF AskedInv
      <4> QED  BY <4>1, <4>2
    <3>3. Enabled(c, e) => (Answered(e) \/ entry[e].promise \/ \E w \in asking : w[2] = e)
      BY <1>1, <2>2, <3>1 DEF MissingNow, Answered
    <3>4. Enabled(c, e) => (Answered(e)' \/ OnItsWay(e)')
      BY <1>2, <1>3, <1>4, <3>1, <3>3 DEF AskedInv
    <3> QED  BY <1>4, <3>1, <3>2, <3>4
  <2>3. c \notin EffectsPending => e \in DOMAIN ran[c] /\ ran'[c][e] = ran[c][e]
    BY <1>6
  <2>4. (c \in EffectsPending /\ e \notin Changed(c)) => e \in DOMAIN ran[c] /\ ran'[c][e] = ran[c][e]
    BY <1>6 DEF Changed
  <2> QED  BY <2>1, <2>2, <2>3, <2>4
<1>8. \A c \in ComponentsOf(page') : Mounted(c)' \/ c \in due'
  BY <1>5 DEF AskedInv, Mounted
<1>9. \A e \in Endpoints : entry'[e].promise => OnItsWay(e)'
  BY <1>2, <1>3, <1>4 DEF AskedInv
<1>10. ASSUME NEW c \in Components, NEW e \in DOMAIN view'[c]
       PROVE  view'[c][e].version <= entry'[e].version
  BY <1>4, <1>5, <1>6 DEF AskedInv
<1> QED  BY <1>7, <1>8, <1>9, <1>10 DEF AskedInv

LEMMA AskedStep ==
    ASSUME ShapeInv, AskedInv, [Next]_vars
    PROVE  AskedInv'
<1> USE DEF ShapeInv
<1>1. ASSUME UNCHANGED <<view, ran, page, entry, requests>>, due \subseteq due' PROVE AskedInv'
  BY <1>1, AskedKept DEF OnItsWay
<1>2. ASSUME NEW r \in requests, Answer(r) PROVE AskedInv'
  <2>1. PICK data \in Bodies \union {Undefined}, error \in Errors \union {Undefined} :
            /\ data # Undefined \/ error # Undefined
            /\ entry' = [entry EXCEPT ![r.endpoint].data = data, ![r.endpoint].error = error,
                                      ![r.endpoint].promise = FALSE]
    BY <1>2, AnswerShape
  <2>2. r.endpoint \in Endpoints
    BY DEF FieldsOK
  <2>3. /\ entry'[r.endpoint].version = entry[r.endpoint].version
        /\ Answered(r.endpoint)' /\ ~entry'[r.endpoint].promise
        /\ \A e \in Endpoints : e # r.endpoint => entry'[e] = entry[e]
    BY <2>1, <2>2 DEF EntriesOK, Answered
  <2>4. requests' = requests \ {r} /\ due \subseteq due' /\ UNCHANGED <<view, ran, page>>
    BY <1>2 DEF Answer, components
  <2>5. \A e \in Endpoints : e # r.endpoint => (OnItsWay(e) => OnItsWay(e)')
    BY <2>4 DEF OnItsWay
  <2> QED  BY <2>3, <2>4, <2>5, AskedKept
<1>3. ASSUME NEW p, NEW success \in BOOLEAN, Settled(p, success) PROVE AskedInv'
  <2>1. /\ entry' = entry \/ entry' = [entry EXCEPT ![STATS_KEY] = Invalidated(@)]
        /\ requests' = requests /\ due \subseteq due' /\ UNCHANGED <<view, ran, page>>
    BY <1>3 DEF Settled, components
  <2>2. /\ Invalidated(entry[STATS_KEY]).version = entry[STATS_KEY].version + 1
        /\ ~Invalidated(entry[STATS_KEY]).promise
    BY KeysFact, InvalidatedShape DEF EntriesOK
  <2>3. \A e \in Endpoints :
           \/ entry'[e] = entry[e] /\ (OnItsWay(e) => OnItsWay(e)')
           \/ entry'[e].version = entry[e].version + 1 /\ ~entry'[e].promise
    BY <2>1, <2>2, KeysFact DEF EntriesOK, OnItsWay
  <2> QED  BY <2>1, <2>3, AskedKept
<1>4. ASSUME NEW p \in purges, Serve(p) \/ Resolve(p) \/ Reject(p) PROVE AskedInv'
  <2>1. CASE Serve(p)
    BY <1>1, <2>1 DEF Serve, components
  <2>2. CASE Resolve(p) \/ Reject(p)
    <3>1. \E success \in BOOLEAN : Settled(p, success)
      BY <2>2, Zenon DEF Resolve, Reject, Finally
    <3> QED  BY <1>3, <3>1
  <2> QED  BY <1>4, <2>1, <2>2
<1>5. ASSUME NEW p, Navigate(p) PROVE AskedInv'
  <2>1. /\ \A c \in Components : view'[c] = NotRendered /\ ran'[c] = NotRun
        /\ due' = ComponentsOf(page') /\ UNCHANGED <<entry, requests>>
    BY <1>5 DEF Navigate
  <2> QED  BY <2>1, EmptyFact DEF AskedInv, OnItsWay, Answered
<1>6. ASSUME NEW cs, Render(cs) PROVE AskedInv'
  <2>1. /\ UNCHANGED <<entry, ran, requests, page>> /\ due' = due \ cs
        /\ view' = [c \in Components |-> IF c \in cs THEN [e \in Uses(c) |-> Snapshot(e)]
                                         ELSE view[c]]
    BY <1>6 DEF Render
  <2>2. \A c \in Components : c \in cs => Mounted(c)'
    BY <2>1, UsesFact, EmptyFact DEF Mounted
  <2>3. \A c \in ComponentsOf(page) : Mounted(c)' \/ c \in due'
    BY <2>1, <2>2, ComponentsFact DEF AskedInv, Mounted, FieldsOK
  <2>4. ASSUME NEW c \in Components, NEW e \in DOMAIN view'[c]
        PROVE  view'[c][e].version <= entry[e].version
    <3>1. CASE c \in cs
      <4>1. e \in Endpoints /\ view'[c][e] = Snapshot(e)
        BY <2>1, <3>1, UsesFact
      <4> QED  BY <4>1 DEF Snapshot, EntriesOK
    <3>2. CASE c \notin cs
      BY <2>1, <3>2 DEF AskedInv
    <3> QED  BY <3>1, <3>2
  <2> QED  BY <2>1, <2>3, <2>4 DEF AskedInv, OnItsWay, Answered
<1>7. ASSUME NEW open, ToggleButton(open) PROVE AskedInv'
  BY <1>1, <1>7 DEF ToggleButton, components
<1>8. CASE ConfirmButton \/ ConfirmAction \/ Fill \/ UNCHANGED vars
  BY <1>1, <1>8 DEF ConfirmButton, ConfirmAction, Fill, vars, components
<1>9. ASSUME NEW uid, ToggleRow(uid) \/ ConfirmRow(uid) PROVE AskedInv'
  BY <1>1, <1>9 DEF ToggleRow, ConfirmRow, components
<1> QED  BY <1>2, <1>4, <1>5, <1>6, <1>7, <1>8, <1>9, AskedByEffects DEF Next, Answering, Purging

LEMMA AskedCorrect == Spec => []AskedInv
<1>1. Init => AskedInv
  BY EmptyFact, KeysFact DEF Init, AskedInv
<1>2. ShapeInv /\ AskedInv /\ [Next]_vars => AskedInv'
  BY AskedStep
<1> QED  BY <1>1, <1>2, ShapeCorrect, PTL DEF Spec

\* A component with nothing on its way shows its entries as they are, and
\* what it was to ask for is answered.
LEMMA AtRest ==
    ASSUME ShapeInv, AskedInv, NEW c \in ComponentsOf(page), ~Awaits(c), ~Overtaken(c)
    PROVE  /\ c \in Components /\ Mounted(c)
           /\ \A e \in Uses(c) : e \in Endpoints /\ view[c][e] = Snapshot(e)
           /\ \A e \in Uses(c) : Enabled(c, e) => Answered(e)
<1>1. c \in Components /\ Mounted(c) /\ c \notin due
  BY ComponentsFact DEF ShapeInv, FieldsOK, AskedInv, Awaits
<1>2. /\ DOMAIN view[c] = Uses(c) /\ Uses(c) \subseteq Endpoints /\ Uses(c) # {}
      /\ ran[c] # NotRun => DOMAIN ran[c] = Uses(c)
  BY <1>1, UsesFact DEF ShapeInv, ViewsOK, ViewOK
<1>3. \A e \in Uses(c) : e \in DOMAIN ran[c] /\ ran[c][e] = Dependencies(c, e)
  BY <1>2 DEF Awaits, Changed
<1>4. ran[c] # NotRun
  BY <1>2, <1>3, EmptyFact
<1>5. \A e \in Uses(c) : view[c][e] = Snapshot(e)
  BY <1>1, <1>2, <1>4 DEF Overtaken, Behind
<1>6. ASSUME NEW e \in Uses(c), Enabled(c, e) PROVE Answered(e)
  <2>1. ran[c][e].version = entry[e].version /\ ran[c][e].enabled
    <3>1. ran[c][e].version = view[c][e].version /\ ran[c][e].enabled = Enabled(c, e)
      <4>1. ran[c][e] = Dependencies(c, e)
        BY <1>3, <1>6
      <4> QED  BY <4>1 DEF Dependencies
    <3>2. view[c][e].version = entry[e].version
      <4>1. view[c][e] = Snapshot(e)
        BY <1>5, <1>6
      <4> QED  BY <4>1 DEF Snapshot
    <3> QED  BY <1>6, <3>1, <3>2
  <2>2. ~OnItsWay(e)
    BY DEF Awaits, OnItsWay
  <2> QED  BY <1>1, <1>3, <2>1, <2>2 DEF AskedInv
<1> QED  BY <1>1, <1>2, <1>5, <1>6

(* No page is left on its loading state with nothing on the way to end it,  *)
(* for any number of subscribers, navigations, invalidations, failures and  *)
(* late answers, unless its component was Overtaken (restCache.ts).         *)
THEOREM LoadingIsAwaited == Spec => []LoadingEnds
<1>1. ASSUME ShapeInv, AskedInv PROVE LoadingEnds
  <2> SUFFICES ASSUME NEW c \in {"widget", "settings"} \intersect ComponentsOf(page),
                      ~Mounted(c) \/ isLoading(c, STATS_KEY), ~Awaits(c), ~Overtaken(c)
               PROVE  FALSE
    BY DEF LoadingEnds
  <2>1. /\ Mounted(c) /\ view[c][STATS_KEY] = Snapshot(STATS_KEY)
        /\ Enabled(c, STATS_KEY) => Answered(STATS_KEY)
    BY <1>1, UsesFact, AtRest
  <2>2. Enabled(c, STATS_KEY)
    BY KeysFact DEF Enabled
  <2> QED  BY <2>1, <2>2 DEF isLoading, Snapshot, Answered
<1> QED  BY <1>1, ShapeCorrect, AskedCorrect, PTL

\* As long as nothing failed, an endpoint's error is the policy's 403.
RightsInv ==
    faults = 0 => \A e \in Endpoints :
        /\ Allowed(e) => entry[e].error = Undefined
        /\ entry[e].error \in {Undefined, "status 403", "response.status 403"}

LEMMA RightsKept ==
    ASSUME [Next]_vars, FieldsOK
    PROVE  permissions' = permissions /\ (faults' = 0 => faults = 0)
<1> USE LimitsAssumption DEF FieldsOK, settings
<1>1. ASSUME NEW r, Answer(r) PROVE permissions' = permissions /\ (faults' = 0 => faults = 0)
  <2>1. faults' = faults \/ faults' = faults + 1
    BY <1>1, Zenon DEF Answer
  <2>2. permissions' = permissions
    BY <1>1 DEF Answer
  <2> QED  BY <2>1, <2>2
<1>2. ASSUME NEW p, NEW success \in BOOLEAN, Settled(p, success) PROVE permissions' = permissions
  BY <1>2 DEF Settled
<1>3. ASSUME NEW p, Serve(p) \/ Resolve(p) \/ Reject(p)
      PROVE  permissions' = permissions /\ (faults' = 0 => faults = 0)
  <2>1. CASE Serve(p)
    BY <2>1 DEF Serve
  <2>2. CASE Resolve(p) \/ Reject(p)
    <3>1. \E success \in BOOLEAN : Settled(p, success)
      BY <2>2, Zenon DEF Resolve, Reject, Finally
    <3>2. faults' = faults \/ faults' = faults + 1
      BY <2>2, Zenon DEF Resolve, Reject
    <3> QED  BY <1>2, <3>1, <3>2
  <2> QED  BY <1>3, <2>1, <2>2
<1>4. ASSUME NEW x, Navigate(x) \/ ToggleButton(x) \/ ToggleRow(x) \/ ConfirmRow(x) \/ Render(x)
      PROVE  permissions' = permissions /\ faults' = faults
  BY <1>4 DEF Navigate, ToggleButton, ToggleRow, ConfirmRow, Render
<1>5. CASE ConfirmButton \/ ConfirmAction \/ Fill \/ Effects \/ UNCHANGED vars
  BY <1>5 DEF ConfirmButton, ConfirmAction, Fill, Effects, vars
<1> QED  BY <1>1, <1>3, <1>4, <1>5 DEF Next, Answering, Purging

LEMMA RightsStep ==
    ASSUME ShapeInv, RightsInv, [Next]_vars
    PROVE  RightsInv'
<1> USE DEF ShapeInv
<1> SUFFICES ASSUME faults' = 0, NEW e \in Endpoints
             PROVE  /\ Allowed(e)' => entry'[e].error = Undefined
                    /\ entry'[e].error \in {Undefined, "status 403", "response.status 403"}
  BY DEF RightsInv
<1>1. faults = 0 /\ (Allowed(e)' <=> Allowed(e))
  BY RightsKept DEF Allowed, MayPurge
<1>2. /\ Allowed(e) => entry[e].error = Undefined
      /\ entry[e].error \in {Undefined, "status 403", "response.status 403"}
  BY <1>1 DEF RightsInv
<1>3. ASSUME entry'[e].error \in {entry[e].error, Undefined}
      PROVE  /\ Allowed(e)' => entry'[e].error = Undefined
             /\ entry'[e].error \in {Undefined, "status 403", "response.status 403"}
  BY <1>1, <1>2, <1>3
<1>4. CASE Effects
  <2>1. PICK asking \in SUBSET (Components \X Endpoints) :
            entry' = [x \in Endpoints |-> IF \E w \in asking : w[2] = x
                                         THEN [entry[x] EXCEPT !.promise = TRUE] ELSE entry[x]]
    BY <1>4, EffectsShape
  <2>2. entry'[e] = entry[e] \/ entry'[e] = [entry[e] EXCEPT !.promise = TRUE]
    BY <2>1
  <2> QED  BY <1>3, <2>2 DEF EntriesOK
<1>5. ASSUME NEW r \in requests, Answer(r)
      PROVE  /\ Allowed(e) => entry'[e].error = Undefined
             /\ entry'[e].error \in {Undefined, "status 403", "response.status 403"}
  <2>0. r.endpoint \in Endpoints
    BY DEF FieldsOK
  <2>1. CASE e # r.endpoint
    <3>1. entry'[e] = entry[e]
      BY <1>5, <2>1, AnswerStep
    <3> QED  BY <1>2, <3>1
  <2>2. CASE /\ e = r.endpoint
             /\ entry' = [entry EXCEPT ![r.endpoint].data = Body(r.endpoint),
                                       ![r.endpoint].error = Undefined,
                                       ![r.endpoint].promise = FALSE]
    BY <2>0, <2>2 DEF EntriesOK
  <2>3. CASE /\ e = r.endpoint /\ ~Allowed(r.endpoint)
             /\ \E error \in {"status 403", "response.status 403"} :
                   entry' = [entry EXCEPT ![r.endpoint].error = error,
                                          ![r.endpoint].promise = FALSE]
    BY <2>0, <2>3 DEF EntriesOK
  <2>4. faults' # faults + 1
    BY <1>1
  <2> QED  BY <1>5, <2>1, <2>2, <2>3, <2>4, Zenon DEF Answer
<1>6. ASSUME NEW p, NEW success \in BOOLEAN, Settled(p, success)
      PROVE  entry'[e].error \in {entry[e].error, Undefined}
  <2>1. entry' = entry \/ entry' = [entry EXCEPT ![STATS_KEY] = Invalidated(@)]
    BY <1>6 DEF Settled
  <2>2. Invalidated(entry[STATS_KEY]).error = Undefined
    BY KeysFact, InvalidatedShape DEF EntriesOK
  <2> QED  BY <2>1, <2>2, KeysFact DEF EntriesOK
<1>7. ASSUME NEW p \in purges, Serve(p) \/ Resolve(p) \/ Reject(p)
      PROVE  entry'[e].error \in {entry[e].error, Undefined}
  <2>1. CASE Serve(p)
    BY <2>1 DEF Serve
  <2>2. CASE Resolve(p) \/ Reject(p)
    <3>1. \E success \in BOOLEAN : Settled(p, success)
      BY <2>2, Zenon DEF Resolve, Reject, Finally
    <3> QED  BY <1>6, <3>1
  <2> QED  BY <1>7, <2>1, <2>2
<1>8. ASSUME NEW x, Navigate(x) \/ ToggleButton(x) \/ ToggleRow(x) \/ ConfirmRow(x) \/ Render(x)
      PROVE  entry' = entry
  BY <1>8 DEF Navigate, ToggleButton, ToggleRow, ConfirmRow, Render
<1>9. CASE ConfirmButton \/ ConfirmAction \/ Fill \/ UNCHANGED vars
  BY <1>3, <1>9 DEF ConfirmButton, ConfirmAction, Fill, vars
<1> QED  BY <1>1, <1>3, <1>4, <1>5, <1>7, <1>8, <1>9 DEF Next, Answering, Purging

LEMMA RightsCorrect == Spec => []RightsInv
<1>1. Init => RightsInv
  <2> SUFFICES ASSUME Init, NEW e \in Endpoints PROVE entry[e].error = Undefined
    BY DEF RightsInv
  <2> QED  BY DEF Init
<1>2. ShapeInv /\ RightsInv /\ [Next]_vars => RightsInv'
  BY RightsStep
<1> QED  BY <1>1, <1>2, ShapeCorrect, PTL DEF Spec

(* With nothing on its way, a control is there for whoever may use it on a  *)
(* cached content type, with any permissions, pages and late answers, where *)
(* no request failed and its component was not Overtaken: either the        *)
(* strategy's answer lists the type, or its 403 had the fallback asked      *)
(* (restCache.ts, usePurgeableContentTypes).                                *)
THEOREM ControlsAreOffered == Spec => []ControlsAppear
<1>1. ASSUME ShapeInv, AskedInv, RightsInv PROVE ControlsAppear
  <2> SUFFICES ASSUME NEW c \in {"button", "action", "panel"} \intersect ComponentsOf(page),
                      faults = 0, page.model \in Cached,
                      c # "button" => page.documentId # Undefined,
                      (IF c = "panel" THEN "read-strategy" ELSE "purge") \in permissions,
                      ~Awaits(c), ~Overtaken(c)
               PROVE  Offered(c)
    BY DEF ControlsAppear
  <2>1. Uses(c) = {STRATEGY_KEY, PURGEABLE_KEY}
    BY UsesFact
  <2>2. /\ Mounted(c)
        /\ view[c][STRATEGY_KEY] = Snapshot(STRATEGY_KEY)
        /\ view[c][PURGEABLE_KEY] = Snapshot(PURGEABLE_KEY)
        /\ \A e \in Uses(c) : Enabled(c, e) => Answered(e)
    BY <1>1, <2>1, AtRest
  <2>3. Answered(STRATEGY_KEY)
    BY <2>1, <2>2, KeysFact DEF Enabled
  <2>4. \A e \in Endpoints : entry[e].data # Undefined => entry[e].data.uids = Cached
    BY <1>1 DEF ShapeInv, EntriesOK, Bodies
  <2>5. \A e \in Endpoints :
            /\ Allowed(e) => entry[e].error = Undefined
            /\ entry[e].error \in {Undefined, "status 403", "response.status 403"}
    BY <1>1 DEF RightsInv
  <2>6. CASE entry[STRATEGY_KEY].data # Undefined
    <3>1. view[c][STRATEGY_KEY].data # Undefined /\ view[c][STRATEGY_KEY].data.uids = Cached
      BY <2>2, <2>4, <2>6, KeysFact DEF Snapshot
    <3>2. PurgeableContentTypes(c) = Cached
      BY <3>1 DEF PurgeableContentTypes
    <3> QED  BY <2>2, <3>1, <3>2 DEF Offered, ButtonShown, isEligible, PanelShown
  <2>7. CASE entry[STRATEGY_KEY].data = Undefined
    <3>1. entry[STRATEGY_KEY].error \in {"status 403", "response.status 403"}
      BY <2>3, <2>5, <2>7, KeysFact DEF Answered
    <3>2. c # "panel" /\ "purge" \in permissions
      BY <2>5, <3>1, KeysFact, UndefinedAssumption DEF Allowed
    <3>3. Enabled(c, PURGEABLE_KEY)
      <4>1. view[c][STRATEGY_KEY].error = entry[STRATEGY_KEY].error
        BY <2>2 DEF Snapshot
      <4> QED  BY <3>1, <4>1 DEF Enabled, isForbidden
    <3>4. entry[PURGEABLE_KEY].data # Undefined
      BY <2>1, <2>2, <2>5, <3>2, <3>3, KeysFact DEF Answered, Allowed, MayPurge
    <3>5. /\ view[c][STRATEGY_KEY].data = Undefined /\ view[c][PURGEABLE_KEY].data # Undefined
          /\ view[c][PURGEABLE_KEY].data.uids = Cached
      BY <2>2, <2>4, <2>7, <3>4, KeysFact DEF Snapshot
    <3>6. PurgeableContentTypes(c) = Cached
      BY <3>5 DEF PurgeableContentTypes
    <3> QED  BY <2>2, <3>2, <3>6 DEF Offered, ButtonShown, isEligible
  <2> QED  BY <2>6, <2>7
<1> QED  BY <1>1, ShapeCorrect, AskedCorrect, RightsCorrect, PTL

-----------------------------------------------------------------------------
(* The tab's state has its types; the versions stay within the purges       *)
(* confirmed, and no purge is of a type the controller would answer with    *)
(* a 400 (PurgeCacheButton/index.tsx, ContentTypeTable/index.tsx).          *)
THEOREM AdminTypeCorrect == Spec => []AdminTypeOK
<1>1. ASSUME ShapeInv, PurgesInv, SingleInv, DueInv PROVE AdminTypeOK
  <2>1. IsFiniteSet(NumbersOf(purges)) /\ Cardinality(NumbersOf(purges)) \in Nat
    <3>1. confirmed \in Nat
      BY <1>1, LimitsAssumption DEF ShapeInv, FieldsOK
    <3>2. IsFiniteSet(0 .. (confirmed - 1)) /\ NumbersOf(purges) \in SUBSET (0 .. (confirmed - 1))
      BY <1>1, <3>1, FS_Interval DEF PurgesInv
    <3> QED  BY <3>2, FS_Subset, FS_CardinalityType
  <2>2. \A e \in Endpoints : entry[e].promise \in BOOLEAN /\ entry[e].version \in Nat
    BY <1>1 DEF ShapeInv, EntriesOK
  <2>3. \A e \in Endpoints : entry[e].version \in 0 .. MaxPurges
    BY <1>1, <2>1, <2>2, LimitsAssumption DEF PurgesInv, ShapeInv, FieldsOK
  <2>4. requests \subseteq [endpoint : Endpoints, version : 0 .. MaxPurges, by : Components]
    <3> SUFFICES ASSUME NEW r \in requests
                 PROVE  r \in [endpoint : Endpoints, version : 0 .. MaxPurges, by : Components]
      OBVIOUS
    <3>1. r \in [endpoint : Endpoints, version : Nat, by : Components]
      BY <1>1 DEF ShapeInv, FieldsOK
    <3>2. r.endpoint \in Endpoints /\ r.version \in Nat /\ r.by \in Components
      BY <3>1
    <3>3. r.version <= entry[r.endpoint].version
      BY <1>1 DEF SingleInv, RequestsInv
    <3>4. entry[r.endpoint].version \in 0 .. MaxPurges
      BY <2>3, <3>2
    <3>5. r.version \in 0 .. MaxPurges
      BY <3>2, <3>3, <3>4, LimitsAssumption
    <3> QED  BY <3>1, <3>5
  <2>5. \A p \in purges : p.contentType \in Cached
    BY <1>1 DEF PurgesInv, Sane, PurgeRecord
  <2>6. ASSUME NEW c \in Components
        PROVE  /\ Mounted(c) => (DOMAIN view[c] = Uses(c) /\ c \in ComponentsOf(page))
               /\ ran[c] = NotRun \/ DOMAIN ran[c] = DOMAIN view[c]
    BY <1>1 DEF ShapeInv, ViewsOK, ViewOK
  <2> QED  BY <1>1, <2>2, <2>3, <2>4, <2>5, <2>6 DEF AdminTypeOK, ShapeInv, FieldsOK, DueInv
<1> QED  BY <1>1, ShapeCorrect, PurgesCorrect, RequestsCorrect, DueCorrect, PTL

-----------------------------------------------------------------------------
\* An edit view's purge is for its document's parameters, so the routes it
\* matches are those its document is in.
LEMMA AddressesItsDocument ==
    ASSUME NEW p \in purges, Addressed(p), p.by = "action", stored \subseteq Entries
    PROVE  Matched(p) = {s \in stored : InDocument(s, p)}
<1>1. /\ p.document \in DOMAIN Documents
      /\ p.wildcard = (p.contentType \in Singles)
  BY DEF Addressed
<1>2. CASE p.wildcard
  BY <1>1, <1>2 DEF Matched, InDocument
<1>3. CASE ~p.wildcard
  <2> DEFINE d == Documents[p.document]
             scalars == {f \in DOMAIN d : d[f] # Object}
  <2>1. p.params = toEntryParams(p.document)
    BY <1>3 DEF Addressed
  <2>2. p.params = [[n \in scalars |-> d[n]] EXCEPT !["id"] = p.document]
    BY <2>1 DEF toEntryParams, toPurgeParams
  <2>3. "id" \in scalars
    BY <1>1, EntriesAssumption
  <2>4. /\ DOMAIN p.params = scalars
        /\ p.params["id"] = p.document
        /\ \A n \in scalars : n # "id" => p.params[n] = d[n]
    BY <2>2, <2>3
  <2>5. ASSUME NEW s \in stored, s.type = p.contentType
        PROVE  (\/ p.wildcard \/ s.param = Undefined
                \/ s.param \in DOMAIN p.params /\ s.value = p.params[s.param])
                 <=> InDocument(s, p)
    <3>1. s.param # Undefined => s.param \in DOMAIN d /\ s.value # Object
      BY <1>1, EntriesAssumption
    <3>2. s.param # Undefined => s.param \in scalars \/ d[s.param] = Object
      BY <3>1
    <3> HIDE DEF d, scalars
    <3>3. s.param \notin {"id", Undefined} =>
              (s.param \in scalars /\ s.value = d[s.param] <=> s.value = d[s.param])
      BY <3>1, <3>2
    <3> QED  BY <1>1, <1>3, <2>3, <2>4, <2>5, <3>3 DEF d, InDocument
  <2> QED  BY <2>5 DEF Matched, InDocument
<1> QED  BY <1>1, <1>2, <1>3

\* The step that turns it to done is its own serving.
LEMMA ServedIsDocument ==
    ASSUME ShapeInv, PurgesInv, [Next]_vars,
           NEW p \in purges, p.by = "action", p.status = "sent",
           [p EXCEPT !.status = "done"] \in purges'
    PROVE  stored \ stored' = Purged(p)
<1> DEFINE q == [p EXCEPT !.status = "done"]
<1>1. p \in PurgeRecord /\ q.n = p.n /\ q.status = "done"
  BY DEF PurgesInv, Sane, PurgeRecord
<1>2. q \in purges'
  OBVIOUS
<1> HIDE DEF q
<1>3. ASSUME NEW a \in purges, a.n = q.n PROVE a = p
  BY <1>1, <1>3 DEF PurgesInv, Sane, Distinct
<1>4. ASSUME NEW ps \in SUBSET purges, NEW by, purges' = Unmounted(ps, by) PROVE FALSE
  <2>1. PICK a \in ps : q = Kept(a, by)
    BY <1>2, <1>4 DEF Unmounted, Kept
  <2>2. a \in PurgeRecord
    BY DEF PurgesInv, Sane
  <2>3. q.n = a.n /\ q.status = a.status
    BY <2>1, <2>2, KeptShape
  <2> QED  BY <1>1, <1>3, <2>3
<1>5. ~LoseComponents
  BY <1>4 DEF LoseComponents
<1>6. ~\E a : Ended(a)
  BY <1>1, <1>2, <1>3 DEF Ended
<1>7. ~\E a : Confirmed(a)
  BY <1>1, <1>2, <1>3 DEF Confirmed
<1>8. PICK a \in purges : Serve(a)
  BY <1>5, <1>6, <1>7, PurgesMove
<1>9. a \in PurgeRecord
  BY DEF PurgesInv, Sane
<1> DEFINE accepted == MayPurge /\ a.contentType \in Cached
<1>10. /\ stored' = IF accepted THEN stored \ Purged(a) ELSE stored
       /\ purges' = (purges \ {a})
                    \union {[a EXCEPT !.status = IF accepted THEN "done" ELSE "refused"]}
  BY <1>8, Zenon DEF Serve
<1> HIDE DEF accepted
<1>11. q \notin purges
  BY <1>1, <1>3
<1>12. q = [a EXCEPT !.status = IF accepted THEN "done" ELSE "refused"]
  BY <1>2, <1>10, <1>11
<1>13. q.n = a.n /\ accepted
  BY <1>1, <1>9, <1>12 DEF PurgeRecord
<1>14. a = p
  BY <1>3, <1>13
<1> QED  BY <1>10, <1>13, <1>14 DEF Purged, Matched

(* A purge from the edit view, when it is served, takes the entries its     *)
(* document is in, and others of related types only with clearRelatedCache  *)
(* on: the step is the serving of that very purge, since no other has its   *)
(* number, and its parameters are still those of the document it was        *)
(* confirmed on (useCachedDocument.ts, cacheStore.ts clearByUid).           *)
THEOREM EditViewPurgesItsDocument == Spec => DocumentIsPurged
<1> DEFINE Served(p) == p.by = "action" /\ p.status = "sent" /\ [p EXCEPT !.status = "done"] \in purges'
           Gone(p) == \A s \in stored :
               /\ InDocument(s, p) => s \notin stored'
               /\ s \notin stored' =>
                     InDocument(s, p) \/ (clearRelated /\ s.type \in Related[p.contentType])
<1>1. ASSUME ShapeInv, PurgesInv, [Next]_vars, NEW p \in purges, Served(p) PROVE Gone(p)
  <2>1. stored \ stored' = Purged(p)
    BY <1>1, ServedIsDocument
  <2>2. Matched(p) = {s \in stored : InDocument(s, p)}
    BY <1>1, AddressesItsDocument DEF ShapeInv, FieldsOK, PurgesInv, Sane
  <2>3. ASSUME NEW s \in stored
        PROVE  /\ InDocument(s, p) => s \in Purged(p)
               /\ s \in Purged(p) =>
                     InDocument(s, p) \/ (clearRelated /\ s.type \in Related[p.contentType])
    BY <2>2 DEF Purged
  <2> QED  BY <2>1, <2>3
<1>2. ShapeInv /\ PurgesInv /\ [Next]_vars => [\A p \in purges : Served(p) => Gone(p)]_vars
  BY <1>1
<1> QED  BY <1>2, ShapeCorrect, PurgesCorrect, PTL DEF Spec, DocumentIsPurged

=============================================================================
