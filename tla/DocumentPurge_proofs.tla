------------------------- MODULE DocumentPurge_proofs -------------------------
(***************************************************************************)
(* Type correctness, EachWriteIsPurged and PurgedOnce of DocumentPurge,    *)
(* for every schema, every number of documents and call chains and any     *)
(* depth of nested writes.                                                 *)
(***************************************************************************)
EXTENDS DocumentPurge, SequenceTheorems, TLAPS

\* A frame's scope is the inherited one and the types of the frames up to it.
ScopeOK ==
    \A c \in Chains : \A i \in DOMAIN stack[c] :
        mode = "service" =>
            \A t : t \in stack[c][i].scope <=>
                t \in inherited[c] \/ \E j \in 1 .. i : t = stack[c][j].uid

\* What the first n writes of the chain will purge, or nobody promises to.
Covered(c, n) == (UNION {Matches(stack[c][i]) : i \in 1 .. n}) \union Excused(c)

\* What was pending when a write began is owed by the writes it is nested in.
BeforeOK ==
    faults = 0 => \A c \in Chains : failed[c] = "no" =>
        \A i \in DOMAIN stack[c] : stack[c][i].before \subseteq Covered(c, i - 1)

IdleOK ==
    \A c \in Chains : ~active[c] => stack[c] = <<>> /\ pending[c] = {} /\ event[c] = None

-----------------------------------------------------------------------------
\* The stack.

LEMMA PushFacts ==
    ASSUME TypeOK, NEW c \in Chains, NEW f \in Frame, Push(c, f)
    PROVE  /\ stack' \in [Chains -> Seq(Frame)]
           /\ \A x \in Chains \ {c} : stack'[x] = stack[x]
           /\ Len(stack'[c]) = Len(stack[c]) + 1
           /\ \A i \in 1 .. Len(stack[c]) : stack'[c][i] = stack[c][i]
           /\ stack'[c][Len(stack[c]) + 1] = f
<1>1. stack[c] \in Seq(Frame) /\ stack' = [stack EXCEPT ![c] = Append(stack[c], f)]
  BY DEF TypeOK, Push
<1>2. /\ Append(stack[c], f) \in Seq(Frame)
      /\ Len(Append(stack[c], f)) = Len(stack[c]) + 1
      /\ \A i \in 1 .. Len(stack[c]) : Append(stack[c], f)[i] = stack[c][i]
      /\ Append(stack[c], f)[Len(stack[c]) + 1] = f
  BY <1>1, AppendProperties
<1> QED  BY <1>1, <1>2 DEF TypeOK

LEMMA PopFacts ==
    ASSUME TypeOK, NEW c \in Chains, stack[c] # <<>>, Pop(c)
    PROVE  /\ stack' \in [Chains -> Seq(Frame)]
           /\ \A x \in Chains \ {c} : stack'[x] = stack[x]
           /\ Len(stack'[c]) = Len(stack[c]) - 1
           /\ \A i \in 1 .. Len(stack[c]) - 1 : stack'[c][i] = stack[c][i]
<1> DEFINE n == Len(stack[c]) - 1
           s == SubSeq(stack[c], 1, n)
<1>1. stack[c] \in Seq(Frame) /\ stack' = [stack EXCEPT ![c] = s]
  BY DEF TypeOK, Pop
<1>2. n \in Nat
  BY <1>1, EmptySeq
<1>3. \A i \in 1 .. n : stack[c][i] \in Frame
  BY <1>1, <1>2
<1>4. s \in Seq(Frame) /\ Len(s) = n /\ \A i \in 1 .. n : s[i] = stack[c][i]
  <2> HIDE DEF n
  <2>1. /\ s \in Seq(Frame)
        /\ Len(s) = IF 1 <= n THEN n - 1 + 1 ELSE 0
        /\ \A i \in 1 .. n - 1 + 1 : s[i] = stack[c][1 + i - 1]
    BY <1>2, <1>3, SubSeqProperties
  <2> QED  BY <1>2, <2>1
<1> HIDE DEF s
<1> QED  BY <1>1, <1>4 DEF TypeOK

LEMMA SetTopFacts ==
    ASSUME TypeOK, NEW c \in Chains, stack[c] # <<>>, NEW f \in Frame, SetTop(c, f)
    PROVE  /\ stack' \in [Chains -> Seq(Frame)]
           /\ \A x \in Chains \ {c} : stack'[x] = stack[x]
           /\ Len(stack'[c]) = Len(stack[c])
           /\ \A i \in 1 .. Len(stack[c]) - 1 : stack'[c][i] = stack[c][i]
           /\ stack'[c][Len(stack[c])] = f
<1> DEFINE n == Len(stack[c])
           s == [stack[c] EXCEPT ![n] = f]
<1>1. stack[c] \in Seq(Frame) /\ n \in Nat \ {0} /\ stack' = [stack EXCEPT ![c] = s]
  BY EmptySeq DEF TypeOK, SetTop
<1>2. s \in Seq(Frame) /\ Len(s) = n /\ s[n] = f
      /\ \A i \in 1 .. n - 1 : s[i] = stack[c][i]
  BY <1>1
<1> HIDE DEF s
<1> QED  BY <1>1, <1>2 DEF TypeOK

LEMMA TopFact ==
    ASSUME TypeOK, NEW c \in Chains, stack[c] # <<>>
    PROVE  Len(stack[c]) \in Nat \ {0} /\ Top(c) = stack[c][Len(stack[c])] /\ Top(c) \in Frame
BY EmptySeq DEF TypeOK, Top

-----------------------------------------------------------------------------
\* What a purge matches.

LEMMA MatchesAreFixed ==
    ASSUME UNCHANGED settings
    PROVE  /\ \A f : Matches(f)' = Matches(f)
           /\ \A t : EventMatches(t)' = EventMatches(t)
           /\ \A t, d : Outdates(t, d)' = Outdates(t, d)
           /\ Unnamed' = Unnamed
BY DEF settings, Matches, EventMatches, Outdates, Unnamed, ClearByUid, Embedding

LEMMA WildcardFacts ==
    /\ \A types : WildcardsOf(types) \subseteq Entries
    /\ \A types, e : e \in WildcardsOf(types) <=>
           \E t \in types \intersect Cached : e \in {t} \X Parts
BY DEF WildcardsOf, Wildcard, Entries

LEMMA OutdatesFacts ==
    ASSUME NEW t \in Types, NEW d \in Parts
    PROVE  Outdates(t, d) \subseteq Entries
BY WildcardFacts DEF Outdates, Targeted, Entries, Parts

LEMMA OwnEntries ==
    ASSUME NEW t \in Types, NEW d \in Parts, NEW e \in Targeted(t, d)
    PROVE  e \in Wildcard(t) /\ (e = <<t, None>> \/ (d \in Docs /\ e = <<t, d>>))
BY DEF Targeted, Wildcard, Parts

\* A wildcard purge of its type matches whatever a write outdates.
LEMMA EventIsMatched ==
    ASSUME NEW t \in Cached, NEW d \in Parts
    PROVE  Outdates(t, d) \subseteq EventMatches(t)
<1>1. t \in Types /\ Shown[t] \subseteq Related[t]
  BY TypesAssumption, RelatedAssumption
<1>2. WildcardsOf(Shown[t]) \subseteq WildcardsOf(Related[t])
  BY <1>1, WildcardFacts
<1> QED  BY <1>1, <1>2, OwnEntries DEF Outdates, EventMatches, ClearByUid

\* With clearRelatedCache on, any purge of a cached type does.
LEMMA RelatedIsMatched ==
    ASSUME NEW f \in Frame, f.uid \in Cached, clearRelated, NEW d \in Parts
    PROVE  Outdates(f.uid, d) \subseteq Matches(f)
<1> DEFINE t == f.uid
<1>1. t \in Types /\ t \in Related[t] /\ Shown[t] \subseteq Related[t]
  BY TypesAssumption, RelatedAssumption
<1>2. WildcardsOf(Shown[t]) \subseteq WildcardsOf(Related[t])
  BY <1>1, WildcardFacts
<1>3. Targeted(t, d) \subseteq WildcardsOf(Related[t])
  BY <1>1, OwnEntries, WildcardFacts DEF Wildcard
<1>4. WildcardsOf(Related[t]) \subseteq Matches(f)
  BY DEF Matches, ClearByUid
<1> QED  BY <1>2, <1>3, <1>4 DEF Outdates

\* A purge matches what the rows of its own write outdate.
LEMMA RowIsMatched ==
    ASSUME TypeOK, NEW c \in Chains, NEW f \in Frame, NEW d \in Parts, f.doc \in {d, None}
    PROVE  Outdates(f.uid, d) \subseteq Matches(f) \union Excused(c)
<1> DEFINE t == f.uid
<1>1. t \in Types /\ f.doc \in Parts
  BY DEF Frame
<1>2. CASE t \notin Cached
  <2>1. WildcardsOf(Shown[t]) = WildcardsOf(Shown[t] \ {t})
    BY <1>2, Zenon DEF WildcardsOf
  <2> QED  BY <1>2, <2>1 DEF Outdates, Matches, Embedding
<1>3. CASE t \in Cached /\ clearRelated
  BY <1>3, RelatedIsMatched
<1>4. CASE t \in Cached /\ ~clearRelated
  <2>1. Outdates(t, d) = Targeted(t, d) /\ Unnamed \subseteq Excused(c)
    BY <1>4 DEF Outdates, Excused
  <2>2. CASE mode = "routes"
    <3>1. Matches(f) = Targeted(t, f.doc) /\ Unnamed = Cached \X Docs
      BY <1>4, <2>2 DEF Matches, ClearByUid, Unnamed
    <3>2. <<t, None>> \in Targeted(t, f.doc)
      BY DEF Targeted
    <3> QED  BY <1>1, <1>4, <2>1, <3>1, <3>2, OwnEntries
  <2>3. CASE mode # "routes" /\ f.doc = None
    <3>1. Matches(f) = Wildcard(t)
      BY <1>4, <2>3 DEF Matches, ClearByUid
    <3> QED  BY <1>1, <2>1, <3>1, OwnEntries
  <2>4. CASE mode # "routes" /\ f.doc # None
    <3>1. Matches(f) = ByDocumentId(t, d) /\ Unnamed = PluginTypes \X Docs
      BY <1>4, <2>4 DEF Matches, ClearByUid, Unnamed
    <3>2. CASE t \in PluginTypes
      <4>1. Matches(f) = {<<t, None>>}
        BY <3>1, <3>2 DEF ByDocumentId
      <4> QED  BY <1>1, <2>1, <3>1, <3>2, <4>1, OwnEntries
    <3>3. CASE t \notin PluginTypes
      BY <2>1, <3>1, <3>3 DEF ByDocumentId
    <3> QED  BY <3>2, <3>3
  <2> QED  BY <2>2, <2>3, <2>4
<1> QED  BY <1>2, <1>3, <1>4

\* A document service write to a plugin's type matches what any write to that
\* type outdates: the events it suppresses lose nothing.
LEMMA RawIsMatched ==
    ASSUME TypeOK, mode = "service", NEW c \in Chains, NEW f \in Frame, NEW d \in Parts,
           f.uid \in Cached \intersect PluginTypes
    PROVE  Outdates(f.uid, d) \subseteq Matches(f) \union Excused(c)
<1> DEFINE t == f.uid
<1>1. CASE clearRelated
  BY <1>1, RelatedIsMatched
<1>2. CASE ~clearRelated
  <2>1. Outdates(t, d) = Targeted(t, d) /\ PluginTypes \X Docs \subseteq Excused(c)
    BY <1>2 DEF Outdates, Excused, Unnamed
  <2>2. Matches(f) = Wildcard(t) \/ Matches(f) = {<<t, None>>}
    BY <1>2 DEF Matches, ClearByUid, ByDocumentId
  <2>3. <<t, None>> \in Wildcard(t)
    BY DEF Wildcard, Parts
  <2> QED  BY <2>1, <2>2, <2>3, TypesAssumption, OwnEntries
<1> QED  BY <1>1, <1>2

LEMMA CoveredFacts ==
    ASSUME NEW c, NEW n \in Nat
    PROVE  /\ \A e : e \in Covered(c, n) <=>
                  (\E i \in 1 .. n : e \in Matches(stack[c][i])) \/ e \in Excused(c)
BY DEF Covered

-----------------------------------------------------------------------------
\* Types.

LEMMA TypeInit == Init => TypeOK
<1> SUFFICES ASSUME Init PROVE TypeOK
  OBVIOUS
<1>1. /\ <<>> \in Seq(Frame) /\ Len(<<>>) = 0
      /\ mode \in Modes /\ clearRelated \in BOOLEAN
      /\ MaxDepth \in Nat /\ 0 \in 0 .. MaxFaults
  BY TypesAssumption DEF Init
<1> QED  BY <1>1 DEF Init, TypeOK

\* What the events and the rows of a chain add keeps the types.
LEMMA TypeWritten ==
    ASSUME TypeOK, NEW c \in Chains, NEW t \in Types, NEW d \in Parts,
           Written(c, t, d), Event(c, t)
    PROVE  /\ pending' \in [Chains -> SUBSET Entries]
           /\ event' \in [Chains -> Types \union {None}]
BY OutdatesFacts DEF TypeOK, Written, Event

LEMMA ScopeIsTypes ==
    ASSUME TypeOK, NEW c \in Chains
    PROVE  Scope(c) \subseteq Types
BY TopFact DEF TypeOK, Scope, Frame

LEMMA TypeNext == TypeOK /\ [Next]_vars => TypeOK'
<1> SUFFICES ASSUME TypeOK, [Next]_vars PROVE TypeOK'
  OBVIOUS
<1>1. CASE UNCHANGED vars
  BY <1>1 DEF vars, settings, TypeOK
<1>2. ASSUME NEW c \in Chains, Chain(c) PROVE TypeOK'
  <2>1. ASSUME NEW scope \in SUBSET Types, Arrive(c, scope) PROVE TypeOK'
    BY <2>1 DEF Arrive, settings, TypeOK
  <2>2. ASSUME NEW t \in Types, NEW d \in Parts, Write(c, t, d) PROVE TypeOK'
    <3> DEFINE f == [uid |-> t, doc |-> d, phase |-> "writing", before |-> pending[c],
                     scope |-> IF mode = "service" THEN InnerScope(c, t) ELSE {}]
    <3>1. f \in Frame
      BY ScopeIsTypes DEF TypeOK, Frame, InnerScope
    <3>2. Push(c, f) /\ Len(stack[c]) < MaxDepth
      BY <2>2 DEF Write
    <3> HIDE DEF f
    <3>3. Len(stack[c]) \in Nat
      BY LenProperties DEF TypeOK
    <3>4. /\ stack' \in [Chains -> Seq(Frame)]
          /\ \A x \in Chains \ {c} : stack'[x] = stack[x]
          /\ Len(stack'[c]) = Len(stack[c]) + 1
      BY <3>1, <3>2, PushFacts
    <3>5. \A x \in Chains : Len(stack'[x]) <= MaxDepth
      <4>1. Len(stack'[c]) <= MaxDepth
        BY <3>2, <3>3, <3>4, TypesAssumption
      <4>2. \A x \in Chains \ {c} : Len(stack'[x]) <= MaxDepth
        BY <3>4 DEF TypeOK
      <4> QED  BY <4>1, <4>2
    <3> QED  BY <2>2, <3>4, <3>5 DEF Write, settings, TypeOK
  <2>3. ASSUME NEW d \in Parts, Row(c, d) PROVE TypeOK'
    <3>1. Top(c).uid \in Types /\ Written(c, Top(c).uid, d) /\ Event(c, Top(c).uid)
      BY <2>3, TopFact DEF Row, Frame
    <3>2. /\ pending' \in [Chains -> SUBSET Entries]
          /\ event' \in [Chains -> Types \union {None}]
      BY <3>1, TypeWritten
    <3> QED  BY <2>3, <3>2 DEF Row, settings, TypeOK
  <2>4. ASSUME NEW t \in Types, NEW d \in Parts, RawWrite(c, t, d) PROVE TypeOK'
    <3>1. /\ pending' \in [Chains -> SUBSET Entries]
          /\ event' \in [Chains -> Types \union {None}]
      BY <2>4, TypeWritten DEF RawWrite
    <3> QED  BY <2>4, <3>1 DEF RawWrite, settings, TypeOK
  <2>5. ASSUME stack[c] # <<>>, Pop(c)
        PROVE  /\ stack' \in [Chains -> Seq(Frame)]
               /\ \A x \in Chains : Len(stack'[x]) <= MaxDepth
    <3>1. Len(stack[c]) \in Nat
      BY LenProperties DEF TypeOK
    <3> QED  BY <2>5, <3>1, PopFacts, TypesAssumption DEF TypeOK
  <2>6. CASE Fail(c)
    BY <2>5, <2>6 DEF Fail, settings, TypeOK
  <2>7. CASE Resolve(c)
    <3>1. CASE Unpurged(Top(c))
      BY <2>5, <2>7, <3>1 DEF Resolve, settings, TypeOK
    <3>2. CASE ~Unpurged(Top(c))
      <4> DEFINE f == [Top(c) EXCEPT !.phase = "purging"]
      <4>1. f \in Frame /\ SetTop(c, f) /\ stack[c] # <<>>
        BY <2>7, <3>2, TopFact DEF Resolve, Frame
      <4> HIDE DEF f
      <4>2. /\ stack' \in [Chains -> Seq(Frame)]
            /\ \A x \in Chains : Len(stack'[x]) <= MaxDepth
        BY <4>1, SetTopFacts DEF TypeOK
      <4> QED  BY <2>7, <4>2 DEF Resolve, settings, TypeOK
    <3> QED  BY <3>1, <3>2
  <2>8. CASE Purged(c)
    BY <2>5, <2>8 DEF Purged, settings, TypeOK
  <2>9. CASE EventPurged(c)
    BY <2>9 DEF EventPurged, settings, TypeOK
  <2>10. ASSUME NEW rejects \in BOOLEAN, PurgeFails(c, rejects) PROVE TypeOK'
    BY <2>5, <2>10, TypesAssumption DEF PurgeFails, settings, TypeOK
  <2>11. CASE EventPurgeFails(c)
    BY <2>11, TypesAssumption DEF EventPurgeFails, settings, TypeOK
  <2>12. CASE End(c)
    BY <2>12 DEF End, settings, TypeOK
  <2> QED  BY <1>2, <2>1, <2>2, <2>3, <2>4, <2>6, <2>7, <2>8, <2>9, <2>10, <2>11, <2>12
           DEF Chain
<1> QED  BY <1>1, <1>2 DEF Next

(* Every variable keeps its type, and nesting its bound.                    *)
THEOREM TypeCorrect == Spec => []TypeOK
BY TypeInit, TypeNext, PTL DEF Spec

-----------------------------------------------------------------------------
\* Scopes.

LEMMA ScopeFact ==
    ASSUME TypeOK, ScopeOK, mode = "service", NEW c \in Chains
    PROVE  \A t : t \in Scope(c) <=>
              t \in inherited[c] \/ \E j \in 1 .. Len(stack[c]) : t = stack[c][j].uid
<1>1. stack[c] \in Seq(Frame) /\ Len(stack[c]) \in Nat /\ DOMAIN stack[c] = 1 .. Len(stack[c])
  BY LenProperties DEF TypeOK
<1>2. CASE stack[c] = <<>>
  BY <1>1, <1>2 DEF Scope
<1>3. CASE stack[c] # <<>>
  <2> DEFINE n == Len(stack[c])
  <2>1. n \in DOMAIN stack[c] /\ Scope(c) = stack[c][n].scope
    BY <1>1, <1>3, TopFact DEF Scope
  <2> QED  BY <2>1 DEF ScopeOK
<1> QED  BY <1>2, <1>3

\* The document service leaves its own rows to its purge, and only those.
LEMMA EventFact ==
    ASSUME TypeOK, ScopeOK, NEW c \in Chains, NEW t \in Types, Event(c, t)
    PROVE  /\ \A x \in Chains \ {c} : event'[x] = event[x]
           /\ event'[c] \in {t, None}
           /\ event'[c] # None =>
                mode = "service" /\ t \in Cached /\ t \notin Scope(c)
           /\ mode = "service" /\ t \in Cached \intersect PluginTypes /\ t \notin Scope(c)
                => event'[c] = t
BY TypesAssumption DEF TypeOK, Event, InProgress

LEMMA ScopePush ==
    ASSUME TypeOK, ScopeOK, NEW c \in Chains, NEW f \in Frame, Push(c, f),
           mode = "service" => f.scope = Scope(c) \union {f.uid},
           UNCHANGED <<mode, inherited>>
    PROVE  ScopeOK'
<1> DEFINE n == Len(stack[c])
<1>1. n \in Nat /\ DOMAIN stack[c] = 1 .. n
  BY LenProperties DEF TypeOK
<1>2. /\ stack' \in [Chains -> Seq(Frame)]
      /\ \A x \in Chains \ {c} : stack'[x] = stack[x]
      /\ Len(stack'[c]) = n + 1
      /\ \A i \in 1 .. n : stack'[c][i] = stack[c][i]
      /\ stack'[c][n + 1] = f
  BY PushFacts
<1>3. DOMAIN stack'[c] = 1 .. n + 1
  BY <1>2, LenProperties
<1> HIDE DEF n
<1> SUFFICES ASSUME mode = "service", NEW x \in Chains, NEW i \in DOMAIN stack'[x], NEW t
             PROVE  t \in stack'[x][i].scope <=>
                      t \in inherited[x] \/ \E j \in 1 .. i : t = stack'[x][j].uid
  BY DEF ScopeOK
<1>4. CASE x # c
  BY <1>2, <1>4 DEF ScopeOK
<1>5. CASE x = c /\ i \in 1 .. n
  <2>1. \A j \in 1 .. i : stack'[c][j] = stack[c][j]
    BY <1>1, <1>2, <1>5
  <2>2. t \in stack[c][i].scope <=>
          t \in inherited[c] \/ \E j \in 1 .. i : t = stack[c][j].uid
    BY <1>1, <1>5 DEF ScopeOK
  <2> QED  BY <1>2, <1>5, <2>1, <2>2
<1>6. CASE x = c /\ i = n + 1
  <2>1. t \in Scope(c) <=> t \in inherited[c] \/ \E j \in 1 .. n : t = stack[c][j].uid
    BY ScopeFact DEF n
  <2>2. (\E j \in 1 .. i : t = stack'[c][j].uid) <=>
               t = f.uid \/ \E j \in 1 .. n : t = stack[c][j].uid
    <3>1. 1 .. i = (1 .. n) \union {n + 1}
      BY <1>1, <1>6
    <3> QED  BY <1>2, <3>1
  <2> QED  BY <1>2, <1>6, <2>1, <2>2
<1> QED  BY <1>1, <1>3, <1>4, <1>5, <1>6

\* Of two stacks, the second with no more frames than the first and the same
\* types and scopes in those it has.
Shortened(c) ==
    /\ stack' \in [Chains -> Seq(Frame)]
    /\ \A x \in Chains \ {c} : stack'[x] = stack[x]
    /\ DOMAIN stack'[c] \subseteq DOMAIN stack[c]
    /\ \A i \in DOMAIN stack'[c] :
        /\ stack'[c][i].uid = stack[c][i].uid
        /\ stack'[c][i].doc = stack[c][i].doc
        /\ stack'[c][i].scope = stack[c][i].scope
        /\ stack'[c][i].before = stack[c][i].before

LEMMA PopShortens ==
    ASSUME TypeOK, NEW c \in Chains, stack[c] # <<>>, Pop(c)
    PROVE  Shortened(c)
<1>1. /\ stack' \in [Chains -> Seq(Frame)]
      /\ \A x \in Chains \ {c} : stack'[x] = stack[x]
      /\ Len(stack'[c]) = Len(stack[c]) - 1
      /\ \A i \in 1 .. Len(stack[c]) - 1 : stack'[c][i] = stack[c][i]
  BY PopFacts
<1>2. /\ DOMAIN stack[c] = 1 .. Len(stack[c]) /\ Len(stack[c]) \in Nat
      /\ DOMAIN stack'[c] = 1 .. Len(stack[c]) - 1
  BY <1>1, LenProperties DEF TypeOK
<1> QED  BY <1>1, <1>2 DEF Shortened

LEMMA SetTopShortens ==
    ASSUME TypeOK, NEW c \in Chains, stack[c] # <<>>,
           SetTop(c, [Top(c) EXCEPT !.phase = "purging"])
    PROVE  Shortened(c)
<1> DEFINE f == [Top(c) EXCEPT !.phase = "purging"]
<1>1. /\ Len(stack[c]) \in Nat \ {0} /\ Top(c) = stack[c][Len(stack[c])] /\ Top(c) \in Frame
  BY TopFact
<1>2. /\ f \in Frame /\ f.uid = Top(c).uid /\ f.scope = Top(c).scope
      /\ f.doc = Top(c).doc /\ f.before = Top(c).before
  BY <1>1 DEF Frame
<1>3. SetTop(c, f)
  OBVIOUS
<1> HIDE DEF f
<1>4. /\ stack' \in [Chains -> Seq(Frame)]
      /\ \A x \in Chains \ {c} : stack'[x] = stack[x]
      /\ Len(stack'[c]) = Len(stack[c])
      /\ \A i \in 1 .. Len(stack[c]) - 1 : stack'[c][i] = stack[c][i]
      /\ stack'[c][Len(stack[c])] = f
  BY <1>2, <1>3, SetTopFacts
<1>5. DOMAIN stack[c] = 1 .. Len(stack[c]) /\ DOMAIN stack'[c] = 1 .. Len(stack[c])
  BY <1>4, LenProperties DEF TypeOK
<1>6. \A i \in 1 .. Len(stack[c]) : i \in 1 .. Len(stack[c]) - 1 \/ i = Len(stack[c])
  BY <1>1
<1> QED  BY <1>1, <1>2, <1>4, <1>5, <1>6 DEF Shortened

LEMMA ScopeShortened ==
    ASSUME TypeOK, ScopeOK, NEW c \in Chains, Shortened(c), UNCHANGED <<mode, inherited>>
    PROVE  ScopeOK'
<1>1. DOMAIN stack[c] = 1 .. Len(stack[c]) /\ Len(stack[c]) \in Nat
      /\ DOMAIN stack'[c] = 1 .. Len(stack'[c]) /\ Len(stack'[c]) \in Nat
  BY LenProperties DEF Shortened, TypeOK
<1> SUFFICES ASSUME mode = "service", NEW x \in Chains, NEW i \in DOMAIN stack'[x], NEW t
             PROVE  t \in stack'[x][i].scope <=>
                      t \in inherited[x] \/ \E j \in 1 .. i : t = stack'[x][j].uid
  BY DEF ScopeOK
<1>2. CASE x # c
  BY <1>2 DEF ScopeOK, Shortened
<1>3. CASE x = c
  <2>1. \A j \in 1 .. i : j \in DOMAIN stack'[c]
    BY <1>1, <1>3
  <2>2. \A j \in 1 .. i : stack'[c][j].uid = stack[c][j].uid
    BY <2>1 DEF Shortened
  <2>3. i \in DOMAIN stack[c] /\ stack'[c][i].scope = stack[c][i].scope
    BY <1>3 DEF Shortened
  <2>4. t \in stack[c][i].scope <=> t \in inherited[c] \/ \E j \in 1 .. i : t = stack[c][j].uid
    BY <2>3 DEF ScopeOK
  <2> QED  BY <1>3, <2>2, <2>3, <2>4
<1> QED  BY <1>2, <1>3

LEMMA ScopeNext ==
    ASSUME TypeOK, IdleOK, ScopeOK, NEW c \in Chains, Chain(c)
    PROVE  ScopeOK'
<1>1. ASSUME NEW scope \in SUBSET Types, Arrive(c, scope) PROVE ScopeOK'
  <2>1. stack[c] = <<>> /\ stack' = stack /\ mode' = mode
        /\ \A x \in Chains \ {c} : inherited'[x] = inherited[x]
    BY <1>1 DEF Arrive, IdleOK, settings, TypeOK
  <2>2. DOMAIN stack[c] = {}
    BY <2>1
  <2> QED  BY <2>1, <2>2 DEF ScopeOK
<1>2. ASSUME NEW t \in Types, NEW d \in Parts, Write(c, t, d) PROVE ScopeOK'
  <2> DEFINE f == [uid |-> t, doc |-> d, phase |-> "writing", before |-> pending[c],
                   scope |-> IF mode = "service" THEN InnerScope(c, t) ELSE {}]
  <2>1. f \in Frame
    BY ScopeIsTypes DEF TypeOK, Frame, InnerScope
  <2>2. mode = "service" => f.scope = Scope(c) \union {f.uid}
    BY DEF InnerScope
  <2>3. Push(c, f) /\ UNCHANGED <<mode, inherited>>
    BY <1>2 DEF Write, settings
  <2> HIDE DEF f
  <2> QED  BY <2>1, <2>2, <2>3, ScopePush
<1>3. CASE End(c)
  <2>1. stack[c] = <<>> /\ stack' = stack /\ mode' = mode
        /\ \A x \in Chains \ {c} : inherited'[x] = inherited[x]
    BY <1>3 DEF End, settings, TypeOK
  <2>2. DOMAIN stack[c] = {}
    BY <2>1
  <2> QED  BY <2>1, <2>2 DEF ScopeOK
<1>4. ASSUME UNCHANGED <<stack, mode, inherited>> PROVE ScopeOK'
  BY <1>4 DEF ScopeOK
<1>5. CASE Fail(c) \/ Resolve(c) \/ Purged(c) \/ \E rejects \in BOOLEAN : PurgeFails(c, rejects)
  <2>1. UNCHANGED <<mode, inherited>>
    BY <1>5 DEF Fail, Resolve, Purged, PurgeFails, settings
  <2>2. Shortened(c)
    BY <1>5, PopShortens, SetTopShortens DEF Fail, Resolve, Purged, PurgeFails
  <2> QED  BY <2>1, <2>2, ScopeShortened
<1> QED  BY <1>1, <1>2, <1>3, <1>4, <1>5
         DEF Chain, Row, RawWrite, EventPurged, EventPurgeFails, settings

LEMMA IdleNext ==
    ASSUME TypeOK, IdleOK, NEW c \in Chains, Chain(c)
    PROVE  IdleOK'
<1>1. \A x \in Chains \ {c} :
        /\ active'[x] = active[x] /\ stack'[x] = stack[x]
        /\ pending'[x] = pending[x] /\ event'[x] = event[x]
  BY Zenon DEF Chain, Arrive, Write, Row, RawWrite, Fail, Resolve, Purged, EventPurged,
         PurgeFails, EventPurgeFails, End, Push, Pop, SetTop, Written, Event, TypeOK
<1>2. ~active'[c] => stack'[c] = <<>> /\ pending'[c] = {} /\ event'[c] = None
  <2>1. CASE End(c)
    BY <2>1 DEF End, Running, TypeOK
  <2>2. ASSUME Chain(c), ~End(c) PROVE active'[c] 
    BY <2>2 DEF Chain, Arrive, Write, Row, RawWrite, Fail, Resolve, Purged, EventPurged,
         PurgeFails, EventPurgeFails, Running, IdleOK, TypeOK
  <2> QED  BY <2>1, <2>2
<1> QED  BY <1>1, <1>2 DEF IdleOK

LEMMA OnceNext ==
    ASSUME TypeOK, ScopeOK, PurgedOnce, NEW c \in Chains, Chain(c)
    PROVE  PurgedOnce'
<1> SUFFICES ASSUME NEW x \in Chains, event'[x] # None, NEW i \in DOMAIN stack'[x]
             PROVE  stack'[x][i].uid # event'[x]
  BY DEF PurgedOnce
<1>1. ASSUME NEW t \in Types, Event(c, t), UNCHANGED stack, event[c] = None
      PROVE  stack'[x][i].uid # event'[x]
  <2>1. CASE x # c
    BY <1>1, <2>1, EventFact DEF PurgedOnce
  <2>2. CASE x = c
    <3>1. event'[c] = t /\ mode = "service" /\ t \notin Scope(c)
      BY <1>1, <2>2, EventFact
    <3>2. DOMAIN stack[c] = 1 .. Len(stack[c])
      BY LenProperties DEF TypeOK
    <3> QED  BY <1>1, <2>2, <3>1, <3>2, ScopeFact
  <2> QED  BY <2>1, <2>2
<1>2. ASSUME NEW d \in Parts, Row(c, d) PROVE stack'[x][i].uid # event'[x]
  BY <1>1, <1>2, TopFact DEF Row, Running, Frame
<1>3. ASSUME NEW t \in Types, NEW d \in Parts, RawWrite(c, t, d)
      PROVE stack'[x][i].uid # event'[x]
  BY <1>1, <1>3 DEF RawWrite, Running
<1>4. ASSUME NEW t \in Types, NEW d \in Parts, Write(c, t, d)
      PROVE stack'[x][i].uid # event'[x]
  <2>1. event' = event /\ event[c] = None /\ \A y \in Chains \ {c} : stack'[y] = stack[y]
    BY <1>4 DEF Write, Running, Push, TypeOK
  <2> QED  BY <2>1 DEF PurgedOnce
<1>5. CASE EventPurged(c) \/ EventPurgeFails(c)
  <2>1. stack' = stack /\ event'[x] = event[x]
    BY <1>5 DEF EventPurged, EventPurgeFails, TypeOK
  <2> QED  BY <2>1 DEF PurgedOnce
<1>6. ASSUME UNCHANGED <<stack, event>> PROVE stack'[x][i].uid # event'[x]
  BY <1>6 DEF PurgedOnce
<1>7. ASSUME Shortened(c), UNCHANGED event PROVE stack'[x][i].uid # event'[x]
  BY <1>7 DEF PurgedOnce, Shortened
<1>8. CASE Fail(c) \/ Resolve(c) \/ Purged(c) \/ \E rejects \in BOOLEAN : PurgeFails(c, rejects)
  BY <1>7, <1>8, PopShortens, SetTopShortens DEF Fail, Resolve, Purged, PurgeFails
<1> QED  BY <1>2, <1>3, <1>4, <1>5, <1>6, <1>8 DEF Chain, Arrive, End

-----------------------------------------------------------------------------
\* Purges.

LEMMA MatchesByName ==
    ASSUME NEW f, NEW g, f.uid = g.uid, f.doc = g.doc
    PROVE  Matches(f) = Matches(g)
BY DEF Matches, Embedding

LEMMA OwedFacts ==
    ASSUME NEW c, NEW e
    PROVE  e \in Owed(c) <=>
             \/ \E i \in DOMAIN stack[c] : e \in Matches(stack[c][i])
             \/ event[c] # None /\ e \in EventMatches(event[c])
BY DEF Owed

LEMMA ExcusedIsFixed ==
    ASSUME UNCHANGED settings, NEW c, inherited'[c] = inherited[c]
    PROVE  Excused(c)' = Excused(c)
<1>1. /\ Unnamed' = Unnamed /\ clearRelated' = clearRelated
      /\ \A t, d : Outdates(t, d)' = Outdates(t, d)
  BY MatchesAreFixed DEF settings
<1> QED  BY <1>1 DEF Excused

PendingOK(c) == pending[c] \subseteq Owed(c) \union Excused(c)
FramesOK(c) == \A i \in DOMAIN stack[c] : stack[c][i].before \subseteq Covered(c, i - 1)

LEMMA OthersKept ==
    ASSUME TypeOK, NEW x, UNCHANGED settings, inherited'[x] = inherited[x],
           stack'[x] = stack[x], event'[x] = event[x]
    PROVE  /\ Owed(x)' = Owed(x)
           /\ Excused(x)' = Excused(x)
           /\ \A n : Covered(x, n)' = Covered(x, n)
<1>1. \A f : Matches(f)' = Matches(f)
  BY MatchesAreFixed
<1>2. \A t : EventMatches(t)' = EventMatches(t)
  BY MatchesAreFixed
<1>3. Excused(x)' = Excused(x)
  BY ExcusedIsFixed
<1>4. \A n : Covered(x, n)' = Covered(x, n)
  BY <1>1, <1>3 DEF Covered
<1>5. Owed(x)' = Owed(x)
  BY <1>1, <1>2 DEF Owed
<1> QED  BY <1>3, <1>4, <1>5

LEMMA FramesKept ==
    ASSUME TypeOK, NEW c \in Chains, UNCHANGED <<settings, inherited, stack>>, FramesOK(c)
    PROVE  FramesOK(c)'
<1>1. \A f : Matches(f)' = Matches(f)
  BY MatchesAreFixed
<1>2. \A n : Covered(c, n)' = Covered(c, n)
  BY <1>1, ExcusedIsFixed DEF Covered
<1> SUFFICES ASSUME NEW i \in DOMAIN stack[c]
             PROVE  stack'[c][i].before \subseteq Covered(c, i - 1)'
  BY DEF FramesOK
<1>3. Covered(c, i - 1)' = Covered(c, i - 1)
  BY <1>2
<1> QED  BY <1>3 DEF FramesOK

LEMMA FramesShortened ==
    ASSUME TypeOK, NEW c \in Chains, Shortened(c), UNCHANGED <<settings, inherited>>, FramesOK(c)
    PROVE  FramesOK(c)'
<1> SUFFICES ASSUME NEW i \in DOMAIN stack'[c], NEW e \in stack'[c][i].before
             PROVE  e \in Covered(c, i - 1)'
  BY DEF FramesOK
<1>1. DOMAIN stack'[c] = 1 .. Len(stack'[c]) /\ Len(stack'[c]) \in Nat
  BY LenProperties DEF Shortened
<1>2. i - 1 \in Nat /\ \A j \in 1 .. i - 1 : j \in DOMAIN stack'[c]
  BY <1>1
<1>3. e \in Covered(c, i - 1)
  BY DEF FramesOK, Shortened
<1>4. Excused(c)' = Excused(c)
  BY ExcusedIsFixed
<1>5. CASE e \in Excused(c)
  BY <1>4, <1>5 DEF Covered
<1>6. CASE e \notin Excused(c)
  <2>1. PICK j \in 1 .. i - 1 : e \in Matches(stack[c][j])
    BY <1>2, <1>3, <1>6, CoveredFacts
  <2>2. Matches(stack'[c][j]) = Matches(stack[c][j])
    BY <1>2, <2>1, MatchesByName DEF Shortened
  <2>3. Matches(stack[c][j])' = Matches(stack'[c][j])
    BY MatchesAreFixed
  <2> QED  BY <2>1, <2>2, <2>3 DEF Covered
<1> QED  BY <1>5, <1>6

\* A purge is over: what it owed and did not match was owed by the others.
LEMMA PopKeeps ==
    ASSUME TypeOK, NEW c \in Chains, stack[c] # <<>>, Pop(c), UNCHANGED <<settings, inherited, event>>,
           PendingOK(c), pending'[c] = pending[c] \ Matches(Top(c))
    PROVE  PendingOK(c)'
<1> SUFFICES ASSUME NEW e \in pending'[c], e \notin Excused(c)'
             PROVE  e \in Owed(c)'
  BY DEF PendingOK
<1>1. e \in Owed(c) /\ e \notin Matches(Top(c))
  BY ExcusedIsFixed DEF PendingOK
<1>2. CASE event[c] # None /\ e \in EventMatches(event[c])
  <2>1. e \in EventMatches(event[c])'
    BY <1>2, MatchesAreFixed
  <2> QED  BY <1>2, <2>1 DEF Owed
<1>3. CASE ~(event[c] # None /\ e \in EventMatches(event[c]))
  <2>1. PICK i \in DOMAIN stack[c] : e \in Matches(stack[c][i])
    BY <1>1, <1>3, OwedFacts
  <2>2. /\ DOMAIN stack[c] = 1 .. Len(stack[c]) /\ Len(stack[c]) \in Nat
        /\ Top(c) = stack[c][Len(stack[c])]
    BY LenProperties DEF TypeOK, Top
  <2>3. i \in 1 .. Len(stack[c]) - 1
    BY <1>1, <2>1, <2>2
  <2>4. /\ stack'[c][i] = stack[c][i] /\ stack'[c] \in Seq(Frame)
        /\ Len(stack'[c]) = Len(stack[c]) - 1
    BY <2>3, PopFacts
  <2>5. i \in DOMAIN stack'[c]
    BY <2>3, <2>4, LenProperties
  <2>6. e \in Matches(stack[c][i])'
    BY <2>1, <2>4, MatchesAreFixed
  <2> QED  BY <2>5, <2>6 DEF Owed
<1> QED  BY <1>2, <1>3

\* Rows are added to what is pending; a purge that matches them is on its way.
LEMMA RowKeeps ==
    ASSUME TypeOK, NEW c \in Chains, NEW t \in Types, NEW d \in Parts, PendingOK(c),
           event[c] = None, Written(c, t, d), UNCHANGED <<settings, inherited, stack>>,
           Outdates(t, d) \subseteq Owed(c)' \union Excused(c)
    PROVE  PendingOK(c)'
<1> SUFFICES ASSUME NEW e \in pending'[c], e \notin Excused(c)'
             PROVE  e \in Owed(c)'
  BY DEF PendingOK
<1>1. e \notin Excused(c) /\ e \in pending[c] \union Outdates(t, d)
  BY ExcusedIsFixed DEF Written, TypeOK
<1>2. CASE e \in Outdates(t, d)
  BY <1>1, <1>2
<1>3. CASE e \in pending[c]
  <2>1. e \in Owed(c)
    BY <1>1, <1>3 DEF PendingOK
  <2>2. PICK i \in DOMAIN stack[c] : e \in Matches(stack[c][i])
    BY <2>1, OwedFacts
  <2>3. e \in Matches(stack[c][i])'
    BY <2>2, MatchesAreFixed
  <2> QED  BY <2>3 DEF Owed
<1> QED  BY <1>1, <1>2, <1>3

LEMMA WriteKeeps ==
    ASSUME TypeOK, NEW c \in Chains, NEW f \in Frame, Push(c, f), f.before = pending[c],
           PendingOK(c), FramesOK(c), event[c] = None,
           UNCHANGED <<settings, inherited, event, pending>>
    PROVE  PendingOK(c)' /\ FramesOK(c)'
<1> DEFINE n == Len(stack[c])
<1>1. n \in Nat /\ DOMAIN stack[c] = 1 .. n
  BY LenProperties DEF TypeOK
<1>2. /\ stack' \in [Chains -> Seq(Frame)]
      /\ Len(stack'[c]) = n + 1
      /\ \A i \in 1 .. n : stack'[c][i] = stack[c][i]
      /\ stack'[c][n + 1] = f
  BY PushFacts
<1>3. DOMAIN stack'[c] = 1 .. n + 1
  BY <1>2, LenProperties
<1> HIDE DEF n
<1>4. Excused(c)' = Excused(c)
  BY ExcusedIsFixed
<1>5. \A e : \A i \in 1 .. n : e \in Matches(stack[c][i]) => e \in Matches(stack[c][i])'
  <2> SUFFICES ASSUME NEW e, NEW i \in 1 .. n, e \in Matches(stack[c][i])
               PROVE  e \in Matches(stack[c][i])'
    OBVIOUS
  <2> QED  BY <1>2, MatchesAreFixed
<1>6. PendingOK(c)'
  <2> SUFFICES ASSUME NEW e \in pending[c], e \notin Excused(c)
               PROVE  e \in Owed(c)'
    BY <1>4 DEF PendingOK
  <2>1. PICK i \in DOMAIN stack[c] : e \in Matches(stack[c][i])
    BY OwedFacts DEF PendingOK
  <2>2. i \in DOMAIN stack'[c]
    BY <1>1, <1>3, <2>1
  <2>3. e \in Matches(stack[c][i])'
    BY <1>1, <1>5, <2>1, Zenon
  <2> QED  BY <2>2, <2>3 DEF Owed
<1>7. FramesOK(c)'
  <2> SUFFICES ASSUME NEW i \in DOMAIN stack'[c], NEW e \in stack'[c][i].before,
                      e \notin Excused(c)
               PROVE  e \in Covered(c, i - 1)'
    BY <1>4 DEF FramesOK, Covered
  <2>1. \E j \in 1 .. i - 1 : j \in 1 .. n /\ e \in Matches(stack[c][j])
    <3>1. CASE i \in 1 .. n
      <4>1. i - 1 \in Nat /\ \A j \in 1 .. i - 1 : j \in 1 .. n
        BY <1>1, <3>1
      <4>2. i \in DOMAIN stack[c] /\ e \in stack[c][i].before
        BY <1>1, <1>2, <3>1
      <4>3. e \in Covered(c, i - 1)
        BY <4>2 DEF FramesOK
      <4> QED  BY <4>1, <4>3, CoveredFacts
    <3>2. CASE i = n + 1
      <4>1. e \in pending[c] /\ i - 1 = n
        BY <1>1, <1>2, <3>2
      <4>2. PICK j \in DOMAIN stack[c] : e \in Matches(stack[c][j])
        BY <4>1, OwedFacts DEF PendingOK
      <4> QED  BY <1>1, <4>1, <4>2
    <3> QED  BY <1>1, <1>3, <3>1, <3>2
  <2>2. PICK j \in 1 .. i - 1 : e \in Matches(stack[c][j])'
    BY <1>5, <2>1
  <2> QED  BY <2>2 DEF Covered
<1> QED  BY <1>6, <1>7

\* An undone write leaves what was pending before it, which the writes it is
\* nested in owe.
LEMMA FailKeeps ==
    ASSUME TypeOK, NEW c \in Chains, stack[c] # <<>>, Pop(c), FramesOK(c),
           UNCHANGED <<settings, inherited, event>>,
           pending'[c] = pending[c] \intersect Top(c).before
    PROVE  PendingOK(c)'
<1> SUFFICES ASSUME NEW e \in pending'[c], e \notin Excused(c)'
             PROVE  e \in Owed(c)'
  BY DEF PendingOK
<1>1. /\ DOMAIN stack[c] = 1 .. Len(stack[c]) /\ Len(stack[c]) \in Nat \ {0}
      /\ Top(c) = stack[c][Len(stack[c])]
  BY LenProperties, TopFact DEF TypeOK
<1>2. e \in Covered(c, Len(stack[c]) - 1) /\ e \notin Excused(c)
  BY <1>1, ExcusedIsFixed DEF FramesOK
<1>3. PICK i \in 1 .. Len(stack[c]) - 1 : e \in Matches(stack[c][i])
  BY <1>1, <1>2, CoveredFacts
<1>4. /\ stack'[c][i] = stack[c][i] /\ stack'[c] \in Seq(Frame)
      /\ Len(stack'[c]) = Len(stack[c]) - 1
  BY <1>3, PopFacts
<1>5. i \in DOMAIN stack'[c]
  BY <1>3, <1>4, LenProperties
<1>6. e \in Matches(stack[c][i])'
  BY <1>3, <1>4, MatchesAreFixed
<1> QED  BY <1>5, <1>6 DEF Owed

\* The purge begins: the write's frame stays.
LEMMA PurgingKeeps ==
    ASSUME TypeOK, NEW c \in Chains, Shortened(c), DOMAIN stack'[c] = DOMAIN stack[c],
           UNCHANGED <<settings, inherited, event, pending>>, PendingOK(c)
    PROVE  PendingOK(c)'
<1> SUFFICES ASSUME NEW e \in pending[c], e \notin Excused(c)
             PROVE  e \in Owed(c)'
  BY ExcusedIsFixed DEF PendingOK
<1>1. CASE event[c] # None /\ e \in EventMatches(event[c])
  <2>1. e \in EventMatches(event[c])'
    BY <1>1, MatchesAreFixed
  <2> QED  BY <1>1, <2>1 DEF Owed
<1>2. CASE ~(event[c] # None /\ e \in EventMatches(event[c]))
  <2>1. PICK i \in DOMAIN stack[c] : e \in Matches(stack[c][i])
    BY <1>2, OwedFacts DEF PendingOK
  <2>2. Matches(stack'[c][i]) = Matches(stack[c][i])
    BY <2>1, MatchesByName DEF Shortened
  <2>3. e \in Matches(stack[c][i])'
    BY <2>1, <2>2, MatchesAreFixed
  <2> QED  BY <2>1, <2>3 DEF Owed
<1> QED  BY <1>1, <1>2

\* While no purge failed and the request did not, a chain's step keeps both.
LEMMA ChainKeeps ==
    ASSUME TypeOK, IdleOK, ScopeOK, NEW c \in Chains, Chain(c),
           faults' = 0, failed'[c] = "no",
           (faults = 0 /\ failed[c] = "no") => (PendingOK(c) /\ FramesOK(c))
    PROVE  PendingOK(c)' /\ FramesOK(c)'
<1> DEFINE Goal == PendingOK(c)' /\ FramesOK(c)'
<1>1. faults \in Nat
  BY TypesAssumption DEF TypeOK
<1>3. ASSUME stack'[c] = <<>>, pending'[c] = {} PROVE Goal
  <2>1. DOMAIN stack'[c] = {}
    BY <1>3
  <2> QED  BY <1>3, <2>1 DEF PendingOK, FramesOK
<1>4. ASSUME NEW scope \in SUBSET Types, Arrive(c, scope) PROVE Goal
  BY <1>3, <1>4 DEF Arrive, IdleOK
<1>5. ASSUME NEW t \in Types, NEW d \in Parts, Write(c, t, d) PROVE Goal
  <2> DEFINE f == [uid |-> t, doc |-> d, phase |-> "writing", before |-> pending[c],
                   scope |-> IF mode = "service" THEN InnerScope(c, t) ELSE {}]
  <2>1. f \in Frame /\ f.before = pending[c]
    BY ScopeIsTypes DEF TypeOK, Frame, InnerScope
  <2>2. Push(c, f) /\ event[c] = None /\ faults = 0 /\ failed[c] = "no"
        /\ UNCHANGED <<settings, inherited, event, pending>>
    BY <1>5 DEF Write, Running
  <2> HIDE DEF f
  <2> QED  BY <2>1, <2>2, WriteKeeps
<1>6. ASSUME NEW d \in Parts, Row(c, d) PROVE Goal
  <2> DEFINE t == Top(c).uid
  <2>1. /\ event[c] = None /\ faults = 0 /\ failed[c] = "no" /\ stack[c] # <<>>
        /\ Top(c).doc \in {d, None} /\ Written(c, t, d) /\ Event(c, t)
        /\ UNCHANGED <<settings, inherited, stack>>
    BY <1>6 DEF Row, Running
  <2>2. Len(stack[c]) \in Nat \ {0} /\ Top(c) = stack[c][Len(stack[c])] /\ Top(c) \in Frame
    BY <2>1, TopFact
  <2>3. Len(stack[c]) \in DOMAIN stack[c] /\ t \in Types
    BY <2>2, LenProperties DEF TypeOK, Frame
  <2>4. Outdates(t, d) \subseteq Matches(Top(c)) \union Excused(c)
    BY <2>1, <2>2, RowIsMatched
  <2>5. event'[c] = None
    <3>1. mode = "service" => t \in Scope(c)
      BY <2>2, <2>3, LenProperties, ScopeFact DEF TypeOK
    <3> QED  BY <2>1, <2>3, <3>1, EventFact
  <2>6. Matches(Top(c)) \subseteq Owed(c)'
    <3>1. Matches(stack[c][Len(stack[c])])' = Matches(stack[c][Len(stack[c])])
      BY <2>1, MatchesAreFixed
    <3> QED  BY <2>1, <2>2, <2>3, <3>1 DEF Owed
  <2>7. PendingOK(c)'
    BY <2>1, <2>3, <2>4, <2>6, RowKeeps
  <2> QED  BY <2>1, <2>7, FramesKept
<1>7. ASSUME NEW t \in Types, NEW d \in Parts, RawWrite(c, t, d) PROVE Goal
  <2>1. /\ event[c] = None /\ faults = 0 /\ failed[c] = "no" /\ mode = "service"
        /\ t \in Cached \intersect PluginTypes /\ Written(c, t, d) /\ Event(c, t)
        /\ UNCHANGED <<settings, inherited, stack>>
    BY <1>7 DEF RawWrite, Running
  <2>2. Outdates(t, d) \subseteq Owed(c)' \union Excused(c)
    <3>1. CASE t \notin Scope(c)
      <4>1. event'[c] = t /\ t # None
        BY <2>1, <3>1, EventFact, TypesAssumption
      <4>2. Outdates(t, d) \subseteq EventMatches(t) /\ EventMatches(t)' = EventMatches(t)
        BY <2>1, EventIsMatched, MatchesAreFixed
      <4> QED  BY <4>1, <4>2 DEF Owed
    <3>2. CASE t \in inherited[c]
      BY <3>2 DEF Excused
    <3>3. CASE t \in Scope(c) /\ t \notin inherited[c]
      <4>1. PICK i \in 1 .. Len(stack[c]) : t = stack[c][i].uid
        BY <2>1, <3>3, ScopeFact
      <4>2. i \in DOMAIN stack[c] /\ stack[c][i] \in Frame
        BY <4>1, LenProperties DEF TypeOK
      <4>3. Outdates(t, d) \subseteq Matches(stack[c][i]) \union Excused(c)
        BY <2>1, <4>1, <4>2, RawIsMatched
      <4>4. Matches(stack[c][i])' = Matches(stack[c][i])
        BY <2>1, MatchesAreFixed
      <4> QED  BY <2>1, <4>2, <4>3, <4>4 DEF Owed
    <3> QED  BY <3>1, <3>2, <3>3
  <2>3. PendingOK(c)'
    BY <2>1, <2>2, RowKeeps
  <2> QED  BY <2>1, <2>3, FramesKept
<1>8. ASSUME stack[c] # <<>>, Pop(c), UNCHANGED <<settings, inherited>>, FramesOK(c)
      PROVE  FramesOK(c)'
  BY <1>8, PopShortens, FramesShortened
<1>9. CASE Fail(c)
  <2>1. mode = "service"
    BY <1>9 DEF Fail, TypeOK
  <2>2. /\ stack[c] # <<>> /\ Pop(c) /\ faults = 0 /\ failed[c] = "no"
        /\ UNCHANGED <<settings, inherited, event>>
        /\ pending'[c] = pending[c] \intersect Top(c).before
    BY <1>9, <2>1 DEF Fail, TypeOK
  <2> QED  BY <1>8, <2>2, FailKeeps
<1>10. CASE Resolve(c)
  <2>1. /\ stack[c] # <<>> /\ faults = 0 /\ failed[c] = "no"
        /\ UNCHANGED <<settings, inherited, event, pending>>
    BY <1>10 DEF Resolve
  <2>2. CASE Unpurged(Top(c))
    <3>1. Pop(c) /\ pending'[c] = pending[c] \ Matches(Top(c))
      BY <1>10, <2>1, <2>2 DEF Resolve, Unpurged
    <3> QED  BY <1>8, <2>1, <3>1, PopKeeps
  <2>3. CASE ~Unpurged(Top(c))
    <3> DEFINE f == [Top(c) EXCEPT !.phase = "purging"]
    <3>1. SetTop(c, f)
      BY <1>10, <2>3 DEF Resolve
    <3>2. Shortened(c) /\ f \in Frame
      BY <2>1, <3>1, SetTopShortens, TopFact DEF Frame
    <3> HIDE DEF f
    <3>3. DOMAIN stack'[c] = DOMAIN stack[c]
      BY <2>1, <3>1, <3>2, SetTopFacts, LenProperties DEF TypeOK
    <3> QED  BY <2>1, <3>2, <3>3, PurgingKeeps, FramesShortened
  <2> QED  BY <2>2, <2>3
<1>11. CASE Purged(c)
  <2>1. /\ stack[c] # <<>> /\ Pop(c) /\ faults = 0 /\ failed[c] = "no"
        /\ UNCHANGED <<settings, inherited, event>>
        /\ pending'[c] = pending[c] \ Matches(Top(c))
    BY <1>11 DEF Purged, TypeOK
  <2> QED  BY <1>8, <2>1, PopKeeps
<1>12. CASE EventPurged(c)
  <2>1. /\ faults = 0 /\ failed[c] = "no" /\ UNCHANGED <<settings, inherited, stack>>
        /\ event[c] # None /\ event'[c] = None
        /\ pending'[c] = pending[c] \ EventMatches(event[c])
    BY <1>12 DEF EventPurged, TypeOK
  <2>2. Excused(c)' = Excused(c) /\ \A f : Matches(f)' = Matches(f)
    BY <2>1, ExcusedIsFixed, MatchesAreFixed
  <2>3. PendingOK(c)'
    <3> SUFFICES ASSUME NEW e \in pending'[c], e \notin Excused(c)
                 PROVE  e \in Owed(c)'
      BY <2>2 DEF PendingOK
    <3>1. PICK i \in DOMAIN stack[c] : e \in Matches(stack[c][i])
      BY <2>1, OwedFacts DEF PendingOK
    <3>2. e \in Matches(stack[c][i])'
      BY <2>1, <3>1, MatchesAreFixed
    <3> QED  BY <2>1, <3>1, <3>2 DEF Owed
  <2> QED  BY <2>1, <2>3, FramesKept
<1>13. ~EventPurgeFails(c) /\ \A rejects \in BOOLEAN : ~PurgeFails(c, rejects)
  BY <1>1 DEF EventPurgeFails, PurgeFails
<1>14. CASE End(c)
  BY <1>3, <1>14 DEF End, TypeOK
<1> QED  BY <1>4, <1>5, <1>6, <1>7, <1>9, <1>10, <1>11, <1>12, <1>13, <1>14 DEF Chain

\* A step of one chain leaves the others alone, except for the purges failed.
LEMMA OtherChains ==
    ASSUME TypeOK, NEW c \in Chains, Chain(c), NEW x \in Chains \ {c}
    PROVE  /\ UNCHANGED settings
           /\ stack'[x] = stack[x] /\ inherited'[x] = inherited[x]
           /\ event'[x] = event[x] /\ pending'[x] = pending[x]
           /\ failed'[x] = failed[x]
           /\ faults' = 0 => faults = 0
<1>1. /\ UNCHANGED settings
      /\ stack'[x] = stack[x] /\ inherited'[x] = inherited[x]
      /\ event'[x] = event[x] /\ pending'[x] = pending[x]
      /\ failed'[x] = failed[x]
      /\ faults' \in {faults, faults + 1}
  BY DEF Chain, Arrive, Write, Row, RawWrite, Fail, Resolve, Purged, EventPurged,
         PurgeFails, EventPurgeFails, End, Push, Pop, SetTop, Written, Event, TypeOK
<1>2. faults \in Nat
  BY TypesAssumption DEF TypeOK
<1> QED  BY <1>1, <1>2

\* The inductive invariant.
IInv ==
    /\ TypeOK
    /\ IdleOK
    /\ ScopeOK
    /\ PurgedOnce
    /\ faults = 0 => \A c \in Chains : failed[c] = "no" => PendingOK(c) /\ FramesOK(c)

LEMMA IInvInit == Init => IInv
<1> SUFFICES ASSUME Init PROVE IInv
  OBVIOUS
<1>1. DOMAIN <<>> = {}
  OBVIOUS
<1>2. IdleOK /\ PurgedOnce
  BY DEF Init, IdleOK, PurgedOnce
<1>3. ScopeOK
  BY <1>1 DEF Init, ScopeOK
<1>4. \A c \in Chains : PendingOK(c) /\ FramesOK(c)
  BY <1>1 DEF Init, PendingOK, FramesOK
<1> QED  BY <1>2, <1>3, <1>4, TypeInit DEF IInv

LEMMA IInvNext == IInv /\ [Next]_vars => IInv'
<1> SUFFICES ASSUME IInv, [Next]_vars PROVE IInv'
  OBVIOUS
<1>1. CASE UNCHANGED vars
  <2>1. TypeOK' /\ IdleOK' /\ PurgedOnce'
    BY <1>1, TypeNext DEF vars, IInv, IdleOK, PurgedOnce
  <2>2. ScopeOK'
    BY <1>1 DEF vars, settings, IInv, ScopeOK
  <2>3. ASSUME NEW c \in Chains, PendingOK(c), FramesOK(c) PROVE PendingOK(c)' /\ FramesOK(c)'
    <3>1. Owed(c)' = Owed(c) /\ Excused(c)' = Excused(c)
      BY <1>1, OthersKept DEF vars, IInv
    <3>2. PendingOK(c)'
      BY <1>1, <2>3, <3>1 DEF vars, PendingOK
    <3> QED  BY <1>1, <2>3, <3>2, FramesKept DEF vars, IInv
  <2>4. UNCHANGED <<faults, failed>>
    BY <1>1 DEF vars
  <2> QED  BY <2>1, <2>2, <2>3, <2>4 DEF IInv
<1>2. ASSUME NEW c \in Chains, Chain(c) PROVE IInv'
  <2>1. TypeOK'
    BY TypeNext DEF IInv
  <2>2. IdleOK' /\ ScopeOK' /\ PurgedOnce'
    BY <1>2, IdleNext, ScopeNext, OnceNext DEF IInv
  <2>3. ASSUME faults' = 0, NEW x \in Chains, failed'[x] = "no"
        PROVE  PendingOK(x)' /\ FramesOK(x)'
    <3>1. CASE x = c
      BY <1>2, <2>3, <3>1, ChainKeeps DEF IInv
    <3>2. CASE x # c
      <4>1. /\ UNCHANGED settings
            /\ stack'[x] = stack[x] /\ inherited'[x] = inherited[x]
            /\ event'[x] = event[x] /\ pending'[x] = pending[x]
            /\ failed'[x] = failed[x] /\ faults = 0
        BY <1>2, <2>3, <3>2, OtherChains DEF IInv
      <4>2. PendingOK(x) /\ FramesOK(x)
        BY <2>3, <4>1 DEF IInv
      <4>3. Owed(x)' = Owed(x) /\ Excused(x)' = Excused(x) /\ \A n : Covered(x, n)' = Covered(x, n)
        BY <4>1, OthersKept DEF IInv
      <4>4. PendingOK(x)'
        BY <4>1, <4>2, <4>3 DEF PendingOK
      <4>5. ASSUME NEW i \in DOMAIN stack[x]
            PROVE  stack'[x][i].before \subseteq Covered(x, i - 1)'
        <5>1. Covered(x, i - 1)' = Covered(x, i - 1)
          BY <4>3
        <5> QED  BY <4>1, <4>2, <5>1 DEF FramesOK
      <4> QED  BY <4>1, <4>4, <4>5 DEF FramesOK
    <3> QED  BY <3>1, <3>2
  <2> QED  BY <2>1, <2>2, <2>3 DEF IInv
<1> QED  BY <1>1, <1>2 DEF Next

LEMMA Invariant == Spec => []IInv
BY IInvInit, IInvNext, PTL DEF Spec

(* Every write is purged before it returns, for every schema, every mix and *)
(* every depth of nested writes.                                            *)
THEOREM WritesArePurged == Spec => []EachWriteIsPurged
<1>1. IInv => EachWriteIsPurged
  BY DEF IInv, EachWriteIsPurged, PendingOK
<1> QED  BY <1>1, Invariant, PTL

(* A document service write's own database events never purge again.        *)
THEOREM WritesArePurgedOnce == Spec => []PurgedOnce
<1>1. IInv => PurgedOnce
  BY DEF IInv
<1> QED  BY <1>1, Invariant, PTL

=============================================================================
