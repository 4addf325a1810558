--------------------------- MODULE RestCache_proofs ---------------------------
(***************************************************************************)
(* The purge log's answers, type correctness and StaleIsOwned of           *)
(* RestCache, for every number of keys, requests, writes, for every size   *)
(* of the purge log and with or without ETags.                             *)
(***************************************************************************)
EXTENDS RestCache, Integers, TLAPS

-----------------------------------------------------------------------------
(* The purge log, for every number of purges.  The inductive invariant is   *)
(* LogIsSuffix: the log is the end of the history, complete unless it is    *)
(* full.                                                                    *)
LogInv == LogTypeOK /\ LogIsSuffix

LEMMA LogInvInit == LogInit => LogInv
BY SizeAssumption DEF LogInit, LogInv, LogTypeOK, LogIsSuffix, Purge

(* recordPurge keeps the log the end of the history. *)
LEMMA LogInvRecord ==
    ASSUME LogInv, NEW matched \in SUBSET Keys, RecordPurge(matched)
    PROVE  LogInv'
<1> DEFINE entry == [generation |-> generation + 1, keys |-> matched]
           longer == Append(purgeLog, entry)
           n == Len(purgeLog)
           At(past, g) == [generation |-> g, keys |-> past[g]]
           Suffix(log, past, last) ==
               \A i \in 1 .. Len(log) :
                   log[i] = At(past, last - Len(log) + i)
<1>1. /\ generation \in Nat
      /\ purgeLog \in Seq(Purge)
      /\ history \in Seq(SUBSET Keys)
      /\ n \in Nat
      /\ Len(history) = generation
      /\ n = IF generation < PurgeLogSize THEN generation ELSE PurgeLogSize
      /\ DOMAIN purgeLog = 1 .. n
      /\ PurgeLogSize \in Nat \ {0}
  BY SizeAssumption DEF LogInv, LogTypeOK, LogIsSuffix
<1>2. Suffix(purgeLog, history, generation)
  BY <1>1 DEF LogInv, LogIsSuffix
<1>3. /\ longer \in Seq(Purge)
      /\ Len(longer) = n + 1
      /\ \A i \in 1 .. n : longer[i] = purgeLog[i]
      /\ longer[n + 1] = entry
      /\ longer # <<>>
  <2>1. entry \in Purge
    BY <1>1 DEF Purge
  <2>2. longer \in Seq(Purge)
    BY <2>1, <1>1
  <2>3. Len(longer) = n + 1 /\ longer[n + 1] = entry
    BY <2>1, <1>1
  <2>4. \A i \in 1 .. n : longer[i] = purgeLog[i]
    BY <2>1, <1>1
  <2>5. longer # <<>>
    BY <2>2, <2>3, <1>1
  <2> QED  BY <2>2, <2>3, <2>4, <2>5
<1>4. /\ history' \in Seq(SUBSET Keys)
      /\ Len(history') = generation + 1
      /\ \A g \in 1 .. generation : history'[g] = history[g]
      /\ history'[generation + 1] = matched
      /\ generation' = generation + 1
      /\ purgeLog' = IF Len(longer) > PurgeLogSize THEN Tail(longer) ELSE longer
  BY <1>1 DEF RecordPurge, Pushed
<1> HIDE DEF longer, n
<1>5. Suffix(longer, history', generation + 1)
  <2> SUFFICES ASSUME NEW i \in 1 .. n + 1
               PROVE  longer[i] = At(history', generation - n + i)
    BY <1>1, <1>3
  <2>1. CASE i = n + 1
    <3>1. generation - n + i = generation + 1
      BY <2>1, <1>1
    <3> QED  BY <2>1, <3>1, <1>3, <1>4
  <2>2. CASE i \in 1 .. n
    <3>1. /\ longer[i] = purgeLog[i]
          /\ purgeLog[i] = At(history, generation - n + i)
      BY <2>2, <1>2, <1>3 DEF n
    <3>2. generation - n + i \in 1 .. generation
      BY <2>2, <1>1
    <3> QED  BY <3>1, <3>2, <1>4
  <2> QED  BY <2>1, <2>2, <1>1
<1>6. /\ purgeLog' \in Seq(Purge)
      /\ Len(purgeLog') = IF generation + 1 < PurgeLogSize
                          THEN generation + 1 ELSE PurgeLogSize
      /\ Suffix(purgeLog', history', generation + 1)
  <2>1. CASE Len(longer) > PurgeLogSize
    <3>1. /\ purgeLog' = Tail(longer)
          /\ purgeLog' \in Seq(Purge)
          /\ Len(purgeLog') = n
          /\ \A i \in 1 .. n : purgeLog'[i] = longer[i + 1]
      BY <2>1, <1>1, <1>3, <1>4
    <3>2. n = PurgeLogSize /\ generation >= PurgeLogSize
      BY <2>1, <1>1, <1>3
    <3>3. ASSUME NEW i \in 1 .. n
          PROVE  purgeLog'[i] = At(history', (generation + 1) - n + i)
      <4> DEFINE j == i + 1
      <4>1. /\ j \in 1 .. Len(longer)
            /\ (generation + 1) - Len(longer) + j = (generation + 1) - n + i
            /\ purgeLog'[i] = longer[j]
        BY <1>1, <1>3, <3>1
      <4> HIDE DEF j
      <4>2. longer[j] = At(history', (generation + 1) - Len(longer) + j)
        BY <4>1, <1>1, <1>3, <1>5
      <4> QED  BY <4>1, <4>2
    <3>4. Suffix(purgeLog', history', generation + 1)
      <4>1. 1 .. Len(purgeLog') = 1 .. n
        BY <3>1
      <4> QED  BY <3>1, <3>3, <4>1, <1>1
    <3>5. Len(purgeLog') = IF generation + 1 < PurgeLogSize
                           THEN generation + 1 ELSE PurgeLogSize
      BY <3>1, <3>2, <1>1
    <3> QED  BY <3>1, <3>4, <3>5
  <2>2. CASE ~(Len(longer) > PurgeLogSize)
    <3>1. purgeLog' = longer
      BY <2>2, <1>4
    <3>2. n + 1 = generation + 1 /\ generation + 1 <= PurgeLogSize
      BY <2>2, <1>1, <1>3
    <3> QED  BY <3>1, <3>2, <1>1, <1>3, <1>5
  <2> QED  BY <2>1, <2>2
<1>7. LogTypeOK'
  BY <1>1, <1>4, <1>6 DEF LogTypeOK
<1>8. LogIsSuffix'
  <2>1. DOMAIN purgeLog' = 1 .. Len(purgeLog')
    BY <1>6
  <2>2. /\ Len(history') = generation'
        /\ Len(purgeLog') = IF generation' < PurgeLogSize
                            THEN generation' ELSE PurgeLogSize
    BY <1>4, <1>6
  <2>3. ASSUME NEW i \in DOMAIN purgeLog'
        PROVE  purgeLog'[i] = At(history', generation' - Len(purgeLog') + i)
    BY <2>1, <1>4, <1>6
  <2> QED  BY <2>2, <2>3 DEF LogIsSuffix
<1> QED  BY <1>7, <1>8 DEF LogInv

LEMMA LogInvNext == LogInv /\ [LogNext]_logVars => LogInv'
<1> SUFFICES ASSUME LogInv, [LogNext]_logVars PROVE LogInv'
  OBVIOUS
<1>1. CASE LogNext
  <2>1. PICK matched \in Scopes \union {Keys} : RecordPurge(matched)
    BY <1>1 DEF LogNext
  <2>2. matched \in SUBSET Keys
    BY KeysAssumption
  <2> QED  BY <2>1, <2>2, LogInvRecord
<1>2. CASE UNCHANGED logVars
  BY <1>2 DEF logVars, LogInv, LogTypeOK, LogIsSuffix
<1> QED  BY <1>1, <1>2

-----------------------------------------------------------------------------
\* LogInv in the form the lemmas below use it.
Shape ==
    /\ generation \in Nat
    /\ PurgeLogSize \in Nat \ {0}
    /\ Len(purgeLog) \in Nat
    /\ Len(purgeLog) = IF generation < PurgeLogSize THEN generation ELSE PurgeLogSize
    /\ DOMAIN purgeLog = 1 .. Len(purgeLog)
    /\ purgeLog = <<>> => Len(purgeLog) = 0
    /\ Len(history) = generation
    /\ \A i \in 1 .. Len(purgeLog) :
          purgeLog[i] = [generation |-> generation - Len(purgeLog) + i,
                         keys |-> history[generation - Len(purgeLog) + i]]

LEMMA LogShape == LogInv => Shape
<1> SUFFICES ASSUME LogInv PROVE Shape
  OBVIOUS
<1>1. /\ generation \in Nat /\ purgeLog \in Seq(Purge) /\ PurgeLogSize \in Nat \ {0}
      /\ Len(purgeLog) = IF generation < PurgeLogSize THEN generation ELSE PurgeLogSize
      /\ Len(history) = generation
  BY SizeAssumption DEF LogInv, LogTypeOK, LogIsSuffix
<1>2. /\ Len(purgeLog) \in Nat /\ DOMAIN purgeLog = 1 .. Len(purgeLog)
      /\ purgeLog = <<>> => Len(purgeLog) = 0
  BY <1>1
<1>3. \A i \in 1 .. Len(purgeLog) :
          purgeLog[i] = [generation |-> generation - Len(purgeLog) + i,
                         keys |-> history[generation - Len(purgeLog) + i]]
  BY <1>2 DEF LogInv, LogIsSuffix
<1> QED  BY <1>1, <1>2, <1>3 DEF Shape

(* purgedSince has no false negative: a recorded purge is either still in   *)
(* the log or older than its first entry.                                   *)
LEMMA NoMissedPurgeInv == LogInv => NoMissedPurge
<1> SUFFICES ASSUME LogInv,
                    NEW since \in 0 .. generation, NEW k \in Keys,
                    NEW g \in since + 1 .. generation, k \in history[g]
             PROVE  purgedSince(since, k)
  BY DEF NoMissedPurge, Purged
<1> DEFINE n == Len(purgeLog)
<1>1. /\ generation \in Nat /\ n \in Nat /\ DOMAIN purgeLog = 1 .. n
      /\ PurgeLogSize \in Nat \ {0}
      /\ n = IF generation < PurgeLogSize THEN generation ELSE PurgeLogSize
      /\ \A i \in 1 .. n : purgeLog[i] =
            [generation |-> generation - n + i, keys |-> history[generation - n + i]]
      /\ purgeLog = <<>> => n = 0
  BY LogShape DEF Shape
<1> HIDE DEF n
<1>2. since # generation
  BY <1>1
<1>3. CASE g > generation - n
  <2> DEFINE i == g - (generation - n)
  <2>1. i \in 1 .. n /\ generation - n + i = g
    BY <1>1, <1>3
  <2> HIDE DEF i
  <2>2. purgeLog[i] = [generation |-> g, keys |-> history[g]]
    BY <2>1, <1>1
  <2>3. i \in DOMAIN purgeLog /\ purgeLog[i].generation > since /\ k \in purgeLog[i].keys
    BY <2>1, <2>2, <1>1
  <2> QED  BY <2>3, <1>2 DEF purgedSince
<1>4. CASE ~(g > generation - n)
  <2>1. 1 \in 1 .. n /\ generation - n + 1 > since + 1
    BY <1>1, <1>4
  <2>2. purgeLog[1] = [generation |-> generation - n + 1, keys |-> history[generation - n + 1]]
    BY <2>1, <1>1
  <2>3. Forgotten(since)
    BY <2>1, <2>2 DEF Forgotten
  <2> QED  BY <2>3, <1>2 DEF purgedSince
<1> QED  BY <1>3, <1>4

(* It is exact while the log has not overflowed: what it finds is a purge   *)
(* of the history.                                                          *)
LEMMA UnrelatedPurgesIgnoredInv == LogInv => UnrelatedPurgesIgnored
<1> SUFFICES ASSUME LogInv,
                    NEW since \in 0 .. generation, NEW k \in Keys,
                    purgedSince(since, k), generation - since <= PurgeLogSize
             PROVE  Purged(since, k)
  BY DEF UnrelatedPurgesIgnored
<1> DEFINE n == Len(purgeLog)
<1>1. /\ generation \in Nat /\ n \in Nat /\ DOMAIN purgeLog = 1 .. n
      /\ PurgeLogSize \in Nat \ {0}
      /\ n = IF generation < PurgeLogSize THEN generation ELSE PurgeLogSize
      /\ \A i \in 1 .. n : purgeLog[i] =
            [generation |-> generation - n + i, keys |-> history[generation - n + i]]
      /\ purgeLog = <<>> => n = 0
  BY LogShape DEF Shape
<1> HIDE DEF n
<1>2. since # generation
  BY DEF purgedSince
<1>3. n >= 1 /\ generation - n + 1 <= since + 1
  BY <1>1, <1>2
<1>4. purgeLog # <<>>
  BY <1>1, <1>3
<1>5. ~Forgotten(since)
  <2>1. purgeLog[1] = [generation |-> generation - n + 1, keys |-> history[generation - n + 1]]
    BY <1>1, <1>3
  <2> QED  BY <2>1, <1>3, <1>1 DEF Forgotten
<1>6. PICK i \in DOMAIN purgeLog : purgeLog[i].generation > since /\ k \in purgeLog[i].keys
  BY <1>4, <1>5 DEF purgedSince
<1> DEFINE g == generation - n + i
<1>7. purgeLog[i] = [generation |-> g, keys |-> history[g]]
  BY <1>1, <1>6
<1>8. g \in since + 1 .. generation /\ k \in history[g]
  <2>1. g > since /\ k \in history[g]
    BY <1>6, <1>7
  <2>2. g <= generation /\ g \in Int
    BY <1>1, <1>6
  <2> QED  BY <2>1, <2>2, <1>1
<1> QED  BY <1>8 DEF Purged

-----------------------------------------------------------------------------
(* A purge is visible from the moment it is recorded, to every read that    *)
(* sampled the generation before.                                           *)
LEMMA RecordedIsSeen ==
    ASSUME LogInv, NEW matched \in SUBSET Keys, RecordPurge(matched),
           NEW since \in 0 .. generation, NEW k \in matched
    PROVE  purgedSince(since, k)'
<1>1. LogInv'
  BY LogInvRecord
<1>2. NoMissedPurge'
  BY <1>1, NoMissedPurgeInv, PTL
<1>3. generation \in Nat /\ generation' = generation + 1 /\ history'[generation + 1] = matched
  BY DEF LogInv, LogTypeOK, LogIsSuffix, RecordPurge
<1>4. generation + 1 \in since + 1 .. generation' /\ since \in 0 .. generation' /\ k \in Keys
  BY <1>3
<1>5. \E g \in since + 1 .. generation' : k \in history'[g]
  BY <1>3, <1>4
<1> QED  BY <1>2, <1>4, <1>5 DEF NoMissedPurge, Purged

(* A positive answer is never taken back.                                   *)
LEMMA PurgedStays ==
    ASSUME LogInv, NEW matched \in SUBSET Keys, RecordPurge(matched),
           NEW since \in 0 .. generation, NEW k \in Keys,
           purgedSince(since, k)
    PROVE  purgedSince(since, k)'
<1> DEFINE n == Len(purgeLog)
           m == Len(purgeLog')
<1>1. /\ generation \in Nat /\ n \in Nat /\ DOMAIN purgeLog = 1 .. n
      /\ PurgeLogSize \in Nat \ {0}
      /\ n = IF generation < PurgeLogSize THEN generation ELSE PurgeLogSize
      /\ \A i \in 1 .. n : purgeLog[i] =
            [generation |-> generation - n + i, keys |-> history[generation - n + i]]
      /\ purgeLog = <<>> => n = 0
  BY LogShape DEF Shape
<1>2. LogInv'
  BY LogInvRecord
<1>3. /\ generation' = generation + 1 /\ m \in Nat /\ DOMAIN purgeLog' = 1 .. m
      /\ m = IF generation + 1 < PurgeLogSize THEN generation + 1 ELSE PurgeLogSize
      /\ \A i \in 1 .. m : purgeLog'[i] =
            [generation |-> generation' - m + i, keys |-> history'[generation' - m + i]]
  <2>1. Shape'
    BY <1>2, LogShape, PTL
  <2>2. generation' = generation + 1
    BY DEF RecordPurge
  <2> QED  BY <2>1, <2>2 DEF Shape
<1>4. \A g \in 1 .. generation : history'[g] = history[g]
  <2>1. history \in Seq(SUBSET Keys) /\ Len(history) = generation
    BY DEF LogInv, LogTypeOK, LogIsSuffix
  <2> QED  BY <2>1 DEF RecordPurge
<1> HIDE DEF n, m
<1>5. since # generation /\ since # generation' /\ purgeLog # <<>>
  BY <1>1, <1>3 DEF purgedSince
<1>6. CASE Forgotten(since)
  <2>1. 1 \in 1 .. n /\ 1 \in 1 .. m
    BY <1>1, <1>3, <1>5
  <2>2. purgeLog[1] = [generation |-> generation - n + 1, keys |-> history[generation - n + 1]]
    BY <2>1, <1>1
  <2>3. purgeLog'[1] = [generation |-> generation' - m + 1, keys |-> history'[generation' - m + 1]]
    BY <2>1, <1>3
  <2>4. purgeLog[1].generation = generation - n + 1 /\ purgeLog'[1].generation = generation' - m + 1
    BY <2>2, <2>3
  <2>5. purgeLog'[1].generation > since + 1
    BY <2>4, <1>1, <1>3, <1>6 DEF Forgotten
  <2> QED  BY <2>5, <1>5 DEF purgedSince, Forgotten
<1>7. CASE ~Forgotten(since)
  <2>1. PICK i \in 1 .. n : purgeLog[i].generation > since /\ k \in purgeLog[i].keys
    BY <1>1, <1>5, <1>7 DEF purgedSince
  <2> DEFINE g == generation - n + i
  <2>2. purgeLog[i] = [generation |-> g, keys |-> history[g]]
    BY <2>1, <1>1
  <2>3. g > since /\ k \in history[g]
    BY <2>1, <2>2
  <2>4. g \in 1 .. generation /\ g \in since + 1 .. generation'
    BY <2>3, <1>1, <1>3
  <2> HIDE DEF g
  <2>5. \E h \in since + 1 .. generation' : k \in history'[h]
    BY <2>3, <2>4, <1>4
  <2>6. NoMissedPurge'
    BY <1>2, NoMissedPurgeInv, PTL
  <2>7. since \in 0 .. generation'
    BY <1>1, <1>3
  <2> QED  BY <2>5, <2>6, <2>7 DEF NoMissedPurge, Purged
<1> QED  BY <1>6, <1>7

-----------------------------------------------------------------------------
(* The log stays well-typed and within its bound.                           *)
LEMMA LogTypeCorrect == LogSpec => []LogTypeOK
<1>1. LogInv => LogTypeOK
  BY DEF LogInv
<1> QED  BY <1>1, LogInvInit, LogInvNext, PTL DEF LogSpec

(* The log is always the end of the history of purges.                      *)
THEOREM LogSuffixCorrect == LogSpec => []LogIsSuffix
<1>1. LogInv => LogIsSuffix
  BY DEF LogInv
<1> QED  BY <1>1, LogInvInit, LogInvNext, PTL DEF LogSpec

(* However small the log, no read that raced a purge is told it did not.    *)
THEOREM NoPurgeIsMissed == LogSpec => []NoMissedPurge
BY NoMissedPurgeInv, LogInvInit, LogInvNext, PTL DEF LogSpec

(* Until the log overflows, only purges of the key itself count.            *)
THEOREM UnrelatedPurgesDoNotCount == LogSpec => []UnrelatedPurgesIgnored
BY UnrelatedPurgesIgnoredInv, LogInvInit, LogInvNext, PTL DEF LogSpec

(* The answer to "was this key purged since?" never goes from yes to no.    *)
THEOREM PurgedNeverTakenBack == LogSpec => PurgedIsSticky
<1> DEFINE Sticky == \A since \in 0 .. generation, k \in Keys :
                        purgedSince(since, k) => purgedSince(since, k)'
<1>1. LogInv /\ [LogNext]_logVars => [Sticky]_logVars
  <2> SUFFICES ASSUME LogInv, LogNext PROVE Sticky
    OBVIOUS
  <2>1. PICK matched \in Scopes \union {Keys} : RecordPurge(matched)
    BY DEF LogNext
  <2>2. matched \in SUBSET Keys
    BY KeysAssumption
  <2> QED  BY <2>1, <2>2, PurgedStays
<1> QED  BY <1>1, LogInvInit, LogInvNext, PTL DEF LogSpec, PurgedIsSticky

-----------------------------------------------------------------------------
(* The read path.                                                           *)
\* What a request's variables hold at each of its control points.
Progress ==
    \A r \in Requests :
        /\ pc[r] # "idle" => key[r] \in Keys
        /\ pc[r] = "etag" => EnableEtag
        /\ pc[r] \in {"read", "storing"} => body[r] \in Body
        /\ pc[r] = "storing" => unstored[r] \subseteq EntriesOf(key[r])
        /\ gen[r] <= generation

-----------------------------------------------------------------------------
LEMMA PartsFact ==
    /\ "body" \in Parts
    /\ EnableEtag => "etag" \in Parts
    /\ \A k : EntriesOf(k) = {k} \X Parts
    /\ \A k \in Keys : EntriesOf(k) \subseteq Entries /\ <<k, "body">> \in Entries
    /\ \A k \in Keys : EnableEtag => <<k, "etag">> \in Entries
BY DEF Parts, EntriesOf, Entries

LEMMA TypeInit == Init => TypeOK /\ Progress /\ LogInv
<1> SUFFICES ASSUME Init PROVE TypeOK /\ Progress /\ LogInv
  OBVIOUS
<1>1. LogInv
  BY LogInvInit DEF Init
<1>2. 0 \in Versions
  BY BoundsAssumption DEF Versions
<1>3. TypeOK
  BY <1>1, <1>2, BoundsAssumption DEF Init, TypeOK, LogInv
<1>4. Progress
  BY <1>1 DEF Init, Progress, LogInit
<1> QED  BY <1>1, <1>3, <1>4

\* Settling keeps the types: of those who resume, too.
LEMMA SettleTypes ==
    ASSUME TypeOK, NEW r, NEW next \in {"done", "storing"},
           NEW value \in Body \union {None}, Settle(r, next, value)
    PROVE  /\ pc' \in [Requests -> {"idle", "etag", "entry", "looked", "waiting", "released",
                                    "origin", "read", "storing", "cleaning", "done"}]
           /\ shared' \in [Requests -> Body \union {None}]
           /\ waitOn' \in [Requests -> Requests \union {None}]
BY DEF TypeOK, Settle

\* The answer of a request that has read is a response.
LEMMA AnswerType ==
    ASSUME NEW r, NEW cached \in BOOLEAN, body'[r] \in Body
    PROVE  Answer(r, cached) \in Response
BY DEF Answer, Response

\* A flight that is unregistered leaves none, or its successor.
LEMMA UnregisterType ==
    ASSUME TypeOK, NEW r
    PROVE  Unregister(r) \in [Keys -> Requests \union {None}]
BY DEF TypeOK, Unregister

\* A step that settles r's promise, with its answer and the sets it issues.
Settles(r, next, value, answer) ==
    /\ pc[r] = "read" /\ Settle(r, next, value) /\ inFlight' = Unregister(r)
    /\ response' = [response EXCEPT ![r] = answer]
    /\ UNCHANGED <<logVars, contentVars, store, faults, lookupVars, gen, uncleaned, writerVars>>

LEMMA SettlesKeeps ==
    ASSUME TypeOK, Progress, NEW r \in Requests, NEW next \in {"done", "storing"},
           NEW value \in Body \union {None}, NEW answer \in Response,
           Settles(r, next, value, answer),
           body' \in [Requests -> Body \union {None}], body'[r] \in Body,
           \A x \in Requests \ {r} : body'[x] = body[x] /\ unstored'[x] = unstored[x],
           unstored' \in [Requests -> SUBSET Entries],
           next = "storing" => unstored'[r] \subseteq EntriesOf(key[r])
    PROVE  TypeOK' /\ Progress'
<1>1. /\ pc' \in [Requests -> {"idle", "etag", "entry", "looked", "waiting", "released",
                               "origin", "read", "storing", "cleaning", "done"}]
      /\ shared' \in [Requests -> Body \union {None}]
      /\ waitOn' \in [Requests -> Requests \union {None}]
  BY SettleTypes DEF Settles
<1>2. response' \in [Requests -> Response \union {None}]
  BY DEF Settles, TypeOK
<1>3. inFlight' \in [Keys -> Requests \union {None}]
  BY UnregisterType DEF Settles
<1>4. UNCHANGED <<generation, purgeLog, history, clock, db, acked, store, faults, key, lookup,
                  ifNoneMatch, floor, etagCached, got, gen, uncleaned, wpc, scope, wrote, todo>>
  BY DEF Settles, logVars, contentVars, lookupVars, writerVars
<1>5. TypeOK'
  BY <1>1, <1>2, <1>3, <1>4 DEF TypeOK, LogTypeOK
<1>6. pc'[r] = next /\ \A x \in Requests \ {r} : pc'[x] \in {pc[x], "released"}
  BY DEF Settles, Settle
<1>7. ASSUME NEW x \in Requests
      PROVE  /\ pc'[x] # "idle" => key'[x] \in Keys
             /\ pc'[x] = "etag" => EnableEtag
             /\ pc'[x] \in {"read", "storing"} => body'[x] \in Body
             /\ pc'[x] = "storing" => unstored'[x] \subseteq EntriesOf(key'[x])
             /\ gen'[x] <= generation'
  <2>1. CASE x = r
    BY <1>4, <1>6, <2>1 DEF Settles, Progress
  <2>2. CASE x # r
    <3>1. pc'[x] = pc[x] \/ (pc[x] = "waiting" /\ pc'[x] = "released")
      BY <2>2 DEF Settles, Settle
    <3>2. body'[x] = body[x] /\ unstored'[x] = unstored[x] /\ key'[x] = key[x]
      BY <1>4, <2>2
    <3> QED  BY <1>4, <3>1, <3>2 DEF Progress
  <2> QED  BY <2>1, <2>2
<1>8. Progress'
  BY <1>7 DEF Progress, EntriesOf, Parts
<1> QED  BY <1>5, <1>8

(* The steps of a request keep the types and its control points.            *)
LEMMA TypeRequest ==
    ASSUME TypeOK, Progress, NEW r \in Requests, Request(r)
    PROVE  TypeOK' /\ Progress'
<1> USE PartsFact, BoundsAssumption, FlagsAssumption
<1> USE DEF TypeOK, Progress, contentVars, lookupVars, readVars, requestVars, writerVars,
            logVars, LogTypeOK
<1>1. ASSUME NEW k \in Keys, NEW tag \in Tags, Arrive(r, k, tag) PROVE TypeOK' /\ Progress'
  <2>1. tag \in Body \union {None}
    <3>1. 0 .. clock \subseteq Versions
      BY DEF Versions
    <3>2. [version : 0 .. clock, private : {FALSE}] \subseteq Body
      BY <3>1 DEF Body
    <3> QED  BY <3>2 DEF Tags
  <2> QED  BY <1>1, <2>1 DEF Arrive
<1>2. ASSUME NEW k \in Keys, Hitpass(r, k) PROVE TypeOK' /\ Progress'
  BY <1>2 DEF Hitpass, StartRead
<1>3. ASSUME NEW answered \in BOOLEAN, ReadEtag(r, answered) PROVE TypeOK' /\ Progress'
  <2> DEFINE tag == IF answered THEN store[<<key[r], "etag">>] ELSE None
  <2>1. pc[r] = "etag" /\ tag \in Body \union {None}
    BY <1>3 DEF ReadEtag
  <2>2. CASE tag # None /\ tag = ifNoneMatch[r]
    <3>1. [body |-> tag, etag |-> None, via |-> "etag", cached |-> TRUE] \in Response
      BY <2>1, <2>2 DEF Response
    <3>2. pc' = [pc EXCEPT ![r] = "done"] /\ UNCHANGED etagCached
      BY <1>3, <2>2 DEF ReadEtag, Respond
    <3>3. response' = [response EXCEPT ![r] =
              [body |-> tag, etag |-> None, via |-> "etag", cached |-> TRUE]]
      BY <1>3, <2>2 DEF ReadEtag, Respond
    <3> HIDE DEF tag
    <3> QED  BY <1>3, <2>1, <3>1, <3>2, <3>3 DEF ReadEtag
  <2>3. CASE ~(tag # None /\ tag = ifNoneMatch[r])
    <3>1. pc' = [pc EXCEPT ![r] = "entry"] /\ UNCHANGED response
      BY <1>3, <2>3 DEF ReadEtag
    <3>2. etagCached' = [etagCached EXCEPT ![r] = tag]
      BY <1>3, <2>3 DEF ReadEtag
    <3> HIDE DEF tag
    <3> QED  BY <1>3, <2>1, <3>1, <3>2 DEF ReadEtag
  <2> QED  BY <2>2, <2>3
<1>4. ASSUME NEW answered \in BOOLEAN, ReadEntry(r, answered) PROVE TypeOK' /\ Progress'
  BY <1>4 DEF ReadEntry
<1>5. CASE Hit(r)
  BY <1>5 DEF Hit, Respond, Response
<1>6. CASE Join(r)
  BY <1>6 DEF Join, Joins
<1>7. CASE Lead(r)
  BY <1>7 DEF Lead, StartRead
<1>8. CASE ServeShared(r)
  BY <1>8 DEF ServeShared, Respond, Response
<1>9. CASE OriginRead(r)
  BY <1>9 DEF OriginRead, Body
<1>10. CASE HitpassReturn(r)
  BY <1>10 DEF HitpassReturn, Respond, Answer, Response
<1>11. CASE Throws(r)
  <2>1. /\ body' \in [Requests -> Body \union {None}] /\ body'[r] \in Body
        /\ \A x \in Requests \ {r} : body'[x] = body[x]
    BY <1>11 DEF Throws
  <2>2. None \in Body \union {None}
    OBVIOUS
  <2>3. [body |-> None, etag |-> None, via |-> "error", cached |-> FALSE] \in Response
    BY DEF Response
  <2>4. Settles(r, "done", None, [body |-> None, etag |-> None, via |-> "error", cached |-> FALSE])
    BY <1>11 DEF Throws, Settles
  <2>5. unstored' = unstored /\ unstored \in [Requests -> SUBSET Entries]
    BY <1>11 DEF Throws
  <2> HIDE DEF TypeOK, Progress
  <2> QED  BY <2>1, <2>2, <2>3, <2>4, <2>5, SettlesKeeps
<1>12. CASE Refused(r)
  <2>1. /\ body' \in [Requests -> Body \union {None}] /\ body'[r] \in Body
        /\ \A x \in Requests \ {r} : body'[x] = body[x]
    <3>1. body[r] \in Body /\ body' = [body EXCEPT ![r].private = TRUE]
      BY <1>12 DEF Refused
    <3>2. [body[r] EXCEPT !.private = TRUE] \in Body
      BY <3>1 DEF Body
    <3> QED  BY <3>1, <3>2
  <2>2. Published(r, "refused") \in Body \union {None}
    BY <2>1 DEF Published
  <2>3. Answer(r, FALSE) \in Response
    BY <2>1, AnswerType
  <2>4. Settles(r, "done", Published(r, "refused"), Answer(r, FALSE))
    BY <1>12 DEF Refused, Settles
  <2>5. unstored' = unstored /\ unstored \in [Requests -> SUBSET Entries]
    BY <1>12 DEF Refused
  <2> HIDE DEF TypeOK, Progress
  <2> QED  BY <2>1, <2>2, <2>3, <2>4, <2>5, SettlesKeeps
<1>13. CASE ReturnRaced(r)
  <2>1. /\ body' \in [Requests -> Body \union {None}] /\ body'[r] \in Body
        /\ \A x \in Requests \ {r} : body'[x] = body[x]
    BY <1>13 DEF ReturnRaced
  <2>2. Published(r, "ok") \in Body \union {None}
    BY <2>1 DEF Published
  <2>3. Answer(r, FALSE) \in Response
    BY <2>1, AnswerType
  <2>4. Settles(r, "done", Published(r, "ok"), Answer(r, FALSE))
    BY <1>13 DEF ReturnRaced, Settles
  <2>5. unstored' = unstored /\ unstored \in [Requests -> SUBSET Entries]
    BY <1>13 DEF ReturnRaced
  <2> HIDE DEF TypeOK, Progress
  <2> QED  BY <2>1, <2>2, <2>3, <2>4, <2>5, SettlesKeeps
<1>14. CASE ReturnStoring(r)
  <2>1. /\ body' \in [Requests -> Body \union {None}] /\ body'[r] \in Body
        /\ \A x \in Requests \ {r} : body'[x] = body[x]
    BY <1>14 DEF ReturnStoring
  <2>2. Published(r, "ok") \in Body \union {None}
    BY <2>1 DEF Published
  <2>3. Answer(r, TRUE) \in Response
    BY <2>1, AnswerType
  <2>4. Settles(r, "storing", Published(r, "ok"), Answer(r, TRUE))
    BY <1>14 DEF ReturnStoring, Settles
  <2>5. /\ unstored' \in [Requests -> SUBSET Entries]
        /\ unstored'[r] \subseteq EntriesOf(key[r])
        /\ \A x \in Requests \ {r} : unstored'[x] = unstored[x]
    <3>1. key[r] \in Keys
      BY <1>14 DEF ReturnStoring
    <3> QED  BY <1>14, <3>1 DEF ReturnStoring
  <2> HIDE DEF TypeOK, Progress
  <2> QED  BY <2>1, <2>2, <2>3, <2>4, <2>5, SettlesKeeps
<1>15. ASSUME NEW e \in Entries, NEW stored \in BOOLEAN, Land(r, e, stored)
       PROVE  TypeOK' /\ Progress'
  BY <1>15 DEF Land
<1>16. CASE Recheck(r)
  <2>1. pc[r] = "storing" /\ key[r] \in Keys
    BY <1>16 DEF Recheck
  <2>2. \E next \in {"cleaning", "done"} : pc' = [pc EXCEPT ![r] = next]
    BY <1>16 DEF Recheck
  <2>3. uncleaned' \in [Requests -> SUBSET Entries]
    <3>1. EntriesOf(key[r]) \subseteq Entries
      BY <2>1
    <3>2. uncleaned' = uncleaned \/ uncleaned' = [uncleaned EXCEPT ![r] = EntriesOf(key[r])]
      BY <1>16 DEF Recheck, Unstorable
    <3> QED  BY <3>1, <3>2
  <2> QED  BY <1>16, <2>1, <2>2, <2>3 DEF Recheck
<1>17. ASSUME NEW e \in Entries, Clean(r, e) PROVE TypeOK' /\ Progress'
  BY <1>17 DEF Clean
<1>18. CASE CleanLost(r)
  BY <1>18 DEF CleanLost
<1>19. CASE Depart(r)
  BY <1>19 DEF Depart, Versions
<1> QED  BY <1>1, <1>2, <1>3, <1>4, <1>5, <1>6, <1>7, <1>8, <1>9, <1>10, <1>11, <1>12,
            <1>13, <1>14, <1>15, <1>16, <1>17, <1>18, <1>19 DEF Request, Step

(* So do those of a write or a purge; RecordPurge is PurgeLog's affair.     *)
LEMMA PurgeRecorded ==
    ASSUME LogInv, Progress, TypeOK, NEW matched \in SUBSET Keys, RecordPurge(matched)
    PROVE  LogInv' /\ LogTypeOK' /\ \A r \in Requests : gen[r] <= generation'
<1>1. LogInv'
  BY LogInvRecord
<1>2. generation \in Nat /\ generation' = generation + 1
  BY DEF RecordPurge, LogInv, LogTypeOK
<1>3. \A r \in Requests : gen[r] \in Nat /\ gen[r] <= generation
  BY DEF Progress, TypeOK
<1> QED  BY <1>1, <1>2, <1>3 DEF LogInv

LEMMA TypeWriter ==
    ASSUME TypeOK, Progress, LogInv, NEW w \in Writers, Writer(w)
    PROVE  TypeOK' /\ Progress' /\ LogInv'
<1> USE BoundsAssumption DEF TypeOK, Progress, contentVars, lookupVars, readVars, requestVars
<1>1. ASSUME NEW keys \in Scopes, Commit(w, keys) PROVE TypeOK' /\ Progress' /\ LogInv'
  <2>1. UNCHANGED logVars
    BY <1>1 DEF Commit
  <2>2. LogInv'
    BY <2>1 DEF LogInv, LogTypeOK, LogIsSuffix, logVars
  <2>3. keys \in SUBSET Keys /\ 0 \in Versions
    BY KeysAssumption DEF Versions
  <2>4. clock + 1 \in Versions
    BY <1>1 DEF Commit, Versions
  <2>5. Progress'
    BY <1>1, <2>1 DEF Commit, logVars
  <2> QED  BY <1>1, <2>1, <2>2, <2>3, <2>4, <2>5 DEF Commit, LogInv
<1>2. CASE PurgeAfterWrite(w)
  <2>1. scope[w] \in SUBSET Keys /\ RecordPurge(scope[w])
    BY <1>2 DEF PurgeAfterWrite, StartPurge
  <2>2. LogInv' /\ LogTypeOK' /\ \A r \in Requests : gen[r] <= generation'
    BY <2>1, PurgeRecorded
  <2> QED  BY <1>2, <2>2 DEF PurgeAfterWrite
<1>3. ASSUME NEW keys \in Scopes, ManualPurge(w, keys) PROVE TypeOK' /\ Progress' /\ LogInv'
  <2>1. keys \in SUBSET Keys /\ RecordPurge(keys)
    BY <1>3, KeysAssumption DEF ManualPurge, StartPurge
  <2>2. LogInv' /\ LogTypeOK' /\ \A r \in Requests : gen[r] <= generation'
    BY <2>1, PurgeRecorded
  <2> QED  BY <1>3, <2>1, <2>2 DEF ManualPurge
<1>4. CASE Reset(w)
  <2>1. Keys \in SUBSET Keys /\ RecordPurge(Keys)
    BY <1>4 DEF Reset, StartPurge
  <2>2. LogInv' /\ LogTypeOK' /\ \A r \in Requests : gen[r] <= generation'
    BY <2>1, PurgeRecorded
  <2> QED  BY <1>4, <2>1, <2>2 DEF Reset
<1> SUFFICES ASSUME PurgeStep(w) PROVE TypeOK' /\ Progress' /\ LogInv'
  BY <1>1, <1>3, <1>4 DEF Writer
<1>5. ASSUME UNCHANGED logVars PROVE LogInv' /\ LogTypeOK'
  BY <1>5 DEF LogInv, LogTypeOK, LogIsSuffix, logVars
<1>6. CASE ListKeys(w)
  <2>1. {e \in Stored : e[1] \in scope[w]} \in SUBSET Entries
    BY DEF Stored
  <2> QED  BY <1>6, <1>5, <2>1 DEF ListKeys, logVars
<1>7. CASE Clear(w)
  BY <1>7, <1>5 DEF Clear, logVars
<1>8. CASE PurgeLost(w)
  BY <1>8, <1>5 DEF PurgeLost, logVars
<1>9. CASE Return(w)
  <2>1. 0 \in Versions
    BY DEF Versions
  <2> QED  BY <1>9, <1>5, <2>1 DEF Return, logVars
<1>10. ASSUME NEW e \in Entries, Delete(w, e) PROVE TypeOK' /\ Progress' /\ LogInv'
  BY <1>10, <1>5 DEF Delete, logVars
<1> QED  BY <1>2, <1>6, <1>7, <1>8, <1>9, <1>10 DEF PurgeStep

LEMMA TypeStep ==
    TypeOK /\ Progress /\ LogInv /\ [Next]_vars => TypeOK' /\ Progress' /\ LogInv'
<1> SUFFICES ASSUME TypeOK, Progress, LogInv, [Next]_vars
             PROVE  TypeOK' /\ Progress' /\ LogInv'
  OBVIOUS
<1>1. ASSUME UNCHANGED logVars PROVE LogInv'
  BY <1>1 DEF LogInv, LogTypeOK, LogIsSuffix, logVars
<1>2. ASSUME NEW r \in Requests, Request(r) PROVE UNCHANGED logVars
  BY <1>2 DEF Request, Step, Arrive, Hitpass, ReadEtag, ReadEntry, Hit, Join, Lead,
     ServeShared, OriginRead, HitpassReturn, Throws, Refused, ReturnRaced, ReturnStoring,
     Land, Recheck, Clean, CleanLost, Depart
<1>3. ASSUME NEW e \in Entries, Expire(e) PROVE TypeOK' /\ Progress' /\ LogInv'
  <2>1. UNCHANGED logVars
    BY <1>3 DEF Expire
  <2>2. LogInv'
    BY <2>1, <1>1
  <2> QED  BY <1>3, <2>1, <2>2 DEF Expire, TypeOK, Progress, LogInv, logVars, contentVars,
              lookupVars, readVars, requestVars, writerVars
<1>4. CASE UNCHANGED vars
  <2>1. UNCHANGED logVars
    BY <1>4 DEF vars
  <2>2. LogInv'
    BY <2>1, <1>1
  <2> QED  BY <1>4, <2>1, <2>2 DEF vars, TypeOK, Progress, LogInv, logVars, contentVars,
              lookupVars, readVars, requestVars, writerVars
<1> QED  BY <1>1, <1>2, <1>3, <1>4, TypeRequest, TypeWriter DEF Next

(* Every variable of the model keeps its type.                              *)
THEOREM TypeCorrect == Spec => []TypeOK
<1>1. Init => TypeOK /\ Progress /\ LogInv
  BY TypeInit
<1> QED  BY <1>1, TypeStep, PTL DEF Spec

-----------------------------------------------------------------------------
(* What StaleIsOwned needs of a read that has not been stored yet: when the *)
(* body it holds has been outdated, either the write that outdated it has   *)
(* not started its purge, or the read's question to the log will say yes.   *)
Told(r, k) == purgedSince(gen[r], k)

ReadCovered ==
    \A r \in Requests :
        (pc[r] \in {"read", "storing"} /\ body[r].version < db[key[r]])
            => \/ \E w \in Writers : wpc[w] = "committed" /\ key[r] \in scope[w]
               \/ Told(r, key[r])

TypeInv == TypeOK /\ Progress /\ LogInv

StaleInv == TypeInv /\ ReadCovered /\ StaleIsOwned

\* The four fields of a request that ReadCovered is about, when kept.
SameRead(r) ==
    /\ pc[r] \in {"read", "storing"}
    /\ key'[r] = key[r] /\ gen'[r] = gen[r] /\ body'[r] = body[r]

\* The three that say whether it is about to delete something.
SameOwner(r) ==
    pc'[r] = pc[r] /\ key'[r] = key[r] /\ gen'[r] = gen[r] /\ uncleaned'[r] = uncleaned[r]

LEMMA ToldKept ==
    ASSUME NEW r \in Requests, NEW k, UNCHANGED logVars, gen'[r] = gen[r], Told(r, k)
    PROVE  Told(r, k)'
BY DEF Told, purgedSince, Forgotten, logVars

LEMMA ToldStays ==
    ASSUME TypeInv, NEW matched \in SUBSET Keys, RecordPurge(matched), UNCHANGED gen,
           NEW r \in Requests, NEW k \in Keys, Told(r, k)
    PROVE  Told(r, k)'
<1>1. gen[r] \in 0 .. generation
  BY DEF TypeInv, TypeOK, LogTypeOK, Progress
<1> DEFINE since == gen[r]
<1>2. since \in 0 .. generation /\ purgedSince(since, k) /\ LogInv
  BY <1>1 DEF Told, TypeInv
<1>3. \A s \in 0 .. generation : purgedSince(s, k) =>
          /\ s # generation'
          /\ purgeLog' = <<>> \/ purgeLog'[1].generation > s + 1
             \/ \E i \in DOMAIN purgeLog' : purgeLog'[i].generation > s /\ k \in purgeLog'[i].keys
  <2> SUFFICES ASSUME NEW s \in 0 .. generation, purgedSince(s, k) PROVE purgedSince(s, k)'
    BY DEF purgedSince, Forgotten
  <2> QED  BY <1>2, PurgedStays
<1> QED  BY <1>2, <1>3 DEF Told, purgedSince, Forgotten

LEMMA ToldOfRecorded ==
    ASSUME TypeInv, NEW matched \in SUBSET Keys, RecordPurge(matched), UNCHANGED gen,
           NEW r \in Requests, NEW k \in matched
    PROVE  Told(r, k)'
<1>1. gen[r] \in 0 .. generation /\ LogInv
  BY DEF TypeInv, TypeOK, LogTypeOK, Progress
<1>2. \A s \in 0 .. generation :
          /\ s # generation'
          /\ purgeLog' = <<>> \/ purgeLog'[1].generation > s + 1
             \/ \E i \in DOMAIN purgeLog' : purgeLog'[i].generation > s /\ k \in purgeLog'[i].keys
  <2> SUFFICES ASSUME NEW s \in 0 .. generation PROVE purgedSince(s, k)'
    BY DEF purgedSince, Forgotten
  <2> QED  BY <1>1, RecordedIsSeen
<1> QED  BY <1>1, <1>2 DEF Told, purgedSince, Forgotten

\* A step after which a read that has returned either is as it was or has
\* only just been made.
ReadsKept ==
    \A r \in Requests : pc'[r] \in {"read", "storing"} =>
        SameRead(r) \/ body'[r].version = db'[key'[r]]

LEMMA ReadCoveredFrame ==
    ASSUME TypeInv, TypeInv', ReadCovered, UNCHANGED <<logVars, db>>, ReadsKept,
           \A w \in Writers : wpc[w] = "committed" =>
               wpc'[w] = "committed" /\ scope'[w] = scope[w]
    PROVE  ReadCovered'
<1> SUFFICES ASSUME NEW r \in Requests, pc'[r] \in {"read", "storing"},
                    body'[r].version < db'[key'[r]]
             PROVE  \/ \E w \in Writers : wpc'[w] = "committed" /\ key'[r] \in scope'[w]
                    \/ Told(r, key[r])'
  BY DEF ReadCovered
<1>1. CASE SameRead(r)
  <2>1. \/ \E w \in Writers : wpc[w] = "committed" /\ key[r] \in scope[w]
        \/ Told(r, key[r])
    BY <1>1 DEF ReadCovered, SameRead
  <2>2. Told(r, key[r]) => Told(r, key[r])'
    BY <1>1 DEF Told, purgedSince, Forgotten, logVars, SameRead
  <2> QED  BY <1>1, <2>1, <2>2 DEF SameRead
<1>2. CASE ~SameRead(r)
  <2>1. body'[r].version = db'[key'[r]]
    BY <1>2 DEF ReadsKept
  <2>2. db'[key'[r]] \in Int
    BY DEF TypeInv, TypeOK, Progress, Versions
  <2> QED  BY <2>1, <2>2
<1> QED  BY <1>1, <1>2

LEMMA ReadsKeptByRequest ==
    ASSUME TypeInv, NEW r \in Requests, Request(r)
    PROVE  ReadsKept
<1> USE DEF TypeInv, TypeOK, ReadsKept, SameRead, contentVars, lookupVars, readVars
<1>1. ASSUME NEW k \in Keys, NEW tag \in Tags, Arrive(r, k, tag) PROVE ReadsKept
  BY <1>1 DEF Arrive
<1>2. ASSUME NEW k \in Keys, Hitpass(r, k) PROVE ReadsKept
  BY <1>2 DEF Hitpass, StartRead
<1>3. ASSUME NEW answered \in BOOLEAN, ReadEtag(r, answered) PROVE ReadsKept
  BY <1>3 DEF ReadEtag, Respond
<1>4. ASSUME NEW answered \in BOOLEAN, ReadEntry(r, answered) PROVE ReadsKept
  BY <1>4 DEF ReadEntry
<1>5. CASE Hit(r)
  BY <1>5 DEF Hit, Respond
<1>6. CASE Join(r)
  BY <1>6 DEF Join
<1>7. CASE Lead(r)
  BY <1>7 DEF Lead, StartRead
<1>8. CASE ServeShared(r)
  BY <1>8 DEF ServeShared, Respond
<1>9. CASE OriginRead(r)
  BY <1>9 DEF OriginRead
<1>10. CASE HitpassReturn(r)
  BY <1>10 DEF HitpassReturn, Respond
<1>11. CASE Throws(r)
  BY <1>11 DEF Throws, Settle
<1>12. CASE Refused(r)
  BY <1>12 DEF Refused, Settle
<1>13. CASE ReturnRaced(r)
  BY <1>13 DEF ReturnRaced, Settle
<1>14. CASE ReturnStoring(r)
  BY <1>14 DEF ReturnStoring, Settle
<1>15. ASSUME NEW e \in Entries, NEW stored \in BOOLEAN, Land(r, e, stored) PROVE ReadsKept
  BY <1>15 DEF Land
<1>16. CASE Recheck(r)
  BY <1>16 DEF Recheck
<1>17. ASSUME NEW e \in Entries, Clean(r, e) PROVE ReadsKept
  BY <1>17 DEF Clean
<1>18. CASE CleanLost(r)
  BY <1>18 DEF CleanLost
<1>19. CASE Depart(r)
  BY <1>19 DEF Depart
<1> QED  BY <1>1, <1>2, <1>3, <1>4, <1>5, <1>6, <1>7, <1>8, <1>9, <1>10, <1>11, <1>12,
            <1>13, <1>14, <1>15, <1>16, <1>17, <1>18, <1>19 DEF Request, Step

LEMMA ReadCoveredWriter ==
    ASSUME TypeInv, TypeInv', ReadCovered, NEW w \in Writers, Writer(w)
    PROVE  ReadCovered'
<1> SUFFICES ASSUME NEW r \in Requests, pc[r] \in {"read", "storing"},
                    body[r].version < db'[key[r]]
             PROVE  \/ \E x \in Writers : wpc'[x] = "committed" /\ key[r] \in scope'[x]
                    \/ Told(r, key[r])'
  <2>1. UNCHANGED <<pc, key, body, gen>>
    BY DEF Writer, Commit, ManualPurge, Reset, PurgeStep, PurgeAfterWrite, ListKeys, Clear,
       PurgeLost, Return, Delete, requestVars, lookupVars, readVars
  <2> QED  BY <2>1 DEF ReadCovered
<1> USE DEF TypeInv
<1>1. key[r] \in Keys
  BY DEF Progress
<1>2. UNCHANGED gen
  BY DEF Writer, Commit, ManualPurge, Reset, PurgeStep, PurgeAfterWrite, ListKeys, Clear,
     PurgeLost, Return, Delete, requestVars, readVars
<1> DEFINE Due == {x \in Writers : wpc[x] = "committed" /\ key[r] \in scope[x]}
<1>3. body[r].version < db[key[r]] => Due # {} \/ Told(r, key[r])
  BY DEF ReadCovered
<1>4. ASSUME NEW keys \in Scopes, Commit(w, keys)
      PROVE  \/ \E x \in Writers : wpc'[x] = "committed" /\ key[r] \in scope'[x]
             \/ Told(r, key[r])'
  <2>1. CASE key[r] \in keys
    BY <1>4, <2>1 DEF Commit, TypeOK
  <2>2. CASE key[r] \notin keys
    <3>1. Due # {} \/ Told(r, key[r])
      BY <1>1, <1>3, <1>4, <2>2 DEF Commit
    <3>2. \A x \in Due : wpc'[x] = "committed" /\ key[r] \in scope'[x]
      BY <1>4 DEF Commit, TypeOK
    <3>3. Told(r, key[r]) => Told(r, key[r])'
      BY <1>2, <1>4 DEF Commit, Told, purgedSince, Forgotten, logVars, requestVars, lookupVars
    <3> QED  BY <3>1, <3>2, <3>3
  <2> QED  BY <2>1, <2>2
\* From here on db is unchanged and a purge may be recorded.
<1>5. ASSUME NEW matched \in SUBSET Keys, RecordPurge(matched), UNCHANGED <<db, key>>,
             \A x \in Due : key[r] \in matched \/ (wpc'[x] = "committed" /\ key[r] \in scope'[x])
      PROVE  \/ \E x \in Writers : wpc'[x] = "committed" /\ key[r] \in scope'[x]
             \/ Told(r, key[r])'
  <2>1. key[r] \in matched => Told(r, key[r])'
    <3> DEFINE k == key[r]
    <3>1. ASSUME NEW q \in matched PROVE Told(r, q)'
      BY <1>2, <1>5, ToldOfRecorded
    <3> QED  BY <1>5, <3>1 DEF Told, purgedSince, Forgotten
  <2>2. Told(r, key[r]) => Told(r, key[r])'
    <3>1. ASSUME NEW q \in Keys, Told(r, q) PROVE Told(r, q)'
      BY <1>2, <1>5, <3>1, ToldStays
    <3> QED  BY <1>1, <1>5, <3>1 DEF Told, purgedSince, Forgotten
  <2> QED  BY <1>3, <1>5, <2>1, <2>2
<1>6. CASE PurgeAfterWrite(w)
  <2>1. scope[w] \in SUBSET Keys /\ RecordPurge(scope[w]) /\ UNCHANGED <<db, key>>
    BY <1>6 DEF PurgeAfterWrite, StartPurge, TypeOK, contentVars, requestVars, lookupVars
  <2>2. \A x \in Due : key[r] \in scope[w] \/ (wpc'[x] = "committed" /\ key[r] \in scope'[x])
    BY <1>6 DEF PurgeAfterWrite, TypeOK
  <2> QED  BY <1>5, <2>1, <2>2
<1>7. ASSUME NEW keys \in Scopes, ManualPurge(w, keys)
      PROVE  \/ \E x \in Writers : wpc'[x] = "committed" /\ key[r] \in scope'[x]
             \/ Told(r, key[r])'
  <2>1. keys \in SUBSET Keys /\ RecordPurge(keys) /\ UNCHANGED <<db, key>>
    BY <1>7, KeysAssumption DEF ManualPurge, StartPurge, contentVars, requestVars, lookupVars
  <2>2. \A x \in Due : wpc'[x] = "committed" /\ key[r] \in scope'[x]
    BY <1>7 DEF ManualPurge, TypeOK
  <2> QED  BY <1>5, <2>1, <2>2
<1>8. CASE Reset(w)
  <2>1. Keys \in SUBSET Keys /\ RecordPurge(Keys) /\ UNCHANGED <<db, key>>
    BY <1>8 DEF Reset, StartPurge, contentVars, requestVars, lookupVars
  <2>2. \A x \in Due : key[r] \in Keys \/ (wpc'[x] = "committed" /\ key[r] \in scope'[x])
    BY <1>1
  <2> QED  BY <1>5, <2>1, <2>2
<1>9. ASSUME UNCHANGED <<logVars, db, key>>,
             \A x \in Due : wpc'[x] = "committed" /\ key[r] \in scope'[x]
      PROVE  \/ \E x \in Writers : wpc'[x] = "committed" /\ key[r] \in scope'[x]
             \/ Told(r, key[r])'
  <2>1. Told(r, key[r]) => Told(r, key[r])'
    BY <1>2, <1>9 DEF Told, purgedSince, Forgotten, logVars
  <2> QED  BY <1>3, <1>9, <2>1
<1>10. CASE ListKeys(w)
  BY <1>9, <1>10 DEF ListKeys, TypeOK, contentVars, requestVars, lookupVars
<1>11. CASE Clear(w)
  BY <1>9, <1>11 DEF Clear, TypeOK, contentVars, requestVars, lookupVars
<1>12. CASE PurgeLost(w)
  BY <1>9, <1>12 DEF PurgeLost, TypeOK, contentVars, requestVars, lookupVars
<1>13. CASE Return(w)
  BY <1>9, <1>13 DEF Return, TypeOK, contentVars, requestVars, lookupVars
<1>14. ASSUME NEW e \in Entries, Delete(w, e)
       PROVE  \/ \E x \in Writers : wpc'[x] = "committed" /\ key[r] \in scope'[x]
              \/ Told(r, key[r])'
  BY <1>9, <1>14 DEF Delete, TypeOK, contentVars, requestVars, lookupVars
<1> QED  BY <1>4, <1>6, <1>7, <1>8, <1>10, <1>11, <1>12, <1>13, <1>14 DEF Writer, PurgeStep

-----------------------------------------------------------------------------
\* A step after which whoever was about to delete something still is.
OwnersKept ==
    \A r \in Requests : pc[r] \in {"storing", "cleaning"} => SameOwner(r)

LEMMA OwnedFrame ==
    ASSUME NEW e \in Entries, Owned(e), UNCHANGED <<logVars, wpc, scope, todo>>, OwnersKept
    PROVE  Owned(e)'
<1>1. ASSUME NEW r \in Requests, pc[r] = "storing", key[r] = e[1], purgedSince(gen[r], e[1])
      PROVE  Owned(e)'
  <2>1. SameOwner(r)
    BY <1>1 DEF OwnersKept
  <2>2. purgedSince(gen[r], e[1])'
    BY <1>1, <2>1 DEF SameOwner, purgedSince, Forgotten, logVars
  <2> QED  BY <1>1, <2>1, <2>2 DEF SameOwner, Owned
<1>2. ASSUME NEW r \in Requests, pc[r] = "cleaning", e \in uncleaned[r]
      PROVE  Owned(e)'
  BY <1>2 DEF OwnersKept, SameOwner, Owned
<1>3. CASE PurgePending(e[1])
  BY <1>3 DEF PurgePending, Owned
<1>4. CASE \E w \in Writers : wpc[w] = "deleting" /\ e \in todo[w]
  BY <1>4 DEF Owned
<1> QED  BY <1>1, <1>2, <1>3, <1>4 DEF Owned

LEMMA OwnersKeptByRequest ==
    ASSUME TypeInv, NEW r \in Requests, Request(r), pc[r] \notin {"storing", "cleaning"}
    PROVE  OwnersKept /\ UNCHANGED <<store, faults>>
<1> USE DEF TypeInv, TypeOK, OwnersKept, SameOwner, contentVars, lookupVars, readVars
<1> DEFINE Goal == OwnersKept /\ UNCHANGED <<store, faults>>
<1> SUFFICES Goal
  OBVIOUS
<1>1. ASSUME NEW k \in Keys, NEW tag \in Tags, Arrive(r, k, tag) PROVE Goal
  BY <1>1 DEF Arrive
<1>2. ASSUME NEW k \in Keys, Hitpass(r, k) PROVE Goal
  BY <1>2 DEF Hitpass, StartRead
<1>3. ASSUME NEW answered \in BOOLEAN, ReadEtag(r, answered) PROVE Goal
  BY <1>3 DEF ReadEtag, Respond
<1>4. ASSUME NEW answered \in BOOLEAN, ReadEntry(r, answered) PROVE Goal
  BY <1>4 DEF ReadEntry
<1>5. CASE Hit(r)
  BY <1>5 DEF Hit, Respond
<1>6. CASE Join(r)
  BY <1>6 DEF Join
<1>7. CASE Lead(r)
  BY <1>7 DEF Lead, StartRead
<1>8. CASE ServeShared(r)
  BY <1>8 DEF ServeShared, Respond
<1>9. CASE OriginRead(r)
  BY <1>9 DEF OriginRead
<1>10. CASE HitpassReturn(r)
  BY <1>10 DEF HitpassReturn, Respond
<1>11. CASE Throws(r)
  BY <1>11 DEF Throws, Settle
<1>12. CASE Refused(r)
  BY <1>12 DEF Refused, Settle
<1>13. CASE ReturnRaced(r)
  BY <1>13 DEF ReturnRaced, Settle
<1>14. CASE ReturnStoring(r)
  BY <1>14 DEF ReturnStoring, Settle
<1>15. CASE Depart(r)
  BY <1>15 DEF Depart
<1>16. ~Recheck(r) /\ ~CleanLost(r)
  BY DEF Recheck, CleanLost
<1>17. \A e \in Entries : ~Clean(r, e) /\ \A stored \in BOOLEAN : ~Land(r, e, stored)
  BY DEF Clean, Land
<1> HIDE DEF Goal
<1> QED  BY <1>1, <1>2, <1>3, <1>4, <1>5, <1>6, <1>7, <1>8, <1>9, <1>10, <1>11, <1>12,
            <1>13, <1>14, <1>15, <1>16, <1>17 DEF Request, Step

LEMMA StaleRequest ==
    ASSUME StaleInv, TypeInv', NEW r \in Requests, Request(r)
    PROVE  StaleIsOwned'
<1> USE DEF StaleInv, TypeInv
<1> SUFFICES ASSUME faults' = 0, NEW e \in Entries, Stale(e)' PROVE Owned(e)'
  BY DEF StaleIsOwned
<1>1. UNCHANGED <<logVars, db, wpc, scope, todo>>
  BY DEF Request, Step, Arrive, Hitpass, ReadEtag, ReadEntry, Hit, Join, Lead,
     ServeShared, OriginRead, HitpassReturn, Throws, Refused, ReturnRaced, ReturnStoring,
     Land, Recheck, Clean, CleanLost, Depart, contentVars, writerVars
<1>2. CASE pc[r] \notin {"storing", "cleaning"}
  <2>1. OwnersKept /\ UNCHANGED <<store, faults>>
    BY <1>2, OwnersKeptByRequest
  <2>2. Stale(e) /\ faults = 0
    BY <1>1, <2>1 DEF Stale
  <2>3. Owned(e)
    BY <2>2 DEF StaleIsOwned
  <2> QED  BY <1>1, <2>1, <2>3, OwnedFrame
<1>3. ASSUME NEW d \in Entries, NEW stored \in BOOLEAN, Land(r, d, stored) PROVE Owned(e)'
  <2>1. OwnersKept /\ faults = 0
    BY <1>3 DEF Land, OwnersKept, SameOwner, TypeOK, lookupVars
  <2>2. CASE store'[e] = store[e]
    <3>1. Owned(e)
      BY <1>1, <2>1, <2>2 DEF Stale, StaleIsOwned
    <3> QED  BY <1>1, <2>1, <3>1, OwnedFrame
  <2>3. CASE store'[e] # store[e]
    <3>1. e = d /\ store'[e] = body[r] /\ d \in unstored[r] /\ pc[r] = "storing"
      BY <1>3, <2>3 DEF Land, TypeOK
    <3>2. e[1] = key[r]
      BY <3>1 DEF Progress, EntriesOf
    <3>3. body[r].version < db[key[r]]
      BY <1>1, <3>1, <3>2 DEF Stale
    <3>4. \/ \E w \in Writers : wpc[w] = "committed" /\ key[r] \in scope[w]
          \/ purgedSince(gen[r], key[r])
      BY <3>1, <3>3 DEF ReadCovered, Told
    <3>5. Owned(e)
      BY <3>1, <3>2, <3>4 DEF Owned, PurgePending
    <3> QED  BY <1>1, <2>1, <3>5, OwnedFrame
  <2> QED  BY <2>2, <2>3
<1>4. CASE Recheck(r)
  <2>1. Owned(e)
    BY <1>1, <1>4 DEF Recheck, Stale, StaleIsOwned
  <2>2. CASE pc[r] = "storing" /\ key[r] = e[1] /\ purgedSince(gen[r], e[1])
    <3>1. pc'[r] = "cleaning" /\ uncleaned'[r] = EntriesOf(key[r])
      BY <1>4, <2>2 DEF Recheck, RacedWhileStoring, Unstorable, TypeOK
    <3>2. e \in EntriesOf(key[r])
      BY <2>2 DEF EntriesOf, Entries
    <3> QED  BY <3>1, <3>2 DEF Owned
  <2>3. CASE ~(pc[r] = "storing" /\ key[r] = e[1] /\ purgedSince(gen[r], e[1]))
    <3>1. \A q \in Requests : q # r => SameOwner(q)
      BY <1>4 DEF Recheck, SameOwner, TypeOK, lookupVars
    <3>2. pc[r] = "storing" /\ pc[r] # "cleaning"
      BY <1>4 DEF Recheck
    <3>3. ASSUME NEW q \in Requests, pc[q] = "storing", key[q] = e[1],
                 purgedSince(gen[q], e[1])
          PROVE  Owned(e)'
      <4>1. SameOwner(q)
        BY <2>3, <3>1, <3>3
      <4>2. purgedSince(gen[q], e[1])'
        BY <1>1, <3>3, <4>1 DEF SameOwner, purgedSince, Forgotten, logVars
      <4> QED  BY <3>3, <4>1, <4>2 DEF SameOwner, Owned
    <3>4. ASSUME NEW q \in Requests, pc[q] = "cleaning", e \in uncleaned[q]
          PROVE  Owned(e)'
      BY <3>1, <3>2, <3>4 DEF SameOwner, Owned
    <3> QED  BY <1>1, <2>1, <3>3, <3>4 DEF Owned, PurgePending
  <2> QED  BY <2>2, <2>3
<1>5. ASSUME NEW d \in Entries, Clean(r, d) PROVE Owned(e)'
  <2>1. e # d /\ store'[e] = store[e] /\ faults = 0
    BY <1>5 DEF Clean, Stale, TypeOK
  <2>2. Owned(e)
    BY <1>1, <2>1 DEF Stale, StaleIsOwned
  <2>3. \A q \in Requests : q # r => SameOwner(q)
    BY <1>5 DEF Clean, SameOwner, TypeOK, lookupVars
  <2>4. ASSUME e \in uncleaned[r] PROVE pc'[r] = "cleaning" /\ e \in uncleaned'[r]
    BY <1>5, <2>1, <2>4 DEF Clean, TypeOK
  <2>5. ASSUME NEW q \in Requests, pc[q] = "storing", key[q] = e[1], purgedSince(gen[q], e[1])
        PROVE  Owned(e)'
    <3>1. SameOwner(q)
      BY <1>5, <2>3, <2>5 DEF Clean
    <3>2. purgedSince(gen[q], e[1])'
      BY <1>1, <2>5, <3>1 DEF SameOwner, purgedSince, Forgotten, logVars
    <3> QED  BY <2>5, <3>1, <3>2 DEF SameOwner, Owned
  <2>6. ASSUME NEW q \in Requests, pc[q] = "cleaning", e \in uncleaned[q]
        PROVE  Owned(e)'
    BY <2>3, <2>4, <2>6 DEF SameOwner, Owned
  <2> QED  BY <1>1, <2>2, <2>5, <2>6 DEF Owned, PurgePending
<1>6. CASE CleanLost(r)
  BY <1>6 DEF CleanLost, TypeOK
<1> QED
  <2>1. pc[r] \in {"storing", "cleaning"} =>
            \/ \E d \in Entries, stored \in BOOLEAN : Land(r, d, stored)
            \/ Recheck(r)
            \/ \E d \in Entries : Clean(r, d)
            \/ CleanLost(r)
    BY DEF Request, Step, Arrive, Hitpass, ReadEtag, ReadEntry, Hit, Join, Lead,
       ServeShared, OriginRead, HitpassReturn, Throws, Refused, ReturnRaced, ReturnStoring,
       Depart
  <2> QED  BY <1>2, <1>3, <1>4, <1>5, <1>6, <2>1

(* For a write or a purge: the requests do not move, so an owning request   *)
(* stays one as long as the log's answers stay yes.                         *)
LEMMA RequestOwnersKept ==
    ASSUME TypeInv, NEW e \in Entries, UNCHANGED <<pc, key, gen, uncleaned>>,
           UNCHANGED logVars \/ \E matched \in SUBSET Keys : RecordPurge(matched),
           \/ \E r \in Requests : pc[r] = "storing" /\ key[r] = e[1] /\ purgedSince(gen[r], e[1])
           \/ \E r \in Requests : pc[r] = "cleaning" /\ e \in uncleaned[r]
    PROVE  Owned(e)'
<1>1. e[1] \in Keys
  BY DEF Entries
<1>2. ASSUME NEW r \in Requests, pc[r] = "storing", key[r] = e[1], purgedSince(gen[r], e[1])
      PROVE  Owned(e)'
  <2>1. ASSUME NEW k \in Keys, Told(r, k) PROVE Told(r, k)'
    <3>1. CASE UNCHANGED logVars
      BY <2>1, <3>1, ToldKept
    <3>2. ASSUME NEW matched \in SUBSET Keys, RecordPurge(matched) PROVE Told(r, k)'
      BY <2>1, <3>2, ToldStays
    <3> QED  BY <3>1, <3>2
  <2>2. purgedSince(gen[r], e[1])'
    BY <1>1, <1>2, <2>1 DEF Told, purgedSince, Forgotten
  <2> QED  BY <1>2, <2>2 DEF Owned
<1>3. ASSUME NEW r \in Requests, pc[r] = "cleaning", e \in uncleaned[r]
      PROVE  Owned(e)'
  BY <1>3 DEF Owned
<1> QED  BY <1>2, <1>3

LEMMA StaleWriter ==
    ASSUME StaleInv, NEW w \in Writers, Writer(w)
    PROVE  StaleIsOwned'
<1> USE DEF StaleInv, TypeInv
<1> SUFFICES ASSUME faults' = 0, NEW e \in Entries, Stale(e)' PROVE Owned(e)'
  BY DEF StaleIsOwned
<1>1. UNCHANGED <<pc, key, gen, uncleaned>>
  BY DEF Writer, Commit, ManualPurge, Reset, PurgeStep, PurgeAfterWrite, ListKeys, Clear,
     PurgeLost, Return, Delete, requestVars, lookupVars, readVars
<1>2. UNCHANGED logVars \/ \E matched \in SUBSET Keys : RecordPurge(matched)
  BY KeysAssumption DEF Writer, Commit, ManualPurge, Reset, PurgeStep, PurgeAfterWrite,
     ListKeys, Clear, PurgeLost, Return, Delete, StartPurge, TypeOK
<1> DEFINE Pending == {x \in Writers : /\ wpc[x] \in {"committed", "listing", "clearing"}
                                       /\ e[1] \in scope[x]}
           Deleting == {x \in Writers : wpc[x] = "deleting" /\ e \in todo[x]}
\* When e was stale before the step, only an owning purge can be disturbed.
<1>3. ASSUME Stale(e), faults = 0,
             \A x \in Pending \union Deleting : Owned(e)'
      PROVE  Owned(e)'
  <2>1. Owned(e)
    BY <1>3 DEF StaleIsOwned
  <2> QED  BY <1>1, <1>2, <1>3, <2>1, RequestOwnersKept DEF Owned, PurgePending
<1>4. e[1] \in Keys /\ e \in Entries
  BY DEF Entries
<1>5. ASSUME NEW x \in Writers, wpc'[x] \in {"committed", "listing", "clearing"},
             e[1] \in scope'[x]
      PROVE  Owned(e)'
  BY <1>5 DEF Owned, PurgePending
<1>6. ASSUME NEW x \in Writers, wpc'[x] = "deleting", e \in todo'[x]
      PROVE  Owned(e)'
  BY <1>6 DEF Owned
<1>7. ASSUME NEW keys \in Scopes, Commit(w, keys) PROVE Owned(e)'
  <2>1. CASE e[1] \in keys
    BY <1>5, <1>7, <2>1 DEF Commit, TypeOK
  <2>2. CASE e[1] \notin keys
    <3>1. Stale(e) /\ faults = 0
      BY <1>4, <1>7, <2>2 DEF Commit, Stale
    <3>2. \A x \in Pending \union Deleting : Owned(e)'
      BY <1>5, <1>6, <1>7 DEF Commit, TypeOK
    <3> QED  BY <1>3, <3>1, <3>2
  <2> QED  BY <2>1, <2>2
<1>8. ASSUME UNCHANGED <<db, store, faults>>,
             \A x \in Pending \union Deleting : Owned(e)'
      PROVE  Owned(e)'
  BY <1>3, <1>8 DEF Stale
<1>9. CASE PurgeAfterWrite(w)
  <2>1. \A x \in Pending \union Deleting : Owned(e)'
    BY <1>5, <1>6, <1>9 DEF PurgeAfterWrite, TypeOK
  <2> QED  BY <1>8, <1>9, <2>1 DEF PurgeAfterWrite, contentVars
<1>10. ASSUME NEW keys \in Scopes, ManualPurge(w, keys) PROVE Owned(e)'
  <2>1. \A x \in Pending \union Deleting : Owned(e)'
    BY <1>5, <1>6, <1>10 DEF ManualPurge, TypeOK
  <2> QED  BY <1>8, <1>10, <2>1 DEF ManualPurge, contentVars
<1>11. CASE Reset(w)
  <2>1. \A x \in Pending \union Deleting : Owned(e)'
    BY <1>5, <1>6, <1>11 DEF Reset, TypeOK
  <2> QED  BY <1>8, <1>11, <2>1 DEF Reset, contentVars
<1>12. CASE ListKeys(w)
  <2>1. ASSUME NEW x \in Pending PROVE Owned(e)'
    <3>1. CASE x = w
      <4>1. e \in Stored /\ e[1] \in scope[w]
        BY <1>12, <2>1, <3>1 DEF ListKeys, Stale, Stored
      <4>2. wpc'[w] = "deleting" /\ e \in todo'[w]
        BY <1>12, <4>1 DEF ListKeys, TypeOK
      <4> QED  BY <1>6, <4>2
    <3>2. CASE x # w
      BY <1>5, <1>12, <2>1, <3>2 DEF ListKeys, TypeOK
    <3> QED  BY <3>1, <3>2
  <2>2. \A x \in Deleting : Owned(e)'
    BY <1>6, <1>12 DEF ListKeys, TypeOK
  <2> QED  BY <1>8, <1>12, <2>1, <2>2 DEF ListKeys, contentVars
<1>13. ~Clear(w)
  BY DEF Clear, Stale
<1>14. ~PurgeLost(w)
  BY DEF PurgeLost, TypeOK
<1>15. CASE Return(w)
  <2>1. \A x \in Pending \union Deleting : Owned(e)'
    BY <1>5, <1>6, <1>15 DEF Return, TypeOK
  <2> QED  BY <1>8, <1>15, <2>1 DEF Return
<1>16. ASSUME NEW d \in Entries, Delete(w, d) PROVE Owned(e)'
  <2>1. e # d /\ store'[e] = store[e] /\ UNCHANGED <<db, faults>>
    BY <1>16 DEF Delete, Stale, TypeOK, contentVars
  <2>2. Stale(e) /\ faults = 0
    BY <2>1 DEF Stale
  <2>3. \A x \in Pending : Owned(e)'
    BY <1>5, <1>16 DEF Delete
  <2>4. \A x \in Deleting : Owned(e)'
    BY <1>6, <1>16, <2>1 DEF Delete, TypeOK
  <2> QED  BY <1>3, <2>2, <2>3, <2>4
<1> QED  BY <1>7, <1>9, <1>10, <1>11, <1>12, <1>13, <1>14, <1>15, <1>16
            DEF Writer, PurgeStep

LEMMA StaleStep == StaleInv /\ [Next]_vars => StaleInv'
<1> SUFFICES ASSUME StaleInv, [Next]_vars PROVE StaleInv'
  OBVIOUS
<1>1. TypeInv /\ TypeInv' /\ ReadCovered /\ StaleIsOwned
  BY TypeStep DEF StaleInv, TypeInv
<1>2. ASSUME NEW r \in Requests, Request(r) PROVE ReadCovered' /\ StaleIsOwned'
  <2>1. ReadsKept
    BY <1>1, <1>2, ReadsKeptByRequest
  <2>2. UNCHANGED <<logVars, db, wpc, scope>>
    BY <1>2 DEF Request, Step, Arrive, Hitpass, ReadEtag, ReadEntry, Hit, Join, Lead,
       ServeShared, OriginRead, HitpassReturn, Throws, Refused, ReturnRaced, ReturnStoring,
       Land, Recheck, Clean, CleanLost, Depart, contentVars, writerVars
  <2>3. ReadCovered'
    BY <1>1, <2>1, <2>2, ReadCoveredFrame
  <2> QED  BY <1>1, <1>2, <2>3, StaleRequest DEF StaleInv
<1>3. ASSUME NEW w \in Writers, Writer(w) PROVE ReadCovered' /\ StaleIsOwned'
  BY <1>1, <1>3, ReadCoveredWriter, StaleWriter DEF StaleInv
<1>4. ASSUME UNCHANGED <<logVars, db, wpc, scope, todo, pc, key, gen, body, uncleaned, faults>>,
             \A e \in Entries : store'[e] \in {store[e], None}
      PROVE  ReadCovered' /\ StaleIsOwned'
  <2>1. ReadsKept /\ OwnersKept
    BY <1>4 DEF ReadsKept, SameRead, OwnersKept, SameOwner
  <2>2. ReadCovered'
    BY <1>1, <1>4, <2>1, ReadCoveredFrame
  <2>3. ASSUME faults' = 0, NEW e \in Entries, Stale(e)' PROVE Owned(e)'
    <3>1. Owned(e)
      BY <1>1, <1>4, <2>3 DEF Stale, StaleIsOwned
    <3> QED  BY <1>4, <2>1, <3>1, OwnedFrame
  <2> QED  BY <2>2, <2>3 DEF StaleIsOwned
<1>5. ASSUME NEW e \in Entries, Expire(e) PROVE ReadCovered' /\ StaleIsOwned'
  BY <1>1, <1>4, <1>5 DEF Expire, contentVars, requestVars, lookupVars, readVars, writerVars,
     TypeInv, TypeOK
<1>6. ASSUME UNCHANGED vars PROVE ReadCovered' /\ StaleIsOwned'
  BY <1>4, <1>6 DEF vars, contentVars, requestVars, lookupVars, readVars, writerVars
<1>7. ReadCovered' /\ StaleIsOwned'
  BY <1>2, <1>3, <1>5, <1>6 DEF Next
<1> QED  BY <1>1, <1>7 DEF StaleInv

(* A stale entry is always about to be deleted, whatever the interleaving   *)
(* of reads, writes, purges and provider calls, as long as no delete of the *)
(* provider is lost (recv.ts and cacheStore.ts, their protocol around       *)
(* `generation`).                                                           *)
THEOREM StaleNeverStays == Spec => []StaleIsOwned
<1>1. Init => StaleInv
  <2> SUFFICES ASSUME Init PROVE StaleInv
    OBVIOUS
  <2>1. TypeInv
    BY TypeInit DEF TypeInv
  <2>2. ReadCovered
    BY DEF Init, ReadCovered
  <2>3. StaleIsOwned
    BY DEF Init, StaleIsOwned, Stale
  <2> QED  BY <2>1, <2>2, <2>3 DEF StaleInv
<1>2. StaleInv => StaleIsOwned
  BY DEF StaleInv
<1> QED  BY <1>1, <1>2, StaleStep, PTL DEF Spec

=============================================================================
