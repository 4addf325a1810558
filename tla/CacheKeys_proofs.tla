--------------------------- MODULE CacheKeys_proofs ---------------------------
(***************************************************************************)
(* A cache key tells the path, and what its route's `keys` tell apart:     *)
(* KeysTell, at the end, for requests whose query and headers hold any     *)
(* text at all.  What writes a part of a key writes it symbol by symbol,   *)
(* or item by item, in a code that can be decoded from one end; decoding   *)
(* is by induction over the sequence (Induction, from the library's        *)
(* minimal elements).  The sections follow CacheKeys: escaping, escaped    *)
(* parts, JSON, lists, objects, pairs, the caller, the path, the key.      *)
(***************************************************************************)
EXTENDS CacheKeys, WellFoundedInduction, SequenceTheorems, FiniteSetTheorems, TLAPS

\* A non-empty set of naturals has a least element.
LEMMA Least ==
    ASSUME NEW T, T \subseteq Nat, T # {}
    PROVE  \E n \in T : \A m \in T : n <= m
<1> DEFINE R == OpToRel(<, Nat)
<1>1. IsWellFoundedOn(R, Nat)
  BY NatLessThanWellFounded
<1>2. \A x, y \in Nat : <<y, x>> \in R <=> y < x
  BY DEF OpToRel
<1> HIDE DEF R
<1>3. PICK x \in T : \A y \in T : ~(<<y, x>> \in R)
  BY <1>1, WFMin
<1>4. ASSUME NEW y \in T PROVE x <= y
  <2>1. x \in Nat /\ y \in Nat
    OBVIOUS
  <2>2. ~(y < x)
    BY <1>2, <1>3, <2>1
  <2> QED  BY <2>1, <2>2
<1> QED  BY <1>4

\* A set that holds 0 and, with a number, the next one holds them all.
LEMMA Induction ==
    ASSUME NEW S, 0 \in S, \A n \in Nat : n \in S => n + 1 \in S
    PROVE  Nat \subseteq S
<1> SUFFICES ASSUME Nat \ S # {} PROVE FALSE
  OBVIOUS
<1>1. PICK n \in Nat \ S : \A m \in Nat \ S : n <= m
  BY Least
<1>2. n # 0 /\ n - 1 \in Nat
  OBVIOUS
<1>3. n - 1 \in S
  BY <1>1, <1>2
<1> QED  BY <1>2, <1>3

\* The partial concatenations that FlattenSeq chooses.
Flattening(seqs, n, g) ==
    g = [i \in 1 .. n |-> IF i = 1 THEN seqs[i] ELSE g[i - 1] \o seqs[i]]

\* The next concatenation adds the next sequence.
LEMMA FlattenAt ==
    ASSUME NEW seqs, NEW n, NEW g, Flattening(seqs, n, g), NEW i \in 1 .. n
    PROVE  g[i] = IF i = 1 THEN seqs[i] ELSE g[i - 1] \o seqs[i]
BY DEF Flattening

\* There are such concatenations.
LEMMA FlattenExists ==
    ASSUME NEW T, NEW seqs \in Seq(Seq(T)), NEW n \in 0 .. Len(seqs)
    PROVE  \E g : Flattening(seqs, n, g) /\ \A i \in 1 .. n : g[i] \in Seq(T)
<1> DEFINE S == {m \in Nat : m <= Len(seqs) =>
                    \E g : Flattening(seqs, m, g) /\ \A i \in 1 .. m : g[i] \in Seq(T)}
<1>1. 0 \in S
  <2>1. Flattening(seqs, 0, [i \in 1 .. 0 |-> i])
    BY DEF Flattening
  <2> QED  BY <2>1
<1>2. ASSUME NEW m \in Nat, m \in S PROVE m + 1 \in S
  <2> SUFFICES ASSUME m + 1 <= Len(seqs)
               PROVE  \E g : Flattening(seqs, m + 1, g) /\ \A i \in 1 .. m + 1 : g[i] \in Seq(T)
    OBVIOUS
  <2>1. Len(seqs) \in Nat /\ \A i \in 1 .. Len(seqs) : seqs[i] \in Seq(T)
    OBVIOUS
  <2>2. PICK g : Flattening(seqs, m, g) /\ \A i \in 1 .. m : g[i] \in Seq(T)
    BY <1>2, <2>1
  <2> DEFINE last == IF m = 0 THEN seqs[1] ELSE g[m] \o seqs[m + 1]
             h == [i \in 1 .. m + 1 |-> IF i = m + 1 THEN last ELSE g[i]]
  <2>3. last \in Seq(T)
    BY <2>1, <2>2, ConcatProperties
  <2>4. \A i \in 1 .. m + 1 : h[i] \in Seq(T)
    BY <2>2, <2>3
  <2>5. ASSUME NEW i \in 1 .. m
        PROVE  g[i] = IF i = 1 THEN seqs[i] ELSE g[i - 1] \o seqs[i]
    BY <2>2 DEF Flattening
  <2>6. ASSUME NEW i \in 1 .. m + 1
        PROVE  h[i] = IF i = 1 THEN seqs[i] ELSE h[i - 1] \o seqs[i]
    <3>1. CASE i = m + 1
      <4>1. m # 0 => m \in 1 .. m + 1 /\ h[m] = g[m]
        OBVIOUS
      <4> QED  BY <3>1, <4>1
    <3>2. CASE i # m + 1
      <4>1. i \in 1 .. m /\ h[i] = g[i] /\ (i # 1 => h[i - 1] = g[i - 1])
        BY <3>2
      <4> QED  BY <2>5, <4>1
    <3> QED  BY <3>1, <3>2
  <2>7. Flattening(seqs, m + 1, h)
    BY <2>6 DEF Flattening
  <2> QED  BY <2>4, <2>7
<1>3. Nat \subseteq S
  <2> HIDE DEF S
  <2> QED  BY <1>1, <1>2, Induction
<1> QED  BY <1>3

\* Two lists that begin alike have the same ones as far as that goes.
LEMMA FlattenUnique ==
    ASSUME NEW seqs, NEW n \in Nat, NEW g, Flattening(seqs, n, g),
           NEW more, NEW m \in Nat, NEW h, Flattening(more, m, h), n <= m,
           \A i \in 1 .. n : more[i] = seqs[i]
    PROVE  \A i \in 1 .. n : h[i] = g[i]
<1> DEFINE S == {i \in Nat : i \in 1 .. n => h[i] = g[i]}
<1>1. ASSUME NEW i \in 1 .. n PROVE g[i] = IF i = 1 THEN seqs[i] ELSE g[i - 1] \o seqs[i]
  BY DEF Flattening
<1>2. ASSUME NEW i \in 1 .. n PROVE h[i] = IF i = 1 THEN seqs[i] ELSE h[i - 1] \o seqs[i]
  <2>1. i \in 1 .. m /\ more[i] = seqs[i]
    OBVIOUS
  <2>2. h[i] = IF i = 1 THEN more[i] ELSE h[i - 1] \o more[i]
    BY <2>1, FlattenAt
  <2> QED  BY <2>1, <2>2
<1>3. 0 \in S
  OBVIOUS
<1>4. ASSUME NEW i \in Nat, i \in S PROVE i + 1 \in S
  <2> SUFFICES ASSUME i + 1 \in 1 .. n PROVE h[i + 1] = g[i + 1]
    OBVIOUS
  <2>1. CASE i = 0
    BY <1>1, <1>2, <2>1
  <2>2. CASE i # 0
    <3>1. i \in 1 .. n /\ h[i] = g[i]
      BY <1>4, <2>2
    <3>2. i + 1 # 1 /\ (i + 1) - 1 = i
      BY <2>2
    <3> QED  BY <1>1, <1>2, <3>1, <3>2
  <2> QED  BY <2>1, <2>2
<1>5. Nat \subseteq S
  <2> HIDE DEF S
  <2> QED  BY <1>3, <1>4, Induction
<1> QED  BY <1>5

\* So FlattenSeq is the last of them.
LEMMA FlattenIs ==
    ASSUME NEW T, NEW seqs \in Seq(Seq(T)), Len(seqs) # 0
    PROVE  \E g : /\ Flattening(seqs, Len(seqs), g)
                  /\ Ext!FlattenSeq(seqs) = g[Len(seqs)]
                  /\ \A i \in 1 .. Len(seqs) : g[i] \in Seq(T)
<1> DEFINE g == CHOOSE f : Flattening(seqs, Len(seqs), f)
<1>1. Len(seqs) \in 0 .. Len(seqs) /\ Len(seqs) \in Nat
  OBVIOUS
<1>2. PICK h : Flattening(seqs, Len(seqs), h) /\ \A i \in 1 .. Len(seqs) : h[i] \in Seq(T)
  BY <1>1, FlattenExists
<1>3. Flattening(seqs, Len(seqs), g)
  BY <1>2
<1>4. Ext!FlattenSeq(seqs) = g[Len(seqs)]
  BY DEF Ext!FlattenSeq, Flattening
<1> HIDE DEF g
<1>5. \A i \in 1 .. Len(seqs) : h[i] = g[i]
  BY <1>1, <1>2, <1>3, FlattenUnique
<1> QED  BY <1>2, <1>3, <1>4, <1>5

\* A concatenation of sequences of symbols is one.
LEMMA FlattenType ==
    ASSUME NEW T, NEW seqs \in Seq(Seq(T))
    PROVE  Ext!FlattenSeq(seqs) \in Seq(T)
<1>1. CASE Len(seqs) = 0
  BY <1>1 DEF Ext!FlattenSeq
<1>2. CASE Len(seqs) # 0
  <2>1. PICK g : Ext!FlattenSeq(seqs) = g[Len(seqs)] /\ \A i \in 1 .. Len(seqs) : g[i] \in Seq(T)
    BY <1>2, FlattenIs
  <2> QED  BY <1>2, <2>1
<1> QED  BY <1>1, <1>2

\* The concatenation of no sequences is empty.
LEMMA FlattenEmpty == Ext!FlattenSeq(<<>>) = <<>>
BY DEF Ext!FlattenSeq

\* One sequence more changes none of those before it.
LEMMA FlattenLonger ==
    ASSUME NEW seqs, NEW n \in Nat, NEW g, Flattening(seqs, n, g),
           NEW more, NEW h, Flattening(more, n + 1, h), \A i \in 1 .. n : more[i] = seqs[i]
    PROVE  \A i \in 1 .. n : h[i] = g[i]
<1>1. n + 1 \in Nat /\ n <= n + 1
  OBVIOUS
<1> QED  BY <1>1, FlattenUnique

\* The last of the sequences comes last.
LEMMA FlattenMore ==
    ASSUME NEW T, NEW seqs \in Seq(Seq(T)), NEW n \in Nat, Len(seqs) = n,
           NEW more \in Seq(Seq(T)), Len(more) = n + 1, \A i \in 1 .. n : more[i] = seqs[i]
    PROVE  Ext!FlattenSeq(more) = Ext!FlattenSeq(seqs) \o more[n + 1]
<1>1. PICK h : Flattening(more, n + 1, h) /\ Ext!FlattenSeq(more) = h[n + 1]
  <2>1. Len(more) # 0
    OBVIOUS
  <2>2. PICK h : Flattening(more, Len(more), h) /\ Ext!FlattenSeq(more) = h[Len(more)]
    BY <2>1, FlattenIs
  <2> QED  BY <2>2
<1>2. h[n + 1] = IF n = 0 THEN more[n + 1] ELSE h[n] \o more[n + 1]
  <2>1. n + 1 \in 1 .. n + 1
    OBVIOUS
  <2>2. h[n + 1] = IF n + 1 = 1 THEN more[n + 1] ELSE h[(n + 1) - 1] \o more[n + 1]
    BY <1>1, <2>1, FlattenAt
  <2> QED  BY <2>2
<1>3. CASE n = 0
  <2>1. seqs = <<>>
    BY <1>3, EmptySeq
  <2>2. more[n + 1] \in Seq(T)
    BY ElementOfSeq
  <2>3. <<>> \o more[n + 1] = more[n + 1]
    BY <2>2, ConcatEmptySeq
  <2> QED  BY <1>1, <1>2, <1>3, <2>1, <2>3, FlattenEmpty
<1>4. CASE n # 0
  <2>1. PICK g : Flattening(seqs, n, g) /\ Ext!FlattenSeq(seqs) = g[n]
    BY <1>4, FlattenIs
  <2>2. \A i \in 1 .. n : h[i] = g[i]
    BY <1>1, <2>1, FlattenLonger
  <2>3. h[n] = g[n]
    BY <1>4, <2>2
  <2> QED  BY <1>1, <1>2, <1>4, <2>1, <2>3
<1> QED  BY <1>3, <1>4

\* The same, of Append.
LEMMA FlattenAppend ==
    ASSUME NEW T, NEW seqs \in Seq(Seq(T)), NEW s \in Seq(T)
    PROVE  Ext!FlattenSeq(Append(seqs, s)) = Ext!FlattenSeq(seqs) \o s
<1> DEFINE n == Len(seqs)
           more == Append(seqs, s)
<1>1. n \in Nat /\ Len(seqs) = n
  BY LenProperties
<1>2. /\ more \in Seq(Seq(T)) /\ Len(more) = n + 1 /\ \A i \in 1 .. n : more[i] = seqs[i]
      /\ more[n + 1] = s
  BY AppendProperties
<1> HIDE DEF n, more
<1>3. Ext!FlattenSeq(more) = Ext!FlattenSeq(seqs) \o more[n + 1]
  BY <1>1, <1>2, FlattenMore
<1> QED  BY <1>2, <1>3 DEF more

\* What the empty sequence has, and Append keeps, every sequence has.
LEMMA SeqInduction ==
    ASSUME NEW X, NEW S, <<>> \in S,
           \A s \in Seq(X), e \in X : s \in S => Append(s, e) \in S
    PROVE  Seq(X) \subseteq S
<1> DEFINE N == {n \in Nat : \A s \in Seq(X) : Len(s) = n => s \in S}
<1>1. 0 \in N
  BY EmptySeq
<1>2. ASSUME NEW n \in Nat, n \in N PROVE n + 1 \in N
  <2> SUFFICES ASSUME NEW s \in Seq(X), Len(s) = n + 1 PROVE s \in S
    OBVIOUS
  <2>1. s # <<>>
    BY EmptySeq
  <2>2. PICK t \in Seq(X), e \in X : s = Append(t, e)
    BY <2>1, SequenceEmptyOrAppend
  <2>3. Len(s) = Len(t) + 1 /\ Len(t) \in Nat
    BY <2>2, AppendProperties, LenProperties
  <2>4. Len(t) = n
    BY <2>3
  <2> QED  BY <1>2, <2>2, <2>4
<1>3. Nat \subseteq N
  <2> HIDE DEF N
  <2> QED  BY <1>1, <1>2, Induction
<1> QED
  <2> SUFFICES ASSUME NEW s \in Seq(X) PROVE s \in S
    OBVIOUS
  <2>1. Len(s) \in N
    <3> HIDE DEF N
    <3> QED  BY <1>3, LenProperties
  <2> QED  BY <2>1

\* The elements of a sequence over T are in T.
LEMMA Elements ==
    ASSUME NEW T, NEW s \in Seq(T)
    PROVE  \A i \in DOMAIN s : s[i] \in T
BY LenProperties, ElementOfSeq

\* Concatenation, by a name that the provers do not take apart.
Cat(a, b) == a \o b
\* The symbol c is not in s.
Without(c, s) == \A i \in DOMAIN s : s[i] # c

\* Two concatenations split at one place have the same parts.
LEMMA SplitWhere ==
    ASSUME NEW T, NEW p \in Seq(T), NEW v \in Seq(T), NEW q \in Seq(T), NEW b \in Seq(T),
           p \o v = q \o b, Len(p) = Len(q)
    PROVE  p = q /\ v = b
<1>1. Len(p) \in Nat /\ Len(v) \in Nat /\ Len(q) \in Nat /\ Len(b) \in Nat
  BY LenProperties
<1>2. /\ Len(p \o v) = Len(p) + Len(v)
      /\ \A i \in 1 .. Len(p) + Len(v) : (p \o v)[i] = IF i <= Len(p) THEN p[i] ELSE v[i - Len(p)]
  BY ConcatProperties
<1>3. /\ Len(q \o b) = Len(q) + Len(b)
      /\ \A i \in 1 .. Len(q) + Len(b) : (q \o b)[i] = IF i <= Len(q) THEN q[i] ELSE b[i - Len(q)]
  BY ConcatProperties
<1>4. Len(v) = Len(b)
  <2>1. \A x, y, z \in Nat : x + y = x + z => y = z
    OBVIOUS
  <2>2. Len(p) + Len(v) = Len(p) + Len(b)
    BY <1>2, <1>3
  <2> QED  BY <1>1, <2>1, <2>2
<1>5. ASSUME NEW i \in 1 .. Len(p) PROVE p[i] = q[i]
  <2>1. (p \o v)[i] = p[i] /\ (q \o b)[i] = q[i]
    BY <1>1, <1>2, <1>3, <1>4
  <2> QED  BY <2>1
<1>6. ASSUME NEW i \in 1 .. Len(v) PROVE v[i] = b[i]
  <2>1. /\ i + Len(p) \in 1 .. Len(p) + Len(v) /\ ~(i + Len(p) <= Len(p))
        /\ (i + Len(p)) - Len(p) = i
    BY <1>1
  <2>2. (p \o v)[i + Len(p)] = v[i] /\ (q \o b)[i + Len(p)] = b[i]
    BY <1>2, <1>3, <1>4, <2>1
  <2> QED  BY <2>2
<1> QED  BY <1>4, <1>5, <1>6, SeqEqual

\* A sequence splits in one way at the last c.
LEMMA LastSplit ==
    ASSUME NEW T, NEW c \in T
    PROVE  \A u, v, a, b \in Seq(T) :
              Without(c, v) /\ Without(c, b) /\ Cat(Cat(u, <<c>>), v) = Cat(Cat(a, <<c>>), b)
                  => u = a /\ v = b
<1> SUFFICES ASSUME NEW u \in Seq(T), NEW v \in Seq(T), NEW a \in Seq(T), NEW b \in Seq(T),
                    Without(c, v), Without(c, b), Cat(Cat(u, <<c>>), v) = Cat(Cat(a, <<c>>), b)
             PROVE  u = a /\ v = b
  OBVIOUS
<1>1. (\A i \in DOMAIN v : v[i] # c) /\ (\A i \in DOMAIN b : b[i] # c)
  BY DEF Without
<1>2. (u \o <<c>>) \o v = (a \o <<c>>) \o b
  BY DEF Cat
<1>3. /\ Len(u) \in Nat /\ Len(v) \in Nat /\ Len(a) \in Nat /\ Len(b) \in Nat
      /\ DOMAIN v = 1 .. Len(v) /\ DOMAIN b = 1 .. Len(b)
  BY LenProperties
<1>4. /\ u \o <<c>> \in Seq(T) /\ Len(u \o <<c>>) = Len(u) + 1
      /\ (u \o <<c>>)[Len(u) + 1] = c
      /\ \A i \in 1 .. Len(u) : (u \o <<c>>)[i] = u[i]
  BY ConcatProperties
<1>5. /\ a \o <<c>> \in Seq(T) /\ Len(a \o <<c>>) = Len(a) + 1
      /\ (a \o <<c>>)[Len(a) + 1] = c
      /\ \A i \in 1 .. Len(a) : (a \o <<c>>)[i] = a[i]
  BY ConcatProperties
<1> DEFINE p == u \o <<c>>
           q == a \o <<c>>
<1>6. p \in Seq(T) /\ q \in Seq(T) /\ p \o v = q \o b
  BY <1>4, <1>5, <1>2
<1>7. /\ Len(p) = Len(u) + 1 /\ p[Len(u) + 1] = c /\ \A i \in 1 .. Len(u) : p[i] = u[i]
      /\ Len(q) = Len(a) + 1 /\ q[Len(a) + 1] = c /\ \A i \in 1 .. Len(a) : q[i] = a[i]
  BY <1>4, <1>5
<1> HIDE DEF p, q
<1>8. /\ Len(p \o v) = Len(p) + Len(v)
      /\ \A i \in 1 .. Len(p) + Len(v) : (p \o v)[i] = IF i <= Len(p) THEN p[i] ELSE v[i - Len(p)]
  BY <1>6, ConcatProperties
<1>9. /\ Len(q \o b) = Len(q) + Len(b)
      /\ \A i \in 1 .. Len(q) + Len(b) : (q \o b)[i] = IF i <= Len(q) THEN q[i] ELSE b[i - Len(q)]
  BY <1>6, ConcatProperties
<1>10. Len(p) + Len(v) = Len(q) + Len(b)
  BY <1>6, <1>8, <1>9
<1>11. ASSUME Len(u) < Len(a) PROVE FALSE
  <2>1. /\ Len(q) \in 1 .. Len(p) + Len(v) /\ ~(Len(q) <= Len(p))
        /\ Len(q) - Len(p) \in DOMAIN v
    BY <1>3, <1>7, <1>10, <1>11
  <2>2. (p \o v)[Len(q)] = v[Len(q) - Len(p)]
    BY <1>8, <2>1
  <2>3. (q \o b)[Len(q)] = c
    BY <1>3, <1>7, <1>9
  <2> QED  BY <1>6, <1>1, <2>1, <2>2, <2>3
<1>12. ASSUME Len(a) < Len(u) PROVE FALSE
  <2>1. /\ Len(p) \in 1 .. Len(q) + Len(b) /\ ~(Len(p) <= Len(q))
        /\ Len(p) - Len(q) \in DOMAIN b
    BY <1>3, <1>7, <1>10, <1>12
  <2>2. (q \o b)[Len(p)] = b[Len(p) - Len(q)]
    BY <1>9, <2>1
  <2>3. (p \o v)[Len(p)] = c
    BY <1>3, <1>7, <1>8
  <2> QED  BY <1>6, <1>1, <2>1, <2>2, <2>3
<1>13. Len(u) = Len(a)
  BY <1>3, <1>11, <1>12
<1>14. Len(p) = Len(q)
  BY <1>3, <1>7, <1>13
<1>15. p = q /\ v = b
  BY <1>6, <1>14, SplitWhere
<1>16. ASSUME NEW i \in 1 .. Len(u) PROVE u[i] = a[i]
  BY <1>7, <1>13, <1>15
<1> QED  BY <1>13, <1>15, <1>16, SeqEqual

\* A sequence splits in one way at the first c.
LEMMA FirstSplit ==
    ASSUME NEW T, NEW c \in T
    PROVE  \A u, v, a, b \in Seq(T) :
              Without(c, u) /\ Without(c, a) /\ Cat(Cat(u, <<c>>), v) = Cat(Cat(a, <<c>>), b)
                  => u = a /\ v = b
<1> SUFFICES ASSUME NEW u \in Seq(T), NEW v \in Seq(T), NEW a \in Seq(T), NEW b \in Seq(T),
                    Without(c, u), Without(c, a), Cat(Cat(u, <<c>>), v) = Cat(Cat(a, <<c>>), b)
             PROVE  u = a /\ v = b
  OBVIOUS
<1>1. (\A i \in 1 .. Len(u) : u[i] # c) /\ (\A i \in 1 .. Len(a) : a[i] # c)
  BY LenProperties DEF Without
<1>2. (u \o <<c>>) \o v = (a \o <<c>>) \o b
  BY DEF Cat
<1>3. /\ Len(u) \in Nat /\ Len(v) \in Nat /\ Len(a) \in Nat /\ Len(b) \in Nat
      /\ DOMAIN v = 1 .. Len(v) /\ DOMAIN b = 1 .. Len(b)
  BY LenProperties
<1>4. /\ u \o <<c>> \in Seq(T) /\ Len(u \o <<c>>) = Len(u) + 1
      /\ (u \o <<c>>)[Len(u) + 1] = c
      /\ \A i \in 1 .. Len(u) : (u \o <<c>>)[i] = u[i]
  BY ConcatProperties
<1>5. /\ a \o <<c>> \in Seq(T) /\ Len(a \o <<c>>) = Len(a) + 1
      /\ (a \o <<c>>)[Len(a) + 1] = c
      /\ \A i \in 1 .. Len(a) : (a \o <<c>>)[i] = a[i]
  BY ConcatProperties
<1> DEFINE p == u \o <<c>>
           q == a \o <<c>>
<1>6. p \in Seq(T) /\ q \in Seq(T) /\ p \o v = q \o b
  BY <1>4, <1>5, <1>2
<1>7. /\ Len(p) = Len(u) + 1 /\ p[Len(u) + 1] = c /\ \A i \in 1 .. Len(u) : p[i] = u[i]
      /\ Len(q) = Len(a) + 1 /\ q[Len(a) + 1] = c /\ \A i \in 1 .. Len(a) : q[i] = a[i]
  BY <1>4, <1>5
<1> HIDE DEF p, q
<1>8. /\ Len(p \o v) = Len(p) + Len(v)
      /\ \A i \in 1 .. Len(p) + Len(v) : (p \o v)[i] = IF i <= Len(p) THEN p[i] ELSE v[i - Len(p)]
  BY <1>6, ConcatProperties
<1>9. /\ Len(q \o b) = Len(q) + Len(b)
      /\ \A i \in 1 .. Len(q) + Len(b) : (q \o b)[i] = IF i <= Len(q) THEN q[i] ELSE b[i - Len(q)]
  BY <1>6, ConcatProperties
<1>10. Len(p) + Len(v) = Len(q) + Len(b)
  BY <1>6, <1>8, <1>9
<1>11. ASSUME Len(u) < Len(a) PROVE FALSE
  <2>1. Len(p) \in 1 .. Len(p) + Len(v) /\ Len(p) \in 1 .. Len(a) /\ Len(p) <= Len(q)
        /\ Len(p) \in 1 .. Len(q) + Len(b)
    BY <1>3, <1>7, <1>11
  <2>2. (p \o v)[Len(p)] = c
    BY <1>7, <1>8, <2>1
  <2>3. (q \o b)[Len(p)] = a[Len(p)]
    BY <1>7, <1>9, <2>1
  <2> QED  BY <1>6, <1>1, <2>1, <2>2, <2>3
<1>12. ASSUME Len(a) < Len(u) PROVE FALSE
  <2>1. Len(q) \in 1 .. Len(q) + Len(b) /\ Len(q) \in 1 .. Len(u) /\ Len(q) <= Len(p)
        /\ Len(q) \in 1 .. Len(p) + Len(v)
    BY <1>3, <1>7, <1>12
  <2>2. (q \o b)[Len(q)] = c
    BY <1>7, <1>9, <2>1
  <2>3. (p \o v)[Len(q)] = u[Len(q)]
    BY <1>7, <1>8, <2>1
  <2> QED  BY <1>6, <1>1, <2>1, <2>2, <2>3
<1>13. Len(u) = Len(a)
  BY <1>3, <1>11, <1>12
<1>14. Len(p) = Len(q)
  BY <1>3, <1>7, <1>13
<1>15. p = q /\ v = b
  BY <1>6, <1>14, SplitWhere
<1>16. ASSUME NEW i \in 1 .. Len(u) PROVE u[i] = a[i]
  BY <1>7, <1>13, <1>15
<1> QED  BY <1>13, <1>15, <1>16, SeqEqual

-----------------------------------------------------------------------------
(* Codes.  A function f gives every symbol its code; Coded is the code of a *)
(* sequence of symbols.                                                     *)
Coded(f, s) == Ext!FlattenSeq([i \in DOMAIN s |-> f[s[i]]])

\* Nothing is coded by nothing.
LEMMA CodedEmpty == ASSUME NEW f PROVE Coded(f, <<>>) = <<>>
<1>1. [i \in DOMAIN <<>> |-> f[<<>>[i]]] = <<>>
  OBVIOUS
<1> QED  BY <1>1, FlattenEmpty DEF Coded

\* A function applied to a sequence, symbol by symbol, gives a sequence.
LEMMA MapType ==
    ASSUME NEW X, NEW Y, NEW f \in [X -> Y], NEW s \in Seq(X)
    PROVE  [i \in DOMAIN s |-> f[s[i]]] \in Seq(Y)
<1>1. Len(s) \in Nat /\ DOMAIN s = 1 .. Len(s) /\ \A i \in 1 .. Len(s) : s[i] \in X
  BY LenProperties, ElementOfSeq
<1> QED  BY <1>1

\* That applies to what is appended too.
LEMMA MapAppend ==
    ASSUME NEW X, NEW Y, NEW f \in [X -> Y], NEW s \in Seq(X), NEW e \in X
    PROVE  [i \in DOMAIN Append(s, e) |-> f[Append(s, e)[i]]]
               = Append([i \in DOMAIN s |-> f[s[i]]], f[e])
<1> DEFINE m == [i \in DOMAIN s |-> f[s[i]]]
           a == Append(s, e)
           l == [i \in DOMAIN a |-> f[a[i]]]
           r == Append(m, f[e])
<1>1. Len(s) \in Nat /\ DOMAIN s = 1 .. Len(s) /\ \A i \in 1 .. Len(s) : s[i] \in X
  BY LenProperties, ElementOfSeq
<1>2. /\ a \in Seq(X) /\ Len(a) = Len(s) + 1 /\ a[Len(s) + 1] = e
      /\ \A i \in 1 .. Len(s) : a[i] = s[i]
  BY AppendProperties
<1>3. DOMAIN a = 1 .. Len(s) + 1
  BY <1>2, LenProperties
<1>4. m \in Seq(Y) /\ Len(m) = Len(s) /\ \A i \in 1 .. Len(s) : m[i] = f[s[i]]
  BY <1>1, MapType
<1>5. l \in Seq(Y) /\ Len(l) = Len(s) + 1 /\ \A i \in 1 .. Len(s) + 1 : l[i] = f[a[i]]
  BY <1>1, <1>2, <1>3, MapType
<1> HIDE DEF m, a, l
<1>6. /\ r \in Seq(Y) /\ Len(r) = Len(s) + 1 /\ r[Len(s) + 1] = f[e]
      /\ \A i \in 1 .. Len(s) : r[i] = m[i]
  BY <1>4, AppendProperties
<1> HIDE DEF r
<1>7. ASSUME NEW i \in 1 .. Len(s) + 1 PROVE l[i] = r[i]
  <2>1. CASE i = Len(s) + 1
    BY <1>2, <1>5, <1>6, <2>1
  <2>2. CASE i # Len(s) + 1
    <3>1. i \in 1 .. Len(s)
      BY <1>1, <2>2
    <3> QED  BY <1>2, <1>4, <1>5, <1>6, <3>1
  <2> QED  BY <2>1, <2>2
<1>8. l = r
  BY <1>5, <1>6, <1>7, SeqEqual
<1> QED  BY <1>8 DEF l, r, m, a

\* A code of symbols is a sequence of them.
LEMMA CodedType ==
    ASSUME NEW X, NEW T, NEW f \in [X -> Seq(T)], NEW s \in Seq(X)
    PROVE  Coded(f, s) \in Seq(T)
<1>1. [i \in DOMAIN s |-> f[s[i]]] \in Seq(Seq(T))
  BY MapType
<1>2. Ext!FlattenSeq([i \in DOMAIN s |-> f[s[i]]]) \in Seq(T)
  BY <1>1, FlattenType
<1> QED  BY <1>2 DEF Coded

\* The code of the last symbol comes last.
LEMMA CodedAppend ==
    ASSUME NEW X, NEW T, NEW f \in [X -> Seq(T)], NEW s \in Seq(X), NEW e \in X
    PROVE  Coded(f, Append(s, e)) = Coded(f, s) \o f[e]
<1>1. [i \in DOMAIN s |-> f[s[i]]] \in Seq(Seq(T))
  BY MapType
<1>2. f[e] \in Seq(T)
  OBVIOUS
<1>3. Ext!FlattenSeq(Append([i \in DOMAIN s |-> f[s[i]]], f[e]))
          = Ext!FlattenSeq([i \in DOMAIN s |-> f[s[i]]]) \o f[e]
  BY <1>1, <1>2, FlattenAppend
<1>4. [i \in DOMAIN Append(s, e) |-> f[Append(s, e)[i]]]
          = Append([i \in DOMAIN s |-> f[s[i]]], f[e])
  BY MapAppend
<1> QED  BY <1>3, <1>4 DEF Coded

\* Concatenation is associative.
Associative(S) == \A a, b, c \in S : (a \o b) \o c = a \o (b \o c)

LEMMA Assoc == ASSUME NEW T PROVE Associative(Seq(T))
<1> SUFFICES ASSUME NEW a \in Seq(T), NEW b \in Seq(T), NEW c \in Seq(T)
             PROVE  (a \o b) \o c = a \o (b \o c)
  BY DEF Associative
<1> QED  BY ConcatAssociative

\* The code of the first symbol comes first.
LEMMA CodedCons ==
    ASSUME NEW X, NEW T, NEW f \in [X -> Seq(T)]
    PROVE  \A e \in X, s \in Seq(X) : Coded(f, Ext!Cons(e, s)) = f[e] \o Coded(f, s)
<1>1. \A a, b, c \in Seq(T) : (a \o b) \o c = a \o (b \o c)
  <2>1. Associative(Seq(T))
    BY Assoc
  <2> QED  BY <2>1 DEF Associative
<1> SUFFICES ASSUME NEW e \in X
             PROVE  \A s \in Seq(X) : Coded(f, <<e>> \o s) = f[e] \o Coded(f, s)
  BY DEF Ext!Cons
<1> DEFINE S == {s \in Seq(X) : Coded(f, <<e>> \o s) = f[e] \o Coded(f, s)}
<1>2. <<>> \in S
  <2>1. <<e>> \o <<>> = Append(<<>>, e) /\ <<>> \in Seq(X)
    OBVIOUS
  <2>2. Coded(f, Append(<<>>, e)) = Coded(f, <<>>) \o f[e]
    BY <2>1, CodedAppend
  <2>3. <<>> \o f[e] = f[e] /\ f[e] \o <<>> = f[e]
    BY ConcatEmptySeq
  <2> QED  BY <2>1, <2>2, <2>3, CodedEmpty
<1>3. ASSUME NEW t \in Seq(X), NEW x \in X, t \in S PROVE Append(t, x) \in S
  <2>1. /\ <<e>> \in Seq(X) /\ <<e>> \o t \in Seq(X) /\ Append(t, x) \in Seq(X)
        /\ <<e>> \o Append(t, x) = Append(<<e>> \o t, x)
    OBVIOUS
  <2>2. Coded(f, Append(<<e>> \o t, x)) = Coded(f, <<e>> \o t) \o f[x]
    BY <2>1, CodedAppend
  <2>3. Coded(f, Append(t, x)) = Coded(f, t) \o f[x]
    BY CodedAppend
  <2>4. f[e] \in Seq(T) /\ f[x] \in Seq(T) /\ Coded(f, t) \in Seq(T)
    BY CodedType
  <2>5. (f[e] \o Coded(f, t)) \o f[x] = f[e] \o (Coded(f, t) \o f[x])
    BY <1>1, <2>4
  <2>6. Coded(f, <<e>> \o t) = f[e] \o Coded(f, t)
    BY <1>3
  <2>7. Coded(f, <<e>> \o Append(t, x)) = f[e] \o Coded(f, Append(t, x))
    BY <2>1, <2>2, <2>3, <2>5, <2>6
  <2> QED  BY <2>1, <2>7
<1>4. Seq(X) \subseteq S
  <2> HIDE DEF S
  <2> QED  BY <1>2, <1>3, SeqInduction
<1> QED  BY <1>4

\* A sequence that is not empty has a first symbol and a rest.
LEMMA ConsOf ==
    ASSUME NEW X, NEW s \in Seq(X), s # <<>>
    PROVE  \E e \in X, t \in Seq(X) : s = Ext!Cons(e, t) /\ Len(t) = Len(s) - 1
<1>1. Len(s) \in Nat /\ Len(s) # 0 /\ 1 \in 1 .. Len(s)
  BY EmptySeq, LenProperties
<1>2. Head(s) \in X /\ Tail(s) \in Seq(X) /\ Len(Tail(s)) = Len(s) - 1
  BY HeadTailProperties
<1>3. s = <<Head(s)>> \o Tail(s)
  <2>1. <<Head(s)>> \in Seq(X) /\ Len(<<Head(s)>>) = 1 /\ <<Head(s)>>[1] = s[1]
    BY <1>2
  <2>2. /\ <<Head(s)>> \o Tail(s) \in Seq(X) /\ Len(<<Head(s)>> \o Tail(s)) = Len(s)
        /\ \A i \in 1 .. Len(s) : (<<Head(s)>> \o Tail(s))[i] =
               IF i <= 1 THEN <<Head(s)>>[i] ELSE Tail(s)[i - 1]
    BY <1>1, <1>2, <2>1, ConcatProperties
  <2>3. ASSUME NEW i \in 1 .. Len(s) PROVE (<<Head(s)>> \o Tail(s))[i] = s[i]
    <3>1. CASE i = 1
      BY <2>1, <2>2, <3>1
    <3>2. CASE i # 1
      <4>1. i - 1 \in 1 .. Len(Tail(s)) /\ ~(i <= 1)
        BY <1>1, <1>2, <3>2
      <4>2. Tail(s)[i - 1] = s[(i - 1) + 1]
        BY <4>1, HeadTailProperties
      <4> QED  BY <2>2, <4>1, <4>2
    <3> QED  BY <3>1, <3>2
  <2> QED  BY <2>2, <2>3, SeqEqual
<1> QED  BY <1>2, <1>3 DEF Ext!Cons

\* What the empty sequence has, and Cons keeps, every sequence has.
LEMMA SeqInductionCons ==
    ASSUME NEW X, NEW S, <<>> \in S,
           \A s \in Seq(X), e \in X : s \in S => Ext!Cons(e, s) \in S
    PROVE  Seq(X) \subseteq S
<1> DEFINE N == {n \in Nat : \A s \in Seq(X) : Len(s) = n => s \in S}
<1>1. 0 \in N
  BY EmptySeq
<1>2. ASSUME NEW n \in Nat, n \in N PROVE n + 1 \in N
  <2> SUFFICES ASSUME NEW s \in Seq(X), Len(s) = n + 1 PROVE s \in S
    OBVIOUS
  <2>1. s # <<>>
    BY EmptySeq
  <2>2. PICK e \in X, t \in Seq(X) : s = Ext!Cons(e, t) /\ Len(t) = Len(s) - 1
    BY <2>1, ConsOf
  <2>3. Len(t) = n
    BY <2>2
  <2> QED  BY <1>2, <2>2, <2>3
<1>3. Nat \subseteq N
  <2> HIDE DEF N
  <2> QED  BY <1>1, <1>2, Induction
<1> QED
  <2> SUFFICES ASSUME NEW s \in Seq(X) PROVE s \in S
    OBVIOUS
  <2>1. Len(s) \in N
    <3> HIDE DEF N
    <3> QED  BY <1>3, LenProperties
  <2> QED  BY <2>1

\* A code that can be told from the end of a sequence decodes a sequence.
SuffixCode(X, T, f) ==
    /\ f \in [X -> Seq(T)]
    /\ \A x \in X : f[x] # <<>>
    /\ \A x, y \in X, u, v \in Seq(T) : u \o f[x] = v \o f[y] => u = v /\ x = y

\* It can be decoded from the end.
LEMMA SuffixDecodes ==
    ASSUME NEW X, NEW T, NEW f, SuffixCode(X, T, f)
    PROVE  \A s, t \in Seq(X) : Coded(f, s) = Coded(f, t) => s = t
<1>1. f \in [X -> Seq(T)]
  BY DEF SuffixCode
<1>2. \A t \in Seq(X), e \in X : Coded(f, Append(t, e)) = Coded(f, t) \o f[e]
  BY <1>1, CodedAppend
<1>3. \A t \in Seq(X) : Coded(f, t) \in Seq(T)
  BY <1>1, CodedType
<1>4. \A u \in Seq(T), e \in X : u \o f[e] # <<>>
  <2>1. \A e \in X : f[e] \in Seq(T) /\ f[e] # <<>>
    BY DEF SuffixCode
  <2> QED  BY <2>1, ConcatSimplifications
<1>5. \A t \in Seq(X) : t = <<>> \/ \E r \in Seq(X), e \in X : t = Append(r, e)
  BY SequenceEmptyOrAppend
<1>6. Coded(f, <<>>) = <<>>
  BY CodedEmpty
<1> DEFINE Good == {s \in Seq(X) : \A t \in Seq(X) : Coded(f, s) = Coded(f, t) => s = t}
<1>7. <<>> \in Good
  <2> SUFFICES ASSUME NEW t \in Seq(X), Coded(f, <<>>) = Coded(f, t), t # <<>> PROVE FALSE
    OBVIOUS
  <2>1. PICK r \in Seq(X), e \in X : t = Append(r, e)
    BY <1>5
  <2>2. Coded(f, t) = Coded(f, r) \o f[e]
    BY <1>2, <2>1
  <2> QED  BY <1>3, <1>4, <1>6, <2>2
<1>8. ASSUME NEW q \in Seq(X), NEW e \in X, q \in Good PROVE Append(q, e) \in Good
  <2> SUFFICES ASSUME NEW t \in Seq(X), Coded(f, Append(q, e)) = Coded(f, t)
               PROVE  Append(q, e) = t
    OBVIOUS
  <2>1. t # <<>>
    BY <1>2, <1>3, <1>4, <1>6
  <2>2. PICK r \in Seq(X), x \in X : t = Append(r, x)
    BY <1>5, <2>1
  <2>3. Coded(f, q) \o f[e] = Coded(f, r) \o f[x]
    BY <1>2, <2>2
  <2>4. Coded(f, q) = Coded(f, r) /\ e = x
    BY <1>3, <2>3 DEF SuffixCode
  <2>5. q = r
    BY <1>8, <2>4
  <2> QED  BY <2>2, <2>4, <2>5
<1>9. Seq(X) \subseteq Good
  <2> HIDE DEF Good
  <2> QED  BY <1>7, <1>8, SeqInduction
<1> QED  BY <1>9

\* A code that can be told from the beginning decodes a sequence, up to where
\* what follows begins like no code does.
PrefixCode(X, T, C, f) ==
    /\ f \in [X -> Seq(T)]
    /\ \A x \in X : f[x] # <<>> /\ f[x][1] \notin C
    /\ \A x, y \in X, u, v \in Seq(T) : f[x] \o u = f[y] \o v => u = v /\ x = y
\* What may follow the codes: nothing, or a symbol of C first.
Ends(T, C) == {u \in Seq(T) : u = <<>> \/ u[1] \in C}

\* Codes followed by such an end tell both the symbols and the end.
Decodes(X, T, C, f) ==
    \A s, t \in Seq(X), u, v \in Ends(T, C) :
        Cat(Coded(f, s), u) = Cat(Coded(f, t), v) => s = t /\ u = v

\* A prefix code can be decoded from the beginning.
LEMMA PrefixDecodes ==
    ASSUME NEW X, NEW T, NEW C, NEW f, PrefixCode(X, T, C, f)
    PROVE  Decodes(X, T, C, f)
<1>1. f \in [X -> Seq(T)]
  BY DEF PrefixCode
<1>2. \A e \in X, t \in Seq(X) : Coded(f, Ext!Cons(e, t)) = f[e] \o Coded(f, t)
  BY <1>1, CodedCons
<1>3. \A t \in Seq(X) : Coded(f, t) \in Seq(T)
  BY <1>1, CodedType
<1>4. ASSUME NEW u \in Seq(T), NEW e \in X PROVE f[e] \o u \notin Ends(T, C)
  <2>1. f[e] \in Seq(T) /\ f[e] # <<>> /\ f[e][1] \notin C
    BY DEF PrefixCode
  <2>2. 1 \in 1 .. Len(f[e]) /\ Len(f[e]) \in Nat /\ Len(u) \in Nat
    BY <2>1, EmptySeq, LenProperties
  <2>3. (f[e] \o u)[1] = f[e][1]
    BY <2>1, <2>2, ConcatProperties
  <2>4. f[e] \o u # <<>>
    BY <2>1, ConcatSimplifications
  <2> QED  BY <2>1, <2>3, <2>4 DEF Ends
<1>5. ASSUME NEW t \in Seq(X), t # <<>> PROVE \E e \in X, r \in Seq(X) : t = Ext!Cons(e, r)
  <2>1. PICK e \in X, r \in Seq(X) : t = Ext!Cons(e, r) /\ Len(r) = Len(t) - 1
    BY <1>5, ConsOf
  <2> QED  BY <2>1
<1>6. Coded(f, <<>>) = <<>> /\ \A u \in Seq(T) : <<>> \o u = u
  BY CodedEmpty, ConcatEmptySeq
<1>7. \A a, b, c \in Seq(T) : (a \o b) \o c = a \o (b \o c)
  <2>1. Associative(Seq(T))
    BY Assoc
  <2> QED  BY <2>1 DEF Associative
<1>8. Ends(T, C) \subseteq Seq(T)
  BY DEF Ends
<1>9. \A a, b \in Seq(T) : a \o b \in Seq(T)
  BY ConcatProperties
<1>10. ASSUME NEW e \in X, NEW t \in Seq(X), NEW u \in Ends(T, C)
      PROVE  /\ Coded(f, t) \o u \in Seq(T)
             /\ Coded(f, Ext!Cons(e, t)) \o u = f[e] \o (Coded(f, t) \o u)
  <2>1. Coded(f, t) \in Seq(T) /\ u \in Seq(T) /\ f[e] \in Seq(T)
    BY <1>1, <1>3, <1>8
  <2>2. Coded(f, t) \o u \in Seq(T)
    BY <1>9, <2>1
  <2>3. (f[e] \o Coded(f, t)) \o u = f[e] \o (Coded(f, t) \o u)
    BY <1>7, <2>1
  <2> QED  BY <1>2, <2>2, <2>3
<1>11. ASSUME NEW e \in X, NEW t \in Seq(X), NEW u \in Ends(T, C), NEW v \in Ends(T, C)
       PROVE  Coded(f, Ext!Cons(e, t)) \o u # Coded(f, <<>>) \o v
  <2>1. Coded(f, <<>>) \o v = v
    BY <1>6, <1>8
  <2>2. f[e] \o (Coded(f, t) \o u) \notin Ends(T, C)
    BY <1>4, <1>10
  <2> QED  BY <1>10, <2>1, <2>2
<1> DEFINE Good == {s \in Seq(X) : \A t \in Seq(X), u, v \in Ends(T, C) :
                        Coded(f, s) \o u = Coded(f, t) \o v => s = t /\ u = v}
<1>12. <<>> \in Good
  <2> SUFFICES ASSUME NEW t \in Seq(X), NEW u \in Ends(T, C), NEW v \in Ends(T, C),
                      Coded(f, <<>>) \o u = Coded(f, t) \o v
               PROVE  <<>> = t /\ u = v
    BY EmptySeq
  <2>1. ASSUME t # <<>> PROVE FALSE
    <3>1. PICK x \in X, r \in Seq(X) : t = Ext!Cons(x, r)
      BY <1>5, <2>1
    <3>2. Coded(f, t) \o v # Coded(f, <<>>) \o u
      BY <1>11, <3>1
    <3> QED  BY <3>2
  <2> QED  BY <1>6, <1>8, <2>1
<1>13. ASSUME NEW q \in Seq(X), NEW e \in X, q \in Good PROVE Ext!Cons(e, q) \in Good
  <2>1. Ext!Cons(e, q) \in Seq(X)
    BY DEF Ext!Cons
  <2> SUFFICES ASSUME NEW t \in Seq(X), NEW u \in Ends(T, C), NEW v \in Ends(T, C),
                      Coded(f, Ext!Cons(e, q)) \o u = Coded(f, t) \o v
               PROVE  Ext!Cons(e, q) = t /\ u = v
    BY <2>1
  <2>2. t # <<>>
    BY <1>11
  <2>3. PICK x \in X, r \in Seq(X) : t = Ext!Cons(x, r)
    BY <1>5, <2>2
  <2>4. f[e] \o (Coded(f, q) \o u) = f[x] \o (Coded(f, r) \o v)
    BY <1>10, <2>3
  <2>5. e = x /\ Coded(f, q) \o u = Coded(f, r) \o v
    <3>1. Coded(f, q) \o u \in Seq(T) /\ Coded(f, r) \o v \in Seq(T)
      BY <1>10
    <3>2. \A a, b \in Seq(T) : f[e] \o a = f[x] \o b => a = b /\ e = x
      BY DEF PrefixCode
    <3> QED  BY <2>4, <3>1, <3>2
  <2>6. q = r /\ u = v
    BY <1>13, <2>5
  <2> QED  BY <2>3, <2>5, <2>6
<1>14. Seq(X) \subseteq Good
  <2> HIDE DEF Good
  <2> QED  BY <1>12, <1>13, SeqInductionCons
<1> QED  BY <1>14 DEF Decodes, Cat

\* Cons has one first symbol and one rest.
LEMMA ConsFacts ==
    ASSUME NEW T, NEW a \in T, NEW u \in Seq(T)
    PROVE  /\ Ext!Cons(a, u) \in Seq(T) /\ Ext!Cons(a, u) # <<>> /\ Ext!Cons(a, u)[1] = a
           /\ \A b \in T, v \in Seq(T) : Ext!Cons(a, u) = Ext!Cons(b, v) => a = b /\ u = v
<1>1. ASSUME NEW b \in T, NEW v \in Seq(T)
      PROVE  /\ Ext!Cons(b, v) \in Seq(T) /\ Ext!Cons(b, v) # <<>> /\ Ext!Cons(b, v)[1] = b
             /\ Len(Ext!Cons(b, v)) = Len(v) + 1
             /\ \A i \in 1 .. Len(v) : Ext!Cons(b, v)[i + 1] = v[i]
  <2>1. <<b>> \in Seq(T) /\ Len(<<b>>) = 1 /\ <<b>>[1] = b /\ Len(v) \in Nat
    OBVIOUS
  <2>2. /\ <<b>> \o v \in Seq(T) /\ Len(<<b>> \o v) = 1 + Len(v)
        /\ \A i \in 1 .. 1 + Len(v) : (<<b>> \o v)[i] = IF i <= 1 THEN <<b>>[i] ELSE v[i - 1]
    BY <2>1, ConcatProperties
  <2>3. (<<b>> \o v)[1] = b
    BY <2>1, <2>2
  <2>4. ASSUME NEW i \in 1 .. Len(v) PROVE (<<b>> \o v)[i + 1] = v[i]
    <3>1. i + 1 \in 1 .. 1 + Len(v) /\ ~(i + 1 <= 1) /\ (i + 1) - 1 = i
      BY <2>1
    <3> QED  BY <2>2, <3>1
  <2>5. <<b>> \o v # <<>>
    BY <2>1, <2>2, EmptySeq
  <2> QED  BY <2>1, <2>2, <2>3, <2>4, <2>5 DEF Ext!Cons
<1>2. ASSUME NEW b \in T, NEW v \in Seq(T), Ext!Cons(a, u) = Ext!Cons(b, v) PROVE a = b /\ u = v
  <2>1. /\ Ext!Cons(a, u)[1] = a /\ Len(Ext!Cons(a, u)) = Len(u) + 1
        /\ \A i \in 1 .. Len(u) : Ext!Cons(a, u)[i + 1] = u[i]
    BY <1>1
  <2>2. /\ Ext!Cons(b, v)[1] = b /\ Len(Ext!Cons(b, v)) = Len(v) + 1
        /\ \A i \in 1 .. Len(v) : Ext!Cons(b, v)[i + 1] = v[i]
    BY <1>1
  <2>3. Len(u) = Len(v) /\ a = b
    <3>1. Len(u) \in Nat /\ Len(v) \in Nat
      BY LenProperties
    <3> QED  BY <1>2, <2>1, <2>2, <3>1
  <2>4. \A i \in 1 .. Len(u) : u[i] = v[i]
    BY <1>2, <2>1, <2>2, <2>3
  <2> QED  BY <2>3, <2>4, SeqEqual
<1> QED  BY <1>1, <1>2

\* A singleton in front is Cons.
LEMMA OneToken == ASSUME NEW a, NEW u PROVE <<a>> \o u = Ext!Cons(a, u)
BY DEF Ext!Cons

\* And a pair is Cons twice.
LEMMA TwoTokens ==
    ASSUME NEW T, NEW a \in T, NEW b \in T, NEW u \in Seq(T)
    PROVE  <<a, b>> \o u = Ext!Cons(a, Ext!Cons(b, u))
<1>1. <<a, b>> = <<a>> \o <<b>>
  <2>1. <<a, b>> = Append(<<a>>, b) /\ <<a>> \in Seq(T)
    OBVIOUS
  <2> QED  BY <2>1, AppendIsConcat
<1>2. <<a>> \in Seq(T) /\ <<b>> \in Seq(T)
  OBVIOUS
<1>3. (<<a>> \o <<b>>) \o u = <<a>> \o (<<b>> \o u)
  <2>1. Associative(Seq(T))
    BY Assoc
  <2> QED  BY <1>2, <2>1 DEF Associative
<1> QED  BY <1>1, <1>3 DEF Ext!Cons

\* The parts of a concatenation hold no more than the whole.
LEMMA ConcatParts ==
    ASSUME NEW T, NEW U, NEW a \in Seq(T), NEW b \in Seq(T), a \o b \in Seq(U)
    PROVE  a \in Seq(U) /\ b \in Seq(U)
<1>1. Len(a) \in Nat /\ Len(b) \in Nat
  BY LenProperties
<1>2. /\ Len(a \o b) = Len(a) + Len(b)
      /\ \A i \in 1 .. Len(a) + Len(b) : (a \o b)[i] = IF i <= Len(a) THEN a[i] ELSE b[i - Len(a)]
  BY ConcatProperties
<1>3. \A i \in 1 .. Len(a) + Len(b) : (a \o b)[i] \in U
  BY <1>2, ElementOfSeq
<1>4. ASSUME NEW i \in 1 .. Len(a) PROVE a[i] \in U
  BY <1>1, <1>2, <1>3
<1>5. ASSUME NEW i \in 1 .. Len(b) PROVE b[i] \in U
  <2>1. i + Len(a) \in 1 .. Len(a) + Len(b) /\ ~(i + Len(a) <= Len(a)) /\ (i + Len(a)) - Len(a) = i
    BY <1>1
  <2> QED  BY <1>2, <1>3, <2>1
<1> QED  BY <1>1, <1>4, <1>5

-----------------------------------------------------------------------------
(* Escaping.                                                                *)
\* Every token is a string; the provers do not know that of a literal.
Codes == {"25", "26", "2C", "3D", "7B", "5B", "22", "3A", "5C"}
Token ==
    STRING \union Codes \union {"%", "&", ",", "=", "{", "[", "\"", ":", "\\"}
           \union {"}", "]", "null", "/", "?"}
           \union {"unauthenticated", "up", "public", "token", "admin"}
\* encodeURIComponent, of one symbol.
Enc == [t \in Token |-> EncodedToken(t)]
\* What it escapes.
Specials == DOMAIN URIComponent

\* An escape is no symbol it escapes, and no two symbols share one.
LEMMA ComponentsAre ==
    /\ Specials = {"%", "&", ",", "=", "{", "[", "\"", ":", "\\"}
    /\ \A x \in Specials : URIComponent[x] \in Codes
    /\ Codes \intersect Specials = {} /\ Codes \union Specials \subseteq Token
    /\ \A x, y \in Specials : URIComponent[x] = URIComponent[y] => x = y
<1>1. Specials = {"%", "&", ",", "=", "{", "[", "\"", ":", "\\"}
  BY DEF Specials, URIComponent
<1>2. /\ URIComponent["%"] = "25" /\ URIComponent["&"] = "26" /\ URIComponent[","] = "2C"
      /\ URIComponent["="] = "3D" /\ URIComponent["{"] = "7B" /\ URIComponent["["] = "5B"
      /\ URIComponent["\""] = "22" /\ URIComponent[":"] = "3A" /\ URIComponent["\\"] = "5C"
  BY DEF URIComponent
<1>3. \A x \in Specials : URIComponent[x] \in Codes
  BY <1>1, <1>2 DEF Codes
<1>4. \A x, y \in Specials : URIComponent[x] = URIComponent[y] => x = y
  <2> SUFFICES ASSUME NEW x \in Specials, NEW y \in Specials, URIComponent[x] = URIComponent[y]
               PROVE  x = y
    OBVIOUS
  <2>1. CASE x \in {"%", "&", ","}
    BY <1>1, <1>2, <2>1
  <2>2. CASE x \in {"=", "{", "["}
    BY <1>1, <1>2, <2>2
  <2>3. CASE x \in {"\"", ":", "\\"}
    BY <1>1, <1>2, <2>3
  <2>4. x \in {"%", "&", ","} \union {"=", "{", "["} \union {"\"", ":", "\\"}
    BY <1>1
  <2> QED  BY <2>1, <2>2, <2>3, <2>4
<1>5. Codes \intersect Specials = {} /\ Codes \union Specials \subseteq Token
  BY <1>1 DEF Codes, Token
<1> QED  BY <1>1, <1>3, <1>4, <1>5

\* The code of a symbol, alone and in front of others.
LEMMA EncAt ==
    ASSUME NEW x \in Token
    PROVE  /\ Enc[x] \in Seq(Token) /\ Enc[x] # <<>>
           /\ x \in Specials => Enc[x] = <<"%", URIComponent[x]>>
           /\ x \notin Specials => Enc[x] = <<x>>
           /\ \A u \in Seq(Token) :
                 /\ x \in Specials => Enc[x] \o u = Ext!Cons("%", Ext!Cons(URIComponent[x], u))
                 /\ x \notin Specials => Enc[x] \o u = Ext!Cons(x, u)
<1>1. Enc[x] = IF x \in Specials THEN <<"%", URIComponent[x]>> ELSE <<x>>
  BY DEF Enc, EncodedToken, Specials
<1>2. "%" \in Token /\ (x \in Specials => URIComponent[x] \in Token)
  BY ComponentsAre DEF Token
<1>3. Enc[x] \in Seq(Token) /\ Enc[x] # <<>>
  BY <1>1, <1>2
<1>4. ASSUME NEW u \in Seq(Token), x \in Specials
      PROVE  Enc[x] \o u = Ext!Cons("%", Ext!Cons(URIComponent[x], u))
  BY <1>1, <1>2, <1>4, TwoTokens
<1>5. ASSUME NEW u \in Seq(Token), x \notin Specials
      PROVE  Enc[x] \o u = Ext!Cons(x, u)
  BY <1>1, <1>5, OneToken
<1> QED  BY <1>1, <1>3, <1>4, <1>5

\* The escapes are a prefix code.
LEMMA EncPrefixCode == PrefixCode(Token, Token, {}, Enc)
<1>1. Enc \in [Token -> Seq(Token)] /\ \A x \in Token : Enc[x] # <<>>
  <2>1. \A x \in Token : Enc[x] \in Seq(Token) /\ Enc[x] # <<>>
    BY EncAt
  <2> QED  BY <2>1 DEF Enc
<1>2. ASSUME NEW x \in Token, NEW y \in Token, NEW u \in Seq(Token), NEW v \in Seq(Token),
             Enc[x] \o u = Enc[y] \o v
      PROVE  u = v /\ x = y
  <2>1. "%" \in Token /\ "%" \in Specials
    BY ComponentsAre DEF Token
  <2>2. CASE x \notin Specials /\ y \notin Specials
    <3>1. Enc[x] \o u = Ext!Cons(x, u)
      BY <2>2, EncAt
    <3>2. Enc[y] \o v = Ext!Cons(y, v)
      BY <2>2, EncAt
    <3>3. Ext!Cons(x, u) = Ext!Cons(y, v)
      BY <1>2, <3>1, <3>2
    <3> QED  BY <3>3, ConsFacts
  <2>3. CASE x \in Specials /\ y \in Specials
    <3>1. URIComponent[x] \in Token /\ URIComponent[y] \in Token
      BY <2>3, ComponentsAre
    <3>2. Ext!Cons(URIComponent[x], u) \in Seq(Token) /\ Ext!Cons(URIComponent[y], v) \in Seq(Token)
      BY <3>1, ConsFacts
    <3>3. Enc[x] \o u = Ext!Cons("%", Ext!Cons(URIComponent[x], u))
      BY <2>3, EncAt
    <3>4. Enc[y] \o v = Ext!Cons("%", Ext!Cons(URIComponent[y], v))
      BY <2>3, EncAt
    <3>5. Ext!Cons("%", Ext!Cons(URIComponent[x], u)) = Ext!Cons("%", Ext!Cons(URIComponent[y], v))
      BY <1>2, <3>3, <3>4
    <3>6. Ext!Cons(URIComponent[x], u) = Ext!Cons(URIComponent[y], v)
      BY <2>1, <3>2, <3>5, ConsFacts
    <3>7. URIComponent[x] = URIComponent[y] /\ u = v
      <4>1. \A a \in Token, p \in Seq(Token), b \in Token, q \in Seq(Token) :
                Ext!Cons(a, p) = Ext!Cons(b, q) => a = b /\ p = q
        BY ConsFacts
      <4> QED  BY <3>1, <3>6, <4>1
    <3> QED  BY <2>3, <3>7, ComponentsAre
  <2>4. ASSUME NEW a \in Token, NEW b \in Token, NEW q \in Seq(Token), NEW r \in Seq(Token),
               a \in Specials, b \notin Specials
        PROVE  Enc[a] \o q # Enc[b] \o r
    <3>1. URIComponent[a] \in Token
      BY <2>4, ComponentsAre
    <3>2. Ext!Cons(URIComponent[a], q) \in Seq(Token)
      BY <3>1, ConsFacts
    <3>3. /\ Enc[a] \o q = Ext!Cons("%", Ext!Cons(URIComponent[a], q))
          /\ Enc[b] \o r = Ext!Cons(b, r)
      BY <2>4, EncAt
    <3>4. Ext!Cons("%", Ext!Cons(URIComponent[a], q)) # Ext!Cons(b, r)
      BY <2>1, <2>4, <3>2, ConsFacts
    <3> QED  BY <3>3, <3>4
  <2> QED  BY <1>2, <2>2, <2>3, <2>4
<1> QED  BY <1>1, <1>2 DEF PrefixCode

\* encode writes it, symbol by symbol.
LEMMA EncodeIsCoded == ASSUME NEW s \in Seq(Token) PROVE encode(s) = Coded(Enc, s)
<1>1. \A i \in DOMAIN s : EncodedToken(s[i]) = Enc[s[i]]
  BY DEF Enc
<1>2. [i \in DOMAIN s |-> EncodedToken(s[i])] = [i \in DOMAIN s |-> Enc[s[i]]]
  BY <1>1
<1> QED  BY <1>2 DEF encode, Coded

\* Nothing is an end, and adds nothing.
LEMMA NoRest == ASSUME NEW T, NEW C PROVE <<>> \in Ends(T, C) /\ \A a \in Seq(T) : a \o <<>> = a
BY ConcatEmptySeq, EmptySeq DEF Ends

\* Two texts are encoded alike only if they are one.
LEMMA EncodeInjective == \A s, t \in Seq(Token) : encode(s) = encode(t) => s = t
<1> SUFFICES ASSUME NEW s \in Seq(Token), NEW t \in Seq(Token), encode(s) = encode(t)
             PROVE  s = t
  OBVIOUS
<1>1. Decodes(Token, Token, {}, Enc)
  BY EncPrefixCode, PrefixDecodes
<1>2. <<>> \in Ends(Token, {})
  BY NoRest
<1>3. Coded(Enc, s) = Coded(Enc, t)
  BY EncodeIsCoded
<1>4. Cat(Coded(Enc, s), <<>>) = Cat(Coded(Enc, t), <<>>)
  BY <1>3
<1> QED  BY <1>1, <1>2, <1>4 DEF Decodes

\* Nothing special is left but "%", which is left exactly where something
\* was special, and never at the end.
LEMMA EncodeType == ASSUME NEW s \in Seq(Token) PROVE encode(s) \in Seq(Token \ (Specials \ {"%"}))
<1> DEFINE Kept == Token \ (Specials \ {"%"})
<1>1. ASSUME NEW x \in Token PROVE Enc[x] \in Seq(Kept)
  <2>1. "%" \in Kept /\ (x \in Specials => URIComponent[x] \in Kept)
    BY ComponentsAre DEF Token
  <2>2. CASE x \in Specials
    <3>1. Enc[x] = <<"%", URIComponent[x]>>
      BY <2>2, EncAt
    <3> HIDE DEF Kept
    <3> QED  BY <2>1, <2>2, <3>1
  <2>3. CASE x \notin Specials
    <3>1. x \in Kept
      BY <2>3
    <3>2. Enc[x] = <<x>>
      BY <2>3, EncAt
    <3> HIDE DEF Kept
    <3> QED  BY <3>1, <3>2
  <2> QED  BY <2>2, <2>3
<1>2. Enc \in [Token -> Seq(Kept)]
  BY <1>1 DEF Enc
<1> HIDE DEF Kept
<1>3. Coded(Enc, s) \in Seq(Kept)
  BY <1>2, CodedType
<1> QED  BY <1>3, EncodeIsCoded DEF Kept

\* An encoded text never ends in "%",
LEMMA EncodeLast ==
    \A s \in Seq(Token), u \in Seq(Token) : encode(s) # u \o <<"%">>
<1> SUFFICES ASSUME NEW s \in Seq(Token), NEW u \in Seq(Token), encode(s) = u \o <<"%">>
             PROVE  FALSE
  OBVIOUS
<1>1. "%" \in Token /\ "%" \in Specials
  BY ComponentsAre DEF Token
<1>2. u \o <<"%">> = Append(u, "%")
  BY <1>1, AppendIsConcat
<1>3. Coded(Enc, s) = Append(u, "%") /\ Append(u, "%") # <<>>
  BY <1>1, <1>2, EncodeIsCoded, AppendProperties
<1>4. s # <<>>
  BY <1>3, CodedEmpty
<1>5. PICK r \in Seq(Token), x \in Token : s = Append(r, x)
  BY <1>4, SequenceEmptyOrAppend
<1>6. Enc \in [Token -> Seq(Token)]
  BY EncPrefixCode DEF PrefixCode
<1>7. Coded(Enc, r) \in Seq(Token) /\ Coded(Enc, s) = Coded(Enc, r) \o Enc[x]
  BY <1>5, <1>6, CodedType, CodedAppend
<1>8. CASE x \notin Specials
  <2>1. Coded(Enc, r) \o <<x>> = Append(Coded(Enc, r), x)
    BY <1>7, AppendIsConcat
  <2>2. Append(Coded(Enc, r), x) = Append(u, "%")
    BY <1>3, <1>7, <1>8, <2>1, EncAt
  <2>3. x = "%"
    BY <1>1, <1>7, <2>2, AppendInjective
  <2> QED  BY <1>1, <1>8, <2>3
<1>9. CASE x \in Specials
  <2>1. URIComponent[x] \in Token /\ URIComponent[x] # "%"
    BY <1>1, <1>9, ComponentsAre
  <2>2. <<"%", URIComponent[x]>> = Append(<<"%">>, URIComponent[x]) /\ <<"%">> \in Seq(Token)
    BY <1>1
  <2>3. Coded(Enc, r) \o Append(<<"%">>, URIComponent[x])
            = Append(Coded(Enc, r) \o <<"%">>, URIComponent[x])
    BY <1>7, <2>1, <2>2
  <2>4. Append(Coded(Enc, r) \o <<"%">>, URIComponent[x]) = Append(u, "%")
    BY <1>3, <1>7, <1>9, <2>2, <2>3, EncAt
  <2>5. Coded(Enc, r) \o <<"%">> \in Seq(Token)
    BY <1>7, <2>2, ConcatProperties
  <2>6. URIComponent[x] = "%"
    BY <1>1, <2>1, <2>4, <2>5, AppendInjective
  <2> QED  BY <2>1, <2>6
<1> QED  BY <1>8, <1>9

\* and one without a "%" escaped nothing.
LEMMA EncodePlain ==
    \A s \in Seq(Token) : encode(s) \in Seq(Token \ {"%"}) => s \in Seq(Token \ Specials)
<1> DEFINE Plain == Token \ {"%"}
           Good == {s \in Seq(Token) : Coded(Enc, s) \in Seq(Plain) => s \in Seq(Token \ Specials)}
<1>1. Enc \in [Token -> Seq(Token)]
  BY EncPrefixCode DEF PrefixCode
<1>2. <<>> \in Good
  BY EmptySeq
<1>3. ASSUME NEW s \in Seq(Token), NEW x \in Token, s \in Good PROVE Append(s, x) \in Good
  <2> SUFFICES ASSUME Coded(Enc, Append(s, x)) \in Seq(Plain)
               PROVE  Append(s, x) \in Seq(Token \ Specials)
    BY AppendProperties
  <2>1. Coded(Enc, s) \o Enc[x] \in Seq(Plain) /\ Coded(Enc, s) \in Seq(Token)
    <3> HIDE DEF Plain
    <3>1. Coded(Enc, Append(s, x)) = Coded(Enc, s) \o Enc[x]
      BY <1>1, CodedAppend
    <3>2. Coded(Enc, s) \in Seq(Token)
      BY <1>1, CodedType
    <3> QED  BY <3>1, <3>2
  <2>2. Coded(Enc, s) \in Seq(Plain) /\ Enc[x] \in Seq(Plain)
    <3> HIDE DEF Plain
    <3>1. Enc[x] \in Seq(Token)
      BY <1>1
    <3> QED  BY <2>1, <3>1, ConcatParts
  <2>3. s \in Seq(Token \ Specials)
    BY <1>3, <2>2
  <2>4. x \notin Specials
    <3> SUFFICES ASSUME x \in Specials PROVE FALSE
      OBVIOUS
    <3>1. Enc[x] = <<"%", URIComponent[x]>>
      BY EncAt
    <3>2. Enc[x][1] = "%" /\ Len(Enc[x]) = 2
      BY <3>1
    <3>3. Enc[x][1] \in Plain
      <4> HIDE DEF Plain
      <4> QED  BY <2>2, <3>2, ElementOfSeq
    <3> QED  BY <3>2, <3>3
  <2> QED  BY <2>3, <2>4, AppendProperties
<1>4. Seq(Token) \subseteq Good
  <2> HIDE DEF Good
  <2> QED  BY <1>2, <1>3, SeqInduction
<1> QED  BY <1>4, EncodeIsCoded

-----------------------------------------------------------------------------
(* Escaped parts.                                                           *)
\* A sequence of symbols of U is one.
LEMMA SeqOf ==
    ASSUME NEW T, NEW U, NEW s \in Seq(T), \A i \in 1 .. Len(s) : s[i] \in U
    PROVE  s \in Seq(U)
BY LenProperties

\* What no part of a key holds: what ends the query, the headers, a name.
Structure == {{"%", "&", "="}, {"%", "&", "=", ","}}

\* A part is encoded when it holds a structural symbol or opens like one, and else kept.
LEMMA EscapedCases ==
    ASSUME NEW s \in Seq(Token), NEW str \in Structure
    PROVE  \/ Escaped(s, str) = encode(s) /\ s \notin Seq(Token \ Specials)
           \/ /\ Escaped(s, str) = s /\ s \in Seq(Token \ str)
              /\ s # <<>> => s[1] \notin {"{", "[", "\""}
<1>1. str \subseteq Specials
  BY ComponentsAre DEF Structure
<1>2. Len(s) \in Nat /\ DOMAIN s = 1 .. Len(s) /\ \A i \in 1 .. Len(s) : s[i] \in Token
  BY LenProperties, ElementOfSeq
<1>3. CASE \E i \in DOMAIN s : s[i] \in str
  <2>1. Escaped(s, str) = encode(s)
    BY <1>3 DEF Escaped
  <2>2. PICK i \in 1 .. Len(s) : s[i] \in Specials
    BY <1>1, <1>2, <1>3
  <2>3. s \notin Seq(Token \ Specials)
    BY <1>2, <2>2, ElementOfSeq
  <2> QED  BY <2>1, <2>3
<1>4. CASE s # <<>> /\ s[1] \in {"{", "[", "\""}
  <2>1. Escaped(s, str) = encode(s)
    BY <1>4 DEF Escaped
  <2>2. {"{", "[", "\""} \subseteq Specials
    BY ComponentsAre
  <2>3. s # <<>>
    BY <1>4
  <2>4. Len(s) # 0
    BY <2>3, EmptySeq
  <2>5. 1 \in 1 .. Len(s)
    BY <1>2, <2>4
  <2>6. 1 \in 1 .. Len(s) /\ s[1] \in Specials
    BY <1>4, <2>2, <2>5
  <2>7. s \notin Seq(Token \ Specials)
    BY <2>6, ElementOfSeq
  <2> QED  BY <2>1, <2>7
<1>5. CASE ~(\E i \in DOMAIN s : s[i] \in str) /\ ~(s # <<>> /\ s[1] \in {"{", "[", "\""})
  <2>1. Escaped(s, str) = s
    BY <1>5 DEF Escaped
  <2>2. \A i \in 1 .. Len(s) : s[i] \in Token \ str
    BY <1>2, <1>5
  <2>3. s \in Seq(Token \ str)
    BY <2>2, SeqOf
  <2> QED  BY <1>5, <2>1, <2>3
<1> QED  BY <1>3, <1>4, <1>5

\* No part loses anything.
LEMMA EscapedInjective ==
    ASSUME NEW str \in Structure
    PROVE  \A s, t \in Seq(Token) : Escaped(s, str) = Escaped(t, str) => s = t
<1>1. ASSUME NEW s \in Seq(Token), NEW t \in Seq(Token), encode(s) = t, t \in Seq(Token \ str),
             s \notin Seq(Token \ Specials)
      PROVE  FALSE
  <2>1. t \in Seq(Token \ {"%"})
    <3>1. "%" \in str
      BY DEF Structure
    <3>2. Len(t) \in Nat /\ \A i \in 1 .. Len(t) : t[i] \in Token \ str
      BY <1>1, ElementOfSeq, LenProperties
    <3> QED  BY <3>1, <3>2
  <2> QED  BY <1>1, <2>1, EncodePlain
<1> SUFFICES ASSUME NEW s \in Seq(Token), NEW t \in Seq(Token), Escaped(s, str) = Escaped(t, str)
             PROVE  s = t
  OBVIOUS
<1>2. \/ Escaped(s, str) = encode(s) /\ s \notin Seq(Token \ Specials)
      \/ Escaped(s, str) = s /\ s \in Seq(Token \ str)
  BY EscapedCases
<1>3. \/ Escaped(t, str) = encode(t) /\ t \notin Seq(Token \ Specials)
      \/ Escaped(t, str) = t /\ t \in Seq(Token \ str)
  BY EscapedCases
<1> QED  BY <1>1, <1>2, <1>3, EncodeInjective

\* A part holds none of the structure, does not start like JSON, and is
\* not the null of a bare parameter.
LEMMA EscapedPlain ==
    ASSUME NEW s \in Seq(Token), NEW str \in Structure
    PROVE  /\ Escaped(s, str) \in Seq(Token \ (str \ {"%"}))
           /\ Escaped(s, str) # KEY_NULL
           /\ Escaped(s, str) # <<>> => Escaped(s, str)[1] \notin {"{", "[", "\""}
<1> DEFINE e == Escaped(s, str)
<1>1. CASE e = encode(s)
  <2>1. encode(s) \in Seq(Token \ (Specials \ {"%"}))
    BY EncodeType
  <2>2. Len(e) \in Nat /\ \A i \in 1 .. Len(e) : e[i] \in Token \ (Specials \ {"%"})
    BY <1>1, <2>1, LenProperties, ElementOfSeq
  <2>3. str \subseteq Specials /\ {"{", "[", "\""} \subseteq Specials \ {"%"}
    BY ComponentsAre DEF Structure
  <2>4. \A i \in 1 .. Len(e) : e[i] \in Token \ (str \ {"%"})
    BY <2>2, <2>3
  <2>5. e \in Seq(Token \ (str \ {"%"}))
    BY <1>1, <2>1, <2>4, SeqOf
  <2>6. e # KEY_NULL
    <3>1. <<>> \in Seq(Token) /\ <<>> \o <<"%">> = <<"%">>
      OBVIOUS
    <3> QED  BY <1>1, <3>1, EncodeLast DEF KEY_NULL
  <2>7. e # <<>> => e[1] \notin {"{", "[", "\""}
    <3>1. e # <<>> => 1 \in 1 .. Len(e)
      BY <1>1, <2>1, <2>2, EmptySeq
    <3> QED  BY <2>2, <2>3, <3>1
  <2> QED  BY <2>5, <2>6, <2>7
<1>2. CASE e = s /\ s \in Seq(Token \ str) /\ (s # <<>> => s[1] \notin {"{", "[", "\""})
  <2>1. Len(s) \in Nat /\ \A i \in 1 .. Len(s) : s[i] \in Token \ str
    BY <1>2, LenProperties, ElementOfSeq
  <2>2. s \in Seq(Token \ (str \ {"%"}))
    BY <2>1, SeqOf
  <2>3. s # KEY_NULL
    <3>1. "%" \in str
      BY DEF Structure
    <3>2. s = <<"%">> => 1 \in 1 .. Len(s) /\ s[1] = "%"
      OBVIOUS
    <3> QED  BY <2>1, <3>1, <3>2 DEF KEY_NULL
  <2> QED  BY <1>2, <2>2, <2>3
<1> QED  BY <1>1, <1>2, EscapedCases

-----------------------------------------------------------------------------
(* JSON.                                                                    *)
QEnc == [t \in Token |-> QuotedToken(t)]

\* The code of a symbol, alone and in front of others.
LEMMA QEncAt ==
    ASSUME NEW x \in Token
    PROVE  /\ x \in {"\"", "\\"} => QEnc[x] = <<"\\", x>>
           /\ x \notin {"\"", "\\"} => QEnc[x] = <<x>>
           /\ \A u \in Seq(Token) :
                 /\ x \in {"\"", "\\"} => QEnc[x] \o u = Ext!Cons("\\", Ext!Cons(x, u))
                 /\ x \notin {"\"", "\\"} => QEnc[x] \o u = Ext!Cons(x, u)
<1>1. QEnc[x] = IF x \in {"\"", "\\"} THEN <<"\\", x>> ELSE <<x>>
  BY DEF QEnc, QuotedToken
<1>2. "\\" \in Token
  BY DEF Token
<1>3. ASSUME NEW u \in Seq(Token), x \in {"\"", "\\"}
      PROVE  QEnc[x] \o u = Ext!Cons("\\", Ext!Cons(x, u))
  <2>1. <<"\\", x>> \o u = Ext!Cons("\\", Ext!Cons(x, u))
    BY <1>2, TwoTokens
  <2> QED  BY <1>1, <1>3, <2>1
<1>4. ASSUME NEW u \in Seq(Token), x \notin {"\"", "\\"}
      PROVE  QEnc[x] \o u = Ext!Cons(x, u)
  BY <1>1, <1>4, OneToken
<1> QED  BY <1>1, <1>3, <1>4

\* ConsFacts, as a formula.
LEMMA ConsEqual ==
    ASSUME NEW T
    PROVE  \A a, b \in T, u, v \in Seq(T) : Ext!Cons(a, u) = Ext!Cons(b, v) => a = b /\ u = v
BY ConsFacts

\* Those escapes are a prefix code that never begins with a quote.
LEMMA QEncPrefixCode == PrefixCode(Token, Token, {"\""}, QEnc)
<1>1. "\\" \in Token
  BY DEF Token
<1>2. QEnc \in [Token -> Seq(Token)] /\ \A x \in Token : QEnc[x] # <<>> /\ QEnc[x][1] # "\""
  <2>1. ASSUME NEW x \in Token
        PROVE  QEnc[x] \in Seq(Token) /\ QEnc[x] # <<>> /\ QEnc[x][1] # "\""
    <3>1. CASE x \in {"\"", "\\"}
      <4>1. QEnc[x] = <<"\\", x>>
        BY <3>1, QEncAt
      <4>2. "\\" # "\""
        OBVIOUS
      <4> HIDE DEF QEnc
      <4>3. <<"\\", x>> \in Seq(Token) /\ <<"\\", x>> # <<>> /\ <<"\\", x>>[1] = "\\"
        BY <1>1
      <4>4. QEnc[x] \in Seq(Token) /\ QEnc[x] # <<>>
        BY <4>1, <4>3
      <4>5. QEnc[x][1] # "\""
        BY <4>1, <4>2, <4>3
      <4> QED  BY <4>4, <4>5
    <3>2. CASE x \notin {"\"", "\\"}
      <4>1. QEnc[x] = <<x>>
        BY <3>2, QEncAt
      <4>2. x # "\""
        BY <3>2
      <4>3. <<x>> \in Seq(Token) /\ <<x>> # <<>> /\ <<x>>[1] = x
        OBVIOUS
      <4> HIDE DEF QEnc
      <4>4. QEnc[x] \in Seq(Token) /\ QEnc[x] # <<>>
        BY <4>1, <4>3
      <4>5. QEnc[x][1] # "\""
        BY <4>1, <4>2, <4>3
      <4> QED  BY <4>4, <4>5
    <3> QED  BY <3>1, <3>2
  <2> QED  BY <2>1 DEF QEnc
<1>3. ASSUME NEW x \in Token, NEW y \in Token, NEW u \in Seq(Token), NEW v \in Seq(Token),
             QEnc[x] \o u = QEnc[y] \o v
      PROVE  u = v /\ x = y
  <2>1. \A a, b \in Token, p, q \in Seq(Token) : Ext!Cons(a, p) = Ext!Cons(b, q) => a = b /\ p = q
    BY ConsEqual
  <2>2. CASE x \notin {"\"", "\\"} /\ y \notin {"\"", "\\"}
    <3>1. QEnc[x] \o u = Ext!Cons(x, u)
      BY <2>2, QEncAt
    <3>2. QEnc[y] \o v = Ext!Cons(y, v)
      BY <2>2, QEncAt
    <3> QED  BY <1>3, <2>1, <3>1, <3>2
  <2>3. CASE x \in {"\"", "\\"} /\ y \in {"\"", "\\"}
    <3>1. QEnc[x] \o u = Ext!Cons("\\", Ext!Cons(x, u))
      BY <2>3, QEncAt
    <3>2. QEnc[y] \o v = Ext!Cons("\\", Ext!Cons(y, v))
      BY <2>3, QEncAt
    <3>3. Ext!Cons(x, u) \in Seq(Token) /\ Ext!Cons(y, v) \in Seq(Token)
      BY ConsFacts
    <3>4. Ext!Cons("\\", Ext!Cons(x, u)) = Ext!Cons("\\", Ext!Cons(y, v))
      BY <1>3, <3>1, <3>2
    <3>5. Ext!Cons(x, u) = Ext!Cons(y, v)
      BY <1>1, <2>1, <3>3, <3>4
    <3> QED  BY <2>1, <3>5
  <2>4. ASSUME NEW a \in Token, NEW b \in Token, NEW p \in Seq(Token), NEW q \in Seq(Token),
               a \in {"\"", "\\"}, b \notin {"\"", "\\"}
        PROVE  QEnc[a] \o p # QEnc[b] \o q
    <3>1. QEnc[a] \o p = Ext!Cons("\\", Ext!Cons(a, p))
      BY <2>4, QEncAt
    <3>2. QEnc[b] \o q = Ext!Cons(b, q)
      BY <2>4, QEncAt
    <3>3. Ext!Cons(a, p) \in Seq(Token)
      BY ConsFacts
    <3>4. Ext!Cons("\\", Ext!Cons(a, p)) # Ext!Cons(b, q)
      BY <1>1, <2>1, <2>4, <3>3
    <3> QED  BY <3>1, <3>2, <3>4
  <2> QED  BY <1>3, <2>2, <2>3, <2>4
<1> QED  BY <1>2, <1>3 DEF PrefixCode

\* A quoted string ends where its quotes say.
DQ == "\""
Quotes == {DQ}
Body(s) == Coded(QEnc, s)
\* It is what Quoted writes.
LEMMA QuotedIs ==
    ASSUME NEW s \in Seq(Token)
    PROVE  /\ Body(s) \in Seq(Token)
           /\ Quoted(s) = <<DQ>> \o Body(s) \o <<DQ>>
<1>1. \A i \in DOMAIN s : QuotedToken(s[i]) = QEnc[s[i]]
  BY DEF QEnc
<1>2. [i \in DOMAIN s |-> QuotedToken(s[i])] = [i \in DOMAIN s |-> QEnc[s[i]]]
  BY <1>1
<1>3. QEnc \in [Token -> Seq(Token)]
  BY QEncPrefixCode DEF PrefixCode
<1>4. Body(s) \in Seq(Token)
  BY <1>3, CodedType DEF Body
<1> QED  BY <1>2, <1>4 DEF Quoted, Coded, Body, DQ

\* Concatenation of tokens is associative.
LEMMA CatAssoc ==
    \A a, b, c \in Seq(Token) : Cat(a, b) \in Seq(Token) /\ Cat(Cat(a, b), c) = Cat(a, Cat(b, c))
<1>1. \A a, b, c \in Seq(Token) : (a \o b) \o c = a \o (b \o c)
  <2>1. Associative(Seq(Token))
    BY Assoc
  <2> QED  BY <2>1 DEF Associative
<1>2. \A a, b \in Seq(Token) : a \o b \in Seq(Token)
  BY ConcatProperties
<1> QED  BY <1>1, <1>2 DEF Cat

\* A JSON string in front of others.
LEMMA QuotedPrefix ==
    ASSUME NEW s \in Seq(Token), NEW u \in Seq(Token)
    PROVE  /\ Quoted(s) \in Seq(Token)
           /\ Ext!Cons(DQ, u) \in Ends(Token, Quotes)
           /\ Quoted(s) \o u = Ext!Cons(DQ, Body(s) \o Ext!Cons(DQ, u))
           /\ Body(s) \o Ext!Cons(DQ, u) \in Seq(Token)
<1>1. Body(s) \in Seq(Token) /\ Quoted(s) = <<DQ>> \o Body(s) \o <<DQ>>
  BY QuotedIs
<1>2. DQ \in Token
  BY DEF Token, DQ
<1>3. DQ \in Token /\ <<DQ>> \in Seq(Token)
  BY <1>2
<1>4. Ext!Cons(DQ, u) \in Ends(Token, Quotes) /\ Ext!Cons(DQ, u) \in Seq(Token)
  BY <1>3, ConsFacts DEF Ends, Quotes
<1> DEFINE q == <<DQ>>
           b == Body(s)
<1>5. q \in Seq(Token) /\ b \in Seq(Token)
  BY <1>1, <1>3
<1>6. Quoted(s) = Cat(Cat(q, b), q)
  BY <1>1 DEF Cat
<1>7. \A w : Cat(q, w) = Ext!Cons(DQ, w)
  BY OneToken DEF Cat
<1> HIDE DEF q, b
<1>8. /\ Cat(q, b) \in Seq(Token) /\ Cat(q, u) \in Seq(Token)
      /\ Cat(Cat(q, b), q) \in Seq(Token) /\ Cat(b, Cat(q, u)) \in Seq(Token)
  BY <1>5, CatAssoc
<1>9. Cat(Cat(Cat(q, b), q), u) = Cat(q, Cat(b, Cat(q, u)))
  BY <1>5, <1>8, CatAssoc
<1>10. Quoted(s) \in Seq(Token) /\ Cat(b, Ext!Cons(DQ, u)) \in Seq(Token)
  BY <1>6, <1>7, <1>8
<1>11. Cat(Quoted(s), u) = Ext!Cons(DQ, Cat(b, Ext!Cons(DQ, u)))
  BY <1>6, <1>7, <1>9
<1> QED  BY <1>4, <1>10, <1>11 DEF b, Cat

\* ConsFacts, of tokens.
LEMMA ConsHead ==
    \A a \in Token, u \in Seq(Token) :
        Ext!Cons(a, u) \in Seq(Token) /\ Ext!Cons(a, u) # <<>> /\ Ext!Cons(a, u)[1] = a
BY ConsFacts

\* A JSON string tells what it quotes, and where it ends.
LEMMA QuotedDecodes ==
    \A s, t, u, v \in Seq(Token) : Cat(Quoted(s), u) = Cat(Quoted(t), v) => s = t /\ u = v
<1> SUFFICES ASSUME NEW s \in Seq(Token), NEW t \in Seq(Token),
                    NEW u \in Seq(Token), NEW v \in Seq(Token),
                    Quoted(s) \o u = Quoted(t) \o v
             PROVE  s = t /\ u = v
  BY DEF Cat
<1>1. DQ \in Token
  BY DEF Token, DQ
<1>2. \A a, b \in Token, p, q \in Seq(Token) : Ext!Cons(a, p) = Ext!Cons(b, q) => a = b /\ p = q
  BY ConsEqual
<1>3. /\ Ext!Cons(DQ, u) \in Ends(Token, Quotes) /\ Body(s) \o Ext!Cons(DQ, u) \in Seq(Token)
      /\ Quoted(s) \o u = Ext!Cons(DQ, Body(s) \o Ext!Cons(DQ, u))
  BY QuotedPrefix
<1>4. /\ Ext!Cons(DQ, v) \in Ends(Token, Quotes) /\ Body(t) \o Ext!Cons(DQ, v) \in Seq(Token)
      /\ Quoted(t) \o v = Ext!Cons(DQ, Body(t) \o Ext!Cons(DQ, v))
  BY QuotedPrefix
<1>5. Ext!Cons(DQ, Body(s) \o Ext!Cons(DQ, u)) = Ext!Cons(DQ, Body(t) \o Ext!Cons(DQ, v))
  BY <1>3, <1>4
<1>6. Body(s) \o Ext!Cons(DQ, u) = Body(t) \o Ext!Cons(DQ, v)
  <2> DEFINE b == Body(s) \o Ext!Cons(DQ, u)
             c == Body(t) \o Ext!Cons(DQ, v)
  <2>1. b \in Seq(Token) /\ c \in Seq(Token) /\ Ext!Cons(DQ, b) = Ext!Cons(DQ, c)
    BY <1>3, <1>4, <1>5
  <2> HIDE DEF b, c
  <2>2. b = c
    BY <1>1, <1>2, <2>1
  <2> QED  BY <2>2 DEF b, c
<1>7. Decodes(Token, Token, Quotes, QEnc)
  BY QEncPrefixCode, PrefixDecodes DEF DQ, Quotes
<1>8. s = t /\ Ext!Cons(DQ, u) = Ext!Cons(DQ, v)
  <2>1. Cat(Coded(QEnc, s), Ext!Cons(DQ, u)) = Cat(Coded(QEnc, t), Ext!Cons(DQ, v))
    BY <1>6 DEF Body, Cat
  <2> QED  BY <1>3, <1>4, <1>7, <2>1 DEF Decodes
<1> QED  BY <1>1, <1>2, <1>8

\* A value within an object or an array: a string or a null.
ValueStr == {"%", "&", "="}
json(s) == IF s = Null THEN <<"null">> ELSE Quoted(escapeKeyValue(s))
Leaf == Seq(Token) \union {Null}

\* An escaped value holds no separator of the query.
LEMMA ValueType ==
    ASSUME NEW s \in Seq(Token)
    PROVE  escapeKeyValue(s) \in Seq(Token) /\ escapeKeyValue(s) \in Seq(Token \ {"&", "="})
<1>1. ValueStr \in Structure
  BY DEF Structure, ValueStr
<1>2. Escaped(s, ValueStr) \in Seq(Token \ (ValueStr \ {"%"}))
  BY <1>1, EscapedPlain
<1>3. ValueStr \ {"%"} = {"&", "="}
  BY DEF ValueStr
<1>4. escapeKeyValue(s) \in Seq(Token \ {"&", "="})
  BY <1>2, <1>3 DEF escapeKeyValue, ValueStr
<1>5. /\ Len(escapeKeyValue(s)) \in Nat
      /\ \A i \in 1 .. Len(escapeKeyValue(s)) : escapeKeyValue(s)[i] \in Token
  BY <1>4, LenProperties, ElementOfSeq
<1>6. escapeKeyValue(s) \in Seq(Token)
  BY <1>4, <1>5, SeqOf
<1> QED  BY <1>4, <1>6

\* Nor does a value in JSON, which opens with a quote or is null.
LEMMA LeafType ==
    ASSUME NEW s \in Leaf
    PROVE  /\ s # Null => /\ escapeKeyValue(s) \in Seq(Token)
                           /\ escapeKeyValue(s) \in Seq(Token \ {"&", "="})
           /\ json(s) \in Seq(Token)
           /\ json(s) # <<>> /\ json(s)[1] \in {"null", DQ}
<1>1. DQ \in Token /\ "null" \in Token
  BY DEF Token, DQ
<1>2. CASE s = Null
  <2>1. json(s) = <<"null">>
    BY <1>2 DEF json
  <2>2. <<"null">> \in Seq(Token) /\ <<"null">> # <<>> /\ <<"null">>[1] = "null"
    BY <1>1
  <2> QED  BY <1>2, <2>1, <2>2
<1>3. CASE s # Null
  <2>1. escapeKeyValue(s) \in Seq(Token \ {"&", "="})
    BY <1>3, ValueType DEF Leaf
  <2>2. escapeKeyValue(s) \in Seq(Token)
    BY <1>3, ValueType DEF Leaf
  <2>3. json(s) = Quoted(escapeKeyValue(s))
    BY <1>3 DEF json
  <2>4. <<>> \in Seq(Token)
    OBVIOUS
  <2>5. /\ Quoted(escapeKeyValue(s)) \in Seq(Token)
        /\ Quoted(escapeKeyValue(s)) \o <<>>
               = Ext!Cons(DQ, Body(escapeKeyValue(s)) \o Ext!Cons(DQ, <<>>))
        /\ Body(escapeKeyValue(s)) \o Ext!Cons(DQ, <<>>) \in Seq(Token)
    BY <2>2, <2>4, QuotedPrefix
  <2>6. \A a \in Seq(Token) : a \o <<>> = a
    BY NoRest
  <2>7. json(s) = Ext!Cons(DQ, Body(escapeKeyValue(s)) \o Ext!Cons(DQ, <<>>))
    BY <2>3, <2>5, <2>6
  <2>8. json(s) # <<>> /\ json(s)[1] = DQ
    BY <1>1, <2>5, <2>7, ConsHead
  <2> QED  BY <1>3, <2>1, <2>2, <2>3, <2>5, <2>8
<1> QED  BY <1>2, <1>3

\* Two values are escaped alike only if they are one.
LEMMA EscapeKeyValueInjective ==
    \A s, t \in Seq(Token) : escapeKeyValue(s) = escapeKeyValue(t) => s = t
<1>1. ValueStr \in Structure
  BY DEF Structure, ValueStr
<1>2. \A s, t \in Seq(Token) : Escaped(s, ValueStr) = Escaped(t, ValueStr) => s = t
  BY <1>1, EscapedInjective
<1> QED  BY <1>2 DEF escapeKeyValue, ValueStr

\* A concatenation begins as its first part does.
LEMMA FirstOf ==
    ASSUME NEW T, NEW a \in Seq(T), NEW u \in Seq(T), a # <<>>
    PROVE  a \o u # <<>> /\ (a \o u)[1] = a[1]
<1>1. 1 \in 1 .. Len(a) /\ Len(a) \in Nat /\ Len(u) \in Nat
  BY EmptySeq, LenProperties
<1>2. (a \o u)[1] = a[1]
  BY <1>1, ConcatProperties
<1>3. a \o u # <<>>
  BY ConcatSimplifications
<1> QED  BY <1>2, <1>3

\* A value in JSON tells the value, and where it ends.
LEMMA JsonDecodes ==
    \A s, t \in Leaf, u, v \in Seq(Token) : Cat(json(s), u) = Cat(json(t), v) => s = t /\ u = v
<1> SUFFICES ASSUME NEW s \in Leaf, NEW t \in Leaf, NEW u \in Seq(Token), NEW v \in Seq(Token),
                    json(s) \o u = json(t) \o v
             PROVE  s = t /\ u = v
  BY DEF Cat
<1>1. ASSUME NEW a \in Leaf, NEW b \in Leaf, NEW p \in Seq(Token), NEW q \in Seq(Token),
             a = Null, b # Null
      PROVE  json(a) \o p # json(b) \o q
  <2>1. /\ json(a) \in Seq(Token) /\ json(a) # <<>> /\ json(a)[1] = "null"
    BY <1>1, LeafType DEF json
  <2>2. json(b) \in Seq(Token) /\ json(b) # <<>>
    BY LeafType
  <2>3. b \in Seq(Token) /\ escapeKeyValue(b) \in Seq(Token) /\ json(b) = Quoted(escapeKeyValue(b))
    BY <1>1, LeafType DEF json, Leaf
  <2>4. /\ json(b) \o q = Ext!Cons(DQ, Body(escapeKeyValue(b)) \o Ext!Cons(DQ, q))
        /\ Body(escapeKeyValue(b)) \o Ext!Cons(DQ, q) \in Seq(Token)
    <3> DEFINE e == escapeKeyValue(b)
    <3>1. e \in Seq(Token) /\ json(b) = Quoted(e)
      BY <2>3
    <3> HIDE DEF e
    <3>2. /\ Quoted(e) \o q = Ext!Cons(DQ, Body(e) \o Ext!Cons(DQ, q))
          /\ Body(e) \o Ext!Cons(DQ, q) \in Seq(Token)
      BY <3>1, QuotedPrefix
    <3> QED  BY <3>1, <3>2 DEF e
  <2>5. DQ \in Token
    BY DEF Token, DQ
  <2>6. (json(b) \o q)[1] = DQ
    BY <2>4, <2>5, ConsHead
  <2>7. (json(a) \o p)[1] = "null"
    BY <2>1, FirstOf
  <2>8. "null" # DQ
    BY DEF DQ
  <2> QED  BY <2>6, <2>7, <2>8
<1>2. CASE s = Null /\ t = Null
  <2>1. json(s) = <<"null">> /\ json(t) = <<"null">>
    BY <1>2 DEF json
  <2>2. Ext!Cons("null", u) = Ext!Cons("null", v)
    BY <2>1, OneToken
  <2>3. "null" \in Token
    BY DEF Token
  <2> QED  BY <1>2, <2>2, <2>3, ConsEqual
<1>3. CASE s # Null /\ t # Null
  <2>1. /\ s \in Seq(Token) /\ escapeKeyValue(s) \in Seq(Token)
        /\ json(s) = Quoted(escapeKeyValue(s))
    BY <1>3, LeafType DEF json, Leaf
  <2>2. /\ t \in Seq(Token) /\ escapeKeyValue(t) \in Seq(Token)
        /\ json(t) = Quoted(escapeKeyValue(t))
    BY <1>3, LeafType DEF json, Leaf
  <2>3. Cat(Quoted(escapeKeyValue(s)), u) = Cat(Quoted(escapeKeyValue(t)), v)
    BY <2>1, <2>2 DEF Cat
  <2>4. escapeKeyValue(s) = escapeKeyValue(t) /\ u = v
    BY <2>1, <2>2, <2>3, QuotedDecodes
  <2> QED  BY <2>1, <2>2, <2>4, EscapeKeyValueInjective
<1> QED  BY <1>1, <1>2, <1>3

-----------------------------------------------------------------------------
(* Lists.                                                                   *)
COMMA == ","
Parts(X, g) == g \in [X -> Seq(Token)] /\ \A x \in X : g[x] # <<>>
PartsOf(g, s) == [i \in DOMAIN s |-> g[s[i]]]
Separated(g, s) == [i \in DOMAIN s |-> IF i = 1 THEN g[s[i]] ELSE <<COMMA>> \o g[s[i]]]
Comma(g) == [x \in DOMAIN g |-> <<COMMA>> \o g[x]]

\* Joined, of the items of a list.
LEMMA JoinedIs ==
    ASSUME NEW g, NEW s PROVE Joined(PartsOf(g, s)) = Ext!FlattenSeq(Separated(g, s))
<1>1. DOMAIN PartsOf(g, s) = DOMAIN s /\ \A i \in DOMAIN s : PartsOf(g, s)[i] = g[s[i]]
  BY DEF PartsOf
<1>2. [i \in DOMAIN PartsOf(g, s) |->
          IF i = 1 THEN PartsOf(g, s)[i] ELSE <<COMMA>> \o PartsOf(g, s)[i]] = Separated(g, s)
  BY <1>1 DEF Separated
<1> QED  BY <1>2 DEF Joined, COMMA

\* A function on 1 .. n is a sequence.
LEMMA FunctionSeq ==
    ASSUME NEW T, NEW n \in Nat, NEW f, DOMAIN f = 1 .. n, f = [i \in DOMAIN f |-> f[i]],
           \A i \in 1 .. n : f[i] \in T
    PROVE  f \in Seq(T) /\ Len(f) = n
<1>1. [i \in 1 .. n |-> f[i]] \in [1 .. n -> T]
  OBVIOUS
<1> QED  BY <1>1

\* An item more has its comma unless it is the first.
LEMMA SeparatedAppend ==
    ASSUME NEW X, NEW g \in [X -> Seq(Token)], NEW s \in Seq(X), NEW x \in X
    PROVE  /\ Separated(g, s) \in Seq(Seq(Token))
           /\ Separated(g, Append(s, x))
                  = Append(Separated(g, s), IF s = <<>> THEN g[x] ELSE Comma(g)[x])
           /\ Comma(g)[x] = <<COMMA>> \o g[x] /\ Comma(g) \in [X -> Seq(Token)]
<1> DEFINE last == IF s = <<>> THEN g[x] ELSE Comma(g)[x]
           a == Append(s, x)
           l == Separated(g, a)
           m == Separated(g, s)
           r == Append(m, last)
<1>1. COMMA \in Token /\ <<COMMA>> \in Seq(Token)
  <2>1. COMMA \in Token
    BY DEF Token, COMMA
  <2> QED  BY <2>1
<1>2. Len(s) \in Nat /\ DOMAIN s = 1 .. Len(s) /\ \A i \in 1 .. Len(s) : s[i] \in X
  BY LenProperties, ElementOfSeq
<1>3. \A y \in X : g[y] \in Seq(Token) /\ <<COMMA>> \o g[y] \in Seq(Token)
  <2>1. \A y \in X : g[y] \in Seq(Token)
    OBVIOUS
  <2> QED  BY <1>1, <2>1, ConcatProperties
<1>4. Comma(g) \in [X -> Seq(Token)] /\ \A y \in X : Comma(g)[y] = <<COMMA>> \o g[y]
  BY <1>3 DEF Comma
<1>5. /\ a \in Seq(X) /\ Len(a) = Len(s) + 1 /\ a[Len(s) + 1] = x
      /\ \A i \in 1 .. Len(s) : a[i] = s[i]
  BY AppendProperties
<1>6. DOMAIN a = 1 .. Len(s) + 1 /\ \A i \in 1 .. Len(s) + 1 : a[i] \in X
  BY <1>5, LenProperties, ElementOfSeq
<1>7. /\ m \in Seq(Seq(Token)) /\ Len(m) = Len(s)
      /\ \A i \in 1 .. Len(s) : m[i] = IF i = 1 THEN g[s[i]] ELSE <<COMMA>> \o g[s[i]]
  <2>1. DOMAIN m = 1 .. Len(s) /\ m = [i \in DOMAIN m |-> m[i]]
    BY <1>2 DEF Separated
  <2>2. \A i \in 1 .. Len(s) : m[i] = IF i = 1 THEN g[s[i]] ELSE <<COMMA>> \o g[s[i]]
    BY <1>2 DEF Separated
  <2>3. \A i \in 1 .. Len(s) : m[i] \in Seq(Token)
    BY <1>2, <1>3, <2>2
  <2> HIDE DEF m
  <2>4. m \in Seq(Seq(Token)) /\ Len(m) = Len(s)
    BY <1>2, <2>1, <2>3, FunctionSeq
  <2> QED  BY <2>2, <2>4
<1> HIDE DEF a
<1>8. /\ l \in Seq(Seq(Token)) /\ Len(l) = Len(s) + 1
      /\ \A i \in 1 .. Len(s) + 1 : l[i] = IF i = 1 THEN g[a[i]] ELSE <<COMMA>> \o g[a[i]]
  <2>1. DOMAIN l = 1 .. Len(s) + 1 /\ l = [i \in DOMAIN l |-> l[i]]
    BY <1>6 DEF Separated
  <2>2. \A i \in 1 .. Len(s) + 1 : l[i] = IF i = 1 THEN g[a[i]] ELSE <<COMMA>> \o g[a[i]]
    BY <1>6 DEF Separated
  <2>3. \A i \in 1 .. Len(s) + 1 : l[i] \in Seq(Token)
    BY <1>3, <1>6, <2>2
  <2> HIDE DEF l
  <2>4. Len(s) + 1 \in Nat
    BY <1>2
  <2>5. l \in Seq(Seq(Token)) /\ Len(l) = Len(s) + 1
    BY <2>1, <2>3, <2>4, FunctionSeq
  <2> QED  BY <2>2, <2>5
<1> HIDE DEF m, l
<1>9. last \in Seq(Token)
  BY <1>3, <1>4
<1> HIDE DEF last
<1>10. /\ r \in Seq(Seq(Token)) /\ Len(r) = Len(s) + 1 /\ r[Len(s) + 1] = last
      /\ \A i \in 1 .. Len(s) : r[i] = m[i]
  BY <1>7, <1>9, AppendProperties
<1> HIDE DEF r
<1>11. ASSUME NEW i \in 1 .. Len(s) + 1 PROVE l[i] = r[i]
  <2>1. CASE i = Len(s) + 1
    <3>1. (s = <<>>) <=> (i = 1)
      <4>1. (s = <<>>) <=> (Len(s) = 0)
        BY EmptySeq
      <4> QED  BY <1>2, <2>1, <4>1
    <3>2. last = IF i = 1 THEN g[x] ELSE <<COMMA>> \o g[x]
      BY <1>4, <3>1 DEF last
    <3> QED  BY <1>5, <1>8, <1>10, <2>1, <3>2
  <2>2. CASE i # Len(s) + 1
    <3>1. i \in 1 .. Len(s)
      BY <1>2, <2>2
    <3>2. a[i] = s[i] /\ r[i] = m[i]
      BY <1>5, <1>10, <3>1
    <3>3. l[i] = IF i = 1 THEN g[s[i]] ELSE <<COMMA>> \o g[s[i]]
      BY <1>8, <3>2
    <3>4. m[i] = IF i = 1 THEN g[s[i]] ELSE <<COMMA>> \o g[s[i]]
      BY <1>7, <3>1
    <3> QED  BY <3>2, <3>3, <3>4
  <2> QED  BY <2>1, <2>2
<1>12. l = r
  BY <1>8, <1>10, <1>11, SeqEqual
<1> QED  BY <1>4, <1>7, <1>12 DEF l, m, a, r, last

\* A list is its items, a comma before each, but for the first comma.
LEMMA JoinedIsCoded ==
    ASSUME NEW X, NEW g, Parts(X, g)
    PROVE  \A s \in Seq(X) :
              /\ Joined(PartsOf(g, s)) \in Seq(Token)
              /\ s # <<>> => /\ Joined(PartsOf(g, s)) # <<>>
                             /\ Ext!Cons(COMMA, Joined(PartsOf(g, s))) = Coded(Comma(g), s)
<1> USE DEF Parts
<1> DEFINE J(s) == Ext!FlattenSeq(Separated(g, s))
           Good == {s \in Seq(X) :
                       /\ J(s) \in Seq(Token)
                       /\ s # <<>> => J(s) # <<>> /\ Ext!Cons(COMMA, J(s)) = Coded(Comma(g), s)}
<1>1. COMMA \in Token /\ <<COMMA>> \in Seq(Token)
  <2>1. COMMA \in Token
    BY DEF Token, COMMA
  <2> QED  BY <2>1
<1>2. <<>> \in Good
  <2>1. Separated(g, <<>>) = <<>>
    BY DEF Separated
  <2>2. J(<<>>) = <<>>
    BY <2>1, FlattenEmpty
  <2>3. <<>> \in Seq(X) /\ <<>> \in Seq(Token)
    OBVIOUS
  <2> HIDE DEF J
  <2> QED  BY <2>2, <2>3
<1>3. \A u, v, w \in Seq(Token) : (u \o v) \o w = u \o (v \o w)
  <2>1. Associative(Seq(Token))
    BY Assoc
  <2> QED  BY <2>1 DEF Associative
<1>4. ASSUME NEW s \in Seq(X), NEW x \in X, s \in Good PROVE Append(s, x) \in Good
  <2> DEFINE last == IF s = <<>> THEN g[x] ELSE Comma(g)[x]
  <2>1. /\ Separated(g, s) \in Seq(Seq(Token))
        /\ Separated(g, Append(s, x)) = Append(Separated(g, s), last)
        /\ Comma(g)[x] = <<COMMA>> \o g[x] /\ Comma(g) \in [X -> Seq(Token)]
    BY SeparatedAppend
  <2>2. g[x] \in Seq(Token) /\ g[x] # <<>> /\ Comma(g)[x] \in Seq(Token)
    BY <2>1
  <2>3. Comma(g)[x] # <<>>
    BY <1>1, <2>1, <2>2, ConcatSimplifications
  <2>4. last \in Seq(Token) /\ last # <<>>
    BY <2>2, <2>3
  <2>5. J(s) \in Seq(Token)
    BY <1>4
  <2>6. J(Append(s, x)) = J(s) \o last
    <3> HIDE DEF last
    <3> QED  BY <2>1, <2>4, FlattenAppend
  <2>7. J(s) \o last \in Seq(Token) /\ J(s) \o last # <<>>
    <3> HIDE DEF last, J
    <3> QED  BY <2>4, <2>5, ConcatProperties, ConcatSimplifications
  <2>8. Append(s, x) \in Seq(X)
    BY AppendProperties
  <2>9. Coded(Comma(g), Append(s, x)) = Coded(Comma(g), s) \o Comma(g)[x]
    BY <2>1, CodedAppend
  <2>10. Ext!Cons(COMMA, J(Append(s, x))) = Coded(Comma(g), Append(s, x))
    <3>1. CASE s = <<>>
      <4>1. J(s) = <<>>
        BY <3>1, FlattenEmpty DEF Separated
      <4>2. <<>> \o g[x] = g[x] /\ <<>> \o Comma(g)[x] = Comma(g)[x]
        BY <2>2, ConcatEmptySeq
      <4>3. J(Append(s, x)) = g[x]
        <5> HIDE DEF J
        <5> QED  BY <2>6, <3>1, <4>1, <4>2
      <4>4. Coded(Comma(g), s) = <<>>
        BY <3>1, CodedEmpty
      <4>5. Coded(Comma(g), Append(s, x)) = Comma(g)[x]
        BY <2>9, <4>2, <4>4
      <4>6. Ext!Cons(COMMA, g[x]) = <<COMMA>> \o g[x]
        BY OneToken
      <4> HIDE DEF J
      <4> QED  BY <2>1, <4>3, <4>5, <4>6
    <3>2. CASE s # <<>>
      <4>1. Ext!Cons(COMMA, J(s)) = Coded(Comma(g), s) /\ last = Comma(g)[x]
        BY <1>4, <3>2
      <4> HIDE DEF J, last
      <4>2. (<<COMMA>> \o J(s)) \o Comma(g)[x] = <<COMMA>> \o (J(s) \o Comma(g)[x])
        BY <1>1, <1>3, <2>2, <2>5
      <4>3. Ext!Cons(COMMA, J(s)) = <<COMMA>> \o J(s)
            /\ Ext!Cons(COMMA, J(s) \o Comma(g)[x]) = <<COMMA>> \o (J(s) \o Comma(g)[x])
        BY OneToken
      <4>4. J(Append(s, x)) = J(s) \o Comma(g)[x]
        BY <2>6, <4>1
      <4> QED  BY <2>9, <4>1, <4>2, <4>3, <4>4
    <3> QED  BY <3>1, <3>2
  <2> HIDE DEF J
  <2> QED  BY <2>6, <2>7, <2>8, <2>10
<1>5. Seq(X) \subseteq Good
  <2> HIDE DEF Good
  <2> QED  BY <1>2, <1>4, SeqInduction
<1> QED  BY <1>5, JoinedIs

\* Two joins are equal only if the lists are, when that code tells.
LEMMA JoinedInjective ==
    ASSUME NEW X, NEW g, Parts(X, g),
           \A s, t \in Seq(X) : Coded(Comma(g), s) = Coded(Comma(g), t) => s = t
    PROVE  \A s, t \in Seq(X) : Joined(PartsOf(g, s)) = Joined(PartsOf(g, t)) => s = t
<1> SUFFICES ASSUME NEW s \in Seq(X), NEW t \in Seq(X),
                    Joined(PartsOf(g, s)) = Joined(PartsOf(g, t))
             PROVE  s = t
  OBVIOUS
<1>1. \A q \in Seq(X) :
         q # <<>> => /\ Joined(PartsOf(g, q)) # <<>>
                     /\ Ext!Cons(COMMA, Joined(PartsOf(g, q))) = Coded(Comma(g), q)
  BY JoinedIsCoded
<1>2. Joined(PartsOf(g, <<>>)) = <<>>
  <2>1. Separated(g, <<>>) = <<>>
    BY DEF Separated
  <2> QED  BY <2>1, JoinedIs, FlattenEmpty
<1>3. s = <<>> <=> t = <<>>
  BY <1>1, <1>2
<1>4. CASE s # <<>> /\ t # <<>>
  <2>1. Coded(Comma(g), s) = Coded(Comma(g), t)
    BY <1>1, <1>4
  <2> QED  BY <2>1
<1> QED  BY <1>3, <1>4

-----------------------------------------------------------------------------
(* Objects and arrays.                                                      *)
Named == [name : Seq(Token) \ {Null}, value : Leaf]
Unnamed == [name : {Null}, value : Leaf]
Fields == Seq(Named) \union Seq(Unnamed)
field(f) == IF f.name = Null THEN json(f.value) ELSE json(f.name) \o <<":">> \o json(f.value)
COLON == ":"

\* A field tells its name and value, and where it ends.
LEMMA FieldDecodes ==
    ASSUME NEW X \in {Named, Unnamed}
    PROVE  /\ \A f \in X : field(f) \in Seq(Token) /\ field(f) # <<>>
           /\ \A f, h \in X, u, v \in Seq(Token) :
                 Cat(field(f), u) = Cat(field(h), v) => f = h /\ u = v
<1>1. COLON \in Token /\ <<COLON>> \in Seq(Token)
  <2>1. COLON \in Token
    BY DEF Token, COLON
  <2> QED  BY <2>1
<1>2. \A a, b \in Seq(Token) : a \o b \in Seq(Token)
  BY ConcatProperties
<1>3. \A s \in Leaf : json(s) \in Seq(Token) /\ json(s) # <<>>
  BY LeafType
<1>4. \A a, b \in Token, u, v \in Seq(Token) : Ext!Cons(a, u) = Ext!Cons(b, v) => a = b /\ u = v
  BY ConsEqual
<1>5. CASE X = Unnamed
  <2>1. \A f \in X : f.value \in Leaf /\ f.name = Null /\ field(f) = json(f.value)
    BY <1>5 DEF Unnamed, field
  <2>2. ASSUME NEW f \in X, NEW h \in X, f.value = h.value PROVE f = h
    BY <1>5, <2>1, <2>2 DEF Unnamed
  <2> QED  BY <1>3, <2>1, <2>2, JsonDecodes
<1>6. CASE X = Named
  <2>1. ASSUME NEW f \in X
        PROVE  /\ f.name \in Leaf /\ f.value \in Leaf
               /\ field(f) = (json(f.name) \o <<COLON>>) \o json(f.value)
    <3>1. f.name \in Seq(Token) /\ f.value \in Leaf
      BY <1>6 DEF Named
    <3>2. f.name # Null
      BY <1>6 DEF Named
    <3> QED  BY <3>1, <3>2 DEF Leaf, field, COLON
  <2>2. ASSUME NEW f \in X
        PROVE  field(f) \in Seq(Token) /\ field(f) # <<>>
    <3>1. json(f.name) \in Seq(Token) /\ json(f.value) \in Seq(Token) /\ json(f.value) # <<>>
      BY <1>3, <2>1
    <3>2. json(f.name) \o <<COLON>> \in Seq(Token)
      BY <1>1, <1>2, <3>1
    <3> DEFINE w == json(f.name) \o <<COLON>>
    <3>3. w \in Seq(Token) /\ field(f) = w \o json(f.value)
      BY <2>1, <3>2
    <3> HIDE DEF w
    <3> QED  BY <1>2, <3>1, <3>3, ConcatSimplifications
  <2>3. ASSUME NEW f \in X, NEW u \in Seq(Token)
        PROVE  /\ Ext!Cons(COLON, Cat(json(f.value), u)) \in Seq(Token)
               /\ Cat(json(f.value), u) \in Seq(Token)
               /\ Cat(field(f), u) = Cat(json(f.name), Ext!Cons(COLON, Cat(json(f.value), u)))
    <3> DEFINE n == json(f.name)
               c == <<COLON>>
               d == json(f.value)
    <3>1. n \in Seq(Token) /\ c \in Seq(Token) /\ d \in Seq(Token)
      BY <1>1, <1>3, <2>1
    <3>2. field(f) = Cat(Cat(n, c), d)
      BY <2>1 DEF Cat
    <3>3. \A w : Cat(c, w) = Ext!Cons(COLON, w)
      BY OneToken DEF Cat
    <3> HIDE DEF n, c, d
    <3>4. Cat(n, c) \in Seq(Token) /\ Cat(d, u) \in Seq(Token) /\ Cat(c, Cat(d, u)) \in Seq(Token)
      BY <3>1, CatAssoc
    <3>5. Cat(Cat(Cat(n, c), d), u) = Cat(n, Cat(c, Cat(d, u)))
      BY <3>1, <3>4, CatAssoc
    <3> QED  BY <3>2, <3>3, <3>4, <3>5 DEF n, d
  <2>4. ASSUME NEW f \in X, NEW h \in X, NEW u \in Seq(Token), NEW v \in Seq(Token),
               Cat(field(f), u) = Cat(field(h), v)
        PROVE  f = h /\ u = v
    <3>1. Cat(json(f.name), Ext!Cons(COLON, Cat(json(f.value), u)))
              = Cat(json(h.name), Ext!Cons(COLON, Cat(json(h.value), v)))
      BY <2>3, <2>4
    <3>2. /\ f.name = h.name
          /\ Ext!Cons(COLON, Cat(json(f.value), u)) = Ext!Cons(COLON, Cat(json(h.value), v))
      <4> DEFINE p == Ext!Cons(COLON, Cat(json(f.value), u))
                 q == Ext!Cons(COLON, Cat(json(h.value), v))
      <4>1. p \in Seq(Token) /\ q \in Seq(Token) /\ f.name \in Leaf /\ h.name \in Leaf
        BY <2>1, <2>3
      <4>2. Cat(json(f.name), p) = Cat(json(h.name), q)
        BY <3>1
      <4> HIDE DEF p, q
      <4>3. f.name = h.name /\ p = q
        BY <4>1, <4>2, JsonDecodes
      <4> QED  BY <4>3 DEF p, q
    <3>3. Cat(json(f.value), u) = Cat(json(h.value), v)
      BY <1>1, <1>4, <2>3, <3>2
    <3>4. f.value = h.value /\ u = v
      BY <2>1, <3>3, JsonDecodes
    <3> QED  BY <1>6, <3>2, <3>4 DEF Named
  <2> QED  BY <2>2, <2>4
<1> QED  BY <1>5, <1>6

\* Lists of fields, in the text of an object or an array.
Items(X) == [f \in X |-> field(f)]
Nowhere == {}

\* The fields joined tell each of them.
LEMMA ItemsCode ==
    ASSUME NEW X \in {Named, Unnamed}
    PROVE  /\ Parts(X, Items(X))
           /\ \A s, t \in Seq(X) :
                 Joined(PartsOf(Items(X), s)) = Joined(PartsOf(Items(X), t)) => s = t
<1> DEFINE g == Items(X)
           c == Comma(g)
<1>1. COMMA \in Token /\ <<COMMA>> \in Seq(Token)
  <2>1. COMMA \in Token
    BY DEF Token, COMMA
  <2> QED  BY <2>1
<1>2. /\ \A f \in X : field(f) \in Seq(Token) /\ field(f) # <<>>
      /\ \A f, h \in X, u, v \in Seq(Token) : Cat(field(f), u) = Cat(field(h), v) => f = h /\ u = v
  BY FieldDecodes
<1>3. Parts(X, g) /\ DOMAIN g = X /\ \A f \in X : g[f] = field(f)
  BY <1>2 DEF Parts, Items
<1>4. \A f \in X : c[f] = Cat(<<COMMA>>, field(f))
  BY <1>3 DEF Comma, Cat
<1>5. c \in [X -> Seq(Token)]
  <2>1. \A f \in X : Cat(<<COMMA>>, field(f)) \in Seq(Token)
    BY <1>1, <1>2, CatAssoc
  <2>2. c = [f \in X |-> c[f]]
    BY <1>3 DEF Comma
  <2> HIDE DEF c
  <2> QED  BY <1>4, <2>1, <2>2
<1> HIDE DEF g, c
<1>6. ASSUME NEW f \in X, NEW u \in Seq(Token)
      PROVE  /\ Cat(field(f), u) \in Seq(Token)
             /\ Cat(c[f], u) = Ext!Cons(COMMA, Cat(field(f), u))
  <2>1. Cat(field(f), u) \in Seq(Token) /\ Cat(c[f], u) = Cat(<<COMMA>>, Cat(field(f), u))
    <3>1. field(f) \in Seq(Token) /\ c[f] = Cat(<<COMMA>>, field(f))
      BY <1>2, <1>4
    <3> DEFINE m == <<COMMA>>
    <3>2. m \in Seq(Token) /\ c[f] = Cat(m, field(f))
      BY <1>1, <3>1
    <3> HIDE DEF m
    <3>3. Cat(field(f), u) \in Seq(Token) /\ Cat(c[f], u) = Cat(m, Cat(field(f), u))
      <4> DEFINE w == field(f)
      <4>1. w \in Seq(Token) /\ c[f] = Cat(m, w)
        BY <3>1, <3>2
      <4> HIDE DEF w
      <4>2. Cat(w, u) \in Seq(Token) /\ Cat(Cat(m, w), u) = Cat(m, Cat(w, u))
        BY <3>2, <4>1, CatAssoc
      <4> QED  BY <4>1, <4>2 DEF w
    <3> QED  BY <3>3 DEF m
  <2>2. \A w : <<COMMA>> \o w = Ext!Cons(COMMA, w)
    BY OneToken
  <2> QED  BY <2>1, <2>2 DEF Cat
<1>7. ASSUME NEW f \in X, NEW h \in X, NEW u \in Seq(Token), NEW v \in Seq(Token),
             Cat(c[f], u) = Cat(c[h], v)
      PROVE  u = v /\ f = h
  <2>1. Ext!Cons(COMMA, Cat(field(f), u)) = Ext!Cons(COMMA, Cat(field(h), v))
    BY <1>6, <1>7
  <2>2. Cat(field(f), u) = Cat(field(h), v)
    BY <1>1, <1>6, <2>1, ConsEqual
  <2> QED  BY <1>2, <2>2
<1>8. ASSUME NEW f \in X PROVE c[f] # <<>> /\ c[f][1] \notin Nowhere
  <2>1. <<COMMA>> # <<>> /\ field(f) \in Seq(Token)
    BY <1>2
  <2>2. <<COMMA>> \o field(f) # <<>>
    BY <1>1, <2>1, ConcatSimplifications
  <2> QED  BY <1>4, <2>2 DEF Cat, Nowhere
<1>9. PrefixCode(X, Token, Nowhere, c)
  BY <1>5, <1>7, <1>8 DEF PrefixCode, Cat
<1>10. Decodes(X, Token, Nowhere, c)
  BY <1>9, PrefixDecodes
<1>11. <<>> \in Ends(Token, Nowhere) /\ \A a \in Seq(Token) : Cat(a, <<>>) = a
  BY NoRest DEF Cat
<1>12. \A s \in Seq(X) : Coded(c, s) \in Seq(Token)
  BY <1>5, CodedType
<1>13. \A s, t \in Seq(X) : Coded(c, s) = Coded(c, t) => s = t
  BY <1>10, <1>11, <1>12 DEF Decodes
<1>14. \A s, t \in Seq(X) : Joined(PartsOf(g, s)) = Joined(PartsOf(g, t)) => s = t
  BY <1>3, <1>13, JoinedInjective DEF c
<1> QED  BY <1>3, <1>14 DEF g

\* The brackets of an object and of a list.
OPEN == "{"
CLOSE == "}"
LIST == "["
ENDLIST == "]"
IsNamed(fields) == fields # <<>> /\ fields[1].name # Null
All(X, fields) == Joined(PartsOf(Items(X), fields))

\* escapeKeyJson puts the fields between them.
LEMMA EscapeKeyJsonIs ==
    ASSUME NEW fields \in Fields
    PROVE  \/ /\ fields \in Seq(Named) /\ fields # <<>> /\ All(Named, fields) \in Seq(Token)
              /\ escapeKeyJson(fields) = Ext!Cons(OPEN, Append(All(Named, fields), CLOSE))
           \/ /\ fields \in Seq(Unnamed) /\ All(Unnamed, fields) \in Seq(Token)
              /\ escapeKeyJson(fields) = Ext!Cons(LIST, Append(All(Unnamed, fields), ENDLIST))
<1> DEFINE all == Joined([i \in DOMAIN fields |-> field(fields[i])])
<1>1. escapeKeyJson(fields) = IF IsNamed(fields) THEN (<<OPEN>> \o all) \o <<CLOSE>>
                              ELSE (<<LIST>> \o all) \o <<ENDLIST>>
  BY DEF escapeKeyJson, IsNamed, OPEN, CLOSE, LIST, ENDLIST, field, json
<1>2. {OPEN, CLOSE, LIST, ENDLIST} \subseteq Token
  BY DEF Token, OPEN, CLOSE, LIST, ENDLIST
<1>3. ASSUME NEW X \in {Named, Unnamed}, fields \in Seq(X)
      PROVE  all = All(X, fields) /\ All(X, fields) \in Seq(Token)
  <2>1. \A i \in DOMAIN fields : fields[i] \in X
    BY <1>3, Elements
  <2>2. \A i \in DOMAIN fields : field(fields[i]) = Items(X)[fields[i]]
    BY <2>1 DEF Items
  <2>3. [i \in DOMAIN fields |-> field(fields[i])] = PartsOf(Items(X), fields)
    BY <2>2 DEF PartsOf
  <2>4. Parts(X, Items(X))
    BY ItemsCode
  <2>5. All(X, fields) \in Seq(Token)
    BY <1>3, <2>4, JoinedIsCoded DEF All
  <2> QED  BY <2>3, <2>5 DEF All
<1>4. ASSUME NEW a \in Token, NEW b \in Token, all \in Seq(Token)
      PROVE  (<<a>> \o all) \o <<b>> = Ext!Cons(a, Append(all, b))
  <2> HIDE DEF all
  <2>1. <<a>> \in Seq(Token) /\ <<b>> \in Seq(Token)
    BY <1>4
  <2>2. (<<a>> \o all) \o <<b>> = <<a>> \o (all \o <<b>>)
    <3>1. Associative(Seq(Token))
      BY Assoc
    <3> QED  BY <1>4, <2>1, <3>1 DEF Associative
  <2>3. all \o <<b>> = Append(all, b)
    BY <1>4, AppendIsConcat
  <2> QED  BY <2>2, <2>3, OneToken
<1> HIDE DEF all
<1>5. CASE IsNamed(fields)
  <2>1. fields \in Seq(Named) /\ fields # <<>>
    <3>1. fields # <<>> /\ fields[1].name # Null
      BY <1>5 DEF IsNamed
    <3>2. ASSUME fields \in Seq(Unnamed) PROVE FALSE
      <4>1. Len(fields) # 0 /\ Len(fields) \in Nat
        BY <3>1, <3>2, EmptySeq, LenProperties
      <4>2. fields[1] \in Unnamed
        BY <3>2, <4>1, ElementOfSeq
      <4> QED  BY <3>1, <4>2 DEF Unnamed
    <3> QED  BY <3>1, <3>2 DEF Fields
  <2>2. all = All(Named, fields) /\ All(Named, fields) \in Seq(Token)
    BY <1>3, <2>1
  <2>3. (<<OPEN>> \o all) \o <<CLOSE>> = Ext!Cons(OPEN, Append(all, CLOSE))
    BY <1>2, <1>4, <2>2
  <2> QED  BY <1>1, <1>5, <2>1, <2>2, <2>3
<1>6. CASE ~IsNamed(fields)
  <2>1. fields \in Seq(Unnamed)
    <3>1. ASSUME fields \in Seq(Named) PROVE fields = <<>>
      <4> SUFFICES ASSUME fields # <<>> PROVE FALSE
        OBVIOUS
      <4>1. Len(fields) # 0 /\ Len(fields) \in Nat
        BY <3>1, EmptySeq, LenProperties
      <4>2. fields[1] \in Named
        BY <3>1, <4>1, ElementOfSeq
      <4>3. fields[1].name # Null
        BY <4>2 DEF Named
      <4> QED  BY <1>6, <4>3 DEF IsNamed
    <3>2. <<>> \in Seq(Unnamed)
      OBVIOUS
    <3> QED  BY <3>1, <3>2 DEF Fields
  <2>2. all = All(Unnamed, fields) /\ All(Unnamed, fields) \in Seq(Token)
    BY <1>3, <2>1
  <2>3. (<<LIST>> \o all) \o <<ENDLIST>> = Ext!Cons(LIST, Append(all, ENDLIST))
    BY <1>2, <1>4, <2>2
  <2> QED  BY <1>1, <1>6, <2>1, <2>2, <2>3
<1> QED  BY <1>5, <1>6

\* Two objects are written alike only if they are one.
LEMMA EscapeKeyJsonInjective ==
    /\ \A f \in Fields : /\ escapeKeyJson(f) \in Seq(Token) /\ escapeKeyJson(f) # <<>>
                         /\ escapeKeyJson(f)[1] \in {OPEN, LIST}
    /\ \A f, h \in Fields : escapeKeyJson(f) = escapeKeyJson(h) => f = h
<1>1. OPEN \in Token /\ CLOSE \in Token /\ LIST \in Token /\ ENDLIST \in Token /\ OPEN # LIST
  BY DEF Token, OPEN, CLOSE, LIST, ENDLIST
<1>2. \A a, b \in Token, u, v \in Seq(Token) : Ext!Cons(a, u) = Ext!Cons(b, v) => a = b /\ u = v
  BY ConsEqual
<1>3. \A u \in Seq(Token), a \in Token : Append(u, a) \in Seq(Token)
  BY AppendProperties
<1>4. \A u, v \in Seq(Token), a \in Token : Append(u, a) = Append(v, a) => u = v
  BY AppendInjective
<1>5. \A X \in {Named, Unnamed} : \A f, h \in Seq(X) : All(X, f) = All(X, h) => f = h
  BY ItemsCode DEF All
<1>6. ASSUME NEW f \in Fields
      PROVE  /\ escapeKeyJson(f) \in Seq(Token) /\ escapeKeyJson(f) # <<>>
             /\ escapeKeyJson(f)[1] \in {OPEN, LIST}
  <2>1. \E o \in {OPEN, LIST}, u \in Seq(Token), e \in Token :
            escapeKeyJson(f) = Ext!Cons(o, Append(u, e))
    BY <1>1, EscapeKeyJsonIs
  <2>2. PICK o \in {OPEN, LIST}, u \in Seq(Token), e \in Token :
            escapeKeyJson(f) = Ext!Cons(o, Append(u, e))
    BY <2>1
  <2>3. o \in Token /\ Append(u, e) \in Seq(Token)
    BY <1>1, <1>3
  <2>4. /\ Ext!Cons(o, Append(u, e)) \in Seq(Token) /\ Ext!Cons(o, Append(u, e)) # <<>>
        /\ Ext!Cons(o, Append(u, e))[1] = o
    BY <2>3, ConsHead
  <2> QED  BY <2>2, <2>4
<1>7. ASSUME NEW f \in Fields, NEW h \in Fields, escapeKeyJson(f) = escapeKeyJson(h) PROVE f = h
  <2>1. \/ /\ f \in Seq(Named) /\ All(Named, f) \in Seq(Token)
           /\ escapeKeyJson(f) = Ext!Cons(OPEN, Append(All(Named, f), CLOSE))
        \/ /\ f \in Seq(Unnamed) /\ All(Unnamed, f) \in Seq(Token)
           /\ escapeKeyJson(f) = Ext!Cons(LIST, Append(All(Unnamed, f), ENDLIST))
    BY EscapeKeyJsonIs
  <2>2. \/ /\ h \in Seq(Named) /\ All(Named, h) \in Seq(Token)
           /\ escapeKeyJson(h) = Ext!Cons(OPEN, Append(All(Named, h), CLOSE))
        \/ /\ h \in Seq(Unnamed) /\ All(Unnamed, h) \in Seq(Token)
           /\ escapeKeyJson(h) = Ext!Cons(LIST, Append(All(Unnamed, h), ENDLIST))
    BY EscapeKeyJsonIs
  <2> DEFINE A == All(Named, f)
             B == All(Unnamed, f)
             C == All(Named, h)
             D == All(Unnamed, h)
  <2>3. ASSUME NEW X \in {Named, Unnamed}, NEW o \in Token, NEW e \in Token,
               f \in Seq(X), h \in Seq(X), All(X, f) \in Seq(Token), All(X, h) \in Seq(Token),
               Ext!Cons(o, Append(All(X, f), e)) = Ext!Cons(o, Append(All(X, h), e))
        PROVE  f = h
    <3>1. Append(All(X, f), e) \in Seq(Token) /\ Append(All(X, h), e) \in Seq(Token)
      BY <1>3, <2>3
    <3>2. Append(All(X, f), e) = Append(All(X, h), e)
      BY <1>2, <2>3, <3>1
    <3>3. All(X, f) = All(X, h)
      BY <1>4, <2>3, <3>2
    <3> QED  BY <1>5, <2>3, <3>3
  <2>4. ASSUME NEW u \in Seq(Token), NEW v \in Seq(Token)
        PROVE  Ext!Cons(OPEN, Append(u, CLOSE)) # Ext!Cons(LIST, Append(v, ENDLIST))
    <3>1. Append(u, CLOSE) \in Seq(Token) /\ Append(v, ENDLIST) \in Seq(Token)
      BY <1>1, <1>3
    <3> QED  BY <1>1, <1>2, <3>1
  <2>5. CASE /\ f \in Seq(Named) /\ A \in Seq(Token)
             /\ escapeKeyJson(f) = Ext!Cons(OPEN, Append(A, CLOSE))
    <3>1. /\ h \in Seq(Named) /\ C \in Seq(Token)
          /\ escapeKeyJson(h) = Ext!Cons(OPEN, Append(C, CLOSE))
      BY <1>7, <2>2, <2>4, <2>5
    <3> QED  BY <1>1, <1>7, <2>3, <2>5, <3>1
  <2>6. CASE /\ f \in Seq(Unnamed) /\ B \in Seq(Token)
             /\ escapeKeyJson(f) = Ext!Cons(LIST, Append(B, ENDLIST))
    <3>1. /\ h \in Seq(Unnamed) /\ D \in Seq(Token)
          /\ escapeKeyJson(h) = Ext!Cons(LIST, Append(D, ENDLIST))
      BY <1>7, <2>2, <2>4, <2>6
    <3> QED  BY <1>1, <1>7, <2>3, <2>6, <3>1
  <2> QED  BY <2>1, <2>5, <2>6
<1> QED  BY <1>6, <1>7

-----------------------------------------------------------------------------
(* No part of a key holds what separates the parts.                         *)
Val == Token \ {"&", "="}

\* The punctuation of JSON is no separator.
LEMMA Punctuation == {DQ, COLON, COMMA, OPEN, CLOSE, LIST, ENDLIST, "null", "%", "\\"} \subseteq Val
BY DEF Val, Token, DQ, COLON, COMMA, OPEN, CLOSE, LIST, ENDLIST

\* Putting together what holds no separator makes none.
LEMMA CatWithin ==
    /\ \A a, b \in Seq(Val) : a \o b \in Seq(Val)
    /\ \A a \in Val : <<a>> \in Seq(Val)
    /\ \A a \in Val, u \in Seq(Val) : Ext!Cons(a, u) \in Seq(Val) /\ Append(u, a) \in Seq(Val)
<1>1. \A a, b \in Seq(Val) : a \o b \in Seq(Val)
  BY ConcatProperties
<1>2. \A a \in Val : <<a>> \in Seq(Val)
  OBVIOUS
<1>3. \A a \in Val, u \in Seq(Val) : Append(u, a) \in Seq(Val)
  BY AppendProperties
<1>4. \A a \in Val, u \in Seq(Val) : Ext!Cons(a, u) \in Seq(Val)
  BY <1>1, <1>2 DEF Ext!Cons
<1> QED  BY <1>1, <1>2, <1>3, <1>4

\* Nor does quoting,
LEMMA QuotedWithin == ASSUME NEW s \in Seq(Val) PROVE Quoted(s) \in Seq(Val)
<1>1. s \in Seq(Token)
  <2>1. \A i \in 1 .. Len(s) : s[i] \in Token
    BY ElementOfSeq, LenProperties DEF Val
  <2> QED  BY <2>1, SeqOf
<1>2. ASSUME NEW x \in Val PROVE QEnc[x] \in Seq(Val)
  <2>1. x \in Token /\ "\\" \in Val
    BY Punctuation DEF Val
  <2>2. CASE x \in {"\"", "\\"}
    <3>1. QEnc[x] = <<"\\", x>>
      BY <2>1, <2>2, QEncAt
    <3>2. <<"\\", x>> \in Seq(Val)
      BY <2>1
    <3> QED  BY <3>1, <3>2
  <2>3. CASE x \notin {"\"", "\\"}
    <3>1. QEnc[x] = <<x>>
      BY <2>1, <2>3, QEncAt
    <3> QED  BY <3>1, CatWithin
  <2> QED  BY <2>2, <2>3
<1>3. \A i \in DOMAIN s : s[i] \in Val
  BY Elements
<1> DEFINE m == [i \in DOMAIN s |-> QEnc[s[i]]]
<1>4. m \in Seq(Seq(Val))
  <2>1. DOMAIN m = 1 .. Len(s) /\ m = [i \in DOMAIN m |-> m[i]] /\ Len(s) \in Nat
    BY LenProperties
  <2>2. \A i \in 1 .. Len(s) : m[i] \in Seq(Val)
    BY <1>2, <1>3, <2>1
  <2> HIDE DEF m
  <2> QED  BY <2>1, <2>2, FunctionSeq
<1>5. Body(s) \in Seq(Val)
  BY <1>4, FlattenType DEF Body, Coded
<1>6. DQ \in Val
  BY Punctuation
<1>7. <<DQ>> \in Seq(Val)
  BY <1>6
<1>8. (<<DQ>> \o Body(s)) \o <<DQ>> \in Seq(Val)
  <2>1. <<DQ>> \o Body(s) \in Seq(Val)
    BY <1>5, <1>7, CatWithin
  <2> QED  BY <1>7, <2>1, CatWithin
<1> QED  BY <1>1, <1>8, QuotedIs

\* writing a value,
LEMMA JsonWithin == ASSUME NEW s \in Leaf PROVE json(s) \in Seq(Val)
<1>1. CASE s = Null
  BY <1>1, Punctuation, CatWithin DEF json
<1>2. CASE s # Null
  BY <1>2, LeafType, QuotedWithin DEF json, Val
<1> QED  BY <1>1, <1>2

\* a field,
LEMMA FieldWithin ==
    ASSUME NEW X \in {Named, Unnamed}, NEW f \in X
    PROVE  field(f) \in Seq(Val)
<1>1. f.value \in Leaf /\ f.name \in Leaf
  <2>1. CASE X = Named
    BY <2>1 DEF Named, Leaf
  <2>2. CASE X = Unnamed
    BY <2>2 DEF Unnamed, Leaf
  <2> QED  BY <2>1, <2>2
<1>2. json(f.value) \in Seq(Val) /\ json(f.name) \in Seq(Val)
  BY <1>1, JsonWithin
<1>3. COLON \in Val
  BY Punctuation
<1>4. <<COLON>> \in Seq(Val)
  BY <1>3
<1>5. json(f.name) \o <<COLON>> \in Seq(Val)
  BY <1>2, <1>4, CatWithin
<1>6. (json(f.name) \o <<COLON>>) \o json(f.value) \in Seq(Val)
  BY <1>2, <1>5, CatWithin
<1> QED  BY <1>2, <1>6 DEF field, COLON

\* all of the fields,
LEMMA AllWithin ==
    ASSUME NEW X \in {Named, Unnamed}, NEW s \in Seq(X)
    PROVE  All(X, s) \in Seq(Val)
<1> DEFINE m == Separated(Items(X), s)
<1>1. Len(s) \in Nat /\ DOMAIN s = 1 .. Len(s) /\ \A i \in 1 .. Len(s) : s[i] \in X
  BY LenProperties, ElementOfSeq
<1>2. \A i \in 1 .. Len(s) : Items(X)[s[i]] \in Seq(Val)
  BY <1>1, FieldWithin DEF Items
<1>3. COMMA \in Val
  BY Punctuation
<1>4. <<COMMA>> \in Seq(Val)
  BY <1>3
<1>5. \A i \in 1 .. Len(s) : <<COMMA>> \o Items(X)[s[i]] \in Seq(Val)
  BY <1>2, <1>4, CatWithin
<1>6. \A i \in 1 .. Len(s) : m[i] \in Seq(Val)
  BY <1>1, <1>2, <1>5 DEF Separated
<1>7. DOMAIN m = 1 .. Len(s) /\ m = [i \in DOMAIN m |-> m[i]]
  BY <1>1 DEF Separated
<1> HIDE DEF m
<1>8. m \in Seq(Seq(Val))
  BY <1>1, <1>6, <1>7, FunctionSeq
<1>9. Ext!FlattenSeq(m) \in Seq(Val)
  BY <1>8, FlattenType
<1> QED  BY <1>9, JoinedIs DEF m, All

\* or an object.
LEMMA EscapeKeyJsonWithin ==
    ASSUME NEW f \in Fields PROVE escapeKeyJson(f) \in Seq(Val)
<1>1. {OPEN, CLOSE, LIST, ENDLIST} \subseteq Val
  BY Punctuation
<1>2. CASE /\ f \in Seq(Named)
           /\ escapeKeyJson(f) = Ext!Cons(OPEN, Append(All(Named, f), CLOSE))
  <2>1. All(Named, f) \in Seq(Val)
    BY <1>2, AllWithin
  <2> QED  BY <1>1, <1>2, <2>1, CatWithin
<1>3. CASE /\ f \in Seq(Unnamed)
           /\ escapeKeyJson(f) = Ext!Cons(LIST, Append(All(Unnamed, f), ENDLIST))
  <2>1. All(Unnamed, f) \in Seq(Val)
    BY <1>3, AllWithin
  <2> QED  BY <1>1, <1>3, <2>1, CatWithin
<1> QED  BY <1>2, <1>3, EscapeKeyJsonIs

\* A value of the query: nothing of it is lost, and none is another's.
Values ==
    {Null} \union [kind : {"string"}, string : Seq(Token)]
           \union [kind : {"object"}, fields : Fields]

\* Two values are written alike only if they are one, and no text of one holds a separator.
LEMMA QueryValueInjective ==
    /\ \A v \in Values : QueryValue(v) \in Seq(Val)
    /\ \A v, w \in Values : QueryValue(v) = QueryValue(w) => v = w
<1> DEFINE Strings == [kind : {"string"}, string : Seq(Token)]
           Objects == [kind : {"object"}, fields : Fields]
<1>1. OPEN # LIST /\ {OPEN, LIST} \subseteq {"{", "[", "\""} /\ KEY_NULL = <<"%">>
      /\ KEY_NULL # <<>> /\ KEY_NULL[1] = "%" /\ "%" \notin {OPEN, LIST}
  BY DEF OPEN, LIST, KEY_NULL
<1>2. ASSUME NEW v \in Strings, v # Null
      PROVE  /\ v.string \in Seq(Token) /\ QueryValue(v) = escapeKeyValue(v.string)
             /\ QueryValue(v) \in Seq(Val) /\ QueryValue(v) # KEY_NULL
             /\ QueryValue(v) # <<>> => QueryValue(v)[1] \notin {OPEN, LIST}
  <2>1. v.string \in Seq(Token) /\ v.kind = "string"
    OBVIOUS
  <2>2. QueryValue(v) = escapeKeyValue(v.string)
    BY <1>2, <2>1 DEF QueryValue
  <2>3. ValueStr \in Structure
    BY DEF Structure, ValueStr
  <2>4. /\ Escaped(v.string, ValueStr) # KEY_NULL
        /\ Escaped(v.string, ValueStr) # <<>> =>
               Escaped(v.string, ValueStr)[1] \notin {"{", "[", "\""}
    BY <2>1, <2>3, EscapedPlain
  <2>5. escapeKeyValue(v.string) = Escaped(v.string, ValueStr)
    BY DEF escapeKeyValue, ValueStr
  <2>6. escapeKeyValue(v.string) \in Seq(Val)
    BY <2>1, ValueType DEF Val
  <2> QED  BY <1>1, <2>1, <2>2, <2>4, <2>5, <2>6
<1>3. ASSUME NEW v \in Objects, v # Null
      PROVE  /\ v.fields \in Fields /\ QueryValue(v) = escapeKeyJson(v.fields)
             /\ QueryValue(v) \in Seq(Val) /\ QueryValue(v) # KEY_NULL
             /\ QueryValue(v) # <<>> /\ QueryValue(v)[1] \in {OPEN, LIST}
  <2>1. v.fields \in Fields /\ v.kind = "object"
    OBVIOUS
  <2>2. QueryValue(v) = escapeKeyJson(v.fields)
    BY <1>3, <2>1 DEF QueryValue
  <2>3. escapeKeyJson(v.fields) # <<>> /\ escapeKeyJson(v.fields)[1] \in {OPEN, LIST}
    BY <2>1, EscapeKeyJsonInjective
  <2>4. escapeKeyJson(v.fields) \in Seq(Val)
    BY <2>1, EscapeKeyJsonWithin
  <2>5. escapeKeyJson(v.fields) # KEY_NULL
    BY <1>1, <2>3
  <2> QED  BY <2>1, <2>2, <2>3, <2>4, <2>5
<1>4. QueryValue(Null) = KEY_NULL /\ KEY_NULL \in Seq(Val)
  BY Punctuation, CatWithin DEF QueryValue, KEY_NULL
<1>5. \A v \in Values : v = Null \/ (v # Null /\ v \in Strings) \/ (v # Null /\ v \in Objects)
  BY DEF Values
<1>6. ASSUME NEW v \in Strings, NEW w \in Strings, v.string = w.string PROVE v = w
  BY <1>6
<1>7. ASSUME NEW v \in Objects, NEW w \in Objects, v.fields = w.fields PROVE v = w
  BY <1>7
<1> HIDE DEF Strings, Objects
<1>8. \A v \in Values : QueryValue(v) \in Seq(Val)
  BY <1>2, <1>3, <1>4, <1>5
<1>9. ASSUME NEW v \in Values, NEW w \in Values, QueryValue(v) = QueryValue(w) PROVE v = w
  <2>1. CASE v = Null
    BY <1>2, <1>3, <1>4, <1>5, <1>9, <2>1
  <2>2. CASE v # Null /\ v \in Strings
    <3>1. w # Null /\ w \in Strings
      BY <1>2, <1>3, <1>4, <1>5, <1>9, <2>2
    <3>2. escapeKeyValue(v.string) = escapeKeyValue(w.string)
      BY <1>2, <1>9, <2>2, <3>1
    <3>3. v.string = w.string
      BY <1>2, <2>2, <3>1, <3>2, EscapeKeyValueInjective
    <3> QED  BY <1>6, <2>2, <3>1, <3>3
  <2>3. CASE v # Null /\ v \in Objects
    <3>1. w # Null /\ w \in Objects
      BY <1>2, <1>3, <1>4, <1>5, <1>9, <2>3
    <3>2. v.fields = w.fields
      BY <1>3, <1>9, <2>3, <3>1, EscapeKeyJsonInjective
    <3> QED  BY <1>7, <2>3, <3>1, <3>2
  <2> QED  BY <1>5, <2>1, <2>2, <2>3
<1> QED  BY <1>8, <1>9

-----------------------------------------------------------------------------
(* The parameters and the headers of a key, in an order of their names.     *)
\* SetToSeq lists a finite set.
LEMMA SetToSeqIs ==
    ASSUME NEW S, IsFiniteSet(S)
    PROVE  /\ Ext!SetToSeq(S) \in Seq(S)
           /\ \A x \in S : \E i \in 1 .. Len(Ext!SetToSeq(S)) : Ext!SetToSeq(S)[i] = x
<1> DEFINE n == Cardinality(S)
           P(f) == f \in [1 .. n -> S] /\ \A a, b \in DOMAIN f : f[a] = f[b] => a = b
           c == CHOOSE f : P(f)
<1>1. n \in Nat /\ ExistsBijection(1 .. n, S)
  BY FS_CardinalityType
<1>2. \E f : P(f)
  <2>1. PICK f : f \in Bijection(1 .. n, S)
    BY <1>1 DEF ExistsBijection
  <2>2. P(f)
    BY <2>1 DEF Bijection, Injection, IsInjective
  <2> QED  BY <2>2
<1>3. Ext!Cardinality(S) = n
  BY DEF Ext!Cardinality, Cardinality
<1>4. Ext!SetToSeq(S) = CHOOSE f \in [1 .. n -> S] : \A a, b \in DOMAIN f : f[a] = f[b] => a = b
  BY <1>3 DEF Ext!SetToSeq, Ext!IsInjective
<1>5. Ext!SetToSeq(S) = c
  BY <1>4
<1>6. P(c)
  BY <1>2
<1> HIDE DEF n, c
<1>7. c \in Injection(1 .. n, S)
  BY <1>6 DEF Injection, IsInjective
<1>8. Cardinality(1 .. n) = n
  BY <1>1, FS_Interval
<1>9. c \in Surjection(1 .. n, S)
  BY <1>7, <1>8, FS_Injection DEF n
<1>10. \A x \in S : \E i \in 1 .. n : c[i] = x
  BY <1>9 DEF Surjection
<1>11. c \in Seq(S) /\ Len(c) = n
  BY <1>1, <1>6
<1> QED  BY <1>5, <1>10, <1>11

\* A pair: a name, "=" and the text of its value.
EQ == "="
AND == "&"
NameStr == {"%", "&", "=", ","}
Texts == [name : Seq(Token), text : Seq(Val)]
PairText == [p \in Texts |-> (escapeKeyName(p.name) \o <<EQ>>) \o p.text]

\* An escaped name holds no separator, and tells the name.
LEMMA NameWithin ==
    /\ \A n \in Seq(Token) : /\ escapeKeyName(n) \in Seq(Token)
                             /\ escapeKeyName(n) \in Seq(Token \ {"&", "=", ","})
    /\ \A n, m \in Seq(Token) : escapeKeyName(n) = escapeKeyName(m) => n = m
<1>1. NameStr \in Structure /\ NameStr \ {"%"} = {"&", "=", ","}
  BY DEF Structure, NameStr
<1>2. ASSUME NEW n \in Seq(Token)
      PROVE  escapeKeyName(n) \in Seq(Token) /\ escapeKeyName(n) \in Seq(Token \ {"&", "=", ","})
  <2>1. Escaped(n, NameStr) \in Seq(Token \ (NameStr \ {"%"}))
    BY <1>1, EscapedPlain
  <2>2. escapeKeyName(n) \in Seq(Token \ {"&", "=", ","})
    BY <1>1, <2>1 DEF escapeKeyName, NameStr
  <2>3. \A i \in 1 .. Len(escapeKeyName(n)) : escapeKeyName(n)[i] \in Token
    BY <2>2, LenProperties, ElementOfSeq
  <2>4. escapeKeyName(n) \in Seq(Token)
    BY <2>2, <2>3, SeqOf
  <2> QED  BY <2>2, <2>4
<1>3. \A n, m \in Seq(Token) : Escaped(n, NameStr) = Escaped(m, NameStr) => n = m
  BY <1>1, EscapedInjective
<1> QED  BY <1>2, <1>3 DEF escapeKeyName, NameStr

\* Where a name ends, and where a pair ends, is told by the separators.
LEMMA PairsCode ==
    /\ Parts(Texts, PairText)
    /\ \A s, t \in Seq(Texts) :
          Joined(PartsOf(PairText, s)) = Joined(PartsOf(PairText, t)) => s = t
<1> DEFINE g == PairText
           c == Comma(g)
<1>1. COMMA \in Token /\ EQ \in Token
  BY DEF Token, COMMA, EQ
<1>2. <<COMMA>> \in Seq(Token) /\ <<EQ>> \in Seq(Token)
  BY <1>1
<1>3. ASSUME NEW p \in Texts
      PROVE  /\ p.name \in Seq(Token) /\ p.text \in Seq(Token)
             /\ escapeKeyName(p.name) \in Seq(Token)
             /\ Without(EQ, p.text)
             /\ Without(COMMA, escapeKeyName(p.name))
  <2>1. p.name \in Seq(Token) /\ p.text \in Seq(Val)
    BY DEF Texts
  <2>2. \A i \in DOMAIN p.text : p.text[i] \in Val
    BY <2>1, Elements
  <2>3. p.text \in Seq(Token)
    <3>1. \A i \in 1 .. Len(p.text) : p.text[i] \in Token
      BY <2>1, <2>2, LenProperties DEF Val
    <3> QED  BY <2>1, <3>1, SeqOf
  <2>4. /\ escapeKeyName(p.name) \in Seq(Token)
        /\ escapeKeyName(p.name) \in Seq(Token \ {"&", "=", ","})
    BY <2>1, NameWithin
  <2>5. \A i \in DOMAIN escapeKeyName(p.name) : escapeKeyName(p.name)[i] \in Token \ {"&", "=", ","}
    <3> DEFINE n == escapeKeyName(p.name)
    <3>1. n \in Seq(Token \ {"&", "=", ","})
      BY <2>4
    <3> HIDE DEF n
    <3>2. \A i \in DOMAIN n : n[i] \in Token \ {"&", "=", ","}
      BY <3>1, Elements
    <3> QED  BY <3>2 DEF n
  <2> QED  BY <2>1, <2>2, <2>3, <2>4, <2>5 DEF Val, EQ, COMMA, Without
<1>4. \A p \in Texts : g[p] = Cat(Cat(escapeKeyName(p.name), <<EQ>>), p.text)
  BY DEF PairText, Cat
<1>5. ASSUME NEW p \in Texts PROVE g[p] \in Seq(Token) /\ g[p] # <<>>
  <2> DEFINE n == escapeKeyName(p.name)
             e == <<EQ>>
  <2>1. n \in Seq(Token) /\ e \in Seq(Token) /\ e # <<>> /\ p.text \in Seq(Token)
    BY <1>3, <1>2
  <2>2. g[p] = (n \o e) \o p.text
    BY DEF PairText
  <2> HIDE DEF n, e, g
  <2>3. n \o e \in Seq(Token) /\ n \o e # <<>>
    BY <2>1, ConcatProperties, ConcatSimplifications
  <2>4. (n \o e) \o p.text \in Seq(Token) /\ (n \o e) \o p.text # <<>>
    BY <2>1, <2>3, ConcatProperties, ConcatSimplifications
  <2> QED  BY <2>2, <2>4
<1>6. Parts(Texts, g)
  BY <1>5 DEF Parts, PairText
<1>7. DOMAIN g = Texts /\ c = [p \in Texts |-> <<COMMA>> \o g[p]]
  BY DEF PairText, Comma
<1>8. \A p \in Texts : c[p] = Cat(<<COMMA>>, g[p])
  BY <1>7 DEF Cat
<1> HIDE DEF g, c
<1>9. ASSUME NEW p \in Texts PROVE c[p] \in Seq(Token) /\ c[p] # <<>>
  <2> DEFINE m == <<COMMA>>
  <2>1. m \in Seq(Token) /\ c[p] = m \o g[p] /\ g[p] \in Seq(Token) /\ g[p] # <<>>
    BY <1>5, <1>8, <1>2 DEF Cat
  <2> HIDE DEF m
  <2> QED  BY <2>1, ConcatProperties, ConcatSimplifications
<1>10. c \in [Texts -> Seq(Token)]
  BY <1>7, <1>9
<1>11. ASSUME NEW u \in Seq(Token), NEW p \in Texts
      PROVE  /\ Cat(Cat(u, <<COMMA>>), escapeKeyName(p.name)) \in Seq(Token)
             /\ Cat(u, c[p])
                    = Cat(Cat(Cat(Cat(u, <<COMMA>>), escapeKeyName(p.name)), <<EQ>>), p.text)
  <2> DEFINE m == <<COMMA>>
             e == <<EQ>>
             n == escapeKeyName(p.name)
             d == p.text
  <2>1. m \in Seq(Token) /\ e \in Seq(Token) /\ n \in Seq(Token) /\ d \in Seq(Token)
        /\ c[p] = Cat(m, Cat(Cat(n, e), d))
    BY <1>3, <1>4, <1>8, <1>2
  <2> HIDE DEF m, e, n, d
  <2>2. Cat(n, e) \in Seq(Token) /\ Cat(u, m) \in Seq(Token)
    BY <2>1, CatAssoc
  <2>3. Cat(Cat(n, e), d) \in Seq(Token) /\ Cat(Cat(u, m), n) \in Seq(Token)
    BY <2>1, <2>2, CatAssoc
  <2>4. Cat(u, Cat(m, Cat(Cat(n, e), d))) = Cat(Cat(u, m), Cat(Cat(n, e), d))
    BY <2>1, <2>3, CatAssoc
  <2>5. Cat(Cat(u, m), Cat(Cat(n, e), d)) = Cat(Cat(Cat(u, m), Cat(n, e)), d)
    BY <2>1, <2>2, CatAssoc
  <2>6. Cat(Cat(u, m), Cat(n, e)) = Cat(Cat(Cat(u, m), n), e)
    BY <2>1, <2>2, CatAssoc
  <2> QED  BY <2>1, <2>3, <2>4, <2>5, <2>6 DEF m, e, n, d
<1>12. ASSUME NEW p \in Texts, NEW q \in Texts, NEW u \in Seq(Token), NEW v \in Seq(Token),
              Cat(u, c[p]) = Cat(v, c[q])
       PROVE  u = v /\ p = q
  <2> DEFINE a == Cat(Cat(u, <<COMMA>>), escapeKeyName(p.name))
             b == Cat(Cat(v, <<COMMA>>), escapeKeyName(q.name))
  <2>1. /\ a \in Seq(Token) /\ b \in Seq(Token)
        /\ Cat(Cat(a, <<EQ>>), p.text) = Cat(Cat(b, <<EQ>>), q.text)
    BY <1>11, <1>12
  <2>2. p.text \in Seq(Token) /\ q.text \in Seq(Token)
        /\ (Without(EQ, p.text)) /\ (Without(EQ, q.text))
    BY <1>3
  <2>3. a = b /\ p.text = q.text
    <3> HIDE DEF a, b
    <3> QED  BY <1>1, <2>1, <2>2, LastSplit
  <2>4. u = v /\ escapeKeyName(p.name) = escapeKeyName(q.name)
    <3>1. /\ escapeKeyName(p.name) \in Seq(Token) /\ escapeKeyName(q.name) \in Seq(Token)
          /\ Without(COMMA, escapeKeyName(p.name))
          /\ Without(COMMA, escapeKeyName(q.name))
      BY <1>3
    <3> QED  BY <1>1, <2>3, <3>1, LastSplit
  <2>5. p.name = q.name
    BY <1>3, <2>4, NameWithin
  <2> QED  BY <2>3, <2>4, <2>5 DEF Texts
<1>13. SuffixCode(Texts, Token, c)
  BY <1>9, <1>10, <1>12 DEF SuffixCode, Cat
<1>14. \A s, t \in Seq(Texts) : Coded(c, s) = Coded(c, t) => s = t
  BY <1>13, SuffixDecodes
<1>15. \A s, t \in Seq(Texts) : Joined(PartsOf(g, s)) = Joined(PartsOf(g, t)) => s = t
  BY <1>6, <1>14, JoinedInjective DEF c
<1> QED  BY <1>6, <1>15 DEF g

\* No "&" is among them.
NoAmp == Token \ {"&"}

\* So the "&" that ends a part of a key is not in it.
LEMMA PairsWithin ==
    ASSUME NEW s \in Seq(Texts)
    PROVE  /\ Joined(PartsOf(PairText, s)) \in Seq(Token)
           /\ Without(AND, Joined(PartsOf(PairText, s)))
<1> DEFINE m == Separated(PairText, s)
<1>1. Len(s) \in Nat /\ DOMAIN s = 1 .. Len(s) /\ \A i \in 1 .. Len(s) : s[i] \in Texts
  BY LenProperties, ElementOfSeq
<1>2. COMMA \in NoAmp /\ EQ \in NoAmp
  BY DEF NoAmp, Token, COMMA, EQ
<1>3. <<COMMA>> \in Seq(NoAmp) /\ <<EQ>> \in Seq(NoAmp)
  BY <1>2
<1>4. \A a, b \in Seq(NoAmp) : a \o b \in Seq(NoAmp)
  BY ConcatProperties
<1>5. ASSUME NEW p \in Texts PROVE PairText[p] \in Seq(NoAmp)
  <2>1. p.name \in Seq(Token) /\ p.text \in Seq(Val)
    BY DEF Texts
  <2>2. p.text \in Seq(NoAmp)
    <3>1. \A i \in 1 .. Len(p.text) : p.text[i] \in NoAmp
      BY <2>1, LenProperties, ElementOfSeq DEF Val, NoAmp
    <3> QED  BY <2>1, <3>1, SeqOf
  <2>3. escapeKeyName(p.name) \in Seq(NoAmp)
    <3>1. escapeKeyName(p.name) \in Seq(Token \ {"&", "=", ","})
      BY <2>1, NameWithin
    <3> DEFINE e == escapeKeyName(p.name)
               T == Token \ {"&", "=", ","}
    <3>2. e \in Seq(T) /\ T \subseteq NoAmp
      BY <3>1 DEF NoAmp
    <3> HIDE DEF e, T
    <3>3. \A i \in 1 .. Len(e) : e[i] \in NoAmp
      BY <3>2, LenProperties, ElementOfSeq
    <3>4. e \in Seq(NoAmp)
      BY <3>2, <3>3, SeqOf
    <3> QED  BY <3>4 DEF e
  <2>4. escapeKeyName(p.name) \o <<EQ>> \in Seq(NoAmp)
    BY <1>3, <1>4, <2>3
  <2>5. (escapeKeyName(p.name) \o <<EQ>>) \o p.text \in Seq(NoAmp)
    BY <1>4, <2>2, <2>4
  <2> QED  BY <2>5 DEF PairText
<1>6. \A i \in 1 .. Len(s) : PairText[s[i]] \in Seq(NoAmp)
  BY <1>1, <1>5
<1>7. \A i \in 1 .. Len(s) : <<COMMA>> \o PairText[s[i]] \in Seq(NoAmp)
  BY <1>3, <1>4, <1>6
<1>8. \A i \in 1 .. Len(s) : m[i] \in Seq(NoAmp)
  BY <1>1, <1>6, <1>7 DEF Separated
<1>9. DOMAIN m = 1 .. Len(s) /\ m = [i \in DOMAIN m |-> m[i]]
  BY <1>1 DEF Separated
<1> HIDE DEF m
<1>10. m \in Seq(Seq(NoAmp))
  BY <1>1, <1>8, <1>9, FunctionSeq
<1> DEFINE j == Joined(PartsOf(PairText, s))
<1>11. j \in Seq(NoAmp)
  BY <1>10, FlattenType, JoinedIs DEF m
<1> HIDE DEF j
<1>12. \A i \in 1 .. Len(j) : j[i] \in NoAmp
  BY <1>11, ElementOfSeq, LenProperties
<1>13. \A i \in 1 .. Len(j) : j[i] \in Token
  BY <1>12 DEF NoAmp
<1>14. j \in Seq(Token)
  BY <1>11, <1>13, SeqOf
<1>15. Without(AND, j)
  BY <1>12, <1>14, LenProperties DEF Without, NoAmp, AND
<1> QED  BY <1>14, <1>15 DEF j

\* The names of a set with their texts, as a key lists them.
Listing(S, nm, tx) ==
    [i \in DOMAIN Ext!SetToSeq(S) |->
        [name |-> nm[Ext!SetToSeq(S)[i]], text |-> tx[Ext!SetToSeq(S)[i]]]]

\* Distinct names are written as distinct texts.
Names(U, nm) == nm \in [U -> Seq(Token)] /\ \A x, y \in U : nm[x] = nm[y] => x = y

\* A listing tells its set and the texts.
LEMMA ListingTells ==
    ASSUME NEW U, NEW nm, Names(U, nm),
           NEW S, NEW T, S \subseteq U, T \subseteq U, IsFiniteSet(S), IsFiniteSet(T),
           NEW tx \in [S -> Seq(Val)], NEW ty \in [T -> Seq(Val)]
    PROVE  /\ Listing(S, nm, tx) \in Seq(Texts)
           /\ Listing(S, nm, tx) = Listing(T, nm, ty) => S = T /\ \A x \in S : tx[x] = ty[x]
<1> DEFINE s == Ext!SetToSeq(S)
           t == Ext!SetToSeq(T)
           l == Listing(S, nm, tx)
           r == Listing(T, nm, ty)
<1>1. s \in Seq(S) /\ \A x \in S : \E i \in 1 .. Len(s) : s[i] = x
  BY SetToSeqIs
<1>2. t \in Seq(T) /\ \A x \in T : \E i \in 1 .. Len(t) : t[i] = x
  BY SetToSeqIs
<1>3. /\ DOMAIN l = DOMAIN s /\ l = [i \in DOMAIN l |-> l[i]]
      /\ \A i \in DOMAIN s : l[i] = [name |-> nm[s[i]], text |-> tx[s[i]]]
  BY DEF Listing
<1>4. DOMAIN r = DOMAIN t /\ \A i \in DOMAIN t : r[i] = [name |-> nm[t[i]], text |-> ty[t[i]]]
  BY DEF Listing
<1> HIDE DEF s, t, l, r
<1>5. Len(s) \in Nat /\ DOMAIN s = 1 .. Len(s) /\ \A i \in 1 .. Len(s) : s[i] \in S
  BY <1>1, LenProperties, ElementOfSeq
<1>6. Len(t) \in Nat /\ DOMAIN t = 1 .. Len(t) /\ \A i \in 1 .. Len(t) : t[i] \in T
  BY <1>2, LenProperties, ElementOfSeq
<1>7. \A i \in 1 .. Len(s) : l[i] \in Texts
  <2> SUFFICES ASSUME NEW i \in 1 .. Len(s) PROVE l[i] \in Texts
    OBVIOUS
  <2>1. s[i] \in S /\ nm[s[i]] \in Seq(Token) /\ tx[s[i]] \in Seq(Val)
    BY <1>5 DEF Names
  <2>2. l[i] = [name |-> nm[s[i]], text |-> tx[s[i]]]
    BY <1>3, <1>5
  <2> QED  BY <2>1, <2>2 DEF Texts
<1>8. l \in Seq(Texts)
  BY <1>3, <1>5, <1>7, FunctionSeq
<1>9. ASSUME l = r PROVE S = T /\ \A x \in S : tx[x] = ty[x]
  <2>1. DOMAIN s = DOMAIN t
    BY <1>3, <1>4, <1>9
  <2>2. ASSUME NEW i \in DOMAIN s PROVE s[i] = t[i] /\ tx[s[i]] = ty[t[i]]
    <3>1. [name |-> nm[s[i]], text |-> tx[s[i]]] = [name |-> nm[t[i]], text |-> ty[t[i]]]
      BY <1>3, <1>4, <1>9, <2>1
    <3>2. nm[s[i]] = nm[t[i]] /\ tx[s[i]] = ty[t[i]]
      <4>1. \A a, b, c, d : [name |-> a, text |-> b] = [name |-> c, text |-> d] => a = c /\ b = d
        OBVIOUS
      <4> QED  BY <3>1, <4>1
    <3>3. s[i] \in U /\ t[i] \in U
      BY <1>5, <1>6, <2>1
    <3> QED  BY <3>2, <3>3 DEF Names
  <2>3. \A x \in S : x \in T /\ tx[x] = ty[x]
    <3> SUFFICES ASSUME NEW x \in S PROVE x \in T /\ tx[x] = ty[x]
      OBVIOUS
    <3>1. PICK i \in 1 .. Len(s) : s[i] = x
      BY <1>1
    <3>2. t[i] = x /\ tx[x] = ty[x] /\ i \in DOMAIN t
      BY <1>5, <2>1, <2>2, <3>1
    <3> QED  BY <1>6, <3>2
  <2>4. \A x \in T : x \in S
    <3> SUFFICES ASSUME NEW x \in T PROVE x \in S
      OBVIOUS
    <3>1. PICK i \in 1 .. Len(t) : t[i] = x
      BY <1>2
    <3>2. s[i] = x /\ i \in DOMAIN s
      BY <1>6, <2>1, <2>2, <3>1
    <3> QED  BY <1>5, <3>2
  <2> QED  BY <2>3, <2>4
<1> QED  BY <1>8, <1>9 DEF l, r

\* The selected parameters are parameters of the query.
LEMMA SelectedIs ==
    ASSUME NEW query, NEW use, IsFiniteSet(DOMAIN query)
    PROVE  Selected(query, use) \subseteq DOMAIN query /\ IsFiniteSet(Selected(query, use))
<1>1. Selected(query, use) \subseteq DOMAIN query
  BY DEF Selected
<1> QED  BY <1>1, FS_Subset

\* The part of a key for the members of S, under their names, with their texts.
Written(S, nm, tx) ==
    Joined([i \in DOMAIN Ext!SetToSeq(S) |->
               (escapeKeyName(nm[Ext!SetToSeq(S)[i]]) \o <<"=">>) \o tx[Ext!SetToSeq(S)[i]]])

\* It is the listing, joined.
LEMMA WrittenIs ==
    ASSUME NEW U, NEW nm, Names(U, nm), NEW S, S \subseteq U, IsFiniteSet(S),
           NEW tx \in [S -> Seq(Val)]
    PROVE  Written(S, nm, tx) = Joined(PartsOf(PairText, Listing(S, nm, tx)))
<1> DEFINE s == Ext!SetToSeq(S)
           l == Listing(S, nm, tx)
<1>1. s \in Seq(S) /\ l \in Seq(Texts)
  BY SetToSeqIs, ListingTells
<1>2. /\ DOMAIN l = DOMAIN s
      /\ \A i \in DOMAIN s : l[i] = [name |-> nm[s[i]], text |-> tx[s[i]]]
  BY DEF Listing
<1> HIDE DEF s, l
<1>3. \A i \in DOMAIN l : l[i] \in Texts
  BY <1>1, Elements
<1>4. ASSUME NEW i \in DOMAIN s
      PROVE  PairText[l[i]] = (escapeKeyName(nm[s[i]]) \o <<"=">>) \o tx[s[i]]
  <2> DEFINE e == l[i]
             n == nm[s[i]]
             x == tx[s[i]]
  <2>1. e \in Texts /\ e = [name |-> n, text |-> x]
    BY <1>2, <1>3
  <2> HIDE DEF e, n, x
  <2>2. e.name = n /\ e.text = x
    BY <2>1
  <2>3. PairText[e] = (escapeKeyName(e.name) \o <<EQ>>) \o e.text
    BY <2>1 DEF PairText
  <2>4. PairText[e] = (escapeKeyName(n) \o <<"=">>) \o x
    BY <2>2, <2>3 DEF EQ
  <2> QED  BY <2>4 DEF e, n, x
<1>5. [i \in DOMAIN s |-> (escapeKeyName(nm[s[i]]) \o <<"=">>) \o tx[s[i]]] = PartsOf(PairText, l)
  BY <1>2, <1>4 DEF PartsOf
<1>6. Written(S, nm, tx)
          = Joined([i \in DOMAIN s |-> (escapeKeyName(nm[s[i]]) \o <<"=">>) \o tx[s[i]]])
  BY DEF Written, s
<1> QED  BY <1>5, <1>6 DEF l

\* It tells the members of S and their texts, and holds no "&".
LEMMA WrittenTells ==
    ASSUME NEW U, NEW nm, Names(U, nm),
           NEW S, NEW T, S \subseteq U, T \subseteq U, IsFiniteSet(S), IsFiniteSet(T),
           NEW tx \in [S -> Seq(Val)], NEW ty \in [T -> Seq(Val)]
    PROVE  /\ Written(S, nm, tx) \in Seq(Token) /\ Without(AND, Written(S, nm, tx))
           /\ Written(S, nm, tx) = Written(T, nm, ty) => S = T /\ \A x \in S : tx[x] = ty[x]
<1> DEFINE l == Listing(S, nm, tx)
           r == Listing(T, nm, ty)
<1>1. l \in Seq(Texts) /\ (l = r => S = T /\ \A x \in S : tx[x] = ty[x])
  BY ListingTells
<1>2. r \in Seq(Texts)
  BY ListingTells
<1>3. Written(S, nm, tx) = Joined(PartsOf(PairText, l))
  BY WrittenIs
<1>4. Written(T, nm, ty) = Joined(PartsOf(PairText, r))
  BY WrittenIs
<1> HIDE DEF l, r
<1>5. Written(S, nm, tx) \in Seq(Token) /\ Without(AND, Written(S, nm, tx))
  BY <1>1, <1>3, PairsWithin
<1>6. Written(S, nm, tx) = Written(T, nm, ty) => l = r
  BY <1>1, <1>2, <1>3, <1>4, PairsCode
<1> QED  BY <1>1, <1>5, <1>6

\* A query, and the texts of its selected parameters.
Query(q) ==
    /\ IsFiniteSet(DOMAIN q) /\ DOMAIN q \subseteq Seq(Token)
    /\ \A n \in DOMAIN q : q[n] \in Values
Itself == [n \in Seq(Token) |-> n]
QueryTexts(q, use) == [n \in Selected(q, use) |-> QueryValue(q[n])]

\* generateQueryParamsKey writes them.
LEMMA QueryIsWritten ==
    ASSUME NEW q, Query(q), NEW use
    PROVE  /\ Selected(q, use) \subseteq Seq(Token) /\ IsFiniteSet(Selected(q, use))
           /\ \A n \in Selected(q, use) : q[n] \in Values
           /\ QueryTexts(q, use) \in [Selected(q, use) -> Seq(Val)]
           /\ generateQueryParamsKey(q, use) = Written(Selected(q, use), Itself, QueryTexts(q, use))
<1>1. Selected(q, use) \subseteq DOMAIN q /\ IsFiniteSet(Selected(q, use))
  BY SelectedIs DEF Query
<1>2. Selected(q, use) \subseteq Seq(Token) /\ \A n \in Selected(q, use) : q[n] \in Values
  BY <1>1 DEF Query
<1>3. QueryTexts(q, use) \in [Selected(q, use) -> Seq(Val)]
  BY <1>2, QueryValueInjective DEF QueryTexts
<1> DEFINE S == Selected(q, use)
           s == Ext!SetToSeq(S)
<1>4. s \in Seq(S)
  BY <1>1, SetToSeqIs
<1>5. \A i \in DOMAIN s : s[i] \in S
  <2> HIDE DEF s, S
  <2> QED  BY <1>4, Elements
<1>6. \A i \in DOMAIN s : Itself[s[i]] = s[i] /\ QueryTexts(q, use)[s[i]] = QueryValue(q[s[i]])
  <2> SUFFICES ASSUME NEW i \in DOMAIN s
               PROVE  Itself[s[i]] = s[i] /\ QueryTexts(q, use)[s[i]] = QueryValue(q[s[i]])
    OBVIOUS
  <2> DEFINE n == s[i]
  <2>1. n \in Selected(q, use) /\ n \in Seq(Token)
    BY <1>2, <1>5
  <2> HIDE DEF n
  <2>2. Itself[n] = n /\ QueryTexts(q, use)[n] = QueryValue(q[n])
    BY <2>1 DEF Itself, QueryTexts
  <2> QED  BY <2>2 DEF n
<1>7. generateQueryParamsKey(q, use)
          = Joined([i \in DOMAIN s |-> (escapeKeyName(s[i]) \o <<"=">>) \o QueryValue(q[s[i]])])
  BY DEF generateQueryParamsKey
<1>8. Written(S, Itself, QueryTexts(q, use))
          = Joined([i \in DOMAIN s |->
                       (escapeKeyName(Itself[s[i]]) \o <<"=">>) \o QueryTexts(q, use)[s[i]]])
  BY DEF Written
<1> HIDE DEF s
<1>9. [i \in DOMAIN s |-> (escapeKeyName(s[i]) \o <<"=">>) \o QueryValue(q[s[i]])]
          = [i \in DOMAIN s |->
                (escapeKeyName(Itself[s[i]]) \o <<"=">>) \o QueryTexts(q, use)[s[i]]]
  BY <1>6
<1> QED  BY <1>1, <1>2, <1>3, <1>7, <1>8, <1>9

\* The query of a key tells the parameters that count, and their values.
LEMMA QueryTells ==
    ASSUME NEW q, NEW r, Query(q), Query(r), NEW use
    PROVE  /\ generateQueryParamsKey(q, use) \in Seq(Token)
           /\ Without(AND, generateQueryParamsKey(q, use))
           /\ generateQueryParamsKey(q, use) = generateQueryParamsKey(r, use) =>
                 /\ Selected(q, use) = Selected(r, use)
                 /\ \A n \in Selected(q, use) : q[n] = r[n]
<1>1. Names(Seq(Token), Itself)
  BY DEF Names, Itself
<1> DEFINE S == Selected(q, use)
           T == Selected(r, use)
           tx == QueryTexts(q, use)
           ty == QueryTexts(r, use)
<1>2. /\ S \subseteq Seq(Token) /\ IsFiniteSet(S) /\ tx \in [S -> Seq(Val)]
      /\ generateQueryParamsKey(q, use) = Written(S, Itself, tx)
      /\ \A n \in S : q[n] \in Values
  BY QueryIsWritten
<1>3. /\ T \subseteq Seq(Token) /\ IsFiniteSet(T) /\ ty \in [T -> Seq(Val)]
      /\ generateQueryParamsKey(r, use) = Written(T, Itself, ty)
      /\ \A n \in T : r[n] \in Values
  BY QueryIsWritten
<1>4. /\ \A n \in S : tx[n] = QueryValue(q[n])
      /\ \A n \in T : ty[n] = QueryValue(r[n])
  BY DEF QueryTexts
<1> HIDE DEF S, T, tx, ty
<1>5. /\ Written(S, Itself, tx) \in Seq(Token) /\ Without(AND, Written(S, Itself, tx))
      /\ Written(S, Itself, tx) = Written(T, Itself, ty) => S = T /\ \A x \in S : tx[x] = ty[x]
  <2>1. /\ S \subseteq Seq(Token) /\ IsFiniteSet(S) /\ tx \in [S -> Seq(Val)]
        /\ T \subseteq Seq(Token) /\ IsFiniteSet(T) /\ ty \in [T -> Seq(Val)]
    BY <1>2, <1>3
  <2>2. Written(S, Itself, tx) \in Seq(Token) /\ Without(AND, Written(S, Itself, tx))
    BY <1>1, <2>1, WrittenTells
  <2>3. Written(S, Itself, tx) = Written(T, Itself, ty) => S = T /\ \A x \in S : tx[x] = ty[x]
    BY <1>1, <2>1, WrittenTells
  <2> QED  BY <2>2, <2>3
<1>6. ASSUME generateQueryParamsKey(q, use) = generateQueryParamsKey(r, use)
      PROVE  S = T /\ \A n \in S : q[n] = r[n]
  <2>1. S = T /\ \A n \in S : tx[n] = ty[n]
    BY <1>2, <1>3, <1>5, <1>6
  <2>2. \A n \in S : q[n] \in Values /\ r[n] \in Values /\ QueryValue(q[n]) = QueryValue(r[n])
    BY <1>2, <1>3, <1>4, <2>1
  <2> QED  BY <2>1, <2>2, QueryValueInjective
<1> QED  BY <1>2, <1>5, <1>6 DEF S, T

\* A request's headers, by their names in lower case.
Headers(h) ==
    /\ IsFiniteSet(DOMAIN h) /\ DOMAIN h \subseteq Token
    /\ \A n \in DOMAIN h : h[n] \in Seq(Token)
Single == [n \in Token |-> <<n>>]
HeaderTexts(h, use) == [n \in SentHeaders(h, use) |-> escapeKeyValue(h[n])]

\* generateHeadersKey writes them.
LEMMA HeadersAreWritten ==
    ASSUME NEW h, Headers(h), NEW use
    PROVE  /\ SentHeaders(h, use) \subseteq Token /\ IsFiniteSet(SentHeaders(h, use))
           /\ \A n \in SentHeaders(h, use) : h[n] \in Seq(Token)
           /\ HeaderTexts(h, use) \in [SentHeaders(h, use) -> Seq(Val)]
           /\ generateHeadersKey(h, use) = Written(SentHeaders(h, use), Single, HeaderTexts(h, use))
<1>1. SentHeaders(h, use) \subseteq DOMAIN h /\ IsFiniteSet(SentHeaders(h, use))
  <2>1. SentHeaders(h, use) \subseteq DOMAIN h
    BY DEF SentHeaders
  <2> QED  BY <2>1, FS_Subset DEF Headers
<1>2. SentHeaders(h, use) \subseteq Token /\ \A n \in SentHeaders(h, use) : h[n] \in Seq(Token)
  BY <1>1 DEF Headers
<1>3. HeaderTexts(h, use) \in [SentHeaders(h, use) -> Seq(Val)]
  <2>1. \A n \in SentHeaders(h, use) : escapeKeyValue(h[n]) \in Seq(Val)
    BY <1>2, ValueType DEF Val
  <2> QED  BY <2>1 DEF HeaderTexts
<1> DEFINE S == SentHeaders(h, use)
           s == Ext!SetToSeq(S)
<1>4. s \in Seq(S)
  BY <1>1, SetToSeqIs
<1>5. \A i \in DOMAIN s : s[i] \in S
  <2> HIDE DEF s, S
  <2> QED  BY <1>4, Elements
<1>6. \A i \in DOMAIN s :
          Single[s[i]] = <<s[i]>> /\ HeaderTexts(h, use)[s[i]] = escapeKeyValue(h[s[i]])
  <2> SUFFICES ASSUME NEW i \in DOMAIN s
               PROVE  Single[s[i]] = <<s[i]>>
                      /\ HeaderTexts(h, use)[s[i]] = escapeKeyValue(h[s[i]])
    OBVIOUS
  <2> DEFINE n == s[i]
  <2>1. n \in SentHeaders(h, use) /\ n \in Token
    BY <1>2, <1>5
  <2> HIDE DEF n
  <2>2. Single[n] = <<n>> /\ HeaderTexts(h, use)[n] = escapeKeyValue(h[n])
    BY <2>1 DEF Single, HeaderTexts
  <2> QED  BY <2>2 DEF n
<1>7. generateHeadersKey(h, use)
           = Joined([i \in DOMAIN s |->
                        (escapeKeyName(<<s[i]>>) \o <<"=">>) \o escapeKeyValue(h[s[i]])])
  BY DEF generateHeadersKey
<1>8. Written(S, Single, HeaderTexts(h, use))
          = Joined([i \in DOMAIN s |->
                       (escapeKeyName(Single[s[i]]) \o <<"=">>) \o HeaderTexts(h, use)[s[i]]])
  BY DEF Written
<1> HIDE DEF s
<1>9. [i \in DOMAIN s |-> (escapeKeyName(<<s[i]>>) \o <<"=">>) \o escapeKeyValue(h[s[i]])]
          = [i \in DOMAIN s |->
                (escapeKeyName(Single[s[i]]) \o <<"=">>) \o HeaderTexts(h, use)[s[i]]]
  BY <1>6
<1> QED  BY <1>1, <1>2, <1>3, <1>7, <1>8, <1>9

\* The headers of a key tell which of the configured ones were sent, and their values.
LEMMA HeadersTell ==
    ASSUME NEW q, NEW r, Headers(q), Headers(r), NEW use
    PROVE  /\ generateHeadersKey(q, use) \in Seq(Token)
           /\ Without(AND, generateHeadersKey(q, use))
           /\ generateHeadersKey(q, use) = generateHeadersKey(r, use) =>
                 /\ SentHeaders(q, use) = SentHeaders(r, use)
                 /\ \A n \in SentHeaders(q, use) : q[n] = r[n]
<1>1. Names(Token, Single)
  <2>1. Single \in [Token -> Seq(Token)]
    BY DEF Single
  <2>2. \A x, y \in Token : <<x>> = <<y>> => x = y
    OBVIOUS
  <2> QED  BY <2>1, <2>2 DEF Names, Single
<1> DEFINE S == SentHeaders(q, use)
           T == SentHeaders(r, use)
           tx == HeaderTexts(q, use)
           ty == HeaderTexts(r, use)
<1>2. /\ S \subseteq Token /\ IsFiniteSet(S) /\ tx \in [S -> Seq(Val)]
      /\ generateHeadersKey(q, use) = Written(S, Single, tx)
      /\ \A n \in S : q[n] \in Seq(Token)
  BY HeadersAreWritten
<1>3. /\ T \subseteq Token /\ IsFiniteSet(T) /\ ty \in [T -> Seq(Val)]
      /\ generateHeadersKey(r, use) = Written(T, Single, ty)
      /\ \A n \in T : r[n] \in Seq(Token)
  BY HeadersAreWritten
<1>4. /\ \A n \in S : tx[n] = escapeKeyValue(q[n])
      /\ \A n \in T : ty[n] = escapeKeyValue(r[n])
  BY DEF HeaderTexts
<1> HIDE DEF S, T, tx, ty
<1>5. /\ Written(S, Single, tx) \in Seq(Token) /\ Without(AND, Written(S, Single, tx))
      /\ Written(S, Single, tx) = Written(T, Single, ty) => S = T /\ \A x \in S : tx[x] = ty[x]
  <2>1. S \subseteq Token /\ IsFiniteSet(S) /\ tx \in [S -> Seq(Val)]
    BY <1>2
  <2>2. T \subseteq Token /\ IsFiniteSet(T) /\ ty \in [T -> Seq(Val)]
    BY <1>3
  <2> QED  BY <1>1, <2>1, <2>2, WrittenTells
<1>6. ASSUME generateHeadersKey(q, use) = generateHeadersKey(r, use)
      PROVE  S = T /\ \A n \in S : q[n] = r[n]
  <2>1. S = T /\ \A n \in S : tx[n] = ty[n]
    BY <1>2, <1>3, <1>5, <1>6
  <2>2. \A n \in S :
            q[n] \in Seq(Token) /\ r[n] \in Seq(Token) /\ escapeKeyValue(q[n]) = escapeKeyValue(r[n])
    BY <1>2, <1>3, <1>4, <2>1
  <2> QED  BY <2>1, <2>2, EscapeKeyValueInjective
<1> QED  BY <1>2, <1>5, <1>6 DEF S, T
-----------------------------------------------------------------------------
(* The caller.                                                              *)
PUBLIC == <<"up", ":", "public">>
UpKey(id) == <<"up", ":", id>>
TokenKey(id, type) == <<"token", ":", id, ":", type>>
AdminKey(id) == <<"admin", ":", id>>

\* The five forms of a caller, with its key; i and t are its credentials.
NullForm(a) == a = Null /\ generateAuthKey(a) = <<"unauthenticated">>
PublicForm(a) ==
    /\ a = [strategy |-> "users-permissions", credentials |-> Null]
    /\ generateAuthKey(a) = PUBLIC
UpForm(a, i) ==
    /\ i \in Id /\ a = [strategy |-> "users-permissions", credentials |-> [id |-> i]]
    /\ generateAuthKey(a) = UpKey(i)
TokenForm(api, a, i, t) ==
    /\ i \in Id /\ t \in Id /\ a = [strategy |-> api, credentials |-> [id |-> i, type |-> t]]
    /\ generateAuthKey(a) = TokenKey(i, t)
AdminForm(admin, a, i) ==
    /\ i \in Id /\ a = [strategy |-> admin, credentials |-> [id |-> i]]
    /\ generateAuthKey(a) = AdminKey(i)
Form(api, admin, a, i, t) ==
    \/ NullForm(a) \/ PublicForm(a) \/ UpForm(a, i)
    \/ TokenForm(api, a, i, t) \/ AdminForm(admin, a, i)

\* The cases of generateAuthKey.
LEMMA AuthCases ==
    ASSUME NEW api, NEW admin, AuthNames(api, admin), NEW auth \in Auths(api, admin)
    PROVE  \E i, t : Form(api, admin, auth, i, t)
<1>1. CASE auth = Null
  <2>1. generateAuthKey(auth) = <<"unauthenticated">>
    BY <1>1 DEF generateAuthKey
  <2> QED  BY <1>1, <2>1 DEF Form, NullForm
<1>2. CASE /\ auth # Null
           /\ auth \in [strategy : {"users-permissions"}, credentials : {Null} \union [id : Id]]
  <2>1. auth.strategy = "users-permissions" /\ auth.credentials \in {Null} \union [id : Id]
        /\ auth = [strategy |-> "users-permissions", credentials |-> auth.credentials]
    BY <1>2
  <2>2. CASE auth.credentials = Null
    <3>1. generateAuthKey(auth) = PUBLIC
      BY <1>2, <2>1, <2>2 DEF generateAuthKey, PUBLIC
    <3>2. auth = [strategy |-> "users-permissions", credentials |-> Null]
      BY <2>1, <2>2
    <3> QED  BY <3>1, <3>2 DEF Form, PublicForm
  <2>3. CASE auth.credentials # Null
    <3>1. auth.credentials.id \in Id /\ auth.credentials = [id |-> auth.credentials.id]
      BY <2>1, <2>3
    <3>2. generateAuthKey(auth) = UpKey(auth.credentials.id)
      BY <1>2, <2>1, <2>3 DEF generateAuthKey, UpKey
    <3>3. auth = [strategy |-> "users-permissions", credentials |-> [id |-> auth.credentials.id]]
      BY <2>1, <3>1
    <3>4. UpForm(auth, auth.credentials.id)
      BY <3>1, <3>2, <3>3 DEF UpForm
    <3> QED  BY <3>4 DEF Form
  <2> QED  BY <2>2, <2>3
<1>3. CASE auth # Null /\ auth \in [strategy : {api}, credentials : [id : Id, type : Id]]
  <2>1. auth.strategy = api /\ auth.credentials \in [id : Id, type : Id]
        /\ auth = [strategy |-> api, credentials |-> auth.credentials]
    BY <1>3
  <2>2. /\ auth.credentials.id \in Id /\ auth.credentials.type \in Id
        /\ auth.credentials = [id |-> auth.credentials.id, type |-> auth.credentials.type]
    BY <2>1
  <2>3. api # "users-permissions" /\ api \in {"api-token", "content-api-token"}
    BY DEF AuthNames
  <2>4. generateAuthKey(auth) = TokenKey(auth.credentials.id, auth.credentials.type)
    BY <1>3, <2>1, <2>3 DEF generateAuthKey, TokenKey
  <2>5. auth = [strategy |-> api, credentials |->
                    [id |-> auth.credentials.id, type |-> auth.credentials.type]]
    BY <2>1, <2>2
  <2>6. TokenForm(api, auth, auth.credentials.id, auth.credentials.type)
    BY <2>2, <2>4, <2>5 DEF TokenForm
  <2> QED  BY <2>6 DEF Form
<1>4. CASE auth # Null /\ auth \in [strategy : {admin}, credentials : [id : Id]]
  <2>1. auth.strategy = admin /\ auth.credentials \in [id : Id]
        /\ auth = [strategy |-> admin, credentials |-> auth.credentials]
    BY <1>4
  <2>2. auth.credentials.id \in Id /\ auth.credentials = [id |-> auth.credentials.id]
    BY <2>1
  <2>3. /\ admin # "users-permissions" /\ admin \notin {"api-token", "content-api-token"}
        /\ admin \in {"admin", "admin-token"}
    BY DEF AuthNames
  <2>4. generateAuthKey(auth) = AdminKey(auth.credentials.id)
    BY <1>4, <2>1, <2>3 DEF generateAuthKey, AdminKey
  <2>5. auth = [strategy |-> admin, credentials |-> [id |-> auth.credentials.id]]
    BY <2>1, <2>2
  <2>6. AdminForm(admin, auth, auth.credentials.id)
    BY <2>2, <2>4, <2>5 DEF AdminForm
  <2> QED  BY <2>6 DEF Form
<1> QED  BY <1>1, <1>2, <1>3, <1>4 DEF Auths

\* The keys of two forms differ, and those of one form tell the credentials.
LEMMA AuthKeysDiffer ==
    ASSUME NEW i, NEW t, NEW j, NEW u
    PROVE  /\ <<"unauthenticated">> \notin {PUBLIC, UpKey(i), TokenKey(i, t), AdminKey(i)}
           /\ i \in Id => PUBLIC # UpKey(i)
           /\ PUBLIC \notin {TokenKey(i, t), AdminKey(i)}
           /\ UpKey(i) \notin {TokenKey(j, t), AdminKey(j)} /\ TokenKey(i, t) # AdminKey(j)
           /\ UpKey(i) = UpKey(j) => i = j
           /\ TokenKey(i, t) = TokenKey(j, u) => i = j /\ t = u
           /\ AdminKey(i) = AdminKey(j) => i = j
BY DEF PUBLIC, UpKey, TokenKey, AdminKey, Id

\* A key tells the caller, and holds no "&".
LEMMA AuthTells ==
    ASSUME NEW api, NEW admin, AuthNames(api, admin)
    PROVE  /\ \A a, b \in Auths(api, admin) : generateAuthKey(a) = generateAuthKey(b) => a = b
           /\ \A a \in Auths(api, admin) :
                 generateAuthKey(a) \in Seq(Token) /\ Without(AND, generateAuthKey(a))
<1>1. ASSUME NEW a \in Auths(api, admin), NEW b \in Auths(api, admin),
             generateAuthKey(a) = generateAuthKey(b)
      PROVE  a = b
  <2>1. PICK i, t : Form(api, admin, a, i, t)
    BY AuthCases
  <2>2. PICK j, u : Form(api, admin, b, j, u)
    BY AuthCases
  <2>3. CASE NullForm(a)
    BY <1>1, <2>2, <2>3, AuthKeysDiffer DEF Form, NullForm, PublicForm, UpForm, TokenForm, AdminForm
  <2>4. CASE PublicForm(a)
    BY <1>1, <2>2, <2>4, AuthKeysDiffer DEF Form, NullForm, PublicForm, UpForm, TokenForm, AdminForm
  <2>5. CASE UpForm(a, i)
    BY <1>1, <2>2, <2>5, AuthKeysDiffer DEF Form, NullForm, PublicForm, UpForm, TokenForm, AdminForm
  <2>6. CASE TokenForm(api, a, i, t)
    <3>1. generateAuthKey(b) = TokenKey(i, t) /\ i \in Id
      BY <1>1, <2>6 DEF TokenForm
    <3>2. ~NullForm(b)
      BY <3>1, AuthKeysDiffer DEF NullForm
    <3>3. ~PublicForm(b)
      BY <3>1, AuthKeysDiffer DEF PublicForm
    <3>4. ~UpForm(b, j)
      BY <3>1, AuthKeysDiffer DEF UpForm
    <3>5. ~AdminForm(admin, b, j)
      BY <3>1, AuthKeysDiffer DEF AdminForm
    <3>6. TokenForm(api, b, j, u)
      BY <2>2, <3>2, <3>3, <3>4, <3>5 DEF Form
    <3>7. TokenKey(i, t) = TokenKey(j, u)
      BY <3>1, <3>6 DEF TokenForm
    <3>8. i = j /\ t = u
      BY <3>7, AuthKeysDiffer
    <3> QED  BY <2>6, <3>6, <3>8 DEF TokenForm
  <2>7. CASE AdminForm(admin, a, i)
    BY <1>1, <2>2, <2>7, AuthKeysDiffer DEF Form, NullForm, PublicForm, UpForm, TokenForm, AdminForm
  <2> QED  BY <2>1, <2>3, <2>4, <2>5, <2>6, <2>7 DEF Form
<1>2. ASSUME NEW a \in Auths(api, admin)
      PROVE  generateAuthKey(a) \in Seq(Token) /\ Without(AND, generateAuthKey(a))
  <2>1. PICK i, t : Form(api, admin, a, i, t)
    BY AuthCases
  <2>2. /\ "unauthenticated" \in Token \ {AND} /\ "up" \in Token \ {AND} /\ ":" \in Token \ {AND}
        /\ "public" \in Token \ {AND} /\ "token" \in Token \ {AND} /\ "admin" \in Token \ {AND}
    BY DEF Token, AND
  <2>3. \A x \in Id : x \in Token \ {AND}
    BY DEF Id, Token, AND
  <2>4. \A x, y, z \in Token \ {AND} : <<x, y, z>> \in Seq(Token) /\ Without(AND, <<x, y, z>>)
    BY DEF Without
  <2>5. \A x \in Token \ {AND} : <<x>> \in Seq(Token) /\ Without(AND, <<x>>)
    BY DEF Without
  <2>6. \A v, w, x, y, z \in Token \ {AND} :
            <<v, w, x, y, z>> \in Seq(Token) /\ Without(AND, <<v, w, x, y, z>>)
    BY DEF Without
  <2>7. CASE NullForm(a)
    BY <2>2, <2>5, <2>7 DEF NullForm
  <2>8. CASE PublicForm(a)
    BY <2>2, <2>4, <2>8 DEF PublicForm, PUBLIC
  <2>9. CASE UpForm(a, i)
    BY <2>2, <2>3, <2>4, <2>9 DEF UpForm, UpKey
  <2>10. CASE TokenForm(api, a, i, t)
    <3>1. {i, t, "token", ":"} \subseteq Token \ {AND}
      BY <2>2, <2>3, <2>10 DEF TokenForm
    <3>2. <<"token", ":", i, ":", t>> \in Seq(Token) /\ Without(AND, <<"token", ":", i, ":", t>>)
      BY <2>6, <3>1
    <3> QED  BY <2>10, <3>2 DEF TokenForm, TokenKey
  <2>11. CASE AdminForm(admin, a, i)
    BY <2>2, <2>3, <2>4, <2>11 DEF AdminForm, AdminKey
  <2> QED  BY <2>1, <2>7, <2>8, <2>9, <2>10, <2>11 DEF Form
<1> QED  BY <1>1, <1>2
-----------------------------------------------------------------------------
(* The path.                                                                *)
SLASH == "/"
MARK == "?"
Segment == Seq(Token \ {"/", "?"})
Slash == [g \in Segment |-> <<SLASH>> \o g]
NoMark == Token \ {"?"}
PathKey(path) == Ext!FlattenSeq([i \in DOMAIN path |-> <<"/">> \o path[i]])

\* A segment and its slash, which is the only one.
LEMMA SlashAt ==
    ASSUME NEW g \in Segment
    PROVE  /\ g \in Seq(Token) /\ g \in Seq(NoMark) /\ Without(SLASH, g)
           /\ Slash[g] = <<SLASH>> \o g
           /\ Slash[g] \in Seq(Token) /\ Slash[g] \in Seq(NoMark) /\ Slash[g] # <<>>
<1>1. g \in Seq(Token \ {"/", "?"})
  BY DEF Segment
<1>2. Len(g) \in Nat /\ DOMAIN g = 1 .. Len(g) /\ \A i \in 1 .. Len(g) : g[i] \in Token \ {"/", "?"}
  BY <1>1, LenProperties, ElementOfSeq
<1>3. g \in Seq(Token)
  BY <1>1, <1>2, SeqOf
<1>4. g \in Seq(NoMark)
  BY <1>1, <1>2, SeqOf DEF NoMark
<1>5. Without(SLASH, g)
  BY <1>2 DEF Without, SLASH
<1>6. SLASH \in Token /\ SLASH \in NoMark
  BY DEF SLASH, Token, NoMark
<1>7. <<SLASH>> \in Seq(Token) /\ <<SLASH>> \in Seq(NoMark)
  BY <1>6
<1>8. /\ <<SLASH>> \o g \in Seq(Token) /\ <<SLASH>> \o g \in Seq(NoMark)
      /\ Len(<<SLASH>> \o g) = 1 + Len(g)
  BY <1>3, <1>4, <1>7, ConcatProperties
<1>9. <<SLASH>> \o g # <<>>
  BY <1>2, <1>8
<1>10. Slash[g] = <<SLASH>> \o g
  BY DEF Slash
<1> QED  BY <1>3, <1>4, <1>5, <1>8, <1>9, <1>10

\* Segments with their slashes can be told from the end.
LEMMA SlashIsSuffixCode == SuffixCode(Segment, Token, Slash)
<1>1. Slash \in [Segment -> Seq(Token)] /\ \A g \in Segment : Slash[g] # <<>>
  BY SlashAt DEF Slash
<1>2. SLASH \in Token
  BY DEF SLASH, Token
<1>3. ASSUME NEW x \in Segment, NEW y \in Segment, NEW u \in Seq(Token), NEW v \in Seq(Token),
             u \o Slash[x] = v \o Slash[y]
      PROVE  u = v /\ x = y
  <2>1. x \in Seq(Token) /\ y \in Seq(Token) /\ Without(SLASH, x) /\ Without(SLASH, y)
    BY SlashAt
  <2>2. ASSUME NEW g \in Segment, NEW w \in Seq(Token)
        PROVE  w \o Slash[g] = Cat(Cat(w, <<SLASH>>), g)
    <3> DEFINE c == <<SLASH>>
    <3>1. g \in Seq(Token) /\ c \in Seq(Token)
      BY <1>2, SlashAt
    <3>2. Slash[g] = c \o g
      BY SlashAt
    <3> HIDE DEF c
    <3>3. (w \o c) \o g = w \o (c \o g)
      <4>1. Associative(Seq(Token))
        BY Assoc
      <4> QED  BY <3>1, <4>1 DEF Associative
    <3> QED  BY <3>2, <3>3 DEF Cat, c
  <2>3. Cat(Cat(u, <<SLASH>>), x) = Cat(Cat(v, <<SLASH>>), y)
    BY <1>3, <2>2
  <2> QED  BY <1>2, <2>1, <2>3, LastSplit
<1> QED  BY <1>1, <1>3 DEF SuffixCode

\* The text of a path tells the path, and holds no question mark.
LEMMA PathTells ==
    /\ \A p, q \in Seq(Segment) : PathKey(p) = PathKey(q) => p = q
    /\ \A p \in Seq(Segment) : PathKey(p) \in Seq(Token) /\ Without(MARK, PathKey(p))
<1>1. ASSUME NEW p \in Seq(Segment) PROVE PathKey(p) = Coded(Slash, p)
  <2>1. \A i \in DOMAIN p : Slash[p[i]] = <<"/">> \o p[i]
    <3>1. \A i \in DOMAIN p : p[i] \in Segment
      BY Elements
    <3> QED  BY <3>1, SlashAt DEF SLASH
  <2>2. [i \in DOMAIN p |-> <<"/">> \o p[i]] = [i \in DOMAIN p |-> Slash[p[i]]]
    BY <2>1
  <2> QED  BY <2>2 DEF PathKey, Coded
<1>2. \A p, q \in Seq(Segment) : Coded(Slash, p) = Coded(Slash, q) => p = q
  BY SlashIsSuffixCode, SuffixDecodes
<1>3. ASSUME NEW p \in Seq(Segment)
      PROVE  PathKey(p) \in Seq(Token) /\ Without(MARK, PathKey(p))
  <2>1. Slash \in [Segment -> Seq(Token)] /\ Slash \in [Segment -> Seq(NoMark)]
    BY SlashAt DEF Slash
  <2> DEFINE k == Coded(Slash, p)
  <2>2. k \in Seq(Token) /\ k \in Seq(NoMark)
    BY <2>1, CodedType
  <2> HIDE DEF k
  <2>3. \A i \in DOMAIN k : k[i] \in NoMark
    BY <2>2, Elements
  <2>4. Without(MARK, k)
    BY <2>3 DEF Without, NoMark, MARK
  <2> QED  BY <1>1, <2>2, <2>4 DEF k
<1> QED  BY <1>1, <1>2, <1>3
-----------------------------------------------------------------------------
(* The key.                                                                 *)
Request(q, api, admin) ==
    /\ NormalizedPath(q.path) \in Seq(Segment)
    /\ Query(q.query) /\ Headers(q.headers) /\ q.auth \in Auths(api, admin)
\* The caller's part of a key.
AuthPart(q, keys) == IF Truthy(keys.useAuth) THEN generateAuthKey(q.auth) ELSE <<>>

\* A key of a path, a query, headers and a caller.
Key(p, b, h, a) == Cat(Cat(Cat(Cat(Cat(Cat(p, <<MARK>>), b), <<AND>>), h), <<AND>>), a)
\* Parts that hold none of the separators that end them.
Parted(p, b, h, a) ==
    /\ p \in Seq(Token) /\ b \in Seq(Token) /\ h \in Seq(Token) /\ a \in Seq(Token)
    /\ Without(MARK, p) /\ Without(AND, h) /\ Without(AND, a)

\* generateCacheKey writes such a key.
LEMMA KeyParts ==
    ASSUME NEW q, NEW keys
    PROVE  generateCacheKey(q, keys) =
               Key(PathKey(NormalizedPath(q.path)),
                   generateQueryParamsKey(q.query, keys.useQueryParams),
                   generateHeadersKey(q.headers, keys.useHeaders), AuthPart(q, keys))
BY DEF generateCacheKey, Key, Cat, PathKey, MARK, AND, AuthPart

\* They can be told apart.
LEMMA PartsTold ==
    ASSUME NEW p, NEW b, NEW h, NEW a, NEW q, NEW c, NEW i, NEW d,
           Parted(p, b, h, a), Parted(q, c, i, d), Key(p, b, h, a) = Key(q, c, i, d)
    PROVE  p = q /\ b = c /\ h = i /\ a = d
<1>1. /\ {p, b, h, a, q, c, i, d} \subseteq Seq(Token)
      /\ Without(MARK, p) /\ Without(AND, h) /\ Without(AND, a)
      /\ Without(MARK, q) /\ Without(AND, i) /\ Without(AND, d)
  BY DEF Parted
<1>2. AND \in Token /\ MARK \in Token
  BY DEF AND, MARK, Token
<1>3. <<AND>> \in Seq(Token) /\ <<MARK>> \in Seq(Token)
  BY <1>2
<1>4. \A x, y \in Seq(Token) : Cat(x, y) \in Seq(Token)
  BY CatAssoc
<1> DEFINE p1 == Cat(Cat(p, <<MARK>>), b)
           q1 == Cat(Cat(q, <<MARK>>), c)
           p2 == Cat(Cat(p1, <<AND>>), h)
           q2 == Cat(Cat(q1, <<AND>>), i)
<1>5. p1 \in Seq(Token) /\ q1 \in Seq(Token)
  BY <1>1, <1>3, <1>4
<1>6. p2 \in Seq(Token) /\ q2 \in Seq(Token)
  <2> HIDE DEF p1, q1
  <2> QED  BY <1>1, <1>3, <1>4, <1>5
<1>7. p2 = q2 /\ a = d
  <2>1. Cat(Cat(p2, <<AND>>), a) = Cat(Cat(q2, <<AND>>), d)
    BY DEF Key
  <2> HIDE DEF p2, q2
  <2> QED  BY <1>1, <1>2, <1>6, <2>1, LastSplit
<1>8. p1 = q1 /\ h = i
  <2>1. Cat(Cat(p1, <<AND>>), h) = Cat(Cat(q1, <<AND>>), i)
    BY <1>7
  <2> HIDE DEF p1, q1
  <2> QED  BY <1>1, <1>2, <1>5, <2>1, LastSplit
<1>9. p = q /\ b = c
  BY <1>1, <1>2, <1>8, FirstSplit
<1> QED  BY <1>7, <1>8, <1>9

\* A key tells the path, and what its route's keys tell apart.
LEMMA KeyTells ==
    ASSUME NEW api, NEW admin, AuthNames(api, admin), NEW q, NEW r,
           Request(q, api, admin), Request(r, api, admin), NEW keys, NEW others,
           generateCacheKey(q, keys) = generateCacheKey(r, others)
    PROVE  /\ NormalizedPath(q.path) = NormalizedPath(r.path)
           /\ keys = others =>
                 /\ Selected(q.query, keys.useQueryParams) = Selected(r.query, keys.useQueryParams)
                 /\ \A n \in Selected(q.query, keys.useQueryParams) : q.query[n] = r.query[n]
                 /\ SentHeaders(q.headers, keys.useHeaders) = SentHeaders(r.headers, keys.useHeaders)
                 /\ \A n \in SentHeaders(q.headers, keys.useHeaders) : q.headers[n] = r.headers[n]
                 /\ Truthy(keys.useAuth) => q.auth = r.auth
<1> DEFINE path(x) == PathKey(NormalizedPath(x.path))
           query(x, ks) == generateQueryParamsKey(x.query, ks.useQueryParams)
           headers(x, ks) == generateHeadersKey(x.headers, ks.useHeaders)
<1>1. ASSUME NEW x, Request(x, api, admin), NEW ks
      PROVE  Parted(path(x), query(x, ks), headers(x, ks), AuthPart(x, ks))
  <2>1. path(x) \in Seq(Token) /\ Without(MARK, path(x))
    BY <1>1, PathTells DEF Request
  <2>2. query(x, ks) \in Seq(Token)
    BY <1>1, QueryTells DEF Request
  <2>3. headers(x, ks) \in Seq(Token) /\ Without(AND, headers(x, ks))
    BY <1>1, HeadersTell DEF Request
  <2>4. generateAuthKey(x.auth) \in Seq(Token) /\ Without(AND, generateAuthKey(x.auth))
    BY <1>1, AuthTells DEF Request
  <2>5. <<>> \in Seq(Token) /\ Without(AND, <<>>)
    BY DEF Without
  <2>6. AuthPart(x, ks) \in Seq(Token) /\ Without(AND, AuthPart(x, ks))
    BY <2>4, <2>5 DEF AuthPart
  <2> QED  BY <2>1, <2>2, <2>3, <2>6 DEF Parted
<1>2. /\ path(q) = path(r) /\ query(q, keys) = query(r, others)
      /\ headers(q, keys) = headers(r, others) /\ AuthPart(q, keys) = AuthPart(r, others)
  <2>1. Key(path(q), query(q, keys), headers(q, keys), AuthPart(q, keys))
            = Key(path(r), query(r, others), headers(r, others), AuthPart(r, others))
    BY KeyParts
  <2>2. /\ Parted(path(q), query(q, keys), headers(q, keys), AuthPart(q, keys))
        /\ Parted(path(r), query(r, others), headers(r, others), AuthPart(r, others))
    BY <1>1
  <2> HIDE DEF path, query, headers
  <2> QED  BY <2>1, <2>2, PartsTold
<1>3. NormalizedPath(q.path) = NormalizedPath(r.path)
  BY <1>2, PathTells DEF Request
<1>4. ASSUME keys = others
      PROVE  /\ Selected(q.query, keys.useQueryParams) = Selected(r.query, keys.useQueryParams)
             /\ \A n \in Selected(q.query, keys.useQueryParams) : q.query[n] = r.query[n]
  BY <1>2, <1>4, QueryTells DEF Request
<1>5. ASSUME keys = others
      PROVE  /\ SentHeaders(q.headers, keys.useHeaders) = SentHeaders(r.headers, keys.useHeaders)
             /\ \A n \in SentHeaders(q.headers, keys.useHeaders) : q.headers[n] = r.headers[n]
  BY <1>2, <1>5, HeadersTell DEF Request
<1>6. ASSUME keys = others, Truthy(keys.useAuth) PROVE q.auth = r.auth
  BY <1>2, <1>6, AuthTells DEF Request, AuthPart
<1> QED  BY <1>3, <1>4, <1>5, <1>6
\* Sequences over A are sequences over B.
LEMMA SeqMono == ASSUME NEW A, NEW B, A \subseteq B PROVE Seq(A) \subseteq Seq(B)
<1> SUFFICES ASSUME NEW s \in Seq(A) PROVE s \in Seq(B)
  OBVIOUS
<1>1. \A i \in 1 .. Len(s) : s[i] \in B
  BY LenProperties, ElementOfSeq
<1> QED  BY <1>1, SeqOf

\* In what a request may hold, text is a sequence of tokens,
LEMMA TextIs == STRING \subseteq Token /\ Text \subseteq Seq(Token)
<1>1. STRING \subseteq Token
  BY DEF Token
<1> QED  BY <1>1, SeqMono DEF Text

\* a query's values are values here,
LEMMA QueryValuesAre == QueryValues \subseteq Values
<1>1. {Null} \union Text \subseteq Leaf
  BY TextIs DEF Leaf
<1>2. [name : {Null}, value : {Null} \union Text] \subseteq Unnamed
  BY <1>1 DEF Unnamed
<1>3. [name : Text \ {Null}, value : {Null} \union Text] \subseteq Named
  BY <1>1, TextIs DEF Named
<1>4. QueryFields \subseteq Fields
  BY <1>2, <1>3, SeqMono DEF QueryFields, Fields
<1>5. [kind : {"string"}, string : Text] \subseteq [kind : {"string"}, string : Seq(Token)]
  BY TextIs
<1>6. [kind : {"object"}, fields : QueryFields] \subseteq [kind : {"object"}, fields : Fields]
  BY <1>4
<1> QED  BY <1>5, <1>6 DEF QueryValues, Values

\* and a request is one in tokens.
LEMMA RequestIs ==
    ASSUME NEW q, IsRequest(q), NEW api, NEW admin, q.auth \in Auths(api, admin)
    PROVE  Request(q, api, admin)
<1>1. NormalizedPath(q.path) \in Seq(Segment)
  <2>1. STRING \ {"/", "?"} \subseteq Token \ {"/", "?"}
    BY TextIs
  <2>2. Seq(STRING \ {"/", "?"}) \subseteq Segment
    BY <2>1, SeqMono DEF Segment
  <2>3. Seq(Seq(STRING \ {"/", "?"})) \subseteq Seq(Segment)
    BY <2>2, SeqMono
  <2> QED  BY <2>3 DEF IsRequest
<1>2. Query(q.query)
  BY TextIs, QueryValuesAre DEF IsRequest, Query
<1>3. Headers(q.headers)
  BY TextIs DEF IsRequest, Headers
<1> QED  BY <1>1, <1>2, <1>3 DEF Request

\* What the parts of a key that its route selects tell of two requests.
SameParts(q, r, keys) ==
    /\ Selected(q.query, keys.useQueryParams) = Selected(r.query, keys.useQueryParams)
    /\ \A n \in Selected(q.query, keys.useQueryParams) : q.query[n] = r.query[n]
    /\ SentHeaders(q.headers, keys.useHeaders) = SentHeaders(r.headers, keys.useHeaders)
    /\ \A n \in SentHeaders(q.headers, keys.useHeaders) : q.headers[n] = r.headers[n]
    /\ Truthy(keys.useAuth) => q.auth = r.auth

(* Two requests have one key only if they have one path, and then, under    *)
(* the same `keys`, the same selected parameters and headers with the same  *)
(* values and, where the key holds the caller, the same caller: whatever    *)
(* text a query or a header holds, it cannot pose as another parameter,     *)
(* header or caller (escapeKeyPart.ts; generateCacheKey.ts: "a request      *)
(* cannot move a boundary").                                                *)
THEOREM KeysTell ==
    ASSUME NEW api, NEW admin, AuthNames(api, admin),
           NEW q, IsRequest(q), q.auth \in Auths(api, admin),
           NEW r, IsRequest(r), r.auth \in Auths(api, admin),
           NEW keys, NEW others, generateCacheKey(q, keys) = generateCacheKey(r, others)
    PROVE  /\ NormalizedPath(q.path) = NormalizedPath(r.path)
           /\ keys = others => SameParts(q, r, keys)
<1>1. Request(q, api, admin) /\ Request(r, api, admin)
  BY RequestIs
<1> QED  BY <1>1, KeyTells DEF SameParts


=============================================================================
