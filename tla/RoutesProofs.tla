----------------------------- MODULE RoutesProofs -----------------------------
(* goji's table of routes is sorted by prefix, but its first match is the first  *)
(* match of the routes in the order in which they were added; and the bytecode   *)
(* that the table is compiled to finds that match.                             *)
EXTENDS Router, FiniteSetTheorems, SequenceTheorems, WellFoundedInduction, TLAPS

-----------------------------------------------------------------------------
(* Numbers.                                                                   *)

\* A set of numbers that has an element has a first one.
LEMMA FirstExists ==
    ASSUME NEW S \in SUBSET Nat, S # {}
    PROVE  \E i \in S : \A j \in S : i <= j
  <1> DEFINE R == {ss \in Nat \X Nat : ss[1] < ss[2]}
  <1>1. IsWellFoundedOn(R, Nat)
    BY NatLessThanWellFounded DEF OpToRel
  <1> HIDE DEF R
  <1>2. PICK i \in S : \A j \in S : <<j, i>> \notin R
    BY <1>1, WFMin
  <1>3. ASSUME NEW j \in S PROVE i <= j
    <2>1. ~(j < i)
      <3>1. SUFFICES ASSUME j < i PROVE <<j, i>> \in R
        BY <1>2
      <3> QED
        BY <3>1 DEF R
    <2> QED
      BY <2>1
  <1> QED
    BY <1>3

\* Induction over a set of numbers: what is left out would have a first element.
LEMMA EveryNumber ==
    ASSUME NEW S \in SUBSET Nat, 0 \in S, \A k \in S : k + 1 \in S
    PROVE  \A k \in Nat : k \in S
  <1> DEFINE left == Nat \ S
  <1>1. SUFFICES ASSUME left # {} PROVE FALSE
    OBVIOUS
  <1>2. PICK i \in left : \A j \in left : i <= j
    BY <1>1, FirstExists
  <1>3. i \in Nat /\ i # 0 /\ i \notin S
    OBVIOUS
  <1>4. i - 1 \in Nat /\ ~(i <= i - 1) /\ (i - 1) + 1 = i
    BY <1>3
  <1>5. i - 1 \in S
    BY <1>2, <1>4
  <1> QED
    BY <1>3, <1>4, <1>5

\* The last of finitely many numbers.
LEMMA LastExists ==
    ASSUME NEW n \in Nat, NEW S \in SUBSET (1..n), S # {}
    PROVE  \E i \in S : \A j \in S : j <= i
  <1> DEFINE R == {n - i : i \in S}
  <1>1. R \in SUBSET Nat /\ R # {}
    <2>1. \A i \in S : n - i \in Nat
      OBVIOUS
    <2> QED
      BY <2>1
  <1>2. PICK k \in R : \A j \in R : k <= j
    BY <1>1, FirstExists
  <1>3. PICK i \in S : k = n - i
    OBVIOUS
  <1>4. \A j \in S : n - i <= n - j
    BY <1>2, <1>3
  <1> QED
    BY <1>4

-----------------------------------------------------------------------------
(* Prefixes.                                                                  *)

\* A prefix has the first elements of the sequence.
LEMMA PrefixElements ==
    ASSUME NEW s \in Seq(Nat), NEW t \in Seq(Nat)
    PROVE  IsPrefix(s, t) <=> Len(s) <= Len(t) /\ \A i \in 1..Len(s) : s[i] = t[i]
  <1> DEFINE n == Len(s)
             a == SubSeq(s, 1, n)
             b == SubSeq(t, 1, n)
  <1>1. n \in Nat /\ Len(t) \in Nat
    OBVIOUS
  <1>2. ASSUME n <= Len(t)
        PROVE  a = b <=> \A i \in 1..n : s[i] = t[i]
    <2>1. a \in Seq(Nat) /\ Len(a) = n /\ \A i \in 1..n : a[i] = s[i]
      BY <1>1
    <2>2. b \in Seq(Nat) /\ Len(b) = n /\ \A i \in 1..n : b[i] = t[i]
      BY <1>1, <1>2
    <2> HIDE DEF a, b
    <2>3. (\A i \in 1..n : a[i] = b[i]) => a = b
      BY <2>1, <2>2, SeqEqual
    <2> QED
      BY <2>1, <2>2, <2>3
  <1> QED
    BY <1>1, <1>2 DEF IsPrefix

\* Of two prefixes of a path, one is a prefix of the other.
LEMMA TwoPrefixes ==
    ASSUME NEW s \in Seq(Nat), NEW t \in Seq(Nat), NEW path \in Seq(Nat),
           IsPrefix(s, path), IsPrefix(t, path)
    PROVE  IsPrefix(s, t) \/ IsPrefix(t, s)
  <1>1. /\ \A i \in 1..Len(s) : s[i] = path[i]
        /\ \A i \in 1..Len(t) : t[i] = path[i]
        /\ Len(s) \in Nat /\ Len(t) \in Nat
    BY PrefixElements
  <1>2. CASE Len(s) <= Len(t)
    <2>1. \A i \in 1..Len(s) : i \in 1..Len(t)
      BY <1>1, <1>2
    <2>2. \A i \in 1..Len(s) : s[i] = t[i]
      BY <1>1, <2>1
    <2> QED
      BY <1>2, <2>2, PrefixElements
  <1>3. CASE Len(t) <= Len(s)
    <2>1. \A i \in 1..Len(t) : i \in 1..Len(s)
      BY <1>1, <1>3
    <2>2. \A i \in 1..Len(t) : t[i] = s[i]
      BY <1>1, <2>1
    <2> QED
      BY <1>3, <2>2, PrefixElements
  <1> QED
    BY <1>1, <1>2, <1>3

-----------------------------------------------------------------------------
(* Patterns.                                                                  *)

\* A pattern has a literal in front of each parameter and one behind the last; the first
\* is its prefix.
WellFormed(p) ==
    /\ Len(p.pats) \in Nat
    /\ Len(p.literals) = Len(p.pats) + 1
    /\ Prefix(p) \in Seq(Nat)

\* The length of a sequence that is written as a function.
LEMMA LengthOf ==
    ASSUME NEW n \in Nat, NEW f, DOMAIN f = 1..n, f = [i \in 1..n |-> f[i]]
    PROVE  Len(f) = n
  <1> DEFINE T == {f[i] : i \in 1..n}
  <1>1. f \in [1..n -> T]
    OBVIOUS
  <1> HIDE DEF T
  <1>2. f \in Seq(T)
    BY <1>1
  <1> QED
    BY <1>1, <1>2

\* parseStringPattern gives such a pattern: the first literal ends in front of the first
\* colon that begins a parameter.
LEMMA PatternsAreWellFormed ==
    ASSUME NEW raw \in Seq(Nat)
    PROVE  WellFormed(parseStringPattern(raw))
  <1> DEFINE w == IsSuffix(<<Slash, Star>>, raw)
             s == IF w THEN Front(raw) ELSE raw
             colons == {i \in 2..Len(s) - 1 : /\ s[i] = Colon
                                              /\ s[i - 1] \in Separators /\ s[i + 1] \notin Separators}
             place(k) == CHOOSE i \in colons : Cardinality({j \in colons : j <= i}) = k
             at == [k \in 1..Cardinality(colons) |-> place(k)]
             end == [i \in DOMAIN at |->
                        CHOOSE e \in at[i] + 1..Len(s) + 1 :
                            /\ e = Len(s) + 1 \/ s[e] \in Separators
                            /\ \A j \in at[i] + 1..e - 1 : s[j] \notin Separators]
             pat(i) == SubSeq(s, at[i] + 1, end[i] - 1)
             literal(i) == SubSeq(s, IF i = 1 THEN 1 ELSE end[i - 1],
                                     IF i > Len(at) THEN Len(s) ELSE at[i] - 1)
             c == Cardinality(colons)
             p == parseStringPattern(raw)
  <1>1. p = [wildcard |-> w,
             pats |-> [i \in DOMAIN at |-> pat(i)],
             breaks |-> [i \in DOMAIN at |-> IF end[i] > Len(s) THEN Slash ELSE s[end[i]]],
             literals |-> [i \in 1..Len(at) + 1 |-> literal(i)]]
    BY DEF parseStringPattern
  <1>2. s \in Seq(Nat)
    <2>1. Front(raw) \in Seq(Nat)
      <3>1. Len(raw) \in Nat /\ \A i \in 1..Len(raw) - 1 : raw[i] \in Nat
        OBVIOUS
      <3>2. SubSeq(raw, 1, Len(raw) - 1) \in Seq(Nat)
        BY <3>1, SubSeqProperties
      <3> QED
        BY <3>2 DEF Front
    <2> HIDE DEF w
    <2> QED
      BY <2>1
  <1> HIDE DEF w, s, place, pat, literal, p, at, end
  <1>3. IsFiniteSet(colons) /\ c \in Nat /\ colons \in SUBSET (2..Len(s) - 1)
    <2>1. Len(s) \in Nat
      BY <1>2
    <2>2. IsFiniteSet(2..Len(s) - 1) /\ colons \subseteq 2..Len(s) - 1
      <3>1. Len(s) - 1 \in Int
        BY <2>1
      <3> QED
        BY <3>1, FS_Interval
    <2> HIDE DEF colons
    <2> QED
      BY <2>2, FS_Subset, FS_CardinalityType
  <1> HIDE DEF colons
  <1>4. at = [k \in 1..c |-> place(k)]
    BY DEF at
  <1>5. DOMAIN at = 1..c /\ Len(at) = c
    <2> HIDE DEF c
    <2>1. at = [k \in 1..c |-> at[k]] /\ DOMAIN at = 1..c
      BY <1>4
    <2> QED
      BY <1>3, <2>1, LengthOf
  <1>6. c # 0 => at[1] \in colons
    <2> SUFFICES ASSUME c # 0 PROVE at[1] \in colons
      OBVIOUS
    <2>1. colons # {} /\ colons \in SUBSET Int
      BY <1>3, FS_EmptySet
    <2>2. colons \in SUBSET Nat
      BY <1>3
    <2>3. PICK i \in colons : \A j \in colons : i <= j
      BY <2>1, <2>2, FirstExists
    <2>4. \A j \in colons : j <= i => j = i
      BY <2>1, <2>3
    <2>5. {j \in colons : j <= i} = {i}
      <3>1. i <= i
        BY <2>1
      <3> QED
        BY <2>4, <3>1
    <2>6. Cardinality({j \in colons : j <= i}) = 1
      BY <2>5, FS_Singleton
    <2>7. place(1) \in colons
      BY <2>6 DEF place
    <2> HIDE DEF c
    <2> QED
      BY <1>3, <1>4, <2>7
  <1> HIDE DEF c
  <1>7. literal(1) \in Seq(Nat)
    <2>1. Len(s) \in Nat /\ \A i \in 1..Len(s) : s[i] \in Nat
      BY <1>2
    <2>2. CASE c = 0
      <3>1. literal(1) = SubSeq(s, 1, Len(s))
        BY <1>5, <2>2 DEF literal
      <3> QED
        BY <1>2, <3>1, SubSeqFull
    <2>3. CASE c # 0
      <3> DEFINE n == at[1] - 1
      <3>1. at[1] \in 2..Len(s) - 1
        BY <1>3, <1>6, <2>3
      <3>2. n \in Int /\ n <= Len(s)
        BY <2>1, <3>1
      <3>3. ~(1 > Len(at))
        BY <1>3, <1>5, <2>3
      <3>4. literal(1) = SubSeq(s, 1, n)
        BY <3>3 DEF literal
      <3> HIDE DEF n
      <3>5. \A i \in 1..n : s[i] \in Nat
        BY <2>1, <3>2
      <3> QED
        BY <3>2, <3>4, <3>5, SubSeqProperties
    <2> QED
      BY <2>2, <2>3
  <1>8. Len([i \in DOMAIN at |-> pat(i)]) = c
    <2> DEFINE f == [i \in 1..c |-> pat(i)]
    <2>1. f = [i \in 1..c |-> f[i]] /\ DOMAIN f = 1..c
      OBVIOUS
    <2>2. f = [i \in DOMAIN at |-> pat(i)]
      BY <1>5
    <2> HIDE DEF f
    <2>3. Len(f) = c
      BY <1>3, <2>1, LengthOf
    <2> QED
      BY <2>2, <2>3
  <1>9. /\ Len([i \in 1..Len(at) + 1 |-> literal(i)]) = c + 1
        /\ [i \in 1..Len(at) + 1 |-> literal(i)][1] = literal(1)
    <2> DEFINE f == [i \in 1..c + 1 |-> literal(i)]
    <2>1. f = [i \in 1..c + 1 |-> f[i]] /\ DOMAIN f = 1..c + 1
      OBVIOUS
    <2>2. f = [i \in 1..Len(at) + 1 |-> literal(i)]
      BY <1>5
    <2>3. f[1] = literal(1)
      BY <1>3
    <2> HIDE DEF f
    <2>4. c + 1 \in Nat
      BY <1>3
    <2>5. Len(f) = c + 1
      BY <2>1, <2>4, LengthOf
    <2> QED
      BY <2>2, <2>3, <2>5
  <1>10. /\ p.pats = [i \in DOMAIN at |-> pat(i)]
         /\ p.literals = [i \in 1..Len(at) + 1 |-> literal(i)]
    BY <1>1
  <1>11. Len(p.pats) = c /\ Len(p.literals) = c + 1 /\ Prefix(p) = literal(1)
    BY <1>8, <1>9, <1>10 DEF Prefix
  <1>12. WellFormed(p)
    BY <1>3, <1>7, <1>11 DEF WellFormed
  <1> QED
    BY <1>12 DEF p

\* What a pattern is without a parameter: one literal.
LEMMA NoParameters ==
    ASSUME NEW raw, NEW w \in BOOLEAN, w = IsSuffix(<<Slash, Star>>, raw),
           NEW s \in Seq(Nat), s = IF w THEN Front(raw) ELSE raw,
           \A i \in DOMAIN s : s[i] # Colon
    PROVE  /\ parseStringPattern(raw).wildcard = w
           /\ parseStringPattern(raw).pats = <<>>
           /\ parseStringPattern(raw).literals = <<s>>
  <1> DEFINE colons == {i \in 2..Len(s) - 1 : /\ s[i] = Colon
                                              /\ s[i - 1] \in Separators /\ s[i + 1] \notin Separators}
             place(k) == CHOOSE i \in colons : Cardinality({j \in colons : j <= i}) = k
             at == [k \in 1..Cardinality(colons) |-> place(k)]
             end == [i \in DOMAIN at |->
                        CHOOSE e \in at[i] + 1..Len(s) + 1 :
                            /\ e = Len(s) + 1 \/ s[e] \in Separators
                            /\ \A j \in at[i] + 1..e - 1 : s[j] \notin Separators]
             literal(i) == SubSeq(s, IF i = 1 THEN 1 ELSE end[i - 1],
                                     IF i > Len(at) THEN Len(s) ELSE at[i] - 1)
  <1>1. Cardinality(colons) = 0
    <2>1. \A i \in 2..Len(s) - 1 : s[i] # Colon
      <3>1. \A i \in 2..Len(s) - 1 : i \in DOMAIN s
        <4>1. DOMAIN s = 1..Len(s) /\ Len(s) \in Nat
          OBVIOUS
        <4> QED
          BY ONLY <4>1
      <3> QED
        BY <3>1
    <2>2. colons = {}
      BY <2>1
    <2> HIDE DEF colons
    <2> QED
      BY <2>2, FS_EmptySet
  <1>2. at = <<>>
    <2> HIDE DEF place, colons
    <2>1. at = [k \in 1..0 |-> place(k)]
      BY <1>1
    <2> HIDE DEF at
    <2> QED
      BY <2>1
  <1>3. parseStringPattern(raw) =
            [wildcard |-> w,
             pats |-> [i \in DOMAIN at |-> SubSeq(s, at[i] + 1, end[i] - 1)],
             breaks |-> [i \in DOMAIN at |-> IF end[i] > Len(s) THEN Slash ELSE s[end[i]]],
             literals |-> [i \in 1..Len(at) + 1 |-> literal(i)]]
    BY DEF parseStringPattern
  <1> HIDE DEF at, end, colons
  <1>4. [i \in 1..Len(at) + 1 |-> literal(i)] = <<s>>
    <2>1. Len(at) = 0
      BY <1>2
    <2>2. literal(1) = s
      BY <2>1
    <2> QED
      BY <2>1, <2>2
  <1>5. [i \in DOMAIN at |-> SubSeq(s, at[i] + 1, end[i] - 1)] = <<>>
    BY <1>2
  <1> HIDE DEF literal
  <1> QED
    BY ONLY <1>3, <1>4, <1>5

\* Such a pattern matches the path that is its literal, or that begins with it.
LEMMA LiteralMatches ==
    ASSUME NEW p, NEW s, p.pats = <<>>, p.literals = <<s>>, p.wildcard \in BOOLEAN, NEW path
    PROVE  Matches(p, path) <=> IF p.wildcard THEN IsPrefix(s, path) ELSE path = s
  <1> DEFINE unread == [rest |-> path, bound |-> <<>>]
             start == {unread}
             after[i \in 0..Len(p.pats)] ==
                 IF i = 0 THEN start
                 ELSE UNION {Step(m, p.literals[i], p.breaks[i]) : m \in after[i - 1]}
  <1>1. Consume(p, path) = {m \in after[Len(p.pats)] :
            IF p.wildcard THEN IsPrefix(Last(p.literals), m.rest) ELSE m.rest = Last(p.literals)}
    BY DEF Consume
  <1>2. after[0] = start
    <2> DEFINE f == [i \in 0..Len(p.pats) |-> start]
    <2>1. Len(p.pats) = 0
      OBVIOUS
    <2>2. f = [i \in 0..Len(p.pats) |-> IF i = 0 THEN start
                 ELSE UNION {Step(m, p.literals[i], p.breaks[i]) : m \in f[i - 1]}]
      BY <2>1
    <2>3. after = CHOOSE g : g = [i \in 0..Len(p.pats) |-> IF i = 0 THEN start
                 ELSE UNION {Step(m, p.literals[i], p.breaks[i]) : m \in g[i - 1]}]
      BY DEF after
    <2>4. after = [i \in 0..Len(p.pats) |-> IF i = 0 THEN start
                 ELSE UNION {Step(m, p.literals[i], p.breaks[i]) : m \in after[i - 1]}]
      <3> HIDE DEF after, f
      <3> QED
        BY <2>2, <2>3
    <2> QED
      <3> HIDE DEF after
      <3>1. 0 \in 0..Len(p.pats)
        BY <2>1
      <3> QED
        BY <2>4, <3>1
  <1> HIDE DEF after
  <1>3. Last(p.literals) = s /\ Len(p.pats) = 0
    BY DEF Last
  <1>4. Consume(p, path) = {m \in start : IF p.wildcard THEN IsPrefix(s, m.rest) ELSE m.rest = s}
    BY <1>1, <1>2, <1>3
  <1>5. unread.rest = path
    OBVIOUS
  <1> HIDE DEF unread
  <1>6. Matches(p, path) <=> IF p.wildcard THEN IsPrefix(s, unread.rest) ELSE unread.rest = s
    BY <1>4 DEF Matches
  <1> QED
    BY <1>5, <1>6

\* A path that a pattern matches begins with the pattern's prefix.  The function after of
\* Consume exists, as it can be continued by one parameter; and where it is empty it stays so.
LEMMA MatchesPrefix ==
    ASSUME NEW p, WellFormed(p), NEW path, Matches(p, path)
    PROVE  IsPrefix(Prefix(p), path)
  <1> DEFINE n == Len(p.pats)
             unread == [rest |-> path, bound |-> <<>>]
             start == {unread}
             Then(i, X) == UNION {Step(m, p.literals[i], p.breaks[i]) : m \in X}
             after[i \in 0..Len(p.pats)] ==
                 IF i = 0 THEN start
                 ELSE UNION {Step(m, p.literals[i], p.breaks[i]) : m \in after[i - 1]}
  <1>1. Consume(p, path) = {m \in after[Len(p.pats)] :
            IF p.wildcard THEN IsPrefix(Last(p.literals), m.rest) ELSE m.rest = Last(p.literals)}
    BY DEF Consume
  <1>2. n \in Nat /\ Len(p.literals) = n + 1 /\ Prefix(p) = p.literals[1] /\ Prefix(p) \in Seq(Nat)
    BY DEF WellFormed, Prefix
  <1> HIDE DEF start
  <1>3. after = [i \in 0..n |-> IF i = 0 THEN start ELSE Then(i, after[i - 1])]
    <2>1. \E f : f = [i \in 0..n |-> IF i = 0 THEN start ELSE Then(i, f[i - 1])]
      <3> DEFINE reached == {k \in Nat : \E f : f = [i \in 0..k |-> IF i = 0 THEN start
                                                                    ELSE Then(i, f[i - 1])]}
      <3> HIDE DEF Then, after, n
      <3>0. \A k \in Nat : k \in reached <=> \E f : f = [i \in 0..k |-> IF i = 0 THEN start
                                                                    ELSE Then(i, f[i - 1])]
        OBVIOUS
      <3>1. 0 \in reached
        <4> DEFINE f == [i \in 0..0 |-> start]
        <4>1. f = [i \in 0..0 |-> IF i = 0 THEN start ELSE Then(i, f[i - 1])]
          OBVIOUS
        <4> HIDE DEF f
        <4> QED
          BY <4>1
      <3>2. ASSUME NEW k \in reached PROVE k + 1 \in reached
        <4>1. PICK f : f = [i \in 0..k |-> IF i = 0 THEN start ELSE Then(i, f[i - 1])]
          BY <3>2
        <4>2. k \in Nat
          OBVIOUS
        <4> DEFINE g == [i \in 0..k + 1 |-> IF i = k + 1 THEN Then(k + 1, f[k]) ELSE f[i]]
        <4>3. \A i \in 0..k : f[i] = IF i = 0 THEN start ELSE Then(i, f[i - 1])
          BY <4>1, <4>2, ZenonT(40)
        <4>4. /\ \A i \in 0..k : g[i] = f[i]
              /\ g[k + 1] = Then(k + 1, f[k])
          BY <4>2
        <4>5. ASSUME NEW i \in 0..k + 1
              PROVE  g[i] = IF i = 0 THEN start ELSE Then(i, g[i - 1])
          <5> HIDE DEF g
          <5>1. CASE i = k + 1
            <6>1. i # 0 /\ i - 1 = k /\ k \in 0..k
              BY <4>2, <5>1
            <6>2. g[i - 1] = f[k] /\ g[i] = Then(i, f[k])
              BY <4>4, <5>1, <6>1
            <6> QED
              BY <6>1, <6>2
          <5>2. CASE i = 0
            <6>1. i \in 0..k
              BY <4>2, <5>2
            <6> QED
              BY <4>3, <4>4, <5>2, <6>1
          <5>3. CASE i # 0 /\ i # k + 1
            <6>1. i \in 0..k /\ i - 1 \in 0..k
              BY <4>2, <5>3
            <6>2. g[i] = f[i] /\ g[i - 1] = f[i - 1]
              BY <4>4, <6>1
            <6>3. f[i] = Then(i, f[i - 1])
              BY <4>3, <5>3, <6>1
            <6> QED
              BY <5>3, <6>2, <6>3
          <5> QED
            BY <5>1, <5>2, <5>3
        <4>6. g = [i \in 0..k + 1 |-> g[i]]
          OBVIOUS
        <4> HIDE DEF g
        <4>7. g = [i \in 0..k + 1 |-> IF i = 0 THEN start ELSE Then(i, g[i - 1])]
          BY <4>5, <4>6
        <4>8. k + 1 \in Nat
          BY <4>2
        <4> HIDE DEF reached
        <4> QED
          BY <3>0, <4>7, <4>8
      <3>3. n \in reached
        <4> HIDE DEF reached
        <4>1. reached \in SUBSET Nat
          BY DEF reached
        <4> QED
          BY <1>2, <3>1, <3>2, <4>1, EveryNumber
      <3> HIDE DEF reached
      <3> QED
        BY <1>2, <3>0, <3>3
    <2>2. after = CHOOSE f : f = [i \in 0..n |-> IF i = 0 THEN start ELSE Then(i, f[i - 1])]
      BY DEF after
    <2> HIDE DEF after, Then, n
    <2> QED
      BY <2>1, <2>2
  <1> HIDE DEF Then, after
  <1>4. \A i \in 0..n : after[i] = IF i = 0 THEN start ELSE Then(i, after[i - 1])
    BY <1>2, <1>3, ZenonT(40)
  <1>5. after[n] # {} /\ (n = 0 => \E m \in after[0] :
            IF p.wildcard THEN IsPrefix(Prefix(p), m.rest) ELSE m.rest = Prefix(p))
    <2>1. n = 0 => Last(p.literals) = Prefix(p)
      BY <1>2 DEF Last
    <2> QED
      BY <1>1, <2>1 DEF Matches
  <1>6. after[0] = start /\ unread.rest = path
    BY <1>2, <1>4
  <1>7. CASE n = 0
    <2>1. IsPrefix(path, path)
      BY DEF IsPrefix
    <2>2. PICK m \in start : IF p.wildcard THEN IsPrefix(Prefix(p), m.rest) ELSE m.rest = Prefix(p)
      BY <1>5, <1>6, <1>7
    <2>3. m.rest = path
      BY <1>6 DEF start
    <2>4. IsPrefix(Prefix(p), path) \/ path = Prefix(p)
      BY <2>2, <2>3
    <2> HIDE DEF n, unread
    <2> QED
      BY <2>1, <2>4
  <1>8. CASE n # 0
    <2>1. after[1] # {}
      <3> DEFINE alive == {k \in Nat : k \in 1..n => (after[k] # {} => after[1] # {})}
      <3>1. 0 \in alive
        OBVIOUS
      <3>2. ASSUME NEW k \in alive PROVE k + 1 \in alive
        <4>1. CASE k = 0
          BY <4>1
        <4>2. CASE k # 0
          <5>1. SUFFICES ASSUME k + 1 \in 1..n, after[k + 1] # {} PROVE after[1] # {}
            OBVIOUS
          <5>2. k \in 1..n /\ k + 1 \in 0..n /\ k + 1 # 0 /\ (k + 1) - 1 = k
            BY <1>2, <4>2, <5>1
          <5>3. after[k + 1] = Then(k + 1, after[k])
            BY <1>4, <5>2
          <5>4. after[k] # {}
            <6>1. Then(k + 1, {}) = {}
              BY DEF Then
            <6> QED
              BY <5>1, <5>3, <6>1
          <5> QED
            BY <5>2, <5>4
        <4> QED
          BY <4>1, <4>2
      <3>3. n \in alive
        <4> HIDE DEF alive
        <4>1. alive \in SUBSET Nat
          BY DEF alive
        <4> QED
          BY <1>2, <3>1, <3>2, <4>1, EveryNumber
      <3> QED
        BY <1>2, <1>5, <1>8, <3>3
    <2>2. after[1] = Then(1, start)
      <3>1. 1 \in 0..n /\ 1 - 1 = 0 /\ 1 # 0
        BY <1>2, <1>8
      <3> QED
        BY <1>4, <1>6, <3>1
    <2>3. PICK m \in start : Step(m, p.literals[1], p.breaks[1]) # {}
      BY <2>1, <2>2 DEF Then
    <2>4. m = unread
      BY DEF start
    <2>5. IsPrefix(p.literals[1], m.rest)
      BY <2>3 DEF Step
    <2> QED
      BY <1>2, <1>6, <2>4, <2>5
  <1> QED
    BY <1>7, <1>8

-----------------------------------------------------------------------------
(* The first match of a list of routes.                                       *)

\* The routes of a list that match a path, those of them with the method, and the
\* methods with which the path has a route.
Fits(list, path) == {i \in 1..Len(list) : Matches(list[i].pattern, path)}
Usable(list, path, method) == {i \in Fits(list, path) : method \in list[i].methods}
Offered(list, path) == UNION {list[i].methods : i \in Fits(list, path)}

\* FirstMatch in these words.
LEMMA FirstMatchIs ==
    ASSUME NEW R, NEW list \in Seq(R), NEW path, NEW method
    PROVE  FirstMatch(list, path, method) =
               IF Usable(list, path, method) = {} THEN NotFound(Offered(list, path))
               ELSE Found(CHOOSE i \in Usable(list, path, method) :
                              \A j \in Usable(list, path, method) : i <= j)
  <1>1. DOMAIN list = 1..Len(list)
    OBVIOUS
  <1> QED
    BY <1>1 DEF FirstMatch, Fits, Usable, Offered

\* It finds the first usable route,
LEMMA FirstUsable ==
    ASSUME NEW R, NEW list \in Seq(R), NEW path, NEW method,
           NEW f \in Usable(list, path, method), \A j \in Usable(list, path, method) : f <= j
    PROVE  FirstMatch(list, path, method) = Found(f)
  <1> DEFINE U == Usable(list, path, method)
             first == CHOOSE i \in U : \A j \in U : i <= j
  <1>1. U \in SUBSET Int
    BY DEF Usable, Fits
  <1> HIDE DEF U
  <1>2. first \in U /\ \A j \in U : first <= j
    <2>1. \E i \in U : \A j \in U : i <= j
      BY DEF U
    <2> QED
      BY <2>1
  <1> HIDE DEF first
  <1>3. f \in U /\ \A j \in U : f <= j
    BY DEF U
  <1>4. f <= first /\ first <= f /\ f \in Int /\ first \in Int
    BY <1>1, <1>2, <1>3
  <1>5. first = f
    BY <1>4
  <1>6. FirstMatch(list, path, method) = IF U = {} THEN NotFound(Offered(list, path)) ELSE Found(first)
    BY FirstMatchIs DEF U, first
  <1> QED
    BY <1>3, <1>5, <1>6

\* which there is when there is a usable one.
LEMMA FirstFound ==
    ASSUME NEW R, NEW list \in Seq(R), NEW path, NEW method, Usable(list, path, method) # {}
    PROVE  \E f \in Usable(list, path, method) :
               /\ \A j \in Usable(list, path, method) : f <= j
               /\ FirstMatch(list, path, method) = Found(f)
  <1>1. Usable(list, path, method) \in SUBSET Nat
    BY DEF Usable, Fits
  <1>2. PICK f \in Usable(list, path, method) : \A j \in Usable(list, path, method) : f <= j
    BY <1>1, FirstExists
  <1>3. FirstMatch(list, path, method) = Found(f)
    BY <1>2, FirstUsable
  <1> QED
    BY <1>2, <1>3

\* What FirstMatch finds is a route that matches path and method.
LEMMA FoundMatches ==
    ASSUME NEW routes, NEW n \in Nat, DOMAIN routes = 1..n, NEW path, NEW method,
           NEW found, found = FirstMatch(routes, path, method), found.route # NoRoute
    PROVE  /\ found.route \in 1..n
           /\ Matches(routes[found.route].pattern, path)
           /\ method \in routes[found.route].methods
  <1> DEFINE usable == {i \in {i \in DOMAIN routes : Matches(routes[i].pattern, path)} :
                           method \in routes[i].methods}
  <1>1. usable # {}
    BY DEF FirstMatch, NotFound, NoRoute
  <1>2. usable \in SUBSET Nat
    OBVIOUS
  <1>3. \E i \in usable : \A j \in usable : i <= j
    BY <1>1, <1>2, FirstExists
  <1>4. found.route = CHOOSE i \in usable : \A j \in usable : i <= j
    BY <1>1 DEF FirstMatch, Found
  <1>5. found.route \in usable
    BY <1>3, <1>4
  <1> QED
    BY <1>5

\* The methods it reports otherwise are methods of routes.
LEMMA NotedAreMethods ==
    ASSUME NEW routes, \A i \in DOMAIN routes : routes[i].methods \subseteq AllMethods,
           NEW path, NEW method
    PROVE  FirstMatch(routes, path, method).methods \subseteq AllMethods
  BY DEF FirstMatch, Found, NotFound

-----------------------------------------------------------------------------
(* A list with one more route.                                                *)

\* new is old with r inserted at a place.
Inserted(new, old, r, at) ==
    /\ Len(new) = Len(old) + 1
    /\ at \in 1..Len(new)
    /\ new[at] = r
    /\ \A i \in 1..at - 1 : new[i] = old[i]
    /\ \A i \in at..Len(old) : new[i + 1] = old[i]

\* InsertAt inserts.
LEMMA InsertAtInserts ==
    ASSUME NEW R, NEW old \in Seq(R), NEW r \in R, NEW at \in 1..Len(old) + 1
    PROVE  InsertAt(old, at, r) \in Seq(R) /\ Inserted(InsertAt(old, at, r), old, r, at)
  <1> DEFINE n == Len(old)
             front == SubSeq(old, 1, at - 1)
             back == SubSeq(old, at, n)
             one == <<r>>
             left == front \o one
             new == left \o back
  <1>1. n \in Nat /\ at \in Int /\ 1 <= at /\ at <= n + 1 /\ \A i \in 1..n : old[i] \in R
    OBVIOUS
  <1> HIDE DEF n
  <1>2. /\ front \in Seq(R) /\ Len(front) = at - 1
        /\ \A i \in 1..at - 1 : front[i] = old[i]
    <2>1. at - 1 \in Int /\ 1 \in Int /\ \A i \in 1..at - 1 : old[i] \in R
      BY <1>1
    <2>2. /\ front \in Seq(R)
          /\ Len(front) = IF 1 <= at - 1 THEN (at - 1) - 1 + 1 ELSE 0
          /\ \A i \in 1..(at - 1) - 1 + 1 : front[i] = old[1 + i - 1]
      BY <2>1, SubSeqProperties
    <2> HIDE DEF front
    <2>3. (at - 1) - 1 + 1 = at - 1 /\ \A i \in Int : 1 + i - 1 = i
      BY <1>1
    <2> QED
      BY <1>1, <2>2, <2>3
  <1>3. /\ back \in Seq(R) /\ Len(back) = n - at + 1
        /\ \A i \in 1..n - at + 1 : back[i] = old[at + i - 1]
    <2>1. at \in Int /\ n \in Int /\ \A i \in at..n : old[i] \in R
      BY <1>1
    <2>2. /\ back \in Seq(R)
          /\ Len(back) = IF at <= n THEN n - at + 1 ELSE 0
          /\ \A i \in 1..n - at + 1 : back[i] = old[at + i - 1]
      BY <2>1, SubSeqProperties
    <2> HIDE DEF back
    <2> QED
      BY <1>1, <2>2
  <1>4. one \in Seq(R) /\ Len(one) = 1 /\ one[1] = r
    OBVIOUS
  <1> HIDE DEF front, back, one
  <1>5. /\ left \in Seq(R) /\ Len(left) = at
        /\ \A i \in 1..at : left[i] = IF i <= at - 1 THEN front[i] ELSE one[i - (at - 1)]
    <2>1. /\ left \in Seq(R) /\ Len(left) = Len(front) + Len(one)
          /\ \A i \in 1..Len(front) + Len(one) :
                 left[i] = IF i <= Len(front) THEN front[i] ELSE one[i - Len(front)]
      BY <1>2, <1>4, ConcatProperties
    <2>2. Len(front) + Len(one) = at
      BY <1>1, <1>2, <1>4
    <2> HIDE DEF left
    <2> QED
      BY <1>2, <2>1, <2>2
  <1> HIDE DEF left
  <1>6. /\ new \in Seq(R) /\ Len(new) = n + 1
        /\ \A i \in 1..n + 1 : new[i] = IF i <= at THEN left[i] ELSE back[i - at]
    <2>1. /\ new \in Seq(R) /\ Len(new) = Len(left) + Len(back)
          /\ \A i \in 1..Len(left) + Len(back) :
                 new[i] = IF i <= Len(left) THEN left[i] ELSE back[i - Len(left)]
      BY <1>3, <1>5, ConcatProperties
    <2>2. Len(left) + Len(back) = n + 1
      BY <1>1, <1>3, <1>5
    <2> HIDE DEF new
    <2> QED
      BY <1>5, <2>1, <2>2
  <1>7. new = InsertAt(old, at, r)
    BY DEF new, left, front, back, one, n, InsertAt
  <1> HIDE DEF new
  <1>8. new[at] = r
    <2>1. at \in 1..n + 1 /\ at \in 1..at /\ at <= at /\ ~(at <= at - 1) /\ at - (at - 1) = 1
      BY <1>1
    <2> QED
      BY <1>4, <1>5, <1>6, <2>1
  <1>9. \A i \in 1..at - 1 : new[i] = old[i]
    <2> SUFFICES ASSUME NEW i \in 1..at - 1 PROVE new[i] = old[i]
      OBVIOUS
    <2>1. i \in 1..n + 1 /\ i \in 1..at /\ i <= at /\ i <= at - 1
      BY <1>1
    <2> QED
      BY <1>2, <1>5, <1>6, <2>1
  <1>10. \A i \in at..n : new[i + 1] = old[i]
    <2> SUFFICES ASSUME NEW i \in at..n PROVE new[i + 1] = old[i]
      OBVIOUS
    <2>1. /\ i + 1 \in 1..n + 1 /\ ~(i + 1 <= at)
          /\ (i + 1) - at \in 1..n - at + 1 /\ at + ((i + 1) - at) - 1 = i
      BY <1>1
    <2> QED
      BY <1>3, <1>6, <2>1
  <1> QED
    BY <1>1, <1>6, <1>7, <1>8, <1>9, <1>10 DEF Inserted, n

\* Where an old route is in the new list, and where a new one comes from.
LEMMA InsertedRoutes ==
    ASSUME NEW R, NEW old \in Seq(R), NEW new \in Seq(R), NEW r, NEW at, Inserted(new, old, r, at)
    PROVE  /\ \A i \in 1..Len(old) : IF i < at THEN i \in 1..Len(new) /\ new[i] = old[i]
                                     ELSE i + 1 \in 1..Len(new) /\ new[i + 1] = old[i]
           /\ \A k \in 1..Len(new) : IF k < at THEN k \in 1..Len(old) /\ new[k] = old[k]
                                     ELSE IF k = at THEN new[k] = r
                                     ELSE k - 1 \in 1..Len(old) /\ new[k] = old[k - 1]
  <1>1. Len(old) \in Nat /\ Len(new) = Len(old) + 1 /\ at \in Int /\ 1 <= at /\ at <= Len(old) + 1
    BY DEF Inserted
  <1>2. \A i \in 1..Len(old) : IF i < at THEN i \in 1..Len(new) /\ new[i] = old[i]
                               ELSE i + 1 \in 1..Len(new) /\ new[i + 1] = old[i]
    BY <1>1 DEF Inserted
  <1>3. ASSUME NEW k \in 1..Len(new)
        PROVE  IF k < at THEN k \in 1..Len(old) /\ new[k] = old[k]
               ELSE IF k = at THEN new[k] = r
               ELSE k - 1 \in 1..Len(old) /\ new[k] = old[k - 1]
    <2>1. CASE k < at
      BY <1>1, <2>1 DEF Inserted
    <2>2. CASE k = at
      BY <1>1, <2>2 DEF Inserted
    <2>3. CASE k > at
      <3>1. k - 1 \in at..Len(old) /\ (k - 1) + 1 = k
        BY <1>1, <2>3
      <3>2. new[(k - 1) + 1] = old[k - 1]
        BY <3>1 DEF Inserted
      <3> QED
        BY <1>1, <2>3, <3>1, <3>2
    <2> QED
      BY <1>1, <2>1, <2>2, <2>3
  <1> QED
    BY <1>2, <1>3

\* The methods a path has a route for, with one route more.
LEMMA OfferedWithOneMore ==
    ASSUME NEW R, NEW old \in Seq(R), NEW new \in Seq(R), NEW r, NEW at, Inserted(new, old, r, at),
           NEW path
    PROVE  Offered(new, path) =
               Offered(old, path) \cup (IF Matches(r.pattern, path) THEN r.methods ELSE {})
  <1> DEFINE more == IF Matches(r.pattern, path) THEN r.methods ELSE {}
  <1>1. \A i \in 1..Len(old) : \E k \in 1..Len(new) : new[k] = old[i]
    BY InsertedRoutes
  <1>2. \A k \in 1..Len(new) : new[k] = r \/ \E i \in 1..Len(old) : new[k] = old[i]
    BY InsertedRoutes
  <1>3. at \in 1..Len(new) /\ new[at] = r
    BY DEF Inserted
  <1>4. ASSUME NEW x \in Offered(new, path) PROVE x \in Offered(old, path) \cup more
    <2>1. PICK k \in 1..Len(new) : Matches(new[k].pattern, path) /\ x \in new[k].methods
      BY DEF Offered, Fits
    <2> QED
      BY <1>2, <2>1 DEF Offered, Fits
  <1>5. ASSUME NEW x \in Offered(old, path) PROVE x \in Offered(new, path)
    <2>1. PICK i \in 1..Len(old) : Matches(old[i].pattern, path) /\ x \in old[i].methods
      BY DEF Offered, Fits
    <2> QED
      BY <1>1, <2>1 DEF Offered, Fits
  <1>6. ASSUME NEW x \in more PROVE x \in Offered(new, path)
    BY <1>3 DEF Offered, Fits
  <1> QED
    BY <1>4, <1>5, <1>6

-----------------------------------------------------------------------------
(* The table.                                                                 *)

\* The two tests of the loop of handle.
Precedes(s, t) == LexLeq(Prefix(s.pattern), Prefix(t.pattern))
Covers(s, t) == IsPrefix(Prefix(s.pattern), Prefix(t.pattern))

\* handle puts a route behind those whose prefix is smaller or begins with its own.
LEMMA HandleInserts ==
    ASSUME NEW R, NEW routes \in Seq(R), NEW r \in R
    PROVE  /\ handle(routes, r) \in Seq(R)
           /\ \E at \in 1..Len(routes) + 1 :
                  /\ Inserted(handle(routes, r), routes, r, at)
                  /\ \A i \in 1..Len(routes) :
                         Precedes(routes[i], r) \/ Covers(r, routes[i]) => i < at
                  /\ at # 1 => Precedes(routes[at - 1], r) \/ Covers(r, routes[at - 1])
  <1> DEFINE behind == {i \in DOMAIN routes :
                           \/ LexLeq(Prefix(routes[i].pattern), Prefix(r.pattern))
                           \/ IsPrefix(Prefix(r.pattern), Prefix(routes[i].pattern))}
             last == CHOOSE i \in behind : \A j \in behind : j <= i
             at == IF behind = {} THEN 1 ELSE 1 + last
  <1>1. handle(routes, r) = InsertAt(routes, at, r)
    BY DEF handle
  <1>2. Len(routes) \in Nat /\ behind \in SUBSET (1..Len(routes))
    OBVIOUS
  <1>3. \A i \in 1..Len(routes) : Precedes(routes[i], r) \/ Covers(r, routes[i]) <=> i \in behind
    BY DEF Precedes, Covers
  <1> HIDE DEF behind
  <1>4. behind # {} => last \in behind /\ \A j \in behind : j <= last
    <2>1. behind # {} => \E i \in behind : \A j \in behind : j <= i
      BY <1>2, LastExists
    <2> QED
      BY <2>1
  <1> HIDE DEF last
  <1>5. at \in 1..Len(routes) + 1
    <2>1. CASE behind = {}
      BY <1>2, <2>1
    <2>2. CASE behind # {}
      <3>1. last \in 1..Len(routes)
        BY <1>2, <1>4, <2>2
      <3>2. at = 1 + last
        BY <2>2
      <3> HIDE DEF at
      <3> QED
        BY <1>2, <3>1, <3>2
    <2> QED
      BY <2>1, <2>2
  <1>6. \A i \in 1..Len(routes) : Precedes(routes[i], r) \/ Covers(r, routes[i]) => i < at
    <2> SUFFICES ASSUME NEW i \in 1..Len(routes), i \in behind PROVE i < at
      BY <1>3
    <2>1. i <= last /\ last \in 1..Len(routes)
      BY <1>2, <1>4
    <2>2. at = 1 + last
      OBVIOUS
    <2> QED
      BY <2>1, <2>2
  <1>7. at # 1 => at - 1 \in behind
    <2> SUFFICES ASSUME at # 1 PROVE at - 1 \in behind
      OBVIOUS
    <2>1. behind # {} /\ at = 1 + last
      OBVIOUS
    <2> HIDE DEF at
    <2>2. last \in behind
      BY <1>4, <2>1
    <2>3. last \in 1..Len(routes)
      BY <1>2, <2>2
    <2> QED
      BY <2>1, <2>2, <2>3
  <1> HIDE DEF at
  <1>8. InsertAt(routes, at, r) \in Seq(R) /\ Inserted(InsertAt(routes, at, r), routes, r, at)
    BY <1>5, InsertAtInserts
  <1>9. at # 1 => Precedes(routes[at - 1], r) \/ Covers(r, routes[at - 1])
    BY <1>2, <1>3, <1>7
  <1> QED
    BY <1>1, <1>5, <1>6, <1>8, <1>9

\* The patterns of routes are parsed from the patterns a program adds.
Parsed(R) == \A r \in R : \E raw \in Seq(Nat) : r.pattern = parseStringPattern(raw)

\* Of two routes that match a path, the prefix of one begins with that of the other.
LEMMA MatchesTogether ==
    ASSUME NEW R, Parsed(R), NEW s \in R, NEW t \in R, NEW path \in Seq(Nat),
           Matches(s.pattern, path), Matches(t.pattern, path)
    PROVE  Precedes(s, t) \/ Covers(t, s)
  <1>1. WellFormed(s.pattern) /\ WellFormed(t.pattern)
    BY PatternsAreWellFormed DEF Parsed
  <1>2. /\ IsPrefix(Prefix(s.pattern), path) /\ IsPrefix(Prefix(t.pattern), path)
        /\ Prefix(s.pattern) \in Seq(Nat) /\ Prefix(t.pattern) \in Seq(Nat)
    BY <1>1, MatchesPrefix DEF WellFormed
  <1>3. IsPrefix(Prefix(s.pattern), Prefix(t.pattern)) \/ IsPrefix(Prefix(t.pattern), Prefix(s.pattern))
    BY <1>2, TwoPrefixes
  <1> QED
    BY <1>3 DEF Precedes, Covers, LexLeq

\* What a usable route is.
LEMMA UsableRoute ==
    ASSUME NEW list, NEW path, NEW method, NEW i
    PROVE  i \in Usable(list, path, method) <=>
               i \in 1..Len(list) /\ Matches(list[i].pattern, path) /\ method \in list[i].methods
  BY DEF Usable, Fits

\* A route that handle puts in the table, and that is added behind all others, leaves
\* the first match the same in both.
LEMMA HandleKeepsFirstMatch ==
    ASSUME NEW R, Parsed(R), NEW path \in Seq(Nat), NEW method,
           NEW table \in Seq(R), NEW list \in Seq(R), NEW r \in R,
           SameMatch(table, FirstMatch(table, path, method), list, FirstMatch(list, path, method)),
           NEW longer \in Seq(R), Inserted(longer, list, r, Len(list) + 1)
    PROVE  SameMatch(handle(table, r), FirstMatch(handle(table, r), path, method),
                     longer, FirstMatch(longer, path, method))
  <1> DEFINE new == handle(table, r)
             Uses(l) == Usable(l, path, method)
             First(l) == FirstMatch(l, path, method)
             fits == Matches(r.pattern, path)
             serves == fits /\ method \in r.methods
  <1>1. new \in Seq(R)
    BY HandleInserts
  <1>2. PICK at \in 1..Len(table) + 1 :
            /\ Inserted(new, table, r, at)
            /\ \A i \in 1..Len(table) : Precedes(table[i], r) \/ Covers(r, table[i]) => i < at
    BY HandleInserts
  <1> HIDE DEF new
  <1>3. at \in Int /\ Len(table) \in Nat /\ Len(list) \in Nat
    OBVIOUS
  <1>4. \A l, i : i \in Uses(l) <=> /\ i \in 1..Len(l) /\ Matches(l[i].pattern, path)
                                    /\ method \in l[i].methods
    BY UsableRoute
  <1> HIDE DEF Uses, fits
  <1>5. \A k \in 1..Len(new) : IF k < at THEN k \in 1..Len(table) /\ new[k] = table[k]
                               ELSE IF k = at THEN new[k] = r
                               ELSE k - 1 \in 1..Len(table) /\ new[k] = table[k - 1]
    BY <1>1, <1>2, InsertedRoutes
  <1>6. \A i \in 1..Len(table) : IF i < at THEN i \in 1..Len(new) /\ new[i] = table[i]
                                 ELSE i + 1 \in 1..Len(new) /\ new[i + 1] = table[i]
    BY <1>1, <1>2, InsertedRoutes
  <1>7. \A k \in 1..Len(longer) : IF k < Len(list) + 1 THEN k \in 1..Len(list) /\ longer[k] = list[k]
                                  ELSE k = Len(list) + 1 /\ longer[k] = r
    <2>1. Len(longer) = Len(list) + 1
      BY DEF Inserted
    <2> QED
      BY <1>3, <2>1 DEF Inserted
  <1>8. \A i \in 1..Len(list) : i \in 1..Len(longer) /\ longer[i] = list[i]
    BY <1>3 DEF Inserted
  <1>9. at \in 1..Len(new) /\ new[at] = r
    BY <1>2 DEF Inserted
  <1>10. Len(list) + 1 \in 1..Len(longer) /\ longer[Len(list) + 1] = r
    BY DEF Inserted
  <1>11. /\ Offered(new, path) = Offered(table, path) \cup (IF fits THEN r.methods ELSE {})
         /\ Offered(longer, path) = Offered(list, path) \cup (IF fits THEN r.methods ELSE {})
    BY <1>1, <1>2, OfferedWithOneMore DEF fits
  <1>12. SameMatch(table, First(table), list, First(list))
    OBVIOUS
  <1>13. \A l \in Seq(R) : Uses(l) = {} => First(l) = NotFound(Offered(l, path))
    BY FirstMatchIs DEF Uses
  <1>14. \A l \in Seq(R) : Uses(l) # {} => \E f \in Uses(l) : /\ \A j \in Uses(l) : f <= j
                                                              /\ First(l) = Found(f)
    BY FirstFound DEF Uses
  <1>15. \A l \in Seq(R) : \A f : f \in Uses(l) /\ (\A j \in Uses(l) : f <= j) => First(l) = Found(f)
    BY FirstUsable DEF Uses
  <1> HIDE DEF First
  <1>16. CASE Uses(table) = {}
    <2>1. First(table) = NotFound(Offered(table, path)) /\ First(list) = First(table)
      BY <1>12, <1>13, <1>16 DEF SameMatch, NotFound
    <2>2. Uses(list) = {}
      <3>1. SUFFICES ASSUME Uses(list) # {} PROVE FALSE
        OBVIOUS
      <3>2. PICK f \in Uses(list) : First(list) = Found(f)
        BY <1>14, <3>1
      <3>3. f \in 1..Len(list)
        BY <1>4
      <3>4. f = NoRoute
        BY <2>1, <3>2 DEF Found, NotFound
      <3> QED
        BY <3>3, <3>4 DEF NoRoute
    <2>3. Offered(list, path) = Offered(table, path)
      BY <1>13, <2>1, <2>2 DEF NotFound
    <2>4. CASE serves
      <3>1. at \in Uses(new) /\ \A k \in Uses(new) : at <= k
        <4>1. at \in Uses(new)
          BY <1>4, <1>9, <2>4 DEF fits
        <4>2. ASSUME NEW k \in Uses(new) PROVE k = at
          <5>1. k \in 1..Len(new)
            BY <1>4
          <5>2. ~(\E i \in 1..Len(table) : new[k] = table[i])
            BY <1>4, <1>16
          <5> QED
            BY <1>5, <5>1, <5>2
        <4> QED
          BY <1>3, <4>1, <4>2
      <3>2. Len(list) + 1 \in Uses(longer) /\ \A k \in Uses(longer) : Len(list) + 1 <= k
        <4>1. Len(list) + 1 \in Uses(longer)
          BY <1>4, <1>10, <2>4 DEF fits
        <4>2. ASSUME NEW k \in Uses(longer) PROVE k = Len(list) + 1
          <5>1. k \in 1..Len(longer)
            BY <1>4
          <5>2. ~(\E i \in 1..Len(list) : longer[k] = list[i])
            BY <1>4, <2>2
          <5> QED
            BY <1>7, <5>1, <5>2
        <4> QED
          BY <1>3, <4>1, <4>2
      <3>3. First(new) = Found(at) /\ First(longer) = Found(Len(list) + 1)
        BY <1>1, <1>15, <3>1, <3>2
      <3>4. new[at] = longer[Len(list) + 1] /\ at # NoRoute /\ Len(list) + 1 # NoRoute
        BY <1>3, <1>9, <1>10 DEF NoRoute
      <3> QED
        BY <3>3, <3>4 DEF SameMatch, Found, First, new
    <2>5. CASE ~serves
      <3>1. Uses(new) = {}
        <4>1. ASSUME NEW k \in Uses(new) PROVE FALSE
          <5>1. k \in 1..Len(new) /\ Matches(new[k].pattern, path) /\ method \in new[k].methods
            BY <1>4
          <5>2. ~(\E i \in 1..Len(table) : new[k] = table[i]) /\ new[k] # r
            BY <1>4, <1>16, <2>5, <5>1 DEF fits
          <5> QED
            BY <1>5, <5>1, <5>2
        <4> QED
          BY <4>1
      <3>2. Uses(longer) = {}
        <4>1. ASSUME NEW k \in Uses(longer) PROVE FALSE
          <5>1. k \in 1..Len(longer) /\ Matches(longer[k].pattern, path) /\ method \in longer[k].methods
            BY <1>4
          <5>2. ~(\E i \in 1..Len(list) : longer[k] = list[i]) /\ longer[k] # r
            BY <1>4, <2>2, <2>5, <5>1 DEF fits
          <5> QED
            BY <1>7, <5>1, <5>2
        <4> QED
          BY <4>1
      <3>3. First(new) = First(longer) /\ First(new).route = NoRoute
        <4>1. Offered(new, path) = Offered(longer, path)
          BY <1>11, <2>3
        <4>2. First(new) = NotFound(Offered(new, path)) /\ First(longer) = NotFound(Offered(longer, path))
          BY <1>1, <1>13, <3>1, <3>2
        <4> QED
          BY <4>1, <4>2 DEF NotFound
      <3> QED
        BY <3>3 DEF SameMatch, First, new
    <2> QED
      BY <2>4, <2>5
  <1>17. CASE Uses(table) # {}
    <2>1. PICK f \in Uses(table) : (\A j \in Uses(table) : f <= j) /\ First(table) = Found(f)
      BY <1>14, <1>17
    <2>2. f \in 1..Len(table) /\ Matches(table[f].pattern, path) /\ method \in table[f].methods
      BY <1>4
    <2>3. First(table).route = f /\ f # NoRoute
      BY <2>1, <2>2 DEF Found, NoRoute
    <2>4. First(list).route # NoRoute /\ table[f] = list[First(list).route]
      BY <1>12, <2>3 DEF SameMatch
    <2>5. PICK g \in Uses(list) : (\A j \in Uses(list) : g <= j) /\ First(list) = Found(g)
      <3>1. Uses(list) # {}
        BY <1>13, <2>4 DEF NotFound
      <3> QED
        BY <1>14, <3>1
    <2>6. table[f] = list[g] /\ g \in 1..Len(list)
      BY <1>4, <2>4, <2>5 DEF Found
    <2>7. g \in Uses(longer) /\ \A k \in Uses(longer) : g <= k
      <3>1. g \in Uses(longer)
        BY <1>4, <1>8, <2>5
      <3>2. ASSUME NEW k \in Uses(longer) PROVE g <= k
        <4>1. k \in 1..Len(longer) /\ Matches(longer[k].pattern, path) /\ method \in longer[k].methods
          BY <1>4
        <4>2. CASE k < Len(list) + 1
          <5>1. k \in Uses(list)
            BY <1>4, <1>7, <4>1, <4>2
          <5> QED
            BY <2>5, <5>1
        <4>3. CASE ~(k < Len(list) + 1)
          <5>1. k = Len(list) + 1
            BY <1>7, <4>1, <4>3
          <5> QED
            BY <1>3, <2>6, <5>1
        <4> QED
          BY <4>2, <4>3
      <3> QED
        BY <3>1, <3>2
    <2>8. fits => f < at
      <3>1. SUFFICES ASSUME fits PROVE f < at
        OBVIOUS
      <3>2. table[f] \in R
        BY <2>2
      <3>3. Precedes(table[f], r) \/ Covers(r, table[f])
        BY <2>2, <3>1, <3>2, MatchesTogether DEF fits
      <3> QED
        BY <1>2, <2>2, <3>3
    <2> DEFINE k1 == IF f < at THEN f ELSE f + 1
    <2>9. k1 \in 1..Len(new) /\ new[k1] = table[f]
      BY <1>6, <2>2
    <2>10. k1 \in Uses(new)
      BY <1>4, <2>2, <2>9
    <2>11. ASSUME NEW k \in Uses(new) PROVE k1 <= k
      <3>1. k \in 1..Len(new) /\ Matches(new[k].pattern, path) /\ method \in new[k].methods
        BY <1>4
      <3>2. f \in Int /\ k \in Int
        BY <2>2, <3>1
      <3>3. CASE k < at
        <4>1. k \in Uses(table)
          BY <1>4, <1>5, <3>1, <3>3
        <4>2. f <= k
          BY <2>1, <4>1
        <4> QED
          BY <1>3, <3>2, <3>3, <4>2
      <3>4. CASE k = at
        <4>1. fits
          BY <1>9, <3>1, <3>4 DEF fits
        <4> QED
          BY <1>3, <2>8, <3>2, <3>4, <4>1
      <3>5. CASE k > at
        <4>1. ~(k < at) /\ k # at
          BY <1>3, <3>2, <3>5
        <4>2. k - 1 \in Uses(table)
          BY <1>4, <1>5, <3>1, <4>1
        <4>3. f <= k - 1
          BY <2>1, <4>2
        <4> QED
          BY <1>3, <3>2, <3>5, <4>3
      <3> QED
        BY <1>3, <3>2, <3>3, <3>4, <3>5
    <2>12. First(new) = Found(k1) /\ First(longer) = Found(g)
      BY <1>1, <1>15, <2>7, <2>10, <2>11
    <2>13. new[k1] = longer[g] /\ k1 # NoRoute /\ g # NoRoute
      <3>1. k1 # 0
        BY <2>9
      <3> QED
        BY <1>8, <2>6, <2>9, <3>1 DEF NoRoute
    <2> HIDE DEF k1
    <2> QED
      BY <2>12, <2>13 DEF SameMatch, Found, First, new
  <1> QED
    BY <1>16, <1>17

\* The function table of TableOf exists: it can be continued by one route.
LEMMA TablesExist ==
    ASSUME NEW R, NEW list \in Seq(R), NEW n \in Nat, n <= Len(list)
    PROVE  \E f : f = [k \in 0..n |-> IF k = 0 THEN <<>> ELSE handle(f[k - 1], list[k])]
  <1> DEFINE reached == {k \in Nat : \E f : f = [i \in 0..k |-> IF i = 0 THEN <<>>
                                                                ELSE handle(f[i - 1], list[i])]}
  <1>0. \A k \in Nat : k \in reached <=> \E f : f = [i \in 0..k |-> IF i = 0 THEN <<>>
                                                                ELSE handle(f[i - 1], list[i])]
    OBVIOUS
  <1>1. 0 \in reached
    <2> DEFINE f == [i \in 0..0 |-> <<>>]
    <2>1. f = [i \in 0..0 |-> IF i = 0 THEN <<>> ELSE handle(f[i - 1], list[i])]
      OBVIOUS
    <2> HIDE DEF f
    <2> QED
      BY <2>1
  <1>2. ASSUME NEW k \in reached PROVE k + 1 \in reached
    <2>1. PICK f : f = [i \in 0..k |-> IF i = 0 THEN <<>> ELSE handle(f[i - 1], list[i])]
      BY <1>2
    <2>2. k \in Nat
      OBVIOUS
    <2> DEFINE g == [i \in 0..k + 1 |-> IF i = k + 1 THEN handle(f[k], list[k + 1]) ELSE f[i]]
    <2>3. \A i \in 0..k : f[i] = IF i = 0 THEN <<>> ELSE handle(f[i - 1], list[i])
      BY <2>1, <2>2, ZenonT(40)
    <2>4. /\ \A i \in 0..k : g[i] = f[i]
          /\ g[k + 1] = handle(f[k], list[k + 1])
      BY <2>2
    <2>5. ASSUME NEW i \in 0..k + 1
          PROVE  g[i] = IF i = 0 THEN <<>> ELSE handle(g[i - 1], list[i])
      <3> HIDE DEF g
      <3>1. CASE i = k + 1
        <4>1. i # 0 /\ i - 1 = k /\ k \in 0..k
          BY <2>2, <3>1
        <4>2. g[i - 1] = f[k] /\ g[i] = handle(f[k], list[i])
          BY <2>4, <3>1, <4>1
        <4> QED
          BY <4>1, <4>2
      <3>2. CASE i = 0
        <4>1. i \in 0..k
          BY <2>2, <3>2
        <4> QED
          BY <2>3, <2>4, <3>2, <4>1
      <3>3. CASE i # 0 /\ i # k + 1
        <4>1. i \in 0..k /\ i - 1 \in 0..k
          BY <2>2, <3>3
        <4>2. g[i] = f[i] /\ g[i - 1] = f[i - 1]
          BY <2>4, <4>1
        <4>3. f[i] = handle(f[i - 1], list[i])
          BY <2>3, <3>3, <4>1
        <4> QED
          BY <3>3, <4>2, <4>3
      <3> QED
        BY <3>1, <3>2, <3>3
    <2>6. g = [i \in 0..k + 1 |-> g[i]]
      OBVIOUS
    <2> HIDE DEF g
    <2>7. g = [i \in 0..k + 1 |-> IF i = 0 THEN <<>> ELSE handle(g[i - 1], list[i])]
      BY <2>5, <2>6
    <2>8. k + 1 \in Nat
      BY <2>2
    <2> HIDE DEF reached
    <2> QED
      BY <1>0, <2>7, <2>8
  <1>3. n \in reached
    <2> HIDE DEF reached
    <2>1. reached \in SUBSET Nat
      BY DEF reached
    <2> QED
      BY <1>1, <1>2, <2>1, EveryNumber
  <1> HIDE DEF reached
  <1> QED
    BY <1>0, <1>3

\* goji keeps its routes sorted by prefix, and yet the first route of the table that
\* matches a request is the first that was added of those that match it, and when none
\* does the table offers the same methods: package web promises that routes are used in
\* the order in which they were added.
THEOREM TableKeepsFirstMatch ==
    ASSUME NEW R, Parsed(R), NEW list \in Seq(R), NEW path \in Seq(Nat), NEW method
    PROVE  SameMatch(TableOf(list), FirstMatch(TableOf(list), path, method),
                     list, FirstMatch(list, path, method))
  <1> DEFINE table[n \in 0..Len(list)] == IF n = 0 THEN <<>> ELSE handle(table[n - 1], list[n])
             front(k) == SubSeq(list, 1, k)
             Same(t, l) == SameMatch(t, FirstMatch(t, path, method), l, FirstMatch(l, path, method))
             good == {k \in Nat : k <= Len(list) => table[k] \in Seq(R) /\ Same(table[k], front(k))}
  <1>1. TableOf(list) = table[Len(list)]
    BY DEF TableOf
  <1>2. Len(list) \in Nat /\ \A i \in 1..Len(list) : list[i] \in R
    OBVIOUS
  <1>3. table = [k \in 0..Len(list) |-> IF k = 0 THEN <<>> ELSE handle(table[k - 1], list[k])]
    <2>1. \E f : f = [k \in 0..Len(list) |-> IF k = 0 THEN <<>> ELSE handle(f[k - 1], list[k])]
      <3>1. Len(list) \in Nat /\ Len(list) <= Len(list)
        BY <1>2
      <3>2. \A n \in Nat : n <= Len(list) =>
                \E f : f = [k \in 0..n |-> IF k = 0 THEN <<>> ELSE handle(f[k - 1], list[k])]
        BY TablesExist
      <3> QED
        BY ONLY <3>1, <3>2
    <2>2. table = CHOOSE f : f = [k \in 0..Len(list) |->
                                    IF k = 0 THEN <<>> ELSE handle(f[k - 1], list[k])]
      BY DEF table
    <2> HIDE DEF table
    <2> QED
      BY <2>1, <2>2
  <1> HIDE DEF table
  <1>4. \A k \in 0..Len(list) : table[k] = IF k = 0 THEN <<>> ELSE handle(table[k - 1], list[k])
    BY <1>2, <1>3, ZenonT(40)
  <1>5. \A k \in Nat : k <= Len(list) =>
            /\ front(k) \in Seq(R) /\ Len(front(k)) = k
            /\ \A i \in 1..k : front(k)[i] = list[i]
    <2> SUFFICES ASSUME NEW k \in Nat, k <= Len(list)
                 PROVE  /\ front(k) \in Seq(R) /\ Len(front(k)) = k
                        /\ \A i \in 1..k : front(k)[i] = list[i]
      OBVIOUS
    <2>1. 1 \in Int /\ k \in Int /\ \A i \in 1..k : list[i] \in R
      BY <1>2
    <2>2. /\ front(k) \in Seq(R)
          /\ Len(front(k)) = IF 1 <= k THEN k - 1 + 1 ELSE 0
          /\ \A i \in 1..k - 1 + 1 : front(k)[i] = list[1 + i - 1]
      BY <2>1, SubSeqProperties
    <2> HIDE DEF front
    <2>3. k - 1 + 1 = k /\ \A i \in Int : 1 + i - 1 = i
      OBVIOUS
    <2> QED
      BY <2>2, <2>3
  <1> HIDE DEF front
  <1>6. 0 \in good
    <2>1. table[0] = <<>>
      BY <1>2, <1>4
    <2>2. front(0) = <<>>
      <3>1. front(0) \in Seq(R) /\ Len(front(0)) = 0
        BY <1>2, <1>5
      <3> QED
        BY <3>1, EmptySeq
    <2>3. FirstMatch(<<>>, path, method).route = NoRoute
      <3>1. <<>> \in Seq(R) /\ Len(<<>>) = 0
        BY EmptySeq
      <3>2. Usable(<<>>, path, method) = {}
        BY <3>1 DEF Usable, Fits
      <3>3. FirstMatch(<<>>, path, method) = NotFound(Offered(<<>>, path))
        BY <3>1, <3>2, FirstMatchIs
      <3> QED
        BY <3>3 DEF NotFound
    <2>4. Same(<<>>, <<>>)
      BY <2>3 DEF SameMatch
    <2> HIDE DEF Same
    <2> QED
      BY <2>1, <2>2, <2>4, EmptySeq
  <1>7. ASSUME NEW k \in good PROVE k + 1 \in good
    <2>1. SUFFICES ASSUME k + 1 <= Len(list)
                   PROVE  table[k + 1] \in Seq(R) /\ Same(table[k + 1], front(k + 1))
      <3> HIDE DEF Same
      <3> QED
        BY <2>1
    <2>2. /\ k \in Nat /\ k + 1 \in Nat /\ k <= Len(list) /\ k + 1 \in 0..Len(list) /\ k + 1 # 0
          /\ (k + 1) - 1 = k /\ k + 1 \in 1..Len(list)
      BY <1>2, <2>1
    <2>3. table[k] \in Seq(R) /\ Same(table[k], front(k))
      <3> HIDE DEF Same
      <3> QED
        BY <1>7, <2>2
    <2>4. table[k + 1] = handle(table[k], list[k + 1]) /\ list[k + 1] \in R
      BY <1>2, <1>4, <2>2
    <2>5. /\ front(k) \in Seq(R) /\ front(k + 1) \in Seq(R)
          /\ Inserted(front(k + 1), front(k), list[k + 1], Len(front(k)) + 1)
      <3>1. /\ front(k) \in Seq(R) /\ Len(front(k)) = k
            /\ \A i \in 1..k : front(k)[i] = list[i]
        BY <1>5, <2>2
      <3>2. /\ front(k + 1) \in Seq(R) /\ Len(front(k + 1)) = k + 1
            /\ \A i \in 1..k + 1 : front(k + 1)[i] = list[i]
        BY <1>5, <2>1, <2>2
      <3>3. Len(front(k)) + 1 = k + 1 /\ (k + 1) - 1 = k /\ k + 1 \in 1..k + 1
        BY <2>2, <3>1
      <3>4. \A i \in 1..k : front(k + 1)[i] = front(k)[i]
        BY <2>2, <3>1, <3>2
      <3>5. \A i \in k + 1..k : front(k + 1)[i + 1] = front(k)[i]
        BY <2>2
      <3>6. Inserted(front(k + 1), front(k), list[k + 1], k + 1)
        BY ONLY <3>1, <3>2, <3>3, <3>4, <3>5 DEF Inserted
      <3> QED
        BY <3>1, <3>2, <3>3, <3>6
    <2>6. table[k + 1] \in Seq(R)
      BY <2>3, <2>4, HandleInserts
    <2>7. SameMatch(table[k], FirstMatch(table[k], path, method),
                    front(k), FirstMatch(front(k), path, method))
      BY <2>3
    <2>8. SameMatch(handle(table[k], list[k + 1]), FirstMatch(handle(table[k], list[k + 1]), path, method),
                    front(k + 1), FirstMatch(front(k + 1), path, method))
      BY <2>3, <2>4, <2>5, <2>7, HandleKeepsFirstMatch
    <2> QED
      BY <2>4, <2>6, <2>8
  <1>8. Len(list) \in good
    <2>1. good \in SUBSET Nat
      OBVIOUS
    <2> HIDE DEF good
    <2> QED
      BY <1>2, <1>6, <1>7, <2>1, EveryNumber
  <1>9. front(Len(list)) = list
    BY SubSeqFull DEF front
  <1> HIDE DEF Same
  <1>10. Same(table[Len(list)], front(Len(list)))
    BY <1>2, <1>8
  <1>11. Same(TableOf(list), list)
    BY <1>1, <1>9, <1>10
  <1> QED
    BY <1>11 DEF Same

-----------------------------------------------------------------------------
(* The order of the table.                                                    *)

\* A sequence is behind another in the order of their elements, and neither begins with the
\* other.
Greater(s, t) ==
    \E x \in 1..Len(s) : /\ x <= Len(t) /\ s[x] > t[x]
                         /\ \A y \in 1..x - 1 : s[y] = t[y]

\* Two routes out of order have one between them whose prefix both prefixes begin with.
Ordered(routes) ==
    \A j \in 1..Len(routes) : \A i \in 1..j - 1 :
        Greater(PrefixOf(routes, i), PrefixOf(routes, j)) =>
            \E k \in i + 1..j - 1 : /\ IsPrefix(PrefixOf(routes, k), PrefixOf(routes, i))
                                    /\ IsPrefix(PrefixOf(routes, k), PrefixOf(routes, j))

\* What two sequences begin with that differ at x is shorter than x.
LEMMA CommonIsShort ==
    ASSUME NEW s \in Seq(Nat), NEW t \in Seq(Nat), NEW u \in Seq(Nat),
           IsPrefix(s, t), IsPrefix(s, u), NEW x \in 1..Len(t), x <= Len(u), t[x] # u[x]
    PROVE  Len(s) < x
  <1>1. \A i \in 1..Len(s) : s[i] = t[i] /\ s[i] = u[i]
    BY PrefixElements
  <1>2. Len(s) \in Nat /\ x \in Int /\ 1 <= x
    OBVIOUS
  <1> QED
    BY <1>1, <1>2

\* What a sequence begins with, another begins with that is the same so far.
LEMMA PrefixOfBoth ==
    ASSUME NEW s \in Seq(Nat), NEW t \in Seq(Nat), NEW u \in Seq(Nat), IsPrefix(s, t),
           NEW x \in Nat, Len(s) < x, x - 1 <= Len(u), \A y \in 1..x - 1 : t[y] = u[y]
    PROVE  IsPrefix(s, u)
  <1>1. \A i \in 1..Len(s) : s[i] = t[i]
    BY PrefixElements
  <1>2. Len(s) \in Nat /\ Len(s) <= Len(u) /\ \A i \in 1..Len(s) : i \in 1..x - 1
    OBVIOUS
  <1>3. \A i \in 1..Len(s) : s[i] = u[i]
    BY <1>1, <1>2
  <1> QED
    BY <1>2, <1>3, PrefixElements

\* A sequence behind r is behind every one that is not behind r, or begins with it; and
\* what those two begin with, r begins with.
LEMMA BehindTheLast ==
    ASSUME NEW r \in Seq(Nat), NEW p \in Seq(Nat), NEW m \in Seq(Nat),
           Greater(p, r), LexLeq(m, r) \/ IsPrefix(r, m)
    PROVE  \/ IsPrefix(m, p) /\ IsPrefix(m, r)
           \/ /\ Greater(p, m)
              /\ \A s \in Seq(Nat) : IsPrefix(s, p) /\ IsPrefix(s, m) => IsPrefix(s, r)
  <1>1. PICK x \in 1..Len(p) : x <= Len(r) /\ p[x] > r[x] /\ \A y \in 1..x - 1 : p[y] = r[y]
    BY DEF Greater
  <1>2. /\ Len(p) \in Nat /\ Len(r) \in Nat /\ Len(m) \in Nat /\ x \in Nat /\ 1 <= x
        /\ x <= Len(p) /\ x <= Len(r)
        /\ \A i \in 1..Len(p) : p[i] \in Nat
        /\ \A i \in 1..Len(r) : r[i] \in Nat
        /\ \A i \in 1..Len(m) : m[i] \in Nat
    <2>1. Len(p) \in Nat /\ Len(r) \in Nat /\ Len(m) \in Nat
      OBVIOUS
    <2>2. \A i \in 1..Len(p) : p[i] \in Nat
      OBVIOUS
    <2>3. \A i \in 1..Len(r) : r[i] \in Nat
      OBVIOUS
    <2>4. \A i \in 1..Len(m) : m[i] \in Nat
      OBVIOUS
    <2>5. x \in Nat /\ 1 <= x /\ x <= Len(p) /\ x <= Len(r)
      BY <1>1, <2>1
    <2> QED
      BY <2>1, <2>2, <2>3, <2>4, <2>5
  <1> DEFINE Differs(z) == /\ z \in 1..x /\ z <= Len(m) /\ p[z] > m[z]
                           /\ \A y \in 1..z - 1 : p[y] = m[y]
  <1>3. ASSUME NEW z, Differs(z)
        PROVE  /\ Greater(p, m)
               /\ \A s \in Seq(Nat) : IsPrefix(s, p) /\ IsPrefix(s, m) => IsPrefix(s, r)
    <2>1. z \in Nat /\ z \in 1..Len(p) /\ z \in 1..Len(m) /\ p[z] # m[z] /\ z - 1 <= Len(r)
      <3>1. z \in 1..x /\ z <= Len(m) /\ p[z] > m[z]
        BY <1>3
      <3> HIDE DEF Differs
      <3>6. /\ Len(p) \in Nat /\ Len(r) \in Nat /\ Len(m) \in Nat /\ x \in Nat
            /\ x <= Len(p) /\ x <= Len(r) /\ z \in 1..x /\ z <= Len(m)
        BY <1>2, <3>1
      <3>2. z \in Nat /\ z \in 1..Len(p) /\ z \in 1..Len(m) /\ z - 1 <= Len(r)
        BY ONLY <3>6
      <3>3. p[z] \in Nat
        BY <1>2, <3>2
      <3>4. m[z] \in Nat
        BY <1>2, <3>2
      <3>5. p[z] # m[z]
        BY <3>1, <3>3, <3>4
      <3> QED
        BY <3>2, <3>5
    <2>2. Greater(p, m)
      BY <1>3, <2>1 DEF Greater
    <2>3. \A y \in 1..z - 1 : p[y] = r[y]
      BY <1>1, <1>2, <1>3
    <2>4. ASSUME NEW s \in Seq(Nat), IsPrefix(s, p), IsPrefix(s, m) PROVE IsPrefix(s, r)
      <3>1. Len(s) < z
        BY <1>2, <2>1, <2>4, CommonIsShort
      <3> QED
        BY <2>1, <2>3, <2>4, <3>1, PrefixOfBoth
    <2> QED
      BY <2>2, <2>4
  <1>4. CASE IsPrefix(m, r) /\ Len(m) < x
    <2>1. \A y \in 1..x - 1 : r[y] = p[y]
      BY <1>1
    <2>2. x - 1 <= Len(p)
      BY <1>2
    <2>3. IsPrefix(m, p)
      BY <1>2, <1>4, <2>1, <2>2, PrefixOfBoth
    <2> QED
      BY <1>4, <2>3
  <1>5. CASE (IsPrefix(m, r) /\ ~(Len(m) < x)) \/ IsPrefix(r, m)
    <2>1. \A y \in 1..x : y <= Len(m) /\ m[y] = r[y]
      <3>1. CASE IsPrefix(m, r) /\ ~(Len(m) < x)
        <4>1. \A y \in 1..Len(m) : m[y] = r[y]
          BY <3>1, PrefixElements
        <4> QED
          BY <1>2, <3>1, <4>1
      <3>2. CASE IsPrefix(r, m)
        <4>1. Len(r) <= Len(m) /\ \A y \in 1..Len(r) : r[y] = m[y]
          BY <3>2, PrefixElements
        <4> QED
          BY <1>2, <4>1
      <3> QED
        BY <1>5, <3>1, <3>2
    <2>2. Differs(x)
      <3>1. x \in 1..x /\ x <= Len(m) /\ m[x] = r[x]
        BY <1>2, <2>1
      <3>2. \A y \in 1..x - 1 : p[y] = m[y]
        BY <1>1, <1>2, <2>1
      <3> QED
        BY <1>1, <3>1, <3>2
    <2> QED
      BY <1>3, <2>2
  <1>6. CASE ~IsPrefix(m, r) /\ LexLeq(m, r)
    <2>1. PICK z \in 1..Len(m) : z <= Len(r) /\ m[z] < r[z] /\ \A y \in 1..z - 1 : m[y] = r[y]
      BY <1>6 DEF LexLeq
    <2>2. z \in Int
      OBVIOUS
    <2>3. CASE z < x
      <3>1. z \in 1..x /\ p[z] = r[z] /\ r[z] \in Nat /\ m[z] \in Nat /\ z <= Len(m)
        BY <1>1, <1>2, <2>1, <2>3
      <3>2. \A y \in 1..z - 1 : p[y] = m[y]
        BY <1>1, <1>2, <2>1, <2>3
      <3>3. Differs(z)
        BY <2>1, <3>1, <3>2
      <3> QED
        BY <1>3, <3>3
    <2>4. CASE z = x
      <3>1. x <= Len(m) /\ m[x] \in Nat /\ r[x] \in Nat /\ p[x] \in Nat /\ m[x] < r[x]
        BY <1>2, <2>1, <2>4
      <3>2. \A y \in 1..x - 1 : p[y] = m[y]
        BY <1>1, <2>1, <2>4
      <3>3. x \in 1..x /\ r[x] \in Nat /\ p[x] \in Nat /\ p[x] > r[x] /\ m[x] \in Nat
        <4>1. x \in 1..Len(m)
          BY <1>2, <3>1
        <4> QED
          BY <1>1, <1>2, <4>1
      <3>4. p[x] > m[x]
        <4> DEFINE mine == p[x]
                   last == r[x]
                   other == m[x]
        <4>1. mine \in Nat /\ last \in Nat /\ other \in Nat /\ mine > last /\ other < last
          BY <3>1, <3>3
        <4> HIDE DEF mine, last, other
        <4>2. mine > other
          BY <4>1
        <4> QED
          BY <4>2 DEF mine, other
      <3>5. Differs(x)
        BY <3>1, <3>2, <3>3, <3>4
      <3> QED
        BY <1>3, <3>5
    <2>5. CASE x < z
      <3>1. x <= Len(m) /\ m[x] = r[x]
        BY <1>2, <2>1, <2>5
      <3>2. \A y \in 1..x - 1 : p[y] = m[y]
        BY <1>1, <1>2, <2>1, <2>5
      <3>3. x \in 1..x /\ r[x] \in Nat /\ p[x] \in Nat /\ p[x] > r[x] /\ m[x] \in Nat
        <4>1. x \in 1..Len(m)
          BY <1>2, <3>1
        <4> QED
          BY <1>1, <1>2, <4>1
      <3>4. p[x] > m[x]
        BY ONLY <3>1, <3>3
      <3>5. Differs(x)
        BY <3>1, <3>2, <3>3, <3>4
      <3> QED
        BY <1>3, <3>5
    <2> QED
      BY <1>2, <2>2, <2>3, <2>4, <2>5
  <1> QED
    BY <1>4, <1>5, <1>6

\* The prefixes of parsed routes are sequences of bytes.
LEMMA PrefixesAreBytes ==
    ASSUME NEW R, Parsed(R), NEW routes \in Seq(R), NEW i \in 1..Len(routes)
    PROVE  PrefixOf(routes, i) \in Seq(Nat)
  <1>1. routes[i] \in R
    OBVIOUS
  <1>2. WellFormed(routes[i].pattern)
    BY <1>1, PatternsAreWellFormed DEF Parsed
  <1> QED
    BY <1>2 DEF WellFormed, PrefixOf

\* handle keeps the order: the new route is behind the last one that is not behind it.
LEMMA HandleKeepsOrder ==
    ASSUME NEW R, Parsed(R), NEW routes \in Seq(R), NEW r \in R, Ordered(routes)
    PROVE  Ordered(handle(routes, r))
  <1> DEFINE new == handle(routes, r)
             rp == Prefix(r.pattern)
             P(i) == PrefixOf(routes, i)
             N(i) == PrefixOf(new, i)
  <1>1. new \in Seq(R)
    BY HandleInserts
  <1>2. PICK at \in 1..Len(routes) + 1 :
            /\ Inserted(new, routes, r, at)
            /\ \A i \in 1..Len(routes) : Precedes(routes[i], r) \/ Covers(r, routes[i]) => i < at
            /\ at # 1 => Precedes(routes[at - 1], r) \/ Covers(r, routes[at - 1])
    BY HandleInserts
  <1> HIDE DEF new
  <1>3. at \in Int /\ Len(routes) \in Nat /\ Len(new) = Len(routes) + 1 /\ 1 <= at /\ at <= Len(new)
    BY <1>2 DEF Inserted
  <1>4. /\ \A i \in 1..Len(new) : i < at => i \in 1..Len(routes) /\ N(i) = P(i)
        /\ \A i \in 1..Len(new) : i > at => i - 1 \in 1..Len(routes) /\ N(i) = P(i - 1)
        /\ N(at) = rp
    <2>1. \A k \in 1..Len(new) : IF k < at THEN k \in 1..Len(routes) /\ new[k] = routes[k]
                                 ELSE IF k = at THEN new[k] = r
                                 ELSE k - 1 \in 1..Len(routes) /\ new[k] = routes[k - 1]
      BY <1>1, <1>2, InsertedRoutes
    <2>2. \A i \in 1..Len(new) : i < at => i \in 1..Len(routes) /\ N(i) = P(i)
      BY <2>1 DEF PrefixOf
    <2>3. \A i \in 1..Len(new) : i > at => i - 1 \in 1..Len(routes) /\ N(i) = P(i - 1)
      BY <1>3, <2>1 DEF PrefixOf
    <2>4. N(at) = rp
      BY <1>2 DEF Inserted, PrefixOf
    <2> QED
      BY <2>2, <2>3, <2>4
  <1>5. /\ \A i \in 1..Len(routes) : i < at => i \in 1..Len(new) /\ N(i) = P(i)
        /\ \A i \in 1..Len(routes) : i >= at => i + 1 \in 1..Len(new) /\ N(i + 1) = P(i)
    <2>1. \A i \in 1..Len(routes) : i < at => i \in 1..Len(new)
      BY <1>3
    <2>2. \A i \in 1..Len(routes) : i >= at => i + 1 \in 1..Len(new) /\ i + 1 > at /\ (i + 1) - 1 = i
      BY <1>3
    <2> QED
      BY <1>4, <2>1, <2>2
  <1>6. /\ \A i \in 1..Len(routes) : P(i) \in Seq(Nat)
        /\ rp \in Seq(Nat)
    <2>1. WellFormed(r.pattern)
      BY PatternsAreWellFormed DEF Parsed
    <2> QED
      BY <2>1, PrefixesAreBytes DEF WellFormed
  <1>7. /\ \A i \in 1..Len(routes) : LexLeq(P(i), rp) \/ IsPrefix(rp, P(i)) => i < at
        /\ at # 1 => LexLeq(P(at - 1), rp) \/ IsPrefix(rp, P(at - 1))
    BY <1>2 DEF Precedes, Covers, PrefixOf
  <1>8. \A j \in 1..Len(routes) : \A i \in 1..j - 1 : Greater(P(i), P(j)) =>
            \E k \in i + 1..j - 1 : IsPrefix(P(k), P(i)) /\ IsPrefix(P(k), P(j))
    BY DEF Ordered
  <1> HIDE DEF P, N, rp
  <1> SUFFICES ASSUME NEW j \in 1..Len(new), NEW i \in 1..j - 1, Greater(N(i), N(j))
               PROVE  \E k \in i + 1..j - 1 : IsPrefix(N(k), N(i)) /\ IsPrefix(N(k), N(j))
    BY DEF Ordered, N, new
  <1>9. i \in Int /\ j \in Int /\ i \in 1..Len(new) /\ 1 <= i /\ i <= j - 1
    BY <1>3
  <1>10. CASE j < at
    <2>1. N(i) = P(i) /\ N(j) = P(j) /\ j \in 1..Len(routes)
      BY <1>3, <1>4, <1>9, <1>10
    <2>2. PICK k \in i + 1..j - 1 : IsPrefix(P(k), P(i)) /\ IsPrefix(P(k), P(j))
      BY <1>8, <2>1
    <2>3. k \in 1..Len(routes) /\ k < at
      BY <1>3, <1>9, <1>10
    <2>4. N(k) = P(k)
      BY <1>5, <2>3
    <2> QED
      BY <2>1, <2>2, <2>4
  <1>11. CASE j = at
    <2>1. at - 1 \in 1..Len(routes) /\ at # 1 /\ i < at
      BY <1>3, <1>9, <1>11
    <2>2. N(i) = P(i) /\ N(j) = rp /\ i \in 1..Len(routes)
      BY <1>4, <1>9, <1>11, <2>1
    <2> DEFINE m == at - 1
    <2>3. /\ m \in 1..Len(routes) /\ N(m) = P(m) /\ m < at
          /\ LexLeq(P(m), rp) \/ IsPrefix(rp, P(m))
      <3>1. m < at
        BY <1>3
      <3> QED
        BY <1>5, <1>7, <2>1, <3>1
    <2>4. i # m
      <3>1. ~LexLeq(P(i), rp) /\ ~IsPrefix(rp, P(i))
        <4>1. PICK x \in 1..Len(P(i)) : /\ x <= Len(rp) /\ P(i)[x] > rp[x]
                                        /\ \A y \in 1..x - 1 : P(i)[y] = rp[y]
          BY <2>2 DEF Greater
        <4>2. /\ x \in 1..Len(rp) /\ P(i)[x] \in Nat /\ rp[x] \in Nat
          <5> DEFINE s == P(i)
          <5>1. s \in Seq(Nat) /\ rp \in Seq(Nat) /\ x \in 1..Len(s) /\ x <= Len(rp)
            BY <1>6, <2>2, <4>1
          <5> HIDE DEF s
          <5>2. x \in 1..Len(rp)
            BY <5>1
          <5>3. s[x] \in Nat
            BY <5>1
          <5>4. rp[x] \in Nat
            BY <5>1, <5>2
          <5> QED
            BY <5>2, <5>3, <5>4 DEF s
        <4>3. P(i)[x] # rp[x]
          BY <4>1, <4>2
        <4>4. ~IsPrefix(P(i), rp) /\ ~IsPrefix(rp, P(i))
          BY <1>6, <2>2, <4>2, <4>3, PrefixElements
        <4>5. ASSUME NEW z \in 1..Len(P(i)), z <= Len(rp), P(i)[z] < rp[z],
                     \A y \in 1..z - 1 : P(i)[y] = rp[y]
              PROVE  FALSE
          <5>1. z \in Int /\ x \in Int /\ 1 <= z /\ 1 <= x
            OBVIOUS
          <5>2. P(i)[z] \in Nat /\ rp[z] \in Nat
            <6> DEFINE s == P(i)
            <6>1. s \in Seq(Nat) /\ rp \in Seq(Nat) /\ z \in 1..Len(s) /\ z <= Len(rp)
              BY <1>6, <2>2, <4>5
            <6>2. P(i)[z] = s[z]
              OBVIOUS
            <6> HIDE DEF s
            <6>3. z \in 1..Len(rp)
              BY <5>1, <6>1
            <6>4. s[z] \in Nat
              BY <6>1
            <6>5. rp[z] \in Nat
              BY <6>1, <6>3
            <6> QED
              BY <6>2, <6>4, <6>5
          <5>3. P(i)[z] # rp[z]
            BY <4>5, <5>2
          <5>4. CASE z < x
            BY <4>1, <5>1, <5>3, <5>4
          <5>5. CASE x < z
            BY <4>3, <4>5, <5>1, <5>5
          <5>6. CASE x = z
            BY <4>1, <4>2, <4>5, <5>6
          <5> QED
            BY <5>1, <5>4, <5>5, <5>6
        <4> QED
          BY <4>4, <4>5 DEF LexLeq
      <3> QED
        BY <2>3, <3>1
    <2>5. m \in Int /\ i \in 1..m - 1 /\ m \in i + 1..j - 1
      BY <1>3, <1>9, <1>11, <2>1, <2>4
    <2> HIDE DEF m
    <2>6. \/ IsPrefix(P(m), P(i)) /\ IsPrefix(P(m), rp)
          \/ /\ Greater(P(i), P(m))
             /\ \A s \in Seq(Nat) : IsPrefix(s, P(i)) /\ IsPrefix(s, P(m)) => IsPrefix(s, rp)
      BY <1>6, <2>2, <2>3, BehindTheLast
    <2>7. CASE IsPrefix(P(m), P(i)) /\ IsPrefix(P(m), rp)
      BY <2>2, <2>3, <2>5, <2>7
    <2>8. CASE /\ Greater(P(i), P(m))
               /\ \A s \in Seq(Nat) : IsPrefix(s, P(i)) /\ IsPrefix(s, P(m)) => IsPrefix(s, rp)
      <3>1. PICK k \in i + 1..m - 1 : IsPrefix(P(k), P(i)) /\ IsPrefix(P(k), P(m))
        BY <1>8, <2>3, <2>5, <2>8
      <3>2. k \in 1..Len(routes) /\ k < at /\ k \in i + 1..j - 1
        BY <1>3, <1>9, <1>11, <2>3, <2>5
      <3>3. N(k) = P(k) /\ IsPrefix(P(k), rp)
        BY <1>5, <1>6, <2>8, <3>1, <3>2
      <3> QED
        BY <2>2, <3>1, <3>2, <3>3
    <2> QED
      BY <2>6, <2>7, <2>8
  <1>12. CASE j > at
    <2>1. N(j) = P(j - 1) /\ j - 1 \in 1..Len(routes)
      BY <1>3, <1>4, <1>12
    <2>2. CASE i < at
      <3>1. N(i) = P(i) /\ i \in 1..(j - 1) - 1
        BY <1>3, <1>4, <1>9, <1>12, <2>2
      <3>2. PICK k \in i + 1..(j - 1) - 1 : IsPrefix(P(k), P(i)) /\ IsPrefix(P(k), P(j - 1))
        BY <1>8, <2>1, <3>1
      <3>3. k \in 1..Len(routes) /\ k \in i + 1..j - 1 /\ k + 1 \in i + 1..j - 1
        BY <1>3, <1>9
      <3>4. N(k) = P(k) \/ N(k + 1) = P(k)
        <4>1. k < at \/ k >= at
          BY <1>3, <3>3
        <4> QED
          BY <1>5, <3>3, <4>1
      <3> QED
        BY <2>1, <3>1, <3>2, <3>3, <3>4
    <2>3. CASE i = at
      <3>1. N(i) = rp
        BY <1>4, <2>3
      <3>2. ~(j - 1 < at)
        BY <1>3, <1>9, <1>12
      <3>3. ~LexLeq(P(j - 1), rp)
        BY <1>7, <2>1, <3>2
      <3>4. PICK x \in 1..Len(rp) : /\ x <= Len(P(j - 1)) /\ rp[x] > P(j - 1)[x]
                                    /\ \A y \in 1..x - 1 : rp[y] = P(j - 1)[y]
        BY <2>1, <3>1 DEF Greater
      <3>5. x \in 1..Len(P(j - 1)) /\ x <= Len(rp) /\ P(j - 1)[x] < rp[x]
        <4>1. P(j - 1) \in Seq(Nat)
          BY <1>6, <2>1
        <4>2. rp \in Seq(Nat)
          BY <1>6
        <4> DEFINE s == P(j - 1)
        <4>3. x \in 1..Len(rp) /\ x <= Len(s) /\ rp[x] > s[x] /\ s \in Seq(Nat)
          BY <3>4, <4>1
        <4> HIDE DEF s, rp
        <4>4. x \in 1..Len(s) /\ x <= Len(rp)
          BY <4>2, <4>3
        <4>5. s[x] \in Nat
          BY <4>3, <4>4
        <4>6. rp[x] \in Nat
          BY <4>2, <4>3
        <4>7. s[x] < rp[x]
          BY <4>3, <4>5, <4>6
        <4> QED
          BY <4>4, <4>7 DEF s
      <3>6. \A y \in 1..x - 1 : P(j - 1)[y] = rp[y]
        BY <3>4
      <3> QED
        BY <3>3, <3>5, <3>6 DEF LexLeq
    <2>4. CASE i > at
      <3>1. N(i) = P(i - 1) /\ i - 1 \in 1..(j - 1) - 1 /\ i - 1 >= at
        BY <1>3, <1>4, <1>9, <2>4
      <3>2. PICK k \in (i - 1) + 1..(j - 1) - 1 : IsPrefix(P(k), P(i - 1)) /\ IsPrefix(P(k), P(j - 1))
        BY <1>8, <2>1, <3>1
      <3>3. k \in 1..Len(routes) /\ k >= at /\ k + 1 \in i + 1..j - 1
        BY <1>3, <1>9, <2>1, <2>4
      <3>4. N(k + 1) = P(k)
        BY <1>5, <3>3
      <3> QED
        BY <2>1, <3>1, <3>2, <3>3, <3>4
    <2> QED
      BY <1>3, <1>9, <2>2, <2>3, <2>4
  <1> QED
    BY <1>3, <1>9, <1>10, <1>11, <1>12

\* The loop of handle stops at the last route whose prefix is no greater than the new one's
\* or begins with it, and so keeps the table in the order that the compiled code relies on.
THEOREM TablesAreOrdered ==
    ASSUME NEW R, Parsed(R), NEW list \in Seq(R)
    PROVE  TableOf(list) \in Seq(R) /\ Ordered(TableOf(list))
  <1> DEFINE table[n \in 0..Len(list)] == IF n = 0 THEN <<>> ELSE handle(table[n - 1], list[n])
             good == {k \in Nat : k <= Len(list) => table[k] \in Seq(R) /\ Ordered(table[k])}
  <1>1. TableOf(list) = table[Len(list)]
    BY DEF TableOf
  <1>2. Len(list) \in Nat /\ \A i \in 1..Len(list) : list[i] \in R
    OBVIOUS
  <1>3. table = [k \in 0..Len(list) |-> IF k = 0 THEN <<>> ELSE handle(table[k - 1], list[k])]
    <2>1. \E f : f = [k \in 0..Len(list) |-> IF k = 0 THEN <<>> ELSE handle(f[k - 1], list[k])]
      <3>1. Len(list) \in Nat /\ Len(list) <= Len(list)
        BY <1>2
      <3>2. \A n \in Nat : n <= Len(list) =>
                \E f : f = [k \in 0..n |-> IF k = 0 THEN <<>> ELSE handle(f[k - 1], list[k])]
        BY TablesExist
      <3> QED
        BY ONLY <3>1, <3>2
    <2>2. table = CHOOSE f : f = [k \in 0..Len(list) |->
                                    IF k = 0 THEN <<>> ELSE handle(f[k - 1], list[k])]
      BY DEF table
    <2> HIDE DEF table
    <2> QED
      BY <2>1, <2>2
  <1> HIDE DEF table
  <1>4. \A k \in 0..Len(list) : table[k] = IF k = 0 THEN <<>> ELSE handle(table[k - 1], list[k])
    BY <1>2, <1>3, ZenonT(40)
  <1>5. 0 \in good
    <2>1. table[0] = <<>>
      BY <1>2, <1>4
    <2>2. <<>> \in Seq(R) /\ Ordered(<<>>)
      BY DEF Ordered
    <2> QED
      BY <2>1, <2>2
  <1>6. ASSUME NEW k \in good PROVE k + 1 \in good
    <2>1. SUFFICES ASSUME k + 1 <= Len(list)
                   PROVE  table[k + 1] \in Seq(R) /\ Ordered(table[k + 1])
      OBVIOUS
    <2>2. /\ k \in Nat /\ k <= Len(list) /\ k + 1 \in 0..Len(list) /\ k + 1 # 0
          /\ (k + 1) - 1 = k /\ k + 1 \in 1..Len(list)
      BY <1>2, <2>1
    <2>3. table[k] \in Seq(R) /\ Ordered(table[k])
      BY <1>6, <2>2
    <2>4. table[k + 1] = handle(table[k], list[k + 1]) /\ list[k + 1] \in R
      BY <1>2, <1>4, <2>2
    <2>5. handle(table[k], list[k + 1]) \in Seq(R)
      BY <2>3, <2>4, HandleInserts
    <2>6. Ordered(handle(table[k], list[k + 1]))
      BY <2>3, <2>4, HandleKeepsOrder
    <2> QED
      BY <2>4, <2>5, <2>6
  <1>7. Len(list) \in good
    <2>1. good \in SUBSET Nat
      OBVIOUS
    <2> HIDE DEF good
    <2> QED
      BY <1>2, <1>5, <1>6, <2>1, EveryNumber
  <1> QED
    BY <1>1, <1>2, <1>7

-----------------------------------------------------------------------------
(* The trie.                                                                  *)

\* The prefixes of a table are sequences of bytes.
Prefixed(routes) ==
    /\ Len(routes) \in Nat /\ DOMAIN routes = 1..Len(routes)
    /\ \A i \in 1..Len(routes) : PrefixOf(routes, i) \in Seq(Nat)

\* What a node is.
LEMMA NodeIs ==
    ASSUME NEW routes, Prefixed(routes), NEW v \in Nodes(routes)
    PROVE  /\ v.first \in Nat /\ v.last \in Nat /\ v.dp \in Nat
           /\ 1 <= v.first /\ v.first <= v.last /\ v.last <= Len(routes)
           /\ v = TrieNode(v.first, v.last, v.dp)
           /\ \A i \in v.first..v.last :
                  /\ i \in 1..Len(routes)
                  /\ PrefixOf(routes, i) \in Seq(Nat)
                  /\ v.dp <= Len(PrefixOf(routes, i))
                  /\ \A x \in 1..v.dp : PrefixOf(routes, i)[x] = PrefixOf(routes, v.first)[x]
  <1>1. /\ v \in [first : 1..Len(routes), last : 1..Len(routes), dp : Nat]
        /\ v.first <= v.last /\ Agree(routes, v) /\ Len(routes) \in Nat
    BY DEF Nodes, Prefixed
  <1>2. /\ v.first \in 1..Len(routes) /\ v.last \in 1..Len(routes) /\ v.dp \in Nat
        /\ v = TrieNode(v.first, v.last, v.dp)
    BY <1>1 DEF TrieNode
  <1>3. \A i \in v.first..v.last : i \in 1..Len(routes)
    BY <1>1, <1>2
  <1> QED
    BY <1>1, <1>2, <1>3 DEF Agree, Prefixed

\* What is a node.
LEMMA IsNode ==
    ASSUME NEW routes, Prefixed(routes), NEW first \in Nat, NEW last \in Nat, NEW dp \in Nat,
           1 <= first, first <= last, last <= Len(routes), Agree(routes, TrieNode(first, last, dp))
    PROVE  TrieNode(first, last, dp) \in Nodes(routes)
  <1>1. first \in DOMAIN routes /\ last \in DOMAIN routes
    BY DEF Prefixed
  <1>2. /\ TrieNode(first, last, dp) \in [first : DOMAIN routes, last : DOMAIN routes, dp : Nat]
        /\ TrieNode(first, last, dp).first <= TrieNode(first, last, dp).last
    BY <1>1 DEF TrieNode
  <1> QED
    BY <1>2 DEF Nodes

\* The next element of a set.
LEMMA NextInIs ==
    ASSUME NEW S, NEW i \in Nat, NEW last \in Nat, i <= last
    PROVE  LET j == NextIn(S, i, last)
           IN  /\ j \in Nat /\ i < j /\ j <= last + 1
               /\ j \in S \/ j = last + 1
               /\ \A k \in i + 1..j - 1 : k \notin S
  <1> DEFINE next == {j \in i + 1..last + 1 : j \in S \/ j = last + 1}
             good(j) == (j \in S \/ j = last + 1) /\ \A k \in i + 1..j - 1 : k \notin S
             n == NextIn(S, i, last)
  <1>1. next \in SUBSET Nat /\ last + 1 \in next
    OBVIOUS
  <1>2. PICK f \in next : \A j \in next : f <= j
    <2> HIDE DEF next
    <2>1. next # {}
      BY <1>1
    <2> QED
      BY <1>1, <2>1, FirstExists
  <1>3. \A k \in i + 1..f - 1 : k \notin next /\ k \in i + 1..last + 1
    BY <1>2
  <1>4. f \in i + 1..last + 1 /\ good(f)
    BY <1>2, <1>3
  <1>5. n = CHOOSE j \in i + 1..last + 1 : good(j)
    BY DEF NextIn
  <1> HIDE DEF good, n
  <1>6. n \in i + 1..last + 1 /\ good(n)
    BY <1>4, <1>5
  <1> QED
    BY <1>6 DEF good, n

\* Where a node has children, and what its routes are.
LEMMA ForksAre ==
    ASSUME NEW routes, Prefixed(routes), NEW v \in Nodes(routes), NEW i \in v.first..v.last
    PROVE  /\ i \in Nat /\ i \in 1..Len(routes)
           /\ i \in Own(routes, v) <=> Len(PrefixOf(routes, i)) = v.dp
           /\ i \notin Own(routes, v) <=> v.dp < Len(PrefixOf(routes, i))
           /\ i \in Forks(routes, v) <=>
                 /\ i \notin Own(routes, v)
                 /\ \/ i = v.first \/ i - 1 \in Own(routes, v)
                    \/ PrefixOf(routes, i)[v.dp + 1] # PrefixOf(routes, i - 1)[v.dp + 1]
  <1>1. i \in Nat /\ i \in 1..Len(routes) /\ v.dp \in Nat
    BY NodeIs
  <1>2. Len(PrefixOf(routes, i)) \in Nat /\ v.dp <= Len(PrefixOf(routes, i))
    BY NodeIs
  <1>3. i \in Own(routes, v) <=> Len(PrefixOf(routes, i)) = v.dp
    BY DEF Own
  <1> QED
    BY <1>1, <1>2, <1>3 DEF Forks

\* Own routes and forks are routes of the node.
LEMMA InNode ==
    ASSUME NEW routes, NEW v
    PROVE  /\ Own(routes, v) \subseteq v.first..v.last
           /\ Forks(routes, v) \subseteq v.first..v.last
  BY DEF Own, Forks

\* Where a child ends.
LastOf(routes, v, i) == NextIn(Own(routes, v) \cup Forks(routes, v), i, v.last) - 1

\* The routes up to the next fork or own route go on with the same byte.
LEMMA GroupAgrees ==
    ASSUME NEW routes, Prefixed(routes), NEW v \in Nodes(routes), NEW i \in Forks(routes, v)
    PROVE  /\ LastOf(routes, v, i) \in Nat /\ i <= LastOf(routes, v, i) /\ LastOf(routes, v, i) <= v.last
           /\ \A k \in i..LastOf(routes, v, i) :
                  /\ v.dp < Len(PrefixOf(routes, k))
                  /\ PrefixOf(routes, k)[v.dp + 1] = PrefixOf(routes, i)[v.dp + 1]
           /\ LET j == LastOf(routes, v, i) + 1
              IN  j = v.last + 1 \/ j \in Own(routes, v) \/ j \in Forks(routes, v)
           /\ \A k \in i + 1..LastOf(routes, v, i) : k \notin Own(routes, v) /\ k \notin Forks(routes, v)
  <1> DEFINE S == Own(routes, v) \cup Forks(routes, v)
             j == NextIn(S, i, v.last)
             P(k) == PrefixOf(routes, k)
             d == v.dp + 1
  <1>1. i \in v.first..v.last /\ i \in Nat /\ v.first \in Nat /\ v.last \in Nat /\ v.dp \in Nat
    BY InNode, NodeIs
  <1>2. /\ j \in Nat /\ i < j /\ j <= v.last + 1
        /\ j \in S \/ j = v.last + 1
        /\ \A k \in i + 1..j - 1 : k \notin S
    <2> HIDE DEF S
    <2>1. i <= v.last
      BY <1>1
    <2> QED
      BY <1>1, <2>1, NextInIs
  <1> HIDE DEF j
  <1>3. LastOf(routes, v, i) = j - 1
    BY DEF LastOf, j
  <1>4. \A k \in i..j - 1 : k \in v.first..v.last /\ k \notin Own(routes, v)
    <2>1. \A k \in i..j - 1 : k = i \/ k \in i + 1..j - 1
      BY <1>1
    <2>2. i \notin Own(routes, v)
      BY DEF Forks
    <2>3. \A k \in i..j - 1 : k \in v.first..v.last
      BY <1>1, <1>2
    <2> QED
      BY <1>2, <2>1, <2>2, <2>3
  <1> DEFINE same == {n \in Nat : i + n <= j - 1 => P(i + n)[d] = P(i)[d]}
  <1>5. 0 \in same
    BY <1>1
  <1>6. ASSUME NEW n \in same PROVE n + 1 \in same
    <2>1. SUFFICES ASSUME i + (n + 1) <= j - 1 PROVE P(i + (n + 1))[d] = P(i)[d]
      OBVIOUS
    <2> DEFINE k == i + (n + 1)
    <2>2. k \in i + 1..j - 1 /\ k \in i..j - 1 /\ k - 1 \in i..j - 1 /\ k - 1 = i + n /\ i + n <= j - 1 /\ k # v.first
      BY <1>1, <1>2, <2>1
    <2>3. P(k - 1)[d] = P(i)[d]
      BY <1>6, <2>2
    <2>4. k \notin Forks(routes, v) /\ k \notin Own(routes, v) /\ k - 1 \notin Own(routes, v) /\ k \in v.first..v.last
      BY <1>2, <1>4, <2>2
    <2> HIDE DEF k
    <2>5. P(k)[d] = P(k - 1)[d]
      BY <2>2, <2>4, ForksAre
    <2> QED
      BY <2>3, <2>5 DEF k
  <1>7. \A n \in Nat : n \in same
    <2> HIDE DEF same
    <2>1. same \in SUBSET Nat
      BY DEF same
    <2> QED
      BY <1>5, <1>6, <2>1, EveryNumber
  <1>8. ASSUME NEW k \in i..j - 1
        PROVE  v.dp < Len(P(k)) /\ P(k)[d] = P(i)[d]
    <2>1. v.dp < Len(P(k))
      BY <1>4, ForksAre
    <2>2. k - i \in Nat /\ i + (k - i) = k /\ k <= j - 1
      BY <1>1, <1>2
    <2>3. k - i \in same
      BY <1>7, <2>2
    <2> QED
      BY <2>1, <2>2, <2>3
  <1>9. j - 1 \in Nat /\ i <= j - 1 /\ j - 1 <= v.last /\ (j - 1) + 1 = j
    BY <1>1, <1>2
  <1> HIDE DEF same
  <1> QED
    BY <1>2, <1>3, <1>8, <1>9

\* A child is a node that is deeper.
LEMMA ChildIs ==
    ASSUME NEW routes, Prefixed(routes), NEW v \in Nodes(routes), NEW i \in Forks(routes, v)
    PROVE  /\ Child(routes, v, i) \in Nodes(routes)
           /\ Child(routes, v, i).first = i
           /\ Child(routes, v, i).last = LastOf(routes, v, i)
           /\ v.dp < Child(routes, v, i).dp
  <1> DEFINE last == LastOf(routes, v, i)
             P(k) == PrefixOf(routes, k)
             depths == {n \in 0..Len(P(i)) : Agree(routes, TrieNode(i, last, n))}
             dp == CHOOSE n \in depths : \A m \in depths : m <= n
             d == v.dp + 1
  <1>1. i \in v.first..v.last /\ i \in Nat /\ v.first \in Nat /\ v.last \in Nat /\ v.dp \in Nat /\ d \in Nat
        /\ 1 <= v.first /\ v.last <= Len(routes)
    BY InNode, NodeIs
  <1>2. last \in Nat /\ i <= last /\ last <= v.last
    BY GroupAgrees
  <1>3. \A k \in i..last : v.dp < Len(P(k)) /\ P(k)[d] = P(i)[d]
    BY GroupAgrees
  <1> HIDE DEF last
  <1>4. \A k \in i..last : P(k) \in Seq(Nat) /\ \A x \in 1..v.dp : P(k)[x] = P(i)[x]
    <2>1. \A k \in i..last : k \in v.first..v.last
      BY <1>1, <1>2
    <2> QED
      BY <1>1, <2>1, NodeIs
  <1>5. d \in depths
    <2>1. i \in i..last
      BY <1>1, <1>2
    <2>2. d \in 0..Len(P(i))
      BY <1>1, <1>3, <1>4, <2>1
    <2>3. \A k \in i..last : d <= Len(P(k)) /\ \A x \in 1..d : P(k)[x] = P(i)[x]
      <3> SUFFICES ASSUME NEW k \in i..last
                   PROVE  d <= Len(P(k)) /\ \A x \in 1..d : P(k)[x] = P(i)[x]
        OBVIOUS
      <3>1. \A x \in 1..d : x \in 1..v.dp \/ x = d
        BY <1>1
      <3>2. d <= Len(P(k))
        BY <1>1, <1>3, <1>4
      <3> HIDE DEF d
      <3> QED
        BY <1>3, <1>4, <3>1, <3>2
    <2>4. Agree(routes, TrieNode(i, last, d))
      BY <2>3 DEF Agree, TrieNode
    <2> HIDE DEF d, P
    <2> QED
      BY <2>2, <2>4
  <1>6. dp \in depths /\ \A m \in depths : m <= dp
    <2>1. depths \ {0} \in SUBSET (1..Len(P(i))) /\ d \in depths \ {0} /\ Len(P(i)) \in Nat
      <3>1. Len(P(i)) \in Nat
        <4>1. i \in i..last
          BY <1>1, <1>2
        <4> QED
          BY <1>4, <4>1
      <3>2. depths \in SUBSET (0..Len(P(i)))
        OBVIOUS
      <3> HIDE DEF depths
      <3> QED
        BY <1>1, <1>5, <3>1, <3>2
    <2>2. PICK n \in depths \ {0} : \A m \in depths \ {0} : m <= n
      <3> HIDE DEF depths, P
      <3>1. depths \ {0} # {}
        BY <2>1
      <3> QED
        BY <2>1, <3>1, LastExists
    <2>3. n \in depths /\ \A m \in depths : m <= n
      <3> HIDE DEF depths
      <3>1. n \in 1..Len(P(i))
        BY <2>1
      <3> QED
        BY <2>1, <2>2, <3>1
    <2> HIDE DEF depths
    <2> QED
      BY <2>3
  <1>7. Child(routes, v, i) = TrieNode(i, last, dp)
    BY DEF Child, last, LastOf
  <1>8. dp \in Nat /\ v.dp < dp /\ Agree(routes, TrieNode(i, last, dp))
    <2>1. d <= dp /\ dp \in 0..Len(P(i)) /\ Agree(routes, TrieNode(i, last, dp))
      <3> HIDE DEF dp, d
      <3> QED
        BY <1>5, <1>6
    <2> HIDE DEF dp
    <2> QED
      BY <1>1, <2>1
  <1> HIDE DEF dp
  <1>9. 1 <= i /\ last <= Len(routes)
    BY <1>1, <1>2, NodeIs
  <1>10. TrieNode(i, last, dp) \in Nodes(routes)
    BY <1>1, <1>2, <1>8, <1>9, IsNode
  <1>11. TrieNode(i, last, dp).first = i /\ TrieNode(i, last, dp).last = last /\ TrieNode(i, last, dp).dp = dp
    BY DEF TrieNode
  <1> QED
    BY <1>7, <1>8, <1>10, <1>11 DEF last

\* Routes of a node that are out of order at its depth have one of its own between them.
LEMMA OutOfOrder ==
    ASSUME NEW routes, Prefixed(routes), Ordered(routes), NEW v \in Nodes(routes),
           NEW a \in v.first..v.last, NEW b \in v.first..v.last, a < b,
           \A k \in a..b : k \notin Own(routes, v)
    PROVE  ~(PrefixOf(routes, a)[v.dp + 1] > PrefixOf(routes, b)[v.dp + 1])
  <1> DEFINE P(k) == PrefixOf(routes, k)
             d == v.dp + 1
  <1>1. SUFFICES ASSUME P(a)[d] > P(b)[d] PROVE FALSE
    OBVIOUS
  <1>2. /\ v.first \in Nat /\ v.last \in Nat /\ v.dp \in Nat /\ d \in Nat /\ a \in Nat /\ b \in Nat
        /\ 1 <= v.first /\ v.last <= Len(routes) /\ Len(routes) \in Nat
    BY NodeIs DEF Prefixed
  <1>3. \A k \in v.first..v.last : /\ P(k) \in Seq(Nat)
                                   /\ \A x \in 1..v.dp : P(k)[x] = P(v.first)[x]
    BY NodeIs
  <1>4. \A k \in a..b : k \in v.first..v.last /\ d <= Len(P(k))
    <2>1. \A k \in a..b : k \in v.first..v.last
      BY <1>2
    <2>2. \A k \in a..b : v.dp < Len(P(k)) /\ Len(P(k)) \in Nat
      BY <1>3, <2>1, ForksAre
    <2> QED
      BY <1>2, <2>1, <2>2
  <1>5. a \in a..b /\ b \in a..b /\ a \in 1..b - 1 /\ b \in 1..Len(routes)
    BY <1>2
  <1>6. Greater(P(a), P(b))
    <2>1. d \in 1..Len(P(a)) /\ d <= Len(P(b))
      BY <1>2, <1>3, <1>4, <1>5
    <2>2. \A y \in 1..d - 1 : P(a)[y] = P(b)[y]
      <3>1. d - 1 = v.dp
        BY <1>2
      <3> QED
        BY <1>3, <3>1
    <2> HIDE DEF d
    <2> QED
      BY <1>1, <2>1, <2>2 DEF Greater
  <1>7. PICK k \in a + 1..b - 1 : IsPrefix(P(k), P(a)) /\ IsPrefix(P(k), P(b))
    BY <1>5, <1>6 DEF Ordered
  <1>8. k \in a..b /\ P(k) \in Seq(Nat) /\ P(a) \in Seq(Nat) /\ P(b) \in Seq(Nat)
    BY <1>2, <1>3, <1>4
  <1>9. d \in 1..Len(P(a)) /\ d <= Len(P(b)) /\ P(a)[d] # P(b)[d]
    <2>1. d \in 1..Len(P(a)) /\ d \in 1..Len(P(b))
      BY <1>2, <1>4, <1>5, <1>8
    <2> DEFINE s == P(a)
               t == P(b)
    <2>2. s \in Seq(Nat) /\ t \in Seq(Nat) /\ d \in 1..Len(s) /\ d \in 1..Len(t) /\ s[d] > t[d]
      BY <1>1, <1>8, <2>1
    <2> HIDE DEF s, t, d
    <2>3. s[d] \in Nat /\ t[d] \in Nat /\ d <= Len(t)
      BY <2>2
    <2>4. s[d] # t[d]
      BY <2>2, <2>3
    <2> QED
      BY <2>2, <2>3, <2>4 DEF s, t
  <1>10. Len(P(k)) < d
    <2> HIDE DEF d, P
    <2> QED
      BY <1>7, <1>8, <1>9, CommonIsShort
  <1> QED
    BY <1>2, <1>4, <1>8, <1>10

\* In a segment, the routes behind a child go on with another byte than the child: no
\* other child of the segment has to be tried when one was found.
LEMMA GroupsApart ==
    ASSUME NEW routes, Prefixed(routes), Ordered(routes), NEW v \in Nodes(routes),
           NEW i \in Forks(routes, v), NEW j, j = NextIn(Own(routes, v), i, v.last)
    PROVE  /\ j \in Nat /\ LastOf(routes, v, i) < j /\ j <= v.last + 1
           /\ j = v.last + 1 \/ j \in Own(routes, v)
           /\ \A k \in LastOf(routes, v, i) + 1..j - 1 :
                  /\ v.dp < Len(PrefixOf(routes, k))
                  /\ PrefixOf(routes, k)[v.dp + 1] # PrefixOf(routes, i)[v.dp + 1]
  <1> DEFINE P(k) == PrefixOf(routes, k)
             d == v.dp + 1
             g == LastOf(routes, v, i)
  <1>1. /\ v.first \in Nat /\ v.last \in Nat /\ v.dp \in Nat /\ d \in Nat /\ i \in Nat
        /\ v.first <= i /\ i <= v.last /\ v.last <= Len(routes) /\ Len(routes) \in Nat /\ 1 <= v.first
    BY NodeIs, InNode DEF Prefixed
  <1>2. /\ j \in Nat /\ i < j /\ j <= v.last + 1
        /\ j \in Own(routes, v) \/ j = v.last + 1
        /\ \A k \in i + 1..j - 1 : k \notin Own(routes, v)
    BY <1>1, NextInIs
  <1>3. /\ g \in Nat /\ i <= g /\ g <= v.last
        /\ \A k \in i..g : v.dp < Len(P(k)) /\ P(k)[d] = P(i)[d]
        /\ g + 1 = v.last + 1 \/ g + 1 \in Own(routes, v) \/ g + 1 \in Forks(routes, v)
        /\ \A k \in i + 1..g : k \notin Own(routes, v) /\ k \notin Forks(routes, v)
    BY GroupAgrees
  <1> HIDE DEF g
  <1>4. g < j
    <2>1. SUFFICES ASSUME j <= g PROVE FALSE
      BY <1>2, <1>3
    <2>2. j \in i + 1..g /\ j # v.last + 1
      BY <1>1, <1>2, <1>3, <2>1
    <2> QED
      BY <1>2, <1>3, <2>2
  <1>5. \A k \in i..j - 1 : k \in v.first..v.last /\ k \notin Own(routes, v) /\ v.dp < Len(P(k))
    <2>1. \A k \in i..j - 1 : k = i \/ k \in i + 1..j - 1
      BY <1>1, <1>2
    <2>2. i \notin Own(routes, v)
      BY DEF Forks
    <2>3. \A k \in i..j - 1 : k \in v.first..v.last
      BY <1>1, <1>2
    <2> QED
      BY <1>2, <2>1, <2>2, <2>3, ForksAre
  <1>6. ASSUME NEW k \in g + 1..j - 1 PROVE P(k)[d] # P(i)[d]
    <2>1. SUFFICES ASSUME P(k)[d] = P(i)[d] PROVE FALSE
      OBVIOUS
    <2>2. g + 1 \in i..j - 1 /\ g \in i..j - 1 /\ k \in i..j - 1 /\ g \in i..g /\ g + 1 # v.last + 1
          /\ g + 1 # v.first /\ (g + 1) - 1 = g /\ i \in i..j - 1
      <3>1. /\ i \in Nat /\ j \in Nat /\ g \in Nat /\ v.first \in Nat /\ v.last \in Nat
            /\ v.first <= i /\ i <= g /\ g < j /\ j <= v.last + 1
        BY <1>1, <1>2, <1>3, <1>4
      <3>2. k \in Int /\ g + 1 <= k /\ k <= j - 1
        BY <1>3, <1>2
      <3> QED
        BY <3>1, <3>2
    <2>3. g + 1 \in Forks(routes, v) /\ g + 1 \in v.first..v.last /\ g \notin Own(routes, v)
      BY <1>3, <1>5, <2>2
    <2>4. P(g + 1)[d] # P(i)[d]
      <3>1. P(g + 1)[d] # P((g + 1) - 1)[d]
        BY <2>2, <2>3, ForksAre
      <3> QED
        BY <1>3, <2>2, <3>1
    <2>5. P(g + 1)[d] \in Nat /\ P(i)[d] \in Nat
      <3>1. \A x \in i..j - 1 : P(x) \in Seq(Nat) /\ d \in 1..Len(P(x))
        <4>1. \A x \in i..j - 1 : P(x) \in Seq(Nat) /\ v.dp < Len(P(x))
          BY <1>5, NodeIs
        <4> QED
          BY <1>1, <4>1
      <3> HIDE DEF d
      <3>2. \A x \in i..j - 1 : P(x)[d] \in Nat
        BY <3>1
      <3> QED
        BY <2>2, <3>2
    <2>6. CASE P(i)[d] > P(g + 1)[d]
      <3>1. \A x \in i..g + 1 : x \notin Own(routes, v)
        BY <1>1, <1>2, <1>3, <1>5, <2>2
      <3>2. i < g + 1 /\ i \in v.first..v.last
        BY <1>1, <1>3
      <3> QED
        BY <2>3, <2>6, <3>1, <3>2, OutOfOrder
    <2>7. CASE P(g + 1)[d] > P(i)[d]
      <3>1. \A x \in g + 1..k : x \notin Own(routes, v)
        <4>1. \A x \in g + 1..k : x \in i..j - 1
          BY <1>1, <1>2, <1>3
        <4> QED
          BY <1>5, <4>1
      <3>2. g + 1 < k
        <4>1. g + 1 # k
          BY <2>1, <2>4
        <4> QED
          BY <1>2, <1>3, <4>1
      <3>3. k \in v.first..v.last /\ P(g + 1)[d] > P(k)[d]
        BY <1>5, <2>1, <2>2, <2>7
      <3> QED
        BY <2>3, <3>1, <3>2, <3>3, OutOfOrder
    <2> QED
      BY <2>4, <2>5, <2>6, <2>7
  <1>7. \A k \in g + 1..j - 1 : k \in i..j - 1
    BY <1>1, <1>2, <1>3
  <1> QED
    BY <1>2, <1>4, <1>5, <1>6, <1>7 DEF g

-----------------------------------------------------------------------------
(* The bytes of a prefix in threes.                                           *)

\* Where the cursor is behind k of the chunks of the bytes between from and to.
Edge(from, to, k) == IF from + 3 * k < to THEN from + 3 * k ELSE to

\* Chunks c are the bytes of p behind the first from and up to to.
Cut(c, p, from, to) ==
    /\ Len(c) \in Nat /\ 1 <= Len(c) /\ Edge(from, to, 0) = from /\ Edge(from, to, Len(c)) = to
    /\ \A k \in 1..Len(c) : /\ c[k] \in Seq(Nat)
                            /\ Edge(from, to, k - 1) + Len(c[k]) = Edge(from, to, k)
                            /\ Edge(from, to, k - 1) \in Nat
                            /\ from <= Edge(from, to, k - 1)
                            /\ Edge(from, to, k) <= to
                            /\ \A x \in 1..Len(c[k]) : c[k][x] = p[Edge(from, to, k - 1) + x]

\* There are chunks, the last of which ends at to.
LEMMA ChunksAre ==
    ASSUME NEW p \in Seq(Nat), NEW from \in Nat, NEW to \in Nat, from < to, to <= Len(p)
    PROVE  Cut(Chunks(p, from, to), p, from, to)
  <1> DEFINE c == Chunks(p, from, to)
             n == (to - from + 2) \div 3
             e(k) == Edge(from, to, k)
             chunk(k) == SubSeq(p, from + 3 * k - 2, e(k))
  <1>1. n \in Nat /\ 1 <= n /\ from + 3 * (n - 1) < to /\ to <= from + 3 * n
    <2>1. to - from + 2 \in Nat /\ 3 <= to - from + 2
      OBVIOUS
    <2> DEFINE m == to - from + 2
    <2>2. m \div 3 \in Nat /\ 3 * (m \div 3) <= m /\ m < 3 * (m \div 3) + 3
      <3> HIDE DEF m
      <3> QED
        BY <2>1, SMT DEF m
    <2> QED
      BY <2>1, <2>2
  <1> HIDE DEF n
  <1>2. c = [k \in 1..n |-> chunk(k)]
    BY DEF Chunks, Edge, n
  <1> HIDE DEF c
  <1>3. Len(c) = n
    <2> HIDE DEF chunk
    <2>1. DOMAIN c = 1..n /\ c = [k \in 1..n |-> c[k]]
      BY <1>2
    <2> QED
      BY <1>1, <2>1, LengthOf
  <1>4. e(0) = from /\ e(n) = to
    BY <1>1 DEF Edge
  <1>5. ASSUME NEW k \in 1..n
        PROVE  /\ c[k] \in Seq(Nat) /\ e(k - 1) + Len(c[k]) = e(k) /\ e(k - 1) \in Nat
               /\ from <= e(k - 1) /\ e(k) <= to
               /\ \A x \in 1..Len(c[k]) : c[k][x] = p[e(k - 1) + x]
    <2>1. c[k] = chunk(k)
      BY <1>2
    <2>2. /\ e(k - 1) \in Nat /\ from + 3 * k - 2 = e(k - 1) + 1 /\ e(k) \in Nat /\ e(k - 1) + 1 <= e(k)
          /\ e(k) <= to /\ from <= e(k - 1)
      BY <1>1 DEF Edge
    <2> DEFINE a == e(k - 1) + 1
               b == e(k)
    <2>3. a \in Int /\ b \in Int /\ \A x \in a..b : p[x] \in Nat
      <3>1. \A x \in a..b : x \in 1..Len(p)
        BY <2>2
      <3> QED
        BY <2>2, <3>1
    <2>4. c[k] = SubSeq(p, a, b)
      BY <2>1, <2>2
    <2> HIDE DEF e
    <2>5. /\ c[k] \in Seq(Nat)
          /\ Len(c[k]) = IF a <= b THEN b - a + 1 ELSE 0
          /\ \A x \in 1..b - a + 1 : c[k][x] = p[a + x - 1]
      <3> HIDE DEF a, b
      <3> QED
        BY <2>3, <2>4, SubSeqProperties
    <2>6. Len(c[k]) = b - a + 1 /\ e(k - 1) + Len(c[k]) = e(k)
      BY <2>2, <2>5
    <2>7. \A x \in 1..Len(c[k]) : c[k][x] = p[e(k - 1) + x]
      <3> SUFFICES ASSUME NEW x \in 1..Len(c[k]) PROVE c[k][x] = p[e(k - 1) + x]
        OBVIOUS
      <3>1. a + x - 1 = e(k - 1) + x
        BY <2>2
      <3> QED
        BY <2>5, <2>6, <3>1
    <2> QED
      BY <2>2, <2>5, <2>6, <2>7
  <1> QED
    BY <1>1, <1>3, <1>4, <1>5 DEF Cut, c

-----------------------------------------------------------------------------
(* Code.                                                                      *)

Addresses == Nat \cup {-1}
Modes == {"jumpOnMatch", "route", "setCursor", "fail"}
Instructions == [mode : SUBSET Modes, bs : Seq(Nat), i : Addresses]
Code == Seq(Instructions)

\* Where a failure leads to that led to x before the code was moved.
Beyond(x, n, exit) == IF x = -1 THEN exit ELSE x + n

Mark(ins) == IF ins.i = -1 THEN [ins EXCEPT !.mode = @ \cup {"fail"}] ELSE ins

\* Moved code is code.
LEMMA MovedIs ==
    ASSUME NEW ins \in Instructions, NEW n \in Nat, NEW exit \in Addresses
    PROVE  /\ Moved(ins, n, exit) \in Instructions
           /\ Moved(ins, n, exit) = IF Jumps(ins) THEN [mode |-> ins.mode, bs |-> ins.bs, i |-> Beyond(ins.i, n, exit)]
                                    ELSE ins
  <1>1. ins.mode \in SUBSET Modes /\ ins.bs \in Seq(Nat) /\ ins.i \in Addresses
        /\ ins = [mode |-> ins.mode, bs |-> ins.bs, i |-> ins.i]
    BY DEF Instructions
  <1>2. Beyond(ins.i, n, exit) \in Addresses
    BY <1>1 DEF Beyond, Addresses
  <1>3. Moved(ins, n, exit) = IF Jumps(ins) THEN [mode |-> ins.mode, bs |-> ins.bs, i |-> Beyond(ins.i, n, exit)]
                              ELSE ins
    BY <1>1 DEF Moved, Beyond
  <1>4. [mode |-> ins.mode, bs |-> ins.bs, i |-> Beyond(ins.i, n, exit)] \in Instructions
    BY <1>1, <1>2 DEF Instructions
  <1> QED
    BY <1>3, <1>4

\* An instruction moved twice.
LEMMA MovedTwice ==
    ASSUME NEW ins \in Instructions, NEW n \in Nat, NEW exit \in Addresses,
           NEW m \in Nat, NEW outer \in Addresses
    PROVE  Moved(Moved(ins, n, exit), m, outer) = Moved(ins, n + m, Beyond(exit, m, outer))
  <1> DEFINE once == [mode |-> ins.mode, bs |-> ins.bs, i |-> Beyond(ins.i, n, exit)]
  <1>1. Beyond(exit, m, outer) \in Addresses /\ n + m \in Nat
    BY DEF Beyond, Addresses
  <1>2. CASE ~Jumps(ins)
    BY <1>1, <1>2, MovedIs
  <1>3. CASE Jumps(ins)
    <2>1. Moved(ins, n, exit) = once /\ once \in Instructions
      BY <1>3, MovedIs
    <2>2. Jumps(once)
      BY <1>3 DEF Jumps
    <2>3. Moved(once, m, outer) = [mode |-> ins.mode, bs |-> ins.bs, i |-> Beyond(once.i, m, outer)]
      <3> HIDE DEF once
      <3>1. Moved(once, m, outer) = [mode |-> once.mode, bs |-> once.bs, i |-> Beyond(once.i, m, outer)]
        BY <2>1, <2>2, MovedIs
      <3>2. once.mode = ins.mode /\ once.bs = ins.bs
        BY DEF once
      <3> QED
        BY <3>1, <3>2
    <2>4. ins.i \in Addresses
      BY DEF Instructions
    <2>5. Beyond(once.i, m, outer) = Beyond(ins.i, n + m, Beyond(exit, m, outer))
      BY <2>4 DEF Beyond, Addresses
    <2>6. Moved(ins, n + m, Beyond(exit, m, outer)) =
              [mode |-> ins.mode, bs |-> ins.bs, i |-> Beyond(ins.i, n + m, Beyond(exit, m, outer))]
      BY <1>1, <1>3, MovedIs
    <2> QED
      BY <2>1, <2>3, <2>5, <2>6
  <1> QED
    BY <1>2, <1>3

\* A function on the first numbers is a sequence.
LEMMA IsSequence ==
    ASSUME NEW T, NEW n \in Nat, NEW f, f = [i \in 1..n |-> f[i]], \A i \in 1..n : f[i] \in T
    PROVE  f \in Seq(T) /\ Len(f) = n
  <1>1. f \in [1..n -> T]
    OBVIOUS
  <1>2. f \in Seq(T)
    BY <1>1
  <1> QED
    BY <1>1, <1>2

\* Every instruction is moved.
LEMMA MoveIs ==
    ASSUME NEW c \in Code, NEW n \in Nat, NEW exit \in Addresses
    PROVE  /\ Move(c, n, exit) \in Code
           /\ Len(Move(c, n, exit)) = Len(c)
           /\ \A j \in 1..Len(c) : Move(c, n, exit)[j] = Moved(c[j], n, exit)
  <1> DEFINE f == Move(c, n, exit)
  <1>1. f = [j \in 1..Len(c) |-> Moved(c[j], n, exit)]
    BY DEF Move
  <1>2. Len(c) \in Nat /\ \A j \in 1..Len(c) : c[j] \in Instructions
    BY DEF Code
  <1> HIDE DEF f
  <1>3. \A j \in 1..Len(c) : f[j] = Moved(c[j], n, exit) /\ f[j] \in Instructions
    BY <1>1, <1>2, MovedIs
  <1>4. f = [j \in 1..Len(c) |-> f[j]]
    BY <1>1
  <1>5. f \in Seq(Instructions) /\ Len(f) = Len(c)
    BY <1>2, <1>3, <1>4, IsSequence
  <1> QED
    BY <1>3, <1>5 DEF Code, f

\* Code that is moved twice.
LEMMA MoveTwice ==
    ASSUME NEW c \in Code, NEW n \in Nat, NEW exit \in Addresses, NEW m \in Nat, NEW outer \in Addresses
    PROVE  Move(Move(c, n, exit), m, outer) = Move(c, n + m, Beyond(exit, m, outer))
  <1> DEFINE once == Move(c, n, exit)
             a == Move(once, m, outer)
             b == Move(c, n + m, Beyond(exit, m, outer))
  <1>1. Beyond(exit, m, outer) \in Addresses /\ n + m \in Nat
    BY DEF Beyond, Addresses
  <1>2. /\ once \in Code /\ Len(once) = Len(c)
        /\ \A j \in 1..Len(c) : once[j] = Moved(c[j], n, exit)
    BY MoveIs
  <1> HIDE DEF once
  <1>3. /\ a \in Code /\ Len(a) = Len(c)
        /\ \A j \in 1..Len(c) : a[j] = Moved(once[j], m, outer)
    <2>1. /\ a \in Code /\ Len(a) = Len(once)
          /\ \A j \in 1..Len(once) : a[j] = Moved(once[j], m, outer)
      BY <1>2, MoveIs
    <2> QED
      BY <1>2, <2>1
  <1>4. /\ b \in Code /\ Len(b) = Len(c)
        /\ \A j \in 1..Len(c) : b[j] = Moved(c[j], n + m, Beyond(exit, m, outer))
    BY <1>1, MoveIs
  <1> HIDE DEF a, b
  <1>5. \A j \in 1..Len(c) : c[j] \in Instructions
    BY DEF Code
  <1>6. \A j \in 1..Len(c) : a[j] = b[j]
    BY <1>2, <1>3, <1>4, <1>5, MovedTwice
  <1>7. a = b
    BY <1>3, <1>4, <1>6, SeqEqual DEF Code
  <1> QED
    BY <1>7 DEF a, b, once

\* Every instruction is marked.
LEMMA MarkedIs ==
    ASSUME NEW c \in Code
    PROVE  /\ Marked(c) \in Code
           /\ Len(Marked(c)) = Len(c)
           /\ \A j \in 1..Len(c) : Marked(c)[j] = Mark(c[j])
  <1> DEFINE f == Marked(c)
  <1>1. f = [j \in 1..Len(c) |-> Mark(c[j])]
    BY DEF Marked, Mark
  <1>2. Len(c) \in Nat /\ \A j \in 1..Len(c) : c[j] \in Instructions
    BY DEF Code
  <1> HIDE DEF f
  <1>3. ASSUME NEW ins \in Instructions PROVE Mark(ins) \in Instructions
    <2>1. ins.mode \cup {"fail"} \in SUBSET Modes
      BY DEF Instructions, Modes
    <2> QED
      BY <2>1 DEF Mark, Instructions
  <1>4. \A j \in 1..Len(c) : f[j] = Mark(c[j]) /\ f[j] \in Instructions
    BY <1>1, <1>2, <1>3
  <1>5. f = [j \in 1..Len(c) |-> f[j]]
    BY <1>1
  <1>6. f \in Seq(Instructions) /\ Len(f) = Len(c)
    BY <1>2, <1>4, <1>5, IsSequence
  <1> QED
    BY <1>4, <1>6 DEF Code, f

-----------------------------------------------------------------------------
(* Parts of code.                                                             *)

\* part stands in code behind the first at instructions.
Part(code, at, part) ==
    /\ at \in Nat /\ at + Len(part) <= Len(code)
    /\ \A j \in 1..Len(part) : code[at + j] = part[j]

\* The halves of a code are its parts.
LEMMA PartsOfConcat ==
    ASSUME NEW a \in Code, NEW b \in Code
    PROVE  /\ a \o b \in Code /\ Len(a \o b) = Len(a) + Len(b)
           /\ Part(a \o b, 0, a) /\ Part(a \o b, Len(a), b)
  <1> DEFINE c == a \o b
  <1>1. /\ c \in Code /\ Len(c) = Len(a) + Len(b) /\ Len(a) \in Nat /\ Len(b) \in Nat
        /\ \A i \in 1..Len(a) + Len(b) : c[i] = IF i <= Len(a) THEN a[i] ELSE b[i - Len(a)]
    BY ConcatProperties DEF Code
  <1> HIDE DEF c
  <1>2. Part(c, 0, a)
    <2>1. \A j \in 1..Len(a) : j \in 1..Len(a) + Len(b) /\ 0 + j = j /\ j <= Len(a)
      BY <1>1
    <2> QED
      BY <1>1, <2>1 DEF Part
  <1>3. Part(c, Len(a), b)
    <2>1. \A j \in 1..Len(b) : /\ Len(a) + j \in 1..Len(a) + Len(b)
                               /\ ~(Len(a) + j <= Len(a)) /\ (Len(a) + j) - Len(a) = j
      BY <1>1
    <2> QED
      BY <1>1, <2>1 DEF Part
  <1> QED
    BY <1>1, <1>2, <1>3 DEF c

\* A part of a part.
LEMMA PartOfPart ==
    ASSUME NEW a \in Code, NEW b \in Code, NEW c \in Code, NEW at, NEW in, Part(a, at, b), Part(b, in, c)
    PROVE  Part(a, at + in, c)
  <1>1. /\ at \in Nat /\ in \in Nat /\ Len(a) \in Nat /\ Len(b) \in Nat /\ Len(c) \in Nat
        /\ at + Len(b) <= Len(a) /\ in + Len(c) <= Len(b)
    BY DEF Part, Code
  <1>2. \A j \in 1..Len(c) : in + j \in 1..Len(b) /\ (at + in) + j = at + (in + j)
    BY <1>1
  <1>3. \A j \in 1..Len(c) : a[(at + in) + j] = c[j]
    BY <1>2 DEF Part
  <1>4. at + in \in Nat /\ (at + in) + Len(c) <= Len(a)
    BY <1>1
  <1> QED
    BY <1>3, <1>4 DEF Part

\* Parts of moved and of marked code.
LEMMA PartMoved ==
    ASSUME NEW a \in Code, NEW b \in Code, NEW at, Part(a, at, b), NEW n \in Nat, NEW exit \in Addresses
    PROVE  Part(Move(a, n, exit), at, Move(b, n, exit))
  <1>1. /\ Len(Move(a, n, exit)) = Len(a) /\ Len(Move(b, n, exit)) = Len(b)
        /\ \A j \in 1..Len(a) : Move(a, n, exit)[j] = Moved(a[j], n, exit)
        /\ \A j \in 1..Len(b) : Move(b, n, exit)[j] = Moved(b[j], n, exit)
    BY MoveIs
  <1>2. at \in Nat /\ Len(a) \in Nat /\ Len(b) \in Nat /\ at + Len(b) <= Len(a)
    BY DEF Part, Code
  <1>3. \A j \in 1..Len(b) : at + j \in 1..Len(a)
    BY <1>2
  <1>4. \A j \in 1..Len(b) : a[at + j] = b[j]
    BY DEF Part
  <1>5. \A j \in 1..Len(b) : Move(a, n, exit)[at + j] = Move(b, n, exit)[j]
    BY <1>1, <1>3, <1>4
  <1> QED
    BY <1>1, <1>2, <1>5 DEF Part

\* Marked code has marked parts.
LEMMA PartMarked ==
    ASSUME NEW a \in Code, NEW b \in Code, NEW at, Part(a, at, b)
    PROVE  Part(Marked(a), at, Marked(b))
  <1>1. /\ Len(Marked(a)) = Len(a) /\ Len(Marked(b)) = Len(b)
        /\ \A j \in 1..Len(a) : Marked(a)[j] = Mark(a[j])
        /\ \A j \in 1..Len(b) : Marked(b)[j] = Mark(b[j])
    BY MarkedIs
  <1>2. at \in Nat /\ Len(a) \in Nat /\ Len(b) \in Nat /\ at + Len(b) <= Len(a)
    BY DEF Part, Code
  <1>3. \A j \in 1..Len(b) : at + j \in 1..Len(a)
    BY <1>2
  <1>4. \A j \in 1..Len(b) : a[at + j] = b[j]
    BY DEF Part
  <1>5. \A j \in 1..Len(b) : Marked(a)[at + j] = Marked(b)[j]
    BY <1>1, <1>3, <1>4
  <1> QED
    BY <1>1, <1>2, <1>5 DEF Part

-----------------------------------------------------------------------------
(* Pieces of code one after another.                                          *)

CodePieces(n, pieces) == pieces = [k \in 1..n |-> pieces[k]] /\ \A k \in 1..n : pieces[k] \in Code

\* What Pieced gives.
LEMMA JoinedIs ==
    ASSUME NEW n \in Nat, NEW pieces, CodePieces(n, pieces)
    PROVE  /\ Pieced(pieces)[0] = <<>>
           /\ \A k \in 1..n : Pieced(pieces)[k] = Pieced(pieces)[k - 1] \o pieces[k]
           /\ \A k \in 0..n : Pieced(pieces)[k] \in Code
  <1> DEFINE upto[k \in 0..Len(pieces)] == IF k = 0 THEN <<>> ELSE upto[k - 1] \o pieces[k]
  <1>1. Len(pieces) = n
    <2>1. DOMAIN pieces = 1..n
      BY DEF CodePieces
    <2> QED
      BY <2>1, LengthOf
  <1>2. Pieced(pieces) = upto
    BY DEF Pieced
  <1>3. upto = [k \in 0..n |-> IF k = 0 THEN <<>> ELSE upto[k - 1] \o pieces[k]]
    <2> DEFINE reached == {m \in Nat : \E f : f = [k \in 0..m |-> IF k = 0 THEN <<>> ELSE f[k - 1] \o pieces[k]]}
    <2>1. \A m \in Nat : m \in reached <=> \E f : f = [k \in 0..m |-> IF k = 0 THEN <<>> ELSE f[k - 1] \o pieces[k]]
      OBVIOUS
    <2>2. 0 \in reached
      <3> DEFINE f == [k \in 0..0 |-> <<>>]
      <3>1. f = [k \in 0..0 |-> IF k = 0 THEN <<>> ELSE f[k - 1] \o pieces[k]]
        OBVIOUS
      <3> HIDE DEF f
      <3> QED
        BY <3>1
    <2>3. ASSUME NEW m \in reached PROVE m + 1 \in reached
      <3>1. PICK f : f = [k \in 0..m |-> IF k = 0 THEN <<>> ELSE f[k - 1] \o pieces[k]]
        BY <2>3
      <3>2. m \in Nat
        OBVIOUS
      <3> DEFINE g == [k \in 0..m + 1 |-> IF k = m + 1 THEN f[m] \o pieces[m + 1] ELSE f[k]]
      <3>3. \A k \in 0..m : f[k] = IF k = 0 THEN <<>> ELSE f[k - 1] \o pieces[k]
        BY <3>1, <3>2, ZenonT(40)
      <3>4. /\ \A k \in 0..m : g[k] = f[k]
            /\ g[m + 1] = f[m] \o pieces[m + 1]
        <4>1. m + 1 \in 0..m + 1 /\ \A k \in 0..m : k \in 0..m + 1 /\ k # m + 1
          BY <3>2
        <4>2. g[m + 1] = f[m] \o pieces[m + 1]
          BY <4>1
        <4>3. \A k \in 0..m : g[k] = f[k]
          BY <4>1
        <4> QED
          BY <4>2, <4>3
      <3>5. ASSUME NEW k \in 0..m + 1
            PROVE  g[k] = IF k = 0 THEN <<>> ELSE g[k - 1] \o pieces[k]
        <4> HIDE DEF g
        <4>1. CASE k = m + 1
          <5>1. k # 0 /\ k - 1 = m /\ m \in 0..m
            BY <3>2, <4>1
          <5>2. g[k - 1] = f[m] /\ g[k] = f[m] \o pieces[k]
            BY <3>4, <4>1, <5>1
          <5> QED
            BY <5>1, <5>2
        <4>2. CASE k = 0
          <5>1. k \in 0..m
            BY <3>2, <4>2
          <5> QED
            BY <3>3, <3>4, <4>2, <5>1
        <4>3. CASE k # 0 /\ k # m + 1
          <5>1. k \in 0..m /\ k - 1 \in 0..m
            BY <3>2, <4>3
          <5>2. g[k] = f[k] /\ g[k - 1] = f[k - 1]
            BY <3>4, <5>1
          <5>3. f[k] = f[k - 1] \o pieces[k]
            BY <3>3, <4>3, <5>1
          <5> QED
            BY <4>3, <5>2, <5>3
        <4> QED
          BY <4>1, <4>2, <4>3
      <3>6. g = [k \in 0..m + 1 |-> g[k]]
        OBVIOUS
      <3> HIDE DEF g
      <3>7. g = [k \in 0..m + 1 |-> IF k = 0 THEN <<>> ELSE g[k - 1] \o pieces[k]]
        BY <3>5, <3>6
      <3>8. m + 1 \in Nat
        BY <3>2
      <3> HIDE DEF reached
      <3> QED
        BY <2>1, <3>7, <3>8
    <2>4. n \in reached
      <3> HIDE DEF reached
      <3>1. reached \in SUBSET Nat
        BY DEF reached
      <3> QED
        BY <2>2, <2>3, <3>1, EveryNumber
    <2>5. upto = CHOOSE f : f = [k \in 0..n |-> IF k = 0 THEN <<>> ELSE f[k - 1] \o pieces[k]]
      BY <1>1 DEF upto
    <2> HIDE DEF reached, upto
    <2> QED
      BY <2>1, <2>4, <2>5
  <1> HIDE DEF upto
  <1>4. \A k \in 0..n : upto[k] = IF k = 0 THEN <<>> ELSE upto[k - 1] \o pieces[k]
    BY <1>3, ZenonT(40)
  <1>5. upto[0] = <<>> /\ \A k \in 1..n : upto[k] = upto[k - 1] \o pieces[k]
    <2>1. 0 \in 0..n /\ \A k \in 1..n : k \in 0..n /\ k # 0
      OBVIOUS
    <2> QED
      BY <1>4, <2>1, Zenon
  <1> DEFINE typed == {k \in Nat : k <= n => upto[k] \in Code}
  <1>6. 0 \in typed
    <2>1. <<>> \in Code
      BY DEF Code
    <2> QED
      BY <1>5, <2>1
  <1>7. ASSUME NEW k \in typed PROVE k + 1 \in typed
    <2>1. SUFFICES ASSUME k + 1 <= n PROVE upto[k + 1] \in Code
      OBVIOUS
    <2>2. k + 1 \in 1..n /\ (k + 1) - 1 = k /\ k <= n
      BY <2>1
    <2>3. upto[k] \in Code /\ pieces[k + 1] \in Code /\ upto[k + 1] = upto[k] \o pieces[k + 1]
      BY <1>5, <1>7, <2>2 DEF CodePieces
    <2> QED
      BY <2>3, PartsOfConcat
  <1>8. \A k \in Nat : k \in typed
    <2> HIDE DEF typed
    <2>1. typed \in SUBSET Nat
      BY DEF typed
    <2> QED
      BY <1>6, <1>7, <2>1, EveryNumber
  <1>9. \A k \in 0..n : upto[k] \in Code
    <2>1. \A k \in 0..n : k \in Nat /\ k <= n
      OBVIOUS
    <2> QED
      BY <1>8, <2>1
  <1> HIDE DEF typed
  <1> QED
    BY <1>2, <1>5, <1>9, Zenon

\* The pieces are parts of it.
LEMMA JoinedParts ==
    ASSUME NEW n \in Nat, NEW pieces, CodePieces(n, pieces), NEW m \in 0..n
    PROVE  \A k \in 1..m :
               /\ Len(Pieced(pieces)[k]) = Len(Pieced(pieces)[k - 1]) + Len(pieces[k])
               /\ Part(Pieced(pieces)[m], Len(Pieced(pieces)[k - 1]), pieces[k])
  <1> DEFINE J == Pieced(pieces)
             Laid(x) == \A k \in 1..x : /\ Len(J[k]) = Len(J[k - 1]) + Len(pieces[k])
                                          /\ Part(J[x], Len(J[k - 1]), pieces[k])
             good == {x \in Nat : x <= n => Laid(x)}
  <1>1. /\ J[0] = <<>>
        /\ \A k \in 1..n : J[k] = J[k - 1] \o pieces[k]
        /\ \A k \in 0..n : J[k] \in Code
    BY JoinedIs
  <1> HIDE DEF J, Laid
  <1>2. 0 \in good
    <2>1. Laid(0)
      BY DEF Laid
    <2> QED
      BY <2>1
  <1>3. ASSUME NEW x \in good PROVE x + 1 \in good
    <2>0. SUFFICES ASSUME x + 1 <= n PROVE Laid(x + 1)
      OBVIOUS
    <2>1. SUFFICES ASSUME NEW k \in 1..x + 1
                   PROVE  /\ Len(J[k]) = Len(J[k - 1]) + Len(pieces[k])
                          /\ Part(J[x + 1], Len(J[k - 1]), pieces[k])
      BY DEF Laid
    <2>2. x \in Nat /\ x + 1 \in 1..n /\ (x + 1) - 1 = x /\ x \in 0..n /\ x <= n
      BY <2>0
    <2>3. J[x + 1] = J[x] \o pieces[x + 1] /\ J[x] \in Code /\ pieces[x + 1] \in Code
      BY <1>1, <2>2 DEF CodePieces
    <2>4. /\ J[x + 1] \in Code /\ Len(J[x + 1]) = Len(J[x]) + Len(pieces[x + 1])
          /\ Part(J[x + 1], 0, J[x]) /\ Part(J[x + 1], Len(J[x]), pieces[x + 1])
      BY <2>3, PartsOfConcat
    <2>5. CASE k = x + 1
      BY <2>2, <2>4, <2>5
    <2>6. CASE k # x + 1
      <3>1. k \in 1..x /\ k \in 1..n /\ k - 1 \in 0..n
        BY <2>2, <2>6
      <3>2. Len(J[k]) = Len(J[k - 1]) + Len(pieces[k]) /\ Part(J[x], Len(J[k - 1]), pieces[k])
        BY <1>3, <2>2, <3>1 DEF Laid
      <3>3. Part(J[x + 1], 0 + Len(J[k - 1]), pieces[k])
        <4>1. pieces[k] \in Code
          BY <3>1 DEF CodePieces
        <4> QED
          BY <2>3, <2>4, <3>2, <4>1, PartOfPart
      <3>4. 0 + Len(J[k - 1]) = Len(J[k - 1])
        <4>1. Len(J[k - 1]) \in Nat
          BY <1>1, <3>1 DEF Code
        <4> QED
          BY <4>1
      <3> QED
        BY <3>2, <3>3, <3>4
    <2> QED
      BY <2>5, <2>6
  <1>4. \A x \in Nat : x \in good
    <2> HIDE DEF good
    <2>1. good \in SUBSET Nat
      BY DEF good
    <2> QED
      BY <1>2, <1>3, <2>1, EveryNumber
  <1>5. Laid(m)
    <2>1. m \in Nat /\ m <= n
      OBVIOUS
    <2> QED
      BY <1>4, <2>1
  <1> QED
    BY <1>5 DEF J, Laid

-----------------------------------------------------------------------------
(* The code of a node.                                                        *)

\* An instruction.
LEMMA IsInstruction ==
    ASSUME NEW mode \in SUBSET Modes, NEW bs \in Seq(Nat), NEW i \in Addresses
    PROVE  /\ Ins(mode, bs, i) \in Instructions
           /\ <<Ins(mode, bs, i)>> \in Code /\ Len(<<Ins(mode, bs, i)>>) = 1
           /\ <<Ins(mode, bs, i)>>[1] = Ins(mode, bs, i)
  <1>1. Ins(mode, bs, i) \in Instructions
    BY DEF Ins, Instructions
  <1> QED
    BY <1>1 DEF Code

\* The chunks a child is found by.
LEMMA ChildChunksAre ==
    ASSUME NEW routes, Prefixed(routes), NEW v \in Nodes(routes), NEW i \in Forks(routes, v)
    PROVE  Cut(ChildChunks(routes, v, i), PrefixOf(routes, i), v.dp, Child(routes, v, i).dp)
  <1> DEFINE child == Child(routes, v, i)
             p == PrefixOf(routes, i)
             from == v.dp
             to == child.dp
  <1>1. child \in Nodes(routes) /\ child.first = i /\ v.dp < child.dp
    BY ChildIs
  <1> HIDE DEF child
  <1>2. /\ child.dp \in Nat /\ v.dp \in Nat /\ i \in child.first..child.last
    BY <1>1, NodeIs
  <1>3. p \in Seq(Nat) /\ child.dp <= Len(p)
    BY <1>1, <1>2, NodeIs
  <1>4. ChildChunks(routes, v, i) = Chunks(p, from, to)
    BY DEF ChildChunks, child
  <1>5. from \in Nat /\ to \in Nat /\ from < to /\ to <= Len(p)
    BY <1>1, <1>2, <1>3
  <1> HIDE DEF p, from, to
  <1>6. Cut(Chunks(p, from, to), p, from, to)
    BY <1>3, <1>5, ChunksAre, Zenon
  <1> QED
    BY <1>4, <1>6 DEF child, p, from, to

\* One and two instructions.
LEMMA OneAndTwo ==
    ASSUME NEW x \in Instructions, NEW y \in Instructions
    PROVE  /\ <<x>> \in Code /\ Len(<<x>>) = 1 /\ <<x>>[1] = x /\ <<>> \in Code
           /\ <<x>> \o <<y>> \in Code /\ Len(<<x>> \o <<y>>) = 2
           /\ (<<x>> \o <<y>>)[1] = x /\ (<<x>> \o <<y>>)[2] = y
  <1> DEFINE a == <<x>>
             b == <<y>>
  <1>1. a \in Code /\ b \in Code /\ <<>> \in Code /\ Len(a) = 1 /\ Len(b) = 1 /\ a[1] = x /\ b[1] = y
    BY DEF Code
  <1> HIDE DEF a, b
  <1>2. a \o b \in Code /\ Len(a \o b) = 1 + 1 /\ Part(a \o b, 0, a) /\ Part(a \o b, 1, b)
    <2>1. a \in Code /\ b \in Code
      BY <1>1
    <2>2. a \o b \in Code /\ Len(a \o b) = Len(a) + Len(b) /\ Part(a \o b, 0, a) /\ Part(a \o b, Len(a), b)
      BY <2>1, PartsOfConcat
    <2> QED
      BY <1>1, <2>2
  <1>3. (a \o b)[0 + 1] = x /\ (a \o b)[1 + 1] = y
    BY <1>1, <1>2 DEF Part
  <1> QED
    BY <1>1, <1>2, <1>3 DEF a, b

\* Nothing in front or behind.
LEMMA WithEmpty ==
    ASSUME NEW a \in Code
    PROVE  a \o <<>> = a /\ <<>> \o a = a
  BY DEF Code

\* What a route gives to a body.
LEMMA BodyIs ==
    ASSUME NEW routes, Prefixed(routes), NEW v \in Nodes(routes),
           NEW sub, \A i \in Forks(routes, v) : sub[i] \in Code, NEW i \in v.first..v.last
    PROVE  /\ Body(routes, v, sub, i) \in Code
           /\ i \notin Forks(routes, v) => Body(routes, v, sub, i) = <<>>
           /\ i \in Forks(routes, v) =>
                  LET chunks == ChildChunks(routes, v, i)
                      body == Body(routes, v, sub, i)
                  IN  /\ Len(body) = (Len(chunks) - 1) + Len(sub[i])
                      /\ \A k \in 1..Len(chunks) - 1 : body[k] = Ins({}, chunks[k + 1], -1)
                      /\ Part(body, Len(chunks) - 1, Move(sub[i], Len(chunks) - 1, -1))
  <1> DEFINE chunks == ChildChunks(routes, v, i)
             n == Len(chunks) - 1
             rest == [k \in 1..n |-> Ins({}, chunks[k + 1], -1)]
             moved == Move(sub[i], n, -1)
             body == Body(routes, v, sub, i)
  <1>1. CASE i \notin Forks(routes, v)
    <2>1. body = <<>>
      BY <1>1 DEF Body
    <2>2. <<>> \in Code
      BY DEF Code
    <2> QED
      BY <1>1, <2>1, <2>2
  <1>2. CASE i \in Forks(routes, v)
    <2>1. Len(chunks) \in Nat /\ 1 <= Len(chunks) /\ \A k \in 1..Len(chunks) : chunks[k] \in Seq(Nat)
      BY <1>2, ChildChunksAre DEF Cut
    <2> HIDE DEF chunks
    <2>2. n \in Nat /\ \A k \in 1..n : k + 1 \in 1..Len(chunks)
      BY <2>1
    <2> HIDE DEF n
    <2>3. \A k \in 1..n : rest[k] = Ins({}, chunks[k + 1], -1) /\ rest[k] \in Instructions
      <3>1. {} \in SUBSET Modes /\ -1 \in Addresses
        BY DEF Addresses
      <3> QED
        BY <2>1, <2>2, <3>1, IsInstruction
    <2>4. rest \in Code /\ Len(rest) = n
      <3>1. rest = [k \in 1..n |-> rest[k]]
        OBVIOUS
      <3> HIDE DEF rest
      <3> QED
        BY <2>2, <2>3, <3>1, IsSequence DEF Code
    <2>5. body = rest \o moved
      <3>1. body = rest \o Move(sub[i], Len(rest), -1)
        BY <1>2 DEF Body, chunks, n
      <3> HIDE DEF rest, body
      <3> QED
        BY <2>4, <3>1
    <2>6. moved \in Code /\ Len(moved) = Len(sub[i])
      <3>1. -1 \in Addresses
        BY DEF Addresses
      <3> QED
        BY <1>2, <2>2, <3>1, MoveIs
    <2> HIDE DEF rest, moved, body
    <2>7. /\ body \in Code /\ Len(body) = n + Len(sub[i])
          /\ Part(body, 0, rest) /\ Part(body, n, moved)
      BY <2>4, <2>5, <2>6, PartsOfConcat
    <2>8. \A k \in 1..n : body[k] = Ins({}, chunks[k + 1], -1)
      <3>1. \A k \in 1..n : 0 + k = k
        BY <2>2
      <3>2. \A k \in 1..n : body[0 + k] = rest[k]
        BY <2>4, <2>7 DEF Part
      <3> QED
        BY <2>3, <3>1, <3>2
    <2> QED
      BY <1>2, <2>7, <2>8 DEF body, moved, n, chunks
  <1> QED
    BY <1>1, <1>2

\* What it gives to a head.
LEMMA HeadIs ==
    ASSUME NEW routes, Prefixed(routes), NEW v \in Nodes(routes), NEW i \in v.first..v.last, NEW to \in Nat
    PROVE  LET head == SegmentHead(routes, v, to, i)
               cursor == Ins({"setCursor"}, <<>>, v.dp)
               jump == Ins({"jumpOnMatch"}, ChildChunks(routes, v, i)[1], to)
           IN  /\ head \in Code
               /\ i \in Own(routes, v) =>
                      Len(head) = 2 /\ head[1] = cursor /\ head[2] = Ins({"route"}, <<>>, i)
               /\ i \in Forks(routes, v) /\ i = v.first => Len(head) = 2 /\ head[1] = cursor /\ head[2] = jump
               /\ i \in Forks(routes, v) /\ i # v.first => Len(head) = 1 /\ head[1] = jump
               /\ i \notin Own(routes, v) /\ i \notin Forks(routes, v) => head = <<>>
  <1> DEFINE head == SegmentHead(routes, v, to, i)
             cursor == Ins({"setCursor"}, <<>>, v.dp)
             try == Ins({"route"}, <<>>, i)
             jump == Ins({"jumpOnMatch"}, ChildChunks(routes, v, i)[1], to)
             a == IF i \in Segments(routes, v) THEN <<cursor>> ELSE <<>>
             b == IF i \in Own(routes, v) THEN <<try>> ELSE <<>>
             c == IF i \in Forks(routes, v) THEN <<jump>> ELSE <<>>
  <1>1. head = a \o b \o c
    BY DEF SegmentHead
  <1>2. v.dp \in Nat /\ i \in Nat
    BY NodeIs
  <1>3. cursor \in Instructions /\ try \in Instructions
    <2>1. v.dp \in Addresses /\ i \in Addresses /\ <<>> \in Seq(Nat)
          /\ {"setCursor"} \in SUBSET Modes /\ {"route"} \in SUBSET Modes
      BY <1>2 DEF Addresses, Modes
    <2> QED
      BY <2>1, IsInstruction
  <1>4. i \in Forks(routes, v) => jump \in Instructions
    <2> SUFFICES ASSUME i \in Forks(routes, v) PROVE jump \in Instructions
      OBVIOUS
    <2>1. ChildChunks(routes, v, i)[1] \in Seq(Nat)
      <3>1. 1 \in 1..Len(ChildChunks(routes, v, i))
        BY ChildChunksAre DEF Cut
      <3> QED
        BY <3>1, ChildChunksAre DEF Cut
    <2>2. to \in Addresses /\ {"jumpOnMatch"} \in SUBSET Modes
      BY DEF Addresses, Modes
    <2> QED
      BY <2>1, <2>2, IsInstruction
  <1>5. /\ i \in Own(routes, v) => i \in Segments(routes, v) /\ i \notin Forks(routes, v)
        /\ i \in Segments(routes, v) <=> i = v.first \/ i \in Own(routes, v)
        /\ i = v.first => i \in Own(routes, v) \/ i \in Forks(routes, v)
    <2>1. i \in Own(routes, v) => i \notin Forks(routes, v)
      BY DEF Forks
    <2>2. i = v.first => i \in Own(routes, v) \/ i \in Forks(routes, v)
      BY DEF Forks
    <2> QED
      BY <2>1, <2>2 DEF Segments
  <1> HIDE DEF head, cursor, try, jump
  <1>6. CASE i \in Own(routes, v)
    <2>1. head = <<cursor>> \o <<try>> \o <<>>
      BY <1>1, <1>5, <1>6
    <2>2. /\ <<cursor>> \o <<try>> \in Code /\ Len(<<cursor>> \o <<try>>) = 2
          /\ (<<cursor>> \o <<try>>)[1] = cursor /\ (<<cursor>> \o <<try>>)[2] = try
      BY <1>3, OneAndTwo
    <2>3. head = <<cursor>> \o <<try>>
      BY <2>1, <2>2, WithEmpty
    <2> QED
      BY <1>5, <1>6, <2>2, <2>3 DEF head, cursor, try, jump
  <1>7. CASE i \in Forks(routes, v) /\ i = v.first
    <2>1. head = <<cursor>> \o <<>> \o <<jump>>
      BY <1>1, <1>5, <1>7
    <2>2. /\ <<cursor>> \in Code /\ <<cursor>> \o <<jump>> \in Code /\ Len(<<cursor>> \o <<jump>>) = 2
          /\ (<<cursor>> \o <<jump>>)[1] = cursor /\ (<<cursor>> \o <<jump>>)[2] = jump
      BY <1>3, <1>4, <1>7, OneAndTwo
    <2>3. head = <<cursor>> \o <<jump>>
      BY <2>1, <2>2, WithEmpty
    <2> QED
      BY <1>5, <1>7, <2>2, <2>3 DEF head, cursor, try, jump
  <1>8. CASE i \in Forks(routes, v) /\ i # v.first
    <2>1. head = <<>> \o <<>> \o <<jump>>
      BY <1>1, <1>5, <1>8
    <2>2. <<jump>> \in Code /\ Len(<<jump>>) = 1 /\ <<jump>>[1] = jump /\ <<>> \in Code
      BY <1>3, <1>4, <1>8, OneAndTwo
    <2>3. head = <<jump>>
      BY <2>1, <2>2, WithEmpty
    <2> QED
      BY <1>5, <1>8, <2>2, <2>3 DEF head, cursor, try, jump
  <1>9. CASE i \notin Own(routes, v) /\ i \notin Forks(routes, v)
    <2>1. head = <<>> \o <<>> \o <<>>
      BY <1>1, <1>5, <1>9
    <2>2. head = <<>>
      BY <2>1
    <2> QED
      BY <1>9, <2>2 DEF Code, head, cursor, try, jump
  <1> QED
    BY <1>6, <1>7, <1>8, <1>9 DEF head, cursor, try, jump

-----------------------------------------------------------------------------
(* Where the code of a node has what.                                         *)

Failure == Ins({"jumpOnMatch"}, <<>>, -1)

\* Pieced pieces of the same lengths have the same lengths.
LEMMA SameLengths ==
    ASSUME NEW n \in Nat, NEW a, CodePieces(n, a), NEW b, CodePieces(n, b),
           \A k \in 1..n : Len(a[k]) = Len(b[k])
    PROVE  \A k \in 0..n : Len(Pieced(a)[k]) = Len(Pieced(b)[k])
  <1> DEFINE A == Pieced(a)
             B == Pieced(b)
             same == {k \in Nat : k <= n => Len(A[k]) = Len(B[k])}
  <1>1. A[0] = <<>> /\ B[0] = <<>>
    BY JoinedIs
  <1>2. \A k \in 1..n : Len(A[k]) = Len(A[k - 1]) + Len(a[k])
    <2>1. n \in 0..n
      OBVIOUS
    <2> QED
      BY <2>1, JoinedParts
  <1>3. \A k \in 1..n : Len(B[k]) = Len(B[k - 1]) + Len(b[k])
    <2>1. n \in 0..n
      OBVIOUS
    <2> QED
      BY <2>1, JoinedParts
  <1> HIDE DEF A, B
  <1>4. 0 \in same
    BY <1>1
  <1>5. ASSUME NEW k \in same PROVE k + 1 \in same
    <2>1. SUFFICES ASSUME k + 1 <= n PROVE Len(A[k + 1]) = Len(B[k + 1])
      OBVIOUS
    <2>2. k + 1 \in 1..n /\ (k + 1) - 1 = k /\ k <= n
      BY <2>1
    <2>3. Len(A[k]) = Len(B[k])
      BY <1>5, <2>2
    <2>4. Len(A[k + 1]) = Len(A[k]) + Len(a[k + 1]) /\ Len(B[k + 1]) = Len(B[k]) + Len(b[k + 1])
      BY <1>2, <1>3, <2>2
    <2> QED
      BY <2>2, <2>3, <2>4
  <1>6. \A k \in Nat : k \in same
    <2> HIDE DEF same
    <2>1. same \in SUBSET Nat
      BY DEF same
    <2> QED
      BY <1>4, <1>5, <2>1, EveryNumber
  <1>7. \A k \in 0..n : Len(A[k]) = Len(B[k])
    <2>1. \A k \in 0..n : k \in Nat /\ k <= n
      OBVIOUS
    <2> QED
      BY <1>6, <2>1
  <1> QED
    BY <1>7 DEF A, B

\* What they are.
Plain(c, n, h, b, base) ==
    /\ base \in Nat /\ c \in Code /\ c[base] = Failure
    /\ Len(c) = base + Len(Pieced(b)[n])
    /\ \A k \in 0..n : Len(Pieced(h)[k]) \in Nat /\ Len(Pieced(b)[k]) \in Nat
    /\ \A k \in 1..n :
           /\ Len(Pieced(h)[k]) = Len(Pieced(h)[k - 1]) + Len(h[k])
           /\ Len(Pieced(b)[k]) = Len(Pieced(b)[k - 1]) + Len(b[k])
           /\ Part(c, Len(Pieced(h)[k - 1]), Move(h[k], base, -1))
           /\ Part(c, base + Len(Pieced(b)[k - 1]), b[k])

\* c is heads, a jump and bodies.
Assembly(c, n, h, b, base) ==
    /\ base = Len(Pieced(h)[n]) + 1
    /\ c = Move(Pieced(h)[n], base, -1) \o <<Failure>> \o Pieced(b)[n]

\* Every head and every body stands in it where it should.
LEMMA Assembled ==
    ASSUME NEW n \in Nat, NEW h, CodePieces(n, h), NEW b, CodePieces(n, b),
           NEW base, NEW c, Assembly(c, n, h, b, base)
    PROVE  Plain(c, n, h, b, base)
  <1> DEFINE H == Pieced(h)
             B == Pieced(b)
             moved == Move(H[n], base, -1)
             front == moved \o <<Failure>>
  <1>1. n \in 0..n /\ -1 \in Addresses
    BY DEF Addresses
  <1>2. /\ \A k \in 0..n : H[k] \in Code
        /\ \A k \in 1..n : Len(H[k]) = Len(H[k - 1]) + Len(h[k]) /\ Part(H[n], Len(H[k - 1]), h[k])
    BY <1>1, JoinedIs, JoinedParts
  <1>3. /\ \A k \in 0..n : B[k] \in Code
        /\ \A k \in 1..n : Len(B[k]) = Len(B[k - 1]) + Len(b[k]) /\ Part(B[n], Len(B[k - 1]), b[k])
    BY <1>1, JoinedIs, JoinedParts
  <1> HIDE DEF H, B
  <1>4. \A k \in 0..n : Len(H[k]) \in Nat /\ Len(B[k]) \in Nat
    BY <1>2, <1>3 DEF Code
  <1>5. base = Len(H[n]) + 1
    BY DEF Assembly, H
  <1>6. base \in Nat
    BY <1>1, <1>4, <1>5
  <1>7. moved \in Code /\ Len(moved) = Len(H[n])
    BY <1>1, <1>2, <1>6, MoveIs
  <1> HIDE DEF moved
  <1>8. <<Failure>> \in Code /\ Len(<<Failure>>) = 1 /\ <<Failure>>[1] = Failure
    <2>1. <<>> \in Seq(Nat) /\ {"jumpOnMatch"} \in SUBSET Modes
      BY DEF Modes
    <2> QED
      BY <1>1, <2>1, IsInstruction DEF Failure
  <1>9. /\ front \in Code /\ Len(front) = base /\ Part(front, 0, moved) /\ Part(front, Len(moved), <<Failure>>)
    <2>1. /\ front \in Code /\ Len(front) = Len(moved) + Len(<<Failure>>)
          /\ Part(front, 0, moved) /\ Part(front, Len(moved), <<Failure>>)
      BY <1>7, <1>8, PartsOfConcat
    <2> QED
      BY <1>5, <1>7, <1>8, <2>1
  <1> DEFINE all == front \o B[n]
  <1>10. c = all
    BY DEF Assembly, front, moved, H, B
  <1> HIDE DEF front
  <1>11. /\ all \in Code /\ Len(all) = base + Len(B[n]) /\ Part(all, 0, front) /\ Part(all, base, B[n])
    BY <1>1, <1>3, <1>9, PartsOfConcat
  <1> HIDE DEF all
  <1>12. all[base] = Failure
    <2>1. Part(all, 0 + Len(moved), <<Failure>>)
      BY <1>7, <1>8, <1>9, <1>11, PartOfPart
    <2>2. (0 + Len(moved)) + 1 = base
      BY <1>1, <1>4, <1>5, <1>7
    <2>3. all[(0 + Len(moved)) + 1] = <<Failure>>[1]
      BY <1>8, <2>1 DEF Part
    <2> QED
      BY <1>8, <2>2, <2>3
  <1>13. ASSUME NEW k \in 1..n
         PROVE  /\ Part(all, Len(H[k - 1]), Move(h[k], base, -1))
                /\ Part(all, base + Len(B[k - 1]), b[k])
    <2>1. Part(moved, Len(H[k - 1]), Move(h[k], base, -1))
      BY <1>1, <1>2, <1>6, PartMoved DEF moved, CodePieces
    <2>2. Move(h[k], base, -1) \in Code
      BY <1>1, <1>6, MoveIs DEF CodePieces
    <2> DEFINE x == Len(H[k - 1])
               y == Len(B[k - 1])
               part == Move(h[k], base, -1)
    <2>3. Part(all, 0, moved)
      <3>1. Part(all, 0 + 0, moved)
        BY <1>7, <1>9, <1>11, PartOfPart
      <3> QED
        BY <3>1
    <2>4. x \in Nat /\ y \in Nat
      <3>1. k - 1 \in 0..n
        OBVIOUS
      <3> QED
        BY <1>4, <3>1
    <2>5. Part(moved, x, part) /\ part \in Code
      BY <2>1, <2>2
    <2>6. Part(B[n], y, b[k]) /\ b[k] \in Code /\ B[n] \in Code
      BY <1>1, <1>3 DEF CodePieces
    <2> HIDE DEF x, y, part
    <2>7. Part(all, 0 + x, part)
      BY <1>7, <1>11, <2>3, <2>5, PartOfPart
    <2>8. 0 + x = x
      BY <2>4
    <2>9. Part(all, x, part)
      BY <2>7, <2>8
    <2>10. Part(all, base + y, b[k])
      BY <1>11, <2>6, PartOfPart
    <2> QED
      BY <2>9, <2>10 DEF x, y, part
  <1> QED
    BY <1>2, <1>3, <1>4, <1>6, <1>10, <1>11, <1>12, <1>13 DEF Plain, H, B

\* Code c stands in sm at A, and goes on at X where it fails.
Stands(sm, A, X, c) == Part(sm, A, Marked(Move(c, A, X)))

\* What stands in code that stands in sm.
LEMMA StandsPart ==
    ASSUME NEW sm \in Code, NEW c \in Code, NEW A \in Nat, NEW X \in Addresses, Stands(sm, A, X, c),
           NEW p \in Code, NEW n \in Nat, NEW e \in Addresses, NEW q, Part(c, q, Move(p, n, e))
    PROVE  Part(sm, A + q, Marked(Move(p, n + A, Beyond(e, A, X))))
  <1> DEFINE one == Move(p, n, e)
             two == Move(one, A, X)
             moved == Move(c, A, X)
  <1>1. one \in Code /\ moved \in Code
    BY MoveIs
  <1> HIDE DEF one
  <1>2. two \in Code
    BY <1>1, MoveIs
  <1>3. Part(moved, q, two)
    <2>1. Part(c, q, one)
      BY DEF one
    <2> QED
      BY <1>1, <2>1, PartMoved
  <1>4. two = Move(p, n + A, Beyond(e, A, X))
    BY MoveTwice DEF one
  <1>5. Part(sm, A, Marked(moved))
    BY DEF Stands
  <1> HIDE DEF two, moved
  <1>6. Part(Marked(moved), q, Marked(two)) /\ Marked(moved) \in Code /\ Marked(two) \in Code
    BY <1>1, <1>2, <1>3, PartMarked, MarkedIs
  <1>7. Part(sm, A + q, Marked(two))
    BY <1>5, <1>6, PartOfPart
  <1> QED
    BY <1>4, <1>7

\* What an instruction becomes.
LEMMA PlacedJump ==
    ASSUME NEW bs, NEW n \in Nat, NEW e \in Addresses, NEW i \in Nat
    PROVE  Mark(Moved(Ins({"jumpOnMatch"}, bs, i), n, e)) = Ins({"jumpOnMatch"}, bs, i + n)
  <1>1. i # -1 /\ i + n # -1
    OBVIOUS
  <1> QED
    BY <1>1 DEF Mark, Moved, Ins, Jumps

\* Of the other instructions only those that fail depend on the place.
LEMMA PlacedIns ==
    ASSUME NEW bs, NEW n \in Nat, NEW e \in Addresses, NEW i \in Nat
    PROVE  /\ Mark(Moved(Ins({"setCursor"}, bs, i), n, e)) = Ins({"setCursor"}, bs, i)
           /\ Mark(Moved(Ins({"route"}, bs, i), n, e)) = Ins({"route"}, bs, i)
           /\ e # -1 => Mark(Moved(Ins({}, bs, -1), n, e)) = Ins({}, bs, e)
           /\ e # -1 => Mark(Moved(Failure, n, e)) = Ins({"jumpOnMatch"}, <<>>, e)
           /\ e = -1 => Mark(Moved(Failure, n, e)) = Ins({"jumpOnMatch", "fail"}, <<>>, -1)
  <1>1. i # -1 /\ i + n # -1
    OBVIOUS
  <1>2. /\ Mark(Moved(Ins({"setCursor"}, bs, i), n, e)) = Ins({"setCursor"}, bs, i)
        /\ Mark(Moved(Ins({"route"}, bs, i), n, e)) = Ins({"route"}, bs, i)
    BY <1>1 DEF Mark, Moved, Ins, Jumps
  <1>4. e # -1 => Mark(Moved(Ins({}, bs, -1), n, e)) = Ins({}, bs, e)
    BY DEF Mark, Moved, Ins, Jumps
  <1>5. e # -1 => Mark(Moved(Failure, n, e)) = Ins({"jumpOnMatch"}, <<>>, e)
    BY DEF Mark, Moved, Ins, Jumps, Failure
  <1>6. e = -1 => Mark(Moved(Failure, n, e)) = Ins({"jumpOnMatch", "fail"}, <<>>, -1)
    BY DEF Mark, Moved, Ins, Jumps, Failure
  <1> QED
    BY <1>2, <1>4, <1>5, <1>6

\* What stands in sm for a part.
LEMMA PlacedAt ==
    ASSUME NEW sm \in Code, NEW at \in Nat, NEW p \in Code, NEW n \in Nat, NEW e \in Addresses,
           Part(sm, at, Marked(Move(p, n, e)))
    PROVE  \A j \in 1..Len(p) : sm[at + j] = Mark(Moved(p[j], n, e))
  <1> DEFINE m == Move(p, n, e)
  <1>1. m \in Code /\ Len(m) = Len(p) /\ \A j \in 1..Len(p) : m[j] = Moved(p[j], n, e)
    BY MoveIs
  <1>2. Part(sm, at, Marked(m))
    OBVIOUS
  <1> HIDE DEF m
  <1>3. Len(Marked(m)) = Len(m) /\ \A j \in 1..Len(m) : Marked(m)[j] = Mark(m[j])
    BY <1>1, MarkedIs
  <1> QED
    BY <1>1, <1>2, <1>3 DEF Part

\* The pieces of the code of a node, one for each of its routes.
Size(v) == v.last - v.first + 1
Bodies(routes, v, sub) == [k \in 1..Size(v) |-> Body(routes, v, sub, v.first + k - 1)]
Place(routes, v, sub, k) == Len(Pieced(Bodies(routes, v, sub))[k - 1])
Heads(routes, v, sub) ==
    [k \in 1..Size(v) |-> SegmentHead(routes, v, Place(routes, v, sub, k), v.first + k - 1)]
HeadAt(routes, v, sub, k) == Len(Pieced(Heads(routes, v, sub))[k])
Base(routes, v, sub) == HeadAt(routes, v, sub, Size(v)) + 1
NextHead(routes, v, sub, k) ==
    HeadAt(routes, v, sub, NextIn(Own(routes, v), v.first + k - 1, v.last) - v.first)
MovedBodies(routes, v, sub) ==
    [k \in 1..Size(v) |-> Move(Bodies(routes, v, sub)[k], Base(routes, v, sub) + Place(routes, v, sub, k),
                               NextHead(routes, v, sub, k))]

\* The pieces that encode joins are code.
LEMMA PiecesAre ==
    ASSUME NEW routes, Prefixed(routes), NEW v \in Nodes(routes),
           NEW sub, \A i \in Forks(routes, v) : sub[i] \in Code
    PROVE  /\ Size(v) \in Nat /\ 1 <= Size(v)
           /\ \A k \in 1..Size(v) :
                  /\ v.first + k - 1 \in v.first..v.last
                  /\ Bodies(routes, v, sub)[k] = Body(routes, v, sub, v.first + k - 1)
                  /\ Bodies(routes, v, sub)[k] \in Code
                  /\ Place(routes, v, sub, k) \in Nat
                  /\ Heads(routes, v, sub)[k] = SegmentHead(routes, v, Place(routes, v, sub, k), v.first + k - 1)
                  /\ Heads(routes, v, sub)[k] \in Code
                  /\ NextHead(routes, v, sub, k) \in Nat
                  /\ MovedBodies(routes, v, sub)[k] =
                         Move(Bodies(routes, v, sub)[k], Base(routes, v, sub) + Place(routes, v, sub, k),
                              NextHead(routes, v, sub, k))
                  /\ MovedBodies(routes, v, sub)[k] \in Code
                  /\ Len(MovedBodies(routes, v, sub)[k]) = Len(Bodies(routes, v, sub)[k])
           /\ Base(routes, v, sub) \in Nat
           /\ \A k \in 0..Size(v) : HeadAt(routes, v, sub, k) \in Nat
  <1> DEFINE n == Size(v)
             b == Bodies(routes, v, sub)
             h == Heads(routes, v, sub)
             m == MovedBodies(routes, v, sub)
             at(k) == Place(routes, v, sub, k)
             ha(k) == HeadAt(routes, v, sub, k)
             nh(k) == NextHead(routes, v, sub, k)
             base == Base(routes, v, sub)
  <1>1. v.first \in Nat /\ v.last \in Nat /\ v.first <= v.last
    BY NodeIs
  <1>2. n \in Nat /\ 1 <= n /\ \A k \in 1..n : v.first + k - 1 \in v.first..v.last
    BY <1>1 DEF Size
  <1>3. \A k \in 1..n : b[k] = Body(routes, v, sub, v.first + k - 1)
    BY DEF Bodies
  <1>4. b = [k \in 1..n |-> b[k]] /\ h = [k \in 1..n |-> h[k]]
    BY DEF Bodies, Heads
  <1> HIDE DEF n, b, h
  <1>5. \A k \in 1..n : b[k] \in Code
    BY <1>2, <1>3, BodyIs
  <1>6. \A k \in 0..n : Pieced(b)[k] \in Code
    <2>1. CodePieces(n, b)
      BY <1>4, <1>5 DEF CodePieces
    <2> QED
      BY <1>2, <2>1, JoinedIs
  <1>7. \A k \in 1..n : at(k) \in Nat
    <2>1. \A k \in 1..n : k - 1 \in 0..n
      BY <1>2
    <2>2. \A k \in 1..n : at(k) = Len(Pieced(b)[k - 1])
      BY DEF Place, b
    <2>3. \A k \in 1..n : Pieced(b)[k - 1] \in Code
      BY <1>6, <2>1
    <2>4. \A c \in Code : Len(c) \in Nat
      BY DEF Code
    <2> HIDE DEF at
    <2> QED
      BY <2>2, <2>3, <2>4
  <1>8. \A k \in 1..n : h[k] = SegmentHead(routes, v, at(k), v.first + k - 1)
    BY DEF Heads, h, n
  <1> HIDE DEF at
  <1>9. \A k \in 1..n : h[k] \in Code
    <2> SUFFICES ASSUME NEW k \in 1..n PROVE h[k] \in Code
      OBVIOUS
    <2> DEFINE i == v.first + k - 1
    <2>1. i \in v.first..v.last /\ at(k) \in Nat /\ h[k] = SegmentHead(routes, v, at(k), i)
      BY <1>2, <1>7, <1>8
    <2> HIDE DEF i
    <2>2. SegmentHead(routes, v, at(k), i) \in Code
      BY <2>1, HeadIs
    <2> QED
      BY <2>1, <2>2
  <1>10. \A k \in 0..n : Pieced(h)[k] \in Code
    <2>1. CodePieces(n, h)
      BY <1>4, <1>9 DEF CodePieces
    <2> QED
      BY <1>2, <2>1, JoinedIs
  <1>11. \A k \in 0..n : ha(k) \in Nat
    <2>1. \A k \in 0..n : ha(k) = Len(Pieced(h)[k])
      BY DEF HeadAt, h
    <2>2. \A c \in Code : Len(c) \in Nat
      BY DEF Code
    <2> HIDE DEF ha
    <2> QED
      BY <1>10, <2>1, <2>2
  <1>12. base \in Nat
    <2>1. base = ha(n) + 1
      BY DEF Base, n
    <2>2. n \in 0..n
      BY <1>2
    <2> HIDE DEF ha, base
    <2> QED
      BY <1>11, <2>1, <2>2
  <1>13. \A k \in 1..n : nh(k) \in Nat
    <2> SUFFICES ASSUME NEW k \in 1..n PROVE nh(k) \in Nat
      OBVIOUS
    <2> DEFINE i == v.first + k - 1
               S == Own(routes, v)
               j == NextIn(S, i, v.last)
    <2>1. i \in Nat /\ i <= v.last /\ v.first <= i
      BY <1>1, <1>2
    <2> HIDE DEF i, S
    <2>2. j \in Nat /\ i < j /\ j <= v.last + 1
      BY <1>1, <2>1, NextInIs
    <2>3. nh(k) = ha(j - v.first)
      BY DEF NextHead, i, S
    <2> HIDE DEF j, ha, nh
    <2>4. j - v.first \in 0..n
      BY <1>1, <2>1, <2>2 DEF n, Size
    <2> QED
      BY <1>11, <2>3, <2>4
  <1>14. \A k \in 1..n : m[k] = Move(b[k], base + at(k), nh(k))
    BY DEF MovedBodies, b, n, at
  <1> HIDE DEF nh, base, m, ha
  <1>15. \A k \in 1..n : m[k] \in Code /\ Len(m[k]) = Len(b[k])
    <2> SUFFICES ASSUME NEW k \in 1..n PROVE m[k] \in Code /\ Len(m[k]) = Len(b[k])
      OBVIOUS
    <2> DEFINE x == base + at(k)
               y == nh(k)
    <2>1. x \in Nat /\ y \in Addresses /\ b[k] \in Code /\ m[k] = Move(b[k], x, y)
      BY <1>5, <1>7, <1>12, <1>13, <1>14 DEF Addresses
    <2> HIDE DEF x, y
    <2> QED
      BY <2>1, MoveIs
  <1> QED
    BY <1>2, <1>3, <1>5, <1>7, <1>8, <1>9, <1>11, <1>12, <1>13, <1>14, <1>15 DEF n, b, h, m, at, nh, base, ha

\* The code of a node is code, in which the pieces stand.
LEMMA EncodeIs ==
    ASSUME NEW routes, Prefixed(routes), NEW v \in Nodes(routes),
           NEW sub, \A i \in Forks(routes, v) : sub[i] \in Code, NEW c, c = encode(routes, v, sub)
    PROVE  /\ c \in Code
           /\ c[Base(routes, v, sub)] = Failure
           /\ Len(c) = Base(routes, v, sub) + Place(routes, v, sub, Size(v) + 1)
           /\ HeadAt(routes, v, sub, 0) = 0 /\ Place(routes, v, sub, 1) = 0
           /\ Place(routes, v, sub, Size(v) + 1) \in Nat
           /\ \A k \in 1..Size(v) :
                  /\ HeadAt(routes, v, sub, k) = HeadAt(routes, v, sub, k - 1) + Len(Heads(routes, v, sub)[k])
                  /\ Place(routes, v, sub, k + 1) = Place(routes, v, sub, k) + Len(Bodies(routes, v, sub)[k])
                  /\ Part(c, HeadAt(routes, v, sub, k - 1), Move(Heads(routes, v, sub)[k], Base(routes, v, sub), -1))
                  /\ Part(c, Base(routes, v, sub) + Place(routes, v, sub, k), MovedBodies(routes, v, sub)[k])
  <1> DEFINE n == Size(v)
             b == Bodies(routes, v, sub)
             h == Heads(routes, v, sub)
             m == MovedBodies(routes, v, sub)
             at(k) == Place(routes, v, sub, k)
             ha(k) == HeadAt(routes, v, sub, k)
             base == Base(routes, v, sub)
  <1>1. /\ n \in Nat /\ 1 <= n
        /\ \A k \in 1..n : b[k] \in Code /\ h[k] \in Code /\ m[k] \in Code /\ Len(m[k]) = Len(b[k])
    BY PiecesAre
  <1>2. CodePieces(n, b) /\ CodePieces(n, h) /\ CodePieces(n, m)
    <2>1. b = [k \in 1..n |-> b[k]] /\ h = [k \in 1..n |-> h[k]] /\ m = [k \in 1..n |-> m[k]]
      BY DEF Bodies, Heads, MovedBodies
    <2> HIDE DEF n, b, h, m
    <2> QED
      BY <1>1, <2>1 DEF CodePieces
  <1>3. base = Len(Pieced(h)[n]) + 1
    BY DEF Base, HeadAt
  <1>4. c = Move(Pieced(h)[n], base, -1) \o <<Failure>> \o Pieced(m)[n]
    BY DEF encode, Bodies, Heads, MovedBodies, Place, NextHead, HeadAt, Base, Size, Failure
  <1> HIDE DEF n, b, h, m, base
  <1>5. /\ base \in Nat /\ c \in Code /\ c[base] = Failure
        /\ Len(c) = base + Len(Pieced(m)[n])
        /\ \A k \in 0..n : Len(Pieced(h)[k]) \in Nat /\ Len(Pieced(m)[k]) \in Nat
        /\ \A k \in 1..n :
               /\ Len(Pieced(h)[k]) = Len(Pieced(h)[k - 1]) + Len(h[k])
               /\ Len(Pieced(m)[k]) = Len(Pieced(m)[k - 1]) + Len(m[k])
               /\ Part(c, Len(Pieced(h)[k - 1]), Move(h[k], base, -1))
               /\ Part(c, base + Len(Pieced(m)[k - 1]), m[k])
    <2>1. Assembly(c, n, h, m, base)
      BY <1>3, <1>4 DEF Assembly
    <2>2. n \in Nat
      BY <1>1
    <2>3. Plain(c, n, h, m, base)
      BY <1>2, <2>1, <2>2, Assembled
    <2> QED
      BY <2>3 DEF Plain
  <1>6. \A k \in 0..n : Len(Pieced(m)[k]) = Len(Pieced(b)[k])
    BY <1>1, <1>2, SameLengths
  <1>7. \A k \in 0..n : ha(k) = Len(Pieced(h)[k])
    BY DEF HeadAt, h
  <1>8. \A k \in 0..n : at(k + 1) = Len(Pieced(m)[k])
    <2>1. \A k \in 0..n : (k + 1) - 1 = k
      BY <1>1
    <2>2. \A k \in 0..n : at(k + 1) = Len(Pieced(b)[(k + 1) - 1])
      BY DEF Place, b
    <2> QED
      BY <1>6, <2>1, <2>2
  <1>9. ha(0) = 0 /\ at(1) = 0
    <2>1. Pieced(h)[0] = <<>> /\ Pieced(m)[0] = <<>>
      BY <1>1, <1>2, JoinedIs
    <2>2. 0 \in 0..n /\ 0 + 1 = 1
      BY <1>1
    <2>3. at(0 + 1) = Len(Pieced(m)[0]) /\ ha(0) = Len(Pieced(h)[0])
      BY <1>7, <1>8, <2>2
    <2> HIDE DEF at, ha
    <2> QED
      BY <2>1, <2>2, <2>3
  <1> HIDE DEF at, ha
  <1>10. ASSUME NEW k \in 1..n
         PROVE  /\ ha(k) = ha(k - 1) + Len(h[k])
                /\ at(k + 1) = at(k) + Len(b[k])
                /\ Part(c, ha(k - 1), Move(h[k], base, -1))
                /\ Part(c, base + at(k), m[k])
    <2>1. k \in 0..n /\ k - 1 \in 0..n /\ (k - 1) + 1 = k
      BY <1>1
    <2>2. ha(k) = Len(Pieced(h)[k]) /\ ha(k - 1) = Len(Pieced(h)[k - 1])
          /\ at(k + 1) = Len(Pieced(m)[k]) /\ at(k) = Len(Pieced(m)[k - 1])
      <3>1. at((k - 1) + 1) = Len(Pieced(m)[k - 1])
        BY <1>8, <2>1
      <3> QED
        BY <1>7, <1>8, <2>1, <3>1
    <2> QED
      BY <1>1, <1>5, <2>2
  <1>11. at(n + 1) = Len(Pieced(m)[n]) /\ at(n + 1) \in Nat
    <2>1. n \in 0..n
      BY <1>1
    <2> QED
      BY <1>5, <1>8, <2>1
  <1> QED
    BY <1>5, <1>9, <1>10, <1>11 DEF n, b, h, m, base, at, ha

-----------------------------------------------------------------------------
(* The code of a node in a machine: what the route i gives stands in the heads   *)
(* from H[i] and in the bodies from B[i].                                      *)

OwnLaid(sm, v, H, B, i) ==
    /\ H[i + 1] = H[i] + 2 /\ B[i + 1] = B[i]
    /\ sm[H[i] + 1] = Ins({"setCursor"}, <<>>, v.dp)
    /\ sm[H[i] + 2] = Ins({"route"}, <<>>, i)

ForkLaid(sm, routes, v, sub, H, B, i) ==
    LET chunks == ChildChunks(routes, v, i)
        n == Len(chunks) - 1
        next == H[NextIn(Own(routes, v), i, v.last)]
        first == IF i = v.first THEN 1 ELSE 0
    IN  /\ H[i + 1] = H[i] + first + 1 /\ B[i + 1] = B[i] + n + Len(sub[i])
        /\ i = v.first => sm[H[i] + 1] = Ins({"setCursor"}, <<>>, v.dp)
        /\ sm[H[i] + first + 1] = Ins({"jumpOnMatch"}, chunks[1], B[i])
        /\ \A k \in 1..n : sm[B[i] + k] = Ins({}, chunks[k + 1], next)
        /\ Stands(sm, B[i] + n, next, sub[i])

Laid(sm, routes, v, sub, A, X, H, B) ==
    LET end == v.last + 1
    IN  /\ \A i \in v.first..end : H[i] \in Nat /\ B[i] \in Nat
        /\ H[v.first] = A /\ B[v.first] = H[end] + 1 /\ B[end] = A + Len(encode(routes, v, sub))
        /\ sm[H[end] + 1] = IF X = -1 THEN Ins({"jumpOnMatch", "fail"}, <<>>, -1)
                            ELSE Ins({"jumpOnMatch"}, <<>>, X)
        /\ \A i \in v.first..v.last :
               /\ i \in Own(routes, v) => OwnLaid(sm, v, H, B, i)
               /\ i \in Forks(routes, v) => ForkLaid(sm, routes, v, sub, H, B, i)
               /\ i \notin Own(routes, v) /\ i \notin Forks(routes, v) => H[i + 1] = H[i] /\ B[i + 1] = B[i]

\* Where a child is reached from.
LEMMA ForkIsLaid ==
    ASSUME NEW routes, Prefixed(routes), NEW v \in Nodes(routes),
           NEW sub, \A i \in Forks(routes, v) : sub[i] \in Code,
           NEW sm \in Code, NEW i \in Forks(routes, v), NEW b \in Nat, NEW X \in Nat,
           Part(sm, b, Marked(Move(Body(routes, v, sub, i), b, X)))
    PROVE  LET chunks == ChildChunks(routes, v, i)
               n == Len(chunks) - 1
           IN  /\ \A k \in 1..n : sm[b + k] = Ins({}, chunks[k + 1], X)
               /\ Stands(sm, b + n, X, sub[i])
  <1> DEFINE chunks == ChildChunks(routes, v, i)
             n == Len(chunks) - 1
             body == Body(routes, v, sub, i)
             s == sub[i]
  <1>1. /\ body \in Code /\ Len(body) = n + Len(s) /\ s \in Code
        /\ \A k \in 1..n : body[k] = Ins({}, chunks[k + 1], -1)
        /\ Part(body, n, Move(s, n, -1))
    <2>1. i \in v.first..v.last
      BY InNode
    <2> QED
      BY <2>1, BodyIs
  <1>2. n \in Nat
    <2>1. Len(chunks) \in Nat /\ 1 <= Len(chunks)
      BY ChildChunksAre DEF Cut
    <2> HIDE DEF chunks
    <2> QED
      BY <2>1
  <1>3. X \in Addresses /\ X # -1 /\ -1 \in Addresses /\ Beyond(-1, b, X) = X
    BY DEF Addresses, Beyond
  <1>4. Stands(sm, b, X, body)
    BY DEF Stands
  <1> HIDE DEF body, n, s, chunks
  <1>5. ASSUME NEW k \in 1..n PROVE sm[b + k] = Ins({}, chunks[k + 1], X)
    <2>1. k \in 1..Len(body)
      <3>1. Len(s) \in Nat
        BY <1>1 DEF Code
      <3> QED
        BY <1>1, <1>2, <3>1
    <2>2. sm[b + k] = Mark(Moved(body[k], b, X))
      <3>1. Part(sm, b, Marked(Move(body, b, X)))
        BY <1>4 DEF Stands
      <3> QED
        BY <1>1, <1>3, <2>1, <3>1, PlacedAt
    <2>3. Mark(Moved(Ins({}, chunks[k + 1], -1), b, X)) = Ins({}, chunks[k + 1], X)
      BY <1>3, PlacedIns
    <2> QED
      BY <1>1, <2>2, <2>3
  <1>6. Part(sm, b + n, Marked(Move(s, n + b, Beyond(-1, b, X))))
    BY <1>1, <1>2, <1>3, <1>4, StandsPart
  <1>7. Stands(sm, b + n, X, s)
    <2>1. n + b = b + n
      BY <1>2
    <2> QED
      BY <1>3, <1>6, <2>1 DEF Stands
  <1> QED
    BY <1>5, <1>7 DEF n, s, chunks

\* What a route gives to the heads.
LEMMA HeadIsLaid ==
    ASSUME NEW routes, Prefixed(routes), NEW v \in Nodes(routes), NEW i \in v.first..v.last,
           NEW sm \in Code, NEW h \in Nat, NEW to \in Nat, NEW n \in Nat, NEW e \in Addresses,
           Part(sm, h, Marked(Move(SegmentHead(routes, v, to, i), n, e)))
    PROVE  /\ i \in Own(routes, v) => /\ sm[h + 1] = Ins({"setCursor"}, <<>>, v.dp)
                                      /\ sm[h + 2] = Ins({"route"}, <<>>, i)
           /\ i \in Forks(routes, v) /\ i = v.first =>
                  /\ sm[h + 1] = Ins({"setCursor"}, <<>>, v.dp)
                  /\ sm[h + 2] = Ins({"jumpOnMatch"}, ChildChunks(routes, v, i)[1], to + n)
           /\ i \in Forks(routes, v) /\ i # v.first =>
                  sm[h + 1] = Ins({"jumpOnMatch"}, ChildChunks(routes, v, i)[1], to + n)
  <1> DEFINE head == SegmentHead(routes, v, to, i)
             chunk == ChildChunks(routes, v, i)[1]
  <1>1. /\ head \in Code
        /\ i \in Own(routes, v) =>
               Len(head) = 2 /\ head[1] = Ins({"setCursor"}, <<>>, v.dp) /\ head[2] = Ins({"route"}, <<>>, i)
        /\ i \in Forks(routes, v) /\ i = v.first =>
               Len(head) = 2 /\ head[1] = Ins({"setCursor"}, <<>>, v.dp) /\ head[2] = Ins({"jumpOnMatch"}, chunk, to)
        /\ i \in Forks(routes, v) /\ i # v.first => Len(head) = 1 /\ head[1] = Ins({"jumpOnMatch"}, chunk, to)
    BY HeadIs
  <1> HIDE DEF head, chunk
  <1>2. \A j \in 1..Len(head) : sm[h + j] = Mark(Moved(head[j], n, e))
    <2>1. Part(sm, h, Marked(Move(head, n, e)))
      BY DEF head
    <2> QED
      BY <1>1, <2>1, PlacedAt
  <1>3. v.dp \in Nat /\ i \in Nat
    BY NodeIs
  <1>4. /\ Mark(Moved(Ins({"setCursor"}, <<>>, v.dp), n, e)) = Ins({"setCursor"}, <<>>, v.dp)
        /\ Mark(Moved(Ins({"route"}, <<>>, i), n, e)) = Ins({"route"}, <<>>, i)
        /\ Mark(Moved(Ins({"jumpOnMatch"}, chunk, to), n, e)) = Ins({"jumpOnMatch"}, chunk, to + n)
    <2>1. Mark(Moved(Ins({"setCursor"}, <<>>, v.dp), n, e)) = Ins({"setCursor"}, <<>>, v.dp)
      BY <1>3, PlacedIns
    <2>2. Mark(Moved(Ins({"route"}, <<>>, i), n, e)) = Ins({"route"}, <<>>, i)
      BY <1>3, PlacedIns
    <2>3. Mark(Moved(Ins({"jumpOnMatch"}, chunk, to), n, e)) = Ins({"jumpOnMatch"}, chunk, to + n)
      BY PlacedJump
    <2> QED
      BY <2>1, <2>2, <2>3
  <1>5. Len(head) = 2 => sm[h + 1] = Mark(Moved(head[1], n, e)) /\ sm[h + 2] = Mark(Moved(head[2], n, e))
    BY <1>2
  <1>6. Len(head) = 1 => sm[h + 1] = Mark(Moved(head[1], n, e))
    BY <1>2
  <1>7. CASE i = v.first
    BY <1>1, <1>4, <1>5, <1>7 DEF chunk
  <1>8. CASE i # v.first
    BY <1>1, <1>4, <1>5, <1>6, <1>8 DEF chunk
  <1> QED
    BY <1>7, <1>8

\* Where the code of a node has what.
LEMMA NodeIsLaid ==
    ASSUME NEW routes, Prefixed(routes), NEW v \in Nodes(routes),
           NEW sub, \A i \in Forks(routes, v) : sub[i] \in Code,
           NEW sm \in Code, NEW A \in Nat, NEW X \in Addresses, Stands(sm, A, X, encode(routes, v, sub))
    PROVE  \E H, B : Laid(sm, routes, v, sub, A, X, H, B)
  <1> DEFINE n == Size(v)
             b == Bodies(routes, v, sub)
             h == Heads(routes, v, sub)
             m == MovedBodies(routes, v, sub)
             at(k) == Place(routes, v, sub, k)
             ha(k) == HeadAt(routes, v, sub, k)
             nh(k) == NextHead(routes, v, sub, k)
             base == Base(routes, v, sub)
             c == encode(routes, v, sub)
             H == [i \in v.first..v.last + 1 |-> A + ha(i - v.first)]
             B == [i \in v.first..v.last + 1 |-> A + base + at(i - v.first + 1)]
             end == v.last + 1
  <1>1. /\ v.first \in Nat /\ v.last \in Nat /\ v.first <= v.last /\ n \in Nat /\ n = v.last - v.first + 1
        /\ \A i \in v.first..v.last : i \in Nat
    BY NodeIs DEF Size
  <1>2. /\ \A k \in 1..n :
               /\ v.first + k - 1 \in v.first..v.last
               /\ b[k] = Body(routes, v, sub, v.first + k - 1) /\ b[k] \in Code
               /\ at(k) \in Nat /\ nh(k) \in Nat
               /\ h[k] = SegmentHead(routes, v, at(k), v.first + k - 1) /\ h[k] \in Code
               /\ m[k] = Move(b[k], base + at(k), nh(k))
        /\ base \in Nat
        /\ \A k \in 0..n : ha(k) \in Nat
    BY PiecesAre
  <1>3. /\ c \in Code /\ c[base] = Failure /\ Len(c) = base + at(n + 1)
        /\ ha(0) = 0 /\ at(1) = 0 /\ at(n + 1) \in Nat
        /\ \A k \in 1..n :
               /\ ha(k) = ha(k - 1) + Len(h[k])
               /\ at(k + 1) = at(k) + Len(b[k])
               /\ Part(c, ha(k - 1), Move(h[k], base, -1))
               /\ Part(c, base + at(k), m[k])
    BY EncodeIs
  <1>4. base = ha(n) + 1
    BY DEF Base
  <1>5. Stands(sm, A, X, c)
    OBVIOUS
  <1>6. \A k \in 1..n : nh(k) = ha(NextIn(Own(routes, v), v.first + k - 1, v.last) - v.first)
    BY DEF NextHead
  <1> HIDE DEF n, b, h, m, at, ha, nh, base, c
  <1>7. \A i \in v.first..end : H[i] = A + ha(i - v.first) /\ B[i] = A + base + at(i - v.first + 1)
    OBVIOUS
  <1> HIDE DEF H, B
  <1>8. \A i \in v.first..end : H[i] \in Nat /\ B[i] \in Nat
    <2> SUFFICES ASSUME NEW i \in v.first..end PROVE H[i] \in Nat /\ B[i] \in Nat
      OBVIOUS
    <2>1. i - v.first \in 0..n /\ (i - v.first + 1 \in 1..n \/ i - v.first + 1 = n + 1)
      BY <1>1
    <2>2. ha(i - v.first) \in Nat /\ at(i - v.first + 1) \in Nat
      BY <1>2, <1>3, <2>1
    <2> QED
      BY <1>2, <1>7, <2>2
  <1>9. H[v.first] = A /\ B[v.first] = H[end] + 1 /\ B[end] = A + Len(c) /\ H[end] + 1 = A + base
    <2>1. v.first \in v.first..end /\ end \in v.first..end /\ v.first - v.first = 0 /\ 0 + 1 = 1
          /\ end - v.first = n /\ end - v.first + 1 = n + 1 /\ v.first - v.first + 1 = 1
      BY <1>1
    <2>2. H[v.first] = A + ha(0) /\ H[end] = A + ha(n)
      BY <1>7, <2>1
    <2>3. B[v.first] = A + base + at(1) /\ B[end] = A + base + at(n + 1)
      BY <1>7, <2>1
    <2>4. ha(n) \in Nat
      <3>1. n \in 0..n
        BY <1>1
      <3> QED
        BY <1>2, <3>1
    <2> QED
      BY <1>2, <1>3, <1>4, <2>2, <2>3, <2>4
  <1>10. sm[H[end] + 1] = IF X = -1 THEN Ins({"jumpOnMatch", "fail"}, <<>>, -1) ELSE Ins({"jumpOnMatch"}, <<>>, X)
    <2>1. base \in 1..Len(c)
      <3>1. ha(n) \in Nat
        <4>1. n \in 0..n
          BY <1>1
        <4> QED
          BY <1>2, <4>1
      <3> QED
        BY <1>2, <1>3, <1>4, <3>1
    <2>2. Part(sm, A, Marked(Move(c, A, X)))
      BY <1>5 DEF Stands
    <2>3. sm[A + base] = Mark(Moved(c[base], A, X))
      BY <1>3, <2>1, <2>2, PlacedAt
    <2>4. /\ X # -1 => Mark(Moved(Failure, A, X)) = Ins({"jumpOnMatch"}, <<>>, X)
          /\ X = -1 => Mark(Moved(Failure, A, X)) = Ins({"jumpOnMatch", "fail"}, <<>>, -1)
      BY PlacedIns
    <2> QED
      BY <1>3, <1>9, <2>3, <2>4
  <1>11. ASSUME NEW i \in v.first..v.last
         PROVE  /\ i \in Own(routes, v) => OwnLaid(sm, v, H, B, i)
                /\ i \in Forks(routes, v) => ForkLaid(sm, routes, v, sub, H, B, i)
                /\ i \notin Own(routes, v) /\ i \notin Forks(routes, v) => H[i + 1] = H[i] /\ B[i + 1] = B[i]
    <2> DEFINE k == i - v.first + 1
               next == NextIn(Own(routes, v), i, v.last)
               to == at(k)
               exit == Beyond(-1, A, X)
    <2>1. /\ i \in Nat /\ k \in 1..n /\ k - 1 = i - v.first /\ v.first + k - 1 = i /\ (i + 1) - v.first = k
          /\ (i + 1) - v.first + 1 = k + 1 /\ i \in v.first..end /\ i + 1 \in v.first..end /\ k \in 0..n /\ k - 1 \in 0..n
      BY <1>1
    <2>2. H[i] = A + ha(k - 1) /\ B[i] = A + base + to
      BY <1>7, <2>1
    <2>3. H[i + 1] = A + ha(k) /\ B[i + 1] = A + base + at(k + 1)
      <3>1. H[i + 1] = A + ha((i + 1) - v.first) /\ B[i + 1] = A + base + at((i + 1) - v.first + 1)
        BY <1>7, <2>1
      <3> QED
        BY <2>1, <3>1
    <2>4. /\ b[k] = Body(routes, v, sub, i) /\ b[k] \in Code /\ to \in Nat /\ nh(k) \in Nat
          /\ h[k] = SegmentHead(routes, v, to, i) /\ h[k] \in Code /\ m[k] = Move(b[k], base + to, nh(k))
          /\ ha(k) = ha(k - 1) + Len(h[k]) /\ at(k + 1) = to + Len(b[k])
          /\ Part(c, ha(k - 1), Move(h[k], base, -1)) /\ Part(c, base + to, m[k])
          /\ ha(k - 1) \in Nat
      BY <1>2, <1>3, <2>1
    <2>5. nh(k) = ha(next - v.first)
      BY <1>6, <2>1
    <2>6. next \in v.first..end
      <3> DEFINE S == Own(routes, v)
                 j == NextIn(S, i, v.last)
      <3> HIDE DEF S
      <3>1. i <= v.last
        BY <1>1, <2>1
      <3>2. j \in Nat /\ i < j /\ j <= v.last + 1
        BY <1>1, <2>1, <3>1, NextInIs
      <3> HIDE DEF j
      <3>3. j \in v.first..end
        BY <1>1, <2>1, <3>2
      <3> QED
        BY <3>3 DEF j, S
    <2> HIDE DEF k, next, to, exit
    <2>7. H[next] = A + nh(k)
      BY <1>7, <2>5, <2>6
    <2>8. H[i + 1] = H[i] + Len(h[k]) /\ B[i + 1] = B[i] + Len(b[k])
      <3>1. Len(h[k]) \in Nat /\ Len(b[k]) \in Nat
        BY <2>4 DEF Code
      <3> QED
        BY <1>2, <2>2, <2>3, <2>4, <3>1
    <2>9. Part(sm, H[i], Marked(Move(h[k], base + A, exit)))
      <3>1. -1 \in Addresses
        BY DEF Addresses
      <3>2. Part(sm, A + ha(k - 1), Marked(Move(h[k], base + A, exit)))
        BY <1>2, <1>3, <1>5, <2>4, <3>1, StandsPart DEF exit
      <3> QED
        BY <2>2, <3>2
    <2>10. Part(sm, B[i], Marked(Move(b[k], B[i], H[next])))
      <3> DEFINE q == base + to
                 e == nh(k)
      <3>1. q \in Nat /\ e \in Addresses /\ e # -1 /\ Part(c, q, Move(b[k], q, e))
        BY <1>2, <2>4 DEF Addresses
      <3> HIDE DEF q, e
      <3>2. Part(sm, A + q, Marked(Move(b[k], q + A, Beyond(e, A, X))))
        BY <1>3, <1>5, <2>4, <3>1, StandsPart
      <3>3. Beyond(e, A, X) = H[next]
        <4>1. e \in Nat
          BY <2>4 DEF e
        <4> QED
          BY <2>7, <3>1, <4>1 DEF Beyond, e
      <3>4. A + q = B[i] /\ q + A = B[i]
        BY <1>2, <2>2, <2>4 DEF q
      <3> QED
        BY <3>2, <3>3, <3>4
    <2>11. exit \in Addresses /\ base + A \in Nat /\ to + (base + A) = B[i] /\ H[i] \in Nat /\ B[i] \in Nat
           /\ H[next] \in Nat
      <3>1. exit \in Addresses
        BY DEF exit, Beyond, Addresses
      <3>2. H[i] \in Nat /\ B[i] \in Nat /\ H[next] \in Nat
        BY <1>8, <2>1, <2>6
      <3>3. base + A \in Nat /\ to + (base + A) = B[i]
        BY <1>2, <2>2, <2>4
      <3> QED
        BY <3>1, <3>2, <3>3
    <2>12. CASE i \in Own(routes, v)
      <3>1. i \notin Forks(routes, v)
        BY <2>12 DEF Forks
      <3>2. Len(h[k]) = 2 /\ Len(b[k]) = 0
        <4>1. Len(SegmentHead(routes, v, to, i)) = 2
          BY <2>4, <2>12, HeadIs
        <4>2. Body(routes, v, sub, i) = <<>>
          BY <3>1, BodyIs
        <4> QED
          BY <2>4, <4>1, <4>2
      <3>3. sm[H[i] + 1] = Ins({"setCursor"}, <<>>, v.dp) /\ sm[H[i] + 2] = Ins({"route"}, <<>>, i)
        <4> DEFINE at0 == H[i]
                   moved == base + A
        <4>1. Part(sm, at0, Marked(Move(SegmentHead(routes, v, to, i), moved, exit))) /\ at0 \in Nat /\ moved \in Nat
          BY <2>4, <2>9, <2>11
        <4>2. to \in Nat /\ exit \in Addresses
          BY <2>4, <2>11
        <4> HIDE DEF at0, moved
        <4>3. sm[at0 + 1] = Ins({"setCursor"}, <<>>, v.dp) /\ sm[at0 + 2] = Ins({"route"}, <<>>, i)
          BY <2>12, <4>1, <4>2, HeadIsLaid
        <4> QED
          BY <4>3 DEF at0, moved
      <3> QED
        BY <2>8, <2>11, <2>12, <3>1, <3>2, <3>3 DEF OwnLaid
    <2>13. CASE i \in Forks(routes, v)
      <3> DEFINE chunks == ChildChunks(routes, v, i)
                 r == Len(chunks) - 1
                 f == IF i = v.first THEN 1 ELSE 0
      <3>1. i \notin Own(routes, v)
        BY <2>13 DEF Forks
      <3>2. Len(h[k]) = f + 1 /\ Len(b[k]) = r + Len(sub[i])
        <4>1. Len(SegmentHead(routes, v, to, i)) = f + 1
          BY <2>4, <2>13, HeadIs
        <4>2. Len(Body(routes, v, sub, i)) = r + Len(sub[i])
          BY <2>13, BodyIs
        <4> QED
          BY <2>4, <4>1, <4>2
      <3>3. /\ i = v.first => sm[H[i] + 1] = Ins({"setCursor"}, <<>>, v.dp)
            /\ sm[H[i] + f + 1] = Ins({"jumpOnMatch"}, chunks[1], to + (base + A))
        <4> DEFINE at0 == H[i]
                   moved == base + A
        <4>1. Part(sm, at0, Marked(Move(SegmentHead(routes, v, to, i), moved, exit))) /\ at0 \in Nat /\ moved \in Nat
          BY <2>4, <2>9, <2>11
        <4>2. to \in Nat /\ exit \in Addresses
          BY <2>4, <2>11
        <4> HIDE DEF at0, moved
        <4>3. /\ i = v.first => /\ sm[at0 + 1] = Ins({"setCursor"}, <<>>, v.dp)
                                /\ sm[at0 + 2] = Ins({"jumpOnMatch"}, chunks[1], to + moved)
              /\ i # v.first => sm[at0 + 1] = Ins({"jumpOnMatch"}, chunks[1], to + moved)
          BY <2>13, <4>1, <4>2, HeadIsLaid
        <4>4. at0 + 1 + 1 = at0 + 2 /\ at0 + 0 + 1 = at0 + 1
          BY <4>1
        <4>5. /\ i = v.first => sm[at0 + 1] = Ins({"setCursor"}, <<>>, v.dp)
              /\ sm[at0 + f + 1] = Ins({"jumpOnMatch"}, chunks[1], to + moved)
          BY <4>3, <4>4
        <4> QED
          BY <4>5 DEF at0, moved
      <3>4. /\ \A x \in 1..r : sm[B[i] + x] = Ins({}, chunks[x + 1], H[next])
            /\ Stands(sm, B[i] + r, H[next], sub[i])
        <4>1. Part(sm, B[i], Marked(Move(Body(routes, v, sub, i), B[i], H[next])))
          BY <2>4, <2>10
        <4> QED
          BY <2>11, <2>13, <4>1, ForkIsLaid
      <3>5. r \in Nat /\ Len(sub[i]) \in Nat /\ f \in Nat
        <4>1. Len(chunks) \in Nat /\ 1 <= Len(chunks)
          BY <2>13, ChildChunksAre DEF Cut
        <4>2. sub[i] \in Code
          BY <2>13
        <4> HIDE DEF chunks
        <4> QED
          BY <4>1, <4>2 DEF Code
      <3> HIDE DEF r, f, chunks
      <3>6. H[i + 1] = H[i] + f + 1 /\ B[i + 1] = B[i] + r + Len(sub[i])
        <4>1. /\ H[i + 1] = H[i] + Len(h[k]) /\ B[i + 1] = B[i] + Len(b[k])
              /\ H[i] \in Nat /\ B[i] \in Nat
          BY <2>8, <2>11
        <4> DEFINE from == H[i]
                   start == B[i]
                   rest == Len(sub[i])
        <4>2. from \in Nat /\ start \in Nat /\ rest \in Nat
          BY <3>5, <4>1
        <4>3. H[i + 1] = from + (f + 1) /\ B[i + 1] = start + (r + rest)
          BY <3>2, <4>1
        <4> HIDE DEF from, start, rest
        <4>4. from + (f + 1) = from + f + 1 /\ start + (r + rest) = start + r + rest
          BY <3>5, <4>2
        <4>5. H[i + 1] = from + f + 1 /\ B[i + 1] = start + r + rest
          BY <4>3, <4>4
        <4> QED
          BY <4>5 DEF from, start, rest
      <3>7. sm[H[i] + f + 1] = Ins({"jumpOnMatch"}, chunks[1], B[i])
        BY <2>11, <3>3
      <3> QED
        BY <2>13, <3>1, <3>3, <3>4, <3>6, <3>7 DEF ForkLaid, chunks, r, f, next
    <2>14. CASE i \notin Own(routes, v) /\ i \notin Forks(routes, v)
      <3>1. h[k] = <<>> /\ b[k] = <<>>
        <4>1. SegmentHead(routes, v, to, i) = <<>>
          BY <2>4, <2>14, HeadIs
        <4>2. Body(routes, v, sub, i) = <<>>
          BY <2>14, BodyIs
        <4> QED
          BY <2>4, <4>1, <4>2
      <3>2. Len(h[k]) = 0 /\ Len(b[k]) = 0
        BY <3>1
      <3> QED
        BY <2>8, <2>11, <2>14, <3>2
    <2> QED
      BY <2>12, <2>13, <2>14
  <1>12. Laid(sm, routes, v, sub, A, X, H, B)
    BY <1>8, <1>9, <1>10, <1>11 DEF Laid, c
  <1> QED
    BY <1>12

-----------------------------------------------------------------------------
(* The code of every node.                                                    *)

\* code gives every node its code.
SubCode(routes, v, code) == [i \in Forks(routes, v) |-> code[Child(routes, v, i)]]
Compiled(routes, code) ==
    \A v \in Nodes(routes) : /\ code[v] = encode(routes, v, SubCode(routes, v, code))
                             /\ code[v] \in Code

\* The prefixes of a table have a longest.
LEMMA LengthsBounded ==
    ASSUME NEW routes, Prefixed(routes)
    PROVE  \E D \in Nat : \A v \in Nodes(routes) : v.dp <= D
  <1> DEFINE P(i) == Len(PrefixOf(routes, i))
             Bound(n, D) == \A i \in 1..n : P(i) <= D
             good == {n \in Nat : n <= Len(routes) => \E D \in Nat : Bound(n, D)}
  <1>1. \A i \in 1..Len(routes) : P(i) \in Nat
    BY DEF Prefixed
  <1> HIDE DEF P
  <1>2. 0 \in good
    <2>1. Bound(0, 0)
      OBVIOUS
    <2> QED
      BY <2>1
  <1>3. ASSUME NEW n \in good PROVE n + 1 \in good
    <2>1. SUFFICES ASSUME n + 1 <= Len(routes) PROVE \E D \in Nat : Bound(n + 1, D)
      OBVIOUS
    <2>2. n <= Len(routes) /\ n + 1 \in 1..Len(routes) /\ n \in Nat
      BY <2>1 DEF Prefixed
    <2>3. PICK D \in Nat : Bound(n, D)
      BY <1>3, <2>2
    <2>4. P(n + 1) \in Nat
      BY <1>1, <2>2
    <2> DEFINE E == IF D < P(n + 1) THEN P(n + 1) ELSE D
    <2>5. E \in Nat /\ D <= E /\ P(n + 1) <= E
      BY <2>4
    <2> HIDE DEF E
    <2>6. ASSUME NEW i \in 1..n + 1 PROVE P(i) <= E
      <3>1. i = n + 1 \/ i \in 1..n
        BY <2>2
      <3>2. i \in 1..Len(routes)
        BY <2>2, <3>1 DEF Prefixed
      <3>3. P(i) \in Nat
        BY <1>1, <3>2
      <3> QED
        BY <2>3, <2>5, <3>1, <3>3
    <2>7. Bound(n + 1, E)
      BY <2>6
    <2> QED
      BY <2>5, <2>7
  <1>4. Len(routes) \in good
    <2> HIDE DEF good
    <2>1. good \in SUBSET Nat
      BY DEF good
    <2> QED
      BY <1>2, <1>3, <2>1, EveryNumber DEF Prefixed
  <1>5. PICK D \in Nat : Bound(Len(routes), D)
    BY <1>4 DEF Prefixed
  <1>6. ASSUME NEW v \in Nodes(routes) PROVE v.dp <= D
    <2>1. v.first \in v.first..v.last /\ v.first \in 1..Len(routes) /\ v.dp \in Nat
      BY NodeIs DEF Prefixed
    <2>2. v.dp <= P(v.first)
      BY <2>1, NodeIs DEF P
    <2>3. P(v.first) <= D /\ P(v.first) \in Nat
      BY <1>1, <1>5, <2>1
    <2> QED
      BY <2>1, <2>2, <2>3
  <1> QED
    BY <1>6

\* The table is compiled, from the leaves of the trie upwards.
LEMMA CompileIs ==
    ASSUME NEW routes, Prefixed(routes), Len(routes) # 0
    PROVE  \E code : /\ Compiled(routes, code)
                     /\ compile(routes) = Marked(code[TrieNode(1, Len(routes), 0)])
  <1> DEFINE N == Nodes(routes)
             Of(f, v) == encode(routes, v, SubCode(routes, v, f))
             code[v \in N] == encode(routes, v, [i \in Forks(routes, v) |-> code[Child(routes, v, i)]])
  <1>1. PICK D \in Nat : \A v \in N : v.dp <= D
    BY LengthsBounded
  <1>2. \A v \in N : v.dp \in Nat
    BY NodeIs
  <1>3. \A v \in N : \A i \in Forks(routes, v) :
            /\ Child(routes, v, i) \in N /\ Child(routes, v, i).dp \in Nat
            /\ v.dp < Child(routes, v, i).dp
    BY <1>2, ChildIs
  <1> HIDE DEF N, Of
  <1> DEFINE Level(k) == {v \in N : v.dp + k > D}
             Partial(k, f) == f = [v \in Level(k) |-> Of(f, v)]
             reached == {k \in Nat : \E f : Partial(k, f)}
  <1>4. 0 \in reached
    <2>1. Level(0) = {}
      BY <1>1, <1>2
    <2> DEFINE f == [v \in {} |-> <<>>]
    <2>2. f = [v \in {} |-> Of(f, v)]
      OBVIOUS
    <2> HIDE DEF f, Level
    <2>3. Partial(0, f)
      BY <2>1, <2>2
    <2> HIDE DEF Partial
    <2> QED
      BY <2>3
  <1>5. ASSUME NEW k \in reached PROVE k + 1 \in reached
    <2>1. k \in Nat
      OBVIOUS
    <2>2. PICK f : Partial(k, f)
      BY <1>5
    <2> DEFINE g == [v \in Level(k + 1) |-> Of(f, v)]
    <2>3. \A v \in Level(k) : v \in Level(k + 1) /\ v \in N
      BY <1>1, <1>2, <2>1
    <2>4. ASSUME NEW v \in Level(k + 1), NEW i \in Forks(routes, v)
          PROVE  Child(routes, v, i) \in Level(k)
      <3>1. v \in N /\ v.dp + (k + 1) > D
        BY <2>4
      <3> DEFINE w == Child(routes, v, i)
      <3>2. w \in N /\ w.dp \in Nat /\ v.dp < w.dp /\ v.dp \in Nat
        BY <1>2, <1>3, <3>1
      <3> HIDE DEF w
      <3>3. w.dp + k > D
        BY <1>1, <2>1, <3>1, <3>2
      <3> QED
        BY <3>2, <3>3 DEF w
    <2> HIDE DEF Level
    <2>5. \A v \in Level(k) : f[v] = Of(f, v)
      BY <2>2, Zenon
    <2>6. \A v \in Level(k) : g[v] = f[v]
      BY <2>3, <2>5
    <2>7. \A v \in Level(k + 1) : Of(f, v) = Of(g, v)
      <3> SUFFICES ASSUME NEW v \in Level(k + 1) PROVE Of(f, v) = Of(g, v)
        OBVIOUS
      <3>1. \A i \in Forks(routes, v) : f[Child(routes, v, i)] = g[Child(routes, v, i)]
        BY <2>4, <2>6
      <3> HIDE DEF g
      <3>2. SubCode(routes, v, f) = SubCode(routes, v, g)
        BY <3>1 DEF SubCode
      <3> QED
        BY <3>2 DEF Of
    <2>8. g = [v \in Level(k + 1) |-> Of(g, v)]
      <3>1. g = [v \in Level(k + 1) |-> Of(f, v)]
        OBVIOUS
      <3> HIDE DEF g
      <3> QED
        BY <2>7, <3>1
    <2>9. Partial(k + 1, g)
      BY <2>8
    <2>10. k + 1 \in Nat
      BY <2>1
    <2> HIDE DEF Partial, g
    <2> QED
      BY <2>9, <2>10
  <1>6. D + 1 \in reached
    <2> HIDE DEF reached
    <2>1. reached \in SUBSET Nat
      BY DEF reached
    <2> QED
      BY <1>4, <1>5, <2>1, EveryNumber
  <1>7. Level(D + 1) = N
    BY <1>1, <1>2
  <1>8. \E f : f = [v \in N |-> Of(f, v)]
    <2>1. PICK f : Partial(D + 1, f)
      BY <1>6
    <2> HIDE DEF Level
    <2> QED
      BY <1>7, <2>1
  <1>9. code = CHOOSE f : f = [v \in N |-> Of(f, v)]
    BY DEF code, Of, SubCode
  <1> HIDE DEF code, Level, Partial, reached
  <1>10. code = [v \in N |-> Of(code, v)]
    BY <1>8, <1>9
  <1>11. \A v \in N : code[v] = Of(code, v)
    BY <1>10, Zenon
  <1> DEFINE typed == {k \in Nat : \A v \in Level(k) : code[v] \in Code}
  <1>12. 0 \in typed
    <2>1. Level(0) = {}
      BY <1>1, <1>2 DEF Level
    <2> QED
      BY <2>1
  <1>13. ASSUME NEW k \in typed PROVE k + 1 \in typed
    <2>1. k \in Nat
      OBVIOUS
    <2>2. ASSUME NEW v \in Level(k + 1) PROVE code[v] \in Code
      <3>1. v \in N /\ v.dp + (k + 1) > D
        BY <2>2 DEF Level
      <3> DEFINE sub == SubCode(routes, v, code)
      <3>2. \A i \in Forks(routes, v) : sub[i] \in Code
        <4> SUFFICES ASSUME NEW i \in Forks(routes, v) PROVE sub[i] \in Code
          OBVIOUS
        <4> DEFINE w == Child(routes, v, i)
        <4>1. w \in N /\ w.dp \in Nat /\ v.dp < w.dp /\ v.dp \in Nat
          BY <1>2, <1>3, <3>1
        <4>2. sub[i] = code[w]
          BY DEF SubCode
        <4> HIDE DEF w, sub
        <4>3. w \in Level(k)
          BY <1>1, <2>1, <3>1, <4>1 DEF Level
        <4> QED
          BY <1>13, <4>2, <4>3
      <3> HIDE DEF sub
      <3>3. v \in Nodes(routes)
        BY <3>1 DEF N
      <3>4. encode(routes, v, sub) \in Code
        BY <3>2, <3>3, EncodeIs
      <3> QED
        BY <1>11, <3>1, <3>4 DEF Of, sub
    <2> QED
      BY <2>1, <2>2
  <1>14. D + 1 \in typed
    <2> HIDE DEF typed
    <2>1. typed \in SUBSET Nat
      BY DEF typed
    <2> QED
      BY <1>12, <1>13, <2>1, EveryNumber
  <1>15. \A v \in N : code[v] \in Code
    BY <1>7, <1>14
  <1>16. Compiled(routes, code)
    BY <1>11, <1>15 DEF Compiled, Of, N
  <1>17. compile(routes) = Marked(code[TrieNode(1, Len(routes), 0)])
    <2>1. routes # <<>>
      OBVIOUS
    <2> QED
      BY <2>1 DEF compile, code, N
  <1> QED
    BY <1>16, <1>17

-----------------------------------------------------------------------------
(* The machine.                                                               *)

\* At instruction i, with the cursor behind p bytes and the methods of M.
At(i, p, M) == Going(i, p, NotFound(M))

\* What it says.
LEMMA AtIs ==
    ASSUME NEW i, NEW p, NEW M
    PROVE  LET s == At(i, p, M)
           IN  s.i = i /\ s.p = p /\ s.answer = NotFound(M) /\ s.answer.methods = M /\ ~s.done
  BY DEF At, Going, NotFound

\* Nothing matches everywhere in a path.
LEMMA NothingMatches ==
    ASSUME NEW path \in Seq(Nat), NEW p \in 0..Len(path)
    PROVE  MatchesAt(<<>>, path, p) /\ p + Len(<<>>) = p
  BY DEF MatchesAt

\* run goes on by turns of the machine.
Running(sm, routes, path, method, run) ==
    \A k \in Nat : run[k + 1] = Turn(sm, routes, path, method, run[k])

\* Turn k of run finds the machine there, or with this answer.
Visits(run, k, i, p, M) == run[k] = At(i, p, M)
Answers(run, k, answer) == run[k] = Ended(answer)

\* Instruction i is one of these.
SetsCursor(sm, i, dp) == sm[i + 1] = Ins({"setCursor"}, <<>>, dp)
TriesRoute(sm, i, r) == sm[i + 1] = Ins({"route"}, <<>>, r)
JumpsOn(sm, i, bs, to) == sm[i + 1] = Ins({"jumpOnMatch"}, bs, to)
Expects(sm, i, bs, to) == sm[i + 1] = Ins({}, bs, to)
GivesUp(sm, i) == sm[i + 1] = Ins({"jumpOnMatch", "fail"}, <<>>, -1)

\* The cursor is set.
LEMMA RunCursor ==
    ASSUME NEW sm, NEW routes, NEW path \in Seq(Nat), NEW method, NEW run, Running(sm, routes, path, method, run),
           NEW k \in Nat, NEW i \in Nat, NEW p \in 0..Len(path), NEW M, Visits(run, k, i, p, M),
           NEW dp \in Nat, SetsCursor(sm, i, dp)
    PROVE  Visits(run, k + 1, i + 1, dp, M)
  <1> DEFINE s == run[k]
  <1>1. s.i = i /\ ~s.done /\ s.p = p /\ s.answer = NotFound(M) /\ s.answer.methods = M
    BY AtIs DEF Visits
  <1>2. run[k + 1] = Turn(sm, routes, path, method, s)
    BY DEF Running
  <1>3. "setCursor" \in sm[i + 1].mode /\ sm[i + 1].i = dp
    BY DEF SetsCursor, Ins
  <1> HIDE DEF s
  <1>4. Turn(sm, routes, path, method, s) = Going(i + 1, dp, NotFound(M))
    BY <1>1, <1>3 DEF Turn
  <1> QED
    BY <1>2, <1>4 DEF Visits, At

\* A route is tried.
LEMMA RunRoute ==
    ASSUME NEW sm, NEW routes, NEW path \in Seq(Nat), NEW method, NEW run, Running(sm, routes, path, method, run),
           NEW k \in Nat, NEW i \in Nat, NEW p \in 0..Len(path), NEW M, Visits(run, k, i, p, M),
           NEW r \in Nat, TriesRoute(sm, i, r)
    PROVE  /\ ~Matches(routes[r].pattern, path) => Visits(run, k + 1, i + 1, p, M)
           /\ Matches(routes[r].pattern, path) /\ method \in routes[r].methods => Answers(run, k + 1, Found(r))
           /\ Matches(routes[r].pattern, path) /\ method \notin routes[r].methods =>
                  Visits(run, k + 1, i + 1, p, M \cup routes[r].methods)
  <1> DEFINE s == run[k]
  <1>1. s.i = i /\ ~s.done /\ s.p = p /\ s.answer = NotFound(M) /\ s.answer.methods = M
    BY AtIs DEF Visits
  <1>2. run[k + 1] = Turn(sm, routes, path, method, s)
    BY DEF Running
  <1>3. "setCursor" \notin sm[i + 1].mode /\ "route" \in sm[i + 1].mode /\ sm[i + 1].i = r /\ sm[i + 1].bs = <<>>
    BY DEF TriesRoute, Ins
  <1>4. MatchesAt(<<>>, path, p) /\ p + Len(<<>>) = p
    BY NothingMatches
  <1> HIDE DEF s
  <1>5. Turn(sm, routes, path, method, s) =
            IF ~Matches(routes[r].pattern, path) THEN Going(i + 1, p, NotFound(M))
            ELSE IF method \in routes[r].methods THEN Ended(Found(r))
            ELSE Going(i + 1, p, NotFound(M \cup routes[r].methods))
    BY <1>1, <1>3, <1>4 DEF Turn
  <1> QED
    BY <1>2, <1>5 DEF Visits, Answers, At

\* The machine jumps where the bytes match.
LEMMA RunJump ==
    ASSUME NEW sm, NEW routes, NEW path \in Seq(Nat), NEW method, NEW run, Running(sm, routes, path, method, run),
           NEW k \in Nat, NEW i \in Nat, NEW p \in 0..Len(path), NEW M, Visits(run, k, i, p, M),
           NEW bs \in Seq(Nat), NEW to \in Nat, JumpsOn(sm, i, bs, to)
    PROVE  /\ MatchesAt(bs, path, p) => Visits(run, k + 1, to, p + Len(bs), M)
           /\ ~MatchesAt(bs, path, p) => Visits(run, k + 1, i + 1, p, M)
  <1> DEFINE s == run[k]
  <1>1. s.i = i /\ ~s.done /\ s.p = p /\ s.answer = NotFound(M) /\ s.answer.methods = M
    BY AtIs DEF Visits
  <1>2. run[k + 1] = Turn(sm, routes, path, method, s)
    BY DEF Running
  <1>3. /\ "setCursor" \notin sm[i + 1].mode /\ "route" \notin sm[i + 1].mode /\ sm[i + 1].i = to /\ sm[i + 1].bs = bs
        /\ "jumpOnMatch" \in sm[i + 1].mode /\ "fail" \notin sm[i + 1].mode
    BY DEF JumpsOn, Ins
  <1> HIDE DEF s
  <1>4. ASSUME MatchesAt(bs, path, p) PROVE Visits(run, k + 1, to, p + Len(bs), M)
    <2>1. Turn(sm, routes, path, method, s) = Going(to, p + Len(bs), NotFound(M))
      BY <1>1, <1>3, <1>4 DEF Turn
    <2> QED
      BY <1>2, <2>1 DEF Visits, At
  <1>5. ASSUME ~MatchesAt(bs, path, p) PROVE Visits(run, k + 1, i + 1, p, M)
    <2>1. Turn(sm, routes, path, method, s) = Going(i + 1, p, NotFound(M))
      BY <1>1, <1>3, <1>5 DEF Turn
    <2> QED
      BY <1>2, <2>1 DEF Visits, At
  <1> QED
    BY <1>4, <1>5

\* The machine jumps where the bytes do not match.
LEMMA RunMatch ==
    ASSUME NEW sm, NEW routes, NEW path \in Seq(Nat), NEW method, NEW run, Running(sm, routes, path, method, run),
           NEW k \in Nat, NEW i \in Nat, NEW p \in 0..Len(path), NEW M, Visits(run, k, i, p, M),
           NEW bs \in Seq(Nat), NEW to \in Nat, Expects(sm, i, bs, to)
    PROVE  /\ MatchesAt(bs, path, p) => Visits(run, k + 1, i + 1, p + Len(bs), M)
           /\ ~MatchesAt(bs, path, p) => Visits(run, k + 1, to, p, M)
  <1> DEFINE s == run[k]
  <1>1. s.i = i /\ ~s.done /\ s.p = p /\ s.answer = NotFound(M) /\ s.answer.methods = M
    BY AtIs DEF Visits
  <1>2. run[k + 1] = Turn(sm, routes, path, method, s)
    BY DEF Running
  <1>3. sm[i + 1].mode = {} /\ sm[i + 1].i = to /\ sm[i + 1].bs = bs
    BY DEF Expects, Ins
  <1> HIDE DEF s
  <1>4. ASSUME MatchesAt(bs, path, p) PROVE Visits(run, k + 1, i + 1, p + Len(bs), M)
    <2>1. Turn(sm, routes, path, method, s) = Going(i + 1, p + Len(bs), NotFound(M))
      BY <1>1, <1>3, <1>4 DEF Turn
    <2> QED
      BY <1>2, <2>1 DEF Visits, At
  <1>5. ASSUME ~MatchesAt(bs, path, p) PROVE Visits(run, k + 1, to, p, M)
    <2>1. Turn(sm, routes, path, method, s) = Going(to, p, NotFound(M))
      BY <1>1, <1>3, <1>5 DEF Turn
    <2> QED
      BY <1>2, <2>1 DEF Visits, At
  <1> QED
    BY <1>4, <1>5

\* The machine gives up.
LEMMA RunFail ==
    ASSUME NEW sm, NEW routes, NEW path \in Seq(Nat), NEW method, NEW run, Running(sm, routes, path, method, run),
           NEW k \in Nat, NEW i \in Nat, NEW p \in 0..Len(path), NEW M, Visits(run, k, i, p, M),
           GivesUp(sm, i)
    PROVE  Answers(run, k + 1, NotFound(M))
  <1> DEFINE s == run[k]
  <1>1. s.i = i /\ ~s.done /\ s.p = p /\ s.answer = NotFound(M) /\ s.answer.methods = M
    BY AtIs DEF Visits
  <1>2. run[k + 1] = Turn(sm, routes, path, method, s)
    BY DEF Running
  <1>3. /\ "setCursor" \notin sm[i + 1].mode /\ "route" \notin sm[i + 1].mode /\ sm[i + 1].bs = <<>>
        /\ "jumpOnMatch" \in sm[i + 1].mode /\ "fail" \in sm[i + 1].mode
    BY DEF GivesUp, Ins
  <1>4. MatchesAt(<<>>, path, p)
    BY NothingMatches
  <1> HIDE DEF s
  <1>5. Turn(sm, routes, path, method, s) = Ended(NotFound(M))
    BY <1>1, <1>3, <1>4 DEF Turn
  <1> QED
    BY <1>2, <1>5 DEF Answers

\* Nothing happens any more.
LEMMA DoneTurn ==
    ASSUME NEW sm, NEW routes, NEW path, NEW method, NEW answer
    PROVE  Turn(sm, routes, path, method, Ended(answer)) = Ended(answer)
  <1>1. Ended(answer).done
    BY DEF Ended
  <1> QED
    BY <1>1 DEF Turn

\* The run that route looks at.
LEMMA RunExists ==
    ASSUME NEW sm \in Code, NEW routes, NEW path, NEW method
    PROVE  \E run : /\ Running(sm, routes, path, httpMethod(method), run)
                    /\ run[0] = IF sm = <<>> THEN Ended(NotFound({})) ELSE Going(0, 0, NotFound({}))
                    /\ Halt(sm, routes, path, method) = run[Len(sm)]
  <1> DEFINE start == IF sm = <<>> THEN Ended(NotFound({})) ELSE Going(0, 0, NotFound({}))
             T(s) == Turn(sm, routes, path, httpMethod(method), s)
             run[n \in Nat] == IF n = 0 THEN start ELSE T(run[n - 1])
             Upto(n, g) == g = [k \in 0..n |-> IF k = 0 THEN start ELSE T(g[k - 1])]
             reached == {n \in Nat : \E g : Upto(n, g)}
  <1>1. run = CHOOSE f : f = [n \in Nat |-> IF n = 0 THEN start ELSE T(f[n - 1])]
    BY DEF run
  <1>2. Halt(sm, routes, path, method) = run[Len(sm)]
    BY DEF Halt
  <1> HIDE DEF start, T, run
  <1>3. 0 \in reached
    <2> DEFINE g == [k \in 0..0 |-> start]
    <2>1. g = [k \in 0..0 |-> IF k = 0 THEN start ELSE T(g[k - 1])]
      OBVIOUS
    <2> HIDE DEF g
    <2>2. Upto(0, g)
      BY <2>1
    <2> HIDE DEF Upto
    <2> QED
      BY <2>2
  <1>4. ASSUME NEW n \in reached PROVE n + 1 \in reached
    <2>1. n \in Nat
      OBVIOUS
    <2>2. PICK f : Upto(n, f)
      BY <1>4
    <2> DEFINE g == [k \in 0..n + 1 |-> IF k = n + 1 THEN T(f[n]) ELSE f[k]]
    <2>3. \A k \in 0..n : f[k] = IF k = 0 THEN start ELSE T(f[k - 1])
      BY <2>1, <2>2, ZenonT(40)
    <2>4. (\A k \in 0..n : g[k] = f[k]) /\ g[n + 1] = T(f[n])
      BY <2>1
    <2>5. g = [k \in 0..n + 1 |-> g[k]]
      OBVIOUS
    <2> HIDE DEF g
    <2>6. ASSUME NEW k \in 0..n + 1 PROVE g[k] = IF k = 0 THEN start ELSE T(g[k - 1])
      <3>1. CASE k = n + 1
        <4>1. k # 0 /\ k - 1 = n /\ n \in 0..n
          BY <2>1, <3>1
        <4>2. g[k - 1] = f[n] /\ g[k] = T(f[n])
          BY <2>4, <3>1, <4>1
        <4> QED
          BY <4>1, <4>2
      <3>2. CASE k = 0
        <4>1. k \in 0..n
          BY <2>1, <3>2
        <4> QED
          BY <2>3, <2>4, <3>2, <4>1
      <3>3. CASE k # 0 /\ k # n + 1
        <4>1. k \in 0..n /\ k - 1 \in 0..n
          BY <2>1, <3>3
        <4>2. g[k] = f[k] /\ g[k - 1] = f[k - 1]
          BY <2>4, <4>1
        <4>3. f[k] = T(f[k - 1])
          BY <2>3, <3>3, <4>1
        <4> QED
          BY <3>3, <4>2, <4>3
      <3> QED
        BY <3>1, <3>2, <3>3
    <2>7. Upto(n + 1, g)
      BY <2>5, <2>6
    <2>8. n + 1 \in Nat
      BY <2>1
    <2> HIDE DEF Upto
    <2> QED
      BY <2>7, <2>8
  <1>5. \A n \in Nat : \E g : Upto(n, g)
    <2> HIDE DEF reached
    <2>1. reached \in SUBSET Nat
      BY DEF reached
    <2>2. \A n \in Nat : n \in reached
      BY <1>3, <1>4, <2>1, EveryNumber
    <2> QED
      BY <2>2 DEF reached
  <1> DEFINE G(n) == CHOOSE g : Upto(n, g)
  <1>6. \A n \in Nat : Upto(n, G(n))
    <2> HIDE DEF Upto
    <2> QED
      BY <1>5
  <1> HIDE DEF G, reached
  <1>7. ASSUME NEW n \in Nat
        PROVE  /\ G(n)[0] = start
               /\ \A k \in Nat : k < n => G(n)[k + 1] = T(G(n)[k])
    <2>1. G(n) = [k \in 0..n |-> IF k = 0 THEN start ELSE T(G(n)[k - 1])]
      BY <1>6
    <2>2. \A k \in 0..n : G(n)[k] = IF k = 0 THEN start ELSE T(G(n)[k - 1])
      BY <2>1, ZenonT(40)
    <2>3. 0 \in 0..n
      OBVIOUS
    <2>4. ASSUME NEW k \in Nat, k < n PROVE G(n)[k + 1] = T(G(n)[k])
      <3>1. k + 1 \in 0..n /\ k + 1 # 0 /\ (k + 1) - 1 = k
        BY <2>4
      <3>2. G(n)[k + 1] = T(G(n)[(k + 1) - 1])
        BY <2>2, <3>1
      <3> QED
        BY <3>1, <3>2
    <2> QED
      BY <2>2, <2>3, <2>4
  <1> HIDE DEF Upto
  <1>8. ASSUME NEW n \in Nat PROVE G(n + 1)[n] = G(n)[n]
    <2> DEFINE same == {k \in Nat : k <= n => G(n + 1)[k] = G(n)[k]}
    <2>0. n + 1 \in Nat
      OBVIOUS
    <2>1. 0 \in same
      BY <1>7, <2>0
    <2>2. ASSUME NEW k \in same PROVE k + 1 \in same
      <3>1. SUFFICES ASSUME k + 1 <= n PROVE G(n + 1)[k + 1] = G(n)[k + 1]
        OBVIOUS
      <3>2. k \in Nat /\ k <= n /\ k < n /\ k < n + 1
        BY <3>1
      <3>3. G(n + 1)[k] = G(n)[k]
        BY <2>2, <3>2
      <3>4. G(n + 1)[k + 1] = T(G(n + 1)[k]) /\ G(n)[k + 1] = T(G(n)[k])
        BY <1>7, <2>0, <3>2
      <3> QED
        BY <3>3, <3>4
    <2>3. n \in same
      <3> HIDE DEF same
      <3>1. same \in SUBSET Nat
        BY DEF same
      <3> QED
        BY <2>1, <2>2, <3>1, EveryNumber
    <2> QED
      BY <2>3
  <1> DEFINE f == [n \in Nat |-> G(n)[n]]
  <1>9. f[0] = start
    BY <1>7
  <1>10. ASSUME NEW n \in Nat PROVE f[n + 1] = T(f[n])
    <2>1. n + 1 \in Nat /\ n < n + 1
      OBVIOUS
    <2>2. f[n + 1] = G(n + 1)[n + 1] /\ f[n] = G(n)[n]
      BY <2>1
    <2>3. G(n + 1)[n + 1] = T(G(n + 1)[n])
      BY <1>7, <2>1
    <2> QED
      BY <1>8, <2>2, <2>3
  <1>11. f = [n \in Nat |-> f[n]]
    OBVIOUS
  <1> HIDE DEF f
  <1>12. \A n \in Nat : f[n] = IF n = 0 THEN start ELSE T(f[n - 1])
    <2> SUFFICES ASSUME NEW n \in Nat PROVE f[n] = IF n = 0 THEN start ELSE T(f[n - 1])
      OBVIOUS
    <2>1. CASE n = 0
      BY <1>9, <2>1
    <2>2. CASE n # 0
      <3>1. n - 1 \in Nat /\ (n - 1) + 1 = n
        BY <2>2
      <3>2. f[(n - 1) + 1] = T(f[n - 1])
        BY <1>10, <3>1
      <3> QED
        BY <2>2, <3>1, <3>2
    <2> QED
      BY <2>1, <2>2
  <1>13. f = [n \in Nat |-> IF n = 0 THEN start ELSE T(f[n - 1])]
    BY <1>11, <1>12
  <1>14. run = [n \in Nat |-> IF n = 0 THEN start ELSE T(run[n - 1])]
    BY <1>1, <1>13
  <1>15. \A n \in Nat : run[n] = IF n = 0 THEN start ELSE T(run[n - 1])
    BY <1>14, ZenonT(40)
  <1>16. run[0] = start
    BY <1>15
  <1>17. ASSUME NEW n \in Nat PROVE run[n + 1] = T(run[n])
    <2>1. n + 1 \in Nat /\ n + 1 # 0 /\ (n + 1) - 1 = n
      OBVIOUS
    <2>2. run[n + 1] = T(run[(n + 1) - 1])
      BY <1>15, <2>1
    <2> QED
      BY <2>1, <2>2
  <1>18. Running(sm, routes, path, httpMethod(method), run)
    BY <1>17 DEF Running, T
  <1> QED
    BY <1>2, <1>16, <1>18 DEF start

\* A machine that is done stays so.
LEMMA StaysDone ==
    ASSUME NEW sm, NEW routes, NEW path, NEW method, NEW run, Running(sm, routes, path, method, run),
           NEW k \in Nat, NEW answer, run[k] = Ended(answer), NEW n \in Nat, k <= n
    PROVE  run[n] = Ended(answer)
  <1> DEFINE done == {m \in Nat : run[k + m] = Ended(answer)}
  <1>1. 0 \in done
    OBVIOUS
  <1>2. ASSUME NEW m \in done PROVE m + 1 \in done
    <2>1. m \in Nat /\ k + m \in Nat /\ k + (m + 1) = (k + m) + 1 /\ m + 1 \in Nat
      OBVIOUS
    <2>2. run[k + m] = Ended(answer)
      BY <1>2
    <2>3. run[(k + m) + 1] = Turn(sm, routes, path, method, run[k + m])
      BY <2>1 DEF Running
    <2>4. run[k + (m + 1)] = Ended(answer)
      BY <2>1, <2>2, <2>3, DoneTurn
    <2> QED
      BY <2>1, <2>4
  <1>3. n - k \in Nat /\ k + (n - k) = n
    OBVIOUS
  <1>4. n - k \in done
    <2> HIDE DEF done
    <2>1. done \in SUBSET Nat
      BY DEF done
    <2> QED
      BY <1>1, <1>2, <1>3, <2>1, EveryNumber
  <1> QED
    BY <1>3, <1>4

-----------------------------------------------------------------------------
(* What a piece of code makes of the routes it is for.                         *)

FitsIn(routes, path, a, b) == {i \in a..b : Matches(routes[i].pattern, path)}
UsableIn(routes, path, method, a, b) == {i \in FitsIn(routes, path, a, b) : method \in routes[i].methods}
OfferedIn(routes, path, a, b) == UNION {routes[i].methods : i \in FitsIn(routes, path, a, b)}

\* In s the first usable one of the routes a to b is found, or all of them are passed.
Outcome(routes, path, method, s, a, b, M, X) ==
    LET usable == UsableIn(routes, path, method, a, b)
        N == M \cup OfferedIn(routes, path, a, b)
    IN  \/ \E f \in usable : (\A j \in usable : f <= j) /\ s = Ended(Found(f))
        \/ /\ usable = {}
           /\ IF X = -1 THEN s = Ended(NotFound(N)) ELSE \E p \in 0..Len(path) : s = At(X, p, N)

\* The first routes, none of which is usable, are passed, and then the others.
LEMMA OutcomeBehind ==
    ASSUME NEW routes, NEW path, NEW method, NEW s, NEW a \in Nat, NEW b \in Nat, NEW c \in Nat, a <= c, c <= b + 1,
           NEW M, NEW X, UsableIn(routes, path, method, a, c - 1) = {},
           Outcome(routes, path, method, s, c, b, M \cup OfferedIn(routes, path, a, c - 1), X)
    PROVE  Outcome(routes, path, method, s, a, b, M, X)
  <1> DEFINE Fit(i) == Matches(routes[i].pattern, path)
             Has(i) == method \in routes[i].methods
             U == UsableIn(routes, path, method, a, b)
             V == UsableIn(routes, path, method, c, b)
             early == OfferedIn(routes, path, a, c - 1)
             late == OfferedIn(routes, path, c, b)
             whole == OfferedIn(routes, path, a, b)
  <1>1. \A i : i \in a..b <=> i \in a..c - 1 \/ i \in c..b
    OBVIOUS
  <1>2. U = V
    <2>1. \A i : i \in U <=> i \in a..b /\ Fit(i) /\ Has(i)
      BY DEF UsableIn, FitsIn
    <2>2. \A i : i \in V <=> i \in c..b /\ Fit(i) /\ Has(i)
      BY DEF UsableIn, FitsIn
    <2>3. \A i \in a..c - 1 : ~(Fit(i) /\ Has(i))
      BY DEF UsableIn, FitsIn
    <2> HIDE DEF U, V, Fit, Has
    <2>4. \A i : i \in U <=> i \in V
      BY <1>1, <2>1, <2>2, <2>3, Zenon
    <2> QED
      BY <2>4
  <1>3. (M \cup early) \cup late = M \cup whole
    <2>1. \A x : x \in early <=> \E i \in a..c - 1 : Fit(i) /\ x \in routes[i].methods
      BY DEF OfferedIn, FitsIn
    <2>2. \A x : x \in late <=> \E i \in c..b : Fit(i) /\ x \in routes[i].methods
      BY DEF OfferedIn, FitsIn
    <2>3. \A x : x \in whole <=> \E i \in a..b : Fit(i) /\ x \in routes[i].methods
      BY DEF OfferedIn, FitsIn
    <2> HIDE DEF early, late, whole, Fit
    <2>4. \A x : x \in whole <=> x \in early \/ x \in late
      <3> SUFFICES ASSUME NEW x PROVE x \in whole <=> x \in early \/ x \in late
        OBVIOUS
      <3>1. x \in whole => x \in early \/ x \in late
        BY <1>1, <2>1, <2>2, <2>3, Zenon
      <3>2. x \in early => x \in whole
        BY <1>1, <2>1, <2>3, Zenon
      <3>3. x \in late => x \in whole
        BY <1>1, <2>2, <2>3, Zenon
      <3> QED
        BY <3>1, <3>2, <3>3
    <2> QED
      BY <2>4
  <1>4. Outcome(routes, path, method, s, c, b, M \cup early, X)
    OBVIOUS
  <1> HIDE DEF U, V, early, late, whole
  <1>5. \/ \E f \in V : (\A j \in V : f <= j) /\ s = Ended(Found(f))
        \/ /\ V = {}
           /\ IF X = -1 THEN s = Ended(NotFound((M \cup early) \cup late))
              ELSE \E p \in 0..Len(path) : s = At(X, p, (M \cup early) \cup late)
    BY <1>4 DEF Outcome, V, late
  <1>6. \/ \E f \in U : (\A j \in U : f <= j) /\ s = Ended(Found(f))
        \/ /\ U = {}
           /\ IF X = -1 THEN s = Ended(NotFound(M \cup whole))
              ELSE \E p \in 0..Len(path) : s = At(X, p, M \cup whole)
    BY <1>2, <1>3, <1>5
  <1> QED
    BY <1>6 DEF Outcome, U, whole

\* The first routes do not match.
LEMMA OutcomeSkips ==
    ASSUME NEW routes, NEW path, NEW method, NEW s, NEW a \in Nat, NEW b \in Nat, NEW c \in Nat, a <= c, c <= b + 1,
           NEW M, NEW X, \A i \in a..c - 1 : ~Matches(routes[i].pattern, path),
           Outcome(routes, path, method, s, c, b, M, X)
    PROVE  Outcome(routes, path, method, s, a, b, M, X)
  <1>1. FitsIn(routes, path, a, c - 1) = {}
    BY DEF FitsIn
  <1>2. UsableIn(routes, path, method, a, c - 1) = {} /\ OfferedIn(routes, path, a, c - 1) = {}
    BY <1>1 DEF UsableIn, OfferedIn
  <1>3. M \cup OfferedIn(routes, path, a, c - 1) = M
    BY <1>2
  <1> QED
    BY <1>2, <1>3, OutcomeBehind

\* One of the first routes is found.
LEMMA OutcomeFound ==
    ASSUME NEW routes, NEW path, NEW method, NEW s, NEW a \in Nat, NEW b \in Nat, NEW c \in Nat, a <= c, c <= b + 1,
           NEW M, NEW X,
           NEW f \in UsableIn(routes, path, method, a, c - 1), s = Ended(Found(f)),
           \A j \in UsableIn(routes, path, method, a, c - 1) : f <= j
    PROVE  Outcome(routes, path, method, s, a, b, M, X)
  <1> DEFINE U == UsableIn(routes, path, method, a, b)
             V == UsableIn(routes, path, method, a, c - 1)
             Good(i) == Matches(routes[i].pattern, path) /\ method \in routes[i].methods
  <1>1. \A i : i \in U <=> i \in a..b /\ Good(i)
    BY DEF UsableIn, FitsIn
  <1>2. \A i : i \in V <=> i \in a..c - 1 /\ Good(i)
    BY DEF UsableIn, FitsIn
  <1>3. f \in V /\ \A j \in V : f <= j
    OBVIOUS
  <1> HIDE DEF U, V, Good
  <1>4. f \in a..c - 1 /\ Good(f) /\ f \in a..b
    BY <1>2, <1>3
  <1>5. f \in U
    BY <1>1, <1>4
  <1>6. ASSUME NEW j \in U PROVE f <= j
    <2>1. j \in a..b /\ Good(j)
      BY <1>1
    <2>2. CASE j \in a..c - 1
      BY <1>2, <1>3, <2>1, <2>2
    <2>3. CASE j \notin a..c - 1
      BY <1>4, <2>1, <2>3
    <2> QED
      BY <2>2, <2>3
  <1> QED
    BY <1>5, <1>6 DEF Outcome, U

-----------------------------------------------------------------------------
(* How far a path begins as a prefix does.                                     *)

Agreed(path, p, d) == d <= Len(path) /\ \A x \in 1..d : path[x] = p[x]

\* A path that begins as a prefix does begins as less of it does.
LEMMA AgreedLess ==
    ASSUME NEW path \in Seq(Nat), NEW p, NEW d \in Nat, Agreed(path, p, d), NEW e \in Nat, e <= d
    PROVE  Agreed(path, p, e)
  BY DEF Agreed

\* The next chunk of the prefix matches if the path goes on as the prefix does.
LEMMA ChunkMatches ==
    ASSUME NEW path \in Seq(Nat), NEW p \in Seq(Nat), NEW c, NEW from \in Nat, NEW to \in Nat,
           Cut(c, p, from, to), NEW k \in 1..Len(c), Agreed(path, p, Edge(from, to, k - 1))
    PROVE  /\ Edge(from, to, k) \in Nat /\ Edge(from, to, k) <= to
           /\ Edge(from, to, k - 1) \in 0..Len(path)
           /\ Edge(from, to, k - 1) + Len(c[k]) = Edge(from, to, k)
           /\ MatchesAt(c[k], path, Edge(from, to, k - 1)) <=> Agreed(path, p, Edge(from, to, k))
  <1> DEFINE a == Edge(from, to, k - 1)
             b == Edge(from, to, k)
             n == Len(c[k])
  <1>1. c[k] \in Seq(Nat) /\ a + n = b /\ a \in Nat /\ b <= to /\ \A x \in 1..n : c[k][x] = p[a + x]
    BY DEF Cut
  <1>2. n \in Nat
    BY <1>1
  <1>3. Agreed(path, p, a)
    OBVIOUS
  <1> HIDE DEF a, b, n
  <1>4. b \in Nat /\ a \in 0..Len(path)
    BY <1>1, <1>2, <1>3 DEF Agreed
  <1>5. ASSUME MatchesAt(c[k], path, a) PROVE Agreed(path, p, b)
    <2>1. a + n <= Len(path) /\ \A x \in 1..n : path[a + x] = c[k][x]
      BY <1>5 DEF MatchesAt, n
    <2>2. ASSUME NEW x \in 1..b PROVE path[x] = p[x]
      <3>1. CASE x \in 1..a
        BY <1>3, <3>1 DEF Agreed
      <3>2. CASE x \notin 1..a
        <4>1. x - a \in 1..n /\ a + (x - a) = x
          BY <1>1, <1>2, <1>4, <3>2
        <4>2. path[a + (x - a)] = p[a + (x - a)]
          BY <1>1, <2>1, <4>1
        <4> QED
          BY <4>1, <4>2
      <3> QED
        BY <3>1, <3>2
    <2> QED
      BY <1>1, <2>1, <2>2 DEF Agreed
  <1>6. ASSUME Agreed(path, p, b) PROVE MatchesAt(c[k], path, a)
    <2>1. \A x \in 1..n : a + x \in 1..b
      BY <1>1, <1>2, <1>4
    <2>2. \A x \in 1..n : path[a + x] = c[k][x]
      BY <1>1, <1>6, <2>1 DEF Agreed
    <2>3. a + n <= Len(path)
      BY <1>1, <1>6 DEF Agreed
    <2> QED
      BY <2>2, <2>3 DEF MatchesAt, n
  <1> QED
    BY <1>1, <1>4, <1>5, <1>6 DEF a, b, n

\* A table as handle makes it.
Table(routes) ==
    /\ Prefixed(routes) /\ Ordered(routes)
    /\ \A i \in 1..Len(routes) : WellFormed(routes[i].pattern)

\* A path that a route matches begins with its prefix.
LEMMA MatchAgrees ==
    ASSUME NEW routes, Table(routes), NEW path \in Seq(Nat), NEW i \in 1..Len(routes),
           Matches(routes[i].pattern, path)
    PROVE  Agreed(path, PrefixOf(routes, i), Len(PrefixOf(routes, i)))
  <1>1. WellFormed(routes[i].pattern) /\ PrefixOf(routes, i) \in Seq(Nat)
    BY DEF Table, Prefixed
  <1>2. IsPrefix(PrefixOf(routes, i), path)
    BY <1>1, MatchesPrefix DEF PrefixOf
  <1>3. /\ Len(PrefixOf(routes, i)) <= Len(path)
        /\ \A x \in 1..Len(PrefixOf(routes, i)) : PrefixOf(routes, i)[x] = path[x]
    BY <1>1, <1>2, PrefixElements
  <1> QED
    BY <1>3 DEF Agreed

\* No route of a node matches a path that does not begin as the node does.
LEMMA OtherNode ==
    ASSUME NEW routes, Table(routes), NEW path \in Seq(Nat), NEW w \in Nodes(routes),
           ~Agreed(path, PrefixOf(routes, w.first), w.dp)
    PROVE  \A i \in w.first..w.last : ~Matches(routes[i].pattern, path)
  <1> SUFFICES ASSUME NEW i \in w.first..w.last, Matches(routes[i].pattern, path) PROVE FALSE
    OBVIOUS
  <1>1. Prefixed(routes)
    BY DEF Table
  <1>2. /\ i \in 1..Len(routes) /\ PrefixOf(routes, i) \in Seq(Nat) /\ w.dp \in Nat
        /\ w.dp <= Len(PrefixOf(routes, i))
        /\ \A x \in 1..w.dp : PrefixOf(routes, i)[x] = PrefixOf(routes, w.first)[x]
    BY <1>1, NodeIs
  <1>3. Agreed(path, PrefixOf(routes, i), Len(PrefixOf(routes, i)))
    BY <1>2, MatchAgrees
  <1>4. Len(PrefixOf(routes, i)) \in Nat
    BY <1>2
  <1>5. Agreed(path, PrefixOf(routes, i), w.dp)
    BY <1>2, <1>3, <1>4, AgreedLess
  <1> QED
    BY <1>2, <1>5 DEF Agreed

\* Nor does one with another byte.
LEMMA OtherByte ==
    ASSUME NEW routes, Table(routes), NEW path \in Seq(Nat), NEW i \in 1..Len(routes), NEW d \in Nat,
           d < Len(PrefixOf(routes, i)), path[d + 1] # PrefixOf(routes, i)[d + 1]
    PROVE  ~Matches(routes[i].pattern, path)
  <1> SUFFICES ASSUME Matches(routes[i].pattern, path) PROVE FALSE
    OBVIOUS
  <1>1. Agreed(path, PrefixOf(routes, i), Len(PrefixOf(routes, i)))
    BY MatchAgrees
  <1>2. PrefixOf(routes, i) \in Seq(Nat)
    BY DEF Table, Prefixed
  <1>3. d + 1 \in 1..Len(PrefixOf(routes, i))
    BY <1>2
  <1> QED
    BY <1>1, <1>3 DEF Agreed

-----------------------------------------------------------------------------
(* The places of heads and bodies grow.                                        *)

\* From one route to the next.
LEMMA LaidGrows ==
    ASSUME NEW routes, Prefixed(routes), NEW v \in Nodes(routes),
           NEW sub, \A i \in Forks(routes, v) : sub[i] \in Code,
           NEW sm, NEW A, NEW X, NEW H, NEW B, Laid(sm, routes, v, sub, A, X, H, B)
    PROVE  \A i \in v.first..v.last : H[i] <= H[i + 1] /\ B[i] <= B[i + 1]
  <1> SUFFICES ASSUME NEW i \in v.first..v.last PROVE H[i] <= H[i + 1] /\ B[i] <= B[i + 1]
    OBVIOUS
  <1>1. H[i] \in Nat /\ B[i] \in Nat /\ H[i + 1] \in Nat /\ B[i + 1] \in Nat
    <2>1. v.first \in Nat /\ v.last \in Nat
      BY NodeIs
    <2>2. i \in v.first..v.last + 1 /\ i + 1 \in v.first..v.last + 1
      BY <2>1
    <2> QED
      BY <2>2 DEF Laid
  <1>2. CASE i \in Own(routes, v)
    <2>1. OwnLaid(sm, v, H, B, i)
      BY <1>2 DEF Laid
    <2> QED
      BY <1>1, <2>1 DEF OwnLaid
  <1>3. CASE i \in Forks(routes, v)
    <2> DEFINE chunks == ChildChunks(routes, v, i)
               n == Len(chunks) - 1
               first == IF i = v.first THEN 1 ELSE 0
    <2>1. H[i + 1] = H[i] + first + 1 /\ B[i + 1] = B[i] + n + Len(sub[i])
      BY <1>3 DEF Laid, ForkLaid
    <2>2. n \in Nat
      <3>1. Len(chunks) \in Nat /\ 1 <= Len(chunks)
        BY <1>3, ChildChunksAre DEF Cut
      <3> HIDE DEF chunks
      <3> QED
        BY <3>1
    <2>3. Len(sub[i]) \in Nat
      BY <1>3 DEF Code
    <2> HIDE DEF n
    <2> QED
      BY <1>1, <2>1, <2>2, <2>3
  <1>4. CASE i \notin Own(routes, v) /\ i \notin Forks(routes, v)
    <2>1. H[i + 1] = H[i] /\ B[i + 1] = B[i]
      BY <1>4 DEF Laid
    <2> QED
      BY <1>1, <2>1
  <1> QED
    BY <1>2, <1>3, <1>4

\* Over several routes; where none of them begins anything, the places stay.
LEMMA LaidInOrder ==
    ASSUME NEW routes, Prefixed(routes), NEW v \in Nodes(routes),
           NEW sub, \A i \in Forks(routes, v) : sub[i] \in Code,
           NEW sm, NEW A, NEW X, NEW H, NEW B, Laid(sm, routes, v, sub, A, X, H, B),
           NEW i \in v.first..v.last + 1, NEW j \in v.first..v.last + 1, i <= j
    PROVE  /\ H[i] \in Nat /\ B[i] \in Nat /\ H[j] \in Nat /\ B[j] \in Nat
           /\ H[i] <= H[j] /\ B[i] <= B[j]
           /\ (\A k \in i..j - 1 : k \notin Own(routes, v) /\ k \notin Forks(routes, v)) => H[i] = H[j] /\ B[i] = B[j]
  <1> DEFINE Empty(x) == \A k \in i..x - 1 : k \notin Own(routes, v) /\ k \notin Forks(routes, v)
             Fine(x) == /\ H[i] <= H[x] /\ B[i] <= B[x]
                        /\ Empty(x) => H[i] = H[x] /\ B[i] = B[x]
             good == {n \in Nat : i + n <= j => Fine(i + n)}
  <1>1. v.first \in Nat /\ v.last \in Nat /\ i \in Nat /\ j \in Nat
    BY NodeIs
  <1>2. \A x \in v.first..v.last + 1 : H[x] \in Nat /\ B[x] \in Nat
    BY DEF Laid
  <1>3. \A x \in v.first..v.last : H[x] <= H[x + 1] /\ B[x] <= B[x + 1]
    BY LaidGrows
  <1>4. \A x \in v.first..v.last :
            x \notin Own(routes, v) /\ x \notin Forks(routes, v) => H[x + 1] = H[x] /\ B[x + 1] = B[x]
    BY DEF Laid
  <1>5. 0 \in good
    <2>1. i + 0 = i /\ H[i] \in Nat /\ B[i] \in Nat
      BY <1>1, <1>2
    <2> QED
      BY <2>1
  <1>6. ASSUME NEW n \in good PROVE n + 1 \in good
    <2>1. SUFFICES ASSUME i + (n + 1) <= j PROVE Fine(i + (n + 1))
      OBVIOUS
    <2> DEFINE x == i + n
    <2>2. /\ n \in Nat /\ x <= j /\ x \in v.first..v.last /\ x + 1 \in v.first..v.last + 1 /\ x \in v.first..v.last + 1
          /\ i + (n + 1) = x + 1 /\ x \in i..(x + 1) - 1 /\ i..x - 1 \subseteq i..(x + 1) - 1
      BY <1>1, <2>1
    <2>3. Fine(x)
      BY <1>6, <2>2
    <2> HIDE DEF x
    <2>4. /\ H[x] \in Nat /\ B[x] \in Nat /\ H[x + 1] \in Nat /\ B[x + 1] \in Nat /\ H[i] \in Nat /\ B[i] \in Nat
          /\ H[x] <= H[x + 1] /\ B[x] <= B[x + 1]
      BY <1>2, <1>3, <2>2
    <2>5. ASSUME Empty(x + 1) PROVE H[i] = H[x + 1] /\ B[i] = B[x + 1]
      <3>1. Empty(x) /\ x \notin Own(routes, v) /\ x \notin Forks(routes, v)
        BY <2>2, <2>5
      <3> QED
        BY <1>4, <2>2, <2>3, <3>1
    <2>6. H[i] <= H[x] /\ B[i] <= B[x]
      BY <2>3
    <2>7. H[i] <= H[x + 1] /\ B[i] <= B[x + 1]
      BY <2>4, <2>6
    <2>8. Fine(x + 1)
      BY <2>5, <2>7
    <2> QED
      BY <2>2, <2>8
  <1>7. j - i \in Nat /\ i + (j - i) = j
    BY <1>1
  <1>8. j - i \in good
    <2> HIDE DEF good
    <2>1. good \in SUBSET Nat
      BY DEF good
    <2> QED
      BY <1>5, <1>6, <1>7, <2>1, EveryNumber
  <1>9. Fine(j)
    BY <1>1, <1>7, <1>8
  <1> QED
    BY <1>2, <1>9

-----------------------------------------------------------------------------
(* The machine in the body of a segment.                                       *)

\* The chunks behind the first one stand behind b.
Continued(sm, c, b, X) == \A j \in 1..Len(c) - 1 : sm[b + j] = Ins({}, c[j + 1], X)

\* The chunks behind the first one are matched, or the machine goes on at X.
LEMMA ChunksRun ==
    ASSUME NEW sm, NEW routes, NEW path \in Seq(Nat), NEW method, NEW run, Running(sm, routes, path, method, run),
           NEW q \in Seq(Nat), NEW c, NEW from \in Nat, NEW to \in Nat, Cut(c, q, from, to),
           NEW b \in Nat, NEW X \in Nat, Continued(sm, c, b, X),
           NEW k \in Nat, NEW M, Visits(run, k, b, Edge(from, to, 1), M), Agreed(path, q, Edge(from, to, 1))
    PROVE  \E m \in 0..Len(c) - 1 :
               \/ Visits(run, k + m, b + (Len(c) - 1), to, M) /\ Agreed(path, q, to)
               \/ ~Agreed(path, q, to) /\ \E p \in 0..Len(path) : Visits(run, k + m, X, p, M)
  <1> DEFINE e(n) == Edge(from, to, n)
             Left(m) == \E p \in 0..Len(path) : Visits(run, k + m, X, p, M)
             Here(n) == Visits(run, k + n, b + n, e(n + 1), M) /\ Agreed(path, q, e(n + 1))
             Gone(n) == ~Agreed(path, q, to) /\ \E m \in 0..n : Left(m)
             good == {n \in Nat : n <= Len(c) - 1 => Here(n) \/ Gone(n)}
  <1>1. Len(c) \in Nat /\ 1 <= Len(c) /\ e(Len(c)) = to /\ \A j \in 1..Len(c) : c[j] \in Seq(Nat)
    BY DEF Cut
  <1> HIDE DEF Left, e
  <1>2. 0 \in good
    <2>1. k + 0 = k /\ b + 0 = b /\ 0 + 1 = 1
      OBVIOUS
    <2>2. Visits(run, k, b, e(1), M) /\ Agreed(path, q, e(1))
      BY DEF e
    <2>3. Here(0)
      BY <2>1, <2>2
    <2> HIDE DEF Here, Gone
    <2> QED
      BY <2>3
  <1>3. ASSUME NEW n \in good PROVE n + 1 \in good
    <2>1. SUFFICES ASSUME n + 1 <= Len(c) - 1 PROVE Here(n + 1) \/ Gone(n + 1)
      OBVIOUS
    <2>2. n \in Nat /\ n <= Len(c) - 1 /\ n + 1 \in 1..Len(c) - 1 /\ n + 2 \in 1..Len(c) /\ (n + 1) + 1 = n + 2
          /\ (n + 2) - 1 = n + 1 /\ k + n \in Nat /\ (k + n) + 1 = k + (n + 1) /\ (b + n) + 1 = b + (n + 1) /\ b + n \in Nat
      BY <1>1, <2>1
    <2>3. Here(n) \/ Gone(n)
      BY <1>3, <2>2
    <2>4. CASE Gone(n)
      <3>1. 0..n \subseteq 0..n + 1
        BY <2>2
      <3>2. Gone(n + 1)
        BY <2>4, <3>1
      <3> QED
        BY <3>2
    <2>5. CASE Here(n)
      <3> DEFINE x == e(n + 1)
                 y == e(n + 2)
                 bs == c[n + 2]
      <3>1. Visits(run, k + n, b + n, x, M) /\ Agreed(path, q, x)
        BY <2>5
      <3>2. /\ y \in Nat /\ y <= to /\ x \in 0..Len(path) /\ x + Len(bs) = y
            /\ MatchesAt(bs, path, x) <=> Agreed(path, q, y)
        <4> DEFINE j == n + 2
        <4>1. j \in 1..Len(c) /\ Agreed(path, q, Edge(from, to, j - 1))
          BY <2>2, <3>1 DEF e
        <4> HIDE DEF j
        <4>2. /\ Edge(from, to, j) \in Nat /\ Edge(from, to, j) <= to
              /\ Edge(from, to, j - 1) \in 0..Len(path)
              /\ Edge(from, to, j - 1) + Len(c[j]) = Edge(from, to, j)
              /\ MatchesAt(c[j], path, Edge(from, to, j - 1)) <=> Agreed(path, q, Edge(from, to, j))
          BY <4>1, ChunkMatches
        <4>3. j - 1 = n + 1
          BY <2>2 DEF j
        <4> QED
          BY <4>2, <4>3 DEF e, j
      <3>3. sm[(b + n) + 1] = Ins({}, bs, X) /\ bs \in Seq(Nat)
        BY <1>1, <2>2 DEF Continued
      <3> HIDE DEF x, y, bs
      <3> DEFINE i == b + n
                 l == k + n
      <3>4. /\ i \in Nat /\ l \in Nat /\ i + 1 = b + (n + 1) /\ l + 1 = k + (n + 1)
            /\ Visits(run, l, i, x, M) /\ Expects(sm, i, bs, X)
        BY <2>2, <3>1, <3>3 DEF Expects
      <3> HIDE DEF i, l
      <3>5. /\ MatchesAt(bs, path, x) => Visits(run, l + 1, i + 1, x + Len(bs), M)
            /\ ~MatchesAt(bs, path, x) => Visits(run, l + 1, X, x, M)
        BY <3>2, <3>3, <3>4, RunMatch
      <3>6. CASE MatchesAt(bs, path, x)
        <4>1. Visits(run, k + (n + 1), b + (n + 1), y, M) /\ Agreed(path, q, y)
          BY <3>2, <3>4, <3>5, <3>6
        <4>2. Here(n + 1)
          BY <2>2, <4>1 DEF y
        <4> QED
          BY <4>2
      <3>7. CASE ~MatchesAt(bs, path, x)
        <4>1. Visits(run, k + (n + 1), X, x, M) /\ ~Agreed(path, q, y)
          BY <3>2, <3>4, <3>5, <3>7
        <4>2. Left(n + 1)
          BY <3>2, <4>1 DEF Left
        <4>3. ~Agreed(path, q, to)
          BY <3>2, <4>1, AgreedLess
        <4>4. n + 1 \in 0..n + 1
          BY <2>2
        <4>5. Gone(n + 1)
          BY <4>2, <4>3, <4>4
        <4> QED
          BY <4>5
      <3> QED
        BY <3>6, <3>7
    <2> QED
      BY <2>3, <2>4, <2>5
  <1> DEFINE last == Len(c) - 1
  <1>4. last \in Nat /\ last <= Len(c) - 1 /\ last + 1 = Len(c)
    BY <1>1
  <1>5. Here(last) \/ Gone(last)
    <2> HIDE DEF good, Here, Gone
    <2>1. good \in SUBSET Nat
      BY DEF good
    <2>2. last \in good
      BY <1>2, <1>3, <1>4, <2>1, EveryNumber
    <2> QED
      BY <1>4, <2>2 DEF good
  <1>6. CASE Here(last)
    <2>1. Visits(run, k + last, b + last, to, M) /\ Agreed(path, q, to)
      BY <1>1, <1>4, <1>6
    <2>2. last \in 0..Len(c) - 1
      BY <1>4
    <2> QED
      BY <2>1, <2>2
  <1>7. CASE Gone(last)
    BY <1>7 DEF Left
  <1> QED
    BY <1>5, <1>6, <1>7

-----------------------------------------------------------------------------
(* What comes of a state of the machine.                                       *)

\* Within n turns of turn k the machine is through with the routes a to b.
Comes(routes, path, method, run, k, n, a, b, M, X) ==
    \E m \in 0..n : Outcome(routes, path, method, run[k + m], a, b, M, X)

\* It takes some turns more from an earlier turn.
LEMMA ComesLater ==
    ASSUME NEW routes, NEW path, NEW method, NEW run, NEW a \in Nat, NEW b \in Nat, NEW M, NEW X,
           NEW k \in Nat, NEW j \in Nat, NEW n \in Nat, NEW t \in Nat, j + n <= t,
           Comes(routes, path, method, run, k + j, n, a, b, M, X)
    PROVE  Comes(routes, path, method, run, k, t, a, b, M, X)
  <1> DEFINE Out(x) == Outcome(routes, path, method, run[x], a, b, M, X)
  <1>1. PICK m \in 0..n : Out((k + j) + m)
    BY DEF Comes
  <1>2. j + m \in 0..t /\ k + (j + m) = (k + j) + m
    OBVIOUS
  <1> HIDE DEF Out
  <1>3. Out(k + (j + m))
    BY <1>1, <1>2
  <1>4. \E x \in 0..t : Out(k + x)
    BY <1>2, <1>3
  <1> QED
    BY <1>4 DEF Comes, Out

\* The first routes do not match.
LEMMA ComesSkips ==
    ASSUME NEW routes, NEW path, NEW method, NEW run, NEW a \in Nat, NEW b \in Nat, NEW M, NEW X,
           NEW k \in Nat, NEW n \in Nat, NEW c \in Nat, a <= c, c <= b + 1,
           \A i \in a..c - 1 : ~Matches(routes[i].pattern, path),
           Comes(routes, path, method, run, k, n, c, b, M, X)
    PROVE  Comes(routes, path, method, run, k, n, a, b, M, X)
  <1>1. PICK m \in 0..n : Outcome(routes, path, method, run[k + m], c, b, M, X)
    BY DEF Comes
  <1> DEFINE s == run[k + m]
  <1>2. Outcome(routes, path, method, s, c, b, M, X)
    BY <1>1
  <1> HIDE DEF s
  <1>3. Outcome(routes, path, method, s, a, b, M, X)
    BY <1>2, OutcomeSkips
  <1> QED
    BY <1>3 DEF Comes, s

\* None of the first routes is usable.
LEMMA ComesBehind ==
    ASSUME NEW routes, NEW path, NEW method, NEW run, NEW a \in Nat, NEW b \in Nat, NEW M, NEW X,
           NEW k \in Nat, NEW n \in Nat, NEW c \in Nat, a <= c, c <= b + 1,
           UsableIn(routes, path, method, a, c - 1) = {}, NEW N, N = M \cup OfferedIn(routes, path, a, c - 1),
           Comes(routes, path, method, run, k, n, c, b, N, X)
    PROVE  Comes(routes, path, method, run, k, n, a, b, M, X)
  <1>1. PICK m \in 0..n : Outcome(routes, path, method, run[k + m], c, b, N, X)
    BY DEF Comes
  <1> DEFINE s == run[k + m]
  <1>2. Outcome(routes, path, method, s, c, b, M \cup OfferedIn(routes, path, a, c - 1), X)
    BY <1>1
  <1> HIDE DEF s
  <1>3. Outcome(routes, path, method, s, a, b, M, X)
    BY <1>2, OutcomeBehind
  <1> QED
    BY <1>3 DEF Comes, s

\* One of the first routes is found.
LEMMA ComesFound ==
    ASSUME NEW routes, NEW path, NEW method, NEW run, NEW a \in Nat, NEW b \in Nat, NEW M, NEW X,
           NEW k \in Nat, NEW n \in Nat, NEW c \in Nat, a <= c, c <= b + 1, NEW m \in 0..n,
           NEW f \in UsableIn(routes, path, method, a, c - 1), Answers(run, k + m, Found(f)),
           \A j \in UsableIn(routes, path, method, a, c - 1) : f <= j
    PROVE  Comes(routes, path, method, run, k, n, a, b, M, X)
  <1> DEFINE s == run[k + m]
  <1>1. s = Ended(Found(f))
    BY DEF Answers
  <1> HIDE DEF s
  <1>2. Outcome(routes, path, method, s, a, b, M, X)
    BY <1>1, OutcomeFound
  <1> QED
    BY <1>2 DEF Comes, s

\* There is no route left.
LEMMA ComesEnd ==
    ASSUME NEW routes, NEW path \in Seq(Nat), NEW method, NEW run, NEW b \in Nat, NEW M, NEW X \in Addresses,
           NEW k \in Nat,
           X = -1 => Answers(run, k + 1, NotFound(M)),
           X # -1 => \E p \in 0..Len(path) : Visits(run, k + 1, X, p, M)
    PROVE  Comes(routes, path, method, run, k, 1, b + 1, b, M, X)
  <1> DEFINE s == run[k + 1]
  <1>1. FitsIn(routes, path, b + 1, b) = {}
    BY DEF FitsIn
  <1>2. UsableIn(routes, path, method, b + 1, b) = {} /\ M \cup OfferedIn(routes, path, b + 1, b) = M
    BY <1>1 DEF UsableIn, OfferedIn
  <1>3. IF X = -1 THEN s = Ended(NotFound(M)) ELSE \E p \in 0..Len(path) : s = At(X, p, M)
    BY DEF Answers, Visits
  <1> HIDE DEF s
  <1>4. Outcome(routes, path, method, s, b + 1, b, M, X)
    BY <1>2, <1>3 DEF Outcome
  <1>5. 1 \in 0..1
    OBVIOUS
  <1> QED
    BY <1>4, <1>5 DEF Comes, s

\* A single route.
LEMMA OnlyRoute ==
    ASSUME NEW routes, NEW path, NEW method, NEW i \in Nat
    PROVE  /\ ~Matches(routes[i].pattern, path) =>
                  UsableIn(routes, path, method, i, i) = {} /\ OfferedIn(routes, path, i, i) = {}
           /\ Matches(routes[i].pattern, path) => OfferedIn(routes, path, i, i) = routes[i].methods
           /\ Matches(routes[i].pattern, path) /\ method \notin routes[i].methods =>
                  UsableIn(routes, path, method, i, i) = {}
           /\ Matches(routes[i].pattern, path) /\ method \in routes[i].methods =>
                  UsableIn(routes, path, method, i, i) = {i}
  <1>1. i..i = {i}
    OBVIOUS
  <1>2. ~Matches(routes[i].pattern, path) => FitsIn(routes, path, i, i) = {}
    BY <1>1 DEF FitsIn
  <1>3. Matches(routes[i].pattern, path) => FitsIn(routes, path, i, i) = {i}
    BY <1>1 DEF FitsIn
  <1> QED
    BY <1>2, <1>3 DEF UsableIn, OfferedIn

-----------------------------------------------------------------------------
(* The machine in the code of a node.                                          *)

Machine(sm, routes, path, method, run) ==
    Table(routes) /\ sm \in Code /\ path \in Seq(Nat) /\ Running(sm, routes, path, method, run)

\* Wherever the code of node v stands, the machine comes through with its routes.
Works(sm, routes, path, method, run, v, code) ==
    \A A \in Nat, X \in Addresses, k \in Nat, p \in 0..Len(path) : \A M :
        Stands(sm, A, X, code) /\ Visits(run, k, A, p, M) /\ Agreed(path, PrefixOf(routes, v.first), v.dp) =>
        Comes(routes, path, method, run, k, Len(code), v.first, v.last, M, X)

\* The code of v stands at A, the code of its children works, and the path begins as the
\* prefixes of v do.
Site(sm, routes, path, method, run, v, sub, A, X, H, B) ==
    /\ Machine(sm, routes, path, method, run)
    /\ v \in Nodes(routes)
    /\ \A i \in Forks(routes, v) :
           sub[i] \in Code /\ Works(sm, routes, path, method, run, Child(routes, v, i), sub[i])
    /\ A \in Nat /\ X \in Addresses
    /\ Laid(sm, routes, v, sub, A, X, H, B)
    /\ Agreed(path, PrefixOf(routes, v.first), v.dp)

\* The turns left from the head of route i.
TurnsFrom(v, H, B, i) == (H[v.last + 1] - H[i]) + (B[v.last + 1] - B[i]) + 1

\* Where the cursor may be there.
CursorAt(routes, v, i, p) == p = v.dp \/ i \in Own(routes, v) \/ i = v.first \/ i = v.last + 1

\* From the head of route i the machine comes through with the routes from i on.
Reaches(routes, path, method, run, v, H, B, X, i) ==
    \A k \in Nat, p \in 0..Len(path) : \A M :
        Visits(run, k, H[i], p, M) /\ CursorAt(routes, v, i, p) =>
        Comes(routes, path, method, run, k, TurnsFrom(v, H, B, i), i, v.last, M, X)

\* What is known of a site.
LEMMA SiteIs ==
    ASSUME NEW sm, NEW routes, NEW path, NEW method, NEW run, NEW v, NEW sub, NEW A, NEW X, NEW H, NEW B,
           Site(sm, routes, path, method, run, v, sub, A, X, H, B)
    PROVE  /\ Prefixed(routes) /\ Ordered(routes) /\ Table(routes) /\ sm \in Code /\ path \in Seq(Nat)
           /\ Running(sm, routes, path, method, run)
           /\ v \in Nodes(routes) /\ \A i \in Forks(routes, v) : sub[i] \in Code
           /\ v.first \in Nat /\ v.last \in Nat /\ v.dp \in Nat /\ v.dp \in 0..Len(path) /\ v.first <= v.last
           /\ A \in Nat /\ X \in Addresses /\ Laid(sm, routes, v, sub, A, X, H, B)
           /\ \A i \in v.first..v.last + 1 : H[i] \in Nat /\ B[i] \in Nat
  <1>1. /\ Prefixed(routes) /\ Ordered(routes) /\ Table(routes) /\ sm \in Code /\ path \in Seq(Nat)
        /\ Running(sm, routes, path, method, run)
    BY DEF Site, Machine, Table
  <1>2. /\ v \in Nodes(routes) /\ \A i \in Forks(routes, v) : sub[i] \in Code
        /\ A \in Nat /\ X \in Addresses /\ Laid(sm, routes, v, sub, A, X, H, B)
    BY DEF Site
  <1>3. v.first \in Nat /\ v.last \in Nat /\ v.dp \in Nat /\ v.first <= v.last
    BY <1>1, <1>2, NodeIs
  <1>4. v.dp <= Len(path) /\ Len(path) \in Nat
    BY <1>1 DEF Site, Agreed
  <1>5. v.dp \in 0..Len(path)
    BY <1>3, <1>4
  <1>6. \A i \in v.first..v.last + 1 : H[i] \in Nat /\ B[i] \in Nat
    BY <1>2 DEF Laid
  <1> QED
    BY <1>1, <1>2, <1>3, <1>5, <1>6

\* How many turns are left.
LEMMA TurnsAre ==
    ASSUME NEW sm, NEW routes, NEW path, NEW method, NEW run, NEW v, NEW sub, NEW A, NEW X, NEW H, NEW B,
           Site(sm, routes, path, method, run, v, sub, A, X, H, B),
           NEW i \in v.first..v.last + 1, NEW j \in v.first..v.last + 1, i <= j
    PROVE  /\ TurnsFrom(v, H, B, i) \in Nat /\ TurnsFrom(v, H, B, j) \in Nat
           /\ H[i] <= H[j] /\ B[i] <= B[j]
           /\ TurnsFrom(v, H, B, i) = TurnsFrom(v, H, B, j) + (H[j] - H[i]) + (B[j] - B[i])
           /\ H[j] \in Nat /\ B[j] \in Nat /\ H[i] \in Nat /\ B[i] \in Nat
  <1> DEFINE end == v.last + 1
  <1>1. /\ Prefixed(routes) /\ v \in Nodes(routes) /\ \A x \in Forks(routes, v) : sub[x] \in Code
        /\ Laid(sm, routes, v, sub, A, X, H, B) /\ v.first \in Nat /\ v.last \in Nat /\ v.first <= v.last
        /\ \A x \in v.first..v.last + 1 : H[x] \in Nat /\ B[x] \in Nat
    BY SiteIs
  <1>2. end \in v.first..v.last + 1 /\ i <= end /\ j <= end
    BY <1>1
  <1>3. H[i] \in Nat /\ B[i] \in Nat /\ H[j] \in Nat /\ B[j] \in Nat /\ H[end] \in Nat /\ B[end] \in Nat
    BY <1>1, <1>2
  <1>4. H[i] <= H[j] /\ B[i] <= B[j]
    BY <1>1, LaidInOrder
  <1>5. H[i] <= H[end] /\ B[i] <= B[end] /\ H[j] <= H[end] /\ B[j] <= B[end]
    BY <1>1, <1>2, LaidInOrder
  <1> HIDE DEF end
  <1>6. /\ TurnsFrom(v, H, B, i) = (H[end] - H[i]) + (B[end] - B[i]) + 1
        /\ TurnsFrom(v, H, B, j) = (H[end] - H[j]) + (B[end] - B[j]) + 1
    BY DEF TurnsFrom, end
  <1> QED
    BY <1>3, <1>4, <1>5, <1>6

\* At the jump behind the heads there is no route left.
LEMMA StopEnd ==
    ASSUME NEW sm, NEW routes, NEW path, NEW method, NEW run, NEW v, NEW sub, NEW A, NEW X, NEW H, NEW B,
           Site(sm, routes, path, method, run, v, sub, A, X, H, B)
    PROVE  Reaches(routes, path, method, run, v, H, B, X, v.last + 1)
  <1> DEFINE end == v.last + 1
             h == H[end]
  <1>1. /\ path \in Seq(Nat) /\ Running(sm, routes, path, method, run) /\ v.last \in Nat /\ X \in Addresses
        /\ h \in Nat /\ B[end] \in Nat
    <2>1. v.first \in Nat /\ v.last \in Nat /\ v.first <= v.last
      BY SiteIs
    <2>2. end \in v.first..v.last + 1
      BY <2>1
    <2> QED
      BY <2>1, <2>2, SiteIs
  <1>2. sm[h + 1] = IF X = -1 THEN Ins({"jumpOnMatch", "fail"}, <<>>, -1) ELSE Ins({"jumpOnMatch"}, <<>>, X)
    BY SiteIs DEF Laid
  <1>3. TurnsFrom(v, H, B, end) = 1
    <2> HIDE DEF h
    <2>1. TurnsFrom(v, H, B, end) = (h - h) + (B[end] - B[end]) + 1
      BY DEF TurnsFrom, h
    <2> HIDE DEF end
    <2> QED
      BY <1>1, <2>1
  <1> HIDE DEF h
  <1>4. SUFFICES ASSUME NEW k \in Nat, NEW p \in 0..Len(path), NEW M, Visits(run, k, h, p, M)
                 PROVE  Comes(routes, path, method, run, k, 1, end, v.last, M, X)
    BY <1>3 DEF Reaches, h
  <1>5. CASE X = -1
    <2>1. GivesUp(sm, h)
      BY <1>2, <1>5 DEF GivesUp
    <2>2. Answers(run, k + 1, NotFound(M))
      BY <1>1, <1>4, <2>1, RunFail
    <2> QED
      BY <1>1, <1>5, <2>2, ComesEnd
  <1>6. CASE X # -1
    <2> DEFINE none == <<>>
    <2>1. JumpsOn(sm, h, none, X)
      BY <1>2, <1>6 DEF JumpsOn
    <2>2. X \in Nat
      BY <1>1, <1>6 DEF Addresses
    <2>3. MatchesAt(none, path, p) /\ p + Len(none) = p /\ none \in Seq(Nat)
      BY <1>1, NothingMatches
    <2> HIDE DEF none
    <2>4. Visits(run, k + 1, X, p + Len(none), M)
      BY <1>1, <1>4, <2>1, <2>2, <2>3, RunJump
    <2>5. Visits(run, k + 1, X, p, M)
      BY <2>3, <2>4
    <2> QED
      BY <1>1, <1>6, <2>5, ComesEnd
  <1> QED
    BY <1>5, <1>6

\* A route of the node itself is tried, and then the ones behind it.
LEMMA StopOwn ==
    ASSUME NEW sm, NEW routes, NEW path, NEW method, NEW run, NEW v, NEW sub, NEW A, NEW X, NEW H, NEW B,
           Site(sm, routes, path, method, run, v, sub, A, X, H, B),
           NEW i \in Own(routes, v), Reaches(routes, path, method, run, v, H, B, X, i + 1)
    PROVE  Reaches(routes, path, method, run, v, H, B, X, i)
  <1> DEFINE h == H[i]
             t == TurnsFrom(v, H, B, i)
             u == TurnsFrom(v, H, B, i + 1)
             d == v.dp
             last == v.last
             r == routes[i].methods
  <1>1. /\ path \in Seq(Nat) /\ Running(sm, routes, path, method, run) /\ last \in Nat
        /\ d \in Nat /\ d \in 0..Len(path) /\ v.first \in Nat /\ i \in v.first..last
    BY SiteIs, InNode
  <1>2. i \in v.first..last + 1 /\ i + 1 \in v.first..last + 1 /\ i <= i + 1 /\ i \in Nat /\ i <= last
    BY <1>1
  <1>3. /\ t \in Nat /\ u \in Nat /\ h \in Nat /\ H[i + 1] \in Nat /\ B[i] \in Nat /\ B[i + 1] \in Nat
        /\ t = u + (H[i + 1] - h) + (B[i + 1] - B[i])
    BY <1>2, TurnsAre
  <1>4. /\ H[i + 1] = h + 2 /\ B[i + 1] = B[i]
        /\ SetsCursor(sm, h, d) /\ TriesRoute(sm, h + 1, i)
    <2>1. OwnLaid(sm, v, H, B, i)
      BY <1>1, SiteIs DEF Laid
    <2>2. (h + 1) + 1 = h + 2
      BY <1>3
    <2> QED
      BY <2>1, <2>2 DEF OwnLaid, SetsCursor, TriesRoute
  <1>5. t = u + 2
    <2> HIDE DEF t, u, h
    <2> QED
      BY <1>3, <1>4
  <1> HIDE DEF h, t, u, d, last, r
  <1>6. SUFFICES ASSUME NEW k \in Nat, NEW p \in 0..Len(path), NEW M, Visits(run, k, h, p, M)
                 PROVE  Comes(routes, path, method, run, k, t, i, last, M, X)
    BY DEF Reaches, h, t, last
  <1>7. Visits(run, k + 1, h + 1, d, M)
    BY <1>1, <1>3, <1>4, <1>6, RunCursor
  <1>8. k + 1 \in Nat /\ h + 1 \in Nat /\ (k + 1) + 1 = k + 2 /\ (h + 1) + 1 = H[i + 1] /\ k + 2 \in Nat
        /\ 2 \in 0..t /\ (i + 1) - 1 = i
    BY <1>2, <1>3, <1>4, <1>5
  <1>9. /\ ~Matches(routes[i].pattern, path) => Visits(run, k + 2, H[i + 1], d, M)
        /\ Matches(routes[i].pattern, path) /\ method \in routes[i].methods => Answers(run, k + 2, Found(i))
        /\ Matches(routes[i].pattern, path) /\ method \notin routes[i].methods =>
               Visits(run, k + 2, H[i + 1], d, M \cup routes[i].methods)
    <2> DEFINE a == k + 1
               g == h + 1
    <2>1. a \in Nat /\ g \in Nat /\ Visits(run, a, g, d, M) /\ TriesRoute(sm, g, i)
      BY <1>4, <1>7, <1>8
    <2> HIDE DEF a, g
    <2>2. /\ ~Matches(routes[i].pattern, path) => Visits(run, a + 1, g + 1, d, M)
          /\ Matches(routes[i].pattern, path) /\ method \in routes[i].methods => Answers(run, a + 1, Found(i))
          /\ Matches(routes[i].pattern, path) /\ method \notin routes[i].methods =>
                 Visits(run, a + 1, g + 1, d, M \cup routes[i].methods)
      BY <1>1, <1>2, <2>1, RunRoute
    <2>3. a + 1 = k + 2 /\ g + 1 = H[i + 1]
      BY <1>8 DEF a, g
    <2> QED
      BY <2>2, <2>3
  <1>10. \A N : Visits(run, k + 2, H[i + 1], d, N) => Comes(routes, path, method, run, k, t, i + 1, last, N, X)
    <2> SUFFICES ASSUME NEW N, Visits(run, k + 2, H[i + 1], d, N)
                 PROVE  Comes(routes, path, method, run, k, t, i + 1, last, N, X)
      OBVIOUS
    <2>1. Comes(routes, path, method, run, k + 2, u, i + 1, last, N, X)
      BY <1>1, <1>8 DEF Reaches, CursorAt, u, d, last
    <2>2. 2 + u <= t /\ i + 1 \in Nat
      BY <1>2, <1>3, <1>5
    <2> QED
      BY <1>1, <1>3, <2>1, <2>2, ComesLater
  <1>11. CASE ~Matches(routes[i].pattern, path)
    <2>1. Comes(routes, path, method, run, k, t, i + 1, last, M, X)
      BY <1>9, <1>10, <1>11
    <2>2. \A x \in i..(i + 1) - 1 : ~Matches(routes[x].pattern, path)
      BY <1>2, <1>11
    <2>3. i <= i + 1 /\ i + 1 <= last + 1 /\ i + 1 \in Nat
      BY <1>1, <1>2
    <2> QED
      BY <1>1, <1>2, <1>3, <2>1, <2>2, <2>3, ComesSkips
  <1>12. CASE Matches(routes[i].pattern, path) /\ method \notin routes[i].methods
    <2> DEFINE c == i + 1
               N == M \cup routes[i].methods
    <2>1. Comes(routes, path, method, run, k, t, c, last, N, X)
      BY <1>9, <1>10, <1>12
    <2>2. UsableIn(routes, path, method, i, c - 1) = {} /\ N = M \cup OfferedIn(routes, path, i, c - 1)
      BY <1>2, <1>8, <1>12, OnlyRoute
    <2>3. i <= c /\ c <= last + 1 /\ c \in Nat
      BY <1>1, <1>2
    <2> HIDE DEF c, N
    <2> QED
      BY <1>1, <1>2, <1>3, <2>1, <2>2, <2>3, ComesBehind
  <1>13. CASE Matches(routes[i].pattern, path) /\ method \in routes[i].methods
    <2> DEFINE c == i + 1
    <2>1. Answers(run, k + 2, Found(i))
      BY <1>9, <1>13
    <2>2. UsableIn(routes, path, method, i, c - 1) = {i}
      BY <1>2, <1>8, <1>13, OnlyRoute
    <2>3. i <= c /\ c <= last + 1 /\ c \in Nat /\ i <= i
      BY <1>1, <1>2
    <2> HIDE DEF c
    <2>4. i \in UsableIn(routes, path, method, i, c - 1) /\ \A j \in UsableIn(routes, path, method, i, c - 1) : i <= j
      BY <2>2, <2>3
    <2> QED
      BY <1>1, <1>2, <1>3, <1>8, <2>1, <2>3, <2>4, ComesFound
  <1> QED
    BY <1>11, <1>12, <1>13

\* What is known of a place where a child begins.
LEMMA ForkIs ==
    ASSUME NEW sm, NEW routes, NEW path, NEW method, NEW run, NEW v, NEW sub, NEW A, NEW X, NEW H, NEW B,
           Site(sm, routes, path, method, run, v, sub, A, X, H, B),
           NEW i \in Forks(routes, v),
           NEW q, q = PrefixOf(routes, i), NEW w, w = Child(routes, v, i), NEW c, c = ChildChunks(routes, v, i)
    PROVE  /\ i \in Nat /\ i \in v.first..v.last /\ i \in 1..Len(routes) /\ q \in Seq(Nat)
           /\ Agreed(path, q, v.dp)
           /\ w \in Nodes(routes) /\ w.first = i /\ w.last = LastOf(routes, v, i) /\ w.dp \in Nat
           /\ Cut(c, q, v.dp, w.dp)
           /\ i \notin Own(routes, v)
           /\ sub[i] \in Code /\ Works(sm, routes, path, method, run, w, sub[i])
           /\ ForkLaid(sm, routes, v, sub, H, B, i)
  <1>1. /\ Prefixed(routes) /\ v \in Nodes(routes) /\ v.dp \in Nat /\ Laid(sm, routes, v, sub, A, X, H, B)
        /\ v.first \in Nat /\ v.last \in Nat
    BY SiteIs
  <1>2. i \in v.first..v.last
    BY <1>1, InNode
  <1>3. i \in Nat /\ i \in 1..Len(routes) /\ q \in Seq(Nat) /\ i \notin Own(routes, v)
    BY <1>1, <1>2, NodeIs, ForksAre
  <1>4. /\ w \in Nodes(routes) /\ w.first = i /\ w.last = LastOf(routes, v, i)
    BY <1>1, ChildIs
  <1>5. w.dp \in Nat
    BY <1>1, <1>4, NodeIs
  <1>6. Cut(c, q, v.dp, w.dp)
    BY <1>1, ChildChunksAre
  <1>7. Agreed(path, q, v.dp)
    <2>1. \A x \in 1..v.dp : q[x] = PrefixOf(routes, v.first)[x]
      BY <1>1, <1>2, NodeIs
    <2>2. Agreed(path, PrefixOf(routes, v.first), v.dp)
      BY DEF Site
    <2> QED
      BY <2>1, <2>2 DEF Agreed
  <1>8. sub[i] \in Code /\ Works(sm, routes, path, method, run, w, sub[i])
    BY DEF Site
  <1>9. ForkLaid(sm, routes, v, sub, H, B, i)
    BY <1>1, <1>2 DEF Laid
  <1> QED
    BY <1>2, <1>3, <1>4, <1>5, <1>6, <1>7, <1>8, <1>9

\* The head of a child's segment looks for the first bytes of the child.
LEMMA ForkHead ==
    ASSUME NEW sm, NEW routes, NEW path, NEW method, NEW run, NEW v, NEW sub, NEW A, NEW X, NEW H, NEW B,
           Site(sm, routes, path, method, run, v, sub, A, X, H, B),
           NEW i \in Forks(routes, v), NEW q, q = PrefixOf(routes, i),
           NEW e, e = Edge(v.dp, Child(routes, v, i).dp, 1), NEW x, x = H[i + 1] - H[i],
           NEW k \in Nat, NEW p \in 0..Len(path), NEW M, Visits(run, k, H[i], p, M), CursorAt(routes, v, i, p)
    PROVE  /\ x \in Nat /\ e \in Nat
           /\ Agreed(path, q, e) => Visits(run, k + x, B[i], e, M)
           /\ ~Agreed(path, q, e) => Visits(run, k + x, H[i + 1], v.dp, M) /\ ~Agreed(path, q, Child(routes, v, i).dp)
  <1> DEFINE w == Child(routes, v, i)
             c == ChildChunks(routes, v, i)
             d == v.dp
             h == H[i]
             b == B[i]
             bs == c[1]
             to == w.dp
  <1>1. /\ path \in Seq(Nat) /\ Running(sm, routes, path, method, run) /\ d \in Nat /\ d \in 0..Len(path)
        /\ v.first \in Nat /\ v.last \in Nat
    BY SiteIs
  <1>2. /\ i \in Nat /\ i \in v.first..v.last /\ q \in Seq(Nat) /\ Agreed(path, q, d)
        /\ to \in Nat /\ Cut(c, q, d, to) /\ i \notin Own(routes, v)
        /\ ForkLaid(sm, routes, v, sub, H, B, i)
    BY ForkIs
  <1>3. h \in Nat /\ b \in Nat /\ H[i + 1] \in Nat
    <2>1. i \in v.first..v.last + 1 /\ i + 1 \in v.first..v.last + 1
      BY <1>1, <1>2
    <2> QED
      BY <2>1, SiteIs
  <1>4. 1 \in 1..Len(c) /\ Edge(d, to, 0) = d /\ bs \in Seq(Nat)
    <2>1. Len(c) \in Nat /\ 1 <= Len(c)
      BY <1>2 DEF Cut
    <2>2. 1 \in 1..Len(c)
      BY <2>1
    <2> HIDE DEF c
    <2> QED
      BY <1>2, <2>2 DEF Cut
  <1>5. e \in Nat /\ e <= to /\ d + Len(bs) = e /\ (MatchesAt(bs, path, d) <=> Agreed(path, q, e))
    <2> HIDE DEF c, to, d
    <2> DEFINE one == 1
    <2>1. /\ one \in 1..Len(c) /\ Agreed(path, q, Edge(d, to, one - 1)) /\ Edge(d, to, one - 1) = d
          /\ e = Edge(d, to, one)
      BY <1>2, <1>4 DEF d, to
    <2> HIDE DEF one
    <2>3. /\ path \in Seq(Nat) /\ q \in Seq(Nat) /\ d \in Nat /\ to \in Nat /\ Cut(c, q, d, to)
          /\ one \in 1..Len(c) /\ Agreed(path, q, Edge(d, to, one - 1))
      BY <1>1, <1>2, <2>1
    <2>2. /\ Edge(d, to, one) \in Nat /\ Edge(d, to, one) <= to
          /\ Edge(d, to, one - 1) + Len(c[one]) = Edge(d, to, one)
          /\ MatchesAt(c[one], path, Edge(d, to, one - 1)) <=> Agreed(path, q, Edge(d, to, one))
      BY ONLY <2>3, ChunkMatches
    <2> QED
      BY <2>1, <2>2 DEF one
  <1>6. /\ i = v.first => SetsCursor(sm, h, d) /\ x = 2 /\ H[i + 1] = h + 2 /\ JumpsOn(sm, h + 1, bs, b)
        /\ i # v.first => x = 1 /\ H[i + 1] = h + 1 /\ JumpsOn(sm, h, bs, b)
    <2> DEFINE first == IF i = v.first THEN 1 ELSE 0
    <2>1. /\ H[i + 1] = h + first + 1
          /\ i = v.first => sm[h + 1] = Ins({"setCursor"}, <<>>, d)
          /\ sm[h + first + 1] = Ins({"jumpOnMatch"}, bs, b)
      BY <1>2 DEF ForkLaid
    <2>2. CASE i = v.first
      <3>1. first = 1
        BY <2>2
      <3> HIDE DEF first, bs, h, b
      <3>2. H[i + 1] = h + 2 /\ x = 2 /\ h + first + 1 = (h + 1) + 1
        BY <1>3, <2>1, <3>1 DEF h
      <3> QED
        BY <2>1, <2>2, <3>2 DEF SetsCursor, JumpsOn
    <2>3. CASE i # v.first
      <3>1. first = 0
        BY <2>3
      <3> HIDE DEF first, bs, h, b
      <3>2. H[i + 1] = h + 1 /\ x = 1 /\ h + first + 1 = h + 1
        BY <1>3, <2>1, <3>1 DEF h
      <3> QED
        BY <2>1, <2>3, <3>2 DEF JumpsOn
    <2> QED
      BY <2>2, <2>3
  <1> DEFINE g == IF i = v.first THEN h + 1 ELSE h
             j == IF i = v.first THEN k + 1 ELSE k
  <1>7. /\ g \in Nat /\ j \in Nat /\ JumpsOn(sm, g, bs, b) /\ Visits(run, j, g, d, M)
        /\ g + 1 = H[i + 1] /\ j + 1 = k + x /\ x \in Nat
    <2> HIDE DEF h, b, bs, d
    <2>1. Visits(run, k, h, p, M)
      BY DEF h
    <2>2. CASE i = v.first
      <3>1. Visits(run, k + 1, h + 1, d, M)
        BY <1>1, <1>3, <1>6, <2>1, <2>2, RunCursor
      <3>2. (h + 1) + 1 = h + 2 /\ (k + 1) + 1 = k + 2
        BY <1>3
      <3> QED
        BY <1>3, <1>6, <2>2, <3>1, <3>2
    <2>3. CASE i # v.first
      <3>1. i # v.last + 1
        BY <1>1, <1>2
      <3>2. p = d
        BY <1>2, <2>3, <3>1 DEF CursorAt, d
      <3> QED
        BY <1>3, <1>6, <2>1, <2>3, <3>2
    <2> QED
      BY <2>2, <2>3
  <1> HIDE DEF g, j, h, b, bs, d, to, c, w
  <1>8. /\ MatchesAt(bs, path, d) => Visits(run, j + 1, b, d + Len(bs), M)
        /\ ~MatchesAt(bs, path, d) => Visits(run, j + 1, g + 1, d, M)
    BY <1>1, <1>3, <1>4, <1>7, RunJump
  <1>9. Agreed(path, q, e) => Visits(run, k + x, b, e, M)
    BY <1>5, <1>7, <1>8
  <1>10. ASSUME ~Agreed(path, q, e) PROVE Visits(run, k + x, H[i + 1], d, M) /\ ~Agreed(path, q, to)
    <2>1. Visits(run, k + x, H[i + 1], d, M)
      BY <1>5, <1>7, <1>8, <1>10
    <2>2. ~Agreed(path, q, to)
      BY <1>1, <1>2, <1>5, <1>10, AgreedLess
    <2> QED
      BY <2>1, <2>2
  <1> QED
    BY <1>5, <1>7, <1>9, <1>10 DEF b, d, to, w

\* The routes that another byte follows than the path has do not match.
LEMMA OthersPassed ==
    ASSUME NEW sm, NEW routes, NEW path, NEW method, NEW run, NEW v, NEW sub, NEW A, NEW X, NEW H, NEW B,
           Site(sm, routes, path, method, run, v, sub, A, X, H, B),
           NEW i \in Forks(routes, v), NEW q, q = PrefixOf(routes, i),
           path[v.dp + 1] = q[v.dp + 1]
    PROVE  \A x \in LastOf(routes, v, i) + 1..NextIn(Own(routes, v), i, v.last) - 1 :
               ~Matches(routes[x].pattern, path)
  <1> DEFINE a == LastOf(routes, v, i)
             j == NextIn(Own(routes, v), i, v.last)
  <1>1. /\ Prefixed(routes) /\ Ordered(routes) /\ Table(routes) /\ path \in Seq(Nat)
        /\ v \in Nodes(routes) /\ v.dp \in Nat /\ v.first \in Nat /\ v.last \in Nat
    BY SiteIs
  <1>2. /\ j \in Nat /\ j <= v.last + 1
        /\ \A x \in a + 1..j - 1 :
               /\ v.dp < Len(PrefixOf(routes, x))
               /\ PrefixOf(routes, x)[v.dp + 1] # PrefixOf(routes, i)[v.dp + 1]
    BY <1>1, GroupsApart
  <1>3. a \in Nat /\ i <= a /\ i \in v.first..v.last
    BY <1>1, GroupAgrees, InNode
  <1> HIDE DEF a, j
  <1>4. ASSUME NEW x \in a + 1..j - 1 PROVE ~Matches(routes[x].pattern, path)
    <2>1. x \in v.first..v.last
      BY <1>1, <1>2, <1>3
    <2>2. x \in 1..Len(routes)
      BY <1>1, <2>1, NodeIs
    <2>3. v.dp < Len(PrefixOf(routes, x)) /\ path[v.dp + 1] # PrefixOf(routes, x)[v.dp + 1]
      BY <1>2
    <2> QED
      BY <1>1, <2>2, <2>3, OtherByte
  <1> QED
    BY <1>4 DEF a, j

\* Where the segment of a child ends, and where the next begins.
LEMMA ForkOrder ==
    ASSUME NEW sm, NEW routes, NEW path, NEW method, NEW run, NEW v, NEW sub, NEW A, NEW X, NEW H, NEW B,
           Site(sm, routes, path, method, run, v, sub, A, X, H, B),
           NEW i \in Forks(routes, v), NEW g, g = LastOf(routes, v, i) + 1,
           NEW j, j = NextIn(Own(routes, v), i, v.last)
    PROVE  /\ i \in Nat /\ g \in Nat /\ j \in Nat /\ i < g /\ g <= j /\ j <= v.last + 1
           /\ j = v.last + 1 \/ j \in Own(routes, v)
           /\ H[i] \in Nat /\ H[i + 1] = H[g] /\ H[i] <= H[i + 1] /\ H[j] \in Nat /\ B[i] \in Nat
           /\ TurnsFrom(v, H, B, i) \in Nat /\ TurnsFrom(v, H, B, g) \in Nat /\ TurnsFrom(v, H, B, j) \in Nat
           /\ (H[i + 1] - H[i]) + TurnsFrom(v, H, B, g) <= TurnsFrom(v, H, B, i)
           /\ (H[i + 1] - H[i]) + (B[i + 1] - B[i]) + TurnsFrom(v, H, B, j) <= TurnsFrom(v, H, B, i)
           /\ (H[i + 1] - H[i]) + (B[i + 1] - B[i]) <= TurnsFrom(v, H, B, i)
           /\ B[i + 1] \in Nat /\ B[i] <= B[i + 1] /\ LastOf(routes, v, i) = g - 1
  <1>1. /\ Prefixed(routes) /\ Ordered(routes) /\ v \in Nodes(routes) /\ \A x \in Forks(routes, v) : sub[x] \in Code
        /\ Laid(sm, routes, v, sub, A, X, H, B) /\ v.first \in Nat /\ v.last \in Nat
    BY SiteIs
  <1>2. /\ LastOf(routes, v, i) \in Nat /\ i <= LastOf(routes, v, i) /\ LastOf(routes, v, i) <= v.last
        /\ \A k \in i + 1..LastOf(routes, v, i) : k \notin Own(routes, v) /\ k \notin Forks(routes, v)
    BY <1>1, GroupAgrees
  <1>3. j \in Nat /\ LastOf(routes, v, i) < j /\ j <= v.last + 1 /\ (j = v.last + 1 \/ j \in Own(routes, v))
    BY <1>1, GroupsApart
  <1>4. i \in v.first..v.last /\ i \in Nat
    BY <1>1, InNode
  <1>5. LastOf(routes, v, i) = g - 1 /\ g \in Nat /\ i < g /\ g <= j /\ i + 1 <= g /\ i + 1 <= j /\ i <= i + 1 /\ i + 1 \in Nat
    BY <1>2, <1>3, <1>4
  <1>6. i \in v.first..v.last + 1 /\ i + 1 \in v.first..v.last + 1 /\ g \in v.first..v.last + 1 /\ j \in v.first..v.last + 1
    BY <1>1, <1>2, <1>3, <1>4, <1>5
  <1>7. \A k \in i + 1..g - 1 : k \notin Own(routes, v) /\ k \notin Forks(routes, v)
    BY <1>2
  <1> DEFINE y == i + 1
             a == TurnsFrom(v, H, B, i)
             b == TurnsFrom(v, H, B, y)
             c == TurnsFrom(v, H, B, g)
             d == TurnsFrom(v, H, B, j)
  <1>8. y \in v.first..v.last + 1 /\ i <= y /\ y <= g /\ y <= j /\ g <= j
    BY <1>5, <1>6
  <1>9. H[y] = H[g] /\ B[y] = B[g]
    <2>1. \A k \in y..g - 1 : k \notin Own(routes, v) /\ k \notin Forks(routes, v)
      BY <1>7
    <2> HIDE DEF y
    <2> QED
      BY <1>1, <1>6, <1>8, <2>1, LaidInOrder
  <1> HIDE DEF y
  <1>10. /\ a \in Nat /\ b \in Nat /\ a = b + (H[y] - H[i]) + (B[y] - B[i]) /\ H[i] <= H[y] /\ B[i] <= B[y]
         /\ H[i] \in Nat /\ B[i] \in Nat /\ H[y] \in Nat /\ B[y] \in Nat
    BY <1>6, <1>8, TurnsAre
  <1>11. c \in Nat /\ b = c + (H[g] - H[y]) + (B[g] - B[y])
    BY <1>6, <1>8, TurnsAre
  <1>12. /\ d \in Nat /\ b = d + (H[j] - H[y]) + (B[j] - B[y]) /\ H[y] <= H[j] /\ B[y] <= B[j]
         /\ H[j] \in Nat /\ B[j] \in Nat
    BY <1>6, <1>8, TurnsAre
  <1> HIDE DEF a, b, c, d
  <1>13. /\ (H[y] - H[i]) + c <= a
         /\ (H[y] - H[i]) + (B[y] - B[i]) + d <= a
         /\ (H[y] - H[i]) + (B[y] - B[i]) <= a
    BY <1>9, <1>10, <1>11, <1>12
  <1> QED
    BY <1>3, <1>4, <1>5, <1>9, <1>10, <1>11, <1>12, <1>13 DEF y, a, c, d

\* A child is looked for, and then the routes behind it or behind its segment.
LEMMA StopFork ==
    ASSUME NEW sm, NEW routes, NEW path, NEW method, NEW run, NEW v, NEW sub, NEW A, NEW X, NEW H, NEW B,
           Site(sm, routes, path, method, run, v, sub, A, X, H, B),
           NEW i \in Forks(routes, v),
           Reaches(routes, path, method, run, v, H, B, X, LastOf(routes, v, i) + 1),
           Reaches(routes, path, method, run, v, H, B, X, NextIn(Own(routes, v), i, v.last))
    PROVE  Reaches(routes, path, method, run, v, H, B, X, i)
  <1> DEFINE w == Child(routes, v, i)
             c == ChildChunks(routes, v, i)
             q == PrefixOf(routes, i)
             n == Len(c) - 1
             d == v.dp
             to == w.dp
             e == Edge(d, to, 1)
             last == v.last
             g == LastOf(routes, v, i) + 1
             j == NextIn(Own(routes, v), i, v.last)
             x == H[i + 1] - H[i]
             b == B[i]
             z == Len(sub[i])
             t == TurnsFrom(v, H, B, i)
             tg == TurnsFrom(v, H, B, g)
             tj == TurnsFrom(v, H, B, j)
  <1>1. /\ Table(routes) /\ path \in Seq(Nat) /\ Running(sm, routes, path, method, run)
        /\ d \in Nat /\ d \in 0..Len(path) /\ last \in Nat
    BY SiteIs
  <1>2. /\ q \in Seq(Nat) /\ Agreed(path, q, d) /\ w \in Nodes(routes) /\ w.first = i /\ w.last = LastOf(routes, v, i)
        /\ to \in Nat /\ Cut(c, q, d, to) /\ sub[i] \in Code /\ Works(sm, routes, path, method, run, w, sub[i])
        /\ d < to
    <2>1. Prefixed(routes) /\ v \in Nodes(routes)
      BY SiteIs
    <2> QED
      BY <2>1, ForkIs, ChildIs
  <1>3. /\ i \in Nat /\ g \in Nat /\ j \in Nat /\ i < g /\ g <= j /\ j <= last + 1
        /\ (j = last + 1 \/ j \in Own(routes, v)) /\ LastOf(routes, v, i) = g - 1
        /\ H[i + 1] = H[g] /\ H[j] \in Nat /\ b \in Nat
        /\ t \in Nat /\ tg \in Nat /\ tj \in Nat
        /\ x + tg <= t /\ x + (B[i + 1] - b) + tj <= t
    BY ForkOrder
  <1>4. /\ n \in Nat /\ z \in Nat /\ B[i + 1] = b + n + z
        /\ \A k \in 1..n : sm[b + k] = Ins({}, c[k + 1], H[j])
        /\ Stands(sm, b + n, H[j], sub[i])
    <2>1. Len(c) \in Nat /\ 1 <= Len(c)
      BY <1>2 DEF Cut
    <2>2. n \in Nat
      <3> HIDE DEF c
      <3> QED
        BY <2>1
    <2>3. z \in Nat
      BY <1>2 DEF Code
    <2> QED
      BY <2>2, <2>3, ForkIs DEF ForkLaid
  <1>5. ASSUME NEW k \in Nat, NEW p \in 0..Len(path), NEW M, Visits(run, k, H[i], p, M), CursorAt(routes, v, i, p)
        PROVE  /\ x \in Nat /\ e \in Nat
               /\ Agreed(path, q, e) => Visits(run, k + x, b, e, M)
               /\ ~Agreed(path, q, e) => Visits(run, k + x, H[i + 1], d, M) /\ ~Agreed(path, q, to)
    BY <1>5, ForkHead
  <1>6. ~Agreed(path, q, to) => \A y \in i..g - 1 : ~Matches(routes[y].pattern, path)
    BY <1>1, <1>2, <1>3, OtherNode
  <1>7. Agreed(path, q, e) => \A y \in g..j - 1 : ~Matches(routes[y].pattern, path)
    <2> SUFFICES ASSUME Agreed(path, q, e) PROVE \A y \in g..j - 1 : ~Matches(routes[y].pattern, path)
      OBVIOUS
    <2>1. d < e /\ e \in Nat
      <3> HIDE DEF d, to
      <3> QED
        BY <1>1, <1>2 DEF Edge
    <2>2. d + 1 \in 1..e
      BY <1>1, <2>1
    <2>3. path[d + 1] = q[d + 1]
      BY <2>2 DEF Agreed
    <2> QED
      BY <2>3, OthersPassed
  <1>8. ASSUME NEW k \in Nat, NEW M, Visits(run, k, b, e, M), Agreed(path, q, e)
        PROVE  \E m \in 0..n :
                   \/ Visits(run, k + m, b + n, to, M) /\ Agreed(path, q, to)
                   \/ ~Agreed(path, q, to) /\ \E p \in 0..Len(path) : Visits(run, k + m, H[j], p, M)
    <2> DEFINE out == H[j]
    <2>1. out \in Nat /\ Continued(sm, c, b, out)
      BY <1>3, <1>4 DEF Continued
    <2> HIDE DEF out, b, c, q, d, to
    <2>2. \E m \in 0..n :
              \/ Visits(run, k + m, b + n, to, M) /\ Agreed(path, q, to)
              \/ ~Agreed(path, q, to) /\ \E p \in 0..Len(path) : Visits(run, k + m, out, p, M)
      BY <1>1, <1>2, <1>3, <1>8, <2>1, ChunksRun
    <2> QED
      BY <2>2 DEF out
  <1>9. ASSUME NEW k \in Nat, NEW M, Visits(run, k, b + n, to, M), Agreed(path, q, to)
        PROVE  Comes(routes, path, method, run, k, z, i, g - 1, M, H[j])
    <2>1. b + n \in Nat /\ H[j] \in Addresses
      BY <1>3, <1>4 DEF Addresses
    <2>2. to <= Len(path) /\ to \in 0..Len(path)
      BY <1>1, <1>2, <1>9 DEF Agreed
    <2>3. Agreed(path, PrefixOf(routes, w.first), w.dp)
      BY <1>2, <1>9
    <2>4. w.first = i /\ w.last = g - 1
      BY <1>2, <1>3
    <2> DEFINE at == b + n
               out == H[j]
               code == sub[i]
    <2>5. Stands(sm, at, out, code) /\ Visits(run, k, at, to, M) /\ at \in Nat /\ out \in Addresses
      BY <1>4, <1>9, <2>1
    <2>6. Works(sm, routes, path, method, run, w, code)
      BY <1>2
    <2> HIDE DEF at, out, w, code, b, to
    <2>7. Comes(routes, path, method, run, k, Len(code), w.first, w.last, M, out)
      BY <2>2, <2>3, <2>5, <2>6 DEF Works
    <2> QED
      BY <2>4, <2>7 DEF out, code
  <1>10. ASSUME NEW k \in Nat, NEW M, Visits(run, k, H[g], d, M)
         PROVE  Comes(routes, path, method, run, k, tg, g, last, M, X)
    BY <1>1, <1>10 DEF Reaches, CursorAt
  <1>11. ASSUME NEW k \in Nat, NEW p \in 0..Len(path), NEW M, Visits(run, k, H[j], p, M)
         PROVE  Comes(routes, path, method, run, k, tj, j, last, M, X)
    BY <1>3, <1>11 DEF Reaches, CursorAt
  <1> HIDE DEF w, c, q, n, d, to, e, last, g, j, x, b, z, t, tg, tj
  <1>12. SUFFICES ASSUME NEW k \in Nat, NEW p \in 0..Len(path), NEW M, Visits(run, k, H[i], p, M), CursorAt(routes, v, i, p)
                  PROVE  Comes(routes, path, method, run, k, t, i, last, M, X)
    BY DEF Reaches, t, last
  <1>13. /\ x \in Nat /\ e \in Nat /\ k + x \in Nat
         /\ Agreed(path, q, e) => Visits(run, k + x, b, e, M)
         /\ ~Agreed(path, q, e) => Visits(run, k + x, H[i + 1], d, M) /\ ~Agreed(path, q, to)
    BY <1>5, <1>12
  <1>14. /\ x + n + z + tj <= t /\ i <= g /\ i <= j /\ g <= last + 1
    BY <1>1, <1>3, <1>4, <1>13
  <1>15. CASE ~Agreed(path, q, e)
    <2>1. Comes(routes, path, method, run, k + x, tg, g, last, M, X)
      BY <1>3, <1>10, <1>13, <1>15
    <2>2. Comes(routes, path, method, run, k, t, g, last, M, X)
      BY <1>1, <1>3, <1>13, <2>1, ComesLater
    <2>3. \A y \in i..g - 1 : ~Matches(routes[y].pattern, path)
      BY <1>6, <1>13, <1>15
    <2> QED
      BY <1>1, <1>3, <1>14, <2>2, <2>3, ComesSkips
  <1>16. CASE Agreed(path, q, e)
    <2> DEFINE l == k + x
    <2>1. l \in Nat /\ Visits(run, l, b, e, M)
      BY <1>13, <1>16
    <2> HIDE DEF l
    <2>2. PICK m \in 0..n :
              \/ Visits(run, l + m, b + n, to, M) /\ Agreed(path, q, to)
              \/ ~Agreed(path, q, to) /\ \E y \in 0..Len(path) : Visits(run, l + m, H[j], y, M)
      BY <1>8, <1>16, <2>1
    <2> DEFINE r == l + m
    <2>3. m \in Nat /\ m <= n /\ r \in Nat /\ x + m \in Nat /\ r = k + (x + m)
      BY <1>4, <1>13, <2>1 DEF l
    <2> HIDE DEF r
    <2>4. CASE ~Agreed(path, q, to) /\ \E y \in 0..Len(path) : Visits(run, r, H[j], y, M)
      <3>1. Comes(routes, path, method, run, r, tj, j, last, M, X)
        BY <1>11, <2>3, <2>4
      <3>2. (x + m) + tj <= t
        BY <1>3, <1>4, <1>13, <1>14, <2>3
      <3>3. Comes(routes, path, method, run, k + (x + m), tj, j, last, M, X)
        BY <2>3, <3>1
      <3>4. Comes(routes, path, method, run, k, t, j, last, M, X)
        BY <1>1, <1>3, <2>3, <3>2, <3>3, ComesLater
      <3>5. \A y \in i..j - 1 : ~Matches(routes[y].pattern, path)
        <4>1. \A y \in i..j - 1 : y \in i..g - 1 \/ y \in g..j - 1
          BY <1>3
        <4> QED
          BY <1>6, <1>7, <1>16, <2>4, <4>1
      <3> QED
        BY <1>1, <1>3, <1>14, <3>4, <3>5, ComesSkips
    <2>5. CASE Visits(run, r, b + n, to, M) /\ Agreed(path, q, to)
      <3>1. Comes(routes, path, method, run, r, z, i, g - 1, M, H[j])
        BY <1>9, <2>3, <2>5
      <3>2. PICK f \in 0..z : Outcome(routes, path, method, run[r + f], i, g - 1, M, H[j])
        BY <3>1 DEF Comes
      <3> DEFINE y == x + m + f
                 usable == UsableIn(routes, path, method, i, g - 1)
                 N == M \cup OfferedIn(routes, path, i, g - 1)
      <3>3. y \in Nat /\ r + f = k + y /\ k + y \in Nat /\ y + tj <= t /\ y \in 0..t
        BY <1>3, <1>4, <1>13, <1>14, <2>3
      <3>8. usable = UsableIn(routes, path, method, i, g - 1) /\ N = M \cup OfferedIn(routes, path, i, g - 1)
        OBVIOUS
      <3> HIDE DEF y, N, usable
      <3>4. H[j] # -1
        BY <1>3
      <3>5. \/ \E h \in usable : (\A a \in usable : h <= a) /\ Answers(run, k + y, Found(h))
            \/ usable = {} /\ \E a \in 0..Len(path) : Visits(run, k + y, H[j], a, N)
        BY <3>2, <3>3, <3>4 DEF Outcome, usable, N, Answers, Visits
      <3>6. ASSUME NEW h \in usable, \A a \in usable : h <= a, Answers(run, k + y, Found(h))
            PROVE  Comes(routes, path, method, run, k, t, i, last, M, X)
        BY <1>1, <1>3, <1>14, <3>3, <3>6, ComesFound DEF usable
      <3>7. ASSUME usable = {}, NEW a \in 0..Len(path), Visits(run, k + y, H[j], a, N)
            PROVE  Comes(routes, path, method, run, k, t, i, last, M, X)
        <4>1. Comes(routes, path, method, run, k + y, tj, j, last, N, X)
          BY <1>11, <3>3, <3>7
        <4>2. Comes(routes, path, method, run, k, t, j, last, N, X)
          BY <1>1, <1>3, <3>3, <4>1, ComesLater
        <4>3. Comes(routes, path, method, run, k, t, g, last, N, X)
          BY <1>1, <1>3, <1>7, <1>16, <4>2, ComesSkips
        <4>4. UsableIn(routes, path, method, i, g - 1) = {} /\ N = M \cup OfferedIn(routes, path, i, g - 1)
          BY <3>7, <3>8
        <4>5. i \in Nat /\ g \in Nat /\ last \in Nat /\ t \in Nat /\ i <= g /\ g <= last + 1
          BY <1>1, <1>3, <1>14
        <4> QED
          BY <4>3, <4>4, <4>5, ComesBehind
      <3> QED
        BY <3>5, <3>6, <3>7
    <2> QED
      BY <2>2, <2>4, <2>5 DEF r
  <1> QED
    BY <1>15, <1>16

\* Where the machine may pass in the heads of a node.
IsStop(routes, v, i) == i = v.last + 1 \/ i \in Own(routes, v) \/ i \in Forks(routes, v)

\* The machine comes through with the routes of a node from everywhere in its heads.
LEMMA AllStops ==
    ASSUME NEW sm, NEW routes, NEW path, NEW method, NEW run, NEW v, NEW sub, NEW A, NEW X, NEW H, NEW B,
           Site(sm, routes, path, method, run, v, sub, A, X, H, B),
           NEW i \in v.first..v.last + 1, IsStop(routes, v, i)
    PROVE  Reaches(routes, path, method, run, v, H, B, X, i)
  <1> DEFINE end == v.last + 1
             first == v.first
             R(x) == Reaches(routes, path, method, run, v, H, B, X, x)
             S(x) == IsStop(routes, v, x)
             good == {n \in Nat : \A x \in first..end : end - x <= n /\ S(x) => R(x)}
  <1>1. first \in Nat /\ end \in Nat /\ Prefixed(routes) /\ v \in Nodes(routes) /\ v.last \in Nat /\ end = v.last + 1
    BY SiteIs
  <1>2. R(end)
    BY StopEnd
  <1>3. \A x \in Own(routes, v) : x \in first..v.last /\ S(x + 1) /\ (R(x + 1) => R(x))
    <2> SUFFICES ASSUME NEW x \in Own(routes, v) PROVE x \in first..v.last /\ S(x + 1) /\ (R(x + 1) => R(x))
      OBVIOUS
    <2>1. R(x + 1) => R(x)
      BY StopOwn
    <2>2. x \in first..v.last
      BY InNode
    <2> DEFINE y == x + 1
    <2>3. y = v.last + 1 \/ y \in first..v.last
      BY <1>1, <2>2
    <2>4. y - 1 = x
      BY <1>1, <2>2
    <2> HIDE DEF y
    <2>5. ASSUME y \in first..v.last, y \notin Own(routes, v) PROVE y \in Forks(routes, v)
      BY <1>1, <2>4, <2>5, ForksAre
    <2>6. S(y)
      BY <2>3, <2>5 DEF IsStop
    <2> QED
      BY <2>1, <2>2, <2>6 DEF y
  <1>4. \A x \in Forks(routes, v) : \E g \in first..end, j \in first..end :
            x \in Nat /\ x < g /\ x < j /\ S(g) /\ S(j) /\ (R(g) /\ R(j) => R(x))
    <2> SUFFICES ASSUME NEW x \in Forks(routes, v)
                 PROVE  \E g \in first..end, j \in first..end :
                            x \in Nat /\ x < g /\ x < j /\ S(g) /\ S(j) /\ (R(g) /\ R(j) => R(x))
      OBVIOUS
    <2> DEFINE g == LastOf(routes, v, x) + 1
               j == NextIn(Own(routes, v), x, v.last)
    <2>1. R(g) /\ R(j) => R(x)
      BY StopFork
    <2>2. x \in Nat /\ x < g /\ g <= j /\ j <= v.last + 1 /\ (j = v.last + 1 \/ j \in Own(routes, v)) /\ g \in Nat /\ j \in Nat
      BY ForkOrder
    <2>3. S(j)
      BY <2>2 DEF IsStop
    <2>4. S(g)
      BY <1>1, GroupAgrees DEF IsStop
    <2>5. x \in first..v.last
      BY InNode
    <2> HIDE DEF g, j, R, S
    <2>6. g \in first..end /\ j \in first..end /\ x < j
      BY <1>1, <2>2, <2>5
    <2> QED
      BY <2>1, <2>2, <2>3, <2>4, <2>6
  <1>5. \A x : S(x) <=> x = end \/ x \in Own(routes, v) \/ x \in Forks(routes, v)
    BY DEF IsStop
  <1> HIDE DEF R, S, end, first
  <1>6. 0 \in good
    <2> SUFFICES ASSUME NEW x \in first..end, end - x <= 0, S(x) PROVE R(x)
      BY DEF good
    <2>1. x = end
      BY <1>1
    <2> QED
      BY <1>2, <2>1
  <1>7. ASSUME NEW n \in good PROVE n + 1 \in good
    <2>1. n \in Nat /\ \A x \in first..end : end - x <= n /\ S(x) => R(x)
      OBVIOUS
    <2>2. SUFFICES ASSUME NEW x \in first..end, end - x <= n + 1, S(x) PROVE R(x)
      BY <2>1
    <2>3. CASE x = end
      BY <1>2, <2>3
    <2>4. CASE x \in Own(routes, v)
      <3>1. x + 1 \in first..end /\ end - (x + 1) <= n
        BY <1>1, <1>3, <2>1, <2>2, <2>4
      <3> QED
        BY <1>3, <2>1, <2>4, <3>1
    <2>5. CASE x \in Forks(routes, v)
      <3>1. PICK g \in first..end, j \in first..end :
                x \in Nat /\ x < g /\ x < j /\ S(g) /\ S(j) /\ (R(g) /\ R(j) => R(x))
        BY <1>4, <2>5
      <3>2. end - g <= n /\ end - j <= n
        BY <1>1, <2>1, <2>2, <3>1
      <3> QED
        BY <2>1, <3>1, <3>2
    <2> QED
      BY <1>5, <2>2, <2>3, <2>4, <2>5
  <1>8. end - i \in Nat /\ i \in first..end /\ S(i) /\ end - i <= end - i
    BY <1>1 DEF end, first, S
  <1>9. end - i \in good
    <2>1. good \in SUBSET Nat
      BY DEF good
    <2> HIDE DEF good
    <2> QED
      BY <1>6, <1>7, <1>8, <2>1, EveryNumber
  <1>10. R(i)
    BY <1>8, <1>9 DEF good
  <1> QED
    BY <1>10 DEF R

\* The code of a node works if that of its children does.
LEMMA NodeWorks ==
    ASSUME NEW sm, NEW routes, NEW path, NEW method, NEW run, Machine(sm, routes, path, method, run),
           NEW code, Compiled(routes, code), NEW v \in Nodes(routes),
           \A i \in Forks(routes, v) :
               Works(sm, routes, path, method, run, Child(routes, v, i), code[Child(routes, v, i)])
    PROVE  Works(sm, routes, path, method, run, v, code[v])
  <1> DEFINE sub == SubCode(routes, v, code)
             c == code[v]
  <1>1. Prefixed(routes) /\ path \in Seq(Nat) /\ sm \in Code
    BY DEF Machine, Table
  <1>2. c = encode(routes, v, sub) /\ c \in Code
    BY DEF Compiled
  <1>3. \A i \in Forks(routes, v) : sub[i] \in Code /\ Works(sm, routes, path, method, run, Child(routes, v, i), sub[i])
    <2> SUFFICES ASSUME NEW i \in Forks(routes, v)
                 PROVE  sub[i] \in Code /\ Works(sm, routes, path, method, run, Child(routes, v, i), sub[i])
      OBVIOUS
    <2>1. sub[i] = code[Child(routes, v, i)]
      BY DEF SubCode
    <2>2. Child(routes, v, i) \in Nodes(routes)
      BY <1>1, ChildIs
    <2>3. code[Child(routes, v, i)] \in Code
      BY <2>2 DEF Compiled
    <2> QED
      BY <2>1, <2>3
  <1>4. v.first \in Nat /\ v.last \in Nat /\ v.first <= v.last
    BY <1>1, NodeIs
  <1>5. IsStop(routes, v, v.first) /\ v.first \in v.first..v.last + 1
    <2>1. v.first \in v.first..v.last
      BY <1>4
    <2>2. v.first \in Own(routes, v) \/ v.first \in Forks(routes, v)
      BY <1>1, <2>1, ForksAre
    <2> QED
      BY <1>4, <2>2 DEF IsStop
  <1> HIDE DEF sub, c
  <1> SUFFICES ASSUME NEW A \in Nat, NEW X \in Addresses, NEW k \in Nat, NEW p \in 0..Len(path), NEW M,
                      Stands(sm, A, X, c), Visits(run, k, A, p, M), Agreed(path, PrefixOf(routes, v.first), v.dp)
               PROVE  Comes(routes, path, method, run, k, Len(c), v.first, v.last, M, X)
    BY DEF Works, c
  <1>6. PICK H, B : Laid(sm, routes, v, sub, A, X, H, B)
    <2>1. Stands(sm, A, X, encode(routes, v, sub)) /\ \A i \in Forks(routes, v) : sub[i] \in Code
      BY <1>2, <1>3
    <2> QED
      BY <1>1, <2>1, NodeIsLaid
  <1>7. Site(sm, routes, path, method, run, v, sub, A, X, H, B)
    BY <1>3, <1>6 DEF Site
  <1>8. Reaches(routes, path, method, run, v, H, B, X, v.first)
    BY <1>5, <1>7, AllStops
  <1>9. TurnsFrom(v, H, B, v.first) = Len(c) /\ H[v.first] = A
    <2> DEFINE end == v.last + 1
    <2>1. /\ H[v.first] = A /\ B[v.first] = H[end] + 1 /\ B[end] = A + Len(c)
          /\ H[end] \in Nat
      <3>1. end \in v.first..v.last + 1
        BY <1>4
      <3> QED
        BY <1>2, <1>6, <3>1 DEF Laid
    <2>2. Len(c) \in Nat
      BY <1>2 DEF Code
    <2>3. TurnsFrom(v, H, B, v.first) = (H[end] - H[v.first]) + (B[end] - B[v.first]) + 1
      BY DEF TurnsFrom
    <2> HIDE DEF end
    <2> QED
      BY <2>1, <2>2, <2>3
  <1> QED
    BY <1>8, <1>9 DEF Reaches, CursorAt

\* The code of every node works.
LEMMA AllNodesWork ==
    ASSUME NEW sm, NEW routes, NEW path, NEW method, NEW run, Machine(sm, routes, path, method, run),
           NEW code, Compiled(routes, code)
    PROVE  \A v \in Nodes(routes) : Works(sm, routes, path, method, run, v, code[v])
  <1> DEFINE W(v) == Works(sm, routes, path, method, run, v, code[v])
  <1>1. Prefixed(routes)
    BY DEF Machine, Table
  <1>2. PICK D \in Nat : \A v \in Nodes(routes) : v.dp <= D
    BY <1>1, LengthsBounded
  <1> DEFINE good == {n \in Nat : \A v \in Nodes(routes) : D - v.dp <= n => W(v)}
  <1>3. \A v \in Nodes(routes) : (\A i \in Forks(routes, v) : W(Child(routes, v, i))) => W(v)
    BY NodeWorks
  <1>4. \A v \in Nodes(routes) : v.dp \in Nat /\ v.dp <= D
    BY <1>1, <1>2, NodeIs
  <1>5. \A v \in Nodes(routes) : \A i \in Forks(routes, v) :
            Child(routes, v, i) \in Nodes(routes) /\ v.dp < Child(routes, v, i).dp
    BY <1>1, ChildIs
  <1> HIDE DEF W
  <1>6. 0 \in good
    <2> SUFFICES ASSUME NEW v \in Nodes(routes), D - v.dp <= 0 PROVE W(v)
      BY DEF good
    <2>1. \A i \in Forks(routes, v) : FALSE
      BY <1>4, <1>5
    <2> QED
      BY <1>3, <2>1
  <1>7. ASSUME NEW n \in good PROVE n + 1 \in good
    <2>1. n \in Nat /\ \A v \in Nodes(routes) : D - v.dp <= n => W(v)
      OBVIOUS
    <2>2. SUFFICES ASSUME NEW v \in Nodes(routes), D - v.dp <= n + 1 PROVE W(v)
      BY <2>1
    <2>3. ASSUME NEW i \in Forks(routes, v) PROVE W(Child(routes, v, i))
      <3> DEFINE w == Child(routes, v, i)
      <3>1. w \in Nodes(routes) /\ v.dp < w.dp
        BY <1>5
      <3> HIDE DEF w
      <3>2. D - w.dp <= n
        BY <1>4, <2>1, <2>2, <3>1
      <3>3. W(w)
        BY <2>1, <3>1, <3>2
      <3> QED
        BY <3>3 DEF w
    <2> QED
      BY <1>3, <2>3
  <1>8. ASSUME NEW v \in Nodes(routes) PROVE W(v)
    <2>1. D - v.dp \in Nat /\ D - v.dp <= D - v.dp
      BY <1>4
    <2>2. good \in SUBSET Nat
      BY DEF good
    <2>3. D - v.dp \in good
      <3> HIDE DEF good
      <3> QED
        BY <1>6, <1>7, <2>1, <2>2, EveryNumber
    <2> QED
      BY <2>1, <2>3 DEF good
  <1> QED
    BY <1>8 DEF W

\* Code that stands alone stands where it is.
LEMMA StandsAlone ==
    ASSUME NEW c \in Code, NEW sm, sm = Marked(c)
    PROVE  sm \in Code /\ Len(sm) = Len(c) /\ Stands(sm, 0, -1, c)
  <1> DEFINE none == -1
             d == Move(c, 0, none)
  <1>1. sm \in Code /\ Len(sm) = Len(c) /\ \A j \in 1..Len(c) : sm[j] = Mark(c[j])
    BY MarkedIs
  <1>2. none \in Addresses /\ Len(c) \in Nat
    BY DEF Addresses, Code
  <1> HIDE DEF none
  <1>3. d \in Code /\ Len(d) = Len(c) /\ \A j \in 1..Len(c) : d[j] = Moved(c[j], 0, none)
    BY <1>2, MoveIs
  <1>4. ASSUME NEW j \in 1..Len(c) PROVE d[j] = c[j]
    <2> DEFINE ins == c[j]
    <2>1. ins \in Instructions
      BY DEF Code
    <2> HIDE DEF ins
    <2>2. Moved(ins, 0, none) = IF Jumps(ins) THEN [mode |-> ins.mode, bs |-> ins.bs, i |-> Beyond(ins.i, 0, none)]
                                ELSE ins
      BY <1>2, <2>1, MovedIs
    <2>3. Beyond(ins.i, 0, none) = ins.i
      BY <2>1 DEF Beyond, Instructions, Addresses, none
    <2>4. ins = [mode |-> ins.mode, bs |-> ins.bs, i |-> ins.i]
      BY <2>1 DEF Instructions
    <2>5. Moved(ins, 0, none) = ins
      BY <2>2, <2>3, <2>4
    <2> QED
      BY <1>3, <2>5 DEF ins
  <1> HIDE DEF d
  <1>5. Len(Marked(d)) = Len(d) /\ \A j \in 1..Len(d) : Marked(d)[j] = Mark(d[j])
    BY <1>3, MarkedIs
  <1>6. Part(sm, 0, Marked(d))
    <2>1. \A j \in 1..Len(Marked(d)) : sm[0 + j] = Marked(d)[j]
      BY <1>1, <1>2, <1>3, <1>4, <1>5
    <2>2. 0 + Len(Marked(d)) <= Len(sm)
      BY <1>1, <1>2, <1>3, <1>5
    <2> QED
      BY <2>1, <2>2 DEF Part
  <1> QED
    BY <1>1, <1>6 DEF Stands, d, none

\* The root of the trie.
LEMMA RootIs ==
    ASSUME NEW routes, Prefixed(routes), Len(routes) # 0, NEW code, Compiled(routes, code),
           NEW v, v = TrieNode(1, Len(routes), 0)
    PROVE  /\ v \in Nodes(routes) /\ v.first = 1 /\ v.last = Len(routes) /\ v.dp = 0
           /\ code[v] \in Code /\ Len(code[v]) \in Nat /\ Len(code[v]) # 0
  <1>1. Len(routes) \in Nat /\ \A i \in 1..Len(routes) : PrefixOf(routes, i) \in Seq(Nat)
    BY DEF Prefixed
  <1>2. v.first = 1 /\ v.last = Len(routes) /\ v.dp = 0
    BY DEF TrieNode
  <1>3. Agree(routes, v)
    <2>1. \A i \in 1..Len(routes) : 0 <= Len(PrefixOf(routes, i))
      BY <1>1
    <2> QED
      BY <1>2, <2>1 DEF Agree
  <1>4. v \in Nodes(routes)
    BY <1>1, <1>3, IsNode
  <1> DEFINE sub == SubCode(routes, v, code)
  <1>5. code[v] = encode(routes, v, sub) /\ code[v] \in Code
    BY <1>4 DEF Compiled
  <1>6. \A i \in Forks(routes, v) : sub[i] \in Code
    <2>1. \A i \in Forks(routes, v) : Child(routes, v, i) \in Nodes(routes)
      BY <1>4, ChildIs
    <2> QED
      BY <2>1 DEF Compiled, SubCode
  <1> HIDE DEF sub
  <1> DEFINE base == Base(routes, v, sub)
             place == Place(routes, v, sub, Size(v) + 1)
             head == HeadAt(routes, v, sub, Size(v))
  <1>7. Len(code[v]) = base + place /\ place \in Nat
    BY <1>4, <1>5, <1>6, EncodeIs
  <1>8. head \in Nat
    <2>1. Size(v) \in Nat /\ \A k \in 0..Size(v) : HeadAt(routes, v, sub, k) \in Nat
      BY <1>4, <1>6, PiecesAre
    <2>2. Size(v) \in 0..Size(v)
      BY <2>1
    <2> QED
      BY <2>1, <2>2
  <1>9. base = head + 1
    BY DEF Base
  <1> HIDE DEF base, head, place
  <1>10. Len(code[v]) \in Nat /\ Len(code[v]) # 0
    BY <1>7, <1>8, <1>9
  <1> QED
    BY <1>2, <1>4, <1>5, <1>10

\* The loop over the bytecode of a table that handle made ends, for a request of whatever
\* path and method, within a turn for every instruction, with the first match in the table.
THEOREM MachineHalts ==
    ASSUME NEW R, Parsed(R), NEW routes \in Seq(R), Ordered(routes), NEW path \in Seq(Nat), NEW method
    PROVE  Halt(compile(routes), routes, path, method) = Ended(FirstMatch(routes, path, httpMethod(method)))
  <1> DEFINE meth == httpMethod(method)
             first == FirstMatch(routes, path, meth)
             sm == compile(routes)
             n == Len(routes)
  <1>1. n \in Nat /\ DOMAIN routes = 1..n
    OBVIOUS
  <1>2. Table(routes)
    <2>1. Prefixed(routes)
      BY <1>1, PrefixesAreBytes DEF Prefixed
    <2>2. ASSUME NEW i \in 1..Len(routes) PROVE WellFormed(routes[i].pattern)
      <3>1. routes[i] \in R
        BY <2>2
      <3> QED
        BY <3>1, PatternsAreWellFormed DEF Parsed
    <2> QED
      BY <2>1, <2>2 DEF Table
  <1>3. Prefixed(routes)
    BY <1>2 DEF Table
  <1>4. CASE n = 0
    <2>1. routes = <<>>
      BY <1>4
    <2>2. sm = <<>>
      BY <2>1 DEF compile
    <2>3. sm \in Code /\ Len(sm) = 0
      BY <2>2 DEF Code
    <2> HIDE DEF sm
    <2>4. PICK run : /\ run[0] = IF sm = <<>> THEN Ended(NotFound({})) ELSE Going(0, 0, NotFound({}))
                     /\ Halt(sm, routes, path, method) = run[Len(sm)]
      BY <2>3, RunExists
    <2>5. Halt(sm, routes, path, method) = Ended(NotFound({}))
      BY <2>2, <2>3, <2>4
    <2>6. first = NotFound({})
      <3>1. 1..n = {}
        BY <1>4
      <3>2. Fits(routes, path) = {}
        BY <3>1 DEF Fits
      <3>3. Usable(routes, path, meth) = {} /\ Offered(routes, path) = {}
        BY <3>2 DEF Usable, Offered
      <3> QED
        BY <3>3, FirstMatchIs
    <2> QED
      BY <2>5, <2>6 DEF sm
  <1>5. CASE n # 0
    <2>1. PICK code : Compiled(routes, code) /\ sm = Marked(code[TrieNode(1, Len(routes), 0)])
      BY <1>3, <1>5, CompileIs
    <2> DEFINE v == TrieNode(1, Len(routes), 0)
               c == code[v]
    <2>2. /\ v \in Nodes(routes) /\ v.first = 1 /\ v.last = n /\ v.dp = 0
          /\ c \in Code /\ Len(c) \in Nat /\ Len(c) # 0
      BY <1>3, <1>5, <2>1, RootIs
    <2> HIDE DEF sm, meth
    <2>3. sm \in Code /\ Len(sm) = Len(c) /\ Stands(sm, 0, -1, c)
      <3>1. sm = Marked(c)
        BY <2>1
      <3> HIDE DEF c
      <3> QED
        BY <2>2, <3>1, StandsAlone
    <2>4. PICK run : /\ Running(sm, routes, path, meth, run)
                     /\ run[0] = IF sm = <<>> THEN Ended(NotFound({})) ELSE Going(0, 0, NotFound({}))
                     /\ Halt(sm, routes, path, method) = run[Len(sm)]
      BY <2>3, RunExists DEF meth
    <2>5. Visits(run, 0, 0, 0, {})
      <3>1. sm # <<>>
        <4> HIDE DEF c
        <4> QED
          BY <2>2, <2>3
      <3> QED
        BY <2>4, <3>1 DEF Visits, At
    <2>6. Works(sm, routes, path, meth, run, v, c)
      <3>1. Machine(sm, routes, path, meth, run)
        BY <1>2, <2>3, <2>4 DEF Machine
      <3> QED
        BY <2>1, <2>2, <3>1, AllNodesWork
    <2> HIDE DEF v, c
    <2>7. Agreed(path, PrefixOf(routes, v.first), v.dp)
      BY <2>2 DEF Agreed
    <2> DEFINE none == -1
    <2>8. none \in Addresses /\ 0 \in 0..Len(path) /\ Stands(sm, 0, none, c)
      BY <2>3 DEF Addresses
    <2>9. none = -1
      OBVIOUS
    <2> HIDE DEF none
    <2>10. Comes(routes, path, meth, run, 0, Len(c), v.first, v.last, {}, none)
      BY <2>5, <2>6, <2>7, <2>8 DEF Works
    <2>11. Comes(routes, path, meth, run, 0, Len(c), 1, n, {}, none)
      BY <2>2, <2>10
    <2>12. PICK m \in 0..Len(c) : Outcome(routes, path, meth, run[0 + m], 1, n, {}, none)
      BY <2>11 DEF Comes
    <2>13. 0 + m = m /\ m \in Nat /\ m <= Len(sm) /\ Len(sm) \in Nat
      BY <2>2, <2>3
    <2> DEFINE usable == Usable(routes, path, meth)
               offered == Offered(routes, path)
    <2>14. usable = UsableIn(routes, path, meth, 1, n) /\ {} \cup OfferedIn(routes, path, 1, n) = offered
      BY DEF Usable, Offered, Fits, UsableIn, OfferedIn, FitsIn
    <2> HIDE DEF usable, offered
    <2>15. \/ \E f \in usable : (\A j \in usable : f <= j) /\ run[m] = Ended(Found(f))
           \/ usable = {} /\ run[m] = Ended(NotFound(offered))
      BY <2>9, <2>12, <2>13, <2>14 DEF Outcome
    <2>16. ASSUME NEW answer, run[m] = Ended(answer) PROVE Halt(sm, routes, path, method) = Ended(answer)
      <3>1. run[Len(sm)] = Ended(answer)
        BY <2>4, <2>13, <2>16, StaysDone
      <3> QED
        BY <2>4, <3>1
    <2>17. ASSUME NEW f \in usable, \A j \in usable : f <= j, run[m] = Ended(Found(f))
           PROVE  Halt(sm, routes, path, method) = Ended(first)
      <3>1. first = Found(f)
        BY <2>17, FirstUsable DEF usable
      <3> QED
        BY <2>16, <2>17, <3>1
    <2>18. ASSUME usable = {}, run[m] = Ended(NotFound(offered))
           PROVE  Halt(sm, routes, path, method) = Ended(first)
      <3>1. first = NotFound(offered)
        BY <2>18, FirstMatchIs DEF usable, offered
      <3> QED
        BY <2>16, <2>18, <3>1
    <2> QED
      BY <2>15, <2>17, <2>18 DEF sm, meth
  <1> QED
    BY <1>4, <1>5

\* So route answers with the first match in the table.
THEOREM BytecodeIsFirstMatch ==
    ASSUME NEW R, Parsed(R), NEW routes \in Seq(R), Ordered(routes), NEW path \in Seq(Nat), NEW method
    PROVE  route(compile(routes), routes, path, method) = FirstMatch(routes, path, httpMethod(method))
  BY MachineHalts DEF route, Ended

\* Whatever routes are added in whatever order, the compiled router answers every request
\* as the list of the routes does: the promise of package web.
THEOREM RouterIsFirstMatch ==
    ASSUME NEW R, Parsed(R), NEW list \in Seq(R), NEW asked \in SUBSET Seq(Nat)
    PROVE  RoutesAgree(list, TableOf(list), compile(TableOf(list)), asked)
  <1> DEFINE table == TableOf(list)
             sm == compile(table)
  <1>1. table \in Seq(R) /\ Ordered(table)
    BY TablesAreOrdered
  <1> HIDE DEF table, sm
  <1>2. SUFFICES ASSUME NEW path \in asked, NEW method \in AllMethods
                 PROVE  SameMatch(table, route(sm, table, path, method), list, FirstMatch(list, path, method))
    BY DEF RoutesAgree, table, sm
  <1>3. path \in Seq(Nat)
    OBVIOUS
  <1>4. httpMethod(method) = method
    BY DEF httpMethod, AllMethods
  <1>5. route(sm, table, path, method) = FirstMatch(table, path, method)
    BY <1>1, <1>3, <1>4, BytecodeIsFirstMatch DEF sm
  <1>6. SameMatch(table, FirstMatch(table, path, method), list, FirstMatch(list, path, method))
    BY <1>3, TableKeepsFirstMatch DEF table
  <1> QED
    BY <1>5, <1>6

-----------------------------------------------------------------------------
(* A router that routes are added to and that is asked in between.              *)

\* TableOf adds the last route of a list to the table of the others.
LEMMA TableSteps ==
    ASSUME NEW R, NEW list \in Seq(R)
    PROVE  \E t : /\ TableOf(list) = t[Len(list)] /\ t[0] = <<>>
                 /\ \A k \in Nat : k < Len(list) => t[k + 1] = handle(t[k], list[k + 1])
  <1> DEFINE table[n \in 0..Len(list)] == IF n = 0 THEN <<>> ELSE handle(table[n - 1], list[n])
  <1>1. TableOf(list) = table[Len(list)]
    BY DEF TableOf
  <1>2. Len(list) \in Nat
    OBVIOUS
  <1>3. table = [k \in 0..Len(list) |-> IF k = 0 THEN <<>> ELSE handle(table[k - 1], list[k])]
    <2>1. \E f : f = [k \in 0..Len(list) |-> IF k = 0 THEN <<>> ELSE handle(f[k - 1], list[k])]
      <3>1. Len(list) \in Nat /\ Len(list) <= Len(list)
        BY <1>2
      <3>2. \A n \in Nat : n <= Len(list) =>
                \E f : f = [k \in 0..n |-> IF k = 0 THEN <<>> ELSE handle(f[k - 1], list[k])]
        BY TablesExist
      <3> QED
        BY ONLY <3>1, <3>2
    <2>2. table = CHOOSE f : f = [k \in 0..Len(list) |->
                                    IF k = 0 THEN <<>> ELSE handle(f[k - 1], list[k])]
      BY DEF table
    <2> HIDE DEF table
    <2> QED
      BY <2>1, <2>2
  <1> HIDE DEF table
  <1>4. \A k \in 0..Len(list) : table[k] = IF k = 0 THEN <<>> ELSE handle(table[k - 1], list[k])
    BY <1>2, <1>3, ZenonT(40)
  <1>5. table[0] = <<>>
    BY <1>2, <1>4
  <1>6. ASSUME NEW k \in Nat, k < Len(list) PROVE table[k + 1] = handle(table[k], list[k + 1])
    <2>1. k + 1 \in 0..Len(list) /\ k + 1 # 0 /\ (k + 1) - 1 = k
      BY <1>2, <1>6
    <2>2. table[k + 1] = handle(table[(k + 1) - 1], list[k + 1])
      BY <1>4, <2>1
    <2> QED
      BY <2>1, <2>2
  <1> QED
    BY <1>1, <1>5, <1>6

LEMMA TableGrows ==
    ASSUME NEW R, NEW list \in Seq(R), NEW r \in R
    PROVE  TableOf(Append(list, r)) = handle(TableOf(list), r)
  <1> DEFINE more == Append(list, r)
             n == Len(list)
  <1>1. /\ n \in Nat /\ more \in Seq(R) /\ Len(more) = n + 1 /\ more[n + 1] = r
        /\ \A i \in 1..n : more[i] = list[i]
    OBVIOUS
  <1> HIDE DEF more
  <1>2. PICK t : /\ TableOf(list) = t[n] /\ t[0] = <<>>
                 /\ \A k \in Nat : k < n => t[k + 1] = handle(t[k], list[k + 1])
    BY TableSteps
  <1>3. PICK u : /\ TableOf(more) = u[n + 1] /\ u[0] = <<>>
                 /\ \A k \in Nat : k < n + 1 => u[k + 1] = handle(u[k], more[k + 1])
    <2>1. \E f : /\ TableOf(more) = f[Len(more)] /\ f[0] = <<>>
                 /\ \A k \in Nat : k < Len(more) => f[k + 1] = handle(f[k], more[k + 1])
      BY <1>1, TableSteps
    <2> QED
      BY <1>1, <2>1
  <1> HIDE DEF n
  <1> DEFINE same == {k \in Nat : k <= n => t[k] = u[k]}
  <1>4. 0 \in same
    BY <1>2, <1>3
  <1>5. ASSUME NEW k \in same PROVE k + 1 \in same
    <2>1. SUFFICES ASSUME k + 1 <= n PROVE t[k + 1] = u[k + 1]
      OBVIOUS
    <2>2. k \in Nat /\ k <= n /\ k < n /\ k < n + 1 /\ k + 1 \in 1..n
      BY <1>1, <2>1
    <2>3. t[k] = u[k] /\ more[k + 1] = list[k + 1]
      BY <1>1, <1>5, <2>2
    <2>4. t[k + 1] = handle(t[k], list[k + 1]) /\ u[k + 1] = handle(u[k], more[k + 1])
      BY <1>2, <1>3, <2>2
    <2> QED
      BY <2>3, <2>4
  <1>6. n \in same
    <2>1. same \in SUBSET Nat
      OBVIOUS
    <2> HIDE DEF same
    <2> QED
      BY <1>1, <1>4, <1>5, <2>1, EveryNumber
  <1>7. t[n] = u[n] /\ n < n + 1
    BY <1>1, <1>6
  <1>8. u[n + 1] = handle(u[n], more[n + 1])
    BY <1>1, <1>3, <1>7
  <1> QED
    BY <1>1, <1>2, <1>3, <1>7, <1>8 DEF more

\* The table is that of the routes that were added, and the machine that of the table.
RouterInv ==
    /\ added \in Seq(Additions)
    /\ sorted = TableOf(added)
    /\ \A m \in machine : m.routes = sorted /\ m.sm = compile(sorted)

\* Whenever a request is routed, between whatever additions of routes, it goes to the first
\* route that was added of those that match it.
THEOREM RequestsTakeTheFirstMatch == RouterSpec => []RoutesAreFirstMatch
  <1>1. Parsed(Additions)
    <2>1. \A r \in Additions : \E raw \in Seq(Nat) : r.pattern = parseStringPattern(raw)
      BY DEF Additions, Route
    <2> QED
      BY <2>1 DEF Parsed
  <1>2. RouterInit => RouterInv
    <2> SUFFICES ASSUME RouterInit PROVE RouterInv
      OBVIOUS
    <2>1. <<>> \in Seq(Additions) /\ TableOf(<<>>) = <<>>
      <3>1. <<>> \in Seq(Additions) /\ Len(<<>>) = 0
        OBVIOUS
      <3>2. PICK t : TableOf(<<>>) = t[Len(<<>>)] /\ t[0] = <<>>
        BY <3>1, TableSteps
      <3> QED
        BY <3>1, <3>2
    <2> QED
      BY <2>1 DEF RouterInit, RouterInv
  <1>3. RouterInv /\ [RouterNext]_routerVars => RouterInv'
    <2> SUFFICES ASSUME RouterInv, [RouterNext]_routerVars PROVE RouterInv'
      OBVIOUS
    <2>1. CASE Compile
      BY <2>1 DEF RouterInv, Compile
    <2>2. ASSUME NEW r \in Additions, Add(r) PROVE RouterInv'
      <3>1. added \in Seq(Additions) /\ sorted = TableOf(added)
        BY DEF RouterInv
      <3>2. Append(added, r) \in Seq(Additions)
        BY <3>1
      <3>3. TableOf(Append(added, r)) = handle(TableOf(added), r)
        BY <3>1, TableGrows
      <3> QED
        BY <2>2, <3>1, <3>2, <3>3 DEF RouterInv, Add
    <2>3. CASE UNCHANGED routerVars
      BY <2>3 DEF RouterInv, routerVars
    <2> QED
      BY <2>1, <2>2, <2>3 DEF RouterNext
  <1>4. RouterInv => RoutesAreFirstMatch
    <2> SUFFICES ASSUME RouterInv, NEW m \in machine
                 PROVE  RoutesAgree(added, m.routes, m.sm, Asked)
      BY DEF RoutesAreFirstMatch
    <2>1. added \in Seq(Additions) /\ Asked \in SUBSET Seq(Nat)
      BY AskedAssumption DEF RouterInv
    <2>2. m.routes = TableOf(added) /\ m.sm = compile(TableOf(added))
      BY DEF RouterInv
    <2>3. RoutesAgree(added, TableOf(added), compile(TableOf(added)), Asked)
      BY <1>1, <2>1, RouterIsFirstMatch
    <2> QED
      BY <2>2, <2>3
  <1> QED
    BY <1>2, <1>3, <1>4, PTL DEF RouterSpec
===============================================================================
