--------------------------- MODULE YamlReaderProofs ---------------------------
(* The reader of package yaml reads what is there: for every sequence of octets and *)
(* every size of the raw buffer.                                              *)
EXTENDS YamlReader, SequenceTheorems, TLAPS

-----------------------------------------------------------------------------
(* Forms: an octet leads a character or is a tail of one, and the one that leads tells *)
(* its length.                                                                *)

LEMMA WidthOf ==
    ASSUME NEW octet \in Octet
    PROVE  /\ Utf8Width(octet) \in 0..4
           /\ Utf8Width(octet) = 1 <=> octet \in 0..127
           /\ Utf8Width(octet) = 2 <=> octet \in 192..223
           /\ Utf8Width(octet) = 3 <=> octet \in 224..239
           /\ Utf8Width(octet) = 4 <=> octet \in 240..247
  BY DEF Octet, Utf8Width

\* What a form has: an octet that leads so many, and tails; and no NUL.
Shapely(form) ==
    /\ form \in Seq(SUBSET Octet)
    /\ Len(form) \in 1..4
    /\ form[1] \cap Tails = {} /\ 0 \notin form[1]
    /\ \A k \in 2..Len(form) : form[k] \subseteq Tails
    /\ \A octet \in form[1] : octet \in Octet /\ Utf8Width(octet) = Len(form)

\* The octets that lead one, two, three and four.
Leads == <<0..127, 192..223, 224..239, 240..247>>

LEMMA ShapelyFour ==
    ASSUME NEW A, NEW B, NEW C, NEW D, 0 \notin A,
           B \subseteq Tails, C \subseteq Tails, D \subseteq Tails
    PROVE  /\ A \subseteq Leads[1] => Shapely(<<A>>)
           /\ A \subseteq Leads[2] => Shapely(<<A, B>>)
           /\ A \subseteq Leads[3] => Shapely(<<A, B, C>>)
           /\ A \subseteq Leads[4] => Shapely(<<A, B, C, D>>)
  <1>1. B \subseteq Octet /\ C \subseteq Octet /\ D \subseteq Octet
    BY DEF Tails, Octet
  <1>2. ASSUME A \subseteq Leads[1] PROVE Shapely(<<A>>)
    <2>1. A \subseteq 0..127
      BY <1>2 DEF Leads
    <2>2. /\ A \subseteq Octet
          /\ A \cap Tails = {}
          /\ \A octet \in A : Utf8Width(octet) = 1
      BY <2>1, WidthOf DEF Octet, Tails
    <2> QED
      BY <2>2, SMT DEF Shapely
  <1>3. ASSUME A \subseteq Leads[2] PROVE Shapely(<<A, B>>)
    <2>1. A \subseteq 192..223
      BY <1>3 DEF Leads
    <2>2. /\ A \subseteq Octet
          /\ A \cap Tails = {}
          /\ \A octet \in A : Utf8Width(octet) = 2
      BY <2>1, WidthOf DEF Octet, Tails
    <2> QED
      BY <1>1, <2>2, SMT DEF Shapely
  <1>4. ASSUME A \subseteq Leads[3] PROVE Shapely(<<A, B, C>>)
    <2>1. A \subseteq 224..239
      BY <1>4 DEF Leads
    <2>2. /\ A \subseteq Octet
          /\ A \cap Tails = {}
          /\ \A octet \in A : Utf8Width(octet) = 3
      BY <2>1, WidthOf DEF Octet, Tails
    <2> QED
      BY <1>1, <2>2, SMT DEF Shapely
  <1>5. ASSUME A \subseteq Leads[4] PROVE Shapely(<<A, B, C, D>>)
    <2>1. A \subseteq 240..247
      BY <1>5 DEF Leads
    <2>2. /\ A \subseteq Octet
          /\ A \cap Tails = {}
          /\ \A octet \in A : Utf8Width(octet) = 4
      BY <2>1, WidthOf DEF Octet, Tails
    <2> QED
      BY <1>1, <2>2, SMT DEF Shapely
  <1> QED
    BY <1>2, <1>3, <1>4, <1>5

LEMMA Forms == ASSUME NEW form \in CharacterForms PROVE Shapely(form)
  <1> DEFINE A1 == {9, 10, 13} \cup 32..126
             A2 == {194}        B2 == {133} \cup 160..191
             A3 == 195..223
             A4 == {224}        B4 == 160..191
             A5 == 225..236
             A6 == {237}        B6 == 128..159
             A7 == {238}
             A8 == {239}        B8 == 128..190
             B9 == {191}        C9 == 128..189
             A10 == {240}       B10 == 144..191
             A11 == 241..243
             A12 == {244}       B12 == 128..143
  <1>1. /\ Tails \subseteq Tails
        /\ B2 \subseteq Tails /\ B4 \subseteq Tails /\ B6 \subseteq Tails /\ B8 \subseteq Tails
        /\ B9 \subseteq Tails /\ C9 \subseteq Tails /\ B10 \subseteq Tails /\ B12 \subseteq Tails
    BY DEF Tails
  <1>2. /\ A1 \subseteq Leads[1]
        /\ A2 \subseteq Leads[2] /\ A3 \subseteq Leads[2]
        /\ 0 \notin A1 /\ 0 \notin A2 /\ 0 \notin A3
    BY DEF Leads
  <1>3. /\ A4 \subseteq Leads[3] /\ A5 \subseteq Leads[3] /\ A6 \subseteq Leads[3]
        /\ A7 \subseteq Leads[3] /\ A8 \subseteq Leads[3]
        /\ 0 \notin A4 /\ 0 \notin A5 /\ 0 \notin A6 /\ 0 \notin A7 /\ 0 \notin A8
    BY DEF Leads
  <1>4. /\ A10 \subseteq Leads[4] /\ A11 \subseteq Leads[4] /\ A12 \subseteq Leads[4]
        /\ 0 \notin A10 /\ 0 \notin A11 /\ 0 \notin A12
    BY DEF Leads
  <1>5. CharacterForms =
            {<<A1>>, <<A2, B2>>, <<A3, Tails>>,
             <<A4, B4, Tails>>, <<A5, Tails, Tails>>, <<A6, B6, Tails>>,
             <<A7, Tails, Tails>>, <<A8, B8, Tails>>, <<A8, B9, C9>>,
             <<A10, B10, Tails, Tails>>, <<A11, Tails, Tails, Tails>>,
             <<A12, B12, Tails, Tails>>}
    BY DEF CharacterForms
  <1> HIDE DEF A1, A2, B2, A3, A4, B4, A5, A6, B6, A7, A8, B8, B9, C9, A10, B10, A11, A12, B12
  <1>6. Shapely(<<A1>>) /\ Shapely(<<A2, B2>>) /\ Shapely(<<A3, Tails>>)
    BY ONLY <1>1, <1>2, ShapelyFour, Zenon
  <1>7. Shapely(<<A4, B4, Tails>>) /\ Shapely(<<A5, Tails, Tails>>) /\ Shapely(<<A6, B6, Tails>>)
    BY ONLY <1>1, <1>3, ShapelyFour, Zenon
  <1>8. Shapely(<<A7, Tails, Tails>>) /\ Shapely(<<A8, B8, Tails>>) /\ Shapely(<<A8, B9, C9>>)
    BY ONLY <1>1, <1>3, ShapelyFour, Zenon
  <1>9. /\ Shapely(<<A10, B10, Tails, Tails>>)
        /\ Shapely(<<A11, Tails, Tails, Tails>>)
        /\ Shapely(<<A12, B12, Tails, Tails>>)
    BY ONLY <1>1, <1>4, ShapelyFour, Zenon
  <1> QED
    BY ONLY form \in CharacterForms, <1>5, <1>6, <1>7, <1>8, <1>9, Zenon

\* A form whose first octet is one that leads fits only when it is as long as that tells.
LEMMA FitsLength ==
    ASSUME NEW octets \in Seq(Octet), NEW i \in Nat, NEW form \in CharacterForms,
           Fits(form, octets, i)
    PROVE  /\ i \in 1..Len(octets)
           /\ octets[i] \notin Tails
           /\ Len(form) = Utf8Width(octets[i])
           /\ Len(form) \in 1..4
           /\ i + Len(form) <= Len(octets) + 1
           /\ \A j \in i + 1..i + Len(form) - 1 : octets[j] \in Tails
  <1>1. /\ Len(form) \in 1..4
        /\ form \in Seq(SUBSET Octet)
    BY Forms DEF Shapely
  <1>2. /\ i >= 1
        /\ i + Len(form) <= Len(octets) + 1
    BY DEF Fits
  <1>3. octets[i] \in form[1]
    <2>1. octets[i + 1 - 1] \in form[1]
      BY <1>1 DEF Fits
    <2> QED
      BY <2>1
  <1>4. ASSUME NEW j \in i + 1..i + Len(form) - 1
        PROVE  octets[j] \in Tails
    <2>1. j - i + 1 \in 2..Len(form)
      BY <1>1, <1>4
    <2>2. octets[i + (j - i + 1) - 1] \in form[j - i + 1]
      BY <1>1, <2>1 DEF Fits
    <2>3. i + (j - i + 1) - 1 = j
      BY <1>4
    <2> QED
      BY <2>1, <2>2, <2>3, Forms DEF Shapely
  <1> QED
    BY <1>1, <1>2, <1>3, <1>4, Forms DEF Shapely

-----------------------------------------------------------------------------
(* Texts.                                                                     *)

LEMMA FitsWithin ==
    ASSUME NEW s \in Seq(Octet), NEW t \in Seq(Octet), NEW i \in Int, NEW form \in CharacterForms
    PROVE  /\ Fits(form, s, i) => Fits(form, s \o t, i)
           /\ Fits(form, s \o t, i) /\ i + Len(form) <= Len(s) + 1 => Fits(form, s, i)
           /\ Fits(form, t, i) => Fits(form, s \o t, Len(s) + i)
           /\ Fits(form, s \o t, Len(s) + i) /\ i >= 1 => Fits(form, t, i)
  <1> DEFINE u == s \o t
  <1>1. /\ Len(u) = Len(s) + Len(t)
        /\ \A k \in 1..Len(s) : u[k] = s[k]
        /\ \A k \in 1..Len(t) : u[Len(s) + k] = t[k]
    BY ConcatProperties
  <1>2. /\ Len(form) \in 1..4
        /\ DOMAIN form = 1..Len(form)
    BY Forms DEF Shapely
  <1>3. Len(s) \in Nat /\ Len(t) \in Nat
    OBVIOUS
  <1> HIDE DEF u
  <1>4. ASSUME i >= 1, i + Len(form) <= Len(s) + 1, NEW k \in DOMAIN form
        PROVE  u[i + k - 1] = s[i + k - 1]
    <2>1. i + k - 1 \in 1..Len(s)
      BY <1>2, <1>3, <1>4
    <2> QED
      BY <1>1, <2>1
  <1>5. ASSUME i >= 1, i + Len(form) <= Len(t) + 1, NEW k \in DOMAIN form
        PROVE  u[Len(s) + i + k - 1] = t[i + k - 1]
    <2>1. /\ i + k - 1 \in 1..Len(t)
          /\ Len(s) + i + k - 1 = Len(s) + (i + k - 1)
      BY <1>2, <1>3, <1>5
    <2> QED
      BY <1>1, <2>1
  <1>6. Fits(form, s, i) => Fits(form, u, i)
    BY <1>1, <1>2, <1>3, <1>4 DEF Fits
  <1>7. Fits(form, u, i) /\ i + Len(form) <= Len(s) + 1 => Fits(form, s, i)
    BY <1>1, <1>2, <1>3, <1>4 DEF Fits
  <1>8. Fits(form, t, i) => Fits(form, u, Len(s) + i)
    BY <1>1, <1>2, <1>3, <1>5 DEF Fits
  <1>9. ASSUME Fits(form, u, Len(s) + i), i >= 1 PROVE Fits(form, t, i)
    <2>1. i + Len(form) <= Len(t) + 1
      BY <1>1, <1>2, <1>3, <1>9 DEF Fits
    <2>2. ASSUME NEW k \in DOMAIN form PROVE t[i + k - 1] \in form[k]
      <3>1. u[Len(s) + i + k - 1] \in form[k]
        BY <1>9 DEF Fits
      <3> QED
        BY <1>5, <1>9, <2>1, <3>1
    <2> QED
      BY <1>9, <2>1, <2>2 DEF Fits
  <1> QED
    BY <1>6, <1>7, <1>8, <1>9 DEF u

\* One text behind another is a text.
LEMMA WellFormedJoined ==
    ASSUME NEW s \in Seq(Octet), NEW t \in Seq(Octet), WellFormed(s), WellFormed(t)
    PROVE  WellFormed(s \o t)
  <1> SUFFICES ASSUME NEW i \in DOMAIN (s \o t)
               PROVE  \E form \in CharacterForms : \E k \in DOMAIN form : Fits(form, s \o t, i - k + 1)
    BY DEF WellFormed
  <1>1. i \in 1..Len(s) + Len(t) /\ Len(s) \in Nat /\ Len(t) \in Nat
    BY ConcatProperties
  <1>2. CASE i \in 1..Len(s)
    <2>0. i \in DOMAIN s
      BY <1>2
    <2>1. PICK form \in CharacterForms : \E k \in DOMAIN form : Fits(form, s, i - k + 1)
      BY <2>0 DEF WellFormed
    <2>2. PICK k \in DOMAIN form : Fits(form, s, i - k + 1)
      BY <2>1
    <2>3. k \in Int
      BY <2>2, Forms DEF Shapely
    <2> QED
      BY <1>1, <2>2, <2>3, FitsWithin
  <1>3. CASE i > Len(s)
    <2>1. i - Len(s) \in DOMAIN t
      BY <1>1, <1>3
    <2>2. PICK form \in CharacterForms : \E k \in DOMAIN form : Fits(form, t, i - Len(s) - k + 1)
      BY <2>1 DEF WellFormed
    <2>3. PICK k \in DOMAIN form : Fits(form, t, i - Len(s) - k + 1)
      BY <2>2
    <2>4. k \in Int
      BY <2>3, Forms DEF Shapely
    <2>5. i - Len(s) - k + 1 \in Int /\ Len(s) + (i - Len(s) - k + 1) = i - k + 1
      BY <1>1, <2>4
    <2>6. Fits(form, s \o t, Len(s) + (i - Len(s) - k + 1))
      BY <2>3, <2>5, FitsWithin
    <2> QED
      BY <2>3, <2>5, <2>6
  <1> QED
    BY <1>1, <1>2, <1>3

\* A character on its own is a text.
LEMMA WellFormedOne ==
    ASSUME NEW s \in Seq(Octet), NEW form \in CharacterForms, Len(form) = Len(s), Fits(form, s, 1)
    PROVE  WellFormed(s)
  <1> SUFFICES ASSUME NEW i \in DOMAIN s
               PROVE  \E k \in DOMAIN form : Fits(form, s, i - k + 1)
    BY DEF WellFormed
  <1>1. i \in DOMAIN form /\ i \in Int
    BY Forms DEF Shapely
  <1>2. i - i + 1 = 1
    BY <1>1
  <1> QED
    BY <1>1, <1>2

\* No character of a text is NUL, which is the end for the scanner.
LEMMA WellFormedPlain ==
    ASSUME NEW s \in Seq(Octet), WellFormed(s), NEW i \in DOMAIN s
    PROVE  s[i] # 0
  <1>1. PICK form \in CharacterForms : \E k \in DOMAIN form : Fits(form, s, i - k + 1)
    BY DEF WellFormed
  <1>2. PICK k \in DOMAIN form : Fits(form, s, i - k + 1)
    BY <1>1
  <1>3. /\ form \in Seq(SUBSET Octet) /\ 0 \notin form[1]
        /\ \A m \in 2..Len(form) : form[m] \subseteq Tails
    BY Forms DEF Shapely
  <1>4. k \in 1..Len(form) /\ Len(form) \in Nat /\ i \in Int
    BY <1>3
  <1>5. s[(i - k + 1) + k - 1] \in form[k]
    BY <1>2 DEF Fits
  <1>6. (i - k + 1) + k - 1 = i
    BY <1>4
  <1>7. 0 \notin form[k]
    <2>1. CASE k = 1
      BY <1>3, <2>1
    <2>2. CASE k # 1
      <3>1. k \in 2..Len(form)
        BY <1>4, <2>2
      <3>2. form[k] \subseteq Tails
        BY <1>3, <3>1
      <3>3. 0 \notin Tails
        BY DEF Tails
      <3> QED
        BY ONLY <3>2, <3>3, Zenon
    <2> QED
      BY <2>1, <2>2
  <1> QED
    BY <1>5, <1>6, <1>7

\* Behind a text, no text begins with what is no character.
LEMMA WellFormedNot ==
    ASSUME NEW s \in Seq(Octet), NEW t \in Seq(Octet), WellFormed(s), t # <<>>,
           \A form \in CharacterForms : ~Fits(form, t, 1)
    PROVE  ~WellFormed(s \o t)
  <1> DEFINE u == s \o t
             n == Len(s)
  <1> SUFFICES ASSUME WellFormed(u) PROVE FALSE
    OBVIOUS
  <1>0. WellFormed(u)
    OBVIOUS
  <1>1. /\ n \in Nat /\ Len(t) \in Nat /\ Len(t) >= 1
        /\ u \in Seq(Octet)
        /\ Len(u) = n + Len(t)
        /\ \A k \in 1..n : u[k] = s[k]
    BY ConcatProperties, EmptySeq
  <1> HIDE DEF u, n
  <1>2. n + 1 \in DOMAIN u
    BY <1>1
  <1>3. PICK form \in CharacterForms : \E k \in DOMAIN form : Fits(form, u, (n + 1) - k + 1)
    <2>1. \A m \in DOMAIN u : \E form \in CharacterForms :
              \E k \in DOMAIN form : Fits(form, u, m - k + 1)
      BY <1>0 DEF WellFormed
    <2> QED
      BY <1>2, <2>1
  <1>4. PICK k \in DOMAIN form : Fits(form, u, (n + 1) - k + 1)
    BY <1>3
  <1> DEFINE j == (n + 1) - k + 1
  <1>5. /\ k \in 1..Len(form)
        /\ Len(form) \in 1..4
        /\ j \in Int /\ j = n + 2 - k
    <2>1. form \in Seq(SUBSET Octet) /\ Len(form) \in 1..4
      BY Forms, Zenon DEF Shapely
    <2>2. DOMAIN form = 1..Len(form)
      BY <2>1
    <2> QED
      BY <1>1, <2>1, <2>2
  <1>6. j >= 1
    BY <1>4 DEF Fits
  <1> HIDE DEF j
  <1>7. Fits(form, u, j)
    BY <1>4 DEF j
  <1>8. j # n + 1
    <2>1. n + 1 = Len(s) + 1
      BY DEF n
    <2> QED
      BY <1>7, <2>1, FitsWithin DEF u
  <1>9. j \in 1..n
    BY <1>1, <1>5, <1>6, <1>8
  <1>10. /\ u[j] \notin Tails
         /\ Len(form) = Utf8Width(u[j])
         /\ j + Len(form) >= n + 2
         /\ \A m \in j + 1..j + Len(form) - 1 : u[m] \in Tails
    <2>1. j \in Nat
      BY <1>1, <1>9
    <2>2. j + Len(form) >= n + 2
      BY <1>1, <1>5
    <2> QED
      BY <1>1, <1>7, <2>1, <2>2, FitsLength
  <1>11. PICK g \in CharacterForms : \E l \in DOMAIN g : Fits(g, s, n - l + 1)
    <2>1. n \in DOMAIN s
      BY <1>1, <1>9 DEF n
    <2> QED
      BY <2>1 DEF WellFormed
  <1>12. PICK l \in DOMAIN g : Fits(g, s, n - l + 1)
    BY <1>11
  <1> DEFINE i == n - l + 1
  <1>13. /\ l \in 1..Len(g)
         /\ Len(g) \in 1..4
         /\ i \in Int
         /\ n \in i..i + Len(g) - 1
    BY <1>1, Forms DEF Shapely
  <1> HIDE DEF i
  <1>14. Fits(g, s, i)
    BY <1>12 DEF i
  <1>15. /\ i \in 1..n
         /\ s[i] \notin Tails
         /\ Len(g) = Utf8Width(s[i])
         /\ i + Len(g) <= n + 1
         /\ \A m \in i + 1..i + Len(g) - 1 : s[m] \in Tails
    <2>1. i \in Nat
      BY <1>13, <1>14 DEF Fits
    <2> QED
      BY <1>14, <2>1, FitsLength DEF n
  <1>16. CASE i < j
    <2>1. j \in i + 1..i + Len(g) - 1
      BY <1>1, <1>9, <1>13, <1>15, <1>16
    <2> QED
      BY <1>1, <1>9, <1>10, <1>15, <2>1
  <1>17. CASE i = j
    <2>1. u[j] = s[i]
      BY <1>1, <1>9, <1>17
    <2>2. Len(form) = Len(g)
      BY <1>10, <1>15, <2>1
    <2>3. /\ i + Len(g) <= n + 1
          /\ j + Len(form) >= n + 2
      BY <1>10, <1>15
    <2> QED
      BY <1>1, <1>9, <1>13, <1>17, <2>2, <2>3
  <1>18. CASE i > j
    <2>1. i \in 1..n /\ s[i] \notin Tails
      BY <1>15
    <2>2. j + Len(form) >= n + 2
      BY <1>10
    <2> DEFINE w == Len(form)
    <2>3. i \in Int /\ j \in Int /\ n \in Int /\ w \in Int
      BY <1>1, <1>5, <1>9, <1>13
    <2>4. i >= j + 1 /\ i <= n /\ j + w >= n + 2
      BY <1>18, <2>1, <2>2, <2>3
    <2> HIDE DEF w
    <2>5. i \in j + 1..j + w - 1
      BY <2>3, <2>4
    <2> QED
      BY <1>1, <1>10, <2>1, <2>5 DEF w
  <1> QED
    BY <1>13, <1>9, <1>16, <1>17, <1>18

-----------------------------------------------------------------------------
(* Characters: what the decoder accepts is what fits a form, and is put back as it was. *)

\* What fits the forms of one to four octets, in numbers.
One(raw) == raw[1] \in {9, 10, 13} \/ (raw[1] >= 32 /\ raw[1] <= 126)

Two(raw) ==
    /\ Len(raw) >= 2 /\ raw[2] \in Tails
    /\ \/ raw[1] = 194 /\ (raw[2] = 133 \/ raw[2] >= 160)
       \/ raw[1] >= 195 /\ raw[1] <= 223

Three(raw) ==
    /\ Len(raw) >= 3 /\ raw[2] \in Tails /\ raw[3] \in Tails
    /\ \/ raw[1] = 224 /\ raw[2] >= 160
       \/ raw[1] >= 225 /\ raw[1] <= 236
       \/ raw[1] = 237 /\ raw[2] <= 159
       \/ raw[1] = 238
       \/ raw[1] = 239 /\ (raw[2] <= 190 \/ raw[3] <= 189)

Four(raw) ==
    /\ Len(raw) >= 4 /\ raw[2] \in Tails /\ raw[3] \in Tails /\ raw[4] \in Tails
    /\ \/ raw[1] = 240 /\ raw[2] >= 144
       \/ raw[1] >= 241 /\ raw[1] <= 243
       \/ raw[1] = 244 /\ raw[2] <= 143

LEMMA FitsOne ==
    ASSUME NEW raw \in Seq(Octet), raw # <<>>, NEW A
    PROVE  Fits(<<A>>, raw, 1) <=> raw[1] \in A
  BY EmptySeq DEF Fits

LEMMA FitsTwo ==
    ASSUME NEW raw \in Seq(Octet), raw # <<>>, NEW A, NEW B
    PROVE  Fits(<<A, B>>, raw, 1) <=> Len(raw) >= 2 /\ raw[1] \in A /\ raw[2] \in B
  BY EmptySeq DEF Fits

LEMMA FitsThree ==
    ASSUME NEW raw \in Seq(Octet), raw # <<>>, NEW A, NEW B, NEW C
    PROVE  Fits(<<A, B, C>>, raw, 1) <=>
               Len(raw) >= 3 /\ raw[1] \in A /\ raw[2] \in B /\ raw[3] \in C
  BY EmptySeq DEF Fits

LEMMA FitsFour ==
    ASSUME NEW raw \in Seq(Octet), raw # <<>>, NEW A, NEW B, NEW C, NEW D
    PROVE  Fits(<<A, B, C, D>>, raw, 1) <=>
               Len(raw) >= 4 /\ raw[1] \in A /\ raw[2] \in B /\ raw[3] \in C /\ raw[4] \in D
  BY EmptySeq DEF Fits

LEMMA Between ==
    ASSUME NEW v \in Int, NEW m \in Int, NEW n \in Int
    PROVE  v \in m..n <=> v >= m /\ v <= n
  OBVIOUS

LEMMA AllowedIs ==
    ASSUME NEW v \in Int
    PROVE  /\ Allowed(v) <=> \/ v \in {9, 10, 13, 133}
                             \/ v >= 32 /\ v <= 126
                             \/ v >= 160 /\ v <= 55295
                             \/ v >= 57344 /\ v <= 65533
                             \/ v >= 65536 /\ v <= 1114111
           /\ v \in Surrogates <=> v >= 55296 /\ v <= 57343
           /\ LastCode = 1114111
  <1> DEFINE R1 == v \in 32..126            S1 == v >= 32 /\ v <= 126
             R2 == v \in 160..55295         S2 == v >= 160 /\ v <= 55295
             R3 == v \in 57344..65533       S3 == v >= 57344 /\ v <= 65533
             R4 == v \in 65536..LastCode    S4 == v >= 65536 /\ v <= 1114111
             some == v \in {9, 10, 13, 133}
  <1>1. LastCode = 1114111
    BY SMT DEF LastCode
  <1>2. R1 <=> S1
    BY SMT
  <1>3. R2 <=> S2
    BY SMT
  <1>4. R3 <=> S3
    BY SMT
  <1>5. R4 <=> S4
    <2> DEFINE least == 65536
    <2>1. least \in Int /\ LastCode \in Int
      BY <1>1, SMT
    <2> HIDE DEF least
    <2>2. v \in least..LastCode <=> v >= least /\ v <= LastCode
      BY <2>1, Between, Zenon
    <2>3. v \in 65536..LastCode <=> v >= 65536 /\ v <= LastCode
      BY ONLY <2>2, SMT DEF least
    <2>4. v <= LastCode <=> v <= 1114111
      BY <1>1, SMT
    <2> QED
      BY ONLY <2>3, <2>4, SMT
  <1>6. v \in Surrogates <=> v >= 55296 /\ v <= 57343
    BY SMT DEF Surrogates
  <1>7. Allowed(v) <=> some \/ R1 \/ R2 \/ R3 \/ R4
    BY SMT DEF Allowed
  <1>8. Allowed(v) <=> some \/ S1 \/ S2 \/ S3 \/ S4
    <2> HIDE DEF R1, R2, R3, R4, S1, S2, S3, S4, some
    <2> QED
      BY ONLY <1>2, <1>3, <1>4, <1>5, <1>7, Zenon
  <1> QED
    BY <1>1, <1>6, <1>8, SMT

\* An octet that DecodeUtf8 takes for one that trails is one of the tails.
LEMMA TailIs ==
    ASSUME NEW octet \in Octet
    PROVE  /\ octet \div 64 = 2 <=> octet \in Tails
           /\ octet \in Tails => octet % 64 = octet - 128
  BY SMT DEF Octet, Tails

LEMMA LeadIs ==
    ASSUME NEW octet \in Octet
    PROVE  /\ octet \in 0..127 => octet % 128 = octet
           /\ octet \in 192..223 => octet % 32 = octet - 192
           /\ octet \in 224..239 => octet % 16 = octet - 224
           /\ octet \in 240..247 => octet % 8 = octet - 240
  BY SMT DEF Octet

\* The code of two, three and four octets, and which of them are of characters of the forms.
Sum2(a, b) == 64 * (a - 192) + (b - 128)
Sum3(a, b, c) == 4096 * (a - 224) + 64 * (b - 128) + (c - 128)
Sum4(a, b, c, d) == 262144 * (a - 240) + 4096 * (b - 128) + 64 * (c - 128) + (d - 128)

Right2(a, b) == (a = 194 /\ (b = 133 \/ b >= 160)) \/ (a >= 195 /\ a <= 223)
Right3(a, b, c) ==
    \/ a = 224 /\ b >= 160
    \/ a >= 225 /\ a <= 236
    \/ a = 237 /\ b <= 159
    \/ a = 238
    \/ a = 239 /\ (b <= 190 \/ c <= 189)
Right4(a, b) == (a = 240 /\ b >= 144) \/ (a >= 241 /\ a <= 243) \/ (a = 244 /\ b <= 143)

\* The code v is one that needs `least' at least and that YAML allows.
Good(v, least) == v >= least /\ v \notin Surrogates /\ v <= LastCode /\ Allowed(v)

LEMMA Code2 ==
    ASSUME NEW a \in Octet, NEW b \in Octet,
           Utf8Width(a) = 2, b \in Tails
    PROVE  /\ Utf8Value(<<a, b>>) = Sum2(a, b)
           /\ Sum2(a, b) \in Int /\ Sum2(a, b) >= 0
           /\ Good(Sum2(a, b), Least[2]) <=> Right2(a, b)
           /\ Sum2(a, b) >= Least[2] => Utf8(Sum2(a, b)) = <<a, b>>
  <1> DEFINE v == Sum2(a, b)
  <1>a. a \in 192..223
    BY WidthOf, SMT
  <1>1. b \in 128..191
    BY SMT DEF Tails
  <1>b. v \in Int /\ v = 64 * (a - 192) + (b - 128)
    BY <1>1, <1>a, SMT DEF Sum2
  <1>c. Utf8Value(<<a, b>>) = v
    <2>1. Utf8Value(<<a, b>>) = 64 * (a % 32) + (b % 64)
      BY SMT DEF Utf8Value
    <2> QED
      BY <2>1, <1>a, LeadIs, TailIs, SMT DEF Sum2
  <1>d. v = Sum2(a, b)
    BY SMT
  <1> HIDE DEF v
  <1> USE <1>a, <1>b
  <1>2. v >= 0 /\ v < 2048
    BY <1>1, SMT
  <1>3. v >= 128 /\ (v = 133 \/ v >= 160)
            <=> (a = 194 /\ (b = 133 \/ b >= 160)) \/ (a >= 195 /\ a <= 223)
    BY <1>1, SMT
  <1>4. Good(v, 128) <=> v >= 128 /\ (v = 133 \/ v >= 160)
    BY <1>2, AllowedIs, SMT DEF Good
  <1>5. ASSUME v >= 128 PROVE Utf8(v) = <<a, b>>
    <2>1. v \div 64 = a - 192 /\ v % 64 = b - 128 /\ v \div 1 = v
      BY <1>1, <1>2, SMT
    <2>2. 192 + v \div 64 = a /\ 128 + ((v \div 1) % 64) = b
      BY <1>1, <2>1, SMT
    <2>3. ~(v < 128) /\ v < 2048
      BY <1>2, <1>5, SMT
    <2> QED
      BY ONLY <2>2, <2>3, SMT DEF Utf8
  <1>6. Least[2] = 128
    BY SMT DEF Least
  <1>7. /\ v \in Int /\ v >= 0
        /\ Good(v, 128) <=> Right2(a, b)
        /\ v >= 128 => Utf8(v) = <<a, b>>
    BY <1>2, <1>3, <1>4, <1>5, SMT DEF Right2
  <1>8. /\ v \in Int /\ v >= 0
        /\ Good(v, Least[2]) <=> Right2(a, b)
        /\ v >= Least[2] => Utf8(v) = <<a, b>>
    BY ONLY <1>6, <1>7, SMT
  <1> QED
    BY ONLY <1>c, <1>d, <1>8, Zenon

LEMMA Code3 ==
    ASSUME NEW a \in Octet, NEW b \in Octet, NEW c \in Octet,
           Utf8Width(a) = 3, b \in Tails, c \in Tails
    PROVE  /\ Utf8Value(<<a, b, c>>) = Sum3(a, b, c)
           /\ Sum3(a, b, c) \in Int /\ Sum3(a, b, c) >= 0
           /\ Good(Sum3(a, b, c), Least[3]) <=> Right3(a, b, c)
           /\ Sum3(a, b, c) >= Least[3] => Utf8(Sum3(a, b, c)) = <<a, b, c>>
  <1> DEFINE v == Sum3(a, b, c)
  <1>a. a \in 224..239
    BY WidthOf, SMT
  <1>1. b \in 128..191 /\ c \in 128..191
    BY SMT DEF Tails
  <1>b. v \in Int /\ v = 4096 * (a - 224) + 64 * (b - 128) + (c - 128)
    BY <1>1, <1>a, SMT DEF Sum3
  <1>c. Utf8Value(<<a, b, c>>) = v
    <2>1. Utf8Value(<<a, b, c>>) = 4096 * (a % 16) + 64 * (b % 64) + (c % 64)
      BY SMT DEF Utf8Value
    <2> QED
      BY <2>1, <1>a, LeadIs, TailIs, SMT DEF Sum3
  <1>d. v = Sum3(a, b, c)
    BY SMT
  <1> HIDE DEF v
  <1> USE <1>a, <1>b
  <1>2. v >= 0 /\ v < 65536
    BY <1>1, SMT
  <1>3. v >= 2048 /\ ~(v >= 55296 /\ v <= 57343) /\ v <= 65533
            <=> \/ a = 224 /\ b >= 160
                \/ a >= 225 /\ a <= 236
                \/ a = 237 /\ b <= 159
                \/ a = 238
                \/ a = 239 /\ (b <= 190 \/ c <= 189)
    BY <1>1, SMT
  <1>4. Good(v, 2048) <=> v >= 2048 /\ ~(v >= 55296 /\ v <= 57343) /\ v <= 65533
    BY <1>2, AllowedIs, SMT DEF Good
  <1>5. ASSUME v >= 2048 PROVE Utf8(v) = <<a, b, c>>
    <2>1. /\ v \div 4096 = a - 224
          /\ (v \div 64) % 64 = b - 128
          /\ v % 64 = c - 128
          /\ v \div 1 = v
      BY <1>1, <1>2, SMT
    <2>2. /\ 224 + v \div 4096 = a
          /\ 128 + ((v \div 64) % 64) = b
          /\ 128 + ((v \div 1) % 64) = c
      BY <1>1, <2>1, SMT
    <2>3. ~(v < 128) /\ ~(v < 2048) /\ v < 65536
      BY <1>2, <1>5, SMT
    <2> QED
      BY ONLY <2>2, <2>3, SMT DEF Utf8
  <1>6. Least[3] = 2048
    BY SMT DEF Least
  <1>7. /\ v \in Int /\ v >= 0
        /\ Good(v, 2048) <=> Right3(a, b, c)
        /\ v >= 2048 => Utf8(v) = <<a, b, c>>
    BY <1>2, <1>3, <1>4, <1>5, SMT DEF Right3
  <1>8. /\ v \in Int /\ v >= 0
        /\ Good(v, Least[3]) <=> Right3(a, b, c)
        /\ v >= Least[3] => Utf8(v) = <<a, b, c>>
    BY ONLY <1>6, <1>7, SMT
  <1> QED
    BY ONLY <1>c, <1>d, <1>8, Zenon

LEMMA Code4 ==
    ASSUME NEW a \in Octet, NEW b \in Octet, NEW c \in Octet, NEW d \in Octet,
           Utf8Width(a) = 4, b \in Tails, c \in Tails, d \in Tails
    PROVE  /\ Utf8Value(<<a, b, c, d>>) = Sum4(a, b, c, d)
           /\ Sum4(a, b, c, d) \in Int /\ Sum4(a, b, c, d) >= 0
           /\ Good(Sum4(a, b, c, d), Least[4]) <=> Right4(a, b)
           /\ Sum4(a, b, c, d) >= Least[4] => Utf8(Sum4(a, b, c, d)) = <<a, b, c, d>>
  <1> DEFINE v == Sum4(a, b, c, d)
  <1>a. a \in 240..247
    BY WidthOf, SMT
  <1>1. b \in 128..191 /\ c \in 128..191 /\ d \in 128..191
    BY SMT DEF Tails
  <1>b. v \in Int /\ v = 262144 * (a - 240) + 4096 * (b - 128) + 64 * (c - 128) + (d - 128)
    BY <1>1, <1>a, SMT DEF Sum4
  <1>c. Utf8Value(<<a, b, c, d>>) = v
    <2>1. Utf8Value(<<a, b, c, d>>) = 262144 * (a % 8) + 4096 * (b % 64) + 64 * (c % 64) + (d % 64)
      BY SMT DEF Utf8Value
    <2> QED
      BY <2>1, <1>a, LeadIs, TailIs, SMT DEF Sum4
  <1>d. v = Sum4(a, b, c, d)
    BY SMT
  <1> HIDE DEF v
  <1> USE <1>a, <1>b
  <1>2. v >= 0
    BY <1>1, SMT
  <1>3. v >= 65536 /\ v <= 1114111
            <=> \/ a = 240 /\ b >= 144
                \/ a >= 241 /\ a <= 243
                \/ a = 244 /\ b <= 143
    BY <1>1, SMT
  <1>4. Good(v, 65536) <=> v >= 65536 /\ v <= 1114111
    BY <1>2, AllowedIs, SMT DEF Good
  <1>5. ASSUME v >= 65536 PROVE Utf8(v) = <<a, b, c, d>>
    <2>1. /\ v \div 262144 = a - 240
          /\ (v \div 4096) % 64 = b - 128
          /\ (v \div 64) % 64 = c - 128
          /\ v % 64 = d - 128
          /\ v \div 1 = v
      <3>1. /\ v \div 262144 = a - 240
            /\ v \div 4096 = 64 * (a - 240) + (b - 128)
            /\ v \div 64 = 64 * (64 * (a - 240) + (b - 128)) + (c - 128)
        BY <1>1, <1>2, SMT
      <3>2. v % 64 = d - 128 /\ v \div 1 = v
        BY <1>1, <1>2, SMT
      <3>3. (64 * (a - 240) + (b - 128)) % 64 = b - 128
        BY <1>1, SMT
      <3>4. (64 * (64 * (a - 240) + (b - 128)) + (c - 128)) % 64 = c - 128
        BY <1>1, SMT
      <3> QED
        BY <3>1, <3>2, <3>3, <3>4, SMT
    <2>2. /\ 240 + v \div 262144 = a
          /\ 128 + ((v \div 4096) % 64) = b
          /\ 128 + ((v \div 64) % 64) = c
          /\ 128 + ((v \div 1) % 64) = d
      BY <1>1, <2>1, SMT
    <2>3. ~(v < 128) /\ ~(v < 2048) /\ ~(v < 65536)
      BY <1>5, SMT
    <2> QED
      BY ONLY <2>2, <2>3, SMT DEF Utf8
  <1>6. Least[4] = 65536
    BY SMT DEF Least
  <1>7. /\ v \in Int /\ v >= 0
        /\ Good(v, 65536) <=> Right4(a, b)
        /\ v >= 65536 => Utf8(v) = <<a, b, c, d>>
    BY <1>2, <1>3, <1>4, <1>5, SMT DEF Right4
  <1>8. /\ v \in Int /\ v >= 0
        /\ Good(v, Least[4]) <=> Right4(a, b)
        /\ v >= Least[4] => Utf8(v) = <<a, b, c, d>>
    BY ONLY <1>6, <1>7, SMT
  <1> QED
    BY ONLY <1>c, <1>d, <1>8, Zenon

LEMMA SomeForm ==
    ASSUME NEW raw \in Seq(Octet), raw # <<>>
    PROVE  (\E form \in CharacterForms : Fits(form, raw, 1))
               <=> One(raw) \/ Two(raw) \/ Three(raw) \/ Four(raw)
  <1> DEFINE Letters == {9, 10, 13} \cup 32..126
             A2 == {194}        B2 == {133} \cup 160..191
             A3 == 195..223
             A4 == {224}        B4 == 160..191
             A5 == 225..236
             A6 == {237}        B6 == 128..159
             A7 == {238}
             A8 == {239}        B8 == 128..190
             B9 == {191}        C9 == 128..189
             A10 == {240}       B10 == 144..191
             A11 == 241..243
             A12 == {244}       B12 == 128..143
             F(form) == Fits(form, raw, 1)
             a == raw[1]  b == raw[2]  c == raw[3]
  <1>1. CharacterForms =
            {<<Letters>>, <<A2, B2>>, <<A3, Tails>>,
             <<A4, B4, Tails>>, <<A5, Tails, Tails>>, <<A6, B6, Tails>>,
             <<A7, Tails, Tails>>, <<A8, B8, Tails>>, <<A8, B9, C9>>,
             <<A10, B10, Tails, Tails>>, <<A11, Tails, Tails, Tails>>,
             <<A12, B12, Tails, Tails>>}
    BY DEF CharacterForms
  <1>2. ASSUME NEW o \in Int
        PROVE  /\ o \in Letters <=> o \in {9, 10, 13} \/ (o >= 32 /\ o <= 126)
               /\ o \in A2 <=> o = 194
               /\ o \in B2 <=> o = 133 \/ (o >= 160 /\ o <= 191)
               /\ o \in A3 <=> o >= 195 /\ o <= 223
               /\ o \in Tails <=> o >= 128 /\ o <= 191
    BY DEF Tails
  <1>3. ASSUME NEW o \in Int
        PROVE  /\ o \in A4 <=> o = 224
               /\ o \in B4 <=> o >= 160 /\ o <= 191
               /\ o \in A5 <=> o >= 225 /\ o <= 236
               /\ o \in A6 <=> o = 237
               /\ o \in B6 <=> o >= 128 /\ o <= 159
    OBVIOUS
  <1>4. ASSUME NEW o \in Int
        PROVE  /\ o \in A7 <=> o = 238
               /\ o \in A8 <=> o = 239
               /\ o \in B8 <=> o >= 128 /\ o <= 190
               /\ o \in B9 <=> o = 191
               /\ o \in C9 <=> o >= 128 /\ o <= 189
    OBVIOUS
  <1>5. ASSUME NEW o \in Int
        PROVE  /\ o \in A10 <=> o = 240
               /\ o \in B10 <=> o >= 144 /\ o <= 191
               /\ o \in A11 <=> o >= 241 /\ o <= 243
               /\ o \in A12 <=> o = 244
               /\ o \in B12 <=> o >= 128 /\ o <= 143
    OBVIOUS
  <1> HIDE DEF Letters, A2, B2, A3, A4, B4, A5, A6, B6, A7, A8, B8, B9, C9, A10, B10, A11, A12,
               B12, F
  <1>6. (\E form \in CharacterForms : F(form))
            <=> \/ F(<<Letters>>) \/ F(<<A2, B2>>) \/ F(<<A3, Tails>>)
                \/ F(<<A4, B4, Tails>>) \/ F(<<A5, Tails, Tails>>) \/ F(<<A6, B6, Tails>>)
                \/ F(<<A7, Tails, Tails>>) \/ F(<<A8, B8, Tails>>) \/ F(<<A8, B9, C9>>)
                \/ F(<<A10, B10, Tails, Tails>>) \/ F(<<A11, Tails, Tails, Tails>>)
                \/ F(<<A12, B12, Tails, Tails>>)
    <2>1. /\ <<Letters>> \in CharacterForms /\ <<A2, B2>> \in CharacterForms
          /\ <<A3, Tails>> \in CharacterForms /\ <<A4, B4, Tails>> \in CharacterForms
          /\ <<A5, Tails, Tails>> \in CharacterForms /\ <<A6, B6, Tails>> \in CharacterForms
          /\ <<A7, Tails, Tails>> \in CharacterForms /\ <<A8, B8, Tails>> \in CharacterForms
          /\ <<A8, B9, C9>> \in CharacterForms /\ <<A10, B10, Tails, Tails>> \in CharacterForms
          /\ <<A11, Tails, Tails, Tails>> \in CharacterForms
          /\ <<A12, B12, Tails, Tails>> \in CharacterForms
      BY <1>1
    <2>2. ASSUME NEW form \in CharacterForms, F(form)
          PROVE  \/ F(<<Letters>>) \/ F(<<A2, B2>>) \/ F(<<A3, Tails>>)
                 \/ F(<<A4, B4, Tails>>) \/ F(<<A5, Tails, Tails>>) \/ F(<<A6, B6, Tails>>)
                 \/ F(<<A7, Tails, Tails>>) \/ F(<<A8, B8, Tails>>) \/ F(<<A8, B9, C9>>)
                 \/ F(<<A10, B10, Tails, Tails>>) \/ F(<<A11, Tails, Tails, Tails>>)
                 \/ F(<<A12, B12, Tails, Tails>>)
      BY ONLY <1>1, <2>2, form \in CharacterForms, Zenon
    <2> QED
      BY ONLY <2>1, <2>2, Zenon
  <1>7. /\ Len(raw) \in Nat /\ Len(raw) >= 1
        /\ raw[1] \in Int
        /\ Len(raw) >= 2 => raw[2] \in Int
        /\ Len(raw) >= 3 => raw[3] \in Int
    <2>1. Len(raw) \in Nat /\ Len(raw) >= 1
      BY EmptySeq
    <2>2. \A i \in 1..Len(raw) : raw[i] \in Int
      <3>1. \A o \in Octet : o \in Int
        BY DEF Octet
      <3>2. \A i \in 1..Len(raw) : raw[i] \in Octet
        OBVIOUS
      <3> QED
        BY <3>1, <3>2
    <2> QED
      BY <2>1, <2>2
  <1>8. F(<<Letters>>) <=> One(raw)
    <2>1. F(<<Letters>>) <=> raw[1] \in Letters
      BY FitsOne DEF F
    <2> QED
      BY <1>2, <1>7, <2>1 DEF One
  <1>9. F(<<A2, B2>>) \/ F(<<A3, Tails>>) <=> Two(raw)
    <2>1. /\ F(<<A2, B2>>) <=> Len(raw) >= 2 /\ raw[1] \in A2 /\ raw[2] \in B2
          /\ F(<<A3, Tails>>) <=> Len(raw) >= 2 /\ raw[1] \in A3 /\ raw[2] \in Tails
      BY FitsTwo DEF F
    <2> QED
      BY <1>2, <1>7, <2>1 DEF Two
  <1>10. Three(raw) <=>
             \/ F(<<A4, B4, Tails>>) \/ F(<<A5, Tails, Tails>>) \/ F(<<A6, B6, Tails>>)
             \/ F(<<A7, Tails, Tails>>) \/ F(<<A8, B8, Tails>>) \/ F(<<A8, B9, C9>>)
    <2> DEFINE T(A, B, C) == Len(raw) >= 3 /\ raw[1] \in A /\ raw[2] \in B /\ raw[3] \in C
    <2>1. F(<<A4, B4, Tails>>) <=> T(A4, B4, Tails)
      BY FitsThree DEF F
    <2>2. F(<<A5, Tails, Tails>>) <=> T(A5, Tails, Tails)
      BY FitsThree DEF F
    <2>3. F(<<A6, B6, Tails>>) <=> T(A6, B6, Tails)
      BY FitsThree DEF F
    <2>4. F(<<A7, Tails, Tails>>) <=> T(A7, Tails, Tails)
      BY FitsThree DEF F
    <2>5. F(<<A8, B8, Tails>>) <=> T(A8, B8, Tails)
      BY FitsThree DEF F
    <2>6. F(<<A8, B9, C9>>) <=> T(A8, B9, C9)
      BY FitsThree DEF F
    <2>7. Three(raw) <=>
              \/ T(A4, B4, Tails) \/ T(A5, Tails, Tails) \/ T(A6, B6, Tails)
              \/ T(A7, Tails, Tails) \/ T(A8, B8, Tails) \/ T(A8, B9, C9)
      <3>1. T(A4, B4, Tails) <=>
                /\ Len(raw) >= 3 /\ raw[2] \in Tails /\ raw[3] \in Tails
                /\ raw[1] = 224 /\ raw[2] >= 160
        BY <1>2, <1>3, <1>7
      <3>2. T(A5, Tails, Tails) <=>
                /\ Len(raw) >= 3 /\ raw[2] \in Tails /\ raw[3] \in Tails
                /\ raw[1] >= 225 /\ raw[1] <= 236
        BY <1>3, <1>7
      <3>3. T(A6, B6, Tails) <=>
                /\ Len(raw) >= 3 /\ raw[2] \in Tails /\ raw[3] \in Tails
                /\ raw[1] = 237 /\ raw[2] <= 159
        BY <1>2, <1>3, <1>7
      <3>4. T(A7, Tails, Tails) <=>
                /\ Len(raw) >= 3 /\ raw[2] \in Tails /\ raw[3] \in Tails
                /\ raw[1] = 238
        BY <1>4, <1>7
      <3>5. T(A8, B8, Tails) \/ T(A8, B9, C9) <=>
                /\ Len(raw) >= 3 /\ raw[2] \in Tails /\ raw[3] \in Tails
                /\ raw[1] = 239 /\ (raw[2] <= 190 \/ raw[3] <= 189)
        BY <1>2, <1>4, <1>7
      <3> HIDE DEF T
      <3> QED
        BY <3>1, <3>2, <3>3, <3>4, <3>5 DEF Three
    <2> HIDE DEF T
    <2> QED
      BY ONLY <2>1, <2>2, <2>3, <2>4, <2>5, <2>6, <2>7, Zenon
  <1>11. Four(raw) <=>
             \/ F(<<A10, B10, Tails, Tails>>) \/ F(<<A11, Tails, Tails, Tails>>)
             \/ F(<<A12, B12, Tails, Tails>>)
    <2> DEFINE T(A, B) == /\ Len(raw) >= 4 /\ raw[1] \in A /\ raw[2] \in B
                          /\ raw[3] \in Tails /\ raw[4] \in Tails
    <2>1. F(<<A10, B10, Tails, Tails>>) <=> T(A10, B10)
      BY FitsFour DEF F
    <2>2. F(<<A11, Tails, Tails, Tails>>) <=> T(A11, Tails)
      BY FitsFour DEF F
    <2>3. F(<<A12, B12, Tails, Tails>>) <=> T(A12, B12)
      BY FitsFour DEF F
    <2>4. T(A10, B10) \/ T(A11, Tails) \/ T(A12, B12) <=> Four(raw)
      BY <1>2, <1>5, <1>7 DEF Four
    <2> HIDE DEF T
    <2> QED
      BY <2>1, <2>2, <2>3, <2>4
  <1>12. (\E form \in CharacterForms : F(form)) <=> One(raw) \/ Two(raw) \/ Three(raw) \/ Four(raw)
    <2> DEFINE F1 == F(<<Letters>>)
               F2 == F(<<A2, B2>>) \/ F(<<A3, Tails>>)
               F3 == \/ F(<<A4, B4, Tails>>) \/ F(<<A5, Tails, Tails>>) \/ F(<<A6, B6, Tails>>)
                     \/ F(<<A7, Tails, Tails>>) \/ F(<<A8, B8, Tails>>) \/ F(<<A8, B9, C9>>)
               F4 == \/ F(<<A10, B10, Tails, Tails>>) \/ F(<<A11, Tails, Tails, Tails>>)
                     \/ F(<<A12, B12, Tails, Tails>>)
    <2>1. (\E form \in CharacterForms : F(form)) <=> F1 \/ F2 \/ F3 \/ F4
      BY ONLY <1>6, Zenon
    <2>2. (F1 <=> One(raw)) /\ (F2 <=> Two(raw)) /\ (F3 <=> Three(raw)) /\ (F4 <=> Four(raw))
      <3>1. F1 <=> One(raw)
        BY ONLY <1>8
      <3>2. F2 <=> Two(raw)
        BY ONLY <1>9
      <3>3. F3 <=> Three(raw)
        BY ONLY <1>10
      <3>4. F4 <=> Four(raw)
        BY ONLY <1>11
      <3> QED
        BY ONLY <3>1, <3>2, <3>3, <3>4
    <2> HIDE DEF F1, F2, F3, F4
    <2> QED
      BY ONLY <2>1, <2>2
  <1> QED
    BY <1>12 DEF F

\* The first octets, each an octet.
LEMMA Octets ==
    ASSUME NEW raw \in Seq(Octet), raw # <<>>
    PROVE  /\ Len(raw) \in Nat /\ Len(raw) >= 1
           /\ raw[1] \in Octet
           /\ Len(raw) >= 2 => raw[2] \in Octet
           /\ Len(raw) >= 3 => raw[3] \in Octet
           /\ Len(raw) >= 4 => raw[4] \in Octet
  <1>1. Len(raw) \in Nat /\ Len(raw) >= 1
    BY EmptySeq
  <1>2. \A i \in 1..Len(raw) : raw[i] \in Octet
    OBVIOUS
  <1> QED
    BY <1>1, <1>2

LEMMA Tuples ==
    ASSUME NEW t \in Seq(Octet)
    PROVE  /\ Len(t) = 1 => t = <<t[1]>>
           /\ Len(t) = 2 => t = <<t[1], t[2]>>
           /\ Len(t) = 3 => t = <<t[1], t[2], t[3]>>
           /\ Len(t) = 4 => t = <<t[1], t[2], t[3], t[4]>>
  OBVIOUS

LEMMA FirstOf ==
    ASSUME NEW raw \in Seq(Octet), NEW n \in 1..4, Len(raw) >= n
    PROVE  /\ SubSeq(raw, 1, n) \in Seq(Octet)
           /\ Len(SubSeq(raw, 1, n)) = n
           /\ \A i \in 1..n : SubSeq(raw, 1, n)[i] = raw[i]
  <1>1. /\ 1 \in Int /\ n \in Int /\ 1 <= n /\ n - 1 + 1 = n
        /\ \A i \in 1..n : 1 + i - 1 = i
    OBVIOUS
  <1>2. \A i \in 1..n : raw[i] \in Octet
    OBVIOUS
  <1> QED
    BY <1>1, <1>2, SubSeqProperties

LEMMA Heads ==
    ASSUME NEW raw \in Seq(Octet)
    PROVE  /\ Len(raw) >= 1 => SubSeq(raw, 1, 1) = <<raw[1]>>
           /\ Len(raw) >= 2 => SubSeq(raw, 1, 2) = <<raw[1], raw[2]>>
           /\ Len(raw) >= 3 => SubSeq(raw, 1, 3) = <<raw[1], raw[2], raw[3]>>
           /\ Len(raw) >= 4 => SubSeq(raw, 1, 4) = <<raw[1], raw[2], raw[3], raw[4]>>
  <1>1. ASSUME Len(raw) >= 1 PROVE SubSeq(raw, 1, 1) = <<raw[1]>>
    <2> DEFINE t == SubSeq(raw, 1, 1)
    <2>1. t \in Seq(Octet) /\ Len(t) = 1 /\ \A i \in 1..1 : t[i] = raw[i]
      BY <1>1, FirstOf
    <2> HIDE DEF t
    <2>2. t[1] = raw[1]
      BY <2>1
    <2>3. t = <<t[1]>>
      BY <2>1, Tuples
    <2> QED
      BY <2>2, <2>3 DEF t
  <1>2. ASSUME Len(raw) >= 2 PROVE SubSeq(raw, 1, 2) = <<raw[1], raw[2]>>
    <2> DEFINE t == SubSeq(raw, 1, 2)
    <2>1. t \in Seq(Octet) /\ Len(t) = 2 /\ \A i \in 1..2 : t[i] = raw[i]
      BY <1>2, FirstOf
    <2> HIDE DEF t
    <2>2. t[1] = raw[1] /\ t[2] = raw[2]
      BY <2>1
    <2>3. t = <<t[1], t[2]>>
      BY <2>1, Tuples
    <2> QED
      BY <2>2, <2>3 DEF t
  <1>3. ASSUME Len(raw) >= 3 PROVE SubSeq(raw, 1, 3) = <<raw[1], raw[2], raw[3]>>
    <2> DEFINE t == SubSeq(raw, 1, 3)
    <2>1. t \in Seq(Octet) /\ Len(t) = 3 /\ \A i \in 1..3 : t[i] = raw[i]
      BY <1>3, FirstOf
    <2> HIDE DEF t
    <2>2. t[1] = raw[1] /\ t[2] = raw[2] /\ t[3] = raw[3]
      BY <2>1
    <2>3. t = <<t[1], t[2], t[3]>>
      BY <2>1, Tuples
    <2> QED
      BY <2>2, <2>3 DEF t
  <1>4. ASSUME Len(raw) >= 4 PROVE SubSeq(raw, 1, 4) = <<raw[1], raw[2], raw[3], raw[4]>>
    <2> DEFINE t == SubSeq(raw, 1, 4)
    <2>1. t \in Seq(Octet) /\ Len(t) = 4 /\ \A i \in 1..4 : t[i] = raw[i]
      BY <1>4, FirstOf
    <2> HIDE DEF t
    <2>2. t[1] = raw[1] /\ t[2] = raw[2] /\ t[3] = raw[3] /\ t[4] = raw[4]
      BY <2>1
    <2>3. t = <<t[1], t[2], t[3], t[4]>>
      BY <2>1, Tuples
    <2> QED
      BY <2>2, <2>3 DEF t
  <1> QED
    BY <1>1, <1>2, <1>3, <1>4

LEMMA Value1 ==
    ASSUME NEW a \in Octet, a \in 0..127
    PROVE  Utf8Value(<<a>>) = a
  <1>1. Utf8Value(<<a>>) = a % 128
    BY SMT DEF Utf8Value
  <1> QED
    BY <1>1, LeadIs

\* What is told of octets that are no character.
Told ==
    {"invalid leading UTF-8 octet", "incomplete character", "invalid trailing UTF-8 octet",
     "invalid length of a UTF-8 sequence", "invalid Unicode character",
     "unexpected low surrogate area", "expected low surrogate area",
     "control characters are not allowed"}

LEMMA Texts ==
    /\ NoError \notin Told
    /\ "invalid leading UTF-8 octet" \in Told
    /\ "incomplete character" \in Told
    /\ "invalid trailing UTF-8 octet" \in Told
    /\ "invalid length of a UTF-8 sequence" \in Told
    /\ "invalid Unicode character" \in Told
    /\ "unexpected low surrogate area" \in Told
    /\ "expected low surrogate area" \in Told
    /\ "control characters are not allowed" \in Told
  BY Zenon DEF NoError, Told

LEMMA CharacterIs ==
    ASSUME NEW code, NEW width
    PROVE  /\ Character(code, width).problem = NoError
           /\ Character(code, width).value = code
           /\ Character(code, width).width = width
  BY DEF Character

LEMMA ProblemIs ==
    ASSUME NEW text
    PROVE  Problem(text).problem = text /\ Problem(text).width = 0
  BY DEF Problem

\* The character at the head of raw, when it is complete: an error, or a code that is Good.
Taken(raw, n) ==
    LET c == DecodeUtf8(raw)
    IN  /\ c.problem # NoError => c.width = 0
        /\ c.problem = NoError => /\ c.width = n
                                  /\ c.value \in Nat
                                  /\ Allowed(c.value) => Utf8(c.value) = SubSeq(raw, 1, n)
        /\ c.problem = NoError /\ Allowed(c.value) <=> \E form \in CharacterForms : Fits(form, raw, 1)

\* How an octet sequence of more than one octet is judged, once it is complete.
Judged(v, n, least) ==
    IF v < least THEN Problem("invalid length of a UTF-8 sequence")
    ELSE IF v \in Surrogates \/ v > LastCode THEN Problem("invalid Unicode character")
    ELSE Character(v, n)

LEMMA Taking ==
    ASSUME NEW raw, NEW n, NEW least \in Int, least >= 0, NEW v \in Int, v >= 0,
           DecodeUtf8(raw) = Judged(v, n, least),
           Allowed(v) /\ v >= least => Utf8(v) = SubSeq(raw, 1, n),
           (\E form \in CharacterForms : Fits(form, raw, 1)) <=> Good(v, least)
    PROVE  Taken(raw, n)
  <1> DEFINE c == DecodeUtf8(raw)
             fits == \E form \in CharacterForms : Fits(form, raw, 1)
  <1>1. LastCode \in Int
    BY AllowedIs
  <1>2. c = Judged(v, n, least) /\ (fits <=> Good(v, least))
    OBVIOUS
  <1>3. SUFFICES /\ c.problem # NoError => c.width = 0
                 /\ c.problem = NoError => /\ c.width = n
                                           /\ c.value \in Nat
                                           /\ Allowed(c.value) => Utf8(c.value) = SubSeq(raw, 1, n)
                 /\ c.problem = NoError /\ Allowed(c.value) <=> fits
    BY Zenon DEF Taken
  <1> HIDE DEF c, fits
  <1>4. CASE v < least \/ v \in Surrogates \/ v > LastCode
    <2>1. c.problem # NoError /\ c.width = 0
      <3>1. \/ c = Problem("invalid length of a UTF-8 sequence")
            \/ c = Problem("invalid Unicode character")
        BY ONLY <1>2, <1>4, Zenon DEF Judged
      <3> QED
        BY ONLY <3>1, ProblemIs, Texts
    <2>2. ~Good(v, least)
      BY <1>1, <1>4, SMT DEF Good
    <2> QED
      BY <1>2, <2>1, <2>2
  <1>5. CASE ~(v < least \/ v \in Surrogates \/ v > LastCode)
    <2>1. c = Character(v, n)
      BY <1>2, <1>5 DEF Judged
    <2>2. c.problem = NoError /\ c.width = n /\ c.value = v
      BY <2>1 DEF Character
    <2>3. Good(v, least) <=> Allowed(v)
      BY <1>1, <1>5, SMT DEF Good
    <2>4. v \in Nat /\ v >= least
      BY <1>5
    <2>5. fits <=> Allowed(v)
      BY <1>2, <2>3
    <2>6. Allowed(v) => Utf8(v) = SubSeq(raw, 1, n)
      BY <2>4
    <2>7. c.value \in Nat /\ (Allowed(c.value) => Utf8(c.value) = SubSeq(raw, 1, n))
      BY ONLY <2>2, <2>4, <2>6, Zenon
    <2>8. Allowed(c.value) <=> fits
      BY ONLY <2>2, <2>5, Zenon
    <2> QED
      BY ONLY <2>2, <2>7, <2>8, Zenon
  <1> QED
    BY <1>4, <1>5

\* The number that DecodeUtf8 makes of the octets of a complete character.
LEMMA Complete ==
    ASSUME NEW raw \in Seq(Octet), raw # <<>>, NEW n \in 2..4, Utf8Width(raw[1]) = n, Len(raw) >= n,
           \A i \in 2..n : raw[i] \in Tails,
           NEW v, Utf8Value(SubSeq(raw, 1, n)) = v
    PROVE  DecodeUtf8(raw) = Judged(v, n, Least[n])
  <1>1. \A i \in 2..n : raw[i] \div 64 = 2
    <2>1. \A i \in 2..n : raw[i] \in Octet
      BY DEF Tails, Octet
    <2> QED
      BY <2>1, TailIs
  <1>2. n # 0 /\ ~(n > Len(raw)) /\ ~(\E i \in 2..n : raw[i] \div 64 # 2)
    BY <1>1
  <1> QED
    BY <1>2, Zenon DEF DecodeUtf8, Judged

LEMMA Torn ==
    ASSUME NEW raw \in Seq(Octet), raw # <<>>, NEW n \in 2..4, Utf8Width(raw[1]) = n, Len(raw) >= n,
           NEW i \in 2..n, raw[i] \notin Tails
    PROVE  /\ DecodeUtf8(raw).problem # NoError
           /\ DecodeUtf8(raw).width = 0
  <1>1. raw[i] \div 64 # 2
    BY TailIs
  <1>2. n # 0 /\ ~(n > Len(raw)) /\ \E k \in 2..n : raw[k] \div 64 # 2
    BY <1>1
  <1>3. DecodeUtf8(raw) = Problem("invalid trailing UTF-8 octet")
    BY <1>2, Zenon DEF DecodeUtf8
  <1>4. /\ Problem("invalid trailing UTF-8 octet").problem = "invalid trailing UTF-8 octet"
        /\ Problem("invalid trailing UTF-8 octet").width = 0
    BY ProblemIs, Zenon
  <1>5. DecodeUtf8(raw).problem = "invalid trailing UTF-8 octet" /\ DecodeUtf8(raw).width = 0
    BY ONLY <1>3, <1>4, Zenon
  <1> QED
    BY ONLY <1>5, Texts

LEMMA Decode1 ==
    ASSUME NEW raw \in Seq(Octet), raw # <<>>, Utf8Width(raw[1]) = 1
    PROVE  Taken(raw, 1)
  <1> DEFINE a == raw[1]
             octets == SubSeq(raw, 1, 1)
  <1>1. /\ Len(raw) \in Nat /\ Len(raw) >= 1
        /\ a \in Octet
        /\ octets = <<a>>
    BY Octets, Heads
  <1>2. a = raw[1] /\ octets = SubSeq(raw, 1, 1) /\ Utf8Width(raw[1]) = 1
    OBVIOUS
  <1> HIDE DEF a, octets
  <1>3. a \in 0..127
    BY <1>1, <1>2, WidthOf
  <1>4. a \in Int /\ a >= 0 /\ a <= 127
    BY <1>3
  <1>5. Utf8Value(octets) = a
    BY <1>1, <1>3, Value1
  <1>6. DecodeUtf8(raw) = IF a < Least[1] THEN Problem("invalid length of a UTF-8 sequence")
                          ELSE IF a \in Surrogates \/ a > LastCode
                          THEN Problem("invalid Unicode character")
                          ELSE Character(a, 1)
    <2>1. 1 # 0 /\ ~(1 > Len(raw)) /\ ~(\E i \in 2..1 : raw[i] \div 64 # 2)
      BY <1>1
    <2> QED
      BY <1>2, <1>5, <2>1, Zenon DEF DecodeUtf8
  <1>7. DecodeUtf8(raw) = Judged(a, 1, 0)
    <2>1. Least[1] = 0
      BY DEF Least
    <2> QED
      BY <1>6, <2>1, Zenon DEF Judged
  <1>8. One(raw) <=> a \in {9, 10, 13} \/ (a >= 32 /\ a <= 126)
    BY <1>2 DEF One
  <1>9. ~Two(raw) /\ ~Three(raw) /\ ~Four(raw)
    BY <1>2, <1>4, SMT DEF Two, Three, Four
  <1>10. Good(a, 0) <=> One(raw)
    BY <1>4, <1>8, AllowedIs, SMT DEF Good
  <1>11. (\E form \in CharacterForms : Fits(form, raw, 1)) <=> Good(a, 0)
    BY <1>9, <1>10, SomeForm, Zenon
  <1>12. Utf8(a) = SubSeq(raw, 1, 1)
    BY <1>1, <1>2, <1>4 DEF Utf8
  <1>13. 0 \in Int /\ 0 >= 0 /\ a >= 0
    BY <1>4
  <1> QED
    BY ONLY <1>4, <1>7, <1>11, <1>12, <1>13, Taking

LEMMA Decode2 ==
    ASSUME NEW raw \in Seq(Octet), raw # <<>>, Utf8Width(raw[1]) = 2, Len(raw) >= 2
    PROVE  Taken(raw, 2)
  <1> DEFINE a == raw[1]
             b == raw[2]
             octets == SubSeq(raw, 1, 2)
             tails == b \in Tails
             v == Sum2(a, b)
             good == Right2(a, b)
             fits == \E form \in CharacterForms : Fits(form, raw, 1)
  <1>1. /\ Len(raw) \in Nat
        /\ a \in Octet /\ b \in Octet
        /\ octets = <<a, b>>
    BY Octets, Heads
  <1>2. /\ a = raw[1] /\ b = raw[2]
        /\ octets = SubSeq(raw, 1, 2)
        /\ Utf8Width(raw[1]) = 2 /\ Len(raw) >= 2
    OBVIOUS
  <1> HIDE DEF a, b, octets
  <1>3. a \in 192..223
    BY <1>1, <1>2, WidthOf
  <1>4. a \in Int /\ a >= 192 /\ a <= 223
    BY <1>3
  <1>5. Two(raw) <=> tails /\ good
    BY <1>2, SMT DEF Two, Right2
  <1>6. ~One(raw) /\ ~Three(raw) /\ ~Four(raw)
    BY <1>2, <1>4, SMT DEF One, Three, Four
  <1> HIDE DEF good, tails, fits
  <1>7. fits <=> tails /\ good
    BY <1>5, <1>6, SomeForm, Zenon DEF fits
  <1>8. ASSUME ~tails PROVE Taken(raw, 2)
    <2>1. raw[2] \notin Tails
      BY ONLY <1>2, <1>8, Zenon DEF tails
    <2>2. 2 \in 2..2
      OBVIOUS
    <2>3. PICK i \in 2..2 : raw[i] \notin Tails
      BY ONLY <2>1, <2>2, Zenon
    <2>4. 2 \in 2..4
      OBVIOUS
    <2>5. DecodeUtf8(raw).problem # NoError /\ DecodeUtf8(raw).width = 0
      BY <1>2, <2>3, <2>4, Torn, Zenon
    <2> QED
      BY <1>7, <1>8, <2>5, Zenon DEF Taken, fits
  <1>9. ASSUME tails PROVE Taken(raw, 2)
    <2>1. \A i \in 2..2 : raw[i] \in Tails
      BY <1>2, <1>9 DEF tails
    <2>2. b \in Tails
      BY <1>9 DEF tails
    <2>3. Utf8Width(a) = 2
      BY ONLY <1>2, Zenon
    <2>4. /\ Utf8Value(<<a, b>>) = v
          /\ v \in Int /\ v >= 0
          /\ Good(v, Least[2]) <=> good
          /\ v >= Least[2] => Utf8(v) = <<a, b>>
      BY ONLY <1>1, <2>2, <2>3, Code2, Zenon DEF good
    <2> HIDE DEF v
    <2>5. 2 \in 2..4
      OBVIOUS
    <2>6. Utf8Value(SubSeq(raw, 1, 2)) = v
      BY ONLY <1>1, <1>2, <2>4, Zenon
    <2>7. DecodeUtf8(raw) = Judged(v, 2, Least[2])
      BY <1>2, <2>1, <2>5, <2>6, Complete, Zenon
    <2>8. Least[2] \in Int /\ Least[2] >= 0
      BY SMT DEF Least
    <2>9. v >= Least[2] => Utf8(v) = SubSeq(raw, 1, 2)
      BY ONLY <1>1, <1>2, <2>4, Zenon
    <2>10. fits <=> Good(v, Least[2])
      BY ONLY <1>7, <1>9, <2>4, Zenon
    <2> QED
      BY ONLY <2>4, <2>7, <2>8, <2>9, <2>10, Taking, Zenon DEF fits
  <1> QED
    BY <1>8, <1>9

LEMMA Decode3 ==
    ASSUME NEW raw \in Seq(Octet), raw # <<>>, Utf8Width(raw[1]) = 3, Len(raw) >= 3
    PROVE  Taken(raw, 3)
  <1> DEFINE a == raw[1]
             b == raw[2]
             c == raw[3]
             octets == SubSeq(raw, 1, 3)
             tails == b \in Tails /\ c \in Tails
             v == Sum3(a, b, c)
             good == Right3(a, b, c)
             fits == \E form \in CharacterForms : Fits(form, raw, 1)
  <1>1. /\ Len(raw) \in Nat
        /\ a \in Octet /\ b \in Octet /\ c \in Octet
        /\ octets = <<a, b, c>>
    BY Octets, Heads
  <1>2. /\ a = raw[1] /\ b = raw[2] /\ c = raw[3]
        /\ octets = SubSeq(raw, 1, 3)
        /\ Utf8Width(raw[1]) = 3 /\ Len(raw) >= 3
    OBVIOUS
  <1> HIDE DEF a, b, c, octets
  <1>3. a \in 224..239
    BY <1>1, <1>2, WidthOf
  <1>4. a \in Int /\ a >= 224 /\ a <= 239
    BY <1>3
  <1>5. Three(raw) <=> tails /\ good
    BY <1>2, SMT DEF Three, Right3
  <1>6. ~One(raw) /\ ~Two(raw) /\ ~Four(raw)
    BY <1>2, <1>4, SMT DEF One, Two, Four
  <1> HIDE DEF good, tails, fits
  <1>7. fits <=> tails /\ good
    BY <1>5, <1>6, SomeForm, Zenon DEF fits
  <1>8. ASSUME ~tails PROVE Taken(raw, 3)
    <2>1. raw[2] \notin Tails \/ raw[3] \notin Tails
      BY ONLY <1>2, <1>8, Zenon DEF tails
    <2>2. 2 \in 2..3 /\ 3 \in 2..3
      OBVIOUS
    <2>3. PICK i \in 2..3 : raw[i] \notin Tails
      BY ONLY <2>1, <2>2, Zenon
    <2>4. 3 \in 2..4
      OBVIOUS
    <2>5. DecodeUtf8(raw).problem # NoError /\ DecodeUtf8(raw).width = 0
      BY <1>2, <2>3, <2>4, Torn, Zenon
    <2> QED
      BY <1>7, <1>8, <2>5, Zenon DEF Taken, fits
  <1>9. ASSUME tails PROVE Taken(raw, 3)
    <2>1. \A i \in 2..3 : raw[i] \in Tails
      BY <1>2, <1>9 DEF tails
    <2>2. b \in Tails /\ c \in Tails
      BY <1>9 DEF tails
    <2>3. Utf8Width(a) = 3
      BY ONLY <1>2, Zenon
    <2>4. /\ Utf8Value(<<a, b, c>>) = v
          /\ v \in Int /\ v >= 0
          /\ Good(v, Least[3]) <=> good
          /\ v >= Least[3] => Utf8(v) = <<a, b, c>>
      BY ONLY <1>1, <2>2, <2>3, Code3, Zenon DEF good
    <2> HIDE DEF v
    <2>5. 3 \in 2..4
      OBVIOUS
    <2>6. Utf8Value(SubSeq(raw, 1, 3)) = v
      BY ONLY <1>1, <1>2, <2>4, Zenon
    <2>7. DecodeUtf8(raw) = Judged(v, 3, Least[3])
      BY <1>2, <2>1, <2>5, <2>6, Complete, Zenon
    <2>8. Least[3] \in Int /\ Least[3] >= 0
      BY SMT DEF Least
    <2>9. v >= Least[3] => Utf8(v) = SubSeq(raw, 1, 3)
      BY ONLY <1>1, <1>2, <2>4, Zenon
    <2>10. fits <=> Good(v, Least[3])
      BY ONLY <1>7, <1>9, <2>4, Zenon
    <2> QED
      BY ONLY <2>4, <2>7, <2>8, <2>9, <2>10, Taking, Zenon DEF fits
  <1> QED
    BY <1>8, <1>9

LEMMA Decode4 ==
    ASSUME NEW raw \in Seq(Octet), raw # <<>>, Utf8Width(raw[1]) = 4, Len(raw) >= 4
    PROVE  Taken(raw, 4)
  <1> DEFINE a == raw[1]
             b == raw[2]
             c == raw[3]
             d == raw[4]
             octets == SubSeq(raw, 1, 4)
             tails == b \in Tails /\ c \in Tails /\ d \in Tails
             v == Sum4(a, b, c, d)
             good == Right4(a, b)
             fits == \E form \in CharacterForms : Fits(form, raw, 1)
  <1>1. /\ Len(raw) \in Nat
        /\ a \in Octet /\ b \in Octet /\ c \in Octet /\ d \in Octet
        /\ octets = <<a, b, c, d>>
    BY Octets, Heads
  <1>2. /\ a = raw[1] /\ b = raw[2] /\ c = raw[3] /\ d = raw[4]
        /\ octets = SubSeq(raw, 1, 4)
        /\ Utf8Width(raw[1]) = 4 /\ Len(raw) >= 4
    OBVIOUS
  <1> HIDE DEF a, b, c, d, octets
  <1>3. a \in 240..247
    BY <1>1, <1>2, WidthOf
  <1>4. a \in Int /\ a >= 240 /\ a <= 247
    BY <1>3
  <1>5. Four(raw) <=> tails /\ good
    BY <1>2, SMT DEF Four, Right4
  <1>6. ~One(raw) /\ ~Two(raw) /\ ~Three(raw)
    BY <1>2, <1>4, SMT DEF One, Two, Three
  <1> HIDE DEF good, tails, fits
  <1>7. fits <=> tails /\ good
    BY <1>5, <1>6, SomeForm, Zenon DEF fits
  <1>8. ASSUME ~tails PROVE Taken(raw, 4)
    <2>1. raw[2] \notin Tails \/ raw[3] \notin Tails \/ raw[4] \notin Tails
      BY ONLY <1>2, <1>8, Zenon DEF tails
    <2>2. 2 \in 2..4 /\ 3 \in 2..4 /\ 4 \in 2..4
      OBVIOUS
    <2>3. PICK i \in 2..4 : raw[i] \notin Tails
      BY ONLY <2>1, <2>2, Zenon
    <2>4. 4 \in 2..4
      OBVIOUS
    <2>5. DecodeUtf8(raw).problem # NoError /\ DecodeUtf8(raw).width = 0
      BY <1>2, <2>3, <2>4, Torn, Zenon
    <2> QED
      BY <1>7, <1>8, <2>5, Zenon DEF Taken, fits
  <1>9. ASSUME tails PROVE Taken(raw, 4)
    <2>1. \A i \in 2..4 : raw[i] \in Tails
      BY <1>2, <1>9 DEF tails
    <2>2. b \in Tails /\ c \in Tails /\ d \in Tails
      BY <1>9 DEF tails
    <2>3. Utf8Width(a) = 4
      BY ONLY <1>2, Zenon
    <2>4. /\ Utf8Value(<<a, b, c, d>>) = v
          /\ v \in Int /\ v >= 0
          /\ Good(v, Least[4]) <=> good
          /\ v >= Least[4] => Utf8(v) = <<a, b, c, d>>
      BY ONLY <1>1, <2>2, <2>3, Code4, Zenon DEF good
    <2> HIDE DEF v
    <2>5. 4 \in 2..4
      OBVIOUS
    <2>6. Utf8Value(SubSeq(raw, 1, 4)) = v
      BY ONLY <1>1, <1>2, <2>4, Zenon
    <2>7. DecodeUtf8(raw) = Judged(v, 4, Least[4])
      BY <1>2, <2>1, <2>5, <2>6, Complete, Zenon
    <2>8. Least[4] \in Int /\ Least[4] >= 0
      BY SMT DEF Least
    <2>9. v >= Least[4] => Utf8(v) = SubSeq(raw, 1, 4)
      BY ONLY <1>1, <1>2, <2>4, Zenon
    <2>10. fits <=> Good(v, Least[4])
      BY ONLY <1>7, <1>9, <2>4, Zenon
    <2> QED
      BY ONLY <2>4, <2>7, <2>8, <2>9, <2>10, Taking, Zenon DEF fits
  <1> QED
    BY <1>8, <1>9

LEMMA OctetTuples ==
    ASSUME NEW a \in Octet
    PROVE  /\ <<a>> \in Seq(Octet)
           /\ \A b \in Octet : <<a, b>> \in Seq(Octet)
           /\ \A b, c \in Octet : <<a, b, c>> \in Seq(Octet)
           /\ \A b, c, d \in Octet : <<a, b, c, d>> \in Seq(Octet)
  OBVIOUS

\* Whatever the code of a character is, octets are put into the buffer.
LEMMA PlacedOctets ==
    ASSUME NEW c, c.value \in Int, c.value >= 0, c.value <= LastCode, c.width \in Nat
    PROVE  Placed(c) \in Seq(Octet)
  <1> DEFINE v == c.value
             w == c.width
             u == Utf8(v)
  <1>1. LastCode = 1114111
    BY AllowedIs, SMT
  <1>2. v \in Int /\ v >= 0 /\ v <= 1114111
    BY <1>1, SMT
  <1>3. Placed(c) = [i \in 1..w |-> IF i \in DOMAIN u THEN u[i] ELSE 0]
    BY SMT DEF Placed
  <1> HIDE DEF v
  <1>4. ASSUME NEW n \in Nat PROVE n % 64 \in Int /\ 0 <= n % 64 /\ n % 64 <= 63
    BY SMT
  <1>5. /\ v \div 1 \in Nat /\ v \div 64 \in Nat /\ v \div 4096 \in Nat
        /\ v < 2048 => v \div 64 <= 31
        /\ v < 65536 => v \div 4096 <= 15
        /\ v \div 262144 \in Int /\ v \div 262144 >= 0 /\ v \div 262144 <= 7
    BY <1>2, SMT
  <1> DEFINE t(bits) == 128 + ((v \div bits) % 64)
  <1>6. t(1) \in Octet /\ t(64) \in Octet /\ t(4096) \in Octet
    BY <1>4, <1>5, SMT DEF Octet
  <1>7. /\ v < 128 => v \in Octet
        /\ v < 2048 => 192 + v \div 64 \in Octet
        /\ v < 65536 => 224 + v \div 4096 \in Octet
        /\ 240 + v \div 262144 \in Octet
    BY <1>2, <1>5, SMT DEF Octet
  <1>8. \/ u = <<v>> /\ v < 128
        \/ u = <<192 + v \div 64, t(1)>> /\ v < 2048
        \/ u = <<224 + v \div 4096, t(64), t(1)>> /\ v < 65536
        \/ u = <<240 + v \div 262144, t(4096), t(64), t(1)>>
    <2>1. CASE v < 128
      BY <2>1, SMT DEF Utf8
    <2>2. CASE ~(v < 128) /\ v < 2048
      BY <2>2, SMT DEF Utf8
    <2>3. CASE ~(v < 128) /\ ~(v < 2048) /\ v < 65536
      BY <2>3, SMT DEF Utf8
    <2>4. CASE ~(v < 128) /\ ~(v < 2048) /\ ~(v < 65536)
      BY <2>4, SMT DEF Utf8
    <2> QED
      BY ONLY <2>1, <2>2, <2>3, <2>4
  <1> DEFINE two == 192 + v \div 64
             three == 224 + v \div 4096
             four == 240 + v \div 262144
             small == v < 128
             middling == v < 2048
             large == v < 65536
  <1>9. u \in Seq(Octet)
    <2>1. /\ \/ u = <<v>> /\ small
             \/ u = <<two, t(1)>> /\ middling
             \/ u = <<three, t(64), t(1)>> /\ large
             \/ u = <<four, t(4096), t(64), t(1)>>
          /\ small => v \in Octet
          /\ middling => two \in Octet
          /\ large => three \in Octet
          /\ four \in Octet
      BY <1>7, <1>8, SMT
    <2> DEFINE last == t(1)  second == t(64)  first == t(4096)
    <2>2. /\ last \in Octet /\ second \in Octet /\ first \in Octet
          /\ \/ u = <<v>> /\ small
             \/ u = <<two, last>> /\ middling
             \/ u = <<three, second, last>> /\ large
             \/ u = <<four, first, second, last>>
      BY <1>6, <2>1, SMT
    <2> HIDE DEF t, u, two, three, four, small, middling, large, last, second, first
    <2>3. small => <<v>> \in Seq(Octet)
      BY ONLY <2>1, OctetTuples, SMT
    <2>4. middling => <<two, last>> \in Seq(Octet)
      BY ONLY <2>1, <2>2, OctetTuples, SMT
    <2>5. large => <<three, second, last>> \in Seq(Octet)
      BY ONLY <2>1, <2>2, OctetTuples, SMT
    <2>6. <<four, first, second, last>> \in Seq(Octet)
      BY ONLY <2>1, <2>2, OctetTuples, SMT
    <2> QED
      BY ONLY <2>2, <2>3, <2>4, <2>5, <2>6, Zenon
  <1> HIDE DEF u, w
  <1>10. \A i \in DOMAIN u : u[i] \in Octet
    BY <1>9, SMT
  <1>11. 0 \in Octet
    BY SMT DEF Octet
  <1>12. w \in Nat
    BY SMT DEF w
  <1> QED
    BY <1>3, <1>10, <1>11, <1>12, SMT

-----------------------------------------------------------------------------
(* The octets that are moved.                                                *)

LEMMA BehindIs ==
    ASSUME NEW s \in Seq(Octet), NEW n \in 0..Len(s)
    PROVE  /\ Behind(s, n) \in Seq(Octet)
           /\ Len(Behind(s, n)) = Len(s) - n
           /\ SubSeq(s, 1, n) \in Seq(Octet)
           /\ Len(SubSeq(s, 1, n)) = n
           /\ SubSeq(s, 1, n) \o Behind(s, n) = s
  <1>1. /\ Len(s) \in Nat /\ n \in Int /\ n >= 0 /\ n <= Len(s)
        /\ \A i \in 1..Len(s) : s[i] \in Octet
    OBVIOUS
  <1>2. SubSeq(s, n + 1, Len(s)) \in Seq(Octet) /\ Len(SubSeq(s, n + 1, Len(s))) = Len(s) - n
    <2>1. \A i \in n + 1..Len(s) : s[i] \in Octet
      BY <1>1
    <2>2. IF n + 1 <= Len(s) THEN Len(s) - (n + 1) + 1 = Len(s) - n ELSE 0 = Len(s) - n
      BY <1>1
    <2> QED
      BY <1>1, <2>1, <2>2, SubSeqProperties
  <1>3. SubSeq(s, 1, n) \in Seq(Octet) /\ Len(SubSeq(s, 1, n)) = n
    <2>1. \A i \in 1..n : s[i] \in Octet
      BY <1>1
    <2>2. IF 1 <= n THEN n - 1 + 1 = n ELSE 0 = n
      BY <1>1
    <2> QED
      BY <1>1, <2>1, <2>2, SubSeqProperties
  <1>4. SubSeq(s, 1, n) \o SubSeq(s, n + 1, Len(s)) = SubSeq(s, 1, Len(s))
    <2>1. 1 \in 1..Len(s) + 1 /\ n \in 1 - 1..Len(s) /\ Len(s) \in n..Len(s)
      BY <1>1
    <2> QED
      BY <2>1, ConcatAdjacentSubSeq
  <1>5. SubSeq(s, 1, Len(s)) = s
    BY SubSeqFull
  <1> QED
    BY <1>2, <1>3, <1>4, <1>5 DEF Behind

\* What is behind the first octets that are behind others.
LEMMA BehindBehind ==
    ASSUME NEW s \in Seq(Octet), NEW n \in 0..Len(s), NEW m \in 0..Len(s) - n
    PROVE  /\ n + m \in 0..Len(s)
           /\ SubSeq(Behind(s, n), 1, m) \o Behind(s, n + m) = Behind(s, n)
           /\ SubSeq(Behind(s, n), 1, m) \in Seq(Octet)
           /\ Len(SubSeq(Behind(s, n), 1, m)) = m
  <1> DEFINE t == Behind(s, n)
  <1>1. Len(s) \in Nat /\ n \in Nat /\ m \in Nat /\ n + m <= Len(s)
    OBVIOUS
  <1>2. n + m \in 0..Len(s)
    BY <1>1
  <1>3. t \in Seq(Octet) /\ Len(t) = Len(s) - n
    BY BehindIs
  <1>4. m \in 0..Len(t)
    BY <1>3
  <1> HIDE DEF t
  <1>5. /\ SubSeq(t, 1, m) \in Seq(Octet) /\ Len(SubSeq(t, 1, m)) = m
        /\ SubSeq(t, 1, m) \o Behind(t, m) = t
    BY <1>3, <1>4, BehindIs
  <1>6. Behind(t, m) = Behind(s, n + m)
    <2>1. /\ Behind(t, m) \in Seq(Octet) /\ Len(Behind(t, m)) = Len(s) - (n + m)
          /\ Behind(s, n + m) \in Seq(Octet) /\ Len(Behind(s, n + m)) = Len(s) - (n + m)
      <3>1. Behind(t, m) \in Seq(Octet) /\ Len(Behind(t, m)) = Len(t) - m
        BY ONLY <1>3, <1>4, BehindIs
      <3>2. Behind(s, n + m) \in Seq(Octet) /\ Len(Behind(s, n + m)) = Len(s) - (n + m)
        BY <1>2, BehindIs
      <3>3. (Len(s) - n) - m = Len(s) - (n + m)
        BY <1>1
      <3> QED
        BY ONLY <1>3, <3>1, <3>2, <3>3
    <2>2. ASSUME NEW i \in 1..Len(s) - (n + m)
          PROVE  Behind(t, m)[i] = Behind(s, n + m)[i]
      <3>1. /\ m + i \in 1..Len(t) /\ m + i \in 1..Len(s) - n
            /\ \A k \in m + 1..Len(t) : k \in 1..Len(t)
            /\ i \in 1..Len(t) - (m + 1) + 1
            /\ m + 1 + i - 1 = m + i
        BY <1>1, <1>3
      <3>2. Behind(t, m)[i] = t[m + i]
        <4>1. \A k \in m + 1..Len(t) : t[k] \in Octet
          BY <1>3, <3>1
        <4>2. m + 1 \in Int /\ Len(t) \in Int
          BY <1>1, <1>3
        <4> QED
          BY <3>1, <4>1, <4>2, SubSeqProperties DEF Behind
      <3>3. t[m + i] = s[n + m + i]
        <4>1. \A k \in n + 1..Len(s) : s[k] \in Octet
          BY <1>1
        <4>2. n + 1 \in Int /\ Len(s) \in Int /\ n + 1 + (m + i) - 1 = n + m + i
          BY <1>1
        <4>3. m + i \in 1..Len(s) - (n + 1) + 1
          BY <1>1, <3>1
        <4> QED
          BY <4>1, <4>2, <4>3, SubSeqProperties DEF Behind, t
      <3>4. Behind(s, n + m)[i] = s[n + m + i]
        <4>1. \A k \in n + m + 1..Len(s) : s[k] \in Octet
          BY <1>1
        <4>2. n + m + 1 \in Int /\ Len(s) \in Int /\ n + m + 1 + i - 1 = n + m + i
          BY <1>1
        <4>3. i \in 1..Len(s) - (n + m + 1) + 1
          BY <1>1
        <4> QED
          BY <4>1, <4>2, <4>3, SubSeqProperties DEF Behind
      <3> QED
        BY <3>2, <3>3, <3>4
    <2> QED
      BY <2>1, <2>2, SeqEqual
  <1> QED
    BY <1>2, <1>5, <1>6 DEF t

-----------------------------------------------------------------------------
(* The next character.                                                        *)

\* A form that fits the octets fits with others behind them, and the other way.
LEMMA FitsAhead ==
    ASSUME NEW raw \in Seq(Octet), raw # <<>>, NEW rest \in Seq(Octet), NEW form \in CharacterForms,
           Fits(form, raw \o rest, 1)
    PROVE  /\ Len(form) = Utf8Width(raw[1])
           /\ Len(form) \in 1..4
           /\ Len(form) <= Len(raw) => Fits(form, raw, 1)
           /\ rest = <<>> => Len(form) <= Len(raw)
  <1> DEFINE u == raw \o rest
  <1>1. /\ u \in Seq(Octet) /\ Len(u) = Len(raw) + Len(rest)
        /\ u[1] = raw[1]
        /\ Len(raw) \in Nat /\ Len(raw) >= 1 /\ Len(rest) \in Nat
    <2>1. u \in Seq(Octet) /\ Len(u) = Len(raw) + Len(rest)
      BY ConcatProperties
    <2>2. Len(raw) \in Nat /\ Len(raw) >= 1 /\ Len(rest) \in Nat
      BY EmptySeq
    <2>3. 1 \in 1..Len(raw) + Len(rest) /\ 1 <= Len(raw)
      BY <2>2
    <2>4. u[1] = raw[1]
      BY <2>3, ConcatProperties
    <2> QED
      BY <2>1, <2>2, <2>4
  <1>2. Fits(form, u, 1) /\ 1 \in Nat
    OBVIOUS
  <1> HIDE DEF u
  <1>3. Len(form) = Utf8Width(u[1]) /\ Len(form) \in 1..4 /\ 1 + Len(form) <= Len(u) + 1
    BY <1>1, <1>2, FitsLength
  <1>4. Len(form) <= Len(raw) => Fits(form, raw, 1)
    <2>1. Len(form) <= Len(raw) => 1 + Len(form) <= Len(raw) + 1
      BY <1>1, <1>3
    <2>2. 1 \in Int
      OBVIOUS
    <2> QED
      BY <1>2, <2>1, <2>2, FitsWithin DEF u
  <1>5. rest = <<>> => Len(form) <= Len(raw)
    <2>1. rest = <<>> => Len(rest) = 0
      OBVIOUS
    <2> QED
      BY <1>1, <1>3, <2>1
  <1> QED
    BY <1>1, <1>3, <1>4, <1>5

\* The octets of the character at the head of raw.
Fitting(raw, n) ==
    /\ n \in 1..4 /\ n <= Len(raw)
    /\ \E form \in CharacterForms : Len(form) = n /\ Fits(form, SubSeq(raw, 1, n), 1)

LEMMA Decodes ==
    ASSUME NEW raw \in Seq(Octet), raw # <<>>
    PROVE  LET n == Utf8Width(raw[1])
           IN  n \in 1..4 /\ n <= Len(raw) => Taken(raw, n)
  <1>1. Len(raw) \in Nat /\ raw[1] \in Octet
    BY Octets
  <1>2. Utf8Width(raw[1]) \in 0..4
    BY <1>1, WidthOf
  <1>3. ASSUME Utf8Width(raw[1]) = 1 PROVE Taken(raw, 1)
    BY <1>3, Decode1
  <1>4. ASSUME Utf8Width(raw[1]) = 2, 2 <= Len(raw) PROVE Taken(raw, 2)
    BY <1>1, <1>4, Decode2
  <1>5. ASSUME Utf8Width(raw[1]) = 3, 3 <= Len(raw) PROVE Taken(raw, 3)
    BY <1>1, <1>5, Decode3
  <1>6. ASSUME Utf8Width(raw[1]) = 4, 4 <= Len(raw) PROVE Taken(raw, 4)
    BY <1>1, <1>6, Decode4
  <1>7. SUFFICES ASSUME NEW n, n = Utf8Width(raw[1]), n \in 1..4, n <= Len(raw)
                 PROVE  Taken(raw, n)
    OBVIOUS
  <1>8. n = 1 \/ n = 2 \/ n = 3 \/ n = 4
    BY <1>7
  <1> QED
    BY ONLY <1>3, <1>4, <1>5, <1>6, <1>7, <1>8, Zenon

(* Whatever is to come behind the raw octets: an error is told only where no character     *)
(* of the forms begins, and else the octets of one are put into the buffer as they were.  *)
LEMMA NextUtf8 ==
    ASSUME NEW raw \in Seq(Octet), raw # <<>>, NEW rest \in Seq(Octet),
           NEW eof \in BOOLEAN, eof => rest = <<>>,
           NEW c, c = Checked(DecodeUtf8(raw), eof), c # Incomplete
    PROVE  /\ c.problem # NoError => c.problem \in Told
           /\ c.problem # NoError => \A form \in CharacterForms : ~Fits(form, raw \o rest, 1)
           /\ c.problem = NoError => Fitting(raw, c.width) /\ Placed(c) = SubSeq(raw, 1, c.width)
  <1> DEFINE d == DecodeUtf8(raw)
             n == Utf8Width(raw[1])
             lost == \A form \in CharacterForms : ~Fits(form, raw \o rest, 1)
             goal == /\ c.problem # NoError => c.problem \in Told
                     /\ c.problem # NoError => lost
                     /\ c.problem = NoError => Fitting(raw, c.width) /\ Placed(c) = SubSeq(raw, 1, c.width)
  <1>1. Len(raw) \in Nat /\ raw[1] \in Octet /\ n \in 0..4
    BY Octets, WidthOf
  <1>2. d = DecodeUtf8(raw) /\ n = Utf8Width(raw[1]) /\ c = Checked(d, eof)
    OBVIOUS
  <1>3. ASSUME NEW form \in CharacterForms, Fits(form, raw \o rest, 1)
        PROVE  /\ n \in 1..4 /\ Len(form) = n
               /\ n <= Len(raw) => Fits(form, raw, 1)
               /\ rest = <<>> => n <= Len(raw)
    <2>1. /\ Len(form) = n /\ Len(form) \in 1..4
          /\ Len(form) <= Len(raw) => Fits(form, raw, 1)
          /\ rest = <<>> => Len(form) <= Len(raw)
      BY <1>3, FitsAhead, Zenon
    <2> HIDE DEF n
    <2> QED
      BY <2>1, Zenon
  <1>4. ASSUME NEW text \in Told, c = Problem(text), lost PROVE goal
    <2>1. c.problem = text
      BY <1>4, ProblemIs
    <2>2. c.problem \in Told /\ c.problem # NoError
      BY <1>4, <2>1, Texts
    <2> QED
      BY ONLY <1>4, <2>2, Zenon
  <1> HIDE DEF d, n
  <1>5. CASE n = 0
    <2>1. d = Problem("invalid leading UTF-8 octet")
      BY <1>2, <1>5, Zenon DEF DecodeUtf8
    <2>2. d.problem # NoError
      <3>1. Problem("invalid leading UTF-8 octet").problem # NoError
        BY ProblemIs, Texts
      <3> QED
        BY <2>1, <3>1, Zenon
    <2>3. c = Problem("invalid leading UTF-8 octet")
      BY ONLY <1>2, <2>1, <2>2, Zenon DEF Checked
    <2>4. lost
      BY <1>3, <1>5
    <2> QED
      BY ONLY <1>4, <2>3, <2>4, Texts, Zenon
  <1>6. CASE n # 0 /\ n > Len(raw)
    <2>1. d = Incomplete
      BY <1>2, <1>6, Zenon DEF DecodeUtf8
    <2>2. d.problem = NoError /\ d.width = 0
      BY <2>1 DEF Incomplete, Character
    <2>3. eof /\ c = Problem("incomplete character")
      BY <1>2, <2>1, <2>2, Zenon DEF Checked
    <2>4. rest = <<>> /\ ~(n <= Len(raw))
      <3>1. rest = <<>>
        BY <2>3, Zenon
      <3>2. ~(n <= Len(raw))
        BY ONLY <1>1, <1>6
      <3> QED
        BY ONLY <3>1, <3>2, Zenon
    <2>5. lost
      <3>1. SUFFICES ASSUME NEW form \in CharacterForms, Fits(form, raw \o rest, 1) PROVE FALSE
        OBVIOUS
      <3>2. rest = <<>> => n <= Len(raw)
        BY <1>3, <3>1
      <3> QED
        BY ONLY <2>4, <3>2
    <2> QED
      BY ONLY <1>4, <2>3, <2>5, Texts, Zenon
  <1>7. CASE n # 0 /\ ~(n > Len(raw))
    <2>1. n \in 1..4 /\ n <= Len(raw)
      BY <1>1, <1>7
    <2>2. Taken(raw, n)
      BY <1>2, <2>1, Decodes, Zenon
    <2> DEFINE fits == \E form \in CharacterForms : Fits(form, raw, 1)
    <2>3. /\ d.problem # NoError => d.width = 0
          /\ d.problem = NoError => /\ d.width = n
                                    /\ Allowed(d.value) => Utf8(d.value) = SubSeq(raw, 1, n)
          /\ d.problem = NoError /\ Allowed(d.value) <=> fits
      BY ONLY <1>2, <2>2, Zenon DEF Taken
    <2>4. ASSUME ~fits PROVE lost
      BY <1>3, <2>1, <2>4
    <2>5. CASE d.problem # NoError
      <3>1. c = d
        BY ONLY <1>2, <2>5, Zenon DEF Checked
      <3>2. d.problem \in Told
        <4> DEFINE texts == {"invalid leading UTF-8 octet", "invalid trailing UTF-8 octet",
                             "invalid length of a UTF-8 sequence", "invalid Unicode character"}
        <4>1. \A text \in texts : Problem(text).problem \in Told
          BY ProblemIs, Texts
        <4>2. \A v, w : Character(v, w).problem = NoError
          BY DEF Character
        <4>3. \/ \E text \in texts : d = Problem(text)
              \/ \E v, w : d = Character(v, w)
          BY ONLY <1>2, Zenon DEF DecodeUtf8, Incomplete
        <4> QED
          BY ONLY <2>5, <4>1, <4>2, <4>3, Zenon
      <3> QED
        BY <2>3, <2>4, <2>5, <3>1, <3>2
    <2>6. CASE d.problem = NoError /\ ~Allowed(d.value)
      <3>1. d.width # 0
        BY <2>1, <2>3, <2>6
      <3>2. c = Problem("control characters are not allowed")
        BY ONLY <1>2, <2>6, <3>1, Zenon DEF Checked
      <3>3. lost
        BY <2>3, <2>4, <2>6
      <3> QED
        BY ONLY <1>4, <3>2, <3>3, Texts, Zenon
    <2>7. CASE d.problem = NoError /\ Allowed(d.value)
      <3>1. d.width = n /\ d.width # 0
        BY <2>1, <2>3, <2>7
      <3>2. c = d
        BY ONLY <1>2, <2>7, <3>1, Zenon DEF Checked
      <3> DEFINE head == SubSeq(raw, 1, n)
                 behind == Behind(raw, n)
      <3>3. n \in 0..Len(raw)
        BY <1>1, <2>1
      <3>4. /\ head \in Seq(Octet) /\ Len(head) = n
            /\ behind \in Seq(Octet)
            /\ head \o behind = raw
        BY <3>3, BehindIs
      <3> HIDE DEF head, behind
      <3>5. PICK form \in CharacterForms : Fits(form, raw, 1)
        BY <2>3, <2>7
      <3>6. Len(form) = n
        <4>1. 1 \in Nat
          OBVIOUS
        <4> QED
          BY <1>2, <3>5, <4>1, FitsLength
      <3>7. Fits(form, head, 1)
        <4>1. 1 \in Int /\ 1 + Len(form) <= Len(head) + 1
          BY <2>1, <3>4, <3>6
        <4>2. Fits(form, head \o behind, 1)
          BY ONLY <3>4, <3>5, Zenon
        <4> QED
          BY ONLY <3>4, <4>1, <4>2, form \in CharacterForms, FitsWithin, Zenon
      <3>8. Fitting(raw, n)
        BY <2>1, <3>6, <3>7, Zenon DEF Fitting, head
      <3>9. Placed(c) = head
        <4>1. Utf8(d.value) = head
          BY ONLY <2>3, <2>7, Zenon DEF head
        <4>2. Placed(c) = [i \in 1..n |-> IF i \in DOMAIN head THEN head[i] ELSE 0]
          BY ONLY <3>1, <3>2, <4>1, Zenon DEF Placed
        <4>3. DOMAIN head = 1..n /\ head = [i \in 1..n |-> head[i]]
          BY <3>4
        <4>4. ASSUME NEW i \in 1..n PROVE (IF i \in DOMAIN head THEN head[i] ELSE 0) = head[i]
          BY <4>3
        <4> QED
          BY <4>2, <4>3, <4>4, Zenon
      <3> QED
        BY <2>7, <3>1, <3>2, <3>8, <3>9 DEF head
    <2> QED
      BY <2>5, <2>6, <2>7
  <1> QED
    BY <1>5, <1>6, <1>7

\* A code of a character, allowed or not.
Coded(v) == v \in Int /\ v >= 0 /\ v <= LastCode

\* In UTF-16 too a code is one that exists, and a character is no longer than what is there.
LEMMA Units ==
    ASSUME NEW raw \in Seq(Octet), NEW encoding, NEW i \in Nat, 1 <= i, i + 1 <= Len(raw)
    PROVE  Coded(Unit(raw, i, encoding))
  <1>1. raw[i] \in Octet /\ raw[i + 1] \in Octet
    <2>1. i \in 1..Len(raw) /\ i + 1 \in 1..Len(raw)
      OBVIOUS
    <2> QED
      BY <2>1
  <1> DEFINE a == raw[i]
             b == raw[i + 1]
  <1>0. a \in Octet /\ b \in Octet
    BY <1>1, Zenon
  <1>3. Unit(raw, i, encoding) = a + 256 * b \/ Unit(raw, i, encoding) = 256 * a + b
    BY Zenon DEF Unit
  <1> HIDE DEF a, b
  <1>2. a \in Int /\ a >= 0 /\ a <= 255 /\ b \in Int /\ b >= 0 /\ b <= 255
    BY ONLY <1>0, SMT DEF Octet
  <1>4. LastCode = 1114111
    BY AllowedIs
  <1> QED
    BY <1>2, <1>3, <1>4, SMT DEF Coded

LEMMA PairedIs ==
    ASSUME NEW first \in Int, NEW second \in Int
    PROVE  Coded(Paired(first, second))
  <1>1. /\ first % 1024 \in Int /\ first % 1024 >= 0 /\ first % 1024 <= 1023
        /\ second % 1024 \in Int /\ second % 1024 >= 0 /\ second % 1024 <= 1023
    BY SMT
  <1> DEFINE a == first % 1024
             b == second % 1024
  <1>2. a \in Int /\ a >= 0 /\ a <= 1023 /\ b \in Int /\ b >= 0 /\ b <= 1023
    BY <1>1
  <1>3. Paired(first, second) = 65536 + 1024 * a + b
    BY SMT DEF Paired
  <1>4. LastCode = 1114111
    BY AllowedIs
  <1> HIDE DEF a, b
  <1> QED
    BY <1>2, <1>3, <1>4, SMT DEF Coded

LEMMA NextUtf16 ==
    ASSUME NEW raw \in Seq(Octet), NEW encoding, NEW eof \in BOOLEAN,
           NEW c, c = Checked(DecodeUtf16(raw, encoding), eof)
    PROVE  /\ c.problem # NoError => c.problem \in Told
           /\ c.problem = NoError => c.width \in 0..Len(raw) /\ Placed(c) \in Seq(Octet)
  <1> DEFINE d == DecodeUtf16(raw, encoding)
             first == Unit(raw, 1, encoding)
             second == Unit(raw, 3, encoding)
             fine == /\ d.problem # NoError => d.problem \in Told
                     /\ d.problem = NoError => Coded(d.value) /\ d.width \in 0..Len(raw)
  <1>1. Len(raw) \in Nat
    OBVIOUS
  <1>2. d = DecodeUtf16(raw, encoding) /\ c = Checked(d, eof)
    OBVIOUS
  <1> HIDE DEF d
  <1>3. ASSUME NEW text \in Told PROVE Problem(text).problem = text
    BY ProblemIs
  <1>4. ASSUME NEW v, NEW w
        PROVE  Character(v, w).problem = NoError /\ Character(v, w).value = v /\ Character(v, w).width = w
    BY DEF Character
  <1>5. ASSUME NEW text \in Told, d = Problem(text) PROVE fine
    <2>1. d.problem = text /\ text # NoError
      BY ONLY <1>3, <1>5, Texts, Zenon
    <2> QED
      BY ONLY <1>5, <2>1, Zenon
  <1>6. ASSUME NEW v, Coded(v), NEW w \in 0..Len(raw), d = Character(v, w) PROVE fine
    <2>1. d.problem = NoError /\ d.value = v /\ d.width = w
      <3>1. /\ Character(v, w).problem = NoError
            /\ Character(v, w).value = v
            /\ Character(v, w).width = w
        BY ONLY CharacterIs, Zenon
      <3> QED
        BY ONLY <1>6, <3>1, Zenon
    <2> QED
      BY ONLY <1>6, <2>1, Zenon
  <1>7. /\ Coded(0)
        /\ Len(raw) >= 2 => first \in Int /\ Coded(first)
        /\ Len(raw) >= 4 => second \in Int
        /\ first \in Int /\ second \in Int => Coded(Paired(first, second))
    <2>1. ASSUME Len(raw) >= 2 PROVE Coded(first)
      <3>1. 1 \in Nat /\ 1 <= 1 /\ 1 + 1 <= Len(raw)
        BY <1>1, <2>1, SMT
      <3> QED
        BY <3>1, Units, Zenon
    <2>2. ASSUME Len(raw) >= 4 PROVE Coded(second)
      <3>1. 3 \in Nat /\ 1 <= 3 /\ 3 + 1 <= Len(raw)
        BY <1>1, <2>2, SMT
      <3> QED
        BY <3>1, Units, Zenon
    <2>3. first \in Int /\ second \in Int => Coded(Paired(first, second))
      BY PairedIs, Zenon
    <2> HIDE DEF first, second
    <2>4. Coded(0)
      <3>1. LastCode = 1114111
        BY AllowedIs
      <3> QED
        BY <3>1, SMT DEF Coded
    <2>5. \A v : Coded(v) => v \in Int
      BY DEF Coded
    <2> QED
      BY ONLY <2>1, <2>2, <2>3, <2>4, <2>5, Zenon
  <1>8. 0 \in 0..Len(raw) /\ (Len(raw) >= 2 => 2 \in 0..Len(raw)) /\ (Len(raw) >= 4 => 4 \in 0..Len(raw))
    BY <1>1
  <1>9. fine
    <2>1. CASE Len(raw) < 2
      <3>1. d = Character(0, 0)
        BY ONLY <1>2, <2>1, Zenon DEF DecodeUtf16, Incomplete
      <3> QED
        BY ONLY <1>6, <1>7, <1>8, <3>1, Zenon
    <2>2. CASE ~(Len(raw) < 2) /\ Area(first) = 55
      <3>1. d = Problem("unexpected low surrogate area")
        BY ONLY <1>2, <2>2, Zenon DEF DecodeUtf16
      <3> QED
        BY ONLY <1>5, <3>1, Texts, Zenon
    <2>3. CASE ~(Len(raw) < 2) /\ Area(first) # 55 /\ Area(first) # 54
      <3>1. d = Character(first, 2)
        BY ONLY <1>2, <2>3, Zenon DEF DecodeUtf16
      <3>2. Len(raw) >= 2
        BY <1>1, <2>3
      <3> QED
        BY ONLY <1>6, <1>7, <1>8, <3>1, <3>2, Zenon
    <2>4. CASE ~(Len(raw) < 2) /\ Area(first) # 55 /\ Area(first) = 54 /\ Len(raw) < 4
      <3>1. d = Character(0, 0)
        BY ONLY <1>2, <2>4, Zenon DEF DecodeUtf16, Incomplete
      <3> QED
        BY ONLY <1>6, <1>7, <1>8, <3>1, Zenon
    <2>5. CASE ~(Len(raw) < 2) /\ Area(first) # 55 /\ Area(first) = 54 /\ ~(Len(raw) < 4) /\ Area(second) # 55
      <3>1. d = Problem("expected low surrogate area")
        BY ONLY <1>2, <2>5, Zenon DEF DecodeUtf16
      <3> QED
        BY ONLY <1>5, <3>1, Texts, Zenon
    <2>6. CASE ~(Len(raw) < 2) /\ Area(first) # 55 /\ Area(first) = 54 /\ ~(Len(raw) < 4) /\ Area(second) = 55
      <3>1. d = Character(Paired(first, second), 4)
        BY ONLY <1>2, <2>6, Zenon DEF DecodeUtf16
      <3>2. Len(raw) >= 2 /\ Len(raw) >= 4
        BY <1>1, <2>6
      <3> QED
        BY ONLY <1>6, <1>7, <1>8, <3>1, <3>2, Zenon
    <2> QED
      BY ONLY <2>1, <2>2, <2>3, <2>4, <2>5, <2>6, Zenon
  <1>10. \/ c = d
         \/ c = Problem("incomplete character")
         \/ c = Problem("control characters are not allowed")
    BY ONLY <1>2, Zenon DEF Checked
  <1>11. CASE c = d
    <2>1. /\ c.problem # NoError => c.problem \in Told
          /\ c.problem = NoError => Coded(c.value) /\ c.width \in 0..Len(raw)
      BY ONLY <1>9, <1>11, Zenon
    <2>2. c.problem = NoError => c.width \in Nat
      BY <1>1, <2>1
    <2>3. c.problem = NoError => Placed(c) \in Seq(Octet)
      BY ONLY <2>1, <2>2, PlacedOctets, Zenon DEF Coded
    <2> QED
      BY ONLY <2>1, <2>3, Zenon
  <1>12. ASSUME NEW text \in Told, c = Problem(text)
         PROVE  c.problem \in Told /\ c.problem # NoError
    BY ONLY <1>3, <1>12, Texts, Zenon
  <1> QED
    BY ONLY <1>10, <1>11, <1>12, Texts, Zenon

-----------------------------------------------------------------------------
(* The reader, from turn to turn.                                              *)

Readers ==
    [input : Seq(Octet), pos : Nat, size : Nat, raw : Seq(Octet), eof : BOOLEAN,
     encoding : {"any", "UTF8", "UTF16LE", "UTF16BE"}, buffer : Seq(Octet), error : Told \cup {NoError}]

\* The octets that are not decoded yet.
Ahead(q) == q.raw \o Untaken(q)

Sound(q) ==
    /\ q \in Readers
    /\ q.pos <= Len(q.input)
    /\ Len(q.raw) <= q.size
    /\ q.eof => q.pos = Len(q.input)
    /\ q.encoding = "any" => q.buffer = <<>> /\ q.error = NoError /\ q.input = Ahead(q)

Refused(q) == q.raw # <<>> /\ \A form \in CharacterForms : ~Fits(form, Ahead(q), 1)

\* What is decoded is a text, the rest is still ahead, and an error is not without reason.
Decoded(q, done) ==
    /\ done \in Seq(Octet) /\ WellFormed(done)
    /\ q.input \in {done \o Ahead(q), BOM.UTF8 \o (done \o Ahead(q))}
    /\ q.error # NoError => Refused(q)

\* Before NUL is put behind the last character.
Open(q) == Sound(q) /\ (q.encoding = "UTF8" => Decoded(q, q.buffer))

ReaderInv(q) ==
    /\ Sound(q)
    /\ q.encoding = "UTF8" =>
           \E done \in Seq(Octet) :
               /\ Decoded(q, done)
               /\ q.buffer = IF AtEnd(q) /\ q.error = NoError THEN Append(done, 0) ELSE done

LEMMA Regrouped ==
    ASSUME NEW s \in Seq(Octet), NEW t \in Seq(Octet), NEW u \in Seq(Octet)
    PROVE  (s \o t) \o u = s \o (t \o u)
  BY ConcatAssociative

LEMMA Joined ==
    ASSUME NEW s \in Seq(Octet), NEW t \in Seq(Octet)
    PROVE  s \o t \in Seq(Octet) /\ Len(s \o t) = Len(s) + Len(t)
  BY ConcatProperties

LEMMA UntakenIs ==
    ASSUME NEW q, Sound(q)
    PROVE  /\ Untaken(q) \in Seq(Octet)
           /\ Len(Untaken(q)) = Len(q.input) - q.pos
           /\ Ahead(q) \in Seq(Octet)
           /\ q.eof => Untaken(q) = <<>>
  <1>1. q.input \in Seq(Octet) /\ q.pos \in 0..Len(q.input) /\ q.raw \in Seq(Octet)
    BY DEF Sound, Readers
  <1>2. Untaken(q) \in Seq(Octet) /\ Len(Untaken(q)) = Len(q.input) - q.pos
    BY <1>1, BehindIs, Zenon DEF Untaken
  <1>3. Ahead(q) \in Seq(Octet)
    BY <1>1, <1>2, ConcatProperties, Zenon DEF Ahead
  <1>4. ASSUME q.eof PROVE Untaken(q) = <<>>
    <2>1. q.pos = Len(q.input)
      BY <1>4, Zenon DEF Sound
    <2>2. Len(Untaken(q)) = 0
      BY <1>1, <1>2, <2>1
    <2> QED
      BY <1>2, <2>2, EmptySeq
  <1> QED
    BY <1>2, <1>3, <1>4

\* The end makes no difference but for the NUL.
LEMMA Ending ==
    ASSUME NEW q, Open(q)
    PROVE  ReaderInv(Terminated(q))
  <1>1. q \in Readers /\ Sound(q)
    BY DEF Open, Sound
  <1>2. CASE ~(AtEnd(q) /\ q.error = NoError)
    <2>1. Terminated(q) = q
      BY <1>2, Zenon DEF Terminated
    <2>2. q.encoding = "UTF8" => Decoded(q, q.buffer) /\ q.buffer \in Seq(Octet)
      BY Zenon DEF Open, Decoded
    <2> QED
      BY <1>1, <1>2, <2>1, <2>2, Zenon DEF ReaderInv
  <1>3. CASE AtEnd(q) /\ q.error = NoError
    <2> DEFINE t == [q EXCEPT !.buffer = Append(@, 0)]
    <2>1. Terminated(q) = t
      BY <1>3, Zenon DEF Terminated
    <2>2. q.buffer \in Seq(Octet) /\ Append(q.buffer, 0) \in Seq(Octet)
      <3>1. 0 \in Octet
        BY DEF Octet
      <3> QED
        BY <1>1, <3>1 DEF Readers
    <2>3. /\ t \in Readers
          /\ t.input = q.input /\ t.pos = q.pos /\ t.size = q.size /\ t.raw = q.raw /\ t.eof = q.eof
          /\ t.encoding = q.encoding /\ t.error = q.error
          /\ t.buffer = Append(q.buffer, 0)
      BY <1>1, <2>2 DEF Readers
    <2> HIDE DEF t
    <2>4. Untaken(t) = Untaken(q) /\ Ahead(t) = Ahead(q) /\ AtEnd(t)
      BY <1>3, <2>3, Zenon DEF Ahead, Untaken, AtEnd
    <2>5. q.encoding # "any"
      BY <1>3, Zenon DEF AtEnd
    <2>6. Sound(t)
      BY <1>1, <2>3, <2>4, <2>5, Zenon DEF Sound
    <2>7. ASSUME t.encoding = "UTF8" PROVE Decoded(t, q.buffer)
      BY <2>3, <2>4, <2>7, Zenon DEF Open, Decoded, Refused
    <2> QED
      BY <1>3, <2>1, <2>2, <2>3, <2>4, <2>6, <2>7, Zenon DEF ReaderInv
  <1> QED
    BY <1>2, <1>3

LEMMA Going ==
    ASSUME NEW q, ReaderInv(q), ~AtEnd(q)
    PROVE  Open(q) /\ q.error = NoError
  BY Zenon DEF ReaderInv, Open, AtEnd

\* No octet is lost or read twice when the raw buffer is filled.
LEMMA Filling ==
    ASSUME NEW q, Open(q), q.error = NoError
    PROVE  Open(UpdateRawBuffer(q))
  <1> DEFINE t == UpdateRawBuffer(q)
             copied == Copied(q)
             n == Len(copied)
  <1>1. /\ Sound(q) /\ q \in Readers
        /\ q.input \in Seq(Octet) /\ q.pos \in Nat /\ q.size \in Nat /\ q.raw \in Seq(Octet)
        /\ q.pos <= Len(q.input) /\ Len(q.raw) <= q.size
        /\ Len(q.input) \in Nat /\ Len(q.raw) \in Nat
    BY DEF Open, Sound, Readers
  <1>2. CASE Room(q) = 0 \/ q.eof
    BY <1>2, Zenon DEF UpdateRawBuffer
  <1>3. CASE ~(Room(q) = 0 \/ q.eof)
    <2> DEFINE m == IF Room(q) < Len(Untaken(q)) THEN Room(q) ELSE Len(Untaken(q))
    <2>1. Room(q) = q.size - Len(q.raw) /\ Room(q) \in Nat /\ Room(q) > 0
      BY <1>1, <1>3 DEF Room
    <2>2. Len(Untaken(q)) = Len(q.input) - q.pos
      BY <1>1, UntakenIs
    <2>3. /\ m \in 0..Len(q.input) - q.pos /\ m <= Room(q)
          /\ m = 0 => q.pos = Len(q.input)
      BY <1>1, <2>1, <2>2
    <2>4. copied = SubSeq(Untaken(q), 1, m)
      BY Zenon DEF Copied
    <2> HIDE DEF m, copied
    <2>5. q.pos \in 0..Len(q.input)
      BY <1>1
    <2>6. /\ q.pos + m \in 0..Len(q.input)
          /\ copied \o Behind(q.input, q.pos + m) = Untaken(q)
          /\ copied \in Seq(Octet)
          /\ n = m
      BY <1>1, <2>3, <2>4, <2>5, BehindBehind, Zenon DEF Untaken
    <2>7. t = [q EXCEPT !.eof = (copied = <<>>), !.raw = q.raw \o copied, !.pos = q.pos + n]
      BY <1>3, Zenon DEF UpdateRawBuffer, copied
    <2>8. /\ q.raw \o copied \in Seq(Octet)
          /\ Len(q.raw \o copied) = Len(q.raw) + m
      BY <1>1, <2>6, ConcatProperties
    <2>9. q.pos + n \in Nat /\ (copied = <<>>) \in BOOLEAN
      BY <1>1, <2>3, <2>6
    <2> HIDE DEF n
    <2>10. /\ t \in Readers
           /\ t.input = q.input /\ t.pos = q.pos + n /\ t.size = q.size /\ t.raw = q.raw \o copied
           /\ t.eof = (copied = <<>>)
           /\ t.encoding = q.encoding /\ t.error = q.error /\ t.buffer = q.buffer
      BY <1>1, <2>7, <2>8, <2>9 DEF Readers
    <2> HIDE DEF t
    <2>11. Untaken(t) = Behind(q.input, q.pos + m)
      BY <2>6, <2>10, Zenon DEF Untaken
    <2>12. Ahead(t) = Ahead(q)
      <3>1. Untaken(t) \in Seq(Octet)
        BY <1>1, <2>6, <2>11, BehindIs, Zenon
      <3>2. (q.raw \o copied) \o Untaken(t) = q.raw \o (copied \o Untaken(t))
        BY ONLY <1>1, <2>6, <3>1, Regrouped, Zenon
      <3> QED
        BY <2>6, <2>10, <2>11, <3>2, Zenon DEF Ahead
    <2>13. t.pos <= Len(t.input) /\ Len(t.raw) <= t.size
      BY <1>1, <2>1, <2>3, <2>6, <2>8, <2>10
    <2>14. t.eof => t.pos = Len(t.input)
      <3>1. copied = <<>> => n = 0
        BY EmptySeq DEF n
      <3>2. m = 0 => q.pos = Len(q.input)
        BY <2>3
      <3>3. t.eof => n = 0 /\ m = 0
        BY <2>6, <2>10, <3>1, Zenon
      <3>4. q.pos + 0 = q.pos
        BY <1>1
      <3> QED
        BY <2>10, <3>2, <3>3, <3>4, Zenon
    <2>15. t.encoding = "any" => t.buffer = <<>> /\ t.error = NoError /\ t.input = Ahead(t)
      BY <1>1, <2>10, <2>12, Zenon DEF Sound
    <2>16. Sound(t)
      BY <2>10, <2>13, <2>14, <2>15, Zenon DEF Sound
    <2>17. t.encoding = "UTF8" => Decoded(t, t.buffer)
      BY <2>10, <2>12, Zenon DEF Open, Decoded
    <2> QED
      BY <2>16, <2>17, Zenon DEF Open, t
  <1> QED
    BY <1>2, <1>3

LEMMA Marks ==
    ASSUME NEW mark \in DOMAIN BOM
    PROVE  /\ mark \in {"UTF8", "UTF16LE", "UTF16BE"} /\ mark # "any"
           /\ BOM[mark] \in Seq(Octet)
           /\ mark = "UTF8" => BOM[mark] = BOM.UTF8
  <1>1. DOMAIN BOM = {"UTF8", "UTF16LE", "UTF16BE"}
    BY SMT DEF BOM
  <1>2. BOM["UTF8"] = <<239, 187, 191>> /\ BOM["UTF16LE"] = <<255, 254>> /\ BOM["UTF16BE"] = <<254, 255>>
    BY SMT DEF BOM
  <1>3. 239 \in Octet /\ 187 \in Octet /\ 191 \in Octet /\ 254 \in Octet /\ 255 \in Octet
    BY SMT DEF Octet
  <1>4. <<239, 187, 191>> \in Seq(Octet) /\ <<255, 254>> \in Seq(Octet) /\ <<254, 255>> \in Seq(Octet)
    BY <1>3, SMT
  <1>5. mark = "UTF8" \/ mark = "UTF16LE" \/ mark = "UTF16BE"
    BY <1>1
  <1>6. BOM[mark] \in Seq(Octet)
    <2>1. BOM["UTF8"] \in Seq(Octet) /\ BOM["UTF16LE"] \in Seq(Octet) /\ BOM["UTF16BE"] \in Seq(Octet)
      BY <1>2, <1>4, SMT
    <2> QED
      BY ONLY <1>5, <2>1, Zenon
  <1> QED
    BY <1>5, <1>6

LEMMA NoneWellFormed == WellFormed(<<>>) /\ <<>> \in Seq(Octet) /\ Len(<<>>) = 0
  BY DEF WellFormed

\* A mark is taken off, and is none of the text.
LEMMA Determining ==
    ASSUME NEW q, Open(q), q.encoding = "any"
    PROVE  Open(DetermineEncoding(q))
  <1> DEFINE marks == {encoding \in DOMAIN BOM : IsPrefix(BOM[encoding], q.raw)}
             mark == CHOOSE encoding \in marks : TRUE
             rest == Untaken(q)
             t == DetermineEncoding(q)
  <1>1. /\ Sound(q) /\ q \in Readers
        /\ q.input \in Seq(Octet) /\ q.pos \in Nat /\ q.size \in Nat /\ q.raw \in Seq(Octet)
        /\ q.pos <= Len(q.input) /\ Len(q.raw) <= q.size
        /\ Len(q.input) \in Nat /\ Len(q.raw) \in Nat
    BY DEF Open, Sound, Readers
  <1>2. q.buffer = <<>> /\ q.error = NoError /\ q.input = Ahead(q) /\ q.encoding = "any"
    BY <1>1, Zenon DEF Sound
  <1>3. rest \in Seq(Octet) /\ Ahead(q) \in Seq(Octet)
    BY <1>1, UntakenIs, Zenon
  <1>4. /\ marks = {} => t = [q EXCEPT !.encoding = "UTF8"]
        /\ marks # {} => t = [q EXCEPT !.encoding = mark, !.raw = Behind(q.raw, Len(BOM[mark]))]
    BY Zenon DEF DetermineEncoding
  <1>5. marks # {} => mark \in DOMAIN BOM /\ IsPrefix(BOM[mark], q.raw)
    BY Zenon
  <1> HIDE DEF marks, mark, rest, t
  <1>6. ASSUME NEW u, Sound(u), u.input = q.input, u.error = NoError, u.buffer = <<>>,
               u.encoding = "UTF8" => u.input \in {Ahead(u), BOM.UTF8 \o Ahead(u)}
        PROVE  Open(u)
    <2>1. Ahead(u) \in Seq(Octet)
      BY <1>6, UntakenIs
    <2>2. <<>> \o Ahead(u) = Ahead(u)
      BY <2>1, ConcatEmptySeq
    <2> QED
      BY <1>6, <2>2, NoneWellFormed, Zenon DEF Open, Decoded
  <1>7. CASE marks = {}
    <2>1. /\ t \in Readers
          /\ t.input = q.input /\ t.pos = q.pos /\ t.size = q.size /\ t.raw = q.raw /\ t.eof = q.eof
          /\ t.encoding = "UTF8" /\ t.error = q.error /\ t.buffer = q.buffer
      BY <1>1, <1>4, <1>7 DEF Readers
    <2>2. Ahead(t) = Ahead(q) /\ t.encoding # "any"
      BY <2>1 DEF Ahead, Untaken
    <2>3. Sound(t)
      BY <1>1, <2>1, <2>2, Zenon DEF Sound
    <2> QED
      BY <1>2, <1>6, <2>1, <2>2, <2>3, Zenon DEF t
  <1>8. CASE marks # {}
    <2> DEFINE bom == BOM[mark]
               behind == Behind(q.raw, Len(bom))
    <2>1. /\ mark \in {"UTF8", "UTF16LE", "UTF16BE"} /\ mark # "any"
          /\ bom \in Seq(Octet)
          /\ mark = "UTF8" => bom = BOM.UTF8
      BY <1>5, <1>8, Marks
    <2>2. Len(bom) <= Len(q.raw) /\ SubSeq(bom, 1, Len(bom)) = SubSeq(q.raw, 1, Len(bom))
      BY <1>5, <1>8, Zenon DEF IsPrefix
    <2>3. t = [q EXCEPT !.encoding = mark, !.raw = behind]
      BY <1>4, <1>8, Zenon
    <2> HIDE DEF bom, behind
    <2>4. Len(bom) \in 0..Len(q.raw)
      BY <1>1, <2>1, <2>2
    <2>5. /\ behind \in Seq(Octet) /\ Len(behind) = Len(q.raw) - Len(bom)
          /\ SubSeq(q.raw, 1, Len(bom)) \o behind = q.raw
      BY <1>1, <2>4, BehindIs, Zenon DEF behind
    <2>6. bom \o behind = q.raw
      <3>1. SubSeq(bom, 1, Len(bom)) = bom
        BY <2>1, SubSeqFull
      <3> QED
        BY <2>2, <2>5, <3>1, Zenon
    <2>7. /\ t \in Readers
          /\ t.input = q.input /\ t.pos = q.pos /\ t.size = q.size /\ t.raw = behind /\ t.eof = q.eof
          /\ t.encoding = mark /\ t.error = q.error /\ t.buffer = q.buffer
      BY <1>1, <2>1, <2>3, <2>5 DEF Readers
    <2>8. Untaken(t) = rest /\ Ahead(t) = behind \o rest
      BY <2>7, Zenon DEF Ahead, Untaken, rest
    <2>9. Len(t.raw) <= t.size
      <3>1. Len(bom) >= 0
        BY <2>4
      <3> QED
        BY <1>1, <2>4, <2>5, <2>7, <3>1
    <2>10. Sound(t)
      BY <1>1, <2>1, <2>7, <2>9, Zenon DEF Sound
    <2>11. q.input = bom \o Ahead(t)
      <3>1. (bom \o behind) \o rest = bom \o (behind \o rest)
        BY <1>3, <2>1, <2>5, Regrouped, Zenon
      <3> QED
        BY <1>2, <2>6, <2>8, <3>1, Zenon DEF Ahead, rest
    <2>12. t.encoding = "UTF8" => t.input \in {Ahead(t), BOM.UTF8 \o Ahead(t)}
      BY <2>1, <2>7, <2>11, Zenon
    <2> QED
      BY <1>2, <1>6, <2>7, <2>10, <2>12, Zenon DEF t
  <1> QED
    BY <1>7, <1>8

\* A character is moved from the one buffer into the other; what is none is refused.
LEMMA Decoding ==
    ASSUME NEW q, Open(q), q.error = NoError, q.encoding # "any", q.raw # <<>>,
           NEW c, c = NextCharacter(q), c # Incomplete
    PROVE  Open(DecodeCharacter(q, c))
  <1> DEFINE rest == Untaken(q)
             t == DecodeCharacter(q, c)
             head == SubSeq(q.raw, 1, c.width)
             behind == Behind(q.raw, c.width)
  <1>1. /\ Sound(q) /\ q \in Readers
        /\ q.input \in Seq(Octet) /\ q.pos \in Nat /\ q.size \in Nat /\ q.raw \in Seq(Octet)
        /\ q.pos <= Len(q.input) /\ Len(q.raw) <= q.size
        /\ Len(q.input) \in Nat /\ Len(q.raw) \in Nat
        /\ q.eof \in BOOLEAN
        /\ q.buffer \in Seq(Octet)
    BY DEF Open, Sound, Readers
  <1>2. rest \in Seq(Octet) /\ (q.eof => rest = <<>>) /\ Ahead(q) = q.raw \o rest
    BY <1>1, UntakenIs, Zenon DEF Ahead
  <1>3. ASSUME q.encoding = "UTF8"
        PROVE  /\ c.problem # NoError => c.problem \in Told
               /\ c.problem # NoError => \A form \in CharacterForms : ~Fits(form, q.raw \o rest, 1)
               /\ c.problem = NoError => Fitting(q.raw, c.width) /\ Placed(c) = head
    <2>1. c = Checked(DecodeUtf8(q.raw), q.eof)
      BY <1>3, Zenon DEF NextCharacter
    <2> HIDE DEF rest
    <2> QED
      BY <1>1, <1>2, <2>1, NextUtf8, Zenon
  <1>4. ASSUME q.encoding # "UTF8"
        PROVE  /\ c.problem # NoError => c.problem \in Told
               /\ c.problem = NoError => c.width \in 0..Len(q.raw) /\ Placed(c) \in Seq(Octet)
    <2>1. c = Checked(DecodeUtf16(q.raw, q.encoding), q.eof)
      BY <1>4, Zenon DEF NextCharacter
    <2> QED
      BY <1>1, <2>1, NextUtf16, Zenon
  <1>5. /\ c.problem # NoError => t = [q EXCEPT !.error = c.problem]
        /\ c.problem = NoError => t = [q EXCEPT !.raw = behind, !.buffer = q.buffer \o Placed(c)]
    BY Zenon DEF DecodeCharacter
  <1> HIDE DEF rest, t, head, behind
  <1>6. CASE c.problem # NoError
    <2>1. c.problem \in Told
      BY <1>3, <1>4, <1>6
    <2>2. /\ t \in Readers
          /\ t.input = q.input /\ t.pos = q.pos /\ t.size = q.size /\ t.raw = q.raw /\ t.eof = q.eof
          /\ t.encoding = q.encoding /\ t.error = c.problem /\ t.buffer = q.buffer
      BY <1>1, <1>5, <1>6, <2>1 DEF Readers
    <2>3. Ahead(t) = Ahead(q) /\ t.encoding # "any"
      BY <2>2, Zenon DEF Ahead, Untaken
    <2>4. Sound(t)
      BY <1>1, <2>2, <2>3, Zenon DEF Sound
    <2>5. ASSUME q.encoding = "UTF8" PROVE Refused(t)
      BY <1>2, <1>3, <1>6, <2>2, <2>3, <2>5, Zenon DEF Refused
    <2>6. q.encoding = "UTF8" => Decoded(q, q.buffer)
      BY Zenon DEF Open
    <2>7. q.encoding = "UTF8" => Decoded(t, t.buffer)
      BY <2>2, <2>3, <2>5, <2>6, Zenon DEF Decoded
    <2> QED
      BY <2>2, <2>4, <2>7, Zenon DEF Open, t
  <1>7. CASE c.problem = NoError
    <2>1. q.encoding = "UTF8" => c.width \in 1..4 /\ c.width <= Len(q.raw)
      BY <1>3, <1>7, Zenon DEF Fitting
    <2>2. c.width \in 0..Len(q.raw)
      <3>1. CASE q.encoding = "UTF8"
        BY <1>1, <2>1, <3>1
      <3>2. CASE q.encoding # "UTF8"
        BY <1>4, <1>7, <3>2, Zenon
      <3> QED
        BY <3>1, <3>2
    <2>3. /\ behind \in Seq(Octet) /\ Len(behind) = Len(q.raw) - c.width
          /\ head \in Seq(Octet) /\ Len(head) = c.width
          /\ head \o behind = q.raw
      BY <1>1, <2>2, BehindIs, Zenon DEF head, behind
    <2>4. Placed(c) \in Seq(Octet)
      BY <1>3, <1>4, <1>7, <2>3, Zenon
    <2>5. q.buffer \o Placed(c) \in Seq(Octet)
      BY <1>1, <2>4, Joined, Zenon
    <2>6. /\ t \in Readers
          /\ t.input = q.input /\ t.pos = q.pos /\ t.size = q.size /\ t.raw = behind /\ t.eof = q.eof
          /\ t.encoding = q.encoding /\ t.error = q.error /\ t.buffer = q.buffer \o Placed(c)
      BY <1>1, <1>5, <1>7, <2>3, <2>5 DEF Readers
    <2>7. Untaken(t) = rest /\ Ahead(t) = behind \o rest /\ t.encoding # "any"
      BY <2>6, Zenon DEF Ahead, Untaken, rest
    <2>8. Len(t.raw) <= t.size
      <3>1. c.width >= 0 /\ c.width \in Int
        BY <2>2
      <3> QED
        BY <1>1, <2>3, <2>6, <3>1
    <2>9. Sound(t)
      BY <1>1, <2>6, <2>7, <2>8, Zenon DEF Sound
    <2>10. ASSUME q.encoding = "UTF8" PROVE Decoded(t, t.buffer)
      <3>1. Placed(c) = head /\ Fitting(q.raw, c.width)
        BY <1>3, <1>7, <2>10
      <3>2. PICK form \in CharacterForms : Len(form) = c.width /\ Fits(form, head, 1)
        BY ONLY <3>1, Zenon DEF Fitting, head
      <3>3. WellFormed(head)
        BY ONLY <2>3, <3>2, form \in CharacterForms, WellFormedOne, Zenon
      <3>4. /\ WellFormed(q.buffer)
            /\ q.input \in {q.buffer \o Ahead(q), BOM.UTF8 \o (q.buffer \o Ahead(q))}
        BY <2>10, Zenon DEF Open, Decoded
      <3>5. WellFormed(q.buffer \o head)
        BY <1>1, <2>3, <3>3, <3>4, WellFormedJoined, Zenon
      <3>6. q.buffer \o Ahead(q) = (q.buffer \o head) \o Ahead(t)
        <4>1. behind \o rest \in Seq(Octet)
          BY <1>2, <2>3, Joined, Zenon
        <4>2. (head \o behind) \o rest = head \o (behind \o rest)
          BY <1>2, <2>3, Regrouped, Zenon
        <4>3. q.buffer \o (head \o (behind \o rest)) = (q.buffer \o head) \o (behind \o rest)
          BY <1>1, <2>3, <4>1, Regrouped, Zenon
        <4> QED
          BY ONLY <1>2, <2>3, <2>7, <4>2, <4>3, Zenon
      <3>7. t.buffer = q.buffer \o head /\ t.buffer \in Seq(Octet) /\ t.error = NoError
        BY <2>5, <2>6, <3>1, Zenon
      <3> QED
        BY ONLY <2>6, <3>4, <3>5, <3>6, <3>7, Zenon DEF Decoded
    <2> QED
      BY <2>6, <2>9, <2>10, Zenon DEF Open, t
  <1> QED
    BY <1>6, <1>7

-----------------------------------------------------------------------------
(* Every turn, and what the scanner sees.                                        *)

LEMMA Starts ==
    ASSUME NEW octets \in Seq(Octet), NEW size \in Nat
    PROVE  ReaderInv(NewReader(octets, size))
  <1> DEFINE q == NewReader(octets, size)
  <1>1. Len(octets) \in Nat /\ <<>> \in Seq(Octet) /\ Len(<<>>) = 0
    BY NoneWellFormed
  <1>2. /\ q.input = octets /\ q.pos = 0 /\ q.size = size /\ q.raw = <<>> /\ q.eof = FALSE
        /\ q.encoding = "any" /\ q.buffer = <<>> /\ q.error = NoError
        /\ q \in Readers
    BY <1>1 DEF NewReader, Readers
  <1> HIDE DEF q
  <1>3. Behind(octets, 0) = octets
    BY SubSeqFull DEF Behind
  <1>4. Ahead(q) = octets
    <2>1. <<>> \o octets = octets
      BY ConcatEmptySeq
    <2> QED
      BY <1>2, <1>3, <2>1, Zenon DEF Ahead, Untaken
  <1>5. q.pos <= Len(q.input) /\ Len(q.raw) <= q.size
    BY <1>1, <1>2
  <1>6. q.encoding # "UTF8"
    BY <1>2
  <1> QED
    BY <1>2, <1>4, <1>5, <1>6, Zenon DEF ReaderInv, Sound, q

LEMMA Turns ==
    ASSUME ReaderInv(r), UpdateBuffer
    PROVE  ReaderInv(r')
  <1>1. CASE FillRawBuffer
    <2>1. ~AtEnd(r) /\ r' = Terminated(UpdateRawBuffer(r))
      BY <1>1, Zenon DEF FillRawBuffer
    <2> QED
      BY <2>1, Going, Filling, Ending, Zenon
  <1>2. CASE Determine
    <2>1. ~AtEnd(r) /\ r.encoding = "any" /\ r' = Terminated(DetermineEncoding(r))
      BY <1>2, Zenon DEF Determine
    <2> QED
      BY <2>1, Going, Determining, Ending, Zenon
  <1>3. CASE DecodeNext
    <2>1. /\ ~AtEnd(r) /\ r.encoding # "any"
          /\ r' = Terminated(DecodeCharacter(r, NextCharacter(r)))
          /\ r.raw # <<>> /\ NextCharacter(r) # Incomplete
      BY <1>3, Zenon DEF DecodeNext, Wanting
    <2>2. Open(r) /\ r.error = NoError
      BY <2>1, Going, Zenon
    <2>3. Open(DecodeCharacter(r, NextCharacter(r)))
      BY <2>1, <2>2, Decoding, Zenon
    <2> QED
      BY <2>1, <2>3, Ending, Zenon
  <1> QED
    BY <1>1, <1>2, <1>3, Zenon DEF UpdateBuffer

\* The scanner sees the text up to the NUL behind it.
LEMMA SeenIs ==
    ASSUME NEW s \in Seq(Octet), WellFormed(s)
    PROVE  Seen(s) = s /\ Seen(Append(s, 0)) = s
  <1>1. \A i \in DOMAIN s : s[i] # 0
    BY WellFormedPlain
  <1>2. Seen(s) = s
    <2>1. {i \in DOMAIN s : s[i] = 0} = {}
      BY <1>1
    <2> QED
      BY <2>1, Zenon DEF Seen
  <1>3. Seen(Append(s, 0)) = s
    <2> DEFINE t == Append(s, 0)
               nuls == {i \in DOMAIN t : t[i] = 0}
               first == CHOOSE i \in nuls : \A j \in nuls : i <= j
               n == Len(s)
    <2>1. 0 \in Octet /\ n \in Nat
      BY DEF Octet
    <2>2. /\ t \in Seq(Octet) /\ Len(t) = n + 1
          /\ \A i \in 1..n : t[i] = s[i]
          /\ t[n + 1] = 0
      BY <2>1, AppendProperties
    <2>3. nuls = {n + 1}
      <3>1. DOMAIN t = 1..n + 1 /\ DOMAIN s = 1..n
        BY <2>1, <2>2
      <3> HIDE DEF t, n
      <3>2. \A i \in 1..n + 1 : i \in 1..n \/ i = n + 1
        BY <2>1
      <3>3. n + 1 \in 1..n + 1
        BY <2>1
      <3>4. \A i \in 1..n : t[i] # 0
        BY ONLY <1>1, <2>2, <3>1, Zenon
      <3> QED
        BY ONLY <2>2, <3>1, <3>2, <3>3, <3>4, Zenon DEF nuls
    <2>4. first = n + 1
      <3>1. n + 1 <= n + 1
        BY <2>1
      <3> HIDE DEF nuls, n
      <3>2. \E i \in nuls : \A j \in nuls : i <= j
        BY <2>3, <3>1, Zenon
      <3>3. first \in nuls
        BY <3>2, Zenon
      <3> HIDE DEF first
      <3> QED
        BY <2>3, <3>3, Zenon
    <2>5. Seen(t) = SubSeq(t, 1, first - 1)
      <3>1. nuls # {}
        BY <2>3
      <3> QED
        BY <3>1, Zenon DEF Seen
    <2>6. first - 1 = n
      <3> HIDE DEF first, n
      <3> QED
        BY <2>1, <2>4
    <2>7. SubSeq(t, 1, n) = s
      <3>1. n \in 0..Len(t)
        BY <2>1, <2>2
      <3>2. SubSeq(t, 1, n) \in Seq(Octet) /\ Len(SubSeq(t, 1, n)) = n
        BY <2>2, <3>1, BehindIs
      <3>3. ASSUME NEW i \in 1..n PROVE SubSeq(t, 1, n)[i] = s[i]
        <4>1. 1 \in Int /\ n \in Int /\ n - 1 + 1 = n /\ 1 + i - 1 = i
          BY <2>1
        <4>2. \A k \in 1..n : t[k] \in Octet
          BY <2>1, <2>2
        <4>3. i \in 1..n - 1 + 1
          BY <4>1
        <4>4. SubSeq(t, 1, n)[i] = t[1 + i - 1]
          BY <4>1, <4>2, <4>3, SubSeqProperties
        <4> QED
          BY <2>2, <4>1, <4>4
      <3> QED
        BY <3>2, <3>3, SeqEqual
    <2> QED
      BY <2>5, <2>6, <2>7, Zenon
  <1> QED
    BY <1>2, <1>3

LEMMA InvReads == ASSUME ReaderInv(r) PROVE ReadsWhatIsThere
  <1> DEFINE text == Seen(r.buffer) \o r.raw \o Untaken(r)
  <1>1. SUFFICES ASSUME r.encoding = "UTF8"
                 PROVE  /\ r.input \in {text, BOM.UTF8 \o text}
                        /\ AtEnd(r) => (r.error = NoError <=> WellFormed(text))
    BY Zenon DEF ReadsWhatIsThere
  <1>2. PICK done \in Seq(Octet) :
            /\ Decoded(r, done)
            /\ r.buffer = IF AtEnd(r) /\ r.error = NoError THEN Append(done, 0) ELSE done
    BY <1>1, Zenon DEF ReaderInv
  <1>3. Sound(r) /\ r.raw \in Seq(Octet) /\ r.eof \in BOOLEAN
    BY DEF ReaderInv, Sound, Readers
  <1>4. Untaken(r) \in Seq(Octet) /\ Ahead(r) \in Seq(Octet) /\ (r.eof => Untaken(r) = <<>>)
    BY <1>3, UntakenIs, Zenon
  <1>5. WellFormed(done) /\ r.input \in {done \o Ahead(r), BOM.UTF8 \o (done \o Ahead(r))}
    BY <1>2, Zenon DEF Decoded
  <1>6. Seen(r.buffer) = done
    BY <1>2, <1>5, SeenIs, Zenon
  <1>7. text = done \o Ahead(r)
    <2>1. (done \o r.raw) \o Untaken(r) = done \o (r.raw \o Untaken(r))
      BY <1>3, <1>4, Regrouped, Zenon
    <2> QED
      BY <1>6, <2>1, Zenon DEF Ahead
  <1> HIDE DEF text
  <1>8. ASSUME AtEnd(r), r.error = NoError PROVE WellFormed(text)
    <2>1. r.eof /\ r.raw = <<>>
      BY <1>8, Zenon DEF AtEnd
    <2>2. Ahead(r) = <<>>
      <3>1. <<>> \o <<>> = <<>>
        OBVIOUS
      <3> QED
        BY <1>4, <2>1, <3>1, Zenon DEF Ahead
    <2>3. done \o <<>> = done
      BY ConcatEmptySeq
    <2> QED
      BY <1>5, <1>7, <2>2, <2>3, Zenon
  <1>9. ASSUME r.error # NoError PROVE ~WellFormed(text)
    <2>1. r.raw # <<>> /\ \A form \in CharacterForms : ~Fits(form, Ahead(r), 1)
      BY <1>2, <1>9, Zenon DEF Decoded, Refused
    <2>2. Ahead(r) # <<>>
      BY <1>3, <1>4, <2>1, ConcatEqualIffEmpty DEF Ahead
    <2> QED
      BY <1>4, <1>5, <1>7, <2>1, <2>2, WellFormedNot, Zenon
  <1> QED
    BY <1>5, <1>7, <1>8, <1>9, Zenon

\* What holds of the reader at every turn.
TurnInv == ReaderInv(r)

LEMMA InvInitially == (\E octets \in Seq(Octet), size \in Nat : r = NewReader(octets, size)) => TurnInv
  <1> SUFFICES ASSUME NEW octets \in Seq(Octet), NEW size \in Nat, r = NewReader(octets, size)
               PROVE  ReaderInv(r)
    BY Zenon DEF TurnInv
  <1> QED
    BY Starts, Zenon

LEMMA InvAtTurns == TurnInv /\ [UpdateBuffer]_r => TurnInv'
  <1> SUFFICES ASSUME ReaderInv(r), [UpdateBuffer]_r
               PROVE  ReaderInv(r')
    BY Zenon DEF TurnInv
  <1>1. CASE UpdateBuffer
    BY <1>1, Turns, Zenon
  <1>2. CASE r' = r
    BY <1>2, Zenon
  <1> QED
    BY <1>1, <1>2, Zenon

(* The reader loses no octet and reads none twice, and refuses exactly what is not made of *)
(* YAML's characters, for every sequence of octets and every size of the raw buffer: it    *)
(* does not matter how the input falls into raw buffers (yaml_parser_update_buffer).       *)
THEOREM ReaderReads == Reading => []ReadsWhatIsThere
  <1>1. TurnInv => ReadsWhatIsThere
    BY InvReads, Zenon DEF TurnInv
  <1> QED
    BY <1>1, InvInitially, InvAtTurns, PTL DEF Reading

(* The buffers hold octets, the raw buffer no more of them than there is room for, and the  *)
(* end is told only when everything is taken (yaml_parser_update_raw_buffer).              *)
THEOREM ReaderTypeOK ==
    Reading => [](r \in Readers /\ Len(r.raw) <= r.size /\ (r.eof => r.pos = Len(r.input)))
  <1>1. TurnInv => r \in Readers /\ Len(r.raw) <= r.size /\ (r.eof => r.pos = Len(r.input))
    BY Zenon DEF TurnInv, ReaderInv, Sound
  <1> QED
    BY <1>1, InvInitially, InvAtTurns, PTL DEF Reading
=============================================================================
