---------------------------- MODULE CapSchemeProofs ----------------------------
(***************************************************************************)
(* Capital letters for words of any length, any forms and buffers of up to *)
(* 256 bytes: GetCapScheme's verdict is that of a reader of the parts, a   *)
(* word can be written back, and the library's own forms are accepted.     *)
(***************************************************************************)
EXTENDS CapScheme, TextLemmas, FiniteSetTheorems

-------------------------------------------------------------------------------
(* Parts of a word. *)

(* The number of a part is a number, 0 for the first. *)
LEMMA PartNumber ==
  ASSUME NEW w, NEW i \in Nat
  PROVE  /\ PartOf(w, i) \in Nat /\ PartOf(w, 1) = 0
         /\ IsFiniteSet({j \in 1 .. i - 1 : w[j] = "-"})
<1>1. IsFiniteSet(1 .. i - 1)
  BY FS_Interval
<1>2. IsFiniteSet({j \in 1 .. i - 1 : w[j] = "-"})
  BY <1>1, FS_Subset
<1>3. PartOf(w, i) \in Nat
  BY <1>2, FS_CardinalityType DEF PartOf
<1>4. {j \in 1 .. 1 - 1 : w[j] = "-"} = {}
  OBVIOUS
<1>5. PartOf(w, 1) = 0
  BY <1>4, FS_EmptySet, Zenon DEF PartOf
<1> QED  BY <1>2, <1>3, <1>5

(* Behind a hyphen the next part begins. *)
LEMMA PartNext ==
  ASSUME NEW w, NEW i \in Nat \ {0}
  PROVE  /\ w[i] = "-" => PartOf(w, i + 1) = PartOf(w, i) + 1
         /\ w[i] # "-" => PartOf(w, i + 1) = PartOf(w, i)
<1> DEFINE S == {j \in 1 .. i - 1 : w[j] = "-"}
           T == {j \in 1 .. (i + 1) - 1 : w[j] = "-"}
<1>1. IsFiniteSet(S) /\ i \notin S
  <2>1. i \in Nat
    OBVIOUS
  <2>2. IsFiniteSet(S)
    BY <2>1, PartNumber, Zenon
  <2>3. i \notin S
    OBVIOUS
  <2> QED  BY <2>2, <2>3
<1>2. ASSUME w[i] = "-"  PROVE T = S \cup {i}
  BY <1>2
<1>3. ASSUME w[i] # "-"  PROVE T = S
  BY <1>3
<1>4. PartOf(w, i) = Cardinality(S) /\ PartOf(w, i + 1) = Cardinality(T)
  BY DEF PartOf
<1>5. Cardinality(S \cup {i}) = Cardinality(S) + 1
  BY <1>1, FS_AddElement
<1> HIDE DEF S, T
<1> QED  BY <1>2, <1>3, <1>4, <1>5

(* The parts of a word ascend. *)
LEMMA PartRises ==
  ASSUME NEW w, NEW i \in Nat, NEW j \in Nat, i <= j
  PROVE  PartOf(w, i) <= PartOf(w, j)
<1>1. {k \in 1 .. i - 1 : w[k] = "-"} \subseteq {k \in 1 .. j - 1 : w[k] = "-"}
  OBVIOUS
<1> QED  BY <1>1, PartNumber, FS_Subset DEF PartOf

(* Two words with hyphens at the same places have the same parts. *)
LEMMA PartAlike ==
  ASSUME NEW v, NEW w, NEW i \in Nat, \A j \in 1 .. i - 1 : v[j] = "-" <=> w[j] = "-"
  PROVE  PartOf(v, i) = PartOf(w, i)
<1>1. {j \in 1 .. i - 1 : v[j] = "-"} = {j \in 1 .. i - 1 : w[j] = "-"}
  OBVIOUS
<1> QED  BY <1>1, Zenon DEF PartOf

(* A hyphen parts what is before it from what is behind. *)
LEMMA PartLess ==
  ASSUME NEW w, NEW i \in Nat \ {0}, NEW j \in Nat, i < j, w[i] = "-"
  PROVE  PartOf(w, i) < PartOf(w, j)
<1>1. PartOf(w, i + 1) = PartOf(w, i) + 1
  BY PartNext
<1>2. PartOf(w, i + 1) <= PartOf(w, j)
  BY PartRises
<1>3. PartOf(w, i) \in Nat /\ PartOf(w, j) \in Nat
  BY PartNumber
<1> QED  BY <1>1, <1>2, <1>3

(* And where there is none, everything is one part. *)
LEMMA PartSame ==
  ASSUME NEW w, NEW i \in Nat \ {0}, NEW j \in Nat, i <= j, \A k \in i .. j - 1 : w[k] # "-"
  PROVE  PartOf(w, i) = PartOf(w, j)
<1>1. {k \in 1 .. i - 1 : w[k] = "-"} = {k \in 1 .. j - 1 : w[k] = "-"}
  OBVIOUS
<1> QED  BY <1>1, Zenon DEF PartOf

(* The number of parts, and of the part of a character. *)
LEMMA PartsOfWord ==
  ASSUME NEW w \in Seq(Kinds)
  PROVE  /\ Len(w) \in Nat /\ DOMAIN w = 1 .. Len(w) /\ Hyphens(w) \in Nat
         /\ \A i \in 1 .. Len(w) : PartOf(w, i) \in 0 .. Hyphens(w) /\ w[i] \in Kinds
<1>1. Len(w) \in Nat /\ DOMAIN w = 1 .. Len(w)
  BY LenProperties
<1>2. Hyphens(w) \in Nat
  <2>1. Len(w) + 1 \in Nat
    BY <1>1
  <2> QED  BY <2>1, PartNumber DEF Hyphens
<1>3. ASSUME NEW i \in 1 .. Len(w)  PROVE PartOf(w, i) \in 0 .. Hyphens(w) /\ w[i] \in Kinds
  <2> i \in Nat /\ Len(w) + 1 \in Nat /\ i <= Len(w) + 1
    BY <1>1
  <2>1. PartOf(w, i) \in Nat
    BY PartNumber
  <2>2. PartOf(w, i) <= PartOf(w, Len(w) + 1)
    BY PartRises
  <2>3. w[i] \in Kinds
    BY <1>1, ElementOfSeq
  <2> QED  BY <1>2, <2>1, <2>2, <2>3 DEF Hyphens
<1> QED  BY <1>1, <1>2, <1>3

(* A part has one first letter at most. *)
LEMMA FirstsAgree ==
  ASSUME NEW w \in Seq(Kinds), NEW part, NEW i \in Letters(w, part), NEW j \in Letters(w, part),
         FirstInPart(w, i), FirstInPart(w, j)
  PROVE  i = j
<1>1. Len(w) \in Nat /\ DOMAIN w = 1 .. Len(w)
  BY PartsOfWord
<1>2. /\ i \in 1 .. Len(w) /\ w[i] # "-" /\ PartOf(w, i) = part
      /\ j \in 1 .. Len(w) /\ w[j] # "-" /\ PartOf(w, j) = part
  BY <1>1 DEF Letters
<1>3. ASSUME NEW a \in 1 .. Len(w), NEW b \in 1 .. Len(w), a < b, w[a] # "-",
             PartOf(w, a) = part, PartOf(w, b) = part, FirstInPart(w, b)
      PROVE  FALSE
  <2>1. b - 1 \in Nat \ {0} /\ b - 1 < b /\ a <= b - 1 /\ a \in Nat /\ b \in Nat /\ w[b - 1] = "-"
    BY <1>3, <1>1 DEF FirstInPart
  <2>2. PartOf(w, b - 1) < PartOf(w, b)
    BY <2>1, PartLess
  <2>3. PartOf(w, a) <= PartOf(w, b - 1)
    BY <2>1, PartRises
  <2>4. PartOf(w, a) \in Nat /\ PartOf(w, b - 1) \in Nat
    BY <2>1, PartNumber
  <2> QED  BY <1>3, <2>2, <2>3, <2>4
<1>4. ~(i < j) /\ ~(j < i)
  BY <1>2, <1>3
<1> QED  BY <1>1, <1>2, <1>4

(* And one first letter at least, if it has letters. *)
LEMMA HasFirst ==
  ASSUME NEW w \in Seq(Kinds), NEW part, Letters(w, part) # {}
  PROVE  \E f \in Letters(w, part) : FirstInPart(w, f)
<1>1. Len(w) \in Nat /\ DOMAIN w = 1 .. Len(w)
  BY PartsOfWord
<1>2. Letters(w, part) \subseteq Nat
  BY <1>1 DEF Letters
<1>3. PICK f \in Letters(w, part) : \A y \in Letters(w, part) : f <= y
  BY <1>2, LeastNat
<1>4. f \in 1 .. Len(w) /\ w[f] # "-" /\ PartOf(w, f) = part
  BY <1>1, <1>3 DEF Letters
<1>5. ASSUME f # 1, w[f - 1] # "-"  PROVE FALSE
  <2>1. f - 1 \in Nat \ {0} /\ f \in Nat /\ f - 1 <= f /\ f - 1 \in 1 .. Len(w)
    BY <1>1, <1>4, <1>5
  <2>2. \A k \in f - 1 .. f - 1 : w[k] # "-"
    BY <1>5, <2>1
  <2>3. PartOf(w, f - 1) = PartOf(w, f)
    BY <2>1, <2>2, PartSame
  <2>4. f - 1 \in Letters(w, part)
    BY <1>1, <1>4, <1>5, <2>1, <2>3 DEF Letters
  <2> QED  BY <1>3, <1>4, <2>1, <2>4
<1> QED  BY <1>3, <1>5 DEF FirstInPart

(* The letters of a part are those from its beginning to its end. *)
LEMMA LettersBetween ==
  ASSUME NEW w \in Seq(Kinds), NEW s \in Nat, NEW n \in Nat, s <= n, n <= Len(w),
         s = 0 \/ w[s] = "-", \A i \in s + 1 .. n : w[i] # "-", n = Len(w) \/ w[n + 1] = "-"
  PROVE  Letters(w, PartOf(w, n + 1)) = s + 1 .. n
<1>1. Len(w) \in Nat /\ DOMAIN w = 1 .. Len(w)
  BY PartsOfWord
<1>2. s \in Nat /\ n \in Nat /\ n + 1 \in Nat /\ s <= n /\ n <= Len(w)
  OBVIOUS
<1> DEFINE part == PartOf(w, n + 1)
<1>3. part \in Nat
  BY <1>2, PartNumber
<1>4. ASSUME NEW i \in s + 1 .. n  PROVE i \in Letters(w, part)
  <2>1. \A k \in i .. (n + 1) - 1 : w[k] # "-"
    BY <1>2, <1>4
  <2>2. i \in Nat \ {0} /\ i <= n + 1 /\ w[i] # "-" /\ i \in 1 .. Len(w)
    <3>1. \A l, a, b \in Nat : \A x \in a + 1 .. b : b <= l => x \in Nat \ {0} /\ x <= b + 1 /\ x \in 1 .. l
      OBVIOUS
    <3>2. i \in Nat \ {0} /\ i <= n + 1 /\ i \in 1 .. Len(w)
      BY <1>1, <1>2, <1>4, <3>1, Zenon
    <3> QED  BY <1>4, <3>2, Zenon
  <2>3. PartOf(w, i) = part
    BY <1>2, <2>1, <2>2, PartSame
  <2> QED  BY <1>1, <2>2, <2>3 DEF Letters
<1>5. ASSUME NEW i \in Letters(w, part)  PROVE i \in s + 1 .. n
  <2>1. i \in 1 .. Len(w) /\ w[i] # "-" /\ PartOf(w, i) = part
    BY <1>1, <1>5 DEF Letters
  <2>2. ASSUME i <= s  PROVE FALSE
    <3>1. s # 0 /\ w[s] = "-" /\ i \in Nat
      BY <1>2, <2>1, <2>2
    <3>2. PartOf(w, i) <= PartOf(w, s)
      BY <1>2, <2>2, <3>1, PartRises
    <3>3. PartOf(w, s) < PartOf(w, n + 1)
      BY <1>2, <3>1, PartLess
    <3>4. PartOf(w, s) \in Nat
      BY <1>2, PartNumber
    <3> QED  BY <1>3, <2>1, <3>2, <3>3, <3>4
  <2>0. i \in Nat /\ i <= Len(w)
    <3>1. \A l \in Nat : \A x \in 1 .. l : x \in Nat /\ x <= l
      OBVIOUS
    <3> QED  BY <1>1, <2>1, <3>1, Zenon
  <2>3. ASSUME i > n  PROVE FALSE
    <3>0. n # Len(w)
      <4>1. \A x, y, l \in Nat : x <= l /\ x > y => y # l
        OBVIOUS
      <4> QED  BY <1>1, <1>2, <2>0, <2>3, <4>1, Zenon
    <3>3. w[n + 1] = "-" /\ i # n + 1
      BY <3>0, <2>1, Zenon
    <3>1. i > n + 1 /\ w[n + 1] = "-" /\ i \in Nat
      BY <1>2, <2>0, <2>3, <3>3
    <3>2. PartOf(w, n + 1) < PartOf(w, i)
      BY <1>2, <3>1, PartLess
    <3> QED  BY <1>3, <2>1, <3>2
  <2>4. ~(i <= s) /\ ~(i > n)
    BY <2>2, <2>3, Zenon
  <2> QED  BY <1>2, <2>0, <2>4
<1> QED  BY <1>4, <1>5

-------------------------------------------------------------------------------
(* The inductive invariant. *)

(* What the characters s + 1 .. n, a part from its beginning, look like in a   *)
(* state of the matrix.                                                        *)
Mixed(w, s, n) ==
  \/ \E i \in s + 1 .. n : w[i] = "?"
  \/ \E i, j \in s + 1 .. n : i < j /\ w[i] = "a" /\ w[j] = "A"
  \/ w[s + 1] = "A" /\ w[s + 2] = "A" /\ \E i \in s + 3 .. n : w[i] = "a"

Shape(w, st, s, n) ==
  /\ st = UNDEFINED => n = s /\ n < Len(w)
  /\ st = ALL_SMALL => s < n /\ \A i \in s + 1 .. n : w[i] = "a"
  /\ st = FIRST_WAS => n = s + 1 /\ w[n] = "A"
  /\ st = FIRST_CAP => s + 1 < n /\ w[s + 1] = "A" /\ \A i \in s + 2 .. n : w[i] = "a"
  /\ st = WORD_CAPS => s + 1 < n /\ \A i \in s + 1 .. n : w[i] = "A"
  /\ st = ERROR_CAP => s < n /\ Mixed(w, s, n)

BeginsAt(w, s, n) ==
  /\ s = 0 \/ w[s] = "-"
  /\ \A i \in s + 1 .. n : w[i] # "-"

(* The bits of a scheme for some of the parts of a word. *)
Marks(w, parts) ==
  {2 * p : p \in {q \in parts : Reading(w, q) = "capital"}}
  \cup {2 * p + 1 : p \in {q \in parts : Reading(w, q) = "capitals"}}

(* The parts closed so far. *)
Closed ==
  {p \in 0 .. cdefis :
     p < cdefis \/ (pc = "head" /\ output # <<>> /\ word[Len(output)] # "-")}

Copied ==
  /\ size \in 0 .. 256 /\ Len(output) <= Len(word)
  /\ \A i \in 1 .. Len(output) : output[i] = Lower(word[i])

Position ==
  /\ pc = "idle" => /\ stem = NoStem /\ word = <<>> /\ output = <<>>
                    /\ cdefis = 0 /\ scheme = {} /\ bvalid
  /\ pc = "head" => output = <<>> \/ word[Len(output)] = "-" \/ Len(output) = Len(word)
  /\ pc = "part" => \E s \in 0 .. Len(output) :
                       /\ BeginsAt(word, s, Len(output)) /\ Shape(word, subcap, s, Len(output))
                       /\ bvalid => 2 * cdefis <= s

SchemeSoFar ==
  pc \in {"head", "part"} =>
    /\ bvalid <=> \A p \in Closed : Reading(word, p) # "wrong"
    /\ bvalid => 2 * cdefis <= Len(output)
    /\ bvalid /\ cdefis < 16 => scheme = Marks(word, Closed)

Told ==
  pc = "judged" =>
    IF Len(word) >= size THEN result = TooLong
    ELSE /\ Len(output) = Len(word)
         /\ result \subseteq 0 .. 15
         /\ IF \E p \in 0 .. Hyphens(word) : Reading(word, p) = "wrong"
              THEN {6, 7} \subseteq result
              ELSE /\ Hyphens(word) >= 3 => \E b \in 10 .. 15 : b \in result
                   /\ Hyphens(word) <= 3 =>
                        result = Shifted(Hyphens(word) + 1, 8) \cup Marks(word, 0 .. Hyphens(word))

Written ==
  stem # NoStem =>
    /\ stem \in [form : Forms, minCap : 0 .. 2]
    /\ word = SetCapScheme(stem.form, GetMinScheme(stem.minCap, stem.form, 0))

CapInv == CapTypeOK /\ Copied /\ Position /\ SchemeSoFar /\ Told /\ Written

-------------------------------------------------------------------------------
(* How a part is read. *)

(* The five ways to read a part, one of which applies. *)
LEMMA ReadingTold ==
  ASSUME NEW w, NEW p, NEW L, L = Letters(w, p)
  PROVE  /\ L = {} => Reading(w, p) = IF p = Hyphens(w) THEN "small" ELSE "wrong"
         /\ L # {} /\ (\A i \in L : w[i] = "a") => Reading(w, p) = "small"
         /\ L # {} /\ (\A i \in L : w[i] = "A") => Reading(w, p) = "capitals"
         /\ (\E i \in L : w[i] = "A") /\ (\E i \in L : ~FirstInPart(w, i))
              /\ (\A i \in L : ~FirstInPart(w, i) => w[i] = "a") => Reading(w, p) = "capital"
         /\ \/ \A i \in L : w[i] = "a"
            \/ \A i \in L : w[i] = "A"
            \/ /\ \E i \in L : w[i] = "A"
               /\ \E i \in L : ~FirstInPart(w, i)
               /\ \A i \in L : ~FirstInPart(w, i) => w[i] = "a"
            \/ Reading(w, p) = "wrong"
<1> DEFINE kinds == {w[i] : i \in L}
           rest == {w[i] : i \in {j \in L : ~FirstInPart(w, j)}}
<1>1. Reading(w, p) =
        IF L = {} THEN IF p = Hyphens(w) THEN "small" ELSE "wrong"
        ELSE IF kinds = {"a"} THEN "small"
        ELSE IF kinds = {"A"} THEN "capitals"
        ELSE IF "A" \in kinds /\ rest = {"a"} THEN "capital"
        ELSE "wrong"
  BY Zenon DEF Reading
<1>2. L # {} => (kinds = {"a"} <=> \A i \in L : w[i] = "a")
  OBVIOUS
<1>3. L # {} => (kinds = {"A"} <=> \A i \in L : w[i] = "A")
  OBVIOUS
<1>4. "A" \in kinds <=> \E i \in L : w[i] = "A"
  OBVIOUS
<1>5. rest = {"a"} <=> (/\ \E i \in L : ~FirstInPart(w, i)
                       /\ \A i \in L : ~FirstInPart(w, i) => w[i] = "a")
  OBVIOUS
<1>6. ASSUME \E i \in L : w[i] = "A", \E i \in L : ~FirstInPart(w, i),
             \A i \in L : ~FirstInPart(w, i) => w[i] = "a"
      PROVE  L # {} /\ kinds # {"a"} /\ kinds # {"A"}
  <2>1. PICK i \in L : w[i] = "A"
    BY <1>6
  <2>2. PICK j \in L : w[j] = "a"
    BY <1>6
  <2>3. "A" \in kinds /\ "a" \in kinds
    BY <2>1, <2>2
  <2> HIDE DEF kinds
  <2> QED  BY <2>1, <2>3
<1> HIDE DEF kinds, rest
<1> QED  BY <1>1, <1>2, <1>3, <1>4, <1>5, <1>6

(* What the matrix makes of a whole part is how a reader reads it. *)
LEMMA ShapeRead ==
  ASSUME NEW w \in Seq(Kinds), NEW s \in Nat, NEW n \in Nat, s <= n, n <= Len(w),
         NEW st \in UNDEFINED .. ERROR_CAP, BeginsAt(w, s, n), Shape(w, st, s, n),
         n = Len(w) \/ w[n + 1] = "-"
  PROVE  LET r == Reading(w, PartOf(w, n + 1))
             c == CapState(st, "-")
         IN \/ c = ALL_SMALL /\ r = "small"
            \/ c = FIRST_CAP /\ r = "capital"
            \/ c = WORD_CAPS /\ r = "capitals"
            \/ c = ERROR_CAP /\ r = "wrong"
<1> DEFINE p == PartOf(w, n + 1)
           L == s + 1 .. n
<1>1. L = Letters(w, p)
  BY LettersBetween DEF BeginsAt
<1>2. \A i \in L : FirstInPart(w, i) <=> i = s + 1
  <2> TAKE i \in L
  <2>1. CASE i = s + 1
    <3>1. i - 1 = s
      BY <2>1
    <3>2. s = 0 => i = 1
      BY <2>1
    <3> QED  BY <2>1, <3>1, <3>2, Zenon DEF FirstInPart, BeginsAt
  <2>2. CASE i # s + 1
    <3>1. i - 1 \in L /\ i # 1
      BY <2>2
    <3> QED  BY <2>2, <3>1, Zenon DEF FirstInPart, BeginsAt
  <2> QED  BY <2>1, <2>2
<1>3. n > s => s + 1 \in L
  OBVIOUS
<1>4. n > s + 1 => s + 2 \in L /\ s + 2 # s + 1
  OBVIOUS
<1>5. CASE st = UNDEFINED
  <2>1. n = s /\ n # Len(w)
    BY <1>5, LenProperties DEF Shape, UNDEFINED
  <2>2. L = {}
    BY <2>1
  <2>3. w[n + 1] = "-" /\ n + 1 \in Nat \ {0} /\ Len(w) + 1 \in Nat /\ n + 1 < Len(w) + 1
    BY <2>1, LenProperties
  <2>4. p < Hyphens(w) /\ p \in Nat /\ Hyphens(w) \in Nat
    BY <2>3, PartLess, PartNumber DEF Hyphens
  <2>5. p # Hyphens(w)
    BY <2>4
  <2>6. Reading(w, p) = "wrong"
    <3> HIDE DEF L, p
    <3> QED  BY <1>1, <2>2, <2>5, ReadingTold
  <2> QED  BY <1>5, <2>6 DEF CapState, UNDEFINED, FIRST_WAS, ERROR_CAP
<1>6. CASE st = ALL_SMALL
  <2>1. L # {} /\ \A i \in L : w[i] = "a"
    BY <1>6, <1>3 DEF Shape, ALL_SMALL
  <2>2. Reading(w, p) = "small"
    <3> HIDE DEF L, p
    <3> QED  BY <1>1, <2>1, ReadingTold
  <2> QED  BY <1>6, <2>2 DEF CapState, UNDEFINED, FIRST_WAS, ALL_SMALL
<1>7. CASE st = FIRST_WAS
  <2>1. n = s + 1 /\ w[n] = "A"
    BY <1>7 DEF Shape, FIRST_WAS
  <2>2. L # {} /\ \A i \in L : w[i] = "A"
    <3>1. L = {n}
      BY <2>1
    <3> HIDE DEF L
    <3> QED  BY <2>1, <3>1, Zenon
  <2>3. Reading(w, p) = "capitals"
    <3> HIDE DEF L, p
    <3> QED  BY <1>1, <2>1, <2>2, ReadingTold
  <2> QED  BY <1>7, <2>3 DEF CapState, FIRST_WAS
<1>8. CASE st = FIRST_CAP
  <2>1. s + 1 < n /\ w[s + 1] = "A" /\ \A i \in s + 2 .. n : w[i] = "a"
    BY <1>8 DEF Shape, FIRST_CAP
  <2>2. s + 1 \in L /\ s + 2 \in L /\ s + 2 # s + 1 /\ \A i \in L : i # s + 1 => i \in s + 2 .. n
    BY <2>1
  <2>3. Reading(w, p) = "capital"
    <3> HIDE DEF L, p
    <3> QED  BY <1>1, <1>2, <2>1, <2>2, ReadingTold
  <2> QED  BY <1>8, <2>3 DEF CapState, UNDEFINED, FIRST_WAS, FIRST_CAP
<1>9. CASE st = WORD_CAPS
  <2>1. s + 1 < n /\ \A i \in L : w[i] = "A"
    BY <1>9 DEF Shape, WORD_CAPS
  <2>2. L # {}
    <3>1. s + 1 < n
      BY <2>1, Zenon
    <3>2. n > s
      BY <3>1
    <3> QED  BY <1>3, <3>2, Zenon
  <2>3. Reading(w, p) = "capitals"
    <3> HIDE DEF L, p
    <3> QED  BY <1>1, <2>1, <2>2, ReadingTold
  <2> QED  BY <1>9, <2>3 DEF CapState, UNDEFINED, FIRST_WAS, WORD_CAPS
<1>10. CASE st = ERROR_CAP
  <2>1. s < n /\ Mixed(w, s, n)
    BY <1>10 DEF Shape, ERROR_CAP
  <2>2. s + 1 \in L
    BY <2>1
  <2>3. /\ \E i \in L : w[i] # "a"
        /\ \E i \in L : w[i] # "A"
        /\ ~(/\ \E i \in L : w[i] = "A"
             /\ \A i \in L : ~FirstInPart(w, i) => w[i] = "a")
    <3>1. ASSUME NEW i \in L, w[i] = "?"  PROVE <2>3
      <4>1. CASE i = s + 1
        <5>1. \A j \in L : w[j] = "A" => j # s + 1
          BY <3>1, <4>1
        <5> QED  BY <1>2, <3>1, <5>1
      <4>2. CASE i # s + 1
        BY <1>2, <3>1, <4>2
      <4> QED  BY <4>1, <4>2
    <3>2. ASSUME NEW i \in L, NEW j \in L, i < j, w[i] = "a", w[j] = "A"  PROVE <2>3
      <4>1. j # s + 1
        BY <3>2
      <4> QED  BY <1>2, <3>2, <4>1
    <3>3. ASSUME w[s + 1] = "A", w[s + 2] = "A", NEW i \in s + 3 .. n, w[i] = "a"  PROVE <2>3
      <4>1. i \in L /\ s + 2 \in L /\ s + 2 # s + 1
        BY <3>3
      <4> QED  BY <1>2, <2>2, <3>3, <4>1
    <3> HIDE DEF L
    <3> QED  BY <2>1, <3>1, <3>2, <3>3 DEF Mixed, L
  <2>4. Reading(w, p) = "wrong"
    <3> HIDE DEF L, p
    <3> QED  BY <1>1, <2>3, ReadingTold
  <2> QED  BY <1>10, <2>4 DEF CapState, UNDEFINED, FIRST_WAS, ERROR_CAP
<1>11. st \in {UNDEFINED, ALL_SMALL, FIRST_WAS, FIRST_CAP, WORD_CAPS, ERROR_CAP}
  BY DEF UNDEFINED, ALL_SMALL, FIRST_WAS, FIRST_CAP, WORD_CAPS, ERROR_CAP
<1> QED  BY <1>5, <1>6, <1>7, <1>8, <1>9, <1>10, <1>11

(* The shapes one by one. *)
LEMMA Shapes ==
  ASSUME NEW w, NEW s, NEW n
  PROVE  /\ Shape(w, UNDEFINED, s, n) <=> n = s /\ n < Len(w)
         /\ Shape(w, ALL_SMALL, s, n) <=> s < n /\ \A i \in s + 1 .. n : w[i] = "a"
         /\ Shape(w, FIRST_WAS, s, n) <=> n = s + 1 /\ w[n] = "A"
         /\ Shape(w, FIRST_CAP, s, n) <=>
              s + 1 < n /\ w[s + 1] = "A" /\ \A i \in s + 2 .. n : w[i] = "a"
         /\ Shape(w, WORD_CAPS, s, n) <=> s + 1 < n /\ \A i \in s + 1 .. n : w[i] = "A"
         /\ Shape(w, ERROR_CAP, s, n) <=> s < n /\ Mixed(w, s, n)
<1> DEFINE U == n = s /\ n < Len(w)
           S == s < n /\ \A i \in s + 1 .. n : w[i] = "a"
           W == n = s + 1 /\ w[n] = "A"
           F == s + 1 < n /\ w[s + 1] = "A" /\ \A i \in s + 2 .. n : w[i] = "a"
           C == s + 1 < n /\ \A i \in s + 1 .. n : w[i] = "A"
           E == s < n /\ Mixed(w, s, n)
<1>1. \A st : Shape(w, st, s, n) <=>
        /\ st = UNDEFINED => U
        /\ st = ALL_SMALL => S
        /\ st = FIRST_WAS => W
        /\ st = FIRST_CAP => F
        /\ st = WORD_CAPS => C
        /\ st = ERROR_CAP => E
  BY Zenon DEF Shape
<1> HIDE DEF U, S, W, F, C, E
<1>2. /\ Shape(w, UNDEFINED, s, n) <=> U
      /\ Shape(w, ALL_SMALL, s, n) <=> S
      /\ Shape(w, FIRST_WAS, s, n) <=> W
      /\ Shape(w, FIRST_CAP, s, n) <=> F
      /\ Shape(w, WORD_CAPS, s, n) <=> C
      /\ Shape(w, ERROR_CAP, s, n) <=> E
  BY <1>1 DEF UNDEFINED, ALL_SMALL, FIRST_WAS, FIRST_CAP, WORD_CAPS, ERROR_CAP
<1> QED  BY <1>2, Zenon DEF U, S, W, F, C, E

(* A letter keeps the shape of the part. *)
LEMMA ShapeKept ==
  ASSUME NEW w, NEW s \in Nat, NEW n \in Nat, s <= n, n + 1 <= Len(w),
         NEW st \in UNDEFINED .. ERROR_CAP, BeginsAt(w, s, n), Shape(w, st, s, n),
         w[n + 1] # "-", w[n + 1] \in Kinds
  PROVE  BeginsAt(w, s, n + 1) /\ Shape(w, CapState(st, w[n + 1]), s, n + 1)
<1>1. PICK m \in Nat : m = n + 1
  OBVIOUS
<1>2. m \in s + 1 .. m /\ s < m /\ m - 1 = n
  BY <1>1
<1>3. \A i \in s + 1 .. m : i \in s + 1 .. n \/ i = m
  BY <1>1
<1>4. \A i \in s + 1 .. n : i \in s + 1 .. m /\ i < m
  BY <1>1
<1>5. \A i \in s + 2 .. m : i \in s + 2 .. n \/ i = m
  BY <1>1
<1>6. \A i \in s + 3 .. n : i \in s + 3 .. m
  BY <1>1
<1>7. s < n => n \in s + 1 .. n
  OBVIOUS
<1>8. s + 1 < n => /\ n \in s + 2 .. n /\ n \in s + 1 .. n /\ s + 1 < m
                    /\ m \in s + 3 .. m /\ s + 1 \in s + 1 .. n /\ s + 2 \in s + 1 .. n
  BY <1>1
<1>9. n = s => m = s + 1
  BY <1>1
<1>10. n = s + 1 => /\ s + 1 < m /\ \A i \in s + 2 .. m : i = m
                    /\ \A i \in s + 1 .. m : i = n \/ i = m
  BY <1>1
<1>11. n = s => \A i \in s + 1 .. m : i = m
  BY <1>1
<1>12. /\ st = UNDEFINED => n = s
       /\ st = ALL_SMALL => s < n /\ \A i \in s + 1 .. n : w[i] = "a"
       /\ st = FIRST_WAS => n = s + 1 /\ w[n] = "A"
       /\ st = FIRST_CAP => s + 1 < n /\ w[s + 1] = "A" /\ \A i \in s + 2 .. n : w[i] = "a"
       /\ st = WORD_CAPS => s + 1 < n /\ \A i \in s + 1 .. n : w[i] = "A"
       /\ st = ERROR_CAP => s < n /\ Mixed(w, s, n)
  BY Zenon DEF Shape
<1>13. /\ s < m /\ (\A i \in s + 1 .. m : w[i] = "a") => Shape(w, ALL_SMALL, s, m)
       /\ m = s + 1 /\ w[m] = "A" => Shape(w, FIRST_WAS, s, m)
       /\ s + 1 < m /\ w[s + 1] = "A" /\ (\A i \in s + 2 .. m : w[i] = "a") => Shape(w, FIRST_CAP, s, m)
       /\ s + 1 < m /\ (\A i \in s + 1 .. m : w[i] = "A") => Shape(w, WORD_CAPS, s, m)
       /\ s < m /\ Mixed(w, s, m) => Shape(w, ERROR_CAP, s, m)
  BY Shapes, Zenon
<1>14. BeginsAt(w, s, m)
  BY <1>1, <1>3 DEF BeginsAt
<1>15. w[m] \in {"A", "a", "?"}
  BY <1>1 DEF Kinds
<1>16. ASSUME st = ERROR_CAP  PROVE Shape(w, ERROR_CAP, s, m)
  <2>1. Mixed(w, s, n)
    BY <1>16, <1>12
  <2>2. Mixed(w, s, m)
    BY <1>4, <1>6, <2>1, Zenon DEF Mixed
  <2> QED  BY <1>2, <2>2, <1>13
<1>17. st \in {UNDEFINED, ALL_SMALL, FIRST_WAS, FIRST_CAP, WORD_CAPS, ERROR_CAP}
  BY DEF UNDEFINED, ALL_SMALL, FIRST_WAS, FIRST_CAP, WORD_CAPS, ERROR_CAP
<1>18. CASE w[m] = "A"
  <2>0. CapState(st, "A") = IF st = UNDEFINED THEN FIRST_WAS
                            ELSE IF st \in {WORD_CAPS, FIRST_WAS} THEN WORD_CAPS ELSE ERROR_CAP
    BY DEF CapState
  <2>1. CASE st = UNDEFINED
    <3>1. m = s + 1
      BY <1>9, <2>1, <1>12, <1>13, Zenon
    <3>2. Shape(w, FIRST_WAS, s, m)
      BY <1>18, <3>1, <1>12, <1>13, Zenon
    <3> QED  BY <1>1, <1>14, <1>18, <2>0, <2>1, <3>2, Zenon
  <2>2. CASE st \in {ALL_SMALL, FIRST_CAP}
    <3>1. n \in s + 1 .. n /\ w[n] = "a"
      <4>1. CASE st = ALL_SMALL
        BY <4>1, <1>7, <1>12, <1>13, Zenon
      <4>2. CASE st = FIRST_CAP
        BY <1>8, <4>2, <1>12, <1>13, Zenon
      <4> QED  BY <2>2, <4>1, <4>2
    <3>2. Mixed(w, s, m)
      BY <1>2, <1>4, <1>18, <3>1, Zenon DEF Mixed
    <3>3. Shape(w, ERROR_CAP, s, m)
      BY <1>2, <3>2, <1>12, <1>13, Zenon
    <3>4. CapState(st, "A") = ERROR_CAP
      BY <2>2, <2>0 DEF UNDEFINED, ALL_SMALL, FIRST_WAS, FIRST_CAP, WORD_CAPS, ERROR_CAP
    <3> QED  BY <1>1, <1>14, <1>18, <3>3, <3>4, Zenon
  <2>3. CASE st \in {FIRST_WAS, WORD_CAPS}
    <3>1. Shape(w, WORD_CAPS, s, m)
      <4>1. CASE st = FIRST_WAS
        BY <1>18, <1>10, <4>1, <1>12, <1>13, Zenon
      <4>2. CASE st = WORD_CAPS
        <5>1. s + 1 < n /\ \A i \in s + 1 .. n : w[i] = "A"
          BY <4>2, <1>12, <1>13, Zenon
        <5> QED  BY <1>3, <1>18, <1>8, <5>1, <1>12, <1>13, Zenon
      <4> QED  BY <2>3, <4>1, <4>2
    <3>2. CapState(st, "A") = WORD_CAPS
      BY <2>3, <2>0 DEF UNDEFINED, FIRST_WAS, WORD_CAPS, ERROR_CAP
    <3> QED  BY <1>1, <1>14, <1>18, <3>1, <3>2, Zenon
  <2>4. CASE st = ERROR_CAP
    <3>1. CapState(st, "A") = ERROR_CAP
      BY <2>4, <2>0 DEF UNDEFINED, FIRST_WAS, WORD_CAPS, ERROR_CAP
    <3> QED  BY <1>1, <1>14, <1>16, <1>18, <2>4, <3>1, Zenon
  <2> QED  BY <1>17, <2>1, <2>2, <2>3, <2>4
<1>19. CASE w[m] = "a"
  <2>0. CapState(st, "a") = IF st \in {UNDEFINED, ALL_SMALL} THEN ALL_SMALL
                            ELSE IF st \in {FIRST_CAP, FIRST_WAS} THEN FIRST_CAP ELSE ERROR_CAP
    BY DEF CapState
  <2>1. CASE st \in {UNDEFINED, ALL_SMALL}
    <3>1. \A i \in s + 1 .. m : w[i] = "a"
      <4>1. CASE st = UNDEFINED
        BY <1>19, <1>11, <4>1, <1>12, <1>13, Zenon
      <4>2. CASE st = ALL_SMALL
        BY <1>3, <1>19, <4>2, <1>12, <1>13, Zenon
      <4> QED  BY <2>1, <4>1, <4>2
    <3>2. Shape(w, ALL_SMALL, s, m)
      BY <1>2, <3>1, <1>12, <1>13, Zenon
    <3> QED  BY <1>1, <1>14, <1>19, <2>0, <2>1, <3>2, Zenon
  <2>2. CASE st \in {FIRST_WAS, FIRST_CAP}
    <3>1. Shape(w, FIRST_CAP, s, m)
      <4>1. CASE st = FIRST_WAS
        <5>1. n = s + 1 /\ w[s + 1] = "A"
          BY <4>1, <1>12, <1>13, Zenon
        <5>2. \A i \in s + 2 .. m : w[i] = "a"
          BY <1>19, <1>10, <5>1, Zenon
        <5> QED  BY <1>10, <5>1, <5>2, <1>12, <1>13, Zenon
      <4>2. CASE st = FIRST_CAP
        <5>1. s + 1 < n /\ w[s + 1] = "A" /\ \A i \in s + 2 .. n : w[i] = "a"
          BY <4>2, <1>12, <1>13, Zenon
        <5> QED  BY <1>5, <1>19, <1>8, <5>1, <1>12, <1>13, Zenon
      <4> QED  BY <2>2, <4>1, <4>2
    <3>2. CapState(st, "a") = FIRST_CAP
      BY <2>2, <2>0 DEF UNDEFINED, ALL_SMALL, FIRST_WAS, FIRST_CAP, WORD_CAPS, ERROR_CAP
    <3> QED  BY <1>1, <1>14, <1>19, <3>1, <3>2, Zenon
  <2>3. CASE st \in {WORD_CAPS, ERROR_CAP}
    <3>1. Shape(w, ERROR_CAP, s, m)
      <4>1. CASE st = WORD_CAPS
        <5>1. s + 1 < n /\ \A i \in s + 1 .. n : w[i] = "A"
          BY <4>1, <1>12, <1>13, Zenon
        <5>2. Mixed(w, s, m)
          BY <1>19, <1>8, <5>1, Zenon DEF Mixed
        <5> QED  BY <1>2, <5>2, <1>12, <1>13, Zenon
      <4> QED  BY <1>16, <2>3, <4>1
    <3>2. CapState(st, "a") = ERROR_CAP
      BY <2>3, <2>0 DEF UNDEFINED, ALL_SMALL, FIRST_WAS, FIRST_CAP, WORD_CAPS, ERROR_CAP
    <3> QED  BY <1>1, <1>14, <1>19, <3>1, <3>2, Zenon
  <2> QED  BY <1>17, <2>1, <2>2, <2>3
<1>20. CASE w[m] = "?"
  <2>1. Mixed(w, s, m)
    BY <1>2, <1>20, Zenon DEF Mixed
  <2>2. Shape(w, ERROR_CAP, s, m)
    BY <1>2, <2>1, <1>12, <1>13, Zenon
  <2>3. CapState(st, "?") = ERROR_CAP
    BY DEF CapState
  <2> QED  BY <1>1, <1>14, <1>20, <2>2, <2>3, Zenon
<1> QED  BY <1>15, <1>18, <1>19, <1>20

-------------------------------------------------------------------------------
(* Numbers as bits. *)

(* The bits of the numbers the code packs. *)
LEMMA BitsTable ==
  /\ BitsOf(0) = {} /\ BitsOf(1) = {0} /\ BitsOf(2) = {1} /\ BitsOf(3) = {0, 1} /\ BitsOf(4) = {2}
  /\ \A n : BitsOf(n) \subseteq 0 .. 8
<1>1. BitsOf(0) = {}
  BY DEF BitsOf, Weights
<1>2. BitsOf(1) = {0}
  BY DEF BitsOf, Weights
<1>3. BitsOf(2) = {1}
  BY DEF BitsOf, Weights
<1>4. BitsOf(3) = {0, 1}
  BY DEF BitsOf, Weights
<1>5. BitsOf(4) = {2}
  BY DEF BitsOf, Weights
<1>6. \A n : BitsOf(n) \subseteq 0 .. 8
  BY Zenon DEF BitsOf
<1> QED  BY <1>1, <1>2, <1>3, <1>4, <1>5, <1>6

(* A count of four parts or more has a bit above the lowest two. *)
LEMMA BitsHigh ==
  ASSUME NEW n \in 4 .. 255
  PROVE  \E b \in 2 .. 7 : b \in BitsOf(n)
BY DEF BitsOf, Weights

(* Different bytes have different bits. *)
LEMMA BitsTell ==
  ASSUME NEW m \in 0 .. 255, NEW n \in 0 .. 255, BitsOf(m) = BitsOf(n)
  PROVE  m = n
<1>1. \A b \in 0 .. 7 : b \in BitsOf(m) <=> b \in BitsOf(n)
  OBVIOUS
<1>2. (m \div 1) % 2 = (n \div 1) % 2
  <2>1. 0 \in BitsOf(m) <=> 0 \in BitsOf(n)
    BY <1>1
  <2> QED  BY <2>1 DEF BitsOf, Weights
<1>3. (m \div 2) % 2 = (n \div 2) % 2
  <2>1. 1 \in BitsOf(m) <=> 1 \in BitsOf(n)
    BY <1>1
  <2> QED  BY <2>1 DEF BitsOf, Weights
<1>4. (m \div 4) % 2 = (n \div 4) % 2
  <2>1. 2 \in BitsOf(m) <=> 2 \in BitsOf(n)
    BY <1>1
  <2> QED  BY <2>1 DEF BitsOf, Weights
<1>5. (m \div 8) % 2 = (n \div 8) % 2
  <2>1. 3 \in BitsOf(m) <=> 3 \in BitsOf(n)
    BY <1>1
  <2> QED  BY <2>1 DEF BitsOf, Weights
<1>6. (m \div 16) % 2 = (n \div 16) % 2
  <2>1. 4 \in BitsOf(m) <=> 4 \in BitsOf(n)
    BY <1>1
  <2> QED  BY <2>1 DEF BitsOf, Weights
<1>7. (m \div 32) % 2 = (n \div 32) % 2
  <2>1. 5 \in BitsOf(m) <=> 5 \in BitsOf(n)
    BY <1>1
  <2> QED  BY <2>1 DEF BitsOf, Weights
<1>8. (m \div 64) % 2 = (n \div 64) % 2
  <2>1. 6 \in BitsOf(m) <=> 6 \in BitsOf(n)
    BY <1>1
  <2> QED  BY <2>1 DEF BitsOf, Weights
<1>9. (m \div 128) % 2 = (n \div 128) % 2
  <2>1. 7 \in BitsOf(m) <=> 7 \in BitsOf(n)
    BY <1>1
  <2> QED  BY <2>1 DEF BitsOf, Weights
<1>10. m \div 128 = n \div 128
  BY <1>9
<1>11. m \div 64 = n \div 64
  BY <1>10, <1>8
<1>12. m \div 32 = n \div 32
  BY <1>11, <1>7
<1>13. m \div 16 = n \div 16
  BY <1>12, <1>6
<1>14. m \div 8 = n \div 8
  BY <1>13, <1>5
<1>15. m \div 4 = n \div 4
  BY <1>14, <1>4
<1>16. m \div 2 = n \div 2
  BY <1>15, <1>3
<1>17. m \div 1 = n \div 1
  BY <1>16, <1>2
<1> QED  BY <1>17

(* The bits a part adds to the scheme. *)
LEMMA PartAdds ==
  ASSUME NEW part \in Nat
  PROVE  /\ \A n : \A bits \in PartBits(n, part) : bits \subseteq 0 .. 31
         /\ part < 16 =>
              /\ PartBits(ALL_SMALL - 1, part) = {{}}
              /\ PartBits(FIRST_CAP - 1, part) = {{2 * part}}
              /\ PartBits(WORD_CAPS - 1, part) = {{2 * part + 1}}
<1>1. \A n : \A bits \in PartBits(n, part) : bits \subseteq 0 .. 31
  BY DEF PartBits
<1>2. ASSUME part < 16, NEW n, NEW B, Shifted(n, 2 * part) = B, B \subseteq 0 .. 31
      PROVE  PartBits(n, part) = {B}
  BY <1>2 DEF PartBits
<1>3. ASSUME part < 16
      PROVE  /\ PartBits(ALL_SMALL - 1, part) = {{}}
             /\ PartBits(FIRST_CAP - 1, part) = {{2 * part}}
             /\ PartBits(WORD_CAPS - 1, part) = {{2 * part + 1}}
  <2>1. ALL_SMALL - 1 = 0 /\ FIRST_CAP - 1 = 1 /\ WORD_CAPS - 1 = 2
    BY DEF ALL_SMALL, FIRST_CAP, WORD_CAPS
  <2>2. Shifted(0, 2 * part) = {}
    BY BitsTable DEF Shifted
  <2>3. Shifted(1, 2 * part) = {2 * part}
    BY BitsTable DEF Shifted
  <2>4. Shifted(2, 2 * part) = {2 * part + 1}
    BY BitsTable DEF Shifted
  <2>5. {} \subseteq 0 .. 31 /\ {2 * part} \subseteq 0 .. 31 /\ {2 * part + 1} \subseteq 0 .. 31
    BY <1>3
  <2> QED  BY <1>2, <1>3, <2>1, <2>2, <2>3, <2>4, <2>5, Zenon
<1> QED  BY <1>1, <1>3

(* The bits for no part, for one part more and for none that tells. *)
LEMMA MarksGrow ==
  ASSUME NEW w, NEW P, NEW c \in Nat
  PROVE  /\ Marks(w, {}) = {}
         /\ Reading(w, c) = "small" => Marks(w, P \cup {c}) = Marks(w, P)
         /\ Reading(w, c) = "capital" => Marks(w, P \cup {c}) = Marks(w, P) \cup {2 * c}
         /\ Reading(w, c) = "capitals" => Marks(w, P \cup {c}) = Marks(w, P) \cup {2 * c + 1}
<1> DEFINE A(Q) == {2 * p : p \in {q \in Q : Reading(w, q) = "capital"}}
           B(Q) == {2 * p + 1 : p \in {q \in Q : Reading(w, q) = "capitals"}}
<1>1. \A Q : Marks(w, Q) = A(Q) \cup B(Q)
  BY Zenon DEF Marks
<1>2. A({}) = {} /\ B({}) = {}
  OBVIOUS
<1>3. Reading(w, c) # "capital" => A(P \cup {c}) = A(P)
  OBVIOUS
<1>4. Reading(w, c) # "capitals" => B(P \cup {c}) = B(P)
  OBVIOUS
<1>5. Reading(w, c) = "capital" => A(P \cup {c}) = A(P) \cup {2 * c}
  OBVIOUS
<1>6. Reading(w, c) = "capitals" => B(P \cup {c}) = B(P) \cup {2 * c + 1}
  OBVIOUS
<1> HIDE DEF A, B
<1> QED  BY <1>1, <1>2, <1>3, <1>4, <1>5, <1>6

(* The bits of a part and only they tell how it is read. *)
LEMMA MarksTell ==
  ASSUME NEW w, NEW k \in Nat
  PROVE  /\ Marks(w, 0 .. k) \subseteq 0 .. 2 * k + 1
         /\ \A p \in 0 .. k :
              /\ 2 * p \in Marks(w, 0 .. k) <=> Reading(w, p) = "capital"
              /\ 2 * p + 1 \in Marks(w, 0 .. k) <=> Reading(w, p) = "capitals"
<1>1. Marks(w, 0 .. k) \subseteq 0 .. 2 * k + 1
  BY DEF Marks
<1>2. ASSUME NEW p \in 0 .. k
      PROVE  /\ 2 * p \in Marks(w, 0 .. k) <=> Reading(w, p) = "capital"
             /\ 2 * p + 1 \in Marks(w, 0 .. k) <=> Reading(w, p) = "capitals"
  <2>1. \A q \in 0 .. k : (2 * p = 2 * q => p = q) /\ 2 * p # 2 * q + 1
                           /\ (2 * p + 1 = 2 * q + 1 => p = q) /\ 2 * p + 1 # 2 * q
    OBVIOUS
  <2> QED  BY <2>1, Zenon DEF Marks
<1> QED  BY <1>1, <1>2

-------------------------------------------------------------------------------
(* The steps. *)

(* The matrix stays within its states; a hyphen ends a part. *)
LEMMA StateTyped ==
  ASSUME NEW st \in UNDEFINED .. ERROR_CAP
  PROVE  /\ \A c \in Kinds : CapState(st, c) \in UNDEFINED .. ERROR_CAP
         /\ CapState(st, "-") \in {ALL_SMALL, FIRST_CAP, WORD_CAPS, ERROR_CAP}
<1>1. st \in 0 .. 5
  BY DEF UNDEFINED, ERROR_CAP
<1>2. CapState(st, "A") \in 0 .. 5
  BY <1>1 DEF CapState, UNDEFINED, ALL_SMALL, FIRST_CAP, WORD_CAPS, FIRST_WAS, ERROR_CAP
<1>3. CapState(st, "a") \in 0 .. 5
  BY <1>1 DEF CapState, UNDEFINED, ALL_SMALL, FIRST_CAP, WORD_CAPS, FIRST_WAS, ERROR_CAP
<1>4. CapState(st, "-") \in {1, 2, 3, 5}
  BY <1>1 DEF CapState, UNDEFINED, ALL_SMALL, FIRST_CAP, WORD_CAPS, FIRST_WAS, ERROR_CAP
<1>5. CapState(st, "?") \in 0 .. 5
  BY DEF CapState, ERROR_CAP
<1> QED
  BY <1>2, <1>3, <1>4, <1>5 DEF Kinds, UNDEFINED, ALL_SMALL, FIRST_CAP, WORD_CAPS, FIRST_WAS, ERROR_CAP

(* Where the scan is in the word, by the lengths. *)
LEMMA Here ==
  ASSUME CapTypeOK, Copied
  PROVE  /\ Len(output) \in Nat /\ Len(word) \in Nat /\ Len(output) <= Len(word)
         /\ size \in Nat /\ size <= 256 /\ Len(output) <= size
         /\ output \in Seq(Kinds) /\ DOMAIN output = 1 .. Len(output)
         /\ word \in Seq(Kinds) /\ DOMAIN word = 1 .. Len(word)
         /\ \A i \in 1 .. Len(word) : word[i] \in Kinds
         /\ \A i \in 1 .. Len(output) : output[i] = "-" <=> word[i] = "-"
         /\ \A i \in 1 .. Len(output) + 1 : PartOf(output, i) = PartOf(word, i)
         /\ cdefis = PartOf(word, Len(output) + 1)
         /\ cdefis \in Nat /\ Hyphens(word) \in Nat /\ cdefis <= Hyphens(word)
<1>1. /\ word \in Seq(Kinds) /\ output \in Seq(Kinds \ {"A"}) /\ Len(output) <= size
      /\ cdefis = Hyphens(output)
  BY DEF CapTypeOK
<1>2. output \in Seq(Kinds)
  BY <1>1, SeqMonotonic
<1>3. /\ Len(output) \in Nat /\ Len(word) \in Nat
      /\ DOMAIN output = 1 .. Len(output) /\ DOMAIN word = 1 .. Len(word)
  BY <1>1, <1>2, LenProperties
<1>4. \A i \in 1 .. Len(word) : word[i] \in Kinds
  BY <1>1, ElementOfSeq
<1>5. Len(output) <= Len(word) /\ size \in 0 .. 256
  BY DEF Copied
<1>6. \A i \in 1 .. Len(output) : output[i] = "-" <=> word[i] = "-"
  <2> TAKE i \in 1 .. Len(output)
  <2>1. output[i] = Lower(word[i])
    BY DEF Copied
  <2> QED  BY <2>1 DEF Lower
<1>7. ASSUME NEW i \in 1 .. Len(output) + 1  PROVE PartOf(output, i) = PartOf(word, i)
  <2>1. \A j \in 1 .. i - 1 : j \in 1 .. Len(output)
    BY <1>3, <1>7
  <2>2. i \in Nat
    BY <1>3, <1>7
  <2> QED  BY <1>6, <2>1, <2>2, PartAlike
<1>8. Len(output) + 1 \in Nat /\ Len(word) + 1 \in Nat /\ Len(output) + 1 <= Len(word) + 1
      /\ Len(output) + 1 \in 1 .. Len(output) + 1
  BY <1>3, <1>5
<1>9. cdefis = PartOf(word, Len(output) + 1)
  BY <1>1, <1>7, <1>8, Zenon DEF Hyphens
<1>10. cdefis \in Nat /\ Hyphens(word) \in Nat /\ cdefis <= Hyphens(word)
  BY <1>8, <1>9, PartNumber, PartRises DEF Hyphens
<1>11. size \in Nat /\ size <= 256
  BY <1>5
<1> QED  BY <1>1, <1>2, <1>3, <1>4, <1>5, <1>6, <1>7, <1>9, <1>10, <1>11

(* The initial state, and the state between calls. *)
LEMMA Empty == Init => CapInv
<1> SUFFICES ASSUME Init  PROVE CapInv
  OBVIOUS
<1> USE DEF Init
<1>1. Len(output) = 0 /\ Len(word) = 0 /\ output \in Seq(Kinds \ {"A"}) /\ word \in Seq(Kinds)
  BY EmptySeq
<1>2. Hyphens(output) = 0
  BY <1>1, PartNumber DEF Hyphens
<1>3. CapTypeOK
  BY <1>1, <1>2 DEF CapTypeOK, UNDEFINED, ERROR_CAP
<1>4. Copied
  BY <1>1 DEF Copied
<1>5. Position /\ SchemeSoFar /\ Told /\ Written
  BY <1>1 DEF Position, SchemeSoFar, Told, Written
<1> QED  BY <1>3, <1>4, <1>5 DEF CapInv

(* Writing a scheme keeps letters letters and hyphens hyphens. *)
LEMMA SetTyped ==
  ASSUME NEW f \in Seq(Kinds), NEW s
  PROVE  /\ SetCapScheme(f, s) \in Seq(Kinds) /\ Len(SetCapScheme(f, s)) = Len(f)
         /\ \A i \in 1 .. Len(f) :
              /\ SetCapScheme(f, s)[i] =
                   IF /\ PartOf(f, i) < NParts(s)
                      /\ 2 * PartOf(f, i) + 1 \in s \/ (2 * PartOf(f, i) \in s /\ FirstInPart(f, i))
                     THEN Upper(f[i]) ELSE f[i]
              /\ SetCapScheme(f, s)[i] \in {f[i], Upper(f[i])}
              /\ SetCapScheme(f, s)[i] = "-" <=> f[i] = "-"
<1> DEFINE v == SetCapScheme(f, s)
<1>1. Len(f) \in Nat /\ DOMAIN f = 1 .. Len(f) /\ \A i \in 1 .. Len(f) : f[i] \in Kinds
  BY PartsOfWord
<1>2. v = [i \in 1 .. Len(f) |->
             IF /\ PartOf(f, i) < NParts(s)
                /\ 2 * PartOf(f, i) + 1 \in s \/ (2 * PartOf(f, i) \in s /\ FirstInPart(f, i))
               THEN Upper(f[i]) ELSE f[i]]
  BY <1>1, Zenon DEF SetCapScheme
<1>3. \A i \in 1 .. Len(f) :
        v[i] = IF /\ PartOf(f, i) < NParts(s)
                  /\ 2 * PartOf(f, i) + 1 \in s \/ (2 * PartOf(f, i) \in s /\ FirstInPart(f, i))
                 THEN Upper(f[i]) ELSE f[i]
  BY <1>2, Zenon
<1>4. \A i \in 1 .. Len(f) : v[i] \in {f[i], Upper(f[i])}
  BY <1>3, Zenon
<1>5. \A i \in 1 .. Len(f) : Upper(f[i]) \in Kinds /\ (Upper(f[i]) = "-" <=> f[i] = "-")
  BY <1>1 DEF Upper, Kinds
<1>6. v \in [1 .. Len(f) -> Kinds]
  <2>1. \A i \in 1 .. Len(f) : v[i] \in Kinds
    <3> HIDE DEF v
    <3> QED  BY <1>1, <1>4, <1>5, Zenon
  <2>2. v = [i \in 1 .. Len(f) |-> v[i]]
    BY <1>2, Zenon
  <2> HIDE DEF v
  <2> QED  BY <2>1, <2>2
<1>7. v \in Seq(Kinds) /\ Len(v) = Len(f)
  <2> HIDE DEF v
  <2> QED  BY <1>1, <1>6
<1>8. \A i \in 1 .. Len(f) : v[i] = "-" <=> f[i] = "-"
  <2> HIDE DEF v
  <2> QED  BY <1>4, <1>5, Zenon
<1> QED  BY <1>3, <1>4, <1>7, <1>8, Zenon

(* A form is a sequence of small letters and hyphens; it has the same scheme   *)
(* whether its parts are counted or given.                                     *)
LEMMA FormTyped ==
  ASSUME NEW f \in Forms
  PROVE  /\ f \in Seq(Kinds) /\ \A i \in 1 .. Len(f) : f[i] \in {"a", "-"}
         /\ \A part \in 0 .. Hyphens(f) : Letters(f, part) # {}
         /\ \A m : \A nparts \in {0, Hyphens(f) + 1} : GetMinScheme(m, f, nparts) = GetMinScheme(m, f, 0)
<1>1. f \in Seq({"a", "-"}) /\ \A part \in 0 .. Hyphens(f) : Letters(f, part) # {}
  BY WordsAssumption
<1>2. f \in Seq(Kinds)
  BY <1>1, SeqMonotonic DEF Kinds
<1>3. \A i \in 1 .. Len(f) : f[i] \in {"a", "-"}
  BY <1>1, ElementOfSeq
<1>4. Hyphens(f) \in Nat
  BY <1>2, PartsOfWord
<1>5. \A m : GetMinScheme(m, f, Hyphens(f) + 1) = GetMinScheme(m, f, 0)
  BY <1>4 DEF GetMinScheme
<1> QED  BY <1>1, <1>2, <1>3, <1>5

(* A call begins. *)
LEMMA AskKeeps ==
  ASSUME CapInv, Ask \/ AskBack
  PROVE  CapInv'
<1>1. CapTypeOK /\ Copied /\ Position /\ Written
  BY DEF CapInv
<1>2. PICK w : /\ GetCapScheme(w) /\ w \in Seq(Kinds)
               /\ \/ stem' = stem
                  \/ /\ stem' \in [form : Forms, minCap : 0 .. 2]
                     /\ w = SetCapScheme(stem'.form, GetMinScheme(stem'.minCap, stem'.form, 0))
  <2>1. CASE Ask
    BY <2>1, WordsAssumption DEF Ask
  <2>2. CASE AskBack
    <3>1. PICK f \in Forms, m \in 0 .. 2 : \E nparts \in {0, Hyphens(f) + 1} :
             /\ stem' = [form |-> f, minCap |-> m]
             /\ GetCapScheme(SetCapScheme(f, GetMinScheme(m, f, nparts)))
      BY <2>2, Zenon DEF AskBack
    <3>2. PICK nparts \in {0, Hyphens(f) + 1} :
             /\ stem' = [form |-> f, minCap |-> m]
             /\ GetCapScheme(SetCapScheme(f, GetMinScheme(m, f, nparts)))
      BY <3>1, Zenon
    <3> DEFINE v == SetCapScheme(f, GetMinScheme(m, f, 0))
    <3>3. GetCapScheme(v)
      BY <3>2, FormTyped, Zenon
    <3>4. v \in Seq(Kinds)
      BY FormTyped, SetTyped, Zenon
    <3>5. stem'.form = f /\ stem'.minCap = m /\ stem' \in [form : Forms, minCap : 0 .. 2]
      BY <3>2
    <3>6. v = SetCapScheme(stem'.form, GetMinScheme(stem'.minCap, stem'.form, 0))
      BY <3>5, Zenon
    <3> HIDE DEF v
    <3> QED  BY <3>3, <3>4, <3>5, <3>6, Zenon
  <2> QED  BY <2>1, <2>2
<1>3. /\ pc = "idle" /\ pc' = "head" /\ word' = w /\ size' \in Sizes
      /\ output' = output /\ subcap' = subcap /\ cdefis' = cdefis /\ scheme' = scheme
      /\ bvalid' = bvalid /\ result' = result
  BY <1>2 DEF GetCapScheme
<1>4. output = <<>> /\ cdefis = 0 /\ scheme = {} /\ bvalid /\ stem = NoStem
  BY <1>1, <1>3 DEF Position
<1>5. Len(output) = 0
  BY <1>4, EmptySeq
<1>6. size' \in 0 .. 256
  BY <1>3, SizesAssumption
<1>7. CapTypeOK'
  BY <1>1, <1>2, <1>3, <1>5, <1>6 DEF CapTypeOK
<1>8. Copied'
  BY <1>2, <1>3, <1>5, <1>6, LenProperties DEF Copied
<1>9. Position'
  BY <1>3, <1>4 DEF Position
<1>10. SchemeSoFar'
  <2>1. Closed' = {}
    BY <1>3, <1>4 DEF Closed
  <2>2. Marks(w, {}) = {}
    BY MarksGrow
  <2> QED  BY <1>3, <1>4, <1>5, <2>1, <2>2 DEF SchemeSoFar
<1>11. Told'
  BY <1>3 DEF Told
<1>12. Written'
  BY <1>2, <1>3, <1>4 DEF Written
<1> QED  BY <1>7, <1>8, <1>9, <1>10, <1>11, <1>12 DEF CapInv

(* A part begins. *)
LEMMA EnterKeeps ==
  ASSUME CapInv, EnterPart
  PROVE  CapInv'
<1>1. CapTypeOK /\ Copied /\ Position /\ SchemeSoFar /\ Written
  BY DEF CapInv
<1>2. /\ pc = "head" /\ More /\ pc' = "part" /\ subcap' = UNDEFINED
      /\ stem' = stem /\ word' = word /\ size' = size /\ output' = output /\ cdefis' = cdefis
      /\ scheme' = scheme /\ bvalid' = bvalid /\ result' = result
  BY DEF EnterPart
<1>3. Len(output) \in Nat /\ Len(word) \in Nat /\ Len(output) < Len(word)
  BY <1>1, <1>2, Here DEF More
<1>4. output = <<>> \/ word[Len(output)] = "-"
  BY <1>1, <1>2, <1>3 DEF Position
<1>5. output = <<>> => Len(output) = 0
  BY EmptySeq
<1>6. CapTypeOK'
  BY <1>1, <1>2 DEF CapTypeOK, UNDEFINED, ERROR_CAP
<1>7. Copied'
  BY <1>1, <1>2 DEF Copied
<1>8. BeginsAt(word, Len(output), Len(output))
  BY <1>3, <1>4, <1>5 DEF BeginsAt
<1>9. Shape(word, UNDEFINED, Len(output), Len(output))
  BY <1>3, Shapes
<1>10. bvalid => 2 * cdefis <= Len(output)
  BY <1>1, <1>2 DEF SchemeSoFar
<1>11. Position'
  BY <1>2, <1>3, <1>8, <1>9, <1>10 DEF Position
<1>12. Closed' = Closed
  BY <1>2, <1>4 DEF Closed
<1>13. SchemeSoFar'
  BY <1>1, <1>2, <1>12 DEF SchemeSoFar
<1>14. Told' /\ Written'
  BY <1>1, <1>2 DEF Told, Written
<1> QED  BY <1>6, <1>7, <1>11, <1>13, <1>14 DEF CapInv

(* One character more has been passed. *)
LEMMA Passed ==
  ASSUME CapTypeOK, Copied, NEW m \in Nat, m = Len(output) + 1, m <= Len(word), NEW c,
         c = Lower(word[m]), c = "-" <=> word[m] = "-"
  PROVE  LET o == Append(output, c)
         IN /\ o \in Seq(Kinds \ {"A"}) /\ Len(o) = m /\ o # <<>>
            /\ \A i \in 1 .. m : o[i] = Lower(word[i])
            /\ Hyphens(o) = cdefis + (IF word[m] = "-" THEN 1 ELSE 0)
<1> DEFINE o == Append(output, c)
<1>1. output \in Seq(Kinds \ {"A"}) /\ \A i \in 1 .. Len(output) : output[i] = Lower(word[i])
  BY DEF CapTypeOK, Copied
<1>2. word[m] \in Kinds /\ Len(output) \in Nat /\ cdefis \in Nat /\ cdefis = PartOf(word, m) /\ m \in Nat \ {0}
  BY Here
<1>3. c \in Kinds \ {"A"}
  BY <1>2 DEF Lower, Kinds
<1>4. /\ o \in Seq(Kinds \ {"A"}) /\ Len(o) = m /\ o[m] = c
      /\ \A i \in 1 .. Len(output) : o[i] = output[i]
  BY <1>1, <1>2, <1>3, AppendProperties
<1> HIDE DEF o
<1>5. \A i \in 1 .. m : i \in 1 .. Len(output) \/ i = m
  BY <1>2
<1>6. \A i \in 1 .. m : o[i] = Lower(word[i])
  BY <1>1, <1>4, <1>5, Zenon
<1>7. o # <<>>
  BY <1>2, <1>4, EmptySeq
<1>8. \A i \in 1 .. (m + 1) - 1 : o[i] = "-" <=> word[i] = "-"
  <2>1. \A i \in 1 .. (m + 1) - 1 : i \in 1 .. m
    BY <1>2
  <2>2. \A x : Lower(x) = "-" <=> x = "-"
    BY DEF Lower
  <2> QED  BY <1>6, <2>1, <2>2, Zenon
<1>9. PartOf(o, m + 1) = PartOf(word, m + 1)
  BY <1>2, <1>8, PartAlike
<1>10. Hyphens(o) = PartOf(word, m + 1)
  BY <1>4, <1>9, Zenon DEF Hyphens
<1>11. Hyphens(o) = cdefis + (IF word[m] = "-" THEN 1 ELSE 0)
  BY <1>2, <1>10, PartNext
<1> QED  BY <1>4, <1>6, <1>7, <1>11 DEF o

(* A letter is passed. *)
LEMMA LetterKeeps ==
  ASSUME CapInv, Letter
  PROVE  CapInv'
<1>1. CapTypeOK /\ Copied /\ Position /\ SchemeSoFar /\ Written
  BY DEF CapInv
<1>2. /\ pc = "part" /\ More /\ Char # "-" /\ subcap' = CapState(subcap, Char)
      /\ output' = Append(output, Lower(Char)) /\ pc' = pc
      /\ stem' = stem /\ word' = word /\ size' = size /\ cdefis' = cdefis
      /\ scheme' = scheme /\ bvalid' = bvalid /\ result' = result
  BY DEF Letter
<1>3. PICK m \in Nat : m = Len(output) + 1
  BY <1>1, Here
<1>4. /\ Len(output) \in Nat /\ Len(word) \in Nat /\ m <= Len(word) /\ m <= size /\ Char = word[m]
      /\ Len(output) + 1 <= Len(word) /\ word[m] \in Kinds /\ cdefis \in Nat
  <2>1. m <= Len(word) /\ m <= size /\ Len(output) \in Nat /\ Len(word) \in Nat /\ cdefis \in Nat
    BY <1>1, <1>2, <1>3, Here DEF More
  <2>2. word[m] \in Kinds
    BY <1>1, <1>3, <2>1, Here
  <2>3. Char = word[m]
    BY <1>3, Zenon DEF Char
  <2> QED  BY <1>3, <2>1, <2>2, <2>3
<1>5. Lower(Char) = "-" <=> word[m] = "-"
  BY <1>4 DEF Lower
<1>6. /\ output' \in Seq(Kinds \ {"A"}) /\ Len(output') = m
      /\ \A i \in 1 .. m : output'[i] = Lower(word[i])
      /\ Hyphens(output') = cdefis
  BY <1>1, <1>2, <1>3, <1>4, <1>5, Passed
<1>7. subcap \in UNDEFINED .. ERROR_CAP
  BY <1>1 DEF CapTypeOK
<1>8. subcap' \in UNDEFINED .. ERROR_CAP
  BY <1>2, <1>4, <1>7, StateTyped
<1>9. CapTypeOK'
  BY <1>1, <1>2, <1>4, <1>6, <1>8 DEF CapTypeOK
<1>10. Copied'
  BY <1>1, <1>2, <1>4, <1>6 DEF Copied
<1>11. Position'
  <2>1. PICK s \in 0 .. Len(output) :
          /\ BeginsAt(word, s, Len(output)) /\ Shape(word, subcap, s, Len(output))
          /\ bvalid => 2 * cdefis <= s
    BY <1>1, <1>2 DEF Position
  <2>2. s \in Nat /\ s <= Len(output)
    BY <1>4, <2>1
  <2>3. word[Len(output) + 1] # "-" /\ word[Len(output) + 1] \in Kinds /\ Char = word[Len(output) + 1]
    BY <1>2, <1>3, <1>4, Zenon
  <2>4. /\ BeginsAt(word, s, Len(output) + 1)
        /\ Shape(word, CapState(subcap, word[Len(output) + 1]), s, Len(output) + 1)
    BY <1>4, <1>7, <2>1, <2>2, <2>3, ShapeKept
  <2>5. BeginsAt(word, s, m) /\ Shape(word, subcap', s, m)
    BY <1>2, <1>3, <2>3, <2>4, Zenon
  <2>6. s \in 0 .. m
    BY <1>3, <1>4, <2>2
  <2>7. /\ BeginsAt(word', s, Len(output')) /\ Shape(word', subcap', s, Len(output'))
        /\ bvalid' => 2 * cdefis' <= s
        /\ s \in 0 .. Len(output')
    <3>1. word' = word /\ Len(output') = m
      BY <1>2, <1>6
    <3>2. BeginsAt(word', s, Len(output')) /\ Shape(word', subcap', s, Len(output'))
      BY <2>5, <3>1, Zenon
    <3> QED  BY <1>2, <2>1, <2>6, <3>1, <3>2
  <2> QED  BY <1>2, <2>7 DEF Position
<1>12. Closed' = Closed
  BY <1>2 DEF Closed
<1>13. SchemeSoFar'
  BY <1>1, <1>2, <1>3, <1>4, <1>6, <1>12 DEF SchemeSoFar
<1>14. Told' /\ Written'
  BY <1>1, <1>2 DEF Told, Written
<1> QED  BY <1>9, <1>10, <1>11, <1>13, <1>14 DEF CapInv

(* The buffer is full within a part. *)
LEMMA TooLongKeeps ==
  ASSUME CapInv, PartTooLong
  PROVE  CapInv'
<1>1. CapTypeOK /\ Copied /\ Written
  BY DEF CapInv
<1>2. /\ pc' = "judged" /\ result' = TooLong /\ Len(output) >= size
      /\ stem' = stem /\ word' = word /\ size' = size /\ output' = output /\ subcap' = subcap
      /\ cdefis' = cdefis /\ scheme' = scheme /\ bvalid' = bvalid
  BY DEF PartTooLong, Answer
<1>3. Len(word) >= size
  BY <1>1, <1>2, Here
<1>4. CapTypeOK'
  <2>1. result' \in (SUBSET (0 .. 15)) \cup {TooLong}
    BY <1>2, Zenon
  <2>2. /\ word' \in Seq(Kinds) /\ output' \in Seq(Kinds \ {"A"})
        /\ subcap' \in UNDEFINED .. ERROR_CAP /\ bvalid' \in BOOLEAN
        /\ cdefis' = Hyphens(output') /\ Len(output') <= size' /\ scheme' \subseteq 0 .. 31
    BY <1>1, <1>2, Zenon DEF CapTypeOK
  <2>3. pc' \in {"idle", "head", "part", "judged"}
    BY <1>2
  <2> QED  BY <2>1, <2>2, <2>3, Zenon DEF CapTypeOK
<1>5. Copied' /\ Position' /\ SchemeSoFar' /\ Written'
  BY <1>1, <1>2 DEF Copied, Position, SchemeSoFar, Written
<1>6. Told'
  BY <1>2, <1>3 DEF Told
<1> QED  BY <1>4, <1>5, <1>6 DEF CapInv

(* A part is closed: what becomes of its bits and of the verdict. *)
LEMMA CloseTells ==
  ASSUME CapTypeOK, Copied, SchemeSoFar, ClosePart,
         NEW C, C = Closed \cup {cdefis},
         \/ CapState(subcap, "-") = ALL_SMALL /\ Reading(word, cdefis) = "small"
         \/ CapState(subcap, "-") = FIRST_CAP /\ Reading(word, cdefis) = "capital"
         \/ CapState(subcap, "-") = WORD_CAPS /\ Reading(word, cdefis) = "capitals"
         \/ CapState(subcap, "-") = ERROR_CAP /\ Reading(word, cdefis) = "wrong"
  PROVE  /\ scheme' \subseteq 0 .. 31
         /\ bvalid' <=> \A p \in C : Reading(word, p) # "wrong"
         /\ bvalid' /\ cdefis < 16 => scheme' = Marks(word, C)
         /\ bvalid' => bvalid /\ CapState(subcap, "-") # ERROR_CAP
<1> DEFINE c == CapState(subcap, "-")
<1>1. bvalid' = (bvalid /\ c # ERROR_CAP) /\ bvalid \in BOOLEAN /\ pc = "part"
  BY DEF ClosePart, CapTypeOK
<1>2. PICK bits \in PartBits(c - 1, cdefis) : scheme' = scheme \cup bits
  BY DEF ClosePart
<1>3. cdefis \in Nat
  BY Here
<1>4. scheme' \subseteq 0 .. 31
  BY <1>2, <1>3, PartAdds DEF CapTypeOK
<1>5. /\ bvalid <=> \A p \in Closed : Reading(word, p) # "wrong"
      /\ bvalid /\ cdefis < 16 => scheme = Marks(word, Closed)
  BY <1>1 DEF SchemeSoFar
<1>6. c # ERROR_CAP <=> Reading(word, cdefis) # "wrong"
  BY DEF ALL_SMALL, FIRST_CAP, WORD_CAPS, ERROR_CAP
<1>7. bvalid' <=> \A p \in C : Reading(word, p) # "wrong"
  BY <1>1, <1>5, <1>6
<1>8. ASSUME bvalid', cdefis < 16  PROVE scheme' = Marks(word, C)
  <2>1. scheme = Marks(word, Closed) /\ c # ERROR_CAP
    BY <1>1, <1>5, <1>8
  <2>2. CASE c = ALL_SMALL /\ Reading(word, cdefis) = "small"
    <3>1. bits = {}
      BY <1>2, <1>3, <1>8, <2>2, PartAdds
    <3>2. Marks(word, C) = Marks(word, Closed)
      BY <1>3, <2>2, MarksGrow
    <3> QED  BY <1>2, <2>1, <3>1, <3>2
  <2>3. CASE c = FIRST_CAP /\ Reading(word, cdefis) = "capital"
    <3>1. bits = {2 * cdefis}
      BY <1>2, <1>3, <1>8, <2>3, PartAdds
    <3>2. Marks(word, C) = Marks(word, Closed) \cup {2 * cdefis}
      BY <1>3, <2>3, MarksGrow
    <3> QED  BY <1>2, <2>1, <3>1, <3>2
  <2>4. CASE c = WORD_CAPS /\ Reading(word, cdefis) = "capitals"
    <3>1. bits = {2 * cdefis + 1}
      BY <1>2, <1>3, <1>8, <2>4, PartAdds
    <3>2. Marks(word, C) = Marks(word, Closed) \cup {2 * cdefis + 1}
      BY <1>3, <2>4, MarksGrow
    <3> QED  BY <1>2, <2>1, <3>1, <3>2
  <2> QED  BY <2>1, <2>2, <2>3, <2>4
<1> QED  BY <1>1, <1>4, <1>7, <1>8

(* A part is closed, and the hyphen behind it passed. *)
LEMMA CloseKeeps ==
  ASSUME CapInv, ClosePart
  PROVE  CapInv'
<1>1. CapTypeOK /\ Copied /\ Position /\ SchemeSoFar /\ Written
  BY DEF CapInv
<1> DEFINE c == CapState(subcap, "-")
           n == Len(output)
           C == Closed \cup {cdefis}
<1>2. /\ pc = "part" /\ n < size
      /\ More => Char = "-"
      /\ subcap' = c /\ PassHyphen /\ pc' = "head"
      /\ stem' = stem /\ word' = word /\ size' = size /\ result' = result
  BY DEF ClosePart
<1>3. /\ n \in Nat /\ Len(word) \in Nat /\ n <= Len(word) /\ word \in Seq(Kinds)
      /\ cdefis \in Nat /\ cdefis = PartOf(word, n + 1)
  BY <1>1, Here
<1>4. PICK s \in 0 .. n :
        /\ BeginsAt(word, s, n) /\ Shape(word, subcap, s, n)
        /\ bvalid => 2 * cdefis <= s
  BY <1>1, <1>2 DEF Position
<1>5. s \in Nat /\ s <= n
  BY <1>3, <1>4
<1>6. subcap \in UNDEFINED .. ERROR_CAP
  BY <1>1 DEF CapTypeOK
<1>7. n = Len(word) \/ word[n + 1] = "-"
  BY <1>2, <1>3 DEF More, Char
<1>8. \/ c = ALL_SMALL /\ Reading(word, cdefis) = "small"
      \/ c = FIRST_CAP /\ Reading(word, cdefis) = "capital"
      \/ c = WORD_CAPS /\ Reading(word, cdefis) = "capitals"
      \/ c = ERROR_CAP /\ Reading(word, cdefis) = "wrong"
  BY <1>3, <1>4, <1>5, <1>6, <1>7, ShapeRead, Zenon
<1>9. /\ scheme' \subseteq 0 .. 31
      /\ bvalid' <=> \A p \in C : Reading(word, p) # "wrong"
      /\ bvalid' /\ cdefis < 16 => scheme' = Marks(word, C)
      /\ bvalid' => bvalid /\ c # ERROR_CAP
  BY <1>1, <1>8, CloseTells
<1>10. subcap' \in UNDEFINED .. ERROR_CAP
  BY <1>2, <1>6, StateTyped DEF UNDEFINED, ALL_SMALL, FIRST_CAP, WORD_CAPS, ERROR_CAP
<1>11. bvalid' \in BOOLEAN
  BY <1>1 DEF ClosePart, CapTypeOK
<1>12. Closed = {p \in 0 .. cdefis : p < cdefis}
  BY <1>2 DEF Closed
<1>13. Told' /\ Written'
  BY <1>1, <1>2 DEF Told, Written
<1>14. CASE n < Len(word)
  <2>1. PICK m \in Nat : m = n + 1
    BY <1>3
  <2>2. /\ m <= Len(word) /\ m <= size /\ word[m] = "-" /\ Char = word[m]
    <3>1. size \in Nat
      BY <1>1, Here
    <3>2. Char = word[m]
      BY <2>1, Zenon DEF Char
    <3> QED  BY <1>2, <1>3, <1>7, <1>14, <2>1, <3>1, <3>2
  <2>3. output' = Append(output, Char) /\ cdefis' = cdefis + 1
    BY <1>2, <1>14 DEF PassHyphen
  <2>4. Char = Lower(word[m])
    BY <2>2 DEF Lower
  <2>5. /\ output' \in Seq(Kinds \ {"A"}) /\ Len(output') = m /\ output' # <<>>
        /\ \A i \in 1 .. m : output'[i] = Lower(word[i])
        /\ Hyphens(output') = cdefis'
    BY <1>1, <2>1, <2>2, <2>3, <2>4, Passed
  <2>6. CapTypeOK'
    BY <1>1, <1>2, <1>9, <1>10, <1>11, <2>2, <2>5 DEF CapTypeOK
  <2>7. Copied'
    BY <1>1, <1>2, <2>2, <2>5 DEF Copied
  <2>8. Position'
    BY <1>2, <2>2, <2>5 DEF Position
  <2>9. Closed' = C
    <3>1. Closed' = {p \in 0 .. cdefis' : p < cdefis'}
      BY <1>2, <2>2, <2>5 DEF Closed
    <3> QED  BY <1>3, <1>12, <2>3, <3>1
  <2>10. bvalid' => 2 * cdefis' <= Len(output')
    <3>1. ASSUME bvalid'  PROVE s < n
      <4>1. c # ERROR_CAP
        BY <1>9, <3>1
      <4>2. subcap # UNDEFINED
        BY <4>1 DEF CapState, UNDEFINED, FIRST_WAS, ERROR_CAP
      <4>3. \/ s < n
            \/ s + 1 < n
            \/ n = s + 1
        BY <1>4, <1>6, <4>2, Shapes DEF UNDEFINED, ALL_SMALL, FIRST_CAP, WORD_CAPS, FIRST_WAS, ERROR_CAP
      <4> QED  BY <1>3, <1>5, <4>3
    <3>2. bvalid' => 2 * cdefis <= s
      BY <1>4, <1>9
    <3> QED  BY <1>3, <1>5, <2>1, <2>3, <2>5, <3>1, <3>2
  <2>11. SchemeSoFar'
    BY <1>2, <1>3, <1>9, <2>3, <2>9, <2>10 DEF SchemeSoFar
  <2> QED  BY <1>13, <2>6, <2>7, <2>8, <2>11 DEF CapInv
<1>15. CASE n = Len(word)
  <2>1. output' = output /\ cdefis' = cdefis
    BY <1>2, <1>3, <1>15 DEF PassHyphen
  <2>2. s < n
    <3>1. subcap # UNDEFINED
      BY <1>3, <1>4, <1>15, Shapes
    <3>2. \/ s < n
          \/ s + 1 < n
          \/ n = s + 1
      BY <1>4, <1>6, <3>1, Shapes DEF UNDEFINED, ALL_SMALL, FIRST_CAP, WORD_CAPS, FIRST_WAS, ERROR_CAP
    <3> QED  BY <1>3, <1>5, <3>2
  <2>3. n \in s + 1 .. n
    BY <1>3, <1>5, <2>2
  <2>4. word[n] # "-"
    BY <1>4, <2>3 DEF BeginsAt
  <2>5. output # <<>>
    BY <1>3, <1>5, <2>2, EmptySeq
  <2>6. CapTypeOK'
    BY <1>1, <1>2, <1>9, <1>10, <1>11, <2>1 DEF CapTypeOK
  <2>7. Copied'
    BY <1>1, <1>2, <2>1 DEF Copied
  <2>8. Position'
    BY <1>2, <1>15, <2>1 DEF Position
  <2>9. Closed' = C
    <3>1. Closed' = 0 .. cdefis
      BY <1>2, <2>1, <2>4, <2>5 DEF Closed
    <3> QED  BY <1>3, <1>12, <3>1
  <2>10. bvalid' => 2 * cdefis' <= Len(output')
    BY <1>3, <1>4, <1>5, <1>9, <2>1
  <2>11. SchemeSoFar'
    BY <1>2, <1>3, <1>9, <2>1, <2>9, <2>10 DEF SchemeSoFar
  <2> QED  BY <1>13, <2>6, <2>7, <2>8, <2>11 DEF CapInv
<1> QED  BY <1>3, <1>14, <1>15

(* At the end of the word: every part is closed, or the last one is empty.     *)
LEMMA AllClosed ==
  ASSUME CapTypeOK, Copied, Position, SchemeSoFar, pc = "head", Len(output) = Len(word)
  PROVE  /\ cdefis = Hyphens(word) /\ cdefis \in Nat
         /\ bvalid <=> \A p \in 0 .. cdefis : Reading(word, p) # "wrong"
         /\ bvalid /\ cdefis < 16 => scheme = Marks(word, 0 .. cdefis)
<1>1. /\ Len(word) \in Nat /\ word \in Seq(Kinds) /\ cdefis \in Nat /\ cdefis = PartOf(word, Len(word) + 1)
  BY Here, Zenon
<1>2. cdefis = Hyphens(word)
  BY <1>1 DEF Hyphens
<1>3. /\ bvalid <=> \A p \in Closed : Reading(word, p) # "wrong"
      /\ bvalid /\ cdefis < 16 => scheme = Marks(word, Closed)
  BY DEF SchemeSoFar
<1>4. CASE output # <<>> /\ word[Len(output)] # "-"
  <2>1. Closed = 0 .. cdefis
    BY <1>4 DEF Closed
  <2> QED  BY <1>1, <1>2, <1>3, <2>1, Zenon
<1>5. CASE ~(output # <<>> /\ word[Len(output)] # "-")
  <2>1. Len(word) = 0 \/ word[Len(word)] = "-"
    BY <1>5, EmptySeq
  <2>2. Letters(word, cdefis) = Len(word) + 1 .. Len(word)
    <3>1. \A i \in Len(word) + 1 .. Len(word) : word[i] # "-"
      BY <1>1
    <3>2. Len(word) <= Len(word)
      BY <1>1
    <3> QED  BY <1>1, <2>1, <3>1, <3>2, LettersBetween, Zenon
  <2>3. Letters(word, cdefis) = {}
    BY <1>1, <2>2
  <2>4. Reading(word, cdefis) = "small"
    BY <1>2, <2>3, ReadingTold, Zenon
  <2>5. Closed = {p \in 0 .. cdefis : p < cdefis}
    BY <1>5 DEF Closed
  <2>6. 0 .. cdefis = Closed \cup {cdefis}
    BY <1>1, <2>5
  <2>7. Marks(word, 0 .. cdefis) = Marks(word, Closed)
    BY <1>1, <2>4, <2>6, MarksGrow
  <2>8. (\A p \in 0 .. cdefis : Reading(word, p) # "wrong") <=> \A p \in Closed : Reading(word, p) # "wrong"
    BY <2>4, <2>6
  <2> QED  BY <1>1, <1>2, <1>3, <2>7, <2>8
<1> QED  BY <1>4, <1>5

(* The word is read, or the buffer full behind a hyphen. *)
LEMMA FinishKeeps ==
  ASSUME CapInv, Finish
  PROVE  CapInv'
<1>1. CapTypeOK /\ Copied /\ Position /\ SchemeSoFar /\ Written
  BY DEF CapInv
<1> DEFINE bits == Shifted(cdefis + 1, 8) \cup (IF bvalid THEN scheme ELSE 0 .. 7)
<1>2. /\ pc = "head" /\ ~More /\ pc' = "judged"
      /\ result' = IF NoRoom THEN TooLong ELSE bits \cap (0 .. 15)
      /\ stem' = stem /\ word' = word /\ size' = size /\ output' = output /\ subcap' = subcap
      /\ cdefis' = cdefis /\ scheme' = scheme /\ bvalid' = bvalid
  BY DEF Finish, Answer
<1>3. /\ Len(output) \in Nat /\ Len(word) \in Nat /\ Len(output) <= Len(word)
      /\ size \in Nat /\ size <= 256
  BY <1>1, Here
<1> HIDE DEF bits
<1>4. CapTypeOK'
  <2>1. result' \in (SUBSET (0 .. 15)) \cup {TooLong}
    BY <1>2
  <2>2. /\ word' \in Seq(Kinds) /\ output' \in Seq(Kinds \ {"A"})
        /\ subcap' \in UNDEFINED .. ERROR_CAP /\ bvalid' \in BOOLEAN
        /\ cdefis' = Hyphens(output') /\ Len(output') <= size' /\ scheme' \subseteq 0 .. 31
    BY <1>1, <1>2, Zenon DEF CapTypeOK
  <2>3. pc' \in {"idle", "head", "part", "judged"}
    BY <1>2
  <2> QED  BY <2>1, <2>2, <2>3, Zenon DEF CapTypeOK
<1>5. Copied' /\ Position' /\ SchemeSoFar' /\ Written'
  BY <1>1, <1>2 DEF Copied, Position, SchemeSoFar, Written
<1>6. Told'
  <2>1. CASE NoRoom
    <3>1. Len(word) >= size
      BY <1>3, <2>1 DEF NoRoom
    <3> QED  BY <1>2, <2>1, <3>1 DEF Told
  <2>2. CASE ~NoRoom
    <3>1. Len(output) = Len(word) /\ Len(word) < size
      BY <1>2, <1>3, <2>2 DEF NoRoom, More
    <3>2. /\ cdefis = Hyphens(word) /\ cdefis \in Nat
          /\ bvalid <=> \A p \in 0 .. cdefis : Reading(word, p) # "wrong"
          /\ bvalid /\ cdefis < 16 => scheme = Marks(word, 0 .. cdefis)
      BY <1>1, <1>2, <3>1, AllClosed
    <3>3. result' = bits \cap (0 .. 15)
      BY <1>2, <2>2
    <3>4. ASSUME ~bvalid  PROVE {6, 7} \subseteq result'
      BY <3>3, <3>4 DEF bits
    <3>5. ASSUME bvalid, cdefis >= 3  PROVE \E b \in 10 .. 15 : b \in result'
      <4>1. 2 * cdefis <= Len(output)
        BY <1>1, <1>2, <3>5 DEF SchemeSoFar
      <4>2. cdefis + 1 \in 4 .. 255
        <5>1. Len(output) <= 255
          BY <1>3, <3>1
        <5>2. cdefis \in Nat /\ 3 <= cdefis
          BY <3>2, <3>5
        <5> QED  BY <1>3, <4>1, <5>1, <5>2
      <4>3. PICK b \in 2 .. 7 : b \in BitsOf(cdefis + 1)
        BY <4>2, BitsHigh
      <4>4. b + 8 \in bits /\ b + 8 \in 10 .. 15
        BY <4>3 DEF bits, Shifted
      <4> QED  BY <3>3, <4>4
    <3>6. ASSUME bvalid, cdefis <= 3
          PROVE  result' = Shifted(cdefis + 1, 8) \cup Marks(word, 0 .. cdefis)
      <4>1. bits = Shifted(cdefis + 1, 8) \cup Marks(word, 0 .. cdefis)
        BY <3>2, <3>6 DEF bits
      <4>2. Marks(word, 0 .. cdefis) \subseteq 0 .. 15
        BY <3>2, <3>6, MarksTell
      <4>3. Shifted(cdefis + 1, 8) \subseteq 0 .. 15
        <5>1. cdefis + 1 \in {1, 2, 3, 4}
          BY <3>2, <3>6
        <5>2. BitsOf(cdefis + 1) \subseteq 0 .. 2
          BY <5>1, BitsTable
        <5> QED  BY <5>2 DEF Shifted
      <4> QED  BY <3>3, <4>1, <4>2, <4>3
    <3>7. result' \subseteq 0 .. 15
      BY <3>3
    <3>8. ~(Len(word) >= size)
      BY <1>3, <3>1
    <3>9. (\E p \in 0 .. cdefis : Reading(word, p) = "wrong") <=> ~bvalid
      BY <3>2
    <3> HIDE DEF bits
    <3> QED  BY <1>2, <3>1, <3>2, <3>4, <3>5, <3>6, <3>7, <3>8, <3>9 DEF Told
  <2> QED  BY <2>1, <2>2
<1> QED  BY <1>4, <1>5, <1>6 DEF CapInv

(* Every step keeps the inductive invariant. *)
LEMMA CapStep == CapInv /\ [Next]_vars => CapInv'
<1> SUFFICES ASSUME CapInv, [Next]_vars  PROVE CapInv'
  OBVIOUS
<1>1. CASE Ask \/ AskBack
  BY <1>1, AskKeeps
<1>2. CASE EnterPart
  BY <1>2, EnterKeeps
<1>3. CASE Letter
  BY <1>3, LetterKeeps
<1>4. CASE PartTooLong
  BY <1>4, TooLongKeeps
<1>5. CASE ClosePart
  BY <1>5, CloseKeeps
<1>6. CASE Finish
  BY <1>6, FinishKeeps
<1>7. CASE Forget
  <2>1. Init'
    BY <1>7 DEF Forget, Init
  <2> QED  BY <2>1, Empty, PTL
<1>8. CASE UNCHANGED vars
  BY <1>8 DEF vars, CapInv, CapTypeOK, Copied, Position, SchemeSoFar, Closed, Told, Written
<1> QED  BY <1>1, <1>2, <1>3, <1>4, <1>5, <1>6, <1>7, <1>8 DEF Next, Scan

(* The inductive invariant holds throughout, for words of any length, any      *)
(* forms with letters in every part (WordsAssumption) and buffers of up to 256 *)
(* bytes (SizesAssumption).                                                    *)
THEOREM CapInvariant == Spec => []CapInv
BY Empty, CapStep, PTL DEF Spec

(* The scan of a word stays within its types: the output within the buffer,    *)
(* the count of hyphens that of the output (capsheme.cpp:38-63).               *)
THEOREM CapTyping == Spec => []CapTypeOK
<1>1. CapInv => CapTypeOK
  BY DEF CapInv
<1> QED  BY <1>1, CapInvariant, PTL

-------------------------------------------------------------------------------
(* The verdict. *)

(* The three lists of good schemes, by the bits of one part, of two and of     *)
(* three.                                                                      *)
LEMMA GoodOfOne ==
  ASSUME NEW s, 8 \in s, s \subseteq {8, 0, 1}, NEW m \in 0 .. 2
  PROVE  IsGoodSheme(s, m) <=>
           \/ 1 \in s /\ 0 \notin s
           \/ m <= 1 /\ 0 \in s /\ 1 \notin s
           \/ m = 0 /\ 1 \notin s
<1>1. s = {8, 1} <=> 1 \in s /\ 0 \notin s
  <2>1. s = {8, 1} => 1 \in s /\ 0 \notin s
    OBVIOUS
  <2>2. 1 \in s /\ 0 \notin s => s = {8, 1}
    OBVIOUS
  <2> QED  BY <2>1, <2>2, Zenon
<1>2. s = {8, 0} <=> 0 \in s /\ 1 \notin s
  <2>1. s = {8, 0} => 0 \in s /\ 1 \notin s
    OBVIOUS
  <2>2. 0 \in s /\ 1 \notin s => s = {8, 0}
    OBVIOUS
  <2> QED  BY <2>1, <2>2, Zenon
<1>3. s = {8} <=> 0 \notin s /\ 1 \notin s
  <2>1. s = {8} => 0 \notin s /\ 1 \notin s
    OBVIOUS
  <2>2. 0 \notin s /\ 1 \notin s => s = {8}
    OBVIOUS
  <2> QED  BY <2>1, <2>2, Zenon
<1>4. 9 \notin s
  OBVIOUS
<1>5. /\ s # {9, 3, 1} /\ s # {9, 8, 5, 3, 1} /\ s # {9, 2, 0} /\ s # {9, 8, 4, 0}
      /\ s # {9} /\ s # {9, 8} /\ s # {9, 0} /\ s # {9, 8, 0}
  BY <1>4
<1>6. s \in GoodMin2 <=> s = {8, 1}
  BY <1>5, Zenon DEF GoodMin2
<1>7. s \in GoodMin1 <=> s = {8, 1} \/ s = {8, 0}
  BY <1>5, <1>6, Zenon DEF GoodMin1
<1>8. s \in GoodMin0 <=> s = {8, 1} \/ s = {8, 0} \/ s = {8}
  BY <1>5, <1>7, Zenon DEF GoodMin0
<1>9. IsGoodSheme(s, m) <=> (m = 0 /\ s \in GoodMin0) \/ (m = 1 /\ s \in GoodMin1) \/ (m = 2 /\ s \in GoodMin2)
  BY DEF IsGoodSheme
<1> QED  BY <1>1, <1>2, <1>3, <1>6, <1>7, <1>8, <1>9

(* The same for two parts. *)
(* The same for two parts. *)
(* The same for two parts. *)
LEMMA GoodOfTwo ==
  ASSUME NEW s, 9 \in s, s \subseteq {9, 0, 1, 2, 3}, NEW m \in 0 .. 2
  PROVE  IsGoodSheme(s, m) <=>
           \/ {1, 3} \subseteq s /\ 0 \notin s /\ 2 \notin s
           \/ m <= 1 /\ {0, 2} \subseteq s /\ 1 \notin s /\ 3 \notin s
           \/ m = 0 /\ 1 \notin s /\ 2 \notin s /\ 3 \notin s
<1>1. s = {9, 3, 1} <=> {1, 3} \subseteq s /\ 0 \notin s /\ 2 \notin s
  <2>1. s = {9, 3, 1} => {1, 3} \subseteq s /\ 0 \notin s /\ 2 \notin s
    OBVIOUS
  <2>2. {1, 3} \subseteq s /\ 0 \notin s /\ 2 \notin s => s = {9, 3, 1}
    OBVIOUS
  <2> QED  BY <2>1, <2>2, Zenon
<1>2. s = {9, 2, 0} <=> {0, 2} \subseteq s /\ 1 \notin s /\ 3 \notin s
  <2>1. s = {9, 2, 0} => {0, 2} \subseteq s /\ 1 \notin s /\ 3 \notin s
    OBVIOUS
  <2>2. {0, 2} \subseteq s /\ 1 \notin s /\ 3 \notin s => s = {9, 2, 0}
    OBVIOUS
  <2> QED  BY <2>1, <2>2, Zenon
<1>3. s = {9} <=> 0 \notin s /\ 1 \notin s /\ 2 \notin s /\ 3 \notin s
  <2>1. s = {9} => 0 \notin s /\ 1 \notin s /\ 2 \notin s /\ 3 \notin s
    OBVIOUS
  <2>2. 0 \notin s /\ 1 \notin s /\ 2 \notin s /\ 3 \notin s => s = {9}
    OBVIOUS
  <2> QED  BY <2>1, <2>2, Zenon
<1>4. s = {9, 0} <=> 0 \in s /\ 1 \notin s /\ 2 \notin s /\ 3 \notin s
  <2>1. s = {9, 0} => 0 \in s /\ 1 \notin s /\ 2 \notin s /\ 3 \notin s
    OBVIOUS
  <2>2. 0 \in s /\ 1 \notin s /\ 2 \notin s /\ 3 \notin s => s = {9, 0}
    OBVIOUS
  <2> QED  BY <2>1, <2>2, Zenon
<1>5. 8 \notin s
  OBVIOUS
<1>6. /\ s # {8, 1} /\ s # {9, 8, 5, 3, 1} /\ s # {8, 0} /\ s # {9, 8, 4, 0}
      /\ s # {8} /\ s # {9, 8} /\ s # {9, 8, 0}
  BY <1>5
<1>7. s \in GoodMin2 <=> s = {9, 3, 1}
  BY <1>6, Zenon DEF GoodMin2
<1>8. s \in GoodMin1 <=> s = {9, 3, 1} \/ s = {9, 2, 0}
  BY <1>6, <1>7, Zenon DEF GoodMin1
<1>9. s \in GoodMin0 <=> s = {9, 3, 1} \/ s = {9, 2, 0} \/ s = {9} \/ s = {9, 0}
  BY <1>6, <1>8, Zenon DEF GoodMin0
<1>10. IsGoodSheme(s, m) <=> (m = 0 /\ s \in GoodMin0) \/ (m = 1 /\ s \in GoodMin1) \/ (m = 2 /\ s \in GoodMin2)
  BY DEF IsGoodSheme
<1> QED  BY <1>1, <1>2, <1>3, <1>4, <1>7, <1>8, <1>9, <1>10

(* And for three. *)
(* And for three. *)
(* And for three. *)
LEMMA GoodOfThree ==
  ASSUME NEW s, {8, 9} \subseteq s, s \subseteq {9, 8, 0, 1, 2, 3, 4, 5}, NEW m \in 0 .. 2
  PROVE  IsGoodSheme(s, m) <=>
           \/ {1, 3, 5} \subseteq s /\ 0 \notin s /\ 2 \notin s /\ 4 \notin s
           \/ m <= 1 /\ {0, 4} \subseteq s /\ 1 \notin s /\ 2 \notin s /\ 3 \notin s /\ 5 \notin s
           \/ m = 0 /\ 1 \notin s /\ 2 \notin s /\ 3 \notin s /\ 4 \notin s /\ 5 \notin s
<1>1. s = {9, 8, 5, 3, 1} <=> {1, 3, 5} \subseteq s /\ 0 \notin s /\ 2 \notin s /\ 4 \notin s
  <2>1. s = {9, 8, 5, 3, 1} => {1, 3, 5} \subseteq s /\ 0 \notin s /\ 2 \notin s /\ 4 \notin s
    OBVIOUS
  <2>2. {1, 3, 5} \subseteq s /\ 0 \notin s /\ 2 \notin s /\ 4 \notin s => s = {9, 8, 5, 3, 1}
    OBVIOUS
  <2> QED  BY <2>1, <2>2, Zenon
<1>2. s = {9, 8, 4, 0} <=> {0, 4} \subseteq s /\ 1 \notin s /\ 2 \notin s /\ 3 \notin s /\ 5 \notin s
  <2>1. s = {9, 8, 4, 0} => {0, 4} \subseteq s /\ 1 \notin s /\ 2 \notin s /\ 3 \notin s /\ 5 \notin s
    OBVIOUS
  <2>2. {0, 4} \subseteq s /\ 1 \notin s /\ 2 \notin s /\ 3 \notin s /\ 5 \notin s => s = {9, 8, 4, 0}
    OBVIOUS
  <2> QED  BY <2>1, <2>2, Zenon
<1>3. s = {9, 8} <=> 0 \notin s /\ 1 \notin s /\ 2 \notin s /\ 3 \notin s /\ 4 \notin s /\ 5 \notin s
  <2>1. s = {9, 8} => 0 \notin s /\ 1 \notin s /\ 2 \notin s /\ 3 \notin s /\ 4 \notin s /\ 5 \notin s
    OBVIOUS
  <2>2. 0 \notin s /\ 1 \notin s /\ 2 \notin s /\ 3 \notin s /\ 4 \notin s /\ 5 \notin s => s = {9, 8}
    OBVIOUS
  <2> QED  BY <2>1, <2>2, Zenon
<1>4. s = {9, 8, 0} <=> 0 \in s /\ 1 \notin s /\ 2 \notin s /\ 3 \notin s /\ 4 \notin s /\ 5 \notin s
  <2>1. s = {9, 8, 0} => 0 \in s /\ 1 \notin s /\ 2 \notin s /\ 3 \notin s /\ 4 \notin s /\ 5 \notin s
    OBVIOUS
  <2>2. 0 \in s /\ 1 \notin s /\ 2 \notin s /\ 3 \notin s /\ 4 \notin s /\ 5 \notin s => s = {9, 8, 0}
    OBVIOUS
  <2> QED  BY <2>1, <2>2, Zenon
<1>5. 8 \in s /\ 9 \in s
  OBVIOUS
<1>6. /\ s # {8, 1} /\ s # {9, 3, 1} /\ s # {8, 0} /\ s # {9, 2, 0} /\ s # {8} /\ s # {9} /\ s # {9, 0}
  BY <1>5
<1>7. s \in GoodMin2 <=> s = {9, 8, 5, 3, 1}
  BY <1>6, Zenon DEF GoodMin2
<1>8. s \in GoodMin1 <=> s = {9, 8, 5, 3, 1} \/ s = {9, 8, 4, 0}
  BY <1>6, <1>7, Zenon DEF GoodMin1
<1>9. s \in GoodMin0 <=> s = {9, 8, 5, 3, 1} \/ s = {9, 8, 4, 0} \/ s = {9, 8} \/ s = {9, 8, 0}
  BY <1>6, <1>8, Zenon DEF GoodMin0
<1>10. IsGoodSheme(s, m) <=> (m = 0 /\ s \in GoodMin0) \/ (m = 1 /\ s \in GoodMin1) \/ (m = 2 /\ s \in GoodMin2)
  BY DEF IsGoodSheme
<1> QED  BY <1>1, <1>2, <1>3, <1>4, <1>7, <1>8, <1>9, <1>10

(* No list has a scheme with a bit that says "wrong", or of four parts or more. *)
LEMMA NeverGood ==
  ASSUME NEW s, NEW m \in 0 .. 2, NEW b \in {6, 7} \cup (10 .. 15), b \in s
  PROVE  ~IsGoodSheme(s, m)
<1>1. \A g \in GoodMin0 : g \subseteq {0, 1, 2, 3, 4, 5, 8, 9}
  BY DEF GoodMin0, GoodMin1, GoodMin2
<1>2. b \notin {0, 1, 2, 3, 4, 5, 8, 9}
  OBVIOUS
<1>3. s \notin GoodMin0
  BY <1>1, <1>2
<1>4. GoodMin2 \subseteq GoodMin1 /\ GoodMin1 \subseteq GoodMin0
  BY Zenon DEF GoodMin0, GoodMin1
<1> QED  BY <1>3, <1>4 DEF IsGoodSheme

-------------------------------------------------------------------------------

(* The readings of the parts. *)
Read == {"small", "capital", "capitals", "wrong"}

(* A word has one reading for each part. *)
(* A word has one reading for each part. *)
(* A word has one reading for each part. *)
LEMMA ReadingsTyped ==
  ASSUME NEW w \in Seq(Kinds)
  PROVE  LET r == Readings(w)
         IN /\ Hyphens(w) \in Nat /\ r \in Seq(Read) /\ Len(r) = Hyphens(w) + 1
            /\ DOMAIN r = 1 .. Hyphens(w) + 1
            /\ \A p \in 0 .. Hyphens(w) : r[p + 1] = Reading(w, p) /\ Reading(w, p) \in Read
            /\ \A p \in 1 .. Hyphens(w) + 1 : r[p] = Reading(w, p - 1)
<1> DEFINE r == Readings(w)
<1>1. Hyphens(w) \in Nat
  BY PartsOfWord
<1>2. \A p : Reading(w, p) \in Read
  BY DEF Reading, Read
<1>3. r = [p \in 1 .. Hyphens(w) + 1 |-> Reading(w, p - 1)]
  BY DEF Readings
<1>4. r \in [1 .. Hyphens(w) + 1 -> Read]
  BY <1>2, <1>3
<1>5. r \in Seq(Read) /\ Len(r) = Hyphens(w) + 1 /\ DOMAIN r = 1 .. Hyphens(w) + 1
  <2> HIDE DEF r
  <2> QED  BY <1>1, <1>4
<1>6. \A p \in 1 .. Hyphens(w) + 1 : r[p] = Reading(w, p - 1)
  BY <1>3, Zenon
<1>7. ASSUME NEW p \in 0 .. Hyphens(w)  PROVE r[p + 1] = Reading(w, p)
  <2>1. p + 1 \in 1 .. Hyphens(w) + 1 /\ (p + 1) - 1 = p
    BY <1>1
  <2> QED  BY <1>6, <2>1, Zenon
<1> QED  BY <1>1, <1>2, <1>5, <1>6, <1>7, Zenon

(* What a stem may be written as, for one part, two and three, and never.      *)
LEMMA MayOf ==
  ASSUME NEW r \in Seq(Read), NEW m \in 0 .. 2
  PROVE  /\ Len(r) = 1 =>
              (MayBeWritten(r, m) <=>
                 \/ r[1] = "capitals"
                 \/ m <= 1 /\ r[1] = "capital"
                 \/ m = 0 /\ r[1] \in {"small", "capital"})
         /\ Len(r) = 2 =>
              (MayBeWritten(r, m) <=>
                 \/ r[1] = "capitals" /\ r[2] = "capitals"
                 \/ m <= 1 /\ r[1] = "capital" /\ r[2] = "capital"
                 \/ m = 0 /\ r[1] \in {"small", "capital"} /\ r[2] = "small")
         /\ Len(r) = 3 =>
              (MayBeWritten(r, m) <=>
                 \/ r[1] = "capitals" /\ r[2] = "capitals" /\ r[3] = "capitals"
                 \/ m <= 1 /\ r[1] = "capital" /\ r[2] = "small" /\ r[3] = "capital"
                 \/ m = 0 /\ r[1] \in {"small", "capital"} /\ r[2] = "small" /\ r[3] = "small")
         /\ Len(r) > 3 => ~MayBeWritten(r, m)
         /\ r # <<>> /\ (\E p \in 1 .. Len(r) : r[p] = "wrong") => ~MayBeWritten(r, m)
<1>1. Len(r) \in Nat /\ DOMAIN r = 1 .. Len(r) /\ (r = <<>> => Len(r) = 0)
  BY LenProperties, EmptySeq
<1>2. r = <<"capital">> <=> Len(r) = 1 /\ r[1] = "capital"
  <2>1. <<"capital">> \in Seq(Read) /\ Len(<<"capital">>) = 1 /\ <<"capital">>[1] = "capital"
    BY DEF Read
  <2> QED  BY <2>1, SeqEqual
<1>3. r = <<"capital", "capital">> <=> Len(r) = 2 /\ r[1] = "capital" /\ r[2] = "capital"
  <2> DEFINE t == <<"capital", "capital">>
  <2>1. t \in Seq(Read) /\ Len(t) = 2 /\ t[1] = "capital" /\ t[2] = "capital"
    BY DEF Read
  <2> HIDE DEF t
  <2>2. ASSUME Len(r) = 2, r[1] = "capital", r[2] = "capital"  PROVE r = t
    <3>1. \A i \in 1 .. Len(r) : r[i] = t[i]
      BY <2>1, <2>2
    <3> QED  BY <2>1, <2>2, <3>1, SeqEqual
  <2>3. r = t <=> Len(r) = 2 /\ r[1] = "capital" /\ r[2] = "capital"
    BY <2>1, <2>2
  <2> QED  BY <2>3 DEF t
<1>4. r = <<"capital", "small", "capital">> <=>
        Len(r) = 3 /\ r[1] = "capital" /\ r[2] = "small" /\ r[3] = "capital"
  <2> DEFINE t == <<"capital", "small", "capital">>
  <2>1. t \in Seq(Read) /\ Len(t) = 3 /\ t[1] = "capital" /\ t[2] = "small" /\ t[3] = "capital"
    BY DEF Read
  <2> HIDE DEF t
  <2>2. ASSUME Len(r) = 3, r[1] = "capital", r[2] = "small", r[3] = "capital"  PROVE r = t
    <3>1. \A i \in 1 .. Len(r) : r[i] = t[i]
      BY <2>1, <2>2
    <3> QED  BY <2>1, <2>2, <3>1, SeqEqual
  <2>3. r = t <=> Len(r) = 3 /\ r[1] = "capital" /\ r[2] = "small" /\ r[3] = "capital"
    BY <2>1, <2>2
  <2> QED  BY <2>3 DEF t
<1>5. AllAre(r, "capitals") <=> \A p \in 1 .. Len(r) : r[p] = "capitals"
  BY <1>1 DEF AllAre
<1>6. ASSUME r # <<>>
      PROVE  AllAre(Tail(r), "small") <=> \A p \in 2 .. Len(r) : r[p] = "small"
  <2>1. /\ Tail(r) \in Seq(Read) /\ Len(Tail(r)) = Len(r) - 1
        /\ \A i \in 1 .. Len(Tail(r)) : Tail(r)[i] = r[i + 1]
    BY <1>6, HeadTailProperties
  <2>2. DOMAIN Tail(r) = 1 .. Len(r) - 1
    BY <2>1, LenProperties
  <2>3. AllAre(Tail(r), "small") <=> \A i \in 1 .. Len(r) - 1 : r[i + 1] = "small"
    BY <2>1, <2>2, Zenon DEF AllAre
  <2>4. (\A i \in 1 .. Len(r) - 1 : r[i + 1] = "small") => \A p \in 2 .. Len(r) : r[p] = "small"
    <3>1. SUFFICES ASSUME \A i \in 1 .. Len(r) - 1 : r[i + 1] = "small", NEW p \in 2 .. Len(r)
                   PROVE  r[p] = "small"
      OBVIOUS
    <3>2. p - 1 \in 1 .. Len(r) - 1 /\ (p - 1) + 1 = p
      BY <1>1
    <3> QED  BY <3>1, <3>2, Zenon
  <2>5. (\A p \in 2 .. Len(r) : r[p] = "small") => \A i \in 1 .. Len(r) - 1 : r[i + 1] = "small"
    BY <1>1
  <2> QED  BY <2>3, <2>4, <2>5
<1>7. MayBeWritten(r, m) <=>
        /\ Len(r) <= 3
        /\ \/ \A p \in 1 .. Len(r) : r[p] = "capitals"
           \/ m <= 1 /\ \/ Len(r) = 1 /\ r[1] = "capital"
                        \/ Len(r) = 2 /\ r[1] = "capital" /\ r[2] = "capital"
                        \/ Len(r) = 3 /\ r[1] = "capital" /\ r[2] = "small" /\ r[3] = "capital"
           \/ m = 0 /\ AllAre(Tail(r), "small") /\ r[1] \in {"small", "capital"}
  BY <1>2, <1>3, <1>4, <1>5, Zenon DEF MayBeWritten
<1>8. ASSUME Len(r) = 1
      PROVE  /\ (\A p \in 1 .. Len(r) : r[p] = "capitals") <=> r[1] = "capitals"
             /\ \A p \in 2 .. Len(r) : r[p] = "small"
  BY <1>8
<1>9. ASSUME Len(r) = 2
      PROVE  /\ (\A p \in 1 .. Len(r) : r[p] = "capitals") <=> r[1] = "capitals" /\ r[2] = "capitals"
             /\ (\A p \in 2 .. Len(r) : r[p] = "small") <=> r[2] = "small"
  BY <1>9
<1>10. ASSUME Len(r) = 3
       PROVE  /\ (\A p \in 1 .. Len(r) : r[p] = "capitals") <=>
                   r[1] = "capitals" /\ r[2] = "capitals" /\ r[3] = "capitals"
              /\ (\A p \in 2 .. Len(r) : r[p] = "small") <=> r[2] = "small" /\ r[3] = "small"
  BY <1>10
<1>11. Len(r) = 1 \/ Len(r) = 2 \/ Len(r) = 3 => r # <<>>
  BY <1>1
<1>12. ASSUME r # <<>>, NEW p \in 1 .. Len(r), r[p] = "wrong"  PROVE ~MayBeWritten(r, m)
  <2>1. ~(\A q \in 1 .. Len(r) : r[q] = "capitals")
    BY <1>12
  <2>2. CASE p = 1
    BY <1>7, <1>12, <2>1, <2>2
  <2>3. CASE p # 1
    <3>1. p \in 2 .. Len(r)
      BY <1>1, <2>3
    <3>2. ~AllAre(Tail(r), "small")
      BY <1>6, <1>12, <3>1
    <3>3. /\ Len(r) # 1
          /\ Len(r) = 2 => p = 2
          /\ Len(r) = 3 => p = 2 \/ p = 3
      BY <1>1, <3>1
    <3> QED  BY <1>7, <1>12, <2>1, <3>2, <3>3
  <2> QED  BY <2>2, <2>3
<1>13. CASE Len(r) = 1
  BY <1>6, <1>7, <1>8, <1>11, <1>12, <1>13
<1>14. CASE Len(r) = 2
  BY <1>6, <1>7, <1>9, <1>11, <1>12, <1>14
<1>15. CASE Len(r) = 3
  BY <1>6, <1>7, <1>10, <1>11, <1>12, <1>15
<1>16. CASE Len(r) > 3
  BY <1>1, <1>7, <1>12, <1>16
<1>17. CASE Len(r) = 0
  BY <1>12, <1>17
<1> QED  BY <1>1, <1>13, <1>14, <1>15, <1>16, <1>17

(* The bits below the count, when the low byte holds a part each. *)
LEMMA BitsOfParts ==
  ASSUME NEW w \in Seq(Kinds), Hyphens(w) <= 3, NEW s,
         s = Shifted(Hyphens(w) + 1, 8) \cup Marks(w, 0 .. Hyphens(w))
  PROVE  \A p \in 0 .. Hyphens(w) :
           /\ 2 * p \in s <=> Reading(w, p) = "capital"
           /\ 2 * p + 1 \in s <=> Reading(w, p) = "capitals"
<1>1. Hyphens(w) \in Nat
  BY PartsOfWord
<1>2. \A b \in Shifted(Hyphens(w) + 1, 8) : b >= 8
  BY BitsTable DEF Shifted
<1>3. TAKE p \in 0 .. Hyphens(w)
<1>4. 2 * p \notin Shifted(Hyphens(w) + 1, 8) /\ 2 * p + 1 \notin Shifted(Hyphens(w) + 1, 8)
  <2>1. 2 * p \in 0 .. 7 /\ 2 * p + 1 \in 0 .. 7
    BY <1>1
  <2> QED  BY <1>2, <2>1
<1>5. /\ 2 * p \in Marks(w, 0 .. Hyphens(w)) <=> Reading(w, p) = "capital"
      /\ 2 * p + 1 \in Marks(w, 0 .. Hyphens(w)) <=> Reading(w, p) = "capitals"
  BY <1>1, MarksTell
<1> QED  BY <1>4, <1>5, Zenon

(* A word that is read without fault has a good scheme exactly when a reader   *)
(* accepts it.                                                                 *)
LEMMA GoodAsRead ==
  ASSUME NEW w \in Seq(Kinds), Hyphens(w) <= 2, NEW s, NEW m \in 0 .. 2,
         \A p \in 0 .. Hyphens(w) : Reading(w, p) # "wrong",
         s = Shifted(Hyphens(w) + 1, 8) \cup Marks(w, 0 .. Hyphens(w))
  PROVE  IsGoodSheme(s, m) <=> MayBeWritten(Readings(w), m)
<1> DEFINE H == Hyphens(w)
           r == Readings(w)
<1>1. /\ H \in Nat /\ r \in Seq(Read) /\ Len(r) = H + 1
      /\ \A p \in 0 .. H : r[p + 1] = Reading(w, p) /\ Reading(w, p) \in Read
  BY ReadingsTyped, Zenon
<1>2. \A p \in 0 .. H : /\ r[p + 1] \in {"small", "capital", "capitals"}
                        /\ 2 * p \in s <=> r[p + 1] = "capital"
                        /\ 2 * p + 1 \in s <=> r[p + 1] = "capitals"
  <2>1. H <= 3
    BY <1>1
  <2>2. \A p \in 0 .. H : /\ 2 * p \in s <=> Reading(w, p) = "capital"
                          /\ 2 * p + 1 \in s <=> Reading(w, p) = "capitals"
    BY <2>1, BitsOfParts
  <2>3. \A p \in 0 .. H : Reading(w, p) \in {"small", "capital", "capitals"}
    BY <1>1 DEF Read
  <2> QED  BY <1>1, <2>2, <2>3, Zenon
<1>3. Marks(w, 0 .. H) \subseteq 0 .. 2 * H + 1
  BY <1>1, MarksTell
<1>4. s = Shifted(H + 1, 8) \cup Marks(w, 0 .. H) /\ H \in 0 .. 2
  BY <1>1
<1>5. Shifted(1, 8) = {8} /\ Shifted(2, 8) = {9} /\ Shifted(3, 8) = {8, 9}
  <2>1. Shifted(1, 8) = {8}
    <3>1. BitsOf(1) = {0}
      BY BitsTable
    <3>2. \A x : x \in {b + 8 : b \in {0}} <=> x = 8
      OBVIOUS
    <3> QED  BY <3>1, <3>2 DEF Shifted
  <2>2. Shifted(2, 8) = {9}
    BY BitsTable DEF Shifted
  <2>3. Shifted(3, 8) = {8, 9}
    BY BitsTable DEF Shifted
  <2> QED  BY <2>1, <2>2, <2>3
<1> HIDE DEF H, r
<1>6. CASE H = 0
  <2>1. 8 \in s /\ s \subseteq {8, 0, 1}
    BY <1>3, <1>4, <1>5, <1>6
  <2>2. /\ r[1] \in {"small", "capital", "capitals"}
        /\ 0 \in s <=> r[1] = "capital"
        /\ 1 \in s <=> r[1] = "capitals"
    BY <1>2, <1>6
  <2>3. IsGoodSheme(s, m) <=>
           \/ 1 \in s /\ 0 \notin s
           \/ m <= 1 /\ 0 \in s /\ 1 \notin s
           \/ m = 0 /\ 1 \notin s
    BY <2>1, GoodOfOne, Zenon
  <2>4. Len(r) = 1
    BY <1>1, <1>6
  <2>5. MayBeWritten(r, m) <=>
           \/ r[1] = "capitals"
           \/ m <= 1 /\ r[1] = "capital"
           \/ m = 0 /\ r[1] \in {"small", "capital"}
    BY <1>1, <2>4, MayOf, Zenon
  <2> QED  BY <2>2, <2>3, <2>5 DEF r
<1>7. CASE H = 1
  <2>1. 9 \in s /\ s \subseteq {9, 0, 1, 2, 3}
    BY <1>3, <1>4, <1>5, <1>7
  <2>2. /\ r[1] \in {"small", "capital", "capitals"} /\ r[2] \in {"small", "capital", "capitals"}
        /\ 0 \in s <=> r[1] = "capital"
        /\ 1 \in s <=> r[1] = "capitals"
        /\ 2 \in s <=> r[2] = "capital"
        /\ 3 \in s <=> r[2] = "capitals"
    BY <1>2, <1>7
  <2>3. IsGoodSheme(s, m) <=>
           \/ {1, 3} \subseteq s /\ 0 \notin s /\ 2 \notin s
           \/ m <= 1 /\ {0, 2} \subseteq s /\ 1 \notin s /\ 3 \notin s
           \/ m = 0 /\ 1 \notin s /\ 2 \notin s /\ 3 \notin s
    BY <2>1, GoodOfTwo, Zenon
  <2>4. Len(r) = 2
    BY <1>1, <1>7
  <2>5. MayBeWritten(r, m) <=>
           \/ r[1] = "capitals" /\ r[2] = "capitals"
           \/ m <= 1 /\ r[1] = "capital" /\ r[2] = "capital"
           \/ m = 0 /\ r[1] \in {"small", "capital"} /\ r[2] = "small"
    BY <1>1, <2>4, MayOf, Zenon
  <2> QED  BY <2>2, <2>3, <2>5 DEF r
<1>8. CASE H = 2
  <2>1. {8, 9} \subseteq s /\ s \subseteq {9, 8, 0, 1, 2, 3, 4, 5}
    BY <1>3, <1>4, <1>5, <1>8
  <2>2. /\ r[1] \in {"small", "capital", "capitals"} /\ r[2] \in {"small", "capital", "capitals"}
        /\ r[3] \in {"small", "capital", "capitals"}
        /\ 0 \in s <=> r[1] = "capital"
        /\ 1 \in s <=> r[1] = "capitals"
        /\ 2 \in s <=> r[2] = "capital"
        /\ 3 \in s <=> r[2] = "capitals"
        /\ 4 \in s <=> r[3] = "capital"
        /\ 5 \in s <=> r[3] = "capitals"
    BY <1>2, <1>8
  <2>3. IsGoodSheme(s, m) <=>
           \/ {1, 3, 5} \subseteq s /\ 0 \notin s /\ 2 \notin s /\ 4 \notin s
           \/ m <= 1 /\ {0, 4} \subseteq s /\ 1 \notin s /\ 2 \notin s /\ 3 \notin s /\ 5 \notin s
           \/ m = 0 /\ 1 \notin s /\ 2 \notin s /\ 3 \notin s /\ 4 \notin s /\ 5 \notin s
    BY <2>1, GoodOfThree, Zenon
  <2>4. Len(r) = 3
    BY <1>1, <1>8
  <2>5. MayBeWritten(r, m) <=>
           \/ r[1] = "capitals" /\ r[2] = "capitals" /\ r[3] = "capitals"
           \/ m <= 1 /\ r[1] = "capital" /\ r[2] = "small" /\ r[3] = "capital"
           \/ m = 0 /\ r[1] \in {"small", "capital"} /\ r[2] = "small" /\ r[3] = "small"
    BY <1>1, <2>4, MayOf, Zenon
  <2> QED  BY <2>2, <2>3, <2>5 DEF r
<1> QED  BY <1>4, <1>6, <1>7, <1>8

(* The verdict on the word that has been scanned. *)
LEMMA VerdictTold ==
  ASSUME CapInv, pc = "judged", Len(word) < size, NEW m \in 0 .. 2
  PROVE  IsGoodSheme(result, m) <=> MayBeWritten(Readings(word), m)
<1> DEFINE H == Hyphens(word)
           r == Readings(word)
<1>1. /\ word \in Seq(Kinds) /\ Len(word) \in Nat /\ size \in Nat /\ H \in Nat
  BY Here DEF CapInv
<1>2. /\ result \subseteq 0 .. 15
      /\ IF \E p \in 0 .. H : Reading(word, p) = "wrong"
           THEN {6, 7} \subseteq result
           ELSE /\ H >= 3 => \E b \in 10 .. 15 : b \in result
                /\ H <= 3 => result = Shifted(H + 1, 8) \cup Marks(word, 0 .. H)
  <2>1. ~(Len(word) >= size)
    BY <1>1
  <2> QED  BY <2>1, Zenon DEF CapInv, Told
<1>3. /\ r \in Seq(Read) /\ Len(r) = H + 1
      /\ \A p \in 0 .. H : r[p + 1] = Reading(word, p)
  BY <1>1, ReadingsTyped, Zenon
<1> HIDE DEF H, r
<1>4. CASE \E p \in 0 .. H : Reading(word, p) = "wrong"
  <2>1. 6 \in result /\ 6 \in {6, 7} \cup (10 .. 15)
    BY <1>2, <1>4
  <2>2. ~IsGoodSheme(result, m)
    BY <2>1, NeverGood, Zenon
  <2>3. PICK p \in 0 .. H : r[p + 1] = "wrong"
    BY <1>3, <1>4, Zenon
  <2>4. p + 1 \in 1 .. Len(r) /\ r # <<>>
    <3>1. p + 1 \in 1 .. Len(r)
      BY <1>1, <1>3
    <3>2. Len(<<>>) = 0
      OBVIOUS
    <3> QED  BY <1>1, <1>3, <3>1, <3>2
  <2>5. ~MayBeWritten(r, m)
    BY <1>3, <2>3, <2>4, MayOf, Zenon
  <2> QED  BY <2>2, <2>5, Zenon DEF r
<1>5. CASE ~(\E p \in 0 .. H : Reading(word, p) = "wrong") /\ H >= 3
  <2>1. PICK b \in 10 .. 15 : b \in result
    BY <1>2, <1>5, Zenon
  <2>2. b \in {6, 7} \cup (10 .. 15)
    OBVIOUS
  <2>3. ~IsGoodSheme(result, m)
    BY <2>1, <2>2, NeverGood, Zenon
  <2>4. Len(r) > 3
    BY <1>1, <1>3, <1>5
  <2>5. ~MayBeWritten(r, m)
    BY <1>3, <2>4, MayOf, Zenon
  <2> QED  BY <2>3, <2>5, Zenon DEF r
<1>6. CASE ~(\E p \in 0 .. H : Reading(word, p) = "wrong") /\ ~(H >= 3)
  <2>1. H <= 2 /\ H <= 3
    BY <1>1, <1>6
  <2>2. result = Shifted(H + 1, 8) \cup Marks(word, 0 .. H)
    BY <1>2, <1>6, <2>1, Zenon
  <2>3. \A p \in 0 .. H : Reading(word, p) # "wrong"
    BY <1>6, Zenon
  <2> QED  BY <1>1, <2>1, <2>2, <2>3, GoodAsRead, Zenon DEF H
<1> QED  BY <1>4, <1>5, <1>6, Zenon

(* The scheme of a word of any length is good for a stem exactly when a reader *)
(* of its parts would accept it, and a word is refused unread exactly when the *)
(* buffer cannot hold it with its zero (capsheme.cpp:37-67).                   *)
THEOREM Verdict == Spec => []VerdictByParts
<1>1. CapInv => VerdictByParts
  <2> SUFFICES ASSUME CapInv, pc = "judged"
               PROVE  IF Len(word) >= size THEN result = TooLong
                      ELSE \A m \in 0 .. 2 : IsGoodSheme(result, m) = MayBeWritten(Readings(word), m)
    BY Zenon DEF VerdictByParts
  <2>1. ASSUME Len(word) >= size  PROVE result = TooLong
    BY <2>1, Zenon DEF CapInv, Told
  <2>2. ASSUME ~(Len(word) >= size), NEW m \in 0 .. 2
        PROVE  IsGoodSheme(result, m) = MayBeWritten(Readings(word), m)
    <3>1. Len(word) < size
      <4>1. Len(word) \in Nat /\ size \in Nat
        BY Here DEF CapInv
      <4> QED  BY <2>2, <4>1
    <3>2. IsGoodSheme(result, m) <=> MayBeWritten(Readings(word), m)
      BY <3>1, VerdictTold
    <3>3. IsGoodSheme(result, m) \in BOOLEAN /\ MayBeWritten(Readings(word), m) \in BOOLEAN
      BY DEF IsGoodSheme, MayBeWritten
    <3> QED  BY <3>2, <3>3
  <2> QED  BY <2>1, <2>2, Zenon
<1> QED  BY <1>1, CapInvariant, PTL

-------------------------------------------------------------------------------
(* Writing. *)

(* The high byte of a scheme is the number of parts. *)
LEMMA PartsTold ==
  ASSUME NEW s, NEW k \in 0 .. 255, s \cap (8 .. 15) = Shifted(k, 8)
  PROVE  NParts(s) = k
<1>1. ASSUME NEW n \in 0 .. 255, Shifted(n, 8) = Shifted(k, 8)  PROVE n = k
  <2>1. BitsOf(n) \subseteq 0 .. 8 /\ BitsOf(k) \subseteq 0 .. 8
    BY BitsTable, Zenon
  <2>2. ASSUME NEW x, NEW y, x \subseteq 0 .. 8, y \subseteq 0 .. 8,
               {b + 8 : b \in x} = {b + 8 : b \in y}
        PROVE  x \subseteq y
    <3>1. SUFFICES ASSUME NEW a \in x  PROVE a \in y
      OBVIOUS
    <3>2. a + 8 \in {b + 8 : b \in y}
      BY <2>2, Zenon
    <3>3. PICK b \in y : a + 8 = b + 8
      BY <3>2
    <3>4. a \in 0 .. 8 /\ b \in 0 .. 8
      BY <2>2
    <3> QED  BY <3>3, <3>4
  <2>3. {b + 8 : b \in BitsOf(n)} = {b + 8 : b \in BitsOf(k)}
    BY <1>1, Zenon DEF Shifted
  <2>4. BitsOf(n) \subseteq BitsOf(k) /\ BitsOf(k) \subseteq BitsOf(n)
    BY <2>1, <2>2, <2>3, Zenon
  <2>5. BitsOf(n) = BitsOf(k)
    BY <2>4
  <2> QED  BY <2>5, BitsTell
<1> DEFINE P(n) == Shifted(n, 8) = s \cap (8 .. 15)
<1>2. P(k) /\ \A n \in 0 .. 255 : P(n) => n = k
  BY <1>1, Zenon
<1>3. NParts(s) = CHOOSE n \in 0 .. 255 : P(n)
  BY Zenon DEF NParts
<1> HIDE DEF P
<1>4. (CHOOSE n \in 0 .. 255 : P(n)) = k
  BY <1>2
<1> QED  BY <1>3, <1>4, Zenon

(* The reading of a part gives back its letters. *)
LEMMA ReadingGives ==
  ASSUME NEW w \in Seq(Kinds), NEW i \in 1 .. Len(w), w[i] # "-",
         NEW p, p = PartOf(w, i), Reading(w, p) # "wrong"
  PROVE  /\ Reading(w, p) \in {"small", "capital", "capitals"}
         /\ w[i] = IF Reading(w, p) = "capitals" \/ (Reading(w, p) = "capital" /\ FirstInPart(w, i))
                     THEN "A" ELSE "a"
<1> DEFINE L == Letters(w, p)
<1>1. i \in L
  BY PartsOfWord DEF Letters
<1>2. L = Letters(w, p) /\ L # {}
  BY <1>1
<1> HIDE DEF L
<1>3. CASE \A j \in L : w[j] = "a"
  <2>1. Reading(w, p) = "small"
    BY <1>2, <1>3, ReadingTold, Zenon
  <2> QED  BY <1>1, <1>3, <2>1
<1>4. CASE \A j \in L : w[j] = "A"
  <2>1. Reading(w, p) = "capitals"
    BY <1>2, <1>4, ReadingTold, Zenon
  <2> QED  BY <1>1, <1>4, <2>1
<1>5. CASE /\ \E j \in L : w[j] = "A"
           /\ \E j \in L : ~FirstInPart(w, j)
           /\ \A j \in L : ~FirstInPart(w, j) => w[j] = "a"
  <2>1. Reading(w, p) = "capital"
    BY <1>2, <1>5, ReadingTold, Zenon
  <2>2. PICK j \in L : w[j] = "A"
    BY <1>5
  <2>3. FirstInPart(w, j)
    BY <1>5, <2>2
  <2>4. FirstInPart(w, i) => i = j
    BY <1>1, <1>2, <2>3, FirstsAgree
  <2> QED  BY <1>1, <1>5, <2>1, <2>2, <2>4
<1>6. \/ \A j \in L : w[j] = "a"
      \/ \A j \in L : w[j] = "A"
      \/ /\ \E j \in L : w[j] = "A"
         /\ \E j \in L : ~FirstInPart(w, j)
         /\ \A j \in L : ~FirstInPart(w, j) => w[j] = "a"
  BY <1>2, ReadingTold, Zenon
<1> QED  BY <1>3, <1>4, <1>5, <1>6

(* The small letters of a word, written with its scheme, are the word. *)
LEMMA BackAgain ==
  ASSUME CapInv, pc = "judged", Len(word) < size, Hyphens(word) <= 3,
         \A p \in 0 .. Hyphens(word) : Reading(word, p) # "wrong"
  PROVE  SetCapScheme(output, result) = word
<1> DEFINE H == Hyphens(word)
           v == SetCapScheme(output, result)
<1>1. /\ word \in Seq(Kinds) /\ output \in Seq(Kinds) /\ H \in 0 .. 3
      /\ Len(word) \in Nat /\ size \in Nat
      /\ \A i \in 1 .. Len(output) + 1 : PartOf(output, i) = PartOf(word, i)
      /\ \A i \in 1 .. Len(output) : output[i] = "-" <=> word[i] = "-"
  BY Here DEF CapInv
<1>2. Len(output) = Len(word) /\ result = Shifted(H + 1, 8) \cup Marks(word, 0 .. H)
  <2>1. ~(Len(word) >= size)
    BY <1>1
  <2> QED  BY <2>1, Zenon DEF CapInv, Told
<1>3. \A i \in 1 .. Len(word) : output[i] = Lower(word[i])
  BY <1>2 DEF CapInv, Copied
<1>4. NParts(result) = H + 1
  <2>1. Marks(word, 0 .. H) \subseteq 0 .. 7
    <3>1. Marks(word, 0 .. H) \subseteq 0 .. 2 * H + 1
      BY <1>1, MarksTell
    <3> QED  BY <1>1, <3>1
  <2>2. Shifted(H + 1, 8) \subseteq 8 .. 15
    <3>1. \A b \in BitsOf(H + 1) : b \in 0 .. 7
      <4>1. H + 1 \in 1 .. 4
        BY <1>1
      <4> QED  BY <4>1, BitsTable
    <3> QED  BY <3>1 DEF Shifted
  <2>3. result \cap (8 .. 15) = Shifted(H + 1, 8)
    BY <1>2, <2>1, <2>2
  <2>4. H + 1 \in 0 .. 255
    <3>1. \A h \in 0 .. 3 : h + 1 \in 0 .. 255
      OBVIOUS
    <3> QED  BY <1>1, <3>1, Zenon
  <2> QED  BY <2>3, <2>4, PartsTold
<1>5. \A p \in 0 .. H : /\ 2 * p \in result <=> Reading(word, p) = "capital"
                        /\ 2 * p + 1 \in result <=> Reading(word, p) = "capitals"
  BY <1>1, <1>2, BitsOfParts
<1>6. ASSUME NEW i \in 1 .. Len(word)  PROVE v[i] = word[i]
  <2> DEFINE p == PartOf(word, i)
  <2>1. p \in 0 .. H /\ word[i] \in Kinds
    BY <1>1, PartsOfWord
  <2>2. i \in 1 .. Len(output) + 1 /\ i \in 1 .. Len(output)
    BY <1>1, <1>2
  <2>3. PartOf(output, i) = p /\ p < NParts(result)
    BY <1>1, <1>4, <2>1, <2>2
  <2>4. FirstInPart(output, i) <=> FirstInPart(word, i)
    <3>1. i = 1 \/ i - 1 \in 1 .. Len(output)
      BY <1>1, <2>2
    <3> QED  BY <1>1, <3>1, Zenon DEF FirstInPart
  <2>5. v[i] = IF 2 * p + 1 \in result \/ (2 * p \in result /\ FirstInPart(word, i))
                 THEN Upper(output[i]) ELSE output[i]
    BY <1>1, <2>2, <2>3, <2>4, SetTyped, Zenon
  <2>6. v[i] = IF Reading(word, p) = "capitals" \/ (Reading(word, p) = "capital" /\ FirstInPart(word, i))
                 THEN Upper(Lower(word[i])) ELSE Lower(word[i])
    BY <1>3, <1>5, <2>1, <2>5, Zenon
  <2> HIDE DEF v
  <2>7. CASE word[i] = "-"
    BY <2>6, <2>7 DEF Upper, Lower
  <2>8. CASE word[i] # "-"
    <3>1. word[i] = IF Reading(word, p) = "capitals" \/ (Reading(word, p) = "capital" /\ FirstInPart(word, i))
                      THEN "A" ELSE "a"
      BY <1>1, <2>1, <2>8, ReadingGives, Zenon
    <3>2. Upper(Lower("A")) = "A" /\ Lower("a") = "a"
      BY DEF Upper, Lower
    <3> HIDE DEF p
    <3> QED  BY <2>6, <3>1, <3>2, Zenon
  <2> QED  BY <2>7, <2>8
<1>7. v \in Seq(Kinds) /\ Len(v) = Len(word)
  BY <1>1, <1>2, SetTyped, Zenon
<1> HIDE DEF v
<1>8. v = word
  BY <1>1, <1>6, <1>7, SeqEqual
<1> QED  BY <1>8 DEF v

(* Nothing is lost between GetCapScheme and SetCapScheme: a word of up to four *)
(* parts, each read without fault, is what its small letters are written back  *)
(* as (capsheme.cpp:37-67, 147-170).                                           *)
THEOREM WrittenBack == Spec => []WritesBack
<1>1. CapInv => WritesBack
  <2> DEFINE r == Readings(word)
  <2> SUFFICES ASSUME CapInv, pc = "judged", result # TooLong, Len(r) <= 4,
                      ~(\E p \in DOMAIN r : r[p] = "wrong")
               PROVE  SetCapScheme(output, result) = word
    BY Zenon DEF WritesBack
  <2>1. word \in Seq(Kinds) /\ Len(word) \in Nat /\ size \in Nat
    BY Here DEF CapInv
  <2>2. Len(word) < size
    <3>1. ~(Len(word) >= size)
      BY Zenon DEF CapInv, Told
    <3> QED  BY <2>1, <3>1
  <2>3. /\ Hyphens(word) \in Nat /\ Len(r) = Hyphens(word) + 1
        /\ DOMAIN r = 1 .. Hyphens(word) + 1
        /\ \A p \in 0 .. Hyphens(word) : r[p + 1] = Reading(word, p)
    BY <2>1, ReadingsTyped, Zenon
  <2> HIDE DEF r
  <2>4. Hyphens(word) <= 3
    BY <2>3
  <2>5. ASSUME NEW p \in 0 .. Hyphens(word)  PROVE Reading(word, p) # "wrong"
    <3>1. p + 1 \in DOMAIN r
      BY <2>3
    <3> QED  BY <2>3, <3>1, Zenon
  <2> QED  BY <2>2, <2>4, <2>5, BackAgain
<1> QED  BY <1>1, CapInvariant, PTL

-------------------------------------------------------------------------------
(* The library's own forms. *)

(* The scheme of a form: its count of parts, and below it the bits of the      *)
(* stem's least scheme for the parts that have it.                             *)
LEMMA LeastScheme ==
  ASSUME NEW f \in Seq(Kinds), Hyphens(f) <= 2, NEW m \in 0 .. 2, NEW s, s = GetMinScheme(m, f, 0)
  PROVE  /\ NParts(s) = Hyphens(f) + 1
         /\ m = 0 => \A b \in 0 .. 7 : b \notin s
         /\ m = 1 => \A b \in 0 .. 7 : b \in s <=> b = 0 \/ b = 2 * Hyphens(f)
         /\ m = 2 => \A b \in 0 .. 7 : b \in s <=> b % 2 = 1 /\ b < 2 * Hyphens(f) + 2
<1> DEFINE H == Hyphens(f)
<1>1. H \in 0 .. 2
  <2>1. H \in Nat
    BY PartsOfWord
  <2> QED  BY <2>1
<1>2. BitsOf(0) = {} /\ BitsOf(1) = {0} /\ BitsOf(2) = {1} /\ BitsOf(3) = {0, 1}
  BY BitsTable, Zenon
<1>3. \A by \in Int : Shifted(m, by) = IF m = 0 THEN {} ELSE IF m = 1 THEN {by} ELSE {by + 1}
  <2> TAKE by \in Int
  <2>1. CASE m = 0
    BY <1>2, <2>1 DEF Shifted
  <2>2. CASE m = 1
    <3>1. Shifted(m, by) = {0 + by}
      BY <1>2, <2>2 DEF Shifted
    <3> QED  BY <2>2, <3>1
  <2>3. CASE m = 2
    <3>1. Shifted(m, by) = {1 + by}
      BY <1>2, <2>3 DEF Shifted
    <3> QED  BY <2>3, <3>1
  <2> QED  BY <2>1, <2>2, <2>3
<1>4. Shifted(1, 8) = {8} /\ Shifted(2, 8) = {9} /\ Shifted(3, 8) = {8, 9}
  <2>1. Shifted(1, 8) = {0 + 8}
    BY <1>2 DEF Shifted
  <2>2. Shifted(2, 8) = {1 + 8}
    BY <1>2 DEF Shifted
  <2>3. Shifted(3, 8) = {0 + 8, 1 + 8}
    BY <1>2 DEF Shifted
  <2> QED  BY <2>1, <2>2, <2>3
<1>5. /\ H = 0 => s = {8} \cup Shifted(m, 0)
      /\ H = 1 => s = {9} \cup Shifted(m, 0) \cup Shifted(m, 2)
      /\ H = 2 => s = {8, 9} \cup Shifted(m, 0) \cup Shifted(m, 4) \cup (IF m = 2 THEN {3} ELSE {})
  BY <1>1 DEF GetMinScheme
<1> HIDE DEF H
<1>6. s \cap (8 .. 15) = Shifted(H + 1, 8)
  <2>1. CASE H = 0
    <3>1. s \cap (8 .. 15) = {8}
      BY <1>3, <1>5, <2>1
    <3> QED  BY <1>4, <2>1, <3>1
  <2>2. CASE H = 1
    <3>1. s \cap (8 .. 15) = {9}
      BY <1>3, <1>5, <2>2
    <3> QED  BY <1>4, <2>2, <3>1
  <2>3. CASE H = 2
    <3>1. s \cap (8 .. 15) = {8, 9}
      BY <1>3, <1>5, <2>3
    <3> QED  BY <1>4, <2>3, <3>1
  <2> QED  BY <1>1, <2>1, <2>2, <2>3
<1>7. NParts(s) = H + 1
  <2>1. H + 1 \in 0 .. 255
    BY <1>1
  <2> QED  BY <1>6, <2>1, PartsTold, Zenon
<1>8. m = 0 => \A b \in 0 .. 7 : b \notin s
  BY <1>1, <1>3, <1>5
<1>9. m = 1 => \A b \in 0 .. 7 : b \in s <=> b = 0 \/ b = 2 * H
  <2>1. CASE H = 0
    BY <1>3, <1>5, <2>1
  <2>2. CASE H = 1
    BY <1>3, <1>5, <2>2
  <2>3. CASE H = 2
    BY <1>3, <1>5, <2>3
  <2> QED  BY <1>1, <2>1, <2>2, <2>3
<1>10. m = 2 => \A b \in 0 .. 7 : b \in s <=> b % 2 = 1 /\ b < 2 * H + 2
  <2>1. CASE H = 0
    BY <1>3, <1>5, <2>1
  <2>2. CASE H = 1
    BY <1>3, <1>5, <2>2
  <2>3. CASE H = 2
    BY <1>3, <1>5, <2>3
  <2> QED  BY <1>1, <2>1, <2>2, <2>3
<1> QED  BY <1>7, <1>8, <1>9, <1>10 DEF H

(* How the parts of a form written with a scheme read.  A single letter with a *)
(* capital first letter reads as a part in capitals.                           *)
LEMMA WrittenRead ==
  ASSUME NEW f \in Forms, NEW s, NParts(s) = Hyphens(f) + 1,
         NEW w, w = SetCapScheme(f, s), NEW p \in 0 .. Hyphens(f)
  PROVE  /\ Hyphens(w) = Hyphens(f)
         /\ 2 * p + 1 \in s => Reading(w, p) = "capitals"
         /\ 2 * p \notin s /\ 2 * p + 1 \notin s => Reading(w, p) = "small"
         /\ 2 * p \in s /\ 2 * p + 1 \notin s =>
              \/ Reading(w, p) = "capital"
              \/ Reading(w, p) = "capitals" /\ \E i \in DOMAIN f : Letters(f, p) = {i}
<1>1. /\ f \in Seq(Kinds) /\ (\A i \in 1 .. Len(f) : f[i] \in {"a", "-"}) /\ Letters(f, p) # {}
  BY FormTyped, Zenon
<1>2. Len(f) \in Nat /\ DOMAIN f = 1 .. Len(f) /\ Hyphens(f) \in Nat
  BY <1>1, PartsOfWord
<1>3. /\ w \in Seq(Kinds) /\ Len(w) = Len(f)
      /\ \A i \in 1 .. Len(f) :
           /\ w[i] = IF /\ PartOf(f, i) < NParts(s)
                        /\ 2 * PartOf(f, i) + 1 \in s \/ (2 * PartOf(f, i) \in s /\ FirstInPart(f, i))
                       THEN Upper(f[i]) ELSE f[i]
           /\ w[i] = "-" <=> f[i] = "-"
  BY <1>1, SetTyped
<1>4. DOMAIN w = 1 .. Len(f)
  BY <1>2, <1>3, PartsOfWord
<1>5. ASSUME NEW i \in 1 .. Len(f) + 1  PROVE PartOf(w, i) = PartOf(f, i)
  <2>1. i \in Nat /\ \A j \in 1 .. i - 1 : j \in 1 .. Len(f)
    BY <1>2
  <2> QED  BY <1>3, <2>1, PartAlike
<1>6. Hyphens(w) = Hyphens(f)
  <2>1. Len(f) + 1 \in 1 .. Len(f) + 1
    BY <1>2
  <2> QED  BY <1>3, <1>5, <2>1, Zenon DEF Hyphens
<1>7. \A i \in 1 .. Len(f) : i \in 1 .. Len(f) + 1
  BY <1>2
<1>8. ASSUME NEW i \in 1 .. Len(f)  PROVE FirstInPart(w, i) <=> FirstInPart(f, i)
  <2>1. i = 1 \/ i - 1 \in 1 .. Len(f)
    BY <1>2
  <2> QED  BY <1>3, <2>1, Zenon DEF FirstInPart
<1> DEFINE L == Letters(w, p)
<1>9. L = Letters(f, p)
  BY <1>2, <1>3, <1>4, <1>5, <1>7, Zenon DEF Letters
<1>10. L # {} /\ \A i \in L : i \in 1 .. Len(f) /\ f[i] = "a" /\ PartOf(f, i) = p
  <2>1. \A i \in Letters(f, p) : i \in 1 .. Len(f) /\ f[i] # "-" /\ PartOf(f, i) = p
    BY <1>2, Zenon DEF Letters
  <2> QED  BY <1>1, <1>9, <2>1
<1> HIDE DEF L
<1>11. p < NParts(s) /\ Upper("a") = "A"
  BY <1>2 DEF Upper
<1>12. \A i \in L : w[i] = IF 2 * p + 1 \in s \/ (2 * p \in s /\ FirstInPart(w, i)) THEN "A" ELSE "a"
  BY <1>3, <1>8, <1>10, <1>11, Zenon
<1>13. ASSUME 2 * p + 1 \in s  PROVE Reading(w, p) = "capitals"
  <2>1. \A i \in L : w[i] = "A"
    BY <1>12, <1>13, Zenon
  <2> QED  BY <1>10, <2>1, ReadingTold, Zenon DEF L
<1>14. ASSUME 2 * p \notin s, 2 * p + 1 \notin s  PROVE Reading(w, p) = "small"
  <2>1. \A i \in L : w[i] = "a"
    BY <1>12, <1>14, Zenon
  <2> QED  BY <1>10, <2>1, ReadingTold, Zenon DEF L
<1>15. ASSUME 2 * p \in s, 2 * p + 1 \notin s
       PROVE  \/ Reading(w, p) = "capital"
              \/ Reading(w, p) = "capitals" /\ \E i \in DOMAIN f : Letters(f, p) = {i}
  <2>1. PICK h \in L : FirstInPart(w, h)
    BY <1>3, <1>10, HasFirst, Zenon DEF L
  <2>2. w[h] = "A"
    BY <1>12, <1>15, <2>1, Zenon
  <2>3. \A i \in L : ~FirstInPart(w, i) => w[i] = "a"
    BY <1>12, <1>15, Zenon
  <2>4. CASE \E i \in L : ~FirstInPart(w, i)
    <3>1. \E i \in L : w[i] = "A"
      BY <2>1, <2>2, Zenon
    <3>2. L = Letters(w, p)
      BY DEF L
    <3>3. Reading(w, p) = "capital"
      BY <2>3, <2>4, <3>1, <3>2, ReadingTold
    <3> QED  BY <3>3
  <2>5. CASE \A i \in L : FirstInPart(w, i)
    <3>1. \A i \in L : i = h
      BY <1>3, <2>1, <2>5, FirstsAgree, Zenon DEF L
    <3>2. L = {h}
      BY <2>1, <3>1
    <3>3. \A i \in L : w[i] = "A"
      BY <2>2, <3>1, Zenon
    <3>4. Reading(w, p) = "capitals"
      BY <1>10, <3>3, ReadingTold, Zenon DEF L
    <3>5. h \in DOMAIN f /\ Letters(f, p) = {h}
      BY <1>2, <1>9, <1>10, <2>1, <3>2, Zenon
    <3> QED  BY <3>4, <3>5, Zenon
  <2> QED  BY <2>4, <2>5, Zenon
<1> QED  BY <1>6, <1>13, <1>14, <1>15, Zenon

(* The library writes a form as the stem may be written, but for a name of     *)
(* more than one part one of which is a single letter.                         *)
LEMMA WrittenMay ==
  ASSUME NEW f \in Forms, Hyphens(f) <= 2, NEW m \in 0 .. 2,
         NEW w, w = SetCapScheme(f, GetMinScheme(m, f, 0)),
         ~(/\ m = 1 /\ Hyphens(f) > 0
           /\ \E p \in 0 .. Hyphens(f), i \in DOMAIN f : Letters(f, p) = {i})
  PROVE  MayBeWritten(Readings(w), m)
<1> DEFINE H == Hyphens(f)
           s == GetMinScheme(m, f, 0)
           r == Readings(w)
<1>1. f \in Seq(Kinds)
  BY FormTyped, Zenon
<1>2. H \in 0 .. 2
  <2>1. H \in Nat
    BY <1>1, PartsOfWord
  <2> QED  BY <2>1
<1>3. /\ NParts(s) = H + 1
      /\ m = 0 => \A b \in 0 .. 7 : b \notin s
      /\ m = 1 => \A b \in 0 .. 7 : b \in s <=> b = 0 \/ b = 2 * H
      /\ m = 2 => \A b \in 0 .. 7 : b \in s <=> b % 2 = 1 /\ b < 2 * H + 2
  BY <1>1, LeastScheme, Zenon
<1>4. \A p \in 0 .. H :
        /\ 2 * p + 1 \in s => Reading(w, p) = "capitals"
        /\ 2 * p \notin s /\ 2 * p + 1 \notin s => Reading(w, p) = "small"
        /\ 2 * p \in s /\ 2 * p + 1 \notin s =>
             \/ Reading(w, p) = "capital"
             \/ Reading(w, p) = "capitals" /\ \E i \in DOMAIN f : Letters(f, p) = {i}
  <2>1. w = SetCapScheme(f, s)
    OBVIOUS
  <2>2. NParts(s) = Hyphens(f) + 1
    BY <1>3
  <2> HIDE DEF s
  <2> QED  BY <2>1, <2>2, WrittenRead
<1>5. w \in Seq(Kinds) /\ Hyphens(w) = H
  <2>1. 0 \in 0 .. H
    BY <1>2
  <2> QED  BY <1>1, <1>3, <2>1, SetTyped, WrittenRead, Zenon
<1>6. /\ r \in Seq(Read) /\ Len(r) = H + 1
      /\ \A p \in 0 .. H : r[p + 1] = Reading(w, p)
  BY <1>5, ReadingsTyped, Zenon
<1> HIDE DEF H, s, r
<1>7. \A p \in 0 .. H : 2 * p \in 0 .. 7 /\ 2 * p + 1 \in 0 .. 7 /\ p + 1 \in 1 .. H + 1
  BY <1>2
<1>8. CASE m = 0
  <2>1. \A p \in 0 .. H : r[p + 1] = "small"
    BY <1>3, <1>4, <1>6, <1>7, <1>8, Zenon
  <2>2. /\ H = 0 => r[1] = "small"
        /\ H = 1 => r[1] = "small" /\ r[2] = "small"
        /\ H = 2 => r[1] = "small" /\ r[2] = "small" /\ r[3] = "small"
    BY <2>1
  <2>3. /\ H = 0 => Len(r) = 1
        /\ H = 1 => Len(r) = 2
        /\ H = 2 => Len(r) = 3
        /\ H = 0 \/ H = 1 \/ H = 2
    BY <1>2, <1>6
  <2> QED  BY <1>6, <1>8, <2>2, <2>3, MayOf DEF r
<1>9. CASE m = 1
  <2>1. \A p \in 0 .. H : 2 * p + 1 \notin s
    BY <1>2, <1>3, <1>7, <1>9
  <2>2. \A p \in 0 .. H : 2 * p \in s <=> p = 0 \/ p = H
    BY <1>2, <1>3, <1>7, <1>9
  <2>3. \A p \in 0 .. H : p # 0 /\ p # H => r[p + 1] = "small"
    BY <1>4, <1>6, <2>1, <2>2, Zenon
  <2>4. \A p \in 0 .. H : p = 0 \/ p = H =>
          \/ r[p + 1] = "capital"
          \/ r[p + 1] = "capitals" /\ \E i \in DOMAIN f : Letters(f, p) = {i}
    BY <1>4, <1>6, <2>1, <2>2, Zenon
  <2>5. CASE H = 0
    <3>1. r[1] = "capital" \/ r[1] = "capitals"
      <4>1. 0 \in 0 .. H /\ 0 + 1 = 1
        BY <2>5
      <4> QED  BY <2>4, <4>1
    <3>2. Len(r) = 1 /\ m <= 1 /\ m \in 0 .. 2
      BY <1>6, <1>9, <2>5
    <3> QED  BY <1>6, <3>1, <3>2, MayOf DEF r
  <2>6. CASE H > 0
    <3>1. ~(\E p \in 0 .. H, i \in DOMAIN f : Letters(f, p) = {i})
      BY <1>9, <2>6, Zenon DEF H
    <3>2. \A p \in 0 .. H : p = 0 \/ p = H => r[p + 1] = "capital"
      BY <2>4, <3>1, Zenon
    <3>3. /\ H = 1 => r[1] = "capital" /\ r[2] = "capital"
          /\ H = 2 => r[1] = "capital" /\ r[2] = "small" /\ r[3] = "capital"
      BY <2>3, <3>2
    <3>4. /\ H = 1 => Len(r) = 2
          /\ H = 2 => Len(r) = 3
          /\ H = 1 \/ H = 2
          /\ m <= 1
      BY <1>2, <1>6, <1>9, <2>6
    <3> QED  BY <1>6, <3>3, <3>4, MayOf, Zenon DEF r
  <2> QED  BY <1>2, <2>5, <2>6
<1>10. CASE m = 2
  <2>1. \A p \in 0 .. H : 2 * p + 1 \in s
    <3>1. \A p \in 0 .. H : (2 * p + 1) % 2 = 1 /\ 2 * p + 1 < 2 * H + 2
      BY <1>2
    <3> QED  BY <1>3, <1>7, <1>10, <3>1, Zenon
  <2>2. \A p \in 0 .. H : r[p + 1] = "capitals"
    BY <1>4, <1>6, <2>1, Zenon
  <2>3. /\ H = 0 => r[1] = "capitals"
        /\ H = 1 => r[1] = "capitals" /\ r[2] = "capitals"
        /\ H = 2 => r[1] = "capitals" /\ r[2] = "capitals" /\ r[3] = "capitals"
    BY <2>2
  <2>4. /\ H = 0 => Len(r) = 1
        /\ H = 1 => Len(r) = 2
        /\ H = 2 => Len(r) = 3
        /\ H = 0 \/ H = 1 \/ H = 2
    BY <1>2, <1>6
  <2> QED  BY <1>6, <2>3, <2>4, MayOf, Zenon DEF r
<1> QED  BY <1>8, <1>9, <1>10

(* A form the library writes itself is accepted when it is looked up, and read *)
(* as the form the dictionary built: for every form of up to three parts, but  *)
(* for a name of several parts with a single letter among them                 *)
(* (lemmatiz.cpp:117, 255; capsheme.cpp:147-190).                              *)
THEOREM OwnForms == Spec => []OwnFormsAccepted
<1>1. CapInv => OwnFormsAccepted
  <2> SUFFICES ASSUME CapInv, pc = "judged", result # TooLong, stem # NoStem
               PROVE  /\ output = stem.form
                      /\ \/ Hyphens(stem.form) > 2
                         \/ /\ stem.minCap = 1 /\ Hyphens(stem.form) > 0
                            /\ \E p \in 0 .. Hyphens(stem.form), i \in DOMAIN stem.form :
                                 Letters(stem.form, p) = {i}
                         \/ IsGoodSheme(result, stem.minCap)
    BY Zenon DEF OwnFormsAccepted
  <2> DEFINE f == stem.form
             m == stem.minCap
  <2>1. f \in Forms /\ m \in 0 .. 2 /\ word = SetCapScheme(f, GetMinScheme(m, f, 0))
    BY DEF CapInv, Written
  <2>2. f \in Seq(Kinds) /\ \A i \in 1 .. Len(f) : f[i] \in {"a", "-"}
    BY <2>1, FormTyped, Zenon
  <2>3. /\ word \in Seq(Kinds) /\ output \in Seq(Kinds) /\ Len(word) \in Nat /\ size \in Nat
    BY Here DEF CapInv
  <2>4. Len(word) < size /\ Len(output) = Len(word)
    <3>1. ~(Len(word) >= size)
      BY Zenon DEF CapInv, Told
    <3> QED  BY <2>3, <3>1 DEF CapInv, Told
  <2> HIDE DEF f, m
  <2>5. /\ Len(word) = Len(f)
        /\ \A i \in 1 .. Len(f) : word[i] \in {f[i], Upper(f[i])}
    BY <2>1, <2>2, SetTyped, Zenon
  <2>6. output = f
    <3>1. \A i \in 1 .. Len(output) : output[i] = f[i]
      <4> TAKE i \in 1 .. Len(output)
      <4>1. output[i] = Lower(word[i]) /\ word[i] \in {f[i], Upper(f[i])} /\ f[i] \in {"a", "-"}
        BY <2>2, <2>4, <2>5 DEF CapInv, Copied
      <4> QED  BY <4>1 DEF Lower, Upper
    <3> QED  BY <2>2, <2>3, <2>4, <2>5, <3>1, SeqEqual
  <2>7. ASSUME ~(Hyphens(f) > 2),
               ~(/\ m = 1 /\ Hyphens(f) > 0
                 /\ \E p \in 0 .. Hyphens(f), i \in DOMAIN f : Letters(f, p) = {i})
        PROVE  IsGoodSheme(result, m)
    <3>1. Hyphens(f) <= 2
      <4>1. Hyphens(f) \in Nat
        BY <2>2, PartsOfWord
      <4> QED  BY <2>7, <4>1
    <3>2. MayBeWritten(Readings(word), m)
      BY <2>1, <2>7, <3>1, WrittenMay, Zenon
    <3> QED  BY <2>1, <2>4, <3>2, VerdictTold, Zenon
  <2> QED  BY <2>6, <2>7, Zenon DEF f, m
<1> QED  BY <1>1, CapInvariant, PTL

================================================================================
