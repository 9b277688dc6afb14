------------------------------ MODULE TextLemmas ------------------------------
(***************************************************************************)
(* What the proofs of several modules need to know: least and greatest     *)
(* elements; how a text is split into a prefix and the rest, or into the   *)
(* rest and a postfix; the order of texts and the bounds of a stem         *)
(* (StemEntries); that a definition by recursion has a solution; and that  *)
(* a finite set can be put in order.                                       *)
(***************************************************************************)
EXTENDS StemEntries, SequenceTheorems, FiniteSetTheorems, WellFoundedInduction, TLAPS

(* A set of natural numbers that is not empty has a least one. *)
LEMMA LeastNat ==
  ASSUME NEW T, T \subseteq Nat, T # {}
  PROVE  \E x \in T : \A y \in T : x <= y
<1> DEFINE R == OpToRel(<, Nat)
<1>1. PICK x \in T : \A y \in T : ~ (<<y, x>> \in R)
  <2>1. IsWellFoundedOn(R, Nat)
    BY NatLessThanWellFounded, Zenon
  <2> HIDE DEF R
  <2> QED  BY <2>1, WFMin, Zenon
<1>2. \A y \in T : ~ (y < x)
  <2> SUFFICES ASSUME NEW y \in T, y < x  PROVE FALSE
    OBVIOUS
  <2>1. <<y, x>> \in R
    BY Zenon DEF OpToRel
  <2> QED  BY <1>1, <2>1
<1> QED  BY <1>2

(* A set of natural numbers that is not empty and has a bound has a greatest. *)
LEMMA GreatestNat ==
  ASSUME NEW bound \in Nat, NEW T, T \subseteq 0 .. bound, T # {}
  PROVE  \E x \in T : \A y \in T : y <= x
<1> DEFINE D == {d \in 0 .. bound : bound - d \in T}
<1>1. D \subseteq Nat
  OBVIOUS
<1>2. D # {}
  <2>1. PICK x \in T : TRUE
    OBVIOUS
  <2>2. bound - x \in D
    OBVIOUS
  <2> QED  BY <2>2
<1>3. PICK d \in D : \A y \in D : d <= y
  <2> HIDE DEF D
  <2> QED  BY <1>1, <1>2, LeastNat
<1>4. bound - d \in T
  OBVIOUS
<1>5. \A y \in T : y <= bound - d
  <2> SUFFICES ASSUME NEW y \in T  PROVE y <= bound - d
    OBVIOUS
  <2>1. bound - y \in D
    OBVIOUS
  <2> QED  BY <1>3, <2>1
<1> QED  BY <1>4, <1>5

-------------------------------------------------------------------------------

(* A text is a prefix of another when it agrees with it to its own end. *)
LEMMA PrefixAgrees ==
  ASSUME NEW S, NEW s \in Seq(S), NEW t \in Seq(S)
  PROVE  IsPrefix(s, t) <=> Len(s) <= Len(t) /\ \A i \in 1 .. Len(s) : s[i] = t[i]
<1>1. SUFFICES ASSUME Len(s) <= Len(t)
               PROVE  SubSeq(s, 1, Len(s)) = SubSeq(t, 1, Len(s))
                        <=> \A i \in 1 .. Len(s) : s[i] = t[i]
  BY DEF IsPrefix
<1>2. SubSeq(s, 1, Len(s)) = s
  BY SubSeqFull
<1>3. /\ SubSeq(t, 1, Len(s)) \in Seq(S) /\ Len(SubSeq(t, 1, Len(s))) = Len(s)
      /\ \A i \in 1 .. Len(s) : SubSeq(t, 1, Len(s))[i] = t[i]
  <2>1. \A i \in 1 .. Len(s) : t[i] \in S
    BY <1>1
  <2> QED  BY <2>1, SubSeqProperties
<1> QED  BY <1>2, <1>3, SeqEqual

(* A text is its prefix and what is left behind it. *)
LEMMA PrefixSplits ==
  ASSUME NEW S, NEW s \in Seq(S), NEW t \in Seq(S), IsPrefix(s, t)
  PROVE  /\ SubSeq(t, Len(s) + 1, Len(t)) \in Seq(S)
         /\ t = s \o SubSeq(t, Len(s) + 1, Len(t))
<1>1. Len(s) <= Len(t) /\ SubSeq(t, 1, Len(s)) = s
  BY SubSeqFull DEF IsPrefix
<1>2. SubSeq(t, Len(s) + 1, Len(t)) \in Seq(S)
  <2>1. \A i \in Len(s) + 1 .. Len(t) : t[i] \in S
    OBVIOUS
  <2> QED  BY <2>1, SubSeqProperties
<1>3. SubSeq(t, 1, Len(s)) \o SubSeq(t, Len(s) + 1, Len(t)) = SubSeq(t, 1, Len(t))
  <2>1. 1 \in 1 .. Len(t) + 1 /\ Len(s) \in 1 - 1 .. Len(t) /\ Len(t) \in Len(s) .. Len(t)
    BY <1>1
  <2> QED  BY <2>1, ConcatAdjacentSubSeq, Zenon
<1>4. SubSeq(t, 1, Len(t)) = t
  BY SubSeqFull
<1> QED  BY <1>1, <1>2, <1>3, <1>4

(* The first of two texts put together is a prefix, the second is what is left. *)
LEMMA ConcatSplits ==
  ASSUME NEW S, NEW s \in Seq(S), NEW t \in Seq(S)
  PROVE  /\ IsPrefix(s, s \o t)
         /\ SubSeq(s \o t, Len(s) + 1, Len(s \o t)) = t
         /\ SubSeq(s \o t, 1, Len(s \o t) - Len(t)) = s
<1>1. /\ s \o t \in Seq(S) /\ Len(s \o t) = Len(s) + Len(t)
      /\ \A i \in 1 .. Len(s) + Len(t) : (s \o t)[i] = IF i <= Len(s) THEN s[i] ELSE t[i - Len(s)]
  BY ConcatProperties
<1> DEFINE u == s \o t
<1> HIDE DEF u
<1>2. IsPrefix(s, u)
  <2>1. u \in Seq(S) /\ Len(s) <= Len(u) /\ \A i \in 1 .. Len(s) : s[i] = u[i]
    BY <1>1 DEF u
  <2> QED  BY <2>1, PrefixAgrees, Zenon
<1>3. SubSeq(u, Len(s) + 1, Len(u)) \in Seq(S) /\ u = s \o SubSeq(u, Len(s) + 1, Len(u))
  BY <1>1, <1>2, PrefixSplits DEF u
<1>4. SubSeq(u, Len(s) + 1, Len(u)) = t
  BY <1>3, ConcatSimplifications DEF u
<1>5. SubSeq(u, 1, Len(s)) = SubSeq(s, 1, Len(s))
  BY <1>2 DEF IsPrefix
<1>6. SubSeq(s, 1, Len(s)) = s /\ Len(u) - Len(t) = Len(s)
  BY <1>1, SubSeqFull DEF u
<1> QED  BY <1>2, <1>4, <1>5, <1>6 DEF u

(* A text that ends with a postfix is what is left before it and the postfix. *)
LEMMA SuffixSplits ==
  ASSUME NEW S, NEW p \in Seq(S), NEW t \in Seq(S), IsSuffix(p, t)
  PROVE  /\ Len(p) <= Len(t)
         /\ SubSeq(t, 1, Len(t) - Len(p)) \in Seq(S)
         /\ t = SubSeq(t, 1, Len(t) - Len(p)) \o p
<1> DEFINE n == Len(t) - Len(p)
           q == SubSeq(t, 1, n)
<1>1. /\ Reverse(p) \in Seq(S) /\ Len(Reverse(p)) = Len(p)
      /\ \A i \in 1 .. Len(p) : Reverse(p)[i] = p[(Len(p) - i) + 1]
  BY DEF Reverse
<1>2. /\ Reverse(t) \in Seq(S) /\ Len(Reverse(t)) = Len(t)
      /\ \A i \in 1 .. Len(t) : Reverse(t)[i] = t[(Len(t) - i) + 1]
  BY DEF Reverse
<1>3. Len(p) <= Len(t) /\ \A i \in 1 .. Len(p) : Reverse(p)[i] = Reverse(t)[i]
  BY <1>1, <1>2, PrefixAgrees DEF IsSuffix
<1>4. \A j \in 1 .. Len(p) : p[j] = t[n + j]
  <2> SUFFICES ASSUME NEW j \in 1 .. Len(p)  PROVE p[j] = t[n + j]
    OBVIOUS
  <2>1. (Len(p) - j) + 1 \in 1 .. Len(p) /\ (Len(p) - j) + 1 \in 1 .. Len(t)
    BY <1>3
  <2>2. Reverse(p)[(Len(p) - j) + 1] = p[j]
    BY <1>1, <2>1
  <2>3. Reverse(t)[(Len(p) - j) + 1] = t[n + j]
    BY <1>2, <2>1
  <2> QED  BY <1>3, <2>1, <2>2, <2>3
<1>5. q \in Seq(S) /\ Len(q) = n /\ \A i \in 1 .. n : q[i] = t[i]
  <2>1. \A i \in 1 .. n : t[i] \in S
    OBVIOUS
  <2>2. n \in Int /\ n >= 0
    BY <1>3
  <2> HIDE DEF n
  <2>3. /\ SubSeq(t, 1, n) \in Seq(S)
        /\ Len(SubSeq(t, 1, n)) = IF 1 <= n THEN n - 1 + 1 ELSE 0
        /\ \A i \in 1 .. n - 1 + 1 : SubSeq(t, 1, n)[i] = t[1 + i - 1]
    BY <2>1, <2>2, SubSeqProperties
  <2> QED  BY <2>2, <2>3
<1>6. /\ q \o p \in Seq(S) /\ Len(q \o p) = Len(t)
      /\ \A i \in 1 .. Len(t) : (q \o p)[i] = IF i <= n THEN q[i] ELSE p[i - n]
  <2> HIDE DEF q
  <2> QED  BY <1>5, ConcatProperties
<1>7. \A i \in 1 .. Len(t) : (q \o p)[i] = t[i]
  <2> HIDE DEF q
  <2> SUFFICES ASSUME NEW i \in 1 .. Len(t)  PROVE (q \o p)[i] = t[i]
    OBVIOUS
  <2>1. CASE i <= n
    <3>1. i \in 1 .. n
      BY <2>1
    <3>2. q[i] = t[i]
      BY <1>5, <3>1, Zenon
    <3>3. (q \o p)[i] = q[i]
      BY <1>6, <2>1
    <3> QED  BY <3>2, <3>3
  <2>2. CASE i > n
    <3>1. i - n \in 1 .. Len(p)
      BY <2>2
    <3>2. n + (i - n) = i
      OBVIOUS
    <3>3. p[i - n] = t[i]
      BY <1>4, <3>1, <3>2, Zenon
    <3>4. (q \o p)[i] = p[i - n]
      BY <1>6, <2>2
    <3> QED  BY <3>3, <3>4, Zenon
  <2>3. i <= n \/ i > n
    BY <1>3
  <2> QED  BY <2>1, <2>2, <2>3, Zenon
<1> HIDE DEF q
<1>8. q \o p = t
  BY <1>6, <1>7, SeqEqual
<1> QED  BY <1>3, <1>5, <1>8 DEF q

(* Two texts put together end with the second. *)
LEMMA ConcatEnds ==
  ASSUME NEW S, NEW s \in Seq(S), NEW p \in Seq(S)
  PROVE  IsSuffix(p, s \o p)
<1> DEFINE t == s \o p
<1>1. /\ t \in Seq(S) /\ Len(t) = Len(s) + Len(p)
      /\ \A i \in 1 .. Len(s) + Len(p) : t[i] = IF i <= Len(s) THEN s[i] ELSE p[i - Len(s)]
  BY ConcatProperties
<1> HIDE DEF t
<1>2. /\ Reverse(p) \in Seq(S) /\ Len(Reverse(p)) = Len(p)
      /\ \A i \in 1 .. Len(p) : Reverse(p)[i] = p[(Len(p) - i) + 1]
  BY DEF Reverse
<1>3. /\ Reverse(t) \in Seq(S) /\ Len(Reverse(t)) = Len(t)
      /\ \A i \in 1 .. Len(t) : Reverse(t)[i] = t[(Len(t) - i) + 1]
  BY <1>1 DEF Reverse
<1>4. \A i \in 1 .. Len(p) : Reverse(p)[i] = Reverse(t)[i]
  <2> SUFFICES ASSUME NEW i \in 1 .. Len(p)  PROVE Reverse(p)[i] = Reverse(t)[i]
    OBVIOUS
  <2>1. i \in 1 .. Len(t) /\ (Len(t) - i) + 1 \in 1 .. Len(s) + Len(p) /\ (Len(t) - i) + 1 > Len(s)
    BY <1>1
  <2>2. t[(Len(t) - i) + 1] = p[(Len(t) - i) + 1 - Len(s)]
    BY <1>1, <2>1
  <2>3. (Len(t) - i) + 1 - Len(s) = (Len(p) - i) + 1
    BY <1>1
  <2> QED  BY <1>2, <1>3, <2>1, <2>2, <2>3
<1>5. IsPrefix(Reverse(p), Reverse(t))
  <2>1. Len(Reverse(p)) <= Len(Reverse(t)) /\ \A i \in 1 .. Len(Reverse(p)) : Reverse(p)[i] = Reverse(t)[i]
    BY <1>1, <1>2, <1>3, <1>4
  <2> QED  BY <1>2, <1>3, <2>1, PrefixAgrees, Zenon
<1> QED  BY <1>5 DEF IsSuffix, t

-------------------------------------------------------------------------------

(* Inserting keeps what was there, in its order, and moves what is behind. *)
LEMMA InsertedIsRight ==
  ASSUME NEW S, NEW s \in Seq(S), NEW p \in 1 .. Len(s) + 1, NEW e \in S
  PROVE  /\ InsertAt(s, p, e) \in Seq(S)
         /\ Len(InsertAt(s, p, e)) = Len(s) + 1
         /\ \A j \in 1 .. Len(s) + 1 :
              InsertAt(s, p, e)[j] = IF j < p THEN s[j] ELSE IF j = p THEN e ELSE s[j - 1]
<1> DEFINE a == SubSeq(s, 1, p - 1)
           b == SubSeq(s, p, Len(s))
<1>1. a \in Seq(S) /\ Len(a) = p - 1 /\ \A i \in 1 .. p - 1 : a[i] = s[i]
  <2>1. \A i \in 1 .. p - 1 : s[i] \in S
    OBVIOUS
  <2> QED  BY <2>1, SubSeqProperties
<1>2. b \in Seq(S) /\ Len(b) = Len(s) - p + 1 /\ \A i \in 1 .. Len(s) - p + 1 : b[i] = s[p + i - 1]
  <2>1. \A i \in p .. Len(s) : s[i] \in S
    OBVIOUS
  <2> QED  BY <2>1, SubSeqProperties
<1> HIDE DEF a, b
<1>3. /\ a \o <<e>> \in Seq(S) /\ Len(a \o <<e>>) = p
      /\ \A i \in 1 .. p : (a \o <<e>>)[i] = IF i < p THEN s[i] ELSE e
  BY <1>1
<1> DEFINE c == a \o <<e>>
<1> HIDE DEF c
<1>4. /\ c \o b \in Seq(S) /\ Len(c \o b) = Len(s) + 1
      /\ \A i \in 1 .. Len(s) + 1 : (c \o b)[i] = IF i <= p THEN c[i] ELSE b[i - p]
  <2>1. c \in Seq(S) /\ Len(c) = p
    BY <1>3 DEF c
  <2>2. Len(c) + Len(b) = Len(s) + 1
    BY <1>2, <2>1
  <2>3. /\ c \o b \in Seq(S) /\ Len(c \o b) = Len(c) + Len(b)
        /\ \A i \in 1 .. Len(c) + Len(b) : (c \o b)[i] = IF i <= Len(c) THEN c[i] ELSE b[i - Len(c)]
    BY <1>2, <2>1, ConcatProperties, Zenon
  <2> QED  BY <2>1, <2>2, <2>3, Zenon
<1>5. \A i \in 1 .. Len(s) + 1 :
        (c \o b)[i] = IF i < p THEN s[i] ELSE IF i = p THEN e ELSE s[i - 1]
  <2> SUFFICES ASSUME NEW i \in 1 .. Len(s) + 1
               PROVE  (c \o b)[i] = IF i < p THEN s[i] ELSE IF i = p THEN e ELSE s[i - 1]
    OBVIOUS
  <2>1. CASE i <= p
    <3>1. i \in 1 .. p
      BY <2>1
    <3>2. c[i] = IF i < p THEN s[i] ELSE e
      BY <1>3, <3>1 DEF c
    <3>3. (c \o b)[i] = c[i]
      BY <1>4, <2>1
    <3>4. ~(i < p) => i = p
      BY <2>1
    <3> QED  BY <3>2, <3>3, <3>4, Zenon
  <2>2. CASE i > p
    <3>1. i - p \in 1 .. Len(s) - p + 1 /\ p + (i - p) - 1 = i - 1
      BY <2>2
    <3>2. b[i - p] = s[i - 1]
      BY <1>2, <3>1, Zenon
    <3>3. (c \o b)[i] = b[i - p]
      BY <1>4, <2>2
    <3>4. ~(i < p) /\ i # p
      BY <2>2
    <3> QED  BY <3>2, <3>3, <3>4, Zenon
  <2>3. i <= p \/ i > p
    OBVIOUS
  <2> QED  BY <2>1, <2>2, <2>3, Zenon
<1> QED  BY <1>4, <1>5 DEF InsertAt, a, b, c

(* What is appended is in the sequence, with what was. *)
LEMMA AppendedRange ==
  ASSUME NEW S, NEW s \in Seq(S), NEW c \in S
  PROVE  Range(Append(s, c)) = Range(s) \cup {c}
<1>1. /\ Append(s, c) \in Seq(S) /\ Len(Append(s, c)) = Len(s) + 1 /\ Len(s) \in Nat
      /\ \A i \in 1 .. Len(s) : Append(s, c)[i] = s[i]
      /\ Append(s, c)[Len(s) + 1] = c
  BY AppendProperties, LenProperties
<1>2. Range(s) = {s[i] : i \in 1 .. Len(s)}
  BY RangeEquality
<1>3. Range(Append(s, c)) = {Append(s, c)[i] : i \in 1 .. Len(s) + 1}
  BY <1>1, RangeEquality
<1>4. \A i \in 1 .. Len(s) + 1 : i \in 1 .. Len(s) \/ i = Len(s) + 1
  BY <1>1
<1>5. 1 .. Len(s) \subseteq 1 .. Len(s) + 1 /\ Len(s) + 1 \in 1 .. Len(s) + 1
  BY <1>1
<1> QED  BY <1>1, <1>2, <1>3, <1>4, <1>5, Zenon

-------------------------------------------------------------------------------
(* The letters of a text. *)
LEMMA TextLetters ==
  ASSUME NEW t \in Texts
  PROVE  /\ t \in Seq(1 .. 255) /\ Len(t) \in Nat
         /\ \A i \in 1 .. Len(t) : t[i] \in 1 .. 255 /\ t[i] \in Int
<1>1. t \in Seq(1 .. 255) /\ Len(t) \in Nat
  BY LenProperties DEF Texts
<1>2. \A i \in 1 .. Len(t) : t[i] \in 1 .. 255
  BY <1>1, ElementOfSeq
<1>3. \A i \in 1 .. Len(t) : t[i] \in Int
  <2>1. \A x \in 1 .. 255 : x \in Int
    OBVIOUS
  <2> QED  BY <1>2, <2>1, Zenon
<1> QED  BY <1>1, <1>2, <1>3, Zenon

(* What First finds: the first letter, or 0 where there is none. *)
LEMMA FirstLetter ==
  ASSUME NEW t \in Texts
  PROVE  /\ First(t) \in 0 .. 255
         /\ t # <<>> => 1 \in 1 .. Len(t) /\ First(t) = t[1] /\ First(t) \in 1 .. 255 /\ First(t) # 0
         /\ t = <<>> => First(t) = 0
<1>1. t # <<>> => 1 \in 1 .. Len(t)
  BY TextLetters, EmptySeq
<1>2. t # <<>> => t[1] \in 1 .. 255 /\ t[1] # 0
  <2>1. \A n \in 1 .. 255 : n # 0
    OBVIOUS
  <2> QED  BY <1>1, <2>1, TextLetters, Zenon
<1>3. t # <<>> => First(t) = t[1]
  BY DEF First
<1>4. t = <<>> => First(t) = 0
  BY DEF First
<1>5. First(t) \in 0 .. 255
  <2>1. 0 \in 0 .. 255 /\ \A x \in 1 .. 255 : x \in 0 .. 255
    OBVIOUS
  <2> QED  BY <1>2, <1>3, <1>4, <2>1, Zenon
<1> QED  BY <1>1, <1>2, <1>3, <1>4, <1>5, Zenon

(* A prefix of a text. *)
LEMMA PrefixLetters ==
  ASSUME NEW s \in Texts, NEW t \in Texts, IsPrefix(s, t)
  PROVE  Len(s) <= Len(t) /\ \A i \in 1 .. Len(s) : s[i] = t[i]
<1>1. s \in Seq(1 .. 255) /\ t \in Seq(1 .. 255)
  BY TextLetters
<1> QED  BY <1>1, PrefixAgrees

(* MinOf is the least number of a set that has one. *)
LEMMA LeastOf ==
  ASSUME NEW S, S \subseteq Nat, S # {}
  PROVE  MinOf(S) \in S /\ \A y \in S : MinOf(S) <= y
<1>1. \E x \in S : \A y \in S : x <= y
  BY LeastNat
<1> QED  BY <1>1 DEF MinOf

(* MaxOf is the greatest number of a set of bytes. *)
LEMMA GreatestOf ==
  ASSUME NEW S, S \subseteq 0 .. 255, S # {}
  PROVE  MaxOf(S) \in S /\ \A y \in S : y <= MaxOf(S)
<1>1. \E x \in S : \A y \in S : y <= x
  BY GreatestNat
<1>2. \E x \in S : \A y \in S : x >= y
  BY <1>1
<1> QED  BY <1>2 DEF MaxOf

-------------------------------------------------------------------------------
(* The order of texts. *)

(* Where one text is before another: the first letter they differ in. *)
LEMMA BeforeAt ==
  ASSUME NEW a \in Texts, NEW b \in Texts
  PROVE  Before(a, b) <=>
           \E n \in 0 .. Len(a) :
             /\ n < Len(b) /\ \A i \in 1 .. n : a[i] = b[i]
             /\ n = Len(a) \/ a[n + 1] < b[n + 1]
<1> SUFFICES ASSUME NEW n \in 0 .. Len(a), n < Len(b)
             PROVE  SubSeq(a, 1, n) = SubSeq(b, 1, n) <=> \A i \in 1 .. n : a[i] = b[i]
  BY DEF Before
<1>1. /\ a \in Seq(1 .. 255) /\ Len(a) \in Nat
      /\ b \in Seq(1 .. 255) /\ Len(b) \in Nat
  BY TextLetters
<1>2. /\ SubSeq(a, 1, n) \in Seq(1 .. 255) /\ Len(SubSeq(a, 1, n)) = n
      /\ \A i \in 1 .. n : SubSeq(a, 1, n)[i] = a[i]
  <2>1. \A i \in 1 .. n : a[i] \in 1 .. 255
    BY <1>1, TextLetters
  <2> QED  BY <1>1, <2>1, SubSeqProperties
<1>3. /\ SubSeq(b, 1, n) \in Seq(1 .. 255) /\ Len(SubSeq(b, 1, n)) = n
      /\ \A i \in 1 .. n : SubSeq(b, 1, n)[i] = b[i]
  <2>1. \A i \in 1 .. n : b[i] \in 1 .. 255
    BY <1>1, TextLetters
  <2> QED  BY <1>1, <2>1, SubSeqProperties
<1> QED  BY <1>2, <1>3, SeqEqual

(* The order of the rows is transitive. *)
LEMMA BeforeTransitive ==
  ASSUME NEW a \in Texts, NEW b \in Texts, NEW c \in Texts, Before(a, b), Before(b, c)
  PROVE  Before(a, c)
<1>1. PICK m \in 0 .. Len(a) : /\ m < Len(b) /\ \A i \in 1 .. m : a[i] = b[i]
                               /\ m = Len(a) \/ a[m + 1] < b[m + 1]
  BY BeforeAt
<1>2. PICK n \in 0 .. Len(b) : /\ n < Len(c) /\ \A i \in 1 .. n : b[i] = c[i]
                               /\ n = Len(b) \/ b[n + 1] < c[n + 1]
  BY BeforeAt
<1>3. /\ Len(a) \in Nat /\ \A i \in 1 .. Len(a) : a[i] \in Int
      /\ Len(b) \in Nat /\ \A i \in 1 .. Len(b) : b[i] \in Int
      /\ Len(c) \in Nat /\ \A i \in 1 .. Len(c) : c[i] \in Int
  BY TextLetters, Zenon
<1>4. CASE m < n
  <2>1. \A i \in 1 .. m : a[i] = c[i]
    BY <1>1, <1>2, <1>4
  <2>2. b[m + 1] = c[m + 1]
    BY <1>2, <1>4
  <2> QED  BY <1>1, <1>2, <1>4, <2>1, <2>2, BeforeAt
<1>5. CASE m = n
  <2>1. \A i \in 1 .. m : a[i] = c[i]
    BY <1>1, <1>2, <1>5
  <2>2. b[m + 1] < c[m + 1]
    BY <1>1, <1>2, <1>3, <1>5
  <2>3. m = Len(a) \/ a[m + 1] < c[m + 1]
    BY <1>1, <1>2, <1>3, <1>5, <2>2
  <2> QED  BY <1>1, <1>2, <1>5, <2>1, <2>3, BeforeAt
<1>6. CASE n < m
  <2>1. \A i \in 1 .. n : a[i] = c[i]
    BY <1>1, <1>2, <1>6
  <2>2. a[n + 1] < c[n + 1] /\ n \in 0 .. Len(a)
    BY <1>1, <1>2, <1>3, <1>6
  <2> QED  BY <1>2, <2>1, <2>2, BeforeAt
<1> QED  BY <1>3, <1>4, <1>5, <1>6

(* A text the rest of a word is before is no prefix of it. *)
LEMMA BeforeNoPrefix ==
  ASSUME NEW a \in Texts, NEW b \in Texts, Before(a, b)
  PROVE  ~IsPrefix(b, a)
<1>1. PICK n \in 0 .. Len(a) : /\ n < Len(b) /\ \A i \in 1 .. n : a[i] = b[i]
                               /\ n = Len(a) \/ a[n + 1] < b[n + 1]
  BY BeforeAt
<1>2. /\ a \in Seq(1 .. 255) /\ Len(a) \in Nat /\ \A i \in 1 .. Len(a) : a[i] \in Int
      /\ b \in Seq(1 .. 255) /\ Len(b) \in Nat /\ \A i \in 1 .. Len(b) : b[i] \in Int
  BY TextLetters, Zenon
<1> SUFFICES ASSUME IsPrefix(b, a)  PROVE FALSE
  OBVIOUS
<1>3. Len(b) <= Len(a) /\ \A i \in 1 .. Len(b) : b[i] = a[i]
  BY PrefixLetters
<1>4. n + 1 \in 1 .. Len(b)
  BY <1>1, <1>2
<1> QED  BY <1>1, <1>2, <1>3, <1>4

(* Of two prefixes of one text, one before the other, the second is longer. *)
LEMMA PrefixesGrow ==
  ASSUME NEW a \in Texts, NEW b \in Texts, NEW t \in Texts,
         Before(a, b), IsPrefix(a, t), IsPrefix(b, t)
  PROVE  Len(a) < Len(b)
<1>1. PICK n \in 0 .. Len(a) : /\ n < Len(b) /\ \A i \in 1 .. n : a[i] = b[i]
                               /\ n = Len(a) \/ a[n + 1] < b[n + 1]
  BY BeforeAt
<1>2. /\ a \in Seq(1 .. 255) /\ Len(a) \in Nat /\ \A i \in 1 .. Len(a) : a[i] \in Int
      /\ b \in Seq(1 .. 255) /\ Len(b) \in Nat /\ \A i \in 1 .. Len(b) : b[i] \in Int
      /\ t \in Seq(1 .. 255)
  BY TextLetters, Zenon
<1>3. /\ \A i \in 1 .. Len(a) : a[i] = t[i]
      /\ \A i \in 1 .. Len(b) : b[i] = t[i]
  BY PrefixLetters
<1> QED  BY <1>1, <1>2, <1>3

-------------------------------------------------------------------------------
(* The bounds of a stem. *)

(* The first letters of a stem's endings and of its rows are characters or 0. *)
LEMMA FirstsAreCodes ==
  ASSUME NEW e \in StemEntry
  PROVE  /\ FlexChars(e) \subseteq 0 .. 255 /\ (Flective(e) => FlexChars(e) # {})
         /\ MixChars(e) \subseteq 0 .. 255 /\ (Mixes(e) => MixChars(e) # {})
<1>1. /\ e.endings \subseteq Ending /\ e.mix \in Seq(MixRow)
      /\ \A i \in DOMAIN e.mix : e.mix[i] \in MixRow
  BY DEF StemEntry
<1>2. FlexChars(e) \subseteq 0 .. 255
  BY <1>1, FirstLetter DEF FlexChars, Ending
<1>3. Flective(e) => FlexChars(e) # {}
  BY DEF Flective, FlexChars
<1>4. MixChars(e) \subseteq 0 .. 255
  BY <1>1, FirstLetter DEF MixChars, MixRow
<1>5. Mixes(e) => MixChars(e) # {}
  <2> SUFFICES ASSUME Mixes(e)  PROVE MixChars(e) # {}
    OBVIOUS
  <2>1. 1 \in DOMAIN e.mix
    BY <1>1, EmptySeq, LenProperties DEF Mixes
  <2> QED  BY <2>1, Zenon DEF MixChars
<1> QED  BY <1>2, <1>3, <1>4, <1>5

(* The bounds the builder writes are characters. *)
LEMMA BoundsAreCodes ==
  ASSUME NEW e \in StemEntry
  PROVE  /\ ChrMin(e) \in 0 .. 255 /\ ChrMin(e) \in Int
         /\ ChrMax(e) \in 0 .. 255 /\ ChrMax(e) \in Int
<1>1. e.low \in 0 .. 255 /\ e.high \in 0 .. 255
  BY DEF StemEntry
<1>2. Mixes(e) => MinOf(MixChars(e)) \in 0 .. 255 /\ MaxOf(MixChars(e)) \in 0 .. 255
  <2>1. MixChars(e) \subseteq 0 .. 255 /\ (Mixes(e) => MixChars(e) # {})
    BY FirstsAreCodes
  <2> QED  BY <2>1, LeastOf, GreatestOf
<1>3. ChrMin(e) \in 0 .. 255 /\ ChrMax(e) \in 0 .. 255
  BY <1>1, <1>2 DEF ChrMin, ChrMax
<1> QED  BY <1>3

(* Where neither the bounds of the rows and the endings nor those of the table *)
(* are at odds, the first letter of any row and ending is within the bounds.   *)
LEMMA Covered ==
  ASSUME NEW e \in StemEntry, Flective(e), ~Uncovered(e), ~(Mixes(e) /\ BoundsLost(e)),
         NEW r \in Alternations(e), NEW x \in e.endings
  PROVE  LET c == IF r.text # <<>> THEN First(r.text) ELSE First(x.text)
         IN c # 0 => c \in ChrMin(e) .. ChrMax(e)
<1> DEFINE cr == First(r.text)
           cx == First(x.text)
           F == FlexChars(e)
           M == MixChars(e)
<1>1. /\ F \subseteq 0 .. 255 /\ F # {} /\ M \subseteq 0 .. 255 /\ (Mixes(e) => M # {})
      /\ ChrMin(e) \in 0 .. 255 /\ ChrMax(e) \in 0 .. 255
      /\ e.low \in 0 .. 255 /\ e.high \in 0 .. 255
  <2>1. e.low \in 0 .. 255 /\ e.high \in 0 .. 255
    BY DEF StemEntry
  <2> QED  BY <2>1, FirstsAreCodes, BoundsAreCodes, Zenon
<1>2. MinOf(F) \in F /\ MaxOf(F) \in F /\ \A y \in F : MinOf(F) <= y /\ y <= MaxOf(F)
  BY <1>1, LeastOf, GreatestOf
<1>3. cx \in F /\ \A y \in F : y \in e.low .. e.high
  BY Zenon DEF FlexChars, Uncovered
<1>4. CASE ~Mixes(e)
  <2>1. r.text = <<>>
    BY <1>4 DEF Alternations
  <2>2. ChrMin(e) = e.low /\ ChrMax(e) = e.high
    BY <1>4 DEF ChrMin, ChrMax
  <2> QED  BY <1>3, <2>1, <2>2
<1>5. CASE Mixes(e)
  <2>1. PICK i \in DOMAIN e.mix : r = e.mix[i]
    BY <1>5 DEF Alternations
  <2>2. r.text \in Texts
    <3>1. e.mix \in Seq(MixRow)
      BY DEF StemEntry
    <3>2. r \in MixRow
      BY <2>1, <3>1, ElementOfSeq, LenProperties
    <3> QED  BY <3>2 DEF MixRow
  <2>3. MinOf(M) \in M /\ MaxOf(M) \in M /\ \A y \in M : MinOf(M) <= y /\ y <= MaxOf(M)
    BY <1>1, <1>5, LeastOf, GreatestOf
  <2>11. MinOf(M) \in 0 .. 255 /\ MaxOf(M) \in 0 .. 255
    BY <1>1, <2>3
  <2>4. cr \in M
    BY <2>1, Zenon DEF MixChars
  <2>5. /\ ChrMin(e) = IF MinOf(M) # 0 THEN MinOf(M) ELSE e.low
        /\ ChrMax(e) = IF MaxOf(M) > 0 THEN MaxOf(M) ELSE e.high
    BY <1>5 DEF ChrMin, ChrMax
  <2>6. 0 \in M => /\ ~(MaxOf(M) \in 1 .. MaxOf(F) - 1)
                   /\ \A c \in M \ {0} : ~(c < MinOf(F))
    BY <1>5 DEF BoundsLost
  <2>7. r.text = <<>> => cr = 0
    BY DEF First
  <2>8. r.text # <<>> => cr \in 1 .. 255
    BY <2>2, FirstLetter
  <2> HIDE DEF cr, cx, F, M
  <2>9. CASE r.text # <<>>
    <3>1. cr \in ChrMin(e) .. ChrMax(e)
      <4>1. cr \in 1 .. 255 /\ cr \in M /\ cr <= MaxOf(M) /\ MinOf(M) <= cr
        BY <2>3, <2>4, <2>8, <2>9
      <4>2. cr <= ChrMax(e)
        BY <1>1, <2>11, <2>5, <4>1
      <4>3. ChrMin(e) <= cr
        <5>1. CASE MinOf(M) # 0
          BY <2>5, <4>1, <5>1
        <5>2. CASE MinOf(M) = 0
          <6>1. ~(cr < MinOf(F)) /\ MinOf(F) \in e.low .. e.high
            BY <1>2, <1>3, <2>3, <2>6, <4>1, <5>2
          <6> QED  BY <1>1, <1>2, <2>5, <4>1, <5>2, <6>1
        <5> QED  BY <5>1, <5>2
      <4> QED  BY <1>1, <4>1, <4>2, <4>3
    <3> QED  BY <2>9, <3>1 DEF cr
  <2>10. CASE r.text = <<>>
    <3>1. cx \in ChrMin(e) .. ChrMax(e)
      <4>1. 0 \in M /\ MinOf(M) = 0
        <5>1. 0 \in M
          BY <2>4, <2>7, <2>10, Zenon
        <5>2. MinOf(M) <= 0
          BY <2>3, <5>1, Zenon
        <5> QED  BY <2>11, <5>1, <5>2
      <4>2. ChrMin(e) <= cx
        BY <1>1, <1>3, <2>5, <4>1
      <4>3. cx <= ChrMax(e)
        <5>1. CASE MaxOf(M) > 0
          <6>1. ChrMax(e) = MaxOf(M) /\ ~(MaxOf(M) \in 1 .. MaxOf(F) - 1) /\ MaxOf(F) \in 0 .. 255
            BY <1>1, <1>2, <2>5, <2>6, <4>1, <5>1
          <6>2. cx <= MaxOf(F) /\ cx \in 0 .. 255
            BY <1>1, <1>2, <1>3
          <6>3. MaxOf(F) <= MaxOf(M)
            <7>1. \A m, f \in 0 .. 255 : m > 0 /\ ~(m \in 1 .. f - 1) => f <= m
              OBVIOUS
            <7> QED  BY <2>11, <5>1, <6>1, <7>1, Zenon
          <6> QED  BY <2>11, <6>1, <6>2, <6>3
        <5>2. CASE ~(MaxOf(M) > 0)
          BY <1>1, <1>3, <2>5, <5>2
        <5> QED  BY <5>1, <5>2
      <4> QED  BY <1>1, <1>2, <1>3, <4>2, <4>3
    <3> QED  BY <2>10, <3>1 DEF cx
  <2> QED  BY <2>9, <2>10
<1> QED  BY <1>4, <1>5


-------------------------------------------------------------------------------
(* Recursion. *)

(* What holds of everything when it holds of all that is smaller holds of all.  *)
LEMMA SizeInduction ==
  ASSUME NEW S, NEW size \in [S -> Nat], NEW P,
         \A x \in S : (\A y \in S : size[y] < size[x] => y \in P) => x \in P
  PROVE  S \subseteq P
<1> DEFINE Bad == {n \in Nat : \E x \in S : size[x] = n /\ x \notin P}
<1> SUFFICES ASSUME NEW z \in S, z \notin P  PROVE FALSE
  OBVIOUS
<1>1. Bad \subseteq Nat /\ size[z] \in Bad
  OBVIOUS
<1>2. PICK n \in Bad : \A m \in Bad : n <= m
  <2> HIDE DEF Bad
  <2> QED  BY <1>1, LeastNat
<1>3. PICK x \in S : size[x] = n /\ x \notin P
  OBVIOUS
<1>4. PICK y \in S : size[y] < size[x] /\ y \notin P
  BY <1>3
<1>5. size[y] \in Bad
  BY <1>4
<1> QED  BY <1>2, <1>3, <1>4, <1>5

(* G says what a function is at x, and looks at it only at what is smaller.     *)
Recursion(S, V, size, G) ==
  /\ V # {} /\ size \in [S -> Nat] /\ G \in [S \X [S -> V] -> V]
  /\ \A x \in S : \A g, h \in [S -> V] :
       (\A y \in S : size[y] < size[x] => g[y] = h[y]) => G[<<x, g>>] = G[<<x, h>>]

(* A definition by recursion on something smaller has a solution.               *)
LEMMA RecursionSolved ==
  ASSUME NEW S, NEW V, NEW size, NEW G, Recursion(S, V, size, G)
  PROVE  \E f \in [S -> V] : \A x \in S : f[x] = G[<<x, f>>]
<1> USE DEF Recursion
<1> DEFINE Solves(n, g) == \A x \in S : size[x] < n => g[x] = G[<<x, g>>]
<1>1. \A n \in Nat : \E g \in [S -> V] : Solves(n, g)
  <2> DEFINE Bad == {n \in Nat : ~ \E g \in [S -> V] : Solves(n, g)}
  <2> SUFFICES ASSUME Bad # {}  PROVE FALSE
    OBVIOUS
  <2>1. PICK n \in Bad : \A m \in Bad : n <= m
    <3>1. Bad \subseteq Nat
      OBVIOUS
    <3> HIDE DEF Bad
    <3> QED  BY <3>1, LeastNat
  <2>2. n # 0
    <3>1. PICK v \in V : TRUE
      OBVIOUS
    <3>2. [x \in S |-> v] \in [S -> V] /\ Solves(0, [x \in S |-> v])
      OBVIOUS
    <3> QED  BY <3>2
  <2>3. n \in Nat /\ n - 1 \in Nat /\ n - 1 \notin Bad
    <3>1. n \in Nat /\ n - 1 \in Nat /\ n - 1 < n
      BY <2>1, <2>2
    <3>2. ASSUME n - 1 \in Bad  PROVE FALSE
      <4>1. n <= n - 1
        BY <2>1, <3>2, Zenon
      <4> QED  BY <3>1, <4>1
    <3> QED  BY <3>1, <3>2
  <2>4. PICK g \in [S -> V] : Solves(n - 1, g)
    BY <2>3
  <2> DEFINE h == [x \in S |-> G[<<x, g>>]]
  <2>5. h \in [S -> V] /\ \A x \in S : h[x] = G[<<x, g>>]
    OBVIOUS
  <2> HIDE DEF h
  <2>6. ASSUME NEW x \in S, size[x] < n  PROVE h[x] = G[<<x, h>>]
    <3>1. ASSUME NEW y \in S, size[y] < size[x]  PROVE g[y] = h[y]
      <4>1. size[y] < n - 1
        BY <2>3, <2>6, <3>1
      <4> QED  BY <2>4, <2>5, <4>1
    <3>2. G[<<x, g>>] = G[<<x, h>>]
      BY <2>5, <3>1
    <3> QED  BY <2>5, <3>2
  <2> QED  BY <2>1, <2>5, <2>6
<1>2. ASSUME NEW n \in Nat, NEW m \in Nat, NEW g \in [S -> V], NEW h \in [S -> V],
             Solves(n, g), Solves(m, h), NEW z \in S, size[z] < n, size[z] < m
      PROVE  g[z] = h[z]
  <2> DEFINE P == {x \in S : size[x] < n /\ size[x] < m => g[x] = h[x]}
  <2>1. \A x \in S : (\A y \in S : size[y] < size[x] => y \in P) => x \in P
    <3> SUFFICES ASSUME NEW x \in S, \A y \in S : size[y] < size[x] => y \in P,
                        size[x] < n, size[x] < m
                 PROVE  g[x] = h[x]
      OBVIOUS
    <3>1. \A y \in S : size[y] < size[x] => g[y] = h[y]
      OBVIOUS
    <3>2. G[<<x, g>>] = G[<<x, h>>]
      BY <3>1
    <3> QED  BY <1>2, <3>2
  <2>2. S \subseteq P
    <3> HIDE DEF P
    <3> QED  BY <2>1, SizeInduction
  <2> QED  BY <1>2, <2>2
<1> DEFINE Sol(n) == CHOOSE g \in [S -> V] : Solves(n, g)
           f == [x \in S |-> Sol(size[x] + 1)[x]]
<1>3. \A n \in Nat : Sol(n) \in [S -> V] /\ Solves(n, Sol(n))
  <2> HIDE DEF Solves
  <2> QED  BY <1>1
<1> HIDE DEF Sol
<1>4. f \in [S -> V] /\ \A x \in S : f[x] = Sol(size[x] + 1)[x]
  BY <1>3
<1> HIDE DEF f
<1>5. ASSUME NEW x \in S  PROVE f[x] = G[<<x, f>>]
  <2> DEFINE g == Sol(size[x] + 1)
  <2>1. g \in [S -> V] /\ Solves(size[x] + 1, g) /\ f[x] = g[x]
    <3>1. size[x] + 1 \in Nat
      OBVIOUS
    <3> HIDE DEF Solves
    <3>2. Sol(size[x] + 1) \in [S -> V] /\ Solves(size[x] + 1, Sol(size[x] + 1))
      BY <1>3, <3>1
    <3> QED  BY <1>4, <3>2
  <2> HIDE DEF g
  <2>2. g[x] = G[<<x, g>>]
    BY <2>1
  <2>3. ASSUME NEW y \in S, size[y] < size[x]  PROVE g[y] = f[y]
    <3>1. size[y] + 1 \in Nat /\ size[x] + 1 \in Nat /\ size[y] < size[y] + 1 /\ size[y] < size[x] + 1
      BY <2>3
    <3>2. Sol(size[y] + 1) \in [S -> V] /\ Solves(size[y] + 1, Sol(size[y] + 1))
      BY <1>3, <3>1
    <3> HIDE DEF Solves
    <3>3. g[y] = Sol(size[y] + 1)[y]
      BY <1>2, <2>1, <3>1, <3>2
    <3> QED  BY <1>4, <3>3
  <2>4. G[<<x, g>>] = G[<<x, f>>]
    BY <1>4, <2>1, <2>3
  <2> QED  BY <2>1, <2>2, <2>4
<1> QED  BY <1>4, <1>5

-------------------------------------------------------------------------------
(* Sorting. *)

(* A finite set with a total and transitive relation can be listed along it. *)
LEMMA SortedList ==
  ASSUME NEW S, IsFiniteSet(S), NEW R,
         \A a, b \in S : <<a, b>> \in R \/ <<b, a>> \in R,
         \A a, b, c \in S : <<a, b>> \in R /\ <<b, c>> \in R => <<a, c>> \in R
  PROVE  \E q \in [1 .. Cardinality(S) -> S] :
           /\ \A x \in S : \E i \in 1 .. Cardinality(S) : q[i] = x
           /\ \A i, j \in 1 .. Cardinality(S) : i < j => <<q[i], q[j]>> \in R
<1> DEFINE Lists(T, n, q) == /\ q \in [1 .. n -> T]
                             /\ \A x \in T : \E i \in 1 .. n : q[i] = x
                             /\ \A i, j \in 1 .. n : i < j => <<q[i], q[j]>> \in R
           Bad == {n \in Nat : \E T \in SUBSET S :
                                 IsFiniteSet(T) /\ Cardinality(T) = n /\ ~ \E q : Lists(T, n, q)}
<1>1. Cardinality(S) \in Nat
  BY FS_CardinalityType
<1> SUFFICES ASSUME ~ \E q : Lists(S, Cardinality(S), q)  PROVE FALSE
  OBVIOUS
<1>2. Bad \subseteq Nat /\ Cardinality(S) \in Bad
  <2> HIDE DEF Lists
  <2> QED  BY <1>1
<1>3. PICK n \in Bad : \A m \in Bad : n <= m
  <2> HIDE DEF Bad
  <2> QED  BY <1>2, LeastNat
<1>4. PICK T \in SUBSET S : IsFiniteSet(T) /\ Cardinality(T) = n /\ ~ \E q : Lists(T, n, q)
  <2> HIDE DEF Lists
  <2> QED  BY <1>3
<1>5. n \in Nat
  BY <1>3
<1>6. CASE n = 0
  <2>1. T = {} /\ [k \in 1 .. 0 |-> k] \in [1 .. 0 -> {}]
    BY <1>4, <1>6, FS_EmptySet
  <2>2. Lists(T, 0, [k \in 1 .. 0 |-> k])
    BY <2>1
  <2> HIDE DEF Lists
  <2> QED  BY <1>4, <1>6, <2>2
<1>7. CASE n # 0
  <2>1. PICK x \in T : TRUE
    BY <1>4, <1>7, FS_EmptySet
  <2> DEFINE U == T \ {x}
             m == n - 1
  <2>2. m \in Nat /\ n = m + 1
    BY <1>5, <1>7
  <2>3. U \in SUBSET S /\ IsFiniteSet(U) /\ Cardinality(U) = m
    BY <1>4, <2>1, FS_RemoveElement
  <2>4. m \notin Bad
    <3> HIDE DEF Bad
    <3>1. m \in Bad => n <= m
      BY <1>3
    <3> QED  BY <2>2, <3>1
  <2>5. PICK q : Lists(U, m, q)
    <3> HIDE DEF Lists, U, m
    <3> QED  BY <2>2, <2>3, <2>4
  <2>6. /\ q \in [1 .. m -> U]
        /\ \A z \in U : \E i \in 1 .. m : q[i] = z
        /\ \A i, j \in 1 .. m : i < j => <<q[i], q[j]>> \in R
    BY <2>5
  <2> DEFINE Places == {i \in 1 .. m + 1 : i <= m => <<x, q[i]>> \in R}
  <2>7. PICK p \in Places : \A i \in Places : p <= i
    <3>1. Places \subseteq Nat /\ m + 1 \in Places
      BY <2>2
    <3> HIDE DEF Places
    <3> QED  BY <3>1, LeastNat
  <2>8. p \in 1 .. m + 1 /\ (p <= m => <<x, q[p]>> \in R)
    OBVIOUS
  <2> HIDE DEF m
  <2>9. \A i \in 1 .. m : q[i] \in S /\ q[i] \in U
    BY <2>3, <2>6
  <2>10. ASSUME NEW i \in 1 .. m, i < p  PROVE <<q[i], x>> \in R
    <3>1. i \notin Places
      BY <2>2, <2>7, <2>8, <2>10
    <3>2. <<x, q[i]>> \notin R
      BY <2>2, <2>10, <3>1
    <3> QED  BY <2>1, <2>9, <3>2
  <2>11. ASSUME NEW i \in 1 .. m, p <= i  PROVE <<x, q[i]>> \in R
    <3>1. CASE p = i
      BY <2>8, <3>1
    <3>2. CASE p < i
      <4>1. p \in 1 .. m /\ <<x, q[p]>> \in R /\ <<q[p], q[i]>> \in R
        BY <2>2, <2>6, <2>8, <3>2
      <4> QED  BY <2>1, <2>9, <4>1
    <3> QED  BY <2>2, <2>8, <2>11, <3>1, <3>2
  <2> HIDE DEF Places
  <2> DEFINE r == [i \in 1 .. n |-> IF i < p THEN q[i] ELSE IF i = p THEN x ELSE q[i - 1]]
  <2>12. \A i \in 1 .. n : /\ i < p => i \in 1 .. m /\ r[i] = q[i]
                           /\ i = p => r[i] = x
                           /\ p < i => i - 1 \in 1 .. m /\ p <= i - 1 /\ r[i] = q[i - 1]
    BY <2>2, <2>8
  <2>13. r \in [1 .. n -> T]
    <3>1. \A i \in 1 .. n : r[i] \in T
      BY <2>1, <2>2, <2>8, <2>9, <2>12
    <3> QED  BY <3>1
  <2> HIDE DEF r
  <2>14. ASSUME NEW z \in T  PROVE \E i \in 1 .. n : r[i] = z
    <3>1. CASE z = x
      BY <2>2, <2>8, <2>12, <3>1
    <3>2. CASE z # x
      <4>1. PICK i \in 1 .. m : q[i] = z
        BY <2>6, <3>2
      <4>2. CASE i < p
        BY <2>2, <2>8, <2>12, <4>1, <4>2
      <4>3. CASE p <= i
        <5>1. i + 1 \in 1 .. n /\ p < i + 1 /\ (i + 1) - 1 = i
          BY <2>2, <2>8, <4>3
        <5> QED  BY <2>12, <4>1, <5>1
      <4> QED  BY <2>8, <4>2, <4>3
    <3> QED  BY <3>1, <3>2
  <2>15. ASSUME NEW i \in 1 .. n, NEW j \in 1 .. n, i < j  PROVE <<r[i], r[j]>> \in R
    <3>1. CASE i < p /\ j < p
      BY <2>6, <2>12, <2>15, <3>1
    <3>2. CASE i < p /\ j = p
      BY <2>10, <2>12, <3>2
    <3>3. CASE i < p /\ p < j
      <4>1. i \in 1 .. m /\ j - 1 \in 1 .. m /\ i < j - 1 /\ r[i] = q[i] /\ r[j] = q[j - 1]
        BY <2>2, <2>8, <2>12, <3>3
      <4> QED  BY <2>6, <4>1
    <3>4. CASE i = p
      <4>1. p < j /\ r[i] = x
        BY <2>12, <2>15, <3>4
      <4>2. j - 1 \in 1 .. m /\ p <= j - 1 /\ r[j] = q[j - 1]
        BY <2>12, <4>1
      <4> QED  BY <2>11, <4>1, <4>2
    <3>5. CASE p < i
      <4>1. p < j
        BY <2>2, <2>8, <2>15, <3>5
      <4>2. /\ i - 1 \in 1 .. m /\ r[i] = q[i - 1] /\ j - 1 \in 1 .. m /\ r[j] = q[j - 1]
            /\ i - 1 < j - 1
        BY <2>2, <2>12, <2>15, <3>5, <4>1
      <4> QED  BY <2>6, <4>2
    <3> QED  BY <2>2, <2>8, <2>15, <3>1, <3>2, <3>3, <3>4, <3>5
  <2>16. Lists(T, n, r)
    BY <2>13, <2>14, <2>15
  <2> HIDE DEF Lists
  <2> QED  BY <1>4, <2>16
<1> QED  BY <1>6, <1>7

(* The lists of a finite set without repetition hold all of it.                *)
LEMMA ListHoldsAll ==
  ASSUME NEW S, IsFiniteSet(S), NEW q \in SetToSeqs(S)
  PROVE  /\ q \in Seq(S) /\ Len(q) = Cardinality(S) /\ DOMAIN q = 1 .. Len(q) /\ Len(q) \in Nat
         /\ \A i \in 1 .. Len(q) : q[i] \in S
         /\ \A i, j \in 1 .. Len(q) : q[i] = q[j] => i = j
         /\ \A x \in S : \E i \in 1 .. Len(q) : q[i] = x
<1> DEFINE n == Cardinality(S)
<1>1. n \in Nat
  BY FS_CardinalityType
<1>2. q \in [1 .. n -> S] /\ \A i, j \in 1 .. n : i # j => q[i] # q[j]
  BY DEF SetToSeqs
<1> HIDE DEF n
<1>3. q \in Seq(S) /\ Len(q) = n /\ DOMAIN q = 1 .. n
  BY <1>1, <1>2
<1>4. q \in Injection(1 .. n, S)
  BY <1>2 DEF Injection, IsInjective
<1>5. Cardinality(1 .. n) = Cardinality(S)
  <2>1. Cardinality(1 .. n) = IF 1 > n THEN 0 ELSE n - 1 + 1
    BY <1>1, FS_Interval
  <2> QED  BY <1>1, <2>1 DEF n
<1>6. q \in Surjection(1 .. n, S)
  BY <1>4, <1>5, FS_Injection
<1>7. \A x \in S : \E i \in 1 .. n : q[i] = x
  BY <1>6 DEF Surjection
<1> QED  BY <1>1, <1>2, <1>3, <1>7 DEF n

(* A finite set has a list without repetition along the relation.              *)
LEMMA SortedSeq ==
  ASSUME NEW S, IsFiniteSet(S), NEW R,
         \A a, b \in S : <<a, b>> \in R \/ <<b, a>> \in R,
         \A a, b, c \in S : <<a, b>> \in R /\ <<b, c>> \in R => <<a, c>> \in R
  PROVE  \E q \in SetToSeqs(S) : \A i, j \in DOMAIN q : i < j => <<q[i], q[j]>> \in R
<1> DEFINE n == Cardinality(S)
<1>1. n \in Nat
  BY FS_CardinalityType
<1>2. PICK q \in [1 .. n -> S] : /\ \A x \in S : \E i \in 1 .. n : q[i] = x
                                 /\ \A i, j \in 1 .. n : i < j => <<q[i], q[j]>> \in R
  BY SortedList
<1>3. q \in Surjection(1 .. n, S)
  BY <1>2 DEF Surjection
<1>4. IsFiniteSet(1 .. n) /\ Cardinality(1 .. n) = n
  <2> HIDE DEF n
  <2>1. IsFiniteSet(1 .. n) /\ Cardinality(1 .. n) = IF 1 > n THEN 0 ELSE n - 1 + 1
    BY <1>1, FS_Interval
  <2> QED  BY <1>1, <2>1
<1>5. q \in Injection(1 .. n, S)
  BY <1>3, <1>4, FS_SurjSameCardinalityImpliesInj
<1>6. \A i, j \in 1 .. n : q[i] = q[j] => i = j
  BY <1>5, <1>2 DEF Injection, IsInjective
<1>7. q \in SetToSeqs(S) /\ DOMAIN q = 1 .. n
  BY <1>2, <1>6 DEF SetToSeqs
<1> QED  BY <1>2, <1>7

-------------------------------------------------------------------------------

(* What a sequence of sequences put together holds.                             *)
LEMMA FlattenHolds ==
  ASSUME NEW S, NEW ss \in Seq(Seq(S))
  PROVE  /\ FlattenSeq(ss) \in Seq(S)
         /\ Range(FlattenSeq(ss)) = UNION {Range(ss[i]) : i \in 1 .. Len(ss)}
<1>1. /\ Len(ss) \in Nat /\ DOMAIN ss = 1 .. Len(ss)
      /\ \A i \in 1 .. Len(ss) : ss[i] \in Seq(S)
  BY LenProperties, ElementOfSeq
<1>2. CASE Len(ss) = 0
  <2>1. ss = <<>> /\ FlattenSeq(ss) = ss
    BY <1>2, EmptySeq DEF FlattenSeq
  <2>2. Range(ss) = {} /\ ss \in Seq(S)
    BY <2>1 DEF Range
  <2>3. UNION {Range(ss[i]) : i \in 1 .. Len(ss)} = {}
    BY <1>2
  <2> QED  BY <2>1, <2>2, <2>3
<1>3. CASE Len(ss) # 0
  <2> DEFINE D == 1 .. Len(ss)
             Is(f) == f = [i \in 1 .. Len(ss) |-> IF i = 1 THEN ss[i] ELSE f[i - 1] \o ss[i]]
             flat == CHOOSE f : Is(f)
  <2>1. FlattenSeq(ss) = flat[Len(ss)]
    BY <1>3 DEF FlattenSeq
  <2>2. \E f \in [D -> Seq(S)] : Is(f)
    <3> DEFINE G == [y \in D \X [D -> Seq(S)] |->
                       IF y[1] = 1 THEN ss[y[1]] ELSE y[2][y[1] - 1] \o ss[y[1]]]
               size == [i \in D |-> i]
    <3>1. \A i \in D : i # 1 => i - 1 \in D
      BY <1>1
    <3>2. \A i \in D : \A f \in [D -> Seq(S)] :
            G[<<i, f>>] = (IF i = 1 THEN ss[i] ELSE f[i - 1] \o ss[i]) /\ G[<<i, f>>] \in Seq(S)
      <4> SUFFICES ASSUME NEW i \in D, NEW f \in [D -> Seq(S)]
                   PROVE  G[<<i, f>>] = (IF i = 1 THEN ss[i] ELSE f[i - 1] \o ss[i]) /\ G[<<i, f>>] \in Seq(S)
        OBVIOUS
      <4>1. G[<<i, f>>] = IF i = 1 THEN ss[i] ELSE f[i - 1] \o ss[i]
        OBVIOUS
      <4>2. i # 1 => f[i - 1] \in Seq(S)
        BY <3>1
      <4>3. ss[i] \in Seq(S)
        BY <1>1
      <4>4. i # 1 => f[i - 1] \o ss[i] \in Seq(S)
        BY <4>2, <4>3, ConcatProperties
      <4> QED  BY <4>1, <4>3, <4>4
    <3>3. G \in [D \X [D -> Seq(S)] -> Seq(S)]
      <4> DEFINE F == [D -> Seq(S)]
      <4>1. \A y \in D \X F : \E i \in D, f \in F : y = <<i, f>>
        OBVIOUS
      <4>2. \A y \in D \X F : G[y] \in Seq(S)
        <5> HIDE DEF G, D, F
        <5> QED  BY <3>2, <4>1, Zenon DEF F
      <4> QED  BY <4>2
    <3>4. size \in [D -> Nat] /\ \A i \in D : size[i] = i
      BY <1>1
    <3>5. Seq(S) # {}
      BY EmptySeq
    <3>6. \A i \in D : \A g, h \in [D -> Seq(S)] :
            (\A j \in D : size[j] < size[i] => g[j] = h[j]) => G[<<i, g>>] = G[<<i, h>>]
      <4> SUFFICES ASSUME NEW i \in D, NEW g \in [D -> Seq(S)], NEW h \in [D -> Seq(S)],
                          \A j \in D : size[j] < size[i] => g[j] = h[j]
                   PROVE  G[<<i, g>>] = G[<<i, h>>]
        OBVIOUS
      <4>1. i # 1 => g[i - 1] = h[i - 1]
        <5>1. i # 1 => i - 1 \in D /\ i - 1 < i
          BY <1>1, <3>1
        <5> HIDE DEF size, D, G
        <5> QED  BY <3>4, <5>1
      <4>2. /\ G[<<i, g>>] = IF i = 1 THEN ss[i] ELSE g[i - 1] \o ss[i]
            /\ G[<<i, h>>] = IF i = 1 THEN ss[i] ELSE h[i - 1] \o ss[i]
        BY <3>2
      <4> HIDE DEF G, D, size
      <4> QED  BY <4>1, <4>2, Zenon
    <3> HIDE DEF G, size, D
    <3>7. PICK f \in [D -> Seq(S)] : \A i \in D : f[i] = G[<<i, f>>]
      <4>1. Recursion(D, Seq(S), size, G)
        BY <3>3, <3>4, <3>5, <3>6, Zenon DEF Recursion
      <4> QED  BY <4>1, RecursionSolved
    <3>8. \A i \in D : f[i] = IF i = 1 THEN ss[i] ELSE f[i - 1] \o ss[i]
      BY <3>2, <3>7
    <3> QED  BY <3>8 DEF D
  <2>3. Is(flat)
    <3> HIDE DEF Is
    <3> QED  BY <2>2, Zenon
  <2> HIDE DEF flat
  <2>4. \A i \in D : flat[i] = IF i = 1 THEN ss[i] ELSE flat[i - 1] \o ss[i]
    BY <2>3
  <2> DEFINE All(i) == UNION {Range(ss[j]) : j \in 1 .. i}
             Good == {i \in D : flat[i] \in Seq(S) /\ Range(flat[i]) = All(i)}
             size == [i \in D |-> i]
  <2>5. ASSUME NEW i \in D, \A j \in D : size[j] < size[i] => j \in Good  PROVE i \in Good
    <3>1. CASE i = 1
      <4>1. flat[i] = ss[1] /\ ss[1] \in Seq(S)
        BY <1>1, <2>4, <3>1
      <4>2. All(1) = Range(ss[1])
        OBVIOUS
      <4> QED  BY <3>1, <4>1, <4>2
    <3>2. CASE i # 1
      <4>1. i - 1 \in D /\ size[i - 1] < size[i]
        BY <1>1, <3>2
      <4>2. flat[i - 1] \in Seq(S) /\ Range(flat[i - 1]) = All(i - 1)
        BY <2>5, <4>1
      <4>3. flat[i] = flat[i - 1] \o ss[i] /\ ss[i] \in Seq(S)
        BY <1>1, <2>4, <3>2
      <4>4. flat[i] \in Seq(S) /\ Range(flat[i]) = Range(flat[i - 1]) \cup Range(ss[i])
        BY <4>2, <4>3, ConcatProperties, RangeConcatenation
      <4>5. All(i) = All(i - 1) \cup Range(ss[i])
        BY <1>1, <3>2
      <4> QED  BY <4>2, <4>4, <4>5
    <3> QED  BY <3>1, <3>2
  <2>6. D \subseteq Good
    <3>1. size \in [D -> Nat]
      BY <1>1
    <3> HIDE DEF Good, size, D
    <3> QED  BY <2>5, <3>1, SizeInduction
  <2>7. Len(ss) \in D
    BY <1>1, <1>3
  <2> QED  BY <2>1, <2>6, <2>7
<1> QED  BY <1>2, <1>3

===============================================================================
