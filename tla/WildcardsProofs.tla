---------------------------- MODULE WildcardsProofs ----------------------------
(***************************************************************************)
(* The proofs about Wildcards: the recursive functions are what their      *)
(* definitions say, what EnumWords tells is true and nothing is left out,  *)
(* both calls keep their types, and CheckHelp offers what fits and nothing *)
(* else.                                                                   *)
(***************************************************************************)
EXTENDS Wildcards, TextLemmas

(* The first letters of a sequence. *)
LEMMA FirstPart ==
  ASSUME NEW S, NEW s \in Seq(S), NEW n \in 0 .. Len(s)
  PROVE  /\ SubSeq(s, 1, n) \in Seq(S) /\ Len(SubSeq(s, 1, n)) = n
         /\ \A i \in 1 .. n : SubSeq(s, 1, n)[i] = s[i]
<1>1. \A i \in 1 .. n : s[i] \in S
  OBVIOUS
<1> QED  BY <1>1

(* What is left behind the first letters. *)
LEMMA LastPart ==
  ASSUME NEW S, NEW s \in Seq(S), NEW n \in 0 .. Len(s)
  PROVE  /\ SubSeq(s, n + 1, Len(s)) \in Seq(S) /\ Len(SubSeq(s, n + 1, Len(s))) = Len(s) - n
         /\ \A i \in 1 .. Len(s) - n : SubSeq(s, n + 1, Len(s))[i] = s[n + i]
         /\ s = SubSeq(s, 1, n) \o SubSeq(s, n + 1, Len(s))
<1>1. Len(s) \in Nat
  OBVIOUS
<1>2. /\ SubSeq(s, n + 1, Len(s)) \in Seq(S) /\ Len(SubSeq(s, n + 1, Len(s))) = Len(s) - n
      /\ \A i \in 1 .. Len(s) - n : SubSeq(s, n + 1, Len(s))[i] = s[n + i]
  <2>1. \A i \in n + 1 .. Len(s) : s[i] \in S
    OBVIOUS
  <2> QED  BY <1>1, <2>1
<1>3. SubSeq(s, 1, n) \o SubSeq(s, n + 1, Len(s)) = SubSeq(s, 1, Len(s))
  <2>1. 1 \in 1 .. Len(s) + 1 /\ n \in 1 - 1 .. Len(s) /\ Len(s) \in n .. Len(s)
    BY <1>1
  <2> QED  BY <1>1, <2>1, ConcatAdjacentSubSeq, Zenon
<1>4. SubSeq(s, 1, Len(s)) = s
  BY SubSeqFull
<1> QED  BY <1>2, <1>3, <1>4

(* Common is the length of the greatest beginning two texts share.              *)
LEMMA CommonHolds ==
  ASSUME NEW a \in Texts, NEW b \in Texts
  PROVE  /\ Common(a, b) \in Nat /\ Common(a, b) <= Len(a) /\ Common(a, b) <= Len(b)
         /\ \A i \in 1 .. Common(a, b) : a[i] = b[i]
         /\ \/ Common(a, b) = Len(a)
            \/ Common(a, b) = Len(b)
            \/ a[Common(a, b) + 1] # b[Common(a, b) + 1]
<1> DEFINE N == {n \in 0 .. Len(a) : n <= Len(b) /\ SubSeq(a, 1, n) = SubSeq(b, 1, n)}
           n == MaxOf(N)
<1>1. a \in Seq(1 .. 255) /\ b \in Seq(1 .. 255) /\ Len(a) \in Nat /\ Len(b) \in Nat
  BY DEF Texts
<1>2. n \in N /\ \A y \in N : y <= n
  <2>1. 0 \in N
    <3>1. SubSeq(a, 1, 0) = <<>> /\ SubSeq(b, 1, 0) = <<>>
      BY <1>1
    <3> QED  BY <1>1, <3>1
  <2>2. N \subseteq 0 .. Len(a) /\ N # {}
    BY <2>1
  <2> HIDE DEF N
  <2>3. \E x \in N : \A y \in N : y <= x
    BY <1>1, <2>2, GreatestNat
  <2>4. \E x \in N : \A y \in N : x >= y
    <3>1. \A x, y \in N : y <= x => x >= y
      BY <1>1, <2>2
    <3> QED  BY <2>3, <3>1
  <2>5. n \in N /\ \A y \in N : n >= y
    BY <2>4, Zenon DEF MaxOf
  <2> QED  BY <1>1, <2>2, <2>5
<1>3. n \in 0 .. Len(a) /\ n <= Len(b) /\ SubSeq(a, 1, n) = SubSeq(b, 1, n)
  BY <1>2
<1> HIDE DEF n
<1>4. \A i \in 1 .. n : a[i] = b[i]
  <2>1. ASSUME NEW i \in 1 .. n  PROVE a[i] = b[i]
    <3>1. SubSeq(a, 1, n)[i] = a[i] /\ SubSeq(b, 1, n)[i] = b[i]
      BY <1>1, <1>3
    <3> QED  BY <1>3, <3>1
  <2> QED  BY <2>1
<1>5. n = Len(a) \/ n = Len(b) \/ a[n + 1] # b[n + 1]
  <2> SUFFICES ASSUME n # Len(a), n # Len(b), a[n + 1] = b[n + 1]  PROVE FALSE
    OBVIOUS
  <2>1. n + 1 \in 0 .. Len(a) /\ n + 1 <= Len(b)
    BY <1>1, <1>3
  <2>2. \A i \in 1 .. n + 1 : a[i] = b[i]
    BY <1>1, <1>3, <1>4
  <2>3. SubSeq(a, 1, n + 1) = SubSeq(b, 1, n + 1)
    <3> DEFINE p == SubSeq(a, 1, n + 1)
               q == SubSeq(b, 1, n + 1)
    <3>1. /\ p \in Seq(1 .. 255) /\ Len(p) = n + 1 /\ \A i \in 1 .. n + 1 : p[i] = a[i]
          /\ q \in Seq(1 .. 255) /\ Len(q) = n + 1 /\ \A i \in 1 .. n + 1 : q[i] = b[i]
      BY <1>1, <2>1, FirstPart
    <3> HIDE DEF p, q
    <3>2. p = q
      BY <2>2, <3>1, SeqEqual
    <3> QED  BY <3>2 DEF p, q
  <2>4. n + 1 \in N
    BY <2>1, <2>3
  <2> QED  BY <1>1, <1>2, <1>3, <2>4
<1>6. Common(a, b) = n
  BY DEF Common, n
<1> QED  BY <1>1, <1>3, <1>4, <1>5, <1>6

(* What is left of a text behind its first letters.                             *)
LEMMA SkipHolds ==
  ASSUME NEW s \in Texts, NEW n \in 0 .. Len(s)
  PROVE  /\ Skip(s, n) \in Texts /\ Len(Skip(s, n)) = Len(s) - n
         /\ \A i \in 1 .. Len(s) - n : Skip(s, n)[i] = s[n + i]
         /\ SubSeq(s, 1, n) \in Texts /\ Len(SubSeq(s, 1, n)) = n
         /\ \A i \in 1 .. n : SubSeq(s, 1, n)[i] = s[i]
         /\ s = SubSeq(s, 1, n) \o Skip(s, n)
BY FirstPart, LastPart DEF Texts, Skip

(* The rest behind the first letter is the tail.                                *)
LEMMA TailIsSkip ==
  ASSUME NEW s \in Texts, s # <<>>
  PROVE  /\ Tail(s) \in Texts /\ Len(s) \in Nat \ {0} /\ Len(Tail(s)) = Len(s) - 1
         /\ \A i \in 1 .. Len(s) - 1 : Tail(s)[i] = s[i + 1]
         /\ s[1] \in 1 .. 255 /\ Tail(s) = Skip(s, 1)
<1>1. s \in Seq(1 .. 255) /\ Len(s) \in Nat \ {0}
  BY EmptySeq DEF Texts
<1>2. Tail(s) \in Seq(1 .. 255) /\ Len(Tail(s)) = Len(s) - 1
      /\ \A i \in 1 .. Len(s) - 1 : Tail(s)[i] = s[i + 1]
  BY <1>1, HeadTailProperties
<1>3. Tail(s) = Skip(s, 1)
  BY <1>1, TailIsSubSeq DEF Skip
<1> QED  BY <1>1, <1>2, <1>3 DEF Texts

(* Skipping twice is skipping once.                                             *)
LEMMA SkipTwice ==
  ASSUME NEW s \in Texts, NEW n \in 0 .. Len(s), NEW m \in 0 .. Len(s) - n
  PROVE  Skip(Skip(s, n), m) = Skip(s, n + m) /\ n + m \in 0 .. Len(s)
<1>1. s \in Seq(1 .. 255) /\ Len(s) \in Nat
  BY DEF Texts
<1>2. n + m \in 0 .. Len(s)
  BY <1>1
<1>3. /\ Skip(s, n) \in Texts /\ Len(Skip(s, n)) = Len(s) - n
      /\ \A i \in 1 .. Len(s) - n : Skip(s, n)[i] = s[n + i]
  BY SkipHolds
<1> DEFINE t == Skip(s, n)
<1>4. /\ Skip(s, n + m) \in Texts /\ Len(Skip(s, n + m)) = Len(s) - (n + m)
      /\ \A i \in 1 .. Len(s) - (n + m) : Skip(s, n + m)[i] = s[(n + m) + i]
  BY <1>2, SkipHolds
<1> HIDE DEF t
<1>5. /\ Skip(t, m) \in Texts /\ Len(Skip(t, m)) = Len(t) - m
      /\ \A i \in 1 .. Len(t) - m : Skip(t, m)[i] = t[m + i]
  BY <1>3, SkipHolds DEF t
<1>6. Skip(t, m) = Skip(s, n + m)
  <2> DEFINE p == Skip(t, m)
             q == Skip(s, n + m)
  <2>1. p \in Seq(1 .. 255) /\ q \in Seq(1 .. 255) /\ Len(p) = Len(q)
    BY <1>1, <1>3, <1>4, <1>5 DEF Texts, t
  <2>2. ASSUME NEW i \in 1 .. Len(p)  PROVE p[i] = q[i]
    <3>1. m + i \in 1 .. Len(s) - n /\ i \in 1 .. Len(s) - (n + m) /\ i \in 1 .. Len(t) - m
      BY <1>1, <1>3, <1>5 DEF t
    <3>2. p[i] = t[m + i] /\ t[m + i] = s[n + (m + i)] /\ q[i] = s[(n + m) + i]
      BY <1>3, <1>4, <1>5, <3>1 DEF t
    <3>3. n + (m + i) = (n + m) + i
      BY <1>1
    <3> QED  BY <3>2, <3>3
  <2> HIDE DEF p, q
  <2>3. p = q
    BY <2>1, <2>2, SeqEqual
  <2> QED  BY <2>3 DEF p, q
<1> QED  BY <1>2, <1>6 DEF t

-------------------------------------------------------------------------------
(* The recursions over two texts. *)

TwoTexts == Texts \X Texts

(* G gives the value at two texts from the values at texts that are shorter. *)
PairRecursion(V, G) ==
  /\ V # {} /\ G \in [TwoTexts \X [TwoTexts -> V] -> V]
  /\ \A p, w \in Texts : \A g, h \in [TwoTexts -> V] :
       (\A q, v \in Texts : Len(q) + Len(v) < Len(p) + Len(w) => g[<<q, v>>] = h[<<q, v>>])
         => G[<<<<p, w>>, g>>] = G[<<<<p, w>>, h>>]

(* Two functions that agree where they agree on all that is shorter. *)
PairsAgree(g, h) ==
  \A p, w \in Texts :
    (\A q, v \in Texts : Len(q) + Len(v) < Len(p) + Len(w) => g[<<q, v>>] = h[<<q, v>>])
      => g[<<p, w>>] = h[<<p, w>>]

(* The pairs of texts have sizes. *)
LEMMA PairSizes ==
  \E size \in [TwoTexts -> Nat] :
    /\ \A x \in TwoTexts : x = <<x[1], x[2]>> /\ x[1] \in Texts /\ x[2] \in Texts
    /\ \A p, w \in Texts : <<p, w>> \in TwoTexts /\ size[<<p, w>>] = Len(p) + Len(w)
<1> DEFINE size == [x \in TwoTexts |-> Len(x[1]) + Len(x[2])]
<1>1. /\ \A x \in TwoTexts : x = <<x[1], x[2]>> /\ x[1] \in Texts /\ x[2] \in Texts
      /\ \A p, w \in Texts : <<p, w>> \in TwoTexts /\ <<p, w>>[1] = p /\ <<p, w>>[2] = w
  BY DEF TwoTexts
<1>2. \A p \in Texts : Len(p) \in Nat
  BY DEF Texts
<1>3. size \in [TwoTexts -> Nat] /\ \A x \in TwoTexts : size[x] = Len(x[1]) + Len(x[2])
  <2>1. ASSUME NEW x \in TwoTexts  PROVE Len(x[1]) + Len(x[2]) \in Nat
    <3>1. Len(x[1]) \in Nat /\ Len(x[2]) \in Nat
      BY <1>1, <1>2, Zenon
    <3>2. \A i, j \in Nat : i + j \in Nat
      OBVIOUS
    <3> QED  BY <3>1, <3>2, Zenon
  <2> QED  BY <2>1
<1> HIDE DEF size
<1>4. ASSUME NEW p \in Texts, NEW w \in Texts  PROVE size[<<p, w>>] = Len(p) + Len(w)
  <2>1. size[<<p, w>>] = Len(<<p, w>>[1]) + Len(<<p, w>>[2])
    BY <1>1, <1>3
  <2>2. <<p, w>>[1] = p /\ <<p, w>>[2] = w
    OBVIOUS
  <2> QED  BY <2>1, <2>2
<1> QED  BY <1>1, <1>3, <1>4, Zenon

(* A definition by recursion on pairs of texts has a solution. *)
LEMMA PairRecursionSolved ==
  ASSUME NEW V, NEW G, PairRecursion(V, G)
  PROVE  \E f \in [TwoTexts -> V] : \A p, w \in Texts : f[<<p, w>>] = G[<<<<p, w>>, f>>]
<1>1. PICK size \in [TwoTexts -> Nat] :
        /\ \A x \in TwoTexts : x = <<x[1], x[2]>> /\ x[1] \in Texts /\ x[2] \in Texts
        /\ \A p, w \in Texts : <<p, w>> \in TwoTexts /\ size[<<p, w>>] = Len(p) + Len(w)
  BY PairSizes
<1>5. \A x \in TwoTexts : \A g, h \in [TwoTexts -> V] :
        (\A y \in TwoTexts : size[y] < size[x] => g[y] = h[y]) => G[<<x, g>>] = G[<<x, h>>]
  <2> SUFFICES ASSUME NEW x \in TwoTexts, NEW g \in [TwoTexts -> V], NEW h \in [TwoTexts -> V],
                      \A y \in TwoTexts : size[y] < size[x] => g[y] = h[y]
               PROVE  G[<<x, g>>] = G[<<x, h>>]
    OBVIOUS
  <2>1. PICK p \in Texts, w \in Texts : x = <<p, w>>
    BY <1>1
  <2>2. ASSUME NEW q \in Texts, NEW v \in Texts, Len(q) + Len(v) < Len(p) + Len(w)
        PROVE  g[<<q, v>>] = h[<<q, v>>]
    <3>1. size[<<q, v>>] < size[x]
      BY <1>1, <2>1, <2>2
    <3> QED  BY <1>1, <3>1, Zenon
  <2>3. \A q, v \in Texts : Len(q) + Len(v) < Len(p) + Len(w) => g[<<q, v>>] = h[<<q, v>>]
    BY <2>2
  <2> QED  BY <2>1, <2>3, Zenon DEF PairRecursion
<1>6. Recursion(TwoTexts, V, size, G)
  BY <1>5, Zenon DEF Recursion, PairRecursion
<1>7. PICK f \in [TwoTexts -> V] : \A x \in TwoTexts : f[x] = G[<<x, f>>]
  BY <1>6, RecursionSolved
<1> QED  BY <1>1, <1>7, Zenon

(* It has but one. *)
LEMMA PairsAgreeAll ==
  ASSUME NEW g, NEW h, PairsAgree(g, h)
  PROVE  \A p, w \in Texts : g[<<p, w>>] = h[<<p, w>>]
<1> DEFINE P == {x \in TwoTexts : g[x] = h[x]}
<1>1. PICK size \in [TwoTexts -> Nat] :
        /\ \A x \in TwoTexts : x = <<x[1], x[2]>> /\ x[1] \in Texts /\ x[2] \in Texts
        /\ \A p, w \in Texts : <<p, w>> \in TwoTexts /\ size[<<p, w>>] = Len(p) + Len(w)
  BY PairSizes
<1>2. ASSUME NEW x \in TwoTexts, \A y \in TwoTexts : size[y] < size[x] => y \in P
      PROVE  x \in P
  <2>1. PICK p \in Texts, w \in Texts : x = <<p, w>>
    BY <1>1
  <2>2. ASSUME NEW q \in Texts, NEW v \in Texts, Len(q) + Len(v) < Len(p) + Len(w)
        PROVE  g[<<q, v>>] = h[<<q, v>>]
    <3>1. size[<<q, v>>] < size[x] /\ <<q, v>> \in TwoTexts
      BY <1>1, <2>1, <2>2
    <3>2. <<q, v>> \in P
      BY <1>2, <3>1
    <3> QED  BY <3>2
  <2>3. g[x] = h[x]
    BY <2>1, <2>2, Zenon DEF PairsAgree
  <2> QED  BY <2>3
<1>3. TwoTexts \subseteq P
  <2> HIDE DEF P
  <2> QED  BY <1>2, SizeInduction
<1> QED  BY <1>1, <1>3

(* A text matches a pattern as the recursion says. *)
LEMMA MatchesIs ==
  /\ Matches \in [TwoTexts -> BOOLEAN]
  /\ \A p, w \in Texts :
       Matches[<<p, w>>] =
         IF p = <<>> THEN w = <<>>
         ELSE IF p[1] = Ast THEN Matches[<<Tail(p), w>>] \/ (w # <<>> /\ Matches[<<p, Tail(w)>>])
         ELSE w # <<>> /\ p[1] \in {Quest, w[1]} /\ Matches[<<Tail(p), Tail(w)>>]
<1> DEFINE V == BOOLEAN
           body(p, w, f) ==
             IF p = <<>> THEN w = <<>>
             ELSE IF p[1] = Ast THEN f[<<Tail(p), w>>] \/ (w # <<>> /\ f[<<p, Tail(w)>>])
             ELSE w # <<>> /\ p[1] \in {Quest, w[1]} /\ f[<<Tail(p), Tail(w)>>]
           Is(f) == f = [x \in TwoTexts |-> body(x[1], x[2], f)]
           G == [y \in TwoTexts \X [TwoTexts -> V] |-> body(y[1][1], y[1][2], y[2])]
<1>1. /\ \A x \in TwoTexts : x = <<x[1], x[2]>> /\ x[1] \in Texts /\ x[2] \in Texts
      /\ \A p, w \in Texts : <<p, w>> \in TwoTexts /\ <<p, w>>[1] = p /\ <<p, w>>[2] = w
  BY DEF TwoTexts
<1>2. /\ \A q \in Texts : Len(q) \in Nat
      /\ \A q \in Texts : q # <<>> => Tail(q) \in Texts /\ Len(Tail(q)) = Len(q) - 1
  BY TailIsSkip DEF Texts
<1>3. ASSUME NEW p \in Texts, NEW w \in Texts, NEW f \in [TwoTexts -> V]
      PROVE  body(p, w, f) \in V
  <2>1. body(p, w, f) = TRUE \/ body(p, w, f) = FALSE
    BY Zenon
  <2> QED  BY <2>1
<1>4. ASSUME NEW p \in Texts, NEW w \in Texts, NEW g, NEW h,
             \A q, v \in Texts : Len(q) + Len(v) < Len(p) + Len(w) => g[<<q, v>>] = h[<<q, v>>]
      PROVE  body(p, w, g) = body(p, w, h)
  <2>1. Len(p) \in Nat /\ Len(w) \in Nat
    BY <1>2
  <2>2. p # <<>> => g[<<Tail(p), w>>] = h[<<Tail(p), w>>]
    <3>1. p # <<>> => Tail(p) \in Texts /\ Len(Tail(p)) + Len(w) < Len(p) + Len(w)
      BY <1>2, <2>1
    <3> QED  BY <1>4, <3>1, Zenon
  <2>3. w # <<>> => g[<<p, Tail(w)>>] = h[<<p, Tail(w)>>]
    <3>1. w # <<>> => Tail(w) \in Texts /\ Len(p) + Len(Tail(w)) < Len(p) + Len(w)
      BY <1>2, <2>1
    <3> QED  BY <1>4, <3>1, Zenon
  <2>4. p # <<>> /\ w # <<>> => g[<<Tail(p), Tail(w)>>] = h[<<Tail(p), Tail(w)>>]
    <3>1. p # <<>> /\ w # <<>> => /\ Tail(p) \in Texts /\ Tail(w) \in Texts
                                 /\ Len(Tail(p)) + Len(Tail(w)) < Len(p) + Len(w)
      BY <1>2, <2>1
    <3> QED  BY <1>4, <3>1, Zenon
  <2> QED  BY <2>2, <2>3, <2>4, Zenon
<1>5. V # {}
  OBVIOUS
<1> HIDE DEF V, body
<1>6. \A p, w \in Texts : \A f \in [TwoTexts -> V] :
        G[<<<<p, w>>, f>>] = body(p, w, f) /\ G[<<<<p, w>>, f>>] \in V
  <2> SUFFICES ASSUME NEW p \in Texts, NEW w \in Texts, NEW f \in [TwoTexts -> V]
               PROVE  G[<<<<p, w>>, f>>] = body(p, w, f) /\ G[<<<<p, w>>, f>>] \in V
    OBVIOUS
  <2>1. <<p, w>> \in TwoTexts
    BY <1>1
  <2>2. G[<<<<p, w>>, f>>] = body(p, w, f)
    BY <2>1
  <2> QED  BY <1>3, <2>2
<1>7. G \in [TwoTexts \X [TwoTexts -> V] -> V]
  <2> DEFINE F == [TwoTexts -> V]
  <2>1. \A y \in TwoTexts \X F : \E x \in TwoTexts, f \in F : y = <<x, f>>
    <3> HIDE DEF F
    <3> QED  OBVIOUS
  <2>2. \A x \in TwoTexts, f \in F : G[<<x, f>>] \in V
    <3> SUFFICES ASSUME NEW x \in TwoTexts, NEW f \in F  PROVE G[<<x, f>>] \in V
      OBVIOUS
    <3> HIDE DEF G
    <3>1. PICK p \in Texts, w \in Texts : x = <<p, w>>
      BY <1>1
    <3> QED  BY <1>6, <3>1
  <2>3. \A y \in TwoTexts \X F : G[y] \in V
    <3> HIDE DEF G, F
    <3> QED  BY <2>1, <2>2, Zenon
  <2> HIDE DEF F
  <2> QED  BY <2>3 DEF F, G
<1> HIDE DEF G
<1>8. PairRecursion(V, G)
  <2>1. ASSUME NEW p \in Texts, NEW w \in Texts, NEW g \in [TwoTexts -> V], NEW h \in [TwoTexts -> V],
               \A q, v \in Texts : Len(q) + Len(v) < Len(p) + Len(w) => g[<<q, v>>] = h[<<q, v>>]
        PROVE  G[<<<<p, w>>, g>>] = G[<<<<p, w>>, h>>]
    <3>1. body(p, w, g) = body(p, w, h)
      BY <1>4, <2>1
    <3> QED  BY <1>6, <3>1
  <2> QED  BY <1>5, <1>7, <2>1, Zenon DEF PairRecursion
<1>9. PICK f \in [TwoTexts -> V] : \A p, w \in Texts : f[<<p, w>>] = G[<<<<p, w>>, f>>]
  BY <1>8, PairRecursionSolved
<1>10. \A p, w \in Texts : f[<<p, w>>] = body(p, w, f)
  BY <1>6, <1>9, Zenon
<1>11. Is(f)
  <2>1. \A x \in TwoTexts : f[x] = body(x[1], x[2], f)
    BY <1>1, <1>10, Zenon
  <2> QED  BY <2>1
<1>12. Is(Matches)
  <2>1. Matches = CHOOSE g : Is(g)
    BY DEF Matches, TwoTexts, body
  <2> HIDE DEF Is
  <2> QED  BY <1>11, <2>1, Zenon
<1>13. \A p, w \in Texts : Matches[<<p, w>>] = body(p, w, Matches)
  <2>1. \A x \in TwoTexts : Matches[x] = body(x[1], x[2], Matches)
    BY <1>12
  <2> HIDE DEF Is
  <2> QED  BY <1>1, <2>1, Zenon
<1>14. \A p, w \in Texts : Matches[<<p, w>>] = f[<<p, w>>]
  <2>1. ASSUME NEW p \in Texts, NEW w \in Texts,
               \A q, v \in Texts : Len(q) + Len(v) < Len(p) + Len(w) => Matches[<<q, v>>] = f[<<q, v>>]
        PROVE  Matches[<<p, w>>] = f[<<p, w>>]
    <3> DEFINE Near(g, h) == \A q, v \in Texts :
             Len(q) + Len(v) < Len(p) + Len(w) => g[<<q, v>>] = h[<<q, v>>]
    <3>1. Near(Matches, f)
      BY <2>1
    <3>2. \A g, h : Near(g, h) => body(p, w, g) = body(p, w, h)
      BY <1>4, Zenon
    <3> HIDE DEF Near
    <3>3. body(p, w, Matches) = body(p, w, f)
      BY <3>1, <3>2, Zenon
    <3> QED  BY <1>10, <1>13, <3>3, Zenon
  <2>2. PairsAgree(Matches, f)
    BY <2>1, Zenon DEF PairsAgree
  <2> QED  BY <2>2, PairsAgreeAll
<1>15. Matches \in [TwoTexts -> V]
  <2>1. \A x \in TwoTexts : Matches[x] \in V
    BY <1>1, <1>14
  <2>2. Matches = [x \in TwoTexts |-> Matches[x]]
    BY <1>12
  <2> QED  BY <2>1, <2>2
<1> QED  BY <1>13, <1>15 DEF V, body

(* The postfix is compared as the recursion says. *)
LEMMA PostMatchIs ==
  /\ GetPostMatch \in [TwoTexts -> BOOLEAN]
  /\ \A str, post \in Texts :
       GetPostMatch[<<str, post>>] =
         LET n == Common(str, post)
             s == Skip(str, n)
             p == Skip(post, n)
         IN IF post = <<>> THEN str = <<>>
            ELSE IF s = <<>> THEN p = <<>>
            ELSE IF p = <<>> THEN IsAsterisk(s)
            ELSE \/ s[1] = Quest /\ GetPostMatch[<<Tail(s), Tail(p)>>]
                 \/ /\ s[1] = Ast
                    /\ GetPostMatch[<<s, Tail(p)>>] \/ GetPostMatch[<<Tail(s), Tail(p)>>]
<1> DEFINE V == BOOLEAN
           body(str, post, f) ==
             LET n == Common(str, post)
                 s == Skip(str, n)
                 p == Skip(post, n)
             IN IF post = <<>> THEN str = <<>>
                ELSE IF s = <<>> THEN p = <<>>
                ELSE IF p = <<>> THEN IsAsterisk(s)
                ELSE \/ s[1] = Quest /\ f[<<Tail(s), Tail(p)>>]
                     \/ /\ s[1] = Ast
                        /\ f[<<s, Tail(p)>>] \/ f[<<Tail(s), Tail(p)>>]
           Is(f) == f = [x \in TwoTexts |-> body(x[1], x[2], f)]
           G == [y \in TwoTexts \X [TwoTexts -> V] |-> body(y[1][1], y[1][2], y[2])]
<1>1. /\ \A x \in TwoTexts : x = <<x[1], x[2]>> /\ x[1] \in Texts /\ x[2] \in Texts
      /\ \A str, post \in Texts : <<str, post>> \in TwoTexts /\ <<str, post>>[1] = str /\ <<str, post>>[2] = post
  BY DEF TwoTexts
<1>2. /\ \A q \in Texts : Len(q) \in Nat
      /\ \A q \in Texts : q # <<>> => Tail(q) \in Texts /\ Len(Tail(q)) = Len(q) - 1
  BY TailIsSkip DEF Texts
<1>3. ASSUME NEW str \in Texts, NEW post \in Texts, NEW f \in [TwoTexts -> V]
      PROVE  body(str, post, f) \in V
  <2>1. body(str, post, f) = TRUE \/ body(str, post, f) = FALSE
    BY Zenon DEF IsAsterisk
  <2> QED  BY <2>1
<1>4. ASSUME NEW str \in Texts, NEW post \in Texts, NEW g, NEW h,
             \A q, v \in Texts : Len(q) + Len(v) < Len(str) + Len(post) => g[<<q, v>>] = h[<<q, v>>]
      PROVE  body(str, post, g) = body(str, post, h)
  <2> DEFINE n == Common(str, post)
             s == Skip(str, n)
             r == Skip(post, n)
  <2>1. s \in Texts /\ r \in Texts /\ Len(s) <= Len(str) /\ Len(r) <= Len(post)
    <3>1. Len(str) \in Nat /\ Len(post) \in Nat
      BY <1>2
    <3>2. n \in 0 .. Len(str) /\ n \in 0 .. Len(post)
      BY <3>1, CommonHolds
    <3>3. s \in Texts /\ r \in Texts /\ Len(s) = Len(str) - n /\ Len(r) = Len(post) - n
      BY <3>2, SkipHolds
    <3> QED  BY <3>1, <3>2, <3>3
  <2> HIDE DEF s, r
  <2>2. Len(s) \in Nat /\ Len(r) \in Nat /\ Len(str) \in Nat /\ Len(post) \in Nat
    BY <1>2, <2>1
  <2>3. s # <<>> /\ r # <<>> => g[<<Tail(s), Tail(r)>>] = h[<<Tail(s), Tail(r)>>]
    <3>1. s # <<>> /\ r # <<>> => /\ Tail(s) \in Texts /\ Tail(r) \in Texts
                                 /\ Len(Tail(s)) + Len(Tail(r)) < Len(str) + Len(post)
      BY <1>2, <2>1, <2>2
    <3> QED  BY <1>4, <3>1, Zenon
  <2>4. r # <<>> => g[<<s, Tail(r)>>] = h[<<s, Tail(r)>>]
    <3>1. r # <<>> => Tail(r) \in Texts /\ Len(s) + Len(Tail(r)) < Len(str) + Len(post)
      BY <1>2, <2>1, <2>2
    <3> QED  BY <1>4, <2>1, <3>1, Zenon
  <2> QED  BY <2>3, <2>4, Zenon DEF s, r
<1>5. V # {}
  OBVIOUS
<1> HIDE DEF V, body
<1>6. \A str, post \in Texts : \A f \in [TwoTexts -> V] :
        G[<<<<str, post>>, f>>] = body(str, post, f) /\ G[<<<<str, post>>, f>>] \in V
  <2> SUFFICES ASSUME NEW str \in Texts, NEW post \in Texts, NEW f \in [TwoTexts -> V]
               PROVE  G[<<<<str, post>>, f>>] = body(str, post, f) /\ G[<<<<str, post>>, f>>] \in V
    OBVIOUS
  <2>1. <<str, post>> \in TwoTexts
    BY <1>1
  <2>2. G[<<<<str, post>>, f>>] = body(str, post, f)
    BY <2>1
  <2> QED  BY <1>3, <2>2
<1>7. G \in [TwoTexts \X [TwoTexts -> V] -> V]
  <2> DEFINE F == [TwoTexts -> V]
  <2>1. \A y \in TwoTexts \X F : \E x \in TwoTexts, f \in F : y = <<x, f>>
    <3> HIDE DEF F
    <3> QED  OBVIOUS
  <2>2. \A x \in TwoTexts, f \in F : G[<<x, f>>] \in V
    <3> SUFFICES ASSUME NEW x \in TwoTexts, NEW f \in F  PROVE G[<<x, f>>] \in V
      OBVIOUS
    <3> HIDE DEF G
    <3>1. PICK str \in Texts, post \in Texts : x = <<str, post>>
      BY <1>1
    <3> QED  BY <1>6, <3>1
  <2>3. \A y \in TwoTexts \X F : G[y] \in V
    <3> HIDE DEF G, F
    <3> QED  BY <2>1, <2>2, Zenon
  <2> HIDE DEF F
  <2> QED  BY <2>3 DEF F, G
<1> HIDE DEF G
<1>8. PairRecursion(V, G)
  <2>1. ASSUME NEW str \in Texts, NEW post \in Texts, NEW g \in [TwoTexts -> V], NEW h \in [TwoTexts -> V],
               \A q, v \in Texts : Len(q) + Len(v) < Len(str) + Len(post) => g[<<q, v>>] = h[<<q, v>>]
        PROVE  G[<<<<str, post>>, g>>] = G[<<<<str, post>>, h>>]
    <3>1. body(str, post, g) = body(str, post, h)
      BY <1>4, <2>1
    <3> QED  BY <1>6, <3>1
  <2> QED  BY <1>5, <1>7, <2>1, Zenon DEF PairRecursion
<1>9. PICK f \in [TwoTexts -> V] : \A str, post \in Texts : f[<<str, post>>] = G[<<<<str, post>>, f>>]
  BY <1>8, PairRecursionSolved
<1>10. \A str, post \in Texts : f[<<str, post>>] = body(str, post, f)
  BY <1>6, <1>9, Zenon
<1>11. Is(f)
  <2>1. \A x \in TwoTexts : f[x] = body(x[1], x[2], f)
    BY <1>1, <1>10, Zenon
  <2> QED  BY <2>1
<1>12. Is(GetPostMatch)
  <2>1. GetPostMatch = CHOOSE g : Is(g)
    BY DEF GetPostMatch, TwoTexts, body
  <2> HIDE DEF Is
  <2> QED  BY <1>11, <2>1, Zenon
<1>13. \A str, post \in Texts : GetPostMatch[<<str, post>>] = body(str, post, GetPostMatch)
  <2>1. \A x \in TwoTexts : GetPostMatch[x] = body(x[1], x[2], GetPostMatch)
    BY <1>12
  <2> HIDE DEF Is
  <2> QED  BY <1>1, <2>1, Zenon
<1>14. \A str, post \in Texts : GetPostMatch[<<str, post>>] = f[<<str, post>>]
  <2>1. ASSUME NEW str \in Texts, NEW post \in Texts,
               \A q, v \in Texts : Len(q) + Len(v) < Len(str) + Len(post) => GetPostMatch[<<q, v>>] = f[<<q, v>>]
        PROVE  GetPostMatch[<<str, post>>] = f[<<str, post>>]
    <3> DEFINE Near(g, h) == \A q, v \in Texts :
             Len(q) + Len(v) < Len(str) + Len(post) => g[<<q, v>>] = h[<<q, v>>]
    <3>1. Near(GetPostMatch, f)
      BY <2>1
    <3>2. \A g, h : Near(g, h) => body(str, post, g) = body(str, post, h)
      BY <1>4, Zenon
    <3> HIDE DEF Near
    <3>3. body(str, post, GetPostMatch) = body(str, post, f)
      BY <3>1, <3>2, Zenon
    <3> QED  BY <1>10, <1>13, <3>3, Zenon
  <2>2. PairsAgree(GetPostMatch, f)
    BY <2>1, Zenon DEF PairsAgree
  <2> QED  BY <2>2, PairsAgreeAll
<1>15. GetPostMatch \in [TwoTexts -> V]
  <2>1. \A x \in TwoTexts : GetPostMatch[x] \in V
    BY <1>1, <1>14
  <2>2. GetPostMatch = [x \in TwoTexts |-> GetPostMatch[x]]
    BY <1>12
  <2> QED  BY <2>1, <2>2
<1> QED  BY <1>13, <1>15 DEF V, body

(* What is left behind a row is what the recursion says. *)
LEMMA IntrRestsIs ==
  /\ IntrRests \in [TwoTexts -> SUBSET Texts]
  /\ \A row, str \in Texts :
       IntrRests[<<row, str>>] =
         LET n == Common(row, str)
             r == Skip(row, n)
             s == Skip(str, n)
         IN IF r = <<>> THEN {s}
            ELSE IF s = <<>> \/ ~Wild(s[1]) THEN {}
            ELSE IF s[1] = Quest THEN IntrRests[<<Tail(r), Tail(s)>>]
            ELSE IntrRests[<<r, Tail(s)>>] \cup IntrRests[<<Tail(r), s>>]
<1> DEFINE V == SUBSET Texts
           body(row, str, f) ==
             LET n == Common(row, str)
                 r == Skip(row, n)
                 s == Skip(str, n)
             IN IF r = <<>> THEN {s}
                ELSE IF s = <<>> \/ ~Wild(s[1]) THEN {}
                ELSE IF s[1] = Quest THEN f[<<Tail(r), Tail(s)>>]
                ELSE f[<<r, Tail(s)>>] \cup f[<<Tail(r), s>>]
           Is(f) == f = [x \in TwoTexts |-> body(x[1], x[2], f)]
           G == [y \in TwoTexts \X [TwoTexts -> V] |-> body(y[1][1], y[1][2], y[2])]
<1>1. /\ \A x \in TwoTexts : x = <<x[1], x[2]>> /\ x[1] \in Texts /\ x[2] \in Texts
      /\ \A row, str \in Texts : <<row, str>> \in TwoTexts /\ <<row, str>>[1] = row /\ <<row, str>>[2] = str
  BY DEF TwoTexts
<1>2. /\ \A q \in Texts : Len(q) \in Nat
      /\ \A q \in Texts : q # <<>> => Tail(q) \in Texts /\ Len(Tail(q)) = Len(q) - 1
  BY TailIsSkip DEF Texts
<1>3. ASSUME NEW row \in Texts, NEW str \in Texts, NEW f \in [TwoTexts -> V]
      PROVE  body(row, str, f) \in V
  <2> DEFINE n == Common(row, str)
             s == Skip(str, n)
             r == Skip(row, n)
  <2>1. s \in Texts /\ r \in Texts /\ Len(s) <= Len(str) /\ Len(r) <= Len(row)
    <3>1. Len(str) \in Nat /\ Len(row) \in Nat
      BY <1>2
    <3>2. n \in 0 .. Len(str) /\ n \in 0 .. Len(row)
      BY <3>1, CommonHolds
    <3>3. s \in Texts /\ r \in Texts /\ Len(s) = Len(str) - n /\ Len(r) = Len(row) - n
      BY <3>2, SkipHolds
    <3> QED  BY <3>1, <3>2, <3>3
  <2> HIDE DEF s, r
  <2>2. /\ s # <<>> => Tail(s) \in Texts
        /\ r # <<>> => Tail(r) \in Texts
    BY <1>2, <2>1
  <2>3. /\ r # <<>> /\ s # <<>> => f[<<Tail(r), Tail(s)>>] \in V
        /\ r # <<>> /\ s # <<>> => f[<<Tail(r), s>>] \in V
        /\ s # <<>> => f[<<r, Tail(s)>>] \in V
    BY <1>1, <2>1, <2>2
  <2>4. /\ {s} \in V /\ {} \in V
        /\ r # <<>> /\ s # <<>> => f[<<r, Tail(s)>>] \cup f[<<Tail(r), s>>] \in V
    BY <2>1, <2>3
  <2> DEFINE one == f[<<Tail(r), Tail(s)>>]
             two == f[<<r, Tail(s)>>] \cup f[<<Tail(r), s>>]
  <2>5. body(row, str, f) = IF r = <<>> THEN {s}
                            ELSE IF s = <<>> \/ ~Wild(s[1]) THEN {}
                            ELSE IF s[1] = Quest THEN one ELSE two
    BY Zenon DEF s, r
  <2> HIDE DEF one, two, V, body
  <2> QED  BY <2>3, <2>4, <2>5 DEF one, two
<1>4. ASSUME NEW row \in Texts, NEW str \in Texts, NEW g, NEW h,
             \A q, v \in Texts : Len(q) + Len(v) < Len(row) + Len(str) => g[<<q, v>>] = h[<<q, v>>]
      PROVE  body(row, str, g) = body(row, str, h)
  <2> DEFINE n == Common(row, str)
             s == Skip(str, n)
             r == Skip(row, n)
  <2>1. s \in Texts /\ r \in Texts /\ Len(s) <= Len(str) /\ Len(r) <= Len(row)
    <3>1. Len(str) \in Nat /\ Len(row) \in Nat
      BY <1>2
    <3>2. n \in 0 .. Len(str) /\ n \in 0 .. Len(row)
      BY <3>1, CommonHolds
    <3>3. s \in Texts /\ r \in Texts /\ Len(s) = Len(str) - n /\ Len(r) = Len(row) - n
      BY <3>2, SkipHolds
    <3> QED  BY <3>1, <3>2, <3>3
  <2> HIDE DEF s, r
  <2>2. Len(s) \in Nat /\ Len(r) \in Nat /\ Len(str) \in Nat /\ Len(row) \in Nat
    BY <1>2, <2>1
  <2>3. s # <<>> /\ r # <<>> => g[<<Tail(r), Tail(s)>>] = h[<<Tail(r), Tail(s)>>]
    <3>1. s # <<>> /\ r # <<>> => /\ Tail(s) \in Texts /\ Tail(r) \in Texts
                                 /\ Len(Tail(r)) + Len(Tail(s)) < Len(row) + Len(str)
      BY <1>2, <2>1, <2>2
    <3> QED  BY <1>4, <3>1, Zenon
  <2>4. r # <<>> => g[<<Tail(r), s>>] = h[<<Tail(r), s>>]
    <3>1. r # <<>> => Tail(r) \in Texts /\ Len(Tail(r)) + Len(s) < Len(row) + Len(str)
      BY <1>2, <2>1, <2>2
    <3> QED  BY <1>4, <2>1, <3>1, Zenon
  <2>5. s # <<>> => g[<<r, Tail(s)>>] = h[<<r, Tail(s)>>]
    <3>1. s # <<>> => Tail(s) \in Texts /\ Len(r) + Len(Tail(s)) < Len(row) + Len(str)
      BY <1>2, <2>1, <2>2
    <3> QED  BY <1>4, <2>1, <3>1, Zenon
  <2> QED  BY <2>3, <2>4, <2>5, Zenon DEF s, r
<1>5. V # {}
  OBVIOUS
<1> HIDE DEF V, body
<1>6. \A row, str \in Texts : \A f \in [TwoTexts -> V] :
        G[<<<<row, str>>, f>>] = body(row, str, f) /\ G[<<<<row, str>>, f>>] \in V
  <2> SUFFICES ASSUME NEW row \in Texts, NEW str \in Texts, NEW f \in [TwoTexts -> V]
               PROVE  G[<<<<row, str>>, f>>] = body(row, str, f) /\ G[<<<<row, str>>, f>>] \in V
    OBVIOUS
  <2>1. <<row, str>> \in TwoTexts
    BY <1>1
  <2>2. G[<<<<row, str>>, f>>] = body(row, str, f)
    BY <2>1
  <2> QED  BY <1>3, <2>2
<1>7. G \in [TwoTexts \X [TwoTexts -> V] -> V]
  <2> DEFINE F == [TwoTexts -> V]
  <2>1. \A y \in TwoTexts \X F : \E x \in TwoTexts, f \in F : y = <<x, f>>
    <3> HIDE DEF F
    <3> QED  OBVIOUS
  <2>2. \A x \in TwoTexts, f \in F : G[<<x, f>>] \in V
    <3> SUFFICES ASSUME NEW x \in TwoTexts, NEW f \in F  PROVE G[<<x, f>>] \in V
      OBVIOUS
    <3> HIDE DEF G
    <3>1. PICK row \in Texts, str \in Texts : x = <<row, str>>
      BY <1>1
    <3> QED  BY <1>6, <3>1
  <2>3. \A y \in TwoTexts \X F : G[y] \in V
    <3> HIDE DEF G, F
    <3> QED  BY <2>1, <2>2, Zenon
  <2> HIDE DEF F
  <2> QED  BY <2>3 DEF F, G
<1> HIDE DEF G
<1>8. PairRecursion(V, G)
  <2>1. ASSUME NEW row \in Texts, NEW str \in Texts, NEW g \in [TwoTexts -> V], NEW h \in [TwoTexts -> V],
               \A q, v \in Texts : Len(q) + Len(v) < Len(row) + Len(str) => g[<<q, v>>] = h[<<q, v>>]
        PROVE  G[<<<<row, str>>, g>>] = G[<<<<row, str>>, h>>]
    <3>1. body(row, str, g) = body(row, str, h)
      BY <1>4, <2>1
    <3> QED  BY <1>6, <3>1
  <2> QED  BY <1>5, <1>7, <2>1, Zenon DEF PairRecursion
<1>9. PICK f \in [TwoTexts -> V] : \A row, str \in Texts : f[<<row, str>>] = G[<<<<row, str>>, f>>]
  BY <1>8, PairRecursionSolved
<1>10. \A row, str \in Texts : f[<<row, str>>] = body(row, str, f)
  BY <1>6, <1>9, Zenon
<1>11. Is(f)
  <2>1. \A x \in TwoTexts : f[x] = body(x[1], x[2], f)
    BY <1>1, <1>10, Zenon
  <2> QED  BY <2>1
<1>12. Is(IntrRests)
  <2>1. IntrRests = CHOOSE g : Is(g)
    BY DEF IntrRests, TwoTexts, body
  <2> HIDE DEF Is
  <2> QED  BY <1>11, <2>1, Zenon
<1>13. \A row, str \in Texts : IntrRests[<<row, str>>] = body(row, str, IntrRests)
  <2>1. \A x \in TwoTexts : IntrRests[x] = body(x[1], x[2], IntrRests)
    BY <1>12
  <2> HIDE DEF Is
  <2> QED  BY <1>1, <2>1, Zenon
<1>14. \A row, str \in Texts : IntrRests[<<row, str>>] = f[<<row, str>>]
  <2>1. ASSUME NEW row \in Texts, NEW str \in Texts,
               \A q, v \in Texts : Len(q) + Len(v) < Len(row) + Len(str) => IntrRests[<<q, v>>] = f[<<q, v>>]
        PROVE  IntrRests[<<row, str>>] = f[<<row, str>>]
    <3> DEFINE Near(g, h) == \A q, v \in Texts :
             Len(q) + Len(v) < Len(row) + Len(str) => g[<<q, v>>] = h[<<q, v>>]
    <3>1. Near(IntrRests, f)
      BY <2>1
    <3>2. \A g, h : Near(g, h) => body(row, str, g) = body(row, str, h)
      BY <1>4, Zenon
    <3> HIDE DEF Near
    <3>3. body(row, str, IntrRests) = body(row, str, f)
      BY <3>1, <3>2, Zenon
    <3> QED  BY <1>10, <1>13, <3>3, Zenon
  <2>2. PairsAgree(IntrRests, f)
    BY <2>1, Zenon DEF PairsAgree
  <2> QED  BY <2>2, PairsAgreeAll
<1>15. IntrRests \in [TwoTexts -> V]
  <2>1. \A x \in TwoTexts : IntrRests[x] \in V
    BY <1>1, <1>14
  <2>2. IntrRests = [x \in TwoTexts |-> IntrRests[x]]
    BY <1>12
  <2> QED  BY <2>1, <2>2
<1> QED  BY <1>13, <1>15 DEF V, body

(* The letters a pattern must have, counted from its first sign on. *)
LEMMA LettersIs ==
  /\ Letters \in [Texts -> Nat]
  /\ \A p \in Texts :
       Letters[p] = IF p = <<>> THEN 0 ELSE Letters[Tail(p)] + (IF p[1] = Ast THEN 0 ELSE 1)
<1> DEFINE body(p, f) == IF p = <<>> THEN 0 ELSE f[Tail(p)] + (IF p[1] = Ast THEN 0 ELSE 1)
           Is(f) == f = [p \in Texts |-> body(p, f)]
           G == [y \in Texts \X [Texts -> Nat] |-> body(y[1], y[2])]
           size == [p \in Texts |-> Len(p)]
<1>1. /\ \A q \in Texts : Len(q) \in Nat
      /\ \A q \in Texts : q # <<>> => Tail(q) \in Texts /\ Len(Tail(q)) = Len(q) - 1
  BY TailIsSkip DEF Texts
<1>2. ASSUME NEW p \in Texts, NEW f \in [Texts -> Nat]  PROVE body(p, f) \in Nat
  <2>1. p # <<>> => f[Tail(p)] \in Nat
    BY <1>1
  <2> QED  BY <2>1
<1>3. ASSUME NEW p \in Texts, NEW g, NEW h, \A q \in Texts : Len(q) < Len(p) => g[q] = h[q]
      PROVE  body(p, g) = body(p, h)
  <2>1. p # <<>> => g[Tail(p)] = h[Tail(p)]
    <3>1. p # <<>> => Tail(p) \in Texts /\ Len(Tail(p)) < Len(p)
      BY <1>1
    <3> QED  BY <1>3, <3>1, Zenon
  <2> QED  BY <2>1, Zenon
<1> HIDE DEF body
<1>4. \A p \in Texts : \A f \in [Texts -> Nat] : G[<<p, f>>] = body(p, f) /\ G[<<p, f>>] \in Nat
  BY <1>2
<1>5. G \in [Texts \X [Texts -> Nat] -> Nat]
  <2> DEFINE F == [Texts -> Nat]
  <2>1. \A y \in Texts \X F : \E x \in Texts, f \in F : y = <<x, f>>
    <3> HIDE DEF F
    <3> QED  OBVIOUS
  <2>2. \A x \in Texts, f \in F : G[<<x, f>>] \in Nat
    <3> HIDE DEF G
    <3> QED  BY <1>4
  <2>3. \A y \in Texts \X F : G[y] \in Nat
    <3> HIDE DEF G, F
    <3> QED  BY <2>1, <2>2, Zenon
  <2> HIDE DEF F
  <2> QED  BY <2>3 DEF F, G
<1> HIDE DEF G
<1>6. size \in [Texts -> Nat] /\ \A p \in Texts : size[p] = Len(p)
  BY <1>1
<1> HIDE DEF size
<1>7. Recursion(Texts, Nat, size, G)
  <2>1. ASSUME NEW p \in Texts, NEW g \in [Texts -> Nat], NEW h \in [Texts -> Nat],
               \A q \in Texts : size[q] < size[p] => g[q] = h[q]
        PROVE  G[<<p, g>>] = G[<<p, h>>]
    <3>1. \A q \in Texts : Len(q) < Len(p) => g[q] = h[q]
      BY <1>6, <2>1, Zenon
    <3>2. body(p, g) = body(p, h)
      BY <1>3, <3>1
    <3> QED  BY <1>4, <3>2
  <2>2. Nat # {}
    OBVIOUS
  <2> QED  BY <1>5, <1>6, <2>1, <2>2, Zenon DEF Recursion
<1>8. PICK f \in [Texts -> Nat] : \A p \in Texts : f[p] = G[<<p, f>>]
  BY <1>7, RecursionSolved
<1>9. \A p \in Texts : f[p] = body(p, f)
  BY <1>4, <1>8, Zenon
<1>10. Is(f)
  BY <1>9
<1>11. Is(Letters)
  <2>1. Letters = CHOOSE g : Is(g)
    BY DEF Letters, body
  <2> HIDE DEF Is
  <2> QED  BY <1>10, <2>1, Zenon
<1>12. \A p \in Texts : Letters[p] = body(p, Letters)
  BY <1>11
<1>13. \A p \in Texts : Letters[p] = f[p]
  <2> DEFINE P == {p \in Texts : Letters[p] = f[p]}
  <2>1. ASSUME NEW p \in Texts, \A q \in Texts : size[q] < size[p] => q \in P  PROVE p \in P
    <3>1. \A q \in Texts : Len(q) < Len(p) => Letters[q] = f[q]
      <4>1. \A q \in Texts : Len(q) < Len(p) => q \in P
        BY <1>6, <2>1, Zenon
      <4> QED  BY <4>1
    <3>2. body(p, Letters) = body(p, f)
      BY <1>3, <3>1
    <3> QED  BY <1>9, <1>12, <3>2
  <2>2. Texts \subseteq P
    <3> HIDE DEF P
    <3> QED  BY <1>6, <2>1, SizeInduction
  <2> QED  BY <2>2
<1>14. Letters \in [Texts -> Nat]
  <2>1. \A p \in Texts : Letters[p] \in Nat
    BY <1>13
  <2>2. Letters = [p \in Texts |-> Letters[p]]
    BY <1>11
  <2> QED  BY <2>1, <2>2
<1> QED  BY <1>12, <1>14 DEF body

(* What is left of a pattern is compared with an ending as the recursion says. *)
LEMMA FlexFitsIs ==
  /\ \A str, text, post \in Texts : FlexFits[<<str, text, post>>] \in BOOLEAN
  /\ \A str, text, post \in Texts :
       FlexFits[<<str, text, post>>] =
         \/ text = <<>> /\ GetPostMatch[<<str, post>>]
         \/ str # <<>> /\ str[1] = Ast /\ FlexFits[<<Tail(str), text, post>>]
         \/ /\ str # <<>> /\ text # <<>>
            /\ IF str[1] \in {Quest, text[1]} THEN FlexFits[<<Tail(str), Tail(text), post>>]
               ELSE /\ str[1] = Ast
                    /\ \/ Len(str) = 1
                       \/ FlexFits[<<Tail(str), Tail(text), post>>]
                       \/ FlexFits[<<str, Tail(text), post>>]
<1> DEFINE D == Texts \X Texts \X Texts
           body(str, text, post, f) ==
             \/ text = <<>> /\ GetPostMatch[<<str, post>>]
             \/ str # <<>> /\ str[1] = Ast /\ f[<<Tail(str), text, post>>]
             \/ /\ str # <<>> /\ text # <<>>
                /\ IF str[1] \in {Quest, text[1]} THEN f[<<Tail(str), Tail(text), post>>]
                   ELSE /\ str[1] = Ast
                        /\ \/ Len(str) = 1
                           \/ f[<<Tail(str), Tail(text), post>>]
                           \/ f[<<str, Tail(text), post>>]
           Near(str, text, post, g, h) ==
             \A q, v \in Texts : Len(q) + Len(v) < Len(str) + Len(text) => g[<<q, v, post>>] = h[<<q, v, post>>]
           Is(f) == f = [x \in D |-> body(x[1], x[2], x[3], f)]
           G == [y \in D \X [D -> BOOLEAN] |-> body(y[1][1], y[1][2], y[1][3], y[2])]
           size == [x \in D |-> Len(x[1]) + Len(x[2])]
<1>1. /\ \A x \in D : x = <<x[1], x[2], x[3]>> /\ x[1] \in Texts /\ x[2] \in Texts /\ x[3] \in Texts
      /\ \A str, text, post \in Texts :
           LET x == <<str, text, post>> IN x \in D /\ x[1] = str /\ x[2] = text /\ x[3] = post
  OBVIOUS
<1>2. /\ \A q \in Texts : Len(q) \in Nat
      /\ \A q \in Texts : q # <<>> => Tail(q) \in Texts /\ Len(Tail(q)) = Len(q) - 1
  BY TailIsSkip DEF Texts
<1>3. ASSUME NEW str, NEW text, NEW post, NEW f  PROVE body(str, text, post, f) \in BOOLEAN
  <2>1. body(str, text, post, f) = TRUE \/ body(str, text, post, f) = FALSE
    BY Zenon
  <2> QED  BY <2>1
<1>4. ASSUME NEW str \in Texts, NEW text \in Texts, NEW post \in Texts, NEW g, NEW h,
             Near(str, text, post, g, h)
      PROVE  body(str, text, post, g) = body(str, text, post, h)
  <2>1. Len(str) \in Nat /\ Len(text) \in Nat
    BY <1>2
  <2>2. str # <<>> => g[<<Tail(str), text, post>>] = h[<<Tail(str), text, post>>]
    <3>1. str # <<>> => Tail(str) \in Texts /\ Len(Tail(str)) + Len(text) < Len(str) + Len(text)
      BY <1>2, <2>1
    <3> QED  BY <1>4, <3>1, Zenon
  <2>3. text # <<>> => g[<<str, Tail(text), post>>] = h[<<str, Tail(text), post>>]
    <3>1. text # <<>> => Tail(text) \in Texts /\ Len(str) + Len(Tail(text)) < Len(str) + Len(text)
      BY <1>2, <2>1
    <3> QED  BY <1>4, <3>1, Zenon
  <2>4. str # <<>> /\ text # <<>> => g[<<Tail(str), Tail(text), post>>] = h[<<Tail(str), Tail(text), post>>]
    <3>1. str # <<>> /\ text # <<>> => /\ Tail(str) \in Texts /\ Tail(text) \in Texts
                                      /\ Len(Tail(str)) + Len(Tail(text)) < Len(str) + Len(text)
      BY <1>2, <2>1
    <3> QED  BY <1>4, <3>1, Zenon
  <2>5. CASE str = <<>> \/ text = <<>>
    BY <2>2, <2>5, Zenon
  <2>6. CASE str # <<>> /\ text # <<>>
    <3> DEFINE last(f) == \/ Len(str) = 1
                          \/ f[<<Tail(str), Tail(text), post>>]
                          \/ f[<<str, Tail(text), post>>]
    <3>1. last(g) = last(h)
      BY <2>3, <2>4, <2>6, Zenon
    <3>2. \A f : body(str, text, post, f) =
                   \/ str[1] = Ast /\ f[<<Tail(str), text, post>>]
                   \/ IF str[1] \in {Quest, text[1]} THEN f[<<Tail(str), Tail(text), post>>]
                      ELSE str[1] = Ast /\ last(f)
      BY <2>6, Zenon
    <3> HIDE DEF last, body
    <3> QED  BY <2>2, <2>4, <2>6, <3>1, <3>2
  <2> QED  BY <2>5, <2>6, Zenon
<1> HIDE DEF body
<1>5. ASSUME NEW x \in D
      PROVE  \E str, text, post \in Texts :
               /\ x = <<str, text, post>> /\ size[x] = Len(str) + Len(text)
               /\ \A q, v \in Texts : <<q, v, post>> \in D /\ size[<<q, v, post>>] = Len(q) + Len(v)
               /\ \A f \in [D -> BOOLEAN] : G[<<x, f>>] = body(str, text, post, f)
  <2>1. x[1] \in Texts /\ x[2] \in Texts /\ x[3] \in Texts /\ x = <<x[1], x[2], x[3]>>
    BY <1>1
  <2>2. size[x] = Len(x[1]) + Len(x[2])
    OBVIOUS
  <2>3. ASSUME NEW q \in Texts, NEW v \in Texts
        PROVE  <<q, v, x[3]>> \in D /\ size[<<q, v, x[3]>>] = Len(q) + Len(v)
    BY <2>1
  <2>4. ASSUME NEW f \in [D -> BOOLEAN]  PROVE G[<<x, f>>] = body(x[1], x[2], x[3], f)
    <3> HIDE DEF D
    <3> QED  OBVIOUS
  <2> HIDE DEF G, size, D
  <2> QED  BY <2>1, <2>2, <2>3, <2>4, Zenon
<1>6. size \in [D -> Nat]
  <2>1. ASSUME NEW x \in D  PROVE Len(x[1]) + Len(x[2]) \in Nat
    <3>1. Len(x[1]) \in Nat /\ Len(x[2]) \in Nat
      BY <1>1, <1>2, Zenon
    <3>2. \A i, j \in Nat : i + j \in Nat
      OBVIOUS
    <3> QED  BY <3>1, <3>2, Zenon
  <2> HIDE DEF D
  <2> QED  BY <2>1
<1>7. G \in [D \X [D -> BOOLEAN] -> BOOLEAN]
  <2> DEFINE F == [D -> BOOLEAN]
  <2>1. \A y \in D \X F : \E x \in D, f \in F : y = <<x, f>>
    <3> HIDE DEF F, D
    <3> QED  OBVIOUS
  <2>2. \A x \in D, f \in F : G[<<x, f>>] \in BOOLEAN
    <3> SUFFICES ASSUME NEW x \in D, NEW f \in F  PROVE G[<<x, f>>] \in BOOLEAN
      OBVIOUS
    <3>1. f \in [D -> BOOLEAN]
      OBVIOUS
    <3> HIDE DEF G, D, F
    <3>2. \E str, text, post : G[<<x, f>>] = body(str, text, post, f)
      <4>1. PICK str \in Texts, text \in Texts, post \in Texts :
              \A k \in [D -> BOOLEAN] : G[<<x, k>>] = body(str, text, post, k)
        BY <1>5
      <4>2. G[<<x, f>>] = body(str, text, post, f)
        BY <3>1, <4>1
      <4> QED  BY <4>2
    <3> QED  BY <1>3, <3>2, SMT
  <2>3. \A y \in D \X F : G[y] \in BOOLEAN
    <3> HIDE DEF G, F, D
    <3> QED  BY <2>1, <2>2, Zenon
  <2> HIDE DEF F, D
  <2> QED  BY <2>3 DEF F, G
<1> HIDE DEF G, size, D
<1>8. Recursion(D, BOOLEAN, size, G)
  <2>1. ASSUME NEW x \in D, NEW g \in [D -> BOOLEAN], NEW h \in [D -> BOOLEAN],
               \A y \in D : size[y] < size[x] => g[y] = h[y]
        PROVE  G[<<x, g>>] = G[<<x, h>>]
    <3>1. PICK str \in Texts, text \in Texts, post \in Texts :
                 /\ x = <<str, text, post>> /\ size[x] = Len(str) + Len(text)
                 /\ \A q, v \in Texts : <<q, v, post>> \in D /\ size[<<q, v, post>>] = Len(q) + Len(v)
                 /\ \A f \in [D -> BOOLEAN] : G[<<x, f>>] = body(str, text, post, f)
      BY <1>5
    <3>2. Near(str, text, post, g, h)
      BY <2>1, <3>1
    <3>3. body(str, text, post, g) = body(str, text, post, h)
      <4> HIDE DEF Near
      <4> QED  BY <1>4, <3>2
    <3> QED  BY <3>1, <3>3
  <2>2. BOOLEAN # {}
    OBVIOUS
  <2> QED  BY <1>6, <1>7, <2>1, <2>2, Zenon DEF Recursion
<1>9. PICK f \in [D -> BOOLEAN] : \A x \in D : f[x] = G[<<x, f>>]
  BY <1>8, RecursionSolved
<1>10. Is(f)
  <2>1. \A x \in D : f[x] = body(x[1], x[2], x[3], f)
    <3> SUFFICES ASSUME NEW x \in D  PROVE f[x] = body(x[1], x[2], x[3], f)
      OBVIOUS
    <3>1. G[<<x, f>>] = body(x[1], x[2], x[3], f)
      BY DEF G
    <3> QED  BY <1>9, <3>1
  <2> QED  BY <2>1
<1>11. Is(FlexFits)
  <2>1. FlexFits = CHOOSE g : Is(g)
    BY DEF FlexFits, D, body
  <2> HIDE DEF Is
  <2> QED  BY <1>10, <2>1, Zenon
<1>12. \A x \in D : FlexFits[x] = body(x[1], x[2], x[3], FlexFits)
  BY <1>11
<1>13. \A str, text, post \in Texts : FlexFits[<<str, text, post>>] = body(str, text, post, FlexFits)
  <2> SUFFICES ASSUME NEW str \in Texts, NEW text \in Texts, NEW post \in Texts
               PROVE  FlexFits[<<str, text, post>>] = body(str, text, post, FlexFits)
    OBVIOUS
  <2> DEFINE x == <<str, text, post>>
  <2>1. x \in D /\ x[1] = str /\ x[2] = text /\ x[3] = post
    BY DEF D
  <2> HIDE DEF x
  <2>2. FlexFits[x] = body(str, text, post, FlexFits)
    BY <1>12, <2>1
  <2> QED  BY <2>2, Zenon DEF x
<1>14. \A str, text, post \in Texts : FlexFits[<<str, text, post>>] \in BOOLEAN
  <2>1. \A str, text, post, g : body(str, text, post, g) \in BOOLEAN
    BY <1>3, Zenon
  <2>2. ASSUME NEW str \in Texts, NEW text \in Texts, NEW post \in Texts
        PROVE  FlexFits[<<str, text, post>>] \in BOOLEAN
    <3>1. FlexFits[<<str, text, post>>] = body(str, text, post, FlexFits)
      BY <1>13, Zenon
    <3> QED  BY <2>1, <3>1, SMT
  <2> QED  BY <2>2
<1> QED  BY <1>13, <1>14 DEF body

(* A sequence over a set is one over any larger set. *)
LEMMA SeqWidens ==
  ASSUME NEW S, NEW T, S \subseteq T, NEW q \in Seq(S)
  PROVE  q \in Seq(T)
<1>1. Len(q) \in Nat /\ q \in [1 .. Len(q) -> S]
  BY LenProperties
<1>2. q \in [1 .. Len(q) -> T]
  BY <1>1
<1> QED  BY <1>1, <1>2, SeqDef

-------------------------------------------------------------------------------
(* The order of texts and of the stems of a list. *)

(* Of two texts one is before the other, or they are the same. *)
LEMMA BeforeTotal ==
  ASSUME NEW a \in Texts, NEW b \in Texts
  PROVE  Before(a, b) \/ a = b \/ Before(b, a)
<1> DEFINE n == Common(a, b)
<1>1. a \in Seq(1 .. 255) /\ b \in Seq(1 .. 255) /\ Len(a) \in Nat /\ Len(b) \in Nat
  BY DEF Texts
<1>2. /\ n \in Nat /\ n <= Len(a) /\ n <= Len(b) /\ \A i \in 1 .. n : a[i] = b[i]
      /\ n = Len(a) \/ n = Len(b) \/ a[n + 1] # b[n + 1]
  BY CommonHolds
<1> HIDE DEF n
<1>3. n \in 0 .. Len(a) /\ n \in 0 .. Len(b) /\ \A i \in 1 .. n : b[i] = a[i]
  BY <1>1, <1>2
<1>4. CASE n = Len(a) /\ n = Len(b)
  BY <1>1, <1>2, <1>4, SeqEqual
<1>5. CASE n < Len(b) /\ (n = Len(a) \/ a[n + 1] < b[n + 1])
  BY <1>2, <1>3, <1>5, BeforeAt
<1>6. CASE n < Len(a) /\ (n = Len(b) \/ b[n + 1] < a[n + 1])
  BY <1>3, <1>6, BeforeAt
<1>7. CASE n < Len(a) /\ n < Len(b)
  <2>1. n + 1 \in 1 .. Len(a) /\ n + 1 \in 1 .. Len(b)
    BY <1>1, <1>2, <1>7
  <2>2. a[n + 1] \in 1 .. 255 /\ b[n + 1] \in 1 .. 255
    BY <2>1, TextLetters
  <2>3. a[n + 1] # b[n + 1]
    BY <1>1, <1>2, <1>7
  <2>4. a[n + 1] < b[n + 1] \/ b[n + 1] < a[n + 1]
    <3>1. a[n + 1] \in Int /\ b[n + 1] \in Int
      BY <2>1, TextLetters
    <3> QED  BY <2>3, <3>1
  <2> QED  BY <1>5, <1>6, <1>7, <2>4
<1> QED  BY <1>1, <1>2, <1>4, <1>5, <1>6, <1>7

(* No text is before itself. *)
LEMMA BeforeNever ==
  ASSUME NEW a \in Texts, Before(a, a)
  PROVE  FALSE
<1>1. IsPrefix(a, a)
  BY PrefixAgrees DEF Texts
<1> QED  BY <1>1, BeforeNoPrefix

(* The order of a list of stems is a total one. *)
LEMMA InOrderTotal ==
  ASSUME NEW a \in StemEntry, NEW b \in StemEntry
  PROVE  InOrder(a, b) \/ InOrder(b, a)
<1>1. /\ ChrMax(a) \in Int /\ ChrMin(a) \in Int /\ ChrMax(b) \in Int /\ ChrMin(b) \in Int
      /\ a.lex \in Nat /\ b.lex \in Nat /\ a.post \in Texts /\ b.post \in Texts
  BY BoundsAreCodes DEF StemEntry
<1>2. ~(Before(a.post, b.post) /\ Before(b.post, a.post))
  BY <1>1, BeforeTransitive, BeforeNever
<1>3. a.post = b.post => ~Before(a.post, b.post) /\ ~Before(b.post, a.post)
  BY <1>1, BeforeNever
<1> QED  BY <1>1, <1>2, <1>3 DEF InOrder, Less

(* And it is transitive. *)
LEMMA InOrderTransitive ==
  ASSUME NEW a \in StemEntry, NEW b \in StemEntry, NEW c \in StemEntry,
         InOrder(a, b), InOrder(b, c)
  PROVE  InOrder(a, c)
<1>1. \A e \in StemEntry :
        ChrMax(e) \in Int /\ ChrMin(e) \in Int /\ e.lex \in Nat /\ e.post \in Texts
  BY BoundsAreCodes DEF StemEntry
<1> DEFINE P(x, y) == Before(x.post, y.post)
           Q(x, y) == x.post = y.post
<1>2. \A x, y \in StemEntry : P(x, y) \/ Q(x, y) \/ P(y, x)
  BY <1>1, BeforeTotal
<1>3. \A x, y, z \in StemEntry : P(x, y) /\ P(y, z) => P(x, z)
  BY <1>1, BeforeTransitive
<1>4. \A x \in StemEntry : ~P(x, x)
  BY <1>1, BeforeNever
<1>5. /\ \A x, y, z \in StemEntry : Q(x, y) /\ P(y, z) => P(x, z)
      /\ \A x, y, z \in StemEntry : P(x, y) /\ Q(y, z) => P(x, z)
      /\ \A x, y, z \in StemEntry : Q(x, y) /\ Q(y, z) => Q(x, z)
      /\ \A x, y \in StemEntry : Q(x, y) => Q(y, x)
  OBVIOUS
<1>6. \A x, y \in StemEntry :
        Less(x, y) <=> \/ ChrMax(x) > ChrMax(y)
                       \/ /\ ChrMax(x) = ChrMax(y)
                          /\ \/ ChrMin(x) < ChrMin(y)
                             \/ /\ ChrMin(x) = ChrMin(y)
                                /\ P(x, y) \/ (Q(x, y) /\ x.lex < y.lex)
  BY DEF Less
<1> HIDE DEF P, Q
<1>7. ~Less(b, a) /\ ~Less(c, b)
  BY DEF InOrder
<1>8. SUFFICES ASSUME Less(c, a)  PROVE FALSE
  BY DEF InOrder
<1>9. ChrMax(a) = ChrMax(c) /\ ChrMax(b) = ChrMax(c)
  BY <1>1, <1>6, <1>7, <1>8
<1>10. ChrMin(a) = ChrMin(c) /\ ChrMin(b) = ChrMin(c)
  BY <1>1, <1>6, <1>7, <1>8, <1>9
<1>11. /\ ~P(b, a) /\ ~(Q(b, a) /\ b.lex < a.lex)
       /\ ~P(c, b) /\ ~(Q(c, b) /\ c.lex < b.lex)
       /\ P(c, a) \/ (Q(c, a) /\ c.lex < a.lex)
  BY <1>1, <1>6, <1>7, <1>8, <1>9, <1>10
<1>12. (P(a, b) \/ Q(a, b)) /\ (P(b, c) \/ Q(b, c))
  BY <1>2, <1>5, <1>11
<1>13. CASE P(c, a)
  BY <1>3, <1>4, <1>5, <1>12, <1>13
<1>14. CASE Q(c, a) /\ c.lex < a.lex
  <2>1. Q(a, b) /\ Q(b, c)
    BY <1>3, <1>4, <1>5, <1>12, <1>14
  <2>2. Q(b, a) /\ Q(c, b)
    BY <1>5, <2>1
  <2> QED  BY <1>1, <1>11, <1>14, <2>2
<1> QED  BY <1>11, <1>13, <1>14

-------------------------------------------------------------------------------
(* The lists of a dictionary. *)

(* What a dictionary is. *)
DictOK == dict \subseteq Stems /\ IsFiniteSet(dict)

(* The stems of a dictionary are stems. *)
LEMMA StemHolds ==
  ASSUME DictOK, NEW s \in dict
  PROVE  s \in Stems /\ s.at \in Texts /\ s.entry \in StemEntry
<1>1. s \in Stems /\ s \in [at: Texts, entry: StemEntry]
  BY WildAssumption DEF DictOK
<1> QED  BY <1>1

(* The list of a node holds its entries, each once, in order. *)
LEMMA ListHolds ==
  ASSUME DictOK, NEW node \in Texts
  PROVE  /\ List(node) \in Seq(StemEntry) /\ Len(List(node)) \in Nat
         /\ DOMAIN List(node) = 1 .. Len(List(node))
         /\ \A i \in 1 .. Len(List(node)) : List(node)[i] \in EntriesAt(node)
         /\ \A e \in EntriesAt(node) : \E i \in 1 .. Len(List(node)) : List(node)[i] = e
         /\ \A i, j \in 1 .. Len(List(node)) : i < j => InOrder(List(node)[i], List(node)[j])
<1> DEFINE E == EntriesAt(node)
           R == {y \in StemEntry \X StemEntry : InOrder(y[1], y[2])}
           Right(q) == \A i, j \in DOMAIN q : i < j => InOrder(q[i], q[j])
<1>1. E \subseteq StemEntry
  BY StemHolds DEF EntriesAt
<1>2. IsFiniteSet(E)
  <2> DEFINE T == {t \in dict : t.at = node}
             f == [t \in T |-> t.entry]
  <2>1. IsFiniteSet(T)
    BY FS_Subset DEF DictOK
  <2>2. f \in Surjection(T, E)
    BY DEF Surjection, EntriesAt
  <2> HIDE DEF T, f, E
  <2> QED  BY <2>1, <2>2, FS_Surjection
<1>3. \A a, b \in E : <<a, b>> \in R <=> InOrder(a, b)
  BY <1>1
<1> HIDE DEF E, R
<1>4. \A a, b \in E : <<a, b>> \in R \/ <<b, a>> \in R
  BY <1>1, <1>3, InOrderTotal
<1>5. \A a, b, c \in E : <<a, b>> \in R /\ <<b, c>> \in R => <<a, c>> \in R
  BY <1>1, <1>3, InOrderTransitive
<1>6. PICK q \in SetToSeqs(E) : \A i, j \in DOMAIN q : i < j => <<q[i], q[j]>> \in R
  BY <1>2, <1>4, <1>5, SortedSeq
<1>7. Right(q)
  <2>1. DOMAIN q = 1 .. Len(q) /\ \A i \in 1 .. Len(q) : q[i] \in E
    BY <1>2, ListHoldsAll
  <2> QED  BY <1>3, <1>6, <2>1
<1> DEFINE l == CHOOSE p \in SetToSeqs(E) : Right(p)
<1>8. l \in SetToSeqs(E) /\ Right(l)
  <2> HIDE DEF Right
  <2> QED  BY <1>7, Zenon
<1>9. List(node) = l
  BY Zenon DEF List, Sorted, E
<1> HIDE DEF l
<1>10. /\ l \in Seq(E) /\ DOMAIN l = 1 .. Len(l) /\ Len(l) \in Nat
       /\ \A i \in 1 .. Len(l) : l[i] \in E
       /\ \A x \in E : \E i \in 1 .. Len(l) : l[i] = x
  BY <1>2, <1>8, ListHoldsAll
<1>11. l \in Seq(StemEntry)
  BY <1>1, <1>10
<1>12. \A i, j \in 1 .. Len(l) : i < j => InOrder(l[i], l[j])
  BY <1>8, <1>10
<1> QED  BY <1>9, <1>10, <1>11, <1>12 DEF E

(* The children of a node are letters, visited each once. *)
LEMMA KidsHold ==
  ASSUME DictOK, NEW node \in Texts
  PROVE  /\ Kids(node) \subseteq 1 .. 255
         /\ \A c \in Kids(node) :
              Append(node, c) \in Texts /\ \E s \in dict : IsPrefix(Append(node, c), s.at)
         /\ KidsFalling(node) \in Seq(1 .. 255) /\ Len(KidsFalling(node)) \in Nat
         /\ DOMAIN KidsFalling(node) = 1 .. Len(KidsFalling(node))
         /\ \A i \in 1 .. Len(KidsFalling(node)) : KidsFalling(node)[i] \in Kids(node)
         /\ \A c \in Kids(node) : \E i \in 1 .. Len(KidsFalling(node)) : KidsFalling(node)[i] = c
<1> DEFINE K == Kids(node)
           R == {y \in K \X K : y[1] >= y[2]}
           Right(q) == \A i, j \in DOMAIN q : i < j => q[i] > q[j]
<1>1. node \in Seq(1 .. 255) /\ Len(node) \in Nat
  BY DEF Texts
<1>2. ASSUME NEW c \in K
      PROVE  c \in 1 .. 255 /\ Append(node, c) \in Texts /\ \E s \in dict : IsPrefix(Append(node, c), s.at)
  <2>1. PICK s \in dict : IsStrictPrefix(node, s.at) /\ c = s.at[Len(node) + 1]
    BY DEF Kids
  <2>2. s.at \in Texts
    BY StemHolds
  <2>3. s.at \in Seq(1 .. 255) /\ IsPrefix(node, s.at) /\ node # s.at
    BY <2>1, <2>2 DEF Texts, IsStrictPrefix
  <2>4. Len(node) <= Len(s.at) /\ \A i \in 1 .. Len(node) : node[i] = s.at[i]
    BY <1>1, <2>3, PrefixAgrees
  <2>5. Len(node) # Len(s.at)
    BY <1>1, <2>3, <2>4, SeqEqual
  <2>6. Len(node) + 1 \in 1 .. Len(s.at) /\ Len(s.at) \in Nat
    BY <1>1, <2>3, <2>4, <2>5
  <2>7. c \in 1 .. 255
    BY <2>1, <2>2, <2>6, TextLetters
  <2>8. /\ Append(node, c) \in Seq(1 .. 255) /\ Len(Append(node, c)) = Len(node) + 1
        /\ \A i \in 1 .. Len(node) : Append(node, c)[i] = node[i]
        /\ Append(node, c)[Len(node) + 1] = c
    BY <1>1, <2>7, AppendProperties
  <2> DEFINE k == Append(node, c)
  <2>9. IsPrefix(k, s.at)
    <3>1. \A i \in 1 .. Len(k) : k[i] = s.at[i]
      BY <1>1, <2>1, <2>4, <2>8
    <3>2. k \in Seq(1 .. 255) /\ Len(k) <= Len(s.at)
      BY <1>1, <2>6, <2>8
    <3> HIDE DEF k
    <3> QED  BY <2>3, <3>1, <3>2, PrefixAgrees
  <2> QED  BY <2>7, <2>8, <2>9 DEF Texts
<1>3. K \subseteq 1 .. 255
  BY <1>2
<1>4. IsFiniteSet(K)
  <2>1. 1 \in Int /\ 255 \in Int
    OBVIOUS
  <2>2. IsFiniteSet(1 .. 255)
    BY <2>1, FS_Interval
  <2> HIDE DEF K
  <2> QED  BY <1>3, <2>2, FS_Subset
<1>5. \A a, b \in K : <<a, b>> \in R <=> a >= b
  OBVIOUS
<1> HIDE DEF K, R
<1>51. \A a \in K : a \in Int
  <2>1. \A a \in 1 .. 255 : a \in Int
    OBVIOUS
  <2> QED  BY <1>3, <2>1
<1>6. \A a, b \in K : <<a, b>> \in R \/ <<b, a>> \in R
  <2>1. ASSUME NEW a \in K, NEW b \in K  PROVE a >= b \/ b >= a
    BY <1>51
  <2> QED  BY <1>5, <2>1, Zenon
<1>7. \A a, b, c \in K : <<a, b>> \in R /\ <<b, c>> \in R => <<a, c>> \in R
  BY <1>5, <1>51
<1>8. PICK q \in SetToSeqs(K) : \A i, j \in DOMAIN q : i < j => <<q[i], q[j]>> \in R
  BY <1>4, <1>6, <1>7, SortedSeq
<1>9. Right(q)
  <2>1. /\ DOMAIN q = 1 .. Len(q) /\ Len(q) \in Nat /\ \A i \in 1 .. Len(q) : q[i] \in K
        /\ \A i, j \in 1 .. Len(q) : q[i] = q[j] => i = j
    BY <1>4, ListHoldsAll
  <2>2. ASSUME NEW i \in DOMAIN q, NEW j \in DOMAIN q, i < j  PROVE q[i] > q[j]
    <3>1. i # j
      BY <2>1, <2>2
    <3>2. q[i] \in K /\ q[j] \in K /\ q[i] # q[j]
      BY <2>1, <3>1
    <3>3. q[i] >= q[j]
      BY <1>5, <1>8, <2>2, <3>2
    <3> QED  BY <1>51, <3>2, <3>3
  <2> QED  BY <2>2
<1> DEFINE l == CHOOSE p \in SetToSeqs(K) : Right(p)
<1>10. l \in SetToSeqs(K) /\ Right(l)
  <2> HIDE DEF Right
  <2> QED  BY <1>9, Zenon
<1>11. KidsFalling(node) = l
  BY Zenon DEF KidsFalling, Sorted, K
<1> HIDE DEF l
<1>12. /\ l \in Seq(K) /\ DOMAIN l = 1 .. Len(l) /\ Len(l) \in Nat
       /\ \A i \in 1 .. Len(l) : l[i] \in K
       /\ \A x \in K : \E i \in 1 .. Len(l) : l[i] = x
  BY <1>4, <1>10, ListHoldsAll
<1>13. l \in Seq(1 .. 255)
  <2> DEFINE T == 1 .. 255
  <2>1. K \subseteq T /\ l \in Seq(K)
    BY <1>3, <1>12
  <2> HIDE DEF T
  <2>2. l \in Seq(T)
    BY <2>1, SeqWidens, Zenon
  <2> QED  BY <2>2 DEF T
<1> QED  BY <1>2, <1>3, <1>11, <1>12, <1>13 DEF K

-------------------------------------------------------------------------------
(* What is told of the stems of a list. *)

Calls == [lex: Nat, forms: SUBSET (0 .. 255)]

(* The parts of an entry. *)
LEMMA EntryHolds ==
  ASSUME NEW e \in StemEntry
  PROVE  /\ e.lex \in Nat /\ e.post \in Texts /\ e.endings \subseteq Ending
         /\ \A x \in e.endings : x.text \in Texts /\ x.form \in 0 .. 254 /\ x.level \in 1 .. 3
         /\ e.mix \in Seq(MixRow) /\ DOMAIN e.mix = 1 .. Len(e.mix) /\ Len(e.mix) \in Nat
         /\ \A i \in 1 .. Len(e.mix) : e.mix[i].text \in Texts /\ e.mix[i].levels \in SUBSET (1 .. 3)
<1>1. /\ e.lex \in Nat /\ e.post \in Texts /\ e.endings \in SUBSET Ending /\ e.mix \in Seq(MixRow)
  BY DEF StemEntry
<1>2. \A x \in e.endings : x.text \in Texts /\ x.form \in 0 .. 254 /\ x.level \in 1 .. 3
  BY <1>1 DEF Ending
<1>3. DOMAIN e.mix = 1 .. Len(e.mix) /\ Len(e.mix) \in Nat /\ \A i \in 1 .. Len(e.mix) : e.mix[i] \in MixRow
  BY <1>1, LenProperties, ElementOfSeq
<1>4. \A r \in MixRow : r.text \in Texts /\ r.levels \in SUBSET (1 .. 3)
  BY DEF MixRow
<1> QED  BY <1>1, <1>2, <1>3, <1>4

(* The forms of a stem are bytes. *)
LEMMA FormsAreCodes ==
  ASSUME NEW e \in StemEntry, NEW str \in Texts
  PROVE  FormsOf(str, e) \in SUBSET (0 .. 255)
<1>1. \A t, levels : GetFlexMatch(t, e, levels) \in SUBSET (0 .. 255)
  <2>1. \A x \in e.endings : x.form \in 0 .. 255
    <3> SUFFICES ASSUME NEW x \in e.endings  PROVE x.form \in 0 .. 255
      OBVIOUS
    <3>1. x.form \in 0 .. 254
      BY EntryHolds
    <3> QED  BY <3>1
  <2> QED  BY <2>1 DEF GetFlexMatch
<1>2. \A row, levels : GetIntrMatch(row, str, e, levels) \in SUBSET (0 .. 255)
  BY <1>1 DEF GetIntrMatch
<1>3. {NonFlective} \in SUBSET (0 .. 255) /\ {} \in SUBSET (0 .. 255)
  BY DEF NonFlective
<1>4. UNION {GetIntrMatch(e.mix[i].text, str, e, e.mix[i].levels) : i \in DOMAIN e.mix} \in SUBSET (0 .. 255)
  BY <1>2
<1> QED  BY <1>1, <1>3, <1>4, Zenon DEF FormsOf

(* A stem of a list that is told: neither stopped before nor skipped. *)
Hit(str, list, i) ==
  /\ i \in 1 .. Len(list)
  /\ \A j \in 1 .. i : ~Cuts(str, list[j])
  /\ ~TooEarly(str, list[i]) /\ FormsOf(str, list[i]) # {}

Call(str, e) == [lex |-> e.lex, forms |-> FormsOf(str, e)]

(* The calls for a list are those for the stems that are told. *)
LEMMA ListMatchHolds ==
  ASSUME NEW str \in Texts, NEW list \in Seq(StemEntry)
  PROVE  /\ GetListMatch(str, list) \in Seq(Calls)
         /\ \A c : c \in Range(GetListMatch(str, list))
                     <=> \E i \in 1 .. Len(list) : Hit(str, list, i) /\ c = Call(str, list[i])
<1>1. Len(list) \in Nat /\ DOMAIN list = 1 .. Len(list) /\ \A i \in 1 .. Len(list) : list[i] \in StemEntry
  BY LenProperties, ElementOfSeq
<1> DEFINE hits == {i \in {j \in DOMAIN list : \A k \in 1 .. j : ~Cuts(str, list[k])} :
                      ~TooEarly(str, list[i]) /\ FormsOf(str, list[i]) # {}}
           R == {y \in hits \X hits : y[1] <= y[2]}
           Right(q) == \A i, j \in DOMAIN q : i < j => q[i] < q[j]
           order == CHOOSE q \in SetToSeqs(hits) : Right(q)
           told_(q) == [k \in DOMAIN q |-> Call(str, list[q[k]])]
<1>2. GetListMatch(str, list) = told_(order)
  BY Zenon DEF GetListMatch, Sorted, Call
<1>3. \A i : i \in hits <=> Hit(str, list, i)
  BY <1>1 DEF Hit
<1>4. hits \subseteq 1 .. Len(list)
  BY <1>1
<1>5. IsFiniteSet(hits)
  <2>1. 1 \in Int /\ Len(list) \in Int
    BY <1>1
  <2>2. IsFiniteSet(1 .. Len(list))
    BY <2>1, FS_Interval
  <2> HIDE DEF hits
  <2> QED  BY <1>4, <2>2, FS_Subset
<1>6. \A a, b \in hits : <<a, b>> \in R <=> a <= b
  OBVIOUS
<1>7. \A a \in hits : a \in Int
  BY <1>1, <1>4
<1> HIDE DEF hits, R
<1>8. \A a, b \in hits : <<a, b>> \in R \/ <<b, a>> \in R
  <2>1. ASSUME NEW a \in hits, NEW b \in hits  PROVE a <= b \/ b <= a
    BY <1>7
  <2> QED  BY <1>6, <2>1, Zenon
<1>9. \A a, b, c \in hits : <<a, b>> \in R /\ <<b, c>> \in R => <<a, c>> \in R
  BY <1>6, <1>7
<1>10. PICK q \in SetToSeqs(hits) : \A i, j \in DOMAIN q : i < j => <<q[i], q[j]>> \in R
  BY <1>5, <1>8, <1>9, SortedSeq
<1>11. Right(q)
  <2>1. /\ DOMAIN q = 1 .. Len(q) /\ Len(q) \in Nat /\ \A i \in 1 .. Len(q) : q[i] \in hits
        /\ \A i, j \in 1 .. Len(q) : q[i] = q[j] => i = j
    BY <1>5, ListHoldsAll
  <2>2. ASSUME NEW i \in DOMAIN q, NEW j \in DOMAIN q, i < j  PROVE q[i] < q[j]
    <3>1. i # j
      BY <2>1, <2>2
    <3>2. q[i] \in hits /\ q[j] \in hits /\ q[i] # q[j]
      BY <2>1, <3>1
    <3>3. q[i] <= q[j]
      BY <1>6, <1>10, <2>2, <3>2
    <3> QED  BY <1>7, <3>2, <3>3
  <2> QED  BY <2>2
<1>12. order \in SetToSeqs(hits)
  <2> HIDE DEF Right
  <2> QED  BY <1>11, Zenon
<1> HIDE DEF order
<1>13. /\ order \in Seq(hits) /\ DOMAIN order = 1 .. Len(order) /\ Len(order) \in Nat
       /\ \A i \in 1 .. Len(order) : order[i] \in hits
       /\ \A x \in hits : \E i \in 1 .. Len(order) : order[i] = x
  BY <1>5, <1>12, ListHoldsAll
<1> DEFINE calls == told_(order)
<1>14. DOMAIN calls = 1 .. Len(order) /\ \A k \in 1 .. Len(order) : calls[k] = Call(str, list[order[k]])
  BY <1>13
<1>15. \A i \in hits : Call(str, list[i]) \in Calls
  <2> SUFFICES ASSUME NEW i \in hits  PROVE Call(str, list[i]) \in Calls
    OBVIOUS
  <2>1. list[i] \in StemEntry
    BY <1>1, <1>4
  <2>2. list[i].lex \in Nat /\ FormsOf(str, list[i]) \in SUBSET (0 .. 255)
    BY <2>1, EntryHolds, FormsAreCodes
  <2> QED  BY <2>2 DEF Call, Calls
<1> HIDE DEF calls
<1>16. calls \in Seq(Calls)
  <2>1. calls = [k \in 1 .. Len(order) |-> calls[k]]
    BY DEF calls
  <2>2. \A k \in 1 .. Len(order) : calls[k] \in Calls
    BY <1>13, <1>14, <1>15
  <2> QED  BY <1>13, <2>1, <2>2
<1>17. ASSUME NEW c
       PROVE  c \in Range(calls) <=> \E i \in 1 .. Len(list) : Hit(str, list, i) /\ c = Call(str, list[i])
  <2>1. c \in Range(calls) <=> \E k \in 1 .. Len(order) : c = Call(str, list[order[k]])
    BY <1>14 DEF Range
  <2>2. (\E k \in 1 .. Len(order) : c = Call(str, list[order[k]])) <=> \E i \in hits : c = Call(str, list[i])
    BY <1>13, Zenon
  <2>3. (\E i \in hits : c = Call(str, list[i])) <=> \E i \in 1 .. Len(list) : Hit(str, list, i) /\ c = Call(str, list[i])
    BY <1>3, <1>4, Zenon
  <2> QED  BY <2>1, <2>2, <2>3
<1> QED  BY <1>2, <1>16, <1>17 DEF calls

-------------------------------------------------------------------------------
(* The walk over the tree. *)

(* No stem of a dictionary is deeper than some level. *)
LEMMA DepthIs ==
  ASSUME DictOK
  PROVE  \E n \in Nat : \A s \in dict : Len(s.at) <= n
<1> DEFINE R == {y \in dict \X dict : Len(y[1].at) <= Len(y[2].at)}
<1>1. \A s \in dict : Len(s.at) \in Nat
  BY StemHolds, TextLetters
<1>2. \A a, b \in dict : <<a, b>> \in R <=> Len(a.at) <= Len(b.at)
  OBVIOUS
<1> HIDE DEF R
<1>3. \A a, b \in dict : <<a, b>> \in R \/ <<b, a>> \in R
  <2>1. ASSUME NEW a \in dict, NEW b \in dict  PROVE Len(a.at) <= Len(b.at) \/ Len(b.at) <= Len(a.at)
    BY <1>1
  <2> QED  BY <1>2, <2>1, Zenon
<1>4. \A a, b, c \in dict : <<a, b>> \in R /\ <<b, c>> \in R => <<a, c>> \in R
  <2>1. ASSUME NEW a \in dict, NEW b \in dict, NEW c \in dict,
               Len(a.at) <= Len(b.at), Len(b.at) <= Len(c.at)
        PROVE  Len(a.at) <= Len(c.at)
    BY <1>1, <2>1
  <2> QED  BY <1>2, <2>1, Zenon
<1>5. IsFiniteSet(dict)
  BY DEF DictOK
<1>6. PICK q \in SetToSeqs(dict) : \A i, j \in DOMAIN q : i < j => <<q[i], q[j]>> \in R
  BY <1>3, <1>4, <1>5, SortedSeq
<1>7. /\ DOMAIN q = 1 .. Len(q) /\ Len(q) \in Nat /\ \A i \in 1 .. Len(q) : q[i] \in dict
      /\ \A s \in dict : \E i \in 1 .. Len(q) : q[i] = s
  BY <1>5, ListHoldsAll
<1>8. CASE Len(q) = 0
  <2>1. dict = {}
    BY <1>7, <1>8
  <2> QED  BY <2>1
<1>9. CASE Len(q) # 0
  <2> DEFINE n == Len(q)
  <2>1. n \in 1 .. n /\ q[n] \in dict
    BY <1>7, <1>9
  <2>2. ASSUME NEW s \in dict  PROVE Len(s.at) <= Len(q[n].at)
    <3>1. PICK i \in 1 .. n : q[i] = s
      BY <1>7
    <3>2. CASE i = n
      BY <1>1, <3>1, <3>2
    <3>3. CASE i < n
      <4>1. <<q[i], q[n]>> \in R
        BY <1>6, <1>7, <2>1, <3>3
      <4> QED  BY <1>2, <2>1, <3>1, <4>1
    <3>4. i = n \/ i < n
      <4>1. n \in Nat /\ i \in 1 .. n
        BY <1>7
      <4> HIDE DEF n
      <4> QED  BY <4>1
    <3> QED  BY <3>2, <3>3, <3>4
  <2> QED  BY <1>1, <2>1, <2>2
<1> QED  BY <1>8, <1>9

(* What the walk finds below a node, child after child. *)
Below(f, str, node) ==
  FlattenSeq([i \in DOMAIN KidsFalling(node) |-> f[<<str, Append(node, KidsFalling(node)[i])>>]])

Tried(f, str, node) ==
  IF str = <<>> THEN <<>>
  ELSE IF str[1] = Quest THEN Below(f, Tail(str), node)
  ELSE IF str[1] = Ast
    THEN (IF Len(str) > 1 THEN f[<<Tail(str), node>>] ELSE <<>>) \o Below(f, str, node)
  ELSE IF str[1] \in Kids(node) THEN f[<<Tail(str), Append(node, str[1])>>]
  ELSE <<>>

(* The calls below a node are those of its children. *)
LEMMA BelowHolds ==
  ASSUME DictOK, NEW f \in [TwoTexts -> Seq(Calls)], NEW str \in Texts, NEW node \in Texts
  PROVE  /\ Below(f, str, node) \in Seq(Calls)
         /\ \A c : c \in Range(Below(f, str, node))
                     <=> \E k \in Kids(node) : c \in Range(f[<<str, Append(node, k)>>])
<1> DEFINE cs == KidsFalling(node)
           ss == [i \in DOMAIN cs |-> f[<<str, Append(node, cs[i])>>]]
<1>1. /\ DOMAIN cs = 1 .. Len(cs) /\ Len(cs) \in Nat
      /\ \A i \in 1 .. Len(cs) : cs[i] \in Kids(node)
      /\ \A c \in Kids(node) : \E i \in 1 .. Len(cs) : cs[i] = c
      /\ \A c \in Kids(node) : Append(node, c) \in Texts
  BY KidsHold
<1>2. \A c \in Kids(node) : f[<<str, Append(node, c)>>] \in Seq(Calls)
  BY <1>1 DEF TwoTexts
<1> HIDE DEF cs
<1>3. /\ DOMAIN ss = 1 .. Len(cs)
      /\ \A i \in 1 .. Len(cs) : ss[i] = f[<<str, Append(node, cs[i])>>] /\ ss[i] \in Seq(Calls)
  BY <1>1, <1>2
<1>4. ss = [i \in 1 .. Len(cs) |-> ss[i]]
  BY <1>1
<1> HIDE DEF ss
<1>5. ss \in Seq(Seq(Calls)) /\ Len(ss) = Len(cs)
  <2>1. ss \in [1 .. Len(cs) -> Seq(Calls)]
    BY <1>3, <1>4
  <2> DEFINE S == Seq(Calls)
  <2> HIDE DEF S
  <2>2. ss \in Seq(S)
    BY <1>1, <2>1, SeqDef DEF S
  <2>3. DOMAIN ss = 1 .. Len(ss) /\ Len(ss) \in Nat
    BY <2>2, LenProperties
  <2>4. Len(ss) = Len(cs)
    BY <1>1, <1>3, <2>3
  <2> QED  BY <2>2, <2>4 DEF S
<1>6. /\ FlattenSeq(ss) \in Seq(Calls)
      /\ Range(FlattenSeq(ss)) = UNION {Range(ss[i]) : i \in 1 .. Len(ss)}
  BY <1>5, FlattenHolds
<1>7. Below(f, str, node) = FlattenSeq(ss)
  BY Zenon DEF Below, ss, cs
<1>8. ASSUME NEW c
      PROVE  c \in Range(FlattenSeq(ss)) <=> \E k \in Kids(node) : c \in Range(f[<<str, Append(node, k)>>])
  <2>1. c \in Range(FlattenSeq(ss)) <=> \E i \in 1 .. Len(cs) : c \in Range(f[<<str, Append(node, cs[i])>>])
    BY <1>3, <1>5, <1>6
  <2>2. (\E i \in 1 .. Len(cs) : c \in Range(f[<<str, Append(node, cs[i])>>]))
          <=> \E k \in Kids(node) : c \in Range(f[<<str, Append(node, k)>>])
    BY <1>1, Zenon
  <2> QED  BY <2>1, <2>2
<1> QED  BY <1>6, <1>7, <1>8

(* What the walk finds is a list of calls. *)
LEMMA TriedHolds ==
  ASSUME DictOK, NEW f \in [TwoTexts -> Seq(Calls)], NEW str \in Texts, NEW node \in Texts
  PROVE  Tried(f, str, node) \in Seq(Calls)
<1>1. str # <<>> => Tail(str) \in Texts
  BY TailIsSkip
<1>2. Below(f, str, node) \in Seq(Calls) /\ (str # <<>> => Below(f, Tail(str), node) \in Seq(Calls))
  BY <1>1, BelowHolds
<1>3. \A k \in Kids(node) : Append(node, k) \in Texts
  BY KidsHold
<1>4. /\ str # <<>> => f[<<Tail(str), node>>] \in Seq(Calls)
      /\ str # <<>> /\ str[1] \in Kids(node) => f[<<Tail(str), Append(node, str[1])>>] \in Seq(Calls)
  BY <1>1, <1>3 DEF TwoTexts
<1>5. <<>> \in Seq(Calls) /\ \A a, b \in Seq(Calls) : a \o b \in Seq(Calls)
  BY EmptySeq, ConcatProperties
<1> QED  BY <1>2, <1>4, <1>5, Zenon DEF Tried

(* The walk makes the calls the recursion says. *)
LEMMA DictMatchIs ==
  ASSUME DictOK
  PROVE  /\ GetDictMatch \in [TwoTexts -> Seq(Calls)]
         /\ \A str, node \in Texts :
              GetDictMatch[<<str, node>>] =
                Tried(GetDictMatch, str, node) \o GetListMatch(str, List(node))
<1> DEFINE V == Seq(Calls)
           body(str, node, f) == Tried(f, str, node) \o GetListMatch(str, List(node))
           Is(f) == f = [x \in TwoTexts |-> body(x[1], x[2], f)]
           G == [y \in TwoTexts \X [TwoTexts -> V] |-> body(y[1][1], y[1][2], y[2])]
<1>1. PICK depth \in Nat : \A s \in dict : Len(s.at) <= depth
  BY DepthIs
<1> DEFINE left(node) == IF Len(node) < depth THEN depth - Len(node) ELSE 0
           size == [x \in TwoTexts |-> Len(x[1]) + left(x[2])]
           Near(str, node, g, h) ==
             \A q, v \in Texts : Len(q) + left(v) < Len(str) + left(node) => g[<<q, v>>] = h[<<q, v>>]
<1>2. /\ \A x \in TwoTexts : x = <<x[1], x[2]>> /\ x[1] \in Texts /\ x[2] \in Texts
      /\ \A str, node \in Texts : <<str, node>> \in TwoTexts /\ <<str, node>>[1] = str /\ <<str, node>>[2] = node
  BY DEF TwoTexts
<1>3. /\ \A q \in Texts : Len(q) \in Nat
      /\ \A q \in Texts : q # <<>> => Tail(q) \in Texts /\ Len(Tail(q)) = Len(q) - 1 /\ Len(Tail(q)) \in Nat
  BY TailIsSkip DEF Texts
<1>4. \A q \in Texts : left(q) \in Nat
  BY <1>3
<1>5. ASSUME NEW node \in Texts, NEW c \in Kids(node)
      PROVE  Append(node, c) \in Texts /\ left(Append(node, c)) < left(node)
  <2>1. PICK s \in dict : Append(node, c) \in Texts /\ IsPrefix(Append(node, c), s.at) /\ c \in 1 .. 255
    BY KidsHold
  <2>2. Len(Append(node, c)) <= Len(s.at) /\ Len(Append(node, c)) = Len(node) + 1
    <3>1. s.at \in Texts
      BY StemHolds
    <3>2. Len(Append(node, c)) <= Len(s.at)
      BY <2>1, <3>1, PrefixLetters
    <3>3. Len(Append(node, c)) = Len(node) + 1
      BY <2>1, AppendProperties DEF Texts
    <3> QED  BY <3>2, <3>3
  <2>3. Len(s.at) <= depth /\ Len(s.at) \in Nat /\ Len(node) \in Nat
    BY <1>1, <1>3, StemHolds
  <2> QED  BY <2>1, <2>2, <2>3
<1> HIDE DEF left
<1>6. size \in [TwoTexts -> Nat] /\ \A str, node \in Texts : size[<<str, node>>] = Len(str) + left(node)
  <2>1. ASSUME NEW x \in TwoTexts  PROVE Len(x[1]) + left(x[2]) \in Nat
    <3>1. Len(x[1]) \in Nat /\ left(x[2]) \in Nat
      BY <1>2, <1>3, <1>4, Zenon
    <3>2. \A i, j \in Nat : i + j \in Nat
      OBVIOUS
    <3> QED  BY <3>1, <3>2, Zenon
  <2>2. ASSUME NEW str \in Texts, NEW node \in Texts  PROVE size[<<str, node>>] = Len(str) + left(node)
    <3>1. size[<<str, node>>] = Len(<<str, node>>[1]) + left(<<str, node>>[2])
      BY <1>2
    <3>2. <<str, node>>[1] = str /\ <<str, node>>[2] = node
      OBVIOUS
    <3> QED  BY <3>1, <3>2
  <2> QED  BY <2>1, <2>2
<1>7. ASSUME NEW str \in Texts, NEW node \in Texts, NEW f \in [TwoTexts -> V]
      PROVE  body(str, node, f) \in V
  <2>1. GetListMatch(str, List(node)) \in Seq(Calls)
    BY ListHolds, ListMatchHolds
  <2>2. Tried(f, str, node) \in Seq(Calls)
    BY TriedHolds
  <2>3. \A a, b \in Seq(Calls) : a \o b \in Seq(Calls)
    BY ConcatProperties
  <2> QED  BY <2>1, <2>2, <2>3
<1>8. ASSUME NEW str \in Texts, NEW node \in Texts, NEW g, NEW h, Near(str, node, g, h)
      PROVE  body(str, node, g) = body(str, node, h)
  <2>1. Len(str) \in Nat /\ left(node) \in Nat
    BY <1>3, <1>4
  <2>2. str # <<>> => g[<<Tail(str), node>>] = h[<<Tail(str), node>>]
    <3>1. str # <<>> => Tail(str) \in Texts /\ Len(Tail(str)) + left(node) < Len(str) + left(node)
      BY <1>3, <2>1
    <3> QED  BY <1>8, <3>1, Zenon
  <2>3. ASSUME NEW c \in Kids(node)
        PROVE  /\ g[<<str, Append(node, c)>>] = h[<<str, Append(node, c)>>]
               /\ str # <<>> => g[<<Tail(str), Append(node, c)>>] = h[<<Tail(str), Append(node, c)>>]
    <3>1. /\ Append(node, c) \in Texts /\ left(Append(node, c)) \in Nat
          /\ left(Append(node, c)) < left(node)
      BY <1>4, <1>5
    <3>2. Len(str) + left(Append(node, c)) < Len(str) + left(node)
      BY <2>1, <3>1
    <3>3. str # <<>> => Tail(str) \in Texts /\ Len(Tail(str)) + left(Append(node, c)) < Len(str) + left(node)
      BY <1>3, <2>1, <3>1
    <3> QED  BY <1>8, <3>1, <3>2, <3>3, Zenon
  <2>4. \A i \in DOMAIN KidsFalling(node) : KidsFalling(node)[i] \in Kids(node)
    BY KidsHold
  <2>5. Below(g, str, node) = Below(h, str, node)
    <3>1. \A i \in DOMAIN KidsFalling(node) :
            g[<<str, Append(node, KidsFalling(node)[i])>>] = h[<<str, Append(node, KidsFalling(node)[i])>>]
      BY <2>3, <2>4, Zenon
    <3>2. [i \in DOMAIN KidsFalling(node) |-> g[<<str, Append(node, KidsFalling(node)[i])>>]]
            = [i \in DOMAIN KidsFalling(node) |-> h[<<str, Append(node, KidsFalling(node)[i])>>]]
      BY <3>1
    <3> QED  BY <3>2, Zenon DEF Below
  <2>6. str # <<>> => Below(g, Tail(str), node) = Below(h, Tail(str), node)
    <3> SUFFICES ASSUME str # <<>>  PROVE Below(g, Tail(str), node) = Below(h, Tail(str), node)
      OBVIOUS
    <3>1. \A i \in DOMAIN KidsFalling(node) :
            g[<<Tail(str), Append(node, KidsFalling(node)[i])>>] = h[<<Tail(str), Append(node, KidsFalling(node)[i])>>]
      BY <2>3, <2>4, Zenon
    <3>2. [i \in DOMAIN KidsFalling(node) |-> g[<<Tail(str), Append(node, KidsFalling(node)[i])>>]]
            = [i \in DOMAIN KidsFalling(node) |-> h[<<Tail(str), Append(node, KidsFalling(node)[i])>>]]
      BY <3>1
    <3> QED  BY <3>2, Zenon DEF Below
  <2>7. str # <<>> /\ str[1] \in Kids(node) =>
          g[<<Tail(str), Append(node, str[1])>>] = h[<<Tail(str), Append(node, str[1])>>]
    BY <2>3
  <2>8. Tried(g, str, node) = Tried(h, str, node)
    BY <2>2, <2>5, <2>6, <2>7, Zenon DEF Tried
  <2> QED  BY <2>8
<1>9. V # {}
  BY EmptySeq
<1> HIDE DEF V, body
<1>10. \A x \in TwoTexts : \A f \in [TwoTexts -> V] :
         G[<<x, f>>] = body(x[1], x[2], f) /\ G[<<x, f>>] \in V
  <2> SUFFICES ASSUME NEW x \in TwoTexts, NEW f \in [TwoTexts -> V]
               PROVE  G[<<x, f>>] = body(x[1], x[2], f) /\ G[<<x, f>>] \in V
    OBVIOUS
  <2>1. G[<<x, f>>] = body(x[1], x[2], f)
    OBVIOUS
  <2>2. x[1] \in Texts /\ x[2] \in Texts
    BY <1>2
  <2> QED  BY <1>7, <2>1, <2>2
<1>11. G \in [TwoTexts \X [TwoTexts -> V] -> V]
  <2> DEFINE F == [TwoTexts -> V]
  <2>1. \A y \in TwoTexts \X F : \E x \in TwoTexts, f \in F : y = <<x, f>>
    <3> HIDE DEF F
    <3> QED  OBVIOUS
  <2>2. \A x \in TwoTexts, f \in F : G[<<x, f>>] \in V
    <3> HIDE DEF G
    <3> QED  BY <1>10
  <2>3. \A y \in TwoTexts \X F : G[y] \in V
    <3> HIDE DEF G, F
    <3> QED  BY <2>1, <2>2, Zenon
  <2> HIDE DEF F
  <2> QED  BY <2>3 DEF F, G
<1> HIDE DEF G, size
<1>12. Recursion(TwoTexts, V, size, G)
  <2>1. ASSUME NEW x \in TwoTexts, NEW g \in [TwoTexts -> V], NEW h \in [TwoTexts -> V],
               \A y \in TwoTexts : size[y] < size[x] => g[y] = h[y]
        PROVE  G[<<x, g>>] = G[<<x, h>>]
    <3>1. x[1] \in Texts /\ x[2] \in Texts /\ x = <<x[1], x[2]>>
      BY <1>2
    <3>2. size[x] = Len(x[1]) + left(x[2])
      BY <1>6, <3>1, Zenon
    <3>3. Near(x[1], x[2], g, h)
      BY <1>2, <1>6, <2>1, <3>2
    <3>4. body(x[1], x[2], g) = body(x[1], x[2], h)
      <4> HIDE DEF Near
      <4> QED  BY <1>8, <3>1, <3>3
    <3> QED  BY <1>10, <3>4
  <2> QED  BY <1>6, <1>9, <1>11, <2>1, Zenon DEF Recursion
<1>13. PICK f \in [TwoTexts -> V] : \A x \in TwoTexts : f[x] = G[<<x, f>>]
  BY <1>12, RecursionSolved
<1>14. \A x \in TwoTexts : f[x] = body(x[1], x[2], f)
  BY <1>10, <1>13, Zenon
<1>15. Is(f)
  BY <1>14
<1>16. Is(GetDictMatch)
  <2>1. GetDictMatch = CHOOSE g : Is(g)
    BY DEF GetDictMatch, TwoTexts, body, Tried, Below
  <2> HIDE DEF Is
  <2> QED  BY <1>15, <2>1, Zenon
<1>17. \A x \in TwoTexts : GetDictMatch[x] = body(x[1], x[2], GetDictMatch)
  BY <1>16
<1>18. \A x \in TwoTexts : GetDictMatch[x] = f[x]
  <2> DEFINE P == {x \in TwoTexts : GetDictMatch[x] = f[x]}
  <2>1. ASSUME NEW x \in TwoTexts, \A y \in TwoTexts : size[y] < size[x] => y \in P  PROVE x \in P
    <3>1. x[1] \in Texts /\ x[2] \in Texts /\ x = <<x[1], x[2]>>
      BY <1>2
    <3>2. size[x] = Len(x[1]) + left(x[2])
      BY <1>6, <3>1, Zenon
    <3>3. \A y \in TwoTexts : size[y] < size[x] => GetDictMatch[y] = f[y]
      BY <2>1
    <3>4. Near(x[1], x[2], GetDictMatch, f)
      BY <1>2, <1>6, <3>2, <3>3
    <3>5. body(x[1], x[2], GetDictMatch) = body(x[1], x[2], f)
      <4> HIDE DEF Near
      <4> QED  BY <1>8, <3>1, <3>4
    <3> QED  BY <1>14, <1>17, <3>5
  <2>2. TwoTexts \subseteq P
    <3> HIDE DEF P
    <3> QED  BY <1>6, <2>1, SizeInduction
  <2> QED  BY <2>2
<1>19. GetDictMatch \in [TwoTexts -> V]
  <2>1. \A x \in TwoTexts : GetDictMatch[x] \in V
    BY <1>18
  <2>2. GetDictMatch = [x \in TwoTexts |-> GetDictMatch[x]]
    BY <1>16
  <2> QED  BY <2>1, <2>2
<1>20. \A str, node \in Texts : GetDictMatch[<<str, node>>] = body(str, node, GetDictMatch)
  <2> HIDE DEF Is
  <2> QED  BY <1>2, <1>17, Zenon
<1> QED  BY <1>19, <1>20 DEF V, body

-------------------------------------------------------------------------------
(* Induction over texts. *)

(* P holds of two texts when it holds of all that are shorter. *)
PairProgress(P) ==
  \A p, w \in Texts :
    (\A q, v \in Texts : Len(q) + Len(v) < Len(p) + Len(w) => <<q, v>> \in P) => <<p, w>> \in P

(* Then it holds of all. *)
LEMMA PairInduction ==
  ASSUME NEW P, PairProgress(P)
  PROVE  \A p, w \in Texts : <<p, w>> \in P
<1>1. PICK size \in [TwoTexts -> Nat] :
        /\ \A x \in TwoTexts : x = <<x[1], x[2]>> /\ x[1] \in Texts /\ x[2] \in Texts
        /\ \A p, w \in Texts : <<p, w>> \in TwoTexts /\ size[<<p, w>>] = Len(p) + Len(w)
  BY PairSizes
<1>2. ASSUME NEW x \in TwoTexts, \A y \in TwoTexts : size[y] < size[x] => y \in P
      PROVE  x \in P
  <2>1. PICK p \in Texts, w \in Texts : x = <<p, w>>
    BY <1>1
  <2>2. ASSUME NEW q \in Texts, NEW v \in Texts, Len(q) + Len(v) < Len(p) + Len(w)
        PROVE  <<q, v>> \in P
    <3>1. size[<<q, v>>] < size[x] /\ <<q, v>> \in TwoTexts
      BY <1>1, <2>1, <2>2
    <3> QED  BY <1>2, <3>1
  <2> QED  BY <2>1, <2>2, Zenon DEF PairProgress
<1>3. TwoTexts \subseteq P
  BY <1>2, SizeInduction
<1> QED  BY <1>1, <1>3

(* What holds of a text when it holds of its tail holds of all. *)
LEMMA TextInduction ==
  ASSUME NEW P, <<>> \in P, \A t \in Texts : t # <<>> /\ Tail(t) \in P => t \in P
  PROVE  Texts \subseteq P
<1> DEFINE size == [t \in Texts |-> Len(t)]
<1>1. size \in [Texts -> Nat] /\ \A t \in Texts : size[t] = Len(t)
  BY TextLetters
<1> HIDE DEF size
<1>2. ASSUME NEW t \in Texts, \A q \in Texts : size[q] < size[t] => q \in P  PROVE t \in P
  <2>1. CASE t = <<>>
    BY <2>1
  <2>2. CASE t # <<>>
    <3>1. Tail(t) \in Texts /\ size[Tail(t)] < size[t]
      <4>1. Tail(t) \in Texts /\ Len(t) \in Nat \ {0} /\ Len(Tail(t)) = Len(t) - 1
        BY <2>2, TailIsSkip
      <4>2. size[Tail(t)] = Len(Tail(t)) /\ size[t] = Len(t)
        BY <1>1, <4>1, Zenon
      <4> QED  BY <4>1, <4>2
    <3> QED  BY <1>2, <2>2, <3>1
  <2> QED  BY <2>1, <2>2
<1> QED  BY <1>1, <1>2, SizeInduction

(* The first letter and the tail of two texts put together. *)
LEMMA JoinHolds ==
  ASSUME NEW a \in Texts, NEW b \in Texts
  PROVE  /\ a \o b \in Texts /\ Len(a \o b) = Len(a) + Len(b)
         /\ <<>> \o b = b /\ a \o <<>> = a /\ <<>> \in Texts
         /\ a # <<>> => a \o b # <<>> /\ (a \o b)[1] = a[1] /\ Tail(a \o b) = Tail(a) \o b
<1>1. a \in Seq(1 .. 255) /\ b \in Seq(1 .. 255) /\ Len(a) \in Nat /\ Len(b) \in Nat
  BY TextLetters
<1>2. /\ a \o b \in Seq(1 .. 255) /\ Len(a \o b) = Len(a) + Len(b)
      /\ \A i \in 1 .. Len(a) + Len(b) : (a \o b)[i] = IF i <= Len(a) THEN a[i] ELSE b[i - Len(a)]
  BY <1>1, ConcatProperties
<1>3. <<>> \o b = b /\ a \o <<>> = a /\ <<>> \in Seq(1 .. 255)
  BY <1>1, ConcatEmptySeq, EmptySeq
<1>4. ASSUME a # <<>>
      PROVE  a \o b # <<>> /\ (a \o b)[1] = a[1] /\ Tail(a \o b) = Tail(a) \o b
  <2> DEFINE t == a \o b
  <2>1. Len(a) > 0 /\ 1 \in 1 .. Len(a) + Len(b) /\ 1 <= Len(a)
    BY <1>1, <1>4, EmptySeq
  <2>2. t # <<>> /\ t[1] = a[1] /\ t \in Seq(1 .. 255) /\ Len(t) = Len(a) + Len(b)
    BY <1>1, <1>2, <2>1, EmptySeq
  <2> HIDE DEF t
  <2>3. /\ Tail(a) \in Seq(1 .. 255) /\ Len(Tail(a)) = Len(a) - 1
        /\ \A i \in 1 .. Len(Tail(a)) : Tail(a)[i] = a[i + 1]
    BY <1>1, <1>4, HeadTailProperties
  <2>4. /\ Tail(t) \in Seq(1 .. 255) /\ Len(Tail(t)) = Len(t) - 1
        /\ \A i \in 1 .. Len(Tail(t)) : Tail(t)[i] = t[i + 1]
    BY <2>2, HeadTailProperties
  <2> DEFINE u == Tail(a) \o b
  <2>5. /\ u \in Seq(1 .. 255) /\ Len(u) = Len(Tail(a)) + Len(b)
        /\ \A i \in 1 .. Len(Tail(a)) + Len(b) :
             u[i] = IF i <= Len(Tail(a)) THEN Tail(a)[i] ELSE b[i - Len(Tail(a))]
    BY <1>1, <2>3, ConcatProperties
  <2> HIDE DEF u
  <2>6. Len(u) = Len(Tail(t)) /\ Len(u) = (Len(a) - 1) + Len(b)
    BY <1>1, <2>2, <2>3, <2>4, <2>5
  <2>7. ASSUME NEW i \in 1 .. Len(u)  PROVE u[i] = Tail(t)[i]
    <3>1. i \in 1 .. (Len(a) - 1) + Len(b) /\ i + 1 \in 1 .. Len(a) + Len(b)
      BY <1>1, <2>6
    <3>2. Tail(t)[i] = t[i + 1]
      BY <2>4, <2>6
    <3>3. t[i + 1] = IF i + 1 <= Len(a) THEN a[i + 1] ELSE b[(i + 1) - Len(a)]
      BY <1>2, <3>1 DEF t
    <3>4. u[i] = IF i <= Len(a) - 1 THEN Tail(a)[i] ELSE b[i - (Len(a) - 1)]
      BY <2>3, <2>5, <3>1
    <3>5. CASE i <= Len(a) - 1
      <4>1. Tail(a)[i] = a[i + 1] /\ i + 1 <= Len(a)
        BY <1>1, <2>3, <3>1, <3>5
      <4> QED  BY <3>2, <3>3, <3>4, <3>5, <4>1
    <3>6. CASE ~(i <= Len(a) - 1)
      <4>1. ~(i + 1 <= Len(a)) /\ (i + 1) - Len(a) = i - (Len(a) - 1)
        BY <1>1, <3>1, <3>6
      <4> QED  BY <3>2, <3>3, <3>4, <3>6, <4>1
    <3> QED  BY <3>5, <3>6
  <2>8. u = Tail(t)
    BY <2>4, <2>5, <2>6, <2>7, SeqEqual
  <2> QED  BY <2>2, <2>8 DEF t, u
<1> QED  BY <1>2, <1>3, <1>4 DEF Texts

(* Where three texts are put together does not matter. *)
LEMMA JoinThrice ==
  ASSUME NEW a \in Texts, NEW b \in Texts, NEW c \in Texts
  PROVE  (a \o b) \o c = a \o (b \o c)
BY ConcatAssociative DEF Texts

(* Texts without wildcards: their parts have none either. *)
LEMMA NoWildTail ==
  ASSUME NEW t \in Texts, ~WildMask(t), t # <<>>
  PROVE  ~WildMask(Tail(t)) /\ t[1] # Ast /\ t[1] # Quest
<1>1. /\ Len(t) \in Nat \ {0} /\ Len(Tail(t)) = Len(t) - 1 /\ Tail(t) \in Texts
      /\ \A i \in 1 .. Len(t) - 1 : Tail(t)[i] = t[i + 1]
  BY TailIsSkip
<1>2. DOMAIN t = 1 .. Len(t) /\ DOMAIN Tail(t) = 1 .. Len(t) - 1
  BY <1>1 DEF Texts
<1>3. \A i \in 1 .. Len(t) : ~Wild(t[i])
  BY <1>2, Zenon DEF WildMask
<1>4. \A i \in 1 .. Len(t) - 1 : ~Wild(Tail(t)[i])
  <2>1. \A i \in 1 .. Len(t) - 1 : i + 1 \in 1 .. Len(t)
    BY <1>1
  <2> QED  BY <1>1, <1>3, <2>1, Zenon
<1>5. ~Wild(t[1])
  <2>1. 1 \in 1 .. Len(t)
    BY <1>1
  <2> QED  BY <1>3, <2>1
<1> QED  BY <1>2, <1>4, <1>5, Zenon DEF WildMask, Wild

-------------------------------------------------------------------------------
(* What matches. *)

(* How a pattern that begins with a sign matches. *)
LEMMA MatchSteps ==
  ASSUME NEW p \in Texts, NEW w \in Texts
  PROVE  /\ p = <<>> => (Matches[<<p, w>>] <=> w = <<>>)
         /\ p # <<>> /\ p[1] = Ast =>
              (Matches[<<p, w>>] <=> Matches[<<Tail(p), w>>] \/ (w # <<>> /\ Matches[<<p, Tail(w)>>]))
         /\ p # <<>> /\ p[1] # Ast =>
              (Matches[<<p, w>>] <=> w # <<>> /\ p[1] \in {Quest, w[1]} /\ Matches[<<Tail(p), Tail(w)>>])
<1>1. Matches[<<p, w>>] =
        IF p = <<>> THEN w = <<>>
        ELSE IF p[1] = Ast THEN Matches[<<Tail(p), w>>] \/ (w # <<>> /\ Matches[<<p, Tail(w)>>])
        ELSE w # <<>> /\ p[1] \in {Quest, w[1]} /\ Matches[<<Tail(p), Tail(w)>>]
  BY MatchesIs
<1> QED  BY <1>1

(* A beginning that the pattern and the text share does not matter. *)
LEMMA MatchShared ==
  ASSUME NEW u \in Texts, ~WildMask(u), NEW p \in Texts, NEW w \in Texts
  PROVE  Matches[<<u \o p, u \o w>>] <=> Matches[<<p, w>>]
<1> DEFINE Good(t) == ~WildMask(t) => (Matches[<<t \o p, t \o w>>] <=> Matches[<<p, w>>])
           P == {t \in Texts : Good(t)}
<1>1. <<>> \in P
  <2>1. <<>> \in Texts /\ <<>> \o p = p /\ <<>> \o w = w
    BY JoinHolds
  <2>2. Good(<<>>)
    BY <2>1
  <2> HIDE DEF Good
  <2> QED  BY <2>1, <2>2
<1>2. ASSUME NEW t \in Texts, t # <<>>, Tail(t) \in P  PROVE t \in P
  <2>1. Good(Tail(t))
    BY <1>2
  <2>2. ASSUME ~WildMask(t)  PROVE Matches[<<t \o p, t \o w>>] <=> Matches[<<p, w>>]
    <3>1. ~WildMask(Tail(t)) /\ t[1] # Ast /\ t[1] # Quest
      BY <1>2, <2>2, NoWildTail
    <3>2. /\ t \o p \in Texts /\ t \o p # <<>> /\ (t \o p)[1] = t[1] /\ Tail(t \o p) = Tail(t) \o p
          /\ t \o w \in Texts /\ t \o w # <<>> /\ (t \o w)[1] = t[1] /\ Tail(t \o w) = Tail(t) \o w
      BY <1>2, JoinHolds
    <3>3. Matches[<<t \o p, t \o w>>] <=> Matches[<<Tail(t) \o p, Tail(t) \o w>>]
      <4> DEFINE q == t \o p
                 v == t \o w
      <4>1. /\ q \in Texts /\ q # <<>> /\ q[1] # Ast /\ v \in Texts /\ v # <<>> /\ q[1] = v[1]
        BY <3>1, <3>2
      <4> HIDE DEF q, v
      <4>2. Matches[<<q, v>>] <=> Matches[<<Tail(q), Tail(v)>>]
        BY <4>1, MatchSteps
      <4> QED  BY <3>2, <4>2 DEF q, v
    <3>4. Matches[<<Tail(t) \o p, Tail(t) \o w>>] <=> Matches[<<p, w>>]
      BY <2>1, <3>1, Zenon
    <3> QED  BY <3>3, <3>4
  <2>3. Good(t)
    BY <2>2
  <2> HIDE DEF Good
  <2> QED  BY <2>3
<1>3. u \in P
  <2> HIDE DEF P
  <2> QED  BY <1>1, <1>2, TextInduction
<1> QED  BY <1>3

(* What is left of an asterisk is nothing or an asterisk. *)
LEMMA AsteriskTail ==
  ASSUME NEW s \in Texts, IsAsterisk(s)
  PROVE  s # <<>> /\ s[1] = Ast /\ (Tail(s) = <<>> \/ IsAsterisk(Tail(s)))
<1>1. s # <<>> /\ \A i \in DOMAIN s : s[i] = Ast
  BY DEF IsAsterisk
<1>2. /\ Len(s) \in Nat \ {0} /\ Len(Tail(s)) = Len(s) - 1 /\ Tail(s) \in Texts
      /\ \A i \in 1 .. Len(s) - 1 : Tail(s)[i] = s[i + 1]
  BY <1>1, TailIsSkip
<1>3. DOMAIN s = 1 .. Len(s) /\ DOMAIN Tail(s) = 1 .. Len(s) - 1
  BY <1>2 DEF Texts
<1>4. \A i \in 1 .. Len(s) - 1 : i + 1 \in 1 .. Len(s)
  BY <1>2
<1>5. \A i \in DOMAIN Tail(s) : Tail(s)[i] = Ast
  BY <1>1, <1>2, <1>3, <1>4
<1>6. s[1] = Ast
  <2>1. 1 \in 1 .. Len(s)
    BY <1>2
  <2> QED  BY <1>1, <1>3, <2>1
<1> QED  BY <1>1, <1>5, <1>6 DEF IsAsterisk

(* An asterisk matches everything. *)
LEMMA AsteriskMatches ==
  ASSUME NEW s \in Texts, IsAsterisk(s), NEW w \in Texts
  PROVE  Matches[<<s, w>>]
<1> DEFINE Good(p, v) == IsAsterisk(p) => Matches[<<p, v>>]
           P == {x \in TwoTexts : Good(x[1], x[2])}
<1>1. \A p, v \in Texts : <<p, v>> \in P <=> Good(p, v)
  BY DEF TwoTexts
<1>2. ASSUME NEW p \in Texts, NEW v \in Texts,
             \A q, u \in Texts : Len(q) + Len(u) < Len(p) + Len(v) => <<q, u>> \in P
      PROVE  Good(p, v)
  <2> SUFFICES ASSUME IsAsterisk(p)  PROVE Matches[<<p, v>>]
    OBVIOUS
  <2>1. /\ p # <<>> /\ p[1] = Ast /\ (Tail(p) = <<>> \/ IsAsterisk(Tail(p)))
        /\ Tail(p) \in Texts /\ Len(p) \in Nat \ {0} /\ Len(Tail(p)) = Len(p) - 1 /\ Len(v) \in Nat
    BY AsteriskTail, TailIsSkip, TextLetters
  <2> HIDE DEF P
  <2>2. CASE v = <<>> /\ Tail(p) = <<>>
    BY <2>1, <2>2, MatchSteps
  <2>3. CASE v = <<>> /\ Tail(p) # <<>>
    <3>1. <<Tail(p), v>> \in P
      <4>1. Len(Tail(p)) + Len(v) < Len(p) + Len(v)
        BY <2>1
      <4> QED  BY <1>2, <2>1, <4>1, Zenon
    <3>2. Matches[<<Tail(p), v>>]
      BY <1>1, <2>1, <2>3, <3>1
    <3> QED  BY <2>1, <3>2, MatchSteps
  <2>4. CASE v # <<>>
    <3>1. Tail(v) \in Texts /\ Len(Tail(v)) = Len(v) - 1 /\ Len(v) \in Nat \ {0}
      BY <2>4, TailIsSkip
    <3>2. <<p, Tail(v)>> \in P
      <4>1. Len(p) + Len(Tail(v)) < Len(p) + Len(v)
        BY <2>1, <3>1
      <4> QED  BY <1>2, <3>1, <4>1, Zenon
    <3>3. Matches[<<p, Tail(v)>>]
      BY <1>1, <3>1, <3>2
    <3> QED  BY <2>1, <2>4, <3>3, MatchSteps
  <2> QED  BY <2>2, <2>3, <2>4
<1>3. PairProgress(P)
  <2> HIDE DEF P, Good
  <2> QED  BY <1>1, <1>2, Zenon DEF PairProgress
<1>4. Good(s, w)
  <2> HIDE DEF P, Good
  <2> QED  BY <1>1, <1>3, PairInduction
<1> QED  BY <1>4

(* The parts of a text without wildcards have none. *)
LEMMA NoWildParts ==
  ASSUME NEW t \in Texts, ~WildMask(t), NEW n \in 0 .. Len(t)
  PROVE  ~WildMask(SubSeq(t, 1, n)) /\ ~WildMask(Skip(t, n))
<1>1. /\ Skip(t, n) \in Texts /\ Len(Skip(t, n)) = Len(t) - n
      /\ \A i \in 1 .. Len(t) - n : Skip(t, n)[i] = t[n + i]
      /\ SubSeq(t, 1, n) \in Texts /\ Len(SubSeq(t, 1, n)) = n
      /\ \A i \in 1 .. n : SubSeq(t, 1, n)[i] = t[i]
  BY SkipHolds
<1>2. /\ DOMAIN t = 1 .. Len(t) /\ DOMAIN Skip(t, n) = 1 .. Len(t) - n /\ DOMAIN SubSeq(t, 1, n) = 1 .. n
      /\ Len(t) \in Nat
  BY <1>1 DEF Texts
<1>3. \A i \in 1 .. Len(t) : ~Wild(t[i])
  BY <1>2, Zenon DEF WildMask
<1>4. (\A i \in 1 .. Len(t) - n : n + i \in 1 .. Len(t)) /\ (\A i \in 1 .. n : i \in 1 .. Len(t))
  BY <1>2
<1>5. \A i \in DOMAIN Skip(t, n) : ~Wild(Skip(t, n)[i])
  BY <1>1, <1>2, <1>3, <1>4, Zenon
<1>6. \A i \in DOMAIN SubSeq(t, 1, n) : ~Wild(SubSeq(t, 1, n)[i])
  BY <1>1, <1>2, <1>3, <1>4, Zenon
<1> QED  BY <1>5, <1>6, Zenon DEF WildMask

(* Two texts are their common beginning and what is left of them. *)
LEMMA SharedSplits ==
  ASSUME NEW a \in Texts, NEW b \in Texts, ~WildMask(a)
  PROVE  \E u, s, r \in Texts :
           /\ s = Skip(b, Common(a, b)) /\ r = Skip(a, Common(a, b))
           /\ b = u \o s /\ a = u \o r /\ ~WildMask(u) /\ ~WildMask(r)
           /\ Len(s) <= Len(b) /\ Len(r) <= Len(a) /\ Len(u) = Common(a, b)
           /\ r # <<>> /\ s # <<>> => r[1] # s[1]
<1> DEFINE n == Common(a, b)
           u == SubSeq(a, 1, n)
           s == Skip(b, n)
           r == Skip(a, n)
<1>1. Len(a) \in Nat /\ Len(b) \in Nat
  BY TextLetters
<1>2. /\ n \in Nat /\ n <= Len(a) /\ n <= Len(b) /\ \A i \in 1 .. n : a[i] = b[i]
      /\ n = Len(a) \/ n = Len(b) \/ a[n + 1] # b[n + 1]
  BY CommonHolds
<1> HIDE DEF n
<1>3. n \in 0 .. Len(a) /\ n \in 0 .. Len(b)
  BY <1>1, <1>2
<1>4. /\ r \in Texts /\ Len(r) = Len(a) - n /\ \A i \in 1 .. Len(a) - n : r[i] = a[n + i]
      /\ u \in Texts /\ Len(u) = n /\ \A i \in 1 .. n : u[i] = a[i]
      /\ a = u \o r
  BY <1>3, SkipHolds
<1>5. /\ s \in Texts /\ Len(s) = Len(b) - n /\ \A i \in 1 .. Len(b) - n : s[i] = b[n + i]
      /\ SubSeq(b, 1, n) \in Texts /\ Len(SubSeq(b, 1, n)) = n
      /\ \A i \in 1 .. n : SubSeq(b, 1, n)[i] = b[i]
      /\ b = SubSeq(b, 1, n) \o s
  BY <1>3, SkipHolds
<1>6. SubSeq(b, 1, n) = u
  <2> DEFINE v == SubSeq(b, 1, n)
  <2>1. v \in Seq(1 .. 255) /\ u \in Seq(1 .. 255) /\ Len(v) = Len(u) /\ \A i \in 1 .. Len(v) : v[i] = u[i]
    BY <1>2, <1>4, <1>5 DEF Texts
  <2> HIDE DEF u, v
  <2>2. v = u
    BY <2>1, SeqEqual
  <2> QED  BY <2>2 DEF v
<1>7. ~WildMask(u) /\ ~WildMask(r)
  BY <1>3, NoWildParts
<1>8. r # <<>> /\ s # <<>> => r[1] # s[1]
  <2> SUFFICES ASSUME r # <<>>, s # <<>>  PROVE r[1] # s[1]
    OBVIOUS
  <2>1. 1 \in 1 .. Len(r) /\ 1 \in 1 .. Len(s)
    BY FirstLetter, <1>4, <1>5
  <2>2. n # Len(a) /\ n # Len(b)
    BY <1>1, <1>2, <1>4, <1>5, <2>1
  <2> QED  BY <1>2, <1>4, <1>5, <2>1, <2>2
<1>9. Len(s) <= Len(b) /\ Len(r) <= Len(a) /\ Len(u) = n
  BY <1>1, <1>2, <1>4, <1>5
<1> HIDE DEF s, r, u
<1>10. /\ s = Skip(b, Common(a, b)) /\ r = Skip(a, Common(a, b)) /\ Len(u) = Common(a, b)
  BY <1>9 DEF s, r, n
<1>11. b = u \o s
  BY <1>5, <1>6
<1> QED  BY <1>4, <1>5, <1>7, <1>8, <1>9, <1>10, <1>11

-------------------------------------------------------------------------------
(* What the scanners take matches. *)

(* str and post behind what they share: s and p, compared from there on. *)
PostCase(str, post, u, s, p) ==
  /\ s = Skip(str, Common(str, post)) /\ p = Skip(post, Common(str, post))
  /\ str = u \o s /\ post = u \o p /\ ~WildMask(u) /\ ~WildMask(p)
  /\ Len(s) <= Len(str) /\ Len(p) <= Len(post) /\ Len(u) = Common(str, post)
  /\ p # <<>> /\ s # <<>> => p[1] # s[1]
  /\ s = <<>> => (GetPostMatch[<<str, post>>] <=> p = <<>>)
  /\ s # <<>> /\ p = <<>> => (GetPostMatch[<<str, post>>] <=> IsAsterisk(s))
  /\ s # <<>> /\ p # <<>> =>
       (GetPostMatch[<<str, post>>] <=>
          \/ s[1] = Quest /\ GetPostMatch[<<Tail(s), Tail(p)>>]
          \/ s[1] = Ast /\ (GetPostMatch[<<s, Tail(p)>>] \/ GetPostMatch[<<Tail(s), Tail(p)>>]))

(* How a pattern is compared with a postfix. *)
LEMMA PostSteps ==
  ASSUME NEW str \in Texts, NEW post \in Texts, ~WildMask(post)
  PROVE  /\ post = <<>> => (GetPostMatch[<<str, post>>] <=> str = <<>>)
         /\ post # <<>> => \E u, s, p \in Texts : PostCase(str, post, u, s, p)
<1> DEFINE n == Common(str, post)
<1>1. n = Common(post, str)
  <2>1. /\ n \in Nat /\ n <= Len(str) /\ n <= Len(post) /\ \A i \in 1 .. n : str[i] = post[i]
        /\ n = Len(str) \/ n = Len(post) \/ str[n + 1] # post[n + 1]
    BY CommonHolds
  <2> DEFINE m == Common(post, str)
  <2>2. /\ m \in Nat /\ m <= Len(post) /\ m <= Len(str) /\ \A i \in 1 .. m : post[i] = str[i]
        /\ m = Len(post) \/ m = Len(str) \/ post[m + 1] # str[m + 1]
    BY CommonHolds
  <2> HIDE DEF n, m
  <2>3. Len(str) \in Nat /\ Len(post) \in Nat
    BY TextLetters
  <2>4. ~(n < m)
    <3> SUFFICES ASSUME n < m  PROVE FALSE
      OBVIOUS
    <3>1. n + 1 \in 1 .. m /\ n # Len(str) /\ n # Len(post)
      BY <2>1, <2>2, <2>3
    <3> QED  BY <2>1, <2>2, <3>1
  <2>5. ~(m < n)
    <3> SUFFICES ASSUME m < n  PROVE FALSE
      OBVIOUS
    <3>1. m + 1 \in 1 .. n /\ m # Len(str) /\ m # Len(post)
      BY <2>1, <2>2, <2>3
    <3> QED  BY <2>1, <2>2, <3>1
  <2>6. n = m
    BY <2>1, <2>2, <2>4, <2>5
  <2> QED  BY <2>6 DEF n, m
<1>2. GetPostMatch[<<str, post>>] =
        LET s == Skip(str, n)
            p == Skip(post, n)
        IN IF post = <<>> THEN str = <<>>
           ELSE IF s = <<>> THEN p = <<>>
           ELSE IF p = <<>> THEN IsAsterisk(s)
           ELSE \/ s[1] = Quest /\ GetPostMatch[<<Tail(s), Tail(p)>>]
                \/ /\ s[1] = Ast
                   /\ GetPostMatch[<<s, Tail(p)>>] \/ GetPostMatch[<<Tail(s), Tail(p)>>]
  BY PostMatchIs
<1>3. PICK u \in Texts, s \in Texts, p \in Texts :
        /\ s = Skip(str, n) /\ p = Skip(post, n)
        /\ str = u \o s /\ post = u \o p /\ ~WildMask(u) /\ ~WildMask(p)
        /\ Len(s) <= Len(str) /\ Len(p) <= Len(post) /\ Len(u) = n
        /\ p # <<>> /\ s # <<>> => p[1] # s[1]
  <2>1. PICK u \in Texts, s \in Texts, p \in Texts :
          /\ s = Skip(str, Common(post, str)) /\ p = Skip(post, Common(post, str))
          /\ str = u \o s /\ post = u \o p /\ ~WildMask(u) /\ ~WildMask(p)
          /\ Len(s) <= Len(str) /\ Len(p) <= Len(post) /\ Len(u) = Common(post, str)
          /\ p # <<>> /\ s # <<>> => p[1] # s[1]
    BY SharedSplits
  <2> QED  BY <1>1, <2>1, Zenon
<1>4. post = <<>> => (GetPostMatch[<<str, post>>] <=> str = <<>>)
  BY <1>2, Zenon
<1>5. post # <<>> =>
        GetPostMatch[<<str, post>>] =
          IF s = <<>> THEN p = <<>>
          ELSE IF p = <<>> THEN IsAsterisk(s)
          ELSE \/ s[1] = Quest /\ GetPostMatch[<<Tail(s), Tail(p)>>]
               \/ /\ s[1] = Ast
                  /\ GetPostMatch[<<s, Tail(p)>>] \/ GetPostMatch[<<Tail(s), Tail(p)>>]
  BY <1>2, <1>3, Zenon
<1>6. post # <<>> =>
        /\ s = <<>> => (GetPostMatch[<<str, post>>] <=> p = <<>>)
        /\ s # <<>> /\ p = <<>> => (GetPostMatch[<<str, post>>] <=> IsAsterisk(s))
        /\ s # <<>> /\ p # <<>> =>
             (GetPostMatch[<<str, post>>] <=>
                \/ s[1] = Quest /\ GetPostMatch[<<Tail(s), Tail(p)>>]
                \/ s[1] = Ast /\ (GetPostMatch[<<s, Tail(p)>>] \/ GetPostMatch[<<Tail(s), Tail(p)>>]))
  BY <1>5
<1>7. post # <<>> => PostCase(str, post, u, s, p)
  BY <1>3, <1>6 DEF PostCase
<1> QED  BY <1>4, <1>7

(* What is compared with the postfix and found right matches it. *)
LEMMA PostSound ==
  ASSUME NEW str \in Texts, NEW post \in Texts, ~WildMask(post), GetPostMatch[<<str, post>>]
  PROVE  Matches[<<str, post>>]
<1> DEFINE Good(t, q) == ~WildMask(q) /\ GetPostMatch[<<t, q>>] => Matches[<<t, q>>]
           P == {x \in TwoTexts : Good(x[1], x[2])}
<1>1. \A t, q \in Texts : <<t, q>> \in P <=> Good(t, q)
  BY DEF TwoTexts
<1>2. ASSUME NEW t \in Texts, NEW q \in Texts,
             \A v, z \in Texts : Len(v) + Len(z) < Len(t) + Len(q) => <<v, z>> \in P
      PROVE  Good(t, q)
  <2> SUFFICES ASSUME ~WildMask(q), GetPostMatch[<<t, q>>]  PROVE Matches[<<t, q>>]
    OBVIOUS
  <2> HIDE DEF P
  <2>1. CASE q = <<>>
    <3>1. t = <<>>
      BY <2>1, PostSteps
    <3> QED  BY <2>1, <3>1, MatchSteps
  <2>2. CASE q # <<>>
    <3>1. PICK u \in Texts, s \in Texts, p \in Texts :
                /\ t = u \o s /\ q = u \o p /\ ~WildMask(u) /\ ~WildMask(p)
                /\ Len(s) <= Len(t) /\ Len(p) <= Len(q)
                /\ s = <<>> => (GetPostMatch[<<t, q>>] <=> p = <<>>)
                /\ s # <<>> /\ p = <<>> => (GetPostMatch[<<t, q>>] <=> IsAsterisk(s))
                /\ s # <<>> /\ p # <<>> =>
                     (GetPostMatch[<<t, q>>] <=>
                        \/ s[1] = Quest /\ GetPostMatch[<<Tail(s), Tail(p)>>]
                        \/ s[1] = Ast /\ (GetPostMatch[<<s, Tail(p)>>] \/ GetPostMatch[<<Tail(s), Tail(p)>>]))
      <4>1. PICK u \in Texts, s \in Texts, p \in Texts : PostCase(t, q, u, s, p)
        BY <2>2, PostSteps
      <4> QED  BY <4>1 DEF PostCase
    <3>2. Matches[<<t, q>>] <=> Matches[<<s, p>>]
      BY <3>1, MatchShared
    <3>3. CASE s = <<>>
      <4>1. p = <<>>
        BY <3>1, <3>3
      <4> QED  BY <3>2, <3>3, <4>1, MatchSteps
    <3>4. CASE s # <<>> /\ p = <<>>
      <4>1. IsAsterisk(s)
        BY <3>1, <3>4
      <4> QED  BY <3>2, <4>1, AsteriskMatches
    <3>5. CASE s # <<>> /\ p # <<>>
      <4>1. /\ Tail(s) \in Texts /\ Len(s) \in Nat \ {0} /\ Len(Tail(s)) = Len(s) - 1
            /\ Tail(p) \in Texts /\ Len(p) \in Nat \ {0} /\ Len(Tail(p)) = Len(p) - 1
            /\ Len(t) \in Nat /\ Len(q) \in Nat
        BY <3>5, TailIsSkip, TextLetters
      <4>2. ~WildMask(Tail(p))
        BY <3>1, <3>5, NoWildTail
      <4>3. GetPostMatch[<<Tail(s), Tail(p)>>] => Matches[<<Tail(s), Tail(p)>>]
        <5>1. Len(Tail(s)) + Len(Tail(p)) < Len(t) + Len(q)
          BY <3>1, <4>1
        <5>2. <<Tail(s), Tail(p)>> \in P
          BY <1>2, <4>1, <5>1, Zenon
        <5> QED  BY <1>1, <4>1, <4>2, <5>2
      <4>4. GetPostMatch[<<s, Tail(p)>>] => Matches[<<s, Tail(p)>>]
        <5>1. Len(s) + Len(Tail(p)) < Len(t) + Len(q)
          BY <3>1, <4>1
        <5>2. <<s, Tail(p)>> \in P
          BY <1>2, <4>1, <5>1, Zenon
        <5> QED  BY <1>1, <4>1, <4>2, <5>2
      <4>5. \/ s[1] = Quest /\ Matches[<<Tail(s), Tail(p)>>]
            \/ s[1] = Ast /\ (Matches[<<s, Tail(p)>>] \/ Matches[<<Tail(s), Tail(p)>>])
        BY <3>1, <3>5, <4>3, <4>4
      <4>6. CASE s[1] = Quest /\ Matches[<<Tail(s), Tail(p)>>]
        <5>1. Quest # Ast
          BY DEF Quest, Ast
        <5> QED  BY <3>2, <3>5, <4>6, <5>1, MatchSteps
      <4>7. CASE s[1] = Ast /\ (Matches[<<s, Tail(p)>>] \/ Matches[<<Tail(s), Tail(p)>>])
        <5>1. Matches[<<s, Tail(p)>>]
          BY <3>5, <4>1, <4>7, MatchSteps
        <5> QED  BY <3>2, <3>5, <4>7, <5>1, MatchSteps
      <4> QED  BY <4>5, <4>6, <4>7
    <3> QED  BY <3>3, <3>4, <3>5
  <2> QED  BY <2>1, <2>2
<1>3. PairProgress(P)
  <2> HIDE DEF P, Good
  <2> QED  BY <1>1, <1>2, Zenon DEF PairProgress
<1>4. Good(str, post)
  <2> HIDE DEF P, Good
  <2> QED  BY <1>1, <1>3, PairInduction
<1> QED  BY <1>4

(* How a pattern is compared with an ending. *)
LEMMA FlexSteps ==
  ASSUME NEW str \in Texts, NEW text \in Texts, NEW post \in Texts
  PROVE  FlexFits[<<str, text, post>>] <=>
           \/ text = <<>> /\ GetPostMatch[<<str, post>>]
           \/ str # <<>> /\ str[1] = Ast /\ FlexFits[<<Tail(str), text, post>>]
           \/ /\ str # <<>> /\ text # <<>> /\ str[1] \in {Quest, text[1]}
              /\ FlexFits[<<Tail(str), Tail(text), post>>]
           \/ /\ str # <<>> /\ text # <<>> /\ str[1] \notin {Quest, text[1]} /\ str[1] = Ast
              /\ \/ Len(str) = 1
                 \/ FlexFits[<<Tail(str), Tail(text), post>>]
                 \/ FlexFits[<<str, Tail(text), post>>]
<1>1. FlexFits[<<str, text, post>>] =
         \/ text = <<>> /\ GetPostMatch[<<str, post>>]
         \/ str # <<>> /\ str[1] = Ast /\ FlexFits[<<Tail(str), text, post>>]
         \/ /\ str # <<>> /\ text # <<>>
            /\ IF str[1] \in {Quest, text[1]} THEN FlexFits[<<Tail(str), Tail(text), post>>]
               ELSE /\ str[1] = Ast
                    /\ \/ Len(str) = 1
                       \/ FlexFits[<<Tail(str), Tail(text), post>>]
                       \/ FlexFits[<<str, Tail(text), post>>]
  BY FlexFitsIs
<1>2. CASE str # <<>> /\ text # <<>> /\ str[1] \in {Quest, text[1]}
  BY <1>1, <1>2
<1>3. CASE ~(str # <<>> /\ text # <<>> /\ str[1] \in {Quest, text[1]})
  BY <1>1, <1>3
<1> QED  BY <1>2, <1>3

(* One sign that is an asterisk matches everything. *)
LEMMA LoneAsterisk ==
  ASSUME NEW s \in Texts, Len(s) = 1, s[1] = Ast
  PROVE  IsAsterisk(s) /\ s # <<>> /\ Tail(s) = <<>>
<1>1. s \in Seq(1 .. 255) /\ DOMAIN s = 1 .. 1 /\ s # <<>>
  <2>1. s \in Seq(1 .. 255) /\ DOMAIN s = 1 .. Len(s)
    BY LenProperties DEF Texts
  <2>2. s # <<>>
    <3>1. Len(<<>>) = 0
      OBVIOUS
    <3> QED  BY <3>1
  <2> QED  BY <2>1, <2>2
<1>2. \A i \in DOMAIN s : s[i] = Ast
  <2>1. \A i \in 1 .. 1 : i = 1
    OBVIOUS
  <2> QED  BY <1>1, <2>1, Zenon
<1>3. Tail(s) \in Seq(1 .. 255) /\ Len(Tail(s)) = 0
  BY <1>1, HeadTailProperties
<1>4. Tail(s) = <<>>
  BY <1>3, EmptySeq
<1> QED  BY <1>1, <1>2, <1>4, Zenon DEF IsAsterisk

(* What is compared with an ending and its postfix and found right matches them. *)
LEMMA FlexSound ==
  ASSUME NEW post \in Texts, ~WildMask(post), NEW str \in Texts, NEW text \in Texts, ~WildMask(text),
         FlexFits[<<str, text, post>>]
  PROVE  Matches[<<str, text \o post>>]
<1> DEFINE Good(t, x) == ~WildMask(x) /\ FlexFits[<<t, x, post>>] => Matches[<<t, x \o post>>]
           P == {x \in TwoTexts : Good(x[1], x[2])}
<1>1. \A t, x \in Texts : <<t, x>> \in P <=> Good(t, x)
  BY DEF TwoTexts
<1>2. ASSUME NEW t \in Texts, NEW x \in Texts,
             \A v, z \in Texts : Len(v) + Len(z) < Len(t) + Len(x) => <<v, z>> \in P
      PROVE  Good(t, x)
  <2> SUFFICES ASSUME ~WildMask(x), FlexFits[<<t, x, post>>]  PROVE Matches[<<t, x \o post>>]
    OBVIOUS
  <2> HIDE DEF P
  <2>0. /\ Len(t) \in Nat /\ Len(x) \in Nat /\ x \o post \in Texts /\ Quest # Ast
        /\ x # <<>> => x \o post # <<>> /\ (x \o post)[1] = x[1] /\ Tail(x \o post) = Tail(x) \o post
    <3>1. Len(t) \in Nat /\ Len(x) \in Nat
      BY TextLetters
    <3>2. /\ x \o post \in Texts
          /\ x # <<>> => x \o post # <<>> /\ (x \o post)[1] = x[1] /\ Tail(x \o post) = Tail(x) \o post
      BY JoinHolds
    <3>3. Quest # Ast
      BY DEF Quest, Ast
    <3> QED  BY <3>1, <3>2, <3>3
  <2> DEFINE w == x \o post
  <2>1. /\ t # <<>> => Tail(t) \in Texts /\ Len(t) \in Nat \ {0} /\ Len(Tail(t)) = Len(t) - 1
        /\ x # <<>> => Tail(x) \in Texts /\ Len(x) \in Nat \ {0} /\ Len(Tail(x)) = Len(x) - 1 /\ ~WildMask(Tail(x))
    BY TailIsSkip, NoWildTail
  <2>2. t # <<>> /\ FlexFits[<<Tail(t), x, post>>] => Matches[<<Tail(t), w>>]
    <3>1. t # <<>> => Len(Tail(t)) + Len(x) < Len(t) + Len(x)
      BY <2>0, <2>1
    <3>2. t # <<>> => <<Tail(t), x>> \in P
      BY <1>2, <2>1, <3>1, Zenon
    <3> QED  BY <1>1, <2>1, <3>2
  <2>3. t # <<>> /\ x # <<>> /\ FlexFits[<<Tail(t), Tail(x), post>>] => Matches[<<Tail(t), Tail(w)>>]
    <3>1. t # <<>> /\ x # <<>> => Len(Tail(t)) + Len(Tail(x)) < Len(t) + Len(x)
      BY <2>0, <2>1
    <3>2. t # <<>> /\ x # <<>> => <<Tail(t), Tail(x)>> \in P
      BY <1>2, <2>1, <3>1, Zenon
    <3> QED  BY <1>1, <2>0, <2>1, <3>2
  <2>4. x # <<>> /\ FlexFits[<<t, Tail(x), post>>] => Matches[<<t, Tail(w)>>]
    <3>1. x # <<>> => Len(t) + Len(Tail(x)) < Len(t) + Len(x)
      BY <2>0, <2>1
    <3>2. x # <<>> => <<t, Tail(x)>> \in P
      BY <1>2, <2>1, <3>1, Zenon
    <3> QED  BY <1>1, <2>0, <2>1, <3>2
  <2>5. w \in Texts /\ (x # <<>> => w # <<>> /\ w[1] = x[1])
    BY <2>0
  <2>6. CASE x = <<>> /\ GetPostMatch[<<t, post>>]
    <3>1. w = post
      BY <2>6, JoinHolds
    <3> QED  BY <2>6, <3>1, PostSound
  <2> HIDE DEF w
  <2>7. CASE t # <<>> /\ t[1] = Ast /\ FlexFits[<<Tail(t), x, post>>]
    BY <2>2, <2>5, <2>7, MatchSteps DEF w
  <2>8. CASE t # <<>> /\ x # <<>> /\ t[1] \in {Quest, x[1]} /\ FlexFits[<<Tail(t), Tail(x), post>>]
    <3>1. t[1] # Ast
      BY <2>0, <2>8, NoWildTail
    <3> QED  BY <2>3, <2>5, <2>8, <3>1, MatchSteps DEF w
  <2>9. CASE /\ t # <<>> /\ x # <<>> /\ t[1] \notin {Quest, x[1]} /\ t[1] = Ast
             /\ \/ Len(t) = 1
                \/ FlexFits[<<Tail(t), Tail(x), post>>]
                \/ FlexFits[<<t, Tail(x), post>>]
    <3>1. CASE Len(t) = 1
      BY <2>5, <2>9, <3>1, LoneAsterisk, AsteriskMatches DEF w
    <3>2. CASE FlexFits[<<Tail(t), Tail(x), post>>] \/ FlexFits[<<t, Tail(x), post>>]
      <4>1. Matches[<<Tail(t), Tail(w)>>] \/ Matches[<<t, Tail(w)>>]
        BY <2>3, <2>4, <2>9, <3>2
      <4>2. Tail(w) \in Texts
        BY <2>5, <2>9, TailIsSkip
      <4>3. Matches[<<t, Tail(w)>>]
        BY <2>9, <4>1, <4>2, MatchSteps
      <4> QED  BY <2>5, <2>9, <4>3, MatchSteps DEF w
    <3> QED  BY <2>9, <3>1, <3>2
  <2> QED  BY <2>6, <2>7, <2>8, <2>9, FlexSteps
<1>3. PairProgress(P)
  <2> HIDE DEF P, Good
  <2> QED  BY <1>1, <1>2, Zenon DEF PairProgress
<1>4. Good(str, text)
  <2> HIDE DEF P, Good
  <2> QED  BY <1>1, <1>3, PairInduction
<1> QED  BY <1>4

(* row and str behind what they share: r and s, compared from there on. *)
IntrCase(row, str, u, s, r) ==
  /\ str = u \o s /\ row = u \o r /\ ~WildMask(u) /\ ~WildMask(r)
  /\ Len(s) <= Len(str) /\ Len(r) <= Len(row)
  /\ s = Skip(str, Len(u)) /\ Len(u) = Common(row, str)
  /\ r # <<>> /\ s # <<>> => r[1] # s[1]
  /\ r = <<>> => IntrRests[<<row, str>>] = {s}
  /\ r # <<>> /\ (s = <<>> \/ ~Wild(s[1])) => IntrRests[<<row, str>>] = {}
  /\ r # <<>> /\ s # <<>> /\ s[1] = Quest => IntrRests[<<row, str>>] = IntrRests[<<Tail(r), Tail(s)>>]
  /\ r # <<>> /\ s # <<>> /\ s[1] = Ast =>
       IntrRests[<<row, str>>] = IntrRests[<<r, Tail(s)>>] \cup IntrRests[<<Tail(r), s>>]

(* How a pattern is compared with a row. *)
LEMMA IntrSteps ==
  ASSUME NEW row \in Texts, NEW str \in Texts, ~WildMask(row)
  PROVE  \E u, s, r \in Texts : IntrCase(row, str, u, s, r)
<1>1. PICK u \in Texts, s \in Texts, r \in Texts :
        /\ s = Skip(str, Common(row, str)) /\ r = Skip(row, Common(row, str))
        /\ str = u \o s /\ row = u \o r /\ ~WildMask(u) /\ ~WildMask(r)
        /\ Len(s) <= Len(str) /\ Len(r) <= Len(row) /\ Len(u) = Common(row, str)
        /\ r # <<>> /\ s # <<>> => r[1] # s[1]
  BY SharedSplits
<1>2. IntrRests[<<row, str>>] =
        IF r = <<>> THEN {s}
        ELSE IF s = <<>> \/ ~Wild(s[1]) THEN {}
        ELSE IF s[1] = Quest THEN IntrRests[<<Tail(r), Tail(s)>>]
        ELSE IntrRests[<<r, Tail(s)>>] \cup IntrRests[<<Tail(r), s>>]
  BY <1>1, IntrRestsIs, Zenon
<1>3. /\ r = <<>> => IntrRests[<<row, str>>] = {s}
      /\ r # <<>> /\ (s = <<>> \/ ~Wild(s[1])) => IntrRests[<<row, str>>] = {}
  BY <1>2, Zenon
<1>4. r # <<>> /\ s # <<>> /\ s[1] = Quest => IntrRests[<<row, str>>] = IntrRests[<<Tail(r), Tail(s)>>]
  <2>1. s[1] = Quest => Wild(s[1])
    BY DEF Wild
  <2> QED  BY <1>2, <2>1, Zenon
<1>5. r # <<>> /\ s # <<>> /\ s[1] = Ast =>
        IntrRests[<<row, str>>] = IntrRests[<<r, Tail(s)>>] \cup IntrRests[<<Tail(r), s>>]
  <2>1. s[1] = Ast => Wild(s[1]) /\ s[1] # Quest
    BY DEF Wild, Ast, Quest
  <2> QED  BY <1>2, <2>1, Zenon
<1>6. IntrCase(row, str, u, s, r)
  BY <1>1, <1>3, <1>4, <1>5, Zenon DEF IntrCase
<1> QED  BY <1>6

(* Behind a row the pattern has to match what stands behind the row. *)
LEMMA IntrSound ==
  ASSUME NEW y \in Texts, NEW row \in Texts, NEW str \in Texts, ~WildMask(row),
         NEW z \in IntrRests[<<row, str>>], Matches[<<z, y>>]
  PROVE  z \in Texts /\ Matches[<<str, row \o y>>]
<1>0. z \in Texts
  BY IntrRestsIs DEF TwoTexts
<1> DEFINE Good(q, t) == ~WildMask(q) /\ z \in IntrRests[<<q, t>>] => Matches[<<t, q \o y>>]
           P == {x \in TwoTexts : Good(x[1], x[2])}
<1>1. \A q, t \in Texts : <<q, t>> \in P <=> Good(q, t)
  BY DEF TwoTexts
<1>2. ASSUME NEW q \in Texts, NEW t \in Texts,
             \A a, b \in Texts : Len(a) + Len(b) < Len(q) + Len(t) => <<a, b>> \in P
      PROVE  Good(q, t)
  <2> SUFFICES ASSUME ~WildMask(q), z \in IntrRests[<<q, t>>]  PROVE Matches[<<t, q \o y>>]
    OBVIOUS
  <2> HIDE DEF P
  <2>1. PICK u \in Texts, s \in Texts, r \in Texts : IntrCase(q, t, u, s, r)
    BY IntrSteps
  <2>2. /\ t = u \o s /\ q = u \o r /\ ~WildMask(u) /\ ~WildMask(r)
        /\ Len(s) <= Len(t) /\ Len(r) <= Len(q)
    BY <2>1 DEF IntrCase
  <2>3. q \o y = u \o (r \o y) /\ r \o y \in Texts
        /\ (r # <<>> => r \o y # <<>> /\ (r \o y)[1] = r[1] /\ Tail(r \o y) = Tail(r) \o y)
    <3>1. (u \o r) \o y = u \o (r \o y)
      BY JoinThrice
    <3>2. /\ r \o y \in Texts
          /\ r # <<>> => r \o y # <<>> /\ (r \o y)[1] = r[1] /\ Tail(r \o y) = Tail(r) \o y
      BY JoinHolds
    <3> QED  BY <2>2, <3>1, <3>2, Zenon
  <2>4. Matches[<<t, q \o y>>] <=> Matches[<<s, r \o y>>]
    <3> DEFINE v == r \o y
    <3>1. v \in Texts /\ q \o y = u \o v /\ t = u \o s
      BY <2>2, <2>3
    <3> HIDE DEF v
    <3>2. Matches[<<u \o s, u \o v>>] <=> Matches[<<s, v>>]
      BY <2>2, <3>1, MatchShared
    <3> QED  BY <3>1, <3>2 DEF v
  <2>5. /\ Len(q) \in Nat /\ Len(t) \in Nat /\ Len(s) \in Nat /\ Len(r) \in Nat
        /\ s # <<>> => Tail(s) \in Texts /\ Len(s) \in Nat \ {0} /\ Len(Tail(s)) = Len(s) - 1
        /\ r # <<>> => Tail(r) \in Texts /\ Len(r) \in Nat \ {0} /\ Len(Tail(r)) = Len(r) - 1 /\ ~WildMask(Tail(r))
    BY <2>2, TailIsSkip, NoWildTail, TextLetters
  <2>6. CASE r = <<>>
    <3>1. z = s
      BY <2>1, <2>6 DEF IntrCase
    <3>2. r \o y = y
      BY <2>6, JoinHolds
    <3> QED  BY <2>4, <3>1, <3>2
  <2>7. CASE r # <<>> /\ s # <<>> /\ s[1] = Quest
    <3>1. z \in IntrRests[<<Tail(r), Tail(s)>>]
      BY <2>1, <2>7 DEF IntrCase
    <3>2. <<Tail(r), Tail(s)>> \in P
      <4>1. Len(Tail(r)) + Len(Tail(s)) < Len(q) + Len(t)
        BY <2>2, <2>5, <2>7
      <4> QED  BY <1>2, <2>5, <2>7, <4>1, Zenon
    <3>3. Matches[<<Tail(s), Tail(r) \o y>>]
      BY <1>1, <2>5, <2>7, <3>1, <3>2
    <3>4. Quest # Ast
      BY DEF Quest, Ast
    <3> DEFINE v == r \o y
    <3>5. v \in Texts /\ v # <<>> /\ Matches[<<Tail(s), Tail(v)>>]
      BY <2>3, <2>7, <3>3
    <3> HIDE DEF v
    <3>6. Matches[<<s, v>>]
      BY <2>7, <3>4, <3>5, MatchSteps
    <3> QED  BY <2>4, <3>6 DEF v
  <2>8. CASE r # <<>> /\ s # <<>> /\ s[1] = Ast
    <3>1. z \in IntrRests[<<r, Tail(s)>>] \/ z \in IntrRests[<<Tail(r), s>>]
      BY <2>1, <2>8 DEF IntrCase
    <3>2. CASE z \in IntrRests[<<r, Tail(s)>>]
      <4>1. <<r, Tail(s)>> \in P
        <5>1. Len(r) + Len(Tail(s)) < Len(q) + Len(t)
          BY <2>2, <2>5, <2>8
        <5> QED  BY <1>2, <2>5, <2>8, <5>1, Zenon
      <4>2. Matches[<<Tail(s), r \o y>>]
        BY <1>1, <2>2, <2>5, <2>8, <3>2, <4>1
      <4> DEFINE v == r \o y
      <4>3. v \in Texts /\ Matches[<<Tail(s), v>>]
        BY <2>3, <4>2
      <4> HIDE DEF v
      <4>4. Matches[<<s, v>>]
        BY <2>8, <4>3, MatchSteps
      <4> QED  BY <2>4, <4>4 DEF v
    <3>3. CASE z \in IntrRests[<<Tail(r), s>>]
      <4>1. <<Tail(r), s>> \in P
        <5>1. Len(Tail(r)) + Len(s) < Len(q) + Len(t)
          BY <2>2, <2>5, <2>8
        <5> QED  BY <1>2, <2>5, <2>8, <5>1, Zenon
      <4>2. Matches[<<s, Tail(r) \o y>>]
        BY <1>1, <2>5, <2>8, <3>3, <4>1
      <4> DEFINE v == r \o y
      <4>3. v \in Texts /\ v # <<>> /\ Matches[<<s, Tail(v)>>]
        BY <2>3, <2>8, <4>2
      <4> HIDE DEF v
      <4>4. Matches[<<s, v>>]
        BY <2>8, <4>3, MatchSteps
      <4> QED  BY <2>4, <4>4 DEF v
    <3> QED  BY <3>1, <3>2, <3>3
  <2>9. ~(r # <<>> /\ (s = <<>> \/ ~Wild(s[1])))
    BY <2>1 DEF IntrCase
  <2> QED  BY <2>6, <2>7, <2>8, <2>9 DEF Wild
<1>3. PairProgress(P)
  <2> HIDE DEF P, Good
  <2> QED  BY <1>1, <1>2, Zenon DEF PairProgress
<1>4. Good(row, str)
  <2> HIDE DEF P, Good
  <2> QED  BY <1>1, <1>3, PairInduction
<1> QED  BY <1>0, <1>4

-------------------------------------------------------------------------------
(* The words of a stem. *)

(* What a stem that inflects has behind its node in the form f. *)
Rest(e, f, y) ==
  \E r \in Alternations(e), x \in e.endings :
    Allowed(e, x, r.levels) /\ f = x.form /\ y = r.text \o (x.text \o e.post)

(* The parts of a stem are texts without wildcards. *)
LEMMA PartsTame ==
  ASSUME NEW s \in Stems
  PROVE  /\ s.at \in Texts /\ ~WildMask(s.at) /\ s.entry \in StemEntry
         /\ s.entry.post \in Texts /\ ~WildMask(s.entry.post)
         /\ \A x \in s.entry.endings : x.text \in Texts /\ ~WildMask(x.text)
         /\ \A r \in Alternations(s.entry) : r.text \in Texts /\ ~WildMask(r.text)
<1>1. s.at \in Texts /\ s.entry \in StemEntry
  <2>1. s \in [at: Texts, entry: StemEntry]
    BY WildAssumption
  <2> QED  BY <2>1
<1>2. /\ s.entry.post \in Texts /\ \A x \in s.entry.endings : x.text \in Texts
      /\ DOMAIN s.entry.mix = 1 .. Len(s.entry.mix)
      /\ \A i \in 1 .. Len(s.entry.mix) : s.entry.mix[i].text \in Texts
  BY <1>1, EntryHolds
<1>3. \A t \in TextsOf(s) : ~WildMask(t)
  BY NoWildLetters
<1>4. /\ s.at \in TextsOf(s) /\ s.entry.post \in TextsOf(s)
      /\ \A x \in s.entry.endings : x.text \in TextsOf(s)
      /\ \A i \in DOMAIN s.entry.mix : s.entry.mix[i].text \in TextsOf(s)
  BY DEF TextsOf
<1>5. ASSUME NEW r \in Alternations(s.entry)  PROVE r.text \in Texts /\ ~WildMask(r.text)
  <2>1. CASE Mixes(s.entry)
    <3>1. PICK i \in DOMAIN s.entry.mix : r = s.entry.mix[i]
      BY <1>5, <2>1 DEF Alternations
    <3> QED  BY <1>2, <1>3, <1>4, <3>1
  <2>2. CASE ~Mixes(s.entry)
    <3>1. r.text = <<>>
      BY <1>5, <2>2 DEF Alternations
    <3>2. <<>> \in Texts
      BY EmptySeq DEF Texts
    <3>3. ~WildMask(<<>>)
      BY DEF WildMask
    <3> QED  BY <3>1, <3>2, <3>3
  <2> QED  BY <2>1, <2>2
<1> QED  BY <1>1, <1>2, <1>3, <1>4, <1>5

(* A word of a stem that inflects is its node with one of its rests. *)
LEMMA RestIsWord ==
  ASSUME NEW s \in Stems, Flective(s.entry)
  PROVE  /\ \A f, y : Rest(s.entry, f, y) => [text |-> s.at \o y, form |-> f] \in WordsOf(s)
         /\ \A w \in WordsOf(s) : \E y \in Texts : Rest(s.entry, w.form, y) /\ w.text = s.at \o y
<1> DEFINE e == s.entry
<1>1. /\ s.at \in Texts /\ e.post \in Texts
      /\ \A x \in e.endings : x.text \in Texts
      /\ \A r \in Alternations(e) : r.text \in Texts
  BY PartsTame
<1>2. WordsOf(s) =
        UNION {{[text |-> s.at \o r.text \o x.text \o e.post, form |-> x.form] :
                  x \in {y \in e.endings : Allowed(e, y, r.levels)}} : r \in Alternations(e)}
  BY DEF WordsOf
<1>3. ASSUME NEW r \in Alternations(e), NEW x \in e.endings
      PROVE  /\ s.at \o r.text \o x.text \o e.post = s.at \o (r.text \o (x.text \o e.post))
             /\ r.text \o (x.text \o e.post) \in Texts
  <2>1. /\ s.at \in Texts /\ e.post \in Texts /\ x.text \in Texts /\ r.text \in Texts
    BY <1>1
  <2> HIDE DEF e
  <2>2. x.text \o e.post \in Texts /\ s.at \o r.text \in Texts
    BY <2>1, JoinHolds
  <2>3. (s.at \o r.text \o x.text) \o e.post = (s.at \o r.text) \o (x.text \o e.post)
    BY <2>1, <2>2, JoinThrice
  <2>4. (s.at \o r.text) \o (x.text \o e.post) = s.at \o (r.text \o (x.text \o e.post))
    BY <2>1, <2>2, JoinThrice
  <2>5. r.text \o (x.text \o e.post) \in Texts
    BY <2>1, <2>2, JoinHolds
  <2> QED  BY <2>3, <2>4, <2>5
<1> HIDE DEF e
<1>4. ASSUME NEW f, NEW y, Rest(e, f, y)  PROVE [text |-> s.at \o y, form |-> f] \in WordsOf(s)
  <2>1. PICK r \in Alternations(e), x \in e.endings :
          Allowed(e, x, r.levels) /\ f = x.form /\ y = r.text \o (x.text \o e.post)
    BY <1>4 DEF Rest
  <2>2. [text |-> s.at \o y, form |-> f] = [text |-> s.at \o r.text \o x.text \o e.post, form |-> x.form]
    BY <1>3, <2>1, Zenon
  <2>3. [text |-> s.at \o r.text \o x.text \o e.post, form |-> x.form] \in WordsOf(s)
    <3> DEFINE W(q) == {[text |-> s.at \o q.text \o z.text \o e.post, form |-> z.form] :
                          z \in {v \in e.endings : Allowed(e, v, q.levels)}}
    <3>1. [text |-> s.at \o r.text \o x.text \o e.post, form |-> x.form] \in W(r)
      BY <2>1
    <3>2. WordsOf(s) = UNION {W(q) : q \in Alternations(e)}
      BY <1>2
    <3> HIDE DEF W
    <3> QED  BY <3>1, <3>2
  <2> QED  BY <2>2, <2>3, Zenon
<1>5. ASSUME NEW w \in WordsOf(s)
      PROVE  \E y \in Texts : Rest(e, w.form, y) /\ w.text = s.at \o y
  <2>1. PICK r \in Alternations(e), x \in e.endings :
          /\ Allowed(e, x, r.levels)
          /\ w = [text |-> s.at \o r.text \o x.text \o e.post, form |-> x.form]
    BY <1>2, <1>5, Zenon
  <2>2. w.text = s.at \o r.text \o x.text \o e.post /\ w.form = x.form
    BY <2>1
  <2>3. w.text = s.at \o (r.text \o (x.text \o e.post)) /\ r.text \o (x.text \o e.post) \in Texts
    BY <1>3, <2>2, Zenon
  <2> QED  BY <2>1, <2>2, <2>3, Zenon DEF Rest
<1> QED  BY <1>4, <1>5 DEF e

(* The forms found for a stem that inflects are forms of rests that match. *)
LEMMA FormsSound ==
  ASSUME NEW s \in Stems, Flective(s.entry), NEW str \in Texts, NEW f \in FormsOf(str, s.entry)
  PROVE  \E y \in Texts : Rest(s.entry, f, y) /\ Matches[<<str, y>>]
<1> DEFINE e == s.entry
<1>1. /\ e.post \in Texts /\ ~WildMask(e.post)
      /\ \A x \in e.endings : x.text \in Texts /\ ~WildMask(x.text)
      /\ \A r \in Alternations(e) : r.text \in Texts /\ ~WildMask(r.text)
  BY PartsTame
<1>2. ASSUME NEW t \in Texts, NEW levels, f \in GetFlexMatch(t, e, levels)
      PROVE  \E x \in e.endings :
               /\ Allowed(e, x, levels) /\ f = x.form /\ x.text \o e.post \in Texts
               /\ Matches[<<t, x.text \o e.post>>]
  <2>1. PICK x \in e.endings : Allowed(e, x, levels) /\ FlexFits[<<t, x.text, e.post>>] /\ f = x.form
    BY <1>2 DEF GetFlexMatch
  <2>2. x.text \in Texts /\ ~WildMask(x.text) /\ e.post \in Texts /\ ~WildMask(e.post)
    BY <1>1
  <2> HIDE DEF e
  <2>3. Matches[<<t, x.text \o e.post>>]
    BY <2>1, <2>2, FlexSound
  <2>4. x.text \o e.post \in Texts
    BY <2>2, JoinHolds
  <2> QED  BY <2>1, <2>3, <2>4
<1>3. CASE ~Mixes(e)
  <2>1. f \in GetFlexMatch(str, e, AnyLevel)
    BY <1>3 DEF FormsOf
  <2>2. PICK x \in e.endings :
          /\ Allowed(e, x, AnyLevel) /\ f = x.form /\ x.text \o e.post \in Texts
          /\ Matches[<<str, x.text \o e.post>>]
    BY <1>2, <2>1
  <2> DEFINE r == [text |-> <<>>, levels |-> 1 .. 3]
  <2>3. r \in Alternations(e) /\ r.text = <<>> /\ r.levels = AnyLevel
    BY <1>3 DEF Alternations, AnyLevel
  <2>4. <<>> \o (x.text \o e.post) = x.text \o e.post
    BY <2>2, JoinHolds
  <2> HIDE DEF r, e
  <2>5. Rest(e, f, x.text \o e.post)
    BY <2>2, <2>3, <2>4, Zenon DEF Rest
  <2> QED  BY <2>2, <2>5 DEF e
<1>4. CASE Mixes(e)
  <2>1. PICK i \in DOMAIN e.mix : f \in GetIntrMatch(e.mix[i].text, str, e, e.mix[i].levels)
    <3>1. f \in UNION {GetIntrMatch(e.mix[i].text, str, e, e.mix[i].levels) : i \in DOMAIN e.mix}
      BY <1>4 DEF FormsOf
    <3> HIDE DEF e
    <3> QED  BY <3>1
  <2> DEFINE r == e.mix[i]
  <2>2. r \in Alternations(e)
    BY <1>4 DEF Alternations
  <2>3. r.text \in Texts /\ ~WildMask(r.text)
    BY <1>1, <2>2
  <2> HIDE DEF r
  <2>4. f \in GetIntrMatch(r.text, str, e, r.levels)
    BY <2>1 DEF r
  <2>5. PICK z \in IntrRests[<<r.text, str>>] : f \in GetFlexMatch(z, e, r.levels)
    BY <2>4 DEF GetIntrMatch
  <2>6. z \in Texts
    BY <2>3, IntrRestsIs DEF TwoTexts
  <2>7. PICK x \in e.endings :
          /\ Allowed(e, x, r.levels) /\ f = x.form /\ x.text \o e.post \in Texts
          /\ Matches[<<z, x.text \o e.post>>]
    BY <1>2, <2>5, <2>6
  <2> DEFINE y == x.text \o e.post
  <2>8. y \in Texts /\ Matches[<<z, y>>]
    BY <2>7
  <2>9. Rest(e, f, r.text \o y)
    BY <2>2, <2>7, Zenon DEF Rest
  <2> HIDE DEF y
  <2>10. Matches[<<str, r.text \o y>>]
    BY <2>3, <2>5, <2>8, IntrSound
  <2>11. r.text \o y \in Texts
    BY <2>3, <2>8, JoinHolds
  <2> HIDE DEF e
  <2> QED  BY <2>9, <2>10, <2>11 DEF e
<1> QED  BY <1>3, <1>4

-------------------------------------------------------------------------------
(* What the walk tells is true. *)

(* P holds of a pattern at a node when it holds where the walk goes on to. *)
WalkProgress(P) ==
  \A str, node \in Texts :
    /\ str # <<>> => <<Tail(str), node>> \in P
    /\ \A k \in Kids(node) :
         /\ <<str, Append(node, k)>> \in P
         /\ str # <<>> => <<Tail(str), Append(node, k)>> \in P
    => <<str, node>> \in P

(* Then it holds everywhere: a pattern gets shorter or a node deeper. *)
LEMMA WalkInduction ==
  ASSUME DictOK, NEW P, WalkProgress(P)
  PROVE  \A str, node \in Texts : <<str, node>> \in P
<1>1. PICK depth \in Nat : \A s \in dict : Len(s.at) <= depth
  BY DepthIs
<1> DEFINE left(node) == IF Len(node) < depth THEN depth - Len(node) ELSE 0
           size == [x \in TwoTexts |-> Len(x[1]) + left(x[2])]
<1>2. /\ \A x \in TwoTexts : x = <<x[1], x[2]>> /\ x[1] \in Texts /\ x[2] \in Texts
      /\ \A str, node \in Texts : <<str, node>> \in TwoTexts /\ <<str, node>>[1] = str /\ <<str, node>>[2] = node
  BY DEF TwoTexts
<1>3. /\ \A q \in Texts : Len(q) \in Nat
      /\ \A q \in Texts : q # <<>> => Tail(q) \in Texts /\ Len(Tail(q)) = Len(q) - 1 /\ Len(Tail(q)) \in Nat
  BY TailIsSkip DEF Texts
<1>4. \A q \in Texts : left(q) \in Nat
  BY <1>3
<1>5. ASSUME NEW node \in Texts, NEW c \in Kids(node)
      PROVE  Append(node, c) \in Texts /\ left(Append(node, c)) < left(node)
  <2>1. PICK s \in dict : Append(node, c) \in Texts /\ IsPrefix(Append(node, c), s.at) /\ c \in 1 .. 255
    BY KidsHold
  <2>2. Len(Append(node, c)) <= Len(s.at) /\ Len(Append(node, c)) = Len(node) + 1
    <3>1. s.at \in Texts
      BY StemHolds
    <3>2. Len(Append(node, c)) <= Len(s.at)
      BY <2>1, <3>1, PrefixLetters
    <3>3. Len(Append(node, c)) = Len(node) + 1
      BY <2>1, AppendProperties DEF Texts
    <3> QED  BY <3>2, <3>3
  <2>3. Len(s.at) <= depth /\ Len(s.at) \in Nat /\ Len(node) \in Nat
    BY <1>1, <1>3, StemHolds
  <2> QED  BY <2>1, <2>2, <2>3
<1> HIDE DEF left
<1>6. size \in [TwoTexts -> Nat] /\ \A str, node \in Texts : size[<<str, node>>] = Len(str) + left(node)
  <2>1. ASSUME NEW x \in TwoTexts  PROVE Len(x[1]) + left(x[2]) \in Nat
    <3>1. Len(x[1]) \in Nat /\ left(x[2]) \in Nat
      BY <1>2, <1>3, <1>4, Zenon
    <3>2. \A i, j \in Nat : i + j \in Nat
      OBVIOUS
    <3> QED  BY <3>1, <3>2, Zenon
  <2>2. ASSUME NEW str \in Texts, NEW node \in Texts  PROVE size[<<str, node>>] = Len(str) + left(node)
    <3>1. size[<<str, node>>] = Len(<<str, node>>[1]) + left(<<str, node>>[2])
      BY <1>2
    <3>2. <<str, node>>[1] = str /\ <<str, node>>[2] = node
      OBVIOUS
    <3> QED  BY <3>1, <3>2
  <2> QED  BY <2>1, <2>2
<1> HIDE DEF size
<1>7. ASSUME NEW x \in TwoTexts, \A y \in TwoTexts : size[y] < size[x] => y \in P
      PROVE  x \in P
  <2>1. PICK str \in Texts, node \in Texts : x = <<str, node>>
    BY <1>2, Zenon
  <2>2. Len(str) \in Nat /\ left(node) \in Nat /\ size[x] = Len(str) + left(node)
    BY <1>3, <1>4, <1>6, <2>1
  <2>3. ASSUME NEW q \in Texts, NEW v \in Texts, Len(q) + left(v) < Len(str) + left(node)
        PROVE  <<q, v>> \in P
    <3>1. <<q, v>> \in TwoTexts /\ size[<<q, v>>] < size[x]
      BY <1>2, <1>6, <2>2, <2>3
    <3> QED  BY <1>7, <3>1
  <2>4. str # <<>> => <<Tail(str), node>> \in P
    <3>1. str # <<>> => Tail(str) \in Texts /\ Len(Tail(str)) + left(node) < Len(str) + left(node)
      BY <1>3, <2>2
    <3> QED  BY <2>3, <3>1, Zenon
  <2>5. ASSUME NEW k \in Kids(node)
        PROVE  <<str, Append(node, k)>> \in P /\ (str # <<>> => <<Tail(str), Append(node, k)>> \in P)
    <3>1. /\ Append(node, k) \in Texts /\ left(Append(node, k)) \in Nat
          /\ left(Append(node, k)) < left(node)
      BY <1>4, <1>5
    <3>2. Len(str) + left(Append(node, k)) < Len(str) + left(node)
      BY <2>2, <3>1
    <3>3. str # <<>> => Tail(str) \in Texts /\ Len(Tail(str)) + left(Append(node, k)) < Len(str) + left(node)
      BY <1>3, <2>2, <3>1
    <3> QED  BY <2>3, <3>1, <3>2, <3>3, Zenon
  <2> QED  BY <2>1, <2>4, <2>5, Zenon DEF WalkProgress
<1>8. TwoTexts \subseteq P
  BY <1>6, <1>7, SizeInduction
<1> QED  BY <1>2, <1>8

(* The way down to a child and on is a way down. *)
LEMMA KidJoin ==
  ASSUME NEW node \in Texts, NEW k \in 1 .. 255, NEW y \in Texts
  PROVE  \E x \in Texts : Append(node, k) \o y = node \o x /\ x # <<>> /\ x[1] = k /\ Tail(x) = y
<1> DEFINE one == <<k>>
<1>1. one \in Texts /\ one # <<>> /\ one[1] = k /\ Tail(one) = <<>>
  BY DEF Texts
<1>2. Append(node, k) = node \o one
  BY DEF Texts
<1> HIDE DEF one
<1>3. (node \o one) \o y = node \o (one \o y)
  BY <1>1, JoinThrice
<1>4. one \o y \in Texts /\ one \o y # <<>> /\ (one \o y)[1] = one[1] /\ Tail(one \o y) = Tail(one) \o y
  BY <1>1, JoinHolds
<1>5. Tail(one) \o y = y
  BY <1>1, JoinHolds
<1> DEFINE x == one \o y
<1>6. x \in Texts /\ Append(node, k) \o y = node \o x /\ x # <<>> /\ x[1] = k /\ Tail(x) = y
  BY <1>1, <1>2, <1>3, <1>4, <1>5, Zenon
<1> HIDE DEF x
<1> QED  BY <1>6

(* What a call for the pattern str made at the node or below it is about: a stem *)
(* at node \o y, of which z is left of the pattern to compare.                   *)
Sound(str, node, c) ==
  \E s \in dict, y \in Texts, z \in Texts :
    /\ s.at = node \o y /\ c = Call(z, s.entry) /\ FormsOf(z, s.entry) # {}
    /\ \A v \in Texts : Matches[<<z, v>>] => Matches[<<str, y \o v>>]

(* A call made below a child for what the child's letter leaves of the pattern. *)
LEMMA SoundBelow ==
  ASSUME NEW str \in Texts, str # <<>>, NEW node \in Texts, NEW k \in 1 .. 255, NEW c, NEW t \in Texts,
         \/ str[1] = Ast /\ t = str
         \/ str[1] # Ast /\ str[1] \in {Quest, k} /\ t = Tail(str),
         Sound(t, Append(node, k), c)
  PROVE  Sound(str, node, c)
<1>1. PICK s \in dict, y \in Texts, z \in Texts :
        /\ s.at = Append(node, k) \o y /\ c = Call(z, s.entry) /\ FormsOf(z, s.entry) # {}
        /\ \A v \in Texts : Matches[<<z, v>>] => Matches[<<t, y \o v>>]
  BY DEF Sound
<1>2. PICK x \in Texts : Append(node, k) \o y = node \o x /\ x # <<>> /\ x[1] = k /\ Tail(x) = y
  BY KidJoin
<1>3. ASSUME NEW v \in Texts, Matches[<<z, v>>]  PROVE Matches[<<str, x \o v>>]
  <2>1. Matches[<<t, y \o v>>]
    BY <1>1, <1>3
  <2> DEFINE w == x \o v
  <2>2. w \in Texts /\ w # <<>> /\ w[1] = k /\ Tail(w) = y \o v
    BY <1>2, JoinHolds
  <2> HIDE DEF w
  <2>3. Matches[<<t, Tail(w)>>]
    BY <2>1, <2>2
  <2>4. Matches[<<str, w>>]
    BY <2>2, <2>3, MatchSteps
  <2> QED  BY <2>4 DEF w
<1> QED  BY <1>1, <1>2, <1>3, Zenon DEF Sound

(* Every call of the walk is about a stem that matches as far as compared. *)
LEMMA WalkSound ==
  ASSUME DictOK, NEW str \in Texts, NEW node \in Texts, NEW c \in Range(GetDictMatch[<<str, node>>])
  PROVE  Sound(str, node, c)
<1> DEFINE Good(t, n) == c \in Range(GetDictMatch[<<t, n>>]) => Sound(t, n, c)
           P == {x \in TwoTexts : Good(x[1], x[2])}
<1>1. \A t, n \in Texts : <<t, n>> \in P <=> Good(t, n)
  BY DEF TwoTexts
<1> HIDE DEF P
<1>2. ASSUME NEW t \in Texts, NEW n \in Texts,
             t # <<>> => <<Tail(t), n>> \in P,
             \A k \in Kids(n) : /\ <<t, Append(n, k)>> \in P
                                /\ t # <<>> => <<Tail(t), Append(n, k)>> \in P
      PROVE  Good(t, n)
  <2> SUFFICES ASSUME c \in Range(GetDictMatch[<<t, n>>])  PROVE Sound(t, n, c)
    OBVIOUS
  <2>0. t # <<>> => Tail(t) \in Texts
    BY TailIsSkip
  <2>1. \A k \in Kids(n) : k \in 1 .. 255 /\ Append(n, k) \in Texts
    BY KidsHold
  <2>2. /\ t # <<>> => Good(Tail(t), n)
        /\ \A k \in Kids(n) : Good(t, Append(n, k)) /\ (t # <<>> => Good(Tail(t), Append(n, k)))
    <3> HIDE DEF Good
    <3> QED  BY <1>1, <1>2, <2>0, <2>1, Zenon
  <2>3. c \in Range(Tried(GetDictMatch, t, n)) \/ c \in Range(GetListMatch(t, List(n)))
    <3>1. /\ Tried(GetDictMatch, t, n) \in Seq(Calls) /\ GetListMatch(t, List(n)) \in Seq(Calls)
          /\ GetDictMatch[<<t, n>>] = Tried(GetDictMatch, t, n) \o GetListMatch(t, List(n))
      BY TriedHolds, DictMatchIs, ListHolds, ListMatchHolds
    <3>2. Range(Tried(GetDictMatch, t, n) \o GetListMatch(t, List(n)))
            = Range(Tried(GetDictMatch, t, n)) \cup Range(GetListMatch(t, List(n)))
      BY <3>1, RangeConcatenation
    <3> QED  BY <3>1, <3>2
  <2>4. CASE c \in Range(GetListMatch(t, List(n)))
    <3>1. PICK i \in 1 .. Len(List(n)) : Hit(t, List(n), i) /\ c = Call(t, List(n)[i])
      BY <2>4, ListHolds, ListMatchHolds
    <3>2. PICK s \in dict : s.at = n /\ s.entry = List(n)[i]
      <4>1. List(n)[i] \in EntriesAt(n)
        BY <3>1, ListHolds
      <4> QED  BY <4>1 DEF EntriesAt
    <3>3. c = Call(t, s.entry) /\ FormsOf(t, s.entry) # {}
      BY <3>1, <3>2, Zenon DEF Hit
    <3>4. s.at = n \o <<>> /\ <<>> \in Texts /\ \A v \in Texts : <<>> \o v = v
      BY <3>2, JoinHolds
    <3>5. \A v \in Texts : Matches[<<t, v>>] => Matches[<<t, <<>> \o v>>]
      BY <3>4
    <3> QED  BY <3>3, <3>4, <3>5, Zenon DEF Sound
  <2>5. CASE c \in Range(Tried(GetDictMatch, t, n))
    <3>1. t # <<>>
      <4> SUFFICES ASSUME t = <<>>  PROVE FALSE
        OBVIOUS
      <4>1. Tried(GetDictMatch, t, n) = <<>>
        BY DEF Tried
      <4> QED  BY <2>5, <4>1 DEF Range
    <3>2. Quest # Ast
      BY DEF Quest, Ast
    <3>3. CASE t[1] = Quest
      <4>1. Tried(GetDictMatch, t, n) = Below(GetDictMatch, Tail(t), n)
        BY <3>1, <3>3, Zenon DEF Tried
      <4>2. PICK k \in Kids(n) : c \in Range(GetDictMatch[<<Tail(t), Append(n, k)>>])
        BY <2>0, <2>5, <3>1, <4>1, BelowHolds, DictMatchIs
      <4>3. Sound(Tail(t), Append(n, k), c)
        BY <2>2, <3>1, <4>2, Zenon
      <4> QED  BY <2>0, <2>1, <3>1, <3>2, <3>3, <4>3, SoundBelow
    <3>4. CASE t[1] = Ast
      <4>1. Tried(GetDictMatch, t, n)
              = (IF Len(t) > 1 THEN GetDictMatch[<<Tail(t), n>>] ELSE <<>>) \o Below(GetDictMatch, t, n)
        BY <3>1, <3>2, <3>4, Zenon DEF Tried
      <4> DEFINE a == IF Len(t) > 1 THEN GetDictMatch[<<Tail(t), n>>] ELSE <<>>
      <4>2. a \in Seq(Calls) /\ Below(GetDictMatch, t, n) \in Seq(Calls)
        <5>1. GetDictMatch[<<Tail(t), n>>] \in Seq(Calls)
          BY <2>0, <3>1, DictMatchIs DEF TwoTexts
        <5>2. <<>> \in Seq(Calls)
          BY EmptySeq
        <5>3. Below(GetDictMatch, t, n) \in Seq(Calls)
          BY BelowHolds, DictMatchIs
        <5> QED  BY <5>1, <5>2, <5>3, Zenon
      <4>3. c \in Range(a) \/ c \in Range(Below(GetDictMatch, t, n))
        <5> HIDE DEF a
        <5>1. Range(a \o Below(GetDictMatch, t, n)) = Range(a) \cup Range(Below(GetDictMatch, t, n))
          BY <4>2, RangeConcatenation
        <5>2. Tried(GetDictMatch, t, n) = a \o Below(GetDictMatch, t, n)
          BY <4>1 DEF a
        <5> QED  BY <2>5, <5>1, <5>2
      <4>4. CASE c \in Range(a)
        <5>1. c \in Range(GetDictMatch[<<Tail(t), n>>])
          <6>1. Range(<<>>) = {}
            BY DEF Range
          <6> QED  BY <4>4, <6>1
        <5>2. Sound(Tail(t), n, c)
          BY <2>2, <3>1, <5>1, Zenon
        <5>3. PICK s \in dict, y \in Texts, z \in Texts :
                /\ s.at = n \o y /\ c = Call(z, s.entry) /\ FormsOf(z, s.entry) # {}
                /\ \A v \in Texts : Matches[<<z, v>>] => Matches[<<Tail(t), y \o v>>]
          BY <5>2 DEF Sound
        <5>4. ASSUME NEW v \in Texts, Matches[<<z, v>>]  PROVE Matches[<<t, y \o v>>]
          <6> DEFINE w == y \o v
          <6>1. w \in Texts
            BY JoinHolds
          <6>2. Matches[<<Tail(t), w>>]
            BY <5>3, <5>4
          <6> HIDE DEF w
          <6>3. Matches[<<t, w>>]
            BY <3>1, <3>4, <6>1, <6>2, MatchSteps
          <6> QED  BY <6>3 DEF w
        <5> QED  BY <5>3, <5>4, Zenon DEF Sound
      <4>5. CASE c \in Range(Below(GetDictMatch, t, n))
        <5>1. PICK k \in Kids(n) : c \in Range(GetDictMatch[<<t, Append(n, k)>>])
          BY <4>5, BelowHolds, DictMatchIs
        <5>2. Sound(t, Append(n, k), c)
          BY <2>2, <5>1, Zenon
        <5> QED  BY <2>1, <3>1, <3>4, <5>2, SoundBelow
      <4> QED  BY <4>3, <4>4, <4>5
    <3>5. CASE t[1] # Quest /\ t[1] # Ast
      <4>1. t[1] \in Kids(n) /\ c \in Range(GetDictMatch[<<Tail(t), Append(n, t[1])>>])
        <5>1. Tried(GetDictMatch, t, n) =
                IF t[1] \in Kids(n) THEN GetDictMatch[<<Tail(t), Append(n, t[1])>>] ELSE <<>>
          BY <3>1, <3>5, Zenon DEF Tried
        <5>2. Range(<<>>) = {}
          BY DEF Range
        <5> QED  BY <2>5, <5>1, <5>2
      <4>2. Sound(Tail(t), Append(n, t[1]), c)
        BY <2>2, <3>1, <4>1, Zenon
      <4> DEFINE k == t[1]
      <4>3. k \in 1 .. 255 /\ t[1] = k /\ Sound(Tail(t), Append(n, k), c)
        BY <2>1, <4>1, <4>2
      <4> HIDE DEF k
      <4> QED  BY <2>0, <3>1, <3>5, <4>3, SoundBelow
    <3> QED  BY <3>3, <3>4, <3>5
  <2> QED  BY <2>3, <2>4, <2>5
<1>3. WalkProgress(P)
  <2> HIDE DEF Good
  <2> QED  BY <1>1, <1>2, Zenon DEF WalkProgress
<1>4. Good(str, node)
  <2> HIDE DEF Good
  <2> QED  BY <1>1, <1>3, WalkInduction
<1> QED  BY <1>4

-------------------------------------------------------------------------------
(* The characters CheckHelp offers. *)

Plain == (0 .. 255) \ {Ast, Quest}

(* Where the first wildcard of a pattern stands. *)
LEMMA WildAtHolds ==
  ASSUME NEW str \in Texts, WildMask(str)
  PROVE  /\ WildAt(str) \in 1 .. Len(str) /\ WildAt(str) - 1 \in 0 .. Len(str) /\ WildAt(str) \in 0 .. Len(str)
         /\ Wild(str[WildAt(str)]) /\ \A i \in 1 .. WildAt(str) - 1 : ~Wild(str[i])
         /\ SubSeq(str, 1, WildAt(str) - 1) \in Texts /\ ~WildMask(SubSeq(str, 1, WildAt(str) - 1))
<1> DEFINE W == {i \in DOMAIN str : Wild(str[i])}
<1>1. DOMAIN str = 1 .. Len(str) /\ Len(str) \in Nat
  BY LenProperties DEF Texts
<1>2. W \subseteq Nat /\ W # {}
  BY <1>1 DEF WildMask
<1>3. MinOf(W) \in W /\ \A y \in W : MinOf(W) <= y
  BY <1>2, LeastOf
<1> DEFINE n == WildAt(str)
<1>4. n \in 1 .. Len(str) /\ Wild(str[n]) /\ \A i \in 1 .. Len(str) : Wild(str[i]) => n <= i
  BY <1>1, <1>3 DEF WildAt
<1> HIDE DEF n
<1>5. n - 1 \in 0 .. Len(str) /\ n \in 0 .. Len(str)
  BY <1>1, <1>4
<1>6. \A i \in 1 .. n - 1 : ~Wild(str[i])
  BY <1>1, <1>4
<1> DEFINE u == SubSeq(str, 1, n - 1)
<1>7. u \in Texts /\ Len(u) = n - 1 /\ \A i \in 1 .. n - 1 : u[i] = str[i]
  BY <1>5, SkipHolds
<1>8. ~WildMask(u)
  <2>1. DOMAIN u = 1 .. n - 1
    BY <1>7, LenProperties DEF Texts
  <2> HIDE DEF u
  <2> QED  BY <1>6, <1>7, <2>1 DEF WildMask
<1> QED  BY <1>4, <1>5, <1>6, <1>7, <1>8 DEF n

(* A letter of a text without wildcards is not one. *)
LEMMA PlainLetter ==
  ASSUME NEW t \in Texts, ~WildMask(t), NEW i \in 1 .. Len(t)
  PROVE  t[i] \in Plain /\ t[i] \in 1 .. 255
<1>1. DOMAIN t = 1 .. Len(t) /\ t[i] \in 1 .. 255
  BY TextLetters, LenProperties DEF Texts
<1>2. ~Wild(t[i])
  BY <1>1 DEF WildMask
<1>3. \A x \in 1 .. 255 : x \in 0 .. 255
  OBVIOUS
<1> QED  BY <1>1, <1>2, <1>3 DEF Wild, Plain

(* The letter behind a beginning of a text is a letter of the text. *)
LEMMA NextLetter ==
  ASSUME NEW u \in Texts, NEW t \in Texts, IsStrictPrefix(u, t)
  PROVE  Len(u) + 1 \in 1 .. Len(t) /\ IsPrefix(u, t)
<1>1. /\ u \in Seq(1 .. 255) /\ t \in Seq(1 .. 255) /\ IsPrefix(u, t) /\ u # t
      /\ Len(u) \in Nat /\ Len(t) \in Nat
  BY TextLetters DEF IsStrictPrefix
<1>2. Len(u) <= Len(t) /\ \A i \in 1 .. Len(u) : u[i] = t[i]
  BY <1>1, PrefixAgrees
<1>3. Len(u) # Len(t)
  BY <1>1, <1>2, SeqEqual
<1> QED  BY <1>1, <1>2, <1>3

(* The children of a node and of a table are letters, no wildcards. *)
LEMMA KidsPlain ==
  ASSUME DictOK, NEW node \in Texts
  PROVE  Kids(node) \subseteq Plain
<1>1. ASSUME NEW c \in Kids(node)  PROVE c \in Plain
  <2>1. PICK s \in dict : IsStrictPrefix(node, s.at) /\ c = s.at[Len(node) + 1]
    BY <1>1 DEF Kids
  <2>2. s.at \in Texts /\ ~WildMask(s.at)
    BY StemHolds, PartsTame
  <2> QED  BY <2>1, <2>2, NextLetter, PlainLetter
<1> QED  BY <1>1

(* Nor is one a table of endings goes on with. *)
LEMMA FlexKidsPlain ==
  ASSUME NEW s \in Stems, NEW u \in Texts
  PROVE  FlexKids(s.entry, u) \subseteq Plain
<1>1. ASSUME NEW c \in FlexKids(s.entry, u)  PROVE c \in Plain
  <2>1. PICK x \in s.entry.endings : IsStrictPrefix(u, x.text) /\ c = x.text[Len(u) + 1]
    BY <1>1 DEF FlexKids
  <2>2. x.text \in Texts /\ ~WildMask(x.text)
    BY PartsTame
  <2> QED  BY <2>1, <2>2, NextLetter, PlainLetter
<1> QED  BY <1>1

(* Behind a row the wildcard is still to come. *)
LEMMA WildBehind ==
  ASSUME NEW row \in Texts, ~WildMask(row), NEW str \in Texts, WildMask(str)
  PROVE  /\ Skip(row, Common(row, str)) \in Texts /\ ~WildMask(Skip(row, Common(row, str)))
         /\ Skip(str, Common(row, str)) \in Texts /\ WildMask(Skip(str, Common(row, str)))
<1>1. PICK u \in Texts, s \in Texts, r \in Texts :
        /\ s = Skip(str, Common(row, str)) /\ r = Skip(row, Common(row, str))
        /\ str = u \o s /\ row = u \o r /\ ~WildMask(u) /\ ~WildMask(r)
        /\ Len(s) <= Len(str) /\ Len(r) <= Len(row) /\ Len(u) = Common(row, str)
        /\ r # <<>> /\ s # <<>> => r[1] # s[1]
  BY SharedSplits
<1>2. WildMask(s)
  <2> SUFFICES ASSUME ~WildMask(s)  PROVE FALSE
    OBVIOUS
  <2>1. PICK i \in DOMAIN str : Wild(str[i])
    BY DEF WildMask
  <2>2. /\ Len(str) = Len(u) + Len(s) /\ DOMAIN str = 1 .. Len(str)
        /\ DOMAIN u = 1 .. Len(u) /\ DOMAIN s = 1 .. Len(s) /\ Len(u) \in Nat /\ Len(s) \in Nat
        /\ \A j \in 1 .. Len(u) + Len(s) : str[j] = IF j <= Len(u) THEN u[j] ELSE s[j - Len(u)]
    <3>1. /\ Len(u \o s) = Len(u) + Len(s)
          /\ \A j \in 1 .. Len(u) + Len(s) : (u \o s)[j] = IF j <= Len(u) THEN u[j] ELSE s[j - Len(u)]
      BY ConcatProperties DEF Texts
    <3>2. /\ DOMAIN str = 1 .. Len(str) /\ DOMAIN u = 1 .. Len(u) /\ DOMAIN s = 1 .. Len(s)
          /\ Len(u) \in Nat /\ Len(s) \in Nat
      BY LenProperties DEF Texts
    <3> QED  BY <1>1, <3>1, <3>2, Zenon
  <2>3. CASE i <= Len(u)
    <3>1. i \in DOMAIN u /\ u[i] = str[i]
      BY <2>1, <2>2, <2>3
    <3> QED  BY <1>1, <2>1, <3>1 DEF WildMask
  <2>4. CASE ~(i <= Len(u))
    <3>1. i - Len(u) \in DOMAIN s /\ s[i - Len(u)] = str[i]
      BY <2>1, <2>2, <2>4
    <3> QED  BY <2>1, <3>1 DEF WildMask
  <2> QED  BY <2>3, <2>4
<1> QED  BY <1>1, <1>2

(* The end of a word is no wildcard. *)
LEMMA NulIsPlain == Nul \in Plain
  BY DEF Nul, Plain, Ast, Quest

(* A table of endings offers no wildcard. *)
LEMMA ScanFlexPlain ==
  ASSUME NEW s \in Stems, NEW str \in Texts, WildMask(str), NEW levels
  PROVE  WildScanFlex(str, s.entry, levels) \subseteq Plain
<1> DEFINE u == SubSeq(str, 1, WildAt(str) - 1)
<1>1. u \in Texts
  BY WildAtHolds
<1> HIDE DEF u
<1>2. FlexKids(s.entry, u) \subseteq Plain
  BY <1>1, FlexKidsPlain
<1>3. WildScanFlex(str, s.entry, levels) \subseteq FlexKids(s.entry, u) \cup {Nul}
  BY DEF WildScanFlex, u
<1> QED  BY <1>2, <1>3, NulIsPlain

(* A row of alternations offers no wildcard. *)
LEMMA ScanRowPlain ==
  ASSUME NEW s \in Stems, NEW str \in Texts, WildMask(str), NEW row \in Alternations(s.entry)
  PROVE  WildScanRow(str, s.entry, row) \subseteq Plain
<1> DEFINE r == Skip(row.text, Common(row.text, str))
           t == Skip(str, Common(row.text, str))
<1>1. r \in Texts /\ ~WildMask(r) /\ t \in Texts /\ WildMask(t)
  BY PartsTame, WildBehind
<1>2. WildScanRow(str, s.entry, row) \subseteq
        IF r = <<>> THEN WildScanFlex(t, s.entry, row.levels) ELSE {r[1]}
  BY DEF WildScanRow
<1> HIDE DEF r, t
<1>3. CASE r = <<>>
  BY <1>1, <1>2, <1>3, ScanFlexPlain
<1>4. CASE r # <<>>
  <2>1. r[1] \in Plain
    BY <1>1, <1>4, FirstLetter, PlainLetter
  <2> QED  BY <1>2, <1>4, <2>1
<1> QED  BY <1>3, <1>4

(* Nor does a stem. *)
LEMMA ScanStemPlain ==
  ASSUME NEW s \in Stems, NEW str \in Texts, WildMask(str)
  PROVE  WildScanStem(str, s.entry) \subseteq Plain
<1> DEFINE e == s.entry
<1>1. CASE ~Flective(e)
  <2>1. WildScanStem(str, e) \subseteq {Nul}
    BY <1>1 DEF WildScanStem
  <2> QED  BY <2>1, NulIsPlain
<1>2. CASE Flective(e) /\ ~Mixes(e)
  <2>1. WildScanStem(str, e) = WildScanFlex(str, e, AnyLevel)
    BY <1>2 DEF WildScanStem
  <2> QED  BY <2>1, ScanFlexPlain
<1>3. CASE Flective(e) /\ Mixes(e)
  <2> DEFINE I == {j \in DOMAIN e.mix : \A k \in 1 .. j - 1 : ~RowStops(str, e.mix[k])}
  <2>1. WildScanStem(str, e) = UNION {WildScanRow(str, e, e.mix[i]) : i \in I}
    BY <1>3 DEF WildScanStem
  <2>2. \A i \in I : e.mix[i] \in Alternations(e)
    BY <1>3 DEF Alternations
  <2>3. \A i \in I : WildScanRow(str, e, e.mix[i]) \subseteq Plain
    BY <2>2, ScanRowPlain
  <2> HIDE DEF I, e
  <2> QED  BY <2>1, <2>3 DEF e
<1> QED  BY <1>1, <1>2, <1>3

(* Nor does the dictionary, and there are but finitely many characters. *)
LEMMA ScanDictPlain ==
  ASSUME DictOK, NEW str \in Texts, WildMask(str)
  PROVE  /\ WildScanDict(str) \subseteq Plain /\ IsFiniteSet(WildScanDict(str))
         /\ Cardinality(WildScanDict(str)) \in Nat
<1> DEFINE n == WildAt(str)
           u == SubSeq(str, 1, n - 1)
           lists == UNION {WildScanList(Skip(str, k), List(SubSeq(str, 1, k))) : k \in 0 .. n - 1}
<1>1. n \in 1 .. Len(str) /\ Wild(str[n]) /\ u \in Texts /\ Len(str) \in Nat
  BY WildAtHolds, TextLetters
<1>2. WildScanDict(str) \subseteq Kids(u) \cup lists
  BY DEF WildScanDict
<1> HIDE DEF n, u
<1>3. Kids(u) \subseteq Plain
  BY <1>1, KidsPlain
<1>4. ASSUME NEW k \in 0 .. n - 1  PROVE WildScanList(Skip(str, k), List(SubSeq(str, 1, k))) \subseteq Plain
  <2>1. k \in 0 .. Len(str)
    BY <1>1
  <2>2. /\ Skip(str, k) \in Texts /\ Len(Skip(str, k)) = Len(str) - k /\ SubSeq(str, 1, k) \in Texts
        /\ \A i \in 1 .. Len(str) - k : Skip(str, k)[i] = str[k + i]
    BY <2>1, SkipHolds
  <2>3. WildMask(Skip(str, k))
    <3>1. n - k \in 1 .. Len(str) - k /\ k + (n - k) = n
      BY <1>1, <2>1
    <3>2. Skip(str, k)[n - k] = str[n] /\ n - k \in DOMAIN Skip(str, k)
      <4>1. DOMAIN Skip(str, k) = 1 .. Len(str) - k
        BY <2>2, LenProperties DEF Texts
      <4> QED  BY <2>2, <3>1, <4>1
    <3> QED  BY <1>1, <3>2 DEF WildMask
  <2> DEFINE l == List(SubSeq(str, 1, k))
             z == Skip(str, k)
  <2>4. /\ DOMAIN l = 1 .. Len(l)
        /\ \A i \in 1 .. Len(l) : l[i] \in EntriesAt(SubSeq(str, 1, k))
    BY <2>2, ListHolds
  <2> HIDE DEF l, z
  <2>5. \A i \in DOMAIN l : WildScanStem(z, l[i]) \subseteq Plain
    <3> SUFFICES ASSUME NEW i \in DOMAIN l  PROVE WildScanStem(z, l[i]) \subseteq Plain
      OBVIOUS
    <3>1. PICK s \in dict : l[i] = s.entry
      BY <2>4 DEF EntriesAt
    <3>2. s \in Stems
      BY StemHolds
    <3> QED  BY <2>2, <2>3, <3>1, <3>2, ScanStemPlain DEF z
  <2>6. WildScanList(z, l) \subseteq Plain
    BY <2>5 DEF WildScanList
  <2> QED  BY <2>6 DEF l, z
<1>5. lists \subseteq Plain
  BY <1>4
<1> HIDE DEF lists
<1>6. WildScanDict(str) \subseteq Plain
  BY <1>2, <1>3, <1>5
<1>7. IsFiniteSet(WildScanDict(str))
  <2>1. 0 \in Int /\ 255 \in Int
    OBVIOUS
  <2>2. IsFiniteSet(0 .. 255)
    BY <2>1, FS_Interval
  <2>3. WildScanDict(str) \subseteq 0 .. 255
    BY <1>6 DEF Plain
  <2> QED  BY <2>2, <2>3, FS_Subset
<1> QED  BY <1>6, <1>7, FS_CardinalityType

-------------------------------------------------------------------------------
(* The two calls keep their promises. *)

(* What holds between the steps of a call. *)
WildInv ==
  /\ DictOK /\ pattern \in Texts /\ room \in Nat
  /\ pc \in {"idle", "help", "enum", "done"}
  /\ offered \subseteq Plain /\ Cardinality(offered) <= room
  /\ answer \in Nat \cup {WORDBUFF_FAILED}
  /\ told \in Seq(Calls) /\ todo \in Seq(Calls)
  /\ pc \in {"idle", "help"} => todo = <<>> /\ told = <<>>
  /\ pc = "help" =>
       pattern \in Patterns /\ WildMask(pattern) /\ (answer # WORDBUFF_FAILED => offered = WildScanDict(pattern))
  /\ pc = "enum" => told \o todo = GetDictMatch[<<pattern, <<>>>>]
  /\ pc = "done" =>
       /\ todo = <<>> /\ Range(told) \subseteq Range(GetDictMatch[<<pattern, <<>>>>])
       /\ answer = 0 => told = GetDictMatch[<<pattern, <<>>>>]

(* The walk depends on the dictionary alone. *)
LEMMA WalkRigid == dict' = dict => GetDictMatch' = GetDictMatch
BY DEF GetDictMatch, KidsFalling, Kids, List, EntriesAt, Sorted

(* What is told and what is still to be told make up what the walk finds. *)
LEMMA ToldAndTodo ==
  ASSUME NEW a \in Seq(Calls), NEW b \in Seq(Calls), b # <<>>
  PROVE  /\ Append(a, Head(b)) \in Seq(Calls) /\ Tail(b) \in Seq(Calls)
         /\ Append(a, Head(b)) \o Tail(b) = a \o b
         /\ Range(Append(a, Head(b))) \subseteq Range(a \o b)
<1>1. /\ Head(b) \in Calls /\ Tail(b) \in Seq(Calls) /\ Append(a, Head(b)) \in Seq(Calls)
  BY HeadTailProperties, AppendProperties
<1>2. b = <<Head(b)>> \o Tail(b)
  BY HeadTailProperties
<1>3. Append(a, Head(b)) = a \o <<Head(b)>>
  BY <1>1, AppendProperties
<1>4. (a \o <<Head(b)>>) \o Tail(b) = a \o (<<Head(b)>> \o Tail(b))
  <2>1. <<Head(b)>> \in Seq(Calls)
    BY <1>1
  <2> QED  BY <1>1, <2>1, ConcatAssociative
<1>5. Append(a, Head(b)) \o Tail(b) = a \o b
  BY <1>2, <1>3, <1>4, Zenon
<1>6. Range(Append(a, Head(b)) \o Tail(b)) = Range(Append(a, Head(b))) \cup Range(Tail(b))
  BY <1>1, RangeConcatenation
<1> QED  BY <1>1, <1>5, <1>6

(* The invariant holds when no call is made. *)
LEMMA WildInvInit == Init => WildInv
<1> SUFFICES ASSUME Init  PROVE WildInv
  OBVIOUS
<1>1. DictOK /\ pc = "idle"
  BY DEF Init, DictOK
<1>2. pattern \in Texts /\ told \in Seq(Calls) /\ todo \in Seq(Calls) /\ told = <<>> /\ todo = <<>>
  <2>1. <<>> \in Texts /\ <<>> \in Seq(Calls)
    BY EmptySeq DEF Texts
  <2> QED  BY <2>1 DEF Init
<1>3. offered = {} /\ room = 0 /\ answer = 0 /\ Cardinality(offered) = 0
  BY FS_EmptySet DEF Init
<1> QED  BY <1>1, <1>2, <1>3 DEF WildInv

(* And every step keeps it. *)
LEMMA WildInvStep == WildInv /\ [Next]_vars => WildInv'
<1> SUFFICES ASSUME WildInv, [Next]_vars  PROVE WildInv'
  OBVIOUS
<1>0. /\ DictOK /\ pattern \in Texts /\ room \in Nat /\ told \in Seq(Calls) /\ todo \in Seq(Calls)
      /\ offered \subseteq Plain /\ Cardinality(offered) <= room /\ answer \in Nat \cup {WORDBUFF_FAILED}
  BY DEF WildInv
<1>1. CASE UNCHANGED vars
  <2>1. GetDictMatch' = GetDictMatch
    BY <1>1, WalkRigid DEF vars
  <2>2. WildScanDict(pattern)' = WildScanDict(pattern)
    BY <1>1 DEF vars, WildScanDict, LookupFrom, Kids, List, EntriesAt
  <2> QED  BY <1>1, <2>1, <2>2 DEF vars, WildInv, DictOK
<1>2. CASE CheckHelp
  <2>1. dict' = dict /\ DictOK' /\ pc' = "help" /\ todo' = <<>> /\ told' = <<>>
    BY <1>0, <1>2 DEF CheckHelp, WildInv, DictOK
  <2>2. pattern' \in Patterns /\ WildMask(pattern') /\ pattern' \in Texts /\ room' \in Nat
    BY <1>2, WildAssumption DEF CheckHelp
  <2>3. WildScanDict(pattern)' = WildScanDict(pattern')
    BY <2>1 DEF WildScanDict, LookupFrom, Kids, List, EntriesAt
  <2> DEFINE chars == WildScanDict(pattern')
  <2>4. chars \subseteq Plain /\ Cardinality(chars) \in Nat
    BY <1>0, <2>2, ScanDictPlain
  <2>5. \/ answer' = WORDBUFF_FAILED /\ offered' = {}
        \/ answer' = Cardinality(chars) /\ offered' = chars /\ Cardinality(chars) <= room'
    <3>1. IF Len(pattern') >= MaxPattern \/ Cardinality(chars) > room'
            THEN answer' = WORDBUFF_FAILED /\ offered' = {}
            ELSE answer' = Cardinality(chars) /\ offered' = chars
      BY <1>2 DEF CheckHelp
    <3>2. Cardinality(chars) > room' \/ Cardinality(chars) <= room'
      BY <2>2, <2>4
    <3> QED  BY <3>1, <3>2, Zenon
  <2>6. /\ offered' \subseteq Plain /\ Cardinality(offered') <= room'
        /\ answer' \in Nat \cup {WORDBUFF_FAILED}
        /\ answer' # WORDBUFF_FAILED => offered' = chars
    <3> HIDE DEF chars
    <3>1. Cardinality({}) = 0
      BY FS_EmptySet
    <3> QED  BY <2>2, <2>4, <2>5, <3>1
  <2>7. <<>> \in Seq(Calls)
    BY EmptySeq
  <2> QED  BY <2>1, <2>2, <2>3, <2>6, <2>7 DEF WildInv
<1>3. CASE EnumWords
  <2>1. dict' = dict /\ DictOK' /\ told' = <<>> /\ room' = room /\ offered' = offered /\ todo = <<>>
    BY <1>0, <1>3 DEF EnumWords, WildInv, DictOK
  <2>2. pattern' \in Texts
    BY <1>3, WildAssumption DEF EnumWords
  <2>3. GetDictMatch' = GetDictMatch
    BY <2>1, WalkRigid
  <2> DEFINE found == GetDictMatch[<<pattern', <<>>>>]
  <2>4. found \in Seq(Calls) /\ GetDictMatch[<<pattern, <<>>>>]' = found
    <3>1. <<>> \in Texts
      BY EmptySeq DEF Texts
    <3>2. <<pattern', <<>>>> \in TwoTexts
      BY <2>2, <3>1 DEF TwoTexts
    <3> QED  BY <1>0, <2>3, <3>2, DictMatchIs
  <2> HIDE DEF found
  <2>5. \/ pc' = "done" /\ answer' = WORDBUFF_FAILED /\ todo' = <<>>
        \/ pc' = "enum" /\ todo' = found /\ answer' = answer
    BY <1>3, <2>1 DEF EnumWords, found
  <2>6. <<>> \in Seq(Calls) /\ Range(<<>>) = {} /\ <<>> \o found = found /\ WORDBUFF_FAILED # 0
    BY <2>4, EmptySeq, ConcatEmptySeq DEF Range, WORDBUFF_FAILED
  <2>7. CASE pc' = "done" /\ answer' = WORDBUFF_FAILED /\ todo' = <<>>
    BY <1>0, <2>1, <2>2, <2>6, <2>7 DEF WildInv
  <2>8. CASE pc' = "enum" /\ todo' = found /\ answer' = answer
    BY <1>0, <2>1, <2>2, <2>4, <2>6, <2>8 DEF WildInv
  <2> QED  BY <2>5, <2>7, <2>8
<1>4. CASE RegisterLexeme
  <2>1. /\ dict' = dict /\ DictOK' /\ pattern' = pattern /\ room' = room /\ offered' = offered
        /\ pc = "enum" /\ todo # <<>> /\ told' = Append(told, Head(todo))
    BY <1>0, <1>4 DEF RegisterLexeme, DictOK
  <2>2. GetDictMatch' = GetDictMatch
    BY <2>1, WalkRigid
  <2> DEFINE found == GetDictMatch[<<pattern, <<>>>>]
  <2>3. told \o todo = found /\ found' = found
    BY <2>1, <2>2 DEF WildInv
  <2> HIDE DEF found
  <2>4. /\ told' \in Seq(Calls) /\ Tail(todo) \in Seq(Calls)
        /\ told' \o Tail(todo) = found /\ Range(told') \subseteq Range(found)
    BY <1>0, <2>1, <2>3, ToldAndTodo
  <2>5. CASE todo' = Tail(todo) /\ pc' = pc /\ answer' = answer
    <3>1. todo' \in Seq(Calls) /\ told' \o todo' = found' /\ pc' = "enum" /\ answer' = answer
      BY <2>1, <2>3, <2>4, <2>5
    <3>2. told' \in Seq(Calls)
      BY <2>4
    <3>3. /\ DictOK' /\ pattern' \in Texts /\ room' \in Nat /\ offered' \subseteq Plain
          /\ Cardinality(offered') <= room' /\ answer' \in Nat \cup {WORDBUFF_FAILED}
      BY <1>0, <2>1, <3>1
    <3>4. told' \o todo' = GetDictMatch'[<<pattern', <<>>>>]
      BY <3>1 DEF found
    <3> HIDE DEF DictOK
    <3> QED  BY <3>1, <3>2, <3>3, <3>4 DEF WildInv
  <2>6. CASE todo' = <<>> /\ pc' = "done" /\ answer' = 1
    <3>1. <<>> \in Seq(Calls)
      BY EmptySeq
    <3>2. told' \in Seq(Calls) /\ todo' \in Seq(Calls)
      BY <2>4, <2>6, <3>1
    <3>3. /\ DictOK' /\ pattern' \in Texts /\ room' \in Nat /\ offered' \subseteq Plain
          /\ Cardinality(offered') <= room' /\ answer' \in Nat \cup {WORDBUFF_FAILED} /\ answer' # 0
      BY <1>0, <2>1, <2>6
    <3>4. Range(told') \subseteq Range(GetDictMatch'[<<pattern', <<>>>>])
      BY <2>3, <2>4 DEF found
    <3> HIDE DEF DictOK
    <3> QED  BY <2>6, <3>2, <3>3, <3>4 DEF WildInv
  <2> QED  BY <1>4, <2>5, <2>6 DEF RegisterLexeme
<1>5. CASE NoMoreWords
  <2>1. /\ dict' = dict /\ DictOK' /\ pattern' = pattern /\ room' = room /\ offered' = offered
        /\ pc = "enum" /\ todo = <<>> /\ told' = told /\ todo' = todo /\ pc' = "done" /\ answer' = 0
    BY <1>0, <1>5 DEF NoMoreWords, DictOK
  <2>2. GetDictMatch' = GetDictMatch
    BY <2>1, WalkRigid
  <2> DEFINE found == GetDictMatch[<<pattern, <<>>>>]
  <2>3. told \o todo = found /\ found' = found
    BY <2>1, <2>2 DEF WildInv
  <2>4. told' = found'
    BY <1>0, <2>1, <2>3, ConcatEmptySeq
  <2> HIDE DEF found
  <2> QED  BY <1>0, <2>1, <2>4 DEF WildInv, found
<1>6. CASE Return
  <2>1. /\ dict' = dict /\ DictOK' /\ pattern' = <<>> /\ room' = 0 /\ offered' = {} /\ answer' = 0
        /\ pc' = "idle" /\ told' = <<>> /\ todo' = <<>>
    BY <1>0, <1>6 DEF Return, DictOK
  <2>2. <<>> \in Texts /\ <<>> \in Seq(Calls) /\ Cardinality({}) = 0
    BY EmptySeq, FS_EmptySet DEF Texts
  <2> QED  BY <2>1, <2>2 DEF WildInv
<1> QED  BY <1>1, <1>2, <1>3, <1>4, <1>5, <1>6 DEF Next

(* It holds in every state. *)
LEMMA WildInvAlways == Spec => []WildInv
BY WildInvInit, WildInvStep, PTL DEF Spec

(* A call tells what is true of the pattern the walk began with. *)
LEMMA CallTrue ==
  ASSUME DictOK, NEW p \in Texts, NEW c \in Range(GetDictMatch[<<p, <<>>>>])
  PROVE  /\ \E s \in dict : s.entry.lex = c.lex
         /\ c.forms # {} /\ c.forms \subseteq 0 .. 255
         /\ \A f \in c.forms : \E s \in dict :
              /\ s.entry.lex = c.lex
              /\ \/ \E w \in WordsOf(s) : w.form = f /\ Matches[<<p, w.text>>]
                 \/ Posted(s) /\ ~Flective(s.entry)
<1>1. Sound(p, <<>>, c)
  BY WalkSound, EmptySeq DEF Texts
<1>2. PICK s \in dict, y \in Texts, z \in Texts :
        /\ s.at = <<>> \o y /\ c = Call(z, s.entry) /\ FormsOf(z, s.entry) # {}
        /\ \A v \in Texts : Matches[<<z, v>>] => Matches[<<p, y \o v>>]
  BY <1>1 DEF Sound
<1>3. s \in Stems /\ s.entry \in StemEntry /\ s.at = y
  BY <1>2, StemHolds, JoinHolds
<1>4. c.lex = s.entry.lex /\ c.forms = FormsOf(z, s.entry)
  BY <1>2 DEF Call
<1>5. c.forms \subseteq 0 .. 255
  BY <1>3, <1>4, FormsAreCodes
<1>6. ASSUME NEW f \in c.forms
      PROVE  \/ \E w \in WordsOf(s) : w.form = f /\ Matches[<<p, w.text>>]
             \/ Posted(s) /\ ~Flective(s.entry)
  <2>1. CASE Flective(s.entry)
    <3>1. PICK v \in Texts : Rest(s.entry, f, v) /\ Matches[<<z, v>>]
      BY <1>3, <1>4, <2>1, FormsSound
    <3> DEFINE w == [text |-> s.at \o v, form |-> f]
    <3>2. w \in WordsOf(s)
      BY <1>3, <2>1, <3>1, RestIsWord
    <3>3. Matches[<<p, w.text>>] /\ w.form = f
      BY <1>2, <1>3, <3>1
    <3> QED  BY <3>2, <3>3
  <2>2. CASE ~Flective(s.entry) /\ ~Posted(s)
    <3>1. f = NonFlective /\ (z = <<>> \/ IsAsterisk(z))
      <4>1. FormsOf(z, s.entry) = IF z = <<>> \/ IsAsterisk(z) THEN {NonFlective} ELSE {}
        BY <2>2 DEF FormsOf
      <4> QED  BY <1>4, <4>1
    <3>2. <<>> \in Texts /\ Matches[<<z, <<>>>>]
      <4>1. <<>> \in Texts
        BY EmptySeq DEF Texts
      <4>2. CASE z = <<>>
        BY <4>1, <4>2, MatchSteps
      <4>3. CASE IsAsterisk(z)
        BY <4>1, <4>3, AsteriskMatches
      <4> QED  BY <3>1, <4>1, <4>2, <4>3
    <3> DEFINE w == [text |-> s.at \o s.entry.post, form |-> NonFlective]
    <3>3. w \in WordsOf(s)
      BY <2>2 DEF WordsOf
    <3>4. s.entry.post = <<>>
      BY <2>2 DEF Posted
    <3>5. Matches[<<p, w.text>>] /\ w.form = f
      BY <1>2, <1>3, <3>1, <3>2, <3>4
    <3> QED  BY <3>3, <3>5
  <2> QED  BY <2>1, <2>2
<1> QED  BY <1>2, <1>4, <1>5, <1>6

(* What has been told is part of what the walk finds. *)
LEMMA ToldOfWalk ==
  ASSUME WildInv, NEW c \in Range(told) \cup Range(todo)
  PROVE  DictOK /\ pattern \in Texts /\ c \in Range(GetDictMatch[<<pattern, <<>>>>])
<1>1. /\ DictOK /\ pattern \in Texts /\ pc \in {"idle", "help", "enum", "done"}
      /\ told \in Seq(Calls) /\ todo \in Seq(Calls)
  BY DEF WildInv
<1>2. Range(<<>>) = {}
  BY DEF Range
<1>3. CASE pc \in {"idle", "help"}
  BY <1>2, <1>3 DEF WildInv
<1>4. CASE pc = "enum"
  <2>1. Range(told \o todo) = Range(told) \cup Range(todo)
    BY <1>1, RangeConcatenation
  <2> QED  BY <1>1, <1>4, <2>1 DEF WildInv
<1>5. CASE pc = "done"
  BY <1>1, <1>2, <1>5 DEF WildInv
<1> QED  BY <1>1, <1>3, <1>4, <1>5

(* What EnumWords tells is true: for each form told there is a word that matches *)
(* (ToldMatch; wildscan.h:217-435).                                              *)
THEOREM ToldIsTrue == Spec => []ToldMatch
<1>1. WildInv => ToldMatch
  <2> SUFFICES ASSUME WildInv, NEW i \in DOMAIN told, NEW f \in told[i].forms
               PROVE  \E s \in dict :
                        /\ s.entry.lex = told[i].lex
                        /\ \/ \E w \in WordsOf(s) : w.form = f /\ Matches[<<pattern, w.text>>]
                           \/ Posted(s) /\ ~Flective(s.entry)
    BY DEF ToldMatch
  <2> DEFINE c == told[i]
  <2>1. c \in Range(told)
    BY DEF Range
  <2> HIDE DEF c
  <2>2. DictOK /\ pattern \in Texts /\ c \in Range(GetDictMatch[<<pattern, <<>>>>])
    BY <2>1, ToldOfWalk
  <2> QED  BY <2>2, CallTrue DEF c
<1> QED  BY <1>1, WildInvAlways, PTL

(* The scanners and their callers keep their types, and the array of CheckHelp *)
(* holds what is offered (WildTypeOK; wildscan.cpp:28-211).                    *)
THEOREM WildTypesKept == Spec => []WildTypeOK
<1>1. WildInv => WildTypeOK
  <2> SUFFICES ASSUME WildInv  PROVE WildTypeOK
    OBVIOUS
  <2>1. offered \subseteq 0 .. 255 /\ ~(Ast \in offered \/ Quest \in offered)
    BY DEF WildInv, Plain
  <2>2. ASSUME NEW c \in ToSet(todo) \cup ToSet(told)
        PROVE  c.lex \in {s.entry.lex : s \in dict} /\ c.forms # {} /\ c.forms \subseteq 0 .. 255
    <3>1. c \in Range(told) \cup Range(todo)
      BY <2>2 DEF ToSet, Range
    <3>2. DictOK /\ pattern \in Texts /\ c \in Range(GetDictMatch[<<pattern, <<>>>>])
      BY <3>1, ToldOfWalk
    <3> QED  BY <3>2, CallTrue
  <2> QED  BY <2>1, <2>2 DEF WildInv, WildTypeOK
<1> QED  BY <1>1, WildInvAlways, PTL

-------------------------------------------------------------------------------
(* What matches is found: the postfix and the endings. *)

(* z is what is left of str behind some of its signs. *)
EndOf(z, str) == \E i \in 0 .. Len(str) : z = Skip(str, i)

(* What is left of what is left. *)
LEMMA EndOfTail ==
  ASSUME NEW str \in Texts
  PROVE  /\ EndOf(str, str)
         /\ \A z : EndOf(z, str) => z \in Texts
         /\ str # <<>> => EndOf(Tail(str), str)
<1>1. str \in Seq(1 .. 255) /\ Len(str) \in Nat
  BY TextLetters
<1>2. Skip(str, 0) = str /\ 0 \in 0 .. Len(str)
  <2>1. SubSeq(str, 1, 0) = <<>>
    BY <1>1
  <2>2. 0 \in 0 .. Len(str)
    BY <1>1
  <2>3. str = SubSeq(str, 1, 0) \o Skip(str, 0) /\ Skip(str, 0) \in Texts
    BY <2>2, SkipHolds
  <2>4. <<>> \o Skip(str, 0) = Skip(str, 0)
    BY <2>3, JoinHolds
  <2> QED  BY <2>1, <2>2, <2>3, <2>4
<1>3. \A i \in 0 .. Len(str) : Skip(str, i) \in Texts
  BY SkipHolds
<1>4. str # <<>> => Tail(str) = Skip(str, 1) /\ 1 \in 0 .. Len(str)
  <2>1. str # <<>> => Tail(str) = Skip(str, 1) /\ Len(str) \in Nat \ {0}
    BY TailIsSkip
  <2> QED  BY <2>1
<1> QED  BY <1>2, <1>3, <1>4, Zenon DEF EndOf

(* What is left of what is left is left of the whole. *)
LEMMA EndOfEnd ==
  ASSUME NEW str \in Texts, NEW t, EndOf(t, str), NEW z, EndOf(z, t)
  PROVE  EndOf(z, str)
<1>1. PICK i \in 0 .. Len(str) : t = Skip(str, i)
  BY DEF EndOf
<1>2. PICK j \in 0 .. Len(t) : z = Skip(t, j)
  BY DEF EndOf
<1>3. Len(t) = Len(str) - i
  BY <1>1, SkipHolds
<1>4. z = Skip(str, i + j) /\ i + j \in 0 .. Len(str)
  BY <1>1, <1>2, <1>3, SkipTwice
<1> QED  BY <1>4 DEF EndOf

(* The letters of what is left are letters of the pattern. *)
LEMMA LettersSkip ==
  ASSUME NEW str \in Texts, NEW z, EndOf(z, str)
  PROVE  z \in Texts /\ Letters[z] \in Nat /\ Letters[str] \in Nat /\ Letters[z] <= Letters[str]
<1> DEFINE Good(p) == \A i \in 0 .. Len(p) : Letters[Skip(p, i)] <= Letters[p]
           P == {p \in Texts : Good(p)}
<1>1. \A p \in Texts : Letters[p] \in Nat
  BY LettersIs
<1>2. \A p \in Texts : Skip(p, 0) = p
  <2> SUFFICES ASSUME NEW p \in Texts  PROVE Skip(p, 0) = p
    OBVIOUS
  <2>1. p \in Seq(1 .. 255)
    BY TextLetters
  <2> QED  BY <2>1 DEF Skip
<1>3. <<>> \in P
  <2>1. <<>> \in Texts
    BY EmptySeq DEF Texts
  <2>2. ASSUME NEW i \in 0 .. Len(<<>>)  PROVE Letters[Skip(<<>>, i)] <= Letters[<<>>]
    <3>1. i = 0
      OBVIOUS
    <3>2. Skip(<<>>, i) = <<>>
      BY <1>2, <2>1, <3>1
    <3> QED  BY <1>1, <2>1, <3>2
  <2> QED  BY <2>1, <2>2
<1>4. ASSUME NEW p \in Texts, p # <<>>, Tail(p) \in P  PROVE p \in P
  <2>1. Good(Tail(p))
    BY <1>4
  <2>2. /\ Tail(p) \in Texts /\ Len(p) \in Nat \ {0} /\ Len(Tail(p)) = Len(p) - 1 /\ Tail(p) = Skip(p, 1)
    BY <1>4, TailIsSkip
  <2>3. Letters[p] = Letters[Tail(p)] + (IF p[1] = Ast THEN 0 ELSE 1)
    BY <1>4, LettersIs
  <2>4. Letters[Tail(p)] <= Letters[p]
    BY <1>1, <2>2, <2>3
  <2>5. ASSUME NEW i \in 0 .. Len(p)  PROVE Letters[Skip(p, i)] <= Letters[p]
    <3>1. CASE i = 0
      BY <1>1, <1>2, <3>1
    <3>2. CASE i # 0
      <4>1. 1 \in 0 .. Len(p) /\ i - 1 \in 0 .. Len(p) - 1 /\ 1 + (i - 1) = i
        BY <2>2, <3>2
      <4>2. Skip(Tail(p), i - 1) = Skip(p, i)
        <5> DEFINE m == i - 1
        <5>1. m \in 0 .. Len(p) - 1 /\ 1 + m = i
          BY <4>1
        <5> HIDE DEF m
        <5>2. Skip(Skip(p, 1), m) = Skip(p, 1 + m)
          BY <4>1, <5>1, SkipTwice
        <5> QED  BY <2>2, <5>1, <5>2 DEF m
      <4>3. Letters[Skip(p, i)] <= Letters[Tail(p)]
        BY <2>1, <2>2, <4>1, <4>2
      <4>4. Letters[Skip(p, i)] \in Nat
        BY <1>1, SkipHolds
      <4> QED  BY <1>1, <2>2, <2>4, <4>3, <4>4
    <3> QED  BY <3>1, <3>2
  <2> QED  BY <2>5
<1>5. str \in P
  <2> HIDE DEF P
  <2> QED  BY <1>3, <1>4, TextInduction
<1> QED  BY <1>1, <1>5, EndOfTail DEF EndOf

(* A pattern that matches has no more letters than the text. *)
LEMMA LettersMatched ==
  ASSUME NEW str \in Texts, NEW w \in Texts, Matches[<<str, w>>]
  PROVE  Letters[str] \in Nat /\ Letters[str] <= Len(w)
<1> DEFINE Good(p, v) == Matches[<<p, v>>] => Letters[p] <= Len(v)
           P == {x \in TwoTexts : Good(x[1], x[2])}
<1>1. \A p, v \in Texts : <<p, v>> \in P <=> Good(p, v)
  BY DEF TwoTexts
<1> HIDE DEF P
<1>2. ASSUME NEW p \in Texts, NEW v \in Texts,
             \A q, u \in Texts : Len(q) + Len(u) < Len(p) + Len(v) => <<q, u>> \in P
      PROVE  Good(p, v)
  <2> SUFFICES ASSUME Matches[<<p, v>>]  PROVE Letters[p] <= Len(v)
    OBVIOUS
  <2>1. Len(p) \in Nat /\ Len(v) \in Nat /\ \A q \in Texts : Letters[q] \in Nat
    BY TextLetters, LettersIs
  <2>2. /\ p # <<>> => Tail(p) \in Texts /\ Len(p) \in Nat \ {0} /\ Len(Tail(p)) = Len(p) - 1
        /\ v # <<>> => Tail(v) \in Texts /\ Len(v) \in Nat \ {0} /\ Len(Tail(v)) = Len(v) - 1
    BY TailIsSkip
  <2>3. CASE p = <<>>
    <3>1. Letters[p] = 0
      BY <2>3, LettersIs
    <3> QED  BY <2>1, <3>1
  <2>4. p # <<>> => Letters[p] = Letters[Tail(p)] + (IF p[1] = Ast THEN 0 ELSE 1)
    BY LettersIs
  <2>5. CASE p # <<>> /\ Matches[<<Tail(p), v>>] /\ p[1] = Ast
    <3>1. Good(Tail(p), v)
      <4>1. Len(Tail(p)) + Len(v) < Len(p) + Len(v)
        BY <2>1, <2>2, <2>5
      <4> HIDE DEF Good
      <4> QED  BY <1>1, <1>2, <2>2, <2>5, <4>1, Zenon
    <3> QED  BY <2>1, <2>2, <2>4, <2>5, <3>1
  <2>6. CASE p # <<>> /\ v # <<>> /\ Matches[<<p, Tail(v)>>]
    <3>1. Good(p, Tail(v))
      <4>1. Len(p) + Len(Tail(v)) < Len(p) + Len(v)
        BY <2>1, <2>2, <2>6
      <4> HIDE DEF Good
      <4> QED  BY <1>1, <1>2, <2>2, <2>6, <4>1, Zenon
    <3> QED  BY <2>1, <2>2, <2>6, <3>1
  <2>7. CASE p # <<>> /\ v # <<>> /\ Matches[<<Tail(p), Tail(v)>>]
    <3>1. Good(Tail(p), Tail(v))
      <4>1. Len(Tail(p)) + Len(Tail(v)) < Len(p) + Len(v)
        BY <2>1, <2>2, <2>7
      <4> HIDE DEF Good
      <4> QED  BY <1>1, <1>2, <2>2, <2>7, <4>1, Zenon
    <3> QED  BY <2>1, <2>2, <2>4, <2>7, <3>1
  <2> QED  BY <2>3, <2>5, <2>6, <2>7, MatchSteps
<1>3. PairProgress(P)
  <2> HIDE DEF Good
  <2> QED  BY <1>1, <1>2, Zenon DEF PairProgress
<1>4. Good(str, w)
  <2> HIDE DEF Good
  <2> QED  BY <1>1, <1>3, PairInduction
<1> QED  BY <1>4, LettersIs

(* An asterisk in what is left that may have to stand for nothing in the postfix *)
(* is one in the pattern.                                                        *)
LEMMA StarInEnd ==
  ASSUME NEW str \in Texts, NEW z, EndOf(z, str), NEW post \in Texts, StarInPost(z, post)
  PROVE  StarInPost(str, post)
<1>1. PICK n \in 0 .. Len(str) : z = Skip(str, n)
  BY DEF EndOf
<1>2. /\ z \in Texts /\ Len(z) = Len(str) - n /\ \A i \in 1 .. Len(str) - n : z[i] = str[n + i]
      /\ DOMAIN z = 1 .. Len(z) /\ DOMAIN str = 1 .. Len(str) /\ Len(str) \in Nat
  BY <1>1, SkipHolds, TextLetters, LenProperties DEF Texts
<1>3. PICK i \in DOMAIN z :
        /\ z[i] = Ast /\ Letters[Skip(z, i)] < Len(post)
        /\ i < Len(z) \/ (i > 1 /\ z[i - 1] = Quest)
  BY DEF StarInPost
<1>4. i \in 0 .. Len(str) - n /\ i \in 1 .. Len(str) - n
  BY <1>2
<1>5. Skip(z, i) = Skip(str, n + i)
  BY <1>1, <1>4, SkipTwice
<1> DEFINE j == n + i
<1>6. j \in DOMAIN str /\ str[j] = Ast /\ Letters[Skip(str, j)] < Len(post)
  <2>1. n + i \in 1 .. Len(str)
    BY <1>2, <1>4
  <2> QED  BY <1>2, <1>3, <1>4, <1>5, <2>1
<1>7. i < Len(z) => j < Len(str)
  BY <1>2, <1>4
<1>8. i > 1 /\ z[i - 1] = Quest => j > 1 /\ str[j - 1] = Quest
  <2> SUFFICES ASSUME i > 1, z[i - 1] = Quest  PROVE j > 1 /\ str[j - 1] = Quest
    OBVIOUS
  <2>1. i - 1 \in 1 .. Len(str) - n /\ n + (i - 1) = j - 1 /\ j > 1
    BY <1>2, <1>4
  <2> QED  BY <1>2, <2>1
<1> HIDE DEF j
<1> QED  BY <1>3, <1>6, <1>7, <1>8 DEF StarInPost

(* Asterisks only at the end, and not behind a question mark. *)
LastStar(str) ==
  \A i \in DOMAIN str : str[i] = Ast => i = Len(str) /\ (i > 1 => str[i - 1] # Quest)

(* The asterisks of what is left stand where they stood. *)
LEMMA LastStarEnd ==
  ASSUME NEW str \in Texts, LastStar(str), NEW n \in 0 .. Len(str)
  PROVE  LastStar(Skip(str, n))
<1> DEFINE z == Skip(str, n)
<1>1. /\ z \in Texts /\ Len(z) = Len(str) - n /\ \A i \in 1 .. Len(str) - n : z[i] = str[n + i]
      /\ DOMAIN z = 1 .. Len(z) /\ DOMAIN str = 1 .. Len(str) /\ Len(str) \in Nat
  BY SkipHolds, TextLetters, LenProperties DEF Texts
<1> HIDE DEF z
<1>2. ASSUME NEW i \in DOMAIN z, z[i] = Ast  PROVE i = Len(z) /\ (i > 1 => z[i - 1] # Quest)
  <2>0. i \in 1 .. Len(str) - n /\ n \in Nat /\ Len(str) \in Nat
    BY <1>1
  <2>1. n + i \in DOMAIN str /\ str[n + i] = Ast
    <3>1. n + i \in 1 .. Len(str)
      BY <1>1, <2>0
    <3> QED  BY <1>1, <1>2, <2>0, <3>1
  <2>2. n + i = Len(str) /\ (n + i > 1 => str[(n + i) - 1] # Quest)
    BY <2>1 DEF LastStar
  <2>3. i = Len(z)
    BY <1>1, <2>0, <2>2
  <2>4. ASSUME i > 1  PROVE z[i - 1] # Quest
    <3>1. i - 1 \in 1 .. Len(str) - n /\ n + (i - 1) = (n + i) - 1 /\ n + i > 1
      BY <2>0, <2>4
    <3> QED  BY <1>1, <2>2, <3>1
  <2> QED  BY <2>3, <2>4
<1> QED  BY <1>2 DEF LastStar, z

(* A pattern that matches nothing is empty or begins with an asterisk. *)
LEMMA MatchesNothing ==
  ASSUME NEW str \in Texts, Matches[<<str, <<>>>>]
  PROVE  str = <<>> \/ (str # <<>> /\ str[1] = Ast /\ Tail(str) \in Texts /\ Matches[<<Tail(str), <<>>>>])
<1>1. <<>> \in Texts
  BY EmptySeq DEF Texts
<1>2. str # <<>> => Tail(str) \in Texts
  BY TailIsSkip
<1>3. CASE str # <<>> /\ str[1] # Ast
  BY <1>1, <1>3, MatchSteps
<1>4. CASE str # <<>> /\ str[1] = Ast
  BY <1>1, <1>2, <1>4, MatchSteps
<1> QED  BY <1>3, <1>4

(* Then it is empty or nothing but asterisks. *)
LEMMA MatchesNothingFirm ==
  ASSUME NEW str \in Texts, Matches[<<str, <<>>>>]
  PROVE  str = <<>> \/ IsAsterisk(str)
<1> DEFINE Good(p) == Matches[<<p, <<>>>>] => p = <<>> \/ IsAsterisk(p)
           P == {p \in Texts : Good(p)}
<1>1. <<>> \in P
  BY EmptySeq DEF Texts
<1>2. ASSUME NEW p \in Texts, p # <<>>, Tail(p) \in P  PROVE p \in P
  <2>1. Good(Tail(p))
    BY <1>2
  <2>2. ASSUME Matches[<<p, <<>>>>]  PROVE IsAsterisk(p)
    <3>1. p[1] = Ast /\ Matches[<<Tail(p), <<>>>>]
      BY <1>2, <2>2, MatchesNothing
    <3>2. Tail(p) = <<>> \/ IsAsterisk(Tail(p))
      BY <2>1, <3>1
    <3>3. /\ Tail(p) \in Texts /\ Len(p) \in Nat \ {0} /\ Len(Tail(p)) = Len(p) - 1
          /\ \A i \in 1 .. Len(p) - 1 : Tail(p)[i] = p[i + 1]
      BY <1>2, TailIsSkip
    <3>4. DOMAIN p = 1 .. Len(p) /\ DOMAIN Tail(p) = 1 .. Len(p) - 1
      BY <3>3, LenProperties DEF Texts
    <3>5. ASSUME NEW i \in DOMAIN p  PROVE p[i] = Ast
      <4>1. CASE i = 1
        BY <3>1, <4>1
      <4>2. CASE i # 1
        <5>1. i - 1 \in 1 .. Len(p) - 1 /\ (i - 1) + 1 = i
          BY <3>3, <3>4, <4>2
        <5>2. Tail(p) # <<>>
          <6>1. Len(<<>>) = 0
            OBVIOUS
          <6> QED  BY <3>3, <5>1, <6>1
        <5>3. Tail(p)[i - 1] = Ast
          BY <3>2, <3>4, <5>1, <5>2 DEF IsAsterisk
        <5> QED  BY <3>3, <5>1, <5>3
      <4> QED  BY <4>1, <4>2
    <3> QED  BY <1>2, <3>5 DEF IsAsterisk
  <2>3. Good(p)
    BY <2>2
  <2> QED  BY <2>3
<1>3. str \in P
  <2> HIDE DEF P
  <2> QED  BY <1>1, <1>2, TextInduction
<1> QED  BY <1>3

(* A postfix that matches is found right, when the asterisk need not stand for   *)
(* nothing within it.                                                            *)
LEMMA PostComplete ==
  ASSUME NEW str \in Texts, LastStar(str), NEW post \in Texts, ~WildMask(post), Matches[<<str, post>>],
         ~(str # <<>> /\ str[1] = Ast /\ post = <<>>)
  PROVE  GetPostMatch[<<str, post>>]
<1> DEFINE Good(t, q) ==
             /\ LastStar(t) /\ ~WildMask(q) /\ Matches[<<t, q>>]
             /\ ~(t # <<>> /\ t[1] = Ast /\ q = <<>>)
             => GetPostMatch[<<t, q>>]
           P == {x \in TwoTexts : Good(x[1], x[2])}
<1>1. \A t, q \in Texts : <<t, q>> \in P <=> Good(t, q)
  BY DEF TwoTexts
<1> HIDE DEF P
<1>2. ASSUME NEW t \in Texts, NEW q \in Texts,
             \A v, z \in Texts : Len(v) + Len(z) < Len(t) + Len(q) => <<v, z>> \in P
      PROVE  Good(t, q)
  <2> SUFFICES ASSUME LastStar(t), ~WildMask(q), Matches[<<t, q>>],
                      ~(t # <<>> /\ t[1] = Ast /\ q = <<>>)
               PROVE  GetPostMatch[<<t, q>>]
    OBVIOUS
  <2>1. CASE q = <<>>
    <3>1. t = <<>>
      BY <2>1, MatchesNothing
    <3> QED  BY <2>1, <3>1, PostSteps
  <2>2. CASE q # <<>>
    <3>1. PICK u \in Texts, s \in Texts, p \in Texts : PostCase(t, q, u, s, p)
      BY <2>2, PostSteps
    <3>2. /\ s = Skip(t, Len(u)) /\ t = u \o s /\ q = u \o p /\ ~WildMask(u) /\ ~WildMask(p)
          /\ Len(s) <= Len(t) /\ Len(p) <= Len(q)
          /\ p # <<>> /\ s # <<>> => p[1] # s[1]
      BY <3>1 DEF PostCase
    <3>3. Matches[<<s, p>>]
      BY <3>2, MatchShared
    <3>4. LastStar(s)
      <4>1. Len(u) \in 0 .. Len(t)
        <5>1. Len(u \o s) = Len(u) + Len(s)
          BY JoinHolds
        <5>2. Len(u) \in Nat /\ Len(s) \in Nat
          BY TextLetters
        <5> QED  BY <3>2, <5>1, <5>2
      <4> QED  BY <3>2, <4>1, LastStarEnd
    <3>5. CASE s = <<>>
      <4>1. p = <<>>
        BY <3>3, <3>5, MatchSteps
      <4> QED  BY <3>1, <3>5, <4>1 DEF PostCase
    <3>6. CASE s # <<>> /\ p = <<>>
      <4>1. IsAsterisk(s)
        BY <3>3, <3>6, MatchesNothingFirm
      <4> QED  BY <3>1, <3>6, <4>1 DEF PostCase
    <3>7. CASE s # <<>> /\ p # <<>>
      <4>1. /\ Tail(s) \in Texts /\ Len(s) \in Nat \ {0} /\ Len(Tail(s)) = Len(s) - 1
            /\ Tail(p) \in Texts /\ Len(p) \in Nat \ {0} /\ Len(Tail(p)) = Len(p) - 1
            /\ Len(t) \in Nat /\ Len(q) \in Nat
            /\ \A i \in 1 .. Len(s) - 1 : Tail(s)[i] = s[i + 1]
            /\ Tail(s) = Skip(s, 1)
        BY <3>7, TailIsSkip, TextLetters
      <4>2. ~WildMask(Tail(p)) /\ LastStar(Tail(s))
        <5>1. 1 \in 0 .. Len(s)
          BY <4>1
        <5> QED  BY <3>2, <3>4, <3>7, <4>1, <5>1, NoWildTail, LastStarEnd
      <4>3. DOMAIN s = 1 .. Len(s) /\ 1 \in 1 .. Len(s)
        BY <4>1, LenProperties DEF Texts
      <4>4. Good(Tail(s), Tail(p)) /\ Good(s, Tail(p))
        <5>1. Len(Tail(s)) + Len(Tail(p)) < Len(t) + Len(q) /\ Len(s) + Len(Tail(p)) < Len(t) + Len(q)
          BY <3>2, <4>1
        <5>2. <<Tail(s), Tail(p)>> \in P /\ <<s, Tail(p)>> \in P
          BY <1>2, <4>1, <5>1, Zenon
        <5> HIDE DEF Good
        <5> QED  BY <1>1, <4>1, <5>2, Zenon
      <4>5. Quest # Ast
        BY DEF Quest, Ast
      <4>6. CASE s[1] = Quest
        <5>1. Matches[<<Tail(s), Tail(p)>>]
          BY <3>3, <3>7, <4>5, <4>6, MatchSteps
        <5>2. ~(Tail(s) # <<>> /\ Tail(s)[1] = Ast)
          <6> SUFFICES ASSUME Tail(s) # <<>>, Tail(s)[1] = Ast  PROVE FALSE
            OBVIOUS
          <6>1. 1 \in 1 .. Len(Tail(s))
            BY <4>1, FirstLetter
          <6>2. 1 \in 1 .. Len(s) - 1 /\ 2 \in 1 .. Len(s) /\ 1 + 1 = 2 /\ 2 - 1 = 1
            BY <4>1, <6>1
          <6>3. s[2] = Ast
            BY <4>1, <6>2
          <6>4. s[2 - 1] # Quest
            BY <3>4, <4>3, <6>2, <6>3 DEF LastStar
          <6> QED  BY <4>6, <6>2, <6>4
        <5>3. GetPostMatch[<<Tail(s), Tail(p)>>]
          BY <4>2, <4>4, <5>1, <5>2
        <5> QED  BY <3>1, <3>7, <4>6, <5>3 DEF PostCase
      <4>7. CASE s[1] = Ast
        <5>1. Len(s) = 1
          BY <3>4, <4>3, <4>7 DEF LastStar
        <5>2. IsAsterisk(s) /\ Tail(s) = <<>>
          BY <4>7, <5>1, LoneAsterisk
        <5>3. CASE Tail(p) = <<>>
          <6>1. <<>> \in Texts
            BY EmptySeq DEF Texts
          <6>2. GetPostMatch[<<Tail(s), Tail(p)>>]
            BY <4>1, <4>2, <5>2, <5>3, <6>1, PostSteps
          <6> QED  BY <3>1, <3>7, <4>7, <6>2 DEF PostCase
        <5>4. CASE Tail(p) # <<>>
          <6>1. Matches[<<s, Tail(p)>>]
            BY <4>1, <5>2, AsteriskMatches
          <6>2. GetPostMatch[<<s, Tail(p)>>]
            BY <3>4, <4>2, <4>4, <5>4, <6>1
          <6> QED  BY <3>1, <3>7, <4>7, <6>2 DEF PostCase
        <5> QED  BY <5>3, <5>4
      <4>8. CASE s[1] # Quest /\ s[1] # Ast
        BY <3>2, <3>3, <3>7, <4>8, MatchSteps
      <4> QED  BY <4>6, <4>7, <4>8
    <3> QED  BY <3>5, <3>6, <3>7
  <2> QED  BY <2>1, <2>2
<1>3. PairProgress(P)
  <2> HIDE DEF Good
  <2> QED  BY <1>1, <1>2, Zenon DEF PairProgress
<1>4. Good(str, post)
  <2> HIDE DEF Good
  <2> QED  BY <1>1, <1>3, PairInduction
<1> QED  BY <1>4

(* A pattern that begins with a letter and matches the postfix has asterisks *)
(* only where the comparison with the postfix takes them.                    *)
LEMMA StarsInPost ==
  ASSUME NEW str \in Texts, str # <<>>, str[1] # Ast, NEW post \in Texts, Matches[<<str, post>>],
         ~StarInPost(str, post)
  PROVE  LastStar(str)
<1>1. /\ Tail(str) \in Texts /\ Len(str) \in Nat \ {0} /\ Len(Tail(str)) = Len(str) - 1
      /\ Tail(str) = Skip(str, 1) /\ DOMAIN str = 1 .. Len(str) /\ Len(post) \in Nat
  BY TailIsSkip, TextLetters, LenProperties DEF Texts
<1>2. Letters[str] = Letters[Tail(str)] + 1 /\ Letters[Tail(str)] \in Nat
  BY <1>1, LettersIs
<1>3. Letters[str] <= Len(post)
  BY LettersMatched
<1>4. ASSUME NEW i \in DOMAIN str, str[i] = Ast  PROVE i = Len(str) /\ (i > 1 => str[i - 1] # Quest)
  <2>1. i \in 1 .. Len(str) /\ i # 1
    BY <1>1, <1>4
  <2>2. Letters[Skip(str, i)] < Len(post)
    <3> DEFINE m == i - 1
    <3>1. 1 \in 0 .. Len(str) /\ m \in 0 .. Len(str) - 1 /\ 1 + m = i
      BY <1>1, <2>1
    <3> HIDE DEF m
    <3>2. Skip(Skip(str, 1), m) = Skip(str, 1 + m)
      BY <3>1, SkipTwice
    <3>3. EndOf(Skip(str, i), Tail(str))
      BY <1>1, <3>1, <3>2 DEF EndOf
    <3>4. Letters[Skip(str, i)] \in Nat /\ Letters[Skip(str, i)] <= Letters[Tail(str)]
      BY <1>1, <3>3, LettersSkip
    <3> QED  BY <1>1, <1>2, <1>3, <3>4
  <2>3. ~(i < Len(str) \/ (i > 1 /\ str[i - 1] = Quest))
    BY <1>4, <2>2 DEF StarInPost
  <2> QED  BY <1>1, <2>1, <2>3
<1> QED  BY <1>4 DEF LastStar

(* An ending with its postfix that matches is found right. *)
LEMMA FlexComplete ==
  ASSUME NEW post \in Texts, ~WildMask(post), NEW str \in Texts, NEW text \in Texts, ~WildMask(text),
         Matches[<<str, text \o post>>], ~StarInPost(str, post)
  PROVE  FlexFits[<<str, text, post>>]
<1> DEFINE Good(t, x) ==
             ~WildMask(x) /\ Matches[<<t, x \o post>>] /\ ~StarInPost(t, post) => FlexFits[<<t, x, post>>]
           P == {x \in TwoTexts : Good(x[1], x[2])}
<1>1. \A t, x \in Texts : <<t, x>> \in P <=> Good(t, x)
  BY DEF TwoTexts
<1> HIDE DEF P
<1>2. ASSUME NEW t \in Texts, NEW x \in Texts,
             \A v, z \in Texts : Len(v) + Len(z) < Len(t) + Len(x) => <<v, z>> \in P
      PROVE  Good(t, x)
  <2> SUFFICES ASSUME ~WildMask(x), Matches[<<t, x \o post>>], ~StarInPost(t, post)
               PROVE  FlexFits[<<t, x, post>>]
    OBVIOUS
  <2>0. Len(t) \in Nat /\ Len(x) \in Nat /\ Len(post) \in Nat /\ Quest # Ast
    <3>1. Len(t) \in Nat /\ Len(x) \in Nat /\ Len(post) \in Nat
      BY TextLetters
    <3> QED  BY <3>1 DEF Quest, Ast
  <2>1. /\ t # <<>> => Tail(t) \in Texts /\ Len(t) \in Nat \ {0} /\ Len(Tail(t)) = Len(t) - 1
        /\ x # <<>> => /\ Tail(x) \in Texts /\ Len(x) \in Nat \ {0} /\ Len(Tail(x)) = Len(x) - 1
                       /\ ~WildMask(Tail(x)) /\ x[1] # Ast /\ x[1] # Quest
    BY TailIsSkip, NoWildTail
  <2>2. t # <<>> => ~StarInPost(Tail(t), post)
    BY EndOfTail, StarInEnd
  <2>3. t # <<>> => Good(Tail(t), x)
    <3> SUFFICES ASSUME t # <<>>  PROVE Good(Tail(t), x)
      OBVIOUS
    <3>1. Len(Tail(t)) + Len(x) < Len(t) + Len(x)
      BY <2>0, <2>1
    <3> HIDE DEF Good
    <3> QED  BY <1>1, <1>2, <2>1, <3>1, Zenon
  <2>4. x # <<>> => Good(t, Tail(x)) /\ (t # <<>> => Good(Tail(t), Tail(x)))
    <3> SUFFICES ASSUME x # <<>>  PROVE Good(t, Tail(x)) /\ (t # <<>> => Good(Tail(t), Tail(x)))
      OBVIOUS
    <3>1. Len(t) + Len(Tail(x)) < Len(t) + Len(x)
      BY <2>0, <2>1
    <3>2. t # <<>> => Len(Tail(t)) + Len(Tail(x)) < Len(t) + Len(x)
      BY <2>0, <2>1
    <3> HIDE DEF Good
    <3> QED  BY <1>1, <1>2, <2>1, <3>1, <3>2, Zenon
  <2> DEFINE w == x \o post
  <2>5. /\ w \in Texts /\ Matches[<<t, w>>]
        /\ x # <<>> => w # <<>> /\ w[1] = x[1] /\ Tail(w) = Tail(x) \o post
        /\ x = <<>> => w = post
    BY JoinHolds
  <2> HIDE DEF w
  <2>6. CASE x # <<>>
    <3>1. t # <<>>
      BY <2>5, <2>6, MatchSteps
    <3>2. CASE t[1] # Ast
      <4>1. t[1] \in {Quest, x[1]} /\ Matches[<<Tail(t), Tail(w)>>]
        BY <2>5, <2>6, <3>1, <3>2, MatchSteps
      <4>2. FlexFits[<<Tail(t), Tail(x), post>>]
        BY <2>1, <2>2, <2>4, <2>5, <2>6, <3>1, <4>1
      <4> QED  BY <2>6, <3>1, <4>1, <4>2, FlexSteps
    <3>3. CASE t[1] = Ast
      <4>1. Matches[<<Tail(t), w>>] \/ Matches[<<t, Tail(w)>>]
        BY <2>5, <2>6, <3>1, <3>3, MatchSteps
      <4>2. CASE Matches[<<Tail(t), w>>]
        <5>1. FlexFits[<<Tail(t), x, post>>]
          BY <2>2, <2>3, <3>1, <4>2 DEF w
        <5> QED  BY <3>1, <3>3, <5>1, FlexSteps
      <4>3. CASE Matches[<<t, Tail(w)>>]
        <5>1. FlexFits[<<t, Tail(x), post>>]
          BY <2>1, <2>4, <2>5, <2>6, <4>3
        <5>2. t[1] \notin {Quest, x[1]}
          BY <2>0, <2>1, <2>6, <3>3
        <5> QED  BY <2>6, <3>1, <3>3, <5>1, <5>2, FlexSteps
      <4> QED  BY <4>1, <4>2, <4>3
    <3> QED  BY <3>2, <3>3
  <2>7. CASE x = <<>> /\ t = <<>>
    <3>1. Matches[<<t, post>>]
      BY <2>5, <2>7
    <3>2. LastStar(t)
      BY <2>7 DEF LastStar
    <3>3. GetPostMatch[<<t, post>>]
      BY <2>7, <3>1, <3>2, PostComplete
    <3> QED  BY <2>7, <3>3, FlexSteps
  <2>8. CASE x = <<>> /\ t # <<>> /\ t[1] # Ast
    <3>1. Matches[<<t, post>>]
      BY <2>5, <2>8
    <3>2. LastStar(t)
      BY <2>8, <3>1, StarsInPost
    <3>3. GetPostMatch[<<t, post>>]
      BY <2>8, <3>1, <3>2, PostComplete
    <3> QED  BY <2>8, <3>3, FlexSteps
  <2>9. CASE x = <<>> /\ t # <<>> /\ t[1] = Ast
    <3>1. Matches[<<Tail(t), post>>] \/ (post # <<>> /\ Matches[<<t, Tail(post)>>])
      BY <2>5, <2>9, MatchSteps
    <3>2. CASE Matches[<<Tail(t), post>>]
      <4>1. FlexFits[<<Tail(t), x, post>>]
        BY <2>2, <2>3, <2>5, <2>9, <3>2 DEF w
      <4> QED  BY <2>9, <4>1, FlexSteps
    <3>3. CASE post # <<>> /\ Matches[<<t, Tail(post)>>]
      <4>1. /\ Tail(post) \in Texts /\ Len(Tail(post)) = Len(post) - 1 /\ Tail(t) = Skip(t, 1)
            /\ DOMAIN t = 1 .. Len(t) /\ 1 \in 1 .. Len(t)
        BY <2>1, <2>9, <3>3, TailIsSkip, LenProperties DEF Texts
      <4>2. Letters[t] \in Nat /\ Letters[t] <= Len(post) - 1 /\ Letters[t] = Letters[Tail(t)]
        <5> DEFINE q == Tail(post)
        <5>1. q \in Texts /\ Matches[<<t, q>>]
          BY <3>3, <4>1
        <5>2. Len(q) = Len(post) - 1
          BY <4>1
        <5> HIDE DEF q
        <5>3. Letters[t] \in Nat /\ Letters[t] <= Len(q)
          BY <5>1, LettersMatched
        <5>4. Letters[t] = Letters[Tail(t)] + 0
          BY <2>9, LettersIs
        <5>5. Letters[Tail(t)] \in Nat
          BY <2>1, <2>9, LettersIs
        <5> QED  BY <2>0, <5>2, <5>3, <5>4, <5>5
      <4>3. ~(1 < Len(t))
        <5>1. Letters[Skip(t, 1)] < Len(post)
          <6>1. Letters[Skip(t, 1)] = Letters[t]
            BY <4>1, <4>2
          <6> QED  BY <2>0, <4>2, <6>1
        <5> QED  BY <2>9, <4>1, <5>1 DEF StarInPost
      <4>4. Len(t) = 1
        <5>1. Len(t) \in Nat \ {0}
          BY <2>1, <2>9
        <5>2. \A m \in Nat \ {0} : ~(1 < m) => m = 1
          OBVIOUS
        <5> QED  BY <4>3, <5>1, <5>2, Zenon
      <4>5. IsAsterisk(t)
        BY <2>9, <4>4, LoneAsterisk
      <4>6. LastStar(t)
        <5>1. DOMAIN t = 1 .. 1 /\ \A i \in 1 .. 1 : i = 1 /\ ~(i > 1)
          BY <4>1, <4>4
        <5> QED  BY <4>4, <5>1 DEF LastStar
      <4>7. Matches[<<t, post>>]
        BY <4>5, AsteriskMatches
      <4>8. GetPostMatch[<<t, post>>]
        BY <3>3, <4>6, <4>7, PostComplete
      <4> QED  BY <2>9, <4>8, FlexSteps
    <3> QED  BY <3>1, <3>2, <3>3
  <2> QED  BY <2>6, <2>7, <2>8, <2>9
<1>3. PairProgress(P)
  <2> HIDE DEF Good
  <2> QED  BY <1>1, <1>2, Zenon DEF PairProgress
<1>4. Good(str, text)
  <2> HIDE DEF Good
  <2> QED  BY <1>1, <1>3, PairInduction
<1> QED  BY <1>4

-------------------------------------------------------------------------------
(* What matches is found: the rows, the lists and the walk. *)

(* What is left of the pattern behind a row that matches is found. *)
LEMMA IntrComplete ==
  ASSUME NEW y \in Texts, NEW row \in Texts, NEW str \in Texts, ~WildMask(row), Matches[<<str, row \o y>>]
  PROVE  \E z \in IntrRests[<<row, str>>] : EndOf(z, str) /\ Matches[<<z, y>>]
<1> DEFINE Found(q, t) == \E z \in IntrRests[<<q, t>>] : EndOf(z, t) /\ Matches[<<z, y>>]
           Good(q, t) == ~WildMask(q) /\ Matches[<<t, q \o y>>] => Found(q, t)
           P == {x \in TwoTexts : Good(x[1], x[2])}
<1>1. \A q, t \in Texts : <<q, t>> \in P <=> Good(q, t)
  BY DEF TwoTexts
<1> HIDE DEF P
<1>2. ASSUME NEW q \in Texts, NEW t \in Texts,
             \A a, b \in Texts : Len(a) + Len(b) < Len(q) + Len(t) => <<a, b>> \in P
      PROVE  Good(q, t)
  <2> SUFFICES ASSUME ~WildMask(q), Matches[<<t, q \o y>>]  PROVE Found(q, t)
    OBVIOUS
  <2>1. PICK u \in Texts, s \in Texts, r \in Texts : IntrCase(q, t, u, s, r)
    BY IntrSteps
  <2>2. /\ t = u \o s /\ q = u \o r /\ ~WildMask(u) /\ ~WildMask(r)
        /\ Len(s) <= Len(t) /\ Len(r) <= Len(q) /\ s = Skip(t, Len(u))
        /\ r # <<>> /\ s # <<>> => r[1] # s[1]
    BY <2>1 DEF IntrCase
  <2>3. EndOf(s, t)
    <3>1. Len(u \o s) = Len(u) + Len(s) /\ Len(u) \in Nat /\ Len(s) \in Nat
      BY JoinHolds, TextLetters
    <3>2. Len(u) \in 0 .. Len(t)
      BY <2>2, <3>1
    <3> QED  BY <2>2, <3>2 DEF EndOf
  <2> DEFINE v == r \o y
  <2>4. /\ v \in Texts /\ q \o y = u \o v
        /\ r # <<>> => v # <<>> /\ v[1] = r[1] /\ Tail(v) = Tail(r) \o y
        /\ r = <<>> => v = y
    <3>1. (u \o r) \o y = u \o (r \o y)
      BY JoinThrice
    <3>2. /\ r \o y \in Texts
          /\ r # <<>> => r \o y # <<>> /\ (r \o y)[1] = r[1] /\ Tail(r \o y) = Tail(r) \o y
          /\ r = <<>> => r \o y = y
      BY JoinHolds
    <3> QED  BY <2>2, <3>1, <3>2, Zenon
  <2> HIDE DEF v, Found
  <2>5. Matches[<<s, v>>]
    BY <2>2, <2>4, MatchShared
  <2>6. /\ Len(q) \in Nat /\ Len(t) \in Nat /\ Len(s) \in Nat /\ Len(r) \in Nat
        /\ s # <<>> => Tail(s) \in Texts /\ Len(s) \in Nat \ {0} /\ Len(Tail(s)) = Len(s) - 1
        /\ r # <<>> => Tail(r) \in Texts /\ Len(r) \in Nat \ {0} /\ Len(Tail(r)) = Len(r) - 1 /\ ~WildMask(Tail(r))
    BY <2>2, TailIsSkip, NoWildTail, TextLetters
  <2>7. s # <<>> => EndOf(Tail(s), s)
    BY EndOfTail
  <2>8. ASSUME NEW a, EndOf(a, s), NEW z, EndOf(z, a)  PROVE EndOf(z, t)
    <3>1. EndOf(a, t)
      BY <2>3, <2>8, EndOfEnd
    <3> QED  BY <2>8, <3>1, EndOfEnd
  <2>9. CASE r = <<>>
    <3>1. s \in IntrRests[<<q, t>>] /\ Matches[<<s, y>>]
      BY <2>1, <2>4, <2>5, <2>9 DEF IntrCase
    <3> QED  BY <2>3, <3>1 DEF Found
  <2>10. CASE r # <<>> /\ s # <<>> /\ s[1] = Quest
    <3>1. Matches[<<Tail(s), Tail(r) \o y>>]
      <4>1. Quest # Ast
        BY DEF Quest, Ast
      <4> QED  BY <2>4, <2>5, <2>10, <4>1, MatchSteps
    <3>2. Good(Tail(r), Tail(s))
      <4>1. Len(Tail(r)) + Len(Tail(s)) < Len(q) + Len(t)
        BY <2>2, <2>6, <2>10
      <4> HIDE DEF Good
      <4> QED  BY <1>1, <1>2, <2>6, <2>10, <4>1, Zenon
    <3>3. PICK z \in IntrRests[<<Tail(r), Tail(s)>>] : EndOf(z, Tail(s)) /\ Matches[<<z, y>>]
      BY <2>6, <2>10, <3>1, <3>2 DEF Found
    <3>4. z \in IntrRests[<<q, t>>]
      BY <2>1, <2>10, <3>3 DEF IntrCase
    <3> QED  BY <2>7, <2>8, <2>10, <3>3, <3>4 DEF Found
  <2>11. CASE r # <<>> /\ s # <<>> /\ s[1] = Ast
    <3>1. Matches[<<Tail(s), v>>] \/ Matches[<<s, Tail(v)>>]
      BY <2>4, <2>5, <2>11, MatchSteps
    <3>2. IntrRests[<<q, t>>] = IntrRests[<<r, Tail(s)>>] \cup IntrRests[<<Tail(r), s>>]
      BY <2>1, <2>11 DEF IntrCase
    <3>3. CASE Matches[<<Tail(s), v>>]
      <4>1. Good(r, Tail(s))
        <5>1. Len(r) + Len(Tail(s)) < Len(q) + Len(t)
          BY <2>2, <2>6, <2>11
        <5> HIDE DEF Good
        <5> QED  BY <1>1, <1>2, <2>6, <2>11, <5>1, Zenon
      <4>2. PICK z \in IntrRests[<<r, Tail(s)>>] : EndOf(z, Tail(s)) /\ Matches[<<z, y>>]
        BY <2>2, <3>3, <4>1 DEF Found, v
      <4> QED  BY <2>7, <2>8, <2>11, <3>2, <4>2 DEF Found
    <3>4. CASE Matches[<<s, Tail(v)>>]
      <4>1. Good(Tail(r), s)
        <5>1. Len(Tail(r)) + Len(s) < Len(q) + Len(t)
          BY <2>2, <2>6, <2>11
        <5> HIDE DEF Good
        <5> QED  BY <1>1, <1>2, <2>6, <2>11, <5>1, Zenon
      <4>2. PICK z \in IntrRests[<<Tail(r), s>>] : EndOf(z, s) /\ Matches[<<z, y>>]
        BY <2>4, <2>6, <2>11, <3>4, <4>1 DEF Found
      <4>3. EndOf(z, t)
        BY <2>3, <4>2, EndOfEnd
      <4> QED  BY <3>2, <4>2, <4>3 DEF Found
    <3> QED  BY <3>1, <3>3, <3>4
  <2>12. CASE r # <<>> /\ s = <<>>
    BY <2>4, <2>5, <2>12, MatchSteps
  <2>13. CASE r # <<>> /\ s # <<>> /\ s[1] # Ast /\ s[1] # Quest
    BY <2>2, <2>4, <2>5, <2>13, MatchSteps
  <2> QED  BY <2>9, <2>10, <2>11, <2>12, <2>13
<1>3. PairProgress(P)
  <2> HIDE DEF Good
  <2> QED  BY <1>1, <1>2, Zenon DEF PairProgress
<1>4. Good(row, str)
  <2> HIDE DEF Good
  <2> QED  BY <1>1, <1>3, PairInduction
<1> QED  BY <1>4

(* A form of a stem with a rest that matches is found. *)
LEMMA FormsComplete ==
  ASSUME NEW s \in Stems, Flective(s.entry), NEW str \in Texts, NEW f, NEW y, Rest(s.entry, f, y),
         Matches[<<str, y>>], ~StarInPost(str, s.entry.post)
  PROVE  f \in FormsOf(str, s.entry)
<1> DEFINE e == s.entry
<1>1. /\ e.post \in Texts /\ ~WildMask(e.post)
      /\ \A x \in e.endings : x.text \in Texts /\ ~WildMask(x.text)
      /\ \A r \in Alternations(e) : r.text \in Texts /\ ~WildMask(r.text)
  BY PartsTame
<1>2. PICK r \in Alternations(e), x \in e.endings :
        Allowed(e, x, r.levels) /\ f = x.form /\ y = r.text \o (x.text \o e.post)
  BY DEF Rest
<1>3. /\ r.text \in Texts /\ ~WildMask(r.text) /\ x.text \in Texts /\ ~WildMask(x.text)
      /\ e.post \in Texts /\ ~WildMask(e.post) /\ ~StarInPost(str, e.post)
  BY <1>1
<1> HIDE DEF e
<1> DEFINE w == x.text \o e.post
<1>4. w \in Texts /\ y = r.text \o w
  BY <1>2, <1>3, JoinHolds
<1>5. ASSUME NEW t \in Texts, EndOf(t, str), Matches[<<t, x.text \o e.post>>]
      PROVE  f \in GetFlexMatch(t, e, r.levels)
  <2>1. ~StarInPost(t, e.post)
    BY <1>3, <1>5, StarInEnd
  <2>2. FlexFits[<<t, x.text, e.post>>]
    BY <1>3, <1>5, <2>1, FlexComplete
  <2> QED  BY <1>2, <2>2 DEF GetFlexMatch
<1>6. CASE ~Mixes(e)
  <2>1. r = [text |-> <<>>, levels |-> 1 .. 3]
    BY <1>6 DEF Alternations
  <2>2. r.text = <<>> /\ r.levels = AnyLevel
    BY <2>1 DEF AnyLevel
  <2>3. y = x.text \o e.post
    <3> HIDE DEF w
    <3>1. y = w
      BY <1>4, <2>2, JoinHolds
    <3> QED  BY <3>1 DEF w
  <2>4. f \in GetFlexMatch(str, e, AnyLevel)
    BY <1>5, <2>2, <2>3, EndOfTail
  <2> QED  BY <1>6, <2>4 DEF FormsOf, e
<1>7. CASE Mixes(e)
  <2>1. PICK i \in DOMAIN e.mix : r = e.mix[i]
    BY <1>7 DEF Alternations
  <2>2. PICK z \in IntrRests[<<r.text, str>>] : EndOf(z, str) /\ Matches[<<z, w>>]
    <3> HIDE DEF w
    <3> QED  BY <1>3, <1>4, IntrComplete
  <2>3. z \in Texts
    BY <2>2, EndOfTail
  <2>4. f \in GetFlexMatch(z, e, r.levels)
    BY <1>5, <2>2, <2>3
  <2>5. f \in GetIntrMatch(r.text, str, e, r.levels)
    BY <2>2, <2>4 DEF GetIntrMatch
  <2>6. f \in UNION {GetIntrMatch(e.mix[j].text, str, e, e.mix[j].levels) : j \in DOMAIN e.mix}
    BY <2>1, <2>5
  <2> QED  BY <1>7, <2>6 DEF FormsOf, e
<1> QED  BY <1>6, <1>7

(* A letter that begins what a stem has behind its node is within its bounds. *)
LEMMA RestCovered ==
  ASSUME NEW s \in Stems, Flective(s.entry), ~Hidden(s), NEW f, NEW y, Rest(s.entry, f, y), y # <<>>
  PROVE  y \in Texts /\ y[1] \in Int /\ ChrMin(s.entry) <= y[1] /\ y[1] <= ChrMax(s.entry)
<1> DEFINE e == s.entry
<1>1. /\ e \in StemEntry /\ e.post \in Texts
      /\ \A x \in e.endings : x.text \in Texts
      /\ \A r \in Alternations(e) : r.text \in Texts
  BY PartsTame
<1>2. PICK r \in Alternations(e), x \in e.endings :
        Allowed(e, x, r.levels) /\ f = x.form /\ y = r.text \o (x.text \o e.post)
  BY DEF Rest
<1>3. r.text \in Texts /\ x.text \in Texts
  BY <1>1, <1>2
<1>4. Flective(e) /\ ~Uncovered(e) /\ ~(Mixes(e) /\ BoundsLost(e)) /\ ~(ChrMax(e) < First(e.post))
  BY DEF Hidden
<1>5. ChrMin(e) \in 0 .. 255 /\ ChrMin(e) \in Int /\ ChrMax(e) \in 0 .. 255 /\ ChrMax(e) \in Int
  BY <1>1, BoundsAreCodes
<1> DEFINE c == IF r.text # <<>> THEN First(r.text) ELSE First(x.text)
<1>6. c # 0 => c \in ChrMin(e) .. ChrMax(e)
  <2> HIDE DEF e
  <2> QED  BY <1>1, <1>2, <1>4, Covered
<1>7. y \in Texts
  <2>1. x.text \o e.post \in Texts
    BY <1>1, <1>3, JoinHolds
  <2> QED  BY <1>2, <1>3, <2>1, JoinHolds
<1>8. y[1] \in 1 .. 255 /\ y[1] \in Int /\ First(y) = y[1]
  BY <1>7, FirstLetter, TextLetters
<1>9. CASE r.text # <<>>
  <2>1. y[1] = r.text[1]
    <3>1. x.text \o e.post \in Texts
      BY <1>1, <1>3, JoinHolds
    <3> QED  BY <1>2, <1>3, <1>9, <3>1, JoinHolds
  <2>2. c = y[1] /\ c # 0
    BY <1>3, <1>9, <2>1, FirstLetter
  <2>3. y[1] \in ChrMin(e) .. ChrMax(e)
    <3> HIDE DEF c, e
    <3> QED  BY <1>6, <2>2
  <2> HIDE DEF e
  <2> QED  BY <1>5, <1>7, <1>8, <2>3 DEF e
<1>10. CASE r.text = <<>> /\ x.text # <<>>
  <2>1. y = x.text \o e.post
    <3>1. x.text \o e.post \in Texts
      BY <1>1, <1>3, JoinHolds
    <3> QED  BY <1>2, <1>10, <3>1, JoinHolds
  <2>2. y[1] = x.text[1]
    BY <1>1, <1>3, <1>10, <2>1, JoinHolds
  <2>3. c = y[1] /\ c # 0
    BY <1>3, <1>10, <2>2, FirstLetter
  <2>4. y[1] \in ChrMin(e) .. ChrMax(e)
    <3> HIDE DEF c, e
    <3> QED  BY <1>6, <2>3
  <2> HIDE DEF e
  <2> QED  BY <1>5, <1>7, <1>8, <2>4 DEF e
<1>11. CASE r.text = <<>> /\ x.text = <<>>
  <2>1. y = e.post
    <3>1. x.text \o e.post = e.post
      BY <1>1, <1>11, JoinHolds
    <3>2. <<>> \o e.post = e.post
      BY <1>1, JoinHolds
    <3> QED  BY <1>2, <1>11, <3>1, <3>2
  <2>2. y[1] <= ChrMax(e)
    <3>1. First(e.post) = y[1]
      BY <1>8, <2>1
    <3> HIDE DEF e
    <3> QED  BY <1>4, <1>5, <1>8, <3>1
  <2>3. 0 \in FlexChars(e) /\ e.low = 0
    <3>1. First(x.text) = 0
      BY <1>11 DEF First
    <3>2. 0 \in FlexChars(e)
      BY <3>1 DEF FlexChars
    <3>3. 0 \in e.low .. e.high
      BY <1>4, <3>2 DEF Uncovered
    <3>4. e.low \in 0 .. 255
      BY <1>1 DEF StemEntry
    <3>5. \A m \in 0 .. 255 : \A n : 0 \in m .. n => m = 0
      OBVIOUS
    <3> QED  BY <3>2, <3>3, <3>4, <3>5, Zenon
  <2>4. ChrMin(e) = 0
    <3>1. CASE ~Mixes(e)
      BY <1>4, <2>3, <3>1 DEF ChrMin
    <3>2. CASE Mixes(e)
      <4>1. 0 \in MixChars(e)
        <5>1. PICK i \in DOMAIN e.mix : r = e.mix[i]
          BY <3>2 DEF Alternations
        <5>2. First(e.mix[i].text) = 0
          BY <1>11, <5>1 DEF First
        <5> QED  BY <5>2 DEF MixChars
      <4>2. MixChars(e) \subseteq Nat
        <5> SUFFICES ASSUME NEW m \in MixChars(e)  PROVE m \in Nat
          OBVIOUS
        <5>1. PICK i \in DOMAIN e.mix : m = First(e.mix[i].text)
          BY DEF MixChars
        <5>2. e.mix[i].text \in Texts
          BY <1>1, EntryHolds
        <5>3. m \in 0 .. 255
          BY <5>1, <5>2, FirstLetter
        <5> QED  BY <5>3
      <4>3. MinOf(MixChars(e)) = 0
        <5> DEFINE M == MixChars(e)
        <5>1. M \subseteq Nat /\ M # {} /\ 0 \in M
          BY <4>1, <4>2
        <5> HIDE DEF M
        <5>2. MinOf(M) \in M /\ \A m \in M : MinOf(M) <= m
          BY <5>1, LeastOf
        <5>3. MinOf(M) \in Nat /\ MinOf(M) <= 0
          BY <5>1, <5>2
        <5> QED  BY <5>3 DEF M
      <4> QED  BY <1>4, <2>3, <4>3 DEF ChrMin
    <3> QED  BY <3>1, <3>2
  <2>5. ChrMin(e) <= y[1]
    <3> DEFINE c1 == y[1]
    <3>1. c1 \in 1 .. 255
      BY <1>8
    <3> HIDE DEF c1, e
    <3>2. 0 <= c1
      BY <3>1
    <3>3. ChrMin(e) <= c1
      BY <2>4, <3>2, Zenon
    <3> QED  BY <3>3 DEF c1
  <2> HIDE DEF e
  <2> QED  BY <1>7, <1>8, <2>2, <2>5 DEF e
<1> QED  BY <1>9, <1>10, <1>11

(* A stem that has a form with a rest that matches is told from its list. *)
LEMMA ListComplete ==
  ASSUME DictOK, NEW s \in dict, ~Hidden(s), NEW str \in Texts, NEW f \in FormsOf(str, s.entry),
         NEW y \in Texts, Matches[<<str, y>>],
         Flective(s.entry) => Rest(s.entry, f, y), ~Flective(s.entry) => y = <<>>
  PROVE  Call(str, s.entry) \in Range(GetListMatch(str, List(s.at)))
<1> DEFINE e == s.entry
           l == List(s.at)
<1>1. s \in Stems /\ s.at \in Texts /\ e \in StemEntry
  BY StemHolds
<1>2. /\ l \in Seq(StemEntry) /\ Len(l) \in Nat
      /\ \A x \in EntriesAt(s.at) : \E i \in 1 .. Len(l) : l[i] = x
      /\ \A i, j \in 1 .. Len(l) : i < j => InOrder(l[i], l[j])
      /\ \A i \in 1 .. Len(l) : l[i] \in StemEntry
  <2>1. /\ l \in Seq(StemEntry) /\ Len(l) \in Nat
        /\ \A x \in EntriesAt(s.at) : \E i \in 1 .. Len(l) : l[i] = x
        /\ \A i, j \in 1 .. Len(l) : i < j => InOrder(l[i], l[j])
    BY <1>1, ListHolds
  <2> HIDE DEF l
  <2> QED  BY <2>1, ElementOfSeq
<1>3. e \in EntriesAt(s.at)
  BY DEF EntriesAt
<1> HIDE DEF l
<1>4. PICK i \in 1 .. Len(l) : l[i] = e
  BY <1>2, <1>3
<1>5. CASE ~(str # <<>> /\ ~Wild(str[1]))
  <2>1. Hit(str, l, i)
    BY <1>4, <1>5 DEF Hit, Cuts, TooEarly
  <2> QED  BY <1>2, <1>4, <2>1, ListMatchHolds DEF l
<1>6. CASE str # <<>> /\ ~Wild(str[1])
  <2>1. str[1] # Ast /\ str[1] # Quest
    BY <1>6 DEF Wild
  <2>2. y # <<>> /\ str[1] = y[1]
    BY <1>6, <2>1, MatchSteps
  <2>3. Flective(e) /\ Rest(e, f, y)
    BY <2>2
  <2>4. str[1] \in Int /\ ChrMin(e) <= str[1] /\ str[1] <= ChrMax(e)
    BY <1>1, <2>2, <2>3, RestCovered
  <2>5. ASSUME NEW j \in 1 .. i  PROVE str[1] <= ChrMax(l[j])
    <3>1. j \in 1 .. Len(l) /\ l[j] \in StemEntry /\ (j = i \/ j < i)
      BY <1>2, <1>4
    <3>2. CASE j = i
      BY <1>4, <2>4, <3>2
    <3>3. CASE j < i
      <4>1. InOrder(l[j], e)
        BY <1>2, <1>4, <3>1, <3>3
      <4>2. ~(ChrMax(e) > ChrMax(l[j]))
        BY <4>1 DEF InOrder, Less
      <4>3. ChrMax(e) \in Int /\ ChrMax(l[j]) \in Int
        BY <1>1, <3>1, BoundsAreCodes
      <4> QED  BY <2>4, <4>2, <4>3
    <3> QED  BY <3>1, <3>2, <3>3
  <2>6. \A j \in 1 .. i : ~Cuts(str, l[j])
    <3> SUFFICES ASSUME NEW j \in 1 .. i  PROVE ~(str[1] > ChrMax(l[j]))
      BY DEF Cuts
    <3>1. l[j] \in StemEntry
      BY <1>2, <1>4
    <3>2. ChrMax(l[j]) \in Int
      BY <3>1, BoundsAreCodes
    <3> QED  BY <2>4, <2>5, <3>2
  <2>7. ~TooEarly(str, e)
    <3>1. ChrMin(e) \in Int
      BY <1>1, BoundsAreCodes
    <3> QED  BY <2>4, <3>1 DEF TooEarly
  <2>8. Hit(str, l, i)
    BY <1>4, <2>6, <2>7 DEF Hit
  <2> QED  BY <1>2, <1>4, <2>8, ListMatchHolds DEF l
<1> QED  BY <1>5, <1>6

(* The letter a stem goes on with behind a node leads to a child. *)
LEMMA KidOnTheWay ==
  ASSUME DictOK, NEW s \in dict, NEW node \in Texts, NEW v \in Texts, s.at = node \o v, v # <<>>
  PROVE  v[1] \in Kids(node) /\ Tail(v) \in Texts /\ s.at = Append(node, v[1]) \o Tail(v)
<1>1. s.at \in Texts /\ Len(node) \in Nat /\ Tail(v) \in Texts /\ v[1] \in 1 .. 255 /\ 1 \in 1 .. Len(v) /\ Len(v) \in Nat
  BY StemHolds, TextLetters, TailIsSkip, FirstLetter
<1>2. Len(s.at) = Len(node) + Len(v)
  BY JoinHolds
<1>3. /\ \A i \in 1 .. Len(node) : s.at[i] = node[i]
      /\ s.at[Len(node) + 1] = v[1]
  <2>1. node \in Seq(1 .. 255) /\ v \in Seq(1 .. 255)
    BY TextLetters
  <2>2. \A i \in 1 .. Len(node) + Len(v) : (node \o v)[i] = IF i <= Len(node) THEN node[i] ELSE v[i - Len(node)]
    BY <2>1, ConcatProperties
  <2> HIDE DEF Texts
  <2>3. Len(node) + 1 \in 1 .. Len(node) + Len(v) /\ ~(Len(node) + 1 <= Len(node)) /\ (Len(node) + 1) - Len(node) = 1
    BY <1>1
  <2>4. \A i \in 1 .. Len(node) : i \in 1 .. Len(node) + Len(v) /\ i <= Len(node)
    BY <1>1
  <2> QED  BY <2>2, <2>3, <2>4
<1>4. IsStrictPrefix(node, s.at)
  <2>1. Len(s.at) # Len(node) /\ Len(node) <= Len(s.at)
    BY <1>1, <1>2
  <2>2. node # s.at
    BY <2>1
  <2>3. IsPrefix(node, s.at)
    <3>1. node \in Seq(1 .. 255) /\ s.at \in Seq(1 .. 255)
      BY <1>1, TextLetters
    <3> QED  BY <1>3, <2>1, <3>1, PrefixAgrees
  <2> QED  BY <2>2, <2>3 DEF IsStrictPrefix
<1>5. s.at[Len(node) + 1] \in Kids(node)
  BY <1>4 DEF Kids
<1>6. PICK x \in Texts : Append(node, v[1]) \o Tail(v) = node \o x /\ x # <<>> /\ x[1] = v[1] /\ Tail(x) = Tail(v)
  <2> DEFINE k == v[1]
             t == Tail(v)
  <2>1. k \in 1 .. 255 /\ t \in Texts
    BY <1>1
  <2> HIDE DEF k, t
  <2>2. \E x \in Texts : Append(node, k) \o t = node \o x /\ x # <<>> /\ x[1] = k /\ Tail(x) = t
    BY <2>1, KidJoin
  <2> QED  BY <2>2 DEF k, t
<1>7. x = v
  <2>1. x \in Seq(1 .. 255) /\ v \in Seq(1 .. 255)
    BY TextLetters
  <2>2. x = <<Head(x)>> \o Tail(x) /\ v = <<Head(v)>> \o Tail(v)
    BY <1>6, <2>1, HeadTailProperties
  <2>3. Head(x) = x[1] /\ Head(v) = v[1]
    OBVIOUS
  <2> QED  BY <1>6, <2>2, <2>3, Zenon
<1> QED  BY <1>1, <1>3, <1>5, <1>6, <1>7

(* What the walk finds where it goes on to is part of what it finds. *)
LEMMA WalkParts ==
  ASSUME DictOK, NEW str \in Texts, NEW node \in Texts
  PROVE  /\ Range(GetListMatch(str, List(node))) \subseteq Range(GetDictMatch[<<str, node>>])
         /\ str # <<>> /\ str[1] = Ast /\ Len(str) > 1 =>
              Range(GetDictMatch[<<Tail(str), node>>]) \subseteq Range(GetDictMatch[<<str, node>>])
         /\ \A k \in Kids(node) :
              /\ str # <<>> /\ str[1] = Ast =>
                   Range(GetDictMatch[<<str, Append(node, k)>>]) \subseteq Range(GetDictMatch[<<str, node>>])
              /\ str # <<>> /\ str[1] # Ast /\ str[1] \in {Quest, k} =>
                   Range(GetDictMatch[<<Tail(str), Append(node, k)>>]) \subseteq Range(GetDictMatch[<<str, node>>])
<1> DEFINE all == GetDictMatch[<<str, node>>]
           own == GetListMatch(str, List(node))
           rest == Tried(GetDictMatch, str, node)
<1>1. Range(all) = Range(rest) \cup Range(own)
  <2>1. rest \in Seq(Calls) /\ own \in Seq(Calls) /\ all = rest \o own
    BY TriedHolds, DictMatchIs, ListHolds, ListMatchHolds
  <2> HIDE DEF all, rest, own
  <2> QED  BY <2>1, RangeConcatenation
<1>2. Range(own) \subseteq Range(all)
  BY <1>1
<1>3. str # <<>> => Tail(str) \in Texts
  BY TailIsSkip
<1>4. Quest # Ast
  BY DEF Quest, Ast
<1>5. ASSUME str # <<>>, str[1] = Ast
      PROVE  /\ Len(str) > 1 => Range(GetDictMatch[<<Tail(str), node>>]) \subseteq Range(all)
             /\ \A k \in Kids(node) : Range(GetDictMatch[<<str, Append(node, k)>>]) \subseteq Range(all)
  <2> DEFINE a == IF Len(str) > 1 THEN GetDictMatch[<<Tail(str), node>>] ELSE <<>>
  <2>1. rest = a \o Below(GetDictMatch, str, node)
    BY <1>4, <1>5, Zenon DEF Tried
  <2>2. a \in Seq(Calls) /\ Below(GetDictMatch, str, node) \in Seq(Calls)
    <3>1. GetDictMatch[<<Tail(str), node>>] \in Seq(Calls)
      BY <1>3, <1>5, DictMatchIs DEF TwoTexts
    <3>2. <<>> \in Seq(Calls)
      BY EmptySeq
    <3>3. Below(GetDictMatch, str, node) \in Seq(Calls)
      BY BelowHolds, DictMatchIs
    <3> QED  BY <3>1, <3>2, <3>3, Zenon
  <2>3. Range(rest) = Range(a) \cup Range(Below(GetDictMatch, str, node))
    <3> HIDE DEF a, rest
    <3> QED  BY <2>1, <2>2, RangeConcatenation
  <2>4. ASSUME NEW k \in Kids(node)  PROVE Range(GetDictMatch[<<str, Append(node, k)>>]) \subseteq Range(all)
    <3>1. \A c \in Range(GetDictMatch[<<str, Append(node, k)>>]) : c \in Range(Below(GetDictMatch, str, node))
      BY BelowHolds, DictMatchIs
    <3> HIDE DEF all, rest, a
    <3> QED  BY <1>1, <2>3, <3>1
  <2>5. Len(str) > 1 => a = GetDictMatch[<<Tail(str), node>>]
    BY Zenon
  <2> HIDE DEF all, rest, a
  <2> QED  BY <1>1, <2>3, <2>4, <2>5
<1>6. ASSUME str # <<>>, str[1] # Ast, NEW k \in Kids(node), str[1] \in {Quest, k}
      PROVE  Range(GetDictMatch[<<Tail(str), Append(node, k)>>]) \subseteq Range(all)
  <2>1. CASE str[1] = Quest
    <3>1. rest = Below(GetDictMatch, Tail(str), node)
      BY <1>6, <2>1, Zenon DEF Tried
    <3>2. \A c \in Range(GetDictMatch[<<Tail(str), Append(node, k)>>]) : c \in Range(Below(GetDictMatch, Tail(str), node))
      BY <1>3, <1>6, BelowHolds, DictMatchIs
    <3> HIDE DEF all, rest
    <3> QED  BY <1>1, <3>1, <3>2
  <2>2. CASE str[1] # Quest
    <3>1. str[1] = k
      BY <1>6, <2>2
    <3>2. rest = GetDictMatch[<<Tail(str), Append(node, str[1])>>]
      BY <1>6, <2>2, <3>1, Zenon DEF Tried
    <3> HIDE DEF all, rest
    <3> QED  BY <1>1, <3>1, <3>2
  <2> QED  BY <2>1, <2>2
<1> QED  BY <1>2, <1>5, <1>6

(* The list of a stem whose node is on the way is reached with what is left of *)
(* the pattern.                                                                *)
LEMMA WalkComplete ==
  ASSUME DictOK, NEW s \in dict, NEW y \in Texts, NEW str \in Texts, NEW node \in Texts, NEW v \in Texts,
         s.at = node \o v, Matches[<<str, v \o y>>]
  PROVE  \E z : /\ EndOf(z, str) /\ Matches[<<z, y>>]
                /\ Range(GetListMatch(z, List(s.at))) \subseteq Range(GetDictMatch[<<str, node>>])
<1> DEFINE Reached(t, n) ==
             \E z : /\ EndOf(z, t) /\ Matches[<<z, y>>]
                    /\ Range(GetListMatch(z, List(s.at))) \subseteq Range(GetDictMatch[<<t, n>>])
           Good(t, n) == \A x \in Texts : s.at = n \o x /\ Matches[<<t, x \o y>>] => Reached(t, n)
           P == {x \in TwoTexts : Good(x[1], x[2])}
<1>1. \A t, n \in Texts : <<t, n>> \in P <=> Good(t, n)
  BY DEF TwoTexts
<1> HIDE DEF P
<1>2. ASSUME NEW t \in Texts, NEW n \in Texts,
             t # <<>> => <<Tail(t), n>> \in P,
             \A k \in Kids(n) : /\ <<t, Append(n, k)>> \in P
                                /\ t # <<>> => <<Tail(t), Append(n, k)>> \in P
      PROVE  Good(t, n)
  <2> SUFFICES ASSUME NEW x \in Texts, s.at = n \o x, Matches[<<t, x \o y>>]  PROVE Reached(t, n)
    OBVIOUS
  <2>0. t # <<>> => Tail(t) \in Texts /\ EndOf(Tail(t), t)
    BY TailIsSkip, EndOfTail
  <2>1. \A k \in Kids(n) : Append(n, k) \in Texts
    BY KidsHold
  <2>2. /\ t # <<>> => Good(Tail(t), n)
        /\ \A k \in Kids(n) : Good(t, Append(n, k)) /\ (t # <<>> => Good(Tail(t), Append(n, k)))
    <3> HIDE DEF Good
    <3> QED  BY <1>1, <1>2, <2>0, <2>1, Zenon
  <2>3. CASE x = <<>>
    <3>1. n \o x = n /\ x \o y = y
      BY <2>3, JoinHolds
    <3>2. s.at = n /\ Matches[<<t, y>>]
      BY <3>1
    <3> QED  BY <3>2, EndOfTail, WalkParts
  <2>4. CASE x # <<>>
    <3> DEFINE k == x[1]
               u == Tail(x)
               w == x \o y
    <3>1. k \in Kids(n) /\ u \in Texts /\ s.at = Append(n, k) \o u
      BY <2>4, KidOnTheWay
    <3>2. w \in Texts /\ w # <<>> /\ w[1] = k /\ Tail(w) = u \o y /\ Matches[<<t, w>>]
      BY <2>4, JoinHolds
    <3> HIDE DEF k, u, Reached
    <3>3. \A q \in {t, Tail(t)} : Good(q, Append(n, k)) /\ Matches[<<q, u \o y>>] => Reached(q, Append(n, k))
      BY <3>1
    <3>4. Matches[<<Tail(t), w>>] /\ Good(Tail(t), n) => Reached(Tail(t), n)
      OBVIOUS
    <3> HIDE DEF w, Good
    <3>5. t # <<>>
      BY <3>2, MatchSteps
    <3>6. ASSUME NEW q \in {t, Tail(t)}, NEW m, Reached(q, m),
                 Range(GetDictMatch[<<q, m>>]) \subseteq Range(GetDictMatch[<<t, n>>])
          PROVE  Reached(t, n)
      <4>1. PICK z : /\ EndOf(z, q) /\ Matches[<<z, y>>]
                     /\ Range(GetListMatch(z, List(s.at))) \subseteq Range(GetDictMatch[<<q, m>>])
        BY <3>6 DEF Reached
      <4>2. EndOf(z, t)
        BY <2>0, <3>5, <4>1, EndOfEnd
      <4>3. Range(GetListMatch(z, List(s.at))) \subseteq Range(GetDictMatch[<<t, n>>])
        BY <3>6, <4>1
      <4> QED  BY <4>1, <4>2, <4>3 DEF Reached
    <3>7. CASE t[1] = Ast
      <4>1. Matches[<<Tail(t), w>>] \/ Matches[<<t, Tail(w)>>]
        BY <3>2, <3>5, <3>7, MatchSteps
      <4>2. CASE Matches[<<Tail(t), w>>]
        <5>1. Len(t) > 1
          <6>1. Tail(t) # <<>>
            <7> DEFINE q == Tail(t)
            <7>1. q \in Texts /\ Matches[<<q, w>>]
              BY <2>0, <3>5, <4>2
            <7> HIDE DEF q
            <7>2. w \in Texts /\ w # <<>>
              BY <3>2
            <7>3. q = <<>> => (Matches[<<q, w>>] <=> w = <<>>)
              BY <7>1, <7>2, MatchSteps
            <7>4. q # <<>>
              BY <7>1, <7>2, <7>3, Zenon
            <7> QED  BY <7>4 DEF q
          <6>2. Len(Tail(t)) = Len(t) - 1 /\ Len(t) \in Nat \ {0} /\ (Len(Tail(t)) = 0 => Tail(t) = <<>>)
            BY <2>0, <3>5, TailIsSkip, TextLetters, EmptySeq
          <6> QED  BY <6>1, <6>2
        <5>2. Reached(Tail(t), n)
          BY <2>2, <3>4, <3>5, <4>2
        <5>3. Range(GetDictMatch[<<Tail(t), n>>]) \subseteq Range(GetDictMatch[<<t, n>>])
          BY <3>5, <3>7, <5>1, WalkParts
        <5> QED  BY <3>6, <5>2, <5>3
      <4>3. CASE Matches[<<t, Tail(w)>>]
        <5>1. Reached(t, Append(n, k))
          BY <2>2, <3>1, <3>2, <3>3, <4>3
        <5>2. Range(GetDictMatch[<<t, Append(n, k)>>]) \subseteq Range(GetDictMatch[<<t, n>>])
          BY <3>1, <3>5, <3>7, WalkParts
        <5> QED  BY <3>6, <5>1, <5>2
      <4> QED  BY <4>1, <4>2, <4>3
    <3>8. CASE t[1] # Ast
      <4>1. t[1] \in {Quest, k} /\ Matches[<<Tail(t), Tail(w)>>]
        BY <3>2, <3>5, <3>8, MatchSteps
      <4>2. Reached(Tail(t), Append(n, k))
        BY <2>2, <3>1, <3>2, <3>3, <3>5, <4>1
      <4>3. Range(GetDictMatch[<<Tail(t), Append(n, k)>>]) \subseteq Range(GetDictMatch[<<t, n>>])
        BY <3>1, <3>5, <3>8, <4>1, WalkParts
      <4> QED  BY <3>6, <4>2, <4>3
    <3> QED  BY <3>7, <3>8
  <2> QED  BY <2>3, <2>4
<1>3. WalkProgress(P)
  <2> HIDE DEF Good
  <2> QED  BY <1>1, <1>2, Zenon DEF WalkProgress
<1>4. Good(str, node)
  <2> HIDE DEF Good
  <2> QED  BY <1>1, <1>3, WalkInduction
<1> QED  BY <1>4

(* A word that matches is among the calls of the walk. *)
LEMMA WordFound ==
  ASSUME DictOK, NEW p \in Texts, NEW s \in dict, ~Hidden(s), NEW w \in WordsOf(s), Matches[<<p, w.text>>],
         ~(Posted(s) /\ (~Flective(s.entry) \/ StarInPost(p, s.entry.post)))
  PROVE  \E c \in Range(GetDictMatch[<<p, <<>>>>]) : c.lex = s.entry.lex /\ w.form \in c.forms
<1> DEFINE e == s.entry
<1>1. s \in Stems /\ s.at \in Texts /\ e \in StemEntry /\ e.post \in Texts /\ <<>> \in Texts
  BY StemHolds, PartsTame, EmptySeq DEF Texts
<1>2. s.at = <<>> \o s.at
  BY <1>1, JoinHolds
<1>3. ASSUME NEW y \in Texts, w.text = s.at \o y,
             Flective(e) => Rest(e, w.form, y), ~Flective(e) => y = <<>>,
             \A z \in Texts : EndOf(z, p) /\ Matches[<<z, y>>] => w.form \in FormsOf(z, e)
      PROVE  \E c \in Range(GetDictMatch[<<p, <<>>>>]) : c.lex = e.lex /\ w.form \in c.forms
  <2>1. Matches[<<p, s.at \o y>>]
    BY <1>3
  <2>2. PICK z : /\ EndOf(z, p) /\ Matches[<<z, y>>]
                 /\ Range(GetListMatch(z, List(s.at))) \subseteq Range(GetDictMatch[<<p, <<>>>>])
    <3> HIDE DEF e
    <3> QED  BY <1>1, <1>2, <2>1, WalkComplete
  <2>3. z \in Texts
    BY <2>2, EndOfTail
  <2>4. w.form \in FormsOf(z, e)
    BY <1>3, <2>2, <2>3
  <2>5. Call(z, e) \in Range(GetListMatch(z, List(s.at)))
    BY <1>3, <2>2, <2>3, <2>4, ListComplete
  <2>6. Call(z, e).lex = e.lex /\ Call(z, e).forms = FormsOf(z, e)
    BY DEF Call
  <2> QED  BY <2>2, <2>4, <2>5, <2>6
<1>4. CASE Flective(e)
  <2>1. PICK y \in Texts : Rest(e, w.form, y) /\ w.text = s.at \o y
    BY <1>1, <1>4, RestIsWord
  <2>2. ~StarInPost(p, e.post)
    <3>1. CASE Posted(s)
      BY <1>4, <3>1
    <3>2. CASE ~Posted(s)
      <4>1. e.post = <<>> /\ Len(e.post) = 0
        BY <3>2 DEF Posted
      <4>2. ASSUME NEW i \in DOMAIN p, p[i] = Ast  PROVE ~(Letters[Skip(p, i)] < Len(e.post))
        <5>1. i \in 0 .. Len(p)
          <6>1. DOMAIN p = 1 .. Len(p) /\ Len(p) \in Nat
            BY TextLetters, LenProperties DEF Texts
          <6> QED  BY <6>1
        <5>2. Skip(p, i) \in Texts
          BY <5>1, SkipHolds
        <5>3. Letters[Skip(p, i)] \in Nat
          BY <5>2, LettersIs
        <5> HIDE DEF e
        <5> QED  BY <4>1, <5>3
      <4> QED  BY <4>2 DEF StarInPost
    <3> QED  BY <3>1, <3>2
  <2>3. ASSUME NEW z \in Texts, EndOf(z, p), Matches[<<z, y>>]  PROVE w.form \in FormsOf(z, e)
    <3>1. ~StarInPost(z, e.post)
      BY <1>1, <2>2, <2>3, StarInEnd
    <3> QED  BY <1>1, <1>4, <2>1, <2>3, <3>1, FormsComplete
  <2> QED  BY <1>3, <1>4, <2>1, <2>3
<1>5. CASE ~Flective(e)
  <2>1. e.post = <<>>
    BY <1>5 DEF Posted
  <2>2. w = [text |-> s.at \o e.post, form |-> NonFlective]
    BY <1>5 DEF WordsOf
  <2>3. w.text = s.at \o <<>> /\ w.form = NonFlective
    BY <2>1, <2>2
  <2>4. ASSUME NEW z \in Texts, EndOf(z, p), Matches[<<z, <<>>>>]  PROVE w.form \in FormsOf(z, e)
    <3>1. z = <<>> \/ IsAsterisk(z)
      BY <2>4, MatchesNothingFirm
    <3> QED  BY <1>5, <2>3, <3>1 DEF FormsOf
  <2> QED  BY <1>1, <1>3, <1>5, <2>3, <2>4
<1> QED  BY <1>4, <1>5

(* An actor that never says stop is told every form of every word that matches *)
(* (NoneUntold; wildscan.cpp:214-289).                                         *)
THEOREM NothingUntold == Spec => []NoneUntold
<1>1. WildInv => NoneUntold
  <2> SUFFICES ASSUME WildInv, pc = "done", answer = 0, NEW s \in dict, ~Hidden(s), NEW w \in WordsOf(s),
                      Matches[<<pattern, w.text>>],
                      ~(Posted(s) /\ (~Flective(s.entry) \/ StarInPost(pattern, s.entry.post)))
               PROVE  \E i \in DOMAIN told : told[i].lex = s.entry.lex /\ w.form \in told[i].forms
    BY DEF NoneUntold
  <2>1. DictOK /\ pattern \in Texts /\ told = GetDictMatch[<<pattern, <<>>>>]
    BY DEF WildInv
  <2>2. PICK c \in Range(told) : c.lex = s.entry.lex /\ w.form \in c.forms
    BY <2>1, WordFound
  <2> QED  BY <2>2 DEF Range
<1> QED  BY <1>1, WildInvAlways, PTL

-------------------------------------------------------------------------------
(* The pattern of CheckHelp: letters, a wildcard, and what is behind it. *)

(* What joined texts are made of. *)
LEMMA JoinSplit ==
  ASSUME NEW a \in Texts, NEW b \in Texts
  PROVE  /\ SubSeq(a \o b, 1, Len(a)) = a /\ Skip(a \o b, Len(a)) = b
         /\ Len(a) \in 0 .. Len(a \o b) /\ IsPrefix(a, a \o b)
         /\ \A i \in 1 .. Len(a) : (a \o b)[i] = a[i]
         /\ b # <<>> => (a \o b)[Len(a) + 1] = b[1]
<1>1. /\ a \in Seq(1 .. 255) /\ b \in Seq(1 .. 255) /\ Len(a) \in Nat /\ Len(b) \in Nat
      /\ a \o b \in Texts /\ Len(a \o b) = Len(a) + Len(b)
  BY TextLetters, JoinHolds
<1>2. /\ IsPrefix(a, a \o b) /\ SubSeq(a \o b, Len(a) + 1, Len(a \o b)) = b
      /\ SubSeq(a \o b, 1, Len(a \o b) - Len(b)) = a
  BY <1>1, ConcatSplits
<1>3. Len(a \o b) - Len(b) = Len(a) /\ Len(a) \in 0 .. Len(a \o b)
  BY <1>1
<1>4. \A i \in 1 .. Len(a) : (a \o b)[i] = a[i]
  BY <1>1, <1>2, PrefixLetters
<1>5. ASSUME b # <<>>  PROVE (a \o b)[Len(a) + 1] = b[1]
  <2>1. \A i \in 1 .. Len(a) + Len(b) : (a \o b)[i] = IF i <= Len(a) THEN a[i] ELSE b[i - Len(a)]
    BY <1>1, ConcatProperties
  <2>2. 1 \in 1 .. Len(b)
    BY <1>5, FirstLetter
  <2>3. Len(a) + 1 \in 1 .. Len(a) + Len(b) /\ ~(Len(a) + 1 <= Len(a)) /\ (Len(a) + 1) - Len(a) = 1
    BY <1>1, <2>2
  <2> QED  BY <2>1, <2>3
<1> QED  BY <1>2, <1>3, <1>4, <1>5 DEF Skip

(* Texts that begin the same and go on alike are the same. *)
LEMMA SameJoined ==
  ASSUME NEW a \in Texts, NEW b \in Texts, NEW c \in Texts, a \o b = a \o c
  PROVE  b = c
<1>1. Skip(a \o b, Len(a)) = b
  BY JoinSplit
<1>2. Skip(a \o c, Len(a)) = c
  BY JoinSplit
<1> QED  BY <1>1, <1>2

(* One of two beginnings of a text is a beginning of the other. *)
TwoWays(a, b, c, d) ==
  \/ \E m \in Texts : c = a \o m /\ b = m \o d
  \/ \E m \in Texts : m # <<>> /\ a = c \o m /\ d = m \o b

(* A text joined in two ways. *)
LEMMA JoinedTwice ==
  ASSUME NEW a \in Texts, NEW b \in Texts, NEW c \in Texts, NEW d \in Texts, a \o b = c \o d
  PROVE  TwoWays(a, b, c, d)
<1>1. /\ Len(a) \in Nat /\ Len(c) \in Nat
      /\ \A i \in 1 .. Len(a) : (a \o b)[i] = a[i]
      /\ \A i \in 1 .. Len(c) : (a \o b)[i] = c[i]
  <2>1. \A i \in 1 .. Len(a) : (a \o b)[i] = a[i]
    BY JoinSplit
  <2>2. \A i \in 1 .. Len(c) : (c \o d)[i] = c[i]
    BY JoinSplit
  <2> QED  BY <2>1, <2>2, TextLetters
<1>2. CASE Len(a) <= Len(c)
  <2>1. IsPrefix(a, c)
    <3>1. a \in Seq(1 .. 255) /\ c \in Seq(1 .. 255)
      BY TextLetters
    <3>2. \A i \in 1 .. Len(a) : i \in 1 .. Len(c)
      BY <1>1, <1>2
    <3> QED  BY <1>1, <1>2, <3>1, <3>2, PrefixAgrees
  <2>2. PICK m \in Texts : c = a \o m
    <3>1. a \in Seq(1 .. 255) /\ c \in Seq(1 .. 255)
      BY TextLetters
    <3>2. SubSeq(c, Len(a) + 1, Len(c)) \in Seq(1 .. 255) /\ c = a \o SubSeq(c, Len(a) + 1, Len(c))
      BY <2>1, <3>1, PrefixSplits
    <3> QED  BY <3>2 DEF Texts
  <2>3. a \o b = a \o (m \o d)
    BY <2>2, JoinThrice
  <2>4. m \o d \in Texts
    BY JoinHolds
  <2>5. b = m \o d
    <3> DEFINE t == m \o d
    <3>1. t \in Texts /\ a \o b = a \o t
      BY <2>3, <2>4
    <3> HIDE DEF t
    <3>2. b = t
      BY <3>1, SameJoined
    <3> QED  BY <3>2 DEF t
  <2> QED  BY <2>2, <2>5 DEF TwoWays
<1>3. CASE Len(c) < Len(a)
  <2>1. IsPrefix(c, a)
    <3>1. a \in Seq(1 .. 255) /\ c \in Seq(1 .. 255)
      BY TextLetters
    <3>2. \A i \in 1 .. Len(c) : i \in 1 .. Len(a)
      BY <1>1, <1>3
    <3> QED  BY <1>1, <1>3, <3>1, <3>2, PrefixAgrees
  <2>2. PICK m \in Texts : a = c \o m
    <3>1. a \in Seq(1 .. 255) /\ c \in Seq(1 .. 255)
      BY TextLetters
    <3>2. SubSeq(a, Len(c) + 1, Len(a)) \in Seq(1 .. 255) /\ a = c \o SubSeq(a, Len(c) + 1, Len(a))
      BY <2>1, <3>1, PrefixSplits
    <3> QED  BY <3>2 DEF Texts
  <2>3. m # <<>>
    <3>1. m = <<>> => c \o m = c
      BY JoinHolds
    <3> QED  BY <1>1, <1>3, <2>2, <3>1
  <2>4. c \o d = c \o (m \o b)
    BY <2>2, JoinThrice
  <2>5. d = m \o b
    <3> DEFINE t == m \o b
    <3>1. t \in Texts /\ c \o d = c \o t
      BY <2>4, JoinHolds
    <3> HIDE DEF t
    <3>2. d = t
      BY <3>1, SameJoined
    <3> QED  BY <3>2 DEF t
  <2> QED  BY <2>2, <2>3, <2>5 DEF TwoWays
<1>4. Len(a) <= Len(c) \/ Len(c) < Len(a)
  <2>1. Len(a) \in Nat /\ Len(c) \in Nat
    BY TextLetters
  <2> QED  BY <2>1
<1> QED  BY <1>2, <1>3, <1>4, Zenon

(* x and y begin with a and go on with b and c, which part at once. *)
Part(x, y, a, b, c) ==
  /\ Common(x, y) = Len(a)
  /\ Skip(x, Common(x, y)) = b
  /\ Skip(y, Common(x, y)) = c

(* Where two joined texts part. *)
LEMMA CommonJoin ==
  ASSUME NEW a \in Texts, NEW b \in Texts, NEW c \in Texts,
         b = <<>> \/ c = <<>> \/ b[1] # c[1]
  PROVE  Part(a \o b, a \o c, a, b, c)
<1> DEFINE x == a \o b
           y == a \o c
           n == Common(x, y)
<1>1. /\ x \in Texts /\ y \in Texts /\ Len(a) \in Nat /\ Len(b) \in Nat /\ Len(c) \in Nat
      /\ Len(x) = Len(a) + Len(b) /\ Len(y) = Len(a) + Len(c)
  BY JoinHolds, TextLetters
<1>2. /\ \A i \in 1 .. Len(a) : x[i] = y[i]
      /\ b # <<>> => x[Len(a) + 1] = b[1]
      /\ c # <<>> => y[Len(a) + 1] = c[1]
      /\ Skip(x, Len(a)) = b /\ Skip(y, Len(a)) = c
  BY JoinSplit
<1>3. /\ b # <<>> => 1 \in 1 .. Len(b)
      /\ c # <<>> => 1 \in 1 .. Len(c)
      /\ b = <<>> => Len(b) = 0
      /\ c = <<>> => Len(c) = 0
  BY FirstLetter
<1> HIDE DEF x, y
<1>4. /\ n \in Nat /\ n <= Len(x) /\ n <= Len(y)
      /\ \A i \in 1 .. n : x[i] = y[i]
      /\ n = Len(x) \/ n = Len(y) \/ x[n + 1] # y[n + 1]
  BY <1>1, CommonHolds
<1> HIDE DEF n
<1>5. ~(n < Len(a))
  <2> SUFFICES ASSUME n < Len(a)  PROVE FALSE
    OBVIOUS
  <2>1. n + 1 \in 1 .. Len(a) /\ n # Len(x) /\ n # Len(y)
    BY <1>1, <1>4
  <2> QED  BY <1>2, <1>4, <2>1
<1>6. ~(n > Len(a))
  <2> SUFFICES ASSUME n > Len(a)  PROVE FALSE
    OBVIOUS
  <2>1. Len(a) + 1 \in 1 .. n /\ Len(b) # 0 /\ Len(c) # 0
    BY <1>1, <1>4
  <2>2. x[Len(a) + 1] = y[Len(a) + 1]
    BY <1>4, <2>1
  <2> QED  BY <1>2, <1>3, <2>1, <2>2
<1>7. n = Len(a)
  BY <1>1, <1>4, <1>5, <1>6
<1> QED  BY <1>2, <1>7 DEF x, y, n, Part

(* A pattern: u without a wildcard, the wildcard d, and v. *)
Asked(u, d, v) == u \o (<<d>> \o v)

(* The wildcard and what is behind it. *)
LEMMA WildJoin ==
  ASSUME NEW d \in {Ast, Quest}, NEW v \in Texts
  PROVE  /\ <<d>> \o v \in Texts /\ <<d>> \o v # <<>> /\ (<<d>> \o v)[1] = d /\ Tail(<<d>> \o v) = v
         /\ Wild(d) /\ Len(<<d>> \o v) = 1 + Len(v)
<1> DEFINE one == <<d>>
<1>1. d \in 1 .. 255
  BY DEF Ast, Quest
<1>2. one \in Texts /\ one # <<>> /\ one[1] = d /\ Tail(one) = <<>> /\ Len(one) = 1
  BY <1>1 DEF Texts
<1> HIDE DEF one
<1>3. /\ one \o v \in Texts /\ Len(one \o v) = Len(one) + Len(v) /\ <<>> \o v = v
      /\ one \o v # <<>> /\ (one \o v)[1] = one[1] /\ Tail(one \o v) = Tail(one) \o v
  BY <1>2, JoinHolds
<1>4. /\ one \o v \in Texts /\ one \o v # <<>> /\ (one \o v)[1] = d /\ Tail(one \o v) = v
      /\ Len(one \o v) = 1 + Len(v)
  BY <1>2, <1>3
<1>5. Wild(d)
  BY DEF Wild
<1> QED  BY <1>4, <1>5 DEF one

(* The first wildcard of such a pattern is d. *)
LEMMA AskedHolds ==
  ASSUME NEW u \in Texts, ~WildMask(u), NEW d \in {Ast, Quest}, NEW v \in Texts
  PROVE  /\ Asked(u, d, v) \in Texts /\ WildMask(Asked(u, d, v)) /\ Asked(u, d, v) # <<>>
         /\ WildAt(Asked(u, d, v)) = Len(u) + 1 /\ Len(u) \in Nat
         /\ SubSeq(Asked(u, d, v), 1, WildAt(Asked(u, d, v)) - 1) = u
         /\ Asked(u, d, v)[WildAt(Asked(u, d, v))] = d
         /\ Skip(Asked(u, d, v), WildAt(Asked(u, d, v))) = v
         /\ Len(Asked(u, d, v)) = WildAt(Asked(u, d, v)) <=> v = <<>>
<1> DEFINE q == <<d>> \o v
           p == u \o q
<1>1. q \in Texts /\ q # <<>> /\ q[1] = d /\ Tail(q) = v /\ Wild(d) /\ Len(q) = 1 + Len(v)
  BY WildJoin
<1>2. p = Asked(u, d, v)
  BY DEF Asked
<1> HIDE DEF q
<1>3. /\ p \in Texts /\ Len(p) = Len(u) + Len(q) /\ Len(u) \in Nat /\ Len(v) \in Nat
      /\ DOMAIN p = 1 .. Len(p) /\ DOMAIN u = 1 .. Len(u)
  <2>1. p \in Texts /\ Len(p) = Len(u) + Len(q)
    BY <1>1, JoinHolds
  <2> HIDE DEF p
  <2> QED  BY <2>1, TextLetters, LenProperties DEF Texts
<1>4. /\ SubSeq(p, 1, Len(u)) = u /\ Skip(p, Len(u)) = q
      /\ \A i \in 1 .. Len(u) : p[i] = u[i]
      /\ p[Len(u) + 1] = d
  BY <1>1, JoinSplit
<1> HIDE DEF p
<1>5. Len(u) + 1 \in 1 .. Len(p)
  BY <1>1, <1>3
<1>6. WildMask(p)
  BY <1>1, <1>3, <1>4, <1>5 DEF WildMask
<1>7. /\ WildAt(p) \in 1 .. Len(p) /\ Wild(p[WildAt(p)]) /\ \A i \in 1 .. WildAt(p) - 1 : ~Wild(p[i])
  BY <1>3, <1>6, WildAtHolds
<1>8. WildAt(p) = Len(u) + 1
  <2> DEFINE n == WildAt(p)
  <2>1. n \in 1 .. Len(p) /\ n \in Nat
    BY <1>3, <1>7
  <2>2. ~(n <= Len(u))
    <3> SUFFICES ASSUME n \in 1 .. Len(u)  PROVE FALSE
      BY <1>3, <2>1
    <3>1. Wild(u[n]) /\ n \in DOMAIN u
      BY <1>3, <1>4, <1>7
    <3> QED  BY <3>1 DEF WildMask
  <2>3. ~(Len(u) + 1 < n)
    <3> SUFFICES ASSUME Len(u) + 1 \in 1 .. n - 1  PROVE FALSE
      BY <1>3, <2>1
    <3> QED  BY <1>1, <1>4, <1>7
  <2> HIDE DEF n
  <2>4. n = Len(u) + 1
    BY <1>3, <2>1, <2>2, <2>3
  <2> QED  BY <2>4 DEF n
<1>9. Skip(p, Len(u) + 1) = v
  <2>1. Len(u) \in 0 .. Len(p) /\ 1 \in 0 .. Len(p) - Len(u)
    BY <1>1, <1>3
  <2>2. Skip(Skip(p, Len(u)), 1) = Skip(p, Len(u) + 1)
    BY <1>3, <2>1, SkipTwice
  <2>3. Tail(q) = Skip(q, 1)
    BY <1>1, TailIsSkip
  <2> QED  BY <1>1, <1>4, <2>2, <2>3
<1>10. Len(p) = Len(u) + 1 <=> v = <<>>
  <2>1. v = <<>> <=> Len(v) = 0
    BY TextLetters, EmptySeq DEF Texts
  <2> QED  BY <1>1, <1>3, <2>1
<1>11. p # <<>>
  <2>1. Len(p) # 0
    BY <1>1, <1>3
  <2> QED  BY <2>1
<1>12. (Len(u) + 1) - 1 = Len(u)
  BY <1>3
<1> QED  BY <1>2, <1>3, <1>4, <1>6, <1>8, <1>9, <1>10, <1>11, <1>12

(* And every pattern with a wildcard is such a one. *)
LEMMA AskedBy ==
  ASSUME NEW p \in Texts, WildMask(p)
  PROVE  \E u, v \in Texts, d \in {Ast, Quest} :
           /\ p = Asked(u, d, v) /\ ~WildMask(u) /\ WildAt(p) = Len(u) + 1 /\ p[WildAt(p)] = d
           /\ u = SubSeq(p, 1, WildAt(p) - 1) /\ v = Skip(p, WildAt(p))
<1> DEFINE n == WildAt(p)
           u == SubSeq(p, 1, n - 1)
           v == Skip(p, n)
           d == p[n]
<1>1. /\ n \in 1 .. Len(p) /\ n - 1 \in 0 .. Len(p) /\ n \in 0 .. Len(p) /\ Len(p) \in Nat
      /\ u \in Texts /\ ~WildMask(u) /\ d \in {Ast, Quest}
  BY WildAtHolds, TextLetters DEF Wild
<1>2. v \in Texts
  BY <1>1, SkipHolds
<1>3. /\ p = u \o Skip(p, n - 1) /\ Len(u) = n - 1
      /\ Skip(p, n - 1) \in Texts /\ Len(Skip(p, n - 1)) = Len(p) - (n - 1)
      /\ \A i \in 1 .. Len(p) - (n - 1) : Skip(p, n - 1)[i] = p[(n - 1) + i]
  BY <1>1, SkipHolds
<1> DEFINE q == Skip(p, n - 1)
<1>4. q # <<>> /\ q[1] = d
  <2>1. 1 \in 1 .. Len(p) - (n - 1) /\ (n - 1) + 1 = n
    BY <1>1
  <2>2. q[1] = d
    BY <1>3, <2>1
  <2>3. Len(q) # 0
    BY <1>1, <1>3
  <2> QED  BY <2>2, <2>3
<1>5. Tail(q) = v
  <2>1. 1 \in 0 .. Len(p) - (n - 1) /\ (n - 1) + 1 = n
    BY <1>1
  <2>2. Skip(Skip(p, n - 1), 1) = Skip(p, n)
    BY <1>1, <2>1, SkipTwice
  <2>3. Tail(q) = Skip(q, 1)
    BY <1>3, <1>4, TailIsSkip
  <2> QED  BY <2>2, <2>3
<1>6. q = <<d>> \o v
  <2>1. q \in Seq(1 .. 255)
    BY <1>3, TextLetters
  <2> HIDE DEF q, d, v
  <2>2. q = <<Head(q)>> \o Tail(q) /\ Head(q) = q[1]
    BY <1>4, <2>1, HeadTailProperties
  <2> QED  BY <1>4, <1>5, <2>2
<1>7. p = Asked(u, d, v)
  BY <1>3, <1>6 DEF Asked
<1>8. n = Len(u) + 1
  <2>1. Len(u) = n - 1 /\ n \in Nat
    BY <1>1, <1>3
  <2> HIDE DEF n
  <2> QED  BY <2>1
<1> QED  BY <1>1, <1>2, <1>7, <1>8

(* The pattern p without a is t. *)
Without(p, a, t) ==
  p = a \o t /\ t \in Texts /\ SubSeq(p, 1, Len(a)) = a /\ Skip(p, Len(a)) = t

(* Letters taken off the beginning of a pattern. *)
LEMMA AskedSplits ==
  ASSUME NEW a \in Texts, NEW b \in Texts, NEW d \in {Ast, Quest}, NEW v \in Texts
  PROVE  Without(Asked(a \o b, d, v), a, Asked(b, d, v))
<1> DEFINE q == <<d>> \o v
<1>1. q \in Texts
  BY WildJoin
<1>2. Asked(b, d, v) = b \o q /\ Asked(a \o b, d, v) = (a \o b) \o q
  BY DEF Asked
<1> HIDE DEF q
<1>3. (a \o b) \o q = a \o (b \o q) /\ b \o q \in Texts
  <2>1. (a \o b) \o q = a \o (b \o q)
    BY <1>1, JoinThrice
  <2>2. b \o q \in Texts
    BY <1>1, JoinHolds
  <2> QED  BY <2>1, <2>2
<1> DEFINE t == b \o q
<1>4. t \in Texts /\ Asked(a \o b, d, v) = a \o t /\ Asked(b, d, v) = t
  BY <1>2, <1>3
<1>5. SubSeq(a \o t, 1, Len(a)) = a /\ Skip(a \o t, Len(a)) = t
  <2> HIDE DEF t
  <2> QED  BY <1>4, JoinSplit
<1> HIDE DEF t
<1> QED  BY <1>4, <1>5, Zenon DEF Without

-------------------------------------------------------------------------------
(* The words that fit a pattern with one wildcard. *)

(* A pattern's letters are the first ones of the text. *)
LEMMA LettersFirst ==
  ASSUME NEW u \in Texts, ~WildMask(u), NEW p \in Texts, NEW w \in Texts, Matches[<<u \o p, w>>]
  PROVE  \E t \in Texts : w = u \o t /\ Matches[<<p, t>>]
<1> DEFINE Found(q, x) == \E t \in Texts : x = q \o t /\ Matches[<<p, t>>]
           Good(q) == ~WildMask(q) => \A x \in Texts : Matches[<<q \o p, x>>] => Found(q, x)
           P == {q \in Texts : Good(q)}
<1>1. <<>> \in P
  <2>1. <<>> \in Texts
    BY EmptySeq DEF Texts
  <2>2. ASSUME NEW x \in Texts, Matches[<<<<>> \o p, x>>]  PROVE Found(<<>>, x)
    <3>1. <<>> \o p = p /\ x = <<>> \o x
      BY JoinHolds
    <3> QED  BY <2>2, <3>1
  <2> QED  BY <2>1, <2>2
<1>2. ASSUME NEW q \in Texts, q # <<>>, Tail(q) \in P  PROVE q \in P
  <2>1. Tail(q) \in Texts /\ Good(Tail(q))
    BY <1>2
  <2>2. ASSUME ~WildMask(q), NEW x \in Texts, Matches[<<q \o p, x>>]  PROVE Found(q, x)
    <3> DEFINE s == q \o p
               r == Tail(q)
    <3>1. ~WildMask(r) /\ q[1] # Ast /\ q[1] # Quest /\ r \in Texts
      BY <1>2, <2>1, <2>2, NoWildTail
    <3>2. s \in Texts /\ s # <<>> /\ s[1] = q[1] /\ Tail(s) = r \o p /\ Matches[<<s, x>>]
      BY <1>2, <2>2, JoinHolds
    <3> HIDE DEF s
    <3>3. x # <<>> /\ x[1] = q[1] /\ Matches[<<Tail(s), Tail(x)>>]
      BY <3>1, <3>2, MatchSteps
    <3>4. Tail(x) \in Texts
      BY <3>3, TailIsSkip
    <3>5. PICK t \in Texts : Tail(x) = r \o t /\ Matches[<<p, t>>]
      BY <2>1, <3>1, <3>2, <3>3, <3>4
    <3>6. x = q \o t
      <4>1. x \in Seq(1 .. 255) /\ q \in Seq(1 .. 255)
        BY TextLetters
      <4>2. x = <<Head(x)>> \o Tail(x) /\ q = <<Head(q)>> \o Tail(q) /\ Head(x) = x[1] /\ Head(q) = q[1]
        BY <1>2, <3>3, <4>1, HeadTailProperties
      <4> DEFINE one == <<q[1]>>
      <4>3. one \in Texts
        BY <1>2, FirstLetter DEF Texts
      <4>4. x = one \o (r \o t) /\ q = one \o r
        BY <3>3, <3>5, <4>2
      <4> HIDE DEF one, r
      <4>5. (one \o r) \o t = one \o (r \o t)
        BY <3>1, <4>3, JoinThrice
      <4> QED  BY <4>4, <4>5
    <3> QED  BY <3>5, <3>6
  <2> QED  BY <1>2, <2>2
<1>3. u \in P
  <2> HIDE DEF P
  <2> QED  BY <1>1, <1>2, TextInduction
<1> QED  BY <1>3

(* A pattern without wildcards matches itself alone. *)
LEMMA PlainMatch ==
  ASSUME NEW v \in Texts, ~WildMask(v), NEW t \in Texts, Matches[<<v, t>>]
  PROVE  t = v
<1>1. <<>> \in Texts /\ v \o <<>> = v
  BY JoinHolds
<1>2. PICK x \in Texts : t = v \o x /\ Matches[<<<<>>, x>>]
  BY <1>1, LettersFirst
<1>3. x = <<>>
  BY <1>1, <1>2, MatchSteps
<1> QED  BY <1>1, <1>2, <1>3

(* Behind an asterisk the letters are the last ones of the text. *)
LEMMA LettersLast ==
  ASSUME NEW v \in Texts, ~WildMask(v), NEW t \in Texts, Matches[<<<<Ast>> \o v, t>>]
  PROVE  \E a \in Texts : t = a \o v
<1> DEFINE q == <<Ast>> \o v
           Good(x) == Matches[<<q, x>>] => \E a \in Texts : x = a \o v
           P == {x \in Texts : Good(x)}
<1>1. q \in Texts /\ q # <<>> /\ q[1] = Ast /\ Tail(q) = v
  BY WildJoin
<1> HIDE DEF q
<1>2. ASSUME NEW x \in Texts, Matches[<<v, x>>]  PROVE \E a \in Texts : x = a \o v
  <2>1. x = v /\ <<>> \in Texts /\ <<>> \o v = v
    BY <1>2, PlainMatch, JoinHolds
  <2> QED  BY <2>1
<1>3. \A x \in Texts : Matches[<<q, x>>] => Matches[<<v, x>>] \/ (x # <<>> /\ Matches[<<q, Tail(x)>>])
  BY <1>1, MatchSteps
<1>4. <<>> \in P
  <2>1. <<>> \in Texts
    BY EmptySeq DEF Texts
  <2> QED  BY <1>2, <1>3, <2>1
<1>5. ASSUME NEW x \in Texts, x # <<>>, Tail(x) \in P  PROVE x \in P
  <2> SUFFICES ASSUME Matches[<<q, Tail(x)>>]  PROVE \E a \in Texts : x = a \o v
    BY <1>2, <1>3
  <2>1. PICK a \in Texts : Tail(x) = a \o v
    BY <1>5
  <2> DEFINE one == <<x[1]>>
  <2>2. one \in Texts
    BY <1>5, FirstLetter DEF Texts
  <2>3. x = one \o (a \o v)
    <3>1. x \in Seq(1 .. 255)
      BY TextLetters
    <3>2. x = <<Head(x)>> \o Tail(x) /\ Head(x) = x[1]
      BY <1>5, <3>1, HeadTailProperties
    <3> QED  BY <2>1, <3>2
  <2> HIDE DEF one
  <2>4. (one \o a) \o v = one \o (a \o v) /\ one \o a \in Texts
    <3>1. (one \o a) \o v = one \o (a \o v)
      BY <2>2, JoinThrice
    <3>2. one \o a \in Texts
      BY <2>2, JoinHolds
    <3> QED  BY <3>1, <3>2
  <2> QED  BY <2>3, <2>4
<1>6. t \in P
  <2> HIDE DEF P
  <2> QED  BY <1>4, <1>5, TextInduction
<1> QED  BY <1>6 DEF q

(* What a word may go on with where the wildcard stands. *)
Fits(d, v, t) ==
  \/ d = Quest /\ t # <<>> /\ Tail(t) = v
  \/ d = Ast /\ \E a \in Texts : t = a \o v
  \/ t = <<>> /\ v = <<>>

(* The word w is u and goes on so. *)
FitsBehind(u, d, v, w) == \E t \in Texts : w = u \o t /\ Fits(d, v, t)

(* A word that matches, or ends where the wildcard stands, goes on so. *)
LEMMA FitsThere ==
  ASSUME NEW u \in Texts, ~WildMask(u), NEW d \in {Ast, Quest}, NEW v \in Texts, ~WildMask(v), NEW w \in Texts,
         Matches[<<Asked(u, d, v), w>>] \/ (Matches[<<u, w>>] /\ v = <<>>)
  PROVE  FitsBehind(u, d, v, w)
<1>1. CASE Matches[<<u, w>>] /\ v = <<>>
  <2>1. w = u /\ <<>> \in Texts /\ u \o <<>> = u
    BY <1>1, PlainMatch, JoinHolds
  <2>2. w = u \o <<>> /\ Fits(d, v, <<>>)
    BY <1>1, <2>1 DEF Fits
  <2> QED  BY <2>1, <2>2 DEF FitsBehind
<1>2. CASE Matches[<<Asked(u, d, v), w>>]
  <2> DEFINE q == <<d>> \o v
  <2>1. q \in Texts /\ q # <<>> /\ q[1] = d /\ Tail(q) = v /\ Matches[<<u \o q, w>>]
    BY <1>2, WildJoin DEF Asked
  <2>2. PICK t \in Texts : w = u \o t /\ Matches[<<q, t>>]
    <3> HIDE DEF q
    <3> QED  BY <2>1, LettersFirst
  <2>3. CASE d = Quest
    <3>1. q[1] # Ast
      BY <2>1, <2>3 DEF Quest, Ast
    <3> HIDE DEF q
    <3>2. t # <<>> /\ Matches[<<v, Tail(t)>>]
      BY <2>1, <2>2, <3>1, MatchSteps
    <3>3. Tail(t) \in Texts
      BY <3>2, TailIsSkip
    <3>4. Tail(t) = v
      BY <3>2, <3>3, PlainMatch
    <3> QED  BY <2>2, <2>3, <3>2, <3>4 DEF Fits, FitsBehind
  <2>4. CASE d = Ast
    <3>1. \E a \in Texts : t = a \o v
      BY <2>2, <2>4, LettersLast
    <3> QED  BY <2>2, <2>4, <3>1 DEF Fits, FitsBehind
  <2> QED  BY <2>3, <2>4
<1> QED  BY <1>1, <1>2

(* A text goes on with its next letter. *)
LEMMA GoesOn ==
  ASSUME NEW u \in Texts, NEW t \in Texts, t # <<>>
  PROVE  /\ Append(u, t[1]) \in Texts /\ Append(u, t[1]) \o Tail(t) = u \o t /\ Tail(t) \in Texts
         /\ IsStrictPrefix(u, u \o t) /\ (u \o t)[Len(u) + 1] = t[1]
         /\ IsPrefix(Append(u, t[1]), u \o t)
<1> DEFINE one == <<t[1]>>
           r == Tail(t)
<1>1. one \in Texts /\ r \in Texts /\ Append(u, t[1]) = u \o one
  <2>1. t[1] \in 1 .. 255 /\ r \in Texts
    BY FirstLetter, TailIsSkip
  <2> QED  BY <2>1 DEF Texts
<1>2. t = one \o r
  <2>1. t \in Seq(1 .. 255)
    BY TextLetters
  <2>2. t = <<Head(t)>> \o Tail(t) /\ Head(t) = t[1]
    BY <2>1, HeadTailProperties
  <2> QED  BY <2>2
<1> HIDE DEF one, r
<1>3. u \o one \in Texts
  BY <1>1, JoinHolds
<1>4. (u \o one) \o r = u \o t
  <2>1. (u \o one) \o r = u \o (one \o r)
    BY <1>1, JoinThrice
  <2> QED  BY <1>2, <2>1
<1>5. IsPrefix(u \o one, u \o t)
  <2> DEFINE a == u \o one
  <2>1. a \in Texts /\ a \o r = u \o t
    BY <1>3, <1>4
  <2> HIDE DEF a
  <2>2. IsPrefix(a, a \o r)
    BY <1>1, <2>1, JoinSplit
  <2> QED  BY <2>1, <2>2 DEF a
<1>6. IsPrefix(u, u \o t) /\ (u \o t)[Len(u) + 1] = t[1]
  BY JoinSplit
<1>7. u # u \o t
  <2>1. Len(u \o t) = Len(u) + Len(t)
    BY JoinHolds
  <2>2. Len(u) \in Nat /\ Len(t) \in Nat /\ Len(t) # 0
    BY TextLetters, FirstLetter
  <2>3. Len(u \o t) # Len(u)
    BY <2>1, <2>2
  <2> QED  BY <2>3
<1> QED  BY <1>1, <1>3, <1>4, <1>5, <1>6, <1>7 DEF r, IsStrictPrefix

(* A word ends before the wildcard only if nothing is behind it. *)
LEMMA FitsNothing ==
  ASSUME NEW d, NEW v \in Texts, Fits(d, v, <<>>)
  PROVE  v = <<>>
<1>1. ASSUME NEW a \in Texts, <<>> = a \o v  PROVE v = <<>>
  <2>1. Len(a \o v) = Len(a) + Len(v) /\ Len(<<>>) = 0
    BY JoinHolds
  <2>2. Len(a) \in Nat /\ Len(v) \in Nat /\ v \in Seq(1 .. 255)
    BY TextLetters
  <2>3. Len(v) = 0
    BY <1>1, <2>1, <2>2
  <2> QED  BY <2>2, <2>3, EmptySeq
<1> QED  BY <1>1 DEF Fits

(* A table offers the letter of an ending that fits. *)
LEMMA FlexOffers ==
  ASSUME NEW e \in StemEntry, NEW u \in Texts, ~WildMask(u), NEW d \in {Ast, Quest}, NEW v \in Texts,
         NEW levels, NEW x \in e.endings, Allowed(e, x, levels),
         NEW t \in Texts, x.text = u \o t, Fits(d, v, t)
  PROVE  First(t) \in WildScanFlex(Asked(u, d, v), e, levels)
<1> DEFINE p == Asked(u, d, v)
           n == WildAt(p)
<1>1. /\ n = Len(u) + 1 /\ SubSeq(p, 1, n - 1) = u /\ p[n] = d /\ Skip(p, n) = v
      /\ Len(p) = n <=> v = <<>>
  BY AskedHolds
<1>2. WildScanFlex(p, e, levels) =
        {c \in FlexKids(e, u) : d = Ast \/ GramFound(e, Append(u, c) \o v, levels)}
          \cup (IF Len(p) = n /\ GramFound(e, u, levels) THEN {Nul} ELSE {})
  BY <1>1, Zenon DEF WildScanFlex
<1> HIDE DEF p, n
<1>3. CASE t = <<>>
  <2>1. x.text = u
    BY <1>3, JoinHolds
  <2>2. GramFound(e, u, levels)
    BY <2>1 DEF GramFound
  <2>3. Len(p) = n
    BY <1>1, <1>3, FitsNothing
  <2>4. First(t) = Nul
    BY <1>3 DEF First, Nul
  <2> QED  BY <1>2, <2>2, <2>3, <2>4 DEF p
<1>4. CASE t # <<>>
  <2>1. IsStrictPrefix(u, x.text) /\ x.text[Len(u) + 1] = t[1] /\ Append(u, t[1]) \o Tail(t) = x.text
    <3>1. /\ IsStrictPrefix(u, u \o t) /\ (u \o t)[Len(u) + 1] = t[1]
          /\ Append(u, t[1]) \o Tail(t) = u \o t
      BY <1>4, GoesOn
    <3> QED  BY <3>1, Zenon
  <2>2. t[1] \in FlexKids(e, u) /\ First(t) = t[1]
    BY <1>4, <2>1 DEF FlexKids, First
  <2>3. d # Ast => Tail(t) = v
    BY <1>4 DEF Fits
  <2>4. d # Ast => GramFound(e, Append(u, t[1]) \o v, levels)
    BY <2>1, <2>3 DEF GramFound
  <2> QED  BY <1>2, <2>2, <2>4 DEF p
<1> QED  BY <1>3, <1>4

(* A row of alternations offers the letter that fits. *)
LEMMA RowOffers ==
  ASSUME NEW e \in StemEntry, e.post = <<>>, NEW u \in Texts, ~WildMask(u), NEW d \in {Ast, Quest}, NEW v \in Texts,
         NEW row, row.text \in Texts, ~WildMask(row.text), NEW x \in e.endings, Allowed(e, x, row.levels),
         NEW t \in Texts, row.text \o x.text = u \o t, Fits(d, v, t)
  PROVE  First(t) \in WildScanRow(Asked(u, d, v), e, row)
<1> DEFINE p == Asked(u, d, v)
           k == Common(row.text, p)
           r == Skip(row.text, k)
           s == Skip(p, k)
<1>0. x.text \in Texts
  BY EntryHolds
<1>1. WildScanRow(p, e, row) =
        IF r = <<>> THEN WildScanFlex(s, e, row.levels)
        ELSE IF s[1] = Ast THEN {r[1]}
        ELSE {c \in {r[1]} :
                /\ s[1] = Quest
                /\ \E z \in WithoutPost(s, e.post) :
                     /\ IsPrefix(Tail(r), Tail(z))
                     /\ GramFound(e, Skip(z, Len(r)), row.levels)}
  BY Zenon DEF WildScanRow
<1>2. ASSUME NEW m \in Texts, u = row.text \o m, x.text = m \o t
      PROVE  First(t) \in WildScanRow(p, e, row)
  <2> DEFINE q == Asked(m, d, v)
  <2>1. p = row.text \o q /\ q \in Texts
    <3>1. Without(Asked(row.text \o m, d, v), row.text, q)
      BY AskedSplits
    <3> QED  BY <1>2, <3>1, Zenon DEF Without
  <2>2. r = <<>> /\ s = q
    <3> HIDE DEF q
    <3>1. row.text \o <<>> = row.text /\ <<>> \in Texts
      BY JoinHolds
    <3>2. Part(row.text \o <<>>, row.text \o q, row.text, <<>>, q)
      BY <2>1, <3>1, CommonJoin
    <3> QED  BY <2>1, <3>1, <3>2, Zenon DEF Part
  <2>3. ~WildMask(m)
    <3>1. Len(row.text) \in 0 .. Len(u) /\ Skip(u, Len(row.text)) = m
      BY <1>2, JoinSplit
    <3>2. ~WildMask(Skip(u, Len(row.text)))
      BY <3>1, NoWildParts
    <3> QED  BY <3>1, <3>2
  <2>4. First(t) \in WildScanFlex(q, e, row.levels)
    BY <1>2, <2>3, FlexOffers
  <2> HIDE DEF p, k, r, s, q
  <2> QED  BY <1>1, <2>2, <2>4
<1>3. ASSUME NEW m \in Texts, m # <<>>, row.text = u \o m, t = m \o x.text
      PROVE  First(t) \in WildScanRow(p, e, row)
  <2> DEFINE q == <<d>> \o v
  <2>1. q \in Texts /\ q # <<>> /\ q[1] = d /\ Tail(q) = v /\ p = u \o q /\ Wild(d)
    BY WildJoin DEF Asked
  <2>2. m[1] # d
    <3>1. Len(u) \in 0 .. Len(row.text) /\ Skip(row.text, Len(u)) = m
      BY <1>3, JoinSplit
    <3>2. ~WildMask(m)
      BY <3>1, NoWildParts
    <3>3. m[1] # Ast /\ m[1] # Quest
      BY <1>3, <3>2, NoWildTail
    <3> QED  BY <3>3
  <2>3. r = m /\ s = q
    <3> HIDE DEF q
    <3>1. Part(u \o m, u \o q, u, m, q)
      BY <2>1, <2>2, CommonJoin
    <3> QED  BY <1>3, <2>1, <3>1, Zenon DEF Part
  <2>4. t # <<>> /\ t[1] = m[1] /\ Tail(t) = Tail(m) \o x.text /\ First(t) = m[1]
    <3>1. t # <<>> /\ t[1] = m[1] /\ Tail(t) = Tail(m) \o x.text
      BY <1>0, <1>3, JoinHolds
    <3> QED  BY <3>1 DEF First
  <2> HIDE DEF p, k, r, s
  <2>5. CASE d = Ast
    <3>1. s[1] = Ast /\ r # <<>>
      BY <1>3, <2>1, <2>3, <2>5
    <3>2. WildScanRow(p, e, row) = {r[1]}
      BY <1>1, <3>1, Zenon
    <3> QED  BY <2>3, <2>4, <3>2
  <2>6. CASE d = Quest
    <3>1. v = Tail(m) \o x.text /\ Tail(m) \in Texts
      <4>1. Tail(t) = v
        <5>1. Quest # Ast
          BY DEF Quest, Ast
        <5> QED  BY <2>4, <2>6, <5>1, Zenon DEF Fits
      <4>2. Tail(m) \in Texts
        BY <1>3, TailIsSkip
      <4> QED  BY <2>4, <4>1, <4>2, Zenon
    <3>2. WithoutPost(s, e.post) = {s}
      BY DEF WithoutPost
    <3>3. IsPrefix(Tail(r), Tail(s))
      <4>1. IsPrefix(Tail(m), Tail(m) \o x.text)
        BY <1>0, <3>1, JoinSplit
      <4> QED  BY <2>1, <2>3, <3>1, <4>1
    <3>4. Skip(s, Len(r)) = x.text
      <4>1. /\ Len(m) \in Nat \ {0} /\ Len(Tail(m)) = Len(m) - 1
            /\ Len(v) = Len(Tail(m)) + Len(x.text) /\ Len(x.text) \in Nat
            /\ Tail(q) = Skip(q, 1) /\ Len(q) = 1 + Len(v)
        BY <1>0, <1>3, <2>1, <3>1, TailIsSkip, JoinHolds, TextLetters, WildJoin
      <4>2. 1 \in 0 .. Len(q) /\ Len(m) - 1 \in 0 .. Len(q) - 1 /\ 1 + (Len(m) - 1) = Len(m)
        <5> HIDE DEF q
        <5> QED  BY <4>1
      <4>3. Skip(Skip(q, 1), Len(m) - 1) = Skip(q, Len(m))
        <5> HIDE DEF q
        <5> DEFINE j == Len(m) - 1
        <5>1. j \in 0 .. Len(q) - 1 /\ 1 + j = Len(m)
          BY <4>2
        <5> HIDE DEF j
        <5>2. Skip(Skip(q, 1), j) = Skip(q, 1 + j)
          BY <2>1, <4>2, <5>1, SkipTwice
        <5> QED  BY <5>1, <5>2 DEF j
      <4>4. Skip(v, Len(Tail(m))) = x.text
        BY <1>0, <3>1, JoinSplit
      <4> HIDE DEF q
      <4> QED  BY <2>1, <2>3, <4>1, <4>3, <4>4
    <3>5. GramFound(e, Skip(s, Len(r)), row.levels)
      BY <3>4 DEF GramFound
    <3>6. s[1] = Quest /\ s[1] # Ast /\ r # <<>>
      BY <1>3, <2>1, <2>3, <2>6 DEF Quest, Ast
    <3>7. WildScanRow(p, e, row) =
            {c \in {r[1]} :
                /\ s[1] = Quest
                /\ \E z \in WithoutPost(s, e.post) :
                     /\ IsPrefix(Tail(r), Tail(z))
                     /\ GramFound(e, Skip(z, Len(r)), row.levels)}
      BY <1>1, <3>6, Zenon
    <3>8. r[1] \in WildScanRow(p, e, row)
      BY <3>2, <3>3, <3>5, <3>6, <3>7
    <3> QED  BY <2>3, <2>4, <3>8
  <2> QED  BY <2>5, <2>6 DEF p
<1> HIDE DEF p, k, r, s
<1>4. \/ \E m \in Texts : u = row.text \o m /\ x.text = m \o t
      \/ \E m \in Texts : m # <<>> /\ row.text = u \o m /\ t = m \o x.text
  <2>1. TwoWays(row.text, x.text, u, t)
    BY <1>0, JoinedTwice
  <2> QED  BY <2>1, Zenon DEF TwoWays
<1> QED  BY <1>2, <1>3, <1>4 DEF p

-------------------------------------------------------------------------------
(* CheckHelp offers what fits. *)

(* A text that begins with a row is not before that row, nor before an earlier one. *)
LEMMA NotBehind ==
  ASSUME NEW s \in Stems, NEW i \in DOMAIN s.entry.mix, NEW k \in DOMAIN s.entry.mix, k <= i, NEW z \in Texts
  PROVE  ~Before(s.entry.mix[i].text \o z, s.entry.mix[k].text)
<1> DEFINE a == s.entry.mix[i].text
           b == s.entry.mix[k].text
           y == a \o z
<1>1. a \in Texts /\ b \in Texts /\ i \in Nat /\ k \in Nat
  BY PartsTame, EntryHolds
<1>2. b = a \/ Before(b, a)
  <2>1. k = i \/ k < i
    BY <1>1
  <2> QED  BY <2>1, RowsAscend
<1> HIDE DEF a, b
<1>3. y \in Texts /\ IsPrefix(a, y)
  BY <1>1, JoinHolds, JoinSplit
<1> HIDE DEF y
<1>4. ~Before(y, a)
  BY <1>1, <1>3, BeforeNoPrefix
<1>5. ~Before(y, b)
  BY <1>1, <1>2, <1>3, <1>4, BeforeTransitive
<1> QED  BY <1>5 DEF a, b, y

(* The scan of the rows goes on to the one a fitting word is written with. *)
LEMMA RowsReached ==
  ASSUME NEW u \in Texts, ~WildMask(u), NEW d \in {Ast, Quest}, NEW v \in Texts, NEW t \in Texts,
         NEW row, row.text \in Texts, ~WildMask(row.text), ~Before(u \o t, row.text)
  PROVE  ~RowStops(Asked(u, d, v), row)
<1> DEFINE p == Asked(u, d, v)
           q == <<d>> \o v
           a == row.text
           n == Common(a, p)
           y == u \o t
<1>1. /\ q \in Texts /\ q # <<>> /\ q[1] = d /\ Wild(d) /\ p = u \o q
      /\ a \in Texts /\ ~WildMask(a) /\ ~Before(y, a)
  BY WildJoin DEF Asked
<1> HIDE DEF a, q
<1>2. /\ p \in Texts /\ y \in Texts /\ Len(y) = Len(u) + Len(t)
      /\ \A j \in 1 .. Len(u) : p[j] = u[j] /\ y[j] = u[j]
      /\ p[Len(u) + 1] = d
  <2>1. u \o q \in Texts /\ (\A j \in 1 .. Len(u) : (u \o q)[j] = u[j]) /\ (u \o q)[Len(u) + 1] = q[1]
    BY <1>1, JoinHolds, JoinSplit
  <2>2. u \o t \in Texts /\ Len(u \o t) = Len(u) + Len(t) /\ \A j \in 1 .. Len(u) : (u \o t)[j] = u[j]
    BY JoinHolds, JoinSplit
  <2> HIDE DEF p
  <2> QED  BY <1>1, <2>1, <2>2
<1>3. /\ Len(u) \in Nat /\ Len(t) \in Nat /\ Len(a) \in Nat /\ DOMAIN a = 1 .. Len(a)
      /\ \A j \in 1 .. Len(a) : a[j] \in Int
  BY <1>1, TextLetters, LenProperties DEF Texts
<1> HIDE DEF p, y
<1>4. /\ n \in Nat /\ n <= Len(a) /\ n <= Len(p) /\ \A j \in 1 .. n : a[j] = p[j]
  BY <1>1, <1>2, CommonHolds
<1> SUFFICES ASSUME n < Len(a), ~Wild(p[n + 1]), p[n + 1] < a[n + 1]  PROVE FALSE
  BY DEF RowStops, a, p
<1> HIDE DEF n
<1>5. ~(Len(u) < n)
  <2> SUFFICES ASSUME Len(u) < n  PROVE FALSE
    OBVIOUS
  <2>1. Len(u) + 1 \in 1 .. n /\ Len(u) + 1 \in DOMAIN a
    BY <1>3, <1>4
  <2>2. a[Len(u) + 1] = d
    BY <1>2, <1>4, <2>1
  <2> QED  BY <1>1, <2>1, <2>2 DEF WildMask
<1>6. n # Len(u)
  BY <1>1, <1>2
<1>7. /\ n < Len(u) /\ n + 1 \in 1 .. Len(u) /\ n \in 0 .. Len(y)
      /\ \A j \in 1 .. n : j \in 1 .. Len(u)
  BY <1>2, <1>3, <1>4, <1>5, <1>6
<1>8. /\ \A j \in 1 .. n : y[j] = a[j]
      /\ y[n + 1] < a[n + 1]
  BY <1>2, <1>4, <1>7
<1>9. Before(y, a)
  BY <1>1, <1>2, <1>7, <1>8, BeforeAt
<1> QED  BY <1>1, <1>9

(* What a stem may have behind its node. *)
Behind(e, f, y) == IF Flective(e) THEN Rest(e, f, y) ELSE f = NonFlective /\ y = <<>>

(* y is an alternation, if there are any, and the ending x. *)
Written(e, f, y, x) ==
  /\ x \in e.endings /\ x.text \in Texts /\ f = x.form
  /\ ~Mixes(e) => y = x.text /\ Allowed(e, x, AnyLevel)
  /\ Mixes(e) => \E i \in DOMAIN e.mix :
       /\ e.mix[i].text \in Texts /\ ~WildMask(e.mix[i].text)
       /\ y = e.mix[i].text \o x.text /\ Allowed(e, x, e.mix[i].levels)

(* A stem without a postfix has an alternation and an ending. *)
LEMMA BehindNode ==
  ASSUME NEW s \in Stems, Flective(s.entry), s.entry.post = <<>>, NEW f, NEW y, Rest(s.entry, f, y)
  PROVE  \E x : Written(s.entry, f, y, x)
<1> DEFINE e == s.entry
<1>1. PICK r \in Alternations(e), x \in e.endings :
        Allowed(e, x, r.levels) /\ f = x.form /\ y = r.text \o (x.text \o e.post)
  BY DEF Rest
<1>2. x.text \in Texts /\ r.text \in Texts /\ ~WildMask(r.text)
  BY PartsTame
<1>3. x.text \o e.post = x.text
  <2>1. x.text \o <<>> = x.text
    BY <1>2, JoinHolds
  <2> QED  BY <2>1
<1>4. y = r.text \o x.text
  BY <1>1, <1>3
<1>5. CASE ~Mixes(e)
  <2>1. r = [text |-> <<>>, levels |-> 1 .. 3]
    BY <1>5 DEF Alternations
  <2>2. r.text = <<>> /\ r.levels = AnyLevel
    BY <2>1 DEF AnyLevel
  <2>3. <<>> \o x.text = x.text
    BY <1>2, JoinHolds
  <2>4. y = x.text
    BY <1>4, <2>2, <2>3
  <2> QED  BY <1>1, <1>2, <1>5, <2>2, <2>4 DEF Written
<1>6. CASE Mixes(e)
  <2>1. PICK i \in DOMAIN e.mix : r = e.mix[i]
    BY <1>6 DEF Alternations
  <2>2. /\ e.mix[i].text \in Texts /\ ~WildMask(e.mix[i].text)
        /\ y = e.mix[i].text \o x.text /\ Allowed(e, x, e.mix[i].levels)
    BY <1>1, <1>2, <1>4, <2>1
  <2>3. x \in e.endings /\ f = x.form /\ x.text \in Texts
    BY <1>1, <1>2
  <2>4. \E j \in DOMAIN e.mix :
          /\ e.mix[j].text \in Texts /\ ~WildMask(e.mix[j].text)
          /\ y = e.mix[j].text \o x.text /\ Allowed(e, x, e.mix[j].levels)
    BY <2>2, Zenon
  <2> QED  BY <1>6, <2>3, <2>4, Zenon DEF Written
<1> QED  BY <1>5, <1>6

(* A stem offers the letter of a form that fits. *)
LEMMA StemOffers ==
  ASSUME NEW s \in Stems, s.entry.post = <<>>, NEW f, NEW y \in Texts, Behind(s.entry, f, y),
         NEW u \in Texts, ~WildMask(u), NEW d \in {Ast, Quest}, NEW v \in Texts,
         NEW t \in Texts, y = u \o t, Fits(d, v, t)
  PROVE  First(t) \in WildScanStem(Asked(u, d, v), s.entry)
<1> DEFINE e == s.entry
           p == Asked(u, d, v)
<1>1. e \in StemEntry
  BY PartsTame
<1>2. CASE ~Flective(e)
  <2>1. y = <<>>
    BY <1>2 DEF Behind
  <2>2. u = <<>> /\ t = <<>>
    <3>1. Len(u \o t) = Len(u) + Len(t) /\ Len(u) \in Nat /\ Len(t) \in Nat
      BY JoinHolds, TextLetters
    <3>2. Len(u) = 0 /\ Len(t) = 0
      <4>1. Len(u \o t) = 0
        BY <2>1
      <4> QED  BY <3>1, <4>1
    <3> QED  BY <3>2, TextLetters, EmptySeq
  <2>3. v = <<>> /\ First(t) = Nul
    BY <2>2, FitsNothing DEF First, Nul
  <2>4. p = <<d>>
    <3> DEFINE q == <<d>> \o v
    <3>1. q \in Texts /\ p = <<>> \o q
      BY <2>2, WildJoin DEF Asked
    <3>2. <<>> \o q = q
      BY <3>1, JoinHolds
    <3>3. <<d>> \o <<>> = <<d>>
      <4>1. d \in 1 .. 255
        BY DEF Ast, Quest
      <4>2. <<d>> \in Texts
        BY <4>1 DEF Texts
      <4> QED  BY <4>2, JoinHolds
    <3> QED  BY <2>3, <3>1, <3>2, <3>3
  <2>5. p[1] = Ast \/ p = <<Quest>>
    BY <2>4
  <2>6. WildScanStem(p, e) = {Nul}
    BY <1>2, <2>5, Zenon DEF WildScanStem
  <2> QED  BY <2>3, <2>6
<1>3. CASE Flective(e)
  <2>1. Rest(e, f, y)
    BY <1>3 DEF Behind
  <2>2. PICK x : Written(e, f, y, x)
    BY <1>3, <2>1, BehindNode
  <2>3. CASE ~Mixes(e)
    <3>1. First(t) \in WildScanFlex(p, e, AnyLevel)
      <4>1. x.text = u \o t /\ Allowed(e, x, AnyLevel) /\ x \in e.endings
        BY <2>2, <2>3 DEF Written
      <4> HIDE DEF e
      <4> QED  BY <1>1, <4>1, FlexOffers
    <3>2. WildScanStem(p, e) = WildScanFlex(p, e, AnyLevel)
      BY <1>3, <2>3, Zenon DEF WildScanStem
    <3> QED  BY <3>1, <3>2
  <2>4. CASE Mixes(e)
    <3>1. PICK i \in DOMAIN e.mix :
                /\ e.mix[i].text \in Texts /\ ~WildMask(e.mix[i].text)
                /\ y = e.mix[i].text \o x.text /\ Allowed(e, x, e.mix[i].levels)
      BY <2>2, <2>4, Zenon DEF Written
    <3>2. First(t) \in WildScanRow(p, e, e.mix[i])
      <4> DEFINE row == e.mix[i]
      <4>1. /\ row.text \in Texts /\ ~WildMask(row.text) /\ row.text \o x.text = u \o t
            /\ Allowed(e, x, row.levels) /\ e.post = <<>> /\ x \in e.endings
        BY <2>2, <3>1 DEF Written
      <4> HIDE DEF row, e
      <4> QED  BY <1>1, <4>1, RowOffers DEF row
    <3>3. ASSUME NEW k \in 1 .. i - 1  PROVE ~RowStops(p, e.mix[k])
      <4>1. k \in DOMAIN e.mix /\ k <= i /\ e.mix[k] \in Alternations(e)
        <5>1. DOMAIN e.mix = 1 .. Len(e.mix) /\ Len(e.mix) \in Nat
          BY <1>1, EntryHolds
        <5>2. k \in DOMAIN e.mix /\ k <= i
          BY <5>1
        <5> QED  BY <2>4, <5>2 DEF Alternations
      <4>2. ~Before(y, e.mix[k].text)
        <5>1. x.text \in Texts
          BY <2>2 DEF Written
        <5>2. ~Before(e.mix[i].text \o x.text, e.mix[k].text)
          BY <4>1, <5>1, NotBehind
        <5> QED  BY <3>1, <5>2, Zenon
      <4>3. e.mix[k].text \in Texts /\ ~WildMask(e.mix[k].text)
        BY <4>1, PartsTame
      <4> DEFINE row == e.mix[k]
      <4>4. row.text \in Texts /\ ~WildMask(row.text) /\ ~Before(u \o t, row.text)
        BY <4>2, <4>3
      <4> HIDE DEF row
      <4>5. ~RowStops(Asked(u, d, v), row)
        BY <4>4, RowsReached
      <4> QED  BY <4>5 DEF row
    <3>4. WildScanStem(p, e) = UNION {WildScanRow(p, e, e.mix[j]) :
                                        j \in {l \in DOMAIN e.mix : \A k \in 1 .. l - 1 : ~RowStops(p, e.mix[k])}}
      BY <1>3, <2>4, Zenon DEF WildScanStem
    <3> HIDE DEF e, p
    <3> QED  BY <3>1, <3>2, <3>3, <3>4 DEF e, p
  <2> QED  BY <2>3, <2>4
<1> QED  BY <1>2, <1>3

-------------------------------------------------------------------------------
(* CheckHelp looks up what is behind the wildcard and finds it. *)

(* An empty postfix is at the end of every text. *)
LEMMA NoPost ==
  ASSUME NEW y \in Texts
  PROVE  IsSuffix(<<>>, y) /\ SubSeq(y, 1, Len(y) - Len(<<>>)) = y /\ (Len(y) > Len(<<>>) <=> y # <<>>)
<1> DEFINE none == <<>>
<1>1. none \in Seq(1 .. 255) /\ y \in Seq(1 .. 255) /\ none \in Texts /\ Len(none) = 0 /\ Len(y) \in Nat
  BY TextLetters, EmptySeq DEF Texts
<1>2. y \o none = y
  BY JoinHolds
<1> HIDE DEF none
<1>3. IsSuffix(none, y \o none) /\ SubSeq(y \o none, 1, Len(y \o none) - Len(none)) = y
  BY <1>1, ConcatEnds, ConcatSplits
<1>4. Len(y) > 0 <=> y # <<>>
  BY <1>1, EmptySeq
<1> QED  BY <1>1, <1>2, <1>3, <1>4 DEF none

(* A list takes a stem without a postfix for what it may have behind its node. *)
LEMMA ReadsRest ==
  ASSUME NEW s \in Stems, s.entry.post = <<>>, ~Hidden(s), NEW f, NEW y \in Texts, Behind(s.entry, f, y)
  PROVE  Reads(s.entry, y)
<1> DEFINE e == s.entry
<1>1. e \in StemEntry
  BY PartsTame
<1>2. IsSuffix(e.post, y) /\ SubSeq(y, 1, Len(y) - Len(e.post)) = y
  <2>1. IsSuffix(<<>>, y) /\ SubSeq(y, 1, Len(y) - Len(<<>>)) = y
    BY NoPost
  <2> QED  BY <2>1
<1>3. Reads(e, y) <=>
        /\ y # <<>> => y[1] \in ChrMin(e) .. ChrMax(e)
        /\ IF ~Flective(e) THEN y = <<>>
           ELSE IF ~Mixes(e) THEN GramFound(e, y, AnyLevel)
           ELSE \E i \in DOMAIN e.mix :
                  /\ \A j \in 1 .. i : ~Before(y, e.mix[j].text)
                  /\ IsPrefix(e.mix[i].text, y)
                  /\ GramFound(e, Skip(y, Len(e.mix[i].text)), e.mix[i].levels)
  <2> DEFINE flex == SubSeq(y, 1, Len(y) - Len(e.post))
  <2>1. flex = y
    BY <1>2
  <2>2. Reads(e, y) <=>
          /\ IsSuffix(e.post, y)
          /\ flex # <<>> => y[1] \in ChrMin(e) .. ChrMax(e)
          /\ IF ~Flective(e) THEN flex = <<>>
             ELSE IF ~Mixes(e) THEN GramFound(e, flex, AnyLevel)
             ELSE \E i \in DOMAIN e.mix :
                    /\ \A j \in 1 .. i : ~Before(y, e.mix[j].text)
                    /\ IsPrefix(e.mix[i].text, y)
                    /\ GramFound(e, Skip(y, Len(e.mix[i].text)), e.mix[i].levels)
    BY Zenon DEF Reads
  <2> HIDE DEF flex, e
  <2> QED  BY <1>2, <2>1, <2>2, Zenon DEF e
<1>4. CASE ~Flective(e)
  <2>1. y = <<>>
    BY <1>4 DEF Behind
  <2> HIDE DEF e
  <2> QED  BY <1>3, <1>4, <2>1 DEF e
<1>5. CASE Flective(e)
  <2>1. Rest(e, f, y)
    BY <1>5 DEF Behind
  <2>2. PICK x : Written(e, f, y, x)
    BY <1>5, <2>1, BehindNode
  <2>3. y # <<>> => y[1] \in ChrMin(e) .. ChrMax(e)
    <3>1. SUFFICES ASSUME y # <<>>  PROVE y[1] \in ChrMin(e) .. ChrMax(e)
      OBVIOUS
    <3>2. y[1] \in Int /\ ChrMin(e) <= y[1] /\ y[1] <= ChrMax(e)
      BY <1>5, <2>1, <3>1, RestCovered
    <3>3. ChrMin(e) \in Int /\ ChrMax(e) \in Int
      BY <1>1, BoundsAreCodes
    <3> HIDE DEF e
    <3> QED  BY <3>2, <3>3
  <2>4. CASE ~Mixes(e)
    <3>1. GramFound(e, y, AnyLevel)
      BY <2>2, <2>4 DEF Written, GramFound
    <3> HIDE DEF e
    <3> QED  BY <1>3, <1>5, <2>3, <2>4, <3>1, Zenon DEF e
  <2>5. CASE Mixes(e)
    <3>1. PICK i \in DOMAIN e.mix :
                /\ e.mix[i].text \in Texts /\ ~WildMask(e.mix[i].text)
                /\ y = e.mix[i].text \o x.text /\ Allowed(e, x, e.mix[i].levels)
      BY <2>2, <2>5, Zenon DEF Written
    <3>2. x.text \in Texts /\ x \in e.endings
      BY <2>2 DEF Written
    <3>3. ASSUME NEW j \in 1 .. i  PROVE ~Before(y, e.mix[j].text)
      <4>1. j \in DOMAIN e.mix /\ j <= i
        <5>1. DOMAIN e.mix = 1 .. Len(e.mix) /\ Len(e.mix) \in Nat
          BY <1>1, EntryHolds
        <5> QED  BY <5>1
      <4>2. ~Before(e.mix[i].text \o x.text, e.mix[j].text)
        BY <3>2, <4>1, NotBehind
      <4> QED  BY <3>1, <4>2, Zenon
    <3>4. IsPrefix(e.mix[i].text, y) /\ Skip(y, Len(e.mix[i].text)) = x.text
      <4>1. /\ IsPrefix(e.mix[i].text, e.mix[i].text \o x.text)
            /\ Skip(e.mix[i].text \o x.text, Len(e.mix[i].text)) = x.text
        BY <3>1, <3>2, JoinSplit
      <4> QED  BY <3>1, <4>1, Zenon
    <3>5. GramFound(e, Skip(y, Len(e.mix[i].text)), e.mix[i].levels)
      BY <3>1, <3>2, <3>4 DEF GramFound
    <3>6. \E k \in DOMAIN e.mix :
            /\ \A j \in 1 .. k : ~Before(y, e.mix[j].text)
            /\ IsPrefix(e.mix[k].text, y)
            /\ GramFound(e, Skip(y, Len(e.mix[k].text)), e.mix[k].levels)
      BY <3>3, <3>4, <3>5, Zenon
    <3> HIDE DEF e
    <3> QED  BY <1>3, <1>5, <2>3, <2>5, <3>6, Zenon DEF e
  <2> QED  BY <2>4, <2>5
<1> QED  BY <1>4, <1>5

(* No stem of its list stops the lookup before it. *)
LEMMA ListReads ==
  ASSUME DictOK, NEW s \in dict, s.entry.post = <<>>, ~Hidden(s), NEW f, NEW y \in Texts, Behind(s.entry, f, y)
  PROVE  ListLookup(List(s.at), y)
<1> DEFINE e == s.entry
           l == List(s.at)
<1>1. s \in Stems /\ s.at \in Texts /\ e \in StemEntry
  BY StemHolds
<1>2. /\ l \in Seq(StemEntry) /\ Len(l) \in Nat /\ DOMAIN l = 1 .. Len(l)
      /\ \A x \in EntriesAt(s.at) : \E i \in 1 .. Len(l) : l[i] = x
      /\ \A i, j \in 1 .. Len(l) : i < j => InOrder(l[i], l[j])
      /\ \A i \in 1 .. Len(l) : l[i] \in StemEntry
  <2>1. /\ l \in Seq(StemEntry) /\ Len(l) \in Nat /\ DOMAIN l = 1 .. Len(l)
        /\ \A x \in EntriesAt(s.at) : \E i \in 1 .. Len(l) : l[i] = x
        /\ \A i, j \in 1 .. Len(l) : i < j => InOrder(l[i], l[j])
    BY <1>1, ListHolds
  <2> HIDE DEF l
  <2> QED  BY <2>1, ElementOfSeq
<1>3. e \in EntriesAt(s.at)
  BY DEF EntriesAt
<1> HIDE DEF l
<1>4. PICK i \in 1 .. Len(l) : l[i] = e
  BY <1>2, <1>3
<1>5. Reads(l[i], y)
  <2>1. Reads(s.entry, y)
    BY <1>1, ReadsRest
  <2> QED  BY <1>4, <2>1
<1>6. ASSUME NEW j \in 1 .. i - 1  PROVE ~LookupStops(l[j], y)
  <2> SUFFICES ASSUME IsSuffix(l[j].post, y), Len(y) > Len(l[j].post), y[1] > ChrMax(l[j])  PROVE FALSE
    BY DEF LookupStops
  <2>1. j \in 1 .. Len(l) /\ j < i /\ l[j] \in StemEntry
    BY <1>2, <1>4
  <2>2. y # <<>>
    <3>1. Len(l[j].post) \in Nat
      BY <2>1, EntryHolds, TextLetters
    <3>2. Len(y) # 0
      <4>1. Len(y) \in Nat
        BY TextLetters
      <4> QED  BY <3>1, <4>1
    <3> QED  BY <3>2
  <2>3. Flective(e) /\ Rest(e, f, y)
    BY <2>2 DEF Behind
  <2>4. y[1] \in Int /\ y[1] <= ChrMax(e)
    BY <1>1, <2>2, <2>3, RestCovered
  <2>5. InOrder(l[j], e)
    BY <1>2, <1>4, <2>1
  <2>6. ~(ChrMax(e) > ChrMax(l[j]))
    BY <2>5 DEF InOrder, Less
  <2>7. ChrMax(e) \in Int /\ ChrMax(l[j]) \in Int
    BY <1>1, <2>1, BoundsAreCodes
  <2> HIDE DEF e
  <2> QED  BY <2>4, <2>6, <2>7
<1> QED  BY <1>2, <1>4, <1>5, <1>6, Zenon DEF ListLookup, l

(* The lookup behind a child finds a word of the dictionary. *)
LEMMA LookupFinds ==
  ASSUME DictOK, NEW s \in dict, s.entry.post = <<>>, ~Hidden(s), NEW f, NEW y \in Texts, Behind(s.entry, f, y),
         NEW node \in Texts, NEW a \in Texts, s.at = node \o a
  PROVE  LookupFrom(node, a \o y)
<1> DEFINE str == a \o y
<1>1. SubSeq(str, 1, Len(a)) = a /\ Skip(str, Len(a)) = y /\ Len(a) \in 0 .. Len(str)
  BY JoinSplit
<1>2. ListLookup(List(s.at), y)
  BY ListReads
<1> HIDE DEF str
<1>3. ListLookup(List(node \o SubSeq(str, 1, Len(a))), Skip(str, Len(a)))
  BY <1>1, <1>2
<1>4. LookupFrom(node, str)
  BY <1>1, <1>3 DEF LookupFrom
<1> QED  BY <1>4 DEF str

(* A word of a stem is its node and what the stem may have behind it. *)
LEMMA WordBehind ==
  ASSUME NEW s \in Stems, s.entry.post = <<>>, NEW w \in WordsOf(s)
  PROVE  \E y \in Texts : Behind(s.entry, w.form, y) /\ w.text = s.at \o y
<1>1. s.at \in Texts /\ <<>> \in Texts
  BY PartsTame, EmptySeq DEF Texts
<1>2. CASE Flective(s.entry)
  <2>1. PICK y \in Texts : Rest(s.entry, w.form, y) /\ w.text = s.at \o y
    BY <1>2, RestIsWord
  <2> QED  BY <1>2, <2>1 DEF Behind
<1>3. CASE ~Flective(s.entry)
  <2>1. w = [text |-> s.at \o s.entry.post, form |-> NonFlective]
    BY <1>3 DEF WordsOf
  <2>2. w.text = s.at \o <<>> /\ w.form = NonFlective
    BY <2>1
  <2> QED  BY <1>1, <1>3, <2>2 DEF Behind
<1> QED  BY <1>2, <1>3

(* The lists on the way to the wildcard offer what their stems offer. *)
LEMMA ListOffers ==
  ASSUME DictOK, NEW s \in dict, NEW u \in Texts, ~WildMask(u), NEW d \in {Ast, Quest}, NEW v \in Texts,
         NEW m \in Texts, u = s.at \o m, NEW c \in WildScanStem(Asked(m, d, v), s.entry)
  PROVE  c \in WildScanDict(Asked(u, d, v))
<1> DEFINE p == Asked(u, d, v)
           n == WildAt(p)
           k == Len(s.at)
           l == List(s.at)
<1>1. s.at \in Texts /\ s.entry \in EntriesAt(s.at)
  BY StemHolds DEF EntriesAt
<1>2. n = Len(u) + 1 /\ Len(u) \in Nat
  BY AskedHolds
<1>3. k \in 0 .. n - 1
  <2>1. k \in 0 .. Len(u)
    <3>1. Len(s.at) \in 0 .. Len(s.at \o m)
      BY <1>1, JoinSplit
    <3> QED  BY <3>1
  <2> HIDE DEF n, k
  <2> QED  BY <1>2, <2>1
<1>4. SubSeq(p, 1, k) = s.at /\ Skip(p, k) = Asked(m, d, v)
  <2>1. Without(Asked(s.at \o m, d, v), s.at, Asked(m, d, v))
    BY <1>1, AskedSplits
  <2> QED  BY <2>1, Zenon DEF Without
<1>5. PICK i \in 1 .. Len(l) : l[i] = s.entry
  BY <1>1, ListHolds
<1>6. DOMAIN l = 1 .. Len(l)
  BY <1>1, ListHolds
<1> HIDE DEF l
<1>7. c \in WildScanList(Asked(m, d, v), l)
  BY <1>5, <1>6 DEF WildScanList
<1>8. c \in WildScanList(Skip(p, k), List(SubSeq(p, 1, k)))
  BY <1>4, <1>7, Zenon DEF l
<1> HIDE DEF p, n, k
<1>9. c \in UNION {WildScanList(Skip(p, j), List(SubSeq(p, 1, j))) : j \in 0 .. n - 1}
  BY <1>3, <1>8
<1>10. c \in WildScanDict(p)
  BY <1>9 DEF WildScanDict, n
<1> QED  BY <1>10 DEF p

(* The children where the wildcard is met. *)
LEMMA KidOffered ==
  ASSUME DictOK, NEW u \in Texts, ~WildMask(u), NEW d \in {Ast, Quest}, NEW v \in Texts,
         NEW c \in Kids(u), d = Ast \/ LookupFrom(Append(u, c), v)
  PROVE  c \in WildScanDict(Asked(u, d, v))
<1> DEFINE p == Asked(u, d, v)
           n == WildAt(p)
<1>1. SubSeq(p, 1, n - 1) = u /\ p[n] = d /\ Skip(p, n) = v
  BY AskedHolds
<1>2. c \in {x \in Kids(u) : p[n] = Ast \/ LookupFrom(Append(u, x), Skip(p, n))}
  BY <1>1
<1>3. c \in {x \in Kids(SubSeq(p, 1, n - 1)) : p[n] = Ast \/ LookupFrom(Append(SubSeq(p, 1, n - 1), x), Skip(p, n))}
  BY <1>1, <1>2, Zenon
<1> HIDE DEF p, n
<1>4. c \in WildScanDict(p)
  BY <1>3 DEF WildScanDict, n
<1> QED  BY <1>4 DEF p

(* Every word that fits has its character offered. *)
LEMMA HelpComplete ==
  ASSUME DictOK, NEW s \in dict, ~Posted(s), ~Hidden(s), NEW w \in WordsOf(s),
         NEW u \in Texts, ~WildMask(u), NEW d \in {Ast, Quest}, NEW v \in Texts,
         NEW t \in Texts, w.text = u \o t, Fits(d, v, t)
  PROVE  First(t) \in WildScanDict(Asked(u, d, v))
<1>1. s \in Stems /\ s.at \in Texts /\ s.entry.post = <<>> /\ ~WildMask(s.at)
  BY StemHolds, PartsTame DEF Posted
<1>2. PICK y \in Texts : Behind(s.entry, w.form, y) /\ w.text = s.at \o y
  BY <1>1, WordBehind
<1>3. ASSUME NEW m \in Texts, u = s.at \o m, y = m \o t
      PROVE  First(t) \in WildScanDict(Asked(u, d, v))
  <2>1. ~WildMask(m)
    <3>1. Len(s.at) \in 0 .. Len(u) /\ Skip(u, Len(s.at)) = m
      BY <1>1, <1>3, JoinSplit
    <3>2. ~WildMask(Skip(u, Len(s.at)))
      BY <3>1, NoWildParts
    <3> QED  BY <3>1, <3>2
  <2>2. First(t) \in WildScanStem(Asked(m, d, v), s.entry)
    BY <1>1, <1>2, <1>3, <2>1, StemOffers
  <2> QED  BY <1>3, <2>2, ListOffers
<1>4. ASSUME NEW m \in Texts, m # <<>>, s.at = u \o m, t = m \o y
      PROVE  First(t) \in WildScanDict(Asked(u, d, v))
  <2> DEFINE c == m[1]
             a == Tail(m)
  <2>1. c \in Kids(u) /\ a \in Texts /\ s.at = Append(u, c) \o a /\ Append(u, c) \in Texts
    BY <1>4, KidOnTheWay, GoesOn
  <2>2. t # <<>> /\ First(t) = c /\ Tail(t) = a \o y
    <3>1. m \o y # <<>> /\ (m \o y)[1] = m[1] /\ Tail(m \o y) = Tail(m) \o y
      BY <1>4, JoinHolds
    <3> QED  BY <1>4, <3>1 DEF First
  <2> HIDE DEF c, a
  <2>3. ASSUME d # Ast  PROVE LookupFrom(Append(u, c), v)
    <3>1. Tail(t) = v
      BY <2>2, <2>3, Zenon DEF Fits
    <3> DEFINE node == Append(u, c)
    <3>2. node \in Texts /\ s.at = node \o a
      BY <2>1
    <3> HIDE DEF node
    <3>3. LookupFrom(node, a \o y)
      BY <1>1, <1>2, <2>1, <3>2, LookupFinds
    <3>4. LookupFrom(node, v)
      BY <2>2, <3>1, <3>3, Zenon
    <3> QED  BY <3>4 DEF node
  <2> QED  BY <2>1, <2>2, <2>3, KidOffered
<1>5. TwoWays(s.at, y, u, t)
  <2>1. s.at \o y = u \o t
    BY <1>2
  <2> QED  BY <1>1, <2>1, JoinedTwice
<1>6. \/ \E m \in Texts : u = s.at \o m /\ y = m \o t
      \/ \E m \in Texts : m # <<>> /\ s.at = u \o m /\ t = m \o y
  BY <1>5, Zenon DEF TwoWays
<1> QED  BY <1>3, <1>4, <1>6

-------------------------------------------------------------------------------
(* What CheckHelp offers is true. *)

(* The stem s has a word with y behind its node. *)
HasWord(s, y) == \E w \in WordsOf(s) : w.text = s.at \o y

(* A stem without a postfix has a word for an ending it may have. *)
LEMMA EndingMakes ==
  ASSUME NEW s \in Stems, s.entry.post = <<>>, ~Mixes(s.entry),
         NEW x \in s.entry.endings, Allowed(s.entry, x, AnyLevel)
  PROVE  HasWord(s, x.text)
<1> DEFINE e == s.entry
           r == [text |-> <<>>, levels |-> 1 .. 3]
<1>1. Flective(e) /\ r \in Alternations(e)
  BY DEF Flective, Alternations
<1>2. x.text \in Texts
  BY PartsTame
<1>3. x.text = r.text \o (x.text \o e.post)
  <2>1. x.text \o <<>> = x.text /\ <<>> \o x.text = x.text
    BY <1>2, JoinHolds
  <2> QED  BY <2>1
<1>4. Rest(e, x.form, x.text)
  <2>1. Allowed(e, x, r.levels)
    BY DEF AnyLevel
  <2> QED  BY <1>1, <1>3, <2>1, Zenon DEF Rest
<1>5. [text |-> s.at \o x.text, form |-> x.form] \in WordsOf(s)
  BY <1>1, <1>4, RestIsWord
<1> QED  BY <1>5 DEF HasWord

(* The same for an alternation with an ending. *)
LEMMA RowMakes ==
  ASSUME NEW s \in Stems, s.entry.post = <<>>, Mixes(s.entry), NEW i \in DOMAIN s.entry.mix,
         NEW x \in s.entry.endings, Allowed(s.entry, x, s.entry.mix[i].levels)
  PROVE  HasWord(s, s.entry.mix[i].text \o x.text)
<1> DEFINE e == s.entry
           r == e.mix[i]
<1>1. Flective(e) /\ r \in Alternations(e)
  BY DEF Flective, Alternations
<1>2. x.text \in Texts
  BY PartsTame
<1>3. r.text \o x.text = r.text \o (x.text \o e.post)
  <2>1. x.text \o <<>> = x.text
    BY <1>2, JoinHolds
  <2> QED  BY <2>1
<1>4. Rest(e, x.form, r.text \o x.text)
  BY <1>1, <1>3, Zenon DEF Rest
<1>5. [text |-> s.at \o (r.text \o x.text), form |-> x.form] \in WordsOf(s)
  BY <1>1, <1>4, RestIsWord
<1> QED  BY <1>5 DEF HasWord

(* The same for a stem that does not inflect. *)
LEMMA FixedMakes ==
  ASSUME NEW s \in Stems, s.entry.post = <<>>, ~Flective(s.entry)
  PROVE  HasWord(s, <<>>)
<1>1. WordsOf(s) = {[text |-> s.at \o <<>>, form |-> NonFlective]}
  BY DEF WordsOf
<1> QED  BY <1>1 DEF HasWord

(* What a stem without a postfix is read with makes a word. *)
LEMMA ReadsSound ==
  ASSUME NEW s \in Stems, s.entry.post = <<>>, NEW rest \in Texts, Reads(s.entry, rest)
  PROVE  HasWord(s, rest)
<1> DEFINE e == s.entry
           flex == SubSeq(rest, 1, Len(rest) - Len(e.post))
<1>1. flex = rest
  <2>1. SubSeq(rest, 1, Len(rest) - Len(<<>>)) = rest
    BY NoPost
  <2> QED  BY <2>1
<1>2. IF ~Flective(e) THEN flex = <<>>
      ELSE IF ~Mixes(e) THEN GramFound(e, flex, AnyLevel)
      ELSE \E i \in DOMAIN e.mix :
             /\ \A j \in 1 .. i : ~Before(rest, e.mix[j].text)
             /\ IsPrefix(e.mix[i].text, rest)
             /\ GramFound(e, Skip(rest, Len(e.mix[i].text)), e.mix[i].levels)
  BY Zenon DEF Reads
<1> HIDE DEF flex
<1>3. CASE ~Flective(e)
  <2>1. rest = <<>>
    BY <1>1, <1>2, <1>3, Zenon
  <2> QED  BY <1>3, <2>1, FixedMakes
<1>4. CASE Flective(e) /\ ~Mixes(e)
  <2>1. GramFound(e, rest, AnyLevel)
    BY <1>1, <1>2, <1>4, Zenon
  <2>2. PICK x \in e.endings : x.text = rest /\ Allowed(e, x, AnyLevel)
    BY <2>1, Zenon DEF GramFound
  <2>3. HasWord(s, x.text)
    BY <1>4, <2>2, EndingMakes
  <2> QED  BY <2>2, <2>3, Zenon
<1>5. CASE Mixes(e)
  <2>1. PICK i \in DOMAIN e.mix :
          /\ IsPrefix(e.mix[i].text, rest)
          /\ GramFound(e, Skip(rest, Len(e.mix[i].text)), e.mix[i].levels)
    <3>1. Flective(e)
      BY <1>5 DEF Mixes
    <3> QED  BY <1>2, <1>5, <3>1, Zenon
  <2>2. PICK x \in e.endings : x.text = Skip(rest, Len(e.mix[i].text)) /\ Allowed(e, x, e.mix[i].levels)
    BY <2>1, Zenon DEF GramFound
  <2>3. rest = e.mix[i].text \o x.text
    <3> DEFINE row == e.mix[i].text
    <3>1. row \in Texts
      <4>1. e.mix[i] \in Alternations(e)
        BY <1>5 DEF Alternations
      <4> QED  BY <4>1, PartsTame
    <3>2. row \in Seq(1 .. 255) /\ rest \in Seq(1 .. 255) /\ IsPrefix(row, rest)
      BY <2>1, <3>1, TextLetters
    <3> HIDE DEF row
    <3>3. rest = row \o Skip(rest, Len(row))
      BY <3>2, PrefixSplits DEF Skip
    <3> QED  BY <2>2, <3>3, Zenon DEF row
  <2>4. HasWord(s, e.mix[i].text \o x.text)
    BY <1>5, <2>2, RowMakes
  <2> QED  BY <2>3, <2>4, Zenon
<1> QED  BY <1>3, <1>4, <1>5

(* The lookup finds words only. *)
LEMMA LookupSound ==
  ASSUME DictOK, \A s \in dict : ~Posted(s), NEW node \in Texts, NEW str \in Texts, LookupFrom(node, str)
  PROVE  \E s \in dict : \E y \in Texts : HasWord(s, y) /\ s.at \o y = node \o str
<1>1. PICK n \in 0 .. Len(str) : ListLookup(List(node \o SubSeq(str, 1, n)), Skip(str, n))
  BY DEF LookupFrom
<1> DEFINE a == SubSeq(str, 1, n)
           y == Skip(str, n)
<1>2. a \in Texts /\ y \in Texts /\ str = a \o y
  BY SkipHolds
<1>3. ListLookup(List(node \o a), y)
  BY <1>1
<1> HIDE DEF a, y
<1> DEFINE m == node \o a
           l == List(m)
<1>4. m \in Texts
  BY <1>2, JoinHolds
<1>5. (node \o a) \o y = node \o (a \o y)
  BY <1>2, JoinThrice
<1>6. m \o y = node \o str
  BY <1>2, <1>5
<1> HIDE DEF m
<1>7. PICK i \in DOMAIN l : Reads(l[i], y)
  BY <1>3 DEF ListLookup, m
<1>8. l[i] \in EntriesAt(m)
  BY <1>4, <1>7, ListHolds
<1> HIDE DEF l
<1>9. PICK s \in dict : s.at = m /\ s.entry = l[i]
  BY <1>8 DEF EntriesAt
<1>10. s \in Stems /\ s.entry.post = <<>> /\ Reads(s.entry, y)
  BY <1>7, <1>9, StemHolds DEF Posted
<1>11. HasWord(s, y)
  BY <1>2, <1>10, ReadsSound
<1> QED  BY <1>2, <1>6, <1>9, <1>11

(* z begins with u and goes on with k. *)
GoesTo(z, u, k) == \E t \in Texts : z = u \o t /\ First(t) = k

(* A text through a child goes on with the child's letter. *)
LEMMA ThroughKid ==
  ASSUME NEW u \in Texts, NEW k \in 1 .. 255, NEW y \in Texts
  PROVE  GoesTo(Append(u, k) \o y, u, k)
<1>1. PICK x \in Texts : Append(u, k) \o y = u \o x /\ x # <<>> /\ x[1] = k /\ Tail(x) = y
  BY KidJoin
<1>2. First(x) = k
  BY <1>1 DEF First
<1> QED  BY <1>1, <1>2 DEF GoesTo

(* The same behind other letters. *)
LEMMA FurtherOn ==
  ASSUME NEW a \in Texts, NEW m \in Texts, NEW y, NEW k, GoesTo(y, m, k)
  PROVE  GoesTo(a \o y, a \o m, k)
<1>1. PICK t \in Texts : y = m \o t /\ First(t) = k
  BY DEF GoesTo
<1>2. (a \o m) \o t = a \o (m \o t)
  BY JoinThrice
<1> QED  BY <1>1, <1>2 DEF GoesTo

(* A table offers what some ending has there; for an asterisk if the stem may *)
(* have any of its endings.                                                   *)
LEMMA FlexTrue ==
  ASSUME NEW e \in StemEntry, NEW u \in Texts, ~WildMask(u), NEW d \in {Ast, Quest}, NEW v \in Texts, NEW levels,
         d = Ast => levels = AnyLevel /\ ~e.multiple,
         NEW c \in WildScanFlex(Asked(u, d, v), e, levels)
  PROVE  \E x \in e.endings : Allowed(e, x, levels) /\ GoesTo(x.text, u, c)
<1> DEFINE p == Asked(u, d, v)
           n == WildAt(p)
<1>0. \A x \in e.endings : x.text \in Texts /\ x.level \in 1 .. 3
  BY EntryHolds
<1>1. SubSeq(p, 1, n - 1) = u /\ p[n] = d /\ Skip(p, n) = v
  BY AskedHolds
<1>2. WildScanFlex(p, e, levels) =
        {k \in FlexKids(e, u) : d = Ast \/ GramFound(e, Append(u, k) \o v, levels)}
          \cup (IF Len(p) = n /\ GramFound(e, u, levels) THEN {Nul} ELSE {})
  BY <1>1, Zenon DEF WildScanFlex
<1> HIDE DEF p, n
<1>3. \/ c \in FlexKids(e, u) /\ (d = Ast \/ GramFound(e, Append(u, c) \o v, levels))
      \/ c = Nul /\ GramFound(e, u, levels)
  BY <1>2 DEF p
<1>4. CASE c = Nul /\ GramFound(e, u, levels)
  <2>1. PICK x \in e.endings : x.text = u /\ Allowed(e, x, levels)
    BY <1>4 DEF GramFound
  <2>2. u \o <<>> = u /\ <<>> \in Texts /\ First(<<>>) = Nul
    <3>1. u \o <<>> = u /\ <<>> \in Texts
      BY JoinHolds
    <3> QED  BY <3>1 DEF First, Nul
  <2>3. x.text = u \o <<>>
    BY <2>1, <2>2
  <2>4. GoesTo(x.text, u, c)
    BY <1>4, <2>2, <2>3 DEF GoesTo
  <2> QED  BY <2>1, <2>4
<1>5. ASSUME c \in FlexKids(e, u)
      PROVE  \E x \in e.endings : \E t \in Texts : t # <<>> /\ x.text = u \o t /\ First(t) = c /\ c \in 1 .. 255
  <2>1. PICK x \in e.endings : IsStrictPrefix(u, x.text) /\ c = x.text[Len(u) + 1]
    BY <1>5 DEF FlexKids
  <2> DEFINE z == x.text
             t == Skip(z, Len(u))
  <2>2. z \in Texts /\ IsPrefix(u, z) /\ IsStrictPrefix(u, z) /\ c = z[Len(u) + 1]
    BY <1>0, <2>1 DEF IsStrictPrefix
  <2> HIDE DEF z
  <2>3. t \in Texts /\ z = u \o t
    <3>1. u \in Seq(1 .. 255) /\ z \in Seq(1 .. 255)
      BY <2>2, TextLetters
    <3> QED  BY <2>2, <3>1, PrefixSplits DEF Skip, Texts
  <2> HIDE DEF t
  <2>4. t # <<>>
    <3>1. t = <<>> => u \o t = u
      BY JoinHolds
    <3> QED  BY <2>2, <2>3, <3>1 DEF IsStrictPrefix
  <2>5. (u \o t)[Len(u) + 1] = t[1]
    BY <2>3, <2>4, JoinSplit
  <2>6. First(t) = c /\ c \in 1 .. 255
    BY <2>2, <2>3, <2>4, <2>5, FirstLetter
  <2> QED  BY <2>3, <2>4, <2>6 DEF z
<1>6. CASE c \in FlexKids(e, u) /\ d = Ast
  <2>1. PICK x \in e.endings : \E t \in Texts : x.text = u \o t /\ First(t) = c
    BY <1>5, <1>6
  <2>2. Allowed(e, x, levels)
    BY <1>0, <1>6 DEF Allowed, AnyLevel
  <2>3. GoesTo(x.text, u, c)
    BY <2>1 DEF GoesTo
  <2> QED  BY <2>2, <2>3
<1>7. CASE c \in FlexKids(e, u) /\ GramFound(e, Append(u, c) \o v, levels)
  <2>1. PICK x \in e.endings : x.text = Append(u, c) \o v /\ Allowed(e, x, levels)
    BY <1>7 DEF GramFound
  <2>2. c \in 1 .. 255
    BY <1>5, <1>7
  <2>3. GoesTo(Append(u, c) \o v, u, c)
    BY <2>2, ThroughKid, Zenon
  <2>4. GoesTo(x.text, u, c)
    BY <2>1, <2>3, Zenon
  <2> QED  BY <2>1, <2>4, Zenon
<1> QED  BY <1>3, <1>4, <1>6, <1>7

(* A row of alternations offers, for a question mark, what it has there. *)
LEMMA RowTrue ==
  ASSUME NEW e \in StemEntry, e.post = <<>>, NEW u \in Texts, ~WildMask(u), NEW v \in Texts,
         NEW row, row.text \in Texts, ~WildMask(row.text),
         NEW c \in WildScanRow(Asked(u, Quest, v), e, row)
  PROVE  \E x \in e.endings : Allowed(e, x, row.levels) /\ GoesTo(row.text \o x.text, u, c)
<1> DEFINE p == Asked(u, Quest, v)
           q == <<Quest>> \o v
           k == Common(row.text, p)
           a == row.text
<1>0. \A x \in e.endings : x.text \in Texts
  BY EntryHolds
<1>1. /\ q \in Texts /\ q # <<>> /\ q[1] = Quest /\ Wild(Quest) /\ p = u \o q
      /\ p \in Texts /\ WildMask(p) /\ Quest # Ast
  <2>1. Quest \in {Ast, Quest}
    OBVIOUS
  <2> QED  BY <2>1, WildJoin, AskedHolds DEF Asked, Quest, Ast
<1>2. PICK uu \in Texts, s \in Texts, r \in Texts :
        /\ s = Skip(p, k) /\ r = Skip(row.text, k)
        /\ p = uu \o s /\ row.text = uu \o r /\ ~WildMask(uu) /\ ~WildMask(r)
  <2> HIDE DEF p
  <2>1. a \in Texts /\ ~WildMask(a) /\ p \in Texts
    BY <1>1
  <2> HIDE DEF a
  <2>2. \E x, s, r \in Texts :
           /\ s = Skip(p, Common(a, p)) /\ r = Skip(a, Common(a, p))
           /\ p = x \o s /\ a = x \o r /\ ~WildMask(x) /\ ~WildMask(r)
           /\ Len(s) <= Len(p) /\ Len(r) <= Len(a) /\ Len(x) = Common(a, p)
           /\ r # <<>> /\ s # <<>> => r[1] # s[1]
    BY <2>1, SharedSplits, Zenon
  <2> QED  BY <2>2, Zenon DEF a
<1>3. WildScanRow(p, e, row) =
        IF r = <<>> THEN WildScanFlex(s, e, row.levels)
        ELSE IF s[1] = Ast THEN {r[1]}
        ELSE {b \in {r[1]} :
                /\ s[1] = Quest
                /\ \E z \in WithoutPost(s, e.post) :
                     /\ IsPrefix(Tail(r), Tail(z))
                     /\ GramFound(e, Skip(z, Len(r)), row.levels)}
  BY <1>2, Zenon DEF WildScanRow
<1>4. PICK m \in Texts : u = uu \o m /\ s = m \o q
  <2>1. TwoWays(uu, s, u, q)
    <3>1. uu \o s = u \o q
      BY <1>1, <1>2
    <3> HIDE DEF q
    <3> QED  BY <1>1, <3>1, JoinedTwice
  <2>2. ASSUME NEW m \in Texts, m # <<>>, uu = u \o m, q = m \o s  PROVE FALSE
    <3>1. Len(u) \in 0 .. Len(uu) /\ Skip(uu, Len(u)) = m
      BY <2>2, JoinSplit
    <3>2. ~WildMask(m)
      BY <1>2, <3>1, NoWildParts
    <3>3. m[1] # Quest
      BY <2>2, <3>2, NoWildTail
    <3>4. (m \o s)[1] = m[1]
      BY <2>2, JoinHolds
    <3> HIDE DEF q
    <3> QED  BY <1>1, <2>2, <3>3, <3>4
  <2>3. \/ \E m \in Texts : u = uu \o m /\ s = m \o q
        \/ \E m \in Texts : m # <<>> /\ uu = u \o m /\ q = m \o s
    BY <2>1, Zenon DEF TwoWays
  <2> HIDE DEF q
  <2> QED  BY <2>2, <2>3
<1>5. ~WildMask(m)
  <2>1. Len(uu) \in 0 .. Len(u) /\ Skip(u, Len(uu)) = m
    BY <1>4, JoinSplit
  <2>2. ~WildMask(Skip(u, Len(uu)))
    BY <2>1, NoWildParts
  <2> QED  BY <2>1, <2>2
<1>6. c \in WildScanRow(p, e, row)
  OBVIOUS
<1>7. CASE r = <<>>
  <2>1. a = uu
    BY <1>2, <1>7, JoinHolds
  <2>2. s = Asked(m, Quest, v)
    BY <1>4 DEF Asked
  <2>3. c \in WildScanFlex(Asked(m, Quest, v), e, row.levels)
    <3> HIDE DEF p, q, k
    <3> QED  BY <1>3, <1>6, <1>7, <2>2
  <2>4. Quest \in {Ast, Quest} /\ Quest # Ast
    BY <1>1
  <2>5. PICK x \in e.endings : Allowed(e, x, row.levels) /\ GoesTo(x.text, m, c)
    <3> DEFINE d == Quest
    <3>1. d \in {Ast, Quest} /\ d # Ast /\ c \in WildScanFlex(Asked(m, d, v), e, row.levels)
      BY <2>3, <2>4
    <3> HIDE DEF d
    <3> QED  BY <1>5, <3>1, FlexTrue
  <2>6. GoesTo(uu \o x.text, uu \o m, c)
    BY <2>5, FurtherOn, Zenon
  <2>7. GoesTo(row.text \o x.text, u, c)
    BY <1>4, <2>1, <2>6, Zenon
  <2> QED  BY <2>5, <2>7, Zenon
<1>8. CASE r # <<>>
  <2>1. s[1] # Ast
    <3>1. CASE m = <<>>
      <4>1. <<>> \o q = q
        BY <1>1, JoinHolds
      <4>2. s = q
        BY <1>4, <3>1, <4>1
      <4> HIDE DEF q
      <4> QED  BY <1>1, <4>2
    <3>2. CASE m # <<>>
      <4>1. (m \o q)[1] = m[1]
        BY <1>1, <3>2, JoinHolds
      <4>2. m[1] # Ast
        BY <1>5, <3>2, NoWildTail
      <4> HIDE DEF q
      <4> QED  BY <1>4, <4>1, <4>2
    <3> QED  BY <3>1, <3>2
  <2>2. /\ c = r[1] /\ s[1] = Quest
        /\ \E z \in WithoutPost(s, e.post) : GramFound(e, Skip(z, Len(r)), row.levels)
    <3>1. c \in {b \in {r[1]} :
                  /\ s[1] = Quest
                  /\ \E z \in WithoutPost(s, e.post) :
                       /\ IsPrefix(Tail(r), Tail(z))
                       /\ GramFound(e, Skip(z, Len(r)), row.levels)}
      BY <1>3, <1>6, <1>8, <2>1, Zenon
    <3> HIDE DEF p, q, k
    <3> QED  BY <3>1
  <2>3. m = <<>>
    <3> SUFFICES ASSUME m # <<>>  PROVE FALSE
      OBVIOUS
    <3>1. (m \o q)[1] = m[1]
      BY <1>1, JoinHolds
    <3>2. m[1] # Quest
      BY <1>5, NoWildTail
    <3> HIDE DEF q
    <3> QED  BY <1>4, <2>2, <3>1, <3>2
  <2>4. u = uu
    BY <1>4, <2>3, JoinHolds
  <2>5. PICK x \in e.endings : Allowed(e, x, row.levels)
    BY <2>2 DEF GramFound
  <2> DEFINE t == r \o x.text
  <2>6. t \in Texts /\ First(t) = c
    <3>1. r \o x.text \in Texts /\ r \o x.text # <<>> /\ (r \o x.text)[1] = r[1]
      BY <1>0, <1>8, JoinHolds
    <3> QED  BY <2>2, <3>1 DEF First
  <2>7. row.text \o x.text = u \o t
    <3>1. (uu \o r) \o x.text = uu \o (r \o x.text)
      BY <1>0, JoinThrice
    <3> QED  BY <1>2, <2>4, <3>1
  <2> HIDE DEF t
  <2>8. GoesTo(row.text \o x.text, u, c)
    BY <2>6, <2>7 DEF GoesTo
  <2> QED  BY <2>5, <2>8
<1> QED  BY <1>7, <1>8

(* A stem offers what one of its words has there. *)
LEMMA StemTrue ==
  ASSUME NEW s \in Stems, s.entry.post = <<>>, NEW u \in Texts, ~WildMask(u), NEW d \in {Ast, Quest}, NEW v \in Texts,
         d = Ast => ~Mixes(s.entry) /\ ~s.entry.multiple,
         NEW c \in WildScanStem(Asked(u, d, v), s.entry)
  PROVE  \E y \in Texts : HasWord(s, y) /\ GoesTo(y, u, c)
<1> DEFINE e == s.entry
           p == Asked(u, d, v)
<1>1. e \in StemEntry /\ \A x \in e.endings : x.text \in Texts
  BY PartsTame
<1>2. WildScanStem(p, e) =
        IF ~Flective(e) THEN IF p[1] = Ast \/ p = <<Quest>> THEN {Nul} ELSE {}
        ELSE IF ~Mixes(e) THEN WildScanFlex(p, e, AnyLevel)
        ELSE UNION {WildScanRow(p, e, e.mix[i]) :
                      i \in {j \in DOMAIN e.mix : \A k \in 1 .. j - 1 : ~RowStops(p, e.mix[k])}}
  BY Zenon DEF WildScanStem
<1>3. c \in WildScanStem(p, e)
  OBVIOUS
<1>4. CASE ~Flective(e)
  <2>1. c \in IF p[1] = Ast \/ p = <<Quest>> THEN {Nul} ELSE {}
    BY <1>2, <1>3, <1>4, Zenon
  <2>2. c = Nul /\ (p[1] = Ast \/ p[1] = Quest)
    <3> HIDE DEF p
    <3> QED  BY <2>1
  <2>3. u = <<>>
    <3> DEFINE q == <<d>> \o v
    <3>1. p = u \o q /\ q \in Texts
      BY WildJoin DEF Asked
    <3>2. ASSUME u # <<>>  PROVE FALSE
      <4> HIDE DEF q, p
      <4>1. (u \o q)[1] = u[1]
        BY <3>1, <3>2, JoinHolds
      <4>2. u[1] # Ast /\ u[1] # Quest
        BY <3>2, NoWildTail
      <4> QED  BY <2>2, <3>1, <4>1, <4>2
    <3> QED  BY <3>2
  <2>4. HasWord(s, <<>>)
    BY <1>4, FixedMakes
  <2>5. <<>> \in Texts /\ <<>> = <<>> \o <<>> /\ First(<<>>) = Nul
    <3>1. <<>> \in Texts
      BY EmptySeq DEF Texts
    <3>2. <<>> \o <<>> = <<>>
      BY <3>1, JoinHolds
    <3> QED  BY <3>1, <3>2 DEF First, Nul
  <2>6. GoesTo(<<>>, u, c)
    BY <2>2, <2>3, <2>5 DEF GoesTo
  <2> QED  BY <2>4, <2>5, <2>6
<1>5. CASE Flective(e) /\ ~Mixes(e)
  <2>1. c \in WildScanFlex(p, e, AnyLevel)
    <3>1. WildScanStem(p, e) = WildScanFlex(p, e, AnyLevel)
      BY <1>2, <1>5, Zenon
    <3> HIDE DEF p, e
    <3> QED  BY <1>3, <3>1
  <2>2. PICK x \in e.endings : Allowed(e, x, AnyLevel) /\ GoesTo(x.text, u, c)
    <3>1. d = Ast => AnyLevel = AnyLevel /\ ~e.multiple
      OBVIOUS
    <3> HIDE DEF e
    <3> QED  BY <1>1, <2>1, <3>1, FlexTrue
  <2>3. HasWord(s, x.text)
    BY <1>5, <2>2, EndingMakes
  <2> QED  BY <1>1, <2>2, <2>3
<1>6. CASE Mixes(e)
  <2>1. d = Quest
    BY <1>6
  <2>2. PICK i \in DOMAIN e.mix : c \in WildScanRow(p, e, e.mix[i])
    <3>1. Flective(e)
      BY <1>6 DEF Mixes
    <3>2. WildScanStem(p, e) =
            UNION {WildScanRow(p, e, e.mix[i]) :
                      i \in {j \in DOMAIN e.mix : \A k \in 1 .. j - 1 : ~RowStops(p, e.mix[k])}}
      BY <1>2, <1>6, <3>1, Zenon
    <3> HIDE DEF p, e
    <3> QED  BY <1>3, <3>2
  <2> DEFINE row == e.mix[i]
  <2>3. row.text \in Texts /\ ~WildMask(row.text)
    <3>1. row \in Alternations(e)
      BY <1>6 DEF Alternations
    <3> QED  BY <3>1, PartsTame
  <2>4. c \in WildScanRow(Asked(u, Quest, v), e, row)
    BY <2>1, <2>2
  <2>5. PICK x \in e.endings : Allowed(e, x, row.levels) /\ GoesTo(row.text \o x.text, u, c)
    <3>1. e.post = <<>>
      OBVIOUS
    <3> HIDE DEF row, e, p
    <3> QED  BY <1>1, <2>3, <2>4, <3>1, RowTrue
  <2>6. HasWord(s, row.text \o x.text)
    BY <1>6, <2>5, RowMakes
  <2>7. row.text \o x.text \in Texts
    BY <1>1, <2>3, <2>5, JoinHolds
  <2> QED  BY <2>5, <2>6, <2>7
<1> QED  BY <1>4, <1>5, <1>6

(* Some stem has a word with u at the beginning and the character c behind it. *)
Heard(u, c) == \E s \in dict : \E w \in WordsOf(s) : GoesTo(w.text, u, c)

(* What is behind the node of a stem makes it so. *)
LEMMA HeardOf ==
  ASSUME NEW s \in dict, NEW y, HasWord(s, y), NEW u, NEW c, GoesTo(s.at \o y, u, c)
  PROVE  Heard(u, c)
<1>1. PICK w \in WordsOf(s) : w.text = s.at \o y
  BY DEF HasWord
<1>2. GoesTo(w.text, u, c)
  BY <1>1
<1> QED  BY <1>2 DEF Heard

(* A child found by looking up what is behind the wildcard. *)
LEMMA LookedUpTrue ==
  ASSUME DictOK, \A s \in dict : ~Posted(s), NEW u \in Texts, NEW v \in Texts,
         NEW c \in Kids(u), LookupFrom(Append(u, c), v)
  PROVE  Heard(u, c)
<1>1. c \in 1 .. 255 /\ Append(u, c) \in Texts
  BY KidsHold
<1>2. PICK s \in dict : \E y \in Texts : HasWord(s, y) /\ s.at \o y = Append(u, c) \o v
  BY <1>1, LookupSound, Zenon
<1>3. PICK y \in Texts : HasWord(s, y) /\ s.at \o y = Append(u, c) \o v
  BY <1>2
<1>4. GoesTo(Append(u, c) \o v, u, c)
  BY <1>1, ThroughKid
<1>5. GoesTo(s.at \o y, u, c)
  BY <1>3, <1>4, Zenon
<1> QED  BY <1>3, <1>5, HeardOf

(* A child, when every stem has all the endings of its table. *)
LEMMA EveryKidTrue ==
  ASSUME DictOK, \A s \in dict : ~Posted(s) /\ ~Mixes(s.entry) /\ ~s.entry.multiple,
         NEW u \in Texts, NEW c \in Kids(u)
  PROVE  Heard(u, c)
<1>1. c \in 1 .. 255 /\ Append(u, c) \in Texts
  BY KidsHold
<1>2. PICK s \in dict : IsPrefix(Append(u, c), s.at)
  BY KidsHold
<1>3. s \in Stems /\ s.at \in Texts /\ s.entry.post = <<>> /\ ~Mixes(s.entry) /\ ~s.entry.multiple
  BY StemHolds DEF Posted
<1>4. PICK y \in Texts : HasWord(s, y)
  <2>1. CASE Flective(s.entry)
    <3>1. PICK x \in s.entry.endings : TRUE
      BY <2>1 DEF Flective
    <3>2. x.text \in Texts /\ x.level \in 1 .. 3
      BY <1>3, EntryHolds, PartsTame
    <3>3. Allowed(s.entry, x, AnyLevel)
      BY <1>3, <3>2 DEF Allowed, AnyLevel
    <3> QED  BY <1>3, <3>2, <3>3, EndingMakes
  <2>2. CASE ~Flective(s.entry)
    <3>1. <<>> \in Texts
      BY EmptySeq DEF Texts
    <3> QED  BY <1>3, <2>2, <3>1, FixedMakes
  <2> QED  BY <2>1, <2>2
<1> DEFINE m == Append(u, c)
<1>5. m \in Texts /\ IsPrefix(m, s.at)
  BY <1>1, <1>2
<1> HIDE DEF m
<1>6. PICK b \in Texts : s.at = m \o b
  <2>1. m \in Seq(1 .. 255) /\ s.at \in Seq(1 .. 255)
    BY <1>3, <1>5, TextLetters
  <2> QED  BY <1>5, <2>1, PrefixSplits DEF Texts
<1>7. (m \o b) \o y = m \o (b \o y) /\ b \o y \in Texts
  <2>1. (m \o b) \o y = m \o (b \o y)
    BY <1>5, JoinThrice
  <2> QED  BY <2>1, JoinHolds
<1>8. GoesTo(m \o (b \o y), u, c)
  <2> DEFINE z == b \o y
  <2>1. z \in Texts
    BY <1>7
  <2> HIDE DEF z
  <2>2. GoesTo(Append(u, c) \o z, u, c)
    BY <1>1, <2>1, ThroughKid
  <2> QED  BY <2>2 DEF m, z
<1>9. GoesTo(s.at \o y, u, c)
  BY <1>6, <1>7, <1>8, Zenon
<1> QED  BY <1>4, <1>9, HeardOf

(* No character is offered that no word has there. *)
LEMMA HelpTrue ==
  ASSUME DictOK, \A s \in dict : ~Posted(s),
         NEW u \in Texts, ~WildMask(u), NEW d \in {Ast, Quest}, NEW v \in Texts,
         d = Ast => \A s \in dict : ~Mixes(s.entry) /\ ~s.entry.multiple,
         NEW c \in WildScanDict(Asked(u, d, v))
  PROVE  Heard(u, c)
<1> DEFINE p == Asked(u, d, v)
           n == WildAt(p)
<1>1. /\ SubSeq(p, 1, n - 1) = u /\ p[n] = d /\ Skip(p, n) = v
      /\ n = Len(u) + 1 /\ Len(u) \in Nat
  BY AskedHolds
<1>2. WildScanDict(p) =
        {k \in Kids(u) : d = Ast \/ LookupFrom(Append(u, k), v)}
          \cup UNION {WildScanList(Skip(p, k), List(SubSeq(p, 1, k))) : k \in 0 .. n - 1}
  BY <1>1, Zenon DEF WildScanDict
<1>3. n - 1 = Len(u)
  <2> HIDE DEF n
  <2> QED  BY <1>1
<1> HIDE DEF p, n
<1>4. \/ c \in Kids(u) /\ (d = Ast \/ LookupFrom(Append(u, c), v))
      \/ \E k \in 0 .. Len(u) : c \in WildScanList(Skip(p, k), List(SubSeq(p, 1, k)))
  BY <1>2, <1>3 DEF p
<1>5. CASE c \in Kids(u) /\ d = Ast
  BY <1>5, EveryKidTrue
<1>6. CASE c \in Kids(u) /\ LookupFrom(Append(u, c), v)
  BY <1>6, LookedUpTrue
<1>7. ASSUME NEW k \in 0 .. Len(u), c \in WildScanList(Skip(p, k), List(SubSeq(p, 1, k)))
      PROVE  Heard(u, c)
  <2> DEFINE a == SubSeq(u, 1, k)
             b == Skip(u, k)
  <2>1. a \in Texts /\ b \in Texts /\ u = a \o b /\ Len(a) = k
    BY SkipHolds
  <2>2. ~WildMask(b)
    BY NoWildParts
  <2> HIDE DEF a, b
  <2>3. SubSeq(p, 1, k) = a /\ Skip(p, k) = Asked(b, d, v)
    <3>1. Without(Asked(a \o b, d, v), a, Asked(b, d, v))
      BY <2>1, AskedSplits
    <3> QED  BY <2>1, <3>1, Zenon DEF Without, p
  <2>4. c \in WildScanList(Asked(b, d, v), List(a))
    BY <1>7, <2>3
  <2> DEFINE l == List(a)
  <2>5. PICK i \in DOMAIN l : c \in WildScanStem(Asked(b, d, v), l[i])
    <3> HIDE DEF l
    <3> QED  BY <2>4 DEF WildScanList, l
  <2>6. l[i] \in EntriesAt(a)
    BY <2>1, <2>5, ListHolds
  <2> HIDE DEF l
  <2>7. PICK s \in dict : s.at = a /\ s.entry = l[i]
    BY <2>6 DEF EntriesAt
  <2>8. s \in Stems /\ s.entry.post = <<>> /\ c \in WildScanStem(Asked(b, d, v), s.entry)
    BY <2>5, <2>7, StemHolds DEF Posted
  <2>9. d = Ast => ~Mixes(s.entry) /\ ~s.entry.multiple
    OBVIOUS
  <2>10. PICK y \in Texts : HasWord(s, y) /\ GoesTo(y, b, c)
    BY <2>1, <2>2, <2>8, <2>9, StemTrue
  <2>11. GoesTo(a \o y, a \o b, c)
    BY <2>1, <2>10, FurtherOn
  <2>12. GoesTo(s.at \o y, u, c)
    BY <2>1, <2>7, <2>11, Zenon
  <2> QED  BY <2>10, <2>12, HeardOf
<1> QED  BY <1>4, <1>5, <1>6, <1>7

(* The character of a word in the place of the wildcard. *)
LEMMA NextCharIs ==
  ASSUME NEW u \in Texts, NEW t \in Texts, FirstWild = Len(u) + 1
  PROVE  NextChar(u \o t) = First(t) /\ IsPrefix(u, u \o t)
<1> DEFINE w == u \o t
<1>1. Len(w) = Len(u) + Len(t) /\ Len(u) \in Nat /\ Len(t) \in Nat
  BY JoinHolds, TextLetters
<1>2. IsPrefix(u, w) /\ (t # <<>> => w[Len(u) + 1] = t[1])
  BY JoinSplit
<1> HIDE DEF w
<1>3. CASE t = <<>>
  <2>1. Len(t) = 0
    BY <1>3
  <2>2. ~(Len(w) >= FirstWild)
    BY <1>1, <2>1
  <2>3. NextChar(w) = Nul
    BY <2>2, Zenon DEF NextChar
  <2>4. First(t) = Nul
    BY <1>3 DEF First, Nul
  <2> QED  BY <1>2, <2>3, <2>4 DEF w
<1>4. CASE t # <<>>
  <2>1. Len(w) >= FirstWild
    <3>1. 1 \in 1 .. Len(t)
      BY <1>4, FirstLetter
    <3> QED  BY <1>1, <3>1
  <2>2. NextChar(w) = w[FirstWild]
    BY <2>1, Zenon DEF NextChar
  <2>3. First(t) = t[1]
    BY <1>4 DEF First
  <2> QED  BY <1>2, <1>4, <2>2, <2>3 DEF w
<1> QED  BY <1>3, <1>4

(* CheckHelp with one wildcard offers the character of every word that fits,   *)
(* and none that no word has, but for the children told for an asterisk        *)
(* (HelpExact; wildscan.cpp:28-211).                                           *)
THEOREM HelpIsExact == Spec => []HelpExact
<1>1. WildInv => HelpExact
  <2> SUFFICES ASSUME WildInv, HelpGiven
               PROVE  /\ OneWild =>
                           \A s \in {t \in dict : ~Posted(t) /\ ~Hidden(t)} : \A w \in WordsOf(s) :
                             \/ Matches[<<pattern, w.text>>]
                             \/ Matches[<<SubSeq(pattern, 1, FirstWild - 1), w.text>>] /\ FirstWild = Len(pattern)
                             => NextChar(w.text) \in offered
                      /\ \A c \in offered :
                           \/ \E s \in dict : \E w \in WordsOf(s) :
                                 IsPrefix(SubSeq(pattern, 1, FirstWild - 1), w.text) /\ NextChar(w.text) = c
                           \/ \E s \in dict : \/ Posted(s)
                                              \/ (pattern[FirstWild] = Ast /\ (Mixes(s.entry) \/ s.entry.multiple))
    BY Zenon DEF HelpExact
  <2>1. DictOK /\ pattern \in Texts /\ WildMask(pattern) /\ offered = WildScanDict(pattern)
    BY DEF WildInv, HelpGiven
  <2>2. PICK u \in Texts, v \in Texts, d \in {Ast, Quest} :
          /\ pattern = Asked(u, d, v) /\ ~WildMask(u) /\ WildAt(pattern) = Len(u) + 1 /\ pattern[WildAt(pattern)] = d
          /\ u = SubSeq(pattern, 1, WildAt(pattern) - 1) /\ v = Skip(pattern, WildAt(pattern))
    BY <2>1, AskedBy
  <2>3. /\ FirstWild = Len(u) + 1 /\ SubSeq(pattern, 1, FirstWild - 1) = u /\ pattern[FirstWild] = d
        /\ OneWild => ~WildMask(v)
    BY <2>2 DEF FirstWild, OneWild
  <2>4. FirstWild = Len(pattern) => v = <<>>
    <3>1. Len(Asked(u, d, v)) = WildAt(Asked(u, d, v)) <=> v = <<>>
      BY <2>2, AskedHolds
    <3> QED  BY <2>2, <3>1 DEF FirstWild
  <2>5. ASSUME OneWild, NEW s \in dict, ~Posted(s), ~Hidden(s), NEW w \in WordsOf(s),
               \/ Matches[<<pattern, w.text>>]
               \/ Matches[<<SubSeq(pattern, 1, FirstWild - 1), w.text>>] /\ FirstWild = Len(pattern)
        PROVE  NextChar(w.text) \in offered
    <3>1. Matches[<<Asked(u, d, v), w.text>>] \/ (Matches[<<u, w.text>>] /\ v = <<>>)
      BY <2>2, <2>3, <2>4, <2>5
    <3>2. ~WildMask(v)
      BY <2>3, <2>5
    <3>3. w.text \in Texts
      <4>1. s \in Stems /\ s.at \in Texts /\ s.entry.post = <<>>
        BY <2>1, <2>5, StemHolds DEF Posted
      <4>2. PICK y \in Texts : w.text = s.at \o y
        BY <4>1, WordBehind
      <4> QED  BY <4>1, <4>2, JoinHolds
    <3>4. PICK t \in Texts : w.text = u \o t /\ Fits(d, v, t)
      <4> DEFINE z == w.text
      <4>1. z \in Texts /\ (Matches[<<Asked(u, d, v), z>>] \/ (Matches[<<u, z>>] /\ v = <<>>))
        BY <3>1, <3>3
      <4> HIDE DEF z
      <4>2. FitsBehind(u, d, v, z)
        BY <2>2, <3>2, <4>1, FitsThere
      <4> QED  BY <4>2, Zenon DEF z, FitsBehind
    <3>5. First(t) \in offered
      <4>1. First(t) \in WildScanDict(Asked(u, d, v))
        BY <2>1, <2>2, <2>5, <3>4, HelpComplete
      <4> QED  BY <2>1, <2>2, <4>1, Zenon
    <3>6. NextChar(u \o t) = First(t)
      BY <2>3, NextCharIs
    <3> QED  BY <3>4, <3>5, <3>6, Zenon
  <2>6. ASSUME NEW c \in offered,
               ~ \E s \in dict : \/ Posted(s)
                                 \/ (pattern[FirstWild] = Ast /\ (Mixes(s.entry) \/ s.entry.multiple))
        PROVE  \E s \in dict : \E w \in WordsOf(s) :
                 IsPrefix(SubSeq(pattern, 1, FirstWild - 1), w.text) /\ NextChar(w.text) = c
    <3>1. \A s \in dict : ~Posted(s)
      BY <2>6
    <3>2. d = Ast => \A s \in dict : ~Mixes(s.entry) /\ ~s.entry.multiple
      BY <2>3, <2>6
    <3>3. c \in WildScanDict(Asked(u, d, v))
      BY <2>1, <2>2, <2>6
    <3>4. Heard(u, c)
      BY <2>1, <2>2, <3>1, <3>2, <3>3, HelpTrue
    <3>5. PICK s \in dict : \E w \in WordsOf(s) : GoesTo(w.text, u, c)
      BY <3>4 DEF Heard
    <3>6. PICK w \in WordsOf(s) : GoesTo(w.text, u, c)
      BY <3>5
    <3>7. PICK t \in Texts : w.text = u \o t /\ First(t) = c
      BY <3>6 DEF GoesTo
    <3>8. NextChar(u \o t) = First(t) /\ IsPrefix(u, u \o t)
      BY <2>3, NextCharIs
    <3>9. IsPrefix(SubSeq(pattern, 1, FirstWild - 1), w.text) /\ NextChar(w.text) = c
      BY <2>3, <3>7, <3>8, Zenon
    <3> QED  BY <3>9
  <2>7. \A s \in {t \in dict : ~Posted(t) /\ ~Hidden(t)} : s \in dict /\ ~Posted(s) /\ ~Hidden(s)
    OBVIOUS
  <2> QED  BY <2>5, <2>6, <2>7, Zenon
<1> QED  BY <1>1, WildInvAlways, PTL
================================================================================
