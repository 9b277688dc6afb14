---------------------------- MODULE StemListProofs ----------------------------
(***************************************************************************)
(* The list of stems and the reader's way through it for every dictionary, *)
(* every rest of a word and lists of any length: the order the builder     *)
(* keeps, and that the reader, which stops at the first bound or row       *)
(* behind the rest, tells every reading once and no other.                 *)
(***************************************************************************)
EXTENDS StemList, TextLemmas

-------------------------------------------------------------------------------
(* The order of the list. *)

(* The loop of DictReader stops at the first stem that is not before the new one. *)
LEMMA PlaceInList ==
  ASSUME NEW l \in Seq(StemEntry), NEW e \in StemEntry
  PROVE  /\ InsertPlace(l, e) \in 1 .. Len(l) + 1
         /\ \A j \in 1 .. InsertPlace(l, e) - 1 : Less(l[j], e)
         /\ InsertPlace(l, e) <= Len(l) => ~Less(l[InsertPlace(l, e)], e)
<1> DEFINE Stops == {i \in 1 .. Len(l) + 1 : i = Len(l) + 1 \/ ~Less(l[i], e)}
           p == InsertPlace(l, e)
<1>1. Stops \subseteq Nat /\ Len(l) + 1 \in Stops
  OBVIOUS
<1>2. p \in Stops /\ \A i \in Stops : p <= i
  <2>1. p = MinOf(Stops)
    BY DEF InsertPlace
  <2> HIDE DEF Stops, p
  <2> QED  BY <1>1, <2>1, LeastOf
<1>3. p \in 1 .. Len(l) + 1 /\ (p = Len(l) + 1 \/ ~Less(l[p], e))
  BY <1>2
<1> HIDE DEF p
<1>4. \A j \in 1 .. p - 1 : Less(l[j], e)
  <2> SUFFICES ASSUME NEW j \in 1 .. p - 1, ~Less(l[j], e)  PROVE FALSE
    OBVIOUS
  <2>1. j \in Stops
    BY <1>3
  <2> QED  BY <1>2, <1>3, <2>1
<1> QED  BY <1>3, <1>4 DEF p

(* Whatever is before another stem has no smaller greatest bound, and with the *)
(* same one no greater least bound.                                            *)
LEMMA LessByBounds ==
  ASSUME NEW a \in StemEntry, NEW b \in StemEntry
  PROVE  /\ Less(a, b) =>
              ChrMax(a) >= ChrMax(b) /\ (ChrMax(a) = ChrMax(b) => ChrMin(a) <= ChrMin(b))
         /\ ~Less(a, b) =>
              ChrMax(b) >= ChrMax(a) /\ (ChrMax(b) = ChrMax(a) => ChrMin(b) <= ChrMin(a))
<1>1. ChrMax(a) \in Int /\ ChrMax(b) \in Int /\ ChrMin(a) \in Int /\ ChrMin(b) \in Int
  BY BoundsAreCodes
<1>2. Less(a, b) => \/ ChrMax(a) > ChrMax(b)
                    \/ ChrMax(a) = ChrMax(b) /\ (ChrMin(a) < ChrMin(b) \/ ChrMin(a) = ChrMin(b))
  BY Zenon DEF Less
<1>3. ~Less(a, b) => ~(ChrMax(a) > ChrMax(b)) /\ ~(ChrMax(a) = ChrMax(b) /\ ChrMin(a) < ChrMin(b))
  BY Zenon DEF Less
<1> QED  BY <1>1, <1>2, <1>3

(* The stems of the list are entries the builder can make. *)
LEMMA ListOfStems ==
  ASSUME NEW l \in Seq(Entries)
  PROVE  /\ l \in Seq(StemEntry) /\ Len(l) \in Nat /\ DOMAIN l = 1 .. Len(l)
         /\ \A i \in DOMAIN l : l[i] \in Entries /\ l[i] \in StemEntry /\ l[i] \in Range(l)
<1>1. Entries \subseteq StemEntry
  BY StemsAssumption DEF Entries
<1>2. Len(l) \in Nat /\ DOMAIN l = 1 .. Len(l)
  BY LenProperties
<1>3. \A i \in DOMAIN l : l[i] \in Entries /\ l[i] \in Range(l)
  BY <1>2, ElementOfSeq DEF Range
<1> QED  BY <1>1, <1>2, <1>3, SeqMonotonic

(* Inserting at the place found keeps the bounds falling. *)
LEMMA InsertKeepsBounds ==
  ASSUME NEW e \in Entries, list \in Seq(Entries), BoundsFall,
         list' = InsertAt(list, InsertPlace(list, e), e)
  PROVE  list' \in Seq(Entries) /\ Len(list') = Len(list) + 1 /\ BoundsFall'
<1> DEFINE p == InsertPlace(list, e)
           Falls(a, b) == /\ ChrMax(a) >= ChrMax(b)
                          /\ ChrMax(a) = ChrMax(b) => ChrMin(a) <= ChrMin(b)
<1>1. /\ list \in Seq(StemEntry) /\ Len(list) \in Nat /\ DOMAIN list = 1 .. Len(list)
      /\ \A i \in DOMAIN list : list[i] \in StemEntry
      /\ e \in StemEntry
  BY ListOfStems, StemsAssumption DEF Entries
<1>2. /\ p \in 1 .. Len(list) + 1
      /\ \A j \in 1 .. p - 1 : Less(list[j], e)
      /\ p <= Len(list) => ~Less(list[p], e)
  BY <1>1, PlaceInList
<1> HIDE DEF p
<1>3. /\ list' \in Seq(Entries) /\ Len(list') = Len(list) + 1
      /\ \A j \in 1 .. Len(list) + 1 :
           list'[j] = IF j < p THEN list[j] ELSE IF j = p THEN e ELSE list[j - 1]
  <2>1. list' = InsertAt(list, p, e)
    BY DEF p
  <2>2. /\ InsertAt(list, p, e) \in Seq(Entries) /\ Len(InsertAt(list, p, e)) = Len(list) + 1
        /\ \A j \in 1 .. Len(list) + 1 :
             InsertAt(list, p, e)[j] = IF j < p THEN list[j] ELSE IF j = p THEN e ELSE list[j - 1]
    BY <1>2, InsertedIsRight
  <2> QED  BY <2>1, <2>2, Zenon
<1>4. \A a, b \in StemEntry : (Less(a, b) => Falls(a, b)) /\ (~Less(a, b) => Falls(b, a))
  <2> SUFFICES ASSUME NEW a \in StemEntry, NEW b \in StemEntry
               PROVE  (Less(a, b) => Falls(a, b)) /\ (~Less(a, b) => Falls(b, a))
    OBVIOUS
  <2> QED  BY LessByBounds
<1>5. \A a, b, c \in StemEntry : Falls(a, b) /\ Falls(b, c) => Falls(a, c)
  <2> SUFFICES ASSUME NEW a \in StemEntry, NEW b \in StemEntry, NEW c \in StemEntry,
                      Falls(a, b), Falls(b, c)
               PROVE  Falls(a, c)
    OBVIOUS
  <2>1. /\ ChrMax(a) \in Int /\ ChrMax(b) \in Int /\ ChrMax(c) \in Int
        /\ ChrMin(a) \in Int /\ ChrMin(b) \in Int /\ ChrMin(c) \in Int
    BY BoundsAreCodes
  <2> QED  BY <2>1
<1>6. \A i, j \in 1 .. Len(list) : i < j => Falls(list[i], list[j])
  BY <1>1 DEF BoundsFall
<1> HIDE DEF Falls
<1>7. \A j \in 1 .. Len(list) : (j < p => Falls(list[j], e)) /\ (j >= p => Falls(e, list[j]))
  <2> SUFFICES ASSUME NEW j \in 1 .. Len(list)
               PROVE  (j < p => Falls(list[j], e)) /\ (j >= p => Falls(e, list[j]))
    OBVIOUS
  <2>1. CASE j < p
    BY <1>1, <1>2, <1>4, <2>1
  <2>2. CASE j = p
    BY <1>1, <1>2, <1>4, <2>2
  <2>3. CASE j > p
    <3>1. p \in 1 .. Len(list)
      BY <1>2, <2>3
    <3>2. Falls(e, list[p]) /\ Falls(list[p], list[j])
      BY <1>1, <1>2, <1>4, <1>6, <2>3, <3>1
    <3> QED  BY <1>1, <1>5, <2>3, <3>1, <3>2
  <2> QED  BY <1>2, <2>1, <2>2, <2>3
<1>8. \A i, j \in 1 .. Len(list) + 1 : i < j => Falls(list'[i], list'[j])
  <2> SUFFICES ASSUME NEW i \in 1 .. Len(list) + 1, NEW j \in 1 .. Len(list) + 1, i < j
               PROVE  Falls(list'[i], list'[j])
    OBVIOUS
  <2>1. CASE j < p
    <3>1. i \in 1 .. Len(list) /\ j \in 1 .. Len(list) /\ i < p
      BY <1>2, <2>1
    <3>2. list'[i] = list[i] /\ list'[j] = list[j]
      BY <1>3, <2>1, <3>1
    <3> QED  BY <1>6, <3>1, <3>2
  <2>2. CASE j = p
    <3>1. i \in 1 .. Len(list) /\ i < p
      BY <1>2, <2>2
    <3>2. list'[i] = list[i] /\ list'[j] = e
      BY <1>3, <2>2, <3>1
    <3> QED  BY <1>7, <3>1, <3>2
  <2>3. CASE i < p /\ j > p
    <3>1. j - 1 \in 1 .. Len(list) /\ i \in 1 .. Len(list) /\ i < j - 1
      BY <1>2, <2>3
    <3>2. list'[i] = list[i]
      BY <1>3, <2>3
    <3>3. list'[j] = list[j - 1]
      BY <1>2, <1>3, <2>3
    <3> QED  BY <1>6, <3>1, <3>2, <3>3
  <2>4. CASE i = p
    <3>1. j - 1 \in 1 .. Len(list) /\ j - 1 >= p
      BY <1>2, <2>4
    <3>2. list'[i] = e /\ list'[j] = list[j - 1]
      BY <1>3, <2>4, <3>1
    <3> QED  BY <1>7, <3>1, <3>2
  <2>5. CASE i > p
    <3>1. i - 1 \in 1 .. Len(list) /\ j - 1 \in 1 .. Len(list) /\ i - 1 < j - 1 /\ j > p
      BY <1>2, <2>5
    <3>2. list'[i] = list[i - 1]
      BY <1>2, <1>3, <2>5
    <3>3. list'[j] = list[j - 1]
      BY <1>2, <1>3, <2>5
    <3> QED  BY <1>6, <3>1, <3>2, <3>3
  <2> QED  BY <1>2, <2>1, <2>2, <2>3, <2>4, <2>5
<1>9. DOMAIN list' = 1 .. Len(list) + 1
  BY <1>3, LenProperties
<1> QED  BY <1>3, <1>8, <1>9 DEF BoundsFall, Falls

-------------------------------------------------------------------------------
(* The readings of a stem. *)

Reading(e, forms) == [lex |-> e.lex, post |-> e.post, forms |-> forms]

(* Texts of a stem. *)
LEMMA StemTexts ==
  ASSUME NEW e \in StemEntry
  PROVE  /\ e.post \in Texts /\ e.lex \in Nat /\ e.minCap \in 0 .. 2
         /\ \A x \in e.endings : x.text \in Texts /\ x.level \in 1 .. 3
         /\ \A i \in DOMAIN e.mix : e.mix[i].text \in Texts
         /\ \A r \in Alternations(e) : r.text \in Texts
         /\ <<>> \in Texts
<1>1. e.post \in Texts /\ e.lex \in Nat /\ e.minCap \in 0 .. 2
  BY DEF StemEntry
<1>2. \A x \in e.endings : x.text \in Texts /\ x.level \in 1 .. 3
  BY DEF StemEntry, Ending
<1>3. \A i \in DOMAIN e.mix : e.mix[i] \in MixRow
  BY ElementOfSeq, LenProperties DEF StemEntry
<1>4. \A i \in DOMAIN e.mix : e.mix[i].text \in Texts
  BY <1>3 DEF MixRow
<1>5. <<>> \in Texts
  BY EmptySeq DEF Texts
<1>6. \A r \in Alternations(e) : r.text \in Texts
  BY <1>4, <1>5 DEF Alternations
<1> QED  BY <1>1, <1>2, <1>4, <1>5, <1>6

(* Texts put together. *)
LEMMA TextsTogether ==
  ASSUME NEW a \in Texts, NEW b \in Texts
  PROVE  /\ a \o b \in Texts
         /\ a # <<>> => (a \o b)[1] = First(a)
         /\ a = <<>> => a \o b = b
         /\ b = <<>> => a \o b = a
         /\ a \o b = <<>> => a = <<>> /\ b = <<>>
         /\ IsPrefix(a, a \o b) /\ IsSuffix(b, a \o b)
         /\ SubSeq(a \o b, Len(a) + 1, Len(a \o b)) = b
         /\ SubSeq(a \o b, 1, Len(a \o b) - Len(b)) = a
<1>1. a \in Seq(1 .. 255) /\ b \in Seq(1 .. 255)
  BY TextLetters
<1>2. a \o b \in Texts
  BY <1>1, ConcatProperties DEF Texts
<1>3. a # <<>> => (a \o b)[1] = First(a)
  <2> SUFFICES ASSUME a # <<>>  PROVE (a \o b)[1] = First(a)
    OBVIOUS
  <2>1. 1 \in 1 .. Len(a) /\ First(a) = a[1]
    BY FirstLetter
  <2>2. (a \o b)[1] = a[1]
    BY <1>1, <2>1
  <2> QED  BY <2>1, <2>2
<1>4. (a = <<>> => a \o b = b) /\ (b = <<>> => a \o b = a) /\ (a \o b = <<>> => a = <<>> /\ b = <<>>)
  <2>1. a \o <<>> = a /\ <<>> \o b = b
    BY <1>1, ConcatEmptySeq
  <2>2. a \o b = <<>> => a = <<>> /\ b = <<>>
    BY <1>1, ConcatEqualIffEmpty
  <2> QED  BY <2>1, <2>2, Zenon
<1>5. /\ IsPrefix(a, a \o b)
      /\ SubSeq(a \o b, Len(a) + 1, Len(a \o b)) = b
      /\ SubSeq(a \o b, 1, Len(a \o b) - Len(b)) = a
  BY <1>1, ConcatSplits
<1>6. IsSuffix(b, a \o b)
  BY <1>1, ConcatEnds
<1> QED  BY <1>2, <1>3, <1>4, <1>5, <1>6, Zenon

(* Joining texts is associative. *)
LEMMA TextsAssociate ==
  ASSUME NEW a \in Texts, NEW b \in Texts, NEW c \in Texts
  PROVE  (a \o b) \o c = a \o (b \o c)
<1>1. a \in Seq(1 .. 255) /\ b \in Seq(1 .. 255) /\ c \in Seq(1 .. 255)
  BY TextLetters
<1> QED  BY <1>1, ConcatAssociative

(* The letters of two texts joined are those of both. *)
LEMMA LettersTogether ==
  ASSUME NEW a \in Texts, NEW b \in Texts
  PROVE  Range(a \o b) = Range(a) \cup Range(b)
<1>1. a \in Seq(1 .. 255) /\ b \in Seq(1 .. 255)
  BY TextLetters
<1> QED  BY <1>1, RangeConcatenation

(* A text taken apart. *)
LEMMA TextsApart ==
  ASSUME NEW a \in Texts, NEW t \in Texts
  PROVE  /\ IsPrefix(a, t) => /\ SubSeq(t, Len(a) + 1, Len(t)) \in Texts
                              /\ t = a \o SubSeq(t, Len(a) + 1, Len(t))
         /\ IsSuffix(a, t) => /\ SubSeq(t, 1, Len(t) - Len(a)) \in Texts
                              /\ t = SubSeq(t, 1, Len(t) - Len(a)) \o a
<1>1. a \in Seq(1 .. 255) /\ t \in Seq(1 .. 255)
  BY TextLetters
<1>2. IsPrefix(a, t) => /\ SubSeq(t, Len(a) + 1, Len(t)) \in Seq(1 .. 255)
                        /\ t = a \o SubSeq(t, Len(a) + 1, Len(t))
  BY <1>1, PrefixSplits
<1>3. IsSuffix(a, t) => /\ SubSeq(t, 1, Len(t) - Len(a)) \in Seq(1 .. 255)
                        /\ t = SubSeq(t, 1, Len(t) - Len(a)) \o a
  BY <1>1, SuffixSplits
<1> QED  BY <1>2, <1>3, Zenon DEF Texts

(* What is read as a form is the row and the ending, with the postfix behind. *)
LEMMA FormIsWhole ==
  ASSUME NEW e \in StemEntry, rest \in Texts, NEW r \in Alternations(e), NEW x \in Forms(e, r)
  PROVE  /\ x \in e.endings /\ r.text \in Texts /\ x.text \in Texts
         /\ EndsWithPost(e) /\ Flex(e) = r.text \o x.text
         /\ rest = Flex(e) \o e.post
         /\ rest = r.text \o (x.text \o e.post) /\ IsPrefix(r.text, rest)
         /\ SubSeq(rest, Len(r.text) + 1, Len(rest)) = x.text \o e.post
<1>1. x \in e.endings /\ rest = (r.text \o x.text) \o e.post
  BY DEF Forms
<1>2. r.text \in Texts /\ x.text \in Texts /\ e.post \in Texts
  BY <1>1, StemTexts
<1> DEFINE flex == r.text \o x.text
           tail == x.text \o e.post
<1>3. flex \in Texts /\ tail \in Texts
  BY <1>2, TextsTogether
<1>4. rest = r.text \o tail
  BY <1>1, <1>2, TextsAssociate, Zenon DEF tail
<1> HIDE DEF flex, tail
<1>5. IsSuffix(e.post, flex \o e.post) /\ SubSeq(flex \o e.post, 1, Len(flex \o e.post) - Len(e.post)) = flex
  BY <1>2, <1>3, TextsTogether
<1>6. /\ IsPrefix(r.text, r.text \o tail)
      /\ SubSeq(r.text \o tail, Len(r.text) + 1, Len(r.text \o tail)) = tail
  BY <1>2, <1>3, TextsTogether
<1>7. rest = flex \o e.post
  BY <1>1 DEF flex
<1>8. EndsWithPost(e) /\ Flex(e) = flex
  BY <1>5, <1>7, Zenon DEF EndsWithPost, Flex
<1>9. IsPrefix(r.text, rest) /\ SubSeq(rest, Len(r.text) + 1, Len(rest)) = tail
  BY <1>4, <1>6, Zenon
<1> QED  BY <1>1, <1>2, <1>4, <1>7, <1>8, <1>9, Zenon DEF flex, tail

(* What a stem reads, it reads in one of three ways. *)
LEMMA ReadsAre ==
  ASSUME NEW e \in StemEntry, NEW c \in Reads(e)
  PROVE  /\ e.minCap \in good
         /\ \/ ~Flective(e) /\ rest = e.post /\ c = Reading(e, {})
            \/ /\ Flective(e)
               /\ \E r \in Alternations(e) : Forms(e, r) # {} /\ c = Reading(e, Forms(e, r))
<1>1. e.minCap \in good
  BY DEF Reads
<1>2. CASE ~Flective(e)
  BY <1>1, <1>2 DEF Reads, Reading
<1>3. CASE Flective(e)
  <2>1. c \in {[lex |-> e.lex, post |-> e.post, forms |-> Forms(e, r)] :
                 r \in {s \in Alternations(e) : Forms(e, s) # {}}}
    BY <1>1, <1>3, Zenon DEF Reads
  <2>2. PICK r \in Alternations(e) :
          Forms(e, r) # {} /\ c = [lex |-> e.lex, post |-> e.post, forms |-> Forms(e, r)]
    BY <2>1, Zenon
  <2> QED  BY <1>1, <1>3, <2>2, Zenon DEF Reading
<1> QED  BY <1>2, <1>3

(* What Reads holds, by the three kinds of stem. *)
LEMMA ReadsHold ==
  ASSUME NEW e \in StemEntry, e.minCap \in good
  PROVE  /\ ~Flective(e) /\ rest = e.post => Reading(e, {}) \in Reads(e)
         /\ Flective(e) => \A r \in Alternations(e) :
                             Forms(e, r) # {} => Reading(e, Forms(e, r)) \in Reads(e)
<1>1. ~Flective(e) /\ rest = e.post => Reading(e, {}) \in Reads(e)
  BY DEF Reads, Reading
<1>2. ASSUME Flective(e), NEW r \in Alternations(e), Forms(e, r) # {}
      PROVE  Reading(e, Forms(e, r)) \in Reads(e)
  <2>1. Reads(e) = {[lex |-> e.lex, post |-> e.post, forms |-> Forms(e, s)] :
                      s \in {s \in Alternations(e) : Forms(e, s) # {}}}
    BY <1>2, Zenon DEF Reads
  <2> QED  BY <1>2, <2>1, Zenon DEF Reading
<1> QED  BY <1>1, <1>2

(* A call tells a reading of the types ListTypeOK asks for. *)
LEMMA ReadingTyped ==
  ASSUME NEW e \in StemEntry, NEW forms, forms \subseteq e.endings
  PROVE  Reading(e, forms) \in [lex: Nat, post: Texts, forms: SUBSET Ending]
<1>1. e.lex \in Nat /\ e.post \in Texts /\ e.endings \subseteq Ending
  BY DEF StemEntry
<1> QED  BY <1>1 DEF Reading

(* A rest without the postfix is none of the stem's. *)
LEMMA OtherPostReadsNone ==
  ASSUME NEW e \in StemEntry, rest \in Texts, ~EndsWithPost(e)
  PROVE  Reads(e) = {}
<1> SUFFICES ASSUME NEW c \in Reads(e)  PROVE FALSE
  OBVIOUS
<1>1. CASE ~Flective(e) /\ rest = e.post
  <2>1. IsSuffix(e.post, <<>> \o e.post) /\ <<>> \o e.post = e.post
    BY StemTexts, TextsTogether
  <2> QED  BY <1>1, <2>1, Zenon DEF EndsWithPost
<1>2. CASE \E r \in Alternations(e) : Forms(e, r) # {}
  <2>1. PICK r \in Alternations(e) : Forms(e, r) # {}
    BY <1>2
  <2>2. PICK x \in Forms(e, r) : TRUE
    BY <2>1
  <2> QED  BY <2>2, FormIsWhole
<1> QED  BY <1>1, <1>2, ReadsAre

(* A stem whose bounds do not reach the first letter left reads nothing, if    *)
(* its tables are not at odds.                                                 *)
LEMMA BeyondBoundsReadsNone ==
  ASSUME NEW e \in StemEntry, rest \in Texts, EndsWithPost(e), Flex(e) # <<>>,
         ~Uncovered(e), ~(Mixes(e) /\ BoundsLost(e)),
         rest[1] \notin ChrMin(e) .. ChrMax(e)
  PROVE  Reads(e) = {}
<1> SUFFICES ASSUME NEW c \in Reads(e)  PROVE FALSE
  OBVIOUS
<1>1. CASE ~Flective(e) /\ rest = e.post
  <2>1. <<>> \o e.post = e.post /\ SubSeq(<<>> \o e.post, 1, Len(<<>> \o e.post) - Len(e.post)) = <<>>
    BY StemTexts, TextsTogether
  <2> QED  BY <1>1, <2>1, Zenon DEF Flex
<1>2. CASE Flective(e) /\ \E r \in Alternations(e) : Forms(e, r) # {}
  <2>1. PICK r \in Alternations(e) : Forms(e, r) # {}
    BY <1>2
  <2>2. PICK x \in Forms(e, r) : TRUE
    BY <2>1
  <2>3. /\ x \in e.endings /\ r.text \in Texts /\ x.text \in Texts /\ e.post \in Texts
        /\ Flex(e) = r.text \o x.text /\ rest = Flex(e) \o e.post
    BY <2>1, FormIsWhole, StemTexts
  <2>4. Flex(e) \in Texts
    <3>1. r.text \o x.text \in Texts
      BY <2>3, TextsTogether
    <3> QED  BY <2>3, <3>1, Zenon
  <2>5. rest[1] = First(Flex(e)) /\ Flex(e)[1] = First(Flex(e)) /\ First(Flex(e)) # 0
    <3>1. rest[1] = First(Flex(e))
      BY <2>3, <2>4, TextsTogether, Zenon
    <3> QED  BY <2>4, <3>1, FirstLetter, Zenon
  <2>6. First(Flex(e)) = IF r.text # <<>> THEN First(r.text) ELSE First(x.text)
    <3>1. r.text # <<>> => Flex(e)[1] = First(r.text)
      <4>1. r.text # <<>> => (r.text \o x.text)[1] = First(r.text)
        BY <2>3, TextsTogether
      <4> QED  BY <2>3, <4>1
    <3>2. r.text = <<>> => Flex(e) = x.text
      BY <2>3, TextsTogether
    <3> QED  BY <2>5, <3>1, <3>2, Zenon
  <2>7. First(Flex(e)) \in ChrMin(e) .. ChrMax(e)
    <3> DEFINE d == IF r.text # <<>> THEN First(r.text) ELSE First(x.text)
    <3>1. d # 0 => d \in ChrMin(e) .. ChrMax(e)
      BY <1>2, <2>1, <2>3, Covered
    <3> QED  BY <2>5, <2>6, <3>1, Zenon
  <2> QED  BY <2>5, <2>7, Zenon
<1> QED  BY <1>1, <1>2, ReadsAre

(* What the reader compares is what the grammar allows. *)

(* A fixed stem is the rest without its postfix, and nothing. *)
LEMMA FixedReads ==
  ASSUME NEW e \in StemEntry, rest \in Texts, EndsWithPost(e)
  PROVE  rest = e.post <=> Flex(e) = <<>>
<1>1. e.post \in Texts /\ <<>> \in Texts
  BY StemTexts
<1>2. rest = Flex(e) \o e.post
  BY <1>1, TextsApart DEF EndsWithPost, Flex
<1>3. <<>> \o e.post = e.post /\ SubSeq(<<>> \o e.post, 1, Len(<<>> \o e.post) - Len(e.post)) = <<>>
  BY <1>1, TextsTogether
<1>4. rest = e.post => Flex(e) = <<>>
  BY <1>3, Zenon DEF Flex
<1>5. Flex(e) = <<>> => rest = e.post
  BY <1>2, <1>3, Zenon
<1> QED  BY <1>4, <1>5

(* Without alternations, what is left of the rest is the ending itself. *)
LEMMA PlainReads ==
  ASSUME NEW e \in StemEntry, rest \in Texts, EndsWithPost(e), ~Mixes(e)
  PROVE  \A r \in Alternations(e) : Found(e, Flex(e), 1 .. 3) = Forms(e, r)
<1> SUFFICES ASSUME NEW r \in Alternations(e)
             PROVE  Found(e, Flex(e), 1 .. 3) = Forms(e, r)
  OBVIOUS
<1>1. r.text = <<>> /\ r.levels = 1 .. 3
  BY DEF Alternations
<1>2. e.post \in Texts /\ \A x \in e.endings : x.text \in Texts /\ x.level \in 1 .. 3
  BY StemTexts
<1>3. rest = Flex(e) \o e.post
  BY <1>2, TextsApart DEF EndsWithPost, Flex
<1>4. ASSUME NEW x \in e.endings
      PROVE  x.text = Flex(e) <=> rest = r.text \o x.text \o e.post
  <2>1. r.text \o x.text = x.text
    BY <1>1, <1>2, TextsTogether
  <2>2. SubSeq(x.text \o e.post, 1, Len(x.text \o e.post) - Len(e.post)) = x.text
    BY <1>2, TextsTogether
  <2>3. rest = x.text \o e.post => Flex(e) = x.text
    BY <2>2, Zenon DEF Flex
  <2> QED  BY <1>3, <2>1, <2>3, Zenon
<1>5. \A x \in e.endings : x.level \in 1 .. 3 /\ x.level \in r.levels
  BY <1>1, <1>2, Zenon
<1> QED  BY <1>4, <1>5, Zenon DEF Found, Forms

(* A row of the stem that is no prefix of the rest reads nothing; for one that  *)
(* is, what the reader finds behind it are the forms, unless the stem has a     *)
(* postfix: then it finds none.                                                 *)
LEMMA RowReads ==
  ASSUME NEW e \in Entries, rest \in Texts, EndsWithPost(e), Mixes(e), NEW i \in DOMAIN e.mix
  PROVE  /\ e.mix[i] \in Alternations(e)
         /\ ~IsPrefix(e.mix[i].text, rest) => Forms(e, e.mix[i]) = {}
         /\ IsPrefix(e.mix[i].text, rest) =>
              Found(e, SubSeq(rest, Len(e.mix[i].text) + 1, Len(rest)), e.mix[i].levels)
                = IF e.post = <<>> THEN Forms(e, e.mix[i]) ELSE {}
<1> DEFINE r == e.mix[i]
           left == SubSeq(rest, Len(r.text) + 1, Len(rest))
<1>1. e \in StemEntry
  BY StemsAssumption DEF Entries
<1>2. r \in Alternations(e)
  BY DEF Alternations
<1>3. ~IsPrefix(r.text, rest) => Forms(e, r) = {}
  <2> HIDE DEF r
  <2> QED  BY <1>1, <1>2, FormIsWhole
<1>4. /\ r.text \in Texts /\ e.post \in Texts /\ <<>> \in Texts
      /\ \A x \in e.endings : x.text \in Texts
  BY <1>1, StemTexts
<1>5. ASSUME IsPrefix(r.text, rest), e.post = <<>>
      PROVE  Found(e, left, r.levels) = Forms(e, r)
  <2>1. rest = r.text \o left
    BY <1>4, <1>5, TextsApart, Zenon
  <2>2. ASSUME NEW x \in e.endings
        PROVE  x.text = left <=> rest = r.text \o x.text \o e.post
    <3>1. (r.text \o x.text) \o e.post = r.text \o x.text
      <4> HIDE DEF r
      <4>1. r.text \o x.text \in Texts
        BY <1>4, TextsTogether
      <4> QED  BY <1>4, <1>5, <4>1, TextsTogether
    <3>2. rest = r.text \o x.text => left = x.text
      <4> HIDE DEF r
      <4>1. SubSeq(r.text \o x.text, Len(r.text) + 1, Len(r.text \o x.text)) = x.text
        BY <1>4, TextsTogether
      <4> QED  BY <4>1, Zenon
    <3> QED  BY <2>1, <3>1, <3>2, Zenon
  <2> HIDE DEF r, left
  <2> QED  BY <2>2, Zenon DEF Found, Forms
<1>6. ASSUME IsPrefix(r.text, rest), e.post # <<>>
      PROVE  Found(e, left, r.levels) = {}
  <2> SUFFICES ASSUME NEW x \in e.endings, x.text = left  PROVE FALSE
    BY Zenon DEF Found
  <2>1. Head(e.post) \notin Range(x.text) /\ Head(e.post) \notin Range(r.text)
    BY <1>6, PostsApart, Zenon
  <2>2. rest = r.text \o x.text /\ r.text \in Seq(1 .. 255) /\ x.text \in Seq(1 .. 255)
    <3>1. rest = r.text \o left
      BY <1>4, <1>6, TextsApart, Zenon
    <3>2. r.text \in Seq(1 .. 255) /\ x.text \in Seq(1 .. 255)
      BY <1>4, TextLetters, Zenon
    <3> QED  BY <3>1, <3>2, Zenon
  <2>3. rest = Flex(e) \o e.post /\ Flex(e) \in Texts
    BY <1>4, TextsApart DEF EndsWithPost, Flex
  <2>4. Head(e.post) \in Range(rest)
    <3>1. Len(Flex(e)) \in Nat /\ Len(e.post) \in Nat \ {0} /\ Head(e.post) = e.post[1]
      BY <1>4, <1>6, <2>3, TextLetters, EmptySeq, HeadTailProperties
    <3>2. /\ Len(rest) = Len(Flex(e)) + Len(e.post)
          /\ rest[Len(Flex(e)) + 1] = e.post[1]
      <4>1. Flex(e) \in Seq(1 .. 255) /\ e.post \in Seq(1 .. 255)
        BY <1>4, <2>3, TextLetters
      <4> QED  BY <2>3, <3>1, <4>1, ConcatProperties
    <3>3. Len(Flex(e)) + 1 \in DOMAIN rest
      BY <3>1, <3>2, TextLetters, LenProperties
    <3> QED  BY <3>1, <3>2, <3>3, Zenon DEF Range
  <2>5. Range(rest) = Range(r.text) \cup Range(x.text)
    <3>1. Range(r.text \o x.text) = Range(r.text) \cup Range(x.text)
      BY <1>4, LettersTogether, Zenon
    <3> QED  BY <2>2, <3>1, Zenon
  <2> QED  BY <2>1, <2>4, <2>5
<1> QED  BY <1>2, <1>3, <1>5, <1>6, Zenon

-------------------------------------------------------------------------------
(* The inductive invariant. *)

(* Where the lookup is: a call ends one that wants the first stem only, and    *)
(* rows are looked at for a stem that passed every test of its entry.          *)
Placed ==
  /\ pc \in {"build", "idle"} => calls = <<>> /\ answer = 0
  /\ pc \in {"entry", "row"} =>
       pos \in 1 .. Len(list) + 1 /\ answer = 0 /\ (once => calls = <<>>)
  /\ pc = "row" => /\ pos \in DOMAIN list /\ Mixes(list[pos])
                   /\ EndsWithPost(list[pos]) /\ list[pos].minCap \in good

(* The stems passed have been told, those the code loses apart. *)
PassedTold ==
  pc \in {"entry", "row"} =>
    \A i \in 1 .. pos - 1 : ~Losable(i) => Reads(list[i]) \subseteq Range(calls)

RowForms(i, j) == Forms(list[i], list[i].mix[j])

(* So have the rows passed. *)
RowsTold ==
  pc = "row" /\ list[pos].post = <<>> =>
    \A j \in 1 .. row - 1 :
      RowForms(pos, j) # {} => Reading(list[pos], RowForms(pos, j)) \in Range(calls)

(* The calls are readings of the stems "of" names, in order. *)
TellsOf(of) ==
  /\ \A k \in DOMAIN calls : calls[k] \in Reads(list[of[k]])
  /\ \A j, k \in DOMAIN calls :
       j < k => of[j] < of[k] \/ (of[j] = of[k] /\ calls[j] # calls[k])

(* No call is of a stem the reader has still to come to; of the one whose rows *)
(* it is looking at, only rows passed have been told.                          *)
Behind(of) ==
  /\ pc = "entry" => \A k \in DOMAIN calls : of[k] < pos
  /\ pc = "row" =>
       \A k \in DOMAIN calls :
         \/ of[k] < pos
         \/ /\ of[k] = pos
            /\ \E j \in 1 .. row - 1 :
                 RowForms(pos, j) # {} /\ calls[k] = Reading(list[pos], RowForms(pos, j))

InOrder == \E of \in [DOMAIN calls -> DOMAIN list] : TellsOf(of) /\ Behind(of)

ListInv ==
  ListTypeOK /\ BoundsFall /\ Placed /\ PassedTold /\ RowsTold /\ InOrder /\ NoneLost

-------------------------------------------------------------------------------
(* What a step of the reader comes to. *)

ReadsNone(i) == ~Losable(i) => Reads(list[i]) = {}

SkipsStem ==
  /\ pos \in DOMAIN list /\ ReadsNone(pos)
  /\ Continue /\ NotCalled

TellsStem ==
  /\ pos \in DOMAIN list
  /\ \E c \in Reads(list[pos]) : Reads(list[pos]) = {c} /\ calls' = Append(calls, c)
  /\ IF once THEN Leave(1) ELSE Continue

TurnsToRows ==
  /\ pos \in DOMAIN list
  /\ Mixes(list[pos]) /\ EndsWithPost(list[pos]) /\ list[pos].minCap \in good
  /\ pc' = "row" /\ row' = 1 /\ UNCHANGED <<pos, answer>> /\ NotCalled

StopsHere ==
  /\ \A i \in pos .. Len(list) : ReadsNone(i)
  /\ Leave(0) /\ NotCalled

EndsRows ==
  /\ \A j \in row .. Len(list[pos].mix) : RowForms(pos, j) = {}
  /\ Continue /\ NotCalled

SkipsRow ==
  /\ list[pos].post = <<>> => RowForms(pos, row) = {}
  /\ NextRow /\ NotCalled

TellsRow ==
  /\ RowForms(pos, row) # {}
  /\ calls' = Append(calls, Reading(list[pos], RowForms(pos, row)))
  /\ IF once THEN Leave(1) ELSE NextRow

(* What the invariant says of the stem the reader is at. *)
LEMMA StemLookedAt ==
  ASSUME ListTypeOK, Placed, pc \in {"entry", "row"}
  PROVE  /\ rest \in Texts /\ Len(list) \in Nat /\ DOMAIN list = 1 .. Len(list)
         /\ pos \in 1 .. Len(list) + 1 /\ pos \in Int
         /\ \A i \in DOMAIN list : list[i] \in Entries /\ list[i] \in StemEntry
<1>1. rest \in Texts
  BY StemsAssumption, EmptySeq DEF ListTypeOK, Texts
<1>2. list \in Seq(Entries)
  BY DEF ListTypeOK
<1>3. pos \in 1 .. Len(list) + 1
  BY DEF Placed
<1>4. /\ Len(list) \in Nat /\ DOMAIN list = 1 .. Len(list)
      /\ \A i \in DOMAIN list : list[i] \in Entries /\ list[i] \in StemEntry
  BY <1>2, ListOfStems
<1>5. pos \in Int
  BY <1>3, <1>4
<1> QED  BY <1>1, <1>3, <1>4, <1>5, Zenon

(* Where the bound of a stem cuts the scan, no stem from there on reads the    *)
(* rest, those the cut is known to lose apart.                                 *)
LEMMA CutLosesNone ==
  ASSUME ListTypeOK, BoundsFall, Placed, pc = "entry", pos \in DOMAIN list,
         EndsWithPost(list[pos]), Cuts(list[pos])
  PROVE  \A i \in pos .. Len(list) : ReadsNone(i)
<1> DEFINE e == list[pos]
<1>1. /\ rest \in Texts /\ Len(list) \in Nat /\ DOMAIN list = 1 .. Len(list) /\ pos \in Int
      /\ \A i \in DOMAIN list : list[i] \in Entries /\ list[i] \in StemEntry
  BY StemLookedAt
<1>2. e \in StemEntry /\ e.post \in Texts /\ Flex(e) # <<>> /\ rest[1] > ChrMax(e)
  BY <1>1, StemTexts DEF Cuts
<1>3. rest = Flex(e) \o e.post /\ Flex(e) \in Texts
  BY <1>1, <1>2, TextsApart DEF EndsWithPost, Flex
<1> HIDE DEF e
<1>4. rest # <<>> /\ rest # e.post /\ rest[1] \in Int
  <2>1. rest # <<>>
    BY <1>2, <1>3, TextsTogether
  <2>2. rest[1] \in Int
    BY <1>1, <2>1, FirstLetter, TextLetters
  <2>3. rest # e.post
    BY <1>1, <1>2, FixedReads DEF e
  <2> QED  BY <2>1, <2>2, <2>3
<1> SUFFICES ASSUME NEW i \in pos .. Len(list), ~Losable(i)
             PROVE  Reads(list[i]) = {}
  BY DEF ReadsNone
<1> DEFINE f == list[i]
<1>5. i \in DOMAIN list /\ i \in Int /\ i >= pos
  BY <1>1
<1>6. f \in StemEntry /\ f.post \in Texts
  BY <1>1, <1>5, StemTexts
<1>7. ~CutBefore(i) /\ ~(Mixes(f) /\ BoundsLost(f)) /\ ~Uncovered(f)
  BY Zenon DEF Losable
<1>8. ChrMax(f) \in Int /\ ChrMin(f) \in Int /\ rest[1] > ChrMax(f)
  <2>1. ChrMax(f) \in Int /\ ChrMin(f) \in Int /\ ChrMax(e) \in Int
    BY <1>2, <1>6, BoundsAreCodes
  <2>2. ChrMax(e) >= ChrMax(f)
    <3>1. CASE i = pos
      BY <2>1, <3>1 DEF e
    <3>2. CASE i > pos
      BY <1>5, <3>2 DEF BoundsFall, e
    <3> QED  BY <1>1, <1>5, <3>1, <3>2
  <2> QED  BY <1>2, <1>4, <2>1, <2>2
<1>9. CASE ~EndsWithPost(f)
  BY <1>1, <1>6, <1>9, OtherPostReadsNone, Zenon
<1>10. CASE EndsWithPost(f) /\ Flex(f) # <<>>
  <2>1. rest[1] \notin ChrMin(f) .. ChrMax(f)
    BY <1>4, <1>8
  <2> QED  BY <1>1, <1>6, <1>7, <1>10, <2>1, BeyondBoundsReadsNone, Zenon
<1>11. CASE EndsWithPost(f) /\ Flex(f) = <<>>
  <2>1. rest = f.post
    BY <1>1, <1>6, <1>11, FixedReads
  <2>2. i # pos
    BY <1>4, <2>1 DEF e
  <2>3. pos \in 1 .. i - 1
    BY <1>1, <1>5, <2>2
  <2>4. rest[1] = First(f.post)
    BY <1>1, <1>4, <2>1, FirstLetter, Zenon
  <2>5. ChrMax(e) < First(f.post)
    BY <1>2, <2>4
  <2>6. IsSuffix(e.post, f.post) /\ e.post # f.post
    BY <1>4, <2>1, Zenon DEF EndsWithPost, e
  <2>7. CutBefore(i)
    BY <2>3, <2>5, <2>6, Zenon DEF CutBefore, e
  <2> QED  BY <1>7, <2>7
<1> QED  BY <1>9, <1>10, <1>11, Zenon

(* A step from the head of the loop. *)
LEMMA EntryStep ==
  ASSUME ListTypeOK, BoundsFall, Placed, Step, pc = "entry"
  PROVE  SkipsStem \/ TellsStem \/ TurnsToRows \/ StopsHere
<1> DEFINE e == list[pos]
<1>1. /\ rest \in Texts /\ Len(list) \in Nat /\ DOMAIN list = 1 .. Len(list) /\ pos \in Int
      /\ pos \in 1 .. Len(list) + 1
      /\ \A i \in DOMAIN list : list[i] \in Entries /\ list[i] \in StemEntry
  BY StemLookedAt
<1>2. pos <= Len(list) => pos \in DOMAIN list /\ e \in StemEntry
  BY <1>1
<1>3. ~Losable(pos) => ~(Mixes(e) /\ BoundsLost(e)) /\ ~Uncovered(e)
  BY Zenon DEF Losable
<1>4. CASE OtherPost
  <2>1. pos <= Len(list) /\ ~EndsWithPost(e) /\ Continue /\ NotCalled
    BY <1>4 DEF OtherPost, ThisEntry
  <2>2. Reads(e) = {}
    BY <1>1, <1>2, <2>1, OtherPostReadsNone, Zenon
  <2> QED  BY <1>2, <2>1, <2>2, Zenon DEF SkipsStem, ReadsNone
<1>5. CASE Cut
  <2>1. pos <= Len(list) /\ EndsWithPost(e) /\ Cuts(e) /\ Leave(0) /\ NotCalled
    BY <1>5 DEF Cut, ThisEntry
  <2>2. \A i \in pos .. Len(list) : ReadsNone(i)
    BY <1>2, <2>1, CutLosesNone, Zenon
  <2> QED  BY <2>1, <2>2, Zenon DEF StopsHere
<1>6. CASE TooEarly
  <2>1. pos <= Len(list) /\ EndsWithPost(e) /\ ~Passes(e) /\ Continue /\ NotCalled
    BY <1>6 DEF TooEarly, ThisEntry
  <2>2. Flex(e) # <<>> /\ rest[1] \notin ChrMin(e) .. ChrMax(e)
    BY <2>1, Zenon DEF Passes
  <2>3. ~Losable(pos) => Reads(e) = {}
    BY <1>1, <1>2, <1>3, <2>1, <2>2, BeyondBoundsReadsNone, Zenon
  <2> QED  BY <1>2, <2>1, <2>3, Zenon DEF SkipsStem, ReadsNone
<1>7. CASE WrongCaps
  <2>1. pos <= Len(list) /\ e.minCap \notin good /\ Continue /\ NotCalled
    BY <1>7 DEF WrongCaps, ThisEntry
  <2>2. Reads(e) = {}
    BY <2>1, Zenon DEF Reads
  <2> QED  BY <1>2, <2>1, <2>2, Zenon DEF SkipsStem, ReadsNone
<1>8. CASE Fixed
  <2>1. /\ pos <= Len(list) /\ EndsWithPost(e) /\ e.minCap \in good /\ ~Flective(e)
        /\ IF Flex(e) = <<>> THEN InsertStem(e, {}, Continue) ELSE Continue /\ NotCalled
    BY <1>8 DEF Fixed, Entry, ThisEntry, Passes
  <2>2. rest = e.post <=> Flex(e) = <<>>
    BY <1>1, <1>2, <2>1, FixedReads, Zenon
  <2>3. CASE Flex(e) = <<>>
    <3>1. Reads(e) = {Reading(e, {})}
      BY <2>1, <2>2, <2>3, Zenon DEF Reads, Reading
    <3>2. calls' = Append(calls, Reading(e, {})) /\ IF once THEN Leave(1) ELSE Continue
      BY <2>1, <2>3, Zenon DEF InsertStem, Reading
    <3> QED  BY <1>2, <2>1, <3>1, <3>2, Zenon DEF TellsStem
  <2>4. CASE Flex(e) # <<>>
    <3>1. Reads(e) = {}
      BY <2>1, <2>2, <2>4, Zenon DEF Reads
    <3> QED  BY <1>2, <2>1, <2>4, <3>1, Zenon DEF SkipsStem, ReadsNone
  <2> QED  BY <2>3, <2>4
<1>9. CASE Plain
  <2> DEFINE forms == Found(e, Flex(e), 1 .. 3)
             any == [text |-> <<>>, levels |-> 1 .. 3]
  <2>1. /\ pos <= Len(list) /\ EndsWithPost(e) /\ e.minCap \in good /\ Flective(e) /\ ~Mixes(e)
        /\ IF forms # {} THEN InsertStem(e, forms, Continue) ELSE Continue /\ NotCalled
    BY <1>9 DEF Plain, Entry, ThisEntry, Passes
  <2>2. Alternations(e) = {any}
    BY <2>1 DEF Alternations
  <2>3. forms = Forms(e, any)
    BY <1>1, <1>2, <2>1, <2>2, PlainReads, Zenon
  <2>4. Reads(e) = {Reading(e, Forms(e, r)) : r \in {s \in {any} : Forms(e, s) # {}}}
    BY <2>1, <2>2, Zenon DEF Reads, Reading
  <2> HIDE DEF forms, any
  <2>5. CASE forms # {}
    <3>1. Reads(e) = {Reading(e, forms)}
      BY <2>3, <2>4, <2>5
    <3>2. calls' = Append(calls, Reading(e, forms)) /\ IF once THEN Leave(1) ELSE Continue
      BY <2>1, <2>5, Zenon DEF InsertStem, Reading
    <3> QED  BY <1>2, <2>1, <3>1, <3>2, Zenon DEF TellsStem
  <2>6. CASE forms = {}
    <3>1. Reads(e) = {}
      BY <2>3, <2>4, <2>6
    <3> QED  BY <1>2, <2>1, <2>6, <3>1, Zenon DEF SkipsStem, ReadsNone
  <2> QED  BY <2>5, <2>6
<1>10. CASE Mixed
  <2>1. /\ pos <= Len(list) /\ EndsWithPost(e) /\ e.minCap \in good /\ Mixes(e)
        /\ pc' = "row" /\ row' = 1 /\ UNCHANGED <<pos, answer>> /\ NotCalled
    BY <1>10 DEF Mixed, Entry, ThisEntry, Passes
  <2> QED  BY <1>2, <2>1, Zenon DEF TurnsToRows
<1>11. CASE EndOfList
  <2>1. pos > Len(list) /\ Leave(0) /\ NotCalled
    BY <1>11 DEF EndOfList
  <2>2. \A i \in pos .. Len(list) : ReadsNone(i)
    BY <1>1, <2>1
  <2> QED  BY <2>1, <2>2, Zenon DEF StopsHere
<1>12. ~LookAtRow
  BY DEF LookAtRow
<1> QED  BY <1>4, <1>5, <1>6, <1>7, <1>8, <1>9, <1>10, <1>11, <1>12 DEF Step

(* The row looked at. *)
LEMMA RowLookedAt ==
  ASSUME ListTypeOK, Placed, pc = "row"
  PROVE  /\ row \in DOMAIN list[pos].mix /\ row \in Nat
         /\ DOMAIN list[pos].mix = 1 .. Len(list[pos].mix) /\ Len(list[pos].mix) \in Nat
<1>1. list[pos] \in StemEntry
  BY StemLookedAt DEF Placed
<1>2. list[pos].mix \in Seq(MixRow)
  BY <1>1 DEF StemEntry
<1> QED  BY <1>2, LenProperties DEF ListTypeOK

(* A step from a row. *)
LEMMA RowStep ==
  ASSUME ListTypeOK, Placed, Step, pc = "row"
  PROVE  EndsRows \/ SkipsRow \/ TellsRow
<1> DEFINE e == list[pos]
           r == e.mix[row]
           forms == Found(e, SubSeq(rest, Len(r.text) + 1, Len(rest)), r.levels)
<1>1. /\ rest \in Texts /\ e \in Entries /\ e \in StemEntry
      /\ Mixes(e) /\ EndsWithPost(e) /\ row \in DOMAIN e.mix
  BY StemLookedAt, RowLookedAt DEF Placed
<1>2. row \in Nat /\ DOMAIN e.mix = 1 .. Len(e.mix) /\ Len(e.mix) \in Nat
  BY RowLookedAt
<1>3. LookAtRow
  BY DEF Step, OtherPost, Cut, TooEarly, WrongCaps, Fixed, Plain, Mixed, EndOfList, Entry, ThisEntry
<1>4. CASE RowStops(r.text)
  <2>1. Continue /\ NotCalled
    BY <1>3, <1>4, Zenon DEF LookAtRow
  <2>2. \A j \in DOMAIN e.mix : e.mix[j].text \in Texts
    BY <1>1, StemTexts
  <2>3. ASSUME NEW j \in row .. Len(e.mix)  PROVE RowForms(pos, j) = {}
    <3>1. j \in DOMAIN e.mix /\ (j = row \/ row < j)
      <4>1. row \in 1 .. Len(e.mix)
        BY <1>1, <1>2
      <4> HIDE DEF e
      <4> QED  BY <1>2, <4>1
    <3>2. Before(rest, e.mix[row].text)
      BY <1>4, Zenon DEF RowStops
    <3>3. row < j => Before(e.mix[row].text, e.mix[j].text)
      BY <1>1, <3>1, RowsAscend, Zenon
    <3>4. Before(rest, e.mix[j].text)
      <4>1. CASE row < j
        BY <1>1, <2>2, <3>1, <3>2, <3>3, <4>1, BeforeTransitive, Zenon
      <4> QED  BY <3>1, <3>2, <4>1, Zenon
    <3>5. ~IsPrefix(e.mix[j].text, rest)
      BY <1>1, <2>2, <3>1, <3>4, BeforeNoPrefix, Zenon
    <3> QED  BY <1>1, <3>1, <3>5, RowReads, Zenon DEF RowForms
  <2> QED  BY <2>1, <2>3, Zenon DEF EndsRows
<1>5. CASE ~RowStops(r.text) /\ (~IsPrefix(r.text, rest) \/ forms = {})
  <2>1. NextRow /\ NotCalled
    BY <1>3, <1>5, Zenon DEF LookAtRow
  <2>2. e.post = <<>> => Forms(e, r) = {}
    BY <1>1, <1>5, RowReads, Zenon
  <2> QED  BY <2>1, <2>2, Zenon DEF SkipsRow, RowForms
<1>6. CASE ~RowStops(r.text) /\ ~(~IsPrefix(r.text, rest) \/ forms = {})
  <2>1. InsertStem(e, forms, NextRow)
    BY <1>3, <1>6, Zenon DEF LookAtRow
  <2>2. forms = IF e.post = <<>> THEN Forms(e, r) ELSE {}
    BY <1>1, <1>6, RowReads, Zenon
  <2>3. forms # {} /\ forms = RowForms(pos, row)
    BY <1>6, <2>2, Zenon DEF RowForms
  <2> HIDE DEF forms
  <2>4. calls' = Append(calls, Reading(e, forms)) /\ IF once THEN Leave(1) ELSE NextRow
    BY <2>1, Zenon DEF InsertStem, Reading
  <2> QED  BY <2>3, <2>4, Zenon DEF TellsRow
<1> QED  BY <1>4, <1>5, <1>6, Zenon

(* Two rows of a stem never read the same forms. *)
LEMMA RowsReadApart ==
  ASSUME NEW e \in Entries, rest \in Texts, Flective(e), NEW i \in DOMAIN e.mix, NEW j \in DOMAIN e.mix,
         i < j, Forms(e, e.mix[i]) # {}
  PROVE  Forms(e, e.mix[i]) # Forms(e, e.mix[j])
<1> SUFFICES ASSUME Forms(e, e.mix[i]) = Forms(e, e.mix[j])  PROVE FALSE
  OBVIOUS
<1> DEFINE a == e.mix[i]
           b == e.mix[j]
<1>1. e \in StemEntry /\ a \in Alternations(e) /\ b \in Alternations(e)
  <2>1. e \in StemEntry
    BY StemsAssumption DEF Entries
  <2>2. e.mix # <<>>
    BY <2>1
  <2> QED  BY <2>1, <2>2, Zenon DEF Alternations, Mixes
<1>2. PICK x \in Forms(e, a) : x \in Forms(e, b)
  OBVIOUS
<1>3. Before(a.text, b.text)
  BY RowsAscend, Zenon
<1> HIDE DEF a, b
<1>4. /\ a.text \in Texts /\ x.text \in Texts /\ IsPrefix(a.text, rest)
      /\ Flex(e) = a.text \o x.text
  BY <1>1, <1>2, FormIsWhole
<1>5. /\ b.text \in Texts /\ IsPrefix(b.text, rest)
      /\ Flex(e) = b.text \o x.text
  BY <1>1, <1>2, FormIsWhole
<1>6. Len(a.text) < Len(b.text)
  BY <1>3, <1>4, <1>5, PrefixesGrow
<1>7. a.text = SubSeq(Flex(e), 1, Len(Flex(e)) - Len(x.text))
  BY <1>4, TextsTogether
<1>8. b.text = SubSeq(Flex(e), 1, Len(Flex(e)) - Len(x.text))
  BY <1>4, <1>5, TextsTogether
<1>9. a.text = b.text
  BY <1>7, <1>8, Zenon
<1>10. Len(a.text) \in Nat
  BY <1>4, TextLetters
<1> QED  BY <1>6, <1>9, <1>10

-------------------------------------------------------------------------------
(* The types, and where the lookup is. *)

CallRecord == [lex: Nat, post: Texts, forms: SUBSET Ending]

(* What a stem reads has the type of a call. *)
LEMMA ReadsTyped ==
  ASSUME NEW e \in StemEntry, NEW c \in Reads(e)
  PROVE  c \in CallRecord
<1>1. \A r : Forms(e, r) \subseteq e.endings
  BY DEF Forms
<1>2. \A forms : forms \subseteq e.endings => Reading(e, forms) \in CallRecord
  BY ReadingTyped DEF CallRecord
<1>3. CASE c = Reading(e, {})
  BY <1>2, <1>3
<1>4. CASE \E r \in Alternations(e) : c = Reading(e, Forms(e, r))
  BY <1>1, <1>2, <1>4, Zenon
<1> QED  BY <1>3, <1>4, ReadsAre, Zenon

(* What the actions of the reader leave alone. *)
LEMMA StepKeeps ==
  ASSUME Step
  PROVE  UNCHANGED <<node, list, rest, good, once>> /\ pc \in {"entry", "row"}
BY DEF Step, OtherPost, Cut, TooEarly, WrongCaps, Fixed, Plain, Mixed, LookAtRow, EndOfList,
       Entry, ThisEntry

(* Every step of the reader comes to one of these. *)
LEMMA StepIs ==
  ASSUME ListTypeOK, BoundsFall, Placed, Step
  PROVE  /\ UNCHANGED <<node, list, rest, good, once>>
         /\ \/ pc = "entry" /\ (SkipsStem \/ TellsStem \/ TurnsToRows \/ StopsHere)
            \/ pc = "row" /\ (EndsRows \/ SkipsRow \/ TellsRow)
<1>1. UNCHANGED <<node, list, rest, good, once>> /\ pc \in {"entry", "row"}
  BY StepKeeps
<1>2. CASE pc = "entry"
  BY <1>1, <1>2, EntryStep, Zenon
<1>3. CASE pc = "row"
  BY <1>1, <1>3, RowStep, Zenon
<1> QED  BY <1>1, <1>2, <1>3

(* The conditions of an entry do not change while the reader looks. *)
LEMMA SameReadings ==
  ASSUME UNCHANGED <<list, rest, good>>
  PROVE  /\ \A e : Reads(e)' = Reads(e)
         /\ \A i, j : RowForms(i, j)' = RowForms(i, j)
         /\ \A i : Losable(i)' = Losable(i)
         /\ \A e : EndsWithPost(e)' = EndsWithPost(e)
<1>1. \A e, r : Forms(e, r)' = Forms(e, r)
  BY DEF Forms
<1>2. \A e : Reads(e)' = Reads(e)
  BY <1>1 DEF Reads
<1>3. \A i, j : RowForms(i, j)' = RowForms(i, j)
  BY DEF RowForms, Forms
<1>4. \A i : Losable(i)' = Losable(i)
  BY DEF Losable, CutBefore
<1>5. \A e : EndsWithPost(e)' = EndsWithPost(e)
  BY DEF EndsWithPost
<1> QED  BY <1>2, <1>3, <1>4, <1>5

(* The typing and the place of the lookup after a step of the reader. *)
LEMMA StepTyped ==
  ASSUME ListTypeOK, BoundsFall, Placed, Step
  PROVE  ListTypeOK' /\ Placed'
<1>1. UNCHANGED <<node, list, rest, good, once>>
  BY StepKeeps
<1>2. /\ Len(list) \in Nat /\ DOMAIN list = 1 .. Len(list) /\ pos \in 1 .. Len(list) + 1 /\ pos \in Int
      /\ \A i \in DOMAIN list : list[i] \in StemEntry
  BY StepKeeps, StemLookedAt
<1>3. /\ Len(list) <= MaxEntries /\ MaxEntries \in Nat /\ row \in Nat
      /\ calls \in Seq(CallRecord) /\ answer = 0 /\ (once => calls = <<>>)
      /\ list \in Seq(Entries) /\ good \subseteq 0 .. 2 /\ once \in BOOLEAN
  BY StepKeeps, StemsAssumption DEF ListTypeOK, Placed, CallRecord
<1>4. \A e : EndsWithPost(e)' = EndsWithPost(e)
  BY <1>1, SameReadings
<1> DEFINE Went == \/ pc' = "entry" /\ pos' = pos + 1 /\ row' = 0 /\ answer' = 0 /\ pos \in DOMAIN list
                   \/ /\ pc' = "row" /\ pos' = pos /\ answer' = 0 /\ pos \in DOMAIN list
                      /\ row' \in Nat /\ row' \in DOMAIN list[pos].mix
                      /\ Mixes(list[pos]) /\ EndsWithPost(list[pos]) /\ list[pos].minCap \in good
                   \/ pc' = "done" /\ pos' = pos /\ row' = row /\ answer' \in {0, 1}
           Told == \/ calls' = calls
                   \/ calls' \in Seq(CallRecord) /\ (once => pc' = "done")
<1>5. Went /\ Told
  <2>1. CASE SkipsStem
    BY <1>3, <2>1 DEF SkipsStem, Continue, NotCalled
  <2>2. CASE TellsStem
    <3>1. pos \in DOMAIN list /\ IF once THEN Leave(1) ELSE Continue
      BY <2>2 DEF TellsStem
    <3>2. PICK c \in Reads(list[pos]) : calls' = Append(calls, c)
      BY <2>2 DEF TellsStem
    <3>3. calls' \in Seq(CallRecord)
      <4>1. c \in CallRecord
        BY <1>2, <3>1, <3>2, ReadsTyped
      <4> QED  BY <1>3, <3>2, <4>1
    <3> QED  BY <1>3, <3>1, <3>3 DEF Leave, Continue
  <2>3. CASE TurnsToRows
    <3>1. list[pos] \in StemEntry
      BY <1>2, <2>3 DEF TurnsToRows
    <3>2. 1 \in DOMAIN list[pos].mix
      <4>1. list[pos].mix \in Seq(MixRow) /\ list[pos].mix # <<>>
        BY <2>3, <3>1 DEF StemEntry, TurnsToRows, Mixes
      <4> QED  BY <4>1, EmptySeq, LenProperties
    <3> QED  BY <1>3, <2>3, <3>2 DEF TurnsToRows, NotCalled
  <2>4. CASE StopsHere
    BY <1>3, <2>4 DEF StopsHere, Leave, NotCalled
  <2>5. ASSUME pc = "row"
        PROVE  /\ pos \in DOMAIN list
               /\ NextRow \/ Continue => Went
    <3>1. /\ pos \in DOMAIN list /\ Mixes(list[pos]) /\ EndsWithPost(list[pos])
          /\ list[pos].minCap \in good
      BY <2>5 DEF Placed
    <3>2. /\ row \in DOMAIN list[pos].mix
          /\ DOMAIN list[pos].mix = 1 .. Len(list[pos].mix) /\ Len(list[pos].mix) \in Nat
      BY <2>5, RowLookedAt
    <3>3. CASE Continue
      BY <1>3, <3>1, <3>3 DEF Continue
    <3>4. CASE NextRow /\ row < Len(list[pos].mix)
      <4>1. row + 1 \in DOMAIN list[pos].mix /\ row + 1 \in Nat
        BY <1>3, <3>2, <3>4
      <4>2. row' = row + 1 /\ UNCHANGED <<pc, pos, answer>>
        BY <3>4 DEF NextRow
      <4> QED  BY <1>3, <2>5, <3>1, <4>1, <4>2
    <3>5. NextRow /\ ~(row < Len(list[pos].mix)) => Continue
      BY DEF NextRow
    <3> QED  BY <3>1, <3>3, <3>4, <3>5
  <2>6. CASE pc = "row" /\ EndsRows
    BY <2>5, <2>6 DEF EndsRows, NotCalled
  <2>7. CASE pc = "row" /\ SkipsRow
    BY <2>5, <2>7 DEF SkipsRow, NotCalled
  <2>8. CASE pc = "row" /\ TellsRow
    <3> DEFINE c == Reading(list[pos], RowForms(pos, row))
    <3>1. calls' = Append(calls, c) /\ IF once THEN Leave(1) ELSE NextRow
      BY <2>8, Zenon DEF TellsRow
    <3>2. c \in CallRecord
      <4>1. RowForms(pos, row) \subseteq list[pos].endings
        BY DEF RowForms, Forms
      <4>2. list[pos] \in StemEntry
        BY <1>2, <2>5, <2>8
      <4> QED  BY <4>1, <4>2, ReadingTyped DEF CallRecord
    <3> HIDE DEF c
    <3>3. calls' \in Seq(CallRecord)
      BY <1>3, <3>1, <3>2
    <3>4. once => Went /\ pc' = "done"
      BY <1>3, <3>1 DEF Leave
    <3>5. ~once => Went
      BY <2>5, <2>8, <3>1
    <3> QED  BY <3>3, <3>4, <3>5
  <2> QED  BY <2>1, <2>2, <2>3, <2>4, <2>6, <2>7, <2>8, StepIs, Zenon
<1>6. ListTypeOK'
  <2>1. node' \in Texts /\ rest' \in Rests \cup {<<>>}
    BY <1>1 DEF ListTypeOK
  <2>2. list' \in Seq(Entries) /\ Len(list') <= MaxEntries /\ good' \subseteq 0 .. 2 /\ once' \in BOOLEAN
    BY <1>1, <1>3
  <2>3. calls' \in Seq([lex: Nat, post: Texts, forms: SUBSET Ending])
    BY <1>3, <1>5 DEF CallRecord
  <2>4. pc' \in {"build", "idle", "entry", "row", "done"} /\ answer' \in {0, 1} /\ row' \in Nat
    BY <1>3, <1>5
  <2>5. pos' \in 0 .. MaxEntries + 1
    BY <1>2, <1>3, <1>5
  <2>6. pc' = "row" => row' \in DOMAIN list'[pos'].mix
    BY <1>1, <1>5
  <2> QED  BY <2>1, <2>2, <2>3, <2>4, <2>5, <2>6 DEF ListTypeOK
<1>7. Placed'
  <2>1. pc' \in {"entry", "row", "done"}
    BY <1>5
  <2>2. pc' \in {"entry", "row"} => pos' \in 1 .. Len(list') + 1 /\ answer' = 0 /\ (once' => calls' = <<>>)
    BY <1>1, <1>2, <1>3, <1>5
  <2>3. pc' = "row" =>
          (/\ pos \in DOMAIN list /\ Mixes(list[pos])
           /\ EndsWithPost(list[pos]) /\ list[pos].minCap \in good)'
    <3>1. pc' = "row" => /\ pos' = pos /\ pos \in DOMAIN list
                         /\ Mixes(list[pos]) /\ EndsWithPost(list[pos]) /\ list[pos].minCap \in good
      BY <1>5
    <3> QED  BY <1>1, <3>1 DEF EndsWithPost
  <2>4. ~(pc' \in {"build", "idle"})
    BY <2>1
  <2> QED  BY <2>2, <2>3, <2>4, Zenon DEF Placed
<1> QED  BY <1>6, <1>7

-------------------------------------------------------------------------------
(* Nothing is lost. *)

(* Once every row of a stem has been told, so has every reading of it. *)
LEMMA RowsAreReads ==
  ASSUME ListTypeOK, Placed, pc = "row", NEW told,
         list[pos].post = <<>> =>
           \A j \in 1 .. Len(list[pos].mix) :
             RowForms(pos, j) # {} => Reading(list[pos], RowForms(pos, j)) \in told,
         ~Losable(pos)
  PROVE  Reads(list[pos]) \subseteq told
<1> DEFINE e == list[pos]
<1>1. e \in StemEntry /\ Mixes(e) /\ Flective(e) /\ DOMAIN e.mix = 1 .. Len(e.mix)
  BY StemLookedAt, RowLookedAt DEF Placed, Mixes
<1>2. e.post = <<>>
  BY <1>1, Zenon DEF Losable
<1> SUFFICES ASSUME NEW c \in Reads(e)  PROVE c \in told
  OBVIOUS
<1>3. PICK r \in Alternations(e) : Forms(e, r) # {} /\ c = Reading(e, Forms(e, r))
  BY <1>1, ReadsAre
<1>4. PICK j \in DOMAIN e.mix : r = e.mix[j]
  BY <1>1 DEF Alternations
<1> QED  BY <1>1, <1>2, <1>3, <1>4, Zenon DEF RowForms

(* A lookup that went to the end has told everything. *)
LEMMA EndTold ==
  ASSUME UNCHANGED <<list, rest, good, once, calls>>, answer' = 0, once => calls = <<>>,
         once \in BOOLEAN,
         \A i \in DOMAIN list : ~Losable(i) => Reads(list[i]) \subseteq Range(calls)
  PROVE  NoneLost'
<1>1. /\ \A e : Reads(e)' = Reads(e)
      /\ \A i : Losable(i)' = Losable(i)
  BY SameReadings
<1> DEFINE sure == UNION {Reads(list[i]) : i \in {j \in DOMAIN list : ~Losable(j)}}
<1>2. sure \subseteq Range(calls)
  BY Zenon
<1>3. Range(calls) = {calls[k] : k \in DOMAIN calls}
  BY DEF Range
<1>4. once => sure = {}
  <2>1. once => Range(calls) = {}
    BY DEF Range
  <2> QED  BY <1>2, <2>1
<1>5. sure' = sure
  BY <1>1
<1> HIDE DEF sure
<1>6. IF once' THEN sure' # {} => answer' = 1
      ELSE sure' \subseteq {calls'[k] : k \in DOMAIN calls'} /\ answer' = 0
  BY <1>2, <1>3, <1>4, <1>5
<1> QED  BY <1>6 DEF NoneLost, sure

(* What has been told after a step of the reader. *)
LEMMA StepTold ==
  ASSUME ListTypeOK, BoundsFall, Placed, PassedTold, RowsTold, Step
  PROVE  PassedTold' /\ RowsTold' /\ NoneLost'
<1>1. UNCHANGED <<node, list, rest, good, once>>
  BY StepKeeps
<1>2. /\ Len(list) \in Nat /\ DOMAIN list = 1 .. Len(list) /\ pos \in 1 .. Len(list) + 1 /\ pos \in Int
      /\ \A i \in DOMAIN list : list[i] \in StemEntry
  BY StepKeeps, StemLookedAt
<1>3. /\ calls \in Seq(CallRecord) /\ answer = 0 /\ (once => calls = <<>>) /\ once \in BOOLEAN
      /\ row \in Nat
  BY StepKeeps DEF ListTypeOK, Placed, CallRecord
<1>4. /\ \A e : Reads(e)' = Reads(e)
      /\ \A i, j : RowForms(i, j)' = RowForms(i, j)
      /\ \A i : Losable(i)' = Losable(i)
  BY <1>1, SameReadings
<1>5. \A i \in 1 .. pos - 1 : ~Losable(i) => Reads(list[i]) \subseteq Range(calls)
  BY StepKeeps DEF PassedTold
(* the reader goes on behind the stem *)
<1>6. ASSUME Continue, Range(calls) \subseteq Range(calls'),
             pos \in DOMAIN list, ~Losable(pos) => Reads(list[pos]) \subseteq Range(calls')
      PROVE  PassedTold' /\ RowsTold' /\ NoneLost'
  <2>1. pc' = "entry" /\ pos' = pos + 1
    BY <1>6 DEF Continue
  <2>2. ASSUME NEW i \in 1 .. pos' - 1, ~Losable(i)  PROVE Reads(list[i]) \subseteq Range(calls')
    <3>1. CASE i = pos
      BY <1>6, <2>2, <3>1
    <3>2. CASE i # pos
      <4>1. i \in 1 .. pos - 1
        BY <1>2, <2>1, <3>2
      <4> QED  BY <1>5, <1>6, <2>2, <4>1, Zenon
    <3> QED  BY <3>1, <3>2
  <2>3. PassedTold'
    BY <1>1, <1>4, <2>2 DEF PassedTold
  <2> QED  BY <2>1, <2>3 DEF RowsTold, NoneLost
(* the call was all that was wanted *)
<1>7. ASSUME once, Leave(1)  PROVE PassedTold' /\ RowsTold' /\ NoneLost'
  BY <1>1, <1>7 DEF Leave, PassedTold, RowsTold, NoneLost
(* the next row of the stem, or the next stem *)
<1>8. ASSUME pc = "row", NextRow, Range(calls) \subseteq Range(calls'),
             list[pos].post = <<>> /\ RowForms(pos, row) # {} =>
               Reading(list[pos], RowForms(pos, row)) \in Range(calls')
      PROVE  PassedTold' /\ RowsTold' /\ NoneLost'
  <2> DEFINE ToldTo(n) == list[pos].post = <<>> =>
               \A j \in 1 .. n :
                 RowForms(pos, j) # {} => Reading(list[pos], RowForms(pos, j)) \in Range(calls')
  <2>1. pos \in DOMAIN list /\ row \in 1 .. Len(list[pos].mix) /\ Len(list[pos].mix) \in Nat
    BY <1>8, RowLookedAt DEF Placed
  <2>2. ToldTo(row)
    <3> SUFFICES ASSUME list[pos].post = <<>>, NEW j \in 1 .. row, RowForms(pos, j) # {}
                 PROVE  Reading(list[pos], RowForms(pos, j)) \in Range(calls')
      OBVIOUS
    <3>1. CASE j = row
      BY <1>8, <3>1
    <3>2. CASE j # row
      <4>1. j \in 1 .. row - 1
        BY <1>3, <3>2
      <4> QED  BY <1>8, <4>1, Zenon DEF RowsTold
    <3> QED  BY <3>1, <3>2
  <2>3. CASE row < Len(list[pos].mix)
    <3>1. pc' = "row" /\ pos' = pos /\ row' = row + 1
      BY <1>8, <2>3 DEF NextRow
    <3>2. PassedTold'
      <4>1. \A i \in 1 .. pos - 1 : ~Losable(i) => Reads(list[i]) \subseteq Range(calls')
        BY <1>5, <1>8, Zenon
      <4> QED  BY <1>1, <1>4, <3>1, <4>1 DEF PassedTold
    <3>3. RowsTold'
      <4>1. row' - 1 = row
        BY <1>3, <3>1
      <4> QED  BY <1>1, <1>4, <2>2, <3>1, <4>1 DEF RowsTold, Reading
    <3> QED  BY <3>1, <3>2, <3>3 DEF NoneLost
  <2>4. CASE ~(row < Len(list[pos].mix))
    <3>1. Continue /\ row = Len(list[pos].mix)
      BY <1>3, <1>8, <2>1, <2>4 DEF NextRow
    <3>2. ~Losable(pos) => Reads(list[pos]) \subseteq Range(calls')
      BY <1>8, <2>2, <3>1, RowsAreReads
    <3> QED  BY <1>6, <1>8, <2>1, <3>1, <3>2
  <2> QED  BY <2>3, <2>4
<1>9. CASE pc = "entry" /\ SkipsStem
  BY <1>6, <1>9, Zenon DEF SkipsStem, ReadsNone, NotCalled
<1>10. CASE pc = "entry" /\ TellsStem
  <2>1. pos \in DOMAIN list /\ IF once THEN Leave(1) ELSE Continue
    BY <1>10 DEF TellsStem
  <2>2. PICK c \in Reads(list[pos]) : Reads(list[pos]) = {c} /\ calls' = Append(calls, c)
    BY <1>10 DEF TellsStem
  <2>3. Range(calls') = Range(calls) \cup {c}
    <3>1. c \in CallRecord
      BY <1>2, <2>1, ReadsTyped
    <3> QED  BY <1>3, <2>2, <3>1, AppendedRange
  <2> QED  BY <1>6, <1>7, <2>1, <2>2, <2>3
<1>11. CASE pc = "entry" /\ TurnsToRows
  <2>1. pc' = "row" /\ pos' = pos /\ row' = 1 /\ calls' = calls
    BY <1>11 DEF TurnsToRows, NotCalled
  <2>2. PassedTold'
    BY <1>1, <1>4, <1>5, <2>1 DEF PassedTold
  <2>3. RowsTold'
    BY <2>1 DEF RowsTold
  <2> QED  BY <2>1, <2>2, <2>3 DEF NoneLost
<1>12. CASE pc = "entry" /\ StopsHere
  <2>1. pc' = "done" /\ answer' = 0 /\ calls' = calls
    BY <1>12 DEF StopsHere, Leave, NotCalled
  <2>2. ASSUME NEW i \in DOMAIN list, ~Losable(i)  PROVE Reads(list[i]) \subseteq Range(calls)
    <3>1. CASE i \in pos .. Len(list)
      BY <1>12, <2>2, <3>1 DEF StopsHere, ReadsNone
    <3>2. CASE i \in 1 .. pos - 1
      BY <1>5, <2>2, <3>2
    <3> QED  BY <1>2, <3>1, <3>2
  <2>3. NoneLost'
    BY <1>1, <1>3, <2>1, <2>2, EndTold
  <2> QED  BY <2>1, <2>3 DEF PassedTold, RowsTold
<1>13. CASE pc = "row" /\ EndsRows
  <2>1. pos \in DOMAIN list /\ row \in 1 .. Len(list[pos].mix) /\ Len(list[pos].mix) \in Nat
    BY <1>13, RowLookedAt DEF Placed
  <2>2. Continue /\ calls' = calls
    BY <1>13 DEF EndsRows, NotCalled
  <2>3. \A j \in 1 .. Len(list[pos].mix) : j \in 1 .. row - 1 \/ RowForms(pos, j) = {}
    <3>1. \A j \in 1 .. Len(list[pos].mix) : j \in 1 .. row - 1 \/ j \in row .. Len(list[pos].mix)
      BY <1>3
    <3> QED  BY <1>13, <3>1, Zenon DEF EndsRows
  <2>4. ~Losable(pos) => Reads(list[pos]) \subseteq Range(calls)
    BY <1>13, <2>3, RowsAreReads DEF RowsTold
  <2> QED  BY <1>6, <2>1, <2>2, <2>4
<1>14. CASE pc = "row" /\ SkipsRow
  BY <1>8, <1>14, Zenon DEF SkipsRow, NotCalled
<1>15. CASE pc = "row" /\ TellsRow
  <2> DEFINE c == Reading(list[pos], RowForms(pos, row))
  <2>1. calls' = Append(calls, c) /\ IF once THEN Leave(1) ELSE NextRow
    BY <1>15, Zenon DEF TellsRow
  <2>2. c \in CallRecord
    <3>1. RowForms(pos, row) \subseteq list[pos].endings
      BY DEF RowForms, Forms
    <3>2. list[pos] \in StemEntry
      BY <1>2, <1>15 DEF Placed
    <3> QED  BY <3>1, <3>2, ReadingTyped DEF CallRecord
  <2> HIDE DEF c
  <2>3. Range(calls') = Range(calls) \cup {c}
    BY <1>3, <2>1, <2>2, AppendedRange
  <2>4. c \in Range(calls') /\ Range(calls) \subseteq Range(calls')
    BY <2>3
  <2> QED  BY <1>7, <1>8, <1>15, <2>1, <2>4, Zenon DEF c
<1> QED  BY <1>9, <1>10, <1>11, <1>12, <1>13, <1>14, <1>15, StepIs, Zenon

-------------------------------------------------------------------------------
(* Nothing is told that is not so, nor twice. *)

(* A reading of the stem the reader is at goes behind those told before. *)
LEMMA OrderTold ==
  ASSUME UNCHANGED <<list, rest, good>>, DOMAIN list \subseteq Int, calls \in Seq(CallRecord),
         NEW of \in [DOMAIN calls -> DOMAIN list], TellsOf(of),
         NEW i \in DOMAIN list, NEW c \in Reads(list[i]), c \in CallRecord, calls' = Append(calls, c),
         \A k \in DOMAIN calls : of[k] < i \/ (of[k] = i /\ calls[k] # c)
  PROVE  \E new \in [DOMAIN calls' -> DOMAIN list'] :
           /\ TellsOf(new)'
           /\ \A k \in DOMAIN calls' : \/ k \in DOMAIN calls /\ new[k] = of[k] /\ calls'[k] = calls[k]
                                       \/ new[k] = i /\ calls'[k] = c
<1> DEFINE n == Len(calls)
<1>1. /\ n \in Nat /\ DOMAIN calls = 1 .. n /\ DOMAIN calls' = 1 .. n + 1
      /\ \A k \in 1 .. n : calls'[k] = calls[k]
      /\ calls'[n + 1] = c
  <2>1. /\ calls' \in Seq(CallRecord) /\ Len(calls') = n + 1
        /\ \A k \in 1 .. n : calls'[k] = calls[k]
        /\ calls'[n + 1] = c
    BY AppendProperties
  <2> QED  BY <2>1, LenProperties
<1> HIDE DEF n
<1>2. PICK new \in [DOMAIN calls' -> DOMAIN list'] :
        (\A k \in 1 .. n : new[k] = of[k]) /\ new[n + 1] = i
  <2> DEFINE f == [k \in DOMAIN calls' |-> IF k \in DOMAIN calls THEN of[k] ELSE i]
  <2>1. f \in [DOMAIN calls' -> DOMAIN list']
    OBVIOUS
  <2>2. (\A k \in 1 .. n : f[k] = of[k]) /\ f[n + 1] = i
    BY <1>1
  <2> HIDE DEF f
  <2> QED  BY <2>1, <2>2
<1>3. \A k \in 1 .. n + 1 : k \in 1 .. n \/ k = n + 1
  BY <1>1
<1>4. \A k \in 1 .. n : of[k] \in Int
  BY <1>1
<1>5. \A e : Reads(e)' = Reads(e)
  BY SameReadings
<1>6. ASSUME NEW k \in DOMAIN calls'  PROVE calls'[k] \in Reads(list[new[k]])
  <2>1. CASE k \in 1 .. n
    BY <1>1, <1>2, <2>1 DEF TellsOf
  <2>2. CASE k = n + 1
    BY <1>1, <1>2, <2>2
  <2> QED  BY <1>1, <1>3, <2>1, <2>2
<1>7. ASSUME NEW j \in DOMAIN calls', NEW k \in DOMAIN calls', j < k
      PROVE  new[j] < new[k] \/ (new[j] = new[k] /\ calls'[j] # calls'[k])
  <2>1. j \in 1 .. n
    BY <1>1, <1>7
  <2>2. CASE k \in 1 .. n
    <3>1. of[j] < of[k] \/ (of[j] = of[k] /\ calls[j] # calls[k])
      BY <1>1, <1>7, <2>1, <2>2, Zenon DEF TellsOf
    <3>2. new[j] = of[j] /\ new[k] = of[k] /\ calls'[j] = calls[j] /\ calls'[k] = calls[k]
      BY <1>1, <1>2, <2>1, <2>2, Zenon
    <3> QED  BY <3>1, <3>2
  <2>3. CASE k = n + 1
    <3>1. new[j] = of[j] /\ new[k] = i /\ calls'[j] = calls[j] /\ calls'[k] = c
      BY <1>1, <1>2, <2>1, <2>3, Zenon
    <3>2. of[j] < i \/ (of[j] = i /\ calls[j] # c)
      BY <1>1, <2>1, Zenon
    <3> QED  BY <3>1, <3>2
  <2> QED  BY <1>1, <1>3, <2>2, <2>3
<1>8. TellsOf(new)'
  BY <1>5, <1>6, <1>7 DEF TellsOf
<1>9. \A k \in DOMAIN calls' : \/ k \in DOMAIN calls /\ new[k] = of[k] /\ calls'[k] = calls[k]
                               \/ new[k] = i /\ calls'[k] = c
  <2> SUFFICES ASSUME NEW k \in DOMAIN calls'
               PROVE  \/ k \in DOMAIN calls /\ new[k] = of[k] /\ calls'[k] = calls[k]
                      \/ new[k] = i /\ calls'[k] = c
    OBVIOUS
  <2>1. CASE k \in 1 .. n
    BY <1>1, <1>2, <2>1, Zenon
  <2>2. CASE k = n + 1
    BY <1>1, <1>2, <2>2, Zenon
  <2> QED  BY <1>1, <1>3, <2>1, <2>2, Zenon
<1> QED  BY <1>8, <1>9, Zenon

(* The calls stay in the order of the list and of the rows at every step. *)
LEMMA StepOrder ==
  ASSUME ListTypeOK, BoundsFall, Placed, InOrder, Step
  PROVE  InOrder'
<1>1. UNCHANGED <<node, list, rest, good, once>>
  BY StepKeeps
<1>2. /\ Len(list) \in Nat /\ DOMAIN list = 1 .. Len(list) /\ DOMAIN list \subseteq Int
      /\ pos \in 1 .. Len(list) + 1 /\ pos \in Int /\ rest \in Texts
      /\ \A i \in DOMAIN list : list[i] \in StemEntry /\ list[i] \in Entries
  BY StepKeeps, StemLookedAt
<1>3. calls \in Seq(CallRecord) /\ row \in Nat
  BY DEF ListTypeOK, CallRecord
<1>4. /\ \A e : Reads(e)' = Reads(e)
      /\ \A i, j : RowForms(i, j)' = RowForms(i, j)
  BY <1>1, SameReadings
<1>5. PICK of \in [DOMAIN calls -> DOMAIN list] : TellsOf(of) /\ Behind(of)
  BY DEF InOrder
<1>6. \A k \in DOMAIN calls : of[k] \in DOMAIN list /\ of[k] \in Int
  BY <1>2
(* nothing new is told *)
<1>7. ASSUME calls' = calls, Behind(of)'  PROVE InOrder'
  <2>1. TellsOf(of)'
    BY <1>1, <1>4, <1>5, <1>7 DEF TellsOf
  <2> QED  BY <1>1, <1>7, <2>1 DEF InOrder
<1>8. ASSUME NextRow, pc = "row", calls' = calls  PROVE Behind(of)'
  <2>1. CASE row < Len(list[pos].mix)
    <3>1. pc' = "row" /\ pos' = pos /\ row' = row + 1
      BY <1>8, <2>1 DEF NextRow
    <3>2. 1 .. row - 1 \subseteq 1 .. row' - 1
      BY <1>3, <3>1
    <3> QED  BY <1>1, <1>4, <1>5, <1>8, <3>1, <3>2 DEF Behind, Reading
  <2>2. CASE ~(row < Len(list[pos].mix))
    <3>1. pc' = "entry" /\ pos' = pos + 1
      BY <1>8, <2>2 DEF NextRow, Continue
    <3>2. \A k \in DOMAIN calls : of[k] < pos + 1
      BY <1>2, <1>5, <1>6, <1>8 DEF Behind
    <3> QED  BY <1>8, <3>1, <3>2 DEF Behind
  <2> QED  BY <2>1, <2>2
<1>9. CASE pc = "entry" /\ SkipsStem
  <2>1. pc' = "entry" /\ pos' = pos + 1 /\ calls' = calls
    BY <1>9 DEF SkipsStem, Continue, NotCalled
  <2>2. \A k \in DOMAIN calls : of[k] < pos + 1
    BY <1>2, <1>5, <1>6, <1>9 DEF Behind
  <2> QED  BY <1>7, <2>1, <2>2 DEF Behind
<1>10. CASE pc = "entry" /\ TurnsToRows
  <2>1. pc' = "row" /\ pos' = pos /\ calls' = calls
    BY <1>10 DEF TurnsToRows, NotCalled
  <2> QED  BY <1>5, <1>7, <1>10, <2>1 DEF Behind
<1>11. CASE pc = "entry" /\ StopsHere
  <2>1. pc' = "done" /\ calls' = calls
    BY <1>11 DEF StopsHere, Leave, NotCalled
  <2> QED  BY <1>7, <2>1 DEF Behind
<1>12. CASE pc = "row" /\ EndsRows
  <2>1. pc' = "entry" /\ pos' = pos + 1 /\ calls' = calls
    BY <1>12 DEF EndsRows, Continue, NotCalled
  <2>2. \A k \in DOMAIN calls : of[k] < pos + 1
    BY <1>2, <1>5, <1>6, <1>12 DEF Behind
  <2> QED  BY <1>7, <2>1, <2>2 DEF Behind
<1>13. CASE pc = "row" /\ SkipsRow
  BY <1>7, <1>8, <1>13 DEF SkipsRow, NotCalled
<1>14. CASE pc = "entry" /\ TellsStem
  <2>1. pos \in DOMAIN list /\ IF once THEN Leave(1) ELSE Continue
    BY <1>14 DEF TellsStem
  <2>2. PICK c \in Reads(list[pos]) : calls' = Append(calls, c)
    BY <1>14 DEF TellsStem
  <2>3. c \in CallRecord
    BY <1>2, <2>1, ReadsTyped
  <2>4. PICK i \in DOMAIN list : i = pos
    BY <2>1
  <2>5. c \in Reads(list[i]) /\ \A k \in DOMAIN calls : of[k] < i \/ (of[k] = i /\ calls[k] # c)
    BY <1>5, <1>14, <2>2, <2>4 DEF Behind
  <2>6. PICK new \in [DOMAIN calls' -> DOMAIN list'] :
          /\ TellsOf(new)'
          /\ \A k \in DOMAIN calls' : \/ k \in DOMAIN calls /\ new[k] = of[k] /\ calls'[k] = calls[k]
                                      \/ new[k] = i /\ calls'[k] = c
    BY <1>1, <1>2, <1>3, <1>5, <2>2, <2>3, <2>5, OrderTold
  <2>7. pc' = "done" \/ (pc' = "entry" /\ pos' = pos + 1)
    BY <2>1 DEF Leave, Continue
  <2>8. \A k \in DOMAIN calls' : new[k] < pos + 1
    <3>1. \A k \in DOMAIN calls : of[k] < pos
      BY <1>5, <1>14 DEF Behind
    <3> QED  BY <1>2, <1>6, <2>4, <2>6, <3>1
  <2>9. Behind(new)'
    BY <2>7, <2>8 DEF Behind
  <2> QED  BY <2>6, <2>9 DEF InOrder
<1>15. CASE pc = "row" /\ TellsRow
  <2> DEFINE e == list[pos]
             c == Reading(e, RowForms(pos, row))
  <2>1. calls' = Append(calls, c) /\ RowForms(pos, row) # {} /\ IF once THEN Leave(1) ELSE NextRow
    BY <1>15, Zenon DEF TellsRow
  <2>2. /\ pos \in DOMAIN list /\ Mixes(e) /\ EndsWithPost(e) /\ e.minCap \in good
        /\ row \in DOMAIN e.mix /\ DOMAIN e.mix = 1 .. Len(e.mix) /\ Len(e.mix) \in Nat
        /\ e \in Entries /\ e \in StemEntry
    BY <1>2, <1>15, RowLookedAt DEF Placed
  <2>3. c \in Reads(e)
    <3>1. e.mix[row] \in Alternations(e)
      BY <2>2 DEF Alternations
    <3> QED  BY <2>1, <2>2, <3>1, ReadsHold DEF RowForms, Mixes
  <2>4. c \in CallRecord
    BY <2>2, <2>3, ReadsTyped
  <2>5. ASSUME NEW k \in DOMAIN calls
        PROVE  of[k] < pos \/ (of[k] = pos /\ calls[k] # c)
    <3>1. CASE of[k] < pos
      BY <3>1
    <3>2. CASE /\ of[k] = pos
               /\ \E j \in 1 .. row - 1 : RowForms(pos, j) # {} /\ calls[k] = Reading(e, RowForms(pos, j))
      <4>1. PICK j \in 1 .. row - 1 : RowForms(pos, j) # {} /\ calls[k] = Reading(e, RowForms(pos, j))
        BY <3>2
      <4>2. j \in DOMAIN e.mix /\ j < row
        <5>1. row \in 1 .. Len(e.mix)
          BY <2>2
        <5> HIDE DEF e
        <5> QED  BY <2>2, <4>1, <5>1
      <4>3. Flective(e)
        BY <2>2 DEF Mixes
      <4>4. RowForms(pos, j) # RowForms(pos, row)
        BY <1>2, <2>2, <4>1, <4>2, <4>3, RowsReadApart, Zenon DEF RowForms
      <4>5. calls[k] # c
        BY <4>1, <4>4 DEF Reading
      <4> QED  BY <3>2, <4>5
    <3> QED  BY <1>5, <1>15, <3>1, <3>2, Zenon DEF Behind
  <2>6. PICK i \in DOMAIN list, d \in CallRecord : i = pos /\ d = c
    BY <2>2, <2>4
  <2> HIDE DEF c, e
  <2>7. d \in Reads(list[i]) /\ calls' = Append(calls, d)
    BY <2>1, <2>3, <2>6 DEF e
  <2>8. \A k \in DOMAIN calls : of[k] < i \/ (of[k] = i /\ calls[k] # d)
    BY <2>5, <2>6
  <2>9. PICK new \in [DOMAIN calls' -> DOMAIN list'] :
          /\ TellsOf(new)'
          /\ \A k \in DOMAIN calls' : \/ k \in DOMAIN calls /\ new[k] = of[k] /\ calls'[k] = calls[k]
                                      \/ new[k] = i /\ calls'[k] = d
    BY <1>1, <1>2, <1>3, <1>5, <2>7, <2>8, OrderTold
  <2>10. CASE pc' = "row" /\ pos' = pos /\ row' = row + 1
    <3>1. ASSUME NEW k \in DOMAIN calls'
          PROVE  \/ new[k] < pos
                 \/ /\ new[k] = pos
                    /\ \E j \in 1 .. row : RowForms(pos, j) # {} /\ calls'[k] = Reading(list[pos], RowForms(pos, j))
      <4>1. CASE new[k] = i /\ calls'[k] = d
        <5>1. row \in 1 .. row
          BY <1>3, <2>2 DEF e
        <5> QED  BY <2>1, <2>6, <4>1, <5>1 DEF c, e
      <4>2. CASE k \in DOMAIN calls /\ new[k] = of[k] /\ calls'[k] = calls[k]
        <5>1. 1 .. row - 1 \subseteq 1 .. row
          BY <1>3
        <5> QED  BY <1>5, <1>15, <4>2, <5>1, Zenon DEF Behind
      <4> QED  BY <2>9, <4>1, <4>2
    <3>2. row' - 1 = row
      BY <1>3, <2>10
    <3>3. Behind(new)'
      BY <1>1, <1>4, <2>10, <3>1, <3>2 DEF Behind, Reading
    <3> QED  BY <2>9, <3>3 DEF InOrder
  <2>11. CASE pc' = "entry" /\ pos' = pos + 1
    <3>1. \A k \in DOMAIN calls' : new[k] < pos + 1
      <4> SUFFICES ASSUME NEW k \in DOMAIN calls'  PROVE new[k] < pos + 1
        OBVIOUS
      <4>1. CASE new[k] = i
        BY <1>2, <2>6, <4>1
      <4>2. CASE k \in DOMAIN calls /\ new[k] = of[k]
        BY <1>2, <1>6, <2>5, <4>2
      <4> QED  BY <2>9, <4>1, <4>2
    <3>2. Behind(new)'
      BY <2>11, <3>1 DEF Behind
    <3> QED  BY <2>9, <3>2 DEF InOrder
  <2>12. CASE pc' = "done"
    <3>1. Behind(new)'
      BY <2>12 DEF Behind
    <3> QED  BY <2>9, <3>1 DEF InOrder
  <2> QED  BY <1>15, <2>1, <2>10, <2>11, <2>12 DEF Leave, NextRow, Continue
<1> QED  BY <1>9, <1>10, <1>11, <1>12, <1>13, <1>14, <1>15, StepIs, Zenon

-------------------------------------------------------------------------------
(* The invariant holds of every list and of every lookup. *)

(* With nothing told there is nothing to answer for. *)
LEMMA NothingTold == calls = <<>> => InOrder
<1> SUFFICES ASSUME calls = <<>>  PROVE InOrder
  OBVIOUS
<1>1. DOMAIN calls = {}
  BY EmptySeq
<1> DEFINE of == [k \in DOMAIN calls |-> k]
<1>2. of \in [DOMAIN calls -> DOMAIN list]
  BY <1>1
<1>3. TellsOf(of) /\ Behind(of)
  BY <1>1 DEF TellsOf, Behind
<1> HIDE DEF of
<1> QED  BY <1>2, <1>3 DEF InOrder

(* The inductive invariant holds where nothing is built or looked up. *)
LEMMA ListInit == Init => ListInv
<1> SUFFICES ASSUME Init  PROVE ListInv
  OBVIOUS
<1>1. /\ node = <<>> /\ list = <<>> /\ pc = "build" /\ rest = <<>> /\ good = {} /\ once = FALSE
      /\ pos = 0 /\ row = 0 /\ calls = <<>> /\ answer = 0
  BY DEF Init
<1>2. ListTypeOK
  <2>1. <<>> \in Texts /\ <<>> \in Seq(Entries) /\ <<>> \in Seq(CallRecord) /\ Len(<<>>) = 0
    BY EmptySeq DEF Texts
  <2>2. MaxEntries \in Nat /\ 0 \in 0 .. MaxEntries + 1 /\ 0 <= MaxEntries
    BY StemsAssumption
  <2> QED  BY <1>1, <2>1, <2>2, Zenon DEF ListTypeOK, CallRecord
<1>3. BoundsFall
  BY <1>1, EmptySeq DEF BoundsFall
<1>4. Placed /\ PassedTold /\ RowsTold /\ NoneLost
  BY <1>1 DEF Placed, PassedTold, RowsTold, NoneLost
<1>5. InOrder
  BY <1>1, NothingTold
<1> QED  BY <1>2, <1>3, <1>4, <1>5 DEF ListInv

(* A list with one stem more is still in order. *)
LEMMA InsertKeeps ==
  ASSUME ListInv, Insert
  PROVE  ListInv'
<1>1. /\ pc = "build" /\ Len(list) < MaxEntries
      /\ UNCHANGED <<pc, rest, good, once, pos, row, calls, answer>>
  BY DEF Insert
<1>2. PICK s \in Stems : node' = s.at /\ list' = InsertAt(list, InsertPlace(list, s.entry), s.entry)
  BY DEF Insert
<1>3. ListTypeOK /\ BoundsFall /\ Placed
  BY DEF ListInv
<1>4. list' \in Seq(Entries) /\ Len(list') = Len(list) + 1 /\ BoundsFall'
  <2>1. s.entry \in Entries /\ list \in Seq(Entries)
    BY <1>3 DEF Entries, ListTypeOK
  <2> QED  BY <1>2, <1>3, <2>1, InsertKeepsBounds
<1>5. ListTypeOK'
  <2>1. node' \in Texts /\ Len(list') <= MaxEntries
    <3>1. Len(list) \in Nat
      BY <1>3, LenProperties DEF ListTypeOK
    <3> QED  BY <1>1, <1>2, <1>4, <3>1, StemsAssumption
  <2> QED  BY <1>1, <1>3, <1>4, <2>1 DEF ListTypeOK
<1>6. calls' = <<>> /\ answer' = 0 /\ pc' = "build"
  BY <1>1, <1>3 DEF Placed
<1>7. Placed' /\ PassedTold' /\ RowsTold' /\ NoneLost'
  BY <1>6 DEF Placed, PassedTold, RowsTold, NoneLost
<1>8. InOrder'
  <2>1. (calls = <<>>)'
    BY <1>6
  <2> QED  BY <2>1, NothingTold, PTL
<1> QED  BY <1>4, <1>5, <1>7, <1>8 DEF ListInv

(* Nor does what is between the lookups disturb it. *)
LEMMA BetweenKeeps ==
  ASSUME ListInv, Save \/ Look \/ Return
  PROVE  ListInv'
<1>1. ListTypeOK /\ BoundsFall /\ Placed
  BY DEF ListInv
<1>2. UNCHANGED <<node, list>> /\ BoundsFall'
  BY <1>1 DEF Save, Look, Return, BoundsFall
<1>3. calls' = <<>> /\ answer' = 0
  BY <1>1 DEF Save, Look, Return, Placed
<1>4. pc' \in {"idle", "entry"} /\ (pc' = "entry" => pos' = 1)
  BY DEF Save, Look, Return
<1>5. /\ rest' \in Rests \cup {<<>>} /\ good' \subseteq 0 .. 2 /\ once' \in BOOLEAN
      /\ pos' \in 0 .. MaxEntries + 1 /\ row' \in Nat
  <2>1. MaxEntries \in Nat /\ 0 \in 0 .. MaxEntries + 1 /\ 1 \in 0 .. MaxEntries + 1
    BY StemsAssumption
  <2>2. CASE Save
    BY <1>1, <2>2 DEF Save, ListTypeOK
  <2>3. CASE Look
    BY <1>1, <2>1, <2>3 DEF Look, ListTypeOK
  <2>4. CASE Return
    BY <2>1, <2>4 DEF Return
  <2> QED  BY <2>2, <2>3, <2>4
<1>6. Len(list) \in Nat
  BY <1>1, LenProperties DEF ListTypeOK
<1>7. ListTypeOK'
  BY <1>1, <1>2, <1>3, <1>4, <1>5, EmptySeq DEF ListTypeOK
<1>8. Placed' /\ PassedTold' /\ RowsTold' /\ NoneLost'
  BY <1>2, <1>3, <1>4, <1>6 DEF Placed, PassedTold, RowsTold, NoneLost
<1>9. InOrder'
  <2>1. (calls = <<>>)'
    BY <1>3
  <2> QED  BY <2>1, NothingTold, PTL
<1> QED  BY <1>2, <1>7, <1>8, <1>9 DEF ListInv

(* What stands still stays so. *)
LEMMA StutterKeeps ==
  ASSUME ListInv, UNCHANGED vars
  PROVE  ListInv'
<1>1. UNCHANGED <<node, list, pc, rest, good, once, pos, row, calls, answer>>
  BY DEF vars
<1>2. ListTypeOK' /\ BoundsFall'
  BY <1>1 DEF ListInv, ListTypeOK, BoundsFall
<1>3. /\ \A e : Reads(e)' = Reads(e)
      /\ \A i, j : RowForms(i, j)' = RowForms(i, j)
      /\ \A i : Losable(i)' = Losable(i)
      /\ \A e : EndsWithPost(e)' = EndsWithPost(e)
  BY <1>1, SameReadings
<1>4. Placed' /\ PassedTold' /\ RowsTold'
  BY <1>1, <1>3 DEF ListInv, Placed, PassedTold, RowsTold, Reading
<1>5. InOrder'
  <2>1. PICK of \in [DOMAIN calls -> DOMAIN list] : TellsOf(of) /\ Behind(of)
    BY DEF ListInv, InOrder
  <2>2. TellsOf(of)'
    BY <1>1, <1>3, <2>1 DEF TellsOf
  <2>3. Behind(of)'
    BY <1>1, <1>3, <2>1 DEF Behind, Reading
  <2> QED  BY <1>1, <2>1, <2>2, <2>3 DEF InOrder
<1>6. NoneLost'
  BY <1>1, <1>3 DEF ListInv, NoneLost
<1> QED  BY <1>2, <1>4, <1>5, <1>6 DEF ListInv

(* Every step keeps the inductive invariant. *)
LEMMA ListStep == ListInv /\ [Next]_vars => ListInv'
<1> SUFFICES ASSUME ListInv, [Next]_vars  PROVE ListInv'
  OBVIOUS
<1>1. CASE Insert
  BY <1>1, InsertKeeps
<1>2. CASE Save \/ Look \/ Return
  BY <1>2, BetweenKeeps
<1>3. CASE Step
  <2>1. ListTypeOK /\ BoundsFall /\ Placed /\ PassedTold /\ RowsTold /\ InOrder
    BY DEF ListInv
  <2>2. ListTypeOK' /\ Placed'
    BY <1>3, <2>1, StepTyped
  <2>3. PassedTold' /\ RowsTold' /\ NoneLost'
    BY <1>3, <2>1, StepTold
  <2>4. InOrder'
    BY <1>3, <2>1, StepOrder
  <2>5. BoundsFall'
    BY <1>3, <2>1, StepKeeps DEF BoundsFall
  <2> QED  BY <2>2, <2>3, <2>4, <2>5 DEF ListInv
<1>4. CASE UNCHANGED vars
  BY <1>4, StutterKeeps
<1> QED  BY <1>1, <1>2, <1>3, <1>4 DEF Next

(* The inductive invariant holds throughout, for any dictionary whose rows   *)
(* ascend and whose postfixes are apart from endings and rows                *)
(* (StemsAssumption, RowsAscend, PostsApart), any rests and lists of any     *)
(* length.                                                                   *)
THEOREM ListInvariant == Spec => []ListInv
BY ListInit, ListStep, PTL DEF Spec

(* The list and the lookup stay within their types, for any dictionary whose   *)
(* stems do, any rests and lists of any length.                                *)
THEOREM ListTyping == Spec => []ListTypeOK
<1>1. ListInv => ListTypeOK
  BY DEF ListInv
<1> QED  BY <1>1, ListInvariant, PTL

(* Wherever the builder's binary search puts the next stem, the bounds of the  *)
(* list fall: what the reader's early exit trusts (buildmorph.h:187-190,       *)
(* scanlist.h:96-97).                                                          *)
THEOREM OrderTrusted == Spec => []BoundsFall
<1>1. ListInv => BoundsFall
  BY DEF ListInv
<1> QED  BY <1>1, ListInvariant, PTL

(* Whatever the dictionary and the rest of the word, each call of InsertStem   *)
(* is a reading of the rest by the grammar, the stems come in the order of the *)
(* list and no reading of a stem comes twice (scanlist.h:92-172).              *)
THEOREM CallsSound == Spec => []CallsAreReadings
<1>1. ListInv => CallsAreReadings
  BY DEF ListInv, InOrder, TellsOf, CallsAreReadings
<1> QED  BY <1>1, ListInvariant, PTL

(* And none is lost by the exits at a bound and at a row, other than the kinds *)
(* of stem the code is known to lose (scanlist.h:92-172).                      *)
THEOREM CallsComplete == Spec => []NoneLost
<1>1. ListInv => NoneLost
  BY DEF ListInv
<1> QED  BY <1>1, ListInvariant, PTL

===============================================================================
