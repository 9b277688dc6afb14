----------------------------- MODULE GrammarProofs -----------------------------
(***************************************************************************)
(* Proofs about GrammarMap: the number of a form and its description, for  *)
(* every dictionary and all tables of endings that keep to the shapes of   *)
(* PlainTableAssumption.                                                   *)
(***************************************************************************)
EXTENDS GrammarMap, TLAPS

-------------------------------------------------------------------------------
(* Fields of bits *)

(* The bits of a number below 4, and of one below 8. *)
LEMMA SmallBits ==
  ASSUME NEW low \in Nat
  PROVE  /\ At(0, low) = {} /\ At(1, low) = {low} /\ At(2, low) = {low + 1}
         /\ At(3, low) = {low, low + 1} /\ At(4, low) = {low + 2} /\ At(5, low) = {low, low + 2}
         /\ At(6, low) = {low + 1, low + 2} /\ At(7, low) = {low, low + 1, low + 2}
  BY DEF At, If

(* A field put into a description that had none is read back, and the other bits *)
(* stay as they are.                                                             *)
LEMMA FieldPut3 ==
  ASSUME NEW low \in Nat, NEW v \in 0 .. 7, NEW info,
         low \notin info, low + 1 \notin info, low + 2 \notin info
  PROVE  /\ Field3(info \cup At(v, low), low) = v
         /\ At(v, low) \subseteq {low, low + 1, low + 2}
  <1>2. v = 0 \/ v = 1 \/ v = 2 \/ v = 3 \/ v = 4 \/ v = 5 \/ v = 6 \/ v = 7
    OBVIOUS
  <1>3. low # low + 1 /\ low # low + 2 /\ low + 1 # low + 2
    OBVIOUS
  <1> QED  BY <1>2, <1>3, SmallBits DEF Field3, Field2, Bit

LEMMA FieldPut2 ==
  ASSUME NEW low \in Nat, NEW v \in 0 .. 3, NEW info, low \notin info, low + 1 \notin info
  PROVE  /\ Field2(info \cup At(v, low), low) = v
         /\ At(v, low) \subseteq {low, low + 1}
  <1>2. v = 0 \/ v = 1 \/ v = 2 \/ v = 3
    OBVIOUS
  <1>3. low # low + 1
    OBVIOUS
  <1> QED  BY <1>2, <1>3, SmallBits DEF Field2, Bit

(* ... and read where it stands alone. *)
LEMMA FieldAlone ==
  ASSUME NEW low \in Nat
  PROVE  /\ \A v \in 0 .. 7 : Field3(At(v, low), low) = v /\ At(v, low) \subseteq {low, low + 1, low + 2}
         /\ \A v \in 0 .. 3 : Field2(At(v, low), low) = v /\ At(v, low) \subseteq {low, low + 1}
  <1>1. \A v \in 0 .. 7 : Field3({} \cup At(v, low), low) = v /\ At(v, low) \subseteq {low, low + 1, low + 2}
    <2>1. ASSUME NEW v \in 0 .. 7, NEW info, info = {}
          PROVE  Field3(info \cup At(v, low), low) = v /\ At(v, low) \subseteq {low, low + 1, low + 2}
      BY <2>1, FieldPut3
    <2> QED  BY <2>1
  <1>2. \A v \in 0 .. 3 : Field2({} \cup At(v, low), low) = v /\ At(v, low) \subseteq {low, low + 1}
    <2>1. ASSUME NEW v \in 0 .. 3, NEW info, info = {}
          PROVE  Field2(info \cup At(v, low), low) = v /\ At(v, low) \subseteq {low, low + 1}
      BY <2>1, FieldPut2
    <2> QED  BY <2>1
  <1>3. \A x : {} \cup x = x
    OBVIOUS
  <1> QED  BY <1>1, <1>2, <1>3

(* The value of a field put back gives the bits of the field. *)
LEMMA FieldGot3 ==
  ASSUME NEW low \in Nat, NEW info
  PROVE  /\ Field3(info, low) \in 0 .. 7
         /\ At(Field3(info, low), low) = info \cap (low .. low + 2)
  <1>1. Field3(info, low) \in 0 .. 7
    BY DEF Field3, Field2, Bit
  <1>2. low .. low + 2 = {low, low + 1, low + 2}
    OBVIOUS
  <1>3. At(Field3(info, low), low) = info \cap {low, low + 1, low + 2}
    <2>1. CASE low \in info
      BY <2>1, SmallBits DEF Field3, Field2, Bit
    <2>2. CASE low \notin info
      BY <2>2, SmallBits DEF Field3, Field2, Bit
    <2> QED  BY <2>1, <2>2
  <1> QED  BY <1>1, <1>2, <1>3

LEMMA FieldGot2 ==
  ASSUME NEW low \in Nat, NEW info
  PROVE  /\ Field2(info, low) \in 0 .. 3
         /\ At(Field2(info, low), low) = info \cap (low .. low + 1)
  <1>1. Field2(info, low) \in 0 .. 3
    BY DEF Field2, Bit
  <1>2. low .. low + 1 = {low, low + 1}
    OBVIOUS
  <1>3. At(Field2(info, low), low) = info \cap {low, low + 1}
    BY SmallBits DEF Field2, Bit
  <1> QED  BY <1>1, <1>2, <1>3

-------------------------------------------------------------------------------
(* From a number to a description and back *)

(* The bits outside a mask are the same. *)
Keeps(info, base, mask) == \A b \in Bits \ mask : b \in info <=> b \in base

(* What numbers the form f of a description that was made for it: f, or one less  *)
(* for an accusative that is of both kinds though the animate one was asked for.  *)
Reads(n, f, info, flags) ==
  n = f \/ (n = f - 1 /\ Alive \subseteq flags /\ CaseOf(info) = 3)

(* Cases: the number of a case leads to the bits that have this number. *)
LEMMA CaseThere ==
  ASSUME NEW f \in 0 .. 8, NEW info, info \cap gfFormMask = {}, NEW flags,
         Has(flags, getCaseInfo(f, info).bflags)
  PROVE  LET c == getCaseInfo(f, info) IN
           /\ c.ok
           /\ Reads(mapCaseInfo(c.grinfo, flags), f, c.grinfo, flags)
           /\ Keeps(c.grinfo, info, gfFormMask)
  <1> DEFINE c == getCaseInfo(f, info)
             v == IF f >= 5 THEN f - 1 ELSE IF f <= 2 THEN f ELSE 3
  <1>0. 12 \notin info /\ 13 \notin info /\ 14 \notin info
    BY DEF gfFormMask
  <1>1. v \in 0 .. 7
    OBVIOUS
  <1>2. c.ok /\ c.grinfo = info \cup At(v, 12)
    BY DEF getCaseInfo, Gram
  <1>3. CaseOf(c.grinfo) = v
    BY <1>0, <1>1, <1>2, FieldPut3 DEF CaseOf
  <1>4. Keeps(c.grinfo, info, gfFormMask)
    <2>1. At(v, 12) \subseteq {12, 12 + 1, 12 + 2}
      BY <1>0, <1>1, FieldPut3
    <2> QED  BY <1>2, <2>1 DEF Keeps, gfFormMask
  <1>5. CASE f # 3 /\ f # 4
    BY <1>2, <1>3, <1>4, <1>5 DEF mapCaseInfo, Reads
  <1>6. CASE f = 3
    <2>1. afNotAlive \in flags
      BY <1>6 DEF getCaseInfo, Gram, Has
    <2> QED  BY <1>2, <1>3, <1>4, <1>6, <2>1 DEF mapCaseInfo, Reads
  <1>7. CASE f = 4
    <2>1. afAnimated \in flags
      BY <1>7 DEF getCaseInfo, Gram, Has
    <2>2. afNotAlive \in flags => Alive \subseteq flags
      BY <2>1 DEF Alive
    <2> QED  BY <1>2, <1>3, <1>4, <1>7, <2>2 DEF mapCaseInfo, Reads
  <1> QED  BY <1>5, <1>6, <1>7

(* The bits of case, number, gender and short form. *)
DeclinedBits == gfFormMask \cup gfMultiple \cup gfGendMask \cup gfShortOne

LEMMA DeclinedBitsAre == DeclinedBits = 8 .. 14
  BY DEF DeclinedBits, gfFormMask, gfMultiple, gfGendMask, gfShortOne

(* Genders: the same for the thirty-two forms of a declension. *)
LEMMA GenderThere ==
  ASSUME NEW f \in 0 .. 31, NEW info, info \cap DeclinedBits = {}, NEW flags,
         Has(flags, getGendInfo(f, info).bflags)
  PROVE  LET c == getGendInfo(f, info) IN
           /\ c.ok
           /\ Reads(mapGendInfo(c.grinfo, flags), f, c.grinfo, flags)
           /\ Keeps(c.grinfo, info, DeclinedBits)
  <1> DEFINE c == getGendInfo(f, info)
             q == f \div 8
             r == f % 8
             gendered == info \cup (IF f >= 24 THEN gfMultiple ELSE At(q + 1, 9))
  <1>1. q \in 0 .. 3 /\ r \in 0 .. 7 /\ f = 8 * q + r /\ (f >= 24 <=> q = 3)
    OBVIOUS
  <1>2. \A b \in info : b \notin 8 .. 14
    BY DeclinedBitsAre
  <1>3. gendered \cap gfFormMask = {} /\ Keeps(gendered, info, gfMultiple \cup gfGendMask)
    <2>1. CASE q = 3
      BY <1>1, <1>2, <2>1 DEF gfMultiple, gfFormMask, gfGendMask, Keeps
    <2>2. CASE q # 3
      <3>1. At(q + 1, 9) \subseteq {9, 9 + 1}
        <4>1. q + 1 \in 0 .. 3 /\ 9 \notin info /\ 9 + 1 \notin info
          BY <1>1, <1>2, <2>2
        <4> HIDE DEF q
        <4> QED  BY <4>1, FieldPut2
      <3> QED  BY <1>1, <1>2, <2>2, <3>1 DEF gfFormMask, gfGendMask, Keeps
    <2> QED  BY <2>1, <2>2
  <1>4. ASSUME NEW x, Keeps(x, gendered, gfFormMask \cup gfShortOne)
        PROVE  mapGenderOf(x) = q
    <2>1. 9 \in x <=> 9 \in gendered
      BY <1>4 DEF Keeps, Bits, gfFormMask, gfShortOne
    <2>2. 10 \in x <=> 10 \in gendered
      BY <1>4 DEF Keeps, Bits, gfFormMask, gfShortOne
    <2>3. 11 \in x <=> 11 \in gendered
      BY <1>4 DEF Keeps, Bits, gfFormMask, gfShortOne
    <2>4. CASE q = 3
      BY <1>1, <2>3, <2>4 DEF gfMultiple, mapGenderOf, Has
    <2>5. CASE q # 3
      <3>2. Field2(gendered, 9) = q + 1 /\ At(q + 1, 9) \subseteq {9, 10}
        BY <1>1, <1>2, <2>5, FieldPut2
      <3>3. 11 \notin gendered
        BY <1>1, <1>2, <2>5, <3>2
      <3>4. Field2(x, 9) = q + 1
        BY <2>1, <2>2, <3>2 DEF Field2, Bit
      <3> QED  BY <1>1, <2>3, <2>5, <3>3, <3>4 DEF gfMultiple, mapGenderOf, GendOf, Has
    <2> QED  BY <2>4, <2>5
  <1>5. CASE r = 7
    <2>1. c.ok /\ c.grinfo = gendered \cup gfShortOne
      BY <1>1, <1>5 DEF getGendInfo, Gram
    <2>2. mapGenderOf(c.grinfo) = q
      BY <1>4, <2>1 DEF Keeps
    <2>3. mapGendInfo(c.grinfo, flags) = f
      <3>1. Has(c.grinfo, gfShortOne)
        BY <2>1 DEF Has, gfShortOne
      <3> QED  BY <1>1, <1>5, <2>2, <3>1 DEF mapGendInfo
    <2> QED  BY <1>3, <2>1, <2>3 DEF Reads, Keeps, DeclinedBits
  <1>6. CASE r # 7
    <2>1. c = getCaseInfo(r, gendered)
      BY <1>1, <1>6 DEF getGendInfo
    <2>2. /\ c.ok
          /\ Reads(mapCaseInfo(c.grinfo, flags), r, c.grinfo, flags)
          /\ Keeps(c.grinfo, gendered, gfFormMask)
      <3>1. Has(flags, getCaseInfo(r, gendered).bflags)
        BY <2>1
      <3>2. r \in 0 .. 8
        BY <1>1
      <3> HIDE DEF r, gendered
      <3>3. /\ getCaseInfo(r, gendered).ok
            /\ Reads(mapCaseInfo(getCaseInfo(r, gendered).grinfo, flags), r,
                     getCaseInfo(r, gendered).grinfo, flags)
            /\ Keeps(getCaseInfo(r, gendered).grinfo, gendered, gfFormMask)
        BY <1>3, <3>1, <3>2, CaseThere
      <3> QED  BY <2>1, <3>3, Zenon
    <2>3. mapGenderOf(c.grinfo) = q
      BY <1>4, <2>2 DEF Keeps
    <2>4. ~Has(c.grinfo, gfShortOne)
      <3>1. 8 \notin gendered
        BY <1>2, <1>3 DEF Keeps, Bits, gfMultiple, gfGendMask
      <3> QED  BY <2>2, <3>1 DEF Keeps, Bits, gfFormMask, gfShortOne, Has
    <2>5. Reads(mapGendInfo(c.grinfo, flags), f, c.grinfo, flags)
      <3>1. CASE mapCaseInfo(c.grinfo, flags) = r
        BY <1>1, <2>3, <2>4, <3>1 DEF mapGendInfo, Reads
      <3>2. CASE mapCaseInfo(c.grinfo, flags) = r - 1
        <4>1. (Alive \subseteq flags /\ CaseOf(c.grinfo) = 3) \/ mapCaseInfo(c.grinfo, flags) = r
          BY <2>2 DEF Reads
        <4>2. CASE Alive \subseteq flags /\ CaseOf(c.grinfo) = 3
          <5>1. mapCaseInfo(c.grinfo, flags) \in 3 .. 4
            BY <4>2 DEF mapCaseInfo
          <5> QED  BY <1>1, <2>3, <2>4, <3>2, <4>2, <5>1 DEF mapGendInfo, Reads
        <4> QED  BY <3>1, <4>1, <4>2
      <3> QED  BY <2>2, <3>1, <3>2 DEF Reads
    <2> QED  BY <1>3, <2>2, <2>5 DEF Keeps, DeclinedBits
  <1> QED  BY <1>5, <1>6

(* What the functions for cases and genders return are bytes. *)
LEMMA CaseBytes ==
  ASSUME NEW info, NEW flags
  PROVE  /\ mapCaseInfo(info, flags) \in 0 .. 8 /\ mapGenderOf(info) \in 0 .. 255
         /\ mapGendInfo(info, flags) \in 0 .. 255
         /\ Ret(info) \in 0 .. 1 /\ Mult(info) \in 0 .. 1 /\ mapVerbTant(info) \in 0 .. 3
  <1>1. mapCaseInfo(info, flags) \in 0 .. 8
    <2>1. CaseOf(info) \in 0 .. 7
      BY FieldGot3 DEF CaseOf
    <2> QED  BY <2>1 DEF mapCaseInfo
  <1>2. mapGenderOf(info) \in 0 .. 255
    <2>1. GendOf(info) \in 0 .. 3
      BY FieldGot2 DEF GendOf
    <2> QED  BY <2>1 DEF mapGenderOf
  <1>3. mapGendInfo(info, flags) \in 0 .. 255
    BY <1>1, <1>2 DEF mapGendInfo
  <1>4. Ret(info) \in 0 .. 1 /\ Mult(info) \in 0 .. 1
    BY DEF Ret, Mult
  <1>5. mapVerbTant(info) \in 0 .. 3
    BY <1>4 DEF mapVerbTant
  <1> QED  BY <1>1, <1>2, <1>3, <1>4, <1>5

(* Adjectives: every number up to the last. *)
LEMMA DefsThere ==
  ASSUME NEW f \in 0 .. 65, NEW flags, Has(flags, GetDefsInfo(f).bflags)
  PROVE  LET c == GetDefsInfo(f) IN
           c.ok /\ Reads(MapDefsInfo(c.grinfo, flags), f, c.grinfo, flags)
  <1> DEFINE c == GetDefsInfo(f)
  <1>1. CASE f = 65
    <2>1. c.ok /\ c.grinfo = gfAdverb
      BY <1>1 DEF GetDefsInfo, Gram
    <2> QED  BY <1>1, <2>1 DEF MapDefsInfo, Reads, Has, gfAdverb
  <1>2. CASE f = 64
    <2>1. c.ok /\ c.grinfo = gfCompared
      BY <1>2 DEF GetDefsInfo, Gram
    <2> QED  BY <1>2, <2>1 DEF MapDefsInfo, Reads, Has, gfAdverb, gfCompared
  <1>3. CASE f \in 0 .. 63
    <2> DEFINE base == If(f >= 32, gfRetForms)
    <2>1. c = getGendInfo(f % 32, base)
      <3>1. f # 64 /\ f # 65
        BY <1>3
      <3> QED  BY <3>1, Zenon DEF GetDefsInfo
    <2>2. base \cap DeclinedBits = {} /\ 6 \notin base /\ 7 \notin base /\ (15 \in base <=> f >= 32)
      BY DeclinedBitsAre DEF If, gfRetForms
    <2>3. /\ c.ok
          /\ Reads(mapGendInfo(c.grinfo, flags), f % 32, c.grinfo, flags)
          /\ Keeps(c.grinfo, base, DeclinedBits)
      <3>1. f % 32 \in 0 .. 31 /\ Has(flags, getGendInfo(f % 32, base).bflags)
        BY <1>3, <2>1
      <3> HIDE DEF base
      <3>2. /\ getGendInfo(f % 32, base).ok
            /\ Reads(mapGendInfo(getGendInfo(f % 32, base).grinfo, flags), f % 32,
                     getGendInfo(f % 32, base).grinfo, flags)
            /\ Keeps(getGendInfo(f % 32, base).grinfo, base, DeclinedBits)
        BY <2>2, <3>1, GenderThere
      <3> QED  BY <2>1, <3>2, Zenon
    <2>4. /\ ~Has(c.grinfo, gfAdverb) /\ ~Has(c.grinfo, gfCompared)
          /\ Ret(c.grinfo) = IF f >= 32 THEN 1 ELSE 0
      <3> HIDE DEF base, c
      <3>1. 6 \notin c.grinfo /\ 7 \notin c.grinfo /\ (15 \in c.grinfo <=> f >= 32)
        BY <2>2, <2>3, DeclinedBitsAre DEF Keeps, Bits
      <3> QED  BY <3>1 DEF Has, Ret, gfAdverb, gfCompared, gfRetForms
    <2>5. MapDefsInfo(c.grinfo, flags) = (32 * Ret(c.grinfo) + mapGendInfo(c.grinfo, flags)) % 256
      BY <2>4 DEF MapDefsInfo
    <2>6. Reads(MapDefsInfo(c.grinfo, flags), f, c.grinfo, flags)
      <3> HIDE DEF c
      <3>1. mapGendInfo(c.grinfo, flags) \in 0 .. 255
        BY CaseBytes
      <3>2. f = 32 * Ret(c.grinfo) + (f % 32)
        BY <1>3, <2>4
      <3> QED  BY <1>3, <2>3, <2>4, <2>5, <3>1, <3>2 DEF Reads
    <2> QED  BY <2>3, <2>6
  <1>4. f = 65 \/ f = 64 \/ f \in 0 .. 63
    OBVIOUS
  <1> QED  BY <1>1, <1>2, <1>3, <1>4, Zenon

(* Nouns: every number that is one; 9 is not, nor what it stands for a noun's form. *)
LEMMA NounThere ==
  ASSUME NEW f \in 0 .. 17, NEW flags, Has(flags, GetNounInfo(f).bflags),
         OfNoun(GetNounInfo(f).grinfo)
  PROVE  LET c == GetNounInfo(f) IN
           c.ok /\ Reads(MapNounInfo(c.grinfo, flags), f, c.grinfo, flags)
  <1> DEFINE c == GetNounInfo(f)
             base == If(f >= 10, gfMultiple)
             d == getCaseInfo(f % 10, base)
  <1>1. c.ok /\ c.grinfo = d.grinfo /\ c.bflags = d.bflags
    <2>1. d = [ok |-> TRUE, grinfo |-> d.grinfo, bflags |-> d.bflags]
      BY DEF getCaseInfo, Gram
    <2>2. c = [d EXCEPT !.ok = f <= 17]
      BY Zenon DEF GetNounInfo
    <2> HIDE DEF c, d
    <2>3. (f <= 17) = TRUE
      OBVIOUS
    <2>4. c = [d EXCEPT !.ok = TRUE]
      BY <2>2, <2>3
    <2>5. c = [ok |-> TRUE, grinfo |-> d.grinfo, bflags |-> d.bflags]
      BY <2>1, <2>4
    <2> QED  BY <2>5
  <1>2. 12 \notin base /\ 13 \notin base /\ 14 \notin base /\ (11 \in base <=> f >= 10)
    BY DEF If, gfMultiple
  <1>3. f % 10 \in 0 .. 8
    <2>1. SUFFICES ASSUME f % 10 = 9 PROVE FALSE
      OBVIOUS
    <2>2. 15 \in c.grinfo
      BY <2>1, <1>1 DEF getCaseInfo, Gram, At, If
    <2> QED  BY <2>2 DEF OfNoun, Within, gfFormMask, gfMultiple
  <1>4. base \cap gfFormMask = {}
    BY <1>2 DEF gfFormMask
  <1>5. /\ Reads(mapCaseInfo(d.grinfo, flags), f % 10, d.grinfo, flags)
        /\ Keeps(d.grinfo, base, gfFormMask)
    <2>1. Has(flags, getCaseInfo(f % 10, base).bflags)
      BY <1>1
    <2> HIDE DEF base
    <2>2. /\ Reads(mapCaseInfo(getCaseInfo(f % 10, base).grinfo, flags), f % 10,
                   getCaseInfo(f % 10, base).grinfo, flags)
          /\ Keeps(getCaseInfo(f % 10, base).grinfo, base, gfFormMask)
      BY <1>3, <1>4, <2>1, CaseThere
    <2> QED  BY <2>2, Zenon
  <1> HIDE DEF base, d
  <1>6. Mult(d.grinfo) = IF f >= 10 THEN 1 ELSE 0
    BY <1>2, <1>5 DEF Keeps, Bits, gfFormMask, Mult, Has, gfMultiple
  <1>7. f = 10 * Mult(d.grinfo) + (f % 10)
    BY <1>6
  <1>8. mapCaseInfo(d.grinfo, flags) \in 0 .. 8
    BY CaseBytes
  <1>9. Reads(MapNounInfo(d.grinfo, flags), f, d.grinfo, flags)
    BY <1>5, <1>6, <1>7, <1>8 DEF MapNounInfo, Reads
  <1> QED  BY <1>1, <1>9

(* Participles: declined like adjectives, and gerunds.  A time is all the description *)
(* has before.                                                                        *)
LEMMA PartsThere ==
  ASSUME NEW f \in 0 .. 97, NEW info, info \subseteq gfVerbTime, NEW flags,
         Has(flags, getAllParts(f, info).bflags)
  PROVE  LET c == getAllParts(f, info) IN
           /\ c.ok
           /\ Reads(mapAllParts(c.grinfo, flags), f, c.grinfo, flags)
           /\ Has(c.grinfo, gfVerbForm)
           /\ TimeOf(c.grinfo) = TimeOf(info)
  <1> DEFINE c == getAllParts(f, info)
  <1>1. \A b \in info : b \in 0 .. 2
    BY DEF gfVerbTime
  <1> DEFINE Base(form, rest) == info \cup rest \cup At(form, 5)
  <1>2. ASSUME NEW form \in 1 .. 3, NEW rest, rest \subseteq {15},
               NEW x, Keeps(x, Base(form, rest), DeclinedBits)
        PROVE  /\ FormOf(x) = form /\ Has(x, gfVerbForm) /\ TimeOf(x) = TimeOf(info)
               /\ Ret(x) = IF 15 \in rest THEN 1 ELSE 0
    <2>1. At(form, 5) \subseteq {5, 5 + 1} /\ Field2(info \cup rest \cup At(form, 5), 5) = form
      <3>1. 5 \notin info \cup rest /\ 5 + 1 \notin info \cup rest /\ form \in 0 .. 3
        BY <1>1, <1>2
      <3> QED  BY <3>1, FieldPut2
    <2>2. (5 \in x <=> 5 \in At(form, 5)) /\ (6 \in x <=> 6 \in At(form, 5))
      BY <1>1, <1>2, DeclinedBitsAre DEF Keeps, Bits
    <2>3. (0 \in x <=> 0 \in info) /\ (1 \in x <=> 1 \in info) /\ (2 \in x <=> 2 \in info)
      BY <1>2, <2>1, DeclinedBitsAre DEF Keeps, Bits
    <2>4. 15 \in x <=> 15 \in rest
      BY <1>1, <1>2, <2>1, DeclinedBitsAre DEF Keeps, Bits
    <2>5. FormOf(x) = form
      <3>1. 5 \notin info \cup rest /\ 6 \notin info \cup rest
        BY <1>1, <1>2
      <3> QED  BY <2>1, <2>2, <3>1 DEF FormOf, Field2, Bit
    <2>6. Has(x, gfVerbForm)
      <3>1. 5 \in x \/ 6 \in x
        BY <2>5 DEF FormOf, Field2, Bit
      <3> QED  BY <3>1 DEF Has, gfVerbForm
    <2>7. TimeOf(x) = TimeOf(info)
      BY <2>3 DEF TimeOf, Field3, Field2, Bit
    <2>8. Ret(x) = IF 15 \in rest THEN 1 ELSE 0
      BY <2>4 DEF Ret, Has, gfRetForms
    <2> QED  BY <2>5, <2>6, <2>7, <2>8
  <1>3. ASSUME NEW form \in 1 .. 3, NEW rest, rest \subseteq {15}, NEW g \in 0 .. 31,
               c = getGendInfo(g, Base(form, rest))
        PROVE  /\ c.ok
               /\ Reads(mapGendInfo(c.grinfo, flags), g, c.grinfo, flags)
               /\ Keeps(c.grinfo, Base(form, rest), DeclinedBits)
    <2> DEFINE base == Base(form, rest)
    <2>1. At(form, 5) \subseteq {5, 5 + 1}
      <3>1. 5 \notin info \cup rest /\ 5 + 1 \notin info \cup rest /\ form \in 0 .. 3
        BY <1>1, <1>3
      <3> QED  BY <3>1, FieldPut2
    <2>2. base \cap DeclinedBits = {}
      BY <1>1, <1>3, <2>1, DeclinedBitsAre
    <2>3. Has(flags, getGendInfo(g, base).bflags)
      BY <1>3
    <2> HIDE DEF base
    <2>4. /\ getGendInfo(g, base).ok
          /\ Reads(mapGendInfo(getGendInfo(g, base).grinfo, flags), g,
                   getGendInfo(g, base).grinfo, flags)
          /\ Keeps(getGendInfo(g, base).grinfo, base, DeclinedBits)
      BY <2>2, <2>3, GenderThere
    <2> QED  BY <1>3, <2>4, Zenon DEF base
  <1>4. mapGendInfo(c.grinfo, flags) \in 0 .. 255
    <2> HIDE DEF c
    <2> QED  BY CaseBytes
  <1>5. CASE f \in 96 .. 97
    <2> DEFINE rest == If(f % 2 = 1, gfRetForms)
    <2>1. c.ok /\ c.grinfo = Base(3, rest)
      BY <1>5 DEF getAllParts, Gram, vfVerbDoing
    <2>2. rest \subseteq {15} /\ (15 \in rest <=> f = 97)
      BY <1>5 DEF If, gfRetForms
    <2> HIDE DEF rest, c, Base
    <2>3. Keeps(c.grinfo, Base(3, rest), DeclinedBits)
      BY <2>1 DEF Keeps
    <2>4. /\ FormOf(c.grinfo) = 3 /\ Has(c.grinfo, gfVerbForm) /\ TimeOf(c.grinfo) = TimeOf(info)
          /\ Ret(c.grinfo) = IF f = 97 THEN 1 ELSE 0
      <3>1. 3 \in 1 .. 3 /\ rest \subseteq {15}
        BY <2>2
      <3>2. /\ FormOf(c.grinfo) = 3 /\ Has(c.grinfo, gfVerbForm) /\ TimeOf(c.grinfo) = TimeOf(info)
            /\ Ret(c.grinfo) = IF 15 \in rest THEN 1 ELSE 0
        BY <1>2, <2>3, <3>1
      <3> QED  BY <2>2, <3>2
    <2>5. mapAllParts(c.grinfo, flags) = f
      BY <1>5, <2>4 DEF mapAllParts, vfVerbActive, vfVerbPassiv
    <2>6. /\ c.ok /\ Reads(mapAllParts(c.grinfo, flags), f, c.grinfo, flags)
          /\ Has(c.grinfo, gfVerbForm) /\ TimeOf(c.grinfo) = TimeOf(info)
      BY <2>1, <2>4, <2>5 DEF Reads
    <2> QED  BY <2>6 DEF c
  <1>6. CASE f \in 64 .. 95
    <2>1. c = getGendInfo(f - 64, Base(2, {}))
      <3>1. Base(2, {}) = info \cup At(2, 5)
        OBVIOUS
      <3>2. f >= 64 /\ ~(f >= 96)
        BY <1>6
      <3> HIDE DEF Base
      <3> QED  BY <3>1, <3>2, Zenon DEF getAllParts, vfVerbPassiv
    <2>2. f - 64 \in 0 .. 31
      BY <1>6
    <2> HIDE DEF c, Base
    <2>3. /\ c.ok
          /\ Reads(mapGendInfo(c.grinfo, flags), f - 64, c.grinfo, flags)
          /\ Keeps(c.grinfo, Base(2, {}), DeclinedBits)
      BY <1>3, <2>1, <2>2
    <2>4. FormOf(c.grinfo) = 2 /\ Has(c.grinfo, gfVerbForm) /\ TimeOf(c.grinfo) = TimeOf(info)
      BY <1>2, <2>3
    <2>5. Reads(mapAllParts(c.grinfo, flags), f, c.grinfo, flags)
      BY <1>4, <1>6, <2>3, <2>4 DEF mapAllParts, Reads, vfVerbActive, vfVerbPassiv
    <2> QED  BY <2>3, <2>4, <2>5 DEF c
  <1>7. CASE f \in 0 .. 63
    <2> DEFINE rest == If(f >= 32, gfRetForms)
               g == f % 32
    <2>1. c = getGendInfo(g, Base(1, rest))
      <3>1. ~(f >= 96) /\ ~(f >= 64)
        BY <1>7
      <3> QED  BY <3>1, Zenon DEF getAllParts, vfVerbActive
    <2>2. /\ g \in 0 .. 31
          /\ rest \subseteq {15} /\ (15 \in rest <=> f >= 32)
          /\ f = (IF f >= 32 THEN 32 ELSE 0) + g
      BY <1>7 DEF If, gfRetForms
    <2> HIDE DEF c, g, rest, Base
    <2>3. /\ c.ok
          /\ Reads(mapGendInfo(c.grinfo, flags), g, c.grinfo, flags)
          /\ Keeps(c.grinfo, Base(1, rest), DeclinedBits)
      <3>1. 1 \in 1 .. 3
        OBVIOUS
      <3> QED  BY <1>3, <2>1, <2>2, <3>1, Zenon
    <2>4. /\ FormOf(c.grinfo) = 1 /\ Has(c.grinfo, gfVerbForm) /\ TimeOf(c.grinfo) = TimeOf(info)
          /\ Ret(c.grinfo) = IF f >= 32 THEN 1 ELSE 0
      <3>1. 1 \in 1 .. 3
        OBVIOUS
      <3>2. Ret(c.grinfo) = IF 15 \in rest THEN 1 ELSE 0
        BY <1>2, <2>2, <2>3, <3>1, Zenon
      <3>3. FormOf(c.grinfo) = 1 /\ Has(c.grinfo, gfVerbForm) /\ TimeOf(c.grinfo) = TimeOf(info)
        BY <1>2, <2>2, <2>3, <3>1, Zenon
      <3> QED  BY <2>2, <3>2, <3>3
    <2>5. Reads(mapAllParts(c.grinfo, flags), f, c.grinfo, flags)
      <3>1. f = 32 * Ret(c.grinfo) + g
        BY <1>7, <2>2, <2>4
      <3>2. mapAllParts(c.grinfo, flags) = (32 * Ret(c.grinfo) + mapGendInfo(c.grinfo, flags)) % 256
        BY <2>4 DEF mapAllParts, vfVerbActive, vfVerbPassiv, vfVerbDoing
      <3>3. 32 * Ret(c.grinfo) \in 0 .. 32
        BY <2>4
      <3>4. mapGendInfo(c.grinfo, flags) \in 0 .. 31
        BY <1>4, <2>2, <2>3 DEF Reads
      <3>5. mapAllParts(c.grinfo, flags) = 32 * Ret(c.grinfo) + mapGendInfo(c.grinfo, flags)
        BY <3>2, <3>3, <3>4
      <3> DEFINE n == mapGendInfo(c.grinfo, flags)
                 r == 32 * Ret(c.grinfo)
      <3>6. n = g \/ (n = g - 1 /\ Alive \subseteq flags /\ CaseOf(c.grinfo) = 3)
        BY <2>3 DEF Reads
      <3>7. f = r + g /\ mapAllParts(c.grinfo, flags) = r + n
        BY <3>1, <3>5
      <3>8. r \in 0 .. 32 /\ n \in 0 .. 31 /\ g \in 0 .. 31
        BY <2>2, <3>3, <3>4
      <3> HIDE DEF n, r
      <3> QED  BY <3>6, <3>7, <3>8 DEF Reads
    <2> QED  BY <2>3, <2>4, <2>5 DEF c
  <1>8. f \in 96 .. 97 \/ f \in 64 .. 95 \/ f \in 0 .. 63
    OBVIOUS
  <1> QED  BY <1>5, <1>6, <1>7, <1>8, Zenon

(* Personal forms: person, number and the reflexive form. *)
LEMMA PersonalThere ==
  ASSUME NEW f \in 0 .. 11, NEW t \in 0 .. 7
  PROVE  LET info == At(t, 0) \cup getPersonal(f) IN
           mapPersonal(info) = f /\ ~Has(info, gfVerbForm) /\ TimeOf(info) = t
  <1> DEFINE q == f \div 4
             r == f % 4
             info == At(t, 0) \cup getPersonal(f)
  <1>1. q \in 0 .. 2 /\ r \in 0 .. 3 /\ f = 4 * q + r
    OBVIOUS
  <1>2. info = At(t, 0) \cup At(q + 1, 3) \cup getVerbTant(r)
    BY DEF getPersonal
  <1>3. /\ (15 \in getVerbTant(r) <=> r >= 2) /\ (11 \in getVerbTant(r) <=> r \in {1, 3})
        /\ \A b \in getVerbTant(r) : b \in {11, 15}
    BY <1>1 DEF getVerbTant, If, gfRetForms, gfMultiple
  <1>4. Field3(At(t, 0), 0) = t /\ At(t, 0) \subseteq {0, 0 + 1, 0 + 2}
    BY FieldAlone
  <1>5. Field2(At(q + 1, 3), 3) = q + 1 /\ At(q + 1, 3) \subseteq {3, 3 + 1}
    <2>1. q + 1 \in 0 .. 3
      BY <1>1
    <2> HIDE DEF q
    <2> QED  BY <2>1, FieldAlone
  <1> HIDE DEF q, r, info
  <1>6. TimeOf(info) = t
    BY <1>2, <1>3, <1>4, <1>5 DEF TimeOf, Field3, Field2, Bit
  <1>7. FaceOf(info) = q + 1
    BY <1>2, <1>3, <1>4, <1>5 DEF FaceOf, Field2, Bit
  <1>8. ~Has(info, gfVerbForm)
    BY <1>2, <1>3, <1>4, <1>5 DEF Has, gfVerbForm
  <1>9. mapVerbTant(info) = r
    <2>1. Ret(info) = IF r >= 2 THEN 1 ELSE 0
      BY <1>2, <1>3, <1>4, <1>5 DEF Ret, Has, gfRetForms
    <2>2. Mult(info) = IF r \in {1, 3} THEN 1 ELSE 0
      BY <1>2, <1>3, <1>4, <1>5 DEF Mult, Has, gfMultiple
    <2> QED  BY <1>1, <2>1, <2>2 DEF mapVerbTant
  <1>10. mapPersonal(info) = f
    BY <1>1, <1>7, <1>9 DEF mapPersonal
  <1> QED  BY <1>6, <1>8, <1>10 DEF info

(* A time is read whatever other bits come to it. *)
LEMMA TimeThere ==
  ASSUME NEW t \in 0 .. 7, NEW more, \A b \in more : b \notin 0 .. 2
  PROVE  TimeOf(At(t, 0) \cup more) = t
  <1>1. Field3(At(t, 0), 0) = t
    BY FieldAlone
  <1> QED  BY <1>1 DEF TimeOf, Field3, Field2, Bit

(* The times alone are no more than their bits. *)
LEMMA TimeBits == \A t \in 0 .. 7 : At(t, 0) \subseteq {0, 1, 2} /\ At(t, 0) \subseteq gfVerbTime
  <1>1. \A t \in 0 .. 7 : At(t, 0) \subseteq {0, 0 + 1, 0 + 2}
    BY FieldAlone
  <1> QED  BY <1>1 DEF gfVerbTime

(* The two ranges of participles. *)
LEMMA PartNumbers ==
  /\ \A f \in 30 .. 127 : GetVerbInfo(f) = getAllParts(f - 30, At(4, 0))
  /\ \A f \in 136 .. 233 : GetVerbInfo(f) = getAllParts(f - 136, At(5, 0))
  <1>1. ASSUME NEW f \in 30 .. 127 PROVE GetVerbInfo(f) = getAllParts(f - 30, At(4, 0))
    <2>1. ~(f < 2) /\ f \notin 2 .. 5 /\ f \notin 6 .. 17 /\ f \notin 18 .. 29
          /\ f \notin 128 .. 135 /\ f \notin 136 .. 233
      OBVIOUS
    <2> QED  BY <2>1, Zenon DEF GetVerbInfo, vtPresent
  <1>2. ASSUME NEW f \in 136 .. 233 PROVE GetVerbInfo(f) = getAllParts(f - 136, At(5, 0))
    <2>1. ~(f < 2) /\ f \notin 2 .. 5 /\ f \notin 6 .. 17 /\ f \notin 18 .. 29
          /\ f \notin 30 .. 127 /\ f \notin 128 .. 135
      OBVIOUS
    <2> QED  BY <2>1, ZenonT(40) DEF GetVerbInfo, vtPast
  <1> QED  BY <1>1, <1>2

(* Verbs: every number of the seven ranges. *)
LEMMA VerbThere ==
  ASSUME NEW f \in 0 .. 233, NEW flags, Has(flags, GetVerbInfo(f).bflags)
  PROVE  LET c == GetVerbInfo(f) IN
           c.ok /\ Reads(MapVerbInfo(c.grinfo, flags), f, c.grinfo, flags)
  <1> DEFINE c == GetVerbInfo(f)
  <1>1. CASE f \in 0 .. 1
    <2> DEFINE more == If(f = 1, gfRetForms)
    <2>1. c.ok /\ c.grinfo = At(1, 0) \cup more
      BY <1>1 DEF GetVerbInfo, Tense, Gram, vtInfinitiv
    <2>2. \A b \in more : b = 15
      BY DEF If, gfRetForms
    <2>3. TimeOf(c.grinfo) = 1
      <3> HIDE DEF more, c
      <3> QED  BY <2>1, <2>2, TimeThere
    <2>4. 15 \in c.grinfo <=> f = 1
      BY <2>1, TimeBits DEF If, gfRetForms
    <2>5. Ret(c.grinfo) = f
      BY <1>1, <2>4 DEF Ret, Has, gfRetForms
    <2>6. MapVerbInfo(c.grinfo, flags) = f
      <3> HIDE DEF c
      <3> QED  BY <2>3, <2>5 DEF MapVerbInfo, vtInfinitiv, vtImperativ, vtFuture, vtPresent, vtPast
    <2> HIDE DEF more
    <2> QED  BY <2>1, <2>6, Zenon DEF Reads
  <1>2. CASE f \in 2 .. 5
    <2> DEFINE more == getVerbTant(f - 2)
    <2>1. c.ok /\ c.grinfo = At(2, 0) \cup more
      BY <1>2 DEF GetVerbInfo, Tense, Gram, vtImperativ
    <2>2. /\ (15 \in more <=> f >= 4) /\ (11 \in more <=> f \in {3, 5})
          /\ \A b \in more : b \in {11, 15}
      BY <1>2 DEF getVerbTant, If, gfRetForms, gfMultiple
    <2>3. TimeOf(c.grinfo) = 2
      <3> HIDE DEF more, c
      <3> QED  BY <2>1, <2>2, TimeThere
    <2>4. (15 \in c.grinfo <=> f >= 4) /\ (11 \in c.grinfo <=> f \in {3, 5})
      BY <2>1, <2>2, TimeBits
    <2>5. mapVerbTant(c.grinfo) = f - 2
      BY <1>2, <2>4 DEF mapVerbTant, Ret, Mult, Has, gfRetForms, gfMultiple
    <2>6. MapVerbInfo(c.grinfo, flags) = f
      <3> HIDE DEF c
      <3> QED  BY <1>2, <2>3, <2>5
                  DEF MapVerbInfo, vtInfinitiv, vtImperativ, vtFuture, vtPresent, vtPast
    <2> HIDE DEF more
    <2> QED  BY <2>1, <2>6, Zenon DEF Reads
  <1>3. CASE f \in 6 .. 17
    <2>1. c.ok /\ c.grinfo = At(3, 0) \cup getPersonal(f - 6)
      BY <1>3 DEF GetVerbInfo, Tense, Gram, vtFuture
    <2>2. f - 6 \in 0 .. 11
      BY <1>3
    <2>3. mapPersonal(c.grinfo) = f - 6 /\ TimeOf(c.grinfo) = 3 /\ ~Has(c.grinfo, gfVerbForm)
      <3> DEFINE g == f - 6
      <3>1. 3 \in 0 .. 7
        OBVIOUS
      <3> HIDE DEF c, g
      <3>2. /\ mapPersonal(At(3, 0) \cup getPersonal(g)) = g
            /\ ~Has(At(3, 0) \cup getPersonal(g), gfVerbForm)
            /\ TimeOf(At(3, 0) \cup getPersonal(g)) = 3
        BY <2>2, <3>1, PersonalThere DEF g
      <3>3. c.grinfo = At(3, 0) \cup getPersonal(g)
        BY <2>1 DEF g
      <3>4. mapPersonal(c.grinfo) = g /\ ~Has(c.grinfo, gfVerbForm) /\ TimeOf(c.grinfo) = 3
        BY <3>2, <3>3, Zenon
      <3> QED  BY <3>4 DEF g
    <2>4. MapVerbInfo(c.grinfo, flags) = f
      <3> HIDE DEF c
      <3> QED  BY <1>3, <2>3 DEF MapVerbInfo, vtInfinitiv, vtImperativ, vtFuture, vtPresent, vtPast
    <2> QED  BY <2>1, <2>4, Zenon DEF Reads
  <1>4. CASE f \in 18 .. 29
    <2>1. c.ok /\ c.grinfo = At(4, 0) \cup getPersonal(f - 18)
      BY <1>4 DEF GetVerbInfo, Tense, Gram, vtPresent
    <2>2. f - 18 \in 0 .. 11
      BY <1>4
    <2>3. mapPersonal(c.grinfo) = f - 18 /\ TimeOf(c.grinfo) = 4 /\ ~Has(c.grinfo, gfVerbForm)
      <3> DEFINE g == f - 18
      <3>1. 4 \in 0 .. 7
        OBVIOUS
      <3> HIDE DEF c, g
      <3>2. /\ mapPersonal(At(4, 0) \cup getPersonal(g)) = g
            /\ ~Has(At(4, 0) \cup getPersonal(g), gfVerbForm)
            /\ TimeOf(At(4, 0) \cup getPersonal(g)) = 4
        BY <2>2, <3>1, PersonalThere DEF g
      <3>3. c.grinfo = At(4, 0) \cup getPersonal(g)
        BY <2>1 DEF g
      <3>4. mapPersonal(c.grinfo) = g /\ ~Has(c.grinfo, gfVerbForm) /\ TimeOf(c.grinfo) = 4
        BY <3>2, <3>3, Zenon
      <3> QED  BY <3>4 DEF g
    <2>4. MapVerbInfo(c.grinfo, flags) = f
      <3> HIDE DEF c
      <3> QED  BY <1>4, <2>3 DEF MapVerbInfo, vtInfinitiv, vtImperativ, vtFuture, vtPresent, vtPast
    <2> QED  BY <2>1, <2>4, Zenon DEF Reads
  <1>5. ASSUME NEW t \in {4, 5}, NEW g \in 0 .. 97, c = getAllParts(g, At(t, 0))
        PROVE  /\ c.ok
               /\ Reads(mapAllParts(c.grinfo, flags), g, c.grinfo, flags)
               /\ Has(c.grinfo, gfVerbForm)
               /\ TimeOf(c.grinfo) = t
    <2> DEFINE time == At(t, 0)
    <2>1. time \subseteq gfVerbTime /\ TimeOf(time) = t
      <3>1. Field3(At(t, 0), 0) = t
        BY FieldAlone
      <3> QED  BY <3>1, TimeBits DEF TimeOf
    <2>2. Has(flags, getAllParts(g, time).bflags)
      BY <1>5
    <2> HIDE DEF time
    <2>3. /\ getAllParts(g, time).ok
          /\ Reads(mapAllParts(getAllParts(g, time).grinfo, flags), g,
                   getAllParts(g, time).grinfo, flags)
          /\ Has(getAllParts(g, time).grinfo, gfVerbForm)
          /\ TimeOf(getAllParts(g, time).grinfo) = TimeOf(time)
      BY <2>1, <2>2, PartsThere
    <2>4. c = getAllParts(g, time)
      BY <1>5 DEF time
    <2> HIDE DEF c
    <2>5. /\ c.ok /\ Reads(mapAllParts(c.grinfo, flags), g, c.grinfo, flags)
          /\ Has(c.grinfo, gfVerbForm) /\ TimeOf(c.grinfo) = t
      BY <2>1, <2>3, <2>4
    <2> QED  BY <2>5 DEF c
  <1>6. CASE f \in 30 .. 127
    <2>1. c = getAllParts(f - 30, At(4, 0))
      BY <1>6, PartNumbers
    <2>2. f - 30 \in 0 .. 97
      BY <1>6
    <2> HIDE DEF c
    <2>3. /\ c.ok
          /\ Reads(mapAllParts(c.grinfo, flags), f - 30, c.grinfo, flags)
          /\ Has(c.grinfo, gfVerbForm)
          /\ TimeOf(c.grinfo) = 4
      BY <1>5, <2>1, <2>2
    <2>4. MapVerbInfo(c.grinfo, flags) = (30 + mapAllParts(c.grinfo, flags)) % 256
      BY <2>3 DEF MapVerbInfo, vtInfinitiv, vtImperativ, vtFuture, vtPresent, vtPast
    <2>5. Reads(MapVerbInfo(c.grinfo, flags), f, c.grinfo, flags)
      BY <1>6, <2>3, <2>4 DEF Reads
    <2> QED  BY <2>3, <2>5 DEF c
  <1>7. CASE f \in 128 .. 135
    <2> DEFINE q == f % 4
               more == If(f >= 132, gfRetForms) \cup getGenderOf(q)
    <2>1. c.ok /\ c.grinfo = At(5, 0) \cup more
      BY <1>7 DEF GetVerbInfo, Tense, Gram, vtPast
    <2>2. q \in 0 .. 3 /\ f = 128 + (IF f >= 132 THEN 4 ELSE 0) + q
      BY <1>7
    <2>3. /\ \A b \in more : b \in {9, 10, 11, 15}
          /\ 15 \in more <=> f >= 132
          /\ 11 \in more <=> q = 3
          /\ q # 3 => Field2(more, 9) = q + 1
      <3> HIDE DEF q
      <3>1. CASE q = 3
        BY <3>1 DEF getGenderOf, If, gfMultiple, gfRetForms
      <3>2. CASE q # 3
        <4>1. getGenderOf(q) = At(q + 1, 9) /\ q + 1 \in 0 .. 3
          BY <2>2, <3>2 DEF getGenderOf
        <4>2. Field2(At(q + 1, 9), 9) = q + 1 /\ At(q + 1, 9) \subseteq {9, 9 + 1}
          BY <4>1, FieldAlone
        <4> QED  BY <3>2, <4>1, <4>2 DEF If, gfRetForms, Field2, Bit
      <3> QED  BY <3>1, <3>2
    <2> HIDE DEF c, q, more
    <2>4. TimeOf(c.grinfo) = 5
      BY <2>1, <2>3, TimeThere
    <2>5. \A b \in 3 .. 15 : b \in c.grinfo <=> b \in more
      BY <2>1, TimeBits
    <2>6. ~Has(c.grinfo, gfVerbForm)
      BY <2>3, <2>5 DEF Has, gfVerbForm
    <2>7. Ret(c.grinfo) = IF f >= 132 THEN 1 ELSE 0
      BY <2>3, <2>5 DEF Ret, Has, gfRetForms
    <2>8. mapGenderOf(c.grinfo) = q
      <3>1. Field2(c.grinfo, 9) = Field2(more, 9)
        BY <2>5 DEF Field2, Bit
      <3> QED  BY <2>2, <2>3, <2>5, <3>1 DEF mapGenderOf, GendOf, Has, gfMultiple
    <2>9. MapVerbInfo(c.grinfo, flags) = f
      BY <1>7, <2>2, <2>4, <2>6, <2>7, <2>8
         DEF MapVerbInfo, vtInfinitiv, vtImperativ, vtFuture, vtPresent, vtPast
    <2>10. c.ok /\ Reads(MapVerbInfo(c.grinfo, flags), f, c.grinfo, flags)
      BY <2>1, <2>9 DEF Reads
    <2> QED  BY <2>10 DEF c
  <1>8. CASE f \in 136 .. 233
    <2>1. c = getAllParts(f - 136, At(5, 0))
      BY <1>8, PartNumbers
    <2>2. f - 136 \in 0 .. 97
      BY <1>8
    <2> HIDE DEF c
    <2>3. /\ c.ok
          /\ Reads(mapAllParts(c.grinfo, flags), f - 136, c.grinfo, flags)
          /\ Has(c.grinfo, gfVerbForm)
          /\ TimeOf(c.grinfo) = 5
      BY <1>5, <2>1, <2>2
    <2>4. MapVerbInfo(c.grinfo, flags) = (136 + mapAllParts(c.grinfo, flags)) % 256
      BY <2>3 DEF MapVerbInfo, vtInfinitiv, vtImperativ, vtFuture, vtPresent, vtPast
    <2>5. Reads(MapVerbInfo(c.grinfo, flags), f, c.grinfo, flags)
      BY <1>8, <2>3, <2>4 DEF Reads
    <2> QED  BY <2>3, <2>5 DEF c
  <1>9. f \in 0 .. 1 \/ f \in 2 .. 5 \/ f \in 6 .. 17 \/ f \in 18 .. 29 \/ f \in 30 .. 127
        \/ f \in 128 .. 135 \/ f \in 136 .. 233
    OBVIOUS
  <1> QED  BY <1>1, <1>2, <1>3, <1>4, <1>6, <1>7, <1>8, <1>9, Zenon

-------------------------------------------------------------------------------
(* From a description to its number and back *)

(* The number found for a description stands for this very description, and for *)
(* one of its kinds.                                                             *)
Restores(c, info, flags) == c.ok /\ c.grinfo = info /\ Has(flags, c.bflags)

(* Cases. *)
LEMMA CaseBack ==
  ASSUME NEW info, NEW flags, Has(flags, Alive)
  PROVE  Restores(getCaseInfo(mapCaseInfo(info, flags), info \ gfFormMask), info, flags)
  <1> DEFINE f == mapCaseInfo(info, flags)
             rest == info \ gfFormMask
             c == getCaseInfo(f, rest)
             v == CaseOf(info)
  <1>1. v \in 0 .. 7 /\ At(v, 12) = info \cap (12 .. 12 + 2)
    BY FieldGot3 DEF CaseOf
  <1>2. info = rest \cup At(v, 12)
    <2>1. 12 .. 12 + 2 = gfFormMask
      BY DEF gfFormMask
    <2>2. At(v, 12) = info \cap gfFormMask
      BY <1>1, <2>1
    <2> HIDE DEF v
    <2> QED  BY <2>2
  <1>3. f = IF v > 3 THEN v + 1 ELSE IF v < 3 THEN v ELSE IF afNotAlive \in flags THEN 3 ELSE 4
    BY DEF mapCaseInfo
  <1> HIDE DEF f, rest, v
  <1>4. CASE v # 3
    <2>1. c = Gram(TRUE, rest \cup At(v, 12), Alive)
      <3>1. CASE v > 3
        <4>1. f >= 5 /\ f - 1 = v
          BY <1>1, <1>3, <3>1
        <4> QED  BY <4>1, Zenon DEF getCaseInfo
      <3>2. CASE v < 3
        <4>1. ~(f >= 5) /\ f <= 2 /\ f = v
          BY <1>1, <1>3, <3>2
        <4> QED  BY <4>1, Zenon DEF getCaseInfo
      <3>3. v > 3 \/ v < 3
        BY <1>1, <1>4
      <3> QED  BY <3>1, <3>2, <3>3, Zenon
    <2> QED  BY <1>2, <2>1 DEF Restores, Gram, f, rest
  <1>5. CASE v = 3
    <2>1. f \in {3, 4} /\ (f = 3 <=> afNotAlive \in flags)
      BY <1>3, <1>5
    <2>2. c = Gram(TRUE, rest \cup At(3, 12), IF f = 3 THEN {afNotAlive} ELSE {afAnimated})
      <3>1. ~(f >= 5) /\ ~(f <= 2)
        BY <2>1
      <3> QED  BY <3>1, Zenon DEF getCaseInfo
    <2>3. Has(flags, IF f = 3 THEN {afNotAlive} ELSE {afAnimated})
      BY <2>1 DEF Has, Alive
    <2>4. c.ok /\ c.grinfo = info /\ Has(flags, c.bflags)
      <3>1. info = rest \cup At(3, 12)
        BY <1>2, <1>5
      <3> QED  BY <2>2, <2>3, <3>1 DEF Gram
    <2> QED  BY <2>4 DEF Restores, f, rest
  <1> QED  BY <1>4, <1>5

(* Genders. *)
LEMMA GenderBack ==
  ASSUME NEW info \in SUBSET Bits, NEW flags, Has(flags, Alive),
         Numbered(info), Has(info, gfMultiple) => ~Has(info, gfGendMask),
         Has(info, gfShortOne) => ~Has(info, gfFormMask), CaseOf(info) <= 5
  PROVE  /\ mapGendInfo(info, flags) \in 0 .. 31
         /\ Restores(getGendInfo(mapGendInfo(info, flags), info \ DeclinedBits), info, flags)
  <1> DEFINE f == mapGendInfo(info, flags)
             rest == info \ DeclinedBits
             q == mapGenderOf(info)
             r == IF Has(info, gfShortOne) THEN 7 ELSE mapCaseInfo(info, flags)
             gendered == rest \cup (IF f >= 24 THEN gfMultiple ELSE At(f \div 8 + 1, 9))
  <1>1. /\ GendOf(info) \in 0 .. 3
        /\ At(GendOf(info), 9) = info \cap (9 .. 9 + 1)
    BY FieldGot2 DEF GendOf
  <1>2. /\ Has(info, gfMultiple) <=> 11 \in info
        /\ Has(info, gfGendMask) <=> 9 \in info \/ 10 \in info
        /\ Has(info, gfShortOne) <=> 8 \in info
        /\ Has(info, gfFormMask) <=> 12 \in info \/ 13 \in info \/ 14 \in info
    BY DEF Has, gfMultiple, gfGendMask, gfShortOne, gfFormMask
  <1>3. q \in 0 .. 3 /\ (q = 3 <=> 11 \in info) /\ (q # 3 => GendOf(info) = q + 1)
    <2>1. CASE 11 \in info
      BY <1>2, <2>1 DEF mapGenderOf
    <2>2. CASE 11 \notin info
      <3>1. GendOf(info) # 0
        BY <1>2, <2>2 DEF Numbered, GendOf, Field2, Bit
      <3> QED  BY <1>1, <1>2, <2>2, <3>1 DEF mapGenderOf
    <2> QED  BY <2>1, <2>2
  <1>4. r \in 0 .. 7 /\ (r = 7 <=> Has(info, gfShortOne))
    <2>1. CaseOf(info) \in 0 .. 7
      BY FieldGot3 DEF CaseOf
    <2>2. mapCaseInfo(info, flags) \in 0 .. 6
      BY <2>1 DEF mapCaseInfo
    <2> QED  BY <2>2
  <1>5. f = 8 * q + r
    BY <1>3, <1>4 DEF mapGendInfo
  <1> HIDE DEF f, q, r
  <1>6. f \in 0 .. 31 /\ (f >= 24 <=> q = 3) /\ f \div 8 = q /\ f % 8 = r
    BY <1>3, <1>4, <1>5
  <1>7. gendered = info \ (gfFormMask \cup gfShortOne)
    <2>1. CASE q = 3
      <3>1. gendered = rest \cup {11}
        BY <1>6, <2>1 DEF gfMultiple
      <3>2. 11 \in info /\ 9 \notin info /\ 10 \notin info
        BY <1>2, <1>3, <2>1
      <3> QED  BY <3>1, <3>2, DeclinedBitsAre DEF Bits, gfFormMask, gfShortOne
    <2>2. CASE q # 3
      <3>1. gendered = rest \cup At(q + 1, 9)
        BY <1>6, <2>2
      <3>2. At(q + 1, 9) = info \cap {9, 10}
        BY <1>1, <1>3, <2>2
      <3>3. 11 \notin info
        BY <1>3, <2>2
      <3> HIDE DEF gendered
      <3> QED  BY <3>1, <3>2, <3>3, DeclinedBitsAre DEF Bits, gfFormMask, gfShortOne
    <2> QED  BY <2>1, <2>2
  <1>8. CASE r = 7
    <2>1. getGendInfo(f, rest) = Gram(TRUE, gendered \cup gfShortOne, Alive)
      BY <1>6, <1>8, Zenon DEF getGendInfo
    <2>2. gendered \cup gfShortOne = info
      BY <1>2, <1>4, <1>7, <1>8 DEF gfFormMask, gfShortOne
    <2> HIDE DEF gendered, rest
    <2>3. Restores(getGendInfo(f, rest), info, flags)
      BY <2>1, <2>2 DEF Restores, Gram
    <2> QED  BY <1>6, <2>3 DEF f, rest
  <1>9. CASE r # 7
    <2>1. getGendInfo(f, rest) = getCaseInfo(f % 8, gendered)
      BY <1>6, <1>9, Zenon DEF getGendInfo
    <2>2. f % 8 = mapCaseInfo(info, flags)
      BY <1>4, <1>6, <1>9 DEF r
    <2>3. gendered = info \ gfFormMask
      BY <1>2, <1>4, <1>7, <1>9 DEF gfShortOne
    <2> HIDE DEF gendered, rest
    <2>4. Restores(getGendInfo(f, rest), info, flags)
      BY <2>1, <2>2, <2>3, CaseBack
    <2> QED  BY <1>6, <2>4 DEF f, rest
  <1> QED  BY <1>8, <1>9

(* Adjectives. *)
LEMMA DefsBack ==
  ASSUME NEW info \in SUBSET Bits, NEW flags, Has(flags, Alive), OfAdjective(info),
         info \in {gfAdverb, gfCompared} \/ Numbered(info)
  PROVE  /\ MapDefsInfo(info, flags) \in 0 .. 65
         /\ Restores(GetDefsInfo(MapDefsInfo(info, flags)), info, flags)
  <1> DEFINE f == MapDefsInfo(info, flags)
  <1>1. CASE info = gfAdverb
    <2>1. f = 65
      BY <1>1 DEF MapDefsInfo, Has, gfAdverb
    <2>2. GetDefsInfo(65) = Gram(TRUE, gfAdverb, Alive)
      BY Zenon DEF GetDefsInfo
    <2> HIDE DEF f
    <2>3. f \in 0 .. 65 /\ Restores(GetDefsInfo(f), info, flags)
      BY <1>1, <2>1, <2>2 DEF Restores, Gram
    <2> QED  BY <2>3 DEF f
  <1>2. CASE info = gfCompared
    <2>1. f = 64
      BY <1>2 DEF MapDefsInfo, Has, gfAdverb, gfCompared
    <2>2. GetDefsInfo(64) = Gram(TRUE, gfCompared, Alive)
      <3>1. 64 # 65
        OBVIOUS
      <3> QED  BY <3>1, Zenon DEF GetDefsInfo
    <2> HIDE DEF f
    <2>3. f \in 0 .. 65 /\ Restores(GetDefsInfo(f), info, flags)
      BY <1>2, <2>1, <2>2 DEF Restores, Gram
    <2> QED  BY <2>3 DEF f
  <1>3. CASE info \notin {gfAdverb, gfCompared}
    <2> DEFINE m == mapGendInfo(info, flags)
               rest == info \ DeclinedBits
    <2>1. /\ m \in 0 .. 31
          /\ Restores(getGendInfo(m, rest), info, flags)
      BY <1>3, GenderBack DEF OfAdjective, Declined
    <2>2. \A b \in info : b \in 8 .. 15
      BY <1>3 DEF OfAdjective, Declined, Within, gfRetForms, gfFormMask, gfMultiple, gfGendMask, gfShortOne
    <2>3. Ret(info) = IF 15 \in info THEN 1 ELSE 0
      BY DEF Ret, Has, gfRetForms
    <2>4. f = (32 * Ret(info) + m) % 256
      BY <2>2 DEF MapDefsInfo, Has, gfAdverb, gfCompared
    <2> HIDE DEF m, f
    <2>5. f \in 0 .. 63 /\ f % 32 = m /\ (f >= 32 <=> 15 \in info)
      BY <2>1, <2>3, <2>4
    <2>6. rest = If(f >= 32, gfRetForms)
      BY <2>2, <2>5, DeclinedBitsAre DEF If, gfRetForms
    <2> HIDE DEF rest
    <2>7. GetDefsInfo(f) = getGendInfo(m, rest)
      <3>1. f # 64 /\ f # 65
        BY <2>5
      <3>2. GetDefsInfo(f) = getGendInfo(f % 32, If(f >= 32, gfRetForms))
        BY <3>1, Zenon DEF GetDefsInfo
      <3> QED  BY <2>5, <2>6, <3>2
    <2>8. f \in 0 .. 65 /\ Restores(GetDefsInfo(f), info, flags)
      BY <2>1, <2>5, <2>7
    <2> QED  BY <2>8 DEF f
  <1> QED  BY <1>1, <1>2, <1>3

(* Nouns. *)
LEMMA NounBack ==
  ASSUME NEW info \in SUBSET Bits, NEW flags, Has(flags, Alive), OfNoun(info)
  PROVE  /\ MapNounInfo(info, flags) \in 0 .. 17
         /\ Restores(GetNounInfo(MapNounInfo(info, flags)), info, flags)
  <1> DEFINE f == MapNounInfo(info, flags)
             k == mapCaseInfo(info, flags)
             rest == info \ gfFormMask
  <1>1. CaseOf(info) \in 0 .. 7
    BY FieldGot3 DEF CaseOf
  <1>2. \A b \in info : b \in {11, 12, 13, 14}
    BY DEF OfNoun, Within, gfFormMask, gfMultiple
  <1>3. Mult(info) = IF 11 \in info THEN 1 ELSE 0
    BY DEF Mult, Has, gfMultiple
  <1>4. k \in 0 .. 8 /\ (11 \in info => k <= 7)
    <2>1. 11 \in info => CaseOf(info) <= 5
      BY DEF OfNoun, Has, gfMultiple
    <2> QED  BY <1>1, <2>1 DEF mapCaseInfo
  <1>5. f = 10 * Mult(info) + k
    BY DEF MapNounInfo
  <1>6. Restores(getCaseInfo(k, rest), info, flags)
    BY CaseBack
  <1> HIDE DEF f, k, rest
  <1>7. f \in 0 .. 17 /\ f % 10 = k /\ (f >= 10 <=> 11 \in info)
    BY <1>3, <1>4, <1>5
  <1>8. rest = If(f >= 10, gfMultiple)
    BY <1>2, <1>7 DEF rest, If, gfMultiple, gfFormMask
  <1>9. GetNounInfo(f) = [getCaseInfo(k, rest) EXCEPT !.ok = TRUE]
    <2>1. (f <= 17) = TRUE
      BY <1>7
    <2>2. GetNounInfo(f) = [getCaseInfo(f % 10, If(f >= 10, gfMultiple)) EXCEPT !.ok = f <= 17]
      BY Zenon DEF GetNounInfo
    <2> QED  BY <1>7, <1>8, <2>1, <2>2
  <1>10. getCaseInfo(k, rest) = [ok |-> TRUE, grinfo |-> getCaseInfo(k, rest).grinfo,
                                 bflags |-> getCaseInfo(k, rest).bflags]
    BY DEF getCaseInfo, Gram
  <1>11. f \in 0 .. 17 /\ Restores(GetNounInfo(f), info, flags)
    <2> DEFINE d == getCaseInfo(k, rest)
    <2>1. GetNounInfo(f) = [d EXCEPT !.ok = TRUE]
          /\ d = [ok |-> TRUE, grinfo |-> d.grinfo, bflags |-> d.bflags]
      BY <1>9, <1>10
    <2>2. d.grinfo = info /\ Has(flags, d.bflags)
      BY <1>6 DEF Restores
    <2> HIDE DEF d
    <2>3. GetNounInfo(f) = [ok |-> TRUE, grinfo |-> d.grinfo, bflags |-> d.bflags]
      BY <2>1
    <2> QED  BY <1>7, <2>2, <2>3 DEF Restores
  <1> QED  BY <1>11 DEF f

(* Participles. *)
LEMMA PartsBack ==
  ASSUME NEW info \in SUBSET Bits, NEW flags, Has(flags, Alive),
         Has(info, gfVerbForm), Participle(info)
  PROVE  /\ mapAllParts(info, flags) \in 0 .. 97
         /\ Restores(getAllParts(mapAllParts(info, flags), info \cap gfVerbTime), info, flags)
  <1> DEFINE f == mapAllParts(info, flags)
             m == mapGendInfo(info, flags)
             v == FormOf(info)
             time == info \cap gfVerbTime
             rest == info \ DeclinedBits
  <1>1. v \in 1 .. 3 /\ At(v, 5) = info \cap {5, 6}
    <2>1. v \in 0 .. 3 /\ At(v, 5) = info \cap (5 .. 5 + 1)
      BY FieldGot2 DEF FormOf
    <2>2. v # 0
      BY DEF FormOf, Field2, Bit, Has, gfVerbForm
    <2>3. 5 .. 5 + 1 = {5, 6}
      OBVIOUS
    <2> QED  BY <2>1, <2>2, <2>3
  <1>2. Ret(info) = IF 15 \in info THEN 1 ELSE 0
    BY DEF Ret, Has, gfRetForms
  <1>3. CASE v = 3
    <2>1. \A b \in info : b \in {0, 1, 2, 5, 6, 15}
      <3> HIDE DEF v
      <3> QED  BY <1>3 DEF Participle, Within, vfVerbActive, vfVerbPassiv, vfVerbDoing,
                          gfVerbTime, gfVerbForm, gfRetForms, v
    <2>2. f = 96 + Ret(info)
      BY <1>2, <1>3 DEF mapAllParts, vfVerbActive, vfVerbPassiv
    <2> HIDE DEF f, v
    <2>3. f \in 96 .. 97 /\ (f % 2 = 1 <=> 15 \in info)
      BY <1>2, <2>2
    <2>4. getAllParts(f, time) = Gram(TRUE, time \cup At(3, 5) \cup If(f % 2 = 1, gfRetForms), Alive)
      <3>1. f >= 96
        BY <2>3
      <3> QED  BY <3>1, Zenon DEF getAllParts, vfVerbDoing
    <2>5. info = time \cup At(3, 5) \cup If(f % 2 = 1, gfRetForms)
      BY <1>1, <1>3, <2>1, <2>3 DEF gfVerbTime, gfRetForms, If
    <2> HIDE DEF time
    <2>6. f \in 0 .. 97 /\ Restores(getAllParts(f, time), info, flags)
      BY <2>3, <2>4, <2>5 DEF Restores, Gram
    <2> QED  BY <2>6 DEF f, time
  <1>4. CASE v \in 1 .. 2
    <2>1. /\ Numbered(info) /\ Declined(info, gfVerbTime \cup gfVerbForm \cup gfRetForms)
          /\ v = 2 => 15 \notin info
      <3>1. CASE v = 1
        BY <3>1 DEF Participle, vfVerbActive, vfVerbPassiv, vfVerbDoing
      <3>2. CASE v = 2
        <4>1. Numbered(info) /\ Declined(info, gfVerbTime \cup gfVerbForm)
          BY <3>2 DEF Participle, vfVerbActive, vfVerbPassiv, vfVerbDoing
        <4>2. 15 \notin info
          BY <4>1 DEF Declined, Within, gfVerbTime, gfVerbForm, gfFormMask, gfMultiple,
                      gfGendMask, gfShortOne
        <4> QED  BY <4>1, <4>2 DEF Declined, Within
      <3> QED  BY <1>4, <3>1, <3>2
    <2>2. \A b \in info : b \in {0, 1, 2, 5, 6, 15} \/ b \in 8 .. 14
      BY <2>1 DEF Declined, Within, gfVerbTime, gfVerbForm, gfRetForms, gfFormMask, gfMultiple,
                  gfGendMask, gfShortOne
    <2>3. m \in 0 .. 31 /\ Restores(getGendInfo(m, rest), info, flags)
      BY <2>1, GenderBack DEF Declined
    <2>4. rest = time \cup If(15 \in info, gfRetForms) \cup At(v, 5)
      <3> HIDE DEF v
      <3> QED  BY <1>1, <2>2, DeclinedBitsAre DEF gfVerbTime, gfRetForms, If
    <2>5. CASE v = 1
      <3>1. f = (32 * Ret(info) + m) % 256
        BY <2>5 DEF mapAllParts, vfVerbActive
      <3> HIDE DEF f, m, v, rest, time
      <3>2. f \in 0 .. 63 /\ f % 32 = m /\ (f >= 32 <=> 15 \in info)
        BY <1>2, <2>3, <3>1
      <3>3. getAllParts(f, time) = getGendInfo(f % 32, time \cup If(f >= 32, gfRetForms) \cup At(1, 5))
        <4>1. ~(f >= 96) /\ ~(f >= 64)
          BY <3>2
        <4> QED  BY <4>1, Zenon DEF getAllParts, vfVerbActive
      <3>4. If(f >= 32, gfRetForms) = If(15 \in info, gfRetForms)
        BY <3>2 DEF If
      <3>5. getAllParts(f, time) = getGendInfo(m, rest)
        BY <2>4, <2>5, <3>2, <3>3, <3>4
      <3>6. f \in 0 .. 97 /\ Restores(getAllParts(f, time), info, flags)
        BY <2>3, <3>2, <3>5
      <3> QED  BY <3>6 DEF f, time
    <2>6. CASE v = 2
      <3>1. f = (64 + m) % 256
        BY <2>6 DEF mapAllParts, vfVerbActive, vfVerbPassiv
      <3> HIDE DEF f, m, v, rest, time
      <3>2. f \in 64 .. 95 /\ f - 64 = m
        BY <2>3, <3>1
      <3>3. getAllParts(f, time) = getGendInfo(f - 64, time \cup At(2, 5))
        <4>1. ~(f >= 96) /\ f >= 64
          BY <3>2
        <4> QED  BY <4>1, Zenon DEF getAllParts, vfVerbPassiv
      <3>4. rest = time \cup At(2, 5)
        <4>1. If(15 \in info, gfRetForms) = {}
          BY <2>1, <2>6 DEF If
        <4> QED  BY <2>4, <2>6, <4>1
      <3>5. getAllParts(f, time) = getGendInfo(m, rest)
        BY <3>2, <3>3, <3>4
      <3>6. f \in 0 .. 97 /\ Restores(getAllParts(f, time), info, flags)
        BY <2>3, <3>2, <3>5
      <3> QED  BY <3>6 DEF f, time
    <2> QED  BY <1>4, <2>5, <2>6
  <1> QED  BY <1>1, <1>3, <1>4

(* Personal forms. *)
LEMMA PersonalBack ==
  ASSUME NEW info \in SUBSET Bits, Has(info, gfVerbFace),
         Within(info, gfVerbTime \cup gfVerbFace \cup gfRetForms \cup gfMultiple)
  PROVE  /\ mapPersonal(info) \in 0 .. 11
         /\ At(TimeOf(info), 0) \cup getPersonal(mapPersonal(info)) = info
  <1> DEFINE p == mapPersonal(info)
             q == FaceOf(info) - 1
             r == mapVerbTant(info)
  <1>1. \A b \in info : b \in {0, 1, 2, 3, 4, 11, 15}
    BY DEF Within, gfVerbTime, gfVerbFace, gfRetForms, gfMultiple
  <1>2. q \in 0 .. 2 /\ At(q + 1, 3) = info \cap {3, 4}
    <2>1. FaceOf(info) \in 0 .. 3 /\ At(FaceOf(info), 3) = info \cap (3 .. 3 + 1)
      BY FieldGot2 DEF FaceOf
    <2>2. FaceOf(info) # 0
      BY DEF FaceOf, Field2, Bit, Has, gfVerbFace
    <2>3. 3 .. 3 + 1 = {3, 4} /\ FaceOf(info) - 1 + 1 = FaceOf(info)
      BY <2>1
    <2> QED  BY <2>1, <2>2, <2>3
  <1>3. /\ Ret(info) = IF 15 \in info THEN 1 ELSE 0
        /\ Mult(info) = IF 11 \in info THEN 1 ELSE 0
    BY DEF Ret, Mult, Has, gfRetForms, gfMultiple
  <1>4. r \in 0 .. 3 /\ (r >= 2 <=> 15 \in info) /\ (r % 2 = 1 <=> 11 \in info)
    BY <1>3 DEF mapVerbTant
  <1>5. p = 4 * q + r
    BY <1>2, <1>4 DEF mapPersonal
  <1>6. At(TimeOf(info), 0) = info \cap {0, 1, 2}
    <2>1. At(TimeOf(info), 0) = info \cap (0 .. 0 + 2)
      BY FieldGot3 DEF TimeOf
    <2>2. 0 .. 0 + 2 = {0, 1, 2}
      OBVIOUS
    <2> QED  BY <2>1, <2>2
  <1> HIDE DEF p, q, r
  <1>7. p \in 0 .. 11 /\ p \div 4 = q /\ p % 4 = r
    BY <1>2, <1>4, <1>5
  <1>8. getPersonal(p) = info \cap {3, 4, 11, 15}
    <2>1. getVerbTant(r) = info \cap {11, 15}
      BY <1>4 DEF getVerbTant, If, gfRetForms, gfMultiple
    <2>2. getPersonal(p) = At(q + 1, 3) \cup getVerbTant(r)
      BY <1>7, Zenon DEF getPersonal
    <2> QED  BY <1>2, <2>1, <2>2
  <1>9. At(TimeOf(info), 0) \cup getPersonal(p) = info
    BY <1>1, <1>6, <1>8
  <1> QED  BY <1>7, <1>9 DEF p

(* Verbs: all but a gerund of the future. *)
LEMMA VerbBack ==
  ASSUME NEW info \in SUBSET Bits, NEW flags, Has(flags, Alive), OfVerb(info),
         ~(TimeOf(info) = vtFuture /\ Has(info, gfVerbForm))
  PROVE  /\ MapVerbInfo(info, flags) \in 0 .. 233
         /\ Restores(GetVerbInfo(MapVerbInfo(info, flags)), info, flags)
  <1> DEFINE f == MapVerbInfo(info, flags)
             t == TimeOf(info)
  <1>1. At(t, 0) = info \cap {0, 1, 2}
    <2>1. At(t, 0) = info \cap (0 .. 0 + 2)
      BY FieldGot3 DEF TimeOf
    <2>2. 0 .. 0 + 2 = {0, 1, 2}
      OBVIOUS
    <2> QED  BY <2>1, <2>2
  <1>2. /\ Ret(info) = IF 15 \in info THEN 1 ELSE 0
        /\ Mult(info) = IF 11 \in info THEN 1 ELSE 0
    BY DEF Ret, Mult, Has, gfRetForms, gfMultiple
  <1>3. ASSUME NEW n \in 0 .. 233, NEW bits, f = n, GetVerbInfo(n) = Tense(t, bits), info = At(t, 0) \cup bits
        PROVE  f \in 0 .. 233 /\ Restores(GetVerbInfo(f), info, flags)
    <2> HIDE DEF f, t
    <2>1. GetVerbInfo(f) = Gram(TRUE, info, Alive)
      BY <1>3, Zenon DEF Tense
    <2> QED  BY <1>3, <2>1 DEF Restores, Gram
  <1>4. CASE ~Has(info, gfVerbForm)
    <2>1. CASE t = vtInfinitiv
      <3>1. Within(info, gfVerbTime \cup gfRetForms)
        BY <1>4, <2>1 DEF OfVerb, PersonalForm, vtInfinitiv, vtImperativ, vtFuture, vtPresent, vtPast
      <3>2. f = Ret(info)
        <4>1. t = 1
          BY <2>1 DEF vtInfinitiv
        <4> HIDE DEF t
        <4> QED  BY <4>1 DEF MapVerbInfo, vtInfinitiv, vtImperativ, vtFuture, vtPresent, vtPast, t
      <3> HIDE DEF f, t
      <3>3. f \in 0 .. 1 /\ (f = 1 <=> 15 \in info)
        BY <1>2, <3>2
      <3>4. GetVerbInfo(f) = Tense(vtInfinitiv, If(f = 1, gfRetForms))
        <4>1. f < 2 /\ f \notin 2 .. 5 /\ f \notin 6 .. 17 /\ f \notin 18 .. 29 /\ f \notin 30 .. 127
              /\ f \notin 128 .. 135 /\ f \notin 136 .. 233
          BY <3>3
        <4> QED  BY <4>1, ZenonT(40) DEF GetVerbInfo
      <3>5. info = At(t, 0) \cup If(f = 1, gfRetForms)
        <4>1. \A b \in info : b \in {0, 1, 2, 15}
          BY <3>1 DEF Within, gfVerbTime, gfRetForms
        <4>2. If(f = 1, gfRetForms) = info \cap {15}
          BY <3>3 DEF If, gfRetForms
        <4> QED  BY <1>1, <4>1, <4>2
      <3>6. f \in 0 .. 233
        BY <3>3
      <3> QED  BY <1>3, <2>1, <3>4, <3>5, <3>6 DEF f
    <2>2. CASE t = vtImperativ
      <3>1. Within(info, gfVerbTime \cup gfRetForms \cup gfMultiple)
        BY <1>4, <2>2 DEF OfVerb, PersonalForm, vtInfinitiv, vtImperativ, vtFuture, vtPresent, vtPast
      <3>2. f = 2 + mapVerbTant(info)
        BY <2>2 DEF MapVerbInfo, vtInfinitiv, vtImperativ, vtFuture, vtPresent, vtPast
      <3>3. mapVerbTant(info) = 2 * Ret(info) + Mult(info)
        BY DEF mapVerbTant
      <3> HIDE DEF f, t
      <3>4. f \in 2 .. 5 /\ (f - 2 >= 2 <=> 15 \in info) /\ ((f - 2) % 2 = 1 <=> 11 \in info)
        BY <1>2, <3>2, <3>3
      <3>5. GetVerbInfo(f) = Tense(vtImperativ, getVerbTant(f - 2))
        <4>1. ~(f < 2) /\ f \in 2 .. 5 /\ f \notin 6 .. 17 /\ f \notin 18 .. 29 /\ f \notin 30 .. 127
              /\ f \notin 128 .. 135 /\ f \notin 136 .. 233
          BY <3>4
        <4> QED  BY <4>1, ZenonT(40) DEF GetVerbInfo
      <3>6. info = At(t, 0) \cup getVerbTant(f - 2)
        <4>1. \A b \in info : b \in {0, 1, 2, 11, 15}
          BY <3>1 DEF Within, gfVerbTime, gfRetForms, gfMultiple
        <4>2. getVerbTant(f - 2) = info \cap {11, 15}
          <5> DEFINE k == f - 2
          <5>1. k \in Int /\ (k >= 2 <=> 15 \in info) /\ (k % 2 = 1 <=> 11 \in info)
            BY <3>4
          <5> HIDE DEF k
          <5>2. getVerbTant(k) = info \cap {11, 15}
            BY <5>1 DEF getVerbTant, If, gfRetForms, gfMultiple
          <5> QED  BY <5>2 DEF k
        <4> QED  BY <1>1, <4>1, <4>2
      <3>7. f \in 0 .. 233
        BY <3>4
      <3> QED  BY <1>3, <2>2, <3>5, <3>6, <3>7 DEF f
    <2>3. CASE t \in {vtFuture, vtPresent}
      <3>1. /\ Has(info, gfVerbFace)
            /\ Within(info, gfVerbTime \cup gfVerbFace \cup gfRetForms \cup gfMultiple)
        BY <1>4, <2>3 DEF OfVerb, PersonalForm, vtInfinitiv, vtImperativ, vtFuture, vtPresent, vtPast
      <3> DEFINE p == mapPersonal(info)
      <3>2. p \in 0 .. 11 /\ At(t, 0) \cup getPersonal(p) = info
        BY <3>1, PersonalBack
      <3>3. f = (IF t = vtFuture THEN 6 ELSE 18) + p
        <4>1. f = ((IF t = vtFuture THEN 6 ELSE 18) + p) % 256
          BY <1>4, <2>3 DEF MapVerbInfo, vtInfinitiv, vtImperativ, vtFuture, vtPresent, vtPast
        <4> HIDE DEF f, t, p
        <4> QED  BY <3>2, <4>1
      <3> HIDE DEF f, t, p
      <3>4. CASE t = vtFuture
        <4>1. f \in 6 .. 17 /\ p = f - 6 /\ f \in 0 .. 233
          BY <3>2, <3>3, <3>4
        <4>2. GetVerbInfo(f) = Tense(vtFuture, getPersonal(f - 6))
          <5>1. ~(f < 2) /\ f \notin 2 .. 5 /\ f \in 6 .. 17 /\ f \notin 18 .. 29 /\ f \notin 30 .. 127
                /\ f \notin 128 .. 135 /\ f \notin 136 .. 233
            BY <4>1
          <5> QED  BY <5>1, ZenonT(40) DEF GetVerbInfo
        <4>3. GetVerbInfo(f) = Tense(t, getPersonal(p))
          BY <3>4, <4>1, <4>2
        <4> QED  BY <1>3, <3>2, <4>1, <4>3 DEF f
      <3>5. CASE t = vtPresent
        <4>1. f \in 18 .. 29 /\ p = f - 18 /\ f \in 0 .. 233
          BY <3>2, <3>3, <3>5 DEF vtFuture, vtPresent
        <4>2. GetVerbInfo(f) = Tense(vtPresent, getPersonal(f - 18))
          <5>1. ~(f < 2) /\ f \notin 2 .. 5 /\ f \notin 6 .. 17 /\ f \in 18 .. 29 /\ f \notin 30 .. 127
                /\ f \notin 128 .. 135 /\ f \notin 136 .. 233
            BY <4>1
          <5> QED  BY <5>1, ZenonT(40) DEF GetVerbInfo
        <4>3. GetVerbInfo(f) = Tense(t, getPersonal(p))
          BY <3>5, <4>1, <4>2
        <4> QED  BY <1>3, <3>2, <4>1, <4>3 DEF f
      <3> QED  BY <2>3, <3>4, <3>5 DEF f
    <2>4. CASE t = vtPast
      <3>1. /\ Within(info, gfVerbTime \cup gfRetForms \cup gfMultiple \cup gfGendMask)
            /\ Numbered(info) /\ ~(Has(info, gfMultiple) /\ Has(info, gfGendMask))
        BY <1>4, <2>4 DEF OfVerb, PersonalForm, vtInfinitiv, vtImperativ, vtFuture, vtPresent, vtPast
      <3> DEFINE q == mapGenderOf(info)
      <3>2. /\ GendOf(info) \in 0 .. 3
            /\ At(GendOf(info), 9) = info \cap {9, 10}
        <4>1. GendOf(info) \in 0 .. 3 /\ At(GendOf(info), 9) = info \cap (9 .. 9 + 1)
          BY FieldGot2 DEF GendOf
        <4>2. 9 .. 9 + 1 = {9, 10}
          OBVIOUS
        <4> QED  BY <4>1, <4>2
      <3>3. /\ Has(info, gfMultiple) <=> 11 \in info
            /\ Has(info, gfGendMask) <=> 9 \in info \/ 10 \in info
        BY DEF Has, gfMultiple, gfGendMask
      <3>4. q \in 0 .. 3 /\ (q = 3 <=> 11 \in info) /\ (q # 3 => GendOf(info) = q + 1)
        <4>1. CASE 11 \in info
          BY <3>3, <4>1 DEF mapGenderOf
        <4>2. CASE 11 \notin info
          <5>1. GendOf(info) # 0
            BY <3>1, <3>3, <4>2 DEF Numbered, GendOf, Field2, Bit
          <5> QED  BY <3>2, <3>3, <4>2, <5>1 DEF mapGenderOf
        <4> QED  BY <4>1, <4>2
      <3>5. f = (128 + 4 * Ret(info) + q) % 256
        BY <1>4, <2>4 DEF MapVerbInfo, vtInfinitiv, vtImperativ, vtFuture, vtPresent, vtPast
      <3> HIDE DEF f, t, q
      <3>6. f \in 128 .. 135 /\ (f >= 132 <=> 15 \in info) /\ f % 4 = q /\ f \in 0 .. 233
        BY <1>2, <3>4, <3>5
      <3> DEFINE bits == If(f >= 132, gfRetForms) \cup getGenderOf(f % 4)
      <3>7. GetVerbInfo(f) = Tense(vtPast, bits)
        <4>1. ~(f < 2) /\ f \notin 2 .. 5 /\ f \notin 6 .. 17 /\ f \notin 18 .. 29 /\ f \notin 30 .. 127
              /\ f \in 128 .. 135 /\ f \notin 136 .. 233
          BY <3>6
        <4> QED  BY <4>1, ZenonT(40) DEF GetVerbInfo
      <3>8. getGenderOf(q) = info \cap {9, 10, 11}
        <4>1. CASE q = 3
          BY <3>1, <3>3, <3>4, <4>1 DEF getGenderOf, gfMultiple
        <4>2. CASE q # 3
          BY <3>2, <3>4, <4>2 DEF getGenderOf
        <4> QED  BY <4>1, <4>2
      <3>9. info = At(t, 0) \cup bits
        <4>1. \A b \in info : b \in {0, 1, 2, 9, 10, 11, 15}
          BY <3>1 DEF Within, gfVerbTime, gfRetForms, gfMultiple, gfGendMask
        <4>2. If(f >= 132, gfRetForms) = info \cap {15}
          BY <3>6 DEF If, gfRetForms
        <4>3. bits = (info \cap {15}) \cup (info \cap {9, 10, 11})
          BY <3>6, <3>8, <4>2
        <4> HIDE DEF bits
        <4> QED  BY <1>1, <4>1, <4>3
      <3> HIDE DEF bits
      <3> QED  BY <1>3, <2>4, <3>6, <3>7, <3>9 DEF f
    <2> QED  BY <1>4, <2>1, <2>2, <2>3, <2>4 DEF OfVerb, PersonalForm
  <1>5. CASE Has(info, gfVerbForm)
    <2>1. t \in {vtPresent, vtPast} /\ Participle(info)
      BY <1>5 DEF OfVerb
    <2> DEFINE p == mapAllParts(info, flags)
    <2>2. p \in 0 .. 97 /\ Restores(getAllParts(p, info \cap gfVerbTime), info, flags)
      BY <1>5, <2>1, PartsBack
    <2>3. At(t, 0) = info \cap gfVerbTime
      <3>1. gfVerbTime = {0, 1, 2}
        BY DEF gfVerbTime
      <3> HIDE DEF t
      <3> QED  BY <1>1, <3>1
    <2>4. f = ((IF t = vtPresent THEN 30 ELSE 136) + p) % 256
      BY <1>5, <2>1 DEF MapVerbInfo, vtInfinitiv, vtImperativ, vtFuture, vtPresent, vtPast
    <2> HIDE DEF f, t, p
    <2>5. CASE t = vtPresent
      <3>1. f \in 30 .. 127 /\ f - 30 = p /\ f \in 0 .. 233
        BY <2>2, <2>4, <2>5
      <3>2. GetVerbInfo(f) = getAllParts(p, At(t, 0))
        BY <2>5, <3>1, PartNumbers DEF vtPresent
      <3> QED  BY <2>2, <2>3, <3>1, <3>2 DEF f
    <2>6. CASE t = vtPast
      <3>1. f \in 136 .. 233 /\ f - 136 = p /\ f \in 0 .. 233
        BY <2>2, <2>4, <2>6 DEF vtPresent, vtPast
      <3>2. GetVerbInfo(f) = getAllParts(p, At(t, 0))
        BY <2>6, <3>1, PartNumbers DEF vtPast
      <3> QED  BY <2>2, <2>3, <3>1, <3>2 DEF f
    <2> QED  BY <2>1, <2>5, <2>6
  <1> QED  BY <1>4, <1>5

-------------------------------------------------------------------------------
(* Levels of alternation *)

(* The rules of alternation: a noun's rule is asked of nouns only. *)
LEMMA MixRules ==
  /\ Len(mixTypes) = 25
  /\ \A type \in 1 .. 25 : mixTypes[type] \in 1 .. 8 /\ (mixTypes[type] \in {4, 7} => type \in 7 .. 24)
  <1>1. Len(mixTypes) = 25
    BY DEF mixTypes
  <1>2. ASSUME NEW type \in 1 .. 25
        PROVE  mixTypes[type] \in 1 .. 8 /\ (mixTypes[type] \in {4, 7} => type \in 7 .. 24)
    BY DEF mixTypes
  <1> QED  BY <1>1, <1>2

(* There are three levels. *)
LEMMA Levels ==
  ASSUME NEW w, w.type \in 1 .. 62, NEW info, NEW flags
  PROVE  GetSwapLevel(w, info, flags) \in 1 .. 3
  <1>1. GetVerbMixPower(w.mix, info) \in 1 .. 3
    BY DEF GetVerbMixPower
  <1>2. /\ MascAnimate(info) \in 1 .. 3 /\ MascNotAnim(info) \in 1 .. 3
        /\ FemnAnimate(info) \in 1 .. 3 /\ FemnNotAnim(info) \in 1 .. 3
        /\ Adjectiv(info) \in 1 .. 3
    BY DEF MascAnimate, MascNotAnim, FemnAnimate, FemnNotAnim, Adjectiv
  <1>3. w.type > 25 \/ mixTypes[w.type] \in 1 .. 8
    BY MixRules
  <1> QED  BY <1>1, <1>2, <1>3, MixRules DEF GetSwapLevel

(* The numbers of nouns end with 17. *)
LEMMA NounNumbers ==
  ASSUME NEW f \in 0 .. 255
  PROVE  GetNounInfo(f).ok <=> f \in 0 .. 17
  <1> DEFINE d == getCaseInfo(f % 10, If(f >= 10, gfMultiple))
  <1>1. d = [ok |-> TRUE, grinfo |-> d.grinfo, bflags |-> d.bflags]
    BY DEF getCaseInfo, Gram
  <1>2. (f <= 17) \in BOOLEAN /\ (f <= 17 <=> f \in 0 .. 17)
    OBVIOUS
  <1>3. GetNounInfo(f) = [d EXCEPT !.ok = f <= 17]
    BY Zenon DEF GetNounInfo
  <1> HIDE DEF d
  <1>4. GetNounInfo(f).ok = (f <= 17)
    BY <1>1, <1>3
  <1> QED  BY <1>2, <1>4

(* The numbers of verbs end with 233. *)
LEMMA VerbNumbers ==
  ASSUME NEW f \in 0 .. 255, GetVerbInfo(f).ok
  PROVE  f \in 0 .. 233
  <1> SUFFICES ASSUME f \in 234 .. 255 PROVE FALSE
    OBVIOUS
  <1>1. ~(f < 2) /\ f \notin 2 .. 5 /\ f \notin 6 .. 17 /\ f \notin 18 .. 29 /\ f \notin 30 .. 127
        /\ f \notin 128 .. 135 /\ f \notin 136 .. 233
    OBVIOUS
  <1>2. GetVerbInfo(f) = Gram(FALSE, At(vtPast, 0), Alive)
    BY <1>1, ZenonT(40) DEF GetVerbInfo
  <1> QED  BY <1>2 DEF Gram

(* The accusative a noun's number asks for is of one kind. *)
LEMMA KindAsked ==
  ASSUME NEW f \in 0 .. 17, CaseOf(GetNounInfo(f).grinfo) = 3
  PROVE  GetNounInfo(f).bflags \in {{afAnimated}, {afNotAlive}}
  <1> DEFINE n == f % 10
             base == If(f >= 10, gfMultiple)
             d == getCaseInfo(n, base)
  <1>1. n \in 0 .. 9 /\ \A b \in base : b = 11
    BY DEF If, gfMultiple
  <1>2. GetNounInfo(f).grinfo = d.grinfo /\ GetNounInfo(f).bflags = d.bflags
    <2>1. d = [ok |-> TRUE, grinfo |-> d.grinfo, bflags |-> d.bflags]
      BY DEF getCaseInfo, Gram
    <2> HIDE DEF d
    <2>2. GetNounInfo(f) = [d EXCEPT !.ok = f <= 17]
      BY Zenon DEF GetNounInfo, d
    <2> QED  BY <2>1, <2>2
  <1> HIDE DEF n, base
  <1>3. CASE n \in {3, 4}
    BY <1>2, <1>3 DEF getCaseInfo, Gram
  <1>4. ASSUME NEW v \in (0 .. 2) \cup (4 .. 7), d.grinfo = base \cup At(v, 12)
        PROVE  FALSE
    <2>1. 12 \notin base /\ 12 + 1 \notin base /\ 12 + 2 \notin base /\ v \in 0 .. 7
      BY <1>1
    <2>2. Field3(base \cup At(v, 12), 12) = v
      BY <2>1, FieldPut3
    <2>3. CaseOf(d.grinfo) = v
      BY <1>4, <2>2 DEF CaseOf
    <2> QED  BY <1>2, <2>3
  <1>5. CASE n \in 0 .. 2
    <2>1. d.grinfo = base \cup At(n, 12)
      BY <1>5 DEF getCaseInfo, Gram
    <2> QED  BY <1>4, <1>5, <2>1
  <1>6. CASE n \in 5 .. 8
    <2> DEFINE v == n - 1
    <2>1. d.grinfo = base \cup At(v, 12) /\ v \in 4 .. 7
      BY <1>6 DEF getCaseInfo, Gram
    <2> HIDE DEF v
    <2> QED  BY <1>4, <2>1
  <1>7. CASE n = 9
    <2>1. d.grinfo = base \cup At(8, 12) /\ At(8, 12) = {15}
      BY <1>7 DEF getCaseInfo, Gram, At, If
    <2> QED  BY <1>1, <1>2, <2>1 DEF CaseOf, Field3, Field2, Bit
  <1> QED  BY <1>1, <1>3, <1>5, <1>6, <1>7

(* The form asked for and the description in the table give the same level. *)
LEMMA LevelAgrees ==
  ASSUME NEW w, w.type \in 1 .. 62, NEW f \in 0 .. 255, NEW g,
         GetWordInfo(w.type, f).ok, g.grinfo = GetWordInfo(w.type, f).grinfo,
         Has(g.bflags, GetWordInfo(w.type, f).bflags), OneKind(w.type, g)
  PROVE  LET r == GetWordInfo(w.type, f) IN
           GetSwapLevel(w, r.grinfo, r.bflags) = GetSwapLevel(w, g.grinfo, g.bflags)
  <1> DEFINE r == GetWordInfo(w.type, f)
             rule == mixTypes[w.type]
  <1>1. CASE w.type > 25
    BY <1>1, MixRules DEF GetSwapLevel
  <1>2. CASE w.type <= 25 /\ rule \notin {4, 7}
    BY <1>2, MixRules DEF GetSwapLevel
  <1>3. CASE w.type <= 25 /\ rule \in {4, 7}
    <2>1. w.type \in 7 .. 24
      BY <1>3, MixRules
    <2>2. r = GetNounInfo(f)
      <3>1. ~IsVerb(w.type) /\ ~IsAdjective(w.type)
        BY <2>1 DEF IsVerb, IsAdjective
      <3> QED  BY <3>1, Zenon DEF GetWordInfo
    <2>3. f \in 0 .. 17
      BY <2>2, NounNumbers
    <2>4. CaseOf(g.grinfo) = 3 => r.bflags \in {{afAnimated}, {afNotAlive}}
      BY <2>2, <2>3, KindAsked
    <2> HIDE DEF r
    <2>5. ASSUME CaseOf(g.grinfo) = 3, ~(Alive \subseteq g.bflags)
          PROVE  afAnimated \in r.bflags <=> afAnimated \in g.bflags
      <3>1. Has(g.bflags, r.bflags)
        BY DEF r
      <3> QED  BY <2>4, <2>5, <3>1 DEF Has, Alive, afAnimated, afNotAlive
    <2>6. \A plural \in BOOLEAN : FormIs(g.grinfo, 3, plural) => CaseOf(g.grinfo) = 3
      <3>1. At(3, 12) = {12, 12 + 1}
        BY SmallBits
      <3> QED  BY <3>1 DEF FormIs, CaseOf, Field3, Field2, Bit, gfFormMask, gfMultiple, If
    <2>7. g.grinfo = r.grinfo
      BY DEF r
    <2>8. CASE rule = 4
      <3>1. ~FormIs(g.grinfo, 3, FALSE) => MascAnimate(g.grinfo) = MascNotAnim(g.grinfo)
        BY DEF MascAnimate, MascNotAnim
      <3>2. FormIs(g.grinfo, 3, FALSE) => (afAnimated \in r.bflags <=> afAnimated \in g.bflags)
        BY <1>3, <2>5, <2>6, <2>8, MixRules DEF OneKind
      <3>3. \A flags : GetSwapLevel(w, g.grinfo, flags) =
                        IF afAnimated \in flags THEN MascAnimate(g.grinfo) ELSE MascNotAnim(g.grinfo)
        BY <1>3, <2>8, MixRules DEF GetSwapLevel
      <3>4. GetSwapLevel(w, r.grinfo, r.bflags) = GetSwapLevel(w, g.grinfo, g.bflags)
        BY <2>7, <3>1, <3>2, <3>3
      <3> QED  BY <3>4 DEF r
    <2>9. CASE rule = 7
      <3>1. ~FormIs(g.grinfo, 3, TRUE) => FemnAnimate(g.grinfo) = FemnNotAnim(g.grinfo)
        BY DEF FemnAnimate, FemnNotAnim
      <3>2. FormIs(g.grinfo, 3, TRUE) => (afAnimated \in r.bflags <=> afAnimated \in g.bflags)
        BY <1>3, <2>5, <2>6, <2>9, MixRules DEF OneKind
      <3>3. \A flags : GetSwapLevel(w, g.grinfo, flags) =
                        IF afAnimated \in flags THEN FemnAnimate(g.grinfo) ELSE FemnNotAnim(g.grinfo)
        BY <1>3, <2>9, MixRules DEF GetSwapLevel
      <3>4. GetSwapLevel(w, r.grinfo, r.bflags) = GetSwapLevel(w, g.grinfo, g.bflags)
        BY <2>7, <3>1, <3>2, <3>3
      <3> QED  BY <3>4 DEF r
    <2> QED  BY <1>3, <2>8, <2>9
  <1> QED  BY <1>1, <1>2, <1>3

-------------------------------------------------------------------------------
(* The invariant *)

(* What BuildForm answers to the number it is asked for. *)
Answer ==
  LET r == GetWordInfo(word.type, idform) IN
    IF Refused(r) THEN {}
    ELSE {[gram |-> g, level |-> GetSwapLevel(word, r.grinfo, r.bflags)] : g \in BuildFlexSet(r)}

(* Besides the types: the number asked for is that of the reading given, and what  *)
(* is built is the answer to it.                                                   *)
GrammarInv ==
  /\ GrammarTypeOK
  /\ \A g \in given : idform = MapWordInfo(word.type, g)
  /\ built = IF pc = "built" THEN Answer ELSE {}

(* A number is a byte, whatever the description. *)
LEMMA MapBytes ==
  ASSUME NEW type, NEW g
  PROVE  MapWordInfo(type, g) \in 0 .. 255
  <1> DEFINE info == g.grinfo
             flags == g.bflags
  <1>1. mapCaseInfo(info, flags) \in 0 .. 8 /\ mapGendInfo(info, flags) \in 0 .. 255
    BY CaseBytes
  <1>2. Ret(info) \in 0 .. 1 /\ Mult(info) \in 0 .. 1
    BY DEF Ret, Mult
  <1>3. MapNounInfo(info, flags) \in 0 .. 255
    BY <1>1, <1>2 DEF MapNounInfo
  <1>4. MapDefsInfo(info, flags) \in 0 .. 255
    BY <1>1, <1>2 DEF MapDefsInfo
  <1>5. MapVerbInfo(info, flags) \in 0 .. 255
    <2>1. mapVerbTant(info) \in 0 .. 3
      BY <1>2 DEF mapVerbTant
    <2>2. FaceOf(info) \in 0 .. 3 /\ GendOf(info) \in 0 .. 3
      BY FieldGot2 DEF FaceOf, GendOf
    <2>3. mapPersonal(info) \in 0 .. 255
      BY <2>1, <2>2 DEF mapPersonal
    <2>4. mapGenderOf(info) \in 0 .. 255
      BY <2>2 DEF mapGenderOf
    <2>5. mapAllParts(info, flags) \in 0 .. 255
      BY <1>1, <1>2 DEF mapAllParts
    <2> QED  BY <1>2, <2>1, <2>3, <2>4, <2>5 DEF MapVerbInfo
  <1> QED  BY <1>3, <1>4, <1>5, Zenon DEF MapWordInfo

(* The answer is made of endings of the word's table, with a level each. *)
LEMMA AnswerMembers ==
  ASSUME GrammarTypeOK, NEW b \in Answer
  PROVE  LET r == GetWordInfo(word.type, idform) IN
           /\ r.ok
           /\ b.gram \in PlainTable[word.table]
           /\ b.gram.grinfo = r.grinfo /\ Has(b.gram.bflags, r.bflags)
           /\ b.level = GetSwapLevel(word, r.grinfo, r.bflags)
           /\ b.level \in 1 .. 3
  <1> DEFINE r == GetWordInfo(word.type, idform)
  <1>1. ~Refused(r) /\ \E g \in BuildFlexSet(r) :
          b = [gram |-> g, level |-> GetSwapLevel(word, r.grinfo, r.bflags)]
    <2> HIDE DEF r
    <2>1. b \in IF Refused(r) THEN {}
                ELSE {[gram |-> g, level |-> GetSwapLevel(word, r.grinfo, r.bflags)] : g \in BuildFlexSet(r)}
      BY Zenon DEF Answer, r
    <2> QED  BY <2>1
  <1> HIDE DEF r
  <1>2. GetSwapLevel(word, r.grinfo, r.bflags) \in 1 .. 3
    BY Levels, WordsAssumption DEF GrammarTypeOK
  <1>3. /\ r.ok
        /\ b.gram \in PlainTable[word.table]
        /\ b.gram.grinfo = r.grinfo /\ Has(b.gram.bflags, r.bflags)
        /\ b.level = GetSwapLevel(word, r.grinfo, r.bflags)
        /\ b.level \in 1 .. 3
    BY <1>1, <1>2 DEF Refused, BuildFlexSet
  <1> QED  BY <1>3 DEF r

(* The invariant holds at first and every step keeps it. *)
LEMMA GrammarInvInit == Init => GrammarInv
  BY DEF Init, GrammarInv, GrammarTypeOK

LEMMA GrammarInvNext == GrammarInv /\ [Next]_vars => GrammarInv'
  <1> SUFFICES ASSUME GrammarInv, [Next]_vars PROVE GrammarInv'
    OBVIOUS
  <1>1. ASSUME NEW g \in Forms(word), Lemmatize(g) PROVE GrammarInv'
    <2>1. MapWordInfo(word.type, g) \in 0 .. 255
      BY MapBytes
    <2> QED  BY <1>1, <2>1 DEF Lemmatize, GrammarInv, GrammarTypeOK, Forms
  <1>2. ASSUME NEW form \in 0 .. 255, AskFor(form) PROVE GrammarInv'
    BY <1>2 DEF AskFor, GrammarInv, GrammarTypeOK
  <1>3. CASE BuildForm
    <2>1. built' = Answer /\ Answer' = Answer /\ pc' = "built"
          /\ UNCHANGED <<word, given, idform>>
      BY <1>3 DEF BuildForm, Answer, Refused, BuildFlexSet
    <2>2. \A b \in Answer : b.gram \in PlainTable[word.table] /\ b.level \in 1 .. 3
      BY AnswerMembers, Zenon DEF GrammarInv
    <2>3. GrammarTypeOK'
      BY <2>1, <2>2 DEF GrammarInv, GrammarTypeOK, Forms
    <2> QED  BY <2>1, <2>3 DEF GrammarInv
  <1>4. CASE Return
    BY <1>4 DEF Return, GrammarInv, GrammarTypeOK
  <1>5. CASE UNCHANGED vars
    BY <1>5 DEF vars, GrammarInv, GrammarTypeOK, Forms, Answer, Refused, BuildFlexSet
  <1> QED  BY <1>1, <1>2, <1>3, <1>4, <1>5 DEF Next

(* The variables have their types in every state: a number is a byte and a level one *)
(* of three, whatever dictionary and tables.                                         *)
THEOREM GrammarTypes == Spec => []GrammarTypeOK
  <1>1. GrammarInv => GrammarTypeOK
    BY DEF GrammarInv
  <1> QED  BY GrammarInvInit, GrammarInvNext, <1>1, PTL DEF Spec

(* The number Lemmatize gives a reading leads BuildForm back to this very ending. *)
THEOREM BuildsBackAlways == Spec => []BuildsBack
  <1>1. GrammarInv => BuildsBack
    <2> SUFFICES ASSUME GrammarInv, pc = "built", NEW g \in given, ~Unnumbered(g)
                 PROVE  g \in {b.gram : b \in built}
      BY DEF BuildsBack
    <2> DEFINE r == GetWordInfo(word.type, idform)
    <2>1. /\ g \in PlainTable[word.table] /\ word \in Words
          /\ word.multiple => gfMultiple \subseteq g.grinfo
      BY DEF GrammarInv, GrammarTypeOK, Forms
    <2>2. /\ g.grinfo \in SUBSET Bits /\ Has(g.bflags, Alive)
          /\ IF IsVerb(word.type) THEN OfVerb(g.grinfo)
             ELSE IF IsAdjective(word.type) THEN OfAdjective(g.grinfo) ELSE OfNoun(g.grinfo)
      BY <2>1, PlainTableAssumption
    <2>3. idform = MapWordInfo(word.type, g)
      BY DEF GrammarInv
    <2>4. Restores(r, g.grinfo, g.bflags)
      <3>1. CASE IsVerb(word.type)
        <4>1. Restores(GetVerbInfo(MapVerbInfo(g.grinfo, g.bflags)), g.grinfo, g.bflags)
          BY <2>2, <3>1, VerbBack DEF Unnumbered
        <4>2. r = GetVerbInfo(MapVerbInfo(g.grinfo, g.bflags))
          BY <2>3, <3>1, Zenon DEF GetWordInfo, MapWordInfo
        <4> QED  BY <4>1, <4>2, Zenon
      <3>2. CASE ~IsVerb(word.type) /\ IsAdjective(word.type)
        <4>1. Restores(GetDefsInfo(MapDefsInfo(g.grinfo, g.bflags)), g.grinfo, g.bflags)
          BY <2>2, <3>2, DefsBack DEF Unnumbered
        <4>2. r = GetDefsInfo(MapDefsInfo(g.grinfo, g.bflags))
          BY <2>3, <3>2, Zenon DEF GetWordInfo, MapWordInfo
        <4> QED  BY <4>1, <4>2, Zenon
      <3>3. CASE ~IsVerb(word.type) /\ ~IsAdjective(word.type)
        <4>1. Restores(GetNounInfo(MapNounInfo(g.grinfo, g.bflags)), g.grinfo, g.bflags)
          BY <2>2, <3>3, NounBack
        <4>2. r = GetNounInfo(MapNounInfo(g.grinfo, g.bflags))
          BY <2>3, <3>3, Zenon DEF GetWordInfo, MapWordInfo
        <4> QED  BY <4>1, <4>2, Zenon
      <3> QED  BY <3>1, <3>2, <3>3
    <2> HIDE DEF r
    <2>5. ~Refused(r)
      BY <2>1, <2>4 DEF Refused, Restores, Has, gfMultiple
    <2>6. [gram |-> g, level |-> GetSwapLevel(word, r.grinfo, r.bflags)] \in built
      <3>1. g \in BuildFlexSet(r)
        BY <2>1, <2>4 DEF BuildFlexSet, Restores
      <3> QED  BY <2>5, <3>1 DEF GrammarInv, Answer, r
    <2> QED  BY <2>6
  <1> QED  BY GrammarInvInit, GrammarInvNext, <1>1, PTL DEF Spec

(* A form built for a number has this number when it is read, but for the accusative *)
(* of both kinds and the numbers of adjectives above 65.                             *)
THEOREM BuiltIsAskedAlways == Spec => []BuiltIsAsked
  <1>1. GrammarInv => BuiltIsAsked
    <2> SUFFICES ASSUME GrammarInv, IsAdjective(word.type) => idform <= 65, NEW b \in built
                 PROVE  Reads(MapWordInfo(word.type, b.gram), idform, b.gram.grinfo, b.gram.bflags)
      BY DEF BuiltIsAsked, Reads
    <2> DEFINE r == GetWordInfo(word.type, idform)
               g == b.gram
    <2>1. b \in Answer /\ GrammarTypeOK
      BY DEF GrammarInv
    <2>2. r.ok /\ g \in PlainTable[word.table] /\ g.grinfo = r.grinfo /\ Has(g.bflags, r.bflags)
      BY <2>1, AnswerMembers, Zenon
    <2>3. IF IsVerb(word.type) THEN OfVerb(g.grinfo)
          ELSE IF IsAdjective(word.type) THEN OfAdjective(g.grinfo) ELSE OfNoun(g.grinfo)
      BY <2>1, <2>2, PlainTableAssumption DEF GrammarTypeOK
    <2>4. idform \in 0 .. 255
      BY <2>1 DEF GrammarTypeOK
    <2> HIDE DEF g
    <2>5. CASE IsVerb(word.type)
      <3>1. r = GetVerbInfo(idform) /\ MapWordInfo(word.type, g) = MapVerbInfo(g.grinfo, g.bflags)
        BY <2>5, Zenon DEF GetWordInfo, MapWordInfo
      <3> HIDE DEF r
      <3>2. idform \in 0 .. 233
        BY <2>2, <2>4, <3>1, VerbNumbers
      <3>3. Reads(MapVerbInfo(r.grinfo, g.bflags), idform, r.grinfo, g.bflags)
        BY <2>2, <3>1, <3>2, VerbThere
      <3> QED  BY <2>2, <3>1, <3>3, Zenon DEF g
    <2>6. CASE ~IsVerb(word.type) /\ IsAdjective(word.type)
      <3>1. r = GetDefsInfo(idform) /\ MapWordInfo(word.type, g) = MapDefsInfo(g.grinfo, g.bflags)
        BY <2>6, Zenon DEF GetWordInfo, MapWordInfo
      <3> HIDE DEF r
      <3>2. idform \in 0 .. 65
        BY <2>4, <2>6
      <3>3. Reads(MapDefsInfo(r.grinfo, g.bflags), idform, r.grinfo, g.bflags)
        BY <2>2, <3>1, <3>2, DefsThere
      <3> QED  BY <2>2, <3>1, <3>3, Zenon DEF g
    <2>7. CASE ~IsVerb(word.type) /\ ~IsAdjective(word.type)
      <3>1. r = GetNounInfo(idform) /\ MapWordInfo(word.type, g) = MapNounInfo(g.grinfo, g.bflags)
        BY <2>7, Zenon DEF GetWordInfo, MapWordInfo
      <3> HIDE DEF r
      <3>2. idform \in 0 .. 17
        BY <2>2, <2>4, <3>1, NounNumbers
      <3>3. Reads(MapNounInfo(r.grinfo, g.bflags), idform, r.grinfo, g.bflags)
        <4>1. OfNoun(r.grinfo)
          BY <2>2, <2>3, <2>7
        <4> QED  BY <2>2, <3>1, <3>2, <4>1, NounThere
      <3> QED  BY <2>2, <3>1, <3>3, Zenon DEF g
    <2> QED  BY <2>5, <2>6, <2>7 DEF g
  <1> QED  BY GrammarInvInit, GrammarInvNext, <1>1, PTL DEF Spec

(* The row of alternation a form is built with is the row its ending is read with. *)
THEOREM RowAgreesAlways == Spec => []RowAgrees
  <1>1. GrammarInv => RowAgrees
    <2> SUFFICES ASSUME GrammarInv, NEW b \in built
                 PROVE  b.level = GetSwapLevel(word, b.gram.grinfo, b.gram.bflags)
      BY DEF RowAgrees
    <2> DEFINE r == GetWordInfo(word.type, idform)
               g == b.gram
    <2>1. b \in Answer /\ GrammarTypeOK
      BY DEF GrammarInv
    <2>2. /\ r.ok /\ g \in PlainTable[word.table] /\ g.grinfo = r.grinfo /\ Has(g.bflags, r.bflags)
          /\ b.level = GetSwapLevel(word, r.grinfo, r.bflags)
      BY <2>1, AnswerMembers, Zenon
    <2>3. OneKind(word.type, g) /\ word.type \in 1 .. 62 /\ idform \in 0 .. 255
      BY <2>1, <2>2, PlainTableAssumption, WordsAssumption DEF GrammarTypeOK
    <2> HIDE DEF g
    <2>4. GetSwapLevel(word, r.grinfo, r.bflags) = GetSwapLevel(word, g.grinfo, g.bflags)
      BY <2>2, <2>3, LevelAgrees
    <2> QED  BY <2>2, <2>4, Zenon DEF g
  <1> QED  BY GrammarInvInit, GrammarInvNext, <1>1, PTL DEF Spec

===============================================================================
