---------------------------- MODULE GrammarNumbers ----------------------------
(***************************************************************************)
(* The number of a form and what it stands for (xmorph/grammap.h):         *)
(* MapWordInfo numbers a description, GetWordInfo describes a number; and  *)
(* the level of alternation of a form (rus/libdict/mlmadefs.h).  grinfo    *)
(* and bflags are sets of bits.                                            *)
(***************************************************************************)
EXTENDS Integers, Sequences

-------------------------------------------------------------------------------
(* The bits of rus/include/mlma1049.h *)

Bits == 0 .. 15
If(condition, bits) == IF condition THEN bits ELSE {}
At(value, low) ==
  If(value % 2 = 1, {low}) \cup If((value \div 2) % 2 = 1, {low + 1})
  \cup If((value \div 4) % 2 = 1, {low + 2}) \cup If((value \div 8) % 2 = 1, {low + 3})

Has(info, bits) == info \cap bits # {}
Bit(info, b) == IF b \in info THEN 1 ELSE 0
Field2(info, low) == Bit(info, low) + 2 * Bit(info, low + 1)
Field3(info, low) == Field2(info, low) + 4 * Bit(info, low + 2)

gfRetForms == {15}
gfFormMask == 12 .. 14      \* the case
gfMultiple == {11}
gfGendMask == 9 .. 10
gfShortOne == {8}
gfCompared == {7}
gfVerbForm == 5 .. 6
gfAdverb == {6}             \* a bit of gfVerbForm: of an adjective, not of a verb
gfVerbFace == 3 .. 4
gfVerbTime == 0 .. 2

CaseOf(info) == Field3(info, 12)
GendOf(info) == Field2(info, 9)
FormOf(info) == Field2(info, 5)
FaceOf(info) == Field2(info, 3)
TimeOf(info) == Field3(info, 0)

vtInfinitiv == 1
vtImperativ == 2
vtFuture == 3
vtPresent == 4
vtPast == 5
vfVerbActive == 1
vfVerbPassiv == 2
vfVerbDoing == 3

afAnimated == 0
afNotAlive == 1
afHardForm == 2
afJoiningC == 3
Alive == {afAnimated, afNotAlive}
AllFlags == 0 .. 7

-------------------------------------------------------------------------------
(* grammap.h: the number of a form.  Every function returns a byte. *)

IsVerb(type) == type <= 6
IsAdjective(type) == type \in 25 .. 28 \cup {34, 36, 42}

Ret(info) == IF Has(info, gfRetForms) THEN 1 ELSE 0
Mult(info) == IF Has(info, gfMultiple) THEN 1 ELSE 0

(* altered: what may be animate is numbered as animate *)
mapCaseInfoAnimate(info, flags) ==
  LET idcase == CaseOf(info) IN
    IF idcase > 3 THEN idcase + 1 ELSE IF idcase < 3 THEN idcase
    ELSE IF afAnimated \in flags THEN 4 ELSE 3

mapCaseInfo(info, flags) ==
  LET idcase == CaseOf(info) IN
    IF idcase > 3 THEN idcase + 1 ELSE IF idcase < 3 THEN idcase
    ELSE IF afNotAlive \in flags THEN 3 ELSE 4

mapGenderOf(info) == IF Has(info, gfMultiple) THEN 3 ELSE (GendOf(info) - 1) % 256

mapGendInfo(info, flags) ==
  (mapGenderOf(info) * 8 + (IF Has(info, gfShortOne) THEN 7 ELSE mapCaseInfo(info, flags))) % 256

MapDefsInfo(info, flags) ==
  IF Has(info, gfAdverb) THEN 65 ELSE IF Has(info, gfCompared) THEN 64
  ELSE (32 * Ret(info) + mapGendInfo(info, flags)) % 256

MapNounInfo(info, flags) == 10 * Mult(info) + mapCaseInfo(info, flags)

mapVerbTant(info) == 2 * Ret(info) + Mult(info)

mapPersonal(info) == (((FaceOf(info) - 1) % 256) * 4 + mapVerbTant(info)) % 256

(* altered: passive participles count the reflexive form as the active ones do *)
mapAllPartsAlike(info, flags) ==
  LET part == FormOf(info) IN
    (IF part = vfVerbDoing THEN 96 + Ret(info)
     ELSE (IF part = vfVerbPassiv THEN 32 ELSE 0) + 32 * Ret(info) + mapGendInfo(info, flags)) % 256

mapAllParts(info, flags) ==
  LET part == FormOf(info) IN
    (IF part = vfVerbActive THEN 32 * Ret(info) + mapGendInfo(info, flags)
     ELSE IF part = vfVerbPassiv THEN 64 + mapGendInfo(info, flags)
     ELSE 96 + Ret(info)) % 256

MapVerbInfo(info, flags) ==
  LET time == TimeOf(info)
      personal == ~Has(info, gfVerbForm) IN
    CASE time = vtInfinitiv -> Ret(info)
      [] time = vtImperativ -> 2 + mapVerbTant(info)
      [] time = vtFuture -> (6 + mapPersonal(info)) % 256
      [] time = vtPresent /\ personal -> (18 + mapPersonal(info)) % 256
      [] time = vtPresent /\ ~personal -> (30 + mapAllParts(info, flags)) % 256
      [] time = vtPast /\ personal -> (128 + 4 * Ret(info) + mapGenderOf(info)) % 256
      [] time = vtPast /\ ~personal -> (136 + mapAllParts(info, flags)) % 256
      [] OTHER -> 255

MapWordInfo(type, g) ==
  IF IsVerb(type) THEN MapVerbInfo(g.grinfo, g.bflags)
  ELSE IF IsAdjective(type) THEN MapDefsInfo(g.grinfo, g.bflags)
  ELSE MapNounInfo(g.grinfo, g.bflags)

-------------------------------------------------------------------------------
(* grammap.h: what a number stands for, and whether it is a number at all *)

Gram(ok, info, flags) == [ok |-> ok, grinfo |-> info, bflags |-> flags]

getCaseInfo(form, info) ==
  IF form >= 5 THEN Gram(TRUE, info \cup At(form - 1, 12), Alive)
  ELSE IF form <= 2 THEN Gram(TRUE, info \cup At(form, 12), Alive)
  ELSE Gram(TRUE, info \cup At(3, 12), IF form = 3 THEN {afNotAlive} ELSE {afAnimated})

getGendInfo(form, info) ==
  LET gendered == info \cup (IF form >= 24 THEN gfMultiple ELSE At(form \div 8 + 1, 9)) IN
    IF form % 8 = 7 THEN Gram(TRUE, gendered \cup gfShortOne, Alive)
    ELSE getCaseInfo(form % 8, gendered)

getGenderOf(form) == IF form = 3 THEN gfMultiple ELSE At(form + 1, 9)
getVerbTant(form) == If(form >= 2, gfRetForms) \cup If(form % 2 = 1, gfMultiple)
getPersonal(form) == At(form \div 4 + 1, 3) \cup getVerbTant(form % 4)

getAllParts(form, info) ==
  IF form >= 96 THEN Gram(TRUE, info \cup At(vfVerbDoing, 5) \cup If(form % 2 = 1, gfRetForms), Alive)
  ELSE IF form >= 64 THEN getGendInfo(form - 64, info \cup At(vfVerbPassiv, 5))
  ELSE getGendInfo(form % 32, info \cup If(form >= 32, gfRetForms) \cup At(vfVerbActive, 5))

GetDefsInfo(form) ==
  IF form = 65 THEN Gram(TRUE, gfAdverb, Alive)
  ELSE IF form = 64 THEN Gram(TRUE, gfCompared, Alive)
  ELSE getGendInfo(form % 32, If(form >= 32, gfRetForms))

GetNounInfo(form) ==
  [getCaseInfo(form % 10, If(form >= 10, gfMultiple)) EXCEPT !.ok = form <= 17]

Tense(time, bits) == Gram(TRUE, At(time, 0) \cup bits, Alive)

GetVerbInfo(form) ==
  CASE form < 2 -> Tense(vtInfinitiv, If(form = 1, gfRetForms))
    [] form \in 2 .. 5 -> Tense(vtImperativ, getVerbTant(form - 2))
    [] form \in 6 .. 17 -> Tense(vtFuture, getPersonal(form - 6))
    [] form \in 18 .. 29 -> Tense(vtPresent, getPersonal(form - 18))
    [] form \in 30 .. 127 -> getAllParts(form - 30, At(vtPresent, 0))
    [] form \in 128 .. 135 -> Tense(vtPast, If(form >= 132, gfRetForms) \cup getGenderOf(form % 4))
    [] form \in 136 .. 233 -> getAllParts(form - 136, At(vtPast, 0))
    [] OTHER -> Gram(FALSE, At(vtPast, 0), Alive)

GetWordInfo(type, form) ==
  IF IsVerb(type) THEN GetVerbInfo(form)
  ELSE IF IsAdjective(type) THEN GetDefsInfo(form) ELSE GetNounInfo(form)

-------------------------------------------------------------------------------
(* mlmadefs.h and mixTypes of makerus.cpp: the level of alternation of a form *)

GetVerbMixPower(mix, info) ==
  LET time == TimeOf(info)
      passive == FormOf(info) = vfVerbPassiv
      first == FaceOf(info) = 1 /\ ~Has(info, gfMultiple) IN
    CASE mix = 0 -> IF time = vtPast /\ passive THEN 3 ELSE IF first THEN 2 ELSE 1
      [] mix = 1 -> IF time = vtPast THEN (IF passive THEN 3 ELSE 1)
                    ELSE IF time = vtInfinitiv THEN 1 ELSE 2
      [] mix = 2 -> IF time \in {vtPresent, vtFuture} THEN 2 ELSE 1
      [] OTHER -> 1

(* case and number at once; 3 << 12 is the accusative *)
FormIs(info, k, plural) == info \cap (gfFormMask \cup gfMultiple) = At(k, 12) \cup If(plural, gfMultiple)

MascAnimate(info) == IF FormIs(info, 0, FALSE) THEN 1 ELSE 2
MascNotAnim(info) == IF FormIs(info, 0, FALSE) \/ FormIs(info, 3, FALSE) THEN 1 ELSE 2

(* altered: the levels count from 0 *)
FemnNotAnimZero(info) == IF FormIs(info, 1, TRUE) THEN 1 ELSE 0

FemnNotAnim(info) == IF FormIs(info, 1, TRUE) THEN 2 ELSE 1
FemnAnimate(info) == IF FormIs(info, 1, TRUE) \/ FormIs(info, 3, TRUE) THEN 2 ELSE 1
Adjectiv(info) == IF info = gfCompared THEN 3 ELSE IF info = At(1, 9) \cup gfShortOne THEN 2 ELSE 1

mixTypes == <<1, 1, 1, 1, 1, 1, 2, 3, 4, 5, 6, 6, 5, 6, 7, 5, 6, 7, 5, 6, 5, 6, 5, 5, 8>>

(* altered: a noun of both kinds takes the level of the inanimate one *)
GetSwapLevelStill(w, info, flags) ==
  CASE w.type > Len(mixTypes) -> 1
    [] mixTypes[w.type] = 1 -> GetVerbMixPower(w.mix, info)
    [] mixTypes[w.type] \in {2, 4} -> MascNotAnim(info)
    [] mixTypes[w.type] = 3 -> IF flags = Alive THEN MascAnimate(info) ELSE MascNotAnim(info)
    [] mixTypes[w.type] = 5 -> FemnNotAnim(info)
    [] mixTypes[w.type] \in {6, 7} -> IF flags = Alive THEN FemnAnimate(info) ELSE FemnNotAnim(info)
    [] OTHER -> Adjectiv(info)

GetSwapLevel(w, info, flags) ==
  LET mixed == afAnimated \in flags IN
    CASE w.type > Len(mixTypes) -> 1
      [] mixTypes[w.type] = 1 -> GetVerbMixPower(w.mix, info)
      [] mixTypes[w.type] = 2 -> MascNotAnim(info)
      [] mixTypes[w.type] = 3 -> MascAnimate(info)
      [] mixTypes[w.type] = 4 -> IF mixed THEN MascAnimate(info) ELSE MascNotAnim(info)
      [] mixTypes[w.type] = 5 -> FemnNotAnim(info)
      [] mixTypes[w.type] = 6 -> FemnAnimate(info)
      [] mixTypes[w.type] = 7 -> IF mixed THEN FemnAnimate(info) ELSE FemnNotAnim(info)
      [] mixTypes[w.type] = 8 -> Adjectiv(info)
===============================================================================
