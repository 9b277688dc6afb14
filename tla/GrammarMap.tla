------------------------------ MODULE GrammarMap ------------------------------
(***************************************************************************)
(* A form there and back: Lemmatize numbers the description of an ending,  *)
(* and BuildForm finds the endings of a number, with the row of the stem's *)
(* alternation they go with (xmorph/lemmatiz.cpp, xmorph/flexmake.cpp).    *)
(* Numbers and rows are those of GrammarNumbers; the tables of endings,    *)
(* which GrammarForms compiles, are a parameter.                           *)
(***************************************************************************)
EXTENDS GrammarNumbers

CONSTANTS Words,         \* kinds of words of the dictionary
          PlainTable,    \* the endings of a table: [text, grinfo, bflags]
          Texts          \* what the endings are

ASSUME WordsAssumption ==
  \A w \in Words : w.type \in 1 .. 62 /\ w.multiple \in BOOLEAN /\ w.mix \in 0 .. 3
                   /\ w.table \in DOMAIN PlainTable

(* What the tables of rus/tables/flex say of the forms of a verb, an adjective  *)
(* and a noun: the bits a form is described by besides its time or participle.  *)
Within(info, bits) == info \subseteq bits

(* case, number, gender and short form; the second cases are those of nouns, and *)
(* of their singular                                                             *)
Declined(info, other) ==
  /\ Within(info, other \cup gfFormMask \cup gfMultiple \cup gfGendMask \cup gfShortOne)
  /\ Has(info, gfMultiple) => ~Has(info, gfGendMask)
  /\ Has(info, gfShortOne) => ~Has(info, gfFormMask)
  /\ CaseOf(info) <= 5

Numbered(info) == Has(info, gfMultiple) \/ Has(info, gfGendMask)

PersonalForm(info) ==
  CASE TimeOf(info) = vtInfinitiv -> Within(info, gfVerbTime \cup gfRetForms)
    [] TimeOf(info) = vtImperativ -> Within(info, gfVerbTime \cup gfRetForms \cup gfMultiple)
    [] TimeOf(info) \in {vtFuture, vtPresent} ->
         Has(info, gfVerbFace) /\ Within(info, gfVerbTime \cup gfVerbFace \cup gfRetForms \cup gfMultiple)
    [] TimeOf(info) = vtPast ->
         /\ Within(info, gfVerbTime \cup gfRetForms \cup gfMultiple \cup gfGendMask)
         /\ Numbered(info) /\ ~(Has(info, gfMultiple) /\ Has(info, gfGendMask))
    [] OTHER -> FALSE

Participle(info) ==
  CASE FormOf(info) = vfVerbActive ->
         Numbered(info) /\ Declined(info, gfVerbTime \cup gfVerbForm \cup gfRetForms)
    [] FormOf(info) = vfVerbPassiv -> Numbered(info) /\ Declined(info, gfVerbTime \cup gfVerbForm)
    [] FormOf(info) = vfVerbDoing -> Within(info, gfVerbTime \cup gfVerbForm \cup gfRetForms)

OfVerb(info) ==
  IF Has(info, gfVerbForm) THEN TimeOf(info) \in {vtFuture, vtPresent, vtPast} /\ Participle(info)
  ELSE PersonalForm(info)

OfAdjective(info) == info \in {gfAdverb, gfCompared} \/ Declined(info, gfRetForms)
OfNoun(info) ==
  /\ Within(info, gfFormMask \cup gfMultiple)
  /\ Has(info, gfMultiple) => CaseOf(info) <= 5

(* a word whose row depends on the kind has an accusative of each kind, in the  *)
(* number where it matters                                                       *)
OneKind(type, g) ==
  type <= Len(mixTypes) =>
    /\ mixTypes[type] = 4 /\ FormIs(g.grinfo, 3, FALSE) => ~(Alive \subseteq g.bflags)
    /\ mixTypes[type] = 7 /\ FormIs(g.grinfo, 3, TRUE) => ~(Alive \subseteq g.bflags)

ASSUME PlainTableAssumption ==
  \A w \in Words : \A g \in PlainTable[w.table] :
    /\ g \in [text : Texts, grinfo : SUBSET Bits, bflags : SUBSET AllFlags]
    /\ Has(g.bflags, Alive)
    /\ IF IsVerb(w.type) THEN OfVerb(g.grinfo)
       ELSE IF IsAdjective(w.type) THEN OfAdjective(g.grinfo) ELSE OfNoun(g.grinfo)
    /\ OneKind(w.type, g)

(* the forms a word has: one that is only plural has no others *)
Forms(w) == {g \in PlainTable[w.table] : w.multiple => gfMultiple \subseteq g.grinfo}

-------------------------------------------------------------------------------
VARIABLES
  word,    \* the word the calls are about
  pc,      \* "idle", "build" and "built"
  given,   \* the reading Lemmatize gave, or {}
  idform,  \* its number, or the one the caller made up
  built    \* the forms BuildForm writes: description and level of alternation

vars == <<word, pc, given, idform, built>>

NoForm == 255
AnyNumber == 52

Init ==
  /\ word \in Words /\ pc = "idle"
  /\ given = {} /\ idform = 0 /\ built = {}

(* Lemmatize: set_flexinfo numbers a reading *)
Lemmatize(g) ==
  /\ pc = "idle" /\ pc' = "build"
  /\ given' = {g}
  /\ idform' = MapWordInfo(word.type, g)
  /\ built' = {} /\ UNCHANGED word

(* the caller asks for any number at all *)
AskFor(form) ==
  /\ pc = "idle" /\ pc' = "build"
  /\ given' = {} /\ idform' = form
  /\ built' = {} /\ UNCHANGED word

(* doBuildForm: no such number, or a singular form of a word without singular *)
Refused(r) ==
  \/ ~r.ok
  \/ /\ idform # NoForm /\ word.type # AnyNumber
     /\ word.multiple /\ ~Has(r.grinfo, gfMultiple)

(* FlexCollector: every ending of just this description and of its kind *)
BuildFlexSet(r) == {g \in PlainTable[word.table] : g.grinfo = r.grinfo /\ Has(g.bflags, r.bflags)}

(* CreateFormFlex: the endings with the row of alternations for the form asked for *)
BuildForm ==
  /\ pc = "build" /\ pc' = "built"
  /\ LET r == GetWordInfo(word.type, idform) IN
       built' = IF Refused(r) THEN {}
                ELSE {[gram |-> g, level |-> GetSwapLevel(word, r.grinfo, r.bflags)] : g \in BuildFlexSet(r)}
  /\ UNCHANGED <<word, given, idform>>

Return ==
  /\ pc = "built" /\ pc' = "idle"
  /\ given' = {} /\ idform' = 0 /\ built' = {}
  /\ UNCHANGED word

Next ==
  \/ \E g \in Forms(word) : Lemmatize(g)
  \/ \E form \in 0 .. 255 : AskFor(form)
  \/ BuildForm
  \/ Return

Spec == Init /\ [][Next]_vars

-------------------------------------------------------------------------------
(* The joining form of an adjective has no gender to number it by, nor has a    *)
(* numeral that is no longer declined, and a gerund of the future has no person. *)
Unnumbered(g) ==
  \/ IsAdjective(word.type) /\ g.grinfo \notin {gfAdverb, gfCompared} /\ ~Numbered(g.grinfo)
  \/ IsVerb(word.type) /\ TimeOf(g.grinfo) = vtFuture /\ Has(g.grinfo, gfVerbForm)

(* The variables have their types, and a number is a byte. *)
GrammarTypeOK ==
  /\ word \in Words /\ pc \in {"idle", "build", "built"}
  /\ given \subseteq Forms(word) /\ idform \in 0 .. 255
  /\ \A b \in built : b.gram \in PlainTable[word.table] /\ b.level \in 1 .. 3

(* The number Lemmatize gives a reading leads BuildForm back to this very ending: *)
(* MapWordInfo loses nothing of a description that GetWordInfo does not restore,  *)
(* whatever table the description came from.                                      *)
BuildsBack ==
  pc = "built" => \A g \in given : ~Unnumbered(g) => g \in {b.gram : b \in built}

(* A form built for a number has this number when it is read, whichever number   *)
(* the caller made up; but an accusative of both kinds reads as the inanimate    *)
(* one, and an adjective accepts numbers above the last, 65, as others.          *)
BuiltIsAsked ==
  (IsAdjective(word.type) => idform <= 65) =>
    \A b \in built :
      \/ MapWordInfo(word.type, b.gram) = idform
      \/ /\ Alive \subseteq b.gram.bflags /\ CaseOf(b.gram.grinfo) = 3
         /\ MapWordInfo(word.type, b.gram) = idform - 1

(* The row of alternation a form is built with is the row the ending is read     *)
(* with: the level is found from the form asked for when building and from the   *)
(* description in the table when reading, and they agree.                        *)
RowAgrees ==
  \A b \in built : b.level = GetSwapLevel(word, b.gram.grinfo, b.gram.bflags)

(* What the comments of MapVerbInfo say: the forms of the future have the numbers *)
(* 6 to 17, those of the present 18 to 127, those of the past the ones from 128.  *)
TensesNumbered ==
  pc = "build" /\ IsVerb(word.type) =>
    \A g \in given :
      LET time == TimeOf(g.grinfo) IN
        idform \in CASE time = vtInfinitiv -> 0 .. 1
                     [] time = vtImperativ -> 2 .. 5
                     [] time = vtFuture -> 6 .. 17
                     [] time = vtPresent -> 18 .. 127
                     [] time = vtPast -> 128 .. 233
===============================================================================
