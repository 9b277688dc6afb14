----------------------------- MODULE ClassResolve -----------------------------
(***************************************************************************)
(* From a line of the dictionary to the stems the builder stores           *)
(* (rus/buildic/makerus.cpp, lresolve.cpp).  The type of the word and its  *)
(* index name a table of endings (tfc) and a table of alternations         *)
(* (makeich); the ending of the normal form is stripped from the headword  *)
(* (tools/ftables.h), and an alternation found for what is left            *)
(* (rus/buildic/mtables.cpp) is cut off as well.                           *)
(*                                                                         *)
(* An index ("4a32") is a sequence of characters; a class is a type with   *)
(* an index.  The marks of style in a line and the cases of a preposition  *)
(* are left out: they go into the class, not into the forms.               *)
(***************************************************************************)
EXTENDS StemEntries, GrammarForms

CONSTANTS Lines,        \* the lines of the dictionary
          FlexSources,  \* the tables of endings with the classes in their headers
          MixSources    \* the tables of alternations with theirs, in order

ASSUME LinesAssumption ==
  \A l \in Lines : l.lex \in Nat /\ l.norm \in Texts /\ l.post \in Texts /\ Len(l.index) > 0

(* an alternative: its condition and the letters of the first and further levels *)
ASSUME MixAssumption ==
  \A t \in Range(MixSources) : \A alt \in Range(t.alternatives) :
    Len(alt.steps) \in 2 .. 3 /\ \A k \in DOMAIN alt.steps : alt.steps[k] \in Texts

-------------------------------------------------------------------------------
(* typesMap: the number of a type.  Types are transliterated; a line has two   *)
(* names, the first of which is mostly a hash sign.                            *)

Hash(names) == {<<"#", n>> : n \in names}

TypeNames ==
  <<Hash({"nsv"}), Hash({"nsv_np"}), Hash({"sv"}), Hash({"sv_np"}), Hash({"sv-nsv"}), Hash({"sv-nsv_np"}),
    Hash({"m"}) \cup {<<"m", "mp">>, <<"m", "mms">>}, Hash({"mo"}) \cup {<<"mo", "mpo">>, <<"mo", "moms">>},
    Hash({"m//mo", "mo//m"}), {<<"m", "s">>}, {<<"mo", "zho">>}, {<<"mo", "so">>},
    Hash({"zh"}) \cup {<<"zh", "zhp">>, <<"zh", "zhms">>}, Hash({"zho"}) \cup {<<"zho", "zhpo">>},
    Hash({"zh//zho", "zho//zh"}), Hash({"s"}) \cup {<<"s", "sp">>, <<"s", "sms">>},
    Hash({"so"}) \cup {<<"so", "spo">>}, Hash({"s//so", "so//s"}), {<<"m//zh", "zh">>},
    Hash({"mo-zho", "mo//zho"}) \cup {<<"mo-zho", "zho">>, <<"mo//zho", "zho">>}, Hash({"m//s", "s//m"}),
    {<<"mo//so", "so">>}, Hash({"zh//s", "s//zh"}), {}, Hash({"p"}), Hash({"g-p"}), {<<"p", "ms">>},
    Hash({"ms-p"}) \cup {<<"ms-p", "msp">>}, Hash({"ms"}), Hash({"msm"}), Hash({"mszh"}), Hash({"mss"}),
    Hash({"chisl."}), Hash({"chisl._2"}), Hash({"chisl._s"}), {<<"chisl.-p", t>> : t \in {"ms", "msp", "ms-p"}},
    Hash({"i"}), Hash({"im"}) \cup {<<"im", "izh">>}, Hash({"izh"}), Hash({"om"}), Hash({"ozh"}),
    Hash({"f"}) \cup {<<"f", "fp">>}, Hash({"g", "gp"}), Hash({"gm", "gmp"}), Hash({"gzh", "gzhp"}),
    Hash({"gs", "gsp"}), {}, Hash({"vvodn."}), Hash({"mezhd."}), Hash({"predik."}), Hash({"predl."}),
    Hash({"soyuz", "soyuz_soch."}), Hash({"chast."}), Hash({"n"}), Hash({"sokr._susch."}), Hash({"sokr._pril."}),
    Hash({"sokr._vvodn."}), Hash({"sravn."}), Hash({"AB"}), Hash({"ab"}), Hash({"#1"}), Hash({"#2"})>>

(* types that have no singular *)
PluralNames ==
  (7 :> {<<"mn.", "m">>, <<"#", "mn._ot_m">>, <<"mn._neod.", "mp">>}) @@ (8 :> {<<"mn.", "mo">>, <<"mn._odush.", "mpo">>})
  @@ (13 :> {<<"mn.", "zh">>, <<"#", "mn._ot_zh">>}) @@ (14 :> {<<"mn.", "zho">>})
  @@ (16 :> {<<"mn.", "s">>, <<"#", "mn._ot_s">>, <<"mn._ot_s", "sp">>}) @@ (17 :> {<<"mn.", "so">>})
  @@ (24 :> {<<"mn.", "zh//m">>, <<"mn.", "m//zh">>}) @@ (29 :> Hash({"ms_mn."}))
  @@ (47 :> Hash({"mn._ot_gzh", "mn._ot_gm"}) \cup {<<"mn.", "gp">>})

(* wdinfo of a line, or nothing for a type that is not known *)
WdInfo(l) ==
  LET t == <<l.dies, l.type>> IN
    {[type |-> n, multiple |-> FALSE] : n \in {k \in DOMAIN TypeNames : t \in TypeNames[k]}}
    \cup {[type |-> n, multiple |-> TRUE] : n \in {k \in DOMAIN PluralNames : t \in PluralNames[k]}}

(* pspMinCapValue: names are written with a capital, abbreviations in capitals *)
MinCap(type) == IF type \in 37 .. 47 THEN 1 ELSE IF type = 59 THEN 2 ELSE 0

-------------------------------------------------------------------------------
(* tfc and makeich: the tables of a class *)

(* fxlist::Insert: the first table with a class in its header is the class's *)
FlexIndex == FoldLeft(LAMBDA index, t : index @@ [c \in t.classes |-> t.table], <<>>, FlexSources)

FlexTable(class) == IF class \in DOMAIN FlexIndex THEN FlexIndex[class] ELSE NoTable

(* set_conditions: the classes of a header share one list of alternatives, the *)
(* one the first of them has already, if it has one                            *)
AddTable(c, t) ==
  LET known == t.classes[1] \in DOMAIN c.ids
      id == IF known THEN c.ids[t.classes[1]] ELSE Len(c.lists) + 1
  IN [ids |-> c.ids @@ [n \in Range(t.classes) |-> id],
      lists |-> IF known THEN [c.lists EXCEPT ![id] = @ \o t.alternatives] ELSE Append(c.lists, t.alternatives)]

MixIndex == FoldLeft(AddTable, [ids |-> <<>>, lists |-> <<>>], MixSources)

Alternatives(class) == IF class \in DOMAIN MixIndex.ids THEN MixIndex.lists[MixIndex.ids[class]] ELSE <<>>

(* addstep: a row for each different step, ascending, with its levels *)
AddStep(rows, text, levels) ==
  InsertAt(rows, MinOf({k \in 1 .. Len(rows) + 1 : k = Len(rows) + 1 \/ Before(text, rows[k].text)}),
           [text |-> text, levels |-> levels])

(* altered: a level no step has is nobody's *)
MixRowsBare(steps) ==
  FoldSet(LAMBDA text, rows : AddStep(rows, text, {k \in DOMAIN steps : steps[k] = text}),
          <<>>, Range(steps))

(* Serialize: the row of the first level gets the levels no step has *)
MixRows(steps) ==
  FoldSet(LAMBDA text, rows :
            AddStep(rows, text, {k \in 1 .. 3 : steps[IF k \in DOMAIN steps THEN k ELSE 1] = text}),
          <<>>, Range(steps))

-------------------------------------------------------------------------------
(* tools/ftables.h: FlexStripper *)

(* fxitem::comp *)
AsNumber(bits) == MapThenSumSet(LAMBDA b : 2 ^ b, bits)

ItemBefore(i, j) ==
  \/ Before(i.text, j.text)
  \/ /\ i.text = j.text
     /\ \/ AsNumber(i.grinfo) < AsNumber(j.grinfo)
        \/ i.grinfo = j.grinfo /\ AsNumber(i.bflags) < AsNumber(j.bflags)

Items(t) ==
  FoldSet(LAMBDA i, tab :
            InsertAt(tab, MinOf({k \in 1 .. Len(tab) + 1 : k = Len(tab) + 1 \/ ItemBefore(i, tab[k])}), i),
          <<>>, MakeTab(t))

VerbLevels == <<0 .. 6, 7 .. 14, gfRetForms>>
NounLevels == <<Bits, {}, {}>>

(* an item that stands for the description asked for, at this level *)
Relevant(item, info, mask) ==
  item.grinfo \cap mask = info \cap mask /\ (Has(info, mask) \/ mask = Bits)

CutTail(stem, n) == SubSeq(stem, 1, Len(stem) - n)

(* The stem is changed by the call for a linked table even if the item's own    *)
(* text is not found in front of it: rest is what that call leaves.             *)
StripItem(done, item, info, mask, rest) ==
  IF done.ok \/ ~Relevant(item, info, mask) THEN done
  ELSE IF rest.ok /\ IsSuffix(item.text, rest.stem)
       THEN [ok |-> TRUE, stem |-> CutTail(rest.stem, Len(item.text))]
  ELSE [ok |-> FALSE, stem |-> rest.stem]

(* every level asks for other bits; a linked table is gone through from the     *)
(* level of its link on, and on the last level not at all                       *)
RECURSIVE StripStr(_, _, _, _)
StripStr(stem, info, t, levels) ==
  FoldLeft(LAMBDA above, n :
             FoldLeft(LAMBDA done, item :
                        StripItem(done, item, info, levels[n],
                                  IF 7 \in item.bflags /\ n < Len(levels)
                                  THEN StripStr(done.stem, info, item.to, SubSeq(levels, n, Len(levels)))
                                  ELSE [ok |-> TRUE, stem |-> done.stem]),
                      above, Items(t)),
           [ok |-> FALSE, stem |-> stem], [n \in DOMAIN levels |-> n])

(* GetMinMaxChar: an optional link is not followed *)
RECURSIVE FirstChars(_)
FirstChars(t) ==
  UNION {IF i.text # <<>> \/ 7 \notin i.bflags THEN {First(i.text)} ELSE FirstChars(i.to) : i \in MakeTab(t)}

-------------------------------------------------------------------------------
(* rus/buildic/mtables.cpp: Alternator *)

letter_a == 224
letter_e == 229
letter_i == 232
letter_yot == 233
letter_l == 235
letter_s == 241
letter_soft == 252
letter_ya == 255
letter_yo == 184
Vowels == {letter_a, letter_e, letter_i, 238, 243, 251, 253, 254, letter_ya}
Hissing == {230, 246, 247, 248, 249}
Kgh == {227, 234, 245}

FromEnd(stem, n) == IF Len(stem) < n THEN 0 ELSE stem[Len(stem) + 1 - n]

(* the condition of an alternative, for words that are not verbs *)
Holds(cond, stem) ==
  CASE cond = "le" -> FromEnd(stem, 3) = letter_l /\ FromEnd(stem, 2) = letter_e
    [] cond = "ge" -> FromEnd(stem, 3) \in Vowels /\ FromEnd(stem, 2) = letter_e
    [] cond = "sh" -> FromEnd(stem, 2) \in Hissing
    [] cond = "k" -> FromEnd(stem, 2) \in Kgh
    [] cond = "soft" -> FromEnd(stem, 2) = letter_soft
    [] cond = "yot" -> FromEnd(stem, 2) = letter_yot
    [] cond = "o" -> TRUE
    [] OTHER -> FALSE

(* type & 0x1F: the numbers 33 to 38 are taken for verbs *)
RuledAsVerb(type) == type % 32 \in 1 .. 6

(* GetDefaultStr: the row of the first level *)
DefaultStr(alt) == Head(SelectSeq(MixRows(alt.steps), LAMBDA r : 1 \in r.levels)).text

(* altered: an alternation of verbs is taken without the remark it is for *)
SuitsUnremarked(alt, type, stem, remark) ==
  IsSuffix(DefaultStr(alt), stem) /\ (RuledAsVerb(type) \/ Holds(alt.cond, stem))

Suits(alt, type, stem, remark) ==
  /\ IsSuffix(DefaultStr(alt), stem)
  /\ IF RuledAsVerb(type) THEN alt.cond \in {remark, "o"} ELSE Holds(alt.cond, stem)

(* the first alternative that suits, or 0 *)
Find(class, type, stem, remark) ==
  SelectInSeq(Alternatives(class), LAMBDA alt : Suits(alt, type, stem, remark))

-------------------------------------------------------------------------------
(* lresolve.cpp: ResolveClassInfo *)

HyphenMark == 61   \* '=', set behind the prefixes of a headword
CutMark == 64      \* '@', set behind a stem whose normal form is not in use

Clean(norm) ==
  LET letters == SelectSeq(norm, LAMBDA c : c # HyphenMark)
  IN [k \in DOMAIN letters |-> IF letters[k] = letter_yo THEN letter_e ELSE letters[k]]

Headword(l) == CutTail(Clean(l.norm), Len(l.post))

IsInflected(w) == w.type < 48
MarksGender(w) == IsAdjective(w.type)

Reflexive(head) == Len(head) > 2 /\ IsSuffix(<<letter_s, letter_ya>>, head)

(* the description of the normal form *)
NormalInfo(w, head) ==
  (IF IsVerb(w.type) THEN At(vtInfinitiv, 0) \cup gfRetForms
   ELSE IF MarksGender(w) THEN At(1, 9) \cup If(Reflexive(head), gfRetForms) ELSE {})
  \cup If(w.multiple, gfMultiple)

(* what is left of a headword without the ending of its normal form *)
WithoutEnding(w, head, t) ==
  IF CutMark \in Range(head) THEN [ok |-> TRUE, stem |-> SubSeq(head, 1, SelectInSeq(head, LAMBDA c : c = CutMark) - 1)]
  ELSE StripStr(head, NormalInfo(w, head), t, IF IsVerb(w.type) THEN VerbLevels ELSE NounLevels)

(* the kind of verb, by its index, when the levels of alternation are not the usual ones *)
MixKind(w, index) ==
  CASE ~IsVerb(w.type) -> 0
    [] index[1] \in {"6", "9"} -> 1
    [] IsPrefix(<<"5", "c", "/", "c">>, index) \/ IsPrefix(<<"5", "*", "c", "/", "c">>, index) -> 1
    [] IsPrefix(<<"1", "0">>, index) \/ IsPrefix(<<"1", "4">>, index) -> 1
    [] IsPrefix(<<"1", "1">>, index) -> 2
    [] OTHER -> 0

Bare(l, w) ==
  [lex |-> l.lex, post |-> l.post, endings |-> {}, low |-> 0, high |-> 0, mix |-> <<>>,
   multiple |-> w.multiple, minCap |-> MinCap(w.type)]

(* the endings as the library will describe them *)
Endings(w, t, kind) ==
  {[text |-> g.text, form |-> MapWordInfo(w.type, g), plural |-> gfMultiple \subseteq g.grinfo,
    level |-> GetSwapLevel([type |-> w.type, mix |-> kind], g.grinfo, g.bflags)] : g \in CreatePlainTable(t)}

Bounded(entry, chars) == [entry EXCEPT !.low = MinOf(chars), !.high = MaxOf(chars)]

Inflected(l, w, t, stem) == [at |-> stem, entry |-> [Bare(l, w) EXCEPT !.endings = Endings(w, t, 0)]]

Alternating(l, w, t, stem, kind, alt) ==
  [at |-> CutTail(stem, Len(DefaultStr(alt))),
   entry |-> [Bare(l, w) EXCEPT !.endings = Endings(w, t, kind), !.mix = MixRows(alt.steps)]]

(* the stem of a line whose ending is cut off *)
StemOf(l, w, index, t, stem, found) ==
  IF found = 0 THEN Inflected(l, w, t, stem)
  ELSE Alternating(l, w, t, stem, MixKind(w, index), Alternatives(<<l.type, index>>)[found])

(* the stem, or none if the ending is not that of the normal form *)
WithTable(l, w, index, t, cut) ==
  IF cut.ok \/ ":" \in Range(index)
  THEN {[s EXCEPT !.entry = Bounded(@, FirstChars(t))] :
          s \in {StemOf(l, w, index, t, cut.stem, Find(<<l.type, index>>, w.type, cut.stem, l.remark))}}
  ELSE {}

WithoutTable(l, w, index) ==
  IF IsInflected(w) /\ index # <<"0">> THEN {} ELSE {[at |-> Headword(l), entry |-> Bare(l, w)]}

ResolveAs(l, w, index, t) ==
  IF t = NoTable THEN WithoutTable(l, w, index)
  ELSE WithTable(l, w, index, t, WithoutEnding(w, Headword(l), t))

(* A stem, or none: the type is not known, the class has no table and is not    *)
(* marked as indeclinable, or the ending is not that of the normal form.        *)
ResolveClassInfo(l, index) ==
  UNION {ResolveAs(l, w, index, IF IsInflected(w) THEN FlexTable(<<l.type, index>>) ELSE NoTable) : w \in WdInfo(l)}

(* makerus.cpp: where two indices are joined by two slashes, a stem for each *)
Slashes(index) == SelectInSeq([k \in 1 .. Len(index) - 1 |-> SubSeq(index, k, k + 1)], LAMBDA s : s = <<"/", "/">>)

Parts(index) ==
  IF Slashes(index) = 0 THEN {}
  ELSE {SubSeq(index, 1, Slashes(index) - 1), SubSeq(index, Slashes(index) + 2, Len(index))}

BuildStems(l) ==
  LET Split(whole) == IF whole # {} THEN whole ELSE UNION {ResolveClassInfo(l, i) : i \in Parts(l.index)}
  IN Split(ResolveClassInfo(l, l.index))

LineStems == UNION {BuildStems(l) : l \in Lines}
===============================================================================
