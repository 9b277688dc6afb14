----------------------------- MODULE GrammarForms -----------------------------
(***************************************************************************)
(* The endings of a table with their descriptions: tfc/gramap.cpp turns    *)
(* the words of a line into bits, and tools/plaintable.h joins the endings *)
(* and the bits of the tables a line leads to.                             *)
(***************************************************************************)
EXTENDS GrammarNumbers, SequencesExt

CONSTANTS Tables,    \* the tables of endings: sequences of statements, by name
          NoTable    \* a line leads to no other table

(* a statement is a command, which starts with a dot, or an ending *)
ASSUME TablesAssumption ==
  \A t \in DOMAIN Tables : \A k \in DOMAIN Tables[t] :
    LET s == Tables[t][k] IN
      /\ s.kind \in {"command", "ending"}
      /\ s.link \in {"none", "next", "option"}
      /\ (s.link = "none") = (s.to = NoTable) /\ s.to \in DOMAIN Tables \cup {NoTable}

-------------------------------------------------------------------------------
(* tfc/gramap.cpp: what a word of a line keeps of the description and adds *)

Key(keep, put, keepflags, putflags) ==
  [keep |-> keep, put |-> put, keepflags |-> keepflags, putflags |-> putflags]

Case(k) == Key(Bits \ gfFormMask, At(k, 12), AllFlags, Alive)
Time(k) == Key({}, At(k, 0), AllFlags, Alive)
Part(k) == Key(gfVerbTime, At(k, 5), AllFlags, Alive)
Face(k) == Key(gfVerbTime, At(k, 3), AllFlags, Alive)
Gender(k) == Key(gfVerbTime \cup gfVerbForm, At(k, 9), AllFlags, {})

KeyOf ==
  [nominative |-> Case(0), genitive |-> Case(1), dative |-> Case(2), accusative |-> Case(3),
   instrumental |-> Case(4), locative |-> Case(5), genitive2 |-> Case(6), locative2 |-> Case(7),
   inanimate |-> Key(Bits \ gfFormMask, At(3, 12), AllFlags \ Alive, {afNotAlive}),
   animate |-> Key(Bits \ gfFormMask, At(3, 12), AllFlags \ Alive, {afAnimated}),
   infinitive |-> Key({}, At(vtInfinitiv, 0), {}, Alive),
   imperative |-> Time(vtImperativ), future |-> Time(vtFuture),
   present |-> Time(vtPresent), past |-> Time(vtPast),
   active |-> Part(vfVerbActive), passive |-> Part(vfVerbPassiv), gerund |-> Part(vfVerbDoing),
   first |-> Face(1), second |-> Face(2), third |-> Face(3),
   masculine |-> Gender(1), feminine |-> Gender(2), neuter |-> Gender(3),
   nogender |-> Key(gfVerbTime \cup gfVerbForm \cup gfMultiple, {}, AllFlags, {}),
   number |-> Key(gfVerbTime \cup gfVerbForm, {}, AllFlags, Alive),
   single |-> Key(gfVerbTime \cup gfVerbForm, {}, AllFlags, Alive),
   plural |-> Key(gfVerbTime \cup gfVerbForm, gfMultiple, AllFlags, Alive),
   short |-> Key(gfVerbTime \cup gfVerbForm \cup gfGendMask \cup gfMultiple, gfShortOne, AllFlags, Alive),
   compared |-> Key({}, gfCompared, AllFlags, Alive),
   adverb |-> Key({}, gfAdverb, AllFlags, Alive),
   reflexive |-> Key(Bits, gfRetForms, AllFlags, {}),
   professional |-> Key(Bits, {}, AllFlags, {}),
   hard |-> Key(Bits, {}, AllFlags, {afHardForm}),
   joining |-> Key(Bits, {}, AllFlags, {afJoiningC})]

Described(g, key) ==
  [grinfo |-> (g.grinfo \cap key.keep) \cup key.put, bflags |-> (g.bflags \cap key.keepflags) \cup key.putflags]

MapInfo(keys, gram) == FoldLeft(LAMBDA g, k : Described(g, KeyOf[k]), gram, keys)

(* tfc: a command changes the description of the endings behind it, the words  *)
(* of a line change it for that line                                           *)
Item(gram, s) ==
  [text |-> s.text, grinfo |-> gram.grinfo, to |-> s.to,
   bflags |-> gram.bflags \cup (IF s.link = "next" THEN {7} ELSE IF s.link = "option" THEN {6} ELSE {})]

AddLine(tab, s, gram) ==
  IF s.kind = "command" THEN [tab EXCEPT !.gram = gram] ELSE [tab EXCEPT !.items = @ \cup {Item(gram, s)}]

MakeTab(t) ==
  FoldLeft(LAMBDA tab, s : AddLine(tab, s, MapInfo(s.keys, tab.gram)),
           [gram |-> [grinfo |-> {}, bflags |-> Alive], items |-> {}], Tables[t]).items

(* plaintable.h: the endings a table and those it leads to make together, each *)
(* behind what has been read of it so far                                      *)
RECURSIVE CreateTree(_, _)
CreateTree(t, read) ==
  UNION {LET g == [text |-> read.text \o i.text, grinfo |-> read.grinfo \cup i.grinfo,
                   bflags |-> read.bflags \cap i.bflags]
         IN (IF 7 \in i.bflags THEN {} ELSE {g}) \cup (IF i.to = NoTable THEN {} ELSE CreateTree(i.to, g)) :
           i \in MakeTab(t)}

CreatePlainTable(t) == CreateTree(t, [text |-> <<>>, grinfo |-> {}, bflags |-> AllFlags])
===============================================================================
