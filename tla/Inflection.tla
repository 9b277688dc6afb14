------------------------------- MODULE Inflection -------------------------------
(***************************************************************************)
(* The forms a line of the dictionary stands for, by its grammar, and the  *)
(* forms the library finds: the tables a line is resolved to, the stem and *)
(* the alternation cut off its headword (ClassResolve), the list the stem  *)
(* is put in and the lookup that reads it back (StemList) together.        *)
(***************************************************************************)
EXTENDS StemList, ClassResolve

(* the indices of a line: one with a table, or those two slashes join *)
Indices(l) ==
  IF FlexTable(<<l.type, l.index>>) = NoTable /\ Parts(l.index) # {} THEN Parts(l.index) ELSE {l.index}

Endless(l, w, i) == ~IsInflected(w) \/ FlexTable(<<l.type, i>>) = NoTable

(* an ending of the form a headword is given in *)
IsNormal(w, head, g) ==
  IF IsVerb(w.type) THEN TimeOf(g.grinfo) = vtInfinitiv ELSE g.grinfo = NormalInfo(w, head)

Applies(alt, w, l, stem) ==
  /\ IsSuffix(alt.steps[1], stem)
  /\ IF IsVerb(w.type) THEN alt.cond \in {l.remark, "o"} ELSE Holds(alt.cond, stem)

(* the roots a stem may have: an alternation with a condition of its own goes  *)
(* before the usual one                                                        *)
Roots(l, w, i, stem) ==
  LET suited == {alt \in Range(Alternatives(<<l.type, i>>)) : Applies(alt, w, l, stem)}
      special == {alt \in suited : alt.cond # "o"}
  IN IF suited = {} THEN {[root |-> stem, steps |-> <<>>]}
     ELSE {[root |-> CutTail(stem, Len(alt.steps[1])), steps |-> alt.steps] :
             alt \in IF special # {} THEN special ELSE suited}

(* the ways a headword can be taken apart *)
Splits(l, w, i) ==
  LET head == Headword(l)
      normal == {g \in CreatePlainTable(FlexTable(<<l.type, i>>)) : IsNormal(w, head, g) /\ IsSuffix(g.text, head)}
      cut == SelectInSeq(head, LAMBDA c : c = CutMark)
  IN IF cut # 0 THEN Roots(l, w, i, SubSeq(head, 1, cut - 1))
     ELSE UNION {Roots(l, w, i, CutTail(head, Len(g.text))) : g \in normal}

StepOf(steps, level) ==
  IF steps = <<>> THEN <<>> ELSE IF level \in DOMAIN steps THEN steps[level] ELSE steps[1]

NoForm == 255   \* what a call without forms stands for

(* the words of a line and the number of the form each is *)
Words(l, w, i) ==
  IF Endless(l, w, i) THEN {[word |-> Headword(l) \o l.post, form |-> NoForm]}
  ELSE UNION {LET level(g) == GetSwapLevel([type |-> w.type, mix |-> MixKind(w, i)], g.grinfo, g.bflags) IN
                {[word |-> s.root \o StepOf(s.steps, level(g)) \o g.text \o l.post, form |-> MapWordInfo(w.type, g)] :
                   g \in {x \in CreatePlainTable(FlexTable(<<l.type, i>>)) : w.multiple => gfMultiple \subseteq x.grinfo}} :
              s \in Splits(l, w, i)}

Paradigm == [l \in Lines |-> UNION {UNION {Words(l, w, i) : i \in Indices(l)} : w \in WdInfo(l)}]

(* the lines of a known type that can be taken apart in one way only *)
Clear ==
  {l \in Lines : WdInfo(l) # {} /\ \A w \in WdInfo(l) : \A i \in Indices(l) : Endless(l, w, i) \/ Cardinality(Splits(l, w, i)) = 1}

StemsOf == [l \in Lines |-> BuildStems(l)]

FormsTold(lex) ==
  UNION {IF calls[k].forms = {} THEN {NoForm} ELSE {x.form : x \in calls[k].forms} :
           k \in {j \in DOMAIN calls : calls[j].lex = lex}}

(* A line whose headword can be taken apart in one way is stored, and where     *)
(* its stems are found the library names for a word exactly the forms that are  *)
(* written so by the line's tables: the ending and the alternation taken off    *)
(* the headword (ftables.h:105-150, mtables.cpp:179-260), the levels given to   *)
(* the rows (mtable.h:160-180) and those the endings ask for agree.             *)
ParadigmRead ==
  /\ \A l \in Clear : Cardinality(StemsOf[l]) = Cardinality(Indices(l))
  /\ pc = "done" /\ ~once =>
       \A l \in Clear :
         (\A s \in StemsOf[l] : s.at = node /\ \E k \in DOMAIN list : list[k] = s.entry /\ ~Losable(k)) =>
           FormsTold(l.lex) =
             {p.form : p \in {q \in Paradigm[l] : q.word = node \o rest /\ \A s \in StemsOf[l] : s.entry.minCap \in good}}
===============================================================================
