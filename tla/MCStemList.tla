------------------------------- MODULE MCStemList -------------------------------
(* Small tables of endings and of alternations with the shapes of those in       *)
(* rus/tables (a verb with linked tables, a reflexive one, nouns with and        *)
(* without alternations, adjectives with a row for the comparative), and lines   *)
(* that meet each of their conditions.  Many stems end at the node of "po"; the  *)
(* others are alone at theirs.  Letters have their codes in cp1251.              *)
EXTENDS Inflection

hyphen == 45
yo == 184
a == 224  b == 225  g == 227  d == 228  e == 229  zh == 230  z == 231  i == 232  yot == 233
k == 234  l == 235  m == 236  n == 237  o == 238  p == 239  r == 240  s == 241  t == 242
u == 243  c == 246  ch == 247  sh == 248  y == 251  soft == 252  yu == 254  ya == 255

-------------------------------------------------------------------------------
(* the tables of endings *)

Set(keys) == [kind |-> "command", keys |-> keys, text |-> <<>>, link |-> "none", to |-> NoTable]
End(text, keys) == [kind |-> "ending", keys |-> keys, text |-> text, link |-> "none", to |-> NoTable]
Linked(text, keys, to) == [kind |-> "ending", keys |-> keys, text |-> text, link |-> "next", to |-> to]
Option(text, keys, to) == [kind |-> "ending", keys |-> keys, text |-> text, link |-> "option", to |-> to]

MCTables ==
  [sya |-> <<End(<<s, ya>>, <<"reflexive">>)>>,
   yu_im |-> <<Set(<<"single">>), End(<<yu>>, <<>>), Set(<<"plural">>), End(<<i, m>>, <<>>)>>,
   it |-> <<Set(<<"single">>), Option(<<i, t>>, <<>>, "sya"), Set(<<"plural">>), Option(<<ya, t>>, <<>>, "sya")>>,
   genders |-> <<Set(<<"masculine">>), End(<<>>, <<>>), Set(<<"feminine">>), End(<<a>>, <<>>)>>,
   shorts |-> <<Set(<<"masculine">>), End(<<>>, <<"short">>), Set(<<"feminine">>), End(<<a>>, <<"short">>)>>,
   verb |-> <<Set(<<"infinitive">>), Option(<<i, t, soft>>, <<>>, "sya"),
              Set(<<"present">>), Set(<<"first">>), Linked(<<>>, <<>>, "yu_im"),
              Set(<<"third">>), Linked(<<>>, <<>>, "it"),
              Set(<<"past">>), Linked(<<i, l>>, <<>>, "genders"), Set(<<"passive">>), Linked(<<e, n>>, <<>>, "shorts")>>,
   reflexive |-> <<Set(<<"infinitive">>), Linked(<<t, soft>>, <<>>, "sya"),
                   Set(<<"past">>), Linked(<<l>>, <<>>, "reflexed")>>,
   reflexed |-> <<Set(<<"masculine">>), Linked(<<>>, <<>>, "sya")>>,
   optional |-> <<Set(<<"infinitive">>), End(<<t, soft>>, <<>>), Set(<<"past">>), Option(<<>>, <<>>, "yu_im")>>,
   femn |-> <<Set(<<"single">>), End(<<a>>, <<"nominative">>), End(<<u>>, <<"accusative">>),
              Set(<<"plural">>), End(<<y>>, <<"nominative">>), End(<<>>, <<"genitive">>)>>,
   masc |-> <<Set(<<"single">>), End(<<>>, <<"nominative">>), End(<<a>>, <<"genitive">>),
              Set(<<"plural">>), End(<<y>>, <<"nominative">>)>>,
   yy |-> <<Set(<<"single">>), Set(<<"masculine">>), End(<<y, yot>>, <<"nominative">>),
            End(<<o, g, o>>, <<"genitive">>), End(<<>>, <<"short">>), Set(<<"nogender">>), Set(<<"single">>),
            End(<<e, e>>, <<"compared">>)>>,
   iy |-> <<Set(<<"single">>), Set(<<"masculine">>), End(<<i, yot>>, <<"nominative">>), End(<<>>, <<"short">>),
            Set(<<"nogender">>), Set(<<"single">>), End(<<sh, e>>, <<"compared">>)>>,
   pron |-> <<Set(<<"single">>), Set(<<"masculine">>), End(<<y, yot>>, <<"nominative">>),
              End(<<o, g, o>>, <<"genitive">>)>>]

OneA == <<"1", "a">>
OneStarA == <<"1", "*", "a">>
OneStarB == <<"1", "*", "b">>
FourA32 == <<"4", "a", "3", "2">>
FourA11 == <<"4", "a", "1", "1">>
SixA == <<"6", "a">>
ThreeA == <<"3", "a">>
ThreeStarA == <<"3", "*", "a">>

Table(classes, table) == [classes |-> classes, table |-> table]

MCFlexSources ==
  <<Table({<<"sv", FourA32>>, <<"sv", FourA11>>}, "verb"), Table({<<"nsv_np", SixA>>}, "reflexive"),
    Table({<<"nsv_np", ThreeA>>}, "optional"),
    Table({<<"zh", OneA>>, <<"zh", OneA \o <<":">>>>, <<"izh", OneA>>, <<"zh", OneStarA>>}, "femn"),
    Table({<<"m", OneA>>, <<"m", OneStarA>>, <<"m", OneStarB>>}, "masc"),
    Table({<<"p", OneStarA>>}, "yy"), Table({<<"p", ThreeStarA>>}, "iy"), Table({<<"ms-p", OneA>>}, "pron"),
    Table({<<"m", OneA>>}, "femn")>>

-------------------------------------------------------------------------------
(* the tables of alternations *)

Alt(cond, steps) == [cond |-> cond, steps |-> steps]
Mix(classes, alternatives) == [classes |-> classes, alternatives |-> alternatives]

MCMixSources ==
  <<Mix(<<<<"m", OneStarA>>>>, <<Alt("ge", <<<<e, m>>, <<yot, m>>>>), Alt("o", <<<<o, n>>, <<n>>>>)>>),
    Mix(<<<<"m", OneStarB>>>>, <<Alt("le", <<<<e, d>>, <<soft, d>>>>)>>),
    Mix(<<<<"zh", OneStarA>>>>, <<Alt("k", <<<<l>>, <<o, l>>>>), Alt("o", <<<<l>>, <<e, l>>>>)>>),
    Mix(<<<<"p", OneStarA>>>>, <<Alt("soft", <<<<soft, n>>, <<e, n>>>>), Alt("yot", <<<<yot, n>>, <<e, n>>>>),
                                 Alt("sh", <<<<n>>, <<e, n>>>>)>>),
    Mix(<<<<"p", OneStarA>>, <<"p", ThreeStarA>>>>, <<Alt("o", <<<<n>>, <<o, n>>>>), Alt("o", <<<<soft, k>>, <<e, k>>, <<>>>>)>>),
    Mix(<<<<"sv", FourA32>>, <<"nsv", FourA32>>>>, <<Alt("o", <<<<b>>, <<b, l>>, <<b, l>>>>)>>),
    Mix(<<<<"sv", FourA11>>>>, <<Alt("zhd", <<<<d>>, <<zh>>, <<zh, d>>>>), Alt("o", <<<<d>>, <<zh>>, <<zh>>>>)>>)>>

-------------------------------------------------------------------------------
(* the lines *)

Line(lex, norm, dies, type, index) ==
  [lex |-> lex, norm |-> norm, dies |-> dies, type |-> type, index |-> index, post |-> <<>>, remark |-> "none"]

to == <<hyphen, t, o>>
Unfixed == <<"0">>
po == <<p, o>>

AtPo ==
  {Line(1, po, "#", "predl.", Unfixed),
   [Line(2, po \o to, "#", "chast.", Unfixed) EXCEPT !.post = to],
   Line(3, po \o <<y>>, "mn.", "zh", OneA),
   Line(4, po \o <<a>>, "#", "izh", OneA),
   Line(5, po \o <<y, yot>>, "#", "ms-p", OneA),
   [Line(6, po \o <<y, yot>> \o to, "#", "ms-p", OneA) EXCEPT !.post = to],
   Line(7, po \o <<b, i, t, soft>>, "#", "sv", FourA32),
   Line(8, po \o <<soft, k, i, yot>>, "#", "p", ThreeStarA),
   [Line(9, po \o <<e, m>> \o to, "#", "m", OneStarA) EXCEPT !.post = to]}

Elsewhere ==
  {Line(10, <<l, e, d>>, "#", "m", OneStarB), Line(11, <<z, a, e, m>>, "#", "m", OneStarA),
   Line(12, <<k, o, n>>, "#", "m", OneStarA), Line(13, <<k, u, k, l, a>>, "#", "zh", OneStarA),
   Line(14, <<m, e, t, l, a>>, "#", "zh", OneStarA), Line(15, <<b, o, l, soft, n, y, yot>>, "#", "p", OneStarA),
   Line(16, <<s, t, o, yot, n, y, yot>>, "#", "p", OneStarA), Line(17, <<p, y, sh, n, y, yot>>, "#", "p", OneStarA),
   Line(18, <<t, u, n, y, yot>>, "#", "p", OneStarA),
   [Line(19, <<b, u, d, i, t, soft>>, "#", "sv", FourA11) EXCEPT !.remark = "zhd"],
   Line(20, <<g, l, a, d, i, t, soft>>, "#", "sv", FourA11),
   Line(21, <<k, a, ya, t, soft, s, ya>>, "#", "nsv_np", SixA),
   Line(22, <<k, o, s, o, n>>, "#", "m", OneA \o <<"/", "/">> \o OneStarA),
   Line(23, <<d, u, HyphenMark, b, CutMark, o, k>>, "#", "m", OneA),
   Line(24, <<l, yo, n>>, "#", "m", OneA), Line(25, <<m, e, t, r, o>>, "#", "s", Unfixed),
   Line(26, <<n, u, t, soft>>, "#", "nsv_np", ThreeA), Line(27, <<n, u, z>>, "#", "zh", OneA),
   Line(28, <<n, u, z, a>>, "#", "zhm", OneA), Line(29, <<r, u, z>>, "#", "zh", OneA \o <<":">>)}

MCLines == AtPo \cup Elsewhere

(* what is left of the words behind the nodes of their stems, and two words *)
(* with an ending of another level than their row                           *)
MCRests ==
  UNION {UNION {{SubSeq(form.word, Len(stem.at) + 1, Len(form.word)) :
                   form \in {f \in Paradigm[line] : IsPrefix(stem.at, f.word)}} : stem \in StemsOf[line]} : line \in MCLines}
  \cup {<<b, yu>>, <<e, k, i, yot>>}
===============================================================================
