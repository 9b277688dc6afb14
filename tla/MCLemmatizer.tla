----------------------------- MODULE MCLemmatizer -----------------------------
(* Two lexemes, normal forms of one or two characters, one or two meanings per *)
(* stem: among them form 0 (the one a merge looks for), another form and the   *)
(* 0xff of a word that does not inflect.  The arrays are absent, empty, too    *)
(* short or long enough for all but the last stem.                             *)
EXTENDS Lemmatizer

CONSTANTS lexA, lexB

MCLemmaCaps == {NoBuffer, 0, 1, 2}
MCFormCaps == {NoBuffer, 0, 3, 5}
MCGramCaps == {NoBuffer, 0, 2, 3}
MCFlexLists == {<<0>>, <<1>>, <<255>>, <<1, 0>>}
===============================================================================
