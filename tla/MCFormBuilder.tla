----------------------------- MODULE MCFormBuilder -----------------------------
(* A preposition of case 3, a word that does not inflect, a noun with two       *)
(* variants of a plural form, a noun without singular, a word of any number     *)
(* and an adjective, for which 0xff is a form without endings.  Arrays are      *)
(* absent, empty, short of one byte, or hold one, two or all of the forms.      *)
EXTENDS FormBuilder

Number(zero, one, last) ==
  [f \in IdForms |-> CASE f = 0 -> zero [] f = 1 -> one [] f = NoForm -> last [] OTHER -> "none"]

Tail3(zero, one, last) ==
  [f \in IdForms |-> CASE f = 0 -> zero [] f = 1 -> one [] f = NoForm -> last [] OTHER -> <<>>]

Stem(name, type, tfoffs, multiple, number, tails) ==
  [name |-> name, type |-> type, tfoffs |-> tfoffs, multiple |-> multiple,
   number |-> number, tails |-> tails]

MCCaps == {NoBuffer, 0, 1, 3, 5, 6, 10}

MCStems ==
  {Stem("preposition", Preposition, 3, FALSE, Number("none", "none", "none"), Tail3(<<>>, <<>>, <<2>>)),
   Stem("fixed", 50, 0, FALSE, Number("none", "none", "none"), Tail3(<<>>, <<>>, <<3>>)),
   Stem("noun", 7, 1, FALSE, Number("single", "plural", "none"), Tail3(<<2>>, <<3, 4>>, <<>>)),
   Stem("plural", 7, 1, TRUE, Number("single", "plural", "none"), Tail3(<<2>>, <<3>>, <<>>)),
   Stem("any", AnyNumber, 1, TRUE, Number("single", "plural", "none"), Tail3(<<2>>, <<2>>, <<>>)),
   Stem("adjective", 25, 1, FALSE, Number("single", "plural", "plural"), Tail3(<<3>>, <<>>, <<>>))}
===============================================================================
