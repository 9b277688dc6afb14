------------------------------ MODULE MCWildcards ------------------------------
(* Two letters and the hyphen of a postfix.  Stems: fixed, with and without a   *)
(* postfix; inflecting, with overlapping bounds, one without a singular, one    *)
(* with a postfix, one with a postfix behind an empty ending; with              *)
(* alternations, one with an empty row and one with a postfix.  Lists on the    *)
(* root, on inner nodes and on leaves.                                          *)
EXTENDS Wildcards

a == 224
b == 225
hyphen == 45

Bare(lex) == [lex |-> lex, post |-> <<>>, endings |-> {}, low |-> 0, high |-> 0,
              mix |-> <<>>, multiple |-> FALSE, minCap |-> 0]

E(text, form, level, plural) == [text |-> text, form |-> form, level |-> level, plural |-> plural]

Declined == {E(<<>>, 0, 1, FALSE), E(<<a>>, 1, 1, FALSE), E(<<b>>, 10, 2, TRUE), E(<<a, b>>, 11, 2, TRUE)}
Late == {E(<<b>>, 0, 1, FALSE), E(<<b, a>>, 10, 1, TRUE)}

S(path, e) ==
  [at |-> path,
   entry |-> IF Flective(e) THEN [e EXCEPT !.low = MinOf(FlexChars(e)), !.high = MaxOf(FlexChars(e))] ELSE e]

MCStems ==
  {S(<<a>>, Bare(1)),
   S(<<b>>, [Bare(2) EXCEPT !.post = <<hyphen, b>>]),
   S(<<a, b>>, [Bare(3) EXCEPT !.endings = Declined, !.multiple = TRUE]),
   S(<<a>>, [Bare(4) EXCEPT !.endings = Declined]),
   S(<<a>>, [Bare(5) EXCEPT !.endings = Late, !.post = <<hyphen, b>>]),
   S(<<>>, [Bare(6) EXCEPT !.endings = Late]),
   S(<<a>>, [Bare(7) EXCEPT !.endings = Declined,
      !.mix = <<[text |-> <<a>>, levels |-> {1}], [text |-> <<a, b>>, levels |-> {1, 2}],
                [text |-> <<b>>, levels |-> {2}]>>]),
   S(<<a>>, [Bare(8) EXCEPT !.endings = Late,
      !.mix = <<[text |-> <<>>, levels |-> {1}], [text |-> <<a>>, levels |-> {1, 2}]>>]),
   S(<<b>>, [Bare(9) EXCEPT !.endings = Declined, !.post = <<hyphen, b>>,
      !.mix = <<[text |-> <<b>>, levels |-> {1}]>>]),
   S(<<a>>, [Bare(10) EXCEPT !.endings = {E(<<>>, 0, 1, FALSE), E(<<a>>, 1, 1, FALSE)}]),
   S(<<b>>, [Bare(11) EXCEPT !.endings = {E(<<>>, 0, 1, FALSE)}, !.post = <<hyphen, b>>])}

Signs == {a, b, hyphen, Ast, Quest}

MCPatterns ==
  BoundedSeq(Signs, 4)
    \cup {<<a, b, hyphen>> \o p : p \in BoundedSeq({b, Ast, Quest}, 2)}
    \cup {<<a, a, a, a, a, Ast>>}
    \cup {<<Ast, hyphen>> \o p : p \in BoundedSeq({b, Ast, Quest}, 3)}
MCRooms == {0, 2, 255}

===============================================================================
