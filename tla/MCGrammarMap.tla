---- MODULE MCGrammarMap ----
(* Statements of the tables in rus/tables/flex, without the texts of the endings: *)
(* nouns with the second cases and with both kinds (nouns of mascul78.tf,         *)
(* masculin.tf, middln1.tf), an adjective with all it can have (adjes1a.tf), a    *)
(* reflexive one (adjes4a.tf), a possessive pronoun (p_ms_1.tf), a verb with all  *)
(* participles and reflexive forms (1a.tf with common.tf), the verb to be         *)
(* (isol_7.tf), and a numeral with one form only (p_ms_6.tf).  The words choose   *)
(* between them as the dictionary does.                                           *)
EXTENDS GrammarMap, GrammarForms

S(keys) == [kind |-> "command", keys |-> keys, text |-> <<>>, link |-> "none", to |-> NoTable]
E(keys) == [kind |-> "ending", keys |-> keys, text |-> <<>>, link |-> "none", to |-> NoTable]
N(keys, t) == [kind |-> "ending", keys |-> keys, text |-> <<>>, link |-> "next", to |-> t]
O(keys, t) == [kind |-> "ending", keys |-> keys, text |-> <<>>, link |-> "option", to |-> t]

Each(keys) == [k \in DOMAIN keys |-> E(<<keys[k]>>)]
OfBoth == <<"nominative", "genitive", "dative", "accusative", "instrumental", "locative">>
Apart == <<"nominative", "genitive", "dative", "inanimate", "animate", "instrumental", "locative">>
Shorts(keys) == Each(keys) \o <<E(<<"short">>)>>
Reflexive(keys) == [k \in DOMAIN keys |-> E(<<keys[k], "reflexive">>)]
Linked(keys) == [k \in DOMAIN keys |-> O(<<keys[k]>>, "sya")]

Genders(m, f, n, p) ==
  <<S(<<"single">>), S(<<"masculine">>)>> \o m \o <<S(<<"feminine">>)>> \o f
  \o <<S(<<"neuter">>)>> \o n \o <<S(<<"nogender">>), S(<<"plural">>)>> \o p

Numbers(to) == <<S(<<"single">>), O(<<>>, to), S(<<"plural">>), O(<<>>, to)>>

MCTables ==
  [noun |-> <<S(<<"single">>)>> \o Each(OfBoth) \o <<E(<<"genitive2">>), E(<<"locative2">>), S(<<"plural">>)>>
            \o Each(OfBoth),
   kinds |-> <<S(<<"single">>)>> \o Each(Apart) \o <<S(<<"plural">>)>> \o Each(Apart),
   kindsPlural |-> <<S(<<"single">>)>> \o Each(OfBoth) \o <<S(<<"plural">>)>> \o Each(Apart),
   adjective |-> Genders(Shorts(Apart), Shorts(OfBoth), Shorts(OfBoth), Shorts(Apart))
                 \o <<S(<<"single">>), E(<<"compared", "hard">>), E(<<"adverb">>)>>,
   joined |-> Genders(Each(Apart), Each(OfBoth), Each(OfBoth), Each(Apart))
              \o <<S(<<"single">>), E(<<"joining">>)>>,
   reflexive |-> Genders(Reflexive(Apart), Reflexive(OfBoth), Reflexive(OfBoth), Reflexive(Apart)),
   remnant |-> <<S(<<"number">>), E(<<"genitive">>)>>,
   sya |-> <<E(<<"reflexive">>)>>,
   numbers |-> Numbers("sya"),
   genders |-> Genders(<<O(<<>>, "sya")>>, <<O(<<>>, "sya")>>, <<O(<<>>, "sya")>>, <<O(<<>>, "sya")>>),
   active |-> Genders(Linked(Apart), Linked(OfBoth), Linked(Apart), Linked(Apart)),
   passive |-> Genders(Shorts(Apart), Shorts(OfBoth), Shorts(Apart), Shorts(Apart)),
   verb |-> <<S(<<"infinitive">>), O(<<>>, "sya"), S(<<"imperative">>), N(<<>>, "numbers"),
              S(<<"present">>), S(<<"first">>), N(<<>>, "numbers"), S(<<"second">>), N(<<>>, "numbers"),
              S(<<"third">>), N(<<>>, "numbers"), S(<<"active">>), N(<<>>, "active"),
              S(<<"passive">>), N(<<>>, "passive"), S(<<"gerund">>), O(<<>>, "sya"),
              S(<<"past">>), N(<<>>, "genders"), S(<<"active">>), N(<<>>, "active"),
              S(<<"passive">>), N(<<>>, "passive"), S(<<"gerund">>), O(<<>>, "sya")>>,
   tobe |-> <<S(<<"infinitive">>), E(<<>>), S(<<"present">>), S(<<"third">>), E(<<>>), S(<<"gerund">>), E(<<>>),
              S(<<"future">>), S(<<"first">>), N(<<>>, "numbers"), S(<<"gerund">>), E(<<>>),
              S(<<"past">>), N(<<>>, "genders")>>]

Word(type, multiple, mix, table) == [type |-> type, multiple |-> multiple, mix |-> mix, table |-> table]

MCWords ==
  {Word(7, FALSE, 0, "noun"), Word(8, TRUE, 0, "noun"), Word(9, FALSE, 0, "kinds"),
   Word(14, FALSE, 0, "noun"), Word(15, FALSE, 0, "kindsPlural"),
   Word(25, FALSE, 0, "adjective"), Word(26, FALSE, 0, "joined"), Word(25, FALSE, 0, "reflexive"),
   Word(27, FALSE, 0, "joined"), Word(36, FALSE, 0, "remnant"),
   Word(1, FALSE, 0, "verb"), Word(3, FALSE, 1, "verb"), Word(5, FALSE, 2, "verb"), Word(2, FALSE, 0, "tobe")}
MCPlainTable == [t \in {w.table : w \in MCWords} |-> CreatePlainTable(t)]
MCTexts == {<<>>}
===============================================================================
