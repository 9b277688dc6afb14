----------------------------- MODULE MCEngLibrary -----------------------------
(* Two letters and the hyphen.  Classes: a fixed word, a noun, a verb with two  *)
(* texts for one form and one text for two, a name, an abbreviation, and two    *)
(* for stems with a postfix, whose byte behind the type is too small and too    *)
(* large.  Lists on the root, on inner nodes and behind fragments of the path,  *)
(* of one and two stems, with fragments; a lexeme with two stems; a word of     *)
(* five parts.  One page or two.                                                *)
EXTENDS EngLibrary

a == 97
b == 98

Fixed == <<>>
Noun == <<{<<>>}, {<<a>>}, {<<b>>}, {}>>
Verb == <<{<<b>>}, {<<a, b>>}, {<<a>>, <<b>>}>>
Name == <<{<<>>}, {<<a>>}>>

C(type, minCap, forms, behind) ==
  [type |-> type, minCap |-> minCap, forms |-> forms, behind |-> behind]

MCClasses ==
  [c \in 0 .. 6 |->
     <<C(4, 0, Fixed, 9), C(1, 0, Noun, 4), C(2, 0, Verb, 17), C(19, 1, Name, 44),
       C(7, 2, Fixed, 0), C(1, 0, <<{<<a>>}, {<<b, a>>}, {<<a>>}>>, 1), C(3, 0, Name, 4)>>[c + 1]]

S(path, class, frag, post, lex) ==
  [at |-> path, stem |-> [class |-> class, lids |-> IF lex > 5 THEN 1 ELSE 0, frag |-> frag,
                          post |-> post, lex |-> lex]]

Pool ==
  <<S(<<a>>, 1, <<>>, <<>>, 1),
    S(<<a>>, 2, <<b>>, <<>>, 2),
    S(<<a>>, 5, <<a>>, <<>>, 2),
    S(<<a, b>>, 1, <<a>>, <<>>, 3),
    S(<<>>, 0, <<b>>, <<>>, 4),
    S(<<b, b>>, 3, <<>>, <<>>, 6),
    S(<<b, Hyphen, a>>, 3, <<>>, <<>>, 7),
    S(<<b>>, 5, <<>>, <<Hyphen, a>>, 8),
    S(<<b>>, 6, <<>>, <<Hyphen, b>>, 9),
    S(<<a, b, a>>, 0, <<a, b>>, <<>>, 10),
    S(<<a, b>>, 4, <<>>, <<>>, 11),
    S(<<a, b>>, 0, <<>>, <<Hyphen, b>>, 12),
    S(<<b, Hyphen, a, Hyphen, a, Hyphen, a, Hyphen, b>>, 0, <<>>, <<>>, 13)>>

-------------------------------------------------------------------------------
(* The pages a set of stems is laid out in: a piece of the tree with one list   *)
(* below is one node with a fragment, the root excepted.                        *)

Below(X, p) == {x.at : x \in {y \in X : IsPrefix(p, y.at)}}

Inner(X, p) == p = Root \/ Cardinality(Below(X, p)) > 1

Nodes(X) ==
  {p \in UNION {{SubSeq(x.at, 1, n) : n \in 0 .. Len(x.at)} : x \in X} \cup {Root} :
     p = Root \/ Inner(X, Front(p))}

ListsOf(X) == {Append(x.at, Nul) : x \in X}

Kids(X, p) ==
  SetToSortSeq({[char |-> q[Len(q)], to |-> q] :
                  q \in {r \in Nodes(X) \cup ListsOf(X) : r # Root /\ Front(r) = p}},
               LAMBDA x, y : x.char < y.char)

Stems(X, p) ==
  SetToSortSeq({x.stem : x \in {y \in X : y.at = p}},
               LAMBDA x, y : Before(x.frag, y.frag) \/ (x.frag = y.frag /\ x.class < y.class))

Only(X, p) == CHOOSE path \in Below(X, p) : TRUE

Page(X) ==
  [n \in Nodes(X) \cup ListsOf(X) |->
     IF n \in ListsOf(X)
       THEN [kind |-> "list", stems |-> Stems(X, Front(n)),
             back |-> CHOOSE p \in Nodes(X) :
                        /\ IsPrefix(p, Front(n))
                        /\ \A q \in Nodes(X) : IsPrefix(q, Front(n)) => Len(q) <= Len(p)]
     ELSE IF Inner(X, n)
       THEN [kind |-> "node", kids |-> Kids(X, n), back |-> IF n = Root THEN Top ELSE Front(n)]
     ELSE [kind |-> "frag", text |-> Skip(Only(X, n), Len(n)), list |-> Append(Only(X, n), Nul),
           back |-> Front(n)]]

(* stems is not in the code: what the pages were made of *)
Dict(parts) ==
  LET X == UNION ToSet(parts)
      ref(lex) == IF \E x \in X : x.stem.lex = lex
                    THEN LET x == CHOOSE y \in X : y.stem.lex = lex
                         IN [page |-> CHOOSE p \in DOMAIN parts : x \in parts[p],
                             list |-> Append(x.at, Nul)]
                    ELSE [page |-> 0, list |-> <<>>]
  IN [pages |-> [p \in DOMAIN parts |-> Page(parts[p])], stems |-> X,
      lids |-> <<[lex \in 1 .. 4 |-> ref(lex)], [lex \in 6 .. 9 |-> ref(lex)],
               [lex \in 10 .. 13 |-> ref(lex)]>>]

(* any two stems of the pool are in one of the thirteen sets together *)
Sets == {{Pool[1 + ((k + d) % 13)] : d \in {0, 1, 3, 9}} : k \in 0 .. 12}

StartsWithB(x) == x.at # <<>> /\ x.at[1] = b

MCDicts ==
  {Dict(<<X>>) : X \in Sets}
    \cup {Dict(<<{x \in X : StartsWithB(x)}, {x \in X : ~StartsWithB(x)}>>) :
            X \in {Y \in Sets : {StartsWithB(x) : x \in Y} = BOOLEAN}}

A == 65

MCAsked ==
  BoundedSeq({a, b}, 4) \cup {<<A>>, <<A, b>>, <<A, 66>>, <<b, A>>, <<66, 66>>, <<66, b>>, <<66, b, a>>,
    <<66, Hyphen, A>>, <<b, Hyphen, a>>, <<b, Hyphen>>, <<b, a, Hyphen, a>>, <<b, Hyphen, b>>,
    <<b, b, a, Hyphen, a>>, <<a, 42>>, <<66, b, b>>, <<b, b, b, b, b, b, b, b, b, b>>}

MCPatterns == BoundedSeq({a, b, Quest, Ast}, 3) \cup {<<a, b, Quest, a>>, <<a, b, a, Quest, b>>,
    <<a, Quest, a, a, b>>, <<a, b, Quest, a, b>>, <<b, a, a, a, a, a, a, a, a, a, Ast>>}

MCLexemes == 1 .. 14
MCFlagSets == {{}, {"first"}, {"ignore"}}
MCLemmRooms ==
  {[text |-> 100, lids |-> 4, grams |-> 60], [text |-> 3, lids |-> 4, grams |-> 60],
   [text |-> -1, lids |-> 1, grams |-> 60], [text |-> 100, lids |-> 4, grams |-> 7],
   [text |-> 100, lids |-> -1, grams |-> -1]}
===============================================================================
