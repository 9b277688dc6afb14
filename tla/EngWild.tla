-------------------------------- MODULE EngWild --------------------------------
(***************************************************************************)
(* CheckHelp of the English library (eng/libdict/wildscan.cpp): the        *)
(* characters that may stand for the first wildcard of a pattern.  Each    *)
(* scanner inserts into a sorted array of characters; here it returns the  *)
(* set of those it inserts.  A pattern is cut behind its first asterisk;   *)
(* behind a question mark the rest is compared as it stands.  Postfixes    *)
(* are not looked at, nor capitals.                                        *)
(***************************************************************************)
EXTENDS EngDict

Ast == 42
Quest == 63

Wild(c) == c \in {Ast, Quest}

IsWildMask(str) == \E i \in DOMAIN str : Wild(str[i])

WildOffset(str) ==
  Cardinality({i \in DOMAIN str : \A j \in 1 .. i : ~Wild(str[j])})

(* altered: the end of the word is offered although the pattern goes on *)
EndsAtAny(text, str) ==
  Len(text) = WildOffset(str)

(* the ending is used up where the wildcard, the last of the pattern, stands *)
EndsAt(text, str) ==
  Len(text) = WildOffset(str) /\ Len(str) = Len(text) + 1

(* altered: the rest behind a question mark may go on *)
FitsBehindStart(text, str, n) ==
  IsPrefix(Skip(text, n + 1), Skip(str, n + 1))

(* behind the question mark at n + 1, text and pattern are the same *)
FitsBehind(text, str, n) == Skip(text, n + 1) = Skip(str, n + 1)

WildFlexComp(table, str) ==
  LET n == WildOffset(str)
      pure == SubSeq(str, 1, n)
      reached == {i \in DOMAIN table : \A j \in 1 .. i : ~Behind(table[j].text, pure)}
      fits == {table[i].text : i \in {j \in reached : ~Behind(pure, table[j].text)}}
  IN {t[n + 1] : t \in {u \in fits : Len(u) > n /\ (str[n + 1] = Ast \/ FitsBehind(u, str, n))}}
       \cup (IF \E t \in fits : EndsAt(t, str) THEN {Nul} ELSE {})

HasSomeForms(s, str) ==
  IF Inflects(s) THEN FlexComp(Table(s), str, <<>>) # <<>> ELSE str = <<>>

(* without the fragment *)
WildEndings(s, str) ==
  IF Inflects(s) THEN WildFlexComp(Table(s), str)
  ELSE IF Len(str) = 1 /\ Wild(str[1]) THEN {Nul} ELSE {}

WildStops(s, str) == Behind(s.frag, SubSeq(str, 1, WildOffset(str)))

(* the question mark stands within the fragment: when the rest of the stem     *)
(* fits, its character is offered, and then the endings, as if the fragment    *)
(* were not there                                                              *)
InFragment(s, str, n) ==
  LET rest == SubSeq(str, n + 2, Len(s.frag))
  IN IF /\ n < Len(s.frag) - 1 /\ Len(str) >= Len(s.frag)
        /\ rest # Skip(s.frag, n + 1)
       THEN {}
     ELSE IF Len(str) >= Len(s.frag) /\ HasSomeForms(s, Skip(str, Len(s.frag)))
       THEN {s.frag[n + 1]} \cup WildEndings(s, str)
     ELSE {}

WildStemComp(s, str) ==
  LET n == WildOffset(str)
      pure == SubSeq(str, 1, n)
  IN IF Behind(pure, s.frag) \/ Behind(s.frag, pure) THEN {}
     ELSE IF n >= Len(s.frag) THEN WildEndings(s, Skip(str, Len(s.frag)))
     ELSE IF str[n + 1] = Ast THEN {s.frag[n + 1]}
     ELSE InFragment(s, str, n)

WildScanList(list, str) ==
  UNION {WildStemComp(list[i], str) :
           i \in {j \in DOMAIN list : \A k \in 1 .. j : ~WildStops(list[k], str)}}

AnyWriting == [flags |-> {"first", "ignore"}, scheme |-> 0]

(* the first stem StemComp does not refuse with 0, also one it refuses with -1 *)
SomeStemAnswers(list, str) ==
  \E s \in ToSet(list) : StemStops(s, str, AnyWriting) \/ StemForms(s, str, AnyWriting) # <<>>

WildFragment(page, node, str) ==
  LET n == WildOffset(str)
      list == page[node.list].stems
  IN IF ~(IsPrefix(node.text, SubSeq(str, 1, n)) \/ IsPrefix(SubSeq(str, 1, n), node.text))
       THEN {}
     ELSE IF n >= Len(node.text) THEN WildScanList(list, Skip(str, Len(node.text)))
     ELSE IF \/ str[n + 1] = Ast
             \/ /\ IsPrefix(Skip(node.text, n + 1), Skip(str, n + 1))
                /\ SomeStemAnswers(list, Skip(str, Len(node.text)))
       THEN {node.text[n + 1]}
     ELSE {}

RECURSIVE WildScanPage(_, _, _)
WildScanPage(page, n, str) ==
  LET node == page[n]
      kids == ToSet(node.kids)
      letters == {k \in kids : k.char # Nul}
      here == UNION {WildScanList(page[k.to].stems, str) : k \in kids \ letters}
  IN IF node.kind = "frag" THEN WildFragment(page, node, str)
     ELSE here \cup
       CASE str[1] = Ast -> {k.char : k \in letters}
         [] str[1] = Quest ->
              {k.char : k \in {l \in letters :
                                 ScanPage(page, l.to, Tail(str), 0, AnyWriting) # <<>>}}
         [] OTHER -> UNION {WildScanPage(page, k.to, Tail(str)) :
                              k \in {l \in letters : l.char = str[1]}}

WildScanDictionary(dict, str) ==
  LET n == WildOffset(str)
      cut == IF str[n + 1] = Ast THEN SubSeq(str, 1, n + 1) ELSE str
  IN IF ~IsWildMask(str) THEN {}
     ELSE UNION {WildScanPage(dict.pages[p], Root, cut) : p \in DOMAIN dict.pages}
===============================================================================
