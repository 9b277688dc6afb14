------------------------------- MODULE Wildcards -------------------------------
(***************************************************************************)
(* Patterns with "*" and "?" over the dictionary (xmorph/wildscan.h and    *)
(* wildscan.cpp): CheckHelp, which tells the characters that may stand in  *)
(* the place of the first wildcard, and EnumWords, which registers every   *)
(* lexeme with the forms that match.                                       *)
(*                                                                         *)
(* The tree of stems is the set of its stems: a node is the path to it,    *)
(* its children are visited in falling order, its list is in the builder's *)
(* order (StemEntries).  A table of endings is the tree of the endings'    *)
(* texts: what a walk over its branches finds is what it finds along the   *)
(* path of each ending.  The scanners write into a set of characters, or   *)
(* call an actor; here they return the set, or the sequence of calls.      *)
(***************************************************************************)
EXTENDS StemEntries, FiniteSets

CONSTANTS Stems,       \* the stems a dictionary may have: [at: its node, entry]
          MaxStems,    \* bound: stems in a dictionary
          Patterns,    \* what the callers ask for, in small letters
          MaxPattern,  \* sizeof(locase), which a pattern must stay below
          Rooms        \* cchout: sizes of the array given to CheckHelp

Ast == 42              \* '*'
Quest == 63            \* '?'
Nul == 0               \* '\0', the end of a word

NonFlective == 255     \* the form told of a stem that has none
WORDBUFF_FAILED == -1

Wild(c) == c \in {Ast, Quest}
WildMask(str) == \E i \in DOMAIN str : Wild(str[i])

(* the letters of a stem: at the node, in its rows, its endings and its postfix *)
TextsOf(s) ==
  {s.at, s.entry.post} \cup {x.text : x \in s.entry.endings}
    \cup {s.entry.mix[i].text : i \in DOMAIN s.entry.mix}

ASSUME WildAssumption ==
  /\ Stems \subseteq [at: Texts, entry: StemEntry]
  /\ Patterns \subseteq Texts /\ Rooms \subseteq Nat
  /\ MaxStems \in Nat /\ MaxPattern \in Nat

(* no word of the dictionary is written with a wildcard *)
ASSUME NoWildLetters == \A s \in Stems : \A text \in TextsOf(s) : ~WildMask(text)

(* addstep of makeich keeps the rows in order *)
ASSUME RowsAscend ==
  \A s \in Stems : \A i, j \in DOMAIN s.entry.mix :
    i < j => Before(s.entry.mix[i].text, s.entry.mix[j].text)

VARIABLES
  dict,      \* the stems of the dictionary
  pc,        \* "idle", "help", "enum", "done"
  pattern,   \* the caller's pattern
  room,      \* cchout of CheckHelp
  offered,   \* the characters CheckHelp gave
  answer,    \* what the call returned
  todo,      \* the calls of the actor EnumWords still has to make
  told       \* those it has made

vars == <<dict, pc, pattern, room, offered, answer, todo, told>>

-------------------------------------------------------------------------------
(* The dictionary. *)

(* a finite set as a list in which Op holds from the one to any later one *)
Sorted(S, Op(_, _)) ==
  CHOOSE q \in SetToSeqs(S) : \A i, j \in DOMAIN q : i < j => Op(q[i], q[j])

(* the order of a list: no stem stands behind one it is less than *)
InOrder(a, b) == ~Less(b, a)

EntriesAt(node) == {s.entry : s \in {t \in dict : t.at = node}}

List(node) == Sorted(EntriesAt(node), InOrder)

Kids(node) ==
  {s.at[Len(node) + 1] : s \in {t \in dict : IsStrictPrefix(node, t.at)}}

KidsFalling(node) == Sorted(Kids(node), >)

FlexKids(e, u) ==
  {x.text[Len(u) + 1] : x \in {y \in e.endings : IsStrictPrefix(u, y.text)}}

(* GetSwapLevel against the row's levels, and the stem without a singular *)
Allowed(e, x, levels) == x.level \in levels /\ (e.multiple => x.plural)

AnyLevel == 1 .. 3

Common(a, b) == MaxOf({n \in 0 .. Len(a) : n <= Len(b) /\ SubSeq(a, 1, n) = SubSeq(b, 1, n)})

Skip(s, n) == SubSeq(s, n + 1, Len(s))

(* where the first wildcard stands *)
WildAt(str) == MinOf({i \in DOMAIN str : Wild(str[i])})

(* gramBuffer as the actor of LinearScanDict over a table of endings *)
GramFound(e, text, levels) == \E x \in e.endings : x.text = text /\ Allowed(e, x, levels)

-------------------------------------------------------------------------------
(* EnumWords: which forms of a stem match what is left of the pattern *)

IsAsterisk(str) == str # <<>> /\ \A i \in DOMAIN str : str[i] = Ast

(* after the equal beginning, a letter of the postfix is always taken: *)
(* the asterisk does not try to stand for nothing                      *)
GetPostMatch[x \in Texts \X Texts] ==
  LET str == x[1]
      post == x[2]
      n == Common(str, post)
      s == Skip(str, n)
      p == Skip(post, n)
  IN IF post = <<>> THEN str = <<>>
     ELSE IF s = <<>> THEN p = <<>>
     ELSE IF p = <<>> THEN IsAsterisk(s)
     ELSE \/ s[1] = Quest /\ GetPostMatch[<<Tail(s), Tail(p)>>]
          \/ /\ s[1] = Ast
             /\ GetPostMatch[<<s, Tail(p)>>] \/ GetPostMatch[<<Tail(s), Tail(p)>>]

(* GetFlexMatch along the path to one ending, of which the text is left: the   *)
(* postfix is compared at its end, but not after an asterisk at the end of the *)
(* pattern that takes a letter (ListAllForms)                                  *)
FlexFits[x \in Texts \X Texts \X Texts] ==
  LET str == x[1]
      text == x[2]
      post == x[3]
  IN \/ text = <<>> /\ GetPostMatch[<<str, post>>]
     \/ str # <<>> /\ str[1] = Ast /\ FlexFits[<<Tail(str), text, post>>]
     \/ /\ str # <<>> /\ text # <<>>
        /\ IF str[1] \in {Quest, text[1]} THEN FlexFits[<<Tail(str), Tail(text), post>>]
           ELSE /\ str[1] = Ast
                /\ \/ Len(str) = 1
                   \/ FlexFits[<<Tail(str), Tail(text), post>>]
                   \/ FlexFits[<<str, Tail(text), post>>]

(* altered: the postfix is not compared *)
GetFlexMatchBare(str, e, levels) ==
  {x.form : x \in {y \in e.endings : Allowed(e, y, levels) /\ FlexFits[<<str, y.text, <<>>>>]}}

GetFlexMatch(str, e, levels) ==
  {x.form : x \in {y \in e.endings : Allowed(e, y, levels) /\ FlexFits[<<str, y.text, e.post>>]}}

(* what may be left of the pattern behind a row of alternations *)
IntrRests[x \in Texts \X Texts] ==
  LET row == x[1]
      str == x[2]
      n == Common(row, str)
      r == Skip(row, n)
      s == Skip(str, n)
  IN IF r = <<>> THEN {s}
     ELSE IF s = <<>> \/ ~Wild(s[1]) THEN {}
     ELSE IF s[1] = Quest THEN IntrRests[<<Tail(r), Tail(s)>>]
     ELSE IntrRests[<<r, Tail(s)>>] \cup IntrRests[<<Tail(r), s>>]

GetIntrMatch(row, str, e, levels) ==
  UNION {GetFlexMatch(s, e, levels) : s \in IntrRests[<<row, str>>]}

(* the forms GetListMatch finds for one stem; a stem that does not inflect *)
(* is compared without its postfix                                          *)
FormsOf(str, e) ==
  IF ~Flective(e) THEN IF str = <<>> \/ IsAsterisk(str) THEN {NonFlective} ELSE {}
  ELSE IF ~Mixes(e) THEN GetFlexMatch(str, e, AnyLevel)
  ELSE UNION {GetIntrMatch(e.mix[i].text, str, e, e.mix[i].levels) : i \in DOMAIN e.mix}

(* altered: the lower bound stops the scan as the upper one does *)
CutsBoth(str, e) == str # <<>> /\ ~Wild(str[1]) /\ (str[1] > ChrMax(e) \/ str[1] < ChrMin(e))

Cuts(str, e) == str # <<>> /\ ~Wild(str[1]) /\ str[1] > ChrMax(e)

TooEarly(str, e) == str # <<>> /\ ~Wild(str[1]) /\ str[1] < ChrMin(e)

(* altered: a stem is told even when none of its forms match *)
GetListMatchAll(str, list) ==
  [i \in DOMAIN list |-> [lex |-> list[i].lex, forms |-> FormsOf(str, list[i])]]

GetListMatch(str, list) ==
  LET reached == {i \in DOMAIN list : \A j \in 1 .. i : ~Cuts(str, list[j])}
      hits == {i \in reached : ~TooEarly(str, list[i]) /\ FormsOf(str, list[i]) # {}}
      call(i) == [lex |-> list[i].lex, forms |-> FormsOf(str, list[i])]
      order == Sorted(hits, <)
  IN [k \in DOMAIN order |-> call(order[k])]

GetDictMatch[x \in Texts \X Texts] ==
  LET str == x[1]
      node == x[2]
      below(s, cs) == FlattenSeq([i \in DOMAIN cs |-> GetDictMatch[<<s, Append(node, cs[i])>>]])
      tried ==
        IF str = <<>> THEN <<>>
        ELSE IF str[1] = Quest THEN below(Tail(str), KidsFalling(node))
        ELSE IF str[1] = Ast
          THEN (IF Len(str) > 1 THEN GetDictMatch[<<Tail(str), node>>] ELSE <<>>)
                 \o below(str, KidsFalling(node))
        ELSE IF str[1] \in Kids(node) THEN GetDictMatch[<<Tail(str), Append(node, str[1])>>]
        ELSE <<>>
  IN tried \o GetListMatch(str, List(node))

-------------------------------------------------------------------------------
(* CheckHelp: the characters that may stand for the first wildcard *)

(* listLookup for a rest without capitals (StemList), with an actor that takes *)
(* the first stem                                                              *)
Reads(e, rest) ==
  LET flex == SubSeq(rest, 1, Len(rest) - Len(e.post))
      row(i) == e.mix[i]
  IN /\ IsSuffix(e.post, rest)
     /\ flex # <<>> => rest[1] \in ChrMin(e) .. ChrMax(e)
     /\ IF ~Flective(e) THEN flex = <<>>
        ELSE IF ~Mixes(e) THEN GramFound(e, flex, AnyLevel)
        ELSE \E i \in DOMAIN e.mix :
               /\ \A j \in 1 .. i : ~Before(rest, row(j).text)
               /\ IsPrefix(row(i).text, rest)
               /\ GramFound(e, Skip(rest, Len(row(i).text)), row(i).levels)

LookupStops(e, rest) ==
  IsSuffix(e.post, rest) /\ Len(rest) > Len(e.post) /\ rest[1] > ChrMax(e)

ListLookup(list, rest) ==
  \E i \in DOMAIN list :
    Reads(list[i], rest) /\ \A j \in 1 .. i - 1 : ~LookupStops(list[j], rest)

(* LinearScanDict from the node on *)
LookupFrom(node, str) ==
  \E n \in 0 .. Len(str) : ListLookup(List(node \o SubSeq(str, 1, n)), Skip(str, n))

(* the plain letters lead to one node of the table, the wildcard is met there; *)
(* the postfix is not looked at; for "*" every child is told, whatever its     *)
(* forms                                                                       *)
WildScanFlex(str, e, levels) ==
  LET n == WildAt(str)
      u == SubSeq(str, 1, n - 1)
  IN {c \in FlexKids(e, u) : str[n] = Ast \/ GramFound(e, Append(u, c) \o Skip(str, n), levels)}
       \cup (IF Len(str) = n /\ GramFound(e, u, levels) THEN {Nul} ELSE {})

(* flexcc -= *szpost, or nothing when the pattern does not end in the postfix *)
WithoutPost(s, post) ==
  IF post = <<>> THEN {s}
  ELSE IF Len(s) > Len(post) /\ IsSuffix(post, s) THEN {SubSeq(s, 1, Len(s) - Len(post))}
  ELSE {}

(* what one row of alternations offers *)
WildScanRow(str, e, row) ==
  LET n == Common(row.text, str)
      r == Skip(row.text, n)
      s == Skip(str, n)
  IN IF r = <<>> THEN WildScanFlex(s, e, row.levels)
     ELSE IF s[1] = Ast THEN {r[1]}
     ELSE {c \in {r[1]} :
             /\ s[1] = Quest
             /\ \E t \in WithoutPost(s, e.post) :
                  /\ IsPrefix(Tail(r), Tail(t))
                  /\ GramFound(e, Skip(t, Len(r)), row.levels)}

(* altered: the rows are left at the first one that differs from the pattern *)
RowStopsAnyhow(str, row) ==
  LET n == Common(row.text, str)
  IN n < Len(row.text) /\ ~Wild(str[n + 1])

(* the rows are left at the first one that is behind the pattern *)
RowStops(str, row) ==
  LET n == Common(row.text, str)
  IN n < Len(row.text) /\ ~Wild(str[n + 1]) /\ str[n + 1] < row.text[n + 1]

WildScanStem(str, e) ==
  IF ~Flective(e) THEN IF str[1] = Ast \/ str = <<Quest>> THEN {Nul} ELSE {}
  ELSE IF ~Mixes(e) THEN WildScanFlex(str, e, AnyLevel)
  ELSE UNION {WildScanRow(str, e, e.mix[i]) :
                i \in {j \in DOMAIN e.mix : \A k \in 1 .. j - 1 : ~RowStops(str, e.mix[k])}}

WildScanList(str, list) == UNION {WildScanStem(str, list[i]) : i \in DOMAIN list}

(* the lists on the way to the wildcard, and the children of the node it is met at *)
WildScanDict(str) ==
  LET n == WildAt(str)
      u == SubSeq(str, 1, n - 1)
  IN {c \in Kids(u) : str[n] = Ast \/ LookupFrom(Append(u, c), Skip(str, n))}
       \cup UNION {WildScanList(Skip(str, k), List(SubSeq(str, 1, k))) : k \in 0 .. n - 1}

-------------------------------------------------------------------------------

Init ==
  /\ dict \in {D \in SUBSET Stems : IsFiniteSet(D) /\ Cardinality(D) <= MaxStems}
  /\ pc = "idle" /\ pattern = <<>> /\ room = 0
  /\ offered = {} /\ answer = 0 /\ todo = <<>> /\ told = <<>>

(* the pattern must hold a wildcard: assert( IsWildMask ) *)
CheckHelp ==
  /\ pc = "idle" /\ pc' = "help"
  /\ pattern' \in {p \in Patterns : WildMask(p)} /\ room' \in Rooms
  /\ LET chars == WildScanDict(pattern')
     IN IF Len(pattern') >= MaxPattern \/ Cardinality(chars) > room'
          THEN answer' = WORDBUFF_FAILED /\ offered' = {}
          ELSE answer' = Cardinality(chars) /\ offered' = chars
  /\ UNCHANGED <<dict, todo, told>>

EnumWords ==
  /\ pc = "idle"
  /\ pattern' \in Patterns
  /\ IF Len(pattern') >= MaxPattern
       THEN pc' = "done" /\ answer' = WORDBUFF_FAILED /\ UNCHANGED todo
       ELSE pc' = "enum" /\ todo' = GetDictMatch[<<pattern', <<>>>>] /\ UNCHANGED answer
  /\ UNCHANGED <<dict, room, offered, told>>

(* the caller's RegisterLexeme; what is not zero ends the enumeration and is *)
(* what EnumWords returns                                                     *)
RegisterLexeme ==
  /\ pc = "enum" /\ todo # <<>>
  /\ told' = Append(told, Head(todo))
  /\ \/ todo' = Tail(todo) /\ UNCHANGED <<pc, answer>>
     \/ todo' = <<>> /\ pc' = "done" /\ answer' = 1
  /\ UNCHANGED <<dict, pattern, room, offered>>

NoMoreWords ==
  /\ pc = "enum" /\ todo = <<>>
  /\ pc' = "done" /\ answer' = 0
  /\ UNCHANGED <<dict, pattern, room, offered, todo, told>>

Return ==
  /\ pc \in {"help", "done"} /\ pc' = "idle"
  /\ pattern' = <<>> /\ room' = 0
  /\ offered' = {} /\ answer' = 0 /\ todo' = <<>> /\ told' = <<>>
  /\ UNCHANGED dict

Next == CheckHelp \/ EnumWords \/ RegisterLexeme \/ NoMoreWords \/ Return

Spec == Init /\ [][Next]_vars

-------------------------------------------------------------------------------
(* The words of a stem, and the words a pattern stands for, by definition. *)

WordsOf(s) ==
  IF ~Flective(s.entry) THEN {[text |-> s.at \o s.entry.post, form |-> NonFlective]}
  ELSE UNION {{[text |-> s.at \o r.text \o x.text \o s.entry.post, form |-> x.form] :
                 x \in {y \in s.entry.endings : Allowed(s.entry, y, r.levels)}} :
              r \in Alternations(s.entry)}

Matches[x \in Texts \X Texts] ==
  LET p == x[1]
      w == x[2]
  IN IF p = <<>> THEN w = <<>>
     ELSE IF p[1] = Ast THEN Matches[<<Tail(p), w>>] \/ (w # <<>> /\ Matches[<<p, Tail(w)>>])
     ELSE w # <<>> /\ p[1] \in {Quest, w[1]} /\ Matches[<<Tail(p), Tail(w)>>]

(* the letters a pattern must have *)
Letters[p \in Texts] ==
  IF p = <<>> THEN 0 ELSE Letters[Tail(p)] + (IF p[1] = Ast THEN 0 ELSE 1)

(* The promises below leave out what the code does not keep: a stem that does  *)
(* not inflect is compared without its postfix; CheckHelp does not look at     *)
(* postfixes; and the bounds may hide endings outside the bounds of their      *)
(* table, alternations with an empty row, and a postfix behind endings that    *)
(* are all empty (wildscan.h:238).                                             *)
Posted(s) == s.entry.post # <<>>

Hidden(s) ==
  /\ Flective(s.entry)
  /\ \/ Uncovered(s.entry)
     \/ Mixes(s.entry) /\ BoundsLost(s.entry)
     \/ ChrMax(s.entry) < First(s.entry.post)

(* an asterisk within the postfix that may have to stand for nothing *)
StarInPost(p, post) ==
  \E i \in DOMAIN p :
    /\ p[i] = Ast /\ Letters[Skip(p, i)] < Len(post)
    /\ i < Len(p) \/ (i > 1 /\ p[i - 1] = Quest)

FirstWild == WildAt(pattern)

NextChar(w) == IF Len(w) >= FirstWild THEN w[FirstWild] ELSE Nul

OneWild == ~WildMask(Skip(pattern, FirstWild))

HelpGiven == pc = "help" /\ answer # WORDBUFF_FAILED

(* The scanners and their callers stay within their types; the array of        *)
(* CheckHelp is filled within its size or not at all.                          *)
WildTypeOK ==
  /\ pc \in {"idle", "help", "enum", "done"}
  /\ offered \subseteq 0 .. 255 /\ ~(Ast \in offered \/ Quest \in offered)
  /\ answer \in Nat \cup {WORDBUFF_FAILED} /\ Cardinality(offered) <= room
  /\ \A c \in ToSet(todo) \cup ToSet(told) :
       c.lex \in {s.entry.lex : s \in dict} /\ c.forms # {} /\ c.forms \subseteq 0 .. 255

(* CheckHelp with one wildcard: every word that fits has its character in the  *)
(* place of the wildcard among those offered, 0 if the word ends before it     *)
(* (wildscan.cpp:28-211).  And no character is offered that no word has there, *)
(* but for one excuse: for an asterisk the children of a table are offered     *)
(* without looking whether the stem may have any of the endings below          *)
(* (wildscan.cpp:52).                                                          *)
HelpExact ==
  HelpGiven =>
    /\ OneWild =>
         \A s \in {t \in dict : ~Posted(t) /\ ~Hidden(t)} : \A w \in WordsOf(s) :
           \/ Matches[<<pattern, w.text>>]
           \/ Matches[<<SubSeq(pattern, 1, FirstWild - 1), w.text>>] /\ FirstWild = Len(pattern)
           => NextChar(w.text) \in offered
    /\ \A c \in offered :
         \/ \E s \in dict : \E w \in WordsOf(s) :
               IsPrefix(SubSeq(pattern, 1, FirstWild - 1), w.text) /\ NextChar(w.text) = c
         \/ \E s \in dict : Posted(s) \/ (pattern[FirstWild] = Ast /\ (Mixes(s.entry) \/ s.entry.multiple))

(* Whatever EnumWords tells the actor is true: the lexeme has a word that      *)
(* matches the pattern for each of the forms told (wildscan.h:217-435).        *)
ToldMatch ==
  \A i \in DOMAIN told : \A f \in told[i].forms :
    \E s \in dict :
      /\ s.entry.lex = told[i].lex
      /\ \/ \E w \in WordsOf(s) : w.form = f /\ Matches[<<pattern, w.text>>]
         \/ Posted(s) /\ ~Flective(s.entry)

(* An actor that never says stop is told every form of every word that matches.*)
NoneUntold ==
  pc = "done" /\ answer = 0 =>
    \A s \in {t \in dict : ~Hidden(t)} : \A w \in WordsOf(s) :
      Matches[<<pattern, w.text>>] =>
        \/ \E i \in DOMAIN told : told[i].lex = s.entry.lex /\ w.form \in told[i].forms
        \/ Posted(s) /\ (~Flective(s.entry) \/ StarInPost(pattern, s.entry.post))
===============================================================================
