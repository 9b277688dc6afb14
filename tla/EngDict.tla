-------------------------------- MODULE EngDict --------------------------------
(***************************************************************************)
(* The dictionary of the English library (eng/libdict): pages of a tree,   *)
(* each the node table of one piece of it, and an index that names, for a  *)
(* lexeme, a page and a list in it.  A word is scanned down from the roots *)
(* of the pages it may be in (scandict.cpp, pageman.cpp); a lexeme is      *)
(* looked up in the index, and its text is gathered climbing back from the *)
(* list to the root.  Words are compared in small letters; how they were   *)
(* written is a number, the scheme (capsheme.cpp).  Characters are codes.  *)
(***************************************************************************)
EXTENDS StemEntries, FiniteSets
LOCAL INSTANCE Bitwise

CONSTANTS Classes,     \* classBox: the classes of stems
          Dicts,       \* the dictionaries, as the builder left them
          WordMax      \* sizeof(word) - 1, in every call

Nul == 0
Hyphen == 45
Top == <<-1>>           \* 0xFFFF, the back reference of a root
NonFlective == 255     \* 0xFF

(* wInfo and caps of the class; the lines of endings its stems come with, form *)
(* by form, none for a fixed stem; the byte behind wInfo in classBox           *)
Class == [type: 0 .. 127, minCap: 0 .. 2, forms: Seq(SUBSET Texts), behind: 0 .. 255]

(* wfSuffix and wfPostSt are frag and post # <<>>; lids is the size of the     *)
(* lexeme less one                                                             *)
Stem == [class: 0 .. 4095, lids: 0 .. 3, frag: Texts, post: Texts, lex: Nat \ {0}]

ASSUME EngAssumption ==
  /\ DOMAIN Classes \subseteq 0 .. 4095 /\ \A c \in DOMAIN Classes : Classes[c] \in Class
  /\ WordMax \in Nat
  /\ \A d \in Dicts : \A p \in DOMAIN d.pages :
       d.pages[p][<<>>].kind = "node" /\ d.pages[p][<<>>].kids # <<>> /\ d.pages[p][<<>>].back = Top
  /\ \A d \in Dicts : \A p \in DOMAIN d.pages : \A n \in DOMAIN d.pages[p] :
       \/ /\ d.pages[p][n].kind = "frag" /\ d.pages[p][n].text \in Texts
          /\ d.pages[p][d.pages[p][n].list].back = n
       \/ /\ d.pages[p][n].kind = "node"
          /\ \A i \in DOMAIN d.pages[p][n].kids :
               /\ d.pages[p][d.pages[p][n].kids[i].to].back = n
               /\ \A j \in 1 .. i - 1 : d.pages[p][n].kids[j].char < d.pages[p][n].kids[i].char
       \/ d.pages[p][n].kind = "list" /\ d.pages[p][n].stems \in Seq(Stem)

-------------------------------------------------------------------------------
(* Capitals. *)

UNDEFINED == 1
ERROR_CAP == 6

(* capMatrix: the states are UNDEFINED, ALL_SMALL, FIRST_CAP, WORD_CAPS,       *)
(* FIRST_WAS and ERROR_CAP, one more than in the code                          *)
capMatrix ==
  <<[capital |-> 5, regular |-> 2, delimiter |-> 6, invalid |-> 6],
    [capital |-> 6, regular |-> 2, delimiter |-> 2, invalid |-> 6],
    [capital |-> 6, regular |-> 3, delimiter |-> 3, invalid |-> 6],
    [capital |-> 4, regular |-> 6, delimiter |-> 4, invalid |-> 6],
    [capital |-> 4, regular |-> 3, delimiter |-> 4, invalid |-> 6],
    [capital |-> 6, regular |-> 6, delimiter |-> 6, invalid |-> 6]>>

(* charTypeMatrix *)
CharType(c) ==
  CASE c \in 65 .. 90 -> "capital"
    [] c \in 97 .. 122 \cup {39, 44} -> "regular"
    [] c \in {Nul, Hyphen} -> "delimiter"
    [] OTHER -> "invalid"

(* toLoCaseMatrix and toUpCaseMatrix, as far as letters of words go *)
Lower(c) == IF c \in 65 .. 90 THEN c + 32 ELSE c
Upper(c) == IF c \in 97 .. 122 THEN c - 32 ELSE c

PartOf(w, i) == Cardinality({j \in 1 .. i - 1 : w[j] = Hyphen})

Part(w, p) == LET inPart == {i \in DOMAIN w : w[i] # Hyphen /\ PartOf(w, i) = p}
              IN [k \in 1 .. Cardinality(inPart) |-> w[MinOf(inPart) + k - 1]]

(* a hyphen at the end begins no part *)
Parts(w) ==
  LET n == PartOf(w, Len(w) + 1)
  IN IF w = <<>> THEN 0 ELSE IF w[Len(w)] = Hyphen THEN n ELSE n + 1

GetFragmentCapScheme(part) ==
  capMatrix[FoldLeft(LAMBDA state, c : capMatrix[state][CharType(c)], UNDEFINED, part)].delimiter

(* the word in small letters, and 0 for one that is written in no known way *)
GetCapScheme(w) ==
  LET of(p) == GetFragmentCapScheme(Part(w, p))
      bits == FoldLeft(LAMBDA all, p : all | ((of(p - 1) - 2) * 4 ^ (p - 1)), 0,
                       [p \in 1 .. Parts(w) |-> p])
  IN [text |-> [i \in DOMAIN w |-> Lower(w[i])],
      scheme |-> IF \E p \in 0 .. Parts(w) - 1 : of(p) = ERROR_CAP THEN 0
                 ELSE bits | (Parts(w) * 256)]

TooLong(w) == Len(w) >= WordMax

(* the count of parts is never counted down: the bits of a fifth part are     *)
(* those of the count                                                          *)
SetCapScheme(w, scheme) ==
  [i \in DOMAIN w |->
     LET bits  == (scheme \div 4 ^ PartOf(w, i)) % 4
         first == i = 1 \/ w[i - 1] = Hyphen
     IN IF bits >= 2 \/ (bits = 1 /\ first) THEN Upper(w[i]) ELSE w[i]]

(* with as many parts as the word asked about had, or as the text has *)
GetMinScheme(asked, minCap, w) ==
  LET nparts == IF asked = 0 THEN PartOf(w, Len(w) + 1) + 1 ELSE asked
  IN CASE nparts = 1 -> 256 + minCap
       [] nparts = 2 -> 512 + minCap + 4 * minCap
       [] nparts = 3 -> 768 + minCap + 16 * minCap + (IF minCap = 2 THEN 8 ELSE 0)
       [] OTHER -> 256

GoodMin2 == {258, 522, 810}                       \* 0x0102 0x020A 0x032A
GoodMin1 == {257, 517, 785} \cup GoodMin2         \* 0x0101 0x0205 0x0311
GoodMin0 == {256, 512, 768, 513, 769} \cup GoodMin1

IsGoodSheme(scheme, minCap) == scheme \in <<GoodMin0, GoodMin1, GoodMin2>>[minCap + 1]

-------------------------------------------------------------------------------
(* Stems and their endings. *)

ClassOf(s) == Classes[s.class]

(* altered: the endings of a table are not sorted *)
AddTableUnsorted(forms) ==
  FlattenSeq([f \in DOMAIN forms |->
                SetToSeq({[form |-> f - 1, text |-> t] : t \in forms[f]})])

(* CFlexBox::AddTable: the endings of a line, sorted by their text; of equal  *)
(* ones, whose order the sort leaves open, the lesser form first               *)
AddTable(forms) ==
  SetToSortSeq(UNION {{[form |-> f - 1, text |-> t] : t \in forms[f]} : f \in DOMAIN forms},
               LAMBDA a, b : Before(a.text, b.text) \/ (a.text = b.text /\ a.form < b.form))

TableOf == [c \in DOMAIN Classes |-> AddTable(Classes[c].forms)]

Table(s) == TableOf[s.class]

Inflects(s) == ClassOf(s).forms # <<>>

Skip(str, n) == SubSeq(str, n + 1, Len(str))

(* memcmp over the shorter of the two says a is behind b *)
Behind(a, b) ==
  LET n == IF Len(a) < Len(b) THEN Len(a) ELSE Len(b)
  IN Before(SubSeq(b, 1, n), SubSeq(a, 1, n))

(* altered: an ending is enough, whatever follows it *)
FlexCompAny(table, str, post) ==
  SelectSeq(table, LAMBDA x : IsPrefix(x.text, str))

(* the forms whose ending, with the postfix, is the rest of the word; the      *)
(* table is left at the first ending behind it                                 *)
FlexComp(table, str, post) ==
  LET reached == {i \in DOMAIN table : \A j \in 1 .. i : ~Behind(table[j].text, str)}
  IN SelectSeq(SubSeq(table, 1, Cardinality(reached)), LAMBDA x : x.text \o post = str)

FormsIn(hits) == [k \in DOMAIN hits |-> hits[k].form]

MayBeWritten(s, how) == "ignore" \in how.flags \/ IsGoodSheme(how.scheme, ClassOf(s).minCap)

(* StemComp gave -1: no stem of the list from here on may match *)
StemStops(s, str, how) ==
  MayBeWritten(s, how) /\ (Behind(s.frag, str) \/ IsStrictPrefix(str, s.frag))

(* the forms StemComp finds; a fixed stem is compared without its postfix *)
StemForms(s, str, how) ==
  LET rest == Skip(str, Len(s.frag))
  IN IF ~MayBeWritten(s, how) \/ ~IsPrefix(s.frag, str) THEN <<>>
     ELSE IF Inflects(s) THEN FormsIn(FlexComp(Table(s), rest, s.post))
     ELSE IF rest = <<>> THEN <<NonFlective>> ELSE <<>>

-------------------------------------------------------------------------------
(* The scan of a word. *)

(* what the actor is called with: the stem, how much of the word is before it  *)
ScanList(list, str, at, how) ==
  LET reached == {i \in DOMAIN list : \A j \in 1 .. i : ~StemStops(list[j], str, how)}
      stems == SubSeq(list, 1, Cardinality(reached))
      hits == SelectSeq(stems, LAMBDA s : StemForms(s, str, how) # <<>>)
  IN [k \in DOMAIN hits |->
        [stem |-> hits[k], at |-> at, forms |-> StemForms(hits[k], str, how)]]

(* the end of the word reads as the character 0 *)
Char(str) == IF str = <<>> THEN Nul ELSE str[1]

(* altered: only the child of the next character is tried *)
ChildrenFor(node, str) == SelectSeq(node.kids, LAMBDA k : k.char = Char(str))

Children(node, str) == SelectSeq(node.kids, LAMBDA k : k.char \in {Char(str), Nul})

RECURSIVE ScanPage(_, _, _, _, _)
ScanPage(page, n, str, at, how) ==
  LET node == page[n]
      below(k) == IF k.char = Nul THEN ScanList(page[k.to].stems, str, at, how)
                  ELSE ScanPage(page, k.to, Tail(str), at + 1, how)
      falling == Reverse(Children(node, str))
  IN IF node.kind = "frag"
       THEN IF IsPrefix(node.text, str)
              THEN ScanList(page[node.list].stems, Skip(str, Len(node.text)),
                            at + Len(node.text), how)
              ELSE <<>>
       ELSE FlattenSeq([k \in DOMAIN falling |-> below(falling[k])])

Root == <<>>

(* CPageMan::FindPage: the words of a page begin with one of its characters, *)
(* or its root holds a list                                                  *)
MayBeOn(page, c) ==
  LET kids == page[Root].kids
  IN kids[1].char = Nul \/ c \in kids[1].char .. kids[Len(kids)].char

(* the calls the actor gets, the last page first *)
ScanDictionary(dict, str, how) ==
  LET pages == Reverse(SelectSeq(dict.pages, LAMBDA page : MayBeOn(page, Char(str))))
  IN FlattenSeq([p \in DOMAIN pages |-> ScanPage(pages[p], Root, str, 0, how)])

-------------------------------------------------------------------------------
(* The jump to a lexeme. *)

(* what stands on the way from the root to the child of node n *)
RECURSIVE BuildStemDownUp(_, _, _)
BuildStemDownUp(page, n, child) ==
  LET node == page[n]
      kid == CHOOSE k \in ToSet(node.kids) : k.to = child
      here == IF node.kind = "frag" THEN node.text
              ELSE IF kid.char = Nul THEN <<>> ELSE <<kid.char>>
  IN (IF node.back = Top THEN <<>> ELSE BuildStemDownUp(page, node.back, n)) \o here

(* CLIDsMan::FindPage, and what the index has there: page 0 is none *)
LidsRef(dict, lex) ==
  {dict.lids[p][lex] : p \in {q \in DOMAIN dict.lids : lex \in DOMAIN dict.lids[q]}}

(* the text of the list, and the calls the actor gets *)
DirectPageJump(dict, lex) ==
  LET refs == {r \in LidsRef(dict, lex) : r.page # 0}
  IN IF refs = {} THEN [word |-> <<>>, calls |-> <<>>]
     ELSE LET ref  == CHOOSE r \in refs : TRUE
              page == dict.pages[ref.page]
              text == BuildStemDownUp(page, page[ref.list].back, ref.list)
              same == SelectSeq(page[ref.list].stems, LAMBDA s : s.lex = lex)
          IN [word |-> text,
              calls |-> [k \in DOMAIN same |->
                           [stem |-> same[k], at |-> Len(text), forms |-> <<>>]]]
===============================================================================
