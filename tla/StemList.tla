------------------------------- MODULE StemList -------------------------------
(***************************************************************************)
(* The stems that end at one node of the dictionary tree: how buildmorph   *)
(* keeps them ordered (tools/buildmorph.h, rus/buildic) and how listLookup *)
(* goes through them for the rest of a word (xmorph/scanlist.h).  The      *)
(* reader stops at the first stem whose endings cannot reach the rest,     *)
(* trusting the order and the bounds chrmin and chrmax the builder wrote.  *)
(***************************************************************************)
EXTENDS StemEntries

CONSTANTS Stems,       \* the stems of the dictionary, with the node each ends at
          Rests,       \* what may be left of a word
          MaxEntries   \* bound: stems in the list

Entries == {s.entry : s \in Stems}

ASSUME StemsAssumption ==
  /\ \A s \in Stems : s.at \in Texts /\ s.entry \in StemEntry
  /\ Rests \subseteq Texts
  /\ MaxEntries \in Nat

ASSUME RowsAscend ==
  \A e \in Entries : \A i, j \in DOMAIN e.mix :
    i < j => Before(e.mix[i].text, e.mix[j].text)

(* A postfix begins with a letter (the hyphen of "-то", "-нибудь") that no      *)
(* ending and no row has: so it is in every line of rus/dict and rus/tables.   *)
ASSUME PostsApart ==
  \A e \in Entries : e.post # <<>> =>
    \A text \in {x.text : x \in e.endings} \cup {e.mix[i].text : i \in DOMAIN e.mix} :
      Head(e.post) \notin Range(text)

VARIABLES
  node,      \* the letters that lead to the node
  list,      \* the stems of the node
  pc,        \* "build", "idle", "entry", "row", "done"
  rest,      \* thestr, cchstr
  good,      \* the MinCapSchemes the word's capitals are good for
  once,      \* the actor stops at the first stem (CheckWord)
  pos, row,  \* the entry and the alternation looked at
  calls,     \* the calls of InsertStem
  answer     \* what the last lookup returned

vars == <<node, list, pc, rest, good, once, pos, row, calls, answer>>

-------------------------------------------------------------------------------
(* The builder. *)

Insert ==
  /\ pc = "build" /\ Len(list) < MaxEntries
  /\ \E s \in Stems :
       /\ list = <<>> \/ s.at = node
       /\ s.entry \notin Range(list)
       /\ node' = s.at
       /\ list' = InsertAt(list, InsertPlace(list, s.entry), s.entry)
  /\ UNCHANGED <<pc, rest, good, once, pos, row, calls, answer>>

(* the dictionary is written: its lists never change any more *)
Save ==
  /\ pc = "build" /\ pc' = "idle"
  /\ UNCHANGED <<node, list, rest, good, once, pos, row, calls, answer>>

-------------------------------------------------------------------------------
(* The reader. *)

Look ==
  /\ pc = "idle" /\ pc' = "entry"
  /\ rest' \in Rests /\ good' \in {{0}, {0, 1, 2}, {}} /\ once' \in BOOLEAN
  /\ pos' = 1
  /\ UNCHANGED <<node, list, row, calls, answer>>

(* listLookup has returned to the scan of the tree *)
Return ==
  /\ pc = "done" /\ pc' = "idle"
  /\ rest' = <<>> /\ good' = {} /\ once' = FALSE
  /\ pos' = 0 /\ row' = 0 /\ calls' = <<>> /\ answer' = 0
  /\ UNCHANGED <<node, list>>

Leave(a) == pc' = "done" /\ answer' = a /\ UNCHANGED <<pos, row>>

(* altered: the entry is looked at again *)
ContinueHere == pc' = "entry" /\ UNCHANGED <<pos, row, answer>>

Continue == pc' = "entry" /\ pos' = pos + 1 /\ row' = 0 /\ UNCHANGED answer

ThisEntry(e) == pc = "entry" /\ pos <= Len(list) /\ e = list[pos]

EndsWithPost(e) == IsSuffix(e.post, rest)

(* ccflex: what is left for the ending when the postfix is taken off *)
Flex(e) == SubSeq(rest, 1, Len(rest) - Len(e.post))

(* altered: the scan stops at the lower bound too *)
CutsAnyhow(e) == Flex(e) # <<>> /\ (rest[1] > ChrMax(e) \/ rest[1] < ChrMin(e))

Cuts(e) == Flex(e) # <<>> /\ rest[1] > ChrMax(e)

Passes(e) == EndsWithPost(e) /\ (Flex(e) # <<>> => rest[1] \in ChrMin(e) .. ChrMax(e))

(* altered: the level of the alternation is not looked at *)
FoundAtAnyLevel(e, text, levels) ==
  {x \in e.endings : x.text = text /\ (e.multiple => x.plural)}

(* FilterGram over the element found in the table of endings *)
Found(e, text, levels) ==
  {x \in e.endings : x.text = text /\ (e.multiple => x.plural) /\ x.level \in levels}

(* the actor is called; what it returns decides whether the lookup goes on *)
InsertStem(e, forms, goOn) ==
  /\ calls' = Append(calls, [lex |-> e.lex, post |-> e.post, forms |-> forms])
  /\ IF once THEN Leave(1) ELSE goOn

NotCalled == UNCHANGED calls

OtherPost ==
  \E e \in Range(list) : ThisEntry(e) /\ ~EndsWithPost(e) /\ Continue /\ NotCalled

Cut ==
  \E e \in Range(list) : ThisEntry(e) /\ EndsWithPost(e) /\ Cuts(e) /\ Leave(0) /\ NotCalled

TooEarly ==
  \E e \in Range(list) : ThisEntry(e) /\ EndsWithPost(e) /\ ~Cuts(e) /\ ~Passes(e)
                     /\ Continue /\ NotCalled

WrongCaps ==
  \E e \in Range(list) : ThisEntry(e) /\ Passes(e) /\ e.minCap \notin good /\ Continue /\ NotCalled

Entry(e) == ThisEntry(e) /\ Passes(e) /\ e.minCap \in good

Fixed ==
  \E e \in Range(list) :
    /\ Entry(e) /\ ~Flective(e)
    /\ IF Flex(e) = <<>> THEN InsertStem(e, {}, Continue) ELSE Continue /\ NotCalled

Plain ==
  \E e \in Range(list) :
    /\ Entry(e) /\ Flective(e) /\ ~Mixes(e)
    /\ LET forms == Found(e, Flex(e), 1 .. 3)
       IN IF forms # {} THEN InsertStem(e, forms, Continue) ELSE Continue /\ NotCalled

Mixed ==
  \E e \in Range(list) :
    /\ Entry(e) /\ Mixes(e)
    /\ pc' = "row" /\ row' = 1
    /\ UNCHANGED <<pos, answer>> /\ NotCalled

(* altered: the row behind the last one is looked at too *)
NextRowLate ==
  IF row <= Len(list[pos].mix) THEN row' = row + 1 /\ UNCHANGED <<pc, pos, answer>> ELSE Continue

NextRow ==
  IF row < Len(list[pos].mix) THEN row' = row + 1 /\ UNCHANGED <<pc, pos, answer>> ELSE Continue

(* rescmp > 0: the row is behind the rest of the word *)
RowStops(r) == Before(rest, r)

(* A row of the alternations; the postfix is not taken off here. *)
LookAtRow ==
  /\ pc = "row"
  /\ LET e == list[pos]
         r == e.mix[row]
         forms == Found(e, SubSeq(rest, Len(r.text) + 1, Len(rest)), r.levels)
     IN IF RowStops(r.text) THEN Continue /\ NotCalled
        ELSE IF ~IsPrefix(r.text, rest) \/ forms = {} THEN NextRow /\ NotCalled
        ELSE InsertStem(e, forms, NextRow)

EndOfList == pc = "entry" /\ pos > Len(list) /\ Leave(0) /\ NotCalled

Step ==
  /\ OtherPost \/ Cut \/ TooEarly \/ WrongCaps \/ Fixed \/ Plain \/ Mixed \/ LookAtRow
     \/ EndOfList
  /\ UNCHANGED <<node, list, rest, good, once>>

Init ==
  /\ node = <<>> /\ list = <<>> /\ pc = "build"
  /\ rest = <<>> /\ good = {} /\ once = FALSE
  /\ pos = 0 /\ row = 0 /\ calls = <<>> /\ answer = 0

Next == Insert \/ Save \/ Look \/ Step \/ Return

Spec == Init /\ [][Next]_vars /\ WF_vars(Step)

-------------------------------------------------------------------------------

(* The list and the lookup stay within their types. *)
ListTypeOK ==
  /\ node \in Texts /\ list \in Seq(Entries) /\ Len(list) <= MaxEntries
  /\ pc \in {"build", "idle", "entry", "row", "done"}
  /\ rest \in Rests \cup {<<>>} /\ good \subseteq 0 .. 2 /\ once \in BOOLEAN
  /\ pos \in 0 .. MaxEntries + 1
  /\ row \in Nat /\ (pc = "row" => row \in DOMAIN list[pos].mix)
  /\ calls \in Seq([lex: Nat, post: Texts, forms: SUBSET Ending]) /\ answer \in {0, 1}

(* The bound the reader stops at only falls along the list, and of two stems   *)
(* with the same bound the one whose endings begin earlier comes first: what   *)
(* the break at scanlist.h:96-97 needs of buildmorph.h:187-190.                *)
BoundsFall ==
  \A i, j \in DOMAIN list :
    i < j => /\ ChrMax(list[i]) >= ChrMax(list[j])
             /\ ChrMax(list[i]) = ChrMax(list[j]) => ChrMin(list[i]) <= ChrMin(list[j])

(* The ways a rest can be read as one of a stem's forms, by the grammar: an    *)
(* alternation, an ending of its level, the postfix; nothing of the order, the *)
(* bounds or the prefix comparisons of the code.                               *)
Forms(e, r) ==
  {x \in e.endings : /\ rest = r.text \o x.text \o e.post
                     /\ e.multiple => x.plural
                     /\ x.level \in r.levels}

Reads(e) ==
  IF e.minCap \notin good THEN {}
  ELSE IF ~Flective(e)
         THEN IF rest = e.post THEN {[lex |-> e.lex, post |-> e.post, forms |-> {}]} ELSE {}
         ELSE {[lex |-> e.lex, post |-> e.post, forms |-> Forms(e, r)] :
                 r \in {s \in Alternations(e) : Forms(e, s) # {}}}

(* Where the code does lose a stem; no stem of the dictionary is one of these: *)
(* a postfix after alternations (the rows compare with the postfix still on);  *)
(* a rest that is the postfix alone, behind a stem whose endings begin below   *)
(* the postfix (it cuts the scan); alternations with an empty row, when the    *)
(* bounds of rows or endings are not within the other's; endings outside the   *)
(* bounds of their own table.                                                  *)
CutBefore(i) ==
  \E j \in 1 .. i - 1 :
    /\ IsSuffix(list[j].post, list[i].post) /\ list[j].post # list[i].post
    /\ ChrMax(list[j]) < First(list[i].post)

Losable(i) ==
  \/ list[i].post # <<>> /\ Mixes(list[i])
  \/ CutBefore(i)
  \/ Mixes(list[i]) /\ BoundsLost(list[i])
  \/ Uncovered(list[i])

(* Every call is a reading of a stem that really reads the rest so, the stems  *)
(* are told in the order of the list, and no reading of a stem is told twice:  *)
(* its rows, taken off the same rest, leave different endings                  *)
(* (scanlist.h:92-172).                                                        *)
CallsAreReadings ==
  \E of \in [DOMAIN calls -> DOMAIN list] :
    /\ \A k \in DOMAIN calls : calls[k] \in Reads(list[of[k]])
    /\ \A j, k \in DOMAIN calls :
         j < k => of[j] < of[k] \/ (of[j] = of[k] /\ calls[j] # calls[k])

(* An actor that wants every stem is given every reading of the rest; one that *)
(* stops at the first is given one if there is any.                            *)
NoneLost ==
  pc = "done" =>
    LET sure == UNION {Reads(list[i]) : i \in {j \in DOMAIN list : ~Losable(j)}}
        told == {calls[k] : k \in DOMAIN calls}
    IN IF once THEN sure # {} => answer = 1 ELSE sure \subseteq told /\ answer = 0

(* Every lookup ends: each step passes an entry or a row. *)
LookupEnds == pc = "entry" ~> pc = "done"
===============================================================================
