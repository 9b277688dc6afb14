------------------------------ MODULE StemEntries ------------------------------
(***************************************************************************)
(* The entries the builder stores for the stems that end at a node of      *)
(* the dictionary tree (ResolveRus::entry_type): what a stem may have, the *)
(* bounds chrmin and chrmax computed for it, and the order of a list.      *)
(*                                                                         *)
(* A stem may be fixed or inflect by a set of endings, each with its       *)
(* meaning: the number of the form, whether it is plural, and the level of *)
(* the stem's alternation it goes with.  It may have alternations: rows of *)
(* letters between the stem and the ending, ascending, each for some       *)
(* levels.  It may have a postfix ("-то").  Letters are character codes.   *)
(***************************************************************************)
EXTENDS Integers, Sequences, SequencesExt

Texts == Seq(1 .. 255)

Ending == [text: Texts, form: 0 .. 254, level: 1 .. 3, plural: BOOLEAN]
MixRow == [text: Texts, levels: SUBSET (1 .. 3)]

(* entry_type with its class resolved; low and high are the bounds of the table *)
(* of endings as GetMinMaxChar finds them                                       *)
StemEntry == [lex: Nat, post: Texts, endings: SUBSET Ending, low: 0 .. 255, high: 0 .. 255,
              mix: Seq(MixRow), multiple: BOOLEAN, minCap: 0 .. 2]

(* strcmp, and the order addstep of makeich keeps the rows in *)
Before(a, b) ==
  \E n \in 0 .. Len(a) :
    /\ n < Len(b) /\ SubSeq(a, 1, n) = SubSeq(b, 1, n)
    /\ n = Len(a) \/ a[n + 1] < b[n + 1]

First(text) == IF text = <<>> THEN 0 ELSE text[1]

MinOf(S) == CHOOSE x \in S : \A y \in S : x <= y
MaxOf(S) == CHOOSE x \in S : \A y \in S : x >= y

FlexChars(e) == {First(x.text) : x \in e.endings}
MixChars(e) == {First(e.mix[i].text) : i \in DOMAIN e.mix}

Flective(e) == e.endings # {}
Mixes(e) == Flective(e) /\ e.mix # <<>>

ChrMin(e) ==
  IF ~Flective(e) THEN 0
  ELSE IF Mixes(e) /\ MinOf(MixChars(e)) # 0 THEN MinOf(MixChars(e))
  ELSE e.low

ChrMax(e) ==
  IF ~Flective(e) THEN 0
  ELSE IF Mixes(e) /\ MaxOf(MixChars(e)) > 0 THEN MaxOf(MixChars(e))
  ELSE e.high

(* entry_type::compare *)
Less(a, b) ==
  \/ ChrMax(a) > ChrMax(b)
  \/ /\ ChrMax(a) = ChrMax(b)
     /\ \/ ChrMin(a) < ChrMin(b)
        \/ /\ ChrMin(a) = ChrMin(b)
           /\ Before(a.post, b.post) \/ (a.post = b.post /\ a.lex < b.lex)

(* altered: the new stem goes behind the first one only if it is not greater *)
InsertPlaceFirst(l, e) == IF l # <<>> /\ Less(l[1], e) THEN 2 ELSE 1

InsertPlace(l, e) ==
  MinOf({i \in 1 .. Len(l) + 1 : i = Len(l) + 1 \/ ~Less(l[i], e)})

(* the rows of a stem without alternations are one empty row for every level *)
Alternations(e) ==
  IF Mixes(e) THEN {e.mix[i] : i \in DOMAIN e.mix} ELSE {[text |-> <<>>, levels |-> 1 .. 3]}

(* alternations with an empty row, when the bounds of the rows or those of the *)
(* endings are not within the other's: ChrMin and ChrMax do not cover them all *)
BoundsLost(e) ==
  /\ 0 \in MixChars(e)
  /\ \/ MaxOf(MixChars(e)) \in 1 .. MaxOf(FlexChars(e)) - 1
     \/ \E c \in MixChars(e) \ {0} : c < MinOf(FlexChars(e))

(* endings outside the bounds of their table: behind an optional link, which   *)
(* GetMinMaxChar does not follow                                               *)
Uncovered(e) == \E c \in FlexChars(e) : c \notin e.low .. e.high
===============================================================================
