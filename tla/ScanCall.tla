------------------------------- MODULE ScanCall -------------------------------
(***************************************************************************)
(* A tree, the words that are looked up in it and the actors that are      *)
(* asked: what the scan on bytes (DictScan) and the scan on nodes          *)
(* (TreeScan) have in common.  The dictionary is first built, key by key,  *)
(* and saved; a saved one never changes.                                   *)
(*                                                                         *)
(* Two trees, each with its actor.  Of the stems, any: it may accept or    *)
(* refuse what it is asked.  Of the lexeme index, the one of BuildForm: it *)
(* accepts an element when no characters are left.  Keys of the index may  *)
(* hold the character 0, which is also what the scan looks for when no     *)
(* characters are left; stems are texts and hold none.                     *)
(***************************************************************************)
EXTENDS WordTree

CONSTANTS KeysOf,     \* the keys of the index (TRUE) and of the stem tree (FALSE)
          Words,      \* Words[index]: the index keys, or words, looked up
          SizeMod,    \* how many values a size_t has
          NoStem      \* no element was offered, or none accepted

ASSUME WordsAssumption ==
  /\ KeysOf \in [BOOLEAN -> SUBSET Keys]
  /\ Words \in [BOOLEAN -> SUBSET Seq(0 .. 255)]
  /\ SizeMod \in Nat \ {0}
  /\ \A b \in BOOLEAN : \A w \in Words[b] \cup KeysOf[b] : Len(w) < SizeMod

ASSUME StemsAreTexts == \A k \in KeysOf[FALSE] : \A i \in 1 .. Len(k) : k[i] # 0

ASSUME NoStemAssumption == NoStem \notin Keys

VARIABLES
  index,     \* the tree is the index of lexemes, not that of the stems
  pc,        \* "build", "saved", "scan"
  word,      \* the word looked up
  asked,     \* whose element was offered last, or NoStem
  left,      \* and the cchstr it was offered with
  answer     \* whose element was accepted, or NoStem

-------------------------------------------------------------------------------

(* what stands at thestr: a character of the word, or whatever is in memory    *)
(* behind its end                                                              *)
At(w, str) == IF str < Len(w) THEN {w[str + 1]} ELSE Chars \cup {0}

(* chfind of a level *)
Sought(w, str, cch) == IF cch > 0 THEN At(w, str) ELSE {0}

(* altered: the index accepts whatever it is offered *)
AcceptsAny(cch) == IF index THEN {TRUE} ELSE BOOLEAN

(* what the actor may answer: true is "not zero" *)
Accepts(cch) == IF index THEN {cch = 0} ELSE BOOLEAN

(* a step of DictReader, or of CreateDict for the index *)
Grow ==
  /\ pc = "build"
  /\ \/ \E key \in KeysOf[index] : Insert(key)
     \/ Descend
     \/ Store

-------------------------------------------------------------------------------

(* A lookup in the index comes out at the key looked up and nowhere else, even *)
(* where a longer key goes on with zeros and the scan follows it beyond the    *)
(* end of the key in memory that was never written (mlmamain.cpp:244-249).     *)
ExactLookup ==
  index /\ pc = "saved" /\ word # <<>> => answer = IF word \in known THEN word ELSE NoStem
===============================================================================
