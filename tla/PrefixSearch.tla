----------------------------- MODULE PrefixSearch -----------------------------
(***************************************************************************)
(* What LinearScanDict promises to the actors it calls: for a word it asks *)
(* about every stem the word begins with, the longest first, each with the *)
(* number of characters that are left behind it, until one is accepted;    *)
(* then it answers with that one, else with none.                          *)
(***************************************************************************)
EXTENDS Integers, Sequences

CONSTANTS Words,      \* the words that may be looked up
          Keys,       \* the stems there may be
          NoStem      \* the answer when no stem was accepted

VARIABLES stems,      \* the stems of the dictionary
          looking,    \* a word is being looked up
          word,       \* that word
          asked,      \* the stem asked about last, NoStem before the first
          left,       \* the characters of the word behind it
          answer      \* the stem accepted, or NoStem

vars == <<stems, looking, word, asked, left, answer>>

Begins(stem) == Len(stem) <= Len(word) /\ SubSeq(word, 1, Len(stem)) = stem

(* the stems that are still to be asked about *)
Candidates ==
  {s \in stems : Begins(s) /\ (asked # NoStem => Len(s) < Len(asked))}

Init ==
  /\ stems = {} /\ looking = FALSE
  /\ word = <<>> /\ asked = NoStem /\ left = 0 /\ answer = NoStem

(* the dictionary grows while no word is looked up *)
Learn ==
  /\ ~looking
  /\ \E s \in Keys : stems' = stems \cup {s}
  /\ UNCHANGED <<looking, word, asked, left, answer>>

Look ==
  /\ ~looking /\ looking' = TRUE
  /\ word' \in Words
  /\ asked' = NoStem /\ left' = 0 /\ answer' = NoStem
  /\ UNCHANGED stems

(* the longest stem not asked about yet; accepting it ends the search *)
Ask ==
  /\ looking
  /\ \E s \in Candidates :
       /\ \A t \in Candidates : Len(t) <= Len(s)
       /\ asked' = s /\ left' = Len(word) - Len(s)
       /\ \/ answer' = s /\ looking' = FALSE
          \/ UNCHANGED <<answer, looking>>
  /\ UNCHANGED <<stems, word>>

GiveUp ==
  /\ looking /\ Candidates = {}
  /\ looking' = FALSE
  /\ UNCHANGED <<stems, word, asked, left, answer>>

Next == Learn \/ Look \/ Ask \/ GiveUp

SafeSpec == Init /\ [][Next]_vars

Spec == SafeSpec /\ WF_vars(Ask \/ GiveUp)
===============================================================================
