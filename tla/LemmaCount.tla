------------------------------ MODULE LemmaCount ------------------------------
(***************************************************************************)
(* What the caller of IMlmaMb::Lemmatize is promised about the answer: it  *)
(* is the number of lexemes found for the word, a lexeme met twice in a    *)
(* row counting once when the caller keeps the descriptions, or the code   *)
(* of the one failure that ended the call.  Nothing is found after a       *)
(* failure.  Buffers, normal forms and grammar are invisible here.         *)
(***************************************************************************)
EXTENDS Integers

CONSTANTS Lexemes,    \* lexeme identifiers
          None,       \* no lexeme yet
          Failures,   \* the codes a full buffer is reported with
          Refusals    \* the answers to a word that is not looked up at all

VARIABLES open,       \* a call is being served
          keeps,      \* the caller keeps the descriptions
          count,      \* lexemes counted so far
          last,       \* the lexeme counted last, when descriptions are kept
          failed,     \* 0, or the failure that stopped the search
          answer      \* what the last finished call returned

vars == <<open, keeps, count, last, failed, answer>>

Init ==
  /\ open = FALSE /\ keeps = FALSE
  /\ count = 0 /\ last = None
  /\ failed = 0 /\ answer = 0

Begin ==
  /\ ~open /\ open'
  /\ keeps' \in BOOLEAN
  /\ count' = 0 /\ last' = None /\ failed' = 0
  /\ UNCHANGED answer

Refuse ==
  /\ ~open
  /\ answer' \in Refusals
  /\ UNCHANGED <<open, keeps, count, last, failed>>

Find(id) ==
  /\ open /\ failed = 0
  /\ ~(keeps /\ last = id)
  /\ count' = count + 1
  /\ last' = IF keeps THEN id ELSE None
  /\ UNCHANGED <<open, keeps, failed, answer>>

Fail ==
  /\ open /\ failed = 0
  /\ failed' \in Failures
  /\ UNCHANGED <<open, keeps, count, last, answer>>

Finish ==
  /\ open /\ ~open'
  /\ answer' = IF failed # 0 THEN failed ELSE count
  /\ UNCHANGED <<keeps, count, last, failed>>

Next ==
  \/ Begin \/ Refuse \/ Fail \/ Finish
  \/ \E id \in Lexemes : Find(id)

Spec == Init /\ [][Next]_vars
===============================================================================
