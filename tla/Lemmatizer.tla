------------------------------ MODULE Lemmatizer ------------------------------
(***************************************************************************)
(* CMlmaMb::Lemmatize and the actor it hands to the dictionary scan,       *)
(* doLemmatize (xmorph/lemmatiz.cpp).  The scan calls InsertStem once for  *)
(* each stem of the dictionary that explains the word; the actor fills     *)
(* three arrays of the caller, each of which may be too short or absent:   *)
(*   plemma  the descriptions of the lexemes,                              *)
(*   pforms  their normal forms, zero-terminated, one after the other,     *)
(*   pgrams  the grammatical meanings, each description naming a range.    *)
(* Array positions are offsets from the start of the array.  A normal form *)
(* is its place in pforms; a meaning is the lexeme it was written for and  *)
(* its form identifier (the idForm MapWordInfo computes).  Which stems the *)
(* scan finds, and in which order, is left open: any finite sequence.      *)
(***************************************************************************)
EXTENDS Integers, Sequences

CONSTANTS Lexemes,     \* lexeme identifiers
          FormSizes,   \* lengths a normal form may have, in characters
          FlexLists,   \* the lists of form identifiers a stem may be found with
          LemmaCaps,   \* sizes of the plemma array the caller may pass
          FormCaps,    \* sizes of the pforms array, in bytes
          GramCaps,    \* sizes of the pgrams array
          Wide,        \* bytes a character takes when encode is not 1251
          MaxHits,     \* bound: stems found for one word
          None         \* no lexeme (used by the abstraction only)

NoBuffer == -1         \* the nullptr the caller may pass for an array

LEMMBUFF_FAILED == -1
LIDSBUFF_FAILED == -2
GRAMBUFF_FAILED == -3
WORDBUFF_FAILED == -4

ASSUME SizesAssumption ==
  /\ LemmaCaps \subseteq Nat \cup {NoBuffer}
  /\ FormCaps \subseteq Nat \cup {NoBuffer}
  /\ GramCaps \subseteq Nat \cup {NoBuffer}
  /\ FormSizes \subseteq Nat
  /\ Wide \in Nat \ {0}
  /\ MaxHits \in Nat

ASSUME FlexAssumption ==       \* InsertStem is called with fcount >= 1
  FlexLists \subseteq Seq(Nat) \ {<<>>}

ASSUME NoneAssumption == None \notin Lexemes

VARIABLES
  pc,        \* "idle" between two calls, "scan" while the dictionary is scanned
  caps,      \* the sizes of the caller's arrays in this call
  narrow,    \* the output encoding is 1251: forms are copied, not converted
  lemma,     \* the registered descriptions: plemma[0], plemma[1], ...
  nlemma,    \* doLemmatize::nlemma
  pforms,    \* bytes of the forms array used so far
  grams,     \* the meanings written so far
  slots,     \* descriptions of the caller's array stored to, 1 + the last index
  nerror,    \* doLemmatize::nerror
  nhits,     \* stems found so far (bounded by MaxHits)
  result     \* what the last finished call returned

vars == <<pc, caps, narrow, lemma, nlemma, pforms, grams, slots, nerror, nhits,
          result>>

Hits == [lex: Lexemes, size: FormSizes, flexes: FlexLists]

-------------------------------------------------------------------------------

Given(array) == caps[array] # NoBuffer

(* altered: a description written last is looked for from the second on only *)
MergesLate(h) == Given("lemmas") /\ nlemma > 1 /\ lemma[nlemma].lex = h.lex

(* merge_lexeme: the description written last is of the same lexeme *)
Merges(h) ==
  Given("lemmas") /\ nlemma > 0 /\ lemma[nlemma].lex = h.lex

(* altered: nlemma > llemma *)
SlotMissingLate(h) == Given("lemmas") /\ ~Merges(h) /\ nlemma > caps.lemmas

SlotMissing(h) == Given("lemmas") /\ ~Merges(h) /\ nlemma >= caps.lemmas

WritesForm(h) == Given("forms") /\ ~Merges(h)

(* the normal form with its zero; only 1251 keeps one byte per character *)
Bytes(h) == (IF narrow THEN h.size ELSE Wide * h.size) + 1

(* altered: the terminating zero is not counted *)
FormFitsNoZero(h) == pforms + Bytes(h) - 1 <= caps.forms

FormFits(h) == pforms + Bytes(h) <= caps.forms

WritesGrams == Given("lemmas") /\ Given("grams")

(* has_gramform( plemma[-1], 0 ): gramBuffer stores zero in idForm, so the *)
(* merge looks up form 0 whatever the meaning at hand                      *)
HasFormZero(l) == \E k \in l.gram + 1 .. l.gram + l.ngrams : grams[k].form = 0

NewGrams(h) ==
  IF Merges(h) /\ HasFormZero(lemma[nlemma])
    THEN <<>>
    ELSE [k \in DOMAIN h.flexes |-> [lex |-> h.lex, form |-> h.flexes[k]]]

(* the copying loop runs while pgrams < egrams, also when it only skips *)
GramsFit(h) ==
  IF NewGrams(h) = <<>>
    THEN Len(grams) < caps.grams
    ELSE Len(grams) + Len(NewGrams(h)) <= caps.grams

AfterForm(h) == IF WritesForm(h) THEN pforms + Bytes(h) ELSE pforms

(* altered: pgrams is the caller's array, not the place reached in it *)
DescriptionUnmoved(h) ==
  [lex    |-> h.lex,
   form   |-> IF Given("forms") THEN pforms ELSE NoBuffer,
   fend   |-> IF Given("forms") THEN AfterForm(h) ELSE NoBuffer,
   gram   |-> IF Given("grams") THEN 0 ELSE NoBuffer,
   ngrams |-> IF WritesGrams THEN Len(grams) + Len(NewGrams(h)) ELSE 0]

(* plemma->plemma, ->pgrams and ->ngrams as they stand when plemma advances *)
Description(h) ==
  [lex    |-> h.lex,
   form   |-> IF Given("forms") THEN pforms ELSE NoBuffer,
   fend   |-> IF Given("forms") THEN AfterForm(h) ELSE NoBuffer,
   gram   |-> IF Given("grams") THEN Len(grams) ELSE NoBuffer,
   ngrams |-> IF WritesGrams THEN Len(NewGrams(h)) ELSE 0]

StoredTo(slot) == slots' = IF slot > slots THEN slot ELSE slots

-------------------------------------------------------------------------------

Init ==
  /\ pc = "idle"
  /\ caps = [lemmas |-> NoBuffer, forms |-> NoBuffer, grams |-> NoBuffer]
  /\ narrow = TRUE
  /\ lemma = <<>> /\ nlemma = 0
  /\ pforms = 0 /\ grams = <<>> /\ slots = 0
  /\ nerror = 0 /\ nhits = 0 /\ result = 0

(* The word is looked up: a fresh actor over the caller's arrays. *)
Lemmatize ==
  /\ pc = "idle" /\ pc' = "scan"
  /\ caps' \in [lemmas: LemmaCaps, forms: FormCaps, grams: GramCaps]
  /\ narrow' \in BOOLEAN
  /\ lemma' = <<>> /\ nlemma' = 0
  /\ pforms' = 0 /\ grams' = <<>> /\ slots' = 0
  /\ nerror' = 0 /\ nhits' = 0
  /\ UNCHANGED result

(* No word, or one that is too long or does not convert: no array is touched. *)
RefuseWord ==
  /\ pc = "idle"
  /\ result' \in {0, WORDBUFF_FAILED}
  /\ UNCHANGED <<pc, caps, narrow, lemma, nlemma, pforms, grams, slots, nerror,
                 nhits>>

(* altered: the scan goes on after a failure *)
CalledAgain == pc = "scan" /\ nhits < MaxHits /\ nhits' = nhits + 1

(* A call of InsertStem: listLookup makes none after one that failed. *)
Called == pc = "scan" /\ nerror = 0 /\ nhits < MaxHits /\ nhits' = nhits + 1

NoSlot(h) ==
  /\ SlotMissing(h)
  /\ nerror' = LIDSBUFF_FAILED
  /\ UNCHANGED <<lemma, nlemma, pforms, grams, slots>>

(* in 1251 the form is copied up to the end of the array before the refusal *)
NoFormRoom(h) ==
  /\ ~SlotMissing(h) /\ WritesForm(h) /\ ~FormFits(h)
  /\ nerror' = LEMMBUFF_FAILED
  /\ pforms' = IF narrow THEN caps.forms ELSE pforms
  /\ IF Given("lemmas") THEN StoredTo(nlemma + 1) ELSE UNCHANGED slots
  /\ UNCHANGED <<lemma, nlemma, grams>>

NoGramRoom(h) ==
  /\ ~SlotMissing(h) /\ (WritesForm(h) => FormFits(h))
  /\ WritesGrams /\ ~GramsFit(h)
  /\ nerror' = GRAMBUFF_FAILED
  /\ pforms' = AfterForm(h)
  /\ grams' = grams \o SubSeq(NewGrams(h), 1, caps.grams - Len(grams))
  /\ IF Merges(h) THEN UNCHANGED slots ELSE StoredTo(nlemma + 1)
  /\ UNCHANGED <<lemma, nlemma>>

Everything(h) ==
  /\ ~SlotMissing(h)
  /\ WritesForm(h) => FormFits(h)
  /\ WritesGrams => GramsFit(h)
  /\ pforms' = AfterForm(h)
  /\ grams' = IF WritesGrams THEN grams \o NewGrams(h) ELSE grams

Register(h) ==
  /\ Everything(h) /\ ~Merges(h)
  /\ lemma' = IF Given("lemmas") THEN Append(lemma, Description(h)) ELSE lemma
  /\ nlemma' = nlemma + 1
  /\ IF Given("lemmas") THEN StoredTo(nlemma + 1) ELSE UNCHANGED slots
  /\ UNCHANGED nerror

(* altered: nlemma advances on a merge too *)
MergeCounts(h) ==
  /\ Everything(h) /\ Merges(h)
  /\ nlemma' = nlemma + 1
  /\ UNCHANGED <<lemma, nerror, slots>>

(* plemma->ngrams is assigned although plemma is already the next description *)
Merge(h) ==
  /\ Everything(h) /\ Merges(h)
  /\ IF WritesGrams THEN StoredTo(nlemma + 1) ELSE UNCHANGED slots
  /\ UNCHANGED <<lemma, nlemma, nerror>>

InsertStem(h) ==
  /\ Called
  /\ NoSlot(h) \/ NoFormRoom(h) \/ NoGramRoom(h) \/ Register(h) \/ Merge(h)
  /\ UNCHANGED <<pc, caps, narrow, result>>

(* the scan is over, or the failed InsertStem has unwound it *)
Return ==
  /\ pc = "scan" /\ pc' = "idle"
  /\ result' = IF nerror < 0 THEN nerror ELSE nlemma
  /\ UNCHANGED <<caps, narrow, lemma, nlemma, pforms, grams, slots, nerror, nhits>>

Next ==
  \/ Lemmatize
  \/ RefuseWord
  \/ \E h \in Hits : InsertStem(h)
  \/ Return

Spec == Init /\ [][Next]_vars

-------------------------------------------------------------------------------

Errors == {LEMMBUFF_FAILED, LIDSBUFF_FAILED, GRAMBUFF_FAILED}

(* The state of the actor and of the caller's arrays stays within its types. *)
TypeOK ==
  /\ pc \in {"idle", "scan"}
  /\ caps \in [lemmas: Nat \cup {NoBuffer}, forms: Nat \cup {NoBuffer},
               grams: Nat \cup {NoBuffer}]
  /\ narrow \in BOOLEAN
  /\ lemma \in Seq([lex: Lexemes, form: Nat \cup {NoBuffer}, fend: Nat \cup {NoBuffer},
                    gram: Nat \cup {NoBuffer}, ngrams: Nat])
  /\ nlemma \in Nat /\ pforms \in Nat /\ slots \in Nat /\ nhits \in 0 .. MaxHits
  /\ grams \in Seq([lex: Lexemes, form: Nat])
  /\ nerror \in Errors \cup {0}
  /\ result \in Nat \cup Errors \cup {WORDBUFF_FAILED}
  /\ Given("lemmas") => Len(lemma) = nlemma

(* Every description names a normal form that lies, its zero included, inside  *)
(* the caller's array, before everything written later: no form runs into the  *)
(* next one and none is cut (lemmatiz.cpp:119-137).                             *)
FormsComplete ==
  Given("forms") =>
    /\ pforms <= caps.forms
    /\ \A i \in 1 .. Len(lemma) :
         /\ 0 <= lemma[i].form /\ lemma[i].form < lemma[i].fend
         /\ lemma[i].fend <= pforms
         /\ \A j \in i + 1 .. Len(lemma) : lemma[i].fend <= lemma[j].form

(* The ranges of meanings of the descriptions lie inside the written part of   *)
(* the array, do not overlap, and hold meanings of their own lexeme only,      *)
(* whatever was merged and whichever call failed (lemmatiz.cpp:140-157).       *)
GramsOwned ==
  Given("grams") =>
    /\ Len(grams) <= caps.grams
    /\ \A i \in 1 .. Len(lemma) :
         /\ 0 <= lemma[i].gram
         /\ lemma[i].gram + lemma[i].ngrams <= Len(grams)
         /\ \A j \in i + 1 .. Len(lemma) :
              lemma[i].gram + lemma[i].ngrams <= lemma[j].gram
         /\ \A k \in lemma[i].gram + 1 .. lemma[i].gram + lemma[i].ngrams :
              grams[k].lex = lemma[i].lex

(* A failure is reported for the array that is full, and only then: no other   *)
(* array would have to grow for the call to get further (testfunc.cpp:212-217).*)
ErrorNamesFullArray ==
  /\ nerror = LIDSBUFF_FAILED => Given("lemmas") /\ nlemma = caps.lemmas
  /\ nerror = GRAMBUFF_FAILED => Given("grams") /\ Len(grams) = caps.grams
  /\ nerror = LEMMBUFF_FAILED /\ narrow => Given("forms") /\ pforms = caps.forms

(* Two descriptions in a row are never of the same lexeme: the second stem is  *)
(* merged into the first (lemmatiz.cpp:66-78).                                 *)
NeighboursDiffer ==
  \A i \in 1 .. Len(lemma) - 1 : lemma[i].lex # lemma[i + 1].lex

(* The array of descriptions is never stored to behind its end: what the       *)
(* comment lemmatiz.cpp:49, "the real safe lemmatization output creation       *)
(* method", and the overflow check at lemmatiz.cpp:64-71 are there for.        *)
SlotsInArray == Given("lemmas") => slots <= caps.lemmas

(* The answer is the one of LemmaCount: one per lexeme in a row, or the        *)
(* failure that stopped the scan (mlmamain.cpp:236-237).                       *)
Count == INSTANCE LemmaCount WITH
  open     <- pc = "scan",
  keeps    <- Given("lemmas"),
  count    <- nlemma,
  last     <- IF Given("lemmas") /\ nlemma > 0 THEN lemma[nlemma].lex ELSE None,
  failed   <- nerror,
  answer   <- result,
  Failures <- Errors,
  Refusals <- {0, WORDBUFF_FAILED}

CountSpec == Count!Spec
===============================================================================
