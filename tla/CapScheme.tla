------------------------------ MODULE CapScheme ------------------------------
(***************************************************************************)
(* Capital letters (xmorph/capsheme.cpp, capsheme.h).  GetCapScheme turns  *)
(* a word into small letters and a number, the scheme: the count of its    *)
(* parts between hyphens in the high byte, two bits for each part below.   *)
(* IsGoodSheme decides whether a stem may be written with a scheme;        *)
(* SetCapScheme writes a word with one, and GetMinScheme gives the scheme  *)
(* the library writes its own forms with.  A number is the set of its bits, *)
(* since the code only shifts, joins and compares them.  Only the kind of a *)
(* character matters: "A" a capital letter, "a" a small one, "-" a hyphen, *)
(* "?" any other.                                                          *)
(***************************************************************************)
EXTENDS Integers, Sequences, FiniteSets

CONSTANTS Words,       \* what may be asked about
          Forms,       \* forms the dictionary builds, in small letters
          Sizes,       \* sizes of the buffer for the small letters
          NoStem       \* the word was asked about, not built

Kinds == {"A", "a", "-", "?"}

(* Every caller's buffer is byte_t locase[256] (mlmamain.cpp:163, 201, 271).   *)
ASSUME SizesAssumption == Sizes \subseteq 0 .. 256

(* the bits of a number of at most nine bits *)
Weights == <<1, 2, 4, 8, 16, 32, 64, 128, 256>>
BitsOf(n) == {b \in 0 .. 8 : (n \div Weights[b + 1]) % 2 = 1}

(* n << by *)
Shifted(n, by) == {b + by : b \in BitsOf(n)}

UNDEFINED == 0
ALL_SMALL == 1
FIRST_CAP == 2
WORD_CAPS == 3
FIRST_WAS == 4
ERROR_CAP == 5

TooLong == 0 .. 31     \* (unsigned)-1

VARIABLES
  pc,        \* "idle", "head" and "part" (of the outer loop), "judged"
  stem,      \* the form the word was built from and its MinCapScheme, or NoStem
  word,      \* srctop .. srcend
  size,      \* outlen
  output,    \* the small letters written, one for each character passed
  subcap, cdefis, scheme, bvalid,
  result     \* the low 16 bits of the answer, or TooLong

vars == <<pc, stem, word, size, output, subcap, cdefis, scheme, bvalid, result>>

-------------------------------------------------------------------------------

Lower(c) == IF c = "A" THEN "a" ELSE c
Upper(c) == IF c = "a" THEN "A" ELSE c

(* altered: a capital letter may follow a small one *)
CapStateLoose(state, c) ==
  CASE c = "A" -> IF state = UNDEFINED THEN FIRST_WAS ELSE state
    [] c = "a" -> IF state = FIRST_WAS THEN FIRST_CAP
                  ELSE IF state = UNDEFINED THEN ALL_SMALL ELSE state
    [] c = "-" -> IF state = FIRST_WAS THEN WORD_CAPS
                  ELSE IF state = UNDEFINED THEN ERROR_CAP ELSE state
    [] c = "?" -> ERROR_CAP

(* capStateMatrix *)
CapState(state, c) ==
  CASE c = "A" -> IF state = UNDEFINED THEN FIRST_WAS
                  ELSE IF state \in {WORD_CAPS, FIRST_WAS} THEN WORD_CAPS ELSE ERROR_CAP
    [] c = "a" -> IF state \in {UNDEFINED, ALL_SMALL} THEN ALL_SMALL
                  ELSE IF state \in {FIRST_CAP, FIRST_WAS} THEN FIRST_CAP ELSE ERROR_CAP
    [] c = "-" -> IF state = FIRST_WAS THEN WORD_CAPS
                  ELSE IF state = UNDEFINED THEN ERROR_CAP ELSE state
    [] c = "?" -> ERROR_CAP

(* the part a character belongs to, from 0; a hyphen ends the part before it *)
PartOf(w, i) == Cardinality({j \in 1 .. i - 1 : w[j] = "-"})

Hyphens(w) == PartOf(w, Len(w) + 1)

Letters(w, part) == {i \in DOMAIN w : w[i] # "-" /\ PartOf(w, i) = part}

(* The forms of the dictionary have letters on both sides of every hyphen, as  *)
(* all lines of rus/dict have.                                                 *)
ASSUME WordsAssumption ==
  /\ Words \subseteq Seq(Kinds)
  /\ \A f \in Forms : /\ f \in Seq({"a", "-"})
                      /\ \A part \in 0 .. Hyphens(f) : Letters(f, part) # {}

FirstInPart(w, i) == i = 1 \/ w[i - 1] = "-"

(* nparts = scheme >> 8 *)
NParts(s) == CHOOSE n \in 0 .. 255 : Shifted(n, 8) = s \cap (8 .. 15)

(* altered: the first-letter bit is not dropped after the first letter *)
SetCapSchemeAll(w, s) ==
  [i \in DOMAIN w |->
     IF PartOf(w, i) < NParts(s) /\ (2 * PartOf(w, i) \in s \/ 2 * PartOf(w, i) + 1 \in s)
       THEN Upper(w[i]) ELSE w[i]]

SetCapScheme(w, s) ==
  [i \in DOMAIN w |->
     LET low == 2 * PartOf(w, i)
     IN IF PartOf(w, i) < NParts(s) /\ (low + 1 \in s \/ (low \in s /\ FirstInPart(w, i)))
          THEN Upper(w[i]) ELSE w[i]]

(* altered: three parts are all written alike *)
GetMinSchemeAlike(minCap, w, nparts) ==
  LET n == IF nparts = 0 THEN Hyphens(w) + 1 ELSE nparts
  IN CASE n = 1 -> {8} \cup Shifted(minCap, 0)
       [] n = 2 -> {9} \cup Shifted(minCap, 0) \cup Shifted(minCap, 2)
       [] n = 3 -> {8, 9} \cup Shifted(minCap, 0) \cup Shifted(minCap, 2) \cup Shifted(minCap, 4)
       [] OTHER -> {8}

GetMinScheme(minCap, w, nparts) ==
  LET n == IF nparts = 0 THEN Hyphens(w) + 1 ELSE nparts
  IN CASE n = 1 -> {8} \cup Shifted(minCap, 0)
       [] n = 2 -> {9} \cup Shifted(minCap, 0) \cup Shifted(minCap, 2)
       [] n = 3 -> {8, 9} \cup Shifted(minCap, 0) \cup Shifted(minCap, 4)
                   \cup (IF minCap = 2 THEN {3} ELSE {})
       [] OTHER -> {8}

GoodMin2 == {{8, 1}, {9, 3, 1}, {9, 8, 5, 3, 1}}                  \* 0x0102 0x020A 0x032A
GoodMin1 == {{8, 0}, {9, 2, 0}, {9, 8, 4, 0}} \cup GoodMin2       \* 0x0101 0x0205 0x0311
GoodMin0 ==                                     \* 0x0100 0x0200 0x0300 0x0201 0x0301
  {{8}, {9}, {9, 8}, {9, 0}, {9, 8, 0}} \cup GoodMin1

IsGoodSheme(s, minCap) ==
  s \in (CASE minCap = 0 -> GoodMin0 [] minCap = 1 -> GoodMin1 [] minCap = 2 -> GoodMin2)

-------------------------------------------------------------------------------

Init ==
  /\ pc = "idle" /\ stem = NoStem
  /\ word = <<>> /\ size = 0 /\ output = <<>>
  /\ subcap = UNDEFINED /\ cdefis = 0 /\ scheme = {} /\ bvalid = TRUE
  /\ result = {}

GetCapScheme(w) ==
  /\ pc = "idle" /\ pc' = "head"
  /\ word' = w /\ size' \in Sizes
  /\ UNCHANGED <<output, subcap, cdefis, scheme, bvalid, result>>

(* any word is asked about *)
Ask ==
  /\ \E w \in Words : GetCapScheme(w)
  /\ UNCHANGED stem

(* A form as the library writes it is asked about.  BuildForm leaves the       *)
(* number of parts to GetMinScheme; Lemmatize and FindForms give that of the   *)
(* word they were asked about, which is another form of the same stem: endings *)
(* have no hyphens.                                                            *)
AskBack ==
  \E f \in Forms, m \in 0 .. 2 : \E nparts \in {0, Hyphens(f) + 1} :
    /\ stem' = [form |-> f, minCap |-> m]
    /\ GetCapScheme(SetCapScheme(f, GetMinScheme(m, f, nparts)))

More == Len(output) < Len(word) /\ Len(output) < size

Char == word[Len(output) + 1]

EnterPart ==
  /\ pc = "head" /\ More
  /\ pc' = "part" /\ subcap' = UNDEFINED
  /\ UNCHANGED <<stem, word, size, output, cdefis, scheme, bvalid, result>>

Letter ==
  /\ pc = "part" /\ More /\ Char # "-"
  /\ subcap' = CapState(subcap, Char)
  /\ output' = Append(output, Lower(Char))
  /\ UNCHANGED <<pc, stem, word, size, cdefis, scheme, bvalid, result>>

Answer(r) == pc' = "judged" /\ result' = r

PartTooLong ==
  /\ pc = "part" /\ Len(output) >= size
  /\ Answer(TooLong)
  /\ UNCHANGED <<stem, word, size, output, subcap, cdefis, scheme, bvalid>>

(* altered: the hyphen is not passed *)
PassHyphenNot == UNCHANGED <<output, cdefis>>

(* altered: the hyphen does not begin a new part *)
PassHyphenUncounted ==
  IF Len(output) < Len(word)
    THEN output' = Append(output, Char) /\ UNCHANGED cdefis
    ELSE UNCHANGED <<output, cdefis>>

PassHyphen ==
  IF Len(output) < Len(word)
    THEN output' = Append(output, Char) /\ cdefis' = cdefis + 1
    ELSE UNCHANGED <<output, cdefis>>

(* n << (part << 1) in an unsigned of 32 bits; a shift by more is undefined:   *)
(* processors take it modulo 32 or shift everything out                        *)
PartBits(n, part) ==
  IF part < 16 THEN {Shifted(n, 2 * part) \cap (0 .. 31)}
               ELSE {Shifted(n, 2 * (part % 16)) \cap (0 .. 31), {}}

ClosePart ==
  /\ pc = "part" /\ Len(output) < size /\ (More => Char = "-")
  /\ subcap' = CapState(subcap, "-")
  /\ bvalid' = (bvalid /\ CapState(subcap, "-") # ERROR_CAP)
  /\ \E bits \in PartBits(CapState(subcap, "-") - 1, cdefis) : scheme' = scheme \cup bits
  /\ PassHyphen
  /\ pc' = "head"
  /\ UNCHANGED <<stem, word, size, result>>

(* altered: the terminating zero needs no room *)
NoRoomLate == Len(output) > size

NoRoom == Len(output) >= size

Finish ==
  /\ pc = "head" /\ ~More
  /\ Answer(IF NoRoom THEN TooLong
            ELSE (Shifted(cdefis + 1, 8) \cup (IF bvalid THEN scheme ELSE 0 .. 7)) \cap (0 .. 15))
  /\ UNCHANGED <<stem, word, size, output, subcap, cdefis, scheme, bvalid>>

(* the caller has used the answer *)
Forget ==
  /\ pc = "judged" /\ pc' = "idle" /\ stem' = NoStem
  /\ word' = <<>> /\ size' = 0 /\ output' = <<>>
  /\ subcap' = UNDEFINED /\ cdefis' = 0 /\ scheme' = {} /\ bvalid' = TRUE
  /\ result' = {}

Scan == EnterPart \/ Letter \/ PartTooLong \/ ClosePart \/ Finish

Next == Ask \/ AskBack \/ Scan \/ Forget

Spec == Init /\ [][Next]_vars /\ WF_vars(Scan)

-------------------------------------------------------------------------------

(* The scan stays within its types. *)
CapTypeOK ==
  /\ pc \in {"idle", "head", "part", "judged"}
  /\ word \in Seq(Kinds) /\ output \in Seq(Kinds \ {"A"})
  /\ subcap \in UNDEFINED .. ERROR_CAP /\ bvalid \in BOOLEAN
  /\ cdefis = Hyphens(output)
  /\ Len(output) <= size
  /\ scheme \subseteq 0 .. 31 /\ result \in (SUBSET (0 .. 15)) \cup {TooLong}

(* How a reader reads one part of a word: no part at all between two hyphens,  *)
(* nothing behind the last one.                                                *)
Reading(w, part) ==
  LET L == Letters(w, part)
      kinds == {w[i] : i \in L}
      rest == {w[i] : i \in {j \in L : ~FirstInPart(w, j)}}
  IN IF L = {} THEN IF part = Hyphens(w) THEN "small" ELSE "wrong"
     ELSE IF kinds = {"a"} THEN "small"
     ELSE IF kinds = {"A"} THEN "capitals"
     ELSE IF "A" \in kinds /\ rest = {"a"} THEN "capital"
     ELSE "wrong"

Readings(w) == [p \in 1 .. Hyphens(w) + 1 |-> Reading(w, p - 1)]

AllAre(r, kind) == \A p \in DOMAIN r : r[p] = kind

(* Which words a stem may be written as: in small letters or with a capital    *)
(* first letter if it is a common word; as a name, the middle of three parts   *)
(* small, unless it is an abbreviation; in capitals always.  Never in four     *)
(* parts or more.                                                              *)
MayBeWritten(r, minCap) ==
  /\ Len(r) <= 3
  /\ \/ AllAre(r, "capitals")
     \/ minCap <= 1 /\ r \in {<<"capital">>, <<"capital", "capital">>,
                              <<"capital", "small", "capital">>}
     \/ minCap = 0 /\ AllAre(Tail(r), "small") /\ r[1] \in {"small", "capital"}

(* The scheme of a word is good for a stem exactly when a reader of the word,  *)
(* part by part, would accept it: the bits the state matrix leaves, the shift  *)
(* they go to (into the count, from the fifth part on) and the three lists of  *)
(* capsheme.h:31-53 agree.  It is refused unread exactly when the buffer       *)
(* cannot hold its letters and a zero (capsheme.cpp:37-67).                    *)
VerdictByParts ==
  pc = "judged" =>
    IF Len(word) >= size THEN result = TooLong
    ELSE \A m \in 0 .. 2 : IsGoodSheme(result, m) = MayBeWritten(Readings(word), m)

(* Nothing is lost between GetCapScheme and SetCapScheme: the small letters    *)
(* written back with the scheme are the word.  Four parts is all the low byte  *)
(* of the scheme has room for.                                                 *)
WritesBack ==
  LET r == Readings(word)
  IN pc = "judged" /\ result # TooLong /\ Len(r) <= 4 /\ ~(\E p \in DOMAIN r : r[p] = "wrong")
       => SetCapScheme(output, result) = word

(* A form the library writes itself (lemmatiz.cpp:117, 255) is accepted when   *)
(* it is looked up, and read as the form the dictionary built.  Up to three    *)
(* parts, none of them a single letter if the stem is a name: a single letter  *)
(* reads as a part in capitals.                                                *)
OwnFormsAccepted ==
  pc = "judged" /\ result # TooLong /\ stem # NoStem =>
    /\ output = stem.form
    /\ \/ Hyphens(stem.form) > 2
       \/ /\ stem.minCap = 1 /\ Hyphens(stem.form) > 0
          /\ \E p \in 0 .. Hyphens(stem.form), i \in DOMAIN stem.form :
               Letters(stem.form, p) = {i}
       \/ IsGoodSheme(result, stem.minCap)

(* Every word gets an answer: each turn of the outer loop passes a hyphen or   *)
(* the rest of the word.                                                       *)
Answered == pc = "head" ~> pc = "judged"

(* A word of the dictionary is accepted at the head of a sentence, with its    *)
(* first letter a capital: "01 - что слово написано с заглавной буквы"         *)
(* (capsheme.h:14-15), the schemes 0x0101, 0x0201 and 0x0301 of                *)
(* IsGoodShemeMin0.                                                            *)
CapitalizedAccepted ==
  \A f \in Forms :
    pc = "judged" /\ result # TooLong /\ Hyphens(f) <= 2
    /\ word = [f EXCEPT ![1] = Upper(@)] => IsGoodSheme(result, 0)
===============================================================================
