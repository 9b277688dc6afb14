----------------------------- MODULE FormBuilder -----------------------------
(***************************************************************************)
(* CMlmaMb::BuildForm and FindForms (rus/libdict/mlmamain.cpp) and the     *)
(* actor both hand to the dictionary, doBuildForm (xmorph/lemmatiz.cpp).   *)
(* A form identifier is turned into the forms of one lexeme (BuildForm:    *)
(* RecursGetTrack walks to its stem and calls InsertStem once) or of every *)
(* stem found for a word (FindForms).  Forms are written one after the     *)
(* other, each with its zero, until one does not fit.  A form is the call  *)
(* it was written by and which of the stem's it is there, its identifier,  *)
(* where it stands and its bytes; what the grammar says of a stem is a     *)
(* parameter.                                                              *)
(***************************************************************************)
EXTENDS Integers, Sequences

CONSTANTS Stems,       \* the stems of the dictionary
          IdForms,     \* the form identifiers asked for
          Caps,        \* sizes of the output array, in bytes
          MaxHits      \* bound: stems found for one word

NoBuffer == -1
NoForm == 255          \* 0xff, asked for words that do not inflect
Preposition == 51      \* types of words: wdinfo & 0x3f
AnyNumber == 52

LEMMBUFF_FAILED == -1
WORDBUFF_FAILED == -4

ASSUME StemsAssumption ==
  /\ NoForm \in IdForms /\ IdForms \subseteq 0 .. 255
  /\ Caps \subseteq Nat \cup {NoBuffer} /\ MaxHits \in Nat \ {0}
  /\ \A s \in Stems :
       s \in [name: {s.name}, type: 0 .. 63,
              tfoffs: Nat,        \* the table of endings; the cases of a preposition
              multiple: BOOLEAN,  \* wfMultiple
              number: [IdForms -> {"none", "single", "plural"}],  \* GetWordInfo
              tails: [IdForms -> Seq(Nat \ {0})]]                 \* CreateFormFlex

VARIABLES
  pc,        \* "idle", "build" and "find"
  cap,       \* cchout
  asked,     \* the form identifier the caller gave
  idform,    \* doBuildForm::idform
  forms,     \* the forms written
  output,    \* bytes written
  nerror,    \* doBuildForm::nerror
  hits,      \* the stems InsertStem was called with, tfoffs as passed to it
  result     \* what the last finished call returned

vars == <<pc, cap, asked, idform, forms, output, nerror, hits, result>>

-------------------------------------------------------------------------------

(* the bytes of the first forms *)
RunningTotal(sizes) ==
  LET total[k \in 0 .. Len(sizes)] == IF k = 0 THEN 0 ELSE total[k - 1] + sizes[k] IN total

(* listLookup clears tfoffs of what does not inflect; listTracer does not *)
TfOffs(s) == IF s.type = Preposition /\ pc = "find" THEN 0 ELSE s.tfoffs

Inflects(s) == s.type # Preposition /\ s.tfoffs # 0

(* the stem has the form; a plural-only stem has no singular ones, but nobody  *)
(* asks that of 0xff                                                           *)
Wants(s) ==
  \/ s.type = Preposition /\ idform \in {NoForm, TfOffs(s)}
  \/ s.type # Preposition /\ s.tfoffs = 0 /\ idform = NoForm
  \/ /\ Inflects(s) /\ s.number[idform] # "none"
     /\ (s.multiple /\ idform # NoForm /\ s.type # AnyNumber) => s.number[idform] = "plural"

(* the bytes of the forms: a stem without endings has one, itself *)
Tails(s) == IF Inflects(s) THEN s.tails[idform] ELSE s.tails[NoForm]

(* altered: the terminating zero of a form need not fit *)
FitsLate(s, k) == output + RunningTotal(Tails(s))[k] <= cap + 1

Fits(s, k) == output + RunningTotal(Tails(s))[k] <= cap

(* how many of the forms mbcstombcs finds room for, one after the other *)
Written(s) ==
  CHOOSE k \in 0 .. Len(Tails(s)) :
    Fits(s, k) /\ \A other \in 0 .. Len(Tails(s)) : Fits(s, other) => other <= k

-------------------------------------------------------------------------------

Init ==
  /\ pc = "idle" /\ cap = NoBuffer /\ asked = NoForm /\ idform = NoForm
  /\ forms = <<>> /\ output = 0 /\ nerror = 0 /\ hits = <<>> /\ result = 0

Begin(how) ==
  /\ pc = "idle" /\ pc' = how
  /\ cap' \in Caps
  /\ asked' \in IdForms /\ idform' = asked'
  /\ forms' = <<>> /\ output' = 0 /\ nerror' = 0 /\ hits' = <<>>
  /\ UNCHANGED result

BuildForm == Begin("build")

FindForms == Begin("find")

(* no such lexeme; no word, or one that is too long or does not convert *)
Refuse ==
  /\ pc = "idle" /\ result' \in {0, WORDBUFF_FAILED}
  /\ UNCHANGED <<pc, cap, asked, idform, forms, output, nerror, hits>>

(* the stem of the lexeme is met once; a word's stems until a call fails *)
Called ==
  \/ pc = "build" /\ hits = <<>>
  \/ pc = "find" /\ nerror = 0 /\ Len(hits) < MaxHits

(* the array is looked at before anything is known of the stem *)
NoArray == cap = NoBuffer \/ output >= cap

Full ==
  /\ NoArray
  /\ nerror' = LEMMBUFF_FAILED
  /\ UNCHANGED <<idform, forms, output>>

Skip(s) ==
  /\ ~NoArray /\ ~Wants(s)
  /\ UNCHANGED <<idform, forms, output, nerror>>

(* altered: a form that does not fit is not told *)
FailureOfNone(s) == 0

FailureOf(s) == IF Written(s) < Len(Tails(s)) THEN LEMMBUFF_FAILED ELSE 0

(* altered: a preposition leaves the case in the request *)
RequestAfterCase(s) == IF s.type = Preposition THEN s.tfoffs ELSE idform

(* a preposition turns the request into one for 0xff, for later stems too *)
RequestAfter(s) == IF s.type = Preposition THEN NoForm ELSE idform

Write(s) ==
  /\ ~NoArray /\ Wants(s)
  /\ idform' = RequestAfter(s)
  /\ forms' = forms \o [k \in 1 .. Written(s) |->
                           [call |-> Len(hits) + 1, nth |-> k, form |-> idform,
                            at |-> output + RunningTotal(Tails(s))[k - 1], bytes |-> Tails(s)[k]]]
  /\ output' = output + RunningTotal(Tails(s))[Written(s)]
  /\ nerror' = FailureOf(s)

InsertStem ==
  /\ Called
  /\ \E s \in Stems : hits' = Append(hits, [s EXCEPT !.tfoffs = TfOffs(s)]) /\ (Full \/ Skip(s) \/ Write(s))
  /\ UNCHANGED <<pc, cap, asked, result>>

(* 1 + output.InsertStem( ... ): listTracer turns the failure into 0, "go on", *)
(* so that the walk of the tree never comes back negative                      *)
BuildAnswer == Len(forms)

ReturnBuild ==
  /\ pc = "build" /\ hits # <<>> /\ pc' = "idle"
  /\ result' = BuildAnswer
  /\ UNCHANGED <<cap, asked, idform, forms, output, nerror, hits>>

ReturnFind ==
  /\ pc = "find" /\ pc' = "idle"
  /\ result' = IF nerror < 0 THEN nerror ELSE Len(forms)
  /\ UNCHANGED <<cap, asked, idform, forms, output, nerror, hits>>

Next == BuildForm \/ FindForms \/ Refuse \/ InsertStem \/ ReturnBuild \/ ReturnFind

Spec == Init /\ [][Next]_vars

-------------------------------------------------------------------------------

(* The state of the actor and of the array stays within its types. *)
FormTypeOK ==
  /\ pc \in {"idle", "build", "find"}
  /\ cap \in Nat \cup {NoBuffer}
  /\ asked \in IdForms /\ idform \in {asked, NoForm}
  /\ forms \in Seq([call: 1 .. Len(hits), nth: Nat \ {0}, form: IdForms, at: Nat, bytes: Nat \ {0}])
  /\ output \in Nat /\ nerror \in {0, LEMMBUFF_FAILED}
  /\ hits \in Seq({[s EXCEPT !.tfoffs = offs] : s \in Stems, offs \in {0} \cup {t.tfoffs : t \in Stems}})
  /\ Len(hits) <= MaxHits
  /\ result \in Nat \cup {LEMMBUFF_FAILED, WORDBUFF_FAILED}

(* The forms counted are whole, each with its zero, one after the other inside *)
(* the caller's array, also when a later one did not fit (lemmatiz.cpp:238-262)*)
FormsWhole ==
  LET end(k) == IF k = 0 THEN 0 ELSE forms[k].at + forms[k].bytes
  IN /\ \A k \in DOMAIN forms : forms[k].at = end(k - 1)
     /\ output = end(Len(forms))
     /\ forms # <<>> => output <= cap

(* What a stem has for the form asked for, by the grammar alone. *)
FormsAsked(s) ==
  IF s.type = Preposition
    THEN IF asked = NoForm \/ asked = s.tfoffs THEN s.tails[NoForm] ELSE <<>>
  ELSE IF s.tfoffs = 0 THEN IF asked = NoForm THEN s.tails[NoForm] ELSE <<>>
  ELSE IF s.number[asked] = "none" THEN <<>>
  ELSE IF s.multiple /\ s.number[asked] = "single" /\ s.type # AnyNumber /\ asked # NoForm
    THEN <<>>
  ELSE s.tails[asked]

(* a preposition of the case asked for came before the call *)
RequestChanged(call) ==
  \E k \in 1 .. call - 1 :
    hits[k].type = Preposition /\ asked # NoForm /\ asked = hits[k].tfoffs

(* the forms written by a call are the first n of those it is due *)
FirstWritten(call, n) ==
  LET mine == {k \in DOMAIN forms : forms[k].call = call}
  IN /\ {forms[k].nth : k \in mine} = 1 .. n
     /\ \A k \in mine :
          forms[k].form = asked /\ forms[k].bytes = FormsAsked(hits[call])[forms[k].nth]

(* The forms stand in the order the stems were found and the grammar has them. *)
(* A call of the actor that reports no failure has written every form of its   *)
(* stem, and no other, whatever array it was given.  One that fails is the     *)
(* last, has written the first of them, and has no room for the next (or had   *)
(* none left before it).  Behind a preposition of the case asked for the       *)
(* request is another one, and nothing is promised (lemmatiz.cpp:197-203).     *)
FormsComplete ==
  /\ \A j, k \in DOMAIN forms :
       j < k => \/ forms[j].call < forms[k].call
                \/ forms[j].call = forms[k].call /\ forms[j].nth < forms[k].nth
  /\ \A call \in DOMAIN hits : ~RequestChanged(call) =>
       LET due == FormsAsked(hits[call])
           failed == call = Len(hits) /\ nerror # 0
       IN \E n \in 0 .. Len(due) :
            /\ FirstWritten(call, n)
            /\ n < Len(due) => failed
            /\ failed => \/ cap = NoBuffer \/ output >= cap
                         \/ n < Len(due) /\ output + due[n + 1] > cap

(* What BuildForm answers for an array with no room is the failure, as the     *)
(* titles of testfunc.cpp:228-231 say: "being called with small buffer and     *)
(* correct lexeme, it returns LEMMBUFF_FAILED".                                *)
BuildTellsFailure ==
  [][pc = "build" /\ pc' = "idle" /\ nerror < 0 => result' = LEMMBUFF_FAILED]_vars
===============================================================================
