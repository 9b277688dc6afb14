------------------------------ MODULE EngLibrary ------------------------------
(***************************************************************************)
(* The interface of the English library (eng/libdict/mlmamain.cpp) and the *)
(* actors it hands to the dictionary (lemmatiz.cpp).  A call finds stems,  *)
(* and its actor is then called for one after the other; each writes what  *)
(* it makes of a stem into the caller's arrays while they have room, and   *)
(* does nothing any more once one had none.                                *)
(***************************************************************************)
EXTENDS EngWild

CONSTANTS Asked,       \* the words the caller may give
          Patterns,    \* the patterns
          Lexemes,     \* the lexemes, in the dictionary or not
          IdForms,     \* the form identifiers
          FlagSets,    \* the options
          LemmRooms,   \* sizes of the arrays of Lemmatize, 0 .. 65535 each
          TextRooms,   \* sizes of the array of BuildForm and ListForms
          GramSize,    \* sizeof(SGramInfo)
          ListMax      \* the forms uniqlist has places for (256)

NoBuffer == -1
Junk == -1             \* a byte nobody wrote
NoWord == <<-1>>       \* NULL for a word

LEMMBUFF_FAILED == -1
LIDSBUFF_FAILED == -2
GRAMBUFF_FAILED == -3
WORDBUFF_FAILED == -4

ASSUME InterfaceAssumption ==
  /\ \A w \in Asked \cup Patterns : w \in Seq(1 .. 127)
  /\ FlagSets \subseteq SUBSET {"first", "ignore"} /\ IdForms \subseteq 0 .. 254
  /\ LemmRooms \subseteq [text: Nat \cup {NoBuffer}, lids: Nat \cup {NoBuffer},
                          grams: Nat \cup {NoBuffer}]
  /\ TextRooms \subseteq Nat /\ GramSize \in {5, 6} /\ ListMax \in Nat

VARIABLES
  dict,      \* the dictionary, for good
  pc,        \* "idle", the call whose actor runs, "answered"
  asked,     \* [call, word, lex, flags, idform, room] of the call
  scheme,    \* SScanPage::scheme
  stemText,  \* SScanPage::lpWord, in small letters
  calls,     \* the calls of the actor that are left
  room,      \* what is left of the arrays
  told,      \* the texts, lexemes, descriptions, characters given
  failed, built, answer

vars == <<dict, pc, asked, scheme, stemText, calls, room, told, failed, built, answer>>

Nothing == [texts |-> <<>>, lids |-> <<>>, grams |-> <<>>, offered |-> {}, info |-> 0]

NoCall == [call |-> "none", word |-> NoWord, lex |-> 0, flags |-> {}, idform |-> 0,
           room |-> [text |-> 0, lids |-> NoBuffer, grams |-> NoBuffer]]

-------------------------------------------------------------------------------
(* The texts of a stem. *)

Bare(text, call) == SubSeq(text, 1, call.at) \o call.stem.frag

(* GetNormalInfo: the smallest form of the table *)
NormalForm(s) == MinOf({Table(s)[i].form : i \in DOMAIN Table(s)})

(* CreateFormFlex: the endings of a form, in the order of the table *)
TailsOf(s, form) ==
  LET hits == SelectSeq(Table(s), LAMBDA x : x.form = form)
  IN [k \in DOMAIN hits |-> hits[k].text]

(* the stem and the ending of the normal form *)
LemmaBody(text, call) ==
  Bare(text, call) \o (IF Inflects(call.stem)
                         THEN TailsOf(call.stem, NormalForm(call.stem))[1] ELSE <<>>)

(* ccstem += *lpinfo, and not *psinfo: the length of the text grows by a byte  *)
(* of the class, not by the length of the postfix                              *)
LemmaLength(text, call) ==
  Len(LemmaBody(text, call)) + (IF call.stem.post = <<>> THEN 0 ELSE ClassOf(call.stem).behind)

LemmaText(text, call, parts) ==
  LET whole == LemmaBody(text, call) \o call.stem.post
      cut == [i \in 1 .. LemmaLength(text, call) |->
                IF i <= Len(whole) THEN whole[i] ELSE Junk]
  IN SetCapScheme(cut, GetMinScheme(parts, ClassOf(call.stem).minCap, cut))

FormText(text, call, tail, parts) ==
  LET whole == Bare(text, call) \o tail \o call.stem.post
  IN SetCapScheme(whole, GetMinScheme(parts, ClassOf(call.stem).minCap, whole))

-------------------------------------------------------------------------------

Init ==
  /\ dict \in Dicts
  /\ pc = "idle" /\ asked = NoCall /\ scheme = 0 /\ stemText = <<>> /\ calls = <<>>
  /\ room = NoCall.room /\ told = Nothing /\ failed = 0 /\ built = 0 /\ answer = 0

Begin(call) ==
  /\ pc = "idle" /\ asked' = call /\ room' = call.room
  /\ failed' = 0 /\ built' = 0

(* the call answers at once *)
Answered(value, gives) ==
  /\ pc' = "answered" /\ answer' = value /\ told' = gives /\ calls' = <<>>
  /\ UNCHANGED dict

How(w, flags) == [flags |-> flags, scheme |-> GetCapScheme(w).scheme]

ReadsOf(w, flags) == ScanDictionary(dict, GetCapScheme(w).text, How(w, flags))

CheckWord ==
  \E w \in Asked, flags \in FlagSets :
    /\ Begin([NoCall EXCEPT !.call = "check", !.word = w, !.flags = flags \cup {"first"}])
    /\ Answered(IF TooLong(w) THEN WORDBUFF_FAILED
                ELSE IF ReadsOf(w, flags) # <<>> THEN 1 ELSE 0, Nothing)
    /\ UNCHANGED <<scheme, stemText>>

(* the actor is called for the stems found, for none if the first one is enough *)
StartWith(call, how, text, found) ==
  /\ Begin(call)
  /\ pc' = call.call
  /\ scheme' = how.scheme /\ stemText' = text
  /\ calls' = IF "first" \in how.flags THEN <<>> ELSE found
  /\ told' = Nothing /\ answer' = 0
  /\ UNCHANGED dict

Refuse(call) ==
  /\ Begin(call) /\ Answered(WORDBUFF_FAILED, Nothing) /\ UNCHANGED <<scheme, stemText>>

StartWithWord(call) ==
  IF TooLong(call.word) THEN Refuse(call)
  ELSE StartWith(call, How(call.word, call.flags), GetCapScheme(call.word).text,
                 ReadsOf(call.word, call.flags))

(* the options are not looked at on the way to a lexeme *)
StartWithLexeme(call) ==
  LET jump == DirectPageJump(dict, call.lex)
  IN StartWith(call, [flags |-> {}, scheme |-> 0], jump.word, jump.calls)

Lemmatize ==
  \E w \in Asked, flags \in FlagSets, r \in LemmRooms :
    StartWithWord([NoCall EXCEPT !.call = "lemmatize", !.word = w, !.flags = flags, !.room = r])

BuildForm ==
  \E form \in IdForms, size \in TextRooms :
    LET call == [NoCall EXCEPT !.call = "build", !.idform = form, !.room.text = size % 65536]
    IN \/ \E w \in Asked, flags \in FlagSets :
            StartWithWord([call EXCEPT !.word = w, !.flags = flags])
       \/ \E lex \in Lexemes : StartWithLexeme([call EXCEPT !.lex = lex])

(* the size goes into 16 bits *)
ListForms ==
  \E lex \in Lexemes, size \in TextRooms :
    StartWithLexeme([NoCall EXCEPT !.call = "list", !.lex = lex, !.room.text = size % 65536])

Parts0 == scheme \div 256

TakeCall ==
  /\ calls # <<>> /\ calls' = Tail(calls)
  /\ UNCHANGED <<dict, pc, asked, scheme, stemText, answer>>

Ignored == failed # 0 /\ UNCHANGED <<room, told, failed, built>>

Wants(array) == room[array] # NoBuffer

(* altered: a description is counted without the byte of their number *)
InfoSizeShort(c) == Len(c.forms) * GramSize

InfoSize(c) == Len(c.forms) * GramSize + 1

Limit(c) ==
  IF Wants("text") /\ room.text <= LemmaLength(stemText, c) THEN LEMMBUFF_FAILED
  ELSE IF Wants("lids") /\ room.lids = 0 THEN LIDSBUFF_FAILED
  ELSE IF Wants("grams") /\ room.grams < InfoSize(c) THEN GRAMBUFF_FAILED
  ELSE 0

(* one array after the other: what came before the one without room is written *)
ActLemmatize(c) ==
  LET text  == Wants("text") /\ Limit(c) # LEMMBUFF_FAILED
      lid   == Wants("lids") /\ Limit(c) \notin {LEMMBUFF_FAILED, LIDSBUFF_FAILED}
      gram  == Wants("grams") /\ Limit(c) = 0
  IN /\ failed = 0 /\ failed' = Limit(c)
     /\ told' = [told EXCEPT
          !.texts = IF text THEN Append(@, LemmaText(stemText, c, Parts0)) ELSE @,
          !.lids  = IF lid THEN Append(@, c.stem.lex) ELSE @,
          !.grams = IF gram THEN Append(@, c.forms) ELSE @]
     /\ room' = [room EXCEPT
          !.text  = IF text THEN @ - LemmaLength(stemText, c) - 1 ELSE @,
          !.lids  = IF lid THEN @ - 1 ELSE @,
          !.grams = IF gram THEN @ - InfoSize(c) ELSE @]
     /\ built' = IF Limit(c) = 0 THEN built + 1 ELSE built

Lemma ==
  /\ pc = "lemmatize" /\ TakeCall
  /\ Ignored \/ ActLemmatize(Head(calls))

(* the texts, each with its zero, that go into the room one after the other *)
Sizes(texts) == FoldLeft(LAMBDA sum, t : sum + Len(t) + 1, 0, texts)

Fit(texts, size) ==
  MaxOf({k \in 0 .. Len(texts) : Sizes(SubSeq(texts, 1, k)) <= size})

Write(texts, code) ==
  /\ told' = [told EXCEPT !.texts = @ \o texts]
  /\ room' = [room EXCEPT !.text = @ - Sizes(texts)]
  /\ built' = built + Len(texts)
  /\ failed' = code

(* a fixed stem has its text for every form *)
ActBuildForm(c) ==
  LET tails == IF Inflects(c.stem) THEN TailsOf(c.stem, asked.idform) ELSE << <<>> >>
      texts == [k \in DOMAIN tails |-> FormText(stemText, c, tails[k], Parts0)]
      n == Fit(texts, room.text)
  IN failed = 0 /\ Write(SubSeq(texts, 1, n), IF n < Len(texts) THEN LEMMBUFF_FAILED ELSE 0)

Form ==
  /\ pc = "build" /\ TakeCall
  /\ Ignored \/ ActBuildForm(Head(calls))

(* altered: a form written before for the stem is written again *)
RegisterTwice(list, t, size) ==
  IF Sizes(list) + Len(t) + 1 >= size \/ Len(list) >= ListMax
    THEN [list |-> list, full |-> TRUE]
    ELSE [list |-> Append(list, t), full |-> FALSE]

(* makelist::Register and uniqlist::Append: a byte more than the form must be *)
(* free, also for a form that is there                                        *)
Register(list, t, size) ==
  IF Sizes(list) + Len(t) + 1 >= size THEN [list |-> list, full |-> TRUE]
  ELSE IF t \in ToSet(list) THEN [list |-> list, full |-> FALSE]
  ELSE IF Len(list) >= ListMax THEN [list |-> list, full |-> TRUE]
  ELSE [list |-> Append(list, t), full |-> FALSE]

(* CreateFormList: every ending of the table, until one is refused *)
CreateFormList(c, size) ==
  LET tails == IF Inflects(c.stem) THEN [k \in DOMAIN Table(c.stem) |-> Table(c.stem)[k].text]
               ELSE << <<>> >>
      one(done, tail) ==
        IF done.full THEN done
        ELSE Register(done.list, FormText(stemText, c, tail, 0), size)
  IN FoldLeft(one, [list |-> <<>>, full |-> FALSE], tails)

ActListForms(c) ==
  LET done == CreateFormList(c, room.text)
  IN failed = 0 /\ Write(done.list, IF done.full THEN WORDBUFF_FAILED ELSE 0)

List ==
  /\ pc = "list" /\ TakeCall
  /\ Ignored \/ ActListForms(Head(calls))

(* the scan is over *)
Finish ==
  /\ pc \in {"lemmatize", "build", "list"} /\ calls = <<>>
  /\ pc' = "answered" /\ answer' = IF failed # 0 THEN failed ELSE built
  /\ UNCHANGED <<dict, asked, scheme, stemText, calls, room, told, failed, built>>

(* altered: every lexeme of the index is told *)
IndexedAll == FlattenSeq([p \in DOMAIN dict.lids |-> SetToSortSeq(DOMAIN dict.lids[p], <)])

(* the lexemes of the index that have a page, one page of it after the other *)
Indexed ==
  FlattenSeq([p \in DOMAIN dict.lids |->
     SetToSortSeq({l \in DOMAIN dict.lids[p] : dict.lids[p][l].page # 0}, <)])

EnumWords ==
  /\ Begin([NoCall EXCEPT !.call = "enum"])
  /\ pc' = "enum" /\ calls' = Indexed /\ told' = Nothing /\ answer' = 0
  /\ UNCHANGED <<dict, scheme, stemText>>

(* the caller's function may stop the enumeration *)
EnumProc ==
  /\ pc = "enum" /\ calls # <<>>
  /\ told' = [told EXCEPT !.lids = Append(@, Head(calls))]
  /\ calls' = Tail(calls)
  /\ \/ UNCHANGED <<pc, answer>>
     \/ pc' = "answered" /\ answer' = 0
  /\ UNCHANGED <<dict, asked, scheme, stemText, room, failed, built>>

NoMoreWords ==
  /\ pc = "enum" /\ calls = <<>> /\ pc' = "answered" /\ answer' = 1
  /\ UNCHANGED <<dict, asked, scheme, stemText, calls, room, told, failed, built>>

CheckHelp ==
  \E p \in Patterns :
    LET small == [i \in DOMAIN p |-> Lower(p[i])]
        given == IF Len(p) > WordMax THEN {} ELSE WildScanDictionary(dict, small)
    IN /\ Begin([NoCall EXCEPT !.call = "help", !.word = small])
       /\ Answered(Cardinality(given), [Nothing EXCEPT !.offered = given])
       /\ UNCHANGED <<scheme, stemText>>

(* wInfo: the type and the lower bit of the capitals *)
WdInfo(class) == class.type + 128 * (class.minCap % 2)

(* the class, with the bits of the lexeme's size *)
ClassRef(s) == s.class + 4096 * s.lids

(* the actors write over what they wrote for an earlier stem of the lexeme *)
Describe(call) ==
  \E lex \in Lexemes :
    LET stems == DirectPageJump(dict, lex).calls
        s == Last(stems).stem
    IN /\ Begin([NoCall EXCEPT !.call = call, !.lex = lex])
       /\ IF stems = <<>> THEN Answered(0, Nothing)
          ELSE Answered(1, [Nothing EXCEPT !.info =
                             IF call = "info" THEN WdInfo(ClassOf(s)) ELSE ClassRef(s)])
       /\ UNCHANGED <<scheme, stemText>>

GetWordInfo == Describe("info")

GetClassRef == Describe("class")

GetTypeInfo(iclass) == WdInfo(Classes[iclass % 4096])

Return ==
  /\ pc = "answered" /\ pc' = "idle"
  /\ asked' = NoCall /\ scheme' = 0 /\ stemText' = <<>> /\ calls' = <<>>
  /\ room' = NoCall.room /\ told' = Nothing /\ failed' = 0 /\ built' = 0 /\ answer' = 0
  /\ UNCHANGED dict

Next ==
  \/ CheckWord \/ Lemmatize \/ BuildForm \/ ListForms
  \/ Lemma \/ Form \/ List \/ Finish
  \/ EnumWords \/ EnumProc \/ NoMoreWords
  \/ CheckHelp \/ GetWordInfo \/ GetClassRef
  \/ Return

Spec == Init /\ [][Next]_vars

-------------------------------------------------------------------------------
(* What the dictionary says, whatever its pages look like. *)

(* the words of a stem; a fixed one is looked up without its postfix *)
WordsOf(x) ==
  IF Inflects(x.stem)
    THEN UNION {{[text |-> x.at \o x.stem.frag \o t \o x.stem.post, form |-> f - 1] :
                   t \in ClassOf(x.stem).forms[f]} : f \in DOMAIN ClassOf(x.stem).forms}
    ELSE {[text |-> x.at \o x.stem.frag, form |-> NonFlective]}

Small(w) == [i \in DOMAIN w |-> Lower(w[i])]

Readers(w, flags) ==
  {x \in dict.stems : /\ MayBeWritten(x.stem, How(w, flags))
                      /\ \E v \in WordsOf(x) : v.text = Small(w)}

(* the texts of a form, those of the least form being the normal forms *)
FormTexts(x, form) ==
  IF Inflects(x.stem) THEN {v.text : v \in {u \in WordsOf(x) : u.form = form}}
                      ELSE {v.text \o x.stem.post : v \in WordsOf(x)}

Lemmas(x) == FormTexts(x, MinOf({v.form : v \in WordsOf(x)}))

(* the length of a lemma is computed from the wrong byte *)
Miscounted(s) == s.post # <<>> /\ ClassOf(s).behind # Len(s.post)

Over(call) == pc = "answered" /\ asked.call = call

(* a byte for their number, and the meanings *)
GramBytes(grams) == FoldLeft(LAMBDA sum, g : sum + 1 + Len(g) * GramSize, 0, grams)

(* The arrays are filled within their sizes, text by text. *)
EngTypeOK ==
  /\ pc \in {"idle", "lemmatize", "build", "list", "enum", "answered"}
  /\ room \in [text: Nat \cup {NoBuffer}, lids: Nat \cup {NoBuffer}, grams: Nat \cup {NoBuffer}]
  /\ failed \in {0, LEMMBUFF_FAILED, LIDSBUFF_FAILED, GRAMBUFF_FAILED, WORDBUFF_FAILED}
  /\ Wants("text") => Sizes(told.texts) + room.text = asked.room.text
  /\ Wants("grams") => GramBytes(told.grams) + room.grams = asked.room.grams
  /\ told.offered \subseteq 0 .. 127 /\ told.info \in 0 .. 65535
  /\ asked.call \in {"lemmatize", "build", "list"} => (answer < 0 => failed # 0 \/ TooLong(asked.word))
  /\ failed = 0 => built \in Nat

(* reading x, as the three arrays tell it at i *)
Tells(i, x) ==
  /\ asked.room.lids # NoBuffer => told.lids[i] = x.stem.lex
  /\ asked.room.grams # NoBuffer =>
       ToSet(told.grams[i]) = {v.form : v \in {u \in WordsOf(x) : u.text = Small(asked.word)}}
  /\ asked.room.text # NoBuffer =>
       Small(told.texts[i]) \in Lemmas(x) \/ Miscounted(x.stem)

(* A word is known exactly when some stem has it among its words and may be    *)
(* written so, and Lemmatize tells every such stem once, its lexeme, the       *)
(* meanings of the word and a normal form side by side in the three arrays;    *)
(* when an array is too short, what was told before it stands (scandict.cpp,   *)
(* lemmatiz.cpp:221-353).  Of a stem with a postfix the normal form is right   *)
(* only if a byte of its class happens to be the length of the postfix.        *)
EngReadings ==
  /\ Over("check") /\ ~TooLong(asked.word) =>
       (answer = 1 <=> Readers(asked.word, asked.flags) # {})
  /\ Over("lemmatize") /\ ~TooLong(asked.word) /\ "first" \notin asked.flags =>
       LET readers == Readers(asked.word, asked.flags)
       IN /\ \A i \in 1 .. built : \E x \in readers : Tells(i, x)
          /\ failed = 0 =>
               /\ answer = Cardinality(readers)
               /\ \A x \in readers : \E i \in 1 .. built : Tells(i, x)

(* the stems BuildForm and ListForms are about, and the forms they want of one *)
Meant ==
  IF asked.word = NoWord THEN {x \in dict.stems : x.stem.lex = asked.lex /\ x.at = stemText}
  ELSE IF "first" \in asked.flags THEN {} ELSE Readers(asked.word, asked.flags)

WantedOf(x) ==
  IF asked.call = "build" THEN FormTexts(x, asked.idform)
  ELSE UNION {FormTexts(x, v.form) : v \in WordsOf(x)}

(* no scheme the library writes is good for it: more than three parts, or a    *)
(* name with a part of one letter, which reads as a part in capitals           *)
Unwritable(x, t) ==
  \/ Parts(t) > 3
  \/ ClassOf(x.stem).minCap = 1 /\ \E p \in 0 .. Parts(t) - 1 : Len(Part(t, p)) = 1

RECURSIVE AddUp(_, _)
AddUp(Of(_), S) == IF S = {} THEN 0 ELSE LET x == CHOOSE y \in S : TRUE IN Of(x) + AddUp(Of, S \ {x})

(* BuildForm and ListForms give every form they are asked for, of every stem   *)
(* meant, once for each of them and no other, each whole, and stop only for    *)
(* want of room: ListForms may want a byte, and room for one form it has       *)
(* already, more than it writes (lemmatiz.cpp:82-85, 166-173), and it has      *)
(* places for ListMax forms of a stem.  A form given is known when it is       *)
(* looked up, as a word of its lexeme.                                         *)
EngFormsBack ==
  (Over("build") \/ Over("list")) /\ (asked.word # NoWord => ~TooLong(asked.word)) =>
    LET all == UNION {WantedOf(x) : x \in Meant}
        total == AddUp(LAMBDA x : Cardinality(WantedOf(x)), Meant)
        bytes == AddUp(LAMBDA x : AddUp(LAMBDA t : Len(t) + 1, WantedOf(x)), Meant)
        spare == IF asked.call = "build" THEN 0 ELSE 1 + MaxOf({0} \cup {Len(t) + 1 : t \in all})
    IN /\ \A i \in DOMAIN told.texts :
            \E x \in Meant :
              /\ Small(told.texts[i]) \in WantedOf(x)
              /\ \/ Unwritable(x, told.texts[i])
                 \/ ~Inflects(x.stem) /\ x.stem.post # <<>>
                 \/ \E r \in ToSet(ReadsOf(told.texts[i], {})) : r.stem.lex = x.stem.lex
       /\ failed = 0 => /\ {Small(told.texts[i]) : i \in DOMAIN told.texts} = all
                        /\ answer = total /\ Len(told.texts) = total
       /\ failed # 0 =>
            \/ asked.room.text < bytes + spare
            \/ asked.call = "list" /\ \E x \in Meant : Cardinality(WantedOf(x)) > ListMax

(* Where the pattern has its one wildcard, and what stands before it. *)
FirstWild == WildOffset(asked.word) + 1
BeforeWild == SubSeq(asked.word, 1, FirstWild - 1)

(* the characters the words of a stem have in the place of the wildcard, and 0 *)
(* if one ends there                                                           *)
NextChars(x) ==
  LET rest == Skip(asked.word, FirstWild)
      ast == asked.word[FirstWild] = Ast
      fits(t) == \/ t = BeforeWild /\ (rest = <<>> \/ ast)
                 \/ /\ IsPrefix(BeforeWild, t) /\ Len(t) >= FirstWild
                    /\ ast \/ Skip(t, FirstWild) = rest
      matching == {t \in {v.text : v \in WordsOf(x)} : fits(t)}
  IN {IF Len(t) < FirstWild THEN Nul ELSE t[FirstWild] : t \in matching}

WithoutPost(x) == [x EXCEPT !.stem.post = <<>>]

(* where WildStemComp goes on to the endings as if the fragment were not there *)
(* (238), and where WildScanPage takes a -1 of StemComp for a yes (333)        *)
MayInvent(x) ==
  /\ asked.word[FirstWild] = Quest
  /\ IsStrictPrefix(BeforeWild, x.at \o x.stem.frag)

(* CheckHelp offers the characters words of the dictionary have in the place   *)
(* of the wildcard, each of them and no others (wildscan.cpp).  Of a stem with *)
(* a postfix these may be the characters of its words without the postfix; and *)
(* for a question mark that stands within a stem it may offer more.            *)
EngHelp ==
  Over("help") /\ Len(asked.word) <= WordMax =>
    /\ ~IsWildMask(asked.word) => told.offered = {}
    /\ IsWildMask(asked.word)
       /\ (asked.word[FirstWild] = Quest => ~IsWildMask(Skip(asked.word, FirstWild))) =>
         /\ \A x \in dict.stems : x.stem.post = <<>> => NextChars(x) \subseteq told.offered
         /\ \/ told.offered \subseteq
                  UNION {NextChars(x) \cup NextChars(WithoutPost(x)) : x \in dict.stems}
            \/ \E x \in dict.stems : MayInvent(x)

(* EnumWords tells every lexeme that has a stem, once, and no other: the       *)
(* lexemes for which GetWordInfo and GetClassRef have an answer.  That answer  *)
(* is of a stem of the lexeme, and the class that GetClassRef gives leads      *)
(* GetTypeInfo to its type, although it has bits of the lexeme's size in it    *)
(* (mlmamain.cpp, lemmatiz.cpp:197-219).                                       *)
EngLexemes ==
  LET known == {x.stem.lex : x \in dict.stems}
  IN /\ Over("enum") => /\ ToSet(told.lids) \subseteq known
                        /\ Len(told.lids) = Cardinality(ToSet(told.lids))
                        /\ answer = 1 => ToSet(told.lids) = known
     /\ Over("info") \/ Over("class") =>
          /\ answer = 1 <=> asked.lex \in known
          /\ answer = 1 =>
               \E x \in dict.stems :
                 /\ x.stem.lex = asked.lex
                 /\ WdInfo(ClassOf(x.stem)) =
                      IF asked.call = "info" THEN told.info ELSE GetTypeInfo(told.info)
===============================================================================
