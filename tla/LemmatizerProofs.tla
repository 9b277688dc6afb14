--------------------------- MODULE LemmatizerProofs ---------------------------
(***************************************************************************)
(* What holds of Lemmatizer whatever the lexemes, the lengths of their     *)
(* normal forms, the lists of meanings, the sizes of the caller's arrays   *)
(* and the number of stems found.  The type invariant comes first, then    *)
(* the inductive invariant LInv: the safety invariants of the runs and the *)
(* one fact they lack, that the count of descriptions never exceeds the    *)
(* array.  The refinement of LemmaCount rests on both.                     *)
(***************************************************************************)
EXTENDS Lemmatizer, TLAPS, SequenceTheorems

Gram == [lex: Lexemes, form: Nat]

Lemma == [lex: Lexemes, form: Nat \cup {NoBuffer}, fend: Nat \cup {NoBuffer},
          gram: Nat \cup {NoBuffer}, ngrams: Nat]

(* A form takes at least the byte of its zero (lemmatiz.cpp:119-137). *)
LEMMA BytesPositive ==
  ASSUME TypeOK, NEW h \in Hits
  PROVE  Bytes(h) \in Nat /\ Bytes(h) > 0
<1>1. h.size \in Nat
  BY SizesAssumption DEF Hits
<1>2. \A m, n \in Nat : m * n \in Nat
  OBVIOUS
<1>3. Wide * h.size \in Nat
  BY <1>1, <1>2, SizesAssumption
<1> QED
  BY <1>1, <1>3 DEF Bytes, TypeOK

(* What a stem adds to the meanings is its own: gramBuffer entries of its      *)
(* lexeme, none when the merge finds form zero (lemmatiz.cpp:140-153).         *)
LEMMA NewGramsOwn ==
  ASSUME NEW h \in Hits
  PROVE  /\ NewGrams(h) \in Seq(Gram)
         /\ \A k \in 1 .. Len(NewGrams(h)) : NewGrams(h)[k].lex = h.lex
<1>1. h.flexes \in Seq(Nat) /\ h.lex \in Lexemes
  BY FlexAssumption DEF Hits
<1> DEFINE g == [k \in DOMAIN h.flexes |-> [lex |-> h.lex, form |-> h.flexes[k]]]
<1>2. /\ DOMAIN h.flexes = 1 .. Len(h.flexes) /\ Len(h.flexes) \in Nat
      /\ \A k \in 1 .. Len(h.flexes) : h.flexes[k] \in Nat
  BY <1>1
<1>3. g \in [1 .. Len(h.flexes) -> Gram]
  BY <1>1, <1>2 DEF Gram
<1>4. g \in Seq(Gram) /\ Len(g) = Len(h.flexes)
  BY <1>2, <1>3
<1>5. \A k \in 1 .. Len(g) : g[k].lex = h.lex
  BY <1>2, <1>4
<1>6. <<>> \in Seq(Gram) /\ Len(<<>>) = 0
  OBVIOUS
<1>7. NewGrams(h) = <<>> \/ NewGrams(h) = g
  BY DEF NewGrams
<1> HIDE DEF g
<1>8. CASE NewGrams(h) = g
  BY <1>4, <1>5, <1>8
<1>9. CASE NewGrams(h) = <<>>
  <2>1. 1 .. Len(NewGrams(h)) = {}
    BY <1>6, <1>9
  <2> QED
    BY <1>6, <1>9, <2>1
<1> QED
  BY <1>7, <1>8, <1>9

(* The array of meanings only grows, and what was written stays; a call that   *)
(* finds no room fills it to its end (lemmatiz.cpp:144-156).                   *)
LEMMA GramsGrow ==
  ASSUME TypeOK, NEW h \in Hits, NoGramRoom(h) \/ Everything(h)
  PROVE  /\ grams' \in Seq(Gram)
         /\ Len(grams') >= Len(grams)
         /\ \A k \in 1 .. Len(grams) : grams'[k] = grams[k]
         /\ Given("grams") /\ Len(grams) <= caps.grams => Len(grams') <= caps.grams
         /\ NoGramRoom(h) /\ Len(grams) <= caps.grams => Len(grams') = caps.grams
<1>1. grams \in Seq(Gram) /\ Len(grams) \in Nat
  BY DEF TypeOK, Gram
<1>2. NewGrams(h) \in Seq(Gram) /\ Len(NewGrams(h)) \in Nat
  BY NewGramsOwn
<1>3. Given("grams") => caps.grams \in Nat
  BY DEF TypeOK, Given
<1>4. CASE NoGramRoom(h)
  <2> DEFINE n == caps.grams - Len(grams)
  <2> DEFINE t == SubSeq(NewGrams(h), 1, n)
  <2>1. /\ Given("grams") /\ ~GramsFit(h)
        /\ grams' = grams \o t
    BY <1>4 DEF NoGramRoom, WritesGrams
  <2>2. n \in Int /\ n <= Len(NewGrams(h))
    <3>1. CASE NewGrams(h) = <<>>
      <4>1. Len(NewGrams(h)) = 0
        BY <3>1
      <4> QED
        BY <1>1, <1>3, <2>1, <3>1, <4>1 DEF GramsFit
    <3>2. CASE NewGrams(h) # <<>>
      BY <1>1, <1>2, <1>3, <2>1, <3>2 DEF GramsFit
    <3> QED
      BY <3>1, <3>2
  <2>3. \A i \in 1 .. n : NewGrams(h)[i] \in Gram
    BY <1>2, <2>2, ElementOfSeq
  <2> HIDE DEF n
  <2>4. t \in Seq(Gram) /\ Len(t) = IF 1 <= n THEN n ELSE 0
    BY <2>2, <2>3, SubSeqProperties, Z3
  <2> HIDE DEF t
  <2>5. /\ grams' \in Seq(Gram)
        /\ Len(grams') = Len(grams) + Len(t)
        /\ \A k \in 1 .. Len(grams) : grams'[k] = grams[k]
    BY <1>1, <2>1, <2>4, ConcatProperties
  <2> QED
    BY <1>1, <1>3, <2>1, <2>2, <2>4, <2>5 DEF n
<1>5. CASE Everything(h)
  <2>1. CASE ~WritesGrams
    <3>1. ~NoGramRoom(h)
      BY <2>1 DEF NoGramRoom
    <3> QED
      BY <1>1, <1>5, <2>1, <3>1 DEF Everything
  <2>2. CASE WritesGrams
    <3>1. /\ Given("grams") /\ GramsFit(h)
          /\ grams' = grams \o NewGrams(h)
          /\ ~NoGramRoom(h)
      BY <1>5, <2>2 DEF Everything, WritesGrams, NoGramRoom
    <3>2. /\ grams' \in Seq(Gram)
          /\ Len(grams') = Len(grams) + Len(NewGrams(h))
          /\ \A k \in 1 .. Len(grams) : grams'[k] = grams[k]
      BY <1>1, <1>2, <3>1, ConcatProperties
    <3>3. NewGrams(h) = <<>> => Len(NewGrams(h)) = 0
      OBVIOUS
    <3> QED
      BY <1>1, <1>2, <1>3, <3>1, <3>2, <3>3 DEF GramsFit
  <2> QED
    BY <2>1, <2>2
<1> QED
  BY <1>4, <1>5

-------------------------------------------------------------------------------

(* The description of a stem is one the array of descriptions may hold         *)
(* (lemmatiz.cpp:73-76 and 155).                                               *)
LEMMA DescriptionType ==
  ASSUME TypeOK, NEW h \in Hits
  PROVE  Description(h) \in Lemma
<1>1. h.lex \in Lexemes
  BY DEF Hits
<1>2. pforms \in Nat /\ AfterForm(h) \in Nat
  BY BytesPositive DEF TypeOK, AfterForm
<1>3. Len(grams) \in Nat /\ Len(NewGrams(h)) \in Nat
  BY NewGramsOwn DEF TypeOK
<1> QED
  BY <1>1, <1>2, <1>3 DEF Description, Lemma

(* No step of InsertStem leaves the types, in whatever way it ends. *)
LEMMA InsertStemType ==
  ASSUME TypeOK, NEW h \in Hits, InsertStem(h)
  PROVE  TypeOK'
<1> USE DEF LIDSBUFF_FAILED, LEMMBUFF_FAILED, GRAMBUFF_FAILED, Errors
<1>1. /\ nerror = 0 /\ nhits' = nhits + 1 /\ nhits < MaxHits
      /\ UNCHANGED <<pc, caps, narrow, result>>
  BY DEF InsertStem, Called
<1>2. nhits' \in 0 .. MaxHits
  BY <1>1, SizesAssumption DEF TypeOK
<1>3. AfterForm(h) \in Nat
  BY BytesPositive DEF TypeOK, AfterForm
<1>4. \A n \in Nat : StoredTo(n) => slots' \in Nat
  BY DEF TypeOK, StoredTo
<1>5. CASE NoSlot(h)
  BY <1>1, <1>2, <1>5 DEF NoSlot, TypeOK, Given
<1>6. CASE NoFormRoom(h)
  <2>1. caps.forms \in Nat
    BY <1>6 DEF NoFormRoom, WritesForm, Given, TypeOK
  <2>2. pforms' \in Nat /\ slots' \in Nat
    BY <1>4, <1>6, <2>1 DEF NoFormRoom, TypeOK
  <2> QED
    BY <1>1, <1>2, <1>6, <2>2 DEF NoFormRoom, TypeOK, Given
<1>7. CASE NoGramRoom(h)
  <2>1. grams' \in Seq(Gram)
    BY <1>7, GramsGrow
  <2>2. pforms' \in Nat /\ slots' \in Nat
    BY <1>3, <1>4, <1>7 DEF NoGramRoom, TypeOK
  <2> QED
    BY <1>1, <1>2, <1>7, <2>1, <2>2 DEF NoGramRoom, TypeOK, Given, Gram
<1>8. CASE Register(h)
  <2>1. grams' \in Seq(Gram) /\ pforms' \in Nat
    BY <1>3, <1>8, GramsGrow DEF Register, Everything
  <2>2. slots' \in Nat /\ nlemma' \in Nat /\ nerror' = nerror
    BY <1>4, <1>8 DEF Register, TypeOK
  <2>3. /\ lemma' \in Seq(Lemma)
        /\ Given("lemmas") => Len(lemma') = nlemma'
    <3>1. lemma \in Seq(Lemma)
      BY DEF TypeOK, Lemma
    <3> QED
      BY <1>8, <3>1, DescriptionType DEF Register, TypeOK
  <2> QED
    BY <1>1, <1>2, <2>1, <2>2, <2>3 DEF TypeOK, Given, Gram, Lemma
<1>9. CASE Merge(h)
  <2>1. grams' \in Seq(Gram) /\ pforms' \in Nat
    BY <1>3, <1>9, GramsGrow DEF Merge, Everything
  <2>2. slots' \in Nat
    BY <1>4, <1>9 DEF Merge, TypeOK
  <2> QED
    BY <1>1, <1>2, <1>9, <2>1, <2>2 DEF Merge, TypeOK, Given, Gram
<1> QED
  BY <1>5, <1>6, <1>7, <1>8, <1>9 DEF InsertStem

LEMMA InitType == Init => TypeOK
  BY SizesAssumption DEF Init, TypeOK, NoBuffer, Given, Errors

LEMMA NextType == TypeOK /\ [Next]_vars => TypeOK'
<1> SUFFICES ASSUME TypeOK, [Next]_vars PROVE TypeOK'
  OBVIOUS
<1>1. CASE Lemmatize
  <2>1. caps' \in [lemmas: Nat \cup {NoBuffer}, forms: Nat \cup {NoBuffer},
                   grams: Nat \cup {NoBuffer}]
    BY <1>1, SizesAssumption DEF Lemmatize
  <2>2. nhits' \in 0 .. MaxHits
    BY <1>1, SizesAssumption DEF Lemmatize
  <2>3. lemma' = <<>> /\ grams' = <<>> /\ Len(lemma') = 0
    BY <1>1 DEF Lemmatize
  <2>4. \A S : <<>> \in Seq(S)
    OBVIOUS
  <2> QED
    BY <1>1, <2>1, <2>2, <2>3, <2>4 DEF Lemmatize, TypeOK
<1>2. CASE RefuseWord
  BY <1>2 DEF RefuseWord, TypeOK, Given
<1>3. CASE \E h \in Hits : InsertStem(h)
  BY <1>3, InsertStemType
<1>4. CASE Return
  BY <1>4 DEF Return, TypeOK, Given, Errors, LIDSBUFF_FAILED, LEMMBUFF_FAILED,
              GRAMBUFF_FAILED
<1>5. CASE UNCHANGED vars
  BY <1>5 DEF vars, TypeOK, Given
<1> QED
  BY <1>1, <1>2, <1>3, <1>4, <1>5 DEF Next

(* Type correctness of the actor and of the arrays it fills, for every size of *)
(* the arrays and every dictionary (lemmatiz.h:48-74).                         *)
THEOREM Types == Spec => []TypeOK
<1> QED
  BY InitType, NextType, PTL DEF Spec

-------------------------------------------------------------------------------

(* The safety invariants are preserved together.  What they lack is that an    *)
(* accepted description had its place in the array: without it a full array    *)
(* (LIDSBUFF_FAILED) could be one that was already overrun.                    *)
LInv ==
  /\ FormsComplete
  /\ GramsOwned
  /\ ErrorNamesFullArray
  /\ NeighboursDiffer
  /\ Given("lemmas") => nlemma <= caps.lemmas

(* A stem that is registered leaves the earlier descriptions alone and adds    *)
(* its own behind them (lemmatiz.cpp:159-160).                                 *)
LEMMA RegisterAppends ==
  ASSUME TypeOK, NEW h \in Hits, Register(h)
  PROVE  \/ /\ ~Given("lemmas") /\ lemma' = lemma
         \/ /\ Given("lemmas")
            /\ Len(lemma) = nlemma /\ Len(lemma') = nlemma + 1
            /\ \A i \in 1 .. nlemma : lemma'[i] = lemma[i]
            /\ lemma'[nlemma + 1] = Description(h)
<1>1. lemma \in Seq(Lemma)
  BY DEF TypeOK, Lemma
<1> QED
  BY <1>1, DescriptionType DEF Register, TypeOK

LEMMA FormsStep ==
  ASSUME TypeOK, FormsComplete, NEW h \in Hits, InsertStem(h)
  PROVE  FormsComplete'
<1> SUFFICES ASSUME Given("forms") PROVE FormsComplete'
  BY DEF InsertStem, FormsComplete, Given
<1> DEFINE Fits(ls, p) ==
      \A i \in 1 .. Len(ls) :
         /\ 0 <= ls[i].form /\ ls[i].form < ls[i].fend
         /\ ls[i].fend <= p
         /\ \A j \in i + 1 .. Len(ls) : ls[i].fend <= ls[j].form
<1>1. /\ caps' = caps /\ caps.forms \in Nat
      /\ pforms \in Nat /\ pforms <= caps.forms
      /\ Fits(lemma, pforms)
  BY DEF InsertStem, TypeOK, FormsComplete, Given
<1>2. lemma \in Seq(Lemma) /\ Len(lemma) \in Nat
  BY DEF TypeOK, Lemma
<1>3. \A i \in 1 .. Len(lemma) : lemma[i].form \in Int /\ lemma[i].fend \in Int
  <2>1. \A i \in 1 .. Len(lemma) : lemma[i] \in Lemma
    BY <1>2, ElementOfSeq
  <2> QED
    BY <2>1 DEF Lemma, NoBuffer
<1>4. \A p \in Nat : pforms <= p => Fits(lemma, p)
  BY <1>1, <1>2, <1>3
<1>5. AfterForm(h) \in Nat /\ pforms <= AfterForm(h)
      /\ (WritesForm(h) => pforms < AfterForm(h))
  BY <1>1, BytesPositive DEF AfterForm
<1>6. Fits(lemma, pforms') /\ pforms' <= caps.forms /\ lemma' = lemma => FormsComplete'
  BY <1>1 DEF FormsComplete, Given
<1>7. WritesForm(h) /\ FormFits(h) => AfterForm(h) <= caps.forms
  BY DEF FormFits, AfterForm
<1>8. ~WritesForm(h) => AfterForm(h) = pforms
  BY DEF AfterForm
<1> HIDE DEF Fits
<1>9. CASE NoSlot(h)
  BY <1>1, <1>6, <1>9 DEF NoSlot
<1>10. CASE NoFormRoom(h)
  BY <1>1, <1>4, <1>6, <1>10 DEF NoFormRoom
<1>11. CASE NoGramRoom(h)
  BY <1>1, <1>4, <1>5, <1>6, <1>7, <1>8, <1>11 DEF NoGramRoom
<1>12. CASE Merge(h)
  BY <1>1, <1>4, <1>5, <1>6, <1>7, <1>8, <1>12 DEF Merge, Everything
<1>13. CASE Register(h)
  <2>1. pforms' = AfterForm(h) /\ pforms' <= caps.forms /\ WritesForm(h)
    BY <1>1, <1>7, <1>8, <1>13 DEF Register, Everything, WritesForm
  <2>2. CASE lemma' = lemma
    BY <1>4, <1>5, <1>6, <2>1, <2>2
  <2>3. CASE /\ Len(lemma) = nlemma /\ Len(lemma') = nlemma + 1
             /\ \A i \in 1 .. nlemma : lemma'[i] = lemma[i]
             /\ lemma'[nlemma + 1] = Description(h)
    <3>1. /\ lemma'[nlemma + 1].form = pforms
          /\ lemma'[nlemma + 1].fend = AfterForm(h)
      BY <2>3 DEF Description
    <3>2. Fits(lemma, pforms)
      BY <1>1
    <3>3. Fits(lemma', pforms')
      BY <1>1, <1>2, <1>3, <1>5, <2>1, <2>3, <3>1, <3>2 DEF Fits
    <3> QED
      BY <1>1, <2>1, <3>3 DEF FormsComplete, Fits
  <2> QED
    BY <1>13, <2>2, <2>3, RegisterAppends
<1> QED
  BY <1>9, <1>10, <1>11, <1>12, <1>13 DEF InsertStem

LEMMA GramsStep ==
  ASSUME TypeOK, GramsOwned, NEW h \in Hits, InsertStem(h)
  PROVE  GramsOwned'
<1> SUFFICES ASSUME Given("grams") PROVE GramsOwned'
  BY DEF InsertStem, GramsOwned, Given
<1> DEFINE Own(ls, gs) ==
      \A i \in 1 .. Len(ls) :
         /\ 0 <= ls[i].gram
         /\ ls[i].gram + ls[i].ngrams <= Len(gs)
         /\ \A j \in i + 1 .. Len(ls) : ls[i].gram + ls[i].ngrams <= ls[j].gram
         /\ \A k \in ls[i].gram + 1 .. ls[i].gram + ls[i].ngrams :
              gs[k].lex = ls[i].lex
<1>1. /\ caps' = caps /\ caps.grams \in Nat
      /\ Len(grams) <= caps.grams
      /\ Own(lemma, grams)
  BY DEF InsertStem, TypeOK, GramsOwned, Given
<1>2. lemma \in Seq(Lemma) /\ Len(lemma) \in Nat /\ grams \in Seq(Gram)
      /\ Len(grams) \in Nat
  BY DEF TypeOK, Lemma, Gram
<1>3. \A i \in 1 .. Len(lemma) : lemma[i].gram \in Int /\ lemma[i].ngrams \in Nat
  <2>1. \A i \in 1 .. Len(lemma) : lemma[i] \in Lemma
    BY <1>2, ElementOfSeq
  <2> QED
    BY <2>1 DEF Lemma, NoBuffer
<1>4. Own(lemma', grams') /\ Len(grams') <= caps.grams => GramsOwned'
  BY <1>1 DEF GramsOwned, Given
<1>5. ASSUME NoGramRoom(h) \/ Everything(h)
      PROVE  /\ Own(lemma, grams')
             /\ Len(grams') \in Nat /\ Len(grams) <= Len(grams')
             /\ Len(grams') <= caps.grams
  <2>1. /\ grams' \in Seq(Gram) /\ Len(grams') >= Len(grams)
        /\ Len(grams') <= caps.grams
        /\ \A k \in 1 .. Len(grams) : grams'[k] = grams[k]
    BY <1>1, <1>5, GramsGrow
  <2>2. Len(grams') \in Nat
    BY <2>1
  <2>3. ASSUME NEW i \in 1 .. Len(lemma)
        PROVE  /\ lemma[i].gram + lemma[i].ngrams <= Len(grams')
               /\ \A k \in lemma[i].gram + 1 .. lemma[i].gram + lemma[i].ngrams :
                    grams'[k].lex = lemma[i].lex
    <3>1. /\ lemma[i].gram \in Int /\ lemma[i].ngrams \in Nat
          /\ 0 <= lemma[i].gram
          /\ lemma[i].gram + lemma[i].ngrams <= Len(grams)
      BY <1>1, <1>3
    <3>2. \A k \in lemma[i].gram + 1 .. lemma[i].gram + lemma[i].ngrams :
            k \in 1 .. Len(grams) /\ grams[k].lex = lemma[i].lex
      BY <1>1, <1>2, <3>1
    <3> QED
      BY <1>2, <2>1, <2>2, <3>1, <3>2
  <2> QED
    BY <1>1, <2>1, <2>2, <2>3
<1> HIDE DEF Own
<1>6. CASE NoSlot(h)
  BY <1>1, <1>4, <1>6 DEF NoSlot
<1>7. CASE NoFormRoom(h)
  BY <1>1, <1>4, <1>7 DEF NoFormRoom
<1>8. CASE NoGramRoom(h)
  BY <1>4, <1>5, <1>8 DEF NoGramRoom
<1>9. CASE Merge(h)
  BY <1>4, <1>5, <1>9 DEF Merge
<1>10. CASE Register(h)
  <2>1. Everything(h)
    BY <1>10 DEF Register
  <2>2. CASE lemma' = lemma
    BY <1>4, <1>5, <2>1, <2>2
  <2>3. CASE /\ Given("lemmas")
             /\ Len(lemma) = nlemma /\ Len(lemma') = nlemma + 1
             /\ \A i \in 1 .. nlemma : lemma'[i] = lemma[i]
             /\ lemma'[nlemma + 1] = Description(h)
    <3>1. grams' = grams \o NewGrams(h)
      BY <2>1, <2>3 DEF Everything, WritesGrams
    <3>2. NewGrams(h) \in Seq(Gram) /\ Len(NewGrams(h)) \in Nat
      BY NewGramsOwn
    <3>3. /\ Len(grams') = Len(grams) + Len(NewGrams(h))
          /\ \A k \in Len(grams) + 1 .. Len(grams) + Len(NewGrams(h)) :
               grams'[k] = NewGrams(h)[k - Len(grams)]
      BY <1>2, <3>1, <3>2, ConcatProperties
    <3>4. /\ lemma'[nlemma + 1].gram = Len(grams)
          /\ lemma'[nlemma + 1].ngrams = Len(NewGrams(h))
          /\ lemma'[nlemma + 1].lex = h.lex
      BY <2>3 DEF Description, WritesGrams
    <3>5. \A k \in Len(grams) + 1 .. Len(grams) + Len(NewGrams(h)) :
            grams'[k].lex = h.lex
      BY <1>2, <3>2, <3>3, NewGramsOwn
    <3>6. Own(lemma, grams) /\ Own(lemma, grams')
      BY <1>1, <1>5, <2>1
    <3>7. Own(lemma', grams')
      <4>1. ASSUME NEW i \in 1 .. nlemma
            PROVE  /\ 0 <= lemma'[i].gram
                   /\ lemma'[i].gram + lemma'[i].ngrams <= Len(grams)
                   /\ \A j \in i + 1 .. nlemma :
                        lemma'[i].gram + lemma'[i].ngrams <= lemma'[j].gram
                   /\ \A k \in lemma'[i].gram + 1 .. lemma'[i].gram + lemma'[i].ngrams :
                        grams'[k].lex = lemma'[i].lex
        BY <1>2, <2>3, <3>6 DEF Own
      <4>2. ASSUME NEW i \in 1 .. nlemma
            PROVE  \A j \in i + 1 .. nlemma + 1 :
                     lemma'[i].gram + lemma'[i].ngrams <= lemma'[j].gram
        BY <1>2, <2>3, <3>4, <4>1
      <4>3. ASSUME NEW i \in 1 .. nlemma
            PROVE  lemma'[i].gram + lemma'[i].ngrams <= Len(grams')
        <5>1. lemma'[i].gram \in Int /\ lemma'[i].ngrams \in Nat
          BY <1>3, <2>3
        <5> QED
          BY <1>2, <3>2, <3>3, <4>1, <5>1
      <4>4. \A k \in lemma'[nlemma + 1].gram + 1 ..
                     lemma'[nlemma + 1].gram + lemma'[nlemma + 1].ngrams :
              grams'[k].lex = lemma'[nlemma + 1].lex
        BY <3>4, <3>5
      <4>5. 0 <= lemma'[nlemma + 1].gram
            /\ lemma'[nlemma + 1].gram + lemma'[nlemma + 1].ngrams <= Len(grams')
        BY <1>2, <3>2, <3>3, <3>4
      <4>6. nlemma \in Nat /\ 1 .. Len(lemma') = 1 .. nlemma \cup {nlemma + 1}
        BY <1>2, <2>3
      <4>7. \A j \in (nlemma + 1) + 1 .. Len(lemma') : FALSE
        BY <2>3, <4>6
      <4> QED
        BY <2>3, <4>1, <4>2, <4>3, <4>4, <4>5, <4>6, <4>7 DEF Own
    <3> QED
      BY <1>4, <1>5, <2>1, <3>7
  <2> QED
    BY <1>10, <2>2, <2>3, RegisterAppends
<1> QED
  BY <1>6, <1>7, <1>8, <1>9, <1>10 DEF InsertStem

LEMMA ErrorStep ==
  ASSUME TypeOK, LInv, NEW h \in Hits, InsertStem(h)
  PROVE  /\ ErrorNamesFullArray'
         /\ (Given("lemmas") => nlemma <= caps.lemmas)'
<1> USE DEF LIDSBUFF_FAILED, LEMMBUFF_FAILED, GRAMBUFF_FAILED
<1>1. caps' = caps /\ narrow' = narrow /\ nerror = 0
  BY DEF InsertStem, Called
<1>2. /\ nlemma \in Nat
      /\ Given("lemmas") => caps.lemmas \in Nat /\ nlemma <= caps.lemmas
  BY DEF TypeOK, LInv, Given
<1>3. CASE NoSlot(h)
  <2>1. Given("lemmas") /\ nlemma = caps.lemmas
    BY <1>2, <1>3 DEF NoSlot, SlotMissing
  <2> QED
    BY <1>1, <1>2, <1>3, <2>1 DEF NoSlot, ErrorNamesFullArray, Given
<1>4. CASE NoFormRoom(h)
  BY <1>1, <1>2, <1>4 DEF NoFormRoom, WritesForm, ErrorNamesFullArray, Given
<1>5. CASE NoGramRoom(h)
  <2>1. Given("grams") /\ Len(grams) <= caps.grams
    BY <1>5 DEF NoGramRoom, WritesGrams, LInv, GramsOwned
  <2>2. Len(grams') = caps.grams
    BY <1>5, <2>1, GramsGrow
  <2>3. nerror' = GRAMBUFF_FAILED /\ nlemma' = nlemma
    BY <1>5 DEF NoGramRoom
  <2>4. \A a : Given(a)' = Given(a)
    BY <1>1 DEF Given
  <2> QED
    BY <1>1, <1>2, <2>1, <2>2, <2>3, <2>4 DEF ErrorNamesFullArray
<1>6. CASE Register(h)
  <2>1. Given("lemmas") => nlemma < caps.lemmas
    BY <1>2, <1>6 DEF Register, Everything, SlotMissing
  <2>2. nlemma' = nlemma + 1 /\ nerror' = nerror
    BY <1>6 DEF Register
  <2> QED
    BY <1>1, <1>2, <2>1, <2>2 DEF ErrorNamesFullArray, Given
<1>7. CASE Merge(h)
  BY <1>1, <1>2, <1>7 DEF Merge, ErrorNamesFullArray, Given
<1> QED
  BY <1>3, <1>4, <1>5, <1>6, <1>7 DEF InsertStem

LEMMA NeighboursStep ==
  ASSUME TypeOK, NeighboursDiffer, NEW h \in Hits, InsertStem(h)
  PROVE  NeighboursDiffer'
<1>1. CASE lemma' = lemma
  BY <1>1 DEF NeighboursDiffer
<1>2. CASE Register(h) /\ lemma' # lemma
  <2>1. /\ Given("lemmas") /\ nlemma \in Nat
        /\ Len(lemma) = nlemma /\ Len(lemma') = nlemma + 1
        /\ \A i \in 1 .. nlemma : lemma'[i] = lemma[i]
        /\ lemma'[nlemma + 1] = Description(h)
    BY <1>2, RegisterAppends DEF TypeOK
  <2>2. nlemma > 0 => lemma[nlemma].lex # h.lex
    BY <1>2, <2>1 DEF Register, Merges
  <2>3. lemma'[nlemma + 1].lex = h.lex
    BY <2>1 DEF Description
  <2>4. ASSUME NEW i \in 1 .. Len(lemma') - 1
        PROVE  lemma'[i].lex # lemma'[i + 1].lex
    <3>1. i \in 1 .. nlemma
      BY <2>1
    <3>2. CASE i = nlemma
      BY <2>1, <2>2, <2>3, <3>1, <3>2
    <3>3. CASE i # nlemma
      <4>1. i \in 1 .. nlemma - 1 /\ i + 1 \in 1 .. nlemma
        BY <2>1, <3>1, <3>3
      <4>2. lemma[i].lex # lemma[i + 1].lex
        BY <2>1, <4>1 DEF NeighboursDiffer
      <4> QED
        BY <2>1, <3>1, <4>1, <4>2
    <3> QED
      BY <3>2, <3>3
  <2> QED
    BY <2>4 DEF NeighboursDiffer
<1> QED
  BY <1>1, <1>2 DEF InsertStem, NoSlot, NoFormRoom, NoGramRoom, Merge

LEMMA InitLInv == Init => LInv
<1> SUFFICES ASSUME Init PROVE LInv
  OBVIOUS
<1>1. lemma = <<>> /\ Len(lemma) = 0 /\ nerror = 0
  BY DEF Init
<1>2. ~Given("lemmas") /\ ~Given("forms") /\ ~Given("grams")
  BY DEF Init, Given
<1> QED
  BY <1>1, <1>2 DEF LInv, FormsComplete, GramsOwned, ErrorNamesFullArray,
     NeighboursDiffer, LIDSBUFF_FAILED, GRAMBUFF_FAILED, LEMMBUFF_FAILED

LEMMA NextLInv == TypeOK /\ LInv /\ [Next]_vars => LInv'
<1> SUFFICES ASSUME TypeOK, LInv, [Next]_vars PROVE LInv'
  OBVIOUS
<1> USE DEF LInv
<1>1. CASE Lemmatize
  <2>1. /\ lemma' = <<>> /\ Len(lemma') = 0 /\ nlemma' = 0
        /\ grams' = <<>> /\ Len(grams') = 0 /\ pforms' = 0 /\ nerror' = 0
    BY <1>1 DEF Lemmatize
  <2>2. /\ Given("lemmas")' => caps'.lemmas >= 0
        /\ Given("forms")' => caps'.forms >= 0
        /\ Given("grams")' => caps'.grams >= 0
    <3>1. /\ caps'.lemmas \in Nat \cup {NoBuffer}
          /\ caps'.forms \in Nat \cup {NoBuffer}
          /\ caps'.grams \in Nat \cup {NoBuffer}
      BY <1>1, SizesAssumption DEF Lemmatize
    <3> QED
      BY <3>1 DEF Given
  <2>3. FormsComplete'
    BY <2>1, <2>2 DEF FormsComplete
  <2>4. GramsOwned'
    BY <2>1, <2>2 DEF GramsOwned
  <2>5. NeighboursDiffer'
    BY <2>1 DEF NeighboursDiffer
  <2>6. ErrorNamesFullArray'
    BY <2>1 DEF ErrorNamesFullArray, LIDSBUFF_FAILED, GRAMBUFF_FAILED, LEMMBUFF_FAILED
  <2> QED
    BY <2>1, <2>2, <2>3, <2>4, <2>5, <2>6
<1>2. CASE RefuseWord \/ Return \/ UNCHANGED vars
  BY <1>2 DEF RefuseWord, Return, vars, Given, FormsComplete, GramsOwned,
     ErrorNamesFullArray, NeighboursDiffer
<1>3. CASE \E h \in Hits : InsertStem(h)
  <2>1. PICK h \in Hits : InsertStem(h)
    BY <1>3
  <2> QED
    BY <2>1, FormsStep, GramsStep, ErrorStep, NeighboursStep
<1> QED
  BY <1>1, <1>2, <1>3 DEF Next

LEMMA Safety == Spec => [](TypeOK /\ LInv)
<1>1. Init => TypeOK /\ LInv
  BY InitType, InitLInv
<1>2. (TypeOK /\ LInv) /\ [Next]_vars => (TypeOK /\ LInv)'
  BY NextType, NextLInv
<1> QED
  BY <1>1, <1>2, PTL DEF Spec

(* No normal form is cut, overwritten or left without its zero.  *)
THEOREM Forms == Spec => []FormsComplete
<1>1. LInv => FormsComplete
  BY DEF LInv
<1> QED
  BY <1>1, Safety, PTL

(* No description's range of meanings leaves the array or holds another's. *)
THEOREM Meanings == Spec => []GramsOwned
<1>1. LInv => GramsOwned
  BY DEF LInv
<1> QED
  BY <1>1, Safety, PTL

(* A failure names the array that is full. *)
THEOREM Failures == Spec => []ErrorNamesFullArray
<1>1. LInv => ErrorNamesFullArray
  BY DEF LInv
<1> QED
  BY <1>1, Safety, PTL

(* Stems of one lexeme found in a row are one description. *)
THEOREM Merging == Spec => []NeighboursDiffer
<1>1. LInv => NeighboursDiffer
  BY DEF LInv
<1> QED
  BY <1>1, Safety, PTL

-------------------------------------------------------------------------------

LastCounted == IF Given("lemmas") /\ nlemma > 0 THEN lemma[nlemma].lex ELSE None

(* A stem found is one lexeme more, a failure or nothing at all to the caller. *)
LEMMA InsertStemCounts ==
  ASSUME TypeOK, NEW h \in Hits, InsertStem(h)
  PROVE  Count!Find(h.lex) \/ Count!Fail \/ UNCHANGED Count!vars
<1> USE DEF LIDSBUFF_FAILED, LEMMBUFF_FAILED, GRAMBUFF_FAILED, Errors
<1>1. /\ pc = "scan" /\ pc' = pc /\ nerror = 0
      /\ caps' = caps /\ result' = result
  BY DEF InsertStem, Called
<1>2. Given("lemmas")' = Given("lemmas")
  BY <1>1 DEF Given
<1>3. CASE NoSlot(h) \/ NoFormRoom(h) \/ NoGramRoom(h)
  <2>1. lemma' = lemma /\ nlemma' = nlemma /\ nerror' \in Errors
    BY <1>3 DEF NoSlot, NoFormRoom, NoGramRoom
  <2>2. Count!Fail
    BY <1>1, <1>2, <2>1 DEF Count!Fail, Given
  <2> QED
    BY <2>2
<1>4. CASE Merge(h)
  <2>1. lemma' = lemma /\ nlemma' = nlemma /\ nerror' = nerror
    BY <1>4 DEF Merge
  <2> QED
    BY <1>1, <1>2, <2>1 DEF Count!vars, Given
<1>5. CASE Register(h)
  <2>1. nlemma' = nlemma + 1 /\ nerror' = nerror /\ ~Merges(h) /\ nlemma \in Nat
    BY <1>5 DEF Register, TypeOK
  <2>2. Given("lemmas") => lemma'[nlemma'].lex = h.lex
    <3>1. Description(h).lex = h.lex
      BY DEF Description
    <3> QED
      BY <1>5, <2>1, <3>1, RegisterAppends
  <2>3. h.lex # None
    BY NoneAssumption DEF Hits
  <2>4. ~(Given("lemmas") /\ LastCounted = h.lex)
    BY <2>1, <2>3 DEF LastCounted, Merges
  <2>5. LastCounted' = IF Given("lemmas") THEN h.lex ELSE None
    BY <1>2, <2>1, <2>2 DEF LastCounted
  <2>6. Count!Find(h.lex)
    BY <1>1, <1>2, <2>1, <2>4, <2>5 DEF Count!Find, LastCounted
  <2> QED
    BY <2>6
<1> QED
  BY <1>3, <1>4, <1>5 DEF InsertStem

(* The answer of Lemmatize is the number of lexemes found, or the failure that *)
(* ended the call, whatever the arrays and the dictionary.                     *)
THEOREM Counting == Spec => CountSpec
<1>1. Init => Count!Init
  BY DEF Init, Count!Init, Given
<1>2. TypeOK /\ [Next]_vars => [Count!Next]_(Count!vars)
  <2> SUFFICES ASSUME TypeOK, [Next]_vars PROVE [Count!Next]_(Count!vars)
    OBVIOUS
  <2>1. CASE Lemmatize
    <3>1. Count!Begin
      BY <2>1 DEF Lemmatize, Count!Begin, Given
    <3> QED
      BY <3>1 DEF Count!Next
  <2>2. CASE RefuseWord
    <3>1. Count!Refuse
      BY <2>2 DEF RefuseWord, Count!Refuse, Given
    <3> QED
      BY <3>1 DEF Count!Next
  <2>3. CASE \E h \in Hits : InsertStem(h)
    <3>1. PICK h \in Hits : InsertStem(h)
      BY <2>3
    <3>2. h.lex \in Lexemes
      BY DEF Hits
    <3> QED
      BY <3>1, <3>2, InsertStemCounts DEF Count!Next
  <2>4. CASE Return
    <3>1. nerror \in Errors \cup {0} /\ (nerror < 0 <=> nerror # 0)
      BY DEF TypeOK, Errors, LIDSBUFF_FAILED, LEMMBUFF_FAILED, GRAMBUFF_FAILED
    <3>2. Count!Finish
      BY <2>4, <3>1 DEF Return, Count!Finish, Given
    <3> QED
      BY <3>2 DEF Count!Next
  <2>5. CASE UNCHANGED vars
    BY <2>5 DEF vars, Count!vars, Given
  <2> QED
    BY <2>1, <2>2, <2>3, <2>4, <2>5 DEF Next
<1> QED
  BY <1>1, <1>2, Types, PTL DEF Spec, CountSpec, Count!Spec

===============================================================================
