--------------------------- MODULE FormBuilderProofs ---------------------------
(***************************************************************************)
(* The forms BuildForm and FindForms write, for every dictionary, every    *)
(* form asked for, arrays of every size and any number of stems: they are  *)
(* whole, one behind the other inside the array, and complete unless the   *)
(* call says they are not.                                                 *)
(***************************************************************************)
EXTENDS FormBuilder, TextLemmas

Sizes == Seq(Nat \ {0})

(* The recursion of RunningTotal has a solution for every sequence of sizes. *)
LEMMA Totals ==
  ASSUME NEW t \in Sizes
  PROVE  /\ RunningTotal(t) \in [0 .. Len(t) -> Nat]
         /\ RunningTotal(t)[0] = 0
         /\ \A k \in 1 .. Len(t) : RunningTotal(t)[k] = RunningTotal(t)[k - 1] + t[k]
<1> DEFINE Solves(f, n) ==
             f[0] = 0 /\ \A k \in 1 .. n : f[k] = f[k - 1] + t[k]
           Unsolved == {n \in 0 .. Len(t) : ~ \E f \in [0 .. n -> Nat] : Solves(f, n)}
<1>1. Len(t) \in Nat /\ \A k \in 1 .. Len(t) : t[k] \in Nat
  BY DEF Sizes
<1>2. Unsolved = {}
  <2> SUFFICES ASSUME Unsolved # {}  PROVE FALSE
    OBVIOUS
  <2>1. PICK n \in Unsolved : \A m \in Unsolved : n <= m
    <3>1. Unsolved \subseteq Nat
      OBVIOUS
    <3> HIDE DEF Unsolved
    <3> QED  BY <3>1, LeastNat
  <2>2. n \in 0 .. Len(t)
    OBVIOUS
  <2>3. n # 0
    <3>1. [k \in 0 .. 0 |-> 0] \in [0 .. 0 -> Nat] /\ Solves([k \in 0 .. 0 |-> 0], 0)
      OBVIOUS
    <3> QED  BY <3>1
  <2>4. PICK f \in [0 .. n - 1 -> Nat] : Solves(f, n - 1)
    <3>1. n - 1 \in 0 .. Len(t) /\ ~(n <= n - 1)
      BY <1>1, <2>2, <2>3
    <3>2. n - 1 \notin Unsolved
      BY <2>1, <3>1, Zenon
    <3> QED  BY <3>1, <3>2
  <2> DEFINE g == [k \in 0 .. n |-> IF k = n THEN f[n - 1] + t[n] ELSE f[k]]
  <2>5. g \in [0 .. n -> Nat]
    BY <1>1, <2>2, <2>3
  <2>6. Solves(g, n)
    BY <1>1, <2>2, <2>3, <2>4
  <2> HIDE DEF g, Solves
  <2> QED  BY <2>5, <2>6
<1>3. PICK f \in [0 .. Len(t) -> Nat] : Solves(f, Len(t))
  BY <1>1, <1>2
<1> DEFINE SumsUp(h) == h = [k \in 0 .. Len(t) |-> IF k = 0 THEN 0 ELSE h[k - 1] + t[k]]
<1>4. SumsUp(f)
  BY <1>1, <1>3
<1>5. RunningTotal(t) = CHOOSE h : SumsUp(h)
  BY DEF RunningTotal
<1>6. SumsUp(RunningTotal(t))
  <2> HIDE DEF SumsUp
  <2> QED  BY <1>4, <1>5
<1> DEFINE r == RunningTotal(t)
<1>7. r = [k \in 0 .. Len(t) |-> IF k = 0 THEN 0 ELSE r[k - 1] + t[k]]
  BY <1>6
<1> HIDE DEF r
<1>8. DOMAIN r = 0 .. Len(t) /\ r[0] = 0 /\ \A k \in 1 .. Len(t) : r[k] = r[k - 1] + t[k]
  BY <1>1, <1>7
<1>9. \A k \in 0 .. Len(t) : r[k] \in Nat
  <2> DEFINE Bad == {k \in 0 .. Len(t) : r[k] \notin Nat}
  <2> SUFFICES ASSUME Bad # {}  PROVE FALSE
    OBVIOUS
  <2>1. PICK k \in Bad : \A m \in Bad : k <= m
    <3>1. Bad \subseteq Nat
      OBVIOUS
    <3> HIDE DEF Bad
    <3> QED  BY <3>1, LeastNat
  <2>2. k \in 1 .. Len(t) /\ r[k] \notin Nat
    BY <1>8
  <2>3. r[k - 1] \in Nat
    BY <1>1, <2>1, <2>2
  <2> QED  BY <1>1, <1>8, <2>2, <2>3
<1>10. r \in [0 .. Len(t) -> Nat]
  BY <1>7, <1>9
<1> QED  BY <1>8, <1>10 DEF r

-------------------------------------------------------------------------------
(* What a call of the actor is about. *)

(* a stem as InsertStem is given it *)
Hit(s) == [s EXCEPT !.tfoffs = TfOffs(s)]

(* The fields of a stem, and of one whose table is another. *)
LEMMA StemFields ==
  ASSUME NEW s \in Stems
  PROVE  /\ s.type \in 0 .. 63 /\ s.tfoffs \in Nat /\ s.multiple \in BOOLEAN
         /\ \A f \in IdForms : s.number[f] \in {"none", "single", "plural"} /\ s.tails[f] \in Sizes
         /\ NoForm \in IdForms
         /\ \A offs : LET h == [s EXCEPT !.tfoffs = offs]
                     IN /\ h.type = s.type /\ h.tfoffs = offs /\ h.multiple = s.multiple
                        /\ h.number = s.number /\ h.tails = s.tails
<1>1. s \in [name: {s.name}, type: 0 .. 63, tfoffs: Nat, multiple: BOOLEAN,
             number: [IdForms -> {"none", "single", "plural"}], tails: [IdForms -> Seq(Nat \ {0})]]
  BY StemsAssumption
<1>2. NoForm \in IdForms
  BY StemsAssumption
<1> QED  BY <1>1, <1>2 DEF Sizes

(* Once the request is what was asked, the code looks at a stem as the grammar *)
(* does: it wants it exactly when the stem has the form, and takes all of it.  *)
LEMMA HitAsked ==
  ASSUME NEW s \in Stems, asked \in IdForms, idform = asked
  PROVE  FormsAsked(Hit(s)) = IF Wants(s) THEN Tails(s) ELSE <<>>
<1>1. /\ s.number[asked] \in {"none", "single", "plural"}
      /\ s.multiple \in BOOLEAN
      /\ Hit(s).type = s.type /\ Hit(s).tfoffs = TfOffs(s) /\ Hit(s).multiple = s.multiple
      /\ Hit(s).number = s.number /\ Hit(s).tails = s.tails
  BY StemFields DEF Hit
<1>2. s.type # Preposition => TfOffs(s) = s.tfoffs
  BY DEF TfOffs
<1> HIDE DEF Hit
<1>3. CASE s.type = Preposition
  BY <1>1, <1>3 DEF FormsAsked, Wants, Tails, Inflects
<1>4. CASE s.type # Preposition
  BY <1>1, <1>2, <1>4 DEF FormsAsked, Wants, Tails, Inflects
<1> QED  BY <1>3, <1>4

(* As many forms are written as the array has room for. *)
LEMMA WrittenIsMost ==
  ASSUME NEW s \in Stems, idform \in IdForms, output \in Nat, cap \in Int, ~NoArray
  PROVE  LET w == Written(s)
             t == Tails(s)
         IN /\ t \in Sizes /\ w \in 0 .. Len(t) /\ output + RunningTotal(t)[w] <= cap
            /\ w < Len(t) => output + RunningTotal(t)[w] + t[w + 1] > cap
<1> DEFINE t == Tails(s)
           w == Written(s)
           R == RunningTotal(t)
           Room == {k \in 0 .. Len(t) : output + R[k] <= cap}
<1>1. t \in Sizes
  BY StemFields DEF Tails
<1>2. /\ Len(t) \in Nat /\ \A k \in 1 .. Len(t) : t[k] \in Nat
      /\ R \in [0 .. Len(t) -> Nat] /\ R[0] = 0
      /\ \A k \in 1 .. Len(t) : R[k] = R[k - 1] + t[k]
  <2> HIDE DEF t
  <2> QED  BY <1>1, Totals DEF Sizes
<1> HIDE DEF R, t
<1>3. 0 \in Room
  BY <1>2 DEF NoArray
<1>4. \E k \in Room : \A other \in Room : other <= k
  <2>1. Room \subseteq 0 .. Len(t)
    OBVIOUS
  <2> HIDE DEF Room
  <2> QED  BY <1>2, <1>3, <2>1, GreatestNat
<1>5. \A k : Fits(s, k) <=> output + R[k] <= cap
  BY DEF Fits, R, t
<1>6. w = CHOOSE k \in 0 .. Len(t) : Fits(s, k) /\ \A other \in 0 .. Len(t) : Fits(s, other) => other <= k
  BY DEF Written, t
<1>7. \E k \in 0 .. Len(t) : Fits(s, k) /\ \A other \in 0 .. Len(t) : Fits(s, other) => other <= k
  BY <1>4, <1>5
<1> HIDE DEF w
<1>8. /\ w \in 0 .. Len(t) /\ Fits(s, w)
      /\ \A other \in 0 .. Len(t) : Fits(s, other) => other <= w
  BY <1>6, <1>7, Zenon
<1>9. w < Len(t) => output + R[w] + t[w + 1] > cap
  <2> SUFFICES ASSUME w < Len(t)  PROVE output + R[w] + t[w + 1] > cap
    OBVIOUS
  <2>1. w + 1 \in 1 .. Len(t) /\ w + 1 \in 0 .. Len(t) /\ ~(w + 1 <= w)
    BY <1>2, <1>8
  <2>2. ~(output + R[w + 1] <= cap)
    BY <1>5, <1>8, <2>1, Zenon
  <2>3. R[w + 1] = R[w] + t[w + 1]
    <3>1. PICK v \in 1 .. Len(t) : v = w + 1
      BY <2>1
    <3>2. v - 1 = w
      BY <1>2, <1>8, <3>1
    <3>3. R[v] = R[v - 1] + t[v]
      BY <1>2
    <3> QED  BY <3>1, <3>2, <3>3, Zenon
  <2> QED  BY <1>2, <1>8, <2>1, <2>2, <2>3
<1> QED  BY <1>1, <1>5, <1>8, <1>9 DEF t, w, R

-------------------------------------------------------------------------------
(* The inductive invariant. *)

HitRecord == {[s EXCEPT !.tfoffs = offs] : s \in Stems, offs \in {0} \cup {t.tfoffs : t \in Stems}}

FormRecord == [call: Nat, nth: Nat, form: IdForms, at: Nat, bytes: Nat \ {0}]

(* The request is what was asked until a preposition changes it; a call that   *)
(* has met no stem has not failed.                                             *)
Request == idform = asked \/ RequestChanged(Len(hits) + 1)

Fresh == hits = <<>> => nerror = 0

FormInv == FormTypeOK /\ Request /\ Fresh /\ FormsWhole /\ FormsComplete

(* What the types say of the sequences. *)
LEMMA FormsTyped ==
  ASSUME FormTypeOK
  PROVE  /\ Len(hits) \in Nat /\ DOMAIN hits = 1 .. Len(hits)
         /\ Len(forms) \in Nat /\ DOMAIN forms = 1 .. Len(forms)
         /\ forms \in Seq(FormRecord)
         /\ \A k \in DOMAIN forms : /\ forms[k] \in FormRecord /\ forms[k].call \in 1 .. Len(hits)
                                    /\ forms[k].nth \in Nat \ {0}
                                    /\ forms[k].form \in IdForms /\ forms[k].at \in Nat
                                    /\ forms[k].bytes \in Nat \ {0}
         /\ cap \in Int /\ output \in Nat /\ asked \in IdForms /\ idform \in IdForms
<1> DEFINE Form == [call: 1 .. Len(hits), nth: Nat \ {0}, form: IdForms, at: Nat, bytes: Nat \ {0}]
           Hits == {[s EXCEPT !.tfoffs = offs] : s \in Stems, offs \in {0} \cup {t.tfoffs : t \in Stems}}
<1>1. hits \in Seq(Hits) /\ forms \in Seq(Form)
  BY DEF FormTypeOK
<1>2. Len(hits) \in Nat /\ DOMAIN hits = 1 .. Len(hits)
  <2> HIDE DEF Hits
  <2> QED  BY <1>1, LenProperties
<1>3. Len(forms) \in Nat /\ DOMAIN forms = 1 .. Len(forms) /\ \A k \in DOMAIN forms : forms[k] \in Form
  <2> HIDE DEF Form
  <2> QED  BY <1>1, LenProperties, ElementOfSeq
<1>4. Form \subseteq FormRecord
  BY <1>2 DEF FormRecord
<1>5. forms \in Seq(FormRecord)
  <2> HIDE DEF Form
  <2> QED  BY <1>1, <1>4
<1>6. cap \in Int /\ output \in Nat /\ asked \in IdForms /\ idform \in IdForms
  BY StemsAssumption DEF FormTypeOK, NoBuffer
<1>7. \A x \in Form : /\ x \in FormRecord /\ x.call \in 1 .. Len(hits) /\ x.nth \in Nat \ {0}
                       /\ x.form \in IdForms /\ x.at \in Nat /\ x.bytes \in Nat \ {0}
  BY <1>4
<1> HIDE DEF Form
<1> QED  BY <1>2, <1>3, <1>5, <1>6, <1>7, Zenon

(* The sequence of calls, one longer. *)
LEMMA HitAppended ==
  ASSUME FormTypeOK, NEW s \in Stems, hits' = Append(hits, Hit(s))
  PROVE  /\ Len(hits') = Len(hits) + 1 /\ DOMAIN hits' = 1 .. Len(hits) + 1
         /\ hits'[Len(hits) + 1] = Hit(s)
         /\ \A k \in 1 .. Len(hits) : hits'[k] = hits[k]
         /\ hits' \in Seq(HitRecord)
<1> DEFINE Offs == {0} \cup {u.tfoffs : u \in Stems}
           Hits == {[t EXCEPT !.tfoffs = offs] : t \in Stems, offs \in Offs}
<1>1. hits \in Seq(Hits)
  BY DEF FormTypeOK
<1>2. Hit(s) \in Hits
  <2>1. TfOffs(s) \in Offs
    BY DEF TfOffs
  <2> HIDE DEF Offs
  <2> QED  BY <2>1 DEF Hit
<1> HIDE DEF Hits
<1>3. /\ hits' \in Seq(Hits) /\ Len(hits') = Len(hits) + 1
      /\ \A k \in 1 .. Len(hits) : hits'[k] = hits[k]
      /\ hits'[Len(hits) + 1] = Hit(s)
  BY <1>1, <1>2, AppendProperties
<1>4. DOMAIN hits' = 1 .. Len(hits')
  BY <1>3, LenProperties
<1> QED  BY <1>3, <1>4 DEF Hits, HitRecord

(* The forms written by a call, behind those written before. *)
LEMMA FormsAppended ==
  ASSUME FormTypeOK, NEW s \in Stems, Write(s)
  PROVE  LET w == Written(s)
             n == Len(forms)
             t == Tails(s)
         IN /\ w \in Nat /\ Len(forms') = n + w /\ DOMAIN forms' = 1 .. n + w
            /\ \A k \in 1 .. n : forms'[k] = forms[k]
            /\ \A k \in 1 .. w :
                 forms'[n + k] = [call |-> Len(hits) + 1, nth |-> k, form |-> idform,
                                  at |-> output + RunningTotal(t)[k - 1], bytes |-> t[k]]
            /\ \A k \in 1 .. n + w : k \in 1 .. n \/ \E j \in 1 .. w : k = n + j
            /\ forms' \in Seq(FormRecord)
<1> DEFINE w == Written(s)
           n == Len(forms)
           t == Tails(s)
           new == [k \in 1 .. w |-> [call |-> Len(hits) + 1, nth |-> k, form |-> idform,
                                     at |-> output + RunningTotal(t)[k - 1], bytes |-> t[k]]]
<1>1. forms' = forms \o new
  BY DEF Write
<1>2. /\ n \in Nat /\ DOMAIN forms = 1 .. n /\ Len(hits) \in Nat
      /\ cap \in Int /\ output \in Nat /\ idform \in IdForms /\ forms \in Seq(FormRecord)
  BY FormsTyped
<1>3. t \in Sizes /\ w \in 0 .. Len(t)
  BY <1>2, WrittenIsMost DEF Write
<1> HIDE DEF t, w, n
<1>4. /\ RunningTotal(t) \in [0 .. Len(t) -> Nat] /\ Len(t) \in Nat
      /\ \A k \in 1 .. Len(t) : t[k] \in Nat \ {0}
  BY <1>3, Totals DEF Sizes
<1>5. new \in Seq(FormRecord) /\ Len(new) = w /\ DOMAIN new = 1 .. w /\ w \in Nat
  <2>1. \A k \in 1 .. w : new[k] \in FormRecord
    <3> SUFFICES ASSUME NEW k \in 1 .. w  PROVE new[k] \in FormRecord
      OBVIOUS
    <3>1. k \in 1 .. Len(t) /\ k - 1 \in 0 .. Len(t) /\ k \in Nat
      BY <1>3, <1>4
    <3>2. RunningTotal(t)[k - 1] \in Nat /\ t[k] \in Nat \ {0}
      BY <1>4, <3>1
    <3>3. output + RunningTotal(t)[k - 1] \in Nat
      BY <1>2, <3>2
    <3> QED  BY <1>2, <3>1, <3>2, <3>3 DEF FormRecord
  <2>2. w \in Nat
    BY <1>3, <1>4
  <2>3. new \in [1 .. w -> FormRecord]
    <3>1. new = [k \in 1 .. w |-> new[k]]
      OBVIOUS
    <3> HIDE DEF new
    <3> QED  BY <2>1, <3>1
  <2> HIDE DEF new
  <2> QED  BY <2>2, <2>3
<1>6. \A k \in 1 .. w :
        new[k] = [call |-> Len(hits) + 1, nth |-> k, form |-> idform,
                  at |-> output + RunningTotal(t)[k - 1], bytes |-> t[k]]
  OBVIOUS
<1> HIDE DEF new
<1>7. /\ forms' \in Seq(FormRecord) /\ Len(forms') = n + w
      /\ \A k \in 1 .. n : forms'[k] = forms[k]
      /\ \A k \in 1 .. w : forms'[n + k] = new[k]
  <2>1. /\ forms \o new \in Seq(FormRecord) /\ Len(forms \o new) = n + w
        /\ \A k \in 1 .. n + w : (forms \o new)[k] = IF k <= n THEN forms[k] ELSE new[k - n]
    BY <1>2, <1>5, ConcatProperties DEF n
  <2>2. \A k \in 1 .. n : k \in 1 .. n + w /\ k <= n
    BY <1>2, <1>5
  <2>3. \A k \in 1 .. w : n + k \in 1 .. n + w /\ ~(n + k <= n) /\ n + k - n = k
    BY <1>2, <1>5
  <2>4. ASSUME NEW k \in 1 .. w  PROVE (forms \o new)[n + k] = new[k]
    <3>1. PICK v \in 1 .. n + w : v = n + k
      BY <2>3
    <3>2. ~(v <= n) /\ v - n = k
      BY <1>2, <1>5, <2>3, <3>1
    <3>3. (forms \o new)[v] = new[v - n]
      BY <2>1, <3>2, Zenon
    <3> QED  BY <3>1, <3>2, <3>3, Zenon
  <2> QED  BY <1>1, <2>1, <2>2, <2>4, Zenon
<1>8. DOMAIN forms' = 1 .. n + w
  BY <1>7, LenProperties
<1>9. \A k \in 1 .. n + w : k \in 1 .. n \/ \E j \in 1 .. w : k = n + j
  <2> SUFFICES ASSUME NEW k \in 1 .. n + w, k \notin 1 .. n  PROVE \E j \in 1 .. w : k = n + j
    OBVIOUS
  <2>1. k - n \in 1 .. w /\ k = n + (k - n)
    BY <1>2, <1>5
  <2> QED  BY <2>1
<1> QED  BY <1>5, <1>6, <1>7, <1>8, <1>9, Zenon DEF n, w, t

(* A call writes the first forms of the stem, or none. *)
LEMMA CallWrites ==
  ASSUME FormTypeOK, NEW s \in Stems, Full \/ Skip(s) \/ Write(s)
  PROVE  \E w \in Nat :
           /\ Len(forms') = Len(forms) + w /\ DOMAIN forms' = 1 .. Len(forms) + w
           /\ \A k \in 1 .. Len(forms) : forms'[k] = forms[k]
           /\ \A k \in 1 .. w :
                forms'[Len(forms) + k] =
                  [call |-> Len(hits) + 1, nth |-> k, form |-> idform,
                   at |-> output + RunningTotal(Tails(s))[k - 1], bytes |-> Tails(s)[k]]
           /\ \A k \in 1 .. Len(forms) + w : k \in 1 .. Len(forms) \/ \E j \in 1 .. w : k = Len(forms) + j
           /\ forms' \in Seq(FormRecord)
           /\ \/ w = 0 /\ output' = output /\ ~Write(s)
              \/ w = Written(s) /\ Write(s)
<1>1. Len(forms) \in Nat /\ DOMAIN forms = 1 .. Len(forms) /\ forms \in Seq(FormRecord)
  BY FormsTyped
<1>2. CASE Write(s)
  <2>1. \E w \in {Written(s)} :
           /\ w \in Nat
           /\ Len(forms') = Len(forms) + w /\ DOMAIN forms' = 1 .. Len(forms) + w
           /\ \A k \in 1 .. Len(forms) : forms'[k] = forms[k]
           /\ \A k \in 1 .. w :
                forms'[Len(forms) + k] =
                  [call |-> Len(hits) + 1, nth |-> k, form |-> idform,
                   at |-> output + RunningTotal(Tails(s))[k - 1], bytes |-> Tails(s)[k]]
           /\ \A k \in 1 .. Len(forms) + w : k \in 1 .. Len(forms) \/ \E j \in 1 .. w : k = Len(forms) + j
           /\ forms' \in Seq(FormRecord)
    BY <1>2, FormsAppended, Zenon
  <2> QED  BY <1>2, <2>1, Zenon
<1>3. CASE ~Write(s)
  <2>1. forms' = forms /\ output' = output
    BY <1>3 DEF Full, Skip
  <2>2. 0 \in Nat /\ Len(forms) + 0 = Len(forms) /\ 1 .. 0 = {}
    BY <1>1
  <2> QED  BY <1>1, <1>3, <2>1, <2>2
<1> QED  BY <1>2, <1>3

(* Nothing has failed when the actor is called. *)
LEMMA CalledSound ==
  ASSUME FormTypeOK, Fresh, Called
  PROVE  nerror = 0 /\ Len(hits) < MaxHits /\ asked \in IdForms
<1>1. Len(hits) \in Nat /\ asked \in IdForms
  BY FormsTyped
<1>2. hits = <<>> => Len(hits) = 0
  BY EmptySeq
<1>3. 0 < MaxHits
  BY StemsAssumption
<1> QED  BY <1>1, <1>2, <1>3 DEF Called, Fresh

(* The next form starts where the last one ends. *)
LEMMA CallWhole ==
  ASSUME FormTypeOK, FormsWhole, InsertStem
  PROVE  FormsWhole'
<1> DEFINE End(k) == IF k = 0 THEN 0 ELSE forms[k].at + forms[k].bytes
<1>1. PICK s \in Stems : Full \/ Skip(s) \/ Write(s)
  BY DEF InsertStem
<1> DEFINE n == Len(forms)
           t == Tails(s)
           R == RunningTotal(t)
<1>2. /\ n \in Nat /\ DOMAIN forms = 1 .. n /\ cap \in Int /\ cap' = cap /\ output \in Nat
      /\ idform \in IdForms /\ forms \in Seq(FormRecord)
      /\ \A k \in 1 .. n : forms[k].at \in Nat /\ forms[k].bytes \in Nat
  BY FormsTyped DEF InsertStem
<1>3. PICK w \in Nat :
           /\ Len(forms') = n + w /\ DOMAIN forms' = 1 .. n + w
           /\ \A k \in 1 .. n : forms'[k] = forms[k]
           /\ \A k \in 1 .. w :
                forms'[n + k] = [call |-> Len(hits) + 1, nth |-> k, form |-> idform,
                                 at |-> output + R[k - 1], bytes |-> t[k]]
           /\ \A k \in 1 .. n + w : k \in 1 .. n \/ \E j \in 1 .. w : k = n + j
           /\ forms' \in Seq(FormRecord)
           /\ \/ w = 0 /\ output' = output /\ ~Write(s)
              \/ w = Written(s) /\ Write(s)
  BY <1>1, CallWrites, Zenon
<1>4. t \in Sizes /\ (Write(s) => w \in 0 .. Len(t) /\ output + R[w] <= cap /\ output' = output + R[w])
  <2>1. t \in Sizes
    BY <1>2, StemFields DEF Tails
  <2> QED  BY <1>2, <1>3, <2>1, WrittenIsMost DEF Write
<1> HIDE DEF n, t, R
<1>5. /\ \A k \in 1 .. Len(t) : t[k] \in Nat
      /\ Len(t) \in Nat /\ R \in [0 .. Len(t) -> Nat] /\ R[0] = 0
      /\ \A k \in 1 .. Len(t) : R[k] = R[k - 1] + t[k]
  BY <1>4, Totals DEF R, Sizes
<1>6. /\ \A k \in 1 .. n : forms[k].at = End(k - 1)
      /\ output = End(n) /\ (forms # <<>> => output <= cap)
  BY <1>2 DEF FormsWhole, n
<1> DEFINE NewEnd(k) == IF k = 0 THEN 0 ELSE forms'[k].at + forms'[k].bytes
<1>7. \A k \in 0 .. n : NewEnd(k) = End(k)
  BY <1>2, <1>3
<1>8. ASSUME w # 0
      PROVE  /\ w \in 0 .. Len(t) /\ output' = output + R[w] /\ output' <= cap
             /\ \A k \in 1 .. w : /\ forms'[n + k].at = output + R[k - 1]
                                  /\ forms'[n + k].bytes = t[k]
                                  /\ NewEnd(n + k) = output + R[k]
  <2>1. w \in 0 .. Len(t) /\ output' = output + R[w] /\ output' <= cap
    BY <1>3, <1>4, <1>8
  <2>2. ASSUME NEW k \in 1 .. w
        PROVE  /\ forms'[n + k].at = output + R[k - 1]
               /\ forms'[n + k].bytes = t[k]
               /\ NewEnd(n + k) = output + R[k]
    <3>1. forms'[n + k].at = output + R[k - 1] /\ forms'[n + k].bytes = t[k]
      <4>1. forms'[n + k] = [call |-> Len(hits) + 1, nth |-> k, form |-> idform,
                             at |-> output + R[k - 1], bytes |-> t[k]]
        BY <1>3, Zenon
      <4> QED  BY <4>1
    <3>2. n + k # 0 /\ k \in 1 .. Len(t) /\ k - 1 \in 0 .. Len(t)
      BY <1>2, <1>3, <1>5, <2>1
    <3>3. R[k] = R[k - 1] + t[k] /\ R[k - 1] \in Nat /\ t[k] \in Nat
      BY <1>5, <3>2
    <3>4. output + R[k - 1] + t[k] = output + R[k]
      BY <1>2, <3>3
    <3> QED  BY <3>1, <3>2, <3>4
  <2> QED  BY <2>1, <2>2
<1>9. ASSUME NEW k \in 1 .. n + w  PROVE forms'[k].at = NewEnd(k - 1)
  <2>1. CASE k \in 1 .. n
    <3>1. k - 1 \in 0 .. n
      BY <1>2, <2>1
    <3> QED  BY <1>3, <1>6, <1>7, <2>1, <3>1, Zenon
  <2>2. ASSUME NEW j \in 1 .. w, k = n + j  PROVE forms'[k].at = NewEnd(k - 1)
    <3>1. w # 0 /\ forms'[k].at = output + R[j - 1]
      BY <1>3, <1>8, <2>2
    <3>2. CASE j = 1
      <4>1. k - 1 = n /\ n \in 0 .. n /\ j - 1 = 0
        BY <1>2, <2>2, <3>2
      <4>2. NewEnd(n) = output
        BY <1>6, <1>7, <4>1, Zenon
      <4>3. output + R[0] = output
        BY <1>2, <1>5
      <4> QED  BY <3>1, <4>1, <4>2, <4>3, Zenon
    <3>3. CASE j # 1
      <4>1. j - 1 \in 1 .. w /\ k - 1 = n + (j - 1)
        BY <1>2, <1>3, <2>2, <3>3
      <4>2. NewEnd(n + (j - 1)) = output + R[j - 1]
        BY <1>8, <3>1, <4>1, Zenon
      <4> QED  BY <3>1, <4>1, <4>2, Zenon
    <3> QED  BY <3>2, <3>3
  <2> QED  BY <1>3, <2>1, <2>2, Zenon
<1>10. output' = NewEnd(n + w)
  <2>1. CASE w = 0
    <3>1. n + w = n /\ n \in 0 .. n /\ output' = output
      <4>1. Write(s) => output' = output + R[0]
        BY <1>4, <2>1
      <4> QED  BY <1>2, <1>3, <1>5, <2>1, <4>1
    <3> QED  BY <1>6, <1>7, <3>1, Zenon
  <2>2. CASE w # 0
    <3>1. w \in 1 .. w
      BY <1>3, <2>2
    <3> QED  BY <1>8, <2>2, <3>1, Zenon
  <2> QED  BY <2>1, <2>2
<1>11. forms' # <<>> => output' <= cap'
  <2>1. CASE w = 0
    <3>1. output' = output
      <4>1. Write(s) => output' = output + R[0]
        BY <1>4, <2>1
      <4> QED  BY <1>2, <1>3, <1>5, <2>1, <4>1
    <3>2. forms' # <<>> => forms # <<>>
      <4>1. Len(forms') = Len(forms)
        BY <1>2, <1>3, <2>1 DEF n
      <4> QED  BY <1>2, <1>3, <4>1, EmptySeq
    <3> QED  BY <1>2, <1>6, <3>1, <3>2
  <2>2. CASE w # 0
    BY <1>2, <1>8, <2>2
  <2> QED  BY <2>1, <2>2
<1> QED  BY <1>3, <1>9, <1>10, <1>11 DEF FormsWhole

(* What has been promised of earlier calls stays true, and the last keeps it. *)
LEMMA CallComplete ==
  ASSUME FormTypeOK, Request, Fresh, FormsComplete, InsertStem
  PROVE  FormsComplete'
<1>1. PICK s \in Stems : hits' = Append(hits, Hit(s)) /\ (Full \/ Skip(s) \/ Write(s))
  BY DEF InsertStem, Hit
<1> DEFINE n == Len(forms)
           t == Tails(s)
           last == Len(hits) + 1
<1>2. /\ n \in Nat /\ DOMAIN forms = 1 .. n /\ cap \in Int /\ output \in Nat
      /\ asked \in IdForms /\ idform \in IdForms
      /\ Len(hits) \in Nat /\ DOMAIN hits = 1 .. Len(hits)
      /\ \A k \in 1 .. n : forms[k].call \in 1 .. Len(hits) /\ forms[k].nth \in Nat
  BY FormsTyped
<1>3. /\ Len(hits') = last /\ DOMAIN hits' = 1 .. last /\ hits'[last] = Hit(s)
      /\ \A k \in 1 .. Len(hits) : hits'[k] = hits[k]
  BY <1>1, HitAppended
<1>4. PICK w \in Nat :
           /\ DOMAIN forms' = 1 .. n + w
           /\ \A k \in 1 .. n : forms'[k] = forms[k]
           /\ \A k \in 1 .. w :
                forms'[n + k] = [call |-> last, nth |-> k, form |-> idform,
                                 at |-> output + RunningTotal(t)[k - 1], bytes |-> t[k]]
           /\ \A k \in 1 .. n + w : k \in 1 .. n \/ \E j \in 1 .. w : k = n + j
           /\ \/ w = 0 /\ output' = output /\ ~Write(s)
              \/ w = Written(s) /\ Write(s)
  BY <1>1, CallWrites, Zenon
<1>5. nerror = 0 /\ UNCHANGED <<pc, cap, asked, result>>
  BY CalledSound DEF InsertStem
<1>6. \A k \in 1 .. w : /\ forms'[n + k].call = last /\ forms'[n + k].nth = k
                        /\ forms'[n + k].form = idform /\ forms'[n + k].bytes = t[k]
  <2> SUFFICES ASSUME NEW k \in 1 .. w
               PROVE  /\ forms'[n + k].call = last /\ forms'[n + k].nth = k
                      /\ forms'[n + k].form = idform /\ forms'[n + k].bytes = t[k]
    OBVIOUS
  <2>1. forms'[n + k] = [call |-> last, nth |-> k, form |-> idform,
                         at |-> output + RunningTotal(t)[k - 1], bytes |-> t[k]]
    BY <1>4, Zenon
  <2> HIDE DEF t, last, n
  <2> QED  BY <2>1
<1>7. \A k \in 1 .. n : forms'[k] = forms[k] /\ forms'[k].call \in 1 .. Len(hits)
  BY <1>2, <1>4
<1>8. last \in Nat /\ last \notin 1 .. Len(hits) /\ \A k \in 1 .. last : k \in 1 .. Len(hits) \/ k = last
  BY <1>2
<1> HIDE DEF n, t, last
(* the order *)
<1>9. ASSUME NEW j \in 1 .. n + w, NEW k \in 1 .. n + w, j < k
      PROVE  \/ forms'[j].call < forms'[k].call
             \/ forms'[j].call = forms'[k].call /\ forms'[j].nth < forms'[k].nth
  <2>1. CASE k \in 1 .. n
    <3>1. j \in 1 .. n
      BY <1>2, <1>9, <2>1
    <3>2. \/ forms[j].call < forms[k].call
          \/ forms[j].call = forms[k].call /\ forms[j].nth < forms[k].nth
      BY <1>2, <1>9, <2>1, <3>1, Zenon DEF FormsComplete
    <3> QED  BY <1>7, <2>1, <3>1, <3>2, Zenon
  <2>2. ASSUME NEW i \in 1 .. w, k = n + i
        PROVE  \/ forms'[j].call < forms'[k].call
               \/ forms'[j].call = forms'[k].call /\ forms'[j].nth < forms'[k].nth
    <3>1. forms'[k].call = last /\ forms'[k].nth = i
      BY <1>6, <2>2, Zenon
    <3>2. CASE j \in 1 .. n
      <4>1. forms'[j].call \in 1 .. Len(hits)
        BY <1>7, <3>2, Zenon
      <4>2. \A c \in 1 .. Len(hits) : c < last
        BY <1>2 DEF last
      <4> QED  BY <3>1, <4>1, <4>2, Zenon
    <3>3. ASSUME NEW h \in 1 .. w, j = n + h
          PROVE  forms'[j].call = forms'[k].call /\ forms'[j].nth < forms'[k].nth
      <4>1. forms'[j].call = last /\ forms'[j].nth = h
        BY <1>6, <3>3, Zenon
      <4>2. h < i
        BY <1>2, <1>9, <2>2, <3>3
      <4> QED  BY <3>1, <4>1, <4>2, Zenon
    <3> QED  BY <1>4, <3>2, <3>3, Zenon
  <2> QED  BY <1>4, <2>1, <2>2, Zenon
(* the calls before *)
<1>10. \A call \in 1 .. last : RequestChanged(call)' = RequestChanged(call)
  <2> SUFFICES ASSUME NEW call \in 1 .. last
               PROVE  RequestChanged(call)' = RequestChanged(call)
    OBVIOUS
  <2>1. \A k \in 1 .. call - 1 : hits'[k] = hits[k]
    <3>1. 1 .. call - 1 \subseteq 1 .. Len(hits)
      BY <1>2 DEF last
    <3> QED  BY <1>3, <3>1, Zenon
  <2> QED  BY <1>5, <2>1 DEF RequestChanged
<1> DEFINE Mine(call) == {k \in 1 .. n + w : forms'[k].call = call}
           Beginning(call, m) == /\ {forms'[k].nth : k \in Mine(call)} = 1 .. m
                             /\ \A k \in Mine(call) :
                                  /\ forms'[k].form = asked
                                  /\ forms'[k].bytes = FormsAsked(hits'[call])[forms'[k].nth]
           Due(call) == FormsAsked(hits'[call])
           Failed(call) == call = last /\ nerror' # 0
           Kept(call) == \E m \in 0 .. Len(Due(call)) :
                           /\ Beginning(call, m)
                           /\ m < Len(Due(call)) => Failed(call)
                           /\ Failed(call) => \/ cap = NoBuffer \/ output' >= cap
                                              \/ m < Len(Due(call)) /\ output' + Due(call)[m + 1] > cap
<1>11. ASSUME NEW call \in 1 .. Len(hits), ~RequestChanged(call)  PROVE Kept(call)
  <2>1. hits'[call] = hits[call] /\ call # last
    BY <1>3, <1>8
  <2>2. Mine(call) = {k \in 1 .. n : forms[k].call = call}
    <3>1. \A k \in 1 .. n + w : forms'[k].call = call => k \in 1 .. n
      <4> SUFFICES ASSUME NEW k \in 1 .. n + w, forms'[k].call = call, k \notin 1 .. n  PROVE FALSE
        OBVIOUS
      <4>1. PICK j \in 1 .. w : k = n + j
        BY <1>4, Zenon
      <4>2. forms'[n + j].call = last
        BY <1>6, Zenon
      <4> QED  BY <2>1, <4>1, <4>2, Zenon
    <3>2. \A k \in 1 .. n : k \in 1 .. n + w
      BY <1>2, <1>4
    <3> QED  BY <1>7, <3>1, <3>2
  <2>3. PICK m \in 0 .. Len(FormsAsked(hits[call])) :
          /\ FirstWritten(call, m)
          /\ m < Len(FormsAsked(hits[call])) => nerror # 0
    BY <1>2, <1>11, Zenon DEF FormsComplete
  <2>4. Beginning(call, m)
    <3>1. {k \in 1 .. n : forms[k].call = call} \subseteq 1 .. n
      OBVIOUS
    <3> DEFINE M == {k \in 1 .. n : forms[k].call = call}
    <3>2. /\ {forms[k].nth : k \in M} = 1 .. m
          /\ \A k \in M : /\ forms[k].form = asked
                          /\ forms[k].bytes = FormsAsked(hits[call])[forms[k].nth]
      BY <1>2, <2>3 DEF FirstWritten
    <3>3. \A k \in M : forms'[k] = forms[k]
      BY <1>7
    <3> HIDE DEF M
    <3>4. {forms'[k].nth : k \in M} = {forms[k].nth : k \in M}
      BY <3>3
    <3> QED  BY <2>1, <2>2, <3>2, <3>3, <3>4 DEF M
  <2>5. ~(m < Len(Due(call))) /\ ~Failed(call)
    BY <1>5, <2>1, <2>3
  <2> HIDE DEF Beginning, Failed, Mine
  <2> QED  BY <2>1, <2>3, <2>4, <2>5
(* the call made now *)
<1>12. ASSUME ~RequestChanged(last)  PROVE Kept(last)
  <2>1. idform = asked
    BY <1>12 DEF Request, last
  <2>2. Due(last) = IF Wants(s) THEN t ELSE <<>>
    BY <1>2, <1>3, <2>1, HitAsked, Zenon DEF t
  <2>3. Mine(last) = {n + k : k \in 1 .. w}
    <3>1. \A k \in 1 .. n : forms'[k].call # last
      BY <1>7, <1>8, Zenon
    <3>2. \A k \in 1 .. w : n + k \in 1 .. n + w
      BY <1>2, <1>4
    <3> QED  BY <1>4, <1>6, <3>1, <3>2
  <2>4. ASSUME \A k \in 1 .. w : t[k] = Due(last)[k]  PROVE Beginning(last, w)
    <3>1. {forms'[k].nth : k \in Mine(last)} = {forms'[n + k].nth : k \in 1 .. w}
      BY <2>3
    <3>2. {forms'[n + k].nth : k \in 1 .. w} = {k : k \in 1 .. w}
      BY <1>6
    <3>3. ASSUME NEW k \in Mine(last)
          PROVE  forms'[k].form = asked /\ forms'[k].bytes = Due(last)[forms'[k].nth]
      <4>1. PICK j \in 1 .. w : k = n + j
        BY <2>3
      <4> HIDE DEF Due
      <4> QED  BY <1>6, <2>1, <2>4, <4>1, Zenon
    <3>4. {k : k \in 1 .. w} = 1 .. w
      OBVIOUS
    <3> QED  BY <3>1, <3>2, <3>3, <3>4
  <2>5. CASE Full
    <3>1. w = 0
      BY <1>4, <2>5 DEF Full, Write
    <3>2. Len(Due(last)) \in Nat
      <4>1. t \in Sizes
        BY <1>2, StemFields DEF Tails, t
      <4>2. Len(t) \in Nat /\ Len(<<>>) = 0
        BY <4>1, LenProperties, EmptySeq DEF Sizes
      <4> QED  BY <2>2, <4>2
    <3>3. Beginning(last, w)
      BY <2>4, <3>1
    <3>4. cap = NoBuffer \/ output' >= cap
      BY <2>5 DEF Full, NoArray
    <3>5. Failed(last)
      BY <2>5 DEF Full, LEMMBUFF_FAILED
    <3> HIDE DEF Due, Beginning, Failed, Mine
    <3> QED  BY <3>1, <3>2, <3>3, <3>4, <3>5
  <2>6. CASE Skip(s)
    <3>1. w = 0 /\ nerror' = 0
      BY <1>4, <1>5, <2>6 DEF Skip, Write
    <3>2. Due(last) = <<>> /\ Len(Due(last)) = 0
      BY <2>2, <2>6, EmptySeq DEF Skip
    <3>3. Beginning(last, w)
      BY <2>4, <3>1
    <3>4. ~Failed(last)
      BY <3>1
    <3> HIDE DEF Due, Beginning, Failed, Mine
    <3> QED  BY <3>1, <3>2, <3>3, <3>4
  <2>7. CASE Write(s)
    <3>1. w = Written(s) /\ Due(last) = t /\ ~NoArray /\ output' = output + RunningTotal(t)[w]
      BY <1>4, <2>2, <2>7 DEF Write, t
    <3>2. /\ w \in 0 .. Len(t) /\ t \in Sizes /\ output + RunningTotal(t)[w] <= cap
          /\ w < Len(t) => output + RunningTotal(t)[w] + t[w + 1] > cap
      BY <1>2, <3>1, WrittenIsMost DEF t
    <3>3. Beginning(last, w)
      BY <2>4, <3>1
    <3>4. nerror' = IF w < Len(t) THEN LEMMBUFF_FAILED ELSE 0
      BY <2>7, <3>1 DEF Write, FailureOf, t
    <3>5. w < Len(t) <=> Failed(last)
      BY <3>4 DEF LEMMBUFF_FAILED
    <3>6. w < Len(t) => output' + t[w + 1] > cap
      BY <3>1, <3>2, Zenon
    <3> HIDE DEF Due, Beginning, Failed, Mine
    <3> QED  BY <3>1, <3>2, <3>3, <3>5, <3>6
  <2> QED  BY <1>1, <2>5, <2>6, <2>7
<1>13. \A call \in 1 .. last : ~RequestChanged(call)' => Kept(call)
  <2> HIDE DEF Kept
  <2> QED  BY <1>8, <1>10, <1>11, <1>12, Zenon
<1>14. (\A call \in DOMAIN hits : ~RequestChanged(call) =>
         LET due == FormsAsked(hits[call])
             failed == call = Len(hits) /\ nerror # 0
         IN \E m \in 0 .. Len(due) :
              /\ FirstWritten(call, m)
              /\ m < Len(due) => failed
              /\ failed => \/ cap = NoBuffer \/ output >= cap
                           \/ m < Len(due) /\ output + due[m + 1] > cap)'
  <2>1. \A x : FormsAsked(x)' = FormsAsked(x)
    BY <1>5 DEF FormsAsked
  <2>2. \A call, m : FirstWritten(call, m)' <=> Beginning(call, m)
    BY <1>4, <1>5, <2>1 DEF FirstWritten
  <2> HIDE DEF Beginning
  <2> QED  BY <1>3, <1>5, <1>13, <2>1, <2>2
<1> QED  BY <1>4, <1>9, <1>14 DEF FormsComplete

(* A sequence is one over any set its elements are in. *)
LEMMA SeqOfElements ==
  ASSUME NEW S, NEW T, NEW q \in Seq(S), \A k \in 1 .. Len(q) : q[k] \in T
  PROVE  q \in Seq(T)
<1>1. Len(q) \in Nat /\ q = [k \in 1 .. Len(q) |-> q[k]]
  BY LenProperties
<1>2. q \in [1 .. Len(q) -> T]
  BY <1>1
<1> QED  BY <1>1, <1>2

(* A call keeps the types and the request. *)
LEMMA CallTyped ==
  ASSUME FormTypeOK, Request, Fresh, InsertStem
  PROVE  FormTypeOK' /\ Request' /\ Fresh'
<1>1. PICK s \in Stems : hits' = Append(hits, Hit(s)) /\ (Full \/ Skip(s) \/ Write(s))
  BY DEF InsertStem, Hit
<1>2. /\ nerror = 0 /\ Len(hits) < MaxHits /\ asked \in IdForms
      /\ UNCHANGED <<pc, cap, asked, result>>
  BY CalledSound DEF InsertStem
<1>3. /\ Len(forms) \in Nat /\ Len(hits) \in Nat /\ output \in Nat /\ cap \in Int /\ idform \in IdForms
      /\ \A k \in 1 .. Len(forms) : forms[k] \in FormRecord /\ forms[k].call \in 1 .. Len(hits)
                                  /\ forms[k].nth \in Nat \ {0}
  BY FormsTyped
<1>4. /\ Len(hits') = Len(hits) + 1 /\ hits'[Len(hits) + 1] = Hit(s)
      /\ \A k \in 1 .. Len(hits) : hits'[k] = hits[k]
      /\ hits' \in Seq(HitRecord)
  BY <1>1, HitAppended
<1>5. PICK w \in Nat :
           /\ Len(forms') = Len(forms) + w
           /\ \A k \in 1 .. Len(forms) : forms'[k] = forms[k]
           /\ \A k \in 1 .. w :
                forms'[Len(forms) + k] =
                  [call |-> Len(hits) + 1, nth |-> k, form |-> idform,
                   at |-> output + RunningTotal(Tails(s))[k - 1], bytes |-> Tails(s)[k]]
           /\ \A k \in 1 .. Len(forms) + w : k \in 1 .. Len(forms) \/ \E j \in 1 .. w : k = Len(forms) + j
           /\ forms' \in Seq(FormRecord)
           /\ \/ w = 0 /\ output' = output /\ ~Write(s)
              \/ w = Written(s) /\ Write(s)
  BY <1>1, CallWrites, Zenon
<1> DEFINE Form == [call: 1 .. Len(hits'), nth: Nat \ {0}, form: IdForms, at: Nat, bytes: Nat \ {0}]
<1>6. forms' \in Seq(Form)
  <2>1. ASSUME NEW k \in 1 .. Len(forms')  PROVE forms'[k] \in Form
    <3>1. forms'[k] \in FormRecord
      <4>1. k \in DOMAIN forms'
        BY <1>5, LenProperties
      <4> QED  BY <1>5, <4>1, ElementOfSeq
    <3>2. forms'[k].call \in 1 .. Len(hits') /\ forms'[k].nth \in Nat \ {0}
      <4>1. CASE k \in 1 .. Len(forms)
        <5>1. 1 .. Len(hits) \subseteq 1 .. Len(hits')
          BY <1>3, <1>4
        <5> QED  BY <1>3, <1>5, <4>1, <5>1
      <4>2. ASSUME NEW j \in 1 .. w, k = Len(forms) + j
            PROVE  forms'[k].call \in 1 .. Len(hits') /\ forms'[k].nth \in Nat \ {0}
        <5>1. forms'[k] = [call |-> Len(hits) + 1, nth |-> j, form |-> idform,
                           at |-> output + RunningTotal(Tails(s))[j - 1], bytes |-> Tails(s)[j]]
          BY <1>5, <4>2, Zenon
        <5>2. forms'[k].call = Len(hits) + 1 /\ forms'[k].nth = j
          BY <5>1
        <5>3. Len(hits) + 1 \in 1 .. Len(hits') /\ j \in Nat \ {0}
          BY <1>3, <1>4
        <5> QED  BY <5>2, <5>3, Zenon
      <4> QED  BY <1>5, <4>1, <4>2, Zenon
    <3> QED  BY <3>1, <3>2 DEF FormRecord
  <2> HIDE DEF Form
  <2> QED  BY <1>5, <2>1, SeqOfElements
<1>7. output' \in Nat
  <2>1. CASE w = 0 /\ output' = output
    BY <1>3, <2>1
  <2>2. CASE w = Written(s) /\ Write(s)
    <3>1. Tails(s) \in Sizes /\ w \in 0 .. Len(Tails(s)) /\ output' = output + RunningTotal(Tails(s))[w]
      BY <1>3, <2>2, WrittenIsMost DEF Write
    <3>2. RunningTotal(Tails(s))[w] \in Nat
      BY <3>1, Totals
    <3> QED  BY <1>3, <3>1, <3>2
  <2> QED  BY <1>5, <2>1, <2>2
<1>8. idform' \in {asked, NoForm} /\ nerror' \in {0, LEMMBUFF_FAILED}
  <2>1. idform \in {asked, NoForm}
    BY DEF FormTypeOK
  <2> QED  BY <1>1, <1>2, <2>1 DEF Full, Skip, Write, RequestAfter, FailureOf
<1>9. FormTypeOK'
  <2>1. Len(hits') <= MaxHits
    <3>1. MaxHits \in Nat
      BY StemsAssumption
    <3> QED  BY <1>2, <1>3, <1>4, <3>1
  <2> QED  BY <1>2, <1>4, <1>6, <1>7, <1>8, <2>1 DEF FormTypeOK, HitRecord
<1>10. Fresh'
  <2>1. hits' # <<>>
    BY <1>3, <1>4, EmptySeq
  <2> QED  BY <2>1 DEF Fresh
<1>11. Request'
  <2>1. RequestChanged(Len(hits) + 1) => RequestChanged(Len(hits) + 1)'
    <3> SUFFICES ASSUME NEW k \in 1 .. Len(hits) + 1 - 1,
                        hits[k].type = Preposition, asked # NoForm, asked = hits[k].tfoffs
                 PROVE  RequestChanged(Len(hits) + 1)'
      BY DEF RequestChanged
    <3>1. k \in 1 .. Len(hits) /\ k \in 1 .. Len(hits') + 1 - 1
      BY <1>3, <1>4
    <3> QED  BY <1>2, <1>4, <3>1 DEF RequestChanged
  <2>2. ASSUME idform = asked  PROVE Request'
    <3>1. CASE idform' = idform
      BY <1>2, <2>2, <3>1 DEF Request
    <3>2. CASE Write(s) /\ s.type = Preposition
      <4>1. idform' = NoForm /\ asked \in {NoForm, TfOffs(s)}
        BY <2>2, <3>2 DEF Write, Wants, Inflects, RequestAfter
      <4>2. Hit(s).type = Preposition /\ Hit(s).tfoffs = TfOffs(s)
        BY <3>2, StemFields DEF Hit
      <4>3. Len(hits) + 1 \in 1 .. Len(hits') + 1 - 1
        BY <1>3, <1>4
      <4>4. asked # NoForm => RequestChanged(Len(hits) + 1)'
        BY <1>2, <1>4, <4>1, <4>2, <4>3 DEF RequestChanged
      <4> QED  BY <1>2, <4>1, <4>4 DEF Request
    <3> QED  BY <1>1, <3>1, <3>2 DEF Full, Skip, Write, RequestAfter
  <2> QED  BY <2>1, <2>2 DEF Request
<1> QED  BY <1>9, <1>10, <1>11

-------------------------------------------------------------------------------

(* Nothing written is whole and complete where no stem was met. *)
LEMMA NothingWritten ==
  forms = <<>> /\ hits = <<>> /\ output = 0 => FormsWhole /\ FormsComplete
<1> SUFFICES ASSUME forms = <<>>, hits = <<>>, output = 0  PROVE FormsWhole /\ FormsComplete
  OBVIOUS
<1>1. DOMAIN forms = {} /\ DOMAIN hits = {} /\ Len(forms) = 0
  BY EmptySeq
<1> QED  BY <1>1 DEF FormsWhole, FormsComplete

(* The inductive invariant holds before any call. *)
LEMMA FormInit == Init => FormInv
<1> SUFFICES ASSUME Init  PROVE FormInv
  OBVIOUS
<1>1. FormTypeOK
  BY StemsAssumption, EmptySeq DEF Init, FormTypeOK
<1>2. Request /\ Fresh
  BY DEF Init, Request, Fresh
<1>3. FormsWhole /\ FormsComplete
  BY NothingWritten DEF Init
<1> QED  BY <1>1, <1>2, <1>3 DEF FormInv

(* Between the calls of the actor the forms stand as they are. *)
LEMMA StandStill ==
  ASSUME FormInv, UNCHANGED <<cap, asked, idform, forms, output, nerror, hits>>,
         pc' \in {"idle", pc}, result' \in Nat \cup {LEMMBUFF_FAILED, WORDBUFF_FAILED}
  PROVE  FormInv'
<1>1. FormTypeOK'
  BY DEF FormInv, FormTypeOK
<1>2. Request' /\ Fresh'
  BY DEF FormInv, Request, Fresh, RequestChanged
<1>3. FormsWhole'
  BY DEF FormInv, FormsWhole
<1>4. FormsComplete'
  <2>1. /\ \A x : FormsAsked(x)' = FormsAsked(x)
        /\ \A call : RequestChanged(call)' = RequestChanged(call)
    BY DEF FormsAsked, RequestChanged
  <2>2. \A call, m : FirstWritten(call, m)' = FirstWritten(call, m)
    BY <2>1 DEF FirstWritten
  <2> QED  BY <2>1, <2>2 DEF FormInv, FormsComplete
<1> QED  BY <1>1, <1>2, <1>3, <1>4 DEF FormInv

(* Every step keeps the inductive invariant. *)
LEMMA FormStep == FormInv /\ [Next]_vars => FormInv'
<1> SUFFICES ASSUME FormInv, [Next]_vars  PROVE FormInv'
  OBVIOUS
<1>1. FormTypeOK /\ Request /\ Fresh /\ FormsWhole /\ FormsComplete
  BY DEF FormInv
<1>2. CASE BuildForm \/ FindForms
  <2>1. PICK how \in {"build", "find"} : Begin(how)
    BY <1>2 DEF BuildForm, FindForms
  <2>2. /\ pc' \in {"build", "find"} /\ cap' \in Nat \cup {NoBuffer} /\ asked' \in IdForms /\ idform' = asked'
        /\ forms' = <<>> /\ output' = 0 /\ nerror' = 0 /\ hits' = <<>> /\ result' = result
    BY <2>1, StemsAssumption DEF Begin
  <2>3. FormTypeOK'
    BY <1>1, <2>2, StemsAssumption, EmptySeq DEF FormTypeOK
  <2>4. Request' /\ Fresh'
    BY <2>2 DEF Request, Fresh
  <2>5. FormsWhole' /\ FormsComplete'
    <3>1. (forms = <<>> /\ hits = <<>> /\ output = 0)'
      BY <2>2
    <3> QED  BY <3>1, NothingWritten, PTL
  <2> QED  BY <2>3, <2>4, <2>5 DEF FormInv
<1>3. CASE Refuse
  BY <1>3, StandStill DEF Refuse
<1>4. CASE InsertStem
  <2>1. FormTypeOK' /\ Request' /\ Fresh'
    BY <1>1, <1>4, CallTyped
  <2>2. FormsWhole' /\ FormsComplete'
    BY <1>1, <1>4, CallWhole, CallComplete
  <2> QED  BY <2>1, <2>2 DEF FormInv
<1>5. CASE ReturnBuild \/ ReturnFind
  <2>1. Len(forms) \in Nat /\ nerror \in {0, LEMMBUFF_FAILED}
    BY <1>1, FormsTyped DEF FormTypeOK
  <2> QED  BY <1>5, <2>1, StandStill DEF ReturnBuild, ReturnFind, BuildAnswer
<1>6. CASE UNCHANGED vars
  <2>1. result \in Nat \cup {LEMMBUFF_FAILED, WORDBUFF_FAILED}
    BY <1>1 DEF FormTypeOK
  <2> QED  BY <1>6, <2>1, StandStill DEF vars
<1> QED  BY <1>2, <1>3, <1>4, <1>5, <1>6 DEF Next

(* The inductive invariant holds throughout, for any dictionary              *)
(* (StemsAssumption), arrays of any size and calls that meet any number of   *)
(* stems up to MaxHits.                                                      *)
THEOREM FormInvariant == Spec => []FormInv
BY FormInit, FormStep, PTL DEF Spec

(* The actor and the array stay within their types for every dictionary, form  *)
(* identifier and size of the array.                                           *)
THEOREM FormTyping == Spec => []FormTypeOK
<1>1. FormInv => FormTypeOK
  BY DEF FormInv
<1> QED  BY <1>1, FormInvariant, PTL

(* The forms counted are whole and stand one behind the other inside an array  *)
(* of any size, however many stems are met (lemmatiz.cpp:238-262).             *)
THEOREM WholeForms == Spec => []FormsWhole
<1>1. FormInv => FormsWhole
  BY DEF FormInv
<1> QED  BY <1>1, FormInvariant, PTL

(* They are all the grammar has for what was asked, in its order, unless the   *)
(* call failed for want of room (lemmatiz.cpp:167-265).                        *)
THEOREM CompleteForms == Spec => []FormsComplete
<1>1. FormInv => FormsComplete
  BY DEF FormInv
<1> QED  BY <1>1, FormInvariant, PTL

===============================================================================
