---------------------------- MODULE TreeScanProofs ----------------------------
(***************************************************************************)
(* The builder's tree for every alphabet and every set of keys: nodes and  *)
(* vectors are one tree, children stand in falling order, and the elements *)
(* are those of the keys inserted.  The scan over such a tree implements   *)
(* PrefixSearch, and a lookup in the index comes out at its key: for any   *)
(* keys that are shorter than a size_t counts, any words and any answers   *)
(* of the actor.  The image of such a tree has the lengths its nodes store, *)
(* the readers find in it what the builder put there, and from every offset *)
(* of the index the way leads back to an entry of its lexeme.              *)
(***************************************************************************)
EXTENDS TreeScan, TreeImage, TextLemmas

-------------------------------------------------------------------------------
(* The builder's tree. *)

(* Characters are numbers, alone and in a vector. *)
LEMMA CharsAreInts ==
  ASSUME NEW cs \in Seq(Chars), NEW c \in Chars
  PROVE  c \in Int /\ \A i \in 1 .. Len(cs) : cs[i] \in Int
<1>1. \A x \in Chars : x \in Int
  <2> SUFFICES ASSUME NEW x \in Chars  PROVE x \in Int
    OBVIOUS
  <2>1. x \in 0 .. 255
    BY CharsAssumption, Zenon
  <2> QED  BY <2>1
<1>2. \A i \in 1 .. Len(cs) : cs[i] \in Chars
  OBVIOUS
<1> QED  BY <1>1, <1>2

(* The loop of Insert stops where it should, in every vector. *)
LEMMA PlaceIsRight ==
  ASSUME NEW cs \in Seq(Chars), NEW c \in Chars
  PROVE  /\ Place(cs, c) \in 1 .. Len(cs) + 1
         /\ \A j \in 1 .. Place(cs, c) - 1 : cs[j] > c
         /\ Place(cs, c) <= Len(cs) => cs[Place(cs, c)] <= c
<1> DEFINE Places == {i \in 1 .. Len(cs) + 1 : i <= Len(cs) => cs[i] <= c}
<1>1. c \in Int /\ \A i \in 1 .. Len(cs) : cs[i] \in Int
  BY CharsAreInts
<1>2. Places \subseteq Nat /\ Len(cs) + 1 \in Places
  OBVIOUS
<1>3. PICK i \in Places : \A j \in Places : i <= j
  <2> HIDE DEF Places
  <2> QED  BY <1>2, LeastNat
<1>4. i \in 1 .. Len(cs) + 1 /\ (i <= Len(cs) => cs[i] <= c)
  OBVIOUS
<1>5. \A j \in 1 .. i - 1 : cs[j] > c
  <2> SUFFICES ASSUME NEW j \in 1 .. i - 1, ~(cs[j] > c)  PROVE FALSE
    OBVIOUS
  <2>1. j \in 1 .. Len(cs)
    BY <1>4
  <2>2. j \in Places
    BY <1>1, <2>1
  <2> QED  BY <1>3, <1>4, <2>2
<1> HIDE DEF Places
<1> QED  BY <1>4, <1>5 DEF Place

(* Emplacing keeps the vector's other children, in their order. *)
LEMMA EmplacedIsRight ==
  ASSUME NEW cs \in Seq(Chars), NEW i \in 1 .. Len(cs) + 1, NEW c \in Chars
  PROVE  /\ Emplaced(cs, i, c) \in Seq(Chars)
         /\ Len(Emplaced(cs, i, c)) = Len(cs) + 1
         /\ \A j \in 1 .. Len(cs) + 1 :
              Emplaced(cs, i, c)[j] = IF j < i THEN cs[j] ELSE IF j = i THEN c ELSE cs[j - 1]
<1> DEFINE e(j) == IF j < i THEN cs[j] ELSE IF j = i THEN c ELSE cs[j - 1]
<1>1. \A j \in 1 .. Len(cs) + 1 : e(j) \in Chars
  OBVIOUS
<1>2. Emplaced(cs, i, c) = [j \in 1 .. Len(cs) + 1 |-> e(j)]
  BY DEF Emplaced
<1>3. Len(cs) + 1 \in Nat
  OBVIOUS
<1> HIDE DEF e
<1>4. [j \in 1 .. Len(cs) + 1 |-> e(j)] \in Seq(Chars)
  BY <1>1, <1>3
<1>5. Len([j \in 1 .. Len(cs) + 1 |-> e(j)]) = Len(cs) + 1
  BY <1>3, <1>4
<1>6. \A j \in 1 .. Len(cs) + 1 : Emplaced(cs, i, c)[j] = e(j)
  BY <1>2
<1> QED  BY <1>2, <1>4, <1>5, <1>6 DEF e

(* A vector in falling order stays so when a character that is not in it is    *)
(* emplaced where the loop stopped.                                            *)
LEMMA EmplacedFalls ==
  ASSUME NEW cs \in Seq(Chars), NEW c \in Chars,
         \A i, j \in 1 .. Len(cs) : i < j => cs[i] > cs[j],
         ~Present(cs, Place(cs, c), c)
  PROVE  LET out == Emplaced(cs, Place(cs, c), c)
         IN \A i, j \in 1 .. Len(out) : i < j => out[i] > out[j]
<1> DEFINE p == Place(cs, c)
           out == Emplaced(cs, p, c)
<1>1. /\ p \in 1 .. Len(cs) + 1
      /\ \A j \in 1 .. p - 1 : cs[j] > c
      /\ p <= Len(cs) => cs[p] < c
  <2>1. c \in Int /\ \A i \in 1 .. Len(cs) : cs[i] \in Int
    BY CharsAreInts
  <2>2. p <= Len(cs) => cs[p] # c
    BY DEF Present
  <2> QED  BY <2>1, <2>2, PlaceIsRight
<1> HIDE DEF p
<1>2. /\ Len(out) = Len(cs) + 1
      /\ \A j \in 1 .. Len(cs) + 1 :
           out[j] = IF j < p THEN cs[j] ELSE IF j = p THEN c ELSE cs[j - 1]
  BY <1>1, EmplacedIsRight
<1> HIDE DEF out
<1> SUFFICES ASSUME NEW i \in 1 .. Len(cs) + 1, NEW j \in 1 .. Len(cs) + 1, i < j
             PROVE  out[i] > out[j]
  BY <1>2 DEF p, out
<1>3. c \in Int /\ \A k \in 1 .. Len(cs) : cs[k] \in Int
  BY CharsAreInts
<1>4. CASE j < p
  BY <1>1, <1>2, <1>4
<1>5. CASE j = p
  BY <1>1, <1>2, <1>5
<1>6. CASE i < p /\ j > p
  BY <1>1, <1>2, <1>3, <1>6
<1>7. CASE i = p
  <2>1. cs[p] < c /\ j - 1 \in 1 .. Len(cs) /\ p \in 1 .. Len(cs)
    BY <1>1, <1>7
  <2>2. cs[j - 1] <= cs[p]
    BY <1>3, <1>7, <2>1
  <2> QED  BY <1>2, <1>3, <1>7, <2>1, <2>2
<1>8. CASE i > p
  BY <1>1, <1>2, <1>8
<1> QED  BY <1>1, <1>4, <1>5, <1>6, <1>7, <1>8

-------------------------------------------------------------------------------

(* A child that the vector does not show where the loop stopped is not a node  *)
(* yet: Insert never makes a second subtree for a path.                        *)
LEMMA MissingIsNew ==
  ASSUME TreeInv, NEW c \in Chars, ~Present(nested[at], Place(nested[at], c), c)
  PROVE  Append(at, c) \notin nodes
<1> DEFINE cs == nested[at]
           i == Place(cs, c)
<1>1. at \in nodes /\ at \in Seq(Chars) /\ cs \in Seq(Chars)
  BY DEF TreeInv, TreeTypeOK
<1>2. /\ i \in 1 .. Len(cs) + 1
      /\ \A j \in 1 .. i - 1 : cs[j] > c
      /\ i <= Len(cs) => cs[i] <= c
  BY <1>1, PlaceIsRight
<1>3. i <= Len(cs) => cs[i] # c
  BY DEF Present
<1>4. c \in Int /\ \A k \in 1 .. Len(cs) : cs[k] \in Int
  BY <1>1, CharsAreInts
<1>5. \A j, k \in 1 .. Len(cs) : j < k => cs[j] > cs[k]
  BY <1>1 DEF TreeInv, Descending
<1> HIDE DEF i
<1>6. \A k \in 1 .. Len(cs) : cs[k] # c
  BY <1>2, <1>3, <1>4, <1>5
<1> SUFFICES ASSUME Append(at, c) \in nodes  PROVE FALSE
  OBVIOUS
<1>7. Append(at, c) # <<>>
  BY <1>1
<1>8. PICK q \in nodes : \E k \in 1 .. Len(nested[q]) : Append(at, c) = Append(q, nested[q][k])
  BY <1>7 DEF TreeInv, Linked
<1>9. PICK k \in 1 .. Len(nested[q]) : Append(at, c) = Append(q, nested[q][k])
  BY <1>8
<1>10. q \in Seq(Chars) /\ nested[q] \in Seq(Chars) /\ nested[q][k] \in Chars
  BY DEF TreeInv, TreeTypeOK
<1>11. at = q /\ c = nested[q][k]
  BY <1>1, <1>9, <1>10, AppendInjective
<1> QED  BY <1>6, <1>11

(* One character goes from the rest to the path: their concatenation stays. *)
LEMMA StepOfWalk ==
  ASSUME NEW p \in Seq(Chars), NEW s \in Seq(Chars), s # <<>>
  PROVE  Append(p, Head(s)) \o Tail(s) = p \o s
<1>1. Head(s) \in Chars /\ Tail(s) \in Seq(Chars) /\ <<Head(s)>> \in Seq(Chars)
  OBVIOUS
<1>2. Append(p, Head(s)) = p \o <<Head(s)>>
  BY <1>1, AppendIsConcat
<1>3. (p \o <<Head(s)>>) \o Tail(s) = p \o (<<Head(s)>> \o Tail(s))
  BY <1>1, ConcatAssociative
<1>4. <<Head(s)>> \o Tail(s) = s
  OBVIOUS
<1> QED  BY <1>2, <1>3, <1>4

(* The builder starts with the root alone. *)
LEMMA TreeInit_Inv == TreeInit => TreeInv
<1> SUFFICES ASSUME TreeInit  PROVE TreeInv
  OBVIOUS
<1>1. nodes = {<<>>} /\ nested = [p \in {<<>>} |-> <<>>] /\ nested[<<>>] = <<>>
  BY DEF TreeInit
<1>2. TreeTypeOK
  <2>1. <<>> \in Seq(Chars)
    OBVIOUS
  <2>2. nodes \subseteq Seq(Chars) /\ data \subseteq nodes /\ known \subseteq Seq(Chars)
    BY <1>1, <2>1 DEF TreeInit
  <2>3. nested \in [nodes -> Seq(Chars)]
    BY <1>1, <2>1
  <2>4. at \in nodes /\ rest \in Seq(Chars) /\ goal \in Seq(Chars) /\ busy \in BOOLEAN
    BY <2>1 DEF TreeInit
  <2> QED  BY <2>2, <2>3, <2>4 DEF TreeTypeOK
<1>3. Descending /\ Linked
  BY <1>1 DEF Descending, Linked
<1>4. ElementsAtKeys /\ OnTheWay
  BY DEF TreeInit, ElementsAtKeys, OnTheWay
<1> QED  BY <1>2, <1>3, <1>4 DEF TreeInv

(* An insertion begins at the root. *)
LEMMA InsertKeeps ==
  ASSUME TreeInv, NEW key \in Keys, Insert(key)
  PROVE  TreeInv'
<1>1. key \in Seq(Chars) /\ <<>> \o key = key
  BY KeysAssumption
<1>2. <<>> \in nodes
  BY DEF TreeInv, Linked
<1>3. TreeTypeOK'
  BY <1>1, <1>2 DEF TreeInv, TreeTypeOK, Insert
<1>4. Descending' /\ Linked' /\ ElementsAtKeys'
  BY DEF TreeInv, Descending, Linked, ElementsAtKeys, Insert
<1>5. OnTheWay'
  BY <1>1 DEF OnTheWay, Insert
<1> QED  BY <1>3, <1>4, <1>5 DEF TreeInv

(* It ends at its key, whose node gets the element. *)
LEMMA StoreKeeps ==
  ASSUME TreeInv, Store
  PROVE  TreeInv'
<1>1. at = goal
  BY DEF TreeInv, TreeTypeOK, OnTheWay, Store
<1>2. TreeTypeOK'
  BY <1>1 DEF TreeInv, TreeTypeOK, Store
<1>3. Descending' /\ Linked'
  BY DEF TreeInv, Descending, Linked, Store
<1>4. ElementsAtKeys' /\ OnTheWay'
  BY <1>1 DEF TreeInv, ElementsAtKeys, OnTheWay, Store
<1> QED  BY <1>2, <1>3, <1>4 DEF TreeInv

(* The child exists: only the walk moves. *)
LEMMA DescendFindsKeeps ==
  ASSUME TreeInv, Descend,
         Present(nested[at], Place(nested[at], Head(rest)), Head(rest))
  PROVE  TreeInv'
<1> DEFINE c == Head(rest)
           i == Place(nested[at], c)
           child == Append(at, c)
<1>1. /\ UNCHANGED <<nodes, nested, data, busy, goal, known>>
      /\ at' = child /\ rest' = Tail(rest) /\ busy /\ rest # <<>>
  BY DEF Descend
<1>2. at \in nodes /\ at \in Seq(Chars) /\ rest \in Seq(Chars) /\ nested[at] \in Seq(Chars)
  BY DEF TreeInv, TreeTypeOK
<1>3. c \in Chars /\ Tail(rest) \in Seq(Chars)
  BY <1>1, <1>2
<1>4. i \in 1 .. Len(nested[at]) /\ nested[at][i] = c
  BY <1>2, <1>3, PlaceIsRight DEF Present
<1>5. child \in nodes
  BY <1>2, <1>4 DEF TreeInv, Linked
<1>6. TreeTypeOK'
  BY <1>1, <1>3, <1>5 DEF TreeInv, TreeTypeOK
<1>7. Descending' /\ Linked' /\ ElementsAtKeys'
  BY <1>1 DEF TreeInv, Descending, Linked, ElementsAtKeys
<1>8. OnTheWay'
  BY <1>1, <1>2, <1>3, StepOfWalk DEF TreeInv, OnTheWay
<1> QED  BY <1>6, <1>7, <1>8 DEF TreeInv

(* The child is made and emplaced: the vector of the node reached changes, and *)
(* one node is new.                                                            *)
LEMMA DescendMakesKeeps ==
  ASSUME TreeInv, Descend,
         ~Present(nested[at], Place(nested[at], Head(rest)), Head(rest))
  PROVE  TreeInv'
<1> DEFINE c == Head(rest)
           i == Place(nested[at], c)
           child == Append(at, c)
           out == Emplaced(nested[at], i, c)
<1>1. /\ UNCHANGED <<data, busy, goal, known>>
      /\ at' = child /\ rest' = Tail(rest) /\ busy /\ rest # <<>>
      /\ nodes' = nodes \cup {child}
      /\ nested' = [p \in nodes' |-> IF p = child THEN <<>>
                                     ELSE IF p = at THEN out ELSE nested[p]]
  BY DEF Descend
<1>2. at \in nodes /\ at \in Seq(Chars) /\ rest \in Seq(Chars) /\ nested[at] \in Seq(Chars)
  BY DEF TreeInv, TreeTypeOK
<1>3. c \in Chars /\ Tail(rest) \in Seq(Chars) /\ child \in Seq(Chars)
  BY <1>1, <1>2
<1>4. i \in 1 .. Len(nested[at]) + 1
  BY <1>2, <1>3, PlaceIsRight
<1>5. child \notin nodes
  BY <1>3, MissingIsNew
<1>6. /\ out \in Seq(Chars)
      /\ Len(out) = Len(nested[at]) + 1
      /\ \A j \in 1 .. Len(out) :
           out[j] = IF j < i THEN nested[at][j] ELSE IF j = i THEN c ELSE nested[at][j - 1]
  <2> HIDE DEF i, c
  <2>1. /\ out \in Seq(Chars)
        /\ Len(out) = Len(nested[at]) + 1
        /\ \A j \in 1 .. Len(nested[at]) + 1 :
             out[j] = IF j < i THEN nested[at][j] ELSE IF j = i THEN c ELSE nested[at][j - 1]
    BY <1>2, <1>3, <1>4, EmplacedIsRight, Zenon
  <2> QED  BY <2>1
<1>7. \A j, k \in 1 .. Len(out) : j < k => out[j] > out[k]
  BY <1>2, <1>3, EmplacedFalls DEF TreeInv, Descending
<1> HIDE DEF i, out
<1>8. /\ nested'[child] = <<>>
      /\ nested'[at] = out
      /\ \A p \in nodes \ {at} : nested'[p] = nested[p]
  BY <1>1, <1>2, <1>5
<1> HIDE DEF child
<1>9. TreeTypeOK'
  <2>1. nested' \in [nodes' -> Seq(Chars)]
    BY <1>1, <1>6 DEF TreeInv, TreeTypeOK
  <2> QED  BY <1>1, <1>3, <2>1 DEF TreeInv, TreeTypeOK
<1>10. Descending'
  BY <1>1, <1>7, <1>8 DEF TreeInv, Descending
<1>11. Linked'
  <2>1. <<>> \in nodes'
    BY <1>1 DEF TreeInv, Linked
  <2>2. ASSUME NEW p \in nodes', NEW j \in 1 .. Len(nested'[p])
        PROVE  Append(p, nested'[p][j]) \in nodes'
    <3>1. CASE p = child
      BY <1>8, <3>1
    <3>2. CASE p = at
      <4>1. j \in 1 .. Len(nested[at]) + 1 /\ nested'[p][j] = out[j]
        BY <1>6, <1>8, <3>2
      <4>2. CASE j < i
        BY <1>1, <1>2, <1>4, <1>6, <3>2, <4>1, <4>2 DEF TreeInv, Linked
      <4>3. CASE j = i
        BY <1>1, <1>6, <3>2, <4>1, <4>3 DEF child
      <4>4. CASE j > i
        <5>1. j - 1 \in 1 .. Len(nested[at]) /\ out[j] = nested[at][j - 1]
          BY <1>2, <1>4, <1>6, <4>1, <4>4
        <5> QED  BY <1>1, <1>2, <3>2, <4>1, <5>1 DEF TreeInv, Linked
      <4> QED  BY <1>4, <4>1, <4>2, <4>3, <4>4
    <3>3. CASE p # child /\ p # at
      BY <1>1, <1>8, <3>3 DEF TreeInv, Linked
    <3> QED  BY <3>1, <3>2, <3>3
  <2>3. ASSUME NEW p \in nodes' \ {<<>>}
        PROVE  \E q \in nodes' : \E j \in 1 .. Len(nested'[q]) : p = Append(q, nested'[q][j])
    <3>1. CASE p = child
      <4>1. i \in 1 .. Len(nested'[at]) /\ nested'[at][i] = c
        BY <1>4, <1>6, <1>8
      <4> QED  BY <1>1, <1>2, <3>1, <4>1 DEF child
    <3>2. CASE p # child
      <4>1. PICK q \in nodes : \E j \in 1 .. Len(nested[q]) : p = Append(q, nested[q][j])
        BY <1>1, <3>2 DEF TreeInv, Linked
      <4>2. PICK j \in 1 .. Len(nested[q]) : p = Append(q, nested[q][j])
        BY <4>1
      <4>3. CASE q = at
        <5>1. CASE j < i
          <6>1. j \in 1 .. Len(nested'[at]) /\ nested'[at][j] = nested[at][j]
            BY <1>2, <1>4, <1>6, <1>8, <4>2, <4>3, <5>1
          <6> QED  BY <1>1, <1>2, <4>2, <4>3, <6>1
        <5>2. CASE j >= i
          <6>1. j + 1 \in 1 .. Len(nested'[at]) /\ nested'[at][j + 1] = nested[at][j]
            BY <1>2, <1>4, <1>6, <1>8, <4>2, <4>3, <5>2
          <6> QED  BY <1>1, <1>2, <4>2, <4>3, <6>1
        <5> QED  BY <1>4, <5>1, <5>2
      <4>4. CASE q # at
        BY <1>1, <1>8, <4>2, <4>4
      <4> QED  BY <4>3, <4>4
    <3> QED  BY <3>1, <3>2
  <2> QED  BY <2>1, <2>2, <2>3 DEF Linked
<1>12. ElementsAtKeys'
  BY <1>1 DEF TreeInv, ElementsAtKeys
<1>13. OnTheWay'
  BY <1>1, <1>2, <1>3, StepOfWalk DEF TreeInv, OnTheWay, child
<1> QED  BY <1>9, <1>10, <1>11, <1>12, <1>13 DEF TreeInv

(* Every step of Insert keeps the tree. *)
LEMMA TreeNext_Inv == TreeInv /\ [TreeNext]_treeVars => TreeInv'
<1> SUFFICES ASSUME TreeInv, [TreeNext]_treeVars  PROVE TreeInv'
  OBVIOUS
<1>1. CASE \E key \in Keys : Insert(key)
  BY <1>1, InsertKeeps
<1>2. CASE Descend
  BY <1>2, DescendFindsKeeps, DescendMakesKeeps
<1>3. CASE Store
  BY <1>3, StoreKeeps
<1>4. CASE UNCHANGED treeVars
  BY <1>4 DEF treeVars, TreeInv, TreeTypeOK, Descending, Linked, ElementsAtKeys, OnTheWay
<1> QED  BY <1>1, <1>2, <1>3, <1>4 DEF TreeNext

(* The inductive invariant holds in every state of every tree. *)
THEOREM TreeInvariant == TreeSpec => []TreeInv
<1> QED  BY TreeInit_Inv, TreeNext_Inv, PTL DEF TreeSpec

(* Insert keeps the tree well formed at every step (wordtree.h:78-99). *)
THEOREM TreeTypes == TreeSpec => []TreeTypeOK
<1>1. TreeInv => TreeTypeOK
  BY DEF TreeInv
<1> QED  BY <1>1, TreeInvariant, PTL

(* Whatever is inserted, children stand in falling order: what the early exit  *)
(* of the dictionary's scan relies on (scandict.h:76).                         *)
THEOREM Falling == TreeSpec => []Descending
<1>1. TreeInv => Descending
  BY DEF TreeInv
<1> QED  BY <1>1, TreeInvariant, PTL

(* The vectors name exactly the nodes there are: no subtree is lost when a     *)
(* vector is moved to make room, and none is made twice (wordtree.h:83-92).    *)
THEOREM OneTree == TreeSpec => []Linked
<1>1. TreeInv => Linked
  BY DEF TreeInv
<1> QED  BY <1>1, TreeInvariant, PTL

(* The nodes with an element are those of the keys inserted (wordtree.h:95). *)
THEOREM Elements == TreeSpec => []ElementsAtKeys
<1>1. TreeInv => ElementsAtKeys
  BY DEF TreeInv
<1> QED  BY <1>1, TreeInvariant, PTL

-------------------------------------------------------------------------------
(* The scan. *)

(* a stem the word begins with *)
Begins(s) == Len(s) <= Len(word) /\ \A i \in 1 .. Len(s) : s[i] = word[i]

(* the child the level looks for is there and has not been passed *)
Pending(lv) ==
  \E i \in lv.passed + 1 .. Len(nested[lv.path]) : nested[lv.path][i] = lv.chfind

(* The call of the scan and its results are what their types say; a scan has   *)
(* accepted nothing as long as it runs.                                        *)
ScanTypeOK ==
  /\ index \in BOOLEAN /\ pc \in {"build", "saved", "scan"}
  /\ word \in Seq(0 .. 255) /\ Len(word) < SizeMod
  /\ stack \in Seq([path : nodes, chfind : 0 .. 255, passed : Nat])
  /\ asked \in known \cup {NoStem} /\ answer \in known \cup {NoStem}
  /\ pc = "build" => word = <<>>
  /\ pc # "saved" => answer = NoStem
  /\ pc # "scan" => stack = <<>>

(* The keys inserted are keys of this tree, and every node is on the way to    *)
(* one.                                                                        *)
Keyed ==
  /\ busy => goal \in KeysOf[index]
  /\ known \subseteq KeysOf[index]
  /\ \A p \in nodes \ {<<>>} : \E k \in KeysOf[index] :
       Len(p) <= Len(k) /\ \A i \in 1 .. Len(p) : p[i] = k[i]

(* The levels are one below the other along the characters found.              *)
Shape ==
  \A k \in 1 .. Len(stack) :
    /\ Len(stack[k].path) = k - 1
    /\ \A j \in 1 .. k - 1 : stack[k].path[j] = stack[j].chfind
    /\ stack[k].passed <= Len(nested[stack[k].path])
    /\ stack[k].chfind \in Sought(word, k - 1, Remaining(word, stack[k].path))

(* A level below the top has passed the child it went down to.                 *)
Behind ==
  \A k \in 1 .. Len(stack) - 1 :
    \E i \in 1 .. stack[k].passed : nested[stack[k].path][i] = stack[k].chfind

(* The stem asked about last is one the word begins with and was found no      *)
(* higher than the scan stands now, which is on its way up.                    *)
AskedBelow ==
  ~index /\ pc = "scan" /\ asked # NoStem =>
    /\ Begins(asked) /\ Len(stack) <= Len(asked)
    /\ stack # <<>> => ~Pending(Top)

(* A stem below the level on top that the word begins with is still to come or *)
(* has been asked about.                                                       *)
NonePassed ==
  ~index /\ pc = "scan" =>
    \A s \in known : Begins(s) /\ Len(stack) <= Len(s) =>
      \/ stack # <<>> /\ Pending(Top)
      \/ asked # NoStem /\ Len(asked) <= Len(s)

(* The scan of the index for a key it has is at that key, or below, or on its  *)
(* way down to it.                                                             *)
KeyAhead ==
  index /\ pc = "scan" /\ word \in known =>
    \/ Len(stack) > Len(word)
    \/ stack # <<>> /\ Pending(Top)

(* The inductive invariant of the scan.                                        *)
ScanInv ==
  /\ TreeInv /\ ScanTypeOK /\ Keyed
  /\ Shape /\ Behind
  /\ AskedBelow /\ NonePassed /\ KeyAhead /\ ExactLookup

-------------------------------------------------------------------------------
(* The tree *)

(* The loop of findchar comes to the child it looks for exactly when that      *)
(* child has not been passed: behind a lower one it cannot stand.              *)
LEMMA FindsWhatIsThere ==
  ASSUME TreeInv, NEW lv \in [path : nodes, chfind : 0 .. 255, passed : Nat]
  PROVE  Finds(lv) <=> Pending(lv)
<1> DEFINE p == lv.path
           cs == nested[lv.path]
           c == lv.chfind
<1>1. /\ p \in nodes /\ c \in Int /\ lv.passed \in Nat /\ Len(cs) \in Nat
      /\ \A i \in 1 .. Len(cs) : cs[i] \in Int
      /\ \A i, j \in 1 .. Len(cs) : i < j => cs[i] > cs[j]
  <2>1. cs \in Seq(Chars) /\ p \in nodes
    BY DEF TreeInv, TreeTypeOK
  <2>2. \A x \in Chars : x \in Int
    BY CharsAssumption
  <2>3. c \in Int /\ lv.passed \in Nat /\ Len(cs) \in Nat
    <3>1. lv.chfind \in 0 .. 255 /\ lv.passed \in Nat
      OBVIOUS
    <3>2. c \in Int
      BY <3>1
    <3>3. Len(cs) \in Nat
      BY <2>1, LenProperties
    <3> QED  BY <3>1, <3>2, <3>3
  <2>4. \A i \in 1 .. Len(cs) : cs[i] \in Int
    BY <2>1, <2>2
  <2>5. \A i, j \in 1 .. Len(cs) : i < j => cs[i] > cs[j]
    BY <2>1 DEF TreeInv, Descending
  <2> QED  BY <2>1, <2>3, <2>4, <2>5
<1>2. Finds(lv) => Pending(lv)
  BY DEF Finds, FindsAt, StopsAt, Stops, Pending
<1>3. ASSUME Pending(lv)  PROVE Finds(lv)
  <2>1. PICK i \in lv.passed + 1 .. Len(cs) : cs[i] = c
    BY <1>3 DEF Pending
  <2>2. i \in Stops(lv)
    BY <2>1 DEF Stops
  <2>3. ASSUME NEW j \in Stops(lv)  PROVE i <= j
    <3>1. j \in lv.passed + 1 .. Len(cs) /\ cs[j] <= c
      BY <2>3, <1>1 DEF Stops
    <3>2. j < i => cs[j] > cs[i]
      BY <3>1, <2>1, <1>1
    <3>3. cs[j] \in Int /\ i \in Int /\ j \in Int
      BY <3>1, <2>1, <1>1
    <3> QED  BY <3>1, <3>2, <3>3, <2>1, <1>1
  <2>4. FindsAt(lv, i)
    BY <2>1, <2>2, <2>3 DEF FindsAt, StopsAt
  <2> QED  BY <2>2, <2>4 DEF Finds
<1> QED  BY <1>2, <1>3

(* Above a node there is a node for each of its beginnings, with the next      *)
(* character among its children.                                               *)
LEMMA BeginningsAreNodes ==
  ASSUME TreeInv, NEW s \in nodes, NEW m \in Nat, m < Len(s)
  PROVE  /\ SubSeq(s, 1, m) \in nodes
         /\ \E i \in 1 .. Len(nested[SubSeq(s, 1, m)]) : nested[SubSeq(s, 1, m)][i] = s[m + 1]
<1> DEFINE b(n) == SubSeq(s, 1, n)
           T == {n \in m + 1 .. Len(s) : b(n) \in nodes}
<1>1. s \in Seq(Chars) /\ Len(s) \in Nat /\ nodes \subseteq Seq(Chars)
  BY DEF TreeInv, TreeTypeOK
<1>2. ASSUME NEW n \in 1 .. Len(s), b(n) \in nodes
      PROVE  /\ b(n - 1) \in nodes
             /\ \E i \in 1 .. Len(nested[b(n - 1)]) : nested[b(n - 1)][i] = s[n]
  <2>1. /\ b(n) \in Seq(Chars) /\ Len(b(n)) = n /\ b(n) # <<>>
        /\ \A i \in 1 .. n : b(n)[i] = s[i]
    BY <1>1, <1>2, SubSeqProperties
  <2>2. PICK q \in nodes : \E i \in 1 .. Len(nested[q]) : b(n) = Append(q, nested[q][i])
    BY <1>2, <2>1 DEF TreeInv, Linked
  <2>3. PICK i \in 1 .. Len(nested[q]) : b(n) = Append(q, nested[q][i])
    BY <2>2
  <2>4. q \in Seq(Chars) /\ nested[q] \in Seq(Chars) /\ nested[q][i] \in Chars
    BY <1>1, <2>3 DEF TreeInv, TreeTypeOK
  <2>5. /\ Len(q) = n - 1 /\ \A j \in 1 .. n - 1 : q[j] = b(n)[j]
        /\ b(n)[n] = nested[q][i]
    <3>1. /\ Len(Append(q, nested[q][i])) = Len(q) + 1 /\ Len(q) \in Nat
          /\ \A j \in 1 .. Len(q) : Append(q, nested[q][i])[j] = q[j]
          /\ Append(q, nested[q][i])[Len(q) + 1] = nested[q][i]
      BY <2>4
    <3> QED  BY <3>1, <2>1, <2>3
  <2>6. q = b(n - 1)
    <3>1. /\ b(n - 1) \in Seq(Chars) /\ Len(b(n - 1)) = n - 1
          /\ \A j \in 1 .. n - 1 : b(n - 1)[j] = s[j]
      BY <1>1, SubSeqProperties
    <3>2. \A j \in 1 .. n - 1 : q[j] = s[j]
      BY <2>1, <2>5
    <3> HIDE DEF b
    <3> QED  BY <3>1, <3>2, <2>4, <2>5, SeqEqual
  <2> QED  BY <2>1, <2>3, <2>5, <2>6
<1>3. Len(s) \in T
  <2>1. b(Len(s)) = s
    BY <1>1, SubSeqFull
  <2>2. Len(s) \in m + 1 .. Len(s)
    BY <1>1
  <2> QED  BY <2>1, <2>2
<1>4. PICK n \in T : \A k \in T : n <= k
  <2>1. T \subseteq Nat
    BY <1>1
  <2> HIDE DEF T
  <2> QED  BY <1>3, <2>1, LeastNat
<1>5. n = m + 1
  <2>1. n \in 1 .. Len(s) /\ b(n) \in nodes
    BY <1>1
  <2>2. b(n - 1) \in nodes
    BY <1>2, <2>1
  <2> QED  BY <2>2, <1>1, <1>4
<1>6. /\ b(n - 1) \in nodes
      /\ \E i \in 1 .. Len(nested[b(n - 1)]) : nested[b(n - 1)][i] = s[n]
  <2>1. n \in 1 .. Len(s) /\ b(n) \in nodes
    BY <1>1
  <2> QED  BY <1>2, <2>1
<1>7. n - 1 = m
  BY <1>5
<1> HIDE DEF b
<1>8. b(m) \in nodes /\ \E i \in 1 .. Len(nested[b(m)]) : nested[b(m)][i] = s[m + 1]
  BY <1>5, <1>6, <1>7
<1> QED  BY <1>8 DEF b

(* The keys of each tree are keys, shorter than a size_t counts.               *)
LEMMA KeysOfTree ==
  ASSUME index \in BOOLEAN
  PROVE  /\ KeysOf[index] \subseteq Keys
         /\ \A k \in KeysOf[index] : k \in Seq(Chars) /\ Len(k) \in Nat /\ Len(k) < SizeMod
<1>1. KeysOf[index] \in SUBSET Keys
  BY WordsAssumption
<1>2. \A k \in KeysOf[index] : Len(k) < SizeMod
  BY WordsAssumption
<1> QED  BY <1>1, <1>2, KeysAssumption

-------------------------------------------------------------------------------
(* The tree grows, and is saved *)

(* At the start there is a root, no key and no call.                           *)
LEMMA ScanInit == Init => ScanInv
<1> SUFFICES ASSUME Init  PROVE ScanInv
  OBVIOUS
<1>1. TreeInv
  BY TreeInit_Inv DEF Init
<1>2. /\ index \in BOOLEAN /\ pc = "build" /\ word = <<>> /\ stack = <<>>
      /\ asked = NoStem /\ answer = NoStem
      /\ nodes = {<<>>} /\ known = {} /\ busy = FALSE
  BY DEF Init, TreeInit
<1>3. ScanTypeOK
  <2>1. SizeMod \in Nat \ {0}
    BY WordsAssumption
  <2> QED  BY <1>2, <2>1 DEF ScanTypeOK
<1>4. Keyed
  BY <1>2 DEF Keyed
<1>5. Shape /\ Behind
  BY <1>2 DEF Shape, Behind
<1>6. AskedBelow /\ NonePassed /\ KeyAhead /\ ExactLookup
  BY <1>2 DEF AskedBelow, NonePassed, KeyAhead, ExactLookup
<1> QED  BY <1>1, <1>3, <1>4, <1>5, <1>6 DEF ScanInv

(* A step of Insert keeps every node on the way to a key.                      *)
LEMMA GrowKeyed ==
  ASSUME TreeInv, Keyed, index \in BOOLEAN, Grow, index' = index
  PROVE  Keyed'
<1>1. index' = index /\ KeysOf[index] \subseteq Keys
  BY KeysOfTree
<1>2. CASE \E key \in KeysOf[index] : Insert(key)
  <2>1. PICK key \in KeysOf[index] : Insert(key)
    BY <1>2
  <2>2. goal' = key /\ UNCHANGED <<nodes, known>>
    BY <2>1 DEF Insert
  <2> QED  BY <1>1, <2>2 DEF Keyed
<1>3. CASE Store
  <2>1. busy /\ busy' = FALSE /\ known' = known \cup {goal} /\ nodes' = nodes
    BY <1>3 DEF Store
  <2> QED  BY <1>1, <2>1 DEF Keyed
<1>4. CASE Descend
  <2> DEFINE child == Append(at, Head(rest))
  <2>1. /\ busy /\ rest # <<>> /\ UNCHANGED <<busy, goal, known>>
        /\ nodes' = nodes \/ nodes' = nodes \cup {child}
    BY <1>4 DEF Descend
  <2>2. /\ at \in Seq(Chars) /\ rest \in Seq(Chars) /\ at \o rest = goal
        /\ goal \in KeysOf[index]
    BY <2>1 DEF TreeInv, TreeTypeOK, OnTheWay, Keyed
  <2>3. Len(child) <= Len(goal) /\ \A i \in 1 .. Len(child) : child[i] = goal[i]
    <3>1. /\ Len(goal) = Len(at) + Len(rest)
          /\ \A i \in 1 .. Len(at) + Len(rest) :
               goal[i] = IF i <= Len(at) THEN at[i] ELSE rest[i - Len(at)]
      BY <2>2, ConcatProperties
    <3>2. /\ Head(rest) \in Chars /\ Head(rest) = rest[1]
          /\ Len(rest) \in Nat /\ Len(rest) # 0 /\ Len(at) \in Nat
      BY <2>1, <2>2
    <3>3. /\ Len(child) = Len(at) + 1 /\ child[Len(at) + 1] = rest[1]
          /\ \A i \in 1 .. Len(at) : child[i] = at[i]
      BY <2>2, <3>2
    <3> HIDE DEF child
    <3>4. Len(child) <= Len(goal)
      BY <3>1, <3>2, <3>3
    <3>5. ASSUME NEW i \in 1 .. Len(child)  PROVE child[i] = goal[i]
      <4>1. i \in 1 .. Len(at) + Len(rest)
        BY <3>2, <3>3
      <4>2. goal[i] = IF i <= Len(at) THEN at[i] ELSE rest[i - Len(at)]
        BY <3>1, <4>1
      <4>3. CASE i <= Len(at)
        BY <3>2, <3>3, <4>2, <4>3
      <4>4. CASE i = Len(at) + 1
        BY <3>2, <3>3, <4>2, <4>4
      <4> QED  BY <3>2, <3>3, <4>3, <4>4
    <3> QED  BY <3>4, <3>5
  <2>4. ASSUME NEW p \in nodes' \ {<<>>}
        PROVE  \E k \in KeysOf[index] : Len(p) <= Len(k) /\ \A i \in 1 .. Len(p) : p[i] = k[i]
    <3> HIDE DEF child
    <3>1. p \in nodes \/ p = child
      BY <2>1
    <3> QED  BY <2>2, <2>3, <3>1 DEF Keyed
  <2> HIDE DEF child
  <2> QED  BY <1>1, <2>1, <2>2, <2>4 DEF Keyed
<1> QED  BY <1>2, <1>3, <1>4 DEF Grow

(* While the tree grows no scan runs.                                          *)
LEMMA BuildKeeps ==
  ASSUME ScanInv, Build
  PROVE  ScanInv'
<1>1. /\ pc = "build" /\ UNCHANGED <<index, pc, word, stack, asked, left, answer>>
      /\ index \in BOOLEAN /\ stack = <<>>
  BY DEF Build, Grow, ScanInv, ScanTypeOK
<1>2. KeysOf[index] \subseteq Keys
  BY <1>1, KeysOfTree
<1>3. TreeInv'
  <2>1. TreeNext
    BY <1>2 DEF Build, Grow, TreeNext
  <2> QED  BY <2>1, TreeNext_Inv DEF ScanInv
<1>4. known \subseteq known'
  BY DEF Build, Grow, Insert, Descend, Store
<1>5. ScanTypeOK'
  <2>1. stack' \in Seq([path : nodes', chfind : 0 .. 255, passed : Nat])
    BY <1>1
  <2> QED  BY <1>1, <1>4, <2>1 DEF ScanInv, ScanTypeOK
<1>6. Keyed'
  BY <1>1, GrowKeyed DEF ScanInv, Build
<1>7. Shape' /\ Behind'
  BY <1>1 DEF Shape, Behind
<1>8. AskedBelow' /\ NonePassed' /\ KeyAhead' /\ ExactLookup'
  BY <1>1 DEF AskedBelow, NonePassed, KeyAhead, ExactLookup
<1> QED  BY <1>3, <1>5, <1>6, <1>7, <1>8 DEF ScanInv

(* What the tree is told stays so as long as nothing is inserted.              *)
LEMMA TreeStays ==
  ASSUME TreeInv, Keyed, UNCHANGED <<treeVars, index>>
  PROVE  TreeInv' /\ Keyed'
<1>1. TreeInv'
  BY TreeNext_Inv
<1>2. UNCHANGED <<nodes, busy, goal, known, index>>
  BY DEF treeVars
<1> QED  BY <1>1, <1>2 DEF Keyed

(* Saving starts no scan.                                                      *)
LEMMA SaveKeeps ==
  ASSUME ScanInv, Save
  PROVE  ScanInv'
<1>1. /\ pc = "build" /\ pc' = "saved"
      /\ UNCHANGED <<treeVars, index, word, stack, asked, left, answer>>
      /\ UNCHANGED <<nodes, known>>
      /\ stack = <<>> /\ word = <<>>
  BY DEF Save, treeVars, ScanInv, ScanTypeOK
<1>2. TreeInv' /\ Keyed'
  BY <1>1, TreeStays DEF ScanInv
<1>3. ScanTypeOK'
  BY <1>1 DEF ScanInv, ScanTypeOK
<1>4. Shape' /\ Behind'
  BY <1>1 DEF Shape, Behind
<1>5. AskedBelow' /\ NonePassed' /\ KeyAhead' /\ ExactLookup'
  BY <1>1 DEF AskedBelow, NonePassed, KeyAhead, ExactLookup
<1> QED  BY <1>2, <1>3, <1>4, <1>5 DEF ScanInv

-------------------------------------------------------------------------------
(* What a level looks for *)

(* Less than one turn of a size_t above or below zero.                         *)
LEMMA WithinATurn ==
  ASSUME NEW m \in Nat \ {0}, NEW a \in Int, 0 - m < a, a < m
  PROVE  /\ a >= 0 => a % m = a
         /\ a < 0 => a % m = a + m
BY Z3

(* Within the word a level looks for the next character, at its end for 0, and *)
(* nowhere else are no characters left.                                        *)
LEMMA SoughtHere ==
  ASSUME NEW w \in Seq(0 .. 255), Len(w) < SizeMod,
         NEW p \in Seq(Chars), Len(p) < SizeMod
  PROVE  /\ Len(p) < Len(w) => Sought(w, Len(p), Remaining(w, p)) = {w[Len(p) + 1]}
         /\ Len(p) = Len(w) => Sought(w, Len(p), Remaining(w, p)) = {0}
         /\ Sought(w, Len(p), Remaining(w, p)) \subseteq 0 .. 255
         /\ Remaining(w, p) = 0 <=> Len(p) = Len(w)
         /\ Len(p) <= Len(w) => Remaining(w, p) = Len(w) - Len(p)
<1> DEFINE n == Len(p)
           l == Len(w)
           r == Remaining(w, p)
<1>1. SizeMod \in Nat \ {0} /\ n \in Nat /\ l \in Nat /\ l < SizeMod /\ n < SizeMod
  BY WordsAssumption
<1>2. r = (l - n) % SizeMod
  BY DEF Remaining
<1>3. /\ l - n >= 0 => r = l - n
      /\ l - n < 0 => r = (l - n) + SizeMod
  <2>1. 0 - SizeMod < l - n /\ l - n < SizeMod /\ l - n \in Int
    BY <1>1
  <2> HIDE DEF n, l, r
  <2> QED  BY <1>1, <1>2, <2>1, WithinATurn
<1>4. /\ r \in Int
      /\ r = 0 <=> n = l
      /\ n <= l => r = l - n
      /\ n < l => r > 0
  <2> HIDE DEF n, l, r
  <2> QED  BY <1>1, <1>3
<1>5. n < l => Sought(w, n, r) = {w[n + 1]}
  BY <1>4 DEF Sought, At
<1>6. n = l => Sought(w, n, r) = {0}
  BY <1>4 DEF Sought
<1>7. Sought(w, n, r) \subseteq 0 .. 255
  <2>1. At(w, n) \subseteq 0 .. 255
    <3>1. CASE n < l
      <4>1. n + 1 \in 1 .. l
        BY <1>1, <3>1
      <4>2. w[n + 1] \in 0 .. 255
        <5> HIDE DEF n, l
        <5> QED  BY <4>1, ElementOfSeq DEF l
      <4> HIDE DEF n, l
      <4> QED  BY <3>1, <4>2 DEF At, l
    <3>2. CASE ~(n < l)
      <4>1. Chars \cup {0} \subseteq 0 .. 255
        BY CharsAssumption
      <4> QED  BY <3>2, <4>1 DEF At
    <3> QED  BY <3>1, <3>2
  <2> HIDE DEF n, r
  <2> QED  BY <2>1 DEF Sought
<1> QED  BY <1>4, <1>5, <1>6, <1>7

(* No node is deeper than a size_t counts, and in the tree of stems no path    *)
(* has a zero.                                                                 *)
LEMMA NodesAreShort ==
  ASSUME TreeInv, Keyed, index \in BOOLEAN, NEW p \in nodes
  PROVE  /\ p \in Seq(Chars) /\ Len(p) \in Nat /\ Len(p) < SizeMod
         /\ ~index => \A i \in 1 .. Len(p) : p[i] # 0
<1>1. p \in Seq(Chars)
  BY DEF TreeInv, TreeTypeOK
<1>2. CASE p = <<>>
  <2>1. SizeMod \in Nat \ {0}
    BY WordsAssumption
  <2> QED  BY <1>1, <1>2, <2>1
<1>3. CASE p # <<>>
  <2>1. PICK k \in KeysOf[index] : Len(p) <= Len(k) /\ \A i \in 1 .. Len(p) : p[i] = k[i]
    BY <1>3 DEF Keyed
  <2>2. k \in Seq(Chars) /\ Len(k) \in Nat /\ Len(k) < SizeMod
    BY KeysOfTree
  <2>3. Len(p) \in Nat /\ SizeMod \in Nat
    BY <1>1, WordsAssumption
  <2>4. ASSUME ~index, NEW i \in 1 .. Len(p)  PROVE p[i] # 0
    <3>1. k \in KeysOf[FALSE]
      BY <2>1, <2>4
    <3>2. i \in 1 .. Len(k)
      BY <2>1, <2>2, <2>3
    <3>3. k[i] # 0
      BY <3>1, <3>2, StemsAreTexts
    <3> QED  BY <2>1, <3>3
  <2> QED  BY <1>1, <2>1, <2>2, <2>3, <2>4
<1> QED  BY <1>2, <1>3

(* A level at the end of which a key goes on, looking for the key's next       *)
(* character, has it still before it.                                          *)
LEMMA KeyIsPending ==
  ASSUME TreeInv, NEW s \in known, NEW p \in nodes, Len(p) < Len(s),
         \A i \in 1 .. Len(p) : p[i] = s[i],
         NEW lv, lv.path = p, lv.chfind = s[Len(p) + 1], lv.passed = 0
  PROVE  Pending(lv)
<1>1. s \in nodes /\ s \in Seq(Chars) /\ p \in Seq(Chars) /\ Len(s) \in Nat /\ Len(p) \in Nat
  BY DEF TreeInv, TreeTypeOK, ElementsAtKeys
<1>2. SubSeq(s, 1, Len(p)) = p
  <2>1. /\ SubSeq(s, 1, Len(p)) \in Seq(Chars) /\ Len(SubSeq(s, 1, Len(p))) = Len(p)
        /\ \A i \in 1 .. Len(p) : SubSeq(s, 1, Len(p))[i] = s[i]
    BY <1>1, SubSeqProperties
  <2> QED  BY <1>1, <2>1, SeqEqual
<1>3. PICK i \in 1 .. Len(nested[p]) : nested[p][i] = s[Len(p) + 1]
  <2>1. \E i \in 1 .. Len(nested[SubSeq(s, 1, Len(p))]) :
          nested[SubSeq(s, 1, Len(p))][i] = s[Len(p) + 1]
    BY <1>1, BeginningsAreNodes
  <2> QED  BY <1>2, <2>1
<1> QED  BY <1>3 DEF Pending

-------------------------------------------------------------------------------
(* The steps of the scan *)

(* What stands on the stack is a level each.                                   *)
LEMMA LevelsTyped ==
  ASSUME TreeInv, ScanTypeOK, Shape, Keyed, NEW k \in 1 .. Len(stack)
  PROVE  /\ stack[k] \in [path : nodes, chfind : 0 .. 255, passed : Nat]
         /\ stack[k].path \in nodes /\ stack[k].path \in Seq(Chars)
         /\ Len(stack[k].path) = k - 1 /\ k - 1 < SizeMod
         /\ stack[k].passed \in Nat
         /\ k <= Len(word) => stack[k].chfind = word[k]
         /\ k = Len(word) + 1 => stack[k].chfind = 0
<1> DEFINE p == stack[k].path
<1>1. stack[k] \in [path : nodes, chfind : 0 .. 255, passed : Nat]
  BY ElementOfSeq DEF ScanTypeOK
<1>2. p \in nodes /\ stack[k].passed \in Nat
  BY <1>1
<1>3. p \in Seq(Chars) /\ Len(p) \in Nat /\ Len(p) < SizeMod
  BY <1>2, NodesAreShort DEF ScanTypeOK
<1>4. /\ Len(p) = k - 1
      /\ stack[k].chfind \in Sought(word, k - 1, Remaining(word, p))
  BY DEF Shape
<1>5. word \in Seq(0 .. 255) /\ Len(word) < SizeMod /\ Len(word) \in Nat
  BY DEF ScanTypeOK
<1> HIDE DEF p
<1>6. /\ k - 1 < Len(word) => Sought(word, k - 1, Remaining(word, p)) = {word[(k - 1) + 1]}
      /\ k - 1 = Len(word) => Sought(word, k - 1, Remaining(word, p)) = {0}
  <2>1. /\ Len(p) < Len(word) => Sought(word, Len(p), Remaining(word, p)) = {word[Len(p) + 1]}
        /\ Len(p) = Len(word) => Sought(word, Len(p), Remaining(word, p)) = {0}
    BY <1>3, <1>5, SoughtHere
  <2>2. Len(p) = k - 1
    BY <1>4
  <2> QED  BY <2>1, <2>2, Zenon
<1>7. k <= Len(word) => stack[k].chfind = word[k]
  <2>1. k <= Len(word) => k - 1 < Len(word) /\ (k - 1) + 1 = k
    BY <1>5
  <2> QED  BY <1>4, <1>6, <2>1
<1>8. k = Len(word) + 1 => stack[k].chfind = 0
  <2>1. k = Len(word) + 1 => k - 1 = Len(word)
    BY <1>5
  <2> QED  BY <1>4, <1>6, <2>1
<1>9. k - 1 < SizeMod
  BY <1>3, <1>4
<1>10. stack[k].path = p
  BY DEF p
<1> QED  BY <1>1, <1>2, <1>3, <1>4, <1>7, <1>8, <1>9, <1>10

(* A level goes down exactly where the child it looks for is still to come.    *)
LEMMA TopFinds ==
  ASSUME ScanInv, stack # <<>>
  PROVE  /\ Len(stack) \in Nat \ {0}
         /\ Top \in [path : nodes, chfind : 0 .. 255, passed : Nat]
         /\ Finds(Top) <=> Pending(Top)
<1>1. Len(stack) \in Nat \ {0} /\ Len(stack) \in 1 .. Len(stack)
  BY DEF ScanInv, ScanTypeOK
<1>2. Top \in [path : nodes, chfind : 0 .. 255, passed : Nat]
  BY <1>1, LevelsTyped DEF ScanInv, Top
<1> QED  BY <1>1, <1>2, FindsWhatIsThere DEF ScanInv

(* The scan starts at the root with every stem before it.                      *)
LEMMA StartKeeps ==
  ASSUME ScanInv, LinearScanDict
  PROVE  ScanInv'
<1>1. /\ pc' = "scan" /\ word' \in Words[index]
      /\ asked' = NoStem /\ answer' = NoStem
      /\ UNCHANGED <<treeVars, index>> /\ UNCHANGED <<nodes, nested, data, known>>
  BY DEF LinearScanDict, treeVars
<1>2. PICK lv \in SetLevel(word', <<>>) : stack' = <<lv>>
  BY DEF LinearScanDict
<1>3. TreeInv /\ Keyed /\ TreeInv' /\ Keyed' /\ index \in BOOLEAN
  BY <1>1, TreeStays DEF ScanInv, ScanTypeOK
<1>4. word' \in Seq(0 .. 255) /\ Len(word') < SizeMod /\ Len(word') \in Nat
  <2>1. Words[index] \subseteq Seq(0 .. 255) /\ \A w \in Words[index] : Len(w) < SizeMod
    BY <1>3, WordsAssumption
  <2> QED  BY <1>1, <2>1
<1>5. <<>> \in nodes /\ <<>> \in Seq(Chars) /\ Len(<<>>) = 0 /\ 0 < SizeMod
  BY <1>3, WordsAssumption DEF TreeInv, Linked
<1>6. /\ lv.path = <<>> /\ lv.passed = 0
      /\ lv.chfind \in Sought(word', 0, Remaining(word', <<>>))
      /\ lv = [path |-> <<>>, chfind |-> lv.chfind, passed |-> 0]
  BY <1>2, <1>5 DEF SetLevel
<1>7. /\ Sought(word', 0, Remaining(word', <<>>)) \subseteq 0 .. 255
      /\ 0 < Len(word') => Sought(word', 0, Remaining(word', <<>>)) = {word'[0 + 1]}
  <2>1. /\ Sought(word', Len(<<>>), Remaining(word', <<>>)) \subseteq 0 .. 255
        /\ Len(<<>>) < Len(word') =>
             Sought(word', Len(<<>>), Remaining(word', <<>>)) = {word'[Len(<<>>) + 1]}
    BY <1>4, <1>5, SoughtHere
  <2> QED  BY <2>1, <1>5, Zenon
<1>8. lv \in [path : nodes, chfind : 0 .. 255, passed : Nat]
  BY <1>5, <1>6, <1>7
<1>9. Len(stack') = 1 /\ stack'[1] = lv /\ Top' = lv /\ stack' # <<>>
  BY <1>2 DEF Top
<1>10. ScanTypeOK'
  <2>1. stack' \in Seq([path : nodes', chfind : 0 .. 255, passed : Nat])
    BY <1>1, <1>2, <1>8
  <2> QED  BY <1>1, <1>3, <1>4, <2>1 DEF ScanTypeOK
<1>11. Shape'
  <2> SUFFICES ASSUME NEW k \in 1 .. 1
               PROVE  /\ Len(stack'[k].path) = k - 1
                      /\ \A j \in 1 .. k - 1 : stack'[k].path[j] = stack'[j].chfind
                      /\ stack'[k].passed <= Len(nested'[stack'[k].path])
                      /\ stack'[k].chfind \in Sought(word', k - 1, Remaining(word', stack'[k].path))
    BY <1>9 DEF Shape, Sought, At, Remaining
  <2>1. k = 1 /\ k - 1 = 0
    OBVIOUS
  <2>2. Len(nested'[<<>>]) \in Nat
    BY <1>1, <1>5, <1>3 DEF TreeInv, TreeTypeOK
  <2> QED  BY <2>1, <2>2, <1>5, <1>6, <1>9
<1>12. Behind'
  BY <1>9 DEF Behind
<1>13. ASSUME NEW s \in known, 0 < Len(s), 0 < Len(word'), s[1] = word'[1]
       PROVE  Pending(lv)
  <2>1. lv.chfind = s[Len(<<>>) + 1]
    <3>1. lv.chfind = word'[0 + 1]
      BY <1>6, <1>7, <1>13
    <3> QED  BY <3>1, <1>13, <1>5
  <2> QED  BY <2>1, <1>3, <1>5, <1>6, <1>13, KeyIsPending
<1>14. Pending(Top)' <=> Pending(lv)
  BY <1>1, <1>9 DEF Pending
<1>15. AskedBelow' /\ ExactLookup'
  BY <1>1 DEF AskedBelow, ExactLookup
<1>16. NonePassed'
  <2> SUFFICES ASSUME NEW s \in known, Begins(s)', 1 <= Len(s)
               PROVE  Pending(lv)
    BY <1>1, <1>9, <1>14 DEF NonePassed
  <2>1. Len(s) <= Len(word') /\ \A i \in 1 .. Len(s) : s[i] = word'[i]
    BY DEF Begins
  <2>2. s \in Seq(Chars) /\ Len(s) \in Nat
    BY <1>3 DEF TreeInv, TreeTypeOK
  <2>3. 0 < Len(s) /\ 0 < Len(word') /\ 1 \in 1 .. Len(s)
    BY <2>1, <2>2, <1>4
  <2> QED  BY <2>1, <2>3, <1>13
<1>17. KeyAhead'
  <2> SUFFICES ASSUME word' \in known, ~(1 > Len(word'))
               PROVE  Pending(lv)
    BY <1>1, <1>9, <1>14 DEF KeyAhead
  <2>1. 0 < Len(word')
    BY <1>4
  <2> QED  BY <2>1, <1>13
<1> QED  BY <1>3, <1>10, <1>11, <1>12, <1>15, <1>16, <1>17 DEF ScanInv

(* What going down leaves: the level on top has passed the child, a level at   *)
(* the child stands above it.                                                  *)
LEMMA OneLevelDown ==
  ASSUME ScanInv, GoDown
  PROVE  LET n == Len(stack)
             q == Append(Top.path, Top.chfind)
         IN /\ stack # <<>> /\ n \in Nat \ {0} /\ Pending(Top)
            /\ stack' \in Seq([path : nodes, chfind : 0 .. 255, passed : Nat])
            /\ Len(stack') = n + 1
            /\ \A k \in 1 .. n - 1 : stack'[k] = stack[k]
            /\ stack'[n].path = Top.path /\ stack'[n].chfind = Top.chfind
            /\ stack'[n].passed \in 1 .. Len(nested[Top.path])
            /\ nested[Top.path][stack'[n].passed] = Top.chfind
            /\ q \in nodes /\ stack'[n + 1].path = q /\ stack'[n + 1].passed = 0
            /\ stack'[n + 1].chfind \in Sought(word, Len(q), Remaining(word, q))
<1> DEFINE n == Len(stack)
           q == Append(Top.path, Top.chfind)
           R == [path : nodes, chfind : 0 .. 255, passed : Nat]
<1>1. stack # <<>>
  BY DEF GoDown
<1>2. PICK j \in Stops(Top), lv \in SetLevel(word, q) :
        FindsAt(Top, j) /\ stack' = Append([stack EXCEPT ![n].passed = j], lv)
  BY DEF GoDown
<1>3. /\ n \in Nat \ {0} /\ n \in 1 .. n /\ Top \in R
      /\ Finds(Top) <=> Pending(Top)
      /\ stack \in Seq(R) /\ TreeInv /\ Keyed /\ index \in BOOLEAN
  <2>1. n \in Nat \ {0} /\ Top \in R /\ (Finds(Top) <=> Pending(Top))
    BY <1>1, TopFinds
  <2>2. stack \in Seq(R) /\ TreeInv /\ Keyed /\ index \in BOOLEAN
    BY DEF ScanInv, ScanTypeOK
  <2>3. n \in 1 .. n
    BY <2>1
  <2> HIDE DEF n, R
  <2> QED  BY <2>1, <2>2, <2>3
<1>4. Pending(Top)
  BY <1>2, <1>3 DEF Finds
<1>5. /\ j \in Top.passed + 1 .. Len(nested[Top.path]) /\ nested[Top.path][j] = Top.chfind
      /\ Top.passed \in Nat /\ Top.path \in nodes /\ Top.chfind \in 0 .. 255
      /\ Len(nested[Top.path]) \in Nat
  <2>1. j \in Top.passed + 1 .. Len(nested[Top.path]) /\ nested[Top.path][j] = Top.chfind
    BY <1>2 DEF FindsAt, StopsAt, Stops
  <2>2. Top.passed \in Nat /\ Top.path \in nodes /\ Top.chfind \in 0 .. 255
    BY <1>3
  <2>3. Len(nested[Top.path]) \in Nat
    BY <1>3, <2>2 DEF TreeInv, TreeTypeOK
  <2> QED  BY <2>1, <2>2, <2>3
<1>6. j \in 1 .. Len(nested[Top.path]) /\ j \in Nat
  BY <1>5
<1>7. q \in nodes
  BY <1>3, <1>5, <1>6 DEF TreeInv, Linked
<1>8. lv \in R /\ lv.path = q /\ lv.passed = 0 /\ lv.chfind \in Sought(word, Len(q), Remaining(word, q))
  <2>1. q \in Seq(Chars) /\ Len(q) < SizeMod
    BY <1>3, <1>7, NodesAreShort
  <2>2. word \in Seq(0 .. 255) /\ Len(word) < SizeMod
    BY DEF ScanInv, ScanTypeOK
  <2>3. Sought(word, Len(q), Remaining(word, q)) \subseteq 0 .. 255
    BY <2>1, <2>2, SoughtHere
  <2>4. PICK c \in Sought(word, Len(q), Remaining(word, q)) :
          lv = [path |-> q, chfind |-> c, passed |-> 0]
    BY DEF SetLevel
  <2> QED  BY <1>7, <2>3, <2>4
<1>9. DEFINE t == [Top EXCEPT !.passed = j]
             st == [stack EXCEPT ![n] = t]
<1>10. [stack EXCEPT ![n].passed = j] = st
  BY DEF Top
<1>11. t \in R /\ t.path = Top.path /\ t.chfind = Top.chfind /\ t.passed = j
  BY <1>3, <1>6
<1>12. /\ st \in Seq(R) /\ Len(st) = n /\ st[n] = t
       /\ \A k \in 1 .. n - 1 : st[k] = stack[k]
  <2> HIDE DEF t, R
  <2>1. /\ [stack EXCEPT ![n] = t] \in Seq(R)
        /\ Len([stack EXCEPT ![n] = t]) = Len(stack)
        /\ \A k \in 1 .. Len(stack) :
             [stack EXCEPT ![n] = t][k] = IF k = n THEN t ELSE stack[k]
    BY <1>3, <1>11, ExceptSeq
  <2>2. \A k \in 1 .. n - 1 : k \in 1 .. Len(stack) /\ k # n
    BY <1>3
  <2> QED  BY <1>3, <2>1, <2>2
<1>13. /\ stack' \in Seq(R) /\ Len(stack') = n + 1 /\ stack'[n + 1] = lv
       /\ stack'[n] = t /\ \A k \in 1 .. n - 1 : stack'[k] = stack[k]
  <2> HIDE DEF st, t, R
  <2>1. stack' = Append(st, lv)
    BY <1>2, <1>10
  <2>2. /\ Append(st, lv) \in Seq(R) /\ Len(Append(st, lv)) = Len(st) + 1
        /\ \A k \in 1 .. Len(st) : Append(st, lv)[k] = st[k]
        /\ Append(st, lv)[Len(st) + 1] = lv
    BY <1>8, <1>12, AppendProperties
  <2>3. \A k \in 1 .. n - 1 : k \in 1 .. n
    BY <1>3
  <2> HIDE DEF n
  <2> QED  BY <1>3, <1>12, <2>1, <2>2, <2>3
<1> QED  BY <1>1, <1>3, <1>4, <1>5, <1>6, <1>7, <1>8, <1>11, <1>13

(* On the way down every stem of the word that is deeper stays before the scan.*)
LEMMA GoDownKeeps ==
  ASSUME ScanInv, GoDown
  PROVE  ScanInv'
<1> DEFINE n == Len(stack)
           q == Append(Top.path, Top.chfind)
<1>1. /\ pc = "scan" /\ UNCHANGED <<index, pc, word, asked, left, answer>>
      /\ UNCHANGED <<treeVars, index>> /\ UNCHANGED <<nodes, nested, data, known>>
  BY DEF GoDown, treeVars
<1>2. /\ stack # <<>> /\ n \in Nat \ {0} /\ Pending(Top)
      /\ stack' \in Seq([path : nodes, chfind : 0 .. 255, passed : Nat])
      /\ Len(stack') = n + 1
      /\ \A k \in 1 .. n - 1 : stack'[k] = stack[k]
      /\ stack'[n].path = Top.path /\ stack'[n].chfind = Top.chfind
      /\ stack'[n].passed \in 1 .. Len(nested[Top.path])
      /\ nested[Top.path][stack'[n].passed] = Top.chfind
      /\ q \in nodes /\ stack'[n + 1].path = q /\ stack'[n + 1].passed = 0
      /\ stack'[n + 1].chfind \in Sought(word, Len(q), Remaining(word, q))
  BY OneLevelDown
<1>3. /\ TreeInv /\ Keyed /\ Shape /\ Behind /\ ScanTypeOK /\ AskedBelow /\ index \in BOOLEAN
      /\ TreeInv' /\ Keyed'
  BY <1>1, TreeStays DEF ScanInv, ScanTypeOK
<1>4. /\ Top = stack[n] /\ n \in 1 .. n /\ Top.path \in nodes /\ Top.path \in Seq(Chars)
      /\ Len(Top.path) = n - 1 /\ Len(nested[Top.path]) \in Nat
  <2>1. n \in 1 .. n /\ Top = stack[n]
    BY <1>2 DEF Top
  <2>2. Top.path \in nodes /\ Top.path \in Seq(Chars) /\ Len(Top.path) = n - 1
    BY <2>1, <1>3, LevelsTyped
  <2>3. Len(nested[Top.path]) \in Nat
    BY <2>2, <1>3 DEF TreeInv, TreeTypeOK
  <2> QED  BY <2>1, <2>2, <2>3
<1>5. /\ q \in Seq(Chars) /\ Len(q) = n /\ n < SizeMod
      /\ \A j \in 1 .. n - 1 : q[j] = Top.path[j]
      /\ q[n] = Top.chfind
  <2>1. /\ Len(q) = Len(Top.path) + 1
        /\ \A j \in 1 .. Len(Top.path) : q[j] = Top.path[j]
        /\ q[Len(Top.path) + 1] = Top.chfind
    BY <1>4
  <2>2. q \in Seq(Chars) /\ Len(q) < SizeMod
    BY <1>2, <1>3, NodesAreShort
  <2>3. (n - 1) + 1 = n
    BY <1>2
  <2> HIDE DEF n, q
  <2> QED  BY <1>4, <2>1, <2>2, <2>3
<1>6. \A k \in 1 .. n : stack'[k].path = stack[k].path /\ stack'[k].chfind = stack[k].chfind
  <2> SUFFICES ASSUME NEW k \in 1 .. n
               PROVE  stack'[k].path = stack[k].path /\ stack'[k].chfind = stack[k].chfind
    OBVIOUS
  <2>1. CASE k = n
    BY <1>2, <1>4, <2>1
  <2>2. CASE k # n
    <3>1. k \in 1 .. n - 1
      BY <1>2, <2>2
    <3> QED  BY <1>2, <3>1
  <2> QED  BY <2>1, <2>2
<1> HIDE DEF n, q
<1>7. ScanTypeOK'
  BY <1>1, <1>2, <1>3 DEF ScanTypeOK
<1>8. q = stack'[n + 1].path /\ \A j \in 1 .. n : q[j] = stack[j].chfind
  <2>1. ASSUME NEW j \in 1 .. n  PROVE q[j] = stack[j].chfind
    <3>1. CASE j = n
      BY <1>4, <1>5, <3>1
    <3>2. CASE j # n
      <4>1. j \in 1 .. n - 1
        BY <1>2, <3>2
      <4>2. stack[n].path[j] = stack[j].chfind
        BY <1>3, <1>4, <4>1 DEF Shape, n
      <4> QED  BY <1>4, <1>5, <4>1, <4>2
    <3> QED  BY <3>1, <3>2
  <2> QED  BY <1>2, <2>1
<1>9. Shape'
  <2> SUFFICES ASSUME NEW k \in 1 .. n + 1
               PROVE  /\ Len(stack'[k].path) = k - 1
                      /\ \A j \in 1 .. k - 1 : stack'[k].path[j] = stack'[j].chfind
                      /\ stack'[k].passed <= Len(nested[stack'[k].path])
                      /\ stack'[k].chfind \in Sought(word, k - 1, Remaining(word, stack'[k].path))
    BY <1>1, <1>2 DEF Shape, Sought, At, Remaining
  <2>1. CASE k = n + 1
    <3>1. k - 1 = n
      BY <1>2, <2>1
    <3>2. Len(nested[q]) \in Nat
      BY <1>2, <1>3 DEF TreeInv, TreeTypeOK
    <3>3. \A j \in 1 .. n : q[j] = stack'[j].chfind
      BY <1>6, <1>8
    <3>4. 0 <= Len(nested[q])
      BY <3>2
    <3> QED  BY <1>2, <1>5, <2>1, <3>1, <3>3, <3>4
  <2>2. CASE k # n + 1
    <3>1. k \in 1 .. n /\ \A j \in 1 .. k - 1 : j \in 1 .. n
      BY <1>2, <2>2
    <3>2. /\ Len(stack[k].path) = k - 1
          /\ \A j \in 1 .. k - 1 : stack[k].path[j] = stack[j].chfind
          /\ stack[k].passed <= Len(nested[stack[k].path])
          /\ stack[k].chfind \in Sought(word, k - 1, Remaining(word, stack[k].path))
      BY <1>3, <3>1 DEF Shape, n
    <3>3. stack'[k].passed <= Len(nested[stack'[k].path])
      <4>1. CASE k = n
        BY <1>2, <1>4, <4>1
      <4>2. CASE k # n
        <5>1. k \in 1 .. n - 1
          BY <1>2, <3>1, <4>2
        <5> QED  BY <1>2, <3>2, <5>1
      <4> QED  BY <4>1, <4>2
    <3>4. \A j \in 1 .. k - 1 : stack'[k].path[j] = stack'[j].chfind
      BY <1>6, <3>1, <3>2
    <3>5. stack'[k].path = stack[k].path /\ stack'[k].chfind = stack[k].chfind
      BY <1>6, <3>1
    <3> QED  BY <3>2, <3>3, <3>4, <3>5
  <2> QED  BY <2>1, <2>2
<1>10. Behind'
  <2> SUFFICES ASSUME NEW k \in 1 .. n
               PROVE  \E i \in 1 .. stack'[k].passed :
                        nested[stack'[k].path][i] = stack'[k].chfind
    <3>1. (n + 1) - 1 = n
      BY <1>2
    <3> QED  BY <1>1, <1>2, <3>1 DEF Behind
  <2>1. CASE k = n
    <3>1. stack'[n].passed \in 1 .. stack'[n].passed
      BY <1>2, <1>4
    <3> QED  BY <1>2, <2>1, <3>1
  <2>2. CASE k # n
    <3>1. k \in 1 .. n - 1
      BY <1>2, <2>2
    <3>2. \E i \in 1 .. stack[k].passed : nested[stack[k].path][i] = stack[k].chfind
      BY <1>3, <3>1 DEF Behind, n
    <3> QED  BY <1>2, <3>1, <3>2
  <2> QED  BY <2>1, <2>2
<1>11. stack' # <<>> /\ Top' = stack'[n + 1] /\ (Pending(Top)' <=> Pending(stack'[n + 1]))
  BY <1>1, <1>2 DEF Top, Pending
<1>12. ASSUME NEW s \in known, n < Len(s), Len(s) <= Len(word),
              \A i \in 1 .. Len(s) : s[i] = word[i]
       PROVE  Pending(stack'[n + 1])
  <2>1. s \in Seq(Chars) /\ Len(s) \in Nat /\ n \in Nat /\ word \in Seq(0 .. 255) /\ Len(word) \in Nat
    <3>1. s \in Seq(Chars)
      BY <1>3 DEF TreeInv, TreeTypeOK
    <3>2. word \in Seq(0 .. 255)
      BY <1>3 DEF ScanTypeOK
    <3>3. n \in Nat
      BY <1>2
    <3> QED  BY <3>1, <3>2, <3>3, LenProperties
  <2>2. \A i \in 1 .. n : q[i] = s[i]
    <3> SUFFICES ASSUME NEW i \in 1 .. n  PROVE q[i] = s[i]
      OBVIOUS
    <3>1. i \in 1 .. Len(stack) /\ i <= Len(word) /\ i \in 1 .. Len(s)
      BY <2>1, <1>12 DEF n
    <3>2. stack[i].chfind = word[i]
      BY <1>3, <3>1, LevelsTyped
    <3> QED  BY <1>8, <1>12, <3>1, <3>2
  <2>3. stack'[n + 1].chfind = s[n + 1]
    <3>1. Sought(word, Len(q), Remaining(word, q)) = {word[Len(q) + 1]}
      <4>1. Len(q) < Len(word) /\ Len(q) < SizeMod /\ Len(word) < SizeMod
        <5>1. Len(word) < SizeMod
          BY <1>3 DEF ScanTypeOK
        <5>2. Len(q) < Len(word)
          BY <1>5, <1>12, <2>1
        <5> QED  BY <1>5, <5>1, <5>2
      <4> QED  BY <1>5, <2>1, <4>1, SoughtHere
    <3>2. n + 1 \in 1 .. Len(s)
      BY <2>1, <1>12
    <3> QED  BY <1>2, <1>5, <1>12, <3>1, <3>2
  <2> QED  BY <1>2, <1>3, <1>5, <1>12, <2>2, <2>3, KeyIsPending
<1>13. AskedBelow'
  BY <1>1, <1>2, <1>3 DEF AskedBelow
<1>14. NonePassed'
  <2> SUFFICES ASSUME NEW s \in known, Begins(s), Len(stack') <= Len(s)
               PROVE  Pending(stack'[n + 1])
    BY <1>1, <1>11 DEF NonePassed, Begins
  <2>1. s \in Seq(Chars) /\ Len(s) \in Nat
    BY <1>3 DEF TreeInv, TreeTypeOK
  <2>2. n < Len(s)
    BY <1>2, <2>1
  <2> QED  BY <2>2, <1>12 DEF Begins
<1>15. KeyAhead'
  <2> SUFFICES ASSUME word \in known, ~(n + 1 > Len(word))
               PROVE  Pending(stack'[n + 1])
    BY <1>1, <1>2, <1>11 DEF KeyAhead
  <2>1. n < Len(word) /\ Len(word) <= Len(word)
    BY <1>2, <1>3 DEF ScanTypeOK
  <2> QED  BY <2>1, <1>12
<1>16. ExactLookup'
  BY <1>1 DEF ExactLookup
<1> QED  BY <1>3, <1>7, <1>9, <1>10, <1>13, <1>14, <1>15, <1>16 DEF ScanInv

(* The level on top is at the beginning of the word of its length; in the tree *)
(* of stems it is never behind the word's end, where only a zero is looked for.*)
LEMMA TopIsOnTheWord ==
  ASSUME ScanInv, stack # <<>>
  PROVE  /\ Len(Top.path) = Len(stack) - 1
         /\ Len(Top.path) <= Len(word) => Begins(Top.path)
         /\ ~index => Len(Top.path) <= Len(word)
<1> DEFINE n == Len(stack)
           p == Top.path
<1>1. n \in Nat \ {0} /\ n \in 1 .. n /\ Top = stack[n]
  BY DEF ScanInv, ScanTypeOK, Top
<1>2. TreeInv /\ Keyed /\ Shape /\ ScanTypeOK /\ index \in BOOLEAN
  BY DEF ScanInv, ScanTypeOK
<1>3. p \in nodes /\ Len(p) = n - 1 /\ \A j \in 1 .. n - 1 : p[j] = stack[j].chfind
  <2>1. Top.path \in nodes /\ Len(Top.path) = n - 1
    BY <1>1, <1>2, LevelsTyped
  <2> QED  BY <1>1, <1>2, <2>1 DEF Shape
<1>4. Len(word) \in Nat
  BY <1>2 DEF ScanTypeOK
<1> HIDE DEF p
<1>5. n - 1 <= Len(word) => \A j \in 1 .. n - 1 : p[j] = word[j]
  <2> SUFFICES ASSUME n - 1 <= Len(word), NEW j \in 1 .. n - 1  PROVE p[j] = word[j]
    OBVIOUS
  <2>1. j \in 1 .. Len(stack) /\ j <= Len(word)
    BY <1>1, <1>4
  <2> QED  BY <1>2, <1>3, <2>1, LevelsTyped
<1>6. ASSUME ~index  PROVE n - 1 <= Len(word)
  <2> SUFFICES ASSUME ~(n - 1 <= Len(word))  PROVE FALSE
    OBVIOUS
  <2>1. /\ Len(word) + 1 \in 1 .. n - 1 /\ Len(word) + 1 \in 1 .. Len(stack)
    BY <1>1, <1>4
  <2>2. stack[Len(word) + 1].chfind = 0
    BY <1>2, <2>1, LevelsTyped
  <2>3. \A i \in 1 .. Len(p) : p[i] # 0
    BY <1>2, <1>3, <1>6, NodesAreShort
  <2>4. Len(word) + 1 \in 1 .. Len(p)
    BY <1>3, <2>1
  <2> QED  BY <1>3, <2>1, <2>2, <2>3, <2>4
<1> QED  BY <1>3, <1>5, <1>6 DEF Begins, p

(* The beginning of a word is known by its length.                             *)
LEMMA OneBeginning ==
  ASSUME NEW s \in Seq(0 .. 255), NEW t \in Seq(0 .. 255), Begins(s), Begins(t), Len(s) = Len(t)
  PROVE  s = t
<1>1. \A i \in 1 .. Len(s) : s[i] = t[i]
  BY DEF Begins
<1> QED  BY <1>1, SeqEqual

(* What going up leaves: the level below, which is done with the child it had  *)
(* gone down to.                                                               *)
LEMMA OneLevelUp ==
  ASSUME ScanInv, stack # <<>>, stack' = Below, UNCHANGED <<treeVars, index, word>>
  PROVE  /\ Len(stack') = Len(stack) - 1
         /\ stack' \in Seq([path : nodes, chfind : 0 .. 255, passed : Nat])
         /\ Shape' /\ Behind'
         /\ stack' # <<>> => ~Pending(Top)'
<1> DEFINE n == Len(stack)
           R == [path : nodes, chfind : 0 .. 255, passed : Nat]
<1>1. n \in Nat \ {0} /\ stack \in Seq(R)
  BY DEF ScanInv, ScanTypeOK
<1>2. /\ stack' \in Seq(R) /\ Len(stack') = n - 1
      /\ \A k \in 1 .. n - 1 : stack'[k] = stack[k]
  <2>1. \A k \in 1 .. n - 1 : stack[k] \in R
    <3> SUFFICES ASSUME NEW k \in 1 .. n - 1  PROVE stack[k] \in R
      OBVIOUS
    <3>1. k \in 1 .. Len(stack)
      BY <1>1
    <3> HIDE DEF R
    <3> QED  BY <1>1, <3>1, ElementOfSeq
  <2> HIDE DEF R, n
  <2>2. /\ SubSeq(stack, 1, n - 1) \in Seq(R) /\ Len(SubSeq(stack, 1, n - 1)) = n - 1
        /\ \A k \in 1 .. n - 1 : SubSeq(stack, 1, n - 1)[k] = stack[k]
    <3>1. 1 \in Int /\ n - 1 \in Int /\ IF 1 <= n - 1 THEN (n - 1) - 1 + 1 = n - 1 ELSE n - 1 = 0
      BY <1>1
    <3> QED  BY <1>1, <2>1, <3>1, SubSeqProperties
  <2> QED  BY <2>2 DEF Below, n
<1>3. UNCHANGED <<nodes, nested, data, known, word, index>>
  BY DEF treeVars
<1>4. TreeInv /\ Keyed /\ Shape /\ Behind /\ ScanTypeOK
  BY DEF ScanInv
<1>5. Shape'
  <2> SUFFICES ASSUME NEW k \in 1 .. n - 1
               PROVE  /\ Len(stack'[k].path) = k - 1
                      /\ \A j \in 1 .. k - 1 : stack'[k].path[j] = stack'[j].chfind
                      /\ stack'[k].passed <= Len(nested[stack'[k].path])
                      /\ stack'[k].chfind \in Sought(word, k - 1, Remaining(word, stack'[k].path))
    BY <1>2, <1>3 DEF Shape, Sought, At, Remaining
  <2>1. k \in 1 .. Len(stack) /\ \A j \in 1 .. k - 1 : j \in 1 .. n - 1
    BY <1>1
  <2>2. /\ Len(stack[k].path) = k - 1
        /\ \A j \in 1 .. k - 1 : stack[k].path[j] = stack[j].chfind
        /\ stack[k].passed <= Len(nested[stack[k].path])
        /\ stack[k].chfind \in Sought(word, k - 1, Remaining(word, stack[k].path))
    BY <1>4, <2>1 DEF Shape
  <2>3. \A j \in 1 .. k - 1 : stack'[j] = stack[j]
    BY <1>2, <2>1
  <2>4. stack'[k] = stack[k]
    BY <1>2
  <2> QED  BY <2>2, <2>3, <2>4
<1>6. Behind'
  <2> SUFFICES ASSUME NEW k \in 1 .. (n - 1) - 1
               PROVE  \E i \in 1 .. stack'[k].passed :
                        nested[stack'[k].path][i] = stack'[k].chfind
    BY <1>2, <1>3 DEF Behind
  <2>1. k \in 1 .. Len(stack) - 1 /\ k \in 1 .. n - 1
    BY <1>1
  <2> QED  BY <1>2, <1>4, <2>1 DEF Behind
<1>7. ASSUME stack' # <<>>, Pending(Top)'  PROVE FALSE
  <2> DEFINE lv == stack[n - 1]
             cs == nested[lv.path]
  <2>1. n - 1 \in 1 .. n - 1 /\ n - 1 \in 1 .. Len(stack) /\ n - 1 \in 1 .. Len(stack) - 1
    BY <1>1, <1>2, <1>7
  <2>2. Top' = lv
    BY <1>2, <2>1 DEF Top
  <2>3. PICK i \in lv.passed + 1 .. Len(cs) : cs[i] = lv.chfind
    BY <1>3, <1>7, <2>2 DEF Pending
  <2>4. PICK j \in 1 .. lv.passed : cs[j] = lv.chfind
    BY <1>4, <2>1 DEF Behind
  <2>5. lv.path \in nodes /\ lv.passed \in Nat /\ lv.chfind \in Int
    <3>1. lv.path \in nodes /\ lv.passed \in Nat /\ lv \in R
      BY <1>4, <2>1, LevelsTyped
    <3>2. lv.chfind \in 0 .. 255
      BY <3>1
    <3>3. \A x \in 0 .. 255 : x \in Int
      OBVIOUS
    <3> HIDE DEF lv, R
    <3> QED  BY <3>1, <3>2, <3>3, Zenon
  <2>6. Len(cs) \in Nat /\ \A a, b \in 1 .. Len(cs) : a < b => cs[a] > cs[b]
    BY <1>4, <2>5 DEF TreeInv, TreeTypeOK, Descending
  <2>7. i \in 1 .. Len(cs) /\ j \in 1 .. Len(cs) /\ j < i
    BY <2>3, <2>4, <2>5, <2>6
  <2>8. cs[j] > cs[i]
    BY <2>6, <2>7
  <2> HIDE DEF lv, cs
  <2> QED  BY <2>3, <2>4, <2>5, <2>8
<1> QED  BY <1>2, <1>5, <1>6, <1>7

(* The stems of the word and of the tree.                                      *)
LEMMA KnownStems ==
  ASSUME ScanInv
  PROVE  /\ known = data /\ known \subseteq nodes /\ NoStem \notin known
         /\ \A s \in known : s \in Seq(0 .. 255) /\ Len(s) \in Nat
         /\ word \in Seq(0 .. 255) /\ Len(word) \in Nat /\ Begins(word)
<1>1. TreeInv /\ Keyed /\ ScanTypeOK /\ index \in BOOLEAN
  BY DEF ScanInv, ScanTypeOK
<1>2. known = data /\ known \subseteq nodes /\ known \subseteq Seq(Chars)
  BY <1>1 DEF TreeInv, TreeTypeOK, ElementsAtKeys
<1>3. NoStem \notin known
  BY <1>1, KeysOfTree, NoStemAssumption DEF Keyed
<1>4. \A s \in known : s \in Seq(0 .. 255) /\ Len(s) \in Nat
  <2> SUFFICES ASSUME NEW s \in known  PROVE s \in Seq(0 .. 255) /\ Len(s) \in Nat
    OBVIOUS
  <2>1. s \in Seq(Chars)
    BY <1>2
  <2> QED  BY <2>1, CharsAssumption, SeqMonotonic, LenProperties
<1>5. word \in Seq(0 .. 255) /\ Len(word) \in Nat
  BY <1>1 DEF ScanTypeOK
<1>6. Begins(word)
  BY <1>5 DEF Begins
<1> QED  BY <1>2, <1>3, <1>4, <1>5, <1>6

(* A node without an element that is left behind is no stem of the word.       *)
LEMMA GoUpKeeps ==
  ASSUME ScanInv, GoUp
  PROVE  ScanInv'
<1> DEFINE n == Len(stack)
<1>1. /\ pc = "scan" /\ stack # <<>> /\ Top.path \notin data /\ stack' = Below /\ ~Finds(Top)
      /\ UNCHANGED <<index, pc, word, asked, left, answer>>
      /\ UNCHANGED <<treeVars, index, word>> /\ UNCHANGED <<treeVars, index>>
      /\ UNCHANGED <<nodes, nested, data, known>>
  BY DEF GoUp, treeVars
<1>2. TreeInv' /\ Keyed' /\ AskedBelow /\ NonePassed /\ KeyAhead /\ ScanTypeOK
  BY <1>1, TreeStays DEF ScanInv
<1>3. /\ Len(stack') = n - 1
      /\ stack' \in Seq([path : nodes, chfind : 0 .. 255, passed : Nat])
      /\ Shape' /\ Behind'
      /\ stack' # <<>> => ~Pending(Top)'
  BY <1>1, OneLevelUp
<1>4. n \in Nat \ {0} /\ ~Pending(Top) /\ Top \in [path : nodes, chfind : 0 .. 255, passed : Nat]
  BY <1>1, TopFinds
<1>5. /\ Len(Top.path) = n - 1
      /\ Len(Top.path) <= Len(word) => Begins(Top.path)
      /\ ~index => Len(Top.path) <= Len(word)
  BY <1>1, TopIsOnTheWord
<1>6. /\ known = data /\ known \subseteq nodes
      /\ \A s \in known : s \in Seq(0 .. 255) /\ Len(s) \in Nat
      /\ word \in Seq(0 .. 255) /\ Len(word) \in Nat /\ Begins(word)
  BY KnownStems
<1>7. Top.path \in Seq(0 .. 255)
  <2>1. Top.path \in Seq(Chars)
    BY <1>4 DEF ScanInv, TreeInv, TreeTypeOK
  <2> QED  BY <2>1, CharsAssumption, SeqMonotonic
<1>8. ASSUME NEW s \in known, Begins(s), Len(s) = n - 1  PROVE FALSE
  <2>1. Len(Top.path) <= Len(word)
    BY <1>5, <1>8 DEF Begins
  <2>2. s = Top.path
    BY <1>5, <1>6, <1>7, <1>8, <2>1, OneBeginning
  <2> QED  BY <1>1, <1>6, <2>2
<1> HIDE DEF n
<1>9. ScanTypeOK'
  BY <1>1, <1>2, <1>3 DEF ScanTypeOK
<1>10. AskedBelow'
  <2> SUFFICES ASSUME ~index, asked # NoStem
               PROVE  Begins(asked) /\ n - 1 <= Len(asked)
    BY <1>1, <1>3 DEF AskedBelow, Begins
  <2>1. Begins(asked) /\ n <= Len(asked)
    BY <1>1, <1>2 DEF AskedBelow, n
  <2>2. asked \in known
    BY <1>2 DEF ScanTypeOK
  <2> QED  BY <1>4, <1>6, <2>1, <2>2
<1>11. NonePassed'
  <2> SUFFICES ASSUME ~index, NEW s \in known, Begins(s), n - 1 <= Len(s)
               PROVE  asked # NoStem /\ Len(asked) <= Len(s)
    BY <1>1, <1>3 DEF NonePassed, Begins
  <2>1. Len(s) # n - 1
    BY <1>8
  <2>2. n <= Len(s)
    BY <1>4, <1>6, <2>1
  <2> QED  BY <1>1, <1>2, <1>4, <2>2 DEF NonePassed, n
<1>12. KeyAhead'
  <2> SUFFICES ASSUME index, word \in known  PROVE n - 1 > Len(word)
    BY <1>1, <1>3 DEF KeyAhead
  <2>1. n > Len(word)
    BY <1>1, <1>2, <1>4 DEF KeyAhead, n
  <2>2. Len(word) # n - 1
    BY <1>6, <1>8
  <2> QED  BY <1>4, <1>6, <2>1, <2>2
<1>13. ExactLookup'
  BY <1>1 DEF ExactLookup
<1> QED  BY <1>2, <1>3, <1>9, <1>10, <1>11, <1>12, <1>13 DEF ScanInv

(* Every stem of the word that is as deep as the one asked about was asked     *)
(* about before; the index accepts at its key.                                 *)
LEMMA OfferKeeps ==
  ASSUME ScanInv, Offer
  PROVE  ScanInv'
<1> DEFINE n == Len(stack)
           p == Top.path
<1>1. /\ pc = "scan" /\ stack # <<>> /\ p \in data /\ ~Finds(Top) /\ asked' = p
      /\ UNCHANGED <<treeVars, index, word>> /\ UNCHANGED <<treeVars, index>>
      /\ UNCHANGED <<nodes, nested, data, known>>
  BY DEF Offer, treeVars
<1>2. /\ TreeInv /\ TreeInv' /\ Keyed /\ Keyed' /\ AskedBelow /\ NonePassed /\ KeyAhead
      /\ ScanTypeOK /\ index \in BOOLEAN
  BY <1>1, TreeStays DEF ScanInv, ScanTypeOK
<1>3. n \in Nat \ {0} /\ ~Pending(Top) /\ p \in nodes
  <2>1. Top \in [path : nodes, chfind : 0 .. 255, passed : Nat]
    BY <1>1, TopFinds
  <2> QED  BY <1>1, <2>1, TopFinds
<1>4. /\ Len(p) = n - 1
      /\ Len(p) <= Len(word) => Begins(p)
      /\ ~index => Len(p) <= Len(word)
  BY <1>1, TopIsOnTheWord
<1>5. /\ known = data /\ NoStem \notin known
      /\ \A s \in known : s \in Seq(0 .. 255) /\ Len(s) \in Nat
      /\ word \in Seq(0 .. 255) /\ Len(word) \in Nat /\ Begins(word) /\ Len(word) < SizeMod
  BY <1>2, KnownStems DEF ScanTypeOK
<1>6. Remaining(word, p) = 0 <=> Len(p) = Len(word)
  <2>1. p \in Seq(Chars) /\ Len(p) < SizeMod
    BY <1>2, <1>3, NodesAreShort
  <2> QED  BY <1>5, <2>1, SoughtHere
<1>7. CASE answer' = asked' /\ pc' = "saved" /\ stack' = <<>> /\ (index => Remaining(word, p) = 0)
  <2>1. ScanTypeOK'
    <3>1. stack' \in Seq([path : nodes', chfind : 0 .. 255, passed : Nat])
      BY <1>7
    <3> QED  BY <1>1, <1>2, <1>5, <1>7, <3>1 DEF ScanTypeOK
  <2>2. Shape' /\ Behind'
    BY <1>7 DEF Shape, Behind
  <2>3. AskedBelow' /\ NonePassed' /\ KeyAhead'
    BY <1>7 DEF AskedBelow, NonePassed, KeyAhead
  <2>4. ExactLookup'
    <3> SUFFICES ASSUME index  PROVE p = word /\ word \in known
      BY <1>1, <1>7 DEF ExactLookup
    <3>1. Len(p) = Len(word) /\ Begins(p)
      BY <1>4, <1>5, <1>6, <1>7
    <3>2. p = word
      BY <1>1, <1>5, <3>1, OneBeginning
    <3> QED  BY <1>1, <1>5, <3>2
  <2> QED  BY <1>2, <2>1, <2>2, <2>3, <2>4 DEF ScanInv
<1>8. CASE stack' = Below /\ UNCHANGED <<answer, pc>> /\ (index => Remaining(word, p) # 0)
  <2>1. /\ Len(stack') = n - 1
        /\ stack' \in Seq([path : nodes, chfind : 0 .. 255, passed : Nat])
        /\ Shape' /\ Behind'
        /\ stack' # <<>> => ~Pending(Top)'
    BY <1>1, <1>8, OneLevelUp
  <2> HIDE DEF n, p
  <2>2. ScanTypeOK'
    BY <1>1, <1>2, <1>5, <1>8, <2>1 DEF ScanTypeOK
  <2>3. AskedBelow'
    <3> SUFFICES ASSUME ~index  PROVE Begins(p) /\ n - 1 <= Len(p)
      BY <1>1, <2>1 DEF AskedBelow, Begins
    <3> QED  BY <1>3, <1>4
  <2>4. NonePassed'
    <3> SUFFICES ASSUME NEW s \in known, n - 1 <= Len(s)
                 PROVE  p # NoStem /\ Len(p) <= Len(s)
      BY <1>1, <2>1 DEF NonePassed
    <3> QED  BY <1>1, <1>4, <1>5
  <2>5. KeyAhead'
    <3> SUFFICES ASSUME index, word \in known  PROVE n - 1 > Len(word)
      BY <1>1, <2>1 DEF KeyAhead
    <3>1. n > Len(word)
      BY <1>1, <1>2, <1>3 DEF KeyAhead, n
    <3>2. n - 1 # Len(word)
      BY <1>4, <1>6, <1>8
    <3> QED  BY <1>3, <1>5, <3>1, <3>2
  <2>6. ExactLookup'
    BY <1>1, <1>8 DEF ExactLookup
  <2> QED  BY <1>2, <2>1, <2>2, <2>3, <2>4, <2>5, <2>6 DEF ScanInv
<1> QED
  <2>1. PICK yes \in Accepts(Remaining(word, p)) :
          IF yes THEN answer' = asked' /\ pc' = "saved" /\ stack' = <<>>
                 ELSE stack' = Below /\ UNCHANGED <<answer, pc>>
    BY DEF Offer
  <2>2. index => (yes <=> Remaining(word, p) = 0)
    BY <2>1 DEF Accepts
  <2>3. yes \in BOOLEAN
    BY <2>1 DEF Accepts
  <2> QED  BY <1>7, <1>8, <2>1, <2>2, <2>3

(* A scan that comes out above the root has found nothing.                     *)
LEMMA NotFoundKeeps ==
  ASSUME ScanInv, NotFound
  PROVE  ScanInv'
<1>1. /\ pc = "scan" /\ stack = <<>> /\ pc' = "saved"
      /\ UNCHANGED <<index, word, stack, asked, left, answer>>
      /\ UNCHANGED <<treeVars, index>> /\ UNCHANGED <<nodes, nested, data, known>>
  BY DEF NotFound, treeVars
<1>2. TreeInv' /\ Keyed' /\ ScanTypeOK /\ KeyAhead
  BY <1>1, TreeStays DEF ScanInv
<1>3. ScanTypeOK'
  BY <1>1, <1>2 DEF ScanTypeOK
<1>4. Shape' /\ Behind'
  BY <1>1 DEF Shape, Behind
<1>5. AskedBelow' /\ NonePassed' /\ KeyAhead'
  BY <1>1 DEF AskedBelow, NonePassed, KeyAhead
<1>6. ExactLookup'
  <2>1. index => word \notin known
    <3>1. Len(stack) = 0 /\ Len(word) \in Nat
      BY <1>1, <1>2 DEF ScanTypeOK
    <3> QED  BY <1>1, <1>2, <3>1 DEF KeyAhead
  <2>2. answer' = NoStem
    BY <1>1, <1>2 DEF ScanTypeOK
  <2> QED  BY <1>1, <2>1, <2>2 DEF ExactLookup
<1> QED  BY <1>2, <1>3, <1>4, <1>5, <1>6 DEF ScanInv

(* Nothing changes.                                                            *)
LEMMA StutterKeeps ==
  ASSUME ScanInv, UNCHANGED vars
  PROVE  ScanInv'
<1>1. /\ UNCHANGED <<treeVars, index>> /\ UNCHANGED <<nodes, nested, data, known>>
      /\ UNCHANGED <<index, pc, word, stack, asked, left, answer>>
  BY DEF vars, treeVars
<1>2. TreeInv' /\ Keyed'
  BY <1>1, TreeStays DEF ScanInv
<1>3. ScanTypeOK'
  BY <1>1 DEF ScanInv, ScanTypeOK
<1>4. Shape' /\ Behind'
  BY <1>1 DEF ScanInv, Shape, Behind, Sought, At, Remaining
<1>5. AskedBelow' /\ NonePassed' /\ KeyAhead' /\ ExactLookup'
  BY <1>1 DEF ScanInv, AskedBelow, NonePassed, KeyAhead, ExactLookup, Begins, Pending, Top
<1> QED  BY <1>2, <1>3, <1>4, <1>5 DEF ScanInv

(* Every step of the dictionary's life keeps the invariant.                    *)
LEMMA ScanStep == ScanInv /\ [Next]_vars => ScanInv'
<1> SUFFICES ASSUME ScanInv, [Next]_vars  PROVE ScanInv'
  OBVIOUS
<1>1. CASE Build
  BY <1>1, BuildKeeps
<1>2. CASE Save
  BY <1>2, SaveKeeps
<1>3. CASE LinearScanDict
  BY <1>3, StartKeeps
<1>4. CASE GoDown
  BY <1>4, GoDownKeeps
<1>5. CASE Offer
  BY <1>5, OfferKeeps
<1>6. CASE GoUp
  BY <1>6, GoUpKeeps
<1>7. CASE NotFound
  BY <1>7, NotFoundKeeps
<1>8. CASE UNCHANGED vars
  BY <1>8, StutterKeeps
<1> QED  BY <1>1, <1>2, <1>3, <1>4, <1>5, <1>6, <1>7, <1>8 DEF Next, Step

(* The tree, the levels of the scan and what has been asked stay in step, for  *)
(* any alphabet within a byte, any keys shorter than a size_t counts, stems    *)
(* without zeros (WordsAssumption, StemsAreTexts), any words and any answers   *)
(* (scandict.h:47-114).                                                        *)
THEOREM ScanInvariant == Spec => []ScanInv
BY ScanInit, ScanStep, PTL DEF Spec

(* For every index of lexemes and every key looked up: the lookup comes out at *)
(* the key, or nowhere if it is not in the index; what stands in memory behind *)
(* the key does not matter, nor do keys that go on with zeros                  *)
(* (mlmamain.cpp:241-264).                                                     *)
THEOREM LookupIsExact == Spec => []ExactLookup
<1>1. ScanInv => ExactLookup
  BY DEF ScanInv
<1> QED  BY <1>1, ScanInvariant, PTL

-------------------------------------------------------------------------------
(* The scan as a search *)

(* What a beginning of the word is to PrefixSearch.                            *)
LEMMA BeginsAgrees ==
  ASSUME ScanInv, ~index, NEW s \in known
  PROVE  Search!Begins(s) <=> Begins(s)
<1>1. s \in Seq(0 .. 255) /\ Len(s) \in Nat /\ word \in Seq(0 .. 255) /\ Len(word) \in Nat
  BY KnownStems
<1>2. OfStems(word, <<>>) = word
  BY DEF OfStems
<1>3. Search!Begins(s) <=> Len(s) <= Len(word) /\ SubSeq(word, 1, Len(s)) = s
  BY <1>2 DEF Search!Begins
<1>4. ASSUME Len(s) <= Len(word)
      PROVE  SubSeq(word, 1, Len(s)) = s <=> \A i \in 1 .. Len(s) : s[i] = word[i]
  <2>1. /\ SubSeq(word, 1, Len(s)) \in Seq(0 .. 255) /\ Len(SubSeq(word, 1, Len(s))) = Len(s)
        /\ \A i \in 1 .. Len(s) : SubSeq(word, 1, Len(s))[i] = word[i]
    <3>1. \A i \in 1 .. Len(s) : i \in 1 .. Len(word)
      BY <1>1, <1>4
    <3>2. \A i \in 1 .. Len(s) : word[i] \in 0 .. 255
      BY <1>1, <3>1, ElementOfSeq
    <3> QED  BY <1>1, <3>2, SubSeqProperties
  <2> DEFINE b == SubSeq(word, 1, Len(s))
  <2> HIDE DEF b
  <2>2. (\A i \in 1 .. Len(s) : s[i] = word[i]) => b = s
    BY <1>1, <2>1, SeqEqual DEF b
  <2>3. b = s => \A i \in 1 .. Len(s) : s[i] = word[i]
    BY <2>1 DEF b
  <2> QED  BY <2>2, <2>3 DEF b
<1> QED  BY <1>3, <1>4 DEF Begins

(* What is left to ask, in the terms of both.                                  *)
LEMMA CandidatesAre ==
  ASSUME ScanInv, ~index, pc = "scan"
  PROVE  Search!Candidates = {s \in known : Begins(s) /\ (asked # NoStem => Len(s) < Len(asked))}
<1>1. OfStems(known, {}) = known /\ OfStems(asked, NoStem) = asked
  BY DEF OfStems
<1>2. Search!Candidates = {s \in known : Search!Begins(s) /\ (asked # NoStem => Len(s) < Len(asked))}
  BY <1>1 DEF Search!Candidates
<1>3. \A s \in known : Search!Begins(s) <=> Begins(s)
  BY BeginsAgrees
<1> QED  BY <1>2, <1>3

(* The lookup of the index stands still in the search of stems.                *)
LEMMA IndexStandsStill ==
  ASSUME index = TRUE, index' = index
  PROVE  UNCHANGED Search!vars
BY DEF OfStems, Search!vars

(* Offering an element is asking about the longest stem not asked about yet.   *)
LEMMA OfferAsks ==
  ASSUME ScanInv, ~index, Offer
  PROVE  Search!Ask
<1> DEFINE n == Len(stack)
           p == Top.path
           C == Search!Candidates
<1>1. /\ pc = "scan" /\ stack # <<>> /\ p \in data /\ ~Finds(Top) /\ asked' = p
      /\ left' = Remaining(word, p) /\ UNCHANGED <<index, word, known>>
  BY DEF Offer, treeVars
<1>2. /\ TreeInv /\ Keyed /\ AskedBelow /\ NonePassed /\ ScanTypeOK /\ index \in BOOLEAN
  BY DEF ScanInv, ScanTypeOK
<1>3. n \in Nat \ {0} /\ ~Pending(Top)
  BY <1>1, TopFinds
<1>4. Len(p) = n - 1 /\ Len(p) <= Len(word) /\ Begins(p)
  BY <1>1, TopIsOnTheWord
<1>5. /\ known = data /\ known \subseteq nodes
      /\ \A s \in known : s \in Seq(0 .. 255) /\ Len(s) \in Nat
      /\ word \in Seq(0 .. 255) /\ Len(word) \in Nat /\ Len(word) < SizeMod
  BY <1>2, KnownStems DEF ScanTypeOK
<1>6. left' = Len(word) - Len(p)
  <2>1. p \in Seq(Chars) /\ Len(p) < SizeMod
    BY <1>1, <1>2, <1>5, NodesAreShort
  <2> QED  BY <1>1, <1>4, <1>5, <2>1, SoughtHere
<1>7. C = {s \in known : Begins(s) /\ (asked # NoStem => Len(s) < Len(asked))}
  BY <1>1, CandidatesAre
<1> HIDE DEF n, p, C
<1>8. p \in C
  <2>1. asked # NoStem => Len(p) < Len(asked)
    <3>1. asked # NoStem => n <= Len(asked) /\ asked \in known
      BY <1>1, <1>2 DEF AskedBelow, ScanTypeOK, n
    <3> QED  BY <1>3, <1>4, <1>5, <3>1
  <2> QED  BY <1>1, <1>4, <1>5, <1>7, <2>1
<1>9. \A t \in C : Len(t) <= Len(p)
  <2> SUFFICES ASSUME NEW t \in C, ~(Len(t) <= Len(p))  PROVE FALSE
    OBVIOUS
  <2>1. t \in known /\ Begins(t) /\ (asked # NoStem => Len(t) < Len(asked))
    BY <1>7
  <2>2. n <= Len(t)
    BY <1>3, <1>4, <1>5, <2>1
  <2>3. asked # NoStem /\ Len(asked) <= Len(t)
    BY <1>1, <1>2, <1>3, <2>1, <2>2 DEF NonePassed, n
  <2>4. asked \in known
    BY <1>2, <2>3 DEF ScanTypeOK
  <2> QED  BY <1>5, <2>1, <2>3, <2>4
<1>10. \/ answer' = p /\ pc' = "saved"
       \/ answer' = answer /\ pc' = pc
  BY <1>1 DEF Offer
<1>11. /\ OfStems(pc = "scan", FALSE) = TRUE /\ OfStems(pc' = "scan", FALSE) = (pc' = "scan")
       /\ OfStems(word, <<>>) = word
  BY <1>1 DEF OfStems
<1>12. /\ OfStems(asked, NoStem)' = p /\ OfStems(left, 0)' = Len(word) - Len(p)
       /\ OfStems(answer, NoStem)' = answer' /\ OfStems(answer, NoStem) = answer
       /\ OfStems(pc = "scan", FALSE)' = (pc' = "scan")
       /\ OfStems(known, {})' = OfStems(known, {}) /\ OfStems(word, <<>>)' = OfStems(word, <<>>)
  BY <1>1, <1>6 DEF OfStems
<1>13. \/ OfStems(answer, NoStem)' = p /\ OfStems(pc = "scan", FALSE)' = FALSE
       \/ UNCHANGED <<OfStems(answer, NoStem), OfStems(pc = "scan", FALSE)>>
  <2>1. CASE answer' = p /\ pc' = "saved"
    BY <1>12, <2>1
  <2>2. CASE answer' = answer /\ pc' = pc
    BY <1>1, <1>11, <1>12, <2>2
  <2> QED  BY <1>10, <2>1, <2>2
<1> QED  BY <1>8, <1>9, <1>11, <1>12, <1>13 DEF Search!Ask, C

(* Coming out above the root is giving up with nothing left to ask.            *)
LEMMA NotFoundGivesUp ==
  ASSUME ScanInv, ~index, NotFound
  PROVE  Search!GiveUp
<1>1. /\ pc = "scan" /\ stack = <<>> /\ pc' = "saved"
      /\ UNCHANGED <<index, known, word, asked, left, answer>>
  BY DEF NotFound, treeVars
<1>2. NonePassed /\ ScanTypeOK
  BY DEF ScanInv
<1>3. Search!Candidates = {}
  <2> SUFFICES ASSUME NEW s \in Search!Candidates  PROVE FALSE
    OBVIOUS
  <2>1. s \in known /\ Begins(s) /\ (asked # NoStem => Len(s) < Len(asked))
    BY <1>1, CandidatesAre
  <2>2. Len(stack) = 0 /\ \A t \in known : Len(t) \in Nat
    BY <1>1, KnownStems
  <2>3. Len(stack) <= Len(s)
    BY <2>1, <2>2
  <2>4. asked # NoStem /\ Len(asked) <= Len(s) /\ asked \in known
    BY <1>1, <1>2, <2>1, <2>3 DEF NonePassed, ScanTypeOK
  <2> QED  BY <2>1, <2>2, <2>4
<1>4. /\ OfStems(pc = "scan", FALSE) = TRUE /\ OfStems(pc = "scan", FALSE)' = FALSE
      /\ UNCHANGED <<OfStems(known, {}), OfStems(word, <<>>), OfStems(asked, NoStem),
                     OfStems(left, 0), OfStems(answer, NoStem)>>
  BY <1>1 DEF OfStems
<1> QED  BY <1>3, <1>4 DEF Search!GiveUp

(* A dictionary under construction learns a stem when Insert stores it, and    *)
(* nothing between.                                                            *)
LEMMA BuildLearns ==
  ASSUME ScanInv, ~index, Build
  PROVE  Search!Learn \/ UNCHANGED Search!vars
<1>1. /\ pc = "build" /\ pc' = pc /\ index' = index
      /\ UNCHANGED <<word, asked, left, answer>>
  BY DEF Build, Grow
<1>2. /\ OfStems(pc = "scan", FALSE) = FALSE /\ OfStems(pc = "scan", FALSE)' = FALSE
      /\ UNCHANGED <<OfStems(word, <<>>), OfStems(asked, NoStem), OfStems(left, 0),
                     OfStems(answer, NoStem)>>
      /\ OfStems(known, {}) = known /\ OfStems(known, {})' = known'
  BY <1>1 DEF OfStems
<1>3. CASE known' = known
  BY <1>2, <1>3 DEF Search!vars
<1>4. CASE known' # known
  <2>1. busy /\ known' = known \cup {goal}
    BY <1>4 DEF Build, Grow, Insert, Descend, Store
  <2>2. goal \in Keys
    BY <2>1, KeysOfTree DEF ScanInv, Keyed, ScanTypeOK
  <2> QED  BY <1>2, <2>1, <2>2 DEF Search!Learn
<1> QED  BY <1>3, <1>4

(* Every step of the scan is a step of the search or none.                     *)
LEMMA StepSearches == ScanInv /\ [Next]_vars => [Search!Next]_(Search!vars)
<1> SUFFICES ASSUME ScanInv, [Next]_vars  PROVE Search!Next \/ UNCHANGED Search!vars
  OBVIOUS
<1>1. index' = index /\ index \in BOOLEAN
  BY DEF Next, vars, Build, Save, LinearScanDict, Step, GoDown, Offer, GoUp, NotFound,
         ScanInv, ScanTypeOK
<1>2. CASE index
  BY <1>1, <1>2, IndexStandsStill
<1>3. CASE ~index /\ Build
  BY <1>3, BuildLearns DEF Search!Next
<1>4. CASE ~index /\ Offer
  BY <1>4, OfferAsks DEF Search!Next
<1>5. CASE ~index /\ NotFound
  BY <1>5, NotFoundGivesUp DEF Search!Next
<1>6. CASE ~index /\ LinearScanDict
  <2>1. /\ pc = "saved" /\ pc' = "scan" /\ word' \in Words[FALSE] /\ UNCHANGED known
        /\ asked' = NoStem /\ left' = 0 /\ answer' = NoStem
    BY <1>1, <1>6 DEF LinearScanDict, treeVars
  <2>2. /\ OfStems(pc = "scan", FALSE) = FALSE /\ OfStems(pc = "scan", FALSE)' = TRUE
        /\ OfStems(word, <<>>)' \in Words[FALSE] /\ UNCHANGED OfStems(known, {})
        /\ OfStems(asked, NoStem)' = NoStem /\ OfStems(left, 0)' = 0
        /\ OfStems(answer, NoStem)' = NoStem
    BY <1>1, <1>6, <2>1 DEF OfStems
  <2> QED  BY <2>2 DEF Search!Look, Search!Next
<1>7. CASE ~index /\ (Save \/ GoDown \/ GoUp \/ UNCHANGED vars)
  <2>1. UNCHANGED <<known, word, asked, left, answer, index>> /\ (pc = "scan") = (pc' = "scan")
    BY <1>7 DEF Save, GoDown, GoUp, vars, treeVars
  <2> QED  BY <2>1 DEF OfStems, Search!vars
<1> QED  BY <1>1, <1>2, <1>3, <1>4, <1>5, <1>6, <1>7 DEF Next, Step

(* The scan promises what PrefixSearch says: for every dictionary of stems,    *)
(* every word and every actor it asks about the stems the word begins with,    *)
(* the longest first, and about nothing else (scandict.h:83-114).              *)
THEOREM ScanSearches == Spec => Search!SafeSpec
<1>1. Init => Search!Init
  BY DEF Init, TreeInit, OfStems, Search!Init
<1> QED  BY <1>1, StepSearches, ScanInvariant, PTL DEF Spec, Search!SafeSpec

-------------------------------------------------------------------------------
(* Numbers of variable length. *)

Bytes == Seq(0 .. 255)

(* Seven bits and the rest. *)
LEMMA SevenBits ==
  ASSUME NEW n \in Nat
  PROVE  /\ n % 128 \in 0 .. 127 /\ n \div 128 \in Nat
         /\ n = 128 * (n \div 128) + (n % 128)
         /\ n >= 128 => n \div 128 < n
<1>1. n % 128 \in 0 .. 127
  OBVIOUS
<1>2. n \div 128 \in Nat
  OBVIOUS
<1>3. n = 128 * (n \div 128) + (n % 128)
  OBVIOUS
<1>4. n >= 128 => n \div 128 < n
  BY <1>1, <1>2, <1>3
<1> QED  BY <1>1, <1>2, <1>3, <1>4

(* The bytes of a number are what the definition says. *)
LEMMA SerialIs ==
  /\ Serial \in [Nat -> Seq(0 .. 255)]
  /\ \A n \in Nat : Serial[n] = IF n < 128 THEN <<n>> ELSE <<(n % 128) + 128>> \o Serial[n \div 128]
<1> DEFINE S == Nat
           V == Seq(0 .. 255)
           size == [x \in S |-> x]
           body(x, f) ==
             IF x < 128 THEN <<x>> ELSE <<(x % 128) + 128>> \o f[x \div 128]
           Is(f) == f = [x \in S |-> body(x, f)]
           G == [y \in S \X [S -> V] |-> body(y[1], y[2])]
<1>1. V # {} /\ size \in [S -> Nat] /\ \A x \in S : size[x] = x
  <2>1. <<>> \in V
    OBVIOUS
  <2> QED  BY <2>1
<1>2. ASSUME NEW x \in S, NEW f \in [S -> V]  PROVE body(x, f) \in V
  <2>1. x % 128 \in 0 .. 127 /\ x \div 128 \in Nat
    BY SevenBits
  <2>2. f[x \div 128] \in Seq(0 .. 255)
    BY <2>1
  <2>3. <<(x % 128) + 128>> \in Seq(0 .. 255)
    BY <2>1
  <2>4. <<(x % 128) + 128>> \o f[x \div 128] \in Seq(0 .. 255)
    BY <2>2, <2>3, ConcatProperties
  <2>5. x < 128 => <<x>> \in Seq(0 .. 255)
    OBVIOUS
  <2> QED  BY <2>4, <2>5, Zenon
<1>3. ASSUME NEW x \in S, NEW g, NEW h \in [S -> V], \A y \in S : size[y] < size[x] => g[y] = h[y]
      PROVE  body(x, g) = body(x, h)
  <2>1. x >= 128 => x \div 128 \in Nat /\ x \div 128 < x
    BY SevenBits
  <2>2. x >= 128 => g[x \div 128] = h[x \div 128]
    BY <1>1, <1>3, <2>1
  <2> QED  BY <2>2
<1> HIDE DEF body, V, size, S
<1>4. \A x \in S, f \in [S -> V] : G[<<x, f>>] = body(x, f) /\ G[<<x, f>>] \in V
  BY <1>2
<1>5. G \in [S \X [S -> V] -> V]
  <2> DEFINE T == [S -> V]
  <2>1. \A y \in S \X T : \E x \in S, f \in T : y = <<x, f>>
    <3> HIDE DEF T
    <3> QED  OBVIOUS
  <2>2. \A y \in S \X T : G[y] \in V
    <3>1. \A x \in S, f \in T : G[<<x, f>>] \in V
      BY <1>4
    <3> HIDE DEF G, T
    <3> QED  BY <2>1, <3>1, Zenon
  <2> HIDE DEF T
  <2> QED  BY <2>2 DEF T, G
<1> HIDE DEF G
<1>6. Recursion(S, V, size, G)
  <2>1. ASSUME NEW x \in S, NEW g \in [S -> V], NEW h \in [S -> V],
               \A y \in S : size[y] < size[x] => g[y] = h[y]
        PROVE  G[<<x, g>>] = G[<<x, h>>]
    <3>1. body(x, g) = body(x, h)
      BY <1>3, <2>1, Zenon
    <3> QED  BY <1>4, <3>1, Zenon
  <2> QED  BY <1>1, <1>5, <2>1, Zenon DEF Recursion
<1>7. PICK h \in [S -> V] : \A x \in S : h[x] = G[<<x, h>>]
  BY <1>6, RecursionSolved
<1>8. \A x \in S : h[x] = body(x, h)
  BY <1>4, <1>7, Zenon
<1>9. \A x \in S : Serial[x] = body(x, Serial)
  <2>1. Serial = CHOOSE f : Is(f)
    BY DEF Serial, body, S
  <2>2. Is(h)
    BY <1>7, <1>8
  <2> HIDE DEF Is
  <2>3. Is(Serial)
    BY <2>1, <2>2, Zenon
  <2> USE DEF Is
  <2> QED  BY <2>3
<1>10. DOMAIN Serial = S /\ Serial = [x \in S |-> Serial[x]]
  <2>1. Serial = CHOOSE f : Is(f)
    BY DEF Serial, body, S
  <2>2. Is(h)
    BY <1>7, <1>8
  <2> HIDE DEF Is
  <2>3. Is(Serial)
    BY <2>1, <2>2, Zenon
  <2> USE DEF Is
  <2> QED  BY <2>3
<1>11. \A x \in S : Serial[x] = h[x]
  <2>1. ASSUME NEW x \in S, \A y \in S : size[y] < size[x] => Serial[y] = h[y]
        PROVE  Serial[x] = h[x]
    <3>1. body(x, Serial) = body(x, h)
      BY <1>3, <1>7, <2>1, Zenon
    <3> QED  BY <1>8, <1>9, <3>1, Zenon
  <2> DEFINE P == {x \in S : Serial[x] = h[x]}
  <2>2. \A x \in S : (\A y \in S : size[y] < size[x] => y \in P) => x \in P
    BY <2>1
  <2>3. size \in [S -> Nat]
    BY <1>1
  <2>4. S \subseteq P
    <3> HIDE DEF P, Is
    <3> QED  BY <2>2, <2>3, SizeInduction, Zenon
  <2> QED  BY <2>4
<1>12. Serial \in [S -> V]
  BY <1>7, <1>10, <1>11
<1> QED  BY <1>9, <1>12 DEF body, V, S

(* And so is how many there are. *)
LEMMA SerialLenIs ==
  /\ SerialLen \in [Nat -> Nat]
  /\ \A n \in Nat : SerialLen[n] = IF n < 128 THEN 1 ELSE 1 + SerialLen[n \div 128]
<1> DEFINE S == Nat
           V == Nat
           size == [x \in S |-> x]
           body(x, f) ==
             IF x < 128 THEN 1 ELSE 1 + f[x \div 128]
           Is(f) == f = [x \in S |-> body(x, f)]
           G == [y \in S \X [S -> V] |-> body(y[1], y[2])]
<1>1. V # {} /\ size \in [S -> Nat] /\ \A x \in S : size[x] = x
  OBVIOUS
<1>2. ASSUME NEW x \in S, NEW f \in [S -> V]  PROVE body(x, f) \in V
  <2>1. f[x \div 128] \in Nat
    BY SevenBits
  <2> QED  BY <2>1
<1>3. ASSUME NEW x \in S, NEW g, NEW h \in [S -> V], \A y \in S : size[y] < size[x] => g[y] = h[y]
      PROVE  body(x, g) = body(x, h)
  <2>1. x >= 128 => x \div 128 \in Nat /\ x \div 128 < x
    BY SevenBits
  <2>2. x >= 128 => g[x \div 128] = h[x \div 128]
    BY <1>1, <1>3, <2>1
  <2> QED  BY <2>2
<1> HIDE DEF body, V, size, S
<1>4. \A x \in S, f \in [S -> V] : G[<<x, f>>] = body(x, f) /\ G[<<x, f>>] \in V
  BY <1>2
<1>5. G \in [S \X [S -> V] -> V]
  <2> DEFINE T == [S -> V]
  <2>1. \A y \in S \X T : \E x \in S, f \in T : y = <<x, f>>
    <3> HIDE DEF T
    <3> QED  OBVIOUS
  <2>2. \A y \in S \X T : G[y] \in V
    <3>1. \A x \in S, f \in T : G[<<x, f>>] \in V
      BY <1>4
    <3> HIDE DEF G, T
    <3> QED  BY <2>1, <3>1, Zenon
  <2> HIDE DEF T
  <2> QED  BY <2>2 DEF T, G
<1> HIDE DEF G
<1>6. Recursion(S, V, size, G)
  <2>1. ASSUME NEW x \in S, NEW g \in [S -> V], NEW h \in [S -> V],
               \A y \in S : size[y] < size[x] => g[y] = h[y]
        PROVE  G[<<x, g>>] = G[<<x, h>>]
    <3>1. body(x, g) = body(x, h)
      BY <1>3, <2>1, Zenon
    <3> QED  BY <1>4, <3>1, Zenon
  <2> QED  BY <1>1, <1>5, <2>1, Zenon DEF Recursion
<1>7. PICK h \in [S -> V] : \A x \in S : h[x] = G[<<x, h>>]
  BY <1>6, RecursionSolved
<1>8. \A x \in S : h[x] = body(x, h)
  BY <1>4, <1>7, Zenon
<1>9. \A x \in S : SerialLen[x] = body(x, SerialLen)
  <2>1. SerialLen = CHOOSE f : Is(f)
    BY DEF SerialLen, body, S
  <2>2. Is(h)
    BY <1>7, <1>8
  <2> HIDE DEF Is
  <2>3. Is(SerialLen)
    BY <2>1, <2>2, Zenon
  <2> USE DEF Is
  <2> QED  BY <2>3
<1>10. DOMAIN SerialLen = S /\ SerialLen = [x \in S |-> SerialLen[x]]
  <2>1. SerialLen = CHOOSE f : Is(f)
    BY DEF SerialLen, body, S
  <2>2. Is(h)
    BY <1>7, <1>8
  <2> HIDE DEF Is
  <2>3. Is(SerialLen)
    BY <2>1, <2>2, Zenon
  <2> USE DEF Is
  <2> QED  BY <2>3
<1>11. \A x \in S : SerialLen[x] = h[x]
  <2>1. ASSUME NEW x \in S, \A y \in S : size[y] < size[x] => SerialLen[y] = h[y]
        PROVE  SerialLen[x] = h[x]
    <3>1. body(x, SerialLen) = body(x, h)
      BY <1>3, <1>7, <2>1, Zenon
    <3> QED  BY <1>8, <1>9, <3>1, Zenon
  <2> DEFINE P == {x \in S : SerialLen[x] = h[x]}
  <2>2. \A x \in S : (\A y \in S : size[y] < size[x] => y \in P) => x \in P
    BY <2>1
  <2>3. size \in [S -> Nat]
    BY <1>1
  <2>4. S \subseteq P
    <3> HIDE DEF P, Is
    <3> QED  BY <2>2, <2>3, SizeInduction, Zenon
  <2> QED  BY <2>4
<1>12. SerialLen \in [S -> V]
  BY <1>7, <1>10, <1>11
<1> QED  BY <1>9, <1>12 DEF body, V, S

(* What holds of a number when it holds of all below it holds of all. *)
LEMMA NumberInduction ==
  ASSUME NEW P, \A n \in Nat : (\A m \in Nat : m < n => m \in P) => n \in P
  PROVE  Nat \subseteq P
<1> DEFINE size == [n \in Nat |-> n]
<1>1. size \in [Nat -> Nat] /\ \A n \in Nat : size[n] = n
  OBVIOUS
<1> HIDE DEF size
<1>2. \A n \in Nat : (\A m \in Nat : size[m] < size[n] => m \in P) => n \in P
  BY <1>1
<1> QED  BY <1>1, <1>2, SizeInduction, Zenon

(* len tells how many bytes put writes. *)
LEMMA SerialHolds ==
  ASSUME NEW n \in Nat
  PROVE  /\ Serial[n] \in Bytes /\ SerialLen[n] \in Nat /\ SerialLen[n] >= 1
         /\ Len(Serial[n]) = SerialLen[n]
<1> USE DEF Bytes
<1> DEFINE P == {k \in Nat : SerialLen[k] >= 1 /\ Len(Serial[k]) = SerialLen[k]}
<1>1. ASSUME NEW k \in Nat, \A m \in Nat : m < k => m \in P  PROVE k \in P
  <2>1. CASE k < 128
    <3>1. Serial[k] = <<k>> /\ SerialLen[k] = 1
      BY <2>1, SerialIs, SerialLenIs
    <3>2. Len(<<k>>) = 1
      OBVIOUS
    <3>3. Len(Serial[k]) = SerialLen[k] /\ SerialLen[k] >= 1
      BY <3>1, <3>2
    <3> QED  BY <3>3
  <2>2. CASE ~(k < 128)
    <3> DEFINE q == k \div 128
               b == (k % 128) + 128
    <3>1. q \in Nat /\ q < k
      BY <2>2, SevenBits
    <3>2. q \in P
      BY <1>1, <3>1
    <3>3. Serial[k] = <<b>> \o Serial[q] /\ SerialLen[k] = 1 + SerialLen[q]
      BY <2>2, SerialIs, SerialLenIs
    <3>4. Serial[q] \in Seq(0 .. 255) /\ SerialLen[q] \in Nat
      BY <3>1, SerialIs, SerialLenIs
    <3> HIDE DEF q, b
    <3>5. Len(<<b>> \o Serial[q]) = 1 + Len(Serial[q])
      BY <3>4
    <3> QED  BY <3>2, <3>3, <3>4, <3>5
  <2> QED  BY <2>1, <2>2
<1>2. n \in P
  <2> HIDE DEF P
  <2> QED  BY <1>1, NumberInduction
<1> QED  BY <1>2, SerialIs, SerialLenIs

-------------------------------------------------------------------------------
(* Numbers read back. *)

(* From the offset o on, the bytes of an image are those of s. *)
Holds(img, o, s) == \A i \in 1 .. Len(s) : o + i <= Len(img) /\ img[o + i] = s[i]

(* Whatever is read is a byte, and behind the end it is zero. *)
LEMMA ByteIs ==
  ASSUME NEW img \in Bytes, NEW pos \in Nat
  PROVE  Byte(img, pos) \in 0 .. 255 /\ (pos >= Len(img) => Byte(img, pos) = 0)
<1> USE DEF Bytes
<1>1. Len(img) \in Nat /\ (pos < Len(img) => pos + 1 \in 1 .. Len(img))
  BY DEF Bytes
<1>2. pos < Len(img) => img[pos + 1] \in 0 .. 255
  BY <1>1, ElementOfSeq DEF Bytes
<1> QED  BY <1>1, <1>2 DEF Byte

(* A byte above 127 is in the image. *)
LEMMA ByteRoom ==
  ASSUME NEW img \in Bytes, NEW pos \in Nat
  PROVE  Len(img) \in Nat /\ (~(Byte(img, pos) < 128) => pos < Len(img))
<1>1. Len(img) \in Nat
  BY DEF Bytes
<1>2. pos >= Len(img) => Byte(img, pos) = 0
  BY ByteIs, Zenon
<1> QED  BY <1>1, <1>2

(* A byte of what is held. *)
LEMMA ByteHeld ==
  ASSUME NEW img \in Bytes, NEW o \in Nat, NEW s \in Bytes, Holds(img, o, s),
         NEW i \in 0 .. Len(s) - 1
  PROVE  Byte(img, o + i) = s[i + 1] /\ o + i < Len(img)
<1> USE DEF Bytes
<1>1. o + (i + 1) <= Len(img) /\ img[o + (i + 1)] = s[i + 1]
  BY DEF Holds
<1> QED  BY <1>1 DEF Byte

(* What is held holds its parts. *)
LEMMA HoldsParts ==
  ASSUME NEW img \in Bytes, NEW o \in Nat, NEW s \in Bytes, NEW t \in Bytes,
         Holds(img, o, s \o t)
  PROVE  Holds(img, o, s) /\ Holds(img, o + Len(s), t)
<1> USE DEF Bytes
<1>1. Len(s \o t) = Len(s) + Len(t)
  OBVIOUS
<1>2. ASSUME NEW i \in 1 .. Len(s)  PROVE o + i <= Len(img) /\ img[o + i] = s[i]
  <2>1. i \in 1 .. Len(s \o t) /\ (s \o t)[i] = s[i]
    OBVIOUS
  <2> QED  BY <2>1 DEF Holds
<1>3. ASSUME NEW i \in 1 .. Len(t)  PROVE o + Len(s) + i <= Len(img) /\ img[o + Len(s) + i] = t[i]
  <2>1. Len(s) + i \in 1 .. Len(s \o t) /\ (s \o t)[Len(s) + i] = t[i]
    OBVIOUS
  <2>2. o + (Len(s) + i) <= Len(img) /\ img[o + (Len(s) + i)] = (s \o t)[Len(s) + i]
    BY <2>1 DEF Holds
  <2> QED  BY <2>1, <2>2
<1> QED  BY <1>2, <1>3 DEF Holds

(* One byte. *)
LEMMA OneByte ==
  ASSUME NEW b \in 0 .. 255
  PROVE  <<b>> \in Bytes /\ Len(<<b>>) = 1 /\ <<b>>[1] = b
BY DEF Bytes

(* Bytes behind bytes. *)
LEMMA BytesJoin ==
  ASSUME NEW s \in Bytes, NEW t \in Bytes
  PROVE  /\ s \o t \in Bytes /\ Len(s \o t) = Len(s) + Len(t)
         /\ Len(s) \in Nat /\ Len(t) \in Nat
BY DEF Bytes

(* The last byte of what is held is in the image. *)
LEMMA HeldEnds ==
  ASSUME NEW img \in Bytes, NEW o \in Nat, NEW s \in Bytes, Holds(img, o, s), s # <<>>
  PROVE  o + Len(s) <= Len(img)
BY DEF Holds, Bytes

(* A number read is what the definition says. *)
LEMMA SerialAtIs ==
  ASSUME NEW img \in Bytes
  PROVE  /\ SerialAt(img) \in [Nat -> [value : Nat, next : Nat]]
         /\ \A pos \in Nat : SerialAt(img)[pos] =
              IF Byte(img, pos) < 128 THEN [value |-> Byte(img, pos), next |-> pos + 1]
              ELSE [value |-> Byte(img, pos) - 128 + 128 * SerialAt(img)[pos + 1].value,
                    next |-> SerialAt(img)[pos + 1].next]
<1> DEFINE S == Nat
           V == [value : Nat, next : Nat]
           size == [x \in S |-> IF x < Len(img) THEN Len(img) - x ELSE 0]
           body(x, f) ==
             IF Byte(img, x) < 128 THEN [value |-> Byte(img, x), next |-> x + 1]
             ELSE [value |-> Byte(img, x) - 128 + 128 * f[x + 1].value, next |-> f[x + 1].next]
           Is(f) == f = [x \in S |-> body(x, f)]
           G == [y \in S \X [S -> V] |-> body(y[1], y[2])]
<1>1. V # {} /\ size \in [S -> Nat] /\ \A x \in S : size[x] = IF x < Len(img) THEN Len(img) - x ELSE 0
  <2>1. [value |-> 0, next |-> 0] \in V
    OBVIOUS
  <2>2. Len(img) \in Nat
    BY ByteIs
  <2> HIDE DEF V
  <2>3. size \in [S -> Nat] /\ \A x \in S : size[x] = IF x < Len(img) THEN Len(img) - x ELSE 0
    BY <2>2
  <2> QED  BY <2>1, <2>3
<1>2. ASSUME NEW x \in S, NEW f \in [S -> V]  PROVE body(x, f) \in V
  <2>1. Byte(img, x) \in 0 .. 255
    BY ByteIs
  <2>2. f[x + 1] \in [value : Nat, next : Nat]
    <3>1. x + 1 \in S
      OBVIOUS
    <3> QED  BY <3>1, Zenon
  <2>3. f[x + 1].value \in Nat /\ f[x + 1].next \in Nat
    BY <2>2
  <2> HIDE DEF V
  <2>4. CASE Byte(img, x) < 128
    <3>1. body(x, f) = [value |-> Byte(img, x), next |-> x + 1]
      BY <2>4, Zenon
    <3>2. \A b \in 0 .. 255 : b \in Nat
      OBVIOUS
    <3>3. x + 1 \in Nat
      OBVIOUS
    <3>4. Byte(img, x) \in Nat
      BY <2>1, <3>2, Zenon
    <3>5. \A b, c \in Nat : [value |-> b, next |-> c] \in V
      BY DEF V
    <3> HIDE DEF body
    <3> QED  BY <3>1, <3>3, <3>4, <3>5, Zenon
  <2>5. CASE ~(Byte(img, x) < 128)
    <3>1. body(x, f) = [value |-> Byte(img, x) - 128 + 128 * f[x + 1].value, next |-> f[x + 1].next]
      BY <2>5, Zenon
    <3>2. Byte(img, x) - 128 + 128 * f[x + 1].value \in Nat
      <4> DEFINE v == f[x + 1].value
                 b == Byte(img, x)
      <4>1. v \in Nat /\ b \in 0 .. 255 /\ ~(b < 128)
        BY <2>1, <2>3, <2>5
      <4> HIDE DEF v, b
      <4>2. b - 128 + 128 * v \in Nat
        BY <4>1
      <4> QED  BY <4>2 DEF v, b
    <3> HIDE DEF body
    <3> QED  BY <2>3, <3>1, <3>2 DEF V
  <2> HIDE DEF body
  <2> QED  BY <2>4, <2>5
<1>3. ASSUME NEW x \in S, NEW g, NEW h \in [S -> V], \A y \in S : size[y] < size[x] => g[y] = h[y]
      PROVE  body(x, g) = body(x, h)
  <2>1. ~(Byte(img, x) < 128) => x < Len(img)
    BY ByteRoom, Zenon
  <2>2. Len(img) \in Nat
    BY ByteRoom, Zenon
  <2> DEFINE m(y) == IF y < Len(img) THEN Len(img) - y ELSE 0
  <2>3. \A y \in Nat : y < Len(img) => y + 1 \in Nat /\ m(y + 1) < m(y)
    <3> HIDE DEF V
    <3> QED  BY <2>2
  <2>4. x < Len(img) => x + 1 \in S /\ size[x + 1] < size[x]
    BY <1>1, <2>3, Zenon
  <2>5. ~(Byte(img, x) < 128) => g[x + 1] = h[x + 1]
    BY <1>3, <2>1, <2>4, Zenon
  <2> QED  BY <2>5, Zenon
<1> HIDE DEF body, V, size, S
<1>4. \A x \in S, f \in [S -> V] : G[<<x, f>>] = body(x, f) /\ G[<<x, f>>] \in V
  BY <1>2
<1>5. G \in [S \X [S -> V] -> V]
  <2> DEFINE T == [S -> V]
  <2>1. \A y \in S \X T : \E x \in S, f \in T : y = <<x, f>>
    <3> HIDE DEF T
    <3> QED  OBVIOUS
  <2>2. \A y \in S \X T : G[y] \in V
    <3>1. \A x \in S, f \in T : G[<<x, f>>] \in V
      BY <1>4
    <3> HIDE DEF G, T
    <3> QED  BY <2>1, <3>1, Zenon
  <2> HIDE DEF T
  <2> QED  BY <2>2 DEF T, G
<1> HIDE DEF G
<1>6. Recursion(S, V, size, G)
  <2>1. ASSUME NEW x \in S, NEW g \in [S -> V], NEW h \in [S -> V],
               \A y \in S : size[y] < size[x] => g[y] = h[y]
        PROVE  G[<<x, g>>] = G[<<x, h>>]
    <3>1. body(x, g) = body(x, h)
      BY <1>3, <2>1, Zenon
    <3> QED  BY <1>4, <3>1, Zenon
  <2> QED  BY <1>1, <1>5, <2>1, Zenon DEF Recursion
<1>7. PICK h \in [S -> V] : \A x \in S : h[x] = G[<<x, h>>]
  BY <1>6, RecursionSolved
<1>8. \A x \in S : h[x] = body(x, h)
  BY <1>4, <1>7, Zenon
<1>9. \A x \in S : SerialAt(img)[x] = body(x, SerialAt(img))
  <2>1. SerialAt(img) = CHOOSE f : Is(f)
    BY DEF SerialAt, body, S
  <2>2. Is(h)
    BY <1>7, <1>8
  <2> HIDE DEF Is
  <2>3. Is(SerialAt(img))
    BY <2>1, <2>2, Zenon
  <2> USE DEF Is
  <2> QED  BY <2>3
<1>10. DOMAIN SerialAt(img) = S /\ SerialAt(img) = [x \in S |-> SerialAt(img)[x]]
  <2>1. SerialAt(img) = CHOOSE f : Is(f)
    BY DEF SerialAt, body, S
  <2>2. Is(h)
    BY <1>7, <1>8
  <2> HIDE DEF Is
  <2>3. Is(SerialAt(img))
    BY <2>1, <2>2, Zenon
  <2> USE DEF Is
  <2> QED  BY <2>3
<1>11. \A x \in S : SerialAt(img)[x] = h[x]
  <2>1. ASSUME NEW x \in S, \A y \in S : size[y] < size[x] => SerialAt(img)[y] = h[y]
        PROVE  SerialAt(img)[x] = h[x]
    <3>1. body(x, SerialAt(img)) = body(x, h)
      BY <1>3, <1>7, <2>1, Zenon
    <3> QED  BY <1>8, <1>9, <3>1, Zenon
  <2> DEFINE P == {x \in S : SerialAt(img)[x] = h[x]}
  <2>2. \A x \in S : (\A y \in S : size[y] < size[x] => y \in P) => x \in P
    BY <2>1
  <2>3. size \in [S -> Nat]
    BY <1>1
  <2>4. S \subseteq P
    <3> HIDE DEF P, Is
    <3> QED  BY <2>2, <2>3, SizeInduction, Zenon
  <2> QED  BY <2>4
<1>12. SerialAt(img) \in [S -> V]
  BY <1>7, <1>10, <1>11
<1> QED
  <2>1. \A pos \in Nat : SerialAt(img)[pos] = body(pos, SerialAt(img))
    BY <1>9 DEF S
  <2> QED  BY <1>12, <2>1, Zenon DEF body, V, S

(* A number and where it ends. *)
LEMMA SerialTyped ==
  ASSUME NEW img \in Bytes, NEW pos \in Nat
  PROVE  /\ SerialAt(img)[pos] \in [value : Nat, next : Nat]
         /\ SerialAt(img)[pos].value \in Nat /\ SerialAt(img)[pos].next \in Nat
<1>1. SerialAt(img)[pos] \in [value : Nat, next : Nat]
  BY SerialAtIs, Zenon
<1> QED  BY <1>1

(* A number read takes a byte at least. *)
LEMMA SerialAdvances ==
  ASSUME NEW img \in Bytes, NEW pos \in Nat
  PROVE  /\ SerialAt(img)[pos].value \in Nat /\ SerialAt(img)[pos].next \in Nat
         /\ SerialAt(img)[pos].next > pos
<1> DEFINE size == [x \in Nat |-> IF x < Len(img) THEN Len(img) - x ELSE 0]
           P == {x \in Nat : SerialAt(img)[x].next > x}
<1>1. size \in [Nat -> Nat] /\ \A x \in Nat : size[x] = IF x < Len(img) THEN Len(img) - x ELSE 0
  <2>1. Len(img) \in Nat
    OBVIOUS
  <2> QED  BY <2>1
<1>2. ASSUME NEW x \in Nat, \A y \in Nat : size[y] < size[x] => y \in P  PROVE x \in P
  <2>1. x + 1 \in Nat /\ SerialAt(img)[x].next \in Nat /\ SerialAt(img)[x + 1].next \in Nat
    <3>1. x + 1 \in Nat
      OBVIOUS
    <3> HIDE DEF P, size
    <3> QED  BY <3>1, SerialTyped, Zenon
  <2>2. CASE Byte(img, x) < 128
    <3>1. SerialAt(img)[x] = [value |-> Byte(img, x), next |-> x + 1]
      BY <2>2, SerialAtIs, Zenon
    <3> QED  BY <3>1
  <2>3. CASE ~(Byte(img, x) < 128)
    <3>1. SerialAt(img)[x].next = SerialAt(img)[x + 1].next
      <4>1. SerialAt(img)[x] = [value |-> Byte(img, x) - 128 + 128 * SerialAt(img)[x + 1].value,
                                next |-> SerialAt(img)[x + 1].next]
        BY <2>3, SerialAtIs, Zenon
      <4> QED  BY <4>1
    <3>2. x < Len(img) /\ Len(img) \in Nat
      BY <2>3, ByteIs
    <3>3. x + 1 \in P
      <4> HIDE DEF P
      <4> QED  BY <1>1, <1>2, <3>2
    <3> QED  BY <2>1, <3>1, <3>3
  <2> QED  BY <2>2, <2>3
<1>3. Nat \subseteq P
  <2> HIDE DEF P, size
  <2>1. \A x \in Nat : (\A y \in Nat : size[y] < size[x] => y \in P) => x \in P
    BY <1>2
  <2>2. size \in [Nat -> Nat]
    BY <1>1
  <2> QED  BY <2>1, <2>2, SizeInduction, ZenonT(40)
<1>4. SerialAt(img)[pos].next > pos
  BY <1>3
<1> QED  BY <1>4, SerialTyped

(* What put wrote getserial reads. *)
LEMMA SerialRead ==
  ASSUME NEW img \in Bytes, NEW n \in Nat, NEW o \in Nat, Holds(img, o, Serial[n])
  PROVE  SerialAt(img)[o] = [value |-> n, next |-> o + SerialLen[n]]
<1> DEFINE P == {k \in Nat : \A p \in Nat :
                   Holds(img, p, Serial[k]) => SerialAt(img)[p] = [value |-> k, next |-> p + SerialLen[k]]}
<1>1. ASSUME NEW k \in Nat, \A m \in Nat : m < k => m \in P  PROVE k \in P
  <2> SUFFICES ASSUME NEW p \in Nat, Holds(img, p, Serial[k])
               PROVE  SerialAt(img)[p] = [value |-> k, next |-> p + SerialLen[k]]
    OBVIOUS
  <2>1. Serial[k] \in Bytes /\ Serial[k] # <<>>
    BY SerialHolds
  <2>2. Byte(img, p) = Serial[k][1]
    <3>1. 0 \in 0 .. Len(Serial[k]) - 1
      BY <2>1
    <3>2. Byte(img, p + 0) = Serial[k][0 + 1]
      BY <2>1, <3>1, ByteHeld
    <3> QED  BY <3>2
  <2>3. CASE k < 128
    <3>1. Serial[k] = <<k>> /\ SerialLen[k] = 1
      BY <2>3, SerialIs, SerialLenIs
    <3>2. Byte(img, p) = k
      BY <2>2, <3>1
    <3> HIDE DEF P
    <3> QED  BY <2>3, <3>1, <3>2, SerialAtIs
  <2>4. CASE ~(k < 128)
    <3> DEFINE q == k \div 128
               b == (k % 128) + 128
    <3>1. q \in Nat /\ q < k /\ k = 128 * q + (b - 128) /\ b \in 128 .. 255
      BY <2>4, SevenBits
    <3>2. Serial[k] = <<b>> \o Serial[q] /\ SerialLen[k] = 1 + SerialLen[q]
      BY <2>4, SerialIs, SerialLenIs
    <3>3. Serial[q] \in Bytes /\ SerialLen[q] \in Nat
      BY <3>1, SerialHolds
    <3>4. q \in P
      <4> HIDE DEF P, q
      <4> QED  BY <1>1, <3>1
    <3> HIDE DEF q, b
    <3>5. <<b>> \in Bytes /\ Len(<<b>>) = 1
      <4>1. b \in 0 .. 255
        BY <3>1
      <4> QED  BY <4>1, OneByte, Zenon
    <3>6. Holds(img, p + 1, Serial[q])
      <4>1. Holds(img, p, <<b>> \o Serial[q])
        BY <3>2
      <4>2. Holds(img, p + Len(<<b>>), Serial[q])
        BY <3>3, <3>5, <4>1, HoldsParts, Zenon
      <4> QED  BY <3>5, <4>2
    <3>7. SerialAt(img)[p + 1] = [value |-> q, next |-> p + 1 + SerialLen[q]]
      BY <3>4, <3>6
    <3>8. Byte(img, p) = b
      BY <2>2, <3>2, <3>3, <3>5
    <3> HIDE DEF P
    <3>9. SerialAt(img)[p] = [value |-> Byte(img, p) - 128 + 128 * SerialAt(img)[p + 1].value,
                              next |-> SerialAt(img)[p + 1].next]
      <4>1. ~(Byte(img, p) < 128)
        BY <3>1, <3>8
      <4> QED  BY <4>1, SerialAtIs, Zenon
    <3>10. /\ Byte(img, p) - 128 + 128 * SerialAt(img)[p + 1].value = k
           /\ SerialAt(img)[p + 1].next = p + SerialLen[k]
      <4>1. SerialAt(img)[p + 1].value = q /\ SerialAt(img)[p + 1].next = p + 1 + SerialLen[q]
        BY <3>7
      <4>2. b - 128 + 128 * q = k
        BY <3>1
      <4>3. p + 1 + SerialLen[q] = p + SerialLen[k]
        <5>1. SerialLen[k] = 1 + SerialLen[q] /\ SerialLen[q] \in Nat
          BY <3>2, <3>3
        <5> QED  BY <5>1
      <4> QED  BY <3>8, <4>1, <4>2, <4>3, Zenon
    <3> QED  BY <3>9, <3>10
  <2> QED  BY <2>3, <2>4
<1>2. n \in P
  <2> HIDE DEF P
  <2> QED  BY <1>1, NumberInduction
<1> QED  BY <1>2

-------------------------------------------------------------------------------
(* Lists of entries. *)

EntryType == [lid : Nat \ {0}, post : 0 .. 127]

(* The bytes of a postfix. *)
LEMMA PostfixBytes ==
  ASSUME NEW n \in 1 .. 127
  PROVE  LET z == [i \in 1 .. n |-> 0]
         IN /\ <<n>> \o z \in Bytes /\ Len(<<n>> \o z) = n + 1 /\ (<<n>> \o z)[1] = n
<1> DEFINE z == [i \in 1 .. n |-> 0]
<1>1. z \in Bytes /\ Len(z) = n
  BY DEF Bytes
<1>2. <<n>> \in Bytes /\ Len(<<n>>) = 1 /\ <<n>>[1] = n
  <2>1. n \in 0 .. 255
    OBVIOUS
  <2> QED  BY <2>1, OneByte, Zenon
<1> HIDE DEF z
<1>3. (<<n>> \o z)[1] = n
  BY <1>1, <1>2 DEF Bytes
<1>4. <<n>> \o z \in Bytes /\ Len(<<n>> \o z) = 1 + n
  BY <1>1, <1>2, BytesJoin
<1> QED  BY <1>3, <1>4 DEF z

(* len tells how many bytes Serialize writes for an entry. *)
LEMMA EntryIs ==
  ASSUME NEW e \in EntryType
  PROVE  /\ e.lid \in Nat /\ e.post \in 0 .. 127
         /\ PostBytes(e) \in Bytes
         /\ Len(PostBytes(e)) = IF e.post # 0 THEN e.post + 1 ELSE 0
         /\ EntryBytes(e) \in Bytes /\ Len(EntryBytes(e)) = EntryLen(e)
         /\ EntryLen(e) \in Nat /\ EntryLen(e) >= 1
<1>1. e.lid \in Nat /\ e.post \in 0 .. 127
  BY DEF EntryType
<1>2. PostBytes(e) \in Bytes /\ Len(PostBytes(e)) = IF e.post # 0 THEN e.post + 1 ELSE 0
  <2>1. CASE e.post = 0
    BY <2>1 DEF PostBytes, Bytes
  <2>2. CASE e.post # 0
    <3>1. e.post \in 1 .. 127 /\ e.post > 0
      BY <1>1, <2>2
    <3>2. PostBytes(e) = <<e.post>> \o [i \in 1 .. e.post |-> 0]
      BY <3>1, Zenon DEF PostBytes
    <3>3. PostBytes(e) \in Bytes /\ Len(PostBytes(e)) = e.post + 1
      BY <3>1, <3>2, PostfixBytes, Zenon
    <3> QED  BY <2>2, <3>3, Zenon
  <2> QED  BY <2>1, <2>2
<1> DEFINE a == <<0, 0>>
           s == Serial[e.lid]
           c == <<0, IF e.post > 0 THEN 128 ELSE 0>>
           p == PostBytes(e)
<1>3. a \in Bytes /\ Len(a) = 2 /\ c \in Bytes /\ Len(c) = 2
  <2>1. (IF e.post > 0 THEN 128 ELSE 0) \in 0 .. 255
    OBVIOUS
  <2> QED  BY <2>1 DEF Bytes
<1>4. s \in Bytes /\ Len(s) = SerialLen[e.lid] /\ SerialLen[e.lid] \in Nat
  BY <1>1, SerialHolds
<1>5. EntryBytes(e) = a \o s \o c \o p
  BY DEF EntryBytes
<1> HIDE DEF a, s, c
<1>6. EntryBytes(e) \in Bytes /\ Len(EntryBytes(e)) = 2 + Len(s) + 2 + Len(p)
  <2> HIDE DEF p
  <2>1. a \o s \in Bytes /\ Len(a \o s) = 2 + Len(s) /\ Len(s) \in Nat
    BY <1>3, <1>4, BytesJoin, Zenon
  <2>2. (a \o s) \o c \in Bytes /\ Len((a \o s) \o c) = Len(a \o s) + Len(c)
    BY <1>3, <2>1, BytesJoin, Zenon
  <2>3. p \in Bytes
    BY <1>2 DEF p
  <2>4. ((a \o s) \o c) \o p \in Bytes /\ Len(((a \o s) \o c) \o p) = Len((a \o s) \o c) + Len(p)
    BY <2>2, <2>3, BytesJoin, Zenon
  <2>5. Len(EntryBytes(e)) = Len(a \o s) + Len(c) + Len(p)
    BY <1>5, <2>2, <2>4, Zenon
  <2>6. Len(EntryBytes(e)) = 2 + Len(s) + 2 + Len(p)
    BY <1>3, <2>1, <2>5, Zenon
  <2> QED  BY <1>5, <2>4, <2>6, Zenon
<1>7. EntryLen(e) = 2 + SerialLen[e.lid] + 2 + Len(p)
  BY <1>2 DEF EntryLen
<1>8. Len(p) \in Nat
  BY <1>1, <1>2
<1> HIDE DEF p
<1>9. EntryLen(e) \in Nat /\ EntryLen(e) >= 1
  BY <1>4, <1>7, <1>8
<1>10. Len(EntryBytes(e)) = EntryLen(e)
  BY <1>4, <1>6, <1>7, Zenon
<1> QED  BY <1>1, <1>2, <1>6, <1>9, <1>10, Zenon

(* What Serialize wrote of an entry the reader of lists reads. *)
LEMMA EntryRead ==
  ASSUME NEW img \in Bytes, NEW o \in Nat, NEW e \in EntryType, Holds(img, o, EntryBytes(e))
  PROVE  EntryAt(img, o).lid = e.lid /\ EntryAt(img, o).next = o + EntryLen(e)
<1> DEFINE a == <<0, 0>>
           s == Serial[e.lid]
           c == <<0, IF e.post > 0 THEN 128 ELSE 0>>
           p == PostBytes(e)
           n == SerialLen[e.lid]
<1>1. e.lid \in Nat /\ e.post \in 0 .. 127
  BY EntryIs
<1>2. p \in Bytes /\ Len(p) = IF e.post # 0 THEN e.post + 1 ELSE 0
  BY EntryIs, Zenon
<1>3. a \in Bytes /\ Len(a) = 2 /\ c \in Bytes /\ Len(c) = 2 /\ c[2] = IF e.post > 0 THEN 128 ELSE 0
  <2>1. (IF e.post > 0 THEN 128 ELSE 0) \in 0 .. 255
    OBVIOUS
  <2> QED  BY <2>1 DEF Bytes
<1>4. s \in Bytes /\ Len(s) = n /\ n \in Nat
  BY <1>1, SerialHolds
<1>5. Holds(img, o, ((a \o s) \o c) \o p)
  BY Zenon DEF EntryBytes
<1>6. EntryLen(e) = 2 + n + 2 + (IF e.post # 0 THEN e.post + 1 ELSE 0)
  BY DEF EntryLen
<1> HIDE DEF a, s, c
<1>7. /\ a \o s \in Bytes /\ Len(a \o s) = 2 + n
      /\ (a \o s) \o c \in Bytes /\ Len((a \o s) \o c) = 2 + n + 2
  <2>1. a \o s \in Bytes /\ Len(a \o s) = 2 + n
    BY <1>3, <1>4, BytesJoin, Zenon
  <2> QED  BY <1>3, <2>1, BytesJoin, Zenon
<1>8. Holds(img, o, (a \o s) \o c) /\ Holds(img, o + (2 + n + 2), p)
  BY <1>2, <1>5, <1>7, HoldsParts, Zenon
<1>9. Holds(img, o, a \o s) /\ Holds(img, o + (2 + n), c)
  BY <1>3, <1>7, <1>8, HoldsParts, Zenon
<1>10. Holds(img, o + 2, s)
  BY <1>3, <1>4, <1>9, HoldsParts, Zenon
<1>11. o + 2 \in Nat /\ o + (2 + n) \in Nat /\ o + (2 + n + 2) \in Nat
  BY <1>4
<1>12. SerialAt(img)[o + 2] = [value |-> e.lid, next |-> o + 2 + n]
  BY <1>1, <1>10, <1>11, SerialRead, Zenon DEF s
<1>13. Byte(img, o + (2 + n) + 1) = IF e.post > 0 THEN 128 ELSE 0
  <2>1. 1 \in 0 .. Len(c) - 1
    BY <1>3
  <2>2. Byte(img, o + (2 + n) + 1) = c[1 + 1]
    BY <1>3, <1>9, <1>11, <2>1, ByteHeld, Zenon
  <2> QED  BY <1>3, <2>2
<1>14. e.post > 0 => Byte(img, o + (2 + n + 2)) = e.post
  <2> SUFFICES ASSUME e.post > 0  PROVE Byte(img, o + (2 + n + 2)) = e.post
    OBVIOUS
  <2>1. p[1] = e.post
    <3>1. e.post \in 1 .. 127
      BY <1>1
    <3>2. p = <<e.post>> \o [i \in 1 .. e.post |-> 0]
      BY Zenon DEF PostBytes
    <3> HIDE DEF p
    <3> QED  BY <3>1, <3>2, PostfixBytes, Zenon
  <2>2. Len(p) = e.post + 1
    BY <1>1, <1>2
  <2>3. 0 \in 0 .. Len(p) - 1
    <3>1. (e.post + 1) - 1 >= 0 /\ (e.post + 1) - 1 \in Int
      BY <1>1
    <3>2. 0 \in 0 .. (e.post + 1) - 1
      BY <3>1
    <3> HIDE DEF p
    <3>3. Len(p) - 1 = (e.post + 1) - 1
      BY <2>2, Zenon
    <3> QED  BY <3>2, <3>3
  <2> HIDE DEF p
  <2>4. Byte(img, o + (2 + n + 2) + 0) = p[0 + 1]
    BY <1>2, <1>8, <1>11, <2>3, ByteHeld, Zenon
  <2> QED  BY <1>11, <2>1, <2>4
<1> HIDE DEF p
<1> DEFINE l == SerialAt(img)[o + 2]
           post == Byte(img, l.next + 1) >= 128
<1>15. EntryAt(img, o) = [lid |-> l.value, next |-> l.next + 2 + (IF post THEN 1 + Byte(img, l.next + 2) ELSE 0)]
  BY DEF EntryAt
<1>16. l.value = e.lid /\ l.next = o + 2 + n
  BY <1>12
<1>17. l.next + 1 = o + (2 + n) + 1 /\ l.next + 2 = o + (2 + n + 2)
  BY <1>4, <1>16
<1>18. post = (e.post > 0)
  <2>1. Byte(img, l.next + 1) = IF e.post > 0 THEN 128 ELSE 0
    BY <1>13, <1>17, Zenon
  <2> HIDE DEF l
  <2> QED  BY <2>1
<1>19. (IF post THEN 1 + Byte(img, l.next + 2) ELSE 0) = (IF e.post # 0 THEN e.post + 1 ELSE 0)
  <2> HIDE DEF l, post
  <2>1. CASE e.post > 0
    <3>1. Byte(img, l.next + 2) = e.post
      BY <1>14, <1>17, <2>1, Zenon
    <3>2. 1 + e.post = e.post + 1 /\ e.post # 0
      BY <1>1, <2>1
    <3> QED  BY <1>18, <2>1, <3>1, <3>2, Zenon
  <2>2. CASE ~(e.post > 0)
    <3>1. e.post = 0
      BY <1>1, <2>2
    <3> QED  BY <1>18, <2>2, <3>1, Zenon
  <2> QED  BY <2>1, <2>2
<1> DEFINE m == IF e.post # 0 THEN e.post + 1 ELSE 0
<1>20. EntryAt(img, o).lid = l.value /\ EntryAt(img, o).next = l.next + 2 + m
  BY <1>15, <1>19
<1>21. o + 2 + n + 2 + m = o + (2 + n + 2 + m)
  <2>1. m \in Nat
    BY <1>1
  <2> HIDE DEF m, n
  <2> QED  BY <1>4, <2>1
<1> QED  BY <1>6, <1>16, <1>20, <1>21, Zenon

(* Wherever an entry is read, it ends at some offset. *)
LEMMA EntryEnds ==
  ASSUME NEW img \in Bytes, NEW pos \in Nat
  PROVE  EntryAt(img, pos).next \in Nat
<1> DEFINE l == SerialAt(img)[pos + 2]
           b == Byte(img, l.next + 2)
<1>1. pos + 2 \in Nat
  OBVIOUS
<1>2. l.next \in Nat
  BY <1>1, SerialTyped, Zenon
<1>3. l.next + 2 \in Nat
  BY <1>2
<1>4. b \in 0 .. 255
  BY <1>3, ByteIs, Zenon
<1>5. EntryAt(img, pos).next = l.next + 2 + (IF Byte(img, l.next + 1) >= 128 THEN 1 + b ELSE 0)
  BY DEF EntryAt
<1> HIDE DEF l, b
<1> QED  BY <1>2, <1>4, <1>5

(* The bytes of the first entries of a list. *)
LEMMA ListBytesIs ==
  ASSUME NEW list \in Seq(EntryType)
  PROVE  /\ ListBytes(list) \in [0 .. Len(list) -> Bytes]
         /\ \A k \in 0 .. Len(list) : ListBytes(list)[k] =
              IF k = 0 THEN Serial[Len(list)] ELSE ListBytes(list)[k - 1] \o EntryBytes(list[k])
<1> DEFINE S == 0 .. Len(list)
           V == Bytes
           size == [x \in S |-> x]
           body(x, f) ==
             IF x = 0 THEN Serial[Len(list)] ELSE f[x - 1] \o EntryBytes(list[x])
           Is(f) == f = [x \in S |-> body(x, f)]
           G == [y \in S \X [S -> V] |-> body(y[1], y[2])]
<1>1. V # {} /\ size \in [S -> Nat] /\ \A x \in S : size[x] = x
  <2>1. Serial[0] \in V
    BY SerialHolds
  <2>2. Len(list) \in Nat
    OBVIOUS
  <2> HIDE DEF V
  <2> QED  BY <2>1, <2>2
<1>2. ASSUME NEW x \in S, NEW f \in [S -> V]  PROVE body(x, f) \in V
  <2>1. CASE x = 0
    <3>1. Len(list) \in Nat
      OBVIOUS
    <3> QED  BY <2>1, <3>1, SerialHolds, Zenon
  <2>2. CASE x # 0
    <3>1. x - 1 \in S /\ x \in 1 .. Len(list)
      BY <2>2
    <3>2. list[x] \in EntryType
      BY <3>1, ElementOfSeq
    <3>3. EntryBytes(list[x]) \in Bytes
      BY <3>2, EntryIs, Zenon
    <3>4. f[x - 1] \in Bytes
      BY <3>1, Zenon
    <3>5. f[x - 1] \o EntryBytes(list[x]) \in Bytes
      BY <3>3, <3>4, BytesJoin, Zenon
    <3> QED  BY <2>2, <3>5, Zenon
  <2> QED  BY <2>1, <2>2, Zenon
<1>3. ASSUME NEW x \in S, NEW g, NEW h \in [S -> V], \A y \in S : size[y] < size[x] => g[y] = h[y]
      PROVE  body(x, g) = body(x, h)
  <2>1. x # 0 => x - 1 \in S /\ x - 1 < x
    OBVIOUS
  <2>2. x # 0 => g[x - 1] = h[x - 1]
    BY <1>1, <1>3, <2>1
  <2> QED  BY <2>2, Zenon
<1> HIDE DEF body, V, size, S
<1>4. \A x \in S, f \in [S -> V] : G[<<x, f>>] = body(x, f) /\ G[<<x, f>>] \in V
  BY <1>2
<1>5. G \in [S \X [S -> V] -> V]
  <2> DEFINE T == [S -> V]
  <2>1. \A y \in S \X T : \E x \in S, f \in T : y = <<x, f>>
    <3> HIDE DEF T
    <3> QED  OBVIOUS
  <2>2. \A y \in S \X T : G[y] \in V
    <3>1. \A x \in S, f \in T : G[<<x, f>>] \in V
      BY <1>4
    <3> HIDE DEF G, T
    <3> QED  BY <2>1, <3>1, Zenon
  <2> HIDE DEF T
  <2> QED  BY <2>2 DEF T, G
<1> HIDE DEF G
<1>6. Recursion(S, V, size, G)
  <2>1. ASSUME NEW x \in S, NEW g \in [S -> V], NEW h \in [S -> V],
               \A y \in S : size[y] < size[x] => g[y] = h[y]
        PROVE  G[<<x, g>>] = G[<<x, h>>]
    <3>1. body(x, g) = body(x, h)
      BY <1>3, <2>1, Zenon
    <3> QED  BY <1>4, <3>1, Zenon
  <2> QED  BY <1>1, <1>5, <2>1, Zenon DEF Recursion
<1>7. PICK h \in [S -> V] : \A x \in S : h[x] = G[<<x, h>>]
  BY <1>6, RecursionSolved
<1>8. \A x \in S : h[x] = body(x, h)
  BY <1>4, <1>7, Zenon
<1>9. \A x \in S : ListBytes(list)[x] = body(x, ListBytes(list))
  <2>1. ListBytes(list) = CHOOSE f : Is(f)
    BY DEF ListBytes, body, S
  <2>2. Is(h)
    BY <1>7, <1>8
  <2> HIDE DEF Is
  <2>3. Is(ListBytes(list))
    BY <2>1, <2>2, Zenon
  <2> USE DEF Is
  <2> QED  BY <2>3
<1>10. DOMAIN ListBytes(list) = S /\ ListBytes(list) = [x \in S |-> ListBytes(list)[x]]
  <2>1. ListBytes(list) = CHOOSE f : Is(f)
    BY DEF ListBytes, body, S
  <2>2. Is(h)
    BY <1>7, <1>8
  <2> HIDE DEF Is
  <2>3. Is(ListBytes(list))
    BY <2>1, <2>2, Zenon
  <2> USE DEF Is
  <2> QED  BY <2>3
<1>11. \A x \in S : ListBytes(list)[x] = h[x]
  <2>1. ASSUME NEW x \in S, \A y \in S : size[y] < size[x] => ListBytes(list)[y] = h[y]
        PROVE  ListBytes(list)[x] = h[x]
    <3>1. body(x, ListBytes(list)) = body(x, h)
      BY <1>3, <1>7, <2>1, Zenon
    <3> QED  BY <1>8, <1>9, <3>1, Zenon
  <2> DEFINE P == {x \in S : ListBytes(list)[x] = h[x]}
  <2>2. \A x \in S : (\A y \in S : size[y] < size[x] => y \in P) => x \in P
    BY <2>1
  <2>3. size \in [S -> Nat]
    BY <1>1
  <2>4. S \subseteq P
    <3> HIDE DEF P, Is
    <3> QED  BY <2>2, <2>3, SizeInduction, Zenon
  <2> QED  BY <2>4
<1>12. ListBytes(list) \in [S -> V]
  BY <1>7, <1>10, <1>11
<1> QED
  <2>1. \A k \in 0 .. Len(list) : ListBytes(list)[k] = body(k, ListBytes(list))
    BY <1>9 DEF S
  <2> QED  BY <1>12, <2>1, Zenon DEF body, V, S

(* How many they are. *)
LEMMA ListLensIs ==
  ASSUME NEW list \in Seq(EntryType)
  PROVE  /\ ListLens(list) \in [0 .. Len(list) -> Nat]
         /\ \A k \in 0 .. Len(list) : ListLens(list)[k] =
              IF k = 0 THEN SerialLen[Len(list)] ELSE ListLens(list)[k - 1] + EntryLen(list[k])
<1> DEFINE S == 0 .. Len(list)
           V == Nat
           size == [x \in S |-> x]
           body(x, f) ==
             IF x = 0 THEN SerialLen[Len(list)] ELSE f[x - 1] + EntryLen(list[x])
           Is(f) == f = [x \in S |-> body(x, f)]
           G == [y \in S \X [S -> V] |-> body(y[1], y[2])]
<1>1. V # {} /\ size \in [S -> Nat] /\ \A x \in S : size[x] = x
  OBVIOUS
<1>2. ASSUME NEW x \in S, NEW f \in [S -> V]  PROVE body(x, f) \in V
  <2>1. CASE x = 0
    <3>1. Len(list) \in Nat
      OBVIOUS
    <3> QED  BY <2>1, <3>1, SerialHolds, Zenon
  <2>2. CASE x # 0
    <3>1. x - 1 \in S /\ x \in 1 .. Len(list)
      BY <2>2
    <3>2. list[x] \in EntryType
      BY <3>1, ElementOfSeq
    <3>3. EntryLen(list[x]) \in Nat
      BY <3>2, EntryIs, Zenon
    <3>4. f[x - 1] \in Nat
      BY <3>1, Zenon
    <3>5. f[x - 1] + EntryLen(list[x]) \in Nat
      BY <3>3, <3>4
    <3> QED  BY <2>2, <3>5, Zenon
  <2> QED  BY <2>1, <2>2, Zenon
<1>3. ASSUME NEW x \in S, NEW g, NEW h \in [S -> V], \A y \in S : size[y] < size[x] => g[y] = h[y]
      PROVE  body(x, g) = body(x, h)
  <2>1. x # 0 => x - 1 \in S /\ x - 1 < x
    OBVIOUS
  <2>2. x # 0 => g[x - 1] = h[x - 1]
    BY <1>1, <1>3, <2>1
  <2> QED  BY <2>2, Zenon
<1> HIDE DEF body, V, size, S
<1>4. \A x \in S, f \in [S -> V] : G[<<x, f>>] = body(x, f) /\ G[<<x, f>>] \in V
  BY <1>2
<1>5. G \in [S \X [S -> V] -> V]
  <2> DEFINE T == [S -> V]
  <2>1. \A y \in S \X T : \E x \in S, f \in T : y = <<x, f>>
    <3> HIDE DEF T
    <3> QED  OBVIOUS
  <2>2. \A y \in S \X T : G[y] \in V
    <3>1. \A x \in S, f \in T : G[<<x, f>>] \in V
      BY <1>4
    <3> HIDE DEF G, T
    <3> QED  BY <2>1, <3>1, Zenon
  <2> HIDE DEF T
  <2> QED  BY <2>2 DEF T, G
<1> HIDE DEF G
<1>6. Recursion(S, V, size, G)
  <2>1. ASSUME NEW x \in S, NEW g \in [S -> V], NEW h \in [S -> V],
               \A y \in S : size[y] < size[x] => g[y] = h[y]
        PROVE  G[<<x, g>>] = G[<<x, h>>]
    <3>1. body(x, g) = body(x, h)
      BY <1>3, <2>1, Zenon
    <3> QED  BY <1>4, <3>1, Zenon
  <2> QED  BY <1>1, <1>5, <2>1, Zenon DEF Recursion
<1>7. PICK h \in [S -> V] : \A x \in S : h[x] = G[<<x, h>>]
  BY <1>6, RecursionSolved
<1>8. \A x \in S : h[x] = body(x, h)
  BY <1>4, <1>7, Zenon
<1>9. \A x \in S : ListLens(list)[x] = body(x, ListLens(list))
  <2>1. ListLens(list) = CHOOSE f : Is(f)
    BY DEF ListLens, body, S
  <2>2. Is(h)
    BY <1>7, <1>8
  <2> HIDE DEF Is
  <2>3. Is(ListLens(list))
    BY <2>1, <2>2, Zenon
  <2> USE DEF Is
  <2> QED  BY <2>3
<1>10. DOMAIN ListLens(list) = S /\ ListLens(list) = [x \in S |-> ListLens(list)[x]]
  <2>1. ListLens(list) = CHOOSE f : Is(f)
    BY DEF ListLens, body, S
  <2>2. Is(h)
    BY <1>7, <1>8
  <2> HIDE DEF Is
  <2>3. Is(ListLens(list))
    BY <2>1, <2>2, Zenon
  <2> USE DEF Is
  <2> QED  BY <2>3
<1>11. \A x \in S : ListLens(list)[x] = h[x]
  <2>1. ASSUME NEW x \in S, \A y \in S : size[y] < size[x] => ListLens(list)[y] = h[y]
        PROVE  ListLens(list)[x] = h[x]
    <3>1. body(x, ListLens(list)) = body(x, h)
      BY <1>3, <1>7, <2>1, Zenon
    <3> QED  BY <1>8, <1>9, <3>1, Zenon
  <2> DEFINE P == {x \in S : ListLens(list)[x] = h[x]}
  <2>2. \A x \in S : (\A y \in S : size[y] < size[x] => y \in P) => x \in P
    BY <2>1
  <2>3. size \in [S -> Nat]
    BY <1>1
  <2>4. S \subseteq P
    <3> HIDE DEF P, Is
    <3> QED  BY <2>2, <2>3, SizeInduction, Zenon
  <2> QED  BY <2>4
<1>12. ListLens(list) \in [S -> V]
  BY <1>7, <1>10, <1>11
<1> QED
  <2>1. \A k \in 0 .. Len(list) : ListLens(list)[k] = body(k, ListLens(list))
    BY <1>9 DEF S
  <2> QED  BY <1>12, <2>1, Zenon DEF body, V, S

(* The cursor in a list that is read. *)
LEMMA ListAtIs ==
  ASSUME NEW img \in Bytes, NEW pos \in Nat
  PROVE  /\ ListAt(img, pos) \in [0 .. SerialAt(img)[pos].value -> Nat]
         /\ \A k \in 0 .. SerialAt(img)[pos].value : ListAt(img, pos)[k] =
              IF k = 0 THEN SerialAt(img)[pos].next ELSE EntryAt(img, ListAt(img, pos)[k - 1]).next
<1> DEFINE S == 0 .. SerialAt(img)[pos].value
           V == Nat
           size == [x \in S |-> x]
           body(x, f) ==
             IF x = 0 THEN SerialAt(img)[pos].next ELSE EntryAt(img, f[x - 1]).next
           Is(f) == f = [x \in S |-> body(x, f)]
           G == [y \in S \X [S -> V] |-> body(y[1], y[2])]
<1>1. V # {} /\ size \in [S -> Nat] /\ \A x \in S : size[x] = x
  OBVIOUS
<1>2. ASSUME NEW x \in S, NEW f \in [S -> V]  PROVE body(x, f) \in V
  <2>1. CASE x = 0
    BY <2>1, SerialTyped, Zenon
  <2>2. CASE x # 0
    <3>1. x - 1 \in S
      <4>1. SerialAt(img)[pos].value \in Nat
        BY SerialTyped, Zenon
      <4> DEFINE v == SerialAt(img)[pos].value
      <4> HIDE DEF v
      <4>2. \A y \in 0 .. v : y # 0 => y - 1 \in 0 .. v
        BY <4>1 DEF v
      <4> QED  BY <2>2, <4>2, Zenon DEF v
    <3>2. f[x - 1] \in Nat
      BY <3>1, Zenon
    <3>3. EntryAt(img, f[x - 1]).next \in Nat
      BY <3>2, EntryEnds, Zenon
    <3> QED  BY <2>2, <3>3, Zenon
  <2> QED  BY <2>1, <2>2, Zenon
<1>3. ASSUME NEW x \in S, NEW g, NEW h \in [S -> V], \A y \in S : size[y] < size[x] => g[y] = h[y]
      PROVE  body(x, g) = body(x, h)
  <2>1. x # 0 => x - 1 \in S /\ x - 1 < x
    <3> DEFINE v == SerialAt(img)[pos].value
    <3>1. v \in Nat
      BY SerialTyped, Zenon
    <3> HIDE DEF v
    <3>2. \A y \in 0 .. v : y # 0 => y - 1 \in 0 .. v /\ y - 1 < y
      BY <3>1
    <3> QED  BY <3>2, Zenon DEF v
  <2>2. x # 0 => g[x - 1] = h[x - 1]
    BY <1>1, <1>3, <2>1
  <2> QED  BY <2>2, Zenon
<1> HIDE DEF body, V, size, S
<1>4. \A x \in S, f \in [S -> V] : G[<<x, f>>] = body(x, f) /\ G[<<x, f>>] \in V
  BY <1>2
<1>5. G \in [S \X [S -> V] -> V]
  <2> DEFINE T == [S -> V]
  <2>1. \A y \in S \X T : \E x \in S, f \in T : y = <<x, f>>
    <3> HIDE DEF T
    <3> QED  OBVIOUS
  <2>2. \A y \in S \X T : G[y] \in V
    <3>1. \A x \in S, f \in T : G[<<x, f>>] \in V
      BY <1>4
    <3> HIDE DEF G, T
    <3> QED  BY <2>1, <3>1, Zenon
  <2> HIDE DEF T
  <2> QED  BY <2>2 DEF T, G
<1> HIDE DEF G
<1>6. Recursion(S, V, size, G)
  <2>1. ASSUME NEW x \in S, NEW g \in [S -> V], NEW h \in [S -> V],
               \A y \in S : size[y] < size[x] => g[y] = h[y]
        PROVE  G[<<x, g>>] = G[<<x, h>>]
    <3>1. body(x, g) = body(x, h)
      BY <1>3, <2>1, Zenon
    <3> QED  BY <1>4, <3>1, Zenon
  <2> QED  BY <1>1, <1>5, <2>1, Zenon DEF Recursion
<1>7. PICK h \in [S -> V] : \A x \in S : h[x] = G[<<x, h>>]
  BY <1>6, RecursionSolved
<1>8. \A x \in S : h[x] = body(x, h)
  BY <1>4, <1>7, Zenon
<1>9. \A x \in S : ListAt(img, pos)[x] = body(x, ListAt(img, pos))
  <2>1. ListAt(img, pos) = CHOOSE f : Is(f)
    BY DEF ListAt, body, S
  <2>2. Is(h)
    BY <1>7, <1>8
  <2> HIDE DEF Is
  <2>3. Is(ListAt(img, pos))
    BY <2>1, <2>2, Zenon
  <2> USE DEF Is
  <2> QED  BY <2>3
<1>10. DOMAIN ListAt(img, pos) = S /\ ListAt(img, pos) = [x \in S |-> ListAt(img, pos)[x]]
  <2>1. ListAt(img, pos) = CHOOSE f : Is(f)
    BY DEF ListAt, body, S
  <2>2. Is(h)
    BY <1>7, <1>8
  <2> HIDE DEF Is
  <2>3. Is(ListAt(img, pos))
    BY <2>1, <2>2, Zenon
  <2> USE DEF Is
  <2> QED  BY <2>3
<1>11. \A x \in S : ListAt(img, pos)[x] = h[x]
  <2>1. ASSUME NEW x \in S, \A y \in S : size[y] < size[x] => ListAt(img, pos)[y] = h[y]
        PROVE  ListAt(img, pos)[x] = h[x]
    <3>1. body(x, ListAt(img, pos)) = body(x, h)
      BY <1>3, <1>7, <2>1, Zenon
    <3> QED  BY <1>8, <1>9, <3>1, Zenon
  <2> DEFINE P == {x \in S : ListAt(img, pos)[x] = h[x]}
  <2>2. \A x \in S : (\A y \in S : size[y] < size[x] => y \in P) => x \in P
    BY <2>1
  <2>3. size \in [S -> Nat]
    BY <1>1
  <2>4. S \subseteq P
    <3> HIDE DEF P, Is
    <3> QED  BY <2>2, <2>3, SizeInduction, Zenon
  <2> QED  BY <2>4
<1>12. ListAt(img, pos) \in [S -> V]
  BY <1>7, <1>10, <1>11
<1> QED
  <2>1. \A k \in 0 .. SerialAt(img)[pos].value : ListAt(img, pos)[k] = body(k, ListAt(img, pos))
    BY <1>9 DEF S
  <2> QED  BY <1>12, <2>1, Zenon DEF body, V, S

(* The length of a list, and where its entries stand in it. *)
LEMMA ListIs ==
  ASSUME NEW list \in Seq(EntryType), NEW k \in 0 .. Len(list)
  PROVE  /\ Len(list) \in Nat
         /\ ListBytes(list)[k] \in Bytes /\ ListLens(list)[k] \in Nat /\ ListLens(list)[k] >= 1
         /\ Len(ListBytes(list)[k]) = ListLens(list)[k]
         /\ k # 0 => /\ k - 1 \in 0 .. Len(list) /\ list[k] \in EntryType
                     /\ EntryLen(list[k]) \in Nat /\ EntryLen(list[k]) >= 1
                     /\ ListLens(list)[k - 1] \in Nat
                     /\ ListLens(list)[k] = ListLens(list)[k - 1] + EntryLen(list[k])
<1> DEFINE B == ListBytes(list)
           L == ListLens(list)
           P == {j \in Nat : j <= Len(list) => L[j] >= 1 /\ Len(B[j]) = L[j]}
<1>1. Len(list) \in Nat
  OBVIOUS
<1>2. ASSUME NEW j \in 0 .. Len(list), j # 0
      PROVE  /\ j - 1 \in Nat /\ j - 1 < j /\ j - 1 <= Len(list) /\ j - 1 \in 0 .. Len(list)
             /\ list[j] \in EntryType
             /\ B[j] = B[j - 1] \o EntryBytes(list[j]) /\ L[j] = L[j - 1] + EntryLen(list[j])
  <2>1. j - 1 \in Nat /\ j - 1 < j /\ j - 1 <= Len(list) /\ j - 1 \in 0 .. Len(list) /\ j \in 1 .. Len(list)
    BY <1>1, <1>2
  <2>2. list[j] \in EntryType
    BY <2>1, ElementOfSeq
  <2> QED  BY <1>2, <2>1, <2>2, ListBytesIs, ListLensIs, Zenon
<1>3. \A j \in 0 .. Len(list) : B[j] \in Bytes /\ L[j] \in Nat
  BY ListBytesIs, ListLensIs, Zenon
<1>4. ASSUME NEW j \in Nat, \A m \in Nat : m < j => m \in P  PROVE j \in P
  <2> SUFFICES ASSUME j <= Len(list)  PROVE L[j] >= 1 /\ Len(B[j]) = L[j]
    OBVIOUS
  <2>1. j \in 0 .. Len(list)
    BY <1>1
  <2>2. CASE j = 0
    <3>1. B[j] = Serial[Len(list)] /\ L[j] = SerialLen[Len(list)]
      BY <2>1, <2>2, ListBytesIs, ListLensIs, Zenon
    <3> QED  BY <1>1, <3>1, SerialHolds, Zenon
  <2>3. CASE j # 0
    <3>1. /\ j - 1 \in Nat /\ j - 1 < j /\ j - 1 <= Len(list) /\ j - 1 \in 0 .. Len(list)
          /\ list[j] \in EntryType
          /\ B[j] = B[j - 1] \o EntryBytes(list[j]) /\ L[j] = L[j - 1] + EntryLen(list[j])
      BY <1>2, <2>1, <2>3
    <3>2. j - 1 \in P
      <4> HIDE DEF P
      <4> QED  BY <1>4, <3>1
    <3>3. Len(B[j - 1]) = L[j - 1] /\ L[j - 1] >= 1
      BY <3>1, <3>2
    <3>4. /\ EntryBytes(list[j]) \in Bytes /\ Len(EntryBytes(list[j])) = EntryLen(list[j])
          /\ EntryLen(list[j]) \in Nat
      BY <3>1, EntryIs, Zenon
    <3> HIDE DEF P, B, L
    <3>5. B[j - 1] \in Bytes /\ L[j - 1] \in Nat
      BY <1>3, <3>1, Zenon
    <3>6. Len(B[j]) = Len(B[j - 1]) + Len(EntryBytes(list[j]))
      BY <3>1, <3>4, <3>5, BytesJoin, Zenon
    <3>7. Len(B[j]) = L[j]
      BY <3>1, <3>3, <3>4, <3>6, Zenon
    <3>8. L[j] >= 1
      BY <3>1, <3>3, <3>4, <3>5
    <3> QED  BY <3>7, <3>8
  <2> QED  BY <2>2, <2>3
<1>5. k \in P
  <2> HIDE DEF P
  <2>1. k \in Nat
    OBVIOUS
  <2> QED  BY <1>4, <2>1, NumberInduction
<1>6. L[k] >= 1 /\ Len(B[k]) = L[k]
  BY <1>1, <1>5
<1>7. k # 0 => /\ k - 1 \in 0 .. Len(list) /\ list[k] \in EntryType
               /\ L[k] = L[k - 1] + EntryLen(list[k])
  BY <1>2
<1>8. k # 0 => EntryLen(list[k]) \in Nat /\ EntryLen(list[k]) >= 1
  BY <1>7, EntryIs, Zenon
<1> QED  BY <1>1, <1>3, <1>6, <1>7, <1>8, Zenon

(* An entry starts behind those before it. *)
LEMMA ListGrows ==
  ASSUME NEW list \in Seq(EntryType), NEW i \in 0 .. Len(list), NEW k \in 0 .. Len(list), i < k
  PROVE  ListLens(list)[i] < ListLens(list)[k]
<1> DEFINE L == ListLens(list)
           P == {j \in Nat : j <= Len(list) /\ i < j => L[i] < L[j]}
<1>1. Len(list) \in Nat /\ i \in Nat /\ k \in Nat /\ k <= Len(list)
  OBVIOUS
<1>2. ASSUME NEW j \in Nat, \A m \in Nat : m < j => m \in P  PROVE j \in P
  <2> SUFFICES ASSUME j <= Len(list), i < j  PROVE L[i] < L[j]
    OBVIOUS
  <2>1. j \in 0 .. Len(list) /\ j # 0 /\ j - 1 \in Nat /\ j - 1 < j /\ j - 1 <= Len(list)
    BY <1>1
  <2>2. L[j] = L[j - 1] + EntryLen(list[j]) /\ L[j - 1] \in Nat /\ EntryLen(list[j]) \in Nat /\ EntryLen(list[j]) >= 1
    BY <2>1, ListIs, Zenon
  <2>3. j - 1 \in P
    <3> HIDE DEF P
    <3> QED  BY <1>2, <2>1
  <2>4. i = j - 1 \/ i < j - 1
    BY <1>1, <2>1
  <2>5. L[i] \in Nat
    BY ListIs, Zenon
  <2>6. i = j - 1 \/ L[i] < L[j - 1]
    BY <2>1, <2>3, <2>4
  <2>7. L[i] = L[j - 1] \/ L[i] < L[j - 1]
    BY <2>6
  <2> HIDE DEF L, P
  <2> QED  BY <2>2, <2>5, <2>7
<1>3. k \in P
  <2> HIDE DEF P
  <2> QED  BY <1>1, <1>2, NumberInduction
<1> QED  BY <1>1, <1>3

(* What Serialize wrote of a list listTracer reads, entry by entry. *)
LEMMA ListRead ==
  ASSUME NEW img \in Bytes, NEW o \in Nat, NEW list \in Seq(EntryType),
         Holds(img, o, ListBytes(list)[Len(list)])
  PROVE  /\ SerialAt(img)[o].value = Len(list)
         /\ \A k \in 0 .. Len(list) : ListAt(img, o)[k] = o + ListLens(list)[k]
         /\ \A k \in 1 .. Len(list) : EntryAt(img, o + ListLens(list)[k - 1]).lid = list[k].lid
<1> DEFINE B == ListBytes(list)
           L == ListLens(list)
           n == Len(list)
           P == {j \in Nat : j <= n => Holds(img, o, B[n - j])}
<1>1. n \in Nat
  OBVIOUS
<1>2. ASSUME NEW j \in 0 .. n, j # 0
      PROVE  /\ j - 1 \in 0 .. n /\ list[j] \in EntryType
             /\ B[j - 1] \in Bytes /\ Len(B[j - 1]) = L[j - 1] /\ L[j - 1] \in Nat
             /\ EntryBytes(list[j]) \in Bytes
             /\ B[j] = B[j - 1] \o EntryBytes(list[j]) /\ L[j] = L[j - 1] + EntryLen(list[j])
             /\ EntryLen(list[j]) \in Nat
  <2>1. j - 1 \in 0 .. n /\ list[j] \in EntryType /\ L[j] = L[j - 1] + EntryLen(list[j]) /\ EntryLen(list[j]) \in Nat
    BY <1>2, ListIs, Zenon
  <2>2. B[j - 1] \in Bytes /\ Len(B[j - 1]) = L[j - 1] /\ L[j - 1] \in Nat
    BY <2>1, ListIs, Zenon
  <2>3. EntryBytes(list[j]) \in Bytes
    BY <2>1, EntryIs, Zenon
  <2>4. B[j] = B[j - 1] \o EntryBytes(list[j])
    BY <1>2, ListBytesIs, Zenon
  <2> QED  BY <2>1, <2>2, <2>3, <2>4, Zenon
<1> HIDE DEF n
<1>3. ASSUME NEW j \in Nat, \A m \in Nat : m < j => m \in P  PROVE j \in P
  <2> SUFFICES ASSUME j <= n  PROVE Holds(img, o, B[n - j])
    OBVIOUS
  <2>1. CASE j = 0
    <3>1. n - j = n
      BY <1>1, <2>1
    <3> QED  BY <3>1, Zenon DEF n
  <2>2. CASE j # 0
    <3> DEFINE i == n - j + 1
    <3>1. i \in 0 .. n /\ i # 0 /\ i = n - (j - 1) /\ i - 1 = n - j /\ j - 1 \in Nat /\ j - 1 < j /\ j - 1 <= n
      BY <1>1, <2>2
    <3>2. j - 1 \in P
      <4> HIDE DEF P
      <4> QED  BY <1>3, <3>1
    <3> HIDE DEF i
    <3>3. Holds(img, o, B[i])
      BY <3>1, <3>2
    <3> HIDE DEF B, L, P
    <3>4. B[i - 1] \in Bytes /\ EntryBytes(list[i]) \in Bytes /\ B[i] = B[i - 1] \o EntryBytes(list[i])
      BY <1>2, <3>1
    <3>5. Holds(img, o, B[i - 1] \o EntryBytes(list[i]))
      BY <3>3, <3>4, Zenon
    <3>6. Holds(img, o, B[i - 1])
      BY <3>4, <3>5, HoldsParts, Zenon
    <3> QED  BY <3>1, <3>6, Zenon
  <2> QED  BY <2>1, <2>2
<1>4. ASSUME NEW j \in 0 .. n  PROVE Holds(img, o, B[j])
  <2>1. n - j \in P
    <3>1. n - j \in Nat
      BY <1>1
    <3> HIDE DEF P
    <3> QED  BY <1>3, <3>1, NumberInduction
  <2>2. n - j \in Nat /\ n - j <= n /\ n - (n - j) = j
    BY <1>1
  <2> HIDE DEF B
  <2>3. Holds(img, o, B[n - (n - j)])
    BY <2>1, <2>2
  <2> QED  BY <2>2, <2>3, Zenon
<1> HIDE DEF P
<1>5. SerialAt(img)[o].value = n /\ SerialAt(img)[o].next = o + L[0]
  <2>1. 0 \in 0 .. n
    BY <1>1
  <2>2. B[0] = Serial[n] /\ L[0] = SerialLen[n]
    BY <2>1, ListBytesIs, ListLensIs, Zenon DEF n
  <2>3. Holds(img, o, Serial[n])
    BY <1>4, <2>1, <2>2, Zenon
  <2>4. SerialAt(img)[o] = [value |-> n, next |-> o + SerialLen[n]]
    BY <1>1, <2>3, SerialRead, Zenon
  <2> QED  BY <2>2, <2>4
<1>6. ASSUME NEW k \in 0 .. n, k # 0
      PROVE  /\ EntryAt(img, o + L[k - 1]).lid = list[k].lid
             /\ EntryAt(img, o + L[k - 1]).next = o + L[k]
  <2>1. /\ k - 1 \in 0 .. n /\ list[k] \in EntryType
        /\ B[k - 1] \in Bytes /\ Len(B[k - 1]) = L[k - 1] /\ L[k - 1] \in Nat
        /\ EntryBytes(list[k]) \in Bytes
        /\ B[k] = B[k - 1] \o EntryBytes(list[k]) /\ L[k] = L[k - 1] + EntryLen(list[k])
        /\ EntryLen(list[k]) \in Nat
    BY <1>2, <1>6
  <2>2. Holds(img, o, B[k - 1] \o EntryBytes(list[k]))
    BY <1>4, <2>1, Zenon
  <2>3. Holds(img, o + L[k - 1], EntryBytes(list[k]))
    BY <2>1, <2>2, HoldsParts, Zenon
  <2> HIDE DEF L, B
  <2>4. o + L[k - 1] \in Nat /\ o + L[k - 1] + EntryLen(list[k]) = o + L[k]
    BY <2>1
  <2> QED  BY <2>1, <2>3, <2>4, EntryRead, Zenon
<1> DEFINE A == ListAt(img, o)
           Q == {j \in Nat : j <= n => A[j] = o + L[j]}
<1>7. \A k \in 0 .. n : A[k] = IF k = 0 THEN SerialAt(img)[o].next ELSE EntryAt(img, A[k - 1]).next
  BY <1>5, ListAtIs, Zenon
<1> HIDE DEF A, L, B
<1>8. ASSUME NEW j \in Nat, \A m \in Nat : m < j => m \in Q  PROVE j \in Q
  <2> SUFFICES ASSUME j <= n  PROVE A[j] = o + L[j]
    OBVIOUS
  <2>1. j \in 0 .. n
    BY <1>1
  <2>2. CASE j = 0
    BY <1>5, <1>7, <2>1, <2>2, Zenon
  <2>3. CASE j # 0
    <3>1. j - 1 \in Nat /\ j - 1 < j /\ j - 1 <= n
      BY <1>1, <2>1, <2>3
    <3>2. j - 1 \in Q
      <4> HIDE DEF Q
      <4> QED  BY <1>8, <3>1
    <3>3. A[j - 1] = o + L[j - 1]
      BY <3>1, <3>2
    <3>4. A[j] = EntryAt(img, A[j - 1]).next
      BY <1>7, <2>1, <2>3, Zenon
    <3>5. EntryAt(img, o + L[j - 1]).next = o + L[j]
      BY <1>6, <2>1, <2>3
    <3> QED  BY <3>3, <3>4, <3>5, Zenon
  <2> QED  BY <2>2, <2>3
<1>9. ASSUME NEW k \in 0 .. n  PROVE A[k] = o + L[k]
  <2>1. k \in Nat /\ k <= n
    BY <1>1
  <2>2. k \in Q
    <3> HIDE DEF Q
    <3> QED  BY <1>8, <2>1, NumberInduction
  <2> QED  BY <2>1, <2>2
<1>10. \A k \in 1 .. n : EntryAt(img, o + L[k - 1]).lid = list[k].lid
  <2> SUFFICES ASSUME NEW k \in 1 .. n  PROVE EntryAt(img, o + L[k - 1]).lid = list[k].lid
    OBVIOUS
  <2>1. k \in 0 .. n /\ k # 0
    BY <1>1
  <2> QED  BY <1>6, <2>1
<1> QED  BY <1>5, <1>9, <1>10, Zenon DEF A, L, n

-------------------------------------------------------------------------------
(* The tree that is traversed. *)

Grown == TreeInv /\ Keyed /\ index \in BOOLEAN

(* A vector without repetition is no longer than what it is taken from. *)
LEMMA NoLongerThan ==
  ASSUME NEW cs, NEW n \in Nat, NEW T, IsFiniteSet(T), \A i \in 1 .. n : cs[i] \in T,
         \A i, j \in 1 .. n : i < j => cs[i] # cs[j]
  PROVE  n <= Cardinality(T)
<1> DEFINE f == [i \in 1 .. n |-> cs[i]]
<1>1. f \in [1 .. n -> T] /\ \A i \in 1 .. n : f[i] = cs[i]
  OBVIOUS
<1> HIDE DEF f
<1>2. \A i, j \in 1 .. n : f[i] = f[j] => i = j
  <2> SUFFICES ASSUME NEW i \in 1 .. n, NEW j \in 1 .. n, i # j  PROVE f[i] # f[j]
    BY Zenon
  <2>1. i < j \/ j < i
    OBVIOUS
  <2> QED  BY <1>1, <2>1
<1>3. f \in Injection(1 .. n, T)
  BY <1>1, <1>2, Zenon DEF Injection, IsInjective
<1>4. IsFiniteSet(1 .. n) /\ Cardinality(1 .. n) = n
  <2>1. IsFiniteSet(1 .. n) /\ Cardinality(1 .. n) = IF 1 > n THEN 0 ELSE n - 1 + 1
    BY FS_Interval
  <2> QED  BY <2>1
<1>5. Cardinality(1 .. n) <= Cardinality(T)
  BY <1>3, FS_Injection, Zenon
<1> QED  BY <1>4, <1>5

(* A child and its character. *)
LEMMA KidIs ==
  ASSUME Grown, NEW p \in nodes, NEW i \in 1 .. Len(nested[p])
  PROVE  /\ Kid(p, i) \in nodes /\ Len(Kid(p, i)) = Len(p) + 1 /\ Len(Kid(p, i)) < SizeMod
         /\ Last(Kid(p, i)) = nested[p][i] /\ nested[p][i] \in 0 .. 255
         /\ ~index => nested[p][i] \in Letters
<1> DEFINE c == nested[p][i]
           k == Append(p, c)
<1>1. p \in Seq(Chars) /\ Len(p) \in Nat /\ nested[p] \in Seq(Chars)
  BY DEF Grown, TreeInv, TreeTypeOK
<1>2. c \in Chars
  BY <1>1, ElementOfSeq
<1>3. k \in nodes
  BY DEF Grown, TreeInv, Linked
<1> HIDE DEF c
<1>4. Len(k) = Len(p) + 1 /\ k[Len(p) + 1] = c /\ k # <<>> /\ k[Len(k)] = c
  BY <1>1, <1>2
<1>5. Len(k) < SizeMod
  BY <1>3, NodesAreShort DEF Grown
<1>6. ~index => c \in Letters
  <2> SUFFICES ASSUME ~index  PROVE c \in Letters
    OBVIOUS
  <2>1. index = FALSE
    BY DEF Grown
  <2>2. k \in nodes \ {<<>>}
    BY <1>3, <1>4
  <2> HIDE DEF k
  <2>3. PICK key \in KeysOf[FALSE] : Len(k) <= Len(key) /\ \A j \in 1 .. Len(k) : k[j] = key[j]
    BY <2>1, <2>2 DEF Grown, Keyed
  <2>4. key \in Seq(Chars)
    BY <2>1, KeysOfTree DEF Grown
  <2>5. Len(p) + 1 \in 1 .. Len(k) /\ Len(p) + 1 \in 1 .. Len(key)
    BY <1>1, <1>4, <2>3, <2>4
  <2>6. c = key[Len(p) + 1]
    BY <1>4, <2>3, <2>5
  <2>7. c \in ToSet(key)
    <3>1. Len(p) + 1 \in DOMAIN key
      BY <2>4, <2>5
    <3> QED  BY <2>6, <3>1 DEF ToSet
  <2> QED  BY <2>3, <2>7 DEF Letters
<1> QED  BY <1>2, <1>3, <1>4, <1>5, <1>6, CharsAssumption DEF Kid, Last, c

(* No node has more children than its count can tell. *)
LEMMA FewChildren ==
  ASSUME Grown, NEW p \in nodes
  PROVE  /\ Len(nested[p]) \in Nat /\ Len(nested[p]) <= 256
         /\ ~index => Len(nested[p]) < 128
<1> DEFINE n == Len(nested[p])
<1>1. nested[p] \in Seq(Chars) /\ n \in Nat
  BY DEF Grown, TreeInv, TreeTypeOK
<1>2. \A i, j \in 1 .. n : i < j => nested[p][i] # nested[p][j]
  <2> SUFFICES ASSUME NEW i \in 1 .. n, NEW j \in 1 .. n, i < j  PROVE nested[p][i] # nested[p][j]
    OBVIOUS
  <2>1. nested[p][i] > nested[p][j]
    BY DEF Grown, TreeInv, Descending
  <2>2. nested[p][i] \in 0 .. 255 /\ nested[p][j] \in 0 .. 255
    BY KidIs
  <2>3. \A a, b \in 0 .. 255 : a > b => a # b
    OBVIOUS
  <2> QED  BY <2>1, <2>2, <2>3, Zenon
<1>3. n <= 256
  <2>1. IsFiniteSet(0 .. 255) /\ Cardinality(0 .. 255) = IF 0 > 255 THEN 0 ELSE 255 - 0 + 1
    <3>1. 0 \in Int /\ 255 \in Int
      OBVIOUS
    <3> QED  BY <3>1, FS_Interval, Zenon
  <2>2. \A i \in 1 .. n : nested[p][i] \in 0 .. 255
    BY KidIs, Zenon
  <2>3. n <= Cardinality(0 .. 255)
    BY <1>1, <1>2, <2>1, <2>2, NoLongerThan, Zenon
  <2>4. Cardinality(0 .. 255) = 256
    BY <2>1
  <2> HIDE DEF n
  <2> QED  BY <2>3, <2>4
<1>4. ~index => n < 128
  <2> SUFFICES ASSUME ~index  PROVE n < 128
    OBVIOUS
  <2>1. \A i \in 1 .. n : nested[p][i] \in Letters
    BY KidIs, Zenon
  <2>2. n <= Cardinality(Letters)
    BY <1>1, <1>2, <2>1, FewLetters, NoLongerThan, Zenon
  <2>3. Cardinality(Letters) \in Nat
    BY FewLetters, FS_CardinalityType
  <2> HIDE DEF n
  <2> QED  BY <1>1, <2>2, <2>3, FewLetters
<1> QED  BY <1>1, <1>3, <1>4

(* A node's element. *)
LEMMA ElementIs ==
  ASSUME Grown, NEW p \in nodes
  PROVE  /\ p \in data => Entries[p] \in Seq(EntryType) /\ Entries[p] # <<>> /\ Len(Entries[p]) \in Nat
         /\ ElementBytes(p) \in Bytes /\ ElementLen(p) \in Nat /\ Len(ElementBytes(p)) = ElementLen(p)
         /\ p \in data => ElementLen(p) >= 1
<1>1. CASE p \in data
  <2>1. p \in KeysOf[index]
    BY <1>1 DEF Grown, TreeInv, ElementsAtKeys, Keyed
  <2>2. p \in Keys
    BY <2>1, KeysOfTree DEF Grown
  <2>3. Entries[p] \in Seq(EntryType) /\ Entries[p] # <<>> /\ Len(Entries[p]) \in Nat
    BY <2>2, EntriesAssumption DEF EntryType
  <2> DEFINE list == Entries[p]
  <2>4. ElementBytes(p) = ListBytes(list)[Len(list)] /\ ElementLen(p) = ListLens(list)[Len(list)]
    BY <1>1, Zenon DEF ElementBytes, ElementLen
  <2>5. Len(list) \in 0 .. Len(list)
    BY <2>3
  <2> HIDE DEF list
  <2>6. list \in Seq(EntryType)
    BY <2>3 DEF list
  <2>7. /\ ListBytes(list)[Len(list)] \in Bytes /\ ListLens(list)[Len(list)] \in Nat
        /\ ListLens(list)[Len(list)] >= 1 /\ Len(ListBytes(list)[Len(list)]) = ListLens(list)[Len(list)]
    BY <2>5, <2>6, ListIs, Zenon
  <2> QED  BY <2>3, <2>4, <2>7, Zenon
<1>2. CASE p \notin data
  <2>1. ElementBytes(p) = <<>> /\ ElementLen(p) = 0
    BY <1>2, Zenon DEF ElementBytes, ElementLen
  <2>2. <<>> \in Bytes /\ Len(<<>>) = 0
    BY DEF Bytes
  <2> QED  BY <1>2, <2>1, <2>2
<1> QED  BY <1>1, <1>2

(* What is left of a visit: the children passed, and the depth below. *)
VisitSize(x) == (SizeMod - Len(x[1])) * 300 + x[2]

(* The traversals come nearer to their ends: to a node's first child, or down. *)
LEMMA VisitStep ==
  ASSUME Grown, NEW x \in Visits
  PROVE  /\ x = <<x[1], x[2]>> /\ x[1] \in nodes /\ x[2] \in Nat /\ x[2] <= Len(nested[x[1]])
         /\ VisitSize(x) \in Nat
         /\ x[2] # 0 =>
              LET back == <<x[1], x[2] - 1>>
                  kid == Kid(x[1], x[2])
              IN /\ back \in Visits /\ VisitSize(back) < VisitSize(x)
                 /\ kid \in nodes /\ All(kid) \in Visits /\ VisitSize(All(kid)) < VisitSize(x)
                 /\ Last(kid) \in 0 .. 255
<1> DEFINE p == x[1]
           i == x[2]
<1>1. x = <<p, i>> /\ p \in nodes /\ i \in Nat /\ i <= Len(nested[p])
  BY DEF Visits
<1>2. Len(p) \in Nat /\ Len(p) < SizeMod /\ SizeMod \in Nat
  BY <1>1, NodesAreShort, WordsAssumption DEF Grown
<1>3. VisitSize(x) = (SizeMod - Len(p)) * 300 + i
  BY DEF VisitSize
<1> HIDE DEF p, i
<1>4. VisitSize(x) \in Nat
  BY <1>1, <1>2, <1>3
<1>5. ASSUME i # 0
      PROVE  LET back == <<p, i - 1>>
                 kid == Kid(p, i)
             IN /\ back \in Visits /\ VisitSize(back) < VisitSize(x)
                /\ kid \in nodes /\ All(kid) \in Visits /\ VisitSize(All(kid)) < VisitSize(x)
                /\ Last(kid) \in 0 .. 255
  <2> DEFINE back == <<p, i - 1>>
             kid == Kid(p, i)
             n == Len(nested[kid])
  <2>1. Len(nested[p]) \in Nat
    BY <1>1, FewChildren
  <2>2. i \in 1 .. Len(nested[p]) /\ i - 1 \in Nat /\ i - 1 <= Len(nested[p])
    BY <1>1, <1>5, <2>1
  <2>3. back \in Visits
    BY <1>1, <2>2 DEF Visits
  <2>4. VisitSize(back) = (SizeMod - Len(p)) * 300 + (i - 1)
    BY DEF VisitSize
  <2>5. VisitSize(back) < VisitSize(x)
    <3> HIDE DEF back
    <3> QED  BY <1>1, <1>2, <1>3, <2>4
  <2>6. kid \in nodes /\ Len(kid) = Len(p) + 1 /\ Last(kid) \in 0 .. 255
    <3>1. /\ Kid(p, i) \in nodes /\ Len(Kid(p, i)) = Len(p) + 1
          /\ Last(Kid(p, i)) = nested[p][i] /\ nested[p][i] \in 0 .. 255
      BY <1>1, <2>2, KidIs
    <3> QED  BY <3>1, Zenon
  <2> HIDE DEF kid
  <2>7. n \in Nat /\ n <= 256
    BY <2>6, FewChildren
  <2>8. All(kid) \in Visits
    BY <2>6, <2>7 DEF Visits, All
  <2>9. VisitSize(All(kid)) = (SizeMod - (Len(p) + 1)) * 300 + n
    BY <2>6 DEF VisitSize, All
  <2> HIDE DEF n
  <2>10. VisitSize(All(kid)) < VisitSize(x)
    BY <1>1, <1>2, <1>3, <1>5, <2>7, <2>9
  <2> QED  BY <2>3, <2>5, <2>6, <2>8, <2>10 DEF kid
<1> QED  BY <1>1, <1>4, <1>5 DEF p, i

-------------------------------------------------------------------------------
(* The image and its length. *)

(* What the length stored with a child counts for. *)
LEMMA KidLenIs ==
  ASSUME NEW l \in Nat
  PROVE  KidLen(l) = SerialLen[l] + l + 1 /\ SerialLen[l] \in Nat /\ KidLen(l) \in Nat /\ KidLen(l) >= 2
<1>1. SerialLen[l] \in Nat /\ SerialLen[l] >= 1
  BY SerialHolds
<1> QED  BY <1>1 DEF KidLen

(* The count of a node. *)
LEMMA CountIs ==
  ASSUME Grown, NEW p \in nodes
  PROVE  /\ StoreCount(p) \in Bytes /\ Len(StoreCount(p)) = CountBytes
         /\ CountBytes \in Nat /\ CountBytes >= 1
<1>1. Len(nested[p]) \in Nat
  BY FewChildren
<1> DEFINE n == Len(nested[p])
           v == n + (IF p \in data THEN Upper ELSE 0)
<1>2. v \in Nat
  <2>1. (IF p \in data THEN Upper ELSE 0) \in Nat
    BY DEF Upper
  <2> QED  BY <1>1, <2>1
<1> HIDE DEF v
<1>3. v % 256 \in 0 .. 255 /\ (v \div 256) % 256 \in 0 .. 255
  <2>1. v \div 256 \in Nat
    BY <1>2
  <2>2. v % 256 \in 0 .. 255
    BY <1>2
  <2>3. (v \div 256) % 256 \in 0 .. 255
    BY <2>1
  <2> QED  BY <2>2, <2>3
<1>4. StoreCount(p) = IF index THEN <<v % 256, (v \div 256) % 256>> ELSE <<v % 256>>
  BY DEF StoreCount, v
<1>5. CASE index
  <2>1. StoreCount(p) = <<v % 256, (v \div 256) % 256>> /\ CountBytes = 2
    BY <1>4, <1>5 DEF CountBytes
  <2> QED  BY <1>3, <2>1 DEF Bytes
<1>6. CASE ~index
  <2>1. StoreCount(p) = <<v % 256>> /\ CountBytes = 1
    BY <1>4, <1>6 DEF CountBytes
  <2> QED  BY <1>3, <2>1 DEF Bytes
<1> QED  BY <1>5, <1>6

(* The length of a node's image up to a child. *)
LEMMA BufLensIs ==
  ASSUME Grown
  PROVE  /\ BufLens \in [Visits -> Nat]
         /\ \A x \in Visits : BufLens[x] =
              IF x[2] = 0 THEN CountBytes
              ELSE BufLens[<<x[1], x[2] - 1>>]
                     + KidLen(BufLens[All(Kid(x[1], x[2]))] + ElementLen(Kid(x[1], x[2])))
<1> DEFINE S == Visits
           V == Nat
           size == [x \in S |-> VisitSize(x)]
           body(x, f) ==
             IF x[2] = 0 THEN CountBytes
             ELSE f[<<x[1], x[2] - 1>>] + KidLen(f[All(Kid(x[1], x[2]))] + ElementLen(Kid(x[1], x[2])))
           Is(f) == f = [x \in S |-> body(x, f)]
           G == [y \in S \X [S -> V] |-> body(y[1], y[2])]
<1>1. V # {} /\ size \in [S -> Nat] /\ \A x \in S : size[x] = VisitSize(x)
  <2>1. \A x \in S : VisitSize(x) \in Nat
    BY VisitStep, Zenon
  <2> HIDE DEF S
  <2>2. size \in [S -> Nat] /\ \A x \in S : size[x] = VisitSize(x)
    BY <2>1
  <2>3. V # {}
    BY DEF V
  <2> QED  BY <2>2, <2>3, Zenon
<1>2. ASSUME NEW x \in S, NEW f \in [S -> V]  PROVE body(x, f) \in V
  <2>1. x[1] \in nodes /\ x[2] \in Nat
    BY VisitStep, Zenon
  <2>2. CASE x[2] = 0
    BY <2>1, <2>2, CountIs, Zenon DEF V
  <2>3. CASE x[2] # 0
    <3> DEFINE back == <<x[1], x[2] - 1>>
               kid == Kid(x[1], x[2])
    <3>1. back \in S /\ kid \in nodes /\ All(kid) \in S /\ Last(kid) \in 0 .. 255
      BY <2>3, VisitStep, Zenon
    <3> HIDE DEF kid, S, V
    <3>2. f[back] \in V /\ f[All(kid)] \in V
      BY <3>1, Zenon
    <3>3. f[back] \in Nat /\ f[All(kid)] \in Nat
      BY <3>2 DEF V
    <3>4. ElementLen(kid) \in Nat
      BY <3>1, ElementIs, Zenon
    <3>5. f[All(kid)] + ElementLen(kid) \in Nat
      BY <3>3, <3>4
    <3>6. KidLen(f[All(kid)] + ElementLen(kid)) \in Nat
      BY <3>5, KidLenIs, Zenon
    <3>7. f[back] + KidLen(f[All(kid)] + ElementLen(kid)) \in Nat
      BY <3>3, <3>6
    <3> QED  BY <2>3, <3>7, Zenon DEF kid, V
  <2> HIDE DEF body
  <2> QED  BY <2>2, <2>3, Zenon
<1>3. ASSUME NEW x \in S, NEW g, NEW h \in [S -> V], \A y \in S : size[y] < size[x] => g[y] = h[y]
      PROVE  body(x, g) = body(x, h)
  <2>1. x[2] # 0 =>
          /\ <<x[1], x[2] - 1>> \in S /\ VisitSize(<<x[1], x[2] - 1>>) < VisitSize(x)
          /\ All(Kid(x[1], x[2])) \in S /\ VisitSize(All(Kid(x[1], x[2]))) < VisitSize(x)
    BY VisitStep, Zenon
  <2>2. x[2] # 0 =>
          /\ size[<<x[1], x[2] - 1>>] < size[x]
          /\ size[All(Kid(x[1], x[2]))] < size[x]
    <3> HIDE DEF S, size
    <3> QED  BY <1>1, <2>1, Zenon
  <2>3. x[2] # 0 =>
          /\ g[<<x[1], x[2] - 1>>] = h[<<x[1], x[2] - 1>>]
          /\ g[All(Kid(x[1], x[2]))] = h[All(Kid(x[1], x[2]))]
    <3> HIDE DEF S, size
    <3> QED  BY <1>3, <2>1, <2>2, Zenon
  <2> QED  BY <2>3, Zenon
<1> HIDE DEF body, V, size, S
<1>4. \A x \in S, f \in [S -> V] : G[<<x, f>>] = body(x, f) /\ G[<<x, f>>] \in V
  BY <1>2
<1>5. G \in [S \X [S -> V] -> V]
  <2> DEFINE T == [S -> V]
  <2>1. \A y \in S \X T : \E x \in S, f \in T : y = <<x, f>>
    <3> HIDE DEF T
    <3> QED  OBVIOUS
  <2>2. \A y \in S \X T : G[y] \in V
    <3>1. \A x \in S, f \in T : G[<<x, f>>] \in V
      BY <1>4
    <3> HIDE DEF G, T
    <3> QED  BY <2>1, <3>1, Zenon
  <2> HIDE DEF T
  <2> QED  BY <2>2 DEF T, G
<1> HIDE DEF G
<1>6. Recursion(S, V, size, G)
  <2>1. ASSUME NEW x \in S, NEW g \in [S -> V], NEW h \in [S -> V],
               \A y \in S : size[y] < size[x] => g[y] = h[y]
        PROVE  G[<<x, g>>] = G[<<x, h>>]
    <3>1. body(x, g) = body(x, h)
      BY <1>3, <2>1, Zenon
    <3> QED  BY <1>4, <3>1, Zenon
  <2> QED  BY <1>1, <1>5, <2>1, Zenon DEF Recursion
<1>7. PICK h \in [S -> V] : \A x \in S : h[x] = G[<<x, h>>]
  BY <1>6, RecursionSolved
<1>8. \A x \in S : h[x] = body(x, h)
  BY <1>4, <1>7, Zenon
<1>9. \A x \in S : BufLens[x] = body(x, BufLens)
  <2>1. BufLens = CHOOSE f : Is(f)
    BY DEF BufLens, body, S
  <2>2. Is(h)
    BY <1>7, <1>8
  <2> HIDE DEF Is
  <2>3. Is(BufLens)
    BY <2>1, <2>2, Zenon
  <2> USE DEF Is
  <2> QED  BY <2>3
<1>10. DOMAIN BufLens = S /\ BufLens = [x \in S |-> BufLens[x]]
  <2>1. BufLens = CHOOSE f : Is(f)
    BY DEF BufLens, body, S
  <2>2. Is(h)
    BY <1>7, <1>8
  <2> HIDE DEF Is
  <2>3. Is(BufLens)
    BY <2>1, <2>2, Zenon
  <2> USE DEF Is
  <2> QED  BY <2>3
<1>11. \A x \in S : BufLens[x] = h[x]
  <2>1. ASSUME NEW x \in S, \A y \in S : size[y] < size[x] => BufLens[y] = h[y]
        PROVE  BufLens[x] = h[x]
    <3>1. body(x, BufLens) = body(x, h)
      BY <1>3, <1>7, <2>1, Zenon
    <3> QED  BY <1>8, <1>9, <3>1, Zenon
  <2> DEFINE P == {x \in S : BufLens[x] = h[x]}
  <2>2. \A x \in S : (\A y \in S : size[y] < size[x] => y \in P) => x \in P
    BY <2>1
  <2>3. size \in [S -> Nat]
    BY <1>1
  <2>4. S \subseteq P
    <3> HIDE DEF P, Is
    <3> QED  BY <2>2, <2>3, SizeInduction, Zenon
  <2> QED  BY <2>4
<1>12. BufLens \in [S -> V]
  BY <1>7, <1>10, <1>11
<1> QED
  <2>1. \A x \in Visits : BufLens[x] = body(x, BufLens)
    BY <1>9 DEF S
  <2> QED  BY <1>12, <2>1, Zenon DEF body, V, S

(* The length of a node's image, with its element. *)
LEMMA BufLenIs ==
  ASSUME Grown, NEW p \in nodes
  PROVE  All(p) \in Visits /\ BufLens[All(p)] \in Nat /\ BufLen(p) \in Nat
<1>1. All(p) \in Visits
  <2>1. Len(nested[p]) \in Nat
    BY FewChildren
  <2> QED  BY <2>1 DEF Visits, All
<1>2. BufLens[All(p)] \in Nat
  BY <1>1, BufLensIs, Zenon
<1>3. ElementLen(p) \in Nat
  BY ElementIs, Zenon
<1> QED  BY <1>1, <1>2, <1>3 DEF BufLen

(* The bytes of a node's image up to a child. *)
LEMMA ImagesIs ==
  ASSUME Grown
  PROVE  /\ Images \in [Visits -> Bytes]
         /\ \A x \in Visits : Images[x] =
              IF x[2] = 0 THEN StoreCount(x[1])
              ELSE Images[<<x[1], x[2] - 1>>]
                     \o (<<Last(Kid(x[1], x[2]))>>
                           \o (Serial[BufLen(Kid(x[1], x[2]))]
                                 \o (Images[All(Kid(x[1], x[2]))] \o ElementBytes(Kid(x[1], x[2])))))
<1> DEFINE S == Visits
           V == Bytes
           size == [x \in S |-> VisitSize(x)]
           body(x, f) ==
             IF x[2] = 0 THEN StoreCount(x[1])
             ELSE f[<<x[1], x[2] - 1>>]
                    \o (<<Last(Kid(x[1], x[2]))>>
                          \o (Serial[BufLen(Kid(x[1], x[2]))]
                                \o (f[All(Kid(x[1], x[2]))] \o ElementBytes(Kid(x[1], x[2])))))
           Is(f) == f = [x \in S |-> body(x, f)]
           G == [y \in S \X [S -> V] |-> body(y[1], y[2])]
<1>1. V # {} /\ size \in [S -> Nat] /\ \A x \in S : size[x] = VisitSize(x)
  <2>1. \A x \in S : VisitSize(x) \in Nat
    BY VisitStep, Zenon
  <2> HIDE DEF S
  <2>2. size \in [S -> Nat] /\ \A x \in S : size[x] = VisitSize(x)
    BY <2>1
  <2>3. V # {}
    BY SerialHolds DEF V
  <2> QED  BY <2>2, <2>3, Zenon
<1>2. ASSUME NEW x \in S, NEW f \in [S -> V]  PROVE body(x, f) \in V
  <2>1. x[1] \in nodes /\ x[2] \in Nat
    BY VisitStep, Zenon
  <2>2. CASE x[2] = 0
    BY <2>1, <2>2, CountIs, Zenon DEF V
  <2>3. CASE x[2] # 0
    <3> DEFINE back == <<x[1], x[2] - 1>>
               kid == Kid(x[1], x[2])
    <3>1. back \in S /\ kid \in nodes /\ All(kid) \in S /\ Last(kid) \in 0 .. 255
      BY <2>3, VisitStep, Zenon
    <3> HIDE DEF kid, S, V
    <3>2. f[back] \in V /\ f[All(kid)] \in V
      BY <3>1, Zenon
    <3>3. f[back] \in Bytes /\ f[All(kid)] \in Bytes
      BY <3>2, Zenon DEF V
    <3>4. ElementBytes(kid) \in Bytes
      BY <3>1, ElementIs, Zenon
    <3>5. f[All(kid)] \o ElementBytes(kid) \in Bytes
      BY <3>3, <3>4, BytesJoin, Zenon
    <3>6. Serial[BufLen(kid)] \in Bytes
      BY <3>1, BufLenIs, SerialHolds, Zenon
    <3>7. Serial[BufLen(kid)] \o (f[All(kid)] \o ElementBytes(kid)) \in Bytes
      BY <3>5, <3>6, BytesJoin, Zenon
    <3>8. <<Last(kid)>> \in Bytes
      BY <3>1, OneByte, Zenon
    <3>9. <<Last(kid)>> \o (Serial[BufLen(kid)] \o (f[All(kid)] \o ElementBytes(kid))) \in Bytes
      BY <3>7, <3>8, BytesJoin, Zenon
    <3>10. f[back] \o (<<Last(kid)>> \o (Serial[BufLen(kid)] \o (f[All(kid)] \o ElementBytes(kid)))) \in Bytes
      BY <3>3, <3>9, BytesJoin, Zenon
    <3> QED  BY <2>3, <3>10, Zenon DEF kid, V
  <2> HIDE DEF body
  <2> QED  BY <2>2, <2>3, Zenon
<1>3. ASSUME NEW x \in S, NEW g, NEW h \in [S -> V], \A y \in S : size[y] < size[x] => g[y] = h[y]
      PROVE  body(x, g) = body(x, h)
  <2>1. x[2] # 0 =>
          /\ <<x[1], x[2] - 1>> \in S /\ VisitSize(<<x[1], x[2] - 1>>) < VisitSize(x)
          /\ All(Kid(x[1], x[2])) \in S /\ VisitSize(All(Kid(x[1], x[2]))) < VisitSize(x)
    BY VisitStep, Zenon
  <2>2. x[2] # 0 =>
          /\ size[<<x[1], x[2] - 1>>] < size[x]
          /\ size[All(Kid(x[1], x[2]))] < size[x]
    <3> HIDE DEF S, size
    <3> QED  BY <1>1, <2>1, Zenon
  <2>3. x[2] # 0 =>
          /\ g[<<x[1], x[2] - 1>>] = h[<<x[1], x[2] - 1>>]
          /\ g[All(Kid(x[1], x[2]))] = h[All(Kid(x[1], x[2]))]
    <3> HIDE DEF S, size
    <3> QED  BY <1>3, <2>1, <2>2, Zenon
  <2> QED  BY <2>3, Zenon
<1> HIDE DEF body, V, size, S
<1>4. \A x \in S, f \in [S -> V] : G[<<x, f>>] = body(x, f) /\ G[<<x, f>>] \in V
  BY <1>2
<1>5. G \in [S \X [S -> V] -> V]
  <2> DEFINE T == [S -> V]
  <2>1. \A y \in S \X T : \E x \in S, f \in T : y = <<x, f>>
    <3> HIDE DEF T
    <3> QED  OBVIOUS
  <2>2. \A y \in S \X T : G[y] \in V
    <3>1. \A x \in S, f \in T : G[<<x, f>>] \in V
      BY <1>4
    <3> HIDE DEF G, T
    <3> QED  BY <2>1, <3>1, Zenon
  <2> HIDE DEF T
  <2> QED  BY <2>2 DEF T, G
<1> HIDE DEF G
<1>6. Recursion(S, V, size, G)
  <2>1. ASSUME NEW x \in S, NEW g \in [S -> V], NEW h \in [S -> V],
               \A y \in S : size[y] < size[x] => g[y] = h[y]
        PROVE  G[<<x, g>>] = G[<<x, h>>]
    <3>1. body(x, g) = body(x, h)
      BY <1>3, <2>1, Zenon
    <3> QED  BY <1>4, <3>1, Zenon
  <2> QED  BY <1>1, <1>5, <2>1, Zenon DEF Recursion
<1>7. PICK h \in [S -> V] : \A x \in S : h[x] = G[<<x, h>>]
  BY <1>6, RecursionSolved
<1>8. \A x \in S : h[x] = body(x, h)
  BY <1>4, <1>7, Zenon
<1>9. \A x \in S : Images[x] = body(x, Images)
  <2>1. Images = CHOOSE f : Is(f)
    BY DEF Images, body, S
  <2>2. Is(h)
    BY <1>7, <1>8
  <2> HIDE DEF Is
  <2>3. Is(Images)
    BY <2>1, <2>2, Zenon
  <2> USE DEF Is
  <2> QED  BY <2>3
<1>10. DOMAIN Images = S /\ Images = [x \in S |-> Images[x]]
  <2>1. Images = CHOOSE f : Is(f)
    BY DEF Images, body, S
  <2>2. Is(h)
    BY <1>7, <1>8
  <2> HIDE DEF Is
  <2>3. Is(Images)
    BY <2>1, <2>2, Zenon
  <2> USE DEF Is
  <2> QED  BY <2>3
<1>11. \A x \in S : Images[x] = h[x]
  <2>1. ASSUME NEW x \in S, \A y \in S : size[y] < size[x] => Images[y] = h[y]
        PROVE  Images[x] = h[x]
    <3>1. body(x, Images) = body(x, h)
      BY <1>3, <1>7, <2>1, Zenon
    <3> QED  BY <1>8, <1>9, <3>1, Zenon
  <2> DEFINE P == {x \in S : Images[x] = h[x]}
  <2>2. \A x \in S : (\A y \in S : size[y] < size[x] => y \in P) => x \in P
    BY <2>1
  <2>3. size \in [S -> Nat]
    BY <1>1
  <2>4. S \subseteq P
    <3> HIDE DEF P, Is
    <3> QED  BY <2>2, <2>3, SizeInduction, Zenon
  <2> QED  BY <2>4
<1>12. Images \in [S -> V]
  BY <1>7, <1>10, <1>11
<1> QED
  <2>1. \A x \in Visits : Images[x] = body(x, Images)
    BY <1>9 DEF S
  <2> QED  BY <1>12, <2>1, Zenon DEF body, V, S

(* What holds of a visit when it holds of the nearer ones holds of all. *)
LEMMA VisitInduction ==
  ASSUME Grown, NEW P,
         \A x \in Visits : (\A y \in Visits : VisitSize(y) < VisitSize(x) => y \in P) => x \in P
  PROVE  Visits \subseteq P
<1> DEFINE size == [x \in Visits |-> VisitSize(x)]
<1>1. \A x \in Visits : VisitSize(x) \in Nat
  BY VisitStep, Zenon
<1>2. size \in [Visits -> Nat]
  BY <1>1
<1>3. \A x \in Visits : size[x] = VisitSize(x)
  OBVIOUS
<1> HIDE DEF size
<1>4. \A x \in Visits : (\A y \in Visits : size[y] < size[x] => y \in P) => x \in P
  BY <1>3, Zenon
<1> QED  BY <1>2, <1>4, SizeInduction, Zenon

(* The image of a child as it stands in its parent's. *)
KidImage(kid) == <<Last(kid)>> \o (Serial[BufLen(kid)] \o Image(kid))

(* GetBufLen tells the bytes Serialize writes. *)
LEMMA ImagesLens ==
  ASSUME Grown, NEW x \in Visits
  PROVE  Len(Images[x]) = BufLens[x]
<1> DEFINE P == {y \in Visits : Len(Images[y]) = BufLens[y]}
<1>1. ASSUME NEW y \in Visits, \A z \in Visits : VisitSize(z) < VisitSize(y) => z \in P  PROVE y \in P
  <2>1. y[1] \in nodes /\ y[2] \in Nat
    BY VisitStep, Zenon
  <2>2. CASE y[2] = 0
    <3>1. Images[y] = StoreCount(y[1]) /\ BufLens[y] = CountBytes
      BY <2>2, ImagesIs, BufLensIs, Zenon
    <3>2. Len(StoreCount(y[1])) = CountBytes
      BY <2>1, CountIs, Zenon
    <3>3. Len(Images[y]) = BufLens[y]
      BY <3>1, <3>2, Zenon
    <3> QED  BY <3>3
  <2>3. CASE y[2] # 0
    <3> DEFINE back == <<y[1], y[2] - 1>>
               kid == Kid(y[1], y[2])
               e == ElementBytes(kid)
               s == Serial[BufLen(kid)]
               k == Images[All(kid)]
               b == Images[back]
               c == <<Last(kid)>>
    <3>1. /\ back \in Visits /\ VisitSize(back) < VisitSize(y)
          /\ kid \in nodes /\ All(kid) \in Visits /\ VisitSize(All(kid)) < VisitSize(y)
          /\ Last(kid) \in 0 .. 255
      BY <2>3, VisitStep, Zenon
    <3>2. back \in P /\ All(kid) \in P
      <4> HIDE DEF P, back, kid
      <4> QED  BY <1>1, <3>1
    <3>3. Len(b) = BufLens[back] /\ Len(k) = BufLens[All(kid)]
      BY <3>2
    <3>4. Images[y] = b \o (c \o (s \o (k \o e)))
      BY <2>3, ImagesIs, Zenon
    <3>5. BufLens[y] = BufLens[back] + KidLen(BufLen(kid))
      BY <2>3, BufLensIs, Zenon DEF BufLen
    <3>6. b \in Bytes /\ k \in Bytes
      BY <3>1, ImagesIs, Zenon
    <3>7. e \in Bytes /\ Len(e) = ElementLen(kid)
      BY <3>1, ElementIs, Zenon
    <3>8. BufLen(kid) \in Nat /\ BufLen(kid) = BufLens[All(kid)] + ElementLen(kid)
      BY <3>1, BufLenIs, Zenon DEF BufLen
    <3>9. s \in Bytes /\ Len(s) = SerialLen[BufLen(kid)] /\ SerialLen[BufLen(kid)] \in Nat
      BY <3>8, SerialHolds, Zenon
    <3>10. c \in Bytes /\ Len(c) = 1
      BY <3>1, OneByte, Zenon
    <3>11. KidLen(BufLen(kid)) = SerialLen[BufLen(kid)] + BufLen(kid) + 1
      BY <3>8, KidLenIs, Zenon
    <3>12. BufLens[back] \in Nat
      BY <3>1, BufLensIs, Zenon
    <3> HIDE DEF b, c, s, k, e, back, kid, P
    <3>13. k \o e \in Bytes /\ Len(k \o e) = Len(k) + Len(e)
      BY <3>6, <3>7, BytesJoin, Zenon
    <3>14. s \o (k \o e) \in Bytes /\ Len(s \o (k \o e)) = Len(s) + Len(k \o e)
      BY <3>9, <3>13, BytesJoin, Zenon
    <3>15. c \o (s \o (k \o e)) \in Bytes /\ Len(c \o (s \o (k \o e))) = 1 + Len(s \o (k \o e))
      BY <3>10, <3>14, BytesJoin, Zenon
    <3>16. Len(Images[y]) = Len(b) + Len(c \o (s \o (k \o e)))
      BY <3>4, <3>6, <3>15, BytesJoin, Zenon
    <3>17. Len(k \o e) = BufLen(kid)
      BY <3>3, <3>7, <3>8, <3>13, Zenon
    <3>18. Len(Images[y]) = BufLens[back] + (1 + (SerialLen[BufLen(kid)] + BufLen(kid)))
      BY <3>3, <3>9, <3>14, <3>15, <3>16, <3>17, Zenon
    <3>19. Len(Images[y]) = BufLens[y]
      <4> DEFINE m == SerialLen[BufLen(kid)]
                 n == BufLen(kid)
                 o == BufLens[back]
      <4>1. m \in Nat /\ n \in Nat /\ o \in Nat
        BY <3>8, <3>9, <3>12
      <4> HIDE DEF m, n, o
      <4>2. o + (1 + (m + n)) = o + (m + n + 1)
        BY <4>1
      <4> QED  BY <3>5, <3>11, <3>18, <4>2, Zenon DEF m, n, o
    <3> QED  BY <3>19 DEF P
  <2> QED  BY <2>2, <2>3
<1>2. x \in P
  <2> HIDE DEF P
  <2>1. \A y \in Visits : (\A z \in Visits : VisitSize(z) < VisitSize(y) => z \in P) => y \in P
    BY <1>1
  <2> QED  BY <2>1, VisitInduction, Zenon
<1> QED  BY <1>2

(* Of a node. *)
LEMMA ImageLen ==
  ASSUME Grown, NEW p \in nodes
  PROVE  Image(p) \in Bytes /\ Len(Image(p)) = BufLen(p)
<1>1. All(p) \in Visits /\ BufLens[All(p)] \in Nat
  BY BufLenIs
<1>2. Images[All(p)] \in Bytes /\ Len(Images[All(p)]) = BufLens[All(p)]
  BY <1>1, ImagesIs, ImagesLens, Zenon
<1>3. ElementBytes(p) \in Bytes /\ Len(ElementBytes(p)) = ElementLen(p)
  BY ElementIs, Zenon
<1> QED  BY <1>2, <1>3, BytesJoin, Zenon DEF Image, BufLen

-------------------------------------------------------------------------------
(* Where the elements stand. *)

CallType == [key : Seq(0 .. 255), offset : Nat]

Traversal == [offset : Nat, calls : Seq(CallType)]

(* A path is a text of bytes. *)
LEMMA PathIs ==
  ASSUME Grown, NEW p \in nodes
  PROVE  p \in Seq(0 .. 255)
<1>1. p \in Seq(Chars)
  BY DEF Grown, TreeInv, TreeTypeOK
<1> QED  BY <1>1, CharsAssumption, SeqMonotonic, LenProperties

(* The action on an element. *)
LEMMA ActedIs ==
  ASSUME Grown, NEW p \in nodes, NEW kids \in Traversal
  PROVE  /\ Acted(p, kids).offset = kids.offset + ElementLen(p)
         /\ Acted(p, kids).calls = IF p \in data THEN Append(kids.calls, [key |-> p, offset |-> kids.offset])
                                   ELSE kids.calls
         /\ kids.offset \in Nat /\ kids.calls \in Seq(CallType)
         /\ Acted(p, kids).offset \in Nat /\ Acted(p, kids).calls \in Seq(CallType)
         /\ Acted(p, kids) \in Traversal
<1> DEFINE c == IF p \in data THEN Append(kids.calls, [key |-> p, offset |-> kids.offset]) ELSE kids.calls
<1>1. kids.offset \in Nat /\ kids.calls \in Seq(CallType)
  BY DEF Traversal
<1>2. Acted(p, kids) = [offset |-> kids.offset + ElementLen(p), calls |-> c]
  BY DEF Acted
<1>3. ElementLen(p) \in Nat
  BY ElementIs, Zenon
<1>4. [key |-> p, offset |-> kids.offset] \in CallType
  BY <1>1, PathIs DEF CallType
<1>5. c \in Seq(CallType)
  <2>1. Append(kids.calls, [key |-> p, offset |-> kids.offset]) \in Seq(CallType)
    BY <1>1, <1>4, AppendProperties, Zenon
  <2> QED  BY <1>1, <2>1, Zenon
<1>6. kids.offset + ElementLen(p) \in Nat
  BY <1>1, <1>3
<1> HIDE DEF c
<1>7. Acted(p, kids).offset = kids.offset + ElementLen(p) /\ Acted(p, kids).calls = c
  BY <1>2
<1>8. Acted(p, kids) \in Traversal
  BY <1>2, <1>5, <1>6 DEF Traversal
<1> QED  BY <1>1, <1>5, <1>6, <1>7, <1>8, Zenon DEF c

(* A traversal of calls and what follows them. *)
LEMMA TraversalJoins ==
  ASSUME NEW a \in Traversal, NEW b \in Seq(CallType)
  PROVE  /\ [a EXCEPT !.calls = b \o @] \in Traversal
         /\ [a EXCEPT !.calls = b \o @].offset = a.offset
         /\ [a EXCEPT !.calls = b \o @].calls = b \o a.calls
<1>1. a.offset \in Nat /\ a.calls \in Seq(CallType)
  BY DEF Traversal
<1>2. b \o a.calls \in Seq(CallType)
  BY <1>1, ConcatProperties, Zenon
<1> DEFINE c == b \o a.calls
<1>3. [a EXCEPT !.calls = b \o @] = [a EXCEPT !.calls = c]
  OBVIOUS
<1> HIDE DEF c
<1>4. c \in Seq(CallType)
  BY <1>2 DEF c
<1>5. [a EXCEPT !.calls = c] \in Traversal /\ [a EXCEPT !.calls = c].offset = a.offset /\ [a EXCEPT !.calls = c].calls = c
  BY <1>4 DEF Traversal
<1> QED  BY <1>3, <1>5, Zenon DEF c

(* From a way to the visit it is of. *)
LEMMA WayStep ==
  ASSUME Grown, NEW x \in Ways
  PROVE  /\ x = <<x[1], x[2], x[3]>> /\ x[1] \in nodes /\ x[2] \in Nat /\ x[3] \in Nat
         /\ <<x[1], x[2]>> \in Visits /\ VisitSize(x) \in Nat
         /\ VisitSize(x) = VisitSize(<<x[1], x[2]>>)
         /\ x[2] # 0 =>
              LET kid == Kid(x[1], x[2])
              IN /\ kid \in nodes
                 /\ <<x[1], x[2] - 1, x[3]>> \in Ways /\ VisitSize(<<x[1], x[2] - 1, x[3]>>) < VisitSize(x)
                 /\ \A o \in Nat : /\ <<kid, Len(nested[kid]), o>> \in Ways
                                   /\ VisitSize(<<kid, Len(nested[kid]), o>>) < VisitSize(x)
<1> DEFINE p == x[1]
           i == x[2]
           o == x[3]
<1>1. x = <<p, i, o>> /\ p \in nodes /\ i \in Nat /\ o \in Nat /\ i <= Len(nested[p])
  BY DEF Ways
<1> HIDE DEF p, i, o
<1> DEFINE v == <<p, i>>
<1>2. v \in Visits /\ v[1] = p /\ v[2] = i
  BY <1>1 DEF Visits
<1>3. VisitSize(x) = VisitSize(v)
  BY <1>1 DEF VisitSize
<1>4. VisitSize(v) \in Nat
  BY <1>2, VisitStep, Zenon
<1>5. ASSUME i # 0
      PROVE  LET kid == Kid(p, i)
             IN /\ kid \in nodes
                /\ <<p, i - 1, o>> \in Ways /\ VisitSize(<<p, i - 1, o>>) < VisitSize(x)
                /\ \A n \in Nat : /\ <<kid, Len(nested[kid]), n>> \in Ways
                                  /\ VisitSize(<<kid, Len(nested[kid]), n>>) < VisitSize(x)
  <2> DEFINE kid == Kid(p, i)
  <2>1. /\ <<p, i - 1>> \in Visits /\ VisitSize(<<p, i - 1>>) < VisitSize(v)
        /\ kid \in nodes /\ All(kid) \in Visits /\ VisitSize(All(kid)) < VisitSize(v)
    <3> HIDE DEF v
    <3>1. v[2] # 0
      BY <1>2, <1>5
    <3> QED  BY <1>2, <3>1, VisitStep, Zenon
  <2> HIDE DEF kid
  <2>2. <<p, i - 1, o>> \in Ways
    BY <1>1, <2>1 DEF Ways, Visits
  <2>3. VisitSize(<<p, i - 1, o>>) = VisitSize(<<p, i - 1>>)
    BY DEF VisitSize
  <2>4. ASSUME NEW n \in Nat
        PROVE  <<kid, Len(nested[kid]), n>> \in Ways /\ VisitSize(<<kid, Len(nested[kid]), n>>) = VisitSize(All(kid))
    BY <2>1 DEF Ways, Visits, VisitSize, All
  <2> QED  BY <1>3, <2>1, <2>2, <2>3, <2>4 DEF kid
<1> QED  BY <1>1, <1>2, <1>3, <1>4, <1>5 DEF p, i, o, v

(* What Enumerate comes to is what the definition says. *)
LEMMA EnumeratedIs ==
  ASSUME Grown
  PROVE  /\ Enumerated \in [Ways -> Traversal]
         /\ \A x \in Ways : Enumerated[x] =
              IF x[2] = 0 THEN [offset |-> x[3] + CountBytes, calls |-> <<>>]
              ELSE LET kid == Kid(x[1], x[2])
                       before == Enumerated[<<x[1], x[2] - 1, x[3]>>]
                       kids == Enumerated[<<kid, Len(nested[kid]), KidOffset(before.offset, kid)>>]
                   IN [Acted(kid, kids) EXCEPT !.calls = before.calls \o @]
<1> DEFINE S == Ways
           V == Traversal
           size == [x \in S |-> VisitSize(x)]
           body(x, f) ==
             IF x[2] = 0 THEN [offset |-> x[3] + CountBytes, calls |-> <<>>]
             ELSE LET kid == Kid(x[1], x[2])
                      before == f[<<x[1], x[2] - 1, x[3]>>]
                      kids == f[<<kid, Len(nested[kid]), KidOffset(before.offset, kid)>>]
                  IN [Acted(kid, kids) EXCEPT !.calls = before.calls \o @]
           Is(f) == f = [x \in S |-> body(x, f)]
           G == [y \in S \X [S -> V] |-> body(y[1], y[2])]
<1>1. V # {} /\ size \in [S -> Nat] /\ \A x \in S : size[x] = VisitSize(x)
  <2>1. \A x \in S : VisitSize(x) \in Nat
    BY WayStep, Zenon
  <2> HIDE DEF S
  <2>2. size \in [S -> Nat] /\ \A x \in S : size[x] = VisitSize(x)
    BY <2>1
  <2>3. [offset |-> 0, calls |-> <<>>] \in V
    BY DEF Traversal
  <2> QED  BY <2>2, <2>3, Zenon
<1>2. ASSUME NEW x \in S, NEW f \in [S -> V]  PROVE body(x, f) \in V
  <2>1. x[1] \in nodes /\ x[2] \in Nat /\ x[3] \in Nat
    BY WayStep, Zenon
  <2>2. CASE x[2] = 0
    <3>1. x[3] + CountBytes \in Nat
      BY <2>1, CountIs
    <3>2. \A n \in Nat : [offset |-> n, calls |-> <<>>] \in V
      BY DEF Traversal
    <3> QED  BY <2>2, <3>1, <3>2, Zenon
  <2>3. CASE x[2] # 0
    <3> DEFINE kid == Kid(x[1], x[2])
               before == f[<<x[1], x[2] - 1, x[3]>>]
               ko == KidOffset(before.offset, kid)
               kids == f[<<kid, Len(nested[kid]), ko>>]
    <3>1. /\ <<x[1], x[2] - 1, x[3]>> \in S /\ kid \in nodes
          /\ \A o \in Nat : <<kid, Len(nested[kid]), o>> \in S
      BY <2>3, WayStep, Zenon
    <3>2. before \in V
      <4> HIDE DEF S, V
      <4> QED  BY <3>1, Zenon
    <3>3. before.offset \in Nat /\ before.calls \in Seq(CallType)
      BY <3>2 DEF Traversal
    <3> HIDE DEF kid, before
    <3>4. ko \in Nat
      <4>1. BufLen(kid) \in Nat
        BY <3>1, BufLenIs, Zenon
      <4>2. SerialLen[BufLen(kid)] \in Nat
        BY <4>1, SerialHolds
      <4> QED  BY <3>3, <4>2 DEF KidOffset
    <3> HIDE DEF ko
    <3>5. kids \in Traversal
      <4> HIDE DEF S
      <4> QED  BY <3>1, <3>4, Zenon
    <3> HIDE DEF kids
    <3>6. Acted(kid, kids) \in Traversal
      BY <3>1, <3>5, ActedIs, Zenon
    <3>7. [Acted(kid, kids) EXCEPT !.calls = before.calls \o @] \in Traversal
      BY <3>3, <3>6, TraversalJoins, Zenon
    <3> QED  BY <2>3, <3>7, Zenon DEF kid, before, ko, kids
  <2> HIDE DEF body
  <2> QED  BY <2>2, <2>3, Zenon
<1>3. ASSUME NEW x \in S, NEW g, NEW h \in [S -> V], \A y \in S : size[y] < size[x] => g[y] = h[y]
      PROVE  body(x, g) = body(x, h)
  <2>1. x[2] # 0 =>
          LET kid == Kid(x[1], x[2])
          IN /\ <<x[1], x[2] - 1, x[3]>> \in S /\ VisitSize(<<x[1], x[2] - 1, x[3]>>) < VisitSize(x)
             /\ \A o \in Nat : /\ <<kid, Len(nested[kid]), o>> \in S
                               /\ VisitSize(<<kid, Len(nested[kid]), o>>) < VisitSize(x)
    BY WayStep, Zenon
  <2> DEFINE kid == Kid(x[1], x[2])
             back == <<x[1], x[2] - 1, x[3]>>
             ko == KidOffset(h[back].offset, kid)
  <2>2. x[2] # 0 => kid \in nodes
    BY WayStep, Zenon
  <2> HIDE DEF S, size, kid
  <2>3. x[2] # 0 => g[back] = h[back]
    BY <1>1, <1>3, <2>1, Zenon
  <2>4. x[2] # 0 => h[back] \in Traversal
    BY <2>1, Zenon DEF V
  <2>5. x[2] # 0 => ko \in Nat
    <3> SUFFICES ASSUME x[2] # 0  PROVE ko \in Nat
      OBVIOUS
    <3>1. h[back].offset \in Nat
      BY <2>4 DEF Traversal
    <3>2. BufLen(kid) \in Nat
      BY <2>2, BufLenIs, Zenon
    <3>3. SerialLen[BufLen(kid)] \in Nat
      BY <3>2, SerialHolds
    <3> QED  BY <3>1, <3>3 DEF KidOffset
  <2>6. x[2] # 0 => g[<<kid, Len(nested[kid]), ko>>] = h[<<kid, Len(nested[kid]), ko>>]
    BY <1>1, <1>3, <2>1, <2>5, Zenon DEF kid
  <2> QED  BY <2>3, <2>6, Zenon DEF kid
<1> HIDE DEF body, V, size, S
<1>4. \A x \in S, f \in [S -> V] : G[<<x, f>>] = body(x, f) /\ G[<<x, f>>] \in V
  BY <1>2
<1>5. G \in [S \X [S -> V] -> V]
  <2> DEFINE T == [S -> V]
  <2>1. \A y \in S \X T : \E x \in S, f \in T : y = <<x, f>>
    <3> HIDE DEF T
    <3> QED  OBVIOUS
  <2>2. \A y \in S \X T : G[y] \in V
    <3>1. \A x \in S, f \in T : G[<<x, f>>] \in V
      BY <1>4
    <3> HIDE DEF G, T
    <3> QED  BY <2>1, <3>1, Zenon
  <2> HIDE DEF T
  <2> QED  BY <2>2 DEF T, G
<1> HIDE DEF G
<1>6. Recursion(S, V, size, G)
  <2>1. ASSUME NEW x \in S, NEW g \in [S -> V], NEW h \in [S -> V],
               \A y \in S : size[y] < size[x] => g[y] = h[y]
        PROVE  G[<<x, g>>] = G[<<x, h>>]
    <3>1. body(x, g) = body(x, h)
      BY <1>3, <2>1, Zenon
    <3> QED  BY <1>4, <3>1, Zenon
  <2> QED  BY <1>1, <1>5, <2>1, Zenon DEF Recursion
<1>7. PICK h \in [S -> V] : \A x \in S : h[x] = G[<<x, h>>]
  BY <1>6, RecursionSolved
<1>8. \A x \in S : h[x] = body(x, h)
  BY <1>4, <1>7, Zenon
<1>9. \A x \in S : Enumerated[x] = body(x, Enumerated)
  <2>1. Enumerated = CHOOSE f : Is(f)
    BY DEF Enumerated, Ways, body, S
  <2>2. Is(h)
    BY <1>7, <1>8
  <2> HIDE DEF Is
  <2>3. Is(Enumerated)
    BY <2>1, <2>2, Zenon
  <2> USE DEF Is
  <2> QED  BY <2>3
<1>10. DOMAIN Enumerated = S /\ Enumerated = [x \in S |-> Enumerated[x]]
  <2>1. Enumerated = CHOOSE f : Is(f)
    BY DEF Enumerated, Ways, body, S
  <2>2. Is(h)
    BY <1>7, <1>8
  <2> HIDE DEF Is
  <2>3. Is(Enumerated)
    BY <2>1, <2>2, Zenon
  <2> USE DEF Is
  <2> QED  BY <2>3
<1>11. \A x \in S : Enumerated[x] = h[x]
  <2>1. ASSUME NEW x \in S, \A y \in S : size[y] < size[x] => Enumerated[y] = h[y]
        PROVE  Enumerated[x] = h[x]
    <3>1. body(x, Enumerated) = body(x, h)
      BY <1>3, <1>7, <2>1, Zenon
    <3> QED  BY <1>8, <1>9, <3>1, Zenon
  <2> DEFINE P == {x \in S : Enumerated[x] = h[x]}
  <2>2. \A x \in S : (\A y \in S : size[y] < size[x] => y \in P) => x \in P
    BY <2>1
  <2>3. size \in [S -> Nat]
    BY <1>1
  <2>4. S \subseteq P
    <3> HIDE DEF P, Is
    <3> QED  BY <2>2, <2>3, SizeInduction, Zenon
  <2> QED  BY <2>4
<1>12. Enumerated \in [S -> V]
  BY <1>7, <1>10, <1>11
<1> QED
  <2>1. \A x \in Ways : Enumerated[x] = body(x, Enumerated)
    BY <1>9 DEF S
  <2> QED  BY <1>12, <2>1, Zenon DEF body, V, S

(* One child more, as a step of the traversal. *)
LEMMA EnumeratedStep ==
  ASSUME Grown, NEW x \in Ways, x[2] # 0
  PROVE  LET kid == Kid(x[1], x[2])
             before == Enumerated[<<x[1], x[2] - 1, x[3]>>]
             start == KidOffset(before.offset, kid)
             kids == Enumerated[<<kid, Len(nested[kid]), start>>]
         IN /\ before \in Traversal /\ kids \in Traversal /\ start \in Nat
            /\ Enumerated[x].offset = Acted(kid, kids).offset
            /\ Enumerated[x].calls = before.calls \o Acted(kid, kids).calls
<1> DEFINE kid == Kid(x[1], x[2])
           before == Enumerated[<<x[1], x[2] - 1, x[3]>>]
           start == KidOffset(before.offset, kid)
           kids == Enumerated[<<kid, Len(nested[kid]), start>>]
<1>1. /\ <<x[1], x[2] - 1, x[3]>> \in Ways /\ kid \in nodes
      /\ \A o \in Nat : <<kid, Len(nested[kid]), o>> \in Ways
  BY WayStep, Zenon
<1>2. before \in Traversal
  BY <1>1, EnumeratedIs, Zenon
<1>3. before.offset \in Nat /\ before.calls \in Seq(CallType)
  BY <1>2 DEF Traversal
<1>4. Enumerated[x] = [Acted(kid, kids) EXCEPT !.calls = before.calls \o @]
  BY EnumeratedIs, Zenon
<1> HIDE DEF before, kid
<1>5. start \in Nat
  <2>1. BufLen(kid) \in Nat
    BY <1>1, BufLenIs, Zenon
  <2>2. SerialLen[BufLen(kid)] \in Nat
    BY <2>1, SerialHolds
  <2> QED  BY <1>3, <2>2 DEF KidOffset
<1> HIDE DEF start
<1>6. kids \in Traversal
  BY <1>1, <1>5, EnumeratedIs, Zenon
<1> HIDE DEF kids
<1>7. Acted(kid, kids) \in Traversal
  BY <1>1, <1>6, ActedIs, Zenon
<1>8. Enumerated[x].offset = Acted(kid, kids).offset /\ Enumerated[x].calls = before.calls \o Acted(kid, kids).calls
  BY <1>3, <1>4, <1>7, TraversalJoins, Zenon
<1> QED  BY <1>2, <1>5, <1>6, <1>8, Zenon DEF kid, before, kids, start

(* Enumerate counts the bytes that Serialize writes. *)
LEMMA OffsetsAre ==
  ASSUME Grown, NEW x \in Ways
  PROVE  Enumerated[x].offset = x[3] + BufLens[<<x[1], x[2]>>]
<1> DEFINE size == [y \in Ways |-> VisitSize(y)]
           P == {y \in Ways : Enumerated[y].offset = y[3] + BufLens[<<y[1], y[2]>>]}
<1>1. \A y \in Ways : VisitSize(y) \in Nat
  BY WayStep, Zenon
<1>2. size \in [Ways -> Nat] /\ \A y \in Ways : size[y] = VisitSize(y)
  BY <1>1
<1> HIDE DEF size
<1>3. ASSUME NEW y \in Ways, \A z \in Ways : VisitSize(z) < VisitSize(y) => z \in P  PROVE y \in P
  <2>1. y[1] \in nodes /\ y[2] \in Nat /\ y[3] \in Nat /\ <<y[1], y[2]>> \in Visits
    BY WayStep, Zenon
  <2> DEFINE v == <<y[1], y[2]>>
  <2>2. v[1] = y[1] /\ v[2] = y[2]
    OBVIOUS
  <2>3. CASE y[2] = 0
    <3>1. Enumerated[y] = [offset |-> y[3] + CountBytes, calls |-> <<>>]
      BY <2>3, EnumeratedIs, Zenon
    <3>2. BufLens[v] = CountBytes
      BY <2>1, <2>2, <2>3, BufLensIs, Zenon
    <3>3. Enumerated[y].offset = y[3] + BufLens[v]
      BY <3>1, <3>2
    <3> QED  BY <3>3
  <2>4. CASE y[2] # 0
    <3> DEFINE kid == Kid(y[1], y[2])
               back == <<y[1], y[2] - 1, y[3]>>
               before == Enumerated[back]
               start == KidOffset(before.offset, kid)
               way == <<kid, Len(nested[kid]), start>>
               kids == Enumerated[way]
    <3>1. /\ kid \in nodes
          /\ back \in Ways /\ VisitSize(back) < VisitSize(y)
          /\ \A o \in Nat : /\ <<kid, Len(nested[kid]), o>> \in Ways
                            /\ VisitSize(<<kid, Len(nested[kid]), o>>) < VisitSize(y)
      BY <2>4, WayStep, Zenon
    <3>2. /\ before \in Traversal /\ kids \in Traversal /\ start \in Nat
          /\ Enumerated[y].offset = Acted(kid, kids).offset
      BY <2>4, EnumeratedStep, Zenon
    <3>3. back \in P /\ way \in P
      <4> HIDE DEF P, kid, back, before
      <4>1. way \in Ways /\ VisitSize(way) < VisitSize(y)
        <5> HIDE DEF start
        <5> QED  BY <3>1, <3>2, Zenon
      <4> HIDE DEF way
      <4> QED  BY <1>3, <3>1, <4>1, Zenon
    <3>4. before.offset = y[3] + BufLens[<<y[1], y[2] - 1>>]
      <4>1. Enumerated[back].offset = back[3] + BufLens[<<back[1], back[2]>>]
        BY <3>3, Zenon DEF P
      <4>2. back[1] = y[1] /\ back[2] = y[2] - 1 /\ back[3] = y[3]
        OBVIOUS
      <4> HIDE DEF back
      <4> QED  BY <4>1, <4>2, Zenon
    <3>5. kids.offset = start + BufLens[All(kid)]
      <4>1. Enumerated[way].offset = way[3] + BufLens[<<way[1], way[2]>>]
        BY <3>3, Zenon DEF P
      <4>2. way[3] = start /\ <<way[1], way[2]>> = All(kid)
        BY DEF All
      <4> HIDE DEF way
      <4> QED  BY <4>1, <4>2, Zenon
    <3>6. BufLens[v] = BufLens[<<y[1], y[2] - 1>>] + KidLen(BufLens[All(kid)] + ElementLen(kid))
      BY <2>1, <2>2, <2>4, BufLensIs, Zenon
    <3>7. Acted(kid, kids).offset = kids.offset + ElementLen(kid)
      BY <3>1, <3>2, ActedIs, Zenon
    <3>8. BufLens[All(kid)] \in Nat /\ ElementLen(kid) \in Nat /\ BufLen(kid) = BufLens[All(kid)] + ElementLen(kid)
      BY <3>1, BufLenIs, ElementIs, Zenon DEF BufLen
    <3>9. BufLen(kid) \in Nat
      BY <3>1, BufLenIs, Zenon
    <3>10. KidLen(BufLen(kid)) = SerialLen[BufLen(kid)] + BufLen(kid) + 1 /\ SerialLen[BufLen(kid)] \in Nat
      BY <3>9, KidLenIs, Zenon
    <3>11. start = before.offset + 1 + SerialLen[BufLen(kid)]
      BY DEF KidOffset
    <3>12. BufLens[<<y[1], y[2] - 1>>] \in Nat
      <4>1. <<y[1], y[2] - 1>> \in Visits
        <5>1. v[2] # 0
          BY <2>4
        <5>2. <<v[1], v[2] - 1>> \in Visits
          <6> HIDE DEF v
          <6> QED  BY <2>1, <5>1, VisitStep, Zenon DEF v
        <5> QED  BY <5>2
      <4> QED  BY <4>1, BufLensIs, Zenon
    <3> DEFINE l == BufLens[<<y[1], y[2] - 1>>]
               m == BufLens[All(kid)]
               e == ElementLen(kid)
               s == SerialLen[BufLen(kid)]
               o == y[3]
    <3>13. (((o + l) + 1 + s) + m) + e = o + (l + (s + (m + e) + 1))
      <4>1. o \in Nat /\ l \in Nat /\ m \in Nat /\ e \in Nat /\ s \in Nat
        BY <2>1, <3>8, <3>10, <3>12
      <4> HIDE DEF o, l, m, e, s
      <4> QED  BY <4>1
    <3> HIDE DEF kids, start, before, kid
    <3>14. Enumerated[y].offset = (((o + l) + 1 + s) + m) + e
      BY <3>2, <3>4, <3>5, <3>7, <3>11, Zenon
    <3>15. BufLens[v] = l + (s + (m + e) + 1)
      BY <3>6, <3>8, <3>10, Zenon
    <3>16. Enumerated[y].offset = y[3] + BufLens[v]
      BY <3>13, <3>14, <3>15, Zenon
    <3> QED  BY <3>16 DEF P, v
  <2> QED  BY <2>3, <2>4
<1>4. Ways \subseteq P
  <2> HIDE DEF P
  <2>1. \A y \in Ways : (\A z \in Ways : size[z] < size[y] => z \in P) => y \in P
    BY <1>2, <1>3
  <2>2. size \in [Ways -> Nat]
    BY <1>2
  <2> QED  BY <2>1, <2>2, SizeInduction, Zenon
<1> QED  BY <1>4

-------------------------------------------------------------------------------
(* What the reader finds. *)

(* What a count may be, and the flag of the wider one. *)
Flag == 32768
Wide == 0 .. 65535

(* A byte's worth of children is a count. *)
LEMMA SmallCounts ==
  ASSUME NEW a \in 0 .. 256
  PROVE  a \in Counts
BY SMT DEF Counts

(* The two bytes of a count. *)
LEMMA TwoBytes ==
  ASSUME NEW v \in Wide
  PROVE  (v % 256) + 256 * ((v \div 256) % 256) = v
<1> USE DEF Wide
<1>1. v % 256 \in 0 .. 255
  OBVIOUS
<1>2. v \div 256 \in Nat
  OBVIOUS
<1>3. v = 256 * (v \div 256) + (v % 256)
  OBVIOUS
<1> DEFINE q == v \div 256
<1> HIDE DEF q
<1>4. q \in 0 .. 255
  BY <1>1, <1>2, <1>3 DEF q
<1> HIDE DEF Wide
<1>5. q % 256 = q
  <2>1. \A a \in 0 .. 255 : a % 256 = a
    OBVIOUS
  <2> QED  BY <1>4, <2>1, Zenon
<1>6. \A a, b \in 0 .. 255 : b + 256 * a = 256 * a + b
  OBVIOUS
<1>7. (v % 256) + 256 * q = 256 * q + (v % 256)
  BY <1>1, <1>4, <1>6, Zenon
<1> QED  BY <1>3, <1>5, <1>7, Zenon DEF q

(* Whatever is read for a count is one. *)
LEMMA CountTyped ==
  ASSUME index \in BOOLEAN, NEW img \in Bytes, NEW pos \in Nat
  PROVE  /\ CountAt(img, pos).upper \in BOOLEAN /\ CountAt(img, pos).lower \in Counts
         /\ CountAt(img, pos).next = pos + CountBytes /\ CountAt(img, pos).next \in Nat
         /\ CountAt(img, pos).next > pos
         /\ pos >= Len(img) => CountAt(img, pos).lower = 0
<1> DEFINE b == Byte(img, pos)
           c == Byte(img, pos + 1)
           v == b + (IF index THEN 256 * c ELSE 0)
<1>1. pos + 1 \in Nat
  OBVIOUS
<1>2. b \in 0 .. 255 /\ c \in 0 .. 255
  BY <1>1, ByteIs, Zenon
<1>3. pos >= Len(img) => b = 0 /\ c = 0
  <2>1. Len(img) \in Nat
    BY ByteRoom, Zenon
  <2>2. pos >= Len(img) => pos + 1 >= Len(img)
    <3> HIDE DEF b, c
    <3> QED  BY <2>1
  <2> QED  BY <1>1, <2>2, ByteIs, Zenon
<1>4. CountAt(img, pos) = [upper |-> v >= Upper, lower |-> v % Upper, next |-> pos + CountBytes]
  BY DEF CountAt
<1> HIDE DEF b, c
<1>5. v \in Nat
  BY <1>2
<1>6. CountBytes \in Nat /\ CountBytes >= 1 /\ (Upper = 128 \/ Upper = Flag)
  BY DEF CountBytes, Upper, Flag
<1>7. b = 0 /\ c = 0 => v = 0
  OBVIOUS
<1> HIDE DEF v
<1>8. v % Upper \in Counts /\ (v = 0 => v % Upper = 0)
  <2>1. CASE Upper = 128
    <3>1. v % 128 \in Counts /\ (v = 0 => v % 128 = 0)
      BY <1>5 DEF Counts
    <3>2. v % Upper = v % 128
      BY <2>1, Zenon
    <3> QED  BY <3>1, <3>2, Zenon
  <2>2. CASE Upper = Flag
    <3>1. v % Flag \in Counts /\ (v = 0 => v % Flag = 0)
      BY <1>5 DEF Counts, Flag
    <3>2. v % Upper = v % Flag
      BY <2>2, Zenon
    <3> QED  BY <3>1, <3>2, Zenon
  <2> QED  BY <1>6, <2>1, <2>2
<1>9. pos + CountBytes \in Nat /\ pos + CountBytes > pos
  BY <1>6
<1>10. /\ CountAt(img, pos).upper = (v >= Upper) /\ CountAt(img, pos).lower = v % Upper
       /\ CountAt(img, pos).next = pos + CountBytes
  BY <1>4
<1>11. CountAt(img, pos).upper \in BOOLEAN
  BY <1>10
<1>12. CountAt(img, pos).lower \in Counts /\ (pos >= Len(img) => CountAt(img, pos).lower = 0)
  BY <1>3, <1>7, <1>8, <1>10, Zenon
<1>13. CountAt(img, pos).next = pos + CountBytes /\ CountAt(img, pos).next \in Nat /\ CountAt(img, pos).next > pos
  BY <1>9, <1>10, Zenon
<1> QED  BY <1>11, <1>12, <1>13, Zenon

(* A node's count is read back. *)
LEMMA CountRead ==
  ASSUME Grown, NEW p \in nodes, NEW img \in Bytes, NEW o \in Nat, Holds(img, o, StoreCount(p))
  PROVE  /\ CountAt(img, o).upper <=> p \in data
         /\ CountAt(img, o).lower = Len(nested[p]) /\ CountAt(img, o).next = o + CountBytes
<1> DEFINE n == Len(nested[p])
           u == IF p \in data THEN Upper ELSE 0
           v == n + u
           w == Byte(img, o) + (IF index THEN 256 * Byte(img, o + 1) ELSE 0)
<1>1. n \in Nat /\ n <= 256 /\ (~index => n < 128)
  BY FewChildren
<1>2. CountAt(img, o) = [upper |-> w >= Upper, lower |-> w % Upper, next |-> o + CountBytes]
  BY DEF CountAt
<1>3. StoreCount(p) \in Bytes /\ Len(StoreCount(p)) = CountBytes /\ CountBytes \in Nat
  BY CountIs, Zenon
<1>4. StoreCount(p) = IF index THEN <<v % 256, (v \div 256) % 256>> ELSE <<v % 256>>
  BY DEF StoreCount
<1>5. (p \in data => u = Upper) /\ (p \notin data => u = 0)
  OBVIOUS
<1> HIDE DEF n, u
<1>6. w = v
  <2>1. CASE index
    <3>1. Upper = 32768 /\ CountBytes = 2
      BY <2>1 DEF Upper, CountBytes
    <3>2. v \in Wide
      BY <1>1, <1>5, <3>1 DEF Wide
    <3>3. Byte(img, o) = StoreCount(p)[1] /\ Byte(img, o + 1) = StoreCount(p)[2]
      <4>1. 0 \in 0 .. Len(StoreCount(p)) - 1 /\ 1 \in 0 .. Len(StoreCount(p)) - 1
        BY <1>3, <3>1
      <4>2. Byte(img, o + 0) = StoreCount(p)[0 + 1] /\ Byte(img, o + 1) = StoreCount(p)[1 + 1]
        BY <1>3, <4>1, ByteHeld, Zenon
      <4> QED  BY <4>2
    <3>4. StoreCount(p) = <<v % 256, (v \div 256) % 256>>
      BY <1>4, <2>1
    <3> HIDE DEF v
    <3>5. StoreCount(p)[1] = v % 256 /\ StoreCount(p)[2] = (v \div 256) % 256
      BY <3>4
    <3>6. (v % 256) + 256 * ((v \div 256) % 256) = v
      BY <3>2, TwoBytes, Zenon
    <3>7. Byte(img, o) = v % 256 /\ Byte(img, o + 1) = (v \div 256) % 256
      BY <3>3, <3>5, Zenon
    <3>8. w = (v % 256) + 256 * ((v \div 256) % 256)
      BY <2>1, <3>7, Zenon
    <3> QED  BY <3>6, <3>8, Zenon
  <2>2. CASE ~index
    <3>1. Upper = 128 /\ CountBytes = 1
      BY <2>2 DEF Upper, CountBytes
    <3>2. v \in 0 .. 255
      BY <1>1, <1>5, <2>2, <3>1
    <3>3. Byte(img, o) = StoreCount(p)[1]
      <4>1. 0 \in 0 .. Len(StoreCount(p)) - 1
        BY <1>3, <3>1
      <4>2. Byte(img, o + 0) = StoreCount(p)[0 + 1]
        BY <1>3, <4>1, ByteHeld, Zenon
      <4> QED  BY <4>2
    <3>4. StoreCount(p) = <<v % 256>>
      BY <1>4, <2>2
    <3> HIDE DEF v
    <3>5. StoreCount(p)[1] = v % 256
      BY <3>4
    <3>6. v % 256 = v /\ v + 0 = v
      BY <3>2
    <3>7. Byte(img, o) = v
      BY <3>3, <3>5, <3>6, Zenon
    <3>8. w = v + 0
      BY <2>2, <3>7, Zenon
    <3> QED  BY <3>6, <3>8, Zenon
  <2> QED  BY <2>1, <2>2
<1> HIDE DEF w
<1>7. CountAt(img, o).upper = (v >= Upper) /\ CountAt(img, o).lower = v % Upper /\ CountAt(img, o).next = o + CountBytes
  BY <1>2, <1>6
<1>8. n < Upper /\ Upper \in Nat /\ (Upper = 128 \/ Upper = Flag)
  BY <1>1 DEF Upper, Flag
<1>9. (v >= Upper) <=> p \in data
  <2>1. CASE p \in data
    <3>1. v = n + Upper
      BY <1>5, <2>1
    <3> HIDE DEF v
    <3> QED  BY <1>1, <1>8, <2>1, <3>1
  <2>2. CASE p \notin data
    <3>1. v = n
      BY <1>1, <1>5, <2>2
    <3> HIDE DEF v
    <3> QED  BY <1>1, <1>8, <2>2, <3>1
  <2> QED  BY <2>1, <2>2
<1>10. v % Upper = n
  <2>1. u = Upper \/ u = 0
    BY <1>5
  <2>2. CASE Upper = 128
    <3>1. \A a \in 0 .. 127 : (a + 128) % 128 = a /\ (a + 0) % 128 = a
      OBVIOUS
    <3>2. n \in 0 .. 127
      BY <1>1, <1>8, <2>2
    <3> QED  BY <2>1, <2>2, <3>1, <3>2, Zenon
  <2>3. CASE Upper = Flag
    <3>1. \A a \in Counts : (a + Flag) % Flag = a /\ (a + 0) % Flag = a
      BY DEF Counts, Flag
    <3>2. n \in Counts
      <4>1. n \in 0 .. 256
        BY <1>1
      <4> HIDE DEF n
      <4> QED  BY <4>1, SmallCounts, Zenon
    <3>3. v % Upper = (n + Flag) % Flag \/ v % Upper = (n + 0) % Flag
      BY <2>1, <2>3, Zenon
    <3> QED  BY <3>1, <3>2, <3>3, Zenon
  <2> QED  BY <1>8, <2>2, <2>3
<1> QED  BY <1>7, <1>9, <1>10, Zenon DEF n

-------------------------------------------------------------------------------
(* The reader of the whole tree. *)

Tracking == [next : Nat, calls : Seq(CallType)]

(* The bytes and children ahead of a cursor. *)
BytesAhead(img, pos) == IF pos < Len(img) THEN Len(img) - pos ELSE 0

TrackSize(img, x) == BytesAhead(img, x[1]) * Flag + x[2]

(* Whatever is read for a child is one. *)
LEMMA ChildTyped ==
  ASSUME NEW img \in Bytes, NEW pos \in Nat
  PROVE  /\ ChildAt(img, pos).char \in 0 .. 255 /\ ChildAt(img, pos).sub \in Nat /\ ChildAt(img, pos).next \in Nat
         /\ ChildAt(img, pos).sub > pos /\ ChildAt(img, pos).next > pos
<1> DEFINE s == SerialAt(img)[pos + 1]
<1>1. pos + 1 \in Nat
  OBVIOUS
<1>2. s.value \in Nat /\ s.next \in Nat /\ s.next > pos + 1
  BY <1>1, SerialAdvances, Zenon
<1>3. Byte(img, pos) \in 0 .. 255
  BY ByteIs, Zenon
<1>4. ChildAt(img, pos) = [char |-> Byte(img, pos), sub |-> s.next, next |-> s.next + s.value]
  BY DEF ChildAt
<1> HIDE DEF s
<1>5. s.next > pos /\ s.next + s.value \in Nat /\ s.next + s.value > pos
  <2> DEFINE a == s.next
             b == s.value
  <2> HIDE DEF a, b
  <2>1. a \in Nat /\ b \in Nat /\ a > pos + 1
    BY <1>2 DEF a, b
  <2>2. a > pos /\ a + b \in Nat /\ a + b > pos
    BY <2>1
  <2> QED  BY <2>2 DEF a, b
<1>6. /\ ChildAt(img, pos).char = Byte(img, pos) /\ ChildAt(img, pos).sub = s.next
      /\ ChildAt(img, pos).next = s.next + s.value
  BY <1>4
<1> QED  BY <1>2, <1>3, <1>5, <1>6, Zenon

(* A cursor that has moved has less ahead. *)
LEMMA AheadFalls ==
  ASSUME NEW img \in Bytes, NEW pos \in Nat, NEW to \in Nat, to > pos
  PROVE  /\ BytesAhead(img, pos) \in Nat /\ BytesAhead(img, to) \in Nat
         /\ pos < Len(img) => BytesAhead(img, to) + 1 <= BytesAhead(img, pos)
         /\ ~(pos < Len(img)) => to >= Len(img) /\ BytesAhead(img, to) = 0 /\ BytesAhead(img, pos) = 0
<1>1. Len(img) \in Nat
  BY ByteRoom, Zenon
<1> DEFINE n == Len(img)
<1> HIDE DEF n
<1>2. BytesAhead(img, pos) = IF pos < n THEN n - pos ELSE 0
  BY DEF BytesAhead, n
<1>3. BytesAhead(img, to) = IF to < n THEN n - to ELSE 0
  BY DEF BytesAhead, n
<1>4. n \in Nat
  BY <1>1 DEF n
<1>5. pos < n => BytesAhead(img, to) + 1 <= BytesAhead(img, pos)
  BY <1>2, <1>3, <1>4
<1>6. ~(pos < n) => to >= n /\ BytesAhead(img, to) = 0 /\ BytesAhead(img, pos) = 0
  BY <1>2, <1>3, <1>4
<1>7. BytesAhead(img, pos) \in Nat /\ BytesAhead(img, to) \in Nat
  BY <1>2, <1>3, <1>4
<1> QED  BY <1>5, <1>6, <1>7 DEF n

(* Counts are below the flag. *)
LEMMA CountsAre == Flag \in Nat /\ \A n \in Counts : n \in Nat /\ n < Flag
BY DEF Counts, Flag

(* The reader comes nearer to the end. *)
LEMMA CursorStep ==
  ASSUME index \in BOOLEAN, NEW img \in Bytes, NEW x \in Cursors
  PROVE  /\ x[1] \in Nat /\ x[2] \in Nat /\ x[3] \in Seq(0 .. 255) /\ TrackSize(img, x) \in Nat
         /\ x[2] # 0 =>
              /\ KidOf(img, x) \in Cursors /\ TrackSize(img, KidOf(img, x)) < TrackSize(img, x)
              /\ NextOf(img, x) \in Cursors /\ TrackSize(img, NextOf(img, x)) < TrackSize(img, x)
<1> DEFINE pos == x[1]
           n == x[2]
           path == x[3]
           c == ChildAt(img, pos)
           node == CountAt(img, c.sub)
<1>1. x = <<pos, n, path>> /\ pos \in Nat /\ n \in Counts /\ path \in Seq(0 .. 255)
  BY DEF Cursors
<1>2. n \in Nat /\ n < Flag /\ Flag \in Nat
  BY <1>1, CountsAre, Zenon
<1>3. c.char \in 0 .. 255 /\ c.sub \in Nat /\ c.next \in Nat /\ c.sub > pos /\ c.next > pos
  BY <1>1, ChildTyped, Zenon
<1>4. /\ node.lower \in Counts /\ node.next \in Nat /\ node.next > c.sub
      /\ c.sub >= Len(img) => node.lower = 0
  BY <1>3, CountTyped, Zenon
<1>5. node.lower \in Nat /\ node.lower < Flag
  BY <1>4, CountsAre, Zenon
<1>6. KidOf(img, x) = <<node.next, node.lower, Append(path, c.char)>>
  BY DEF KidOf
<1>7. NextOf(img, x) = <<c.next, n - 1, path>>
  BY DEF NextOf
<1>8. TrackSize(img, x) = BytesAhead(img, pos) * Flag + n
  BY DEF TrackSize
<1> HIDE DEF pos, n, path, c, node
<1>9. Append(path, c.char) \in Seq(0 .. 255)
  BY <1>1, <1>3, AppendProperties, Zenon
<1>10. KidOf(img, x) \in Cursors
  <2>1. \A a \in Nat, b \in Counts, s \in Seq(0 .. 255) : <<a, b, s>> \in Cursors
    BY DEF Cursors
  <2> QED  BY <1>4, <1>6, <1>9, <2>1, Zenon
<1>11. n # 0 => NextOf(img, x) \in Cursors
  <2>1. n # 0 => n - 1 \in Counts
    BY <1>1 DEF Counts
  <2> QED  BY <1>1, <1>3, <1>7, <2>1 DEF Cursors
<1>12. TrackSize(img, KidOf(img, x)) = BytesAhead(img, node.next) * Flag + node.lower
  BY <1>6 DEF TrackSize
<1>13. TrackSize(img, NextOf(img, x)) = BytesAhead(img, c.next) * Flag + (n - 1)
  BY <1>7 DEF TrackSize
<1> DEFINE a == BytesAhead(img, pos)
           b == BytesAhead(img, node.next)
           e == BytesAhead(img, c.next)
<1>14. node.next > pos
  BY <1>1, <1>3, <1>4
<1>15. /\ a \in Nat /\ b \in Nat /\ (pos < Len(img) => b + 1 <= a) /\ (~(pos < Len(img)) => a = 0 /\ b = 0)
  BY <1>1, <1>4, <1>14, AheadFalls, Zenon
<1>16. e \in Nat /\ (pos < Len(img) => e + 1 <= a) /\ (~(pos < Len(img)) => c.sub >= Len(img) /\ e = 0)
  BY <1>1, <1>3, AheadFalls, Zenon
<1> HIDE DEF a, b, e
<1>17. a * Flag + n \in Nat
  BY <1>2, <1>15 DEF Flag
<1>18. n # 0 => b * Flag + node.lower < a * Flag + n
  <2> DEFINE k == node.lower
  <2> HIDE DEF k
  <2>1. k \in Nat /\ k < Flag
    BY <1>5 DEF k
  <2>2. CASE pos < Len(img)
    <3>1. b + 1 <= a
      BY <1>15, <2>2
    <3>2. b * Flag + k < a * Flag + n
      BY <1>2, <1>15, <2>1, <3>1 DEF Flag
    <3> QED  BY <3>2 DEF k
  <2>3. CASE ~(pos < Len(img))
    <3>1. b = 0 /\ a = 0 /\ k = 0
      BY <1>4, <1>15, <1>16, <2>3, Zenon DEF k
    <3>2. n # 0 => b * Flag + k < a * Flag + n
      BY <1>2, <3>1 DEF Flag
    <3> QED  BY <3>2 DEF k
  <2> QED  BY <2>2, <2>3
<1>19. n # 0 => e * Flag + (n - 1) < a * Flag + n
  <2>1. e <= a
    <3>1. pos < Len(img) => e <= a
      BY <1>15, <1>16
    <3>2. ~(pos < Len(img)) => e <= a
      BY <1>15, <1>16
    <3> QED  BY <3>1, <3>2
  <2> QED  BY <1>2, <1>15, <1>16, <2>1 DEF Flag
<1>20. TrackSize(img, x) \in Nat
  BY <1>8, <1>17 DEF a
<1>21. n # 0 => TrackSize(img, KidOf(img, x)) < TrackSize(img, x)
  BY <1>8, <1>12, <1>18, Zenon DEF a, b
<1>22. n # 0 => TrackSize(img, NextOf(img, x)) < TrackSize(img, x)
  BY <1>8, <1>13, <1>19, Zenon DEF a, e
<1> QED  BY <1>1, <1>2, <1>10, <1>11, <1>20, <1>21, <1>22, Zenon DEF pos, n, path

(* Whatever is offered is a list and a stem. *)
LEMMA CallsTyped ==
  ASSUME index \in BOOLEAN, NEW img \in Bytes, NEW d, NEW x \in Cursors, NEW kids \in Tracking
  PROVE  CallsOf(img, d, x, kids) \in Seq(CallType)
<1> DEFINE c == ChildAt(img, x[1])
           path == Append(x[3], c.char)
           node == CountAt(img, c.sub)
           call == [key |-> path, offset |-> kids.next]
<1>1. x[1] \in Nat /\ x[3] \in Seq(0 .. 255)
  BY CursorStep, Zenon
<1>2. c.char \in 0 .. 255
  BY <1>1, ChildTyped, Zenon
<1>3. path \in Seq(0 .. 255)
  <2> HIDE DEF c
  <2> QED  BY <1>1, <1>2, AppendProperties, Zenon
<1>4. kids.next \in Nat /\ kids.calls \in Seq(CallType)
  BY DEF Tracking
<1> HIDE DEF path
<1>5. call \in CallType
  BY <1>3, <1>4 DEF CallType
<1>6. <<>> \in Seq(CallType)
  OBVIOUS
<1> HIDE DEF call, node, c
<1>7. Append(kids.calls, call) \in Seq(CallType)
  BY <1>4, <1>5, AppendProperties, Zenon
<1>8. CallsOf(img, d, x, kids) \in {<<>>, kids.calls, Append(kids.calls, call)}
  <2>1. CallsOf(img, d, x, kids) = IF Enters(d, c) THEN Offered(node, path, kids) ELSE <<>>
    BY DEF CallsOf, c, path, node
  <2>2. Offered(node, path, kids) = IF node.upper THEN Append(kids.calls, call) ELSE kids.calls
    BY DEF Offered, call
  <2> QED  BY <2>1, <2>2, Zenon
<1> QED  BY <1>4, <1>6, <1>7, <1>8, Zenon

(* What the reader comes to is what the definition says. *)
LEMMA TrackedIs ==
  ASSUME index \in BOOLEAN, NEW img \in Bytes, NEW d
  PROVE  /\ Tracked(img, d) \in [Cursors -> Tracking]
         /\ \A x \in Cursors : Tracked(img, d)[x] =
              IF x[2] = 0 THEN [next |-> x[1], calls |-> <<>>]
              ELSE [next |-> Tracked(img, d)[NextOf(img, x)].next,
                    calls |-> CallsOf(img, d, x, Tracked(img, d)[KidOf(img, x)])
                                \o Tracked(img, d)[NextOf(img, x)].calls]
<1> DEFINE S == Cursors
           V == Tracking
           size == [x \in S |-> TrackSize(img, x)]
           body(x, f) ==
             IF x[2] = 0 THEN [next |-> x[1], calls |-> <<>>]
             ELSE [next |-> f[NextOf(img, x)].next,
                   calls |-> CallsOf(img, d, x, f[KidOf(img, x)]) \o f[NextOf(img, x)].calls]
           Is(f) == f = [x \in S |-> body(x, f)]
           G == [y \in S \X [S -> V] |-> body(y[1], y[2])]
<1>1. V # {} /\ size \in [S -> Nat] /\ \A x \in S : size[x] = TrackSize(img, x)
  <2>1. \A x \in S : TrackSize(img, x) \in Nat
    BY CursorStep, Zenon
  <2> HIDE DEF S
  <2>2. size \in [S -> Nat] /\ \A x \in S : size[x] = TrackSize(img, x)
    BY <2>1
  <2>3. [next |-> 0, calls |-> <<>>] \in V
    BY DEF Tracking
  <2> QED  BY <2>2, <2>3, Zenon
<1>2. ASSUME NEW x \in S, NEW f \in [S -> V]  PROVE body(x, f) \in V
  <2>1. x[1] \in Nat /\ x[2] \in Nat
    BY CursorStep, Zenon
  <2>2. CASE x[2] = 0
    <3>1. \A n \in Nat : [next |-> n, calls |-> <<>>] \in V
      BY DEF Tracking
    <3>2. body(x, f) \in V
      BY <2>1, <2>2, <3>1, Zenon
    <3> QED  BY <3>2
  <2>3. CASE x[2] # 0
    <3>1. KidOf(img, x) \in S /\ NextOf(img, x) \in S
      BY <2>3, CursorStep, Zenon
    <3>2. f[KidOf(img, x)] \in Tracking /\ f[NextOf(img, x)] \in Tracking
      <4> HIDE DEF S
      <4> QED  BY <3>1, Zenon
    <3>3. f[NextOf(img, x)].next \in Nat /\ f[NextOf(img, x)].calls \in Seq(CallType)
      BY <3>2 DEF Tracking
    <3>4. CallsOf(img, d, x, f[KidOf(img, x)]) \in Seq(CallType)
      BY <3>2, CallsTyped, Zenon
    <3>5. CallsOf(img, d, x, f[KidOf(img, x)]) \o f[NextOf(img, x)].calls \in Seq(CallType)
      BY <3>3, <3>4, ConcatProperties, Zenon
    <3>6. \A n \in Nat, q \in Seq(CallType) : [next |-> n, calls |-> q] \in V
      BY DEF Tracking
    <3>7. body(x, f) \in V
      BY <2>3, <3>3, <3>5, <3>6, Zenon
    <3> QED  BY <3>7
  <2>4. body(x, f) \in V
    <3> HIDE DEF body
    <3> QED  BY <2>2, <2>3, Zenon
  <2> QED  BY <2>4
<1>3. ASSUME NEW x \in S, NEW g, NEW h \in [S -> V], \A y \in S : size[y] < size[x] => g[y] = h[y]
      PROVE  body(x, g) = body(x, h)
  <2>1. x[2] # 0 =>
          /\ KidOf(img, x) \in S /\ TrackSize(img, KidOf(img, x)) < TrackSize(img, x)
          /\ NextOf(img, x) \in S /\ TrackSize(img, NextOf(img, x)) < TrackSize(img, x)
    BY CursorStep, Zenon
  <2> HIDE DEF S, size
  <2>2. x[2] # 0 => size[KidOf(img, x)] < size[x] /\ size[NextOf(img, x)] < size[x]
    BY <1>1, <2>1, Zenon
  <2>3. x[2] # 0 => g[KidOf(img, x)] = h[KidOf(img, x)] /\ g[NextOf(img, x)] = h[NextOf(img, x)]
    BY <1>3, <2>1, <2>2, Zenon
  <2>4. body(x, g) = body(x, h)
    BY <2>3, Zenon
  <2> QED  BY <2>4
<1> HIDE DEF body, V, size, S
<1>4. \A x \in S, f \in [S -> V] : G[<<x, f>>] = body(x, f) /\ G[<<x, f>>] \in V
  BY <1>2
<1>5. G \in [S \X [S -> V] -> V]
  <2> DEFINE T == [S -> V]
  <2>1. \A y \in S \X T : \E x \in S, f \in T : y = <<x, f>>
    <3> HIDE DEF T
    <3> QED  OBVIOUS
  <2>2. \A y \in S \X T : G[y] \in V
    <3>1. \A x \in S, f \in T : G[<<x, f>>] \in V
      BY <1>4
    <3> HIDE DEF G, T
    <3> QED  BY <2>1, <3>1, Zenon
  <2> HIDE DEF T
  <2> QED  BY <2>2 DEF T, G
<1> HIDE DEF G
<1>6. Recursion(S, V, size, G)
  <2>1. ASSUME NEW x \in S, NEW g \in [S -> V], NEW h \in [S -> V],
               \A y \in S : size[y] < size[x] => g[y] = h[y]
        PROVE  G[<<x, g>>] = G[<<x, h>>]
    <3>1. body(x, g) = body(x, h)
      BY <1>3, <2>1, Zenon
    <3> QED  BY <1>4, <3>1, Zenon
  <2> QED  BY <1>1, <1>5, <2>1, Zenon DEF Recursion
<1>7. PICK h \in [S -> V] : \A x \in S : h[x] = G[<<x, h>>]
  BY <1>6, RecursionSolved
<1>8. \A x \in S : h[x] = body(x, h)
  BY <1>4, <1>7, Zenon
<1>9. \A x \in S : Tracked(img, d)[x] = body(x, Tracked(img, d))
  <2>1. Tracked(img, d) = CHOOSE f : Is(f)
    BY DEF Tracked, body, S
  <2>2. Is(h)
    BY <1>7, <1>8
  <2> HIDE DEF Is
  <2>3. Is(Tracked(img, d))
    BY <2>1, <2>2, Zenon
  <2> USE DEF Is
  <2> QED  BY <2>3
<1>10. DOMAIN Tracked(img, d) = S /\ Tracked(img, d) = [x \in S |-> Tracked(img, d)[x]]
  <2>1. Tracked(img, d) = CHOOSE f : Is(f)
    BY DEF Tracked, body, S
  <2>2. Is(h)
    BY <1>7, <1>8
  <2> HIDE DEF Is
  <2>3. Is(Tracked(img, d))
    BY <2>1, <2>2, Zenon
  <2> USE DEF Is
  <2> QED  BY <2>3
<1>11. \A x \in S : Tracked(img, d)[x] = h[x]
  <2>1. ASSUME NEW x \in S, \A y \in S : size[y] < size[x] => Tracked(img, d)[y] = h[y]
        PROVE  Tracked(img, d)[x] = h[x]
    <3>1. body(x, Tracked(img, d)) = body(x, h)
      BY <1>3, <1>7, <2>1, Zenon
    <3> QED  BY <1>8, <1>9, <3>1, Zenon
  <2> DEFINE P == {x \in S : Tracked(img, d)[x] = h[x]}
  <2>2. \A x \in S : (\A y \in S : size[y] < size[x] => y \in P) => x \in P
    BY <2>1
  <2>3. size \in [S -> Nat]
    BY <1>1
  <2>4. S \subseteq P
    <3> HIDE DEF P, Is
    <3> QED  BY <2>2, <2>3, SizeInduction, Zenon
  <2> QED  BY <2>4
<1>12. Tracked(img, d) \in [S -> V]
  BY <1>7, <1>10, <1>11
<1> QED  BY <1>9, <1>12 DEF body, V, S

-------------------------------------------------------------------------------
(* What the reader finds in an image that stands among other bytes. *)

(* One child more, in the image and in its length. *)
LEMMA ImagesStep ==
  ASSUME Grown, NEW p \in nodes, NEW j \in 1 .. Len(nested[p])
  PROVE  /\ <<p, j>> \in Visits /\ <<p, j - 1>> \in Visits /\ Kid(p, j) \in nodes
         /\ Images[<<p, j - 1>>] \in Bytes /\ KidImage(Kid(p, j)) \in Bytes
         /\ Images[<<p, j>>] = Images[<<p, j - 1>>] \o KidImage(Kid(p, j))
         /\ BufLens[<<p, j - 1>>] \in Nat
         /\ BufLens[<<p, j>>] = BufLens[<<p, j - 1>>] + KidLen(BufLen(Kid(p, j)))
<1> DEFINE n == Len(nested[p])
           kid == Kid(p, j)
           y == <<p, j>>
<1>1. n \in Nat
  BY FewChildren, Zenon
<1>2. j \in Nat /\ j # 0 /\ j <= n /\ j - 1 \in Nat /\ j - 1 <= n
  BY <1>1
<1>3. y[1] = p /\ y[2] = j
  OBVIOUS
<1> HIDE DEF n
<1>4. <<p, j>> \in Visits /\ <<p, j - 1>> \in Visits
  BY <1>2 DEF Visits, n
<1> HIDE DEF y
<1>5. kid \in nodes /\ Last(kid) \in 0 .. 255
  <2>1. y \in Visits
    BY <1>4 DEF y
  <2> QED  BY <1>2, <1>3, <2>1, VisitStep, Zenon
<1>6. /\ Images[<<p, j>>] = Images[<<p, j - 1>>] \o (<<Last(kid)>> \o (Serial[BufLen(kid)] \o (Images[All(kid)] \o ElementBytes(kid))))
      /\ BufLens[<<p, j>>] = BufLens[<<p, j - 1>>] + KidLen(BufLens[All(kid)] + ElementLen(kid))
  <2>1. y \in Visits
    BY <1>4 DEF y
  <2>2. /\ Images[y] = Images[<<y[1], y[2] - 1>>] \o (<<Last(Kid(y[1], y[2]))>> \o (Serial[BufLen(Kid(y[1], y[2]))]
                          \o (Images[All(Kid(y[1], y[2]))] \o ElementBytes(Kid(y[1], y[2])))))
        /\ BufLens[y] = BufLens[<<y[1], y[2] - 1>>] + KidLen(BufLens[All(Kid(y[1], y[2]))] + ElementLen(Kid(y[1], y[2])))
    BY <1>2, <1>3, <2>1, ImagesIs, BufLensIs, Zenon
  <2>3. y = <<p, j>>
    BY DEF y
  <2> QED  BY <1>3, <2>2, <2>3, Zenon
<1>7. Image(kid) = Images[All(kid)] \o ElementBytes(kid) /\ BufLen(kid) = BufLens[All(kid)] + ElementLen(kid)
  BY DEF Image, BufLen
<1>8. Images[<<p, j - 1>>] \in Bytes /\ BufLens[<<p, j - 1>>] \in Nat
  BY <1>4, ImagesIs, BufLensIs, Zenon
<1>9. KidImage(kid) \in Bytes
  <2>1. Image(kid) \in Bytes
    BY <1>5, ImageLen, Zenon
  <2>2. BufLen(kid) \in Nat
    BY <1>5, BufLenIs, Zenon
  <2>3. Serial[BufLen(kid)] \in Bytes
    BY <2>2, SerialHolds, Zenon
  <2>4. <<Last(kid)>> \in Bytes
    BY <1>5, OneByte, Zenon
  <2>5. Serial[BufLen(kid)] \o Image(kid) \in Bytes
    BY <2>1, <2>3, BytesJoin, Zenon
  <2> QED  BY <2>4, <2>5, BytesJoin, Zenon DEF KidImage
<1>10. Images[<<p, j>>] = Images[<<p, j - 1>>] \o KidImage(kid)
  BY <1>6, <1>7, Zenon DEF KidImage
<1>11. BufLens[<<p, j>>] = BufLens[<<p, j - 1>>] + KidLen(BufLen(kid))
  BY <1>6, <1>7, Zenon
<1> QED  BY <1>4, <1>5, <1>8, <1>9, <1>10, <1>11, Zenon

(* With a node's image its beginnings are held. *)
LEMMA ImagesHeld ==
  ASSUME Grown, NEW img \in Bytes, NEW o \in Nat, NEW p \in nodes, Holds(img, o, Images[All(p)]),
         NEW i \in 0 .. Len(nested[p])
  PROVE  Holds(img, o, Images[<<p, i>>])
<1> DEFINE n == Len(nested[p])
           Q(k) == k <= n => Holds(img, o, Images[<<p, n - k>>])
           P == {k \in Nat : Q(k)}
<1>1. n \in Nat
  BY FewChildren, Zenon
<1>2. ASSUME NEW k \in Nat, \A m \in Nat : m < k => m \in P  PROVE k \in P
  <2>1. CASE k = 0
    <3>1. n - k = n
      BY <1>1, <2>1
    <3>2. All(p) = <<p, n>>
      BY DEF All
    <3> HIDE DEF n
    <3>3. Q(k)
      BY <3>1, <3>2, Zenon
    <3> QED  BY <3>3
  <2>2. CASE k # 0
    <3> SUFFICES ASSUME k <= n  PROVE Holds(img, o, Images[<<p, n - k>>])
      OBVIOUS
    <3>1. k - 1 \in Nat /\ k - 1 < k /\ k - 1 <= n
      BY <1>1, <2>2
    <3>2. Holds(img, o, Images[<<p, n - (k - 1)>>])
      <4>1. Q(k - 1)
        BY <1>2, <3>1
      <4> HIDE DEF n
      <4> QED  BY <3>1, <4>1, Zenon
    <3> DEFINE j == n - (k - 1)
               kid == Kid(p, j)
    <3>3. j \in 1 .. n /\ j - 1 = n - k
      BY <1>1, <2>2
    <3> HIDE DEF j
    <3>4. j \in 1 .. Len(nested[p])
      BY <3>3
    <3>5. Images[<<p, j>>] = Images[<<p, j - 1>>] \o KidImage(kid)
      BY <3>4, ImagesStep, Zenon
    <3>7. Images[<<p, j - 1>>] \in Bytes /\ KidImage(kid) \in Bytes
      BY <3>4, ImagesStep, Zenon
    <3>9. Holds(img, o, Images[<<p, j - 1>>])
      <4>1. Holds(img, o, Images[<<p, j>>])
        BY <3>2 DEF j
      <4>2. Holds(img, o, Images[<<p, j - 1>>] \o KidImage(kid))
        BY <3>5, <4>1, Zenon
      <4> HIDE DEF kid
      <4> QED  BY <3>7, <4>2, HoldsParts, Zenon
    <3> QED  BY <3>3, <3>9, Zenon
  <2> QED  BY <2>1, <2>2
<1>3. Nat \subseteq P
  <2> HIDE DEF P
  <2> QED  BY <1>2, NumberInduction, Zenon
<1>4. n - i \in Nat /\ n - i <= n /\ n - (n - i) = i
  BY <1>1
<1>5. Q(n - i)
  BY <1>3, <1>4
<1> HIDE DEF n
<1> QED  BY <1>4, <1>5, Zenon

(* A child: the cursor finds its length, its image and its element. *)
LEMMA KidHeld ==
  ASSUME Grown, NEW img \in Bytes, NEW o \in Nat, NEW p \in nodes, Holds(img, o, Images[All(p)]),
         NEW j \in 1 .. Len(nested[p])
  PROVE  LET kid == Kid(p, j)
             q == o + BufLens[<<p, j - 1>>]
             sub == q + 1 + SerialLen[BufLen(kid)]
         IN /\ q \in Nat /\ sub \in Nat /\ sub = KidOffset(q, kid)
            /\ ChildAt(img, q).char = Last(kid) /\ ChildAt(img, q).sub = sub
            /\ ChildAt(img, q).next = o + BufLens[<<p, j>>]
            /\ sub + BufLen(kid) = o + BufLens[<<p, j>>]
            /\ Holds(img, sub, Images[All(kid)])
            /\ Holds(img, sub + BufLens[All(kid)], ElementBytes(kid))
            /\ CountAt(img, sub).upper <=> kid \in data
            /\ CountAt(img, sub).lower = Len(nested[kid])
            /\ CountAt(img, sub).next = sub + BufLens[<<kid, 0>>]
<1> DEFINE kid == Kid(p, j)
           back == <<p, j - 1>>
           q == o + BufLens[back]
           l == BufLen(kid)
           m == SerialLen[l]
           sub == q + 1 + m
           s == Serial[l]
           c == <<Last(kid)>>
           k == Images[All(kid)]
           e == ElementBytes(kid)
<1>1. /\ kid \in nodes /\ Images[back] \in Bytes /\ KidImage(kid) \in Bytes
      /\ Images[<<p, j>>] = Images[back] \o KidImage(kid)
      /\ BufLens[back] \in Nat /\ back \in Visits
      /\ BufLens[<<p, j>>] = BufLens[back] + KidLen(l)
  BY ImagesStep, Zenon
<1>2. Holds(img, o, Images[<<p, j>>])
  <2>1. Len(nested[p]) \in Nat
    BY FewChildren, Zenon
  <2>2. j \in 0 .. Len(nested[p])
    BY <2>1
  <2> QED  BY <2>2, ImagesHeld, Zenon
<1>3. Len(Images[back]) = BufLens[back]
  BY <1>1, ImagesLens, Zenon
<1>4. l \in Nat /\ l = BufLens[All(kid)] + ElementLen(kid) /\ BufLens[All(kid)] \in Nat /\ All(kid) \in Visits
  BY <1>1, BufLenIs, Zenon DEF BufLen
<1>5. s \in Bytes /\ Len(s) = m /\ m \in Nat
  BY <1>4, SerialHolds, Zenon
<1>6. k \in Bytes /\ Len(k) = BufLens[All(kid)]
  BY <1>4, ImagesIs, ImagesLens, Zenon
<1>7. e \in Bytes
  BY <1>1, ElementIs, Zenon
<1>8. Last(kid) \in 0 .. 255
  <2>1. Last(kid) = nested[p][j] /\ nested[p][j] \in 0 .. 255
    BY KidIs, Zenon
  <2> QED  BY <2>1, Zenon
<1>9. c \in Bytes /\ Len(c) = 1 /\ c[1] = Last(kid)
  BY <1>8, OneByte, Zenon
<1>10. KidImage(kid) = c \o (s \o (k \o e))
  BY DEF KidImage, Image
<1>11. KidLen(l) = m + l + 1
  BY <1>4, KidLenIs, Zenon
<1>12. q \in Nat /\ q + 1 \in Nat /\ sub \in Nat /\ sub = (q + 1) + m
  BY <1>1, <1>5
<1>13. sub + l = o + BufLens[<<p, j>>]
  BY <1>1, <1>4, <1>5, <1>11
<1>14. KidOffset(q, kid) = sub
  BY DEF KidOffset
<1>15. Holds(img, q, KidImage(kid))
  <2> HIDE DEF kid, back, q
  <2>1. Holds(img, o, Images[back] \o KidImage(kid))
    BY <1>1, <1>2, Zenon
  <2>2. Holds(img, o + Len(Images[back]), KidImage(kid))
    BY <1>1, <2>1, HoldsParts, Zenon
  <2> QED  BY <1>3, <2>2, Zenon DEF q
<1> HIDE DEF kid, back, q, l, m, s, c, k, e
<1>16. k \o e \in Bytes /\ s \o (k \o e) \in Bytes
  <2>1. k \o e \in Bytes
    BY <1>6, <1>7, BytesJoin, Zenon
  <2> QED  BY <1>5, <2>1, BytesJoin, Zenon
<1>17. Holds(img, q, c) /\ Holds(img, q + 1, s \o (k \o e))
  BY <1>9, <1>10, <1>12, <1>15, <1>16, HoldsParts, Zenon
<1>18. Holds(img, q + 1, s) /\ Holds(img, (q + 1) + m, k \o e)
  BY <1>5, <1>12, <1>16, <1>17, HoldsParts, Zenon
<1>19. Holds(img, sub, k) /\ Holds(img, sub + BufLens[All(kid)], e)
  BY <1>6, <1>7, <1>12, <1>18, HoldsParts, Zenon
<1>20. Byte(img, q) = Last(kid)
  <2>1. 0 \in 0 .. Len(c) - 1
    BY <1>9
  <2>2. Byte(img, q + 0) = c[0 + 1]
    BY <1>9, <1>12, <1>17, <2>1, ByteHeld, Zenon
  <2>3. q + 0 = q
    BY <1>12
  <2>4. c[0 + 1] = c[1]
    OBVIOUS
  <2> QED  BY <1>9, <2>2, <2>3, <2>4, Zenon
<1>21. SerialAt(img)[q + 1] = [value |-> l, next |-> (q + 1) + m]
  BY <1>4, <1>12, <1>18, SerialRead, Zenon DEF s, m
<1>22. ChildAt(img, q).char = Last(kid) /\ ChildAt(img, q).sub = sub /\ ChildAt(img, q).next = sub + l
  <2> DEFINE r == SerialAt(img)[q + 1]
  <2>1. r.value = l /\ r.next = sub
    BY <1>12, <1>21
  <2> HIDE DEF r, sub
  <2>2. ChildAt(img, q) = [char |-> Byte(img, q), sub |-> r.next, next |-> r.next + r.value]
    BY DEF ChildAt, r
  <2> QED  BY <1>20, <2>1, <2>2
<1>23. /\ CountAt(img, sub).upper <=> kid \in data
       /\ CountAt(img, sub).lower = Len(nested[kid])
       /\ CountAt(img, sub).next = sub + BufLens[<<kid, 0>>]
  <2>1. Len(nested[kid]) \in Nat
    BY <1>1, FewChildren, Zenon
  <2>2. 0 \in 0 .. Len(nested[kid])
    BY <2>1
  <2>3. Holds(img, sub, Images[<<kid, 0>>])
    BY <1>1, <1>12, <1>19, <2>2, ImagesHeld, Zenon DEF k
  <2>4. <<kid, 0>> \in Visits
    BY <1>1, <2>1, <2>2 DEF Visits
  <2>5. Images[<<kid, 0>>] = StoreCount(kid) /\ BufLens[<<kid, 0>>] = CountBytes
    <3> DEFINE z == <<kid, 0>>
    <3>1. z[1] = kid /\ z[2] = 0
      OBVIOUS
    <3> HIDE DEF z
    <3>2. Images[z] = StoreCount(z[1]) /\ BufLens[z] = CountBytes
      BY <2>4, <3>1, ImagesIs, BufLensIs, Zenon DEF z
    <3> QED  BY <3>1, <3>2, Zenon DEF z
  <2> HIDE DEF sub
  <2>6. /\ CountAt(img, sub).upper <=> kid \in data
        /\ CountAt(img, sub).lower = Len(nested[kid])
        /\ CountAt(img, sub).next = sub + CountBytes
    BY <1>1, <1>12, <2>3, <2>5, CountRead, Zenon
  <2> QED  BY <2>5, <2>6, Zenon
<1> QED  BY <1>12, <1>13, <1>14, <1>19, <1>22, <1>23, Zenon DEF q, back, kid, l, m, k, e

-------------------------------------------------------------------------------
(* The walk of the reader through an image. *)

(* What the reader may look for: an offset, or no offset and all. *)
Goals == Nat \cup {-1}

(* A call offers an element where its bytes are, between two offsets. *)
Good(img, c, lo, hi) ==
  /\ c.key \in data /\ Holds(img, c.offset, ElementBytes(c.key))
  /\ lo <= c.offset /\ c.offset + ElementLen(c.key) <= hi

(* The calls between two offsets, one element behind the other. *)
Listed(img, calls, lo, hi) ==
  /\ lo <= hi /\ calls \in Seq(CallType)
  /\ \A j \in DOMAIN calls : Good(img, calls[j], lo, hi)
  /\ \A j, k \in DOMAIN calls : j < k => calls[j].offset + ElementLen(calls[j].key) <= calls[k].offset

(* The calls of one walk whose elements have the offset are calls of the other. *)
Kept(a, b, d) ==
  \A c \in ToSet(a) : c.offset <= d /\ d <= c.offset + ElementLen(c.key) => c \in ToSet(b)

(* The offsets of a call are numbers. *)
LEMMA CallIs ==
  ASSUME Grown, NEW c \in CallType, c.key \in data
  PROVE  c.offset \in Nat /\ ElementLen(c.key) \in Nat
<1>1. c.offset \in Nat
  BY DEF CallType
<1>2. data \subseteq nodes
  BY DEF Grown, TreeInv, TreeTypeOK
<1>3. c.key \in nodes
  BY <1>2
<1>4. ElementLen(c.key) \in Nat
  BY <1>3, ElementIs, Zenon
<1> QED  BY <1>1, <1>4

(* A walk without calls. *)
LEMMA ListedNone ==
  ASSUME NEW img, NEW lo \in Nat, NEW hi \in Nat, lo <= hi
  PROVE  Listed(img, <<>>, lo, hi)
<1>1. <<>> \in Seq(CallType) /\ DOMAIN <<>> = {}
  OBVIOUS
<1> QED  BY <1>1, Zenon DEF Listed

(* A walk with one. *)
LEMMA ListedOne ==
  ASSUME NEW img, NEW lo \in Nat, NEW hi \in Nat, lo <= hi, NEW c \in CallType, Good(img, c, lo, hi)
  PROVE  Listed(img, <<c>>, lo, hi)
<1>1. <<c>> \in Seq(CallType) /\ DOMAIN <<c>> = {1} /\ <<c>>[1] = c
  OBVIOUS
<1>2. \A j, k \in {1} : ~(j < k)
  OBVIOUS
<1> HIDE DEF Good
<1>3. \A j \in {1} : Good(img, <<c>>[j], lo, hi)
  BY <1>1
<1> QED  BY <1>1, <1>2, <1>3, Zenon DEF Listed

(* Two walks, one behind the other. *)
LEMMA ListedJoins ==
  ASSUME Grown, NEW img, NEW lo \in Nat, NEW m \in Nat, NEW l \in Nat, NEW hi \in Nat, m <= l,
         NEW a, NEW b, Listed(img, a, lo, m), Listed(img, b, l, hi)
  PROVE  Listed(img, a \o b, lo, hi)
<1>1. a \in Seq(CallType) /\ b \in Seq(CallType) /\ lo <= m /\ l <= hi
  BY Zenon DEF Listed
<1>2. lo <= hi
  BY <1>1
<1> DEFINE s == a \o b
<1>3. s \in Seq(CallType) /\ Len(a) \in Nat /\ Len(b) \in Nat /\ Len(s) = Len(a) + Len(b)
  BY <1>1
<1>4. DOMAIN s = 1 .. (Len(a) + Len(b)) /\ DOMAIN a = 1 .. Len(a) /\ DOMAIN b = 1 .. Len(b)
  BY <1>1, <1>3
<1>5. \A j \in 1 .. Len(a) : s[j] = a[j] /\ j \in DOMAIN a
  BY <1>1, <1>4
<1>6. \A j \in 1 .. Len(b) : s[Len(a) + j] = b[j] /\ j \in DOMAIN b
  BY <1>1, <1>4
<1>7. \A j \in DOMAIN s : j \in 1 .. Len(a) \/ \E i \in 1 .. Len(b) : j = Len(a) + i
  <2> SUFFICES ASSUME NEW j \in DOMAIN s, j \notin 1 .. Len(a)  PROVE \E i \in 1 .. Len(b) : j = Len(a) + i
    OBVIOUS
  <2>1. j \in 1 .. (Len(a) + Len(b))
    BY <1>4
  <2> HIDE DEF s
  <2>2. j - Len(a) \in 1 .. Len(b) /\ j = Len(a) + (j - Len(a))
    BY <1>3, <2>1
  <2> QED  BY <2>2
<1> HIDE DEF s
<1> DEFINE m1 == Len(a)
           m2 == Len(b)
<1>8. m1 \in Nat /\ m2 \in Nat
  BY <1>3
<1>9. \A j \in DOMAIN a : /\ Good(img, a[j], lo, m) /\ a[j] \in CallType
                          /\ a[j].offset \in Nat /\ ElementLen(a[j].key) \in Nat
  <2> SUFFICES ASSUME NEW j \in DOMAIN a
               PROVE  Good(img, a[j], lo, m) /\ a[j] \in CallType
                      /\ a[j].offset \in Nat /\ ElementLen(a[j].key) \in Nat
    OBVIOUS
  <2>1. Good(img, a[j], lo, m)
    BY Zenon DEF Listed
  <2>2. a[j] \in CallType
    BY <1>1
  <2>3. a[j].key \in data
    BY <2>1, Zenon DEF Good
  <2> QED  BY <2>1, <2>2, <2>3, CallIs, Zenon
<1>10. \A j \in DOMAIN b : /\ Good(img, b[j], l, hi) /\ b[j] \in CallType
                           /\ b[j].offset \in Nat /\ ElementLen(b[j].key) \in Nat
  <2> SUFFICES ASSUME NEW j \in DOMAIN b
               PROVE  Good(img, b[j], l, hi) /\ b[j] \in CallType
                      /\ b[j].offset \in Nat /\ ElementLen(b[j].key) \in Nat
    OBVIOUS
  <2>1. Good(img, b[j], l, hi)
    BY Zenon DEF Listed
  <2>2. b[j] \in CallType
    BY <1>1
  <2>3. b[j].key \in data
    BY <2>1, Zenon DEF Good
  <2> QED  BY <2>1, <2>2, <2>3, CallIs, Zenon
<1>11. \A j \in DOMAIN a : Good(img, a[j], lo, hi)
  <2> SUFFICES ASSUME NEW j \in DOMAIN a  PROVE Good(img, a[j], lo, hi)
    OBVIOUS
  <2> DEFINE u == a[j].offset
             v == ElementLen(a[j].key)
  <2>1. /\ a[j].key \in data /\ Holds(img, u, ElementBytes(a[j].key))
        /\ lo <= u /\ u + v <= m /\ u \in Nat /\ v \in Nat
    BY <1>9, Zenon DEF Good
  <2> HIDE DEF u, v
  <2>2. u + v <= hi
    BY <1>1, <2>1
  <2> QED  BY <2>1, <2>2, Zenon DEF Good, u, v
<1>12. \A j \in DOMAIN b : Good(img, b[j], lo, hi)
  <2> SUFFICES ASSUME NEW j \in DOMAIN b  PROVE Good(img, b[j], lo, hi)
    OBVIOUS
  <2> DEFINE u == b[j].offset
             v == ElementLen(b[j].key)
  <2>1. /\ b[j].key \in data /\ Holds(img, u, ElementBytes(b[j].key))
        /\ l <= u /\ u + v <= hi /\ u \in Nat /\ v \in Nat
    BY <1>10, Zenon DEF Good
  <2> HIDE DEF u, v
  <2>2. lo <= u
    BY <1>1, <2>1
  <2> QED  BY <2>1, <2>2, Zenon DEF Good, u, v
<1>13. \A j \in DOMAIN s : Good(img, s[j], lo, hi)
  <2> SUFFICES ASSUME NEW j \in DOMAIN s  PROVE Good(img, s[j], lo, hi)
    OBVIOUS
  <2>1. CASE j \in 1 .. Len(a)
    <3>1. s[j] = a[j] /\ j \in DOMAIN a
      BY <1>5, <2>1, Zenon
    <3> QED  BY <1>11, <3>1, Zenon
  <2>2. CASE \E i \in 1 .. Len(b) : j = Len(a) + i
    <3>1. PICK i \in 1 .. Len(b) : j = Len(a) + i
      BY <2>2
    <3>2. s[j] = b[i] /\ i \in DOMAIN b
      BY <1>6, <3>1, Zenon
    <3> QED  BY <1>12, <3>2, Zenon
  <2> QED  BY <1>7, <2>1, <2>2, Zenon
<1>14. ASSUME NEW j \in DOMAIN s, NEW k \in DOMAIN s, j < k
       PROVE  s[j].offset + ElementLen(s[j].key) <= s[k].offset
  <2>1. CASE j \in 1 .. Len(a) /\ k \in 1 .. Len(a)
    <3>1. s[j] = a[j] /\ j \in DOMAIN a /\ s[k] = a[k] /\ k \in DOMAIN a
      BY <1>5, <2>1, Zenon
    <3>2. a[j].offset + ElementLen(a[j].key) <= a[k].offset
      BY <1>14, <3>1, Zenon DEF Listed
    <3> QED  BY <3>1, <3>2, Zenon
  <2>2. CASE j \in 1 .. Len(a) /\ \E i \in 1 .. Len(b) : k = Len(a) + i
    <3>1. PICK i \in 1 .. Len(b) : k = Len(a) + i
      BY <2>2
    <3>2. s[j] = a[j] /\ j \in DOMAIN a /\ s[k] = b[i] /\ i \in DOMAIN b
      BY <1>5, <1>6, <2>2, <3>1, Zenon
    <3> DEFINE u == a[j].offset
               v == ElementLen(a[j].key)
               w == b[i].offset
    <3>3. u \in Nat /\ v \in Nat /\ u + v <= m /\ w \in Nat /\ l <= w
      BY <1>9, <1>10, <3>2, Zenon DEF Good
    <3> HIDE DEF u, v, w
    <3>4. u + v <= w
      BY <3>3
    <3> QED  BY <3>2, <3>4, Zenon DEF u, v, w
  <2>3. CASE (\E i \in 1 .. Len(b) : j = Len(a) + i) /\ k \in 1 .. Len(a)
    <3>1. PICK i \in 1 .. Len(b) : j = Len(a) + i
      BY <2>3
    <3>2. FALSE
      BY <1>8, <1>14, <2>3, <3>1
    <3> QED  BY <3>2
  <2>4. CASE (\E i \in 1 .. Len(b) : j = Len(a) + i) /\ (\E i \in 1 .. Len(b) : k = Len(a) + i)
    <3>1. PICK g \in 1 .. Len(b) : j = Len(a) + g
      BY <2>4
    <3>2. PICK i \in 1 .. Len(b) : k = Len(a) + i
      BY <2>4
    <3>3. s[j] = b[g] /\ g \in DOMAIN b /\ s[k] = b[i] /\ i \in DOMAIN b
      BY <1>6, <3>1, <3>2, Zenon
    <3>4. g < i
      BY <1>8, <1>14, <3>1, <3>2
    <3>5. b[g].offset + ElementLen(b[g].key) <= b[i].offset
      BY <3>3, <3>4, Zenon DEF Listed
    <3> QED  BY <3>3, <3>5, Zenon
  <2> QED  BY <1>7, <2>1, <2>2, <2>3, <2>4, Zenon
<1>15. \A j, k \in DOMAIN s : j < k => s[j].offset + ElementLen(s[j].key) <= s[k].offset
  BY <1>14, Zenon
<1> QED  BY <1>2, <1>3, <1>13, <1>15, Zenon DEF Listed, s

(* What one sequence behind another holds. *)
LEMMA JoinHolds ==
  ASSUME NEW T, NEW a \in Seq(T), NEW b \in Seq(T)
  PROVE  ToSet(a \o b) = ToSet(a) \cup ToSet(b)
<1> DEFINE s == a \o b
<1>1. DOMAIN s = 1 .. (Len(a) + Len(b)) /\ DOMAIN a = 1 .. Len(a) /\ DOMAIN b = 1 .. Len(b)
      /\ Len(a) \in Nat /\ Len(b) \in Nat
  OBVIOUS
<1>2. \A j \in 1 .. Len(a) : s[j] = a[j] /\ j \in DOMAIN s
  OBVIOUS
<1>3. \A j \in 1 .. Len(b) : s[Len(a) + j] = b[j] /\ Len(a) + j \in DOMAIN s
  OBVIOUS
<1>4. ASSUME NEW c \in ToSet(s)  PROVE c \in ToSet(a) \cup ToSet(b)
  <2>1. PICK j \in DOMAIN s : c = s[j]
    BY DEF ToSet
  <2> HIDE DEF s
  <2>2. CASE j \in 1 .. Len(a)
    <3>1. c = a[j] /\ j \in DOMAIN a
      BY <1>1, <1>2, <2>1, <2>2, Zenon
    <3> QED  BY <3>1 DEF ToSet
  <2>3. CASE j \notin 1 .. Len(a)
    <3>1. j - Len(a) \in 1 .. Len(b) /\ Len(a) + (j - Len(a)) = j
      BY <1>1, <2>3
    <3> DEFINE i == j - Len(a)
    <3>2. i \in 1 .. Len(b) /\ Len(a) + i = j
      BY <3>1
    <3> HIDE DEF i
    <3>3. c = b[i] /\ i \in DOMAIN b
      BY <1>1, <1>3, <2>1, <3>2, Zenon
    <3> QED  BY <3>3 DEF ToSet
  <2> QED  BY <2>2, <2>3
<1>5. ASSUME NEW c \in ToSet(a)  PROVE c \in ToSet(s)
  <2>1. PICK j \in DOMAIN a : c = a[j]
    BY DEF ToSet
  <2> HIDE DEF s
  <2>2. c = s[j] /\ j \in DOMAIN s
    BY <1>1, <1>2, <2>1
  <2> QED  BY <2>2 DEF ToSet
<1>6. ASSUME NEW c \in ToSet(b)  PROVE c \in ToSet(s)
  <2>1. PICK j \in DOMAIN b : c = b[j]
    BY DEF ToSet
  <2> HIDE DEF s
  <2>2. c = s[Len(a) + j] /\ Len(a) + j \in DOMAIN s
    BY <1>1, <1>3, <2>1
  <2> QED  BY <2>2 DEF ToSet
<1> HIDE DEF s
<1>7. ToSet(s) = ToSet(a) \cup ToSet(b)
  BY <1>4, <1>5, <1>6, Zenon
<1> QED  BY <1>7 DEF s

(* Two walks keep what their parts keep. *)
LEMMA KeptJoins ==
  ASSUME NEW a \in Seq(CallType), NEW b \in Seq(CallType), NEW e \in Seq(CallType), NEW f \in Seq(CallType),
         NEW d, Kept(a, e, d), Kept(b, f, d)
  PROVE  Kept(a \o b, e \o f, d)
<1>1. ToSet(a \o b) = ToSet(a) \cup ToSet(b) /\ ToSet(e \o f) = ToSet(e) \cup ToSet(f)
  BY JoinHolds, Zenon
<1> QED  BY <1>1, Zenon DEF Kept

(* The walk from a visit on, when the node's image stands at an offset. *)
CursorAt(o, x) == <<o + BufLens[x], Len(nested[x[1]]) - x[2], x[1]>>

Walk(img, d, o, x) == Tracked(img, d)[CursorAt(o, x)]

(* It comes to the end of the image, with calls that offer elements where they *)
(* stand; the search for an offset offers all that have it; and the search for *)
(* none offers what Enumerate acts on.                                         *)
WalkFound(img, o, x) ==
  LET to == o + BufLens[All(x[1])]
  IN /\ \A d \in Goals : /\ Walk(img, d, o, x).next = to
                         /\ Listed(img, Walk(img, d, o, x).calls, o + BufLens[x], to)
     /\ \A d \in Nat : Kept(Walk(img, -1, o, x).calls, Walk(img, d, o, x).calls, d)
     /\ Enumerated[<<x[1], Len(nested[x[1]]), o>>].calls =
          Enumerated[<<x[1], x[2], o>>].calls \o Walk(img, -1, o, x).calls

(* A visit is a cursor. *)
LEMMA CursorIs ==
  ASSUME Grown, NEW o \in Nat, NEW p \in nodes, NEW i \in 0 .. Len(nested[p])
  PROVE  /\ <<p, i>> \in Visits /\ BufLens[<<p, i>>] \in Nat /\ o + BufLens[<<p, i>>] \in Nat
         /\ Len(nested[p]) - i \in Nat
         /\ CursorAt(o, <<p, i>>) = <<o + BufLens[<<p, i>>], Len(nested[p]) - i, p>>
         /\ CursorAt(o, <<p, i>>) \in Cursors
<1> DEFINE n == Len(nested[p])
<1>1. n \in Nat /\ n <= 256
  BY FewChildren, Zenon
<1>2. i \in Nat /\ i <= n /\ n - i \in 0 .. 256 /\ n - i \in Nat
  <2>1. i \in 0 .. n
    OBVIOUS
  <2> HIDE DEF n
  <2> QED  BY <1>1, <2>1
<1>3. <<p, i>> \in Visits
  BY <1>2 DEF Visits
<1>4. BufLens[<<p, i>>] \in Nat
  BY <1>3, BufLensIs, Zenon
<1>5. o + BufLens[<<p, i>>] \in Nat
  BY <1>4
<1>6. n - i \in Counts
  BY <1>2, SmallCounts, Zenon
<1>7. p \in Seq(0 .. 255)
  BY PathIs, Zenon
<1>8. CursorAt(o, <<p, i>>) = <<o + BufLens[<<p, i>>], n - i, p>>
  BY DEF CursorAt
<1> HIDE DEF n
<1>9. \A a \in Nat, b \in Counts, s \in Seq(0 .. 255) : <<a, b, s>> \in Cursors
  BY DEF Cursors
<1>10. CursorAt(o, <<p, i>>) \in Cursors
  BY <1>5, <1>6, <1>7, <1>8, <1>9, Zenon
<1> QED  BY <1>2, <1>3, <1>4, <1>5, <1>8, <1>10, Zenon DEF n

(* A walk comes to an offset, with calls. *)
LEMMA WalkTyped ==
  ASSUME Grown, NEW img \in Bytes, NEW d, NEW o \in Nat, NEW p \in nodes, NEW i \in 0 .. Len(nested[p])
  PROVE  Walk(img, d, o, <<p, i>>) \in Tracking
<1>1. CursorAt(o, <<p, i>>) \in Cursors
  BY CursorIs, Zenon
<1>2. index \in BOOLEAN
  BY DEF Grown
<1> QED  BY <1>1, <1>2, TrackedIs, Zenon DEF Walk

(* What a child gives, when it stands between lo and hi. *)
Given(d, kid, lo, hi, kids) ==
  IF d = -1 \/ (d >= lo /\ d <= hi)
  THEN IF kid \in data THEN Append(kids.calls, [key |-> kid, offset |-> kids.next]) ELSE kids.calls
  ELSE <<>>

(* One child of the walk. *)
LEMMA WalkUnfolds ==
  ASSUME Grown, NEW img \in Bytes, NEW d, NEW o \in Nat, NEW p \in nodes, Holds(img, o, Images[All(p)]),
         NEW j \in 1 .. Len(nested[p])
  PROVE  LET kid == Kid(p, j)
             sub == KidOffset(o + BufLens[<<p, j - 1>>], kid)
             behind == Walk(img, d, o, <<p, j>>)
         IN /\ Walk(img, d, o, <<p, j - 1>>).next = behind.next
            /\ Walk(img, d, o, <<p, j - 1>>).calls =
                 Given(d, kid, sub, o + BufLens[<<p, j>>], Walk(img, d, sub, <<kid, 0>>)) \o behind.calls
<1> DEFINE kid == Kid(p, j)
           q == o + BufLens[<<p, j - 1>>]
           sub == KidOffset(q, kid)
           to == o + BufLens[<<p, j>>]
           n == Len(nested[p])
           x == CursorAt(o, <<p, j - 1>>)
           c == ChildAt(img, q)
<1>1. n \in Nat
  BY FewChildren, Zenon
<1>2. /\ j - 1 \in 0 .. n /\ j \in 0 .. n /\ n - (j - 1) \in Nat /\ n - (j - 1) # 0
      /\ (n - (j - 1)) - 1 = n - j
  BY <1>1
<1>3. x = <<q, n - (j - 1), p>> /\ x \in Cursors /\ q \in Nat
  BY <1>2, CursorIs, Zenon
<1>4. CursorAt(o, <<p, j>>) = <<to, n - j, p>>
  BY <1>2, CursorIs, Zenon
<1>5. /\ sub \in Nat /\ c.char = Last(kid) /\ c.sub = sub /\ c.next = to
      /\ CountAt(img, sub).upper <=> kid \in data
      /\ CountAt(img, sub).lower = Len(nested[kid])
      /\ CountAt(img, sub).next = sub + BufLens[<<kid, 0>>]
  <2> DEFINE at1 == q + 1 + SerialLen[BufLen(kid)]
  <2>1. sub = at1
    BY DEF KidOffset
  <2>2. /\ at1 \in Nat /\ c.char = Last(kid) /\ c.sub = at1 /\ c.next = to
        /\ CountAt(img, at1).upper <=> kid \in data
        /\ CountAt(img, at1).lower = Len(nested[kid])
        /\ CountAt(img, at1).next = at1 + BufLens[<<kid, 0>>]
    BY KidHeld, Zenon
  <2> HIDE DEF at1, sub, c, kid, to
  <2> QED  BY <2>1, <2>2, Zenon
<1>6. kid \in nodes /\ Append(p, Last(kid)) = kid
  <2>1. kid \in nodes /\ Last(kid) = nested[p][j]
    BY KidIs, Zenon
  <2>2. kid = Append(p, nested[p][j])
    BY DEF Kid
  <2> HIDE DEF kid
  <2> QED  BY <2>1, <2>2, Zenon
<1>7. CursorAt(sub, <<kid, 0>>) = <<sub + BufLens[<<kid, 0>>], Len(nested[kid]), kid>>
  <2>1. Len(nested[kid]) \in Nat
    BY <1>6, FewChildren, Zenon
  <2>2. 0 \in 0 .. Len(nested[kid]) /\ Len(nested[kid]) - 0 = Len(nested[kid])
    BY <2>1
  <2>3. CursorAt(sub, <<kid, 0>>) = <<sub + BufLens[<<kid, 0>>], Len(nested[kid]) - 0, kid>>
    <3> HIDE DEF kid, sub
    <3> QED  BY <1>5, <1>6, <2>2, CursorIs, Zenon
  <2> QED  BY <2>2, <2>3, Zenon
<1> HIDE DEF kid, sub, q, to, n
<1>8. x[1] = q /\ x[2] = n - (j - 1) /\ x[3] = p
  BY <1>3
<1> HIDE DEF x
<1>9. KidOf(img, x) = CursorAt(sub, <<kid, 0>>)
  <2>1. KidOf(img, x) = <<CountAt(img, sub).next, CountAt(img, sub).lower, Append(p, Last(kid))>>
    BY <1>5, <1>8, Zenon DEF KidOf, c
  <2> QED  BY <1>5, <1>6, <1>7, <2>1, Zenon
<1>10. NextOf(img, x) = CursorAt(o, <<p, j>>)
  <2>1. NextOf(img, x) = <<to, (n - (j - 1)) - 1, p>>
    BY <1>5, <1>8, Zenon DEF NextOf, c
  <2> QED  BY <1>2, <1>4, <2>1, Zenon
<1>11. index \in BOOLEAN
  BY DEF Grown
<1>12. Tracked(img, d)[x] =
          [next |-> Tracked(img, d)[NextOf(img, x)].next,
           calls |-> CallsOf(img, d, x, Tracked(img, d)[KidOf(img, x)]) \o Tracked(img, d)[NextOf(img, x)].calls]
  BY <1>2, <1>3, <1>8, <1>11, TrackedIs, Zenon
<1>13. CallsOf(img, d, x, Walk(img, d, sub, <<kid, 0>>)) = Given(d, kid, sub, to, Walk(img, d, sub, <<kid, 0>>))
  <2> DEFINE kids == Walk(img, d, sub, <<kid, 0>>)
  <2> HIDE DEF kids
  <2>1. Enters(d, c) <=> d = -1 \/ (d >= sub /\ d <= to)
    BY <1>5, Zenon DEF Enters
  <2>2. Offered(CountAt(img, sub), kid, kids) =
          IF kid \in data THEN Append(kids.calls, [key |-> kid, offset |-> kids.next]) ELSE kids.calls
    <3>1. Offered(CountAt(img, sub), kid, kids) =
            IF CountAt(img, sub).upper THEN Append(kids.calls, [key |-> kid, offset |-> kids.next]) ELSE kids.calls
      BY DEF Offered
    <3> QED  BY <1>5, <3>1, Zenon
  <2>3. CallsOf(img, d, x, kids) = IF Enters(d, c) THEN Offered(CountAt(img, c.sub), Append(p, c.char), kids) ELSE <<>>
    BY <1>8, Zenon DEF CallsOf, c
  <2>4. CallsOf(img, d, x, kids) = IF Enters(d, c) THEN Offered(CountAt(img, sub), kid, kids) ELSE <<>>
    BY <1>5, <1>6, <2>3, Zenon
  <2>5. CallsOf(img, d, x, kids) = Given(d, kid, sub, to, kids)
    BY <2>1, <2>2, <2>4, Zenon DEF Given
  <2> QED  BY <2>5 DEF kids
<1>14. Tracked(img, d)[x] =
          [next |-> Walk(img, d, o, <<p, j>>).next,
           calls |-> Given(d, kid, sub, to, Walk(img, d, sub, <<kid, 0>>)) \o Walk(img, d, o, <<p, j>>).calls]
  BY <1>9, <1>10, <1>12, <1>13, Zenon DEF Walk
<1>15. Walk(img, d, o, <<p, j - 1>>) = Tracked(img, d)[x]
  BY DEF Walk, x
<1>16. /\ Walk(img, d, o, <<p, j - 1>>).next = Walk(img, d, o, <<p, j>>).next
       /\ Walk(img, d, o, <<p, j - 1>>).calls =
            Given(d, kid, sub, to, Walk(img, d, sub, <<kid, 0>>)) \o Walk(img, d, o, <<p, j>>).calls
  <2> DEFINE a == Walk(img, d, o, <<p, j>>).next
             b == Given(d, kid, sub, to, Walk(img, d, sub, <<kid, 0>>)) \o Walk(img, d, o, <<p, j>>).calls
             w == Walk(img, d, o, <<p, j - 1>>)
  <2>1. w = [next |-> a, calls |-> b]
    BY <1>14, <1>15, Zenon
  <2> HIDE DEF a, b, w
  <2>2. w.next = a /\ w.calls = b
    BY <2>1
  <2> QED  BY <2>2 DEF a, b, w
<1> QED  BY <1>16, Zenon DEF kid, sub, q, to

(* What a child gives is where it stands. *)
LEMMA GivenListed ==
  ASSUME Grown, NEW img, NEW d, NEW kid \in nodes, NEW lo \in Nat, NEW in \in Nat, NEW hi \in Nat,
         NEW kids \in Tracking, lo <= in, kids.next + ElementLen(kid) = hi,
         Listed(img, kids.calls, in, kids.next), Holds(img, kids.next, ElementBytes(kid))
  PROVE  Given(d, kid, lo, hi, kids) \in Seq(CallType) /\ Listed(img, Given(d, kid, lo, hi, kids), lo, hi)
<1> DEFINE m == kids.next
           l == ElementLen(kid)
           call == [key |-> kid, offset |-> m]
<1>1. m \in Nat /\ kids.calls \in Seq(CallType)
  BY DEF Tracking
<1>2. l \in Nat
  BY ElementIs, Zenon
<1>3. in <= m
  BY Zenon DEF Listed
<1>4. call \in CallType /\ call.key = kid /\ call.offset = m
  <2>1. kid \in Seq(0 .. 255)
    BY PathIs, Zenon
  <2> QED  BY <1>1, <2>1 DEF CallType
<1> HIDE DEF m, l, call
<1>5. m + l = hi
  BY Zenon DEF m, l
<1>6. lo <= hi /\ m <= hi /\ lo <= m /\ m <= m
  BY <1>1, <1>2, <1>3, <1>5
<1>7. Listed(img, <<>>, lo, hi)
  BY <1>6, ListedNone, Zenon
<1>8. \A n \in Nat : m <= n => Listed(img, <<>>, n, n)
  <2>1. \A n \in Nat : n <= n
    OBVIOUS
  <2> QED  BY <2>1, ListedNone, Zenon
<1>9. Listed(img, kids.calls, lo, m)
  <2>1. Listed(img, <<>>, lo, in)
    BY ListedNone, Zenon
  <2>2. Listed(img, kids.calls, in, m)
    BY DEF m
  <2>3. in <= in
    OBVIOUS
  <2>4. Listed(img, <<>> \o kids.calls, lo, m)
    BY <1>1, <2>1, <2>2, <2>3, ListedJoins, Zenon
  <2>5. <<>> \o kids.calls = kids.calls
    BY <1>1
  <2> QED  BY <2>4, <2>5, Zenon
<1>10. Listed(img, kids.calls, lo, hi)
  <2>1. Listed(img, <<>>, m, hi)
    BY <1>1, <1>6, ListedNone, Zenon
  <2>2. Listed(img, kids.calls \o <<>>, lo, hi)
    BY <1>1, <1>6, <1>9, <2>1, ListedJoins, Zenon
  <2>3. kids.calls \o <<>> = kids.calls
    BY <1>1
  <2> QED  BY <2>2, <2>3, Zenon
<1>11. ASSUME kid \in data  PROVE Listed(img, Append(kids.calls, call), lo, hi)
  <2>1. hi <= hi
    OBVIOUS
  <2>2. Good(img, call, m, hi)
    <3>1. Holds(img, m, ElementBytes(kid))
      BY DEF m
    <3>2. m + l <= hi
      BY <1>5, <2>1, Zenon
    <3> QED  BY <1>4, <1>6, <1>11, <3>1, <3>2, Zenon DEF Good, l
  <2>3. Listed(img, <<call>>, m, hi)
    BY <1>1, <1>4, <1>6, <2>2, ListedOne, Zenon
  <2>4. Listed(img, kids.calls \o <<call>>, lo, hi)
    BY <1>1, <1>6, <1>9, <2>3, ListedJoins, Zenon
  <2>5. kids.calls \o <<call>> = Append(kids.calls, call)
    BY <1>1, <1>4
  <2> QED  BY <2>4, <2>5, Zenon
<1>12. Given(d, kid, lo, hi, kids) \in {<<>>, kids.calls} \cup (IF kid \in data THEN {Append(kids.calls, call)} ELSE {})
  BY Zenon DEF Given, call, m
<1>13. Listed(img, Given(d, kid, lo, hi, kids), lo, hi)
  <2>1. CASE kid \in data
    <3>1. Given(d, kid, lo, hi, kids) \in {<<>>, kids.calls, Append(kids.calls, call)}
      BY <1>12, <2>1, Zenon
    <3> QED  BY <1>7, <1>10, <1>11, <2>1, <3>1, Zenon
  <2>2. CASE kid \notin data
    <3>1. Given(d, kid, lo, hi, kids) \in {<<>>, kids.calls}
      BY <1>12, <2>2, Zenon
    <3> QED  BY <1>7, <1>10, <3>1, Zenon
  <2> QED  BY <2>1, <2>2
<1> QED  BY <1>13, Zenon DEF Listed

(* The calls of a walk start behind any earlier offset. *)
LEMMA ListedWider ==
  ASSUME Grown, NEW img, NEW lo \in Nat, NEW in \in Nat, NEW hi \in Nat, lo <= in,
         NEW a, Listed(img, a, in, hi)
  PROVE  Listed(img, a, lo, hi)
<1>1. Listed(img, <<>>, lo, in)
  BY ListedNone, Zenon
<1>2. in <= in
  OBVIOUS
<1>3. Listed(img, <<>> \o a, lo, hi)
  BY <1>1, <1>2, ListedJoins, Zenon
<1>4. a \in Seq(CallType)
  BY Zenon DEF Listed
<1>5. <<>> \o a = a
  BY <1>4
<1> QED  BY <1>3, <1>5, Zenon

(* A search for an offset goes into the child whose element or descendants     *)
(* have it.                                                                     *)
LEMMA GivenKept ==
  ASSUME Grown, NEW img, NEW d \in Nat, NEW kid \in nodes, NEW lo \in Nat, NEW hi \in Nat,
         NEW kids \in Tracking, NEW kids2 \in Tracking, kids.next = kids2.next,
         Kept(kids.calls, kids2.calls, d), Listed(img, Given(-1, kid, lo, hi, kids), lo, hi)
  PROVE  Kept(Given(-1, kid, lo, hi, kids), Given(d, kid, lo, hi, kids2), d)
<1> DEFINE call == [key |-> kid, offset |-> kids.next]
           A == IF kid \in data THEN Append(kids.calls, call) ELSE kids.calls
           B == IF kid \in data THEN Append(kids2.calls, call) ELSE kids2.calls
<1>1. kids.next \in Nat /\ kids.calls \in Seq(CallType) /\ kids2.calls \in Seq(CallType)
  BY DEF Tracking
<1>2. kid \in Seq(0 .. 255)
  BY PathIs, Zenon
<1>3. call \in CallType
  BY <1>1, <1>2 DEF CallType
<1>4. Given(-1, kid, lo, hi, kids) = A
  BY Zenon DEF Given
<1>5. d >= lo /\ d <= hi => Given(d, kid, lo, hi, kids2) = B
  BY Zenon DEF Given
<1> HIDE DEF call
<1>6. Kept(A, B, d)
  <2>1. CASE kid \in data
    <3>1. Kept(<<call>>, <<call>>, d)
      BY Zenon DEF Kept
    <3>2. <<call>> \in Seq(CallType)
      BY <1>3
    <3>3. Kept(kids.calls \o <<call>>, kids2.calls \o <<call>>, d)
      BY <1>1, <3>1, <3>2, KeptJoins, Zenon
    <3>4. A = kids.calls \o <<call>> /\ B = kids2.calls \o <<call>>
      BY <1>1, <1>3, <2>1
    <3> QED  BY <3>3, <3>4, Zenon
  <2>2. CASE kid \notin data
    <3>1. A = kids.calls /\ B = kids2.calls
      BY <2>2, Zenon
    <3> QED  BY <3>1, Zenon
  <2> QED  BY <2>1, <2>2
<1> HIDE DEF A, B
<1> SUFFICES ASSUME NEW c \in ToSet(A), c.offset <= d, d <= c.offset + ElementLen(c.key)
             PROVE  c \in ToSet(Given(d, kid, lo, hi, kids2))
  BY <1>4, Zenon DEF Kept
<1>7. PICK j \in DOMAIN A : c = A[j]
  BY DEF ToSet
<1>8. Listed(img, A, lo, hi)
  BY <1>4, Zenon
<1>9. Good(img, c, lo, hi)
  BY <1>7, <1>8, Zenon DEF Listed
<1>10. c \in CallType
  <2>1. A \in Seq(CallType)
    BY <1>8, Zenon DEF Listed
  <2> QED  BY <1>7, <2>1
<1>11. c.key \in data /\ lo <= c.offset /\ c.offset + ElementLen(c.key) <= hi
  BY <1>9, Zenon DEF Good
<1>12. c.offset \in Nat /\ ElementLen(c.key) \in Nat
  BY <1>10, <1>11, CallIs, Zenon
<1> DEFINE u == c.offset
           v == ElementLen(c.key)
<1>13. d >= lo /\ d <= hi
  <2>1. u \in Nat /\ v \in Nat /\ lo <= u /\ u + v <= hi /\ u <= d /\ d <= u + v
    BY <1>11, <1>12
  <2> HIDE DEF u, v
  <2> QED  BY <2>1
<1>14. c \in ToSet(B)
  BY <1>6, Zenon DEF Kept
<1> QED  BY <1>5, <1>13, <1>14, Zenon

(* At the end there is nothing more to find. *)
LEMMA WalkEnd ==
  ASSUME Grown, NEW img \in Bytes, NEW o \in Nat, NEW p \in nodes
  PROVE  WalkFound(img, o, <<p, Len(nested[p])>>)
<1> DEFINE n == Len(nested[p])
           x == <<p, n>>
           to == o + BufLens[<<p, n>>]
<1>1. n \in Nat /\ n \in 0 .. n /\ n - n = 0
  <2>1. n \in Nat
    BY FewChildren, Zenon
  <2> HIDE DEF n
  <2> QED  BY <2>1
<1>2. CursorAt(o, <<p, n>>) = <<to, 0, p>> /\ CursorAt(o, <<p, n>>) \in Cursors /\ to \in Nat
  BY <1>1, CursorIs, Zenon
<1>3. index \in BOOLEAN
  BY DEF Grown
<1> DEFINE c == <<to, 0, p>>
<1>4. c[1] = to /\ c[2] = 0
  OBVIOUS
<1> HIDE DEF c
<1>5. ASSUME NEW d  PROVE Walk(img, d, o, <<p, n>>) = [next |-> to, calls |-> <<>>]
  <2>1. c \in Cursors /\ CursorAt(o, <<p, n>>) = c
    BY <1>2 DEF c
  <2>2. Tracked(img, d)[c] = [next |-> c[1], calls |-> <<>>]
    BY <1>3, <1>4, <2>1, TrackedIs, Zenon
  <2> QED  BY <1>4, <2>1, <2>2, Zenon DEF Walk
<1> HIDE DEF to, n
<1>6. \A d : Walk(img, d, o, <<p, n>>).next = to /\ Walk(img, d, o, <<p, n>>).calls = <<>>
  <2> SUFFICES ASSUME NEW d  PROVE Walk(img, d, o, <<p, n>>).next = to /\ Walk(img, d, o, <<p, n>>).calls = <<>>
    OBVIOUS
  <2>1. Walk(img, d, o, <<p, n>>) = [next |-> to, calls |-> <<>>]
    BY <1>5
  <2> QED  BY <2>1
<1>7. Listed(img, <<>>, to, to)
  <2>1. to <= to
    BY <1>2
  <2> QED  BY <1>2, <2>1, ListedNone, Zenon
<1>8. \A d : Kept(<<>>, <<>>, d)
  BY Zenon DEF Kept
<1>9. Enumerated[<<p, n, o>>].calls \o <<>> = Enumerated[<<p, n, o>>].calls
  <2>1. <<p, n, o>> \in Ways
    BY <1>1 DEF Ways, n
  <2>2. Enumerated[<<p, n, o>>] \in Traversal
    BY <2>1, EnumeratedIs, Zenon
  <2> DEFINE a == Enumerated[<<p, n, o>>]
  <2> HIDE DEF a
  <2>3. a.calls \in Seq(CallType)
    BY <2>2 DEF Traversal, a
  <2>4. a.calls \o <<>> = a.calls
    BY <2>3
  <2> QED  BY <2>4 DEF a
<1>10. <<p, n>>[1] = p /\ <<p, n>>[2] = n /\ All(p) = <<p, n>> /\ Len(nested[p]) = n /\ o + BufLens[<<p, n>>] = to
  BY DEF All, n, to
<1> HIDE DEF x
<1>11. WalkFound(img, o, <<p, n>>)
  <2>1. \A d \in Goals : Walk(img, d, o, <<p, n>>).next = to /\ Listed(img, Walk(img, d, o, <<p, n>>).calls, to, to)
    BY <1>6, <1>7, Zenon
  <2>2. \A d \in Nat : Kept(Walk(img, -1, o, <<p, n>>).calls, Walk(img, d, o, <<p, n>>).calls, d)
    BY <1>6, <1>8, Zenon
  <2>3. Enumerated[<<p, n, o>>].calls = Enumerated[<<p, n, o>>].calls \o Walk(img, -1, o, <<p, n>>).calls
    BY <1>6, <1>9, Zenon
  <2> QED  BY <1>10, <2>1, <2>2, <2>3, Zenon DEF WalkFound
<1> QED  BY <1>11 DEF n

(* A walk through a child, from its start, that gives what Enumerate does.     *)
KidFound(o, p, j, sub, kids) ==
  /\ sub = KidOffset(o + BufLens[<<p, j - 1>>], Kid(p, j))
  /\ kids.next = sub + BufLens[All(Kid(p, j))] /\ kids.calls \in Seq(CallType)
  /\ Enumerated[<<Kid(p, j), Len(nested[Kid(p, j)]), sub>>].calls =
       Enumerated[<<Kid(p, j), 0, sub>>].calls \o kids.calls

KidJoined(o, p, j, given) ==
  /\ Enumerated[<<p, j - 1, o>>].calls \in Seq(CallType)
  /\ Enumerated[<<p, j, o>>].calls = Enumerated[<<p, j - 1, o>>].calls \o given

(* What Enumerate acts on for one child is what the search for none is given.  *)
LEMMA EnumeratedKid ==
  ASSUME Grown, NEW o \in Nat, NEW p \in nodes, NEW j \in 1 .. Len(nested[p]),
         NEW sub, NEW kids, KidFound(o, p, j, sub, kids), NEW hi
  PROVE  KidJoined(o, p, j, Given(-1, Kid(p, j), sub, hi, kids))
<1> DEFINE kid == Kid(p, j)
           n == Len(nested[p])
           x == <<p, j, o>>
           before == Enumerated[<<p, j - 1, o>>]
           down == Enumerated[<<kid, Len(nested[kid]), sub>>]
<1>0. /\ sub = KidOffset(o + BufLens[<<p, j - 1>>], kid)
      /\ kids.next = sub + BufLens[All(kid)] /\ kids.calls \in Seq(CallType)
      /\ down.calls = Enumerated[<<kid, 0, sub>>].calls \o kids.calls
  BY Zenon DEF KidFound
<1>1. n \in Nat
  BY FewChildren, Zenon
<1>2. j \in Nat /\ j # 0 /\ j <= n /\ j - 1 \in Nat /\ j - 1 <= n
  <2>1. j \in 1 .. n
    OBVIOUS
  <2> HIDE DEF n
  <2> QED  BY <1>1, <2>1
<1>3. x \in Ways /\ <<p, j - 1, o>> \in Ways /\ <<p, j - 1>> \in Visits
  <2>1. \A a \in nodes, b \in Nat, c \in Nat : b <= Len(nested[a]) => <<a, b, c>> \in Ways /\ <<a, b>> \in Visits
    BY DEF Ways, Visits
  <2> QED  BY <1>2, <2>1, Zenon
<1>4. x[1] = p /\ x[2] = j /\ x[3] = o
  OBVIOUS
<1>5. kid \in nodes /\ BufLens[<<p, j - 1>>] \in Nat
  BY ImagesStep, Zenon
<1>6. before.offset = o + BufLens[<<p, j - 1>>]
  <2> DEFINE w == <<p, j - 1, o>>
  <2>1. w[1] = p /\ w[2] = j - 1 /\ w[3] = o
    OBVIOUS
  <2>2. w \in Ways
    BY <1>3
  <2> HIDE DEF w
  <2>3. Enumerated[w].offset = w[3] + BufLens[<<w[1], w[2]>>]
    BY <2>2, OffsetsAre, Zenon
  <2> QED  BY <2>1, <2>3, Zenon DEF w
<1>7. KidOffset(before.offset, kid) = sub
  BY <1>0, <1>6, Zenon
<1> HIDE DEF x, kid
<1>8. /\ before \in Traversal /\ down \in Traversal /\ sub \in Nat
      /\ Enumerated[x].calls = before.calls \o Acted(kid, down).calls
  <2>1. LET d == Kid(x[1], x[2])
            b == Enumerated[<<x[1], x[2] - 1, x[3]>>]
            start == KidOffset(b.offset, d)
            k == Enumerated[<<d, Len(nested[d]), start>>]
        IN /\ b \in Traversal /\ k \in Traversal /\ start \in Nat
           /\ Enumerated[x].calls = b.calls \o Acted(d, k).calls
    BY <1>2, <1>3, <1>4, EnumeratedStep, Zenon
  <2>2. Kid(x[1], x[2]) = kid
    BY <1>4 DEF kid
  <2>3. <<x[1], x[2] - 1, x[3]>> = <<p, j - 1, o>>
    BY <1>4
  <2> QED  BY <1>7, <2>1, <2>2, <2>3, Zenon
<1>9. Enumerated[<<kid, 0, sub>>].calls = <<>>
  <2> DEFINE w == <<kid, 0, sub>>
  <2>1. Len(nested[kid]) \in Nat
    BY <1>5, FewChildren, Zenon
  <2>2. w \in Ways /\ w[2] = 0
    BY <1>5, <1>8, <2>1 DEF Ways
  <2> HIDE DEF w
  <2>3. Enumerated[w] = [offset |-> w[3] + CountBytes, calls |-> <<>>]
    BY <2>2, EnumeratedIs, Zenon
  <2>4. Enumerated[w].calls = <<>>
    BY <2>3
  <2> QED  BY <2>4 DEF w
<1>10. down.calls = kids.calls
  <2>1. down.calls = <<>> \o kids.calls
    BY <1>0, <1>9, Zenon
  <2>2. <<>> \o kids.calls = kids.calls
    BY <1>0
  <2> QED  BY <2>1, <2>2, Zenon
<1>11. down.offset = kids.next
  <2> DEFINE w == <<kid, Len(nested[kid]), sub>>
  <2>1. Len(nested[kid]) \in Nat
    BY <1>5, FewChildren, Zenon
  <2>2. w \in Ways /\ w[1] = kid /\ w[2] = Len(nested[kid]) /\ w[3] = sub
    BY <1>5, <1>8, <2>1 DEF Ways
  <2> HIDE DEF w
  <2>3. Enumerated[w].offset = w[3] + BufLens[<<w[1], w[2]>>]
    BY <2>2, OffsetsAre, Zenon
  <2> QED  BY <1>0, <2>2, <2>3, Zenon DEF w, All
<1>12. Acted(kid, down).calls = IF kid \in data THEN Append(down.calls, [key |-> kid, offset |-> down.offset]) ELSE down.calls
  BY <1>5, <1>8, ActedIs, Zenon
<1>13. Acted(kid, down).calls = Given(-1, kid, sub, hi, kids)
  <2>1. Given(-1, kid, sub, hi, kids) = IF kid \in data THEN Append(kids.calls, [key |-> kid, offset |-> kids.next]) ELSE kids.calls
    BY Zenon DEF Given
  <2> QED  BY <1>10, <1>11, <1>12, <2>1, Zenon
<1>14. before.calls \in Seq(CallType)
  <2> HIDE DEF before
  <2> QED  BY <1>8 DEF Traversal
<1> QED  BY <1>8, <1>13, <1>14, Zenon DEF KidJoined, x, kid

(* One child more is found. *)
LEMMA WalkStep ==
  ASSUME Grown, NEW img \in Bytes, NEW o \in Nat, NEW p \in nodes, Holds(img, o, Images[All(p)]),
         NEW j \in 1 .. Len(nested[p]),
         \A sub \in Nat : Holds(img, sub, Images[All(Kid(p, j))]) => WalkFound(img, sub, <<Kid(p, j), 0>>),
         WalkFound(img, o, <<p, j>>)
  PROVE  WalkFound(img, o, <<p, j - 1>>)
<1> DEFINE kid == Kid(p, j)
           n == Len(nested[p])
           q == o + BufLens[<<p, j - 1>>]
           sub == KidOffset(q, kid)
           to == o + BufLens[<<p, j>>]
           end == o + BufLens[All(p)]
           in == sub + BufLens[<<kid, 0>>]
           K(d) == Walk(img, d, sub, <<kid, 0>>)
           B(d) == Walk(img, d, o, <<p, j>>)
           W(d) == Walk(img, d, o, <<p, j - 1>>)
           G(d) == Given(d, kid, sub, to, K(d))
<1>1. n \in Nat
  BY FewChildren, Zenon
<1>2. j \in 0 .. n /\ j - 1 \in 0 .. n
  <2>1. j \in 1 .. n
    OBVIOUS
  <2> HIDE DEF n
  <2> QED  BY <1>1, <2>1
<1>3. q \in Nat /\ to \in Nat
  BY <1>2, CursorIs, Zenon
<1>4. kid \in nodes
  BY KidIs, Zenon
<1>5. 0 \in 0 .. Len(nested[kid])
  <2>1. Len(nested[kid]) \in Nat
    BY <1>4, FewChildren, Zenon
  <2> QED  BY <2>1
<1>6. end \in Nat
  <2>1. BufLens[All(p)] \in Nat
    BY BufLenIs, Zenon
  <2> QED  BY <2>1
<1>7. /\ sub \in Nat /\ q <= sub /\ sub + BufLen(kid) = to
      /\ Holds(img, sub, Images[All(kid)])
      /\ Holds(img, sub + BufLens[All(kid)], ElementBytes(kid))
  <2> DEFINE l == SerialLen[BufLen(kid)]
             at1 == q + 1 + l
  <2>1. sub = at1
    BY DEF KidOffset
  <2>2. /\ at1 \in Nat /\ at1 + BufLen(kid) = to
        /\ Holds(img, at1, Images[All(kid)])
        /\ Holds(img, at1 + BufLens[All(kid)], ElementBytes(kid))
    BY KidHeld, Zenon
  <2>3. q <= at1
    <3>1. BufLen(kid) \in Nat
      BY <1>4, BufLenIs, Zenon
    <3>2. l \in Nat
      BY <3>1, SerialHolds, Zenon
    <3> HIDE DEF q, l
    <3> QED  BY <1>3, <3>2
  <2> HIDE DEF at1, sub, to, kid, q
  <2> QED  BY <2>1, <2>2, <2>3, Zenon
<1>8. BufLens[All(kid)] \in Nat /\ ElementLen(kid) \in Nat /\ BufLen(kid) = BufLens[All(kid)] + ElementLen(kid)
  BY <1>4, BufLenIs, ElementIs, Zenon DEF BufLen
<1>9. WalkFound(img, sub, <<kid, 0>>)
  BY <1>7, Zenon
<1>10. /\ \A d \in Goals : K(d).next = sub + BufLens[All(kid)] /\ Listed(img, K(d).calls, in, sub + BufLens[All(kid)])
       /\ \A d \in Nat : Kept(K(-1).calls, K(d).calls, d)
       /\ Enumerated[<<kid, Len(nested[kid]), sub>>].calls = Enumerated[<<kid, 0, sub>>].calls \o K(-1).calls
  <2> DEFINE x == <<kid, 0>>
  <2>1. x[1] = kid /\ x[2] = 0
    OBVIOUS
  <2> HIDE DEF x, kid, sub
  <2>2. /\ \A d \in Goals : /\ Walk(img, d, sub, x).next = sub + BufLens[All(kid)]
                            /\ Listed(img, Walk(img, d, sub, x).calls, sub + BufLens[x], sub + BufLens[All(kid)])
        /\ \A d \in Nat : Kept(Walk(img, -1, sub, x).calls, Walk(img, d, sub, x).calls, d)
        /\ Enumerated[<<kid, Len(nested[kid]), sub>>].calls = Enumerated[<<kid, 0, sub>>].calls \o Walk(img, -1, sub, x).calls
    <3>1. WalkFound(img, sub, x)
      BY <1>9 DEF x
    <3> QED  BY <2>1, <3>1, Zenon DEF WalkFound
  <2> QED  BY <2>2 DEF x
<1>11. /\ \A d \in Goals : B(d).next = end /\ Listed(img, B(d).calls, to, end)
       /\ \A d \in Nat : Kept(B(-1).calls, B(d).calls, d)
       /\ Enumerated[<<p, n, o>>].calls = Enumerated[<<p, j, o>>].calls \o B(-1).calls
  <2> DEFINE x == <<p, j>>
  <2>1. x[1] = p /\ x[2] = j
    OBVIOUS
  <2> HIDE DEF x, n
  <2>2. /\ \A d \in Goals : /\ Walk(img, d, o, x).next = o + BufLens[All(p)]
                            /\ Listed(img, Walk(img, d, o, x).calls, o + BufLens[x], o + BufLens[All(p)])
        /\ \A d \in Nat : Kept(Walk(img, -1, o, x).calls, Walk(img, d, o, x).calls, d)
        /\ Enumerated[<<p, n, o>>].calls = Enumerated[<<p, j, o>>].calls \o Walk(img, -1, o, x).calls
    <3>1. WalkFound(img, o, x)
      BY DEF x
    <3> QED  BY <2>1, <3>1, Zenon DEF WalkFound, n
  <2> QED  BY <2>2 DEF x
<1>12. \A d : W(d).next = B(d).next /\ W(d).calls = G(d) \o B(d).calls
  BY WalkUnfolds, Zenon
<1>13. \A d : K(d) \in Tracking /\ B(d) \in Tracking
  <2> SUFFICES ASSUME NEW d  PROVE K(d) \in Tracking /\ B(d) \in Tracking
    OBVIOUS
  <2>1. K(d) \in Tracking
    <3> HIDE DEF kid, sub
    <3> QED  BY <1>4, <1>5, <1>7, WalkTyped, Zenon
  <2>2. B(d) \in Tracking
    BY <1>2, WalkTyped, Zenon
  <2> QED  BY <2>1, <2>2
<1>14. sub <= in /\ in \in Nat
  <2>1. BufLens[<<kid, 0>>] \in Nat
    <3> HIDE DEF kid, sub
    <3> QED  BY <1>4, <1>5, <1>7, CursorIs, Zenon
  <2> DEFINE b == BufLens[<<kid, 0>>]
             a == sub
  <2>2. a \in Nat /\ b \in Nat
    BY <1>7, <2>1
  <2> HIDE DEF a, b
  <2>3. a <= a + b /\ a + b \in Nat
    BY <2>2
  <2> QED  BY <2>3 DEF a, b
<1>15. (sub + BufLens[All(kid)]) + ElementLen(kid) = to
  <2> DEFINE a == sub
             b == BufLens[All(kid)]
             c == ElementLen(kid)
  <2>1. a \in Nat /\ b \in Nat /\ c \in Nat /\ a + (b + c) = to
    BY <1>7, <1>8
  <2> HIDE DEF a, b, c, to
  <2>2. (a + b) + c = to
    BY <2>1
  <2> QED  BY <2>2 DEF a, b, c
<1> HIDE DEF K, B, W, q, sub, to, end, in, kid, n
<1>16. ASSUME NEW d \in Goals  PROVE G(d) \in Seq(CallType) /\ Listed(img, G(d), sub, to)
  <2>1. K(d).next = sub + BufLens[All(kid)] /\ Listed(img, K(d).calls, in, K(d).next)
    BY <1>10, Zenon
  <2>2. K(d).next + ElementLen(kid) = to /\ Holds(img, K(d).next, ElementBytes(kid))
    BY <1>7, <1>15, <2>1, Zenon
  <2> QED  BY <1>3, <1>4, <1>7, <1>13, <1>14, <2>1, <2>2, GivenListed, Zenon
<1>17. -1 \in Goals /\ \A d \in Nat : d \in Goals
  BY DEF Goals
<1>18. ASSUME NEW d \in Goals  PROVE W(d).next = end /\ Listed(img, W(d).calls, q, end)
  <2>1. Listed(img, G(d), q, to)
    BY <1>3, <1>7, <1>16, ListedWider, Zenon
  <2>2. B(d).next = end /\ Listed(img, B(d).calls, to, end)
    BY <1>11, Zenon
  <2>3. to <= to
    BY <1>3
  <2> HIDE DEF G
  <2>4. Listed(img, G(d) \o B(d).calls, q, end)
    BY <1>3, <1>6, <2>1, <2>2, <2>3, ListedJoins, Zenon
  <2> QED  BY <1>12, <2>2, <2>4, Zenon DEF G
<1>19. ASSUME NEW d \in Nat  PROVE Kept(W(-1).calls, W(d).calls, d)
  <2>1. Kept(G(-1), G(d), d)
    <3>1. K(-1).next = K(d).next
      BY <1>10, <1>17, Zenon
    <3>2. Kept(K(-1).calls, K(d).calls, d)
      BY <1>10, Zenon
    <3>3. Listed(img, G(-1), sub, to)
      BY <1>16, <1>17, Zenon
    <3> QED  BY <1>3, <1>4, <1>7, <1>13, <3>1, <3>2, <3>3, GivenKept, Zenon
  <2>2. Kept(B(-1).calls, B(d).calls, d)
    BY <1>11, Zenon
  <2>3. G(-1) \in Seq(CallType) /\ G(d) \in Seq(CallType)
    BY <1>16, <1>17, Zenon
  <2>4. \A w \in Tracking : w.calls \in Seq(CallType)
    BY DEF Tracking
  <2>5. B(-1).calls \in Seq(CallType) /\ B(d).calls \in Seq(CallType)
    BY <1>13, <2>4, Zenon
  <2> HIDE DEF G
  <2>6. Kept(G(-1) \o B(-1).calls, G(d) \o B(d).calls, d)
    BY <2>1, <2>2, <2>3, <2>5, KeptJoins, Zenon
  <2> QED  BY <1>12, <2>6, Zenon DEF G
<1>20. Enumerated[<<p, n, o>>].calls = Enumerated[<<p, j - 1, o>>].calls \o W(-1).calls
  <2> DEFINE e == Enumerated[<<p, j - 1, o>>].calls
             g == G(-1)
             b == B(-1).calls
  <2>1. \A w \in Tracking : w.calls \in Seq(CallType)
    BY DEF Tracking
  <2>2. K(-1).calls \in Seq(CallType) /\ b \in Seq(CallType)
    BY <1>13, <2>1, Zenon
  <2>3. K(-1).next = sub + BufLens[All(kid)]
    BY <1>10, <1>17, Zenon
  <2>4. e \in Seq(CallType) /\ Enumerated[<<p, j, o>>].calls = e \o g
    <3>1. sub = KidOffset(o + BufLens[<<p, j - 1>>], Kid(p, j))
      BY DEF sub, q, kid
    <3>2. K(-1).next = sub + BufLens[All(Kid(p, j))]
      BY <2>3, Zenon DEF kid
    <3>3. Enumerated[<<Kid(p, j), Len(nested[Kid(p, j)]), sub>>].calls =
            Enumerated[<<Kid(p, j), 0, sub>>].calls \o K(-1).calls
      BY <1>10, Zenon DEF kid
    <3> DEFINE w == K(-1)
    <3> HIDE DEF w
    <3>4. w.next = sub + BufLens[All(Kid(p, j))] /\ w.calls \in Seq(CallType)
      BY <2>2, <3>2, Zenon DEF w
    <3>5. Enumerated[<<Kid(p, j), Len(nested[Kid(p, j)]), sub>>].calls =
            Enumerated[<<Kid(p, j), 0, sub>>].calls \o w.calls
      BY <3>3, Zenon DEF w
    <3>8. KidFound(o, p, j, sub, w)
      BY <3>1, <3>4, <3>5, Zenon DEF KidFound
    <3>6. Enumerated[<<p, j, o>>].calls = e \o Given(-1, Kid(p, j), sub, to, w) /\ e \in Seq(CallType)
      <4> HIDE DEF e, g, b, G
      <4>1. /\ Enumerated[<<p, j - 1, o>>].calls \in Seq(CallType)
            /\ Enumerated[<<p, j, o>>].calls =
                 Enumerated[<<p, j - 1, o>>].calls \o Given(-1, Kid(p, j), sub, to, w)
        <5>1. KidJoined(o, p, j, Given(-1, Kid(p, j), sub, to, w))
          BY <3>8, EnumeratedKid, Zenon
        <5> QED  BY <5>1, Zenon DEF KidJoined
      <4> QED  BY <4>1, Zenon DEF e
    <3>7. Given(-1, Kid(p, j), sub, to, w) = g
      BY DEF kid, w
    <3> HIDE DEF g, e
    <3> QED  BY <3>6, <3>7, Zenon
  <2>5. g \in Seq(CallType)
    BY <1>16, <1>17, Zenon
  <2>6. Enumerated[<<p, n, o>>].calls = (e \o g) \o b
    BY <1>11, <2>4, Zenon
  <2>7. W(-1).calls = g \o b
    BY <1>12, Zenon
  <2> HIDE DEF e, g, b
  <2>8. (e \o g) \o b = e \o (g \o b)
    BY <2>2, <2>4, <2>5
  <2> QED  BY <2>6, <2>7, <2>8, Zenon DEF e
<1>21. <<p, j - 1>>[1] = p /\ <<p, j - 1>>[2] = j - 1
  OBVIOUS
<1> DEFINE x == <<p, j - 1>>
<1>22. /\ \A d \in Goals : /\ Walk(img, d, o, x).next = o + BufLens[All(p)]
                           /\ Listed(img, Walk(img, d, o, x).calls, o + BufLens[x], o + BufLens[All(p)])
       /\ \A d \in Nat : Kept(Walk(img, -1, o, x).calls, Walk(img, d, o, x).calls, d)
       /\ Enumerated[<<p, Len(nested[p]), o>>].calls =
            Enumerated[<<p, j - 1, o>>].calls \o Walk(img, -1, o, x).calls
  BY <1>18, <1>19, <1>20, Zenon DEF W, q, end, n
<1>23. x[1] = p /\ x[2] = j - 1
  BY <1>21
<1> HIDE DEF x
<1>24. WalkFound(img, o, x)
  BY <1>22, <1>23, Zenon DEF WalkFound
<1> QED  BY <1>24 DEF x

(* What is ahead of a walk: the children to pass, and the depth below. *)
Ahead(x) == (SizeMod - Len(x[1])) * 300 + (Len(nested[x[1]]) - x[2])

(* The walks come nearer to their ends: to the next child, or down. *)
LEMMA AheadIs ==
  ASSUME Grown, NEW p \in nodes
  PROVE  /\ \A i \in 0 .. Len(nested[p]) : Ahead(<<p, i>>) \in Nat
         /\ \A j \in 1 .. Len(nested[p]) :
              /\ Ahead(<<p, j>>) < Ahead(<<p, j - 1>>)
              /\ Ahead(<<Kid(p, j), 0>>) < Ahead(<<p, j - 1>>)
<1> DEFINE n == Len(nested[p])
           l == SizeMod - Len(p)
<1>1. n \in Nat
  BY FewChildren, Zenon
<1>2. l \in Nat
  <2>1. Len(p) \in Nat /\ Len(p) < SizeMod /\ SizeMod \in Nat
    BY NodesAreShort, WordsAssumption DEF Grown
  <2> QED  BY <2>1
<1>3. \A i : Ahead(<<p, i>>) = l * 300 + (n - i)
  BY DEF Ahead
<1> HIDE DEF n, l
<1>4. \A i \in 0 .. n : Ahead(<<p, i>>) \in Nat
  <2> SUFFICES ASSUME NEW i \in 0 .. n  PROVE Ahead(<<p, i>>) \in Nat
    OBVIOUS
  <2>1. l * 300 + (n - i) \in Nat
    BY <1>1, <1>2
  <2> QED  BY <1>3, <2>1, Zenon
<1>5. \A j \in 1 .. n : Ahead(<<p, j>>) < Ahead(<<p, j - 1>>)
  <2> SUFFICES ASSUME NEW j \in 1 .. n  PROVE Ahead(<<p, j>>) < Ahead(<<p, j - 1>>)
    OBVIOUS
  <2>1. l * 300 + (n - j) < l * 300 + (n - (j - 1))
    BY <1>1, <1>2
  <2>2. /\ Ahead(<<p, j>>) = l * 300 + (n - j)
        /\ Ahead(<<p, j - 1>>) = l * 300 + (n - (j - 1))
    BY <1>3
  <2> QED  BY <2>1, <2>2, Zenon
<1>6. \A j \in 1 .. n : Ahead(<<Kid(p, j), 0>>) < Ahead(<<p, j - 1>>)
  <2> SUFFICES ASSUME NEW j \in 1 .. n  PROVE Ahead(<<Kid(p, j), 0>>) < Ahead(<<p, j - 1>>)
    OBVIOUS
  <2> DEFINE kid == Kid(p, j)
             k == Len(nested[kid])
             m == SizeMod - Len(kid)
  <2>1. kid \in nodes /\ Len(kid) = Len(p) + 1 /\ Len(kid) < SizeMod
    BY KidIs, Zenon DEF n
  <2>2. k \in Nat /\ k <= 256
    BY <2>1, FewChildren, Zenon
  <2>3. m \in Nat /\ m + 1 = l
    <3>1. Len(p) \in Nat /\ SizeMod \in Nat
      BY NodesAreShort, WordsAssumption DEF Grown
    <3> HIDE DEF kid
    <3> QED  BY <2>1, <3>1 DEF l
  <2>4. Ahead(<<kid, 0>>) = m * 300 + (k - 0)
    BY DEF Ahead
  <2> HIDE DEF kid, k, m
  <2>5. m * 300 + (k - 0) < l * 300 + (n - (j - 1))
    BY <1>1, <1>2, <2>2, <2>3
  <2>6. Ahead(<<kid, 0>>) < Ahead(<<p, j - 1>>)
    BY <1>3, <2>4, <2>5, Zenon
  <2> QED  BY <2>6 DEF kid
<1> QED  BY <1>4, <1>5, <1>6 DEF n

(* From every visit the walk finds what it should. *)
LEMMA WalkIs ==
  ASSUME Grown, NEW img \in Bytes, NEW o \in Nat, NEW p \in nodes, Holds(img, o, Images[All(p)]),
         NEW i \in 0 .. Len(nested[p])
  PROVE  WalkFound(img, o, <<p, i>>)
<1> DEFINE Q(x) == \A s \in Nat : Holds(img, s, Images[All(x[1])]) => WalkFound(img, s, x)
           P == {x \in Visits : Q(x)}
           size == [x \in Visits |-> Ahead(x)]
<1>1. \A x \in Visits : /\ x = <<x[1], x[2]>> /\ x[1] \in nodes /\ x[2] \in 0 .. Len(nested[x[1]])
                        /\ Ahead(x) \in Nat
  <2> SUFFICES ASSUME NEW x \in Visits
               PROVE  /\ x = <<x[1], x[2]>> /\ x[1] \in nodes /\ x[2] \in 0 .. Len(nested[x[1]])
                      /\ Ahead(x) \in Nat
    OBVIOUS
  <2>1. x = <<x[1], x[2]>> /\ x[1] \in nodes /\ x[2] \in Nat /\ x[2] <= Len(nested[x[1]])
    BY VisitStep, Zenon
  <2>2. Len(nested[x[1]]) \in Nat
    BY <2>1, FewChildren, Zenon
  <2>3. x[2] \in 0 .. Len(nested[x[1]])
    BY <2>1, <2>2
  <2>4. Ahead(<<x[1], x[2]>>) \in Nat
    BY <2>1, <2>3, AheadIs, Zenon
  <2> QED  BY <2>1, <2>3, <2>4, Zenon
<1>2. size \in [Visits -> Nat] /\ \A x \in Visits : size[x] = Ahead(x)
  BY <1>1
<1>3. ASSUME NEW x \in Visits, \A y \in Visits : Ahead(y) < Ahead(x) => y \in P  PROVE x \in P
  <2> DEFINE a == x[1]
             b == x[2]
             n == Len(nested[a])
  <2>1. x = <<a, b>> /\ a \in nodes /\ b \in 0 .. n
    BY <1>1, Zenon
  <2>2. n \in Nat
    BY <2>1, FewChildren, Zenon
  <2> SUFFICES ASSUME NEW s \in Nat, Holds(img, s, Images[All(a)])  PROVE WalkFound(img, s, x)
    OBVIOUS
  <2> HIDE DEF a, b
  <2>3. CASE b = n
    <3>1. WalkFound(img, s, <<a, n>>)
      BY <2>1, WalkEnd, Zenon
    <3> QED  BY <2>1, <2>3, <3>1, Zenon
  <2>4. CASE b # n
    <3> DEFINE j == b + 1
               kid == Kid(a, j)
    <3>1. j \in 1 .. n /\ j \in 0 .. n /\ j - 1 = b
      <4> HIDE DEF n
      <4> QED  BY <2>1, <2>2, <2>4
    <3> HIDE DEF j
    <3>2. kid \in nodes
      BY <2>1, <3>1, KidIs, Zenon
    <3>3. Len(nested[kid]) \in Nat
      BY <3>2, FewChildren, Zenon
    <3>4. 0 \in 0 .. Len(nested[kid])
      BY <3>3
    <3>5. <<a, j>> \in Visits
      BY <2>1, <3>1, CursorIs, Zenon
    <3>6. <<kid, 0>> \in Visits
      <4> HIDE DEF kid
      <4> QED  BY <3>2, <3>4, CursorIs, Zenon
    <3>7. Ahead(<<a, j>>) < Ahead(x) /\ Ahead(<<kid, 0>>) < Ahead(x)
      <4>1. Ahead(<<a, j>>) < Ahead(<<a, j - 1>>) /\ Ahead(<<kid, 0>>) < Ahead(<<a, j - 1>>)
        BY <2>1, <3>1, AheadIs, Zenon
      <4> QED  BY <2>1, <3>1, <4>1, Zenon
    <3>8. <<a, j>> \in P /\ <<kid, 0>> \in P
      <4> HIDE DEF P, kid
      <4> QED  BY <1>3, <3>5, <3>6, <3>7, Zenon
    <3>9. WalkFound(img, s, <<a, j>>)
      <4> DEFINE y == <<a, j>>
      <4>1. y[1] = a
        OBVIOUS
      <4>2. Q(y)
        BY <3>8
      <4> HIDE DEF y
      <4>3. WalkFound(img, s, y)
        BY <4>1, <4>2, Zenon
      <4> QED  BY <4>3 DEF y
    <3>10. \A t \in Nat : Holds(img, t, Images[All(kid)]) => WalkFound(img, t, <<kid, 0>>)
      <4> DEFINE y == <<kid, 0>>
      <4>1. y[1] = kid
        OBVIOUS
      <4>2. Q(y)
        BY <3>8
      <4> HIDE DEF y, kid
      <4>3. \A t \in Nat : Holds(img, t, Images[All(kid)]) => WalkFound(img, t, y)
        BY <4>1, <4>2, Zenon
      <4> QED  BY <4>3 DEF y
    <3>11. WalkFound(img, s, <<a, j - 1>>)
      BY <2>1, <3>1, <3>9, <3>10, WalkStep, Zenon
    <3> QED  BY <2>1, <3>1, <3>11, Zenon
  <2> QED  BY <2>3, <2>4
<1>4. Visits \subseteq P
  <2>1. \A x \in Visits : (\A y \in Visits : size[y] < size[x] => y \in P) => x \in P
    <3> HIDE DEF P, size
    <3> QED  BY <1>2, <1>3, Zenon
  <2>2. size \in [Visits -> Nat]
    BY <1>2
  <2> HIDE DEF P, size
  <2> QED  BY <2>1, <2>2, SizeInduction, Zenon
<1>5. <<p, i>> \in Visits
  BY CursorIs, Zenon
<1> DEFINE y == <<p, i>>
<1>6. y[1] = p
  OBVIOUS
<1>7. Q(y)
  BY <1>4, <1>5
<1> HIDE DEF y
<1>8. WalkFound(img, o, y)
  BY <1>6, <1>7, Zenon
<1> QED  BY <1>8 DEF y

(* The whole image. *)
LEMMA WholeImage ==
  ASSUME Grown
  PROVE  LET img == Image(<<>>)
             m == BufLens[All(<<>>)]
         IN /\ <<>> \in nodes /\ img \in Bytes /\ m \in Nat /\ BufLen(<<>>) \in Nat
            /\ m + ElementLen(<<>>) = BufLen(<<>>)
            /\ Holds(img, 0, Images[All(<<>>)]) /\ Holds(img, m, ElementBytes(<<>>))
<1> DEFINE root == <<>>
           img == Image(root)
           m == BufLens[All(root)]
           a == Images[All(root)]
           b == ElementBytes(root)
<1>1. root \in nodes
  BY DEF Grown, TreeInv, Linked
<1> HIDE DEF root
<1>2. img \in Bytes
  BY <1>1, ImageLen, Zenon
<1>3. m \in Nat /\ BufLen(root) \in Nat /\ All(root) \in Visits
  BY <1>1, BufLenIs, Zenon
<1>4. m + ElementLen(root) = BufLen(root)
  BY DEF BufLen
<1>5. a \in Bytes /\ Len(a) = m
  BY <1>3, ImagesIs, ImagesLens, Zenon
<1>6. b \in Bytes
  BY <1>1, ElementIs, Zenon
<1>7. img = a \o b
  BY DEF Image
<1>8. Holds(img, 0, img)
  <2> DEFINE z == img
  <2>1. z \in Bytes
    BY <1>2
  <2> HIDE DEF z
  <2>2. \A i \in 1 .. Len(z) : 0 + i <= Len(z) /\ z[0 + i] = z[i]
    BY <2>1 DEF Bytes
  <2>3. Holds(z, 0, z)
    BY <2>2 DEF Holds
  <2> QED  BY <2>3 DEF z
<1> HIDE DEF img, a, b, m
<1>9. Holds(img, 0, a \o b)
  BY <1>7, <1>8, Zenon
<1>10. Holds(img, 0, a) /\ Holds(img, 0 + Len(a), b)
  BY <1>2, <1>5, <1>6, <1>9, HoldsParts, Zenon
<1>11. 0 + Len(a) = m
  BY <1>3, <1>5
<1>12. Holds(img, m, b)
  BY <1>10, <1>11, Zenon
<1> QED  BY <1>1, <1>2, <1>3, <1>4, <1>10, <1>12 DEF root, img, a, b, m

(* What the reader of the whole tree finds. *)
LEMMA TrackIs ==
  ASSUME Grown
  PROVE  LET img == Image(<<>>)
         IN /\ Track(img, -1) = Enumerate(<<>>, 0).calls
            /\ \A d \in Goals : Listed(img, Track(img, d), 0, BufLen(<<>>))
            /\ \A d \in Nat : Kept(Track(img, -1), Track(img, d), d)
<1> DEFINE root == <<>>
           img == Image(root)
           m == BufLens[All(root)]
           hi == BufLen(root)
           n == Len(nested[root])
           x == <<root, 0>>
           in == BufLens[x]
           W(d) == Walk(img, d, 0, x)
           G(d) == Given(-1, root, 0, hi, W(d))
<1>1. /\ root \in nodes /\ img \in Bytes /\ m \in Nat /\ hi \in Nat /\ m + ElementLen(root) = hi
      /\ Holds(img, 0, Images[All(root)]) /\ Holds(img, m, ElementBytes(root))
  BY WholeImage, Zenon
<1>2. n \in Nat
  BY <1>1, FewChildren, Zenon
<1> HIDE DEF root, img
<1>3. 0 \in 0 .. n /\ n - 0 = n /\ n \in 0 .. n
  <2> HIDE DEF n
  <2> QED  BY <1>2
<1>4. /\ x \in Visits /\ in \in Nat /\ CursorAt(0, x) = <<0 + in, n - 0, root>>
      /\ CursorAt(0, x) \in Cursors
  BY <1>1, <1>3, CursorIs, Zenon
<1>5. x[1] = root /\ x[2] = 0
  OBVIOUS
<1>6. 0 + in = in /\ 0 + m = m
  BY <1>1, <1>4
<1>7. WalkFound(img, 0, x)
  BY <1>1, <1>3, WalkIs, Zenon
<1> HIDE DEF x
<1>8. /\ \A d \in Goals : W(d).next = m /\ Listed(img, W(d).calls, in, m)
      /\ \A d \in Nat : Kept(W(-1).calls, W(d).calls, d)
      /\ Enumerated[<<root, n, 0>>].calls = Enumerated[<<root, 0, 0>>].calls \o W(-1).calls
  <2>1. /\ \A d \in Goals : /\ Walk(img, d, 0, x).next = 0 + m
                            /\ Listed(img, Walk(img, d, 0, x).calls, 0 + in, 0 + m)
        /\ \A d \in Nat : Kept(Walk(img, -1, 0, x).calls, Walk(img, d, 0, x).calls, d)
        /\ Enumerated[<<root, n, 0>>].calls = Enumerated[<<root, 0, 0>>].calls \o Walk(img, -1, 0, x).calls
    BY <1>5, <1>7, Zenon DEF WalkFound
  <2> HIDE DEF m, in
  <2> QED  BY <1>6, <2>1, Zenon
<1>9. \A d : W(d) \in Tracking
  BY <1>1, <1>3, WalkTyped, Zenon DEF x
<1>10. /\ CountAt(img, 0).upper <=> root \in data
       /\ CountAt(img, 0).lower = n /\ CountAt(img, 0).next = in
  <2>1. Holds(img, 0, Images[x])
    BY <1>1, <1>3, ImagesHeld, Zenon DEF x
  <2>2. Images[x] = StoreCount(root) /\ BufLens[x] = CountBytes
    BY <1>4, <1>5, ImagesIs, BufLensIs, Zenon
  <2>3. Holds(img, 0, StoreCount(root))
    BY <2>1, <2>2, Zenon
  <2>4. 0 \in Nat
    OBVIOUS
  <2>5. /\ CountAt(img, 0).upper <=> root \in data
        /\ CountAt(img, 0).lower = n /\ CountAt(img, 0).next = 0 + CountBytes
    BY <1>1, <2>3, <2>4, CountRead, Zenon
  <2> QED  BY <1>6, <2>2, <2>5, Zenon
<1>11. -1 \in Goals /\ \A d \in Nat : d \in Goals
  BY DEF Goals
<1>12. \A d : Track(img, d) = G(d)
  <2> SUFFICES ASSUME NEW d  PROVE Track(img, d) = G(d)
    OBVIOUS
  <2>1. Track(img, d) = Offered(CountAt(img, 0), <<>>, Tracked(img, d)[<<CountAt(img, 0).next, CountAt(img, 0).lower, <<>>>>])
    BY DEF Track
  <2>2. <<CountAt(img, 0).next, CountAt(img, 0).lower, <<>>>> = CursorAt(0, x)
    <3>1. CursorAt(0, x) = <<in, n, root>>
      BY <1>3, <1>4, <1>6, Zenon
    <3> HIDE DEF in, n
    <3> QED  BY <1>10, <3>1, Zenon DEF root
  <2>3. Track(img, d) = Offered(CountAt(img, 0), root, W(d))
    BY <2>1, <2>2, Zenon DEF Walk, root
  <2> HIDE DEF W
  <2>4. Track(img, d) = IF root \in data THEN Append(W(d).calls, [key |-> root, offset |-> W(d).next]) ELSE W(d).calls
    <3>1. Offered(CountAt(img, 0), root, W(d)) =
            IF CountAt(img, 0).upper THEN Append(W(d).calls, [key |-> root, offset |-> W(d).next]) ELSE W(d).calls
      BY DEF Offered
    <3> QED  BY <1>10, <2>3, <3>1, Zenon
  <2> QED  BY <2>4, Zenon DEF Given
<1> HIDE DEF W, m, n, hi, in
<1>13. ASSUME NEW d \in Goals  PROVE G(d) \in Seq(CallType) /\ Listed(img, G(d), 0, hi)
  <2>1. W(d).next = m /\ Listed(img, W(d).calls, in, W(d).next)
    BY <1>8, Zenon
  <2>2. W(d).next + ElementLen(root) = hi /\ Holds(img, W(d).next, ElementBytes(root))
    BY <1>1, <2>1, Zenon
  <2>3. 0 <= in /\ 0 \in Nat /\ in \in Nat
    BY <1>4 DEF in
  <2> QED  BY <1>1, <1>9, <2>1, <2>2, <2>3, GivenListed, Zenon
<1>14. ASSUME NEW d \in Nat  PROVE Kept(G(-1), G(d), d)
  <2>1. W(-1).next = W(d).next /\ Kept(W(-1).calls, W(d).calls, d)
    BY <1>8, <1>11, Zenon
  <2>2. Listed(img, G(-1), 0, hi) /\ 0 \in Nat
    BY <1>11, <1>13, Zenon
  <2>3. Kept(G(-1), Given(d, root, 0, hi, W(d)), d)
    BY <1>1, <1>9, <2>1, <2>2, GivenKept, Zenon
  <2>4. Given(d, root, 0, hi, W(d)) = G(d) \/ Given(d, root, 0, hi, W(d)) = <<>>
    BY Zenon DEF Given
  <2>5. ToSet(<<>>) = {}
    BY DEF ToSet
  <2> HIDE DEF G
  <2>6. ToSet(Given(d, root, 0, hi, W(d))) \subseteq ToSet(G(d))
    BY <2>4, <2>5, Zenon
  <2> QED  BY <2>3, <2>6, Zenon DEF Kept
<1>15. G(-1) = Enumerate(root, 0).calls
  <2> DEFINE e == Enumerated[<<root, n, 0>>]
             w == W(-1)
  <2>1. w.next = m /\ e.calls = Enumerated[<<root, 0, 0>>].calls \o w.calls
    BY <1>8, <1>11, Zenon
  <2>2. <<root, n, 0>> \in Ways /\ <<root, 0, 0>> \in Ways
    BY <1>1, <1>2 DEF Ways, n
  <2>3. w \in Tracking
    BY <1>9, Zenon
  <2> HIDE DEF w
  <2>4. w.calls \in Seq(CallType)
    BY <2>3 DEF Tracking
  <2>5. Enumerated[<<root, 0, 0>>].calls = <<>>
    <3> DEFINE y == <<root, 0, 0>>
    <3>1. y[2] = 0
      OBVIOUS
    <3>2. y \in Ways
      BY <2>2
    <3> HIDE DEF y
    <3>3. Enumerated[y] = [offset |-> y[3] + CountBytes, calls |-> <<>>]
      BY <3>1, <3>2, EnumeratedIs, Zenon
    <3>4. Enumerated[y].calls = <<>>
      BY <3>3
    <3> QED  BY <3>4 DEF y
  <2>6. e.calls = w.calls
    <3>1. <<>> \o w.calls = w.calls
      BY <2>4
    <3> HIDE DEF e
    <3> QED  BY <2>1, <2>5, <3>1, Zenon
  <2>7. e.offset = m
    <3> DEFINE y == <<root, n, 0>>
    <3>1. y[1] = root /\ y[2] = n /\ y[3] = 0
      OBVIOUS
    <3>2. y \in Ways
      BY <2>2
    <3> HIDE DEF y
    <3>3. Enumerated[y].offset = y[3] + BufLens[<<y[1], y[2]>>]
      BY <3>2, OffsetsAre, Zenon
    <3>4. BufLens[<<y[1], y[2]>>] = m
      BY <3>1, Zenon DEF m, n, All
    <3>5. Enumerated[y].offset = 0 + m
      BY <3>1, <3>3, <3>4, Zenon
    <3> QED  BY <1>6, <3>5, Zenon DEF y
  <2>8. e \in Traversal
    BY <2>2, EnumeratedIs, Zenon
  <2>9. Enumerate(root, 0) = Acted(root, e)
    BY DEF Enumerate, n
  <2> HIDE DEF e
  <2>10. Enumerate(root, 0).calls = IF root \in data THEN Append(e.calls, [key |-> root, offset |-> e.offset]) ELSE e.calls
    BY <1>1, <2>8, <2>9, ActedIs, Zenon
  <2>11. G(-1) = IF root \in data THEN Append(w.calls, [key |-> root, offset |-> w.next]) ELSE w.calls
    BY Zenon DEF Given, w
  <2> QED  BY <2>1, <2>6, <2>7, <2>10, <2>11, Zenon
<1> HIDE DEF G
<1>16. /\ Track(img, -1) = Enumerate(root, 0).calls
       /\ \A d \in Goals : Listed(img, Track(img, d), 0, hi)
       /\ \A d \in Nat : Kept(Track(img, -1), Track(img, d), d)
  <2>1. Track(img, -1) = G(-1)
    BY <1>12
  <2>2. Track(img, -1) = Enumerate(root, 0).calls
    BY <1>15, <2>1, Zenon
  <2>3. ASSUME NEW d \in Goals  PROVE Listed(img, Track(img, d), 0, hi)
    <3>1. Track(img, d) = G(d)
      BY <1>12
    <3> QED  BY <1>13, <3>1, Zenon
  <2>4. ASSUME NEW d \in Nat  PROVE Kept(Track(img, -1), Track(img, d), d)
    <3>1. Track(img, d) = G(d)
      BY <1>12
    <3> QED  BY <1>14, <2>1, <3>1, Zenon
  <2> QED  BY <2>2, <2>3, <2>4, Zenon
<1> QED  BY <1>16, Zenon DEF root, img, hi

(* The three traversals and the reader agree. *)
LEMMA AgreeIs ==
  ASSUME Grown
  PROVE  TraversalsAgree
<1>1. \A p \in nodes : Len(Image(p)) = BufLen(p)
  BY ImageLen, Zenon
<1>2. Track(Image(<<>>), -1) = Enumerate(<<>>, 0).calls
  BY TrackIs, Zenon
<1> QED  BY <1>1, <1>2, Zenon DEF TraversalsAgree

-------------------------------------------------------------------------------
(* The index of lexemes. *)

Placed == [lid : Nat, offset : Nat]

(* An element's list. *)
LEMMA ElementList ==
  ASSUME Grown, NEW key \in data
  PROVE  /\ key \in nodes /\ key \in known /\ Entries[key] \in Seq(EntryType) /\ Len(Entries[key]) \in Nat
         /\ ElementBytes(key) = ListBytes(Entries[key])[Len(Entries[key])]
         /\ ElementLen(key) = ListLens(Entries[key])[Len(Entries[key])]
         /\ \A k \in 1 .. Len(Entries[key]) :
              /\ ListLens(Entries[key])[k - 1] \in Nat
              /\ ListLens(Entries[key])[k - 1] < ElementLen(key)
<1> DEFINE list == Entries[key]
           n == Len(list)
           L == ListLens(list)
<1>1. key \in nodes /\ key \in known
  BY DEF Grown, TreeInv, TreeTypeOK, ElementsAtKeys
<1>2. list \in Seq(EntryType) /\ n \in Nat
  BY <1>1, ElementIs, Zenon
<1>3. ElementBytes(key) = ListBytes(list)[n] /\ ElementLen(key) = L[n]
  BY Zenon DEF ElementBytes, ElementLen
<1>4. ASSUME NEW k \in 1 .. n  PROVE L[k - 1] \in Nat /\ L[k - 1] < L[n]
  <2> HIDE DEF n
  <2>1. k - 1 \in 0 .. n /\ n \in 0 .. n /\ k - 1 < n
    BY <1>2
  <2> HIDE DEF list, L
  <2>2. L[k - 1] \in Nat
    BY <1>2, <2>1, ListIs, Zenon DEF L, n
  <2>3. L[k - 1] < L[n]
    BY <1>2, <2>1, ListGrows, Zenon DEF L, n
  <2> QED  BY <2>2, <2>3
<1> QED  BY <1>1, <1>2, <1>3, <1>4, Zenon

(* The offsets of the entries of an element. *)
LEMMA OffsetsIs ==
  ASSUME Grown, NEW key \in data, NEW offset \in Nat
  PROVE  /\ EntryOffsets(key, offset) \in Seq(Placed)
         /\ DOMAIN EntryOffsets(key, offset) = 1 .. Len(Entries[key])
         /\ \A k \in 1 .. Len(Entries[key]) :
              EntryOffsets(key, offset)[k] =
                [lid |-> Entries[key][k].lid, offset |-> offset + ListLens(Entries[key])[k - 1]]
<1> DEFINE list == Entries[key]
           n == Len(list)
           L == ListLens(list)
           e(k) == [lid |-> list[k].lid, offset |-> offset + L[k - 1]]
<1>1. list \in Seq(EntryType) /\ n \in Nat /\ \A k \in 1 .. n : L[k - 1] \in Nat
  BY ElementList, Zenon
<1>2. DOMAIN list = 1 .. n
  BY <1>1
<1>3. EntryOffsets(key, offset) = [k \in 1 .. n |-> e(k)]
  BY <1>2 DEF EntryOffsets
<1>4. \A k \in 1 .. n : e(k) \in Placed
  <2> SUFFICES ASSUME NEW k \in 1 .. n  PROVE e(k) \in Placed
    OBVIOUS
  <2>1. list[k] \in EntryType
    BY <1>1, <1>2, ElementOfSeq
  <2>2. list[k].lid \in Nat
    BY <2>1, EntryIs, Zenon
  <2>3. L[k - 1] \in Nat
    BY <1>1
  <2> DEFINE a == list[k].lid
             b == L[k - 1]
  <2>4. a \in Nat /\ b \in Nat
    BY <2>2, <2>3
  <2> HIDE DEF a, b
  <2>5. [lid |-> a, offset |-> offset + b] \in Placed
    BY <2>4 DEF Placed
  <2> QED  BY <2>5 DEF a, b
<1> HIDE DEF e, n, list, L
<1>5. [k \in 1 .. n |-> e(k)] \in Seq(Placed)
  BY <1>1, <1>4
<1>6. DOMAIN [k \in 1 .. n |-> e(k)] = 1 .. n /\ \A k \in 1 .. n : [i \in 1 .. n |-> e(i)][k] = e(k)
  OBVIOUS
<1> QED  BY <1>3, <1>5, <1>6, Zenon DEF n, list, e, L

(* Every offset of the index is that of an entry of the lexeme, at its element *)
(* in the image.                                                               *)
LEMMA LidsAre ==
  ASSUME Grown, NEW l \in DOMAIN LidsTree
  PROVE  \E c \in ToSet(Enumerate(<<>>, 0).calls) :
           /\ c \in CallType /\ c.key \in data
           /\ \E k \in 1 .. Len(Entries[c.key]) :
                /\ Entries[c.key][k].lid = l
                /\ LidsTree[l] = c.offset + ListLens(Entries[c.key])[k - 1]
<1> DEFINE calls == Enumerate(<<>>, 0).calls
           n == Len(calls)
           part(i) == EntryOffsets(calls[i].key, calls[i].offset)
           ss == [i \in DOMAIN calls |-> part(i)]
           all == AllEntries
<1>1. Listed(Image(<<>>), calls, 0, BufLen(<<>>))
  <2>1. -1 \in Goals
    BY DEF Goals
  <2> DEFINE t == Track(Image(<<>>), -1)
  <2>2. t = calls
    BY TrackIs, Zenon
  <2>3. Listed(Image(<<>>), t, 0, BufLen(<<>>))
    BY <2>1, TrackIs, Zenon
  <2> HIDE DEF t
  <2> QED  BY <2>2, <2>3, Zenon
<1>2. all = FlattenSeq(ss)
  BY DEF AllEntries
<1> HIDE DEF calls
<1>3. calls \in Seq(CallType) /\ \A i \in DOMAIN calls : Good(Image(<<>>), calls[i], 0, BufLen(<<>>))
  BY <1>1, Zenon DEF Listed
<1>4. n \in Nat /\ DOMAIN calls = 1 .. n
  BY <1>3
<1>5. \A i \in 1 .. n : calls[i] \in CallType /\ calls[i].key \in data /\ calls[i].offset \in Nat
  <2> SUFFICES ASSUME NEW i \in 1 .. n  PROVE calls[i] \in CallType /\ calls[i].key \in data /\ calls[i].offset \in Nat
    OBVIOUS
  <2>1. calls[i] \in CallType
    BY <1>3, <1>4, ElementOfSeq
  <2>2. calls[i].key \in data
    BY <1>3, <1>4, Zenon DEF Good
  <2> QED  BY <2>1, <2>2, CallIs, Zenon
<1>6. \A i \in 1 .. n : part(i) \in Seq(Placed)
  BY <1>5, OffsetsIs, Zenon
<1>7. ss = [i \in 1 .. n |-> part(i)]
  BY <1>4
<1> HIDE DEF n, part, ss, all
<1>8. ss \in Seq(Seq(Placed)) /\ Len(ss) = n /\ \A i \in 1 .. n : ss[i] = part(i)
  BY <1>4, <1>6, <1>7
<1>9. /\ all \in Seq(Placed)
      /\ Range(all) = UNION {Range(ss[i]) : i \in 1 .. n}
  BY <1>2, <1>8, FlattenHolds, Zenon
<1>10. Len(all) \in Nat /\ DOMAIN all = 1 .. Len(all)
  BY <1>9
<1> DEFINE I == {i \in DOMAIN all : all[i].lid = l}
<1>11. l \in {e.lid : e \in ToSet(all)} /\ LidsTree[l] = all[Max(I)].offset
  <2>1. LidsTree = [m \in {e.lid : e \in ToSet(all)} |-> all[Max({i \in DOMAIN all : all[i].lid = m})].offset]
    BY DEF LidsTree, all
  <2>2. l \in DOMAIN LidsTree
    OBVIOUS
  <2>3. DOMAIN LidsTree = {e.lid : e \in ToSet(all)}
    BY <2>1
  <2> DEFINE D == {e.lid : e \in ToSet(all)}
             g(m) == all[Max({i \in DOMAIN all : all[i].lid = m})].offset
  <2>4. LidsTree = [m \in D |-> g(m)] /\ l \in D
    BY <2>1, <2>2, <2>3, Zenon
  <2> HIDE DEF D, g
  <2>5. LidsTree[l] = g(l)
    BY <2>4, Zenon
  <2> QED  BY <2>4, <2>5 DEF D, g
<1>12. I # {}
  <2>1. PICK e \in ToSet(all) : l = e.lid
    BY <1>11
  <2>2. PICK i \in DOMAIN all : e = all[i]
    BY DEF ToSet
  <2> QED  BY <2>1, <2>2
<1>13. Max(I) \in I
  <2>1. I \subseteq 0 .. Len(all)
    BY <1>10
  <2> HIDE DEF I
  <2>2. PICK x \in I : \A y \in I : y <= x
    BY <1>10, <1>12, <2>1, GreatestNat, Zenon
  <2>3. \A y \in I : x >= y
    <3>1. \A a, b \in 0 .. Len(all) : a <= b => b >= a
      BY <1>10
    <3> QED  BY <2>1, <2>2, <3>1
  <2> QED  BY <2>2, <2>3, Zenon DEF Max
<1>14. PICK e \in Range(all) : e.lid = l /\ LidsTree[l] = e.offset
  <2> DEFINE m == Max(I)
  <2>1. m \in DOMAIN all /\ all[m].lid = l /\ LidsTree[l] = all[m].offset
    BY <1>11, <1>13
  <2> HIDE DEF m, I
  <2>2. all[m] \in Range(all)
    BY <2>1 DEF Range
  <2> QED  BY <2>1, <2>2
<1>15. PICK i \in 1 .. n : e \in Range(part(i))
  <2>1. PICK R \in {Range(ss[i]) : i \in 1 .. n} : e \in R
    BY <1>9
  <2>2. PICK i \in 1 .. n : R = Range(ss[i])
    OBVIOUS
  <2> QED  BY <1>8, <2>1, <2>2, Zenon
<1> DEFINE c == calls[i]
<1>16. c \in ToSet(calls) /\ c \in CallType /\ c.key \in data /\ c.offset \in Nat
  BY <1>4, <1>5 DEF ToSet
<1> HIDE DEF c
<1>17. part(i) = EntryOffsets(c.key, c.offset)
  BY DEF part, c
<1>18. PICK k \in 1 .. Len(Entries[c.key]) : e = part(i)[k]
  <2>1. DOMAIN part(i) = 1 .. Len(Entries[c.key])
    BY <1>16, <1>17, OffsetsIs, Zenon
  <2> DEFINE s == part(i)
  <2>2. DOMAIN s = 1 .. Len(Entries[c.key]) /\ e \in Range(s)
    BY <1>15, <2>1
  <2> HIDE DEF s
  <2>3. \E k \in 1 .. Len(Entries[c.key]) : e = s[k]
    BY <2>2 DEF Range
  <2> QED  BY <2>3 DEF s
<1>19. e = [lid |-> Entries[c.key][k].lid, offset |-> c.offset + ListLens(Entries[c.key])[k - 1]]
  BY <1>16, <1>17, <1>18, OffsetsIs, Zenon
<1>20. e.lid = Entries[c.key][k].lid /\ e.offset = c.offset + ListLens(Entries[c.key])[k - 1]
  <2> DEFINE a == Entries[c.key][k].lid
             b == c.offset + ListLens(Entries[c.key])[k - 1]
  <2>1. e = [lid |-> a, offset |-> b]
    BY <1>19
  <2> HIDE DEF a, b
  <2>2. e.lid = a /\ e.offset = b
    BY <2>1
  <2> QED  BY <2>2 DEF a, b
<1>21. Entries[c.key][k].lid = l /\ LidsTree[l] = c.offset + ListLens(Entries[c.key])[k - 1]
  BY <1>14, <1>20, Zenon
<1> QED  BY <1>16, <1>21, Zenon DEF calls

(* A list before the offset has no answer, the list with the entry has it. *)
LEMMA TracedIs ==
  ASSUME Grown, NEW img \in Bytes, NEW c \in CallType, c.key \in data, Holds(img, c.offset, ElementBytes(c.key)),
         NEW d \in Nat
  PROVE  /\ c.offset + ElementLen(c.key) <= d => Traced(img, c, d) = {}
         /\ \A k \in 1 .. Len(Entries[c.key]) :
              d = c.offset + ListLens(Entries[c.key])[k - 1] =>
                Traced(img, c, d) = {[key |-> c.key, lid |-> Entries[c.key][k].lid]}
<1> DEFINE key == c.key
           o == c.offset
           list == Entries[key]
           n == Len(list)
           L == ListLens(list)
           A == ListAt(img, o)
           count == SerialAt(img)[o].value
           here == {k \in 1 .. count : A[k - 1] = d}
<1>1. /\ list \in Seq(EntryType) /\ n \in Nat /\ ElementBytes(key) = ListBytes(list)[n]
      /\ ElementLen(key) = L[n] /\ \A k \in 1 .. n : L[k - 1] \in Nat /\ L[k - 1] < ElementLen(key)
  BY ElementList, Zenon
<1>2. o \in Nat /\ ElementLen(key) \in Nat
  BY CallIs, Zenon
<1>3. Traced(img, c, d) = IF here # {} THEN {[key |-> key, lid |-> EntryAt(img, d).lid]}
                          ELSE IF A[count] > d THEN {[key |-> key, lid |-> 0]} ELSE {}
  BY DEF Traced
<1>4. /\ count = n
      /\ \A k \in 0 .. n : A[k] = o + L[k]
      /\ \A k \in 1 .. n : EntryAt(img, o + L[k - 1]).lid = list[k].lid
  <2>1. Holds(img, o, ListBytes(list)[n])
    BY <1>1, Zenon
  <2> HIDE DEF list, o
  <2> QED  BY <1>1, <1>2, <2>1, ListRead, Zenon DEF n, L, A, count
<1> HIDE DEF key, o, list, L, A, count, n
<1>5. A[n] = o + ElementLen(key)
  <2>1. n \in 0 .. n
    BY <1>1
  <2> QED  BY <1>1, <1>4, <2>1, Zenon
<1>6. \A k \in 1 .. n : A[k - 1] = o + L[k - 1]
  <2>1. \A k \in 1 .. n : k - 1 \in 0 .. n
    BY <1>1
  <2> QED  BY <1>4, <2>1, Zenon
<1>7. ASSUME o + ElementLen(key) <= d  PROVE Traced(img, c, d) = {}
  <2>1. \A k \in 1 .. n : A[k - 1] # d
    <3> SUFFICES ASSUME NEW k \in 1 .. n  PROVE A[k - 1] # d
      OBVIOUS
    <3> DEFINE a == L[k - 1]
               b == ElementLen(key)
    <3>1. a \in Nat /\ a < b /\ A[k - 1] = o + a /\ b \in Nat /\ o + b <= d
      BY <1>1, <1>2, <1>6, <1>7
    <3> HIDE DEF a, b
    <3>2. o + a # d
      BY <1>2, <3>1
    <3> QED  BY <3>1, <3>2, Zenon
  <2>2. here = {}
    BY <1>4, <2>1
  <2>3. ~(A[count] > d)
    <3> DEFINE b == A[n]
    <3>1. b = o + ElementLen(key)
      BY <1>5
    <3>2. b \in Nat /\ b <= d
      BY <1>2, <1>7, <3>1
    <3> HIDE DEF b
    <3>3. ~(b > d)
      BY <3>2
    <3> QED  BY <1>4, <3>3, Zenon DEF b
  <2> HIDE DEF here
  <2> QED  BY <1>3, <2>2, <2>3, Zenon
<1>8. ASSUME NEW k \in 1 .. n, d = o + L[k - 1]  PROVE Traced(img, c, d) = {[key |-> key, lid |-> list[k].lid]}
  <2>1. k \in here
    BY <1>4, <1>6, <1>8
  <2>2. EntryAt(img, d).lid = list[k].lid
    BY <1>4, <1>8, Zenon
  <2> HIDE DEF here
  <2>3. here # {}
    BY <2>1
  <2> QED  BY <1>3, <2>2, <2>3, Zenon
<1> QED  BY <1>7, <1>8, Zenon DEF key, o, list, L, n

(* The index leads home. *)
LEMMA HomeIs ==
  ASSUME Grown
  PROVE  LeadsHome
<1> DEFINE img == Image(<<>>)
<1> SUFFICES ASSUME NEW l \in DOMAIN LidsTree
             PROVE  \E key \in known :
                      /\ Reached(img, LidsTree[l]) = {[key |-> key, lid |-> l]}
                      /\ \E i \in DOMAIN Entries[key] : Entries[key][i].lid = l
  BY Zenon DEF LeadsHome
<1>1. img \in Bytes
  BY WholeImage, Zenon
<1>2. PICK c \in ToSet(Enumerate(<<>>, 0).calls) :
        /\ c \in CallType /\ c.key \in data
        /\ \E k \in 1 .. Len(Entries[c.key]) :
             /\ Entries[c.key][k].lid = l
             /\ LidsTree[l] = c.offset + ListLens(Entries[c.key])[k - 1]
  BY LidsAre, Zenon
<1> DEFINE d == LidsTree[l]
           T == Track(img, d)
           key == c.key
           list == Entries[key]
           n == Len(list)
<1>3. PICK k \in 1 .. n : list[k].lid = l /\ d = c.offset + ListLens(list)[k - 1]
  BY <1>2
<1>4. /\ key \in known /\ list \in Seq(EntryType) /\ n \in Nat
      /\ ListLens(list)[k - 1] \in Nat /\ ListLens(list)[k - 1] < ElementLen(key)
  BY <1>2, <1>3, ElementList, Zenon
<1>5. c.offset \in Nat /\ ElementLen(key) \in Nat
  BY <1>2, CallIs, Zenon
<1>6. d \in Nat /\ c.offset <= d /\ d <= c.offset + ElementLen(key)
  <2> DEFINE a == ListLens(list)[k - 1]
             b == ElementLen(key)
             o == c.offset
             e == d
  <2>1. a \in Nat /\ b \in Nat /\ o \in Nat /\ a < b /\ e = o + a
    BY <1>3, <1>4, <1>5
  <2> HIDE DEF a, b, o, e
  <2>2. e \in Nat /\ o <= e /\ e <= o + b
    BY <2>1
  <2> QED  BY <2>2 DEF b, o, e
<1> HIDE DEF d, img
<1>7. c \in ToSet(T)
  <2>1. Track(img, -1) = Enumerate(<<>>, 0).calls
    BY TrackIs, Zenon DEF img
  <2>2. Kept(Track(img, -1), T, d)
    BY <1>6, TrackIs, Zenon DEF img
  <2>3. c \in ToSet(Track(img, -1))
    BY <1>2, <2>1, Zenon
  <2> QED  BY <1>6, <2>2, <2>3, Zenon DEF Kept
<1>8. Listed(img, T, 0, BufLen(<<>>))
  <2>1. d \in Goals
    BY <1>6 DEF Goals
  <2> QED  BY <2>1, TrackIs, Zenon DEF img
<1> HIDE DEF T
<1>9. PICK j \in DOMAIN T : c = T[j]
  BY <1>7 DEF ToSet
<1>10. /\ T \in Seq(CallType) /\ \A i \in DOMAIN T : Good(img, T[i], 0, BufLen(<<>>))
       /\ \A i, m \in DOMAIN T : i < m => T[i].offset + ElementLen(T[i].key) <= T[m].offset
  BY <1>8, Zenon DEF Listed
<1>11. DOMAIN T \subseteq Nat
  BY <1>10
<1>12. \A i \in DOMAIN T : /\ T[i] \in CallType /\ T[i].key \in data
                           /\ Holds(img, T[i].offset, ElementBytes(T[i].key))
  <2> SUFFICES ASSUME NEW i \in DOMAIN T
               PROVE  /\ T[i] \in CallType /\ T[i].key \in data
                      /\ Holds(img, T[i].offset, ElementBytes(T[i].key))
    OBVIOUS
  <2>1. T[i] \in CallType
    BY <1>10
  <2> QED  BY <1>10, <2>1, Zenon DEF Good
<1>13. Traced(img, c, d) = {[key |-> key, lid |-> l]}
  <2>1. Traced(img, c, d) = {[key |-> c.key, lid |-> Entries[c.key][k].lid]}
    BY <1>1, <1>3, <1>6, <1>9, <1>12, TracedIs, Zenon
  <2> QED  BY <1>3, <2>1, Zenon
<1>14. \A i \in DOMAIN T : i < j => Traced(img, T[i], d) = {}
  <2> SUFFICES ASSUME NEW i \in DOMAIN T, i < j  PROVE Traced(img, T[i], d) = {}
    OBVIOUS
  <2> DEFINE a == T[i]
  <2>1. a \in CallType /\ a.key \in data /\ Holds(img, a.offset, ElementBytes(a.key))
    BY <1>12, Zenon
  <2>2. a.offset + ElementLen(a.key) <= c.offset
    BY <1>9, <1>10, Zenon
  <2>3. a.offset \in Nat /\ ElementLen(a.key) \in Nat
    BY <2>1, CallIs, Zenon
  <2>4. a.offset + ElementLen(a.key) <= d
    <3> DEFINE u == a.offset
               v == ElementLen(a.key)
               w == c.offset
    <3>1. u \in Nat /\ v \in Nat /\ w \in Nat /\ u + v <= w /\ w <= d /\ d \in Nat
      BY <1>5, <1>6, <2>2, <2>3
    <3> HIDE DEF u, v, w
    <3>2. u + v <= d
      BY <3>1
    <3> QED  BY <3>2 DEF u, v
  <2> HIDE DEF a
  <2>5. Traced(img, a, d) = {}
    BY <1>1, <1>6, <2>1, <2>4, TracedIs, Zenon
  <2> QED  BY <2>5, Zenon DEF a
<1> DEFINE answered == {i \in DOMAIN T : Traced(img, T[i], d) # {}}
<1>15. j \in answered /\ \A i \in answered : j <= i
  <2>1. Traced(img, T[j], d) # {}
    <3>1. Traced(img, T[j], d) = {[key |-> key, lid |-> l]}
      BY <1>9, <1>13, Zenon
    <3> QED  BY <3>1
  <2>2. j \in answered
    BY <2>1
  <2>3. ASSUME NEW i \in answered  PROVE j <= i
    <3>1. i \in DOMAIN T /\ ~(i < j)
      BY <1>14
    <3>2. i \in Nat /\ j \in Nat
      BY <1>11, <3>1
    <3> QED  BY <3>1, <3>2
  <2> QED  BY <2>2, <2>3
<1>16. Min(answered) = j
  <2>1. answered \subseteq Nat
    BY <1>11
  <2> HIDE DEF answered
  <2>2. \A x \in answered : (\A y \in answered : x <= y) => x = j
    <3> SUFFICES ASSUME NEW x \in answered, \A y \in answered : x <= y  PROVE x = j
      OBVIOUS
    <3>1. x <= j /\ j <= x /\ x \in Nat /\ j \in Nat
      BY <1>15, <2>1
    <3> QED  BY <3>1
  <2> QED  BY <1>15, <2>2, Zenon DEF Min
<1>17. Reached(img, d) = Traced(img, T[Min(answered)], d)
  <2>1. Reached(img, d) = IF answered = {} THEN {} ELSE Traced(img, T[Min(answered)], d)
    BY DEF Reached, T
  <2>2. answered # {}
    BY <1>15
  <2> HIDE DEF answered
  <2> QED  BY <2>1, <2>2, Zenon
<1>18. Reached(img, d) = {[key |-> key, lid |-> l]}
  BY <1>9, <1>13, <1>16, <1>17, Zenon
<1>19. \E i \in DOMAIN list : list[i].lid = l
  <2>1. k \in DOMAIN list
    <3>1. DOMAIN list = 1 .. n
      BY <1>4
    <3> QED  BY <3>1, Zenon
  <2> QED  BY <1>3, <2>1, Zenon
<1> QED  BY <1>4, <1>18, <1>19 DEF d

-------------------------------------------------------------------------------
(* The two properties of the image. *)

(* Whatever was inserted, and in whatever order, the lengths of GetBufLen, the *)
(* bytes of Serialize, the offsets of Enumerate and the reader of the image    *)
(* agree to the byte, for either width of the count (wordtree.h:130,           *)
(* scandict.h:145-172).                                                        *)
THEOREM LengthsAgreeAlways == Spec => []LengthsAgree
<1>1. ScanInv => Grown
  BY DEF ScanInv, ScanTypeOK, Grown
<1>2. ScanInv => LengthsAgree
  BY <1>1, AgreeIs DEF LengthsAgree
<1> QED  BY <1>2, ScanInvariant, PTL

(* From every offset of the index of lexemes made of the tree, the search      *)
(* through its image comes to an entry of that lexeme, under a stem that has   *)
(* it (buildmorph.h:112-123, mlmamain.cpp:249-262).                            *)
THEOREM IndexLeadsHomeAlways == Spec => []IndexLeadsHome
<1>1. ScanInv => Grown
  BY DEF ScanInv, ScanTypeOK, Grown
<1>2. ScanInv => IndexLeadsHome
  BY <1>1, HomeIs DEF IndexLeadsHome
<1> QED  BY <1>2, ScanInvariant, PTL

-------------------------------------------------------------------------------
(* The scan over the bytes. *)

VARIABLES image, stemAt, levels

(* DictScan, with the same tree; its stack is called levels here.  What it has *)
(* of the modules it extends is what this module has of them.                  *)
Dict == INSTANCE DictScan WITH stack <- levels

(* Its readers are the readers. *)
LEMMA SameReaders ==
  ASSUME NEW img, NEW pos
  PROVE  /\ Dict!CountAt(img, pos) = CountAt(img, pos)
         /\ Dict!ChildAt(img, pos) = ChildAt(img, pos)
<1>1. Dict!CountAt(img, pos) = CountAt(img, pos)
  BY DEF Dict!CountAt, CountAt, Dict!Byte, Byte, Dict!Upper, Upper, Dict!CountBytes, CountBytes
<1>2. Dict!SerialAt(img) = SerialAt(img)
  BY Zenon DEF Dict!SerialAt, SerialAt, Dict!Byte, Byte
<1>3. Dict!ChildAt(img, pos) = ChildAt(img, pos)
  BY <1>2, Zenon DEF Dict!ChildAt, ChildAt, Dict!Byte, Byte
<1> QED  BY <1>1, <1>3

(* Its image is the image, and its elements are where they are. *)
LEMMA SameImage ==
  /\ Dict!Image(<<>>) = Image(<<>>)
  /\ Dict!Enumerate(<<>>, 0) = Enumerate(<<>>, 0)
<1>1. Dict!Images = Images
  BY SMTT(60) DEF Dict!Images, Images, Dict!BufLen, BufLen, Dict!BufLens, BufLens, Dict!Visits, Visits, Dict!Kid, Kid,
     Dict!CountBytes, CountBytes, Dict!KidLen, KidLen, Dict!SerialLen, SerialLen, Dict!ElementLen, ElementLen,
     Dict!ListLens, ListLens, Dict!EntryLen, EntryLen, Dict!All, All, Dict!StoreCount, StoreCount, Dict!Upper, Upper,
     Dict!Serial, Serial, Dict!ElementBytes, ElementBytes, Dict!ListBytes, ListBytes, Dict!EntryBytes, EntryBytes,
     Dict!PostBytes, PostBytes, Dict!Last, Last
<1>2. Dict!Image(<<>>) = Image(<<>>)
  BY <1>1, Zenon DEF Dict!Image, Image, Dict!All, All, Dict!ElementBytes, ElementBytes, Dict!ListBytes, ListBytes,
     Dict!EntryBytes, EntryBytes, Dict!PostBytes, PostBytes, Dict!Serial, Serial
<1>3. Dict!Enumerated = Enumerated
  BY Zenon DEF Dict!Enumerated, Enumerated, Dict!Ways, Ways, Dict!BufLen, BufLen, Dict!BufLens, BufLens,
     Dict!Visits, Visits, Dict!Kid, Kid, Dict!CountBytes, CountBytes, Dict!KidLen, KidLen, Dict!SerialLen, SerialLen,
     Dict!ElementLen, ElementLen, Dict!ListLens, ListLens, Dict!EntryLen, EntryLen, Dict!All, All,
     Dict!Acted, Acted, Dict!KidOffset, KidOffset
<1>4. Dict!Enumerate(<<>>, 0) = Enumerate(<<>>, 0)
  BY <1>3, Zenon DEF Dict!Enumerate, Enumerate, Dict!Acted, Acted, Dict!ElementLen, ElementLen,
     Dict!ListLens, ListLens, Dict!EntryLen, EntryLen, Dict!SerialLen, SerialLen
<1> QED  BY <1>2, <1>4

(* Its tree is the tree, and so is that of the scan it is to implement. *)
LEMMA SameTree ==
  /\ Dict!TreeInit = TreeInit /\ Dict!Tree!TreeInit = TreeInit
  /\ Dict!Grow = Grow /\ Dict!Tree!Grow = Grow
  /\ Dict!treeVars = treeVars /\ Dict!Tree!treeVars = treeVars
<1>1. Dict!TreeInit = TreeInit /\ Dict!Tree!TreeInit = TreeInit
  BY Zenon DEF Dict!TreeInit, TreeInit, Dict!Tree!TreeInit
<1>2. Dict!treeVars = treeVars /\ Dict!Tree!treeVars = treeVars
  BY Zenon DEF Dict!treeVars, treeVars, Dict!Tree!treeVars
<1>3. Dict!Grow = Grow
  BY Zenon DEF Dict!Grow, Grow, Dict!Insert, Insert, Dict!Descend, Descend, Dict!Store, Store, Dict!Place, Place,
     Dict!Present, Present, Dict!Emplaced, Emplaced
<1>4. Dict!Tree!Grow = Grow
  BY Zenon DEF Dict!Tree!Grow, Grow, Dict!Tree!Insert, Insert, Dict!Tree!Descend, Descend, Dict!Tree!Store, Store,
     Dict!Tree!Place, Place, Dict!Tree!Present, Present, Dict!Tree!Emplaced, Emplaced
<1> QED  BY <1>1, <1>2, <1>3, <1>4

(* What is looked for and who is asked are the same. *)
LEMMA SameCalls ==
  ASSUME NEW w, NEW str, NEW cch
  PROVE  /\ Dict!Sought(w, str, cch) = Sought(w, str, cch) /\ Dict!Tree!Sought(w, str, cch) = Sought(w, str, cch)
         /\ Dict!Accepts(cch) = Accepts(cch) /\ Dict!Tree!Accepts(cch) = Accepts(cch)
BY Zenon DEF Dict!Sought, Sought, Dict!Tree!Sought, Dict!At, At, Dict!Tree!At, Dict!Accepts, Accepts, Dict!Tree!Accepts

(* As long as the tree is, the lengths, the bytes and the offsets are. *)
LEMMA ImagesStay ==
  ASSUME UNCHANGED <<treeVars, index>>
  PROVE  /\ BufLens' = BufLens /\ Images' = Images /\ Enumerated' = Enumerated
         /\ \A p : All(p)' = All(p) /\ ElementLen(p)' = ElementLen(p) /\ ElementBytes(p)' = ElementBytes(p)
<1>1. /\ nodes' = nodes /\ nested' = nested /\ data' = data /\ index' = index
  BY DEF treeVars
<1>2. BufLens' = BufLens
  BY <1>1, SMTT(60) DEF BufLens, Visits, Kid, CountBytes, KidLen, SerialLen, ElementLen, ListLens, EntryLen, All
<1>3. Images' = Images
  BY <1>1, SMTT(60) DEF Images, BufLen, BufLens, Visits, Kid, CountBytes, KidLen, SerialLen, ElementLen, ListLens, EntryLen,
     All, StoreCount, Upper, Serial, ElementBytes, ListBytes, EntryBytes, PostBytes, Last
<1>4. Enumerated' = Enumerated
  BY <1>1, SMTT(60) DEF Enumerated, Ways, BufLen, BufLens, Visits, Kid, CountBytes, KidLen, SerialLen, ElementLen, ListLens,
     EntryLen, All, Acted, KidOffset
<1>5. \A p : All(p)' = All(p) /\ ElementLen(p)' = ElementLen(p)
  BY <1>1 DEF All, ElementLen, ListLens, EntryLen, SerialLen
<1>6. \A p : ElementBytes(p)' = ElementBytes(p)
  BY <1>1 DEF ElementBytes, ListBytes, EntryBytes, PostBytes, Serial
<1> QED  BY <1>2, <1>3, <1>4, <1>5, <1>6


(* A level with a child passed is a level. *)
LEMMA PassedIs ==
  ASSUME image \in Bytes, NEW lv \in Dict!ScanStack
  PROVE  LET c == ChildAt(image, lv.dic)
             to == Dict!Passed(lv, c)
         IN /\ lv.dic \in Nat /\ lv.ccount \in Nat /\ lv.chfind \in 0 .. 255 /\ lv.upper \in BOOLEAN
            /\ c.char \in 0 .. 255 /\ c.sub \in Nat /\ c.next \in Nat
            /\ lv.ccount # 0 =>
                 /\ to \in Dict!ScanStack
                 /\ to.str = lv.str /\ to.cch = lv.cch /\ to.chfind = lv.chfind /\ to.upper = lv.upper
                 /\ to.dic = c.next /\ to.ccount = lv.ccount - 1
<1> DEFINE c == ChildAt(image, lv.dic)
           to == Dict!Passed(lv, c)
<1> HIDE DEF c, to
<1>1. /\ lv.str \in Nat /\ lv.cch \in Nat /\ lv.chfind \in 0 .. 255 /\ lv.dic \in Nat /\ lv.upper \in BOOLEAN
      /\ lv.ccount \in Counts
  <2>1. /\ lv.str \in Nat /\ lv.cch \in Nat /\ lv.chfind \in 0 .. 255 /\ lv.dic \in Nat
        /\ lv.ccount \in Dict!Counts
    BY DEF Dict!ScanStack
  <2>2. lv.upper \in BOOLEAN
    BY Zenon DEF Dict!ScanStack
  <2>3. Dict!Counts = Counts
    BY DEF Dict!Counts, Counts
  <2> QED  BY <2>1, <2>2, <2>3, Zenon
<1>2. lv.ccount \in Nat
  BY <1>1, CountsAre, Zenon
<1>3. c.char \in 0 .. 255 /\ c.sub \in Nat /\ c.next \in Nat
  BY <1>1, ChildTyped, Zenon DEF c
<1>4. to = [lv EXCEPT !.dic = c.next, !.ccount = lv.ccount - 1]
  BY Zenon DEF Dict!Passed, to
<1>5. to = [str |-> lv.str, cch |-> lv.cch, chfind |-> lv.chfind, dic |-> c.next, upper |-> lv.upper,
            ccount |-> lv.ccount - 1]
  BY <1>4 DEF Dict!ScanStack
<1>6. lv.ccount # 0 => lv.ccount - 1 \in Counts
  <2>1. \A n \in Counts : n # 0 => n - 1 \in Counts
    BY DEF Counts
  <2> QED  BY <1>1, <2>1, Zenon
<1>7. /\ to.str = lv.str /\ to.cch = lv.cch /\ to.chfind = lv.chfind /\ to.upper = lv.upper
      /\ to.dic = c.next /\ to.ccount = lv.ccount - 1
  BY <1>5
<1>8. lv.ccount # 0 => to \in Dict!ScanStack
  <2>1. Dict!Counts = Counts
    BY DEF Dict!Counts, Counts
  <2> DEFINE m == lv.ccount - 1
  <2> HIDE DEF m
  <2>2. m \in Counts => to \in Dict!ScanStack
    BY <1>1, <1>3, <1>5, <2>1 DEF Dict!ScanStack, m
  <2> QED  BY <1>6, <2>2, Zenon DEF m
<1> QED  BY <1>1, <1>2, <1>3, <1>7, <1>8 DEF c, to

(* Where a level is left, and with which child. *)
Finding ==
  [found : {FALSE}, lv : Dict!ScanStack] \cup [found : {TRUE}, sub : Nat, lv : Dict!ScanStack]

(* The loop of findchar, one child further. *)
FindStep(lv, behind) ==
  LET c == ChildAt(image, lv.dic)
  IN IF lv.ccount <= 0 THEN [found |-> FALSE, lv |-> lv]
     ELSE IF lv.chfind = c.char THEN Dict!WentDown(lv, c)
     ELSE IF Dict!TooFar(lv, c) THEN [found |-> FALSE, lv |-> Dict!Passed(lv, c)]
     ELSE behind

(* What findchar finds is what the definition says. *)
LEMMA FindCharIs ==
  ASSUME image \in Bytes, NEW lv \in Dict!ScanStack
  PROVE  /\ Dict!FindChar(lv) \in Finding
         /\ Dict!FindChar(lv) = FindStep(lv, Dict!FindChar(Dict!Passed(lv, ChildAt(image, lv.dic))))
<1> DEFINE S == Dict!ScanStack
           V == Finding
           to(x) == Dict!Passed(x, ChildAt(image, x.dic))
           size == [x \in S |-> x.ccount]
           body(x, f) == FindStep(x, f[to(x)])
           Is(f) == f = [x \in S |-> body(x, f)]
           G == [y \in S \X [S -> V] |-> body(y[1], y[2])]
           find == CHOOSE f : Is(f)
<1>1. V # {} /\ size \in [S -> Nat] /\ \A x \in S : size[x] = x.ccount
  <2>1. \A x \in S : x.ccount \in Nat
    BY PassedIs, Zenon
  <2>2. [found |-> FALSE, lv |-> lv] \in V
    BY DEF Finding
  <2> HIDE DEF S, V
  <2> QED  BY <2>1, <2>2
<1>2. ASSUME NEW x \in S  PROVE x.ccount # 0 => to(x) \in S /\ to(x).ccount < x.ccount
  <2>1. x.ccount \in Nat /\ (x.ccount # 0 => to(x) \in S /\ to(x).ccount = x.ccount - 1)
    BY PassedIs, Zenon
  <2> HIDE DEF to, S
  <2> QED  BY <2>1
<1>3. ASSUME NEW x \in S, NEW b, x.ccount # 0 => b \in V  PROVE FindStep(x, b) \in V
  <2> DEFINE c == ChildAt(image, x.dic)
  <2>1. /\ x.ccount \in Nat /\ c.sub \in Nat /\ (x.ccount # 0 => Dict!Passed(x, c) \in S)
    BY PassedIs, Zenon
  <2>2. \A y \in S : [found |-> FALSE, lv |-> y] \in V
    BY DEF Finding
  <2>3. \A y \in S : \A n \in Nat : [found |-> TRUE, sub |-> n, lv |-> y] \in V
    BY DEF Finding
  <2>4. x.ccount # 0 => Dict!WentDown(x, c) \in V
    BY <2>1, <2>3, Zenon DEF Dict!WentDown
  <2>5. x.ccount # 0 => [found |-> FALSE, lv |-> Dict!Passed(x, c)] \in V
    BY <2>1, <2>2, Zenon
  <2>6. ~(x.ccount <= 0) => x.ccount # 0
    OBVIOUS
  <2>7. [found |-> FALSE, lv |-> x] \in V
    BY <2>2, Zenon
  <2> HIDE DEF V, S
  <2> QED  BY <1>3, <2>4, <2>5, <2>6, <2>7, Zenon DEF FindStep
<1>4. ASSUME NEW x \in S, NEW f \in [S -> V]  PROVE body(x, f) \in V
  <2>1. x.ccount # 0 => f[to(x)] \in V
    <3>1. x.ccount # 0 => to(x) \in S
      BY <1>2, Zenon
    <3> HIDE DEF to, S, V
    <3> QED  BY <3>1
  <2> HIDE DEF to, S, V
  <2> QED  BY <1>3, <2>1, Zenon
<1>5. ASSUME NEW x \in S, NEW g, NEW h \in [S -> V], \A y \in S : size[y] < size[x] => g[y] = h[y]
      PROVE  body(x, g) = body(x, h)
  <2>1. x.ccount # 0 => g[to(x)] = h[to(x)]
    <3>1. x.ccount # 0 => to(x) \in S /\ to(x).ccount < x.ccount
      BY <1>2, Zenon
    <3> HIDE DEF to, S, V, size
    <3>2. x.ccount # 0 => size[to(x)] < size[x]
      BY <1>1, <3>1, Zenon
    <3> QED  BY <1>5, <3>1, <3>2, Zenon
  <2>2. ~(x.ccount <= 0) => x.ccount # 0
    OBVIOUS
  <2> HIDE DEF to
  <2> QED  BY <2>1, <2>2, Zenon DEF FindStep
<1> HIDE DEF body, V, size, S
<1>6. \A x \in S, f \in [S -> V] : G[<<x, f>>] = body(x, f) /\ G[<<x, f>>] \in V
  BY <1>4
<1>7. G \in [S \X [S -> V] -> V]
  <2> DEFINE T == [S -> V]
  <2>1. \A y \in S \X T : \E x \in S, f \in T : y = <<x, f>>
    <3> HIDE DEF T
    <3> QED  OBVIOUS
  <2>2. \A y \in S \X T : G[y] \in V
    <3>1. \A x \in S, f \in T : G[<<x, f>>] \in V
      BY <1>6
    <3> HIDE DEF G, T
    <3> QED  BY <2>1, <3>1, Zenon
  <2> HIDE DEF T
  <2> QED  BY <2>2 DEF T, G
<1> HIDE DEF G
<1>8. Recursion(S, V, size, G)
  <2>1. ASSUME NEW x \in S, NEW g \in [S -> V], NEW h \in [S -> V],
               \A y \in S : size[y] < size[x] => g[y] = h[y]
        PROVE  G[<<x, g>>] = G[<<x, h>>]
    <3>1. body(x, g) = body(x, h)
      BY <1>5, <2>1, Zenon
    <3> QED  BY <1>6, <3>1, Zenon
  <2> QED  BY <1>1, <1>7, <2>1, Zenon DEF Recursion
<1>9. PICK h \in [S -> V] : \A x \in S : h[x] = G[<<x, h>>]
  BY <1>8, RecursionSolved
<1>10. \A x \in S : h[x] = body(x, h)
  BY <1>6, <1>9, Zenon
<1>11. Is(find)
  <2>1. Is(h)
    BY <1>9, <1>10
  <2> HIDE DEF Is
  <2> QED  BY <2>1, Zenon
<1> HIDE DEF find
<1>12. \A x \in S : find[x] = body(x, find)
  BY <1>11
<1>13. \A x \in S : find[x] = h[x]
  <2>1. ASSUME NEW x \in S, \A y \in S : size[y] < size[x] => find[y] = h[y]
        PROVE  find[x] = h[x]
    <3>1. body(x, find) = body(x, h)
      BY <1>5, <1>9, <2>1, Zenon
    <3> QED  BY <1>10, <1>12, <3>1, Zenon
  <2> DEFINE P == {x \in S : find[x] = h[x]}
  <2>2. \A x \in S : (\A y \in S : size[y] < size[x] => y \in P) => x \in P
    BY <2>1
  <2>3. size \in [S -> Nat]
    BY <1>1
  <2>4. S \subseteq P
    <3> HIDE DEF P, Is
    <3> QED  BY <2>2, <2>3, SizeInduction, Zenon
  <2> QED  BY <2>4
<1>14. \A x : Dict!FindChar(x) = find[x]
  BY SMTT(30) DEF Dict!FindChar, find, Is, body, S, FindStep, Dict!ChildAt, ChildAt, Dict!SerialAt, SerialAt, Dict!Byte, Byte
<1>15. lv \in S
  BY DEF S
<1>16. Dict!FindChar(lv) \in V
  BY <1>9, <1>13, <1>14, <1>15
<1>17. Dict!FindChar(lv) = FindStep(lv, Dict!FindChar(to(lv)))
  BY <1>12, <1>14, <1>15, Zenon DEF body
<1> QED  BY <1>16, <1>17 DEF V


-------------------------------------------------------------------------------
(* A node is at home where its bytes are, when what Enumerate acts on from     *)
(* there is part of what it acts on from the root.                             *)
AtHome(p, o) ==
  /\ Holds(image, o, Images[All(p)])
  /\ ToSet(Enumerate(p, o).calls) \subseteq ToSet(Enumerate(<<>>, 0).calls)

(* What Enumerate acts on in a node. *)
LEMMA EnumerateIs ==
  ASSUME Grown, NEW p \in nodes, NEW o \in Nat
  PROVE  LET kids == Enumerated[<<p, Len(nested[p]), o>>]
             call == [key |-> p, offset |-> o + BufLens[All(p)]]
         IN /\ kids.calls \in Seq(CallType)
            /\ Enumerate(p, o).calls = IF p \in data THEN Append(kids.calls, call) ELSE kids.calls
            /\ Enumerate(p, o).calls \in Seq(CallType) /\ call \in CallType
            /\ ToSet(kids.calls) \subseteq ToSet(Enumerate(p, o).calls)
            /\ p \in data => call \in ToSet(Enumerate(p, o).calls)
<1> DEFINE n == Len(nested[p])
           x == <<p, n, o>>
           kids == Enumerated[x]
           call == [key |-> p, offset |-> o + BufLens[All(p)]]
<1>1. n \in Nat
  BY FewChildren, Zenon
<1>2. x \in Ways /\ x[1] = p /\ x[2] = n /\ x[3] = o
  BY <1>1 DEF Ways
<1> HIDE DEF x
<1>3. kids \in Traversal /\ kids.offset = o + BufLens[<<p, n>>]
  BY <1>2, EnumeratedIs, OffsetsAre, Zenon
<1>4. All(p) = <<p, n>>
  BY DEF All
<1>5. Enumerate(p, o) = Acted(p, kids)
  BY DEF Enumerate, x
<1> HIDE DEF n, kids
<1>6. /\ Enumerate(p, o).calls = IF p \in data THEN Append(kids.calls, call) ELSE kids.calls
      /\ kids.calls \in Seq(CallType) /\ Enumerate(p, o).calls \in Seq(CallType)
  <2>1. call = [key |-> p, offset |-> kids.offset]
    BY <1>3, <1>4, Zenon
  <2> HIDE DEF call
  <2> QED  BY <1>3, <1>5, <2>1, ActedIs, Zenon
<1>7. call \in CallType
  <2>1. p \in Seq(0 .. 255)
    BY PathIs, Zenon
  <2>2. kids.offset \in Nat
    BY <1>3 DEF Traversal
  <2>3. o + BufLens[All(p)] \in Nat
    BY <1>3, <1>4, <2>2, Zenon
  <2> QED  BY <2>1, <2>3 DEF CallType
<1> HIDE DEF call
<1>8. /\ ToSet(kids.calls) \subseteq ToSet(Enumerate(p, o).calls)
      /\ p \in data => call \in ToSet(Enumerate(p, o).calls)
  <2>1. CASE p \notin data
    BY <1>6, <2>1, Zenon
  <2>2. CASE p \in data
    <3> DEFINE s == kids.calls
    <3>1. s \in Seq(CallType)
      BY <1>6
    <3> HIDE DEF s
    <3>2. \A i \in DOMAIN s : i \in DOMAIN Append(s, call) /\ Append(s, call)[i] = s[i]
      BY <1>7, <3>1
    <3>3. Len(s) + 1 \in DOMAIN Append(s, call) /\ Append(s, call)[Len(s) + 1] = call
      BY <1>7, <3>1
    <3>4. ToSet(s) \subseteq ToSet(Append(s, call)) /\ call \in ToSet(Append(s, call))
      BY <3>2, <3>3 DEF ToSet
    <3>5. Enumerate(p, o).calls = Append(s, call)
      BY <1>6, <2>2, Zenon DEF s
    <3> QED  BY <3>4, <3>5, Zenon DEF s
  <2> QED  BY <2>1, <2>2
<1> QED  BY <1>6, <1>7, <1>8, Zenon DEF x, kids, call, n

(* What Enumerate acts on in a child is part of it. *)
LEMMA KidActedOn ==
  ASSUME Grown, NEW p \in nodes, NEW o \in Nat, NEW j \in 1 .. Len(nested[p])
  PROVE  ToSet(Enumerate(Kid(p, j), KidOffset(o + BufLens[<<p, j - 1>>], Kid(p, j))).calls)
           \subseteq ToSet(Enumerate(p, o).calls)
<1> DEFINE n == Len(nested[p])
           own == ToSet(Enumerate(Kid(p, j), KidOffset(o + BufLens[<<p, j - 1>>], Kid(p, j))).calls)
           acted(i) == ToSet(Enumerated[<<p, i, o>>].calls)
           Q(k) == j + k <= n => own \subseteq acted(j + k)
           P == {k \in Nat : Q(k)}
<1>1. n \in Nat /\ j \in Nat /\ j <= n /\ j # 0
  <2>1. n \in Nat
    BY FewChildren, Zenon
  <2> QED  BY <2>1
<1>2. ASSUME NEW i \in 1 .. n
      PROVE  LET start == KidOffset(o + BufLens[<<p, i - 1>>], Kid(p, i))
             IN acted(i) = acted(i - 1) \cup ToSet(Enumerate(Kid(p, i), start).calls)
  <2> DEFINE x == <<p, i, o>>
             y == <<p, i - 1, o>>
             kid == Kid(p, i)
             before == Enumerated[y]
             start == KidOffset(before.offset, kid)
             kids == Enumerated[<<kid, Len(nested[kid]), start>>]
  <2>1. x \in Ways /\ y \in Ways /\ x[1] = p /\ x[2] = i /\ x[3] = o /\ i # 0 /\ y[1] = p /\ y[2] = i - 1 /\ y[3] = o
    BY <1>1 DEF Ways
  <2>2. before.offset = o + BufLens[<<p, i - 1>>]
    <3> HIDE DEF y
    <3> QED  BY <2>1, OffsetsAre, Zenon
  <2>3. /\ before \in Traversal /\ kids \in Traversal
        /\ Enumerated[x].calls = before.calls \o Acted(kid, kids).calls
    <3> HIDE DEF x
    <3>1. y = <<x[1], x[2] - 1, x[3]>>
      BY <2>1, Zenon
    <3> HIDE DEF y
    <3> QED  BY <2>1, <3>1, EnumeratedStep, Zenon
  <2>4. Acted(kid, kids) = Enumerate(kid, start)
    BY DEF Enumerate
  <2>5. kid \in nodes
    BY ImagesStep, Zenon
  <2> HIDE DEF kids, kid
  <2>6. before.calls \in Seq(CallType) /\ Acted(kid, kids).calls \in Seq(CallType)
    BY <2>3, <2>5, ActedIs DEF Traversal
  <2> HIDE DEF before, x, start
  <2>7. ToSet(Enumerated[x].calls) = ToSet(before.calls) \cup ToSet(Enumerate(kid, start).calls)
    <3> DEFINE a == before.calls
               b == Enumerate(kid, start).calls
    <3>1. a \in Seq(CallType) /\ b \in Seq(CallType)
      BY <2>4, <2>6, Zenon
    <3>2. Enumerated[x].calls = a \o b
      BY <2>3, <2>4, Zenon
    <3> HIDE DEF a, b
    <3>3. ToSet(a \o b) = ToSet(a) \cup ToSet(b)
      BY <3>1, JoinHolds, Zenon
    <3> QED  BY <3>2, <3>3, Zenon DEF a, b
  <2> QED  BY <2>2, <2>7, Zenon DEF before, x, y, kid, start
<1>3. ASSUME NEW k \in Nat, \A m \in Nat : m < k => m \in P  PROVE k \in P
  <2> SUFFICES ASSUME j + k <= n  PROVE own \subseteq acted(j + k)
    OBVIOUS
  <2>1. CASE k = 0
    <3>1. j + k = j
      BY <1>1, <2>1
    <3>2. own \subseteq acted(j)
      <4> HIDE DEF acted
      <4> QED  BY <1>2, Zenon
    <3> QED  BY <3>1, <3>2, Zenon
  <2>2. CASE k # 0
    <3>1. k - 1 \in Nat /\ k - 1 < k /\ j + (k - 1) <= n /\ j + k \in 1 .. n /\ (j + k) - 1 = j + (k - 1)
      BY <1>1, <2>2
    <3>2. Q(k - 1)
      BY <1>3, <3>1
    <3> HIDE DEF acted, own
    <3>3. own \subseteq acted((j + k) - 1)
      BY <3>1, <3>2, Zenon
    <3> DEFINE i == j + k
    <3>4. i \in 1 .. n /\ own \subseteq acted(i - 1)
      BY <3>1, <3>3
    <3> HIDE DEF i, n
    <3>5. own \subseteq acted(i)
      BY <1>2, <3>4, Zenon
    <3> QED  BY <3>5 DEF i
  <2> QED  BY <2>1, <2>2
<1>4. Nat \subseteq P
  <2> HIDE DEF P
  <2> QED  BY <1>3, NumberInduction, Zenon
<1>5. n - j \in Nat /\ j + (n - j) = n
  BY <1>1
<1> HIDE DEF own
<1>6. own \subseteq acted(n)
  <2>1. Q(n - j)
    BY <1>4, <1>5
  <2> HIDE DEF acted
  <2> QED  BY <1>1, <1>5, <2>1
<1>7. acted(n) \subseteq ToSet(Enumerate(p, o).calls)
  BY EnumerateIs, Zenon
<1> QED  BY <1>6, <1>7 DEF own


(* The root is at home where the image starts. *)
LEMMA RootAtHome ==
  ASSUME Grown, image = Image(<<>>)
  PROVE  /\ <<>> \in nodes /\ image \in Bytes /\ AtHome(<<>>, 0)
         /\ CountAt(image, 0).upper <=> <<>> \in data
         /\ CountAt(image, 0).lower = Len(nested[<<>>])
         /\ CountAt(image, 0).next = BufLens[<<<<>>, 0>>] /\ CountAt(image, 0).next \in Nat
<1> DEFINE root == <<>>
           x == <<root, 0>>
           n == Len(nested[root])
<1>1. root \in nodes /\ image \in Bytes /\ Holds(image, 0, Images[All(root)])
  BY WholeImage, Zenon
<1>2. AtHome(root, 0)
  BY <1>1, Zenon DEF AtHome
<1>3. n \in Nat
  BY <1>1, FewChildren, Zenon
<1> HIDE DEF root
<1>4. 0 \in 0 .. n
  BY <1>3
<1>5. x \in Visits /\ BufLens[x] \in Nat
  BY <1>1, <1>4, CursorIs, Zenon
<1>6. x[1] = root /\ x[2] = 0
  OBVIOUS
<1>7. Holds(image, 0, Images[x])
  BY <1>1, <1>4, ImagesHeld, Zenon
<1> HIDE DEF x
<1>8. Images[x] = StoreCount(root) /\ BufLens[x] = CountBytes
  BY <1>5, <1>6, ImagesIs, BufLensIs, Zenon
<1>9. Holds(image, 0, StoreCount(root)) /\ 0 \in Nat
  BY <1>7, <1>8, Zenon
<1>10. /\ CountAt(image, 0).upper <=> root \in data
       /\ CountAt(image, 0).lower = n /\ CountAt(image, 0).next = 0 + CountBytes
  BY <1>1, <1>9, CountRead, Zenon
<1>11. 0 + CountBytes = BufLens[x]
  BY <1>5, <1>8
<1> QED  BY <1>1, <1>2, <1>5, <1>10, <1>11, Zenon DEF root, x, n

(* Where a child's image starts, in the image of its node. *)
KidHome(p, o, j) == KidOffset(o + BufLens[<<p, j - 1>>], Kid(p, j))

(* From a node at home the cursor comes to children at home. *)
LEMMA KidAtHome ==
  ASSUME Grown, image \in Bytes, NEW p \in nodes, NEW o \in Nat, AtHome(p, o), NEW j \in 1 .. Len(nested[p])
  PROVE  LET kid == Kid(p, j)
             c == ChildAt(image, o + BufLens[<<p, j - 1>>])
             node == CountAt(image, KidHome(p, o, j))
         IN /\ kid \in nodes /\ kid = Append(p, nested[p][j])
            /\ c.char = nested[p][j] /\ c.sub = KidHome(p, o, j) /\ c.next = o + BufLens[<<p, j>>]
            /\ KidHome(p, o, j) \in Nat /\ AtHome(kid, KidHome(p, o, j))
            /\ node.upper <=> kid \in data
            /\ node.lower = Len(nested[kid]) /\ node.next = KidHome(p, o, j) + BufLens[<<kid, 0>>]
<1> DEFINE kid == Kid(p, j)
           q == o + BufLens[<<p, j - 1>>]
           sub == KidHome(p, o, j)
<1>1. Holds(image, o, Images[All(p)])
  BY DEF AtHome
<1>2. sub = KidOffset(q, kid)
  BY DEF KidHome
<1>3. /\ KidOffset(q, kid) \in Nat
      /\ ChildAt(image, q).char = Last(kid) /\ ChildAt(image, q).sub = KidOffset(q, kid)
      /\ ChildAt(image, q).next = o + BufLens[<<p, j>>]
      /\ Holds(image, KidOffset(q, kid), Images[All(kid)])
      /\ CountAt(image, KidOffset(q, kid)).upper <=> kid \in data
      /\ CountAt(image, KidOffset(q, kid)).lower = Len(nested[kid])
      /\ CountAt(image, KidOffset(q, kid)).next = KidOffset(q, kid) + BufLens[<<kid, 0>>]
  <2> DEFINE r == q + 1 + SerialLen[BufLen(kid)]
  <2>1. r = KidOffset(q, kid)
    BY DEF KidOffset
  <2>2. /\ r \in Nat /\ ChildAt(image, q).char = Last(kid) /\ ChildAt(image, q).sub = r
        /\ ChildAt(image, q).next = o + BufLens[<<p, j>>]
        /\ Holds(image, r, Images[All(kid)])
        /\ CountAt(image, r).upper <=> kid \in data
        /\ CountAt(image, r).lower = Len(nested[kid])
        /\ CountAt(image, r).next = r + BufLens[<<kid, 0>>]
    BY <1>1, KidHeld, Zenon
  <2> HIDE DEF r
  <2> QED  BY <2>1, <2>2, Zenon
<1>4. kid \in nodes /\ Last(kid) = nested[p][j]
  BY KidIs, ImagesStep, Zenon
<1>5. ToSet(Enumerate(kid, sub).calls) \subseteq ToSet(Enumerate(p, o).calls)
  BY <1>2, KidActedOn, Zenon
<1>6. AtHome(kid, sub)
  <2>1. ToSet(Enumerate(p, o).calls) \subseteq ToSet(Enumerate(<<>>, 0).calls)
    BY DEF AtHome
  <2>2. ToSet(Enumerate(kid, sub).calls) \subseteq ToSet(Enumerate(<<>>, 0).calls)
    BY <1>5, <2>1, Zenon
  <2>3. Holds(image, sub, Images[All(kid)])
    BY <1>2, <1>3, Zenon
  <2> QED  BY <2>2, <2>3, Zenon DEF AtHome
<1>7. kid = Append(p, nested[p][j])
  BY DEF Kid
<1> HIDE DEF kid, sub, q
<1> QED  BY <1>2, <1>3, <1>4, <1>6, <1>7, Zenon DEF kid, sub, q

(* Which element stands at an offset. *)
StemsOf(calls) == [o \in {c.offset : c \in calls} |-> (CHOOSE c \in calls : c.offset = o).key]

Stems == StemsOf(ToSet(Enumerate(<<>>, 0).calls))

(* At the end of a node at home stands its element and no other. *)
LEMMA ElementAtHome ==
  ASSUME Grown, stemAt = Stems, NEW p \in data, NEW o \in Nat, AtHome(p, o)
  PROVE  Dict!StemAt(o + BufLens[All(p)]) = p
<1> DEFINE s == Enumerate(<<>>, 0).calls
           calls == ToSet(s)
           at0 == o + BufLens[All(p)]
           call == [key |-> p, offset |-> at0]
<1>1. p \in nodes
  BY DEF Grown, TreeInv, TreeTypeOK
<1>2. call \in calls
  <2>1. call \in ToSet(Enumerate(p, o).calls)
    BY <1>1, EnumerateIs, Zenon
  <2> QED  BY <2>1, Zenon DEF AtHome
<1>3. Listed(Image(<<>>), s, 0, BufLen(<<>>))
  <2>1. -1 \in Goals
    BY DEF Goals
  <2> QED  BY <2>1, TrackIs, Zenon
<1> HIDE DEF s
<1>4. \A c, e \in calls : c.offset = e.offset => c = e
  <2> SUFFICES ASSUME NEW i \in DOMAIN s, NEW k \in DOMAIN s, s[i].offset = s[k].offset  PROVE s[i] = s[k]
    BY DEF ToSet
  <2>1. s \in Seq(CallType)
    BY <1>3, Zenon DEF Listed
  <2>2. i \in Nat /\ k \in Nat /\ s[i] \in CallType /\ s[k] \in CallType
    BY <2>1
  <2>3. /\ s[i].key \in data /\ s[k].key \in data
        /\ i < k => s[i].offset + ElementLen(s[i].key) <= s[k].offset
        /\ k < i => s[k].offset + ElementLen(s[k].key) <= s[i].offset
    BY <1>3, Zenon DEF Listed, Good
  <2>4. \A q \in data : ElementLen(q) \in Nat /\ ElementLen(q) >= 1
    <3>1. \A q \in data : q \in nodes
      BY DEF Grown, TreeInv, TreeTypeOK
    <3> QED  BY <3>1, ElementIs, Zenon
  <2>5. ElementLen(s[i].key) \in Nat /\ ElementLen(s[i].key) >= 1 /\ ElementLen(s[k].key) \in Nat /\ ElementLen(s[k].key) >= 1
    BY <2>3, <2>4, Zenon
  <2>6. s[i].offset \in Nat /\ s[k].offset \in Nat
    BY <2>2 DEF CallType
  <2> DEFINE a == s[i].offset
             l == ElementLen(s[i].key)
             m == ElementLen(s[k].key)
  <2> HIDE DEF a, l, m
  <2>7. a \in Nat /\ l \in Nat /\ m \in Nat /\ l >= 1 /\ m >= 1 /\ (i < k => a + l <= a) /\ (k < i => a + m <= a)
    BY <2>3, <2>5, <2>6 DEF a, l, m
  <2>8. i = k
    BY <2>2, <2>7
  <2> QED  BY <2>8
<1> HIDE DEF calls, call
<1>5. call.offset = at0 /\ call.key = p
  BY DEF call
<1>6. (CHOOSE c \in calls : c.offset = at0) = call
  BY <1>2, <1>4, <1>5, Zenon
<1>7. at0 \in {c.offset : c \in calls}
  BY <1>2, <1>5
<1>8. stemAt = [x \in {c.offset : c \in calls} |-> (CHOOSE c \in calls : c.offset = x).key]
  BY DEF Stems, StemsOf, calls, s
<1> HIDE DEF at0
<1>9. at0 \in DOMAIN stemAt /\ stemAt[at0] = (CHOOSE c \in calls : c.offset = at0).key
  <2> DEFINE D == {c.offset : c \in calls}
             stem(x) == (CHOOSE c \in calls : c.offset = x).key
  <2>1. at0 \in D /\ stemAt = [x \in D |-> stem(x)]
    BY <1>7, <1>8, Zenon
  <2> HIDE DEF D, stem
  <2>2. at0 \in DOMAIN stemAt /\ stemAt[at0] = stem(at0)
    BY <2>1
  <2> QED  BY <2>2, Zenon DEF stem
<1>10. stemAt[at0] = p
  BY <1>5, <1>6, <1>9, Zenon
<1> QED  BY <1>9, <1>10, Zenon DEF Dict!StemAt, at0


(* A level stands where the node's bytes are and its cursor has passed as many *)
(* children as it no longer counts.                                            *)
Stands(lv, p, o) ==
  /\ lv \in Dict!ScanStack /\ (lv.upper <=> p \in data) /\ lv.ccount <= Len(nested[p])
  /\ AtHome(p, o)
  /\ lv.dic = o + BufLens[<<p, Len(nested[p]) - lv.ccount>>]

(* It as TreeScan has it. *)
LevelAt(p, c, i) == [path |-> p, chfind |-> c, passed |-> i]

NodeLevel(lv, p) == LevelAt(p, lv.chfind, Len(nested[p]) - lv.ccount)

(* Where a level of TreeScan stops: at the next child, or where it would with  *)
(* that child passed.                                                          *)
LEMMA StopsNext ==
  ASSUME Grown, NEW p \in nodes, NEW c, NEW i \in Nat
  PROVE  LET t == LevelAt(p, c, i)
             u == LevelAt(p, c, i + 1)
         IN /\ i = Len(nested[p]) => ~Finds(t)
            /\ i < Len(nested[p]) /\ nested[p][i + 1] = c => FindsAt(t, i + 1) /\ Finds(t)
            /\ i < Len(nested[p]) /\ nested[p][i + 1] # c /\ nested[p][i + 1] < c /\ p \notin data => ~Finds(t)
            /\ i < Len(nested[p]) /\ nested[p][i + 1] # c /\ ~(nested[p][i + 1] < c /\ p \notin data) =>
                 (Finds(t) <=> Finds(u)) /\ \A j : FindsAt(t, j) <=> FindsAt(u, j)
<1> DEFINE t == LevelAt(p, c, i)
           u == LevelAt(p, c, i + 1)
           n == Len(nested[p])
           S(k) == {j \in k + 1 .. n : nested[p][j] = c \/ (nested[p][j] < c /\ p \notin data)}
<1>1. n \in Nat
  BY FewChildren, Zenon
<1>2. Stops(t) = S(i) /\ Stops(u) = S(i + 1) /\ t.path = p /\ u.path = p /\ t.chfind = c /\ u.chfind = c
  BY DEF Stops, LevelAt
<1> HIDE DEF t, u
<1>3. \A j \in S(i) : i + 1 <= j
  OBVIOUS
<1>4. i = n => S(i) = {}
  BY <1>1
<1>5. i < n => i + 1 \in i + 1 .. n
  BY <1>1
<1>6. /\ \A j : FindsAt(t, j) <=> (j \in S(i) /\ (\A k \in S(i) : j <= k) /\ nested[p][j] = c)
      /\ \A j : FindsAt(u, j) <=> (j \in S(i + 1) /\ (\A k \in S(i + 1) : j <= k) /\ nested[p][j] = c)
      /\ Finds(t) <=> \E j \in S(i) : FindsAt(t, j)
      /\ Finds(u) <=> \E j \in S(i + 1) : FindsAt(u, j)
  BY <1>2, Zenon DEF FindsAt, StopsAt, Finds
<1>7. i = n => ~Finds(t)
  BY <1>4, <1>6, Zenon
<1>8. i < n /\ nested[p][i + 1] = c => FindsAt(t, i + 1) /\ Finds(t)
  <2>1. i < n /\ nested[p][i + 1] = c => i + 1 \in S(i)
    BY <1>5
  <2> HIDE DEF S
  <2> QED  BY <1>3, <1>6, <2>1, Zenon
<1>9. i < n /\ nested[p][i + 1] # c /\ nested[p][i + 1] < c /\ p \notin data => ~Finds(t)
  <2> SUFFICES ASSUME i < n, nested[p][i + 1] # c, nested[p][i + 1] < c, p \notin data, NEW j \in S(i), FindsAt(t, j)
               PROVE  FALSE
    BY <1>6, Zenon
  <2>1. i + 1 \in S(i)
    BY <1>5
  <2>2. j <= i + 1 /\ i + 1 <= j /\ nested[p][j] = c
    BY <1>3, <1>6, <2>1
  <2>3. j \in Int
    BY <1>1
  <2>4. j = i + 1
    BY <2>2, <2>3
  <2> QED  BY <2>2, <2>4
<1>10. i < n /\ nested[p][i + 1] # c /\ ~(nested[p][i + 1] < c /\ p \notin data) => S(i) = S(i + 1)
  BY <1>1
<1> HIDE DEF S
<1>11. S(i) = S(i + 1) => (Finds(t) <=> Finds(u)) /\ \A j : FindsAt(t, j) <=> FindsAt(u, j)
  <2> DEFINE A == S(i)
             B == S(i + 1)
  <2> HIDE DEF A, B
  <2> SUFFICES ASSUME A = B  PROVE (Finds(t) <=> Finds(u)) /\ \A j : FindsAt(t, j) <=> FindsAt(u, j)
    BY Zenon DEF A, B
  <2>1. /\ \A j : FindsAt(t, j) <=> (j \in A /\ (\A k \in A : j <= k) /\ nested[p][j] = c)
        /\ \A j : FindsAt(u, j) <=> (j \in A /\ (\A k \in A : j <= k) /\ nested[p][j] = c)
        /\ Finds(t) <=> \E j \in A : FindsAt(t, j)
        /\ Finds(u) <=> \E j \in A : FindsAt(u, j)
    BY <1>6, Zenon DEF A, B
  <2>2. \A j : FindsAt(t, j) <=> FindsAt(u, j)
    BY <2>1, Zenon
  <2> QED  BY <2>1, <2>2, Zenon
<1> QED  BY <1>7, <1>8, <1>9, <1>10, <1>11, Zenon DEF t, u

(* A level with its next child passed stands where it is to. *)
LEMMA StandsPassed ==
  ASSUME Grown, image \in Bytes, NEW p \in nodes, NEW o \in Nat, NEW lv, Stands(lv, p, o), lv.ccount # 0
  PROVE  LET c == ChildAt(image, lv.dic)
             to == Dict!Passed(lv, c)
             i == Len(nested[p]) - lv.ccount
         IN /\ i \in Nat /\ i < Len(nested[p]) /\ i + 1 \in 1 .. Len(nested[p])
            /\ Len(nested[p]) - to.ccount = i + 1
            /\ Stands(to, p, o) /\ to.ccount = lv.ccount - 1
            /\ to.str = lv.str /\ to.cch = lv.cch /\ to.chfind = lv.chfind /\ to.upper = lv.upper
            /\ c.char = nested[p][i + 1] /\ c.sub = KidHome(p, o, i + 1) /\ c.next = o + BufLens[<<p, i + 1>>]
            /\ c.char \in 0 .. 255 /\ lv.chfind \in 0 .. 255
<1> DEFINE n == Len(nested[p])
           c == ChildAt(image, lv.dic)
           to == Dict!Passed(lv, c)
           i == n - lv.ccount
           j == i + 1
<1>1. n \in Nat
  BY FewChildren, Zenon
<1>2. lv \in Dict!ScanStack /\ lv.ccount <= n /\ AtHome(p, o) /\ lv.dic = o + BufLens[<<p, i>>]
  BY Zenon DEF Stands
<1>3. /\ lv.ccount \in Nat /\ c.char \in 0 .. 255 /\ lv.chfind \in 0 .. 255
      /\ to \in Dict!ScanStack
      /\ to.str = lv.str /\ to.cch = lv.cch /\ to.chfind = lv.chfind /\ to.upper = lv.upper
      /\ to.dic = c.next /\ to.ccount = lv.ccount - 1
  BY <1>2, PassedIs, Zenon
<1> HIDE DEF to, c, n
<1>4. i \in Nat /\ i < n /\ j \in 1 .. n /\ j - 1 = i /\ n - to.ccount = j /\ to.ccount <= n
  BY <1>1, <1>2, <1>3
<1> HIDE DEF i, j
<1>5. lv.dic = o + BufLens[<<p, j - 1>>] /\ c = ChildAt(image, o + BufLens[<<p, j - 1>>])
  BY <1>2, <1>4, Zenon DEF c
<1>6. c.char = nested[p][j] /\ c.sub = KidHome(p, o, j) /\ c.next = o + BufLens[<<p, j>>]
  BY <1>2, <1>4, <1>5, KidAtHome, Zenon DEF n
<1>7. to.dic = o + BufLens[<<p, n - to.ccount>>]
  BY <1>3, <1>4, <1>6, Zenon
<1>8. to.upper <=> p \in data
  BY <1>3, Zenon DEF Stands
<1>9. Stands(to, p, o)
  BY <1>2, <1>3, <1>4, <1>7, <1>8, Zenon DEF Stands, n
<1> QED  BY <1>3, <1>4, <1>6, <1>9, Zenon DEF to, c, n, i, j


(* What findchar finds is what TreeScan finds, and the level it leaves stands  *)
(* where that one's does.                                                      *)
FindsAlike(lv, p, o) ==
  LET f == Dict!FindChar(lv)
      t == NodeLevel(lv, p)
      j == Len(nested[p]) - f.lv.ccount
  IN /\ f.lv.str = lv.str /\ f.lv.cch = lv.cch /\ f.lv.chfind = lv.chfind /\ f.lv.upper = lv.upper
     /\ f.found <=> Finds(t)
     /\ f.found => Stands(f.lv, p, o) /\ j \in 1 .. Len(nested[p]) /\ FindsAt(t, j) /\ f.sub = KidHome(p, o, j)
     /\ ~f.found /\ p \in data => f.lv.dic = o + BufLens[All(p)]

LEMMA FindsAlikeStep ==
  ASSUME Grown, image \in Bytes, NEW p \in nodes, NEW o \in Nat, NEW lv, Stands(lv, p, o),
         lv.ccount # 0 => FindsAlike(Dict!Passed(lv, ChildAt(image, lv.dic)), p, o)
  PROVE  FindsAlike(lv, p, o)
<1> DEFINE n == Len(nested[p])
           c == ChildAt(image, lv.dic)
           to == Dict!Passed(lv, c)
           i == n - lv.ccount
           f == Dict!FindChar(lv)
           g == Dict!FindChar(to)
           t == NodeLevel(lv, p)
           u == NodeLevel(to, p)
           ch == lv.chfind
<1>1. n \in Nat
  BY FewChildren, Zenon
<1>2. /\ lv \in Dict!ScanStack /\ lv.ccount <= n /\ lv.dic = o + BufLens[<<p, i>>] /\ (lv.upper <=> p \in data)
  BY Zenon DEF Stands
<1>3. lv.ccount \in Nat
  BY <1>2, PassedIs, Zenon
<1>4. f = FindStep(lv, g)
  BY <1>2, FindCharIs, Zenon
<1>5. t = LevelAt(p, ch, i)
  BY DEF NodeLevel
<1>6. CASE lv.ccount = 0
  <2>1. f = [found |-> FALSE, lv |-> lv]
    <3>1. lv.ccount <= 0
      BY <1>6
    <3> QED  BY <1>4, <3>1, Zenon DEF FindStep
  <2>2. f.found = FALSE /\ f.lv = lv
    BY <2>1
  <2> HIDE DEF f, t
  <2>3. i = n /\ i \in Nat
    BY <1>1, <1>6
  <2> HIDE DEF i
  <2>4. ~Finds(t)
    BY <1>5, <2>3, StopsNext, Zenon DEF n
  <2>5. All(p) = <<p, i>>
    BY <2>3, Zenon DEF All, n
  <2> QED  BY <1>2, <2>2, <2>4, <2>5, Zenon DEF FindsAlike, f, t
<1>7. CASE lv.ccount # 0
  <2>1. /\ i \in Nat /\ i < n /\ i + 1 \in 1 .. n
        /\ n - to.ccount = i + 1
        /\ Stands(to, p, o) /\ to.ccount = lv.ccount - 1
        /\ to.str = lv.str /\ to.cch = lv.cch /\ to.chfind = ch /\ to.upper = lv.upper
        /\ c.char = nested[p][i + 1] /\ c.sub = KidHome(p, o, i + 1) /\ c.next = o + BufLens[<<p, i + 1>>]
        /\ c.char \in 0 .. 255 /\ ch \in 0 .. 255
    BY <1>7, StandsPassed, Zenon
  <2>2. u = LevelAt(p, ch, i + 1)
    BY <2>1, Zenon DEF NodeLevel
  <2>3. FindsAlike(to, p, o)
    BY <1>7, Zenon
  <2>4. f = IF ch = c.char THEN Dict!WentDown(lv, c)
            ELSE IF ch > c.char /\ ~lv.upper THEN [found |-> FALSE, lv |-> to]
            ELSE g
    <3>1. ~(lv.ccount <= 0)
      BY <1>3, <1>7
    <3> QED  BY <1>4, <3>1, Zenon DEF FindStep, Dict!TooFar
  <2>5. Dict!WentDown(lv, c) = [found |-> TRUE, sub |-> c.sub, lv |-> to]
    BY DEF Dict!WentDown
  <2> HIDE DEF i, c, to, ch, t, u, f, g, n
  <2>6. /\ nested[p][i + 1] = ch => FindsAt(t, i + 1) /\ Finds(t)
        /\ nested[p][i + 1] # ch /\ nested[p][i + 1] < ch /\ p \notin data => ~Finds(t)
        /\ nested[p][i + 1] # ch /\ ~(nested[p][i + 1] < ch /\ p \notin data) =>
              (Finds(t) <=> Finds(u)) /\ \A j : FindsAt(t, j) <=> FindsAt(u, j)
    <3> DEFINE m == Len(nested[p])
    <3>1. /\ i < m /\ nested[p][i + 1] = ch => FindsAt(t, i + 1) /\ Finds(t)
          /\ i < m /\ nested[p][i + 1] # ch /\ nested[p][i + 1] < ch /\ p \notin data => ~Finds(t)
          /\ i < m /\ nested[p][i + 1] # ch /\ ~(nested[p][i + 1] < ch /\ p \notin data) =>
               (Finds(t) <=> Finds(u)) /\ \A j : FindsAt(t, j) <=> FindsAt(u, j)
      BY <1>5, <2>1, <2>2, StopsNext, Zenon
    <3>2. i < m
      BY <2>1, Zenon DEF n
    <3> HIDE DEF m
    <3> QED  BY <3>1, <3>2, Zenon
  <2>7. CASE ch = c.char
    <3>1. f.found = TRUE /\ f.sub = c.sub /\ f.lv = to
      BY <2>4, <2>5, <2>7
    <3>2. Finds(t) /\ FindsAt(t, i + 1)
      BY <2>1, <2>6, <2>7, Zenon
    <3> QED  BY <2>1, <3>1, <3>2, Zenon DEF FindsAlike, f, t, n, ch
  <2>8. CASE ch # c.char /\ ch > c.char /\ ~lv.upper
    <3>1. f.found = FALSE /\ f.lv = to
      BY <2>4, <2>8
    <3>2. c.char < ch
      BY <2>1, <2>8
    <3>3. ~Finds(t) /\ p \notin data
      BY <1>2, <2>1, <2>6, <2>8, <3>2, Zenon
    <3> QED  BY <2>1, <3>1, <3>3, Zenon DEF FindsAlike, f, t, ch
  <2>9. CASE ch # c.char /\ ~(ch > c.char /\ ~lv.upper)
    <3>1. f = g
      BY <2>4, <2>9, Zenon
    <3>2. ch > c.char <=> c.char < ch
      BY <2>1
    <3>3. (Finds(t) <=> Finds(u)) /\ \A j : FindsAt(t, j) <=> FindsAt(u, j)
      BY <1>2, <2>1, <2>6, <2>9, <3>2, Zenon
    <3> DEFINE jj == n - g.lv.ccount
    <3> HIDE DEF jj
    <3>4. /\ g.lv.str = to.str /\ g.lv.cch = to.cch /\ g.lv.chfind = to.chfind /\ g.lv.upper = to.upper
          /\ g.found <=> Finds(u)
          /\ g.found => Stands(g.lv, p, o) /\ jj \in 1 .. n /\ FindsAt(u, jj) /\ g.sub = KidHome(p, o, jj)
          /\ ~g.found /\ p \in data => g.lv.dic = o + BufLens[All(p)]
      BY <2>3, Zenon DEF FindsAlike, g, u, n, jj
    <3>5. /\ g.lv.str = lv.str /\ g.lv.cch = lv.cch /\ g.lv.chfind = lv.chfind /\ g.lv.upper = lv.upper
      BY <2>1, <3>4, Zenon DEF ch
    <3> QED  BY <3>1, <3>3, <3>4, <3>5, Zenon DEF FindsAlike, f, t, n, jj
  <2> QED  BY <2>7, <2>8, <2>9, Zenon
<1> QED  BY <1>6, <1>7

LEMMA FindsAlways ==
  ASSUME Grown, image \in Bytes, NEW p \in nodes, NEW o \in Nat, NEW lv, Stands(lv, p, o)
  PROVE  FindsAlike(lv, p, o)
<1> DEFINE S == {x \in Dict!ScanStack : Stands(x, p, o)}
           size == [x \in S |-> x.ccount]
           P == {x \in S : FindsAlike(x, p, o)}
           to(x) == Dict!Passed(x, ChildAt(image, x.dic))
<1>1. \A x \in S : Stands(x, p, o) /\ x.ccount \in Nat
  <2>1. \A x \in Dict!ScanStack : x.ccount \in Nat
    BY PassedIs, Zenon
  <2> QED  BY <2>1
<1>2. \A x : Stands(x, p, o) => x \in S
  BY DEF Stands
<1>3. size \in [S -> Nat] /\ \A x \in S : size[x] = x.ccount
  <2> HIDE DEF S
  <2> QED  BY <1>1
<1>4. ASSUME NEW x \in S, \A y \in S : size[y] < size[x] => y \in P  PROVE x \in P
  <2> SUFFICES FindsAlike(x, p, o)
    OBVIOUS
  <2>1. Stands(x, p, o)
    BY <1>1
  <2>2. ASSUME x.ccount # 0  PROVE FindsAlike(to(x), p, o)
    <3>1. Stands(to(x), p, o) /\ to(x).ccount = x.ccount - 1
      BY <2>1, <2>2, StandsPassed, Zenon
    <3>2. to(x) \in S
      BY <1>2, <3>1, Zenon
    <3> HIDE DEF to, size
    <3>3. size[to(x)] < size[x]
      BY <1>1, <1>3, <3>1, <3>2
    <3> QED  BY <1>4, <3>2, <3>3
  <2> QED  BY <2>1, <2>2, FindsAlikeStep, Zenon
<1>5. S \subseteq P
  <2> HIDE DEF S, P, size
  <2> QED  BY <1>3, <1>4, SizeInduction, Zenon
<1>6. lv \in S
  BY <1>2
<1> QED  BY <1>5, <1>6


-------------------------------------------------------------------------------
(* The characters found above a level, and a stack as TreeScan has it. *)
PathOf(s, k) == [j \in 1 .. k - 1 |-> s[j].chfind]

LevelsOf(s) == [k \in 1 .. Len(s) |-> NodeLevel(s[k], PathOf(s, k))]

(* A level of the stack stands at the node that the characters found above it  *)
(* lead to, and has as much of the word before it.                             *)
Fits(w, s, k) ==
  /\ PathOf(s, k) \in nodes
  /\ s[k].str = k - 1 /\ s[k].cch = Remaining(w, PathOf(s, k))
  /\ \E o \in Nat : Stands(s[k], PathOf(s, k), o)

(* The inductive invariant of the scan over the bytes. *)
BytesInv ==
  /\ Grown
  /\ pc \in {"build", "saved", "scan"} /\ word \in Seq(0 .. 255) /\ Len(word) < SizeMod
  /\ levels \in Seq(Dict!ScanStack)
  /\ pc # "build" => ~busy /\ image = Image(<<>>) /\ stemAt = Stems
  /\ pc # "scan" => levels = <<>>
  /\ \A k \in 1 .. Len(levels) : Fits(word, levels, k)

(* The levels are those, before a step of the scan and after it. *)
LEMMA LevelsAre ==
  /\ Dict!Levels = LevelsOf(levels)
  /\ UNCHANGED treeVars => Dict!Levels' = LevelsOf(levels')
<1>1. Dict!Levels = LevelsOf(levels)
  BY DEF Dict!Levels, LevelsOf, NodeLevel, LevelAt, PathOf
<1>2. UNCHANGED treeVars => Dict!Levels' = LevelsOf(levels')
  BY DEF Dict!Levels, LevelsOf, NodeLevel, LevelAt, PathOf, treeVars
<1> QED  BY <1>1, <1>2

(* TreeScan, as the scan over the bytes has it, is TreeScan. *)
LEMMA SameStops ==
  /\ \A t, j : Dict!Tree!FindsAt(t, j) <=> FindsAt(t, j)
  /\ \A t : (Dict!Tree!Finds(t) <=> Finds(t)) /\ Dict!Tree!Stops(t) = Stops(t)
  /\ \A w, p : Dict!Tree!Remaining(w, p) = Remaining(w, p)
  /\ \A w, p : Dict!Tree!SetLevel(w, p) = SetLevel(w, p)
<1>1. \A t : Dict!Tree!Stops(t) = Stops(t)
  BY Zenon DEF Dict!Tree!Stops, Stops
<1>2. \A t, j : Dict!Tree!FindsAt(t, j) <=> FindsAt(t, j)
  BY <1>1, Zenon DEF Dict!Tree!FindsAt, FindsAt, Dict!Tree!StopsAt, StopsAt
<1>3. \A t : Dict!Tree!Finds(t) <=> Finds(t)
  BY <1>1, <1>2, Zenon DEF Dict!Tree!Finds, Finds
<1>4. \A w, p : Dict!Tree!Remaining(w, p) = Remaining(w, p)
  BY Zenon DEF Dict!Tree!Remaining, Remaining
<1>5. \A w, p : Dict!Tree!SetLevel(w, p) = SetLevel(w, p)
  BY <1>4, SameCalls, Zenon DEF Dict!Tree!SetLevel, SetLevel
<1> QED  BY <1>1, <1>2, <1>3, <1>4, <1>5

(* The levels of a stack that fits, with the tree and the image unchanged, fit. *)
LEMMA StillFits ==
  ASSUME UNCHANGED <<treeVars, index, image>>, \A k \in 1 .. Len(levels') : Fits(word', levels', k)
  PROVE  (\A k \in 1 .. Len(levels) : Fits(word, levels, k))'
<1>1. /\ UNCHANGED <<treeVars, index>> /\ image' = image /\ nodes' = nodes /\ nested' = nested /\ data' = data
  BY DEF treeVars
<1>2. /\ BufLens' = BufLens /\ Images' = Images /\ Enumerated' = Enumerated
      /\ \A p : All(p)' = All(p) /\ ElementLen(p)' = ElementLen(p)
  BY <1>1, ImagesStay
<1>3. \A p, o : Enumerate(p, o)' = Enumerate(p, o)
  BY <1>1, <1>2 DEF Enumerate, Acted
<1>4. \A p, o : AtHome(p, o)' <=> AtHome(p, o)
  BY <1>1, <1>2, <1>3 DEF AtHome, Holds
<1>5. \A lv, p, o : Stands(lv, p, o)' <=> Stands(lv, p, o)
  BY <1>1, <1>2, <1>4 DEF Stands
<1>6. (\A k \in 1 .. Len(levels) : Fits(word, levels, k))' <=> \A k \in 1 .. Len(levels') : Fits(word', levels', k)
  BY <1>1, <1>5 DEF Fits, PathOf, Remaining
<1> QED  BY <1>6


(* setlevel at a node that is at home: a level that stands there, and the one  *)
(* TreeScan has.                                                               *)
LEMMA NewLevel ==
  ASSUME Grown, image \in Bytes, NEW p \in nodes, NEW o \in Nat, AtHome(p, o),
         CountAt(image, o).upper <=> p \in data, CountAt(image, o).lower = Len(nested[p]),
         CountAt(image, o).next = o + BufLens[<<p, 0>>],
         NEW w \in Seq(0 .. 255), Len(w) < SizeMod,
         NEW lv \in Dict!SetLevel(w, o, Len(p), Remaining(w, p))
  PROVE  /\ lv.str = Len(p) /\ lv.cch = Remaining(w, p)
         /\ Stands(lv, p, o) /\ NodeLevel(lv, p) \in SetLevel(w, p)
<1> DEFINE node == CountAt(image, o)
           r == Remaining(w, p)
           n == Len(nested[p])
<1>1. PICK c \in Sought(w, Len(p), r) :
        lv = [str |-> Len(p), cch |-> r, chfind |-> c, dic |-> node.next, upper |-> node.upper, ccount |-> node.lower]
  <2>1. Dict!CountAt(image, o) = node
    BY SameReaders, Zenon
  <2>2. Dict!Sought(w, Len(p), r) = Sought(w, Len(p), r)
    BY SameCalls, Zenon
  <2> HIDE DEF node, r
  <2> QED  BY <2>1, <2>2 DEF Dict!SetLevel, r
<1>2. node.upper \in BOOLEAN
  BY DEF CountAt
<1>3. Len(p) \in Nat /\ Len(p) < SizeMod /\ p \in Seq(Chars)
  BY NodesAreShort DEF Grown
<1>4. r \in Nat
  <2>1. Len(w) - Len(p) \in Int /\ SizeMod \in Nat \ {0}
    BY <1>3, WordsAssumption
  <2> QED  BY <2>1 DEF Remaining
<1>5. c \in 0 .. 255
  <2>1. Sought(w, Len(p), r) \subseteq 0 .. 255
    BY <1>3, SoughtHere
  <2> QED  BY <2>1
<1>6. n \in Nat /\ n <= 256 /\ n \in Counts /\ 0 \in 0 .. n
  <2>1. n \in Nat /\ n <= 256
    BY FewChildren, Zenon
  <2> HIDE DEF n
  <2> QED  BY <2>1 DEF Counts
<1>7. o + BufLens[<<p, 0>>] \in Nat
  BY <1>6, CursorIs, Zenon
<1> HIDE DEF r, node
<1>8. /\ lv.str = Len(p) /\ lv.cch = r /\ lv.chfind = c /\ lv.dic = node.next /\ lv.upper = node.upper
      /\ lv.ccount = n
  <2>1. node.lower = n
    BY DEF node
  <2> QED  BY <1>1, <2>1
<1>9. lv \in Dict!ScanStack
  <2>1. Dict!Counts = Counts
    BY DEF Dict!Counts, Counts
  <2>2. node.next \in Nat /\ node.lower \in Counts
    BY <1>6, <1>7 DEF node
  <2> HIDE DEF n
  <2> QED  BY <1>1, <1>2, <1>3, <1>4, <1>5, <2>1, <2>2 DEF Dict!ScanStack
<1> DEFINE l == lv.ccount
<1>10. l <= n /\ n - l = 0
  BY <1>6, <1>8
<1>11. lv.dic = o + BufLens[<<p, n - l>>]
  BY <1>8, <1>10, Zenon DEF node
<1>12. Stands(lv, p, o)
  <2>1. lv.upper <=> p \in data
    BY <1>8, Zenon DEF node
  <2> HIDE DEF n, l
  <2> QED  BY <1>9, <1>10, <1>11, <2>1, Zenon DEF Stands, n, l
<1>13. NodeLevel(lv, p) = [path |-> p, chfind |-> c, passed |-> 0]
  <2> HIDE DEF n, l
  <2>1. NodeLevel(lv, p) = [path |-> p, chfind |-> lv.chfind, passed |-> n - l]
    BY Zenon DEF NodeLevel, LevelAt, n, l
  <2> QED  BY <1>8, <1>10, <2>1, Zenon
<1>14. NodeLevel(lv, p) \in SetLevel(w, p)
  BY <1>13 DEF SetLevel, r
<1> QED  BY <1>8, <1>12, <1>14, Zenon DEF r

(* The level on top, and what is found from there. *)
LEMMA TopFound ==
  ASSUME BytesInv, pc = "scan", levels # <<>>
  PROVE  LET n == Len(levels)
             lv == levels[n]
             p == PathOf(levels, n)
         IN /\ n \in Nat /\ n # 0 /\ lv \in Dict!ScanStack
            /\ p \in nodes /\ Len(p) = n - 1 /\ p \in Seq(Chars)
            /\ lv.str = n - 1 /\ lv.cch = Remaining(word, p)
            /\ Dict!Found = Dict!FindChar(lv)
            /\ Len(Dict!Levels) = n /\ Dict!Tree!Top = NodeLevel(lv, p) /\ Dict!Levels # <<>>
            /\ image \in Bytes
            /\ \E o \in Nat : Stands(lv, p, o) /\ FindsAlike(lv, p, o)
<1> DEFINE n == Len(levels)
           lv == levels[n]
           p == PathOf(levels, n)
<1>1. n \in Nat /\ n # 0 /\ n \in 1 .. n /\ lv \in Dict!ScanStack
  BY DEF BytesInv
<1>2. Grown /\ Fits(word, levels, n) /\ image = Image(<<>>)
  BY <1>1 DEF BytesInv
<1>3. image \in Bytes
  BY <1>2, RootAtHome, Zenon
<1>4. p \in nodes /\ lv.str = n - 1 /\ lv.cch = Remaining(word, p)
  BY <1>2, Zenon DEF Fits
<1>5. PICK o \in Nat : Stands(lv, p, o)
  BY <1>2, Zenon DEF Fits
<1>6. FindsAlike(lv, p, o)
  BY <1>2, <1>3, <1>4, <1>5, FindsAlways, Zenon
<1>7. p \in Seq(Chars)
  BY <1>2, <1>4, NodesAreShort DEF Grown
<1>8. Len(p) = n - 1
  BY <1>1, <1>7 DEF PathOf
<1>9. Dict!Found = Dict!FindChar(lv)
  <2>1. Dict!Last(levels) = lv
    BY DEF Dict!Last
  <2> QED  BY <2>1, Zenon DEF Dict!Found
<1>10. Len(Dict!Levels) = n /\ Dict!Levels[n] = NodeLevel(lv, p) /\ Dict!Levels # <<>>
  <2>1. Dict!Levels = LevelsOf(levels)
    BY LevelsAre
  <2>2. Dict!Levels = [k \in 1 .. n |-> NodeLevel(levels[k], PathOf(levels, k))]
    BY <2>1, Zenon DEF LevelsOf
  <2> HIDE DEF n
  <2> QED  BY <1>1, <2>2 DEF n
<1>11. Dict!Tree!Top = NodeLevel(lv, p)
  BY <1>10, Zenon DEF Dict!Tree!Top
<1> QED  BY <1>1, <1>3, <1>4, <1>5, <1>6, <1>7, <1>8, <1>9, <1>10, <1>11, Zenon


(* A stack that fits, as TreeScan has it. *)
TreeLevels == [path : nodes, chfind : 0 .. 255, passed : Nat]

LEMMA LevelsSeq ==
  ASSUME Grown, image \in Bytes, NEW w, NEW s \in Seq(Dict!ScanStack), \A k \in 1 .. Len(s) : Fits(w, s, k)
  PROVE  /\ LevelsOf(s) \in Seq(TreeLevels) /\ Len(LevelsOf(s)) = Len(s)
         /\ \A k \in 1 .. Len(s) : LevelsOf(s)[k] = NodeLevel(s[k], PathOf(s, k))
<1> DEFINE n == Len(s)
           t(k) == NodeLevel(s[k], PathOf(s, k))
<1>1. n \in Nat
  OBVIOUS
<1>2. ASSUME NEW k \in 1 .. n  PROVE t(k) \in TreeLevels
  <2> DEFINE p == PathOf(s, k)
             m == Len(nested[p])
             l == s[k].ccount
  <2>1. p \in nodes /\ s[k] \in Dict!ScanStack /\ l <= m
    <3>1. Fits(w, s, k)
      OBVIOUS
    <3> QED  BY <3>1, Zenon DEF Fits, Stands
  <2>2. l \in Nat /\ s[k].chfind \in 0 .. 255
    BY <2>1, PassedIs, Zenon
  <2>3. m \in Nat
    BY <2>1, FewChildren, Zenon
  <2> HIDE DEF l, m, p
  <2>4. m - l \in Nat
    BY <2>1, <2>2, <2>3
  <2>5. t(k) = [path |-> p, chfind |-> s[k].chfind, passed |-> m - l]
    BY Zenon DEF NodeLevel, LevelAt, p, m, l
  <2> HIDE DEF t
  <2> QED  BY <2>1, <2>2, <2>4, <2>5 DEF TreeLevels
<1>3. LevelsOf(s) = [k \in 1 .. n |-> t(k)]
  BY Zenon DEF LevelsOf
<1> HIDE DEF t, n
<1>4. LevelsOf(s) \in Seq(TreeLevels) /\ Len(LevelsOf(s)) = n /\ \A k \in 1 .. n : LevelsOf(s)[k] = t(k)
  BY <1>1, <1>2, <1>3
<1> QED  BY <1>4, Zenon DEF n, t

(* A path is of the levels below, and one longer a level higher. *)
LEMMA PathsGrow ==
  ASSUME NEW s, NEW t, NEW k \in Nat, \A j \in 1 .. k - 1 : s[j].chfind = t[j].chfind
  PROVE  PathOf(s, k) = PathOf(t, k)
BY DEF PathOf

LEMMA PathGrows ==
  ASSUME NEW s, NEW n \in Nat, n # 0, \A j \in 1 .. n : s[j].chfind \in 0 .. 255
  PROVE  PathOf(s, n + 1) = Append(PathOf(s, n), s[n].chfind)
<1> DEFINE a == PathOf(s, n)
           b == PathOf(s, n + 1)
           c == s[n].chfind
           d == Append(a, c)
<1>1. a = [j \in 1 .. n - 1 |-> s[j].chfind] /\ b = [j \in 1 .. n |-> s[j].chfind]
  BY DEF PathOf
<1>2. c \in 0 .. 255
  OBVIOUS
<1> HIDE DEF a, b
<1>3. /\ a \in Seq(0 .. 255) /\ b \in Seq(0 .. 255) /\ Len(a) = n - 1 /\ Len(b) = n
      /\ \A j \in 1 .. n - 1 : a[j] = s[j].chfind
      /\ \A j \in 1 .. n : b[j] = s[j].chfind
  <2> DEFINE f(j) == s[j].chfind
  <2>1. a = [j \in 1 .. n - 1 |-> f(j)] /\ b = [j \in 1 .. n |-> f(j)] /\ \A j \in 1 .. n : f(j) \in 0 .. 255
    BY <1>1
  <2> HIDE DEF f
  <2>2. n - 1 \in Nat /\ \A j \in 1 .. n - 1 : j \in 1 .. n
    OBVIOUS
  <2>3. a \in Seq(0 .. 255) /\ Len(a) = n - 1 /\ \A j \in 1 .. n - 1 : a[j] = f(j)
    BY <2>1, <2>2
  <2>4. b \in Seq(0 .. 255) /\ Len(b) = n /\ \A j \in 1 .. n : b[j] = f(j)
    BY <2>1
  <2> QED  BY <2>3, <2>4 DEF f
<1>4. d \in Seq(0 .. 255) /\ Len(d) = n /\ d[n] = c /\ \A j \in 1 .. n - 1 : d[j] = a[j]
  <2> HIDE DEF c
  <2> QED  BY <1>2, <1>3
<1> HIDE DEF d
<1>5. \A j \in 1 .. n : b[j] = d[j]
  <2>1. \A j \in 1 .. n : j = n \/ j \in 1 .. n - 1
    OBVIOUS
  <2>2. b[n] = d[n]
    BY <1>3, <1>4
  <2> QED  BY <1>3, <1>4, <2>1, <2>2, Zenon
<1>6. b = d
  BY <1>3, <1>4, <1>5, SeqEqual
<1> QED  BY <1>6 DEF a, b, d

(* Part of a stack fits as it does in the whole. *)
LEMMA FitsBelow ==
  ASSUME NEW w, NEW s, NEW t, NEW k \in Nat, k # 0, s[k] = t[k], \A j \in 1 .. k - 1 : s[j] = t[j]
  PROVE  /\ PathOf(s, k) = PathOf(t, k) /\ NodeLevel(s[k], PathOf(s, k)) = NodeLevel(t[k], PathOf(t, k))
         /\ Fits(w, s, k) <=> Fits(w, t, k)
<1>1. PathOf(s, k) = PathOf(t, k)
  BY PathsGrow
<1> QED  BY <1>1, Zenon DEF Fits

(* What makes the invariant hold after a step that leaves the tree alone. *)
LEMMA BytesKept ==
  ASSUME Grown, UNCHANGED <<treeVars, index>>, pc' \in {"build", "saved", "scan"},
         word' \in Seq(0 .. 255), Len(word') < SizeMod, levels' \in Seq(Dict!ScanStack),
         pc' # "build" => ~busy /\ image' = Image(<<>>) /\ stemAt' = Stems,
         pc' # "scan" => levels' = <<>>,
         levels' # <<>> => image' = image /\ \A k \in 1 .. Len(levels') : Fits(word', levels', k)
  PROVE  BytesInv'
<1>1. /\ index' = index /\ busy' = busy /\ nodes' = nodes /\ nested' = nested /\ data' = data
  BY DEF treeVars
<1>2. Grown'
  <2>1. TreeInv' /\ Keyed'
    BY TreeStays DEF Grown
  <2> QED  BY <1>1, <2>1 DEF Grown
<1>3. (\A k \in 1 .. Len(levels) : Fits(word, levels, k))'
  <2>1. CASE levels' = <<>>
    BY <2>1
  <2>2. CASE levels' # <<>>
    BY <1>1, <2>2, StillFits
  <2> QED  BY <2>1, <2>2
<1>4. Image(<<>>)' = Image(<<>>) /\ Stems' = Stems
  <2>1. /\ Images' = Images /\ Enumerated' = Enumerated
        /\ \A p : All(p)' = All(p) /\ ElementLen(p)' = ElementLen(p) /\ ElementBytes(p)' = ElementBytes(p)
    BY ImagesStay
  <2>2. Image(<<>>)' = Image(<<>>)
    BY <1>1, <2>1 DEF Image
  <2>3. Enumerate(<<>>, 0)' = Enumerate(<<>>, 0)
    BY <1>1, <2>1 DEF Enumerate, Acted
  <2>4. Stems' = Stems
    <3>1. ToSet(Enumerate(<<>>, 0).calls)' = ToSet(Enumerate(<<>>, 0).calls)
      BY <2>3 DEF ToSet
    <3> QED  BY <3>1, Zenon DEF Stems
  <2> QED  BY <2>2, <2>4
<1>5. pc' # "build" => ~busy' /\ image' = Image(<<>>)' /\ stemAt' = Stems'
  BY <1>1, <1>4
<1> QED  BY <1>2, <1>3, <1>5 DEF BytesInv

(* A step of the scan keeps what the stack that it leaves does not say. *)
LEMMA ScanKeeps ==
  ASSUME BytesInv, UNCHANGED <<treeVars, index, image, stemAt>>, pc # "build", pc' \in {"saved", "scan"},
         word' \in Seq(0 .. 255), Len(word') < SizeMod, levels' \in Seq(Dict!ScanStack),
         pc' # "scan" => levels' = <<>>,
         \A k \in 1 .. Len(levels') : Fits(word', levels', k)
  PROVE  BytesInv'
<1>1. Grown /\ ~busy /\ image = Image(<<>>) /\ stemAt = Stems
  BY DEF BytesInv
<1> QED  BY <1>1, BytesKept


(* One character less before the level, below zero too. *)
LEMMA OneLess ==
  ASSUME NEW m \in Nat \ {0}, NEW a \in Int, 0 - m < a - 1, a < m
  PROVE  ((a % m) - 1) % m = (a - 1) % m
<1>1. /\ a >= 0 => a % m = a
      /\ a < 0 => a % m = a + m
  <2>1. 0 - m < a
    OBVIOUS
  <2> QED  BY <2>1, WithinATurn
<1>2. CASE a >= 0
  BY <1>1, <1>2
<1>3. CASE a < 0
  <2> DEFINE b == a - 1
             c == (a + m) - 1
  <2>1. b \in Int /\ 0 - m < b /\ b < m /\ b < 0 /\ c \in Int /\ c >= 0 /\ 0 - m < c /\ c < m /\ c = b + m
    BY <1>3
  <2> HIDE DEF b, c
  <2>2. b % m = b + m
    BY <2>1, WithinATurn
  <2>3. c % m = c
    BY <2>1, WithinATurn
  <2>4. (a % m) - 1 = c
    BY <1>1, <1>3 DEF c
  <2> QED  BY <2>1, <2>2, <2>3, <2>4 DEF b
<1> QED  BY <1>2, <1>3

(* A step down: the level on top has passed the child, and a level stands on   *)
(* it at the child.                                                            *)
LEMMA DownStack ==
  ASSUME BytesInv, Dict!GoDown
  PROVE  LET n == Len(levels)
             lv == levels[n]
             p == PathOf(levels, n)
             f == Dict!Found
             j == Len(nested[p]) - f.lv.ccount
             kid == Append(p, lv.chfind)
         IN /\ f.lv.chfind = lv.chfind /\ f.lv.str = lv.str /\ f.lv.cch = lv.cch /\ f.lv \in Dict!ScanStack
            /\ j \in 1 .. Len(nested[p]) /\ FindsAt(NodeLevel(lv, p), j)
            /\ kid \in nodes /\ Len(kid) = n
            /\ \E o \in Nat : Stands(f.lv, p, o)
            /\ \E new \in Dict!ScanStack :
                 /\ levels' = Append(Append(Dict!Front(levels), f.lv), new)
                 /\ new.str = n /\ new.cch = Remaining(word, kid)
                 /\ NodeLevel(new, kid) \in SetLevel(word, kid)
                 /\ \E o \in Nat : Stands(new, kid, o)
<1> DEFINE n == Len(levels)
           lv == levels[n]
           p == PathOf(levels, n)
           f == Dict!Found
           m == Len(nested[p])
           j == m - f.lv.ccount
           kid == Append(p, lv.chfind)
           t == NodeLevel(lv, p)
<1>1. /\ pc = "scan" /\ levels # <<>> /\ f.found
      /\ \E new \in Dict!SetLevel(word, f.sub, f.lv.str + 1, (f.lv.cch - 1) % SizeMod) :
           levels' = Append(Append(Dict!Front(levels), f.lv), new)
  BY Zenon DEF Dict!GoDown
<1>2. Grown /\ word \in Seq(0 .. 255) /\ Len(word) < SizeMod
  BY DEF BytesInv
<1>3. /\ n \in Nat /\ n # 0 /\ lv \in Dict!ScanStack /\ p \in nodes /\ Len(p) = n - 1 /\ p \in Seq(Chars)
      /\ lv.str = n - 1 /\ lv.cch = Remaining(word, p) /\ f = Dict!FindChar(lv) /\ image \in Bytes
      /\ \E o \in Nat : Stands(lv, p, o) /\ FindsAlike(lv, p, o)
  BY <1>1, TopFound, Zenon
<1>4. PICK o \in Nat : Stands(lv, p, o) /\ FindsAlike(lv, p, o)
  BY <1>3, Zenon
<1>5. /\ f.lv.str = lv.str /\ f.lv.cch = lv.cch /\ f.lv.chfind = lv.chfind
      /\ Stands(f.lv, p, o) /\ j \in 1 .. m /\ FindsAt(t, j) /\ f.sub = KidHome(p, o, j)
  <2> HIDE DEF f
  <2> QED  BY <1>1, <1>3, <1>4, Zenon DEF FindsAlike, f
<1>6. f.lv \in Dict!ScanStack /\ AtHome(p, o)
  BY <1>5, Zenon DEF Stands
<1>7. nested[p][j] = lv.chfind
  <2>1. t.path = p /\ t.chfind = lv.chfind
    BY DEF NodeLevel, LevelAt
  <2> HIDE DEF t, j, lv, p
  <2> QED  BY <1>5, <2>1, Zenon DEF FindsAt
<1>8. kid = Kid(p, j) /\ f.sub = KidHome(p, o, j)
  BY <1>5, <1>7, Zenon DEF Kid
<1> DEFINE h == KidHome(p, o, j)
<1>9. /\ kid \in nodes /\ h \in Nat /\ AtHome(kid, h)
      /\ CountAt(image, h).upper <=> kid \in data
      /\ CountAt(image, h).lower = Len(nested[kid]) /\ CountAt(image, h).next = h + BufLens[<<kid, 0>>]
  <2> DEFINE k2 == Kid(p, j)
  <2>1. /\ k2 \in nodes /\ h \in Nat /\ AtHome(k2, h)
        /\ CountAt(image, h).upper <=> k2 \in data
        /\ CountAt(image, h).lower = Len(nested[k2]) /\ CountAt(image, h).next = h + BufLens[<<k2, 0>>]
    <3> HIDE DEF j
    <3> QED  BY <1>2, <1>3, <1>4, <1>5, <1>6, KidAtHome, Zenon
  <2>2. kid = k2
    BY <1>8
  <2> HIDE DEF k2, kid, h
  <2> QED  BY <2>1, <2>2, Zenon
<1> HIDE DEF f, j, h
<1>10. Len(kid) = n
  <2>1. lv.chfind \in Chars
    <3>1. nested[p] \in Seq(Chars)
      BY <1>2, <1>3 DEF Grown, TreeInv, TreeTypeOK
    <3> HIDE DEF p, lv
    <3> QED  BY <1>5, <1>7, <3>1
  <2> HIDE DEF n, p
  <2>2. Len(kid) = Len(p) + 1
    BY <1>3, <2>1
  <2> QED  BY <1>3, <2>2
<1>11. f.lv.str + 1 = Len(kid)
  BY <1>3, <1>5, <1>10
<1>12. (f.lv.cch - 1) % SizeMod = Remaining(word, kid)
  <2> DEFINE a == Len(word) - Len(p)
  <2>1. Len(p) \in Nat /\ Len(p) < SizeMod /\ Len(kid) < SizeMod /\ SizeMod \in Nat \ {0} /\ Len(word) \in Nat
    <3> HIDE DEF kid, p
    <3> QED  BY <1>2, <1>3, <1>9, NodesAreShort, WordsAssumption DEF Grown
  <2>2. Len(kid) = Len(p) + 1
    <3> HIDE DEF kid, p, n
    <3> QED  BY <1>3, <1>10
  <2>3. lv.cch = a % SizeMod /\ Remaining(word, kid) = (Len(word) - Len(kid)) % SizeMod
    BY <1>3 DEF Remaining
  <2> DEFINE x == Len(word)
             y == Len(p)
             z == Len(kid)
  <2> HIDE DEF x, y, z
  <2>4. a \in Int /\ 0 - SizeMod < a - 1 /\ a < SizeMod /\ x - z = a - 1
    <3>1. a = x - y /\ x \in Nat /\ y \in Nat /\ z = y + 1 /\ z < SizeMod /\ x < SizeMod /\ SizeMod \in Nat
      BY <1>2, <2>1, <2>2 DEF x, y, z
    <3> HIDE DEF a
    <3> QED  BY <3>1
  <2> HIDE DEF a
  <2>5. ((a % SizeMod) - 1) % SizeMod = (a - 1) % SizeMod
    BY <2>1, <2>4, OneLess
  <2> QED  BY <1>5, <2>3, <2>4, <2>5, Zenon DEF x, z
<1>13. PICK new \in Dict!SetLevel(word, h, Len(kid), Remaining(word, kid)) :
         levels' = Append(Append(Dict!Front(levels), f.lv), new)
  <2>1. f.sub = h
    BY <1>5, Zenon DEF h
  <2> HIDE DEF kid
  <2> QED  BY <1>1, <1>11, <1>12, <2>1, Zenon
<1>14. /\ new.str = Len(kid) /\ new.cch = Remaining(word, kid)
       /\ Stands(new, kid, h) /\ NodeLevel(new, kid) \in SetLevel(word, kid)
  <2> HIDE DEF kid
  <2> QED  BY <1>2, <1>3, <1>9, <1>13, NewLevel, Zenon
<1>15. new \in Dict!ScanStack
  BY <1>14, Zenon DEF Stands
<1> HIDE DEF kid, n, p, lv, m
<1>16. \E x \in Dict!ScanStack :
         /\ levels' = Append(Append(Dict!Front(levels), f.lv), x)
         /\ x.str = n /\ x.cch = Remaining(word, kid)
         /\ NodeLevel(x, kid) \in SetLevel(word, kid)
         /\ \E y \in Nat : Stands(x, kid, y)
  BY <1>9, <1>10, <1>13, <1>14, <1>15, Zenon
<1> QED  BY <1>5, <1>6, <1>9, <1>10, <1>16, Zenon DEF n, lv, p, f, m, j, kid, t


(* What the stack is then. *)
TwoOn(s, x, y) == Append(Append(SubSeq(s, 1, Len(s) - 1), x), y)

LEMMA TwoOnTop ==
  ASSUME NEW S, NEW s \in Seq(S), Len(s) # 0, NEW x \in S, NEW y \in S
  PROVE  /\ TwoOn(s, x, y) \in Seq(S) /\ Len(TwoOn(s, x, y)) = Len(s) + 1
         /\ TwoOn(s, x, y)[Len(s)] = x /\ TwoOn(s, x, y)[Len(s) + 1] = y
         /\ \A k \in 1 .. Len(s) - 1 : TwoOn(s, x, y)[k] = s[k]
<1> DEFINE n == Len(s)
           a == SubSeq(s, 1, n - 1)
           b == Append(a, x)
           u == Append(b, y)
<1>0. TwoOn(s, x, y) = u
  BY DEF TwoOn
<1>1. n \in Nat /\ n - 1 \in Nat /\ (n - 1) + 1 = n
  OBVIOUS
<1>2. a \in Seq(S) /\ Len(a) = n - 1 /\ \A k \in 1 .. n - 1 : a[k] = s[k]
  BY <1>1
<1> HIDE DEF a
<1>3. b \in Seq(S) /\ Len(b) = n /\ b[n] = x /\ \A k \in 1 .. n - 1 : b[k] = a[k]
  <2> HIDE DEF n
  <2> QED  BY <1>1, <1>2
<1> HIDE DEF b
<1>4. u \in Seq(S) /\ Len(u) = n + 1 /\ u[n + 1] = y /\ \A k \in 1 .. n : u[k] = b[k]
  <2> HIDE DEF n
  <2> QED  BY <1>1, <1>3
<1> HIDE DEF n, u
<1>5. u[n] = x /\ \A k \in 1 .. n - 1 : u[k] = s[k]
  <2>1. n \in 1 .. n /\ \A k \in 1 .. n - 1 : k \in 1 .. n
    BY <1>1, <1>3
  <2> QED  BY <1>2, <1>3, <1>4, <2>1, Zenon
<1> QED  BY <1>0, <1>4, <1>5, Zenon DEF n

LEMMA FrontIs ==
  ASSUME NEW S, NEW s \in Seq(S), Len(s) # 0
  PROVE  LET t == SubSeq(s, 1, Len(s) - 1)
         IN t \in Seq(S) /\ Len(t) = Len(s) - 1 /\ Len(t) \in Nat /\ \A k \in 1 .. Len(s) - 1 : t[k] = s[k]
<1> DEFINE n == Len(s)
           t == SubSeq(s, 1, n - 1)
<1>1. n \in Nat /\ n - 1 \in Nat /\ (n - 1) + 1 = n
  OBVIOUS
<1>2. t \in Seq(S) /\ Len(t) = n - 1 /\ \A k \in 1 .. n - 1 : t[k] = s[k]
  BY <1>1
<1> HIDE DEF n, t
<1>3. Len(t) \in Nat
  BY <1>1, <1>2
<1> QED  BY <1>2, <1>3, Zenon DEF n, t

LEMMA GoesDown ==
  ASSUME BytesInv, Dict!GoDown
  PROVE  BytesInv' /\ Dict!Tree!GoDown
<1> DEFINE n == Len(levels)
           lv == levels[n]
           p == PathOf(levels, n)
           x == Dict!Found.lv
           m == Len(nested[p])
           j == m - x.ccount
           kid == Append(p, lv.chfind)
           s == levels'
           L == LevelsOf(levels)
           M == LevelsOf(s)
           t == NodeLevel(lv, p)
<1>1. /\ pc = "scan" /\ levels # <<>> /\ pc' = pc
      /\ UNCHANGED <<treeVars, index, image, stemAt>> /\ UNCHANGED <<treeVars, index, pc, word, asked, left, answer>>
      /\ word' = word
  BY Zenon DEF Dict!GoDown, Dict!treeVars, treeVars
<1>2. /\ Grown /\ word \in Seq(0 .. 255) /\ Len(word) < SizeMod /\ levels \in Seq(Dict!ScanStack)
      /\ \A k \in 1 .. Len(levels) : Fits(word, levels, k)
  BY DEF BytesInv
<1>3. /\ n \in Nat /\ n # 0 /\ lv \in Dict!ScanStack /\ p \in nodes /\ p \in Seq(Chars)
      /\ lv.str = n - 1 /\ lv.cch = Remaining(word, p) /\ image \in Bytes
      /\ Len(Dict!Levels) = n /\ Dict!Tree!Top = t /\ Dict!Levels # <<>>
  BY <1>1, TopFound, Zenon
<1>4. /\ x.chfind = lv.chfind /\ x.str = lv.str /\ x.cch = lv.cch /\ x \in Dict!ScanStack
      /\ j \in 1 .. m /\ FindsAt(t, j) /\ kid \in nodes /\ Len(kid) = n
      /\ \E o \in Nat : Stands(x, p, o)
  BY DownStack, Zenon
<1>5. PICK new \in Dict!ScanStack :
         /\ s = Append(Append(Dict!Front(levels), x), new)
         /\ new.str = n /\ new.cch = Remaining(word, kid)
         /\ NodeLevel(new, kid) \in SetLevel(word, kid)
         /\ \E o \in Nat : Stands(new, kid, o)
  BY DownStack, Zenon
<1>6. /\ s \in Seq(Dict!ScanStack) /\ Len(s) = n + 1 /\ s[n] = x /\ s[n + 1] = new
      /\ \A k \in 1 .. n - 1 : s[k] = levels[k]
  <2>1. s = Append(Append(SubSeq(levels, 1, n - 1), x), new)
    BY <1>5, Zenon DEF Dict!Front
  <2>2. levels \in Seq(Dict!ScanStack) /\ Len(levels) # 0 /\ x \in Dict!ScanStack
    BY <1>2, <1>3, <1>4, Zenon
  <2> HIDE DEF x, s
  <2>3. s = TwoOn(levels, x, new)
    BY <2>1, Zenon DEF TwoOn
  <2>4. /\ s \in Seq(Dict!ScanStack) /\ Len(s) = Len(levels) + 1 /\ s[Len(levels)] = x /\ s[Len(levels) + 1] = new
        /\ \A k \in 1 .. Len(levels) - 1 : s[k] = levels[k]
    <3> DEFINE w == TwoOn(levels, x, new)
    <3>0. new \in Dict!ScanStack
      BY <1>5
    <3>1. /\ w \in Seq(Dict!ScanStack) /\ Len(w) = Len(levels) + 1 /\ w[Len(levels)] = x /\ w[Len(levels) + 1] = new
          /\ \A k \in 1 .. Len(levels) - 1 : w[k] = levels[k]
      BY <2>2, <3>0, TwoOnTop
    <3>2. s = w
      BY <2>3
    <3> HIDE DEF w
    <3> QED  BY <3>1, <3>2, Zenon
  <2> QED  BY <2>4, Zenon
<1> HIDE DEF x, s, lv
<1>7. PathOf(s, n) = p
  <2>1. \A k \in 1 .. n - 1 : s[k].chfind = levels[k].chfind
    BY <1>6
  <2> HIDE DEF n
  <2> QED  BY <1>3, <2>1, PathsGrow, Zenon
<1>8. PathOf(s, n + 1) = kid
  <2>1. \A k \in 1 .. n : s[k].chfind \in 0 .. 255
    <3>1. \A k \in 1 .. n + 1 : s[k] \in Dict!ScanStack
      BY <1>3, <1>6
    <3>2. \A k \in 1 .. n : k \in 1 .. n + 1
      BY <1>3
    <3> QED  BY <3>1, <3>2 DEF Dict!ScanStack
  <2> HIDE DEF n, p
  <2>2. PathOf(s, n + 1) = Append(PathOf(s, n), s[n].chfind)
    BY <1>3, <2>1, PathGrows, Zenon
  <2> QED  BY <1>4, <1>6, <1>7, <2>2, Zenon
<1> HIDE DEF p
<1>9. ASSUME NEW k \in 1 .. n - 1
      PROVE  /\ k \in Nat /\ k # 0 /\ k \in 1 .. n /\ k \in 1 .. n + 1
             /\ NodeLevel(s[k], PathOf(s, k)) = NodeLevel(levels[k], PathOf(levels, k))
             /\ Fits(word, s, k)
  <2>1. k \in Nat /\ k # 0 /\ k \in 1 .. n /\ k \in 1 .. n + 1 /\ \A i \in 1 .. k - 1 : i \in 1 .. n - 1
    BY <1>3
  <2>2. s[k] = levels[k] /\ \A i \in 1 .. k - 1 : s[i] = levels[i]
    BY <1>6, <2>1
  <2>3. /\ NodeLevel(s[k], PathOf(s, k)) = NodeLevel(levels[k], PathOf(levels, k))
        /\ Fits(word, s, k) <=> Fits(word, levels, k)
    BY <2>1, <2>2, FitsBelow
  <2> QED  BY <1>2, <2>1, <2>3, Zenon
<1>10. Fits(word, s, n)
  <2> HIDE DEF n
  <2> QED  BY <1>3, <1>4, <1>6, <1>7, Zenon DEF Fits
<1>11. Fits(word, s, n + 1)
  <2>1. new.str = (n + 1) - 1
    BY <1>3, <1>5
  <2> HIDE DEF n, kid
  <2> QED  BY <1>4, <1>5, <1>6, <1>8, <2>1, Zenon DEF Fits
<1> HIDE DEF n
<1>12. \A k \in 1 .. n + 1 : k = n + 1 \/ k = n \/ k \in 1 .. n - 1
  BY <1>3
<1>13. \A k \in 1 .. Len(s) : Fits(word, s, k)
  BY <1>6, <1>9, <1>10, <1>11, <1>12, Zenon
<1>14. BytesInv'
  <2>1. pc # "build" /\ pc' \in {"saved", "scan"} /\ pc' = "scan"
    BY <1>1
  <2>2. levels' \in Seq(Dict!ScanStack) /\ \A k \in 1 .. Len(levels') : Fits(word', levels', k)
    BY <1>1, <1>6, <1>13, Zenon DEF s
  <2>3. word' \in Seq(0 .. 255) /\ Len(word') < SizeMod
    BY <1>1, <1>2, Zenon
  <2> QED  BY <1>1, <2>1, <2>2, <2>3, ScanKeeps
<1> DEFINE L1 == [L EXCEPT ![n].passed = j]
           top == NodeLevel(new, kid)
           N == Append(L1, top)
<1>15. /\ L \in Seq(TreeLevels) /\ Len(L) = n
       /\ \A k \in 1 .. n : L[k] = NodeLevel(levels[k], PathOf(levels, k))
  BY <1>2, <1>3, LevelsSeq, Zenon DEF n
<1>16. /\ M \in Seq(TreeLevels) /\ Len(M) = n + 1
       /\ \A k \in 1 .. n + 1 : M[k] = NodeLevel(s[k], PathOf(s, k))
  BY <1>2, <1>3, <1>6, <1>13, LevelsSeq, Zenon
<1> HIDE DEF L, M, j, t, kid
<1>17. n \in 1 .. n /\ n + 1 \in 1 .. n + 1 /\ n \in 1 .. n + 1
  BY <1>3
<1>18. M[n + 1] = top /\ top \in TreeLevels
  <2>1. M[n + 1] = top
    BY <1>6, <1>8, <1>16, <1>17, Zenon
  <2>2. M[n + 1] \in TreeLevels
    BY <1>16, <1>17
  <2> QED  BY <2>1, <2>2, Zenon
<1> HIDE DEF top
<1>19. L[n] = t
  BY <1>15, <1>17, Zenon DEF t, lv, p
<1>20. M[n] = [t EXCEPT !.passed = j]
  <2>1. M[n] = NodeLevel(x, p)
    BY <1>6, <1>7, <1>16, <1>17, Zenon
  <2>2. NodeLevel(x, p) = [path |-> p, chfind |-> lv.chfind, passed |-> j]
    BY <1>4, Zenon DEF NodeLevel, LevelAt, j, m
  <2>3. t = [path |-> p, chfind |-> lv.chfind, passed |-> m - lv.ccount]
    BY Zenon DEF t, NodeLevel, LevelAt, m
  <2> HIDE DEF m
  <2> QED  BY <2>1, <2>2, <2>3
<1>21. ASSUME NEW k \in 1 .. n - 1  PROVE M[k] = L[k] /\ k \in 1 .. n /\ k # n
  <2>1. k \in 1 .. n /\ k \in 1 .. n + 1 /\ k # n
    BY <1>3
  <2> QED  BY <1>9, <1>15, <1>16, <2>1, Zenon
<1>22. /\ L1 \in Seq(TreeLevels) /\ Len(L1) = n /\ L1[n] = [t EXCEPT !.passed = j]
       /\ \A k \in 1 .. n - 1 : L1[k] = L[k]
  <2>1. DOMAIN L = 1 .. n /\ L = [k \in 1 .. n |-> L[k]] /\ \A k \in 1 .. n : L[k] \in TreeLevels
    BY <1>15
  <2>2. M[n] \in TreeLevels
    BY <1>16, <1>17
  <2> DEFINE y == [t EXCEPT !.passed = j]
  <2>3. L1 = [k \in 1 .. n |-> IF k = n THEN y ELSE L[k]]
    BY <1>17, <1>19, <2>1
  <2>4. y \in TreeLevels
    BY <1>20, <2>2, Zenon
  <2> HIDE DEF y, L1
  <2>5. L1 \in Seq(TreeLevels) /\ Len(L1) = n /\ \A k \in 1 .. n : L1[k] = IF k = n THEN y ELSE L[k]
    BY <1>3, <2>1, <2>3, <2>4
  <2>6. \A k \in 1 .. n - 1 : k \in 1 .. n /\ k # n
    BY <1>3
  <2> QED  BY <1>17, <2>5, <2>6 DEF y
<1> HIDE DEF L1
<1>23. /\ N \in Seq(TreeLevels) /\ Len(N) = n + 1 /\ N[n + 1] = top
       /\ \A k \in 1 .. n : N[k] = L1[k]
  BY <1>3, <1>18, <1>22
<1> HIDE DEF N
<1>24. \A k \in 1 .. n + 1 : M[k] = N[k]
  BY <1>12, <1>17, <1>18, <1>20, <1>21, <1>22, <1>23, Zenon
<1>25. M = N
  BY <1>16, <1>23, <1>24, SeqEqual
<1>26. Dict!Levels = L /\ Dict!Levels' = M
  BY <1>1, LevelsAre DEF L, M, s
<1>27. Dict!Levels' = Append([Dict!Levels EXCEPT ![Len(Dict!Levels)].passed = j], top)
  BY <1>3, <1>25, <1>26, Zenon DEF N, L1
<1>28. top \in Dict!Tree!SetLevel(word, Append(Dict!Tree!Top.path, Dict!Tree!Top.chfind))
  <2>1. t.path = p /\ t.chfind = lv.chfind
    BY DEF t, NodeLevel, LevelAt
  <2> QED  BY <1>3, <1>5, <2>1, SameStops, Zenon DEF top, kid
<1>29. j \in Dict!Tree!Stops(Dict!Tree!Top) /\ Dict!Tree!FindsAt(Dict!Tree!Top, j)
  <2>1. FindsAt(t, j) /\ j \in Stops(t)
    BY <1>4, Zenon DEF FindsAt, StopsAt
  <2> QED  BY <1>3, <2>1, SameStops, Zenon
<1>30. UNCHANGED <<Dict!Tree!treeVars, index, pc, word, asked, left, answer>>
  BY <1>1, SameTree, Zenon DEF Dict!Tree!treeVars, treeVars
<1>31. Dict!Tree!GoDown
  BY <1>1, <1>3, <1>27, <1>28, <1>29, <1>30, Zenon DEF Dict!Tree!GoDown
<1> QED  BY <1>14, <1>31


-------------------------------------------------------------------------------
(* No level, as TreeScan has it. *)
LEMMA NoLevels ==
  /\ levels = <<>> => Dict!Levels = <<>>
  /\ levels' = <<>> => Dict!Levels' = <<>>
<1>1. levels = <<>> => Dict!Levels = <<>>
  BY DEF Dict!Levels
<1>2. levels' = <<>> => Dict!Levels' = <<>>
  BY DEF Dict!Levels
<1> QED  BY <1>1, <1>2

(* The scan starts with a level at the root. *)
LEMMA Starts ==
  ASSUME BytesInv, Dict!LinearScanDict
  PROVE  BytesInv' /\ Dict!Tree!LinearScanDict
<1> DEFINE root == <<>>
           s == levels'
           w == word'
<1>1. /\ pc = "saved" /\ pc' = "scan" /\ w \in Words[index]
      /\ UNCHANGED <<treeVars, index, image, stemAt>> /\ UNCHANGED <<treeVars, index>>
      /\ asked' = NoStem /\ left' = 0 /\ answer' = NoStem
      /\ \E lv \in Dict!SetLevel(w, 0, 0, Len(w)) : s = <<lv>>
  BY Zenon DEF Dict!LinearScanDict, Dict!treeVars, treeVars
<1>2. Grown /\ image = Image(<<>>) /\ index \in BOOLEAN
  BY <1>1 DEF BytesInv, Grown
<1>3. w \in Seq(0 .. 255) /\ Len(w) < SizeMod /\ Len(w) \in Nat
  <2>1. Words[index] \subseteq Seq(0 .. 255) /\ \A x \in Words[index] : Len(x) < SizeMod
    BY <1>2, WordsAssumption
  <2> QED  BY <1>1, <2>1
<1>4. /\ root \in nodes /\ image \in Bytes /\ AtHome(root, 0)
      /\ CountAt(image, 0).upper <=> root \in data
      /\ CountAt(image, 0).lower = Len(nested[root])
      /\ CountAt(image, 0).next = BufLens[<<root, 0>>] /\ BufLens[<<root, 0>>] \in Nat
  BY <1>2, RootAtHome, Zenon
<1>5. root \in Seq(Chars) /\ Len(root) = 0 /\ 0 < SizeMod
  BY WordsAssumption
<1>6. Remaining(w, root) = Len(w)
  <2>1. Len(root) <= Len(w) => Remaining(w, root) = Len(w) - Len(root)
    <3>1. Len(root) < SizeMod
      BY <1>5
    <3> HIDE DEF root, w
    <3> QED  BY <1>3, <1>5, <3>1, SoughtHere
  <2> HIDE DEF root, w
  <2> QED  BY <1>3, <1>5, <2>1
<1>7. CountAt(image, 0).next = 0 + BufLens[<<root, 0>>]
  <2> DEFINE b == BufLens[<<root, 0>>]
  <2> HIDE DEF b
  <2>1. b \in Nat /\ CountAt(image, 0).next = b
    BY <1>4, Zenon DEF b
  <2>2. 0 + b = b
    BY <2>1
  <2> QED  BY <2>1, <2>2, Zenon DEF b
<1>8. PICK lv \in Dict!SetLevel(w, 0, Len(root), Remaining(w, root)) : s = <<lv>>
  <2> HIDE DEF root
  <2> QED  BY <1>1, <1>5, <1>6, Zenon
<1> HIDE DEF root, w, s
<1>9. /\ lv.str = Len(root) /\ lv.cch = Remaining(w, root)
      /\ Stands(lv, root, 0) /\ NodeLevel(lv, root) \in SetLevel(w, root)
  BY <1>2, <1>3, <1>4, <1>7, <1>8, NewLevel, Zenon
<1>10. lv \in Dict!ScanStack
  BY <1>9, Zenon DEF Stands
<1>11. /\ s \in Seq(Dict!ScanStack) /\ Len(s) = 1 /\ s[1] = lv /\ PathOf(s, 1) = root
  <2>1. s \in Seq(Dict!ScanStack) /\ Len(s) = 1 /\ s[1] = lv
    BY <1>8, <1>10
  <2>2. PathOf(s, 1) = root
    BY DEF PathOf, root
  <2> QED  BY <2>1, <2>2
<1>12. Fits(w, s, 1)
  <2>1. lv.str = 1 - 1
    BY <1>5, <1>9
  <2> QED  BY <1>4, <1>9, <1>11, <2>1, Zenon DEF Fits
<1>13. \A k \in 1 .. Len(s) : k = 1 /\ Fits(w, s, k)
  <2>1. \A k \in 1 .. 1 : k = 1
    OBVIOUS
  <2> QED  BY <1>11, <1>12, <2>1, Zenon
<1>14. BytesInv'
  <2>1. pc # "build" /\ pc' \in {"saved", "scan"} /\ (pc' # "scan" => levels' = <<>>)
    BY <1>1
  <2>2. /\ word' \in Seq(0 .. 255) /\ Len(word') < SizeMod /\ levels' \in Seq(Dict!ScanStack)
        /\ \A k \in 1 .. Len(levels') : Fits(word', levels', k)
    BY <1>3, <1>11, <1>13, Zenon DEF s, w
  <2> QED  BY <1>1, <2>1, <2>2, ScanKeeps
<1> DEFINE top == NodeLevel(lv, root)
<1>15. Dict!Levels' = <<top>>
  <2> DEFINE M == LevelsOf(s)
  <2>1. Dict!Levels' = M
    BY <1>1, LevelsAre DEF s
  <2>2. M \in Seq(TreeLevels) /\ Len(M) = 1 /\ \A k \in 1 .. Len(s) : M[k] = NodeLevel(s[k], PathOf(s, k))
    BY <1>2, <1>4, <1>11, <1>13, LevelsSeq, Zenon
  <2> HIDE DEF M
  <2>3. 1 \in 1 .. Len(s)
    BY <1>11
  <2>4. M[1] = top
    BY <1>11, <2>2, <2>3, Zenon
  <2> HIDE DEF top
  <2>5. M = <<top>>
    BY <2>2, <2>4
  <2> QED  BY <2>1, <2>5, Zenon
<1>16. top \in Dict!Tree!SetLevel(word', <<>>)
  BY <1>9, SameStops, Zenon DEF root, w
<1>17. UNCHANGED <<Dict!Tree!treeVars, index>>
  BY <1>1, SameTree, Zenon DEF Dict!Tree!treeVars, treeVars
<1>18. Dict!Tree!LinearScanDict
  BY <1>1, <1>15, <1>16, <1>17, Zenon DEF Dict!Tree!LinearScanDict, w
<1> QED  BY <1>14, <1>18

(* A step up. *)
LEMMA OneUp ==
  ASSUME BytesInv, pc = "scan", levels # <<>>, UNCHANGED treeVars, levels' = Dict!Front(levels)
  PROVE  /\ levels' \in Seq(Dict!ScanStack) /\ \A k \in 1 .. Len(levels') : Fits(word, levels', k)
         /\ Dict!Levels' = Dict!Tree!Below
<1> DEFINE n == Len(levels)
           s == levels'
           L == LevelsOf(levels)
           M == LevelsOf(s)
           N == SubSeq(L, 1, n - 1)
<1>1. /\ Grown /\ levels \in Seq(Dict!ScanStack) /\ \A k \in 1 .. n : Fits(word, levels, k)
  BY DEF BytesInv
<1>2. n \in Nat /\ n # 0 /\ image \in Bytes
  BY TopFound, Zenon
<1>3. s \in Seq(Dict!ScanStack) /\ Len(s) = n - 1 /\ \A k \in 1 .. n - 1 : s[k] = levels[k]
  <2>1. s = SubSeq(levels, 1, n - 1)
    BY Zenon DEF Dict!Front
  <2> HIDE DEF s
  <2> QED  BY <1>1, <1>2, <2>1, FrontIs
<1> HIDE DEF s
<1>4. ASSUME NEW k \in 1 .. n - 1
      PROVE  /\ NodeLevel(s[k], PathOf(s, k)) = NodeLevel(levels[k], PathOf(levels, k))
             /\ Fits(word, s, k) /\ k \in 1 .. n
  <2>1. k \in Nat /\ k # 0 /\ k \in 1 .. n /\ \A i \in 1 .. k - 1 : i \in 1 .. n - 1
    BY <1>2
  <2>2. s[k] = levels[k] /\ \A i \in 1 .. k - 1 : s[i] = levels[i]
    BY <1>3, <2>1
  <2>3. /\ NodeLevel(s[k], PathOf(s, k)) = NodeLevel(levels[k], PathOf(levels, k))
        /\ Fits(word, s, k) <=> Fits(word, levels, k)
    BY <2>1, <2>2, FitsBelow
  <2> QED  BY <1>1, <2>1, <2>3, Zenon
<1>5. \A k \in 1 .. Len(s) : Fits(word, s, k)
  BY <1>3, <1>4, Zenon
<1>6. L \in Seq(TreeLevels) /\ Len(L) = n /\ \A k \in 1 .. n : L[k] = NodeLevel(levels[k], PathOf(levels, k))
  BY <1>1, <1>2, LevelsSeq, Zenon
<1>7. M \in Seq(TreeLevels) /\ Len(M) = n - 1 /\ \A k \in 1 .. n - 1 : M[k] = NodeLevel(s[k], PathOf(s, k))
  <2>1. M \in Seq(TreeLevels) /\ Len(M) = Len(s) /\ \A k \in 1 .. Len(s) : M[k] = NodeLevel(s[k], PathOf(s, k))
    BY <1>1, <1>2, <1>3, <1>5, LevelsSeq, Zenon
  <2> QED  BY <1>3, <2>1, Zenon
<1> HIDE DEF L, M, n
<1>8. N \in Seq(TreeLevels) /\ Len(N) = n - 1 /\ \A k \in 1 .. n - 1 : N[k] = L[k]
  BY <1>2, <1>6, FrontIs
<1> HIDE DEF N
<1>9. \A k \in 1 .. n - 1 : M[k] = N[k]
  BY <1>4, <1>6, <1>7, <1>8, Zenon
<1>10. M = N
  <2>1. n - 1 \in Nat
    BY <1>2
  <2> QED  BY <1>7, <1>8, <1>9, <2>1, SeqEqual
<1>11. Dict!Levels = L /\ Dict!Levels' = M
  BY LevelsAre DEF L, M, s
<1>12. Dict!Tree!Below = N
  BY <1>6, <1>11, Zenon DEF Dict!Tree!Below, N
<1> QED  BY <1>3, <1>5, <1>10, <1>11, <1>12, Zenon DEF s


(* Where nothing more is found the element stands at the cursor. *)
LEMMA ElementFound ==
  ASSUME BytesInv, pc = "scan", levels # <<>>, ~Dict!Found.found
  PROVE  LET lv == Dict!Found.lv
             top == Dict!Tree!Top
         IN /\ ~Dict!Tree!Finds(top)
            /\ lv.upper <=> top.path \in data
            /\ lv.cch = Dict!Tree!Remaining(word, top.path)
            /\ top.path \in data => Dict!StemAt(lv.dic) = top.path
<1> DEFINE n == Len(levels)
           on == levels[n]
           p == PathOf(levels, n)
           f == Dict!Found
           top == Dict!Tree!Top
<1>1. Grown /\ stemAt = Stems
  BY DEF BytesInv
<1>2. /\ p \in nodes /\ on.cch = Remaining(word, p) /\ f = Dict!FindChar(on) /\ top = NodeLevel(on, p)
      /\ \E o \in Nat : Stands(on, p, o) /\ FindsAlike(on, p, o)
  BY TopFound, Zenon
<1>3. PICK o \in Nat : Stands(on, p, o) /\ FindsAlike(on, p, o)
  BY <1>2, Zenon
<1>4. top.path = p
  BY <1>2 DEF NodeLevel, LevelAt
<1> HIDE DEF on, p, f, top
<1>5. /\ f.lv.cch = on.cch /\ f.lv.upper = on.upper /\ ~Finds(NodeLevel(on, p))
      /\ p \in data => f.lv.dic = o + BufLens[All(p)]
  <2>1. ~f.found
    BY DEF f
  <2> QED  BY <1>2, <1>3, <2>1, Zenon DEF FindsAlike
<1>6. AtHome(p, o) /\ (on.upper <=> p \in data)
  BY <1>3, Zenon DEF Stands
<1>7. p \in data => Dict!StemAt(f.lv.dic) = p
  BY <1>1, <1>3, <1>5, <1>6, ElementAtHome, Zenon
<1>8. ~Dict!Tree!Finds(top)
  BY <1>2, <1>5, SameStops, Zenon
<1>9. f.lv.cch = Dict!Tree!Remaining(word, top.path)
  BY <1>2, <1>4, <1>5, SameStops, Zenon
<1>10. f.lv.upper <=> top.path \in data
  BY <1>4, <1>5, <1>6, Zenon
<1> QED  BY <1>4, <1>7, <1>8, <1>9, <1>10, Zenon DEF f, top

LEMMA GoesUp ==
  ASSUME BytesInv, Dict!GoUp
  PROVE  BytesInv' /\ Dict!Tree!GoUp
<1>1. /\ pc = "scan" /\ levels # <<>> /\ ~Dict!Found.found /\ ~Dict!Found.lv.upper /\ levels' = Dict!Front(levels)
      /\ UNCHANGED <<treeVars, index, image, stemAt>> /\ UNCHANGED treeVars /\ word' = word /\ pc' = pc
      /\ UNCHANGED <<treeVars, index, pc, word, asked, left, answer>>
  BY Zenon DEF Dict!GoUp, Dict!treeVars, treeVars
<1>2. /\ levels' \in Seq(Dict!ScanStack) /\ \A k \in 1 .. Len(levels') : Fits(word, levels', k)
      /\ Dict!Levels' = Dict!Tree!Below
  BY <1>1, OneUp, Zenon
<1>3. BytesInv'
  <2>1. pc # "build" /\ pc' \in {"saved", "scan"} /\ pc' = "scan"
    BY <1>1
  <2>2. word' \in Seq(0 .. 255) /\ Len(word') < SizeMod
    BY <1>1 DEF BytesInv
  <2>3. \A k \in 1 .. Len(levels') : Fits(word', levels', k)
    BY <1>1, <1>2, Zenon
  <2> QED  BY <1>1, <1>2, <2>1, <2>2, <2>3, ScanKeeps
<1>4. ~Dict!Tree!Finds(Dict!Tree!Top) /\ Dict!Tree!Top.path \notin data
  BY <1>1, ElementFound, Zenon
<1>5. Dict!Levels # <<>>
  BY <1>1, TopFound, Zenon
<1>6. UNCHANGED <<Dict!Tree!treeVars, index, pc, word, asked, left, answer>>
  BY <1>1, SameTree, Zenon DEF Dict!Tree!treeVars, treeVars
<1>7. Dict!Tree!GoUp
  BY <1>1, <1>2, <1>4, <1>5, <1>6, Zenon DEF Dict!Tree!GoUp
<1> QED  BY <1>3, <1>7

LEMMA Offers ==
  ASSUME BytesInv, Dict!Offer
  PROVE  BytesInv' /\ Dict!Tree!Offer
<1> DEFINE lv == Dict!Found.lv
           p == Dict!Tree!Top.path
<1>1. /\ pc = "scan" /\ levels # <<>> /\ ~Dict!Found.found /\ lv.upper
      /\ UNCHANGED <<treeVars, index, image, stemAt>> /\ UNCHANGED treeVars /\ word' = word /\ index' = index
      /\ UNCHANGED <<treeVars, index, word>>
      /\ asked' = Dict!StemAt(lv.dic) /\ left' = lv.cch
  BY Zenon DEF Dict!Offer, Dict!treeVars, treeVars
<1>2. PICK yes \in Dict!Accepts(lv.cch) :
        IF yes THEN answer' = asked' /\ pc' = "saved" /\ levels' = <<>>
               ELSE levels' = Dict!Front(levels) /\ UNCHANGED <<answer, pc>>
  BY Zenon DEF Dict!Offer
<1>3. /\ ~Dict!Tree!Finds(Dict!Tree!Top) /\ p \in data
      /\ lv.cch = Dict!Tree!Remaining(word, p) /\ Dict!StemAt(lv.dic) = p
  BY <1>1, ElementFound, Zenon
<1>4. asked' = p /\ left' = Dict!Tree!Remaining(word, p) /\ Dict!Levels # <<>>
  BY <1>1, <1>3, TopFound, Zenon
<1>5. yes \in Dict!Tree!Accepts(left')
  <2>1. left' = lv.cch
    BY <1>1
  <2> HIDE DEF lv
  <2> QED  BY <1>2, <2>1, SameCalls, Zenon
<1> HIDE DEF lv
<1>6. word' \in Seq(0 .. 255) /\ Len(word') < SizeMod
  BY <1>1 DEF BytesInv
<1>7. UNCHANGED <<Dict!Tree!treeVars, index, word>>
  BY <1>1, SameTree, Zenon DEF Dict!Tree!treeVars, treeVars
<1> HIDE DEF p
<1>8. CASE yes
  <2>1. answer' = asked' /\ pc' = "saved" /\ levels' = <<>> /\ Dict!Levels' = <<>>
    BY <1>2, <1>8, NoLevels
  <2>2. BytesInv'
    <3>1. pc # "build" /\ pc' \in {"saved", "scan"}
      BY <1>1, <2>1
    <3>2. levels' \in Seq(Dict!ScanStack) /\ \A k \in 1 .. Len(levels') : Fits(word', levels', k)
      BY <2>1
    <3> QED  BY <1>1, <1>6, <2>1, <3>1, <3>2, ScanKeeps
  <2>3. Dict!Tree!Offer
    BY <1>1, <1>3, <1>4, <1>5, <1>7, <1>8, <2>1, Zenon DEF Dict!Tree!Offer, p
  <2> QED  BY <2>2, <2>3
<1>9. CASE ~yes
  <2>1. levels' = Dict!Front(levels) /\ answer' = answer /\ pc' = pc /\ UNCHANGED <<answer, pc>>
    BY <1>2, <1>9, Zenon
  <2>2. /\ levels' \in Seq(Dict!ScanStack) /\ \A k \in 1 .. Len(levels') : Fits(word, levels', k)
        /\ Dict!Levels' = Dict!Tree!Below
    BY <1>1, <2>1, OneUp, Zenon
  <2>3. BytesInv'
    <3>1. pc # "build" /\ pc' \in {"saved", "scan"} /\ pc' = "scan"
      BY <1>1, <2>1
    <3>2. \A k \in 1 .. Len(levels') : Fits(word', levels', k)
      BY <1>1, <2>2, Zenon
    <3> QED  BY <1>1, <1>6, <2>2, <3>1, <3>2, ScanKeeps
  <2>4. Dict!Tree!Offer
    BY <1>1, <1>3, <1>4, <1>5, <1>7, <1>9, <2>1, <2>2, Zenon DEF Dict!Tree!Offer, p
  <2> QED  BY <2>3, <2>4
<1> QED  BY <1>8, <1>9

LEMMA EndsUnfound ==
  ASSUME BytesInv, Dict!NotFound
  PROVE  BytesInv' /\ Dict!Tree!NotFound
<1>1. /\ pc = "scan" /\ levels = <<>> /\ pc' = "saved" /\ levels' = levels /\ word' = word
      /\ UNCHANGED <<treeVars, index, image, stemAt>> /\ UNCHANGED <<index, word, asked, left, answer>>
      /\ UNCHANGED treeVars
  BY Zenon DEF Dict!NotFound, Dict!treeVars, treeVars
<1>2. Dict!Levels = <<>> /\ Dict!Levels' = <<>>
  BY <1>1, NoLevels, Zenon
<1>3. BytesInv'
  <2>1. word' \in Seq(0 .. 255) /\ Len(word') < SizeMod
    BY <1>1 DEF BytesInv
  <2>2. levels' \in Seq(Dict!ScanStack) /\ \A k \in 1 .. Len(levels') : Fits(word', levels', k)
    BY <1>1
  <2>3. pc # "build" /\ pc' \in {"saved", "scan"} /\ levels' = <<>>
    BY <1>1
  <2> QED  BY <1>1, <2>1, <2>2, <2>3, ScanKeeps
<1>4. UNCHANGED <<Dict!Tree!treeVars, index, word, Dict!Levels, asked, left, answer>>
  BY <1>1, <1>2, SameTree, Zenon DEF Dict!Tree!treeVars, treeVars
<1> QED  BY <1>1, <1>2, <1>3, <1>4, Zenon DEF Dict!Tree!NotFound


LEMMA BytesStart ==
  ASSUME Dict!Init
  PROVE  BytesInv /\ Dict!Tree!Init
<1>1. /\ Dict!TreeInit /\ index \in BOOLEAN /\ pc = "build" /\ word = <<>> /\ levels = <<>>
      /\ asked = NoStem /\ left = 0 /\ answer = NoStem
  BY Zenon DEF Dict!Init
<1>2. TreeInit /\ Dict!Tree!TreeInit
  BY <1>1, SameTree, Zenon
<1>3. Grown
  <2>1. TreeInv
    BY <1>2, TreeInit_Inv
  <2>2. nodes = {<<>>} /\ known = {} /\ busy = FALSE
    BY <1>2 DEF TreeInit
  <2> QED  BY <1>1, <2>1, <2>2 DEF Grown, Keyed
<1>4. BytesInv
  <2>1. SizeMod \in Nat \ {0}
    BY WordsAssumption
  <2> QED  BY <1>1, <1>3, <2>1 DEF BytesInv
<1>5. Dict!Tree!Init
  BY <1>1, <1>2, NoLevels, Zenon DEF Dict!Tree!Init
<1> QED  BY <1>4, <1>5

LEMMA Builds ==
  ASSUME BytesInv, Dict!Build
  PROVE  BytesInv' /\ Dict!Tree!Build
<1>1. /\ Dict!Grow /\ UNCHANGED <<index, pc, image, stemAt, word, levels, asked, left, answer>>
  BY Zenon DEF Dict!Build, Dict!scanVars
<1>2. Grow /\ Dict!Tree!Grow
  BY <1>1, SameTree, Zenon
<1>3. pc = "build"
  BY <1>2 DEF Grow
<1>4. Grown /\ levels = <<>> /\ word \in Seq(0 .. 255) /\ Len(word) < SizeMod
  BY <1>3 DEF BytesInv
<1>5. Grown'
  <2>1. TreeNext
    <3>1. KeysOf[index] \subseteq Keys
      BY <1>4, KeysOfTree DEF Grown
    <3> QED  BY <1>2, <3>1 DEF Grow, TreeNext
  <2>2. TreeInv'
    BY <1>4, <2>1, TreeNext_Inv DEF Grown
  <2>3. Keyed'
    BY <1>1, <1>2, <1>4, GrowKeyed DEF Grown
  <2> QED  BY <1>1, <1>4, <2>2, <2>3 DEF Grown
<1>6. BytesInv'
  <2>1. /\ pc' = "build" /\ word' = word /\ levels' = <<>>
    BY <1>1, <1>3, <1>4
  <2> QED  BY <1>4, <1>5, <2>1 DEF BytesInv
<1>7. Dict!Levels = <<>> /\ Dict!Levels' = <<>>
  BY <1>1, <1>4, NoLevels
<1>8. UNCHANGED <<index, pc, word, Dict!Levels, asked, left, answer>>
  BY <1>1, <1>7
<1> QED  BY <1>2, <1>6, <1>8, Zenon DEF Dict!Tree!Build

LEMMA Saves ==
  ASSUME BytesInv, Dict!Save
  PROVE  BytesInv' /\ Dict!Tree!Save
<1>1. /\ pc = "build" /\ ~busy /\ pc' = "saved" /\ image' = Dict!Image(<<>>)
      /\ stemAt' = StemsOf(Dict!ToSet(Dict!Enumerate(<<>>, 0).calls))
      /\ UNCHANGED <<treeVars, index>> /\ UNCHANGED treeVars
      /\ UNCHANGED <<index, word, levels, asked, left, answer>> /\ word' = word /\ levels' = levels
  BY Zenon DEF Dict!Save, Dict!treeVars, treeVars, StemsOf
<1>2. Grown /\ levels = <<>> /\ word \in Seq(0 .. 255) /\ Len(word) < SizeMod
  BY <1>1 DEF BytesInv
<1>3. image' = Image(<<>>) /\ stemAt' = Stems
  <2>1. \A q : Dict!ToSet(q) = ToSet(q)
    BY DEF Dict!ToSet, ToSet
  <2> QED  BY <1>1, <2>1, SameImage, Zenon DEF Stems
<1>4. BytesInv'
  <2>1. pc' \in {"build", "saved", "scan"} /\ levels' = <<>> /\ levels' \in Seq(Dict!ScanStack)
    BY <1>1, <1>2
  <2>2. word' \in Seq(0 .. 255) /\ Len(word') < SizeMod
    BY <1>1, <1>2, Zenon
  <2> QED  BY <1>1, <1>2, <1>3, <2>1, <2>2, BytesKept
<1>5. Dict!Levels = <<>> /\ Dict!Levels' = <<>>
  BY <1>1, <1>2, NoLevels
<1>6. UNCHANGED <<Dict!Tree!treeVars, index, word, Dict!Levels, asked, left, answer>>
  BY <1>1, <1>5, SameTree, Zenon DEF Dict!Tree!treeVars, treeVars
<1> QED  BY <1>1, <1>4, <1>6, Zenon DEF Dict!Tree!Save

LEMMA Stays ==
  ASSUME BytesInv, UNCHANGED Dict!vars
  PROVE  BytesInv' /\ UNCHANGED Dict!Tree!vars
<1>1. /\ UNCHANGED <<treeVars, index>> /\ UNCHANGED treeVars
      /\ UNCHANGED <<index, pc, image, stemAt, word, levels, asked, left, answer>>
  BY Zenon DEF Dict!vars, Dict!treeVars, Dict!scanVars, treeVars
<1>2. /\ index' = index /\ pc' = pc /\ image' = image /\ stemAt' = stemAt /\ word' = word /\ levels' = levels
  BY <1>1
<1>3. BytesInv'
  <2>1. Grown /\ pc \in {"build", "saved", "scan"} /\ word \in Seq(0 .. 255) /\ Len(word) < SizeMod
        /\ levels \in Seq(Dict!ScanStack)
        /\ (pc # "build" => ~busy /\ image = Image(<<>>) /\ stemAt = Stems)
        /\ (pc # "scan" => levels = <<>>)
        /\ \A k \in 1 .. Len(levels) : Fits(word, levels, k)
    BY DEF BytesInv
  <2>2. \A k \in 1 .. Len(levels') : Fits(word', levels', k)
    BY <1>2, <2>1, Zenon
  <2>3. /\ pc' \in {"build", "saved", "scan"} /\ word' \in Seq(0 .. 255) /\ Len(word') < SizeMod
        /\ levels' \in Seq(Dict!ScanStack)
        /\ (pc' # "build" => ~busy /\ image' = Image(<<>>) /\ stemAt' = Stems)
        /\ (pc' # "scan" => levels' = <<>>)
    BY <1>2, <2>1
  <2> QED  BY <1>1, <1>2, <2>1, <2>2, <2>3, BytesKept
<1>4. Dict!Levels' = Dict!Levels
  BY <1>1, <1>2, LevelsAre
<1>5. UNCHANGED Dict!Tree!vars
  BY <1>1, <1>4, SameTree, Zenon DEF Dict!Tree!vars, Dict!Tree!treeVars, treeVars
<1> QED  BY <1>3, <1>5

(* Every step on the bytes is a step on the nodes. *)
LEMMA BytesStep == BytesInv /\ [Dict!Next]_(Dict!vars) => BytesInv' /\ [Dict!Tree!Next]_(Dict!Tree!vars)
<1> SUFFICES ASSUME BytesInv, [Dict!Next]_(Dict!vars)
             PROVE  BytesInv' /\ [Dict!Tree!Next]_(Dict!Tree!vars)
  OBVIOUS
<1>1. CASE Dict!Build
  BY <1>1, Builds, Zenon DEF Dict!Tree!Next
<1>2. CASE Dict!Save
  BY <1>2, Saves, Zenon DEF Dict!Tree!Next
<1>3. CASE Dict!LinearScanDict
  BY <1>3, Starts, Zenon DEF Dict!Tree!Next
<1>4. CASE Dict!GoDown
  BY <1>4, GoesDown, Zenon DEF Dict!Tree!Next, Dict!Tree!Step
<1>5. CASE Dict!Offer
  BY <1>5, Offers, Zenon DEF Dict!Tree!Next, Dict!Tree!Step
<1>6. CASE Dict!GoUp
  BY <1>6, GoesUp, Zenon DEF Dict!Tree!Next, Dict!Tree!Step
<1>7. CASE Dict!NotFound
  BY <1>7, EndsUnfound, Zenon DEF Dict!Tree!Next, Dict!Tree!Step
<1>8. CASE UNCHANGED Dict!vars
  BY <1>8, Stays, Zenon
<1> QED  BY <1>1, <1>2, <1>3, <1>4, <1>5, <1>6, <1>7, <1>8, Zenon DEF Dict!Next, Dict!Step

(* The lookup in the bytes of the dictionary does what the lookup in its nodes *)
(* does, whatever was inserted and whatever is looked up: its cursors, counts  *)
(* and flags always stand where that one is (scandict.h:57-81).                *)
THEOREM BytesImplementNodes == Dict!Spec => Dict!TreeScanSpec
<1>1. Dict!Init => BytesInv /\ Dict!Tree!Init
  BY BytesStart
<1>2. BytesInv /\ [Dict!Next]_(Dict!vars) => BytesInv' /\ [Dict!Tree!Next]_(Dict!Tree!vars)
  BY BytesStep
<1> QED  BY <1>1, <1>2, PTL DEF Dict!Spec, Dict!TreeScanSpec, Dict!Tree!Spec
===============================================================================
