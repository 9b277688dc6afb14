------------------------------- MODULE TreeImage -------------------------------
(***************************************************************************)
(* The byte image of a stem tree and the index of lexemes over it          *)
(* (tools/wordtree.h, tools/buildmorph.h), with the two readers that find  *)
(* their way by counting its bytes: the reader of the whole tree and       *)
(* RecursGetTrack (xmorph/scandict.h), which goes back from the offset of  *)
(* one lexeme to the stem it was stored under.  A stem's element is the    *)
(* list of its entries, ResolveRus::entry_type; of an entry the model has  *)
(* what gives it its length: the lexeme and the length of its postfix.     *)
(* Offsets count from 0, sequences from 1.                                 *)
(*                                                                         *)
(* The functions of the tree call themselves in a loop over the children   *)
(* of a node.  Here each is a recursive function of the state of that      *)
(* loop, a visit <<p, i>>: i children of the node p have been passed.      *)
(***************************************************************************)
EXTENDS ScanCall, SequencesExt

CONSTANT Entries       \* Entries[key]: the list a key's element holds

ASSUME EntriesAssumption ==
  \A k \in Keys : Entries[k] \in Seq([lid: Nat \ {0}, post: 0 .. 127]) /\ Entries[k] # <<>>

(* the characters of the stems *)
Letters == UNION {ToSet(k) : k \in KeysOf[FALSE]}

(* storecount asserts that the children of a node do not count up to the flag *)
ASSUME FewLetters == IsFiniteSet(Letters) /\ Cardinality(Letters) < 128

(* sizeof(counter): 1 in the stem tree, 2 in the lids tree *)
CountBytes == IF index THEN 2 ELSE 1

-------------------------------------------------------------------------------

(* integers::put: seven bits to a byte, low ones first, 128 while more follow *)
Serial[n \in Nat] == IF n < 128 THEN <<n>> ELSE <<(n % 128) + 128>> \o Serial[n \div 128]

SerialLen[n \in Nat] == IF n < 128 THEN 1 ELSE 1 + SerialLen[n \div 128]

Upper == IF index THEN 32768 ELSE 128

(* storecount: how many children, the top bit when the node has an element *)
StoreCount(p) ==
  LET v == Len(nested[p]) + (IF p \in data THEN Upper ELSE 0)
  IN IF index THEN <<v % 256, (v \div 256) % 256>> ELSE <<v % 256>>

(* entry_type::Serialize: two bounds, the lexeme, the class (its top bit says  *)
(* that a postfix follows) and the postfix                                      *)
PostBytes(e) == IF e.post > 0 THEN <<e.post>> \o [i \in 1 .. e.post |-> 0] ELSE <<>>

EntryBytes(e) == <<0, 0>> \o Serial[e.lid] \o <<0, IF e.post > 0 THEN 128 ELSE 0>> \o PostBytes(e)

EntryLen(e) == 2 + SerialLen[e.lid] + 2 + (IF e.post # 0 THEN e.post + 1 ELSE 0)

(* a list: its count, then its entries; after k of them *)
ListBytes(list) ==
  LET put[k \in 0 .. Len(list)] ==
        IF k = 0 THEN Serial[Len(list)] ELSE put[k - 1] \o EntryBytes(list[k])
  IN put

ListLens(list) ==
  LET len[k \in 0 .. Len(list)] ==
        IF k = 0 THEN SerialLen[Len(list)] ELSE len[k - 1] + EntryLen(list[k])
  IN len

ElementBytes(p) == IF p \in data THEN ListBytes(Entries[p])[Len(Entries[p])] ELSE <<>>

ElementLen(p) == IF p \in data THEN ListLens(Entries[p])[Len(Entries[p])] ELSE 0

-------------------------------------------------------------------------------

Visits == {x \in nodes \X Nat : x[2] <= Len(nested[x[1]])}

All(p) == <<p, Len(nested[p])>>

Kid(p, i) == Append(p, nested[p][i])

(* altered: a child's length is taken to fit in one byte *)
KidLenShort(l) == l + 2

(* a child: its length, its image, its character *)
KidLen(l) == SerialLen[l] + l + 1

(* wordtree::GetBufLen *)
BufLens[x \in Visits] ==
  IF x[2] = 0 THEN CountBytes
  ELSE LET kid == Kid(x[1], x[2])
       IN BufLens[<<x[1], x[2] - 1>>] + KidLen(BufLens[All(kid)] + ElementLen(kid))

(* it leaves the length in every node *)
BufLen(p) == BufLens[All(p)] + ElementLen(p)

(* wordtree::Serialize *)
Images[x \in Visits] ==
  IF x[2] = 0 THEN StoreCount(x[1])
  ELSE LET kid == Kid(x[1], x[2])
       IN Images[<<x[1], x[2] - 1>>]
            \o (<<Last(kid)>> \o (Serial[BufLen(kid)] \o (Images[All(kid)] \o ElementBytes(kid))))

Image(p) == Images[All(p)] \o ElementBytes(p)

(* altered: the byte that holds the child's character is not counted *)
KidOffsetShort(offset, kid) == offset + SerialLen[BufLen(kid)]

(* where a child's image starts *)
KidOffset(offset, kid) == offset + 1 + SerialLen[BufLen(kid)]

(* the action on a node's element, when its children are done *)
Acted(p, kids) ==
  [offset |-> kids.offset + ElementLen(p),
   calls  |-> IF p \in data THEN Append(kids.calls, [key |-> p, offset |-> kids.offset]) ELSE kids.calls]

(* a visit of a node whose image starts at the third part *)
Ways == {y \in nodes \X Nat \X Nat : y[2] <= Len(nested[y[1]])}

(* wordtree::Enumerate: the elements with their offsets, children first *)
Enumerated[x \in Ways] ==
  IF x[2] = 0 THEN [offset |-> x[3] + CountBytes, calls |-> <<>>]
  ELSE LET kid == Kid(x[1], x[2])
           before == Enumerated[<<x[1], x[2] - 1, x[3]>>]
           kids == Enumerated[<<kid, Len(nested[kid]), KidOffset(before.offset, kid)>>]
       IN [Acted(kid, kids) EXCEPT !.calls = before.calls \o @]

Enumerate(p, offset) == Acted(p, Enumerated[<<p, Len(nested[p]), offset>>])

-------------------------------------------------------------------------------
(* CreateDict: the offset of every entry, and the index of lexemes *)

(* altered: the entries are counted from the start of the list, not behind its *)
(* own count                                                                    *)
EntryOffsetsUncounted(key, offset) ==
  [i \in DOMAIN Entries[key] |->
     [lid |-> Entries[key][i].lid,
      offset |-> offset + ListLens(Entries[key])[i - 1] - SerialLen[Len(Entries[key])]]]

EntryOffsets(key, offset) ==
  [i \in DOMAIN Entries[key] |->
     [lid |-> Entries[key][i].lid, offset |-> offset + ListLens(Entries[key])[i - 1]]]

AllEntries ==
  LET calls == Enumerate(<<>>, 0).calls
  IN FlattenSeq([i \in DOMAIN calls |-> EntryOffsets(calls[i].key, calls[i].offset)])

(* lidstree: a lexeme of several stems keeps the offset assigned last *)
LidsTree ==
  [l \in {e.lid : e \in ToSet(AllEntries)} |->
     AllEntries[Max({i \in DOMAIN AllEntries : AllEntries[i].lid = l})].offset]

-------------------------------------------------------------------------------
(* Readers.  A cursor is an offset; a reader returns the value and the cursor. *)

(* what stands behind the image is not the dictionary's, and taken for zero *)
Byte(img, pos) == IF pos < Len(img) THEN img[pos + 1] ELSE 0

(* counter<T>::getvalue and its two parts *)
CountAt(img, pos) ==
  LET v == Byte(img, pos) + (IF index THEN 256 * Byte(img, pos + 1) ELSE 0)
  IN [upper |-> v >= Upper, lower |-> v % Upper, next |-> pos + CountBytes]

(* getserial *)
SerialAt(img) ==
  LET get[pos \in Nat] ==
        IF Byte(img, pos) < 128 THEN [value |-> Byte(img, pos), next |-> pos + 1]
        ELSE [value |-> Byte(img, pos) - 128 + 128 * get[pos + 1].value, next |-> get[pos + 1].next]
  IN get

(* one child of a node: its character, where its image starts and ends *)
ChildAt(img, pos) ==
  LET s == SerialAt(img)[pos + 1]
  IN [char |-> Byte(img, pos), sub |-> s.next, next |-> s.next + s.value]

(* RecursGetTrack goes into a child when there is no offset to look for or the *)
(* offset is in the child's image, its end included                            *)
Enters(dicpos, c) == dicpos = -1 \/ (dicpos >= c.sub /\ dicpos <= c.next)

(* the action on a node's element, which stands where its children end *)
Offered(node, path, kids) ==
  IF node.upper THEN Append(kids.calls, [key |-> path, offset |-> kids.next]) ELSE kids.calls

(* A cursor: an offset, how many children of the node x[3] are still to be      *)
(* passed from there, the node.  The next two: into the child, and behind it.   *)
Counts == 0 .. 32767

Cursors == Nat \X Counts \X Seq(0 .. 255)

KidOf(img, x) ==
  LET c == ChildAt(img, x[1])
      node == CountAt(img, c.sub)
  IN <<node.next, node.lower, Append(x[3], c.char)>>

NextOf(img, x) == <<ChildAt(img, x[1]).next, x[2] - 1, x[3]>>

(* what the child gives to the action, when the walk through it gives kids *)
CallsOf(img, dicpos, x, kids) ==
  LET c == ChildAt(img, x[1])
  IN IF Enters(dicpos, c) THEN Offered(CountAt(img, c.sub), Append(x[3], c.char), kids) ELSE <<>>

(* RecursGetTrack from a cursor on: where it comes to, and the list and the     *)
(* stem of each call of the action                                              *)
Tracked(img, dicpos) ==
  LET walk[x \in Cursors] ==
        IF x[2] = 0 THEN [next |-> x[1], calls |-> <<>>]
        ELSE [next  |-> walk[NextOf(img, x)].next,
              calls |-> CallsOf(img, dicpos, x, walk[KidOf(img, x)]) \o walk[NextOf(img, x)].calls]
  IN walk

Track(img, dicpos) ==
  LET root == CountAt(img, 0)
  IN Offered(root, <<>>, Tracked(img, dicpos)[<<root.next, root.lower, <<>>>>])

(* one entry of a list, and where it ends *)
EntryAt(img, pos) ==
  LET lid == SerialAt(img)[pos + 2]
      post == Byte(img, lid.next + 1) >= 128
  IN [lid |-> lid.value, next |-> lid.next + 2 + (IF post THEN 1 + Byte(img, lid.next + 2) ELSE 0)]

(* listTracer's cursor in a list, after k of its entries *)
ListAt(img, pos) ==
  LET count == SerialAt(img)[pos]
      next[k \in 0 .. count.value] == IF k = 0 THEN count.next ELSE EntryAt(img, next[k - 1]).next
  IN next

(* listTracer's answer for a list: the entry at the offset, lexeme 0 when the  *)
(* list ends behind the offset and has no entry there, {} for 0, go on          *)
Traced(img, c, dicpos) ==
  LET count == SerialAt(img)[c.offset].value
      here == {k \in 1 .. count : ListAt(img, c.offset)[k - 1] = dicpos}
  IN IF here # {} THEN {[key |-> c.key, lid |-> EntryAt(img, dicpos).lid]}
     ELSE IF ListAt(img, c.offset)[count] > dicpos THEN {[key |-> c.key, lid |-> 0]}
     ELSE {}

(* What BuildForm reaches from an offset of the index: the first answer that    *)
(* is not 0.                                                                    *)
Reached(img, dicpos) ==
  LET calls == Track(img, dicpos)
      answered == {i \in DOMAIN calls : Traced(img, calls[i], dicpos) # {}}
  IN IF answered = {} THEN {} ELSE Traced(img, calls[Min(answered)], dicpos)

-------------------------------------------------------------------------------

(* GetBufLen tells the bytes Serialize writes, for every node: the reader      *)
(* jumps over a child by the length stored with it (wordtree.h:130).  And the  *)
(* offsets Enumerate gives the builder are where the reader of the image finds *)
(* the elements, each under the key it was inserted with (scandict.h:145-172). *)
TraversalsAgree ==
  /\ \A p \in nodes : Len(Image(p)) = BufLen(p)
  /\ Track(Image(<<>>), -1) = Enumerate(<<>>, 0).calls

(* From every offset of the index the search comes to an entry of that lexeme, *)
(* under a key that really has it (buildmorph.h:112-123, mlmamain.cpp:249-262).*)
LeadsHome ==
  LET img == Image(<<>>)
      lids == LidsTree
  IN \A l \in DOMAIN lids : \E key \in known :
       /\ Reached(img, lids[l]) = {[key |-> key, lid |-> l]}
       /\ \E i \in DOMAIN Entries[key] : Entries[key][i].lid = l

(* While the tree is built, after every insertion: the three functions that    *)
(* traverse it and the reader of its image agree to the byte.                  *)
LengthsAgree == pc = "build" /\ ~busy => TraversalsAgree

(* ... and so does the index of lexemes made from it. *)
IndexLeadsHome == pc = "build" /\ ~busy => LeadsHome
===============================================================================
