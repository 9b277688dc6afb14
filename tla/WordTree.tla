------------------------------- MODULE WordTree -------------------------------
(***************************************************************************)
(* The dictionary builder's character tree, wordtree<element, counter>     *)
(* (tools/wordtree.h).  Insert walks down from the root, one character per *)
(* level, and creates what is missing on its way; the key's last node gets *)
(* an element.  A node is named by the path of characters that leads to    *)
(* it; nested[p] are the characters of its children in the order of the    *)
(* vector.  The image of the tree is read by a scan that stops at the      *)
(* first child below the character it looks for, so the order matters.     *)
(***************************************************************************)
EXTENDS Integers, Sequences

CONSTANTS Chars,     \* the characters of the keys, as unsigned bytes
          Keys       \* the keys that may be inserted

ASSUME CharsAssumption == Chars \subseteq 0 .. 255

ASSUME KeysAssumption == Keys \subseteq Seq(Chars)

VARIABLES
  nodes,    \* paths of the nodes there are
  nested,   \* nested[p]: the children of node p, as they stand in its vector
  data,     \* paths of the nodes with an element (p_data is not null)
  at,       \* the node Insert has reached
  rest,     \* the characters it still has to go
  busy,     \* a call of Insert is running
  goal,     \* the key it was called with
  known     \* the keys inserted so far (what the tree is to hold)

treeVars == <<nodes, nested, data, at, rest, busy, goal, known>>

-------------------------------------------------------------------------------

(* ptrtop after the loop: the first child that is not above the character *)
Place(cs, c) ==
  CHOOSE i \in 1 .. Len(cs) + 1 :
    /\ \A j \in 1 .. i - 1 : cs[j] > c
    /\ i <= Len(cs) => cs[i] <= c

(* altered: a new child goes to the end of the vector *)
EmplacedLast(cs, i, c) == Append(cs, c)

(* altered: the child that stands at the place is overwritten *)
EmplacedOver(cs, i, c) == [j \in 1 .. (IF i > Len(cs) THEN i ELSE Len(cs)) |-> IF j = i THEN c ELSE cs[j]]

(* vector::emplace: c at place i, the rest of the vector behind it *)
Emplaced(cs, i, c) ==
  [j \in 1 .. Len(cs) + 1 |->
     IF j < i THEN cs[j] ELSE IF j = i THEN c ELSE cs[j - 1]]

(* altered: the child's character is not compared *)
PresentAny(cs, i, c) == i <= Len(cs)

Present(cs, i, c) == i <= Len(cs) /\ cs[i] = c

-------------------------------------------------------------------------------

TreeInit ==
  /\ nodes = {<<>>}
  /\ nested = [p \in nodes |-> <<>>]
  /\ data = {}
  /\ at = <<>> /\ rest = <<>> /\ goal = <<>> /\ busy = FALSE
  /\ known = {}

(* wordtree::Insert( key ) on the root *)
Insert(key) ==
  /\ ~busy /\ busy' = TRUE
  /\ at' = <<>> /\ rest' = key /\ goal' = key
  /\ UNCHANGED <<nodes, nested, data, known>>

(* the call one level down, on the child that was found or emplaced *)
Descend ==
  /\ busy /\ rest # <<>>
  /\ LET c == Head(rest)
         i == Place(nested[at], c)
         child == Append(at, c)
     IN /\ IF Present(nested[at], i, c)
             THEN UNCHANGED <<nodes, nested>>
             ELSE /\ nodes' = nodes \cup {child}
                  /\ nested' = [p \in nodes' |->
                                  IF p = child THEN <<>>
                                  ELSE IF p = at THEN Emplaced(nested[at], i, c)
                                  ELSE nested[p]]
        /\ at' = child
        /\ rest' = Tail(rest)
  /\ UNCHANGED <<data, busy, goal, known>>

(* altered: the element goes to the node the walk left last *)
StoreAtParent ==
  /\ busy /\ rest = <<>> /\ busy' = FALSE
  /\ data' = data \cup {IF at = <<>> THEN at ELSE SubSeq(at, 1, Len(at) - 1)}
  /\ known' = known \cup {goal}
  /\ UNCHANGED <<nodes, nested, at, rest, goal>>

(* altered: the call returns only when it had to make the element *)
StoreOnce ==
  /\ busy /\ rest = <<>> /\ busy' = FALSE /\ at \notin data
  /\ data' = data \cup {at}
  /\ known' = known \cup {goal}
  /\ UNCHANGED <<nodes, nested, at, rest, goal>>

(* no characters left: the node has an element from here on *)
Store ==
  /\ busy /\ rest = <<>> /\ busy' = FALSE
  /\ data' = data \cup {at}
  /\ known' = known \cup {goal}
  /\ UNCHANGED <<nodes, nested, at, rest, goal>>

TreeNext ==
  \/ \E key \in Keys : Insert(key)
  \/ Descend
  \/ Store

TreeSpec == TreeInit /\ [][TreeNext]_treeVars /\ WF_treeVars(Descend \/ Store)

-------------------------------------------------------------------------------

(* Nodes, their vectors and the walk of Insert are what their types say. *)
TreeTypeOK ==
  /\ nodes \subseteq Seq(Chars)
  /\ nested \in [nodes -> Seq(Chars)]
  /\ data \subseteq nodes
  /\ at \in nodes /\ rest \in Seq(Chars) /\ goal \in Seq(Chars)
  /\ busy \in BOOLEAN
  /\ known \subseteq Seq(Chars)

(* The children of every node stand in falling order of their characters, no   *)
(* character twice, whatever was inserted before and in whatever order: the    *)
(* early exit of scan_stack::findchar (scandict.h:76) relies on it.            *)
Descending ==
  \A p \in nodes : \A i, j \in 1 .. Len(nested[p]) : i < j => nested[p][i] > nested[p][j]

(* Vectors and nodes are the same tree: a child is listed by its parent and a  *)
(* listed child exists, also while Insert is half way (wordtree.h:83-92).      *)
Linked ==
  /\ <<>> \in nodes
  /\ \A p \in nodes : \A i \in 1 .. Len(nested[p]) : Append(p, nested[p][i]) \in nodes
  /\ \A p \in nodes \ {<<>>} :
       \E q \in nodes : \E i \in 1 .. Len(nested[q]) : p = Append(q, nested[q][i])

(* Every key inserted has an element at its own path and no other node has.    *)
ElementsAtKeys == data = known

(* The node reached and the characters still to go make up the key. *)
OnTheWay == busy => at \o rest = goal

(* The tree at every step of every Insert, half way down included: one tree,   *)
(* in falling order, with the elements of the keys inserted and of no others   *)
(* (wordtree.h:78-99).                                                         *)
TreeInv ==
  /\ TreeTypeOK
  /\ Descending
  /\ Linked
  /\ ElementsAtKeys
  /\ OnTheWay
===============================================================================
