------------------------------- MODULE DictScan -------------------------------
(***************************************************************************)
(* LinearScanDict (xmorph/scandict.h): the lookup of a word in the image   *)
(* of a tree, as the libraries do it.  A stack of levels, one for every    *)
(* character found, each with a cursor in the image that has passed the    *)
(* children compared so far; when no child is left, the node's element     *)
(* stands at the cursor and is offered to the actor.                       *)
(***************************************************************************)
EXTENDS TreeImage

VARIABLES
  image,     \* the bytes of the saved tree
  stemAt,    \* whose element stands at which offset of it (not in the code)
  stack      \* astack up to pstack, the level on top last

scanVars == <<index, pc, image, stemAt, word, stack, asked, left, answer>>

vars == <<treeVars, scanVars>>

-------------------------------------------------------------------------------

(* scan_stack::setlevel: the levels it may leave *)
SetLevel(w, dic, str, cch) ==
  LET n == CountAt(image, dic)
  IN {[str |-> str, cch |-> cch, chfind |-> c, dic |-> n.next, upper |-> n.upper,
       ccount |-> n.lower] : c \in Sought(w, str, cch)}

(* a level; the character is looked for from a child on *)
ScanStack ==
  [str : Nat, cch : Nat, chfind : 0 .. 255, dic : Nat, upper : BOOLEAN, ccount : Counts]

Passed(lv, c) == [lv EXCEPT !.dic = c.next, !.ccount = @ - 1]

(* altered: the early exit is taken in nodes with an element too *)
TooFarHasty(lv, c) == lv.chfind > c.char

(* a node without an element is left at the first child below the character,   *)
(* any other is passed to its end, where its element stands                    *)
TooFar(lv, c) == lv.chfind > c.char /\ ~lv.upper

(* altered: the level goes on with the child it went down to *)
WentDownAgain(lv, c) == [found |-> TRUE, sub |-> c.sub, lv |-> lv]

WentDown(lv, c) == [found |-> TRUE, sub |-> c.sub, lv |-> Passed(lv, c)]

(* scan_stack::findchar: the image of the child with the character, or none *)
FindChar(level) ==
  LET find[lv \in ScanStack] ==
        LET c == ChildAt(image, lv.dic)
        IN IF lv.ccount <= 0 THEN [found |-> FALSE, lv |-> lv]
           ELSE IF lv.chfind = c.char THEN WentDown(lv, c)
           ELSE IF TooFar(lv, c) THEN [found |-> FALSE, lv |-> Passed(lv, c)]
           ELSE find[Passed(lv, c)]
  IN find[level]

-------------------------------------------------------------------------------

Init ==
  /\ TreeInit
  /\ index \in BOOLEAN
  /\ pc = "build" /\ image = <<>> /\ stemAt = [o \in {} |-> NoStem]
  /\ word = <<>> /\ stack = <<>>
  /\ asked = NoStem /\ left = 0 /\ answer = NoStem

Build == Grow /\ UNCHANGED scanVars

(* the tree is dumped and compiled into the library *)
Save ==
  /\ pc = "build" /\ ~busy
  /\ pc' = "saved" /\ image' = Image(<<>>)
  /\ LET calls == ToSet(Enumerate(<<>>, 0).calls)
     IN stemAt' = [o \in {c.offset : c \in calls} |->
                     (CHOOSE c \in calls : c.offset = o).key]
  /\ UNCHANGED <<treeVars, index, word, stack, asked, left, answer>>

LinearScanDict ==
  /\ pc = "saved" /\ pc' = "scan"
  /\ word' \in Words[index]
  /\ \E lv \in SetLevel(word', 0, 0, Len(word')) : stack' = <<lv>>
  /\ asked' = NoStem /\ left' = 0 /\ answer' = NoStem
  /\ UNCHANGED <<treeVars, index, image, stemAt>>

Found == FindChar(Last(stack))

GoDown ==
  /\ pc = "scan" /\ stack # <<>> /\ Found.found
  /\ \E lv \in SetLevel(word, Found.sub, Found.lv.str + 1, (Found.lv.cch - 1) % SizeMod) :
       stack' = Append(Append(Front(stack), Found.lv), lv)
  /\ UNCHANGED <<treeVars, index, pc, image, stemAt, word, asked, left, answer>>

(* an element is named by the stem it was stored under *)
StemAt(offset) == IF offset \in DOMAIN stemAt THEN stemAt[offset] ELSE NoStem

Offer ==
  /\ pc = "scan" /\ stack # <<>> /\ ~Found.found /\ Found.lv.upper
  /\ asked' = StemAt(Found.lv.dic) /\ left' = Found.lv.cch
  /\ \E yes \in Accepts(Found.lv.cch) :
       IF yes THEN answer' = asked' /\ pc' = "saved" /\ stack' = <<>>
              ELSE stack' = Front(stack) /\ UNCHANGED <<answer, pc>>
  /\ UNCHANGED <<treeVars, index, image, stemAt, word>>

GoUp ==
  /\ pc = "scan" /\ stack # <<>> /\ ~Found.found /\ ~Found.lv.upper
  /\ stack' = Front(stack)
  /\ UNCHANGED <<treeVars, index, pc, image, stemAt, word, asked, left, answer>>

NotFound ==
  /\ pc = "scan" /\ stack = <<>>
  /\ pc' = "saved"
  /\ UNCHANGED <<treeVars, index, image, stemAt, word, stack, asked, left, answer>>

Step == GoDown \/ Offer \/ GoUp \/ NotFound

Next == Build \/ Save \/ LinearScanDict \/ Step

Spec == Init /\ [][Next]_vars /\ WF_vars(Step) /\ WF_vars(Build /\ busy)

-------------------------------------------------------------------------------

(* the levels as TreeScan has them: the node that the characters found so far *)
(* lead to, and how many of its children are behind the cursor                 *)
Levels ==
  LET path(k) == [j \in 1 .. k - 1 |-> stack[j].chfind]
  IN [k \in 1 .. Len(stack) |->
        [path   |-> path(k), chfind |-> stack[k].chfind,
         passed |-> Len(nested[path(k)]) - stack[k].ccount]]

Tree == INSTANCE TreeScan WITH stack <- Levels

(* The cursors, counts and flags of the scan on bytes always stand where the   *)
(* scan on nodes is, so what is true of that one is true of this one           *)
(* (scandict.h:57-81).                                                         *)
TreeScanSpec == Tree!Spec

(* The scan asks the stems the word begins with, longest first, each with what *)
(* is left of the word, and nothing else, and comes to an end                  *)
(* (scandict.h:90-114).                                                        *)
PrefixSpec == Tree!Search!Spec

(* Every lookup ends, and so does every Insert. *)
CallsEnd == (busy ~> ~busy) /\ (pc = "scan" ~> pc = "saved")
===============================================================================
