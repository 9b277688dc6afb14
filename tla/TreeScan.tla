------------------------------- MODULE TreeScan -------------------------------
(***************************************************************************)
(* LinearScanDict (xmorph/scandict.h) over the nodes of the tree instead   *)
(* of its bytes: where DictScan has a cursor in the image, a level here    *)
(* has the node and the number of its children that were passed.  DictScan *)
(* implements it, it implements PrefixSearch.                              *)
(***************************************************************************)
EXTENDS ScanCall

VARIABLE stack     \* astack up to pstack, the level on top last

vars == <<treeVars, index, pc, word, stack, asked, left, answer>>

-------------------------------------------------------------------------------

(* cchstr at a node: it falls with thestr, below 0 too *)
Remaining(w, path) == (Len(w) - Len(path)) % SizeMod

(* scan_stack::setlevel: the levels it may leave *)
SetLevel(w, path) ==
  {[path |-> path, chfind |-> c, passed |-> 0] : c \in Sought(w, Len(path), Remaining(w, path))}

(* the children at which scan_stack::findchar may stop *)
Stops(lv) ==
  {j \in lv.passed + 1 .. Len(nested[lv.path]) :
     \/ nested[lv.path][j] = lv.chfind
     \/ nested[lv.path][j] < lv.chfind /\ lv.path \notin data}

(* the first of them: it is the child looked for, or one below it *)
StopsAt(lv, j) == j \in Stops(lv) /\ \A i \in Stops(lv) : j <= i

FindsAt(lv, j) == StopsAt(lv, j) /\ nested[lv.path][j] = lv.chfind

Finds(lv) == \E j \in Stops(lv) : FindsAt(lv, j)

-------------------------------------------------------------------------------

Top == stack[Len(stack)]

Below == SubSeq(stack, 1, Len(stack) - 1)

Init ==
  /\ TreeInit
  /\ index \in BOOLEAN
  /\ pc = "build" /\ word = <<>> /\ stack = <<>>
  /\ asked = NoStem /\ left = 0 /\ answer = NoStem

Build == Grow /\ UNCHANGED <<index, pc, word, stack, asked, left, answer>>

Save ==
  /\ pc = "build" /\ ~busy /\ pc' = "saved"
  /\ UNCHANGED <<treeVars, index, word, stack, asked, left, answer>>

LinearScanDict ==
  /\ pc = "saved" /\ pc' = "scan"
  /\ word' \in Words[index]
  /\ \E lv \in SetLevel(word', <<>>) : stack' = <<lv>>
  /\ asked' = NoStem /\ left' = 0 /\ answer' = NoStem
  /\ UNCHANGED <<treeVars, index>>

GoDown ==
  /\ pc = "scan" /\ stack # <<>>
  /\ \E j \in Stops(Top) :
       /\ FindsAt(Top, j)
       /\ \E lv \in SetLevel(word, Append(Top.path, Top.chfind)) :
            stack' = Append([stack EXCEPT ![Len(stack)].passed = j], lv)
  /\ UNCHANGED <<treeVars, index, pc, word, asked, left, answer>>

Offer ==
  /\ pc = "scan" /\ stack # <<>> /\ ~Finds(Top) /\ Top.path \in data
  /\ asked' = Top.path /\ left' = Remaining(word, Top.path)
  /\ \E yes \in Accepts(left') :
       IF yes THEN answer' = asked' /\ pc' = "saved" /\ stack' = <<>>
              ELSE stack' = Below /\ UNCHANGED <<answer, pc>>
  /\ UNCHANGED <<treeVars, index, word>>

GoUp ==
  /\ pc = "scan" /\ stack # <<>> /\ ~Finds(Top) /\ Top.path \notin data
  /\ stack' = Below
  /\ UNCHANGED <<treeVars, index, pc, word, asked, left, answer>>

NotFound ==
  /\ pc = "scan" /\ stack = <<>>
  /\ pc' = "saved"
  /\ UNCHANGED <<treeVars, index, word, stack, asked, left, answer>>

Step == GoDown \/ Offer \/ GoUp \/ NotFound

Next == Build \/ Save \/ LinearScanDict \/ Step

(* of safety only: what the steps lead to is DictScan's *)
Spec == Init /\ [][Next]_vars

-------------------------------------------------------------------------------

OfStems(value, none) == IF index THEN none ELSE value

(* The scan asks the stems the word begins with, longest first, each with what *)
(* is left of the word, and nothing else (scandict.h:90-114).  The index is    *)
(* looked up for one key only, and stands still here.                          *)
Search == INSTANCE PrefixSearch WITH
  Words   <- Words[FALSE],
  stems   <- OfStems(known, {}),
  looking <- OfStems(pc = "scan", FALSE),
  word    <- OfStems(word, <<>>),
  asked   <- OfStems(asked, NoStem),
  left    <- OfStems(left, 0),
  answer  <- OfStems(answer, NoStem)
===============================================================================
