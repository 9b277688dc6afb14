------------------------------ MODULE MCDictScan ------------------------------
(* The stem tree: no key has the character 0.  Keys that are beginnings of     *)
(* each other, so that lists hang on inner nodes; lists of one and two         *)
(* entries; a lexeme with two stems (5), one that takes two bytes (300), and a *)
(* postfix that makes the image of a child longer than the 127 bytes one byte  *)
(* of length can tell.  Words that begin with none, one or several keys, that  *)
(* leave the tree at an inner node with and without an element, below, between *)
(* and above its children.                                                     *)
(*                                                                             *)
(* The lexeme index: the keys lexkeylen makes of the lexemes 1, 256, 65536, 2  *)
(* and 512, and of some that are not in the dictionary.                        *)
EXTENDS DictScan

MCChars == {0, 1, 2, 255}
MCKeysOf ==
  [b \in BOOLEAN |->
     IF b THEN {<<1>>, <<1, 0>>, <<1, 0, 0>>, <<2>>, <<2, 0>>}
          ELSE {<<>>, <<2>>, <<2, 1>>, <<2, 2>>, <<2, 1, 1>>, <<255>>}]
MCKeys == MCKeysOf[TRUE] \cup MCKeysOf[FALSE]

MCEntries ==
  [k \in MCKeys |->
     CASE k = <<>>        -> <<[lid |-> 1, post |-> 0]>>
       [] k = <<2>>       -> <<[lid |-> 5, post |-> 3], [lid |-> 300, post |-> 0]>>
       [] k = <<2, 1>>    -> <<[lid |-> 7, post |-> 0]>>
       [] k = <<2, 2>>    -> <<[lid |-> 5, post |-> 1]>>
       [] k = <<2, 1, 1>> -> <<[lid |-> 8, post |-> 119], [lid |-> 9, post |-> 0]>>
       [] k = <<255>>     -> <<[lid |-> 5, post |-> 0], [lid |-> 10, post |-> 2]>>
       [] OTHER           -> <<[lid |-> 20 + Len(k), post |-> 0]>>]

MCWords ==
  [b \in BOOLEAN |->
     IF b THEN MCKeysOf[TRUE] \cup {<<2, 1>>, <<2, 0, 0>>, <<1, 1>>}
          ELSE {<<>>, <<2>>, <<1, 255>>, <<2, 1>>, <<2, 2, 1>>, <<2, 255, 1>>,
                <<255, 2>>, <<2, 1, 1, 1>>}]
===============================================================================
