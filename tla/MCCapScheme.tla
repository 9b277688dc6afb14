------------------------------ MODULE MCCapScheme ------------------------------
(* Every word of up to six letters and hyphens, short words with a character   *)
(* that is neither, words of five parts, whose scheme runs over the low byte,  *)
(* and one of seventeen, whose last shift is undefined.  The forms are all     *)
(* those of up to eight characters with a letter in every part.  The short     *)
(* buffers are full before, at and after a hyphen.                             *)
EXTENDS CapScheme, SequencesExt

MCWords ==
  BoundedSeq({"A", "a", "-"}, 6) \cup BoundedSeq(Kinds, 3)
  \cup {<<a, "-", b, "-", c, "-", d, "-", e>> : a, b, c, d, e \in {"A", "a"}}
  \cup {[i \in 1 .. 33 |-> IF i % 2 = 0 THEN "-" ELSE "A"]}

MCForms ==
  {w \in BoundedSeq({"a", "-"}, 8) :
     w # <<>> /\ \A p \in 0 .. Hyphens(w) : Letters(w, p) # {}}
===============================================================================
