------------------------------ MODULE MCStream ------------------------------
(* A small instance of LazyStream for TLC.  Lists have one element at most *)
(* so that drop_while(p) is filter(not p) indeed, and there is one map and *)
(* one predicate: what is left to differ is the order of the two.          *)
EXTENDS LazyStream, TLC

ShortLists == UNION {[1..n -> Elements] : n \in 0..1}
OneMapper == {[x \in Elements |-> IF x = 2 THEN 1 ELSE x]}
OneTest == {{1}}
=============================================================================
