------------------------------ MODULE MCDotFile ------------------------------
(* TLC instances of DotFile over two keys, in sorted order k1, k2.  Every  *)
(* value with a separator has a line of k2 behind it; what comes before it *)
(* is plain or nothing.  A user wrote files with an empty second line of   *)
(* each key, and too large ones.                                           *)
EXTENDS DotFile, FiniteSets, TLC

CONSTANTS w1, w2, k1, k2, plain, empty, split, headless, long

TwoWriters == {w1, w2}
MCKeys == {k1, k2}
MCRank == (k1 :> 1) @@ (k2 :> 2)
MCHead == [v \in Values |-> CASE v = split -> plain [] v = headless -> empty [] OTHER -> v]

All(v) == [k \in MCKeys |-> v]
MCTail ==
  [v \in Values |->
     LET d == IF v \in {split, headless} THEN [All(None) EXCEPT ![k2] = plain] ELSE All(None)
     IN  [first |-> d, last |-> d]]

TooLarge  == [first |-> All(plain), last |-> All(plain), small |-> FALSE]
EmptyLast == [first |-> All(plain), last |-> All(empty), small |-> TRUE]
ByHand == {TooLarge, EmptyLast}

(* The bound of the run: while a value other than plain and split is about *)
(* only one writer is at work.                                             *)
Rare   == {empty, headless, long}
InFile(f) == \E k \in Keys : {f.lines.first[k], f.lines.last[k]} \cap Rare # {}
InJob(w)  == job[w] # None /\ job[w].value \in Rare

RareAlone ==
  InFile(file) \/ InFile(disk) \/ (\E w \in Writers : InJob(w)) =>
    Cardinality({w \in Writers : pc[w] # "idle"}) <= 1

Symmetric == Permutations(TwoWriters)
=============================================================================
