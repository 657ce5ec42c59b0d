-------------------------------- MODULE Filters --------------------------------
(* Array.prototype.filter, for modules that are proved about: by recursion    *)
(* over the positions of the array, and with a set for the condition.         *)
EXTENDS Naturals, Sequences

(* The numbers from 1 to n that are in S, in order.                           *)
InOrder(n, S) ==
    LET upTo[i \in 0..n] ==
            IF i = 0 THEN <<>> ELSE IF i \in S THEN Append(upTo[i - 1], i) ELSE upTo[i - 1]
    IN  upTo[n]

(* The elements of s that stand at the positions in S, in order.              *)
Picked(s, S) ==
    LET at == InOrder(Len(s), S)
    IN  [k \in DOMAIN at |-> s[at[k]]]
===============================================================================
