-------------------------------- MODULE Option --------------------------------
(* Rust's None and Iterator::filter, in the models of the readers. *)
EXTENDS Integers, Sequences

CONSTANT None

\* The elements of s at the positions in ps, in order.
Filter(s, ps) ==
    LET f[n \in 0..Len(s)] ==
            IF n = 0 THEN <<>> ELSE IF n \in ps THEN Append(f[n - 1], s[n]) ELSE f[n - 1]
    IN f[Len(s)]
===============================================================================
