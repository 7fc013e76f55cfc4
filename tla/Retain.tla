------------------------------- MODULE Retain -------------------------------
(* Vec::retain and Iterator::filter of the Rust standard library.          *)
EXTENDS Integers, Sequences

(* The elements of seq at the indexes in keep, in order. *)
Retain(seq, keep) ==
  LET upto[k \in 0..Len(seq)] ==
        IF k = 0 THEN <<>>
        ELSE IF k \in keep THEN Append(upto[k - 1], seq[k])
        ELSE upto[k - 1]
  IN  upto[Len(seq)]
=============================================================================
