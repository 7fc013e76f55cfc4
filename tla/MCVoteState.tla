---------------------------- MODULE MCVoteState -----------------------------
(* Instances of VoteState for TLC.                                         *)
EXTENDS VoteState, SequencesExt

MCPow2 == [c \in 0..MAX_LOCKOUT_HISTORY |-> 2^c]

Slots == 0..(MaxSlot - 1)

(* Every Vote of one or two slots, ordered or not, right hash or not, and  *)
(* votes of one slot with a timestamp.                                     *)
Votes ==
  {[slots |-> s, hash |-> h, timestamp |-> -1] :
     s \in BoundedSeq(Slots, 2), h \in Slots}
  \cup {[slots |-> <<s>>, hash |-> s, timestamp |-> t] : s \in Slots, t \in {1, 2}}

Counts == 0..(MAX_LOCKOUT_HISTORY + 1)

(* The slots S in increasing order with the counts C in decreasing order.  *)
OrderedTower(S, C) ==
  LET slots  == SetToSortSeq(S, LAMBDA a, b : a < b)
      counts == SetToSortSeq(C, LAMBDA a, b : a > b)
  IN  [i \in 1..Cardinality(S) |->
         [slot |-> slots[i], confirmation_count |-> counts[i]]]

(* Towers of up to two votes with any slots and counts, and the ordered    *)
(* ones with more votes, one too many included.                            *)
Towers ==
  BoundedSeq([slot : Slots, confirmation_count : Counts], 2) \cup
  UNION {{OrderedTower(S, C) : S \in kSubset(n, Slots), C \in kSubset(n, Counts)} :
         n \in 3..(MAX_LOCKOUT_HISTORY + 1)}

(* With the hash of the last slot, or the hash of slot 0. *)
Updates ==
  UNION {{[lockouts |-> l, root |-> r, hash |-> h, timestamp |-> -1] :
            r \in Slots \cup {NoSlot}, h \in {0} \cup {v.slot : v \in {Last(l)}}} :
         l \in Towers \ {<<>>}}
  \cup {[lockouts |-> <<>>, root |-> NoSlot, hash |-> 0, timestamp |-> -1]}

=============================================================================
