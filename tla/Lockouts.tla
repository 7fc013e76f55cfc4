------------------------------ MODULE Lockouts ------------------------------
(***************************************************************************)
(* The lockout stack ("tower") of programs/vote/src/vote_state/mod.rs:     *)
(* a sequence of votes, oldest first, each with a confirmation count that  *)
(* doubles the number of slots for which the vote locks its voter out of   *)
(* other forks.  Pure operators, shared by the on-chain vote state         *)
(* (VoteState) and by the validator's local Tower.                         *)
(***************************************************************************)
EXTENDS Integers, Sequences

CONSTANTS
  MAX_LOCKOUT_HISTORY, \* depth of the stack (31 in the code)
  Pow2                 \* INITIAL_LOCKOUT.pow(c), tabulated for every legal c

(***************************************************************************)
(* INITIAL_LOCKOUT is 2 and confirmation counts stay within                *)
(* 0..MAX_LOCKOUT_HISTORY, so u64::pow never overflows: the table is the   *)
(* powers of two, given by their recurrence.                               *)
(***************************************************************************)
ASSUME LockoutAssumption ==
  /\ MAX_LOCKOUT_HISTORY \in Nat \ {0}
  /\ Pow2 \in [0..MAX_LOCKOUT_HISTORY -> Nat \ {0}]
  /\ Pow2[0] = 1
  /\ \A c \in 1..MAX_LOCKOUT_HISTORY : Pow2[c] = 2 * Pow2[c - 1]

Slot == Nat

(* Option<Slot>::None.  Rust orders None below every Some(slot), as -1 is. *)
NoSlot == -1

Lockout == [slot : Slot, confirmation_count : 1..MAX_LOCKOUT_HISTORY]

NewLockout(slot) == [slot |-> slot, confirmation_count |-> 1]

lockout(v) == Pow2[v.confirmation_count]

last_locked_out_slot(v) == v.slot + lockout(v)

(* Mutant: the lockout ends one slot early. *)
is_locked_out_at_slot_Early(v, slot) == last_locked_out_slot(v) > slot

is_locked_out_at_slot(v, slot) == last_locked_out_slot(v) >= slot

last_voted_slot(votes) ==
  IF votes = <<>> THEN NoSlot ELSE votes[Len(votes)].slot

contains_slot(votes, slot) == \E i \in DOMAIN votes : votes[i].slot = slot

(***************************************************************************)
(* Votes are popped from the back until one is still locked out at the     *)
(* next vote slot; expired votes underneath that one stay.                 *)
(***************************************************************************)
NumUnpopped(votes, slot) ==
  CHOOSE n \in 0..Len(votes) :
    /\ n > 0 => is_locked_out_at_slot(votes[n], slot)
    /\ \A i \in (n + 1)..Len(votes) : ~ is_locked_out_at_slot(votes[i], slot)

pop_expired_votes(votes, slot) == SubSeq(votes, 1, NumUnpopped(votes, slot))

(* Mutant: counts grow one vote too early. *)
double_lockouts_Early(votes) ==
  [i \in DOMAIN votes |->
     IF Len(votes) >= i - 1 + votes[i].confirmation_count
     THEN [votes[i] EXCEPT !.confirmation_count = @ + 1]
     ELSE votes[i]]

(***************************************************************************)
(* The count of a vote grows only when the stack above it is deeper than   *)
(* the count it already has (i is 1-based here, 0-based in the code).      *)
(***************************************************************************)
double_lockouts(votes) ==
  [i \in DOMAIN votes |->
     IF Len(votes) > i - 1 + votes[i].confirmation_count
     THEN [votes[i] EXCEPT !.confirmation_count = @ + 1]
     ELSE votes[i]]

(***************************************************************************)
(* process_next_vote_slot on the two fields it is about: the stack, and    *)
(* the root, which becomes the oldest vote when the stack is full.         *)
(***************************************************************************)
NextVoteIgnored(votes, slot) == slot <= last_voted_slot(votes)

VotesAfterNextVote(votes, slot) ==
  LET kept == pop_expired_votes(votes, slot)
      room == IF Len(kept) = MAX_LOCKOUT_HISTORY THEN Tail(kept) ELSE kept
  IN  double_lockouts(Append(room, NewLockout(slot)))

NextVoteRoots(votes, slot) ==
  Len(pop_expired_votes(votes, slot)) = MAX_LOCKOUT_HISTORY

(***************************************************************************)
(* What process_new_vote_state demands of a tower, and what the iterative  *)
(* process maintains: slots strictly increase, confirmation counts         *)
(* strictly decrease, and no vote is expired by the one after it.          *)
(***************************************************************************)
SlotsOrdered(votes) ==
  \A i \in 1..(Len(votes) - 1) : votes[i].slot < votes[i + 1].slot

ConfirmationsOrdered(votes) ==
  \A i \in 1..(Len(votes) - 1) :
    votes[i].confirmation_count > votes[i + 1].confirmation_count

LockoutsChained(votes) ==
  \A i \in 1..(Len(votes) - 1) :
    votes[i + 1].slot <= last_locked_out_slot(votes[i])
=============================================================================
