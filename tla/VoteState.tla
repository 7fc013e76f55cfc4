----------------------------- MODULE VoteState ------------------------------
(***************************************************************************)
(* The on-chain vote state of one validator on one fork                    *)
(* (programs/vote/src/vote_state/mod.rs).  The fork is a chain of banks;   *)
(* each bank carries the SlotHashes sysvar of its ancestors.  Two          *)
(* instructions change the tower: Vote, which pushes slots one at a time,  *)
(* and UpdateVoteState, which replaces the whole tower after checking that *)
(* the replacement rolls nothing back.                                     *)
(*                                                                         *)
(* A bank hash is represented by the slot it belongs to: on one fork a     *)
(* slot has one hash, and a vote for another version of the slot carries   *)
(* the hash of something else.                                             *)
(***************************************************************************)
EXTENDS Lockouts, Retain, Functions

CONSTANTS
  MAX_EPOCH_CREDITS_HISTORY, \* 64 in the code
  MAX_ENTRIES,               \* SlotHashes entries kept (512 in the code)
  SLOTS_PER_EPOCH,
  MaxSlot,                   \* bound: last slot of the modelled chain
  VoteInputs,                \* bound: Vote instructions that are tried
  UpdateInputs               \* bound: UpdateVoteState instructions tried

ASSUME VoteStateAssumption ==
  /\ MAX_EPOCH_CREDITS_HISTORY \in Nat \ {0}
  /\ MAX_ENTRIES \in Nat \ {0}
  /\ SLOTS_PER_EPOCH \in Nat \ {0}
  /\ MaxSlot \in Nat
  /\ \A v \in VoteInputs :
       /\ v.slots \in Seq(Slot)
       /\ v.hash \in Slot
       /\ v.timestamp \in Nat \cup {-1}
  /\ \A u \in UpdateInputs :
       /\ u.lockouts \in Seq([slot : Slot, confirmation_count : Nat])
       /\ u.root \in Slot \cup {NoSlot}
       /\ u.hash \in Slot
       /\ u.timestamp \in Nat \cup {-1}

VARIABLES
  bank_slot,   \* slot of the working bank (Clock::slot)
  slot_hashes, \* SlotHashes: ancestor slots, newest first
  ancestors,   \* every ancestor of the bank, including those SlotHashes forgot
  vote_state   \* [votes, root_slot, epoch_credits, last_timestamp]

vars == <<bank_slot, slot_hashes, ancestors, vote_state>>

epoch == bank_slot \div SLOTS_PER_EPOCH

(* earliest_slot_hash_in_history *)
earliest_slot_hash == slot_hashes[Len(slot_hashes)]

EpochCredits == [epoch : Nat, credits : Nat, prev_credits : Nat]

VoteStates ==
  [votes          : Seq(Lockout),
   root_slot      : Slot \cup {NoSlot},
   epoch_credits  : Seq(EpochCredits),
   last_timestamp : [slot : Slot, timestamp : Nat]]

DefaultVoteState ==
  [votes          |-> <<>>,
   root_slot      |-> NoSlot,
   epoch_credits  |-> <<>>,
   last_timestamp |-> [slot |-> 0, timestamp |-> 0]]

(* Bank 1 on top of the genesis bank. *)
Init ==
  /\ bank_slot = 1
  /\ slot_hashes = <<0>>
  /\ ancestors = {0}
  /\ vote_state = DefaultVoteState

----------------------------------------------------------------------------
(* Epoch credits: entries [epoch, credits, prev_credits], newest last.     *)

(* Mutant: a new epoch starts from zero instead of the running total. *)
increment_credits_Reset(credits, e) ==
  IF Len(credits) > 0 /\ credits[Len(credits)].epoch = e
  THEN [credits EXCEPT ![Len(credits)].credits = @ + 1]
  ELSE Append(credits, [epoch |-> e, credits |-> 1, prev_credits |-> 0])

increment_credits(credits, e) ==
  LET n == Len(credits)
      opened ==
        IF n = 0
        THEN <<[epoch |-> e, credits |-> 0, prev_credits |-> 0]>>
        ELSE IF credits[n].epoch = e
        THEN credits
        ELSE IF credits[n].credits = credits[n].prev_credits
        THEN [credits EXCEPT ![n].epoch = e]
        ELSE Append(credits, [epoch        |-> e,
                              credits      |-> credits[n].credits,
                              prev_credits |-> credits[n].credits])
      kept == IF Len(opened) > MAX_EPOCH_CREDITS_HISTORY
              THEN Tail(opened) ELSE opened
  IN  [kept EXCEPT ![Len(kept)].credits = @ + 1]

(* process_timestamp: the new timestamp is accepted. -1 is None. *)
TimestampAccepted(last, slot, timestamp) ==
  \/ timestamp = -1
  \/ /\ slot >= last.slot
     /\ timestamp >= last.timestamp
     /\ slot = last.slot => last.slot = 0 \/ timestamp = last.timestamp

process_timestamp(last, slot, timestamp) ==
  IF timestamp = -1 THEN last ELSE [slot |-> slot, timestamp |-> timestamp]

----------------------------------------------------------------------------
(* The Vote instruction.                                                   *)

process_next_vote_slot(vs, slot, e) ==
  IF NextVoteIgnored(vs.votes, slot)
  THEN vs
  ELSE LET rooted == NextVoteRoots(vs.votes, slot)
       IN  [vs EXCEPT
              !.votes = VotesAfterNextVote(@, slot),
              !.root_slot = IF rooted THEN vs.votes[1].slot ELSE @,
              !.epoch_credits = IF rooted THEN increment_credits(@, e) ELSE @]

(***************************************************************************)
(* The slots that are newer than the last vote must be an ordered          *)
(* selection of SlotHashes, and the hash must be that of the newest one.   *)
(* The walk over SlotHashes also stops once its newest entry is matched,   *)
(* so nothing may follow a vote for that entry.                            *)
(***************************************************************************)
check_slots_are_valid(votes, slots, hash) ==
  LET fresh == Retain(slots, {i \in DOMAIN slots : slots[i] > last_voted_slot(votes)})
  IN  /\ fresh # <<>>
      /\ \A i \in 1..(Len(fresh) - 1) : fresh[i] < fresh[i + 1]
      /\ Range(fresh) \subseteq Range(slot_hashes)
      /\ fresh[Len(fresh)] = Head(slot_hashes) =>
           slots[Len(slots)] = fresh[Len(fresh)]
      /\ hash = fresh[Len(fresh)]

(* Pushes the slots of a vote, one after the other. *)
process_vote_slots(vs, slots, e) ==
  LET after[k \in 0..Len(slots)] ==
        IF k = 0 THEN vs
        ELSE process_next_vote_slot(after[k - 1], slots[k], e)
  IN  after[Len(slots)]

(***************************************************************************)
(* Slots that SlotHashes no longer covers are dropped first (feature       *)
(* filter_votes_outside_slot_hashes).                                      *)
(***************************************************************************)
RecentSlots(slots) ==
  Retain(slots, {i \in DOMAIN slots : slots[i] >= earliest_slot_hash})

process_vote(v) ==
  /\ RecentSlots(v.slots) # <<>>
  /\ check_slots_are_valid(vote_state.votes, RecentSlots(v.slots), v.hash)
  /\ \E newest \in Range(v.slots) :
       /\ \A s \in Range(v.slots) : s <= newest
       /\ TimestampAccepted(vote_state.last_timestamp, newest, v.timestamp)
       /\ vote_state' =
            [process_vote_slots(vote_state, RecentSlots(v.slots), epoch)
               EXCEPT !.last_timestamp = process_timestamp(@, newest, v.timestamp)]
  /\ UNCHANGED <<bank_slot, slot_hashes, ancestors>>

----------------------------------------------------------------------------
(* The UpdateVoteState instruction.                                        *)

(* Mutant: slots that SlotHashes skips are taken for old ones. *)
check_update_vote_state_slots_are_valid_LastOnly(u) ==
  /\ u.lockouts # <<>>
  /\ last_voted_slot(u.lockouts) > last_voted_slot(vote_state.votes)
  /\ u.hash = last_voted_slot(u.lockouts)
  /\ u.hash \in Range(slot_hashes)

(***************************************************************************)
(* check_update_vote_state_slots_are_valid: the proposed slots are ordered *)
(* and each is either in SlotHashes or older than all of SlotHashes; the   *)
(* newest is in SlotHashes and its hash matches.                           *)
(***************************************************************************)
check_update_vote_state_slots_are_valid(u) ==
  /\ u.lockouts # <<>>
  /\ last_voted_slot(u.lockouts) > last_voted_slot(vote_state.votes)
  /\ last_voted_slot(u.lockouts) >= earliest_slot_hash
  /\ SlotsOrdered(u.lockouts)
  /\ \A i \in DOMAIN u.lockouts :
       \/ u.lockouts[i].slot < earliest_slot_hash
       \/ u.lockouts[i].slot \in Range(slot_hashes)
  /\ u.hash = last_voted_slot(u.lockouts)

(* A proposed root that SlotHashes no longer covers is replaced. *)
ProposedRoot(u) ==
  IF u.root # NoSlot /\ earliest_slot_hash > u.root
  THEN vote_state.root_slot ELSE u.root

(* Old slots that the vote state does not have either are filtered out. *)
ProposedVotes(u) ==
  Retain(u.lockouts,
         {i \in DOMAIN u.lockouts :
            \/ u.lockouts[i].slot >= earliest_slot_hash
            \/ contains_slot(vote_state.votes, u.lockouts[i].slot)})

(* Mutant: the root of the new tower is not compared with the current one. *)
NewVotesValid_AnyRoot(new_state, new_root) ==
  /\ Len(new_state) <= MAX_LOCKOUT_HISTORY
  /\ \A i \in DOMAIN new_state :
       /\ new_state[i].confirmation_count \in 1..MAX_LOCKOUT_HISTORY
       /\ new_root \notin {NoSlot, 0} => new_state[i].slot > new_root
  /\ SlotsOrdered(new_state)
  /\ ConfirmationsOrdered(new_state)
  /\ LockoutsChained(new_state)

(* Mutant: the new votes are not compared with the new root. *)
NewVotesValid_BelowRoot(new_state, new_root) ==
  /\ Len(new_state) <= MAX_LOCKOUT_HISTORY
  /\ new_root >= vote_state.root_slot
  /\ \A i \in DOMAIN new_state :
       new_state[i].confirmation_count \in 1..MAX_LOCKOUT_HISTORY
  /\ SlotsOrdered(new_state)
  /\ ConfirmationsOrdered(new_state)
  /\ LockoutsChained(new_state)

(* The checks process_new_vote_state makes on the new tower by itself. *)
NewVotesValid(new_state, new_root) ==
  /\ Len(new_state) <= MAX_LOCKOUT_HISTORY
  /\ new_root >= vote_state.root_slot
  /\ \A i \in DOMAIN new_state :
       /\ new_state[i].confirmation_count # 0
       /\ new_state[i].confirmation_count <= MAX_LOCKOUT_HISTORY
       /\ new_root \notin {NoSlot, 0} => new_state[i].slot > new_root
  /\ SlotsOrdered(new_state)
  /\ ConfirmationsOrdered(new_state)
  /\ LockoutsChained(new_state)

(* Mutant: counts must strictly grow. *)
NoRollBack_Strict(new_state, new_root) ==
  \A i \in DOMAIN vote_state.votes, j \in DOMAIN new_state :
    vote_state.votes[i].slot = new_state[j].slot =>
      new_state[j].confirmation_count > vote_state.votes[i].confirmation_count

(***************************************************************************)
(* The walk over both towers.  Each current vote above the new root meets  *)
(* the oldest new vote that is not older than it: the same slot, which     *)
(* must not lose confirmations, or a later slot, which must have expired   *)
(* the current vote.                                                       *)
(***************************************************************************)
NoRollBack(new_state, new_root) ==
  \A i \in DOMAIN vote_state.votes, j \in DOMAIN new_state :
    LET current == vote_state.votes[i]
        new     == new_state[j]
    IN  (/\ current.slot > new_root
         /\ new.slot >= current.slot
         /\ \A k \in 1..(j - 1) : new_state[k].slot < current.slot)
        => IF new.slot = current.slot
           THEN new.confirmation_count >= current.confirmation_count
           ELSE ~ is_locked_out_at_slot(current, new.slot)

process_new_vote_state(new_state, new_root, timestamp) ==
  /\ NewVotesValid(new_state, new_root)
  /\ NoRollBack(new_state, new_root)
  /\ TimestampAccepted(vote_state.last_timestamp,
                       last_voted_slot(new_state), timestamp)
  /\ vote_state' =
       [votes          |-> new_state,
        root_slot      |-> new_root,
        epoch_credits  |-> IF new_root # vote_state.root_slot
                           THEN increment_credits(vote_state.epoch_credits, epoch)
                           ELSE vote_state.epoch_credits,
        last_timestamp |-> process_timestamp(vote_state.last_timestamp,
                                             last_voted_slot(new_state), timestamp)]

process_vote_state_update(u) ==
  /\ check_update_vote_state_slots_are_valid(u)
  /\ process_new_vote_state(ProposedVotes(u), ProposedRoot(u), u.timestamp)
  /\ UNCHANGED <<bank_slot, slot_hashes, ancestors>>

----------------------------------------------------------------------------
(***************************************************************************)
(* The next bank of the fork, at any later slot (the slots between are     *)
(* skipped): its SlotHashes gain the parent and keep MAX_ENTRIES.          *)
(***************************************************************************)
NextBank(slot) ==
  /\ slot > bank_slot
  /\ bank_slot' = slot
  /\ ancestors' = ancestors \cup {bank_slot}
  /\ LET added == <<bank_slot>> \o slot_hashes
     IN  slot_hashes' = SubSeq(added, 1, IF Len(added) > MAX_ENTRIES
                                         THEN MAX_ENTRIES ELSE Len(added))
  /\ UNCHANGED vote_state

(* A rejected instruction changes nothing. *)
Next ==
  \/ \E s \in 1..MaxSlot : NextBank(s)
  \/ \E v \in VoteInputs : process_vote(v)
  \/ \E u \in UpdateInputs : process_vote_state_update(u)

Spec == Init /\ [][Next]_vars

----------------------------------------------------------------------------
(* Types of all variables. *)
TypeOK ==
  /\ bank_slot \in Slot
  /\ slot_hashes \in Seq(Slot)
  /\ ancestors \subseteq Slot
  /\ vote_state \in VoteStates

(***************************************************************************)
(* Whatever mix of Vote and UpdateVoteState instructions built it, the     *)
(* tower fits the stack, is ordered in slots and in confirmations, no vote *)
(* in it was expired by the vote above it, and every vote is newer than    *)
(* the root (a root of 0, the default of a new Tower, is exempt in         *)
(* process_new_vote_state).                                                *)
(***************************************************************************)
TowerWellFormed ==
  LET votes == vote_state.votes
  IN  /\ Len(votes) <= MAX_LOCKOUT_HISTORY
      /\ SlotsOrdered(votes)
      /\ ConfirmationsOrdered(votes)
      /\ LockoutsChained(votes)
      /\ vote_state.root_slot # 0 =>
           \A i \in DOMAIN votes : votes[i].slot > vote_state.root_slot

(***************************************************************************)
(* Every slot in the tower is an ancestor of the bank the instruction ran  *)
(* in: the walks over SlotHashes in check_slots_are_valid and              *)
(* check_update_vote_state_slots_are_valid let no vote for another fork    *)
(* in, although SlotHashes forgets slots that the tower still holds.       *)
(***************************************************************************)
VotesOnThisFork ==
  \A i \in DOMAIN vote_state.votes : vote_state.votes[i].slot \in ancestors

(***************************************************************************)
(* The root is on the fork too, which is what replacing a root that        *)
(* SlotHashes no longer covers is for (check_update_vote_state_slots_are_  *)
(* valid, "cannot verify whether the slot was actually was on this fork"). *)
(***************************************************************************)
RootOnThisFork == vote_state.root_slot \in ancestors \cup {NoSlot}

(***************************************************************************)
(* increment_credits keeps a history rewards can be computed from: epochs  *)
(* increase, an epoch starts from the credits the previous one ended with, *)
(* every recorded epoch earned something, and the history is bounded.      *)
(***************************************************************************)
CreditsChained ==
  LET credits == vote_state.epoch_credits
  IN  /\ Len(credits) <= MAX_EPOCH_CREDITS_HISTORY
      /\ \A i \in DOMAIN credits :
           /\ credits[i].credits > credits[i].prev_credits
           /\ credits[i].epoch <= epoch
      /\ \A i \in 1..(Len(credits) - 1) :
           /\ credits[i].epoch < credits[i + 1].epoch
           /\ credits[i].credits = credits[i + 1].prev_credits

(* Neither instruction moves the root or the last vote backwards. *)
NoBackwardStep ==
  /\ vote_state'.root_slot >= vote_state.root_slot
  /\ last_voted_slot(vote_state'.votes) >= last_voted_slot(vote_state.votes)

NeverBackwards == [][NoBackwardStep]_vars

(***************************************************************************)
(* A vote leaves the tower, or loses confirmations, only if it is covered  *)
(* by the new root or a slot past its lockout has been voted for.          *)
(***************************************************************************)
LockoutsKeptStep ==
  \A i \in DOMAIN vote_state.votes :
    LET v == vote_state.votes[i]
    IN  \/ v.slot <= vote_state'.root_slot
        \/ \E w \in Range(vote_state'.votes) :
             \/ /\ w.slot = v.slot
                /\ w.confirmation_count >= v.confirmation_count
             \/ w.slot > last_locked_out_slot(v)

LockoutsKept == [][LockoutsKeptStep]_vars

(***************************************************************************)
(* The two instructions agree: the tower that process_next_vote_slot       *)
(* builds for one more slot of this fork is accepted unchanged when it is  *)
(* submitted as an UpdateVoteState, provided that SlotHashes still covers  *)
(* its root.                                                               *)
(***************************************************************************)
UpdateAgreesWithVote ==
  \A s \in Range(slot_hashes) :
    LET vs == process_next_vote_slot(vote_state, s, epoch)
        u  == [lockouts |-> vs.votes, root |-> vs.root_slot, hash |-> s]
    IN  (/\ s > last_voted_slot(vote_state.votes)
         /\ vs.root_slot = vote_state.root_slot \/ vs.root_slot >= earliest_slot_hash)
        => /\ check_update_vote_state_slots_are_valid(u)
           /\ ProposedVotes(u) = vs.votes
           /\ ProposedRoot(u) = vs.root_slot
           /\ NewVotesValid(vs.votes, vs.root_slot)
           /\ NoRollBack(vs.votes, vs.root_slot)
=============================================================================
