-------------------------- MODULE LatestFrozenVotes --------------------------
(***************************************************************************)
(* Which validator votes reach fork choice: the latest vote for a frozen   *)
(* bank per validator, from gossip and from replay                         *)
(* (core/src/latest_validator_votes_for_frozen_banks.rs), and the gossip   *)
(* votes that wait for their bank to be frozen                             *)
(* (core/src/unfrozen_gossip_verified_vote_hashes.rs).  A block is a key   *)
(* <<slot, hash>>; a duplicate slot has several.                           *)
(***************************************************************************)
EXTENDS Integers, Sequences, Functions

CONSTANTS Pubkeys, Blocks, MaxRoot

VARIABLES max_gossip_frozen_votes,  \* pubkey -> [slot, hashes]
          max_replay_frozen_votes,
          fork_choice_dirty_set,
          votes_per_slot,           \* pending gossip votes <<slot, hash, pubkey>>
          bank,                     \* slot -> hash of our frozen version
          contains_block,           \* blocks in fork choice
          root,
          gossip_votes,             \* every vote gossip has brought
          new_votes                 \* every vote handed to fork choice

votesVars == <<max_gossip_frozen_votes, max_replay_frozen_votes, fork_choice_dirty_set,
               votes_per_slot>>
vars == <<votesVars, bank, contains_block, root, gossip_votes, new_votes>>

NoHash == -1
Slots == {k[1] : k \in Blocks}
Votes == Blocks \X Pubkeys

Put(map, pk, value) ==
    [p \in DOMAIN map \cup {pk} |-> IF p = pk THEN value ELSE map[p]]
Latest(map, pk) ==
    IF pk \in DOMAIN map THEN map[pk] ELSE [slot |-> -1, hashes |-> {}]
-----------------------------------------------------------------------------
(* check_add_vote: what it does to the map, and whether it is in the dirty set *)

IsNewerSlot(map, pk, slot) == slot > Latest(map, pk).slot

\* Mutant: a version of an older slot is added to the latest one.
IsAnotherVersion_AnySlot(map, pk, slot, hash) == hash \notin Latest(map, pk).hashes

IsAnotherVersion(map, pk, slot, hash) ==
    slot = Latest(map, pk).slot /\ hash \notin Latest(map, pk).hashes

was_added(map, pk, slot, hash) ==
    hash # NoHash /\ (IsNewerSlot(map, pk, slot) \/ IsAnotherVersion(map, pk, slot, hash))

\* Mutant: an older vote replaces a newer one.
check_add_vote_Any(map, pk, slot, hash) ==
    IF hash = NoHash THEN map ELSE Put(map, pk, [slot |-> slot, hashes |-> {hash}])

check_add_vote(map, pk, slot, hash) ==
    CASE ~was_added(map, pk, slot, hash) -> map
      [] was_added(map, pk, slot, hash) /\ IsNewerSlot(map, pk, slot) ->
           Put(map, pk, [slot |-> slot, hashes |-> {hash}])
      [] OTHER ->
           Put(map, pk, [slot |-> slot, hashes |-> Latest(map, pk).hashes \cup {hash}])

\* A further version is appended to the pubkey's dirty entry, and the default
\* entry has slot 0.
check_add_dirty(dirty, map, pk, slot, hash) ==
    CASE ~was_added(map, pk, slot, hash) -> dirty
      [] was_added(map, pk, slot, hash) /\ IsNewerSlot(map, pk, slot) ->
           Put(dirty, pk, [slot |-> slot, hashes |-> {hash}])
      [] OTHER ->
           LET entry == IF pk \in DOMAIN dirty THEN dirty[pk]
                        ELSE [slot |-> 0, hashes |-> {}]
           IN Put(dirty, pk, [entry EXCEPT !.hashes = @ \cup {hash}])

\* Mutant: keeps only what is strictly above the root.
take_votes_dirty_set_Above(dirty, root_slot) ==
    {<<dirty[pk].slot, h, pk>> :
        <<h, pk>> \in {<<h, pk>> \in {k[2] : k \in Blocks} \X DOMAIN dirty :
                         dirty[pk].slot > root_slot /\ h \in dirty[pk].hashes}}

take_votes_dirty_set(dirty, root_slot) ==
    {<<dirty[pk].slot, h, pk>> :
        <<h, pk>> \in {<<h, pk>> \in {k[2] : k \in Blocks} \X DOMAIN dirty :
                         dirty[pk].slot >= root_slot /\ h \in dirty[pk].hashes}}
-----------------------------------------------------------------------------
\* A gossip vote, which cluster_info_vote_listener sends once
\* (UnfrozenGossipVerifiedVoteHashes::add_vote).
GossipVote(key, pk) ==
    LET frozen_hash == IF key \in contains_block THEN key[2] ELSE NoHash
        added == was_added(max_gossip_frozen_votes, pk, key[1], frozen_hash)
    IN /\ <<key, pk>> \notin gossip_votes
       /\ gossip_votes' = gossip_votes \cup {<<key, pk>>}
       /\ max_gossip_frozen_votes' =
             check_add_vote(max_gossip_frozen_votes, pk, key[1], frozen_hash)
       /\ votes_per_slot' =
             IF ~added /\ key[1] >= Latest(max_gossip_frozen_votes, pk).slot
             THEN votes_per_slot \cup {<<key[1], key[2], pk>>}
             ELSE votes_per_slot
       /\ UNCHANGED <<max_replay_frozen_votes, fork_choice_dirty_set, bank,
                      contains_block, root, new_votes>>

\* Mutant: the votes that waited for the bank are removed and not counted.
GossipVotesAfterFreeze_Forgot(key, waiting) == max_gossip_frozen_votes

\* Each waiting voter has its own entry, so the order does not matter.
GossipVotesAfterFreeze(key, waiting) ==
    [pk \in DOMAIN max_gossip_frozen_votes \cup waiting |->
        IF pk \in waiting
        THEN check_add_vote(max_gossip_frozen_votes, pk, key[1], key[2])[pk]
        ELSE max_gossip_frozen_votes[pk]]

\* Mutant: the waiting votes are read and left in place.
remove_slot_hash_Get(key) == votes_per_slot

remove_slot_hash(key) == {v \in votes_per_slot : <<v[1], v[2]>> # key}

\* replay_active_banks: the bank enters fork choice and its waiting votes count.
FreezeBank(key) ==
    LET waiting == {pk \in Pubkeys : <<key[1], key[2], pk>> \in votes_per_slot}
    IN /\ key[1] > root /\ bank[key[1]] = NoHash
       /\ bank' = [bank EXCEPT ![key[1]] = key[2]]
       /\ contains_block' = contains_block \cup {key}
       /\ votes_per_slot' = remove_slot_hash(key)
       /\ max_gossip_frozen_votes' = GossipVotesAfterFreeze(key, waiting)
       /\ UNCHANGED <<max_replay_frozen_votes, fork_choice_dirty_set, root,
                      gossip_votes, new_votes>>

\* dump_then_repair_correct_slots: our version of a duplicate slot goes.
DumpBank(slot) ==
    /\ slot > root /\ bank[slot] # NoHash
    /\ bank' = [bank EXCEPT ![slot] = NoHash]
    /\ UNCHANGED <<votesVars, contains_block, root, gossip_votes, new_votes>>

\* collect_vote_lockouts adds the last vote of a vote account of the bank, by
\* slot alone, and fork choice then takes the dirty set.  Vote accounts do not
\* share entries: one account per step.
compute_bank_stats(pk, last_landed_voted_slot) ==
    LET hash == bank[last_landed_voted_slot]
        dirty == check_add_dirty(fork_choice_dirty_set, max_replay_frozen_votes, pk,
                                 last_landed_voted_slot, hash)
    IN /\ max_replay_frozen_votes' =
             check_add_vote(max_replay_frozen_votes, pk, last_landed_voted_slot, hash)
       /\ fork_choice_dirty_set' = <<>>
       /\ new_votes' = new_votes \cup take_votes_dirty_set(dirty, root)
       /\ UNCHANGED <<max_gossip_frozen_votes, votes_per_slot, bank, contains_block,
                      root, gossip_votes>>

\* handle_new_root: fork choice and the pending votes forget what is below.
set_root(slot) ==
    /\ slot > root /\ slot <= MaxRoot /\ bank[slot] # NoHash
    /\ root' = slot
    /\ bank' = [s \in Slots |-> IF s < slot THEN NoHash ELSE bank[s]]
    /\ votes_per_slot' = {v \in votes_per_slot : v[1] >= slot}
    /\ contains_block' = {k \in contains_block : k[1] > slot \/ k = <<slot, bank[slot]>>}
    /\ UNCHANGED <<max_gossip_frozen_votes, max_replay_frozen_votes,
                   fork_choice_dirty_set, gossip_votes, new_votes>>
-----------------------------------------------------------------------------
Init ==
    /\ max_gossip_frozen_votes = <<>> /\ max_replay_frozen_votes = <<>>
    /\ fork_choice_dirty_set = <<>> /\ votes_per_slot = {}
    /\ bank = [s \in Slots |-> NoHash] /\ contains_block = {} /\ root = 0
    /\ gossip_votes = {} /\ new_votes = {}

Next == \/ \E k \in Blocks : FreezeBank(k) \/ \E pk \in Pubkeys : GossipVote(k, pk)
        \/ \E s \in Slots : \/ DumpBank(s) \/ set_root(s)
                            \/ \E pk \in Pubkeys : compute_bank_stats(pk, s)

Spec == Init /\ [][Next]_vars
-----------------------------------------------------------------------------
\* Types; pending votes are votes gossip brought.
TypeOK ==
    /\ \A map \in {max_gossip_frozen_votes, max_replay_frozen_votes, fork_choice_dirty_set} :
          /\ DOMAIN map \subseteq Pubkeys
          /\ \A pk \in DOMAIN map : \A h \in map[pk].hashes : <<map[pk].slot, h>> \in Blocks
    /\ \A v \in votes_per_slot : <<(<<v[1], v[2]>>), v[3]>> \in gossip_votes
    /\ bank \in [Slots -> {k[2] : k \in Blocks} \cup {NoHash}]
    /\ contains_block \subseteq Blocks /\ root \in 0..MaxRoot

\* No gossip vote is lost, whether it came before or after its bank was
\* frozen: it counts, or a vote of the same validator for a later slot does.
GossipVoteCounts ==
    \A <<key, pk>> \in gossip_votes : key \in contains_block =>
        LET latest == Latest(max_gossip_frozen_votes, pk)
        IN latest.slot > key[1] \/ (latest.slot = key[1] /\ key[2] \in latest.hashes)

\* A vote waits only while its bank is not frozen, as the comment in add_vote
\* says: a bank frozen twice does not count a vote twice.
WaitingVotesAreUnfrozen ==
    \A v \in votes_per_slot : <<v[1], v[2]>> \notin contains_block

\* The latest replayed vote of every validator was handed to fork choice, for
\* one version of its slot at least, unless its slot was below the root.
LatestVoteIsDelivered ==
    \A pk \in DOMAIN max_replay_frozen_votes :
        LET latest == max_replay_frozen_votes[pk]
        IN latest.slot >= root => \E h \in latest.hashes : <<latest.slot, h, pk>> \in new_votes

\* What the struct's comment says of fork_choice_dirty_set: an update of the
\* latest votes, a further version of the same slot included, reaches fork
\* choice.
EveryVersionIsDelivered ==
    \A pk \in DOMAIN max_replay_frozen_votes :
        LET latest == max_replay_frozen_votes[pk]
        IN latest.slot >= root => \A h \in latest.hashes : <<latest.slot, h, pk>> \in new_votes

\* The latest vote of a validator never moves to an earlier slot, and the
\* versions voted for in a slot are only added to.
LatestVotesAdvance ==
    [][\A pk \in Pubkeys :
         /\ LET old == Latest(max_replay_frozen_votes, pk)
                new == Latest(max_replay_frozen_votes', pk)
            IN new.slot > old.slot \/ (new.slot = old.slot /\ old.hashes \subseteq new.hashes)
         /\ LET old == Latest(max_gossip_frozen_votes, pk)
                new == Latest(max_gossip_frozen_votes', pk)
            IN new.slot > old.slot \/ (new.slot = old.slot /\ old.hashes \subseteq new.hashes)]_vars
=============================================================================
