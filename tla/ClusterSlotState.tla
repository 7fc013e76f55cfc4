-------------------------- MODULE ClusterSlotState --------------------------
(***************************************************************************)
(* How replay_stage agrees with the cluster on which version of a          *)
(* duplicate slot to keep: core/src/cluster_slot_state_verifier.rs, its    *)
(* callers in core/src/replay_stage.rs, and the fork choice they change.   *)
(* Five kinds of signal about a slot (bank frozen, bank dead, duplicate    *)
(* proof, duplicate confirmation, epoch-slots sample) arrive in any order; *)
(* the wrong version is excluded from fork choice, dumped and repaired.    *)
(*                                                                         *)
(* All signals are handled by the replay thread, one at a time; what is    *)
(* left open is the order in which other threads and the network send      *)
(* them.                                                                   *)
(***************************************************************************)
EXTENDS HeaviestSubtreeForkChoice

CONSTANTS ConfirmedKeys,  \* the blocks the cluster duplicate-confirms
          SampledKeys     \* the blocks an epoch-slots sample may report

VARIABLES bank,                             \* slot -> version in BankForks
          dead,                             \* slots whose bank is dead
          duplicate_slots_tracker,
          gossip_duplicate_confirmed_slots,
          epoch_slots_frozen_slots,
          duplicate_slots_to_repair,
          bank_hash_cf,                     \* Blockstore: slot -> frozen hash
          replay_updates                    \* history: sent to AncestorHashesService
                                            \* about the banks of now

slotVars == <<bank, dead, duplicate_slots_tracker, gossip_duplicate_confirmed_slots,
              epoch_slots_frozen_slots, duplicate_slots_to_repair, bank_hash_cf,
              replay_updates>>
vars == <<fcVars, slotVars>>

Default == -1   \* Hash::default(), the hash of a bank that is not frozen
NoHash  == -2   \* None, and BankStatus::Unprocessed

Slots == {Slot(k) : k \in Blocks}
Hashes == {k[2] : k \in Blocks}

\* The cluster confirms at most one version of a slot, and does not confirm
\* a block on top of another version of a confirmed slot.
Line(key) == {k \in Blocks : LET up[j \in Blocks] ==
                IF j = RootBlock THEN {j} ELSE {j} \cup up[ParentOf[j]]
              IN k \in up[key]}

ASSUME ConfirmedAssumption ==
    \A k \in ConfirmedKeys, j \in ConfirmedKeys : \A a \in Line(j) :
        Slot(a) = Slot(k) => a = k

get(map, slot) == IF slot \in DOMAIN map THEN map[slot] ELSE NoHash
insert(map, slot, value) ==
    [s \in DOMAIN map \cup {slot} |-> IF s = slot THEN value ELSE map[s]]

\* BankStatus::new(..).bank_hash()
bank_hash(slot) == IF slot \in dead THEN Default ELSE bank[slot]

is_duplicate_confirmed(infos, key) ==
    key \in DOMAIN infos /\ infos[key].is_duplicate_confirmed

\* Mutant: forgets what gossip confirmed before the bank was frozen.
get_duplicate_confirmed_hash_Local(infos, slot, hash) ==
    IF is_duplicate_confirmed(infos, <<slot, hash>>) THEN hash ELSE NoHash

\* A confirmation of our own version wins over one heard of in gossip.
get_duplicate_confirmed_hash(infos, slot, hash) ==
    IF is_duplicate_confirmed(infos, <<slot, hash>>) THEN hash
    ELSE get(gossip_duplicate_confirmed_slots, slot)
-----------------------------------------------------------------------------
(* What a signal asks for: ResultingStateChange *)

NoChange == [duplicate |-> FALSE,    \* MarkSlotDuplicate
             repair    |-> NoHash,   \* RepairDuplicateConfirmedVersion
             matches   |-> FALSE,    \* DuplicateConfirmedSlotMatchesCluster
             send      |-> {}]       \* SendAncestorHashesReplayUpdate

\* Mutant: asks for a repair of the version we already have.
check_duplicate_confirmed_hash_against_frozen_hash_Own(confirmed_hash, frozen_hash) ==
    IF confirmed_hash # frozen_hash
    THEN [NoChange EXCEPT !.duplicate = TRUE, !.repair = frozen_hash]
    ELSE [NoChange EXCEPT !.matches = TRUE]

check_duplicate_confirmed_hash_against_frozen_hash(confirmed_hash, frozen_hash) ==
    IF confirmed_hash # frozen_hash
    THEN [NoChange EXCEPT !.duplicate = TRUE, !.repair = confirmed_hash]
    ELSE [NoChange EXCEPT !.matches = TRUE]

check_epoch_slots_hash_against_frozen_hash(sampled_hash, frozen_hash) ==
    IF sampled_hash # frozen_hash
    THEN [NoChange EXCEPT !.duplicate = TRUE, !.repair = sampled_hash]
    ELSE NoChange

\* Mutant: the weaker epoch-slots sample is consulted first.
on_processed_slot_WeakFirst(infos, slot, hash) ==
    LET confirmed == get_duplicate_confirmed_hash(infos, slot, hash)
        sampled == get(epoch_slots_frozen_slots, slot)
    IN CASE sampled # NoHash ->
              check_epoch_slots_hash_against_frozen_hash(sampled, hash)
         [] sampled = NoHash /\ confirmed # NoHash ->
              check_duplicate_confirmed_hash_against_frozen_hash(confirmed, hash)
         [] OTHER -> [NoChange EXCEPT !.duplicate = slot \in duplicate_slots_tracker]

\* Common to on_frozen_slot and on_dead_slot: the strongest confirmation
\* decides, and a known duplicate proof only if there is none.
on_processed_slot(infos, slot, hash) ==
    LET confirmed == get_duplicate_confirmed_hash(infos, slot, hash)
        sampled == get(epoch_slots_frozen_slots, slot)
    IN CASE confirmed # NoHash ->
              check_duplicate_confirmed_hash_against_frozen_hash(confirmed, hash)
         [] confirmed = NoHash /\ sampled # NoHash ->
              check_epoch_slots_hash_against_frozen_hash(sampled, hash)
         [] OTHER -> [NoChange EXCEPT !.duplicate = slot \in duplicate_slots_tracker]

\* Mutant: a proof that came before the bank is forgotten.
on_frozen_slot_NoProof(infos, slot, hash) ==
    LET changes == on_processed_slot(infos, slot, hash)
    IN [changes EXCEPT !.duplicate = changes.repair # NoHash]

on_frozen_slot(infos, slot, hash) == on_processed_slot(infos, slot, hash)

on_dead_slot(infos, slot) ==
    LET confirmed == get_duplicate_confirmed_hash(infos, slot, Default)
        sampled == get(epoch_slots_frozen_slots, slot)
    IN [on_processed_slot(infos, slot, Default) EXCEPT
          !.send = CASE confirmed # NoHash -> {<<"DeadDuplicateConfirmed", slot>>}
                     [] confirmed = NoHash /\ sampled # NoHash -> {}
                     [] OTHER -> {<<"Dead", slot>>}]

\* Mutant: the service is told only when the slot dies, not when it is confirmed.
on_duplicate_confirmed_Silent(slot, confirmed_hash, hash) ==
    IF hash = NoHash THEN NoChange
    ELSE check_duplicate_confirmed_hash_against_frozen_hash(confirmed_hash, hash)

on_duplicate_confirmed(slot, confirmed_hash, hash) ==
    IF hash = NoHash THEN NoChange
    ELSE [check_duplicate_confirmed_hash_against_frozen_hash(confirmed_hash, hash) EXCEPT
            !.send = IF hash = Default THEN {<<"DeadDuplicateConfirmed", slot>>} ELSE {}]

\* Mutant: a late proof is held against a confirmed version.
on_duplicate_Always(slot, hash) == [NoChange EXCEPT !.duplicate = hash # NoHash]

on_duplicate(slot, hash) ==
    [NoChange EXCEPT
       !.duplicate = hash # NoHash
                     /\ get_duplicate_confirmed_hash(fork_infos, slot, hash) = NoHash]

\* Mutant: a sample is applied to a version that is already confirmed.
on_epoch_slots_frozen_Always(slot, sampled_hash, hash) ==
    IF hash = NoHash THEN NoChange
    ELSE [check_epoch_slots_hash_against_frozen_hash(sampled_hash, hash) EXCEPT
            !.duplicate = @ /\ ~is_duplicate_confirmed(fork_infos, <<slot, hash>>)]

on_epoch_slots_frozen(slot, sampled_hash, hash) ==
    IF hash = NoHash \/ get_duplicate_confirmed_hash(fork_infos, slot, hash) # NoHash
    THEN NoChange
    ELSE check_epoch_slots_hash_against_frozen_hash(sampled_hash, hash)
-----------------------------------------------------------------------------
(* Carrying it out *)

RecordedConfirmed(cf, slot, hash) ==
    slot \in DOMAIN cf
    /\ cf[slot] = [frozen_hash |-> hash, is_duplicate_confirmed |-> TRUE]

\* Blockstore::insert_bank_hash with is_duplicate_confirmed = false
insert_bank_hash(cf, slot, hash) ==
    IF RecordedConfirmed(cf, slot, hash)
    THEN cf
    ELSE insert(cf, slot, [frozen_hash |-> hash, is_duplicate_confirmed |-> FALSE])

\* Mutant: only the slot itself is recorded as confirmed.
set_duplicate_confirmed_slots_and_hashes_One(cf, keys) ==
    LET s == CHOOSE s \in {0} \cup {Slot(k) : k \in keys} :
               \A k \in keys : Slot(k) <= s
    IN IF keys = {} THEN cf
       ELSE insert(cf, s, [frozen_hash |-> (CHOOSE k \in keys : Slot(k) = s)[2],
                           is_duplicate_confirmed |-> TRUE])

set_duplicate_confirmed_slots_and_hashes(cf, keys) ==
    [s \in DOMAIN cf \cup {Slot(k) : k \in keys} |->
        IF \E k \in keys : Slot(k) = s
        THEN [frozen_hash |-> (CHOOSE k \in keys : Slot(k) = s)[2],
              is_duplicate_confirmed |-> TRUE]
        ELSE cf[s]]

\* just_frozen: the list starts with ResultingStateChange::BankFrozen.
apply_state_changes(infos, slot, hash, changes, just_frozen) ==
    LET key == <<slot, hash>>
    IN /\ fork_infos' = IF changes.duplicate THEN mark_fork_invalid_candidate(infos, key)
                        ELSE IF changes.matches THEN mark_fork_valid_candidate(infos, key)
                        ELSE infos
       /\ panicked' = \/ changes.duplicate /\ ~mark_fork_invalid_asserts(infos, key)
                      \/ changes.matches /\ key \notin DOMAIN infos
       /\ duplicate_slots_to_repair' =
             IF changes.repair # NoHash
             THEN insert(duplicate_slots_to_repair, slot, changes.repair)
             ELSE IF changes.matches
             THEN Restrict(duplicate_slots_to_repair,
                           DOMAIN duplicate_slots_to_repair \ {slot})
             ELSE duplicate_slots_to_repair
       /\ bank_hash_cf' =
             IF changes.matches
             THEN set_duplicate_confirmed_slots_and_hashes(bank_hash_cf,
                      newly_duplicate_confirmed_ancestors(infos, key))
             ELSE IF just_frozen /\ ~is_duplicate_confirmed(infos, key)
             THEN insert_bank_hash(bank_hash_cf, slot, hash)
             ELSE bank_hash_cf
       /\ replay_updates' = replay_updates \cup changes.send
-----------------------------------------------------------------------------
(* The signals *)

\* A bank exists for this version: its parent is our frozen parent.
Replayable(key) ==
    LET parent == ParentOf[key]
    IN /\ Slot(key) > Slot(root) /\ bank[Slot(key)] = NoHash
       /\ bank[Slot(parent)] = parent[2] /\ Slot(parent) \notin dead
       /\ parent \in DOMAIN fork_infos

\* replay_active_banks: the bank is complete and frozen.
BankFrozen(key) ==
    LET infos == add_new_leaf_slot(fork_infos, key, ParentOf[key])
    IN /\ Replayable(key)
       /\ bank' = [bank EXCEPT ![Slot(key)] = key[2]]
       /\ frozen' = frozen \cup {key}
       /\ apply_state_changes(infos, Slot(key), key[2],
                              on_frozen_slot(infos, Slot(key), key[2]), TRUE)
       /\ UNCHANGED <<latest_votes, root, dead, duplicate_slots_tracker,
                      gossip_duplicate_confirmed_slots, epoch_slots_frozen_slots>>

mark_dead_slot(key) ==
    /\ Replayable(key)
    /\ bank' = [bank EXCEPT ![Slot(key)] = key[2]]
    /\ dead' = dead \cup {Slot(key)}
    /\ apply_state_changes(fork_infos, Slot(key), Default,
                           on_dead_slot(fork_infos, Slot(key)), FALSE)
    /\ UNCHANGED <<latest_votes, root, frozen, duplicate_slots_tracker,
                   gossip_duplicate_confirmed_slots, epoch_slots_frozen_slots>>

process_duplicate_slots(slot) ==
    /\ slot > Slot(root) /\ slot \notin duplicate_slots_tracker
    /\ duplicate_slots_tracker' = duplicate_slots_tracker \cup {slot}
    /\ apply_state_changes(fork_infos, slot, bank_hash(slot),
                           on_duplicate(slot, bank_hash(slot)), FALSE)
    /\ UNCHANGED <<latest_votes, root, frozen, bank, dead,
                   gossip_duplicate_confirmed_slots, epoch_slots_frozen_slots>>

\* SlotStateUpdate::DuplicateConfirmed; repeated signals change nothing.
DuplicateConfirmed(slot, confirmed_hash) ==
    /\ slot > Slot(root)
    /\ IF is_duplicate_confirmed(fork_infos, <<slot, bank_hash(slot)>>)
       THEN UNCHANGED <<fork_infos, panicked, duplicate_slots_to_repair,
                        bank_hash_cf, replay_updates>>
       ELSE apply_state_changes(fork_infos, slot, bank_hash(slot),
                on_duplicate_confirmed(slot, confirmed_hash, bank_hash(slot)), FALSE)
    /\ UNCHANGED <<latest_votes, root, frozen, bank, dead,
                   duplicate_slots_tracker, epoch_slots_frozen_slots>>

process_gossip_duplicate_confirmed_slots(key) ==
    /\ Slot(key) \notin DOMAIN gossip_duplicate_confirmed_slots
    /\ gossip_duplicate_confirmed_slots' =
          insert(gossip_duplicate_confirmed_slots, Slot(key), key[2])
    /\ DuplicateConfirmed(Slot(key), key[2])

\* The votes in replayed descendants confirm our version.
mark_slots_confirmed(key) ==
    /\ bank_hash(Slot(key)) = key[2]
    /\ DuplicateConfirmed(Slot(key), key[2])
    /\ UNCHANGED gossip_duplicate_confirmed_slots

process_epoch_slots_frozen_dead_slots(key) ==
    /\ Slot(key) > Slot(root)
    /\ get(epoch_slots_frozen_slots, Slot(key)) # key[2]
    /\ epoch_slots_frozen_slots' = insert(epoch_slots_frozen_slots, Slot(key), key[2])
    /\ apply_state_changes(fork_infos, Slot(key), bank_hash(Slot(key)),
           on_epoch_slots_frozen(Slot(key), key[2], bank_hash(Slot(key))), FALSE)
    /\ UNCHANGED <<latest_votes, root, frozen, bank, dead, duplicate_slots_tracker,
                   gossip_duplicate_confirmed_slots>>
-----------------------------------------------------------------------------
(* Dumping the wrong version, and moving the root *)

\* BankForks: the slots whose bank descends from the bank of this slot.
descendants(slot) ==
    {s \in Slots \ {slot} : bank[s] # NoHash /\ bank[slot] # NoHash
                            /\ <<slot, bank[slot]>> \in Line(<<s, bank[s]>>)}

\* poh_parent: the parent of the bank PohRecorder is building (NoSlot: none).
is_poh_building_on_duplicate_fork(poh_parent, slot) ==
    poh_parent \in {slot} \cup descendants(slot)

SlotsToPurge(poh_parent) ==
    {s \in DOMAIN duplicate_slots_to_repair :
        /\ ~is_poh_building_on_duplicate_fork(poh_parent, s)
        /\ bank[s] # NoHash
        /\ bank_hash(s) # duplicate_slots_to_repair[s]}

\* Entries are dropped whether they were purged or found to need no purge,
\* and kept only while the leader builds on the slot.
dump_then_repair_correct_slots(poh_parent) ==
    LET purged == UNION {{s} \cup descendants(s) : s \in SlotsToPurge(poh_parent)}
        kept == {s \in DOMAIN duplicate_slots_to_repair :
                    is_poh_building_on_duplicate_fork(poh_parent, s)}
    IN /\ duplicate_slots_to_repair # <<>>
       /\ duplicate_slots_to_repair' = Restrict(duplicate_slots_to_repair, kept)
       /\ bank' = [s \in Slots |-> IF s \in purged THEN NoHash ELSE bank[s]]
       /\ dead' = dead \ purged
       /\ bank_hash_cf' = Restrict(bank_hash_cf, DOMAIN bank_hash_cf \ purged)
       /\ replay_updates' = {u \in replay_updates : u[2] \notin purged}
       /\ UNCHANGED <<fcVars, duplicate_slots_tracker,
                      gossip_duplicate_confirmed_slots, epoch_slots_frozen_slots>>

\* A slot is rooted only deep below votes that were checked against the 2/3
\* threshold, so our version of it is duplicate confirmed by then.
handle_new_root(key) ==
    LET live == {Slot(key)} \cup descendants(Slot(key))
        Above(map) == Restrict(map, {s \in DOMAIN map : s >= Slot(key)})
    IN /\ Slot(key) > Slot(root) /\ bank_hash(Slot(key)) = key[2]
       /\ is_duplicate_confirmed(fork_infos, key)
       /\ bank' = [s \in Slots |-> IF s \in live THEN bank[s] ELSE NoHash]
       /\ dead' = dead \cap live
       /\ fork_infos' = set_root(fork_infos, root, key)
       /\ root' = key
       /\ duplicate_slots_tracker' = {s \in duplicate_slots_tracker : s >= Slot(key)}
       /\ gossip_duplicate_confirmed_slots' = Above(gossip_duplicate_confirmed_slots)
       /\ epoch_slots_frozen_slots' = Above(epoch_slots_frozen_slots)
       /\ UNCHANGED <<latest_votes, frozen, panicked, duplicate_slots_to_repair,
                      bank_hash_cf, replay_updates>>
-----------------------------------------------------------------------------
ClusterInit ==
    /\ Init
    /\ bank = [s \in Slots |-> IF s = Slot(RootBlock) THEN RootBlock[2] ELSE NoHash]
    /\ dead = {} /\ duplicate_slots_tracker = {} /\ replay_updates = {}
    /\ gossip_duplicate_confirmed_slots = <<>> /\ epoch_slots_frozen_slots = <<>>
    /\ duplicate_slots_to_repair = <<>> /\ bank_hash_cf = <<>>

ClusterNext ==
    /\ ~panicked
    /\ \/ \E k \in Blocks \ {RootBlock} : BankFrozen(k) \/ mark_dead_slot(k)
       \/ \E s \in Slots : process_duplicate_slots(s)
       \/ \E k \in ConfirmedKeys : process_gossip_duplicate_confirmed_slots(k)
                                   \/ mark_slots_confirmed(k)
       \/ \E k \in SampledKeys : process_epoch_slots_frozen_dead_slots(k)
       \/ \E s \in {NoSlot} \cup {s \in Slots \ dead : bank[s] # NoHash} :
             dump_then_repair_correct_slots(s)
       \/ \E k \in Blocks : handle_new_root(k)

ClusterSpec == ClusterInit /\ [][ClusterNext]_vars
-----------------------------------------------------------------------------
(* Properties *)

\* Types of the variables of this module.
ClusterTypeOK ==
    /\ TypeOK
    /\ bank \in [Slots -> Hashes \cup {NoHash}]
    /\ dead \subseteq {s \in Slots : bank[s] # NoHash}
    /\ duplicate_slots_tracker \subseteq Slots
    /\ \A map \in {gossip_duplicate_confirmed_slots, epoch_slots_frozen_slots,
                   duplicate_slots_to_repair} :
          DOMAIN map \subseteq Slots /\ \A s \in DOMAIN map : map[s] \in Hashes
    /\ DOMAIN bank_hash_cf \subseteq Slots

\* Whatever the order of the signals, when gossip has confirmed a version that
\* is not ours (or our bank is dead), ours is no candidate in fork choice and
\* the confirmed version is queued for repair.
ConfirmedVersionWins ==
    \A s \in DOMAIN gossip_duplicate_confirmed_slots :
        LET confirmed == gossip_duplicate_confirmed_slots[s]
            key == <<s, bank_hash(s)>>
        IN (s > Slot(root) /\ bank[s] # NoHash /\ bank_hash(s) # confirmed) =>
             /\ get(duplicate_slots_to_repair, s) = confirmed
             /\ key \in DOMAIN fork_infos => ~is_candidate(fork_infos[key])

\* When gossip has confirmed the version we hold, it is confirmed in fork
\* choice and nothing is queued for its slot, whatever samples and proofs said
\* before or say after.
ConfirmedVersionStands ==
    \A s \in DOMAIN gossip_duplicate_confirmed_slots :
        LET confirmed == gossip_duplicate_confirmed_slots[s]
        IN (s > Slot(root) /\ bank_hash(s) = confirmed) =>
             /\ is_duplicate_confirmed(fork_infos, <<s, confirmed>>)
             /\ s \notin DOMAIN duplicate_slots_to_repair

\* A slot with a duplicate proof that nobody confirmed or sampled is kept out
\* of fork choice, whether the proof came before or after its bank.
DuplicateIsExcluded ==
    \A s \in duplicate_slots_tracker :
        LET key == <<s, bank_hash(s)>>
        IN (/\ s > Slot(root) /\ key \in DOMAIN fork_infos
            /\ ~is_duplicate_confirmed(fork_infos, key)
            /\ get(epoch_slots_frozen_slots, s) # bank_hash(s))
           => ~is_candidate(fork_infos[key])

\* What the comment in DuplicateState says: only a duplicate confirmation lets
\* a slot with a duplicate proof stay a candidate, no weaker one does.
OnlyConfirmationSkipsMarking ==
    \A s \in duplicate_slots_tracker :
        LET key == <<s, bank_hash(s)>>
        IN (/\ s > Slot(root) /\ key \in DOMAIN fork_infos
            /\ ~is_duplicate_confirmed(fork_infos, key))
           => ~is_candidate(fork_infos[key])

\* A block that is confirmed in fork choice and in our BankForks is recorded
\* as confirmed in the blockstore, from which a restart reads it.
ConfirmationIsRecorded ==
    \A s \in Slots \ {Slot(RootBlock)} :
        is_duplicate_confirmed(fork_infos, <<s, bank_hash(s)>>) =>
            RecordedConfirmed(bank_hash_cf, s, bank_hash(s))

\* The ancestor-hashes service is told of every dead slot that the cluster
\* has confirmed, in whichever order the two facts became known, and told
\* again when a dumped slot is replayed and dies once more.
DeadConfirmedIsReported ==
    \A s \in dead : (s > Slot(root) /\ s \in DOMAIN gossip_duplicate_confirmed_slots)
        => <<"DeadDuplicateConfirmed", s>> \in replay_updates

\* Stronger confirmations take precedence over weaker ones: a version that is
\* duplicate confirmed is not purged from BankForks, except with the root.
ConfirmedIsNeverPurged ==
    [][\A s \in Slots : (is_duplicate_confirmed(fork_infos, <<s, bank_hash(s)>>)
                         /\ s >= Slot(root')) => bank'[s] = bank[s]]_vars
=============================================================================
