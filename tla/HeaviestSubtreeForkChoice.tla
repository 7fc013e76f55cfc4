---------------------- MODULE HeaviestSubtreeForkChoice ----------------------
(***************************************************************************)
(* The fork choice of replay_stage: a tree of frozen blocks, weighted by   *)
(* the stake of every validator's latest vote, that always knows the best  *)
(* leaf below each block.  core/src/heaviest_subtree_fork_choice.rs.       *)
(*                                                                         *)
(* A block is a key <<slot, hash>>; two keys with one slot are two         *)
(* versions of a duplicate slot.  The operators named after the code's     *)
(* methods take the map fork_infos and return the new one, so that the     *)
(* cluster-slot-state module can call them too.                            *)
(***************************************************************************)
EXTENDS Integers, FiniteSets, SequencesExt

CONSTANTS Blocks,         \* every key a leader may produce
          ParentOf,       \* [Blocks -> Blocks \cup {None}], fixed by the block
          RootBlock,      \* the key fork choice starts from
          Validators,
          EpochStakes,    \* [epochs -> [Validators -> Nat]]
          SlotsPerEpoch

VARIABLES fork_infos,     \* HashMap<SlotHashKey, ForkInfo>
          latest_votes,   \* HashMap<Pubkey, SlotHashKey>
          root,           \* the key of the root
          frozen,         \* the keys whose banks were frozen so far
          panicked        \* an assert! of the fork choice failed

fcVars == <<fork_infos, latest_votes, root, frozen, panicked>>

None == <<>>
NoSlot == -1

Slot(key) == key[1]
KeyLess(a, b) == a[1] < b[1] \/ (a[1] = b[1] /\ a[2] < b[2])
Stake(v, slot) == EpochStakes[slot \div SlotsPerEpoch][v]

ASSUME ParentAssumption ==
    /\ RootBlock \in Blocks
    /\ \A k \in Blocks \ {RootBlock} :
          ParentOf[k] \in Blocks /\ Slot(ParentOf[k]) < Slot(k)

ForkInfo ==
    [stake_voted_at : Nat, stake_voted_subtree : Nat, best_slot : Blocks,
     parent : Blocks \cup {None}, children : SUBSET Blocks,
     latest_invalid_ancestor : {NoSlot} \cup {Slot(k) : k \in Blocks},
     is_duplicate_confirmed : BOOLEAN]

\* Types of all variables; stakes never go below zero when a vote moves away.
TypeOK ==
    /\ \E S \in SUBSET Blocks : fork_infos \in [S -> ForkInfo]
    /\ \E V \in SUBSET Validators : latest_votes \in [V -> Blocks]
    /\ root \in DOMAIN fork_infos
    /\ frozen \subseteq Blocks /\ DOMAIN fork_infos \subseteq frozen
    /\ panicked \in BOOLEAN
-----------------------------------------------------------------------------
(* Walking the tree *)

\* AncestorIterator: the strict ancestors of a key, up to the root.
ancestor_iterator(infos, key) ==
    LET up[k \in DOMAIN infos] ==
          IF infos[k].parent = None THEN {}
          ELSE {infos[k].parent} \cup up[infos[k].parent]
    IN IF key \in DOMAIN infos THEN up[key] ELSE {}

\* TreeDiff::subtree_diff: what is reachable from top without passing below.
subtree_diff(infos, top, below) ==
    IF top \notin DOMAIN infos THEN {}
    ELSE {k \in DOMAIN infos :
            LET path == {k} \cup ancestor_iterator(infos, k)
            IN top \in path /\ (below \in path => below \in ancestor_iterator(infos, top))}

is_candidate(info) == info.latest_invalid_ancestor = NoSlot

\* The order of siblings: more stake first, then the smaller key.
Beats(infos, a, b) ==
    \/ infos[a].stake_voted_subtree > infos[b].stake_voted_subtree
    \/ /\ infos[a].stake_voted_subtree = infos[b].stake_voted_subtree
       /\ KeyLess(a, b)
-----------------------------------------------------------------------------
(* Adding a leaf *)

is_best_child(infos, key) ==
    \A c \in infos[infos[key].parent].children :
        is_candidate(infos[c]) => ~Beats(infos, c, key)

\* Mutant: the new leaf is propagated without comparing it to its siblings.
propagate_new_leaf_Always(infos, key, parent) ==
    LET old == infos[parent].best_slot
    IN [k \in DOMAIN infos |->
          IF k \in {parent} \cup ancestor_iterator(infos, parent)
             /\ infos[k].best_slot = old
          THEN [infos[k] EXCEPT !.best_slot = key] ELSE infos[k]]

\* Every ancestor from the parent up that considered the parent's old best
\* slot its own best slot takes the new leaf; the walk stops at the first
\* that did not.
propagate_new_leaf(infos, key, parent) ==
    LET old == infos[parent].best_slot
        line == {parent} \cup ancestor_iterator(infos, parent)
        takes == {a \in line : \A b \in line :
                     Slot(b) >= Slot(a) => infos[b].best_slot = old}
    IN IF is_best_child(infos, key)
       THEN [k \in DOMAIN infos |->
               IF k \in takes THEN [infos[k] EXCEPT !.best_slot = key] ELSE infos[k]]
       ELSE infos

\* Mutant: a new block starts as a candidate whatever its parent is.
NewForkInfo_Candidate(infos, key, parent) ==
    [stake_voted_at |-> 0, stake_voted_subtree |-> 0,
     best_slot |-> key, parent |-> parent, children |-> {},
     latest_invalid_ancestor |-> NoSlot, is_duplicate_confirmed |-> parent = None]

\* The entry of a new block.
NewForkInfo(infos, key, parent) ==
    [stake_voted_at |-> 0, stake_voted_subtree |-> 0,
     best_slot |-> key, parent |-> parent, children |-> {},
     latest_invalid_ancestor |-> IF parent = None THEN NoSlot
                                 ELSE infos[parent].latest_invalid_ancestor,
     is_duplicate_confirmed |-> parent = None]

\* Mutant: a block that is frozen again replaces its entry.
add_new_leaf_slot_Again(infos, key, parent) ==
    LET grown == [k \in DOMAIN infos \cup {key} |->
                    CASE k = key    -> NewForkInfo(infos, key, parent)
                      [] k = parent -> [infos[k] EXCEPT !.children = @ \cup {key}]
                      [] OTHER      -> infos[k]]
    IN IF parent = None THEN grown ELSE propagate_new_leaf(grown, key, parent)

add_new_leaf_slot(infos, key, parent) ==
    LET grown == [k \in DOMAIN infos \cup {key} |->
                    CASE k = key    -> NewForkInfo(infos, key, parent)
                      [] k = parent -> [infos[k] EXCEPT !.children = @ \cup {key}]
                      [] OTHER      -> infos[k]]
    IN IF key \in DOMAIN infos THEN infos
       ELSE IF parent = None THEN grown
       ELSE propagate_new_leaf(grown, key, parent)
-----------------------------------------------------------------------------
(* Update operations *)

\* Mutants: only candidates add to the weight; confirmation is not inherited.
aggregate_slot_Candidates(infos, key) ==
    LET info == infos[key]
        valid == {c \in info.children : is_candidate(infos[c])}
        best == CHOOSE c \in valid : \A d \in valid \ {c} : Beats(infos, c, d)
    IN [info EXCEPT
          !.stake_voted_subtree = info.stake_voted_at
              + MapThenSumSet(LAMBDA c : infos[c].stake_voted_subtree, valid),
          !.best_slot = IF valid = {} THEN key ELSE infos[best].best_slot]

aggregate_slot_Unconfirmed(infos, key) ==
    LET info == infos[key]
        valid == {c \in info.children : is_candidate(infos[c])}
        best == CHOOSE c \in valid : \A d \in valid \ {c} : Beats(infos, c, d)
    IN [info EXCEPT
          !.stake_voted_subtree = info.stake_voted_at
              + MapThenSumSet(LAMBDA c : infos[c].stake_voted_subtree, info.children),
          !.best_slot = IF valid = {} THEN key ELSE infos[best].best_slot]

\* Recompute a key from its own stake and its children.
aggregate_slot(infos, key) ==
    LET info == infos[key]
        kids == info.children
        valid == {c \in kids : is_candidate(infos[c])}
        best == CHOOSE c \in valid : \A d \in valid \ {c} : Beats(infos, c, d)
        confirmed == \E c \in kids : infos[c].is_duplicate_confirmed
    IN [info EXCEPT
          !.stake_voted_subtree = info.stake_voted_at
              + MapThenSumSet(LAMBDA c : infos[c].stake_voted_subtree, kids),
          !.best_slot = IF valid = {} THEN key ELSE infos[best].best_slot,
          !.is_duplicate_confirmed = @ \/ confirmed,
          !.latest_invalid_ancestor = IF confirmed THEN NoSlot ELSE @]

\* The batch is a BTreeMap walked from the greatest key to the smallest, and
\* on one key the aggregation comes last.  The other operations touch only
\* their own key, so `edited' is the tree after all of them.
process_update_operations(edited, aggregated) ==
    FoldLeft(LAMBDA infos, k : [infos EXCEPT ![k] = aggregate_slot(infos, k)],
             edited,
             SetToSortSeq(aggregated \cap DOMAIN edited, LAMBDA a, b : KeyLess(b, a)))

\* Is the vote newer than the latest one of the same validator?
is_newer_vote(votes, v, key) ==
    v \in DOMAIN votes =>
        \/ Slot(key) > Slot(votes[v])
        \/ Slot(key) = Slot(votes[v]) /\ key[2] < votes[v][2]

\* The votes of a batch that generate_update_operations does not skip.
accepted_votes(votes, batch) ==
    {v \in DOMAIN batch : Slot(batch[v]) >= Slot(root)
                          /\ is_newer_vote(votes, v, batch[v])}

add_votes(infos, votes, batch) ==
    LET voters == accepted_votes(votes, batch)
        moved == {v \in voters : v \in DOMAIN votes /\ Stake(v, Slot(votes[v])) > 0}
        Added(k) == {v \in voters : batch[v] = k}
        Removed(k) == {v \in moved : votes[v] = k}
        Total(S, k) == MapThenSumSet(LAMBDA v : Stake(v, Slot(k)), S)
        Change(k) == Total(Added(k), k) - Total(Removed(k), k)
        edited == [k \in DOMAIN infos |->
                     [infos[k] EXCEPT !.stake_voted_at = @ + Change(k),
                                      !.stake_voted_subtree = @ + Change(k)]]
    IN process_update_operations(edited,
           UNION ({ancestor_iterator(infos, batch[v]) : v \in voters}
                  \cup {ancestor_iterator(infos, votes[v]) : v \in moved}))

latest_votes_after(votes, batch) ==
    LET voters == accepted_votes(votes, batch)
    IN [v \in DOMAIN votes \cup voters |-> IF v \in voters THEN batch[v] ELSE votes[v]]
-----------------------------------------------------------------------------
(* Duplicate blocks leave the candidates and come back *)

update_with_newly_invalid_ancestor(info, slot) ==
    IF slot > info.latest_invalid_ancestor
    THEN [info EXCEPT !.latest_invalid_ancestor = slot] ELSE info

update_with_newly_valid_ancestor(info, slot) ==
    IF info.latest_invalid_ancestor <= slot
    THEN [info EXCEPT !.latest_invalid_ancestor = NoSlot] ELSE info

mark_fork_invalid_candidate(infos, key) ==
    LET below == subtree_diff(infos, key, None)
        edited == [k \in DOMAIN infos |->
                     IF k \in below
                     THEN update_with_newly_invalid_ancestor(infos[k], Slot(key))
                     ELSE infos[k]]
    IN process_update_operations(edited, below \cup ancestor_iterator(infos, key))

\* The assert!s on that path: no block of the fork is duplicate confirmed.
mark_fork_invalid_asserts(infos, key) ==
    \A k \in subtree_diff(infos, key, None) : ~infos[k].is_duplicate_confirmed

\* Mutant: the ancestors are not aggregated.
mark_fork_valid_candidate_Below(infos, key) ==
    LET below == subtree_diff(infos, key, None)
        edited == [k \in DOMAIN infos |->
                     IF k \notin below THEN infos[k]
                     ELSE [infos[k] EXCEPT !.latest_invalid_ancestor = NoSlot,
                                           !.is_duplicate_confirmed = @ \/ k = key]]
    IN process_update_operations(edited, below)


mark_fork_valid_candidate(infos, key) ==
    LET below == subtree_diff(infos, key, None)
        edited == [k \in DOMAIN infos |->
                     IF k \notin below THEN infos[k]
                     ELSE LET info == update_with_newly_valid_ancestor(infos[k], Slot(key))
                          IN [info EXCEPT !.is_duplicate_confirmed = @ \/ k = key]]
    IN process_update_operations(edited, below \cup ancestor_iterator(infos, key))

newly_duplicate_confirmed_ancestors(infos, key) ==
    {k \in {key} \cup ancestor_iterator(infos, key) : ~infos[k].is_duplicate_confirmed}

\* Mutant: the new subtree is removed and the old one kept.
set_root_Swapped(infos, old_root, new_root) ==
    Restrict(infos, DOMAIN infos \ subtree_diff(infos, new_root, old_root))

set_root(infos, old_root, new_root) ==
    [k \in DOMAIN infos \ subtree_diff(infos, old_root, new_root) |->
        IF k = new_root THEN [infos[k] EXCEPT !.parent = None] ELSE infos[k]]
-----------------------------------------------------------------------------
(* The calls replay_stage makes, in any order *)

Init ==
    /\ fork_infos = add_new_leaf_slot(<<>>, RootBlock, None)
    /\ latest_votes = <<>>
    /\ root = RootBlock
    /\ frozen = {RootBlock}
    /\ panicked = FALSE

\* A bank is frozen: its parent's bank is frozen and not below the root.
AddNewLeafSlot(key) ==
    /\ ParentOf[key] \in DOMAIN fork_infos
    /\ fork_infos' = add_new_leaf_slot(fork_infos, key, ParentOf[key])
    /\ frozen' = frozen \cup {key}
    /\ UNCHANGED <<latest_votes, root, panicked>>

\* Votes are reported for frozen blocks only, which may since be pruned.
\* A batch without a newer vote changes nothing.
AddVotes(batch) ==
    /\ accepted_votes(latest_votes, batch) # {}
    /\ fork_infos' = add_votes(fork_infos, latest_votes, batch)
    /\ latest_votes' = latest_votes_after(latest_votes, batch)
    /\ UNCHANGED <<root, frozen, panicked>>

\* A duplicate slot above the root that is not confirmed is marked invalid.
MarkForkInvalid(key) ==
    /\ Slot(key) > Slot(root)
    /\ key \in DOMAIN fork_infos /\ ~fork_infos[key].is_duplicate_confirmed
    /\ fork_infos' = mark_fork_invalid_candidate(fork_infos, key)
    /\ panicked' = ~mark_fork_invalid_asserts(fork_infos, key)
    /\ UNCHANGED <<latest_votes, root, frozen>>

MarkForkValid(key) ==
    /\ Slot(key) > Slot(root) /\ key \in DOMAIN fork_infos
    /\ fork_infos' = mark_fork_valid_candidate(fork_infos, key)
    /\ UNCHANGED <<latest_votes, root, frozen, panicked>>

SetRoot(new_root) ==
    /\ new_root \in DOMAIN fork_infos
    /\ fork_infos' = set_root(fork_infos, root, new_root)
    /\ root' = new_root
    /\ UNCHANGED <<latest_votes, frozen, panicked>>

Batches == UNION {[V -> frozen] : V \in SUBSET Validators \ {{}}}

Next ==
    /\ ~panicked
    /\ \/ \E k \in Blocks \ {RootBlock} : AddNewLeafSlot(k)
       \/ \E batch \in Batches : AddVotes(batch)
       \/ \E k \in Blocks : MarkForkInvalid(k) \/ MarkForkValid(k) \/ SetRoot(k)

Spec == Init /\ [][Next]_fcVars
-----------------------------------------------------------------------------
(* Properties *)

\* Reference: the stake of the latest votes at or below a block.
VotedStake(key) ==
    LET voters == {v \in DOMAIN latest_votes :
                     latest_votes[v] \in subtree_diff(fork_infos, key, None)}
    IN MapThenSumSet(LAMBDA v : Stake(v, Slot(latest_votes[v])), voters)

\* However votes arrived, were replaced or went to pruned forks, the weight
\* kept for a block (stake_voted_subtree, maintained by increments and
\* aggregation) is the stake whose latest vote is in its subtree: every
\* validator is counted once, nobody is counted after moving away.
WeightsAreExact ==
    \A k \in DOMAIN fork_infos : fork_infos[k].stake_voted_subtree = VotedStake(k)

\* Reference: walk down from a block, at each step to the heaviest child that
\* is a candidate, by the stake of the latest votes alone.
BestBelow(key) ==
    LET walk[k \in DOMAIN fork_infos] ==
          LET valid == {c \in fork_infos[k].children : is_candidate(fork_infos[c])}
              better(a, b) == VotedStake(a) > VotedStake(b)
                              \/ (VotedStake(a) = VotedStake(b) /\ KeyLess(a, b))
          IN IF valid = {} THEN k
             ELSE walk[CHOOSE c \in valid : \A d \in valid \ {c} : better(c, d)]
    IN walk[key]

\* The best slot kept for a candidate block is the one a walk from scratch
\* finds: the shortcut of propagate_new_leaf and the partial aggregations
\* never leave a stale best slot behind.
BestSlotIsHeaviest ==
    \A k \in DOMAIN fork_infos :
        is_candidate(fork_infos[k]) => fork_infos[k].best_slot = BestBelow(k)

\* A block known to be duplicate confirmed has only confirmed ancestors, and
\* is itself a candidate: this is what the assert! in
\* update_with_newly_invalid_ancestor relies on.
ConfirmedUpToRoot ==
    \A k \in DOMAIN fork_infos : fork_infos[k].is_duplicate_confirmed =>
        /\ is_candidate(fork_infos[k])
        /\ \A a \in ancestor_iterator(fork_infos, k) : fork_infos[a].is_duplicate_confirmed

\* No assert! of the fork choice fails: marking an unconfirmed block invalid
\* never reaches a confirmed descendant.
NeverPanics == ~panicked

\* A block remembers an invalid ancestor at least as late as its parent does
\* (add_new_leaf_slot, mark_fork_invalid and mark_fork_valid together): below
\* an invalid block every block is invalid, so a candidate is never reached
\* through a block that is not one.
InvalidDownward ==
    \A k \in DOMAIN fork_infos : \A c \in fork_infos[k].children :
        fork_infos[c].latest_invalid_ancestor >= fork_infos[k].latest_invalid_ancestor


\* A confirmation is never taken back while the block is in the tree.
ConfirmationIsFinal ==
    [][\A k \in DOMAIN fork_infos : k \in DOMAIN fork_infos' =>
          (fork_infos[k].is_duplicate_confirmed => fork_infos'[k].is_duplicate_confirmed)]_fcVars
=============================================================================
