------------------------------- MODULE Tower -------------------------------
(***************************************************************************)
(* The validator's local tower across crashes and restarts.                *)
(*                                                                         *)
(* ReplayStage::handle_votable_bank records a vote in the in-memory Tower, *)
(* marks new roots in the blockstore and hands the vote, with a copy of    *)
(* the tower, to the voting service thread.  That thread writes the copy   *)
(* to disk (core/src/tower_storage.rs) and only then sends the vote        *)
(* (core/src/voting_service.rs).  A restart reads the tower file back,     *)
(* reconciles the blockstore's roots with it, replays the ledger from some *)
(* root and adjusts the restored lockouts to what was replayed             *)
(* (core/src/consensus.rs, core/src/validator.rs).                         *)
(*                                                                         *)
(* One validator; the cluster is an environment that roots one chain of    *)
(* the block tree.  Stakes enter only through that chain.                  *)
(*                                                                         *)
(* The file is written and renamed without a sync.  A crash of the process *)
(* leaves it as it is; a crash of the operating system may bring back an   *)
(* older version, or a file that cannot be read.                           *)
(***************************************************************************)
EXTENDS Lockouts, FiniteSets, SequencesExt

CONSTANTS
  Parent,          \* the block tree: Parent[s] is the parent slot of s > 0
  ClusterChain,    \* the slots that two thirds of the stake vote for
  THRESHOLD_DEPTH, \* VOTE_THRESHOLD_DEPTH (8 in the code)
  MAX_ENTRIES,     \* slots remembered by the SlotHistory sysvar
  MaxQueue,        \* bound: votes waiting for the voting service
  MaxLosses,       \* bound: how often a stored tower is lost
  Failures         \* what can happen besides a crash of the process

Slots == DOMAIN Parent \cup {0}

(* The ancestors of a slot, itself excluded: bank.ancestors minus itself. *)
AncestorsTable ==
  LET up[s \in Slots] == IF s = 0 THEN {} ELSE up[Parent[s]] \cup {Parent[s]}
  IN  [s \in Slots |-> up[s]]

ancestors(slot) == AncestorsTable[slot]

ASSUME TowerAssumption ==
  /\ Parent \in [DOMAIN Parent -> Slots]
  /\ \A s \in DOMAIN Parent : s \in Nat /\ Parent[s] < s
  /\ ClusterChain \subseteq Slots
  /\ \A s \in ClusterChain : ancestors(s) \subseteq ClusterChain
  /\ \A s, t \in ClusterChain : s <= t => s \in ancestors(t) \cup {t}
  /\ THRESHOLD_DEPTH \in 1..(MAX_LOCKOUT_HISTORY - 1)
  /\ {MAX_ENTRIES, MaxQueue} \subseteq Nat \ {0} /\ MaxLosses \in Nat
  /\ Failures \subseteq {"os_crash", "old_snapshot", "hard_fork", "no_vote_tx"}

VARIABLES
  status,          \* "running", "down", or how a start ended: "aborted", "panicked"
  tower,           \* struct Tower of the running replay stage
  banks,           \* frozen slots of BankForks
  bank_root,       \* BankForks::root
  blockstore_root, \* Blockstore::last_root, on disk; NoSlot when the ledger was lost
  tower_file,      \* the tower file, NoTower when it is missing or unreadable
  synced_file,     \* the version of it that a crash of the system would leave
  voting_queue,    \* VoteOps sent to the voting service; the head may be stored
  sent,            \* history: the lockouts the network derives from the votes it saw
  last_sent,       \* history: the slot of the latest vote sent
  losses           \* history: how often a stored tower was lost

disk == <<blockstore_root, tower_file, synced_file>>
sent_history == <<sent, last_sent, losses>>
vars == <<status, tower, banks, bank_root, disk, voting_queue, sent_history>>

(***************************************************************************)
(* last_vote is the slots of Tower::last_vote, none for Vote::default();   *)
(* stray is stray_restored_slot, which is not serialized.                  *)
(***************************************************************************)
Towers ==
  [votes : Seq(Lockout), root : Slots,
   last_vote : Seq(Slots), stray : Slots \cup {NoSlot}]

NoTower == [votes |-> <<>>, root |-> NoSlot, last_vote |-> <<>>, stray |-> NoSlot]

(* Tower::new: lockouts and root are initialized, last_vote is the default. *)
NewTower(votes, root) == [NoTower EXCEPT !.votes = votes, !.root = root]

Descendants(root) == {s \in Slots : root \in ancestors(s) \cup {s}}

VoteSlots(votes) == [i \in DOMAIN votes |-> votes[i].slot]

(* Tower::last_voted_slot: of the last vote, not of the lockouts. *)
last_vote_slot(t) == IF t.last_vote = <<>> THEN NoSlot ELSE Last(t.last_vote)

(***************************************************************************)
(* Tower::apply_vote_and_generate_vote_diff on the local vote state.  The  *)
(* vote carries the slots of the tower above the last one that landed in   *)
(* the bank.  What landed was sent, so the slots left out are never newer  *)
(* than the network's last one, and it ignores those: last_vote can be all *)
(* the slots of the tower.                                                 *)
(***************************************************************************)
record_bank_vote(t, slot) ==
  LET ignored == NextVoteIgnored(t.votes, slot)
      votes   == IF ignored THEN t.votes ELSE VotesAfterNextVote(t.votes, slot)
      roots   == ~ ignored /\ NextVoteRoots(t.votes, slot)
  IN  [t EXCEPT !.votes = votes,
                !.root = IF roots THEN t.votes[1].slot ELSE @,
                !.last_vote = VoteSlots(votes)]

is_recent(t, slot) == slot > last_voted_slot(t.votes)

(* BankForks::ancestors, with the slot itself: nothing below the root. *)
BankAncestors(slot) == {s \in ancestors(slot) : s >= bank_root} \cup {slot}

(* A remaining vote of the simulated tower is on another fork than slot. *)
OtherForkVoted(t, slot) ==
  ~ ToSet(record_bank_vote(t, slot).last_vote) \subseteq BankAncestors(slot)

is_locked_out(t, slot) == ~ is_recent(t, slot) \/ OtherForkVoted(t, slot)

(* The assertion at the end of is_locked_out, reached when nothing locks.  *)
LockedOutAssert(t, slot) ==
  ~ is_locked_out(t, slot) => record_bank_vote(t, slot).root \in BankAncestors(slot)

is_stray_last_vote(t) == t.last_vote # <<>> /\ t.stray = last_vote_slot(t)


(***************************************************************************)
(* The vote THRESHOLD_DEPTH below the new one must carry two thirds of the *)
(* stake, unless it was already there with the same count.  For that       *)
(* exception the code also wants some stake to be known for the slot;      *)
(* stakes other than the cluster's chain are not modelled, so here it is   *)
(* always granted.                                                         *)
(***************************************************************************)
check_vote_stake_threshold(t, slot) ==
  LET votes == record_bank_vote(t, slot).votes
      n     == Len(votes) - THRESHOLD_DEPTH
  IN  n >= 1 => \/ votes[n].slot \in ClusterChain
                \/ /\ votes[n].confirmation_count > THRESHOLD_DEPTH
                   /\ \E i \in DOMAIN t.votes : t.votes[i] = votes[n]

-----------------------------------------------------------------------------
(* SlotHistory of the root bank: its own chain, within the last entries.   *)
SlotHistoryOf(root) == [slots |-> ancestors(root) \cup {root}, newest |-> root]

check(history, slot) ==
  CASE slot > history.newest                    -> "Future"
    [] slot < history.newest + 1 - MAX_ENTRIES  -> "TooOld"
    [] slot <= history.newest /\ slot >= history.newest + 1 - MAX_ENTRIES
         -> IF slot \in history.slots THEN "Found" ELSE "NotFound"

slots_in_tower(t) == <<t.root>> \o VoteSlots(t.votes)

(***************************************************************************)
(* adjust_lockouts_with_slot_history walks root and votes from the newest  *)
(* to the oldest.  The newest slot found in the history is the anchor.     *)
(* Below it nothing may have diverged, the checks must change in order,    *)
(* and only the votes above it are retained.                               *)
(***************************************************************************)
AnchorIndices(t, history) ==
  {i \in DOMAIN slots_in_tower(t) : check(history, slots_in_tower(t)[i]) = "Found"}

FatallyInconsistent(t, history) ==
  LET slots    == slots_in_tower(t)
      checks   == [i \in DOMAIN slots |-> check(history, slots[i])]
      anchors  == AnchorIndices(t, history)
  IN  \/ anchors = {}
      \/ \E i \in DOMAIN slots : i < Max(anchors) /\ checks[i] = "NotFound"
      \/ \E i, j \in DOMAIN slots :
           /\ i < j
           /\ \/ checks[i] = "Future" /\ checks[j] # "Future"
              \/ checks[i] # "TooOld" /\ checks[j] = "TooOld"

TowerOrdered(t) ==
  LET slots == slots_in_tower(t)
  IN  \A i \in 1..(Len(slots) - 1) :
        slots[i] < slots[i + 1] \/ (i = 1 /\ slots[1] = slots[2])

(* Mutants: the restored votes are all dropped; the last one is not marked stray. *)
adjust_lockouts_with_slot_history_Drop(t, history) ==
  [t EXCEPT !.votes = <<>>, !.last_vote = <<>>]

adjust_lockouts_with_slot_history_NoStray(t, history) ==
  LET retained == SubSeq(t.votes, Max(AnchorIndices(t, history)), Len(t.votes))
  IN  [t EXCEPT !.votes = retained, !.last_vote = IF retained = <<>> THEN <<>> ELSE @]

adjust_lockouts_with_slot_history(t, history) ==
  LET retained == SubSeq(t.votes, Max(AnchorIndices(t, history)), Len(t.votes))
  IN  [t EXCEPT !.votes = retained,
                !.last_vote = IF retained = <<>> THEN <<>> ELSE @,
                !.stray = IF retained = <<>> THEN @ ELSE last_vote_slot(t)]

(* Mutant: the tower root is not added for a future tower. *)
HistoryFor_Unwarped(t, replayed_root) == SlotHistoryOf(replayed_root)

(* The history a restored tower is checked with: warped for a future tower. *)
HistoryFor(t, replayed_root) ==
  LET history == SlotHistoryOf(replayed_root)
  IN  IF t.root <= replayed_root THEN history
      ELSE [slots |-> history.slots \cup {t.root}, newest |-> t.root]

(* The Err results of adjust_lockouts_after_replay. *)
RestoreFails(t, replayed_root) ==
  /\ t.last_vote # <<>>
  /\ \/ /\ t.root <= replayed_root
        /\ check(SlotHistoryOf(replayed_root), last_vote_slot(t)) = "TooOld"
     \/ FatallyInconsistent(t, HistoryFor(t, replayed_root))

(* The assertions of adjust_lockouts_after_replay: before it looks at the  *)
(* last vote, and when there is none.                                      *)
LastVoteAsserts(t) == (t.last_vote = <<>>) = (t.votes = <<>>)

NewTowerAsserts(t, replayed_root) == t.last_vote = <<>> => t.root = replayed_root

(* Those of adjust_lockouts_with_slot_history: the order of the slots, and *)
(* that the last vote is the newest of the votes it retains.               *)
AdjustAsserts(t) ==
  t.last_vote # <<>> => TowerOrdered(t) /\ last_vote_slot(t) = last_voted_slot(t.votes)

RestoreAsserts(t, replayed_root) ==
  LastVoteAsserts(t) /\ NewTowerAsserts(t, replayed_root) /\ AdjustAsserts(t)

(* Mutant: initialize_root is not called. *)
adjust_lockouts_after_replay_OldRoot(t, replayed_root) ==
  IF t.last_vote = <<>> THEN t
  ELSE adjust_lockouts_with_slot_history(t, HistoryFor(t, replayed_root))

adjust_lockouts_after_replay(t, replayed_root) ==
  LET adjusted == adjust_lockouts_with_slot_history(t, HistoryFor(t, replayed_root))
  IN  IF t.last_vote = <<>> THEN t
      ELSE IF t.root <= replayed_root THEN [adjusted EXCEPT !.root = replayed_root]
      ELSE adjusted

(***************************************************************************)
(* reconcile_blockstore_roots_with_tower: roots the tower knows and the    *)
(* blockstore does not are marked, when the blockstore holds their blocks; *)
(* it panics when the walk up from the tower root misses the last root.    *)
(***************************************************************************)
ReconcilePanics(t) ==
  /\ blockstore_root # NoSlot
  /\ blockstore_root < t.root
  /\ blockstore_root \notin ancestors(t.root)


reconciled_root(t) ==
  IF blockstore_root # NoSlot /\ blockstore_root < t.root THEN t.root ELSE blockstore_root

-----------------------------------------------------------------------------
Init ==
  /\ status = "running"
  /\ tower = NewTower(<<>>, 0)
  /\ banks = {0} /\ bank_root = 0 /\ blockstore_root = 0
  /\ tower_file = NoTower /\ synced_file = NoTower
  /\ voting_queue = <<>>
  /\ sent = <<>> /\ last_sent = NoSlot /\ losses = 0

(* A block is replayed and its bank frozen. *)
ReplayBlock(slot) ==
  /\ status = "running"
  /\ slot \notin banks /\ slot > 0 /\ Parent[slot] \in banks
  /\ banks' = banks \cup {slot}
  /\ UNCHANGED <<status, tower, bank_root, disk, voting_queue, sent_history>>

(***************************************************************************)
(* The checks of select_vote_and_reset_forks.  Fork choice, the switch     *)
(* proof and propagation are the cluster's doing: any frozen bank that     *)
(* passes the tower's own checks may be the one.  compute_bank_stats has   *)
(* asked is_locked_out about every frozen bank by then.                    *)
(***************************************************************************)
CanVote(slot) ==
  /\ slot \in banks
  /\ ~ is_locked_out(tower, slot)
  /\ check_vote_stake_threshold(tower, slot)
  /\ \A s \in banks : LockedOutAssert(tower, s)

PushVote(t) == [push |-> TRUE, tower |-> t, vote |-> t.last_vote, stored |-> FALSE]

RefreshVote(vote) == [push |-> FALSE, tower |-> NoTower, vote |-> vote, stored |-> TRUE]

(* SavedTower::new serializes every field but stray_restored_slot. *)
Saved(t) == [t EXCEPT !.stray = NoSlot]

(* What push_vote hands over: nothing when generate_vote_tx yields no vote. *)
VoteOps(t) ==
  {<<PushVote(Saved(t))>>} \cup (IF "no_vote_tx" \in Failures THEN {<<>>} ELSE {})

(***************************************************************************)
(* handle_votable_bank: vote, root what the vote roots in blockstore and   *)
(* BankForks, and push the vote.                                           *)
(***************************************************************************)
handle_votable_bank(slot) ==
  LET voted == record_bank_vote(tower, slot)
  IN  /\ status = "running"
      /\ CanVote(slot)
      /\ tower' = voted
      /\ IF voted.root # tower.root
         THEN /\ blockstore_root' = Max({blockstore_root, voted.root})
              /\ bank_root' = voted.root
              /\ banks' = banks \cap Descendants(voted.root)
         ELSE UNCHANGED <<blockstore_root, bank_root, banks>>
      /\ \E ops \in VoteOps(voted) :
           /\ voting_queue' = voting_queue \o ops
           /\ Len(voting_queue') <= MaxQueue
      /\ UNCHANGED <<status, tower_file, synced_file, sent_history>>

(* Some vote of this validator may be in the vote account of a bank. *)
MayHaveLanded == last_sent # NoSlot \/ losses > 0

(***************************************************************************)
(* The last vote did not land and its blockhash expired: it is sent again. *)
(* An earlier vote of this validator has landed by then.                   *)
(***************************************************************************)
refresh_last_vote ==
  /\ status = "running"
  /\ MayHaveLanded
  /\ last_vote_slot(tower) \in banks
  /\ Len(voting_queue) < MaxQueue
  /\ voting_queue' = Append(voting_queue, RefreshVote(tower.last_vote))
  /\ UNCHANGED <<status, tower, banks, bank_root, disk, sent_history>>

(***************************************************************************)
(* VotingService::handle_vote, one step for each of its two effects: a     *)
(* pushed vote's tower is stored, and only then is the vote sent.  The     *)
(* file is not synced: whether the operating system gets this version to   *)
(* the disk before the next one replaces it is open.                       *)
(***************************************************************************)
StoreTower ==
  /\ status = "running"
  /\ voting_queue # <<>>
  /\ ~ Head(voting_queue).stored
  /\ tower_file' = Head(voting_queue).tower
  /\ synced_file' \in {tower_file'}
       \cup (IF "os_crash" \in Failures /\ losses < MaxLosses THEN {synced_file} ELSE {})
  /\ voting_queue' = [voting_queue EXCEPT ![1].stored = TRUE]
  /\ UNCHANGED <<status, tower, banks, bank_root, blockstore_root, sent_history>>

(* Mutant: the vote does not wait for its tower to be stored. *)
ReadyToSend_Eager(op) == TRUE

ReadyToSend(op) == op.stored

(* The network's view of a vote: each slot newer than the last one counts. *)
process_vote(votes, slots) ==
  FoldLeft(LAMBDA vs, slot : IF NextVoteIgnored(vs, slot) THEN vs
                             ELSE VotesAfterNextVote(vs, slot),
           votes, slots)

SendVote ==
  /\ status = "running"
  /\ voting_queue # <<>>
  /\ ReadyToSend(Head(voting_queue))
  /\ last_sent' = Last(Head(voting_queue).vote)
  /\ sent' = process_vote(sent, Head(voting_queue).vote)
  /\ voting_queue' = Tail(voting_queue)
  /\ UNCHANGED <<status, tower, banks, bank_root, disk, losses>>

-----------------------------------------------------------------------------
(***************************************************************************)
(* When a stored tower is lost nothing keeps its lockouts any more, and    *)
(* the history of what was sent begins anew.                               *)
(***************************************************************************)
ForgetSent ==
  /\ losses < MaxLosses /\ losses' = losses + 1
  /\ sent' = <<>> /\ last_sent' = NoSlot

(* A crash of the process loses the memory of every thread. *)
Crash ==
  /\ status = "running"
  /\ status' = "down"
  /\ tower' = NoTower /\ banks' = {} /\ bank_root' = NoSlot
  /\ voting_queue' = <<>>
  /\ UNCHANGED <<disk, sent_history>>

(***************************************************************************)
(* The crash was one of the operating system and lost what was not synced. *)
(* Of the tower file an older version is left, or one that cannot be read; *)
(* of the blockstore, whose write-ahead log is not synced either, any of   *)
(* the latest roots is gone.                                               *)
(***************************************************************************)
LoseUnsynced ==
  /\ status = "down" /\ "os_crash" \in Failures
  /\ blockstore_root' \in {blockstore_root}
       \cup (IF blockstore_root = NoSlot THEN {} ELSE ancestors(blockstore_root))
  /\ tower_file' \in {synced_file} \cup (IF tower_file # synced_file THEN {NoTower} ELSE {})
  /\ synced_file' = tower_file'
  /\ IF tower_file' # tower_file THEN ForgetSent ELSE UNCHANGED sent_history
  /\ UNCHANGED <<status, tower, banks, bank_root, voting_queue>>

(* The operator has to replace the ledger. *)
LoseLedger ==
  /\ status = "down" /\ "old_snapshot" \in Failures
  /\ blockstore_root' = NoSlot
  /\ UNCHANGED <<status, tower, banks, bank_root, tower_file, synced_file,
                 voting_queue, sent_history>>

(* Mutant: the root of the new tower is not initialized. *)
new_from_bankforks_Rootless(replayed_root) == {NoTower}

(***************************************************************************)
(* Tower::new_from_bankforks: the lockouts above the root in the vote      *)
(* account of the heaviest bank.  Which votes landed on its fork is the    *)
(* network's doing; those at or below the root change nothing above it.    *)
(***************************************************************************)
new_from_bankforks(replayed_root) ==
  LET forks  == {{s \in ancestors(heaviest) : s > replayed_root} :
                   heaviest \in Descendants(replayed_root)}
      landed == IF MayHaveLanded THEN UNION {SUBSET fork : fork \in forks} ELSE {{}}
  IN  {NewTower(process_vote(<<>>, SetToSortSeq(slots, <)), replayed_root) : slots \in landed}

(***************************************************************************)
(* A start: the tower is read, the blockstore's roots are reconciled with  *)
(* it, the ledger is replayed up to a root on the cluster's chain, and     *)
(* post_process_restored_tower adjusts the tower.  The root is the         *)
(* blockstore's, or a later one of the cluster (a newer snapshot, or       *)
(* load_frozen_forks finding a supermajority root).  When the ledger was   *)
(* lost the start is from any snapshot, an old one included.               *)
(*                                                                         *)
(* The result of the adjustment is thrown away when the cluster starts at  *)
(* the slot of a hard fork, or when a slot to warp to is given.  Without a *)
(* restored tower the start is aborted, if the operator requires the tower *)
(* and the vote account has votes; otherwise the tower is built from the   *)
(* vote account.  An aborted start can be tried again.                     *)
(***************************************************************************)
Restart(replayed_root) ==
  /\ status \in {"down", "aborted"}
  /\ replayed_root \in ClusterChain
  /\ replayed_root >= reconciled_root(tower_file)
  /\ \E hard_fork \in {FALSE} \cup (IF "hard_fork" \in Failures THEN {TRUE} ELSE {}),
        required \in {FALSE} \cup (IF MayHaveLanded THEN {TRUE} ELSE {}) :
     LET read     == tower_file # NoTower
         panics   == read /\ \/ ReconcilePanics(tower_file)
                             \/ ~ RestoreAsserts(tower_file, replayed_root)
         restored == read /\ ~ RestoreFails(tower_file, replayed_root) /\ ~ hard_fork
     IN  /\ status' = CASE panics -> "panicked"
                        [] ~ panics /\ ~ restored /\ required /\ ~ hard_fork -> "aborted"
                        [] OTHER -> "running"
         /\ tower' \in CASE status' # "running" -> {NoTower}
                         [] status' = "running" /\ restored ->
                              {adjust_lockouts_after_replay(tower_file, replayed_root)}
                         [] OTHER -> new_from_bankforks(replayed_root)
         /\ IF status' = "running" /\ read /\ ~ restored THEN ForgetSent ELSE UNCHANGED sent_history
  /\ blockstore_root' = replayed_root
  /\ bank_root' = IF status' = "running" THEN replayed_root ELSE NoSlot
  /\ banks' = IF status' = "running" THEN {replayed_root} ELSE {}
  /\ UNCHANGED <<tower_file, synced_file, voting_queue>>

Next ==
  \/ \E slot \in Slots : ReplayBlock(slot) \/ handle_votable_bank(slot)
  \/ refresh_last_vote
  \/ StoreTower \/ SendVote
  \/ Crash \/ LoseUnsynced \/ LoseLedger
  \/ \E root \in Slots : Restart(root)

Spec == Init /\ [][Next]_vars
-----------------------------------------------------------------------------
TypeOK ==
  /\ status \in {"running", "down", "aborted", "panicked"}
  /\ status = "running" => tower \in Towers
  /\ {tower_file, synced_file} \subseteq Towers \cup {NoTower}
  /\ banks \subseteq Slots
  /\ {bank_root, blockstore_root, last_sent} \subseteq Slots \cup {NoSlot}
  /\ Len(voting_queue) <= MaxQueue
  /\ losses \in 0..MaxLosses

(***************************************************************************)
(* Every vote the network sees is newer than the one before, or the same   *)
(* again, and each new slot in it lies on the fork of every earlier vote   *)
(* that still locks the voter out.  That holds across all crashes of the   *)
(* process, restarts and lost ledgers, as long as the stored tower is not  *)
(* lost: it is stored before the vote is sent, and the adjustment after    *)
(* replay drops only votes that every later vote descends from.  A crash   *)
(* of the operating system that brings back an older tower file, or a      *)
(* start that discards it, is the exception the code admits ("we couldn't  *)
(* fully preclude any kind of slashing if the failure was OS or HW         *)
(* level"); from there on it holds again for the votes that follow.        *)
(***************************************************************************)
SentVotesKeepLockouts ==
  [][last_sent' \notin {last_sent, NoSlot} =>
       LET slots == Head(voting_queue).vote
       IN  /\ last_sent' > last_sent
           /\ \A n \in DOMAIN slots : slots[n] > last_sent =>
                LET seen == process_vote(sent, SubSeq(slots, 1, n))
                IN  \A i \in DOMAIN seen :
                      seen[i].slot \in ancestors(slots[n]) \cup {slots[n]}]_vars

(***************************************************************************)
(* No start ends in one of the assertions of the restore path, nor in an   *)
(* abort because the tower is "fatally inconsistent" with the ledger: a    *)
(* crash at any point leaves a tower file and a blockstore that reconcile  *)
(* and adjust can bring together again, whichever versions of the two a    *)
(* crash of the operating system left.  Only a file that is missing or     *)
(* torn aborts a start.                                                    *)
(***************************************************************************)
RestartSucceeds ==
  status # "panicked" /\ (status = "aborted" => tower_file = NoTower)


(***************************************************************************)
(* is_locked_out asserts, for every frozen bank it is asked about, that    *)
(* the bank descends from the tower's root.  It never fails, except after  *)
(* a start from a snapshot older than the tower root.                      *)
(***************************************************************************)
LockedOutNeverAsserts ==
  status = "running" /\ tower.root <= bank_root =>
    \A slot \in banks : LockedOutAssert(tower, slot)

(***************************************************************************)
(* The comment on the same assertion makes no exception: "This case should *)
(* never happen because bank forks purges all non-descendants of the       *)
(* root".                                                                  *)
(***************************************************************************)
LockedOutCaseNeverHappens ==
  status = "running" => \A slot \in banks : LockedOutAssert(tower, slot)

(***************************************************************************)
(* The last vote has a bank, unless it is a stray vote of a restored       *)
(* tower: check_switch_threshold and select_forks panic otherwise.         *)
(***************************************************************************)
LastVoteHasBank ==
  status = "running" /\ tower.last_vote # <<>> /\ ~ is_stray_last_vote(tower) =>
    last_vote_slot(tower) \in banks


(***************************************************************************)
(* The operator documentation: a validator writes its tower before         *)
(* submitting a vote transaction.  Until a crash of the operating system   *)
(* loses it the file is then as new as the latest vote sent.               *)
(***************************************************************************)
TowerStoredBeforeVote == last_sent <= last_vote_slot(tower_file)
=============================================================================
