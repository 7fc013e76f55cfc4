-------------------------- MODULE VoteState_proofs ---------------------------
(***************************************************************************)
(* The on-chain tower is correct for every stack depth, every SlotHashes   *)
(* length, every chain of banks and every set of instructions.             *)
(*                                                                         *)
(* The inductive invariant is IInv below.  Besides the properties the runs *)
(* check it needs two facts that no run states: an empty tower has no root *)
(* (otherwise a first vote could be older than the root), and SlotHashes   *)
(* lists ancestors only.                                                   *)
(***************************************************************************)
EXTENDS VoteState, Lockouts_proofs

(* A vote state whose tower is well formed and newer than its root. *)
AboveRoot(vs) ==
  /\ vs.root_slot # 0 =>
       \A i \in 1..Len(vs.votes) : vs.votes[i].slot > vs.root_slot
  /\ Len(vs.votes) = 0 => vs.root_slot = NoSlot

Good == {vs \in VoteStates : WellFormed(vs.votes) /\ AboveRoot(vs)}

(* The vote v is accounted for in the vote state vs. *)
Accounted(v, vs) ==
  \/ v.slot <= vs.root_slot
  \/ \E j \in 1..Len(vs.votes) :
       \/ /\ vs.votes[j].slot = v.slot
          /\ vs.votes[j].confirmation_count >= v.confirmation_count
       \/ vs.votes[j].slot > last_locked_out_slot(v)

(* The relation between a vote state and a later one. *)
Progress(a, b) ==
  /\ b.root_slot >= a.root_slot
  /\ last_voted_slot(b.votes) >= last_voted_slot(a.votes)
  /\ \A i \in 1..Len(a.votes) : Accounted(a.votes[i], b)

(* The slots of b are slots of a, or slots in S newer than the last of a. *)
SlotsFrom(a, b, S) ==
  \A i \in 1..Len(b.votes) :
    \/ \E j \in 1..Len(a.votes) : b.votes[i].slot = a.votes[j].slot
    \/ b.votes[i].slot \in S /\ b.votes[i].slot > last_voted_slot(a.votes)

----------------------------------------------------------------------------
(* Lockouts are monotone in the confirmation count. *)
LEMMA LockoutMonotone ==
  ASSUME NEW c \in 1..MAX_LOCKOUT_HISTORY, NEW d \in 1..MAX_LOCKOUT_HISTORY, c <= d
  PROVE  Pow2[c] \in Nat /\ Pow2[d] \in Nat /\ Pow2[c] <= Pow2[d]
<1> DEFINE n == d - c
           S == {k \in Nat : k <= n => Pow2[c + k] \in Nat /\ Pow2[c] <= Pow2[c + k]}
<1>0. n \in Nat /\ Pow2[c] \in Nat
  BY LockoutAssumption
<1>1. 0 \in S
  <2>1. c + 0 = c
    OBVIOUS
  <2> QED BY <1>0, <2>1
<1>2. \A k \in 0..(n - 1) : k \in S => k + 1 \in S
  <2> SUFFICES ASSUME NEW k \in 0..(n - 1), k \in S
               PROVE  Pow2[c + (k + 1)] \in Nat /\ Pow2[c] <= Pow2[c + (k + 1)]
    OBVIOUS
  <2>1. c + k \in 0..(MAX_LOCKOUT_HISTORY - 1) /\ (c + k) + 1 = c + (k + 1)
    BY <1>0, LockoutAssumption
  <2>2. /\ Pow2[c + k] \in Nat /\ Pow2[c + (k + 1)] \in Nat
        /\ Pow2[c + k] <= Pow2[c + (k + 1)]
    BY <2>1, LockoutGrows
  <2>3. Pow2[c] <= Pow2[c + k]
    BY <1>0
  <2> QED BY <1>0, <2>2, <2>3
<1>3. n \in S
  <2> HIDE DEF S, n
  <2>1. \A k \in 0..n : k \in S
    BY <1>0, <1>1, <1>2, SetInduction
  <2> QED BY <1>0, <2>1
<1>4. c + n = d
  OBVIOUS
<1> QED BY <1>0, <1>3, <1>4

(* Types of the parts of a good vote state. *)
LEMMA GoodFields ==
  ASSUME NEW vs \in Good
  PROVE  /\ WellFormed(vs.votes)
         /\ vs.votes \in Seq(Lockout)
         /\ Len(vs.votes) \in Nat
         /\ vs.root_slot \in Int
         /\ last_voted_slot(vs.votes) \in Int
         /\ last_voted_slot(vs.votes) >= -1
         /\ \A i \in 1..Len(vs.votes) :
              /\ vs.votes[i].slot \in Nat
              /\ vs.votes[i].slot <= last_voted_slot(vs.votes)
              /\ vs.votes[i].confirmation_count \in 1..MAX_LOCKOUT_HISTORY
              /\ vs.votes[i].confirmation_count \in Nat
              /\ last_locked_out_slot(vs.votes[i]) \in Nat
<1>1. WellFormed(vs.votes) /\ vs.votes \in Seq(Lockout) /\ Len(vs.votes) \in Nat
  BY DEF Good, WellFormed
<1>2. vs.root_slot \in Int
  BY DEF Good, VoteStates, NoSlot, Slot
<1>3. \A i \in 1..Len(vs.votes) : /\ vs.votes[i].slot \in Nat
                                  /\ vs.votes[i].slot <= last_voted_slot(vs.votes)
                                  /\ last_voted_slot(vs.votes) \in Nat
  BY <1>1, LastIsGreatest
<1>4. last_voted_slot(vs.votes) \in Int /\ last_voted_slot(vs.votes) >= -1
  <2>1. CASE vs.votes = <<>>
    BY <2>1 DEF last_voted_slot, NoSlot
  <2>2. CASE vs.votes # <<>>
    <3>1. 1 \in 1..Len(vs.votes)
      BY <1>1, <2>2
    <3> QED BY <1>3, <3>1
  <2> QED BY <2>1, <2>2
<1> QED BY <1>1, <1>2, <1>3, <1>4, LockoutFields

(* Progress is transitive. *)
LEMMA ProgressTransitive ==
  ASSUME NEW a \in Good, NEW b \in Good, NEW c \in Good,
         Progress(a, b), Progress(b, c)
  PROVE  Progress(a, c)
<1>1. /\ a.root_slot \in Int /\ b.root_slot \in Int /\ c.root_slot \in Int
      /\ last_voted_slot(a.votes) \in Int
      /\ last_voted_slot(b.votes) \in Int
      /\ last_voted_slot(c.votes) \in Int
  BY GoodFields
<1>2. c.root_slot >= a.root_slot /\ last_voted_slot(c.votes) >= last_voted_slot(a.votes)
  BY <1>1 DEF Progress
<1>3. ASSUME NEW i \in 1..Len(a.votes) PROVE Accounted(a.votes[i], c)
  <2> DEFINE v == a.votes[i]
  <2>1. /\ v.slot \in Nat
        /\ v.confirmation_count \in 1..MAX_LOCKOUT_HISTORY
        /\ v.confirmation_count \in Nat
        /\ last_locked_out_slot(v) \in Nat
    BY GoodFields
  <2>2. Accounted(v, b)
    BY DEF Progress
  <2> HIDE DEF v
  <2>3. CASE v.slot <= b.root_slot
    <3>1. c.root_slot >= b.root_slot
      BY DEF Progress
    <3>2. v.slot <= c.root_slot
      BY <1>1, <2>1, <2>3, <3>1
    <3> QED BY <3>2 DEF Accounted, v
  <2>4. ASSUME NEW j \in 1..Len(b.votes), b.votes[j].slot = v.slot,
               b.votes[j].confirmation_count >= v.confirmation_count
        PROVE  Accounted(v, c)
    <3> DEFINE w == b.votes[j]
    <3>1. /\ w.slot \in Nat
          /\ w.confirmation_count \in 1..MAX_LOCKOUT_HISTORY
          /\ w.confirmation_count \in Nat
          /\ last_locked_out_slot(w) \in Nat
          /\ w.slot = v.slot
          /\ w.confirmation_count >= v.confirmation_count
      BY Zenon, <2>4, GoodFields
    <3>2. Accounted(w, c)
      BY DEF Progress
    <3> HIDE DEF w
    <3>3. last_locked_out_slot(v) <= last_locked_out_slot(w)
      <4>1. /\ Pow2[v.confirmation_count] \in Nat /\ Pow2[w.confirmation_count] \in Nat
            /\ Pow2[v.confirmation_count] <= Pow2[w.confirmation_count]
        BY <2>1, <3>1, LockoutMonotone
      <4> QED BY <2>1, <3>1, <4>1 DEF last_locked_out_slot, lockout
    <3>4. CASE w.slot <= c.root_slot
      BY <3>1, <3>4 DEF Accounted
    <3>5. ASSUME NEW k \in 1..Len(c.votes), c.votes[k].slot = w.slot,
                 c.votes[k].confirmation_count >= w.confirmation_count
          PROVE  Accounted(v, c)
      <4>1. c.votes[k].confirmation_count \in Nat
        BY GoodFields
      <4>2. c.votes[k].confirmation_count >= v.confirmation_count
        BY SMTT(60), <2>1, <3>1, <3>5, <4>1
      <4> QED BY <3>1, <3>5, <4>2 DEF Accounted
    <3>6. ASSUME NEW k \in 1..Len(c.votes), c.votes[k].slot > last_locked_out_slot(w)
          PROVE  Accounted(v, c)
      <4>1. c.votes[k].slot \in Nat
        BY SMTT(60), GoodFields
      <4>2. c.votes[k].slot > last_locked_out_slot(v)
        BY <2>1, <3>1, <3>3, <3>6, <4>1
      <4> QED BY <4>2 DEF Accounted
    <3> QED BY <3>2, <3>4, <3>5, <3>6 DEF Accounted
  <2>5. ASSUME NEW j \in 1..Len(b.votes), b.votes[j].slot > last_locked_out_slot(v)
        PROVE  Accounted(v, c)
    <3>1. b.votes[j].slot \in Nat /\ b.votes[j].slot <= last_voted_slot(b.votes)
      BY GoodFields
    <3>2. last_voted_slot(c.votes) > last_locked_out_slot(v)
      BY SMTT(60), <1>1, <2>1, <2>5, <3>1 DEF Progress
    <3>3. c.votes # <<>>
      BY <2>1, <3>2 DEF last_voted_slot, NoSlot
    <3>4. Len(c.votes) \in 1..Len(c.votes) /\ c.votes[Len(c.votes)].slot = last_voted_slot(c.votes)
      BY <3>3, GoodFields DEF last_voted_slot
    <3> QED BY <3>2, <3>4 DEF Accounted
  <2>6. QED BY <2>2, <2>3, <2>4, <2>5 DEF Accounted, v
<1> QED BY <1>2, <1>3 DEF Progress

----------------------------------------------------------------------------
(* CreditsChained, as a predicate of a credit history and an epoch. *)
ChainedTo(credits, e) ==
  /\ Len(credits) <= MAX_EPOCH_CREDITS_HISTORY
  /\ \A i \in 1..Len(credits) :
       /\ credits[i].credits > credits[i].prev_credits
       /\ credits[i].epoch <= e
  /\ \A i \in 1..(Len(credits) - 1) :
       /\ credits[i].epoch < credits[i + 1].epoch
       /\ credits[i].credits = credits[i + 1].prev_credits

(* increment_credits keeps the type and the chain of the history. *)
LEMMA IncrementCredits ==
  ASSUME NEW credits \in Seq(EpochCredits), NEW e \in Nat, ChainedTo(credits, e)
  PROVE  /\ increment_credits(credits, e) \in Seq(EpochCredits)
         /\ ChainedTo(increment_credits(credits, e), e)
<1> DEFINE n == Len(credits)
           new == [epoch |-> e, credits |-> credits[n].credits,
                   prev_credits |-> credits[n].credits]
           r == increment_credits(credits, e)
           M == MAX_EPOCH_CREDITS_HISTORY
<1>0. n \in Nat /\ n <= M /\ M \in Nat /\ M > 0
  BY VoteStateAssumption DEF ChainedTo
<1>a. ASSUME NEW c \in EpochCredits
      PROVE  /\ c.epoch \in Nat /\ c.credits \in Nat /\ c.prev_credits \in Nat
             /\ [c EXCEPT !.credits = @ + 1] \in EpochCredits
             /\ [c EXCEPT !.credits = @ + 1].credits = c.credits + 1
             /\ [c EXCEPT !.credits = @ + 1].epoch = c.epoch
             /\ [c EXCEPT !.credits = @ + 1].prev_credits = c.prev_credits
  <2>1. c.epoch \in Nat /\ c.credits \in Nat /\ c.prev_credits \in Nat
    BY DEF EpochCredits
  <2>2. c.credits + 1 \in Nat
    BY <2>1
  <2>3. c = [epoch |-> c.epoch, credits |-> c.credits, prev_credits |-> c.prev_credits]
    BY DEF EpochCredits
  <2>4. [c EXCEPT !.credits = @ + 1]
          = [epoch |-> c.epoch, credits |-> c.credits + 1, prev_credits |-> c.prev_credits]
    BY <2>3
  <2> QED BY <2>1, <2>2, <2>4 DEF EpochCredits
<1>b. \A i \in 1..n : credits[i] \in EpochCredits
  OBVIOUS
<1>1. CASE n = 0
  <2>1. r = <<[epoch |-> e, credits |-> 1, prev_credits |-> 0]>>
    <3> DEFINE o == <<[epoch |-> e, credits |-> 0, prev_credits |-> 0]>>
    <3>1. Len(o) = 1 /\ ~(Len(o) > M)
      BY <1>0
    <3>2. r = [o EXCEPT ![1].credits = @ + 1]
      BY <1>1, <3>1 DEF increment_credits
    <3> QED BY <3>2
  <2> HIDE DEF r
  <2>2. Len(r) = 1 /\ r[1] = [epoch |-> e, credits |-> 1, prev_credits |-> 0] /\ r \in Seq(EpochCredits)
    BY <2>1 DEF EpochCredits
  <2>3. ChainedTo(r, e)
    BY <1>0, <2>2 DEF ChainedTo
  <2> QED BY <2>2, <2>3 DEF r
<1>2. CASE n > 0 /\ credits[n].epoch = e
  <2>0. n \in 1..n /\ n \in Nat
    BY <1>0, <1>2
  <2>1. r = [credits EXCEPT ![n].credits = @ + 1]
    <3>1. ~ (Len(credits) > MAX_EPOCH_CREDITS_HISTORY) /\ Len(credits) # 0
      BY <1>0, <1>2
    <3> QED BY <1>2, <2>0, <3>1 DEF increment_credits
  <2>2. credits[n] \in EpochCredits
    BY <1>b, <2>0
  <2> HIDE DEF r
  <2>3. /\ Len(r) = n
        /\ r \in Seq(EpochCredits)
        /\ \A i \in 1..n : i # n => r[i] = credits[i]
        /\ r[n] = [credits[n] EXCEPT !.credits = @ + 1]
    <3> DEFINE c == [credits[n] EXCEPT !.credits = @ + 1]
    <3>1. c \in EpochCredits
      BY <1>a, <2>2
    <3>2. r = [credits EXCEPT ![n] = c]
      BY <2>1
    <3> HIDE DEF c
    <3>3. /\ Len(r) = n
          /\ r \in Seq(EpochCredits)
          /\ \A i \in 1..n : i # n => r[i] = credits[i]
          /\ r[n] = c
      BY <2>0, <3>1, <3>2
    <3> QED BY <3>3 DEF c
  <2>4. r[n].credits = credits[n].credits + 1 /\ r[n].epoch = e
        /\ r[n].prev_credits = credits[n].prev_credits
    BY <1>a, <1>2, <2>2, <2>3
  <2>5. ASSUME NEW i \in 1..n
        PROVE  r[i].credits > r[i].prev_credits /\ r[i].epoch <= e
    <3>1. CASE i = n
      <4>1. credits[n].credits > credits[n].prev_credits
        BY <2>0 DEF ChainedTo
      <4>2. credits[n].credits \in Nat /\ credits[n].prev_credits \in Nat
        BY Zenon, <1>a, <2>2
      <4> QED BY <2>4, <3>1, <4>1, <4>2
    <3>2. CASE i # n
      BY <2>3, <3>2 DEF ChainedTo
    <3> QED BY <3>1, <3>2
  <2>6. ASSUME NEW i \in 1..(n - 1)
        PROVE  r[i].epoch < r[i + 1].epoch /\ r[i].credits = r[i + 1].prev_credits
    <3>0. i \in 1..n /\ i # n /\ i + 1 \in 1..n
      BY <1>0
    <3>1. r[i] = credits[i]
      BY <2>3, <3>0
    <3>2. r[i + 1].epoch = credits[i + 1].epoch /\ r[i + 1].prev_credits = credits[i + 1].prev_credits
      BY Zenon, <1>2, <2>3, <2>4, <3>0
    <3> QED BY <3>1, <3>2 DEF ChainedTo
  <2>7. ChainedTo(r, e)
    BY <1>0, <2>3, <2>5, <2>6 DEF ChainedTo
  <2> QED BY <2>3, <2>7 DEF r
<1>3. CASE n > 0 /\ credits[n].epoch # e
  <2>0a. n \in 1..n /\ n # 0
    BY <1>0, <1>3
  <2>0. /\ n \in 1..n /\ credits[n] \in EpochCredits /\ n # 0
        /\ credits[n].epoch \in Nat /\ credits[n].credits \in Nat
        /\ credits[n].prev_credits \in Nat
    BY Zenon, <1>a, <1>b, <2>0a
  <2>1. credits[n].credits > credits[n].prev_credits /\ credits[n].epoch < e
    BY <1>3, <2>0 DEF ChainedTo
  <2>2. credits[n].credits # credits[n].prev_credits
    BY <2>0, <2>1
  <2> DEFINE o == Append(credits, new)
             kept == IF Len(o) > M THEN Tail(o) ELSE o
             d == IF Len(o) > M THEN 1 ELSE 0
             m == n + 1 - d
             last == [epoch |-> e, credits |-> credits[n].credits + 1,
                      prev_credits |-> credits[n].credits]
  <2>3. r = [kept EXCEPT ![Len(kept)].credits = @ + 1]
    BY Zenon, <1>3, <2>0, <2>2 DEF increment_credits
  <2>4. new \in EpochCredits /\ last \in EpochCredits
    BY <2>0 DEF EpochCredits
  <2>5. /\ o \in Seq(EpochCredits)
        /\ Len(o) = n + 1
        /\ \A i \in 1..n : o[i] = credits[i]
        /\ o[n + 1] = new
    <3> HIDE DEF new
    <3> QED BY <1>0, <2>4
  <2> HIDE DEF o
  <2>6. m \in Nat /\ m > 0 /\ m <= M /\ d \in {0, 1}
    <3>1. d \in {0, 1} /\ n + 1 - d <= M
      BY <1>0, <2>5
    <3> HIDE DEF d
    <3> QED BY <1>0, <1>3, <3>1
  <2>7. /\ kept \in Seq(EpochCredits)
        /\ Len(kept) = m
        /\ \A i \in 1..m : kept[i] = o[i + d]
    <3>1. CASE Len(o) > M
      BY <1>0, <2>5, <3>1
    <3>2. CASE ~(Len(o) > M)
      BY <1>0, <2>5, <3>2
    <3> QED BY <3>1, <3>2
  <2> HIDE DEF kept, d
  <2>8. /\ \A i \in 1..(m - 1) : i \in 1..m /\ kept[i] = credits[i + d] /\ i + d \in 1..n
        /\ kept[m] = new
    <3>1. \A i \in 1..(m - 1) : i \in 1..m /\ i + d \in 1..n
      BY <1>0, <2>6
    <3>2. m \in 1..m /\ m + d = n + 1
      BY <1>0, <2>6
    <3> QED BY SMTT(60), <2>5, <2>7, <3>1, <3>2
  <2> HIDE DEF r, m
  <2>9. /\ r \in Seq(EpochCredits)
        /\ Len(r) = m
        /\ \A i \in 1..(m - 1) : r[i] = credits[i + d]
        /\ r[m] = last
    <3>1. r = [kept EXCEPT ![m].credits = @ + 1]
      BY <2>3, <2>7
    <3>2. [new EXCEPT !.credits = @ + 1] = last
      OBVIOUS
    <3>3. r = [kept EXCEPT ![m] = last]
      BY Zenon, <2>8, <3>1, <3>2
    <3> HIDE DEF last, new
    <3> QED BY <2>4, <2>6, <2>7, <2>8, <3>3
  <2>10. ASSUME NEW i \in 1..m
         PROVE  r[i].credits > r[i].prev_credits /\ r[i].epoch <= e
    <3>1. CASE i = m
      <4>1. /\ r[i].credits = credits[n].credits + 1
            /\ r[i].prev_credits = credits[n].credits
            /\ r[i].epoch = e
        BY <2>9, <3>1
      <4> QED BY <2>0, <4>1
    <3>2. CASE i # m
      <4>1. i \in 1..(m - 1)
        BY <2>6, <3>2
      <4> QED BY <2>8, <2>9, <4>1 DEF ChainedTo
    <3> QED BY <3>1, <3>2
  <2>11. ASSUME NEW i \in 1..(m - 1)
         PROVE  r[i].epoch < r[i + 1].epoch /\ r[i].credits = r[i + 1].prev_credits
    <3>0. i + d \in 1..n /\ r[i] = credits[i + d]
      BY <2>8, <2>9
    <3>1. CASE i + 1 = m
      <4>1. i + d = n
        BY <1>0, <2>6, <3>1 DEF m
      <4>2. r[i] = credits[n] /\ r[i + 1] = last
        BY <2>9, <3>0, <3>1, <4>1
      <4> QED BY <2>0, <2>1, <4>2
    <3>2. CASE i + 1 # m
      <4>1. i + 1 \in 1..(m - 1) /\ i + d \in 1..(n - 1) /\ (i + 1) + d = (i + d) + 1
        BY <1>0, <2>6, <3>2 DEF m
      <4>2. r[i + 1] = credits[(i + d) + 1]
        BY <2>9, <4>1
      <4> QED BY SMTT(60), <3>0, <4>1, <4>2 DEF ChainedTo
    <3> QED BY <3>1, <3>2
  <2>12. ChainedTo(r, e)
    BY Zenon, <2>6, <2>9, <2>10, <2>11 DEF ChainedTo
  <2> QED BY <2>9, <2>12 DEF r
<1> QED BY <1>0, <1>1, <1>2, <1>3

----------------------------------------------------------------------------
GoodAt(e) == {vs \in Good : ChainedTo(vs.epoch_credits, e)}

(* Nothing is lost by not moving. *)
LEMMA ProgressReflexive ==
  ASSUME NEW vs \in Good
  PROVE  Progress(vs, vs)
<1>1. /\ vs.root_slot \in Int /\ last_voted_slot(vs.votes) \in Int
      /\ \A i \in 1..Len(vs.votes) : vs.votes[i].confirmation_count \in Nat
  BY GoodFields
<1>2. \A i \in 1..Len(vs.votes) : Accounted(vs.votes[i], vs)
  <2> SUFFICES ASSUME NEW i \in 1..Len(vs.votes) PROVE Accounted(vs.votes[i], vs)
    OBVIOUS
  <2>1. vs.votes[i].confirmation_count >= vs.votes[i].confirmation_count
    BY <1>1
  <2> QED BY <2>1 DEF Accounted
<1> QED BY <1>1, <1>2 DEF Progress

(* One slot pushed by process_next_vote_slot. *)
LEMMA NextVoteStep ==
  ASSUME NEW e \in Nat, NEW vs \in GoodAt(e), NEW slot \in Nat
  PROVE  LET r == process_next_vote_slot(vs, slot, e)
         IN  /\ r \in GoodAt(e)
             /\ Progress(vs, r)
             /\ SlotsFrom(vs, r, {slot})
<1> DEFINE r == process_next_vote_slot(vs, slot, e)
           votes == vs.votes
           rooted == NextVoteRoots(votes, slot)
           new == VotesAfterNextVote(votes, slot)
<1>0. vs \in Good /\ vs \in VoteStates /\ ChainedTo(vs.epoch_credits, e) /\ AboveRoot(vs)
  BY DEF GoodAt, Good
<1>1. /\ WellFormed(votes)
      /\ Len(votes) \in Nat
      /\ vs.root_slot \in Int
      /\ last_voted_slot(votes) \in Int
      /\ last_voted_slot(votes) >= -1
      /\ \A i \in 1..Len(votes) : /\ votes[i].slot \in Nat
                                  /\ votes[i].slot <= last_voted_slot(votes)
  BY <1>0, GoodFields
<1>2. CASE NextVoteIgnored(votes, slot)
  <2>1. r = vs
    BY <1>2 DEF process_next_vote_slot
  <2>2. SlotsFrom(vs, vs, {slot})
    BY DEF SlotsFrom
  <2> QED BY <1>0, <2>1, <2>2, ProgressReflexive
<1>3. CASE ~ NextVoteIgnored(votes, slot)
  <2>1. slot > last_voted_slot(votes)
    BY SMTT(60), <1>1, <1>3 DEF NextVoteIgnored
  <2>2. /\ WellFormed(new)
        /\ Len(new) > 0
        /\ last_voted_slot(new) = slot
        /\ \A i \in 1..Len(new) : \/ new[i].slot = slot
                                  \/ \E j \in 1..Len(votes) : new[i].slot = votes[j].slot
        /\ rooted =>
             /\ Len(votes) > 0
             /\ \A i \in 1..Len(new) : new[i].slot > votes[1].slot
        /\ \A j \in 1..Len(votes) :
             \/ rooted /\ votes[j].slot <= votes[1].slot
             \/ \E i \in 1..Len(new) :
                  /\ new[i].slot = votes[j].slot
                  /\ new[i].confirmation_count >= votes[j].confirmation_count
             \/ slot > last_locked_out_slot(votes[j])
    BY Zenon, <1>1, <2>1, NextVote
  <2> DEFINE root == IF rooted THEN votes[1].slot ELSE vs.root_slot
             credits == IF rooted THEN increment_credits(vs.epoch_credits, e)
                        ELSE vs.epoch_credits
  <2>3. r = [vs EXCEPT !.votes = new, !.root_slot = root, !.epoch_credits = credits]
    BY <1>3 DEF process_next_vote_slot
  <2>4. credits \in Seq(EpochCredits) /\ ChainedTo(credits, e)
    <3>1. vs.epoch_credits \in Seq(EpochCredits)
      BY <1>0 DEF VoteStates
    <3> QED BY <1>0, <3>1, IncrementCredits
  <2>5. root \in Nat \cup {NoSlot} /\ root \in Int /\ root >= vs.root_slot
    <3>1. CASE rooted
      <4>1. 1 \in 1..Len(votes)
        BY <1>1, <2>2, <3>1
      <4>2. votes[1].slot \in Nat
        BY <1>1, <4>1
      <4>3. vs.root_slot # 0 => votes[1].slot > vs.root_slot
        BY <1>0, <4>1 DEF AboveRoot
      <4>4. root = votes[1].slot
        BY <3>1
      <4> HIDE DEF root
      <4> QED BY <1>1, <4>2, <4>3, <4>4
    <3>2. CASE ~ rooted
      BY <1>0, <1>1, <3>2 DEF VoteStates, Slot
    <3> QED BY <3>1, <3>2
  <2>6. new \in Seq(Lockout)
    BY <2>2 DEF WellFormed
  <2>7. root # 0 => \A i \in 1..Len(new) : new[i].slot > root
    <3>1. CASE rooted
      BY <2>2, <3>1
    <3>2. CASE ~ rooted
      <4> SUFFICES ASSUME NEW i \in 1..Len(new), vs.root_slot # 0
                   PROVE  new[i].slot > vs.root_slot
        BY <3>2
      <4>1. \A j \in 1..Len(votes) : votes[j].slot > vs.root_slot
        BY <1>0 DEF AboveRoot
      <4>2. slot > vs.root_slot
        <5>1. CASE Len(votes) = 0
          BY <1>0, <5>1 DEF AboveRoot, NoSlot
        <5>2. CASE Len(votes) # 0
          <6>1. 1 \in 1..Len(votes)
            BY <1>1, <5>2
          <6>2. /\ votes[1].slot \in Nat /\ votes[1].slot <= last_voted_slot(votes)
                /\ votes[1].slot > vs.root_slot
            BY <1>1, <4>1, <6>1
          <6> QED BY <1>1, <2>1, <6>2
        <5> QED BY <5>1, <5>2
      <4> QED BY <2>2, <4>1, <4>2
    <3> QED BY <3>1, <3>2
  <2> HIDE DEF new, root, credits, r, rooted
  <2>8. /\ r \in VoteStates
        /\ r.votes = new
        /\ r.root_slot = root
        /\ r.epoch_credits = credits
    <3>1. r = [votes |-> new, root_slot |-> root, epoch_credits |-> credits,
               last_timestamp |-> vs.last_timestamp]
      BY Zenon, <1>0, <2>3 DEF VoteStates
    <3>2. vs.last_timestamp \in [slot : Slot, timestamp : Nat]
      BY <1>0 DEF VoteStates
    <3> QED BY <2>4, <2>5, <2>6, <3>1, <3>2 DEF VoteStates, Slot
  <2>9. r \in GoodAt(e)
    BY <2>2, <2>4, <2>7, <2>8 DEF GoodAt, Good, AboveRoot
  <2>10. \A j \in 1..Len(votes) : Accounted(votes[j], r)
    <3> SUFFICES ASSUME NEW j \in 1..Len(votes) PROVE Accounted(votes[j], r)
      OBVIOUS
    <3>1. CASE rooted /\ votes[j].slot <= votes[1].slot
      BY <2>8, <3>1 DEF Accounted, root
    <3>2. CASE \E i \in 1..Len(new) :
                  /\ new[i].slot = votes[j].slot
                  /\ new[i].confirmation_count >= votes[j].confirmation_count
      BY <2>8, <3>2 DEF Accounted
    <3>3. CASE slot > last_locked_out_slot(votes[j])
      <4>1. Len(new) \in 1..Len(new) /\ new[Len(new)].slot = slot
        <5>1. Len(new) \in 1..Len(new)
          BY <2>2, <2>6
        <5> QED BY <2>2, <5>1, LastIsGreatest
      <4> QED BY <2>8, <3>3, <4>1 DEF Accounted
    <3> QED BY <2>2, <3>1, <3>2, <3>3
  <2>11. Progress(vs, r)
    BY SMTT(60), <1>1, <2>1, <2>2, <2>5, <2>8, <2>10 DEF Progress
  <2>12. SlotsFrom(vs, r, {slot})
    BY <2>1, <2>2, <2>8 DEF SlotsFrom
  <2> QED BY <2>9, <2>11, <2>12 DEF r
<1> QED BY <1>2, <1>3

(***************************************************************************)
(* All the slots of a vote, pushed one after the other: the recursive      *)
(* function of process_vote_slots exists, and keeps what one step keeps.   *)
(***************************************************************************)
LEMMA VoteSlots ==
  ASSUME NEW e \in Nat, NEW vs \in GoodAt(e), NEW slots \in Seq(Nat), NEW S,
         \A k \in 1..Len(slots) : slots[k] > last_voted_slot(vs.votes) => slots[k] \in S
  PROVE  LET r == process_vote_slots(vs, slots, e)
         IN  /\ r \in GoodAt(e)
             /\ Progress(vs, r)
             /\ SlotsFrom(vs, r, S)
<1> DEFINE n == Len(slots)
           V == GoodAt(e)
           step(k, x) == process_next_vote_slot(x, slots[k], e)
           body(g) == [k \in 0..n |-> IF k = 0 THEN vs ELSE step(k, g[k - 1])]
           after == CHOOSE g : g = body(g)
           F == [k \in 1..n |-> [x \in V |-> step(k, x)]]
<1>0. n \in Nat /\ \A k \in 1..n : slots[k] \in Nat
  OBVIOUS
<1>1. process_vote_slots(vs, slots, e) = after[n]
  BY DEF process_vote_slots
<1>2. \A k \in 1..n : \A x \in V : /\ step(k, x) \in V
                                   /\ Progress(x, step(k, x))
                                   /\ SlotsFrom(x, step(k, x), {slots[k]})
  BY <1>0, NextVoteStep
<1> HIDE DEF step, n, V
<1>3. after = body(after)
  <2>1. F \in Steps(n, V)
    BY Zenon, <1>2 DEF Steps
  <2>2. vs \in V
    BY DEF V
  <2>3. PICK g : IsRun(g, n, V, vs, F)
    <3> HIDE DEF F, body
    <3> QED BY <1>0, <2>1, <2>2, RecursionExists
  <2>4. /\ g \in [0..n -> V]
        /\ g[0] = vs
        /\ \A k \in 1..n : g[k] = F[k][g[k - 1]]
    <3> HIDE DEF F
    <3> QED BY <2>3 DEF IsRun
  <2>5. \A k \in 1..n : g[k] = step(k, g[k - 1])
    <3> SUFFICES ASSUME NEW k \in 1..n PROVE g[k] = step(k, g[k - 1])
      OBVIOUS
    <3>1. g[k - 1] \in V
      BY <1>0, <2>4
    <3> QED BY Zenon, <2>4, <3>1
  <2>6. g = body(g)
    BY <1>0, <2>4, <2>5
  <2> HIDE DEF body
  <2> QED BY <2>6
<1>4. after[0] = vs /\ \A k \in 1..n : after[k] = step(k, after[k - 1])
  <2> HIDE DEF after
  <2> QED BY <1>0, <1>3
<1> HIDE DEF after
<1> DEFINE good(k) == /\ after[k] \in V
                      /\ Progress(vs, after[k])
                      /\ SlotsFrom(vs, after[k], S)
           D == {k \in 0..n : good(k)}
<1>5. 0 \in D
  <2>1. vs \in Good
    BY DEF GoodAt
  <2>2. Progress(vs, vs) /\ SlotsFrom(vs, vs, S)
    BY <2>1, ProgressReflexive DEF SlotsFrom
  <2> QED BY <1>0, <1>4, <2>2 DEF V
<1>6. \A k \in 0..(n - 1) : k \in D => k + 1 \in D
  <2> SUFFICES ASSUME NEW k \in 0..(n - 1), good(k) PROVE good(k + 1)
    <3>1. \A k \in 0..(n - 1) : k + 1 \in 0..n
      BY <1>0
    <3> HIDE DEF good
    <3> QED BY <3>1
  <2> DEFINE a == after[k]
             b == after[k + 1]
  <2>0. k + 1 \in 1..n /\ (k + 1) - 1 = k
    BY <1>0
  <2>1. b = step(k + 1, a)
    BY <1>4, <2>0
  <2>2. b \in V /\ Progress(a, b) /\ SlotsFrom(a, b, {slots[k + 1]})
    BY SMTT(60), <1>2, <2>0, <2>1
  <2>3. a \in Good /\ b \in Good /\ vs \in Good
    BY <2>2 DEF V, GoodAt
  <2> HIDE DEF a, b
  <2>4. Progress(vs, a) /\ SlotsFrom(vs, a, S)
    BY DEF a
  <2>5. Progress(vs, b)
    BY SMTT(60), <2>2, <2>3, <2>4, ProgressTransitive
  <2>6. SlotsFrom(vs, b, S)
    <3> SUFFICES ASSUME NEW i \in 1..Len(b.votes)
                 PROVE  \/ \E j \in 1..Len(vs.votes) : b.votes[i].slot = vs.votes[j].slot
                        \/ /\ b.votes[i].slot \in S
                           /\ b.votes[i].slot > last_voted_slot(vs.votes)
      BY DEF SlotsFrom
    <3>1. CASE \E j \in 1..Len(a.votes) : b.votes[i].slot = a.votes[j].slot
      BY <2>4, <3>1 DEF SlotsFrom
    <3>2. CASE b.votes[i].slot = slots[k + 1] /\ slots[k + 1] > last_voted_slot(a.votes)
      <4>1. /\ last_voted_slot(a.votes) \in Int
            /\ last_voted_slot(vs.votes) \in Int
            /\ last_voted_slot(a.votes) >= last_voted_slot(vs.votes)
        BY <2>3, <2>4, GoodFields DEF Progress
      <4>2. slots[k + 1] \in Nat
        BY <1>0, <2>0
      <4>3. slots[k + 1] > last_voted_slot(vs.votes)
        BY <3>2, <4>1, <4>2
      <4> QED BY SMTT(60), <2>0, <3>2, <4>3 DEF n
    <3> QED BY <2>2, <3>1, <3>2 DEF SlotsFrom
  <2> QED BY <2>2, <2>5, <2>6 DEF b
<1>7. n \in D
  <2> HIDE DEF D
  <2>1. \A k \in 0..n : k \in D
    BY Zenon, <1>0, <1>5, <1>6, SetInduction
  <2> QED BY <1>0, <2>1
<1> QED BY <1>1, <1>7 DEF V

----------------------------------------------------------------------------
(* The inductive invariant. *)
IInv ==
  /\ bank_slot \in Slot
  /\ slot_hashes \in Seq(Slot) /\ Len(slot_hashes) > 0
  /\ ancestors \subseteq Slot
  /\ \A i \in 1..Len(slot_hashes) : slot_hashes[i] \in ancestors
  /\ vote_state \in GoodAt(epoch)
  /\ \A i \in 1..Len(vote_state.votes) : vote_state.votes[i].slot \in ancestors

(* What either instruction establishes. *)
GoodStep ==
  /\ vote_state' \in GoodAt(epoch)
  /\ Progress(vote_state, vote_state')
  /\ \A i \in 1..Len(vote_state'.votes) : vote_state'.votes[i].slot \in ancestors

(* Epochs do not go backwards. *)
LEMMA EpochMonotone ==
  ASSUME NEW a \in Nat, NEW b \in Nat, a <= b
  PROVE  /\ a \div SLOTS_PER_EPOCH \in Nat
         /\ b \div SLOTS_PER_EPOCH \in Nat
         /\ a \div SLOTS_PER_EPOCH <= b \div SLOTS_PER_EPOCH
<1> DEFINE d == SLOTS_PER_EPOCH
           p == a \div d
           q == b \div d
<1>1. d \in Nat /\ d > 0
  BY VoteStateAssumption
<1>2. p \in Int /\ q \in Int /\ a = d * p + (a % d) /\ b = d * q + (b % d)
      /\ a % d \in 0..(d - 1) /\ b % d \in 0..(d - 1)
  BY <1>1
<1>3. p >= 0 /\ q >= 0
  BY <1>1
<1>4. ASSUME p > q PROVE FALSE
  <2>1. PICK k \in Nat : p = q + 1 + k
    <3>1. p - q - 1 \in Nat /\ p = q + 1 + (p - q - 1)
      BY <1>2, <1>4
    <3> QED BY <3>1
  <2> HIDE DEF p, q, d
  <2>2. d * p = d * q + d + d * k /\ d * k >= 0 /\ d * p \in Int /\ d * q \in Int /\ d * k \in Int
    BY <1>1, <1>2, <2>1
  <2> QED BY <1>1, <1>2, <2>2
<1> QED BY <1>2, <1>3, <1>4

(* The Vote instruction. *)
LEMMA VoteStep ==
  ASSUME IInv, NEW v \in VoteInputs, process_vote(v)
  PROVE  GoodStep
<1> DEFINE slots == RecentSlots(v.slots)
           last == last_voted_slot(vote_state.votes)
           keep == {i \in DOMAIN slots : slots[i] > last}
           fresh == Retain(slots, keep)
           r == process_vote_slots(vote_state, slots, epoch)
<1>1. v.slots \in Seq(Nat) /\ v.timestamp \in Nat \cup {-1}
  BY VoteStateAssumption DEF Slot
<1>2. slots \in Seq(Nat)
  BY <1>1, RetainProperties DEF RecentSlots
<1>3. epoch \in Nat /\ vote_state \in GoodAt(epoch)
  BY EpochMonotone DEF IInv, epoch, Slot
<1>4. Range(fresh) \subseteq Range(slot_hashes)
  BY DEF process_vote, check_slots_are_valid
<1>5. \A k \in 1..Len(slots) : slots[k] > last => slots[k] \in ancestors
  <2> SUFFICES ASSUME NEW k \in 1..Len(slots), slots[k] > last
               PROVE  slots[k] \in ancestors
    OBVIOUS
  <2> HIDE DEF slots, last
  <2>1. k \in keep
    BY <1>2
  <2> HIDE DEF keep
  <2>2. fresh \in Seq(Nat) /\ \E j \in 1..Len(fresh) : fresh[j] = slots[k]
    BY <1>2, <2>1, RetainProperties
  <2> HIDE DEF fresh
  <2>3. slots[k] \in Range(fresh)
    BY <2>2 DEF Range
  <2>4. slots[k] \in Range(slot_hashes)
    BY <1>4, <2>3
  <2> QED BY <2>4 DEF Range, IInv
<1>6. /\ r \in GoodAt(epoch)
      /\ Progress(vote_state, r)
      /\ SlotsFrom(vote_state, r, ancestors)
  <2> HIDE DEF slots
  <2> QED BY <1>2, <1>3, <1>5, VoteSlots
<1> HIDE DEF r
<1>7. PICK newest \in Range(v.slots) :
        vote_state' = [r EXCEPT !.last_timestamp = process_timestamp(@, newest, v.timestamp)]
  BY DEF process_vote, r
<1>8. newest \in Nat
  BY <1>1, <1>7 DEF Range
<1>9. /\ vote_state' \in VoteStates
      /\ vote_state'.votes = r.votes
      /\ vote_state'.root_slot = r.root_slot
      /\ vote_state'.epoch_credits = r.epoch_credits
  <2>1. r \in VoteStates
    BY <1>6 DEF GoodAt, Good
  <2>2. r.last_timestamp \in [slot : Slot, timestamp : Nat]
    BY <2>1 DEF VoteStates
  <2> DEFINE t == process_timestamp(r.last_timestamp, newest, v.timestamp)
  <2>3. t \in [slot : Slot, timestamp : Nat]
    BY <1>1, <1>8, <2>2 DEF process_timestamp, Slot
  <2> HIDE DEF t
  <2>4. vote_state' = [r EXCEPT !.last_timestamp = t]
    BY <1>7 DEF t
  <2> QED BY Zenon, <2>1, <2>3, <2>4 DEF VoteStates
<1>10. vote_state' \in GoodAt(epoch)
  BY SMTT(60), <1>6, <1>9 DEF GoodAt, Good, AboveRoot
<1>11. Progress(vote_state, vote_state')
  BY SMTT(60), <1>6, <1>9 DEF Progress, Accounted
<1>12. \A i \in 1..Len(vote_state'.votes) : vote_state'.votes[i].slot \in ancestors
  BY SMTT(60), <1>6, <1>9 DEF SlotsFrom, IInv
<1> QED BY <1>10, <1>11, <1>12 DEF GoodStep

(* The UpdateVoteState instruction. *)
LEMMA UpdateStep ==
  ASSUME IInv, NEW u \in UpdateInputs, process_vote_state_update(u)
  PROVE  GoodStep
<1> DEFINE new == ProposedVotes(u)
           root == ProposedRoot(u)
           L == [slot : Slot, confirmation_count : Nat]
           keep == {i \in DOMAIN u.lockouts :
                      \/ u.lockouts[i].slot >= earliest_slot_hash
                      \/ contains_slot(vote_state.votes, u.lockouts[i].slot)}
           old == vote_state.votes
<1>1. /\ u.lockouts \in Seq(L)
      /\ u.root \in Slot \cup {NoSlot}
      /\ u.timestamp \in Nat \cup {-1}
  BY Zenon, VoteStateAssumption
<1>2. epoch \in Nat /\ vote_state \in GoodAt(epoch)
  BY EpochMonotone DEF IInv, epoch, Slot
<1>3. /\ vote_state \in Good /\ vote_state \in VoteStates
      /\ ChainedTo(vote_state.epoch_credits, epoch)
  BY <1>2 DEF GoodAt, Good
<1>4. /\ Len(old) \in Nat
      /\ last_voted_slot(old) \in Int
      /\ \A i \in 1..Len(old) : /\ old[i].slot \in Nat
                                /\ old[i].slot <= last_voted_slot(old)
                                /\ last_locked_out_slot(old[i]) \in Nat
  BY <1>3, GoodFields
<1>5. /\ u.lockouts # <<>>
      /\ last_voted_slot(u.lockouts) > last_voted_slot(old)
      /\ last_voted_slot(u.lockouts) >= earliest_slot_hash
      /\ \A i \in DOMAIN u.lockouts :
           \/ u.lockouts[i].slot < earliest_slot_hash
           \/ u.lockouts[i].slot \in Range(slot_hashes)
  BY DEF process_vote_state_update, check_update_vote_state_slots_are_valid
<1>6. /\ NewVotesValid(new, root)
      /\ NoRollBack(new, root)
      /\ vote_state' =
           [votes          |-> new,
            root_slot      |-> root,
            epoch_credits  |-> IF root # vote_state.root_slot
                               THEN increment_credits(vote_state.epoch_credits, epoch)
                               ELSE vote_state.epoch_credits,
            last_timestamp |-> process_timestamp(vote_state.last_timestamp,
                                                 last_voted_slot(new), u.timestamp)]
  BY DEF process_vote_state_update, process_new_vote_state
<1>7. /\ new \in Seq(L)
      /\ \A j \in 1..Len(new) : \E i \in 1..Len(u.lockouts) :
            i \in keep /\ new[j] = u.lockouts[i]
      /\ Len(new) > 0
      /\ last_voted_slot(new) = last_voted_slot(u.lockouts)
  <2>1. Len(u.lockouts) > 0 /\ Len(u.lockouts) \in DOMAIN u.lockouts
    <3> HIDE DEF L
    <3> QED BY <1>1, <1>5
  <2>2. u.lockouts[Len(u.lockouts)].slot = last_voted_slot(u.lockouts)
    BY <1>5 DEF last_voted_slot
  <2>3. Len(u.lockouts) \in keep
    BY <1>5, <2>1, <2>2
  <2>4. new = Retain(u.lockouts, keep)
    BY DEF ProposedVotes
  <2> HIDE DEF L, keep, new
  <2> DEFINE proposed == u.lockouts
  <2>4a. /\ proposed \in Seq(L) /\ new = Retain(proposed, keep)
         /\ Len(proposed) > 0 /\ Len(proposed) \in keep
    BY <1>1, <2>1, <2>3, <2>4
  <2> HIDE DEF proposed
  <2>4b. /\ new \in Seq(L)
         /\ \A j \in 1..Len(new) : \E i \in 1..Len(proposed) :
              i \in keep /\ new[j] = proposed[i]
         /\ Len(new) > 0
         /\ new[Len(new)] = proposed[Len(proposed)]
    <3> DEFINE r == Retain(proposed, keep)
    <3>1. /\ r \in Seq(L)
          /\ \A j \in 1..Len(r) : \E i \in 1..Len(proposed) :
               i \in keep /\ r[j] = proposed[i]
          /\ Len(proposed) > 0 /\ Len(proposed) \in keep =>
               Len(r) > 0 /\ r[Len(r)] = proposed[Len(proposed)]
      <4>1. r \in Seq(L)
        BY <2>4a, RetainProperties
      <4>2. ASSUME NEW j \in 1..Len(r)
            PROVE  \E i \in 1..Len(proposed) : i \in keep /\ r[j] = proposed[i]
        BY SMTT(60), <2>4a, RetainedFrom
      <4>3. Len(proposed) > 0 /\ Len(proposed) \in keep =>
               Len(r) > 0 /\ r[Len(r)] = proposed[Len(proposed)]
        BY <2>4a, RetainProperties
      <4> QED BY <4>1, <4>2, <4>3
    <3> HIDE DEF r
    <3>2. new = r
      BY <2>4a DEF r
    <3> QED BY SMTT(60), <2>4a, <3>1, <3>2, Zenon
  <2>5. /\ new \in Seq(L)
        /\ \A j \in 1..Len(new) : \E i \in 1..Len(u.lockouts) :
             i \in keep /\ new[j] = u.lockouts[i]
        /\ Len(new) > 0
        /\ new[Len(new)] = u.lockouts[Len(u.lockouts)]
    BY <2>4b DEF proposed
  <2>6. new # <<>>
    BY <2>5
  <2> QED BY <2>2, <2>5, <2>6 DEF last_voted_slot
<1> HIDE DEF new, root
<1>8. new \in Seq(Lockout) /\ Len(new) \in Nat
  <2> HIDE DEF L
  <2>1. Len(new) \in Nat /\ new \in [1..Len(new) -> L]
    BY <1>7
  <2>2. \A i \in 1..Len(new) : /\ new[i].confirmation_count # 0
                               /\ new[i].confirmation_count <= MAX_LOCKOUT_HISTORY
    BY <1>6, <2>1 DEF NewVotesValid
  <2>3. ASSUME NEW i \in 1..Len(new) PROVE new[i] \in Lockout
    <3>1. new[i] \in L
      BY <2>1
    <3>2. new[i].confirmation_count \in Nat
      BY <3>1 DEF L
    <3>3. new[i].confirmation_count \in 1..MAX_LOCKOUT_HISTORY
      BY SMTT(60), <2>2, <3>2, LockoutAssumption
    <3> QED BY <3>1, <3>3 DEF L, Lockout
  <2>4. new \in [1..Len(new) -> Lockout]
    BY <2>1, <2>3
  <2> QED BY <2>1, <2>4
<1>9. WellFormed(new)
  BY <1>6, <1>8 DEF NewVotesValid, WellFormed
<1>10. \A i \in 1..Len(new) : /\ new[i].slot \in Nat
                              /\ new[i].slot <= last_voted_slot(new)
                              /\ last_voted_slot(new) = new[Len(new)].slot
  BY <1>9, LastIsGreatest
<1>11. last_voted_slot(new) \in Nat /\ Len(new) \in 1..Len(new)
  BY SMTT(60), <1>7, <1>8, <1>10
<1>12. root \in Slot \cup {NoSlot} /\ root >= vote_state.root_slot
  BY <1>1, <1>3, <1>6 DEF root, ProposedRoot, VoteStates, NewVotesValid
<1>13. root # 0 => \A i \in 1..Len(new) : new[i].slot > root
  <2>1. CASE root = NoSlot
    BY SMTT(60), <1>10, <2>1 DEF NoSlot
  <2>2. CASE root # NoSlot
    BY <1>6, <1>8, <2>2 DEF NewVotesValid
  <2> QED BY <2>1, <2>2
<1>14. /\ vote_state' \in GoodAt(epoch)
       /\ vote_state'.votes = new
       /\ vote_state'.root_slot = root
  <2> DEFINE credits == IF root # vote_state.root_slot
                        THEN increment_credits(vote_state.epoch_credits, epoch)
                        ELSE vote_state.epoch_credits
             t == process_timestamp(vote_state.last_timestamp,
                                    last_voted_slot(new), u.timestamp)
  <2>1. credits \in Seq(EpochCredits) /\ ChainedTo(credits, epoch)
    <3>1. vote_state.epoch_credits \in Seq(EpochCredits)
      BY SMTT(60), <1>3 DEF VoteStates
    <3> QED BY <1>2, <1>3, <3>1, IncrementCredits
  <2>2. t \in [slot : Slot, timestamp : Nat]
    <3>1. vote_state.last_timestamp \in [slot : Slot, timestamp : Nat]
      BY <1>3 DEF VoteStates
    <3> QED BY <1>1, <1>11, <3>1 DEF process_timestamp, Slot
  <2> HIDE DEF credits, t
  <2>3. vote_state' = [votes |-> new, root_slot |-> root, epoch_credits |-> credits,
                       last_timestamp |-> t]
    BY <1>6 DEF credits, t
  <2>4. vote_state' \in VoteStates /\ vote_state'.votes = new
        /\ vote_state'.root_slot = root /\ vote_state'.epoch_credits = credits
    BY SMTT(60), <1>8, <1>12, <2>1, <2>2, <2>3 DEF VoteStates
  <2>5. AboveRoot(vote_state')
    BY SMTT(60), <1>7, <1>13, <2>4 DEF AboveRoot
  <2> QED BY <1>9, <2>1, <2>4, <2>5 DEF GoodAt, Good
<1>15. ASSUME NEW i \in 1..Len(old), ~ (old[i].slot <= root)
       PROVE  \E j \in 1..Len(new) :
                \/ /\ new[j].slot = old[i].slot
                   /\ new[j].confirmation_count >= old[i].confirmation_count
                \/ new[j].slot > last_locked_out_slot(old[i])
  <2> DEFINE J == {j \in 1..Len(new) : new[j].slot >= old[i].slot}
  <2>1. Len(new) \in J
    BY SMTT(60), <1>4, <1>5, <1>7, <1>10, <1>11
  <2>2. J \in SUBSET Nat /\ J # {}
    BY <1>8, <2>1
  <2>3. PICK j \in J : \A k \in J : j <= k
    <3> HIDE DEF J
    <3> QED BY <2>2, LeastElement
  <2>4. \A k \in 1..(j - 1) : new[k].slot < old[i].slot
    <3> SUFFICES ASSUME NEW k \in 1..(j - 1) PROVE new[k].slot < old[i].slot
      OBVIOUS
    <3>1. k \in 1..Len(new) /\ k < j
      BY <1>8
    <3> QED BY SMTT(60), <1>4, <1>10, <2>3, <3>1
  <2>5. j \in 1..Len(new) /\ new[j].slot >= old[i].slot /\ new[j].slot \in Nat
    BY <1>10
  <2>6. root \in Int /\ old[i].slot > root /\ old[i].slot \in Nat
    BY SMTT(60), <1>4, <1>12, <1>15 DEF Slot, NoSlot
  <2>7. DOMAIN new = 1..Len(new) /\ DOMAIN old = 1..Len(old)
    BY SMTT(60), <1>3, <1>8, GoodFields
  <2>8. IF new[j].slot = old[i].slot
        THEN new[j].confirmation_count >= old[i].confirmation_count
        ELSE ~ is_locked_out_at_slot(old[i], new[j].slot)
    BY Zenon, <1>6, <2>4, <2>5, <2>6, <2>7 DEF NoRollBack
  <2>9. CASE new[j].slot = old[i].slot
    BY <2>5, <2>8, <2>9
  <2>10. CASE new[j].slot # old[i].slot
    <3>1. last_locked_out_slot(old[i]) \in Nat
      BY <1>4
    <3>2. new[j].slot > last_locked_out_slot(old[i])
      BY SMTT(60), <2>5, <2>8, <2>10, <3>1 DEF is_locked_out_at_slot
    <3> QED BY <2>5, <3>2
  <2> QED BY SMTT(60), <2>9, <2>10
<1>16. Progress(vote_state, vote_state')
  <2>1. last_voted_slot(new) >= last_voted_slot(old)
    BY SMTT(60), <1>4, <1>5, <1>7, <1>11
  <2> QED BY SMTT(60), <1>12, <1>14, <1>15, <2>1 DEF Progress, Accounted
<1>17. ASSUME NEW j \in 1..Len(new) PROVE new[j].slot \in ancestors
  <2>1. PICK i \in 1..Len(u.lockouts) : i \in keep /\ new[j] = u.lockouts[i]
    BY Zenon, <1>7
  <2>2. CASE u.lockouts[i].slot \in Range(slot_hashes)
    BY <2>1, <2>2 DEF Range, IInv
  <2>3. CASE contains_slot(old, u.lockouts[i].slot)
    BY SMTT(60), <2>1, <2>3 DEF contains_slot, IInv
  <2>4. CASE u.lockouts[i].slot < earliest_slot_hash /\ u.lockouts[i].slot >= earliest_slot_hash
    <3>1. u.lockouts[i].slot \in Nat
      BY <1>10, <2>1
    <3>2. earliest_slot_hash \in Nat
      <4>1. Len(slot_hashes) \in 1..Len(slot_hashes)
        BY DEF IInv
      <4> QED BY <4>1 DEF earliest_slot_hash, IInv, Slot
    <3> QED BY SMTT(60), <2>4, <3>1, <3>2
  <2> QED BY SMTT(60), <1>5, <2>1, <2>2, <2>3, <2>4
<1> QED BY <1>14, <1>16, <1>17 DEF GoodStep

(* The next bank of the fork. *)
LEMMA BankStep ==
  ASSUME IInv, NEW s \in 1..MaxSlot, NextBank(s)
  PROVE  IInv'
<1> DEFINE added == <<bank_slot>> \o slot_hashes
           m == IF Len(added) > MAX_ENTRIES THEN MAX_ENTRIES ELSE Len(added)
<1>0. MAX_ENTRIES \in Nat /\ MAX_ENTRIES > 0 /\ MaxSlot \in Nat
  BY VoteStateAssumption
<1>1. /\ bank_slot \in Nat /\ s \in Nat /\ s > bank_slot /\ bank_slot' = s
      /\ ancestors' = ancestors \cup {bank_slot}
      /\ slot_hashes' = SubSeq(added, 1, m)
      /\ vote_state' = vote_state
  BY <1>0 DEF IInv, NextBank, Slot
<1>2. /\ added \in Seq(Slot)
      /\ Len(added) = Len(slot_hashes) + 1
      /\ Len(slot_hashes) \in Nat
      /\ \A i \in 1..Len(added) : added[i] \in ancestors'
  <2>1. slot_hashes \in Seq(Slot) /\ <<bank_slot>> \in Seq(Slot) /\ Len(slot_hashes) \in Nat
    BY DEF IInv
  <2>2. /\ added \in Seq(Slot)
        /\ Len(added) = Len(slot_hashes) + 1
        /\ \A i \in 1..Len(added) : added[i] = IF i = 1 THEN bank_slot ELSE slot_hashes[i - 1]
    BY <2>1
  <2> HIDE DEF added
  <2>3. ASSUME NEW i \in 1..Len(added) PROVE added[i] \in ancestors'
    <3>1. CASE i = 1
      BY <1>1, <2>2, <3>1
    <3>2. CASE i # 1
      <4>1. i - 1 \in 1..Len(slot_hashes)
        BY <2>1, <2>2, <3>2
      <4> QED BY <1>1, <2>2, <3>2, <4>1 DEF IInv
    <3> QED BY <3>1, <3>2
  <2> QED BY <2>1, <2>2, <2>3
<1> HIDE DEF added
<1>3. m \in 1..Len(added)
  BY <1>0, <1>2
<1> HIDE DEF m
<1>4. /\ slot_hashes' \in Seq(Slot)
      /\ Len(slot_hashes') = m
      /\ \A i \in 1..m : slot_hashes'[i] = added[i] /\ i \in 1..Len(added)
  BY <1>1, <1>2, <1>3
<1>5. \A i \in 1..Len(slot_hashes') : slot_hashes'[i] \in ancestors'
  BY <1>2, <1>4
<1>6. vote_state' \in GoodAt(epoch')
  <2>1. epoch \in Nat /\ epoch' \in Nat /\ epoch <= epoch'
    BY SMTT(60), <1>1, EpochMonotone DEF epoch
  <2>2. vote_state \in Good /\ ChainedTo(vote_state.epoch_credits, epoch)
    BY DEF IInv, GoodAt
  <2>3. vote_state.epoch_credits \in Seq(EpochCredits)
    BY <2>2 DEF Good, VoteStates
  <2>4. \A i \in 1..Len(vote_state.epoch_credits) : vote_state.epoch_credits[i].epoch \in Nat
    <3>1. \A c \in EpochCredits : c.epoch \in Nat
      BY DEF EpochCredits
    <3> QED BY <2>3, <3>1
  <2>5. ChainedTo(vote_state.epoch_credits, epoch')
    BY <2>1, <2>2, <2>4 DEF ChainedTo
  <2> QED BY <1>1, <2>2, <2>5 DEF GoodAt
<1>7. bank_slot' \in Slot /\ ancestors' \subseteq Slot /\ Len(slot_hashes') > 0
  BY <1>1, <1>3, <1>4 DEF IInv, Slot
<1>8. \A i \in 1..Len(vote_state'.votes) : vote_state'.votes[i].slot \in ancestors'
  BY SMTT(60), <1>1 DEF IInv
<1> QED BY <1>4, <1>5, <1>6, <1>7, <1>8 DEF IInv

(* A good step of either instruction keeps the invariant. *)
LEMMA InstructionStep ==
  ASSUME IInv, GoodStep, UNCHANGED <<bank_slot, slot_hashes, ancestors>>
  PROVE  IInv'
BY DEF IInv, GoodStep, epoch

----------------------------------------------------------------------------
(* IInv holds initially, is kept by every step, and a step is Progress. *)
LEMMA InitInv == Init => IInv
<1> SUFFICES ASSUME Init PROVE IInv
  OBVIOUS
<1>1. /\ bank_slot \in Slot /\ slot_hashes \in Seq(Slot) /\ Len(slot_hashes) > 0
      /\ ancestors \subseteq Slot
      /\ \A i \in 1..Len(slot_hashes) : slot_hashes[i] \in ancestors
  BY DEF Init, Slot
<1>2. /\ vote_state \in VoteStates /\ vote_state.votes = <<>>
      /\ vote_state.root_slot = NoSlot /\ vote_state.epoch_credits = <<>>
  BY DEF Init, DefaultVoteState, VoteStates, Slot
<1>3. WellFormed(<<>>) /\ ChainedTo(<<>>, epoch)
  BY LockoutAssumption, VoteStateAssumption
     DEF WellFormed, SlotsOrdered, ConfirmationsOrdered, LockoutsChained, ChainedTo
<1>4. vote_state \in GoodAt(epoch)
  BY <1>2, <1>3 DEF GoodAt, Good, AboveRoot
<1> QED BY <1>1, <1>2, <1>4 DEF IInv

LEMMA NextInv == IInv /\ [Next]_vars => IInv' /\ Progress(vote_state, vote_state')
<1> SUFFICES ASSUME IInv, [Next]_vars
             PROVE  IInv' /\ Progress(vote_state, vote_state')
  OBVIOUS
<1>0. Progress(vote_state, vote_state)
  BY ProgressReflexive DEF IInv, GoodAt
<1>1. ASSUME NEW s \in 1..MaxSlot, NextBank(s)
      PROVE  IInv' /\ Progress(vote_state, vote_state')
  <2>1. vote_state' = vote_state
    BY <1>1 DEF NextBank
  <2> QED BY <1>0, <1>1, <2>1, BankStep
<1>2. ASSUME NEW v \in VoteInputs, process_vote(v)
      PROVE  IInv' /\ Progress(vote_state, vote_state')
  <2>1. GoodStep
    BY <1>2, VoteStep
  <2>2. UNCHANGED <<bank_slot, slot_hashes, ancestors>>
    BY <1>2 DEF process_vote
  <2>3. IInv'
    BY <2>1, <2>2, InstructionStep
  <2> QED BY <2>1, <2>3 DEF GoodStep
<1>3. ASSUME NEW u \in UpdateInputs, process_vote_state_update(u)
      PROVE  IInv' /\ Progress(vote_state, vote_state')
  <2>1. GoodStep
    BY <1>3, UpdateStep
  <2>2. UNCHANGED <<bank_slot, slot_hashes, ancestors>>
    BY <1>3 DEF process_vote_state_update
  <2>3. IInv'
    BY <2>1, <2>2, InstructionStep
  <2> QED BY <2>1, <2>3 DEF GoodStep
<1>4. CASE UNCHANGED vars
  <2>1. /\ bank_slot' = bank_slot /\ slot_hashes' = slot_hashes
        /\ ancestors' = ancestors /\ vote_state' = vote_state
    BY <1>4 DEF vars
  <2>2. IInv'
    BY <2>1 DEF IInv, epoch
  <2> QED BY <1>0, <2>1, <2>2
<1> QED BY <1>1, <1>2, <1>3, <1>4 DEF Next

LEMMA Invariance == Spec => []IInv
<1>1. IInv /\ [Next]_vars => IInv'
  BY NextInv
<1> QED BY <1>1, InitInv, PTL DEF Spec

(* The vote state always has its type, whatever instructions are sent. *)
THEOREM TypeCorrect == Spec => []TypeOK
<1>1. IInv => TypeOK
  BY DEF IInv, TypeOK, GoodAt, Good
<1> QED BY <1>1, Invariance, PTL

(***************************************************************************)
(* Vote and UpdateVoteState in any order keep the on-chain tower bounded,  *)
(* ordered, chained and above its root.                                    *)
(***************************************************************************)
THEOREM TowerIsWellFormed == Spec => []TowerWellFormed
<1>1. IInv => TowerWellFormed
  <2> SUFFICES ASSUME IInv PROVE TowerWellFormed
    OBVIOUS
  <2>1. vote_state \in Good
    BY DEF IInv, GoodAt
  <2>2. WellFormed(vote_state.votes) /\ AboveRoot(vote_state)
    BY <2>1 DEF Good
  <2>3. DOMAIN vote_state.votes = 1..Len(vote_state.votes)
    BY <2>2 DEF WellFormed
  <2> QED BY <2>2, <2>3 DEF TowerWellFormed, WellFormed, AboveRoot
<1> QED BY <1>1, Invariance, PTL

(* No instruction brings a vote for a slot of another fork into the tower. *)
THEOREM TowerIsOnThisFork == Spec => []VotesOnThisFork
<1>1. IInv => VotesOnThisFork
  <2> SUFFICES ASSUME IInv PROVE VotesOnThisFork
    OBVIOUS
  <2>1. vote_state \in Good
    BY DEF IInv, GoodAt
  <2>2. vote_state.votes \in Seq(Lockout)
    BY SMTT(60), <2>1, GoodFields
  <2> QED BY <2>2 DEF VotesOnThisFork, IInv
<1> QED BY <1>1, Invariance, PTL

(* increment_credits keeps the credit history chained and bounded. *)
THEOREM CreditsAreChained == Spec => []CreditsChained
<1>1. IInv => CreditsChained
  <2> SUFFICES ASSUME IInv PROVE CreditsChained
    OBVIOUS
  <2>1. vote_state \in VoteStates /\ ChainedTo(vote_state.epoch_credits, epoch)
    BY DEF IInv, GoodAt, Good
  <2>2. vote_state.epoch_credits \in Seq(EpochCredits)
    BY <2>1 DEF VoteStates
  <2>3. DOMAIN vote_state.epoch_credits = 1..Len(vote_state.epoch_credits)
    BY <2>2
  <2> QED BY <2>1, <2>3 DEF CreditsChained, ChainedTo
<1> QED BY <1>1, Invariance, PTL

(* Neither the root nor the last vote ever moves backwards. *)
THEOREM RootAndLastVoteAdvance == Spec => NeverBackwards
<1>1. IInv /\ [Next]_vars => [NoBackwardStep]_vars
  BY SMTT(60), NextInv DEF Progress, NoBackwardStep
<1> QED BY <1>1, Invariance, PTL DEF Spec, NeverBackwards

(***************************************************************************)
(* No instruction drops a vote, or takes confirmations from it, before it  *)
(* is rooted or a slot past its lockout is voted for.                      *)
(***************************************************************************)
THEOREM LockoutsAreKept == Spec => LockoutsKept
<1>1. IInv /\ [Next]_vars => [LockoutsKeptStep]_vars
  <2> SUFFICES ASSUME IInv, [Next]_vars, NEW i \in DOMAIN vote_state.votes
               PROVE  LET v == vote_state.votes[i]
                      IN  \/ v.slot <= vote_state'.root_slot
                          \/ \E w \in Range(vote_state'.votes) :
                               \/ /\ w.slot = v.slot
                                  /\ w.confirmation_count >= v.confirmation_count
                               \/ w.slot > last_locked_out_slot(v)
    BY DEF LockoutsKeptStep
  <2>1. vote_state \in Good
    BY DEF IInv, GoodAt
  <2>2. IInv' /\ Progress(vote_state, vote_state')
    BY NextInv
  <2>3. vote_state' \in Good
    BY <2>2 DEF IInv, GoodAt
  <2>4. i \in 1..Len(vote_state.votes)
    BY <2>1, GoodFields
  <2>5. DOMAIN vote_state'.votes = 1..Len(vote_state'.votes)
    BY <2>3, GoodFields
  <2>6. Accounted(vote_state.votes[i], vote_state')
    BY <2>2, <2>4 DEF Progress
  <2> QED BY <2>5, <2>6 DEF Accounted, Range
<1> QED BY <1>1, Invariance, PTL DEF Spec, LockoutsKept

=============================================================================
