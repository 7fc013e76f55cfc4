--------------------------- MODULE Lockouts_proofs ---------------------------
(***************************************************************************)
(* Facts about the lockout stack, for every stack depth and every tower.   *)
(***************************************************************************)
EXTENDS Lockouts, Induction, SequenceTheorems

(* The fields of the votes of a tower. *)
LEMMA LockoutFields ==
  ASSUME NEW votes \in Seq(Lockout)
  PROVE  \A i \in 1..Len(votes) :
           /\ votes[i] \in Lockout
           /\ votes[i].slot \in Nat
           /\ votes[i].confirmation_count \in Nat
           /\ votes[i].confirmation_count \in 1..MAX_LOCKOUT_HISTORY
           /\ lockout(votes[i]) \in Nat
           /\ last_locked_out_slot(votes[i]) \in Nat
<1> SUFFICES ASSUME NEW v \in Lockout
             PROVE  /\ v.slot \in Nat
                    /\ v.confirmation_count \in Nat
                    /\ v.confirmation_count \in 1..MAX_LOCKOUT_HISTORY
                    /\ lockout(v) \in Nat
                    /\ last_locked_out_slot(v) \in Nat
  BY ElementOfSeq
<1>1. /\ v.slot \in Nat
      /\ v.confirmation_count \in Nat
      /\ v.confirmation_count \in 1..MAX_LOCKOUT_HISTORY
      /\ lockout(v) \in Nat
  BY SMTT(60), LockoutAssumption DEF Lockout, Slot, lockout
<1>2. \A a, b \in Nat : a + b \in Nat
  OBVIOUS
<1>3. v.slot + lockout(v) \in Nat
  BY <1>1, <1>2, Zenon
<1> QED BY <1>1, <1>3 DEF last_locked_out_slot

(***************************************************************************)
(* A lockout never shrinks when its confirmation count grows by one.       *)
(***************************************************************************)
LEMMA LockoutGrows ==
  ASSUME NEW c \in 0..(MAX_LOCKOUT_HISTORY - 1)
  PROVE  Pow2[c] \in Nat /\ Pow2[c + 1] \in Nat /\ Pow2[c] <= Pow2[c + 1]
<1>1. c + 1 \in 1..MAX_LOCKOUT_HISTORY /\ (c + 1) - 1 = c
  BY LockoutAssumption
<1>2. Pow2[c + 1] = 2 * Pow2[c]
  BY <1>1, LockoutAssumption
<1>3. Pow2[c] \in Nat /\ Pow2[c + 1] \in Nat
  BY <1>1, LockoutAssumption
<1> QED BY <1>2, <1>3

(***************************************************************************)
(* pop_expired_votes always stops: NumUnpopped is the length of a prefix   *)
(* whose last vote is locked out and above which every vote has expired.   *)
(***************************************************************************)
LEMMA NumUnpoppedDef ==
  ASSUME NEW votes \in Seq(Lockout), NEW slot \in Nat
  PROVE  LET n == NumUnpopped(votes, slot)
         IN  /\ n \in 0..Len(votes)
             /\ n > 0 => is_locked_out_at_slot(votes[n], slot)
             /\ \A i \in (n + 1)..Len(votes) :
                  ~ is_locked_out_at_slot(votes[i], slot)
<1> DEFINE popped(n) == \A i \in (n + 1)..Len(votes) :
                          ~ is_locked_out_at_slot(votes[i], slot)
           S == {n \in 0..Len(votes) : popped(n)}
<1>1. Len(votes) \in S
  OBVIOUS
<1>2. S \in SUBSET Nat
  OBVIOUS
<1>3. PICK m \in S : \A k \in S : m <= k
  <2> HIDE DEF S
  <2> QED BY <1>1, <1>2, LeastElement
<1>4. m > 0 => is_locked_out_at_slot(votes[m], slot)
  <2> SUFFICES ASSUME m > 0, ~ is_locked_out_at_slot(votes[m], slot) PROVE FALSE
    OBVIOUS
  <2>1. m - 1 \in 0..Len(votes)
    OBVIOUS
  <2>2. popped(m - 1)
    <3> SUFFICES ASSUME NEW i \in ((m - 1) + 1)..Len(votes)
                 PROVE  ~ is_locked_out_at_slot(votes[i], slot)
      OBVIOUS
    <3>1. CASE i = m
      BY <3>1
    <3>2. CASE i # m
      BY <3>2
    <3> QED BY <3>1, <3>2
  <2> HIDE DEF popped
  <2>3. m - 1 \in S
    BY <2>1, <2>2
  <2> QED BY <2>3, <1>3
<1> QED
  BY <1>3, <1>4 DEF NumUnpopped

(* What a tower must satisfy; cf. TowerWellFormed in VoteState. *)
WellFormed(votes) ==
  /\ votes \in Seq(Lockout)
  /\ Len(votes) <= MAX_LOCKOUT_HISTORY
  /\ SlotsOrdered(votes)
  /\ ConfirmationsOrdered(votes)
  /\ LockoutsChained(votes)

(***************************************************************************)
(* In a tower with strictly decreasing counts, each vote has at least as   *)
(* many confirmations as there are votes from it to the top.               *)
(***************************************************************************)
LEMMA CountsCover ==
  ASSUME NEW votes \in Seq(Lockout), ConfirmationsOrdered(votes)
  PROVE  \A i \in 1..Len(votes) : votes[i].confirmation_count >= Len(votes) - i + 1
<1> DEFINE n == Len(votes)
           S == {d \in Nat : d < n => votes[n - d].confirmation_count >= d + 1}
<1>0. n \in Nat
  OBVIOUS
<1>1. 0 \in S
  <2>1. 0 < n => votes[n - 0].confirmation_count >= 1
    BY <1>0, LockoutFields
  <2> QED BY <2>1
<1>2. \A d \in 0..(n - 1) : d \in S => d + 1 \in S
  <2> SUFFICES ASSUME NEW d \in 0..(n - 1), d \in S, d + 1 < n
               PROVE  votes[n - (d + 1)].confirmation_count >= (d + 1) + 1
    BY SMTT(60)
  <2>1. votes[n - d].confirmation_count >= d + 1
    BY <1>0
  <2>2. n - (d + 1) \in 1..(n - 1) /\ (n - (d + 1)) + 1 = n - d
    BY <1>0
  <2>3. votes[n - (d + 1)].confirmation_count > votes[n - d].confirmation_count
    BY SMTT(60), <2>2 DEF ConfirmationsOrdered
  <2>4. /\ votes[n - (d + 1)].confirmation_count \in Nat
        /\ votes[n - d].confirmation_count \in Nat
    <3>1. n - d \in 1..n /\ n - (d + 1) \in 1..n
      BY <1>0, <2>2
    <3> QED BY Zenon, <3>1, LockoutFields
  <2> QED BY SMTT(60), <2>1, <2>3, <2>4
<1>3. \A d \in 0..n : d \in S
  <2> HIDE DEF S, n
  <2> QED BY <1>0, <1>1, <1>2, SetInduction
<1> SUFFICES ASSUME NEW i \in 1..n
             PROVE  votes[i].confirmation_count >= n - i + 1
  OBVIOUS
<1>4. n - i \in S /\ n - (n - i) = i /\ n - i < n
  BY <1>0, <1>3
<1> QED BY <1>4

(* Adjacent slots in order put all slots in order. *)
LEMMA SlotsIncrease ==
  ASSUME NEW votes \in Seq(Lockout), SlotsOrdered(votes),
         NEW i \in 1..Len(votes), NEW j \in 1..Len(votes), i < j
  PROVE  votes[i].slot < votes[j].slot
<1> DEFINE n == Len(votes)
           S == {d \in Nat : i + 1 + d <= n => votes[i].slot < votes[i + 1 + d].slot}
<1>0. n \in Nat /\ i \in 1..n /\ j \in 1..n
  OBVIOUS
<1>1. 0 \in S
  <2>1. i + 1 + 0 <= n => votes[i].slot < votes[i + 1 + 0].slot
    BY <1>0 DEF SlotsOrdered
  <2> QED BY <2>1
<1>2. \A d \in 0..(n - 1) : d \in S => d + 1 \in S
  <2> SUFFICES ASSUME NEW d \in 0..(n - 1), d \in S, i + 1 + (d + 1) <= n
               PROVE  votes[i].slot < votes[i + 1 + (d + 1)].slot
    OBVIOUS
  <2>1. votes[i].slot < votes[i + 1 + d].slot
    BY <1>0
  <2>2. i + 1 + d \in 1..(n - 1) /\ (i + 1 + d) + 1 = i + 1 + (d + 1)
    BY <1>0
  <2>3. votes[i + 1 + d].slot < votes[i + 1 + (d + 1)].slot
    BY <2>2 DEF SlotsOrdered
  <2>4. i \in 1..n /\ i + 1 + d \in 1..n /\ i + 1 + (d + 1) \in 1..n
    BY <1>0, <2>2
  <2>5. /\ votes[i].slot \in Nat
        /\ votes[i + 1 + d].slot \in Nat
        /\ votes[i + 1 + (d + 1)].slot \in Nat
    BY Zenon, <1>0, <2>4, LockoutFields
  <2> QED BY SMTT(60), <2>1, <2>3, <2>5
<1>3. \A d \in 0..n : d \in S
  <2> HIDE DEF S, n
  <2> QED BY <1>0, <1>1, <1>2, SetInduction
<1>4. PICK d \in 0..n : i + 1 + d = j
  <2>1. j - i - 1 \in 0..n /\ (i + 1) + (j - i - 1) = j
    BY <1>0
  <2> QED BY <2>1
<1> QED BY <1>0, <1>3, <1>4

(* In a tower with increasing slots the last vote is the newest. *)
LEMMA LastIsGreatest ==
  ASSUME NEW votes, WellFormed(votes), NEW i \in 1..Len(votes)
  PROVE  /\ votes[i].slot \in Nat
         /\ last_voted_slot(votes) \in Nat
         /\ votes[i].slot <= last_voted_slot(votes)
         /\ last_voted_slot(votes) = votes[Len(votes)].slot
<1>1. votes \in Seq(Lockout) /\ Len(votes) \in 1..Len(votes) /\ votes # <<>>
  BY DEF WellFormed
<1>2. votes[i].slot \in Nat /\ votes[Len(votes)].slot \in Nat
  BY <1>1, LockoutFields
<1>3. i # Len(votes) => votes[i].slot < votes[Len(votes)].slot
  BY <1>1, SlotsIncrease DEF WellFormed
<1> QED BY <1>1, <1>2, <1>3 DEF last_voted_slot

(***************************************************************************)
(* The tower below a new vote: what is left after popping expired votes    *)
(* and, when the stack is full, rooting the oldest.                        *)
(***************************************************************************)
Room(votes, slot) ==
  LET kept == pop_expired_votes(votes, slot)
  IN  IF Len(kept) = MAX_LOCKOUT_HISTORY THEN Tail(kept) ELSE kept

LEMMA KeptProperties ==
  ASSUME NEW votes \in Seq(Lockout), NEW slot \in Nat
  PROVE  LET kept == pop_expired_votes(votes, slot)
         IN  /\ kept \in Seq(Lockout)
             /\ Len(kept) \in 0..Len(votes)
             /\ \A i \in 1..Len(kept) : kept[i] = votes[i]
             /\ Len(kept) > 0 => is_locked_out_at_slot(votes[Len(kept)], slot)
             /\ \A i \in (Len(kept) + 1)..Len(votes) :
                  ~ is_locked_out_at_slot(votes[i], slot)
<1> DEFINE n == NumUnpopped(votes, slot)
<1>1. n \in 0..Len(votes)
  BY NumUnpoppedDef
<1>2. \A i \in 1..n : votes[i] \in Lockout
  BY <1>1
<1> HIDE DEF n
<1>3. /\ SubSeq(votes, 1, n) \in Seq(Lockout)
      /\ Len(SubSeq(votes, 1, n)) = n
      /\ \A i \in 1..n : SubSeq(votes, 1, n)[i] = votes[i]
  BY <1>1, <1>2, SubSeqProperties
<1>4. pop_expired_votes(votes, slot) = SubSeq(votes, 1, n)
  BY DEF pop_expired_votes, n
<1>5. /\ n > 0 => is_locked_out_at_slot(votes[n], slot)
      /\ \A i \in (n + 1)..Len(votes) : ~ is_locked_out_at_slot(votes[i], slot)
  BY NumUnpoppedDef DEF n
<1> QED BY <1>1, <1>3, <1>4, <1>5

(***************************************************************************)
(* Room is a contiguous piece of the old tower with space for one vote,    *)
(* whose newest vote is locked out at the new slot.                        *)
(***************************************************************************)
Offset(votes, slot) == IF NextVoteRoots(votes, slot) THEN 1 ELSE 0

LEMMA RoomShape ==
  ASSUME NEW votes, WellFormed(votes), NEW slot \in Nat
  PROVE  LET kept == pop_expired_votes(votes, slot)
             room == Room(votes, slot)
             off  == Offset(votes, slot)
         IN  /\ off \in {0, 1}
             /\ room \in Seq(Lockout)
             /\ Len(room) \in Nat
             /\ Len(room) = Len(kept) - off
             /\ Len(room) < MAX_LOCKOUT_HISTORY
             /\ Len(kept) <= Len(votes)
             /\ \A i \in 1..Len(room) : room[i] = votes[i + off]
<1> DEFINE kept == pop_expired_votes(votes, slot)
           room == Room(votes, slot)
           off  == Offset(votes, slot)
<1>1. /\ votes \in Seq(Lockout)
      /\ Len(votes) \in Nat
      /\ Len(votes) <= MAX_LOCKOUT_HISTORY
      /\ MAX_LOCKOUT_HISTORY \in Nat \ {0}
  BY LockoutAssumption DEF WellFormed
<1>2. /\ kept \in Seq(Lockout)
      /\ Len(kept) \in 0..Len(votes)
      /\ \A i \in 1..Len(kept) : kept[i] = votes[i]
  BY <1>1, KeptProperties
<1>3. off = IF Len(kept) = MAX_LOCKOUT_HISTORY THEN 1 ELSE 0
  BY DEF Offset, NextVoteRoots
<1>4. room = IF Len(kept) = MAX_LOCKOUT_HISTORY THEN Tail(kept) ELSE kept
  BY DEF Room
<1> HIDE DEF kept, room, off
<1>5. CASE Len(kept) = MAX_LOCKOUT_HISTORY
  <2>1. kept # <<>>
    BY <1>1, <1>2, <1>5
  <2>2. /\ Tail(kept) \in Seq(Lockout)
        /\ Len(Tail(kept)) = Len(kept) - 1
        /\ \A i \in 1..Len(Tail(kept)) : Tail(kept)[i] = kept[i + 1]
    BY <1>2, <2>1, HeadTailProperties
  <2> QED BY <1>1, <1>2, <1>3, <1>4, <1>5, <2>2 DEF kept, room, off
<1>6. CASE Len(kept) # MAX_LOCKOUT_HISTORY
  BY <1>1, <1>2, <1>3, <1>4, <1>6 DEF kept, room, off
<1> QED BY <1>5, <1>6

LEMMA RoomProperties ==
  ASSUME NEW votes, WellFormed(votes), NEW slot \in Nat,
         slot > last_voted_slot(votes)
  PROVE  LET room == Room(votes, slot)
         IN  /\ WellFormed(room)
             /\ Len(room) > 0 =>
                  /\ room[Len(room)].slot < slot
                  /\ slot <= last_locked_out_slot(room[Len(room)])
<1> DEFINE kept == pop_expired_votes(votes, slot)
           room == Room(votes, slot)
           off  == Offset(votes, slot)
<1>1. votes \in Seq(Lockout) /\ Len(votes) \in Nat
  BY DEF WellFormed
<1>2. Len(kept) \in Nat
      /\ Len(kept) > 0 => is_locked_out_at_slot(votes[Len(kept)], slot)
  BY <1>1, KeptProperties
<1>3. /\ off \in {0, 1}
      /\ room \in Seq(Lockout)
      /\ Len(room) \in Nat
      /\ Len(room) = Len(kept) - off
      /\ Len(room) < MAX_LOCKOUT_HISTORY
      /\ Len(kept) <= Len(votes)
      /\ \A i \in 1..Len(room) : room[i] = votes[i + off]
  BY RoomShape
<1> HIDE DEF kept, room, off
<1>5. SlotsOrdered(room) /\ ConfirmationsOrdered(room) /\ LockoutsChained(room)
  <2> SUFFICES ASSUME NEW i \in 1..(Len(room) - 1)
               PROVE  /\ room[i].slot < room[i + 1].slot
                      /\ room[i].confirmation_count > room[i + 1].confirmation_count
                      /\ room[i + 1].slot <= last_locked_out_slot(room[i])
    BY DEF SlotsOrdered, ConfirmationsOrdered, LockoutsChained
  <2>1. i + off \in 1..(Len(votes) - 1) /\ (i + 1) + off = (i + off) + 1
    BY <1>1, <1>2, <1>3
  <2>2. room[i] = votes[i + off] /\ room[i + 1] = votes[(i + off) + 1]
    BY SMTT(60), <1>3, <2>1
  <2> QED BY SMTT(60), <2>1, <2>2 DEF WellFormed, SlotsOrdered, ConfirmationsOrdered, LockoutsChained
<1>6. Len(room) > 0 => /\ room[Len(room)].slot < slot
                       /\ slot <= last_locked_out_slot(room[Len(room)])
  <2> SUFFICES ASSUME Len(room) > 0
               PROVE  /\ room[Len(room)].slot < slot
                      /\ slot <= last_locked_out_slot(room[Len(room)])
    OBVIOUS
  <2>1. room[Len(room)] = votes[Len(kept)] /\ Len(kept) \in 1..Len(votes)
    BY <1>1, <1>2, <1>3
  <2>2. votes[Len(kept)].slot < slot
    BY <1>1, <2>1, LastIsGreatest
  <2>3. is_locked_out_at_slot(votes[Len(kept)], slot)
    BY <1>2, <2>1
  <2>4. /\ votes[Len(kept)].slot \in Nat
        /\ lockout(votes[Len(kept)]) \in Nat
    BY <1>1, <2>1, LockoutFields
  <2> QED BY <2>1, <2>2, <2>3, <2>4 DEF is_locked_out_at_slot, last_locked_out_slot
<1>7. WellFormed(room)
  BY <1>3, <1>5, LockoutAssumption DEF WellFormed
<1> QED
  BY <1>6, <1>7 DEF room

(***************************************************************************)
(* double_lockouts on a tower with one new vote on top raises each count   *)
(* exactly to the number of votes from it to the top, if it was below.     *)
(***************************************************************************)
LEMMA DoubleLockouts ==
  ASSUME NEW room, WellFormed(room), Len(room) < MAX_LOCKOUT_HISTORY,
         NEW slot \in Nat,
         Len(room) > 0 => /\ room[Len(room)].slot < slot
                          /\ slot <= last_locked_out_slot(room[Len(room)])
  PROVE  LET n == Len(room) + 1
             r == double_lockouts(Append(room, NewLockout(slot)))
         IN  /\ WellFormed(r)
             /\ Len(r) = n
             /\ r[n].slot = slot
             /\ \A i \in 1..Len(room) :
                  /\ r[i].slot = room[i].slot
                  /\ r[i].confirmation_count >= room[i].confirmation_count
<1> DEFINE n == Len(room) + 1
           p == Append(room, NewLockout(slot))
           r == double_lockouts(p)
<1>1. room \in Seq(Lockout) /\ Len(room) \in Nat /\ MAX_LOCKOUT_HISTORY \in Nat \ {0}
  BY LockoutAssumption DEF WellFormed
<1>2. NewLockout(slot) \in Lockout
  BY <1>1 DEF NewLockout, Lockout, Slot
<1>3. /\ p \in Seq(Lockout)
      /\ Len(p) = n
      /\ \A i \in 1..Len(room) : p[i] = room[i]
      /\ p[n] = NewLockout(slot)
      /\ DOMAIN p = 1..n
  BY <1>1, <1>2, AppendProperties
<1>4. \A i \in 1..n : /\ p[i] \in Lockout
                      /\ p[i].slot \in Nat
                      /\ p[i].confirmation_count \in Nat
                      /\ p[i].confirmation_count \in 1..MAX_LOCKOUT_HISTORY
                      /\ p[i].confirmation_count >= n - i
                      /\ lockout(p[i]) \in Nat
  <2>1. \A i \in 1..Len(room) : room[i].confirmation_count >= Len(room) - i + 1
    BY <1>1, CountsCover DEF WellFormed
  <2>2. \A i \in 1..n : /\ p[i] \in Lockout
                        /\ p[i].slot \in Nat
                        /\ p[i].confirmation_count \in Nat
                        /\ p[i].confirmation_count \in 1..MAX_LOCKOUT_HISTORY
                        /\ lockout(p[i]) \in Nat
    <3> HIDE DEF p, n
    <3> QED BY SMTT(60), <1>3, LockoutFields
  <2> SUFFICES ASSUME NEW i \in 1..n PROVE p[i].confirmation_count >= n - i
    BY SMTT(60), <2>2
  <2>3. CASE i = n
    BY <1>1, <2>2, <2>3
  <2>4. CASE i # n
    <3>1. i \in 1..Len(room)
      BY <1>1, <2>4
    <3> QED BY <1>1, <1>3, <2>1, <3>1
  <2> QED BY <2>3, <2>4
<1>5. /\ r = [i \in 1..n |->
               IF n > i - 1 + p[i].confirmation_count
               THEN [p[i] EXCEPT !.confirmation_count = @ + 1]
               ELSE p[i]]
  <2> HIDE DEF p, n
  <2> QED BY <1>3 DEF double_lockouts
<1> HIDE DEF p
<1>6. \A i \in 1..n : /\ r[i] \in Lockout
                      /\ r[i].slot = p[i].slot
                      /\ r[i].confirmation_count =
                           IF p[i].confirmation_count = n - i
                           THEN n - i + 1 ELSE p[i].confirmation_count
                      /\ last_locked_out_slot(p[i]) <= last_locked_out_slot(r[i])
  <2> HIDE DEF r
  <2> SUFFICES ASSUME NEW i \in 1..n
               PROVE  /\ r[i] \in Lockout
                      /\ r[i].slot = p[i].slot
                      /\ r[i].confirmation_count =
                           IF p[i].confirmation_count = n - i
                           THEN n - i + 1 ELSE p[i].confirmation_count
                      /\ last_locked_out_slot(p[i]) <= last_locked_out_slot(r[i])
    OBVIOUS
  <2>0. /\ p[i] \in Lockout
        /\ p[i].slot \in Nat
        /\ p[i].confirmation_count \in Nat
        /\ p[i].confirmation_count \in 1..MAX_LOCKOUT_HISTORY
        /\ p[i].confirmation_count >= n - i
        /\ lockout(p[i]) \in Nat
    BY <1>4
  <2>1. CASE p[i].confirmation_count = n - i
    <3>1. r[i] = [p[i] EXCEPT !.confirmation_count = @ + 1]
      BY SMTT(60), <1>1, <1>5, <2>0, <2>1
    <3>2. n - i + 1 \in 1..MAX_LOCKOUT_HISTORY
      BY <1>1, <2>0, <2>1
    <3>3. r[i] = [slot |-> p[i].slot, confirmation_count |-> n - i + 1]
      BY <2>0, <2>1, <3>1 DEF Lockout
    <3>4. Pow2[n - i] <= Pow2[(n - i) + 1] /\ Pow2[n - i] \in Nat /\ Pow2[(n - i) + 1] \in Nat
      <4>1. n - i \in 0..(MAX_LOCKOUT_HISTORY - 1)
        BY <1>1, <2>0, <2>1, <3>2
      <4> QED BY <4>1, LockoutGrows
    <3> QED BY SMTT(60), <2>0, <2>1, <3>2, <3>3, <3>4 DEF Lockout, Slot, last_locked_out_slot, lockout
  <2>2. CASE p[i].confirmation_count # n - i
    <3>1. ~ (n > i - 1 + p[i].confirmation_count)
      <4> DEFINE c == p[i].confirmation_count
      <4>1. c \in Nat /\ c >= n - i /\ c # n - i
        BY <2>0, <2>2
      <4>2. n \in Nat /\ i \in Nat
        BY <1>1
      <4> HIDE DEF c, n
      <4>3. ~ (n > i - 1 + c)
        BY <4>1, <4>2
      <4> QED BY <4>3 DEF c
    <3>2. r[i] = p[i]
      BY <1>5, <3>1
    <3> QED BY <2>0, <2>2, <3>2 DEF last_locked_out_slot
  <2> QED BY <2>1, <2>2
<1>7. r \in Seq(Lockout) /\ Len(r) = n
  <2>1. n \in Nat /\ r = [i \in 1..n |-> r[i]]
    BY <1>1, <1>5
  <2> HIDE DEF r, n
  <2> QED BY <1>6, <2>1
<1> HIDE DEF r
<1>8. SlotsOrdered(r) /\ ConfirmationsOrdered(r) /\ LockoutsChained(r)
  <2> SUFFICES ASSUME NEW i \in 1..(n - 1)
               PROVE  /\ r[i].slot < r[i + 1].slot
                      /\ r[i].confirmation_count > r[i + 1].confirmation_count
                      /\ r[i + 1].slot <= last_locked_out_slot(r[i])
    BY SMTT(60), <1>7 DEF SlotsOrdered, ConfirmationsOrdered, LockoutsChained
  <2>1. i \in 1..n /\ i + 1 \in 1..n /\ i \in 1..Len(room)
    BY <1>1
  <2>2. /\ p[i].slot < p[i + 1].slot
        /\ p[i].confirmation_count >= p[i + 1].confirmation_count
        /\ i + 1 < n => p[i].confirmation_count > p[i + 1].confirmation_count
        /\ p[i + 1].slot <= last_locked_out_slot(p[i])
    <3>1. CASE i + 1 = n
      <4>1. p[i] = room[Len(room)] /\ i = Len(room)
        BY <1>1, <1>3, <2>1, <3>1
      <4>2. p[i + 1].slot = slot /\ p[i + 1].confirmation_count = 1
        BY <1>3, <3>1 DEF NewLockout
      <4> QED BY <1>1, <1>4, <2>1, <3>1, <4>1, <4>2
    <3>2. CASE i + 1 # n
      <4>1. i \in 1..(Len(room) - 1) /\ p[i] = room[i] /\ p[i + 1] = room[i + 1]
        BY <1>1, <1>3, <2>1, <3>2
      <4>2. /\ room[i].slot < room[i + 1].slot
            /\ room[i].confirmation_count > room[i + 1].confirmation_count
            /\ room[i + 1].slot <= last_locked_out_slot(room[i])
        BY SMTT(60), <4>1 DEF WellFormed, SlotsOrdered, ConfirmationsOrdered, LockoutsChained
      <4>3. p[i].confirmation_count \in Nat /\ p[i + 1].confirmation_count \in Nat
        BY <1>4, <2>1
      <4> QED BY <4>1, <4>2, <4>3
    <3> QED BY <3>1, <3>2
  <2>3. p[n].confirmation_count = 1
    BY <1>3 DEF NewLockout
  <2>4. r[i].confirmation_count > r[i + 1].confirmation_count
    <3> DEFINE c == p[i].confirmation_count
               d == p[i + 1].confirmation_count
    <3>1. c \in Nat /\ d \in Nat /\ c >= n - i /\ d >= n - (i + 1)
      BY SMTT(60), <1>4, <2>1
    <3>2. /\ r[i].confirmation_count = IF c = n - i THEN n - i + 1 ELSE c
          /\ r[i + 1].confirmation_count =
               IF d = n - (i + 1) THEN n - (i + 1) + 1 ELSE d
      BY <1>6, <2>1
    <3>3. c >= d /\ (i + 1 < n => c > d) /\ (i + 1 = n => d = 1)
      BY <2>2, <2>3
    <3> HIDE DEF c, d
    <3> QED BY SMTT(60), <1>1, <2>1, <3>1, <3>2, <3>3
  <2>5. /\ p[i].slot \in Nat /\ lockout(p[i]) \in Nat
        /\ p[i + 1].slot \in Nat
        /\ last_locked_out_slot(p[i]) \in Nat
        /\ last_locked_out_slot(r[i]) \in Nat
    <3>1. r[i].slot \in Nat /\ last_locked_out_slot(r[i]) \in Nat
      BY Zenon, <1>7, <2>1, LockoutFields
    <3>2. last_locked_out_slot(p[i]) \in Nat
      BY Zenon, <1>3, <2>1, LockoutFields
    <3>3. p[i].slot \in Nat /\ lockout(p[i]) \in Nat /\ p[i + 1].slot \in Nat
      BY SMTT(60), <1>4, <2>1
    <3> QED BY <3>1, <3>2, <3>3
  <2>6. r[i + 1].slot <= last_locked_out_slot(r[i])
    BY SMTT(60), <1>6, <2>1, <2>2, <2>5
  <2> QED BY <1>6, <2>1, <2>2, <2>4, <2>6
<1>9. WellFormed(r)
  BY <1>1, <1>7, <1>8 DEF WellFormed
<1>10. r[n].slot = slot
  BY <1>1, <1>3, <1>6 DEF NewLockout
<1>11. \A i \in 1..Len(room) : /\ r[i].slot = room[i].slot
                               /\ r[i].confirmation_count >= room[i].confirmation_count
  <2> SUFFICES ASSUME NEW i \in 1..Len(room)
               PROVE  /\ r[i].slot = room[i].slot
                      /\ r[i].confirmation_count >= room[i].confirmation_count
    OBVIOUS
  <2>1. i \in 1..n /\ p[i] = room[i]
    BY <1>1, <1>3
  <2>2. p[i].confirmation_count \in Nat
    BY <1>4, <2>1
  <2> QED BY SMTT(60), <1>1, <1>6, <2>1, <2>2
<1> QED BY <1>7, <1>9, <1>10, <1>11 DEF r, p

(***************************************************************************)
(* What one accepted vote does to a well-formed tower: it stays well       *)
(* formed with the new slot on top; the slots in it are old slots or the   *)
(* new one; if a vote was rooted, everything left is newer than it; and an *)
(* old vote either was rooted, or is kept with at least its confirmations, *)
(* or had expired.                                                         *)
(***************************************************************************)
THEOREM NextVote ==
  ASSUME NEW votes, WellFormed(votes), NEW slot \in Nat,
         slot > last_voted_slot(votes)
  PROVE  LET r == VotesAfterNextVote(votes, slot)
         IN  /\ WellFormed(r)
             /\ Len(r) > 0
             /\ last_voted_slot(r) = slot
             /\ \A i \in 1..Len(r) : \/ r[i].slot = slot
                                     \/ \E j \in 1..Len(votes) : r[i].slot = votes[j].slot
             /\ NextVoteRoots(votes, slot) =>
                  /\ Len(votes) > 0
                  /\ \A i \in 1..Len(r) : r[i].slot > votes[1].slot
             /\ \A j \in 1..Len(votes) :
                  \/ NextVoteRoots(votes, slot) /\ votes[j].slot <= votes[1].slot
                  \/ \E i \in 1..Len(r) :
                       /\ r[i].slot = votes[j].slot
                       /\ r[i].confirmation_count >= votes[j].confirmation_count
                  \/ slot > last_locked_out_slot(votes[j])
<1> DEFINE r    == VotesAfterNextVote(votes, slot)
           room == Room(votes, slot)
           kept == pop_expired_votes(votes, slot)
           off  == Offset(votes, slot)
<1>1. votes \in Seq(Lockout) /\ Len(votes) \in Nat
  BY DEF WellFormed
<1>2. /\ off \in {0, 1}
      /\ Len(room) \in Nat
      /\ Len(room) = Len(kept) - off
      /\ Len(room) < MAX_LOCKOUT_HISTORY
      /\ Len(kept) <= Len(votes)
      /\ \A i \in 1..Len(room) : room[i] = votes[i + off]
  BY RoomShape
<1>3. /\ WellFormed(room)
      /\ Len(room) > 0 => /\ room[Len(room)].slot < slot
                          /\ slot <= last_locked_out_slot(room[Len(room)])
  BY RoomProperties
<1>4. r = double_lockouts(Append(room, NewLockout(slot)))
  BY DEF VotesAfterNextVote, Room
<1>5. off = IF NextVoteRoots(votes, slot) THEN 1 ELSE 0
  BY DEF Offset
<1>6. /\ Len(kept) \in Nat
      /\ \A i \in (Len(kept) + 1)..Len(votes) : ~ is_locked_out_at_slot(votes[i], slot)
  BY <1>1, KeptProperties
<1> HIDE DEF room, off, r, kept
<1>7. /\ WellFormed(r)
      /\ Len(r) = Len(room) + 1
      /\ r[Len(room) + 1].slot = slot
      /\ \A i \in 1..Len(room) :
           /\ r[i].slot = room[i].slot
           /\ r[i].confirmation_count >= room[i].confirmation_count
  BY SMTT(60), <1>2, <1>3, <1>4, DoubleLockouts
<1>8. Len(r) > 0 /\ last_voted_slot(r) = slot
  <2>1. Len(r) \in 1..Len(r)
    BY <1>2, <1>7
  <2> QED BY <2>1, <1>2, <1>7, LastIsGreatest
<1>9. \A i \in 1..Len(r) : \/ r[i].slot = slot
                           \/ \E j \in 1..Len(votes) : r[i].slot = votes[j].slot
  <2> SUFFICES ASSUME NEW i \in 1..Len(room)
               PROVE  \E j \in 1..Len(votes) : r[i].slot = votes[j].slot
    <3>1. \A i \in 1..Len(r) : i \in 1..Len(room) \/ i = Len(room) + 1
      BY <1>2, <1>7
    <3> QED BY <1>7, <3>1, Zenon
  <2>1. i + off \in 1..Len(votes)
    BY <1>1, <1>2, <1>6, SMTT(60)
  <2>2. r[i].slot = votes[i + off].slot
    BY <1>2, <1>7, Zenon
  <2> QED BY <2>1, <2>2
<1>10. ASSUME NextVoteRoots(votes, slot)
       PROVE  /\ Len(votes) > 0
              /\ \A i \in 1..Len(r) : r[i].slot > votes[1].slot
  <2>1. off = 1 /\ Len(votes) > 0
    BY <1>1, <1>2, <1>5, <1>6, <1>10
  <2>2. 1 \in 1..Len(votes)
    BY <1>1, <2>1
  <2> SUFFICES ASSUME NEW i \in 1..Len(r) PROVE r[i].slot > votes[1].slot
    BY <2>1
  <2>3. CASE i = Len(room) + 1
    BY <1>7, <2>2, <2>3, LastIsGreatest
  <2>4. CASE i # Len(room) + 1
    <3>1. i \in 1..Len(room) /\ i + 1 \in 1..Len(votes) /\ 1 < i + 1
      BY SMTT(60), <1>1, <1>2, <1>6, <1>7, <2>1, <2>4
    <3>2. r[i].slot = votes[i + 1].slot
      BY SMTT(60), <1>2, <1>7, <2>1, <3>1
    <3>3. votes[1].slot < votes[i + 1].slot
      BY <1>1, <2>2, <3>1, SlotsIncrease DEF WellFormed
    <3> QED BY <3>2, <3>3
  <2> QED BY <2>3, <2>4
<1>11. ASSUME NEW j \in 1..Len(votes)
       PROVE  \/ NextVoteRoots(votes, slot) /\ votes[j].slot <= votes[1].slot
              \/ \E i \in 1..Len(r) :
                   /\ r[i].slot = votes[j].slot
                   /\ r[i].confirmation_count >= votes[j].confirmation_count
              \/ slot > last_locked_out_slot(votes[j])
  <2>0. /\ votes[j].slot \in Nat
        /\ last_locked_out_slot(votes[j]) \in Nat
    BY <1>1, LockoutFields
  <2>1. CASE j <= off
    <3>1. j = 1 /\ NextVoteRoots(votes, slot)
      BY <1>2, <1>5, <2>1
    <3> QED BY <2>0, <3>1
  <2>2. CASE j > off /\ j <= Len(kept)
    <3>1. j - off \in 1..Len(room) /\ (j - off) + off = j
      BY <1>1, <1>2, <1>6, <2>2
    <3>2. j - off \in 1..Len(r) /\ room[j - off] = votes[j]
      BY SMTT(60), <1>2, <1>7, <3>1
    <3> QED BY <1>7, <3>1, <3>2
  <2>3. CASE j > Len(kept)
    <3>1. ~ is_locked_out_at_slot(votes[j], slot)
      BY <1>1, <1>6, <2>3
    <3> QED BY <2>0, <3>1 DEF is_locked_out_at_slot
  <2> QED BY <1>1, <1>2, <1>6, <2>1, <2>2, <2>3
<1> QED BY <1>7, <1>8, <1>9, <1>10, <1>11 DEF r

=============================================================================
