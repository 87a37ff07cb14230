-------------------------- MODULE RingBufferProofs --------------------------
(* Theorems about RingBuffer, for every number of slots and of messages: the *)
(* ring is a bounded channel.                                                *)
EXTENDS RingBuffer, SequenceTheorems, TLAPS

Places      == 0 .. Capacity - 1
Ahead(p, i) == (p + i) % Capacity

-----------------------------------------------------------------------------
(* Going around the ring. *)

(* Up to once around, the remainder is the number itself or Capacity less. *)
LEMMA AheadIs ==
    ASSUME NEW p \in Places, NEW i \in 0 .. Capacity
    PROVE  Ahead(p, i) = IF p + i < Capacity THEN p + i ELSE p + i - Capacity
<1>1. CASE p + i < Capacity
  BY <1>1, RingAssumption DEF Ahead, Places
<1>2. CASE p + i >= Capacity
  <2> DEFINE r == p + i - Capacity
  <2>1. r \in 0 .. Capacity - 1 /\ p + i = 1 * Capacity + r
    BY <1>2, RingAssumption DEF Places
  <2>2. (1 * Capacity + r) % Capacity = r
    BY <2>1, RingAssumption
  <2>. QED  BY <2>1, <2>2, <1>2, RingAssumption DEF Ahead, Places
<1>. QED  BY <1>1, <1>2, RingAssumption DEF Places

(* The next place, and that it is one. *)
LEMMA FollowingIs ==
    ASSUME NEW p \in Places
    PROVE  /\ Following(p) = IF p + 1 < Capacity THEN p + 1 ELSE 0
           /\ Following(p) \in Places
<1>1. Following(p) = Ahead(p, 1)
  BY DEF Following, Ahead
<1>2. 1 \in 0 .. Capacity
  BY RingAssumption
<1>. QED  BY <1>1, <1>2, AheadIs, RingAssumption DEF Places

(* Less than once around, different distances lead to different places. *)
LEMMA AheadInjective ==
    ASSUME NEW p \in Places, NEW i \in Places, NEW j \in Places,
           Ahead(p, i) = Ahead(p, j)
    PROVE  i = j
<1>1. i \in 0 .. Capacity /\ j \in 0 .. Capacity
  BY RingAssumption DEF Places
<1>. QED  BY <1>1, AheadIs, RingAssumption DEF Places

(* One place on, the same distance reaches one further. *)
LEMMA AheadFollowing ==
    ASSUME NEW p \in Places, NEW i \in 0 .. Capacity - 1
    PROVE  Ahead(Following(p), i) = Ahead(p, i + 1)
<1>1. i \in 0 .. Capacity /\ i + 1 \in 0 .. Capacity
  BY RingAssumption
<1>2. /\ Following(p) = IF p + 1 < Capacity THEN p + 1 ELSE 0
      /\ Following(p) \in Places
  BY FollowingIs
<1>3. Ahead(Following(p), i) =
        IF Following(p) + i < Capacity THEN Following(p) + i ELSE Following(p) + i - Capacity
  BY <1>1, <1>2, AheadIs
<1>4. Ahead(p, i + 1) =
        IF p + (i + 1) < Capacity THEN p + (i + 1) ELSE p + (i + 1) - Capacity
  BY <1>1, AheadIs
<1>. QED  BY <1>2, <1>3, <1>4, RingAssumption DEF Places

-----------------------------------------------------------------------------
(* The inductive invariant. *)

(* The messages the ring has accepted: all that were numbered but the one    *)
(* that is still being written.                                              *)
Accepted == IF writer \in {"checksum", "publish"} THEN sequenceCounter - 1 ELSE sequenceCounter

Whole(n) == [payload |-> n, crc |-> n]

TypeInv ==
    /\ writePos \in Places /\ readPos \in Places
    /\ slots \in [Places -> [payload : Nat, crc : Nat]]
    /\ sequenceCounter \in 0 .. MaxSent
    /\ writer \in {"idle", "fill", "checksum", "publish"}
    /\ reader \in {"idle", "verify", "copy", "release"}
    /\ out \in Nat /\ taken \in Seq(Nat)

(* What waits is what was accepted and not yet taken, and a writer that has  *)
(* found room still has it: the reader can only make more.                   *)
CountInv ==
    /\ Pending = Accepted - Len(taken)
    /\ writer # "idle" => Pending < Capacity - 1
    /\ writer = "fill" => sequenceCounter < MaxSent
    /\ writer \in {"checksum", "publish"} => sequenceCounter > 0

(* What waits is whole and in order, and so is what is being written. *)
StoredInv ==
    /\ \A i \in 1 .. Pending : slots[Ahead(readPos, i - 1)] = Whole(Len(taken) + i)
    /\ writer = "checksum" => slots[writePos].payload = sequenceCounter
    /\ writer = "publish"  => slots[writePos] = Whole(sequenceCounter)

(* A reader holds a message that waits, and has copied the first one. *)
ReaderInv ==
    /\ reader # "idle" => Pending > 0
    /\ reader = "release" => out = Len(taken) + 1

(* What was taken is 1, 2, 3, ...: all messages from the first one on. *)
TakenInOrder == \A i \in 1 .. Len(taken) : taken[i] = i

RingInv == TypeInv /\ CountInv /\ StoredInv /\ ReaderInv /\ TakenInOrder

(* How far the positions are apart, and that the writer's is that far ahead. *)
LEMMA PendingIs ==
    ASSUME TypeInv
    PROVE  /\ Pending \in Places
           /\ Ahead(readPos, Pending) = writePos
<1>1. Pending \in Places
  BY RingAssumption DEF TypeInv, Pending, Places
<1>2. Pending \in 0 .. Capacity
  BY <1>1, RingAssumption DEF Places
<1>3. Ahead(readPos, Pending) =
        IF readPos + Pending < Capacity THEN readPos + Pending ELSE readPos + Pending - Capacity
  BY <1>2, AheadIs DEF TypeInv
<1>. QED  BY <1>1, <1>3, RingAssumption DEF TypeInv, Pending, Places

(* The writer's slot is none of those that wait. *)
LEMMA WriterApart ==
    ASSUME TypeInv, NEW i \in 1 .. Pending
    PROVE  /\ Ahead(readPos, i - 1) \in Places
           /\ Ahead(readPos, i - 1) # writePos
<1>1. Pending \in Places /\ Ahead(readPos, Pending) = writePos
  BY PendingIs
<1>2. i - 1 \in Places /\ i - 1 # Pending /\ i - 1 \in 0 .. Capacity
  BY <1>1, RingAssumption DEF Places
<1>3. Ahead(readPos, i - 1) # writePos
  BY <1>1, <1>2, AheadInjective DEF TypeInv
<1>4. Ahead(readPos, i - 1) =
        IF readPos + (i - 1) < Capacity THEN readPos + (i - 1) ELSE readPos + (i - 1) - Capacity
  BY <1>2, AheadIs DEF TypeInv
<1>5. Ahead(readPos, i - 1) \in Places
  BY <1>2, <1>4, RingAssumption DEF TypeInv, Places
<1>. QED  BY <1>3, <1>5

-----------------------------------------------------------------------------
(* The invariant holds. *)

LEMMA InitInv ==
    RingInit => RingInv
<1>. SUFFICES ASSUME RingInit PROVE RingInv
  OBVIOUS
<1>1. TypeInv
  BY RingAssumption DEF RingInit, TypeInv, Places, Blank
<1>2. Pending = 0 /\ Len(taken) = 0
  BY DEF RingInit, Pending
<1>. QED  BY <1>1, <1>2 DEF RingInit, RingInv, CountInv, Accepted, StoredInv, ReaderInv, TakenInOrder

(* A step that leaves positions, slots and what was taken alone, and the     *)
(* writer outside its slot, changes nothing that waits.                      *)
LEMMA BeginInv ==
    ASSUME RingInv, WriteBegin
    PROVE  RingInv'
<1>. USE DEF RingInv
<1>1. TypeInv'
  BY DEF TypeInv, WriteBegin, ReaderState
<1>2. Pending' = Pending
  BY DEF WriteBegin, ReaderState, Pending
<1>3. CASE writer' = writer
  BY <1>1, <1>2, <1>3 DEF WriteBegin, ReaderState, CountInv, Accepted, StoredInv, ReaderInv, TakenInOrder, Ahead
<1>4. CASE Following(writePos) # readPos /\ writer' = "fill"
  <2>1. Pending < Capacity - 1
    <3>1. Following(writePos) = IF writePos + 1 < Capacity THEN writePos + 1 ELSE 0
      BY FollowingIs DEF TypeInv
    <3>. QED  BY <1>4, <3>1, RingAssumption DEF TypeInv, Pending, Places
  <2>2. CountInv'
    BY <1>2, <1>4, <2>1 DEF WriteBegin, ReaderState, CountInv, Accepted
  <2>. QED  BY <1>1, <1>2, <1>4, <2>2
         DEF WriteBegin, ReaderState, StoredInv, ReaderInv, TakenInOrder, Ahead
<1>. QED  BY <1>3, <1>4 DEF WriteBegin

LEMMA FillInv ==
    ASSUME RingInv, Fill
    PROVE  RingInv'
<1>. USE DEF RingInv
<1>1. /\ writer = "fill" /\ writer' = "checksum"
      /\ sequenceCounter' = sequenceCounter + 1
      /\ slots' = [slots EXCEPT ![writePos].payload = sequenceCounter']
      /\ UNCHANGED <<writePos, readPos, reader, out, taken>>
  BY DEF Fill, ReaderState
<1>2. Pending' = Pending
  BY <1>1 DEF Pending
<1>3. TypeInv' /\ CountInv'
  <2>1. sequenceCounter' \in 1 .. MaxSent
    BY <1>1, RingAssumption DEF TypeInv, CountInv
  <2>2. slots' \in [Places -> [payload : Nat, crc : Nat]]
    BY <1>1, <2>1 DEF TypeInv
  <2>3. TypeInv'
    BY <1>1, <2>1, <2>2 DEF TypeInv
  <2>4. CountInv'
    <3>1. Accepted' = Accepted
      BY <1>1 DEF Accepted, TypeInv
    <3>. QED  BY <1>1, <1>2, <2>1, <3>1 DEF CountInv
  <2>. QED  BY <2>3, <2>4
<1>4. \A x \in Places : x # writePos => slots'[x] = slots[x]
  BY <1>1 DEF TypeInv
<1>5. \A i \in 1 .. Pending : slots'[Ahead(readPos, i - 1)] = slots[Ahead(readPos, i - 1)]
  BY <1>4, WriterApart
<1>6. slots'[writePos].payload = sequenceCounter'
  BY <1>1 DEF TypeInv
<1>7. StoredInv'
  BY <1>1, <1>2, <1>5, <1>6 DEF StoredInv, Ahead
<1>. QED  BY <1>1, <1>2, <1>3, <1>7 DEF ReaderInv, TakenInOrder

LEMMA ChecksumInv ==
    ASSUME RingInv, Checksum
    PROVE  RingInv'
<1>. USE DEF RingInv
<1>1. /\ writer = "checksum" /\ writer' = "publish"
      /\ slots' = [slots EXCEPT ![writePos].crc = slots[writePos].payload]
      /\ UNCHANGED <<writePos, readPos, sequenceCounter, reader, out, taken>>
  BY DEF Checksum, ReaderState
<1>2. Pending' = Pending
  BY <1>1 DEF Pending
<1>3. TypeInv' /\ CountInv'
  BY <1>1, <1>2, RingAssumption DEF TypeInv, CountInv, Accepted
<1>4. \A x \in Places : x # writePos => slots'[x] = slots[x]
  BY <1>1 DEF TypeInv
<1>5. \A i \in 1 .. Pending : slots'[Ahead(readPos, i - 1)] = slots[Ahead(readPos, i - 1)]
  BY <1>4, WriterApart
<1>6. slots'[writePos] = Whole(sequenceCounter)
  BY <1>1 DEF TypeInv, StoredInv, Whole
<1>7. StoredInv'
  BY <1>1, <1>2, <1>5, <1>6 DEF StoredInv, Ahead
<1>. QED  BY <1>1, <1>2, <1>3, <1>7 DEF ReaderInv, TakenInOrder

(* Publishing adds one message behind those that wait. *)
LEMMA PublishInv ==
    ASSUME RingInv, Publish
    PROVE  /\ RingInv'
           /\ Pending' = Pending + 1 /\ taken' = taken
<1>. USE DEF RingInv
<1>1. /\ writer = "publish" /\ writer' = "idle"
      /\ writePos' = Following(writePos)
      /\ UNCHANGED <<readPos, slots, sequenceCounter, reader, out, taken>>
  BY DEF Publish, ReaderState
<1>2. /\ writePos' = IF writePos + 1 < Capacity THEN writePos + 1 ELSE 0
      /\ writePos' \in Places
  BY <1>1, FollowingIs DEF TypeInv
<1>3. Pending < Capacity - 1
  BY <1>1 DEF CountInv
<1>4. Pending' = Pending + 1
  BY <1>1, <1>2, <1>3, RingAssumption DEF Pending, TypeInv, Places
<1>5. TypeInv'
  BY <1>1, <1>2 DEF TypeInv
<1>6. Pending \in Places /\ Ahead(readPos, Pending) = writePos
  BY PendingIs
<1>7. CountInv'
  BY <1>1, <1>4, <1>6, RingAssumption DEF CountInv, Accepted, TypeInv, Places
<1>8. StoredInv'
  <2>1. SUFFICES ASSUME NEW i \in 1 .. Pending + 1
                 PROVE  slots[Ahead(readPos, i - 1)] = Whole(Len(taken) + i)
    BY <1>1, <1>4, <2>1 DEF StoredInv, Ahead
  <2>2. CASE i \in 1 .. Pending
    BY <2>2 DEF StoredInv
  <2>3. CASE i = Pending + 1
    <3>1. i - 1 = Pending /\ Len(taken) + i = sequenceCounter
      BY <1>1, <1>6, <2>3, RingAssumption DEF CountInv, Accepted, TypeInv, Places
    <3>. QED  BY <1>1, <1>6, <3>1 DEF StoredInv
  <2>. QED  BY <1>6, <2>2, <2>3, RingAssumption DEF Places
<1>9. ReaderInv'
  BY <1>1, <1>4, <1>6, RingAssumption DEF ReaderInv, Places
<1>. QED  BY <1>1, <1>4, <1>5, <1>7, <1>8, <1>9 DEF TakenInOrder

LEMMA ReadBeginInv ==
    ASSUME RingInv, ReadBegin
    PROVE  RingInv' /\ Pending' = Pending
<1>. USE DEF RingInv
<1>1. /\ reader = "idle" /\ reader' = "verify" /\ readPos # writePos
      /\ UNCHANGED <<writePos, readPos, slots, sequenceCounter, writer, out, taken>>
  BY DEF ReadBegin, WriterState
<1>2. Pending' = Pending
  BY <1>1 DEF Pending
<1>3. Pending > 0
  BY <1>1, RingAssumption DEF Pending, TypeInv, Places
<1>. QED  BY <1>1, <1>2, <1>3 DEF TypeInv, CountInv, Accepted, StoredInv, Ahead, ReaderInv, TakenInOrder

(* The message at the reader's position. *)
LEMMA FirstWaiting ==
    ASSUME RingInv, reader # "idle"
    PROVE  /\ Pending \in 1 .. Capacity - 1
           /\ slots[readPos] = Whole(Len(taken) + 1)
<1>. USE DEF RingInv
<1>1. Pending \in 1 .. Capacity - 1
  BY PendingIs, RingAssumption DEF ReaderInv, Places
<1>2. slots[Ahead(readPos, 1 - 1)] = Whole(Len(taken) + 1)
  BY <1>1 DEF StoredInv
<1>3. Ahead(readPos, 1 - 1) = readPos
  BY AheadIs, RingAssumption DEF TypeInv, Places
<1>. QED  BY <1>1, <1>2, <1>3

(* Every message passes the check. *)
LEMMA VerifyInv ==
    ASSUME RingInv, Verify
    PROVE  /\ RingInv' /\ Pending' = Pending
           /\ UNCHANGED <<writePos, readPos, slots, taken>>
<1>. USE DEF RingInv
<1>1. reader = "verify" /\ slots[readPos].crc = slots[readPos].payload
  BY FirstWaiting DEF Verify, Whole
<1>2. /\ reader' = "copy"
      /\ UNCHANGED <<writePos, readPos, slots, sequenceCounter, writer, out, taken>>
  BY <1>1 DEF Verify, WriterState
<1>3. Pending' = Pending
  BY <1>2 DEF Pending
<1>. QED  BY <1>1, <1>2, <1>3 DEF TypeInv, CountInv, Accepted, StoredInv, Ahead, ReaderInv, TakenInOrder

LEMMA CopyInv ==
    ASSUME RingInv, Copy
    PROVE  RingInv' /\ Pending' = Pending
<1>. USE DEF RingInv
<1>1. /\ reader = "copy" /\ reader' = "release"
      /\ out' = slots[readPos].payload
      /\ UNCHANGED <<writePos, readPos, slots, sequenceCounter, writer, taken>>
  BY DEF Copy, WriterState
<1>2. Pending' = Pending
  BY <1>1 DEF Pending
<1>3. out' = Len(taken) + 1
  BY <1>1, FirstWaiting DEF Whole
<1>4. out' \in Nat
  BY <1>3 DEF TypeInv
<1>. QED  BY <1>1, <1>2, <1>3, <1>4
       DEF TypeInv, CountInv, Accepted, StoredInv, Ahead, ReaderInv, TakenInOrder

(* Giving the slot back takes the first message away. *)
LEMMA FreeSlotInv ==
    ASSUME RingInv, FreeSlot
    PROVE  /\ RingInv'
           /\ Pending' = Pending - 1 /\ Pending > 0
           /\ taken' = Append(taken, Len(taken) + 1)
<1>. USE DEF RingInv
<1>1. /\ reader = "release" /\ reader' = "idle"
      /\ readPos' = Following(readPos)
      /\ taken' = Append(taken, Len(taken) + 1)
      /\ UNCHANGED <<writePos, slots, sequenceCounter, writer, out>>
  BY DEF FreeSlot, WriterState, ReaderInv
<1>2. /\ readPos' = IF readPos + 1 < Capacity THEN readPos + 1 ELSE 0
      /\ readPos' \in Places
  BY <1>1, FollowingIs DEF TypeInv
<1>3. Pending \in 1 .. Capacity - 1
  BY <1>1, FirstWaiting
<1>4. Pending' = Pending - 1
  BY <1>1, <1>2, <1>3, RingAssumption DEF Pending, TypeInv, Places
<1>5. Len(taken') = Len(taken) + 1 /\ Len(taken) \in Nat /\ taken' \in Seq(Nat)
  BY <1>1 DEF TypeInv
<1>6. TypeInv'
  BY <1>1, <1>2, <1>5 DEF TypeInv
<1>7. CountInv'
  <2>1. Accepted' = Accepted
    BY <1>1 DEF Accepted
  <2>2. Accepted \in Int
    BY DEF Accepted, TypeInv
  <2>3. Pending' = Accepted' - Len(taken')
    BY <1>4, <1>5, <2>1, <2>2, <1>3 DEF CountInv
  <2>. QED  BY <1>1, <1>3, <1>4, <2>3, RingAssumption DEF CountInv
<1>8. StoredInv'
  <2>1. ASSUME NEW i \in 1 .. Pending - 1
        PROVE  slots[Ahead(readPos', i - 1)] = Whole(Len(taken) + 1 + i)
    <3>1. i - 1 \in 0 .. Capacity - 1 /\ i + 1 \in 1 .. Pending /\ (i - 1) + 1 = (i + 1) - 1
      BY <1>3, RingAssumption
    <3>2. Ahead(readPos', i - 1) = Ahead(readPos, (i + 1) - 1)
      BY <1>1, <3>1, AheadFollowing DEF TypeInv
    <3>3. slots[Ahead(readPos, (i + 1) - 1)] = Whole(Len(taken) + (i + 1))
      BY <3>1 DEF StoredInv
    <3>4. Len(taken) + (i + 1) = Len(taken) + 1 + i
      BY <1>5
    <3>. QED  BY <3>2, <3>3, <3>4
  <2>. QED  BY <1>1, <1>4, <1>5, <2>1 DEF StoredInv, Ahead
<1>9. TakenInOrder'
  BY <1>1, <1>5 DEF TakenInOrder, TypeInv
<1>. QED  BY <1>1, <1>3, <1>4, <1>6, <1>7, <1>8, <1>9 DEF ReaderInv

-----------------------------------------------------------------------------
(* The ring implements the channel. *)

LEMMA StutterInv ==
    ASSUME RingInv, UNCHANGED ringVars
    PROVE  RingInv'
BY DEF RingInv, ringVars, TypeInv, CountInv, Accepted, Pending, StoredInv, Ahead, ReaderInv, TakenInOrder

LEMMA NextInv ==
    ASSUME RingInv, [RingNext]_ringVars
    PROVE  RingInv'
<1>1. CASE UNCHANGED ringVars
  BY <1>1, StutterInv
<1>2. CASE RingNext
  BY <1>2, BeginInv, FillInv, ChecksumInv, PublishInv, ReadBeginInv, VerifyInv, CopyInv, FreeSlotInv
     DEF RingNext
<1>. QED  BY <1>1, <1>2

LEMMA InvariantHolds ==
    RingSpec => []RingInv
BY InitInv, NextInv, PTL DEF RingSpec

(* What a reader may still take is counted on from what was taken. *)
LEMMA WaitingIs ==
    RingInv => /\ Pending \in Nat
               /\ Waiting = [i \in 1 .. Pending |-> Len(taken) + i]
<1>. SUFFICES ASSUME RingInv
              PROVE  /\ Pending \in Nat
                     /\ Waiting = [i \in 1 .. Pending |-> Len(taken) + i]
  OBVIOUS
<1>1. Pending \in Nat /\ readPos \in Nat
  BY PendingIs, RingAssumption DEF RingInv, TypeInv, Places
<1>2. ASSUME NEW i \in 1 .. Pending
      PROVE  slots[(readPos + i - 1) % Capacity].payload = Len(taken) + i
  <2>1. readPos + i - 1 = readPos + (i - 1)
    BY <1>1
  <2>2. slots[Ahead(readPos, i - 1)] = Whole(Len(taken) + i)
    BY DEF RingInv, StoredInv
  <2>. QED  BY <2>1, <2>2 DEF Ahead, Whole
<1>. QED  BY <1>1, <1>2 DEF Waiting

(* A step after which the same number of messages wait and were taken is a   *)
(* stutter of the channel.                                                   *)
LEMMA SameWaiting ==
    ASSUME RingInv, RingInv', Pending' = Pending, taken' = taken
    PROVE  UNCHANGED IPC!chanVars
<1>1. Waiting = [i \in 1 .. Pending |-> Len(taken) + i]
  BY WaitingIs
<1>2. (RingInv => /\ Pending \in Nat
                  /\ Waiting = [i \in 1 .. Pending |-> Len(taken) + i])'
  BY WaitingIs, PTL
<1>. QED  BY <1>1, <1>2 DEF IPC!chanVars

(* Publishing is the channel's Send. *)
LEMMA PublishSends ==
    ASSUME RingInv, RingInv', Publish
    PROVE  IPC!Send(sequenceCounter) /\ sequenceCounter \in 1 .. MaxSent
<1>1. Pending' = Pending + 1 /\ taken' = taken
  BY PublishInv
<1>2. Pending \in Nat /\ Waiting = [i \in 1 .. Pending |-> Len(taken) + i]
  BY WaitingIs
<1>3. (RingInv => /\ Pending \in Nat
                  /\ Waiting = [i \in 1 .. Pending |-> Len(taken) + i])'
  BY WaitingIs, PTL
<1>4. /\ Pending < Capacity - 1
      /\ sequenceCounter = Len(taken) + (Pending + 1)
      /\ sequenceCounter \in 1 .. MaxSent
  BY <1>2, RingAssumption DEF Publish, RingInv, CountInv, Accepted, TypeInv
<1>5. Len(Waiting) = Pending
  BY <1>2 DEF RingInv, TypeInv
<1>6. Waiting' = Append(Waiting, sequenceCounter)
  <2>1. Waiting' = [i \in 1 .. Pending + 1 |-> Len(taken) + i]
    BY <1>1, <1>3
  <2>2. Waiting \in Seq(Nat) /\ sequenceCounter \in Nat
    <3>1. \A i \in 1 .. Pending : Len(taken) + i \in Nat
      BY DEF RingInv, TypeInv
    <3>. QED  BY <1>2, <1>4, <3>1 DEF RingInv, TypeInv
  <2>3. /\ Append(Waiting, sequenceCounter) \in Seq(Nat)
        /\ Len(Append(Waiting, sequenceCounter)) = Pending + 1
        /\ \A i \in 1 .. Pending + 1 :
             Append(Waiting, sequenceCounter)[i] = Len(taken) + i
    BY <1>2, <1>4, <1>5, <2>2, AppendProperties
  <2>4. Waiting' \in Seq(Nat) /\ Len(Waiting') = Pending + 1
    <3>1. \A i \in 1 .. Pending + 1 : Len(taken) + i \in Nat
      BY DEF RingInv, TypeInv
    <3>. QED  BY <1>2, <2>1, <3>1
  <2>5. \A i \in 1 .. Len(Waiting') : Waiting'[i] = Append(Waiting, sequenceCounter)[i]
    BY <2>1, <2>3, <2>4
  <2>. QED  BY <2>3, <2>4, <2>5, SeqEqual
<1>. QED  BY <1>1, <1>4, <1>5, <1>6 DEF IPC!Send

(* Giving a slot back is the channel's Receive. *)
LEMMA FreeSlotReceives ==
    ASSUME RingInv, RingInv', FreeSlot
    PROVE  IPC!Receive
<1>1. /\ Pending' = Pending - 1 /\ Pending > 0
      /\ taken' = Append(taken, Len(taken) + 1)
  BY FreeSlotInv
<1>2. Pending \in Nat /\ Waiting = [i \in 1 .. Pending |-> Len(taken) + i]
  BY WaitingIs
<1>3. (RingInv => /\ Pending \in Nat
                  /\ Waiting = [i \in 1 .. Pending |-> Len(taken) + i])'
  BY WaitingIs, PTL
<1>4. Len(taken') = Len(taken) + 1 /\ Len(taken) \in Nat
  BY <1>1 DEF RingInv, TypeInv
<1>5. Waiting \in Seq(Nat) /\ Len(Waiting) = Pending /\ Waiting # <<>>
  <2>1. \A i \in 1 .. Pending : Len(taken) + i \in Nat
    BY <1>4
  <2>2. Waiting \in Seq(Nat) /\ Len(Waiting) = Pending
    BY <1>2, <2>1
  <2>. QED  BY <1>1, <2>2
<1>6. Head(Waiting) = Len(taken) + 1
  BY <1>1, <1>2, <1>5
<1>7. Waiting' = Tail(Waiting)
  <2>1. Waiting' = [i \in 1 .. Pending - 1 |-> Len(taken) + 1 + i]
    BY <1>1, <1>3, <1>4
  <2>2. /\ Tail(Waiting) \in Seq(Nat)
        /\ Len(Tail(Waiting)) = Pending - 1
        /\ \A i \in 1 .. Pending - 1 : Tail(Waiting)[i] = Waiting[i + 1]
    BY <1>1, <1>5, HeadTailProperties
  <2>3. \A i \in 1 .. Pending - 1 : Waiting[i + 1] = Len(taken) + 1 + i
    BY <1>2, <1>4
  <2>4. Waiting' \in Seq(Nat) /\ Len(Waiting') = Pending - 1
    <3>1. \A i \in 1 .. Pending - 1 : Len(taken) + 1 + i \in Nat
      BY <1>4
    <3>. QED  BY <1>1, <1>2, <2>1, <3>1
  <2>5. \A i \in 1 .. Len(Waiting') : Waiting'[i] = Tail(Waiting)[i]
    BY <2>1, <2>2, <2>3, <2>4
  <2>. QED  BY <2>2, <2>4, <2>5, SeqEqual
<1>. QED  BY <1>1, <1>5, <1>6, <1>7 DEF IPC!Receive

(* Whatever each side does between the other's load of a position and its   *)
(* store, write() and read() are a first-in first-out queue with room for    *)
(* one message less than there are slots: none is lost, doubled, torn or     *)
(* reordered, and none is overwritten while it is copied.                    *)
THEOREM ImplementsChannel ==
    RingSpec => IsChannel
<1>1. RingInit => IPC!ChanInit
  <2>. SUFFICES ASSUME RingInit PROVE Waiting = <<>> /\ taken = <<>>
    BY DEF IPC!ChanInit
  <2>1. Pending = 0
    BY DEF RingInit, Pending
  <2>. QED  BY <2>1 DEF RingInit, Waiting
<1>2. RingInv /\ RingInv' /\ [RingNext]_ringVars => [IPC!ChanNext]_IPC!chanVars
  <2>. SUFFICES ASSUME RingInv, RingInv', [RingNext]_ringVars
                PROVE  [IPC!ChanNext]_IPC!chanVars
    OBVIOUS
  <2>1. CASE Publish
    BY <2>1, PublishSends DEF IPC!ChanNext
  <2>2. CASE FreeSlot
    BY <2>2, FreeSlotReceives DEF IPC!ChanNext
  <2>3. CASE WriteBegin \/ Fill \/ Checksum \/ UNCHANGED ringVars
    <3>1. Pending' = Pending /\ taken' = taken
      BY <2>3 DEF WriteBegin, Fill, Checksum, ReaderState, ringVars, Pending
    <3>. QED  BY <3>1, SameWaiting
  <2>4. CASE ReadBegin \/ Verify \/ Copy
    <3>1. Pending' = Pending
      BY <2>4, ReadBeginInv, VerifyInv, CopyInv
    <3>2. taken' = taken
      BY <2>4 DEF ReadBegin, Verify, Copy
    <3>. QED  BY <3>1, <3>2, SameWaiting
  <2>. QED  BY <2>1, <2>2, <2>3, <2>4 DEF RingNext
<1>. QED  BY <1>1, <1>2, InvariantHolds, PTL DEF RingSpec, IsChannel, IPC!ChanSpec

(* What read() has returned so far is the first, second, third, ... message. *)
THEOREM MessagesInOrder ==
    RingSpec => []TakenInOrder
BY InvariantHolds, PTL DEF RingInv
=============================================================================
