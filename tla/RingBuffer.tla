----------------------------- MODULE RingBuffer -----------------------------
(***************************************************************************)
(* MKRingBuffer: one producer and one consumer share the slots of a ring   *)
(* and two positions, each written by one side only.  Every load of the    *)
(* other side's position, every store of the own one and every access to a *)
(* slot is a step; release and acquire order the store of a position after *)
(* the accesses before it.  The payload of the n-th message is n, and a    *)
(* slot carries the payload its checksum was computed from.                *)
(***************************************************************************)
EXTENDS Integers, Sequences

CONSTANTS
    Capacity,      \* numSlots
    MaxSent        \* bound on the messages sent, and on those counted as refused

ASSUME RingAssumption == Capacity \in Nat \ {0} /\ MaxSent \in Nat

VARIABLES
    (* MKRingHeader and the slots *)
    writePos, readPos, slots, sequenceCounter, totalWritten, totalRead,
    overflows, checksumErrors,
    (* where the producer is in write(), the consumer in read() *)
    writer, reader, out,
    (* history: the messages read() returned *)
    taken

ringVars == <<writePos, readPos, slots, sequenceCounter, totalWritten, totalRead,
              overflows, checksumErrors, writer, reader, out, taken>>

Following(i) == (i + 1) % Capacity
Blank        == 0                         \* memset of the slots

RingInit ==
    /\ writePos = 0 /\ readPos = 0
    /\ slots = [i \in 0 .. Capacity - 1 |-> [payload |-> Blank, crc |-> Blank]]
    /\ sequenceCounter = 0 /\ totalWritten = 0 /\ totalRead = 0
    /\ overflows = 0 /\ checksumErrors = 0
    /\ writer = "idle" /\ reader = "idle" /\ out = Blank
    /\ taken = <<>>

ReaderState == <<readPos, totalRead, checksumErrors, reader, out, taken>>
WriterState == <<writePos, slots, sequenceCounter, totalWritten, overflows, writer>>

-----------------------------------------------------------------------------
(* write(): look for room, fill the slot, publish it. *)

WriteBegin ==
    /\ writer = "idle" /\ sequenceCounter < MaxSent
    /\ IF Following(writePos) = readPos
         THEN /\ overflows < MaxSent /\ overflows' = overflows + 1
              /\ UNCHANGED writer
         ELSE writer' = "fill" /\ UNCHANGED overflows
    /\ UNCHANGED <<writePos, slots, sequenceCounter, totalWritten, ReaderState>>

Fill ==
    /\ writer = "fill" /\ writer' = "checksum"
    /\ sequenceCounter' = sequenceCounter + 1
    /\ slots' = [slots EXCEPT ![writePos].payload = sequenceCounter']
    /\ UNCHANGED <<writePos, totalWritten, overflows, ReaderState>>

\* Variant: the slot keeps the checksum it had.
ChecksumKept ==
    /\ writer = "checksum" /\ writer' = "publish"
    /\ UNCHANGED <<writePos, slots, sequenceCounter, totalWritten, overflows, ReaderState>>

Checksum ==
    /\ writer = "checksum" /\ writer' = "publish"
    /\ slots' = [slots EXCEPT ![writePos].crc = slots[writePos].payload]
    /\ UNCHANGED <<writePos, sequenceCounter, totalWritten, overflows, ReaderState>>

Publish ==
    /\ writer = "publish" /\ writer' = "idle"
    /\ writePos' = Following(writePos)
    /\ totalWritten' = totalWritten + 1
    /\ UNCHANGED <<slots, sequenceCounter, overflows, ReaderState>>

-----------------------------------------------------------------------------
(* read(): look for a message, verify it, copy it, give the slot back. *)

ReadBegin ==
    /\ reader = "idle" /\ readPos # writePos
    /\ reader' = "verify"
    /\ UNCHANGED <<readPos, totalRead, checksumErrors, out, taken, WriterState>>

(* A packet that fails the check is skipped. *)
Verify ==
    /\ reader = "verify"
    /\ IF slots[readPos].crc = slots[readPos].payload
         THEN reader' = "copy" /\ UNCHANGED <<readPos, checksumErrors>>
         ELSE /\ reader' = "idle"
              /\ checksumErrors' = checksumErrors + 1
              /\ readPos' = Following(readPos)
    /\ UNCHANGED <<totalRead, out, taken, WriterState>>

Copy ==
    /\ reader = "copy" /\ reader' = "release"
    /\ out' = slots[readPos].payload
    /\ UNCHANGED <<readPos, totalRead, checksumErrors, taken, WriterState>>

FreeSlot ==
    /\ reader = "release" /\ reader' = "idle"
    /\ readPos' = Following(readPos)
    /\ taken' = Append(taken, out)
    /\ totalRead' = totalRead + 1
    /\ UNCHANGED <<checksumErrors, out, WriterState>>

RingNext ==
    \/ WriteBegin \/ Fill \/ Checksum \/ Publish
    \/ ReadBegin \/ Verify \/ Copy \/ FreeSlot

RingSpec == RingInit /\ [][RingNext]_ringVars

-----------------------------------------------------------------------------
(* pending() *)
Pending == IF writePos >= readPos THEN writePos - readPos
                                  ELSE Capacity - readPos + writePos

(* The messages a reader may still take. *)
Waiting == [i \in 1 .. Pending |-> slots[(readPos + i - 1) % Capacity].payload]

(* The ring is a channel with room for Capacity - 1 messages: whatever each  *)
(* side does between the other's load of a position and its store, no        *)
(* message is lost, doubled, torn, reordered or overwritten while copied.    *)
IPC == INSTANCE Channel WITH Room <- Capacity - 1, Messages <- 1 .. MaxSent,
                             queue <- Waiting
IsChannel == IPC!ChanSpec
=============================================================================
