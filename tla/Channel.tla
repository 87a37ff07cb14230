------------------------------- MODULE Channel -------------------------------
(***************************************************************************)
(* What the IPC ring buffer promises to its producer and its consumer: a   *)
(* first-in first-out queue that refuses a message only when it is full,   *)
(* and from which every accepted message is taken once, whole, in order.   *)
(***************************************************************************)
EXTENDS Naturals, Sequences

CONSTANTS
    Room,          \* how many messages may wait
    Messages

VARIABLES queue, taken

chanVars == <<queue, taken>>

ChanInit == queue = <<>> /\ taken = <<>>

Send(m) ==
    /\ Len(queue) < Room
    /\ queue' = Append(queue, m)
    /\ UNCHANGED taken

Receive ==
    /\ queue # <<>>
    /\ taken' = Append(taken, Head(queue))
    /\ queue' = Tail(queue)

ChanNext == Receive \/ \E m \in Messages : Send(m)

ChanSpec == ChanInit /\ [][ChanNext]_chanVars
=============================================================================
