------------------------------ MODULE Mailbox ------------------------------
(***************************************************************************)
(* What the Telegram channel promises its users, without threads, offsets  *)
(* or replies: messages wait until they are forgotten, and only delivered  *)
(* ones are forgotten; a session takes every message that is still kept,   *)
(* in order and once; a new session starts with the oldest message kept.   *)
(* So every message is delivered at least once, and again only after a     *)
(* session was cut short.                                                  *)
(***************************************************************************)
EXTENDS Naturals

VARIABLES
    sent,       \* how many messages were sent; they are 1..sent
    kept,       \* the oldest message that is not forgotten
    position,   \* the message this session takes next
    delivered   \* the messages delivered by any session

vars == <<sent, kept, position, delivered>>

Init ==
    /\ sent = 0
    /\ kept = 1
    /\ position = 1
    /\ delivered = {}

Send ==
    /\ sent' = sent + 1
    /\ UNCHANGED <<kept, position, delivered>>

Deliver ==
    /\ position <= sent
    /\ delivered' = delivered \cup {position}
    /\ position' = position + 1
    /\ UNCHANGED <<sent, kept>>

Forget ==
    /\ kept' \in kept..position
    /\ UNCHANGED <<sent, position, delivered>>

NewSession ==
    /\ position' = kept
    /\ UNCHANGED <<sent, kept, delivered>>

Next == Send \/ Deliver \/ Forget \/ NewSession

Spec == Init /\ [][Next]_vars
=============================================================================
