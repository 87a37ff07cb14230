----------------------------- MODULE Permissions -----------------------------
(***************************************************************************)
(* The permission manager of the demonstration kernel: users with a level  *)
(* and capabilities, escalations that end by a timeout, and the flags of   *)
(* files.  Everything is kept by name: a user that is deleted leaves its   *)
(* escalations to the next one of that name.  Groups, which no check reads, *)
(* and the audit log are left out.                                         *)
(***************************************************************************)
EXTENDS Naturals

CONSTANTS
    Names,          \* the names that users may be given, "root" and "system" among them
    Grants,         \* the pairs of a name and a capability that are granted and revoked
    Paths,          \* the files with permissions
    FlagSets,       \* the modes that may be allowed to others
    Timeout,        \* the seconds that an escalation lasts
    MaxTokens       \* bound on the escalations

Levels == {"ROOT", "SYSTEM", "USER", "PLUGIN", "GUEST"}
Modes  == {"read", "write", "execute"}

Reading == {"CAN_DISK_READ"}
Running == Reading \cup {"CAN_EXEC"}
Working == Running \cup {"CAN_NETWORK", "CAN_DISK_WRITE"}
Serving == Working \cup {"CAN_KILL_PROCESS", "CAN_ACCESS_HARDWARE"}
Ruling  == Serving \cup {"CAN_MOUNT", "CAN_MODIFY_USERS", "CAN_INSTALL_PACKAGES",
                         "CAN_MODIFY_FIREWALL", "CAN_VIEW_AUDIT_LOG", "CAN_ESCALATE"}

ASSUME PermissionsAssumption ==
    /\ {"root", "system"} \subseteq Names /\ FlagSets \subseteq SUBSET Modes
    /\ Grants \subseteq Names \X Ruling
    /\ Timeout \in Nat /\ MaxTokens \in Nat

VARIABLES
    users,          \* name -> level, capabilities and lock of the users there are
    tokens,         \* the active escalations
    nextToken,      \* the number of the next one
    otherFlags,     \* path -> {} until it is set, then {the modes allowed to others}
    trusted,        \* history: the names that have been ROOT, or been given CAN_ESCALATE
    given           \* history: the capabilities ever given to a name, as pairs

permVars == <<users, tokens, nextToken, otherFlags, trusted, given>>

DefaultCapabilities ==
    [ROOT |-> Ruling, SYSTEM |-> Serving, USER |-> Working, PLUGIN |-> Running, GUEST |-> Reading]

NewUser(level) == [level |-> level, caps |-> DefaultCapabilities[level], locked |-> FALSE]

PermInit ==
    /\ users = [n \in {"root", "system"} |-> NewUser(IF n = "root" THEN "ROOT" ELSE "SYSTEM")]
    /\ tokens = {} /\ nextToken = 1
    /\ otherFlags = [p \in Paths |-> {}]
    /\ trusted = {"root"} /\ given = {}

-----------------------------------------------------------------------------
(* An active escalation counts until its seconds are over.                 *)
Lent(n) == UNION {DefaultCapabilities[t.level] : t \in {u \in tokens : u.name = n /\ u.left > 0}}

HasCapability(n, cap) ==
    /\ n \in DOMAIN users /\ ~users[n].locked
    /\ cap \in Lent(n) \cup users[n].caps

Needed == [read |-> "CAN_DISK_READ", write |-> "CAN_DISK_WRITE", execute |-> "CAN_EXEC"]

(* ROOT passes before anything is asked; a file without flags is open.     *)
CheckFileAccess(n, p, wanted) ==
    /\ n \in DOMAIN users
    /\ \/ users[n].level = "ROOT"
       \/ /\ \A m \in wanted : HasCapability(n, Needed[m])
          /\ \A flags \in otherFlags[p] : wanted \subseteq flags

-----------------------------------------------------------------------------
CreateUser(n, level) ==
    /\ n \notin DOMAIN users
    /\ users' = [m \in DOMAIN users \cup {n} |-> IF m = n THEN NewUser(level) ELSE users[m]]
    /\ trusted' = IF level = "ROOT" THEN trusted \cup {n} ELSE trusted
    /\ UNCHANGED <<tokens, nextToken, otherFlags, given>>

DeleteUser(n) ==
    /\ n \in DOMAIN users \ {"root"}
    /\ users' = [m \in DOMAIN users \ {n} |-> users[m]]
    /\ UNCHANGED <<tokens, nextToken, otherFlags, trusted, given>>

GrantCapability(n, cap) ==
    /\ n \in DOMAIN users
    /\ users' = [users EXCEPT ![n].caps = @ \cup {cap}]
    /\ given' = given \cup {<<n, cap>>}
    /\ trusted' = IF cap = "CAN_ESCALATE" THEN trusted \cup {n} ELSE trusted
    /\ UNCHANGED <<tokens, nextToken, otherFlags>>

RevokeCapability(n, cap) ==
    /\ n \in DOMAIN users
    /\ users' = [users EXCEPT ![n].caps = @ \ {cap}]
    /\ UNCHANGED <<tokens, nextToken, otherFlags, trusted, given>>

SetFilePermissions(p, flags) ==
    /\ otherFlags' = [otherFlags EXCEPT ![p] = {flags}]
    /\ UNCHANGED <<users, tokens, nextToken, trusted, given>>

\* Variant: whoever is there may escalate.
EscalateAnyone(n, level) ==
    /\ nextToken <= MaxTokens
    /\ n \in DOMAIN users
    /\ tokens' = tokens \cup {[id |-> nextToken, name |-> n, level |-> level, left |-> Timeout]}
    /\ nextToken' = nextToken + 1
    /\ UNCHANGED <<users, otherFlags, trusted, given>>

(* An escalation to ROOT lends CAN_ESCALATE, and so its own renewal.        *)
Escalate(n, level) ==
    /\ nextToken <= MaxTokens                               \* the bound
    /\ n \in DOMAIN users
    /\ HasCapability(n, "CAN_ESCALATE") \/ users[n].level = "ROOT"
    /\ tokens' = tokens \cup {[id |-> nextToken, name |-> n, level |-> level, left |-> Timeout]}
    /\ nextToken' = nextToken + 1
    /\ UNCHANGED <<users, otherFlags, trusted, given>>

DropEscalation(t) ==
    /\ t \in tokens
    /\ tokens' = tokens \ {t}
    /\ UNCHANGED <<users, nextToken, otherFlags, trusted, given>>

ExpireEscalations ==
    /\ tokens' = {t \in tokens : t.left > 0}
    /\ UNCHANGED <<users, nextToken, otherFlags, trusted, given>>

LockUser(n) ==
    /\ n \in DOMAIN users \ {"root"}
    /\ users' = [users EXCEPT ![n].locked = TRUE]
    /\ UNCHANGED <<tokens, nextToken, otherFlags, trusted, given>>

UnlockUser(n) ==
    /\ n \in DOMAIN users
    /\ users' = [users EXCEPT ![n].locked = FALSE]
    /\ UNCHANGED <<tokens, nextToken, otherFlags, trusted, given>>

Second ==
    /\ tokens' = {[t EXCEPT !.left = IF @ = 0 THEN 0 ELSE @ - 1] : t \in tokens}
    /\ UNCHANGED <<users, nextToken, otherFlags, trusted, given>>

PermNext ==
    \/ \E n \in Names :
          \/ \E level \in Levels : CreateUser(n, level) \/ Escalate(n, level)
          \/ DeleteUser(n) \/ LockUser(n) \/ UnlockUser(n)
    \/ \E g \in Grants : GrantCapability(g[1], g[2]) \/ RevokeCapability(g[1], g[2])
    \/ \E p \in Paths, flags \in FlagSets : SetFilePermissions(p, flags)
    \/ \E t \in tokens : DropEscalation(t)
    \/ ExpireEscalations \/ Second

PermSpec == PermInit /\ [][PermNext]_permVars

-----------------------------------------------------------------------------
(* However users are deleted and created anew under a name with live        *)
(* escalations, and however an escalation is used to renew itself, a user   *)
(* has a capability beyond its level, or passes for a file whose flags deny *)
(* it, only under a name that has been ROOT, has been given CAN_ESCALATE or *)
(* has been given that very capability (permissions.cpp:256-262, 308-322,   *)
(* 344-412).                                                               *)
OnlyTrustedElevated ==
    \A n \in DOMAIN users \ trusted :
        /\ Lent(n) \cup users[n].caps \subseteq
              DefaultCapabilities[users[n].level] \cup {cap \in Ruling : <<n, cap>> \in given}
        /\ \A p \in Paths : \A flags \in otherFlags[p] :
              \A m \in Modes \ flags : ~CheckFileAccess(n, p, {m})
=============================================================================
