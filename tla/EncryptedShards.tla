--------------------------- MODULE EncryptedShards ---------------------------
(***************************************************************************)
(* The encrypted storage shards: what is in memory, what is in the files,  *)
(* and the password between them.  A shard is only a number: the numbers   *)
(* begin again with every process, on top of the files of the one before.  *)
(***************************************************************************)
EXTENDS Naturals

CONSTANTS
    Secrets,       \* the data that shards are created with
    Nothing,        \* no bytes
    Garbled,        \* what comes out of the cipher with the wrong key
    Passwords,      \* one for each key that can be derived
    EmptyPassword,  \* from which none can
    MaxShards       \* bound on the shards of a process

ASSUME ShardsAssumption ==
    /\ Nothing \notin Secrets /\ Garbled \notin Secrets \cup {Nothing}
    /\ EmptyPassword \notin Passwords /\ MaxShards \in Nat

VARIABLES
    shards,         \* number -> data and loaded, of the shards of this process
    shardFile,      \* number -> the key and the data of its file
    masterKey,
    locked,
    nextShardId,
    created,        \* history: number -> the data it was created with
    unwritten         \* history: the shards that did not get into their file

shardVars == <<shards, shardFile, masterKey, locked, nextShardId, created, unwritten>>

ShardNumbers == 0 .. MaxShards - 1
NoFile       == [key |-> EmptyPassword, data |-> Nothing]

Fresh ==
    /\ shards' = [id \in {} |-> Nothing] /\ created' = [id \in {} |-> Nothing]
    /\ masterKey' = EmptyPassword /\ locked' = TRUE
    /\ nextShardId' = 0 /\ unwritten' = {}

ShardsInit ==
    /\ shards = [id \in {} |-> Nothing] /\ created = [id \in {} |-> Nothing]
    /\ shardFile = [id \in ShardNumbers |-> NoFile]
    /\ masterKey = EmptyPassword /\ locked = TRUE
    /\ nextShardId = 0 /\ unwritten = {}

WithShard(f, id, value) == [i \in DOMAIN f \cup {id} |-> IF i = id THEN value ELSE f[i]]

-----------------------------------------------------------------------------
(* Any password unlocks: there is nothing to compare it with.              *)
Unlock(password) ==
    /\ masterKey' = password /\ locked' = FALSE
    /\ UNCHANGED <<shards, shardFile, nextShardId, created, unwritten>>

(* What is wiped here is gone when it is in no file.                       *)
Lock ==
    /\ shards' = [id \in DOMAIN shards |->
                     IF shards[id].data = Nothing THEN shards[id]
                     ELSE [data |-> Nothing, loaded |-> FALSE]]
    /\ masterKey' = EmptyPassword /\ locked' = TRUE
    /\ UNCHANGED <<shardFile, nextShardId, created, unwritten>>

(* persistShard: the file does not open (there is no directory), or the     *)
(* shard is written under the key.  No bytes: no file either.              *)
Persist(id, data) ==
    \/ /\ UNCHANGED shardFile
       /\ unwritten' = unwritten \cup {id}
    \/ /\ data # Nothing
       /\ shardFile' = [shardFile EXCEPT ![id] = [key |-> masterKey, data |-> data]]
       /\ UNCHANGED unwritten

CreateShard(data) ==
    /\ ~locked
    /\ nextShardId < MaxShards                              \* the bound
    /\ data = Nothing \/ masterKey # EmptyPassword
    /\ shards' = WithShard(shards, nextShardId, [data |-> data, loaded |-> TRUE])
    /\ created' = WithShard(created, nextShardId, data)
    /\ Persist(nextShardId, data)
    /\ nextShardId' = nextShardId + 1
    /\ UNCHANGED <<masterKey, locked>>

HasFile(id)  == shardFile[id] # NoFile
Deciphered(id) == IF shardFile[id].key = masterKey THEN shardFile[id].data ELSE Garbled

\* Variant: what comes out of the cipher is not held against the checksum.
LoadUnchecked(id) ==
    shards' = IF ~HasFile(id) THEN shards
              ELSE [shards EXCEPT ![id] = [data |-> Deciphered(id), loaded |-> TRUE]]

(* loadShard: a checksum that does not fit wipes what was deciphered.      *)
LoadShard(id) ==
    shards' = IF ~HasFile(id) THEN shards
              ELSE [shards EXCEPT ![id] =
                       IF Deciphered(id) # Garbled
                       THEN [data |-> shardFile[id].data, loaded |-> TRUE]
                       ELSE [data |-> Nothing, loaded |-> FALSE]]

ReadShard(id) ==
    /\ ~locked /\ id \in DOMAIN shards
    /\ ~shards[id].loaded
    /\ HasFile(id) => masterKey # EmptyPassword
    /\ LoadShard(id)
    /\ UNCHANGED <<shardFile, masterKey, locked, nextShardId, created, unwritten>>

(* Locked or not.                                                          *)
DeleteShard(id) ==
    /\ id \in DOMAIN shards
    /\ shards' = [i \in DOMAIN shards \ {id} |-> shards[i]]
    /\ created' = [i \in DOMAIN created \ {id} |-> created[i]]
    /\ shardFile' = [shardFile EXCEPT ![id] = NoFile]
    /\ unwritten' = unwritten \ {id}
    /\ UNCHANGED <<masterKey, locked, nextShardId>>

(* The process is killed, between two calls or on its way through one: a    *)
(* file cut short there has the checksum of what it should have held.      *)
Killed ==
    /\ Fresh
    /\ \/ UNCHANGED shardFile
       \/ /\ ~locked /\ nextShardId < MaxShards /\ masterKey # EmptyPassword
          /\ shardFile' = [shardFile EXCEPT ![nextShardId] = [key |-> EmptyPassword, data |-> Garbled]]

(* A key from the empty password: the division by its length stops the      *)
(* process, before a file is opened for writing.                           *)
DeriveFromNothing ==
    /\ ~locked /\ masterKey = EmptyPassword
    /\ \/ nextShardId < MaxShards
       \/ \E id \in DOMAIN shards : ~shards[id].loaded /\ HasFile(id)
    /\ Fresh
    /\ UNCHANGED shardFile

ShardsNext ==
    \/ \E p \in Passwords \cup {EmptyPassword} : Unlock(p)
    \/ \E data \in Secrets \cup {Nothing} : CreateShard(data)
    \/ \E id \in DOMAIN shards : ReadShard(id) \/ DeleteShard(id)
    \/ Lock \/ Killed \/ DeriveFromNothing

ShardsSpec == ShardsInit /\ [][ShardsNext]_shardVars

-----------------------------------------------------------------------------
(* Whatever passwords a store is unlocked with in between, and whatever     *)
(* files an earlier process left under the same numbers: a shard that went  *)
(* into its file when it was created reads as what it was created with, or  *)
(* as nothing, and its file still holds just that                          *)
(* (encrypted_shards.cpp:122-269).                                         *)
ShardsReadBack ==
    \A id \in DOMAIN shards \ unwritten :
        /\ shards[id].data \in {created[id], Nothing}
        /\ shardFile[id].data = created[id]
=============================================================================
