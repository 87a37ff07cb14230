----------------------------- MODULE FileSystem -----------------------------
(***************************************************************************)
(* VirtualFileSystem: a tree of nodes found by path, mount points kept     *)
(* both as a type of node and as a list of paths, and the space in use     *)
(* kept beside the sizes of the files.  A path is the sequence of names    *)
(* that split_path() leaves, from the root: the current directory only     *)
(* completes paths.  The journal is in memory, every operation commits its *)
(* own entry and nothing reads it back: it is left out, as are owners,     *)
(* permissions and times.                                                  *)
(***************************************************************************)
EXTENDS Integers, Sequences, FiniteSets, SequencesExt

CONSTANTS
    Names,         \* the names of nodes
    FileSizes,     \* sizes of what is written at once
    MaxDepth,      \* bound on the length of a path
    MaxMounts,     \* bound on the mount points
    MaxUsed        \* bound on the space in use

ASSUME FileSystemAssumption ==
    FileSizes \subseteq Nat /\ MaxDepth \in Nat \ {0} /\ {MaxMounts, MaxUsed} \subseteq Nat

VARIABLES
    nodes,         \* path -> [type, size], the root excepted
    mountPoints,   \* the paths of mount_points_: the root's type is in it too
    usedSpace      \* used_space_

fsVars == <<nodes, mountPoints, usedSpace>>

Paths  == UNION {[1 .. d -> Names] : d \in 1 .. MaxDepth}
Root   == <<>>
FsInit == nodes = <<>> /\ mountPoints = {} /\ usedSpace = 0

-----------------------------------------------------------------------------
NodeType(p) == IF p # Root THEN nodes[p].type
               ELSE IF Root \in mountPoints THEN "MOUNT_POINT" ELSE "DIRECTORY"
Under(p)    == {q \in DOMAIN nodes : IsStrictPrefix(p, q)}
Tree(p)     == Under(p) \cup ({p} \cap DOMAIN nodes)

(* navigate_to passes through directories only. *)
Found(p)  == /\ p \in DOMAIN nodes \cup {Root}
             /\ \A q \in DOMAIN nodes \cup {Root} :
                    IsStrictPrefix(q, p) => NodeType(q) = "DIRECTORY"
FoundAs(p, type) == Found(p) /\ NodeType(p) = type

(* navigate_to_parent and find_child: the parent may have any type. *)
Child(p)  == p \in DOMAIN nodes /\ Found(Front(p))
ChildAs(p, type) == Child(p) /\ nodes[p].type = type

Leaf(type, size) == [type |-> type, size |-> size]
Placed(ns, p, n) == [q \in DOMAIN ns \cup {p} |-> IF q = p THEN n ELSE ns[q]]
Without(ns, D)   == [q \in DOMAIN ns \ D |-> ns[q]]

(* What the sizes of the nodes at D add up to.                               *)
Units(ns, D)     == UNION {{q} \X (1 .. ns[q].size) : q \in D}
Space(ns, D)     == Cardinality(Units(ns, D))

(* count_nodes: files below directories below p. *)
NodesCounted(p) == {q \in Tree(p) : /\ nodes[q].type = "FILE"
                                    /\ \A r \in Tree(p) \cup {p} :
                                        IsStrictPrefix(r, q) => NodeType(r) = "DIRECTORY"}

-----------------------------------------------------------------------------
Creatable(p) == FoundAs(Front(p), "DIRECTORY") /\ p \notin DOMAIN nodes

CreateFile(p, s) ==
    /\ Creatable(p) /\ usedSpace + s <= MaxUsed
    /\ nodes' = Placed(nodes, p, Leaf("FILE", s))
    /\ usedSpace' = usedSpace + s
    /\ UNCHANGED mountPoints

CreateDirectory(p) ==
    /\ Creatable(p)
    /\ nodes' = Placed(nodes, p, Leaf("DIRECTORY", 0))
    /\ UNCHANGED <<mountPoints, usedSpace>>

WriteFile(p, s) ==
    /\ FoundAs(p, "FILE") /\ usedSpace - nodes[p].size + s <= MaxUsed
    /\ nodes' = [nodes EXCEPT ![p].size = s]
    /\ usedSpace' = usedSpace - nodes[p].size + s
    /\ UNCHANGED mountPoints

\* Variant: the old content is taken off although it is kept.
AppendTwice(p, s) ==
    /\ FoundAs(p, "FILE") /\ usedSpace + s <= MaxUsed
    /\ nodes' = [nodes EXCEPT ![p].size = @ + s]
    /\ usedSpace' = usedSpace - nodes[p].size + s
    /\ UNCHANGED mountPoints

AppendFile(p, s) ==
    /\ FoundAs(p, "FILE") /\ usedSpace + s <= MaxUsed
    /\ nodes' = [nodes EXCEPT ![p].size = @ + s]
    /\ usedSpace' = usedSpace + s
    /\ UNCHANGED mountPoints

DeleteFile(p) ==
    /\ ChildAs(p, "FILE")
    /\ nodes' = Without(nodes, Tree(p))
    /\ usedSpace' = usedSpace - nodes[p].size
    /\ UNCHANGED mountPoints

(* What count_nodes does not reach is removed and stays on the account. *)
DeleteDirectory(p, recursive) ==
    /\ ChildAs(p, "DIRECTORY")
    /\ recursive \/ Under(p) = {}
    /\ nodes' = Without(nodes, Tree(p))
    /\ usedSpace' = usedSpace - (IF recursive THEN Space(nodes, NodesCounted(p)) ELSE 0)
    /\ UNCHANGED mountPoints

(* A directory moved below itself leaves the tree; a node may be moved below *)
(* a file, whose type is not looked at.                                      *)
Renamed(t, p, q) == q \o SubSeq(t, Len(p) + 1, Len(t))

Moved(ns, p, q) ==
    [r \in (DOMAIN ns \ Tree(p)) \cup {Renamed(t, p, q) : t \in Tree(p)} |->
        IF r = q \/ IsStrictPrefix(q, r) THEN ns[Renamed(r, q, p)] ELSE ns[r]]

Rename(p, q) ==
    /\ Child(p) /\ Found(Front(q)) /\ q \notin DOMAIN nodes
    /\ \A t \in Tree(p) : Len(q) + Len(t) - Len(p) <= MaxDepth
    /\ nodes' = IF IsStrictPrefix(p, q) THEN Without(nodes, Tree(p)) ELSE Moved(nodes, p, q)
    /\ UNCHANGED <<mountPoints, usedSpace>>

Mount(p) ==
    /\ FoundAs(p, "DIRECTORY") \/ (~ Found(p) /\ Creatable(p))
    /\ Cardinality(mountPoints \cup {p}) <= MaxMounts
    /\ nodes' = Placed(nodes, p, Leaf("MOUNT_POINT", 0))
    /\ mountPoints' = mountPoints \cup {p}
    /\ UNCHANGED usedSpace

(* Whatever is at the path by now becomes a directory. *)
Unmount(p) ==
    /\ p \in mountPoints
    /\ mountPoints' = mountPoints \ {p}
    /\ nodes' = IF Found(p) THEN [nodes EXCEPT ![p].type = "DIRECTORY"] ELSE nodes
    /\ UNCHANGED usedSpace

(* The root can be mounted once, and nothing below it is found until it is  *)
(* unmounted, but for its own children, whose parent's type nobody asks.    *)
MountRoot ==
    /\ FoundAs(Root, "DIRECTORY") /\ Cardinality(mountPoints) < MaxMounts
    /\ mountPoints' = mountPoints \cup {Root}
    /\ UNCHANGED <<nodes, usedSpace>>

UnmountRoot ==
    /\ Root \in mountPoints
    /\ mountPoints' = mountPoints \ {Root}
    /\ UNCHANGED <<nodes, usedSpace>>

FsNext ==
    \/ MountRoot \/ UnmountRoot
    \/ \E p \in Paths, s \in FileSizes : CreateFile(p, s) \/ WriteFile(p, s) \/ AppendFile(p, s)
    \/ \E p \in Paths : CreateDirectory(p) \/ DeleteFile(p) \/ Mount(p) \/ Unmount(p)
    \/ \E p \in Paths, recursive \in BOOLEAN : DeleteDirectory(p, recursive)
    \/ \E p, q \in Paths : Rename(p, q)

FsSpec == FsInit /\ [][FsNext]_fsVars

-----------------------------------------------------------------------------
(* used_space_ is kept by hand in six operations and nothing reads it;      *)
(* get_stats() counts the tree.  Whatever is renamed, mounted over or        *)
(* deleted, the account covers at least every file that count_nodes()        *)
(* reaches, and never goes below zero (filesystem.cpp:325-419).              *)
SpaceCovered == usedSpace >= Space(nodes, NodesCounted(Root))
=============================================================================
