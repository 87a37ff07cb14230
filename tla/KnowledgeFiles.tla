---------------------------- MODULE KnowledgeFiles ----------------------------
(***************************************************************************)
(* learned_facts.mk on several devices, and the programs that write it     *)
(* with nothing between them: the assistant and the Telegram bridge append *)
(* what they are taught, the maintenance rewrites the file without its     *)
(* double and broken lines, and mk_sync exchanges it with a GitHub         *)
(* repository (external).  A device runs one mk_sync and one maintenance   *)
(* at a time, and either may be stopped anywhere.  A rewrite opens the     *)
(* file, which empties it, and writes later, from the start of the file,   *)
(* over what others have appended since.  A fact stands for its line       *)
(* without the blanks around it.                                           *)
(***************************************************************************)
EXTENDS Naturals, Sequences, SequencesExt, Lists

CONSTANTS
    Hosts,          \* the devices with a copy of the file
    Tidied,         \* those on which the maintenance runs
    Lines,          \* the facts that may be taught, a line each
    Broken,         \* those whose line the maintenance takes for a broken one
    Misread,        \* those whose line may lie where a download is decoded wrong
    Noise,          \* a line decoded wrong or cut short, and no fact
    MaxLength       \* bound on the lines of a file

ASSUME FilesAssumption ==
    /\ Tidied \subseteq Hosts /\ Broken \subseteq Lines /\ Misread \subseteq Lines
    /\ Noise \notin Lines /\ MaxLength \in Nat

VARIABLES
    factsFile,      \* host -> the lines of learned_facts.mk
    remote,         \* the lines in the repository; <<>>: there is no such file
    sync,           \* host -> what its mk_sync is at
    tidy            \* host -> what its maintenance is at

filesVars == <<factsFile, remote, sync, tidy>>

(* auto: autoSync; text: what was read or downloaded; sha: of the content  *)
(* found in the repository; pass: what the maintenance removes.            *)
NoSync == [at |-> "idle", auto |-> FALSE, text |-> <<>>, sha |-> <<>>]
NoTidy == [at |-> "idle", pass |-> "none", text |-> <<>>]

FilesInit ==
    /\ factsFile = [h \in Hosts |-> <<>>] /\ remote = <<>>
    /\ sync = [h \in Hosts |-> NoSync]
    /\ tidy = [h \in Hosts |-> NoTidy]

(* Lines with a '|' in them: noise has none. *)
KnownIn(lines) == ToSet(lines) \ {Noise}

(* GitHub breaks the base64 text every 60 characters with a \n, of which   *)
(* pull() and smartMerge() leave the n, a digit of base64: the three runs  *)
(* of 45 bytes that follow the first one are decoded wrong, the next one   *)
(* right.  Short files have no such lines.                                 *)
Decoded(lines) ==
    {t \in [DOMAIN lines -> Lines \cup {Noise}] :
        \A i \in DOMAIN lines : t[i] = lines[i] \/ (lines[i] \in Misread /\ t[i] = Noise)}

Goes(h, at) == [NoSync EXCEPT !.at = at, !.auto = sync[h].auto]

(* Lines appended to a file: what comes after noise may have no newline     *)
(* before it, and is noise then.                                            *)
Appended(there, lines) ==
    {there \o lines} \cup
    IF there # <<>> /\ lines # <<>> /\ Last(there) = Noise THEN {there \o Tail(lines)} ELSE {}

(* Lines written over the start of a file: of what is there, what lies      *)
(* beyond them stays, its first line cut or not.                            *)
Over(lines, there) ==
    IF lines = <<>> THEN {there}
    ELSE LET beyond == {SubSeq(there, k, Len(there)) : k \in 2 .. Len(there) + 1}
         IN  {lines} \cup {lines \o rest : rest \in beyond}
                     \cup {lines \o <<Noise>> \o rest : rest \in beyond}

(* What a write that is stopped, or fails, has written of its lines.        *)
Torn(lines) ==
    {lines} \cup {SubSeq(lines, 1, n) \o cut : cut \in {<<>>, <<Noise>>}, n \in 0 .. Len(lines) - 1}

(* The file of h after such a write; the bound is on its length.            *)
Left(h, texts) ==
    \E t \in UNION {Over(lines, factsFile[h]) : lines \in texts} :
        Len(t) <= MaxLength /\ factsFile' = [factsFile EXCEPT ![h] = t]

Extends(h, lines) ==
    /\ Len(factsFile[h]) + Len(lines) <= MaxLength             \* the bound
    /\ \E t \in Appended(factsFile[h], lines) : factsFile' = [factsFile EXCEPT ![h] = t]

-----------------------------------------------------------------------------
(* /learn of the bridge, a fact learned by the assistant, and mk_sync's     *)
(* pushFact, which pushes at once: a line at the end, there already or not. *)
Taught(h, l) ==
    /\ Extends(h, <<l>>)
    /\ UNCHANGED <<remote, sync, tidy>>

Idle(h)    == sync[h].at = "idle" /\ ~sync[h].auto
InPull(h)  == sync[h].at = "idle"
AfterPull(h) == Goes(h, IF sync[h].auto THEN "pushing" ELSE "idle")

PushFact(h, l) ==
    /\ Idle(h) /\ Extends(h, <<l>>)
    /\ sync' = [sync EXCEPT ![h] = Goes(h, "pushing")]
    /\ UNCHANGED <<remote, tidy>>

AutoSync(h) ==
    /\ Idle(h)
    /\ sync' = [sync EXCEPT ![h].auto = TRUE]
    /\ UNCHANGED <<factsFile, remote, tidy>>

(* A download that fails or is empty leaves the file alone. *)
Pull(h) ==
    /\ InPull(h)
    /\ \/ \E t \in Decoded(remote) :
             /\ t # <<>>
             /\ sync' = [sync EXCEPT ![h] = [Goes(h, "pulled") EXCEPT !.text = t]]
       \/ sync' = [sync EXCEPT ![h] = AfterPull(h)]
    /\ UNCHANGED <<factsFile, remote, tidy>>

OpenLocalFile(h) ==
    /\ sync[h].at = "pulled"
    /\ factsFile' = [factsFile EXCEPT ![h] = <<>>]
    /\ sync' = [sync EXCEPT ![h].at = "opened"]
    /\ UNCHANGED <<remote, tidy>>

WriteLocalFile(h) ==
    /\ sync[h].at = "opened"
    /\ Left(h, {sync[h].text})
    /\ sync' = [sync EXCEPT ![h] = AfterPull(h)]
    /\ UNCHANGED <<remote, tidy>>

SmartMerge(h) ==
    /\ Idle(h)
    /\ \E t \in Decoded(remote) :
          sync' = [sync EXCEPT ![h] = [Goes(h, "merging") EXCEPT
                     !.text = Picked(t, {i \in DOMAIN t : t[i] \in KnownIn(t) \ KnownIn(factsFile[h])})]]
    /\ UNCHANGED <<factsFile, remote, tidy>>

\* Variant: the file is not opened for appending, but written from what was read.
RewriteMerged(h) ==
    /\ sync[h].at = "merging"
    /\ factsFile' = [factsFile EXCEPT ![h] = sync[h].text]
    /\ sync' = [sync EXCEPT ![h] = NoSync]
    /\ UNCHANGED <<remote, tidy>>

AppendMerged(h) ==
    /\ sync[h].at = "merging"
    /\ Extends(h, sync[h].text)
    /\ sync' = [sync EXCEPT ![h] = NoSync]
    /\ UNCHANGED <<remote, tidy>>

(* push: nothing to send, or the file as it is now. *)
PushRead(h) ==
    /\ sync[h].at = "pushing" \/ Idle(h)
    /\ sync' = [sync EXCEPT ![h] =
                  IF factsFile[h] = <<>> THEN Goes(h, "idle")
                  ELSE [Goes(h, "read") EXCEPT !.text = factsFile[h]]]
    /\ UNCHANGED <<factsFile, remote, tidy>>

(* An answer that does not come leaves sha empty. *)
PushLook(h) ==
    /\ sync[h].at = "read"
    /\ \E sha \in {remote, <<>>} :
          sync' = [sync EXCEPT ![h].at = "looked", ![h].sha = sha]
    /\ UNCHANGED <<factsFile, remote, tidy>>

(* The repository takes a new version only of the content it has, and a    *)
(* file without a sha only when it is new.  The request may be lost.       *)
PushPut(h) ==
    /\ sync[h].at = "looked"
    /\ \/ sync[h].sha = remote /\ remote' = sync[h].text
       \/ UNCHANGED remote
    /\ sync' = [sync EXCEPT ![h] = Goes(h, "idle")]
    /\ UNCHANGED <<factsFile, tidy>>

(* Ctrl-C, or the end of a command that was waiting for an answer.  A write  *)
(* that fails leaves what a stop leaves, and nothing looks at it.            *)
Killed(h) ==
    /\ sync[h] # NoSync
    /\ \/ sync[h].at = "opened" /\ Left(h, Torn(sync[h].text))
       \/ sync[h].at = "merging" /\ \E lines \in Torn(sync[h].text) : Extends(h, lines)
       \/ sync[h].at \notin {"opened", "merging"} /\ UNCHANGED factsFile
    /\ sync' = [sync EXCEPT ![h] = NoSync]
    /\ UNCHANGED <<remote, tidy>>

-----------------------------------------------------------------------------
(* run_full_maintenance: every double line but the first of its kind goes,  *)
(* then every broken one (no fact, or a fact with a '|' too many or a blank  *)
(* field in it, which /learn and pushFact write as they come).  Each pass    *)
(* reads the whole file and rewrites it when a line has to go.               *)
FirstOfKind(lines) ==
    Picked(lines, {i \in DOMAIN lines : \A j \in 1 .. i - 1 : lines[j] # lines[i]})

Cleaned(pass, lines) ==
    IF pass = "compact" THEN FirstOfKind(lines)
    ELSE Picked(lines, {i \in DOMAIN lines : lines[i] \in Lines \ Broken})

PassDone(pass) == [at |-> "done", pass |-> pass, text |-> <<>>]

Reads(h, pass) ==
    tidy' = [tidy EXCEPT ![h] =
               IF Len(Cleaned(pass, factsFile[h])) < Len(factsFile[h])
               THEN [at |-> "read", pass |-> pass, text |-> factsFile[h]] ELSE PassDone(pass)]

Compact(h) ==
    /\ h \in Tidied /\ tidy[h].at = "idle"
    /\ Reads(h, "compact")
    /\ UNCHANGED <<factsFile, remote, sync>>

Verify(h) ==
    /\ tidy[h].at = "done" /\ tidy[h].pass = "compact"
    /\ Reads(h, "verify")
    /\ UNCHANGED <<factsFile, remote, sync>>

OpenRewrite(h) ==
    /\ tidy[h].at = "read"
    /\ factsFile' = [factsFile EXCEPT ![h] = <<>>]
    /\ tidy' = [tidy EXCEPT ![h].at = "opened"]
    /\ UNCHANGED <<remote, sync>>

WriteBack(h) ==
    /\ tidy[h].at = "opened"
    /\ Left(h, {Cleaned(tidy[h].pass, tidy[h].text)})
    /\ tidy' = [tidy EXCEPT ![h] = PassDone(tidy[h].pass)]
    /\ UNCHANGED <<remote, sync>>

(* The end of the maintenance, or a stop anywhere before it.  A write that   *)
(* fails leaves what a stop leaves; nothing looks at it, and the next pass   *)
(* begins as after a new start.                                              *)
TidyEnds(h) ==
    /\ tidy[h] # NoTidy
    /\ \/ tidy[h].at = "opened" /\ Left(h, Torn(Cleaned(tidy[h].pass, tidy[h].text)))
       \/ tidy[h].at # "opened" /\ UNCHANGED factsFile
    /\ tidy' = [tidy EXCEPT ![h] = NoTidy]
    /\ UNCHANGED <<remote, sync>>

FilesNext ==
    \E h \in Hosts :
        \/ \E l \in Lines : Taught(h, l) \/ PushFact(h, l)
        \/ AutoSync(h) \/ Pull(h) \/ OpenLocalFile(h) \/ WriteLocalFile(h)
        \/ SmartMerge(h) \/ AppendMerged(h)
        \/ PushRead(h) \/ PushLook(h) \/ PushPut(h) \/ Killed(h)
        \/ Compact(h) \/ Verify(h) \/ OpenRewrite(h) \/ WriteBack(h) \/ TidyEnds(h)

FilesSpec == FilesInit /\ [][FilesNext]_filesVars

-----------------------------------------------------------------------------
(* What the file has, or will have when those who emptied it write it.       *)
Present(h) ==
    KnownIn(factsFile[h])
    \cup (IF sync[h].at = "opened" THEN KnownIn(sync[h].text) ELSE {})
    \cup (IF tidy[h].at = "opened" THEN KnownIn(Cleaned(tidy[h].pass, tidy[h].text)) ELSE {})

(* However the programs interleave on a file that none of them locks, a     *)
(* fact is lost only in one of four ways: mk_sync puts a download in the    *)
(* place of the file, the maintenance is stopped while the file it rewrites *)
(* is open, its second pass takes the fact's line for a broken one, or it   *)
(* empties or overwrites the file without having read the fact.  A sound    *)
(* fact that the maintenance has read comes back when nothing stops it      *)
(* (auto_maintenance.cpp:186-286, knowledge_sync.cpp:205-212, 318).         *)
LossesExplained ==
    [][\A h \in Hosts :
          \/ Present(h) \subseteq Present(h)'
          \/ sync[h].at \in {"pulled", "opened"} /\ sync'[h] # sync[h]
          \/ tidy[h].at = "opened" /\ tidy'[h] = NoTidy
          \/ /\ tidy[h].at \in {"read", "opened"} /\ tidy'[h] # tidy[h]
             /\ KnownIn(tidy[h].text) \ (IF tidy[h].pass = "verify" THEN Broken ELSE {})
                    \subseteq Present(h)'
      ]_filesVars

(* "Smart merge all files (don't overwrite, just add new facts)"            *)
(* (tools/knowledge_sync.cpp:502): what the automatic synchronisation does  *)
(* to a device's file, while nothing stops it, takes no fact out of it.     *)
AutoSyncOnlyAdds ==
    [][\A h \in Hosts : sync[h].auto /\ sync'[h].auto /\ sync'[h] # sync[h] =>
          KnownIn(factsFile[h]) \subseteq Present(h)']_filesVars
=============================================================================
