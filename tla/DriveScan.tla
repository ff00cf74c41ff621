------------------------------ MODULE DriveScan ------------------------------
(***************************************************************************)
(* GoogleDriveConnector.scan (rekanvault/sources/google_drive.py): a walk  *)
(* of the folders below the root, then one document for each file that was *)
(* listed.  Every folder costs two queries, and people go on moving and    *)
(* deleting files and folders while the walk is under way.  A query        *)
(* collects all of its pages; its answer is taken from one moment.         *)
(***************************************************************************)
EXTENDS Naturals, Sequences, FiniteSets

CONSTANTS
    Folders,        \* the folders other than the root
    Files,
    Root,           \* the folder the source is configured with
    Accepted,       \* the files whose type, name and size the connector takes
    MaxMoves        \* bound: how often anything is moved or removed

\* What ConnectorScan assumes of them
DriveConstants ==
    /\ Root \notin Folders /\ IsFiniteSet(Folders)
    /\ Files \cap (Folders \cup {Root}) = {} /\ Accepted \subseteq Files
    /\ MaxMoves \in Nat

VARIABLES
    place,          \* place[x]: the folders that have x; a file may be in several
    moved,          \* what has been moved or removed since the scan began
    phase,          \* what the scan does next
    stack,          \* folders_to_walk
    current,        \* the folder that is being listed
    seenFolders,    \* seen_folder_ids
    listed,         \* listed[f]: how often f is still to come in all_files
    seenFiles,      \* seen_file_ids
    documents,      \* documents[f]: how many documents the scan has built of f
    warned          \* the files that a warning names

vars == <<place, moved, phase, stack, current, seenFolders, listed, seenFiles, documents, warned>>
outcome == <<documents, warned>>
walkVars == <<current, seenFolders>>

Dirs == Folders \cup {Root}
Items == Folders \cup Files

TypeOK ==
    /\ place \in [Items -> SUBSET Dirs]
    /\ moved \subseteq Items
    /\ phase \in {"pop", "files", "subfolders", "build", "done", "failed"}
    /\ stack \in Seq(Dirs)
    /\ current \in Dirs
    /\ seenFolders \subseteq Dirs
    /\ listed \in [Files -> Nat]
    /\ seenFiles \subseteq Files
    /\ documents \in [Files -> Nat]
    /\ warned \subseteq Files

\* A folder is in one folder at most, and not inside itself.
Tree ==
    /\ \A x \in Folders : Cardinality(place[x]) <= 1
    /\ ~\E S \in (SUBSET Folders) \ {{}} : \A x \in S : place[x] \cap S # {}

Init ==
    /\ place \in [Items -> SUBSET Dirs]
    /\ Tree
    /\ moved = {}
    /\ phase = "pop"
    /\ stack = <<Root>>
    /\ current = Root
    /\ seenFolders = {}
    /\ listed = [f \in Files |-> 0]
    /\ seenFiles = {}
    /\ documents = [f \in Files |-> 0]
    /\ warned = {}

----------------------------------------------------------------------------
(* People: a folder stays a tree, a file goes anywhere *)

Move(x, dest) ==
    /\ phase \notin {"done", "failed"}
    /\ Cardinality(moved) < MaxMoves
    /\ dest # place[x]
    /\ place' = [place EXCEPT ![x] = dest]
    /\ Tree'
    /\ moved' = moved \cup {x}
    /\ UNCHANGED <<phase, stack, current, seenFolders, listed, seenFiles, outcome>>

----------------------------------------------------------------------------
(* One call: _retry_call *)

DefaultMaxRetries == 5

\* The result of n outages in a row and the answer that would follow.
Retried(n, answer) == IF n < DefaultMaxRetries THEN answer ELSE "transient"

\* What a call of the scan comes to: a missing or forbidden file, a refusal, an outage.
Results == {Retried(n, a) : n \in 0 .. DefaultMaxRetries, a \in {"ok", "gone", "refused"}}

----------------------------------------------------------------------------
(* The walk *)

\* A folder that was met twice is walked once.
PopSeen ==
    /\ phase = "pop" /\ stack # <<>>
    /\ stack[Len(stack)] \in seenFolders
    /\ stack' = SubSeq(stack, 1, Len(stack) - 1)
    /\ UNCHANGED <<place, moved, phase, current, seenFolders, listed, seenFiles, outcome>>

Pop ==
    /\ phase = "pop" /\ stack # <<>>
    /\ stack[Len(stack)] \notin seenFolders
    /\ current' = stack[Len(stack)]
    /\ seenFolders' = seenFolders \cup {current'}
    /\ stack' = SubSeq(stack, 1, Len(stack) - 1)
    /\ phase' = "files"
    /\ UNCHANGED <<place, moved, listed, seenFiles, outcome>>

\* No call of the walk is guarded: an outage or a refusal ends the scan.
Listing(from, to, r) == phase = from /\ phase' = IF r = "ok" THEN to ELSE "failed"

ListFiles ==
    \E r \in Results :
       /\ Listing("files", "subfolders", r)
       /\ listed' = IF r # "ok" THEN listed
                    ELSE [f \in Files |-> listed[f] + (IF current \in place[f] THEN 1 ELSE 0)]
       /\ UNCHANGED <<place, moved, stack, walkVars, seenFiles, outcome>>

Subfolders == {x \in Folders : current \in place[x]}
Orders(S) == {q \in [1 .. Cardinality(S) -> S] : \A i, j \in DOMAIN q : q[i] = q[j] => i = j}

ListSubfolders ==
    \E r \in Results :
       /\ Listing("subfolders", "pop", r)
       /\ IF r = "ok" THEN \E q \in Orders(Subfolders) : stack' = stack \o q
          ELSE UNCHANGED stack
       /\ UNCHANGED <<place, moved, walkVars, listed, seenFiles, outcome>>

WalkEnds ==
    /\ phase = "pop" /\ stack = <<>>
    /\ phase' = "build"
    /\ UNCHANGED <<place, moved, stack, walkVars, listed, seenFiles, outcome>>

----------------------------------------------------------------------------
(* The documents *)

\* Mutant of Listed: the next file is taken whether there is one or not.
ListedOrNot(f) == phase = "build" /\ listed' = [listed EXCEPT ![f] = @ - 1]

Listed(f) == phase = "build" /\ listed[f] > 0 /\ listed' = [listed EXCEPT ![f] = @ - 1]

\* Mutant of Known: no file is.
KnownNone(f) == FALSE

Known(f) == f \in seenFiles

\* A file in several folders, or one that was moved from a folder that had been listed
\* to one that had not, is listed again; a file that is not accepted gives a warning.
Skip(f) ==
    /\ Listed(f)
    /\ Known(f) \/ f \notin Accepted
    /\ seenFiles' = seenFiles \cup {f}
    /\ warned' = IF Known(f) THEN warned ELSE warned \cup {f}
    /\ UNCHANGED <<place, moved, phase, stack, walkVars, documents>>

\* Mutant of PhaseAfter: a file that is gone ends the loop over the files.
PhaseAfterGone(r) == IF r = "ok" THEN "build" ELSE IF r = "gone" THEN "done" ELSE "failed"

\* The download: 403 and 404 give a warning, any other failure ends the scan.  A 403 may
\* be a rate limit or a size limit as well, so it can come for any file.
PhaseAfter(r) == IF r \in {"ok", "gone"} THEN "build" ELSE "failed"

Build(f) ==
    /\ Listed(f)
    /\ f \in Accepted /\ ~Known(f)
    /\ seenFiles' = seenFiles \cup {f}
    /\ \E r \in Results :
          /\ documents' = [documents EXCEPT ![f] = IF r = "ok" THEN @ + 1 ELSE @]
          /\ warned' = IF r = "gone" THEN warned \cup {f} ELSE warned
          /\ phase' = PhaseAfter(r)
    /\ UNCHANGED <<place, moved, stack, walkVars>>

Finish ==
    /\ phase = "build"
    /\ \A f \in Files : listed[f] = 0
    /\ phase' = "done"
    /\ UNCHANGED <<place, moved, stack, walkVars, listed, seenFiles, outcome>>

Scan ==
    \/ PopSeen \/ Pop \/ ListFiles \/ ListSubfolders \/ WalkEnds
    \/ \E f \in Files : Skip(f) \/ Build(f)
    \/ Finish

Next ==
    \/ \E x \in Items, dest \in SUBSET Dirs : Move(x, dest)
    \/ Scan

Spec == Init /\ [][Next]_vars

----------------------------------------------------------------------------
(* What a scan returns *)

\* A file that is in several folders, or is moved ahead of the walk, is one document.
DocumentsUnique == \A f \in Files : documents[f] <= 1

\* Whether d is the root or was left alone with all the folders on its way down from it:
\* d is in every set that has the root and whatever was left alone in a folder of the set.
Settled(d) ==
    \A S \in SUBSET Dirs :
       /\ Root \in S
       /\ \A x \in Folders \ moved : place[x] \cap S # {} => x \in S
       => d \in S

\* However the tree changes under the walk, a scan that succeeds has a document or a
\* warning for every file that was left alone below the root with all the folders on its
\* way, and never both.
SettledFilesFound ==
    phase = "done" =>
       \A f \in Files \ moved :
          (\E d \in place[f] : Settled(d)) => (documents[f] = 1 <=> f \notin warned)
==============================================================================
