---------------------------- MODULE ConnectorScan ----------------------------
(***************************************************************************)
(* One scan of a source, by the connector that its provider names          *)
(* (SourceManager._build_connector): the walk of DriveScan or the one of   *)
(* NotionScan.  The tree of the other provider is empty and stays so.      *)
(***************************************************************************)
EXTENDS Naturals, Sequences, FiniteSets

CONSTANTS
    Folders, Files, FolderRoot, Accepted, MaxMoves,         \* see DriveScan
    Pages, Databases, Containers, PageRoot, Nowhere,        \* see NotionScan
    MaxDepth, MaxEdits

VARIABLES
    provider,       \* Source.provider
    place, moved, phase, stack, current, seenFolders, listed, seenFiles, driveDocuments, warned,
    parent, trashed, edited, agenda, seen, notionDocuments, odd, status

Drive == INSTANCE DriveScan WITH Root <- FolderRoot, documents <- driveDocuments
Notion == INSTANCE NotionScan WITH Root <- PageRoot, documents <- notionDocuments

ASSUME DriveAssumption == Drive!DriveConstants
ASSUME NotionAssumption == Notion!NotionConstants

driveVars == <<place, moved, phase, stack, current, seenFolders, listed, seenFiles,
               driveDocuments, warned>>
notionVars == <<parent, trashed, edited, agenda, seen, notionDocuments, odd, status>>
vars == <<provider, driveVars, notionVars>>

Init ==
    /\ provider \in {"google_drive", "notion"}
    /\ \/ provider = "google_drive" /\ parent = [b \in Notion!Inner |-> Nowhere]
       \/ provider = "notion" /\ place = [x \in Drive!Items |-> {}]
    /\ Drive!Init /\ Notion!Init

Next ==
    \/ provider = "google_drive" /\ Drive!Next /\ UNCHANGED <<provider, notionVars>>
    \/ provider = "notion" /\ Notion!Next /\ UNCHANGED <<provider, driveVars>>

Spec == Init /\ [][Next]_vars

----------------------------------------------------------------------------
(* The properties of the two walks, under the names they have there *)

\* Both walks have only the values that are meant.
TypeOK == Drive!TypeOK /\ Notion!TypeOK

\* A file gives one document at most, in however many folders the Drive walk meets it.
DocumentsUnique == Drive!DocumentsUnique

\* A Drive scan that succeeds accounts for every file that was left alone.
SettledFilesFound == Drive!SettledFilesFound

\* A page gives one document at most, however often the Notion walk meets it.
PagesOnce == Notion!PagesOnce

\* A block is in the text of one Notion document at most.
BlocksOnce == Notion!BlocksOnce

\* A Notion scan that succeeds has every page that was left alone, with its blocks.
SettledPagesFound == Notion!SettledPagesFound
==============================================================================
