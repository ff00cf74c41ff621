------------------------ MODULE ConnectorScanProofs ------------------------
(***************************************************************************)
(* Proofs about ConnectorScan, for every tree, every number of people who  *)
(* change it meanwhile, every depth and every failure of a call: neither   *)
(* walk returns anything twice, and neither leaves out what nobody touched.*)
(*                                                                         *)
(* Nothing twice.  A document is built only of what is not yet in the set  *)
(* of what was seen, and the step that builds it puts it there; nothing is *)
(* ever taken out.  What carries the induction is that every document is   *)
(* of something seen (DriveInv, NotionInv); for Notion it takes, besides,  *)
(* that a call that collects is at a page, which rests on databases having *)
(* pages for rows and nothing else.  Texts are apart because a block that  *)
(* was left alone is still where its text says (TextInv): blocks that two  *)
(* texts share would otherwise be inside each other.                       *)
(*                                                                         *)
(* Nothing left out.  What was left alone in a folder that has been listed *)
(* is on the stack, or walked, or to be built (WalkInv); a page that was   *)
(* left alone, and on which the walk has got as far as it, has its call on *)
(* the agenda, at the depth where it is met, or its text (PlanInv).  When  *)
(* stack or agenda are empty, what was seen is closed under going down,    *)
(* and what is to be found is the least set that is.                       *)
(***************************************************************************)
EXTENDS ConnectorScan, ProofLemmas

----------------------------------------------------------------------------
(* Orders of finite sets *)

\* The cardinality of the two walks is that of FiniteSets, of which they have instances.
LEMMA OneCardinality ==
    ASSUME NEW S
    PROVE  Drive!Cardinality(S) = Cardinality(S) /\ Notion!Cardinality(S) = Cardinality(S)
  BY DEF Drive!Cardinality, Notion!Cardinality, Cardinality

LEMMA FiniteTrees ==
    IsFiniteSet(Folders) /\ IsFiniteSet(Pages \cup Databases \cup Containers)
  <1>1. Drive!IsFiniteSet(Folders)
    BY DriveAssumption DEF Drive!DriveConstants
  <1>2. Notion!IsFiniteSet(Pages \cup Databases \cup Containers)
    BY NotionAssumption DEF Notion!NotionConstants
  <1> QED
    BY <1>1, <1>2 DEF Drive!IsFiniteSet, Notion!IsFiniteSet, IsFiniteSet

\* An order of a finite set is a sequence over it.
LEMMA OrderIsSequence ==
    ASSUME NEW S, IsFiniteSet(S), NEW q \in [1 .. Cardinality(S) -> S]
    PROVE  q \in Seq(S)
  BY FS_CardinalityType, SMT

\* ... and one over any larger set.
LEMMA SequenceOver ==
    ASSUME NEW S, NEW T, S \subseteq T, NEW q \in Seq(S)
    PROVE  q \in Seq(T)
  BY SMT

----------------------------------------------------------------------------
(* The Drive walk *)

\* The scan has at most one document of each file, and the file was seen.
DriveInv ==
    /\ Drive!TypeOK
    /\ \A f \in Files : driveDocuments[f] <= 1
    /\ \A f \in Files : driveDocuments[f] = 1 => f \in seenFiles

LEMMA DriveInitially == Drive!Init => DriveInv
  BY DEF Drive!Init, DriveInv, Drive!TypeOK, Drive!Items, Drive!Dirs

LEMMA DriveMove ==
    ASSUME DriveInv, NEW x \in Drive!Items, NEW dest \in SUBSET Drive!Dirs, Drive!Move(x, dest)
    PROVE  DriveInv'
  BY DEF DriveInv, Drive!TypeOK, Drive!Move, Drive!Items, Drive!Dirs, Drive!outcome

LEMMA DrivePop ==
    ASSUME DriveInv, Drive!PopSeen \/ Drive!Pop \/ Drive!WalkEnds
    PROVE  DriveInv'
  <1>1. stack \in Seq(Drive!Dirs) /\ Drive!Dirs = Drive!Dirs'
    BY DEF DriveInv, Drive!TypeOK, Drive!Dirs
  <1>2. stack # <<>> => /\ stack[Len(stack)] \in Drive!Dirs
                       /\ SubSeq(stack, 1, Len(stack) - 1) \in Seq(Drive!Dirs)
    BY <1>1
  <1>3. CASE Drive!PopSeen
    BY <1>1, <1>2, <1>3 DEF DriveInv, Drive!TypeOK, Drive!PopSeen, Drive!outcome
  <1>4. CASE Drive!Pop
    BY <1>1, <1>2, <1>4 DEF DriveInv, Drive!TypeOK, Drive!Pop, Drive!outcome
  <1>5. CASE Drive!WalkEnds
    BY <1>5 DEF DriveInv, Drive!TypeOK, Drive!WalkEnds, Drive!outcome, Drive!walkVars
  <1> QED
    BY <1>3, <1>4, <1>5

LEMMA DriveListFiles ==
    ASSUME DriveInv, Drive!ListFiles
    PROVE  DriveInv'
  BY DEF DriveInv, Drive!TypeOK, Drive!ListFiles, Drive!Listing, Drive!outcome, Drive!walkVars

LEMMA DriveListSubfolders ==
    ASSUME DriveInv, Drive!ListSubfolders
    PROVE  DriveInv'
  <1>1. PICK r \in Drive!Results :
           /\ Drive!Listing("subfolders", "pop", r)
           /\ IF r = "ok" THEN \E q \in Drive!Orders(Drive!Subfolders) : stack' = stack \o q
              ELSE UNCHANGED stack
           /\ UNCHANGED <<place, moved, Drive!walkVars, listed, seenFiles, Drive!outcome>>
    BY DEF Drive!ListSubfolders
  <1>2. stack' \in Seq(Drive!Dirs)
    <2>1. CASE r # "ok"
      BY <1>1, <2>1 DEF DriveInv, Drive!TypeOK
    <2>2. CASE r = "ok"
      <3>1. PICK q \in Drive!Orders(Drive!Subfolders) : stack' = stack \o q
        BY <1>1, <2>2
      <3>2. IsFiniteSet(Drive!Subfolders)
        BY FiniteTrees, FS_Subset DEF Drive!Subfolders
      <3>3. q \in Seq(Drive!Subfolders)
        BY <3>2, OrderIsSequence, OneCardinality DEF Drive!Orders
      <3>4. q \in Seq(Drive!Dirs)
        BY <3>3, SequenceOver DEF Drive!Subfolders, Drive!Dirs
      <3> QED
        BY <3>1, <3>4 DEF DriveInv, Drive!TypeOK
    <2> QED
      BY <2>1, <2>2
  <1> QED
    BY <1>1, <1>2 DEF DriveInv, Drive!TypeOK, Drive!Listing, Drive!outcome, Drive!walkVars

LEMMA DriveSkip ==
    ASSUME DriveInv, NEW f \in Files, Drive!Skip(f)
    PROVE  DriveInv'
  BY DEF DriveInv, Drive!TypeOK, Drive!Skip, Drive!Listed, Drive!Known, Drive!walkVars

\* The step that could go wrong: the file is not known, so there is no document of it.
LEMMA DriveBuild ==
    ASSUME DriveInv, NEW f \in Files, Drive!Build(f)
    PROVE  DriveInv'
  <1>1. driveDocuments[f] = 0 /\ f \in seenFiles'
    BY DEF DriveInv, Drive!TypeOK, Drive!Build, Drive!Known
  <1>2. \/ driveDocuments' = driveDocuments
        \/ driveDocuments' = [driveDocuments EXCEPT ![f] = 1]
    <2>1. PICK r \in Drive!Results :
             driveDocuments' = [driveDocuments EXCEPT ![f] = IF r = "ok" THEN @ + 1 ELSE @]
      BY DEF Drive!Build
    <2>2. CASE r = "ok"
      BY <1>1, <2>1, <2>2
    <2>3. CASE r # "ok"
      BY <2>1, <2>3 DEF DriveInv, Drive!TypeOK
    <2> QED
      BY <2>2, <2>3
  <1>3. Drive!TypeOK'
    BY <1>2 DEF DriveInv, Drive!TypeOK, Drive!Build, Drive!Listed, Drive!PhaseAfter, Drive!walkVars
  <1> QED
    BY <1>1, <1>2, <1>3 DEF DriveInv, Drive!TypeOK, Drive!Build

LEMMA DriveStep ==
    ASSUME DriveInv, Drive!Next
    PROVE  DriveInv'
  <1>1. CASE Drive!Finish
    BY <1>1 DEF DriveInv, Drive!TypeOK, Drive!Finish, Drive!outcome, Drive!walkVars
  <1> QED
    BY <1>1, DriveMove, DrivePop, DriveListFiles, DriveListSubfolders, DriveSkip, DriveBuild
       DEF Drive!Next, Drive!Scan

----------------------------------------------------------------------------
(* What the Drive walk has found: the folders below the root *)

\* An order of a finite set leaves nothing of it out.
LEMMA OrderHasAll ==
    ASSUME NEW S, IsFiniteSet(S), NEW q \in [1 .. Cardinality(S) -> S],
           \A i, j \in DOMAIN q : q[i] = q[j] => i = j
    PROVE  S \subseteq Elements(q)
  <1>1. Cardinality(S) \in Nat
    BY FS_CardinalityType
  <1>2. IsFiniteSet(1 .. Cardinality(S)) /\ Cardinality(1 .. Cardinality(S)) = Cardinality(S)
    BY <1>1, FS_Interval, SMT
  <1>3. q \in Injection(1 .. Cardinality(S), S)
    BY DEF Injection, IsInjective
  <1>4. q \in Surjection(1 .. Cardinality(S), S)
    BY <1>2, <1>3, FS_Injection
  <1> QED
    BY <1>4 DEF Surjection, Elements

\* The folders whose files, and whose subfolders, have been listed.
FilesListed == seenFolders \ (IF phase = "files" THEN {current} ELSE {})
SubfoldersListed == seenFolders \ (IF phase \in {"files", "subfolders"} THEN {current} ELSE {})

\* Whatever was left alone in a folder that has been listed is still to be walked, or to be
\* built, or has been; and what has been built or skipped is accounted for.
WalkInv ==
    /\ FolderRoot \in seenFolders \cup Elements(stack)
    /\ phase \in {"build", "done"} => stack = <<>>
    /\ \A x \in Folders \ moved :
          place[x] \cap SubfoldersListed # {} => x \in seenFolders \cup Elements(stack)
    /\ \A f \in Files \ moved : place[f] \cap FilesListed # {} => listed[f] > 0 \/ f \in seenFiles
    /\ \A f \in seenFiles : driveDocuments[f] = 1 <=> f \notin warned
    /\ warned \subseteq seenFiles
    /\ phase = "done" => \A f \in Files : listed[f] = 0

\* A scan that has failed promises nothing.
FoundInv == phase # "failed" => WalkInv

LEMMA FoundInitially == Drive!Init => FoundInv
  <1> SUFFICES ASSUME Drive!Init PROVE FoundInv
    OBVIOUS
  <1>1. stack = <<FolderRoot>> /\ FolderRoot \in Elements(stack)
    <2>1. stack = <<FolderRoot>>
      BY DEF Drive!Init
    <2>2. 1 \in DOMAIN stack /\ stack[1] = FolderRoot
      BY <2>1
    <2> QED
      BY <2>1, <2>2 DEF Elements
  <1> QED
    BY <1>1 DEF Drive!Init, FoundInv, WalkInv, FilesListed, SubfoldersListed

\* What is moved is not spoken of any more.
LEMMA FoundMove ==
    ASSUME DriveInv, FoundInv, NEW x \in Drive!Items, NEW dest \in SUBSET Drive!Dirs,
           Drive!Move(x, dest)
    PROVE  FoundInv'
  <1>1. /\ moved' = moved \cup {x}
        /\ \A y \in Drive!Items \ moved' : place'[y] = place[y]
        /\ UNCHANGED <<phase, stack, current, seenFolders, listed, seenFiles, driveDocuments, warned>>
    BY DEF DriveInv, Drive!TypeOK, Drive!Move, Drive!outcome
  <1> QED
    BY <1>1 DEF FoundInv, WalkInv, FilesListed, SubfoldersListed, Elements, Drive!Items

\* A folder leaves the stack only to be walked, or after it has been.
LEMMA FoundPop ==
    ASSUME DriveInv, FoundInv, Drive!PopSeen \/ Drive!Pop
    PROVE  FoundInv'
  <1> DEFINE top == stack[Len(stack)]
  <1>1. /\ phase = "pop" /\ stack # <<>> /\ stack' = SubSeq(stack, 1, Len(stack) - 1)
        /\ UNCHANGED <<place, moved, listed, seenFiles, driveDocuments, warned>>
    BY DEF Drive!PopSeen, Drive!Pop, Drive!outcome
  <1>2. Elements(stack) \subseteq Elements(stack') \cup {top}
    BY <1>1, ElementsOfFront DEF DriveInv, Drive!TypeOK
  <1> HIDE DEF top
  <1>3. \/ /\ phase' = "pop" /\ seenFolders' = seenFolders /\ top \in seenFolders
        \/ /\ phase' = "files" /\ seenFolders' = seenFolders \cup {top} /\ current' = top
           /\ top \notin seenFolders
    BY DEF Drive!PopSeen, Drive!Pop, top
  <1>4. /\ seenFolders \cup Elements(stack) \subseteq seenFolders' \cup Elements(stack')
        /\ FilesListed' = FilesListed /\ SubfoldersListed' = SubfoldersListed
    BY <1>1, <1>2, <1>3 DEF FilesListed, SubfoldersListed
  <1> QED
    BY <1>1, <1>3, <1>4 DEF FoundInv, WalkInv

LEMMA FoundListFiles ==
    ASSUME DriveInv, FoundInv, Drive!ListFiles
    PROVE  FoundInv'
  <1>1. /\ phase = "files"
        /\ UNCHANGED <<place, moved, stack, current, seenFolders, seenFiles, driveDocuments, warned>>
    BY DEF Drive!ListFiles, Drive!Listing, Drive!outcome, Drive!walkVars
  <1>2. SUFFICES ASSUME phase' # "failed" PROVE WalkInv'
    BY DEF FoundInv
  <1>3. /\ phase' = "subfolders"
        /\ listed' = [f \in Files |-> listed[f] + (IF current \in place[f] THEN 1 ELSE 0)]
    BY <1>2 DEF Drive!ListFiles, Drive!Listing
  <1>4. /\ SubfoldersListed' = SubfoldersListed
        /\ FilesListed' \subseteq FilesListed \cup {current}
    BY <1>1, <1>3 DEF FilesListed, SubfoldersListed
  <1>5. ASSUME NEW f \in Files \ moved, place[f] \cap FilesListed' # {}
        PROVE  listed'[f] > 0 \/ f \in seenFiles
    <2>1. listed[f] \in Nat
      BY DEF DriveInv, Drive!TypeOK
    <2>2. CASE current \in place[f]
      BY <1>3, <2>1, <2>2
    <2>3. CASE current \notin place[f]
      BY <1>1, <1>3, <1>4, <1>5, <2>1, <2>3 DEF FoundInv, WalkInv
    <2> QED
      BY <2>2, <2>3
  <1> QED
    BY <1>1, <1>3, <1>4, <1>5 DEF FoundInv, WalkInv, Elements

LEMMA FoundListSubfolders ==
    ASSUME DriveInv, FoundInv, Drive!ListSubfolders
    PROVE  FoundInv'
  <1>1. /\ phase = "subfolders"
        /\ UNCHANGED <<place, moved, current, seenFolders, listed, seenFiles, driveDocuments, warned>>
    BY DEF Drive!ListSubfolders, Drive!Listing, Drive!outcome, Drive!walkVars
  <1>2. SUFFICES ASSUME phase' # "failed" PROVE WalkInv'
    BY DEF FoundInv
  <1>3. PICK q \in Drive!Orders(Drive!Subfolders) : phase' = "pop" /\ stack' = stack \o q
    BY <1>2 DEF Drive!ListSubfolders, Drive!Listing
  <1>4. IsFiniteSet(Drive!Subfolders)
    BY FiniteTrees, FS_Subset DEF Drive!Subfolders
  <1>5. q \in Seq(Drive!Dirs) /\ Drive!Subfolders \subseteq Elements(q)
    <2>1. q \in Seq(Drive!Subfolders)
      BY <1>4, OrderIsSequence, OneCardinality DEF Drive!Orders
    <2>2. q \in Seq(Drive!Dirs)
      BY <2>1, SequenceOver DEF Drive!Subfolders, Drive!Dirs
    <2>3. Drive!Subfolders \subseteq Elements(q)
      BY <1>4, OrderHasAll, OneCardinality DEF Drive!Orders
    <2> QED
      BY <2>2, <2>3
  <1>6. Elements(stack) \cup Drive!Subfolders \subseteq Elements(stack')
    BY <1>3, <1>5, ElementsOfConcat DEF DriveInv, Drive!TypeOK
  <1>7. /\ FilesListed' = FilesListed
        /\ SubfoldersListed' \subseteq SubfoldersListed \cup {current}
    BY <1>1, <1>3 DEF FilesListed, SubfoldersListed
  <1>8. ASSUME NEW x \in Folders \ moved, place[x] \cap SubfoldersListed' # {}
        PROVE  x \in seenFolders \cup Elements(stack')
    <2>1. CASE current \in place[x]
      BY <1>6, <2>1 DEF Drive!Subfolders
    <2>2. CASE current \notin place[x]
      BY <1>1, <1>6, <1>7, <1>8, <2>2 DEF FoundInv, WalkInv
    <2> QED
      BY <2>1, <2>2
  <1> QED
    BY <1>1, <1>3, <1>6, <1>7, <1>8 DEF FoundInv, WalkInv

LEMMA FoundEnds ==
    ASSUME FoundInv, Drive!WalkEnds \/ Drive!Finish
    PROVE  FoundInv'
  <1>1. /\ UNCHANGED <<place, moved, stack, current, seenFolders, listed, seenFiles,
                       driveDocuments, warned>>
        /\ \/ phase = "pop" /\ stack = <<>> /\ phase' = "build"
           \/ phase = "build" /\ phase' = "done" /\ \A f \in Files : listed[f] = 0
    BY DEF Drive!WalkEnds, Drive!Finish, Drive!outcome, Drive!walkVars
  <1> QED
    BY <1>1 DEF FoundInv, WalkInv, FilesListed, SubfoldersListed, Elements

\* A file that is no longer to come has been seen: it has its document, or its warning.
LEMMA FoundFile ==
    ASSUME DriveInv, FoundInv, NEW f \in Files, Drive!Skip(f) \/ Drive!Build(f)
    PROVE  FoundInv'
  <1>1. SUFFICES ASSUME phase' # "failed" PROVE WalkInv'
    BY DEF FoundInv
  <1>2. /\ phase = "build" /\ phase' = "build" /\ seenFiles' = seenFiles \cup {f}
        /\ listed' = [listed EXCEPT ![f] = @ - 1]
        /\ UNCHANGED <<place, moved, stack, current, seenFolders>>
    BY <1>1 DEF Drive!Skip, Drive!Build, Drive!Listed, Drive!PhaseAfter, Drive!walkVars
  <1>3. /\ driveDocuments \in [Files -> Nat] /\ warned \subseteq seenFiles
        /\ f \notin seenFiles => driveDocuments[f] = 0
    BY <1>2 DEF DriveInv, Drive!TypeOK, FoundInv, WalkInv
  <1>4. /\ warned' \subseteq seenFiles'
        /\ f \in seenFiles => UNCHANGED <<driveDocuments, warned>>
        /\ f \notin seenFiles => driveDocuments'[f] = 1 <=> f \notin warned'
        /\ \A g \in Files \ {f} :
              driveDocuments'[g] = driveDocuments[g] /\ (g \in warned' <=> g \in warned)
    <2>1. CASE Drive!Skip(f)
      BY <1>2, <1>3, <2>1 DEF Drive!Skip, Drive!Known
    <2>2. CASE Drive!Build(f)
      <3>1. PICK r \in Drive!Results :
               /\ driveDocuments' = [driveDocuments EXCEPT ![f] = IF r = "ok" THEN @ + 1 ELSE @]
               /\ warned' = IF r = "gone" THEN warned \cup {f} ELSE warned
               /\ phase' = Drive!PhaseAfter(r)
        BY <2>2 DEF Drive!Build
      <3>2. r \in {"ok", "gone"} /\ f \notin seenFiles
        BY <1>1, <2>2, <3>1 DEF Drive!PhaseAfter, Drive!Build, Drive!Known
      <3>3. CASE r = "ok"
        BY <1>2, <1>3, <3>1, <3>2, <3>3
      <3>4. CASE r = "gone"
        BY <1>2, <1>3, <3>1, <3>2, <3>4
      <3> QED
        BY <3>2, <3>3, <3>4
    <2> QED
      BY <2>1, <2>2
  <1>5. \A g \in Files \ {f} : listed'[g] = listed[g]
    BY <1>2 DEF DriveInv, Drive!TypeOK
  <1>6. FilesListed' = FilesListed /\ SubfoldersListed' = SubfoldersListed
    BY <1>2 DEF FilesListed, SubfoldersListed
  <1>7. WalkInv /\ seenFiles \subseteq Files
    BY <1>2 DEF FoundInv, DriveInv, Drive!TypeOK
  <1>8. /\ \A g \in Files \ moved' :
              place'[g] \cap FilesListed' # {} => listed'[g] > 0 \/ g \in seenFiles'
        /\ \A g \in seenFiles' : driveDocuments'[g] = 1 <=> g \notin warned'
    BY <1>2, <1>4, <1>5, <1>6, <1>7 DEF WalkInv
  <1> QED
    BY <1>2, <1>4, <1>6, <1>7, <1>8 DEF WalkInv, Elements

LEMMA FoundStep ==
    ASSUME DriveInv, FoundInv, Drive!Next
    PROVE  FoundInv'
  BY FoundMove, FoundPop, FoundListFiles, FoundListSubfolders, FoundEnds, FoundFile
     DEF Drive!Next, Drive!Scan

----------------------------------------------------------------------------
(* The Notion walk *)

\* A call that collects or lists is at a page, one for rows at a database, whose rows
\* are pages.
AgendaInv ==
    /\ \A i \in DOMAIN agenda :
          agenda[i].at \in (IF agenda[i].do = "rows" THEN Databases ELSE Pages)
    /\ Notion!Tree

\* No page has two documents, and the page of a document was seen.
NotionInv ==
    /\ Notion!TypeOK
    /\ AgendaInv
    /\ \A i \in DOMAIN notionDocuments : notionDocuments[i].page \in seen
    /\ \A i, j \in DOMAIN notionDocuments :
          notionDocuments[i].page = notionDocuments[j].page => i = j

\* As long as nothing is moved, the tree is one.
LEMMA SameTree ==
    ASSUME UNCHANGED parent, Notion!Tree
    PROVE  Notion!Tree'
  BY DEF Notion!Tree, Notion!Inner, Notion!Blocks

LEMMA NotionInitially == Notion!Init => NotionInv
  <1> SUFFICES ASSUME Notion!Init PROVE NotionInv
    OBVIOUS
  <1>1. PageRoot \in Pages
    BY NotionAssumption DEF Notion!NotionConstants
  <1>2. [do |-> "collect", at |-> PageRoot, depth |-> 0] \in Notion!Task
    BY <1>1 DEF Notion!Task, Notion!Blocks
  <1>3. agenda \in Seq(Notion!Task) /\ notionDocuments \in Seq(Notion!Document)
    BY <1>2 DEF Notion!Init
  <1>4. Notion!TypeOK
    BY <1>3 DEF Notion!Init, Notion!TypeOK
  <1> QED
    BY <1>1, <1>4 DEF Notion!Init, NotionInv, AgendaInv

\* The blocks that are read along with a page are blocks.
LEMMA NotionWalk ==
    ASSUME NEW b, NEW depth \in Nat
    PROVE  Notion!Walk(b, depth) \subseteq Notion!Blocks
  BY DEF Notion!Walk, Notion!Inner

\* People change no call that is under way, and a database keeps pages for rows.
LEMMA NotionPeople ==
    ASSUME NotionInv,
           \/ \E b \in Notion!Inner, p \in Notion!Blocks \cup {Nowhere} : Notion!Move(b, p)
           \/ \E p \in Pages : Notion!Trash(p)
    PROVE  NotionInv'
  <1>1. Notion!TypeOK'
    BY DEF NotionInv, Notion!TypeOK, Notion!Move, Notion!Trash, Notion!Edit, Notion!Inner,
           Notion!Blocks
  <1>2. AgendaInv'
    BY SameTree DEF NotionInv, AgendaInv, Notion!TypeOK, Notion!Move, Notion!Trash, Notion!Edit
  <1> QED
    BY <1>1, <1>2 DEF NotionInv, Notion!Move, Notion!Trash, Notion!Edit

\* The calls that take the place of the innermost one.
LEMMA NotionContinue ==
    ASSUME NotionInv, agenda # <<>>, NEW calls \in Seq(Notion!Task), Notion!Continue(calls),
           \A i \in DOMAIN calls :
              calls[i].at \in (IF calls[i].do = "rows" THEN Databases ELSE Pages),
           UNCHANGED parent
    PROVE  agenda' \in Seq(Notion!Task) /\ AgendaInv'
  <1>1. agenda \in Seq(Notion!Task)
    BY DEF NotionInv, Notion!TypeOK
  <1>2. agenda' = calls \o Tail(agenda)
    BY DEF Notion!Continue
  <1>3. agenda' \in Seq(Notion!Task)
    BY <1>1, <1>2
  <1>4. \A i \in DOMAIN agenda' :
           \/ i \in DOMAIN calls /\ agenda'[i] = calls[i]
           \/ /\ i - Len(calls) + 1 \in DOMAIN agenda
              /\ agenda'[i] = agenda[i - Len(calls) + 1]
    BY <1>1, <1>2
  <1> QED
    BY <1>3, <1>4, SameTree DEF NotionInv, AgendaInv

LEMMA NotionHead ==
    ASSUME NotionInv, agenda # <<>>
    PROVE  /\ Head(agenda) = agenda[1] /\ 1 \in DOMAIN agenda
           /\ Head(agenda) \in Notion!Task /\ Head(agenda).depth \in Nat
           /\ Head(agenda).at \in (IF Head(agenda).do = "rows" THEN Databases ELSE Pages)
  <1>1. agenda \in Seq(Notion!Task)
    BY DEF NotionInv, Notion!TypeOK
  <1>2. Head(agenda) = agenda[1] /\ 1 \in DOMAIN agenda /\ Head(agenda) \in Notion!Task
    BY <1>1
  <1> QED
    BY <1>2 DEF NotionInv, AgendaInv, Notion!Task

\* The innermost call returns.
LEMMA NotionLess ==
    ASSUME NotionInv, agenda # <<>>, Notion!Continue(<<>>), UNCHANGED parent
    PROVE  agenda' \in Seq(Notion!Task) /\ AgendaInv'
  <1> DEFINE none == <<>>
  <1>1. none \in Seq(Notion!Task) /\ DOMAIN none = {}
    OBVIOUS
  <1>2. Notion!Continue(none)
    OBVIOUS
  <1> HIDE DEF none
  <1> QED
    BY <1>1, <1>2, NotionContinue

\* An order of the children that are pages or databases gives such calls.
LEMMA NotionCalls ==
    ASSUME NEW S, S \subseteq (Pages \cup Databases) \cap Notion!Blocks, NEW q \in Notion!Orders(S),
           NEW depth \in Nat
    PROVE  /\ Notion!Calls(q, depth) \in Seq(Notion!Task)
           /\ \A i \in DOMAIN Notion!Calls(q, depth) :
                 Notion!Calls(q, depth)[i].at \in
                    (IF Notion!Calls(q, depth)[i].do = "rows" THEN Databases ELSE Pages)
  <1>1. q \in Seq(S)
    BY FiniteTrees, FS_Subset, OrderIsSequence, OneCardinality DEF Notion!Orders, Notion!Blocks
  <1> DEFINE calls == Notion!Calls(q, depth)
  <1>2. \A i \in DOMAIN q :
           /\ calls[i] \in Notion!Task
           /\ calls[i].at \in (IF calls[i].do = "rows" THEN Databases ELSE Pages)
    BY <1>1 DEF Notion!Calls, Notion!Task
  <1>3. DOMAIN calls = 1 .. Len(q) /\ Len(q) \in Nat /\ DOMAIN q = 1 .. Len(q)
    BY <1>1 DEF Notion!Calls
  <1>4. calls = [i \in 1 .. Len(q) |-> calls[i]]
    BY <1>3 DEF Notion!Calls
  <1>5. calls \in Seq(Notion!Task)
    <2> HIDE DEF calls
    <2> QED
      BY <1>2, <1>3, <1>4
  <1> QED
    BY <1>2, <1>3, <1>5

LEMMA NotionReturn ==
    ASSUME NotionInv, Notion!Return
    PROVE  NotionInv'
  <1>1. agenda' \in Seq(Notion!Task) /\ AgendaInv'
    BY NotionLess DEF Notion!Return, Notion!Now, Notion!tree
  <1> QED
    BY <1>1 DEF NotionInv, Notion!TypeOK, Notion!Return, Notion!Continue, Notion!tree

\* A scan that fails keeps what it has.
LEMMA NotionFails ==
    ASSUME NotionInv, Notion!Fails, UNCHANGED Notion!tree
    PROVE  NotionInv'
  BY SameTree DEF NotionInv, AgendaInv, Notion!TypeOK, Notion!Fails, Notion!tree

\* The step that could go wrong: the page was not seen, so no document is of it.
LEMMA NotionCollect ==
    ASSUME NotionInv, Notion!CollectPage
    PROVE  NotionInv'
  <1> DEFINE t == Head(agenda)
  <1>1. agenda # <<>> /\ t = agenda[1] /\ 1 \in DOMAIN agenda /\ t \in Notion!Task
    BY NotionHead DEF Notion!CollectPage, Notion!Now
  <1>2. t.at \in Pages /\ t.depth \in Nat /\ t.at \notin seen
    BY <1>1, NotionHead DEF Notion!CollectPage, Notion!Now, Notion!Collected
  <1>3. UNCHANGED Notion!tree
    BY DEF Notion!CollectPage
  <1>4. PICK meta \in Notion!Results, blocks \in Notion!Results :
           IF meta = "raises" \/ blocks = "raises" THEN Notion!Fails
           ELSE /\ seen' = seen \cup {t.at}
                /\ IF meta = "ok" /\ t.at \in trashed
                   THEN Notion!Continue(<<>>) /\ UNCHANGED <<notionDocuments, odd>>
                   ELSE /\ Notion!Continue(<<[t EXCEPT !.do = "list"]>>)
                        /\ notionDocuments' = Append(notionDocuments,
                              [page |-> t.at, blocks |->
                                 IF blocks = "ok" THEN Notion!Walk(t.at, t.depth) ELSE {}])
                        /\ odd' = (odd \/ meta # "ok" \/ blocks # "ok")
    BY DEF Notion!CollectPage
  <1>5. CASE meta = "raises" \/ blocks = "raises"
    BY <1>3, <1>4, <1>5, NotionFails
  <1>6. CASE ~(meta = "raises" \/ blocks = "raises") /\ meta = "ok" /\ t.at \in trashed
    <2>1. agenda' \in Seq(Notion!Task) /\ AgendaInv'
      BY <1>1, <1>3, <1>4, <1>6, NotionLess DEF Notion!tree
    <2> QED
      BY <1>2, <1>3, <1>4, <1>6, <2>1 DEF NotionInv, Notion!TypeOK, Notion!Continue, Notion!tree
  <1>7. CASE ~(meta = "raises" \/ blocks = "raises") /\ ~(meta = "ok" /\ t.at \in trashed)
    <2> DEFINE call == [t EXCEPT !.do = "list"]
               doc == [page |-> t.at, blocks |->
                          IF blocks = "ok" THEN Notion!Walk(t.at, t.depth) ELSE {}]
    <2>1. call \in Notion!Task /\ call.at = t.at /\ call.do = "list"
      BY <1>1 DEF Notion!Task
    <2>2. agenda' \in Seq(Notion!Task) /\ AgendaInv'
      <3>1. <<call>> \in Seq(Notion!Task)
        BY <2>1
      <3>2. \A i \in DOMAIN <<call>> :
               <<call>>[i].at \in (IF <<call>>[i].do = "rows" THEN Databases ELSE Pages)
        <4>1. \A i \in DOMAIN <<call>> : <<call>>[i] = call
          OBVIOUS
        <4> HIDE DEF call
        <4> QED
          BY <1>2, <2>1, <4>1
      <3> QED
        BY <1>1, <1>3, <1>4, <1>7, <3>1, <3>2, NotionContinue DEF Notion!tree
    <2>3. doc \in Notion!Document /\ doc.page = t.at
      BY <1>2, NotionWalk DEF Notion!Document
    <2>4. notionDocuments \in Seq(Notion!Document)
      BY DEF NotionInv, Notion!TypeOK
    <2>5. notionDocuments' = Append(notionDocuments, doc)
      BY <1>4, <1>7
    <2>6. /\ notionDocuments' \in Seq(Notion!Document)
          /\ DOMAIN notionDocuments' = 1 .. Len(notionDocuments) + 1
          /\ \A i \in DOMAIN notionDocuments' :
                notionDocuments'[i] =
                   IF i = Len(notionDocuments) + 1 THEN doc ELSE notionDocuments[i]
      <3> HIDE DEF doc
      <3> QED
        BY <2>3, <2>4, <2>5
    <2>7. \A i \in 1 .. Len(notionDocuments) : notionDocuments[i].page # t.at
      BY <1>2, <2>4 DEF NotionInv
    <2>8. seen' = seen \cup {t.at} /\ odd' \in BOOLEAN /\ UNCHANGED status
      BY <1>4, <1>7 DEF NotionInv, Notion!TypeOK, Notion!Continue
    <2>9. \A i, j \in DOMAIN notionDocuments' :
             notionDocuments'[i].page = notionDocuments'[j].page => i = j
      <3> HIDE DEF doc, t
      <3> QED
        BY <2>3, <2>4, <2>6, <2>7 DEF NotionInv
    <2>10. \A i \in DOMAIN notionDocuments' : notionDocuments'[i].page \in seen'
      <3> HIDE DEF doc, t
      <3> QED
        BY <2>3, <2>4, <2>6, <2>8 DEF NotionInv
    <2> QED
      BY <1>2, <1>3, <2>2, <2>6, <2>8, <2>9, <2>10 DEF NotionInv, Notion!TypeOK, Notion!tree
  <1> QED
    BY <1>5, <1>6, <1>7

LEMMA NotionList ==
    ASSUME NotionInv, Notion!ListChildren
    PROVE  NotionInv'
  <1> DEFINE t == Head(agenda)
             S == Notion!Kids(t.at) \cap (Pages \cup Databases)
  <1>1. agenda # <<>> /\ t \in Notion!Task /\ t.depth + 1 \in Nat
    <2>1. agenda # <<>>
      BY DEF Notion!ListChildren, Notion!Now
    <2> QED
      BY <2>1, NotionHead
  <1>2. UNCHANGED Notion!tree
    BY DEF Notion!ListChildren
  <1>3. \/ Notion!Fails
        \/ /\ \E q \in Notion!Orders(S) : Notion!Continue(Notion!Calls(q, t.depth + 1))
           /\ UNCHANGED <<seen, notionDocuments, odd>>
        \/ /\ Notion!Continue(<<>>)
           /\ odd' = TRUE /\ UNCHANGED <<seen, notionDocuments>>
    BY DEF Notion!ListChildren
  <1>4. CASE Notion!Fails
    BY <1>2, <1>4, NotionFails
  <1>5. CASE /\ \E q \in Notion!Orders(S) : Notion!Continue(Notion!Calls(q, t.depth + 1))
             /\ UNCHANGED <<seen, notionDocuments, odd>>
    <2>1. PICK q \in Notion!Orders(S) : Notion!Continue(Notion!Calls(q, t.depth + 1))
      BY <1>5
    <2>2. S \subseteq (Pages \cup Databases) \cap Notion!Blocks
      BY DEF Notion!Kids, Notion!Inner
    <2>3. agenda' \in Seq(Notion!Task) /\ AgendaInv'
      <3> HIDE DEF S, t
      <3> QED
        BY <1>1, <1>2, <2>1, <2>2, NotionCalls, NotionContinue DEF Notion!tree
    <2> QED
      BY <1>2, <1>5, <2>1, <2>3 DEF NotionInv, Notion!TypeOK, Notion!Continue, Notion!tree
  <1>6. CASE /\ Notion!Continue(<<>>)
             /\ odd' = TRUE /\ UNCHANGED <<seen, notionDocuments>>
    <2>1. agenda' \in Seq(Notion!Task) /\ AgendaInv'
      BY <1>1, <1>2, <1>6, NotionLess DEF Notion!tree
    <2> QED
      BY <1>2, <1>6, <2>1 DEF NotionInv, Notion!TypeOK, Notion!Continue, Notion!tree
  <1> QED
    BY <1>3, <1>4, <1>5, <1>6

LEMMA NotionRows ==
    ASSUME NotionInv, Notion!CollectRows
    PROVE  NotionInv'
  <1> DEFINE t == Head(agenda)
             S == Notion!Kids(t.at) \ trashed
  <1>1. /\ agenda # <<>> /\ t \in Notion!Task /\ Notion!RowDepth(t) \in Nat
        /\ t.at \in Databases
    <2>1. agenda # <<>> /\ t.do = "rows"
      BY DEF Notion!CollectRows, Notion!Now
    <2> QED
      BY <2>1, NotionHead DEF Notion!RowDepth
  <1>2. UNCHANGED Notion!tree
    BY DEF Notion!CollectRows
  <1>3. \/ Notion!Fails
        \/ /\ \/ Notion!Continue(<<>>)
              \/ \E q \in Notion!Orders(S) : Notion!Continue(Notion!Calls(q, Notion!RowDepth(t)))
           /\ odd' \in BOOLEAN /\ UNCHANGED <<seen, notionDocuments>>
    BY DEF Notion!CollectRows, NotionInv, Notion!TypeOK
  <1>4. CASE Notion!Fails
    BY <1>2, <1>4, NotionFails
  <1>5. ASSUME Notion!Continue(<<>>) \/
               \E q \in Notion!Orders(S) : Notion!Continue(Notion!Calls(q, Notion!RowDepth(t))),
               odd' \in BOOLEAN, UNCHANGED <<seen, notionDocuments>>
        PROVE  NotionInv'
    <2>1. CASE Notion!Continue(<<>>)
      <3>1. agenda' \in Seq(Notion!Task) /\ AgendaInv'
        BY <1>1, <1>2, <2>1, NotionLess DEF Notion!tree
      <3> QED
        BY <1>2, <1>5, <2>1, <3>1 DEF NotionInv, Notion!TypeOK, Notion!Continue, Notion!tree
    <2>2. CASE \E q \in Notion!Orders(S) : Notion!Continue(Notion!Calls(q, Notion!RowDepth(t)))
      <3>1. PICK q \in Notion!Orders(S) : Notion!Continue(Notion!Calls(q, Notion!RowDepth(t)))
        BY <2>2
      <3>2. S \subseteq (Pages \cup Databases) \cap Notion!Blocks
        BY <1>1 DEF Notion!Kids, NotionInv, AgendaInv, Notion!Tree, Notion!Blocks
      <3>3. agenda' \in Seq(Notion!Task) /\ AgendaInv'
        <4> HIDE DEF S, t
        <4> QED
          BY <1>1, <1>2, <3>1, <3>2, NotionCalls, NotionContinue DEF Notion!tree
      <3> QED
        BY <1>2, <1>5, <3>1, <3>3 DEF NotionInv, Notion!TypeOK, Notion!Continue, Notion!tree
    <2> QED
      BY <1>5, <2>1, <2>2
  <1> QED
    BY <1>3, <1>4, <1>5

LEMMA NotionStep ==
    ASSUME NotionInv, Notion!Next
    PROVE  NotionInv'
  <1>1. CASE Notion!Finish
    BY <1>1, SameTree DEF NotionInv, AgendaInv, Notion!TypeOK, Notion!Finish, Notion!tree
  <1> QED
    BY <1>1, NotionPeople, NotionReturn, NotionCollect, NotionList, NotionRows
       DEF Notion!Next, Notion!Scan

----------------------------------------------------------------------------
(* The texts of the Notion documents *)

\* Whether the containers in way lead from b down to c.
Leads(b, c, k, way) ==
    /\ parent[c] = IF k = 0 THEN b ELSE way[k]
    /\ \A i \in 1 .. k : parent[way[i]] = IF i = 1 THEN b ELSE way[i - 1]

LEMMA WalkWays ==
    ASSUME NEW b, NEW depth, NEW c
    PROVE  c \in Notion!Walk(b, depth) <=>
              /\ c \in Notion!Inner
              /\ \E k \in 0 .. MaxDepth - depth : \E way \in [1 .. k -> Containers] :
                    Leads(b, c, k, way)
  <1>1. ASSUME NEW k \in 0 .. MaxDepth - depth, NEW way \in [1 .. k -> Containers]
        PROVE  Leads(b, c, k, way) <=>
                  LET above(i) == IF i = 1 THEN b ELSE way[i - 1]
                  IN  parent[c] = above(k + 1) /\ \A i \in 1 .. k : parent[way[i]] = above(i)
    BY DEF Leads
  <1> QED
    BY <1>1 DEF Notion!Walk, Notion!Opened

LEMMA ContainersInside == Containers \subseteq Notion!Inner /\ Pages \cap Containers = {}
  BY NotionAssumption DEF Notion!NotionConstants, Notion!Inner, Notion!Blocks

\* What is above a block of a page's text is the page, or a container in the text.
LEMMA WalkUp ==
    ASSUME NEW b, NEW depth \in Nat, NEW c \in Notion!Walk(b, depth)
    PROVE  parent[c] = b \/ parent[c] \in Notion!Walk(b, depth) \cap Containers
  <1>1. MaxDepth \in Nat
    BY NotionAssumption DEF Notion!NotionConstants
  <1>2. PICK k \in 0 .. MaxDepth - depth :
           \E way \in [1 .. k -> Containers] : Leads(b, c, k, way)
    BY WalkWays
  <1>3. PICK way \in [1 .. k -> Containers] : Leads(b, c, k, way)
    BY <1>2
  <1>4. CASE k = 0
    BY <1>3, <1>4 DEF Leads
  <1>5. CASE k > 0
    <2> DEFINE up == [i \in 1 .. k - 1 |-> way[i]]
    <2>1. k - 1 \in 0 .. MaxDepth - depth /\ k \in 1 .. k
      BY <1>1, <1>5
    <2>2. up \in [1 .. k - 1 -> Containers] /\ way[k] \in Containers
      BY <2>1
    <2>3. parent[c] = way[k]
      BY <1>3, <1>5 DEF Leads
    <2>4. Leads(b, way[k], k - 1, up)
      <3>1. parent[way[k]] = IF k - 1 = 0 THEN b ELSE up[k - 1]
        BY <1>3, <1>5, <2>1 DEF Leads
      <3>2. ASSUME NEW i \in 1 .. k - 1
            PROVE  parent[up[i]] = IF i = 1 THEN b ELSE up[i - 1]
        <4>1. i \in 1 .. k /\ (i # 1 => i - 1 \in 1 .. k - 1)
          BY <2>1
        <4> QED
          BY <1>3, <4>1 DEF Leads
      <3> QED
        BY <3>1, <3>2 DEF Leads
    <2>5. way[k] \in Notion!Walk(b, depth)
      <3> HIDE DEF up
      <3> QED
        BY <2>1, <2>2, <2>4, ContainersInside, WalkWays
    <2> QED
      BY <2>2, <2>3, <2>5
  <1> QED
    BY <1>4, <1>5

\* What people do: what they leave alone stays where it is.
Edits ==
    /\ edited \subseteq edited'
    /\ \A b \in Notion!Inner \ edited' : parent'[b] = parent[b]
    /\ trashed' \subseteq trashed \cup edited'
    /\ UNCHANGED <<agenda, seen, notionDocuments, odd, status>>

LEMMA PeopleEdit ==
    ASSUME NotionInv,
           \/ \E b \in Notion!Inner, p \in Notion!Blocks \cup {Nowhere} : Notion!Move(b, p)
           \/ \E p \in Pages : Notion!Trash(p)
    PROVE  Edits
  BY DEF NotionInv, Notion!TypeOK, Notion!Move, Notion!Trash, Notion!Edit, Edits

\* If no container is moved, a text keeps the blocks that were left alone.
LEMMA WalkKept ==
    ASSUME Edits, edited' \cap Containers = {}, NEW b, NEW depth
    PROVE  Notion!Walk(b, depth)' \ edited' = Notion!Walk(b, depth) \ edited'
  <1> SUFFICES ASSUME NEW c, c \notin edited'
               PROVE  c \in Notion!Walk(b, depth)' <=> c \in Notion!Walk(b, depth)
    OBVIOUS
  <1>1. ASSUME c \in Notion!Inner, NEW k \in 0 .. MaxDepth - depth, NEW way \in [1 .. k -> Containers]
        PROVE  Leads(b, c, k, way)' <=> Leads(b, c, k, way)
    <2>1. parent'[c] = parent[c] /\ \A i \in 1 .. k : parent'[way[i]] = parent[way[i]]
      BY <1>1, ContainersInside DEF Edits
    <2> QED
      BY <2>1 DEF Leads
  <1>2. c \in Notion!Walk(b, depth)' <=>
           /\ c \in Notion!Inner
           /\ \E k \in 0 .. MaxDepth - depth : \E way \in [1 .. k -> Containers] :
                 Leads(b, c, k, way)'
    <2>1. ASSUME NEW k \in 0 .. MaxDepth - depth, NEW way \in [1 .. k -> Containers]
          PROVE  Leads(b, c, k, way)' <=>
                    LET above(i) == IF i = 1 THEN b ELSE way[i - 1]
                    IN  parent'[c] = above(k + 1) /\ \A i \in 1 .. k : parent'[way[i]] = above(i)
      BY DEF Leads
    <2> QED
      BY <2>1 DEF Notion!Walk, Notion!Opened
  <1> QED
    BY <1>1, <1>2, WalkWays

\* A block of a text that was left alone is in the page still, or in a container of the text.
TextInv ==
    \A i \in DOMAIN notionDocuments :
       /\ notionDocuments[i].blocks \subseteq Notion!Inner
       /\ \A c \in notionDocuments[i].blocks \ edited :
             \/ parent[c] = notionDocuments[i].page
             \/ parent[c] \in notionDocuments[i].blocks \cap Containers

LEMMA TextEdit ==
    ASSUME TextInv, Edits
    PROVE  TextInv'
  BY DEF TextInv, Edits

\* If a step adds documents of what is there, at most one.
Built(p, depth) ==
    \E blocks \in {{}, Notion!Walk(p, depth)} :
       notionDocuments' = Append(notionDocuments, [page |-> p, blocks |-> blocks])

LEMMA TextBuilt ==
    ASSUME NotionInv, TextInv, UNCHANGED <<parent, edited>>,
           NEW p \in Pages, NEW depth \in Nat, Built(p, depth)
    PROVE  TextInv'
  <1>1. PICK blocks \in {{}, Notion!Walk(p, depth)} :
           notionDocuments' = Append(notionDocuments, [page |-> p, blocks |-> blocks])
    BY DEF Built
  <1> DEFINE doc == [page |-> p, blocks |-> blocks]
  <1>2. doc.page = p /\ doc.blocks = blocks
    OBVIOUS
  <1>3. \A i \in DOMAIN notionDocuments' :
           \/ i \in DOMAIN notionDocuments /\ notionDocuments'[i] = notionDocuments[i]
           \/ notionDocuments'[i] = doc
    <2>1. notionDocuments \in Seq(Notion!Document)
      BY DEF NotionInv, Notion!TypeOK
    <2> HIDE DEF doc
    <2> QED
      BY <1>1, <2>1 DEF doc
  <1>4. blocks \subseteq Notion!Inner
    BY DEF Notion!Walk
  <1>5. \A c \in blocks : parent[c] = p \/ parent[c] \in blocks \cap Containers
    BY WalkUp
  <1> HIDE DEF doc
  <1> QED
    BY <1>2, <1>3, <1>4, <1>5 DEF TextInv

\* Two texts that share blocks share one that was moved: otherwise the shared ones would
\* all be in shared containers, and the tree would be none.
LEMMA TextsApart ==
    ASSUME NotionInv, TextInv
    PROVE  BlocksOnce
  <1> SUFFICES ASSUME NEW i \in DOMAIN notionDocuments, NEW j \in DOMAIN notionDocuments, i # j,
                      notionDocuments[i].blocks \cap notionDocuments[j].blocks # {},
                      notionDocuments[i].blocks \cap notionDocuments[j].blocks \cap edited = {}
               PROVE  FALSE
    BY DEF BlocksOnce, Notion!BlocksOnce
  <1> DEFINE both == notionDocuments[i].blocks \cap notionDocuments[j].blocks
  <1>1. both \subseteq Notion!Inner /\ both # {}
    BY DEF TextInv
  <1>2. /\ notionDocuments[i].page \in Pages /\ notionDocuments[j].page \in Pages
        /\ notionDocuments[i].page # notionDocuments[j].page
    <2>1. notionDocuments[i] \in Notion!Document /\ notionDocuments[j] \in Notion!Document
      BY DEF NotionInv, Notion!TypeOK
    <2> QED
      BY <2>1 DEF NotionInv, Notion!Document
  <1>3. ASSUME NEW c \in both PROVE parent[c] \in both
    <2>1. c \notin edited
      OBVIOUS
    <2>2. /\ \/ parent[c] = notionDocuments[i].page
             \/ parent[c] \in notionDocuments[i].blocks \cap Containers
          /\ \/ parent[c] = notionDocuments[j].page
             \/ parent[c] \in notionDocuments[j].blocks \cap Containers
      BY <2>1 DEF TextInv
    <2> QED
      BY <1>2, <2>2, ContainersInside
  <1> HIDE DEF both
  <1> QED
    BY <1>1, <1>3 DEF NotionInv, AgendaInv, Notion!Tree

----------------------------------------------------------------------------
(* The pages and databases to be found, by their depth *)

\* What is met from pages and databases to be found is to be found ...
LEMMA AtDepthClosed ==
    ASSUME NEW cd \in Notion!Spots, Notion!Met(cd, Notion!AtDepth)
    PROVE  cd \in Notion!AtDepth
  <1> SUFFICES ASSUME NEW S \in SUBSET Notion!Spots,
                      \A bd \in Notion!Spots : Notion!Met(bd, Notion!Start \cup S) => bd \in S
               PROVE  cd \in Notion!Start \cup S
    BY DEF Notion!AtDepth
  <1>1. Notion!AtDepth \subseteq Notion!Start \cup S
    BY DEF Notion!AtDepth
  <1>2. Notion!Met(cd, Notion!Start \cup S)
    BY <1>1 DEF Notion!Met
  <1> QED
    BY <1>2

LEMMA StartAtDepth == Notion!Start \subseteq Notion!AtDepth
  BY DEF Notion!AtDepth

LEMMA StartIsRoot ==
    /\ \A bd \in Notion!Start : bd = <<PageRoot, 0>>
    /\ \A bd \in Notion!Spots : bd[1] # PageRoot
  BY DEF Notion!Start, Notion!Spots

\* ... nothing else is, ...
LEMMA AtDepthLeast ==
    ASSUME NEW S \in SUBSET Notion!Spots,
           \A cd \in Notion!Spots : Notion!Met(cd, Notion!Start \cup S) => cd \in S
    PROVE  Notion!AtDepth \subseteq Notion!Start \cup S
  BY DEF Notion!AtDepth

\* ... and but for the root it is all met that way.
LEMMA AtDepthMet ==
    ASSUME NEW bd \in Notion!AtDepth, bd \notin Notion!Start
    PROVE  bd \in Notion!Spots /\ Notion!Met(bd, Notion!AtDepth)
  <1> DEFINE S == {cd \in Notion!Spots : Notion!Met(cd, Notion!AtDepth)}
  <1>1. Notion!Start \cup S \subseteq Notion!AtDepth
    BY AtDepthClosed, StartAtDepth
  <1>2. ASSUME NEW cd \in Notion!Spots, Notion!Met(cd, Notion!Start \cup S) PROVE cd \in S
    <2>1. Notion!Met(cd, Notion!AtDepth)
      <3> HIDE DEF S
      <3> QED
        BY <1>1, <1>2 DEF Notion!Met
    <2> QED
      BY <2>1
  <1>3. bd \in Notion!Start \cup S
    <2>1. S \in SUBSET Notion!Spots
      OBVIOUS
    <2> HIDE DEF S
    <2> QED
      BY <1>2, <2>1, AtDepthLeast
  <1> QED
    BY <1>3

\* A spot is of a page or a database that nobody has edited, within the depth.
LEMMA AtDepthUnedited ==
    ASSUME NEW bd \in Notion!AtDepth
    PROVE  /\ bd[1] \in Pages \cup Databases /\ bd[1] \notin edited
           /\ bd[2] \in Nat /\ bd[2] <= MaxDepth
           /\ bd = <<bd[1], bd[2]>>
           /\ bd[1] = PageRoot => bd[2] = 0 /\ bd \in Notion!Start
           /\ bd[1] # PageRoot => bd[1] \in Notion!Inner /\ bd \notin Notion!Start
  <1>1. PageRoot \in Pages /\ MaxDepth \in Nat
    BY NotionAssumption DEF Notion!NotionConstants
  <1>2. CASE bd \in Notion!Start
    <2>1. bd = <<PageRoot, 0>> /\ PageRoot \notin edited
      BY <1>2 DEF Notion!Start
    <2> QED
      BY <1>1, <1>2, <2>1
  <1>3. CASE bd \notin Notion!Start
    <2>1. bd \in ((Pages \cup Databases) \ (edited \cup {PageRoot})) \X (1 .. MaxDepth)
      BY <1>3 DEF Notion!AtDepth, Notion!Spots
    <2> QED
      BY <1>1, <1>3, <2>1 DEF Notion!Inner, Notion!Blocks
  <1> QED
    BY <1>2, <1>3

\* Where a page or database below the root is met: on a page one level up, or in a database.
LEMMA AtDepthAbove ==
    ASSUME NEW bd \in Notion!AtDepth, bd[1] # PageRoot
    PROVE  \/ /\ parent[bd[1]] \in Pages
              /\ <<parent[bd[1]], bd[2] - 1>> \in Notion!AtDepth
           \/ /\ parent[bd[1]] \in Databases
              /\ <<parent[bd[1]], bd[2]>> \in Notion!AtDepth
  BY AtDepthMet, AtDepthUnedited DEF Notion!Met

\* No edit adds to what is to be found.
LEMMA AtDepthShrinks ==
    ASSUME Edits
    PROVE  Notion!AtDepth' \subseteq Notion!AtDepth
  <1> DEFINE S == Notion!AtDepth \cap Notion!Spots'
  <1>1. Notion!Start' \subseteq Notion!Start /\ Notion!Spots' \subseteq Notion!Spots
    BY DEF Edits, Notion!Start, Notion!Spots
  <1>2. ASSUME NEW cd \in Notion!Spots',
               \/ parent'[cd[1]] \in Pages /\ <<parent'[cd[1]], cd[2] - 1>> \in Notion!Start' \cup S
               \/ parent'[cd[1]] \in Databases /\ <<parent'[cd[1]], cd[2]>> \in Notion!Start' \cup S
        PROVE  cd \in S
    <2>1. cd[1] \in Notion!Inner \ edited'
      <3>1. cd \in ((Pages \cup Databases) \ (edited' \cup {PageRoot})) \X (1 .. MaxDepth)
        BY DEF Notion!Spots
      <3> QED
        BY <3>1 DEF Notion!Inner, Notion!Blocks
    <2>2. parent'[cd[1]] = parent[cd[1]]
      BY <2>1 DEF Edits
    <2>3. Notion!Start' \cup S \subseteq Notion!AtDepth
      BY <1>1, StartAtDepth
    <2>4. Notion!Met(cd, Notion!AtDepth)
      <3> HIDE DEF S
      <3> QED
        BY <1>2, <2>2, <2>3 DEF Notion!Met
    <2> QED
      BY <1>1, <2>4, AtDepthClosed
  <1>3. \A T \in SUBSET Notion!Spots' :
           (\A cd \in Notion!Spots' :
               \/ parent'[cd[1]] \in Pages /\ <<parent'[cd[1]], cd[2] - 1>> \in Notion!Start' \cup T
               \/ parent'[cd[1]] \in Databases /\ <<parent'[cd[1]], cd[2]>> \in Notion!Start' \cup T
               => cd \in T)
           => Notion!AtDepth' \subseteq Notion!Start' \cup T
    BY DEF Notion!AtDepth, Notion!Met
  <1>4. Notion!AtDepth' \subseteq Notion!Start' \cup S
    <2>1. S \in SUBSET Notion!Spots'
      OBVIOUS
    <2> HIDE DEF S
    <2> QED
      BY <1>2, <1>3, <2>1
  <1> QED
    BY <1>1, <1>4, StartAtDepth

\* Nor does a step of the scan change it.
LEMMA SameAtDepth ==
    ASSUME UNCHANGED Notion!tree
    PROVE  /\ Notion!AtDepth' = Notion!AtDepth
           /\ \A b, depth : Notion!Walk(b, depth)' = Notion!Walk(b, depth)
  <1>1. Notion!AtDepth' = Notion!AtDepth
    BY DEF Notion!tree, Notion!AtDepth, Notion!Start, Notion!Spots, Notion!Met
  <1>2. \A b, depth : Notion!Walk(b, depth)' = Notion!Walk(b, depth)
    BY DEF Notion!tree, Notion!Walk
  <1> QED
    BY <1>1, <1>2

----------------------------------------------------------------------------
(* What the Notion walk has found *)

Pending(what, b) == \E t \in Elements(agenda) : t.do = what /\ t.at = b

\* The children of page p have been listed: its sub-pages and databases have their calls.
Expanded(p) == p \in seen /\ ~Pending("list", p)

\* Whether the walk has got as far as page b.
Turn(b) ==
    \/ b = PageRoot
    \/ parent[b] \in Pages /\ Expanded(parent[b])
    \/ /\ parent[b] \in Databases /\ ~Pending("rows", parent[b])
       /\ parent[parent[b]] \in Pages /\ Expanded(parent[parent[b]])

\* The calls are as deep as what they are at.
DepthInv ==
    \A t \in Elements(agenda) : \A bd \in Notion!AtDepth : bd[1] = t.at => bd[2] = t.depth

\* The text of a page is that of the page, as far as nobody has touched it.
HasText(b, depth) ==
    \E i \in Notion!Docs(b) :
       edited \cap Containers = {} =>
          notionDocuments[i].blocks \ edited = Notion!Walk(b, depth) \ edited

\* Every page whose turn it is has been collected or has its call, unless a call was not
\* answered.
Due == \A bd \in Notion!AtDepth :
          bd[1] \in Pages /\ Turn(bd[1]) => bd[1] \in seen \/ Pending("collect", bd[1])
Complete == \A bd \in Notion!AtDepth : bd[1] \in seen => HasText(bd[1], bd[2])

PlanInv ==
    /\ trashed \subseteq edited
    /\ status = "done" => agenda = <<>>
    /\ DepthInv
    /\ status # "failed" /\ ~odd => Due /\ Complete

LEMMA OneElement == ASSUME NEW x PROVE Elements(<<x>>) = {x} /\ Elements(<<>>) = {}
  <1>1. DOMAIN <<x>> = {1} /\ <<x>>[1] = x
    OBVIOUS
  <1>2. Elements(<<>>) = {}
    BY DEF Elements
  <1> HIDE DEF Elements
  <1>3. Elements(<<x>>) = {x}
    BY <1>1 DEF Elements
  <1> QED
    BY <1>2, <1>3

LEMMA PlanInitially == Notion!Init => PlanInv
  <1> SUFFICES ASSUME Notion!Init PROVE PlanInv
    OBVIOUS
  <1> DEFINE first == [do |-> "collect", at |-> PageRoot, depth |-> 0]
  <1>1. Elements(agenda) = {first}
    <2>1. agenda = <<first>>
      BY DEF Notion!Init
    <2> QED
      BY <2>1, OneElement
  <1>2. first.do = "collect" /\ first.at = PageRoot /\ first.depth = 0
    OBVIOUS
  <1> HIDE DEF first
  <1>3. DepthInv
    BY <1>1, <1>2, AtDepthUnedited DEF DepthInv
  <1>4. Due /\ Complete
    <2>1. seen = {} /\ Pending("collect", PageRoot)
      BY <1>1, <1>2 DEF Notion!Init, Pending
    <2> QED
      BY <2>1 DEF Due, Complete, Turn, Expanded
  <1> QED
    BY <1>3, <1>4 DEF Notion!Init, PlanInv

\* Where the pages and databases to be found are, in every state.
Reached ==
    \A bd \in Notion!AtDepth :
       /\ bd[1] \in Pages \cup Databases /\ bd[1] \notin edited
       /\ bd[1] # PageRoot =>
             /\ bd[1] \in Notion!Inner
             /\ \/ /\ parent[bd[1]] \in Pages
                   /\ <<parent[bd[1]], bd[2] - 1>> \in Notion!AtDepth
                \/ /\ parent[bd[1]] \in Databases
                   /\ <<parent[bd[1]], bd[2]>> \in Notion!AtDepth

LEMMA ReachedAlways == Reached
  BY AtDepthUnedited, AtDepthAbove DEF Reached

LEMMA DatabasesInside == Databases \subseteq Notion!Inner /\ Pages \cap Databases = {}
  BY NotionAssumption DEF Notion!NotionConstants, Notion!Inner, Notion!Blocks

\* What is edited is not looked for any more; what is left is where it was.
LEMMA PlanEdit ==
    ASSUME NotionInv, PlanInv, Edits
    PROVE  PlanInv'
  <1>1. UNCHANGED <<agenda, seen, notionDocuments, odd, status>> /\ trashed' \subseteq edited'
    BY DEF Edits, PlanInv
  <1>2. DepthInv'
    BY <1>1, AtDepthShrinks DEF PlanInv, DepthInv, Elements
  <1>3. Reached'
    BY ReachedAlways, PTL
  <1>4. ASSUME Due, NEW bd \in Notion!AtDepth', bd[1] \in Pages, Turn(bd[1])'
        PROVE  bd[1] \in seen \/ Pending("collect", bd[1])
    <2>1. bd \in Notion!AtDepth
      BY AtDepthShrinks
    <2>2. \A b : Expanded(b)' <=> Expanded(b)
      BY <1>1 DEF Expanded, Pending, Elements
    <2>3. \A what, b : Pending(what, b)' <=> Pending(what, b)
      BY <1>1 DEF Pending, Elements
    <2>4. Turn(bd[1])
      <3>1. CASE bd[1] = PageRoot
        BY <3>1 DEF Turn
      <3>2. CASE bd[1] # PageRoot
        <4>1. bd[1] \notin edited' /\ bd[1] \in Notion!Inner
          BY <1>3, <3>2 DEF Reached
        <4>2. parent'[bd[1]] = parent[bd[1]]
          BY <4>1 DEF Edits
        <4>3. ASSUME parent[bd[1]] \in Databases
              PROVE  parent'[parent[bd[1]]] = parent[parent[bd[1]]]
          <5>1. PICK e : <<parent[bd[1]], e>> \in Notion!AtDepth'
            BY <1>3, <3>2, <4>2, <4>3, DatabasesInside DEF Reached
          <5>2. parent[bd[1]] \notin edited'
            BY <1>3, <5>1 DEF Reached
          <5> QED
            BY <4>3, <5>2, DatabasesInside DEF Edits
        <4> QED
          BY <1>4, <2>2, <2>3, <3>2, <4>2, <4>3 DEF Turn
      <3> QED
        BY <3>1, <3>2
    <2> QED
      BY <1>4, <2>1, <2>4 DEF Due
  <1>5. ASSUME Due PROVE Due'
    <2>1. \A b : Pending("collect", b)' <=> Pending("collect", b)
      BY <1>1 DEF Pending, Elements
    <2> QED
      BY <1>1, <1>4, <1>5, <2>1 DEF Due
  <1>6. ASSUME Complete PROVE Complete'
    <2> SUFFICES ASSUME NEW bd \in Notion!AtDepth', bd[1] \in seen
                 PROVE  HasText(bd[1], bd[2])'
      BY <1>1 DEF Complete
    <2>1. PICK i \in Notion!Docs(bd[1]) :
             edited \cap Containers = {} =>
                notionDocuments[i].blocks \ edited = Notion!Walk(bd[1], bd[2]) \ edited
      BY <1>6, AtDepthShrinks DEF Complete, HasText
    <2>2. i \in Notion!Docs(bd[1])'
      BY <1>1, <2>1 DEF Notion!Docs
    <2>3. ASSUME edited' \cap Containers = {}
          PROVE  notionDocuments'[i].blocks \ edited' = Notion!Walk(bd[1], bd[2])' \ edited'
      <3>1. Notion!Walk(bd[1], bd[2])' \ edited' = Notion!Walk(bd[1], bd[2]) \ edited'
        BY <2>3, WalkKept
      <3>2. edited \subseteq edited'
        BY DEF Edits
      <3> QED
        BY <1>1, <2>1, <2>3, <3>1, <3>2
    <2> QED
      BY <2>2, <2>3 DEF HasText
  <1> QED
    BY <1>1, <1>2, <1>5, <1>6 DEF PlanInv

\* The innermost call gives way to the calls it makes; the rest of the agenda stays.
LEMMA AgendaTurns ==
    ASSUME NotionInv, agenda # <<>>, NEW calls \in Seq(Notion!Task), Notion!Continue(calls)
    PROVE  \E R : /\ Elements(agenda) = {Head(agenda)} \cup R
                  /\ Elements(agenda') = Elements(calls) \cup R
  <1>1. agenda \in Seq(Notion!Task)
    BY DEF NotionInv, Notion!TypeOK
  <1>2. /\ Tail(agenda) \in Seq(Notion!Task)
        /\ Elements(agenda) = {Head(agenda)} \cup Elements(Tail(agenda))
    BY <1>1, ElementsOfTail
  <1>3. agenda' = calls \o Tail(agenda)
    BY DEF Notion!Continue
  <1>4. Elements(agenda') = Elements(calls) \cup Elements(Tail(agenda))
    <2> DEFINE rest == Tail(agenda)
    <2>1. rest \in Seq(Notion!Task) /\ agenda' = calls \o rest
      BY <1>2, <1>3
    <2> HIDE DEF rest
    <2>2. Elements(calls \o rest) = Elements(calls) \cup Elements(rest)
      BY <2>1, ElementsOfConcat
    <2> QED
      BY <2>1, <2>2 DEF rest
  <1> QED
    BY <1>2, <1>4

LEMMA AgendaShrinks ==
    ASSUME NotionInv, agenda # <<>>, Notion!Continue(<<>>)
    PROVE  \E R : Elements(agenda) = {Head(agenda)} \cup R /\ Elements(agenda') = R
  <1> DEFINE none == <<>>
  <1>1. none \in Seq(Notion!Task) /\ Elements(none) = {} /\ Notion!Continue(none)
    BY DEF Elements
  <1> HIDE DEF none
  <1>2. PICK R : /\ Elements(agenda) = {Head(agenda)} \cup R
                 /\ Elements(agenda') = Elements(none) \cup R
    BY <1>1, AgendaTurns
  <1>3. Elements(agenda') = R
    BY <1>1, <1>2
  <1> QED
    BY <1>2, <1>3

\* The calls for the children of a page, or the rows of a database.
LEMMA CallsElements ==
    ASSUME NEW S, S \subseteq (Pages \cup Databases) \cap Notion!Blocks, NEW q \in Notion!Orders(S),
           NEW depth \in Nat
    PROVE  /\ \A t \in Elements(Notion!Calls(q, depth)) :
                 /\ t.at \in S /\ t.depth = depth
                 /\ t.do = IF t.at \in Pages THEN "collect" ELSE "rows"
           /\ \A b \in S : \E t \in Elements(Notion!Calls(q, depth)) : t.at = b
  <1>1. IsFiniteSet(S)
    BY FiniteTrees, FS_Subset DEF Notion!Blocks
  <1>2. q \in [1 .. Cardinality(S) -> S] /\ S \subseteq Elements(q)
    BY <1>1, OrderHasAll, OneCardinality DEF Notion!Orders
  <1>3. DOMAIN Notion!Calls(q, depth) = DOMAIN q
    BY DEF Notion!Calls
  <1>4. \A i \in DOMAIN q : Notion!Calls(q, depth)[i] =
           [do |-> IF q[i] \in Pages THEN "collect" ELSE "rows", at |-> q[i], depth |-> depth]
    BY DEF Notion!Calls
  <1> QED
    BY <1>2, <1>3, <1>4 DEF Elements

\* The documents there are keep their texts while nobody edits anything.
LEMMA TextsStay ==
    ASSUME NotionInv, UNCHANGED Notion!tree, NEW b, NEW depth, HasText(b, depth),
           \/ UNCHANGED notionDocuments
           \/ \E p \in Pages, n \in Nat : Built(p, n)
    PROVE  HasText(b, depth)'
  <1>1. PICK i \in Notion!Docs(b) :
           edited \cap Containers = {} =>
              notionDocuments[i].blocks \ edited = Notion!Walk(b, depth) \ edited
    BY DEF HasText
  <1>2. i \in Notion!Docs(b)' /\ notionDocuments'[i] = notionDocuments[i]
    <2>1. notionDocuments \in Seq(Notion!Document) /\ i \in DOMAIN notionDocuments
      BY <1>1 DEF NotionInv, Notion!TypeOK, Notion!Docs
    <2>2. i \in DOMAIN notionDocuments' /\ notionDocuments'[i] = notionDocuments[i]
      <3>1. CASE UNCHANGED notionDocuments
        BY <2>1, <3>1
      <3>2. ASSUME NEW doc, notionDocuments' = Append(notionDocuments, doc)
            PROVE  i \in DOMAIN notionDocuments' /\ notionDocuments'[i] = notionDocuments[i]
        BY <2>1, <3>2
      <3> QED
        BY <3>1, <3>2 DEF Built
    <2> QED
      BY <1>1, <2>2 DEF Notion!Docs
  <1>3. edited' = edited /\ Notion!Walk(b, depth)' = Notion!Walk(b, depth)
    BY SameAtDepth DEF Notion!tree
  <1> QED
    BY <1>1, <1>2, <1>3 DEF HasText

\* A call is as deep as what it is at, and its page is one to be found only if nobody has
\* edited it.
LEMMA HeadDepth ==
    ASSUME NotionInv, PlanInv, agenda # <<>>, NEW bd \in Notion!AtDepth, bd[1] = Head(agenda).at
    PROVE  /\ bd[2] = Head(agenda).depth
           /\ Head(agenda).depth <= MaxDepth /\ Head(agenda).at \notin edited
  <1>1. Head(agenda) \in Elements(agenda)
    BY NotionHead DEF Elements
  <1> QED
    BY <1>1, AtDepthUnedited DEF PlanInv, DepthInv

\* A call that returns at once is too deep, or at a page that was seen.
LEMMA PlanReturn ==
    ASSUME NotionInv, PlanInv, Notion!Return
    PROVE  PlanInv'
  <1> DEFINE t == Head(agenda)
  <1>1. /\ agenda # <<>> /\ t.do = "collect" /\ status = "running" /\ Notion!Continue(<<>>)
        /\ UNCHANGED <<Notion!tree, seen, notionDocuments, odd, status>>
    BY DEF Notion!Return, Notion!Now, Notion!Continue
  <1>2. t.depth > MaxDepth \/ t.at \in seen
    BY DEF Notion!Return, Notion!Collected
  <1>3. PICK R : Elements(agenda) = {t} \cup R /\ Elements(agenda') = R
    BY <1>1, AgendaShrinks
  <1>4. Notion!AtDepth' = Notion!AtDepth /\ UNCHANGED <<parent, trashed, edited>>
    BY <1>1, SameAtDepth DEF Notion!tree
  <1>5. \A bd \in Notion!AtDepth : bd[1] = t.at => bd[1] \in seen
    <2> SUFFICES ASSUME NEW bd \in Notion!AtDepth, bd[1] = t.at PROVE t.at \in seen
      OBVIOUS
    <2>1. t.depth <= MaxDepth
      BY <1>1, HeadDepth
    <2>2. t.depth \in Nat /\ MaxDepth \in Nat
      BY <1>1, NotionHead, NotionAssumption DEF Notion!NotionConstants
    <2> HIDE DEF t
    <2> QED
      BY <1>2, <2>1, <2>2
  <1> HIDE DEF t
  <1>6. DepthInv'
    BY <1>3, <1>4 DEF PlanInv, DepthInv
  <1>7. ASSUME Due PROVE Due'
    <2>1. \A b : Turn(b)' => Turn(b)
      BY <1>1, <1>3, <1>4 DEF Turn, Expanded, Pending
    <2>2. \A b : Pending("collect", b) => Pending("collect", b)' \/ b = t.at
      BY <1>3 DEF Pending
    <2> QED
      BY <1>1, <1>4, <1>5, <1>7, <2>1, <2>2 DEF Due
  <1>8. ASSUME Complete PROVE Complete'
    BY <1>1, <1>4, <1>8, TextsStay DEF Complete
  <1> QED
    BY <1>1, <1>4, <1>6, <1>7, <1>8 DEF PlanInv

\* A call that fails ends the scan.
LEMMA PlanFails ==
    ASSUME PlanInv, Notion!Fails, UNCHANGED Notion!tree
    PROVE  PlanInv'
  <1>1. DepthInv'
    BY SameAtDepth DEF PlanInv, DepthInv, Notion!Fails, Elements
  <1> QED
    BY <1>1 DEF PlanInv, Notion!Fails, Notion!tree

LEMMA PlanFinish ==
    ASSUME NotionInv, PlanInv, Notion!Finish
    PROVE  PlanInv'
  <1>1. /\ UNCHANGED <<Notion!tree, agenda, seen, notionDocuments, odd>>
        /\ agenda = <<>> /\ status = "running"
    BY DEF Notion!Finish
  <1>2. Notion!AtDepth' = Notion!AtDepth /\ UNCHANGED <<parent, trashed, edited>>
    BY <1>1, SameAtDepth DEF Notion!tree
  <1>3. DepthInv'
    BY <1>1, <1>2 DEF PlanInv, DepthInv, Elements
  <1>4. ASSUME Due PROVE Due'
    BY <1>1, <1>2, <1>4 DEF Due, Turn, Expanded, Pending, Elements
  <1>5. ASSUME Complete PROVE Complete'
    BY <1>1, <1>2, <1>5, TextsStay DEF Complete
  <1> QED
    BY <1>1, <1>2, <1>3, <1>4, <1>5 DEF PlanInv

\* Page p has its sub-pages called by this step, and is one that nobody has edited.
Opens(p) == p \in Pages \ edited /\ ~Expanded(p) /\ Expanded(p)'

\* A page whose turn this step makes it, because the step opens what the page is on, or
\* takes up the rows of its database: what is above a page to be found is to be found.
LEMMA TurnComes ==
    ASSUME NotionInv, UNCHANGED Notion!tree, NEW bd \in Notion!AtDepth,
           Turn(bd[1])', ~Turn(bd[1])
    PROVE  /\ bd[1] \in Notion!Inner
           /\ \E d : /\ d = parent[bd[1]]
                     /\ \/ Opens(d)
                        \/ /\ d \in Databases /\ ~Pending("rows", d)'
                           /\ Pending("rows", d) \/ Opens(parent[d])
  <1> DEFINE b == bd[1]
  <1>0. PICK d : d = parent[b]
    OBVIOUS
  <1>1. b # PageRoot /\ UNCHANGED parent
    BY DEF Turn, Notion!tree
  <1>2. /\ b \in Notion!Inner
        /\ d \in Pages => d \notin edited
        /\ d \in Databases /\ parent[d] \in Pages => parent[d] \notin edited
    <2>1. b \in Notion!Inner
      BY <1>1, ReachedAlways DEF Reached
    <2>2. d \in Pages \cup Databases => \E e : <<d, e>> \in Notion!AtDepth
      BY <1>0, <1>1, ReachedAlways DEF Reached
    <2>3. ASSUME d \in Databases, parent[d] \in Pages PROVE parent[d] \notin edited
      <3>1. PICK e : <<d, e>> \in Notion!AtDepth
        BY <2>2, <2>3
      <3>2. d # PageRoot
        BY <2>3, DatabasesInside DEF Notion!Inner
      <3>3. \E f : <<parent[d], f>> \in Notion!AtDepth
        BY <2>3, <3>1, <3>2, ReachedAlways DEF Reached
      <3> QED
        BY <3>3, ReachedAlways DEF Reached
    <2> QED
      BY <2>1, <2>2, <2>3, ReachedAlways DEF Reached
  <1>3. \/ d \in Pages /\ Expanded(d)'
        \/ /\ d \in Databases /\ ~Pending("rows", d)'
           /\ parent[d] \in Pages /\ Expanded(parent[d])'
    BY <1>0, <1>1 DEF Turn
  <1>4. /\ ~(d \in Pages /\ Expanded(d))
        /\ ~(/\ d \in Databases /\ ~Pending("rows", d)
             /\ parent[d] \in Pages /\ Expanded(parent[d]))
    BY <1>0, <1>1 DEF Turn
  <1> QED
    BY <1>0, <1>1, <1>2, <1>3, <1>4 DEF Opens

\* The page that is collected has its text, and is to be expanded next.
LEMMA PlanCollect ==
    ASSUME NotionInv, PlanInv, Notion!CollectPage
    PROVE  PlanInv'
  <1> DEFINE t == Head(agenda)
             call == [t EXCEPT !.do = "list"]
             doc(blocks) == [page |-> t.at, blocks |->
                               IF blocks = "ok" THEN Notion!Walk(t.at, t.depth) ELSE {}]
  <1>1. /\ agenda # <<>> /\ t.do = "collect" /\ t \in Notion!Task /\ t.depth \in Nat
        /\ t.at \in Pages \ seen /\ status = "running" /\ UNCHANGED Notion!tree
    <2>1. agenda # <<>> /\ t.do = "collect" /\ t.at \notin seen /\ status = "running"
      BY DEF Notion!CollectPage, Notion!Now, Notion!Collected
    <2> QED
      BY <2>1, NotionHead DEF Notion!CollectPage
  <1>2. PICK meta \in Notion!Results, blocks \in Notion!Results :
           IF meta = "raises" \/ blocks = "raises" THEN Notion!Fails
           ELSE /\ seen' = seen \cup {t.at}
                /\ IF meta = "ok" /\ t.at \in trashed
                   THEN Notion!Continue(<<>>) /\ UNCHANGED <<notionDocuments, odd>>
                   ELSE /\ Notion!Continue(<<call>>)
                        /\ notionDocuments' = Append(notionDocuments, doc(blocks))
                        /\ odd' = (odd \/ meta # "ok" \/ blocks # "ok")
    BY DEF Notion!CollectPage
  <1>3. CASE meta = "raises" \/ blocks = "raises"
    BY <1>1, <1>2, <1>3, PlanFails
  <1>4. CASE ~(meta = "raises" \/ blocks = "raises")
    <2>1. seen' = seen \cup {t.at} /\ UNCHANGED <<status, parent, trashed, edited>>
      BY <1>1, <1>2, <1>4 DEF Notion!Continue, Notion!tree
    <2>2. Notion!AtDepth' = Notion!AtDepth
      BY <1>1, SameAtDepth
    <2>3. call.do = "list" /\ call.at = t.at /\ call.depth = t.depth /\ call \in Notion!Task
      BY <1>1 DEF Notion!Task
    <2>4. PICK R : /\ Elements(agenda) = {t} \cup R
                   /\ Elements(agenda') = R \/ Elements(agenda') = {call} \cup R
                   /\ t.at \notin edited => Elements(agenda') = {call} \cup R
      <3>1. CASE meta = "ok" /\ t.at \in trashed
        <4>1. t.at \in edited
          BY <3>1 DEF PlanInv
        <4> QED
          BY <1>1, <1>2, <1>4, <3>1, <4>1, AgendaShrinks
      <3>2. CASE ~(meta = "ok" /\ t.at \in trashed)
        <4> DEFINE calls == <<call>>
        <4>1. calls \in Seq(Notion!Task) /\ Elements(calls) = {call} /\ Notion!Continue(calls)
          BY <1>2, <1>4, <2>3, <3>2, OneElement
        <4> HIDE DEF calls
        <4>2. PICK R : Elements(agenda) = {t} \cup R /\ Elements(agenda') = Elements(calls) \cup R
          BY <1>1, <4>1, AgendaTurns
        <4> QED
          BY <4>1, <4>2
      <3> QED
        BY <3>1, <3>2
    <2>5. \/ UNCHANGED <<notionDocuments, odd>> /\ t.at \in edited
          \/ /\ notionDocuments' = Append(notionDocuments, doc(blocks))
             /\ odd' = (odd \/ meta # "ok" \/ blocks # "ok")
      BY <1>2, <1>4 DEF PlanInv
    <2>6. Built(t.at, t.depth) \/ UNCHANGED notionDocuments
      BY <2>5 DEF Built
    <2>7. ~odd' => ~odd
      BY <2>5
    <2>8. DepthInv'
      <3> HIDE DEF call, t
      <3> QED
        BY <2>2, <2>3, <2>4 DEF PlanInv, DepthInv
    <2>9. ASSUME Due PROVE Due'
      <3> SUFFICES ASSUME NEW bd \in Notion!AtDepth, bd[1] \in Pages, Turn(bd[1])',
                          bd[1] \notin seen'
                   PROVE  Pending("collect", bd[1])'
        BY <2>2 DEF Due
      <3>1. \A p : ~Opens(p)
        <4> HIDE DEF call, t
        <4> QED
          BY <1>1, <2>1, <2>3, <2>4 DEF Opens, Expanded, Pending
      <3>2. \A d : Pending("rows", d) => Pending("rows", d)'
        <4> HIDE DEF call, t
        <4> QED
          BY <1>1, <2>4 DEF Pending
      <3>3. Turn(bd[1])
        <4> HIDE DEF call, t
        <4> QED
          BY <1>1, <3>1, <3>2, TurnComes
      <3>4. Pending("collect", bd[1]) /\ bd[1] # t.at
        BY <2>1, <2>9, <3>3 DEF Due
      <3> HIDE DEF call, t
      <3> QED
        BY <2>4, <3>4 DEF Pending
    <2>10. ASSUME Complete, ~odd' PROVE Complete'
      <3> SUFFICES ASSUME NEW bd \in Notion!AtDepth, bd[1] \in seen'
                   PROVE  HasText(bd[1], bd[2])'
        BY <2>2 DEF Complete
      <3>1. CASE bd[1] \in seen
        BY <1>1, <2>6, <2>10, <3>1, TextsStay DEF Complete
      <3>2. CASE bd[1] \notin seen
        <4>1. bd[1] = t.at /\ bd[2] = t.depth /\ t.at \notin edited
          BY <1>1, <2>1, <3>2, HeadDepth
        <4>2. /\ notionDocuments' = Append(notionDocuments, doc(blocks))
              /\ blocks = "ok"
          BY <2>5, <2>10, <4>1
        <4> DEFINE i == Len(notionDocuments) + 1
                   new == doc(blocks)
        <4>3. new.page = bd[1] /\ new.blocks = Notion!Walk(bd[1], bd[2])
          BY <4>1, <4>2
        <4>4. i \in DOMAIN notionDocuments' /\ notionDocuments'[i] = new
          <5>1. notionDocuments \in Seq(Notion!Document)
            BY DEF NotionInv, Notion!TypeOK
          <5>2. notionDocuments' = Append(notionDocuments, new)
            BY <4>2
          <5> HIDE DEF new
          <5> QED
            BY <5>1, <5>2
        <4> HIDE DEF i, new
        <4>5. i \in Notion!Docs(bd[1])'
          BY <4>3, <4>4 DEF Notion!Docs
        <4>6. Notion!Walk(bd[1], bd[2])' = Notion!Walk(bd[1], bd[2])
          BY <1>1, SameAtDepth
        <4> HIDE DEF t
        <4> QED
          BY <4>3, <4>4, <4>5, <4>6 DEF HasText
      <3> QED
        BY <3>1, <3>2
    <2> QED
      BY <1>1, <2>1, <2>7, <2>8, <2>9, <2>10 DEF PlanInv
  <1> QED
    BY <1>3, <1>4

\* The calls of a page that is expanded are for its sub-pages and databases, one level down.
LEMMA PlanList ==
    ASSUME NotionInv, PlanInv, Notion!ListChildren
    PROVE  PlanInv'
  <1> DEFINE t == Head(agenda)
             S == Notion!Kids(t.at) \cap (Pages \cup Databases)
  <1>1. /\ agenda # <<>> /\ t.do = "list" /\ t.depth \in Nat /\ t.depth + 1 \in Nat
        /\ t.at \in Pages /\ status = "running" /\ UNCHANGED Notion!tree
    <2>1. agenda # <<>> /\ t.do = "list" /\ status = "running" /\ UNCHANGED Notion!tree
      BY DEF Notion!ListChildren, Notion!Now
    <2> QED
      BY <2>1, NotionHead
  <1>2. \/ Notion!Fails
        \/ /\ \E q \in Notion!Orders(S) : Notion!Continue(Notion!Calls(q, t.depth + 1))
           /\ UNCHANGED <<seen, notionDocuments, odd>>
        \/ Notion!Continue(<<>>) /\ odd'
    BY DEF Notion!ListChildren
  <1>3. Notion!AtDepth' = Notion!AtDepth /\ UNCHANGED <<parent, trashed, edited>>
    BY <1>1, SameAtDepth DEF Notion!tree
  <1>4. CASE Notion!Fails
    BY <1>1, <1>4, PlanFails
  <1>5. CASE Notion!Continue(<<>>) /\ odd'
    <2>1. PICK R : Elements(agenda) = {t} \cup R /\ Elements(agenda') = R
      BY <1>1, <1>5, AgendaShrinks
    <2>2. DepthInv'
      <3> HIDE DEF t
      <3> QED
        BY <1>3, <2>1 DEF PlanInv, DepthInv
    <2> QED
      BY <1>1, <1>3, <1>5, <2>2 DEF PlanInv, Notion!Continue
  <1>6. CASE /\ \E q \in Notion!Orders(S) : Notion!Continue(Notion!Calls(q, t.depth + 1))
             /\ UNCHANGED <<seen, notionDocuments, odd>>
    <2>1. PICK q \in Notion!Orders(S) : Notion!Continue(Notion!Calls(q, t.depth + 1))
      BY <1>6
    <2> DEFINE calls == Notion!Calls(q, t.depth + 1)
    <2>2. S \subseteq (Pages \cup Databases) \cap Notion!Blocks
      BY DEF Notion!Kids, Notion!Inner
    <2>3. /\ calls \in Seq(Notion!Task)
          /\ \A c \in Elements(calls) : /\ c.at \in S /\ c.depth = t.depth + 1
                                        /\ c.do = IF c.at \in Pages THEN "collect" ELSE "rows"
          /\ \A b \in S : \E c \in Elements(calls) : c.at = b
      <3> DEFINE n == t.depth + 1
      <3>1. n \in Nat
        BY <1>1
      <3> HIDE DEF S, t, n
      <3> QED
        BY <2>1, <2>2, <3>1, NotionCalls, CallsElements DEF n
    <2> HIDE DEF calls
    <2>4. PICK R : Elements(agenda) = {t} \cup R /\ Elements(agenda') = Elements(calls) \cup R
      BY <1>1, <2>1, <2>3, AgendaTurns DEF calls
    <2>5. UNCHANGED status
      BY <2>1 DEF Notion!Continue
    <2>6. DepthInv'
      <3>1. ASSUME NEW bd \in Notion!AtDepth, bd[1] \in S PROVE bd[2] = t.depth + 1
        <4>1. bd[1] # PageRoot /\ parent[bd[1]] = t.at
          BY <3>1 DEF Notion!Kids, Notion!Inner
        <4>2. <<t.at, bd[2] - 1>> \in Notion!AtDepth
          BY <1>1, <4>1, AtDepthAbove, DatabasesInside
        <4>3. bd[2] - 1 = t.depth /\ bd[2] \in Nat
          BY <1>1, <4>2, HeadDepth, AtDepthUnedited
        <4> QED
          BY <1>1, <4>3
      <3> HIDE DEF S, t
      <3> QED
        BY <1>3, <2>3, <2>4, <3>1 DEF PlanInv, DepthInv
    <2>7. ASSUME Due PROVE Due'
      <3> SUFFICES ASSUME NEW bd \in Notion!AtDepth, bd[1] \in Pages, Turn(bd[1])',
                          bd[1] \notin seen
                   PROVE  Pending("collect", bd[1])'
        BY <1>3, <1>6 DEF Due
      <3>1. \A p : Opens(p) => p = t.at
        <4> HIDE DEF S, t
        <4> QED
          BY <1>1, <1>6, <2>4 DEF Opens, Expanded, Pending
      <3>2. \A d : Pending("rows", d) => Pending("rows", d)'
        <4> HIDE DEF S, t
        <4> QED
          BY <1>1, <2>4 DEF Pending
      <3>3. CASE Turn(bd[1])
        <4>1. Pending("collect", bd[1])
          BY <2>7, <3>3 DEF Due
        <4> HIDE DEF S, t
        <4> QED
          BY <1>1, <2>4, <4>1 DEF Pending
      <3>4. CASE ~Turn(bd[1])
        <4>1. PICK d : /\ bd[1] \in Notion!Inner /\ d = parent[bd[1]]
                       /\ \/ Opens(d)
                          \/ /\ d \in Databases /\ ~Pending("rows", d)'
                             /\ Pending("rows", d) \/ Opens(parent[d])
          BY <1>1, <3>4, TurnComes
        <4>2. CASE Opens(d)
          <5>1. bd[1] \in S
            BY <3>1, <4>1, <4>2 DEF Notion!Kids
          <5> HIDE DEF S, t
          <5> QED
            BY <2>3, <2>4, <5>1 DEF Pending
        <4>3. CASE d \in Databases /\ ~Pending("rows", d)' /\ Opens(parent[d])
          <5>1. d \in S
            BY <3>1, <4>3, DatabasesInside DEF Notion!Kids
          <5>2. d \notin Pages
            BY <4>3, DatabasesInside
          <5>3. Pending("rows", d)'
            <6> HIDE DEF S, t
            <6> QED
              BY <2>3, <2>4, <5>1, <5>2 DEF Pending
          <5> QED
            BY <4>3, <5>3
        <4> QED
          BY <3>2, <4>1, <4>2, <4>3
      <3> QED
        BY <3>3, <3>4
    <2>8. ASSUME Complete PROVE Complete'
      BY <1>1, <1>3, <1>6, <2>8, TextsStay DEF Complete
    <2> QED
      BY <1>1, <1>3, <1>6, <2>5, <2>6, <2>7, <2>8 DEF PlanInv
  <1> QED
    BY <1>2, <1>4, <1>5, <1>6

\* The rows of a database are as deep as it is; those in the trash were edited.
LEMMA PlanRows ==
    ASSUME NotionInv, PlanInv, Notion!CollectRows
    PROVE  PlanInv'
  <1> DEFINE t == Head(agenda)
             S == Notion!Kids(t.at) \ trashed
  <1>1. /\ agenda # <<>> /\ t.do = "rows" /\ t.depth \in Nat
        /\ t.at \in Databases /\ status = "running" /\ UNCHANGED Notion!tree
    <2>1. agenda # <<>> /\ t.do = "rows" /\ status = "running" /\ UNCHANGED Notion!tree
      BY DEF Notion!CollectRows, Notion!Now
    <2> QED
      BY <2>1, NotionHead
  <1>2. \/ Notion!Fails
        \/ /\ \E q \in Notion!Orders(S) : Notion!Continue(Notion!Calls(q, t.depth))
           /\ UNCHANGED <<seen, notionDocuments>> /\ odd' = odd
        \/ Notion!Continue(<<>>) /\ odd'
    BY DEF Notion!CollectRows, Notion!RowDepth, NotionInv, Notion!TypeOK
  <1>3. Notion!AtDepth' = Notion!AtDepth /\ UNCHANGED <<parent, trashed, edited>>
    BY <1>1, SameAtDepth DEF Notion!tree
  <1>4. CASE Notion!Fails
    BY <1>1, <1>4, PlanFails
  <1>5. CASE Notion!Continue(<<>>) /\ odd'
    <2>1. PICK R : Elements(agenda) = {t} \cup R /\ Elements(agenda') = R
      BY <1>1, <1>5, AgendaShrinks
    <2>2. DepthInv'
      <3> HIDE DEF t
      <3> QED
        BY <1>3, <2>1 DEF PlanInv, DepthInv
    <2> QED
      BY <1>1, <1>3, <1>5, <2>2 DEF PlanInv, Notion!Continue
  <1>6. CASE /\ \E q \in Notion!Orders(S) : Notion!Continue(Notion!Calls(q, t.depth))
             /\ UNCHANGED <<seen, notionDocuments, odd>>
    <2>1. PICK q \in Notion!Orders(S) : Notion!Continue(Notion!Calls(q, t.depth))
      BY <1>6
    <2> DEFINE calls == Notion!Calls(q, t.depth)
    <2>2. S \subseteq (Pages \cup Databases) \cap Notion!Blocks /\ S \subseteq Pages
      BY <1>1 DEF Notion!Kids, NotionInv, AgendaInv, Notion!Tree, Notion!Blocks
    <2>3. /\ calls \in Seq(Notion!Task)
          /\ \A c \in Elements(calls) : /\ c.at \in S /\ c.depth = t.depth
                                        /\ c.do = IF c.at \in Pages THEN "collect" ELSE "rows"
          /\ \A b \in S : \E c \in Elements(calls) : c.at = b
      <3> HIDE DEF S, t
      <3> QED
        BY <1>1, <2>2, NotionCalls, CallsElements
    <2> HIDE DEF calls
    <2>4. PICK R : Elements(agenda) = {t} \cup R /\ Elements(agenda') = Elements(calls) \cup R
      BY <1>1, <2>1, <2>3, AgendaTurns DEF calls
    <2>5. UNCHANGED status
      BY <2>1 DEF Notion!Continue
    <2>6. DepthInv'
      <3>1. ASSUME NEW bd \in Notion!AtDepth, bd[1] \in S PROVE bd[2] = t.depth
        <4>1. bd[1] # PageRoot /\ parent[bd[1]] = t.at
          BY <3>1 DEF Notion!Kids, Notion!Inner
        <4>2. <<t.at, bd[2]>> \in Notion!AtDepth
          BY <1>1, <4>1, AtDepthAbove, DatabasesInside
        <4> QED
          BY <1>1, <4>2, HeadDepth
      <3> HIDE DEF S, t
      <3> QED
        BY <1>3, <2>3, <2>4, <3>1 DEF PlanInv, DepthInv
    <2>7. ASSUME Due PROVE Due'
      <3> SUFFICES ASSUME NEW bd \in Notion!AtDepth, bd[1] \in Pages, Turn(bd[1])',
                          bd[1] \notin seen
                   PROVE  Pending("collect", bd[1])'
        BY <1>3, <1>6 DEF Due
      <3>1. \A p : ~Opens(p)
        <4> HIDE DEF S, t
        <4> QED
          BY <1>1, <1>6, <2>4 DEF Opens, Expanded, Pending
      <3>2. \A d : Pending("rows", d) => Pending("rows", d)' \/ d = t.at
        <4> HIDE DEF S, t
        <4> QED
          BY <1>1, <2>4 DEF Pending
      <3>3. CASE Turn(bd[1])
        <4>1. Pending("collect", bd[1])
          BY <2>7, <3>3 DEF Due
        <4> HIDE DEF S, t
        <4> QED
          BY <1>1, <2>4, <4>1 DEF Pending
      <3>4. CASE ~Turn(bd[1])
        <4>1. PICK d : /\ bd[1] \in Notion!Inner /\ d = parent[bd[1]]
                       /\ \/ Opens(d)
                          \/ /\ d \in Databases /\ ~Pending("rows", d)'
                             /\ Pending("rows", d) \/ Opens(parent[d])
          BY <1>1, <3>4, TurnComes
        <4>2. d = t.at
          BY <3>1, <3>2, <4>1
        <4>3. bd[1] \notin trashed
          BY AtDepthUnedited DEF PlanInv
        <4>4. bd[1] \in S
          BY <4>1, <4>2, <4>3 DEF Notion!Kids
        <4> HIDE DEF S, t
        <4> QED
          BY <2>3, <2>4, <4>4 DEF Pending
      <3> QED
        BY <3>3, <3>4
    <2>8. ASSUME Complete PROVE Complete'
      BY <1>1, <1>3, <1>6, <2>8, TextsStay DEF Complete
    <2> QED
      BY <1>1, <1>3, <1>6, <2>5, <2>6, <2>7, <2>8 DEF PlanInv
  <1> QED
    BY <1>2, <1>4, <1>5, <1>6

LEMMA PlanStep ==
    ASSUME NotionInv, PlanInv, Notion!Next
    PROVE  PlanInv'
  BY PeopleEdit, PlanEdit, PlanReturn, PlanCollect, PlanList, PlanRows, PlanFinish
     DEF Notion!Next, Notion!Scan

LEMMA TextStep ==
    ASSUME NotionInv, TextInv, Notion!Next
    PROVE  TextInv'
  <1>1. CASE \/ \E b \in Notion!Inner, p \in Notion!Blocks \cup {Nowhere} : Notion!Move(b, p)
             \/ \E p \in Pages : Notion!Trash(p)
    BY <1>1, PeopleEdit, TextEdit
  <1>2. CASE Notion!CollectPage
    <2> DEFINE t == Head(agenda)
    <2>1. agenda # <<>> /\ t.do = "collect" /\ UNCHANGED <<parent, edited>>
      BY <1>2 DEF Notion!CollectPage, Notion!Now, Notion!tree
    <2>2. t.at \in Pages /\ t.depth \in Nat
      BY <2>1, NotionHead
    <2>3. UNCHANGED notionDocuments \/ Built(t.at, t.depth)
      BY <1>2 DEF Notion!CollectPage, Notion!Fails, Built
    <2>4. CASE UNCHANGED notionDocuments
      BY <2>1, <2>4 DEF TextInv
    <2>5. CASE Built(t.at, t.depth)
      <3> HIDE DEF t
      <3> QED
        BY <2>1, <2>2, <2>5, TextBuilt
    <2> QED
      BY <2>3, <2>4, <2>5
  <1>3. CASE Notion!Return \/ Notion!ListChildren \/ Notion!CollectRows \/ Notion!Finish
    <2>1. UNCHANGED <<parent, edited, notionDocuments>>
      BY <1>3 DEF Notion!Return, Notion!ListChildren, Notion!CollectRows, Notion!Finish,
                  Notion!Fails, Notion!tree
    <2> QED
      BY <2>1 DEF TextInv
  <1> QED
    BY <1>1, <1>2, <1>3 DEF Notion!Next, Notion!Scan

----------------------------------------------------------------------------
(* The scans that are done *)

\* The folders that were walked are a set that has the root and, in a scan that is done,
\* whatever was left alone in them: the settled ones are among them.
LEMMA FilesFound ==
    ASSUME DriveInv, FoundInv
    PROVE  SettledFilesFound
  <1> SUFFICES ASSUME phase = "done", NEW f \in Files \ moved, NEW d \in place[f],
                      Drive!Settled(d)
               PROVE  driveDocuments[f] = 1 <=> f \notin warned
    BY DEF SettledFilesFound, Drive!SettledFilesFound
  <1>1. WalkInv /\ Elements(stack) = {} /\ listed[f] = 0 /\ seenFolders \subseteq Drive!Dirs
    BY DEF FoundInv, WalkInv, Elements, DriveInv, Drive!TypeOK
  <1>2. FilesListed = seenFolders /\ SubfoldersListed = seenFolders
    BY DEF FilesListed, SubfoldersListed
  <1>3. d \in seenFolders
    BY <1>1, <1>2 DEF WalkInv, Drive!Settled
  <1>4. f \in seenFiles
    BY <1>1, <1>2, <1>3 DEF WalkInv
  <1> QED
    BY <1>1, <1>4 DEF WalkInv

\* When the agenda is empty, the pages to be found that were seen, and the databases on
\* such pages, are a set that is left by no page or row: they are all there is to be found.
LEMMA PagesFound ==
    ASSUME NotionInv, PlanInv
    PROVE  SettledPagesFound
  <1> SUFFICES ASSUME status = "done", ~odd
               PROVE  \A pd \in Notion!AtDepth : pd[1] \in Pages =>
                         \E i \in Notion!Docs(pd[1]) :
                            Notion!Walk(pd[1], pd[2]) \cap edited = {} /\ edited \cap Containers = {}
                               => notionDocuments[i].blocks \ edited = Notion!Walk(pd[1], pd[2])
    BY DEF SettledPagesFound, Notion!SettledPagesFound
  <1>1. Due /\ Complete /\ seen \subseteq Pages /\ PageRoot \in Pages
    BY NotionAssumption DEF PlanInv, NotionInv, Notion!TypeOK, Notion!NotionConstants
  <1>2. \A what, b : ~Pending(what, b)
    BY DEF PlanInv, Pending, Elements
  <1> DEFINE Got(b) == IF b \in Pages THEN b \in seen ELSE parent[b] \in seen
             S == {bd \in Notion!AtDepth \cap Notion!Spots : Got(bd[1])}
  <1>3. \A bd \in Notion!Start : bd[1] \in seen
    <2> SUFFICES ASSUME NEW bd \in Notion!Start PROVE bd[1] \in seen
      OBVIOUS
    <2>1. bd \in Notion!AtDepth /\ bd[1] = PageRoot
      BY StartAtDepth, StartIsRoot
    <2> QED
      BY <1>1, <1>2, <2>1 DEF Due, Turn
  <1>4. ASSUME NEW cd \in Notion!Spots, Notion!Met(cd, Notion!Start \cup S) PROVE cd \in S
    <2>1. PICK d, e : /\ d = parent[cd[1]] /\ d \in Pages \cup Databases
                      /\ <<d, e>> \in Notion!Start \cup S
      BY <1>4 DEF Notion!Met
    <2>2. d \in Pages => d \in seen
      BY <1>3, <2>1
    <2>3. d \in Databases => d \notin Pages /\ parent[d] \in seen /\ parent[d] \in Pages
      BY <1>1, <1>3, <2>1, DatabasesInside
    <2>4. cd \in Notion!AtDepth
      <3>1. Notion!Start \cup S \subseteq Notion!AtDepth
        BY StartAtDepth
      <3>2. Notion!Met(cd, Notion!AtDepth)
        <4> HIDE DEF S
        <4> QED
          BY <1>4, <3>1 DEF Notion!Met
      <3> QED
        BY <3>2, AtDepthClosed
    <2>5. CASE cd[1] \in Pages
      <3>1. Turn(cd[1])
        BY <1>2, <2>1, <2>2, <2>3 DEF Turn, Expanded
      <3> QED
        BY <1>1, <1>2, <2>4, <2>5, <3>1 DEF Due
    <2>6. CASE cd[1] \notin Pages
      <3>1. cd[1] \in Notion!Inner
        BY <2>4, <2>6, <1>1, AtDepthUnedited
      <3>2. d \in Pages
        BY <2>1, <2>6, <3>1 DEF NotionInv, AgendaInv, Notion!Tree
      <3> QED
        BY <2>1, <2>2, <2>4, <2>6, <3>2
    <2> QED
      BY <2>5, <2>6
  <1>5. \A pd \in Notion!AtDepth : pd[1] \in Pages => pd[1] \in seen
    <2>1. S \in SUBSET Notion!Spots
      OBVIOUS
    <2>2. Notion!AtDepth \subseteq Notion!Start \cup S
      <3> HIDE DEF S
      <3> QED
        BY <1>4, <2>1, AtDepthLeast
    <2> QED
      BY <1>3, <2>2
  <1> HIDE DEF S, Got
  <1> QED
    BY <1>1, <1>5 DEF Complete, HasText

----------------------------------------------------------------------------
(* Either walk *)

ScanInv ==
    /\ DriveInv /\ FoundInv
    /\ NotionInv /\ TextInv /\ PlanInv

\* Neither invariant speaks of the other walk.
LEMMA DriveRests ==
    ASSUME DriveInv, FoundInv, UNCHANGED driveVars
    PROVE  DriveInv' /\ FoundInv'
  BY DEF DriveInv, Drive!TypeOK, driveVars, FoundInv, WalkInv, FilesListed, SubfoldersListed,
         Elements

LEMMA NotionRests ==
    ASSUME NotionInv, TextInv, PlanInv, UNCHANGED notionVars
    PROVE  NotionInv' /\ TextInv' /\ PlanInv'
  <1>1. Edits /\ UNCHANGED notionVars
    BY DEF notionVars, Edits
  <1>2. NotionInv'
    BY <1>1, SameTree DEF NotionInv, AgendaInv, Notion!TypeOK, notionVars
  <1> QED
    BY <1>1, <1>2, TextEdit, PlanEdit

LEMMA ScanStep == ScanInv /\ [Next]_vars => ScanInv'
  <1> SUFFICES ASSUME ScanInv, [Next]_vars PROVE ScanInv'
    OBVIOUS
  <1>1. CASE Drive!Next /\ UNCHANGED notionVars
    BY <1>1, DriveStep, FoundStep, NotionRests DEF ScanInv
  <1>2. CASE Notion!Next /\ UNCHANGED driveVars
    BY <1>2, NotionStep, TextStep, PlanStep, DriveRests DEF ScanInv
  <1>3. CASE UNCHANGED vars
    BY <1>3, DriveRests, NotionRests DEF vars, ScanInv
  <1> QED
    BY <1>1, <1>2, <1>3 DEF Next

\* The invariant of both walks holds in every scan.
LEMMA ScanInvariance == Spec => []ScanInv
  <1>1. Init => ScanInv
    <2> SUFFICES ASSUME Init PROVE ScanInv
      OBVIOUS
    <2>1. Drive!Init /\ Notion!Init
      BY DEF Init
    <2>2. TextInv
      BY <2>1 DEF Notion!Init, TextInv
    <2> QED
      BY <2>1, <2>2, DriveInitially, FoundInitially, NotionInitially, PlanInitially DEF ScanInv
  <1> QED
    BY <1>1, ScanStep, PTL DEF Spec

\* The variables of both walks keep their types.
THEOREM ScanTypes == Spec => []TypeOK
  <1>1. ScanInv => TypeOK
    BY DEF ScanInv, DriveInv, NotionInv, TypeOK
  <1> QED
    BY <1>1, ScanInvariance, PTL

\* GoogleDriveConnector.scan: for any tree, whatever is moved under the walk and whatever
\* call fails, no file has two documents.
THEOREM NoFileTwice == Spec => []DocumentsUnique
  <1>1. ScanInv => DocumentsUnique
    BY DEF ScanInv, DriveInv, DocumentsUnique, Drive!DocumentsUnique
  <1> QED
    BY <1>1, ScanInvariance, PTL

\* NotionConnector.scan: for any workspace and depth, whatever is moved or trashed under
\* the walk and whatever call fails, no page has two documents.
THEOREM NoPageTwice == Spec => []PagesOnce
  <1>1. ScanInv => PagesOnce
    <2> SUFFICES ASSUME NotionInv, NEW p \in Pages
                 PROVE  Cardinality(Notion!Docs(p)) <= 1
      BY OneCardinality DEF ScanInv, PagesOnce, Notion!PagesOnce
    <2>1. CASE Notion!Docs(p) = {}
      BY <2>1, FS_EmptySet
    <2>2. CASE Notion!Docs(p) # {}
      <3>1. PICK i : Notion!Docs(p) = {i}
        BY <2>2 DEF NotionInv, Notion!Docs
      <3>2. Cardinality({i}) = 1
        BY FS_Singleton
      <3> QED
        BY <3>1, <3>2
    <2> QED
      BY <2>1, <2>2
  <1> QED
    BY <1>1, ScanInvariance, PTL

\* GoogleDriveConnector.scan: for any tree, whatever is moved under the walk, a scan that
\* succeeds has a document or a warning, and not both, for every file that was left alone
\* below the root with the folders on its way.
THEOREM SettledFilesAreFound == Spec => []SettledFilesFound
  <1>1. ScanInv => SettledFilesFound
    BY FilesFound DEF ScanInv
  <1> QED
    BY <1>1, ScanInvariance, PTL

\* NotionConnector.scan: for any workspace and depth, two texts share blocks only if one
\* that they share was moved while the scan ran.
THEOREM NoBlockTwice == Spec => []BlocksOnce
  <1>1. ScanInv => BlocksOnce
    BY TextsApart DEF ScanInv
  <1> QED
    BY <1>1, ScanInvariance, PTL

\* NotionConnector.scan: for any workspace and depth, whatever is moved or trashed under
\* the walk, a scan whose calls were all answered has every page that can be reached over
\* pages and rows that were left alone, with all of its text if that was left alone too.
THEOREM SettledPagesAreFound == Spec => []SettledPagesFound
  <1>1. ScanInv => SettledPagesFound
    BY PagesFound DEF ScanInv
  <1> QED
    BY <1>1, ScanInvariance, PTL
=============================================================================
