--------------------------- MODULE MCEvidenceIndex ---------------------------
(***************************************************************************)
(* Small instances of EvidenceIndex for TLC.                               *)
(***************************************************************************)
EXTENDS EvidenceIndex, TLC

CONSTANTS d1, draft, final, empty

OneId == d1 :> "file-1"

Shapes == draft :> "text:9" @@ final :> "text:12" @@ empty :> ""

DraftFinal == {draft, final}
DraftFinalEmpty == {draft, final, empty}

ShapeOf == [c \in Contents |-> Shapes[c]]

WorkerSymmetry == Permutations(Workers)
============================================================================
