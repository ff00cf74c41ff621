------------------------------ MODULE MCMemory ------------------------------
(***************************************************************************)
(* Small instances of MemoryExtraction for TLC.                            *)
(***************************************************************************)
EXTENDS MemoryExtraction, TLC

CONSTANTS c1, c2

Decision == [type |-> "Decision", impact |-> "LOW", sure |-> TRUE]
Idea == [type |-> "Idea", impact |-> "LOW", sure |-> TRUE]
DoubtfulIdea == [type |-> "Idea", impact |-> "LOW", sure |-> FALSE]
SomeClasses == {Decision, Idea, DoubtfulIdea}

OneChunk == <<c1>>

Own == {"own chunk"}

\* The items of a reply; the first names both chunks, as a model may.
Thing(fate, class, names) ==
    [fate |-> fate, class |-> class, naming |-> names # Own, names |-> names \ Own]
List(l) == [kind |-> "list", items |-> l]
SomeReplies ==
    {List(<<Thing("sound", Idea, {c1, c2}), Thing("misfit", Idea, Own)>>),
     List(<<Thing("sound", DoubtfulIdea, Own), Thing("rotten", Idea, Own)>>),
     List(<<Thing("misshapen", Idea, Own), Thing("sound", DoubtfulIdea, {})>>),
     [kind |-> "object", items |-> <<>>],
     [kind |-> "text", items |-> <<>>],
     [kind |-> "none", items |-> <<>>]}
=============================================================================
