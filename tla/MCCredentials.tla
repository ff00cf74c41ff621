--------------------------- MODULE MCCredentials ---------------------------
(***************************************************************************)
(* Small instances of Credentials for TLC.                                 *)
(***************************************************************************)
EXTENDS Credentials, TLC

CONSTANTS k1, k2, k3, b1, b2, b3

New(i, b) == [id |-> i, bytes |-> b]
OldKey == New(k1, b1)
NewKey == New(k2, b2)
ThirdKey == New(k3, b3)

Keys(active, previous, legacy) ==
    [name |-> k1, active |-> active, previous |-> previous, legacy |-> legacy]

\* Two rotations; the first configuration has its key in the legacy list alone.
TwoRotations ==
    <<Keys(<<>>, <<>>, <<OldKey>>),
      Keys(<<NewKey>>, <<OldKey>>, <<>>),
      Keys(<<ThirdKey>>, <<NewKey>>, <<>>),
      Keys(<<ThirdKey>>, <<>>, <<>>)>>

ServiceSymmetry == Permutations(Services) \cup Permutations(RowIds)
============================================================================
