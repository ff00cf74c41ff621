----------------------------- MODULE MCJobQueue -----------------------------
(***************************************************************************)
(* Small instances of JobQueue for TLC.                                    *)
(***************************************************************************)
EXTENDS JobQueue, TLC

CONSTANTS extract       \* an idempotency key two calls share

\* A call with a handler that ends, one without a handler, and one whose
\* handler always raises; the first and the last share a key.
FleetJobs == 1..3
FleetKind == 1 :> "fine" @@ 2 :> "unknown" @@ 3 :> "poison"
FleetKey == 1 :> extract @@ 2 :> NoKey @@ 3 :> extract

DaemonSymmetry == Permutations(Workers)
============================================================================
