---------------------------- MODULE Credentials ----------------------------
(***************************************************************************)
(* The stored credentials of one source (rekanvault/sources/               *)
(* credential_repo.py), the keys they are sealed under                     *)
(* (rekanvault/governance/encryption.py), and the services that load and   *)
(* refresh them (GoogleDriveConnector._load_credentials) while an operator *)
(* rotates the keys: a new configuration, restarts, and the job that       *)
(* re-encrypts the rows before a key is dropped.  What a row holds is left *)
(* out; a flush and its commit are one step, since the row is locked from  *)
(* the one to the other.                                                   *)
(***************************************************************************)
EXTENDS Naturals, Sequences, FiniteSets

CONSTANTS
    Services,       \* the processes that load credentials
    RowIds,         \* ids of credentials
    KeyIds, Bytes,  \* a key is an id and its bytes
    DevKey,         \* the bytes of the key that get_active_key makes up
    Plan,           \* the configurations, in the order they are deployed
    Rolling         \* whether the services are restarted one by one

Key == [id : KeyIds, bytes : Bytes]
Row == [id : RowIds, key : KeyIds, seal : Bytes]
Configuration == [name : KeyIds, active : Seq(Key), previous : Seq(Key), legacy : Seq(Key)]

----------------------------------------------------------------------------
(* KeyManager: a key that is listed later replaces one of its id *)

Listed(c) == c.active \o c.previous \o c.legacy
LastOf(q, i) == CHOOSE n \in DOMAIN q :
                   q[n].id = i /\ \A m \in DOMAIN q : q[m].id = i => m <= n
Custody(c) == [i \in {Listed(c)[n].id : n \in DOMAIN Listed(c)} |->
                  Listed(c)[LastOf(Listed(c), i)].bytes]

ActiveId(c) == IF c.active # <<>> THEN c.active[1].id ELSE c.name

\* The key of get_active_key: an id without a key gets the development key.
ActiveBytes(c) == IF ActiveId(c) \in DOMAIN Custody(c) THEN Custody(c)[ActiveId(c)] ELSE DevKey

\* encrypt seals under the active key, and says so; decrypt takes the key the row names.
Sealed(i, c) == [id |-> i, key |-> ActiveId(c), seal |-> ActiveBytes(c)]
Opens(c, row) == row.key \in DOMAIN Custody(c) /\ Custody(c)[row.key] = row.seal

\* Every configuration has its active key, and the next one has it too.
Has(c, d) == ActiveId(c) \in DOMAIN Custody(d) /\ Custody(d)[ActiveId(c)] = ActiveBytes(c)
ASSUME PlanAssumption ==
    /\ Plan \in Seq(Configuration) /\ Len(Plan) > 0
    /\ \A s \in DOMAIN Plan : Has(Plan[s], Plan[s])
    /\ \A s \in DOMAIN Plan : s + 1 \in DOMAIN Plan => Has(Plan[s], Plan[s + 1])
ASSUME RollingAssumption == Rolling \in BOOLEAN
ASSUME BytesAssumption == DevKey \in Bytes
ASSUME ServicesAssumption == IsFiniteSet(Services)

----------------------------------------------------------------------------

VARIABLES
    registered,     \* whether there are the rows that a credential refers to, see Store
    rows,           \* the credentials of the source, by updated_at
    goal,           \* the configuration that is deployed
    cleared,        \* the last configuration whose re-encryption was completed
    stage,          \* stage[p]: the configuration p was started with
    pc,             \* where p is in _load_credentials
    loaded,         \* loaded[p]: the row that p is about to write, as p read it
    job             \* the rows the re-encryption has read; none when it is not running

vars == <<registered, rows, goal, cleared, stage, pc, loaded, job>>
operator == <<registered, goal, cleared, stage, job>>

Config(p) == Plan[stage[p]]
Current == Plan[goal]
Stages == DOMAIN Plan

TypeOK ==
    /\ registered \in BOOLEAN
    /\ rows \in Seq(Row)
    /\ goal \in Stages
    /\ cleared \in Stages \cup {0}
    /\ stage \in [Services -> Stages]
    /\ pc \in [Services -> {"idle", "store", "refresh", "write"}]
    /\ loaded \in [Services -> SUBSET Row]
    /\ job \subseteq Row

Init ==
    /\ registered \in BOOLEAN
    /\ rows = <<>>
    /\ goal = 1 /\ cleared = 0
    /\ stage = [p \in Services |-> 1]
    /\ pc = [p \in Services |-> "idle"]
    /\ loaded = [p \in Services |-> {}]
    /\ job = {}

Latest == rows[Len(rows)]
At(i) == {n \in DOMAIN rows : rows[n].id = i}
RowSet == {rows[n] : n \in DOMAIN rows}
Without(n) == SubSeq(rows, 1, n - 1) \o SubSeq(rows, n + 1, Len(rows))

\* Ids are never used again: not while anybody could write to the row.
Unused == RowIds \ ({r.id : r \in RowSet \cup job} \cup {r.id : r \in UNION {loaded[p] : p \in Services}})

----------------------------------------------------------------------------
(* One load *)

Goes(p, to) == pc' = [pc EXCEPT ![p] = to]

\* Mutant of Missing: a load does not look for what is there.
MissingAlways == TRUE

Missing == rows = <<>>

\* get_credential; a row that does not open raises, and a token that is valid is used.
Load(p) ==
    /\ pc[p] = "idle"
    /\ IF Missing THEN Goes(p, "store")
       ELSE Opens(Config(p), Latest) /\ Goes(p, "refresh")
    /\ UNCHANGED <<rows, loaded, operator>>

\* store_credential with the pilot token, which is yet to be refreshed.  The row has
\* foreign keys to a source and a workspace by ids that are derived from their names.
\* Nothing in the repository inserts those two; if nobody else has, the commit raises.
Store(p) ==
    /\ pc[p] = "store"
    /\ registered
    /\ \E i \in Unused : rows' = Append(rows, Sealed(i, Config(p)))
    /\ Goes(p, "refresh")
    /\ UNCHANGED <<loaded, operator>>

StoreRefused(p) ==
    /\ pc[p] = "store"
    /\ ~registered
    /\ Goes(p, "idle")
    /\ UNCHANGED <<rows, loaded, operator>>

\* The provider refuses the refresh, or update_credential finds no row.
GiveUp(p) ==
    /\ pc[p] # "idle"
    /\ Goes(p, "idle")
    /\ loaded' = [loaded EXCEPT ![p] = {}]
    /\ UNCHANGED <<rows, operator>>

\* update_credential reads the latest row again.
Refresh(p) ==
    /\ pc[p] = "refresh" /\ rows # <<>>
    /\ loaded' = [loaded EXCEPT ![p] = {Latest}]
    /\ Goes(p, "write")
    /\ UNCHANGED <<rows, operator>>

\* Mutant of Resealed: the key id is not set with the ciphertext.
ResealedOnly(row, old, c) == [row EXCEPT !.seal = ActiveBytes(c)]

\* Mutant of Resealed: a key id that does not change is set to nothing.
ResealedBlank(row, old, c) ==
    [row EXCEPT !.seal = ActiveBytes(c),
                !.key = IF ActiveId(c) # old.key THEN ActiveId(c) ELSE ""]

\* The UPDATE has the columns that differ from what was read: a new ciphertext and iv
\* always, the key id only if it is another one than that of the row that was read.
Resealed(row, old, c) ==
    [row EXCEPT !.seal = ActiveBytes(c),
                !.key = IF ActiveId(c) # old.key THEN ActiveId(c) ELSE @]

\* The row as it is by now; one that is gone raises.
Write(p) ==
    /\ pc[p] = "write"
    /\ \E old \in loaded[p], n \in DOMAIN rows :
          /\ n \in At(old.id)
          /\ rows' = Append(Without(n), Resealed(rows[n], old, Config(p)))
    /\ Goes(p, "idle")
    /\ loaded' = [loaded EXCEPT ![p] = {}]
    /\ UNCHANGED operator

\* delete_credential: the latest row only.
Delete(p) ==
    /\ pc[p] = "idle" /\ rows # <<>>
    /\ rows' = SubSeq(rows, 1, Len(rows) - 1)
    /\ UNCHANGED <<pc, loaded, operator>>

----------------------------------------------------------------------------
(* Rotation *)

\* Whether configuration d still has every key of c.
Keeps(c, d) ==
    \A i \in DOMAIN Custody(c) : i \in DOMAIN Custody(d) /\ Custody(d)[i] = Custody(c)[i]

\* "before that key is removed": a key is dropped after the rows have been re-encrypted.
MayDrop == Keeps(Current, Plan[goal + 1]) \/ cleared = goal

\* The next configuration; the job is not run while services are being restarted.
Deploy ==
    /\ goal + 1 \in Stages /\ MayDrop
    /\ \A p \in Services : stage[p] = goal
    /\ job = {}
    /\ goal' = goal + 1
    /\ IF Rolling THEN UNCHANGED <<stage, pc, loaded>>
       ELSE /\ stage' = [p \in Services |-> goal']
            /\ pc' = [p \in Services |-> "idle"]
            /\ loaded' = [p \in Services |-> {}]
    /\ UNCHANGED <<registered, rows, cleared, job>>

\* A restart: into the deployed configuration, out of whatever was under way.
Restart(p) ==
    /\ stage' = [stage EXCEPT ![p] = goal]
    /\ Goes(p, "idle")
    /\ loaded' = [loaded EXCEPT ![p] = {}]
    /\ UNCHANGED <<registered, rows, goal, cleared, job>>

\* Mutant of Outgoing: the job takes the latest row only, as the repository does.
OutgoingLatest == {r \in RowSet : r.key # ActiveId(Current) /\ r = Latest}

Outgoing == {r \in RowSet : r.key # ActiveId(Current)}

\* reencrypt_credentials: the rows of any other key; none of them, and it is done.
JobReads ==
    /\ job = {}
    /\ \A p \in Services : stage[p] = goal
    /\ \A r \in Outgoing : Opens(Current, r)
    /\ IF Outgoing = {} THEN cleared' = goal /\ UNCHANGED job
       ELSE job' = Outgoing /\ UNCHANGED cleared
    /\ UNCHANGED <<registered, rows, goal, stage, pc, loaded>>

\* The rows that were read, as they are by now; the order of updated_at among them is any.
JobWrites ==
    /\ job # {}
    /\ \A old \in job : At(old.id) # {}
    /\ \E q \in [1 .. Len(rows) -> DOMAIN rows] :
          LET read(n) == \E old \in job : old.id = rows[n].id
              by(n) == CHOOSE old \in job : old.id = rows[n].id
          IN  /\ \A m, n \in DOMAIN q : m < n =>
                    /\ q[m] # q[n]
                    /\ read(q[m]) => read(q[n])
                    /\ ~read(q[n]) => q[m] < q[n]
              /\ rows' = [m \in DOMAIN q |->
                             IF read(q[m]) THEN Resealed(rows[q[m]], by(q[m]), Current)
                             ELSE rows[q[m]]]
    /\ job' = {} /\ cleared' = goal
    /\ UNCHANGED <<registered, goal, stage, pc, loaded>>

\* One row that is gone, and none is written.
JobFails ==
    /\ job # {}
    /\ job' = {}
    /\ UNCHANGED <<registered, rows, goal, cleared, stage, pc, loaded>>

Next ==
    \/ \E p \in Services : \/ Load(p) \/ Store(p) \/ StoreRefused(p) \/ GiveUp(p)
                           \/ Refresh(p) \/ Write(p) \/ Delete(p) \/ Restart(p)
    \/ Deploy \/ JobReads \/ JobWrites \/ JobFails

Spec == Init /\ [][Next]_vars

----------------------------------------------------------------------------

\* The key id of a row is that of the key it was sealed with, and every service has that
\* key in custody: no load ever fails on a row.  The record of the decision promises it of
\* rotation without downtime; the code keeps it when the services are restarted together.
RowsOpen == \A r \in RowSet, p \in Services : Opens(Config(p), r)

\* Once the job has been through, no row comes back under a key that is on its way out,
\* whatever updates were under way: the completion check stays true.
ClearedStaysCleared == cleared = goal => \A r \in RowSet : r.key = ActiveId(Current)

\* Only loads that race each other for the first row give a source several: there are
\* never more of them than there are services.
NoMoreRowsThanServices == Len(rows) <= Cardinality(Services)
=============================================================================
