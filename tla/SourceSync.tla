----------------------------- MODULE SourceSync -----------------------------
(***************************************************************************)
(* Scans and syncs of one source: the provider's change feed and the       *)
(* cursor that remembers how far a source has read it                      *)
(* (rekanvault/sources/manager.py, storage/source_repo.py,                 *)
(* sources/google_drive.py).                                               *)
(*                                                                         *)
(* A scan or a sync is one transaction of a worker daemon.  It reads what  *)
(* is committed as it goes along, and what it writes takes place at its    *)
(* commit; if it raises or its worker dies, nothing of it takes place and  *)
(* its job is open again (JobQueue).  What a deactivate job does besides   *)
(* marking the document is in EvidenceIndex.  The status of the source and *)
(* of its sync_jobs rows, which no later scan or sync looks at, is left    *)
(* out.                                                                    *)
(***************************************************************************)
EXTENDS Naturals

CONSTANTS
    Workers,        \* the worker daemons
    Files,          \* the files (or pages) in the scope of the source
    NoCursor, NoFile, NoJob,
    MaxChanges      \* bound: changes the provider records

ASSUME MaxChangesAssumption == MaxChanges \in Nat
ASSUME NoCursorAssumption == NoCursor \notin Nat
ASSUME NoFileAssumption == NoFile \notin Files

Job == [kind : {"scan", "sync"}, file : {NoFile}] \cup [kind : {"deactivate"}, file : Files]
ASSUME NoJobAssumption == NoJob \notin Job

VARIABLES
    now,            \* the position of the latest change in the feed
    changed,        \* changed[f]: the position of the latest change of f
    there,          \* the files that are neither removed nor trashed
    known,          \* the files with a committed documents row
    deactivated,    \* ... whose status is "deactivated"
    watched,        \* history: the files that were Watched when they were last removed
    cursor,         \* the committed cursor_value: the next position to read
    open,           \* the committed jobs that no worker holds
    pc,             \* pc[w]: how far worker w is with its job
    cur,            \* cur[w]: that job, or NoJob
    loaded,         \* loaded[w]: the cursor that the session of w has read
    token,          \* token[w]: the page token, in the end the new cursor
    buf             \* buf[w]: the files that w has read about, then works on

feed == <<now, changed, there>>
store == <<known, deactivated, cursor>>
session == <<pc, cur, loaded, token, buf>>
vars == <<feed, store, watched, open, session>>

Cursor == (1 .. MaxChanges + 1) \cup {NoCursor}

TypeOK ==
    /\ now \in 0 .. MaxChanges
    /\ changed \in [Files -> 0 .. now]
    /\ there \subseteq Files
    /\ deactivated \subseteq known /\ known \subseteq Files
    /\ watched \subseteq Files
    /\ cursor \in Cursor
    /\ open \subseteq Job
    /\ pc \in [Workers -> {"idle", "claimed", "fetching", "fetched", "saving", "saved", "ready"}]
    /\ cur \in [Workers -> Job \cup {NoJob}]
    /\ loaded \in [Workers -> Cursor]
    /\ token \in [Workers -> Cursor]
    /\ buf \in [Workers -> SUBSET Files]

Init ==
    /\ now = 0
    /\ changed = [f \in Files |-> 0]
    /\ there \in SUBSET Files
    /\ known = {} /\ deactivated = {} /\ watched = {}
    /\ cursor = NoCursor
    /\ open = {}
    /\ pc = [w \in Workers |-> "idle"]
    /\ cur = [w \in Workers |-> NoJob]
    /\ loaded = [w \in Workers |-> NoCursor]
    /\ token = [w \in Workers |-> NoCursor]
    /\ buf = [w \in Workers |-> {}]

----------------------------------------------------------------------------
(* The provider, and whoever asks for scans and syncs *)

\* The files whose removal the next sync should notice: they are known, there is
\* a cursor, and no sync is about to start reading at the end of the feed.
Watched ==
    IF cursor # NoCursor /\ \A w \in Workers : pc[w] = "fetching" => token[w] # NoCursor
    THEN known ELSE {}

\* A file is edited, removed (trashed, deleted, access to it revoked) or brought
\* back: the feed has each file once, at the position of its latest change.
Change(f) ==
    /\ now < MaxChanges
    /\ now' = now + 1
    /\ changed' = [changed EXCEPT ![f] = now + 1]
    /\ there' \in {there \cup {f}, there \ {f}}
    /\ watched' = (watched \cup (Watched \cap there \cap {f})) \ there'
    /\ UNCHANGED <<store, open, session>>

Asked(kind) == [kind |-> kind, file |-> NoFile]

\* trigger_sync, trigger_reconcile (whose handler is that of a sync), and
\* whoever asks for a scan; more than one waiting job of a kind is as one.
Request(kind) ==
    /\ open' = open \cup {Asked(kind)}
    /\ UNCHANGED <<feed, store, watched, session>>

----------------------------------------------------------------------------
(* The worker daemons *)

Claim(w, j) ==
    /\ pc[w] = "idle"
    /\ j \in open
    /\ open' = open \ {j}
    /\ cur' = [cur EXCEPT ![w] = j]
    /\ pc' = [pc EXCEPT ![w] = "claimed"]
    /\ UNCHANGED <<feed, store, watched, loaded, token, buf>>

\* The transaction ends; waiting is what it leaves to be done.
End(w, waiting) ==
    /\ open' = open \cup waiting
    /\ pc' = [pc EXCEPT ![w] = "idle"]
    /\ cur' = [cur EXCEPT ![w] = NoJob]
    /\ loaded' = [loaded EXCEPT ![w] = NoCursor]
    /\ token' = [token EXCEPT ![w] = NoCursor]
    /\ buf' = [buf EXCEPT ![w] = {}]

Rollback(w) == End(w, {cur[w]}) /\ UNCHANGED <<feed, store, watched>>

\* The worker dies or the handler raises: also where the connector has raised a
\* RekanVaultError, since run_scan and run_sync raise it again once they have set
\* the sync job to failed and the source to "error", and the rollback takes that back.
Abort(w) == pc[w] # "idle" /\ Rollback(w)

\* The end of run_scan and run_sync
Succeed(w, waiting) == End(w, waiting) /\ UNCHANGED <<feed, deactivated, watched>>

\* connector.scan
Scan(w) ==
    /\ pc[w] = "claimed" /\ cur[w].kind = "scan"
    /\ buf' = [buf EXCEPT ![w] = there]
    /\ pc' = [pc EXCEPT ![w] = "ready"]
    /\ UNCHANGED <<feed, store, watched, open, cur, loaded, token>>

\* _persist_documents upserts what the scan has found, whatever was known before.
Persisted(w) == known \cup buf[w]

\* Nothing is done about what the scan has not found, and no cursor is saved.
CommitScan(w) ==
    /\ pc[w] = "ready" /\ cur[w].kind = "scan"
    /\ known' = Persisted(w)
    /\ Succeed(w, {})
    /\ UNCHANGED cursor

\* run_sync: get_provider_cursor
ReadCursor(w) ==
    /\ pc[w] = "claimed" /\ cur[w].kind = "sync"
    /\ loaded' = [loaded EXCEPT ![w] = cursor]
    /\ token' = [token EXCEPT ![w] = cursor]
    /\ pc' = [pc EXCEPT ![w] = "fetching"]
    /\ UNCHANGED <<feed, store, watched, open, cur, buf>>

\* Mutant of NextStart: the position of a change that is still to come is skipped.
NextStartLate == now + 2

\* getStartPageToken, newStartPageToken: where the changes to come will start
NextStart == now + 1

\* fetch_changes without a cursor starts at the end of the feed.
StartToken(w) ==
    /\ pc[w] = "fetching" /\ token[w] = NoCursor
    /\ token' = [token EXCEPT ![w] = NextStart]
    /\ UNCHANGED <<feed, store, watched, open, pc, cur, loaded, buf>>

\* Mutant of Gathered: each page replaces the one before.
GatheredLast(old, new) == new

\* events.append over all pages
Gathered(old, new) == old \cup new

\* _classify_change: "deleted" and "trashed" are the events run_sync looks at.
\* A file that is edited, moved or restored gives none.
Removals(page) == page \ there

\* One call of changes.list, with a page of one change: nextPageToken while
\* there are more, and newStartPageToken with the last one.
FetchPage(w) ==
    /\ pc[w] = "fetching" /\ token[w] # NoCursor
    /\ LET rest == {f \in Files : changed[f] >= token[w]}
           page == {f \in rest : \A g \in rest : changed[f] <= changed[g]}
       IN  /\ buf' = [buf EXCEPT ![w] = Gathered(@, Removals(page))]
           /\ \/ /\ rest # page
                 /\ \E f \in page : token' = [token EXCEPT ![w] = changed[f] + 1]
                 /\ UNCHANGED pc
              \/ /\ rest = page
                 /\ token' = [token EXCEPT ![w] = NextStart]
                 /\ pc' = [pc EXCEPT ![w] = "fetched"]
    /\ UNCHANGED <<feed, store, watched, open, cur, loaded>>

\* save_provider_cursor: its SELECT refreshes no row that the session has, but
\* finds one that has come since.
RereadCursor(w) ==
    /\ pc[w] = "fetched"
    /\ loaded' = [loaded EXCEPT ![w] = IF @ = NoCursor THEN cursor ELSE @]
    /\ pc' = [pc EXCEPT ![w] = "saving"]
    /\ UNCHANGED <<feed, store, watched, open, cur, token, buf>>

\* A transaction has flushed the cursor row, or its INSERT, and not ended.
CursorLocked == \E w \in Workers : pc[w] \in {"saved", "ready"} /\ cur[w].kind = "sync"

\* session.flush: UPDATE or INSERT, behind any other that is not committed
FlushCursor(w) ==
    /\ pc[w] = "saving" /\ ~CursorLocked
    /\ loaded[w] = NoCursor => cursor = NoCursor
    /\ pc' = [pc EXCEPT ![w] = "saved"]
    /\ UNCHANGED <<feed, store, watched, open, cur, loaded, token, buf>>

\* The unique key on source_id refuses a second row.
CursorConflict(w) ==
    /\ pc[w] = "saving" /\ ~CursorLocked
    /\ loaded[w] = NoCursor /\ cursor # NoCursor
    /\ Rollback(w)

\* Each removal of a document that is committed and not yet deactivated gets a
\* job; one of a document that is not (or not yet) known is passed over.
ReadDocuments(w) ==
    /\ pc[w] = "saved"
    /\ buf' = [buf EXCEPT ![w] = @ \cap (known \ deactivated)]
    /\ pc' = [pc EXCEPT ![w] = "ready"]
    /\ UNCHANGED <<feed, store, watched, open, cur, loaded, token>>

Deactivations(w) == {[kind |-> "deactivate", file |-> f] : f \in buf[w]}

\* cursor_value is in the UPDATE only if it is not the one that was read.
Written(w) == IF token[w] = loaded[w] THEN cursor ELSE token[w]

CommitSync(w) ==
    /\ pc[w] = "ready" /\ cur[w].kind = "sync"
    /\ cursor' = Written(w)
    /\ Succeed(w, Deactivations(w))
    /\ UNCHANGED known

Deactivate(w) ==
    /\ pc[w] = "claimed" /\ cur[w].kind = "deactivate"
    /\ deactivated' = deactivated \cup {cur[w].file}
    /\ End(w, {})
    /\ UNCHANGED <<feed, known, cursor, watched>>

----------------------------------------------------------------------------

Handle(w) ==
    \/ Scan(w) \/ CommitScan(w)
    \/ ReadCursor(w) \/ StartToken(w) \/ FetchPage(w)
    \/ RereadCursor(w) \/ FlushCursor(w) \/ CursorConflict(w)
    \/ ReadDocuments(w) \/ CommitSync(w)
    \/ Deactivate(w)

Next ==
    \/ \E f \in Files : Change(f)
    \/ \E kind \in {"scan", "sync"} : Request(kind)
    \/ \E w \in Workers : \/ \E j \in Job : Claim(w, j)
                          \/ Handle(w) \/ Abort(w)

Spec == Init /\ [][Next]_vars

\* The daemons go on for ever and take every job at last (claim_next_job takes
\* the oldest); syncs go on being asked for, by the polling of RV-DEC-P3-0003;
\* the faults of the provider and around the daemons end at last.
Fairness ==
    /\ WF_vars(Request("sync"))
    /\ \A w \in Workers : WF_vars(Handle(w))
    /\ \A j \in Job : SF_vars(\E w \in Workers : Claim(w, j))
    /\ <>[][\A w \in Workers : Abort(w) => CursorConflict(w)]_vars

FairSpec == Spec /\ Fairness

----------------------------------------------------------------------------
(* Properties *)

Deactivation(f) == [kind |-> "deactivate", file |-> f]

\* f is deactivated, or a job that will do so waits or is under way.
Handled(f) ==
    \/ f \in deactivated
    \/ Deactivation(f) \in open
    \/ \E w \in Workers : cur[w] = Deactivation(f)

\* "Provider cursor advances only after durable processing" (the SDLC plan):
\* however many daemons read, overtake and overwrite each other's cursor, it
\* never stands behind the removal of a watched file without a deactivation
\* that is done or recorded.
NoRemovalSkipped == \A f \in watched : changed[f] < cursor => Handled(f)

\* The inductive strengthening of NoRemovalSkipped.
Syncing(w) ==
    pc[w] \in {"fetching", "fetched", "saving", "saved", "ready"} /\ cur[w].kind = "sync"

\* What the phases of a job have in common, and what its session holds in each
PhaseInv(w) ==
    /\ pc[w] = "idle" <=> cur[w] = NoJob
    /\ pc[w] \in {"fetching", "fetched", "saving", "saved"} => cur[w].kind = "sync"
    /\ pc[w] = "ready" => cur[w].kind \in {"scan", "sync"}
    /\ Syncing(w) => token[w] # NoCursor \/ (pc[w] = "fetching" /\ loaded[w] = NoCursor)
    /\ pc[w] = "ready" /\ cur[w].kind = "sync" => buf[w] \subseteq known

\* Positions do not run ahead of the feed, and jobs name documents there are.
FeedInv ==
    /\ cursor # NoCursor => cursor <= now + 1
    /\ \A w \in Workers : token[w] # NoCursor => token[w] <= now + 1
    /\ \A f \in Files : Handled(f) => f \in known

\* A sync that has read up to its token has in hand what nobody has handled.
ReadInv(w) ==
    Syncing(w) /\ token[w] # NoCursor =>
       \A f \in watched : changed[f] < token[w] => f \in buf[w] \/ Handled(f)

WatchInv ==
    /\ watched \subseteq known \ there
    /\ watched # {} =>
          cursor # NoCursor /\ \A w \in Workers : pc[w] = "fetching" => token[w] # NoCursor
    /\ NoRemovalSkipped

IInv ==
    /\ TypeOK /\ FeedInv /\ WatchInv
    /\ \A w \in Workers : PhaseInv(w) /\ ReadInv(w)

\* The document of a file that is removed while it is watched is deactivated at
\* last, unless the file comes back.
WatchedAreDeactivated ==
    \A f \in Files : f \in watched ~> (f \in deactivated \/ f \in there)
============================================================================
