---------------------------- MODULE HistoryView ----------------------------
(***************************************************************************)
(* The clipboard history the control panel shows (apps/gui/src/main.rs).   *)
(* The daemon writes the archive.  While Sharing is open and a history is  *)
(* kept, a frame may look at the archive's revision (length and time of    *)
(* change) and start a worker thread that lists it; a later frame takes    *)
(* the worker's result.                                                    *)
(***************************************************************************)
EXTENDS Naturals, FiniteSets

CONSTANTS
    ViewItems,       \* entries of the archive
    PinnedItems,     \* those of them that are pinned
    MaxRevisions,    \* bound on changes of the archive
    MaxViewFaults    \* bound on commands that fail

ASSUME HistoryViewConstants ==
    PinnedItems \subseteq ViewItems /\ MaxRevisions \in Nat /\ MaxViewFaults \in Nat

VARIABLES
    stored,      \* the archive: [rev, items]
    listed,      \* clipboard_history, the entries on the screen
    observed,    \* clipboard_history_observed_revision; MaxRevisions + 1 is None
    worker,      \* clipboard_history_refresh_rx: idle, reading, or its result
    sharing,     \* whether Sharing is the open section
    keeping,     \* config.clipboard.history_enabled, as edited on the page
    viewFaults,
    missed       \* history: a change was observed while a worker was active, or a listing failed

viewVars == <<stored, listed, observed, worker, sharing, keeping, viewFaults, missed>>

Unobserved == MaxRevisions + 1
ViewIdle == [state |-> "idle", items |-> {}]
Reading == [state |-> "reading", items |-> {}]

ViewInit ==
    /\ stored = [rev |-> 0, items |-> {}] /\ listed = {} /\ observed = Unobserved
    /\ worker = ViewIdle /\ sharing = FALSE /\ keeping \in BOOLEAN /\ viewFaults = 0 /\ missed = FALSE

\* The daemon records or drops entries.
ArchiveWritten ==
    /\ stored.rev < MaxRevisions
    /\ \E s \in SUBSET ViewItems : s # stored.items /\ stored' = [rev |-> stored.rev + 1, items |-> s]
    /\ UNCHANGED <<listed, observed, worker, sharing, keeping, viewFaults, missed>>

\* load_clipboard_history, in the worker thread: the command reads the archive,
WorkerLists ==
    /\ worker = Reading
    /\ worker' = [state |-> "parsing", items |-> stored.items]
    /\ UNCHANGED <<stored, listed, observed, sharing, keeping, viewFaults, missed>>

\* and its output is parsed and handed over.
WorkerReports ==
    /\ worker.state = "parsing"
    /\ \/ worker' = [worker EXCEPT !.state = "ok"] /\ UNCHANGED viewFaults
       \/ worker' = [state |-> "failed", items |-> {}] /\ viewFaults < MaxViewFaults /\ viewFaults' = viewFaults + 1
    /\ UNCHANGED <<stored, listed, observed, sharing, keeping, missed>>

\* Mutant of ObservedAfter: the revision is remembered when the list is taken
\* over and not when it is asked for.
ObservedLate(due) == IF worker.state = "ok" THEN stored.rev ELSE IF due THEN stored.rev ELSE observed

\* clipboard_history_refresh_needed remembers the revision it compares.
ObservedAfter(due) == IF due THEN stored.rev ELSE observed

\* refresh_clipboard_history_automatically: take the worker's result, then, when
\* a check is due, start a worker if the archive has changed and none is active.
HistoryFrame(due) ==
    LET over == worker.state \in {"ok", "failed"}
        rest == IF over THEN ViewIdle ELSE worker
        look == due /\ sharing /\ keeping
        needed == look /\ observed # stored.rev
    IN  /\ listed' = IF worker.state = "ok" THEN worker.items ELSE listed
        /\ observed' = ObservedAfter(look)
        /\ worker' = IF needed /\ rest = ViewIdle THEN Reading ELSE rest
        /\ missed' = CASE needed /\ rest # ViewIdle -> TRUE
                       [] worker.state = "failed" /\ ~needed -> TRUE
                       [] worker.state = "ok" /\ ~needed -> missed /\ worker.items # stored.items
                       [] OTHER -> missed
        /\ UNCHANGED <<stored, sharing, keeping, viewFaults>>

\* The Refresh button; an active worker is not started again.
RefreshHistory ==
    /\ sharing /\ worker' = IF worker = ViewIdle THEN Reading ELSE worker
    /\ UNCHANGED <<stored, listed, observed, sharing, keeping, viewFaults, missed>>

\* clear_clipboard_history runs the command and prunes the list by itself.
ClearHistory ==
    /\ sharing /\ stored.rev < MaxRevisions
    /\ stored' = [rev |-> stored.rev + 1, items |-> stored.items \cap PinnedItems]
    /\ listed' = listed \cap PinnedItems
    /\ UNCHANGED <<observed, worker, sharing, keeping, viewFaults, missed>>

\* restore_clipboard_entry: the command finds the entry only if it is still kept;
\* the entry becomes current again and the archive is rewritten.
RestoreEntry ==
    /\ sharing /\ stored.rev < MaxRevisions /\ listed \cap stored.items # {}
    /\ stored' = [stored EXCEPT !.rev = @ + 1]
    /\ UNCHANGED <<listed, observed, worker, sharing, keeping, viewFaults, missed>>

OpenSection ==
    /\ sharing' = ~sharing
    /\ UNCHANGED <<stored, listed, observed, worker, keeping, viewFaults, missed>>

ToggleHistory ==
    /\ sharing /\ keeping' = ~keeping
    /\ UNCHANGED <<stored, listed, observed, worker, sharing, viewFaults, missed>>

ViewNext ==
    \/ ArchiveWritten \/ WorkerLists \/ WorkerReports \/ RefreshHistory \/ ClearHistory \/ RestoreEntry
    \/ OpenSection \/ ToggleHistory
    \/ \E due \in BOOLEAN : HistoryFrame(due)

\* Workers end, and while Sharing is open and a history is kept the window repaints
\* every 250 ms and looks at the archive every 500 ms.
ViewFairness == WF_viewVars(WorkerLists) /\ WF_viewVars(WorkerReports) /\ SF_viewVars(HistoryFrame(TRUE))
ViewFairSpec == ViewInit /\ [][ViewNext]_viewVars /\ ViewFairness

-----------------------------------------------------------------------------
\* Once the revision on disk has been observed and no worker is active, the list
\* is that of the archive, whatever was written, cleared, refreshed or switched off
\* meanwhile, unless a change was observed while a worker was listing an older
\* state (see HistoryCatchesUp) or a listing failed: nothing asks again for either.
HistoryFollows ==
    observed = stored.rev /\ worker = ViewIdle /\ ~missed => listed = stored.items

\* "Keep Sharing open to see clipboard history refresh automatically as local or
\* remote copies arrive" (docs/setup-macos-apple-silicon.md): with the section open
\* and no command failing, the list is that of the archive again and again. The code
\* does not keep this: the revision of a change that arrives while a worker still
\* lists the previous one is remembered as observed, and no other listing follows.
HistoryCatchesUp == <>[](sharing /\ keeping) => []<>(listed = stored.items)
=============================================================================
