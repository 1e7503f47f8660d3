----------------------------- MODULE Dashboard -----------------------------
(***************************************************************************)
(* The control panel (apps/gui/src/main.rs): one window that owns up to    *)
(* one daemon, one automatic pairing command and a few file-send commands, *)
(* edits the configuration they read and shows their pairing prompts.  A   *)
(* frame (App::update) polls each child in turn and then lets the user act *)
(* once; the children run meanwhile.  A configuration is the user's last   *)
(* edit and the peers it names.  Every way a call on the operating system  *)
(* can fail (save, spawn, bind, kill, wait) costs one of MaxGuiFaults.     *)
(***************************************************************************)
EXTENDS Naturals, Sequences, FiniteSets, SequencesExt

CONSTANTS
    MaxPendingSends,   \* MAX_PENDING_FILE_SENDS
    MaxEdits, MaxRequests, MaxDrops, MaxGuiFaults   \* bounds

ASSUME DashboardConstants ==
    /\ MaxPendingSends \in Nat \ {0} /\ MaxEdits \in Nat /\ MaxRequests \in Nat
    /\ MaxDrops \in Nat /\ MaxGuiFaults \in Nat

VARIABLES
    frame,      \* what the window does next
    settings,   \* configuration: on disk, in memory, load error, restart required
    daemon,     \* the owned daemon, its output, its prompt and its standard input
    pairing,    \* the pair-auto command: stage, and whether its prompt is shown
    sends,      \* file-send commands: running, exited, dropped so far
    guiRequests,   \* pairing requests daemons have received
    guiFaults,
    paired,     \* history: peers whose pairing was reported complete
    raced,      \* history: peers that a save took out of the configuration
    crowded     \* history: requests whose prompt came with another one's outcome

guiVars == <<frame, settings, daemon, pairing, sends, guiRequests, guiFaults, paired, raced, crowded>>

-----------------------------------------------------------------------------
NoDaemon == [state |-> "none", edit |-> 0, rx |-> FALSE, out |-> <<>>, buf |-> 0,
             prompt |-> 0, asks |-> 0, doing |-> 0, stdin |-> <<>>]
OutPeer == 0   \* the peer of the pair-auto command; others are named by their request
NoPairing == [stage |-> "none", shown |-> FALSE]

\* A daemon that has ended; what the window holds of it stays.
Ended(d, ending) == [d EXCEPT !.state = ending, !.asks = 0, !.doing = 0, !.stdin = <<>>]

\* spawn_process_output_reader forwards the lines about pairing.
Prints(d, kind, r) == [d EXCEPT !.out = Append(@, [kind |-> kind, of |-> r])]

\* pairing_process_outcome
IsOutcome(kind) == kind \in {"done", "failed", "cancelled"}

World == [set |-> settings, dmn |-> daemon, faults |-> guiFaults, raced |-> raced]
GuiFaulty(w) == IF w.faults < MaxGuiFaults THEN {[w EXCEPT !.faults = @ + 1]} ELSE {}

\* The window writes its own copy of the configuration; peers that only the
\* file names are lost.
Written(w) == [w EXCEPT !.set.disk = w.set.mem @@ [readable |-> TRUE],
                        !.raced = @ \cup (w.set.disk.peers \ w.set.mem.peers)]

\* save_config and persist_config: refused after a failed load.
Saved(w) == IF w.set.err THEN {} ELSE {Written(w)}

\* start_daemon: it saves first; the port, the log, the spawn or a reader may fail.
Started(w) ==
    IF w.dmn.state # "none" \/ Saved(w) = {} THEN {w}
    ELSE GuiFaulty(w) \cup
         UNION {GuiFaulty(v) \cup
                {[v EXCEPT !.set.restart = FALSE,
                           !.dmn = [NoDaemon EXCEPT !.state = "running", !.edit = v.set.mem.edit, !.rx = TRUE]]}
                : v \in Saved(w)}

\* Mutant of Restarted: a daemon that could not be stopped is not reported.
RestartedQuietly(w) ==
    GuiFaulty(w) \cup Started([w EXCEPT !.dmn = Ended(w.dmn, "none")])

\* restart_owned_daemon; when the new one does not start, the output and the
\* prompt of the old one stay until the next start.
Restarted(w) ==
    {[v EXCEPT !.set.restart = TRUE] : v \in GuiFaulty(w)} \cup
    Started([w EXCEPT !.dmn = Ended(w.dmn, "none")])

\* apply_runtime_change
Applied(w) == IF w.dmn.state = "none" THEN {[w EXCEPT !.set.restart = TRUE]} ELSE Restarted(w)

\* finish_automatic_pairing: the configuration is read again.
Finished(w) ==
    IF ~w.set.disk.readable THEN {w}
    ELSE GuiFaulty(w) \cup
         Applied([w EXCEPT !.set.mem = [edit |-> w.set.disk.edit, peers |-> w.set.disk.peers],
                           !.set.err = FALSE])

Becomes(w) ==
    settings' = w.set /\ daemon' = w.dmn /\ guiFaults' = w.faults /\ raced' = w.raced

-----------------------------------------------------------------------------
GuiInit ==
    \E readable \in BOOLEAN :
        LET empty == [edit |-> 0, peers |-> {}] IN
        /\ settings = [disk |-> empty @@ [readable |-> readable], mem |-> empty,
                       err |-> ~readable, restart |-> FALSE]
        /\ frame = "state" /\ daemon = NoDaemon /\ pairing = NoPairing
        /\ sends = [running |-> 0, exited |-> 0, dropped |-> 0]
        /\ guiRequests = 0 /\ guiFaults = 0 /\ paired = {} /\ raced = {} /\ crowded = {}

-----------------------------------------------------------------------------
\* The children.  An answer in the pipe is read by whichever request asks next.
DaemonAsks ==
    /\ daemon.state = "running" /\ daemon.asks = 0 /\ daemon.doing = 0 /\ guiRequests < MaxRequests
    /\ guiRequests' = guiRequests + 1
    /\ daemon' = Prints([daemon EXCEPT !.asks = guiRequests'], "ask", guiRequests')
    /\ UNCHANGED <<frame, settings, pairing, sends, guiFaults, paired, raced, crowded>>

DaemonReadsAnswer ==
    /\ daemon.asks # 0 /\ daemon.stdin # <<>>
    /\ daemon' = [daemon EXCEPT !.asks = 0, !.doing = daemon.asks, !.stdin = Tail(@)]
    /\ UNCHANGED <<frame, settings, pairing, sends, guiRequests, guiFaults, paired, raced, crowded>>

DaemonConcludes(kind) ==
    /\ daemon.doing # 0
    /\ kind = "done" => settings.disk.readable
    /\ daemon' = Prints([daemon EXCEPT !.doing = 0], kind, daemon.doing)
    /\ IF kind = "done"
       THEN /\ settings' = [settings EXCEPT !.disk.peers = @ \cup {daemon.doing}]
            /\ paired' = paired \cup {daemon.doing}
       ELSE UNCHANGED <<settings, paired>>
    /\ UNCHANGED <<frame, pairing, sends, guiRequests, guiFaults, raced, crowded>>

DaemonDies ==
    /\ daemon.state = "running" /\ guiFaults < MaxGuiFaults
    /\ daemon' = Ended(daemon, "exited") /\ guiFaults' = guiFaults + 1
    /\ UNCHANGED <<frame, settings, pairing, sends, guiRequests, paired, raced, crowded>>

\* pair-auto: it asks, saves after an approval, and exits.
PairAutoMoves(from, to) ==
    /\ pairing.stage = from
    /\ to = "saved" => settings.disk.readable
    /\ pairing' = [pairing EXCEPT !.stage = to]
    /\ settings' = IF to = "saved" THEN [settings EXCEPT !.disk.peers = @ \cup {OutPeer}]
                   ELSE IF from = "saved" /\ to = "failed" THEN [settings EXCEPT !.disk.peers = @ \ {OutPeer}]
                   ELSE settings
    /\ paired' = IF to = "complete" THEN paired \cup {OutPeer} ELSE paired
    /\ UNCHANGED <<frame, daemon, sends, guiRequests, guiFaults, raced, crowded>>

PairAuto ==
    \E m \in {<<"connecting", "asking">>, <<"connecting", "failed">>, <<"approved", "saved">>,
              <<"approved", "failed">>, <<"saved", "complete">>, <<"saved", "failed">>,
              <<"rejected", "cancelled">>} : PairAutoMoves(m[1], m[2])

SendExits ==
    /\ sends.running > 0
    /\ sends' = [sends EXCEPT !.running = @ - 1, !.exited = @ + 1]
    /\ UNCHANGED <<frame, settings, daemon, pairing, guiRequests, guiFaults, paired, raced, crowded>>

-----------------------------------------------------------------------------
\* refresh_daemon_state
RefreshDaemonState ==
    /\ frame = "state" /\ frame' = "output"
    /\ daemon' = IF daemon.state = "exited" THEN NoDaemon ELSE daemon
    /\ UNCHANGED <<settings, pairing, sends, guiRequests, guiFaults, paired, raced, crowded>>

\* The loop of refresh_daemon_output over the events read at once.  A prompt is
\* looked for after every line of standard error while none is shown, so that a
\* later line in the same batch forgets the one that was found.
ReadLine(acc, e) ==
    LET buf == IF e.kind = "ask" THEN e.of ELSE acc.buf
        onStderr == e.kind \in {"ask", "failed"}
    IN  [kinds |-> acc.kinds \cup {e.kind},
         buf   |-> IF onStderr /\ daemon.prompt = 0 THEN 0 ELSE buf,
         found |-> IF onStderr /\ daemon.prompt = 0 THEN buf ELSE acc.found]

ReadBatch == FoldLeft(ReadLine, [kinds |-> {}, buf |-> daemon.buf, found |-> 0], daemon.out)

AskedIn(events) == {e.of : e \in {x \in ToSet(events) : x.kind = "ask"}}

\* refresh_daemon_output: any outcome in the batch takes the prompt away.
RefreshDaemonOutput ==
    /\ frame = "output" /\ frame' = "pairing"
    /\ IF ~daemon.rx THEN UNCHANGED <<settings, daemon, guiFaults, raced, crowded>>
       ELSE LET b == ReadBatch
                over == \E k \in b.kinds : IsOutcome(k)
                w == [World EXCEPT !.dmn.out = <<>>, !.dmn.buf = b.buf,
                          !.dmn.prompt = IF over THEN 0 ELSE IF b.found # 0 THEN b.found ELSE @]
            IN  /\ \E v \in (IF "done" \in b.kinds THEN Finished(w) ELSE {w}) : Becomes(v)
                /\ crowded' = IF over THEN crowded \cup AskedIn(daemon.out) ELSE crowded
    /\ UNCHANGED <<pairing, sends, guiRequests, paired>>

\* refresh_automatic_pairing: the command is let go once it has exited and its
\* output has been read; if it cannot be waited for, it is terminated.
RefreshAutomaticPairing ==
    /\ frame = "pairing" /\ frame' = "sends"
    /\ \/ /\ pairing.stage \in {"complete", "cancelled", "failed"}
          /\ pairing' = NoPairing
          /\ \E v \in (IF pairing.stage = "complete" THEN Finished(World) ELSE {World}) : Becomes(v)
       \/ /\ pairing.stage \notin {"complete", "cancelled", "failed"}
          /\ pairing' = [pairing EXCEPT !.shown = @ \/ pairing.stage = "asking"]
          /\ UNCHANGED <<settings, daemon, guiFaults, raced>>
       \/ /\ pairing.stage # "none" /\ pairing' = NoPairing
          /\ \E v \in GuiFaulty(World) : Becomes(v)
    /\ UNCHANGED <<sends, guiRequests, paired, crowded>>

\* refresh_pending_file_sends
RefreshPendingFileSends ==
    /\ frame = "sends" /\ frame' = "user"
    /\ sends' = [sends EXCEPT !.exited = 0]
    /\ UNCHANGED <<settings, daemon, pairing, guiRequests, guiFaults, paired, raced, crowded>>

-----------------------------------------------------------------------------
\* The user, once per frame.
UserActs == frame = "user" /\ frame' = "state"

Nothing == UserActs /\ UNCHANGED <<settings, daemon, pairing, sends, guiRequests, guiFaults, paired, raced, crowded>>

\* A page edits the copy in memory.
EditSettings ==
    /\ UserActs /\ settings.mem.edit < MaxEdits
    /\ settings' = [settings EXCEPT !.mem.edit = @ + 1]
    /\ UNCHANGED <<daemon, pairing, sends, guiRequests, guiFaults, paired, raced, crowded>>

\* save_config and save_sharing_config, start_daemon, and apply_runtime_change
\* after a manual pairing.
PressButton ==
    /\ UserActs
    /\ \E v \in UNION {Applied(s) : s \in Saved(World)} \cup Started(World) \cup Applied(World) : Becomes(v)
    /\ UNCHANGED <<pairing, sends, guiRequests, paired, crowded>>

\* stop_daemon lets the handle go, also of a daemon that could not be stopped.
StopDaemon ==
    /\ UserActs /\ daemon.state # "none"
    /\ \E v \in {World} \cup GuiFaulty(World) : Becomes([v EXCEPT !.dmn = NoDaemon])
    /\ UNCHANGED <<pairing, sends, guiRequests, paired, crowded>>

\* Mutant of Answered: the prompt stays after the answer.
AnsweredAgain(d) == [d EXCEPT !.stdin = IF d.state = "running" THEN Append(@, d.prompt) ELSE @]

\* submit_daemon_pairing_approval
Answered(d) == [d EXCEPT !.stdin = IF d.state = "running" THEN Append(@, d.prompt) ELSE @, !.prompt = 0]

AnswerDaemon ==
    /\ UserActs /\ daemon.prompt # 0 /\ daemon' = Answered(daemon)
    /\ UNCHANGED <<settings, pairing, sends, guiRequests, guiFaults, paired, raced, crowded>>

\* start_automatic_pairing, submit_automatic_pairing_approval, cancel_automatic_pairing
StartPairing ==
    /\ UserActs /\ pairing = NoPairing /\ OutPeer \notin paired
    /\ pairing' = [stage |-> "connecting", shown |-> FALSE]
    /\ UNCHANGED <<settings, daemon, sends, guiRequests, guiFaults, paired, raced, crowded>>

AnswerPairing ==
    /\ UserActs /\ pairing.shown
    /\ \E s \in {"approved", "rejected"} :
          pairing' = [stage |-> IF pairing.stage = "asking" THEN s ELSE pairing.stage, shown |-> FALSE]
    /\ UNCHANGED <<settings, daemon, sends, guiRequests, guiFaults, paired, raced, crowded>>

CancelPairing ==
    /\ UserActs /\ pairing.stage # "none" /\ pairing' = NoPairing
    /\ UNCHANGED <<settings, daemon, sends, guiRequests, guiFaults, paired, raced, crowded>>

\* handle_dropped_files
DropFiles ==
    /\ UserActs /\ sends.dropped < MaxDrops /\ sends.running + sends.exited < MaxPendingSends
    /\ sends' = [sends EXCEPT !.running = @ + 1, !.dropped = @ + 1]
    /\ UNCHANGED <<settings, daemon, pairing, guiRequests, guiFaults, paired, raced, crowded>>

\* Drop for NexkvmGui: file sends go on by themselves.
CloseWindow ==
    /\ frame = "user" /\ frame' = "closed"
    /\ pairing' = NoPairing
    /\ \E v \in {World} \cup GuiFaulty(World) : Becomes([v EXCEPT !.dmn = NoDaemon])
    /\ UNCHANGED <<sends, guiRequests, paired, crowded>>

GuiNext ==
    \/ DaemonAsks \/ DaemonReadsAnswer \/ DaemonDies \/ PairAuto \/ SendExits
    \/ \E kind \in {"done", "failed", "cancelled"} : DaemonConcludes(kind)
    \/ RefreshDaemonState \/ RefreshDaemonOutput \/ RefreshAutomaticPairing \/ RefreshPendingFileSends
    \/ Nothing \/ EditSettings \/ PressButton \/ StopDaemon \/ AnswerDaemon
    \/ StartPairing \/ AnswerPairing \/ CancelPairing \/ DropFiles \/ CloseWindow

GuiSpec == GuiInit /\ [][GuiNext]_guiVars

-----------------------------------------------------------------------------
GuiTypeOK ==
    /\ frame \in {"state", "output", "pairing", "sends", "user", "closed"}
    /\ daemon.state \in {"none", "running", "exited"} /\ daemon.prompt \in 0..MaxRequests
    /\ sends.running + sends.exited <= MaxPendingSends /\ guiFaults \in 0..MaxGuiFaults

\* What the user confirms is what the daemon asks: a prompt on the screen, or an
\* answer still in the pipe, is for the request the daemon waits on, through
\* restarts, failed restarts and crashes of the daemon (restart_owned_daemon).
AnswersMatchRequests ==
    /\ daemon.state = "running" /\ daemon.prompt # 0 => daemon.asks = daemon.prompt
    /\ \A i \in DOMAIN daemon.stdin : i = 1 /\ daemon.stdin[1] = daemon.asks

\* The request the daemon waits on has its prompt on the screen, in the output not
\* yet read, or its answer in the pipe.
Asked == daemon.asks \in {daemon.prompt} \cup AskedIn(daemon.out) \cup ToSet(daemon.stdin)

\* "Both GUIs show the peer identity, fingerprint, and six-digit code"
\* (docs/setup-macos-apple-silicon.md): the user of a daemon the window owns is put
\* every request it waits on. The code does not keep this when a prompt is read
\* together with the outcome of an earlier request.
PromptsVisible == daemon.state = "running" /\ daemon.asks # 0 => Asked

\* No other interleaving of frames, answers, restarts and crashes loses a prompt.
PromptsKept ==
    daemon.state = "running" /\ daemon.asks # 0 => Asked \/ daemon.asks \in crowded

\* A running daemon has the settings on disk, or the window says that a restart
\* is required (apply_runtime_change, start_daemon).
DaemonUpToDate ==
    daemon.state = "running" /\ daemon.edit # settings.disk.edit => settings.restart

\* A configuration that could not be loaded is never overwritten, and a completed
\* pairing disappears from it only when the window saved the copy it had loaded
\* before (save_config, finish_automatic_pairing).
ConfigurationKept ==
    /\ ~settings.disk.readable => settings.err /\ settings.disk.edit = 0
    /\ paired \ settings.disk.peers \subseteq raced

\* What the panel shows, answers and writes while its children and files move.
DashboardSound ==
    GuiTypeOK /\ AnswersMatchRequests /\ PromptsKept /\ DaemonUpToDate /\ ConfigurationKept
=============================================================================
