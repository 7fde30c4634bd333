----------------------------- MODULE CodexJournal -----------------------------
(***************************************************************************)
(* The files in Codex's home that the proxy changes while it runs, and the *)
(* journal from which it puts them back: src/codex/journal.ts, the file    *)
(* operations of injectCodexConfig and restoreNativeCodex in               *)
(* src/codex/inject.ts, and the commands of src/cli/index.ts that run      *)
(* them, each a process of its own. Every replacement of a file is atomic  *)
(* (atomicWriteFile); between any two of them the user may edit or the     *)
(* process may be killed, and the processes interleave where they await.   *)
(***************************************************************************)
EXTENDS CodexConfig

CONSTANTS
    Pids,       \* the processes that may run at a time
    NoPid,      \* the pid of a journal that does not exist
    NoConfig    \* no config read, and no hash in the journal

ASSUME JournalAssumption == NoPid \notin Pids /\ NoConfig \notin Configs

VARIABLES
    config,     \* config.toml
    profile,    \* opencodex.config.toml: "none", "mine", or the form we wrote it for
    journal,    \* opencodex-journal.json
    proc,       \* the processes
    edits,      \* how many edits the user has made
    exposed,    \* whether the last edit of config.toml was made where a restore cannot see it
    abandoned   \* whether routing was ever left in a file whose journal went to an external provider

files == <<config, profile, journal>>
vars == <<files, proc, edits, exposed, abandoned>>

Profiles == {"none", "mine"} \cup Forms
Daemons == {"start", "service"}
Jobs == Daemons \cup {"ensure", "sync", "restore"}
Steps == {"free", "reconcile", "check", "inject", "config", "profile", "mark", "up",
          "restore", "putBack", "unlink", "strip", "bare", "drop", "exit"}

\* What the files were, what was injected over them (no content while it is
\* not marked), and the process that wrote the journal.
NoJournal == [config |-> NoConfig, profile |-> "none", hash |-> NoConfig, marked |-> "none", pid |-> NoPid]
Journals == [config : Configs, profile : Profiles, hash : Configs \cup {NoConfig}, marked : Profiles, pid : Pids]
Exists == journal # NoJournal
Unmarked == Exists /\ journal.hash = NoConfig

Processes ==
    [job : Jobs \cup {"none"}, step : Steps,
     form : Forms, text : Configs \cup {NoConfig},  \* the routing and the text it injects
     sameConfig : BOOLEAN, sameProfile : BOOLEAN,   \* which of the files it puts back
     native : BOOLEAN,      \* whether it restores for good, or reconciles before it starts
     again : BOOLEAN]       \* whether the cleanup at its exit is still to come

Idle == [job |-> "none", step |-> "free", form |-> "root", text |-> NoConfig,
         sameConfig |-> FALSE, sameProfile |-> FALSE, native |-> FALSE, again |-> FALSE]

TypeOK ==
    /\ config \in Configs /\ profile \in Profiles /\ journal \in Journals \cup {NoJournal}
    /\ proc \in [Pids -> Processes]
    /\ edits \in 0..MaxEdits /\ exposed \in BOOLEAN /\ abandoned \in BOOLEAN

Native == [provider |-> "native", base |-> "none", tuned |-> FALSE, edit |-> 0]

Init ==
    /\ config = Native /\ profile \in {"none", "mine"} /\ journal = NoJournal
    /\ proc = [p \in Pids |-> Idle]
    /\ edits = 0 /\ exposed = FALSE /\ abandoned = FALSE

At(p, step) == proc[p].step = step
Goto(p, step) == proc' = [proc EXCEPT ![p].step = step]
Settle(p, step) == proc' = [proc EXCEPT ![p] = [Idle EXCEPT !.job = proc[p].job, !.step = step]]
Ends(p) == proc' = [proc EXCEPT ![p] = Idle]
Alive(p) == ~At(p, "free")
Busy(p) == proc[p].step \in {"config", "profile", "mark", "putBack", "unlink", "strip", "bare", "drop"}
Serving(p) == proc[p].job \in Daemons /\ Alive(p) /\ proc[p].step \notin {"reconcile", "check"}

------------------------------------------------------------------------------
(* Mutant: every injection takes a new snapshot.                           *)
WriteJournalAnew(p) ==
    journal' = [config |-> config, profile |-> profile, hash |-> NoConfig, marked |-> "none", pid |-> p]

(* writeJournal: the first one stays.                                      *)
WriteJournal(p) ==
    journal' = IF Exists THEN journal
               ELSE [config |-> config, profile |-> profile, hash |-> NoConfig, marked |-> "none", pid |-> p]

(* The commands. A daemon and "ocx ensure" first reconcile a journal that  *)
(* a dead process left; the others go straight to their work. A pid is not *)
(* given to a new process while a journal names it.                        *)
Launch(p, job) ==
    /\ At(p, "free") /\ journal.pid # p
    /\ proc' = [proc EXCEPT ![p].job = job,
                            ![p].step = CASE job = "sync" -> "inject"
                                          [] job = "restore" -> "restore"
                                          [] OTHER -> "reconcile"]
    /\ UNCHANGED <<files, edits, exposed, abandoned>>

(* Mutant: the file is put back whatever has become of it.                 *)
PutBackAnyConfig(p, forGood) ==
    /\ config' = journal.config
    /\ proc' = [proc EXCEPT ![p].step = "putBack", ![p].native = forGood,
                            ![p].sameConfig = TRUE, ![p].sameProfile = TRUE]
    /\ UNCHANGED <<profile, journal>>

(* restoreJournalState reads both files and puts config.toml back if it is *)
(* what was injected, or if the journal does not know what was.            *)
PutBackConfig(p, forGood) ==
    LET same == journal.hash = NoConfig \/ config = journal.hash IN
    /\ config' = IF same THEN journal.config ELSE config
    /\ proc' = [proc EXCEPT ![p].step = "putBack", ![p].native = forGood,
                            ![p].sameConfig = same,
                            ![p].sameProfile = (journal.hash = NoConfig \/ profile = journal.marked)]
    /\ UNCHANGED <<profile, journal>>

PutBackProfile(p) ==
    /\ At(p, "putBack")
    /\ profile' = IF proc[p].sameProfile THEN journal.profile ELSE profile
    /\ Goto(p, "unlink")
    /\ UNCHANGED <<config, journal, edits, exposed, abandoned>>

(* A command is done when it has restored; the daemon goes on to exit, or  *)
(* first to an injection that was under way when it was asked to stop.     *)
Restored(p) ==
    IF proc[p].again THEN \E step \in {"exit", "inject"} : Settle(p, step) ELSE Ends(p)

(* The journal goes when both files were put back. A restore that found    *)
(* config.toml changed goes on to strip it.                                *)
Unlink(p) ==
    /\ At(p, "unlink")
    /\ journal' = IF proc[p].sameConfig /\ proc[p].sameProfile THEN NoJournal ELSE journal
    /\ CASE ~proc[p].native -> Settle(p, "check")
         [] proc[p].native /\ ~proc[p].sameConfig -> Goto(p, "strip")
         [] OTHER -> Restored(p)
    /\ UNCHANGED <<config, profile, edits, exposed, abandoned>>

(* reconcileJournal: only the journal of a process that is gone, and not   *)
(* while Codex uses an external provider.                                  *)
MayReconcile == Exists /\ ~Alive(journal.pid) /\ ~External(config)

Reconcile(p) ==
    /\ At(p, "reconcile")
    /\ \/ MayReconcile /\ PutBackConfig(p, FALSE)
       \/ ~MayReconcile /\ Goto(p, "check") /\ UNCHANGED files
    /\ UNCHANGED <<edits, exposed, abandoned>>

(* handleStart ends if a proxy is running; otherwise it binds the port and *)
(* writes the journal.                                                     *)
SomeoneServes == \E d \in Pids : Serving(d)

Start(p) ==
    /\ At(p, "check") /\ proc[p].job \in Daemons
    /\ \/ SomeoneServes /\ Ends(p) /\ UNCHANGED journal
       \/ ~SomeoneServes /\ Goto(p, "inject")
          /\ IF External(config) THEN UNCHANGED journal ELSE WriteJournal(p)
    /\ UNCHANGED <<config, profile, edits, exposed, abandoned>>

(* handleEnsure waits for a proxy, which it may have spawned, and injects. *)
Ensured(p) ==
    /\ At(p, "check") /\ proc[p].job = "ensure" /\ SomeoneServes
    /\ Goto(p, "inject")
    /\ UNCHANGED <<files, edits, exposed, abandoned>>

------------------------------------------------------------------------------
(* An external provider ends both the injection and the restore: only the  *)
(* journal is removed.                                                     *)
LeaveToProvider ==
    /\ External(config)
    /\ journal' = NoJournal
    /\ abandoned' = (abandoned \/ Stripped(config) # config)
    /\ UNCHANGED <<config, profile>>

(* injectCodexConfig reads config.toml and writes the journal; the text it *)
(* makes of it is in config.toml, in opencodex.config.toml and in the      *)
(* journal only after three more writes.                                   *)
Synced(p) == IF proc[p].job \in Daemons THEN Settle(p, "up") ELSE Ends(p)

InjectReads(p) ==
    /\ At(p, "inject")
    /\ \/ LeaveToProvider /\ Synced(p)
       \/ /\ ~External(config)
          /\ WriteJournal(p)
          /\ \E form \in Forms :
                proc' = [proc EXCEPT ![p].step = "config", ![p].form = form, ![p].text = Injected(config, form)]
          /\ UNCHANGED <<config, profile, abandoned>>
    /\ UNCHANGED <<edits, exposed>>

InjectWritesConfig(p) ==
    /\ At(p, "config")
    /\ config' = proc[p].text
    /\ Goto(p, "profile")
    /\ UNCHANGED <<profile, journal, edits, exposed, abandoned>>

InjectWritesProfile(p) ==
    /\ At(p, "profile")
    /\ profile' = proc[p].form
    /\ Goto(p, "mark")
    /\ UNCHANGED <<config, journal, edits, exposed, abandoned>>

(* markJournalInjectedState: only the first injection is recorded.         *)
Mark(p) ==
    /\ At(p, "mark")
    /\ journal' = IF Exists /\ journal.hash = NoConfig
                  THEN [journal EXCEPT !.hash = proc[p].text, !.marked = proc[p].form] ELSE journal
    /\ Synced(p)
    /\ UNCHANGED <<config, profile, edits, exposed, abandoned>>

(* POST /api/sync.                                                         *)
SyncAgain(p) == At(p, "up") /\ Goto(p, "inject") /\ UNCHANGED <<files, edits, exposed, abandoned>>

------------------------------------------------------------------------------
(* A daemon ends on POST /api/stop, which restores first, or on a signal,  *)
(* perhaps while an injection is still fetching the catalog.               *)
MayEnd(p) == At(p, "up") \/ (At(p, "inject") /\ proc[p].job \in Daemons)

StopRequested(p) ==
    /\ MayEnd(p)
    /\ proc' = [proc EXCEPT ![p].step = "restore", ![p].again = TRUE]
    /\ UNCHANGED <<files, edits, exposed, abandoned>>

Signalled(p) == MayEnd(p) /\ Goto(p, "exit") /\ UNCHANGED <<files, edits, exposed, abandoned>>

(* syncCleanup: one that runs as a service leaves the files as they are.   *)
Cleanup(p) ==
    /\ At(p, "exit")
    /\ IF proc[p].job = "start" /\ ~External(config) THEN Settle(p, "restore") ELSE Ends(p)
    /\ UNCHANGED <<files, edits, exposed, abandoned>>

(* restoreNativeCodex: from the journal, or without one by stripping.      *)
Restore(p) ==
    /\ At(p, "restore")
    /\ \/ LeaveToProvider /\ Restored(p)
       \/ ~External(config) /\ Exists /\ PutBackConfig(p, TRUE) /\ UNCHANGED abandoned
       \/ ~External(config) /\ ~Exists /\ Goto(p, "bare") /\ UNCHANGED <<files, abandoned>>
    /\ UNCHANGED <<edits, exposed>>

(* removeCodexConfig; the profile goes too unless there was a journal.     *)
Strip(p) ==
    /\ config' = Stripped(config)
    /\ \/ At(p, "strip") /\ Restored(p)
       \/ At(p, "bare") /\ Goto(p, "drop")
    /\ UNCHANGED <<profile, journal, edits, exposed, abandoned>>

DropProfile(p) ==
    /\ At(p, "drop")
    /\ profile' = "none"
    /\ Restored(p)
    /\ UNCHANGED <<config, journal, edits, exposed, abandoned>>

(* SIGKILL, a crash, a power cut.                                          *)
Killed(p) == Alive(p) /\ Ends(p) /\ UNCHANGED <<files, edits, exposed, abandoned>>

------------------------------------------------------------------------------
(* The user edits config.toml, which may change the provider and the base  *)
(* URL.                                                                    *)
EditConfig ==
    /\ edits < MaxEdits
    /\ edits' = edits + 1
    /\ \E provider \in {config.provider, "native", "external"}, base \in {config.base, "none", "user"} :
          config' = [config EXCEPT !.provider = provider, !.base = base, !.edit = edits + 1]
    /\ exposed' = (Unmarked \/ \E p \in Pids : At(p, "config"))
    /\ UNCHANGED <<profile, journal, proc, abandoned>>

Step(p) ==
    \/ \E job \in Jobs : Launch(p, job)
    \/ Reconcile(p) \/ PutBackProfile(p) \/ Unlink(p) \/ Start(p) \/ Ensured(p)
    \/ InjectReads(p) \/ InjectWritesConfig(p) \/ InjectWritesProfile(p) \/ Mark(p) \/ SyncAgain(p)
    \/ StopRequested(p) \/ Signalled(p) \/ Cleanup(p)
    \/ Restore(p) \/ Strip(p) \/ DropProfile(p) \/ Killed(p)

\* The stretches between the awaits take milliseconds; two that overlap are not modelled.
Next == EditConfig \/ \E p \in Pids : (\A other \in Pids \ {p} : ~Busy(other)) /\ Step(p)

Spec == Init /\ [][Next]_vars

------------------------------------------------------------------------------
(* The user's last edit of config.toml is in the file, whatever commands   *)
(* restore, inject or die after it, unless it was made while a journal was *)
(* waiting for its injection: such a journal overwrites what it finds      *)
(* (journal.ts:80).                                                        *)
EditsSurvive == config.edit = edits \/ exposed

(* What the journal will put back as the user's own config.toml does not   *)
(* route to the proxy, unless the journal of an earlier routing was given  *)
(* up for an external provider (inject.ts:514).                            *)
SnapshotIsNative == Exists /\ Routes(journal.config) => abandoned

(* Wherever a command was killed and whichever followed it: unless the     *)
(* user has edited it since, config.toml is what the journal says it was,  *)
(* one injection into that, or what a strip leaves of one.                 *)
InjectionIsAccountedFor ==
    Exists /\ config.edit = journal.config.edit =>
        config \in {journal.config}
                   \cup {Injected(journal.config, form) : form \in Forms}
                   \cup {Stripped(Injected(journal.config, form)) : form \in Forms}
===============================================================================
