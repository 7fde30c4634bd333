---------------------------- MODULE JournalProofs ----------------------------
(***************************************************************************)
(* What the runs of CodexJournal check on two processes and two edits, for *)
(* any number of both.                                                     *)
(***************************************************************************)
EXTENDS CodexJournal, TLAPS

\* A file without routing of ours, in force or not.
Clean(c) == c.provider # "opencodex" /\ c.base # "opencodex"

Accounted(c, of) ==
    c \in {of} \cup {Injected(of, form) : form \in Forms} \cup {Stripped(Injected(of, form)) : form \in Forms}

Has(j) == j # NoJournal

\* The files. Arguments: config.toml, the journal, the edits, exposed, abandoned.
FilesOK(c, j, e, x, a) ==
    /\ c.edit <= e
    /\ c.edit = e \/ x
    /\ Clean(c) \/ c.tuned
    /\ ~Has(j) => Clean(c) \/ a
    /\ Has(j) =>
          /\ j.config.provider # "external"
          /\ j.config.edit <= e
          /\ Clean(j.config) \/ a
          /\ Clean(j.config) \/ j.config.tuned
          /\ j.hash = NoConfig => j.config.edit = e \/ x
          /\ j.hash # NoConfig =>
                /\ j.hash.edit <= e
                /\ j.hash.edit = j.config.edit \/ x \/ j.hash.edit < e
          /\ c.edit = j.config.edit => Accounted(c, j.config)

\* A process in the middle of its work on the files.
ProcOK(r, c, j, e, x, a) ==
    /\ r.step \in {"config", "profile", "mark"} =>
          /\ Has(j) /\ r.text \in Configs /\ r.text.edit <= e
    /\ r.step = "config" =>
          /\ r.text.edit = e \/ x
          /\ r.text.tuned
          /\ r.text.edit = j.config.edit => Accounted(r.text, j.config)
    /\ r.step \in {"putBack", "unlink"} => Has(j) /\ (r.sameConfig => Clean(c) \/ a)
    /\ r.step \in {"bare", "drop"} => ~Has(j)

Exclusive == \A p, q \in Pids : Busy(p) /\ Busy(q) => p = q

Inv ==
    /\ TypeOK /\ Exclusive
    /\ FilesOK(config, journal, edits, exposed, abandoned)
    /\ \A p \in Pids : ProcOK(proc[p], config, journal, edits, exposed, abandoned)

------------------------------------------------------------------------------
(* The texts.                                                              *)
LEMMA StrippedText ==
    ASSUME NEW c \in Configs
    PROVE  /\ Stripped(c) \in Configs /\ Clean(Stripped(c))
           /\ Stripped(c).edit = c.edit /\ Stripped(c).tuned = c.tuned
           /\ Clean(c) => Stripped(c) = c
           /\ Stripped(c) = c => Clean(c)
  BY DEF Stripped, Configs, Clean

(* A text free of our routing stays so when fast mode is set in it.        *)
LEMMA TunedText ==
    ASSUME NEW c \in Configs, Clean(c)
    PROVE  /\ [c EXCEPT !.tuned = TRUE] \in Configs /\ Clean([c EXCEPT !.tuned = TRUE])
           /\ [c EXCEPT !.tuned = TRUE].edit = c.edit /\ [c EXCEPT !.tuned = TRUE].tuned
           /\ [[c EXCEPT !.tuned = TRUE] EXCEPT !.tuned = TRUE] = [c EXCEPT !.tuned = TRUE]
           /\ c.tuned => [c EXCEPT !.tuned = TRUE] = c
  BY DEF Configs, Clean

(* The provider table of an injection is taken out again by the stripping. *)
LEMMA TabledText ==
    ASSUME NEW c \in Configs, Clean(c), c.tuned, c.provider = "native",
           NEW d, d = [c EXCEPT !.provider = "opencodex"]
    PROVE  d \in Configs /\ d.edit = c.edit /\ d.tuned /\ Stripped(d) = c
<1>1. d \in Configs /\ d.edit = c.edit /\ d.provider = "opencodex" /\ d.base = c.base
  BY DEF Configs
<1>3. d.tuned
  <2>1. d.tuned = c.tuned
    BY DEF Configs
  <2> QED  BY <2>1
<1>2. Stripped(d) = [d EXCEPT !.provider = "native"]
  BY <1>1 DEF Stripped, Clean, Configs
<1>4. [d EXCEPT !.provider = "native"] = c
  <2>1. \A y \in Configs : y.provider = "native" =>
           [[y EXCEPT !.provider = "opencodex"] EXCEPT !.provider = "native"] = y
    BY DEF Configs
  <2> QED  BY <2>1
<1> QED  BY <1>1, <1>2, <1>3, <1>4

(* So is the base URL of an injection at the root.                         *)
LEMMA RootedText ==
    ASSUME NEW c \in Configs, Clean(c), c.tuned, c.base = "none",
           NEW d, d = [c EXCEPT !.base = "opencodex"]
    PROVE  d \in Configs /\ d.edit = c.edit /\ d.tuned /\ Stripped(d) = c
<1>1. d \in Configs /\ d.edit = c.edit /\ d.provider = c.provider /\ d.base = "opencodex"
  BY DEF Configs
<1>3. d.tuned
  <2>1. d.tuned = c.tuned
    BY DEF Configs
  <2> QED  BY <2>1
<1>2. Stripped(d) = [d EXCEPT !.base = "none"]
  BY <1>1 DEF Stripped, Clean, Configs
<1>4. [d EXCEPT !.base = "none"] = c
  <2>1. \A y \in Configs : y.base = "none" =>
           [[y EXCEPT !.base = "opencodex"] EXCEPT !.base = "none"] = y
    BY DEF Configs
  <2> QED  BY <2>1
<1> QED  BY <1>1, <1>2, <1>3, <1>4

(* An injection keeps what the user wrote, and stripping it leaves the     *)
(* text it began from.                                                     *)
LEMMA InjectedText ==
    ASSUME NEW c \in Configs, NEW form \in Forms, c.provider # "external"
    PROVE  /\ Injected(c, form) \in Configs
           /\ Injected(c, form).edit = c.edit /\ Injected(c, form).tuned
           /\ Stripped(Injected(c, form)) = [Stripped(c) EXCEPT !.tuned = TRUE]
<1> DEFINE clean == [Stripped(c) EXCEPT !.tuned = TRUE]
<1>1. /\ clean \in Configs /\ Clean(clean) /\ clean.edit = c.edit /\ clean.tuned
      /\ Stripped(clean) = clean
  BY StrippedText, TunedText
<1>2. clean.provider = "native"
  BY StrippedText DEF Stripped, Configs
<1>3. CASE form = "table"
  <2>1. Injected(c, form) = [clean EXCEPT !.provider = "opencodex"]
    BY <1>3 DEF Injected
  <2> HIDE DEF clean
  <2>2. /\ Injected(c, form) \in Configs /\ Injected(c, form).edit = clean.edit
        /\ Injected(c, form).tuned /\ Stripped(Injected(c, form)) = clean
    BY <1>1, <1>2, <2>1, TabledText
  <2> QED  BY <1>1, <2>2 DEF clean
<1>4. CASE form = "root" /\ clean.base = "none"
  <2>1. Injected(c, form) = [clean EXCEPT !.base = "opencodex"]
    BY <1>4 DEF Injected
  <2> HIDE DEF clean
  <2>2. /\ Injected(c, form) \in Configs /\ Injected(c, form).edit = clean.edit
        /\ Injected(c, form).tuned /\ Stripped(Injected(c, form)) = clean
    BY <1>1, <1>4, <2>1, RootedText
  <2> QED  BY <1>1, <2>2 DEF clean
<1>5. CASE form = "root" /\ clean.base # "none"
  <2>1. Injected(c, form) = clean
    BY <1>5 DEF Injected
  <2> QED  BY <1>1, <2>1
<1> QED  BY <1>3, <1>4, <1>5 DEF Forms

(* An injection takes nothing from an earlier one.                         *)
LEMMA InjectedAgain ==
    ASSUME NEW c \in Configs, NEW d \in Configs, NEW form \in Forms, Accounted(d, c), c.provider # "external"
    PROVE  Injected(d, form) = Injected(c, form)
<1> DEFINE T(y) == [Stripped(y) EXCEPT !.tuned = TRUE]
<1>1. T(d) = T(c)
  <2>1. CASE d = c
    BY <2>1
  <2>2. ASSUME NEW g \in Forms, d = Injected(c, g)
        PROVE  T(d) = T(c)
    <3>1. Stripped(d) = T(c)
      BY <2>2, InjectedText
    <3>2. Stripped(c) \in Configs /\ Clean(Stripped(c))
      BY StrippedText
    <3> QED  BY <3>1, <3>2, TunedText
  <2>3. ASSUME NEW g \in Forms, d = Stripped(Injected(c, g))
        PROVE  T(d) = T(c)
    <3>1. d = T(c)
      BY <2>3, InjectedText
    <3>2. Stripped(c) \in Configs /\ Clean(Stripped(c))
      BY StrippedText
    <3>3. Clean(d)
      BY <3>1, <3>2, TunedText
    <3>4. Stripped(d) = d
      BY <3>3, StrippedText
    <3> QED  BY <3>1, <3>2, <3>4, TunedText
  <2> QED  BY <2>1, <2>2, <2>3 DEF Accounted
<1> QED  BY <1>1 DEF Injected

(* What a strip leaves of an accounted text is accounted.                  *)
LEMMA StrippedAgain ==
    ASSUME NEW c \in Configs, NEW d \in Configs, Accounted(d, c), Clean(c) \/ c.tuned, c.provider # "external"
    PROVE  Accounted(Stripped(d), c)
<1>1. CASE d = c /\ Clean(c)
  BY <1>1, StrippedText DEF Accounted
<1>2. CASE d = c /\ c.tuned
  <2>1. "root" \in Forms
    BY DEF Forms
  <2>2. Stripped(c) = Stripped(Injected(c, "root"))
    <3>1. Stripped(c) \in Configs /\ Clean(Stripped(c)) /\ Stripped(c).tuned
      BY <1>2, StrippedText
    <3>2. [Stripped(c) EXCEPT !.tuned = TRUE] = Stripped(c)
      BY <3>1, TunedText
    <3> QED  BY <2>1, <3>2, InjectedText
  <2> QED  BY <1>2, <2>1, <2>2 DEF Accounted
<1>3. ASSUME NEW g \in Forms, d = Injected(c, g)
      PROVE  Accounted(Stripped(d), c)
  BY <1>3 DEF Accounted
<1>4. ASSUME NEW g \in Forms, d = Stripped(Injected(c, g))
      PROVE  Accounted(Stripped(d), c)
  <2>1. Injected(c, g) \in Configs
    BY InjectedText
  <2>2. Stripped(d) = d
    BY <1>4, <2>1, StrippedText
  <2> QED  BY <2>2
<1> QED  BY <1>1, <1>2, <1>3, <1>4 DEF Accounted

------------------------------------------------------------------------------
(* The steps of a process.                                                 *)
Working == {"config", "profile", "mark", "putBack", "unlink", "bare", "drop"}

(* A process that does nothing.                                            *)
LEMMA IdleTyped == Idle \in Processes
<1>1. "root" \in Forms /\ "none" \in Jobs \cup {"none"} /\ "free" \in Steps
  BY DEF Forms, Steps
<1> QED  BY <1>1 DEF Idle, Processes

(* A journal that exists holds a text.                                     *)
LEMMA JournalTyped ==
    ASSUME TypeOK, Exists
    PROVE  journal \in Journals /\ journal.config \in Configs
  BY DEF TypeOK, Exists, Journals

(* A process keeps what it knows when it goes on.                          *)
LEMMA GoneOn ==
    ASSUME TypeOK, NEW p \in Pids, NEW step \in Steps, Goto(p, step)
    PROVE  \E r \in Processes :
              /\ proc' = [proc EXCEPT ![p] = r]
              /\ r.step = step /\ r.text = proc[p].text
              /\ r.sameConfig = proc[p].sameConfig
<1>1. [proc[p] EXCEPT !.step = step] \in Processes
  BY DEF TypeOK, Processes
<1>2. proc[p] \in Processes
  BY DEF TypeOK
<1>3. [proc[p] EXCEPT !.step = step].sameConfig = proc[p].sameConfig
  BY <1>2 DEF Processes
<1>4. /\ [proc[p] EXCEPT !.step = step].step = step
      /\ [proc[p] EXCEPT !.step = step].text = proc[p].text
  BY <1>2 DEF Processes
<1>5. proc' = [proc EXCEPT ![p] = [proc[p] EXCEPT !.step = step]]
  BY DEF Goto, TypeOK
<1> QED  BY <1>1, <1>3, <1>4, <1>5

(* A process that settles goes to the step it settles on.                  *)
LEMMA Settled ==
    ASSUME TypeOK, NEW p \in Pids, NEW step \in Steps, Settle(p, step)
    PROVE  \E r \in Processes : proc' = [proc EXCEPT ![p] = r] /\ r.step = step
<1>1. Idle \in Processes /\ proc[p] \in Processes
  BY IdleTyped DEF TypeOK
<1>2. /\ [Idle EXCEPT !.job = proc[p].job, !.step = step] \in Processes
      /\ [Idle EXCEPT !.job = proc[p].job, !.step = step].step = step
  BY <1>1 DEF Processes
<1> QED  BY <1>2 DEF Settle

(* A process that ends is free.                                            *)
LEMMA Ended ==
    ASSUME NEW p \in Pids, Ends(p)
    PROVE  \E r \in Processes : proc' = [proc EXCEPT ![p] = r] /\ r.step = "free"
  BY IdleTyped DEF Ends, Idle

(* A process that is not at work on the files is bound to nothing.         *)
LEMMA AtRest ==
    ASSUME NEW r, r.step \notin Working, NEW c, NEW j, NEW e, NEW x, NEW a
    PROVE  ProcOK(r, c, j, e, x, a)
  BY DEF ProcOK, Working

(* While one process steps, none of the others is at work on the files.    *)
LEMMA StepKeepsInv ==
    ASSUME Inv, NEW p \in Pids, \A other \in Pids \ {p} : ~Busy(other),
           NEW r \in Processes, proc' = [proc EXCEPT ![p] = r],
           config' \in Configs, profile' \in Profiles, journal' \in Journals \cup {NoJournal},
           abandoned' \in BOOLEAN, UNCHANGED <<edits, exposed>>,
           FilesOK(config', journal', edits, exposed, abandoned'),
           ProcOK(r, config', journal', edits, exposed, abandoned')
    PROVE  Inv'
<1>1. proc' \in [Pids -> Processes] /\ proc'[p] = r /\ \A q \in Pids \ {p} : proc'[q] = proc[q]
  BY DEF Inv, TypeOK
<1>2. TypeOK'
  BY <1>1 DEF Inv, TypeOK
<1>3. \A q \in Pids \ {p} : ~Busy(q)'
  BY <1>1 DEF Busy
<1>4. Exclusive'
  BY <1>3 DEF Exclusive
<1>5. FilesOK(config', journal', edits', exposed', abandoned')
  OBVIOUS
<1>6. ASSUME NEW q \in Pids
      PROVE  ProcOK(proc'[q], config', journal', edits', exposed', abandoned')
  <2>1. CASE q = p
    BY <1>1, <2>1
  <2>2. CASE q # p
    <3>1. proc'[q].step \notin Working
      BY <1>3, <2>2 DEF Busy, Working
    <3> QED  BY <3>1, AtRest
  <2> QED  BY <2>1, <2>2
<1> QED  BY <1>2, <1>4, <1>5, <1>6 DEF Inv

(* A step that touches no file and ends between two stretches of work.     *)
LEMMA RestKeepsInv ==
    ASSUME Inv, NEW p \in Pids, \A other \in Pids \ {p} : ~Busy(other),
           NEW r \in Processes, proc' = [proc EXCEPT ![p] = r], r.step \notin Working,
           UNCHANGED <<files, edits, exposed, abandoned>>
    PROVE  Inv'
<1>1. FilesOK(config', journal', edits, exposed, abandoned')
  BY DEF Inv, files
<1>2. ProcOK(r, config', journal', edits, exposed, abandoned')
  BY AtRest
<1> QED  BY <1>1, <1>2, StepKeepsInv DEF Inv, TypeOK, files

(* What a process does between two stretches of work.                      *)
LEMMA GoingToRest ==
    ASSUME Inv, NEW p \in Pids, \A other \in Pids \ {p} : ~Busy(other),
           NEW step \in Steps \ Working, UNCHANGED <<files, edits, exposed, abandoned>>,
           Goto(p, step) \/ Settle(p, step) \/ Ends(p)
    PROVE  Inv'
<1>1. TypeOK /\ "free" \notin Working
  BY DEF Inv, Working
<1>2. CASE Goto(p, step)
  <2>1. PICK r \in Processes : proc' = [proc EXCEPT ![p] = r] /\ r.step = step
    BY <1>1, <1>2, GoneOn
  <2> QED  BY <2>1, RestKeepsInv
<1>3. CASE Settle(p, step)
  <2>1. PICK r \in Processes : proc' = [proc EXCEPT ![p] = r] /\ r.step = step
    BY <1>1, <1>3, Settled
  <2> QED  BY <2>1, RestKeepsInv
<1>4. CASE Ends(p)
  <2>1. PICK r \in Processes : proc' = [proc EXCEPT ![p] = r] /\ r.step = "free"
    BY <1>4, Ended
  <2> QED  BY <1>1, <2>1, RestKeepsInv
<1> QED  BY <1>2, <1>3, <1>4

(* A command is launched.                                                  *)
LEMMA LaunchKeepsInv ==
    ASSUME Inv, NEW p \in Pids, \A other \in Pids \ {p} : ~Busy(other),
           NEW job \in Jobs, Launch(p, job)
    PROVE  Inv'
<1> DEFINE step == CASE job = "sync" -> "inject" [] job = "restore" -> "restore" [] OTHER -> "reconcile"
           r == [proc[p] EXCEPT !.job = job, !.step = step]
<1>1. step \in Steps \ Working
  BY DEF Steps, Working
<1>2. proc[p] \in Processes
  BY DEF Inv, TypeOK
<1>3. proc' = [proc EXCEPT ![p] = r] /\ UNCHANGED <<files, edits, exposed, abandoned>>
  BY DEF Launch
<1> HIDE DEF step
<1>4. r \in Processes /\ r.step = step
  BY <1>1, <1>2 DEF Processes
<1> HIDE DEF r
<1> QED  BY <1>1, <1>3, <1>4, RestKeepsInv

(* A stop is asked for over HTTP.                                          *)
LEMMA StopKeepsInv ==
    ASSUME Inv, NEW p \in Pids, \A other \in Pids \ {p} : ~Busy(other), StopRequested(p)
    PROVE  Inv'
<1> DEFINE r == [proc[p] EXCEPT !.step = "restore", !.again = TRUE]
<1>1. proc[p] \in Processes /\ "restore" \in Steps \ Working
  BY DEF Inv, TypeOK, Steps, Working
<1>2. proc' = [proc EXCEPT ![p] = r] /\ UNCHANGED <<files, edits, exposed, abandoned>>
  BY DEF StopRequested
<1>3. r \in Processes /\ r.step = "restore"
  BY <1>1 DEF Processes
<1> HIDE DEF r
<1> QED  BY <1>1, <1>2, <1>3, RestKeepsInv

(* The steps that leave the files alone.                                   *)
LEMMA QuietKeepsInv ==
    ASSUME Inv, NEW p \in Pids, \A other \in Pids \ {p} : ~Busy(other),
           Ensured(p) \/ SyncAgain(p) \/ Signalled(p) \/ Cleanup(p) \/ Killed(p)
    PROVE  Inv'
<1>1. {"inject", "exit", "restore", "free"} \subseteq Steps \ Working
  BY DEF Steps, Working
<1>2. UNCHANGED <<files, edits, exposed, abandoned>>
  BY DEF Ensured, SyncAgain, Signalled, Cleanup, Killed
<1>3. CASE Ensured(p) \/ SyncAgain(p)
  BY <1>1, <1>2, <1>3, GoingToRest DEF Ensured, SyncAgain
<1>4. CASE Signalled(p)
  BY <1>1, <1>2, <1>4, GoingToRest DEF Signalled
<1>5. CASE Cleanup(p)
  BY <1>1, <1>2, <1>5, GoingToRest DEF Cleanup
<1>6. CASE Killed(p)
  BY <1>1, <1>2, <1>6, GoingToRest DEF Killed
<1> QED  BY <1>3, <1>4, <1>5, <1>6

------------------------------------------------------------------------------
(* The journal.                                                            *)
LEMMA JournalWritten ==
    ASSUME Inv, NEW p \in Pids, ~External(config), WriteJournal(p)
    PROVE  /\ journal' \in Journals /\ Has(journal')
           /\ FilesOK(config, journal', edits, exposed, abandoned)
<1> DEFINE new == [config |-> config, profile |-> profile, hash |-> NoConfig, marked |-> "none", pid |-> p]
<1>1. config \in Configs /\ profile \in Profiles /\ NoConfig \notin Configs
  BY JournalAssumption DEF Inv, TypeOK
<1>2. CASE Exists
  BY <1>2, JournalTyped DEF Inv, WriteJournal, Exists, Has
<1>3. CASE ~Exists
  <2>1. journal' = new
    BY <1>3 DEF WriteJournal
  <2>2. new \in Journals
    BY <1>1 DEF Journals, Profiles
  <2>3. new # NoJournal
    <3>1. new.config # NoJournal.config
      BY <1>1 DEF NoJournal
    <3> QED  BY <3>1
  <2>4. FilesOK(config, new, edits, exposed, abandoned)
    <3>1. new.config = config /\ new.hash = NoConfig
      OBVIOUS
    <3> HIDE DEF new
    <3>2. FilesOK(config, journal, edits, exposed, abandoned) /\ ~Has(journal)
      BY <1>3 DEF Inv, Has, Exists
    <3>3. Accounted(config, config)
      BY DEF Accounted
    <3> QED  BY <3>1, <3>2, <3>3 DEF FilesOK, External
  <2> QED  BY <2>1, <2>2, <2>3, <2>4 DEF Has
<1> QED  BY <1>2, <1>3

(* The journal may go when the text is clean, or has been left to another  *)
(* provider.                                                               *)
LEMMA JournalRemoved ==
    ASSUME NEW c, NEW j, NEW e, NEW x, NEW a, NEW b, FilesOK(c, j, e, x, a), Clean(c) \/ b
    PROVE  FilesOK(c, NoJournal, e, x, b)
  BY DEF FilesOK, Has

(* The journal is removed when the user has gone to another provider.      *)
LEMMA LeavingKeepsInv ==
    ASSUME Inv, NEW p \in Pids, \A other \in Pids \ {p} : ~Busy(other), LeaveToProvider,
           NEW step \in Steps \ Working, Settle(p, step) \/ Ends(p), UNCHANGED <<edits, exposed>>
    PROVE  Inv'
<1>1. TypeOK /\ "free" \notin Working
  BY DEF Inv, Working
<1>2. PICK r \in Processes : proc' = [proc EXCEPT ![p] = r] /\ r.step \notin Working
  BY <1>1, Settled, Ended
<1>3. /\ config' = config /\ profile' = profile /\ journal' = NoJournal
      /\ abandoned' = (abandoned \/ Stripped(config) # config)
  BY DEF LeaveToProvider
<1>4. config \in Configs /\ abandoned \in BOOLEAN /\ abandoned' \in BOOLEAN
  BY <1>1, <1>3 DEF TypeOK
<1>5. Clean(config) \/ abandoned'
  BY <1>3, <1>4, StrippedText
<1>6. FilesOK(config', journal', edits, exposed, abandoned')
  BY <1>3, <1>5, JournalRemoved DEF Inv
<1>7. ProcOK(r, config', journal', edits, exposed, abandoned')
  BY <1>2, AtRest
<1> QED  BY <1>1, <1>2, <1>3, <1>4, <1>6, <1>7, StepKeepsInv DEF TypeOK

(* A start writes its journal, or ends.                                    *)
LEMMA StartKeepsInv ==
    ASSUME Inv, NEW p \in Pids, \A other \in Pids \ {p} : ~Busy(other), Start(p)
    PROVE  Inv'
<1>1. "inject" \in Steps \ Working
  BY DEF Steps, Working
<1>2. CASE Ends(p) /\ UNCHANGED journal
  BY <1>1, <1>2, GoingToRest DEF Start, files
<1>3. CASE Goto(p, "inject") /\ External(config) /\ UNCHANGED journal
  BY <1>1, <1>3, GoingToRest DEF Start, files
<1>4. CASE Goto(p, "inject") /\ ~External(config) /\ WriteJournal(p)
  <2>1. PICK r \in Processes : proc' = [proc EXCEPT ![p] = r] /\ r.step = "inject"
    BY <1>1, <1>4, GoneOn DEF Inv
  <2>2. UNCHANGED <<config, profile, edits, exposed, abandoned>>
    BY DEF Start
  <2>3. journal' \in Journals /\ FilesOK(config', journal', edits, exposed, abandoned')
    BY <1>4, <2>2, JournalWritten
  <2>4. ProcOK(r, config', journal', edits, exposed, abandoned')
    BY <1>1, <2>1, AtRest
  <2> QED  BY <2>1, <2>2, <2>3, <2>4, StepKeepsInv DEF Inv, TypeOK
<1> QED  BY <1>2, <1>3, <1>4 DEF Start

------------------------------------------------------------------------------
(* The injection.                                                          *)
LEMMA InjectReadsKeepsInv ==
    ASSUME Inv, NEW p \in Pids, \A other \in Pids \ {p} : ~Busy(other), InjectReads(p)
    PROVE  Inv'
<1>1. UNCHANGED <<edits, exposed>>
  BY DEF InjectReads
<1>2. CASE LeaveToProvider /\ Synced(p)
  <2>1. "up" \in Steps \ Working
    BY DEF Steps, Working
  <2> QED  BY <1>1, <1>2, <2>1, LeavingKeepsInv DEF Synced
<1>3. CASE ~LeaveToProvider \/ ~Synced(p)
  <2>1. /\ ~External(config) /\ WriteJournal(p) /\ UNCHANGED <<config, profile, abandoned>>
        /\ \E form \in Forms : proc' = [proc EXCEPT ![p].step = "config", ![p].form = form,
                                                    ![p].text = Injected(config, form)]
    BY <1>3 DEF InjectReads
  <2>2. PICK form \in Forms : proc' = [proc EXCEPT ![p].step = "config", ![p].form = form,
                                                  ![p].text = Injected(config, form)]
    BY <2>1
  <2> DEFINE r == [proc[p] EXCEPT !.step = "config", !.form = form, !.text = Injected(config, form)]
  <2>3. TypeOK /\ proc[p] \in Processes /\ "config" \in Steps /\ config \in Configs
    BY DEF Inv, TypeOK, Steps
  <2>4. proc' = [proc EXCEPT ![p] = r]
    BY <2>2
  <2>5. /\ Injected(config, form) \in Configs /\ Injected(config, form).edit = config.edit
        /\ Injected(config, form).tuned
    BY <2>1, <2>3, InjectedText DEF External
  <2>6. r \in Processes /\ r.step = "config" /\ r.text = Injected(config, form)
    BY <2>3, <2>5 DEF Processes
  <2> HIDE DEF r
  <2>7. journal' \in Journals /\ Has(journal') /\ FilesOK(config, journal', edits, exposed, abandoned)
    BY <2>1, JournalWritten
  <2>8. FilesOK(config', journal', edits, exposed, abandoned')
    BY <2>1, <2>7
  <2>9. r.text.edit = journal'.config.edit => Accounted(r.text, journal'.config)
    <3>1. SUFFICES ASSUME config.edit = journal'.config.edit
                   PROVE  Accounted(Injected(config, form), journal'.config)
      BY <2>5, <2>6
    <3>2. /\ journal'.config \in Configs /\ Accounted(config, journal'.config)
          /\ journal'.config.provider # "external"
      BY <2>7, <3>1 DEF FilesOK, Journals
    <3>3. Injected(config, form) = Injected(journal'.config, form)
      BY <2>3, <3>2, InjectedAgain
    <3> QED  BY <3>3 DEF Accounted
  <2>10. r.text \in Configs /\ r.text.edit <= edits /\ (r.text.edit = edits \/ exposed) /\ r.text.tuned
    BY <2>5, <2>6, <2>7 DEF FilesOK
  <2>11. ProcOK(r, config', journal', edits, exposed, abandoned')
    BY <2>6, <2>7, <2>9, <2>10 DEF ProcOK
  <2> QED  BY <1>1, <2>1, <2>3, <2>4, <2>6, <2>7, <2>8, <2>11, StepKeepsInv DEF TypeOK
<1> QED  BY <1>2, <1>3

(* The injection writes config.toml.                                       *)
LEMMA InjectWritesConfigKeepsInv ==
    ASSUME Inv, NEW p \in Pids, \A other \in Pids \ {p} : ~Busy(other), InjectWritesConfig(p)
    PROVE  Inv'
<1>1. /\ At(p, "config") /\ config' = proc[p].text /\ Goto(p, "profile")
      /\ UNCHANGED <<profile, journal, edits, exposed, abandoned>>
  BY DEF InjectWritesConfig
<1>2. TypeOK /\ "profile" \in Steps
  BY DEF Inv, Steps
<1>3. PICK r \in Processes : /\ proc' = [proc EXCEPT ![p] = r]
                             /\ r.step = "profile" /\ r.text = proc[p].text
  BY <1>1, <1>2, GoneOn
<1>4. ProcOK(proc[p], config, journal, edits, exposed, abandoned) /\ proc[p].step = "config"
  BY <1>1 DEF Inv, At
<1>5. FilesOK(config', journal', edits, exposed, abandoned')
  BY <1>1, <1>4 DEF Inv, FilesOK, ProcOK
<1>6. ProcOK(r, config', journal', edits, exposed, abandoned')
  BY <1>1, <1>3, <1>4 DEF ProcOK
<1>7. config' \in Configs
  BY <1>1, <1>4 DEF ProcOK
<1> QED  BY <1>1, <1>2, <1>3, <1>5, <1>6, <1>7, StepKeepsInv DEF TypeOK

(* The injection writes the profile.                                       *)
LEMMA InjectWritesProfileKeepsInv ==
    ASSUME Inv, NEW p \in Pids, \A other \in Pids \ {p} : ~Busy(other), InjectWritesProfile(p)
    PROVE  Inv'
<1>1. /\ At(p, "profile") /\ profile' = proc[p].form /\ Goto(p, "mark")
      /\ UNCHANGED <<config, journal, edits, exposed, abandoned>>
  BY DEF InjectWritesProfile
<1>2. TypeOK /\ "mark" \in Steps /\ profile' \in Profiles
  BY <1>1 DEF Inv, Steps, TypeOK, Processes, Profiles
<1>3. PICK r \in Processes : /\ proc' = [proc EXCEPT ![p] = r]
                             /\ r.step = "mark" /\ r.text = proc[p].text
  BY <1>1, <1>2, GoneOn
<1>4. ProcOK(proc[p], config, journal, edits, exposed, abandoned) /\ proc[p].step = "profile"
  BY <1>1 DEF Inv, At
<1>5. FilesOK(config', journal', edits, exposed, abandoned')
  BY <1>1 DEF Inv
<1>6. ProcOK(r, config', journal', edits, exposed, abandoned')
  BY <1>1, <1>3, <1>4 DEF ProcOK
<1> QED  BY <1>1, <1>2, <1>3, <1>5, <1>6, StepKeepsInv DEF TypeOK

(* The injection marks what it has written.                                *)
LEMMA MarkKeepsInv ==
    ASSUME Inv, NEW p \in Pids, \A other \in Pids \ {p} : ~Busy(other), Mark(p)
    PROVE  Inv'
<1>1. "up" \in Steps /\ "up" \notin Working /\ "free" \notin Working
  BY DEF Steps, Working
<1>2. At(p, "mark") /\ Synced(p) /\ UNCHANGED <<config, profile, edits, exposed, abandoned>>
  BY DEF Mark
<1>3. PICK r \in Processes : proc' = [proc EXCEPT ![p] = r] /\ r.step \notin Working
  BY <1>1, <1>2, Settled, Ended DEF Inv, Synced
<1>4. ProcOK(r, config', journal', edits, exposed, abandoned')
  BY <1>3, AtRest
<1>5. TypeOK /\ FilesOK(config, journal, edits, exposed, abandoned)
  BY DEF Inv
<1>6. CASE UNCHANGED journal
  BY <1>2, <1>3, <1>4, <1>5, <1>6, StepKeepsInv DEF TypeOK
<1>7. CASE Exists /\ journal.hash = NoConfig
  <2> DEFINE new == [journal EXCEPT !.hash = proc[p].text, !.marked = proc[p].form]
  <2>1. journal' = new
    BY <1>7 DEF Mark
  <2>2. ProcOK(proc[p], config, journal, edits, exposed, abandoned) /\ proc[p].step = "mark"
    BY <1>2 DEF Inv, At
  <2>3. proc[p].text \in Configs /\ proc[p].text.edit <= edits /\ proc[p].form \in Profiles
    BY <1>5, <2>2 DEF ProcOK, TypeOK, Processes, Profiles
  <2>4. journal \in Journals
    BY <1>5, <1>7, JournalTyped
  <2>5. /\ new \in Journals /\ new.config = journal.config /\ new.hash = proc[p].text
    BY <2>3, <2>4 DEF Journals
  <2> HIDE DEF new
  <2>6. new.hash # NoConfig
    BY <2>3, <2>5, JournalAssumption
  <2>7. /\ journal.config.edit <= edits /\ (journal.config.edit = edits \/ exposed)
        /\ journal.config.edit \in Nat /\ proc[p].text.edit \in Nat /\ edits \in Nat
    BY <1>5, <1>7, <2>3, <2>4, EditsAssumption DEF FilesOK, Has, Exists, Journals, Configs, TypeOK
  <2>8. proc[p].text.edit = journal.config.edit \/ exposed \/ proc[p].text.edit < edits
    BY <2>3, <2>7
  <2>9. FilesOK(config, new, edits, exposed, abandoned)
    <3>1. /\ config.edit <= edits /\ (config.edit = edits \/ exposed)
          /\ Clean(config) \/ config.tuned
      BY <1>5 DEF FilesOK
    <3>2. /\ journal.config.provider # "external"
          /\ Clean(journal.config) \/ abandoned
          /\ Clean(journal.config) \/ journal.config.tuned
          /\ config.edit = journal.config.edit => Accounted(config, journal.config)
      BY <1>5, <1>7 DEF FilesOK, Has, Exists
    <3>3. Has(new)
      <4>1. NoJournal.hash = NoConfig
        BY DEF NoJournal
      <4> QED  BY <2>6, <4>1 DEF Has
    <3>4. /\ new.config.provider # "external" /\ new.config.edit <= edits
          /\ Clean(new.config) \/ abandoned
          /\ Clean(new.config) \/ new.config.tuned
          /\ config.edit = new.config.edit => Accounted(config, new.config)
      BY <2>5, <2>7, <3>2
    <3>5. new.hash.edit <= edits /\ (new.hash.edit = new.config.edit \/ exposed \/ new.hash.edit < edits)
      BY <2>3, <2>5, <2>8
    <3> QED  BY <2>6, <3>1, <3>3, <3>4, <3>5 DEF FilesOK
  <2> QED  BY <1>2, <1>3, <1>4, <1>5, <2>1, <2>5, <2>9, StepKeepsInv DEF TypeOK
<1> QED  BY <1>6, <1>7 DEF Mark

------------------------------------------------------------------------------
(* The restore.                                                            *)
LEMMA PutBackConfigKeepsInv ==
    ASSUME Inv, NEW p \in Pids, \A other \in Pids \ {p} : ~Busy(other),
           NEW forGood \in BOOLEAN, Exists, PutBackConfig(p, forGood),
           UNCHANGED <<edits, exposed, abandoned>>
    PROVE  Inv'
<1> DEFINE same == journal.hash = NoConfig \/ config = journal.hash
           alike == journal.hash = NoConfig \/ profile = journal.marked
           r == [proc[p] EXCEPT !.step = "putBack", !.native = forGood,
                                !.sameConfig = same, !.sameProfile = alike]
<1>1. /\ TypeOK /\ proc[p] \in Processes /\ "putBack" \in Steps
      /\ FilesOK(config, journal, edits, exposed, abandoned)
  BY DEF Inv, TypeOK, Steps
<1>2. same \in BOOLEAN /\ alike \in BOOLEAN
  OBVIOUS
<1>3. /\ config' = IF same THEN journal.config ELSE config
      /\ proc' = [proc EXCEPT ![p] = r] /\ UNCHANGED <<profile, journal>>
  BY DEF PutBackConfig
<1>4. same => journal.hash = NoConfig \/ config = journal.hash
  OBVIOUS
<1> HIDE DEF same, alike
<1>5. r \in Processes /\ r.step = "putBack" /\ r.sameConfig = same
  BY <1>1, <1>2 DEF Processes
<1> HIDE DEF r
<1>6. journal \in Journals /\ journal.config \in Configs /\ Has(journal)
  BY <1>1, JournalTyped DEF Has, Exists
<1>7. FilesOK(config', journal, edits, exposed, abandoned) /\ (same => Clean(config') \/ abandoned)
  <2>1. CASE ~same
    BY <1>1, <1>3, <2>1
  <2>2. CASE same
    <3>1. config' = journal.config
      BY <1>3, <2>2
    <3>2. journal.config.edit = edits \/ exposed
      <4>1. CASE journal.hash = NoConfig
        BY <1>1, <1>6, <4>1 DEF FilesOK
      <4>2. CASE journal.hash # NoConfig /\ config = journal.hash
        <5>1. /\ config.edit = edits \/ exposed
              /\ config.edit = journal.config.edit \/ exposed \/ config.edit < edits
          BY <1>1, <1>6, <4>2 DEF FilesOK
        <5>2. edits \in Nat
          BY <1>1, EditsAssumption DEF TypeOK
        <5> QED  BY <5>1, <5>2
      <4> QED  BY <1>4, <2>2, <4>1, <4>2
    <3>3. Accounted(journal.config, journal.config)
      BY DEF Accounted
    <3> QED  BY <1>1, <1>6, <3>1, <3>2, <3>3 DEF FilesOK
  <2> QED  BY <2>1, <2>2
<1>8. ProcOK(r, config', journal', edits, exposed, abandoned')
  BY <1>3, <1>5, <1>6, <1>7 DEF ProcOK
<1>9. config' \in Configs
  BY <1>1, <1>3, <1>6 DEF TypeOK
<1> QED  BY <1>1, <1>3, <1>5, <1>7, <1>8, <1>9, StepKeepsInv DEF TypeOK

(* The profile of the journal is put back.                                 *)
LEMMA PutBackProfileKeepsInv ==
    ASSUME Inv, NEW p \in Pids, \A other \in Pids \ {p} : ~Busy(other), PutBackProfile(p)
    PROVE  Inv'
<1>1. /\ At(p, "putBack") /\ Goto(p, "unlink")
      /\ profile' = IF proc[p].sameProfile THEN journal.profile ELSE profile
      /\ UNCHANGED <<config, journal, edits, exposed, abandoned>>
  BY DEF PutBackProfile
<1>2. TypeOK /\ "unlink" \in Steps
  BY DEF Inv, Steps
<1>3. PICK r \in Processes : /\ proc' = [proc EXCEPT ![p] = r]
                             /\ r.step = "unlink" /\ r.sameConfig = proc[p].sameConfig
  BY <1>1, <1>2, GoneOn
<1>4. ProcOK(proc[p], config, journal, edits, exposed, abandoned) /\ proc[p].step = "putBack"
  BY <1>1 DEF Inv, At
<1>5. FilesOK(config', journal', edits, exposed, abandoned')
  BY <1>1 DEF Inv
<1>6. Has(journal) /\ (proc[p].sameConfig => Clean(config) \/ abandoned)
  BY <1>4 DEF ProcOK
<1>7. r.sameConfig => Clean(config) \/ abandoned
  BY <1>3, <1>6
<1>8. ProcOK(r, config', journal', edits, exposed, abandoned')
  BY <1>1, <1>3, <1>6, <1>7 DEF ProcOK
<1>9. profile' \in Profiles
  BY <1>1, <1>2, <1>6, JournalTyped DEF TypeOK, Has, Exists, Journals
<1> QED  BY <1>1, <1>2, <1>3, <1>5, <1>8, <1>9, StepKeepsInv DEF TypeOK

(* The journal is removed, or kept for a file the user has edited.         *)
LEMMA UnlinkKeepsInv ==
    ASSUME Inv, NEW p \in Pids, \A other \in Pids \ {p} : ~Busy(other), Unlink(p)
    PROVE  Inv'
<1>1. /\ At(p, "unlink") /\ UNCHANGED <<config, profile, edits, exposed, abandoned>>
      /\ journal' = IF proc[p].sameConfig /\ proc[p].sameProfile THEN NoJournal ELSE journal
      /\ \/ Settle(p, "check") \/ Goto(p, "strip") \/ Settle(p, "exit")
         \/ Settle(p, "inject") \/ Ends(p)
  BY DEF Unlink, Restored
<1>2. {"check", "strip", "exit", "inject"} \subseteq Steps \ Working /\ "free" \notin Working
  BY DEF Steps, Working
<1>3. TypeOK
  BY DEF Inv
<1>4. PICK r \in Processes : proc' = [proc EXCEPT ![p] = r] /\ r.step \notin Working
  <2>1. CASE Settle(p, "check") \/ Settle(p, "exit") \/ Settle(p, "inject")
    BY <1>2, <1>3, <2>1, Settled
  <2>2. CASE Goto(p, "strip")
    <3>1. \E r \in Processes : proc' = [proc EXCEPT ![p] = r] /\ r.step = "strip"
      BY <1>2, <1>3, <2>2, GoneOn
    <3> QED  BY <1>2, <3>1
  <2>3. CASE Ends(p)
    BY <1>2, <2>3, Ended
  <2> QED  BY <1>1, <2>1, <2>2, <2>3
<1>5. ProcOK(r, config', journal', edits, exposed, abandoned')
  BY <1>4, AtRest
<1>6. ProcOK(proc[p], config, journal, edits, exposed, abandoned) /\ proc[p].step = "unlink"
  BY <1>1 DEF Inv, At
<1>7. FilesOK(config', journal', edits, exposed, abandoned')
  <2>1. CASE proc[p].sameConfig /\ proc[p].sameProfile
    <3>1. Clean(config) \/ abandoned
      BY <1>6, <2>1 DEF ProcOK
    <3> QED  BY <1>1, <2>1, <3>1, JournalRemoved DEF Inv
  <2>2. CASE ~(proc[p].sameConfig /\ proc[p].sameProfile)
    BY <1>1, <2>2 DEF Inv
  <2> QED  BY <2>1, <2>2
<1>8. journal' \in Journals \cup {NoJournal}
  BY <1>1, <1>3 DEF TypeOK
<1> QED  BY <1>1, <1>3, <1>4, <1>5, <1>7, <1>8, StepKeepsInv DEF TypeOK

(* The routing is stripped out of config.toml.                             *)
LEMMA StripKeepsInv ==
    ASSUME Inv, NEW p \in Pids, \A other \in Pids \ {p} : ~Busy(other), Strip(p)
    PROVE  Inv'
<1>1. config' = Stripped(config) /\ UNCHANGED <<profile, journal, edits, exposed, abandoned>>
  BY DEF Strip
<1>2. {"drop", "exit", "inject"} \subseteq Steps
      /\ "exit" \notin Working /\ "inject" \notin Working /\ "free" \notin Working
  BY DEF Steps, Working
<1>3. TypeOK /\ config \in Configs /\ FilesOK(config, journal, edits, exposed, abandoned)
  BY DEF Inv, TypeOK
<1>4. /\ config' \in Configs /\ Clean(config')
      /\ config'.edit = config.edit
  BY <1>1, <1>3, StrippedText
<1>5. FilesOK(config', journal, edits, exposed, abandoned)
  <2>1. config.edit = journal.config.edit /\ Has(journal) => Accounted(config', journal.config)
    <3>1. SUFFICES ASSUME config.edit = journal.config.edit, Has(journal)
                   PROVE  Accounted(Stripped(config), journal.config)
      BY <1>1
    <3>2. journal.config \in Configs
      BY <1>3, <3>1, JournalTyped DEF Has, Exists
    <3>3. /\ Accounted(config, journal.config) /\ journal.config.provider # "external"
          /\ Clean(journal.config) \/ journal.config.tuned
      BY <1>3, <3>1 DEF FilesOK
    <3> QED  BY <1>3, <3>2, <3>3, StrippedAgain
  <2>2. config.edit <= edits /\ (config.edit = edits \/ exposed)
    BY <1>3 DEF FilesOK
  <2>3. /\ config'.edit <= edits /\ (config'.edit = edits \/ exposed)
        /\ config'.edit = journal.config.edit /\ Has(journal) => Accounted(config', journal.config)
    BY <1>4, <2>1, <2>2
  <2> QED  BY <1>3, <1>4, <2>3 DEF FilesOK
<1>6. PICK r \in Processes : /\ proc' = [proc EXCEPT ![p] = r]
                             /\ r.step \notin Working \/ (r.step = "drop" /\ ~Has(journal))
  <2>1. CASE Restored(p)
    <3>1. \E r \in Processes : proc' = [proc EXCEPT ![p] = r] /\ r.step \notin Working
      BY <1>2, <1>3, <2>1, Settled, Ended DEF Restored
    <3> QED  BY <3>1
  <2>2. CASE At(p, "bare") /\ Goto(p, "drop")
    <3>1. \E r \in Processes : proc' = [proc EXCEPT ![p] = r] /\ r.step = "drop"
      BY <1>2, <1>3, <2>2, GoneOn
    <3>2. ~Has(journal)
      BY <2>2 DEF Inv, ProcOK, At
    <3> QED  BY <3>1, <3>2
  <2> QED  BY <2>1, <2>2 DEF Strip
<1>7. ProcOK(r, config', journal, edits, exposed, abandoned)
  <2>1. CASE r.step \notin Working
    BY <2>1, AtRest
  <2>2. CASE r.step = "drop" /\ ~Has(journal)
    BY <2>2 DEF ProcOK
  <2> QED  BY <1>6, <2>1, <2>2
<1> QED  BY <1>1, <1>3, <1>4, <1>5, <1>6, <1>7, StepKeepsInv DEF TypeOK

(* The profile is removed.                                                 *)
LEMMA DropProfileKeepsInv ==
    ASSUME Inv, NEW p \in Pids, \A other \in Pids \ {p} : ~Busy(other), DropProfile(p)
    PROVE  Inv'
<1>1. profile' = "none" /\ Restored(p) /\ UNCHANGED <<config, journal, edits, exposed, abandoned>>
  BY DEF DropProfile
<1>2. {"exit", "inject"} \subseteq Steps
      /\ "exit" \notin Working /\ "inject" \notin Working /\ "free" \notin Working
  BY DEF Steps, Working
<1>3. TypeOK /\ FilesOK(config', journal', edits, exposed, abandoned') /\ profile' \in Profiles
  BY <1>1 DEF Inv, Profiles
<1>4. PICK r \in Processes : proc' = [proc EXCEPT ![p] = r] /\ r.step \notin Working
  BY <1>1, <1>2, <1>3, Settled, Ended DEF Restored
<1>5. ProcOK(r, config', journal', edits, exposed, abandoned')
  BY <1>4, AtRest
<1> QED  BY <1>1, <1>3, <1>4, <1>5, StepKeepsInv DEF TypeOK

(* A journal left by a process that ended is restored.                     *)
LEMMA ReconcileKeepsInv ==
    ASSUME Inv, NEW p \in Pids, \A other \in Pids \ {p} : ~Busy(other), Reconcile(p)
    PROVE  Inv'
<1>1. UNCHANGED <<edits, exposed, abandoned>> /\ "check" \in Steps \ Working
  BY DEF Reconcile, Steps, Working
<1>2. CASE MayReconcile /\ PutBackConfig(p, FALSE)
  BY <1>1, <1>2, PutBackConfigKeepsInv DEF MayReconcile
<1>3. CASE ~MayReconcile /\ Goto(p, "check") /\ UNCHANGED files
  BY <1>1, <1>3, GoingToRest
<1> QED  BY <1>2, <1>3 DEF Reconcile

(* A restore puts back the journal, or leaves, or strips.                  *)
LEMMA RestoreKeepsInv ==
    ASSUME Inv, NEW p \in Pids, \A other \in Pids \ {p} : ~Busy(other), Restore(p)
    PROVE  Inv'
<1>1. /\ UNCHANGED <<edits, exposed>>
      /\ {"exit", "inject", "bare"} \subseteq Steps
      /\ "exit" \notin Working /\ "inject" \notin Working /\ "free" \notin Working
  BY DEF Restore, Steps, Working
<1>2. CASE LeaveToProvider /\ Restored(p)
  BY <1>1, <1>2, LeavingKeepsInv DEF Restored
<1>3. CASE Exists /\ PutBackConfig(p, TRUE) /\ UNCHANGED abandoned
  BY <1>1, <1>3, PutBackConfigKeepsInv
<1>4. CASE ~Exists /\ Goto(p, "bare") /\ UNCHANGED <<files, abandoned>>
  <2>1. TypeOK
    BY DEF Inv
  <2>2. PICK r \in Processes : proc' = [proc EXCEPT ![p] = r] /\ r.step = "bare"
    BY <1>1, <1>4, <2>1, GoneOn
  <2>3. UNCHANGED <<config, profile, journal, abandoned>>
    BY <1>4 DEF files
  <2>4. FilesOK(config', journal', edits, exposed, abandoned')
    BY <2>3 DEF Inv
  <2>5. ProcOK(r, config', journal', edits, exposed, abandoned')
    BY <1>4, <2>2, <2>3 DEF ProcOK, Has, Exists
  <2> QED  BY <1>1, <2>1, <2>2, <2>3, <2>4, <2>5, StepKeepsInv DEF TypeOK
<1> QED  BY <1>2, <1>3, <1>4 DEF Restore

------------------------------------------------------------------------------
(* The user.                                                               *)
LEMMA EditKeepsInv ==
    ASSUME Inv, EditConfig
    PROVE  Inv'
<1>1. /\ edits < MaxEdits /\ edits' = edits + 1
      /\ exposed' = (Unmarked \/ \E p \in Pids : At(p, "config"))
      /\ UNCHANGED <<profile, journal, proc, abandoned>>
  BY DEF EditConfig
<1>2. PICK provider \in {config.provider, "native", "external"}, base \in {config.base, "none", "user"} :
          config' = [config EXCEPT !.provider = provider, !.base = base, !.edit = edits + 1]
  BY DEF EditConfig
<1>3. /\ TypeOK /\ config \in Configs /\ FilesOK(config, journal, edits, exposed, abandoned)
      /\ MaxEdits \in Nat /\ edits \in Nat
  BY EditsAssumption DEF Inv, TypeOK
<1>4. edits + 1 \in 0..MaxEdits /\ edits < edits + 1
  BY <1>1, <1>3
<1>5. provider \in {"native", "opencodex", "external"} /\ base \in {"none", "user", "opencodex"}
  BY <1>2, <1>3 DEF Configs
<1>6. /\ config' \in Configs /\ config'.edit = edits + 1
      /\ config'.provider = provider /\ config'.base = base
  BY <1>2, <1>3, <1>4, <1>5 DEF Configs
<1>7. config'.tuned = config.tuned
  BY <1>2, <1>3 DEF Configs
<1>8. Clean(config) => Clean(config')
  BY <1>2, <1>6 DEF Clean
<1>9. exposed' \in BOOLEAN /\ (journal.hash = NoConfig /\ Has(journal) => exposed')
  BY <1>1 DEF Unmarked, Has, Exists
<1>10. TypeOK'
  BY <1>1, <1>3, <1>4, <1>6, <1>9 DEF TypeOK
<1>11. Exclusive'
  BY <1>1 DEF Inv, Exclusive, Busy
<1>12. FilesOK(config', journal', edits', exposed', abandoned')
  <2>1. (Clean(config') \/ config'.tuned) /\ (~Has(journal) => Clean(config') \/ abandoned)
    BY <1>3, <1>7, <1>8 DEF FilesOK
  <2>2. CASE ~Has(journal)
    BY <1>1, <1>3, <1>6, <2>1, <2>2 DEF FilesOK
  <2>3. CASE Has(journal)
    <3>1. journal \in Journals /\ journal.config \in Configs
      BY <1>3, <2>3, JournalTyped DEF Has, Exists
    <3>2. /\ journal.config.provider # "external" /\ journal.config.edit <= edits
          /\ (Clean(journal.config) \/ abandoned) /\ (Clean(journal.config) \/ journal.config.tuned)
          /\ journal.hash # NoConfig => journal.hash.edit <= edits
      BY <1>3, <2>3 DEF FilesOK
    <3>3. journal.config.edit \in Nat
      BY <1>3, <3>1 DEF Configs
    <3>4. journal.hash # NoConfig => journal.hash.edit \in Nat
      BY <1>3, <3>1 DEF Journals, Configs
    <3>5. /\ journal.config.edit <= edits' /\ config'.edit # journal.config.edit
          /\ journal.hash # NoConfig => journal.hash.edit <= edits' /\ journal.hash.edit < edits'
          /\ config'.edit = edits' /\ config'.edit <= edits'
      BY <1>1, <1>3, <1>6, <3>2, <3>3, <3>4
    <3>6. journal' = journal /\ abandoned' = abandoned
      BY <1>1
    <3> QED  BY <1>9, <2>1, <2>3, <3>2, <3>5, <3>6 DEF FilesOK
  <2> QED  BY <2>2, <2>3
<1>13. ASSUME NEW p \in Pids
       PROVE  ProcOK(proc'[p], config', journal', edits', exposed', abandoned')
  <2>1. ProcOK(proc[p], config, journal, edits, exposed, abandoned)
    BY DEF Inv
  <2>2. proc[p].step \in {"config", "profile", "mark"} => proc[p].text.edit <= edits'
    <3>1. proc[p].step \in {"config", "profile", "mark"} =>
              proc[p].text \in Configs /\ proc[p].text.edit <= edits
      BY <2>1 DEF ProcOK
    <3>2. \A c \in Configs : c.edit \in Nat
      BY <1>3 DEF Configs
    <3> QED  BY <1>1, <1>3, <3>1, <3>2
  <2>3. proc[p].step = "config" => exposed'
    BY <1>1 DEF At
  <2>4. proc'[p] = proc[p] /\ journal' = journal /\ abandoned' = abandoned
    BY <1>1
  <2>5. /\ proc[p].step \in {"putBack", "unlink"} =>
              Has(journal) /\ (proc[p].sameConfig => Clean(config') \/ abandoned)
        /\ proc[p].step \in {"bare", "drop"} => ~Has(journal)
    BY <1>8, <2>1 DEF ProcOK
  <2>6. /\ proc[p].step \in {"config", "profile", "mark"} => Has(journal) /\ proc[p].text \in Configs
        /\ proc[p].step = "config" =>
              /\ proc[p].text.tuned
              /\ proc[p].text.edit = journal.config.edit => Accounted(proc[p].text, journal.config)
    BY <2>1 DEF ProcOK
  <2> QED  BY <2>2, <2>3, <2>4, <2>5, <2>6 DEF ProcOK
<1> QED  BY <1>10, <1>11, <1>12, <1>13 DEF Inv

------------------------------------------------------------------------------
(* At first there is no journal, and nobody at work.                       *)
LEMMA InitInv == Init => Inv
<1> SUFFICES ASSUME Init
             PROVE  Inv
  OBVIOUS
<1>1. MaxEdits \in Nat
  BY EditsAssumption
<1>2. Native \in Configs
  BY <1>1 DEF Native, Configs
<1>3. Native.provider = "native" /\ Native.base = "none" /\ Native.edit = 0
  BY DEF Native
<1>4. config = Native /\ journal = NoJournal /\ edits = 0 /\ exposed = FALSE /\ abandoned = FALSE
  BY DEF Init
<1>5. \A p \in Pids : proc[p] = Idle
  BY DEF Init
<1>6. Idle.step = "free" /\ "free" \notin Working
  BY DEF Idle, Working
<1>7. TypeOK
  <2>1. proc \in [Pids -> Processes]
    BY IdleTyped DEF Init
  <2>2. profile \in Profiles
    BY DEF Init, Profiles
  <2>3. 0 \in 0..MaxEdits
    BY <1>1
  <2> QED  BY <1>2, <1>4, <2>1, <2>2, <2>3 DEF TypeOK
<1>8. Exclusive
  BY <1>5, <1>6 DEF Exclusive, Busy
<1>9. FilesOK(config, journal, edits, exposed, abandoned)
  BY <1>3, <1>4 DEF FilesOK, Has, Clean
<1>10. \A p \in Pids : ProcOK(proc[p], config, journal, edits, exposed, abandoned)
  BY <1>5, <1>6, AtRest
<1> QED  BY <1>7, <1>8, <1>9, <1>10 DEF Inv

(* Every step keeps the invariant.                                         *)
LEMMA NextInv == Inv /\ [Next]_vars => Inv'
<1> SUFFICES ASSUME Inv, [Next]_vars
             PROVE  Inv'
  OBVIOUS
<1>1. CASE EditConfig
  BY <1>1, EditKeepsInv
<1>2. ASSUME NEW p \in Pids, \A other \in Pids \ {p} : ~Busy(other), Step(p)
      PROVE  Inv'
  <2>1. CASE \E job \in Jobs : Launch(p, job)
    BY <1>2, <2>1, LaunchKeepsInv
  <2>2. CASE Start(p) \/ StopRequested(p)
    BY <1>2, <2>2, StartKeepsInv, StopKeepsInv
  <2>3. CASE Ensured(p) \/ SyncAgain(p) \/ Signalled(p) \/ Cleanup(p) \/ Killed(p)
    BY <1>2, <2>3, QuietKeepsInv
  <2>4. CASE InjectReads(p) \/ InjectWritesConfig(p) \/ InjectWritesProfile(p) \/ Mark(p)
    BY <1>2, <2>4, InjectReadsKeepsInv, InjectWritesConfigKeepsInv, InjectWritesProfileKeepsInv,
       MarkKeepsInv
  <2>5. CASE Reconcile(p) \/ Restore(p) \/ PutBackProfile(p) \/ Unlink(p)
    BY <1>2, <2>5, ReconcileKeepsInv, RestoreKeepsInv, PutBackProfileKeepsInv, UnlinkKeepsInv
  <2>6. CASE Strip(p) \/ DropProfile(p)
    BY <1>2, <2>6, StripKeepsInv, DropProfileKeepsInv
  <2> QED  BY <1>2, <2>1, <2>2, <2>3, <2>4, <2>5, <2>6 DEF Step
<1>3. CASE UNCHANGED vars
  BY <1>3 DEF vars, files, Inv, TypeOK, Exclusive, Busy
<1> QED  BY <1>1, <1>2, <1>3 DEF Next

(* The invariant that carries the others: what the journal holds, what a   *)
(* process holds between reading config.toml and writing it, and who may   *)
(* be between the two (inject.ts:505-623, journal.ts:31-127).              *)
THEOREM Invariance == Spec => []Inv
  BY InitInv, NextInv, PTL DEF Spec

(* The files, the journal and the processes keep their types.              *)
THEOREM TypeCorrect == Spec => []TypeOK
<1>1. Inv => TypeOK
  BY DEF Inv
<1> QED  BY <1>1, Invariance, PTL

(* However many processes there are and however often the user edits:      *)
(* neither a restore nor an injection loses the last edit of config.toml,  *)
(* except one made while a journal waited for its injection                *)
(* (restoreJournalState, journal.ts:73-106).                               *)
THEOREM EditsAreKept == Spec => []EditsSurvive
<1>1. Inv => EditsSurvive
  BY DEF Inv, FilesOK, EditsSurvive
<1> QED  BY <1>1, Invariance, PTL

(* A journal never holds our own routing as the user's file, unless it was *)
(* given up for an external provider (writeJournal, journal.ts:31-46).     *)
THEOREM SnapshotsAreNative == Spec => []SnapshotIsNative
<1>1. Inv => SnapshotIsNative
  BY DEF Inv, FilesOK, SnapshotIsNative, Has, Exists, Clean, Routes
<1> QED  BY <1>1, Invariance, PTL

(* A file the user has not edited since the journal was written is the     *)
(* journal's, one injection into it or what a strip leaves of one, however *)
(* many commands were killed in between (inject.ts:505-623).               *)
THEOREM InjectionsAreAccountedFor == Spec => []InjectionIsAccountedFor
<1>1. Inv => InjectionIsAccountedFor
  BY DEF Inv, FilesOK, InjectionIsAccountedFor, Has, Exists, Accounted
<1> QED  BY <1>1, Invariance, PTL
===============================================================================
