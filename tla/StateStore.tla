----------------------------- MODULE StateStore -----------------------------
(***************************************************************************)
(* The files that hold a cycle (patchcycle/state_store.py), at the level   *)
(* of directory entries: what a process sees now, and what it may see      *)
(* after a power loss.  A write is durable once its content was synced     *)
(* before it got its name and the directory was synced after.              *)
(*                                                                         *)
(* The "cycle" process is a run or resume; ExecutionLock admits one.  A    *)
(* reader is a "status" command, which loads without the lock.             *)
(***************************************************************************)
EXTENDS Naturals, FiniteSets

CONSTANTS
  Stamps,       \* the seconds a quarantine may be named after
  MaxRuns,      \* BOUND: cycles begun, in any setup
  MaxSaves,     \* BOUND: saves of a cycle, in any setup
  Setups        \* who takes part, and how often things happen

ASSUME StoreAssumption ==
  /\ Stamps \subseteq Nat
  /\ MaxRuns \in Nat /\ MaxSaves \in Nat \ {0}
  /\ Setups \subseteq
       [status: BOOLEAN,          \* status commands run beside the cycle
        runs: 0 .. MaxRuns,       \* BOUND: cycles begun
        saves: 1 .. MaxSaves,     \* BOUND: saves of a cycle; the last is terminal
        tampers: Nat]             \* BOUND: times something else writes state.json

VARIABLES
  setup,      \* one of Setups, for good
  entry,      \* what each name holds now
  may,        \* what each name may hold after a power loss
  pc,         \* what each process is about to do
  mem,        \* the cycle the "cycle" process works on
  job,        \* what its atomic write is for: "save", "report" or "archive"
  synced,     \* the content of its temporary file is durable
  raw,        \* the unreadable content a load is putting away
  stamp,      \* the name it puts it under
  begun,      \* runs begun
  saved,      \* GHOST: the last save of each run that returned
  dismissed,  \* GHOST: runs an operator has recovered by hand
  detected,   \* GHOST: a load has refused what state.json now holds
  tampers     \* external writes so far

dirVars  == <<entry, may>>
loadVars == <<raw, stamp>>
ghosts   == <<saved, dismissed, detected>>
vars == <<setup, dirVars, pc, mem, job, synced, loadVars, begun, ghosts, tampers>>

-----------------------------------------------------------------------------
Processes == {"cycle", "status"}
RunId == 1 .. MaxRuns

\* "newer" is a state of a later schema version; "torn" what a power loss
\* makes of content that was never synced.
Content ==
  [kind: {"absent", "dir", "bad", "newer", "torn", "report"}, run: {0}, n: {0}]
    \cup [kind: {"cycle"}, run: RunId, n: 0 .. MaxSaves]

Plain(kind) == [kind |-> kind, run |-> 0, n |-> 0]
Absent == Plain("absent")
Torn == Plain("torn")
NoCycle == Absent
CycleSave(r, n) == [kind |-> "cycle", run |-> r, n |-> n]

StateFile == <<"state", 0>>
HistoryDir == <<"history", 0>>
ArchiveFile(r) == <<"archive", r>>
ReportFile(r) == <<"report", r>>
CorruptFile(s) == <<"corrupt", s>>

InStateDir == {StateFile, HistoryDir} \cup {CorruptFile(s) : s \in Stamps}
InHistoryDir == {ArchiveFile(r) : r \in RunId} \cup {ReportFile(r) : r \in RunId}
Names == InStateDir \cup InHistoryDir

\* What no load takes for a cycle, nor for none.
Refuses(content) == content.kind \in {"bad", "torn", "newer"}

Quarantines == {s \in Stamps : entry[CorruptFile(s)] # Absent}

\* A change of one entry, visible at once and durable at the next sync of its
\* directory.
Put(name, content, afterLoss) ==
  /\ entry' = [entry EXCEPT ![name] = content]
  /\ may' = [may EXCEPT ![name] = @ \cup afterLoss]

\* _fsync_dir
Sync(dir) ==
  /\ may' = [name \in Names |-> IF name \in dir THEN {entry[name]} ELSE may[name]]
  /\ UNCHANGED entry

Init ==
  /\ setup \in Setups
  /\ entry = [name \in Names |-> IF name = HistoryDir THEN Plain("dir") ELSE Absent]
  /\ may = [name \in Names |-> {entry[name]}]
  /\ pc = [p \in Processes |-> "off"]
  /\ mem = NoCycle
  /\ job = "save"
  /\ synced = FALSE
  /\ raw = [p \in Processes |-> Absent]
  /\ stamp = [p \in Processes |-> 0]
  /\ begun = 0
  /\ saved = [r \in RunId |-> 0]
  /\ dismissed = {}
  /\ detected = FALSE
  /\ tampers = 0

Goto(p, place) == pc' = [pc EXCEPT ![p] = place]

\* A process ends, or a command fails so that it does.
Off(p) ==
  /\ Goto(p, "off")
  /\ mem' = IF p = "cycle" THEN NoCycle ELSE mem
  /\ raw' = [raw EXCEPT ![p] = Absent]

-----------------------------------------------------------------------------
(* load()                                                                   *)

Start(p) ==
  /\ pc[p] = "off"
  /\ p = "status" => setup.status
  /\ Goto(p, "load.check")
  /\ UNCHANGED <<dirVars, mem, job, synced, loadVars, begun, ghosts, tampers>>

\* A quarantined state refuses every load until an operator removes it.
LoadCheck(p) ==
  /\ pc[p] = "load.check"
  /\ IF Quarantines # {} THEN Off(p)
     ELSE Goto(p, "load.read") /\ UNCHANGED <<mem, raw>>
  /\ UNCHANGED <<dirVars, job, synced, stamp, begun, ghosts, tampers>>

\* run() begins a cycle where there is none and resume() ends; both archive a
\* terminal one.
Loaded(found) ==
  CASE found = Absent /\ mem = NoCycle ->
         \/ Off("cycle") /\ UNCHANGED begun
         \/ /\ begun < setup.runs
            /\ begun' = begun + 1
            /\ mem' = CycleSave(begun + 1, 0)
            /\ Goto("cycle", "work")
            /\ UNCHANGED raw
    [] found = Absent /\ mem # NoCycle -> Goto("cycle", "work") /\ UNCHANGED <<mem, raw, begun>>
    [] OTHER ->
         /\ mem' = IF mem = NoCycle \/ mem.run = found.run THEN found ELSE mem
         /\ Goto("cycle", "work")
         /\ UNCHANGED <<raw, begun>>

\* WRONG: whatever the file holds is taken for a cycle.
LoadRead_Trusting(p) ==
  /\ pc[p] = "load.read"
  /\ IF p = "cycle" THEN Loaded(entry[StateFile]) ELSE Off(p) /\ UNCHANGED begun
  /\ UNCHANGED <<dirVars, job, synced, stamp, ghosts, tampers>>

\* A later schema version is refused and left alone; what fails its checks is
\* quarantined.
LoadRead(p) ==
  /\ pc[p] = "load.read"
  /\ LET found == entry[StateFile]
     IN  CASE found.kind = "newer" -> Off(p) /\ UNCHANGED begun
           [] found.kind \in {"bad", "torn"} ->
                /\ raw' = [raw EXCEPT ![p] = found]
                /\ Goto(p, "q.create")
                /\ UNCHANGED <<mem, begun>>
           [] OTHER ->
                IF p = "cycle" THEN Loaded(found) ELSE Off(p) /\ UNCHANGED begun
  /\ detected' = Refuses(entry[StateFile])
  /\ UNCHANGED <<dirVars, job, synced, stamp, saved, dismissed, tampers>>

\* O_EXCL: two quarantines of one second are an error of the later one.
QuarantineCreate(p) ==
  /\ pc[p] = "q.create"
  /\ \E s \in Stamps :
       IF s \in Quarantines
       THEN Off(p) /\ UNCHANGED <<dirVars, stamp>>
       ELSE /\ Put(CorruptFile(s), Torn, {Torn})
            /\ stamp' = [stamp EXCEPT ![p] = s]
            /\ Goto(p, "q.write")
            /\ UNCHANGED <<mem, raw>>
  /\ UNCHANGED <<job, synced, begun, ghosts, tampers>>

QuarantineWrite(p) ==
  /\ pc[p] = "q.write"
  /\ LET name == CorruptFile(stamp[p])
     IN  /\ entry' = [entry EXCEPT ![name] = raw[p]]
         /\ may' = [may EXCEPT ![name] = {c \in @ : c = Absent} \cup {raw[p]}]
  /\ Goto(p, "q.sync")
  /\ UNCHANGED <<mem, job, synced, loadVars, begun, ghosts, tampers>>

\* WRONG: the directory is not synced before the state is removed.
QuarantineSync_Skipped(p) ==
  /\ pc[p] = "q.sync"
  /\ Goto(p, "q.unlink")
  /\ UNCHANGED <<dirVars, mem, job, synced, loadVars, begun, ghosts, tampers>>

QuarantineSync(p) ==
  /\ pc[p] = "q.sync"
  /\ Sync(InStateDir)
  /\ Goto(p, "q.unlink")
  /\ UNCHANGED <<mem, job, synced, loadVars, begun, ghosts, tampers>>

\* Whatever state.json holds by now goes.
QuarantineUnlink(p) ==
  /\ pc[p] = "q.unlink"
  /\ Put(StateFile, Absent, {Absent})
  /\ detected' = FALSE
  /\ Goto(p, "q.done")
  /\ UNCHANGED <<mem, job, synced, loadVars, begun, saved, dismissed, tampers>>

QuarantineDone(p) ==
  /\ pc[p] = "q.done"
  /\ Sync(InStateDir)
  /\ Off(p)
  /\ UNCHANGED <<job, synced, stamp, begun, ghosts, tampers>>

-----------------------------------------------------------------------------
(* save(), save_report() and archive() of the process that holds the lock   *)

\* WRONG: a cycle that is not terminal is archived.
Work_ArchivesEarly ==
  /\ pc["cycle"] = "work"
  /\ \/ /\ mem.n < setup.saves
        /\ mem' = [mem EXCEPT !.n = @ + 1]
        /\ job' = "save"
        /\ Goto("cycle", "write")
     \/ /\ mem.n > 0
        /\ job' \in {"report", "archive"}
        /\ Goto("cycle", "mkdir")
        /\ UNCHANGED mem
  /\ UNCHANGED <<dirVars, synced, loadVars, begun, ghosts, tampers>>

\* The engine saves what it did, writes its report, archives what is terminal,
\* or fails and loads again what it saved.
Work ==
  /\ pc["cycle"] = "work"
  /\ \/ /\ mem.n < setup.saves
        /\ mem' = [mem EXCEPT !.n = @ + 1]
        /\ job' = "save"
        /\ Goto("cycle", "write")
     \/ /\ mem.n > 0
        /\ job' \in {"report"} \cup (IF mem.n = setup.saves THEN {"archive"} ELSE {})
        /\ Goto("cycle", "mkdir")
        /\ UNCHANGED mem
     \/ /\ mem.n > 0
        /\ Goto("cycle", "load.check")
        /\ UNCHANGED <<mem, job>>
  /\ UNCHANGED <<dirVars, synced, loadVars, begun, ghosts, tampers>>

MakeHistory ==
  /\ pc["cycle"] = "mkdir"
  /\ IF entry[HistoryDir] = Absent
     THEN Put(HistoryDir, Plain("dir"), {Plain("dir")})
     ELSE UNCHANGED dirVars
  /\ Goto("cycle", "write")
  /\ UNCHANGED <<mem, job, synced, loadVars, begun, ghosts, tampers>>

WriteTemp ==
  /\ pc["cycle"] = "write"
  /\ synced' = FALSE
  /\ Goto("cycle", "sync")
  /\ UNCHANGED <<dirVars, mem, job, loadVars, begun, ghosts, tampers>>

\* WRONG: the content is not synced before it gets its name.
SyncTemp_Skipped ==
  /\ pc["cycle"] = "sync"
  /\ Goto("cycle", "replace")
  /\ UNCHANGED <<dirVars, mem, job, synced, loadVars, begun, ghosts, tampers>>

SyncTemp ==
  /\ pc["cycle"] = "sync"
  /\ synced' = TRUE
  /\ Goto("cycle", "replace")
  /\ UNCHANGED <<dirVars, mem, job, loadVars, begun, ghosts, tampers>>

Target ==
  CASE job = "save"    -> StateFile
    [] job = "report"  -> ReportFile(mem.run)
    [] job = "archive" -> ArchiveFile(mem.run)

Replace ==
  /\ pc["cycle"] = "replace"
  /\ LET content == IF job = "report" THEN Plain("report") ELSE mem
     IN  Put(Target, content, {content} \cup (IF synced THEN {} ELSE {Torn}))
  /\ detected' = (detected /\ job # "save")
  /\ Goto("cycle", "dirsync")
  /\ UNCHANGED <<mem, job, synced, loadVars, begun, saved, dismissed, tampers>>

\* WRONG: the directory is not synced before the write returns.
Written_NotSynced ==
  /\ pc["cycle"] = "dirsync"
  /\ Goto("cycle", IF job = "archive" THEN "unlink" ELSE "work")
  /\ saved' = IF job = "save" THEN [saved EXCEPT ![mem.run] = mem.n] ELSE saved
  /\ UNCHANGED <<dirVars, mem, job, synced, loadVars, begun, dismissed, detected, tampers>>

\* The write returns.
Written ==
  /\ pc["cycle"] = "dirsync"
  /\ Sync(IF job = "save" THEN InStateDir ELSE InHistoryDir)
  /\ Goto("cycle", IF job = "archive" THEN "unlink" ELSE "work")
  /\ saved' = IF job = "save" THEN [saved EXCEPT ![mem.run] = mem.n] ELSE saved
  /\ UNCHANGED <<mem, job, synced, loadVars, begun, dismissed, detected, tampers>>

ArchiveUnlink ==
  /\ pc["cycle"] = "unlink"
  /\ Put(StateFile, Absent, {Absent})
  /\ detected' = FALSE
  /\ Goto("cycle", "reset")
  /\ UNCHANGED <<mem, job, synced, loadVars, begun, saved, dismissed, tampers>>

\* run() that found a terminal cycle goes on to its own.
ArchiveDone ==
  /\ pc["cycle"] = "reset"
  /\ Sync(InStateDir)
  /\ \/ Off("cycle") /\ UNCHANGED begun
     \/ /\ begun < setup.runs
        /\ begun' = begun + 1
        /\ mem' = CycleSave(begun + 1, 0)
        /\ Goto("cycle", "work")
        /\ UNCHANGED raw
  /\ UNCHANGED <<job, synced, stamp, ghosts, tampers>>

\* An OSError of a write (disk full, I/O): the temporary file goes; a failed
\* save makes the engine fail its cycle from what it saved, a second failure
\* ends the process.
WriteFails ==
  /\ pc["cycle"] \in {"mkdir", "write", "sync", "replace", "dirsync", "unlink", "reset"}
  /\ \/ Off("cycle")
     \/ /\ job # "archive"
        /\ mem.n > 1 \/ job = "report"
        /\ mem' = IF job = "save" THEN [mem EXCEPT !.n = @ - 1] ELSE mem
        /\ Goto("cycle", "load.check")
        /\ UNCHANGED raw
  /\ UNCHANGED <<dirVars, job, synced, stamp, begun, ghosts, tampers>>

-----------------------------------------------------------------------------
(* The environment.                                                         *)

Kill(p) ==
  /\ pc[p] # "off"
  /\ Off(p)
  /\ UNCHANGED <<dirVars, job, synced, stamp, begun, ghosts, tampers>>

\* Each name falls back to something it may hold; a directory that was lost
\* takes its entries along.
PowerLoss ==
  /\ LET open == {name \in Names : Cardinality(may[name]) > 1}
     IN  \E fate \in [open -> UNION {may[name] : name \in open}] :
           /\ \A name \in open : fate[name] \in may[name]
           /\ LET after == [name \in Names |-> IF name \in open THEN fate[name] ELSE entry[name]]
              IN  entry' = [name \in Names |->
                              IF name \in InHistoryDir /\ after[HistoryDir] = Absent
                              THEN Absent ELSE after[name]]
  /\ may' = [name \in Names |-> {entry'[name]}]
  /\ pc' = [p \in Processes |-> "off"]
  /\ mem' = NoCycle
  /\ raw' = [p \in Processes |-> Absent]
  /\ detected' = (detected /\ entry'[StateFile] = entry[StateFile])
  /\ UNCHANGED <<job, synced, stamp, begun, saved, dismissed, tampers>>

\* A disk error, an editor or another version of the program.
Tamper ==
  /\ entry[StateFile].kind = "cycle"
  /\ tampers < setup.tampers
  /\ tampers' = tampers + 1
  /\ \E kind \in {"bad", "newer"} :
       /\ entry' = [entry EXCEPT ![StateFile] = Plain(kind)]
       /\ may' = [may EXCEPT ![StateFile] = {Plain(kind)}]
  /\ detected' = FALSE
  /\ UNCHANGED <<pc, mem, job, synced, loadVars, begun, saved, dismissed>>

\* An operator looks into a refused state while no command runs, and removes
\* what refuses.
Recover ==
  /\ \A p \in Processes : pc[p] = "off"
  /\ Quarantines # {} \/ entry[StateFile].kind = "newer"
  /\ LET refusing == {CorruptFile(s) : s \in Stamps} \cup
                       (IF entry[StateFile].kind = "cycle" THEN {} ELSE {StateFile})
     IN  /\ entry' = [name \in Names |-> IF name \in refusing THEN Absent ELSE entry[name]]
         /\ may' = [name \in Names |-> IF name \in refusing THEN {Absent} ELSE may[name]]
  /\ dismissed' = 1 .. begun
  /\ detected' = FALSE
  /\ UNCHANGED <<pc, mem, job, synced, loadVars, begun, saved, tampers>>

-----------------------------------------------------------------------------
Load(p) ==
  \/ Start(p) \/ LoadCheck(p) \/ LoadRead(p)
  \/ QuarantineCreate(p) \/ QuarantineWrite(p) \/ QuarantineSync(p)
  \/ QuarantineUnlink(p) \/ QuarantineDone(p)

AtomicWrite == WriteTemp \/ SyncTemp \/ Replace \/ Written

Next ==
  \/ \E p \in Processes : Load(p) \/ Kill(p)
  \/ Work \/ MakeHistory \/ AtomicWrite \/ ArchiveUnlink \/ ArchiveDone \/ WriteFails
  \/ PowerLoss \/ Tamper \/ Recover

Spec == Init /\ [][Next /\ UNCHANGED setup]_vars

-----------------------------------------------------------------------------
(* Properties.                                                              *)

TypeOK ==
  /\ setup \in Setups
  /\ entry \in [Names -> Content]
  /\ may \in [Names -> SUBSET Content]
  /\ pc \in [Processes ->
       {"off", "load.check", "load.read", "q.create", "q.write", "q.sync", "q.unlink", "q.done",
        "work", "mkdir", "write", "sync", "replace", "dirsync", "unlink", "reset"}]
  /\ mem \in {c \in Content : c = NoCycle \/ c.kind = "cycle"}
  /\ job \in {"save", "report", "archive"}
  /\ synced \in BOOLEAN
  /\ raw \in [Processes -> Content]
  /\ stamp \in [Processes -> Stamps \cup {0}]
  /\ begun \in 0 .. MaxRuns
  /\ saved \in [RunId -> 0 .. MaxSaves]
  /\ dismissed \subseteq RunId
  /\ detected \in BOOLEAN
  /\ tampers \in 0 .. setup.tampers

\* A cycle of which one save returned is never silently gone, through any
\* power loss, process death or failed write: it is in state.json or in the
\* archive, or loads are refused until an operator has looked.
NothingIsForgotten ==
  \A r \in RunId \ dismissed :
    saved[r] > 0 =>
      \/ entry[StateFile].run = r
      \/ entry[ArchiveFile(r)].run = r
      \/ Quarantines # {} \/ Refuses(entry[StateFile])

\* Nothing the program wrote is ever torn, and a power loss takes state.json
\* back behind no save that returned: it loses at most the one in flight.
LosesAtMostInFlight ==
  /\ \A name \in {StateFile} \cup InHistoryDir : entry[name] # Torn
  /\ entry[StateFile].kind = "cycle" => entry[StateFile].n >= saved[entry[StateFile].run]

\* The archive holds finished cycles only, each as it was last saved.
ArchiveIsFinal ==
  \A r \in RunId :
    entry[ArchiveFile(r)] # Absent => entry[ArchiveFile(r)] = CycleSave(r, setup.saves)

\* What a load has refused is never deleted nor overwritten in place before a
\* durable copy of it is in quarantine, whatever dies in between, unless by an
\* operator.  Content that no load has seen, corrupted under a running cycle,
\* gives way only to that cycle's own next save, or once the cycle is durable
\* in the archive.  All as long as no status command puts away what it read
\* before.
EvidenceIsDurable ==
  [][~setup.status /\ Refuses(entry[StateFile]) /\ dismissed' = dismissed
       /\ entry'[StateFile] # entry[StateFile]
       => \/ \E s \in Stamps : may'[CorruptFile(s)] = {entry[StateFile]}
          \/ /\ ~detected /\ mem # NoCycle
             /\ \/ entry'[StateFile] = mem
                \/ may[ArchiveFile(mem.run)] = {CycleSave(mem.run, setup.saves)}]_vars

\* Of a corrupt state "exit FAILED ... without starting maintenance"
\* (failure-recovery.md, FR-S8).
NothingStartsOnQuarantine ==
  [][pc["cycle"] = "load.read" /\ begun' # begun => Quarantines = {}]_vars
=============================================================================
