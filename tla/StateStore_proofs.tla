------------------------- MODULE StateStore_proofs -------------------------
(***************************************************************************)
(* Proofs about the files of StateStore, for any number of runs, saves,    *)
(* stamps and tampers.  A power loss picks for every name one of the       *)
(* contents it may have, so what must survive one is said of everything a  *)
(* name may hold and not of what it holds now: IInv is about "may".        *)
(***************************************************************************)
EXTENDS StateStore, TLAPS

-----------------------------------------------------------------------------
(* The inductive invariant.                                                 *)

LoadPlaces == {"load.check", "load.read", "q.create", "q.write", "q.sync", "q.unlink", "q.done"}
Putting == {"q.create", "q.write", "q.sync", "q.unlink", "q.done"}
Writing == {"write", "sync", "replace", "dirsync"}
Busy == {"work", "mkdir", "unlink", "reset"} \cup Writing

\* The process with the lock: which cycle it has in hand, and how far the saves
\* of that cycle that returned are behind it.
Holder ==
  /\ pc["status"] \in {"off"} \cup LoadPlaces
  /\ pc["cycle"] = "off" => mem = NoCycle
  /\ pc["cycle"] \in Busy => mem # NoCycle
  /\ mem # NoCycle => mem.run <= begun /\ saved[mem.run] <= mem.n
  /\ pc["cycle"] \in Writing /\ job = "save" => saved[mem.run] < mem.n
  /\ pc["cycle"] = "mkdir" => job # "save"
  /\ pc["cycle"] \in {"unlink", "reset"} => job = "archive"
  /\ pc["cycle"] \in (Busy \ {"work"}) /\ job = "archive" => mem.n = setup.saves
  /\ pc["cycle"] = "replace" => synced
  /\ \A r \in RunId : saved[r] > 0 => r <= begun
  /\ dismissed \subseteq 1 .. begun

\* Whatever a power loss leaves of state.json and of the archive is whole, and
\* no older than the last save that returned.
Files ==
  /\ \A name \in Names : entry[name] \in may[name]
  /\ may[HistoryDir] = {Plain("dir")}
  /\ \A c \in may[StateFile] :
       /\ c.kind \in {"absent", "cycle", "bad", "newer"}
       /\ c.kind = "cycle" => c.run <= begun /\ saved[c.run] <= c.n
  /\ \A r \in RunId : \A c \in may[ArchiveFile(r)] : c = Absent \/ c = CycleSave(r, setup.saves)
  /\ \A r \in RunId : \A c \in may[ReportFile(r)] : c # Torn
  /\ Refuses(entry[StateFile]) => may[StateFile] = {entry[StateFile]}

Archived(r) == Absent \notin may[ArchiveFile(r)]
PutAway == \E s \in Stamps : Absent \notin may[CorruptFile(s)]
InPlace(r) == \A c \in may[StateFile] : c.run = r \/ Refuses(c)

\* What an atomic write has already put where it belongs.
InHand ==
  /\ pc["cycle"] = "dirsync" /\ job = "save" =>
       \/ entry[StateFile] = mem \/ Refuses(entry[StateFile])
       \/ entry[StateFile] = Absent /\ PutAway
  /\ pc["cycle"] = "dirsync" /\ job = "archive" => entry[ArchiveFile(mem.run)] = mem
  /\ pc["cycle"] \in {"unlink", "reset"} => may[ArchiveFile(mem.run)] = {mem}

\* A quarantine under way: the name is taken, and durable before state.json goes.
Quarantining ==
  /\ \A s \in Stamps : entry[CorruptFile(s)] = Absent => may[CorruptFile(s)] = {Absent}
  /\ \A p \in Processes :
    /\ pc[p] \in Putting => raw[p].kind \in {"bad", "torn"}
    /\ pc[p] \in Putting \ {"q.create"} =>
         stamp[p] \in Stamps /\ entry[CorruptFile(stamp[p])] # Absent
    /\ pc[p] \in {"q.unlink", "q.done"} => Absent \notin may[CorruptFile(stamp[p])]

\* A cycle of which a save returned is in the archive, or something is in
\* quarantine, or it is what state.json holds and what the process works on.
Kept ==
  \A r \in RunId \ dismissed :
    saved[r] > 0 =>
      \/ Archived(r) \/ PutAway
      \/ InPlace(r) /\ (mem = NoCycle \/ mem.run = r)

\* With no status command, what is put away is what state.json holds, nothing
\* is in quarantine while a cycle runs, and the newest run is not dismissed as
\* long as anything is left of it.
Alone ==
  ~setup.status =>
    /\ pc["status"] = "off"
    /\ pc["cycle"] \in Putting \ {"q.done"} => entry[StateFile] = raw["cycle"]
    /\ pc["cycle"] \in {"q.sync", "q.unlink"} => entry[CorruptFile(stamp["cycle"])] = raw["cycle"]
    /\ pc["cycle"] = "q.unlink" => may[CorruptFile(stamp["cycle"])] = {raw["cycle"]}
    /\ (\E s \in Stamps : may[CorruptFile(s)] # {Absent}) =>
         /\ pc["cycle"] \in {"off", "load.check"} \cup Putting
         /\ \A c \in may[StateFile] : c.kind # "cycle"
    /\ mem # NoCycle \/ may[StateFile] # {Absent} => begun > 0 /\ begun \notin dismissed

IInv == TypeOK /\ Holder /\ Files /\ InHand /\ Quarantining /\ Kept /\ Alone

-----------------------------------------------------------------------------
(* The names of the directory, their contents, and a change of one of them. *)

\* Different files have different names.
LEMMA NamesApart ==
  /\ StateFile \in InStateDir /\ HistoryDir \in InStateDir /\ HistoryDir # StateFile
  /\ StateFile \notin InHistoryDir /\ HistoryDir \notin InHistoryDir
  /\ \A s \in Stamps :
       /\ CorruptFile(s) \in InStateDir /\ CorruptFile(s) \notin InHistoryDir
       /\ CorruptFile(s) # StateFile /\ CorruptFile(s) # HistoryDir
  /\ \A r \in RunId :
       /\ ArchiveFile(r) \in InHistoryDir /\ ReportFile(r) \in InHistoryDir
       /\ ArchiveFile(r) \notin InStateDir /\ ReportFile(r) \notin InStateDir
  /\ \A r, q \in RunId : ArchiveFile(r) # ReportFile(q)
  /\ \A r, q \in RunId : (ArchiveFile(r) = ArchiveFile(q)) => r = q
  /\ \A s, t \in Stamps : (CorruptFile(s) = CorruptFile(t)) => s = t
  /\ Names = InStateDir \cup InHistoryDir
BY DEF Names, InStateDir, InHistoryDir, StateFile, HistoryDir, CorruptFile, ArchiveFile,
       ReportFile

\* A cycle has a run and a save, anything else has neither.
LEMMA Contents ==
  /\ \A kind \in {"absent", "dir", "bad", "newer", "torn", "report"} :
       Plain(kind) \in Content /\ Plain(kind).kind = kind
  /\ Absent \in Content /\ Absent.kind = "absent" /\ Torn \in Content /\ Torn.kind = "torn"
  /\ \A r \in RunId, n \in 0 .. MaxSaves :
       LET c == CycleSave(r, n)
       IN  c \in Content /\ c.kind = "cycle" /\ c.run = r /\ c.n = n
  /\ \A c \in Content : c.kind = "cycle" => c.run \in RunId /\ c.n \in 0 .. MaxSaves
  /\ \A c \in Content : c.kind # "cycle" => c.run = 0 /\ c = Plain(c.kind)
  /\ \A c \in Content : c.kind = "absent" => c = Absent
<1>1. \A c \in Content : c.kind # "cycle" => c.run = 0 /\ c = Plain(c.kind)
  BY DEF Content, Plain
<1>2. \A r \in RunId, n \in 0 .. MaxSaves :
        LET c == CycleSave(r, n)
        IN  c \in Content /\ c.kind = "cycle" /\ c.run = r /\ c.n = n
  BY DEF Content, CycleSave
<1>3. \A c \in Content : c.kind = "cycle" => c.run \in RunId /\ c.n \in 0 .. MaxSaves
  BY DEF Content
<1>4. \A kind \in {"absent", "dir", "bad", "newer", "torn", "report"} :
        Plain(kind) \in Content /\ Plain(kind).kind = kind
  BY DEF Content, Plain
<1> QED BY <1>1, <1>2, <1>3, <1>4 DEF Absent, Torn

\* A cycle is its run and its save.
LEMMA CycleIsSave ==
  ASSUME NEW c \in Content, c.kind = "cycle"
  PROVE  /\ c = CycleSave(c.run, c.n)
         /\ \A k : [c EXCEPT !.n = k] = CycleSave(c.run, k)
BY DEF Content, CycleSave

\* Refused content is neither absent nor a cycle.
LEMMA RefusedContent ==
  ASSUME NEW c \in Content, Refuses(c)
  PROVE  c # Absent /\ c.kind # "cycle" /\ c.run = 0
BY Contents DEF Refuses

LEMMA PutEffect ==
  ASSUME NEW name \in Names, NEW content, NEW afterLoss, Put(name, content, afterLoss),
         entry \in [Names -> Content], may \in [Names -> SUBSET Content]
  PROVE  /\ entry'[name] = content
         /\ may'[name] = may[name] \cup afterLoss
         /\ \A n \in Names \ {name} : entry'[n] = entry[n] /\ may'[n] = may[n]
BY DEF Put

LEMMA SyncEffect ==
  ASSUME NEW dir, Sync(dir),
         entry \in [Names -> Content], may \in [Names -> SUBSET Content]
  PROVE  /\ entry' = entry
         /\ \A n \in Names : may'[n] = IF n \in dir THEN {entry[n]} ELSE may[n]
         /\ may' \in [Names -> SUBSET Content]
BY DEF Sync

\* A change of one entry keeps the directory well typed.
LEMMA PutTypes ==
  ASSUME NEW name \in Names, NEW content \in Content, NEW afterLoss \in SUBSET Content,
         Put(name, content, afterLoss),
         entry \in [Names -> Content], may \in [Names -> SUBSET Content]
  PROVE  entry' \in [Names -> Content] /\ may' \in [Names -> SUBSET Content]
BY DEF Put

-----------------------------------------------------------------------------
(* Each part of the invariant depends on little of the state.               *)

LEMMA FilesFrame ==
  ASSUME TypeOK, Files, UNCHANGED <<setup, dirVars, saved>>, begun' \in {begun, begun + 1}
  PROVE  Files'
<1>1. begun \in Nat /\ begun <= begun'
  BY StoreAssumption DEF TypeOK
<1>2. \A c \in Content : c.kind = "cycle" => c.run \in Nat
  BY Contents, StoreAssumption DEF RunId
<1>3. may[StateFile] \subseteq Content
  BY NamesApart DEF TypeOK
<1> QED BY <1>1, <1>2, <1>3 DEF Files, dirVars

LEMMA InHandFrame ==
  ASSUME InHand, UNCHANGED dirVars,
         \/ pc'["cycle"] = pc["cycle"] /\ UNCHANGED <<mem, job>>
         \/ pc'["cycle"] \notin {"dirsync", "unlink", "reset"}
  PROVE  InHand'
BY DEF InHand, dirVars, PutAway

LEMMA QuarantiningFrame ==
  ASSUME Quarantining, UNCHANGED dirVars,
         \A p \in Processes :
           \/ pc'[p] = pc[p] /\ raw'[p] = raw[p] /\ stamp'[p] = stamp[p]
           \/ pc'[p] \notin Putting
  PROVE  Quarantining'
BY DEF Quarantining, dirVars, Putting

LEMMA KeptFrame ==
  ASSUME Kept, UNCHANGED <<dirVars, saved, dismissed>>, mem' \in {mem, NoCycle}
  PROVE  Kept'
BY DEF Kept, dirVars, Archived, PutAway, InPlace

\* What is in quarantine for good stays there while the directory changes
\* elsewhere.
LEMMA PutAwayFrame ==
  ASSUME PutAway, \A s \in Stamps : Absent \notin may[CorruptFile(s)] => Absent \notin may'[CorruptFile(s)]
  PROVE  PutAway'
BY DEF PutAway

-----------------------------------------------------------------------------
(* load()                                                                   *)

\* A process that ends keeps nothing.
LEMMA OffEffect ==
  ASSUME TypeOK, NEW p \in Processes, Off(p)
  PROVE  /\ pc'[p] = "off" /\ \A q \in Processes \ {p} : pc'[q] = pc[q] /\ raw'[q] = raw[q]
         /\ p = "cycle" => mem' = NoCycle
         /\ p # "cycle" => mem' = mem
         /\ mem' \in {mem, NoCycle}
         /\ mem' \in {c \in Content : c = NoCycle \/ c.kind = "cycle"}
         /\ raw' \in [Processes -> Content]
         /\ pc' \in [Processes ->
              {"off", "load.check", "load.read", "q.create", "q.write", "q.sync", "q.unlink",
               "q.done", "work", "mkdir", "write", "sync", "replace", "dirsync", "unlink", "reset"}]
BY Contents DEF Off, Goto, TypeOK, NoCycle

LEMMA GotoEffect ==
  ASSUME TypeOK, NEW p \in Processes, NEW place, Goto(p, place),
         place \in {"off", "work", "mkdir", "unlink", "reset"} \cup LoadPlaces \cup Writing
  PROVE  /\ pc'[p] = place /\ \A q \in Processes \ {p} : pc'[q] = pc[q]
         /\ pc' \in [Processes ->
              {"off", "load.check", "load.read", "q.create", "q.write", "q.sync", "q.unlink",
               "q.done", "work", "mkdir", "write", "sync", "replace", "dirsync", "unlink", "reset"}]
BY DEF Goto, TypeOK, LoadPlaces, Writing

\* A step that ends a process and leaves the files alone: one that is killed,
\* or a command that fails.
LEMMA EndingKeeps ==
  ASSUME IInv, UNCHANGED <<setup, dirVars, job, synced, stamp, begun, saved, dismissed, tampers>>,
         NEW p \in Processes, Off(p),
         detected' \in BOOLEAN
  PROVE  IInv'
<1>1. TypeOK /\ Holder /\ Files /\ InHand /\ Quarantining /\ Kept /\ Alone
  BY DEF IInv
<1>2. TypeOK'
  BY <1>1, OffEffect DEF TypeOK, dirVars, ghosts
<1>3. Holder'
  BY <1>1, OffEffect DEF Holder, Processes, ghosts, Busy, Writing
<1>4. Files'
  BY <1>1, FilesFrame DEF ghosts
<1>5. InHand'
  <2>1. CASE p = "cycle"
    BY <1>1, <2>1, OffEffect, InHandFrame
  <2>2. CASE p # "cycle"
    BY <1>1, <2>2, OffEffect, InHandFrame DEF Processes
  <2> QED BY <2>1, <2>2
<1>6. Quarantining'
  BY <1>1, OffEffect, QuarantiningFrame DEF Putting
<1>7. Kept'
  BY <1>1, OffEffect, KeptFrame
<1>8. Alone'
  BY <1>1, OffEffect DEF Alone, Putting, dirVars, ghosts, Processes
<1> QED BY <1>2, <1>3, <1>4, <1>5, <1>6, <1>7, <1>8 DEF IInv

LEMMA KillKeeps ==
  ASSUME IInv, UNCHANGED setup, NEW p \in Processes, Kill(p)
  PROVE  IInv'
BY EndingKeeps DEF Kill, ghosts, IInv, TypeOK

\* A step of a load that only goes on to the next.
LEMMA GoingOnKeeps ==
  ASSUME IInv, UNCHANGED <<setup, dirVars, mem, job, synced, loadVars, begun, ghosts, tampers>>,
         NEW p \in Processes, NEW place \in {"load.check", "load.read"}, Goto(p, place),
         place = "load.check" =>
           /\ pc[p] \in {"off", "work"}
           /\ p = "status" => setup.status,
         place = "load.read" => pc[p] = "load.check" /\ Quarantines = {}
  PROVE  IInv'
<1>1. TypeOK /\ Holder /\ Files /\ InHand /\ Quarantining /\ Kept /\ Alone
  BY DEF IInv
<1>2. /\ pc'[p] = place /\ \A q \in Processes \ {p} : pc'[q] = pc[q]
      /\ place \in LoadPlaces /\ place \notin Putting /\ place \notin Busy
  BY <1>1, GotoEffect DEF LoadPlaces, Putting, Busy, Writing
<1>3. TypeOK'
  BY <1>1, GotoEffect DEF TypeOK, dirVars, ghosts, loadVars, LoadPlaces
<1>4. Holder'
  BY <1>1, <1>2 DEF Holder, Processes, ghosts, Busy, Writing
<1>5. Files'
  BY <1>1, FilesFrame DEF ghosts
<1>6. InHand'
  BY <1>1, <1>2, InHandFrame DEF Processes
<1>7. Quarantining'
  BY <1>1, <1>2, QuarantiningFrame DEF loadVars
<1>8. Kept'
  BY <1>1, KeptFrame DEF ghosts
<1>9. Alone'
  <2>1. SUFFICES ASSUME ~setup.status
                 PROVE  Alone'
    BY DEF Alone
  <2>2. p = "cycle"
    BY <1>1, <1>2, <2>1 DEF Processes, Alone
  <2>3. place = "load.read" => \A s \in Stamps : may[CorruptFile(s)] = {Absent}
    BY <1>1 DEF Quarantining, Quarantines
  <2> QED BY <1>1, <1>2, <2>1, <2>2, <2>3 DEF Alone, Putting, dirVars, ghosts, loadVars, Processes
<1> QED BY <1>3, <1>4, <1>5, <1>6, <1>7, <1>8, <1>9 DEF IInv

LEMMA StartKeeps ==
  ASSUME IInv, UNCHANGED setup, NEW p \in Processes, Start(p)
  PROVE  IInv'
BY GoingOnKeeps DEF Start

LEMMA LoadCheckKeeps ==
  ASSUME IInv, UNCHANGED setup, NEW p \in Processes, LoadCheck(p)
  PROVE  IInv'
BY GoingOnKeeps, EndingKeeps DEF LoadCheck, loadVars, ghosts, IInv, TypeOK

\* The content of state.json that a load finds.
LEMMA FoundContent ==
  ASSUME TypeOK, Files
  PROVE  /\ entry[StateFile] \in Content /\ entry[StateFile] \in may[StateFile]
         /\ entry[StateFile].kind \in {"absent", "cycle", "bad", "newer"}
         /\ (entry[StateFile].kind = "absent") <=> (entry[StateFile] = Absent)
         /\ entry[StateFile].kind = "cycle" =>
              /\ entry[StateFile] # NoCycle
              /\ entry[StateFile].run \in RunId /\ entry[StateFile].run <= begun
              /\ saved[entry[StateFile].run] <= entry[StateFile].n
<1>1. StateFile \in Names
  BY NamesApart
<1>2. entry[StateFile] \in Content /\ entry[StateFile] \in may[StateFile]
  BY <1>1 DEF TypeOK, Files
<1>3. entry[StateFile].kind \in {"absent", "cycle", "bad", "newer"}
  BY <1>2 DEF Files
<1>4. (entry[StateFile].kind = "absent") <=> (entry[StateFile] = Absent)
  BY <1>2, Contents
<1>5. entry[StateFile].kind = "cycle" =>
        /\ entry[StateFile] # NoCycle
        /\ entry[StateFile].run \in RunId /\ entry[StateFile].run <= begun
        /\ saved[entry[StateFile].run] <= entry[StateFile].n
  BY <1>2, Contents DEF Files, NoCycle
<1> QED BY <1>2, <1>3, <1>4, <1>5

\* A cycle that was found, or the one the process has in hand already, is what
\* it works on.
LEMMA PickUpKeeps ==
  ASSUME IInv, UNCHANGED <<setup, dirVars, job, synced, loadVars, begun, saved, dismissed, tampers>>,
         pc["cycle"] = "load.read", Goto("cycle", "work"),
         \/ mem # NoCycle /\ mem' = mem
         \/ mem' = entry[StateFile] /\ entry[StateFile].kind = "cycle",
         detected' \in BOOLEAN
  PROVE  IInv'
<1>1. TypeOK /\ Holder /\ Files /\ InHand /\ Quarantining /\ Kept /\ Alone
  BY DEF IInv
<1>2. /\ pc'["cycle"] = "work" /\ pc'["status"] = pc["status"]
      /\ "cycle" \in Processes /\ "status" \in Processes
  BY <1>1, GotoEffect DEF Processes
<1>3. /\ mem' \in Content /\ mem' # NoCycle /\ mem'.kind = "cycle"
      /\ mem'.run <= begun /\ saved[mem'.run] <= mem'.n
  BY <1>1, FoundContent DEF Holder, TypeOK
<1>4. TypeOK'
  BY <1>1, <1>2, <1>3, GotoEffect DEF TypeOK, dirVars, ghosts, loadVars
<1>5. Holder'
  BY <1>1, <1>2, <1>3 DEF Holder, ghosts, Busy, Writing
<1>6. Files'
  BY <1>1, FilesFrame DEF ghosts
<1>7. InHand'
  BY <1>1, <1>2, InHandFrame
<1>8. Quarantining'
  <2>1. \A p \in Processes :
          \/ pc'[p] = pc[p] /\ raw'[p] = raw[p] /\ stamp'[p] = stamp[p]
          \/ pc'[p] \notin Putting
    BY <1>2 DEF loadVars, Processes, Putting
  <2> QED BY <1>1, <2>1, QuarantiningFrame
<1>9. Kept'
  <2>1. entry[StateFile] \in may[StateFile] /\ entry[StateFile] \in Content
    BY <1>1, FoundContent
  <2>2. \A r \in RunId : InPlace(r) /\ (mem = NoCycle \/ mem.run = r) => mem'.run = r
    BY <1>3, <2>1, RefusedContent DEF InPlace
  <2> QED BY <1>1, <2>2 DEF Kept, dirVars, ghosts, Archived, PutAway, InPlace
<1>10. Alone'
  <2>1. SUFFICES ASSUME ~setup.status
                 PROVE  Alone'
    BY DEF Alone
  <2>2. \A s \in Stamps : may[CorruptFile(s)] = {Absent}
    BY <1>1, <2>1 DEF Alone, Putting
  <2>3. begun > 0 /\ begun \notin dismissed
    BY <1>1, <1>3, <2>1, FoundContent DEF Alone, NoCycle
  <2> QED BY <1>1, <1>2, <2>1, <2>2, <2>3 DEF Alone, Putting, dirVars, ghosts
<1> QED BY <1>4, <1>5, <1>6, <1>7, <1>8, <1>9, <1>10 DEF IInv

\* run() begins a cycle when every earlier one is accounted for.
LEMMA BeginKeeps ==
  ASSUME TypeOK, Holder, Alone, Files', Quarantining',
         entry' \in [Names -> Content], may' \in [Names -> SUBSET Content],
         UNCHANGED <<setup, job, synced, loadVars, saved, dismissed, tampers>>,
         Goto("cycle", "work"), begun < setup.runs, begun' = begun + 1,
         mem' = CycleSave(begun + 1, 0),
         \A r \in RunId \ dismissed : saved[r] > 0 => Archived(r)' \/ PutAway',
         ~setup.status => \A s \in Stamps : may'[CorruptFile(s)] = {Absent},
         detected' \in BOOLEAN
  PROVE  IInv'
<1>1. /\ pc'["cycle"] = "work" /\ pc'["status"] = pc["status"]
      /\ "cycle" \in Processes /\ "status" \in Processes
  BY GotoEffect DEF Processes
<1>2. begun \in Nat /\ begun + 1 \in RunId /\ begun + 1 \in 0 .. MaxRuns
  BY StoreAssumption DEF TypeOK, RunId
<1>3. /\ mem' \in Content /\ mem' # NoCycle /\ mem'.kind = "cycle" /\ mem'.run = begun + 1
      /\ mem'.n = 0
  BY <1>2, Contents, StoreAssumption DEF NoCycle
<1>4. saved[begun + 1] = 0
  BY <1>2, StoreAssumption DEF Holder, TypeOK
<1>5. TypeOK'
  BY <1>1, <1>2, <1>3, GotoEffect DEF TypeOK, ghosts, loadVars
<1>6. Holder'
  <2>1. \A r \in RunId : saved'[r] > 0 => r <= begun'
    BY <1>2 DEF Holder, RunId, ghosts
  <2>2. dismissed' \subseteq 1 .. begun'
    BY <1>2 DEF Holder, ghosts
  <2> QED BY <1>1, <1>2, <1>3, <1>4, <2>1, <2>2 DEF Holder, ghosts, Busy, Writing
<1>7. InHand'
  BY <1>1 DEF InHand
<1>8. Kept'
  BY DEF Kept, ghosts
<1>9. Alone'
  BY <1>1, <1>2 DEF Alone, Putting, ghosts, Holder
<1> QED BY <1>5, <1>6, <1>7, <1>8, <1>9 DEF IInv

LEMMA LoadReadKeeps ==
  ASSUME IInv, UNCHANGED setup, NEW p \in Processes, LoadRead(p)
  PROVE  IInv'
<1>1. TypeOK /\ Holder /\ Files /\ InHand /\ Quarantining /\ Kept /\ Alone
  BY DEF IInv
<1> DEFINE found == entry[StateFile]
<1>2. CASE found.kind = "newer"
  BY <1>2, EndingKeeps DEF LoadRead, Refuses, loadVars
<1>3. CASE found.kind \in {"bad", "torn"}
  <2>1. /\ pc[p] = "load.read" /\ raw' = [raw EXCEPT ![p] = found] /\ Goto(p, "q.create")
        /\ UNCHANGED <<dirVars, mem, job, synced, stamp, begun, saved, dismissed, tampers>>
        /\ detected' \in BOOLEAN
    BY <1>3 DEF LoadRead, Refuses
  <2>2. found \in Content
    BY <1>1, FoundContent
  <2>3. pc'[p] = "q.create" /\ \A q \in Processes \ {p} : pc'[q] = pc[q]
    BY <1>1, <2>1, GotoEffect DEF LoadPlaces
  <2>4. raw'[p] = found /\ \A q \in Processes \ {p} : raw'[q] = raw[q]
    BY <1>1, <2>1 DEF TypeOK
  <2>5. TypeOK'
    BY <1>1, <2>1, <2>2, GotoEffect DEF TypeOK, dirVars, ghosts, LoadPlaces
  <2>6. Holder'
    BY <1>1, <2>1, <2>3 DEF Holder, Processes, ghosts, Busy, Writing, LoadPlaces
  <2>7. Files'
    BY <1>1, <2>1, FilesFrame DEF ghosts
  <2>8. InHand'
    BY <1>1, <2>1, <2>3, InHandFrame DEF Processes
  <2>9. Quarantining'
    <3>1. ASSUME NEW q \in Processes, q # p
          PROVE  pc'[q] = pc[q] /\ raw'[q] = raw[q] /\ stamp'[q] = stamp[q]
      BY <2>1, <2>3, <2>4, <3>1
    <3> QED BY <1>1, <1>3, <2>1, <2>3, <2>4, <3>1 DEF Quarantining, dirVars, Putting
  <2>10. Kept'
    BY <1>1, <2>1, KeptFrame
  <2>11. Alone'
    BY <1>1, <2>1, <2>3, <2>4 DEF Alone, Putting, dirVars, ghosts, Processes
  <2> QED BY <2>5, <2>6, <2>7, <2>8, <2>9, <2>10, <2>11 DEF IInv
<1>4. CASE found.kind \in {"absent", "cycle"} /\ p = "status"
  BY <1>4, EndingKeeps DEF LoadRead, Refuses, loadVars
<1>5. CASE found.kind \in {"absent", "cycle"} /\ p = "cycle"
  <2>1. /\ pc["cycle"] = "load.read" /\ Loaded(found)
        /\ UNCHANGED <<dirVars, job, synced, stamp, saved, dismissed, tampers>>
        /\ detected' \in BOOLEAN
    BY <1>5 DEF LoadRead, Refuses
  <2>2. CASE found = Absent /\ mem = NoCycle
    <3>1. CASE Off("cycle") /\ UNCHANGED begun
      BY <2>1, <3>1, EndingKeeps DEF Processes
    <3>2. CASE /\ begun < setup.runs /\ begun' = begun + 1 /\ mem' = CycleSave(begun + 1, 0)
               /\ Goto("cycle", "work") /\ UNCHANGED raw
      <4>1. \A r \in RunId \ dismissed : saved[r] > 0 => Archived(r) \/ PutAway
        <5>1. Absent \in may[StateFile] /\ Absent \in Content
          BY <1>1, <2>2, FoundContent, Contents
        <5>2. \A r \in RunId : ~InPlace(r)
          BY <5>1, RefusedContent, Contents, StoreAssumption DEF InPlace, RunId, Absent, Plain
        <5> QED BY <1>1, <5>2 DEF Kept
      <4>2. ~setup.status => \A s \in Stamps : may[CorruptFile(s)] = {Absent}
        BY <1>1, <2>1 DEF Alone, Putting
      <4>3. Files'
        BY <1>1, <2>1, <3>2, FilesFrame DEF ghosts
      <4>4. Quarantining'
        <5>1. pc'["cycle"] = "work" /\ pc'["status"] = pc["status"]
          BY <1>1, <3>2, GotoEffect DEF Processes
        <5>2. \A q \in Processes :
                \/ pc'[q] = pc[q] /\ raw'[q] = raw[q] /\ stamp'[q] = stamp[q]
                \/ pc'[q] \notin Putting
          BY <2>1, <3>2, <5>1 DEF Processes, Putting
        <5> QED BY <1>1, <2>1, <5>2, QuarantiningFrame
      <4>5. \A r \in RunId \ dismissed : saved[r] > 0 => Archived(r)' \/ PutAway'
        BY <2>1, <4>1 DEF dirVars, Archived, PutAway
      <4>6. /\ entry' \in [Names -> Content] /\ may' \in [Names -> SUBSET Content]
            /\ ~setup.status => \A s \in Stamps : may'[CorruptFile(s)] = {Absent}
        BY <1>1, <2>1, <4>2 DEF dirVars, TypeOK
      <4> QED BY <1>1, <2>1, <3>2, <4>3, <4>4, <4>5, <4>6, BeginKeeps DEF loadVars
    <3> QED BY <2>1, <2>2, <3>1, <3>2 DEF Loaded
  <2>3. CASE found = Absent /\ mem # NoCycle
    BY <2>1, <2>3, PickUpKeeps DEF Loaded, loadVars, ghosts, dirVars, IInv
  <2>4. CASE found # Absent
    <3>1. found.kind = "cycle"
      BY <1>1, <1>5, <2>4, FoundContent
    <3>2. /\ mem' = found \/ (mem # NoCycle /\ mem' = mem)
          /\ Goto("cycle", "work") /\ UNCHANGED <<raw, begun>>
      BY <2>1, <2>4 DEF Loaded
    <3> QED BY <2>1, <3>1, <3>2, PickUpKeeps DEF loadVars
  <2> QED BY <2>2, <2>3, <2>4
<1>6. found.kind \in {"absent", "cycle", "bad", "newer"}
  BY <1>1, FoundContent
<1> QED BY <1>2, <1>3, <1>4, <1>5, <1>6 DEF Processes

-----------------------------------------------------------------------------
(* The quarantine of a load that found something unreadable.                *)

\* What is durable stays so while no name gains a content.
LEMMA ShrinkingKeeps ==
  ASSUME \A name \in Names : may'[name] \subseteq may[name]
  PROVE  /\ \A r \in RunId : (Archived(r) => Archived(r)') /\ (InPlace(r) => InPlace(r)')
         /\ PutAway => PutAway'
<1>1. /\ StateFile \in Names /\ \A r \in RunId : ArchiveFile(r) \in Names
      /\ \A s \in Stamps : CorruptFile(s) \in Names
  BY NamesApart
<1> QED BY <1>1 DEF Archived, InPlace, PutAway

LEMMA SyncFiles ==
  ASSUME TypeOK, Files, NEW dir, Sync(dir), UNCHANGED <<setup, saved>>,
         begun' \in {begun, begun + 1}
  PROVE  Files' /\ \A name \in Names : may'[name] \subseteq may[name]
<1>1. /\ entry' = entry
      /\ \A n \in Names : may'[n] = IF n \in dir THEN {entry[n]} ELSE may[n]
  BY SyncEffect DEF TypeOK
<1>2. \A n \in Names : may'[n] \subseteq may[n] /\ entry'[n] \in may'[n]
  BY <1>1 DEF Files
<1>3. /\ StateFile \in Names /\ HistoryDir \in Names
      /\ \A r \in RunId : ArchiveFile(r) \in Names /\ ReportFile(r) \in Names
  BY NamesApart
<1>4. may'[HistoryDir] = {Plain("dir")}
  BY <1>2, <1>3 DEF Files
<1>5. Refuses(entry'[StateFile]) => may'[StateFile] = {entry'[StateFile]}
  BY <1>1, <1>3 DEF Files
<1>6. \A c \in may'[StateFile] :
        /\ c.kind \in {"absent", "cycle", "bad", "newer"}
        /\ c.kind = "cycle" => c.run <= begun' /\ saved'[c.run] <= c.n
  <2>1. begun \in Nat /\ begun <= begun'
    BY StoreAssumption DEF TypeOK
  <2>2. \A c \in may'[StateFile] : c \in Content /\ (c.kind = "cycle" => c.run \in Nat)
    BY <1>2, <1>3, Contents, StoreAssumption DEF RunId, TypeOK
  <2> QED BY <1>2, <1>3, <2>1, <2>2 DEF Files
<1> QED BY <1>2, <1>3, <1>4, <1>5, <1>6 DEF Files

\* A change of one quarantined file leaves state.json and the archive alone.
LEMMA CorruptFilesApart ==
  ASSUME TypeOK, Files, UNCHANGED <<setup, begun, saved>>, NEW s \in Stamps,
         \A n \in Names \ {CorruptFile(s)} : entry'[n] = entry[n] /\ may'[n] = may[n],
         entry'[CorruptFile(s)] \in may'[CorruptFile(s)]
  PROVE  /\ Files'
         /\ entry'[StateFile] = entry[StateFile] /\ may'[StateFile] = may[StateFile]
         /\ \A r \in RunId : /\ entry'[ArchiveFile(r)] = entry[ArchiveFile(r)]
                             /\ may'[ArchiveFile(r)] = may[ArchiveFile(r)]
         /\ \A t \in Stamps \ {s} : /\ entry'[CorruptFile(t)] = entry[CorruptFile(t)]
                                    /\ may'[CorruptFile(t)] = may[CorruptFile(t)]
<1>1. /\ StateFile \in Names \ {CorruptFile(s)} /\ HistoryDir \in Names \ {CorruptFile(s)}
      /\ \A r \in RunId : /\ ArchiveFile(r) \in Names \ {CorruptFile(s)}
                          /\ ReportFile(r) \in Names \ {CorruptFile(s)}
      /\ \A t \in Stamps \ {s} : CorruptFile(t) \in Names \ {CorruptFile(s)}
  BY NamesApart
<1>2. \A n \in Names : entry'[n] \in may'[n]
  BY DEF Files
<1> QED BY <1>1, <1>2 DEF Files

LEMMA QuarantineCreateKeeps ==
  ASSUME IInv, UNCHANGED setup, NEW p \in Processes, QuarantineCreate(p)
  PROVE  IInv'
<1>1. TypeOK /\ Holder /\ Files /\ InHand /\ Quarantining /\ Kept /\ Alone
  BY DEF IInv
<1>2. /\ pc[p] = "q.create"
      /\ UNCHANGED <<job, synced, begun, ghosts, tampers>>
  BY DEF QuarantineCreate
<1>3. CASE Off(p) /\ UNCHANGED <<dirVars, stamp>>
  BY <1>1, <1>2, <1>3, EndingKeeps DEF ghosts, TypeOK
<1>4. ASSUME NEW s \in Stamps, s \notin Quarantines, Put(CorruptFile(s), Torn, {Torn}),
             stamp' = [stamp EXCEPT ![p] = s], Goto(p, "q.write"), UNCHANGED <<mem, raw>>
      PROVE  IInv'
  <2>1. /\ entry[CorruptFile(s)] = Absent /\ may[CorruptFile(s)] = {Absent}
        /\ CorruptFile(s) \in Names
    BY <1>1, <1>4, NamesApart DEF Quarantines, Quarantining
  <2>2. /\ entry'[CorruptFile(s)] = Torn /\ may'[CorruptFile(s)] = {Absent, Torn}
        /\ \A n \in Names \ {CorruptFile(s)} : entry'[n] = entry[n] /\ may'[n] = may[n]
        /\ Torn # Absent
    <3>1. entry \in [Names -> Content] /\ may \in [Names -> SUBSET Content]
      BY <1>1 DEF TypeOK
    <3>2. /\ entry'[CorruptFile(s)] = Torn /\ may'[CorruptFile(s)] = may[CorruptFile(s)] \cup {Torn}
          /\ \A n \in Names \ {CorruptFile(s)} : entry'[n] = entry[n] /\ may'[n] = may[n]
      BY <1>4, <2>1, <3>1, PutEffect
    <3>3. Torn # Absent
      BY Contents
    <3> QED BY <2>1, <3>2, <3>3
  <2>3. /\ pc'[p] = "q.write" /\ \A q \in Processes \ {p} : pc'[q] = pc[q]
        /\ stamp'[p] = s /\ \A q \in Processes \ {p} : stamp'[q] = stamp[q]
    BY <1>1, <1>4, GotoEffect DEF LoadPlaces, TypeOK
  <2>4. /\ Files'
        /\ entry'[StateFile] = entry[StateFile] /\ may'[StateFile] = may[StateFile]
        /\ \A r \in RunId : /\ entry'[ArchiveFile(r)] = entry[ArchiveFile(r)]
                            /\ may'[ArchiveFile(r)] = may[ArchiveFile(r)]
        /\ \A t \in Stamps \ {s} : /\ entry'[CorruptFile(t)] = entry[CorruptFile(t)]
                                   /\ may'[CorruptFile(t)] = may[CorruptFile(t)]
    BY <1>1, <1>2, <2>2, CorruptFilesApart DEF ghosts
  <2>5. TypeOK'
    <3>1. entry' \in [Names -> Content] /\ may' \in [Names -> SUBSET Content]
      BY <1>1, <1>4, <2>1, PutTypes, Contents DEF TypeOK
    <3>2. stamp' \in [Processes -> Stamps \cup {0}]
      BY <1>1, <1>4 DEF TypeOK
    <3> QED BY <1>1, <1>2, <1>4, <3>1, <3>2, GotoEffect DEF TypeOK, ghosts, LoadPlaces
  <2>6. Holder'
    BY <1>1, <1>2, <1>4, <2>3 DEF Holder, Processes, ghosts, Busy, Writing, LoadPlaces
  <2>7. PutAway => PutAway'
    BY <2>1, <2>4, PutAwayFrame
  <2>8. InHand'
    <3>1. pc'["cycle"] \in {"dirsync", "unlink", "reset"} => pc["cycle"] = pc'["cycle"]
      BY <2>3 DEF Processes
    <3>2. pc["cycle"] \in {"dirsync", "unlink", "reset"} => mem.run \in RunId
      BY <1>1, Contents DEF Holder, Busy, Writing, TypeOK
    <3> QED BY <1>1, <1>2, <1>4, <2>4, <2>7, <3>1, <3>2 DEF InHand
  <2>9. Quarantining'
    <3>1. \A t \in Stamps : entry'[CorruptFile(t)] = Absent => may'[CorruptFile(t)] = {Absent}
      BY <1>1, <2>2, <2>4 DEF Quarantining
    <3>2. ASSUME NEW q \in Processes, q # p, pc[q] \in Putting \ {"q.create"}
          PROVE  stamp[q] # s
      BY <1>1, <2>1, <3>2 DEF Quarantining
    <3>3. ASSUME NEW q \in Processes, q # p
          PROVE  /\ pc'[q] \in Putting => raw'[q].kind \in {"bad", "torn"}
                 /\ pc'[q] \in Putting \ {"q.create"} =>
                      stamp'[q] \in Stamps /\ entry'[CorruptFile(stamp'[q])] # Absent
                 /\ pc'[q] \in {"q.unlink", "q.done"} => Absent \notin may'[CorruptFile(stamp'[q])]
      BY <1>1, <1>4, <2>3, <2>4, <3>2, <3>3 DEF Quarantining, Putting
    <3>4. raw'[p].kind \in {"bad", "torn"}
      BY <1>1, <1>2, <1>4 DEF Quarantining, Putting
    <3> QED BY <1>4, <2>2, <2>3, <3>1, <3>3, <3>4 DEF Quarantining
  <2>10. Kept'
    BY <1>1, <1>2, <1>4, <2>4, <2>7 DEF Kept, ghosts, Archived, InPlace
  <2>11. Alone'
    <3>1. SUFFICES ASSUME ~setup.status
                   PROVE  Alone'
      BY DEF Alone
    <3>2. p = "cycle"
      BY <1>1, <1>2, <3>1 DEF Processes, Alone
    <3>3. \A c \in may[StateFile] : c.kind # "cycle"
      BY <1>1, <1>2, <3>1, <3>2, FoundContent DEF Alone, Putting, Quarantining, Files, Refuses
    <3> QED BY <1>1, <1>2, <1>4, <2>3, <2>4, <3>1, <3>2, <3>3 DEF Alone, Putting, ghosts, Processes
  <2> QED BY <2>4, <2>5, <2>6, <2>8, <2>9, <2>10, <2>11 DEF IInv
<1> QED BY <1>3, <1>4 DEF QuarantineCreate

LEMMA QuarantineWriteKeeps ==
  ASSUME IInv, UNCHANGED setup, NEW p \in Processes, QuarantineWrite(p)
  PROVE  IInv'
<1>1. TypeOK /\ Holder /\ Files /\ InHand /\ Quarantining /\ Kept /\ Alone
  BY DEF IInv
<1> DEFINE s == stamp[p]
<1>2. /\ pc[p] = "q.write" /\ Goto(p, "q.sync")
      /\ entry' = [entry EXCEPT ![CorruptFile(s)] = raw[p]]
      /\ may' = [may EXCEPT ![CorruptFile(s)] = {c \in @ : c = Absent} \cup {raw[p]}]
      /\ UNCHANGED <<mem, job, synced, loadVars, begun, ghosts, tampers>>
  BY DEF QuarantineWrite
<1>3. /\ s \in Stamps /\ entry[CorruptFile(s)] # Absent /\ CorruptFile(s) \in Names
      /\ raw[p] \in Content /\ raw[p].kind \in {"bad", "torn"} /\ raw[p] # Absent
  BY <1>1, <1>2, NamesApart, Contents DEF Quarantining, Putting, TypeOK
<1> HIDE DEF s
<1>4. /\ entry'[CorruptFile(s)] = raw[p]
      /\ raw[p] \in may'[CorruptFile(s)]
      /\ \A c \in may'[CorruptFile(s)] : c = raw[p] \/ (c = Absent /\ c \in may[CorruptFile(s)])
      /\ \A n \in Names \ {CorruptFile(s)} : entry'[n] = entry[n] /\ may'[n] = may[n]
  BY <1>1, <1>2, <1>3 DEF TypeOK
<1>5. /\ pc'[p] = "q.sync" /\ \A q \in Processes \ {p} : pc'[q] = pc[q]
  BY <1>1, <1>2, GotoEffect DEF LoadPlaces
<1>6. /\ Files'
      /\ entry'[StateFile] = entry[StateFile] /\ may'[StateFile] = may[StateFile]
      /\ \A r \in RunId : /\ entry'[ArchiveFile(r)] = entry[ArchiveFile(r)]
                          /\ may'[ArchiveFile(r)] = may[ArchiveFile(r)]
      /\ \A t \in Stamps \ {s} : /\ entry'[CorruptFile(t)] = entry[CorruptFile(t)]
                                 /\ may'[CorruptFile(t)] = may[CorruptFile(t)]
  BY <1>1, <1>2, <1>3, <1>4, CorruptFilesApart DEF ghosts
<1>7. TypeOK'
  <2>1. Absent \in Content /\ {c \in may[CorruptFile(s)] : c = Absent} \subseteq Content
    BY <1>1, <1>3, Contents DEF TypeOK
  <2>2. entry' \in [Names -> Content] /\ may' \in [Names -> SUBSET Content]
    BY <1>1, <1>2, <1>3, <2>1 DEF TypeOK
  <2> QED BY <1>1, <1>2, <2>2, GotoEffect DEF TypeOK, ghosts, loadVars, LoadPlaces
<1>8. Holder'
  BY <1>1, <1>2, <1>5 DEF Holder, Processes, ghosts, Busy, Writing, LoadPlaces
<1>9. PutAway => PutAway'
  BY <1>3, <1>4, <1>6, PutAwayFrame
<1>10. InHand'
  <2>1. pc'["cycle"] \in {"dirsync", "unlink", "reset"} => pc["cycle"] = pc'["cycle"]
    BY <1>5 DEF Processes
  <2>2. pc["cycle"] \in {"dirsync", "unlink", "reset"} => mem.run \in RunId
    BY <1>1, Contents DEF Holder, Busy, Writing, TypeOK
  <2> QED BY <1>1, <1>2, <1>6, <1>9, <2>1, <2>2 DEF InHand
<1>11. Quarantining'
  <2>1. \A t \in Stamps : entry'[CorruptFile(t)] = Absent => may'[CorruptFile(t)] = {Absent}
    BY <1>1, <1>3, <1>4, <1>6 DEF Quarantining
  <2>2. ASSUME NEW q \in Processes, q # p
        PROVE  /\ pc'[q] \in Putting => raw'[q].kind \in {"bad", "torn"}
               /\ pc'[q] \in Putting \ {"q.create"} =>
                    stamp'[q] \in Stamps /\ entry'[CorruptFile(stamp'[q])] # Absent
               /\ pc'[q] \in {"q.unlink", "q.done"} => Absent \notin may'[CorruptFile(stamp'[q])]
    BY <1>1, <1>2, <1>3, <1>4, <1>5, <1>6, <2>2 DEF Quarantining, Putting, loadVars
  <2> QED BY <1>2, <1>3, <1>4, <1>5, <2>1, <2>2 DEF Quarantining, loadVars, s
<1>12. Kept'
  BY <1>1, <1>2, <1>6, <1>9 DEF Kept, ghosts, Archived, InPlace
<1>13. Alone'
  <2>1. SUFFICES ASSUME ~setup.status
                 PROVE  Alone'
    BY DEF Alone
  <2>2. p = "cycle"
    BY <1>1, <1>2, <2>1 DEF Processes, Alone
  <2>3. may[CorruptFile(s)] # {Absent}
    BY <1>1, <1>3, Contents DEF Files
  <2> QED BY <1>1, <1>2, <1>3, <1>4, <1>5, <1>6, <2>1, <2>2, <2>3
          DEF Alone, Putting, ghosts, loadVars, Processes, s
<1> QED BY <1>6, <1>7, <1>8, <1>10, <1>11, <1>12, <1>13 DEF IInv

LEMMA QuarantineSyncKeeps ==
  ASSUME IInv, UNCHANGED setup, NEW p \in Processes, QuarantineSync(p)
  PROVE  IInv'
<1>1. TypeOK /\ Holder /\ Files /\ InHand /\ Quarantining /\ Kept /\ Alone
  BY DEF IInv
<1>2. /\ pc[p] = "q.sync" /\ Goto(p, "q.unlink") /\ Sync(InStateDir)
      /\ UNCHANGED <<mem, job, synced, loadVars, begun, ghosts, tampers>>
  BY DEF QuarantineSync
<1>3. /\ entry' = entry /\ may' \in [Names -> SUBSET Content]
      /\ \A n \in Names : may'[n] = IF n \in InStateDir THEN {entry[n]} ELSE may[n]
  BY <1>1, <1>2, SyncEffect DEF TypeOK
<1>4. Files' /\ \A n \in Names : may'[n] \subseteq may[n]
  BY <1>1, <1>2, SyncFiles DEF ghosts
<1>5. pc'[p] = "q.unlink" /\ \A q \in Processes \ {p} : pc'[q] = pc[q]
  BY <1>1, <1>2, GotoEffect DEF LoadPlaces
<1>6. /\ \A t \in Stamps : may'[CorruptFile(t)] = {entry[CorruptFile(t)]}
      /\ may'[StateFile] = {entry[StateFile]}
      /\ \A r \in RunId : may'[ArchiveFile(r)] = may[ArchiveFile(r)]
  BY <1>3, NamesApart
<1>7. TypeOK'
  BY <1>1, <1>2, <1>3, GotoEffect DEF TypeOK, ghosts, loadVars, LoadPlaces
<1>8. Holder'
  BY <1>1, <1>2, <1>5 DEF Holder, Processes, ghosts, Busy, Writing, LoadPlaces
<1>9. /\ \A r \in RunId : (Archived(r) => Archived(r)') /\ (InPlace(r) => InPlace(r)')
      /\ PutAway => PutAway'
  BY <1>4, ShrinkingKeeps
<1>10. InHand'
  <2>1. pc'["cycle"] \in {"dirsync", "unlink", "reset"} => pc["cycle"] = pc'["cycle"]
    BY <1>5 DEF Processes
  <2>2. pc["cycle"] \in {"dirsync", "unlink", "reset"} => mem.run \in RunId
    BY <1>1, Contents DEF Holder, Busy, Writing, TypeOK
  <2> QED BY <1>1, <1>2, <1>3, <1>6, <1>9, <2>1, <2>2 DEF InHand
<1>11. Quarantining'
  BY <1>1, <1>2, <1>3, <1>5, <1>6 DEF Quarantining, Putting, loadVars
<1>12. Kept'
  BY <1>1, <1>2, <1>9 DEF Kept, ghosts
<1>13. Alone'
  <2>1. SUFFICES ASSUME ~setup.status
                 PROVE  Alone'
    BY DEF Alone
  <2>2. p = "cycle"
    BY <1>1, <1>2, <2>1 DEF Processes, Alone
  <2>3. \A t \in Stamps : may[CorruptFile(t)] = {Absent} => may'[CorruptFile(t)] = {Absent}
    BY <1>1, <1>6, NamesApart DEF Files
  <2>4. may[StateFile] = {Absent} => may'[StateFile] = {Absent}
    BY <1>1, <1>6, NamesApart DEF Files
  <2>5. \A c \in may'[StateFile] : c \in may[StateFile]
    BY <1>4, NamesApart
  <2>6. may'[CorruptFile(stamp["cycle"])] = {raw["cycle"]}
    BY <1>1, <1>2, <1>6, <2>1, <2>2 DEF Alone, Quarantining, Putting, Processes
  <2> QED BY <1>1, <1>2, <1>3, <1>5, <2>1, <2>2, <2>3, <2>4, <2>5, <2>6
          DEF Alone, Putting, ghosts, loadVars, Processes
<1> QED BY <1>4, <1>7, <1>8, <1>10, <1>11, <1>12, <1>13 DEF IInv

\* state.json is removed only when something that must stay is durable.
LEMMA StateGone ==
  ASSUME TypeOK, Files, Put(StateFile, Absent, {Absent}), UNCHANGED <<setup, begun, saved>>
  PROVE  /\ Files'
         /\ entry' \in [Names -> Content] /\ may' \in [Names -> SUBSET Content]
         /\ entry'[StateFile] = Absent /\ may'[StateFile] = may[StateFile] \cup {Absent}
         /\ \A r \in RunId : /\ entry'[ArchiveFile(r)] = entry[ArchiveFile(r)]
                             /\ may'[ArchiveFile(r)] = may[ArchiveFile(r)]
         /\ \A s \in Stamps : /\ entry'[CorruptFile(s)] = entry[CorruptFile(s)]
                              /\ may'[CorruptFile(s)] = may[CorruptFile(s)]
<1>1. /\ StateFile \in Names /\ HistoryDir \in Names \ {StateFile}
      /\ \A r \in RunId : /\ ArchiveFile(r) \in Names \ {StateFile}
                          /\ ReportFile(r) \in Names \ {StateFile}
      /\ \A s \in Stamps : CorruptFile(s) \in Names \ {StateFile}
  BY NamesApart
<1>2. /\ entry'[StateFile] = Absent /\ may'[StateFile] = may[StateFile] \cup {Absent}
      /\ \A n \in Names \ {StateFile} : entry'[n] = entry[n] /\ may'[n] = may[n]
  BY <1>1, PutEffect DEF TypeOK
<1>3. entry' \in [Names -> Content] /\ may' \in [Names -> SUBSET Content]
  BY <1>1, PutTypes, Contents DEF TypeOK
<1>4. \A n \in Names : entry'[n] \in may'[n]
  BY <1>1, <1>2 DEF Files
<1>5. ~Refuses(Absent)
  BY Contents DEF Refuses
<1> QED BY <1>1, <1>2, <1>3, <1>4, <1>5, Contents DEF Files

LEMMA QuarantineUnlinkKeeps ==
  ASSUME IInv, UNCHANGED setup, NEW p \in Processes, QuarantineUnlink(p)
  PROVE  IInv'
<1>1. TypeOK /\ Holder /\ Files /\ InHand /\ Quarantining /\ Kept /\ Alone
  BY DEF IInv
<1>2. /\ pc[p] = "q.unlink" /\ Goto(p, "q.done") /\ Put(StateFile, Absent, {Absent})
      /\ UNCHANGED <<mem, job, synced, loadVars, begun, saved, dismissed, tampers>>
      /\ detected' \in BOOLEAN
  BY DEF QuarantineUnlink
<1>3. /\ Files'
      /\ entry' \in [Names -> Content] /\ may' \in [Names -> SUBSET Content]
      /\ entry'[StateFile] = Absent /\ may'[StateFile] = may[StateFile] \cup {Absent}
      /\ \A r \in RunId : /\ entry'[ArchiveFile(r)] = entry[ArchiveFile(r)]
                          /\ may'[ArchiveFile(r)] = may[ArchiveFile(r)]
      /\ \A s \in Stamps : /\ entry'[CorruptFile(s)] = entry[CorruptFile(s)]
                           /\ may'[CorruptFile(s)] = may[CorruptFile(s)]
  BY <1>1, <1>2, StateGone DEF ghosts
<1>4. pc'[p] = "q.done" /\ \A q \in Processes \ {p} : pc'[q] = pc[q]
  BY <1>1, <1>2, GotoEffect DEF LoadPlaces
<1>5. /\ stamp[p] \in Stamps /\ Absent \notin may[CorruptFile(stamp[p])]
      /\ entry[CorruptFile(stamp[p])] # Absent
  BY <1>1, <1>2 DEF Quarantining, Putting
<1>6. PutAway'
  BY <1>3, <1>5 DEF PutAway
<1>7. TypeOK'
  BY <1>1, <1>2, <1>3, GotoEffect DEF TypeOK, ghosts, loadVars, LoadPlaces
<1>8. Holder'
  BY <1>1, <1>2, <1>4 DEF Holder, Processes, ghosts, Busy, Writing, LoadPlaces
<1>9. InHand'
  <2>1. pc'["cycle"] \in {"dirsync", "unlink", "reset"} => pc["cycle"] = pc'["cycle"]
    BY <1>4 DEF Processes
  <2>2. pc["cycle"] \in {"dirsync", "unlink", "reset"} => mem.run \in RunId
    BY <1>1, Contents DEF Holder, Busy, Writing, TypeOK
  <2> QED BY <1>1, <1>2, <1>3, <1>6, <2>1, <2>2 DEF InHand
<1>10. Quarantining'
  BY <1>1, <1>2, <1>3, <1>4, <1>5 DEF Quarantining, Putting, loadVars
<1>11. Kept'
  BY <1>6 DEF Kept
<1>12. Alone'
  <2>1. SUFFICES ASSUME ~setup.status
                 PROVE  Alone'
    BY DEF Alone
  <2>2. p = "cycle"
    BY <1>1, <1>2, <2>1 DEF Processes, Alone
  <2>3. may[CorruptFile(stamp[p])] # {Absent} /\ Absent.kind # "cycle"
    BY <1>5, Contents
  <2>4. may[StateFile] # {Absent}
    BY <1>1, <1>2, <1>5, <2>1, <2>2, FoundContent, Contents DEF Alone, Quarantining, Putting
  <2> QED BY <1>1, <1>2, <1>3, <1>4, <1>5, <2>1, <2>2, <2>3, <2>4
          DEF Alone, Putting, ghosts, loadVars, Processes
<1> QED BY <1>3, <1>7, <1>8, <1>9, <1>10, <1>11, <1>12 DEF IInv

\* The load fails once the removal is durable.
LEMMA QuarantineDoneKeeps ==
  ASSUME IInv, UNCHANGED setup, NEW p \in Processes, QuarantineDone(p)
  PROVE  IInv'
<1>1. TypeOK /\ Holder /\ Files /\ InHand /\ Quarantining /\ Kept /\ Alone
  BY DEF IInv
<1>2. /\ pc[p] = "q.done" /\ Sync(InStateDir) /\ Off(p)
      /\ UNCHANGED <<job, synced, stamp, begun, ghosts, tampers>>
  BY DEF QuarantineDone
<1>3. /\ entry' = entry /\ may' \in [Names -> SUBSET Content]
      /\ \A n \in Names : may'[n] = IF n \in InStateDir THEN {entry[n]} ELSE may[n]
  BY <1>1, <1>2, SyncEffect DEF TypeOK
<1>4. Files' /\ \A n \in Names : may'[n] \subseteq may[n]
  BY <1>1, <1>2, SyncFiles DEF ghosts
<1>5. /\ \A t \in Stamps : may'[CorruptFile(t)] = {entry[CorruptFile(t)]}
      /\ may'[StateFile] = {entry[StateFile]}
      /\ \A r \in RunId : may'[ArchiveFile(r)] = may[ArchiveFile(r)]
  BY <1>3, NamesApart
<1>6. TypeOK'
  BY <1>1, <1>2, <1>3, OffEffect DEF TypeOK, ghosts
<1>7. Holder'
  BY <1>1, <1>2, OffEffect DEF Holder, Processes, ghosts, Busy, Writing
<1>8. /\ \A r \in RunId : (Archived(r) => Archived(r)') /\ (InPlace(r) => InPlace(r)')
      /\ PutAway => PutAway'
  BY <1>4, ShrinkingKeeps
<1>9. InHand'
  <2>1. pc'["cycle"] \in {"dirsync", "unlink", "reset"} => p = "status"
    BY <1>1, <1>2, OffEffect DEF Processes
  <2>2. CASE p = "status"
    <3>1. pc'["cycle"] = pc["cycle"] /\ mem' = mem
      BY <1>1, <1>2, <2>2, OffEffect DEF Processes
    <3>2. pc["cycle"] \in {"dirsync", "unlink", "reset"} => mem.run \in RunId
      BY <1>1, Contents DEF Holder, Busy, Writing, TypeOK
    <3> QED BY <1>1, <1>2, <1>3, <1>5, <1>8, <3>1, <3>2 DEF InHand
  <2> QED BY <2>1, <2>2 DEF InHand, Processes
<1>10. Quarantining'
  <2>1. \A q \in Processes \ {p} : pc'[q] = pc[q] /\ raw'[q] = raw[q]
    BY <1>1, <1>2, OffEffect
  <2>2. pc'[p] = "off"
    BY <1>1, <1>2, OffEffect
  <2> QED BY <1>1, <1>2, <1>3, <1>5, <2>1, <2>2 DEF Quarantining, Putting
<1>11. Kept'
  BY <1>1, <1>2, <1>8, OffEffect DEF Kept, ghosts
<1>12. Alone'
  <2>1. SUFFICES ASSUME ~setup.status
                 PROVE  Alone'
    BY DEF Alone
  <2>2. p = "cycle"
    BY <1>1, <1>2, <2>1 DEF Processes, Alone
  <2>3. pc'["cycle"] = "off" /\ mem' = NoCycle /\ pc'["status"] = "off"
    BY <1>1, <1>2, <2>1, <2>2, OffEffect DEF Processes, Alone
  <2>4. \A t \in Stamps : may[CorruptFile(t)] = {Absent} => may'[CorruptFile(t)] = {Absent}
    BY <1>1, <1>5, NamesApart DEF Files
  <2>5. may[StateFile] = {Absent} => may'[StateFile] = {Absent}
    BY <1>1, <1>5, NamesApart DEF Files
  <2>6. \A c \in may'[StateFile] : c \in may[StateFile]
    BY <1>4, NamesApart
  <2> QED BY <1>1, <1>2, <2>1, <2>3, <2>4, <2>5, <2>6 DEF Alone, Putting, ghosts
<1> QED BY <1>4, <1>6, <1>7, <1>9, <1>10, <1>11, <1>12 DEF IInv

-----------------------------------------------------------------------------
(* save(), save_report() and archive()                                      *)

\* The cycle that a process with the lock works on.
LEMMA InHandIsCycle ==
  ASSUME TypeOK, Holder, mem # NoCycle
  PROVE  /\ mem \in Content /\ mem.kind = "cycle" /\ mem.run \in RunId /\ mem.n \in 0 .. MaxSaves
         /\ mem.run <= begun /\ saved[mem.run] <= mem.n /\ mem = CycleSave(mem.run, mem.n)
         /\ mem # Absent /\ mem # Torn /\ mem.run # 0
         /\ \A k : [mem EXCEPT !.n = k] = CycleSave(mem.run, k)
<1>1. mem \in Content /\ mem.kind = "cycle"
  BY DEF TypeOK
<1>2. mem.run \in RunId /\ mem.n \in 0 .. MaxSaves
  BY <1>1, Contents
<1>3. mem # Absent /\ mem # Torn /\ mem.run # 0
  BY <1>1, <1>2, Contents, StoreAssumption DEF RunId
<1> QED BY <1>1, <1>2, <1>3, CycleIsSave DEF Holder

\* The steps of an atomic write that touch no name.
LEMMA WritingGoesOn ==
  ASSUME IInv, UNCHANGED <<setup, dirVars, loadVars, begun, ghosts, tampers>>,
         pc["cycle"] \in Busy,
         NEW place \in {"mkdir", "write", "sync", "replace"}, Goto("cycle", place),
         mem' \in {mem, CycleSave(mem.run, mem.n + 1)}, mem'.n <= MaxSaves,
         job' \in {"save", "report", "archive"}, synced' \in BOOLEAN,
         place = "replace" => synced',
         place = "mkdir" => job' # "save",
         job' = "archive" => mem'.n = setup.saves,
         job' = "save" => saved[mem.run] < mem'.n
  PROVE  IInv'
<1>1. TypeOK /\ Holder /\ Files /\ InHand /\ Quarantining /\ Kept /\ Alone
  BY DEF IInv
<1>2. /\ pc'["cycle"] = place /\ pc'["status"] = pc["status"]
      /\ "cycle" \in Processes /\ "status" \in Processes
  BY <1>1, GotoEffect DEF Processes, Writing
<1>3. mem # NoCycle
  BY <1>1 DEF Holder
<1>4. /\ mem' \in Content /\ mem'.kind = "cycle" /\ mem'.run = mem.run /\ mem' # NoCycle
      /\ mem.n <= mem'.n /\ saved[mem.run] <= mem'.n
  <2>1. CASE mem' = mem
    BY <1>1, <1>3, <2>1, InHandIsCycle
  <2>2. CASE mem' = CycleSave(mem.run, mem.n + 1)
    <3>1. (mem.n + 1 <= MaxSaves /\ mem.n \in Nat) => mem.n + 1 \in 0 .. MaxSaves
      BY StoreAssumption
    <3>2. mem.n \in Nat /\ mem.run \in RunId
      BY <1>1, <1>3, InHandIsCycle, StoreAssumption
    <3>3. mem'.n = mem.n + 1
      BY <2>2 DEF CycleSave
    <3>4. /\ mem' \in Content /\ mem'.kind = "cycle" /\ mem'.run = mem.run /\ mem'.n = mem.n + 1
          /\ mem' # NoCycle
      BY <2>2, <3>1, <3>2, <3>3, Contents DEF NoCycle
    <3>5. saved[mem.run] \in Nat
      BY <1>1, <3>2, StoreAssumption DEF TypeOK
    <3> QED BY <1>1, <1>3, <3>2, <3>4, <3>5, InHandIsCycle
  <2> QED BY <2>1, <2>2
<1>5. TypeOK'
  BY <1>1, <1>2, <1>4, GotoEffect DEF TypeOK, dirVars, ghosts, loadVars, Writing
<1>6. Holder'
  BY <1>1, <1>2, <1>3, <1>4 DEF Holder, ghosts, Busy, Writing
<1>7. Files'
  BY <1>1, FilesFrame DEF ghosts
<1>8. InHand'
  BY <1>1, <1>2, InHandFrame
<1>9. Quarantining'
  <2>1. \A p \in Processes :
          \/ pc'[p] = pc[p] /\ raw'[p] = raw[p] /\ stamp'[p] = stamp[p]
          \/ pc'[p] \notin Putting
    BY <1>2 DEF loadVars, Processes, Putting
  <2> QED BY <1>1, <2>1, QuarantiningFrame
<1>10. Kept'
  BY <1>1, <1>3, <1>4 DEF Kept, dirVars, ghosts, Archived, PutAway, InPlace
<1>11. Alone'
  BY <1>1, <1>2, <1>3 DEF Alone, Putting, dirVars, ghosts, Busy, Writing
<1> QED BY <1>5, <1>6, <1>7, <1>8, <1>9, <1>10, <1>11 DEF IInv

LEMMA WorkKeeps ==
  ASSUME IInv, UNCHANGED setup, Work
  PROVE  IInv'
<1>1. TypeOK /\ Holder
  BY DEF IInv
<1>2. /\ pc["cycle"] = "work" /\ "cycle" \in Processes
      /\ UNCHANGED <<dirVars, synced, loadVars, begun, ghosts, tampers>>
  BY DEF Work, Processes
<1>3. pc["cycle"] \in Busy /\ mem # NoCycle
  BY <1>1, <1>2 DEF Busy, Holder
<1>4. /\ setup.saves \in 1 .. MaxSaves /\ MaxSaves \in Nat
      /\ mem.n \in Nat /\ mem.n <= MaxSaves
  BY <1>1, <1>3, InHandIsCycle, StoreAssumption DEF TypeOK
<1>5. /\ saved[mem.run] \in Nat /\ saved[mem.run] <= mem.n
  BY <1>1, <1>3, InHandIsCycle, StoreAssumption DEF TypeOK
<1>6. CASE /\ mem.n < setup.saves /\ mem' = [mem EXCEPT !.n = @ + 1]
           /\ job' = "save" /\ Goto("cycle", "write")
  <2>1. mem' = CycleSave(mem.run, mem.n + 1) /\ mem'.n = mem.n + 1
    BY <1>1, <1>3, <1>6, InHandIsCycle DEF CycleSave
  <2>2. mem'.n <= MaxSaves /\ saved[mem.run] < mem'.n
    BY <1>4, <1>5, <1>6, <2>1
  <2>3. synced' \in BOOLEAN
    BY <1>1, <1>2 DEF TypeOK
  <2> QED BY <1>2, <1>3, <1>6, <2>1, <2>2, <2>3, WritingGoesOn
<1>7. CASE /\ mem.n > 0
           /\ job' \in {"report"} \cup (IF mem.n = setup.saves THEN {"archive"} ELSE {})
           /\ Goto("cycle", "mkdir") /\ UNCHANGED mem
  <2>1. /\ job' \in {"report", "archive"} /\ (job' = "archive" => mem'.n = setup.saves)
        /\ mem'.n <= MaxSaves /\ mem' = mem
    BY <1>4, <1>7
  <2>2. synced' \in BOOLEAN
    BY <1>1, <1>2 DEF TypeOK
  <2> QED BY <1>2, <1>3, <1>7, <2>1, <2>2, WritingGoesOn
<1>8. CASE mem.n > 0 /\ Goto("cycle", "load.check") /\ UNCHANGED <<mem, job>>
  BY <1>2, <1>8, GoingOnKeeps
<1> QED BY <1>6, <1>7, <1>8 DEF Work

\* The history directory is there and stays: the installer made it.
LEMMA MakeHistoryKeeps ==
  ASSUME IInv, UNCHANGED setup, MakeHistory
  PROVE  IInv'
<1>1. TypeOK /\ Holder /\ Files
  BY DEF IInv
<1>2. entry[HistoryDir] # Absent
  BY <1>1, NamesApart, Contents DEF Files
<1>3. /\ pc["cycle"] = "mkdir" /\ Goto("cycle", "write")
      /\ UNCHANGED <<dirVars, mem, job, synced, loadVars, begun, ghosts, tampers>>
  BY <1>2 DEF MakeHistory
<1>4. /\ mem # NoCycle /\ job # "save" /\ (job = "archive" => mem.n = setup.saves)
      /\ pc["cycle"] \in Busy
  BY <1>1, <1>3 DEF Holder, Busy
<1>5. mem.n <= MaxSaves /\ job \in {"save", "report", "archive"} /\ synced \in BOOLEAN
  BY <1>1, <1>4, InHandIsCycle DEF TypeOK
<1> QED BY <1>3, <1>4, <1>5, WritingGoesOn

LEMMA WriteTempKeeps ==
  ASSUME IInv, UNCHANGED setup, WriteTemp \/ SyncTemp
  PROVE  IInv'
<1>1. TypeOK /\ Holder
  BY DEF IInv
<1>2. /\ pc["cycle"] \in {"write", "sync"} /\ synced' \in BOOLEAN
      /\ \/ Goto("cycle", "sync")
         \/ Goto("cycle", "replace") /\ synced'
      /\ UNCHANGED <<dirVars, mem, job, loadVars, begun, ghosts, tampers>>
  BY DEF WriteTemp, SyncTemp
<1>3. /\ mem # NoCycle /\ (job = "archive" => mem.n = setup.saves)
      /\ (job = "save" => saved[mem.run] < mem.n) /\ pc["cycle"] \in Busy
  BY <1>1, <1>2 DEF Holder, Busy, Writing
<1>4. mem.n <= MaxSaves /\ job \in {"save", "report", "archive"}
  BY <1>1, <1>3, InHandIsCycle DEF TypeOK
<1>5. CASE Goto("cycle", "sync")
  BY <1>2, <1>3, <1>4, <1>5, WritingGoesOn
<1>6. CASE Goto("cycle", "replace") /\ synced'
  BY <1>2, <1>3, <1>4, <1>6, WritingGoesOn
<1> QED BY <1>2, <1>5, <1>6

\* The temporary file was synced: the name holds its content or what it held.
LEMMA ReplaceKeeps ==
  ASSUME IInv, UNCHANGED setup, Replace
  PROVE  IInv'
<1>1. TypeOK /\ Holder /\ Files /\ InHand /\ Quarantining /\ Kept /\ Alone
  BY DEF IInv
<1> DEFINE content == IF job = "report" THEN Plain("report") ELSE mem
<1>2. /\ pc["cycle"] = "replace" /\ synced /\ mem # NoCycle /\ Goto("cycle", "dirsync")
      /\ UNCHANGED <<mem, job, synced, loadVars, begun, saved, dismissed, tampers>>
      /\ detected' \in BOOLEAN
      /\ Put(Target, content, {content})
  BY <1>1 DEF Replace, Holder, Busy, Writing
<1>3. /\ mem \in Content /\ mem.kind = "cycle" /\ mem.run \in RunId /\ mem.n \in 0 .. MaxSaves
      /\ mem.run <= begun /\ saved[mem.run] <= mem.n /\ mem = CycleSave(mem.run, mem.n)
      /\ mem # Absent /\ mem # Torn /\ mem.run # 0
  BY <1>1, <1>2, InHandIsCycle
<1>4. content \in Content /\ content # Absent /\ content # Torn
  BY <1>3, Contents
<1>5. job \in {"save", "report", "archive"}
  BY <1>1 DEF TypeOK
<1>6. /\ Target \in {StateFile, ReportFile(mem.run), ArchiveFile(mem.run)}
      /\ Target \in Names \ {HistoryDir} /\ \A s \in Stamps : CorruptFile(s) \in Names \ {Target}
      /\ job # "save" => Target # StateFile
      /\ \A r \in RunId : (ArchiveFile(r) = Target) <=> (job = "archive" /\ r = mem.run)
      /\ \A r \in RunId : (ReportFile(r) = Target) => job = "report"
      /\ job = "save" => Target = StateFile
      /\ job = "archive" => Target = ArchiveFile(mem.run)
  BY <1>3, <1>5, NamesApart DEF Target
<1>7. /\ entry'[Target] = content /\ may'[Target] = may[Target] \cup {content}
      /\ \A n \in Names \ {Target} : entry'[n] = entry[n] /\ may'[n] = may[n]
  BY <1>1, <1>2, <1>6, PutEffect DEF TypeOK
<1>8. entry' \in [Names -> Content] /\ may' \in [Names -> SUBSET Content]
  BY <1>1, <1>2, <1>4, <1>6, PutTypes DEF TypeOK
<1>9. /\ StateFile \in Names /\ HistoryDir \in Names
      /\ \A r \in RunId : ArchiveFile(r) \in Names /\ ReportFile(r) \in Names
  BY NamesApart
<1>10. /\ pc'["cycle"] = "dirsync" /\ pc'["status"] = pc["status"]
       /\ "cycle" \in Processes /\ "status" \in Processes
  BY <1>1, <1>2, GotoEffect DEF Processes, Writing
<1>11. TypeOK'
  <2>1. pc' \in [Processes ->
          {"off", "load.check", "load.read", "q.create", "q.write", "q.sync", "q.unlink",
           "q.done", "work", "mkdir", "write", "sync", "replace", "dirsync", "unlink", "reset"}]
    BY <1>1, <1>2, <1>10, GotoEffect DEF Writing
  <2>2. /\ UNCHANGED <<setup, mem, job, synced, raw, stamp, begun, saved, dismissed, tampers>>
        /\ detected' \in BOOLEAN
    BY <1>2 DEF loadVars
  <2> QED BY <1>1, <1>8, <2>1, <2>2 DEF TypeOK
<1>12. Holder'
  BY <1>1, <1>2, <1>10 DEF Holder, ghosts, Busy, Writing
<1> HIDE DEF content
<1>13. \A s \in Stamps : /\ entry'[CorruptFile(s)] = entry[CorruptFile(s)]
                         /\ may'[CorruptFile(s)] = may[CorruptFile(s)]
  BY <1>6, <1>7
<1>14. job # "save" => may'[StateFile] = may[StateFile] /\ entry'[StateFile] = entry[StateFile]
  BY <1>6, <1>7, <1>9
<1>15. job = "save" => may'[StateFile] = may[StateFile] \cup {mem} /\ entry'[StateFile] = mem
  BY <1>6, <1>7 DEF content
<1>16. ~Refuses(mem)
  BY <1>3 DEF Refuses
<1>17. Files'
  <2>1. \A n \in Names : entry'[n] \in may'[n]
    BY <1>1, <1>7 DEF Files
  <2>2. may'[HistoryDir] = {Plain("dir")}
    BY <1>1, <1>6, <1>7, <1>9 DEF Files
  <2>3. \A c \in may'[StateFile] :
          /\ c.kind \in {"absent", "cycle", "bad", "newer"}
          /\ c.kind = "cycle" => c.run <= begun' /\ saved'[c.run] <= c.n
    BY <1>1, <1>2, <1>3, <1>14, <1>15 DEF Files, ghosts
  <2>4. ASSUME NEW r \in RunId, NEW c \in may'[ArchiveFile(r)]
        PROVE  c = Absent \/ c = CycleSave(r, setup'.saves)
    <3>1. CASE job = "archive" /\ r = mem.run
      <4>1. c \in may[ArchiveFile(r)] \/ c = mem
        BY <1>6, <1>7, <2>4, <3>1 DEF content
      <4>2. mem = CycleSave(r, setup.saves)
        BY <1>1, <1>2, <1>3, <3>1 DEF Holder, Busy, Writing
      <4> QED BY <1>1, <4>1, <4>2 DEF Files
    <3>2. CASE ~(job = "archive" /\ r = mem.run)
      BY <1>1, <1>6, <1>7, <1>9, <2>4, <3>2 DEF Files
    <3> QED BY <3>1, <3>2
  <2>5. ASSUME NEW r \in RunId, NEW c \in may'[ReportFile(r)]
        PROVE  c # Torn
    BY <1>1, <1>4, <1>7, <1>9, <2>5 DEF Files
  <2>6. Refuses(entry'[StateFile]) => may'[StateFile] = {entry'[StateFile]}
    BY <1>1, <1>14, <1>15, <1>16 DEF Files
  <2> QED BY <2>1, <2>2, <2>3, <2>4, <2>5, <2>6 DEF Files
<1>18. InHand'
  BY <1>2, <1>6, <1>7, <1>10, <1>15 DEF InHand, content
<1>19. Quarantining'
  BY <1>1, <1>2, <1>10, <1>13 DEF Quarantining, Putting, loadVars, Processes
<1>20. Kept'
  <2>1. PutAway => PutAway'
    BY <1>13 DEF PutAway
  <2>2. \A r \in RunId : Archived(r) => Archived(r)'
    <3>1. TAKE r \in RunId
    <3>2. Absent \notin may[ArchiveFile(r)] => Absent \notin may'[ArchiveFile(r)]
      BY <1>4, <1>7, <1>9
    <3> QED BY <3>2 DEF Archived
  <2>3. \A r \in RunId : InPlace(r) /\ mem.run = r => InPlace(r)'
    BY <1>14, <1>15 DEF InPlace
  <2> QED BY <1>1, <1>2, <2>1, <2>2, <2>3 DEF Kept, ghosts
<1>21. Alone'
  BY <1>1, <1>2, <1>10, <1>13 DEF Alone, Putting, ghosts
<1> QED BY <1>11, <1>12, <1>17, <1>18, <1>19, <1>20, <1>21 DEF IInv

\* The write returns: what it wrote is durable, or was put away meanwhile.
LEMMA WrittenKeeps ==
  ASSUME IInv, UNCHANGED setup, Written
  PROVE  IInv'
<1>1. TypeOK /\ Holder /\ Files /\ InHand /\ Quarantining /\ Kept /\ Alone
  BY DEF IInv
<1> DEFINE dir == IF job = "save" THEN InStateDir ELSE InHistoryDir
<1> DEFINE place == IF job = "archive" THEN "unlink" ELSE "work"
<1>2. /\ pc["cycle"] = "dirsync" /\ mem # NoCycle /\ Goto("cycle", place) /\ Sync(dir)
      /\ saved' = IF job = "save" THEN [saved EXCEPT ![mem.run] = mem.n] ELSE saved
      /\ UNCHANGED <<mem, job, synced, loadVars, begun, dismissed, detected, tampers>>
  BY <1>1 DEF Written, Holder, Busy, Writing
<1>3. /\ mem \in Content /\ mem.kind = "cycle" /\ mem.run \in RunId /\ mem.n \in 0 .. MaxSaves
      /\ mem.run <= begun /\ saved[mem.run] <= mem.n /\ mem # Absent
  BY <1>1, <1>2, InHandIsCycle
<1>4. \A r \in RunId : saved'[r] = IF job = "save" /\ r = mem.run THEN mem.n ELSE saved[r]
  BY <1>1, <1>2, <1>3 DEF TypeOK
<1>5. /\ entry' = entry /\ may' \in [Names -> SUBSET Content]
      /\ \A n \in Names : may'[n] = IF n \in dir THEN {entry[n]} ELSE may[n]
  BY <1>1, <1>2, SyncEffect DEF TypeOK
<1>6. \A n \in Names : may'[n] \subseteq may[n] /\ entry'[n] \in may'[n]
  BY <1>1, <1>5 DEF Files
<1>7. /\ StateFile \in Names /\ HistoryDir \in Names
      /\ \A r \in RunId : ArchiveFile(r) \in Names /\ ReportFile(r) \in Names
      /\ \A s \in Stamps : CorruptFile(s) \in Names
  BY NamesApart
<1>8. /\ pc'["cycle"] = place /\ pc'["status"] = pc["status"]
      /\ "cycle" \in Processes /\ "status" \in Processes
  BY <1>1, <1>2, GotoEffect DEF Processes
<1>9. TypeOK'
  <2>1. saved' \in [RunId -> 0 .. MaxSaves]
    BY <1>1, <1>2, <1>3 DEF TypeOK
  <2>2. pc' \in [Processes ->
          {"off", "load.check", "load.read", "q.create", "q.write", "q.sync", "q.unlink",
           "q.done", "work", "mkdir", "write", "sync", "replace", "dirsync", "unlink", "reset"}]
    BY <1>1, <1>2, <1>8, GotoEffect
  <2>3. UNCHANGED <<setup, mem, job, synced, raw, stamp, begun, dismissed, detected, tampers>>
    BY <1>2 DEF loadVars
  <2> QED BY <1>1, <1>5, <2>1, <2>2, <2>3 DEF TypeOK
<1>10. Holder'
  <2>1. \A r \in RunId : saved'[r] > 0 => r <= begun'
    BY <1>1, <1>2, <1>3, <1>4 DEF Holder
  <2>2. mem'.run <= begun' /\ saved'[mem'.run] <= mem'.n
    <3>1. mem.n <= mem.n
      BY <1>3, StoreAssumption
    <3> QED BY <1>2, <1>3, <1>4, <3>1
  <2>3. dismissed' \subseteq 1 .. begun' /\ pc'["status"] \in {"off"} \cup LoadPlaces
    BY <1>1, <1>2, <1>8 DEF Holder
  <2>4. job = "archive" => mem.n = setup.saves
    BY <1>1, <1>2 DEF Holder, Busy, Writing
  <2> QED BY <1>2, <1>8, <2>1, <2>2, <2>3, <2>4 DEF Holder, Busy, Writing
<1>11. ASSUME NEW c \in may'[StateFile], c.kind = "cycle"
       PROVE  c.run <= begun' /\ saved'[c.run] <= c.n
  <2>1. c \in may[StateFile] /\ c \in Content /\ c.run \in RunId
    BY <1>1, <1>6, <1>7, <1>11, Contents DEF TypeOK
  <2>2. c.run <= begun' /\ saved[c.run] <= c.n
    BY <1>1, <1>2, <1>11, <2>1 DEF Files
  <2>3. CASE job = "save"
    <3>1. c = entry[StateFile]
      <4>1. may'[StateFile] = {entry[StateFile]}
        BY <1>5, <1>7, <2>3, NamesApart
      <4> QED BY <1>11, <4>1
    <3>2. c = mem
      BY <1>1, <1>2, <1>11, <2>1, <2>3, <3>1, RefusedContent, Contents DEF InHand
    <3>3. mem.n <= mem.n
      BY <1>3, StoreAssumption
    <3> QED BY <1>2, <1>3, <1>4, <2>3, <3>2, <3>3
  <2>4. CASE job # "save"
    BY <1>2, <2>2, <2>4
  <2> QED BY <2>3, <2>4
<1>12. Files'
  <2>1. may'[HistoryDir] = {Plain("dir")}
    BY <1>1, <1>6, <1>7 DEF Files
  <2>2. Refuses(entry'[StateFile]) => may'[StateFile] = {entry'[StateFile]}
    BY <1>1, <1>5, <1>7 DEF Files
  <2>3. \A c \in may'[StateFile] : c.kind \in {"absent", "cycle", "bad", "newer"}
    BY <1>1, <1>6, <1>7 DEF Files
  <2>4. /\ \A r \in RunId : \A c \in may'[ArchiveFile(r)] :
             c = Absent \/ c = CycleSave(r, setup'.saves)
        /\ \A r \in RunId : \A c \in may'[ReportFile(r)] : c # Torn
    BY <1>1, <1>6, <1>7 DEF Files
  <2> QED BY <1>6, <1>11, <2>1, <2>2, <2>3, <2>4 DEF Files
<1>13. InHand'
  <2>1. CASE job = "archive"
    <3>1. may'[ArchiveFile(mem.run)] = {mem}
      BY <1>1, <1>2, <1>3, <1>5, <1>7, <2>1, NamesApart DEF InHand
    <3> QED BY <1>2, <1>8, <2>1, <3>1 DEF InHand
  <2>2. CASE job # "archive"
    BY <1>8, <2>2 DEF InHand
  <2> QED BY <2>1, <2>2
<1>14. Quarantining'
  <2>1. \A s \in Stamps : /\ entry'[CorruptFile(s)] = entry[CorruptFile(s)]
                          /\ may'[CorruptFile(s)] \in {may[CorruptFile(s)], {entry[CorruptFile(s)]}}
    BY <1>5, <1>7
  <2> QED BY <1>1, <1>2, <1>6, <1>7, <1>8, <2>1 DEF Quarantining, Putting, loadVars, Processes
<1>15. Kept'
  <2>1. /\ \A r \in RunId : (Archived(r) => Archived(r)') /\ (InPlace(r) => InPlace(r)')
        /\ PutAway => PutAway'
    BY <1>6, ShrinkingKeeps
  <2>2. ASSUME NEW r \in RunId, r \notin dismissed, saved'[r] > 0
        PROVE  Archived(r)' \/ PutAway' \/ (InPlace(r)' /\ (mem' = NoCycle \/ mem'.run = r))
    <3>1. CASE job = "save" /\ r = mem.run
      <4>1. may'[StateFile] = {entry[StateFile]}
        BY <1>5, <1>7, <3>1, NamesApart
      <4> QED BY <1>1, <1>2, <2>1, <3>1, <4>1 DEF InHand, InPlace
    <3>2. CASE ~(job = "save" /\ r = mem.run)
      BY <1>1, <1>2, <1>4, <2>1, <2>2, <3>2 DEF Kept
    <3> QED BY <3>1, <3>2
  <2> QED BY <1>2, <2>2 DEF Kept
<1>16. Alone'
  <2>1. \A t \in Stamps : may[CorruptFile(t)] = {Absent} => may'[CorruptFile(t)] = {Absent}
    BY <1>6, <1>7
  <2> QED BY <1>1, <1>2, <1>8, <2>1 DEF Alone, Putting
<1> QED BY <1>9, <1>10, <1>12, <1>13, <1>14, <1>15, <1>16 DEF IInv

LEMMA ArchiveUnlinkKeeps ==
  ASSUME IInv, UNCHANGED setup, ArchiveUnlink
  PROVE  IInv'
<1>1. TypeOK /\ Holder /\ Files /\ InHand /\ Quarantining /\ Kept /\ Alone
  BY DEF IInv
<1>2. /\ pc["cycle"] = "unlink" /\ Goto("cycle", "reset") /\ Put(StateFile, Absent, {Absent})
      /\ UNCHANGED <<mem, job, synced, loadVars, begun, saved, dismissed, tampers>>
      /\ detected' \in BOOLEAN
      /\ mem # NoCycle
  BY <1>1 DEF ArchiveUnlink, Holder, Busy
<1>3. /\ Files'
      /\ entry' \in [Names -> Content] /\ may' \in [Names -> SUBSET Content]
      /\ entry'[StateFile] = Absent /\ may'[StateFile] = may[StateFile] \cup {Absent}
      /\ \A r \in RunId : /\ entry'[ArchiveFile(r)] = entry[ArchiveFile(r)]
                          /\ may'[ArchiveFile(r)] = may[ArchiveFile(r)]
      /\ \A s \in Stamps : /\ entry'[CorruptFile(s)] = entry[CorruptFile(s)]
                           /\ may'[CorruptFile(s)] = may[CorruptFile(s)]
  BY <1>1, <1>2, StateGone DEF ghosts
<1>4. /\ pc'["cycle"] = "reset" /\ pc'["status"] = pc["status"]
      /\ "cycle" \in Processes /\ "status" \in Processes
  BY <1>1, <1>2, GotoEffect DEF Processes
<1>5. mem.run \in RunId /\ mem # Absent
  BY <1>1, <1>2, InHandIsCycle
<1>6. TypeOK'
  <2>1. pc' \in [Processes ->
          {"off", "load.check", "load.read", "q.create", "q.write", "q.sync", "q.unlink",
           "q.done", "work", "mkdir", "write", "sync", "replace", "dirsync", "unlink", "reset"}]
    BY <1>1, <1>2, <1>4, GotoEffect
  <2>2. /\ UNCHANGED <<setup, mem, job, synced, raw, stamp, begun, saved, dismissed, tampers>>
        /\ detected' \in BOOLEAN
    BY <1>2 DEF loadVars
  <2> QED BY <1>1, <1>3, <2>1, <2>2 DEF TypeOK
<1>7. Holder'
  BY <1>1, <1>2, <1>4 DEF Holder, ghosts, Busy, Writing
<1>8. InHand'
  BY <1>1, <1>2, <1>3, <1>4, <1>5 DEF InHand
<1>9. Quarantining'
  BY <1>1, <1>2, <1>3, <1>4 DEF Quarantining, Putting, loadVars, Processes
<1>10. Kept'
  <2>1. Archived(mem.run)'
    BY <1>1, <1>2, <1>3, <1>5 DEF InHand, Archived
  <2>2. /\ \A r \in RunId : Archived(r) => Archived(r)'
        /\ PutAway => PutAway'
    BY <1>3 DEF Archived, PutAway
  <2>3. ASSUME NEW r \in RunId, r \notin dismissed, saved[r] > 0
        PROVE  Archived(r)' \/ PutAway'
    <3>1. CASE r = mem.run
      BY <2>1, <3>1, <1>2 DEF Archived
    <3>2. CASE r # mem.run
      BY <1>1, <1>2, <2>2, <2>3, <3>2 DEF Kept
    <3> QED BY <3>1, <3>2
  <2> QED BY <1>2, <2>3 DEF Kept, ghosts
<1>11. Alone'
  BY <1>1, <1>2, <1>3, <1>4 DEF Alone, Putting, ghosts
<1> QED BY <1>3, <1>6, <1>7, <1>8, <1>9, <1>10, <1>11 DEF IInv

LEMMA ArchiveDoneKeeps ==
  ASSUME IInv, UNCHANGED setup, ArchiveDone
  PROVE  IInv'
<1>1. TypeOK /\ Holder /\ Files /\ InHand /\ Quarantining /\ Kept /\ Alone
  BY DEF IInv
<1>2. /\ pc["cycle"] = "reset" /\ Sync(InStateDir) /\ mem # NoCycle
      /\ UNCHANGED <<job, synced, stamp, ghosts, tampers>>
  BY <1>1 DEF ArchiveDone, Holder, Busy
<1>3. /\ entry' = entry /\ may' \in [Names -> SUBSET Content] /\ entry' \in [Names -> Content]
      /\ \A n \in Names : may'[n] = IF n \in InStateDir THEN {entry[n]} ELSE may[n]
  BY <1>1, <1>2, SyncEffect DEF TypeOK
<1>4. begun' \in {begun, begun + 1}
  BY DEF ArchiveDone
<1>5. Files' /\ \A n \in Names : may'[n] \subseteq may[n]
  BY <1>1, <1>2, <1>4, SyncFiles DEF ghosts
<1>6. /\ \A t \in Stamps : may'[CorruptFile(t)] = {entry[CorruptFile(t)]}
      /\ may'[StateFile] = {entry[StateFile]}
  BY <1>3, NamesApart
<1>7. /\ \A r \in RunId : (Archived(r) => Archived(r)') /\ (InPlace(r) => InPlace(r)')
      /\ PutAway => PutAway'
  BY <1>5, ShrinkingKeeps
<1>8. \A t \in Stamps : may[CorruptFile(t)] = {Absent} => may'[CorruptFile(t)] = {Absent}
  BY <1>1, <1>6, NamesApart DEF Files
<1>9. pc'["cycle"] \in {"off", "work"} /\ pc'["status"] = pc["status"] /\ raw'["status"] = raw["status"]
  BY <1>1, OffEffect, GotoEffect DEF ArchiveDone, Processes
<1>10. Quarantining'
  BY <1>1, <1>2, <1>3, <1>6, <1>9 DEF Quarantining, Putting, Processes
<1>11. CASE Off("cycle") /\ UNCHANGED begun
  <2>1. "cycle" \in Processes
    BY DEF Processes
  <2>2. pc'["cycle"] = "off" /\ mem' = NoCycle
    BY <1>1, <1>11, <2>1, OffEffect
  <2>3. TypeOK'
    BY <1>1, <1>2, <1>3, <1>11, <2>1, OffEffect DEF TypeOK, ghosts
  <2>4. Holder'
    BY <1>1, <1>2, <1>9, <1>11, <2>2 DEF Holder, ghosts, Busy, Writing
  <2>5. InHand'
    BY <2>2 DEF InHand
  <2>6. Kept'
    BY <1>1, <1>2, <1>7, <2>2 DEF Kept, ghosts
  <2>7. Alone'
    <3>1. may[StateFile] = {Absent} => may'[StateFile] = {Absent}
      BY <1>1, <1>6, NamesApart DEF Files
    <3> QED BY <1>1, <1>2, <1>8, <1>9, <1>11, <2>2, <3>1 DEF Alone, Putting, ghosts
  <2> QED BY <1>5, <1>10, <2>3, <2>4, <2>5, <2>6, <2>7 DEF IInv
<1>12. CASE /\ begun < setup.runs /\ begun' = begun + 1 /\ mem' = CycleSave(begun + 1, 0)
            /\ Goto("cycle", "work") /\ UNCHANGED raw
  <2>1. mem.run \in RunId /\ mem # Absent
    BY <1>1, <1>2, InHandIsCycle
  <2>2. Archived(mem.run)
    BY <1>1, <1>2, <2>1 DEF InHand, Archived
  <2>3. \A r \in RunId \ dismissed : saved[r] > 0 => Archived(r)' \/ PutAway'
    <3>1. TAKE r \in RunId \ dismissed
    <3>2. CASE r = mem.run
      <4>1. Archived(r)
        BY <2>2, <3>2
      <4> QED BY <1>7, <4>1
    <3>3. CASE r # mem.run
      BY <1>1, <1>2, <1>7, <3>3 DEF Kept
    <3> QED BY <3>2, <3>3
  <2>4. ~setup.status => \A s \in Stamps : may'[CorruptFile(s)] = {Absent}
    BY <1>1, <1>2, <1>8 DEF Alone, Putting
  <2> QED BY <1>1, <1>2, <1>3, <1>5, <1>10, <1>12, <2>3, <2>4, BeginKeeps
         DEF loadVars, ghosts, TypeOK
<1> QED BY <1>11, <1>12 DEF ArchiveDone

\* A failed save is taken back: what the process has in hand is still no older
\* than what returned.
LEMMA WriteFailsKeeps ==
  ASSUME IInv, UNCHANGED setup, WriteFails
  PROVE  IInv'
<1>1. TypeOK /\ Holder /\ Files /\ InHand /\ Quarantining /\ Kept /\ Alone
  BY DEF IInv
<1>2. /\ pc["cycle"] \in {"mkdir", "write", "sync", "replace", "dirsync", "unlink", "reset"}
      /\ UNCHANGED <<dirVars, job, synced, stamp, begun, ghosts, tampers>>
      /\ mem # NoCycle /\ "cycle" \in Processes /\ "status" \in Processes
  BY <1>1 DEF WriteFails, Holder, Busy, Writing, Processes
<1>3. CASE Off("cycle")
  BY <1>1, <1>2, <1>3, EndingKeeps DEF ghosts, TypeOK
<1>4. CASE /\ job # "archive" /\ (mem.n > 1 \/ job = "report")
           /\ mem' = IF job = "save" THEN [mem EXCEPT !.n = @ - 1] ELSE mem
           /\ Goto("cycle", "load.check") /\ UNCHANGED raw
  <2>1. pc'["cycle"] = "load.check" /\ pc'["status"] = pc["status"]
    BY <1>1, <1>2, <1>4, GotoEffect DEF Processes, LoadPlaces
  <2>2. /\ mem' \in Content /\ mem'.kind = "cycle" /\ mem'.run = mem.run /\ mem' # NoCycle
        /\ saved[mem.run] <= mem'.n
    <3>1. CASE job # "save"
      BY <1>1, <1>2, <1>4, <3>1, InHandIsCycle
    <3>2. CASE job = "save"
      <4>1. mem.run \in RunId /\ mem.n \in 0 .. MaxSaves /\ saved[mem.run] \in Nat
        BY <1>1, <1>2, InHandIsCycle, StoreAssumption DEF TypeOK
      <4>2. mem' = CycleSave(mem.run, mem.n - 1) /\ mem.n > 1
        BY <1>1, <1>2, <1>4, <3>2, InHandIsCycle
      <4>3. mem.n - 1 \in 0 .. MaxSaves
        BY <4>1, <4>2, StoreAssumption
      <4>4. saved[mem.run] < mem.n
        BY <1>1, <1>2, <3>2 DEF Holder, Writing
      <4>5. saved[mem.run] <= mem.n - 1
        BY <4>1, <4>4, StoreAssumption
      <4> QED BY <4>1, <4>2, <4>3, <4>5, Contents DEF NoCycle
    <3> QED BY <3>1, <3>2
  <2>3. TypeOK'
    BY <1>1, <1>2, <1>4, <2>2, GotoEffect DEF TypeOK, dirVars, ghosts, LoadPlaces
  <2>4. Holder'
    BY <1>1, <1>2, <2>1, <2>2 DEF Holder, ghosts, Busy, Writing
  <2>5. Files'
    BY <1>1, <1>2, FilesFrame DEF ghosts
  <2>6. InHand'
    BY <1>1, <1>2, <2>1, InHandFrame
  <2>7. Quarantining'
    <3>1. \A p \in Processes :
            \/ pc'[p] = pc[p] /\ raw'[p] = raw[p] /\ stamp'[p] = stamp[p]
            \/ pc'[p] \notin Putting
      BY <1>2, <1>4, <2>1 DEF Processes, Putting
    <3> QED BY <1>1, <1>2, <3>1, QuarantiningFrame
  <2>8. Kept'
    BY <1>1, <1>2, <2>2 DEF Kept, dirVars, ghosts, Archived, PutAway, InPlace
  <2>9. Alone'
    BY <1>1, <1>2, <2>1 DEF Alone, Putting, dirVars, ghosts
  <2> QED BY <2>3, <2>4, <2>5, <2>6, <2>7, <2>8, <2>9 DEF IInv
<1> QED BY <1>3, <1>4 DEF WriteFails

-----------------------------------------------------------------------------
(* The environment.                                                         *)

\* A power loss picks one of the contents a name may have, and loses no
\* directory.
LEMMA PowerLossEffect ==
  ASSUME TypeOK, Files, PowerLoss
  PROVE  /\ \A name \in Names : may'[name] = {entry'[name]} /\ entry'[name] \in may[name]
         /\ entry' \in [Names -> Content] /\ may' \in [Names -> SUBSET Content]
<1> DEFINE open == {name \in Names : Cardinality(may[name]) > 1}
<1>1. PICK fate \in [open -> UNION {may[name] : name \in open}] :
        /\ \A name \in open : fate[name] \in may[name]
        /\ LET after == [name \in Names |-> IF name \in open THEN fate[name] ELSE entry[name]]
           IN  entry' = [name \in Names |->
                           IF name \in InHistoryDir /\ after[HistoryDir] = Absent
                           THEN Absent ELSE after[name]]
  BY DEF PowerLoss
<1> DEFINE after == [name \in Names |-> IF name \in open THEN fate[name] ELSE entry[name]]
<1>2. \A name \in Names : after[name] \in may[name]
  BY <1>1 DEF Files
<1>3. HistoryDir \in Names /\ after[HistoryDir] # Absent
  <2> HIDE DEF after
  <2>1. HistoryDir \in Names /\ Plain("dir") # Absent /\ may[HistoryDir] = {Plain("dir")}
    BY NamesApart, Contents DEF Files
  <2> QED BY <1>2, <2>1
<1>4. \A name \in Names : entry'[name] = after[name]
  <2> HIDE DEF open
  <2> QED BY <1>1, <1>3
<1>5. entry' \in [Names -> Content]
  <2>1. \A name \in Names : entry'[name] \in Content
    BY <1>2, <1>4 DEF TypeOK
  <2>2. entry' = [name \in Names |-> entry'[name]]
    BY <1>1
  <2> QED BY <2>1, <2>2
<1>6. may' = [name \in Names |-> {entry'[name]}]
  BY DEF PowerLoss
<1> QED BY <1>2, <1>4, <1>5, <1>6

LEMMA PowerLossKeeps ==
  ASSUME IInv, UNCHANGED setup, PowerLoss
  PROVE  IInv'
<1>1. TypeOK /\ Holder /\ Files /\ InHand /\ Quarantining /\ Kept /\ Alone
  BY DEF IInv
<1>2. /\ \A name \in Names : may'[name] = {entry'[name]} /\ entry'[name] \in may[name]
      /\ entry' \in [Names -> Content] /\ may' \in [Names -> SUBSET Content]
  BY <1>1, PowerLossEffect
<1>3. /\ pc' = [p \in Processes |-> "off"] /\ mem' = NoCycle
      /\ raw' = [p \in Processes |-> Absent]
      /\ UNCHANGED <<job, synced, stamp, begun, saved, dismissed, tampers>>
      /\ detected' \in BOOLEAN
  BY DEF PowerLoss
<1>4. \A p \in Processes : pc'[p] = "off"
  BY <1>3
<1>5. "cycle" \in Processes /\ "status" \in Processes
  BY DEF Processes
<1>6. /\ StateFile \in Names /\ HistoryDir \in Names
      /\ \A r \in RunId : ArchiveFile(r) \in Names /\ ReportFile(r) \in Names
      /\ \A s \in Stamps : CorruptFile(s) \in Names
  BY NamesApart
<1>7. TypeOK'
  BY <1>1, <1>2, <1>3, Contents DEF TypeOK, ghosts, NoCycle
<1>8. Holder'
  BY <1>1, <1>3, <1>4, <1>5 DEF Holder, ghosts, Busy, Writing
<1>9. Files'
  <2>1. \A c \in may'[StateFile] : c \in may[StateFile]
    BY <1>2, <1>6
  <2>2. \A r \in RunId : /\ \A c \in may'[ArchiveFile(r)] : c \in may[ArchiveFile(r)]
                         /\ \A c \in may'[ReportFile(r)] : c \in may[ReportFile(r)]
    BY <1>2, <1>6
  <2>3. may'[HistoryDir] = {Plain("dir")}
    BY <1>1, <1>2, <1>6 DEF Files
  <2> QED BY <1>1, <1>2, <1>3, <1>6, <2>1, <2>2, <2>3 DEF Files, ghosts
<1>10. InHand'
  BY <1>4, <1>5 DEF InHand
<1>11. Quarantining'
  BY <1>2, <1>4, <1>6 DEF Quarantining, Putting
<1>12. Kept'
  <2>1. \A name \in Names : may'[name] \subseteq may[name]
    BY <1>2
  <2>2. /\ \A r \in RunId : (Archived(r) => Archived(r)') /\ (InPlace(r) => InPlace(r)')
        /\ PutAway => PutAway'
    BY <2>1, ShrinkingKeeps
  <2> QED BY <1>1, <1>3, <2>2 DEF Kept, ghosts
<1>13. Alone'
  <2>1. /\ \A t \in Stamps : may[CorruptFile(t)] = {Absent} => may'[CorruptFile(t)] = {Absent}
        /\ may[StateFile] = {Absent} => may'[StateFile] = {Absent}
        /\ \A c \in may'[StateFile] : c \in may[StateFile]
    BY <1>2, <1>6
  <2> QED BY <1>1, <1>3, <1>4, <1>5, <2>1 DEF Alone, Putting, ghosts
<1> QED BY <1>7, <1>8, <1>9, <1>10, <1>11, <1>12, <1>13 DEF IInv

LEMMA TamperKeeps ==
  ASSUME IInv, UNCHANGED setup, Tamper
  PROVE  IInv'
<1>1. TypeOK /\ Holder /\ Files /\ InHand /\ Quarantining /\ Kept /\ Alone
  BY DEF IInv
<1>2. /\ entry[StateFile].kind = "cycle" /\ tampers < setup.tampers /\ tampers' = tampers + 1
      /\ UNCHANGED <<pc, mem, job, synced, loadVars, begun, saved, dismissed>>
      /\ detected' \in BOOLEAN
  BY DEF Tamper
<1>3. PICK kind \in {"bad", "newer"} :
        /\ entry' = [entry EXCEPT ![StateFile] = Plain(kind)]
        /\ may' = [may EXCEPT ![StateFile] = {Plain(kind)}]
  BY DEF Tamper
<1>4. Plain(kind) \in Content /\ Plain(kind).kind = kind /\ Refuses(Plain(kind))
  BY Contents DEF Refuses
<1>5. /\ entry'[StateFile] = Plain(kind) /\ may'[StateFile] = {Plain(kind)}
      /\ \A n \in Names \ {StateFile} : entry'[n] = entry[n] /\ may'[n] = may[n]
      /\ entry' \in [Names -> Content] /\ may' \in [Names -> SUBSET Content]
  BY <1>1, <1>3, <1>4, NamesApart DEF TypeOK
<1>6. /\ StateFile \in Names /\ HistoryDir \in Names \ {StateFile}
      /\ \A r \in RunId : /\ ArchiveFile(r) \in Names \ {StateFile}
                          /\ ReportFile(r) \in Names \ {StateFile}
      /\ \A s \in Stamps : CorruptFile(s) \in Names \ {StateFile}
  BY NamesApart
<1>7. TypeOK'
  <2>1. tampers' \in 0 .. setup.tampers
    BY <1>1, <1>2, StoreAssumption DEF TypeOK
  <2> QED BY <1>1, <1>2, <1>5, <2>1 DEF TypeOK, ghosts, loadVars
<1>8. Holder'
  BY <1>1, <1>2 DEF Holder, ghosts
<1>9. Files'
  <2>1. \A n \in Names : entry'[n] \in may'[n]
    BY <1>1, <1>5, <1>6 DEF Files
  <2> QED BY <1>1, <1>2, <1>4, <1>5, <1>6, <2>1 DEF Files, ghosts
<1>10. PutAway => PutAway'
  BY <1>5, <1>6 DEF PutAway
<1>11. InHand'
  <2>1. pc["cycle"] \in {"dirsync", "unlink", "reset"} => mem.run \in RunId
    BY <1>1, InHandIsCycle DEF Holder, Busy, Writing
  <2> QED BY <1>1, <1>2, <1>4, <1>5, <1>6, <1>10, <2>1 DEF InHand
<1>12. Quarantining'
  BY <1>1, <1>2, <1>5, <1>6 DEF Quarantining, Putting, loadVars
<1>13. Kept'
  <2>1. \A r \in RunId : InPlace(r)' /\ (Archived(r) => Archived(r)')
    BY <1>4, <1>5, <1>6 DEF InPlace, Archived
  <2> QED BY <1>1, <1>2, <1>10, <2>1 DEF Kept, ghosts
<1>14. Alone'
  <2>1. SUFFICES ASSUME ~setup.status
                 PROVE  Alone'
    BY DEF Alone
  <2>2. entry[StateFile] \in may[StateFile] /\ entry[StateFile] # Absent
    BY <1>1, <1>2, FoundContent, Contents
  <2>3. pc["cycle"] \notin Putting \ {"q.done"}
    BY <1>1, <1>2, <2>1 DEF Alone, Quarantining, Putting, Processes
  <2> QED BY <1>1, <1>2, <1>4, <1>5, <1>6, <2>1, <2>2, <2>3
          DEF Alone, ghosts, loadVars, Putting
<1> QED BY <1>7, <1>8, <1>9, <1>11, <1>12, <1>13, <1>14 DEF IInv

LEMMA RecoverKeeps ==
  ASSUME IInv, UNCHANGED setup, Recover
  PROVE  IInv'
<1>1. TypeOK /\ Holder /\ Files /\ InHand /\ Quarantining /\ Kept /\ Alone
  BY DEF IInv
<1> DEFINE refusing == {CorruptFile(s) : s \in Stamps} \cup
                         (IF entry[StateFile].kind = "cycle" THEN {} ELSE {StateFile})
<1>2. /\ \A p \in Processes : pc[p] = "off"
      /\ Quarantines # {} \/ entry[StateFile].kind = "newer"
      /\ entry' = [name \in Names |-> IF name \in refusing THEN Absent ELSE entry[name]]
      /\ may' = [name \in Names |-> IF name \in refusing THEN {Absent} ELSE may[name]]
      /\ dismissed' = 1 .. begun /\ detected' = FALSE
      /\ UNCHANGED <<pc, mem, job, synced, loadVars, begun, saved, tampers>>
  BY DEF Recover
<1>3. "cycle" \in Processes /\ "status" \in Processes
  BY DEF Processes
<1>4. pc["cycle"] = "off" /\ pc["status"] = "off" /\ mem = NoCycle
  BY <1>1, <1>2, <1>3 DEF Holder
<1>5. /\ StateFile \in Names /\ HistoryDir \in Names \ refusing
      /\ \A r \in RunId : /\ ArchiveFile(r) \in Names \ refusing
                          /\ ReportFile(r) \in Names \ refusing
      /\ \A s \in Stamps : CorruptFile(s) \in Names
      /\ (StateFile \in refusing) <=> entry[StateFile].kind # "cycle"
  BY NamesApart
<1>6. \A s \in Stamps : CorruptFile(s) \in refusing
  OBVIOUS
<1> HIDE DEF refusing
<1>7. /\ entry'[StateFile] = IF entry[StateFile].kind = "cycle" THEN entry[StateFile] ELSE Absent
      /\ may'[StateFile] = IF entry[StateFile].kind = "cycle" THEN may[StateFile] ELSE {Absent}
      /\ \A s \in Stamps : entry'[CorruptFile(s)] = Absent /\ may'[CorruptFile(s)] = {Absent}
      /\ \A n \in Names \ refusing : entry'[n] = entry[n] /\ may'[n] = may[n]
  BY <1>2, <1>5, <1>6
<1>8. TypeOK'
  <2>1. entry' \in [Names -> Content] /\ may' \in [Names -> SUBSET Content]
    BY <1>1, <1>2, Contents DEF TypeOK
  <2>2. dismissed' \subseteq RunId
    BY <1>1, <1>2, StoreAssumption DEF TypeOK, RunId
  <2> QED BY <1>1, <1>2, <2>1, <2>2 DEF TypeOK, loadVars
<1>9. Holder'
  BY <1>1, <1>2 DEF Holder
<1>10. Files'
  <2>1. \A n \in Names : entry'[n] \in may'[n]
    BY <1>1, <1>2 DEF Files
  <2>2. ~Refuses(Absent) /\ Absent.kind = "absent"
    BY Contents DEF Refuses
  <2> QED BY <1>1, <1>2, <1>5, <1>7, <2>1, <2>2 DEF Files
<1>11. InHand'
  BY <1>2, <1>4 DEF InHand
<1>12. Quarantining'
  BY <1>2, <1>7 DEF Quarantining, Putting
<1>13. Kept'
  BY <1>1, <1>2, StoreAssumption DEF Kept, Holder, RunId
<1>14. Alone'
  <2>1. SUFFICES ASSUME ~setup.status
                 PROVE  Alone'
    BY DEF Alone
  <2>2. entry[StateFile].kind # "cycle"
    <3>1. CASE Quarantines # {}
      <4>1. PICK s \in Stamps : entry[CorruptFile(s)] # Absent
        BY <3>1 DEF Quarantines
      <4>2. may[CorruptFile(s)] # {Absent}
        BY <1>1, <1>5, <4>1 DEF Files
      <4> QED BY <1>1, <2>1, <4>2, FoundContent DEF Alone
    <3>2. CASE entry[StateFile].kind = "newer"
      BY <3>2
    <3> QED BY <1>2, <3>1, <3>2
  <2> QED BY <1>2, <1>4, <1>7, <2>2 DEF Alone, Putting
<1> QED BY <1>8, <1>9, <1>10, <1>11, <1>12, <1>13, <1>14 DEF IInv

-----------------------------------------------------------------------------
(* The theorems.                                                            *)

LEMMA InitInvariant ==
  ASSUME Init
  PROVE  IInv
<1>1. /\ StateFile \in Names /\ HistoryDir \in Names /\ StateFile # HistoryDir
      /\ \A r \in RunId : /\ ArchiveFile(r) \in Names /\ ArchiveFile(r) # HistoryDir
                          /\ ReportFile(r) \in Names /\ ReportFile(r) # HistoryDir
      /\ \A s \in Stamps : CorruptFile(s) \in Names /\ CorruptFile(s) # HistoryDir
  BY NamesApart
<1>2. \A name \in Names :
        /\ entry[name] = IF name = HistoryDir THEN Plain("dir") ELSE Absent
        /\ may[name] = {entry[name]}
  BY DEF Init
<1>3. "cycle" \in Processes /\ "status" \in Processes
  BY DEF Processes
<1>4. pc = [p \in Processes |-> "off"] /\ mem = NoCycle /\ saved = [r \in RunId |-> 0]
      /\ dismissed = {} /\ begun = 0 /\ detected = FALSE
  BY DEF Init
<1>5. TypeOK
  <2>1. entry \in [Names -> Content] /\ may \in [Names -> SUBSET Content]
    BY Contents DEF Init
  <2>2. setup \in Setups /\ setup.tampers \in Nat
    BY StoreAssumption DEF Init
  <2>3. /\ mem \in {c \in Content : c = NoCycle \/ c.kind = "cycle"}
        /\ raw \in [Processes -> Content]
    BY <1>4, Contents DEF Init, NoCycle
  <2>4. /\ saved \in [RunId -> 0 .. MaxSaves] /\ begun \in 0 .. MaxRuns
        /\ tampers \in 0 .. setup.tampers /\ dismissed \subseteq RunId
    BY <1>4, <2>2, StoreAssumption DEF Init
  <2>5. /\ job \in {"save", "report", "archive"} /\ synced \in BOOLEAN
        /\ stamp \in [Processes -> Stamps \cup {0}]
    BY DEF Init
  <2> QED BY <1>4, <2>1, <2>2, <2>3, <2>4, <2>5 DEF TypeOK
<1>6. Holder
  BY <1>3, <1>4 DEF Holder, Busy, Writing
<1>7. Files
  <2>1. Absent.kind = "absent" /\ Absent # Torn /\ ~Refuses(Absent)
    BY Contents DEF Refuses
  <2> QED BY <1>1, <1>2, <2>1 DEF Files
<1>8. InHand /\ Quarantining /\ Kept /\ Alone
  BY <1>1, <1>2, <1>3, <1>4, Contents DEF InHand, Quarantining, Putting, Kept, Alone
<1> QED BY <1>5, <1>6, <1>7, <1>8 DEF IInv

LEMMA StutterInvariant ==
  ASSUME IInv, UNCHANGED vars
  PROVE  IInv'
BY DEF vars, dirVars, loadVars, ghosts, IInv, TypeOK, Holder, Files, InHand, Quarantining, Kept,
       Alone, Archived, PutAway, InPlace, Quarantines

LEMMA NextInvariant ==
  ASSUME IInv, [Next /\ UNCHANGED setup]_vars
  PROVE  IInv'
<1>1. CASE UNCHANGED vars
  BY <1>1, StutterInvariant
<1>2. ASSUME UNCHANGED setup, NEW p \in Processes, Load(p) \/ Kill(p)
      PROVE  IInv'
  BY <1>2, KillKeeps, StartKeeps, LoadCheckKeeps, LoadReadKeeps, QuarantineCreateKeeps,
     QuarantineWriteKeeps, QuarantineSyncKeeps, QuarantineUnlinkKeeps, QuarantineDoneKeeps
     DEF Load
<1>3. CASE UNCHANGED setup /\ (Work \/ MakeHistory \/ AtomicWrite \/ ArchiveUnlink \/ ArchiveDone
                                 \/ WriteFails)
  BY <1>3, WorkKeeps, MakeHistoryKeeps, WriteTempKeeps, ReplaceKeeps, WrittenKeeps,
     ArchiveUnlinkKeeps, ArchiveDoneKeeps, WriteFailsKeeps DEF AtomicWrite
<1>4. CASE UNCHANGED setup /\ (PowerLoss \/ Tamper \/ Recover)
  BY <1>4, PowerLossKeeps, TamperKeeps, RecoverKeeps
<1> QED BY <1>1, <1>2, <1>3, <1>4 DEF Next

\* What IInv says holds of every reachable state.
THEOREM StoreIsSound == Spec => []IInv
<1>1. Init => IInv
  BY InitInvariant
<1>2. IInv /\ [Next /\ UNCHANGED setup]_vars => IInv'
  BY NextInvariant
<1> QED BY <1>1, <1>2, PTL DEF Spec

\* Every content is one the program, a power loss or a tamperer can have
\* written, and every counter within its bound.
THEOREM StoreTypes == Spec => []TypeOK
<1>1. IInv => TypeOK
  BY DEF IInv
<1> QED BY <1>1, StoreIsSound, PTL

\* state.json falls back behind no save that returned, and neither it nor the
\* archive is ever torn (_atomic_write_text).
THEOREM InFlightAtMost == Spec => []LosesAtMostInFlight
<1>1. IInv => LosesAtMostInFlight
  <2>1. SUFFICES ASSUME IInv
                 PROVE  LosesAtMostInFlight
    OBVIOUS
  <2>2. TypeOK /\ Files
    BY <2>1 DEF IInv
  <2>3. entry[StateFile] # Torn
    BY <2>2, FoundContent, Contents
  <2>4. ASSUME NEW name \in InHistoryDir
        PROVE  entry[name] # Torn
    <3>1. name \in Names /\ entry[name] \in may[name]
      BY <2>2, NamesApart DEF Files
    <3>2. PICK r \in RunId : name = ArchiveFile(r) \/ name = ReportFile(r)
      BY DEF InHistoryDir
    <3>3. Torn # Absent /\ \A n : Torn # CycleSave(r, n)
      BY Contents DEF CycleSave, Torn, Plain
    <3> QED BY <2>2, <3>1, <3>2, <3>3 DEF Files
  <2>5. entry[StateFile].kind = "cycle" => entry[StateFile].n >= saved[entry[StateFile].run]
    <3>1. SUFFICES ASSUME entry[StateFile].kind = "cycle"
                   PROVE  entry[StateFile].n >= saved[entry[StateFile].run]
      OBVIOUS
    <3>2. /\ entry[StateFile] \in Content /\ entry[StateFile].run \in RunId
          /\ saved[entry[StateFile].run] <= entry[StateFile].n
      BY <2>2, <3>1, FoundContent
    <3>3. entry[StateFile].n \in Nat /\ saved[entry[StateFile].run] \in Nat
      BY <2>2, <3>1, <3>2, Contents, StoreAssumption DEF TypeOK
    <3> QED BY <3>2, <3>3
  <2> QED BY <2>3, <2>4, <2>5 DEF LosesAtMostInFlight
<1> QED BY <1>1, StoreIsSound, PTL

\* archive() only ever puts a finished cycle into the history, as it was last
\* saved.
THEOREM ArchiveHoldsTheFinished == Spec => []ArchiveIsFinal
<1>1. IInv => ArchiveIsFinal
  BY NamesApart DEF IInv, Files, ArchiveIsFinal
<1> QED BY <1>1, StoreIsSound, PTL

\* No cycle of which a save returned is silently gone: archive() removes
\* state.json after the archive is durable, a quarantine after its copy is.
THEOREM NothingSavedIsForgotten == Spec => []NothingIsForgotten
<1>1. IInv => NothingIsForgotten
  <2>1. SUFFICES ASSUME IInv, NEW r \in RunId \ dismissed, saved[r] > 0
                 PROVE  \/ entry[StateFile].run = r
                        \/ entry[ArchiveFile(r)].run = r
                        \/ Quarantines # {} \/ Refuses(entry[StateFile])
    BY DEF NothingIsForgotten
  <2>2. Archived(r) \/ PutAway \/ InPlace(r)
    BY <2>1 DEF IInv, Kept
  <2>3. /\ StateFile \in Names /\ ArchiveFile(r) \in Names
        /\ \A s \in Stamps : CorruptFile(s) \in Names
        /\ \A name \in Names : entry[name] \in may[name]
    BY <2>1, NamesApart DEF IInv, Files
  <2>4. CASE Archived(r)
    <3>1. entry[ArchiveFile(r)] = CycleSave(r, setup.saves)
      BY <2>1, <2>3, <2>4 DEF Archived, IInv, Files
    <3> QED BY <3>1 DEF CycleSave
  <2>5. CASE PutAway
    BY <2>3, <2>5 DEF PutAway, Quarantines
  <2>6. CASE InPlace(r)
    BY <2>3, <2>6 DEF InPlace
  <2> QED BY <2>2, <2>4, <2>5, <2>6
<1> QED BY <1>1, StoreIsSound, PTL

-----------------------------------------------------------------------------
(* What becomes of unreadable content.                                      *)

\* Where no status command takes part, what a load has refused is still there,
\* and no process is at work on a cycle that would write over it.
Refused ==
  detected /\ ~setup.status =>
    /\ Refuses(entry[StateFile])
    /\ pc["cycle"] \in {"off"} \cup LoadPlaces

LEMMA RefusedKeeps ==
  ASSUME IInv, Refused, [Next /\ UNCHANGED setup]_vars
  PROVE  Refused'
<1> SUFFICES ASSUME detected', ~setup.status
             PROVE  /\ Refuses(entry'[StateFile])
                    /\ pc'["cycle"] \in {"off"} \cup LoadPlaces
  BY DEF Refused, vars
<1>1. TypeOK /\ Holder /\ Files /\ Quarantining /\ pc["status"] = "off" /\ StateFile \in Names
      /\ "cycle" \in Processes
  BY NamesApart DEF IInv, Alone, Processes
<1>2. CASE UNCHANGED <<entry, detected>> /\ pc'["cycle"] \in {pc["cycle"], "off"} \cup LoadPlaces
  BY <1>2 DEF Refused
<1>3. CASE /\ UNCHANGED detected /\ pc["cycle"] \notin {"off"} \cup LoadPlaces
  BY <1>3 DEF Refused
<1>4. ASSUME NEW p \in Processes, Load(p)
      PROVE  /\ Refuses(entry'[StateFile])
             /\ pc'["cycle"] \in {"off"} \cup LoadPlaces
  <2>1. CASE Start(p) \/ LoadCheck(p)
    BY <1>1, <1>2, <2>1, OffEffect, GotoEffect DEF Start, LoadCheck, dirVars, ghosts, LoadPlaces
  <2>2. CASE LoadRead(p)
    <3>1. UNCHANGED entry /\ Refuses(entry[StateFile])
      BY <2>2 DEF LoadRead, dirVars
    <3>2. p = "cycle"
      BY <1>1, <2>2 DEF LoadRead, Processes
    <3>3. Off(p) \/ Goto(p, "q.create")
      BY <2>2, <3>1 DEF LoadRead, Refuses
    <3> QED BY <1>1, <3>1, <3>2, <3>3, OffEffect, GotoEffect DEF LoadPlaces
  <2>3. CASE QuarantineCreate(p) \/ QuarantineWrite(p)
    <3>1. /\ Off(p) \/ Goto(p, "q.write") \/ Goto(p, "q.sync")
          /\ UNCHANGED detected
          /\ \/ entry' = entry
             \/ \E s \in Stamps : \E c : entry' = [entry EXCEPT ![CorruptFile(s)] = c]
      BY <1>1, <2>3 DEF QuarantineCreate, QuarantineWrite, Put, dirVars, ghosts, Quarantining, Putting
    <3>2. entry'[StateFile] = entry[StateFile]
      BY <1>1, <3>1, NamesApart DEF TypeOK
    <3>3. pc'["cycle"] \in {pc["cycle"], "off"} \cup LoadPlaces
      BY <1>1, <3>1, OffEffect, GotoEffect DEF LoadPlaces
    <3> QED BY <3>1, <3>2, <3>3 DEF Refused
  <2>4. CASE QuarantineSync(p)
    BY <1>1, <1>2, <2>4, GotoEffect DEF QuarantineSync, Sync, ghosts, LoadPlaces
  <2>5. CASE QuarantineUnlink(p)
    BY <2>5 DEF QuarantineUnlink
  <2>6. CASE QuarantineDone(p)
    BY <1>1, <1>2, <2>6, OffEffect DEF QuarantineDone, Sync, ghosts
  <2> QED BY <1>4, <2>1, <2>2, <2>3, <2>4, <2>5, <2>6 DEF Load
<1>5. CASE Work \/ MakeHistory \/ WriteTemp \/ SyncTemp \/ Written \/ ArchiveDone \/ WriteFails
  BY <1>3, <1>5 DEF Work, MakeHistory, WriteTemp, SyncTemp, Written, ArchiveDone, WriteFails,
     ghosts, LoadPlaces
<1>6. CASE Replace \/ ArchiveUnlink
  BY <1>6 DEF Replace, ArchiveUnlink, Refused, LoadPlaces
<1>7. CASE PowerLoss
  <2>1. detected /\ entry'[StateFile] = entry[StateFile] /\ pc'["cycle"] = "off"
    BY <1>1, <1>7 DEF PowerLoss
  <2> QED BY <2>1 DEF Refused
<1>8. CASE Tamper \/ Recover
  BY <1>8 DEF Tamper, Recover
<1>9. ASSUME NEW p \in Processes, Kill(p)
      PROVE  /\ Refuses(entry'[StateFile])
             /\ pc'["cycle"] \in {"off"} \cup LoadPlaces
  BY <1>1, <1>2, <1>9, OffEffect DEF Kill, dirVars, ghosts
<1>10. CASE UNCHANGED vars
  BY <1>2, <1>10 DEF vars, dirVars, ghosts
<1> QED BY <1>4, <1>5, <1>6, <1>7, <1>8, <1>9, <1>10 DEF Next, AtomicWrite

\* Without a status command, what a load has refused is neither deleted nor
\* overwritten before its copy is durable in quarantine (_quarantine), whatever
\* dies in between; what was corrupted under a running cycle and no load has
\* seen gives way only to that cycle's next save, or to its archive.
THEOREM EvidenceStays == Spec => EvidenceIsDurable
<1> DEFINE Lost ==
      ~setup.status /\ Refuses(entry[StateFile]) /\ dismissed' = dismissed
        /\ entry'[StateFile] # entry[StateFile]
<1> DEFINE Safe ==
      \/ \E s \in Stamps : may'[CorruptFile(s)] = {entry[StateFile]}
      \/ /\ ~detected /\ mem # NoCycle
         /\ \/ entry'[StateFile] = mem
            \/ may[ArchiveFile(mem.run)] = {CycleSave(mem.run, setup.saves)}
<1>1. ASSUME IInv, Refused, [Next /\ UNCHANGED setup]_vars, Lost
      PROVE  Safe
  <2>1. TypeOK /\ Holder /\ Files /\ InHand /\ Quarantining /\ Alone
    BY <1>1 DEF IInv
  <2>2. /\ entry[StateFile] # Absent /\ entry'[StateFile] # entry[StateFile]
        /\ entry[StateFile].kind # "cycle" /\ may[StateFile] = {entry[StateFile]}
        /\ pc["status"] = "off" /\ StateFile \in Names
    BY <1>1, <2>1, FoundContent, RefusedContent, NamesApart DEF Alone, Files
  <2>3. ASSUME NEW p \in Processes, Load(p)
        PROVE  Safe
    <3>1. CASE QuarantineUnlink(p)
      <4>1. /\ pc[p] = "q.unlink" /\ Put(StateFile, Absent, {Absent})
            /\ UNCHANGED <<setup, begun, saved>>
        BY <1>1, <3>1 DEF QuarantineUnlink, ghosts, Next, vars
      <4>2. p = "cycle"
        BY <2>2, <4>1 DEF Processes
      <4>3. /\ stamp["cycle"] \in Stamps
            /\ may[CorruptFile(stamp["cycle"])] = {entry[StateFile]}
        BY <1>1, <2>1, <4>1, <4>2 DEF Alone, Quarantining, Putting, Processes
      <4>4. may'[CorruptFile(stamp["cycle"])] = may[CorruptFile(stamp["cycle"])]
        BY <2>1, <4>1, <4>3, StateGone
      <4> QED BY <4>3, <4>4
    <3>2. CASE Start(p) \/ LoadCheck(p) \/ LoadRead(p) \/ QuarantineSync(p) \/ QuarantineDone(p)
      <4>1. entry' = entry
        BY <3>2 DEF Start, LoadCheck, LoadRead, QuarantineSync, QuarantineDone, Sync, dirVars
      <4> QED BY <2>2, <4>1
    <3>3. CASE QuarantineCreate(p) \/ QuarantineWrite(p)
      <4>1. \/ entry' = entry
            \/ \E s \in Stamps : \E c : entry' = [entry EXCEPT ![CorruptFile(s)] = c]
        BY <2>1, <3>3 DEF QuarantineCreate, QuarantineWrite, Put, dirVars, Quarantining, Putting
      <4> QED BY <2>1, <2>2, <4>1, NamesApart DEF TypeOK
    <3> QED BY <2>3, <3>1, <3>2, <3>3 DEF Load
  <2>4. CASE ArchiveUnlink
    <3>1. pc["cycle"] = "unlink" /\ mem # NoCycle
      BY <2>1, <2>4 DEF ArchiveUnlink, Holder, Busy
    <3>2. mem = CycleSave(mem.run, setup.saves) /\ may[ArchiveFile(mem.run)] = {mem}
      BY <2>1, <3>1, InHandIsCycle DEF Holder, InHand, Busy
    <3>3. ~detected
      BY <1>1, <3>1 DEF Refused, LoadPlaces, ArchiveUnlink
    <3> QED BY <3>1, <3>2, <3>3
  <2>5. CASE Work \/ MakeHistory \/ WriteTemp \/ SyncTemp \/ Written \/ ArchiveDone \/ WriteFails
    <3>1. HistoryDir \in Names /\ StateFile # HistoryDir
      BY NamesApart
    <3>2. \/ entry' = entry
          \/ \E c : entry' = [entry EXCEPT ![HistoryDir] = c]
      BY <2>5 DEF Work, MakeHistory, WriteTemp, SyncTemp, Written, ArchiveDone, WriteFails, Sync,
         Put, dirVars
    <3> QED BY <2>1, <2>2, <3>1, <3>2 DEF TypeOK
  <2>6. CASE Replace
    <3>1. pc["cycle"] = "replace" /\ mem # NoCycle /\ mem.run \in RunId
      BY <2>1, <2>6, InHandIsCycle DEF Replace, Holder, Busy, Writing
    <3>2. ~detected
      BY <1>1, <3>1 DEF Refused, LoadPlaces
    <3>3. /\ StateFile # ReportFile(mem.run) /\ StateFile # ArchiveFile(mem.run)
          /\ job \in {"save", "report", "archive"}
      BY <2>1, <3>1, NamesApart DEF TypeOK
    <3>4. PICK content : /\ entry' = [entry EXCEPT ![Target] = content]
                         /\ job = "save" => content = mem
      BY <2>6 DEF Replace, Put
    <3>5. entry'[StateFile] = mem
      BY <1>1, <2>1, <2>2, <3>3, <3>4 DEF Target, TypeOK
    <3> QED BY <3>1, <3>2, <3>5
  <2>7. CASE PowerLoss
    <3>1. entry'[StateFile] \in may[StateFile]
      BY <2>1, <2>2, <2>7, PowerLossEffect
    <3> QED BY <2>2, <3>1
  <2>8. CASE Tamper
    BY <2>2, <2>8 DEF Tamper
  <2>9. CASE Recover
    <3>1. dismissed' = 1 .. begun /\ begun > 0 /\ begun \notin dismissed
      BY <1>1, <2>1, <2>2, <2>9 DEF Recover, Alone
    <3>2. begun \in 1 .. begun
      BY <2>1, <3>1, StoreAssumption DEF TypeOK
    <3> QED BY <1>1, <3>1, <3>2
  <2>10. ASSUME NEW p \in Processes, Kill(p)
         PROVE  Safe
    BY <2>2, <2>10 DEF Kill, dirVars
  <2>11. CASE UNCHANGED vars
    BY <2>2, <2>11 DEF vars, dirVars
  <2> QED BY <1>1, <2>3, <2>4, <2>5, <2>6, <2>7, <2>8, <2>9, <2>10, <2>11 DEF Next, AtomicWrite
<1>2. IInv /\ Refused /\ [Next /\ UNCHANGED setup]_vars => [Lost => Safe]_vars
  BY <1>1
<1>3. Init => Refused
  BY DEF Init, Refused
<1>4. IInv /\ Refused /\ [Next /\ UNCHANGED setup]_vars => Refused'
  BY RefusedKeeps
<1> QED BY <1>2, <1>3, <1>4, StoreIsSound, PTL DEF Spec, EvidenceIsDurable
=============================================================================
