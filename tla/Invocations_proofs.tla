-------------------------- MODULE Invocations_proofs --------------------------
(***************************************************************************)
(* Mutual exclusion of the processes of Invocations, for every number of   *)
(* shells, of boots, of deaths and of commands, and what it rests on: a    *)
(* lock file that stays when its lock is released.                         *)
(***************************************************************************)
EXTENDS Invocations, FiniteSetTheorems, TLAPS

Places == {"off", "open", "flock", "work", "cycle", "release"}

\* The places where the lock file is open, and where its lock is held.
HasOpened == {"flock", "work", "cycle", "release"}
HasLocked == {"work", "cycle", "release"}

LockTypes ==
  /\ pc \in [Processes -> Places]
  /\ file \in Inodes \cup {0}
  /\ opened \in [Processes -> Inodes \cup {0}]
  /\ holder \in [Inodes -> Processes \cup {"nobody"}]

\* Whoever has a lock file open has the one open that the path names: it is
\* never replaced under a process.
OpenedIsNamed ==
  \A p \in Processes :
    IF pc[p] \in HasOpened THEN opened[p] = file /\ file # 0 ELSE opened[p] = 0

\* Whoever works holds the lock of the file it has open, and nobody else holds
\* any: a lock that is let go of, or whose holder died, is free.
WorkersHold ==
  /\ \A p \in Processes : pc[p] \in HasLocked => holder[opened[p]] = p
  /\ \A i \in Inodes : holder[i] # "nobody" => opened[holder[i]] = i /\ pc[holder[i]] \in HasLocked

Inv == LockTypes /\ OpenedIsNamed /\ WorkersHold

-----------------------------------------------------------------------------
LEMMA NobodyIsNoProcess == "nobody" \notin Processes
BY InvocationsAssumption DEF Processes, Services

LEMMA NoInodeIsZero == 0 \notin Inodes
<1>1. IsFiniteSet(Services)
  <2>1. Services = {"run.service"} \cup {"resume.service"}
    BY DEF Services
  <2> QED BY <2>1, FS_Singleton, FS_Union
<1>2. IsFiniteSet(Processes)
  BY <1>1, InvocationsAssumption, FS_Union DEF Processes
<1>3. Cardinality(Processes) \in Nat
  BY <1>2, FS_CardinalityType
<1> QED BY <1>3 DEF Inodes

LEMMA InitInv == Init => Inv
BY DEF Init, Inv, LockTypes, OpenedIsNamed, WorkersHold, Places, HasOpened, HasLocked

\* A step that leaves the lock alone and moves nobody in or out of it.
LEMMA BesideTheLock ==
  ASSUME Inv, UNCHANGED lockVars, pc' \in [Processes -> Places],
         \A p \in Processes : /\ pc'[p] \in HasOpened <=> pc[p] \in HasOpened
                              /\ pc'[p] \in HasLocked <=> pc[p] \in HasLocked
  PROVE  Inv'
BY NobodyIsNoProcess DEF Inv, LockTypes, OpenedIsNamed, WorkersHold, lockVars

\* Whether a process ends, is killed or lets go of its lock.
LEMMA OffKeepsInv ==
  ASSUME Inv, NEW p \in Processes, Off(p), UNCHANGED file
  PROVE  Inv'
<1> USE NobodyIsNoProcess, NoInodeIsZero DEF Inv
<1>1. LockTypes'
  BY DEF LockTypes, Off, Goto, Places
<1>2. OpenedIsNamed'
  BY DEF LockTypes, OpenedIsNamed, Off, Goto, HasOpened
<1>3. WorkersHold'
  BY DEF LockTypes, OpenedIsNamed, WorkersHold, Off, Goto, HasOpened, HasLocked
<1> QED BY <1>1, <1>2, <1>3

LEMMA BeginKeepsInv ==
  ASSUME Inv, NEW p \in Processes, NEW c, Begin(p, c), UNCHANGED lockVars
  PROVE  Inv'
<1>1. pc' \in [Processes -> Places]
  BY DEF Inv, LockTypes, Begin, Goto, Places
<1>2. \A q \in Processes : /\ pc'[q] \in HasOpened <=> pc[q] \in HasOpened
                           /\ pc'[q] \in HasLocked <=> pc[q] \in HasLocked
  BY DEF Inv, LockTypes, Begin, Goto, HasOpened, HasLocked
<1> QED BY <1>1, <1>2, BesideTheLock

LEMMA OpenKeepsInv ==
  ASSUME Inv, NEW p \in Processes, Open(p)
  PROVE  Inv'
<1> USE NobodyIsNoProcess, NoInodeIsZero DEF Inv
<1>1. file' \in Inodes /\ (file # 0 => file' = file)
  BY DEF Open, LockTypes
<1>2. pc[p] = "open" /\ pc' = [pc EXCEPT ![p] = "flock"] /\ opened' = [opened EXCEPT ![p] = file']
      /\ UNCHANGED holder
  BY DEF Open, Goto
<1>3. LockTypes'
  BY <1>1, <1>2 DEF LockTypes, Places
<1>4. OpenedIsNamed'
  BY <1>1, <1>2 DEF LockTypes, OpenedIsNamed, HasOpened
<1>5. WorkersHold'
  <2>1. \A q \in Processes : pc[q] \in HasLocked => q # p
    BY <1>2 DEF HasLocked
  <2>2. \A q \in Processes : q # p => pc'[q] = pc[q] /\ opened'[q] = opened[q]
    BY <1>2 DEF LockTypes
  <2>3. pc'[p] \notin HasLocked
    BY <1>2 DEF LockTypes, HasLocked
  <2> QED BY <1>2, <2>1, <2>2, <2>3 DEF LockTypes, WorkersHold
<1> QED BY <1>3, <1>4, <1>5

LEMMA FlockKeepsInv ==
  ASSUME Inv, NEW p \in Processes, Flock(p)
  PROVE  Inv'
<1>1. CASE holder[opened[p]] # "nobody"
  BY <1>1, OffKeepsInv DEF Flock
<1>2. CASE holder[opened[p]] = "nobody"
  <2> USE NobodyIsNoProcess, NoInodeIsZero DEF Inv
  <2>1. pc[p] = "flock" /\ pc' = [pc EXCEPT ![p] = "work"]
        /\ holder' = [holder EXCEPT ![opened[p]] = p] /\ UNCHANGED <<file, opened>>
    BY <1>2 DEF Flock, Goto
  <2>2. opened[p] = file /\ file \in Inodes
    BY <2>1 DEF OpenedIsNamed, HasOpened, LockTypes
  <2>3. LockTypes'
    BY <2>1, <2>2 DEF LockTypes, Places
  <2>4. OpenedIsNamed'
    BY <2>1 DEF LockTypes, OpenedIsNamed, HasOpened
  <2>5. WorkersHold'
    <3>1. \A q \in Processes : pc'[q] \in HasLocked => holder'[opened'[q]] = q
      BY <1>2, <2>1, <2>2 DEF LockTypes, OpenedIsNamed, WorkersHold, HasOpened, HasLocked
    <3>2. \A i \in Inodes : holder'[i] # "nobody" => opened'[holder'[i]] = i /\ pc'[holder'[i]] \in HasLocked
      BY <1>2, <2>1, <2>2 DEF LockTypes, WorkersHold, HasLocked
    <3> QED BY <3>1, <3>2 DEF WorkersHold
  <2> QED BY <2>3, <2>4, <2>5
<1> QED BY <1>1, <1>2

LEMMA WorkKeepsInv ==
  ASSUME Inv, NEW p \in Processes, Work(p) \/ Leave(p)
  PROVE  Inv'
<1>1. PICK place \in {"cycle", "release"} : pc' = [pc EXCEPT ![p] = place]
  BY DEF Work, Leave, Goto
<1>2. pc[p] \in {"work", "cycle"} /\ UNCHANGED lockVars
  BY DEF Work, Leave
<1>3. pc' \in [Processes -> Places]
  BY <1>1 DEF Inv, LockTypes, Places
<1>4. \A q \in Processes : /\ pc'[q] \in HasOpened <=> pc[q] \in HasOpened
                           /\ pc'[q] \in HasLocked <=> pc[q] \in HasLocked
  BY <1>1, <1>2 DEF Inv, LockTypes, HasOpened, HasLocked
<1> QED BY <1>2, <1>3, <1>4, BesideTheLock

LEMMA RebootKeepsInv == Inv /\ Reboot => Inv'
BY DEF Inv, Reboot, LockTypes, OpenedIsNamed, WorkersHold, Places, HasOpened, HasLocked

LEMMA NextKeepsInv == Inv /\ [Next]_vars => Inv'
<1> SUFFICES ASSUME Inv, [Next]_vars PROVE Inv'
  OBVIOUS
<1>1. CASE Elapse \/ EditConfig \/ UNCHANGED vars
  <2>1. UNCHANGED lockVars /\ UNCHANGED pc
    BY <1>1 DEF Elapse, EditConfig, vars
  <2> QED BY <2>1, BesideTheLock DEF Inv, LockTypes
<1>2. CASE StartRun \/ StartResume \/ StartCommand
  <2>1. PICK p \in Processes, c \in Commands : Begin(p, c)
    BY <1>2 DEF StartRun, StartResume, StartCommand, Processes, Services, Commands
  <2>2. UNCHANGED lockVars
    BY <1>2 DEF StartRun, StartResume, StartCommand
  <2> QED BY <2>1, <2>2, BeginKeepsInv
<1>3. CASE \E p \in Processes : Process(p) \/ Crash(p)
  <2>1. PICK p \in Processes : Process(p) \/ Crash(p)
    BY <1>3
  <2>2. CASE Open(p)
    BY <2>2, OpenKeepsInv
  <2>3. CASE Flock(p)
    BY <2>3, FlockKeepsInv
  <2>4. CASE Release(p) \/ Crash(p)
    BY <2>4, OffKeepsInv DEF Release, Crash
  <2>5. CASE Work(p) \/ Leave(p)
    BY <2>5, WorkKeepsInv
  <2> QED BY <2>1, <2>2, <2>3, <2>4, <2>5 DEF Process
<1>4. CASE Reboot
  BY <1>4, RebootKeepsInv
<1> QED BY <1>1, <1>2, <1>3, <1>4 DEF Next

\* The inductive invariant: every lock that is held is held on the one file the
\* path names, by a process that works under it (lock.py:34-94).
THEOREM LockIsSound == Spec => []Inv
BY InitInv, NextKeepsInv, PTL DEF Spec

-----------------------------------------------------------------------------
LEMMA AtMostOne ==
  ASSUME NEW S, \A x, y \in S : x = y
  PROVE  Cardinality(S) <= 1
<1>1. CASE S = {}
  BY <1>1, FS_EmptySet
<1>2. CASE S # {}
  <2>1. PICK x \in S : S = {x}
    BY <1>2
  <2> QED BY <2>1, FS_Singleton
<1> QED BY <1>1, <1>2

\* At most one process is past the lock, however the timer, the resume service
\* and an operator start processes, and wherever these die (lock.py:59-75;
\* cli.py:312).
THEOREM MutualExclusion == Spec => []OneAtWork
<1>1. Inv => OneAtWork
  <2> SUFFICES ASSUME Inv PROVE OneAtWork
    OBVIOUS
  <2>1. \A p, q \in AtWork : p = q
    BY DEF Inv, OpenedIsNamed, WorkersHold, AtWork, HasOpened, HasLocked
  <2> QED BY <2>1, AtMostOne DEF OneAtWork
<1> QED BY <1>1, LockIsSound, PTL
=============================================================================
