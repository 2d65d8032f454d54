--------------------------- MODULE Provider_proofs ---------------------------
(***************************************************************************)
(* Proofs about the package-manager side of Provider, for any hosts,       *)
(* packages, archives, lock settings and numbers of kills and of acts of   *)
(* others: what each command may rely on although anything may happen      *)
(* between two of them.                                                    *)
(***************************************************************************)
EXTENDS Provider, TLAPS

-----------------------------------------------------------------------------
(* The inductive invariant.                                                 *)

Updates == [name : Packages, to : Versions \ {0}, security : BOOLEAN, held : BOOLEAN]

Typed ==
  /\ setup \in Setups
  /\ installed \in [Packages -> Versions]
  /\ repo \in [Packages -> Versions]
  /\ index \in [Packages -> Versions]
  /\ txn \in [owner : {"nobody", "us", "orphan", "other"},
              todo : SUBSET (Packages \X (Versions \ {0}))]
  /\ restart \in BOOLEAN
  /\ listed \subseteq Updates
  /\ waited \in Nat
  /\ required \in BOOLEAN
  /\ ours \subseteq Packages \X (Versions \ {0})
  /\ unanswered \in BOOLEAN

\* What the commands of a place can be for.
Preflights == {"preflight", "audit", "check", "locks", "repair"}
Listings == {"list", "classify", "decide"}
Upgrades == {"apply", "transaction", "applied"}
Probes == {"sentinel", "kernel"}

Phased ==
  /\ pc \in Preflights \cup Listings \cup Upgrades \cup Probes \cup Ended
              \cup {"refresh", "verify", "verify.audit"}
  /\ pc \in Preflights => phase \in {"precheck", "upgrading", "repaired"}
  /\ pc = "refresh" => phase \in {"precheck", "repaired"}
  /\ pc \in Upgrades => phase = "upgrading"
  /\ pc \in Listings => phase \in {"discover", "verify"}
  /\ pc \in Probes => phase \in {"discover", "upgrading"}
  /\ pc \in {"verify.audit", "done"} => phase = "verify"

\* A transaction of ours runs while we wait for it.  One that outlived a death
\* keeps its lock, and no preflight passes it.
OursIsAwaited ==
  /\ txn.owner = "us" <=> pc = "transaction"
  /\ txn.owner = "orphan" => phase = "precheck" /\ pc \in Preflights \cup {"failed", "locked"}

\* Package lists only grow newer, so that a listed version they still offer is
\* the one that was classified.
ListsAge ==
  /\ \A p \in Packages : index[p] <= repo[p]
  /\ \A u \in listed :
       /\ u.to <= index[u.name]
       /\ u.security /\ u.to = index[u.name] => <<u.name, u.to>> \in SecurityFixes

SecurityOnly == Manager = "apt" /\ Strategy = "security"

Classified ==
  /\ OnlyClassifiedIsInstalled
  /\ SecurityOnly /\ txn.owner \in {"us", "orphan"} => txn.todo \subseteq SecurityFixes

\* An audit that passed found whatever is broken since then new.
Audited ==
  /\ pc \in {"locks", "apply"} => leftover = {}
  /\ phase = "verify" /\ pc \in Listings \cup {"done"} => leftover = {}

\* What a listing found is outstanding no longer, or is in it.
FoundIn(updates) == \A p \in pending : \E u \in updates : u.name = p

Found ==
  /\ pc = "classify" => FoundIn(IF Manager = "apt" THEN Applicable ELSE listed)
  /\ pc = "decide" => FoundIn(Applicable)
  /\ pc = "done" => pending = {}

\* A kernel of ours is not the running one, and the query saw it.
KernelKnown ==
  /\ \A t \in ours : installed[t[1]] # 0
  /\ pc = "verify" \/ phase = "verify" =>
       ((\E t \in ours : t[1] = Kernel) => required \/ unanswered)

IInv ==
  /\ Typed /\ Phased /\ OursIsAwaited /\ ListsAge /\ Classified
  /\ LockWaitIsHonoured /\ Audited /\ Found /\ KernelKnown

-----------------------------------------------------------------------------
(* The places, and the wait for the lock.                                   *)

LEMMA PhasedKeeps ==
  ASSUME Phased, Next
  PROVE  Phased'
<1> USE DEF Phased, Preflights, Listings, Upgrades, Probes, Ended, Goto
<1>1. CASE Preflight \/ Audit \/ ProbeLocks \/ Check \/ Repair
  BY <1>1 DEF Preflight, Audit, ProbeLocks, Check, Repair, WaitOrGiveUp, PreflightOk, Interrupted
<1>2. CASE Refresh \/ List \/ Classify \/ Decide
  BY <1>2 DEF Refresh, List, Classify, Decide
<1>3. CASE Start \/ Transaction \/ Applied \/ TransactionTimeout
  BY <1>3 DEF Start, Transaction, Applied, TransactionTimeout
<1>4. CASE Sentinel \/ KernelQuery \/ Verify \/ VerifyAudit
  BY <1>4 DEF Sentinel, KernelQuery, Verify, VerifyAudit
<1>5. CASE CommandFails \/ Kill \/ Others
  BY <1>5 DEF CommandFails, Kill, Others
<1> QED BY <1>1, <1>2, <1>3, <1>4, <1>5 DEF Next, Step

LEMMA WaitKeeps ==
  ASSUME Typed, LockWaitIsHonoured, Next
  PROVE  LockWaitIsHonoured' /\ waited' \in Nat
<1>1. /\ waited \in Nat /\ waited < LockTimeout + PollInterval
      /\ LockTimeout \in Nat \ {0} /\ PollInterval \in Nat \ {0}
  BY ProviderAssumption DEF Typed, LockWaitIsHonoured
<1>2. CASE WaitOrGiveUp
  BY <1>1, <1>2 DEF WaitOrGiveUp, LockWaitIsHonoured, Goto
<1>3. CASE waited' \in {waited, 0} /\ pc' # "locked"
  BY <1>1, <1>3 DEF LockWaitIsHonoured
<1>4. Next => WaitOrGiveUp \/ (waited' \in {waited, 0} /\ pc' # "locked")
  <2> USE DEF Ended, Goto
  <2>1. CASE Preflight \/ Audit \/ ProbeLocks \/ Check \/ Repair
    BY <2>1 DEF Preflight, Audit, ProbeLocks, Check, Repair, PreflightOk, Interrupted
  <2>2. CASE Refresh \/ List \/ Classify \/ Decide
    BY <2>2 DEF Refresh, List, Classify, Decide
  <2>3. CASE Start \/ Transaction \/ Applied \/ TransactionTimeout
    BY <2>3 DEF Start, Transaction, Applied, TransactionTimeout
  <2>4. CASE Sentinel \/ KernelQuery \/ Verify \/ VerifyAudit
    BY <2>4 DEF Sentinel, KernelQuery, Verify, VerifyAudit
  <2>5. CASE CommandFails \/ Kill \/ Others
    BY <2>5 DEF CommandFails, Kill, Others
  <2> QED BY <2>1, <2>2, <2>3, <2>4, <2>5 DEF Next, Step
<1> QED BY <1>2, <1>3, <1>4

-----------------------------------------------------------------------------
(* Types.                                                                   *)

\* A package is unpacked or configured: what is installed gets a version of
\* the transaction.
LEMMA ProgressEffect ==
  ASSUME Typed, Progress
  PROVE  /\ installed' \in [Packages -> Versions] /\ restart' \in BOOLEAN
         /\ txn' \in [owner : {"nobody", "us", "orphan", "other"},
                      todo : SUBSET (Packages \X (Versions \ {0}))]
         /\ txn'.owner = txn.owner /\ txn'.todo \subseteq txn.todo
         /\ ours' \in SUBSET (Packages \X (Versions \ {0}))
         /\ ours' \subseteq ours \cup (IF txn.owner = "other" THEN {} ELSE txn.todo)
         /\ \A p \in Packages : installed[p] # 0 => installed'[p] # 0
         /\ \A t \in ours' \ ours : installed'[t[1]] # 0
<1>1. PICK t \in txn.todo :
        \/ UNCHANGED <<installed, txn, restart, ours>>
        \/ /\ restart' \in {restart, TRUE}
           /\ installed' = [installed EXCEPT ![t[1]] = t[2]]
           /\ txn' = [txn EXCEPT !.todo = @ \ {t}]
           /\ ours' = IF txn.owner = "other" THEN ours ELSE ours \cup {t}
  BY DEF Progress
<1>2. t[1] \in Packages /\ t[2] \in Versions \ {0} /\ t \in Packages \X (Versions \ {0})
  BY DEF Typed
<1>3. CASE UNCHANGED <<installed, txn, restart, ours>>
  BY <1>3 DEF Typed
<1>4. CASE /\ restart' \in {restart, TRUE}
           /\ installed' = [installed EXCEPT ![t[1]] = t[2]]
           /\ txn' = [txn EXCEPT !.todo = @ \ {t}]
           /\ ours' = IF txn.owner = "other" THEN ours ELSE ours \cup {t}
  <2>1. /\ installed' \in [Packages -> Versions]
        /\ \A p \in Packages : installed[p] # 0 => installed'[p] # 0
        /\ installed'[t[1]] # 0 /\ restart' \in BOOLEAN
    BY <1>2, <1>4 DEF Typed
  <2>2. /\ txn' \in [owner : {"nobody", "us", "orphan", "other"},
                     todo : SUBSET (Packages \X (Versions \ {0}))]
        /\ txn'.owner = txn.owner /\ txn'.todo \subseteq txn.todo
    BY <1>4 DEF Typed
  <2>3. /\ ours' \in SUBSET (Packages \X (Versions \ {0}))
        /\ ours' \subseteq ours \cup (IF txn.owner = "other" THEN {} ELSE txn.todo)
        /\ ours' \ ours \subseteq {t}
    BY <1>2, <1>4 DEF Typed
  <2> QED BY <2>1, <2>2, <2>3
<1> QED BY <1>1, <1>3, <1>4

\* A listing is of versions newer than what is installed.
LEMMA ListEffect ==
  ASSUME Typed, List
  PROVE  /\ listed' \subseteq Updates /\ index' \in [Packages -> Versions]
         /\ index' \in {index, repo}
         /\ \A u \in listed' : u.to = index'[u.name] /\ ~u.security
<1>1. index' \in {index, repo} /\ index' \in [Packages -> Versions]
  BY DEF List, Typed
<1>2. listed' = {[name |-> p, to |-> index'[p], security |-> FALSE,
                  held |-> Manager = "apt" /\ p \in KeptBack]
                 : p \in {q \in Packages : index'[q] > installed[q]}}
  BY DEF List
<1>3. ASSUME NEW u \in listed'
      PROVE  u \in Updates /\ u.to = index'[u.name] /\ ~u.security
  <2>1. PICK p \in Packages :
          /\ index'[p] > installed[p]
          /\ u = [name |-> p, to |-> index'[p], security |-> FALSE,
                  held |-> Manager = "apt" /\ p \in KeptBack]
    BY <1>2, <1>3
  <2>2. index'[p] \in Versions \ {0}
    <3>1. installed[p] \in Versions /\ index'[p] \in Versions
      BY <1>1 DEF Typed
    <3> QED BY <2>1, <3>1, ProviderAssumption DEF Versions
  <2>3. (Manager = "apt" /\ p \in KeptBack) \in BOOLEAN
    OBVIOUS
  <2> QED BY <2>1, <2>2, <2>3 DEF Updates
<1> QED BY <1>1, <1>3

\* A classification keeps names and versions.
LEMMA ClassifyEffect ==
  ASSUME Typed, Classify
  PROVE  /\ listed' \subseteq Updates
         /\ \A u \in listed' : \E v \in listed :
              /\ u.name = v.name /\ u.to = v.to
              /\ u.security <=> IsSecurity(v.name)
<1>1. listed' \subseteq {[u EXCEPT !.security = IsSecurity(u.name),
                                   !.held = IF Manager = "dnf" THEN u.name \in held ELSE @]
                         : u \in listed}
  BY DEF Classify, OfStrategy
<1>2. ASSUME NEW u \in listed'
      PROVE  /\ u \in Updates
             /\ \E v \in listed : /\ u.name = v.name /\ u.to = v.to
                                  /\ u.security <=> IsSecurity(v.name)
  <2>1. PICK v \in listed :
          u = [v EXCEPT !.security = IsSecurity(v.name),
                        !.held = IF Manager = "dnf" THEN v.name \in held ELSE @]
    BY <1>1, <1>2
  <2>2. v \in Updates
    BY DEF Typed
  <2>3. IsSecurity(v.name) \in BOOLEAN /\ (v.name \in held) \in BOOLEAN
    BY DEF IsSecurity
  <2>4. u \in Updates /\ u.name = v.name /\ u.to = v.to /\ u.security = IsSecurity(v.name)
    BY <2>1, <2>2, <2>3 DEF Updates
  <2> QED BY <2>4
<1> QED BY <1>2

\* What an upgrade resolves to is versions of packages, newer than nothing.
LEMMA StartEffect ==
  ASSUME Typed, Start
  PROVE  /\ index' \in {index, repo}
         /\ \/ txn' = txn /\ pc' = "failed"
            \/ /\ pc' = "transaction" /\ txn'.owner = "us" /\ txn'.todo = Resolved
               /\ txn' \in [owner : {"nobody", "us", "orphan", "other"},
                            todo : SUBSET (Packages \X (Versions \ {0}))]
               /\ SecurityOnly => Installable(Targets)
<1>1. Targets \subseteq Packages \X (Versions \ {0})
  <2>1. \A u \in listed : u.name \in Packages /\ u.to \in Versions \ {0}
    BY DEF Typed, Updates
  <2> QED BY <2>1 DEF Targets
<1>2. Resolved \subseteq Packages \X (Versions \ {0})
  <2>1. CASE Manager = "apt" /\ Strategy = "security"
    BY <1>1, <2>1 DEF Resolved
  <2>2. CASE ~(Manager = "apt" /\ Strategy = "security")
    <3>1. PICK lists \in [Packages -> Versions] :
            \A t \in Resolved : \E p \in Packages :
              t = <<p, lists[p]>> /\ lists[p] > installed[p]
      BY <2>2 DEF Resolved, Typed
    <3>2. \A p \in Packages : lists[p] > installed[p] => lists[p] \in Versions \ {0}
      <4>1. TAKE p \in Packages
      <4>2. lists[p] \in Versions /\ installed[p] \in Versions
        BY DEF Typed
      <4> QED BY <4>2, ProviderAssumption DEF Versions
    <3> QED BY <3>1, <3>2
  <2> QED BY <2>1, <2>2
<1>3. CASE Locked \/ (Manager = "apt" /\ Strategy = "security" /\ ~Installable(Targets))
  BY <1>3 DEF Start, Goto
<1>4. CASE ~(Locked \/ (Manager = "apt" /\ Strategy = "security" /\ ~Installable(Targets)))
  <2>1. txn' = [owner |-> "us", todo |-> Resolved] /\ pc' = "transaction" /\ index' \in {index, repo}
    BY <1>4 DEF Start, Goto
  <2> QED BY <1>2, <1>4, <2>1 DEF SecurityOnly
<1> QED BY <1>3, <1>4

\* What others do: the archive and the lists grow, and a transaction of theirs
\* or one that was orphaned goes on or ends.
LEMMA OthersEffect ==
  ASSUME Typed, Others
  PROVE  /\ UNCHANGED <<pc, phase, waited, cycleVars, unanswered>> /\ pc \notin Ended
         /\ installed' \in [Packages -> Versions] /\ restart' \in BOOLEAN
         /\ \A p \in Packages : installed[p] # 0 => installed'[p] # 0
         /\ repo' \in [Packages -> Versions] /\ \A p \in Packages : repo[p] <= repo'[p]
         /\ index' \in {index, repo}
         /\ txn' \in [owner : {"nobody", "us", "orphan", "other"},
                      todo : SUBSET (Packages \X (Versions \ {0}))]
         /\ txn.owner = "us" => UNCHANGED <<txn, ours>>
         /\ txn'.owner \in {txn.owner, "nobody", "other"}
         /\ txn'.owner = "orphan" => txn'.todo \subseteq txn.todo
         /\ ours' \in SUBSET (Packages \X (Versions \ {0}))
         /\ ours' \subseteq ours \cup (IF txn.owner = "orphan" THEN txn.todo ELSE {})
         /\ \A t \in ours' \ ours : installed'[t[1]] # 0
<1>1. UNCHANGED <<pc, phase, waited, cycleVars, unanswered>> /\ pc \notin Ended
  BY DEF Others
<1>2. \A p \in Packages : repo[p] <= repo[p]
  BY DEF Typed, Versions
<1>3. CASE OtherProgresses
  <2>1. Foreign /\ Progress /\ UNCHANGED <<repo, index>>
    BY <1>3 DEF OtherProgresses
  <2>2. txn.owner # "us" /\ (txn.owner # "other" => txn.owner = "orphan")
    BY <2>1 DEF Foreign
  <2>3. /\ installed' \in [Packages -> Versions] /\ restart' \in BOOLEAN
        /\ txn' \in [owner : {"nobody", "us", "orphan", "other"},
                     todo : SUBSET (Packages \X (Versions \ {0}))]
        /\ txn'.owner = txn.owner /\ txn'.todo \subseteq txn.todo
        /\ ours' \in SUBSET (Packages \X (Versions \ {0}))
        /\ ours' \subseteq ours \cup (IF txn.owner = "other" THEN {} ELSE txn.todo)
        /\ \A p \in Packages : installed[p] # 0 => installed'[p] # 0
        /\ \A t \in ours' \ ours : installed'[t[1]] # 0
    BY <2>1, ProgressEffect
  <2>4. repo' \in [Packages -> Versions] /\ index' = index /\ repo' = repo
    BY <2>1 DEF Typed
  <2>5. ours' \subseteq ours \cup (IF txn.owner = "orphan" THEN txn.todo ELSE {})
    BY <2>2, <2>3
  <2> QED BY <1>1, <1>2, <2>2, <2>3, <2>4, <2>5
<1>4. CASE UNCHANGED ours /\ OtherBegins
  <2>1. PICK names \in SUBSET (Upgradable \ held) :
          txn' = [owner |-> "other", todo |-> {<<p, index[p]>> : p \in names}]
    BY <1>4 DEF OtherBegins
  <2>2. ~Locked /\ UNCHANGED <<installed, repo, index, restart>>
    BY <1>4 DEF OtherBegins
  <2>3. \A p \in names : p \in Packages /\ index[p] \in Versions \ {0}
    <3>1. TAKE p \in names
    <3>2. p \in Packages /\ index[p] > installed[p]
      BY DEF Upgradable
    <3>3. index[p] \in Versions /\ installed[p] \in Versions
      BY <3>2 DEF Typed
    <3> QED BY <3>2, <3>3, ProviderAssumption DEF Versions
  <2>4. {<<p, index[p]>> : p \in names} \in SUBSET (Packages \X (Versions \ {0}))
    BY <2>3
  <2>5. txn' \in [owner : {"nobody", "us", "orphan", "other"},
                  todo : SUBSET (Packages \X (Versions \ {0}))] /\ txn'.owner = "other"
    BY <2>1, <2>4
  <2>6. txn.owner = "nobody"
    BY <2>2 DEF Locked
  <2> QED BY <1>1, <1>2, <1>4, <2>2, <2>5, <2>6 DEF Typed
<1>5. CASE UNCHANGED ours /\ OtherEnds
  <2>1. txn' = NoTxn /\ txn.owner # "us" /\ UNCHANGED <<installed, repo, index, restart>>
    BY <1>5 DEF OtherEnds, Foreign
  <2>2. txn' \in [owner : {"nobody", "us", "orphan", "other"},
                  todo : SUBSET (Packages \X (Versions \ {0}))] /\ txn'.owner = "nobody"
    BY <2>1 DEF NoTxn
  <2> QED BY <1>1, <1>2, <1>5, <2>1, <2>2 DEF Typed
<1>6. CASE UNCHANGED ours /\ (Hold \/ OtherRefreshes)
  <2>1. UNCHANGED <<installed, repo, txn, restart>> /\ index' \in {index, repo}
    BY <1>6 DEF Hold, OtherRefreshes
  <2> QED BY <1>1, <1>2, <1>6, <2>1 DEF Typed
<1>7. CASE UNCHANGED ours /\ Publish
  <2>1. PICK p \in Packages : repo[p] < MaxVersion /\ repo' = [repo EXCEPT ![p] = @ + 1]
    BY <1>7 DEF Publish
  <2>2. UNCHANGED <<installed, index, txn, restart>>
    BY <1>7 DEF Publish
  <2>3. repo[p] \in Versions /\ repo[p] + 1 \in Versions
    BY <2>1, ProviderAssumption DEF Typed, Versions
  <2>4. repo' \in [Packages -> Versions] /\ \A q \in Packages : repo[q] <= repo'[q]
    <3>1. repo' \in [Packages -> Versions]
      BY <2>1, <2>3 DEF Typed
    <3>2. repo[p] <= repo[p] + 1
      BY <2>3 DEF Versions
    <3>3. \A q \in Packages : repo'[q] = IF q = p THEN repo[p] + 1 ELSE repo[q]
      BY <2>1 DEF Typed
    <3> QED BY <1>2, <3>1, <3>2, <3>3
  <2>5. index' = index
    BY <2>2
  <2> QED BY <1>1, <1>7, <2>2, <2>4, <2>5 DEF Typed
<1> QED BY <1>3, <1>4, <1>5, <1>6, <1>7 DEF Others

\* The steps that touch none of the variables that types and lists are about.
Quiet ==
  /\ UNCHANGED <<setup, installed, repo, index, restart, listed, ours>>
  /\ txn' \in {txn, NoTxn}
  /\ required' \in BOOLEAN /\ unanswered' \in BOOLEAN

LEMMA QuietSteps ==
  ASSUME Typed, Next, ~List, ~Classify, ~Refresh, ~Start, ~Transaction, ~Kill, ~Others
  PROVE  Quiet
<1> USE DEF Quiet, packageVars, cycleVars, Typed
<1>1. CASE Preflight \/ Audit \/ ProbeLocks \/ Check \/ Repair
  BY <1>1 DEF Next, Preflight, Audit, ProbeLocks, Check, Repair
<1>2. CASE Decide \/ Applied \/ TransactionTimeout \/ CommandFails
  BY <1>2 DEF Next, Decide, Applied, TransactionTimeout, CommandFails
<1>3. CASE Sentinel
  BY <1>3 DEF Next, Sentinel
<1>4. CASE KernelQuery
  BY <1>4 DEF Next, KernelQuery
<1>5. CASE Verify \/ VerifyAudit
  BY <1>5 DEF Next, Verify, VerifyAudit
<1> QED BY <1>1, <1>2, <1>3, <1>4, <1>5 DEF Next, Step

LEMMA TypedKeeps ==
  ASSUME Typed, LockWaitIsHonoured, Next
  PROVE  Typed'
<1>1. waited' \in Nat /\ setup' = setup
  BY WaitKeeps DEF Next
<1>2. CASE Quiet
  <2>1. txn' \in [owner : {"nobody", "us", "orphan", "other"},
                  todo : SUBSET (Packages \X (Versions \ {0}))]
    BY <1>2 DEF Quiet, NoTxn, Typed
  <2> QED BY <1>1, <1>2, <2>1 DEF Quiet, Typed
<1>3. CASE Refresh
  BY <1>1, <1>3 DEF Refresh, Typed, cycleVars
<1>4. CASE List
  <2>1. listed' \subseteq Updates /\ index' \in [Packages -> Versions]
    BY <1>4, ListEffect
  <2> QED BY <1>1, <1>4, <2>1 DEF List, Typed
<1>5. CASE Classify
  <2>1. listed' \subseteq Updates
    BY <1>5, ClassifyEffect
  <2> QED BY <1>1, <1>5, <2>1 DEF Classify, Typed, packageVars
<1>6. CASE Start
  <2>1. /\ index' \in [Packages -> Versions]
        /\ txn' \in [owner : {"nobody", "us", "orphan", "other"},
                     todo : SUBSET (Packages \X (Versions \ {0}))]
    BY <1>6, StartEffect DEF Typed
  <2> QED BY <1>1, <1>6, <2>1 DEF Start, Typed, cycleVars
<1>7. CASE Transaction
  <2>1. UNCHANGED <<repo, index, listed, required, unanswered>>
    BY <1>7 DEF Transaction, cycleVars
  <2>2. CASE Progress
    BY <1>1, <2>1, <2>2, ProgressEffect DEF Typed
  <2>3. CASE txn' = NoTxn /\ UNCHANGED <<installed, restart, ours>>
    BY <1>1, <2>1, <2>3 DEF Typed, NoTxn
  <2> QED BY <1>7, <2>2, <2>3 DEF Transaction
<1>8. CASE Kill
  <2>1. txn' \in [owner : {"nobody", "us", "orphan", "other"},
                  todo : SUBSET (Packages \X (Versions \ {0}))]
    BY <1>8 DEF Kill, Typed, NoTxn
  <2> QED BY <1>1, <1>8, <2>1 DEF Kill, Typed, cycleVars
<1>9. CASE Others
  <2>1. index' \in [Packages -> Versions]
    BY <1>9, OthersEffect DEF Typed
  <2> QED BY <1>1, <1>9, <2>1, OthersEffect DEF Typed, cycleVars
<1> QED BY <1>2, <1>3, <1>4, <1>5, <1>6, <1>7, <1>8, <1>9, QuietSteps

-----------------------------------------------------------------------------
(* Who has the package manager.                                             *)

LEMMA AwaitedKeeps ==
  ASSUME Typed, Phased, OursIsAwaited, Next
  PROVE  OursIsAwaited'
<1> USE DEF OursIsAwaited, Phased, Preflights, Upgrades, Listings, Probes, Goto
<1>1. CASE Preflight \/ Audit \/ ProbeLocks \/ Check \/ Repair
  BY <1>1 DEF Preflight, Audit, ProbeLocks, Check, Repair, WaitOrGiveUp, PreflightOk,
     Interrupted, Locked, packageVars
<1>2. CASE Refresh \/ List \/ Classify \/ Decide
  BY <1>2 DEF Refresh, List, Classify, Decide, packageVars
<1>3. CASE Start
  BY <1>3, StartEffect DEF Start
<1>4. CASE Transaction
  <2>1. CASE Progress /\ UNCHANGED <<pc, phase>>
    BY <1>4, <2>1, ProgressEffect DEF Transaction
  <2>2. CASE txn' = NoTxn /\ pc' = "applied"
    BY <2>2 DEF NoTxn
  <2> QED BY <1>4, <2>1, <2>2 DEF Transaction
<1>5. CASE TransactionTimeout
  BY <1>5 DEF TransactionTimeout, NoTxn
<1>6. CASE Applied \/ Sentinel \/ KernelQuery \/ Verify \/ VerifyAudit
  BY <1>6 DEF Applied, Sentinel, KernelQuery, Verify, VerifyAudit, packageVars
<1>7. CASE CommandFails
  BY <1>7 DEF CommandFails, packageVars
<1>8. CASE Kill
  <2>1. txn.owner \in {"us", "orphan"} => pc' = "preflight" /\ phase' = "precheck"
    BY <1>8 DEF Kill
  <2>2. pc' \in {"sentinel", "verify", "preflight"}
    BY <1>8 DEF Kill
  <2>3. IF txn.owner = "us" THEN txn'.owner \in {"nobody", "orphan"} ELSE txn' = txn
    BY <1>8 DEF Kill, NoTxn, Typed
  <2> QED BY <2>1, <2>2, <2>3
<1>9. CASE Others
  BY <1>9, OthersEffect
<1> QED BY <1>1, <1>2, <1>3, <1>4, <1>5, <1>6, <1>7, <1>8, <1>9 DEF Next, Step

-----------------------------------------------------------------------------
(* What a security run installs.                                            *)

\* Newer lists offer a listed version only if they did so before.
LEMMA NewerLists ==
  ASSUME Typed, ListsAge, UNCHANGED listed, index' \in {index, repo},
         \A p \in Packages : repo[p] <= repo'[p] /\ repo'[p] \in Nat
  PROVE  ListsAge'
<1>1. \A p \in Packages : index[p] \in Nat /\ repo[p] \in Nat
  BY ProviderAssumption DEF Typed, Versions
<1>2. \A p \in Packages : index[p] <= index'[p] /\ index'[p] <= repo'[p] /\ index'[p] \in Nat
  BY <1>1 DEF ListsAge
<1>3. ASSUME NEW u \in listed
      PROVE  /\ u.to <= index'[u.name]
             /\ u.security /\ u.to = index'[u.name] => <<u.name, u.to>> \in SecurityFixes
  <2>1. u.name \in Packages /\ u.to \in Nat
    BY ProviderAssumption DEF Typed, Updates, Versions
  <2>2. /\ u.to <= index[u.name]
        /\ u.security /\ u.to = index[u.name] => <<u.name, u.to>> \in SecurityFixes
    BY DEF ListsAge
  <2>3. index[u.name] \in Nat /\ index'[u.name] \in Nat /\ index[u.name] <= index'[u.name]
    BY <1>1, <1>2, <2>1
  <2> QED BY <2>1, <2>2, <2>3
<1> QED BY <1>2, <1>3 DEF ListsAge

LEMMA ListsKeep ==
  ASSUME Typed, ListsAge, Next
  PROVE  ListsAge'
<1>1. \A p \in Packages : index[p] \in Nat /\ repo[p] \in Nat /\ repo[p] <= repo[p]
  BY ProviderAssumption DEF Typed, Versions
<1>2. CASE Quiet
  BY <1>1, <1>2, NewerLists DEF Quiet
<1>3. CASE Refresh \/ Start \/ Transaction \/ Kill
  <2>1. UNCHANGED <<listed, repo>> /\ index' \in {index, repo}
    BY <1>3 DEF Refresh, Start, Transaction, Kill, cycleVars
  <2> QED BY <1>1, <2>1, NewerLists
<1>4. CASE Others
  <2>1. \A p \in Packages : repo[p] <= repo'[p] /\ repo'[p] \in Nat
    BY <1>4, OthersEffect, ProviderAssumption DEF Versions
  <2> QED BY <1>4, <2>1, OthersEffect, NewerLists DEF cycleVars
<1>5. CASE List
  <2>1. index' \in {index, repo} /\ repo' = repo
    BY <1>5, ListEffect DEF List
  <2>2. \A p \in Packages : index'[p] <= repo'[p] /\ index'[p] <= index'[p]
    BY <1>1, <2>1 DEF ListsAge
  <2>3. \A u \in listed' : u.name \in Packages /\ u.to = index'[u.name] /\ ~u.security
    BY <1>5, ListEffect DEF Updates
  <2> QED BY <2>2, <2>3 DEF ListsAge
<1>6. CASE Classify
  <2>1. UNCHANGED <<index, repo>>
    BY <1>6 DEF Classify, packageVars
  <2>2. ASSUME NEW u \in listed'
        PROVE  /\ u.to <= index[u.name]
               /\ u.security /\ u.to = index[u.name] => <<u.name, u.to>> \in SecurityFixes
    <3>1. PICK v \in listed : /\ u.name = v.name /\ u.to = v.to
                              /\ u.security <=> IsSecurity(v.name)
      BY <1>6, ClassifyEffect
    <3> QED BY <3>1 DEF ListsAge, IsSecurity
  <2> QED BY <2>1, <2>2 DEF ListsAge
<1> QED BY <1>2, <1>3, <1>4, <1>5, <1>6, QuietSteps

LEMMA ClassifiedKeeps ==
  ASSUME Typed, OursIsAwaited, ListsAge, Classified, Next
  PROVE  Classified'
<1>1. SecurityOnly' <=> SecurityOnly
  BY DEF Next, SecurityOnly, Manager, Strategy
<1>2. SUFFICES ASSUME SecurityOnly
      PROVE  /\ ours' \subseteq SecurityFixes
             /\ txn'.owner \in {"us", "orphan"} => txn'.todo \subseteq SecurityFixes
  BY <1>1 DEF Classified, OnlyClassifiedIsInstalled, SecurityOnly
<1>3. /\ ours \subseteq SecurityFixes
      /\ txn.owner \in {"us", "orphan"} => txn.todo \subseteq SecurityFixes
  BY <1>2 DEF Classified, OnlyClassifiedIsInstalled, SecurityOnly
<1>4. CASE Quiet \/ Refresh \/ List \/ Classify
  <2>1. UNCHANGED ours /\ txn' \in {txn, NoTxn}
    BY <1>4 DEF Quiet, Refresh, List, Classify, packageVars
  <2> QED BY <1>3, <2>1 DEF NoTxn
<1>5. CASE Start
  <2>1. CASE txn' = txn
    BY <1>3, <1>5, <2>1 DEF Start
  <2>2. CASE txn'.todo = Resolved /\ Installable(Targets)
    <3>1. Resolved = Targets
      BY <1>2 DEF Resolved, SecurityOnly
    <3>2. ASSUME NEW t \in Targets
          PROVE  t \in SecurityFixes
      <4>1. PICK u \in listed : u.security /\ t = <<u.name, u.to>>
        BY DEF Targets
      <4>2. index[u.name] = u.to
        BY <2>2, <4>1 DEF Installable
      <4> QED BY <4>1, <4>2 DEF ListsAge
    <3> QED BY <1>3, <1>5, <2>2, <3>1, <3>2 DEF Start
  <2> QED BY <1>2, <1>5, <2>1, <2>2, StartEffect
<1>6. CASE Transaction
  <2>1. txn.owner = "us"
    BY <1>6 DEF Transaction, OursIsAwaited
  <2>2. CASE Progress
    BY <1>3, <2>1, <2>2, ProgressEffect
  <2>3. CASE txn' = NoTxn /\ UNCHANGED ours
    BY <1>3, <2>3 DEF NoTxn
  <2> QED BY <1>6, <2>2, <2>3 DEF Transaction
<1>7. CASE Kill
  <2>1. ours' = ours
    BY <1>7 DEF Kill
  <2>2. txn' = txn \/ txn' = NoTxn \/ (txn.owner = "us" /\ txn'.todo = txn.todo)
    BY <1>7 DEF Kill, Typed
  <2> QED BY <1>3, <2>1, <2>2 DEF NoTxn
<1>8. CASE Others
  BY <1>3, <1>8, OthersEffect
<1> QED BY <1>4, <1>5, <1>6, <1>7, <1>8, QuietSteps

-----------------------------------------------------------------------------
(* What is broken, and what is outstanding.                                 *)

LEMMA AuditedKeeps ==
  ASSUME Phased, Audited, Next
  PROVE  Audited'
<1> USE DEF Audited, Phased, Preflights, Listings, Upgrades, Probes, Ended, Goto, Track
<1>1. CASE Preflight \/ Audit \/ ProbeLocks \/ Check \/ Repair
  BY <1>1 DEF Preflight, Audit, ProbeLocks, Check, Repair, WaitOrGiveUp, PreflightOk,
     Interrupted, packageVars
<1>2. CASE Refresh \/ List \/ Classify \/ Decide
  BY <1>2 DEF Refresh, List, Classify, Decide
<1>3. CASE Start \/ Transaction \/ Applied \/ TransactionTimeout
  BY <1>3 DEF Start, Transaction, Applied, TransactionTimeout
<1>4. CASE Sentinel \/ KernelQuery \/ Verify \/ VerifyAudit
  BY <1>4 DEF Sentinel, KernelQuery, Verify, VerifyAudit, packageVars
<1>5. CASE CommandFails \/ Kill \/ Others
  BY <1>5 DEF CommandFails, Kill, Others
<1> QED BY <1>1, <1>2, <1>3, <1>4, <1>5 DEF Next, Step

LEMMA ManagerStays ==
  ASSUME Next
  PROVE  Manager' = Manager /\ Strategy' = Strategy
BY DEF Next, Manager, Strategy

\* A listing holds what is outstanding.
LEMMA ListFinds ==
  ASSUME Typed, Next, List
  PROVE  Found'
<1>1. index' \in [Packages -> Versions] /\ UNCHANGED <<installed, held>>
  BY ListEffect DEF List
<1>2. listed' = {[name |-> p, to |-> index'[p], security |-> FALSE,
                  held |-> Manager = "apt" /\ p \in KeptBack]
                 : p \in {q \in Packages : index'[q] > installed[q]}}
  BY DEF List
<1>3. ASSUME NEW p \in pending'
      PROVE  p \in Packages /\ index'[p] > installed[p] /\ p \notin KeptBack
  <2>1. p \in Outstanding'
    BY DEF List, Track
  <2> QED BY <1>1, <2>1, ManagerStays DEF Outstanding, Upgradable, KeptBack
<1>4. FoundIn(listed)'
  <2> SUFFICES ASSUME NEW p \in pending' PROVE \E u \in listed' : u.name = p
    BY DEF FoundIn
  <2>1. [name |-> p, to |-> index'[p], security |-> FALSE,
         held |-> Manager = "apt" /\ p \in KeptBack] \in listed'
    BY <1>2, <1>3
  <2> QED BY <2>1
<1>5. FoundIn(Applicable)'
  <2> SUFFICES ASSUME NEW p \in pending' PROVE \E u \in listed' : u.name = p /\ ~u.held
    BY DEF FoundIn, Applicable
  <2>1. [name |-> p, to |-> index'[p], security |-> FALSE,
         held |-> Manager = "apt" /\ p \in KeptBack] \in listed'
    BY <1>2, <1>3
  <2> QED BY <1>3, <2>1
<1>6. pc' # "done"
  BY DEF List, Goto
<1> QED BY <1>4, <1>5, <1>6 DEF Found

\* A classification keeps what is outstanding applicable.
LEMMA ClassifyFinds ==
  ASSUME Typed, Found, Next, Classify
  PROVE  Found'
<1>1. pc = "classify" /\ pc' = "decide" /\ UNCHANGED <<installed, index, held>>
  BY DEF Classify, Goto, packageVars
<1>2. FoundIn(Applicable)'
  <2> SUFFICES ASSUME NEW p \in pending' PROVE \E u \in listed' : u.name = p /\ ~u.held
    BY DEF FoundIn, Applicable
  <2>1. p \in pending /\ p \in Outstanding'
    BY DEF Classify, Track
  <2>2. p \notin held /\ (Strategy = "security" => IsSecurity(p))
    BY <1>1, <2>1, ManagerStays DEF Outstanding, KeptBack, IsSecurity
  <2>3. PICK v \in listed : v.name = p /\ (Manager = "apt" => ~v.held)
    BY <1>1, <2>1 DEF Found, FoundIn, Applicable
  <2> DEFINE u == [v EXCEPT !.security = IsSecurity(v.name),
                            !.held = IF Manager = "dnf" THEN v.name \in held ELSE @]
  <2>4. v \in Updates
    BY DEF Typed
  <2>5. Manager \in {"apt", "dnf"}
    BY ProviderAssumption DEF Manager, Typed, Setup
  <2>6. u.name = p /\ ~u.held /\ (Strategy = "security" => u.security)
    BY <2>2, <2>3, <2>4, <2>5 DEF Updates
  <2>7. listed' = OfStrategy({[w EXCEPT !.security = IsSecurity(w.name),
                                        !.held = IF Manager = "dnf" THEN w.name \in held ELSE @]
                              : w \in listed})
    BY DEF Classify
  <2>8. u \in listed'
    BY <2>6, <2>7 DEF OfStrategy
  <2> HIDE DEF u
  <2> QED BY <2>6, <2>8
<1> QED BY <1>1, <1>2 DEF Found

LEMMA FoundKeeps ==
  ASSUME Typed, Phased, Found, Next
  PROVE  Found'
<1>1. CASE UNCHANGED <<listed, pc>> /\ Track
  <2>1. pending' \subseteq pending /\ Manager' = Manager /\ Applicable' = Applicable
    BY <1>1, ManagerStays DEF Track, Applicable
  <2> QED BY <1>1, <2>1 DEF Found, FoundIn
<1>2. CASE pc' \notin {"classify", "decide", "done"}
  BY <1>2 DEF Found
<1>3. CASE Decide
  <2>1. CASE pc' = "done"
    <3>1. Applicable = {} /\ pc = "decide" /\ pending' \subseteq pending
      BY <1>3, <2>1 DEF Decide, Goto, Track
    <3> QED BY <2>1, <3>1 DEF Found, FoundIn
  <2>2. CASE pc' # "done"
    BY <1>2, <1>3, <2>2 DEF Decide, Goto
  <2> QED BY <2>1, <2>2
<1>4. CASE Others
  BY <1>1, <1>4 DEF Others, cycleVars
<1>5. CASE ~List /\ ~Classify /\ ~Decide /\ ~Others
  <2> USE DEF Phased, Preflights, Listings, Upgrades, Probes, Ended, Goto
  <2>1. CASE Preflight \/ Audit \/ ProbeLocks \/ Check \/ Repair \/ Refresh
    BY <1>2, <2>1 DEF Preflight, Audit, ProbeLocks, Check, Repair, Refresh, WaitOrGiveUp,
       PreflightOk, Interrupted
  <2>2. CASE Start \/ Transaction \/ Applied \/ TransactionTimeout
    BY <1>2, <2>2 DEF Start, Transaction, Applied, TransactionTimeout
  <2>3. CASE Sentinel \/ KernelQuery \/ Verify \/ VerifyAudit
    BY <1>2, <2>3 DEF Sentinel, KernelQuery, Verify, VerifyAudit
  <2>4. CASE CommandFails \/ Kill
    BY <1>2, <2>4 DEF CommandFails, Kill
  <2> QED BY <1>5, <2>1, <2>2, <2>3, <2>4 DEF Next, Step
<1> QED BY <1>3, <1>4, <1>5, ListFinds, ClassifyFinds

-----------------------------------------------------------------------------
(* The kernel.                                                              *)

\* A version that one of our transactions set is never the running kernel's.
LEMMA OursStayInstalled ==
  ASSUME Typed, \A t \in ours : installed[t[1]] # 0, Next
  PROVE  \A t \in ours' : installed'[t[1]] # 0
<1>1. \A t \in ours : t[1] \in Packages
  BY DEF Typed
<1>2. CASE Quiet \/ Refresh \/ List \/ Classify \/ Start \/ Kill
  <2>1. UNCHANGED <<installed, ours>>
    BY <1>2 DEF Quiet, Refresh, List, Classify, Start, Kill, packageVars
  <2> QED BY <2>1
<1>3. CASE Transaction
  <2>1. CASE Progress
    BY <1>1, <2>1, ProgressEffect
  <2>2. CASE UNCHANGED <<installed, ours>>
    BY <2>2
  <2> QED BY <1>3, <2>1, <2>2 DEF Transaction
<1>4. CASE Others
  BY <1>1, <1>4, OthersEffect
<1> QED BY <1>2, <1>3, <1>4, QuietSteps

LEMMA KernelKeeps ==
  ASSUME Typed, Phased, OursIsAwaited, KernelKnown, Next
  PROVE  KernelKnown'
<1> DEFINE Ours == \E t \in ours : t[1] = Kernel
           Known == required \/ unanswered
           After == pc = "verify" \/ phase = "verify"
<1>1. (\A t \in ours : installed[t[1]] # 0) /\ (After /\ Ours => Known)
  BY DEF KernelKnown
<1>2. \A t \in ours' : installed'[t[1]] # 0
  BY <1>1, OursStayInstalled
<1>3. SUFFICES (After /\ Ours => Known)'
  BY <1>2 DEF KernelKnown
<1>4. CASE KernelQuery
  <2>1. UNCHANGED <<ours, installed>>
    BY <1>4 DEF KernelQuery, packageVars
  <2>2. Ours' => installed[Kernel] # 0
    BY <1>1, <2>1
  <2> QED BY <1>4, <2>1, <2>2 DEF KernelQuery
<1>5. ASSUME ~KernelQuery, After'
      PROVE  After /\ UNCHANGED <<ours, required, unanswered>>
  <2> USE DEF Phased, Preflights, Listings, Upgrades, Probes, Ended, Goto, cycleVars
  <2>1. CASE Preflight \/ Audit \/ ProbeLocks \/ Check \/ Repair
    BY <1>5, <2>1 DEF Preflight, Audit, ProbeLocks, Check, Repair, WaitOrGiveUp, PreflightOk,
       Interrupted
  <2>2. CASE Refresh \/ List \/ Classify \/ Decide
    BY <1>5, <2>2 DEF Refresh, List, Classify, Decide
  <2>3. CASE Start \/ Transaction \/ Applied \/ TransactionTimeout
    BY <1>5, <2>3 DEF Start, Transaction, Applied, TransactionTimeout
  <2>4. CASE Sentinel \/ Verify \/ VerifyAudit
    BY <1>5, <2>4 DEF Sentinel, Verify, VerifyAudit
  <2>5. CASE CommandFails \/ Kill
    BY <1>5, <2>5 DEF CommandFails, Kill
  <2>6. CASE Others
    <3>1. UNCHANGED <<pc, phase, required, unanswered>>
      BY <2>6, OthersEffect
    <3>2. After /\ txn.owner # "orphan"
      BY <1>5, <3>1 DEF OursIsAwaited
    <3>3. ours' = ours
      <4>1. ours' \subseteq ours
        BY <2>6, <3>2, OthersEffect
      <4>2. ours \subseteq ours'
        BY <2>6 DEF Others, OtherProgresses, Progress
      <4> QED BY <4>1, <4>2
    <3> QED BY <3>1, <3>2, <3>3
  <2> QED BY <1>5, <2>1, <2>2, <2>3, <2>4, <2>5, <2>6 DEF Next, Step
<1> QED BY <1>1, <1>4, <1>5

-----------------------------------------------------------------------------
(* The theorems.                                                            *)

LEMMA InitInvariant == Init => IInv
<1> SUFFICES ASSUME Init PROVE IInv
  OBVIOUS
<1>1. 0 \in Versions /\ 1 \in Versions
  BY ProviderAssumption DEF Versions
<1>2. NoTxn \in [owner : {"nobody", "us", "orphan", "other"},
                 todo : SUBSET (Packages \X (Versions \ {0}))]
  BY DEF NoTxn
<1>3. /\ setup \in Setups /\ installed = [p \in Packages |-> 0]
      /\ repo = [p \in Packages |-> 1] /\ index = [p \in Packages |-> 0]
      /\ txn = NoTxn /\ restart = FALSE /\ pc = "preflight" /\ phase = "precheck"
      /\ waited = 0 /\ listed = {} /\ required = FALSE
      /\ ours = {} /\ unanswered = FALSE
  BY DEF Init
<1>4. Typed
  BY <1>1, <1>2, <1>3 DEF Typed
<1>5. Phased
  BY <1>3 DEF Phased, Preflights, Listings, Upgrades, Probes, Ended
<1>6. OursIsAwaited
  BY <1>3 DEF OursIsAwaited, NoTxn
<1>7. ListsAge
  BY <1>3 DEF ListsAge
<1>8. Classified
  BY <1>3 DEF Classified, OnlyClassifiedIsInstalled, NoTxn
<1>9. LockWaitIsHonoured
  BY <1>3, ProviderAssumption DEF LockWaitIsHonoured
<1>10. Audited /\ Found /\ KernelKnown
  BY <1>3 DEF Audited, Listings, Found, KernelKnown
<1> QED BY <1>4, <1>5, <1>6, <1>7, <1>8, <1>9, <1>10 DEF IInv

LEMMA StutterKeeps ==
  ASSUME IInv, UNCHANGED vars
  PROVE  IInv'
<1>1. /\ Typed /\ Phased /\ OursIsAwaited /\ ListsAge /\ Classified
      /\ LockWaitIsHonoured /\ Audited /\ Found /\ KernelKnown
  BY DEF IInv
<1>2. UNCHANGED <<setup, installed, broken, held, repo, index, txn, restart, pc, phase, waited,
                  listed, applied, required, leftover, pending, ours, unanswered>>
  BY DEF vars, packageVars, cycleVars, ghosts
<1>3. Typed' /\ Phased' /\ OursIsAwaited' /\ ListsAge'
  BY <1>1, <1>2 DEF Typed, Phased, OursIsAwaited, ListsAge
<1>4. Classified' /\ LockWaitIsHonoured'
  BY <1>1, <1>2 DEF Classified, OnlyClassifiedIsInstalled, SecurityOnly, LockWaitIsHonoured,
     Manager, Strategy
<1>5. Audited' /\ Found' /\ KernelKnown'
  BY <1>1, <1>2 DEF Audited, Found, FoundIn, Applicable, KernelKnown, Manager
<1> QED BY <1>3, <1>4, <1>5 DEF IInv

LEMMA NextInvariant == IInv /\ [Next]_vars => IInv'
<1>1. ASSUME IInv, Next
      PROVE  IInv'
  BY <1>1, TypedKeeps, PhasedKeeps, AwaitedKeeps, ListsKeep, ClassifiedKeeps, WaitKeeps,
     AuditedKeeps, FoundKeeps, KernelKeeps DEF IInv
<1> QED BY <1>1, StutterKeeps

\* Every command finds what the ones before it left for it, whatever others do
\* to the packages in between (providers/apt.py, dnf.py, engine.py).
THEOREM CommandsAreSound == Spec => []IInv
<1>1. Init => IInv
  BY InitInvariant
<1>2. IInv /\ [Next]_vars => IInv'
  BY NextInvariant
<1> QED BY <1>1, <1>2, PTL DEF Spec

\* A busy lock is waited for lock_timeout, and less than a poll longer, for
\* every timeout and poll interval (_preflight_with_lock_wait).
THEOREM LockIsWaitedFor == Spec => []LockWaitIsHonoured
<1>1. IInv => LockWaitIsHonoured
  BY DEF IInv
<1> QED BY <1>1, CommandsAreSound, PTL

\* APT's security run installs security updates only, whatever the archive does
\* between its listing, its classification and its upgrade (apply_updates).
THEOREM OnlyFixesAreInstalled == Spec => []OnlyClassifiedIsInstalled
<1>1. IInv => OnlyClassifiedIsInstalled
  BY DEF IInv, Classified
<1> QED BY <1>1, CommandsAreSound, PTL

\* A verified cycle left nothing broken and nothing outstanding, except what
\* became so while it looked (verify, list_updates).
THEOREM VerificationIsTrue == Spec => []VerifiedIsTrue
<1>1. IInv => VerifiedIsTrue
  <2> SUFFICES ASSUME IInv, pc = "done" PROVE leftover = {} /\ pending = {}
    BY DEF VerifiedIsTrue
  <2>1. phase = "verify"
    BY DEF IInv, Phased
  <2> QED BY <2>1 DEF IInv, Audited, Found
<1> QED BY <1>1, CommandsAreSound, PTL

\* A verified cycle that installed a kernel, as this process or as an earlier
\* one, and whose last kernel query had an answer knows that a reboot is
\* required (reboot_required).
THEOREM KernelIsSeen == Spec => []OwnKernelIsSeen
<1>1. IInv => OwnKernelIsSeen
  <2> SUFFICES ASSUME IInv, pc = "done", NEW v \in Versions, <<Kernel, v>> \in ours
               PROVE  required \/ unanswered
    BY DEF OwnKernelIsSeen
  <2>1. phase = "verify"
    BY DEF IInv, Phased
  <2>2. \E t \in ours : t[1] = Kernel
    OBVIOUS
  <2> QED BY <2>1, <2>2 DEF IInv, KernelKnown
<1> QED BY <1>1, CommandsAreSound, PTL

\* No transaction begins over what was broken at the preflight of its upgrade
\* and still is (preflight, apply_updates).
THEOREM BrokenIsNotUpgraded == Spec => NeverUpgradesOverBroken
<1>1. IInv /\ [Next]_vars => [Begins => leftover' = {}]_vars
  <2> SUFFICES ASSUME IInv, Next, Begins PROVE leftover' = {}
    OBVIOUS
  <2>1. leftover = {} /\ pc = "apply" /\ pc' = "transaction"
    BY DEF IInv, Audited, Begins
  <2>2. CASE Start \/ CommandFails \/ Kill \/ Others
    BY <2>1, <2>2 DEF Start, CommandFails, Kill, Others, Track
  <2>3. ~(Start \/ CommandFails \/ Kill \/ Others) => pc # "apply"
    BY DEF Next, Step, Preflight, Audit, ProbeLocks, Check, Repair, Refresh, List, Classify,
       Decide, Transaction, TransactionTimeout, Applied, Sentinel, KernelQuery, Verify, VerifyAudit
  <2> QED BY <2>1, <2>2, <2>3
<1> QED BY <1>1, CommandsAreSound, PTL DEF Spec, NeverUpgradesOverBroken
=============================================================================
