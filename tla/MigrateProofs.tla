---------------------------- MODULE MigrateProofs ---------------------------
(* However many processes start at once with however many migrations, each  *)
(* of them dying anywhere any number of times: every migration takes effect *)
(* once and in order, and a process that serves has all of its own.         *)
EXTENDS Migrate, TLAPS

MigrateInv == MigrateConsistent /\ SchemaInOrder /\ ReadyMeansMigrated

(* The files a process was shipped with are files.                          *)
LEMMA OwnFiles ==
  ASSUME NEW p \in Procs
  PROVE  Has[p] \in Nat /\ 1..Has[p] \subseteq Files /\ Files \subseteq Nat \ {0}
BY MigrateAssumption DEF Files

LEMMA InitConsistent == Init => MigrateInv
<1> SUFFICES ASSUME Init PROVE MigrateInv
  OBVIOUS
<1>1. MigrateConsistent
  BY MigrateAssumption DEF Init, Start, MigrateConsistent, MigrateTypeOK, ProcConsistent,
     HolderConsistent, At
<1>2. SchemaInOrder
  BY DEF Init, SchemaInOrder
<1>3. ReadyMeansMigrated
  BY DEF Init, Start, ReadyMeansMigrated, At
<1> QED
  BY <1>1, <1>2, <1>3 DEF MigrateInv

(* Others are not disturbed by a process that ends its transaction, as long *)
(* as nobody else's file is recorded.                                       *)
LEMMA OthersConsistent ==
  ASSUME MigrateInv, NEW p \in Procs, holder' = RolledBack(p), recorded \subseteq recorded',
         \A q \in Procs \ {p} : At(q, "inserted") => proc[q].file \notin recorded',
         \A q \in Procs \ {p} : proc'[q] = proc[q],
         proc'[p].pc \notin {"ran", "inserted"}, proc'[p].applied \subseteq recorded'
  PROVE  /\ holder' \in [Files -> Procs \cup {None}]
         /\ \A q \in Procs : ProcConsistent(q)'
         /\ \A f \in Files : HolderConsistent(f)'
<1>1. holder' \in [Files -> Procs \cup {None}]
  BY DEF MigrateInv, MigrateConsistent, MigrateTypeOK, RolledBack
<1>2. ASSUME NEW q \in Procs PROVE ProcConsistent(q)'
  <2>1. CASE q = p
    BY <2>1 DEF ProcConsistent, At
  <2>2. CASE q # p
    <3>1. proc'[q] = proc[q] /\ ProcConsistent(q)
      BY <2>2 DEF MigrateInv, MigrateConsistent
    <3>2. At(q, "inserted") => proc[q].file \in Files
      BY <3>1, OwnFiles DEF ProcConsistent, At
    <3> QED
      BY <2>2, <3>1, <3>2 DEF ProcConsistent, At, RolledBack
  <2> QED
    BY <2>1, <2>2
<1>3. ASSUME NEW f \in Files PROVE HolderConsistent(f)'
  <2> SUFFICES ASSUME holder'[f] # None
               PROVE  proc'[holder'[f]].pc = "inserted" /\ proc'[holder'[f]].file = f
    BY DEF HolderConsistent, At
  <2>1. holder'[f] = holder[f] /\ holder[f] # p /\ holder[f] # None
    BY DEF RolledBack
  <2>2. holder[f] \in Procs \ {p}
    BY <2>1 DEF MigrateInv, MigrateConsistent, MigrateTypeOK
  <2>3. HolderConsistent(f)
    BY DEF MigrateInv, MigrateConsistent
  <2> QED
    BY <2>1, <2>2, <2>3 DEF HolderConsistent, At
<1> QED
  BY <1>1, <1>2, <1>3

(* A process that gives up leaves nothing of its transaction behind.        *)
LEMMA GiveUpSafe ==
  ASSUME MigrateInv, NEW p \in Procs, GiveUp(p), UNCHANGED <<schema, recorded>>,
         failures' \in Nat
  PROVE  MigrateInv'
<1>1. /\ proc' \in [Procs -> [pc : {"starting", "list", "ran", "inserted", "failed", "ready"},
                              applied : SUBSET Files, file : Files \cup {0}]]
      /\ proc'[p].pc = "failed" /\ proc'[p].applied = proc[p].applied
      /\ \A q \in Procs : q # p => proc'[q] = proc[q]
  BY DEF MigrateInv, MigrateConsistent, MigrateTypeOK, GiveUp, Throws
<1>2. /\ proc[p].applied \subseteq recorded
      /\ \A q \in Procs : At(q, "inserted") => proc[q].file \notin recorded'
  BY DEF MigrateInv, MigrateConsistent, ProcConsistent
<1>3. /\ holder' \in [Files -> Procs \cup {None}]
      /\ \A q \in Procs : ProcConsistent(q)'
      /\ \A f \in Files : HolderConsistent(f)'
  BY <1>1, <1>2, OthersConsistent DEF GiveUp
<1>4. MigrateConsistent'
  BY <1>1, <1>3 DEF MigrateInv, MigrateConsistent, MigrateTypeOK
<1>5. SchemaInOrder' /\ ReadyMeansMigrated'
  BY <1>1 DEF MigrateInv, SchemaInOrder, ReadyMeansMigrated, At
<1> QED
  BY <1>4, <1>5 DEF MigrateInv

(* A commit adds the next migration and no other.                           *)
LEMMA CommitsNext ==
  ASSUME MigrateInv, NEW p \in Procs, Commits(p)
  PROVE  /\ SchemaInOrder'
         /\ schema' \in Seq(Files) /\ recorded' \subseteq Files /\ recorded \subseteq recorded'
         /\ proc[p].file \in Files /\ recorded' = recorded \cup {proc[p].file}
         /\ \A q \in Procs \ {p} : At(q, "inserted") => proc[q].file \notin recorded'
<1> DEFINE f == proc[p].file
<1>1. /\ f \in 1..Has[p] /\ f \in Files /\ 1..(f - 1) \subseteq recorded
      /\ f \notin recorded /\ holder[f] = p
  BY OwnFiles DEF MigrateInv, MigrateConsistent, ProcConsistent, Commits, At
<1>2. schema \in Seq(Files) /\ recorded = 1..Len(schema)
      /\ schema = [i \in 1..Len(schema) |-> i]
  BY DEF MigrateInv, MigrateConsistent, MigrateTypeOK, SchemaInOrder
<1>3. f = Len(schema) + 1
  <2>1. Len(schema) \in Nat /\ f \in Nat \ {0}
    BY <1>1, <1>2, OwnFiles
  <2>2. f > Len(schema)
    BY <1>1, <1>2, <2>1
  <2>3. f - 1 <= Len(schema)
    <3>1. CASE f = 1
      BY <3>1, <2>1
    <3>2. CASE f > 1
      <4>1. f - 1 \in 1..(f - 1)
        BY <3>2, <2>1
      <4>2. f - 1 \in 1..Len(schema)
        BY <4>1, <1>1, <1>2
      <4> QED
        BY <4>2, <2>1
    <3> QED
      BY <3>1, <3>2, <2>1
  <2> QED
    BY <2>1, <2>2, <2>3
<1>4. schema' = Append(schema, f) /\ recorded' = recorded \cup {f}
  BY DEF Commits
<1>5. schema' \in Seq(Files) /\ Len(schema') = f
  BY <1>1, <1>2, <1>3, <1>4
<1>6. SchemaInOrder'
  <2>1. \A i \in 1..Len(schema') : schema'[i] = i
    BY <1>2, <1>3, <1>4, <1>5
  <2>2. schema' = [i \in 1..Len(schema') |-> i]
    BY <1>5, <2>1
  <2>3. recorded' = 1..Len(schema')
    BY <1>2, <1>3, <1>4, <1>5
  <2> QED
    BY <2>2, <2>3 DEF SchemaInOrder
<1>7. \A q \in Procs \ {p} : At(q, "inserted") => proc[q].file \notin recorded'
  <2> SUFFICES ASSUME NEW q \in Procs \ {p}, At(q, "inserted") PROVE proc[q].file \notin recorded'
    OBVIOUS
  <2>1. proc[q].file \notin recorded /\ holder[proc[q].file] = q
    BY DEF MigrateInv, MigrateConsistent, ProcConsistent
  <2> QED
    BY <2>1, <1>1, <1>4
<1>8. recorded' \subseteq Files /\ recorded \subseteq recorded'
  BY <1>1, <1>4 DEF MigrateInv, MigrateConsistent, MigrateTypeOK
<1> QED
  BY <1>1, <1>4, <1>5, <1>6, <1>7, <1>8

(* Whatever the process does next, after a commit its transaction is over.  *)
LEMMA CommitSafe ==
  ASSUME MigrateInv, NEW p \in Procs, Commits(p), holder' = RolledBack(p),
         failures' \in Nat, proc'[p].pc \in {"list", "failed"},
         proc'[p].applied \subseteq recorded',
         proc' \in [Procs -> [pc : {"starting", "list", "ran", "inserted", "failed", "ready"},
                              applied : SUBSET Files, file : Files \cup {0}]],
         \A q \in Procs \ {p} : proc'[q] = proc[q]
  PROVE  MigrateInv'
<1>1. /\ SchemaInOrder' /\ schema' \in Seq(Files) /\ recorded' \subseteq Files
      /\ recorded \subseteq recorded'
      /\ \A q \in Procs \ {p} : At(q, "inserted") => proc[q].file \notin recorded'
  BY CommitsNext
<1>2. /\ holder' \in [Files -> Procs \cup {None}]
      /\ \A q \in Procs : ProcConsistent(q)'
      /\ \A f \in Files : HolderConsistent(f)'
  BY <1>1, OthersConsistent
<1>3. MigrateConsistent'
  BY <1>1, <1>2 DEF MigrateConsistent, MigrateTypeOK
<1>4. ReadyMeansMigrated'
  BY <1>1 DEF MigrateInv, ReadyMeansMigrated, At
<1> QED
  BY <1>1, <1>3, <1>4 DEF MigrateInv

(* A step that keeps the schema, the rows and the transactions and leaves   *)
(* the process in order leaves everything in order.                         *)
LEMMA LocalSafe ==
  ASSUME MigrateInv, NEW p \in Procs, UNCHANGED <<schema, recorded, holder, failures>>,
         NEW pc \in {"starting", "list", "ran", "ready"},
         NEW applied \in SUBSET recorded, NEW file \in Files \cup {0},
         proc' = [proc EXCEPT ![p] = [pc |-> pc, applied |-> applied, file |-> file]],
         proc[p].pc # "inserted",
         pc = "ran" => file \in 1..Has[p] /\ 1..(file - 1) \subseteq recorded,
         pc = "ready" => 1..Has[p] \subseteq recorded
  PROVE  MigrateInv'
<1>1. MigrateTypeOK'
  BY DEF MigrateInv, MigrateConsistent, MigrateTypeOK
<1>2. /\ proc'[p] = [pc |-> pc, applied |-> applied, file |-> file]
      /\ \A q \in Procs : q # p => proc'[q] = proc[q]
  BY DEF MigrateInv, MigrateConsistent, MigrateTypeOK
<1>3. ASSUME NEW q \in Procs PROVE ProcConsistent(q)'
  <2>1. ProcConsistent(q)
    BY DEF MigrateInv, MigrateConsistent
  <2> QED
    BY <1>2, <2>1 DEF ProcConsistent, At
<1>4. ASSUME NEW f \in Files PROVE HolderConsistent(f)'
  <2>1. HolderConsistent(f) /\ holder[f] \in Procs \cup {None}
    BY DEF MigrateInv, MigrateConsistent, MigrateTypeOK
  <2> QED
    BY <1>2, <2>1 DEF HolderConsistent, At
<1>5. SchemaInOrder' /\ ReadyMeansMigrated'
  BY <1>2 DEF MigrateInv, SchemaInOrder, ReadyMeansMigrated, At
<1> QED
  BY <1>1, <1>3, <1>4, <1>5 DEF MigrateInv, MigrateConsistent

(* The version row is inserted only by who finds the file new.              *)
LEMMA RecordVersionSafe ==
  ASSUME MigrateInv, NEW p \in Procs, RecordVersion(p)
  PROVE  MigrateInv'
<1> DEFINE f == proc[p].file
<1>1. /\ f \in Files /\ f \in 1..Has[p] /\ 1..(f - 1) \subseteq recorded
      /\ proc[p].applied \subseteq recorded /\ proc[p].pc = "ran" /\ holder[f] = None
      /\ UNCHANGED <<schema, recorded, failures>> /\ failures \in Nat
  BY OwnFiles DEF MigrateInv, MigrateConsistent, MigrateTypeOK, ProcConsistent, RecordVersion, At
<1>2. CASE f \in recorded
  BY <1>1, <1>2, GiveUpSafe DEF RecordVersion, Conflict
<1>3. CASE f \notin recorded
  <2>1. holder' = [holder EXCEPT ![f] = p] /\ proc' = [proc EXCEPT ![p].pc = "inserted"]
    BY <1>3 DEF RecordVersion, Conflict, Move
  <2>2. MigrateTypeOK'
    BY <1>1, <2>1 DEF MigrateInv, MigrateConsistent, MigrateTypeOK
  <2>3. /\ proc'[p].pc = "inserted" /\ proc'[p].file = f /\ proc'[p].applied = proc[p].applied
        /\ holder'[f] = p
        /\ \A q \in Procs : q # p => proc'[q] = proc[q]
        /\ \A g \in Files : g # f => holder'[g] = holder[g]
    BY <1>1, <2>1 DEF MigrateInv, MigrateConsistent, MigrateTypeOK
  <2>4. ASSUME NEW q \in Procs PROVE ProcConsistent(q)'
    <3>1. CASE q = p
      BY <1>1, <1>3, <2>3, <3>1 DEF ProcConsistent, At
    <3>2. CASE q # p
      <4>1. ProcConsistent(q) /\ (At(q, "inserted") => proc[q].file \in Files)
        BY OwnFiles DEF MigrateInv, MigrateConsistent, ProcConsistent, At
      <4>2. At(q, "inserted") => proc[q].file # f
        BY <1>1, <4>1, MigrateAssumption DEF ProcConsistent
      <4> QED
        BY <1>1, <2>3, <3>2, <4>1, <4>2 DEF ProcConsistent, At
    <3> QED
      BY <3>1, <3>2
  <2>5. ASSUME NEW g \in Files PROVE HolderConsistent(g)'
    <3>1. CASE g = f
      BY <2>3, <3>1 DEF HolderConsistent, At
    <3>2. CASE g # f
      <4>1. HolderConsistent(g) /\ holder'[g] = holder[g] /\ holder[g] \in Procs \cup {None}
        BY <2>3, <3>2 DEF MigrateInv, MigrateConsistent, MigrateTypeOK
      <4>2. holder[g] # None => holder[g] # p
        BY <1>1, <4>1 DEF HolderConsistent, At
      <4> QED
        BY <2>3, <4>1, <4>2 DEF HolderConsistent, At
    <3> QED
      BY <3>1, <3>2
  <2>6. SchemaInOrder' /\ ReadyMeansMigrated'
    BY <1>1, <2>3 DEF MigrateInv, SchemaInOrder, ReadyMeansMigrated, At
  <2> QED
    BY <2>2, <2>4, <2>5, <2>6 DEF MigrateInv, MigrateConsistent
<1> QED
  BY <1>2, <1>3

(* Every step of every process keeps the invariant.                         *)
LEMMA StepSafe ==
  ASSUME MigrateInv, [Next]_migrateVars
  PROVE  MigrateInv'
<1>1. CASE UNCHANGED migrateVars
  BY <1>1 DEF migrateVars, MigrateInv, MigrateConsistent, MigrateTypeOK, ProcConsistent,
     HolderConsistent, SchemaInOrder, ReadyMeansMigrated, At
<1>2. ASSUME NEW p \in Procs, Step(p) \/ CommitUnanswered(p) \/ Fail(p)
      PROVE  MigrateInv'
  <2>1. /\ proc[p] = [pc |-> proc[p].pc, applied |-> proc[p].applied, file |-> proc[p].file]
        /\ proc[p].applied \subseteq recorded /\ proc[p].applied \in SUBSET Files
        /\ proc[p].file \in Files \cup {0} /\ failures \in Nat /\ recorded \subseteq Files
        /\ proc \in [Procs -> [pc : {"starting", "list", "ran", "inserted", "failed", "ready"},
                              applied : SUBSET Files, file : Files \cup {0}]]
    BY DEF MigrateInv, MigrateConsistent, MigrateTypeOK, ProcConsistent
  <2>2. CASE ReadApplied(p)
    BY <2>1, <2>2, LocalSafe DEF ReadApplied, At
  <2>3. CASE RunFile(p)
    <3>1. PICK f \in Pending(p) :
            /\ At(p, "list")
            /\ \A g \in Pending(p) : f <= g
            /\ proc' = [proc EXCEPT ![p] = [pc |-> "ran", applied |-> @.applied, file |-> f]]
            /\ UNCHANGED <<schema, recorded, holder, failures>>
      BY <2>3 DEF RunFile
    <3>2. f \in 1..Has[p] /\ f \in Files /\ Has[p] \in Nat
      BY OwnFiles DEF Pending
    <3>3. ASSUME NEW g \in 1..(f - 1) PROVE g \in recorded
      <4>1. g \in 1..Has[p] /\ ~ (f <= g)
        BY <3>2
      <4>2. g \in proc[p].applied
        BY <3>1, <4>1 DEF Pending
      <4> QED
        BY <2>1, <4>2
    <3>4. proc' = [proc EXCEPT ![p] = [pc |-> "ran", applied |-> proc[p].applied, file |-> f]]
      BY <2>1, <3>1
    <3>5. 1..(f - 1) \subseteq recorded
      BY <3>3
    <3>6. /\ f \in Files \cup {0} /\ proc[p].applied \in SUBSET recorded
          /\ "ran" \in {"starting", "list", "ran", "ready"}
          /\ proc[p].pc # "inserted" /\ "ran" # "ready"
          /\ UNCHANGED <<schema, recorded, holder, failures>>
      BY <2>1, <3>1, <3>2 DEF At
    <3> QED
      BY <3>2, <3>4, <3>5, <3>6, LocalSafe
  <2>4. CASE RecordVersion(p)
    BY <2>4, RecordVersionSafe
  <2>5. CASE Commit(p)
    <3>1. recorded' = recorded \cup {proc[p].file} /\ proc[p].file \in Files
      BY <2>5, CommitsNext DEF Commit
    <3> QED
      BY <2>1, <2>5, <3>1, CommitSafe DEF Commit
  <2>6. CASE CommitUnanswered(p)
    <3>1. recorded' = recorded \cup {proc[p].file} /\ proc[p].file \in Files
      BY <2>6, CommitsNext DEF CommitUnanswered
    <3> QED
      BY <2>1, <2>6, <3>1, CommitSafe DEF CommitUnanswered, GiveUp, Throws, Fails
  <2>7. CASE Ready(p)
    <3>1. 1..Has[p] \subseteq recorded
      BY <2>1, <2>7 DEF Ready, Pending
    <3>2. [proc[p] EXCEPT !.pc = "ready"]
            = [pc |-> "ready", applied |-> proc[p].applied, file |-> proc[p].file]
      BY <2>1
    <3>3. proc' = [proc EXCEPT ![p] = [pc |-> "ready", applied |-> proc[p].applied,
                                      file |-> proc[p].file]]
      BY <2>1, <2>7, <3>2 DEF Ready, Move
    <3> QED
      BY <2>1, <2>7, <3>1, <3>3, LocalSafe DEF Ready, At
  <2>8. CASE Restart(p)
    BY <2>1, <2>8, LocalSafe DEF Restart, Start, At
  <2>9. CASE Fail(p)
    BY <2>1, <2>9, GiveUpSafe DEF Fail, Fails
  <2> QED
    BY <1>2, <2>2, <2>3, <2>4, <2>5, <2>6, <2>7, <2>8, <2>9 DEF Step
<1> QED
  BY <1>1, <1>2 DEF Next

LEMMA AllAlong == Spec => []MigrateInv
<1> QED
  BY InitConsistent, StepSafe, PTL DEF Spec

(* Processes that overlap stay consistent with each other, whoever dies     *)
(* (dbmigrate.js 40-77).                                                    *)
THEOREM MigrationsConsistent == Spec => []MigrateConsistent
<1>1. MigrateInv => MigrateConsistent
  BY DEF MigrateInv
<1> QED
  BY <1>1, AllAlong, PTL

(* Every migration takes effect once and in the order of the file names     *)
(* (dbmigrate.js 8-18).                                                     *)
THEOREM MigrationsInOrder == Spec => []SchemaInOrder
<1>1. MigrateInv => SchemaInOrder
  BY DEF MigrateInv
<1> QED
  BY <1>1, AllAlong, PTL

(* Nobody serves on a schema that lacks one of its migrations.              *)
THEOREM ServedWhenMigrated == Spec => []ReadyMeansMigrated
<1>1. MigrateInv => ReadyMeansMigrated
  BY DEF MigrateInv
<1> QED
  BY <1>1, AllAlong, PTL
=============================================================================
