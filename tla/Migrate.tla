------------------------------- MODULE Migrate ------------------------------
(* Start-up against the shared database: every vault and every kv-admin     *)
(* command first applies the migrations it has files for (dbmigrate.js),    *)
(* and any number of them may do so at once.  A file runs in a transaction  *)
(* that ends by recording its name, the primary key of schema_migrations;   *)
(* what the database does with conflicting transactions is external.        *)
EXTENDS Naturals, Sequences, FiniteSets

CONSTANTS Procs,      \* the starting processes
          Has,        \* how many of the migration files each was shipped with
          None,
          MaxFailures \* bound on crashes, lost connections and failed statements

ASSUME MigrateAssumption == /\ Has \in [Procs -> Nat]
                            /\ None \notin Procs
                            /\ MaxFailures \in Nat

VARIABLES schema,   \* the files whose effects are committed, in order of commit
          recorded, \* the committed rows of schema_migrations
          holder,   \* the open transaction that has inserted a file's row
          proc,     \* where each process is
          failures

migrateVars == <<schema, recorded, holder, proc, failures>>

Files == UNION {1..Has[p] : p \in Procs}

Start == [pc |-> "starting", applied |-> {}, file |-> 0]

Init == /\ schema = <<>>
        /\ recorded = {}
        /\ holder = [f \in Files |-> None]
        /\ proc = [p \in Procs |-> Start]
        /\ failures = 0

At(p, pc) == proc[p].pc = pc
Move(p, pc) == proc' = [proc EXCEPT ![p].pc = pc]

(* CREATE TABLE IF NOT EXISTS, then the list of what is applied already.    *)
ReadApplied(p) == /\ At(p, "starting")
                  /\ proc' = [proc EXCEPT ![p] = [pc |-> "list", applied |-> recorded, file |-> 0]]
                  /\ UNCHANGED <<schema, recorded, holder, failures>>

Pending(p) == (1..Has[p]) \ proc[p].applied

(* BEGIN and the file itself, lowest name first.                            *)
RunFile(p) == \E f \in Pending(p) :
                /\ At(p, "list")
                /\ \A g \in Pending(p) : f <= g
                /\ proc' = [proc EXCEPT ![p] = [pc |-> "ran", applied |-> @.applied, file |-> f]]
                /\ UNCHANGED <<schema, recorded, holder, failures>>

(* What a failed statement leaves: the transaction is rolled back, and      *)
(* dbMigrate throws.                                                        *)
NotReleased(p) == holder
RolledBack(p) == [f \in Files |-> IF holder[f] = p THEN None ELSE holder[f]]
Carries(p) == [proc EXCEPT ![p].pc = "list", ![p].applied = @ \cup {proc[p].file}]
Throws(p) == [proc EXCEPT ![p].pc = "failed"]

GiveUp(p) == holder' = RolledBack(p) /\ proc' = Throws(p)

(* The INSERT of the version waits for another open transaction that has    *)
(* inserted it, and then conflicts or not.                                  *)
ConflictIgnored(f) == FALSE
Conflict(f) == f \in recorded
RecordVersion(p) ==
  LET f == proc[p].file IN
    /\ At(p, "ran")
    /\ holder[f] = None
    /\ IF Conflict(f) THEN GiveUp(p)
       ELSE holder' = [holder EXCEPT ![f] = p] /\ Move(p, "inserted")
    /\ UNCHANGED <<schema, recorded, failures>>

Commits(p) == /\ At(p, "inserted")
              /\ schema' = Append(schema, proc[p].file)
              /\ recorded' = recorded \cup {proc[p].file}

Commit(p) == /\ Commits(p)
             /\ holder' = RolledBack(p)
             /\ proc' = [proc EXCEPT ![p].pc = "list", ![p].applied = @ \cup {proc[p].file}]
             /\ UNCHANGED failures

Fails == failures < MaxFailures /\ failures' = failures + 1

(* The transaction is committed, but the process does not get to know.      *)
CommitUnanswered(p) == Commits(p) /\ GiveUp(p) /\ Fails

(* A statement fails or the process dies, before the commit.                *)
Fail(p) == /\ proc[p].pc \notin {"failed", "ready"}
           /\ GiveUp(p)
           /\ Fails
           /\ UNCHANGED <<schema, recorded>>

(* Nothing is left to apply and the database answers.                       *)
Ready(p) == /\ At(p, "list")
            /\ Pending(p) = {}
            /\ Move(p, "ready")
            /\ UNCHANGED <<schema, recorded, holder, failures>>

(* The supervisor starts the vault again, the administrator the command.    *)
Restart(p) == /\ At(p, "failed")
              /\ proc' = [proc EXCEPT ![p] = Start]
              /\ UNCHANGED <<schema, recorded, holder, failures>>

Step(p) == ReadApplied(p) \/ RunFile(p) \/ RecordVersion(p) \/ Commit(p) \/ Ready(p) \/ Restart(p)

Next == \E p \in Procs : Step(p) \/ CommitUnanswered(p) \/ Fail(p)

Spec == Init /\ [][Next]_migrateVars

(* Each process runs, its statements are executed in the end, and who fails *)
(* is started again.                                                        *)
FairSpec == Spec /\ \A p \in Procs : WF_migrateVars(Step(p))

-----------------------------------------------------------------------------
(* Every migration takes effect at most once and in the order of the file   *)
(* names, and schema_migrations says what took effect, whoever crashed when *)
(* (dbmigrate.js 8-18).                                                     *)
SchemaInOrder == /\ schema = [i \in 1..Len(schema) |-> i]
                 /\ recorded = 1..Len(schema)

(* A process serves only on a schema that has all of its migrations.        *)
ReadyMeansMigrated == \A p \in Procs : At(p, "ready") => 1..Has[p] \subseteq recorded

(* What keeps it so while processes overlap: nobody believes in a migration *)
(* that is not committed; whoever is past BEGIN is at a file whose          *)
(* predecessors are; and the transaction that has inserted a file's row is  *)
(* the only one and finds the file new (dbmigrate.js 55-78).                *)
ProcConsistent(p) ==
  /\ proc[p].applied \subseteq recorded
  /\ proc[p].pc \in {"ran", "inserted"} =>
       proc[p].file \in 1..Has[p] /\ 1..(proc[p].file - 1) \subseteq recorded
  /\ At(p, "inserted") => proc[p].file \notin recorded /\ holder[proc[p].file] = p
HolderConsistent(f) ==
  holder[f] # None => At(holder[f], "inserted") /\ proc[holder[f]].file = f
MigrateTypeOK ==
  /\ schema \in Seq(Files) /\ recorded \subseteq Files /\ failures \in Nat
  /\ holder \in [Files -> Procs \cup {None}]
  /\ proc \in [Procs -> [pc : {"starting", "list", "ran", "inserted", "failed", "ready"},
                        applied : SUBSET Files, file : Files \cup {0}]]
MigrateConsistent == /\ MigrateTypeOK
                     /\ \A p \in Procs : ProcConsistent(p)
                     /\ \A f \in Files : HolderConsistent(f)

(* Every process gets to work in the end, although of those that start at   *)
(* once all but one may fail.                                               *)
AllGetReady == <>(\A p \in Procs : At(p, "ready"))
=============================================================================
