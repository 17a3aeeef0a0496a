----------------------------- MODULE TenantLog ------------------------------
(***************************************************************************)
(* What the smaller subsystems of the backend (meetings, vote allowances)  *)
(* share: one mutable set, mirrored whole to a file of its own, and the    *)
(* evidence chain.  An operation changes the set in memory, saves it, and  *)
(* may then append one record to the chain; the process may die, or a      *)
(* write may fail, at either write.  An operation holds the backend's      *)
(* mutex, so the next one starts when its writes are made.                 *)
(*                                                                         *)
(* GovernedActions models the log itself in detail (the committed count,   *)
(* torn appends, the scope); here an append either reaches the log whole   *)
(* or not at all, and a restart always finds its tenant scope.             *)
(***************************************************************************)
EXTENDS Integers, Sequences

CONSTANTS
  None,
  MaxChain,     \* bound: records in the chain
  MaxCrashes,   \* bound: process deaths
  MaxFailures   \* bound: failed durable writes

ASSUME LogBounds ==
  MaxChain \in Nat /\ MaxCrashes \in Nat /\ MaxFailures \in Nat

VARIABLES
  up,         \* the process runs
  degraded,   \* a durable write failed
  mem,        \* [set, chain] in memory
  disk,       \* [set, chain] in the tenant's directory
  op,         \* the operation holding the mutex: writes to make, record to append
  crashes, failures

logVars == << up, degraded, mem, disk, op, crashes, failures >>

Idle == [todo |-> <<>>, record |-> None]

InitLog(set) ==
  /\ up = TRUE /\ degraded = FALSE
  /\ mem = [set |-> set, chain |-> <<>>] /\ disk = mem
  /\ op = Idle
  /\ crashes = 0 /\ failures = 0
-----------------------------------------------------------------------------
Free == up /\ op.todo = <<>>
CanRecord == Len(mem.chain) < MaxChain

\* After a failed write this process refuses to produce more evidence.
CheckNotDegraded == ~degraded

\* The operation goes ahead: the set is changed, the writes are still to be made.
Begin(set, todo, record) ==
  /\ mem' = [mem EXCEPT !.set = set]
  /\ op' = [todo |-> todo, record |-> record]
  /\ UNCHANGED << up, degraded, disk, crashes, failures >>

Save(set) == Begin(set, <<"set">>, None)

\* Mutant: the record goes to the log before the set it is about is saved.
RecordFirst(set, record) == Begin(set, <<"chain", "set">>, record)
SaveAndRecord(set, record) == Begin(set, <<"set", "chain">>, record)

\* record_principal_action and record_delegated_action check last whether the
\* backend is degraded, when the set is already saved.
SaveThenTryToRecord(set, record) ==
  IF CheckNotDegraded THEN SaveAndRecord(set, record) ELSE Save(set)

Record(record) == Begin(mem.set, <<"chain">>, record)
-----------------------------------------------------------------------------
Writing(f) == up /\ op.todo # <<>> /\ Head(op.todo) = f
Done == op' = IF Len(op.todo) = 1 THEN Idle ELSE [op EXCEPT !.todo = Tail(@)]

SaveSet ==
  /\ Writing("set") /\ Done
  /\ disk' = [disk EXCEPT !.set = mem.set]
  /\ UNCHANGED << up, degraded, mem, crashes, failures >>

MemGains  == mem'  = [mem EXCEPT !.chain = Append(@, op.record)]
DiskGains == disk' = [disk EXCEPT !.chain = Append(@, op.record)]

AppendRecord ==
  /\ Writing("chain") /\ Done
  /\ MemGains /\ DiskGains
  /\ UNCHANGED << up, degraded, crashes, failures >>

\* A save that is cut short leaves the old file; an append may have reached
\* the log.
Interrupted == UNCHANGED disk \/ (Writing("chain") /\ DiskGains)

WriteFails ==
  /\ failures < MaxFailures
  /\ \E f \in {"set", "chain"} :
       Writing(f) /\ IF f = "chain" THEN MemGains ELSE UNCHANGED mem
  /\ Interrupted
  /\ op' = Idle /\ degraded' = TRUE
  /\ failures' = failures + 1
  /\ UNCHANGED << up, crashes >>

\* Memory goes with the process: only what is on disk comes back.
Ends == /\ up' = FALSE /\ degraded' = FALSE /\ op' = Idle
        /\ mem' = disk'

\* The app is closed between operations.
Exit == Free /\ UNCHANGED << disk, crashes, failures >> /\ Ends

\* The process dies in the middle of one.
Crash ==
  /\ up /\ op.todo # <<>> /\ crashes < MaxCrashes
  /\ Interrupted /\ Ends
  /\ crashes' = crashes + 1
  /\ UNCHANGED failures

Restart ==
  /\ ~up
  /\ up' = TRUE
  /\ UNCHANGED << degraded, mem, disk, op, crashes, failures >>

LogSteps == SaveSet \/ AppendRecord \/ WriteFails \/ Exit \/ Crash \/ Restart
=============================================================================
