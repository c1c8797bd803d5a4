----------------------------- MODULE ObjectRows -----------------------------
(***************************************************************************)
(* The SQL job store writes a job in two places (sql_store.py): objects in *)
(* an object store, and a row that names them in the database.  No step    *)
(* covers both.  An admission and a save put the objects and then write    *)
(* the row; a delete changes the row and then removes the objects; the     *)
(* orphan sweep lists, reads the rows, and removes.  Between any two steps *)
(* each of the others can run, a call can raise, and the process can stop. *)
(***************************************************************************)
EXTENDS Naturals, FiniteSets

CONSTANTS
  Jobs,         \* the jobs submitted
  Readers,      \* the requests that read a whole job
  CallsFail     \* whether a put, a removal or a row write can raise

ASSUME FaultsAssumption == CallsFail \in BOOLEAN

VARIABLES
  row,      \* the row of each job: its state, and the objects it names
  object,   \* each object: "none", "young", or "old" enough for the sweep
  op,       \* the step at which the writer of each job stands
  late,     \* the abandoned puts whose thread has not written yet
  doomed,   \* the objects each delete has still to remove
  sweep,    \* the orphan sweep: its step, and the keys in its hands
  reader    \* what each reader has read

vars == <<row, object, op, late, doomed, sweep, reader>>

Names == {"sources", "report"}

Keys == Jobs \X Names

InFlight(j) == row[j].state = "running"

NoRow == [state |-> "none", names |-> {}]

Stored(k) == object[k] # "none"

(* Mutant: a removal forgets the key as well.                              *)
RemovedForgotten(keys) == [k \in Keys \ keys |-> object[k]]

Removed(keys) == [k \in Keys |-> IF k \in keys THEN "none" ELSE object[k]]

-----------------------------------------------------------------------------
(***************************************************************************)
(* Admission                                                               *)
(***************************************************************************)
(* A put raises where the key holds an object.  A put that is abandoned    *)
(* goes on in its thread, and may write later.                             *)
Put(k) == ~Stored(k) /\ object' = [object EXCEPT ![k] = "young"]

Abandon(k) == late' = late \cup {k}

ReservePut(j) ==
  /\ op[j] = "new"
  /\ \/ /\ Put(<<j, "sources">>)
        /\ op' = [op EXCEPT ![j] = "reserving"]
        /\ UNCHANGED late
     \/ /\ CallsFail
        /\ Abandon(<<j, "sources">>)
        /\ op' = [op EXCEPT ![j] = "none"]
        /\ UNCHANGED object
  /\ UNCHANGED <<row, doomed, sweep, reader>>

ReserveAdmitted(j) ==
  /\ op[j] = "reserving"
  /\ row' = [row EXCEPT ![j] = [state |-> "running", names |-> {"sources"}]]
  /\ op' = [op EXCEPT ![j] = "running"]
  /\ UNCHANGED <<object, late, doomed, sweep, reader>>

(* Admission refused the job, or raised: its objects go again.             *)
ReserveRefused(j) ==
  /\ op[j] = "reserving"
  /\ op' = [op EXCEPT ![j] = "unreserving"]
  /\ UNCHANGED <<row, object, late, doomed, sweep, reader>>

(* The write transaction raised after it committed.                        *)
ReserveUnsure(j) ==
  /\ CallsFail /\ op[j] = "reserving"
  /\ row' = [row EXCEPT ![j] = [state |-> "running", names |-> {"sources"}]]
  /\ op' = [op EXCEPT ![j] = "unreserving"]
  /\ UNCHANGED <<object, late, doomed, sweep, reader>>

Unreserve(j) ==
  /\ op[j] = "unreserving"
  /\ \/ object' = Removed({<<j, "sources">>})
     \/ CallsFail /\ UNCHANGED object
  /\ op' = [op EXCEPT ![j] = IF InFlight(j) THEN "stranded" ELSE "none"]
  /\ UNCHANGED <<row, late, doomed, sweep, reader>>

-----------------------------------------------------------------------------
(***************************************************************************)
(* The save that ends a job                                                *)
(***************************************************************************)
(* A report that an earlier save left there goes first.                    *)
SavePut(j) ==
  LET k == <<j, "report">> IN
  /\ op[j] = "running" /\ InFlight(j)
  /\ \/ Put(k) /\ op' = [op EXCEPT ![j] = "put"]
     \/ Stored(k) /\ UNCHANGED object /\ op' = [op EXCEPT ![j] = "clearing"]
  /\ UNCHANGED <<row, late, doomed, sweep, reader>>

SaveClear(j) ==
  /\ op[j] = "clearing"
  /\ object' = Removed({<<j, "report">>})
  /\ op' = [op EXCEPT ![j] = "cleared"]
  /\ UNCHANGED <<row, late, doomed, sweep, reader>>

SavePutAgain(j) ==
  /\ op[j] = "cleared"
  /\ Put(<<j, "report">>)
  /\ op' = [op EXCEPT ![j] = "put"]
  /\ UNCHANGED <<row, late, doomed, sweep, reader>>

SaveWrite(j) ==
  /\ op[j] = "put"
  /\ row' = [row EXCEPT ![j] = [state |-> "ended", names |-> Names]]
  /\ op' = [op EXCEPT ![j] = "none"]
  /\ UNCHANGED <<object, late, doomed, sweep, reader>>

(* The save raises at any of its steps.  Where it was putting, the put may *)
(* still write; where it was writing the row, the row may be written.      *)
SaveRaises(j) ==
  /\ CallsFail \/ (op[j] = "cleared" /\ Stored(<<j, "report">>))
  /\ \/ /\ op[j] \in {"running", "cleared"} /\ InFlight(j)
        /\ Abandon(<<j, "report">>)
        /\ UNCHANGED row
     \/ /\ op[j] \in {"clearing", "put"} /\ UNCHANGED <<row, late>>
     \/ /\ op[j] = "put"
        /\ row' = [row EXCEPT ![j] = [state |-> "ended", names |-> Names]]
        /\ UNCHANGED late
  /\ op' = [op EXCEPT ![j] = "raised"]
  /\ UNCHANGED <<object, doomed, sweep, reader>>

(* After a save that raised the caller saves again, or fails the job with  *)
(* no report.                                                              *)
Retry(j) ==
  /\ op[j] = "raised"
  /\ op' = [op EXCEPT ![j] = IF InFlight(j) THEN "running" ELSE "none"]
  /\ UNCHANGED <<row, object, late, doomed, sweep, reader>>

SaveFailed(j) ==
  /\ op[j] \in {"running", "raised"} /\ InFlight(j)
  /\ row' = [row EXCEPT ![j].state = "ended"]
  /\ op' = [op EXCEPT ![j] = "none"]
  /\ UNCHANGED <<object, late, doomed, sweep, reader>>

(* A thread writes what its caller gave up on, where nothing is there yet. *)
LatePut(k) ==
  /\ k \in late
  /\ late' = late \ {k}
  /\ object' = IF Stored(k) THEN object ELSE [object EXCEPT ![k] = "young"]
  /\ UNCHANGED <<row, op, doomed, sweep, reader>>

-----------------------------------------------------------------------------
(***************************************************************************)
(* Delete and sweep                                                        *)
(***************************************************************************)
NamedOf(j) == {<<j, n>> : n \in row[j].names}

Delete(j) ==
  /\ row[j].state = "ended"
  /\ row' = [row EXCEPT ![j] = [state |-> "usage", names |-> {}]]
  /\ doomed' = doomed \cup NamedOf(j)
  /\ UNCHANGED <<object, op, late, sweep, reader>>

Remove(k) ==
  /\ k \in doomed
  /\ doomed' = doomed \ {k}
  /\ \/ object' = Removed({k})
     \/ CallsFail /\ UNCHANGED object
  /\ UNCHANGED <<row, op, late, sweep, reader>>

NoSweep == [step |-> "idle", keys |-> {}]

SweepList ==
  /\ sweep.step = "idle"
  /\ sweep' = [step |-> "listed", keys |-> {k \in Keys : object[k] = "old"}]
  /\ UNCHANGED <<row, object, op, late, doomed, reader>>

(* Mutant: the sweep keeps what the rows name, and nothing else.           *)
KeptByName == UNION {NamedOf(j) : j \in Jobs}

(* Mutant: the sweep keeps every object of a job that has a row.           *)
KeptByRow == {k \in Keys : row[k[1]].state \in {"running", "ended"}}

(* _kept_keys: what a row names, and everything of a job in flight.        *)
Kept ==
  (UNION {NamedOf(j) : j \in Jobs}) \cup {k \in Keys : InFlight(k[1])}

SweepRead ==
  /\ sweep.step = "listed"
  /\ sweep' = [step |-> "removing", keys |-> sweep.keys \ Kept]
  /\ UNCHANGED <<row, object, op, late, doomed, reader>>

SweepRemove(k) ==
  /\ sweep.step = "removing" /\ k \in sweep.keys
  /\ sweep' = [sweep EXCEPT !.keys = @ \ {k}]
  /\ object' = Removed({k})
  /\ UNCHANGED <<row, op, late, doomed, reader>>

SweepRemoveRaises(k) ==
  /\ CallsFail /\ sweep.step = "removing" /\ k \in sweep.keys
  /\ sweep' = [sweep EXCEPT !.keys = @ \ {k}]
  /\ UNCHANGED <<row, object, op, late, doomed, reader>>

SweepEnd ==
  /\ sweep.step = "removing" /\ sweep.keys = {}
  /\ sweep' = NoSweep
  /\ UNCHANGED <<row, object, op, late, doomed, reader>>

(* An object ages past ORPHAN_GRACE.  The window between the put and the   *)
(* admission of a reserve is far shorter than that day.                    *)
Age(k) ==
  /\ object[k] = "young" /\ op[k[1]] # "reserving"
  /\ object' = [object EXCEPT ![k] = "old"]
  /\ UNCHANGED <<row, op, late, doomed, sweep, reader>>

-----------------------------------------------------------------------------
(***************************************************************************)
(* Reads                                                                   *)
(***************************************************************************)
Unread == [step |-> "idle", keys |-> {}]

(* get: the row first, then each object it names.                          *)
ReadRow(r, j) ==
  /\ reader[r].step = "idle" /\ row[j].names # {}
  /\ reader' = [reader EXCEPT ![r] =
                  [step |-> "objects", keys |-> NamedOf(j)]]
  /\ UNCHANGED <<row, object, op, late, doomed, sweep>>

ReadObject(r, k) ==
  /\ reader[r].step = "objects" /\ k \in reader[r].keys
  /\ reader' = IF Stored(k) THEN [reader EXCEPT ![r].keys = @ \ {k}]
               ELSE [reader EXCEPT ![r] = [step |-> "missing", keys |-> {k}]]
  /\ UNCHANGED <<row, object, op, late, doomed, sweep>>

(* Mutant: an object that is missing is a corrupt job.                     *)
HeldAtRead(j) == TRUE

RowHeld(j) == row[j].state \in {"running", "ended"}

(* _object: where a delete took the row meanwhile, there is no such job.   *)
ReadAgain(r) ==
  /\ reader[r].step = "missing"
  /\ reader' = [reader EXCEPT ![r] =
       IF \E k \in @.keys : RowHeld(k[1])
       THEN [@ EXCEPT !.step = "corrupt"] ELSE Unread]
  /\ UNCHANGED <<row, object, op, late, doomed, sweep>>

ReadEnd(r) ==
  /\ reader[r].step = "objects" /\ reader[r].keys = {}
  /\ reader' = [reader EXCEPT ![r] = Unread]
  /\ UNCHANGED <<row, object, op, late, doomed, sweep>>

(* The admission of the job committed and raised (op "stranded": history). *)
Stranding(j) == op[j] = "unreserving" /\ row[j].state # "none"

(* The process stops, and its next start fails each job in flight.         *)
Crash ==
  /\ row' = [j \in Jobs |-> IF InFlight(j) THEN [row[j] EXCEPT !.state = "ended"]
                            ELSE row[j]]
  /\ op' = [j \in Jobs |-> IF op[j] \in {"new", "stranded"} THEN op[j]
                           ELSE IF Stranding(j) THEN "stranded" ELSE "none"]
  /\ late' = {} /\ doomed' = {} /\ sweep' = NoSweep
  /\ reader' = [r \in Readers |-> Unread]
  /\ UNCHANGED object

-----------------------------------------------------------------------------
Init ==
  /\ row = [j \in Jobs |-> NoRow]
  /\ object = [k \in Keys |-> "none"]
  /\ op = [j \in Jobs |-> "new"]
  /\ late = {} /\ doomed = {} /\ sweep = NoSweep
  /\ reader = [r \in Readers |-> Unread]

WriterStep(j) ==
  \/ ReservePut(j) \/ ReserveAdmitted(j) \/ ReserveRefused(j)
  \/ ReserveUnsure(j) \/ Unreserve(j)
  \/ SavePut(j) \/ SaveClear(j) \/ SavePutAgain(j) \/ SaveWrite(j)
  \/ SaveRaises(j) \/ Retry(j) \/ SaveFailed(j)
  \/ Delete(j)

ObjectStep(k) ==
  LatePut(k) \/ Remove(k) \/ SweepRemove(k) \/ SweepRemoveRaises(k) \/ Age(k)

ReaderStep(r) ==
  \/ \E j \in Jobs : ReadRow(r, j)
  \/ \E k \in Keys : ReadObject(r, k)
  \/ ReadAgain(r) \/ ReadEnd(r)

Next ==
  \/ \E j \in Jobs : WriterStep(j)
  \/ \E k \in Keys : ObjectStep(k)
  \/ \E r \in Readers : ReaderStep(r)
  \/ SweepList \/ SweepRead \/ SweepEnd
  \/ Crash

Spec == Init /\ [][Next]_vars

(* The sweep runs every hour and gets to its end, a removal that raised    *)
(* some hour succeeds some later hour, and objects age.                    *)
Fairness ==
  /\ SF_vars(SweepList) /\ SF_vars(SweepRead) /\ SF_vars(SweepEnd)
  /\ \A k \in Keys :
       SF_vars(SweepRemove(k)) /\ WF_vars(Age(k))

FairSpec == Spec /\ Fairness
-----------------------------------------------------------------------------
(***************************************************************************)
(* Properties                                                              *)
(***************************************************************************)

(* Every variable keeps its type.                                          *)
TypeOK ==
  /\ row \in [Jobs -> [state : {"none", "running", "ended", "usage"},
                       names : SUBSET Names]]
  /\ object \in [Keys -> {"none", "young", "old"}]
  /\ op \in [Jobs -> {"new", "reserving", "unreserving", "running", "clearing",
                      "cleared", "put", "raised", "stranded", "none"}]
  /\ late \subseteq Keys /\ doomed \subseteq Keys
  /\ sweep \in [step : {"idle", "listed", "removing"}, keys : SUBSET Keys]
  /\ reader \in [Readers -> [step : {"idle", "objects", "missing", "corrupt"},
                             keys : SUBSET Keys]]

Stranded(j) == op[j] = "stranded" \/ Stranding(j)

(* "A row never names an object that does not exist" (sql_store.py).       *)
RowsNameObjects == \A j \in Jobs : \A k \in NamedOf(j) : Stored(k)

(* A row never names an object that is not stored, but where an admission  *)
(* raised after its commit: no sweep, delete or retry removes what a row   *)
(* names, or what a save under way will name.                              *)
NamedIsStored ==
  \A j \in Jobs : Stranded(j) \/ \A k \in NamedOf(j) : Stored(k)

(* No read of a whole job that races a delete, a save or a sweep finds the *)
(* job corrupt: it reads every object, or finds no such job.               *)
ReadsAreWhole ==
  \A r \in Readers : reader[r].step = "corrupt"
                     => \E k \in reader[r].keys : Stranded(k[1])

Orphan(k) ==
  /\ Stored(k) /\ k \notin NamedOf(k[1])
  /\ op[k[1]] \in {"none", "stranded"}

(* An object that nothing names, and that no writer is still about to      *)
(* name, goes in the end, whatever left it there.                          *)
OrphansGo == \A k \in Keys : Orphan(k) ~> ~Stored(k)
=============================================================================
