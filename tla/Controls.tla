------------------------------ MODULE Controls ------------------------------
(***************************************************************************)
(* The Controls and the Owner Files of one owner in the SQL store          *)
(* (sql_store.py).  A save puts its new texts in the object store, and     *)
(* then writes the row that lists them under the owner's lock; a replace   *)
(* goes on to remove what its document lists no more.  A delete takes no   *)
(* lock (PostgreSQL): it reads the row, deletes it, and removes what the   *)
(* row listed when it was read.  Saves, deletes, reads and the orphan      *)
(* sweep run at once, a call can raise, and the process can stop.          *)
(***************************************************************************)
EXTENDS Naturals, FiniteSets

CONSTANTS
  Docs,         \* the IDs of Controls
  Files,        \* the IDs of Owner Files
  Saves,        \* the saves, and so the new text that each can bring
  Readers,      \* the requests that read one text
  MaxControls,  \* the Controls an owner can hold (resilience.toml)
  MaxFiles,     \* the Owner Files an owner can hold
  Scopes,       \* scopes of Controls
  Clashing,     \* the pairs of scopes of which an alias of one names the other
  CallsFail,    \* whether a put, a removal or a row write can raise
  MaxUnsure,    \* bound of the writes that raise after their commit
  None          \* no row, no save, no entry

ASSUME ControlsAssumption ==
  /\ Docs \cap Files = {} /\ IsFiniteSet(Docs \cup Files)
  /\ MaxControls \in Nat /\ MaxFiles \in Nat
  /\ CallsFail \in BOOLEAN /\ MaxUnsure \in Nat
  /\ None \notin Saves /\ None \notin Docs \cup Files

VARIABLES
  row,       \* the row of each Control and file: the save that wrote it, and
             \* the scope and the texts that its document lists
  stored,    \* the texts in the object store
  save,      \* where each save stands, and what it writes
  deletion,  \* the Control that is deleted, and what its row listed
  doomed,    \* the texts that somebody has still to remove
  sweep,     \* the orphan sweep: its step, and the key in its hands
  reader     \* what each reader reads

vars == <<row, stored, save, deletion, doomed, sweep, reader>>

Entries == Docs \cup Files

Row == [by : Saves \cup {None}, scope : Scopes \cup {None}, lists : SUBSET Saves]

NoRow == [by |-> None, scope |-> None, lists |-> {}]

Held(e) == row[e].by # None

Others == <<deletion, doomed, sweep, reader>>

-----------------------------------------------------------------------------
(***************************************************************************)
(* Saves                                                                   *)
(***************************************************************************)
To(s, step) == save' = [save EXCEPT ![s].step = step]

NewSave == [step |-> "new", entry |-> None, base |-> None, scope |-> None, lists |-> {}]

(* A save that is over changed no row.  Its ID stays taken.                *)
Ended(s) == [NewSave EXCEPT !.step = "over", !.entry = save[s].entry]

EndSave(s) == save' = [save EXCEPT ![s] = Ended(s)]

(* The editor opens: a new ID for an add, the version read for a replace.  *)
Open(s, e) ==
  /\ save[s].step = "new"
  /\ Held(e) => e \in Docs
  /\ ~Held(e) => \A x \in Saves : save[x].entry # e
  /\ save' = [save EXCEPT ![s].step = "open", ![s].entry = e, ![s].base = row[e].by]
  /\ UNCHANGED <<row, stored, Others>>

(* The save arrives.  A replace that lost its row or its version is over.  *)
(* It keeps some of the texts that the row lists, and can bring a new one; *)
(* a file is its one text.                                                 *)
Arrive(s) ==
  LET e == save[s].entry IN
  /\ save[s].step = "open" /\ row[e].by = save[s].base
  /\ \E lists \in SUBSET (row[e].lists \cup {s}), scope \in Scopes \cup {None} :
       /\ e \in Files => lists = {s}
       /\ scope = None <=> e \in Files
       /\ save' = [save EXCEPT ![s].lists = lists, ![s].scope = scope,
            ![s].step = IF s \in lists THEN "putting" ELSE "writing"]
  /\ UNCHANGED <<row, stored, Others>>

ArriveStale(s) ==
  /\ save[s].step = "open" /\ row[save[s].entry].by # save[s].base
  /\ EndSave(s)
  /\ UNCHANGED <<row, stored, Others>>

PutText(s) ==
  /\ save[s].step = "putting"
  /\ stored' = stored \cup {s}
  /\ To(s, "writing")
  /\ UNCHANGED <<row, Others>>

(* A put that raised may have written, or writes later in its thread: no   *)
(* row lists that text, so only the sweep can tell when.                   *)
PutRaises(s) ==
  /\ CallsFail /\ save[s].step = "putting"
  /\ stored' \in {stored, stored \cup {s}}
  /\ EndSave(s)
  /\ UNCHANGED <<row, Others>>

(* Mutant: nobody waits for the owner's lock.                              *)
LockIgnored == TRUE

LockFree == \A s \in Saves : save[s].step # "locked"

(* Mutant: the row is not read again under the lock.                       *)
CurrentAtRead(s) == Held(save[s].entry) \/ save[s].base = None

Current(s) == row[save[s].entry].by = save[s].base

HeldOf(kind) == {e \in kind : Held(e)}

(* Counting: what an add must pass.                                        *)
Counted(s) ==
  LET kind == IF save[s].entry \in Docs THEN Docs ELSE Files
      max  == IF save[s].entry \in Docs THEN MaxControls ELSE MaxFiles
  IN  save[s].base = None => Cardinality(HeldOf(kind)) < max

(* Mutant: a replace is not asked for the names of its scope.              *)
ScopedAtAdd(s) ==
  save[s].base = None /\ save[s].entry \in Docs =>
    \A d \in HeldOf(Docs) : {row[d].scope, save[s].scope} \notin Clashing

(* The alias rule: what each save of a Control must pass.                  *)
Scoped(s) ==
  save[s].entry \in Docs =>
    \A d \in HeldOf(Docs) \ {save[s].entry} :
      {row[d].scope, save[s].scope} \notin Clashing

Fits(s) == Current(s) /\ Counted(s) /\ Scoped(s)

Lock(s) ==
  /\ save[s].step = "writing" /\ LockFree
  /\ Fits(s)
  /\ To(s, "locked")
  /\ UNCHANGED <<row, stored, Others>>

(* Mutant: a save that lost removes each text of its document.             *)
ListedTexts(s) == save[s].lists

NewTexts(s) == save[s].lists \cap {s}

(* Under the lock the row is gone, stale, over the limit or clashes, or    *)
(* the name is taken: the new text goes again.                             *)
Refused(s) ==
  /\ \/ save[s].step = "writing" /\ LockFree /\ ~Fits(s)
     \/ save[s].step = "locked"
  /\ EndSave(s)
  /\ doomed' = doomed \cup NewTexts(s)
  /\ UNCHANGED <<row, stored, deletion, sweep, reader>>

(* The write of the row: an update that finds no row writes none.          *)
Written(s) ==
  LET e == save[s].entry IN
  row' = IF save[s].base # None /\ ~Held(e) THEN row
         ELSE [row EXCEPT ![e] = [by |-> s, scope |-> save[s].scope,
                                  lists |-> save[s].lists]]

(* What the row that is replaced listed, and the new document does not.    *)
(* The version under the lock is the one that the save read.               *)
Unlisted(s) ==
  IF save[s].base = None THEN {}
  ELSE save[save[s].base].lists \ save[s].lists

Write(s) ==
  /\ save[s].step = "locked"
  /\ Written(s)
  /\ To(s, "landed")
  /\ doomed' = doomed \cup Unlisted(s)
  /\ UNCHANGED <<stored, deletion, sweep, reader>>

(* A write that raises before its commit is undone.                        *)
WriteRaises(s) ==
  /\ CallsFail /\ save[s].step = "locked"
  /\ EndSave(s)
  /\ doomed' = doomed \cup NewTexts(s)
  /\ UNCHANGED <<row, stored, deletion, sweep, reader>>

Stranded(k) == save[k].step = "stranded"

(* One that raises after it removes a text that the row lists ("stranded": *)
(* history).                                                               *)
WriteUnsure(s) ==
  /\ save[s].step = "locked" /\ Cardinality({t \in Saves : Stranded(t)}) < MaxUnsure
  /\ Written(s)
  /\ To(s, "stranded")
  /\ doomed' = doomed \cup NewTexts(s)
  /\ UNCHANGED <<stored, deletion, sweep, reader>>

-----------------------------------------------------------------------------
(***************************************************************************)
(* Delete, removals, sweep, reads                                          *)
(***************************************************************************)
NoDelete == [doc |-> None, lists |-> {}]

(* One delete of a Control at a time.                                      *)
DeleteRead(d) ==
  /\ Held(d) /\ deletion = NoDelete
  /\ deletion' = [doc |-> d, lists |-> row[d].lists]
  /\ UNCHANGED <<row, stored, save, doomed, sweep, reader>>

(* The row that goes is the one that is there, whatever was read.          *)
DeleteControl ==
  /\ deletion # NoDelete
  /\ row' = [row EXCEPT ![deletion.doc] = NoRow]
  /\ doomed' = doomed \cup deletion.lists
  /\ deletion' = NoDelete
  /\ UNCHANGED <<stored, save, sweep, reader>>

DeleteFile(f) ==
  /\ Held(f)
  /\ row' = [row EXCEPT ![f] = NoRow]
  /\ doomed' = doomed \cup row[f].lists
  /\ UNCHANGED <<stored, save, deletion, sweep, reader>>

Remove(k) ==
  /\ k \in doomed
  /\ doomed' = doomed \ {k}
  /\ \/ stored' = stored \ {k}
     \/ CallsFail /\ UNCHANGED stored
  /\ UNCHANGED <<row, save, deletion, sweep, reader>>

NoSweep == [step |-> "idle", key |-> None]

(* A text whose save is over can have aged past ORPHAN_GRACE: a save takes *)
(* far less than that day.  The sweep treats each key apart from the rest, *)
(* and is followed with one key at a time.                                 *)
SweepList(k) ==
  /\ sweep.step = "idle"
  /\ k \in stored /\ save[k].step \notin {"writing", "locked"}
  /\ sweep' = [step |-> "listed", key |-> k]
  /\ UNCHANGED <<row, stored, save, deletion, doomed, reader>>

(* _kept_evidence_keys and _kept_file_keys: what a row lists.              *)
Kept == UNION {row[e].lists : e \in Entries}

SweepRead ==
  /\ sweep.step = "listed"
  /\ sweep' = IF sweep.key \in Kept THEN NoSweep ELSE [sweep EXCEPT !.step = "removing"]
  /\ UNCHANGED <<row, stored, save, deletion, doomed, reader>>

SweepRemove ==
  /\ sweep.step = "removing"
  /\ sweep' = NoSweep
  /\ \/ stored' = stored \ {sweep.key}
     \/ CallsFail /\ UNCHANGED stored
  /\ UNCHANGED <<row, save, deletion, doomed, reader>>

Unread == [step |-> "idle", entry |-> None, key |-> None]

(* read_evidence and file_text: the row, then the object that it lists.    *)
ReadRow(r, e, k) ==
  /\ reader[r].step = "idle" /\ k \in row[e].lists
  /\ reader' = [reader EXCEPT ![r] = [step |-> "object", entry |-> e, key |-> k]]
  /\ UNCHANGED <<row, stored, save, deletion, doomed, sweep>>

ReadObject(r) ==
  /\ reader[r].step = "object"
  /\ reader' = [reader EXCEPT ![r] =
       IF @.key \in stored THEN Unread ELSE [@ EXCEPT !.step = "missing"]]
  /\ UNCHANGED <<row, stored, save, deletion, doomed, sweep>>

(* A text that its row lists no more was removed.  One that it still lists *)
(* is corrupt.                                                             *)
ReadAgain(r) ==
  /\ reader[r].step = "missing"
  /\ reader' = [reader EXCEPT ![r] =
       IF @.key \in row[@.entry].lists THEN [@ EXCEPT !.step = "corrupt"] ELSE Unread]
  /\ UNCHANGED <<row, stored, save, deletion, doomed, sweep>>

(* The process stops.                                                      *)
Crash ==
  /\ save' = [s \in Saves |->
       IF save[s].step \in {"open", "putting", "writing", "locked"}
       THEN Ended(s) ELSE save[s]]
  /\ doomed' = {} /\ sweep' = NoSweep
  /\ deletion' = NoDelete
  /\ reader' = [r \in Readers |-> Unread]
  /\ UNCHANGED <<row, stored>>

-----------------------------------------------------------------------------
Init ==
  /\ row = [e \in Entries |-> NoRow]
  /\ stored = {}
  /\ save = [s \in Saves |-> NewSave]
  /\ doomed = {} /\ sweep = NoSweep
  /\ deletion = NoDelete
  /\ reader = [r \in Readers |-> Unread]

SaveStep(s) ==
  \/ \E e \in Entries : Open(s, e)
  \/ Arrive(s) \/ ArriveStale(s) \/ PutText(s) \/ PutRaises(s)
  \/ Lock(s) \/ Refused(s) \/ Write(s)
  \/ WriteRaises(s) \/ WriteUnsure(s)

DeleteStep ==
  \/ \E d \in Docs : DeleteRead(d)
  \/ DeleteControl
  \/ \E f \in Files : DeleteFile(f)

TextStep(k) == Remove(k) \/ SweepList(k)

ReaderStep(r) ==
  \/ \E e \in Entries, k \in Saves : ReadRow(r, e, k)
  \/ ReadObject(r) \/ ReadAgain(r)

Next ==
  \/ \E s \in Saves : SaveStep(s) \/ TextStep(s)
  \/ \E r \in Readers : ReaderStep(r)
  \/ DeleteStep \/ SweepRead \/ SweepRemove \/ Crash

Spec == Init /\ [][Next]_vars
-----------------------------------------------------------------------------
(***************************************************************************)
(* Properties                                                              *)
(***************************************************************************)

(* Every variable keeps its type, and one save at most holds the lock.     *)
TypeOK ==
  /\ row \in [Entries -> Row]
  /\ \A s, t \in Saves : save[s].step = "locked" /\ save[t].step = "locked" => s = t
  /\ stored \subseteq Saves
  /\ save \in [Saves -> [step : {"new", "open", "putting", "writing", "locked",
                                 "landed", "stranded", "over"},
                         entry : Entries \cup {None}, base : Saves \cup {None},
                         scope : Scopes \cup {None}, lists : SUBSET Saves]]
  /\ doomed \subseteq Saves
  /\ deletion \in [doc : Docs \cup {None}, lists : SUBSET Saves]
  /\ sweep \in [step : {"idle", "listed", "removing"}, key : Saves \cup {None}]
  /\ reader \in [Readers -> [step : {"idle", "object", "missing", "corrupt"},
                             entry : Entries \cup {None}, key : Saves \cup {None}]]

(* An owner never holds more Controls or files than the limits, and no two *)
(* Controls whose scopes name each other, whatever saves and deletes race. *)
OwnerBounds ==
  /\ Cardinality(HeldOf(Docs)) <= MaxControls
  /\ Cardinality(HeldOf(Files)) <= MaxFiles
  /\ \A c \in HeldOf(Docs) : \A d \in HeldOf(Docs) \ {c} :
       {row[c].scope, row[d].scope} \notin Clashing

Landed(s) == save[s].step \in {"landed", "stranded"}

(* Of two edits that read one version of a Control only the first lands    *)
(* (JobStore.replace_control): no save is lost under another.              *)
EditsLandOnce ==
  \A s \in Saves : \A t \in Saves \ {s} :
    Landed(s) /\ Landed(t) /\ save[s].entry = save[t].entry
      => save[s].base # save[t].base

(* A row lists no text that is not stored, and no read of a text finds it  *)
(* corrupt, but where a write raised after its commit: no save that lost a *)
(* race, no delete of an older version and no sweep removes what the row   *)
(* that won lists.                                                         *)
EvidenceStored ==
  /\ \A e \in Entries : \A k \in row[e].lists : k \in stored \/ Stranded(k)
  /\ \A r \in Readers : reader[r].step = "corrupt" => Stranded(reader[r].key)
=============================================================================
