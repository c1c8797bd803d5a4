----------------------------- MODULE Workspace -----------------------------
(***************************************************************************)
(* The workspace of the web app (webapp/main.py): one operator, a cap on   *)
(* the jobs held, one job running at a time.  A submission makes room      *)
(* first: it lists the jobs, asks of each whether it waits for answers,    *)
(* then has its own job admitted, and then deletes the oldest jobs that    *)
(* waited for nothing when it asked.  A job that paused for its Controls   *)
(* alone is continued by its own task, which makes room the same way.  The *)
(* retention sweep (store_backends.py) deletes old jobs beside them.       *)
(***************************************************************************)
EXTENDS Integers, FiniteSets, FiniteSetsExt

CONSTANTS
  Requests,   \* the requests in flight
  Cap,        \* max_jobs (MAX_RUNS)
  MaxMinted,  \* bound of the jobs admitted
  Modes       \* how a submission pauses: "ask", "continue", or "never"

ASSUME WorkspaceAssumption ==
  /\ Cap \in Nat \ {0} /\ MaxMinted \in Nat
  /\ Modes \subseteq {"ask", "continue", "never"}
  /\ Requests \cap (1..MaxMinted) = {}   \* no request is the task of a job

VARIABLES
  job,     \* the jobs admitted, by age
  minted,  \* how many
  task,    \* what the task of each job does: "run", "continue", or "none"
  room,    \* where each request, and each continuing task, stands
  sweep    \* the job that the retention sweep listed, and whether it was saved since

vars == <<job, minted, task, room, sweep>>

Jobs == 1..MaxMinted

None == 0

Actors == Requests \cup Jobs

Job == [status  : {"none", "running", "paused", "reported", "failed"},
        held    : BOOLEAN,
        mode    : {"ask", "continue", "never"},
        parent  : Jobs \cup {None},
        reason  : {"none", "stored", "lost"}]  \* why it did not continue

NoJob == [status |-> "none", held |-> FALSE, mode |-> "never",
          parent |-> None, reason |-> "none"]

Held == {j \in Jobs : job[j].held}

Ended(j) == job[j].status \in {"paused", "reported", "failed"}

(* resumed_by: a child that failed does not lock, and a deleted child      *)
(* locks as it did.                                                        *)
Lockers(p) ==
  {c \in Jobs : job[c].parent = p /\ job[c].status \in {"running", "paused", "reported"}}

(* Mutant: a paused job whose Resumed Job still runs waits for nothing.    *)
AsksOfNoChild(j) == FALSE

(* A job that pauses to ask waits while its Resumed Job can still fail, so *)
(* that job is read too.  A job that pauses for its Controls alone does    *)
(* not.                                                                    *)
AsksOfChild(j) ==
  job[j].status = "paused" /\ job[j].mode = "ask" /\ Lockers(j) # {}

WaitsUnlocked(j) == job[j].status = "paused" /\ Lockers(j) = {}

(* `locker` is the Resumed Job that the first read of waiting found, and   *)
(* `overtaken` the jobs whose Resumed Job failed before the second         *)
(* (history).                                                              *)
NoRoom == [step |-> "idle", answering |-> None, held |-> 0,
           asking |-> {}, locker |-> None, removable |-> {},
           saved |-> {}, overtaken |-> {}]

NoSweep == [job |-> None, saved |-> FALSE]

-----------------------------------------------------------------------------
(***************************************************************************)
(* Making room                                                             *)
(***************************************************************************)
(* Mutant: the job that is answered is not counted among those held.       *)
EnterBesideAnswering(a, answering) ==
  /\ room[a].step = "idle"
  /\ room' = [room EXCEPT ![a] = [NoRoom EXCEPT
       !.step = "asking", !.answering = answering, !.held = Cardinality(Held) - 1,
       !.asking = {j \in Held : Ended(j) /\ j # answering}]]

Enter(a, answering) ==
  /\ room[a].step = "idle"
  /\ room' = [room EXCEPT ![a] = [NoRoom EXCEPT
       !.step = "asking", !.answering = answering, !.held = Cardinality(Held),
       !.asking = {j \in Held : Ended(j) /\ j # answering}]]

(* The room of an actor that knows now whether the job j waits.            *)
Found(a, j, waits, overtaken) ==
  [room[a] EXCEPT
     !.asking    = room[a].asking \ {j},
     !.locker    = None,
     !.removable = IF waits THEN room[a].removable ELSE room[a].removable \cup {j},
     !.saved     = IF waits THEN room[a].saved \ {j} ELSE room[a].saved,
     !.overtaken = IF overtaken THEN room[a].overtaken \cup {j} ELSE room[a].overtaken]

(* Each job that ended is asked whether it waits, oldest first: what locks *)
(* it is read in one store call, and how that job stands in another.       *)
Ask(a) ==
  /\ room[a].step = "asking" /\ room[a].asking # {} /\ room[a].locker = None
  /\ LET j == Min(room[a].asking) IN
       \/ /\ ~AsksOfChild(j)
          /\ room' = [room EXCEPT ![a] = Found(a, j, WaitsUnlocked(j), FALSE)]
       \/ /\ AsksOfChild(j)
          /\ \E c \in Lockers(j) : room' = [room EXCEPT ![a].locker = c]
  /\ UNCHANGED <<job, minted, task, sweep>>

AskChild(a) ==
  /\ room[a].locker # None
  /\ LET j == Min(room[a].asking)
         c == room[a].locker
     IN  room' = [room EXCEPT ![a] =
           Found(a, j, job[c].held /\ ~Ended(c), job[c].status = "failed")]
  /\ UNCHANGED <<job, minted, task, sweep>>

Limit(a) == IF room[a].answering # None THEN Cap + 1 ELSE Cap

Excess(a) == room[a].held - Limit(a) + 1

(* Mutant: a continue that found no room says nothing.                     *)
RefuseSilently(a) ==
  /\ room' = [room EXCEPT ![a] = NoRoom]
  /\ task' = IF a \in Jobs THEN [task EXCEPT ![a] = "none"] ELSE task
  /\ UNCHANGED <<job, minted, sweep>>

(* What a continue that was refused, or raised, leaves behind: its reason. *)
(* The store call that keeps it can raise too, which is logged only: then  *)
(* nothing is stored, and the reason is lost.                              *)
Refuse(a) ==
  /\ room' = [room EXCEPT ![a] = NoRoom]
  /\ IF a \in Jobs /\ job[a].held
     THEN \E kept \in {"stored", "lost"} :
            job' = [job EXCEPT ![a].reason = kept]
     ELSE UNCHANGED job
  /\ task' = IF a \in Jobs THEN [task EXCEPT ![a] = "none"] ELSE task
  /\ UNCHANGED <<minted, sweep>>

Fits(a) == Excess(a) <= Cardinality(room[a].removable)

WorkspaceFull(a) ==
  /\ room[a].step = "asking" /\ room[a].asking = {} /\ ~Fits(a)
  /\ Refuse(a)

(* The store's admission: one job in flight, and an unlocked parent.       *)
Admits(parent) ==
  /\ \A j \in Held : Ended(j)
  /\ parent # None =>
       /\ job[parent].held /\ job[parent].status \in {"paused", "reported"}
       /\ Lockers(parent) = {}

(* The body refuses, for whatever reason, or a store call of making room   *)
(* raises: while it asks, or while it deletes.                             *)
Raises(a) == room[a].step # "idle" /\ Refuse(a)

(* The oldest n of a set of jobs.                                          *)
Oldest(js, n) ==
  {j \in js : Cardinality({k \in js : k < j}) < n}

(* Where an actor stands with these jobs left to delete, and its task.     *)
Leaving(a, rest) ==
  IF rest = {} THEN NoRoom
  ELSE [NoRoom EXCEPT !.step = "deleting", !.removable = rest,
                      !.saved = room[a].saved \cap rest,
                      !.overtaken = room[a].overtaken \cap rest]

TaskLeaving(a, rest) ==
  IF a \in Jobs /\ rest = {} THEN [task EXCEPT ![a] = "none"] ELSE task

(* A Resumed Job pauses no more.  An amended job pauses to ask again.      *)
ChildModes(parent) ==
  IF job[parent].status = "paused" /\ job[parent].mode = "ask"
  THEN {"never", "ask"} ELSE {"never"}

(* The body of make_room: the new job is admitted and its task starts, and *)
(* the jobs chosen are left to delete.                                     *)
Admitted(a, mode) ==
  LET parent == room[a].answering
      child  == minted + 1
      rest   == Oldest(room[a].removable, Excess(a))
  IN  /\ room[a].step = "asking" /\ room[a].asking = {} /\ Fits(a)
      /\ Admits(parent) /\ minted < MaxMinted
      /\ mode \in IF parent = None THEN Modes ELSE ChildModes(parent)
      /\ minted' = child
      /\ job' = [j \in Jobs |->
           IF j = child THEN [status |-> "running", held |-> TRUE, mode |-> mode,
                              parent |-> parent, reason |-> "none"]
           ELSE IF j = parent THEN [job[j] EXCEPT !.reason = "none"]
           ELSE job[j]]
      /\ task' = [TaskLeaving(a, rest) EXCEPT ![child] = "run"]
      /\ room' = [room EXCEPT ![a] = Leaving(a, rest)]
      /\ UNCHANGED sweep

(* The continue of a job that does not pause, because its run failed,      *)
(* starts nothing and raises nothing.  So the jobs chosen are deleted.     *)
StartsNothing(a) ==
  LET rest == Oldest(room[a].removable, Excess(a)) IN
  /\ a \in Jobs /\ job[a].held /\ job[a].status # "paused"
  /\ room[a].step = "asking" /\ room[a].asking = {} /\ Fits(a)
  /\ task' = TaskLeaving(a, rest)
  /\ room' = [room EXCEPT ![a] = Leaving(a, rest)]
  /\ UNCHANGED <<job, minted, sweep>>

(* Mutant: the time of the choice is not compared.                         *)
DeletableSaved(j, saved) ==
  /\ job[j].held /\ Ended(j)
  /\ \A c \in Held : job[c].parent = j => Ended(c)

(* What the store deletes: an ended job that was not saved since it was    *)
(* chosen, and has no child in flight.                                     *)
Deletable(j, saved) ==
  /\ job[j].held /\ Ended(j) /\ ~saved
  /\ \A c \in Held : job[c].parent = j => Ended(c)

Deleted(j) ==
  job' = [job EXCEPT ![j].held = FALSE, ![j].reason = "none", ![j].mode = "never"]

DeleteChosen(a) ==
  /\ room[a].step = "deleting"
  /\ LET j    == Min(room[a].removable)
         rest == room[a].removable \ {j}
     IN  /\ IF Deletable(j, j \in room[a].saved) THEN Deleted(j) ELSE UNCHANGED job
         /\ room' = [room EXCEPT ![a] = Leaving(a, rest)]
         /\ task' = TaskLeaving(a, rest)
  /\ UNCHANGED <<minted, sweep>>

-----------------------------------------------------------------------------
(***************************************************************************)
(* Requests, tasks, restart                                                *)
(***************************************************************************)
Submit(r) == Enter(r, None) /\ UNCHANGED <<job, minted, task, sweep>>

(* An answer, an amendment or a follow-up.                                 *)
Answer(r, p) ==
  /\ job[p].held /\ job[p].status \in {"paused", "reported"}
  /\ Enter(r, p)
  /\ UNCHANGED <<job, minted, task, sweep>>

(* The operator saves answers, a draft or corrections, for later.          *)
Save(j) ==
  /\ job[j].held /\ job[j].status \in {"paused", "reported"} /\ Lockers(j) = {}
  /\ room' = [a \in Actors |->
       IF j \in room[a].asking \cup room[a].removable
       THEN [room[a] EXCEPT !.saved = @ \cup {j}] ELSE room[a]]
  /\ sweep' = IF sweep.job = j THEN [sweep EXCEPT !.saved = TRUE] ELSE sweep
  /\ UNCHANGED <<job, minted, task>>

(* The retention sweep takes each old job apart from the rest, and is      *)
(* followed with one.  No task is still to continue a job that old.        *)
ListExpired(j) ==
  /\ sweep = NoSweep
  /\ job[j].held /\ Ended(j) /\ task[j] = "none"
  /\ sweep' = [sweep EXCEPT !.job = j]
  /\ UNCHANGED <<job, minted, task, room>>

DeleteExpired ==
  /\ sweep # NoSweep
  /\ IF Deletable(sweep.job, sweep.saved) THEN Deleted(sweep.job) ELSE UNCHANGED job
  /\ sweep' = NoSweep
  /\ UNCHANGED <<minted, task, room>>

(* The run ends.  The task of a job that pauses for its Controls alone     *)
(* goes on to its continue, however the run ended, unless it was asked to  *)
(* stop.                                                                   *)
EndRun(j, status) ==
  /\ task[j] = "run"
  /\ status = "paused" <=> job[j].mode # "never" /\ status # "failed"
  /\ job' = [job EXCEPT ![j].status = status]
  /\ \E next \in IF job[j].mode = "continue" THEN {"continue", "none"} ELSE {"none"} :
       task' = [task EXCEPT ![j] = next]
  /\ UNCHANGED <<minted, room, sweep>>

Continue(j) ==
  /\ task[j] = "continue"
  /\ Enter(j, j)
  /\ UNCHANGED <<job, minted, task, sweep>>

Restart ==
  /\ job' = [j \in Jobs |-> IF job[j].status = "running"
                            THEN [job[j] EXCEPT !.status = "failed"] ELSE job[j]]
  /\ task' = [j \in Jobs |-> "none"]
  /\ room' = [a \in Actors |-> NoRoom]
  /\ sweep' = NoSweep
  /\ UNCHANGED minted

-----------------------------------------------------------------------------
Init ==
  /\ job = [j \in Jobs |-> NoJob]
  /\ minted = 0
  /\ task = [j \in Jobs |-> "none"]
  /\ room = [a \in Actors |-> NoRoom]
  /\ sweep = NoSweep

RoomStep(a) ==
  \/ Ask(a) \/ AskChild(a) \/ WorkspaceFull(a) \/ Raises(a) \/ StartsNothing(a)
  \/ \E mode \in {"ask", "continue", "never"} : Admitted(a, mode)
  \/ DeleteChosen(a)

Next ==
  \/ \E r \in Requests : Submit(r) \/ \E p \in Jobs : Answer(r, p)
  \/ \E j \in Jobs : Continue(j) \/ Save(j) \/ ListExpired(j)
  \/ \E j \in Jobs, status \in {"paused", "reported", "failed"} : EndRun(j, status)
  \/ \E a \in Actors : RoomStep(a)
  \/ DeleteExpired \/ Restart

Spec == Init /\ [][Next]_vars
-----------------------------------------------------------------------------
(***************************************************************************)
(* Properties                                                              *)
(***************************************************************************)

(* Every variable keeps its type.                                          *)
TypeOK ==
  /\ job \in [Jobs -> Job]
  /\ minted \in 0..MaxMinted
  /\ task \in [Jobs -> {"none", "run", "continue"}]
  /\ room \in [Actors -> [step : {"idle", "asking", "deleting"},
                          answering : Jobs \cup {None}, held : Nat,
                          asking : SUBSET Jobs, locker : Jobs \cup {None},
                          removable : SUBSET Jobs, saved : SUBSET Jobs,
                          overtaken : SUBSET Jobs]]
  /\ sweep \in [job : Jobs \cup {None}, saved : BOOLEAN]

(* What the operator can still answer: a paused job nothing locks.         *)
Answerable(j) == job[j].held /\ job[j].status = "paused" /\ Lockers(j) = {}

(* The sweep deletes an old job that nobody saved since it was listed.     *)
Expires(j) == sweep = [job |-> j, saved |-> FALSE] /\ sweep' = NoSweep

(* The Resumed Job of j failed between the two reads of an actor that      *)
(* makes room, and this step is its delete of j.                           *)
Overtook(a, j) ==
  room[a].step = "deleting" /\ j \in room[a].overtaken /\ j \notin room'[a].removable

(* A job that asked the operator is not deleted while its answers are      *)
(* still wanted, or could be wanted again, by the retention sweep only     *)
(* when nobody saved it since it was listed, and to make room only where   *)
(* its Resumed Job failed between the two reads of waiting.                *)
AskedJobsStay ==
  [][\A j \in Jobs :
       /\ job[j].mode = "ask" /\ Answerable(j)
       => job'[j].held \/ Expires(j) \/ \E a \in Actors : Overtook(a, j)]_vars

(* No job that waits for answers is deleted to make room, whatever became  *)
(* of its Resumed Job since the room was made (Workspace).                 *)
WaitingJobsStay ==
  [][\A j \in Jobs : Answerable(j) => job'[j].held \/ Expires(j)]_vars

(* A job the service continues by itself is accounted for when its task    *)
(* ends at its pause: it has a Resumed Job, or the store was given the     *)
(* reason it has none, and holds it unless that call raised (ADR 0125).    *)
ContinueIsSettled ==
  [][Restart \/ \A j \in Jobs :
       /\ task[j] = "continue" /\ task'[j] = "none"
       /\ job'[j].held /\ job[j].status = "paused"
       => job'[j].reason # "none" \/ \E c \in Jobs : job'[c].parent = j]_vars
=============================================================================
