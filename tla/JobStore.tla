------------------------------ MODULE JobStore ------------------------------
(***************************************************************************)
(* The job store of the analysis service, with the requests and the        *)
(* workers that call it (jobs.py, job_answers.py, principals.py).          *)
(*                                                                         *)
(* A store call is one step: the in-memory store awaits nothing inside a   *)
(* call, and the SQL store holds one write transaction.  What interleaves  *)
(* is everything around the calls.  A request reads a job, composes its    *)
(* answers, and writes later; a worker holds a whole record in memory      *)
(* while it runs, and each of its saves writes all of that record back.    *)
(***************************************************************************)
EXTENDS Integers, FiniteSets, FiniteSetsExt

CONSTANTS
  Jobs,          \* the job IDs that can be minted
  Identities,    \* the callers' identities (issuer and subject)
  Owners,        \* the owner IDs a new principal can draw
  Requests,      \* the HTTP requests in flight
  Batches,       \* the batches of answers a person can send
  Titles,        \* the titles a person can give a job
  Refusals,      \* the reasons a continue at a pause is refused for
  NoJob, NoOwner, NoTitle, NoRefusal,
  Ceiling,       \* max_active_jobs
  MaxJobs,       \* max_jobs_per_window
  OwnerTokens,   \* max_tokens_per_window
  GlobalTokens,  \* global_max_tokens_per_window
  Window,        \* window_seconds
  Reserved,      \* the tokens one submission reserves
  Spends,        \* the tokens a run can measure
  StoreFails,    \* whether a store call can raise
  Modes,         \* where a submission's run can stop for its answers
  Endings,       \* the statuses a run that reports nothing ends in
  MaxRevision,   \* bound of the saves one job takes
  MaxClock       \* bound of the clock

ASSUME NoneAssumption ==
  /\ NoJob \notin Jobs /\ NoOwner \notin Owners
  /\ NoTitle \notin Titles /\ NoRefusal \notin Refusals

ASSUME BoundsAssumption ==
  /\ Ceiling \in Nat /\ MaxJobs \in Nat /\ OwnerTokens \in Nat
  /\ GlobalTokens \in Nat /\ Window \in Nat /\ Reserved \in Nat
  /\ StoreFails \in BOOLEAN
  /\ Modes \subseteq {"never", "ask", "continue"}
  /\ Endings \subseteq {"failed", "rejected", "stopped"}
  /\ Spends \subseteq Nat /\ MaxRevision \in Nat /\ MaxClock \in Nat

ASSUME SetsAssumption == IsFiniteSet(Jobs) /\ Identities # {}

VARIABLES
  held,       \* the jobs whose record the store holds
  usage,      \* the deleted jobs, of which a usage row is left
  row,        \* what the store holds of each job
  principal,  \* the owner ID of each identity that has one
  req,        \* what each request has read so far
  pc,         \* where the worker of each job stands
  copy,       \* the record the worker of each job holds in memory
  clock,      \* now
  admitted    \* every admission so far, whatever became of its job

vars == <<held, usage, row, principal, req, pc, copy, clock, admitted>>

(***************************************************************************)
(* Records                                                                 *)
(***************************************************************************)
InFlightStatuses == {"queued", "running"}

TerminalStatuses ==
  {"completed", "failed", "rejected", "awaiting-answers", "stopped"}

NonLockingStatuses == {"failed", "rejected", "stopped"}

(* A job continues its parent as a paused job's Resumed Job ("resumed"),   *)
(* as a report's one follow-up ("followup"), or as an amendment            *)
(* ("amended").  Its run stops after the assertion pass to ask a person    *)
(* ("ask"), for the service to continue it at once ("continue"), or never. *)
(* `answers` is every answer the job holds (held_answers): what it was     *)
(* created with, and the batches saved on it since.                        *)
Links == {"fresh", "resumed", "followup", "amended"}

Stops == {"never", "ask", "continue"}

Unmeasured == -1

Row == [owner    : Owners \cup {NoOwner},
        parent   : Jobs \cup {NoJob},
        link     : Links,
        stops    : Stops,
        status   : InFlightStatuses \cup TerminalStatuses,
        revision : Nat,
        answers  : SUBSET Batches,
        title    : Titles \cup {NoTitle},
        refusal  : Refusals \cup {NoRefusal},
        created  : Nat,
        measured : Nat \cup {Unmeasured}]

Blank == [owner |-> NoOwner, parent |-> NoJob, link |-> "fresh",
          stops |-> "never", status |-> "queued", revision |-> 0, answers |-> {},
          title |-> NoTitle, refusal |-> NoRefusal, created |-> 0,
          measured |-> Unmeasured]

Unstamped == -1

(* `created` is when the record a request will reserve was created, which  *)
(* is before the store is asked to admit it.                               *)
Request == [kind     : {"idle", "submitting", "composed"},
            identity : Identities,
            owner    : Owners \cup {NoOwner},
            first    : BOOLEAN,
            job      : Jobs \cup {NoJob},
            seen     : Row,
            given    : SUBSET Batches,
            created  : Nat \cup {Unstamped}]

Idle == [kind |-> "idle", identity |-> CHOOSE i \in Identities : TRUE,
         owner |-> NoOwner, first |-> FALSE, job |-> NoJob, seen |-> Blank,
         given |-> {}, created |-> Unstamped]

Pauses(r) == r.stops # "never" /\ r.link \notin {"resumed", "followup"}

Final(r) == r.link = "followup"

HoldsASlot(j) == j \in held /\ row[j].status \in InFlightStatuses

LocksItsParent(j) ==
  \/ HoldsASlot(j)
  \/ row[j].status \in TerminalStatuses \ NonLockingStatuses

Children(p) == {c \in held \cup usage : row[c].parent = p}

(* Mutant: the lock of a deleted child is forgotten.                       *)
LockedByHeld(p) == \E c \in Children(p) \cap held : LocksItsParent(c)

Locked(p) == \E c \in Children(p) : LocksItsParent(c)

(* Mutant: a job nothing measured costs nothing.                           *)
ChargeMeasured(r) == IF r.measured = Unmeasured THEN 0 ELSE r.measured

Charge(r) == IF r.measured = Unmeasured THEN Reserved ELSE r.measured

Larger(a, b) == IF a >= b THEN a ELSE b

(* Mutant: the reservation is subtracted from what was measured.           *)
SettledRefund(status, spent) == spent - Reserved

(* What a record's charge settles to when it ends with `spent` measured.   *)
Settled(status, spent) ==
  IF spent # Unmeasured /\ status = "failed"
  THEN Larger(spent, Reserved) ELSE spent

(***************************************************************************)
(* Admission                                                               *)
(***************************************************************************)
Recent(js) == {j \in js : row[j].created + Window >= clock}

Spent(js) == MapThenSumSet(LAMBDA j : Charge(row[j]), js)

(* Mutant: the bounds count the jobs held, and no usage row.               *)
BoundsOfHeld(owner) ==
  LET mine == {j \in held : row[j].owner = owner}
  IN  /\ Cardinality({j \in mine : HoldsASlot(j)}) < Ceiling
      /\ Cardinality(Recent(mine)) < MaxJobs
      /\ Spent(Recent(mine)) + Reserved <= OwnerTokens
      /\ Spent(Recent(held)) + Reserved <= GlobalTokens

BoundsAdmit(owner) ==
  LET counted == held \cup usage
      mine    == {j \in counted : row[j].owner = owner}
  IN  /\ Cardinality({j \in mine : HoldsASlot(j)}) < Ceiling
      /\ Cardinality(Recent(mine)) < MaxJobs
      /\ Spent(Recent(mine)) + Reserved <= OwnerTokens
      /\ Spent(Recent(counted)) + Reserved <= GlobalTokens

(* Mutant: a second first submission of one identity is admitted.          *)
PrincipalUnchecked(q) == TRUE

PrincipalAdmits(q) == q.first => principal[q.identity] = NoOwner

(* Mutant: the parent's revision is not compared.                          *)
ParentOfAnyRevision(q) ==
  q.job # NoJob =>
    q.job \in held /\ row[q.job].owner = q.owner /\ ~Locked(q.job)

ParentAdmits(q) ==
  q.job # NoJob =>
    /\ q.job \in held
    /\ row[q.job].owner = q.owner
    /\ ~Locked(q.job)
    /\ row[q.job].revision = q.seen.revision

Admits(q) == PrincipalAdmits(q) /\ ParentAdmits(q) /\ BoundsAdmit(q.owner)

(* reserve: every check and the insert are one step.  The admission of a   *)
(* child clears its parent's continue refusal, and the task that runs the  *)
(* job starts.  A refusal changes nothing.                                 *)
Reserve(r, c, rec) ==
  LET q == req[r] IN
  /\ c \notin held \cup usage /\ q.created # Unstamped
  /\ req' = [req EXCEPT ![r] = Idle]
  /\ \/ /\ Admits(q)
        /\ held' = held \cup {c}
        /\ row' = [j \in Jobs |->
                     IF j = c THEN rec
                     ELSE IF j = q.job THEN [row[j] EXCEPT !.refusal = NoRefusal]
                     ELSE row[j]]
        /\ principal' = IF q.first
                        THEN [principal EXCEPT ![q.identity] = q.owner]
                        ELSE principal
        /\ pc' = [pc EXCEPT ![c] = "queued"]
        /\ admitted' = admitted \cup
             {[job |-> c, identity |-> q.identity,
               created |-> q.created, at |-> clock]}
        /\ UNCHANGED <<usage, copy, clock>>
     \/ /\ ~Admits(q)
        /\ UNCHANGED <<held, usage, row, principal, pc, copy, clock, admitted>>

(***************************************************************************)
(* Requests                                                                *)
(***************************************************************************)
FreshOwners ==
  Owners \ ({principal[i] : i \in Identities} \cup
            {req[r].owner : r \in {s \in Requests : req[s].first}})

(* submitter: the identity's owner, or a new principal nothing keeps yet.  *)
Submit(r, i) ==
  /\ req[r].kind = "idle"
  /\ \E o \in IF principal[i] = NoOwner THEN FreshOwners ELSE {principal[i]} :
       req' = [req EXCEPT ![r] = [Idle EXCEPT
                 !.kind = "submitting", !.identity = i, !.owner = o,
                 !.first = (principal[i] = NoOwner)]]
  /\ UNCHANGED <<held, usage, row, principal, pc, copy, clock, admitted>>

(* JobRecord.create stamps the record.  The store admits it later: the     *)
(* puts of its objects, and the wait for the lock, come between.           *)
Create(r) ==
  /\ req[r].kind # "idle" /\ req[r].created = Unstamped
  /\ req' = [req EXCEPT ![r].created = clock]
  /\ UNCHANGED <<held, usage, row, principal, pc, copy, clock, admitted>>

ReserveNew(r, c, stops) ==
  /\ req[r].kind = "submitting"
  /\ Reserve(r, c, [Blank EXCEPT !.owner = req[r].owner, !.stops = stops,
                                 !.created = req[r].created])

(* AlreadyResumed refuses the request, unless it corrects a final report.  *)
(* An analysis that asks no questions takes no answers, and its pause a    *)
(* continue only.                                                          *)
Answerable(j, given) ==
  /\ row[j].status \in {"awaiting-answers", "completed"}
  /\ Locked(j) => Final(row[j])
  /\ row[j].stops # "ask" => given = {} /\ row[j].status = "awaiting-answers"

(* answerable reads the job, and what is given is composed off the event   *)
(* loop: the request writes from what it has seen, later.                  *)
Compose(r, i, j, given) ==
  /\ req[r].kind = "idle"
  /\ j \in held /\ row[j].owner = principal[i]
  /\ Answerable(j, given)
  /\ req' = [req EXCEPT ![r] = [Idle EXCEPT
               !.kind = "composed", !.identity = i, !.owner = row[j].owner,
               !.job = j, !.seen = row[j], !.given = given]]
  /\ UNCHANGED <<held, usage, row, principal, pc, copy, clock, admitted>>

(* The child a composed request starts: a paused job's Resumed Job, its    *)
(* amended job, or a report's follow-up.                                   *)
Continues(q, link) ==
  \/ link = "resumed" /\ q.seen.status = "awaiting-answers"
  \/ link = "amended" /\ q.seen.status = "awaiting-answers"
     /\ q.seen.stops = "ask" /\ q.given = {}
  \/ link = "followup" /\ q.seen.status = "completed" /\ ~Final(q.seen)

ChildRecord(q, link) ==
  [Blank EXCEPT !.owner = q.owner, !.parent = q.job, !.link = link,
                !.stops = IF q.seen.stops = "ask" THEN "ask" ELSE "never",
                !.title = q.seen.title,
                !.answers = q.seen.answers \cup q.given, !.created = q.created]

ReserveChild(r, c, link) ==
  /\ req[r].kind = "composed" /\ Continues(req[r], link)
  /\ Reserve(r, c, ChildRecord(req[r], link))

(* Mutant: a save does not ask whether a Resumed Job read the answers.     *)
SaveLandsLocked(q) ==
  /\ q.job \in held
  /\ row[q.job].owner = q.owner
  /\ row[q.job].status = q.seen.status
  /\ row[q.job].revision = q.seen.revision

SaveLands(q) ==
  /\ q.job \in held
  /\ row[q.job].owner = q.owner
  /\ row[q.job].status = q.seen.status
  /\ row[q.job].revision = q.seen.revision
  /\ Final(row[q.job]) \/ ~Locked(q.job)

(* save_answers on a paused job, save_draft on a report, save_corrections  *)
(* on a final report: each writes the whole composed set and takes the     *)
(* next revision.  A save that finds a later revision, a locked job or no  *)
(* job changes nothing.                                                    *)
SaveAnswers(r) ==
  LET q == req[r] IN
  /\ q.kind = "composed" /\ q.created = Unstamped
  /\ q.seen.status = "completed" => q.given # {}
  /\ req' = [req EXCEPT ![r] = Idle]
  /\ \/ /\ SaveLands(q) /\ q.seen.revision < MaxRevision
        /\ row' = [row EXCEPT ![q.job] =
                     [row[q.job] EXCEPT
                        !.answers  = q.seen.answers \cup q.given,
                        !.revision = row[q.job].revision + 1]]
     \/ ~SaveLands(q) /\ UNCHANGED row
  /\ UNCHANGED <<held, usage, principal, pc, copy, clock, admitted>>

SetTitle(j, t) ==
  /\ j \in held
  /\ row' = [row EXCEPT ![j].title = t]
  /\ UNCHANGED <<held, usage, principal, req, pc, copy, clock, admitted>>

SetContinueRefusal(j, refusal) ==
  /\ j \in held
  /\ row' = [row EXCEPT ![j].refusal = refusal]
  /\ UNCHANGED <<held, usage, principal, req, pc, copy, clock, admitted>>

(* Mutant: a delete does not look at the job's children.                   *)
DeleteWithChild(j) ==
  /\ j \in held /\ ~HoldsASlot(j)
  /\ held' = held \ {j}
  /\ usage' = usage \cup {j}
  /\ row' = [row EXCEPT ![j] = [Blank EXCEPT
               !.owner = row[j].owner, !.parent = row[j].parent,
               !.status = row[j].status, !.created = row[j].created,
               !.measured = row[j].measured]]
  /\ UNCHANGED <<principal, req, pc, copy, clock, admitted>>

(* delete: an ended job none of whose children holds a slot leaves a usage *)
(* row, which keeps what admission reads of it.                            *)
Delete(j) ==
  /\ j \in held /\ ~HoldsASlot(j)
  /\ \A c \in Children(j) : ~HoldsASlot(c)
  /\ held' = held \ {j}
  /\ usage' = usage \cup {j}
  /\ row' = [row EXCEPT ![j] = [Blank EXCEPT
               !.owner = row[j].owner, !.parent = row[j].parent,
               !.status = row[j].status, !.created = row[j].created,
               !.measured = row[j].measured]]
  /\ UNCHANGED <<principal, req, pc, copy, clock, admitted>>

(***************************************************************************)
(* The worker of a job: execute_job and _store_outcome.  A worker that     *)
(* returns drops its record.                                               *)
(***************************************************************************)
Return(j) ==
  /\ pc' = [pc EXCEPT ![j] = "none"]
  /\ copy' = [copy EXCEPT ![j] = Blank]

Fetch(j) ==
  /\ pc[j] = "queued" /\ j \in held /\ row[j].status = "queued"
  /\ copy' = [copy EXCEPT ![j] = [row[j] EXCEPT !.status = "running"]]
  /\ pc' = [pc EXCEPT ![j] = "fetched"]
  /\ UNCHANGED <<held, usage, row, principal, req, clock, admitted>>

(* The read failed: the job stays as stored until the restart scan.        *)
FetchRaises(j) ==
  /\ StoreFails /\ pc[j] = "queued"
  /\ Return(j)
  /\ UNCHANGED <<held, usage, row, principal, req, clock, admitted>>

(* Mutant: a save writes the title it read when the run started.           *)
WrittenWhole(j) == copy[j]

(* save writes the whole record back, but for the columns that only other  *)
(* calls write.                                                            *)
Written(j) == [copy[j] EXCEPT !.title = row[j].title,
                              !.refusal = row[j].refusal]

Save(j) ==
  /\ pc[j] \in {"fetched", "running", "ending"} /\ j \in held
  /\ row' = [row EXCEPT ![j] = Written(j)]
  /\ IF pc[j] = "ending" THEN Return(j)
     ELSE pc' = [pc EXCEPT ![j] = "running"] /\ UNCHANGED copy
  /\ UNCHANGED <<held, usage, principal, req, clock, admitted>>

(* The save that starts or ends the run raises: before its commit, or      *)
(* after it where only the reply was lost.                                 *)
SaveRaises(j) ==
  /\ StoreFails /\ pc[j] \in {"fetched", "ending"} /\ j \in held
  /\ row' \in {row, [row EXCEPT ![j] = Written(j)]}
  /\ pc' = [pc EXCEPT ![j] = "fallback"]
  /\ UNCHANGED <<held, usage, principal, req, copy, clock, admitted>>

(* Mutant: the fallback does not look at the status it finds.              *)
FallBackAlways(j) ==
  /\ pc[j] = "fallback" /\ j \in held
  /\ row' = [row EXCEPT ![j].status = "failed",
                        ![j].measured = Settled("failed", copy[j].measured)]
  /\ Return(j)
  /\ UNCHANGED <<held, usage, principal, req, clock, admitted>>

(* The fallback fails the job as stored, with what the record measured,    *)
(* unless the save landed after all.                                       *)
FallBack(j) ==
  /\ pc[j] = "fallback"
  /\ row' = IF j \in held /\ row[j].status \in InFlightStatuses
            THEN [row EXCEPT ![j] =
                    [row[j] EXCEPT
                       !.status = "failed",
                       !.measured = Settled("failed", copy[j].measured)]]
            ELSE row
  /\ Return(j)
  /\ UNCHANGED <<held, usage, principal, req, clock, admitted>>

FallBackRaises(j) ==
  /\ pc[j] = "fallback"
  /\ Return(j)
  /\ UNCHANGED <<held, usage, row, principal, req, clock, admitted>>

Outcomes(r) ==
  Endings \cup {IF Pauses(r) THEN "awaiting-answers" ELSE "completed"}

(* The run returns or is cancelled.  A stop or a deadline measures         *)
(* nothing.                                                                *)
EndRun(j) ==
  /\ pc[j] = "running"
  /\ \E outcome \in Outcomes(copy[j]), spent \in Spends \cup {Unmeasured} :
       /\ outcome = "stopped" => spent = Unmeasured
       /\ copy' = [copy EXCEPT ![j] =
                     [copy[j] EXCEPT !.status = outcome,
                                     !.measured = Settled(outcome, spent)]]
  /\ pc' = [pc EXCEPT ![j] = "ending"]
  /\ UNCHANGED <<held, usage, row, principal, req, clock, admitted>>

(* Mutant: the restart scan runs beside the workers of another instance.   *)
RestartBeside ==
  /\ row' = [j \in Jobs |-> IF HoldsASlot(j)
                            THEN [row[j] EXCEPT !.status = "failed"]
                            ELSE row[j]]
  /\ UNCHANGED <<held, usage, principal, req, pc, copy, clock, admitted>>

(* The process stops, and its next start fails each job in flight before   *)
(* it takes a request (fail_in_flight).                                    *)
Restart ==
  /\ row' = [j \in Jobs |-> IF HoldsASlot(j)
                            THEN [row[j] EXCEPT !.status = "failed"]
                            ELSE row[j]]
  /\ pc' = [j \in Jobs |-> "none"]
  /\ copy' = [j \in Jobs |-> Blank]
  /\ req' = [r \in Requests |-> Idle]
  /\ UNCHANGED <<held, usage, principal, clock, admitted>>

Tick ==
  /\ clock < MaxClock
  /\ clock' = clock + 1
  /\ UNCHANGED <<held, usage, row, principal, req, pc, copy, admitted>>

-----------------------------------------------------------------------------
Init ==
  /\ held = {} /\ usage = {}
  /\ row = [j \in Jobs |-> Blank]
  /\ principal = [i \in Identities |-> NoOwner]
  /\ req = [r \in Requests |-> Idle]
  /\ pc = [j \in Jobs |-> "none"]
  /\ copy = [j \in Jobs |-> Blank]
  /\ clock = 0
  /\ admitted = {}

RequestStep(r) ==
  \/ \E i \in Identities : Submit(r, i)
  \/ Create(r)
  \/ \E c \in Jobs, stops \in Modes : ReserveNew(r, c, stops)
  \/ \E i \in Identities, j \in Jobs, given \in SUBSET Batches :
       Compose(r, i, j, given)
  \/ \E c \in Jobs, link \in Links \ {"fresh"} : ReserveChild(r, c, link)
  \/ SaveAnswers(r)

OwnerStep(j) ==
  \/ \E t \in Titles : SetTitle(j, t)
  \/ \E refusal \in Refusals : SetContinueRefusal(j, refusal)
  \/ Delete(j)

WorkerStep(j) ==
  \/ Fetch(j)
  \/ FetchRaises(j)
  \/ Save(j)
  \/ SaveRaises(j)
  \/ FallBack(j)
  \/ FallBackRaises(j)
  \/ EndRun(j)

Next ==
  \/ \E r \in Requests : RequestStep(r)
  \/ \E j \in Jobs : OwnerStep(j)
  \/ \E j \in Jobs : WorkerStep(j)
  \/ Restart
  \/ Tick

Spec == Init /\ [][Next]_vars
-----------------------------------------------------------------------------
(***************************************************************************)
(* Properties                                                              *)
(***************************************************************************)

(* Every variable keeps its type.                                          *)
TypeOK ==
  /\ held \subseteq Jobs /\ usage \subseteq Jobs
  /\ row \in [Jobs -> Row]
  /\ principal \in [Identities -> Owners \cup {NoOwner}]
  /\ req \in [Requests -> Request]
  /\ pc \in [Jobs -> {"none", "queued", "fetched", "running", "ending",
                      "fallback"}]
  /\ copy \in [Jobs -> Row]
  /\ clock \in Nat
  /\ admitted \subseteq [job : Jobs, identity : Identities,
                   created : Nat, at : Nat]

Locking(p) ==
  {c \in held \cup usage : row[c].parent = p /\
     (\/ c \in held /\ row[c].status \in InFlightStatuses
      \/ row[c].status \in {"completed", "awaiting-answers"})}

(* A job takes one resumed job: whatever requests race, jobs end, jobs are *)
(* deleted and processes restart, at most one child of a job is in flight  *)
(* or has read its answers into a report (InMemoryJobStore._resumed_by).   *)
OneLockingChild ==
  \A p \in Jobs : \A c, d \in Locking(p) : c = d

(* A child that locks its parent holds every answer saved on the parent: a *)
(* save never lands on a parent whose resumed job did not read it, and a   *)
(* resumed job never starts from answers a later save changed.             *)
NoMissedBatch ==
  \A p \in held : \A c \in Locking(p) :
    c \in held => row[p].answers \subseteq row[c].answers

(* A child in flight keeps its parent stored: neither the delete of the    *)
(* parent nor the admission of the child misses the other (ADR 0107).      *)
ParentOutlivesRun ==
  \A c \in Jobs : HoldsASlot(c) /\ row[c].parent # NoJob =>
    row[c].parent \in held

AdmittedOf(i) == {a \in admitted : a.identity = i}

(* The concurrency ceiling holds of a person, and not only of an owner ID: *)
(* two first submissions of one identity draw two owner IDs, and one of    *)
(* them is refused.                                                        *)
CeilingHeld ==
  \A i \in Identities :
    Cardinality({a \in AdmittedOf(i) : HoldsASlot(a.job)}) <= Ceiling

(* No window sees more than max_jobs_per_window jobs of one identity both  *)
(* created and admitted, whatever of them was deleted since.               *)
RateHeld ==
  \A i \in Identities, t \in {a.created : a \in admitted} :
    Cardinality({a \in AdmittedOf(i) : t <= a.created /\ a.at <= t + Window})
      <= MaxJobs

(* The worker of a job is the only writer of its status: while a worker    *)
(* can still save, the job is stored in flight, so nothing but the worker  *)
(* and a restart ends it.                                                  *)
WorkerOwnsRun ==
  \A j \in Jobs : pc[j] \in {"queued", "fetched", "running", "ending"} =>
    j \in held /\ row[j].status \in InFlightStatuses

(* While a worker holds a record, the part of it that other calls could    *)
(* write is what the store holds.                                          *)
CopyMatches ==
  \A j \in Jobs : pc[j] \in {"fetched", "running", "ending"} =>
    /\ copy[j].owner = row[j].owner /\ copy[j].parent = row[j].parent
    /\ copy[j].link = row[j].link
    /\ copy[j].revision = row[j].revision
    /\ copy[j].answers = row[j].answers
    /\ pc[j] \in {"fetched", "running"} => copy[j].status = "running"

FinalWaits(r) == Final(r) /\ r.status = "awaiting-answers"

(* What a composed request has seen of its job is the job's past: where    *)
(* the revision has not moved, the answers have not either.                *)
SeenIsPast ==
  \A r \in Requests :
    /\ req[r].kind = "submitting" => req[r].job = NoJob
    /\ req[r].kind = "composed" =>
         LET q == req[r] IN
         /\ q.job \in held \cup usage
         /\ q.seen.status \in TerminalStatuses /\ ~FinalWaits(q.seen)
         /\ q.job \in held =>
              /\ q.seen.link = row[q.job].link
              /\ q.seen.revision <= row[q.job].revision
              /\ q.seen.revision = row[q.job].revision =>
                   q.seen.answers = row[q.job].answers

(* The jobs form chains: a parent is a job the store has held, a final     *)
(* report has no child, and no follow-up pauses.                           *)
ChainsAreWhole ==
  /\ held \cap usage = {}
  /\ \A c \in held \cup usage :
       /\ row[c].parent \in held \cup usage \cup {NoJob}
       /\ row[c].parent \in held => ~Final(row[row[c].parent])
  /\ \A j \in held : ~FinalWaits(row[j])
  /\ \A j \in Jobs : pc[j] = "ending" => ~FinalWaits(copy[j])

(* The inductive invariant: the lineage properties, with what the worker's *)
(* copy and a request's read have in common with the store.                *)
LineageInv ==
  /\ WorkerOwnsRun /\ CopyMatches /\ SeenIsPast /\ ChainsAreWhole
  /\ OneLockingChild /\ ParentOutlivesRun /\ NoMissedBatch

TokensOf(js) ==
  MapThenSumSet(LAMBDA j : IF row[j].measured = Unmeasured
                           THEN Reserved ELSE row[j].measured, js)

(* A job is admitted only where the tokens that its identity's jobs cost,  *)
(* of those created in the window, with its reservation are inside the     *)
(* owner's budget, and the tokens of every job created in the window       *)
(* inside the deployment's: deleting a job, or failing it, frees nothing.  *)
AdmittedInBudget ==
  [][\A a \in admitted' \ admitted :
       LET recent == {b \in admitted : b.created + Window >= clock}
       IN  /\ TokensOf({b.job : b \in recent}) + Reserved <= GlobalTokens
           /\ TokensOf({b.job : b \in recent \cap AdmittedOf(a.identity)})
                + Reserved <= OwnerTokens]_vars

(* A job ends once.  No late save of a worker, fallback, restart scan or   *)
(* delete moves an ended job to another status or another charge, and a    *)
(* failed job costs its reservation at least, whichever of them failed it. *)
EndedStaysEnded ==
  [][\A j \in held \cup usage :
       /\ row[j].status \in TerminalStatuses =>
            /\ row'[j].status = row[j].status
            /\ row'[j].measured = row[j].measured
       /\ row'[j].status = "failed" => Charge(row'[j]) >= Reserved]_vars

(* No save loses what another call wrote: while a job is held, its         *)
(* revision never falls, its answers only grow, its title changes only in  *)
(* a step that changes nothing else, and its continue refusal only in one  *)
(* that changes nothing else of it, so a worker's save of its whole copy   *)
(* brings no earlier title or refusal back.                                *)
NothingLost ==
  [][\A j \in held \cap held' :
       /\ row[j].revision <= row'[j].revision
       /\ row[j].answers \subseteq row'[j].answers
       /\ row'[j].title # row[j].title =>
            row' = [row EXCEPT ![j].title = row'[j].title]
       /\ row'[j].refusal # row[j].refusal =>
            row'[j] = [row[j] EXCEPT !.refusal = row'[j].refusal]]_vars
=============================================================================
