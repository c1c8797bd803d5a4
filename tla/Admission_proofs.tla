-------------------------- MODULE Admission_proofs --------------------------
(***************************************************************************)
(* Proofs about what the job store admits and what it keeps, for every     *)
(* value of its constants: the ceiling, the rate and the token budgets     *)
(* hold of a person whatever requests race; an ended job stays ended; and  *)
(* no save loses what another call wrote.                                  *)
(***************************************************************************)
EXTENDS JobStore_proofs, FiniteSetTheorems

USE DEF InFlightStatuses, TerminalStatuses, NonLockingStatuses, Links, Stops,
        Unmeasured

Counted == held \cup usage

(* An admission is of one job, and every job was admitted: under the owner *)
(* ID its identity has from then on, and as it was created.                *)
AdmissionInv ==
  /\ \A a \in admitted :
       /\ a.job \in Counted
       /\ principal[a.identity] # NoOwner
       /\ row[a.job].owner = principal[a.identity]
       /\ row[a.job].created = a.created
  /\ \A a, b \in admitted : a.job = b.job => a = b
  /\ \A j \in Counted : \E a \in admitted : a.job = j

(* Owner IDs are of one identity each: those that are kept, and those that *)
(* a first submission drew and nothing keeps yet.                          *)
OwnerInv ==
  /\ \A i, k \in Identities :
       principal[i] = principal[k] /\ principal[i] # NoOwner => i = k
  /\ \A r \in Requests :
       /\ req[r].kind # "idle" /\ ~req[r].first =>
            req[r].owner # NoOwner /\ principal[req[r].identity] = req[r].owner
       /\ req[r].first =>
            /\ req[r].kind = "submitting" /\ req[r].owner \in Owners
            /\ \A i \in Identities : principal[i] # req[r].owner
  /\ \A r, s \in Requests :
       req[r].first /\ req[s].first /\ req[r].owner = req[s].owner => r = s

(* A job in flight has measured nothing, and a failed one costs its        *)
(* reservation at least: as stored, and as its worker holds it.            *)
CostKept(r) ==
  /\ r.status \in InFlightStatuses => r.measured = Unmeasured
  /\ r.status = "failed" => r.measured = Unmeasured \/ r.measured >= Reserved

ChargeInv ==
  \A j \in Jobs :
    /\ j \in Counted => CostKept(row[j])
    /\ pc[j] \in {"fetched", "running", "ending"} =>
         CostKept(copy[j]) /\ copy[j].created = row[j].created

RateAlways ==
  \A i \in Identities, t \in Nat :
    Cardinality({a \in AdmittedOf(i) : t <= a.created /\ a.at <= t + Window}) <= MaxJobs

(* The inductive invariant.                                                *)
Inv == TypeOK /\ LineageInv /\ AdmissionInv /\ OwnerInv /\ ChargeInv
-----------------------------------------------------------------------------
(* What the jobs of a set cost is what admission counts of them.           *)
LEMMA TokensAreSpent == \A js : TokensOf(js) = Spent(js)
  BY DEF TokensOf, Spent, Charge
-----------------------------------------------------------------------------
(***************************************************************************)
(* What a step does to the row of a job that was admitted before it        *)
(***************************************************************************)
Saving(j) == pc[j] \in {"fetched", "running", "ending"}

(* An answer, a title, a refusal, or the delete that leaves a usage row.   *)
Edited(j) ==
  /\ row'[j].owner = row[j].owner /\ row'[j].created = row[j].created
  /\ row'[j].status = row[j].status /\ row'[j].measured = row[j].measured

(* A save of its worker, which holds the record.                           *)
WorkerSaved(j) ==
  /\ Saving(j) /\ j \in held /\ HoldsASlot(j)
  /\ row' = [row EXCEPT ![j] = Written(j)]

(* The fallback, or the restart scan, fails a job in flight.               *)
Failed(j) ==
  /\ HoldsASlot(j) /\ row'[j].status = "failed"
  /\ row'[j].owner = row[j].owner /\ row'[j].created = row[j].created
  /\ \/ row'[j].measured = row[j].measured
     \/ row'[j].measured = Settled("failed", copy[j].measured)

RowStep(j) == Edited(j) \/ WorkerSaved(j) \/ Failed(j)

(* An admission, with what its row holds.                                  *)
Admission(r, c, rec) ==
  /\ Reserve(r, c, rec) /\ Admits(req[r]) /\ req[r].kind # "idle"
  /\ rec.owner = req[r].owner /\ rec.created = req[r].created
  /\ rec.status = "queued" /\ rec.measured = Unmeasured

(* A step that admits nothing: the jobs and the owners stay.               *)
NoAdmission ==
  /\ admitted' = admitted /\ principal' = principal
  /\ held' \cup usage' = held \cup usage /\ held' \subseteq held

(* A step of a request edits the rows of the jobs there are, starts the    *)
(* worker of a job that it admits, and touches no worker's record.         *)
LEMMA RequestSteps ==
  ASSUME TypeOK, LineageInv, NEW r \in Requests, RequestStep(r)
  PROVE  /\ \A j \in Counted : Edited(j)
         /\ pc' = pc \/ (\E c \in Jobs : c \notin Counted /\ pc' = [pc EXCEPT ![c] = "queued"])
         /\ copy' = copy
         /\ NoAdmission \/ \E c \in Jobs, rec \in Row : Admission(r, c, rec)
  <1> USE DEF TypeOK
  <1>r. ASSUME NEW c \in Jobs, NEW rec \in Row, Reserve(r, c, rec), req[r].kind # "idle",
               rec.owner = req[r].owner, rec.created = req[r].created,
               rec.status = "queued", rec.measured = Unmeasured
        PROVE  /\ \A j \in Counted : Edited(j)
               /\ pc' = pc \/ (\E d \in Jobs : d \notin Counted /\ pc' = [pc EXCEPT ![d] = "queued"])
               /\ copy' = copy
               /\ NoAdmission \/ \E d \in Jobs, new \in Row : Admission(r, d, new)
    <2>1. c \notin Counted /\ copy' = copy
      BY <1>r DEF Reserve, Counted
    <2>2. CASE Admits(req[r])
      <3>1. ASSUME NEW j \in Counted
            PROVE  Edited(j)
        <4>1. j \in Jobs /\ j # c
          BY <2>1 DEF Counted
        <4>2. row'[j] \in {row[j], [row[j] EXCEPT !.refusal = NoRefusal]}
          BY <1>r, <2>2, <4>1 DEF Reserve
        <4>3. row[j] \in Row
          BY <4>1
        <4> QED
          BY <4>2, <4>3 DEF Edited, Row
      <3>2. pc' = [pc EXCEPT ![c] = "queued"]
        BY <1>r, <2>2 DEF Reserve
      <3>3. Admission(r, c, rec)
        BY <1>r, <2>2 DEF Admission
      <3> QED
        BY <2>1, <3>1, <3>2, <3>3
    <2>3. CASE ~Admits(req[r])
      BY <1>r, <2>1, <2>3 DEF Reserve, Edited, NoAdmission
    <2> QED
      BY <2>2, <2>3
  <1>0. req[r] \in Request
    OBVIOUS
  <1>1. ASSUME NEW i \in Identities, Submit(r, i)
        PROVE  /\ \A j \in Counted : Edited(j)
               /\ pc' = pc /\ copy' = copy /\ NoAdmission
    BY <1>1 DEF Submit, Edited, NoAdmission
  <1>2. ASSUME NEW i \in Identities, NEW j \in Jobs, NEW given \in SUBSET Batches,
               Compose(r, i, j, given)
        PROVE  /\ \A k \in Counted : Edited(k)
               /\ pc' = pc /\ copy' = copy /\ NoAdmission
    BY <1>2 DEF Compose, Edited, NoAdmission
  <1>3. ASSUME NEW c \in Jobs, NEW stops \in Modes, ReserveNew(r, c, stops)
        PROVE  \E rec \in Row : /\ Reserve(r, c, rec) /\ req[r].kind # "idle"
                               /\ rec.owner = req[r].owner /\ rec.created = req[r].created
                               /\ rec.status = "queued" /\ rec.measured = Unmeasured
    <2> DEFINE rec == [Blank EXCEPT !.owner = req[r].owner, !.stops = stops,
                                    !.created = req[r].created]
    <2>1. rec \in Row
      BY <1>0, <1>3, BoundsAssumption, NoneAssumption
         DEF Blank, Row, Request, ReserveNew, Reserve
    <2>2. /\ rec.owner = req[r].owner /\ rec.created = req[r].created
          /\ rec.status = "queued" /\ rec.measured = Unmeasured
      BY DEF Blank
    <2> QED
      BY <1>3, <2>1, <2>2 DEF ReserveNew
  <1>4. ASSUME NEW c \in Jobs, NEW link \in Links \ {"fresh"}, ReserveChild(r, c, link)
        PROVE  \E rec \in Row : /\ Reserve(r, c, rec) /\ req[r].kind # "idle"
                               /\ rec.owner = req[r].owner /\ rec.created = req[r].created
                               /\ rec.status = "queued" /\ rec.measured = Unmeasured
    <2>1. ChildRecord(req[r], link) \in Row
      BY <1>0, <1>4, ChildType DEF ReserveChild, Reserve
    <2>2. /\ ChildRecord(req[r], link).owner = req[r].owner
          /\ ChildRecord(req[r], link).created = req[r].created
          /\ ChildRecord(req[r], link).status = "queued"
          /\ ChildRecord(req[r], link).measured = Unmeasured
      BY DEF ChildRecord, Blank
    <2> QED
      BY <1>4, <2>1, <2>2 DEF ReserveChild
  <1>5. CASE SaveAnswers(r)
    <2>1. ASSUME NEW j \in Counted
          PROVE  Edited(j)
      <3>1. j \in Jobs /\ row[j] \in Row
        BY DEF Counted
      <3>2. CASE row'[j] = row[j]
        BY <3>2 DEF Edited
      <3>3. CASE row'[j] # row[j]
        <4>1. j = req[r].job
              /\ row'[j] = [row[j] EXCEPT !.answers  = req[r].seen.answers \cup req[r].given,
                                         !.revision = row[j].revision + 1]
          BY <1>5, <3>1, <3>3 DEF SaveAnswers
        <4> QED
          BY <3>1, <4>1 DEF Edited, Row
      <3> QED
        BY <3>2, <3>3
    <2> QED
      BY <1>5, <2>1 DEF SaveAnswers, NoAdmission
  <1>6. CASE Create(r)
    BY <1>6 DEF Create, Edited, NoAdmission
  <1> QED
    BY <1>r, <1>1, <1>2, <1>3, <1>4, <1>5, <1>6 DEF RequestStep

(* A title, a refusal and a delete edit rows and admit nothing.            *)
LEMMA OwnerSteps ==
  ASSUME TypeOK, NEW k \in Jobs, OwnerStep(k)
  PROVE  (\A j \in Counted : Edited(j)) /\ NoAdmission
  <1>0. \A j \in Counted : row[j] \in Row
    BY DEF TypeOK, Counted
  <1>1. ASSUME NEW t \in Titles, SetTitle(k, t)
        PROVE  (\A j \in Counted : Edited(j)) /\ NoAdmission
    <2>1. ASSUME NEW j \in Counted
          PROVE  row'[j] = IF j = k THEN [row[j] EXCEPT !.title = t] ELSE row[j]
      BY <1>1 DEF SetTitle, TypeOK, Counted
    <2> QED
      BY <1>0, <1>1, <2>1 DEF SetTitle, Edited, Row, NoAdmission, TypeOK
  <1>2. ASSUME NEW x \in Refusals, SetContinueRefusal(k, x)
        PROVE  (\A j \in Counted : Edited(j)) /\ NoAdmission
    <2>1. ASSUME NEW j \in Counted
          PROVE  row'[j] = IF j = k THEN [row[j] EXCEPT !.refusal = x] ELSE row[j]
      BY <1>2 DEF SetContinueRefusal, TypeOK, Counted
    <2> QED
      BY <1>0, <1>2, <2>1 DEF SetContinueRefusal, Edited, Row, NoAdmission, TypeOK
  <1>3. CASE Delete(k)
    <2> DEFINE left == [Blank EXCEPT !.owner = row[k].owner, !.parent = row[k].parent,
                                     !.status = row[k].status, !.created = row[k].created,
                                     !.measured = row[k].measured]
    <2>1. /\ left.owner = row[k].owner /\ left.created = row[k].created
          /\ left.status = row[k].status /\ left.measured = row[k].measured
      BY DEF Blank
    <2>2. ASSUME NEW j \in Counted
          PROVE  row'[j] = IF j = k THEN left ELSE row[j]
      BY <1>3 DEF Delete, TypeOK, Counted
    <2> HIDE DEF left
    <2>3. \A j \in Counted : Edited(j)
      BY <2>1, <2>2 DEF Edited
    <2> QED
      BY <1>3, <2>3 DEF Delete, NoAdmission, TypeOK
  <1> QED
    BY <1>1, <1>2, <1>3 DEF OwnerStep

(* A step of a worker saves its own row, or fails it, and admits nothing.  *)
LEMMA WorkerSteps ==
  ASSUME TypeOK, LineageInv, NEW k \in Jobs, WorkerStep(k)
  PROVE  (\A j \in Counted : RowStep(j)) /\ NoAdmission
  <1>0. \A j \in Counted : j \in Jobs /\ row[j] \in Row
    BY DEF TypeOK, Counted
  <1>1. NoAdmission
    <2>1. UNCHANGED <<held, usage, principal, admitted, clock>>
      BY DEF WorkerStep, Fetch, FetchRaises, Save, SaveRaises, FallBack, FallBackRaises,
             EndRun
    <2> QED
      BY <2>1 DEF NoAdmission, TypeOK
  <1>2. CASE row' = row
    BY <1>1, <1>2 DEF RowStep, Edited
  <1>3. ASSUME pc[k] \in {"fetched", "running", "ending"}, k \in held,
               row' = [row EXCEPT ![k] = Written(k)]
        PROVE  \A j \in Counted : RowStep(j)
    <2>1. WorkerSaved(k)
      BY <1>3 DEF WorkerSaved, Saving, HoldsASlot, LineageInv, WorkerOwnsRun
    <2>2. \A j \in Counted : j # k => Edited(j)
      BY <1>0, <1>3 DEF Edited, TypeOK
    <2> QED
      BY <2>1, <2>2 DEF RowStep
  <1>4. CASE FallBack(k) /\ row' # row
    <2> DEFINE settled == Settled("failed", copy[k].measured)
               failed  == [row[k] EXCEPT !.status = "failed", !.measured = settled]
    <2>1. k \in held /\ HoldsASlot(k) /\ row' = [row EXCEPT ![k] = failed]
      BY <1>4 DEF FallBack, HoldsASlot
    <2>2. /\ failed.owner = row[k].owner /\ failed.created = row[k].created
          /\ failed.status = "failed" /\ failed.measured = settled
      <3> HIDE DEF settled
      <3> QED
        BY <1>0, <2>1 DEF Counted, Row
    <2>3. row'[k] = failed /\ \A j \in Jobs : j # k => row'[j] = row[j]
      BY <2>1 DEF TypeOK
    <2> HIDE DEF failed
    <2>4. Failed(k)
      BY <2>1, <2>2, <2>3 DEF Failed
    <2>5. \A j \in Counted : j # k => Edited(j)
      BY <1>0, <2>3 DEF Edited
    <2> QED
      BY <1>1, <2>4, <2>5 DEF RowStep
  <1> QED
    BY <1>1, <1>2, <1>3, <1>4
       DEF WorkerStep, Fetch, FetchRaises, Save, SaveRaises, FallBackRaises, EndRun

(* A restart fails what is in flight, and a tick changes no row.           *)
LEMMA OtherSteps ==
  ASSUME TypeOK, Restart \/ Tick \/ UNCHANGED vars
  PROVE  (\A j \in Counted : Edited(j) \/ Failed(j)) /\ NoAdmission
  <1>0. \A j \in Counted : j \in Jobs /\ row[j] \in Row
    BY DEF TypeOK, Counted
  <1>1. CASE Restart
    <2>1. ASSUME NEW j \in Counted
          PROVE  row'[j] = IF HoldsASlot(j) THEN [row[j] EXCEPT !.status = "failed"]
                           ELSE row[j]
      BY <1>0, <1>1 DEF Restart
    <2>2. \A j \in Counted : Edited(j) \/ Failed(j)
      BY <1>0, <2>1 DEF Edited, Failed, Row
    <2> QED
      BY <1>1, <2>2 DEF Restart, NoAdmission, TypeOK
  <1>2. CASE Tick \/ UNCHANGED vars
    BY <1>2 DEF Tick, vars, Edited, NoAdmission, TypeOK
  <1> QED
    BY <1>1, <1>2

(* Every step is an admission, or admits nothing; and it edits, saves or   *)
(* fails the row of each job admitted before it.                           *)
LEMMA StepShape ==
  ASSUME TypeOK, LineageInv, [Next]_vars
  PROVE  /\ \A j \in Counted : RowStep(j)
         /\ \/ NoAdmission
            \/ \E r \in Requests, c \in Jobs, rec \in Row : Admission(r, c, rec)
  BY RequestSteps, OwnerSteps, WorkerSteps, OtherSteps DEF Next, RowStep

(* What a run that fails is charged is nothing measured, or its            *)
(* reservation at least.                                                   *)
LEMMA SettledCost ==
  ASSUME NEW spent \in Nat \cup {Unmeasured}
  PROVE  \/ Settled("failed", spent) = Unmeasured
         \/ Settled("failed", spent) >= Reserved
  BY BoundsAssumption DEF Settled, Larger

(* What such a step keeps of the row.                                      *)
LEMMA RowKept ==
  ASSUME TypeOK, LineageInv, ChargeInv, NEW j \in Counted, RowStep(j)
  PROVE  /\ row'[j].owner = row[j].owner /\ row'[j].created = row[j].created
         /\ row[j].status \in TerminalStatuses =>
              row'[j].status = row[j].status /\ row'[j].measured = row[j].measured
         /\ CostKept(row'[j])
  <1>0. /\ j \in Jobs /\ row[j] \in Row /\ copy[j] \in Row /\ CostKept(row[j])
        /\ HoldsASlot(j) => row[j].status \notin TerminalStatuses
    BY DEF TypeOK, Counted, ChargeInv, HoldsASlot
  <1>1. CASE Edited(j)
    BY <1>0, <1>1 DEF Edited, CostKept
  <1>2. CASE WorkerSaved(j)
    <2>1. row'[j] = Written(j) /\ HoldsASlot(j)
      BY <1>0, <1>2 DEF WorkerSaved, TypeOK
    <2>2. copy[j].owner = row[j].owner /\ copy[j].created = row[j].created /\ CostKept(copy[j])
      BY <1>0, <1>2 DEF WorkerSaved, Saving, LineageInv, CopyMatches, ChargeInv
    <2>3. /\ Written(j).owner = copy[j].owner /\ Written(j).created = copy[j].created
          /\ Written(j).status = copy[j].status /\ Written(j).measured = copy[j].measured
      BY <1>0 DEF Written, Row
    <2> QED
      BY <1>0, <2>1, <2>2, <2>3 DEF CostKept
  <1>3. CASE Failed(j)
    <2>1. /\ row[j].measured = Unmeasured /\ row'[j].status = "failed"
          /\ row[j].status \notin TerminalStatuses
          /\ row'[j].owner = row[j].owner /\ row'[j].created = row[j].created
      BY <1>0, <1>3 DEF Failed, HoldsASlot, CostKept
    <2>2. copy[j].measured \in Nat \cup {Unmeasured}
      BY <1>0 DEF Row
    <2>3. row'[j].measured = Unmeasured \/ row'[j].measured >= Reserved
      BY <1>3, <2>1, <2>2, SettledCost DEF Failed
    <2> QED
      BY <2>1, <2>3 DEF CostKept
  <1> QED
    BY <1>1, <1>2, <1>3 DEF RowStep

(* No job takes a slot but the one that is admitted.                       *)
LEMMA SlotsFall ==
  ASSUME TypeOK, TypeOK', LineageInv, ChargeInv, NEW j \in Counted, RowStep(j),
         HoldsASlot(j)', j \in held
  PROVE  HoldsASlot(j)
  <1>1. row[j] \in Row
    BY DEF TypeOK
  <1>2. row[j].status \in InFlightStatuses \cup TerminalStatuses
    BY <1>1 DEF Row
  <1> QED
    BY <1>2, RowKept DEF HoldsASlot

-----------------------------------------------------------------------------
(***************************************************************************)
(* The inductive step                                                      *)
(***************************************************************************)

(* What is noted of an admission.                                          *)
New(r, c) ==
  [job |-> c, identity |-> req[r].identity, created |-> req[r].created, at |-> clock]

(* What an admission changes.                                              *)
LEMMA Admitting ==
  ASSUME TypeOK, NEW r \in Requests, NEW c \in Jobs, NEW rec \in Row,
         Admission(r, c, rec)
  PROVE  /\ c \notin Counted /\ held' = held \cup {c} /\ usage' = usage
         /\ row'[c] = rec /\ clock' = clock
         /\ req' = [req EXCEPT ![r] = Idle]
         /\ admitted' = admitted \cup
              {New(r, c)}
         /\ principal' = IF req[r].first
                         THEN [principal EXCEPT ![req[r].identity] = req[r].owner]
                         ELSE principal
         /\ pc' = [pc EXCEPT ![c] = "queued"] /\ copy' = copy
  BY DEF Admission, Reserve, Counted, New

(* The records of admissions stay true of the jobs.                        *)
LEMMA AdmissionKept ==
  ASSUME TypeOK, TypeOK', Inv, \A j \in Counted : RowStep(j),
         NoAdmission \/ \E r \in Requests, c \in Jobs, rec \in Row : Admission(r, c, rec)
  PROVE  AdmissionInv'
  <1>0. \A j \in Counted : row'[j].owner = row[j].owner /\ row'[j].created = row[j].created
    BY RowKept DEF Inv
  <1>1. CASE NoAdmission
    <2>1. Counted' = Counted /\ admitted' = admitted /\ principal' = principal
      BY <1>1 DEF NoAdmission, Counted
    <2> QED
      BY <1>0, <2>1 DEF Inv, AdmissionInv
  <1>2. ASSUME NEW r \in Requests, NEW c \in Jobs, NEW rec \in Row, Admission(r, c, rec)
        PROVE  AdmissionInv'
    <2> DEFINE new == New(r, c)
               i == req[r].identity
    <2>0. /\ req[r] \in Request /\ i \in Identities
          /\ req[r].kind # "idle" /\ PrincipalAdmits(req[r])
          /\ rec.owner = req[r].owner /\ rec.created = req[r].created
      BY <1>2 DEF TypeOK, Request, Admission, Admits
    <2>1. /\ c \notin Counted /\ Counted' = Counted \cup {c}
          /\ admitted' = admitted \cup {new} /\ row'[c] = rec /\ clock' = clock
      BY <1>2, Admitting DEF Counted
    <2>2. principal'[i] = req[r].owner /\ principal'[i] # NoOwner
      <3>0. principal' = IF req[r].first THEN [principal EXCEPT ![i] = req[r].owner]
                         ELSE principal
        BY <1>2, Admitting
      <3>1. CASE req[r].first
        <4>1. req[r].owner \in Owners
          BY <3>1 DEF Inv, OwnerInv
        <4>2. principal'[i] = req[r].owner
          BY <2>0, <3>0, <3>1 DEF TypeOK
        <4> QED
          BY <4>1, <4>2, NoneAssumption
      <3>2. CASE ~req[r].first
        <4>1. req[r].owner # NoOwner /\ principal[i] = req[r].owner
          BY <2>0, <3>2 DEF Inv, OwnerInv
        <4> QED
          BY <3>0, <3>2, <4>1
      <3> QED
        BY <3>1, <3>2
    <2>3. \A k \in Identities : principal[k] # NoOwner => principal'[k] = principal[k]
      BY <1>2, <2>0, Admitting DEF TypeOK, PrincipalAdmits
    <2>4. \A a \in admitted : a.job \in Counted /\ a.job # c /\ a.identity \in Identities
      BY <2>1 DEF Inv, AdmissionInv, TypeOK
    <2>5. ASSUME NEW a \in admitted'
          PROVE  /\ a.job \in Counted'
                 /\ principal'[a.identity] # NoOwner
                 /\ row'[a.job].owner = principal'[a.identity]
                 /\ row'[a.job].created = a.created
      <3>1. CASE a = new
        BY <2>0, <2>1, <2>2, <3>1 DEF New
      <3>2. CASE a \in admitted
        BY <1>0, <2>1, <2>3, <2>4, <3>2 DEF Inv, AdmissionInv
      <3> QED
        BY <2>1, <3>1, <3>2
    <2>6. \A a, b \in admitted' : a.job = b.job => a = b
      BY <2>1, <2>4 DEF Inv, AdmissionInv, New
    <2>7. ASSUME NEW j \in Counted'
          PROVE  \E a \in admitted' : a.job = j
      <3>1. new \in admitted' /\ new.job = c
        BY <2>1 DEF New
      <3>2. j # c => \E a \in admitted : a.job = j
        BY <2>1, <2>7 DEF Inv, AdmissionInv
      <3> QED
        BY <2>1, <3>1, <3>2
    <2> QED
      BY <2>5, <2>6, <2>7 DEF AdmissionInv
  <1> QED
    BY <1>1, <1>2

(* A request that is dropped leaves the owner IDs of the others apart.     *)
LEMMA RequestsDrop ==
  ASSUME TypeOK, OwnerInv, principal' = principal,
         \A s \in Requests : req'[s] = req[s] \/ req'[s] = Idle
  PROVE  OwnerInv'
  <1>1. Idle.kind = "idle" /\ Idle.first = FALSE
    BY DEF Idle
  <1> QED
    BY <1>1 DEF OwnerInv

(* Two identities never come to one owner ID: of two first submissions     *)
(* each draws its own, and an identity's second is refused.                *)
LEMMA OwnersKept ==
  ASSUME TypeOK, TypeOK', Inv, [Next]_vars
  PROVE  OwnerInv'
  <1>0. OwnerInv /\ AdmissionInv
    BY DEF Inv
  <1>r. ASSUME NEW r \in Requests, NEW c \in Jobs, NEW rec, Reserve(r, c, rec), req[r].kind # "idle"
        PROVE  OwnerInv'
    <2>1. req' = [req EXCEPT ![r] = Idle]
      BY <1>r DEF Reserve
    <2>2. CASE principal' = principal
      BY <1>0, <2>1, <2>2, RequestsDrop DEF TypeOK
    <2>3. CASE principal' # principal
      <3> DEFINE i == req[r].identity
                 o == req[r].owner
      <3>1. /\ req[r].first /\ principal[i] = NoOwner /\ i \in Identities
            /\ principal' = [principal EXCEPT ![i] = o]
        BY <1>r, <2>3 DEF Reserve, Admits, PrincipalAdmits, TypeOK, Request
      <3>2. principal'[i] = o /\ \A k \in Identities : k # i => principal'[k] = principal[k]
        BY <3>1 DEF TypeOK
      <3>3. /\ o \in Owners /\ o # NoOwner /\ \A k \in Identities : principal[k] # o
        BY <1>0, <3>1, NoneAssumption DEF OwnerInv
      <3>4. /\ req'[r] = Idle /\ \A s \in Requests : s # r => req'[s] = req[s]
            /\ Idle.kind = "idle" /\ Idle.first = FALSE
        BY <2>1 DEF TypeOK, Idle
      <3>5. \A k, l \in Identities : principal'[k] = principal'[l] /\ principal'[k] # NoOwner => k = l
        BY <1>0, <3>2, <3>3 DEF OwnerInv
      <3>6. ASSUME NEW s \in Requests
            PROVE  /\ req'[s].kind # "idle" /\ ~req'[s].first =>
                        req'[s].owner # NoOwner /\ principal'[req'[s].identity] = req'[s].owner
                   /\ req'[s].first =>
                        /\ req'[s].kind = "submitting" /\ req'[s].owner \in Owners
                        /\ \A k \in Identities : principal'[k] # req'[s].owner
        <4>1. CASE s = r
          BY <3>4, <4>1
        <4>2. CASE s # r
          <5>1. req'[s] = req[s] /\ req[s].identity \in Identities
            BY <3>4, <4>2 DEF TypeOK, Request
          <5>2. req[s].first => o # req[s].owner
            BY <1>0, <3>1, <4>2 DEF OwnerInv
          <5> QED
            BY <1>0, <3>1, <3>2, <5>1, <5>2 DEF OwnerInv
        <4> QED
          BY <4>1, <4>2
      <3>7. \A s, t \in Requests :
              req'[s].first /\ req'[t].first /\ req'[s].owner = req'[t].owner => s = t
        BY <1>0, <3>4 DEF OwnerInv
      <3> QED
        BY <3>5, <3>6, <3>7 DEF OwnerInv
    <2> QED
      BY <2>2, <2>3
  <1>n. ASSUME NEW r \in Requests, NEW q \in Request, req' = [req EXCEPT ![r] = q],
               principal' = principal,
               ~q.first => q.owner # NoOwner /\ principal[q.identity] = q.owner,
               q.first => q.kind = "submitting" /\ q.owner \in FreshOwners
        PROVE  OwnerInv'
    <2>1. req'[r] = q /\ \A s \in Requests : s # r => req'[s] = req[s]
      BY <1>n DEF TypeOK
    <2>2. q.first => /\ q.owner \in Owners /\ \A i \in Identities : principal[i] # q.owner
                     /\ \A s \in Requests : req[s].first => req[s].owner # q.owner
      BY <1>n DEF FreshOwners
    <2> QED
      BY <1>0, <1>n, <2>1, <2>2 DEF OwnerInv
  <1>1. ASSUME NEW r \in Requests, NEW i \in Identities, Submit(r, i)
        PROVE  OwnerInv'
    <2>1. PICK o \in IF principal[i] = NoOwner THEN FreshOwners ELSE {principal[i]} :
            req' = [req EXCEPT ![r] = Submitted(i, o)]
      BY <1>1 DEF Submit, Submitted
    <2>2. /\ Submitted(i, o).kind = "submitting" /\ Submitted(i, o).identity = i
          /\ Submitted(i, o).owner = o /\ Submitted(i, o).first = (principal[i] = NoOwner)
      BY DEF Submitted, Idle
    <2>3. Submitted(i, o) \in Request
      <3>1. o \in Owners \cup {NoOwner}
        BY <2>1 DEF FreshOwners, TypeOK
      <3> QED
        BY <3>1, IdleType DEF Request, Submitted
    <2> QED
      BY <1>n, <1>1, <2>1, <2>2, <2>3 DEF Submit
  <1>2. ASSUME NEW r \in Requests, NEW i \in Identities, NEW j \in Jobs,
               NEW given \in SUBSET Batches, Compose(r, i, j, given)
        PROVE  OwnerInv'
    <2>1. req' = [req EXCEPT ![r] = Composed(i, j, given)]
      BY <1>2 DEF Compose, Composed
    <2>2. /\ Composed(i, j, given).identity = i /\ Composed(i, j, given).owner = row[j].owner
          /\ Composed(i, j, given).first = FALSE
      BY DEF Composed, Idle
    <2>3. Composed(i, j, given) \in Request
      <3>1. row[j] \in Row /\ row[j].owner \in Owners \cup {NoOwner}
        BY DEF TypeOK, Row
      <3> QED
        BY <3>1, IdleType DEF Request, Composed
    <2>4. row[j].owner # NoOwner /\ row[j].owner = principal[i]
      BY <1>0, <1>2 DEF Compose, AdmissionInv, Counted
    <2> QED
      BY <1>n, <1>2, <2>1, <2>2, <2>3, <2>4 DEF Compose
  <1>3. ASSUME NEW r \in Requests, SaveAnswers(r)
        PROVE  OwnerInv'
    BY <1>0, <1>3, RequestsDrop DEF SaveAnswers, TypeOK
  <1>4. ASSUME NEW r \in Requests, RequestStep(r)
        PROVE  OwnerInv'
    <2>1. CASE Create(r)
      <3>1. req[r] \in Request /\ clock \in Nat
        BY DEF TypeOK
      <3> DEFINE new == [req[r] EXCEPT !.created = clock]
      <3>2. /\ new.kind = req[r].kind /\ new.first = req[r].first
            /\ new.owner = req[r].owner /\ new.identity = req[r].identity
        BY <3>1 DEF Request
      <3>3. req' = [req EXCEPT ![r] = new] /\ principal' = principal
        BY <2>1 DEF Create
      <3> HIDE DEF new
      <3>4. \A s \in Requests :
              /\ req'[s].kind = req[s].kind /\ req'[s].first = req[s].first
              /\ req'[s].owner = req[s].owner /\ req'[s].identity = req[s].identity
        BY <3>2, <3>3 DEF TypeOK
      <3> QED
        BY <1>0, <3>3, <3>4 DEF OwnerInv
    <2> QED
      BY <1>r, <1>1, <1>2, <1>3, <1>4, <2>1 DEF RequestStep, ReserveNew, ReserveChild
  <1>5. CASE Restart
    BY <1>0, <1>5, RequestsDrop DEF Restart
  <1>6. CASE Tick \/ UNCHANGED vars
    BY <1>0, <1>6, RequestsDrop DEF Tick, vars
  <1>7. ASSUME NEW j \in Jobs, OwnerStep(j)
        PROVE  OwnerInv'
    BY <1>0, <1>7, RequestsDrop DEF OwnerStep, SetTitle, SetContinueRefusal, Delete
  <1>8. ASSUME NEW j \in Jobs, WorkerStep(j)
        PROVE  OwnerInv'
    <2>1. req' = req /\ principal' = principal
      BY <1>8 DEF WorkerStep, Fetch, FetchRaises, Save, SaveRaises, FallBack,
                  FallBackRaises, EndRun
    <2> QED
      BY <1>0, <2>1, RequestsDrop
  <1> QED
    BY <1>4, <1>5, <1>6, <1>7, <1>8 DEF Next

(* What the worker of a job holds once its step is done: what it held, the *)
(* record it just fetched, or the outcome of its run.                      *)
LEMMA CopyStep ==
  ASSUME TypeOK, LineageInv, ChargeInv, NEW j \in Jobs, WorkerStep(j),
         pc'[j] \in {"fetched", "running", "ending"}
  PROVE  CostKept(copy'[j]) /\ copy'[j].created = row[j].created /\ j \in held
  <1>0. row[j] \in Row /\ copy[j] \in Row
    BY DEF TypeOK
  <1>1. CASE Fetch(j)
    <2>1. /\ copy'[j] = [row[j] EXCEPT !.status = "running"]
          /\ row[j].status = "queued" /\ j \in held
      BY <1>1 DEF Fetch, TypeOK
    <2>2. row[j].measured = Unmeasured
      BY <2>1 DEF ChargeInv, CostKept, Counted
    <2> QED
      BY <1>0, <2>1, <2>2 DEF CostKept, Row
  <1>2. CASE EndRun(j)
    <2>1. PICK outcome \in Outcomes(copy[j]), spent \in Spends \cup {Unmeasured} :
            copy' = [copy EXCEPT ![j] = [copy[j] EXCEPT !.status = outcome,
                                                        !.measured = Settled(outcome, spent)]]
      BY <1>2 DEF EndRun
    <2>2. spent \in Nat \cup {Unmeasured} /\ outcome \notin InFlightStatuses
      BY BoundsAssumption DEF Outcomes
    <2>3. outcome = "failed" => \/ Settled(outcome, spent) = Unmeasured
                                \/ Settled(outcome, spent) >= Reserved
      BY <2>2, SettledCost
    <2> DEFINE settled == Settled(outcome, spent)
    <2>4. copy'[j] = [copy[j] EXCEPT !.status = outcome, !.measured = settled]
      BY <2>1 DEF TypeOK
    <2> HIDE DEF settled
    <2>5. /\ copy'[j].status = outcome /\ copy'[j].measured = settled
          /\ copy'[j].created = copy[j].created
      BY <1>0, <2>4 DEF Row
    <2>6. CostKept(copy'[j])
      BY <2>2, <2>3, <2>5 DEF CostKept, settled
    <2>7. pc[j] = "running"
      BY <1>2 DEF EndRun
    <2> QED
      BY <2>5, <2>6, <2>7 DEF ChargeInv, LineageInv, WorkerOwnsRun
  <1>3. CASE Save(j)
    <2>1. copy' = copy /\ pc[j] \in {"fetched", "running"}
      BY <1>3 DEF Save, Return, TypeOK
    <2> QED
      BY <2>1 DEF ChargeInv, LineageInv, WorkerOwnsRun
  <1>4. CASE FetchRaises(j) \/ SaveRaises(j) \/ FallBack(j) \/ FallBackRaises(j)
    BY <1>4 DEF FetchRaises, SaveRaises, FallBack, FallBackRaises, Return, TypeOK
  <1> QED
    BY <1>1, <1>2, <1>3, <1>4 DEF WorkerStep

(* What a job costs stays what its record says it costs.                   *)
LEMMA ChargeKept ==
  ASSUME TypeOK, TypeOK', Inv, [Next]_vars
  PROVE  ChargeInv'
  <1>0. LineageInv /\ ChargeInv
    BY DEF Inv
  <1>1. /\ \A j \in Counted : RowStep(j)
        /\ \/ NoAdmission
           \/ \E r \in Requests, c \in Jobs, rec \in Row : Admission(r, c, rec)
    BY <1>0, StepShape
  <1>2. \A j \in Counted : row'[j].created = row[j].created /\ CostKept(row'[j])
    BY <1>0, <1>1, RowKept
  <1>3. ASSUME NEW j \in Counted'
        PROVE  CostKept(row'[j])
    <2>1. CASE NoAdmission
      BY <1>2, <1>3, <2>1 DEF NoAdmission, Counted
    <2>2. ASSUME NEW r \in Requests, NEW c \in Jobs, NEW rec \in Row, Admission(r, c, rec)
          PROVE  CostKept(row'[j])
      <3>1. Counted' = Counted \cup {c} /\ row'[c] = rec
        BY <2>2, Admitting DEF Counted
      <3>2. rec.status = "queued" /\ rec.measured = Unmeasured
        BY <2>2 DEF Admission
      <3> QED
        BY <1>2, <1>3, <3>1, <3>2 DEF CostKept
    <2> QED
      BY <1>1, <2>1, <2>2
  <1>4. ASSUME NEW j \in Jobs, pc'[j] \in {"fetched", "running", "ending"},
               pc'[j] = pc[j], copy'[j] = copy[j]
        PROVE  CostKept(copy'[j]) /\ copy'[j].created = row'[j].created
    <2>1. j \in Counted
      BY <1>0, <1>4 DEF LineageInv, WorkerOwnsRun, Counted
    <2> QED
      BY <1>0, <1>2, <1>4, <2>1 DEF ChargeInv
  <1>5. ASSUME NEW j \in Jobs, pc'[j] \in {"fetched", "running", "ending"}
        PROVE  CostKept(copy'[j]) /\ copy'[j].created = row'[j].created
    <2>1. ASSUME NEW r \in Requests, RequestStep(r)
          PROVE  pc'[j] = pc[j] /\ copy'[j] = copy[j]
      <3>1. /\ pc' = pc \/ (\E c \in Jobs : c \notin Counted /\ pc' = [pc EXCEPT ![c] = "queued"])
            /\ copy' = copy
        BY <1>0, <2>1, RequestSteps
      <3>2. ASSUME NEW c \in Jobs, pc' = [pc EXCEPT ![c] = "queued"]
            PROVE  pc'[j] = pc[j]
        BY <1>5, <3>2 DEF TypeOK
      <3>3. pc'[j] = pc[j]
        BY <3>1, <3>2
      <3> QED
        BY <3>1, <3>3
    <2>2. CASE \E k \in Jobs : OwnerStep(k)
      BY <1>4, <1>5, <2>2 DEF OwnerStep, SetTitle, SetContinueRefusal, Delete
    <2>3. ASSUME NEW k \in Jobs, WorkerStep(k)
          PROVE  CostKept(copy'[j]) /\ copy'[j].created = row'[j].created
      <3>1. CASE k = j
        BY <1>0, <1>2, <1>5, <2>3, <3>1, CopyStep DEF Counted
      <3>2. CASE k # j
        <4>1. pc'[j] = pc[j] /\ copy'[j] = copy[j]
          <5>1. \E x : pc' = [pc EXCEPT ![k] = x]
            BY <2>3, Zenon DEF WorkerStep, Fetch, FetchRaises, Save, SaveRaises, FallBack,
                               FallBackRaises, EndRun, Return
          <5>2. copy' = copy \/ \E x : copy' = [copy EXCEPT ![k] = x]
            BY <2>3, Zenon DEF WorkerStep, Fetch, FetchRaises, Save, SaveRaises, FallBack,
                               FallBackRaises, EndRun, Return
          <5> QED
            BY <3>2, <5>1, <5>2 DEF TypeOK
        <4> QED
          BY <1>4, <1>5, <4>1
      <3> QED
        BY <3>1, <3>2
    <2>4. CASE Restart
      BY <1>5, <2>4 DEF Restart
    <2>5. CASE Tick \/ UNCHANGED vars
      BY <1>4, <1>5, <2>5 DEF Tick, vars
    <2> QED
      BY <1>4, <1>5, <2>1, <2>2, <2>3, <2>4, <2>5 DEF Next
  <1> QED
    BY <1>3, <1>5 DEF ChargeInv

(* The inductive invariant holds in every behaviour of the store.          *)
THEOREM AdmissionHolds == Spec => []Inv
  <1>1. Init => AdmissionInv /\ OwnerInv /\ ChargeInv
    BY DEF Init, AdmissionInv, Counted, OwnerInv, ChargeInv, Idle
  <1>2. /\ TypeOK /\ TypeOK' /\ LineageInv /\ LineageInv' /\ [Next]_vars
        /\ AdmissionInv /\ OwnerInv /\ ChargeInv
        => (AdmissionInv /\ OwnerInv /\ ChargeInv)'
    <2> SUFFICES ASSUME TypeOK, TypeOK', LineageInv, LineageInv', [Next]_vars,
                        AdmissionInv, OwnerInv, ChargeInv
                 PROVE  (AdmissionInv /\ OwnerInv /\ ChargeInv)'
      OBVIOUS
    <2>1. Inv
      BY DEF Inv
    <2>2. AdmissionInv'
      BY <2>1, StepShape, AdmissionKept
    <2> QED
      BY <2>1, <2>2, OwnersKept, ChargeKept
  <1>3. Spec => [](AdmissionInv /\ OwnerInv /\ ChargeInv)
    BY <1>1, <1>2, TypeCorrect, LineageHolds, PTL DEF Spec
  <1>4. TypeOK /\ LineageInv /\ AdmissionInv /\ OwnerInv /\ ChargeInv => Inv
    BY DEF Inv
  <1> QED
    BY <1>3, <1>4, TypeCorrect, LineageHolds, PTL

-----------------------------------------------------------------------------
(***************************************************************************)
(* The ceiling and the rate                                                *)
(***************************************************************************)

(* Admissions are as many as their jobs.                                   *)
LEMMA AsManyJobs ==
  ASSUME TypeOK, AdmissionInv, NEW S \in SUBSET admitted, NEW T \in SUBSET Jobs,
         \A a \in S : a.job \in T
  PROVE  /\ IsFiniteSet(S) /\ Cardinality(S) \in Nat /\ Cardinality(T) \in Nat
         /\ Cardinality(S) <= Cardinality(T)
  <1> DEFINE f == [a \in S |-> a.job]
  <1>1. IsFiniteSet(T)
    BY SetsAssumption, FS_Subset
  <1>2. f \in Injection(S, T)
    BY DEF Injection, IsInjective, AdmissionInv
  <1>3. IsFiniteSet(S) /\ Cardinality(S) <= Cardinality(T)
    BY <1>1, <1>2, FS_Injection
  <1> QED
    BY <1>1, <1>3, FS_CardinalityType

(* A set of admissions that grows by one at most.                          *)
LEMMA OneMore ==
  ASSUME NEW S, NEW T, NEW x, NEW n \in Nat, IsFiniteSet(S),
         \/ T \subseteq S /\ Cardinality(S) <= n
         \/ T \subseteq S \cup {x} /\ Cardinality(S) < n
  PROVE  IsFiniteSet(T) /\ Cardinality(T) <= n
  <1>1. /\ IsFiniteSet(S \cup {x}) /\ Cardinality(S) \in Nat
        /\ Cardinality(S \cup {x}) \in Nat
        /\ Cardinality(S \cup {x}) <= Cardinality(S) + 1
    <2>1. Cardinality(S) \in Nat
      BY FS_CardinalityType
    <2>2. IsFiniteSet(S \cup {x})
      BY FS_AddElement
    <2>3. Cardinality(S \cup {x}) = IF x \in S THEN Cardinality(S) ELSE Cardinality(S) + 1
      BY FS_AddElement
    <2> QED
      BY <2>1, <2>2, <2>3
  <1>2. CASE T \subseteq S /\ Cardinality(S) <= n
    <2>1. IsFiniteSet(T) /\ Cardinality(T) <= Cardinality(S) /\ Cardinality(T) \in Nat
      BY <1>2, FS_Subset, FS_CardinalityType
    <2> QED
      BY <1>1, <1>2, <2>1
  <1>3. CASE T \subseteq S \cup {x} /\ Cardinality(S) < n
    <2>1. IsFiniteSet(T) /\ Cardinality(T) <= Cardinality(S \cup {x}) /\ Cardinality(T) \in Nat
      BY <1>1, <1>3, FS_Subset, FS_CardinalityType
    <2> QED
      BY <1>1, <1>3, <2>1
  <1> QED
    BY <1>2, <1>3

(* What an identity was admitted for is counted under the owner ID of its  *)
(* request: an identity that was admitted has one owner ID, and a first    *)
(* submission of it is refused.                                            *)
LEMMA CountedUnderOwner ==
  ASSUME TypeOK, Inv, NEW r \in Requests, NEW c \in Jobs, NEW rec \in Row,
         Admission(r, c, rec), NEW a \in AdmittedOf(req[r].identity)
  PROVE  /\ a.job \in {j \in Counted : row[j].owner = req[r].owner}
         /\ row[a.job].created = a.created
  <1>1. PrincipalAdmits(req[r]) /\ req[r].kind # "idle"
    BY DEF Admission, Admits
  <1>2. /\ a \in admitted /\ a.identity = req[r].identity
        /\ a.job \in Counted /\ row[a.job].created = a.created
        /\ principal[a.identity] # NoOwner /\ row[a.job].owner = principal[a.identity]
    BY DEF AdmittedOf, Inv, AdmissionInv
  <1>3. ~req[r].first
    BY <1>1, <1>2 DEF PrincipalAdmits
  <1> QED
    BY <1>1, <1>2, <1>3 DEF Inv, OwnerInv

(* What an admission adds to the admissions of an identity.                *)
LEMMA AdmittedGrows ==
  ASSUME TypeOK, NEW r \in Requests, NEW c \in Jobs, NEW rec \in Row,
         Admission(r, c, rec), NEW i \in Identities
  PROVE  AdmittedOf(i)' = IF i = req[r].identity THEN AdmittedOf(i) \cup {New(r, c)}
                          ELSE AdmittedOf(i)
  BY Admitting DEF AdmittedOf, New

(* The jobs of an identity that hold a slot never pass the ceiling.        *)
THEOREM CeilingStands == Spec => []CeilingHeld
  <1> DEFINE Holding(i) == {a \in AdmittedOf(i) : HoldsASlot(a.job)}
  <1>1. Init => CeilingHeld
    <2> SUFFICES ASSUME Init, NEW i \in Identities
                 PROVE  Cardinality(Holding(i)) <= Ceiling
      BY DEF CeilingHeld
    <2>1. Holding(i) = {}
      BY DEF Init, AdmittedOf
    <2> QED
      BY <2>1, FS_EmptySet, BoundsAssumption
  <1>2. Inv /\ Inv' /\ CeilingHeld /\ [Next]_vars => CeilingHeld'
    <2> SUFFICES ASSUME Inv, Inv', CeilingHeld, [Next]_vars, NEW i \in Identities
                 PROVE  Cardinality(Holding(i)') <= Ceiling
      BY DEF CeilingHeld
    <2>0. TypeOK /\ TypeOK' /\ LineageInv /\ ChargeInv /\ AdmissionInv
      BY DEF Inv
    <2>1. /\ \A j \in Counted : RowStep(j)
          /\ \/ NoAdmission
             \/ \E r \in Requests, c \in Jobs, rec \in Row : Admission(r, c, rec)
      BY <2>0, StepShape
    <2>2. Ceiling \in Nat
      BY BoundsAssumption
    <2>3. /\ \A a \in AdmittedOf(i) : a \in admitted /\ a.job \in Jobs /\ a.job \in Counted
          /\ IsFiniteSet(Holding(i)) /\ Cardinality(Holding(i)) <= Ceiling
      <3>1. \A a \in AdmittedOf(i) : a \in admitted /\ a.job \in Jobs /\ a.job \in Counted
        BY <2>0 DEF AdmittedOf, AdmissionInv, TypeOK
      <3>2. Holding(i) \in SUBSET admitted /\ \A a \in Holding(i) : a.job \in Jobs
        BY <3>1
      <3> QED
        BY <2>0, <3>1, <3>2, AsManyJobs DEF CeilingHeld
    <2>4. ASSUME NEW a \in AdmittedOf(i), HoldsASlot(a.job)', a.job \in held
          PROVE  a \in Holding(i)
      BY <2>0, <2>1, <2>3, <2>4, SlotsFall
    <2>5. CASE NoAdmission
      <3>1. AdmittedOf(i)' = AdmittedOf(i) /\ held' \subseteq held
        BY <2>5 DEF NoAdmission, AdmittedOf
      <3>2. Holding(i)' \subseteq Holding(i)
        BY <2>4, <3>1 DEF HoldsASlot
      <3> QED
        BY <2>2, <2>3, <3>2, OneMore
    <2>6. ASSUME NEW r \in Requests, NEW c \in Jobs, NEW rec \in Row, Admission(r, c, rec)
          PROVE  Cardinality(Holding(i)') <= Ceiling
      <3> DEFINE new  == New(r, c)
                 mine == {j \in held \cup usage : row[j].owner = req[r].owner}
      <3>1. c \notin Counted /\ held' = held \cup {c}
        BY <2>0, <2>6, Admitting
      <3>2. AdmittedOf(i)' = IF i = req[r].identity THEN AdmittedOf(i) \cup {new}
                             ELSE AdmittedOf(i)
        BY <2>0, <2>6, AdmittedGrows
      <3>3. ASSUME NEW a \in AdmittedOf(i), HoldsASlot(a.job)'
            PROVE  a \in Holding(i)
        <4>1. a.job \in held
          BY <2>3, <3>1, <3>3 DEF HoldsASlot
        <4> QED
          BY <2>4, <3>3, <4>1
      <3>4. CASE i # req[r].identity
        <4>1. Holding(i)' \subseteq Holding(i)
          BY <3>2, <3>3, <3>4
        <4> QED
          BY <2>2, <2>3, <4>1, OneMore
      <3>5. CASE i = req[r].identity
        <4>1. Holding(i)' \subseteq Holding(i) \cup {new}
          BY <3>2, <3>3, <3>5
        <4>2. \A a \in Holding(i) : a.job \in {j \in mine : HoldsASlot(j)}
          BY <2>0, <2>6, <3>5, CountedUnderOwner DEF Counted
        <4>3. Cardinality({j \in mine : HoldsASlot(j)}) < Ceiling
          BY <2>6 DEF Admission, Admits, BoundsAdmit
        <4>4. /\ Holding(i) \in SUBSET admitted
              /\ {j \in mine : HoldsASlot(j)} \in SUBSET Jobs
          BY <2>0, <2>3 DEF TypeOK
        <4> HIDE DEF mine, Holding
        <4>5. Cardinality(Holding(i)) < Ceiling
          BY <2>0, <2>2, <4>2, <4>3, <4>4, AsManyJobs
        <4> QED
          BY <2>2, <2>3, <4>1, <4>5, OneMore
      <3> QED
        BY <3>4, <3>5
    <2> QED
      BY <2>1, <2>5, <2>6
  <1> QED
    BY <1>1, <1>2, AdmissionHolds, PTL DEF Spec

(* In any window of the clock, at most max_jobs_per_window jobs of an      *)
(* identity are both created and admitted, whatever became of them: the    *)
(* last of them was admitted where it counted all the others.              *)
LEMMA RateStands == Spec => []RateAlways
  <1> DEFINE Within(i, t) == {a \in AdmittedOf(i) : t <= a.created /\ a.at <= t + Window}
  <1>1. Init => RateAlways
    <2> SUFFICES ASSUME Init, NEW i \in Identities, NEW t \in Nat
                 PROVE  Cardinality(Within(i, t)) <= MaxJobs
      BY DEF RateAlways
    <2>1. Within(i, t) = {}
      BY DEF Init, AdmittedOf
    <2>2. Cardinality({}) = 0
      BY FS_EmptySet
    <2>3. MaxJobs \in Nat
      BY BoundsAssumption
    <2> HIDE DEF Within
    <2> QED
      BY <2>1, <2>2, <2>3
  <1>2. Inv /\ Inv' /\ RateAlways /\ [Next]_vars => RateAlways'
    <2> SUFFICES ASSUME Inv, Inv', RateAlways, [Next]_vars,
                        NEW i \in Identities, NEW t \in Nat
                 PROVE  Cardinality(Within(i, t)') <= MaxJobs
      BY DEF RateAlways
    <2>0. TypeOK /\ TypeOK' /\ LineageInv /\ ChargeInv /\ AdmissionInv
      BY DEF Inv
    <2>1. \/ NoAdmission
          \/ \E r \in Requests, c \in Jobs, rec \in Row : Admission(r, c, rec)
      BY <2>0, StepShape
    <2>2. MaxJobs \in Nat /\ Window \in Nat /\ clock \in Nat
      BY <2>0, BoundsAssumption DEF TypeOK
    <2>3. IsFiniteSet(Within(i, t)) /\ Cardinality(Within(i, t)) <= MaxJobs
      <3>1. \A a \in AdmittedOf(i) : a \in admitted /\ a.job \in Jobs
        BY <2>0 DEF AdmittedOf, AdmissionInv, TypeOK
      <3>2. Within(i, t) \in SUBSET admitted /\ \A a \in Within(i, t) : a.job \in Jobs
        BY <3>1
      <3> QED
        BY <2>0, <3>2, AsManyJobs DEF RateAlways
    <2>4. CASE NoAdmission
      <3>1. Within(i, t)' = Within(i, t)
        BY <2>4 DEF NoAdmission, AdmittedOf
      <3> QED
        BY <2>3, <3>1
    <2>5. ASSUME NEW r \in Requests, NEW c \in Jobs, NEW rec \in Row, Admission(r, c, rec)
          PROVE  Cardinality(Within(i, t)') <= MaxJobs
      <3> DEFINE new  == New(r, c)
                 mine == {j \in held \cup usage : row[j].owner = req[r].owner}
      <3>1. AdmittedOf(i)' = IF i = req[r].identity THEN AdmittedOf(i) \cup {new}
                             ELSE AdmittedOf(i)
        BY <2>0, <2>5, AdmittedGrows
      <3>2. CASE i # req[r].identity \/ ~(clock <= t + Window)
        <4>1. Within(i, t)' \subseteq Within(i, t)
          BY <3>1, <3>2 DEF New
        <4> QED
          BY <2>2, <2>3, <4>1, OneMore
      <3>3. CASE i = req[r].identity /\ clock <= t + Window
        <4>1. Within(i, t)' \subseteq Within(i, t) \cup {new}
          BY <3>1, <3>3
        <4>2. ASSUME NEW a \in Within(i, t)
              PROVE  a.job \in Recent(mine)
          <5>1. a.job \in mine /\ row[a.job].created = a.created
            BY <2>0, <2>5, <3>3, CountedUnderOwner DEF Counted
          <5>2. a.created \in Nat /\ t <= a.created
            BY <2>0 DEF AdmittedOf, TypeOK
          <5>3. a.created + Window >= clock
            BY <2>2, <3>3, <5>2
          <5> QED
            BY <5>1, <5>3 DEF Recent
        <4>3. Cardinality(Recent(mine)) < MaxJobs
          BY <2>5 DEF Admission, Admits, BoundsAdmit
        <4>4. Within(i, t) \in SUBSET admitted /\ Recent(mine) \in SUBSET Jobs
          BY <2>0 DEF TypeOK, AdmittedOf, Recent
        <4> HIDE DEF mine, Within
        <4>5. Cardinality(Within(i, t)) < MaxJobs
          BY <2>0, <2>2, <4>2, <4>3, <4>4, AsManyJobs
        <4> QED
          BY <2>2, <2>3, <4>1, <4>5, OneMore
      <3> QED
        BY <3>2, <3>3
    <2> QED
      BY <2>1, <2>4, <2>5
  <1> QED
    BY <1>1, <1>2, AdmissionHolds, PTL DEF Spec

(* In no window that starts where a job was created are more jobs of its   *)
(* identity created and admitted than the rate allows.                     *)
THEOREM RateKept == Spec => []RateHeld
  <1>1. TypeOK /\ RateAlways => RateHeld
    BY DEF TypeOK, RateAlways, RateHeld
  <1> QED
    BY <1>1, RateStands, TypeCorrect, PTL

-----------------------------------------------------------------------------
(***************************************************************************)
(* What a step may never do                                                *)
(***************************************************************************)

(* A job is admitted only inside the owner's token budget, and inside the  *)
(* deployment's, of the jobs created in the window.                        *)
THEOREM BudgetKept == Spec => AdmittedInBudget
  <1> DEFINE recent == {b \in admitted : b.created + Window >= clock}
             InBudget(a) ==
               /\ TokensOf({b.job : b \in recent}) + Reserved <= GlobalTokens
               /\ TokensOf({b.job : b \in recent \cap AdmittedOf(a.identity)})
                    + Reserved <= OwnerTokens
  <1>1. ASSUME Inv, [Next]_vars, NEW a \in admitted' \ admitted
        PROVE  InBudget(a)
    <2>0. TypeOK /\ LineageInv /\ AdmissionInv /\ OwnerInv
      BY <1>1 DEF Inv
    <2>1. PICK r \in Requests, c \in Jobs, rec \in Row : Admission(r, c, rec)
      BY <1>1, <2>0, StepShape DEF NoAdmission
    <2> DEFINE q       == req[r]
               counted == held \cup usage
               mine    == {j \in counted : row[j].owner = q.owner}
    <2>2. a.identity = q.identity /\ q.identity \in Identities
      BY <1>1, <2>0, <2>1, Admitting DEF TypeOK, Request, New
    <2>3. /\ Spent(Recent(mine)) + Reserved <= OwnerTokens
          /\ Spent(Recent(counted)) + Reserved <= GlobalTokens
      BY <2>1 DEF Admission, Admits, BoundsAdmit
    <2>4. {b.job : b \in recent} = Recent(counted)
      BY <2>0 DEF AdmissionInv, Counted, Recent
    <2>5. {b.job : b \in recent \cap AdmittedOf(q.identity)} = Recent(mine)
      <3>1. ASSUME NEW b \in recent \cap AdmittedOf(q.identity)
            PROVE  b.job \in Recent(mine)
        <4>1. b.job \in mine /\ row[b.job].created = b.created
          BY <1>1, <2>0, <2>1, CountedUnderOwner DEF Counted
        <4> QED
          BY <4>1 DEF Recent
      <3>2. ASSUME NEW j \in Recent(mine)
            PROVE  \E b \in recent \cap AdmittedOf(q.identity) : b.job = j
        <4>1. j \in Counted /\ row[j].owner = q.owner /\ row[j].created + Window >= clock
          BY DEF Recent, Counted
        <4>2. PICK b \in admitted : b.job = j
          BY <2>0, <4>1 DEF AdmissionInv
        <4>3. /\ b.identity \in Identities /\ principal[b.identity] # NoOwner
              /\ principal[b.identity] = q.owner /\ b.created = row[j].created
          BY <2>0, <4>1, <4>2 DEF AdmissionInv, TypeOK
        <4>4. q.kind # "idle"
          BY <2>1 DEF Admission
        <4>5. b.identity = q.identity
          BY <2>0, <2>2, <4>3, <4>4 DEF OwnerInv
        <4> QED
          BY <4>1, <4>2, <4>3, <4>5 DEF AdmittedOf
      <3> QED
        BY <3>1, <3>2
    <2> QED
      BY <2>2, <2>3, <2>4, <2>5, TokensAreSpent
  <1>2. Inv /\ [Next]_vars => [\A a \in admitted' \ admitted : InBudget(a)]_vars
    BY <1>1
  <1> QED
    BY <1>2, AdmissionHolds, PTL DEF Spec, AdmittedInBudget

(* An ended job keeps its status and its charge, and a failed one costs    *)
(* its reservation at least.                                               *)
THEOREM EndedOnce == Spec => EndedStaysEnded
  <1> DEFINE Stays(j) ==
        /\ row[j].status \in TerminalStatuses =>
             /\ row'[j].status = row[j].status
             /\ row'[j].measured = row[j].measured
        /\ row'[j].status = "failed" => Charge(row'[j]) >= Reserved
  <1>1. ASSUME Inv, [Next]_vars, NEW j \in held \cup usage
        PROVE  Stays(j)
    <2>1. RowStep(j) /\ j \in Counted /\ TypeOK /\ LineageInv /\ ChargeInv
      BY <1>1, StepShape DEF Inv, Counted
    <2>2. CostKept(row'[j])
      BY <2>1, RowKept
    <2>3. row'[j].status = "failed" => Charge(row'[j]) >= Reserved
      BY <2>2, BoundsAssumption DEF CostKept, Charge
    <2> QED
      BY <2>1, <2>3, RowKept
  <1>2. Inv /\ [Next]_vars => [\A j \in held \cup usage : Stays(j)]_vars
    BY <1>1
  <1> QED
    BY <1>2, AdmissionHolds, PTL DEF Spec, EndedStaysEnded

(* No save brings back an earlier revision, drops an answer, or writes a   *)
(* title or a refusal: only a call that sets or clears one changes it.     *)
THEOREM LosesNothing == Spec => NothingLost
  <1> DEFINE Title(j) == row' = [row EXCEPT ![j].title = row'[j].title]
             Refusal(j) == row'[j] = [row[j] EXCEPT !.refusal = row'[j].refusal]
             Keeps(j) == /\ row[j].revision <= row'[j].revision
                         /\ row[j].answers \subseteq row'[j].answers
                         /\ row'[j].title # row[j].title => Title(j)
                         /\ row'[j].refusal # row[j].refusal => Refusal(j)
             KeepsRow(j) == /\ row'[j].revision = row[j].revision
                            /\ row'[j].answers = row[j].answers
                            /\ row'[j].title = row[j].title
                            /\ row'[j].refusal = row[j].refusal
  <1>1. ASSUME TypeOK, LineageInv, [Next]_vars, NEW j \in held \cap held'
        PROVE  Keeps(j)
    <2>0. /\ j \in Jobs /\ row[j] \in Row /\ copy[j] \in Row /\ row[j].revision \in Nat
      BY <1>1 DEF TypeOK, Row
    <2>1. CASE KeepsRow(j)
      BY <2>0, <2>1
    <2>f. ASSUME NEW x, row'[j] = [row[j] EXCEPT !.refusal = x]
          PROVE  Keeps(j)
      <3>1. /\ row'[j].revision = row[j].revision /\ row'[j].answers = row[j].answers
            /\ row'[j].title = row[j].title /\ row'[j].refusal = x
        BY <2>0, <2>f DEF Row
      <3>2. Refusal(j)
        BY <2>f, <3>1
      <3> HIDE DEF Title, Refusal
      <3> QED
        BY <2>0, <3>1, <3>2
    <2>r. ASSUME NEW r \in Requests, NEW c \in Jobs, NEW rec, Reserve(r, c, rec)
          PROVE  Keeps(j)
      <3>1. row'[j] = row[j] \/ row'[j] = [row[j] EXCEPT !.refusal = NoRefusal]
        BY <2>0, <2>r, <1>1 DEF Reserve
      <3>2. row'[j] = row[j] => KeepsRow(j)
        OBVIOUS
      <3> HIDE DEF Keeps, KeepsRow
      <3> QED
        BY <2>1, <2>f, <3>1, <3>2
    <2>2. ASSUME NEW r \in Requests, SaveAnswers(r)
          PROVE  Keeps(j)
      <3> DEFINE q == req[r]
      <3>1. CASE row'[j] = row[j]
        BY <2>1, <3>1
      <3>2. CASE row'[j] # row[j]
        <4>1. /\ j = q.job /\ SaveLands(q) /\ q.kind = "composed"
              /\ row'[j] = [row[j] EXCEPT !.answers  = q.seen.answers \cup q.given,
                                          !.revision = row[j].revision + 1]
          BY <1>1, <2>0, <2>2, <3>2 DEF SaveAnswers, TypeOK
        <4>2. q.seen.answers = row[j].answers
          BY <1>1, <4>1 DEF SaveLands, LineageInv, SeenIsPast
        <4>3. /\ row'[j].answers = q.seen.answers \cup q.given
              /\ row'[j].revision = row[j].revision + 1 /\ row'[j].title = row[j].title
              /\ row'[j].refusal = row[j].refusal
          BY <2>0, <4>1 DEF Row
        <4> QED
          BY <2>0, <4>2, <4>3
      <3> QED
        BY <3>1, <3>2
    <2>3. ASSUME NEW r \in Requests, RequestStep(r)
          PROVE  Keeps(j)
      <3>1. CASE UNCHANGED row
        BY <2>1, <3>1
      <3>2. CASE Create(r)
        BY <3>1, <3>2 DEF Create
      <3> HIDE DEF Keeps
      <3> QED
        BY <2>3, <2>r, <2>2, <3>1, <3>2
           DEF RequestStep, Submit, ReserveNew, Compose, ReserveChild
    <2>4. ASSUME NEW k \in Jobs, NEW t \in Titles, SetTitle(k, t)
          PROVE  Keeps(j)
      <3>1. row' = [row EXCEPT ![k] = [row[k] EXCEPT !.title = t]]
        BY <2>4 DEF SetTitle
      <3>2. CASE j = k
        <4>1. row'[j] = [row[j] EXCEPT !.title = t]
          BY <1>1, <2>0, <3>1, <3>2 DEF TypeOK
        <4>2. /\ row'[j].revision = row[j].revision /\ row'[j].answers = row[j].answers
              /\ row'[j].title = t /\ row'[j].refusal = row[j].refusal
          BY <2>0, <4>1 DEF Row
        <4>3. row' = [row EXCEPT ![j].title = t]
          BY <2>4, <3>2 DEF SetTitle
        <4>4. Title(j)
          BY <4>2, <4>3, Zenon
        <4> QED
          BY <2>0, <4>2, <4>4
      <3>3. CASE j # k
        BY <1>1, <2>0, <2>1, <3>1, <3>3 DEF TypeOK
      <3> QED
        BY <3>2, <3>3
    <2>5. ASSUME NEW k \in Jobs, NEW x \in Refusals, SetContinueRefusal(k, x)
          PROVE  Keeps(j)
      <3>1. row'[j] = IF j = k THEN [row[j] EXCEPT !.refusal = x] ELSE row[j]
        BY <1>1, <2>0, <2>5 DEF SetContinueRefusal, TypeOK
      <3>2. row'[j] = row[j] => KeepsRow(j)
        OBVIOUS
      <3> HIDE DEF Keeps, KeepsRow
      <3> QED
        BY <2>1, <2>f, <3>1, <3>2
    <2>6. ASSUME NEW k \in Jobs, Delete(k)
          PROVE  KeepsRow(j)
      BY <1>1, <2>0, <2>6 DEF Delete, TypeOK
    <2>7. ASSUME NEW k \in Jobs, WorkerStep(k)
          PROVE  KeepsRow(j)
      <3>1. CASE row'[j] = row[j]
        BY <3>1
      <3>2. CASE row'[j] = Written(j) /\ pc[j] \in {"fetched", "running", "ending"}
        <4>1. copy[j].revision = row[j].revision /\ copy[j].answers = row[j].answers
          BY <1>1, <2>0, <3>2 DEF LineageInv, CopyMatches
        <4>2. /\ Written(j).revision = copy[j].revision /\ Written(j).answers = copy[j].answers
              /\ Written(j).title = row[j].title /\ Written(j).refusal = row[j].refusal
          BY <2>0 DEF Written, Row
        <4> QED
          BY <3>2, <4>1, <4>2
      <3>3. ASSUME NEW settled,
                   row'[j] = [row[j] EXCEPT !.status = "failed", !.measured = settled]
            PROVE  KeepsRow(j)
        BY <2>0, <3>3 DEF Row
      <3>4. CASE row' = [row EXCEPT ![k] = Written(k)] /\ pc[k] \in {"fetched", "running", "ending"}
        BY <1>1, <2>0, <3>1, <3>2, <3>4 DEF TypeOK
      <3>5. CASE Save(k) \/ SaveRaises(k)
        BY <3>1, <3>4, <3>5 DEF Save, SaveRaises
      <3>6. CASE FallBack(k)
        <4>1. \/ row'[j] = row[j]
              \/ \E settled : row'[j] = [row[j] EXCEPT !.status = "failed", !.measured = settled]
          BY <1>1, <2>0, <3>6 DEF FallBack, TypeOK
        <4> QED
          BY <3>1, <3>3, <4>1
      <3>7. CASE Fetch(k) \/ FetchRaises(k) \/ FallBackRaises(k) \/ EndRun(k)
        BY <3>1, <3>7 DEF Fetch, FetchRaises, FallBackRaises, EndRun
      <3> QED
        BY <2>7, <3>5, <3>6, <3>7 DEF WorkerStep
    <2>8. CASE Restart
      <3>1. row'[j] = row[j] \/ row'[j] = [row[j] EXCEPT !.status = "failed"]
        BY <2>0, <2>8 DEF Restart
      <3> QED
        BY <2>0, <2>1, <3>1 DEF Row
    <2>9. CASE Tick \/ UNCHANGED vars
      BY <2>1, <2>9 DEF Tick, vars
    <2> HIDE DEF Keeps, KeepsRow
    <2>10. CASE \E k \in Jobs : OwnerStep(k)
      BY <2>1, <2>4, <2>5, <2>6, <2>10 DEF OwnerStep
    <2> QED
      BY <1>1, <2>1, <2>3, <2>7, <2>8, <2>9, <2>10 DEF Next
  <1>2. TypeOK /\ LineageInv /\ [Next]_vars => [\A j \in held \cap held' : Keeps(j)]_vars
    BY <1>1
  <1> QED
    BY <1>2, TypeCorrect, LineageHolds, PTL DEF Spec, NothingLost
=============================================================================
