-------------------------- MODULE Workspace_proofs --------------------------
(***************************************************************************)
(* Proofs about the workspace of the web app, for any cap, any requests    *)
(* and any number of jobs.                                                 *)
(***************************************************************************)
EXTENDS Workspace, TLAPS, FiniteSetTheorems, WellFoundedInduction

(* A task that runs has a running job, one that continues an ended one,    *)
(* and what runs is held: only what ended is deleted.                      *)
JobInv ==
  \A j \in Jobs :
    /\ task[j] = "run" => job[j].status = "running"
    /\ task[j] = "continue" => Ended(j)
    /\ job[j].status = "running" => job[j].held
    /\ j > minted => job[j] = NoJob

(* What waits for nothing that asks: if it paused to ask, a child of it    *)
(* has ended with its answers read.                                        *)
Unwanted(j) ==
  /\ Ended(j)
  /\ job[j].mode = "ask" /\ job[j].status = "paused" =>
       \E c \in Lockers(j) : Ended(c)

(* What an actor may have chosen to delete: a job that ended and waits for *)
(* nothing, or whose Resumed Job failed between the two reads.             *)
Chosen(a, j) == Ended(j) /\ (Unwanted(j) \/ j \in room[a].overtaken)

(* What an actor that makes room relies on since it listed the jobs.       *)
RoomOk(a) ==
  /\ \A j \in room[a].asking : Ended(j)
  /\ \A j \in room[a].removable : Chosen(a, j)
  /\ room[a].locker # None =>
       /\ room[a].step = "asking" /\ room[a].asking # {}
       /\ job[room[a].locker].parent = Min(room[a].asking)
       /\ job[room[a].locker].status # "none"
  /\ room[a].step = "deleting" => room[a].removable # {}
  /\ a \in Jobs /\ room[a].step # "idle" => Ended(a)
  /\ a \in Jobs /\ room[a].step = "asking" => room[a].answering = a
  /\ a \in Jobs /\ room[a].step = "deleting" /\ job[a].status = "paused" =>
       \E c \in Jobs : job[c].parent = a

RoomInv == \A a \in Actors : RoomOk(a)

(* The inductive invariant.                                                *)
Inv == TypeOK /\ JobInv /\ RoomInv
-----------------------------------------------------------------------------
(***************************************************************************)
(* Operators                                                               *)
(***************************************************************************)

Room == [step : {"idle", "asking", "deleting"}, answering : Jobs \cup {None},
         held : Nat, asking : SUBSET Jobs, locker : Jobs \cup {None},
         removable : SUBSET Jobs, saved : SUBSET Jobs, overtaken : SUBSET Jobs]

(* The jobs are numbered by age, and no number is that of no job.          *)
LEMMA JobsAreNumbers == Jobs \in SUBSET Nat /\ None \notin Jobs
  BY WorkspaceAssumption DEF Jobs, None

(* The oldest of some jobs is one of them.                                 *)
LEMMA OldestIsThere ==
  ASSUME NEW S \in SUBSET Jobs, S # {}
  PROVE  Min(S) \in S
  <1> DEFINE R == {ss \in Nat \X Nat : ss[1] < ss[2]}
  <1>1. \E n \in S : \A m \in S : n <= m
    <2>1. OpToRel(<, Nat) = R
      BY DEF OpToRel
    <2>2. IsWellFoundedOn(R, Nat)
      BY <2>1, NatLessThanWellFounded
    <2>3. S \subseteq Nat
      BY JobsAreNumbers
    <2>4. \A m, n \in Nat : m < n => <<m, n>> \in R
      OBVIOUS
    <2> HIDE DEF R
    <2>5. PICK n \in S : \A m \in S : <<m, n>> \notin R
      BY <2>2, <2>3, WFMin
    <2>6. \A m \in S : n <= m
      <3>1. \A m \in S : m \in Nat /\ n \in Nat /\ ~ (m < n)
        BY <2>3, <2>4, <2>5
      <3> QED
        BY <3>1
    <2> QED
      BY <2>6
  <1> QED
    BY <1>1 DEF Min

(* An actor that makes no room has a place.                                *)
LEMMA NoRoomType == NoRoom \in Room
  BY DEF NoRoom, Room

(* An actor that has deleted what it chose stands where it began; one that *)
(* has not, deletes on.                                                    *)
LEMMA LeavingType ==
  ASSUME NEW a, NEW rest \in SUBSET Jobs
  PROVE  /\ Leaving(a, rest) \in Room
         /\ Leaving(a, rest).asking = {} /\ Leaving(a, rest).removable = rest
         /\ Leaving(a, rest).locker = None
         /\ Leaving(a, rest).overtaken = room[a].overtaken \cap rest
         /\ Leaving(a, rest).step = IF rest = {} THEN "idle" ELSE "deleting"
  <1>1. CASE rest = {}
    BY <1>1, NoRoomType DEF Leaving, NoRoom
  <1>2. CASE rest # {}
    <2> DEFINE kept      == room[a].saved \cap rest
               overtaken == room[a].overtaken \cap rest
    <2>1. Leaving(a, rest) = [NoRoom EXCEPT !.step = "deleting", !.removable = rest,
                                            !.saved = kept, !.overtaken = overtaken]
      BY <1>2 DEF Leaving
    <2>2. kept \in SUBSET Jobs /\ overtaken \in SUBSET Jobs
      OBVIOUS
    <2>3. overtaken = room[a].overtaken \cap rest
      OBVIOUS
    <2> HIDE DEF kept, overtaken
    <2>4. Leaving(a, rest) = [step |-> "deleting", answering |-> None, held |-> 0,
                              asking |-> {}, locker |-> None, removable |-> rest,
                              saved |-> kept, overtaken |-> overtaken]
      BY <2>1 DEF NoRoom
    <2> QED
      BY <1>2, <2>2, <2>3, <2>4 DEF Room
  <1> QED
    BY <1>1, <1>2

(* How many jobs are held is a number.                                     *)
LEMMA HeldType == Cardinality(Held) \in Nat
  <1>1. IsFiniteSet(Jobs)
    BY WorkspaceAssumption, FS_Interval DEF Jobs
  <1>2. IsFiniteSet(Held)
    BY <1>1, FS_Subset DEF Held
  <1> QED
    BY <1>2, FS_CardinalityType

-----------------------------------------------------------------------------
(***************************************************************************)
(* What each step does                                                     *)
(***************************************************************************)

(* An actor that starts to make room has listed what ended.                *)
LEMMA EnterDoes ==
  ASSUME TypeOK, NEW a \in Actors, NEW answering \in Jobs \cup {None},
         Enter(a, answering)
  PROVE  /\ room' \in [Actors -> Room]
         /\ room'[a].step = "asking" /\ room'[a].answering = answering
         /\ room'[a].asking \subseteq {j \in Jobs : Ended(j)}
         /\ room'[a].removable = {} /\ room'[a].locker = None
         /\ \A b \in Actors \ {a} : room'[b] = room[b]
  <1> DEFINE listed == {j \in Held : Ended(j) /\ j # answering}
             held   == Cardinality(Held)
             new    == [NoRoom EXCEPT !.step = "asking", !.answering = answering,
                                      !.held = held, !.asking = listed]
  <1>1. listed \subseteq {j \in Jobs : Ended(j)} /\ listed \in SUBSET Jobs
    BY DEF Held
  <1>2. room' = [room EXCEPT ![a] = new] /\ room \in [Actors -> Room]
    BY DEF Enter, TypeOK, Room
  <1>3. held \in Nat
    BY HeldType
  <1>4. NoRoom.locker = None /\ NoRoom.removable = {}
    BY DEF NoRoom
  <1> HIDE DEF listed, held
  <1>5. new \in Room
    BY <1>1, <1>3, NoRoomType DEF Room
  <1>6. /\ new.step = "asking" /\ new.answering = answering
        /\ new.asking = listed /\ new.removable = {} /\ new.locker = None
    BY <1>4, NoRoomType DEF Room
  <1> HIDE DEF new
  <1> QED
    BY <1>1, <1>2, <1>5, <1>6

(* What an actor found of a job takes it from those it asks of, and to     *)
(* those it may remove, unless it waits.                                   *)
LEMMA FoundDoes ==
  ASSUME TypeOK, NEW a \in Actors, NEW j \in Jobs,
         NEW waits \in BOOLEAN, NEW overtaken \in BOOLEAN
  PROVE  LET found == Found(a, j, waits, overtaken) IN
         /\ found \in Room
         /\ found.step = room[a].step /\ found.answering = room[a].answering
         /\ found.asking = room[a].asking \ {j} /\ found.locker = None
         /\ found.removable = room[a].removable \cup IF waits THEN {} ELSE {j}
         /\ found.overtaken = room[a].overtaken \cup IF overtaken THEN {j} ELSE {}
  <1> DEFINE asking    == room[a].asking \ {j}
             removable == IF waits THEN room[a].removable ELSE room[a].removable \cup {j}
             saved     == IF waits THEN room[a].saved \ {j} ELSE room[a].saved
             over      == IF overtaken THEN room[a].overtaken \cup {j} ELSE room[a].overtaken
  <1>1. room[a] \in Room
    BY DEF TypeOK, Room
  <1>2. /\ asking \in SUBSET Jobs /\ removable \in SUBSET Jobs
        /\ saved \in SUBSET Jobs /\ over \in SUBSET Jobs
    BY <1>1 DEF Room
  <1>3. /\ removable = room[a].removable \cup IF waits THEN {} ELSE {j}
        /\ over = room[a].overtaken \cup IF overtaken THEN {j} ELSE {}
    OBVIOUS
  <1>4. Found(a, j, waits, overtaken) =
          [room[a] EXCEPT !.asking = asking, !.locker = None, !.removable = removable,
                          !.saved = saved, !.overtaken = over]
    BY DEF Found
  <1>5. asking = room[a].asking \ {j}
    OBVIOUS
  <1> HIDE DEF asking, removable, saved, over
  <1> QED
    BY <1>1, <1>2, <1>3, <1>4, <1>5 DEF Room

(* The first read of a job tells whether it waits, or finds the Resumed    *)
(* Job to read next.                                                       *)
LEMMA AskDoes ==
  ASSUME TypeOK, NEW a \in Actors, Ask(a)
  PROVE  LET j == Min(room[a].asking) IN
         /\ j \in Jobs /\ j \in room[a].asking /\ room[a].step = "asking"
         /\ \/ /\ ~AsksOfChild(j)
               /\ room' = [room EXCEPT ![a] = Found(a, j, WaitsUnlocked(j), FALSE)]
            \/ \E c \in Lockers(j) :
                 room' = [room EXCEPT ![a] = [room[a] EXCEPT !.locker = c]]
  <1>1. room[a].asking \in SUBSET Jobs /\ room[a].asking # {}
    BY DEF TypeOK, Ask
  <1>2. Min(room[a].asking) \in room[a].asking
    BY <1>1, OldestIsThere
  <1> QED
    BY <1>1, <1>2 DEF Ask, TypeOK

(* The second read is of a child of the job asked of.                      *)
LEMMA AskChildDoes ==
  ASSUME Inv, NEW a \in Actors, AskChild(a)
  PROVE  LET j == Min(room[a].asking)
             c == room[a].locker
         IN  /\ j \in Jobs /\ j \in room[a].asking /\ room[a].step = "asking"
             /\ c \in Jobs /\ job[c].parent = j /\ job[c].status # "none"
             /\ room' = [room EXCEPT ![a] =
                  Found(a, j, job[c].held /\ ~Ended(c), job[c].status = "failed")]
  <1>1. /\ room[a].locker # None /\ room[a].locker \in Jobs \cup {None}
        /\ room[a].asking \in SUBSET Jobs /\ RoomOk(a)
    BY DEF Inv, RoomInv, TypeOK, AskChild
  <1>2. room[a].step = "asking" /\ room[a].asking # {}
    BY <1>1 DEF RoomOk
  <1>3. Min(room[a].asking) \in room[a].asking
    BY <1>1, <1>2, OldestIsThere
  <1> QED
    BY <1>1, <1>2, <1>3 DEF AskChild, RoomOk

(* A refusal leaves a reason, stored or lost, where the task of a held job *)
(* was refused.                                                            *)
LEMMA RefuseDoes ==
  ASSUME TypeOK, NEW a \in Actors, Refuse(a)
  PROVE  /\ room' = [room EXCEPT ![a] = NoRoom] /\ minted' = minted /\ sweep' = sweep
         /\ task' \in {task, [task EXCEPT ![a] = "none"]}
         /\ job' \in [Jobs -> Job]
         /\ \A j \in Jobs :
              /\ job'[j].status = job[j].status /\ job'[j].held = job[j].held
              /\ job'[j].mode = job[j].mode /\ job'[j].parent = job[j].parent
              /\ job'[j] = job[j] \/ (j = a /\ job[j].held /\ job'[j].reason # "none")
              /\ j = a /\ job[j].held => job'[j].reason # "none"
  <1>1. job \in [Jobs -> Job]
    BY DEF TypeOK
  <1>2. /\ room' = [room EXCEPT ![a] = NoRoom] /\ minted' = minted /\ sweep' = sweep
        /\ task' \in {task, [task EXCEPT ![a] = "none"]}
    BY DEF Refuse
  <1>3. CASE a \in Jobs /\ job[a].held
    <2>1. PICK kept \in {"stored", "lost"} :
            job' = [job EXCEPT ![a] = [job[a] EXCEPT !.reason = kept]]
      BY <1>3 DEF Refuse
    <2> DEFINE new == [job[a] EXCEPT !.reason = kept]
    <2>2. /\ new \in Job /\ new.reason # "none" /\ new.status = job[a].status
          /\ new.held = job[a].held /\ new.mode = job[a].mode /\ new.parent = job[a].parent
      BY <1>1, <1>3 DEF Job
    <2>3. job' = [job EXCEPT ![a] = new]
      BY <2>1
    <2> HIDE DEF new
    <2> QED
      BY <1>1, <1>2, <1>3, <2>2, <2>3
  <1>4. CASE ~(a \in Jobs /\ job[a].held)
    BY <1>1, <1>2, <1>4 DEF Refuse
  <1> QED
    BY <1>3, <1>4

(* A delete takes an ended job out of those held, and keeps its end.       *)
LEMMA DeletedDoes ==
  ASSUME TypeOK, NEW k \in Jobs, Deleted(k)
  PROVE  /\ job' \in [Jobs -> Job]
         /\ \A j \in Jobs :
              /\ job'[j].status = job[j].status /\ job'[j].parent = job[j].parent
              /\ j # k => job'[j] = job[j]
         /\ ~job'[k].held /\ job'[k].mode = "never"
  <1> DEFINE new == [job[k] EXCEPT !.held = FALSE, !.reason = "none", !.mode = "never"]
  <1>1. job \in [Jobs -> Job]
    BY DEF TypeOK
  <1>2. job' = [job EXCEPT ![k] = new]
    BY <1>1 DEF Deleted, Job
  <1>3. /\ new \in Job /\ new.held = FALSE /\ new.mode = "never"
        /\ new.status = job[k].status /\ new.parent = job[k].parent
    BY <1>1 DEF Job
  <1> HIDE DEF new
  <1> QED
    BY <1>1, <1>2, <1>3

(* An admission adds one running job, and leaves the jobs to delete.       *)
LEMMA AdmittedDoes ==
  ASSUME Inv, NEW a \in Actors, NEW mode \in {"ask", "continue", "never"},
         Admitted(a, mode)
  PROVE  LET child == minted + 1 IN
         /\ child \in Jobs /\ job[child] = NoJob /\ room[a].step = "asking"
         /\ minted' = child /\ sweep' = sweep
         /\ job' \in [Jobs -> Job]
         /\ job'[child].status = "running" /\ job'[child].held
         /\ job'[child].parent = room[a].answering
         /\ \A j \in Jobs \ {child} :
              /\ job'[j].status = job[j].status /\ job'[j].held = job[j].held
              /\ job'[j].mode = job[j].mode /\ job'[j].parent = job[j].parent
              /\ job[j] = NoJob => job'[j] = NoJob
         /\ \E rest \in SUBSET room[a].removable :
              /\ room' = [room EXCEPT ![a] = Leaving(a, rest)]
              /\ task' = [TaskLeaving(a, rest) EXCEPT ![child] = "run"]
  <1> DEFINE parent == room[a].answering
             child  == minted + 1
             rest   == Oldest(room[a].removable, Excess(a))
             new    == [status |-> "running", held |-> TRUE, mode |-> mode,
                        parent |-> parent, reason |-> "none"]
  <1>1. /\ job \in [Jobs -> Job] /\ minted \in Nat /\ minted < MaxMinted
        /\ parent \in Jobs \cup {None} /\ room[a].step = "asking"
    BY WorkspaceAssumption DEF Inv, TypeOK, Admitted
  <1>2. child \in Jobs /\ child > minted
    BY <1>1, WorkspaceAssumption DEF Jobs
  <1>3. job[child] = NoJob
    BY <1>2 DEF Inv, JobInv
  <1>4. minted' = child /\ sweep' = sweep
    BY DEF Admitted
  <1>5. new \in Job
    BY <1>1 DEF Job
  <1>6. rest \in SUBSET room[a].removable
    BY DEF Oldest
  <1>7. /\ room' = [room EXCEPT ![a] = Leaving(a, rest)]
        /\ task' = [TaskLeaving(a, rest) EXCEPT ![child] = "run"]
    BY DEF Admitted
  <1>8. /\ job'[child] = new
        /\ \A j \in Jobs \ {child} :
             job'[j] = IF j = parent THEN [job[j] EXCEPT !.reason = "none"] ELSE job[j]
        /\ job' = [j \in Jobs |-> job'[j]]
    BY <1>2 DEF Admitted
  <1>9. /\ new.status = "running" /\ new.held /\ new.parent = parent
    OBVIOUS
  <1> HIDE DEF new, child, rest
  <1>10. ASSUME NEW j \in Jobs \ {child}
         PROVE  /\ job'[j] \in Job
                /\ job'[j].status = job[j].status /\ job'[j].held = job[j].held
                /\ job'[j].mode = job[j].mode /\ job'[j].parent = job[j].parent
                /\ job[j] = NoJob => job'[j] = NoJob
    <2>1. job[j] \in Job
      BY <1>1
    <2>2. CASE j = parent
      <3>1. job'[j] = [job[j] EXCEPT !.reason = "none"]
        BY <1>8, <2>2
      <3>2. job[j] = NoJob => job'[j] = NoJob
        <4>1. NoJob \in Job /\ NoJob.reason = "none"
          BY DEF NoJob, Job
        <4>2. ASSUME NEW x \in Job, x.reason = "none"
              PROVE  [x EXCEPT !.reason = "none"] = x
          BY <4>2 DEF Job
        <4> QED
          BY <3>1, <4>1, <4>2
      <3> QED
        BY <2>1, <3>1, <3>2 DEF Job
    <2>3. CASE j # parent
      BY <1>8, <2>1, <2>3
    <2> QED
      BY <2>2, <2>3
  <1>11. job' \in [Jobs -> Job]
    BY <1>5, <1>8, <1>10
  <1> QED
    BY <1>1, <1>2, <1>3, <1>4, <1>6, <1>7, <1>8, <1>9, <1>10, <1>11 DEF child

(* A continue that starts nothing leaves the jobs it chose to delete.      *)
LEMMA StartsNothingDoes ==
  ASSUME NEW a \in Actors, StartsNothing(a)
  PROVE  /\ a \in Jobs /\ job[a].status # "paused" /\ room[a].step = "asking"
         /\ job' = job /\ minted' = minted /\ sweep' = sweep
         /\ \E rest \in SUBSET room[a].removable :
              /\ room' = [room EXCEPT ![a] = Leaving(a, rest)]
              /\ task' = TaskLeaving(a, rest)
  <1>1. Oldest(room[a].removable, Excess(a)) \in SUBSET room[a].removable
    BY DEF Oldest
  <1> QED
    BY <1>1 DEF StartsNothing

(* What an actor deletes is one of the jobs it chose, if the store lets it *)
(* go; then one is left less.                                              *)
LEMMA DeleteChosenDoes ==
  ASSUME Inv, NEW a \in Actors, DeleteChosen(a)
  PROVE  \E k \in room[a].removable :
           LET rest == room[a].removable \ {k} IN
           /\ k \in Jobs /\ room[a].step = "deleting"
           /\ \/ job' = job
              \/ Deleted(k) /\ Ended(k) /\ job[k].held
           /\ room' = [room EXCEPT ![a] = Leaving(a, rest)]
           /\ task' = TaskLeaving(a, rest)
           /\ minted' = minted /\ sweep' = sweep
  <1>1. room[a].removable \in SUBSET Jobs /\ room[a].step = "deleting"
    BY DEF Inv, TypeOK, DeleteChosen
  <1>2. room[a].removable # {}
    BY <1>1 DEF Inv, RoomInv, RoomOk
  <1> DEFINE k == Min(room[a].removable)
  <1>3. k \in room[a].removable
    BY <1>1, <1>2, OldestIsThere
  <1> QED
    BY <1>1, <1>3 DEF DeleteChosen, Deletable

-----------------------------------------------------------------------------
(***************************************************************************)
(* Types                                                                   *)
(***************************************************************************)
(* An actor that leaves ends its own task at most, and only when nothing   *)
(* is left to delete.                                                      *)
LEMMA TaskLeavingType ==
  ASSUME TypeOK, NEW a, NEW rest
  PROVE  /\ TaskLeaving(a, rest) \in [Jobs -> {"none", "run", "continue"}]
         /\ \A j \in Jobs : TaskLeaving(a, rest)[j] \in {task[j], "none"}
         /\ \A j \in Jobs : TaskLeaving(a, rest)[j] # task[j] => j = a /\ rest = {}
  BY DEF TaskLeaving, TypeOK

(* Every step keeps the types.                                             *)
LEMMA NextType ==
  ASSUME Inv, [Next]_vars
  PROVE  TypeOK'
  <1>0. /\ TypeOK /\ job \in [Jobs -> Job] /\ room \in [Actors -> Room] /\ minted \in 0..MaxMinted
        /\ task \in [Jobs -> {"none", "run", "continue"}]
        /\ sweep \in [job : Jobs \cup {None}, saved : BOOLEAN]
        /\ Requests \subseteq Actors /\ Jobs \subseteq Actors
    BY DEF Inv, TypeOK, Room, Actors
  <1> USE DEF TypeOK
  <1>e. ASSUME NEW a \in Actors, NEW answering \in Jobs \cup {None}, Enter(a, answering),
               UNCHANGED <<job, minted, task, sweep>>
        PROVE  TypeOK'
    BY <1>0, <1>e, EnterDoes DEF Room
  <1>1. ASSUME NEW r \in Requests, Submit(r)
        PROVE  TypeOK'
    BY <1>0, <1>1, <1>e DEF Submit
  <1>2. ASSUME NEW r \in Requests, NEW p \in Jobs, Answer(r, p)
        PROVE  TypeOK'
    BY <1>0, <1>2, <1>e DEF Answer
  <1>3. ASSUME NEW j \in Jobs, Continue(j)
        PROVE  TypeOK'
    BY <1>0, <1>3, <1>e DEF Continue
  <1>4. ASSUME NEW j \in Jobs, Save(j)
        PROVE  TypeOK'
    <2>1. room' \in [Actors -> Room]
      <3>1. ASSUME NEW a \in Actors
            PROVE  [room[a] EXCEPT !.saved = room[a].saved \cup {j}] \in Room
        <4> DEFINE saved == room[a].saved \cup {j}
        <4>1. room[a] \in Room /\ saved \in SUBSET Jobs
          BY <1>0 DEF Room
        <4> HIDE DEF saved
        <4>2. [room[a] EXCEPT !.saved = saved] \in Room
          BY <4>1 DEF Room
        <4> QED
          BY <4>2 DEF saved
      <3>2. ASSUME NEW a \in Actors
            PROVE  room'[a] \in {room[a], [room[a] EXCEPT !.saved = room[a].saved \cup {j}]}
        <4>1. room'[a] = IF j \in room[a].asking \cup room[a].removable
                         THEN [room[a] EXCEPT !.saved = room[a].saved \cup {j}] ELSE room[a]
          BY <1>4 DEF Save
        <4> QED
          BY <4>1
      <3>3. room' = [a \in Actors |-> room'[a]]
        BY <1>4 DEF Save
      <3>4. \A a \in Actors : room[a] \in Room
        BY <1>0
      <3>5. \A a \in Actors : room'[a] \in Room
        BY <3>1, <3>2, <3>4
      <3> HIDE DEF TypeOK
      <3> QED
        BY <3>3, <3>5
    <2> QED
      BY <1>0, <1>4, <2>1 DEF Save, Room
  <1>5. ASSUME NEW j \in Jobs, ListExpired(j)
        PROVE  TypeOK'
    BY <1>0, <1>5 DEF ListExpired
  <1>6. ASSUME NEW j \in Jobs, NEW status \in {"paused", "reported", "failed"}, EndRun(j, status)
        PROVE  TypeOK'
    <2>1. [job[j] EXCEPT !.status = status] \in Job
      BY <1>0 DEF Job
    <2>2. job' = [job EXCEPT ![j] = [job[j] EXCEPT !.status = status]]
      BY <1>6 DEF EndRun
    <2>3. job' \in [Jobs -> Job]
      BY <1>0, <2>1, <2>2
    <2> QED
      BY <1>0, <1>6, <2>3 DEF EndRun
  <1>7. ASSUME NEW a \in Actors, Ask(a) \/ AskChild(a)
        PROVE  TypeOK'
    <2> DEFINE j == Min(room[a].asking)
    <2>1. CASE Ask(a)
      <3>1. j \in Jobs /\ Found(a, j, WaitsUnlocked(j), FALSE) \in Room
        BY <1>0, <2>1, AskDoes, FoundDoes DEF WaitsUnlocked
      <3>2. \A c \in Jobs : [room[a] EXCEPT !.locker = c] \in Room
        <4>1. room[a] \in Room
          BY <1>0
        <4> QED
          BY <4>1 DEF Room
      <3>3. room' \in [Actors -> Room]
        <4>1. \/ room' = [room EXCEPT ![a] = Found(a, j, WaitsUnlocked(j), FALSE)]
              \/ \E c \in Jobs : room' = [room EXCEPT ![a] = [room[a] EXCEPT !.locker = c]]
          <5>1. Lockers(j) \subseteq Jobs
            BY DEF Lockers
          <5> HIDE DEF TypeOK
          <5> QED
            BY <1>0, <2>1, <5>1, AskDoes
        <4>2. room \in [Actors -> Room]
          BY <1>0
        <4> HIDE DEF j, TypeOK
        <4> QED
          BY <3>1, <3>2, <4>1, <4>2
      <3> QED
        BY <1>0, <2>1, <3>3 DEF Ask, Room
    <2>2. CASE AskChild(a)
      <3> DEFINE c == room[a].locker
      <3>1. /\ j \in Jobs
            /\ room' = [room EXCEPT ![a] =
                  Found(a, j, job[c].held /\ ~Ended(c), job[c].status = "failed")]
        BY <2>2, AskChildDoes
      <3>2. Found(a, j, job[c].held /\ ~Ended(c), job[c].status = "failed") \in Room
        <4>1. /\ (job[c].held /\ ~Ended(c)) \in BOOLEAN
              /\ (job[c].status = "failed") \in BOOLEAN
          OBVIOUS
        <4> HIDE DEF c, j
        <4> QED
          BY <1>0, <3>1, <4>1, FoundDoes
      <3>3. room' \in [Actors -> Room]
        BY <1>0, <3>1, <3>2
      <3> QED
        BY <1>0, <2>2, <3>3 DEF AskChild, Room
    <2> QED
      BY <1>7, <2>1, <2>2
  <1>8. ASSUME NEW a \in Actors, Refuse(a)
        PROVE  TypeOK'
    <2>1. /\ room' = [room EXCEPT ![a] = NoRoom] /\ minted' = minted /\ sweep' = sweep
          /\ task' \in {task, [task EXCEPT ![a] = "none"]} /\ job' \in [Jobs -> Job]
      BY <1>0, <1>8, RefuseDoes
    <2>2. room' \in [Actors -> Room]
      BY <1>0, <2>1, NoRoomType
    <2>3. task' \in [Jobs -> {"none", "run", "continue"}]
      BY <1>0, <2>1
    <2> QED
      BY <1>0, <2>1, <2>2, <2>3 DEF Room
  <1>9. ASSUME NEW a \in Actors, NEW mode \in {"ask", "continue", "never"}, Admitted(a, mode)
        PROVE  TypeOK'
    <2>1. PICK rest \in SUBSET room[a].removable :
            /\ room' = [room EXCEPT ![a] = Leaving(a, rest)]
            /\ task' = [TaskLeaving(a, rest) EXCEPT ![minted + 1] = "run"]
      BY <1>9, AdmittedDoes
    <2>2. rest \in SUBSET Jobs
      BY <1>0, <2>1 DEF Room
    <2>3. room' \in [Actors -> Room] /\ task' \in [Jobs -> {"none", "run", "continue"}]
      BY <1>0, <2>1, <2>2, LeavingType, TaskLeavingType
    <2>4. minted + 1 \in Jobs /\ minted' = minted + 1 /\ job' \in [Jobs -> Job] /\ sweep' = sweep
      BY <1>9, AdmittedDoes
    <2>5. minted' \in 0..MaxMinted
      BY <1>0, <2>4, WorkspaceAssumption DEF Jobs
    <2> QED
      BY <1>0, <2>3, <2>4, <2>5 DEF Room
  <1>10. ASSUME NEW a \in Actors, DeleteChosen(a)
         PROVE  TypeOK'
    <2>1. PICK k \in room[a].removable :
            LET rest == room[a].removable \ {k} IN
            /\ k \in Jobs /\ (job' = job \/ Deleted(k))
            /\ room' = [room EXCEPT ![a] = Leaving(a, rest)]
            /\ task' = TaskLeaving(a, rest)
            /\ minted' = minted /\ sweep' = sweep
      BY <1>10, DeleteChosenDoes
    <2> DEFINE rest == room[a].removable \ {k}
    <2>2. rest \in SUBSET Jobs
      BY <1>0 DEF Room
    <2>3. Leaving(a, rest) \in Room
      BY <2>2, LeavingType
    <2>4. job' \in [Jobs -> Job]
      BY <1>0, <2>1, DeletedDoes
    <2> HIDE DEF rest
    <2> QED
      BY <1>0, <2>1, <2>3, <2>4, TaskLeavingType DEF rest, Room
  <1>11. CASE DeleteExpired
    <2>1. job' \in [Jobs -> Job]
      <3>1. CASE job' = job
        BY <1>0, <3>1
      <3>2. CASE Deletable(sweep.job, sweep.saved) /\ Deleted(sweep.job)
        <4>1. \A k \in Jobs : Deleted(k) => job' \in [Jobs -> Job]
          BY <1>0, DeletedDoes
        <4>2. sweep.job \in Jobs \cup {None}
          BY <1>0
        <4>3. CASE sweep.job \in Jobs
          BY <3>2, <4>1, <4>3
        <4>4. CASE sweep.job \notin Jobs
          BY <1>0, <3>2, <4>4 DEF Deleted
        <4> QED
          BY <4>3, <4>4
      <3> QED
        BY <1>11, <3>1, <3>2 DEF DeleteExpired
    <2> QED
      BY <1>0, <1>11, <2>1 DEF DeleteExpired, NoSweep
  <1>12. CASE Restart
    <2>1. job' \in [Jobs -> Job]
      <3>1. \A j \in Jobs : [job[j] EXCEPT !.status = "failed"] \in Job
        BY <1>0 DEF Job
      <3> QED
        BY <1>0, <1>12, <3>1 DEF Restart
    <2> QED
      BY <1>0, <1>12, <2>1, NoRoomType DEF Restart, NoSweep, Room
  <1>13. ASSUME NEW a \in Actors, StartsNothing(a)
         PROVE  TypeOK'
    <2>1. PICK rest \in SUBSET room[a].removable :
            /\ room' = [room EXCEPT ![a] = Leaving(a, rest)]
            /\ task' = TaskLeaving(a, rest)
      BY <1>13, StartsNothingDoes
    <2>2. rest \in SUBSET Jobs
      BY <1>0, <2>1 DEF Room
    <2>3. room' \in [Actors -> Room] /\ task' \in [Jobs -> {"none", "run", "continue"}]
      BY <1>0, <2>1, <2>2, LeavingType, TaskLeavingType
    <2> QED
      BY <1>0, <1>13, <2>3, StartsNothingDoes DEF Room
  <1>14. CASE UNCHANGED vars
    BY <1>0, <1>14 DEF vars
  <1> QED
    BY <1>1, <1>2, <1>3, <1>4, <1>5, <1>6, <1>7, <1>8, <1>9, <1>10, <1>11, <1>12, <1>13, <1>14
       DEF Next, RoomStep, WorkspaceFull, Raises

-----------------------------------------------------------------------------
(***************************************************************************)
(* The jobs                                                                *)
(***************************************************************************)

(* What ended stays as it ended, and a job keeps its parent.               *)
Stands(j) ==
  /\ Ended(j) => /\ job'[j].status = job[j].status
                 /\ job'[j].mode \in {job[j].mode, "never"}
  /\ job[j].parent # None => job'[j].parent = job[j].parent
  /\ job[j].status # "none" => job'[j].status # "none"

(* A step that ends no run and admits nothing.                             *)
Rests(j) ==
  /\ job'[j].status = job[j].status /\ job'[j].parent = job[j].parent
  /\ job'[j].mode \in {job[j].mode, "never"}
  /\ job'[j].held = job[j].held \/ Ended(j)
  /\ job[j] = NoJob => job'[j] = NoJob
  /\ task'[j] \in {task[j], "none"}

(* A step after which the jobs rest keeps what is known of them.           *)
LEMMA RestingKeeps ==
  ASSUME Inv, minted' = minted, \A j \in Jobs : Rests(j)
  PROVE  JobInv' /\ \A j \in Jobs : Stands(j)
  BY DEF Inv, JobInv, Rests, Stands, Ended

(* The delete of an ended job rests.                                       *)
LEMMA DeleteRests ==
  ASSUME Inv, \/ job' = job
              \/ \E k \in Jobs : Deleted(k) /\ Ended(k) /\ job[k].held,
         NEW j \in Jobs, task'[j] \in {task[j], "none"}
  PROVE  Rests(j)
  <1>1. CASE job' = job
    BY <1>1 DEF Rests
  <1>2. ASSUME NEW k \in Jobs, Deleted(k), Ended(k), job[k].held
        PROVE  Rests(j)
    <2>1. /\ job'[j].status = job[j].status /\ job'[j].parent = job[j].parent
          /\ j # k => job'[j] = job[j]
          /\ job'[k].mode = "never"
      BY <1>2, DeletedDoes DEF Inv
    <2>2. j = k => job[j] # NoJob /\ Ended(j)
      BY <1>2 DEF NoJob
    <2> QED
      BY <2>1, <2>2 DEF Rests
  <1> QED
    BY <1>1, <1>2

(* Every step keeps what is known of the jobs, and leaves what ended.      *)
LEMMA JobsKept ==
  ASSUME Inv, TypeOK', [Next]_vars
  PROVE  JobInv' /\ \A j \in Jobs : Stands(j)
  <1>0. /\ TypeOK /\ JobInv /\ minted \in Nat /\ Requests \subseteq Actors /\ Jobs \subseteq Actors
        /\ task \in [Jobs -> {"none", "run", "continue"}] /\ job \in [Jobs -> Job]
    BY WorkspaceAssumption DEF Inv, TypeOK, Actors
  <1>1. CASE UNCHANGED <<job, minted, task>>
    BY <1>1, RestingKeeps DEF Rests
  <1>2. ASSUME NEW a \in Actors, Refuse(a)
        PROVE  JobInv' /\ \A j \in Jobs : Stands(j)
    <2>1. /\ minted' = minted
          /\ \A j \in Jobs : task'[j] \in {task[j], "none"}
      BY <1>0, <1>2, RefuseDoes
    <2>2. \A j \in Jobs :
            /\ job'[j].status = job[j].status /\ job'[j].held = job[j].held
            /\ job'[j].mode = job[j].mode /\ job'[j].parent = job[j].parent
            /\ job'[j] = job[j] \/ job[j].held
      BY <1>0, <1>2, RefuseDoes
    <2>3. NoJob.held = FALSE
      BY DEF NoJob
    <2>4. \A j \in Jobs : Rests(j)
      BY <2>1, <2>2, <2>3 DEF Rests
    <2> QED
      BY <2>1, <2>4, RestingKeeps
  <1>3. ASSUME NEW a \in Actors, DeleteChosen(a)
        PROVE  JobInv' /\ \A j \in Jobs : Stands(j)
    <2>1. PICK k \in room[a].removable :
            /\ k \in Jobs /\ (job' = job \/ (Deleted(k) /\ Ended(k) /\ job[k].held))
            /\ task' = TaskLeaving(a, room[a].removable \ {k})
            /\ minted' = minted
      BY <1>3, DeleteChosenDoes
    <2>2. \A j \in Jobs : Rests(j)
      BY <1>0, <2>1, DeleteRests, TaskLeavingType
    <2> QED
      BY <2>1, <2>2, RestingKeeps
  <1>4. CASE DeleteExpired
    <2>1. sweep.job \in Jobs \cup {None} /\ job' \in [Jobs -> Job]
      BY <1>0 DEF TypeOK
    <2>2. \A j \in Jobs : Rests(j)
      <3>1. minted' = minted /\ task' = task
        BY <1>4 DEF DeleteExpired
      <3>2. CASE job' = job
        BY <3>1, <3>2, DeleteRests
      <3>3. CASE Deletable(sweep.job, sweep.saved) /\ Deleted(sweep.job) /\ sweep.job \in Jobs
        BY <3>1, <3>3, DeleteRests DEF Deletable
      <3>4. CASE Deleted(sweep.job) /\ sweep.job \notin Jobs
        BY <1>0, <3>1, <3>2, <3>4 DEF Deleted
      <3> QED
        BY <1>4, <3>2, <3>3, <3>4 DEF DeleteExpired
    <2> QED
      BY <1>4, <2>2, RestingKeeps DEF DeleteExpired
  <1>5. ASSUME NEW a \in Actors, NEW mode \in {"ask", "continue", "never"}, Admitted(a, mode)
        PROVE  JobInv' /\ \A j \in Jobs : Stands(j)
    <2> DEFINE child == minted + 1
    <2>1. /\ child \in Jobs /\ job[child] = NoJob /\ minted' = child
          /\ job'[child].status = "running" /\ job'[child].held
      BY <1>5, AdmittedDoes
    <2>2. \A j \in Jobs \ {child} :
            /\ job'[j].status = job[j].status /\ job'[j].held = job[j].held
            /\ job'[j].mode = job[j].mode /\ job'[j].parent = job[j].parent
            /\ job[j] = NoJob => job'[j] = NoJob
      BY <1>5, AdmittedDoes
    <2>3. PICK rest : task' = [TaskLeaving(a, rest) EXCEPT ![child] = "run"]
      BY <1>5, AdmittedDoes
    <2>4. /\ \A j \in Jobs \ {child} : task'[j] \in {task[j], "none"}
          /\ task'[child] = "run"
      BY <1>0, <2>1, <2>3, TaskLeavingType
    <2>5. child > minted /\ NoJob.status = "none" /\ NoJob.parent = None
      BY <1>0 DEF NoJob
    <2>6. \A j \in Jobs : j > child => j > minted /\ j # child
      BY <1>0 DEF Jobs
    <2> HIDE DEF child
    <2>7. JobInv'
      BY <1>0, <2>1, <2>2, <2>4, <2>6 DEF JobInv, Ended
    <2>8. \A j \in Jobs : Stands(j)
      BY <2>1, <2>2, <2>5 DEF Stands, Ended
    <2> QED
      BY <2>7, <2>8
  <1>6. ASSUME NEW k \in Jobs, NEW status \in {"paused", "reported", "failed"}, EndRun(k, status)
        PROVE  JobInv' /\ \A j \in Jobs : Stands(j)
    <2>1. /\ job' = [job EXCEPT ![k] = [job[k] EXCEPT !.status = status]]
          /\ minted' = minted /\ job[k].status = "running"
          /\ \E next \in {"continue", "none"} : task' = [task EXCEPT ![k] = next]
      BY <1>0, <1>6 DEF EndRun, JobInv
    <2>2. /\ job'[k] = [job[k] EXCEPT !.status = status] /\ job[k] \in Job
          /\ \A j \in Jobs \ {k} : job'[j] = job[j] /\ task'[j] = task[j]
          /\ task'[k] # "run"
      BY <1>0, <2>1
    <2>3. job'[k].status = status /\ job'[k].parent = job[k].parent
      BY <2>2 DEF Job
    <2>4. NoJob.status = "none"
      BY DEF NoJob
    <2>5. JobInv'
      BY <1>0, <2>1, <2>2, <2>3, <2>4 DEF JobInv, Ended
    <2>6. \A j \in Jobs : Stands(j)
      BY <2>1, <2>2, <2>3 DEF Stands, Ended
    <2> QED
      BY <2>5, <2>6
  <1>7. CASE Restart
    <2>1. ASSUME NEW j \in Jobs
          PROVE  /\ job'[j].parent = job[j].parent /\ job'[j].mode = job[j].mode
                 /\ job'[j].status # "running" /\ task'[j] = "none"
                 /\ job[j].status # "running" => job'[j] = job[j]
                 /\ job[j].status = "running" => job'[j].status = "failed"
      <3>1. job[j] \in Job
        BY <1>0
      <3>2. job'[j] = IF job[j].status = "running" THEN [job[j] EXCEPT !.status = "failed"]
                      ELSE job[j]
        BY <1>7 DEF Restart
      <3>3. task'[j] = "none"
        BY <1>7 DEF Restart
      <3> QED
        BY <3>1, <3>2, <3>3 DEF Job
    <2>2. NoJob.status = "none" /\ minted' = minted
      BY <1>7 DEF NoJob, Restart
    <2>3. JobInv'
      BY <1>0, <2>1, <2>2 DEF JobInv
    <2>4. \A j \in Jobs : Stands(j)
      BY <2>1 DEF Stands, Ended
    <2> QED
      BY <2>3, <2>4
  <1>8. ASSUME NEW a \in Actors, StartsNothing(a)
        PROVE  JobInv' /\ \A j \in Jobs : Stands(j)
    <2>1. \A j \in Jobs : task'[j] \in {task[j], "none"}
      BY <1>0, <1>8, StartsNothingDoes, TaskLeavingType
    <2> QED
      BY <1>8, <2>1, StartsNothingDoes, DeleteRests, RestingKeeps
  <1> QED
    BY <1>1, <1>2, <1>3, <1>4, <1>5, <1>6, <1>7, <1>8
       DEF Next, RoomStep, Submit, Answer, Continue, Save, ListExpired, Ask,
           AskChild, WorkspaceFull, Raises, vars

-----------------------------------------------------------------------------
(***************************************************************************)
(* The rooms                                                               *)
(***************************************************************************)

(* What is not wanted is not wanted again: the child that ended with the   *)
(* answers read stays so.                                                  *)
LEMMA UnwantedStands ==
  ASSUME TypeOK, \A k \in Jobs : Stands(k), NEW j \in Jobs, Unwanted(j)
  PROVE  Unwanted(j)'
  <1>1. Ended(j)' /\ job'[j].status = job[j].status /\ job'[j].mode \in {job[j].mode, "never"}
    BY DEF Unwanted, Stands, Ended
  <1>2. ASSUME NEW c \in Lockers(j), Ended(c)
        PROVE  c \in Lockers(j)' /\ Ended(c)'
    <2>1. c \in Jobs /\ job[c].parent = j /\ j # None
      BY JobsAreNumbers DEF Lockers
    <2>2. job'[c].parent = j /\ job'[c].status = job[c].status
      BY <1>2, <2>1 DEF Stands
    <2> QED
      BY <1>2, <2>1, <2>2 DEF Lockers, Ended
  <1> QED
    BY <1>1, <1>2 DEF Unwanted

(* What the first read finds not to wait is not wanted.                    *)
LEMMA NotAskedUnwanted ==
  ASSUME NEW j \in Jobs, Ended(j), ~AsksOfChild(j), ~WaitsUnlocked(j)
  PROVE  Unwanted(j)
  BY DEF AsksOfChild, WaitsUnlocked, Unwanted

(* What the second read finds not to wait is not wanted, unless the        *)
(* Resumed Job failed between the two.                                     *)
LEMMA ReadUnwanted ==
  ASSUME TypeOK, JobInv, NEW j \in Jobs, Ended(j),
         NEW c \in Jobs, job[c].parent = j, job[c].status # "none",
         ~(job[c].held /\ ~Ended(c)), job[c].status # "failed"
  PROVE  Unwanted(j)
  <1>1. job[c].status \in {"running", "paused", "reported"}
    BY DEF TypeOK, Job
  <1>2. c \in Lockers(j)
    BY <1>1 DEF Lockers
  <1>3. Ended(c)
    BY <1>1 DEF JobInv, Ended
  <1> QED
    BY <1>2, <1>3 DEF Unwanted

(* What was chosen stays so while the actor forgets no job overtaken.      *)
LEMMA ChosenStands ==
  ASSUME TypeOK, \A k \in Jobs : Stands(k), NEW a \in Actors, NEW j \in Jobs,
         Chosen(a, j), j \in room[a].overtaken => j \in room'[a].overtaken
  PROVE  Chosen(a, j)'
  <1>1. Ended(j)'
    BY DEF Chosen, Stands, Ended
  <1>2. Unwanted(j) => Unwanted(j)'
    BY UnwantedStands
  <1> QED
    BY <1>1, <1>2 DEF Chosen

(* An actor whose place is as it was relies on what it relied on.          *)
LEMMA RoomStands ==
  ASSUME Inv, \A k \in Jobs : Stands(k), NEW b \in Actors,
         /\ room'[b].step = room[b].step /\ room'[b].answering = room[b].answering
         /\ room'[b].asking = room[b].asking /\ room'[b].removable = room[b].removable
         /\ room'[b].locker \in {None, room[b].locker}
         /\ room'[b].overtaken = room[b].overtaken
  PROVE  RoomOk(b)'
  <1>1. /\ RoomOk(b) /\ TypeOK /\ room[b].locker \in Jobs \cup {None}
        /\ room[b].asking \subseteq Jobs /\ room[b].removable \subseteq Jobs
    BY DEF Inv, RoomInv, TypeOK
  <1>2. \A j \in room[b].asking : Ended(j)'
    BY <1>1 DEF RoomOk, Stands, Ended
  <1>3. \A j \in room[b].removable : Chosen(b, j)'
    BY <1>1, ChosenStands DEF RoomOk
  <1>4. \A c \in Jobs : b \in Jobs /\ job[c].parent = b => job'[c].parent = b
    BY JobsAreNumbers DEF Stands
  <1>5. ASSUME room'[b].locker # None
        PROVE  /\ room[b].step = "asking" /\ room[b].asking # {}
               /\ job'[room'[b].locker].parent = Min(room[b].asking)
               /\ job'[room'[b].locker].status # "none"
    <2>1. /\ room'[b].locker = room[b].locker /\ room[b].locker \in Jobs
          /\ room[b].step = "asking" /\ room[b].asking # {}
          /\ job[room[b].locker].parent = Min(room[b].asking)
          /\ job[room[b].locker].status # "none"
      BY <1>1, <1>5 DEF RoomOk
    <2>2. Min(room[b].asking) # None
      BY <1>1, <2>1, OldestIsThere, JobsAreNumbers
    <2> QED
      BY <2>1, <2>2 DEF Stands
  <1>6. b \in Jobs /\ room[b].step # "idle" => Ended(b)'
    BY <1>1 DEF RoomOk, Stands, Ended
  <1>7. b \in Jobs /\ room[b].step = "deleting" /\ job'[b].status = "paused" =>
          \E c \in Jobs : job'[c].parent = b
    BY <1>1, <1>4 DEF RoomOk, Stands, Ended
  <1> QED
    BY <1>1, <1>2, <1>3, <1>5, <1>6, <1>7 DEF RoomOk

(* An actor that found of a job how it stands.                             *)
LEMMA RoomFinds ==
  ASSUME Inv, \A k \in Jobs : Stands(k), NEW a \in Actors, NEW j \in room[a].asking,
         NEW waits \in BOOLEAN, NEW overtaken \in BOOLEAN,
         room[a].step = "asking", ~waits => Unwanted(j) \/ overtaken,
         room' = [room EXCEPT ![a] = Found(a, j, waits, overtaken)]
  PROVE  RoomInv'
  <1> DEFINE found == Found(a, j, waits, overtaken)
  <1>1. /\ TypeOK /\ RoomOk(a) /\ room \in [Actors -> Room]
        /\ room[a].asking \subseteq Jobs /\ room[a].removable \subseteq Jobs
    BY DEF Inv, RoomInv, TypeOK, Room
  <1>2. /\ found.step = "asking" /\ found.answering = room[a].answering
        /\ found.asking = room[a].asking \ {j} /\ found.locker = None
        /\ found.removable = room[a].removable \cup IF waits THEN {} ELSE {j}
        /\ found.overtaken = room[a].overtaken \cup IF overtaken THEN {j} ELSE {}
    BY <1>1, FoundDoes
  <1>3. room'[a] = found /\ \A b \in Actors \ {a} : room'[b] = room[b]
    BY <1>1
  <1> HIDE DEF found
  <1>4. \A k \in room[a].asking : Ended(k)'
    BY <1>1 DEF RoomOk, Stands, Ended
  <1>5. \A k \in room[a].removable : Chosen(a, k)'
    BY <1>1, <1>2, <1>3, ChosenStands DEF RoomOk
  <1>6. ~waits => Chosen(a, j)'
    <2>1. j \in Jobs /\ Ended(j)'
      BY <1>1, <1>4
    <2>2. Unwanted(j) => Unwanted(j)'
      BY <1>1, UnwantedStands
    <2>3. overtaken => j \in room'[a].overtaken
      BY <1>2, <1>3
    <2> QED
      BY <2>1, <2>2, <2>3 DEF Chosen
  <1>7. RoomOk(a)'
    <2>1. a \in Jobs => Ended(a)'
      BY <1>1 DEF RoomOk, Stands, Ended
    <2> QED
      BY <1>1, <1>2, <1>3, <1>4, <1>5, <1>6, <2>1 DEF RoomOk
  <1> QED
    BY <1>3, <1>7, RoomStands DEF RoomInv

(* An actor that leaves, with jobs it chose left to delete or none.        *)
LEMMA RoomLeaves ==
  ASSUME Inv, \A k \in Jobs : Stands(k), NEW a \in Actors,
         NEW rest \in SUBSET room[a].removable, room[a].step # "idle",
         room' = [room EXCEPT ![a] = Leaving(a, rest)],
         a \in Jobs /\ job'[a].status = "paused" => \E c \in Jobs : job'[c].parent = a
  PROVE  RoomInv'
  <1>1. /\ TypeOK /\ room[a].removable \subseteq Jobs /\ RoomOk(a)
        /\ room \in [Actors -> Room]
    BY DEF Inv, TypeOK, RoomInv, Room
  <1>2. /\ room'[a] = Leaving(a, rest) /\ \A b \in Actors \ {a} : room'[b] = room[b]
    BY <1>1
  <1>3. /\ room'[a].asking = {} /\ room'[a].removable = rest /\ room'[a].locker = None
        /\ room'[a].overtaken = room[a].overtaken \cap rest
        /\ room'[a].step = IF rest = {} THEN "idle" ELSE "deleting"
    BY <1>1, <1>2, LeavingType
  <1>4. \A j \in rest : Chosen(a, j)'
    BY <1>1, <1>3, ChosenStands DEF RoomOk
  <1>5. a \in Jobs => Ended(a)'
    BY <1>1 DEF RoomOk, Stands, Ended
  <1>6. RoomOk(a)'
    BY <1>3, <1>4, <1>5 DEF RoomOk
  <1> QED
    BY <1>2, <1>6, RoomStands DEF RoomInv

(* Every step keeps what the actors that make room rely on.                *)
LEMMA RoomsKept ==
  ASSUME Inv, TypeOK', [Next]_vars
  PROVE  RoomInv'
  <1>0. /\ TypeOK /\ JobInv /\ RoomInv /\ Requests \subseteq Actors /\ Jobs \subseteq Actors
        /\ room \in [Actors -> Room] /\ Requests \cap Jobs = {}
    BY WorkspaceAssumption DEF Inv, TypeOK, Actors, Room, Jobs
  <1>s. \A j \in Jobs : Stands(j)
    BY JobsKept
  <1>e. ASSUME NEW a \in Actors, NEW answering \in Jobs \cup {None}, Enter(a, answering),
               a \in Jobs => answering = a /\ Ended(a), job' = job
        PROVE  RoomInv'
    <2>1. /\ room'[a].step = "asking" /\ room'[a].answering = answering
          /\ room'[a].asking \subseteq {j \in Jobs : Ended(j)}
          /\ room'[a].removable = {} /\ room'[a].locker = None
          /\ \A b \in Actors \ {a} : room'[b] = room[b]
      BY <1>0, <1>e, EnterDoes
    <2>2. RoomOk(a)'
      BY <1>e, <2>1 DEF RoomOk, Ended
    <2> QED
      BY <1>s, <2>1, <2>2, RoomStands DEF RoomInv
  <1>1. CASE room' = room
    BY <1>s, <1>1, RoomStands DEF RoomInv
  <1>2. ASSUME NEW r \in Requests, Submit(r) \/ \E p \in Jobs : Answer(r, p)
        PROVE  RoomInv'
    BY <1>0, <1>2, <1>e DEF Submit, Answer
  <1>3. ASSUME NEW j \in Jobs, Continue(j)
        PROVE  RoomInv'
    BY <1>0, <1>3, <1>e DEF Continue, JobInv
  <1>4. ASSUME NEW j \in Jobs, Save(j)
        PROVE  RoomInv'
    <2>1. ASSUME NEW a \in Actors
          PROVE  /\ room'[a].step = room[a].step /\ room'[a].answering = room[a].answering
                 /\ room'[a].asking = room[a].asking /\ room'[a].removable = room[a].removable
                 /\ room'[a].locker = room[a].locker
                 /\ room'[a].overtaken = room[a].overtaken
      <3> DEFINE saved == room[a].saved \cup {j}
      <3>1. room'[a] = IF j \in room[a].asking \cup room[a].removable
                       THEN [room[a] EXCEPT !.saved = saved] ELSE room[a]
        BY <1>4 DEF Save
      <3>2. room[a] \in Room
        BY <1>0
      <3> HIDE DEF saved
      <3> QED
        BY <3>1, <3>2 DEF Room
    <2> QED
      BY <1>s, <2>1, RoomStands DEF RoomInv
  <1>5. ASSUME NEW a \in Actors, Ask(a)
        PROVE  RoomInv'
    <2> DEFINE j == Min(room[a].asking)
    <2>1. /\ j \in Jobs /\ j \in room[a].asking /\ room[a].step = "asking"
          /\ \/ /\ ~AsksOfChild(j)
                /\ room' = [room EXCEPT ![a] = Found(a, j, WaitsUnlocked(j), FALSE)]
             \/ \E c \in Lockers(j) :
                  room' = [room EXCEPT ![a] = [room[a] EXCEPT !.locker = c]]
      BY <1>0, <1>5, AskDoes
    <2>2. RoomOk(a) /\ Ended(j) /\ room[a] \in Room
      BY <1>0, <2>1 DEF RoomInv, RoomOk
    <2>3. CASE ~AsksOfChild(j) /\ room' = [room EXCEPT ![a] = Found(a, j, WaitsUnlocked(j), FALSE)]
      <3>1. ~WaitsUnlocked(j) => Unwanted(j)
        BY <2>1, <2>2, <2>3, NotAskedUnwanted
      <3>2. WaitsUnlocked(j) \in BOOLEAN
        BY DEF WaitsUnlocked
      <3> HIDE DEF j
      <3> QED
        BY <1>s, <2>1, <2>3, <3>1, <3>2, RoomFinds
    <2>4. ASSUME NEW c \in Lockers(j),
                 room' = [room EXCEPT ![a] = [room[a] EXCEPT !.locker = c]]
          PROVE  RoomInv'
      <3>1. room'[a] = [room[a] EXCEPT !.locker = c] /\ \A b \in Actors \ {a} : room'[b] = room[b]
        BY <1>0, <2>4
      <3>2. /\ c \in Jobs /\ c # None /\ job[c].parent = j /\ job[c].status # "none"
            /\ j # None
        BY <2>1, JobsAreNumbers DEF Lockers
      <3>3. job'[c].parent = j /\ job'[c].status # "none"
        BY <1>s, <3>2 DEF Stands
      <3>4. /\ room'[a].step = room[a].step /\ room'[a].answering = room[a].answering
            /\ room'[a].asking = room[a].asking /\ room'[a].removable = room[a].removable
            /\ room'[a].overtaken = room[a].overtaken /\ room'[a].locker = c
        BY <2>2, <3>1 DEF Room
      <3>5. \A k \in room[a].asking : Ended(k)'
        BY <1>s, <2>2 DEF RoomOk, Room, Stands, Ended
      <3>6. \A k \in room[a].removable : Chosen(a, k)'
        BY <1>0, <1>s, <2>2, <3>4, ChosenStands DEF RoomOk, Room
      <3>7. a \in Jobs => Ended(a)'
        BY <1>s, <2>1, <2>2 DEF RoomOk, Stands, Ended
      <3>8. RoomOk(a)'
        BY <2>1, <2>2, <3>3, <3>4, <3>5, <3>6, <3>7 DEF RoomOk
      <3> QED
        BY <1>s, <3>1, <3>8, RoomStands DEF RoomInv
    <2> QED
      BY <2>1, <2>3, <2>4
  <1>10. ASSUME NEW a \in Actors, AskChild(a)
         PROVE  RoomInv'
    <2> DEFINE j         == Min(room[a].asking)
               c         == room[a].locker
               waits     == job[c].held /\ ~Ended(c)
               overtaken == job[c].status = "failed"
    <2>1. /\ j \in Jobs /\ j \in room[a].asking /\ room[a].step = "asking"
          /\ c \in Jobs /\ job[c].parent = j /\ job[c].status # "none"
          /\ room' = [room EXCEPT ![a] = Found(a, j, waits, overtaken)]
      BY <1>10, AskChildDoes
    <2>2. Ended(j)
      BY <1>0, <2>1 DEF RoomInv, RoomOk
    <2>3. ~waits => Unwanted(j) \/ overtaken
      BY <1>0, <2>1, <2>2, ReadUnwanted
    <2>4. waits \in BOOLEAN /\ overtaken \in BOOLEAN
      OBVIOUS
    <2> HIDE DEF j, c, waits, overtaken
    <2> QED
      BY <1>s, <2>1, <2>3, <2>4, RoomFinds
  <1>i. /\ NoRoom.step = "idle" /\ NoRoom.asking = {} /\ NoRoom.removable = {}
        /\ NoRoom.locker = None
    BY DEF NoRoom
  <1>6. ASSUME NEW a \in Actors, Refuse(a)
        PROVE  RoomInv'
    <2>1. room'[a] = NoRoom /\ \A b \in Actors \ {a} : room'[b] = room[b]
      BY <1>0, <1>6 DEF Refuse
    <2>2. RoomOk(a)'
      BY <1>i, <2>1 DEF RoomOk
    <2> QED
      BY <1>s, <2>1, <2>2, RoomStands DEF RoomInv
  <1>7. ASSUME NEW a \in Actors, NEW mode \in {"ask", "continue", "never"}, Admitted(a, mode)
        PROVE  RoomInv'
    <2>1. PICK rest \in SUBSET room[a].removable :
            room' = [room EXCEPT ![a] = Leaving(a, rest)]
      BY <1>7, AdmittedDoes
    <2>2. /\ minted + 1 \in Jobs /\ room[a].step = "asking"
          /\ job'[minted + 1].parent = room[a].answering
      BY <1>7, AdmittedDoes
    <2>3. a \in Jobs => job'[minted + 1].parent = a
      BY <1>0, <2>2 DEF RoomInv, RoomOk
    <2> QED
      BY <1>s, <2>1, <2>2, <2>3, RoomLeaves
  <1>8. ASSUME NEW a \in Actors, DeleteChosen(a)
        PROVE  RoomInv'
    <2>1. PICK k \in room[a].removable :
            /\ room[a].step = "deleting"
            /\ room' = [room EXCEPT ![a] = Leaving(a, room[a].removable \ {k})]
      BY <1>8, DeleteChosenDoes
    <2>2. a \in Jobs /\ job'[a].status = "paused" => \E c \in Jobs : job'[c].parent = a
      <3>1. /\ a \in Jobs => Ended(a)
            /\ a \in Jobs /\ job[a].status = "paused" => \E c \in Jobs : job[c].parent = a
        BY <1>0, <2>1 DEF RoomInv, RoomOk
      <3> QED
        BY <1>s, <3>1, JobsAreNumbers DEF Stands
    <2> QED
      BY <1>s, <2>1, <2>2, RoomLeaves
  <1>9. CASE Restart
    <2>1. \A a \in Actors : room'[a] = NoRoom
      BY <1>9 DEF Restart
    <2> QED
      BY <1>i, <2>1 DEF RoomInv, RoomOk
  <1>11. ASSUME NEW a \in Actors, StartsNothing(a)
         PROVE  RoomInv'
    <2>1. PICK rest \in SUBSET room[a].removable :
            room' = [room EXCEPT ![a] = Leaving(a, rest)]
      BY <1>11, StartsNothingDoes
    <2> QED
      BY <1>s, <1>11, <2>1, StartsNothingDoes, RoomLeaves
  <1> QED
    BY <1>1, <1>2, <1>3, <1>4, <1>5, <1>6, <1>7, <1>8, <1>9, <1>10, <1>11
       DEF Next, RoomStep, ListExpired, EndRun, WorkspaceFull, Raises, DeleteExpired, vars

-----------------------------------------------------------------------------
(***************************************************************************)
(* The theorems                                                            *)
(***************************************************************************)

(* The inductive invariant holds in every behaviour of the workspace.      *)
THEOREM Invariance == Spec => []Inv
  <1>1. Init => Inv
    <2> SUFFICES ASSUME Init
                 PROVE  Inv
      OBVIOUS
    <2>1. NoJob \in Job /\ NoJob.status = "none"
      BY DEF NoJob, Job
    <2>2. /\ NoRoom.step = "idle" /\ NoRoom.asking = {} /\ NoRoom.removable = {}
          /\ NoRoom.locker = None
      BY DEF NoRoom
    <2>3. TypeOK
      BY <2>1, NoRoomType, WorkspaceAssumption DEF Init, TypeOK, Room, NoSweep
    <2>4. JobInv
      BY <2>1 DEF Init, JobInv
    <2>5. RoomInv
      BY <2>2 DEF Init, RoomInv, RoomOk
    <2> QED
      BY <2>3, <2>4, <2>5 DEF Inv
  <1>2. Inv /\ [Next]_vars => Inv'
    BY NextType, JobsKept, RoomsKept DEF Inv
  <1> QED
    BY <1>1, <1>2, PTL DEF Spec

(* Every variable keeps its type.                                          *)
THEOREM WorkspaceTyped == Spec => []TypeOK
  <1>1. Inv => TypeOK
    BY DEF Inv
  <1> QED
    BY <1>1, Invariance, PTL

(* No step deletes a job that asked and can still be answered, but the     *)
(* retention sweep, where nobody saved it since it was listed, and the     *)
(* actor whose two reads of it the end of its Resumed Job came between.    *)
THEOREM AskedStay == Spec => AskedJobsStay
  <1> DEFINE Kept(j) ==
        /\ job[j].mode = "ask" /\ Answerable(j)
        => job'[j].held \/ Expires(j) \/ \E a \in Actors : Overtook(a, j)
  <1>1. ASSUME Inv, [Next]_vars, NEW j \in Jobs
        PROVE  Kept(j)
    <2> SUFFICES ASSUME job[j].mode = "ask", job[j].held, job[j].status = "paused",
                        Lockers(j) = {}
                 PROVE  job'[j].held \/ Expires(j) \/ \E a \in Actors : Overtook(a, j)
      BY DEF Answerable
    <2>0. /\ TypeOK /\ RoomInv /\ job \in [Jobs -> Job] /\ job[j] \in Job
          /\ Requests \subseteq Actors /\ Jobs \subseteq Actors
      BY <1>1 DEF Inv, TypeOK, Actors
    <2>1. CASE job' = job
      BY <2>1
    <2>2. ASSUME NEW a \in Actors, Refuse(a)
          PROVE  job'[j].held
      BY <2>0, <2>2, RefuseDoes
    <2>3. ASSUME NEW a \in Actors, NEW mode \in {"ask", "continue", "never"}, Admitted(a, mode)
          PROVE  job'[j].held
      <3>1. j # minted + 1
        BY <1>1, <2>3, AdmittedDoes DEF NoJob
      <3> QED
        BY <1>1, <2>3, <3>1, AdmittedDoes
    <2>4. ASSUME NEW a \in Actors, DeleteChosen(a)
          PROVE  job'[j].held \/ Overtook(a, j)
      <3>1. PICK k \in room[a].removable :
              /\ k \in Jobs /\ (job' = job \/ Deleted(k)) /\ room[a].step = "deleting"
              /\ room' = [room EXCEPT ![a] = Leaving(a, room[a].removable \ {k})]
        BY <1>1, <2>4, DeleteChosenDoes
      <3>2. CASE k = j
        <4>1. j \in room[a].overtaken
          BY <2>0, <3>1, <3>2 DEF RoomInv, RoomOk, Chosen, Unwanted
        <4>2. room \in [Actors -> Room] /\ room[a].removable \ {k} \in SUBSET Jobs
          BY <2>0 DEF TypeOK, Room
        <4>3. room'[a] = Leaving(a, room[a].removable \ {k})
          BY <3>1, <4>2
        <4>4. room'[a].removable = room[a].removable \ {k}
          BY <4>2, <4>3, LeavingType
        <4> QED
          BY <3>1, <3>2, <4>1, <4>4 DEF Overtook
      <3>3. CASE k # j
        <4>1. Deleted(k) => job'[j] = job[j]
          BY <2>0, <3>1, <3>3, DeletedDoes
        <4> QED
          BY <3>1, <4>1
      <3> QED
        BY <3>2, <3>3
    <2>5. CASE DeleteExpired
      <3>1. /\ sweep \in [job : Jobs \cup {None}, saved : BOOLEAN] /\ sweep' = NoSweep
            /\ job' = job \/ (Deleted(sweep.job) /\ ~sweep.saved)
        BY <2>0, <2>5 DEF TypeOK, DeleteExpired, Deletable
      <3>2. CASE sweep.job = j /\ ~sweep.saved
        <4>1. sweep = [job |-> j, saved |-> FALSE]
          BY <3>1, <3>2
        <4> QED
          BY <3>1, <4>1 DEF Expires
      <3>3. CASE sweep.job # j
        <4>1. Deleted(sweep.job) => job'[j] = job[j]
          BY <2>0, <3>3 DEF Deleted
        <4> QED
          BY <3>1, <4>1
      <3> QED
        BY <3>1, <3>2, <3>3
    <2>6. ASSUME NEW k \in Jobs, NEW status \in {"paused", "reported", "failed"}, EndRun(k, status)
          PROVE  job'[j].held
      <3>1. job'[j] = IF j = k THEN [job[j] EXCEPT !.status = status] ELSE job[j]
        BY <2>0, <2>6 DEF EndRun
      <3> QED
        BY <2>0, <3>1 DEF Job
    <2>7. CASE Restart
      BY <2>7 DEF Restart
    <2> QED
      BY <1>1, <2>0, <2>1, <2>2, <2>3, <2>4, <2>5, <2>6, <2>7
         DEF Next, RoomStep, Submit, Answer, Continue, Save, ListExpired, Ask, AskChild,
             WorkspaceFull, Raises, StartsNothing, vars
  <1>2. Inv /\ [Next]_vars => [\A j \in Jobs : Kept(j)]_vars
    BY <1>1
  <1> QED
    BY <1>2, Invariance, PTL DEF Spec, AskedJobsStay

(* When the task of a held job ends its continue at a pause, the job has a *)
(* Resumed Job, or the store was given the reason it has none.             *)
THEOREM ContinuesSettle == Spec => ContinueIsSettled
  <1> DEFINE Settles(j) ==
        /\ task[j] = "continue" /\ task'[j] = "none"
        /\ job'[j].held /\ job[j].status = "paused"
        => job'[j].reason # "none" \/ \E c \in Jobs : job'[c].parent = j
  <1>1. ASSUME Inv, [Next]_vars, ~Restart, NEW j \in Jobs
        PROVE  Settles(j)
    <2> SUFFICES ASSUME task[j] = "continue", task'[j] = "none", job'[j].held,
                        job[j].status = "paused"
                 PROVE  job'[j].reason # "none" \/ \E c \in Jobs : job'[c].parent = j
      OBVIOUS
    <2>0. /\ TypeOK /\ RoomInv /\ task \in [Jobs -> {"none", "run", "continue"}]
          /\ Requests \subseteq Actors /\ Jobs \subseteq Actors
      BY <1>1 DEF Inv, TypeOK, Actors
    <2>1. task' # task
      OBVIOUS
    <2>2. ASSUME NEW a \in Actors, Refuse(a)
          PROVE  job'[j].reason # "none"
      <3>1. a = j
        BY <2>0, <2>2, RefuseDoes
      <3> QED
        BY <2>0, <2>2, <3>1, RefuseDoes
    <2>3. ASSUME NEW a \in Actors, NEW mode \in {"ask", "continue", "never"}, Admitted(a, mode)
          PROVE  \E c \in Jobs : job'[c].parent = j
      <3>1. PICK rest : task' = [TaskLeaving(a, rest) EXCEPT ![minted + 1] = "run"]
        BY <1>1, <2>3, AdmittedDoes
      <3>2. /\ minted + 1 \in Jobs /\ room[a].step = "asking"
            /\ job'[minted + 1].parent = room[a].answering
        BY <1>1, <2>3, AdmittedDoes
      <3>3. a = j
        BY <2>0, <3>1, <3>2, TaskLeavingType
      <3> QED
        BY <2>0, <3>2, <3>3 DEF RoomInv, RoomOk
    <2>4. ASSUME NEW a \in Actors, DeleteChosen(a)
          PROVE  \E c \in Jobs : job'[c].parent = j
      <3>1. PICK k \in room[a].removable :
              room[a].step = "deleting" /\ task' = TaskLeaving(a, room[a].removable \ {k})
        BY <1>1, <2>4, DeleteChosenDoes
      <3>2. a = j
        BY <2>0, <3>1, TaskLeavingType
      <3>3. PICK c \in Jobs : job[c].parent = j
        BY <2>0, <3>1, <3>2 DEF RoomInv, RoomOk
      <3>4. \A i \in Jobs : Stands(i)
        BY <1>1, NextType, JobsKept
      <3> QED
        BY <3>3, <3>4, JobsAreNumbers DEF Stands
    <2>5. ASSUME NEW k \in Jobs, NEW status \in {"paused", "reported", "failed"}, EndRun(k, status)
          PROVE  FALSE
      <3>1. task[k] = "run" /\ \E next : task' = [task EXCEPT ![k] = next]
        BY <2>5 DEF EndRun
      <3> QED
        BY <2>0, <3>1
    <2>6. ASSUME NEW a \in Actors, StartsNothing(a)
          PROVE  FALSE
      <3>1. PICK rest : task' = TaskLeaving(a, rest)
        BY <2>6, StartsNothingDoes
      <3>2. a = j
        BY <2>0, <3>1, TaskLeavingType
      <3> QED
        BY <2>6, <3>2, StartsNothingDoes
    <2> QED
      BY <1>1, <2>0, <2>1, <2>2, <2>3, <2>4, <2>5, <2>6
         DEF Next, RoomStep, Submit, Answer, Continue, Save, ListExpired, Ask, AskChild,
             WorkspaceFull, Raises, DeleteExpired, vars
  <1>2. Inv /\ [Next]_vars => [Restart \/ \A j \in Jobs : Settles(j)]_vars
    BY <1>1
  <1> QED
    BY <1>2, Invariance, PTL DEF Spec, ContinueIsSettled
=============================================================================
