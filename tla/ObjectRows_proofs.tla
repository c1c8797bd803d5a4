-------------------------- MODULE ObjectRows_proofs --------------------------
(***************************************************************************)
(* Proofs about ObjectRows, for any jobs and readers: a row names stored   *)
(* objects only, and no read of a whole job finds it corrupt, but where an *)
(* admission raised after its commit.                                      *)
(***************************************************************************)
EXTENDS ObjectRows, TLAPS

Sources(j) == <<j, "sources">>

Report(j) == <<j, "report">>

Admitting == {"new", "reserving"}

Ending == {"clearing", "cleared", "put"}

(* What the step of a job's writer says of its row.                        *)
WriterInv(j) ==
  /\ op[j] \in Admitting => row[j] = NoRow
  /\ op[j] = "unreserving" => row[j].state \in {"none", "running"}
  /\ op[j] \in Ending \cup {"running"} => InFlight(j)
  /\ op[j] = "none" => ~InFlight(j)
  /\ row[j].state \in {"none", "usage"} => row[j].names = {}
  /\ InFlight(j) => row[j].names = {"sources"}
  /\ row[j].state = "ended" => "sources" \in row[j].names

(* What it says of the job's objects.                                      *)
ObjectInv(j) ==
  /\ op[j] = "reserving" => object[Sources(j)] = "young"
  /\ op[j] = "put" => Stored(Report(j))
  /\ Stranded(j) \/ \A n \in row[j].names : Stored(<<j, n>>)

(* Nobody but the job's own writer has an object of it in hand.            *)
Unclaimed(k) == k \notin late \cup doomed \cup sweep.keys

Untouched(k) == ~Stored(k) /\ Unclaimed(k)

(* What somebody has in hand to remove: no row names it, and none will.    *)
RemovalInv(j) ==
  /\ op[j] = "new" => Untouched(Sources(j))
  /\ op[j] = "reserving" => Unclaimed(Sources(j))
  /\ op[j] \in Admitting => Untouched(Report(j))
  /\ \A n \in Names :
       /\ <<j, n>> \in doomed => row[j].state = "usage"
       /\ <<j, n>> \in sweep.keys /\ sweep.step = "removing" =>
            ~InFlight(j) /\ n \notin row[j].names

(* What a read has in hand: the row still names it, or the job was deleted.*)
ReaderInv(r) ==
  /\ reader[r].step = "objects" =>
       \A k \in reader[r].keys : k \in NamedOf(k[1]) \/ row[k[1]].state = "usage"
  /\ reader[r].step \in {"missing", "corrupt"} =>
       \E k \in Keys :
         /\ reader[r].keys = {k}
         /\ Stranded(k[1]) \/ (reader[r].step = "missing" /\ row[k[1]].state = "usage")

JobInv(j) == WriterInv(j) /\ ObjectInv(j) /\ RemovalInv(j)

(* The inductive invariant.                                                *)
Inv ==
  /\ TypeOK
  /\ \A j \in Jobs : JobInv(j)
  /\ \A r \in Readers : ReaderInv(r)
-----------------------------------------------------------------------------
(* A job that a step does not touch keeps its part.                        *)
LEMMA JobKept ==
  ASSUME NEW i \in Jobs, JobInv(i),
         row'[i] = row[i], op'[i] = op[i],
         \A n \in Names : object'[<<i, n>>] = object[<<i, n>>],
         \A n \in Names : <<i, n>> \in late' => <<i, n>> \in late,
         \A n \in Names : <<i, n>> \in doomed' => <<i, n>> \in doomed,
         sweep' = sweep, row \in [Jobs -> [state : {"none", "running", "ended", "usage"},
                       names : SUBSET Names]]
  PROVE  JobInv(i)'
  BY DEF JobInv, WriterInv, ObjectInv, RemovalInv, Untouched, Unclaimed, Sources, Report,
         Stored, NamedOf, InFlight, Stranded, Stranding, Names, NoRow

(* A read that a step does not touch keeps its part: names stay until the  *)
(* job is deleted, and a stranded job stays stranded.                      *)
LEMMA ReadersKept ==
  ASSUME NEW r \in Readers, ReaderInv(r), TypeOK, reader'[r] = reader[r],
         \A j \in Jobs :
           /\ Stranded(j) => Stranded(j)'
           /\ row[j].state = "usage" => row'[j].state = "usage"
           /\ row[j].names \subseteq row'[j].names \/ row'[j].state = "usage"
  PROVE  ReaderInv(r)'
  <1>1. ASSUME NEW k \in Keys
        PROVE  /\ k[1] \in Jobs
               /\ k \in NamedOf(k[1]) => k \in NamedOf(k[1])' \/ row'[k[1]].state = "usage"
    <2>1. PICK j \in Jobs, n \in Names : k = <<j, n>>
      BY DEF Keys
    <2>2. k[1] = j
      BY <2>1
    <2> QED
      BY <2>1, <2>2 DEF NamedOf
  <1>2. reader[r].keys \subseteq Keys
    BY DEF TypeOK
  <1> QED
    BY <1>1, <1>2 DEF ReaderInv
-----------------------------------------------------------------------------
(* Every step keeps the types.                                             *)
LEMMA TypeInv == TypeOK /\ [Next]_vars => TypeOK'
  <1> SUFFICES ASSUME TypeOK, [Next]_vars
               PROVE  TypeOK'
    OBVIOUS
  <1> DEFINE Rows == [state : {"none", "running", "ended", "usage"}, names : SUBSET Names]
  <1> USE DEF TypeOK
  <1>1. CASE UNCHANGED vars
    BY <1>1 DEF vars
  <1>2. ASSUME NEW j \in Jobs, WriterStep(j)
        PROVE  TypeOK'
    <2>r. /\ [state |-> "running", names |-> {"sources"}] \in Rows
          /\ [state |-> "ended", names |-> Names] \in Rows
          /\ [row[j] EXCEPT !.state = "ended"] \in Rows
      BY DEF Names
    <2>k. Sources(j) \in Keys /\ Report(j) \in Keys /\ NamedOf(j) \subseteq Keys
      BY DEF Sources, Report, Keys, NamedOf, Names
    <2>1. CASE ReservePut(j)
      BY <2>1, <2>k DEF ReservePut, Put, Abandon, Sources
    <2>2. CASE ReserveAdmitted(j) \/ ReserveRefused(j) \/ ReserveUnsure(j)
      <3>1. row' \in [Jobs -> Rows]
        BY <2>2, <2>r DEF ReserveAdmitted, ReserveRefused, ReserveUnsure
      <3> QED
        BY <2>2, <3>1 DEF ReserveAdmitted, ReserveRefused, ReserveUnsure
    <2>3. CASE Unreserve(j)
      BY <2>3 DEF Unreserve, Removed
    <2>4. CASE SavePut(j) \/ SavePutAgain(j)
      BY <2>4, <2>k DEF SavePut, SavePutAgain, Put, Report
    <2>5. CASE SaveClear(j)
      BY <2>5 DEF SaveClear, Removed
    <2>6. CASE SaveWrite(j) \/ Retry(j) \/ SaveFailed(j)
      <3>1. row' \in [Jobs -> Rows]
        BY <2>6, <2>r DEF SaveWrite, Retry, SaveFailed
      <3> QED
        BY <2>6, <3>1 DEF SaveWrite, Retry, SaveFailed
    <2>7. CASE SaveRaises(j)
      <3>1. row' \in [Jobs -> Rows]
        BY <2>7, <2>r DEF SaveRaises
      <3> QED
        BY <2>7, <2>k, <3>1 DEF SaveRaises, Abandon, Report
    <2>8. CASE Delete(j)
      BY <2>8, <2>k DEF Delete
    <2> QED
      BY <1>2, <2>1, <2>2, <2>3, <2>4, <2>5, <2>6, <2>7, <2>8 DEF WriterStep
  <1>3. ASSUME NEW k \in Keys, ObjectStep(k)
        PROVE  TypeOK'
    <2>1. CASE LatePut(k)
      BY <2>1 DEF LatePut
    <2>2. CASE Remove(k)
      BY <2>2 DEF Remove, Removed
    <2>3. CASE SweepRemove(k)
      BY <2>3 DEF SweepRemove, Removed
    <2>4. CASE SweepRemoveRaises(k)
      BY <2>4 DEF SweepRemoveRaises
    <2>5. CASE Age(k)
      BY <2>5 DEF Age
    <2> QED
      BY <1>3, <2>1, <2>2, <2>3, <2>4, <2>5 DEF ObjectStep
  <1>4. ASSUME NEW r \in Readers, ReaderStep(r)
        PROVE  TypeOK'
    <2>1. ASSUME NEW j \in Jobs, ReadRow(r, j)
          PROVE  TypeOK'
      <3>1. NamedOf(j) \subseteq Keys
        BY DEF NamedOf, Keys
      <3> QED
        BY <2>1, <3>1 DEF ReadRow
    <2>2. ASSUME NEW k \in Keys, ReadObject(r, k)
          PROVE  TypeOK'
      BY <2>2 DEF ReadObject
    <2>3. CASE ReadAgain(r) \/ ReadEnd(r)
      BY <2>3 DEF ReadAgain, ReadEnd, Unread
    <2> QED
      BY <1>4, <2>1, <2>2, <2>3 DEF ReaderStep
  <1>5. CASE SweepList \/ SweepRead \/ SweepEnd
    BY <1>5 DEF SweepList, SweepRead, SweepEnd, NoSweep
  <1>6. CASE Crash
    BY <1>6 DEF Crash, NoSweep, Unread
  <1> QED
    BY <1>1, <1>2, <1>3, <1>4, <1>5, <1>6 DEF Next
-----------------------------------------------------------------------------
(* A writer touches its own job only.                                      *)
LEMMA OthersUntouched ==
  ASSUME TypeOK, NEW j \in Jobs, WriterStep(j), NEW i \in Jobs, i # j
  PROVE  /\ row'[i] = row[i] /\ op'[i] = op[i]
         /\ \A n \in Names : object'[<<i, n>>] = object[<<i, n>>]
         /\ \A n \in Names : <<i, n>> \in late' => <<i, n>> \in late
         /\ \A n \in Names : <<i, n>> \in doomed' => <<i, n>> \in doomed
         /\ sweep' = sweep /\ reader' = reader
  <1> \A n \in Names : <<i, n>> \in Keys /\ <<i, n>> # <<j, "sources">> /\ <<i, n>> # <<j, "report">>
    BY DEF Keys
  <1> USE DEF TypeOK
  <1>1. CASE ReservePut(j)
    BY <1>1 DEF ReservePut, Put, Abandon
  <1>2. CASE ReserveAdmitted(j) \/ ReserveRefused(j) \/ ReserveUnsure(j) \/ Unreserve(j)
    BY <1>2 DEF ReserveAdmitted, ReserveRefused, ReserveUnsure, Unreserve, Removed
  <1>3. CASE SavePut(j) \/ SaveClear(j) \/ SavePutAgain(j)
    BY <1>3 DEF SavePut, SaveClear, SavePutAgain, Put, Removed
  <1>4. CASE SaveWrite(j) \/ SaveRaises(j)
    BY <1>4 DEF SaveWrite, SaveRaises, Abandon
  <1>5. CASE Retry(j) \/ SaveFailed(j)
    BY <1>5 DEF Retry, SaveFailed
  <1>6. CASE Delete(j)
    BY <1>6 DEF Delete, NamedOf
  <1> QED
    BY <1>1, <1>2, <1>3, <1>4, <1>5, <1>6 DEF WriterStep

(* What a writer may never do, nor any step: take a name back before the   *)
(* job is deleted, or forget that an admission raised.                     *)
LEMMA NamesGrow ==
  ASSUME TypeOK, NEW j \in Jobs, WriterInv(j), WriterStep(j)
  PROVE  /\ Stranded(j) => Stranded(j)'
         /\ row[j].state = "usage" => row'[j].state = "usage"
         /\ row[j].names \subseteq row'[j].names \/ row'[j].state = "usage"
  <1> USE DEF TypeOK, WriterInv, Stranded, Stranding, InFlight, Admitting, Ending, NoRow
  <1>1. CASE ReservePut(j) \/ ReserveAdmitted(j) \/ ReserveRefused(j) \/ ReserveUnsure(j)
    BY <1>1 DEF ReservePut, ReserveAdmitted, ReserveRefused, ReserveUnsure
  <1>2. CASE Unreserve(j)
    BY <1>2 DEF Unreserve
  <1>3. CASE SavePut(j) \/ SaveClear(j) \/ SavePutAgain(j)
    BY <1>3 DEF SavePut, SaveClear, SavePutAgain
  <1>4. CASE SaveWrite(j) \/ SaveRaises(j)
    BY <1>4 DEF SaveWrite, SaveRaises
  <1>5. CASE Retry(j) \/ SaveFailed(j)
    BY <1>5 DEF Retry, SaveFailed
  <1>6. CASE Delete(j)
    BY <1>6 DEF Delete
  <1> QED
    BY <1>1, <1>2, <1>3, <1>4, <1>5, <1>6 DEF WriterStep
-----------------------------------------------------------------------------
(* A writer's step keeps the part of its job.                              *)
LEMMA WriterKept ==
  ASSUME TypeOK, TypeOK', NEW j \in Jobs, JobInv(j), WriterStep(j)
  PROVE  JobInv(j)'
  <1>k. /\ Sources(j) \in Keys /\ Report(j) \in Keys /\ Sources(j) # Report(j)
        /\ <<j, "sources">> = Sources(j) /\ <<j, "report">> = Report(j)
    BY DEF Sources, Report, Keys, Names
  <1>n. \A n \in Names : n = "sources" \/ n = "report"
    BY DEF Names
  <1>s. op[j] \in {"running"} \cup Ending => object[Sources(j)] # "none" /\ row[j].names = {"sources"}
    BY <1>k DEF JobInv, WriterInv, ObjectInv, NamedOf, InFlight, Stranded, Stranding, Ending, Stored
  <1> USE DEF TypeOK, JobInv, WriterInv, ObjectInv, RemovalInv, Untouched, Unclaimed,
              Stranded, Stranding, InFlight, Admitting, Ending, NoRow, Stored, NamedOf, Names
  <1>1. CASE ReservePut(j)
    BY <1>1, <1>k, <1>n DEF ReservePut, Put, Abandon
  <1>2. CASE ReserveAdmitted(j)
    <2>1. /\ row'[j].state = "running" /\ row'[j].names = {"sources"} /\ op'[j] = "running"
          /\ object' = object /\ object[Sources(j)] # "none"
          /\ late' = late /\ doomed' = doomed /\ sweep' = sweep
          /\ op[j] = "reserving" /\ row[j].state = "none"
      BY <1>2, <1>k DEF ReserveAdmitted
    <2>2. WriterInv(j)'
      BY <2>1, <1>k, <1>n
    <2>3. ObjectInv(j)'
      <3>1. \A n \in row'[j].names : object'[<<j, n>>] # "none"
        BY <2>1, <1>k
      <3> QED
        BY <2>1, <3>1
    <2>4. RemovalInv(j)'
      <3>1. Unclaimed(Sources(j)) /\ Unclaimed(Report(j))
        BY <2>1
      <3>2. \A n \in Names : <<j, n>> = Sources(j) \/ <<j, n>> = Report(j)
        BY <1>k
      <3> QED
        BY <2>1, <3>1, <3>2
    <2> QED
      BY <2>2, <2>3, <2>4
  <1>3. CASE ReserveRefused(j)
    BY <1>3, <1>k, <1>n DEF ReserveRefused
  <1>4. CASE ReserveUnsure(j)
    <2>1. /\ row'[j].state = "running" /\ row'[j].names = {"sources"} /\ op'[j] = "unreserving"
          /\ object' = object /\ object[Sources(j)] # "none"
          /\ late' = late /\ doomed' = doomed /\ sweep' = sweep
          /\ op[j] = "reserving" /\ row[j].state = "none"
      BY <1>4, <1>k DEF ReserveUnsure
    <2>2. WriterInv(j)'
      BY <2>1, <1>k, <1>n
    <2>3. ObjectInv(j)'
      <3>1. \A n \in row'[j].names : object'[<<j, n>>] # "none"
        BY <2>1, <1>k
      <3> QED
        BY <2>1, <3>1
    <2>4. RemovalInv(j)'
      <3>1. Unclaimed(Sources(j)) /\ Unclaimed(Report(j))
        BY <2>1
      <3>2. \A n \in Names : <<j, n>> = Sources(j) \/ <<j, n>> = Report(j)
        BY <1>k
      <3> QED
        BY <2>1, <3>1, <3>2
    <2> QED
      BY <2>2, <2>3, <2>4
  <1>5. CASE Unreserve(j)
    <2>1. /\ row' = row /\ late' = late /\ doomed' = doomed /\ sweep' = sweep
          /\ op'[j] = "stranded" \/ (op'[j] = "none" /\ row[j].state = "none")
      BY <1>5 DEF Unreserve, Removed
    <2>2. WriterInv(j)'
      BY <1>5, <2>1, <1>k, <1>n DEF Unreserve, Removed
    <2>3. ObjectInv(j)'
      BY <1>5, <2>1, <1>k, <1>n DEF Unreserve, Removed
    <2>4. RemovalInv(j)'
      BY <1>5, <2>1, <1>k, <1>n DEF Unreserve, Removed
    <2> QED
      BY <2>2, <2>3, <2>4
  <1>6. CASE SavePut(j)
    <2>1. /\ row' = row /\ row[j].names = {"sources"} /\ op'[j] \in Ending
          /\ object'[Sources(j)] # "none" /\ object'[Report(j)] # "none"
      <3>1. op[j] = "running" /\ op'[j] \in {"put", "clearing"} /\ row' = row
        BY <1>6 DEF SavePut
      <3>2. CASE Put(<<j, "report">>)
        <4>1. object'[Sources(j)] = object[Sources(j)] /\ object'[Report(j)] = "young"
          BY <3>2, <1>k DEF Put
        <4> QED
          BY <3>1, <4>1, <1>s
      <3>3. CASE Stored(<<j, "report">>) /\ object' = object
        <4>1. object'[Report(j)] # "none" /\ object' = object
          BY <3>3 DEF Report
        <4> QED
          BY <3>1, <4>1, <1>s
      <3> QED
        BY <1>6, <3>2, <3>3 DEF SavePut
    <2>2. WriterInv(j)'
      BY <1>6, <2>1, <1>k, <1>n DEF SavePut, Put
    <2>3. ObjectInv(j)'
      <3>1. \A n \in row'[j].names : object'[<<j, n>>] # "none"
        BY <2>1, <1>s, <1>k, <1>n
      <3> QED
        BY <2>1, <3>1, <1>k, <1>n
    <2>4. RemovalInv(j)'
      BY <1>6, <2>1, <1>k, <1>n DEF SavePut, Put
    <2> QED
      BY <2>2, <2>3, <2>4
  <1>7. CASE SaveClear(j)
    <2>1. /\ row' = row /\ row[j].names = {"sources"} /\ op'[j] = "cleared"
          /\ object'[Sources(j)] # "none"
      BY <1>7, <1>s, <1>k DEF SaveClear, Removed
    <2>2. WriterInv(j)'
      BY <1>7, <2>1, <1>k, <1>n DEF SaveClear, Removed
    <2>3. ObjectInv(j)'
      <3>1. \A n \in row'[j].names : object'[<<j, n>>] # "none"
        BY <2>1, <1>s, <1>k, <1>n
      <3> QED
        BY <2>1, <3>1, <1>k, <1>n
    <2>4. RemovalInv(j)'
      BY <1>7, <2>1, <1>k, <1>n DEF SaveClear, Removed
    <2> QED
      BY <2>2, <2>3, <2>4
  <1>8. CASE SavePutAgain(j)
    <2>1. /\ row' = row /\ row[j].names = {"sources"} /\ op'[j] = "put"
          /\ object'[Sources(j)] # "none" /\ object'[Report(j)] # "none"
      BY <1>8, <1>s, <1>k DEF SavePutAgain, Put
    <2>2. WriterInv(j)'
      BY <1>8, <2>1, <1>k, <1>n DEF SavePutAgain, Put
    <2>3. ObjectInv(j)'
      <3>1. \A n \in row'[j].names : object'[<<j, n>>] # "none"
        BY <2>1, <1>s, <1>k, <1>n
      <3> QED
        BY <2>1, <3>1, <1>k, <1>n
    <2>4. RemovalInv(j)'
      BY <1>8, <2>1, <1>k, <1>n DEF SavePutAgain, Put
    <2> QED
      BY <2>2, <2>3, <2>4
  <1>9. CASE SaveWrite(j)
    <2>1. /\ row'[j].state = "ended" /\ row'[j].names = {"sources", "report"} /\ op'[j] = "none"
          /\ object' = object /\ object[Sources(j)] # "none" /\ object[Report(j)] # "none"
      BY <1>9, <1>s, <1>k DEF SaveWrite
    <2>2. WriterInv(j)'
      BY <1>9, <2>1, <1>k, <1>n DEF SaveWrite
    <2>3. ObjectInv(j)'
      <3>1. \A n \in row'[j].names : object'[<<j, n>>] # "none"
        BY <2>1, <1>s, <1>k, <1>n
      <3> QED
        BY <2>1, <3>1, <1>k, <1>n
    <2>4. RemovalInv(j)'
      BY <1>9, <2>1, <1>k, <1>n DEF SaveWrite
    <2> QED
      BY <2>2, <2>3, <2>4
  <1>10. CASE SaveRaises(j)
    <2>1. /\ op'[j] = "raised" /\ op[j] \in {"running"} \cup Ending
          /\ object' = object /\ object[Sources(j)] # "none"
          /\ \/ (row'[j] = row[j] /\ row[j].names = {"sources"})
             \/ /\ row'[j].state = "ended" /\ row'[j].names = {"sources", "report"}
                /\ object[Report(j)] # "none"
      BY <1>10, <1>s, <1>k DEF SaveRaises, Abandon
    <2>2. WriterInv(j)'
      BY <1>10, <2>1, <1>k, <1>n DEF SaveRaises, Abandon
    <2>3. ObjectInv(j)'
      <3>1. \A n \in row'[j].names : object'[<<j, n>>] # "none"
        BY <2>1, <1>s, <1>k, <1>n
      <3> QED
        BY <2>1, <3>1, <1>k, <1>n
    <2>4. RemovalInv(j)'
      BY <1>10, <2>1, <1>k, <1>n DEF SaveRaises, Abandon
    <2> QED
      BY <2>2, <2>3, <2>4
  <1>11. CASE Retry(j)
    BY <1>11, <1>k, <1>n DEF Retry
  <1>12. CASE SaveFailed(j)
    <2>1. row'[j].state = "ended" /\ row'[j].names = row[j].names /\ op'[j] = "none"
      BY <1>12 DEF SaveFailed
    <2>2. WriterInv(j)'
      BY <1>12, <2>1, <1>k, <1>n DEF SaveFailed
    <2>3. ObjectInv(j)'
      BY <1>12, <2>1, <1>k, <1>n DEF SaveFailed
    <2>4. RemovalInv(j)'
      BY <1>12, <2>1, <1>k, <1>n DEF SaveFailed
    <2> QED
      BY <2>2, <2>3, <2>4
  <1>13. CASE Delete(j)
    <2>1. /\ row'[j].state = "usage" /\ row'[j].names = {} /\ op' = op
          /\ row[j].state = "ended" /\ object' = object /\ late' = late /\ sweep' = sweep
          /\ \A k \in doomed' : k \in doomed \/ k \in NamedOf(j)
      BY <1>13 DEF Delete
    <2>2. WriterInv(j)'
      BY <1>13, <2>1, <1>k, <1>n DEF Delete
    <2>3. ObjectInv(j)'
      BY <1>13, <2>1, <1>k, <1>n DEF Delete
    <2>4. RemovalInv(j)'
      BY <1>13, <2>1, <1>k, <1>n DEF Delete
    <2> QED
      BY <2>2, <2>3, <2>4
  <1> QED
    BY <1>1, <1>2, <1>3, <1>4, <1>5, <1>6, <1>7, <1>8, <1>9, <1>10, <1>11, <1>12, <1>13
       DEF WriterStep
-----------------------------------------------------------------------------
(* A step that writes or removes an object, or takes one from somebody's   *)
(* hands, and writes no row: what it removes is not named, nor to be named.*)
LEMMA ObjectKept ==
  ASSUME TypeOK, TypeOK', NEW j \in Jobs, JobInv(j),
         row' = row, op' = op,
         late' \subseteq late, doomed' \subseteq doomed,
         sweep'.keys \subseteq sweep.keys, sweep'.step = sweep.step,
         \A n \in Names :
           /\ object[<<j, n>>] = "none" => object'[<<j, n>>] = "none" \/ <<j, n>> \in late
           /\ object'[<<j, n>>] = "none" => \/ object[<<j, n>>] = "none"
                                           \/ <<j, n>> \in doomed
                                           \/ (<<j, n>> \in sweep.keys /\ sweep.step = "removing")
           /\ op[j] = "reserving" /\ object[<<j, n>>] = "young" =>
                object'[<<j, n>>] \in {"young", "none"}
  PROVE  JobInv(j)'
  <1>k. /\ <<j, "sources">> = Sources(j) /\ <<j, "report">> = Report(j)
        /\ "sources" \in Names /\ "report" \in Names
    BY DEF Sources, Report, Names
  <1> HIDE DEF Names, Sources, Report
  <1>1. WriterInv(j)'
    BY DEF JobInv, WriterInv, InFlight
  <1>2. ASSUME NEW n \in Names, object[<<j, n>>] # "none",
               ~ (<<j, n>> \in doomed \/ (<<j, n>> \in sweep.keys /\ sweep.step = "removing"))
        PROVE  object'[<<j, n>>] # "none"
    BY <1>2
  <1>3. ObjectInv(j)'
    <2>1. op[j] = "reserving" => object'[Sources(j)] = "young"
      <3>1. op[j] = "reserving" => Unclaimed(Sources(j)) /\ object[Sources(j)] = "young"
        BY DEF JobInv, ObjectInv, RemovalInv
      <3> QED
        BY <3>1, <1>2, <1>k DEF Unclaimed
    <2>2. op[j] = "put" => object'[Report(j)] # "none"
      <3>1. op[j] = "put" => row[j].state = "running" /\ object[Report(j)] # "none"
        BY DEF JobInv, WriterInv, ObjectInv, Stored, InFlight, Ending
      <3> QED
        BY <3>1, <1>2, <1>k DEF JobInv, RemovalInv, InFlight
    <2>3. ASSUME ~Stranded(j), NEW n \in row[j].names
          PROVE  object'[<<j, n>>] # "none"
      <3>1. n \in Names
        BY DEF TypeOK
      <3>2. object[<<j, n>>] # "none" /\ row[j].state # "usage"
        BY <2>3 DEF JobInv, ObjectInv, WriterInv, Stored
      <3> QED
        BY <1>2, <3>1, <3>2 DEF JobInv, RemovalInv
    <2> QED
      BY <2>1, <2>2, <2>3 DEF ObjectInv, Stored, Stranded, Stranding
  <1>4. RemovalInv(j)'
    <2>1. ASSUME NEW n \in Names, Unclaimed(<<j, n>>)
          PROVE  Unclaimed(<<j, n>>)' /\ (object[<<j, n>>] = "none" => object'[<<j, n>>] = "none")
      BY <2>1 DEF Unclaimed
    <2>2. \A n \in Names : Untouched(<<j, n>>) => Untouched(<<j, n>>)'
      BY <2>1 DEF Untouched, Stored
    <2> QED
      BY <2>1, <2>2, <1>k DEF JobInv, RemovalInv, InFlight
  <1> QED
    BY <1>1, <1>3, <1>4 DEF JobInv

(* The steps over one object keep both parts.                              *)
LEMMA ObjectStepKeeps ==
  ASSUME Inv, TypeOK', NEW k \in Keys, ObjectStep(k)
  PROVE  Inv'
  <1> USE DEF Inv
  <1>1. ASSUME NEW j \in Jobs
        PROVE  JobInv(j)'
    <2>1. ASSUME NEW q \in Keys
          PROVE  /\ object[q] = "none" => object'[q] = "none" \/ q \in late
                 /\ object'[q] = "none" => \/ object[q] = "none"
                                          \/ q \in doomed
                                          \/ (q \in sweep.keys /\ sweep.step = "removing")
                 /\ op[q[1]] = "reserving" /\ object[q] = "young" => object'[q] \in {"young", "none"}
      <3> USE DEF TypeOK
      <3>1. CASE LatePut(k)
        <4>1. object'[q] = object[q] \/ (q \in late /\ object[q] = "none" /\ object'[q] = "young")
          BY <3>1 DEF LatePut, Stored
        <4> QED
          BY <4>1
      <3>2. CASE Remove(k)
        <4>1. object'[q] = object[q] \/ (object'[q] = "none" /\ q \in doomed)
          BY <3>2 DEF Remove, Removed
        <4> QED
          BY <4>1
      <3>3. CASE SweepRemove(k)
        BY <3>3 DEF SweepRemove, Removed
      <3>4. CASE SweepRemoveRaises(k)
        BY <3>4 DEF SweepRemoveRaises
      <3>5. CASE Age(k)
        <4>1. \/ object'[q] = object[q]
              \/ (q = k /\ object'[q] = "old" /\ object[q] = "young" /\ op[q[1]] # "reserving")
          BY <3>5 DEF Age
        <4> QED
          BY <4>1
      <3> QED
        BY <3>1, <3>2, <3>3, <3>4, <3>5 DEF ObjectStep
    <2>2. \A n \in Names : <<j, n>> \in Keys /\ <<j, n>>[1] = j
      BY DEF Keys
    <2>3. /\ row' = row /\ op' = op /\ late' \subseteq late /\ doomed' \subseteq doomed
          /\ sweep'.keys \subseteq sweep.keys /\ sweep'.step = sweep.step
      BY DEF TypeOK, ObjectStep, LatePut, Remove, SweepRemove, SweepRemoveRaises, Age
    <2> QED
      BY <2>1, <2>2, <2>3, ObjectKept
  <1>2. row' = row /\ op' = op /\ reader' = reader
    BY DEF ObjectStep, LatePut, Remove, SweepRemove, SweepRemoveRaises, Age
  <1>3. ASSUME NEW r \in Readers
        PROVE  ReaderInv(r)'
    BY <1>2, ReadersKept DEF Stranded, Stranding
  <1> QED
    BY <1>1, <1>3

(* The sweep takes into its hands what is old, and drops what a row names. *)
LEMMA SweepKeeps ==
  ASSUME Inv, TypeOK', SweepList \/ SweepRead \/ SweepEnd
  PROVE  Inv'
  <1> USE DEF Inv
  <1>1. /\ row' = row /\ op' = op /\ reader' = reader
        /\ object' = object /\ late' = late /\ doomed' = doomed
    BY DEF SweepList, SweepRead, SweepEnd
  <1>2. ASSUME NEW j \in Jobs
        PROVE  JobInv(j)'
    <2>1. WriterInv(j)' /\ ObjectInv(j)'
      BY <1>1 DEF JobInv, WriterInv, ObjectInv, InFlight, Stored, Stranded, Stranding
    <2>2. ASSUME NEW n \in Names, <<j, n>> \in sweep'.keys
          PROVE  /\ <<j, n>> \in sweep.keys \/ object[<<j, n>>] = "old"
                 /\ sweep'.step = "removing" => ~InFlight(j) /\ n \notin row[j].names
      <3>1. <<j, n>> \in Keys /\ <<j, n>>[1] = j
        BY DEF Keys
      <3>2. n \in row[j].names => <<j, n>> \in Kept
        <4>1. n \in row[j].names => <<j, n>> \in NamedOf(j)
          BY DEF NamedOf
        <4> QED
          BY <4>1 DEF Kept
      <3>3. InFlight(j) => <<j, n>> \in Kept
        <4>1. InFlight(j) => <<j, n>> \in {k \in Keys : InFlight(k[1])}
          BY <3>1
        <4> QED
          BY <4>1 DEF Kept
      <3> QED
        BY <2>2, <3>1, <3>2, <3>3 DEF SweepList, SweepRead, SweepEnd, NoSweep
    <2>3. RemovalInv(j)'
      BY <1>1, <2>2 DEF JobInv, ObjectInv, RemovalInv, Untouched, Unclaimed, Stored, InFlight,
                        Sources, Report, Names, Admitting
    <2> QED
      BY <2>1, <2>3 DEF JobInv
  <1>3. ASSUME NEW r \in Readers
        PROVE  ReaderInv(r)'
    BY <1>1, ReadersKept DEF Stranded, Stranding
  <1> QED
    BY <1>2, <1>3

(* A read writes nothing; and an object it misses was never to be read, or *)
(* its job is being deleted, or its admission raised.                      *)
LEMMA ReaderKeeps ==
  ASSUME Inv, TypeOK', NEW r \in Readers, ReaderStep(r)
  PROVE  Inv'
  <1> USE DEF Inv
  <1>1. /\ row' = row /\ op' = op /\ object' = object
        /\ late' = late /\ doomed' = doomed /\ sweep' = sweep
        /\ \A s \in Readers \ {r} : reader'[s] = reader[s]
    BY DEF ReaderStep, ReadRow, ReadObject, ReadAgain, ReadEnd, TypeOK
  <1>2. \A j \in Jobs : JobInv(j)'
    BY <1>1 DEF JobInv, WriterInv, ObjectInv, RemovalInv, Untouched, Unclaimed, Stored, InFlight,
                Stranded, Stranding
  <1>3. \A s \in Readers \ {r} : ReaderInv(s)'
    BY <1>1 DEF ReaderInv, NamedOf, Stranded, Stranding
  <1>4. ReaderInv(r)'
    <2>1. ASSUME NEW j \in Jobs, ReadRow(r, j)
          PROVE  ReaderInv(r)'
      <3>1. reader'[r].step = "objects" /\ reader'[r].keys = NamedOf(j) /\ row' = row
        BY <2>1 DEF ReadRow, TypeOK
      <3>2. \A k \in NamedOf(j) : k[1] = j
        BY DEF NamedOf
      <3> QED
        BY <3>1, <3>2 DEF ReaderInv, NamedOf
    <2>2. ASSUME NEW k \in Keys, ReadObject(r, k)
          PROVE  ReaderInv(r)'
      <3>1. PICK j \in Jobs, n \in Names : k = <<j, n>>
        BY DEF Keys
      <3>2. k[1] = j
        BY <3>1
      <3>3. CASE Stored(k)
        <4>1. reader'[r].step = "objects" /\ reader'[r].keys \subseteq reader[r].keys
          BY <2>2, <3>3 DEF ReadObject, TypeOK
        <4> QED
          BY <2>2, <4>1, <1>1 DEF ReadObject, ReaderInv, NamedOf
      <3>4. CASE ~Stored(k)
        <4>1. reader'[r].step = "missing" /\ reader'[r].keys = {k}
          BY <2>2, <3>4 DEF ReadObject, TypeOK
        <4>2. n \in row[j].names \/ row[j].state = "usage"
          BY <2>2, <3>1, <3>2 DEF ReadObject, ReaderInv, NamedOf
        <4>3. Stranded(j) \/ row[j].state = "usage"
          BY <3>1, <3>4, <4>2 DEF JobInv, ObjectInv
        <4> QED
          BY <4>1, <4>3, <3>2, <1>1 DEF ReaderInv, Stranded, Stranding
      <3> QED
        BY <3>3, <3>4
    <2>3. CASE ReadAgain(r)
      <3>1. CASE reader'[r].step = "corrupt"
        <4>1. /\ reader[r].step = "missing" /\ reader'[r].keys = reader[r].keys
              /\ \E k \in reader[r].keys : RowHeld(k[1])
          BY <2>3, <3>1 DEF ReadAgain, TypeOK, Unread
        <4>2. PICK k \in Keys :
                /\ reader[r].keys = {k}
                /\ Stranded(k[1]) \/ row[k[1]].state = "usage"
          BY <4>1 DEF ReaderInv
        <4>3. RowHeld(k[1])
          BY <4>1, <4>2
        <4>4. Stranded(k[1])
          BY <4>2, <4>3 DEF RowHeld
        <4> QED
          BY <4>1, <4>2, <4>4, <3>1, <1>1 DEF ReaderInv, Stranded, Stranding
      <3>2. CASE reader'[r] = Unread
        BY <3>2 DEF Unread, ReaderInv
      <3> QED
        BY <2>3, <3>1, <3>2 DEF ReadAgain, TypeOK
    <2>4. CASE ReadEnd(r)
      BY <2>4 DEF ReadEnd, Unread, ReaderInv, TypeOK
    <2> QED
      BY <2>1, <2>2, <2>3, <2>4 DEF ReaderStep
  <1> QED
    BY <1>2, <1>3, <1>4

(* A crash empties every hand, and ends each job in flight.                *)
LEMMA CrashKeeps ==
  ASSUME Inv, TypeOK', Crash
  PROVE  Inv'
  <1> USE DEF Inv
  <1>1. ASSUME NEW j \in Jobs
        PROVE  JobInv(j)'
    <2>1. /\ row'[j].names = row[j].names
          /\ row'[j].state = IF InFlight(j) THEN "ended" ELSE row[j].state
          /\ ~InFlight(j) => row'[j] = row[j]
          /\ object' = object /\ late' = {} /\ doomed' = {} /\ sweep'.keys = {}
          /\ op'[j] = IF op[j] \in {"new", "stranded"} THEN op[j]
                     ELSE IF Stranding(j) THEN "stranded" ELSE "none"
      BY DEF Crash, NoSweep, TypeOK
    <2>2. WriterInv(j)'
      BY <2>1 DEF JobInv, WriterInv, InFlight, Admitting, Ending, NoRow
    <2>3. ObjectInv(j)'
      BY <2>1 DEF JobInv, WriterInv, ObjectInv, Stored, Stranded, Stranding, InFlight
    <2>4. RemovalInv(j)'
      BY <2>1 DEF JobInv, RemovalInv, Untouched, Unclaimed, Stored, Admitting
    <2> QED
      BY <2>2, <2>3, <2>4 DEF JobInv
  <1>2. ASSUME NEW r \in Readers
        PROVE  ReaderInv(r)'
    BY DEF Crash, Unread, ReaderInv
  <1> QED
    BY <1>1, <1>2

(* A step of the writer of a job keeps what is known of every job.         *)
LEMMA WriterKeeps ==
  ASSUME Inv, TypeOK', NEW j \in Jobs, WriterStep(j)
  PROVE  Inv'
  <1> USE DEF Inv
  <1>1. JobInv(j)'
    BY WriterKept
  <1>2. ASSUME NEW i \in Jobs, i # j
        PROVE  JobInv(i)'
    BY <1>2, OthersUntouched, JobKept DEF TypeOK
  <1>3. ASSUME NEW i \in Jobs
        PROVE  /\ Stranded(i) => Stranded(i)'
               /\ row[i].state = "usage" => row'[i].state = "usage"
               /\ row[i].names \subseteq row'[i].names \/ row'[i].state = "usage"
    BY OthersUntouched, NamesGrow DEF JobInv, Stranded, Stranding
  <1>4. reader' = reader
    BY DEF WriterStep, ReservePut, ReserveAdmitted, ReserveRefused, ReserveUnsure, Unreserve, SavePut,
           SaveClear, SavePutAgain, SaveWrite, SaveRaises, Retry, SaveFailed, Delete
  <1>5. ASSUME NEW r \in Readers
        PROVE  ReaderInv(r)'
    BY <1>3, <1>4, ReadersKept
  <1> QED
    BY <1>1, <1>2, <1>5
-----------------------------------------------------------------------------
(* The inductive invariant holds of a store with no row and no object.     *)
LEMMA InitInv == Init => Inv
  <1> SUFFICES ASSUME Init PROVE Inv
    OBVIOUS
  <1> USE DEF Init
  <1>1. TypeOK
    BY DEF TypeOK, NoRow, NoSweep, Unread
  <1>2. ASSUME NEW j \in Jobs
        PROVE  JobInv(j)
    <2>1. Sources(j) \in Keys /\ Report(j) \in Keys
      BY DEF Sources, Report, Keys, Names
    <2> QED
      BY <2>1 DEF JobInv, WriterInv, ObjectInv, RemovalInv, Untouched, Unclaimed, Stored, InFlight,
                  NoRow, NoSweep, Admitting, Ending
  <1>3. \A r \in Readers : ReaderInv(r)
    BY DEF ReaderInv, Unread
  <1> QED
    BY <1>1, <1>2, <1>3 DEF Inv

(* Every step keeps the inductive invariant.                               *)
LEMMA NextInv == Inv /\ [Next]_vars => Inv'
  <1> SUFFICES ASSUME Inv, [Next]_vars PROVE Inv'
    OBVIOUS
  <1>1. TypeOK'
    BY TypeInv DEF Inv
  <1>2. CASE UNCHANGED vars
    BY <1>2 DEF vars, Inv, TypeOK, JobInv, WriterInv, ObjectInv, RemovalInv, ReaderInv, Untouched,
                Unclaimed, Stored, InFlight, Stranded, Stranding, NamedOf
  <1>3. CASE Next
    BY <1>1, <1>3, WriterKeeps, ObjectStepKeeps, ReaderKeeps, SweepKeeps, CrashKeeps DEF Next
  <1> QED
    BY <1>2, <1>3

(* The inductive invariant holds in every behaviour of the two stores.     *)
THEOREM Invariance == Spec => []Inv
  BY InitInv, NextInv, PTL DEF Spec

(* The rows, the objects and what each actor has in hand keep their types. *)
THEOREM TypesHold == Spec => []TypeOK
  <1>1. Inv => TypeOK
    BY DEF Inv
  <1> QED
    BY <1>1, Invariance, PTL

(* A row never names an object that is not stored, whatever admissions,    *)
(* saves, retries, late writes, deletes, sweeps and crashes interleave,    *)
(* but where an admission raised after its commit.                         *)
THEOREM RowsNameStored == Spec => []NamedIsStored
  <1>1. Inv => NamedIsStored
    BY DEF Inv, JobInv, ObjectInv, NamedIsStored, NamedOf
  <1> QED
    BY <1>1, Invariance, PTL

(* No read of a whole job finds it corrupt, however it races a delete, a   *)
(* save, a sweep or a crash, but where an admission raised after its       *)
(* commit.                                                                 *)
THEOREM ReadsWhole == Spec => []ReadsAreWhole
  <1>1. Inv => ReadsAreWhole
    BY DEF Inv, ReaderInv, ReadsAreWhole
  <1> QED
    BY <1>1, Invariance, PTL
-----------------------------------------------------------------------------
(* Only a call that raises strands a job.                                  *)
NoneStranded == \A j \in Jobs : ~Stranded(j)

(* Where no call raises, no step strands a row.                            *)
LEMMA NoneStrands ==
  ASSUME CallsFail = FALSE, Inv, NoneStranded, [Next]_vars
  PROVE  NoneStranded'
  <1> USE DEF NoneStranded, Stranded, Stranding
  <1>t. TypeOK /\ \A j \in Jobs : WriterInv(j)
    BY DEF Inv, JobInv
  <1>1. CASE UNCHANGED vars
    BY <1>1 DEF vars
  <1>2. ASSUME NEW j \in Jobs, WriterStep(j)
        PROVE  NoneStranded'
    <2>1. \A i \in Jobs : i # j => row'[i] = row[i] /\ op'[i] = op[i]
      BY <1>2, <1>t, OthersUntouched
    <2>2. ~Stranded(j)'
      <3> USE <1>t DEF TypeOK, WriterInv, InFlight, Admitting, Ending, NoRow
      <3>1. CASE ReservePut(j) \/ ReserveAdmitted(j) \/ ReserveRefused(j) \/ ReserveUnsure(j)
        BY <3>1 DEF ReservePut, ReserveAdmitted, ReserveRefused, ReserveUnsure
      <3>2. CASE Unreserve(j)
        BY <3>2 DEF Unreserve
      <3>3. CASE SavePut(j) \/ SaveClear(j) \/ SavePutAgain(j)
        BY <3>3 DEF SavePut, SaveClear, SavePutAgain
      <3>4. CASE SaveWrite(j) \/ SaveRaises(j)
        BY <3>4 DEF SaveWrite, SaveRaises
      <3>5. CASE Retry(j) \/ SaveFailed(j)
        BY <3>5 DEF Retry, SaveFailed
      <3>6. CASE Delete(j)
        BY <3>6 DEF Delete
      <3> QED
        BY <1>2, <3>1, <3>2, <3>3, <3>4, <3>5, <3>6 DEF WriterStep
    <2> QED
      BY <2>1, <2>2
  <1>3. CASE \/ \E k \in Keys : ObjectStep(k)
             \/ \E r \in Readers : ReaderStep(r)
             \/ SweepList \/ SweepRead \/ SweepEnd
    <2>1. row' = row /\ op' = op
      BY <1>3 DEF ObjectStep, LatePut, Remove, SweepRemove, SweepRemoveRaises, Age,
                  ReaderStep, ReadRow, ReadObject, ReadAgain, ReadEnd, SweepList, SweepRead, SweepEnd
    <2> QED
      BY <2>1
  <1>4. CASE Crash
    BY <1>4, <1>t DEF Crash, TypeOK
  <1> QED
    BY <1>1, <1>2, <1>3, <1>4 DEF Next

(* Where no call raises, what sql_store.py says of a row holds without     *)
(* exception: it never names an object that is not stored.                 *)
THEOREM FaultlessRows == CallsFail = FALSE => (Spec => []RowsNameObjects)
  <1> SUFFICES ASSUME CallsFail = FALSE PROVE Spec => []RowsNameObjects
    OBVIOUS
  <1>1. Init => NoneStranded
    BY DEF Init, NoneStranded, Stranded, Stranding
  <1>2. Inv /\ NoneStranded /\ [Next]_vars => NoneStranded'
    BY NoneStrands
  <1>3. Inv /\ NoneStranded => RowsNameObjects
    BY DEF Inv, JobInv, ObjectInv, NoneStranded, RowsNameObjects, NamedOf
  <1> QED
    BY <1>1, <1>2, <1>3, Invariance, PTL DEF Spec
=============================================================================
