---------------------------- MODULE JobRun_proofs ----------------------------
(***************************************************************************)
(* Proofs about JobRun, for any readers and bounds: the worker's record    *)
(* extends the stored log through every save that raised, a worker that    *)
(* could read and write leaves its job ended, a run keeps its result, a    *)
(* stream delivers the log without gap or repetition, and what callers see *)
(* of the job is a behaviour of JobLog.                                    *)
(***************************************************************************)
EXTENDS JobRun, SequenceTheorems, TLAPS

-----------------------------------------------------------------------------
(***************************************************************************)
(* Lemmas about logs                                                       *)
(***************************************************************************)
(* A prefix agrees at each of its places.                                  *)
LEMMA PrefixAt ==
  ASSUME NEW S, NEW s \in Seq(S), NEW t \in Seq(S)
  PROVE  IsPrefix(s, t) <=> Len(s) <= Len(t) /\ \A i \in 1..Len(s) : s[i] = t[i]
  <1>1. Len(s) \in Nat /\ Len(t) \in Nat
    BY LenProperties
  <1>2. \A i \in 1..Len(s) : s[i] \in S
    BY ElementOfSeq
  <1>3. \A i \in 1..Len(t) : t[i] \in S
    BY ElementOfSeq
  <1>4. SubSeq(s, 1, Len(s)) = s
    BY SubSeqFull
  <1>5. ASSUME Len(s) <= Len(t)
        PROVE  /\ SubSeq(t, 1, Len(s)) \in Seq(S)
               /\ Len(SubSeq(t, 1, Len(s))) = Len(s)
               /\ \A i \in 1..Len(s) : SubSeq(t, 1, Len(s))[i] = t[i]
    <2>1. \A i \in 1..Len(s) : t[i] \in S
      BY <1>1, <1>3, <1>5
    <2>2. /\ SubSeq(t, 1, Len(s)) \in Seq(S)
          /\ Len(SubSeq(t, 1, Len(s))) = IF 1 <= Len(s) THEN Len(s) - 1 + 1 ELSE 0
          /\ \A i \in 1..(Len(s) - 1 + 1) : SubSeq(t, 1, Len(s))[i] = t[1 + i - 1]
      BY <1>1, <2>1, SubSeqProperties
    <2> QED
      BY <1>1, <2>2
  <1>6. ASSUME Len(s) <= Len(t), \A i \in 1..Len(s) : s[i] = t[i]
        PROVE  s = SubSeq(t, 1, Len(s))
    BY <1>5, <1>6, SeqEqual
  <1>7. ASSUME Len(s) <= Len(t), s = SubSeq(t, 1, Len(s)), NEW i \in 1..Len(s)
        PROVE  s[i] = t[i]
    BY <1>5, <1>7
  <1> QED
    BY <1>4, <1>6, <1>7 DEF IsPrefix

(* A log that gained events has what was a prefix of it as a prefix still. *)
LEMMA PrefixGrows ==
  ASSUME NEW S, NEW s \in Seq(S), NEW t \in Seq(S), NEW e \in S, IsPrefix(s, t)
  PROVE  IsPrefix(s, Append(t, e))
  <1>1. Len(s) \in Nat /\ Len(t) \in Nat
    BY LenProperties
  <1>2. /\ Append(t, e) \in Seq(S) /\ Len(Append(t, e)) = Len(t) + 1
        /\ \A i \in 1..Len(t) : Append(t, e)[i] = t[i]
    BY AppendProperties
  <1>3. Len(s) <= Len(t) /\ \A i \in 1..Len(s) : s[i] = t[i]
    BY PrefixAt
  <1>4. Len(s) <= Len(Append(t, e)) /\ \A i \in 1..Len(s) : s[i] = Append(t, e)[i]
    BY <1>1, <1>2, <1>3
  <1> QED
    BY <1>2, <1>4, PrefixAt

(* A log is a prefix of itself.                                            *)
LEMMA PrefixSelf ==
  ASSUME NEW S, NEW s \in Seq(S)
  PROVE  IsPrefix(s, s)
  BY PrefixAt, LenProperties

(* What a client has, and what of the rest of the log it is sent.          *)
LEMMA PrefixResumes ==
  ASSUME NEW S, NEW got \in Seq(S), NEW s \in Seq(S), IsPrefix(got, s),
         NEW n \in 0..Len(SubSeq(s, Len(got) + 1, Len(s)))
  PROVE  /\ got \o SubSeq(SubSeq(s, Len(got) + 1, Len(s)), 1, n) \in Seq(S)
         /\ IsPrefix(got \o SubSeq(SubSeq(s, Len(got) + 1, Len(s)), 1, n), s)
         /\ got \o SubSeq(s, Len(got) + 1, Len(s)) \in Seq(S)
         /\ got \o SubSeq(s, Len(got) + 1, Len(s)) = s
  <1> DEFINE u == SubSeq(s, Len(got) + 1, Len(s))
             v == SubSeq(u, 1, n)
  <1>1. Len(got) \in Nat /\ Len(s) \in Nat /\ Len(got) <= Len(s)
    BY LenProperties DEF IsPrefix
  <1>2. \A i \in 1..Len(got) : got[i] = s[i]
    BY PrefixAt
  <1>3. \A i \in 1..Len(s) : s[i] \in S
    BY ElementOfSeq
  <1>4. /\ u \in Seq(S) /\ Len(u) = Len(s) - Len(got)
        /\ \A i \in 1..Len(u) : u[i] = s[Len(got) + i]
    <2>1. \A i \in (Len(got) + 1)..Len(s) : s[i] \in S
      BY <1>1, <1>3
    <2>2. /\ u \in Seq(S)
          /\ Len(u) = IF Len(got) + 1 <= Len(s) THEN Len(s) - (Len(got) + 1) + 1 ELSE 0
          /\ \A i \in 1..(Len(s) - (Len(got) + 1) + 1) : u[i] = s[Len(got) + 1 + i - 1]
      BY <1>1, <2>1, SubSeqProperties
    <2> HIDE DEF u
    <2>3. Len(u) = Len(s) - Len(got)
      BY <1>1, <2>2
    <2>4. ASSUME NEW i \in 1..Len(u)
          PROVE  u[i] = s[Len(got) + i]
      <3>1. i \in 1..(Len(s) - (Len(got) + 1) + 1) /\ Len(got) + 1 + i - 1 = Len(got) + i
        BY <1>1, <2>3
      <3> QED
        BY <2>2, <3>1
    <2> QED
      BY <2>2, <2>3, <2>4
  <1> HIDE DEF u
  <1>n. n \in Nat /\ n <= Len(u)
    BY <1>1, <1>4 DEF u
  <1>5. /\ v \in Seq(S) /\ Len(v) = n
        /\ \A i \in 1..n : v[i] = s[Len(got) + i]
    <2>1. \A i \in 1..n : u[i] \in S
      BY <1>4, <1>n, ElementOfSeq
    <2>2. /\ v \in Seq(S) /\ Len(v) = IF 1 <= n THEN n - 1 + 1 ELSE 0
          /\ \A i \in 1..(n - 1 + 1) : v[i] = u[1 + i - 1]
      BY <1>n, <2>1, SubSeqProperties
    <2> HIDE DEF v
    <2> QED
      BY <1>n, <1>4, <2>2, <1>1
  <1> HIDE DEF v
  <1>6. /\ got \o v \in Seq(S) /\ Len(got \o v) = Len(got) + n
        /\ \A i \in 1..(Len(got) + n) : (got \o v)[i] = IF i <= Len(got) THEN got[i] ELSE v[i - Len(got)]
    BY <1>5, ConcatProperties
  <1>7. /\ got \o u \in Seq(S) /\ Len(got \o u) = Len(s)
        /\ \A i \in 1..Len(s) : (got \o u)[i] = IF i <= Len(got) THEN got[i] ELSE u[i - Len(got)]
    <2>1. /\ got \o u \in Seq(S) /\ Len(got \o u) = Len(got) + Len(u)
          /\ \A i \in 1..(Len(got) + Len(u)) :
               (got \o u)[i] = IF i <= Len(got) THEN got[i] ELSE u[i - Len(got)]
      BY <1>4, ConcatProperties
    <2> QED
      BY <2>1, <1>1, <1>4
  <1>8. \A i \in 1..(Len(got) + n) : (got \o v)[i] = s[i]
    <2> SUFFICES ASSUME NEW i \in 1..(Len(got) + n) PROVE (got \o v)[i] = s[i]
      OBVIOUS
    <2>1. CASE i <= Len(got)
      BY <2>1, <1>1, <1>n, <1>2, <1>6
    <2>2. CASE ~(i <= Len(got))
      <3>1. i - Len(got) \in 1..n /\ Len(got) + (i - Len(got)) = i
        BY <2>2, <1>1, <1>n
      <3> QED
        <4>1. (got \o v)[i] = v[i - Len(got)]
          BY <2>2, <1>1, <1>6
        <4> QED
          BY <3>1, <4>1, <1>5
    <2> QED
      BY <2>1, <2>2
  <1>9. \A i \in 1..Len(s) : (got \o u)[i] = s[i]
    <2> SUFFICES ASSUME NEW i \in 1..Len(s) PROVE (got \o u)[i] = s[i]
      OBVIOUS
    <2>1. CASE i <= Len(got)
      BY <2>1, <1>1, <1>2, <1>7
    <2>2. CASE ~(i <= Len(got))
      <3>1. i - Len(got) \in 1..Len(u) /\ Len(got) + (i - Len(got)) = i
        BY <2>2, <1>1, <1>4
      <3> QED
        <4>1. (got \o u)[i] = u[i - Len(got)]
          BY <2>2, <1>1, <1>7
        <4> QED
          BY <3>1, <4>1, <1>4
    <2> QED
      BY <2>1, <2>2
  <1>10. got \o u = s
    BY <1>7, <1>9, SeqEqual
  <1>11. IsPrefix(got \o v, s)
    <2>1. Len(got) + n <= Len(s)
      BY <1>1, <1>n, <1>4
    <2> QED
      BY <2>1, <1>6, <1>8, PrefixAt
  <1> QED
    BY <1>6, <1>7, <1>10, <1>11 DEF u, v
-----------------------------------------------------------------------------
(***************************************************************************)
(* The inductive invariant                                                 *)
(***************************************************************************)
InFlight == status \in {"queued", "running"}

Over == status \in Terminal \cup {"absent"}

(* A save is outstanding where the worker waits for one, and only there.   *)
CallInv == call # "none" <=> pc \in Saving

(* A job in flight has the events that brought it there.                   *)
LogInv ==
  /\ status = "queued" => Len(log) >= 1
  /\ status = "running" => Len(log) >= 2
  /\ status = "absent" => log = <<>>

(* How far the worker's record is ahead of the stored one.                 *)
StartInv ==
  /\ pc \in {"scheduled", "fetching"} => status = "queued"
  /\ pc = "starting" /\ call = "sent" =>
       /\ status = "queued"
       /\ copy.status = "running" /\ copy.log = Append(log, "running")
  /\ pc = "starting" /\ call = "landed" =>
       status = "running" /\ copy.status = "running" /\ copy.log = log

RunInv ==
  /\ pc = "running" => status = "running" /\ copy.status = "running" /\ copy.log = log
  /\ pc = "reporting" => status = "running" /\ copy.status = "running" /\ MaxNodes >= 1
  /\ pc = "reporting" /\ call = "sent" => copy.log = Append(log, "node")
  /\ pc = "reporting" /\ call = "landed" => copy.log = log

(* The last save may carry a node whose own save never landed.             *)
EndInv ==
  /\ pc = "ending" => copy.status \in Terminal
  /\ pc = "ending" /\ call = "sent" =>
       /\ status = "running"
       /\ \/ copy.log = Append(log, copy.status)
          \/ MaxNodes >= 1 /\ copy.log = Append(Append(log, "node"), copy.status)
  /\ pc = "fallback saving" /\ call = "sent" =>
       /\ InFlight
       /\ copy.status = "failed" /\ copy.log = Append(log, "failed")
  /\ pc \in {"ending", "fallback saving"} /\ call = "landed" => Over
  /\ pc = "gone" => Over

(* What became of the result of the run.                                   *)
ResultInv ==
  /\ result # "none" => pc \in {"ending", "falling back", "fallback saving", "gone", "left"}
  /\ result # "none" /\ pc = "ending" => copy.status \in {result, "failed"}
  /\ result # "none" /\ status \in Terminal => status \in {result, "failed"}

(* A stream is never ahead of the log, nor beside it.                      *)
StreamInv == \A r \in Readers : status = "absent" \/ IsPrefix(stream[r].got, log)

Inv ==
  /\ TypeOK /\ CallInv /\ LogInv
  /\ StartInv /\ RunInv /\ EndInv /\ ResultInv /\ StreamInv
-----------------------------------------------------------------------------
(* A record with one event more is a record.                               *)
LEMMA MovedTyped ==
  ASSUME NEW rec, rec.log \in Seq(Events), NEW s \in {"running"} \cup Terminal
  PROVE  /\ Moved(rec, s) \in Record
         /\ Moved(rec, s).status = s /\ Moved(rec, s).log = Append(rec.log, s)
  <1>1. s \in Events /\ s \in {"queued", "running"} \cup Terminal
    BY DEF Events
  <1>2. Append(rec.log, s) \in Seq(Events)
    BY <1>1, AppendProperties
  <1> QED
    BY <1>1, <1>2 DEF Moved, Record, Events

(* What a read leaves a client with is a log.                              *)
LEMMA StreamTyped ==
  ASSUME TypeOK, StreamInv, LogInv, NEW r \in Readers
  PROVE  /\ stream[r].got \o Unseen(r) \in Seq(Events)
         /\ status # "absent" => stream[r].got \o Unseen(r) = log
         /\ \A n \in 0..Len(Unseen(r)) :
              /\ stream[r].got \o SubSeq(Unseen(r), 1, n) \in Seq(Events)
              /\ status # "absent" => IsPrefix(stream[r].got \o SubSeq(Unseen(r), 1, n), log)
              /\ status = "absent" => stream[r].got \o SubSeq(Unseen(r), 1, n) = stream[r].got
         /\ status = "absent" => stream[r].got \o Unseen(r) = stream[r].got
  <1>1. stream[r].got \in Seq(Events) /\ log \in Seq(Events)
    BY DEF TypeOK
  <1>2. CASE status # "absent"
    <2>1. IsPrefix(stream[r].got, log)
      BY <1>2 DEF StreamInv
    <2>2. 0 \in 0..Len(Unseen(r))
      <3>1. Len(stream[r].got) \in Nat /\ Len(log) \in Nat
        BY <1>1, LenProperties
      <3>2. \A i \in (Len(stream[r].got) + 1)..Len(log) : log[i] \in Events
        BY <1>1, <3>1, ElementOfSeq
      <3>3. Unseen(r) \in Seq(Events)
        BY <3>1, <3>2, SubSeqProperties DEF Unseen
      <3> QED
        BY <3>3, LenProperties
    <2> QED
      BY <1>1, <1>2, <2>1, <2>2, PrefixResumes DEF Unseen
  <1>3. CASE status = "absent"
    <2>1. Len(stream[r].got) \in Nat /\ Len(log) = 0
      BY <1>1, <1>3, LenProperties, EmptySeq DEF LogInv
    <2>2. Unseen(r) = << >>
      BY <2>1, SubSeqEmpty DEF Unseen
    <2>3. \A n \in 0..Len(Unseen(r)) : SubSeq(Unseen(r), 1, n) = << >>
      <3>1. Len(Unseen(r)) = 0
        BY <2>2, EmptySeq
      <3> QED
        BY <3>1, SubSeqEmpty
    <2> QED
      BY <1>1, <1>3, <2>2, <2>3, ConcatEmptySeq
  <1> QED
    BY <1>2, <1>3

(* Every step keeps the types: a record grows by events only.              *)
LEMMA TypeInv == TypeOK /\ LogInv /\ StreamInv /\ [Next]_vars => TypeOK'
  <1> SUFFICES ASSUME TypeOK, LogInv, StreamInv, [Next]_vars
               PROVE  TypeOK'
    OBVIOUS
  <1> USE DEF TypeOK, Saving, Bounded
  <1>0. log \in Seq(Events) /\ copy \in Record /\ copy.log \in Seq(Events)
    BY DEF Record, Events
  <1>1. CASE UNCHANGED vars
    BY <1>1 DEF vars
  <1>2. CASE Begin \/ FetchRaises \/ SaveRaises \/ Started \/ Reported \/ Finish \/ FallBackRaises
    BY <1>2 DEF Begin, FetchRaises, SaveRaises, Started, Reported, Finish, FallBackRaises, Bind
  <1>3. CASE Fetch \/ FallBack
    <2>1. \A s \in {"running", "failed"} : Moved([status |-> status, log |-> log], s) \in Record
      BY <1>0, MovedTyped DEF Terminal
    <2> QED
      BY <1>3, <2>1 DEF Fetch, FallBack, FallBackOf
  <1>4. CASE Land
    BY <1>4, <1>0 DEF Land, Record
  <1>5. CASE Report
    <2>1. Append(copy.log, "node") \in Seq(Events)
      BY <1>0, AppendProperties DEF Events
    <2>2. [copy EXCEPT !.log = Append(copy.log, "node")] \in Record
      BY <2>1 DEF Record, Events
    <2> QED
      BY <1>5, <2>2 DEF Report
  <1>6. CASE Return \/ Raise \/ TimedOut
    <2>1. \A s \in Terminal : Moved(copy, s) \in Record
      BY <1>0, MovedTyped
    <2>2. Outcomes \subseteq Terminal /\ {"failed", "stopped"} \subseteq Terminal
      BY DEF Outcomes, Terminal
    <2>3. \A s \in Terminal : EndRun(s) => copy' \in Record /\ pc' = "ending" /\ call' = "sent"
                                        /\ scope' = "none"
                                        /\ UNCHANGED <<status, log, asked, stream>>
      BY <2>1 DEF EndRun
    <2>4. result' \in {"none", "failed"} \cup Outcomes
      BY <1>6 DEF Return, Raise, TimedOut
    <2>5. \E s \in Terminal : EndRun(s)
      BY <1>6, <2>2 DEF Return, Raise, TimedOut, EndAs
    <2> QED
      BY <2>3, <2>4, <2>5
  <1>7. CASE Deadline \/ Stop \/ Expire
    BY <1>7 DEF Deadline, Stop, Expire
  <1>8. CASE Delete
    BY <1>8, EmptySeq DEF Delete
  <1>9. CASE Restart
    <2>1. Append(log, "failed") \in Seq(Events)
      BY <1>0, AppendProperties DEF Events, Terminal
    <2>2. NoRecord \in Record
      BY EmptySeq DEF NoRecord, Record
    <2>3. status' \in {"queued", "running", "absent"} \cup Terminal /\ log' \in Seq(Events)
      BY <1>9, <2>1 DEF Restart, Terminal
    <2>4. stream' \in [Readers -> [at : {"away", "reading", "read"}, gone : BOOLEAN,
                                   saw : {"queued", "running"} \cup Terminal,
                                   got : Seq(Events)]]
      BY <1>9 DEF Restart, Idle
    <2> QED
      BY <1>9, <2>2, <2>3, <2>4 DEF Restart
  <1>10. ASSUME NEW r \in Readers, ReaderStep(r)
         PROVE  TypeOK'
    <2> DEFINE Streams == [at : {"away", "reading", "read"}, gone : BOOLEAN,
                           saw : {"queued", "running"} \cup Terminal, got : Seq(Events)]
    <2>1. UNCHANGED <<store, worker>>
      BY <1>10 DEF ReaderStep, Connect, Leave, ReadStatus, Send, SendToNobody
    <2>2. stream' \in [Readers -> Streams]
      <3>s. stream \in [Readers -> Streams]
        OBVIOUS
      <3>1. CASE Connect(r)
        BY <3>1, <3>s DEF Connect
      <3>2. CASE Leave(r)
        BY <3>2, <3>s DEF Leave
      <3>3. CASE ReadStatus(r)
        <4>1. Close(r) \in [Readers -> Streams]
          BY <3>s DEF Close
        <4>2. CASE status = "absent"
          BY <3>3, <4>1, <4>2 DEF ReadStatus
        <4>3. CASE status # "absent"
          BY <3>3, <3>s, <4>3 DEF ReadStatus
        <4> QED
          BY <4>2, <4>3
      <3>4. CASE Send(r)
        BY <3>4, <3>s, StreamTyped DEF Send
      <3>5. CASE SendToNobody(r)
        <4>1. PICK n \in 0..Len(Unseen(r)) :
                stream' = [stream EXCEPT
                  ![r].got  = @ \o SubSeq(Unseen(r), 1, n),
                  ![r].at   = IF Ends(stream[r]) THEN "away" ELSE "reading"]
          BY <3>5 DEF SendToNobody
        <4>2. stream[r].got \o SubSeq(Unseen(r), 1, n) \in Seq(Events)
          BY StreamTyped
        <4> QED
          BY <4>1, <4>2, <3>s
      <3> QED
        BY <1>10, <3>1, <3>2, <3>3, <3>4, <3>5 DEF ReaderStep
    <2> QED
      BY <2>1, <2>2 DEF store, worker
  <1> QED
    BY <1>1, <1>2, <1>3, <1>4, <1>5, <1>6, <1>7, <1>8, <1>9, <1>10 DEF Next, WorkerStep
-----------------------------------------------------------------------------
(***************************************************************************)
(* What each step does to the store                                        *)
(***************************************************************************)
(* A save that lands: the events the log gains are those of one step of    *)
(* the job's life, and a node at most before them.                         *)
LEMMA Landed ==
  ASSUME Inv, Land
  PROVE  /\ status' = copy.status /\ log' = copy.log
         /\ \/ pc = "starting" /\ status = "queued" /\ status' = "running"
               /\ log' = Append(log, "running")
            \/ pc = "reporting" /\ status = "running" /\ status' = "running"
               /\ log' = Append(log, "node") /\ MaxNodes >= 1
            \/ pc = "ending" /\ status = "running" /\ status' \in Terminal
               /\ \/ log' = Append(log, status')
                  \/ MaxNodes >= 1 /\ log' = Append(Append(log, "node"), status')
            \/ pc = "fallback saving" /\ InFlight /\ status' = "failed"
               /\ log' = Append(log, "failed")
  <1>1. call = "sent" /\ status' = copy.status /\ log' = copy.log
    BY DEF Land
  <1>2. pc \in Saving
    BY <1>1 DEF Inv, CallInv
  <1>3. CASE pc = "starting"
    BY <1>1, <1>3 DEF Inv, StartInv
  <1>4. CASE pc = "reporting"
    BY <1>1, <1>4 DEF Inv, RunInv
  <1>5. CASE pc = "ending"
    BY <1>1, <1>5 DEF Inv, EndInv
  <1>6. CASE pc = "fallback saving"
    BY <1>1, <1>6 DEF Inv, EndInv
  <1> QED
    BY <1>1, <1>2, <1>3, <1>4, <1>5, <1>6 DEF Saving, Bounded

(* Nobody but a save that lands, a delete and a restart writes the store.  *)
LEMMA StoreKept ==
  ASSUME [Next]_vars, ~Land, ~Delete, ~Restart
  PROVE  status' = status /\ log' = log
  BY DEF Next, vars, WorkerStep, ReaderStep, store,
         Begin, Fetch, FetchRaises, SaveRaises, Started, Report, Reported, Return, Raise,
         TimedOut, EndRun, Finish, FallBack, FallBackRaises, Deadline, Stop, Expire,
         Connect, Leave, ReadStatus, Send, SendToNobody

(* The run ends: its last record goes out.                                 *)
LEMMA RunEnding ==
  ASSUME Inv, Return \/ Raise \/ TimedOut
  PROVE  /\ pc' = "ending" /\ call' = "sent"
         /\ status = "running" /\ status' = status /\ log' = log
         /\ copy'.status \in Terminal
         /\ \/ copy'.log = Append(log, copy'.status)
            \/ MaxNodes >= 1 /\ copy'.log = Append(Append(log, "node"), copy'.status)
         /\ result' # "none" => copy'.status \in {result', "failed"}
  <1>1. /\ pc \in {"running", "reporting"} /\ status = "running"
        /\ \/ copy.log = log
           \/ MaxNodes >= 1 /\ copy.log = Append(log, "node")
    <2>1. pc \in {"running", "reporting"}
      BY DEF Return, Raise, TimedOut
    <2>2. pc = "reporting" => call \in {"sent", "landed"}
      BY DEF Inv, CallInv, TypeOK, Saving
    <2> QED
      BY <2>1, <2>2 DEF Inv, RunInv
  <1>2. result = "none"
    BY <1>1 DEF Inv, ResultInv
  <1>3. copy.log \in Seq(Events)
    BY DEF Inv, TypeOK, Record, Events
  <1>4. ASSUME NEW s \in Terminal, EndRun(s), result' # "none" => s \in {result', "failed"}
        PROVE  /\ pc' = "ending" /\ call' = "sent" /\ status' = status /\ log' = log
               /\ copy'.status = s /\ copy'.log = Append(copy.log, s)
               /\ result' # "none" => copy'.status \in {result', "failed"}
    BY <1>3, <1>4, MovedTyped DEF EndRun
  <1>5. \E s \in Terminal : EndRun(s) /\ (result' # "none" => s \in {result', "failed"})
    BY <1>2 DEF Return, Raise, TimedOut, EndAs, Outcomes, Terminal
  <1> QED
    BY <1>1, <1>4, <1>5
-----------------------------------------------------------------------------
(***************************************************************************)
(* Each part of the invariant                                              *)
(***************************************************************************)
(* Every step keeps a save outstanding only where the worker waits for it. *)
LEMMA CallKept == Inv /\ [Next]_vars => CallInv'
  <1> SUFFICES ASSUME Inv, [Next]_vars PROVE CallInv'
    OBVIOUS
  <1> USE DEF Inv, CallInv, Saving, Bounded
  <1>1. CASE Return \/ Raise \/ TimedOut
    BY <1>1, RunEnding
  <1>2. CASE Begin \/ Fetch \/ FetchRaises \/ Land \/ SaveRaises \/ Started \/ Report \/ Reported
    BY <1>2 DEF Begin, Fetch, FetchRaises, Land, SaveRaises, Started, Report, Reported
  <1>3. CASE Finish \/ FallBack \/ FallBackRaises
    BY <1>3 DEF Finish, FallBack, FallBackRaises
  <1>4. CASE Deadline \/ Stop \/ Expire \/ Delete \/ Restart \/ UNCHANGED vars
    BY <1>4 DEF Deadline, Stop, Expire, Delete, Restart, vars
  <1>5. CASE \E r \in Readers : ReaderStep(r)
    BY <1>5 DEF ReaderStep, Connect, Leave, ReadStatus, Send, SendToNobody, worker
  <1> QED
    BY <1>1, <1>2, <1>3, <1>4, <1>5 DEF Next, WorkerStep

(* Every step keeps the events that brought the job where it is.           *)
LEMMA LogKept == Inv /\ [Next]_vars => LogInv'
  <1> SUFFICES ASSUME Inv, [Next]_vars PROVE LogInv'
    OBVIOUS
  <1>0. log \in Seq(Events) /\ Len(log) \in Nat
    BY LenProperties DEF Inv, TypeOK
  <1>1. \A e \in Events : Append(log, e) \in Seq(Events) /\ Len(Append(log, e)) = Len(log) + 1
    BY <1>0, AppendProperties
  <1>2. CASE Land
    <2>1. status' \in {"running"} \cup Terminal /\ (status' = "running" => log' \in
                        {Append(log, "running"), Append(log, "node")})
      BY <1>2, Landed DEF Terminal
    <2>2. Len(log) >= 1
      <3>1. status \in {"queued", "running"}
        BY <1>2, Landed DEF InFlight
      <3> QED
        BY <3>1, <1>0 DEF Inv, LogInv
    <2>3. status' = "running" => Len(log') >= 2
      BY <2>1, <2>2, <1>0, <1>1 DEF Events
    <2> QED
      BY <2>1, <2>3 DEF LogInv, Terminal
  <1>3. CASE Delete
    BY <1>3 DEF Delete, LogInv
  <1>4. CASE Restart
    BY <1>4 DEF Restart, Inv, LogInv
  <1>5. CASE status' = status /\ log' = log
    BY <1>5 DEF Inv, LogInv
  <1> QED
    BY <1>2, <1>3, <1>4, <1>5, StoreKept

(* No step takes an event of a stored job back.                            *)
LEMMA LogGrows ==
  ASSUME Inv, [Next]_vars, NEW s \in Seq(Events), status # "absent" => IsPrefix(s, log)
  PROVE  status' # "absent" => IsPrefix(s, log')
  <1>0. log \in Seq(Events) /\ "node" \in Events /\ "running" \in Events /\ "failed" \in Events
    BY DEF Inv, TypeOK, Events, Terminal
  <1>1. CASE Land
    <2>1. IsPrefix(s, log)
      BY <1>1, Landed DEF InFlight
    <2>2. \A e \in Events : IsPrefix(s, Append(log, e)) /\ Append(log, e) \in Seq(Events)
      BY <1>0, <2>1, PrefixGrows, AppendProperties
    <2>3. \A e \in Events : IsPrefix(s, Append(Append(log, "node"), e))
      BY <1>0, <2>2, PrefixGrows
    <2>4. Terminal \subseteq Events
      BY DEF Events
    <2> QED
      BY <1>0, <1>1, <2>2, <2>3, <2>4, Landed
  <1>2. CASE Delete
    BY <1>2 DEF Delete
  <1>3. CASE Restart
    BY <1>3, <1>0, PrefixGrows DEF Restart, Inv, LogInv
  <1>4. CASE status' = status /\ log' = log
    BY <1>4
  <1> QED
    BY <1>1, <1>2, <1>3, <1>4, StoreKept

(* What a step may give a client is a prefix of the log it read.           *)
LEMMA Delivered ==
  ASSUME Inv, [Next]_vars, NEW r \in Readers
  PROVE  \/ stream'[r].got = stream[r].got
         \/ status # "absent" /\ IsPrefix(stream'[r].got, log)
  <1> USE DEF TypeOK
  <1>1. CASE \E q \in Readers : Send(q) \/ SendToNobody(q)
    <2>1. PICK q \in Readers : Send(q) \/ SendToNobody(q)
      BY <1>1
    <2>2. CASE q # r
      BY <2>1, <2>2 DEF Send, SendToNobody, Inv
    <2>3. CASE q = r /\ Send(r)
      <3>1. stream'[r].got = stream[r].got \o Unseen(r)
        BY <2>3 DEF Send, Inv
      <3>2. log \in Seq(Events)
        BY DEF Inv
      <3> QED
        BY <3>1, <3>2, StreamTyped, PrefixSelf DEF Inv
    <2>4. CASE q = r /\ SendToNobody(r)
      <3>1. PICK n \in 0..Len(Unseen(r)) :
              stream' = [stream EXCEPT
                ![r].got  = @ \o SubSeq(Unseen(r), 1, n),
                ![r].at   = IF Ends(stream[r]) THEN "away" ELSE "reading"]
        BY <2>4 DEF SendToNobody
      <3>2. stream'[r].got = stream[r].got \o SubSeq(Unseen(r), 1, n)
        BY <3>1 DEF Inv
      <3> QED
        BY <3>2, StreamTyped DEF Inv
    <2> QED
      BY <2>1, <2>2, <2>3, <2>4
  <1>2. CASE \E q \in Readers : Connect(q) \/ Leave(q) \/ ReadStatus(q)
    <2>1. PICK q \in Readers : Connect(q) \/ Leave(q) \/ ReadStatus(q)
      BY <1>2
    <2>2. CASE Connect(q)
      BY <2>2 DEF Connect, Inv
    <2>3. CASE Leave(q)
      BY <2>3 DEF Leave, Inv
    <2>4. CASE ReadStatus(q)
      <3>1. Close(q)[r].got = stream[r].got
        BY DEF Close, Inv
      <3> QED
        BY <2>4, <3>1 DEF ReadStatus, Inv
    <2> QED
      BY <2>1, <2>2, <2>3, <2>4
  <1>3. CASE Restart
    BY <1>3 DEF Restart, Idle
  <1>4. CASE stream' = stream
    BY <1>4
  <1>5. ~(\E q \in Readers : ReaderStep(q)) /\ ~Restart => stream' = stream
    BY DEF Next, vars, WorkerStep, Begin, Fetch, FetchRaises, Land, SaveRaises, Started, Report, Reported,
           Return, Raise, TimedOut, EndRun, Finish, FallBack, FallBackRaises, Deadline, Stop, Expire, Delete
  <1> QED
    BY <1>1, <1>2, <1>3, <1>4, <1>5 DEF ReaderStep

(* Every step keeps each stream behind the log: a poll sends what the log  *)
(* holds, and the log is only extended.                                    *)
LEMMA StreamKept == Inv /\ [Next]_vars => StreamInv'
  <1> SUFFICES ASSUME Inv, [Next]_vars, NEW r \in Readers
               PROVE  (status = "absent" \/ IsPrefix(stream[r].got, log))'
    BY DEF StreamInv
  <1>1. stream'[r].got \in Seq(Events)
    BY TypeInv DEF Inv, TypeOK
  <1>2. status = "absent" => status' = "absent"
    <2>1. Land => status # "absent"
      BY Landed DEF InFlight
    <2> QED
      BY <2>1, StoreKept DEF Delete, Restart, Terminal
  <1>3. status # "absent" => IsPrefix(stream'[r].got, log)
    BY Delivered DEF Inv, StreamInv
  <1> QED
    BY <1>1, <1>2, <1>3, LogGrows

(* Every step keeps what the first save of a run relies on.                *)
LEMMA StartKept == Inv /\ [Next]_vars => StartInv'
  <1> SUFFICES ASSUME Inv, [Next]_vars PROVE StartInv'
    OBVIOUS
  <1> USE DEF StartInv
  <1>0. Inv => StartInv /\ CallInv
    BY DEF Inv
  <1>1. CASE Return \/ Raise \/ TimedOut
    BY <1>1, RunEnding
  <1>2. CASE Land
    BY <1>2, <1>0, Landed DEF Land
  <1>3. CASE Fetch
    <2>1. /\ status = "queued" /\ status' = status /\ log' = log
          /\ copy'.status = "running" /\ copy'.log = Append(log, "running")
          /\ pc' = "starting" /\ call' = "sent"
      BY <1>3, <1>0 DEF Fetch, Moved
    <2> QED
      BY <2>1
  <1>4. CASE Begin \/ FetchRaises \/ SaveRaises \/ Started \/ Report \/ Reported
    BY <1>4, <1>0 DEF Begin, FetchRaises, SaveRaises, Started, Report, Reported
  <1>5. CASE Finish \/ FallBack \/ FallBackRaises
    BY <1>5, <1>0 DEF Finish, FallBack, FallBackRaises
  <1>6. CASE Deadline \/ Stop \/ Expire \/ Delete \/ Restart \/ UNCHANGED vars
    BY <1>6, <1>0 DEF Deadline, Stop, Expire, Delete, Restart, vars, Terminal
  <1>7. CASE \E r \in Readers : ReaderStep(r)
    BY <1>7, <1>0 DEF ReaderStep, Connect, Leave, ReadStatus, Send, SendToNobody, worker, store
  <1> QED
    BY <1>1, <1>2, <1>3, <1>4, <1>5, <1>6, <1>7 DEF Next, WorkerStep

(* Every step keeps the record level with the store, or one node ahead.    *)
LEMMA RunKept == Inv /\ [Next]_vars => RunInv'
  <1> SUFFICES ASSUME Inv, [Next]_vars PROVE RunInv'
    OBVIOUS
  <1> USE DEF RunInv
  <1>0. RunInv /\ StartInv /\ CallInv
    BY DEF Inv
  <1>1. CASE Return \/ Raise \/ TimedOut
    BY <1>1, RunEnding
  <1>2. CASE Land
    BY <1>2, <1>0, Landed DEF Land
  <1>3. CASE Report
    <2>1. /\ copy'.status = copy.status /\ copy'.log = Append(copy.log, "node")
          /\ status' = status /\ log' = log /\ pc = "running"
          /\ pc' = "reporting" /\ call' = "sent"
      BY <1>3 DEF Report, Inv, TypeOK, Record
    <2>2. MaxNodes >= 1
      BY <1>3, <1>0, RunAssumption, LenProperties DEF Report, Inv, TypeOK, LogInv
    <2> QED
      BY <1>0, <2>1, <2>2
  <1>4. CASE Started
    BY <1>4, <1>0 DEF Started, StartInv
  <1>5. CASE Begin \/ Fetch \/ FetchRaises \/ SaveRaises \/ Reported
    BY <1>5, <1>0 DEF Begin, Fetch, FetchRaises, SaveRaises, Reported
  <1>6. CASE Finish \/ FallBack \/ FallBackRaises
    BY <1>6, <1>0 DEF Finish, FallBack, FallBackRaises
  <1>7. CASE Deadline \/ Stop \/ Expire \/ Delete \/ Restart \/ UNCHANGED vars
    BY <1>7, <1>0 DEF Deadline, Stop, Expire, Delete, Restart, vars, Terminal
  <1>8. CASE \E r \in Readers : ReaderStep(r)
    BY <1>8, <1>0 DEF ReaderStep, Connect, Leave, ReadStatus, Send, SendToNobody, worker, store
  <1> QED
    BY <1>1, <1>2, <1>3, <1>4, <1>5, <1>6, <1>7, <1>8 DEF Next, WorkerStep

(* Every step keeps what the last save and the fallback rely on.           *)
LEMMA EndKept == Inv /\ [Next]_vars => EndInv'
  <1> SUFFICES ASSUME Inv, [Next]_vars PROVE EndInv'
    OBVIOUS
  <1> USE DEF EndInv, Over, InFlight
  <1>0. EndInv /\ CallInv /\ TypeOK
    BY DEF Inv
  <1>1. CASE Return \/ Raise \/ TimedOut
    BY <1>1, RunEnding
  <1>2. CASE Land
    <2>1. pc' = pc /\ copy' = copy /\ call' = "landed"
      BY <1>2 DEF Land
    <2>2. pc \in {"ending", "fallback saving"} => status' \in Terminal
      BY <1>2, Landed DEF Terminal
    <2>3. pc # "gone"
      BY <1>2, Landed
    <2> QED
      BY <1>0, <2>1, <2>2, <2>3
  <1>3. CASE FallBack
    <2>1. CASE status \in Terminal \cup {"absent"}
      BY <1>3, <1>0, <2>1 DEF FallBack
    <2>2. CASE status \notin Terminal \cup {"absent"}
      <3>1. /\ pc' = "fallback saving" /\ call' = "sent" /\ status' = status /\ log' = log
            /\ copy'.status = "failed" /\ copy'.log = Append(log, "failed")
        <4>1. copy' = Moved([status |-> status, log |-> log], "failed")
          BY <1>3, <2>2 DEF FallBack, FallBackOf
        <4>2. /\ Moved([status |-> status, log |-> log], "failed").status = "failed"
              /\ Moved([status |-> status, log |-> log], "failed").log = Append(log, "failed")
          BY DEF Moved
        <4> QED
          BY <1>3, <2>2, <4>1, <4>2 DEF FallBack
      <3> QED
        BY <1>0, <2>2, <3>1 DEF TypeOK
    <2> QED
      BY <2>1, <2>2
  <1>4. CASE Finish
    BY <1>4, <1>0 DEF Finish
  <1>5. CASE Begin \/ Fetch \/ FetchRaises \/ SaveRaises \/ Started \/ Report \/ Reported \/ FallBackRaises
    BY <1>5, <1>0 DEF Begin, Fetch, FetchRaises, SaveRaises, Started, Report, Reported, FallBackRaises
  <1>6. CASE Restart
    BY <1>6, <1>0 DEF Restart, TypeOK, Terminal
  <1>7. CASE Delete
    BY <1>7, <1>0 DEF Delete, Terminal
  <1>8. CASE Deadline \/ Stop \/ Expire \/ UNCHANGED vars
    BY <1>8, <1>0 DEF Deadline, Stop, Expire, vars
  <1>9. CASE \E r \in Readers : ReaderStep(r)
    BY <1>9, <1>0 DEF ReaderStep, Connect, Leave, ReadStatus, Send, SendToNobody, worker, store
  <1> QED
    BY <1>1, <1>2, <1>3, <1>4, <1>5, <1>6, <1>7, <1>8, <1>9 DEF Next, WorkerStep

(* Every step keeps the result that the run has, once it has one.          *)
LEMMA ResultStays == Inv /\ [Next]_vars => ResultInv'
  <1> SUFFICES ASSUME Inv, [Next]_vars PROVE ResultInv'
    OBVIOUS
  <1> USE DEF ResultInv
  <1>0. ResultInv /\ CallInv
    BY DEF Inv
  <1>1. CASE Return \/ Raise \/ TimedOut
    BY <1>1, RunEnding DEF Terminal
  <1>2. CASE Land
    <2>1. pc' = pc /\ copy' = copy /\ result' = result
      BY <1>2 DEF Land
    <2>2. result # "none" => pc \in {"ending", "fallback saving"} /\ status' = copy.status
                             /\ (pc = "fallback saving" => status' = "failed")
      BY <1>2, <1>0, Landed
    <2> QED
      BY <1>0, <2>1, <2>2
  <1>3. CASE Restart
    BY <1>3, <1>0 DEF Restart
  <1>4. CASE Delete
    BY <1>4, <1>0 DEF Delete, Terminal
  <1>5. CASE Begin \/ Fetch \/ FetchRaises \/ SaveRaises \/ Started \/ Report \/ Reported
    BY <1>5, <1>0 DEF Begin, Fetch, FetchRaises, SaveRaises, Started, Report, Reported
  <1>6. CASE Finish \/ FallBack \/ FallBackRaises
    BY <1>6, <1>0 DEF Finish, FallBack, FallBackRaises
  <1>7. CASE Deadline \/ Stop \/ Expire \/ UNCHANGED vars
    BY <1>7, <1>0 DEF Deadline, Stop, Expire, vars
  <1>8. CASE \E r \in Readers : ReaderStep(r)
    BY <1>8, <1>0 DEF ReaderStep, Connect, Leave, ReadStatus, Send, SendToNobody, worker, store
  <1> QED
    BY <1>1, <1>2, <1>3, <1>4, <1>5, <1>6, <1>7, <1>8 DEF Next, WorkerStep
-----------------------------------------------------------------------------
(* The inductive invariant holds before the run is scheduled.              *)
LEMMA InitInv == Init => Inv
  <1> SUFFICES ASSUME Init PROVE Inv
    OBVIOUS
  <1> USE DEF Init
  <1>1. log \in Seq(Events) /\ Len(log) = 1
    BY DEF Events
  <1>2. NoRecord \in Record
    BY EmptySeq DEF NoRecord, Record
  <1>3. Idle \in [at : {"away", "reading", "read"}, gone : BOOLEAN,
                 saw : {"queued", "running"} \cup Terminal, got : Seq(Events)]
    BY EmptySeq DEF Idle
  <1>4. TypeOK
    BY <1>1, <1>2, <1>3 DEF TypeOK
  <1>5. IsPrefix(<<>>, log)
    <2>1. <<>> \in Seq(Events) /\ Len(<<>>) = 0
      BY EmptySeq
    <2>2. Len(<<>>) <= Len(log) /\ \A i \in 1..Len(<<>>) : <<>>[i] = log[i]
      BY <1>1, <2>1
    <2> QED
      BY <1>1, <2>1, <2>2, PrefixAt
  <1>6. StreamInv
    BY <1>5 DEF StreamInv, Idle
  <1> QED
    BY <1>1, <1>4, <1>6 DEF Inv, CallInv, LogInv, StartInv, RunInv, EndInv, ResultInv, Saving, Bounded, Terminal

(* Every step keeps the inductive invariant.                               *)
LEMMA NextInv == Inv /\ [Next]_vars => Inv'
  BY TypeInv, CallKept, LogKept, StartKept, RunKept, EndKept, ResultStays, StreamKept DEF Inv

(* The inductive invariant holds in every behaviour of a run.              *)
THEOREM Invariance == Spec => []Inv
  BY InitInv, NextInv, PTL DEF Spec

(* The store, the worker's record and the streams keep their types: the    *)
(* log of a job, and what a client got of it, is only ever events.         *)
THEOREM RunTyped == Spec => []TypeOK
  <1>1. Inv => TypeOK
    BY DEF Inv
  <1> QED
    BY <1>1, Invariance, PTL

(* check_save never refuses the worker: the record it sends extends the    *)
(* stored log, whichever of its earlier saves raised or landed.            *)
THEOREM SavesAccepted == Spec => []NeverRefused
  <1>1. Inv => NeverRefused
    <2> SUFFICES ASSUME Inv, call = "sent" PROVE Accepted(copy)
      BY DEF NeverRefused
    <2>0. /\ log \in Seq(Events) /\ "node" \in Events /\ "running" \in Events /\ "failed" \in Events
          /\ Terminal \subseteq Events
      BY DEF Inv, TypeOK, Events, Terminal
    <2>1. pc \in Saving
      BY DEF Inv, CallInv
    <2>2. \A e \in Events : IsPrefix(log, Append(log, e)) /\ Append(log, e) \in Seq(Events)
      BY <2>0, PrefixSelf, PrefixGrows, AppendProperties
    <2>3. \A e \in Events : IsPrefix(log, Append(Append(log, "node"), e))
      BY <2>0, <2>2, PrefixGrows
    <2>4. CASE pc = "starting"
      BY <2>0, <2>2, <2>4 DEF Inv, StartInv, Accepted
    <2>5. CASE pc = "reporting"
      BY <2>0, <2>2, <2>5 DEF Inv, RunInv, Accepted
    <2>6. CASE pc = "ending"
      BY <2>0, <2>2, <2>3, <2>6 DEF Inv, EndInv, Accepted
    <2>7. CASE pc = "fallback saving"
      BY <2>0, <2>2, <2>7 DEF Inv, EndInv, Accepted, InFlight
    <2> QED
      BY <2>1, <2>4, <2>5, <2>6, <2>7 DEF Saving, Bounded
  <1> QED
    BY <1>1, Invariance, PTL

(* No path through a failed save lets a worker that could read and write   *)
(* go while its job is in flight.                                          *)
THEOREM WorkerEndsJob == Spec => []WorkerLeavesEnded
  <1>1. Inv => WorkerLeavesEnded
    BY DEF Inv, EndInv, Over, WorkerLeavesEnded
  <1> QED
    BY <1>1, Invariance, PTL

(* A stop or a deadline that comes after the run returned changes nothing. *)
THEOREM ResultHolds == Spec => []ResultKept
  <1>1. Inv => ResultKept
    BY DEF Inv, ResultInv, ResultKept
  <1> QED
    BY <1>1, Invariance, PTL

(* A client gets the log once and in order over every resume, and a stream *)
(* that ends because its job ended has sent all of it.                     *)
THEOREM StreamsWhole == Spec => StreamIsWhole
  <1>1. ASSUME Inv, [Next]_vars, NEW r \in Readers
        PROVE  /\ stream'[r].got # stream[r].got => IsPrefix(stream'[r].got, log)
               /\ Send(r) /\ stream'[r].at = "away" /\ status # "absent" => stream'[r].got = log
    <2>1. ASSUME Send(r)
          PROVE  stream'[r].got = stream[r].got \o Unseen(r)
      <3>1. stream \in [Readers -> [at : {"away", "reading", "read"}, gone : BOOLEAN,
                                    saw : {"queued", "running"} \cup Terminal, got : Seq(Events)]]
        BY <1>1 DEF Inv, TypeOK
      <3> QED
        BY <2>1, <3>1 DEF Send
    <2> QED
      BY <1>1, <2>1, Delivered, StreamTyped DEF Inv
  <1>2. Inv /\ [Next]_vars =>
          [\A r \in Readers :
             /\ stream'[r].got # stream[r].got => IsPrefix(stream'[r].got, log)
             /\ Send(r) /\ stream'[r].at = "away" /\ status # "absent" => stream'[r].got = log]_vars
    BY <1>1
  <1> QED
    BY <1>2, Invariance, PTL DEF Spec, StreamIsWhole
-----------------------------------------------------------------------------
(***************************************************************************)
(* JobRun implements JobLog                                                *)
(***************************************************************************)
(* The runs of nodes a save may carry: none, or one.                       *)
LEMMA NodeRuns ==
  /\ << >> \in Abstract!Reported
  /\ MaxNodes >= 1 => <<"node">> \in Abstract!Reported
  <1>1. [k \in 1..0 |-> "node"] = << >>
    OBVIOUS
  <1>2. [k \in 1..1 |-> "node"] = <<"node">>
    OBVIOUS
  <1>3. 0 \in 0..MaxNodes /\ (MaxNodes >= 1 => 1 \in 0..MaxNodes)
    BY RunAssumption
  <1> QED
    BY <1>1, <1>2, <1>3 DEF Abstract!Reported

(* What a save appends is what a step of the abstract log appends.         *)
LEMMA Appended ==
  ASSUME NEW e \in Events, NEW s \in Seq(Events)
  PROVE  /\ Append(s, e) = s \o << >> \o <<e>>
         /\ Append(s, e) = s \o <<e>>
         /\ Append(Append(s, "node"), e) = s \o <<"node">> \o <<e>>
  <1>1. "node" \in Events /\ Append(s, "node") \in Seq(Events)
    BY AppendProperties DEF Events
  <1> QED
    BY <1>1, AppendIsConcat, ConcatEmptySeq

(* Each step of the run is a move of JobLog, or leaves the stored job.     *)
LEMMA StepMaps == Inv /\ [Next]_vars => [Abstract!Next]_<<status, log>>
  <1> SUFFICES ASSUME Inv, [Next]_vars PROVE [Abstract!Next]_<<status, log>>
    OBVIOUS
  <1>0. /\ log \in Seq(Events) /\ "node" \in Events /\ "running" \in Events /\ "failed" \in Events
        /\ Terminal \subseteq Events /\ Abstract!Ended = Terminal
    BY DEF Inv, TypeOK, Events, Terminal, Abstract!Ended
  <1>t. /\ Abstract!LegalTransitions["queued"] = {"running", "failed"}
        /\ Abstract!LegalTransitions["running"] = Terminal
        /\ DOMAIN Abstract!LegalTransitions = {"queued", "running"}
    BY <1>0 DEF Abstract!LegalTransitions
  <1>1. CASE Land
    <2>1. CASE status = "queued" /\ status' \in {"running", "failed"} /\ log' = Append(log, status')
      BY <2>1, <1>0, <1>t, NodeRuns, Appended DEF Abstract!Next, Abstract!Move
    <2>2. CASE status = "running" /\ status' \in Terminal /\ log' = Append(log, status')
      BY <2>2, <1>0, <1>t, NodeRuns, Appended DEF Abstract!Next, Abstract!Move
    <2>3. CASE /\ status = "running" /\ status' \in Terminal /\ MaxNodes >= 1
               /\ log' = Append(Append(log, "node"), status')
      BY <2>3, <1>0, <1>t, NodeRuns, Appended DEF Abstract!Next, Abstract!Move
    <2>4. CASE status = "running" /\ status' = "running" /\ MaxNodes >= 1 /\ log' = Append(log, "node")
      BY <2>4, <1>0, NodeRuns, Appended DEF Abstract!Next, Abstract!Progress
    <2> QED
      BY <1>1, <2>1, <2>2, <2>3, <2>4, Landed DEF InFlight, Terminal
  <1>2. CASE Delete
    BY <1>2, <1>0 DEF Delete, Abstract!Next, Abstract!Delete
  <1>3. CASE Restart
    <2>1. CASE status \in {"queued", "running"}
      <3>1. status' = "failed" /\ log' = Append(log, "failed") /\ "failed" \in Terminal
        BY <1>3, <2>1 DEF Restart, Terminal
      <3> QED
        BY <2>1, <3>1, <1>0, <1>t, NodeRuns, Appended DEF Abstract!Next, Abstract!Move
    <2>2. CASE status \notin {"queued", "running"}
      BY <1>3, <2>2 DEF Restart
    <2> QED
      BY <2>1, <2>2
  <1>4. CASE status' = status /\ log' = log
    BY <1>4
  <1> QED
    BY <1>1, <1>2, <1>3, <1>4, StoreKept

(* What callers see of a job is a behaviour of JobLog: its status moves    *)
(* along the lifecycle only, and its log is only extended, by the events   *)
(* that moved it, until the job is deleted.                                *)
THEOREM Refinement == Spec => ImplementsJobLog
  <1>1. Init => Abstract!Init
    BY DEF Init, Abstract!Init
  <1> QED
    BY <1>1, StepMaps, Invariance, PTL DEF Spec, ImplementsJobLog, Abstract!Spec
=============================================================================
