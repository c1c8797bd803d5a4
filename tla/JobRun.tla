------------------------------- MODULE JobRun -------------------------------
(***************************************************************************)
(* One run of one admitted job: execute_job under its deadline, the stop   *)
(* of its owner, the calls into a job store that can fail before or after  *)
(* they took effect, and the event streams that read the job meanwhile.    *)
(*                                                                         *)
(* The worker writes a whole record.  While a save is outstanding the      *)
(* record of the worker is ahead of the stored one, and a save that raised *)
(* may have landed.                                                        *)
(***************************************************************************)
EXTENDS Naturals, Sequences, FiniteSets, SequencesExt

CONSTANTS
  Readers,       \* the clients that stream the job's events
  MaxStreams,    \* MAX_EVENT_STREAMS_PER_OWNER
  MaxNodes,      \* bound of the nodes one run reports
  CallsFail,     \* whether a store call can raise
  DeadlineFires, \* whether a run can outlast its deadline
  Restarts       \* whether the process can restart

ASSUME RunAssumption ==
  /\ MaxStreams \in Nat \ {0} /\ MaxNodes \in Nat
  /\ CallsFail \in BOOLEAN /\ DeadlineFires \in BOOLEAN /\ Restarts \in BOOLEAN

VARIABLES
  status,   \* the stored status, or "absent" where no job is stored
  log       \* the stored events
VARIABLES
  pc,       \* where the worker stands
  copy,     \* the record the worker holds
  call,     \* the outstanding save: "none", "sent", or "landed"
  scope,    \* the deadline scope: "none", "open", "due", or "expired"
  asked,    \* StopSignal.requested
  result    \* what the run itself came to, or "none" (history)
VARIABLE
  stream    \* the event stream of each client

store == <<status, log>>
worker == <<pc, copy, call, scope, asked, result>>
vars == <<status, log, pc, copy, call, scope, asked, result, stream>>

Terminal == {"completed", "failed", "rejected", "awaiting-answers", "stopped"}

(* What a graph that ran to its end came to (PipelineOutcome).             *)
Outcomes == {"completed", "rejected", "awaiting-answers"}

Record == [status : {"queued", "running"} \cup Terminal,
           log    : Seq({"queued", "running", "node"} \cup Terminal)]

NoRecord == [status |-> "queued", log |-> <<>>]

Moved(rec, s) == [status |-> s, log |-> Append(rec.log, s)]

(* save and check_save: the job is stored, and its events are a prefix of  *)
(* those the record holds.  Any other save raises.                         *)
Accepted(rec) == status # "absent" /\ IsPrefix(log, rec.log)

-----------------------------------------------------------------------------
(***************************************************************************)
(* Store calls                                                             *)
(***************************************************************************)
Bounded == {"starting", "ending", "fallback saving"}

Saving == Bounded \cup {"reporting"}

(* The saved row and the events it gained are one transaction.             *)
Land ==
  /\ call = "sent" /\ Accepted(copy)
  /\ status' = copy.status /\ log' = copy.log
  /\ call' = "landed"
  /\ UNCHANGED <<pc, copy, scope, asked, result, stream>>

(* A save that starts or ends the run raises, or runs into its own bound.  *)
(* It may have landed.  Then _store_outcome turns to the stored job.       *)
SaveRaises ==
  /\ CallsFail \/ (call = "sent" /\ ~Accepted(copy))
  /\ pc \in Bounded /\ call # "none"
  /\ pc' = IF pc = "fallback saving" THEN "left" ELSE "falling back"
  /\ call' = "none"
  /\ UNCHANGED <<status, log, copy, scope, asked, result, stream>>

-----------------------------------------------------------------------------
(***************************************************************************)
(* The worker                                                              *)
(***************************************************************************)
Begin ==
  /\ pc = "scheduled" /\ pc' = "fetching"
  /\ UNCHANGED <<status, log, copy, call, scope, asked, result, stream>>

Fetch ==
  /\ pc = "fetching" /\ status # "absent"
  /\ copy' = Moved([status |-> status, log |-> log], "running")
  /\ pc' = "starting" /\ call' = "sent"
  /\ UNCHANGED <<status, log, scope, asked, result, stream>>

FetchRaises ==
  /\ CallsFail /\ pc = "fetching"
  /\ pc' = "left"
  /\ UNCHANGED <<status, log, copy, call, scope, asked, result, stream>>

(* Mutant: a stop that came before the run started is lost.                *)
BindForgets == "open"

(* StopSignal.bind, on the scope the run starts under.                     *)
Bind == IF asked THEN "due" ELSE "open"

Started ==
  /\ pc = "starting" /\ call = "landed"
  /\ pc' = "running" /\ call' = "none" /\ scope' = Bind
  /\ UNCHANGED <<status, log, copy, asked, result, stream>>

(* on_node: the record gains the event, and the save of it is sent.  The   *)
(* nodes follow the two events of the job's start (bound: MaxNodes).       *)
Report ==
  /\ pc = "running" /\ scope # "expired"
  /\ Len(copy.log) < MaxNodes + 2
  /\ copy' = [copy EXCEPT !.log = Append(@, "node")]
  /\ pc' = "reporting" /\ call' = "sent"
  /\ UNCHANGED <<status, log, scope, asked, result, stream>>

Reported ==
  /\ pc = "reporting" /\ call = "landed" /\ scope # "expired"
  /\ pc' = "running" /\ call' = "none"
  /\ UNCHANGED <<status, log, copy, scope, asked, result, stream>>

(* Mutant: the stop flag is read where the run returned.                   *)
EndOrStop(s) == IF asked THEN "stopped" ELSE s

(* Mutant: the outcome is read before it is assigned.                      *)
EndAsBefore(s) == result

EndAs(s) == s

(* The scope closes (bind(None)), and the save that ends the job is sent.  *)
EndRun(s) ==
  /\ copy' = Moved(copy, s)
  /\ pc' = "ending" /\ call' = "sent" /\ scope' = "none"
  /\ UNCHANGED <<status, log, asked, stream>>

Return ==
  /\ pc = "running" /\ scope # "expired"
  /\ \E s \in Outcomes :
       /\ result' = s
       /\ \/ EndRun(EndAs(s))
          \/ EndRun("failed")   \* the record refuses the report

(* The graph raises: a node, or the save of a node's event.                *)
Raise ==
  /\ \/ pc = "running"
     \/ CallsFail /\ pc = "reporting"
  /\ result' = "failed"
  /\ EndRun("failed")

(* Mutant: a node the run reported is recorded once its save returned.     *)
TimedOutForgetting ==
  /\ pc \in {"running", "reporting"} /\ scope = "expired"
  /\ copy' = Moved([copy EXCEPT !.log =
                      IF pc = "reporting" THEN Front(@) ELSE @], "failed")
  /\ pc' = "ending" /\ call' = "sent" /\ scope' = "none"
  /\ UNCHANGED <<status, log, asked, result, stream>>

(* Mutant: the deadline does not cancel the save of a node's event.        *)
TimedOutRunning ==
  /\ pc = "running" /\ scope = "expired"
  /\ EndRun(IF asked THEN "stopped" ELSE "failed")
  /\ UNCHANGED result

(* The scope expired, and the cancelled graph has ended.                   *)
TimedOut ==
  /\ pc \in {"running", "reporting"} /\ scope = "expired"
  /\ EndRun(IF asked THEN "stopped" ELSE "failed")
  /\ UNCHANGED result

Finish ==
  /\ pc \in {"ending", "fallback saving"} /\ call = "landed"
  /\ pc' = "gone" /\ call' = "none"
  /\ UNCHANGED <<status, log, copy, scope, asked, result, stream>>

(* Mutant: the fallback fails the worker's own record.                     *)
FallBackOfCopy(rec) == copy

FallBackOf(rec) == rec

(* Mutant: the fallback leaves a job alone that never started.             *)
FallBackOnRunning ==
  /\ pc = "falling back"
  /\ IF status # "running"
     THEN pc' = "gone" /\ UNCHANGED <<copy, call>>
     ELSE /\ copy' = Moved(FallBackOf([status |-> status, log |-> log]), "failed")
          /\ pc' = "fallback saving" /\ call' = "sent"
  /\ UNCHANGED <<status, log, scope, asked, result, stream>>

(* _store_outcome's fallback: the job as stored, failed, where it has not  *)
(* ended yet.                                                              *)
FallBack ==
  /\ pc = "falling back"
  /\ IF status \in Terminal \cup {"absent"}
     THEN pc' = "gone" /\ UNCHANGED <<copy, call>>
     ELSE /\ copy' = Moved(FallBackOf([status |-> status, log |-> log]), "failed")
          /\ pc' = "fallback saving" /\ call' = "sent"
  /\ UNCHANGED <<status, log, scope, asked, result, stream>>

FallBackRaises ==
  /\ CallsFail /\ pc = "falling back"
  /\ pc' = "left"
  /\ UNCHANGED <<status, log, copy, call, scope, asked, result, stream>>

-----------------------------------------------------------------------------
(***************************************************************************)
(* The deadline, the stop, the restart, the delete                         *)
(***************************************************************************)
(* The timer of the scope cancels the run.                                 *)
Deadline ==
  /\ DeadlineFires /\ scope = "open"
  /\ scope' = "expired"
  /\ UNCHANGED <<status, log, pc, copy, call, asked, result, stream>>

(* StopSignal.request: the scope is rescheduled to now, and expires in a   *)
(* later turn of the event loop.                                           *)
Stop ==
  /\ pc \notin {"gone", "left"} /\ ~asked
  /\ asked' = TRUE
  /\ scope' = IF scope = "open" THEN "due" ELSE scope
  /\ UNCHANGED <<status, log, pc, copy, call, result, stream>>

Expire ==
  /\ scope = "due" /\ scope' = "expired"
  /\ UNCHANGED <<status, log, pc, copy, call, asked, result, stream>>

Delete ==
  /\ status \in Terminal
  /\ status' = "absent" /\ log' = <<>>
  /\ UNCHANGED <<pc, copy, call, scope, asked, result, stream>>

Idle == [at |-> "away", gone |-> FALSE, saw |-> "queued", got |-> <<>>]

(* The process ends, and the restart scan fails a job in flight before a   *)
(* request is taken.  A client keeps what it received.                     *)
Restart ==
  /\ Restarts
  /\ IF status \in {"queued", "running"}
     THEN status' = "failed" /\ log' = Append(log, "failed")
     ELSE UNCHANGED <<status, log>>
  /\ pc' = "gone" /\ call' = "none" /\ scope' = "none" /\ copy' = NoRecord
  /\ stream' = [r \in Readers |-> [Idle EXCEPT !.got = stream[r].got]]
  /\ asked' = FALSE
  /\ UNCHANGED result

-----------------------------------------------------------------------------
(***************************************************************************)
(* Event streams                                                           *)
(***************************************************************************)
Open == {r \in Readers : stream[r].at # "away"}

(* stream_events: a client resumes behind the last event it received.      *)
Connect(r) ==
  /\ stream[r].at = "away" /\ status # "absent"
  /\ Cardinality(Open) < MaxStreams
  /\ stream' = [stream EXCEPT ![r].at = "reading", ![r].gone = FALSE]
  /\ UNCHANGED <<store, worker>>

(* The client leaves.  The server learns of it later.                      *)
Leave(r) ==
  /\ stream[r].at # "away" /\ ~stream[r].gone
  /\ stream' = [stream EXCEPT ![r].gone = TRUE]
  /\ UNCHANGED <<store, worker>>

Close(r) == [stream EXCEPT ![r].at = "away", ![r].gone = FALSE]

(* events_after reads the status, then the events past those it sent.      *)
ReadStatus(r) ==
  /\ stream[r].at = "reading"
  /\ stream' = IF status = "absent" THEN Close(r)
               ELSE [stream EXCEPT ![r].at = "read", ![r].saw = status]
  /\ UNCHANGED <<store, worker>>

(* Mutant: a client resumes one event too late.                            *)
UnseenLate(r) == SubSeq(log, Len(stream[r].got) + 2, Len(log))

Unseen(r) == SubSeq(log, Len(stream[r].got) + 1, Len(log))

(* Mutant: no stream asks whether its client left.                         *)
EndsAtEndOnly(s) == s.saw \in Terminal

Ends(s) == s.saw \in Terminal \/ s.gone

(* Each event is a frame.  The stream ends after the frames of a read that *)
(* saw the job ended, and where the client left.                           *)
Send(r) ==
  /\ stream[r].at = "read" /\ ~stream[r].gone
  /\ stream' = [stream EXCEPT
       ![r].got = @ \o Unseen(r),
       ![r].at  = IF Ends(stream[r]) THEN "away" ELSE "reading"]
  /\ UNCHANGED <<store, worker>>

(* A client that leaves during the frames has some of them.                *)
SendToNobody(r) ==
  /\ stream[r].at = "read" /\ stream[r].gone
  /\ \E n \in 0..Len(Unseen(r)) :
       stream' = [stream EXCEPT
         ![r].got  = @ \o SubSeq(Unseen(r), 1, n),
         ![r].at   = IF Ends(stream[r]) THEN "away" ELSE "reading"]
  /\ UNCHANGED <<store, worker>>

-----------------------------------------------------------------------------
Init ==
  /\ status = "queued" /\ log = <<"queued">>
  /\ pc = "scheduled" /\ copy = NoRecord /\ call = "none"
  /\ scope = "none" /\ asked = FALSE /\ result = "none"
  /\ stream = [r \in Readers |-> Idle]

WorkerStep ==
  \/ Begin \/ Fetch \/ FetchRaises \/ Land \/ SaveRaises \/ Started
  \/ Report \/ Reported \/ Return \/ Raise \/ TimedOut
  \/ Finish \/ FallBack \/ FallBackRaises

ReaderStep(r) ==
  \/ Connect(r) \/ Leave(r) \/ ReadStatus(r) \/ Send(r) \/ SendToNobody(r)

Next ==
  \/ WorkerStep
  \/ Deadline \/ Stop \/ Expire \/ Delete \/ Restart
  \/ \E r \in Readers : ReaderStep(r)

Spec == Init /\ [][Next]_vars

(* A store call that starts or ends the run is bounded by its own timeout, *)
(* so it comes to an end.  The timers of the event loop fire, a cancelled  *)
(* graph ends, and a stream polls on.  Nothing says that the graph, or the *)
(* save of a node's event, ever comes to an end, and a deadline may be so  *)
(* long that nobody sees it fire.                                          *)
BoundedCall == pc \in Bounded /\ (Land \/ SaveRaises \/ Started \/ Finish)

Fairness ==
  /\ WF_vars(Begin) /\ WF_vars(Fetch \/ FetchRaises)
  /\ WF_vars(BoundedCall) /\ WF_vars(FallBack \/ FallBackRaises)
  /\ WF_vars(Expire) /\ WF_vars(TimedOut)
  /\ \A r \in Readers :
       WF_vars(ReadStatus(r)) /\ WF_vars(Send(r) \/ SendToNobody(r))

FairSpec == Spec /\ Fairness
-----------------------------------------------------------------------------
(***************************************************************************)
(* Properties                                                              *)
(***************************************************************************)
Events == {"queued", "running", "node"} \cup Terminal

(* Every variable keeps its type.                                          *)
TypeOK ==
  /\ status \in {"queued", "running", "absent"} \cup Terminal
  /\ log \in Seq(Events)
  /\ pc \in {"scheduled", "fetching", "running", "falling back", "gone", "left"}
            \cup Saving
  /\ copy \in Record
  /\ call \in {"none", "sent", "landed"}
  /\ scope \in {"none", "open", "due", "expired"}
  /\ asked \in BOOLEAN
  /\ result \in {"none", "failed"} \cup Outcomes
  /\ stream \in [Readers -> [at : {"away", "reading", "read"}, gone : BOOLEAN,
                             saw : {"queued", "running"} \cup Terminal,
                             got : Seq(Events)]]

(* The store never refuses a save of the worker (check_save): the worker's *)
(* record extends the stored log, whichever of its earlier saves raised,   *)
(* and whichever of those landed all the same.                             *)
NeverRefused == call = "sent" => Accepted(copy)

(* A worker that could read and write the job leaves it ended: no path     *)
(* through a failed save leaves a job in flight with nobody to end it.     *)
WorkerLeavesEnded == pc = "gone" => status \in Terminal \cup {"absent"}

(* A stop, or a deadline, that comes after the run returned changes        *)
(* nothing: the job ends as its run did, or failed (ADR 0109).             *)
ResultKept ==
  result # "none" /\ status \in Terminal => status \in {result, "failed"}

Abstract == INSTANCE JobLog
  WITH status <- status, log <- log, MaxNodes <- MaxNodes

(* What callers see of the job moves along the lifecycle, and its log is   *)
(* only extended, by legal events, until the job is deleted.               *)
ImplementsJobLog == Abstract!Spec

(* Every run ends where its deadline fires, even where its graph or the    *)
(* save of a node's event hangs forever: the worker goes, or leaves the    *)
(* job to the restart scan.                                                *)
RunEnds == WF_vars(Deadline) => <>(pc \in {"gone", "left"})

(* A stop ends the run, whenever it comes: before the run started, during  *)
(* it, or while a save hangs.  No deadline has to fire for it.             *)
StopEndsRun == asked ~> pc \in {"gone", "left"}

(* A client gets each event of the job once and in order, over every       *)
(* disconnect and resume, and a stream that ends because the job ended has *)
(* sent the whole log.                                                     *)
StreamIsWhole ==
  [][\A r \in Readers :
       /\ stream'[r].got # stream[r].got => IsPrefix(stream'[r].got, log)
       /\ Send(r) /\ stream'[r].at = "away" /\ status # "absent"
            => stream'[r].got = log]_vars

(* A stream gives its slot back: it ends where its client left, though the *)
(* job emits nothing for ever, and where the job ended or was deleted.     *)
StreamsClose ==
  \A r \in Readers :
    (stream[r].gone \/ status \in Terminal \cup {"absent"})
      ~> stream[r].at = "away"
=============================================================================
