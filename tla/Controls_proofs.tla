--------------------------- MODULE Controls_proofs ---------------------------
(***************************************************************************)
(* Proofs about Controls, for any number of saves, Controls, files and     *)
(* readers and any limits: the owner's bounds hold, of two edits of one    *)
(* version one lands, and a row lists what is stored.                      *)
(***************************************************************************)
EXTENDS Controls, FiniteSetTheorems, TLAPS

Over(s) == save[s].step \in {"landed", "stranded", "over"}

BaseLists(s) == IF save[s].base = None THEN {} ELSE save[save[s].base].lists

(* One save: what it read, what it lists, and whose texts those are.       *)
SaveInv(s) ==
  /\ save[s].step \in {"new", "open"} => save[s].lists = {}
  /\ save[s].step = "new" => save[s].entry = None
  /\ save[s].step # "new" => save[s].entry \in Entries
  /\ save[s].step \in {"new", "over"} => save[s].base = None /\ save[s].lists = {}
  /\ save[s].base # None => /\ Landed(save[s].base)
                            /\ save[save[s].base].entry = save[s].entry
  /\ save[s].lists \subseteq BaseLists(s) \cup {s}
  /\ \A k \in save[s].lists \ {s} : Landed(k) /\ save[k].entry = save[s].entry
  /\ save[s].step \in {"writing", "locked"} /\ s \in save[s].lists => s \in stored
  /\ s \in stored => save[s].step \notin {"new", "open", "putting"}

(* The ID of an add is its own.                                            *)
FreshIDs ==
  \A s, t \in Saves :
    /\ s # t /\ save[s].entry = save[t].entry /\ save[s].entry # None
    /\ save[s].step # "over" /\ save[t].step # "over"
    => save[s].base # None \/ save[t].base # None

(* What the save that holds the lock found stays true until it writes.     *)
LockInv(s) ==
  save[s].step = "locked" =>
    LET e == save[s].entry IN
    /\ Counted(s) /\ Scoped(s)
    /\ row[e].by = save[s].base \/ (save[s].base # None /\ ~Held(e))
    /\ \A t \in Saves : Landed(t) /\ save[t].entry = e => save[t].base # save[s].base

(* A row is the version that one landed save wrote, and nobody replaced.   *)
RowInv(e) ==
  IF Held(e)
  THEN LET s == row[e].by IN
       /\ Landed(s) /\ save[s].entry = e
       /\ row[e].lists = save[s].lists /\ row[e].scope = save[s].scope
       /\ \A t \in Saves : Landed(t) /\ save[t].entry = e => save[t].base # s
  ELSE row[e].lists = {}

ListedStored == \A e \in Entries : \A k \in row[e].lists : k \in stored \/ Stranded(k)

Unlisting(k) == \A e \in Entries : k \in row[e].lists => Stranded(k)

(* What somebody removes is listed by no row, and by none that can come.   *)
GoneInv ==
  /\ \A k \in doomed : Over(k) /\ Unlisting(k)
  /\ deletion # NoDelete =>
       /\ deletion.doc \in Docs
       /\ \A k \in deletion.lists : Landed(k) /\ save[k].entry = deletion.doc
  /\ sweep.step # "idle" => sweep.key \in Saves /\ Over(sweep.key)
  /\ sweep.step = "removing" => Unlisting(sweep.key)

ReaderInv ==
  \A r \in Readers :
    /\ reader[r].step # "idle" =>
         reader[r].entry \in Entries /\ reader[r].key \in Saves /\ Landed(reader[r].key)
    /\ reader[r].step = "missing" => reader[r].key \notin stored
    /\ reader[r].step = "corrupt" => Stranded(reader[r].key)

(* The inductive invariant.                                                *)
Inv ==
  /\ TypeOK /\ FreshIDs /\ (\A s \in Saves : SaveInv(s) /\ LockInv(s))
  /\ (\A e \in Entries : RowInv(e)) /\ ListedStored /\ GoneInv /\ ReaderInv
  /\ OwnerBounds /\ EditsLandOnce

-----------------------------------------------------------------------------
(* A step of a save that has not landed, before it lands.                  *)
Quiet(s, x) ==
  /\ ~Landed(s) /\ save' = [save EXCEPT ![s] = x] /\ row' = row
  /\ x.step \notin {"landed", "stranded"}
  /\ \A t \in Saves \ {s} : t \in stored' <=> t \in stored

(* A step of one save that is quiet keeps the rows, the other saves and the*)
(* bounds.                                                                 *)
LEMMA QuietKeeps ==
  ASSUME Inv, NEW s \in Saves, NEW x, Quiet(s, x)
  PROVE  /\ \A e \in Entries : RowInv(e)'
         /\ \A t \in Saves \ {s} : SaveInv(t)' /\ LockInv(t)'
         /\ OwnerBounds' /\ EditsLandOnce'
  <1>1. save'[s] = x /\ \A t \in Saves \ {s} : save'[t] = save[t]
    BY DEF Quiet, Inv, TypeOK
  <1>2. \A t \in Saves : Landed(t)' <=> Landed(t)
    BY <1>1 DEF Quiet, Landed
  <1>3. \A t \in Saves : Landed(t) => t # s /\ save'[t] = save[t]
    BY <1>1 DEF Quiet
  <1>4. \A e \in Entries : RowInv(e)'
    <2> SUFFICES ASSUME NEW e \in Entries PROVE RowInv(e)'
      OBVIOUS
    <2>1. RowInv(e) /\ row'[e] = row[e] /\ (Held(e) => row[e].by \in Saves)
      BY DEF Inv, Quiet, TypeOK, Row, Held
    <2> QED
      BY <1>2, <1>3, <2>1 DEF RowInv, Held
  <1>5. ASSUME NEW t \in Saves \ {s}  PROVE SaveInv(t)' /\ LockInv(t)'
    <2>1. SaveInv(t) /\ LockInv(t) /\ save'[t] = save[t]
      BY <1>1 DEF Inv
    <2>2. save[t].base # None => save[t].base \in Saves
      BY DEF Inv, TypeOK
    <2>3. save[t].lists \subseteq Saves
      BY DEF Inv, TypeOK
    <2>4. SaveInv(t)'
      <3>1. BaseLists(t)' = BaseLists(t)
        BY <1>3, <2>1, <2>2 DEF SaveInv, BaseLists
      <3>2. save[t].base # None => Landed(save[t].base)' /\ save'[save[t].base].entry = save[t].entry
        BY <1>2, <1>3, <2>1, <2>2 DEF SaveInv
      <3>3. \A k \in save[t].lists \ {t} : Landed(k)' /\ save'[k].entry = save[t].entry
        BY <1>2, <1>3, <2>1, <2>3 DEF SaveInv
      <3>4. t \in stored' <=> t \in stored
        BY DEF Quiet
      <3> QED
        BY <2>1, <3>1, <3>2, <3>3, <3>4 DEF SaveInv
    <2>5. LockInv(t)'
      BY <1>2, <1>3, <2>1 DEF LockInv, Counted, Scoped, HeldOf, Held, Quiet
    <2> QED
      BY <2>4, <2>5
  <1>6. OwnerBounds' /\ EditsLandOnce'
    BY <1>2, <1>3 DEF Inv, OwnerBounds, HeldOf, Held, Quiet, EditsLandOnce
  <1> QED
    BY <1>4, <1>5, <1>6

(* What a save that does not land leaves of the removals and the reads.    *)
LEMMA QuietGone ==
  ASSUME Inv, NEW s \in Saves, NEW x, Quiet(s, x), UNCHANGED <<deletion, sweep, reader>>,
         Over(s) => x.step = "over",
         doomed' \subseteq doomed \cup (IF x.step = "over" THEN {s} ELSE {})
  PROVE  /\ GoneInv' /\ ReaderInv'
         /\ stored \subseteq stored' => ListedStored'
  <1>1. save'[s] = x /\ \A t \in Saves \ {s} : save'[t] = save[t]
    BY DEF Quiet, Inv, TypeOK
  <1>2. \A t \in Saves : (Over(t) => Over(t)') /\ (Landed(t) <=> Landed(t)')
                        /\ (Stranded(t) <=> Stranded(t)')
    BY <1>1 DEF Quiet, Over, Landed, Stranded
  <1>3. \A t \in Saves : Landed(t) => t # s /\ save'[t] = save[t]
    BY <1>1 DEF Quiet
  <1>4. \A e \in Entries : \A k \in row[e].lists : k \in Saves /\ Landed(k)
    BY DEF Inv, RowInv, SaveInv, TypeOK, Row, Held
  <1>5. Unlisting(s)
    BY <1>4 DEF Unlisting, Quiet
  <1>6. \A k \in Saves : Unlisting(k) => Unlisting(k)'
    BY <1>2 DEF Unlisting, Quiet
  <1>7. GoneInv'
    <2>1. \A k \in doomed' : Over(k)' /\ Unlisting(k)'
      BY <1>1, <1>2, <1>5, <1>6 DEF Inv, GoneInv, TypeOK, Over
    <2>2. deletion # NoDelete => \A k \in deletion.lists :
            Landed(k)' /\ save'[k].entry = deletion.doc
      BY <1>2, <1>3 DEF Inv, GoneInv, TypeOK
    <2> QED
      BY <1>2, <1>6, <2>1, <2>2 DEF Inv, GoneInv
  <1>8. ReaderInv'
    BY <1>2, <1>3 DEF Inv, ReaderInv, Quiet
  <1>9. stored \subseteq stored' => ListedStored'
    BY <1>2, <1>4 DEF Inv, ListedStored, Quiet
  <1> QED
    BY <1>7, <1>8, <1>9

SaveRecord == [step : {"new", "open", "putting", "writing", "locked",
                       "landed", "stranded", "over"},
               entry : Entries \cup {None}, base : Saves \cup {None},
               scope : Scopes \cup {None}, lists : SUBSET Saves]

(* A save that moves keeps the types, and the IDs of the adds.             *)
LEMMA SaveTyped ==
  ASSUME TypeOK, NEW s \in Saves, NEW x \in SaveRecord, save' = [save EXCEPT ![s] = x],
         x.step = "locked" => save[s].step = "locked" \/ LockFree,
         row' \in [Entries -> Row], stored' \subseteq Saves, doomed' \subseteq Saves,
         UNCHANGED <<deletion, sweep, reader>>
  PROVE  TypeOK'
  <1>1. save \in [Saves -> SaveRecord]
    BY DEF TypeOK, SaveRecord
  <1>2. save' \in [Saves -> SaveRecord]
    BY <1>1
  <1>3. save'[s] = x /\ \A t \in Saves \ {s} : save'[t] = save[t]
    BY <1>1
  <1>4. \A t, u \in Saves : save'[t].step = "locked" /\ save'[u].step = "locked" => t = u
    BY <1>3 DEF TypeOK, LockFree
  <1> QED
    BY <1>2, <1>4 DEF TypeOK, SaveRecord

(* A save that begins, or goes on, keeps the IDs that are still to be taken*)
(* fresh.                                                                  *)
LEMMA SaveFresh ==
  ASSUME TypeOK, FreshIDs, NEW s \in Saves, NEW x, save' = [save EXCEPT ![s] = x],
         \/ x.step = "over"
         \/ x.entry = save[s].entry /\ x.base = save[s].base /\ save[s].step # "over"
  PROVE  FreshIDs'
  <1>1. save'[s] = x /\ \A t \in Saves \ {s} : save'[t] = save[t]
    BY DEF TypeOK
  <1> SUFFICES ASSUME NEW t \in Saves, NEW u \in Saves, t # u,
                      save'[t].entry = save'[u].entry, save'[t].entry # None,
                      save'[t].step # "over", save'[u].step # "over"
               PROVE  save'[t].base # None \/ save'[u].base # None
    BY DEF FreshIDs
  <1>2. \A v \in {t, u} : save'[v].entry = save[v].entry /\ save'[v].base = save[v].base
                        /\ save[v].step # "over"
    BY <1>1
  <1> QED
    BY <1>2 DEF FreshIDs

-----------------------------------------------------------------------------
(* The end of a save that changed no row, with its new text to remove.     *)
LEMMA EndKeeps ==
  ASSUME Inv, NEW s \in Saves, save[s].step \in {"open", "putting", "writing", "locked"},
         EndSave(s), stored' \in {stored, stored \cup {s}},
         doomed' \in {doomed, doomed \cup NewTexts(s)},
         UNCHANGED <<row, deletion, sweep, reader>>
  PROVE  Inv'
  <1>1. Quiet(s, Ended(s)) /\ Ended(s).step = "over" /\ Ended(s).lists = {}
    BY DEF Quiet, EndSave, Ended, NewSave, Landed
  <1>2. save'[s] = Ended(s) /\ \A t \in Saves \ {s} : save'[t] = save[t]
    BY DEF EndSave, Inv, TypeOK
  <1>3. TypeOK'
    <2>1. Ended(s) \in SaveRecord
      BY DEF Inv, TypeOK, Ended, NewSave, SaveRecord
    <2>2. stored' \subseteq Saves /\ doomed' \subseteq Saves /\ row' \in [Entries -> Row]
      BY DEF Inv, TypeOK, NewTexts
    <2> QED
      BY <1>1, <2>1, <2>2, SaveTyped DEF Inv, EndSave
  <1>4. GoneInv' /\ ReaderInv' /\ ListedStored'
    BY <1>1, QuietGone DEF NewTexts, Over
  <1>5. SaveInv(s)' /\ LockInv(s)'
    BY <1>2 DEF Inv, SaveInv, LockInv, Ended, NewSave, BaseLists
  <1>6. FreshIDs'
    BY <1>1, SaveFresh DEF Inv, EndSave
  <1> QED
    BY <1>1, <1>3, <1>4, <1>5, <1>6, QuietKeeps DEF Inv

(* An editor that opens keeps the invariant.                               *)
LEMMA OpenInv ==
  ASSUME ControlsAssumption, Inv, NEW s \in Saves, NEW e \in Entries, Open(s, e)
  PROVE  Inv'
  <1> DEFINE x == [save[s] EXCEPT !.step = "open", !.entry = e, !.base = row[e].by]
  <1>1. save' = [save EXCEPT ![s] = x] /\ UNCHANGED <<row, stored, Others>>
    BY DEF Open
  <1>2. x.step = "open" /\ x.entry = e /\ x.base = row[e].by /\ x.lists = {}
    BY DEF Inv, SaveInv, TypeOK, Open
  <1>3. Quiet(s, x)
    BY <1>1, <1>2 DEF Quiet, Open, Landed
  <1>4. save'[s] = x /\ \A t \in Saves \ {s} : save'[t] = save[t]
    BY <1>1 DEF Inv, TypeOK
  <1>5. TypeOK'
    <2>1. x \in SaveRecord
      <3>1. row[e].by \in Saves \cup {None} /\ save[s] \in SaveRecord
        BY DEF Inv, TypeOK, Row, SaveRecord
      <3> QED
        BY <3>1 DEF SaveRecord, Entries
    <2> QED
      BY <1>1, <1>2, <2>1, SaveTyped DEF Inv, TypeOK, Others
  <1>6. GoneInv' /\ ReaderInv' /\ ListedStored'
    BY <1>1, <1>2, <1>3, QuietGone DEF Others, Over, Open
  <1>7. row[e].by # None => /\ row[e].by \in Saves \ {s} /\ Landed(row[e].by)
                            /\ save[row[e].by].entry = e
    BY DEF Inv, RowInv, Held, TypeOK, Row, Open, Landed
  <1>8. SaveInv(s)' /\ LockInv(s)'
    <2>1. s \notin stored
      BY DEF Inv, SaveInv, Open
    <2>2. row[e].by # None => /\ save'[row[e].by].step \in {"landed", "stranded"}
                              /\ save'[row[e].by].entry = e
      BY <1>4, <1>7 DEF Landed
    <2> QED
      BY <1>1, <1>2, <1>4, <2>1, <2>2 DEF SaveInv, LockInv, Landed
  <1>9. FreshIDs'
    <2>1. row[e].by = None => \A t \in Saves : save[t].entry # e
      BY DEF Open, Held
    <2> SUFFICES ASSUME NEW t \in Saves, NEW u \in Saves, t # u,
                        save'[t].entry = save'[u].entry, save'[t].entry # None,
                        save'[t].step # "over", save'[u].step # "over"
                 PROVE  save'[t].base # None \/ save'[u].base # None
      BY DEF FreshIDs
    <2>2. CASE t # s /\ u # s
      BY <1>4, <2>2 DEF Inv, FreshIDs
    <2>3. CASE t = s \/ u = s
      BY <1>2, <1>4, <2>1, <2>3
    <2> QED
      BY <2>2, <2>3
  <1> QED
    BY <1>3, <1>5, <1>6, <1>8, <1>9, QuietKeeps DEF Inv

(* A save that arrives keeps the invariant.                                *)
LEMMA ArriveInv ==
  ASSUME ControlsAssumption, Inv, NEW s \in Saves, Arrive(s)
  PROVE  Inv'
  <1> DEFINE e == save[s].entry
  <1>1. PICK lists \in SUBSET (row[e].lists \cup {s}), scope \in Scopes \cup {None} :
          save' = [save EXCEPT ![s].lists = lists, ![s].scope = scope,
                     ![s].step = IF s \in lists THEN "putting" ELSE "writing"]
    BY DEF Arrive
  <1> DEFINE x == [save[s] EXCEPT !.lists = lists, !.scope = scope,
                     !.step = IF s \in lists THEN "putting" ELSE "writing"]
  <1>2. save' = [save EXCEPT ![s] = x] /\ UNCHANGED <<row, stored, Others>>
    BY <1>1 DEF Arrive, Inv, TypeOK
  <1>3. /\ x.step = (IF s \in lists THEN "putting" ELSE "writing")
        /\ x.entry = e /\ x.base = row[e].by /\ x.lists = lists /\ x.scope = scope
        /\ save[s].step = "open" /\ e \in Entries /\ save[s].base = row[e].by
    BY DEF Arrive, Inv, TypeOK, SaveInv
  <1>4. Quiet(s, x)
    BY <1>2, <1>3 DEF Quiet, Landed
  <1>5. save'[s] = x /\ \A t \in Saves \ {s} : save'[t] = save[t]
    BY <1>2 DEF Inv, TypeOK
  <1>6. row[e] \in Row /\ lists \subseteq Saves
    BY <1>3 DEF Inv, TypeOK, Row
  <1>7. TypeOK'
    <2>1. x \in SaveRecord
      BY <1>3, <1>6 DEF Inv, TypeOK, Row, SaveRecord
    <2> QED
      <3>1. x.step # "locked"
        BY <1>3
      <3>2. /\ row' \in [Entries -> Row] /\ stored' \subseteq Saves
            /\ doomed' \subseteq Saves /\ UNCHANGED <<deletion, sweep, reader>>
        BY <1>2 DEF Inv, TypeOK, Others
      <3> HIDE DEF x
      <3> QED
        BY <1>2, <2>1, <3>1, <3>2, SaveTyped DEF Inv
  <1>8. GoneInv' /\ ReaderInv' /\ ListedStored'
    BY <1>2, <1>3, <1>4, QuietGone DEF Others, Over
  <1>9. lists \subseteq BaseLists(s) \cup {s}
    BY <1>3, <1>6 DEF Inv, RowInv, Held, BaseLists
  <1>10. row[e].by # None => /\ row[e].by \in Saves \ {s} /\ Landed(row[e].by)
                             /\ save[row[e].by].entry = e
    BY <1>3, <1>6 DEF Inv, RowInv, Held, Row, Landed
  <1>11. \A k \in lists \ {s} : Landed(k) /\ save[k].entry = e
    <2> SUFFICES ASSUME NEW k \in lists \ {s} PROVE Landed(k) /\ save[k].entry = e
      OBVIOUS
    <2>1. row[e].by # None /\ k \in save[row[e].by].lists
      BY <1>3, <1>9 DEF BaseLists
    <2>2. SaveInv(row[e].by)
      BY <1>10, <2>1 DEF Inv
    <2> QED
      BY <1>10, <2>1, <2>2 DEF SaveInv
  <1>12. BaseLists(s)' = BaseLists(s)
    BY <1>3, <1>5, <1>10 DEF BaseLists
  <1>13. s \notin stored
    BY <1>3 DEF Inv, SaveInv
  <1>14. SaveInv(s)'
    <2>1. row[e].by # None => /\ save'[row[e].by].step \in {"landed", "stranded"}
                              /\ save'[row[e].by].entry = e
      BY <1>5, <1>10 DEF Landed
    <2>2. \A k \in lists \ {s} : /\ save'[k].step \in {"landed", "stranded"}
                                /\ save'[k].entry = e
      BY <1>5, <1>6, <1>11 DEF Landed
    <2>3. /\ save'[s].lists = lists /\ save'[s].entry = e /\ save'[s].base = row[e].by
          /\ save'[s].step = (IF s \in lists THEN "putting" ELSE "writing")
      BY <1>3, <1>5
    <2>4. lists \subseteq BaseLists(s)' \cup {s} /\ s \notin stored'
      BY <1>2, <1>9, <1>12, <1>13
    <2> HIDE DEF e, x
    <2> QED
      BY <1>3, <2>1, <2>2, <2>3, <2>4 DEF SaveInv, Landed
  <1>15. LockInv(s)' /\ FreshIDs'
    <2>1. FreshIDs'
      BY <1>2, <1>3, SaveFresh DEF Inv
    <2> QED
      BY <1>3, <1>5, <2>1 DEF LockInv
  <1> QED
    BY <1>4, <1>7, <1>8, <1>14, <1>15, QuietKeeps DEF Inv

(* A put of a text keeps the invariant.                                    *)
LEMMA PutTextInv ==
  ASSUME ControlsAssumption, Inv, NEW s \in Saves, PutText(s)
  PROVE  Inv'
  <1> DEFINE x == [save[s] EXCEPT !.step = "writing"]
  <1>1. /\ save' = [save EXCEPT ![s] = x] /\ UNCHANGED <<row, Others>>
        /\ save[s].step = "putting" /\ stored' = stored \cup {s}
    BY DEF PutText, To
  <1>2. /\ x.step = "writing" /\ x.entry = save[s].entry /\ x.base = save[s].base
        /\ x.lists = save[s].lists /\ x.scope = save[s].scope
    BY DEF Inv, TypeOK
  <1>3. Quiet(s, x)
    BY <1>1, <1>2 DEF Quiet, Landed
  <1>4. save'[s] = x /\ \A t \in Saves \ {s} : save'[t] = save[t]
    BY <1>1 DEF Inv, TypeOK
  <1>5. TypeOK'
    <2>1. x \in SaveRecord
      BY <1>2 DEF Inv, TypeOK, SaveRecord
    <2> QED
      BY <1>1, <1>2, <2>1, SaveTyped DEF Inv, TypeOK, Others
  <1>6. GoneInv' /\ ReaderInv' /\ ListedStored'
    BY <1>1, <1>2, <1>3, QuietGone DEF Others, Over
  <1>7. \A t \in Saves : Landed(t) => t # s /\ Landed(t)' /\ save'[t] = save[t]
    BY <1>1, <1>4 DEF Landed
  <1>8. SaveInv(s)'
    <2>1. SaveInv(s) /\ save[s].lists \subseteq Saves
          /\ (save[s].base # None => save[s].base \in Saves)
      BY DEF Inv, TypeOK
    <2>2. BaseLists(s)' = BaseLists(s)
      BY <1>2, <1>4, <1>7, <2>1 DEF BaseLists, SaveInv
    <2> QED
      BY <1>1, <1>2, <1>4, <1>7, <2>1, <2>2 DEF SaveInv
  <1>9. LockInv(s)' /\ FreshIDs'
    <2>1. FreshIDs'
      BY <1>1, <1>2, SaveFresh DEF Inv
    <2> QED
      BY <1>2, <1>4, <2>1 DEF LockInv
  <1> QED
    BY <1>3, <1>5, <1>6, <1>8, <1>9, QuietKeeps DEF Inv

(* Taking the lock keeps the invariant.                                    *)
LEMMA LockStepInv ==
  ASSUME ControlsAssumption, Inv, NEW s \in Saves, Lock(s)
  PROVE  Inv'
  <1> DEFINE x == [save[s] EXCEPT !.step = "locked"]
  <1>1. /\ save' = [save EXCEPT ![s] = x] /\ UNCHANGED <<row, stored, Others>>
        /\ save[s].step = "writing" /\ LockFree /\ Current(s) /\ Counted(s) /\ Scoped(s)
    BY DEF Lock, To, Fits
  <1>2. /\ x.step = "locked" /\ x.entry = save[s].entry /\ x.base = save[s].base
        /\ x.lists = save[s].lists /\ x.scope = save[s].scope
    BY DEF Inv, TypeOK
  <1>3. Quiet(s, x)
    BY <1>1, <1>2 DEF Quiet, Landed
  <1>4. save'[s] = x /\ \A t \in Saves \ {s} : save'[t] = save[t]
    BY <1>1 DEF Inv, TypeOK
  <1>5. TypeOK'
    <2>1. x \in SaveRecord
      BY <1>2 DEF Inv, TypeOK, SaveRecord
    <2> QED
      BY <1>1, <1>2, <2>1, SaveTyped DEF Inv, TypeOK, Others
  <1>6. GoneInv' /\ ReaderInv' /\ ListedStored'
    BY <1>1, <1>2, <1>3, QuietGone DEF Others, Over
  <1>7. \A t \in Saves : (Landed(t) <=> Landed(t)') /\ (Landed(t) => t # s /\ save'[t] = save[t])
    BY <1>1, <1>2, <1>4 DEF Landed
  <1>8. SaveInv(s)'
    <2>1. SaveInv(s) /\ save[s].lists \subseteq Saves
          /\ (save[s].base # None => save[s].base \in Saves)
      BY DEF Inv, TypeOK
    <2>2. BaseLists(s)' = BaseLists(s)
      BY <1>2, <1>4, <1>7, <2>1 DEF BaseLists, SaveInv
    <2> QED
      BY <1>1, <1>2, <1>4, <1>7, <2>1, <2>2 DEF SaveInv
  <1>9. FreshIDs'
    BY <1>1, <1>2, SaveFresh DEF Inv
  <1>10. \A t \in Saves : Landed(t) /\ save[t].entry = save[s].entry
                          => save[t].base # save[s].base
    <2>1. save[s].entry \in Entries /\ row[save[s].entry].by = save[s].base
      BY <1>1 DEF Inv, SaveInv, Current
    <2>2. CASE save[s].base = None
      <3>1. save[s].entry # None
        BY <2>1 DEF ControlsAssumption, Entries
      <3> QED
        BY <1>1, <2>2, <3>1 DEF Inv, FreshIDs, Landed
    <2>3. CASE save[s].base # None
      BY <2>1, <2>3 DEF Inv, RowInv, Held
    <2> QED
      BY <2>2, <2>3
  <1>11. LockInv(s)'
    BY <1>1, <1>2, <1>4, <1>7, <1>10 DEF LockInv, Counted, Scoped, HeldOf, Held, Current
  <1> QED
    BY <1>3, <1>5, <1>6, <1>8, <1>9, <1>11, QuietKeeps DEF Inv

-----------------------------------------------------------------------------
(* What a row lists are texts of saves of its own entry that landed.       *)
LEMMA ListedOwn ==
  ASSUME Inv, NEW e \in Entries, NEW k \in row[e].lists
  PROVE  k \in Saves /\ Landed(k) /\ save[k].entry = e
  <1>1. row[e] \in Row /\ RowInv(e)
    BY DEF Inv, TypeOK
  <1>2. /\ row[e].by \in Saves /\ Landed(row[e].by) /\ save[row[e].by].entry = e
        /\ k \in save[row[e].by].lists
    BY <1>1 DEF RowInv, Row, Held
  <1>3. SaveInv(row[e].by)
    BY <1>2 DEF Inv
  <1> QED
    BY <1>1, <1>2, <1>3 DEF SaveInv, Row

(* The rows of an owner can be counted.                                    *)
LEMMA HeldFinite ==
  ASSUME ControlsAssumption, NEW kind, kind \subseteq Entries
  PROVE  IsFiniteSet(HeldOf(kind))
  BY FS_Subset DEF ControlsAssumption, HeldOf, Entries

(* A save that lands, whatever its caller hears.                           *)
LEMMA LandInv ==
  ASSUME ControlsAssumption, Inv, NEW s \in Saves, save[s].step = "locked",
         NEW step \in {"landed", "stranded"}, To(s, step), Written(s),
         doomed' = doomed \cup (IF step = "landed" THEN Unlisted(s) ELSE NewTexts(s)),
         UNCHANGED <<stored, deletion, sweep, reader>>
  PROVE  Inv'
  <1> DEFINE x == [save[s] EXCEPT !.step = step]
  <1>1. save' = [save EXCEPT ![s] = x]
    BY DEF To
  <1>2. /\ x.step = step /\ x.entry = save[s].entry /\ x.base = save[s].base
        /\ x.lists = save[s].lists /\ x.scope = save[s].scope
    BY DEF Inv, TypeOK
  <1>3. save'[s] = x /\ \A t \in Saves \ {s} : save'[t] = save[t]
    BY <1>1 DEF Inv, TypeOK
  <1>4. \A t \in Saves : /\ save'[t].entry = save[t].entry /\ save'[t].base = save[t].base
                         /\ save'[t].lists = save[t].lists /\ save'[t].scope = save[t].scope
                         /\ Landed(t)' <=> Landed(t) \/ t = s
                         /\ Over(t) => Over(t)'
                         /\ Stranded(t) => Stranded(t)'
    BY <1>2, <1>3 DEF Landed, Over, Stranded
  <1>5. ~Landed(s) /\ ~Over(s) /\ SaveInv(s) /\ LockInv(s)
    BY DEF Landed, Over, Inv
  <1>6. PICK e \in Entries : e = save[s].entry
    BY <1>5 DEF SaveInv
  <1>7. \/ row' = row /\ save[s].base # None /\ row[e].by = None
        \/ /\ row' = [row EXCEPT ![e] = [by |-> s, scope |-> save[s].scope,
                                        lists |-> save[s].lists]]
           /\ row[e].by = save[s].base
    BY <1>5, <1>6 DEF Written, LockInv, Held
  <1>8. s \in Saves /\ s # None /\ save[s].lists \subseteq Saves
        /\ (save[s].base # None => save[s].base \in Saves)
    BY DEF ControlsAssumption, Inv, TypeOK
  <1>9. \A f \in Entries \ {e} : row'[f] = row[f]
    BY <1>7 DEF Inv, TypeOK
  <1>10. /\ row'[e].lists \subseteq row[e].lists \cup {s}
         /\ s \in row'[e].lists => s \in stored
    <2>1. RowInv(e) /\ row[e] \in Row
      BY DEF Inv, TypeOK
    <2>2. CASE row' = row /\ row[e].by = None
      BY <2>1, <2>2 DEF RowInv, Held
    <2>3. CASE /\ row' = [row EXCEPT ![e] = [by |-> s, scope |-> save[s].scope,
                                            lists |-> save[s].lists]]
               /\ row[e].by = save[s].base
      <3>1. row'[e].lists = save[s].lists
        BY <2>3 DEF Inv, TypeOK
      <3>2. BaseLists(s) \subseteq row[e].lists
        BY <2>1, <2>3 DEF RowInv, Held, BaseLists
      <3> QED
        BY <1>5, <3>1, <3>2 DEF SaveInv
    <2> QED
      BY <1>7, <2>2, <2>3
  <1>11. \A k \in Unlisted(s) : k \notin row'[e].lists /\ k \in Saves
                               /\ Landed(k) /\ save[k].entry = e
    <2> SUFFICES ASSUME NEW k \in Unlisted(s)
                 PROVE  k \notin row'[e].lists /\ k \in Saves
                        /\ Landed(k) /\ save[k].entry = e
      OBVIOUS
    <2>1. save[s].base \in Saves /\ k \in save[save[s].base].lists /\ k \notin save[s].lists
      BY <1>8 DEF Unlisted
    <2>2. /\ SaveInv(save[s].base) /\ Landed(save[s].base)
          /\ save[save[s].base].entry = e /\ k \in Saves
      BY <1>5, <1>6, <2>1 DEF Inv, SaveInv, TypeOK, ControlsAssumption
    <2>3. Landed(k) /\ save[k].entry = e
      BY <2>1, <2>2 DEF SaveInv
    <2>4. k \notin row'[e].lists
      <3>1. row[e].by = None => row[e].lists = {}
        BY DEF Inv, RowInv, Held
      <3> QED
        BY <1>7, <2>1, <3>1 DEF Inv, TypeOK
    <2> QED
      BY <2>2, <2>3, <2>4
  <1>12. TypeOK'
    <2>1. x \in SaveRecord
      BY <1>2 DEF Inv, TypeOK, SaveRecord
    <2>2. row' \in [Entries -> Row]
      BY <1>7, <1>8 DEF Inv, TypeOK, Row
    <2>3. doomed' \subseteq Saves
      BY <1>11 DEF Inv, TypeOK, NewTexts
    <2>4. x.step # "locked" /\ stored' \subseteq Saves
      BY <1>2 DEF Inv, TypeOK
    <2> HIDE DEF x
    <2> QED
      BY <1>1, <2>1, <2>2, <2>3, <2>4, SaveTyped DEF Inv
  <1>13. FreshIDs'
    BY <1>1, <1>2, SaveFresh DEF Inv
  <1>14. ASSUME NEW t \in Saves  PROVE SaveInv(t)' /\ LockInv(t)'
    <2>1. SaveInv(t) /\ save[t].lists \subseteq Saves
          /\ (save[t].base # None => save[t].base \in Saves)
      BY DEF Inv, TypeOK
    <2>2. BaseLists(t)' = BaseLists(t)
      BY <1>4, <2>1 DEF BaseLists
    <2>3. save'[t].step = save[t].step \/ (t = s /\ save'[t].step \in {"landed", "stranded"})
      BY <1>2, <1>3
    <2>4. \A k \in save[t].lists \ {t} : Landed(k)' /\ save'[k].entry = save[t].entry
      BY <1>4, <2>1 DEF SaveInv
    <2>5. save[t].base # None => Landed(save[t].base)' /\ save'[save[t].base].entry = save[t].entry
      <3>1. save'[t].base = save[t].base
        BY <1>4
      <3>2. save[t].base # None => Landed(save[t].base)
                                   /\ save[save[t].base].entry = save[t].entry
        BY <2>1 DEF SaveInv
      <3>3. \A b \in Saves : Landed(b) => save'[b].step \in {"landed", "stranded"}
        BY <1>4 DEF Landed
      <3> QED
        BY <1>4, <2>1, <3>1, <3>2, <3>3 DEF Landed
    <2>6. SaveInv(t)'
      BY <1>4, <1>6, <2>1, <2>2, <2>3, <2>4, <2>5 DEF SaveInv
    <2>7. save'[t].step # "locked"
      BY <1>2, <1>3 DEF Inv, TypeOK
    <2> QED
      BY <2>6, <2>7 DEF LockInv
  <1>15. ASSUME NEW f \in Entries  PROVE RowInv(f)'
    <2>1. RowInv(f) /\ row[f] \in Row
      BY DEF Inv, TypeOK
    <2>2. CASE row'[f] = row[f] /\ (f # e \/ row[f].by = None)
      <3>1. row[f].by # None => row[f].by \in Saves
        BY <2>1 DEF Row
      <3>2. \A t \in Saves : Landed(t)' /\ save'[t].entry = f => Landed(t) \/ f = e
        BY <1>4, <1>6
      <3> QED
        BY <1>4, <2>1, <2>2, <3>1, <3>2 DEF RowInv, Held, Landed
    <2>3. CASE f = e /\ row'[e] = [by |-> s, scope |-> save[s].scope, lists |-> save[s].lists]
      <3>1. \A t \in Saves : save[t].base # s
        BY <1>5, <1>8 DEF Inv, SaveInv
      <3> QED
        BY <1>4, <1>6, <1>8, <2>3, <3>1 DEF RowInv, Held, Landed
    <2> QED
      BY <1>7, <1>9, <2>2, <2>3 DEF Inv, TypeOK
  <1>16. ListedStored'
    <2> SUFFICES ASSUME NEW f \in Entries, NEW k \in row'[f].lists
                 PROVE  k \in stored' \/ Stranded(k)'
      BY DEF ListedStored
    <2>1. k \in row[f].lists \/ (k = s /\ s \in stored)
      BY <1>9, <1>10
    <2>2. k \in row[f].lists => k \in Saves /\ (k \in stored \/ Stranded(k))
      BY ListedOwn DEF Inv, ListedStored
    <2> QED
      BY <1>4, <2>1, <2>2
  <1>17. \A k \in Saves : Over(k) /\ Unlisting(k) => Over(k)' /\ Unlisting(k)'
    BY <1>4, <1>5, <1>9, <1>10 DEF Unlisting
  <1>18. GoneInv'
    <2>1. \A k \in doomed' : Over(k)' /\ Unlisting(k)'
      <3> SUFFICES ASSUME NEW k \in doomed' PROVE Over(k)' /\ Unlisting(k)'
        OBVIOUS
      <3>1. CASE k \in doomed
        BY <1>17, <3>1 DEF Inv, GoneInv, TypeOK
      <3>2. CASE step = "landed" /\ k \in Unlisted(s)
        <4>1. \A f \in Entries \ {e} : k \notin row[f].lists
          BY <1>11, <3>2, ListedOwn
        <4>2. Over(k)
          BY <1>11, <3>2 DEF Landed, Over
        <4> QED
          BY <1>4, <1>9, <1>11, <3>2, <4>1, <4>2 DEF Unlisting
      <3>3. CASE step = "stranded" /\ k = s
        BY <1>2, <1>3, <3>3 DEF Over, Unlisting, Stranded
      <3> QED
        BY <3>1, <3>2, <3>3 DEF NewTexts
    <2>2. deletion # NoDelete => \A k \in deletion.lists :
            Landed(k)' /\ save'[k].entry = deletion.doc
      BY <1>4 DEF Inv, GoneInv, TypeOK
    <2> QED
      BY <1>4, <1>17, <2>1, <2>2 DEF Inv, GoneInv
  <1>19. ReaderInv'
    BY <1>4 DEF Inv, ReaderInv
  <1>20. OwnerBounds'
    <2>1. CASE save[s].base # None
      <3>1. \A f \in Entries : Held(f)' <=> Held(f)
        BY <1>7, <1>8, <2>1 DEF Held, Inv, TypeOK
      <3>2. HeldOf(Docs)' = HeldOf(Docs) /\ HeldOf(Files)' = HeldOf(Files)
        BY <3>1 DEF HeldOf, Entries
      <3>3. Cardinality(HeldOf(Docs)') <= MaxControls /\ Cardinality(HeldOf(Files)') <= MaxFiles
        BY <3>2 DEF Inv, OwnerBounds
      <3>4. \A c \in HeldOf(Docs)' : \A d \in HeldOf(Docs)' \ {c} :
              {row'[c].scope, row'[d].scope} \notin Clashing
        <4> SUFFICES ASSUME NEW c \in HeldOf(Docs), NEW d \in HeldOf(Docs), c # d
                     PROVE  {row'[c].scope, row'[d].scope} \notin Clashing
          BY <3>2
        <4>1. c \in Docs /\ d \in Docs /\ Docs \subseteq Entries
          BY DEF HeldOf, Entries
        <4>2. {row[c].scope, row[d].scope} \notin Clashing
          BY DEF Inv, OwnerBounds
        <4>3. save[s].entry \in Docs => \A f \in HeldOf(Docs) \ {e} :
                {row[f].scope, save[s].scope} \notin Clashing
          BY <1>5, <1>6 DEF LockInv, Scoped
        <4>4. CASE row' = row
          BY <4>2, <4>4
        <4>5. CASE row' = [row EXCEPT ![e] = [by |-> s, scope |-> save[s].scope,
                                            lists |-> save[s].lists]]
          <5>1. \A f \in Entries : row'[f].scope = IF f = e THEN save[s].scope ELSE row[f].scope
            BY <4>5 DEF Inv, TypeOK
          <5>2. {save[s].scope, row[d].scope} = {row[d].scope, save[s].scope}
            OBVIOUS
          <5>3. CASE c = e
            BY <4>1, <4>3, <5>1, <5>2, <5>3, <1>6
          <5>4. CASE c # e
            BY <4>1, <4>2, <4>3, <5>1, <5>4, <1>6
          <5> QED
            BY <5>3, <5>4
        <4> QED
          BY <1>7, <4>4, <4>5
      <3> QED
        BY <3>3, <3>4 DEF OwnerBounds
    <2>2. CASE save[s].base = None
      <3>1. /\ row' = [row EXCEPT ![e] = [by |-> s, scope |-> save[s].scope,
                                         lists |-> save[s].lists]]
            /\ ~Held(e)
        BY <1>7, <2>2 DEF Held
      <3>2. \A f \in Entries : /\ Held(f)' <=> Held(f) \/ f = e
                               /\ row'[f].scope = IF f = e THEN save[s].scope ELSE row[f].scope
        BY <1>8, <3>1 DEF Held, Inv, TypeOK
      <3>3. \A kind \in {Docs, Files} :
              HeldOf(kind)' = IF e \in kind THEN HeldOf(kind) \cup {e} ELSE HeldOf(kind)
        BY <3>2 DEF HeldOf, Entries
      <3>4. IsFiniteSet(HeldOf(Docs)) /\ IsFiniteSet(HeldOf(Files))
        BY HeldFinite DEF Entries
      <3>5. e \notin HeldOf(Docs) /\ e \notin HeldOf(Files)
        BY <3>1 DEF HeldOf
      <3>6. /\ Cardinality(HeldOf(Docs)) \in Nat /\ Cardinality(HeldOf(Files)) \in Nat
            /\ Cardinality(HeldOf(Docs) \cup {e}) = Cardinality(HeldOf(Docs)) + 1
            /\ Cardinality(HeldOf(Files) \cup {e}) = Cardinality(HeldOf(Files)) + 1
        BY <3>4, <3>5, FS_CardinalityType, FS_AddElement
      <3>7. /\ e \in Docs => Cardinality(HeldOf(Docs)) < MaxControls
            /\ e \in Files => Cardinality(HeldOf(Files)) < MaxFiles
        BY <1>5, <1>6, <2>2 DEF LockInv, Counted, ControlsAssumption
      <3>8. Cardinality(HeldOf(Docs)') <= MaxControls /\ Cardinality(HeldOf(Files)') <= MaxFiles
        <4>1. CASE e \in Docs
          <5>1. HeldOf(Docs)' = HeldOf(Docs) \cup {e} /\ HeldOf(Files)' = HeldOf(Files)
            BY <3>3, <4>1 DEF ControlsAssumption
          <5> QED
            BY <3>6, <3>7, <4>1, <5>1 DEF Inv, OwnerBounds, ControlsAssumption
        <4>2. CASE e \notin Docs
          <5>1. HeldOf(Docs)' = HeldOf(Docs) /\ HeldOf(Files)' = HeldOf(Files) \cup {e}
                /\ e \in Files
            BY <3>3, <4>2 DEF Entries
          <5> QED
            BY <3>6, <3>7, <5>1 DEF Inv, OwnerBounds, ControlsAssumption
        <4> QED
          BY <4>1, <4>2
      <3>9. ASSUME NEW c \in HeldOf(Docs)', NEW d \in HeldOf(Docs)', c # d
            PROVE  {row'[c].scope, row'[d].scope} \notin Clashing
        <4>1. c \in Docs /\ d \in Docs /\ Docs \subseteq Entries
          BY DEF HeldOf, Entries
        <4>2. /\ c \in HeldOf(Docs) \/ c = e
              /\ d \in HeldOf(Docs) \/ d = e
          BY <3>3
        <4>3. e \in Docs => \A f \in HeldOf(Docs) \ {e} :
                {row[f].scope, save[s].scope} \notin Clashing
          BY <1>5, <1>6 DEF LockInv, Scoped
        <4>4. c # e /\ d # e => {row[c].scope, row[d].scope} \notin Clashing
          BY <3>9, <4>2 DEF Inv, OwnerBounds
        <4>5. {row[c].scope, save[s].scope} = {save[s].scope, row[c].scope}
              /\ {row[d].scope, save[s].scope} = {save[s].scope, row[d].scope}
          OBVIOUS
        <4> QED
          BY <3>2, <3>9, <4>1, <4>2, <4>3, <4>4, <4>5
      <3> QED
        BY <3>8, <3>9 DEF OwnerBounds
    <2> QED
      BY <2>1, <2>2
  <1>21. EditsLandOnce'
    BY <1>4, <1>5, <1>6 DEF Inv, EditsLandOnce, LockInv
  <1> QED
    BY <1>12, <1>13, <1>14, <1>15, <1>16, <1>18, <1>19, <1>20, <1>21 DEF Inv

-----------------------------------------------------------------------------
(* A step that moves no save and no row, and removes what nobody lists.    *)
LEMMA SameRows ==
  ASSUME Inv, UNCHANGED <<row, save>>, stored' \subseteq stored,
         \A k \in stored \ stored' : Over(k) /\ Unlisting(k), TypeOK'
  PROVE  /\ FreshIDs' /\ (\A s \in Saves : SaveInv(s)' /\ LockInv(s)')
         /\ (\A e \in Entries : RowInv(e)') /\ ListedStored' /\ OwnerBounds' /\ EditsLandOnce'
         /\ (UNCHANGED reader => ReaderInv')
  <1>1. \A s \in Saves : SaveInv(s)'
    <2> SUFFICES ASSUME NEW s \in Saves PROVE SaveInv(s)'
      OBVIOUS
    <2>1. SaveInv(s) /\ (s \in stored \ stored' => save[s].step \notin {"writing", "locked"})
      BY DEF Inv, Over
    <2> QED
      BY <2>1 DEF SaveInv, BaseLists, Landed
  <1>2. \A s \in Saves : LockInv(s)'
    BY DEF Inv, LockInv, Counted, Scoped, HeldOf, Held, Landed
  <1>3. \A e \in Entries : RowInv(e)'
    BY DEF Inv, RowInv, Held, Landed
  <1>4. ListedStored'
    BY DEF Inv, ListedStored, Unlisting, Stranded
  <1>5. FreshIDs' /\ OwnerBounds' /\ EditsLandOnce'
    BY DEF Inv, FreshIDs, OwnerBounds, HeldOf, Held, EditsLandOnce, Landed
  <1>6. UNCHANGED reader => ReaderInv'
    BY DEF Inv, ReaderInv, Landed, Stranded
  <1> QED
    BY <1>1, <1>2, <1>3, <1>4, <1>5, <1>6

(* What the invariant says of the removals does not read the store.        *)
LEMMA GoneKept ==
  ASSUME Inv, UNCHANGED <<row, save>>, doomed' \subseteq doomed,
         deletion' \in {deletion, NoDelete}, sweep' \in {sweep, NoSweep}
  PROVE  GoneInv'
  BY DEF Inv, GoneInv, Over, Unlisting, Stranded, Landed, NoDelete, NoSweep

(* A removal of a text keeps the invariant.                                *)
LEMMA RemovalsInv ==
  ASSUME ControlsAssumption, Inv,
         \/ \E k \in Saves : Remove(k) \/ SweepList(k)
         \/ SweepRead \/ SweepRemove \/ \E d \in Docs : DeleteRead(d)
  PROVE  Inv'
  <1>1. ASSUME NEW k \in Saves, Remove(k)  PROVE Inv'
    <2>1. UNCHANGED <<row, save, deletion, sweep, reader>> /\ doomed' \subseteq doomed
      BY <1>1 DEF Remove
    <2>2. stored' \subseteq stored /\ \A j \in stored \ stored' : j = k
      BY <1>1 DEF Remove
    <2>3. Over(k) /\ Unlisting(k)
      BY <1>1 DEF Remove, Inv, GoneInv
    <2>4. TypeOK'
      BY <2>1, <2>2 DEF Inv, TypeOK
    <2> QED
      BY <2>1, <2>2, <2>3, <2>4, SameRows, GoneKept DEF Inv
  <1>2. ASSUME NEW k \in Saves, SweepList(k)  PROVE Inv'
    <2>1. UNCHANGED <<row, stored, save, deletion, doomed, reader>>
      BY <1>2 DEF SweepList
    <2>2. Over(k) /\ sweep' = [step |-> "listed", key |-> k]
      BY <1>2 DEF SweepList, Inv, SaveInv, TypeOK, Over
    <2>3. TypeOK'
      BY <2>1, <2>2 DEF Inv, TypeOK
    <2>4. GoneInv'
      BY <2>1, <2>2 DEF Inv, GoneInv, Over, Unlisting, Stranded, Landed
    <2> QED
      BY <2>1, <2>3, <2>4, SameRows DEF Inv
  <1>3. CASE SweepRead
    <2>1. UNCHANGED <<row, stored, save, deletion, doomed, reader>>
      BY <1>3 DEF SweepRead
    <2>2. TypeOK'
      BY <1>3 DEF SweepRead, NoSweep, Inv, TypeOK
    <2>3. CASE sweep' = NoSweep
      BY <2>1, <2>2, <2>3, SameRows, GoneKept DEF Inv
    <2>4. CASE sweep.key \notin Kept /\ sweep' = [sweep EXCEPT !.step = "removing"]
      <3>1. sweep.step # "idle" /\ sweep'.key = sweep.key
        BY <1>3, <2>4 DEF SweepRead, Inv, TypeOK
      <3>2. Unlisting(sweep.key)
        BY <2>4 DEF Kept, Unlisting
      <3>3. GoneInv'
        BY <2>1, <3>1, <3>2 DEF Inv, GoneInv, Over, Unlisting, Stranded, Landed
      <3> QED
        BY <2>1, <2>2, <3>3, SameRows DEF Inv
    <2> QED
      BY <1>3, <2>3, <2>4 DEF SweepRead
  <1>4. CASE SweepRemove
    <2>1. UNCHANGED <<row, save, deletion, doomed, reader>> /\ sweep' = NoSweep
      BY <1>4 DEF SweepRemove
    <2>2. stored' \subseteq stored /\ \A j \in stored \ stored' : j = sweep.key
      BY <1>4 DEF SweepRemove
    <2>3. Over(sweep.key) /\ Unlisting(sweep.key)
      BY <1>4 DEF SweepRemove, Inv, GoneInv
    <2>4. TypeOK'
      BY <2>1, <2>2 DEF Inv, TypeOK, NoSweep
    <2> QED
      BY <2>1, <2>2, <2>3, <2>4, SameRows, GoneKept DEF Inv
  <1>5. ASSUME NEW d \in Docs, DeleteRead(d)  PROVE Inv'
    <2>1. UNCHANGED <<row, stored, save, doomed, sweep, reader>>
      BY <1>5 DEF DeleteRead
    <2>2. deletion' = [doc |-> d, lists |-> row[d].lists] /\ d \in Entries
      BY <1>5 DEF DeleteRead, Entries
    <2>3. \A k \in row[d].lists : Landed(k) /\ save[k].entry = d
      BY <2>2, ListedOwn
    <2>4. TypeOK'
      BY <2>1, <2>2 DEF Inv, TypeOK, Row
    <2>5. GoneInv'
      BY <2>1, <2>2, <2>3 DEF Inv, GoneInv, Over, Unlisting, Stranded, Landed
    <2> QED
      BY <2>1, <2>4, <2>5, SameRows DEF Inv
  <1> QED
    BY <1>1, <1>2, <1>3, <1>4, <1>5

(* A step of a reader keeps the invariant.                                 *)
LEMMA ReaderStepInv ==
  ASSUME Inv, NEW r \in Readers, ReaderStep(r)
  PROVE  Inv'
  <1>1. UNCHANGED <<row, stored, save, deletion, doomed, sweep>>
    BY DEF ReaderStep, ReadRow, ReadObject, ReadAgain
  <1>2. reader \in [Readers -> [step : {"idle", "object", "missing", "corrupt"},
                               entry : Entries \cup {None}, key : Saves \cup {None}]]
    BY DEF Inv, TypeOK
  <1>3. PICK y : reader' = [reader EXCEPT ![r] = y] /\
                 (\/ y = Unread
                  \/ /\ reader[r].step # "idle"
                     /\ y.entry = reader[r].entry /\ y.key = reader[r].key
                     /\ \/ y.step = "missing" /\ y.key \notin stored
                        \/ y.step = "corrupt" /\ reader[r].step = "missing"
                           /\ y.key \in row[y.entry].lists
                     /\ y \in [step : {"missing", "corrupt"},
                               entry : Entries \cup {None}, key : Saves \cup {None}]
                  \/ \E e \in Entries, k \in Saves :
                       k \in row[e].lists /\ y = [step |-> "object", entry |-> e, key |-> k])
    <2>1. CASE \E e \in Entries, k \in Saves : ReadRow(r, e, k)
      BY <2>1 DEF ReadRow
    <2>2. CASE ReadObject(r)
      <3>1. CASE reader[r].key \in stored
        BY <2>2, <3>1 DEF ReadObject
      <3>2. CASE reader[r].key \notin stored
        <4> DEFINE y == [reader[r] EXCEPT !.step = "missing"]
        <4>1. reader' = [reader EXCEPT ![r] = y] /\ reader[r].step = "object"
          BY <2>2, <3>2 DEF ReadObject
        <4>2. y.entry = reader[r].entry /\ y.key = reader[r].key /\ y.step = "missing"
              /\ y \in [step : {"missing", "corrupt"},
                        entry : Entries \cup {None}, key : Saves \cup {None}]
          BY <1>2
        <4> HIDE DEF y
        <4> QED
          BY <3>2, <4>1, <4>2
      <3> QED
        BY <3>1, <3>2
    <2>3. CASE ReadAgain(r)
      <3>1. CASE reader[r].key \notin row[reader[r].entry].lists
        BY <2>3, <3>1 DEF ReadAgain
      <3>2. CASE reader[r].key \in row[reader[r].entry].lists
        <4> DEFINE y == [reader[r] EXCEPT !.step = "corrupt"]
        <4>1. reader' = [reader EXCEPT ![r] = y] /\ reader[r].step = "missing"
          BY <2>3, <3>2 DEF ReadAgain
        <4>2. y.entry = reader[r].entry /\ y.key = reader[r].key /\ y.step = "corrupt"
              /\ y \in [step : {"missing", "corrupt"},
                        entry : Entries \cup {None}, key : Saves \cup {None}]
          BY <1>2
        <4> HIDE DEF y
        <4> QED
          BY <3>2, <4>1, <4>2
      <3> QED
        BY <3>1, <3>2
    <2> QED
      BY <2>1, <2>2, <2>3 DEF ReaderStep
  <1>4. reader'[r] = y /\ \A q \in Readers \ {r} : reader'[q] = reader[q]
    BY <1>2, <1>3
  <1>5. y \in [step : {"idle", "object", "missing", "corrupt"},
               entry : Entries \cup {None}, key : Saves \cup {None}]
    BY <1>3 DEF Unread
  <1>6. TypeOK'
    <2>1. reader' \in [Readers -> [step : {"idle", "object", "missing", "corrupt"},
                                   entry : Entries \cup {None}, key : Saves \cup {None}]]
      BY <1>2, <1>3, <1>5
    <2> QED
      BY <1>1, <2>1 DEF Inv, TypeOK
  <1>7. /\ y.step # "idle" => y.entry \in Entries /\ y.key \in Saves /\ Landed(y.key)
        /\ y.step = "missing" => y.key \notin stored
        /\ y.step = "corrupt" => Stranded(y.key)
    <2>1. CASE y = Unread
      BY <2>1 DEF Unread
    <2>2. CASE reader[r].step # "idle" /\ y.entry = reader[r].entry /\ y.key = reader[r].key
               /\ \/ y.step = "missing" /\ y.key \notin stored
                  \/ y.step = "corrupt" /\ reader[r].step = "missing"
                     /\ y.key \in row[y.entry].lists
      BY <2>2 DEF Inv, ReaderInv, ListedStored
    <2>3. CASE \E e \in Entries, k \in Saves :
                 k \in row[e].lists /\ y = [step |-> "object", entry |-> e, key |-> k]
      BY <2>3, ListedOwn
    <2> QED
      BY <1>3, <2>1, <2>2, <2>3
  <1>8. ReaderInv'
    BY <1>1, <1>4, <1>7 DEF Inv, ReaderInv, Landed, Stranded
  <1>9. GoneInv'
    BY <1>1, GoneKept
  <1> QED
    BY <1>1, <1>6, <1>8, <1>9, SameRows DEF Inv

(* A row that goes, and the texts that its document listed when read.      *)
LEMMA RowGoes ==
  ASSUME ControlsAssumption, Inv, NEW e \in Entries, row' = [row EXCEPT ![e] = NoRow],
         NEW L \in SUBSET Saves, \A k \in L : Landed(k) /\ save[k].entry = e,
         doomed' = doomed \cup L, deletion' \in {deletion, NoDelete},
         UNCHANGED <<stored, save, sweep, reader>>
  PROVE  Inv'
  <1>1. row'[e] = NoRow /\ \A f \in Entries \ {e} : row'[f] = row[f]
    BY DEF Inv, TypeOK
  <1>2. TypeOK'
    <2>1. NoRow \in Row
      BY DEF NoRow, Row
    <2> QED
      BY <2>1 DEF Inv, TypeOK, NoDelete
  <1>3. \A kind : kind \subseteq Entries => HeldOf(kind)' \subseteq HeldOf(kind)
    BY <1>1 DEF HeldOf, Held, NoRow
  <1>4. \A kind : kind \subseteq Entries =>
          Cardinality(HeldOf(kind)') \in Nat /\ Cardinality(HeldOf(kind)) \in Nat
          /\ Cardinality(HeldOf(kind)') <= Cardinality(HeldOf(kind))
    <2> SUFFICES ASSUME NEW kind, kind \subseteq Entries
                 PROVE  Cardinality(HeldOf(kind)') \in Nat /\ Cardinality(HeldOf(kind)) \in Nat
                        /\ Cardinality(HeldOf(kind)') <= Cardinality(HeldOf(kind))
      OBVIOUS
    <2>1. IsFiniteSet(HeldOf(kind))
      BY HeldFinite
    <2>2. IsFiniteSet(HeldOf(kind)')
      BY <1>3, <2>1, FS_Subset
    <2> QED
      BY <1>3, <2>1, <2>2, FS_Subset, FS_CardinalityType
  <1>5. ASSUME NEW s \in Saves  PROVE SaveInv(s)' /\ LockInv(s)'
    <2>1. SaveInv(s)'
      BY DEF Inv, SaveInv, BaseLists, Landed
    <2>2. CASE save[s].step = "locked"
      <3>1. PICK f \in Entries : f = save[s].entry
        BY <2>2 DEF Inv, SaveInv
      <3>2. Counted(s)'
        BY <1>4, <2>2 DEF Inv, LockInv, Counted, ControlsAssumption, Entries
      <3>3. Scoped(s)'
        <4>1. \A d \in HeldOf(Docs)' \ {f} : d \in HeldOf(Docs) /\ row'[d] = row[d]
          BY <1>1, <1>3 DEF HeldOf, Held, NoRow, Entries
        <4> QED
          BY <2>2, <3>1, <4>1 DEF Inv, LockInv, Scoped
      <3>4. row'[f].by = save[s].base \/ (save[s].base # None /\ row'[f].by = None)
        BY <1>1, <2>2, <3>1 DEF Inv, LockInv, Held, NoRow
      <3> QED
        <4>1. save'[s] = save[s]
          OBVIOUS
        <4>2. \A t \in Saves : Landed(t)' /\ save'[t].entry = f => save'[t].base # save[s].base
          BY <2>2, <3>1 DEF Inv, LockInv, Landed
        <4> QED
          BY <2>1, <3>1, <3>2, <3>3, <3>4, <4>1, <4>2 DEF LockInv, Held
    <2> QED
      BY <2>1, <2>2 DEF LockInv
  <1>6. ASSUME NEW f \in Entries  PROVE RowInv(f)'
    BY <1>1 DEF Inv, RowInv, Held, NoRow, Landed
  <1>7. ListedStored'
    BY <1>1 DEF Inv, ListedStored, Stranded, NoRow
  <1>8. \A k \in Saves : Over(k) /\ Unlisting(k) => Over(k)' /\ Unlisting(k)'
    BY <1>1 DEF Unlisting, Over, Stranded, NoRow
  <1>9. \A k \in L : Over(k)' /\ Unlisting(k)'
    <2> SUFFICES ASSUME NEW k \in L PROVE Over(k)' /\ Unlisting(k)'
      OBVIOUS
    <2>1. \A f \in Entries \ {e} : k \notin row[f].lists
      BY ListedOwn
    <2> QED
      BY <1>1, <2>1 DEF Unlisting, Over, Landed, NoRow
  <1>10. GoneInv'
    <2>1. \A k \in doomed' : Over(k)' /\ Unlisting(k)'
      BY <1>8, <1>9 DEF Inv, GoneInv, TypeOK
    <2>2. deletion' # NoDelete =>
            /\ deletion'.doc \in Docs
            /\ \A k \in deletion'.lists : Landed(k)' /\ save'[k].entry = deletion'.doc
      BY DEF Inv, GoneInv, Landed
    <2>3. /\ sweep.step # "idle" => sweep.key \in Saves /\ Over(sweep.key)
          /\ sweep.step = "removing" => Unlisting(sweep.key)
      BY DEF Inv, GoneInv
    <2>4. (/\ sweep.step # "idle" => sweep.key \in Saves /\ Over(sweep.key)
           /\ sweep.step = "removing" => Unlisting(sweep.key))'
      BY <1>1, <2>3 DEF Over, Unlisting, Stranded, NoRow
    <2> QED
      BY <2>1, <2>2, <2>3, <2>4 DEF GoneInv, NoDelete
  <1>11. OwnerBounds'
    <2>1. Cardinality(HeldOf(Docs)') <= MaxControls /\ Cardinality(HeldOf(Files)') <= MaxFiles
      BY <1>4 DEF Inv, OwnerBounds, ControlsAssumption, Entries
    <2>2. \A c \in HeldOf(Docs)' : c \in HeldOf(Docs) /\ row'[c] = row[c]
      BY <1>1, <1>3 DEF HeldOf, Held, NoRow, Entries
    <2> QED
      BY <2>1, <2>2 DEF Inv, OwnerBounds
  <1>12. FreshIDs' /\ ReaderInv' /\ EditsLandOnce'
    BY DEF Inv, FreshIDs, ReaderInv, EditsLandOnce, Landed, Stranded
  <1> QED
    BY <1>2, <1>5, <1>6, <1>7, <1>10, <1>11, <1>12 DEF Inv

(* A delete keeps the invariant.                                           *)
LEMMA DeletesInv ==
  ASSUME ControlsAssumption, Inv,
         DeleteControl \/ \E f \in Files : DeleteFile(f)
  PROVE  Inv'
  <1>1. CASE DeleteControl
    <2>1. /\ deletion.doc \in Entries /\ deletion.lists \subseteq Saves
          /\ \A k \in deletion.lists : Landed(k) /\ save[k].entry = deletion.doc
      BY <1>1 DEF DeleteControl, Inv, GoneInv, TypeOK, Entries
    <2> QED
      BY <1>1, <2>1, RowGoes DEF DeleteControl
  <1>2. ASSUME NEW f \in Files, DeleteFile(f)  PROVE Inv'
    <2>1. f \in Entries
      BY DEF Entries
    <2>2. row[f].lists \subseteq Saves /\ \A k \in row[f].lists : Landed(k) /\ save[k].entry = f
      BY <2>1, ListedOwn
    <2> QED
      BY <1>2, <2>1, <2>2, RowGoes DEF DeleteFile
  <1> QED
    BY <1>1, <1>2

(* A crash keeps the invariant.                                            *)
LEMMA CrashInv ==
  ASSUME ControlsAssumption, Inv, Crash
  PROVE  Inv'
  <1>1. \A s \in Saves :
          save'[s] = IF save[s].step \in {"open", "putting", "writing", "locked"}
                     THEN Ended(s) ELSE save[s]
    BY DEF Crash
  <1>2. /\ UNCHANGED <<row, stored>> /\ doomed' = {} /\ sweep' = NoSweep
        /\ deletion' = NoDelete /\ reader' = [r \in Readers |-> Unread]
    BY DEF Crash
  <1>3. \A s \in Saves : /\ Landed(s)' <=> Landed(s)
                         /\ Stranded(s)' <=> Stranded(s)
                         /\ Landed(s) => save'[s] = save[s]
                         /\ save'[s].entry = save[s].entry
    BY <1>1 DEF Landed, Stranded, Ended, NewSave
  <1>4. TypeOK'
    <2>1. \A s \in Saves : Ended(s) \in SaveRecord /\ Ended(s).step = "over"
      BY DEF Inv, TypeOK, Ended, NewSave, SaveRecord
    <2>2. save' \in [Saves -> SaveRecord]
      BY <2>1 DEF Crash, Inv, TypeOK, SaveRecord
    <2>3. \A s \in Saves : save'[s].step # "locked"
      BY <1>1, <2>1
    <2> QED
      BY <1>2, <2>2, <2>3 DEF Inv, TypeOK, SaveRecord, NoSweep, NoDelete, Unread
  <1>5. ASSUME NEW s \in Saves  PROVE SaveInv(s)' /\ LockInv(s)'
    <2>1. CASE save[s].step \in {"open", "putting", "writing", "locked"}
      <3>1. save'[s] = Ended(s) /\ save[s].entry \in Entries
        BY <1>1, <2>1 DEF Inv, SaveInv
      <3> QED
        BY <3>1 DEF SaveInv, LockInv, Ended, NewSave, BaseLists
    <2>2. CASE save[s].step \notin {"open", "putting", "writing", "locked"}
      <3>1. save'[s] = save[s] /\ SaveInv(s) /\ save[s].lists \subseteq Saves
            /\ (save[s].base # None => save[s].base \in Saves)
        BY <1>1, <2>2 DEF Inv, TypeOK
      <3>2. save[s].base # None => save'[save[s].base] = save[save[s].base]
                                   /\ save'[save[s].base].step \in {"landed", "stranded"}
        BY <1>3, <3>1 DEF SaveInv, Landed
      <3>3. BaseLists(s)' = BaseLists(s)
        BY <3>1, <3>2 DEF BaseLists
      <3>4. \A k \in save[s].lists \ {s} : Landed(k)' /\ save'[k].entry = save[s].entry
        BY <1>3, <3>1 DEF SaveInv
      <3>5. SaveInv(s)'
        BY <1>2, <2>2, <3>1, <3>2, <3>3, <3>4 DEF SaveInv, Landed
      <3> QED
        BY <2>2, <3>1, <3>5 DEF LockInv
    <2> QED
      BY <2>1, <2>2
  <1>6. ASSUME NEW e \in Entries  PROVE RowInv(e)'
    <2>1. RowInv(e) /\ row'[e] = row[e] /\ (Held(e) => row[e].by \in Saves)
      BY <1>2 DEF Inv, TypeOK, Row, Held
    <2>2. Held(e) => save'[row[e].by] = save[row[e].by]
      BY <1>3, <2>1 DEF RowInv
    <2>3. \A t \in Saves : Landed(t)' /\ save'[t].entry = e
                           => Landed(t) /\ save[t].entry = e /\ save'[t].base = save[t].base
      BY <1>3
    <2>4. Held(e) => save'[row[e].by].step \in {"landed", "stranded"}
      BY <2>1, <2>2 DEF RowInv, Landed
    <2> QED
      BY <2>1, <2>2, <2>3, <2>4 DEF RowInv, Held, Landed
  <1>7. ListedStored' /\ GoneInv' /\ ReaderInv'
    <2>1. ListedStored'
      BY <1>2, <1>3, ListedOwn DEF Inv, ListedStored
    <2> QED
      BY <1>2, <2>1 DEF GoneInv, ReaderInv, NoSweep, Unread
  <1>8. OwnerBounds' /\ EditsLandOnce'
    <2>1. OwnerBounds'
      BY <1>2 DEF Inv, OwnerBounds, HeldOf, Held
    <2>2. EditsLandOnce'
      BY <1>3 DEF Inv, EditsLandOnce
    <2> QED
      BY <2>1, <2>2
  <1>9. FreshIDs'
    <2>1. \A s \in Saves : save'[s].step # "over" =>
            save'[s] = save[s] /\ save[s].step # "over"
      BY <1>1 DEF Ended, NewSave
    <2> QED
      BY <2>1 DEF Inv, FreshIDs
  <1> QED
    BY <1>4, <1>5, <1>6, <1>7, <1>8, <1>9 DEF Inv

(* The invariant holds of an owner with nothing.                           *)
LEMMA InitInv ==
  ASSUME ControlsAssumption, Init
  PROVE  Inv
  <1>1. TypeOK
    BY DEF Init, TypeOK, NoRow, Row, NewSave, NoSweep, NoDelete, Unread
  <1>2. \A s \in Saves : save[s] = NewSave
    BY DEF Init
  <1>3. \A e \in Entries : row[e] = NoRow /\ ~Held(e)
    BY DEF Init, Held, NoRow
  <1>4. HeldOf(Docs) = {} /\ HeldOf(Files) = {}
    BY <1>3 DEF HeldOf, Entries
  <1>5. OwnerBounds
    <2>1. Cardinality({}) = 0
      BY FS_EmptySet
    <2> QED
      BY <1>4, <2>1 DEF OwnerBounds, ControlsAssumption
  <1>6. FreshIDs /\ EditsLandOnce
    BY <1>2 DEF FreshIDs, EditsLandOnce, Landed, NewSave
  <1>7. \A s \in Saves : SaveInv(s) /\ LockInv(s)
    BY <1>2 DEF Init, SaveInv, LockInv, BaseLists, NewSave
  <1>8. (\A e \in Entries : RowInv(e)) /\ ListedStored
    BY <1>3 DEF RowInv, ListedStored, NoRow
  <1>9. GoneInv /\ ReaderInv
    BY DEF Init, GoneInv, ReaderInv, NoSweep, NoDelete, Unread
  <1> QED
    BY <1>1, <1>5, <1>6, <1>7, <1>8, <1>9 DEF Inv

(* A step of a save keeps the invariant.                                   *)
LEMMA SaveStepInv ==
  ASSUME ControlsAssumption, Inv, NEW s \in Saves, SaveStep(s)
  PROVE  Inv'
  <1>1. ASSUME NEW e \in Entries, Open(s, e)  PROVE Inv'
    BY <1>1, OpenInv
  <1>2. CASE Arrive(s)
    BY <1>2, ArriveInv
  <1>3. CASE PutText(s)
    BY <1>3, PutTextInv
  <1>4. CASE Lock(s)
    BY <1>4, LockStepInv
  <1>5. CASE ArriveStale(s) \/ PutRaises(s) \/ Refused(s) \/ WriteRaises(s)
    BY <1>5, EndKeeps DEF ArriveStale, PutRaises, Refused, WriteRaises, Others
  <1>6. CASE Write(s)
    BY <1>6, LandInv DEF Write
  <1>7. CASE WriteUnsure(s)
    BY <1>7, LandInv DEF WriteUnsure
  <1> QED
    BY <1>1, <1>2, <1>3, <1>4, <1>5, <1>6, <1>7 DEF SaveStep

(* Every step keeps the invariant.                                         *)
LEMMA NextInv ==
  ASSUME ControlsAssumption, Inv, [Next]_vars
  PROVE  Inv'
  <1>1. ASSUME NEW s \in Saves, SaveStep(s)  PROVE Inv'
    BY <1>1, SaveStepInv
  <1>2. ASSUME NEW k \in Saves, TextStep(k)  PROVE Inv'
    BY <1>2, RemovalsInv DEF TextStep
  <1>3. ASSUME NEW r \in Readers, ReaderStep(r)  PROVE Inv'
    BY <1>3, ReaderStepInv
  <1>4. CASE DeleteStep
    BY <1>4, RemovalsInv, DeletesInv DEF DeleteStep
  <1>5. CASE SweepRead \/ SweepRemove
    BY <1>5, RemovalsInv
  <1>6. CASE Crash
    BY <1>6, CrashInv
  <1>7. CASE UNCHANGED vars
    <2>1. UNCHANGED <<row, stored, save, deletion, doomed, sweep, reader>>
      BY <1>7 DEF vars
    <2>2. TypeOK'
      BY <2>1 DEF Inv, TypeOK
    <2> QED
      BY <2>1, <2>2, SameRows, GoneKept DEF Inv
  <1> QED
    BY <1>1, <1>2, <1>3, <1>4, <1>5, <1>6, <1>7 DEF Next

-----------------------------------------------------------------------------
(* The inductive invariant holds.                                          *)
THEOREM InvHolds == Spec => []Inv
  <1>1. Init => Inv
    BY InitInv, ControlsAssumption
  <1>2. Inv /\ [Next]_vars => Inv'
    BY NextInv, ControlsAssumption
  <1> QED
    BY <1>1, <1>2, PTL DEF Spec

(* Every variable of the rows, saves, removals and reads keeps its type,   *)
(* and one save at most holds the owner's lock.                            *)
THEOREM ControlsTyped == Spec => []TypeOK
  <1>1. Inv => TypeOK
    BY DEF Inv
  <1> QED
    BY <1>1, InvHolds, PTL

(* An owner never holds more than the limits, nor two Controls whose       *)
(* scopes name each other (_insert_control, _insert_file, _scope_refusal). *)
THEOREM BoundsHold == Spec => []OwnerBounds
  <1>1. Inv => OwnerBounds
    BY DEF Inv
  <1> QED
    BY <1>1, InvHolds, PTL

(* Of two edits that read one version of a Control one lands               *)
(* (_update_control).                                                      *)
THEOREM EditsOnce == Spec => []EditsLandOnce
  <1>1. Inv => EditsLandOnce
    BY DEF Inv
  <1> QED
    BY <1>1, InvHolds, PTL

(* What a row lists is stored, and no read of it finds it corrupt, but     *)
(* where a write raised after its commit (replace_control, delete_control, *)
(* sweep_orphans).                                                         *)
THEOREM TextsStored == Spec => []EvidenceStored
  <1>1. Inv => EvidenceStored
    BY DEF Inv, EvidenceStored, ListedStored, ReaderInv
  <1> QED
    BY <1>1, InvHolds, PTL
=============================================================================
