----------------------------- MODULE SyncLWWProofs -----------------------------
(***************************************************************************)
(* What holds of SyncLWW for every fleet, whatever its tasks, paths and    *)
(* bounds: its types, and that a time stamp stands for one version of a    *)
(* row, also when handlers overlap, and for paths.                         *)
(*                                                                         *)
(* The argument follows the time stamps.  A stamp is taken by one edit,    *)
(* which either writes live rows or tombstones, so its stamp tells which;  *)
(* everything else copies what some row or payload holds already, or       *)
(* writes a tombstone with the stamp of a tombstone.                       *)
(***************************************************************************)
EXTENDS SyncLWW, TLAPS

\* A version with this stamp, live or not, is in a table or in a payload.
InRows(s, b)  == \E h \in Hosts, i \in Items : row[h][i].stamp = s /\ row[h][i].live = b
InJobs(s, b)  == \E j \in jobs : \E v \in j.left : v.stamp = s /\ v.live = b
Stamped(s, b) == s # 0 /\ (InRows(s, b) \/ InJobs(s, b))

Taken    == \A s \in Nat, b \in BOOLEAN : Stamped(s, b) => s <= clock
OneLife  == \A s \in Nat : ~(Stamped(s, TRUE) /\ Stamped(s, FALSE))
Fresh    == \A e \in edits : e.stamp <= clock /\ \A b \in BOOLEAN : ~Stamped(e.stamp, b)
Distinct == \A e, f \in edits : e.stamp = f.stamp => e = f
Empty    == \A h \in Hosts, i \in Items : row[h][i].stamp = 0 => row[h][i] = NoRow
Chosen   == \A j \in jobs : j.next # NoVersion => j.next \in j.left

Stamps == Taken /\ OneLife /\ Fresh /\ Distinct /\ Empty /\ Chosen
-------------------------------------------------------------------------------
(* Types.                                                                  *)

LEMMA ExportType ==
  ASSUME TypeOK, NEW h \in Hosts, NEW t \in Nat
  PROVE  Export(h, t) \in SUBSET Versions
BY DEF TypeOK, Export, Versions, Rows

LEMMA NewJobType ==
  ASSUME TypeOK, NEW kind \in {"push", "pull"}, NEW h \in Hosts, NEW p \in Hosts,
         NEW versions \in SUBSET Versions
  PROVE  NewJob(kind, h, p, versions) \in Jobs
BY DEF TypeOK, NewJob, Jobs

LEMMA PushType ==
  ASSUME TypeOK, NEW h \in Hosts, NEW versions \in SUBSET Versions, Push(h, versions)
  PROVE  jobs' \in SUBSET Jobs
<1>1. PICK peers \in SUBSET (Hosts \ {h}) :
        jobs' = jobs \cup {NewJob("push", p, h, versions) : p \in peers}
  BY DEF Push
<1>2. \A p \in peers : NewJob("push", p, h, versions) \in Jobs
  BY NewJobType
<1> QED BY <1>1, <1>2 DEF TypeOK

LEMMA PutType ==
  ASSUME TypeOK, NEW h \in Hosts, NEW i \in Items, NEW version \in Rows, Put(h, i, version)
  PROVE  row' \in [Hosts -> [Items -> Rows]]
BY DEF TypeOK, Put

LEMMA BuryType ==
  ASSUME TypeOK, NEW h \in Hosts, NEW v \in Versions, Bury(h, v)
  PROVE  row' \in [Hosts -> [Items -> Rows]]
<1> DEFINE buried == [i \in Items |->
            IF i \in Below[v.item] /\ row[h][i] # NoRow
               /\ (row[h][i].live \/ row[h][i].stamp < v.stamp)
            THEN [stamp |-> v.stamp, live |-> FALSE] ELSE row[h][i]]
<1>1. v.stamp \in Nat
  BY DEF Versions
<1>2. \A i \in Items : buried[i] \in Rows
  BY <1>1 DEF TypeOK, Rows
<1>3. buried \in [Items -> Rows]
  BY <1>2
<1>4. row' = [row EXCEPT ![h] = buried]
  BY DEF Bury
<1> QED BY <1>3, <1>4 DEF TypeOK

LEMMA DeleteNodeType ==
  ASSUME TypeOK, NEW e, DeleteNode(e)
  PROVE  /\ row' \in [Hosts -> [Items -> Rows]]
         /\ jobs' \in SUBSET Jobs
<1> DEFINE gone == {n \in Below[e.item] : row[e.host][n].live}
           left == [i \in Items |->
                IF i \in gone THEN [stamp |-> e.stamp, live |-> FALSE] ELSE row[e.host][i]]
<1>1. e \in edits /\ e.host \in Hosts /\ e.stamp \in Nat /\ e.stamp # 0
  BY DEF DeleteNode, TypeOK, Edits
<1>2. \A i \in Items : left[i] \in Rows
  BY <1>1 DEF TypeOK, Rows
<1>3. row' = [row EXCEPT ![e.host] = left]
  BY DEF DeleteNode
<1>4. row' \in [Hosts -> [Items -> Rows]]
  BY <1>1, <1>2, <1>3 DEF TypeOK
<1> HIDE DEF gone, left
<1>5. PICK versions : versions =
        {[item |-> i, stamp |-> row'[e.host][i].stamp, live |-> row'[e.host][i].live] :
            i \in {i \in Items : row'[e.host][i].stamp >= e.stamp}}
  OBVIOUS
<1>6. versions \in SUBSET Versions
  BY <1>1, <1>4, <1>5 DEF Versions, Rows
<1>7. Push(e.host, versions)
  BY <1>5 DEF DeleteNode
<1>8. PICK h \in Hosts : h = e.host
  BY <1>1
<1>9. Push(h, versions)
  BY <1>7, <1>8
<1> QED BY <1>4, <1>6, <1>9, PushType

LEMMA BeginType ==
  ASSUME TypeOK, NEW h \in Hosts, NEW op \in {"save", "update", "delete"}, NEW i \in Items,
         Begin(h, op, i)
  PROVE  TypeOK'
<1>1. clock + 1 \in Nat \ {0} /\ clock' = clock + 1
  BY DEF Begin, TypeOK
<1>2. [host |-> h, op |-> op, item |-> i, stamp |-> clock + 1] \in Edits
  BY <1>1 DEF Edits
<1> QED BY <1>1, <1>2 DEF Begin, TypeOK

LEMMA CommitType ==
  ASSUME TypeOK, NEW e \in edits, Commit(e)
  PROVE  TypeOK'
<1>1. /\ e.host \in Hosts /\ e.item \in Items
      /\ e.stamp \in Nat \ {0} /\ clock + 1 \in Nat \ {0}
  BY DEF TypeOK, Edits
<1>2. CASE Save(e)
  <2>1. [stamp |-> e.stamp, live |-> TRUE] \in Rows
    BY <1>1 DEF Rows
  <2>2. {[item |-> e.item, stamp |-> e.stamp, live |-> TRUE]} \in SUBSET Versions
    BY <1>1 DEF Versions
  <2>3. row' \in [Hosts -> [Items -> Rows]] /\ jobs' \in SUBSET Jobs
    BY <1>1, <1>2, <2>1, <2>2, PutType, PushType DEF Save, TypeOK
  <2> QED BY <1>2, <2>3 DEF Save, TypeOK
<1>3. CASE DeleteTask(e)
  <2>1. [stamp |-> e.stamp, live |-> FALSE] \in Rows
    BY <1>1 DEF Rows
  <2>2. PICK s \in Nat \ {0} : s = clock + 1
    BY <1>1
  <2>3. {[item |-> e.item, stamp |-> s, live |-> FALSE]} \in SUBSET Versions
    BY <1>1 DEF Versions
  <2>4. row' \in [Hosts -> [Items -> Rows]] /\ jobs' \in SUBSET Jobs
    BY <1>1, <1>3, <2>1, <2>2, <2>3, PutType, PushType DEF DeleteTask, TypeOK
  <2> QED BY <1>1, <1>3, <2>4 DEF DeleteTask, TypeOK
<1>4. CASE DeleteNode(e)
  BY <1>4, DeleteNodeType DEF DeleteNode, TypeOK
<1> QED BY <1>2, <1>3, <1>4 DEF Commit

LEMMA SendType ==
  ASSUME TypeOK, NEW h \in Hosts, NEW p \in Hosts, Pull(h, p) \/ PushState(h, p)
  PROVE  TypeOK'
<1>1. CASE Pull(h, p)
  <2>1. since[h][p] \in Nat
    BY DEF TypeOK
  <2>2. PICK versions \in SUBSET Versions : versions = Export(p, since[h][p])
    BY <2>1, ExportType
  <2>3. NewJob("pull", h, p, versions) \in Jobs
    BY NewJobType
  <2> QED BY <1>1, <2>2, <2>3 DEF Pull, TypeOK
<1>2. CASE PushState(h, p)
  <2>1. PICK t \in 0..clock : jobs' = jobs \cup {NewJob("push", p, h, Export(h, t))}
    BY <1>2 DEF PushState
  <2>2. PICK versions \in SUBSET Versions : versions = Export(h, t)
    BY <2>1, ExportType DEF TypeOK
  <2>3. NewJob("push", p, h, versions) \in Jobs
    BY NewJobType
  <2> QED BY <1>2, <2>1, <2>2, <2>3 DEF PushState, TypeOK
<1> QED BY <1>1, <1>2

LEMMA ApplyType ==
  ASSUME TypeOK, NEW j \in jobs, Apply(j)
  PROVE  TypeOK'
<1>1. /\ j \in Jobs /\ j.to \in Hosts /\ j.from \in Hosts /\ j.at \in Nat
      /\ j.left \in SUBSET Versions
  BY DEF TypeOK, Jobs
<1>2. CASE Compare(j)
  <2>1. PICK v \in j.left :
          jobs' = (jobs \ {j}) \cup
                  {IF Newer(v, row[j.to][v.item])
                   THEN [j EXCEPT !.next = v, !.absent = row[j.to][v.item] = NoRow]
                   ELSE [j EXCEPT !.left = @ \ {v}]}
    BY <1>2 DEF Compare
  <2>2. PICK b \in BOOLEAN : b = (row[j.to][v.item] = NoRow)
    OBVIOUS
  <2>3. [j EXCEPT !.next = v, !.absent = b] \in Jobs /\ [j EXCEPT !.left = @ \ {v}] \in Jobs
    BY <1>1 DEF Jobs
  <2> QED BY <1>2, <2>1, <2>2, <2>3 DEF Compare, TypeOK
<1>3. CASE Write(j)
  <2>1. j.next \in Versions
    BY <1>1, <1>3 DEF Write, Jobs
  <2>2. j.next.item \in Items /\ j.next.stamp \in Nat /\ j.next.live \in BOOLEAN
    BY <2>1 DEF Versions
  <2>3. [stamp |-> j.next.stamp, live |-> j.next.live] \in Rows
    BY <2>2 DEF Rows
  <2>4. row' \in [Hosts -> [Items -> Rows]]
    BY <1>1, <1>3, <2>1, <2>2, <2>3, PutType, BuryType DEF Write, TypeOK
  <2>5. [j EXCEPT !.next = NoVersion, !.left = @ \ {j.next}, !.absent = FALSE] \in Jobs
    BY <1>1 DEF Jobs
  <2> QED BY <1>3, <2>4, <2>5 DEF Write, TypeOK
<1>4. CASE Finish(j)
  BY <1>1, <1>4 DEF Finish, TypeOK
<1> QED BY <1>2, <1>3, <1>4 DEF Apply

\* The variables of SyncLWW have their types in every state.
THEOREM Typing == Spec => []TypeOK
<1>1. Init => TypeOK
  BY BoundAssumption DEF Init, TypeOK, Rows, NoRow
<1>2. TypeOK /\ [Next]_vars => TypeOK'
  <2> SUFFICES ASSUME TypeOK, [Next]_vars PROVE TypeOK'
    OBVIOUS
  <2>1. ASSUME NEW h \in Hosts, Crash(h) PROVE TypeOK'
    BY <2>1, BoundAssumption DEF Crash, TypeOK
  <2>2. CASE UNCHANGED vars
    BY <2>2 DEF vars, TypeOK
  <2> QED BY <2>1, <2>2, BeginType, CommitType, SendType, ApplyType DEF Next
<1> QED BY <1>1, <1>2, PTL DEF Spec
-------------------------------------------------------------------------------
(* A stamp stands for one version.                                         *)

\* What brings no stamp that was not there keeps the stamps apart.
LEMMA NothingNew ==
  ASSUME TypeOK, TypeOK', Stamps, clock' = clock, edits' \subseteq edits,
         \A s \in Nat, b \in BOOLEAN : Stamped(s, b)' => Stamped(s, b),
         Empty', Chosen'
  PROVE  Stamps'
<1>1. Taken' /\ OneLife'
  BY DEF Stamps, Taken, OneLife
<1>2. \A e \in edits : e.stamp \in Nat
  BY DEF TypeOK, Edits
<1>3. Fresh' /\ Distinct'
  BY <1>2 DEF Stamps, Fresh, Distinct
<1> QED BY <1>1, <1>3 DEF Stamps

\* What an edit brings has its stamp, or one that was taken just now, and is all
\* live or all dead.
LEMMA OneNew ==
  ASSUME TypeOK, TypeOK', Stamps, NEW e \in edits, NEW live \in BOOLEAN,
         NEW new \in SUBSET {e.stamp, clock + 1}, edits' = edits \ {e},
         clock' \in {clock, clock + 1}, clock + 1 \in new => clock' = clock + 1,
         \A s \in Nat, b \in BOOLEAN : Stamped(s, b)' => Stamped(s, b) \/ (b = live /\ s \in new),
         Empty', Chosen'
  PROVE  Stamps'
<1>1. clock \in Nat /\ \A f \in edits : f.stamp \in Nat /\ f.stamp <= clock
  BY DEF TypeOK, Edits, Stamps, Fresh
<1>2. \A s \in new, b \in BOOLEAN : ~Stamped(s, b)
  <2>1. \A b \in BOOLEAN : ~Stamped(e.stamp, b)
    BY DEF Stamps, Fresh
  <2>2. \A b \in BOOLEAN : ~Stamped(clock + 1, b)
    BY <1>1 DEF Stamps, Taken
  <2> QED BY <2>1, <2>2
<1>3. \A s \in new : s \in Nat /\ s <= clock'
  BY <1>1
<1>4. Taken'
  <2>1. clock' \in Nat /\ clock <= clock'
    BY <1>1
  <2> QED BY <1>1, <1>3, <2>1 DEF Stamps, Taken
<1>5. OneLife'
  BY <1>2 DEF Stamps, OneLife
<1>6. ASSUME NEW f \in edits'
      PROVE  f.stamp <= clock' /\ \A b \in BOOLEAN : ~Stamped(f.stamp, b)'
  <2>1. f \in edits /\ f # e
    OBVIOUS
  <2>2. f.stamp \in Nat /\ f.stamp # e.stamp /\ f.stamp # clock + 1
    BY <1>1, <2>1 DEF Stamps, Distinct
  <2>3. \A b \in BOOLEAN : ~Stamped(f.stamp, b)
    BY <2>1 DEF Stamps, Fresh
  <2> QED BY <1>1, <2>1, <2>2, <2>3
<1>7. Fresh'
  BY <1>6 DEF Fresh
<1>8. Distinct'
  BY DEF Stamps, Distinct
<1> QED BY <1>4, <1>5, <1>7, <1>8 DEF Stamps

LEMMA ExportStamped ==
  ASSUME TypeOK, NEW h \in Hosts, NEW t \in Nat, NEW v \in Export(h, t)
  PROVE  Stamped(v.stamp, v.live)
BY DEF TypeOK, Rows, Export, Stamped, InRows

\* A payload brings the stamps of its versions, and its sender has chosen none.
LEMMA PushStamped ==
  ASSUME Stamps, NEW h \in Hosts, NEW versions, Push(h, versions)
  PROVE  /\ Chosen'
         /\ \A s \in Nat, b \in BOOLEAN :
              InJobs(s, b)' => InJobs(s, b) \/ \E v \in versions : v.stamp = s /\ v.live = b
<1>1. PICK peers \in SUBSET (Hosts \ {h}) :
        jobs' = jobs \cup {NewJob("push", p, h, versions) : p \in peers}
  BY DEF Push
<1>2. \A p \in peers : LET j == NewJob("push", p, h, versions)
                       IN  j.next = NoVersion /\ j.left = versions
  BY DEF NewJob
<1> QED BY <1>1, <1>2 DEF Stamps, Chosen, InJobs

LEMMA PutStamped ==
  ASSUME TypeOK, NEW h \in Hosts, NEW i \in Items, NEW version \in Rows, Put(h, i, version)
  PROVE  /\ Empty /\ version.stamp # 0 => Empty'
         /\ \A s \in Nat, b \in BOOLEAN :
              InRows(s, b)' => InRows(s, b) \/ (version.stamp = s /\ version.live = b)
<1>1. \A p \in Hosts, k \in Items :
        row'[p][k] = IF p = h /\ k = i THEN version ELSE row[p][k]
  BY DEF TypeOK, Put
<1> QED BY <1>1 DEF Empty, InRows

\* A tombstone is a copy of the one in the payload.
LEMMA BuryStamped ==
  ASSUME TypeOK, NEW h \in Hosts, NEW v \in Versions, Bury(h, v)
  PROVE  /\ Empty => Empty'
         /\ \A s \in Nat, b \in BOOLEAN :
              InRows(s, b)' => InRows(s, b) \/ (v.stamp = s /\ b = FALSE)
<1>1. \A p \in Hosts, k \in Items :
        row'[p][k] = row[p][k] \/ row'[p][k] = [stamp |-> v.stamp, live |-> FALSE]
  BY DEF TypeOK, Bury
<1>2. v.stamp # 0
  BY DEF Versions
<1> QED BY <1>1, <1>2 DEF Empty, InRows

LEMMA BeginStamps ==
  ASSUME TypeOK, Stamps, NEW h \in Hosts, NEW op \in {"save", "update", "delete"},
         NEW i \in Items, Begin(h, op, i)
  PROVE  Stamps'
<1>1. clock \in Nat /\ clock' = clock + 1 /\ UNCHANGED <<row, jobs>>
  BY DEF Begin, TypeOK
<1>2. \A s \in Nat, b \in BOOLEAN : Stamped(s, b)' <=> Stamped(s, b)
  BY <1>1 DEF Stamped, InRows, InJobs
<1>3. \A f \in edits : f.stamp \in Nat /\ f.stamp <= clock
  BY DEF TypeOK, Edits, Stamps, Fresh
<1>4. \A f \in edits' : f \in edits \/ f = [host |-> h, op |-> op, item |-> i, stamp |-> clock + 1]
  BY DEF Begin
<1>5. Fresh'
  BY <1>1, <1>2, <1>3, <1>4 DEF Stamps, Fresh, Taken
<1>6. Distinct'
  BY <1>1, <1>3, <1>4 DEF Stamps, Distinct
<1>7. \A s \in Nat : s <= clock => s <= clock'
  BY <1>1
<1>8. Taken' /\ OneLife'
  BY <1>2, <1>7 DEF Stamps, Taken, OneLife
<1>9. Empty' /\ Chosen'
  BY <1>1 DEF Stamps, Empty, Chosen
<1> QED BY <1>5, <1>6, <1>8, <1>9 DEF Stamps

LEMMA CommitStamps ==
  ASSUME TypeOK, TypeOK', Stamps, NEW e \in edits, Commit(e)
  PROVE  Stamps'
<1>1. /\ e.host \in Hosts /\ e.item \in Items /\ e.stamp \in Nat /\ e.stamp # 0
      /\ clock \in Nat
  BY DEF TypeOK, Edits
<1>2. CASE Save(e)
  <2>1. CASE UNCHANGED <<row, jobs>>
    <3>1. \A s \in Nat, b \in BOOLEAN : Stamped(s, b)' => Stamped(s, b)
      BY <2>1 DEF Stamped, InRows, InJobs
    <3>2. Empty' /\ Chosen'
      BY <2>1 DEF Stamps, Empty, Chosen
    <3>3. clock' = clock /\ edits' \subseteq edits
      BY <1>2 DEF Save
    <3> QED BY <3>1, <3>2, <3>3, NothingNew
  <2>2. CASE /\ Put(e.host, e.item, [stamp |-> e.stamp, live |-> TRUE])
             /\ Push(e.host, {[item |-> e.item, stamp |-> e.stamp, live |-> TRUE]})
    <3>1. [stamp |-> e.stamp, live |-> TRUE] \in Rows
      BY <1>1 DEF Rows
    <3>2. /\ Empty'
          /\ \A s \in Nat, b \in BOOLEAN :
               InRows(s, b)' => InRows(s, b) \/ (s = e.stamp /\ b = TRUE)
      BY <1>1, <2>2, <3>1, PutStamped DEF Stamps
    <3>3. /\ Chosen'
          /\ \A s \in Nat, b \in BOOLEAN :
               InJobs(s, b)' => InJobs(s, b) \/ (s = e.stamp /\ b = TRUE)
      BY <1>1, <2>2, PushStamped
    <3>4. \A s \in Nat, b \in BOOLEAN :
            Stamped(s, b)' => Stamped(s, b) \/ (b = TRUE /\ s \in {e.stamp})
      BY <3>2, <3>3 DEF Stamped
    <3>5. edits' = edits \ {e} /\ clock' = clock
      BY <1>2 DEF Save
    <3>6. e.stamp # clock + 1
      BY <1>1 DEF Stamps, Fresh
    <3> QED BY <1>1, <3>2, <3>3, <3>4, <3>5, <3>6, OneNew
  <2> QED BY <1>2, <2>1, <2>2 DEF Save
<1>3. CASE DeleteTask(e)
  <2>1. CASE UNCHANGED <<clock, row, jobs>>
    <3>1. \A s \in Nat, b \in BOOLEAN : Stamped(s, b)' => Stamped(s, b)
      BY <2>1 DEF Stamped, InRows, InJobs
    <3>2. Empty' /\ Chosen'
      BY <2>1 DEF Stamps, Empty, Chosen
    <3>3. clock' = clock /\ edits' \subseteq edits
      BY <1>3, <2>1 DEF DeleteTask
    <3> QED BY <3>1, <3>2, <3>3, NothingNew
  <2>2. CASE /\ Put(e.host, e.item, [stamp |-> e.stamp, live |-> FALSE])
             /\ Push(e.host, {[item |-> e.item, stamp |-> clock + 1, live |-> FALSE]})
             /\ clock' = clock + 1
    <3>1. [stamp |-> e.stamp, live |-> FALSE] \in Rows
      BY <1>1 DEF Rows
    <3>2. /\ Empty'
          /\ \A s \in Nat, b \in BOOLEAN :
               InRows(s, b)' => InRows(s, b) \/ (s = e.stamp /\ b = FALSE)
      BY <1>1, <2>2, <3>1, PutStamped DEF Stamps
    <3>3. PICK t \in Nat : t = clock + 1
      BY <1>1
    <3>4. Push(e.host, {[item |-> e.item, stamp |-> t, live |-> FALSE]})
      BY <2>2, <3>3
    <3>5. /\ Chosen'
          /\ \A s \in Nat, b \in BOOLEAN :
               InJobs(s, b)' => InJobs(s, b) \/ (s = t /\ b = FALSE)
      BY <1>1, <3>4, PushStamped
    <3>6. \A s \in Nat, b \in BOOLEAN :
            Stamped(s, b)' => Stamped(s, b) \/ (b = FALSE /\ s \in {e.stamp, t})
      BY <3>2, <3>5 DEF Stamped
    <3>7. edits' = edits \ {e}
      BY <1>3 DEF DeleteTask
    <3> QED BY <1>1, <2>2, <3>2, <3>3, <3>5, <3>6, <3>7, OneNew
  <2> QED BY <1>3, <2>1, <2>2 DEF DeleteTask
<1>4. CASE DeleteNode(e)
  <2> DEFINE gone == {n \in Below[e.item] : row[e.host][n].live}
  <2>1. \A p \in Hosts, k \in Items :
          row'[p][k] = row[p][k] \/ row'[p][k] = [stamp |-> e.stamp, live |-> FALSE]
    BY <1>4 DEF DeleteNode, TypeOK
  <2>2. \A s \in Nat, b \in BOOLEAN :
          InRows(s, b)' => InRows(s, b) \/ (s = e.stamp /\ b = FALSE)
    BY <2>1 DEF InRows
  <2>3. Empty'
    BY <1>1, <2>1 DEF Stamps, Empty
  <2>4. PICK versions : versions =
          {[item |-> i, stamp |-> row'[e.host][i].stamp, live |-> row'[e.host][i].live] :
              i \in {i \in Items : row'[e.host][i].stamp >= e.stamp}}
    OBVIOUS
  <2>5. Push(e.host, versions)
    BY <1>4, <2>4 DEF DeleteNode
  <2>6. /\ Chosen'
        /\ \A s \in Nat, b \in BOOLEAN :
             InJobs(s, b)' => InJobs(s, b) \/ \E v \in versions : v.stamp = s /\ v.live = b
    BY <1>1, <2>5, PushStamped
  <2>7. \A s \in Nat, b \in BOOLEAN :
          (\E v \in versions : v.stamp = s /\ v.live = b) => InRows(s, b)'
    BY <1>1, <2>4 DEF InRows
  <2>8. \A s \in Nat, b \in BOOLEAN :
          Stamped(s, b)' => Stamped(s, b) \/ (b = FALSE /\ s \in {e.stamp})
    BY <2>2, <2>6, <2>7 DEF Stamped
  <2>9. edits' = edits \ {e} /\ clock' = clock
    BY <1>4 DEF DeleteNode
  <2>10. e.stamp # clock + 1
    BY <1>1 DEF Stamps, Fresh
  <2> QED BY <1>1, <2>3, <2>6, <2>8, <2>9, <2>10, OneNew
<1> QED BY <1>2, <1>3, <1>4 DEF Commit

LEMMA SendStamps ==
  ASSUME TypeOK, TypeOK', Stamps, NEW h \in Hosts, NEW p \in Hosts, Pull(h, p) \/ PushState(h, p)
  PROVE  Stamps'
<1>1. \E kind \in {"push", "pull"}, to, from \in Hosts, t \in Nat :
        jobs' = jobs \cup {NewJob(kind, to, from, Export(from, t))}
  <2>1. CASE Pull(h, p)
    <3>1. since[h][p] \in Nat
      BY DEF TypeOK
    <3> QED BY <2>1, <3>1 DEF Pull
  <2>2. CASE PushState(h, p)
    <3>1. 0..clock \subseteq Nat
      BY DEF TypeOK
    <3> QED BY <2>2, <3>1 DEF PushState
  <2> QED BY <2>1, <2>2
<1>2. PICK kind \in {"push", "pull"}, to \in Hosts, from \in Hosts, t \in Nat :
        jobs' = jobs \cup {NewJob(kind, to, from, Export(from, t))}
  BY <1>1
<1>3. /\ NewJob(kind, to, from, Export(from, t)).left = Export(from, t)
      /\ NewJob(kind, to, from, Export(from, t)).next = NoVersion
  BY DEF NewJob
<1>4. \A v \in Export(from, t) : Stamped(v.stamp, v.live)
  BY ExportStamped
<1>5. UNCHANGED <<clock, row, edits>>
  BY DEF Pull, PushState
<1>6. \A s \in Nat, b \in BOOLEAN : Stamped(s, b)' => Stamped(s, b)
  BY <1>2, <1>3, <1>4, <1>5 DEF Stamped, InRows, InJobs
<1>7. Empty' /\ Chosen'
  BY <1>2, <1>3, <1>5 DEF Stamps, Empty, Chosen
<1> QED BY <1>5, <1>6, <1>7, NothingNew

LEMMA ApplyStamps ==
  ASSUME TypeOK, TypeOK', Stamps, NEW j \in jobs, Apply(j)
  PROVE  Stamps'
<1>1. /\ j \in Jobs /\ j.to \in Hosts /\ j.left \in SUBSET Versions
      /\ j.next # NoVersion => j.next \in j.left
  BY DEF TypeOK, Jobs, Stamps, Chosen
<1>2. clock' = clock /\ edits' = edits
  BY DEF Apply, Compare, Write, Finish
<1>3. CASE Compare(j)
  <2>1. PICK v \in j.left :
          jobs' = (jobs \ {j}) \cup
                  {IF Newer(v, row[j.to][v.item])
                   THEN [j EXCEPT !.next = v, !.absent = row[j.to][v.item] = NoRow]
                   ELSE [j EXCEPT !.left = @ \ {v}]}
    BY <1>3 DEF Compare
  <2>2. PICK k : k = IF Newer(v, row[j.to][v.item])
                     THEN [j EXCEPT !.next = v, !.absent = row[j.to][v.item] = NoRow]
                     ELSE [j EXCEPT !.left = @ \ {v}]
    OBVIOUS
  <2>3. k.left \subseteq j.left /\ (k.next # NoVersion => k.next \in k.left)
    BY <1>1, <1>3, <2>2 DEF Compare, Jobs
  <2>4. jobs' = (jobs \ {j}) \cup {k} /\ row' = row
    BY <1>3, <2>1, <2>2 DEF Compare
  <2>5. \A s \in Nat, b \in BOOLEAN : Stamped(s, b)' => Stamped(s, b)
    BY <2>3, <2>4 DEF Stamped, InRows, InJobs
  <2>6. Empty' /\ Chosen'
    BY <2>3, <2>4 DEF Stamps, Empty, Chosen
  <2> QED BY <1>2, <2>5, <2>6, NothingNew
<1>4. CASE Write(j)
  <2>1. j.next \in j.left /\ j.next \in Versions
    BY <1>1, <1>4 DEF Write
  <2>2. PICK v \in j.left : v = j.next /\ v \in Versions
    BY <2>1
  <2>3. /\ v.item \in Items /\ v.stamp \in Nat /\ v.stamp # 0 /\ v.live \in BOOLEAN
        /\ [stamp |-> v.stamp, live |-> v.live] \in Rows
    BY <2>2 DEF Versions, Rows
  <2>4. \A s \in Nat, b \in BOOLEAN :
          InRows(s, b)' => InRows(s, b) \/ (v.stamp = s /\ v.live = b)
    <3>1. CASE row' = row
      BY <3>1 DEF InRows
    <3>2. CASE Bury(j.to, v) /\ ~v.live
      BY <1>1, <2>2, <2>3, <3>2, BuryStamped
    <3>3. CASE Put(j.to, v.item, [stamp |-> v.stamp, live |-> v.live])
      BY <1>1, <2>3, <3>3, PutStamped
    <3> QED BY <1>4, <2>2, <3>1, <3>2, <3>3 DEF Write
  <2>5. Empty'
    <3>1. CASE row' = row
      BY <3>1 DEF Stamps, Empty
    <3>2. CASE Bury(j.to, v)
      BY <1>1, <2>2, <3>2, BuryStamped DEF Stamps
    <3>3. CASE Put(j.to, v.item, [stamp |-> v.stamp, live |-> v.live])
      BY <1>1, <2>3, <3>3, PutStamped DEF Stamps
    <3> QED BY <1>4, <2>2, <3>1, <3>2, <3>3 DEF Write
  <2>6. PICK k : k = [j EXCEPT !.next = NoVersion, !.left = @ \ {v}, !.absent = FALSE]
    OBVIOUS
  <2>7. k.left \subseteq j.left /\ k.next = NoVersion
    BY <1>1, <2>6 DEF Jobs
  <2>8. jobs' = (jobs \ {j}) \cup {k}
    BY <1>4, <2>2, <2>6 DEF Write
  <2>9. InJobs(v.stamp, v.live)
    BY DEF InJobs
  <2>10. \A s \in Nat, b \in BOOLEAN : InJobs(s, b)' => InJobs(s, b)
    BY <2>7, <2>8 DEF InJobs
  <2>11. \A s \in Nat, b \in BOOLEAN : Stamped(s, b)' => Stamped(s, b)
    BY <2>4, <2>9, <2>10 DEF Stamped
  <2>12. Chosen'
    BY <2>7, <2>8 DEF Stamps, Chosen
  <2> QED BY <1>2, <2>5, <2>11, <2>12, NothingNew
<1>5. CASE Finish(j)
  <2>1. jobs' \subseteq jobs /\ row' = row
    BY <1>5 DEF Finish
  <2>2. \A s \in Nat, b \in BOOLEAN : Stamped(s, b)' => Stamped(s, b)
    BY <2>1 DEF Stamped, InRows, InJobs
  <2>3. Empty' /\ Chosen'
    BY <2>1 DEF Stamps, Empty, Chosen
  <2> QED BY <1>2, <2>2, <2>3, NothingNew
<1> QED BY <1>3, <1>4, <1>5 DEF Apply

LEMMA CrashStamps ==
  ASSUME TypeOK, TypeOK', Stamps, NEW h \in Hosts, Crash(h)
  PROVE  Stamps'
<1>1. jobs' \subseteq jobs /\ edits' \subseteq edits /\ row' = row /\ clock' = clock
  BY DEF Crash
<1>2. \A s \in Nat, b \in BOOLEAN : Stamped(s, b)' => Stamped(s, b)
  BY <1>1 DEF Stamped, InRows, InJobs
<1>3. Empty' /\ Chosen'
  BY <1>1 DEF Stamps, Empty, Chosen
<1> QED BY <1>1, <1>2, <1>3, NothingNew

LEMMA StampsInductive == Spec => []Stamps
<1>1. Init => Stamps
  <2> SUFFICES ASSUME Init PROVE Stamps
    OBVIOUS
  <2>1. \A s \in Nat, b \in BOOLEAN : ~Stamped(s, b)
    BY DEF Init, Stamped, InRows, InJobs, NoRow
  <2>2. Empty /\ Chosen /\ Fresh /\ Distinct
    BY DEF Init, Empty, Chosen, Fresh, Distinct, NoRow
  <2> QED BY <2>1, <2>2 DEF Stamps, Taken, OneLife
<1>2. TypeOK /\ TypeOK' /\ Stamps /\ [Next]_vars => Stamps'
  <2> SUFFICES ASSUME TypeOK, TypeOK', Stamps, [Next]_vars PROVE Stamps'
    OBVIOUS
  <2>1. CASE UNCHANGED vars
    <3>1. \A s \in Nat, b \in BOOLEAN : Stamped(s, b)' => Stamped(s, b)
      BY <2>1 DEF vars, Stamped, InRows, InJobs
    <3>2. Empty' /\ Chosen' /\ clock' = clock /\ edits' = edits
      BY <2>1 DEF vars, Stamps, Empty, Chosen
    <3> QED BY <3>1, <3>2, NothingNew
  <2> QED BY <2>1, BeginStamps, CommitStamps, SendStamps, ApplyStamps, CrashStamps DEF Next
<1> QED BY <1>1, <1>2, Typing, PTL DEF Spec

\* Two daemons that stamp a row alike hold the same version of it, also when
\* handlers overlap, pushes are late and daemons crash.
THEOREM OneVersionAlways == Spec => []OneVersion
<1>1. TypeOK /\ Stamps => OneVersion
  <2> SUFFICES ASSUME TypeOK, Stamps, NEW h \in Hosts, NEW p \in Hosts, NEW i \in Items,
                      row[h][i].stamp = row[p][i].stamp
               PROVE  row[h][i] = row[p][i]
    BY DEF OneVersion
  <2>1. row[h][i] \in Rows /\ row[p][i] \in Rows
    BY DEF TypeOK
  <2>2. CASE row[h][i].stamp = 0
    BY <2>2 DEF Stamps, Empty
  <2>3. CASE row[h][i].stamp # 0
    <3>1. PICK s \in Nat : s = row[h][i].stamp
      BY <2>1 DEF Rows
    <3>2. Stamped(s, row[h][i].live) /\ Stamped(s, row[p][i].live)
      BY <2>3, <3>1 DEF Stamped, InRows
    <3>3. row[h][i].live = row[p][i].live
      BY <2>1, <3>2 DEF Stamps, OneLife, Rows
    <3> QED BY <2>1, <3>3 DEF Rows
  <2> QED BY <2>2, <2>3
<1> QED BY <1>1, Typing, StampsInductive, PTL
================================================================================
