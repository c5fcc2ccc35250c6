--------------------------- MODULE SyncLogProofs ----------------------------
(***************************************************************************)
(* Theorems about SyncLog, for every set of clients, changes and blobs and *)
(* every value of the limits.  The inductive invariant is IInv of SyncLog. *)
(***************************************************************************)
EXTENDS SyncLog, TLAPS

USE SyncAssumption

-----------------------------------------------------------------------------
(* Type correctness.                                                       *)

LEMMA InitTypeOK == Init => TypeOK
  BY DEF Init, TypeOK, Poll, Idle

LEMMA AppendTypeOK ==
  ASSUME TypeOK, NEW n \in 1..MaxChangesPerBatch, NEW batch \in [1..n -> Changes],
         NEW epoch \in 1..keyEpoch, AppendChanges(n, batch, epoch)
  PROVE  TypeOK'
<1> DEFINE rows == {[seq |-> headSeq + i, cid |-> batch[i], epoch |-> epoch] :
                        i \in Fresh(n, batch)}
<1>1. rows \subseteq Row
  BY DEF TypeOK, Row, Fresh
<1>2. changes' \subseteq Row /\ history' \subseteq Row
  BY <1>1 DEF AppendChanges, TypeOK
<1>3. answers' \subseteq [seq : Nat, cid : Changes]
  BY <1>2 DEF AppendChanges, TypeOK, Row
<1>4. headSeq' \in Nat
  BY DEF AppendChanges, TypeOK
<1> QED
  BY <1>2, <1>3, <1>4 DEF AppendChanges, TypeOK, blobVars, clientVars

LEMMA CompactTypeOK ==
  ASSUME TypeOK, NEW c \in Clients, Compact(c)
  PROVE  TypeOK'
<1>1. ASSUME NEW epoch \in 1..keyEpoch, NEW blob \in Blobs \cup {Inline},
             BuildSnapshot(c, epoch, blob)
      PROVE  TypeOK'
  <2> DEFINE snap == [upto |-> cursor[c], epoch |-> epoch, blob |-> blob,
                      content |-> seen[c], torn |-> torn[c]]
  <2>1. snap \in Snapshot
    BY DEF TypeOK, Snapshot
  <2>2. compaction' \in [Clients -> Snapshot \cup {None}]
    BY <1>1, <2>1 DEF BuildSnapshot, TypeOK
  <2>3. objects' \in [Blobs -> {"absent", "stored", "deleted"}]
    BY <1>1 DEF BuildSnapshot, TypeOK
  <2> QED
    BY <1>1, <2>2, <2>3 DEF BuildSnapshot, TypeOK, dbVars
<1>2. CASE PostSnapshot(c)
  <2>1. compaction[c] \in Snapshot
    BY <1>2 DEF PostSnapshot, TypeOK
  <2>2. compaction' \in [Clients -> Snapshot \cup {None}]
    BY <1>2 DEF PostSnapshot, TypeOK
  <2>3. doomed' \subseteq Blobs
    BY <1>2 DEF PostSnapshot, TypeOK
  <2>4. oldestSeq' \in Nat /\ snapshot' \in Snapshot \cup {None}
    BY <1>2, <2>1 DEF PostSnapshot, Snapshot
  <2> QED
    BY <1>2, <2>2, <2>3, <2>4 DEF PostSnapshot, TypeOK
<1>3. CASE DropSnapshot(c)
  BY <1>3 DEF DropSnapshot, TypeOK, dbVars, blobVars
<1> QED
  BY <1>1, <1>2, <1>3 DEF Compact

LEMMA CatchupTypeOK ==
  ASSUME TypeOK, NEW c \in Clients, Catchup(c)
  PROVE  TypeOK'
<1>1. CASE PollMeta(c)
  BY <1>1 DEF PollMeta, TypeOK, Poll, dbVars, blobVars
<1>2. CASE ReadRows(c)
  <2>1. ASSUME NEW page \in SUBSET Row, NEW next \in Nat, Merge(c, page, next)
        PROVE  TypeOK'
    <3>1. seen' \in [Clients -> SUBSET Changes]
      BY <2>1 DEF Merge, TypeOK, Row
    <3>2. torn' \in [Clients -> SUBSET Row]
      BY <2>1 DEF Merge, TypeOK
    <3>3. cursor' \in [Clients -> Nat] /\ poll' \in [Clients -> Poll]
      BY <2>1 DEF Merge, TypeOK, Poll, Idle
    <3> QED
      BY <2>1, <3>1, <3>2, <3>3 DEF Merge, TypeOK, dbVars, blobVars
  <2>2. changes \subseteq Row /\ poll[c].head \in Nat
    BY DEF TypeOK, Poll
  <2>3. \A last \in changes : last.seq \in Nat
    BY DEF TypeOK, Row
  <2> QED
    BY <1>2, <2>1, <2>2, <2>3 DEF ReadRows
<1>3. ASSUME NEW snap \in Snapshot, Reload(c, snap)
      PROVE  /\ seen' \in [Clients -> SUBSET Changes]
             /\ cursor' \in [Clients -> Nat]
             /\ torn' \in [Clients -> SUBSET Row]
             /\ poll' \in [Clients -> Poll]
  BY <1>3 DEF Reload, TypeOK, Snapshot, Poll, Idle
<1>4. CASE ReadSnapshot(c)
  <2>1. snapshot \in Snapshot
    BY <1>4 DEF ReadSnapshot, TypeOK
  <2>2. CASE snapshot.blob \in Blobs
    <3>1. poll' \in [Clients -> Poll]
      BY <1>4, <2>1, <2>2 DEF ReadSnapshot, TypeOK, Poll
    <3> QED
      BY <1>4, <2>2, <3>1 DEF ReadSnapshot, TypeOK, dbVars, blobVars
  <2>3. CASE snapshot.blob \notin Blobs
    BY <1>3, <1>4, <2>1, <2>3 DEF ReadSnapshot, TypeOK, dbVars, blobVars
  <2> QED
    BY <2>2, <2>3
<1>6. CASE FetchBlob(c)
  <2>1. poll[c].found \in Snapshot
    BY <1>6 DEF FetchBlob, TypeOK, Poll
  <2> QED
    BY <1>3, <1>6, <2>1 DEF FetchBlob, TypeOK, dbVars, blobVars
<1>5. CASE AbandonPoll(c) \/ NotModified(c)
  BY <1>5 DEF AbandonPoll, NotModified, TypeOK, Poll, Idle, dbVars, blobVars
<1> QED
  BY <1>1, <1>2, <1>4, <1>5, <1>6 DEF Catchup

LEMMA NextTypeOK == TypeOK /\ [Next]_vars => TypeOK'
<1> SUFFICES ASSUME TypeOK, [Next]_vars PROVE TypeOK'
  OBVIOUS
<1>1. CASE Append
  BY <1>1, AppendTypeOK DEF Append
<1>2. CASE RotateSpaceKey
  BY <1>2 DEF RotateSpaceKey, TypeOK, blobVars, clientVars
<1>3. ASSUME NEW b \in Blobs, DeleteBlob(b) PROVE TypeOK'
  BY <1>3 DEF DeleteBlob, TypeOK, dbVars, clientVars
<1>4. CASE UNCHANGED vars
  BY <1>4 DEF vars, dbVars, blobVars, clientVars, TypeOK
<1> QED
  BY <1>1, <1>2, <1>3, <1>4, CompactTypeOK, CatchupTypeOK DEF Next

\* Every variable keeps its type: what a query, a request or a blob holds at
\* every step of pkg/store/sync.go and the handlers over it.
THEOREM TypeCorrect == Spec => []TypeOK
  BY InitTypeOK, NextTypeOK, PTL DEF Spec

-----------------------------------------------------------------------------
(* What each kind of step does to the log.                                 *)

\* An append adds rows above head, each under a number and a cid of its own,
\* and answers with rows that are then in the table.
LEMMA AppendRows ==
  ASSUME TypeOK, NEW n \in 1..MaxChangesPerBatch, NEW batch \in [1..n -> Changes],
         NEW epoch \in 1..keyEpoch, AppendChanges(n, batch, epoch)
  PROVE  \E R \in SUBSET Row :
            /\ changes' = changes \cup R /\ history' = history \cup R
            /\ headSeq' \in Nat /\ headSeq < headSeq'
            /\ \A r \in R : headSeq < r.seq /\ r.seq <= headSeq' /\ r.epoch = keyEpoch
            /\ \A r, q \in R : (r.seq = q.seq \/ r.cid = q.cid) => r = q
            /\ \A r \in R, q \in changes : r.cid # q.cid
            /\ \A a \in answers' : \/ a \in answers
                                   \/ \E q \in changes' : a.seq = q.seq /\ a.cid = q.cid
<1> DEFINE R == {[seq |-> headSeq + i, cid |-> batch[i], epoch |-> epoch] :
                        i \in Fresh(n, batch)}
<1>1. /\ changes' = changes \cup R /\ history' = history \cup R
      /\ headSeq' = headSeq + n /\ epoch = keyEpoch
  BY DEF AppendChanges
<1>2. headSeq \in Nat /\ n \in Nat \ {0}
  BY DEF TypeOK
<1>3. Fresh(n, batch) \subseteq 1..n
  BY DEF Fresh
<1>4. R \subseteq Row
  BY <1>2, <1>3 DEF TypeOK, Row
<1>5. \A r \in R : headSeq < r.seq /\ r.seq <= headSeq' /\ r.epoch = keyEpoch
  BY <1>1, <1>2, <1>3
<1>6. \A r, q \in R : (r.seq = q.seq \/ r.cid = q.cid) => r = q
  <2> SUFFICES ASSUME NEW i \in Fresh(n, batch), NEW j \in Fresh(n, batch),
                      headSeq + i = headSeq + j \/ batch[i] = batch[j]
               PROVE  i = j
    OBVIOUS
  <2>1. ASSUME i < j PROVE batch[i] # batch[j]
    BY <1>2, <1>3, <2>1 DEF Fresh
  <2>2. ASSUME j < i PROVE batch[i] # batch[j]
    BY <1>2, <1>3, <2>2 DEF Fresh
  <2> QED
    BY <1>2, <1>3, <2>1, <2>2
<1>7. \A r \in R, q \in changes : r.cid # q.cid
  BY DEF Fresh
<1>8. \A a \in answers' : \/ a \in answers
                         \/ \E q \in changes' : a.seq = q.seq /\ a.cid = q.cid
  BY DEF AppendChanges
<1>9. headSeq' \in Nat /\ headSeq < headSeq'
  BY <1>1, <1>2
<1> HIDE DEF R
<1> QED
  BY <1>1, <1>4, <1>5, <1>6, <1>7, <1>8, <1>9

-----------------------------------------------------------------------------
(* The inductive invariant: one lemma per action.                          *)

LEMMA InitIInv == Init => IInv
<1> SUFFICES ASSUME Init PROVE IInv
  OBVIOUS
<1>1. TypeOK
  BY InitTypeOK
<1>2. Bounded /\ PollSound /\ CopiesComplete /\ CommitsSound /\ PathsUsed
  BY DEF Init, Idle, Bounded, PollSound, CopiesComplete, CommitsSound, PathsUsed
<1>3. LogIsSuffix /\ RowsSound /\ AnswersAgree /\ EpochFence
  BY DEF Init, LogIsSuffix, RowsSound, AnswersAgree, EpochFence
<1>4. SkipsOnlyTornRows /\ FloorCovered /\ SnapshotReadable
  BY DEF Init, SkipsOnlyTornRows, Complete, FloorCovered, SnapshotReadable
<1> QED
  BY <1>1, <1>2, <1>3, <1>4 DEF IInv

LEMMA AppendIInv ==
  ASSUME IInv, NEW n \in 1..MaxChangesPerBatch, NEW batch \in [1..n -> Changes],
         NEW epoch \in 1..keyEpoch, AppendChanges(n, batch, epoch)
  PROVE  IInv'
<1>1. TypeOK /\ TypeOK'
  BY AppendTypeOK DEF IInv
<1>2. PICK R \in SUBSET Row :
            /\ changes' = changes \cup R /\ history' = history \cup R
            /\ headSeq' \in Nat /\ headSeq < headSeq'
            /\ \A r \in R : headSeq < r.seq /\ r.seq <= headSeq' /\ r.epoch = keyEpoch
            /\ \A r, q \in R : (r.seq = q.seq \/ r.cid = q.cid) => r = q
            /\ \A r \in R, q \in changes : r.cid # q.cid
            /\ \A a \in answers' : \/ a \in answers
                                   \/ \E q \in changes' : a.seq = q.seq /\ a.cid = q.cid
  BY <1>1, AppendRows
<1>3. /\ UNCHANGED <<oldestSeq, keyEpoch, snapshot, objects, doomed>>
      /\ UNCHANGED <<cursor, seen, poll, compaction, torn>>
  BY DEF AppendChanges, blobVars, clientVars
<1>4. /\ headSeq \in Nat /\ oldestSeq \in Nat /\ oldestSeq <= headSeq + 1
      /\ 1 <= oldestSeq
  BY <1>1 DEF TypeOK, IInv, Bounded
<1>5. /\ \A r \in history : r.seq \in Nat /\ r.epoch \in Nat
      /\ \A r \in R : r.seq \in Nat /\ r.epoch \in Nat
  BY <1>1 DEF TypeOK, Row
<1>6. Bounded'
  <2>1. 1 <= oldestSeq /\ oldestSeq <= headSeq' + 1
    BY <1>2, <1>4
  <2>2. ASSUME NEW c \in Clients
        PROVE  /\ cursor[c] <= headSeq'
               /\ poll[c].head <= headSeq'
               /\ poll[c].oldest <= oldestSeq
               /\ poll[c].found # None => poll[c].found.upto <= headSeq'
               /\ compaction[c] # None => compaction[c].upto <= headSeq'
    <3>1. /\ cursor[c] \in Nat /\ poll[c].head \in Nat
          /\ poll[c].found # None => poll[c].found.upto \in Nat
          /\ compaction[c] # None => compaction[c].upto \in Nat
      BY <1>1 DEF TypeOK, Poll, Snapshot
    <3>2. /\ cursor[c] <= headSeq
          /\ poll[c].head <= headSeq
          /\ poll[c].oldest <= oldestSeq
          /\ poll[c].found # None => poll[c].found.upto <= headSeq
          /\ compaction[c] # None => compaction[c].upto <= headSeq
      BY DEF IInv, Bounded
    <3> QED
      BY <1>2, <1>4, <3>1, <3>2
  <2> QED
    BY <1>3, <2>1, <2>2 DEF Bounded
<1>7. LogIsSuffix'
  BY <1>2, <1>3, <1>4, <1>5 DEF IInv, LogIsSuffix
<1>8. RowsSound'
  BY <1>2, <1>3, <1>1 DEF IInv, RowsSound, TypeOK
<1>9. AnswersAgree'
  <2>1. \A a \in answers' : \E r \in history' : r.seq = a.seq /\ r.cid = a.cid
    <3>1. changes \subseteq history
      BY DEF IInv, LogIsSuffix
    <3> QED
      BY <1>2, <3>1 DEF IInv, AnswersAgree
  <2>2. ASSUME NEW a \in answers', NEW b \in answers', a.cid = b.cid, a.seq < b.seq
        PROVE  a.seq < oldestSeq
    <3>1. CASE a \in answers /\ b \in answers
      BY <2>2, <3>1 DEF IInv, AnswersAgree
    <3>2. CASE \E q \in changes' : b.seq = q.seq /\ b.cid = q.cid
      <4>1. PICK q \in changes' : b.seq = q.seq /\ b.cid = q.cid
        BY <3>2
      <4>2. PICK r \in history' : r.seq = a.seq /\ r.cid = a.cid
        BY <2>1
      <4>3. SUFFICES ASSUME ~(a.seq < oldestSeq) PROVE FALSE
        OBVIOUS
      <4>4. r \in changes'
        BY <1>3, <1>4, <1>5, <1>2, <1>7, <4>2, <4>3 DEF LogIsSuffix
      <4> QED
        BY <1>8, <2>2, <4>1, <4>2, <4>4, <1>2, <1>5 DEF RowsSound
    <3>3. CASE \E q \in changes' : a.seq = q.seq /\ a.cid = q.cid
      <4>1. PICK q \in changes' : a.seq = q.seq /\ a.cid = q.cid
        BY <3>3
      <4>2. PICK r \in history' : r.seq = b.seq /\ r.cid = b.cid
        BY <2>1
      <4>3. q \in history' /\ q.seq >= oldestSeq
        BY <1>3, <1>7, <4>1 DEF LogIsSuffix
      <4>4. r \in changes'
        BY <1>2, <1>3, <1>4, <1>5, <1>7, <2>2, <4>1, <4>2, <4>3 DEF LogIsSuffix
      <4> QED
        BY <1>2, <1>5, <1>8, <2>2, <4>1, <4>2, <4>3, <4>4 DEF RowsSound
    <3> QED
      BY <1>2, <3>1, <3>2, <3>3
  <2> QED
    BY <1>3, <2>1, <2>2 DEF AnswersAgree
<1>10. EpochFence'
  <2>1. \A r \in history : r.epoch <= keyEpoch /\ r.seq <= headSeq
    BY DEF IInv, RowsSound, LogIsSuffix
  <2> QED
    BY <1>1, <1>2, <1>3, <1>4, <1>5, <2>1 DEF IInv, EpochFence, TypeOK
<1>11. ASSUME NEW content, NEW upto \in Nat, upto <= headSeq, NEW missing,
              \A r \in history : r.seq <= upto => r.cid \in content \/ r \in missing
       PROVE  \A r \in history' : r.seq <= upto => r.cid \in content \/ r \in missing
  BY <1>2, <1>4, <1>5, <1>11
<1>12. PollSound'
  BY <1>3 DEF IInv, PollSound
<1>13. CopiesComplete'
  <2> SUFFICES ASSUME NEW c \in Clients, NEW snap \in {compaction[c], poll[c].found},
                      snap # None
               PROVE  \A r \in history' : r.seq <= snap.upto =>
                            r.cid \in snap.content \/ r \in snap.torn
    BY <1>3 DEF CopiesComplete, Complete
  <2>1. snap.upto \in Nat /\ snap.upto <= headSeq
    BY <1>1 DEF IInv, Bounded, TypeOK, Poll, Snapshot
  <2>2. \A r \in history : r.seq <= snap.upto => r.cid \in snap.content \/ r \in snap.torn
    BY DEF IInv, CopiesComplete, Complete
  <2> QED
    BY <1>11, <2>1, <2>2
<1>14. SkipsOnlyTornRows'
  <2> SUFFICES ASSUME NEW c \in Clients
               PROVE  \A r \in history' : r.seq <= cursor[c] =>
                            r.cid \in seen[c] \/ r \in torn[c]
    BY <1>3 DEF SkipsOnlyTornRows, Complete
  <2>1. cursor[c] \in Nat /\ cursor[c] <= headSeq
    BY <1>1 DEF IInv, Bounded, TypeOK
  <2>2. \A r \in history : r.seq <= cursor[c] => r.cid \in seen[c] \/ r \in torn[c]
    BY DEF IInv, SkipsOnlyTornRows, Complete
  <2> QED
    BY <1>11, <2>1, <2>2
<1>15. FloorCovered'
  <2>1. CASE snapshot = None
    BY <1>3, <2>1 DEF IInv, FloorCovered
  <2>2. CASE snapshot # None
    <3>1. snapshot.upto \in Nat /\ snapshot.upto <= headSeq
      BY <1>1, <2>2 DEF IInv, FloorCovered, TypeOK, Snapshot
    <3>2. \A r \in history : r.seq <= snapshot.upto =>
                r.cid \in snapshot.content \/ r \in snapshot.torn
      BY <2>2 DEF IInv, FloorCovered, Complete
    <3>3. snapshot.upto <= headSeq'
      BY <1>2, <1>4, <3>1
    <3>4. \A r \in history' : r.seq <= snapshot.upto =>
                r.cid \in snapshot.content \/ r \in snapshot.torn
      BY <1>11, <3>1, <3>2
    <3> QED
      BY <1>3, <2>2, <3>3, <3>4 DEF IInv, FloorCovered, Complete
  <2> QED
    BY <2>1, <2>2
<1>16. SnapshotReadable' /\ CommitsSound' /\ PathsUsed'
  BY <1>3 DEF IInv, SnapshotReadable, CommitsSound, PathsUsed
<1> QED
  BY <1>1, <1>6, <1>7, <1>8, <1>9, <1>10, <1>12, <1>13, <1>14, <1>15, <1>16 DEF IInv

LEMMA RotateIInv == ASSUME IInv, RotateSpaceKey PROVE IInv'
<1>1. /\ UNCHANGED <<headSeq, oldestSeq, changes, snapshot, objects, doomed>>
      /\ UNCHANGED <<cursor, seen, poll, compaction, torn, history, answers>>
      /\ keyEpoch' = keyEpoch + 1
  BY DEF RotateSpaceKey, blobVars, clientVars
<1>2. TypeOK /\ TypeOK'
  BY NextTypeOK DEF IInv, Next
<1>3. RowsSound'
  <2>1. \A r \in history : r.epoch \in Nat
    BY <1>2 DEF TypeOK, Row
  <2> QED
    BY <1>1, <1>2, <2>1 DEF IInv, RowsSound, TypeOK
<1>4. Bounded' /\ LogIsSuffix' /\ AnswersAgree' /\ EpochFence'
  BY <1>1 DEF IInv, Bounded, LogIsSuffix, AnswersAgree, EpochFence
<1>5. PollSound' /\ CopiesComplete' /\ SkipsOnlyTornRows' /\ FloorCovered'
  BY <1>1 DEF IInv, PollSound, CopiesComplete, SkipsOnlyTornRows, FloorCovered, Complete
<1>6. SnapshotReadable' /\ CommitsSound' /\ PathsUsed'
  BY <1>1 DEF IInv, SnapshotReadable, CommitsSound, PathsUsed
<1> QED
  BY <1>2, <1>3, <1>4, <1>5, <1>6 DEF IInv

LEMMA BuildIInv ==
  ASSUME IInv, NEW c \in Clients, NEW epoch \in 1..keyEpoch,
         NEW blob \in Blobs \cup {Inline}, BuildSnapshot(c, epoch, blob)
  PROVE  IInv'
<1> DEFINE snap == [upto |-> cursor[c], epoch |-> epoch, blob |-> blob,
                    content |-> seen[c], torn |-> torn[c]]
<1>1. /\ UNCHANGED <<headSeq, oldestSeq, keyEpoch, changes, snapshot, doomed>>
      /\ UNCHANGED <<cursor, seen, poll, torn, history, answers>>
      /\ compaction[c] = None
      /\ compaction' = [compaction EXCEPT ![c] = snap]
      /\ objects' = [b \in Blobs |-> IF b = blob THEN "stored" ELSE objects[b]]
      /\ blob \in Blobs => objects[blob] = "absent"
  BY DEF BuildSnapshot, dbVars
<1>2. TypeOK /\ TypeOK'
  BY CompactTypeOK DEF IInv, Compact
<1>3. /\ compaction'[c] = snap
      /\ \A d \in Clients : d # c => compaction'[d] = compaction[d]
  BY <1>1, <1>2 DEF TypeOK
<1>4. LogIsSuffix' /\ RowsSound' /\ AnswersAgree' /\ EpochFence' /\ PollSound'
  BY <1>1 DEF IInv, LogIsSuffix, RowsSound, AnswersAgree, EpochFence, PollSound
<1>5. SkipsOnlyTornRows' /\ FloorCovered'
  BY <1>1 DEF IInv, SkipsOnlyTornRows, FloorCovered, Complete
<1>6. Bounded'
  BY <1>1, <1>3 DEF IInv, Bounded
<1>7. CopiesComplete'
  <2> SUFFICES ASSUME NEW d \in Clients,
                      NEW s \in {compaction'[d], poll[d].found}, s # None
               PROVE  \A r \in history : r.seq <= s.upto =>
                            r.cid \in s.content \/ r \in s.torn
    BY <1>1 DEF CopiesComplete, Complete
  <2>1. CASE s = snap
    BY <2>1 DEF IInv, SkipsOnlyTornRows, Complete
  <2>2. CASE s # snap
    BY <1>3, <2>2 DEF IInv, CopiesComplete, Complete
  <2> QED
    BY <2>1, <2>2
<1>8. \A b \in Blobs : objects[b] # "absent" => b # blob /\ objects'[b] = objects[b]
  BY <1>1
<1>9. SnapshotReadable'
  BY <1>1, <1>8 DEF IInv, SnapshotReadable
<1>10. PathsUsed'
  <2>1. \A b \in doomed : objects'[b] # "absent"
    BY <1>2, <1>8 DEF IInv, PathsUsed, TypeOK
  <2>2. ASSUME NEW d \in Clients, compaction'[d] # None, compaction'[d].blob \in Blobs
        PROVE  objects'[compaction'[d].blob] # "absent"
    BY <1>1, <1>3, <1>8, <2>2 DEF IInv, PathsUsed
  <2> QED
    BY <1>1, <2>1, <2>2 DEF PathsUsed
<1>11. CommitsSound'
  <2> SUFFICES ASSUME NEW d \in Clients,
                      compaction'[d] # None, compaction'[d].blob \in Blobs
               PROVE  \/ snapshot # None /\ compaction'[d].upto <= snapshot.upto
                      \/ /\ objects'[compaction'[d].blob] = "stored"
                         /\ compaction'[d].blob \notin doomed
                         /\ snapshot # None => compaction'[d].blob # snapshot.blob
                         /\ \A e \in Clients \ {d} : compaction'[e] # None =>
                                compaction'[d].blob # compaction'[e].blob
    BY <1>1 DEF CommitsSound
  <2>1. CASE d = c
    <3>1. objects'[blob] = "stored" /\ objects[blob] = "absent" /\ blob \in Blobs
      BY <1>1, <1>3, <2>1
    <3>2. blob \notin doomed
      BY <3>1 DEF IInv, PathsUsed
    <3>3. snapshot # None => blob # snapshot.blob
      BY <3>1 DEF IInv, SnapshotReadable
    <3>4. \A e \in Clients \ {c} : compaction'[e] # None => blob # compaction'[e].blob
      BY <1>3, <3>1 DEF IInv, PathsUsed
    <3> QED
      BY <1>3, <2>1, <3>1, <3>2, <3>3, <3>4
  <2>2. CASE d # c
    <3>1. compaction'[d] = compaction[d]
      BY <1>3, <2>2
    <3>2. compaction[d].blob # blob /\ objects'[compaction[d].blob] = objects[compaction[d].blob]
      BY <1>8, <3>1 DEF IInv, PathsUsed
    <3>3. \/ snapshot # None /\ compaction[d].upto <= snapshot.upto
          \/ /\ objects[compaction[d].blob] = "stored"
             /\ compaction[d].blob \notin doomed
             /\ snapshot # None => compaction[d].blob # snapshot.blob
             /\ \A e \in Clients \ {d} : compaction[e] # None =>
                    compaction[d].blob # compaction[e].blob
      BY <3>1 DEF IInv, CommitsSound
    <3> QED
      BY <1>3, <3>1, <3>2, <3>3
  <2> QED
    BY <2>1, <2>2
<1> QED
  BY <1>2, <1>4, <1>5, <1>6, <1>7, <1>9, <1>10, <1>11 DEF IInv

LEMMA DropIInv ==
  ASSUME IInv, NEW c \in Clients, DropSnapshot(c)
  PROVE  IInv'
<1>1. /\ UNCHANGED <<headSeq, oldestSeq, keyEpoch, changes, snapshot, objects, doomed>>
      /\ UNCHANGED <<cursor, seen, poll, torn, history, answers>>
      /\ \A d \in Clients : compaction'[d] \in {compaction[d], None}
  BY DEF DropSnapshot, dbVars, blobVars, IInv, TypeOK
<1>2. TypeOK'
  BY CompactTypeOK DEF IInv, Compact
<1>3. LogIsSuffix' /\ RowsSound' /\ AnswersAgree' /\ EpochFence' /\ PollSound'
  BY <1>1 DEF IInv, LogIsSuffix, RowsSound, AnswersAgree, EpochFence, PollSound
<1>4. SkipsOnlyTornRows' /\ FloorCovered' /\ SnapshotReadable'
  BY <1>1 DEF IInv, SkipsOnlyTornRows, FloorCovered, SnapshotReadable, Complete
<1>5. Bounded'
  BY <1>1 DEF IInv, Bounded
<1>6. CopiesComplete'
  BY <1>1 DEF IInv, CopiesComplete, Complete
<1>7. CommitsSound' /\ PathsUsed'
  BY <1>1 DEF IInv, CommitsSound, PathsUsed
<1> QED
  BY <1>2, <1>3, <1>4, <1>5, <1>6, <1>7 DEF IInv

LEMMA PostIInv ==
  ASSUME IInv, NEW c \in Clients, PostSnapshot(c)
  PROVE  IInv' /\ oldestSeq <= oldestSeq'
<1> DEFINE snap == compaction[c]
<1>1. /\ UNCHANGED <<headSeq, keyEpoch, objects>>
      /\ UNCHANGED <<cursor, seen, poll, torn, history, answers>>
      /\ snap # None /\ snapshot' = snap /\ oldestSeq' = snap.upto + 1
      /\ changes' = {r \in changes : r.seq > snap.upto}
      /\ snap.upto <= headSeq
      /\ snapshot # None => snap.upto > snapshot.upto
      /\ doomed' = doomed \cup (IF snapshot # None THEN {snapshot.blob} \cap Blobs ELSE {})
  BY DEF PostSnapshot, Acceptable
<1>2. TypeOK /\ TypeOK'
  BY CompactTypeOK DEF IInv, Compact
<1>3. \A d \in Clients : compaction'[d] \in {compaction[d], None}
  BY <1>2 DEF PostSnapshot, TypeOK
<1>4. /\ headSeq \in Nat /\ oldestSeq \in Nat
      /\ snap \in Snapshot /\ snap.upto \in Nat
      /\ snapshot # None => snapshot \in Snapshot /\ snapshot.upto \in Nat
  BY <1>1, <1>2 DEF TypeOK, Snapshot
<1>5. oldestSeq <= oldestSeq'
  BY <1>1, <1>4 DEF IInv, FloorCovered
<1>6. \A r \in history : r.seq \in Nat
  BY <1>2 DEF TypeOK, Row
<1>7. Bounded'
  <2>1. ASSUME NEW d \in Clients
        PROVE  poll[d].oldest <= oldestSeq'
    <3>1. poll[d].oldest \in Nat /\ poll[d].oldest <= oldestSeq
      BY <1>2 DEF IInv, Bounded, TypeOK, Poll
    <3> QED
      BY <1>1, <1>4, <1>5, <3>1
  <2>2. 1 <= oldestSeq' /\ oldestSeq' <= headSeq + 1
    BY <1>1, <1>4
  <2> QED
    BY <1>1, <1>3, <2>1, <2>2 DEF IInv, Bounded
<1>8. LogIsSuffix'
  <2>1. changes' = {r \in history : r.seq >= oldestSeq'}
    BY <1>1, <1>4, <1>5, <1>6 DEF IInv, LogIsSuffix
  <2> QED
    BY <1>1, <2>1 DEF IInv, LogIsSuffix
<1>9. RowsSound' /\ EpochFence'
  BY <1>1 DEF IInv, RowsSound, EpochFence
<1>10. AnswersAgree'
  <2>1. \A a \in answers : a.seq \in Nat
    BY <1>2 DEF TypeOK
  <2> QED
    BY <1>1, <1>4, <1>5, <2>1 DEF IInv, AnswersAgree
<1>11. PollSound'
  <2>1. \A d \in Clients : cursor[d] \in Nat
    BY <1>2 DEF TypeOK
  <2> QED
    BY <1>1, <1>4, <1>5, <2>1 DEF IInv, PollSound
<1>12. CopiesComplete' /\ SkipsOnlyTornRows'
  BY <1>1, <1>3 DEF IInv, CopiesComplete, SkipsOnlyTornRows, Complete
<1>13. FloorCovered'
  BY <1>1 DEF IInv, CopiesComplete, FloorCovered, Complete
<1>14. ASSUME snap.blob \in Blobs
       PROVE  /\ objects[snap.blob] = "stored" /\ snap.blob \notin doomed
              /\ snapshot # None => snap.blob # snapshot.blob
  BY <1>1, <1>4, <1>14 DEF IInv, CommitsSound
<1>15. SnapshotReadable'
  BY <1>1, <1>14 DEF SnapshotReadable
<1>16. PathsUsed'
  BY <1>1, <1>3 DEF IInv, PathsUsed, SnapshotReadable
<1>17. CommitsSound'
  <2> SUFFICES ASSUME NEW d \in Clients,
                      compaction'[d] # None, compaction'[d].blob \in Blobs
               PROVE  \/ compaction'[d].upto <= snap.upto
                      \/ /\ objects[compaction'[d].blob] = "stored"
                         /\ compaction'[d].blob \notin doomed'
                         /\ compaction'[d].blob # snap.blob
                         /\ \A e \in Clients \ {d} : compaction'[e] # None =>
                                compaction'[d].blob # compaction'[e].blob
    BY <1>1 DEF CommitsSound
  <2>1. compaction'[d] = compaction[d] /\ compaction[d].upto \in Nat
    BY <1>2, <1>3 DEF TypeOK, Snapshot
  <2>2. CASE d = c
    BY <1>4, <2>1, <2>2
  <2>3. CASE d # c /\ snapshot # None /\ compaction[d].upto <= snapshot.upto
    BY <1>1, <1>4, <2>1, <2>3
  <2>4. CASE d # c /\ ~(snapshot # None /\ compaction[d].upto <= snapshot.upto)
    <3>1. /\ objects[compaction[d].blob] = "stored"
          /\ compaction[d].blob \notin doomed
          /\ snapshot # None => compaction[d].blob # snapshot.blob
          /\ \A e \in Clients \ {d} : compaction[e] # None =>
                 compaction[d].blob # compaction[e].blob
      BY <2>1, <2>4 DEF IInv, CommitsSound
    <3> QED
      BY <1>1, <1>3, <2>1, <2>4, <3>1
  <2> QED
    BY <2>2, <2>3, <2>4
<1> QED
  BY <1>2, <1>5, <1>7, <1>8, <1>9, <1>10, <1>11, <1>12, <1>13, <1>15, <1>16, <1>17 DEF IInv

LEMMA DeleteIInv == ASSUME IInv, NEW b \in Blobs, DeleteBlob(b) PROVE IInv'
<1>1. /\ UNCHANGED <<headSeq, oldestSeq, keyEpoch, changes, snapshot>>
      /\ UNCHANGED <<cursor, seen, poll, compaction, torn, history, answers>>
      /\ b \in doomed /\ doomed' = doomed \ {b}
  BY DEF DeleteBlob, dbVars, clientVars
<1>2. TypeOK /\ TypeOK'
  BY NextTypeOK DEF IInv, Next
<1>3. /\ \A p \in Blobs \ {b} : objects'[p] = objects[p]
      /\ objects'[b] \in {objects[b], "deleted"}
  BY <1>2 DEF DeleteBlob, TypeOK
<1>4. Bounded' /\ LogIsSuffix' /\ RowsSound' /\ AnswersAgree' /\ EpochFence' /\ PollSound'
  BY <1>1 DEF IInv, Bounded, LogIsSuffix, RowsSound, AnswersAgree, EpochFence, PollSound
<1>5. CopiesComplete' /\ SkipsOnlyTornRows' /\ FloorCovered'
  BY <1>1 DEF IInv, CopiesComplete, SkipsOnlyTornRows, FloorCovered, Complete
<1>6. SnapshotReadable'
  BY <1>1, <1>3 DEF IInv, SnapshotReadable
<1>7. PathsUsed'
  <2>1. doomed \subseteq Blobs
    BY <1>2 DEF TypeOK
  <2> QED
    BY <1>1, <1>3, <2>1 DEF IInv, PathsUsed
<1>8. CommitsSound'
  BY <1>1, <1>3 DEF IInv, CommitsSound
<1> QED
  BY <1>2, <1>4, <1>5, <1>6, <1>7, <1>8 DEF IInv

\* The steps of a poll touch only the state of the client that polls.
LEMMA CatchupFrame ==
  ASSUME IInv, UNCHANGED <<dbVars, blobVars, compaction, history, answers>>
  PROVE  /\ LogIsSuffix' /\ RowsSound' /\ AnswersAgree' /\ EpochFence'
         /\ FloorCovered' /\ SnapshotReadable' /\ CommitsSound' /\ PathsUsed'
<1>1. LogIsSuffix' /\ RowsSound' /\ AnswersAgree' /\ EpochFence'
  BY DEF IInv, LogIsSuffix, RowsSound, AnswersAgree, EpochFence, dbVars
<1>2. FloorCovered' /\ SnapshotReadable' /\ CommitsSound' /\ PathsUsed'
  BY DEF IInv, FloorCovered, Complete, SnapshotReadable, CommitsSound, PathsUsed,
         dbVars, blobVars
<1> QED
  BY <1>1, <1>2

LEMMA MetaIInv ==
  ASSUME IInv, NEW c \in Clients, PollMeta(c)
  PROVE  IInv'
<1>1. UNCHANGED <<dbVars, blobVars, cursor, seen, compaction, torn, history, answers>>
  BY DEF PollMeta
<1>2. TypeOK /\ TypeOK'
  BY CatchupTypeOK DEF IInv, Catchup
<1>3. /\ poll'[c] = [step |-> IF cursor[c] + 1 < oldestSeq THEN "resync" ELSE "rows",
                     head |-> headSeq, oldest |-> oldestSeq, found |-> None]
      /\ \A d \in Clients : d # c => poll'[d] = poll[d]
      /\ cursor[c] < headSeq
  BY <1>2 DEF PollMeta, TypeOK
<1>4. headSeq \in Nat /\ oldestSeq \in Nat /\ cursor[c] \in Nat
  BY <1>2 DEF TypeOK
<1>5. Bounded'
  BY <1>1, <1>3, <1>4 DEF IInv, Bounded, dbVars
<1>6. PollSound'
  BY <1>1, <1>3, <1>4 DEF IInv, PollSound, dbVars
<1>7. CopiesComplete' /\ SkipsOnlyTornRows'
  BY <1>1, <1>3 DEF IInv, CopiesComplete, SkipsOnlyTornRows, Complete
<1> QED
  BY <1>1, <1>2, <1>5, <1>6, <1>7, CatchupFrame DEF IInv

LEMMA AbandonIInv ==
  ASSUME IInv, NEW c \in Clients, AbandonPoll(c)
  PROVE  IInv'
<1>1. UNCHANGED <<dbVars, blobVars, cursor, seen, compaction, torn, history, answers>>
  BY DEF AbandonPoll
<1>2. TypeOK /\ TypeOK'
  BY CatchupTypeOK DEF IInv, Catchup
<1>3. /\ poll'[c] = Idle
      /\ \A d \in Clients : d # c => poll'[d] = poll[d]
  BY <1>2 DEF AbandonPoll, TypeOK
<1>4. Bounded'
  BY <1>1, <1>2, <1>3 DEF IInv, Bounded, Idle, TypeOK, dbVars
<1>5. PollSound'
  BY <1>1, <1>3 DEF IInv, PollSound, Idle, dbVars
<1>6. CopiesComplete' /\ SkipsOnlyTornRows'
  BY <1>1, <1>3 DEF IInv, CopiesComplete, SkipsOnlyTornRows, Complete, Idle
<1> QED
  BY <1>1, <1>2, <1>4, <1>5, <1>6, CatchupFrame DEF IInv

\* A page with every retained row between the old cursor and the new one.
LEMMA MergeIInv ==
  ASSUME IInv, TypeOK', NEW c \in Clients, poll[c].step = "rows",
         NEW page \in SUBSET changes, NEW next \in Nat, Merge(c, page, next),
         cursor[c] <= next, next <= headSeq,
         \A r \in changes : (cursor[c] < r.seq /\ r.seq <= next) => r \in page
  PROVE  IInv' /\ \A d \in Clients : cursor[d] <= cursor'[d]
<1>1. UNCHANGED <<dbVars, blobVars, compaction, history, answers>>
  BY DEF Merge
<1>2. TypeOK
  BY DEF IInv
<1> DEFINE gone == {r \in history : /\ r.seq > cursor[c] /\ r.seq <= next
                                    /\ r.seq >= poll[c].oldest /\ r.seq < oldestSeq}
<1>3. /\ poll'[c] = Idle /\ cursor'[c] = next
      /\ seen'[c] = seen[c] \cup {r.cid : r \in page}
      /\ torn'[c] = torn[c] \cup gone
  BY <1>2 DEF Merge, TypeOK
<1>4. \A d \in Clients : d # c => /\ poll'[d] = poll[d] /\ cursor'[d] = cursor[d]
                                  /\ seen'[d] = seen[d] /\ torn'[d] = torn[d]
  BY <1>2 DEF Merge, TypeOK
<1>5. /\ headSeq \in Nat /\ oldestSeq \in Nat /\ poll[c].oldest \in Nat
      /\ \A d \in Clients : cursor[d] \in Nat
      /\ \A r \in history : r.seq \in Nat
  BY <1>2 DEF TypeOK, Poll, Row
<1>6. Bounded'
  BY <1>1, <1>3, <1>4, <1>5 DEF IInv, Bounded, Idle, dbVars
<1>7. PollSound'
  BY <1>1, <1>3, <1>4 DEF IInv, PollSound, Idle, dbVars
<1>8. CopiesComplete'
  BY <1>1, <1>3, <1>4 DEF IInv, CopiesComplete, Complete, Idle
<1>9. SkipsOnlyTornRows'
  <2>1. ASSUME NEW r \in history, r.seq <= next
        PROVE  r.cid \in seen'[c] \/ r \in torn'[c]
    <3>1. CASE r.seq <= cursor[c]
      BY <1>3, <3>1 DEF IInv, SkipsOnlyTornRows, Complete
    <3>2. CASE r.seq > cursor[c] /\ r.seq >= oldestSeq
      <4>1. r \in changes
        BY <3>2 DEF IInv, LogIsSuffix
      <4> QED
        BY <1>3, <1>5, <2>1, <3>2, <4>1
    <3>3. CASE r.seq > cursor[c] /\ r.seq < oldestSeq
      <4>1. poll[c].oldest <= cursor[c] + 1
        BY DEF IInv, PollSound
      <4> QED
        BY <1>3, <1>5, <2>1, <3>3, <4>1
    <3> QED
      BY <1>5, <3>1, <3>2, <3>3
  <2> QED
    BY <1>1, <1>3, <1>4, <2>1 DEF IInv, SkipsOnlyTornRows, Complete
<1>10. \A d \in Clients : cursor[d] <= cursor'[d]
  BY <1>3, <1>4, <1>5
<1> QED
  BY <1>1, <1>6, <1>7, <1>8, <1>9, <1>10, CatchupFrame DEF IInv

\* A complete snapshot that is ahead of the client that loads it.
LEMMA ReloadIInv ==
  ASSUME IInv, TypeOK', NEW c \in Clients, NEW snap \in Snapshot, Reload(c, snap),
         UNCHANGED <<dbVars, blobVars, compaction, history, answers>>,
         cursor[c] <= snap.upto, snap.upto <= headSeq,
         Complete(snap.content, snap.upto, snap.torn)
  PROVE  IInv' /\ \A d \in Clients : cursor[d] <= cursor'[d]
<1>1. TypeOK
  BY DEF IInv
<1>2. /\ poll'[c] = Idle /\ cursor'[c] = snap.upto
      /\ seen'[c] = snap.content /\ torn'[c] = snap.torn
  BY <1>1 DEF Reload, TypeOK
<1>3. \A d \in Clients : d # c => /\ poll'[d] = poll[d] /\ cursor'[d] = cursor[d]
                                  /\ seen'[d] = seen[d] /\ torn'[d] = torn[d]
  BY <1>1 DEF Reload, TypeOK
<1>4. /\ headSeq \in Nat /\ oldestSeq \in Nat /\ \A d \in Clients : cursor[d] \in Nat
  BY <1>1 DEF TypeOK
<1>5. Bounded'
  BY <1>2, <1>3, <1>4 DEF IInv, Bounded, Idle, dbVars
<1>6. PollSound'
  BY <1>2, <1>3 DEF IInv, PollSound, Idle, dbVars
<1>7. CopiesComplete'
  BY <1>2, <1>3 DEF IInv, CopiesComplete, Complete, Idle
<1>8. SkipsOnlyTornRows'
  BY <1>2, <1>3 DEF IInv, SkipsOnlyTornRows, Complete
<1>9. \A d \in Clients : cursor[d] <= cursor'[d]
  BY <1>2, <1>3, <1>4
<1> QED
  BY <1>5, <1>6, <1>7, <1>8, <1>9, CatchupFrame DEF IInv

LEMMA CatchupIInv ==
  ASSUME IInv, NEW c \in Clients, Catchup(c)
  PROVE  IInv' /\ \A d \in Clients : cursor[d] <= cursor'[d]
<1>1. TypeOK /\ TypeOK'
  BY CatchupTypeOK DEF IInv
<1>2. \A d \in Clients : cursor[d] \in Nat
  BY <1>1 DEF TypeOK
<1>3. CASE PollMeta(c)
  <2>1. IInv'
    BY <1>3, MetaIInv
  <2> QED
    BY <1>2, <1>3, <2>1 DEF PollMeta
<1>4. CASE AbandonPoll(c)
  <2>1. IInv'
    BY <1>4, AbandonIInv
  <2> QED
    BY <1>2, <1>4, <2>1 DEF AbandonPoll
<1>8. CASE NotModified(c)
  <2>1. AbandonPoll(c)
    BY <1>8 DEF NotModified, AbandonPoll
  <2> QED
    BY <1>4, <2>1
<1>5. CASE ReadRows(c)
  <2> DEFINE rows == {r \in changes : r.seq > cursor[c]}
  <2>1. poll[c].step = "rows"
    BY <1>5 DEF ReadRows
  <2>2. CASE rows = {} /\ Merge(c, {}, poll[c].head)
    <3>1. poll[c].head \in Nat /\ cursor[c] <= poll[c].head /\ poll[c].head <= headSeq
      BY <1>1, <2>1 DEF IInv, PollSound, Bounded, TypeOK, Poll
    <3> QED
      BY <1>1, <2>1, <2>2, <3>1, MergeIInv
  <2>3. ASSUME NEW last \in rows, Merge(c, {r \in rows : r.seq <= last.seq}, last.seq)
        PROVE  IInv' /\ \A d \in Clients : cursor[d] <= cursor'[d]
    <3>1. last.seq \in Nat /\ cursor[c] <= last.seq /\ last.seq <= headSeq
      BY <1>1, <1>2 DEF IInv, LogIsSuffix, TypeOK, Row
    <3> QED
      BY <1>1, <2>1, <2>3, <3>1, MergeIInv
  <2> QED
    BY <1>5, <2>2, <2>3 DEF ReadRows
<1>6. CASE ReadSnapshot(c)
  <2>1. snapshot # None /\ snapshot \in Snapshot /\ poll[c].step = "resync"
        /\ UNCHANGED <<dbVars, blobVars, compaction, history, answers>>
    BY <1>1, <1>6 DEF ReadSnapshot, TypeOK
  <2>2. snapshot.upto \in Nat /\ oldestSeq \in Nat
    BY <1>1, <2>1 DEF Snapshot, TypeOK
  <2>3. /\ cursor[c] <= snapshot.upto /\ snapshot.upto <= headSeq
        /\ Complete(snapshot.content, snapshot.upto, snapshot.torn)
    BY <1>2, <2>1, <2>2 DEF IInv, FloorCovered, PollSound
  <2>4. CASE snapshot.blob \notin Blobs
    BY <1>1, <1>6, <2>1, <2>3, <2>4, ReloadIInv DEF ReadSnapshot
  <2>5. CASE snapshot.blob \in Blobs
    <3>1. /\ UNCHANGED <<cursor, seen, torn>>
          /\ poll' = [poll EXCEPT ![c].step = "fetch", ![c].found = snapshot]
      BY <1>6, <2>5 DEF ReadSnapshot
    <3>2. /\ poll'[c].step = "fetch" /\ poll'[c].found = snapshot
          /\ poll'[c].head = poll[c].head /\ poll'[c].oldest = poll[c].oldest
          /\ \A d \in Clients : d # c => poll'[d] = poll[d]
      BY <1>1, <3>1 DEF TypeOK, Poll
    <3>3. Bounded'
      BY <2>1, <2>3, <3>1, <3>2 DEF IInv, Bounded, dbVars
    <3>4. PollSound'
      BY <2>1, <2>3, <3>1, <3>2 DEF IInv, PollSound, dbVars
    <3>5. SkipsOnlyTornRows'
      BY <2>1, <3>1 DEF IInv, SkipsOnlyTornRows, Complete
    <3>6. CopiesComplete'
      <4> SUFFICES ASSUME NEW d \in Clients, NEW s \in {compaction[d], poll'[d].found},
                          s # None
                   PROVE  Complete(s.content, s.upto, s.torn)
        BY <2>1 DEF CopiesComplete, Complete
      <4>1. CASE s = snapshot
        BY <2>3, <4>1
      <4>2. CASE s # snapshot
        BY <3>2, <4>2 DEF IInv, CopiesComplete
      <4> QED
        BY <4>1, <4>2
    <3> QED
      BY <1>1, <1>2, <2>1, <3>1, <3>3, <3>4, <3>5, <3>6, CatchupFrame DEF IInv
  <2> QED
    BY <2>4, <2>5
<1>7. CASE FetchBlob(c)
  <2>1. poll[c].step = "fetch" /\ Reload(c, poll[c].found)
        /\ UNCHANGED <<dbVars, blobVars, compaction, history, answers>>
    BY <1>7 DEF FetchBlob
  <2>2. poll[c].found \in Snapshot /\ poll[c].found # None
    BY <1>1, <2>1, NoneAssumption DEF TypeOK, Poll, Snapshot, Row
  <2>3. /\ cursor[c] <= poll[c].found.upto /\ poll[c].found.upto <= headSeq
        /\ Complete(poll[c].found.content, poll[c].found.upto, poll[c].found.torn)
    BY <2>1, <2>2 DEF IInv, PollSound, Bounded, CopiesComplete
  <2> QED
    BY <1>1, <2>1, <2>2, <2>3, ReloadIInv
<1> QED
  BY <1>3, <1>4, <1>5, <1>6, <1>7, <1>8 DEF Catchup

-----------------------------------------------------------------------------
(* The theorems.                                                           *)

LEMMA NextIInv ==
  IInv /\ [Next]_vars =>
    IInv' /\ headSeq <= headSeq' /\ oldestSeq <= oldestSeq'
          /\ \A c \in Clients : cursor[c] <= cursor'[c]
<1> SUFFICES ASSUME IInv, [Next]_vars
             PROVE  IInv' /\ headSeq <= headSeq' /\ oldestSeq <= oldestSeq'
                          /\ \A c \in Clients : cursor[c] <= cursor'[c]
  OBVIOUS
<1>1. headSeq \in Nat /\ oldestSeq \in Nat /\ \A c \in Clients : cursor[c] \in Nat
  BY DEF IInv, TypeOK
<1>2. CASE Append
  BY <1>1, <1>2, AppendIInv DEF Append, AppendChanges, clientVars
<1>3. CASE RotateSpaceKey
  BY <1>1, <1>3, RotateIInv DEF RotateSpaceKey, clientVars
<1>4. ASSUME NEW c \in Clients, Compact(c)
      PROVE  IInv' /\ headSeq <= headSeq' /\ oldestSeq <= oldestSeq'
                   /\ \A d \in Clients : cursor[d] <= cursor'[d]
  <2>1. CASE PostSnapshot(c)
    BY <1>1, <2>1, PostIInv DEF PostSnapshot
  <2>2. CASE DropSnapshot(c)
    <3>1. IInv'
      BY <2>2, DropIInv
    <3> QED
      BY <1>1, <2>2, <3>1 DEF DropSnapshot, dbVars
  <2>3. ASSUME NEW epoch \in 1..keyEpoch, NEW blob \in Blobs \cup {Inline},
               BuildSnapshot(c, epoch, blob)
        PROVE  IInv' /\ headSeq <= headSeq' /\ oldestSeq <= oldestSeq'
                     /\ \A d \in Clients : cursor[d] <= cursor'[d]
    <3>1. IInv'
      BY <2>3, BuildIInv
    <3> QED
      BY <1>1, <2>3, <3>1 DEF BuildSnapshot, dbVars
  <2> QED
    BY <1>4, <2>1, <2>2, <2>3 DEF Compact
<1>5. ASSUME NEW c \in Clients, Catchup(c)
      PROVE  IInv' /\ headSeq <= headSeq' /\ oldestSeq <= oldestSeq'
                   /\ \A d \in Clients : cursor[d] <= cursor'[d]
  <2>1. UNCHANGED dbVars
    BY <1>5 DEF Catchup, PollMeta, ReadRows, Merge, ReadSnapshot, FetchBlob,
         AbandonPoll, NotModified
  <2> QED
    BY <1>1, <1>5, <2>1, CatchupIInv DEF dbVars
<1>6. ASSUME NEW b \in Blobs, DeleteBlob(b)
      PROVE  IInv' /\ headSeq <= headSeq' /\ oldestSeq <= oldestSeq'
                   /\ \A c \in Clients : cursor[c] <= cursor'[c]
  BY <1>1, <1>6, DeleteIInv DEF DeleteBlob, dbVars, clientVars
<1>7. CASE UNCHANGED vars
  <2>1. IInv'
    BY <1>7 DEF vars, dbVars, blobVars, clientVars, IInv, TypeOK, Bounded, LogIsSuffix,
         RowsSound, AnswersAgree, EpochFence, PollSound, CopiesComplete, Complete,
         SkipsOnlyTornRows, FloorCovered, SnapshotReadable, CommitsSound, PathsUsed
  <2> QED
    BY <1>1, <1>7, <2>1 DEF vars, dbVars, clientVars
<1> QED
  BY <1>2, <1>3, <1>4, <1>5, <1>6, <1>7 DEF Next

LEMMA InvariantHolds == Spec => []IInv
  BY InitIInv, NextIInv, PTL DEF Spec

\* AppendChanges and PutSnapshot: the table holds exactly the accepted rows from
\* oldest_seq on, each under a number of its own.
THEOREM LogIsSuffixHolds == Spec => []LogIsSuffix
  BY InvariantHolds, PTL DEF IInv

\* AppendChanges answers a retried cid as it did before, as long as compaction
\* has not swallowed the first answer.
THEOREM AnswersAgreeHolds == Spec => []AnswersAgree
  BY InvariantHolds, PTL DEF IInv

\* The epoch check under the row lock: nothing sealed before a rotation is ever
\* numbered after something sealed behind it.
THEOREM EpochFenceHolds == Spec => []EpochFence
  BY InvariantHolds, PTL DEF IInv

\* GetChanges, handleGetUpdates: the only rows a client can pass over are those
\* a compaction deleted between two statements of one poll.
THEOREM SkipsOnlyTornRowsHolds == Spec => []SkipsOnlyTornRows
  BY InvariantHolds, PTL DEF IInv

\* PutSnapshot: everything below oldest_seq is in the snapshot clients resync to.
THEOREM FloorCoveredHolds == Spec => []FloorCovered
  BY InvariantHolds, PTL DEF IInv

\* handlePostSnapshot: the blob the snapshot row names is never the one deleted.
THEOREM SnapshotReadableHolds == Spec => []SnapshotReadable
  BY InvariantHolds, PTL DEF IInv

\* No answer of the server moves a client back, and neither end of the log does.
THEOREM NeverBackwardsHolds == Spec => NeverBackwards
<1>1. IInv /\ [Next]_vars =>
        [/\ \A c \in Clients : cursor'[c] >= cursor[c]
         /\ headSeq' >= headSeq /\ oldestSeq' >= oldestSeq]_vars
  BY NextIInv
<1> QED
  BY <1>1, InvariantHolds, PTL DEF Spec, NeverBackwards

-----------------------------------------------------------------------------
(* The log implements the feed.                                            *)

LEMMA AppendPublishes ==
  ASSUME IInv, IInv', NEW n \in 1..MaxChangesPerBatch, NEW batch \in [1..n -> Changes],
         NEW epoch \in 1..keyEpoch, AppendChanges(n, batch, epoch)
  PROVE  Feed!Publish
<1> DEFINE Entries(rows) == {[seq |-> r.seq, cid |-> r.cid] : r \in rows}
<1>1. TypeOK
  BY DEF IInv
<1>2. PICK R \in SUBSET Row :
            /\ changes' = changes \cup R /\ history' = history \cup R
            /\ headSeq' \in Nat /\ headSeq < headSeq'
            /\ \A r \in R : headSeq < r.seq /\ r.seq <= headSeq' /\ r.epoch = keyEpoch
            /\ \A r, q \in R : (r.seq = q.seq \/ r.cid = q.cid) => r = q
            /\ \A r \in R, q \in changes : r.cid # q.cid
            /\ \A a \in answers' : \/ a \in answers
                                   \/ \E q \in changes' : a.seq = q.seq /\ a.cid = q.cid
  BY <1>1, AppendRows
<1>3. Entries(changes) \subseteq Entries(changes')
  BY <1>2
<1>4. \A e \in Entries(changes') \ Entries(changes) :
            e \in Feed!Entry /\ headSeq < e.seq /\ e.seq <= headSeq'
  BY <1>2 DEF Feed!Entry, Row
<1>5. Feed!OnePlaceEach(Entries(changes'))
  <2>1. \A r, q \in changes' : (r.seq = q.seq \/ r.cid = q.cid) => r = q
    BY DEF IInv, LogIsSuffix, RowsSound
  <2> QED
    BY <2>1 DEF Feed!OnePlaceEach
<1>6. UNCHANGED oldestSeq
  BY DEF AppendChanges
<1> QED
  BY <1>2, <1>3, <1>4, <1>5, <1>6 DEF Feed!Publish

LEMMA PostTrims ==
  ASSUME IInv, IInv', NEW c \in Clients, PostSnapshot(c)
  PROVE  Feed!Trim
<1>1. oldestSeq' \in Nat /\ oldestSeq <= oldestSeq' /\ oldestSeq' <= headSeq + 1
  BY PostIInv DEF IInv, TypeOK, Bounded, PostSnapshot
<1>2. compaction[c].upto \in Nat /\ \A r \in changes : r.seq \in Nat
  BY DEF PostSnapshot, IInv, TypeOK, Snapshot, Row
<1>3. changes' = {r \in changes : r.seq >= oldestSeq'}
  BY <1>2 DEF PostSnapshot
<1> QED
  BY <1>1, <1>3 DEF PostSnapshot, Feed!Trim

LEMMA StepImplementsFeed ==
  IInv /\ IInv' /\ [Next]_vars => [Feed!Next]_(Feed!vars)
<1> SUFFICES ASSUME IInv, IInv', [Next]_vars PROVE [Feed!Next]_(Feed!vars)
  OBVIOUS
<1>1. CASE Append
  BY <1>1, AppendPublishes DEF Append, Feed!Next
<1>2. ASSUME NEW c \in Clients, PostSnapshot(c) PROVE Feed!Next
  BY <1>2, PostTrims DEF Feed!Next
<1>3. ASSUME UNCHANGED <<headSeq, oldestSeq, changes>> PROVE UNCHANGED Feed!vars
  BY <1>3 DEF Feed!vars
<1>4. CASE RotateSpaceKey
  BY <1>3, <1>4 DEF RotateSpaceKey
<1>5. ASSUME NEW c \in Clients, Compact(c), ~PostSnapshot(c) PROVE UNCHANGED Feed!vars
  BY <1>3, <1>5 DEF Compact, BuildSnapshot, DropSnapshot, dbVars
<1>6. ASSUME NEW c \in Clients, Catchup(c) PROVE UNCHANGED Feed!vars
  BY <1>3, <1>6 DEF Catchup, PollMeta, ReadRows, Merge, ReadSnapshot, FetchBlob,
       AbandonPoll, NotModified, dbVars
<1>7. ASSUME NEW b \in Blobs, DeleteBlob(b) PROVE UNCHANGED Feed!vars
  BY <1>3, <1>7 DEF DeleteBlob, dbVars
<1>8. CASE UNCHANGED vars
  BY <1>3, <1>8 DEF vars, dbVars
<1> QED
  BY <1>1, <1>2, <1>4, <1>5, <1>6, <1>7, <1>8 DEF Next

\* AppendChanges only ever adds above what was numbered and PutSnapshot only ever
\* drops a prefix: the log is the ordered feed of module ChangeFeed.
THEOREM ImplementsFeed == Spec => FeedSpec
<1>1. Init => Feed!Init
  BY DEF Init, Feed!Init
<1> QED
  BY <1>1, InvariantHolds, StepImplementsFeed, PTL DEF Spec, FeedSpec, Feed!Spec
=============================================================================
