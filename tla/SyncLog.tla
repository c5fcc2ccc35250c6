------------------------------ MODULE SyncLog -------------------------------
(***************************************************************************)
(* The append-only change log of one space: pkg/store/sync.go and the      *)
(* handlers of pkg/httpapi/sync.go.  Devices append sealed change-sets,    *)
(* poll for what others appended, and compact the log into a snapshot.     *)
(*                                                                         *)
(* AppendChanges, PutSnapshot and RotateSpaceKey each lock the row of the  *)
(* space (UPDATE ... or SELECT ... FOR UPDATE) before they read anything   *)
(* else and hold it until they commit, so each is one step here.  A poll   *)
(* holds no lock and runs two or three separate statements, one step each. *)
(* Requests may be delayed, repeated or lost: any batch may arrive at any  *)
(* moment, sealed under any epoch issued so far, and a poll or a commit    *)
(* may go unanswered.                                                      *)
(***************************************************************************)
EXTENDS Integers, FiniteSets

CONSTANTS
    Clients,             \* devices that edit the space
    Changes,             \* client-minted change ids (cid)
    Blobs,               \* random object paths the blob store can hand out
    Inline,              \* a snapshot stored in its row rather than in a blob
    None,                \* no snapshot, nothing in flight
    MaxChangesPerBatch,  \* changes one POST may carry
    MaxChangesPerPage,   \* changes one poll may return
    MaxHead,             \* bound: sequence numbers handed out
    MaxEpoch             \* bound: key epochs

ASSUME SyncAssumption ==
    /\ MaxChangesPerBatch \in Nat \ {0}
    /\ MaxChangesPerPage \in Nat \ {0}
    /\ MaxHead \in Nat
    /\ MaxEpoch \in Nat \ {0}
    /\ Inline \notin Blobs

\* No snapshot is None.
ASSUME NoneAssumption ==
    None \notin [upto : Nat, epoch : Nat, blob : Blobs \cup {Inline},
                 content : SUBSET Changes,
                 torn : SUBSET [seq : Nat, cid : Changes, epoch : Nat]]

VARIABLES
    headSeq,     \* spaces.head_seq
    oldestSeq,   \* spaces.oldest_seq
    keyEpoch,    \* spaces.key_epoch
    changes,     \* rows of space_changes
    snapshot,    \* the row of space_snapshots, or None
    objects,     \* state of each blob path in the object store
    doomed,      \* blobs whose background deletion has been started
    cursor,      \* per client: the `since` it polls from
    seen,        \* per client: the change ids merged into its local state
    poll,        \* per client: the poll in progress
    compaction   \* per client: the snapshot it is committing, or None

VARIABLES        \* history variables, read by no action
    history,     \* every row ever inserted
    answers,     \* every cid -> seq assignment ever returned
    torn         \* per client: rows deleted between the two reads of a poll
                 \* that its cursor passed all the same

dbVars == <<headSeq, oldestSeq, keyEpoch, changes, snapshot>>
blobVars == <<objects, doomed>>
clientVars == <<cursor, seen, poll, compaction, torn>>
vars == <<dbVars, blobVars, clientVars, history, answers>>

-----------------------------------------------------------------------------

Row == [seq : Nat, cid : Changes, epoch : Nat]

Snapshot ==
    [upto : Nat, epoch : Nat, blob : Blobs \cup {Inline},
     content : SUBSET Changes, torn : SUBSET Row]

\* A poll under way, with head_seq and oldest_seq as its first statement read
\* them; one that waits for a blob has the descriptor it was sent.
Poll ==
    [step : {"idle", "rows", "resync"}, head : Nat, oldest : Nat, found : {None}]
      \cup [step : {"fetch"}, head : Nat, oldest : Nat, found : Snapshot]

Idle == [step |-> "idle", head |-> 0, oldest |-> 0, found |-> None]

TypeOK ==
    /\ headSeq \in Nat
    /\ oldestSeq \in Nat
    /\ keyEpoch \in Nat
    /\ changes \subseteq Row
    /\ snapshot \in Snapshot \cup {None}
    /\ objects \in [Blobs -> {"absent", "stored", "deleted"}]
    /\ doomed \subseteq Blobs
    /\ cursor \in [Clients -> Nat]
    /\ seen \in [Clients -> SUBSET Changes]
    /\ poll \in [Clients -> Poll]
    /\ compaction \in [Clients -> Snapshot \cup {None}]
    /\ history \subseteq Row
    /\ answers \subseteq [seq : Nat, cid : Changes]
    /\ torn \in [Clients -> SUBSET Row]

Init ==
    /\ headSeq = 0
    /\ oldestSeq = 1
    /\ keyEpoch = 1
    /\ changes = {}
    /\ snapshot = None
    /\ objects = [b \in Blobs |-> "absent"]
    /\ doomed = {}
    /\ cursor = [c \in Clients |-> 0]
    /\ seen = [c \in Clients |-> {}]
    /\ poll = [c \in Clients |-> Idle]
    /\ compaction = [c \in Clients |-> None]
    /\ history = {}
    /\ answers = {}
    /\ torn = [c \in Clients |-> {}]

-----------------------------------------------------------------------------
(* Appending.                                                              *)

\* Mutant: no unique index on the cid.
FreshAlways(n, batch) == 1..n

\* The places of a batch whose cid ON CONFLICT (space_id, cid) DO NOTHING
\* lets in: not in the table, and not earlier in the same batch.
Fresh(n, batch) ==
    {i \in 1..n : /\ \A r \in changes : r.cid # batch[i]
                  /\ \A j \in 1..(i - 1) : batch[j] # batch[i]}

\* Mutants: the epoch is not compared; numbers are counted from the head before
\* it was moved; the head moves by the rows inserted, not by the batch.
AppendAs(n, batch, epoch, first, size) ==
    /\ headSeq + n <= MaxHead
    /\ headSeq' = headSeq + size
    /\ LET rows == {[seq |-> first + i, cid |-> batch[i], epoch |-> epoch] :
                        i \in Fresh(n, batch)}
       IN  changes' = changes \cup rows /\ history' = history \cup rows
    /\ UNCHANGED <<oldestSeq, keyEpoch, snapshot, blobVars, clientVars, answers>>
AppendAnyEpoch(n, batch, epoch) == AppendAs(n, batch, epoch, headSeq, n)
AppendFromOldHead(n, batch, epoch) ==
    epoch = keyEpoch /\ AppendAs(n, batch, epoch, headSeq - n, n)
AppendCountsFresh(n, batch, epoch) ==
    epoch = keyEpoch
    /\ AppendAs(n, batch, epoch, headSeq, Cardinality(Fresh(n, batch)))

\* AppendChanges: head_seq grows by the size of the batch, duplicates
\* included; a stale epoch rolls the transaction back.  A duplicate is
\* answered with the row that is stored under its cid.
AppendChanges(n, batch, epoch) ==
    /\ headSeq + n <= MaxHead
    /\ epoch = keyEpoch
    /\ headSeq' = headSeq + n
    /\ LET rows == {[seq |-> headSeq + i, cid |-> batch[i], epoch |-> epoch] :
                        i \in Fresh(n, batch)}
       IN  /\ changes' = changes \cup rows
           /\ history' = history \cup rows
    /\ answers' = answers \cup
                    {[seq |-> r.seq, cid |-> r.cid] :
                        r \in {q \in changes' : \E i \in 1..n : batch[i] = q.cid}}
    /\ UNCHANGED <<oldestSeq, keyEpoch, snapshot, blobVars, clientVars>>

\* RotateSpaceKey, as far as the log can tell.
RotateSpaceKey ==
    /\ keyEpoch < MaxEpoch
    /\ keyEpoch' = keyEpoch + 1
    /\ UNCHANGED <<headSeq, oldestSeq, changes, snapshot, blobVars, clientVars,
                   history, answers>>

-----------------------------------------------------------------------------
(* Compacting.                                                             *)

\* A client seals its local state up to its cursor under some epoch it was
\* given; a large one is uploaded first (handleUploadSnapshotBlob).
BuildSnapshot(c, epoch, blob) ==
    /\ compaction[c] = None
    /\ blob \in Blobs => objects[blob] = "absent"
    /\ objects' = [b \in Blobs |-> IF b = blob THEN "stored" ELSE objects[b]]
    /\ compaction' = [compaction EXCEPT ![c] =
                        [upto |-> cursor[c], epoch |-> epoch, blob |-> blob,
                         content |-> seen[c], torn |-> torn[c]]]
    /\ UNCHANGED <<dbVars, doomed, cursor, seen, poll, torn, history, answers>>

\* Mutant: a snapshot behind the stored one is accepted.
AcceptableInAnyOrder(snap) == snap.epoch = keyEpoch /\ snap.upto <= headSeq

\* What PutSnapshot demands of a snapshot before it stores it.
Acceptable(snap) ==
    /\ snap.epoch = keyEpoch
    /\ snap.upto <= headSeq
    /\ snapshot # None => snap.upto > snapshot.upto

\* Mutants: the last covered row is kept; the upsert does nothing on conflict.
PostAs(c, stored, kept) ==
    /\ compaction[c] # None
    /\ Acceptable(compaction[c])
    /\ snapshot' = stored
    /\ oldestSeq' = compaction[c].upto + 1
    /\ changes' = {r \in changes : r.seq >= kept}
    /\ compaction' = [compaction EXCEPT ![c] = None]
    /\ UNCHANGED <<headSeq, keyEpoch, blobVars, cursor, seen, poll, torn, history, answers>>
PostKeepsLast(c) == PostAs(c, compaction[c], compaction[c].upto)
PostDoesNothing(c) ==
    PostAs(c, IF snapshot = None THEN compaction[c] ELSE snapshot, compaction[c].upto + 1)

\* handlePostSnapshot over PutSnapshot: replace the snapshot, move oldest_seq,
\* truncate, and start deleting the blob that was superseded.  If the client
\* does not hear the answer it will send the same commit again.
PostSnapshot(c) ==
    LET snap == compaction[c]
    IN  /\ snap # None
        /\ Acceptable(snap)
        /\ snapshot' = snap
        /\ oldestSeq' = snap.upto + 1
        /\ changes' = {r \in changes : r.seq > snap.upto}
        /\ doomed' = doomed \cup
             (IF snapshot # None THEN {snapshot.blob} \cap Blobs ELSE {})
        /\ compaction' \in {compaction, [compaction EXCEPT ![c] = None]}
        /\ UNCHANGED <<headSeq, keyEpoch, objects, cursor, seen, poll, torn,
                       history, answers>>

\* 409 snapshot_conflict, or the client gives up on a commit.
DropSnapshot(c) ==
    /\ compaction[c] # None
    /\ compaction' = [compaction EXCEPT ![c] = None]
    /\ UNCHANGED <<dbVars, blobVars, cursor, seen, poll, torn, history, answers>>

\* The goroutine of handlePostSnapshot: the deletion succeeds, or it fails and
\* is only logged (or the instance is stopped first) and the object remains.
DeleteBlob(b) ==
    /\ b \in doomed
    /\ doomed' = doomed \ {b}
    /\ objects' \in {objects, [objects EXCEPT ![b] = "deleted"]}
    /\ UNCHANGED <<dbVars, clientVars, history, answers>>

-----------------------------------------------------------------------------
(* Polling.                                                                *)

\* Mutant: a cursor one further behind still counts as covered by the log.
PollMetaLenient(c) ==
    /\ poll[c].step = "idle"
    /\ cursor[c] < headSeq
    /\ poll' = [poll EXCEPT ![c] =
                  [step |-> IF cursor[c] + 2 < oldestSeq THEN "resync" ELSE "rows",
                   head |-> headSeq, oldest |-> oldestSeq, found |-> None]]
    /\ UNCHANGED <<dbVars, blobVars, cursor, seen, compaction, torn, history, answers>>

\* Mutant: a cursor right below the retained log counts as too old.
PollMetaEager(c) ==
    /\ poll[c].step = "idle"
    /\ cursor[c] < headSeq
    /\ poll' = [poll EXCEPT ![c] =
                  [step |-> IF cursor[c] + 1 <= oldestSeq THEN "resync" ELSE "rows",
                   head |-> headSeq, oldest |-> oldestSeq, found |-> None]]
    /\ UNCHANGED <<dbVars, blobVars, cursor, seen, compaction, torn, history, answers>>

\* GetChanges, first statement.  A caller already at head is answered from it
\* and nothing changes.
PollMeta(c) ==
    /\ poll[c].step = "idle"
    /\ cursor[c] < headSeq
    /\ poll' = [poll EXCEPT ![c] =
                  [step |-> IF cursor[c] + 1 < oldestSeq THEN "resync" ELSE "rows",
                   head |-> headSeq, oldest |-> oldestSeq, found |-> None]]
    /\ UNCHANGED <<dbVars, blobVars, cursor, seen, compaction, torn, history, answers>>

\* The client merges a page and moves its cursor to nextSince.
Merge(c, page, nextSince) ==
    /\ seen' = [seen EXCEPT ![c] = @ \cup {r.cid : r \in page}]
    /\ cursor' = [cursor EXCEPT ![c] = nextSince]
    /\ torn' = [torn EXCEPT ![c] = @ \cup
                  {r \in history : /\ r.seq > cursor[c]
                                   /\ r.seq <= nextSince
                                   /\ r.seq >= poll[c].oldest
                                   /\ r.seq < oldestSeq}]
    /\ poll' = [poll EXCEPT ![c] = Idle]
    /\ UNCHANGED <<dbVars, blobVars, compaction, history, answers>>

\* GetChanges, second statement, and the rest of handleGetUpdates: the rows
\* above the cursor in order, as many as the limit the client asked for allows
\* (so up to some row), or none, and then nextSince is the head read earlier.
ReadRows(c) ==
    LET rows == {r \in changes : r.seq > cursor[c]}
    IN  /\ poll[c].step = "rows"
        /\ \/ rows = {} /\ Merge(c, {}, poll[c].head)
           \/ \E last \in rows :
                LET page == {r \in rows : r.seq <= last.seq}
                IN  /\ Cardinality(page) <= MaxChangesPerPage
                    /\ Merge(c, page, last.seq)

\* 304: the page is empty and the client holds this ETag (head and workspace
\* version) from an earlier answer.  It learns no nextSince and stays where it is.
NotModified(c) ==
    /\ poll[c].step = "rows"
    /\ \A r \in changes : r.seq <= cursor[c]
    /\ poll' = [poll EXCEPT ![c] = Idle]
    /\ UNCHANGED <<dbVars, blobVars, cursor, seen, compaction, torn, history, answers>>

\* The client replaces its local state by a snapshot and polls from nextSince.
Reload(c, snap) ==
    /\ seen' = [seen EXCEPT ![c] = snap.content]
    /\ cursor' = [cursor EXCEPT ![c] = snap.upto]
    /\ torn' = [torn EXCEPT ![c] = snap.torn]
    /\ poll' = [poll EXCEPT ![c] = Idle]

\* handleGetUpdates on NeedsResync: GetSnapshot is a statement of its own.  An
\* inline snapshot is in the answer; of one in a blob the answer has the URL.
ReadSnapshot(c) ==
    /\ poll[c].step = "resync"
    /\ snapshot # None
    /\ IF snapshot.blob \in Blobs
         THEN /\ poll' = [poll EXCEPT ![c].step = "fetch", ![c].found = snapshot]
              /\ UNCHANGED <<cursor, seen, torn>>
         ELSE Reload(c, snapshot)
    /\ UNCHANGED <<dbVars, blobVars, compaction, history, answers>>

\* The client downloads the blob it was pointed to.
FetchBlob(c) ==
    /\ poll[c].step = "fetch"
    /\ objects[poll[c].found.blob] = "stored"
    /\ Reload(c, poll[c].found)
    /\ UNCHANGED <<dbVars, blobVars, compaction, history, answers>>

\* An answer is lost, the blob is gone, or there is no snapshot to be had: the
\* client polls again from where it was.
AbandonPoll(c) ==
    /\ poll[c].step # "idle"
    /\ poll' = [poll EXCEPT ![c] = Idle]
    /\ UNCHANGED <<dbVars, blobVars, cursor, seen, compaction, torn, history, answers>>

-----------------------------------------------------------------------------

Append ==
    \E n \in 1..MaxChangesPerBatch : \E batch \in [1..n -> Changes] :
        \E epoch \in 1..keyEpoch : AppendChanges(n, batch, epoch)

Compact(c) ==
    \/ \E epoch \in 1..keyEpoch, blob \in Blobs \cup {Inline} :
           BuildSnapshot(c, epoch, blob)
    \/ PostSnapshot(c)
    \/ DropSnapshot(c)

Catchup(c) ==
    \/ PollMeta(c)
    \/ ReadRows(c)
    \/ NotModified(c)
    \/ ReadSnapshot(c)
    \/ FetchBlob(c)
    \/ AbandonPoll(c)

Next ==
    \/ Append
    \/ RotateSpaceKey
    \/ \E c \in Clients : Compact(c) \/ Catchup(c)
    \/ \E b \in Blobs : DeleteBlob(b)

Spec == Init /\ [][Next]_vars

\* A client polls for as long as the space is open, a request that is never
\* answered times out, and an answer it keeps asking for is not lost every time.
Fairness ==
    \A c \in Clients :
        /\ WF_vars(PollMeta(c))
        /\ WF_vars(AbandonPoll(c))
        /\ SF_vars(ReadRows(c) \/ NotModified(c))
        /\ SF_vars(ReadSnapshot(c))
        /\ SF_vars(FetchBlob(c))

FairSpec == Spec /\ Fairness

-----------------------------------------------------------------------------
(* Safety.                                                                 *)

\* A local state that claims to be complete up to `upto` is, except for rows
\* that a torn poll passed over.
Complete(content, upto, missing) ==
    \A r \in history : r.seq <= upto => r.cid \in content \/ r \in missing

\* Truncation removes what the snapshot claims to cover and nothing else, and
\* no row is stored beyond head or under a number already used: the retained
\* log is exactly the part of the history from oldest_seq on.
LogIsSuffix ==
    /\ changes = {r \in history : r.seq >= oldestSeq}
    /\ \A r \in history : 1 <= r.seq /\ r.seq <= headSeq
    /\ \A r, q \in history : r.seq = q.seq => r = q

\* Retried batches: a cid is answered with a second sequence number only when
\* the row of the first has been compacted away, and every number answered is
\* that of a row stored for this cid.
AnswersAgree ==
    /\ \A a \in answers : \E r \in history : r.seq = a.seq /\ r.cid = a.cid
    /\ \A a, b \in answers : (a.cid = b.cid /\ a.seq < b.seq) => a.seq < oldestSeq

\* The fence of a rotation (409 stale_epoch): once a change has been accepted
\* under an epoch, none sealed under an older one is ever placed after it.
EpochFence ==
    \A r, q \in history : r.seq < q.seq => r.epoch <= q.epoch

\* Paging, gaps left by duplicates, and resyncing: a client whose cursor has
\* passed a row holds its change, unless the row was deleted by a compaction
\* that committed between the two statements of one of its polls (or of a poll
\* of the client whose snapshot it loaded).
SkipsOnlyTornRows ==
    \A c \in Clients : Complete(seen[c], cursor[c], torn[c])

\* A row leaves the table only once the stored snapshot covers it: whoever is
\* told to resync finds below oldest_seq everything that was ever accepted.
FloorCovered ==
    IF snapshot = None
      THEN oldestSeq = 1
      ELSE /\ oldestSeq = snapshot.upto + 1
           /\ snapshot.upto <= headSeq
           /\ Complete(snapshot.content, snapshot.upto, snapshot.torn)

\* The snapshot row never points at an object that is deleted or about to be.
SnapshotReadable ==
    (snapshot # None /\ snapshot.blob \in Blobs) =>
        objects[snapshot.blob] = "stored" /\ snapshot.blob \notin doomed

\* A client is never sent back: not by a page, not by a jump over a gap, not
\* by a snapshot.  The log itself neither shrinks at its head nor regrows.
NeverBackwards ==
    [][/\ \A c \in Clients : cursor'[c] >= cursor[c]
       /\ headSeq' >= headSeq /\ oldestSeq' >= oldestSeq]_vars

-----------------------------------------------------------------------------
(* The inductive invariant behind the safety properties.                   *)

\* Whatever a client or the server remembers of the numbering is in its past.
Bounded ==
    /\ 1 <= oldestSeq /\ oldestSeq <= headSeq + 1
    /\ \A c \in Clients :
        /\ cursor[c] <= headSeq
        /\ poll[c].head <= headSeq
        /\ poll[c].oldest <= oldestSeq
        /\ poll[c].found # None => poll[c].found.upto <= headSeq
        /\ compaction[c] # None => compaction[c].upto <= headSeq

\* A poll in progress: why its cursor may advance.
PollSound ==
    \A c \in Clients :
        /\ poll[c].step = "rows" => poll[c].oldest <= cursor[c] + 1
                                    /\ cursor[c] <= poll[c].head
        /\ poll[c].step = "resync" => cursor[c] + 1 < oldestSeq
        /\ poll[c].step = "fetch" => cursor[c] <= poll[c].found.upto

\* Local states that travel: in a commit, and in a descriptor of a blob.
CopiesComplete ==
    \A c \in Clients : \A snap \in {compaction[c], poll[c].found} :
        snap # None => Complete(snap.content, snap.upto, snap.torn)

\* A cid has one row, and a row no epoch from the future.
RowsSound ==
    /\ \A r, q \in changes : r.cid = q.cid => r = q
    /\ \A r \in history : r.epoch <= keyEpoch

\* The blob of a commit still pending is safe and nobody else's, unless the
\* commit can no longer be accepted.
CommitsSound ==
    \A c \in Clients :
        (compaction[c] # None /\ compaction[c].blob \in Blobs) =>
            \/ snapshot # None /\ compaction[c].upto <= snapshot.upto
            \/ /\ objects[compaction[c].blob] = "stored"
               /\ compaction[c].blob \notin doomed
               /\ snapshot # None => compaction[c].blob # snapshot.blob
               /\ \A d \in Clients \ {c} :
                    compaction[d] # None => compaction[c].blob # compaction[d].blob

\* A path that is being deleted or is named in a commit has been used, so no
\* later upload is given it.
PathsUsed ==
    /\ \A b \in doomed : objects[b] # "absent"
    /\ \A c \in Clients :
        (compaction[c] # None /\ compaction[c].blob \in Blobs) =>
            objects[compaction[c].blob] # "absent"

IInv ==
    /\ TypeOK
    /\ Bounded
    /\ LogIsSuffix
    /\ RowsSound
    /\ AnswersAgree
    /\ EpochFence
    /\ PollSound
    /\ CopiesComplete
    /\ SkipsOnlyTornRows
    /\ FloorCovered
    /\ SnapshotReadable
    /\ CommitsSound
    /\ PathsUsed

-----------------------------------------------------------------------------
(* Liveness and refinement.                                                *)

\* A polling client gets past every change ever accepted, whatever is compacted
\* or deleted under it meanwhile.  (A number that only a duplicate was given may
\* stay ahead of it: see NotModified.)
CaughtUp ==
    \A c \in Clients : \A s \in 1..MaxHead :
        (\E r \in history : r.seq = s) ~> (cursor[c] >= s)

\* To the devices the log is an ordered feed.
Feed == INSTANCE ChangeFeed WITH
            top <- headSeq, floor <- oldestSeq,
            entries <- {[seq |-> r.seq, cid |-> r.cid] : r \in changes}

FeedSpec == Feed!Spec

-----------------------------------------------------------------------------
(* What a comment of the repository says of the log, and the code does not *)
(* keep.                                                                   *)

\* store/sync.go:139: GetChanges returns the changes after the cursor "or
\* signals that the cursor predates compaction".
NothingSkipped == \A c \in Clients : Complete(seen[c], cursor[c], {})
=============================================================================
