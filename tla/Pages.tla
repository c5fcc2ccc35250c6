------------------------------- MODULE Pages -------------------------------
(***************************************************************************)
(* Pages: rows that name objects in the blob store.  A published page      *)
(* (pkg/store/publish.go, pkg/httpapi/publish.go) has an HTML and a block  *)
(* object, an attachment (pkg/store/attachments.go, pkg/httpapi/           *)
(* attachments.go) has one.  The objects are put first, the row is written *)
(* next, what it named before is deleted last, in the background; each of  *)
(* the three can fail, and the process may end before the last.            *)
(*                                                                         *)
(* Assets are uploaded ahead of a page, which then lists whichever URLs    *)
(* its client likes: new ones, ones it has used before, ones of other      *)
(* pages.  One author and one space; slugs, sizes and grants are taken as  *)
(* valid, and the status of a page is left out.                            *)
(***************************************************************************)
EXTENDS Integers, FiniteSets

CONSTANTS
    Workers,     \* requests in progress at a time
    Slugs,       \* pages
    Files,       \* attachments
    Versions,    \* bound: random paths
    Elsewhere,   \* URLs of the store's host that publishing never handed out
    MaxAssets,   \* maxAssetsPerPage
    MaxPages,    \* maxPublishedPages
    MaxJobs,     \* bound: requests ever begun
    None         \* no row, no name

ASSUME PagesAssumption ==
    /\ MaxJobs \in Nat
    /\ MaxAssets \in Nat
    /\ MaxPages \in Nat \ {0}
    /\ IsFiniteSet(Workers)
    /\ Slugs \cap Files = {}

VARIABLES
    rows,       \* publishes and attachments: what each row names, None without a row
    blobs,      \* the objects in the store
    uploads,    \* the assets that were uploaded, whose URLs clients have
    job,        \* what each request is at
    jobs,       \* requests begun so far
    everNamed,  \* history: what rows have named
    strays      \* history: what a row came to list that was not an unused upload

pageVars == <<rows, blobs, uploads, job, jobs, everNamed, strays>>

Names == Slugs \cup Files

Objects == (Versions \X {"html", "blocks", "asset", "file"}) \cup (Elsewhere \X {"other"})

\* own was put for the row, listed are the URLs in assetUrls.
Row == [own : SUBSET Objects, listed : SUBSET Objects]

\* stale is what is to be deleted when the row has been written.
Job == [pc : {"idle", "put", "previous", "upsert", "sweep"}, name : Names \cup {None},
        own : SUBSET Objects, listed : SUBSET Objects, stale : SUBSET Objects]

NoJob == [pc |-> "idle", name |-> None, own |-> {}, listed |-> {}, stale |-> {}]

PagesTypeOK ==
    /\ rows \in [Names -> Row \cup {None}]
    /\ blobs \subseteq Objects
    /\ uploads \subseteq Objects
    /\ job \in [Workers -> Job]
    /\ jobs \in 0..MaxJobs
    /\ everNamed \subseteq Objects
    /\ strays \subseteq Objects

Init ==
    /\ rows = [n \in Names |-> None]
    /\ blobs = {}
    /\ uploads = {}
    /\ job = [w \in Workers |-> NoJob]
    /\ jobs = 0
    /\ everNamed = {}
    /\ strays = {}

-----------------------------------------------------------------------------

Own(n) == IF rows[n] = None THEN {} ELSE rows[n].own
Listed(n) == IF rows[n] = None THEN {} ELSE rows[n].listed
Named(n) == Own(n) \cup Listed(n)

Published == {s \in Slugs : rows[s] # None}

Parts(n) == IF n \in Slugs THEN {"html", "blocks"} ELSE {"file"}

Known == blobs \cup uploads \cup everNamed
               \cup UNION {job[w].own \cup job[w].stale : w \in Workers}

\* A random path is one that nothing knows of.
Fresh == {v \in Versions : \A o \in Known : o[1] # v}
Random == CHOOSE v \in Fresh : TRUE

\* isOwnBlobURL looks at the host only: any URL a client has been told of will do,
\* whatever became of the object since.  Those of attachments never reach a client.
Listable == uploads \cup {o \in everNamed : o[2] # "file"} \cup (Elsewhere \X {"other"})

To(w, j) ==
    /\ job' = [job EXCEPT ![w] = j]
    /\ UNCHANGED jobs

\* A request arrives.
Starts(w, j) ==
    /\ job[w].pc = "idle"
    /\ jobs < MaxJobs
    /\ jobs' = jobs + 1
    /\ job' = [job EXCEPT ![w] = j]

Sweeping(n, objects) == [NoJob EXCEPT !.pc = "sweep", !.name = n, !.stale = objects]

-----------------------------------------------------------------------------
(* Writing.                                                                *)

\* Mutant: the limit itself is let through.
AllowedOne(s) == s \in Published \/ Cardinality(Published) <= MaxPages

\* The quota: a page that is new needs room.
Allowed(s) == s \in Published \/ Cardinality(Published) < MaxPages

\* handlePublishAsset.
UploadAsset ==
    /\ jobs < MaxJobs
    /\ Fresh # {}
    /\ jobs' = jobs + 1
    /\ blobs' = blobs \cup {<<Random, "asset">>}
    /\ uploads' = uploads \cup {<<Random, "asset">>}
    /\ UNCHANGED <<rows, job, everNamed, strays>>

Begin(w, n, listed) ==
    /\ Starts(w, [NoJob EXCEPT !.pc = "put", !.name = n, !.listed = listed])
    /\ UNCHANGED <<rows, blobs, uploads, everNamed, strays>>

\* handlePublish, as far as the quota.
Publish(w, s, listed) ==
    /\ Cardinality(listed) <= MaxAssets
    /\ Allowed(s)
    /\ Begin(w, s, listed)

\* handleUploadAttachmentBlob, as far as the grant.
UploadAttachment(w, f) == Begin(w, f, {})

\* blob.Put of every part.
PutObjects(w) ==
    /\ job[w].pc = "put"
    /\ Fresh # {}
    /\ LET own == {<<Random, p>> : p \in Parts(job[w].name)} IN
         /\ blobs' = blobs \cup own
         /\ To(w, [job[w] EXCEPT !.pc = "previous", !.own = own])
    /\ UNCHANGED <<rows, uploads, everNamed, strays>>

\* The first Put fails, or that of the blocks: the page is deleted in the background.
PutFails(w) ==
    /\ job[w].pc = "put"
    /\ \/ /\ To(w, NoJob)
          /\ UNCHANGED blobs
       \/ /\ job[w].name \in Slugs
          /\ Fresh # {}
          /\ blobs' = blobs \cup {<<Random, "html">>}
          /\ To(w, Sweeping(job[w].name, {<<Random, "html">>}))
    /\ UNCHANGED <<rows, uploads, everNamed, strays>>

\* Mutant: the assets that are kept go with the others.
StaleAll(w) == Named(job[w].name)

\* What the row names and its next version does not.
Stale(w) == Own(job[w].name) \cup (Listed(job[w].name) \ job[w].listed)

\* UpsertPublish and CommitAttachment read what the row names; the first goes on
\* when that fails, and then deletes nothing.
ReadPrevious(w) ==
    /\ job[w].pc = "previous"
    /\ \/ To(w, [job[w] EXCEPT !.pc = "upsert", !.stale = Stale(w)])
       \/ job[w].name \in Slugs /\ To(w, [job[w] EXCEPT !.pc = "upsert"])
    /\ UNCHANGED <<rows, blobs, uploads, everNamed, strays>>

Upsert(w) ==
    /\ job[w].pc = "upsert"
    /\ rows' = [rows EXCEPT ![job[w].name] = [own |-> job[w].own, listed |-> job[w].listed]]
    /\ everNamed' = everNamed \cup job[w].own \cup job[w].listed
    /\ strays' = strays \cup (job[w].listed \ (Listed(job[w].name) \cup (uploads \ everNamed)))
    /\ To(w, Sweeping(job[w].name, job[w].stale))
    /\ UNCHANGED <<blobs, uploads>>

\* The upsert fails: what was put is left behind.
UpsertFails(w) ==
    /\ job[w].pc \in {"previous", "upsert"}
    /\ To(w, NoJob)
    /\ UNCHANGED <<rows, blobs, uploads, everNamed, strays>>

-----------------------------------------------------------------------------
(* Deleting.                                                               *)

\* The row goes in one statement, which answers what it named.
DeleteRow(w, n) ==
    /\ rows[n] # None
    /\ rows' = [rows EXCEPT ![n] = None]
    /\ Starts(w, Sweeping(n, Named(n)))
    /\ UNCHANGED <<blobs, uploads, everNamed, strays>>

\* handleUnpublish and handleDeleteAttachment.
Unpublish(w, s) == DeleteRow(w, s)
DeleteAttachment(w, f) == DeleteRow(w, f)

\* blob.Delete; or it fails, or the process ends first.
Sweep(w) ==
    /\ job[w].pc = "sweep"
    /\ blobs' \in {blobs, blobs \ job[w].stale}
    /\ To(w, NoJob)
    /\ UNCHANGED <<rows, uploads, everNamed, strays>>

Next ==
    \/ UploadAsset
    \/ \E w \in Workers :
         \/ \E s \in Slugs : \E listed \in SUBSET Listable : Publish(w, s, listed)
         \/ \E s \in Slugs : Unpublish(w, s)
         \/ \E f \in Files : UploadAttachment(w, f) \/ DeleteAttachment(w, f)
         \/ PutObjects(w) \/ PutFails(w)
         \/ ReadPrevious(w) \/ Upsert(w) \/ UpsertFails(w)
         \/ Sweep(w)

Spec == Init /\ [][Next]_pageVars

-----------------------------------------------------------------------------
(* Properties.                                                             *)

\* A row never points at bytes that do not exist (httpapi/attachments.go:116):
\* whichever uploads, republishes, deletions and sweeps overlap, and whichever of
\* them fail, the objects a row names are in the store: the HTML, the blocks and the
\* file of every row, the assets a page was the first to list, and those it goes on
\* listing.  The exception is an object that a page began to list when it was no
\* unused upload: a row had named it before (an earlier version, a page that was
\* taken down or another page, whose sweep may take it), or it never was an upload.
RowsServed ==
    \A n \in Names : \A o \in Named(n) : o \in blobs \/ o \in strays

\* The quota is checked before the objects are put, so requests that were let
\* through together may each add a page, and no more than that.
QuotaBounded == Cardinality(Published) <= MaxPages + Cardinality(Workers) - 1
=============================================================================
