---------------------------- MODULE PagesProofs ----------------------------
(***************************************************************************)
(* That Pages never leaves a row pointing at nothing but what it listed    *)
(* second hand, for any number of requests, pages, attachments, assets and *)
(* versions.  The invariant says who may know of an object: one that was   *)
(* put for a row not yet written is known to its request only, an upload   *)
(* no row has named is stored, and what two rows name, or a row and a      *)
(* request that will sweep it, was listed second hand.                     *)
(***************************************************************************)
EXTENDS Pages, FiniteSetTheorems, TLAPS

OwnKinds == {"html", "blocks", "file"}

\* A request lists what clients know of, sweeps what rows have named (or the HTML of
\* a put that failed), and does not sweep the assets it lists.
JobSound(j) ==
    /\ j.pc # "idle" => j.name \in Names
    /\ \A o \in j.own : o[2] \in OwnKinds
    /\ j.listed \subseteq Listable
    /\ \A o \in j.stale : o \in everNamed \/ o[2] = "html"
    /\ \A o \in j.stale \cap j.listed : o[2] # "asset"
    /\ j.pc \in {"idle", "sweep"} => j.own = {} /\ j.listed = {}
    /\ j.pc = "idle" => j.stale = {}
    /\ j.pc = "put" => j.own = {}
    /\ j.pc \in {"put", "previous"} => j.stale = {}

JobsSound == \A w \in Workers : JobSound(job[w])

RowSound(n) ==
    /\ Named(n) \subseteq everNamed
    /\ \A o \in Own(n) : o[2] \in OwnKinds
    /\ \A o \in Listed(n) : o[2] # "asset" => o \in strays

RowsSound == \A n \in Names : RowSound(n)

\* An upload that no row has named yet is stored.
UnusedStored ==
    /\ uploads \ everNamed \subseteq blobs
    /\ \A o \in uploads : o[2] = "asset"

\* What was put for a row is stored, and nobody else knows of it.
NewIsNew ==
    \A w \in Workers :
        /\ job[w].own \subseteq blobs
        /\ job[w].own \cap everNamed = {}
        /\ \A v \in Workers : job[w].own \cap job[v].stale = {}
        /\ \A v \in Workers \ {w} : job[w].own \cap job[v].own = {}

\* Whether j will sweep what the row of n names: not before it has written its own.
Sweeps(j, n) == j.pc = "sweep" \/ (j.pc = "upsert" /\ n # j.name)

\* What is swept is named by no row, but second hand.
SweptStray ==
    \A w \in Workers : \A n \in Names :
        Sweeps(job[w], n) => Named(n) \cap job[w].stale \subseteq strays

\* What two rows name was listed second hand.
SharedStray == \A n \in Names : \A m \in Names \ {n} : Named(m) \cap Named(n) \subseteq strays

IInv ==
    /\ PagesTypeOK
    /\ JobsSound
    /\ RowsSound
    /\ UnusedStored
    /\ NewIsNew
    /\ SweptStray
    /\ SharedStray
    /\ RowsServed

LEMMA InitHolds == Init => IInv
<1> SUFFICES ASSUME Init PROVE IInv
  OBVIOUS
<1>1. NoJob \in Job /\ \A w \in Workers : job[w] = NoJob
  BY DEF Init, NoJob, Job
<1>2. /\ NoJob.pc = "idle" /\ NoJob.name = None
      /\ NoJob.own = {} /\ NoJob.listed = {} /\ NoJob.stale = {}
  BY DEF NoJob
<1>3. \A n \in Names : Own(n) = {} /\ Listed(n) = {} /\ Named(n) = {}
  BY DEF Init, Own, Listed, Named
<1>4. PagesTypeOK
  <2>1. job \in [Workers -> Job]
    BY <1>1 DEF Init
  <2>2. rows \in [Names -> Row \cup {None}]
    BY DEF Init
  <2> QED
    BY <2>1, <2>2, PagesAssumption DEF Init, PagesTypeOK
<1>5. JobsSound /\ SweptStray /\ NewIsNew
  BY <1>1, <1>2 DEF JobsSound, JobSound, SweptStray, Sweeps, NewIsNew
<1>6. RowsSound /\ SharedStray /\ RowsServed
  BY <1>3 DEF RowsSound, RowSound, SharedStray, RowsServed
<1>7. UnusedStored
  BY DEF Init, UnusedStored
<1> QED
  BY <1>4, <1>5, <1>6, <1>7 DEF IInv

(* What a fresh path is.                                                   *)
LEMMA FreshUnknown ==
    ASSUME Fresh # {}, NEW p
    PROVE  /\ Random \in Versions
           /\ <<Random, p>> \notin Known
<1>1. Random \in Fresh
  BY DEF Random
<1>2. PICK v \in Versions : v = Random /\ \A o \in Known : o[1] # v
  BY <1>1 DEF Fresh
<1> DEFINE o == <<v, p>>
<1>3. o[1] = v
  OBVIOUS
<1> QED
  BY <1>2, <1>3

(* What is known of: what rows and requests have, the store and clients.   *)
LEMMA KnownIs ==
    ASSUME NEW o, o \notin Known
    PROVE  /\ o \notin blobs /\ o \notin uploads /\ o \notin everNamed
           /\ \A w \in Workers : o \notin job[w].own /\ o \notin job[w].stale
<1> DEFINE OfJobs == {job[w].own \cup job[w].stale : w \in Workers}
<1>1. ASSUME NEW w \in Workers PROVE o \notin job[w].own \cup job[w].stale
  <2>1. job[w].own \cup job[w].stale \in OfJobs
    OBVIOUS
  <2>2. o \notin UNION OfJobs
    BY DEF Known
  <2> QED
    BY <2>1, <2>2
<1> QED
  BY <1>1 DEF Known

(* The fields of a request.                                                *)
LEMMA JobFields ==
    ASSUME NEW j \in Job
    PROVE  /\ j.name \in Names \cup {None}
           /\ j.pc \in {"idle", "put", "previous", "upsert", "sweep"}
           /\ j.own \subseteq Objects /\ j.listed \subseteq Objects /\ j.stale \subseteq Objects
BY DEF Job

LEMMA JobAt ==
    ASSUME IInv, NEW w \in Workers
    PROVE  /\ job[w] \in Job
           /\ JobSound(job[w])
BY DEF IInv, PagesTypeOK, JobsSound

LEMMA Moves ==
    ASSUME IInv, NEW w \in Workers, NEW j \in Job, job' = [job EXCEPT ![w] = j]
    PROVE  /\ job'[w] = j
           /\ \A v \in Workers \ {w} : job'[v] = job[v]
           /\ job' \in [Workers -> Job]
BY DEF IInv, PagesTypeOK

(* What a row names is typed.                                              *)
LEMMA RowAt ==
    ASSUME IInv, NEW n \in Names
    PROVE  /\ Own(n) \subseteq Objects /\ Listed(n) \subseteq Objects
           /\ Named(n) \subseteq Objects
           /\ RowSound(n)
<1>1. rows[n] \in Row \cup {None}
  BY DEF IInv, PagesTypeOK
<1> QED
  BY <1>1 DEF Row, Own, Listed, Named, IInv, RowsSound

(* What clients know of was uploaded or named, or is elsewhere.            *)
LEMMA ListableIs ==
    ASSUME NEW o \in Listable
    PROVE  o \in uploads \/ o \in everNamed \/ o[2] = "other"
BY DEF Listable

-----------------------------------------------------------------------------
(* Steps that leave the rows alone: what has to be seen to of the request  *)
(* j that w becomes.                                                       *)
LEMMA Frame ==
    ASSUME IInv, NEW w \in Workers, NEW j \in Job, JobSound(j),
           job' = [job EXCEPT ![w] = j],
           UNCHANGED <<rows, uploads, everNamed, strays>>,
           jobs' \in 0..MaxJobs, blobs' \subseteq Objects,
           uploads \ everNamed \subseteq blobs',
           j.own \subseteq blobs', j.own \cap everNamed = {}, j.own \cap j.stale = {},
           \A v \in Workers \ {w} :
               /\ j.own \cap (job[v].own \cup job[v].stale) = {}
               /\ job[v].own \subseteq blobs'
               /\ job[v].own \cap j.stale = {},
           \A n \in Names : Sweeps(j, n) => Named(n) \cap j.stale \subseteq strays,
           \A n \in Names : \A o \in Named(n) : o \in blobs' \/ o \in strays
    PROVE  IInv'
<1>1. /\ job'[w] = j
      /\ \A v \in Workers \ {w} : job'[v] = job[v]
      /\ job' \in [Workers -> Job]
  BY Moves
<1>2. \A n : Own(n)' = Own(n) /\ Listed(n)' = Listed(n) /\ Named(n)' = Named(n)
  BY DEF Own, Listed, Named
<1>3. PagesTypeOK'
  BY <1>1 DEF IInv, PagesTypeOK
<1>4. JobsSound'
  <2>1. Listable' = Listable
    BY DEF Listable
  <2> QED
    BY <1>1, <2>1 DEF IInv, JobsSound, JobSound
<1>5. RowsSound'
  BY <1>2 DEF IInv, RowsSound, RowSound
<1>6. UnusedStored'
  BY DEF IInv, UnusedStored
<1>7. NewIsNew'
  BY <1>1 DEF IInv, NewIsNew
<1>8. SweptStray'
  <2>1. \A k, n : Sweeps(k, n)' <=> Sweeps(k, n)
    BY DEF Sweeps
  <2> QED
    BY <1>1, <1>2 DEF IInv, SweptStray, Sweeps
<1>9. SharedStray'
  BY <1>2 DEF IInv, SharedStray
<1>10. RowsServed'
  BY <1>2 DEF RowsServed
<1> QED
  BY <1>3, <1>4, <1>5, <1>6, <1>7, <1>8, <1>9, <1>10 DEF IInv

-----------------------------------------------------------------------------
(* Requests that end, and those that begin to write.                       *)

(* What holds of the other requests whatever w does to itself, as long as  *)
(* no object leaves the store but those that w sweeps.                     *)
LEMMA Others ==
    ASSUME IInv, NEW w \in Workers, NEW v \in Workers \ {w}
    PROVE  /\ job[v].own \subseteq blobs
           /\ job[v].own \cap (job[w].own \cup job[w].stale) = {}
           /\ job[w].own \cap (job[v].own \cup job[v].stale) = {}
           /\ job[v].own \cap everNamed = {}
BY DEF IInv, NewIsNew

LEMMA NothingLeft ==
    /\ NoJob \in Job /\ JobSound(NoJob)
    /\ NoJob.pc = "idle" /\ NoJob.name = None
    /\ NoJob.own = {} /\ NoJob.listed = {} /\ NoJob.stale = {}
BY DEF NoJob, Job, JobSound

LEMMA EndsHolds ==
    ASSUME IInv, NEW w \in Workers, To(w, NoJob),
           UNCHANGED <<rows, uploads, everNamed, strays>>,
           \/ blobs' = blobs
           \/ job[w].pc = "sweep" /\ blobs' = blobs \ job[w].stale
    PROVE  IInv'
<1>1. job' = [job EXCEPT ![w] = NoJob] /\ jobs' = jobs
  BY DEF To
<1>2. blobs' \subseteq Objects /\ jobs' \in 0..MaxJobs
  BY <1>1 DEF IInv, PagesTypeOK
<1>3. \A v \in Workers \ {w} : job[v].own \subseteq blobs'
  BY Others
<1>4. \A n \in Names : \A o \in Named(n) : o \in blobs' \/ o \in strays
  BY DEF IInv, RowsServed, SweptStray, Sweeps
<1>5. uploads \ everNamed \subseteq blobs'
  <2>1. \A o \in job[w].stale : o \in everNamed \/ o \notin uploads
    BY JobAt DEF IInv, JobSound, UnusedStored
  <2> QED
    BY <2>1 DEF IInv, UnusedStored
<1> HIDE DEF NoJob
<1> QED
  BY <1>1, <1>2, <1>3, <1>4, <1>5, NothingLeft, Frame

(* A client is told of one URL more.                                       *)
LEMMA UploadHolds ==
    ASSUME IInv, UploadAsset
    PROVE  IInv'
<1> DEFINE o == <<Random, "asset">>
<1>1. /\ Fresh # {} /\ jobs < MaxJobs /\ jobs' = jobs + 1
      /\ blobs' = blobs \cup {o} /\ uploads' = uploads \cup {o}
      /\ rows' = rows /\ job' = job /\ everNamed' = everNamed /\ strays' = strays
  BY DEF UploadAsset
<1>2. o \in Objects /\ o[2] = "asset"
  BY <1>1, FreshUnknown DEF Objects
<1> HIDE DEF o
<1>3. \A n : Own(n)' = Own(n) /\ Listed(n)' = Listed(n) /\ Named(n)' = Named(n)
  BY <1>1 DEF Own, Listed, Named
<1>4. PagesTypeOK'
  BY <1>1, <1>2, PagesAssumption DEF IInv, PagesTypeOK
<1>5. JobsSound'
  <2>1. Listable \subseteq Listable'
    BY <1>1 DEF Listable
  <2> QED
    BY <1>1, <2>1 DEF IInv, JobsSound, JobSound
<1>6. RowsSound' /\ SharedStray' /\ RowsServed'
  BY <1>1, <1>3 DEF IInv, RowsSound, RowSound, SharedStray, RowsServed
<1>7. UnusedStored'
  BY <1>1, <1>2 DEF IInv, UnusedStored
<1>8. NewIsNew'
  BY <1>1 DEF IInv, NewIsNew
<1>9. SweptStray'
  BY <1>1, <1>3 DEF IInv, SweptStray, Sweeps
<1> QED
  BY <1>4, <1>5, <1>6, <1>7, <1>8, <1>9 DEF IInv

LEMMA BeginHolds ==
    ASSUME IInv, NEW w \in Workers, NEW n \in Names, NEW listed \in SUBSET Listable,
           Begin(w, n, listed)
    PROVE  IInv'
<1> DEFINE j == [NoJob EXCEPT !.pc = "put", !.name = n, !.listed = listed]
<1>1. listed \subseteq Objects
  BY DEF Listable, Objects, IInv, PagesTypeOK
<1>2. /\ j.pc = "put" /\ j.name = n /\ j.own = {} /\ j.listed = listed /\ j.stale = {}
      /\ j \in Job
  BY <1>1 DEF NoJob, Job
<1>3. Starts(w, j) /\ UNCHANGED <<rows, blobs, uploads, everNamed, strays>>
  BY DEF Begin
<1> HIDE DEF j
<1>4. JobSound(j) /\ \A m : ~Sweeps(j, m)
  BY <1>2 DEF JobSound, Sweeps
<1>5. /\ job' = [job EXCEPT ![w] = j] /\ jobs' \in 0..MaxJobs
      /\ blobs' \subseteq Objects /\ uploads \ everNamed \subseteq blobs'
  BY <1>3, PagesAssumption DEF Starts, IInv, PagesTypeOK, UnusedStored
<1>6. \A v \in Workers \ {w} : job[v].own \subseteq blobs'
  BY <1>3, Others
<1>7. \A m \in Names : \A o \in Named(m) : o \in blobs' \/ o \in strays
  BY <1>3 DEF IInv, RowsServed
<1> QED
  BY <1>2, <1>3, <1>4, <1>5, <1>6, <1>7, Frame

(* What is put is new.                                                     *)
LEMMA PutObjectsHolds ==
    ASSUME IInv, NEW w \in Workers, PutObjects(w)
    PROVE  IInv'
<1> DEFINE put == {<<Random, p>> : p \in Parts(job[w].name)}
           j == [job[w] EXCEPT !.pc = "previous", !.own = put]
<1>1. /\ job[w] \in Job /\ JobSound(job[w]) /\ job[w].pc = "put" /\ job[w].name \in Names
      /\ job[w].own = {} /\ job[w].stale = {} /\ job[w].listed \subseteq Objects
  BY JobAt, JobFields DEF PutObjects, JobSound
<1>2. /\ Fresh # {} /\ blobs' = blobs \cup put
      /\ job' = [job EXCEPT ![w] = j] /\ jobs' = jobs
      /\ UNCHANGED <<rows, uploads, everNamed, strays>>
  BY DEF PutObjects, To
<1>3. \A o \in put : o \in Objects /\ o[2] \in OwnKinds /\ o \notin Known
  <2> SUFFICES ASSUME NEW p \in Parts(job[w].name)
               PROVE  LET o == <<Random, p>>
                      IN  o \in Objects /\ o[2] \in OwnKinds /\ o \notin Known
    OBVIOUS
  <2>1. p \in OwnKinds
    BY DEF Parts, OwnKinds
  <2> QED
    BY <1>2, <2>1, FreshUnknown DEF Objects, OwnKinds
<1> HIDE DEF put
<1>4. /\ j.pc = "previous" /\ j.name = job[w].name /\ j.own = put
      /\ j.listed = job[w].listed /\ j.stale = {} /\ j \in Job
  BY <1>1, <1>3 DEF Job
<1> HIDE DEF j
<1>5. JobSound(j) /\ \A m : ~Sweeps(j, m)
  BY <1>1, <1>3, <1>4 DEF JobSound, Sweeps
<1>6. /\ blobs' \subseteq Objects /\ jobs' \in 0..MaxJobs /\ uploads \ everNamed \subseteq blobs'
      /\ \A m \in Names : \A o \in Named(m) : o \in blobs' \/ o \in strays
  BY <1>2, <1>3 DEF IInv, PagesTypeOK, RowsServed, UnusedStored
<1>7. /\ put \cap everNamed = {}
      /\ \A v \in Workers : put \cap (job[v].own \cup job[v].stale) = {}
  BY <1>3, KnownIs
<1>8. \A v \in Workers \ {w} : job[v].own \subseteq blobs'
  BY <1>2, Others
<1> QED
  BY <1>2, <1>4, <1>5, <1>6, <1>7, <1>8, Frame

LEMMA PutFailsHolds ==
    ASSUME IInv, NEW w \in Workers, PutFails(w)
    PROVE  IInv'
<1>1. CASE To(w, NoJob) /\ UNCHANGED blobs
  BY <1>1, EndsHolds DEF PutFails
<1>2. CASE ~(To(w, NoJob) /\ UNCHANGED blobs)
  <2> DEFINE o == <<Random, "html">>
             j == Sweeping(job[w].name, {o})
  <2>1. /\ job[w] \in Job /\ JobSound(job[w]) /\ job[w].pc = "put" /\ job[w].name \in Names
    BY JobAt, JobFields DEF PutFails, JobSound
  <2>2. /\ Fresh # {} /\ blobs' = blobs \cup {o}
        /\ job' = [job EXCEPT ![w] = j] /\ jobs' = jobs
        /\ UNCHANGED <<rows, uploads, everNamed, strays>>
    BY <1>2 DEF PutFails, To
  <2>3. o \in Objects /\ o[2] = "html" /\ o \notin Known
    BY <2>1, <2>2, FreshUnknown DEF Objects
  <2> HIDE DEF o
  <2>4. /\ j.pc = "sweep" /\ j.name = job[w].name /\ j.own = {} /\ j.listed = {}
        /\ j.stale = {o} /\ j \in Job
    BY <2>1, <2>3 DEF Sweeping, NoJob, Job
  <2> HIDE DEF j
  <2>5. JobSound(j)
    BY <2>1, <2>3, <2>4 DEF JobSound
  <2>6. /\ blobs' \subseteq Objects /\ jobs' \in 0..MaxJobs
        /\ uploads \ everNamed \subseteq blobs'
        /\ \A m \in Names : \A x \in Named(m) : x \in blobs' \/ x \in strays
    BY <2>2, <2>3 DEF IInv, PagesTypeOK, RowsServed, UnusedStored
  <2>7. /\ \A m \in Names : o \notin Named(m)
        /\ \A v \in Workers : o \notin job[v].own
    BY <2>3, KnownIs, RowAt DEF RowSound
  <2>8. /\ j.own \subseteq blobs' /\ j.own \cap everNamed = {} /\ j.own \cap j.stale = {}
        /\ \A v \in Workers \ {w} :
             /\ j.own \cap (job[v].own \cup job[v].stale) = {}
             /\ job[v].own \subseteq blobs'
             /\ job[v].own \cap j.stale = {}
    BY <2>2, <2>4, <2>7, Others
  <2>9. \A m \in Names : Sweeps(j, m) => Named(m) \cap j.stale \subseteq strays
    BY <2>4, <2>7
  <2> QED
    BY <2>2, <2>4, <2>5, <2>6, <2>8, <2>9, Frame
<1> QED
  BY <1>1, <1>2

(* What the row names now is nothing that was put for a row to come, and   *)
(* if another row names it too, it does so second hand.                    *)
LEMMA ReadPreviousHolds ==
    ASSUME IInv, NEW w \in Workers, ReadPrevious(w)
    PROVE  IInv'
<1>1. PICK stale \in {{}, Stale(w)} :
        /\ job' = [job EXCEPT ![w] = [job[w] EXCEPT !.pc = "upsert", !.stale = stale]]
        /\ jobs' = jobs
  <2>1. job[w] \in Job /\ job[w].stale = {}
    BY JobAt DEF ReadPrevious, JobSound
  <2>2. [job[w] EXCEPT !.pc = "upsert"] = [job[w] EXCEPT !.pc = "upsert", !.stale = {}]
    BY <2>1 DEF Job
  <2> QED
    BY <2>2 DEF ReadPrevious, To
<1> DEFINE n == job[w].name
           j == [job[w] EXCEPT !.pc = "upsert", !.stale = stale]
<1>2. /\ job[w] \in Job /\ JobSound(job[w]) /\ job[w].pc = "previous" /\ n \in Names
      /\ UNCHANGED <<rows, blobs, uploads, everNamed, strays>>
  BY JobAt, JobFields DEF ReadPrevious, JobSound
<1>3. /\ stale \subseteq Objects /\ stale \subseteq Named(n) /\ stale \subseteq everNamed
      /\ \A o \in stale \cap job[w].listed : o[2] # "asset"
  BY <1>2, RowAt DEF Stale, Named, RowSound, OwnKinds
<1>4. /\ j.pc = "upsert" /\ j.name = n /\ j.own = job[w].own
      /\ j.listed = job[w].listed /\ j.stale = stale /\ j \in Job
  BY <1>2, <1>3 DEF Job
<1>5. job' = [job EXCEPT ![w] = j]
  BY <1>1
<1> HIDE DEF j
<1>6. JobSound(j)
  BY <1>2, <1>3, <1>4 DEF JobSound
<1>7. /\ blobs' \subseteq Objects /\ jobs' \in 0..MaxJobs /\ uploads \ everNamed \subseteq blobs'
      /\ \A m \in Names : \A o \in Named(m) : o \in blobs' \/ o \in strays
  BY <1>1, <1>2 DEF IInv, PagesTypeOK, RowsServed, UnusedStored
<1>8. /\ j.own \subseteq blobs' /\ j.own \cap everNamed = {} /\ j.own \cap j.stale = {}
      /\ \A v \in Workers \ {w} :
           /\ j.own \cap (job[v].own \cup job[v].stale) = {}
           /\ job[v].own \subseteq blobs'
           /\ job[v].own \cap j.stale = {}
  <2>1. job[w].own \subseteq blobs /\ job[w].own \cap everNamed = {}
    BY DEF IInv, NewIsNew
  <2> QED
    BY <1>2, <1>3, <1>4, <2>1, Others
<1>9. \A m \in Names : Sweeps(j, m) => Named(m) \cap j.stale \subseteq strays
  BY <1>2, <1>3, <1>4 DEF Sweeps, IInv, SharedStray
<1> QED
  BY <1>2, <1>4, <1>5, <1>6, <1>7, <1>8, <1>9, Frame

-----------------------------------------------------------------------------
(* Steps that write a row and leave its request sweeping what the row is   *)
(* done with.                                                              *)

LEMMA SweepingFields ==
    ASSUME NEW n \in Names, NEW S \in SUBSET Objects,
           \A o \in S : o \in everNamed \/ o[2] = "html"
    PROVE  LET j == Sweeping(n, S)
           IN  /\ j \in Job /\ JobSound(j)
               /\ j.pc = "sweep" /\ j.name = n
               /\ j.own = {} /\ j.listed = {} /\ j.stale = S
BY DEF Sweeping, NoJob, Job, JobSound

(* The row of n changes to r, or to nothing.                               *)
LEMMA Writes ==
    ASSUME IInv, NEW n \in Names, NEW r, rows' = [rows EXCEPT ![n] = r]
    PROVE  /\ \A m \in Names \ {n} :
                Own(m)' = Own(m) /\ Listed(m)' = Listed(m) /\ Named(m)' = Named(m)
           /\ Own(n)' = IF r = None THEN {} ELSE r.own
           /\ Listed(n)' = IF r = None THEN {} ELSE r.listed
BY DEF IInv, PagesTypeOK, Own, Listed, Named

LEMMA UpsertHolds ==
    ASSUME IInv, NEW w \in Workers, Upsert(w)
    PROVE  IInv'
<1>0. PICK n, own, listed, stale :
        n = job[w].name /\ own = job[w].own /\ listed = job[w].listed /\ stale = job[w].stale
  OBVIOUS
<1> DEFINE j == Sweeping(n, stale)
           r == [own |-> own, listed |-> listed]
<1>1. /\ job[w] \in Job /\ JobSound(job[w]) /\ job[w].pc = "upsert" /\ n \in Names
      /\ own \subseteq Objects /\ listed \subseteq Objects /\ stale \subseteq Objects
      /\ listed \subseteq Listable
      /\ \A o \in own : o[2] \in OwnKinds
      /\ \A o \in stale : o \in everNamed \/ o[2] = "html"
      /\ \A o \in stale \cap listed : o[2] # "asset"
  BY <1>0, JobAt, JobFields DEF Upsert, JobSound
<1>2. /\ rows' = [rows EXCEPT ![n] = r]
      /\ job' = [job EXCEPT ![w] = j] /\ jobs' = jobs /\ blobs' = blobs /\ uploads' = uploads
      /\ everNamed' = everNamed \cup own \cup listed
      /\ strays' = strays \cup (listed \ (Listed(n) \cup (uploads \ everNamed)))
  BY <1>0 DEF Upsert, To
<1>3. /\ j \in Job /\ JobSound(j)
      /\ j.pc = "sweep" /\ j.name = n
      /\ j.own = {} /\ j.listed = {} /\ j.stale = stale
  BY <1>1, SweepingFields
<1> HIDE DEF j
<1>4. /\ job'[w] = j
      /\ \A v \in Workers \ {w} : job'[v] = job[v]
      /\ job' \in [Workers -> Job]
  BY <1>2, <1>3, Moves
<1>5. /\ \A m \in Names \ {n} :
           Own(m)' = Own(m) /\ Listed(m)' = Listed(m) /\ Named(m)' = Named(m)
      /\ Own(n)' \subseteq own /\ Listed(n)' \subseteq listed
      /\ Named(n)' \subseteq own \cup listed
  <2>1. r.own = own /\ r.listed = listed
    OBVIOUS
  <2> HIDE DEF r
  <2>2. /\ \A m \in Names \ {n} :
             Own(m)' = Own(m) /\ Listed(m)' = Listed(m) /\ Named(m)' = Named(m)
        /\ Own(n)' \subseteq own /\ Listed(n)' \subseteq listed
    BY <1>1, <1>2, <2>1, Writes
  <2>3. Named(n)' \subseteq own \cup listed
    BY <2>2 DEF Named
  <2> QED
    BY <2>2, <2>3
<1>6. /\ own \subseteq blobs /\ own \cap everNamed = {} /\ own \cap stale = {}
      /\ \A v \in Workers \ {w} : own \cap (job[v].own \cup job[v].stale) = {}
  BY <1>0 DEF IInv, NewIsNew
<1>7. strays \subseteq strays' /\ everNamed \subseteq everNamed'
  BY <1>2
\* What is listed second hand is recorded, or was listed before.
<1>8. \A o \in listed : o \in everNamed \/ o \notin uploads => o \in strays' \/ o \in Listed(n)
  BY <1>2
<1>9. \A o \in stale : o \in everNamed \/ o \notin uploads
  BY <1>1 DEF IInv, UnusedStored
<1>10. RowSound(n) /\ Listed(n) \subseteq Named(n)
  BY <1>1, RowAt DEF Named
<1>11. PagesTypeOK'
  <2>1. r \in Row
    BY <1>1 DEF Row
  <2> HIDE DEF r
  <2> QED
    BY <1>1, <1>2, <1>4, <2>1 DEF IInv, PagesTypeOK
<1>12. JobsSound'
  <2>1. Listable \subseteq Listable'
    BY <1>2, <1>7 DEF Listable
  <2> QED
    BY <1>3, <1>4, <1>7, <2>1 DEF IInv, JobsSound, JobSound
<1>13. RowsSound'
  <2>1. ASSUME NEW m \in Names \ {n} PROVE RowSound(m)'
    BY <1>5, <1>7, <2>1 DEF IInv, RowsSound, RowSound
  <2>2. \A o \in listed : o[2] # "asset" => o \in strays'
    BY <1>7, <1>8, <1>10 DEF RowSound, IInv, UnusedStored
  <2>3. RowSound(n)'
    BY <1>1, <1>2, <1>5, <2>2 DEF RowSound
  <2> QED
    BY <2>1, <2>3 DEF RowsSound
<1>14. UnusedStored'
  BY <1>2 DEF IInv, UnusedStored
<1>15. NewIsNew'
  <2> SUFFICES ASSUME NEW v \in Workers \ {w}
               PROVE  /\ job[v].own \subseteq blobs
                      /\ job[v].own \cap everNamed' = {}
                      /\ \A u \in Workers : job[v].own \cap job'[u].stale = {}
                      /\ \A u \in Workers \ {v} : job[v].own \cap job'[u].own = {}
    BY <1>2, <1>3, <1>4 DEF NewIsNew
  <2>1. /\ job[v].own \subseteq blobs /\ job[v].own \cap everNamed = {}
        /\ \A u \in Workers : job[v].own \cap job[u].stale = {}
        /\ \A u \in Workers \ {v} : job[v].own \cap job[u].own = {}
    BY DEF IInv, NewIsNew
  <2>2. job[v].own \cap listed = {}
    <3>1. \A o \in job[v].own : o[2] \in OwnKinds
      BY JobAt DEF JobSound
    <3>2. \A o \in job[v].own : o \notin uploads /\ o[2] # "other"
      BY <3>1 DEF IInv, UnusedStored, OwnKinds
    <3> QED
      BY <1>1, <2>1, <3>2, ListableIs
  <2> QED
    BY <1>0, <1>2, <1>3, <1>4, <2>1, <2>2
<1>16. SweptStray'
  <2> SUFFICES ASSUME NEW v \in Workers, NEW m \in Names, Sweeps(job'[v], m),
                      NEW o \in Named(m)', o \in job'[v].stale
               PROVE  o \in strays'
    BY DEF SweptStray, Sweeps
  <2>1. CASE v = w /\ m # n
    BY <1>0, <1>1, <1>3, <1>4, <1>5, <1>7, <2>1 DEF IInv, SweptStray, Sweeps
  <2>2. CASE v = w /\ m = n
    <3>1. o \in listed /\ o \in stale /\ o[2] # "asset"
      BY <1>1, <1>3, <1>4, <1>5, <1>6, <2>2
    <3> QED
      BY <1>7, <1>8, <1>9, <1>10, <3>1 DEF RowSound
  <2>3. CASE v # w /\ m # n
    BY <1>4, <1>5, <1>7, <2>3 DEF IInv, SweptStray
  <2>4. CASE v # w /\ m = n
    <3>1. o \in listed /\ o \in job[v].stale /\ Sweeps(job[v], n)
      BY <1>4, <1>5, <1>6, <2>4
    <3>2. o \in everNamed \/ o \notin uploads
      BY <3>1, JobAt DEF JobSound, IInv, UnusedStored
    <3>3. o \in Listed(n) => o \in strays
      BY <1>1, <1>10, <3>1 DEF IInv, SweptStray
    <3> QED
      BY <1>7, <1>8, <3>1, <3>2, <3>3
  <2> QED
    BY <2>1, <2>2, <2>3, <2>4
<1>17. SharedStray'
  <2>1. ASSUME NEW m \in Names \ {n}, NEW o \in Named(m), o \in Named(n)'
        PROVE  o \in strays'
    <3>1. o \in everNamed /\ o \in listed
      BY <1>5, <1>6, <2>1, RowAt DEF RowSound
    <3>2. o \in Listed(n) => o \in strays
      BY <1>1, <1>10, <2>1 DEF IInv, SharedStray
    <3> QED
      BY <1>7, <1>8, <3>1, <3>2
  <2>2. ASSUME NEW k \in Names \ {n}, NEW m \in Names \ {n, k}, NEW o \in Named(m) \cap Named(k)
        PROVE  o \in strays'
    BY <1>7, <2>2 DEF IInv, SharedStray
  <2> QED
    BY <1>5, <2>1, <2>2 DEF SharedStray
<1>18. RowsServed'
  <2> SUFFICES ASSUME NEW m \in Names, NEW o \in Named(m)'
               PROVE  o \in blobs \/ o \in strays'
    BY <1>2 DEF RowsServed
  <2>1. CASE m # n
    BY <1>5, <1>7, <2>1 DEF IInv, RowsServed
  <2>2. CASE m = n /\ o \in own
    BY <1>6, <2>2
  <2>3. CASE m = n /\ o \in listed
    <3>1. o \in uploads \ everNamed => o \in blobs
      BY DEF IInv, UnusedStored
    <3>2. o \in Listed(n) => o \in blobs \/ o \in strays
      BY <1>1, <1>10 DEF IInv, RowsServed
    <3> QED
      BY <1>7, <1>8, <2>3, <3>1, <3>2
  <2> QED
    BY <1>5, <2>1, <2>2, <2>3
<1> QED
  BY <1>11, <1>12, <1>13, <1>14, <1>15, <1>16, <1>17, <1>18 DEF IInv

LEMMA DeleteRowHolds ==
    ASSUME IInv, NEW w \in Workers, NEW n \in Names, DeleteRow(w, n)
    PROVE  IInv'
<1> DEFINE j == Sweeping(n, Named(n))
<1>1. Named(n) \in SUBSET Objects /\ Named(n) \subseteq everNamed
  BY RowAt DEF RowSound
<1>2. /\ j \in Job /\ JobSound(j)
      /\ j.pc = "sweep" /\ j.name = n
      /\ j.own = {} /\ j.listed = {} /\ j.stale = Named(n)
  BY <1>1, SweepingFields
<1>3. /\ rows' = [rows EXCEPT ![n] = None] /\ Starts(w, j)
      /\ UNCHANGED <<blobs, uploads, everNamed, strays>>
  BY DEF DeleteRow
<1> HIDE DEF j
<1>4. job' = [job EXCEPT ![w] = j] /\ jobs' \in 0..MaxJobs
  BY <1>3, PagesAssumption DEF Starts, IInv, PagesTypeOK
<1>5. /\ job'[w] = j
      /\ \A v \in Workers \ {w} : job'[v] = job[v]
      /\ job' \in [Workers -> Job]
  BY <1>2, <1>4, Moves
<1>6. /\ \A m \in Names \ {n} :
           Own(m)' = Own(m) /\ Listed(m)' = Listed(m) /\ Named(m)' = Named(m)
      /\ Own(n)' = {} /\ Listed(n)' = {} /\ Named(n)' = {}
  <2>1. Own(n)' = {} /\ Listed(n)' = {}
    BY <1>3, Writes
  <2> QED
    BY <1>3, <2>1, Writes DEF Named
<1>7. PagesTypeOK'
  BY <1>3, <1>4, <1>5 DEF IInv, PagesTypeOK
<1>8. JobsSound'
  <2>1. Listable' = Listable
    BY <1>3 DEF Listable
  <2> QED
    BY <1>2, <1>3, <1>5, <2>1 DEF IInv, JobsSound, JobSound
<1>9. RowsSound' /\ SharedStray' /\ RowsServed'
  BY <1>3, <1>6 DEF IInv, RowsSound, RowSound, SharedStray, RowsServed
<1>10. UnusedStored'
  BY <1>3 DEF IInv, UnusedStored
<1>11. NewIsNew'
  BY <1>1, <1>2, <1>3, <1>5 DEF IInv, NewIsNew
<1>12. SweptStray'
  <2> SUFFICES ASSUME NEW v \in Workers, NEW m \in Names, Sweeps(job'[v], m),
                      NEW o \in Named(m)', o \in job'[v].stale
               PROVE  o \in strays
    BY <1>3 DEF SweptStray, Sweeps
  <2>1. m # n /\ o \in Named(m)
    BY <1>6
  <2>2. CASE v = w
    BY <1>2, <1>5, <2>1, <2>2 DEF IInv, SharedStray
  <2>3. CASE v # w
    BY <1>5, <2>1, <2>3 DEF IInv, SweptStray
  <2> QED
    BY <2>2, <2>3
<1> QED
  BY <1>7, <1>8, <1>9, <1>10, <1>11, <1>12 DEF IInv

-----------------------------------------------------------------------------

LEMMA NextHolds == IInv /\ [Next]_pageVars => IInv'
<1> SUFFICES ASSUME IInv, [Next]_pageVars PROVE IInv'
  OBVIOUS
<1>1. CASE UNCHANGED pageVars
  BY <1>1 DEF pageVars, IInv, PagesTypeOK, JobsSound, JobSound, Listable, RowsSound, RowSound,
              UnusedStored, NewIsNew, SweptStray, Sweeps, SharedStray, RowsServed,
              Own, Listed, Named
<1>2. ASSUME NEW w \in Workers, NEW s \in Slugs, NEW listed \in SUBSET Listable,
             Publish(w, s, listed)
      PROVE  IInv'
  BY <1>2, BeginHolds DEF Publish, Names
<1>3. ASSUME NEW w \in Workers, NEW f \in Files, UploadAttachment(w, f) PROVE IInv'
  BY <1>3, BeginHolds DEF UploadAttachment, Names
<1>4. ASSUME NEW w \in Workers, NEW s \in Slugs, Unpublish(w, s) PROVE IInv'
  BY <1>4, DeleteRowHolds DEF Unpublish, Names
<1>5. ASSUME NEW w \in Workers, NEW f \in Files, DeleteAttachment(w, f) PROVE IInv'
  BY <1>5, DeleteRowHolds DEF DeleteAttachment, Names
<1>6. ASSUME NEW w \in Workers, UpsertFails(w) \/ Sweep(w) PROVE IInv'
  BY <1>6, EndsHolds DEF UpsertFails, Sweep
<1> QED
  BY <1>1, <1>2, <1>3, <1>4, <1>5, <1>6, UploadHolds, PutObjectsHolds, PutFailsHolds,
     ReadPreviousHolds, UpsertHolds DEF Next

LEMMA InvariantHolds == Spec => []IInv
BY InitHolds, NextHolds, PTL DEF Spec

(* Every reachable state of the rows, the store, the requests and the      *)
(* histories is well typed.                                                *)
THEOREM TypeCorrect == Spec => []PagesTypeOK
<1>1. IInv => PagesTypeOK
  BY DEF IInv
<1> QED
  BY <1>1, InvariantHolds, PTL

(* The objects a row names are in the store, but for those its page began  *)
(* to list when they were no unused uploads: a request deletes only what   *)
(* it took out of a row, or put there in vain, and whatever another puts,  *)
(* or lists first, is known to nobody else (CommitAttachment,              *)
(* UpsertPublish and the deletions after them).                            *)
THEOREM RowsServedHolds == Spec => []RowsServed
<1>1. IInv => RowsServed
  BY DEF IInv
<1> QED
  BY <1>1, InvariantHolds, PTL

-----------------------------------------------------------------------------
(* The quota.  A request that was let through and has not written its row  *)
(* takes the room of a page already.                                       *)

Writing(w) == job[w].pc \in {"put", "previous", "upsert"}

Taken == {s \in Slugs : rows[s] # None \/ \E w \in Workers : Writing(w) /\ job[w].name = s}

QuotaInv == IsFiniteSet(Taken) /\ Cardinality(Taken) <= MaxPages + Cardinality(Workers) - 1

LEMMA WorkersCount == IsFiniteSet(Workers) /\ Cardinality(Workers) \in Nat
BY PagesAssumption, FS_CardinalityType

\* No page takes room that had none.
LEMMA NoneTaken ==
    ASSUME QuotaInv, Taken' \subseteq Taken
    PROVE  QuotaInv'
<1>1. /\ IsFiniteSet(Taken') /\ Cardinality(Taken') <= Cardinality(Taken)
      /\ Cardinality(Taken') \in Nat /\ Cardinality(Taken) \in Nat
  BY FS_Subset, FS_CardinalityType DEF QuotaInv
<1> QED
  BY <1>1, WorkersCount, PagesAssumption DEF QuotaInv

\* Requests are about no more names than there are requests.
LEMMA NamesCount ==
    ASSUME NEW j, DOMAIN j = Workers
    PROVE  /\ IsFiniteSet({j[w].name : w \in Workers})
           /\ Cardinality({j[w].name : w \in Workers}) <= Cardinality(Workers)
<1> DEFINE T == {j[w].name : w \in Workers}
           f == [w \in Workers |-> j[w].name]
<1>1. f \in Surjection(Workers, T)
  BY DEF Surjection
<1> HIDE DEF T, f
<1>2. IsFiniteSet(T) /\ Cardinality(T) <= Cardinality(Workers)
  BY <1>1, PagesAssumption, FS_Surjection
<1> QED
  BY <1>2 DEF T

\* A page that is let in finds fewer than maxPublishedPages, and every other that
\* is on its way has a request.
LEMMA LetThrough ==
    ASSUME IInv, QuotaInv, NEW w \in Workers, NEW s \in Slugs, NEW listed, Publish(w, s, listed)
    PROVE  QuotaInv'
<1> DEFINE j == [NoJob EXCEPT !.pc = "put", !.name = s, !.listed = listed]
<1>1. /\ job' = [job EXCEPT ![w] = j] /\ rows' = rows
      /\ s \in Published \/ Cardinality(Published) < MaxPages
  BY DEF Publish, Begin, Starts, Allowed
<1>2. j.name = s
  BY DEF NoJob
<1> HIDE DEF j
<1>3. /\ DOMAIN job' = Workers /\ job'[w] = j
      /\ \A v \in Workers \ {w} : job'[v] = job[v]
  BY <1>1 DEF IInv, PagesTypeOK
<1>4. CASE s \in Published
  <2>1. Taken' \subseteq Taken
    BY <1>1, <1>2, <1>3, <1>4 DEF Taken, Writing, Published
  <2> QED
    BY <2>1, NoneTaken
<1>5. CASE Cardinality(Published) < MaxPages
  <2> DEFINE N == {job'[v].name : v \in Workers}
  <2>1. IsFiniteSet(N) /\ Cardinality(N) <= Cardinality(Workers) /\ Cardinality(N) \in Nat
    BY <1>3, NamesCount, FS_CardinalityType
  <2>2. Published \subseteq Taken
    BY DEF Taken, Published
  <2>3. IsFiniteSet(Published) /\ Cardinality(Published) \in Nat
    BY <2>2, FS_Subset, FS_CardinalityType DEF QuotaInv
  <2>4. Taken' \subseteq Published \cup N
    BY <1>1 DEF Taken, Published
  <2> HIDE DEF N
  <2>5. /\ IsFiniteSet(Published \cup N)
        /\ Cardinality(Published \cup N) <= Cardinality(Published) + Cardinality(N)
        /\ Cardinality(Published \cup N) \in Nat
    <3>1. IsFiniteSet(Published \cap N) /\ Cardinality(Published \cap N) \in Nat
      BY <2>1, FS_Subset, FS_CardinalityType
    <3>2. /\ IsFiniteSet(Published \cup N)
          /\ Cardinality(Published \cup N) =
               Cardinality(Published) + Cardinality(N) - Cardinality(Published \cap N)
      BY <2>1, <2>3, FS_Union
    <3> QED
      BY <2>1, <2>3, <3>1, <3>2, FS_CardinalityType
  <2>6. /\ IsFiniteSet(Taken') /\ Cardinality(Taken') <= Cardinality(Published \cup N)
        /\ Cardinality(Taken') \in Nat
    BY <2>4, <2>5, FS_Subset, FS_CardinalityType
  <2> QED
    BY <1>5, <2>1, <2>3, <2>5, <2>6, WorkersCount, PagesAssumption DEF QuotaInv
<1> QED
  BY <1>1, <1>4, <1>5

\* A request goes on, and has the room already.
LEMMA HasRoom ==
    ASSUME IInv, QuotaInv, NEW w \in Workers, NEW j,
           job' = [job EXCEPT ![w] = j],
           j.pc \in {"put", "previous", "upsert"} /\ j.name \in Slugs
             => Writing(w) /\ j.name = job[w].name,
           \A s \in Slugs : rows'[s] # None =>
             rows[s] # None \/ (Writing(w) /\ job[w].name = s)
    PROVE  QuotaInv'
<1>1. job'[w] = j /\ \A v \in Workers \ {w} : job'[v] = job[v]
  BY DEF IInv, PagesTypeOK
<1>2. Taken' \subseteq Taken
  BY <1>1 DEF Taken, Writing
<1> QED
  BY <1>2, NoneTaken

\* The steps after that, those of attachments, and deletions.
LEMMA GoesOn ==
    ASSUME IInv, QuotaInv, NEW w \in Workers,
           \/ PutObjects(w) \/ PutFails(w) \/ ReadPrevious(w) \/ Upsert(w) \/ UpsertFails(w)
           \/ Sweep(w)
           \/ \E n \in Names : DeleteRow(w, n)
           \/ \E f \in Files : UploadAttachment(w, f)
    PROVE  QuotaInv'
<1> USE DEF To, Starts
<1>1. job[w] \in Job /\ NoJob \in Job /\ NoJob.pc = "idle"
  BY DEF IInv, PagesTypeOK, NoJob, Job
<1>2. \A n, stale : Sweeping(n, stale).pc = "sweep"
  BY DEF Sweeping, NoJob
<1>3. CASE PutObjects(w)
  <2>1. PICK own : job' = [job EXCEPT ![w] = [job[w] EXCEPT !.pc = "previous", !.own = own]]
    BY <1>3 DEF PutObjects
  <2> DEFINE j == [job[w] EXCEPT !.pc = "previous", !.own = own]
  <2>2. j.name = job[w].name /\ Writing(w) /\ rows' = rows
    BY <1>1, <1>3 DEF PutObjects, Job, Writing
  <2> HIDE DEF j
  <2>3. job' = [job EXCEPT ![w] = j]
    BY <2>1 DEF j
  <2> QED
    BY <2>2, <2>3, HasRoom
<1>4. CASE ReadPrevious(w)
  <2>1. PICK j : /\ job' = [job EXCEPT ![w] = j] /\ rows' = rows
                 /\ j.name = job[w].name /\ Writing(w)
    <3>1. job[w].pc = "previous" /\ rows' = rows
      BY <1>4 DEF ReadPrevious
    <3>2. CASE job' = [job EXCEPT ![w] = [job[w] EXCEPT !.pc = "upsert"]]
      BY <1>1, <3>1, <3>2 DEF Job, Writing
    <3>3. CASE job' = [job EXCEPT ![w] = [job[w] EXCEPT !.pc = "upsert", !.stale = Stale(w)]]
      BY <1>1, <3>1, <3>3 DEF Job, Writing
    <3> QED
      BY <1>4, <3>2, <3>3 DEF ReadPrevious
  <2> QED
    BY <2>1, HasRoom
<1>5. CASE Upsert(w)
  <2> DEFINE j == Sweeping(job[w].name, job[w].stale)
             r == [own |-> job[w].own, listed |-> job[w].listed]
  <2>1. /\ job' = [job EXCEPT ![w] = j] /\ j.pc = "sweep" /\ Writing(w)
        /\ rows' = [rows EXCEPT ![job[w].name] = r]
    BY <1>2, <1>5 DEF Upsert, Writing
  <2> HIDE DEF j, r
  <2>2. \A s \in Slugs : s # job[w].name => rows'[s] = rows[s]
    BY <2>1 DEF IInv, PagesTypeOK, Names
  <2> QED
    BY <2>1, <2>2, HasRoom
<1>6. CASE \E n \in Names : DeleteRow(w, n)
  <2>1. PICK n \in Names : DeleteRow(w, n)
    BY <1>6
  <2> DEFINE j == Sweeping(n, Named(n))
  <2>2. /\ job' = [job EXCEPT ![w] = j] /\ j.pc = "sweep" /\ rows' = [rows EXCEPT ![n] = None]
    BY <1>2, <2>1 DEF DeleteRow
  <2> HIDE DEF j
  <2>3. \A s \in Slugs : rows'[s] \in {rows[s], None}
    BY <2>2 DEF IInv, PagesTypeOK, Names
  <2> QED
    BY <2>2, <2>3, HasRoom
<1>7. CASE \E f \in Files : UploadAttachment(w, f)
  <2>1. PICK f \in Files : UploadAttachment(w, f)
    BY <1>7
  <2> DEFINE j == [NoJob EXCEPT !.pc = "put", !.name = f, !.listed = {}]
  <2>2. job' = [job EXCEPT ![w] = j] /\ j.name = f /\ rows' = rows
    BY <2>1 DEF UploadAttachment, Begin, NoJob
  <2> HIDE DEF j
  <2> QED
    BY <2>2, PagesAssumption, HasRoom
<1>8. CASE PutFails(w) \/ UpsertFails(w) \/ Sweep(w)
  <2>1. PICK j : job' = [job EXCEPT ![w] = j] /\ j.pc \in {"idle", "sweep"} /\ rows' = rows
    <3>1. CASE job' = [job EXCEPT ![w] = NoJob]
      BY <1>1, <1>8, <3>1 DEF PutFails, UpsertFails, Sweep
    <3>2. CASE \E n, stale : job' = [job EXCEPT ![w] = Sweeping(n, stale)]
      BY <1>2, <1>8, <3>2 DEF PutFails, UpsertFails, Sweep
    <3> QED
      BY <1>8, <3>1, <3>2 DEF PutFails, UpsertFails, Sweep
  <2> QED
    BY <2>1, HasRoom
<1> QED
  BY <1>3, <1>4, <1>5, <1>6, <1>7, <1>8

LEMMA QuotaStep == IInv /\ QuotaInv /\ [Next]_pageVars => QuotaInv'
<1> SUFFICES ASSUME IInv, QuotaInv, [Next]_pageVars PROVE QuotaInv'
  OBVIOUS
<1>1. CASE UNCHANGED pageVars
  BY <1>1, NoneTaken DEF pageVars, Taken, Writing
<1>2. ASSUME NEW w \in Workers, NEW s \in Slugs, Unpublish(w, s) PROVE QuotaInv'
  BY <1>2, GoesOn DEF Unpublish, Names
<1>3. ASSUME NEW w \in Workers, NEW f \in Files, DeleteAttachment(w, f) PROVE QuotaInv'
  BY <1>3, GoesOn DEF DeleteAttachment, Names
<1>4. CASE UploadAsset
  BY <1>4, NoneTaken DEF UploadAsset, Taken, Writing
<1> QED
  BY <1>1, <1>2, <1>3, <1>4, LetThrough, GoesOn DEF Next

LEMMA QuotaInitHolds == Init => QuotaInv
<1> SUFFICES ASSUME Init PROVE QuotaInv
  OBVIOUS
<1>1. Taken = {}
  BY DEF Init, Taken, Writing, NoJob, Names
<1>2. IsFiniteSet({}) /\ Cardinality({}) = 0
  BY FS_EmptySet
<1> QED
  BY <1>1, <1>2, WorkersCount, PagesAssumption DEF QuotaInv

(* The quota is passed by at most one page for each request that is let    *)
(* through at the same time as another (the count before UpsertPublish,    *)
(* httpapi/publish.go).                                                    *)
THEOREM QuotaBoundedHolds == Spec => []QuotaBounded
<1>1. QuotaInv => QuotaBounded
  <2>1. QuotaInv => /\ Cardinality(Published) <= Cardinality(Taken)
                    /\ Cardinality(Published) \in Nat /\ Cardinality(Taken) \in Nat
    <3>1. Published \subseteq Taken
      BY DEF Published, Taken
    <3> QED
      BY <3>1, FS_Subset, FS_CardinalityType DEF QuotaInv
  <2> QED
    BY <2>1, WorkersCount, PagesAssumption DEF QuotaInv, QuotaBounded
<1> QED
  BY <1>1, QuotaInitHolds, QuotaStep, InvariantHolds, PTL DEF Spec
=============================================================================
