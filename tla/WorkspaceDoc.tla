---------------------------- MODULE WorkspaceDoc ----------------------------
(***************************************************************************)
(* The sealed workspace document of one space: GetWorkspaceDoc and         *)
(* PutWorkspaceDoc of pkg/store/sync.go and their handlers.  The server    *)
(* cannot merge what it cannot read, so devices write the whole document   *)
(* under optimistic concurrency and merge on their own side.               *)
(*                                                                         *)
(* A put is two statements of a READ COMMITTED transaction.  The first     *)
(* reads key_epoch and locks nothing, so a rotation can commit between     *)
(* the two; the second is an upsert on the version.  A request may be      *)
(* lost or overtaken by the client's own retry, and so may its answer.     *)
(***************************************************************************)
EXTENDS Integers, FiniteSets

CONSTANTS
    Clients,    \* devices that edit the document
    Edits,      \* edits to the page tree, titles, tags, pins
    None,       \* no request waited for
    MaxPuts,    \* bound: put requests in progress at once
    MaxEpoch    \* bound: key epochs

ASSUME DocAssumption ==
    /\ MaxPuts \in Nat \ {0}
    /\ MaxEpoch \in Nat \ {0}
    /\ None \notin [client : Clients, base : Nat, epoch : Nat, content : SUBSET Edits]

VARIABLES
    keyEpoch,    \* spaces.key_epoch
    doc,         \* the row of workspace_docs, NoDoc while there is none
    puts,        \* put requests in progress
    local,       \* per client: the edits in its local document
    view,        \* per client: the document as the server last showed it
    key,         \* per client: the key epoch it seals under
    waiting      \* per client: the request whose answer it waits for, or None

clientVars == <<local, view, key, waiting>>
vars == <<keyEpoch, doc, puts, clientVars>>

-----------------------------------------------------------------------------

Doc == [version : Nat, epoch : Nat, content : SUBSET Edits]

\* What handleGetWorkspace answers before the first write.
NoDoc == [version |-> 0, epoch |-> 0, content |-> {}]

Request == [client : Clients, base : Nat, epoch : Nat, content : SUBSET Edits]

\* A request in progress, before or after its epoch was compared.
Put == [req : Request, checked : BOOLEAN]

TypeOK ==
    /\ keyEpoch \in Nat
    /\ doc \in Doc
    /\ puts \subseteq Put
    /\ local \in [Clients -> SUBSET Edits]
    /\ view \in [Clients -> Doc]
    /\ key \in [Clients -> Nat]
    /\ waiting \in [Clients -> Request \cup {None}]

Init ==
    /\ keyEpoch = 1
    /\ doc = NoDoc
    /\ puts = {}
    /\ local = [c \in Clients |-> {}]
    /\ view = [c \in Clients |-> NoDoc]
    /\ key = [c \in Clients |-> 1]
    /\ waiting = [c \in Clients |-> None]

-----------------------------------------------------------------------------
(* The devices.                                                            *)

\* An edit is made on one device, once.
Edit(c, e) ==
    /\ \A d \in Clients : e \notin local[d]
    /\ local' = [local EXCEPT ![c] = @ \cup {e}]
    /\ UNCHANGED <<keyEpoch, doc, puts, view, key, waiting>>

\* The device refreshes its wrapped key (ListSpaces).
LearnKey(c) ==
    /\ key[c] < keyEpoch
    /\ key' = [key EXCEPT ![c] = keyEpoch]
    /\ UNCHANGED <<keyEpoch, doc, puts, local, view, waiting>>

\* GET when a poll or a conflict shows another version: merge what is there.
Get(c) ==
    /\ view[c].version # doc.version
    /\ view' = [view EXCEPT ![c] = doc]
    /\ local' = [local EXCEPT ![c] = @ \cup doc.content]
    /\ UNCHANGED <<keyEpoch, doc, puts, key, waiting>>

\* PUT of the whole local document on top of the version last seen.
Send(c) ==
    LET req == [client |-> c, base |-> view[c].version, epoch |-> key[c],
                content |-> local[c]]
    IN  /\ waiting[c] = None
        /\ local[c] # view[c].content
        /\ Cardinality(puts) < MaxPuts
        /\ puts' = puts \cup {[req |-> req, checked |-> FALSE]}
        /\ waiting' = [waiting EXCEPT ![c] = req]
        /\ UNCHANGED <<keyEpoch, doc, local, view, key>>

\* The client's own timeout; the request may still be running.
GiveUp(c) ==
    /\ waiting[c] # None
    /\ waiting' = [waiting EXCEPT ![c] = None]
    /\ UNCHANGED <<keyEpoch, doc, puts, local, view, key>>

-----------------------------------------------------------------------------
(* The server.                                                             *)

RotateSpaceKey ==
    /\ keyEpoch < MaxEpoch
    /\ keyEpoch' = keyEpoch + 1
    /\ UNCHANGED <<doc, puts, clientVars>>

\* The request ends with no effect: its client, if it still waits, is told of
\* a conflict or of a failure, or it hears nothing at all.
Refuse(p) ==
    /\ puts' = puts \ {p}
    /\ waiting' \in {waiting, [waiting EXCEPT ![p.req.client] =
                                  IF @ = p.req THEN None ELSE @]}
    /\ UNCHANGED <<keyEpoch, doc, local, view, key>>

\* Mutant: the epoch is not compared.
SkipEpoch(p) ==
    /\ ~p.checked
    /\ puts' = (puts \ {p}) \cup {[p EXCEPT !.checked = TRUE]}
    /\ UNCHANGED <<keyEpoch, doc, clientVars>>

\* PutWorkspaceDoc, first statement: SELECT key_epoch, without FOR UPDATE.
CheckEpoch(p) ==
    /\ ~p.checked
    /\ IF p.req.epoch # keyEpoch
         THEN Refuse(p)
         ELSE /\ puts' = (puts \ {p}) \cup {[p EXCEPT !.checked = TRUE]}
              /\ UNCHANGED <<keyEpoch, doc, clientVars>>

\* Mutants: the version is not compared, or not counted up.
UpsertAs(p, version) ==
    /\ p.checked
    /\ puts' = puts \ {p}
    /\ doc' = [version |-> version, epoch |-> p.req.epoch, content |-> p.req.content]
    /\ waiting' = [waiting EXCEPT ![p.req.client] = IF @ = p.req THEN None ELSE @]
    /\ view' = [view EXCEPT ![p.req.client] = IF waiting[p.req.client] = p.req THEN doc' ELSE @]
    /\ UNCHANGED <<keyEpoch, local, key>>
UpsertAnyBase(p) == UpsertAs(p, doc.version + 1)
UpsertSameVersion(p) ==
    (doc.version = 0 \/ doc.version = p.req.base)
    /\ UpsertAs(p, IF doc.version = 0 THEN 1 ELSE doc.version)

\* PutWorkspaceDoc, second statement and commit.  With no row there is nothing
\* to conflict with and the base is not looked at; otherwise the version must
\* be the base.  If the client hears the answer it knows what the server has.
Upsert(p) ==
    /\ p.checked
    /\ IF doc.version > 0 /\ doc.version # p.req.base
         THEN Refuse(p)
         ELSE /\ doc' = [version |-> doc.version + 1, epoch |-> p.req.epoch,
                         content |-> p.req.content]
              /\ puts' = puts \ {p}
              /\ \/ UNCHANGED <<view, waiting>>
                 \/ /\ waiting[p.req.client] = p.req
                    /\ waiting' = [waiting EXCEPT ![p.req.client] = None]
                    /\ view' = [view EXCEPT ![p.req.client] = doc']
              /\ UNCHANGED <<keyEpoch, local, key>>

-----------------------------------------------------------------------------

Next ==
    \/ RotateSpaceKey
    \/ \E c \in Clients :
         \/ \E e \in Edits : Edit(c, e)
         \/ LearnKey(c)
         \/ Get(c)
         \/ Send(c)
         \/ GiveUp(c)
    \/ \E p \in puts : CheckEpoch(p) \/ Upsert(p) \/ Refuse(p)

Spec == Init /\ [][Next]_vars

\* Devices keep refreshing and retrying; a request that is sent again and again
\* is not lost every time, and every request ends.
Fairness ==
    \A c \in Clients :
        /\ WF_vars(LearnKey(c))
        /\ WF_vars(Get(c))
        /\ WF_vars(GiveUp(c))
        /\ SF_vars(Send(c))
        /\ SF_vars(\E p \in puts : p.req.client = c /\ CheckEpoch(p))
        /\ SF_vars(\E p \in puts : p.req.client = c /\ Upsert(p))

FairSpec == Spec /\ Fairness

-----------------------------------------------------------------------------
(* Properties.                                                             *)

\* Optimistic concurrency: what one device has stored, no other device's write
\* (nor a late duplicate of its own) ever takes out again.
NoEditLost == [][doc.content \subseteq doc'.content]_vars

\* A version names one document: whoever holds a version that is current holds
\* the current document, so a base that matches is a base that was merged.
VersionNamesDoc ==
    /\ \A c \in Clients : view[c].version = doc.version => view[c] = doc
    /\ \A c, d \in Clients : view[c].version = view[d].version => view[c] = view[d]

\* The epoch is compared without a lock, but the version makes up for it: a
\* put that slipped past a rotation never replaces a document of a newer key.
EpochNeverBack == [][doc'.epoch >= doc.epoch]_vars

\* However the devices race, once the last edit and the last rotation (MaxEpoch)
\* are over every edit is in the document and on every device, and stays there.
Converged == <>[](\A c \in Clients : local[c] = doc.content)
=============================================================================
