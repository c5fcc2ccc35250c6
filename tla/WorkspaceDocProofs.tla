-------------------------- MODULE WorkspaceDocProofs --------------------------
(***************************************************************************)
(* That WorkspaceDoc keeps its safety properties for any number of         *)
(* devices, edits, puts and epochs.  The inductive invariant says what a   *)
(* put in progress still knows: as long as its base is the version of the  *)
(* row, its content has everything the row has and, once its epoch was     *)
(* compared, its epoch is not behind that of the row.                      *)
(***************************************************************************)
EXTENDS WorkspaceDoc, TLAPS

\* What was read or sent is never ahead of the server.
NothingAhead ==
    /\ doc.epoch <= keyEpoch
    /\ \A c \in Clients : key[c] <= keyEpoch /\ view[c].version <= doc.version
    /\ \A p \in puts : p.req.epoch <= keyEpoch /\ p.req.base <= doc.version

\* A device has merged what it has seen, and sends what it has.
Merged ==
    /\ \A c \in Clients : view[c].content \subseteq local[c]
    /\ \A p \in puts : p.req.content \subseteq local[p.req.client]

\* Before the first write there is nothing to lose.
EmptyAtFirst == doc.version = 0 => doc = NoDoc

\* A put on top of the current version loses nothing of it.
BaseMerged ==
    \A p \in puts : p.req.base = doc.version =>
        /\ doc.content \subseteq p.req.content
        /\ p.checked => doc.epoch <= p.req.epoch

IInv ==
    /\ TypeOK
    /\ VersionNamesDoc
    /\ NothingAhead
    /\ Merged
    /\ EmptyAtFirst
    /\ BaseMerged

(* The server starts with no document and the devices with none seen.      *)
LEMMA InitHolds == Init => IInv
BY DEF Init, IInv, TypeOK, VersionNamesDoc, NothingAhead, Merged, EmptyAtFirst,
       BaseMerged, NoDoc, Doc

(* Sending copies what the device has on top of the version it last saw.   *)
LEMMA SendHolds ==
    ASSUME IInv, NEW c \in Clients, Send(c)
    PROVE  IInv'
<1> DEFINE req == [client |-> c, base |-> view[c].version, epoch |-> key[c],
                   content |-> local[c]]
<1> DEFINE put == [req |-> req, checked |-> FALSE]
<1>0. /\ puts' = puts \cup {put}
      /\ waiting' = [waiting EXCEPT ![c] = req]
      /\ UNCHANGED <<keyEpoch, doc, local, view, key>>
  BY DEF Send
<1>1. req \in Request /\ put \in Put
  BY DEF IInv, TypeOK, Request, Put, Doc
<1>2. TypeOK'
  BY <1>0, <1>1 DEF IInv, TypeOK
<1>3. VersionNamesDoc' /\ EmptyAtFirst'
  BY <1>0 DEF IInv, VersionNamesDoc, EmptyAtFirst
<1>4. NothingAhead' /\ Merged'
  BY <1>0 DEF IInv, NothingAhead, Merged
<1>5. view[c].version = doc.version => doc.content \subseteq local[c]
  BY DEF IInv, VersionNamesDoc, Merged
<1>6. BaseMerged'
  BY <1>0, <1>5 DEF IInv, BaseMerged
<1> QED
  BY <1>2, <1>3, <1>4, <1>6 DEF IInv

(* A refused put leaves nothing behind.                                    *)
LEMMA RefuseHolds ==
    ASSUME IInv, NEW p \in puts, Refuse(p)
    PROVE  IInv'
<1>0. p.req \in Request /\ p.req.client \in Clients
  BY DEF IInv, TypeOK, Put, Request
<1>1. /\ puts' \subseteq puts
      /\ UNCHANGED <<keyEpoch, doc, local, view, key>>
  BY DEF Refuse
<1>2. waiting' \in [Clients -> Request \cup {None}]
  BY <1>0 DEF IInv, TypeOK, Refuse
<1>3. TypeOK'
  BY <1>1, <1>2 DEF IInv, TypeOK
<1> QED
  BY <1>1, <1>3 DEF IInv, VersionNamesDoc, NothingAhead, Merged, EmptyAtFirst, BaseMerged

(* A put whose epoch was found current is not behind the document.         *)
LEMMA CheckEpochHolds ==
    ASSUME IInv, NEW p \in puts, CheckEpoch(p)
    PROVE  IInv'
<1>1. CASE p.req.epoch # keyEpoch
  BY <1>1, RefuseHolds DEF CheckEpoch
<1>2. CASE p.req.epoch = keyEpoch
  <2> DEFINE q == [p EXCEPT !.checked = TRUE]
  <2>0. /\ puts' = (puts \ {p}) \cup {q}
        /\ UNCHANGED <<keyEpoch, doc, local, view, key, waiting>>
    BY <1>2 DEF CheckEpoch, clientVars
  <2>1. q \in Put /\ q.req = p.req
    BY DEF IInv, TypeOK, Put
  <2>2. TypeOK'
    BY <2>0, <2>1 DEF IInv, TypeOK
  <2>3. VersionNamesDoc' /\ EmptyAtFirst'
    BY <2>0 DEF IInv, VersionNamesDoc, EmptyAtFirst
  <2>4. NothingAhead' /\ Merged'
    BY <2>0, <2>1 DEF IInv, NothingAhead, Merged
  <2>5. BaseMerged'
    BY <2>0, <2>1, <1>2 DEF IInv, BaseMerged, NothingAhead
  <2> QED
    BY <2>2, <2>3, <2>4, <2>5 DEF IInv
<1> QED
  BY <1>1, <1>2

(* A write passes the base of every put in progress, so none is on top of  *)
(* the new version; and nothing shown to a device can carry that version.  *)
LEMMA UpsertHolds ==
    ASSUME IInv, NEW p \in puts, Upsert(p)
    PROVE  IInv'
<1>0. p \in Put /\ p.req \in Request /\ p.req.client \in Clients
  BY DEF IInv, TypeOK, Put, Request
<1>1. CASE doc.version > 0 /\ doc.version # p.req.base
  BY <1>1, RefuseHolds DEF Upsert
<1>2. CASE ~(doc.version > 0 /\ doc.version # p.req.base)
  <2> DEFINE new == [version |-> doc.version + 1, epoch |-> p.req.epoch,
                     content |-> p.req.content]
  <2>1. /\ doc' = new
        /\ puts' = puts \ {p}
        /\ UNCHANGED <<keyEpoch, local, key>>
    BY <1>2 DEF Upsert
  <2>2. doc \in Doc /\ new \in Doc /\ new.version > doc.version
    BY <1>0 DEF IInv, TypeOK, Doc, Request
  <2>3. /\ view' \in [Clients -> Doc]
        /\ waiting' \in [Clients -> Request \cup {None}]
        /\ \A c \in Clients : view'[c] = view[c] \/ (c = p.req.client /\ view'[c] = new)
    BY <1>0, <1>2, <2>1, <2>2 DEF Upsert, IInv, TypeOK
  <2>4. TypeOK'
    BY <2>1, <2>2, <2>3 DEF IInv, TypeOK
  <2>5. \A c \in Clients : view[c] \in Doc /\ view[c].version < new.version
    BY <2>2 DEF IInv, TypeOK, NothingAhead, Doc
  <2>6. VersionNamesDoc'
    <3>1. \A c \in Clients : view[c] \in Doc /\ view[c].version # new.version
      BY <2>2, <2>5 DEF Doc
    <3>2. \A c \in Clients : view'[c].version = new.version => view'[c] = new
      BY <2>3, <3>1
    <3>3. ASSUME NEW c \in Clients, NEW d \in Clients,
                 view'[c].version = view'[d].version
          PROVE  view'[c] = view'[d]
      <4>1. CASE view'[c] = new
        BY <3>2, <3>3, <4>1
      <4>2. CASE view'[d] = new
        BY <3>2, <3>3, <4>2
      <4>3. CASE view'[c] = view[c] /\ view'[d] = view[d]
        BY <3>3, <4>3 DEF IInv, VersionNamesDoc
      <4> QED
        BY <2>3, <4>1, <4>2, <4>3
    <3> QED
      BY <2>1, <3>2, <3>3, Zenon DEF VersionNamesDoc
  <2>7. NothingAhead'
    <3>1. \A q \in puts : q.req.base \in Nat /\ q.req.base <= doc.version
      BY DEF IInv, TypeOK, Put, Request, NothingAhead
    <3>2. \A q \in puts' : q.req.epoch <= keyEpoch /\ q.req.base <= new.version
      BY <2>1, <2>2, <3>1 DEF IInv, NothingAhead, Doc
    <3>3. \A c \in Clients : key[c] <= keyEpoch /\ view'[c].version <= new.version
      BY <2>2, <2>3, <2>5 DEF IInv, NothingAhead, Doc
    <3>4. new.epoch <= keyEpoch
      BY DEF IInv, NothingAhead
    <3> QED
      BY <2>1, <3>2, <3>3, <3>4 DEF NothingAhead
  <2>8. Merged'
    BY <2>1, <2>3 DEF IInv, Merged
  <2>9. EmptyAtFirst' /\ BaseMerged'
    <3>1. \A q \in puts : q.req.base < new.version
      BY <2>2 DEF IInv, TypeOK, Put, Request, NothingAhead, Doc
    <3>2. new.version # 0
      BY <2>2 DEF Doc
    <3> QED
      BY <2>1, <3>1, <3>2 DEF EmptyAtFirst, BaseMerged, IInv, TypeOK, Put, Request
  <2> QED
    BY <2>4, <2>6, <2>7, <2>8, <2>9 DEF IInv
<1> QED
  BY <1>1, <1>2

(* What the devices do on their own.                                       *)
LEMMA ClientHolds ==
    ASSUME IInv, NEW c \in Clients,
           LearnKey(c) \/ Get(c) \/ GiveUp(c) \/ \E e \in Edits : Edit(c, e)
    PROVE  IInv'
<1>1. CASE LearnKey(c)
  <2>1. /\ key' = [key EXCEPT ![c] = keyEpoch]
        /\ UNCHANGED <<keyEpoch, doc, puts, local, view, waiting>>
    BY <1>1 DEF LearnKey
  <2>2. TypeOK' /\ NothingAhead'
    BY <2>1 DEF IInv, TypeOK, NothingAhead
  <2> QED
    BY <2>1, <2>2 DEF IInv, VersionNamesDoc, Merged, EmptyAtFirst, BaseMerged
<1>2. CASE Get(c)
  <2>1. /\ view' = [view EXCEPT ![c] = doc]
        /\ local' = [local EXCEPT ![c] = @ \cup doc.content]
        /\ UNCHANGED <<keyEpoch, doc, puts, key, waiting>>
    BY <1>2 DEF Get
  <2>2. TypeOK'
    BY <2>1 DEF IInv, TypeOK, Doc
  <2>3. VersionNamesDoc'
    BY <2>1 DEF IInv, TypeOK, VersionNamesDoc
  <2>4. NothingAhead'
    BY <2>1 DEF IInv, TypeOK, NothingAhead, Doc
  <2>5. Merged'
    <3>1. \A d \in Clients : local[d] \subseteq local'[d]
      BY <2>1 DEF IInv, TypeOK
    <3>2. \A d \in Clients : view'[d].content \subseteq local'[d]
      BY <2>1, <3>1 DEF IInv, TypeOK, Merged
    <3>3. \A p \in puts : p.req.client \in Clients
      BY DEF IInv, TypeOK, Put, Request
    <3> QED
      BY <2>1, <3>1, <3>2, <3>3 DEF IInv, Merged
  <2> QED
    BY <2>1, <2>2, <2>3, <2>4, <2>5 DEF IInv, EmptyAtFirst, BaseMerged
<1>3. CASE GiveUp(c)
  <2>1. TypeOK'
    BY <1>3 DEF GiveUp, IInv, TypeOK
  <2> QED
    BY <1>3, <2>1 DEF GiveUp, IInv, VersionNamesDoc, NothingAhead, Merged,
                      EmptyAtFirst, BaseMerged
<1>4. CASE \E e \in Edits : Edit(c, e)
  <2>1. PICK e \in Edits : Edit(c, e)
    BY <1>4
  <2>2. /\ local' = [local EXCEPT ![c] = @ \cup {e}]
        /\ UNCHANGED <<keyEpoch, doc, puts, view, key, waiting>>
    BY <2>1 DEF Edit
  <2>3. TypeOK'
    BY <2>2 DEF IInv, TypeOK
  <2>4. \A d \in Clients : local[d] \subseteq local'[d]
    BY <2>2 DEF IInv, TypeOK
  <2>5. \A p \in puts : p.req.client \in Clients
    BY DEF IInv, TypeOK, Put, Request
  <2>6. Merged'
    BY <2>2, <2>4, <2>5 DEF IInv, Merged
  <2> QED
    BY <2>2, <2>3, <2>6 DEF IInv, VersionNamesDoc, NothingAhead, EmptyAtFirst, BaseMerged
<1> QED
  BY <1>1, <1>2, <1>3, <1>4

(* A rotation only raises the epoch the others are compared with.          *)
LEMMA RotateHolds == ASSUME IInv, RotateSpaceKey PROVE IInv'
<1>1. /\ keyEpoch' = keyEpoch + 1
      /\ UNCHANGED <<doc, puts, local, view, key, waiting>>
  BY DEF RotateSpaceKey, clientVars
<1>2. TypeOK'
  BY <1>1 DEF IInv, TypeOK
<1>3. NothingAhead'
  BY <1>1 DEF IInv, TypeOK, NothingAhead, Doc, Put, Request
<1> QED
  BY <1>1, <1>2, <1>3 DEF IInv, VersionNamesDoc, Merged, EmptyAtFirst, BaseMerged

LEMMA NextHolds == IInv /\ [Next]_vars => IInv'
<1> SUFFICES ASSUME IInv, [Next]_vars PROVE IInv'
  OBVIOUS
<1>1. CASE RotateSpaceKey
  BY <1>1, RotateHolds
<1>2. CASE \E c \in Clients : \/ \E e \in Edits : Edit(c, e)
                              \/ LearnKey(c)
                              \/ Get(c)
                              \/ Send(c)
                              \/ GiveUp(c)
  BY <1>2, ClientHolds, SendHolds
<1>3. CASE \E p \in puts : CheckEpoch(p) \/ Upsert(p) \/ Refuse(p)
  BY <1>3, CheckEpochHolds, UpsertHolds, RefuseHolds
<1>4. CASE UNCHANGED vars
  BY <1>4 DEF vars, clientVars, IInv, TypeOK, VersionNamesDoc, NothingAhead, Merged,
              EmptyAtFirst, BaseMerged
<1> QED
  BY <1>1, <1>2, <1>3, <1>4 DEF Next

LEMMA InvariantHolds == Spec => []IInv
BY InitHolds, NextHolds, PTL DEF Spec

-----------------------------------------------------------------------------

(* Every reachable state of the document, its puts and its devices is well *)
(* typed.                                                                  *)
THEOREM TypeCorrect == Spec => []TypeOK
BY InvariantHolds, PTL DEF IInv

(* A version of workspace_docs names one document.                         *)
THEOREM VersionNamesDocHolds == Spec => []VersionNamesDoc
BY InvariantHolds, PTL DEF IInv

(* Only Upsert writes the document, and in IInv what it writes contains    *)
(* what was there: no edit that was stored is lost to a concurrent put.    *)
THEOREM NoEditLostHolds == Spec => NoEditLost
<1>1. ASSUME IInv, [Next]_vars PROVE [doc.content \subseteq doc'.content]_vars
  <2>1. CASE doc' = doc
    BY <2>1
  <2>2. CASE doc' # doc
    <3>1. PICK p \in puts : CheckEpoch(p) \/ Upsert(p) \/ Refuse(p)
      BY <1>1, <2>2 DEF Next, vars, RotateSpaceKey, Edit, LearnKey, Get, Send, GiveUp
    <3>2. /\ doc' = [version |-> doc.version + 1, epoch |-> p.req.epoch,
                     content |-> p.req.content]
          /\ doc.version = 0 \/ doc.version = p.req.base
      BY <3>1, <2>2, <1>1 DEF CheckEpoch, Upsert, Refuse, IInv, TypeOK, Doc
    <3> QED
      BY <3>2, <1>1 DEF IInv, EmptyAtFirst, BaseMerged, NoDoc
  <2> QED
    BY <2>1, <2>2
<1> QED
  BY <1>1, InvariantHolds, PTL DEF Spec, NoEditLost

(* Only a put whose epoch was compared is written, and in IInv its epoch   *)
(* is not behind that of the document its base names.                      *)
THEOREM EpochNeverBackHolds == Spec => EpochNeverBack
<1>1. ASSUME IInv, [Next]_vars PROVE [doc'.epoch >= doc.epoch]_vars
  <2>0. doc.epoch \in Nat
    BY <1>1 DEF IInv, TypeOK, Doc
  <2>1. CASE doc' = doc
    BY <2>0, <2>1
  <2>2. CASE doc' # doc
    <3>1. PICK p \in puts : CheckEpoch(p) \/ Upsert(p) \/ Refuse(p)
      BY <1>1, <2>2 DEF Next, vars, RotateSpaceKey, Edit, LearnKey, Get, Send, GiveUp
    <3>2. /\ doc' = [version |-> doc.version + 1, epoch |-> p.req.epoch,
                     content |-> p.req.content]
          /\ p.checked
          /\ doc.version = 0 \/ doc.version = p.req.base
      BY <3>1, <2>2, <1>1 DEF CheckEpoch, Upsert, Refuse, IInv, TypeOK, Doc, clientVars
    <3>3. p.req.epoch \in Nat
      BY <1>1 DEF IInv, TypeOK, Put, Request
    <3> QED
      BY <2>0, <3>2, <3>3, <1>1 DEF IInv, EmptyAtFirst, BaseMerged, NoDoc
  <2> QED
    BY <2>1, <2>2
<1> QED
  BY <1>1, InvariantHolds, PTL DEF Spec, EpochNeverBack
=============================================================================
