-------------------------- MODULE SpaceKeysProofs --------------------------
(***************************************************************************)
(* That the copies of the key of a space stay one key per epoch, that no   *)
(* device that opens the space is locked out and no escrow copy spoilt, for *)
(* any number of accounts, devices, epochs and requests.                   *)
(***************************************************************************)
EXTENDS SpaceKeys, TLAPS

Active(d) == stage[d] # "idle"

\* Requests that hold the row of the space FOR UPDATE.
Locks(d) == stage[d] \in {"locked", "inserted"} /\ request[d].op \in {"add", "rotate"}

\* Requests that bring a copy of a key which others have already.
Carries(d) == /\ Active(d)
              /\ request[d].op \in {"add", "grant", "approve", "admit"}
              /\ request[d].wraps # {}

\* Somebody has k as the key of the epoch e.
Copied(e, k) ==
    \/ \E r \in keys : r.epoch = e /\ r.key = k
    \/ \E d \in Devices : Carries(d) /\ request[d].epoch = e /\ request[d].key = k

\* What a request in progress is made of.
RequestSound(d) ==
    /\ request[d] \in Request
    /\ \A w \in request[d].wraps : w.device # Recovery => w.user = DeviceOwner[w.device]
    /\ request[d].op \in {"create", "rotate"} =>
         request[d].epoch \in 1 .. MaxEpoch /\ request[d].key = <<request[d].epoch, d>>
    /\ request[d].op = "create" =>
         stage[d] = "sent" /\ keyEpoch = 0 /\ request[d].epoch = 1
    /\ request[d].op \in {"add", "rotate"} => keyEpoch # 0
    /\ request[d].op = "add" => request[d].target \in Users
    /\ request[d].op \in {"approve", "admit"} =>
         /\ request[d].target \in Devices
         /\ request[d].wraps \subseteq {DeviceWrap(request[d].target)}
    /\ stage[d] = "locked" => request[d].op \in {"add", "rotate"}
    /\ Locks(d) => request[d].epoch = EpochExpected(request[d].op)

InOrder(d) ==
    /\ Active(d) => RequestSound(d)
    /\ stage[d] # "inserted" => rows[d] = {}
    /\ \A r \in rows[d] : /\ r.epoch = request[d].epoch
                          /\ r.key = request[d].key
                          /\ request[d].wraps # {}

RequestsSound == \A d \in Devices : InOrder(d)

\* The lock of the space is exclusive, and one request creates it.
Exclusive ==
    \A d, e \in Devices : d # e => /\ ~(Locks(d) /\ Locks(e))
                                   /\ ~(/\ Active(d) /\ request[d].op = "create"
                                        /\ Active(e) /\ request[e].op = "create")

\* One key per epoch, among the stored copies and those on their way.
OneKey ==
    \A e, k : Copied(e, k) => /\ e \in 1 .. keyEpoch
                              /\ k \in Key /\ k[1] = e
                              /\ \A l : Copied(e, l) => l = k

RowSound(r) ==
    /\ r.device # Recovery => r.user = DeviceOwner[r.device]
    /\ r.device = Recovery =>
         /\ r.recorded = "none" => r.sealed = "phrase"
         /\ r.recorded = "minted" => escrow[r.user] = "minted"

RowsSound ==
    /\ \A r \in keys : RowSound(r)
    /\ \A d \in Devices : \A r \in rows[d] : RowSound(r)

\* A device has a copy once it is active, or is being let in with one.
HolderActive ==
    /\ \A r \in keys : r.device # Recovery => status[r.device] \in {"active", "revoked"}
    /\ \A d \in Devices : \A r \in rows[d] : r.device # Recovery =>
         status[r.device] \in {"active", "revoked"} \/ Approving(d, r.device)

\* Who is being let in is not revoked meanwhile, nor let in twice at once.
ApprovingSound ==
    \A d \in Devices, t \in Devices : Approving(d, t) =>
        /\ status[t] # "revoked"
        /\ \A e \in Devices \ {d} : ~Approving(e, t)

\* Rows about to be inserted have their slots to themselves, or replace an
\* escrow copy of the retired key.
Slots ==
    /\ \A d, e \in Devices : d # e => \A r \in rows[d], s \in rows[e] : ~SameSlot(r, s)
    /\ \A d \in Devices : \A r \in rows[d] : \A k \in keys :
         SameSlot(r, k) => r.device = Recovery /\ k.recorded # "minted"

\* A rotation about to commit has a row for every device that opens the space.
Covered ==
    \A d \in Devices : Locks(d) /\ stage[d] = "inserted" /\ request[d].op = "rotate" =>
        \A x \in Devices : Reads(x) => \E r \in rows[d] : r.device = x

IInv ==
    /\ TypeOK
    /\ RequestsSound
    /\ Exclusive
    /\ OneKey
    /\ RowsSound
    /\ HolderActive
    /\ ApprovingSound
    /\ Slots
    /\ Covered

-----------------------------------------------------------------------------
(* Types.                                                                  *)

LEMMA RequestFields ==
    ASSUME NEW q \in Request
    PROVE  /\ q.op \in Ops /\ q.target \in Users \cup Devices \cup {None}
           /\ q.epoch \in Nat /\ q.key \in Key \cup {None} /\ q.wraps \subseteq Wrap
BY DEF Request

LEMMA RowFields ==
    ASSUME NEW r \in Row
    PROVE  /\ r.user \in Users /\ r.device \in Devices \cup {Recovery}
           /\ r.epoch \in Nat /\ r.key \in Key
           /\ r.sealed \in {"device", "phrase", "minted"}
           /\ r.recorded \in {"none", "phrase", "minted"}
BY DEF Row

LEMMA Numbers ==
    ASSUME IInv
    PROVE  keyEpoch \in Nat /\ MaxEpoch \in Nat /\ keyEpoch <= MaxEpoch
BY SpaceAssumption DEF IInv, TypeOK

(* What a step leaves alone when it is about the request of d.             *)
LEMMA Others ==
    ASSUME IInv, NEW d \in Devices, NEW q \in Request \cup {None},
           NEW g \in {"idle", "sent", "locked", "inserted"}, NEW R \in SUBSET Row,
           request' = [request EXCEPT ![d] = q],
           stage' = [stage EXCEPT ![d] = g],
           rows' = [rows EXCEPT ![d] = R]
    PROVE  /\ request'[d] = q /\ stage'[d] = g /\ rows'[d] = R
           /\ \A e \in Devices \ {d} : /\ request'[e] = request[e]
                                       /\ stage'[e] = stage[e]
                                       /\ rows'[e] = rows[e]
           /\ request' \in [Devices -> Request \cup {None}]
           /\ stage' \in [Devices -> {"idle", "sent", "locked", "inserted"}]
           /\ rows' \in [Devices -> SUBSET Row]
BY DEF IInv, TypeOK

-----------------------------------------------------------------------------
(* Steps that change the request of one device and nothing the server has. *)

LEMMA Frame ==
    ASSUME IInv, NEW d \in Devices,
           keyEpoch' = keyEpoch, members' = members, status' = status,
           escrow' = escrow, keys' = keys, failures' \in 0 .. MaxFailures,
           request' \in [Devices -> Request \cup {None}],
           stage' \in [Devices -> {"idle", "sent", "locked", "inserted"}],
           rows' \in [Devices -> SUBSET Row],
           \A e \in Devices \ {d} : /\ request'[e] = request[e]
                                    /\ stage'[e] = stage[e]
                                    /\ rows'[e] = rows[e],
           InOrder(d)',
           Locks(d)' => \A e \in Devices \ {d} : ~Locks(e),
           Active(d)' /\ request'[d].op = "create"
             => \A e \in Devices \ {d} : ~(Active(e) /\ request[e].op = "create"),
           Carries(d)' => Copied(request'[d].epoch, request'[d].key),
           \A r \in rows'[d] : RowSound(r),
           \A r \in rows'[d] : r.device # Recovery =>
             status[r.device] \in {"active", "revoked"} \/ Approving(d, r.device)',
           \A t \in Devices : Approving(d, t)' =>
             status[t] # "revoked" /\ \A e \in Devices \ {d} : ~Approving(e, t),
           \A e \in Devices \ {d} : \A r \in rows'[d], s \in rows[e] : ~SameSlot(r, s),
           \A r \in rows'[d] : \A k \in keys :
             SameSlot(r, k) => r.device = Recovery /\ k.recorded # "minted",
           stage'[d] = "inserted" /\ request'[d].op = "rotate" =>
             \A x \in Devices : Reads(x) => \E r \in rows'[d] : r.device = x
    PROVE  IInv'
<1>1. \A e \in Devices \ {d} : /\ Active(e)' <=> Active(e)
                               /\ Locks(e)' <=> Locks(e)
                               /\ Carries(e)' <=> Carries(e)
                               /\ \A t : Approving(e, t)' <=> Approving(e, t)
  BY DEF Active, Locks, Carries, Approving
<1>2. /\ \A r : RowSound(r)' <=> RowSound(r)
      /\ \A x : Reads(x)' <=> Reads(x)
  BY DEF RowSound, Reads, Served
<1>3. TypeOK'
  BY DEF IInv, TypeOK
<1>4. RequestsSound'
  <2>1. \A e \in Devices \ {d} : InOrder(e)'
    BY <1>1 DEF IInv, RequestsSound, InOrder, RequestSound, EpochExpected
  <2> QED
    BY <2>1 DEF RequestsSound
<1>5. Exclusive'
  BY <1>1 DEF IInv, Exclusive
<1>6. \A e, k : Copied(e, k)' => Copied(e, k)
  BY <1>1 DEF Copied
<1>7. OneKey'
  BY <1>6 DEF IInv, OneKey
<1>8. RowsSound'
  BY <1>2 DEF IInv, RowsSound
<1>9. HolderActive'
  BY <1>1 DEF IInv, HolderActive
<1>10. ApprovingSound'
  BY <1>1 DEF IInv, ApprovingSound
<1>11. Slots'
  BY DEF IInv, Slots, SameSlot
<1>12. Covered'
  BY <1>1, <1>2 DEF IInv, Covered, Locks
<1> QED
  BY <1>3, <1>4, <1>5, <1>7, <1>8, <1>9, <1>10, <1>11, <1>12 DEF IInv

(* A request that ends leaves nothing: Refuse, Fail.                       *)
LEMMA EndsHolds ==
    ASSUME IInv, NEW d \in Devices, Finish(d), failures' \in 0 .. MaxFailures,
           UNCHANGED <<keyEpoch, members, status, escrow, keys>>
    PROVE  IInv'
<1>1. /\ request'[d] = None /\ stage'[d] = "idle" /\ rows'[d] = {}
      /\ \A e \in Devices \ {d} : /\ request'[e] = request[e]
                                  /\ stage'[e] = stage[e]
                                  /\ rows'[e] = rows[e]
      /\ request' \in [Devices -> Request \cup {None}]
      /\ stage' \in [Devices -> {"idle", "sent", "locked", "inserted"}]
      /\ rows' \in [Devices -> SUBSET Row]
  BY Others DEF Finish
<1>2. /\ InOrder(d)' /\ ~Active(d)' /\ ~Locks(d)' /\ ~Carries(d)'
      /\ \A t : ~Approving(d, t)'
  BY <1>1 DEF InOrder, Active, Locks, Carries, Approving
<1> QED
  BY <1>1, <1>2, Frame

LEMMA RefuseHolds ==
    ASSUME IInv, NEW d \in Devices, Refuse(d)
    PROVE  IInv'
<1>1. failures \in 0 .. MaxFailures
  BY DEF IInv, TypeOK
<1> QED
  BY <1>1, EndsHolds DEF Refuse

LEMMA FailHolds ==
    ASSUME IInv, NEW d \in Devices, Fail(d)
    PROVE  IInv'
<1>1. failures' \in 0 .. MaxFailures
  BY SpaceAssumption DEF IInv, TypeOK, Fail
<1> QED
  BY <1>1, EndsHolds DEF Fail

(* A request that is sent carries a key that somebody has, or makes one.   *)
LEMMA SendsHolds ==
    ASSUME IInv, NEW d \in Devices, NEW q \in Request, Send(d, q),
           \A w \in q.wraps : w.device # Recovery => w.user = DeviceOwner[w.device],
           q.op \in {"create", "rotate"} =>
             q.epoch \in 1 .. MaxEpoch /\ q.key = <<q.epoch, d>>,
           q.op = "create" =>
             keyEpoch = 0 /\ q.epoch = 1 /\ \A e \in Devices : ~(Active(e) /\ request[e].op = "create"),
           q.op \in {"add", "rotate"} => keyEpoch # 0,
           q.op = "add" => q.target \in Users,
           q.op \in {"approve", "admit"} =>
             q.target \in Devices /\ q.wraps \subseteq {DeviceWrap(q.target)},
           q.op \in {"add", "grant", "approve", "admit"} /\ q.wraps # {}
             => Copied(q.epoch, q.key)
    PROVE  IInv'
<1>1. /\ request' = [request EXCEPT ![d] = q] /\ stage' = [stage EXCEPT ![d] = "sent"]
      /\ rows' = [rows EXCEPT ![d] = {}] /\ stage[d] = "idle"
  BY DEF Send, IInv, TypeOK, RequestsSound, InOrder
<1> q \in Request \cup {None} /\ {} \in SUBSET Row
    /\ "sent" \in {"idle", "sent", "locked", "inserted"}
  OBVIOUS
<1>2. /\ request'[d] = q /\ stage'[d] = "sent" /\ rows'[d] = {}
      /\ \A e \in Devices \ {d} : /\ request'[e] = request[e]
                                  /\ stage'[e] = stage[e]
                                  /\ rows'[e] = rows[e]
      /\ request' \in [Devices -> Request \cup {None}]
      /\ stage' \in [Devices -> {"idle", "sent", "locked", "inserted"}]
      /\ rows' \in [Devices -> SUBSET Row]
  BY <1>1, Others
<1>3. /\ keyEpoch' = keyEpoch /\ members' = members /\ status' = status
      /\ escrow' = escrow /\ keys' = keys /\ failures' = failures
      /\ failures \in 0 .. MaxFailures
  BY DEF Send, IInv, TypeOK
<1>4. ~Locks(d)' /\ \A t : ~Approving(d, t)'
  BY <1>2 DEF Locks, Approving
<1>5. InOrder(d)'
  BY <1>2, <1>3, <1>4 DEF InOrder, RequestSound
<1>6. Carries(d)' => Copied(request'[d].epoch, request'[d].key)
  BY <1>2 DEF Carries
<1> QED
  BY <1>2, <1>3, <1>4, <1>5, <1>6, Frame

(* A message is a request.                                                 *)
LEMMA Messages ==
    ASSUME NEW op \in Ops, NEW target \in Users \cup Devices \cup {None},
           NEW epoch \in Nat, NEW key \in Key \cup {None}, NEW wraps \in SUBSET Wrap
    PROVE  LET q == Message(op, target, epoch, key, wraps)
           IN  /\ q \in Request
               /\ q.op = op /\ q.target = target /\ q.epoch = epoch
               /\ q.key = key /\ q.wraps = wraps
BY DEF Message, Request

(* Recipients.                                                             *)
LEMMA WrapsTyped ==
    ASSUME IInv
    PROVE  /\ \A x \in Devices : /\ DeviceWrap(x) \in Wrap
                                 /\ DeviceWrap(x).user = DeviceOwner[x]
                                 /\ DeviceWrap(x).device = x
           /\ \A us \in SUBSET Users :
                /\ ActiveWraps(us) \subseteq Wrap /\ EscrowWraps(us) \subseteq Wrap
                /\ \A w \in ActiveWraps(us) : w.user = DeviceOwner[w.device]
                /\ \A w \in EscrowWraps(us) : w.device = Recovery
<1>1. \A x \in Devices : DeviceOwner[x] \in Users
  BY SpaceAssumption
<1>2. \A u \in Users : escrow[u] \in {"none", "phrase", "minted"}
  BY DEF IInv, TypeOK
<1>3. \A x \in Devices : /\ DeviceWrap(x) \in Wrap
                         /\ DeviceWrap(x).user = DeviceOwner[x]
                         /\ DeviceWrap(x).device = x
  BY <1>1 DEF DeviceWrap, Wrap
<1>4. ASSUME NEW us \in SUBSET Users
      PROVE  /\ EscrowWraps(us) \subseteq Wrap
             /\ \A w \in EscrowWraps(us) : w.device = Recovery
  BY <1>2 DEF EscrowWraps, Wrap
<1>5. ASSUME NEW us \in SUBSET Users
      PROVE  /\ ActiveWraps(us) \subseteq Wrap
             /\ \A w \in ActiveWraps(us) : w.user = DeviceOwner[w.device]
  BY <1>3 DEF ActiveWraps
<1> QED
  BY <1>3, <1>4, <1>5

(* What a device is served, and what escrow holds, is a copy of the key of *)
(* the epoch.                                                              *)
LEMMA ServedCopies ==
    ASSUME IInv, NEW r \in keys
    PROVE  /\ Copied(r.epoch, r.key) /\ r.epoch \in Nat /\ r.key \in Key /\ keyEpoch # 0
           /\ r.epoch \in 1 .. keyEpoch
<1>1. Copied(r.epoch, r.key)
  BY DEF Copied
<1> QED
  BY <1>1, RowFields, Numbers DEF IInv, TypeOK, OneKey

LEMMA InitHolds == Init => IInv
<1> SUFFICES ASSUME Init PROVE IInv
  OBVIOUS
<1>1. /\ \A d \in Devices : request[d] = None /\ stage[d] = "idle" /\ rows[d] = {}
      /\ escrow \in [Users -> {"none", "phrase", "minted"}] /\ failures = 0
      /\ request \in [Devices -> Request \cup {None}]
      /\ stage \in [Devices -> {"idle", "sent", "locked", "inserted"}]
      /\ rows \in [Devices -> SUBSET Row]
      /\ 0 \in 0 .. MaxFailures /\ MaxEpoch \in Nat \ {0}
  BY SpaceAssumption DEF Init
<1>2. \A d \in Devices : ~Active(d) /\ ~Locks(d) /\ ~Carries(d) /\ \A t : ~Approving(d, t)
  BY <1>1 DEF Active, Locks, Carries, Approving
<1>3. RequestsSound /\ Exclusive /\ ApprovingSound /\ Slots /\ Covered
  BY <1>1, <1>2 DEF RequestsSound, InOrder, Exclusive, ApprovingSound, Slots, Covered
<1>4. CASE keyEpoch = 0 /\ members = {} /\ keys = {} /\ status = FirstStatus
  <2>1. TypeOK
    BY <1>1, <1>4, SpaceAssumption DEF TypeOK
  <2>2. OneKey /\ RowsSound /\ HolderActive
    BY <1>1, <1>2, <1>4 DEF OneKey, Copied, RowsSound, HolderActive
  <2> QED
    BY <1>3, <2>1, <2>2 DEF IInv
<1>5. ASSUME NEW d \in DevicesOf(Owner),
             FirstEscrow[Owner] = "phrase", FirstStatus[d] # "pending",
             keyEpoch = 1, members = {Owner}, keys = OldRows(d),
             status = [FirstStatus EXCEPT ![d] = "active"]
      PROVE  IInv
  <2>1. d \in Devices /\ DeviceOwner[d] = Owner /\ Owner \in Users /\ Recovery # d
    BY <1>5, SpaceAssumption DEF DevicesOf
  <2>2. <<1, d>> \in Key /\ <<1, d>>[1] = 1
    BY <2>1 DEF Key
  <2>3. \A r \in keys : /\ r \in Row /\ r.epoch = 1 /\ r.key = <<1, d>>
                        /\ RowSound(r)
                        /\ r.device # Recovery => r.device = d
    <3> DEFINE a == [user |-> Owner, device |-> d, epoch |-> 1, key |-> <<1, d>>,
                       sealed |-> "device", recorded |-> "none"]
                 b == [user |-> Owner, device |-> Recovery, epoch |-> 1, key |-> <<1, d>>,
                       sealed |-> "phrase", recorded |-> "none"]
    <3>2. a \in Row /\ b \in Row
      BY <2>1, <2>2 DEF Row
    <3>3. RowSound(a) /\ RowSound(b)
      BY <2>1 DEF RowSound
    <3> QED
      BY <1>5, <3>2, <3>3 DEF OldRows
  <2>4. TypeOK
    BY <1>1, <1>5, <2>1, <2>3, SpaceAssumption DEF TypeOK
  <2>5. OneKey
    BY <1>2, <1>5, <2>2, <2>3 DEF OneKey, Copied
  <2>6. status[d] = "active"
    BY <1>5, <2>1, SpaceAssumption
  <2>7. RowsSound /\ HolderActive
    BY <1>1, <2>3, <2>6 DEF RowsSound, HolderActive
  <2> QED
    BY <1>3, <2>4, <2>5, <2>7 DEF IInv
<1> QED
  BY <1>4, <1>5 DEF Init

LEMMA AskCreateHolds ==
    ASSUME IInv, NEW d \in Devices, AskCreate(d)
    PROVE  IInv'
<1> DEFINE wraps == {DeviceWrap(d)} \cup EscrowWraps({Owner})
           q == Message("create", None, 1, <<1, d>>, wraps)
<1>1. /\ wraps \in SUBSET Wrap
      /\ \A w \in wraps : w.device # Recovery => w.user = DeviceOwner[w.device]
  BY WrapsTyped, SpaceAssumption
<1>2. <<1, d>> \in Key /\ "create" \in Ops /\ 1 \in Nat /\ 1 \in 1 .. MaxEpoch
  BY SpaceAssumption DEF Key, Ops
<1> HIDE DEF wraps
<1>3. /\ q \in Request /\ q.op = "create" /\ q.epoch = 1 /\ q.key = <<1, d>>
      /\ q.wraps = wraps
  BY <1>1, <1>2, Messages
<1>4. Send(d, q)
  BY DEF AskCreate, wraps
<1>5. keyEpoch = 0 /\ \A e \in Devices : ~(Active(e) /\ request[e].op = "create")
  BY DEF AskCreate, IInv, RequestsSound, InOrder, RequestSound
<1> HIDE DEF q
<1> QED
  BY <1>1, <1>2, <1>3, <1>4, <1>5, SendsHolds

LEMMA AskAddHolds ==
    ASSUME IInv, NEW d \in Devices, NEW u \in Users, AskAdd(d, u)
    PROVE  IInv'
<1> DEFINE wraps == ActiveWraps({u}) \cup EscrowWraps({u})
<1>1. /\ wraps \in SUBSET Wrap
      /\ \A w \in wraps : w.device # Recovery => w.user = DeviceOwner[w.device]
  BY WrapsTyped
<1>2. PICK r \in Served(d) : Send(d, Message("add", u, r.epoch, r.key, wraps))
  BY DEF AskAdd
<1> HIDE DEF wraps
<1> DEFINE q == Message("add", u, r.epoch, r.key, wraps)
<1>3. Copied(r.epoch, r.key) /\ r.epoch \in Nat /\ r.key \in Key /\ keyEpoch # 0
  BY ServedCopies DEF Served
<1>4. /\ q \in Request /\ q.op = "add" /\ q.target = u /\ q.epoch = r.epoch
      /\ q.key = r.key /\ q.wraps = wraps
  BY <1>1, <1>3, Messages DEF Ops
<1>5. Send(d, q)
  BY <1>2
<1> HIDE DEF q
<1> QED
  BY <1>1, <1>3, <1>4, <1>5, SendsHolds

LEMMA AskRotateHolds ==
    ASSUME IInv, NEW d \in Devices, AskRotate(d)
    PROVE  IInv'
<1>1. members \in SUBSET Users /\ Owner \in Users
  BY SpaceAssumption DEF IInv, TypeOK
<1>2. PICK us \in {{Owner}, members} :
        Send(d, Message("rotate", None, keyEpoch + 1, <<keyEpoch + 1, d>>,
                        ActiveWraps(members) \cup EscrowWraps(us)))
  BY DEF AskRotate
<1> DEFINE wraps == ActiveWraps(members) \cup EscrowWraps(us)
           q == Message("rotate", None, keyEpoch + 1, <<keyEpoch + 1, d>>, wraps)
<1>3. /\ wraps \in SUBSET Wrap
      /\ \A w \in wraps : w.device # Recovery => w.user = DeviceOwner[w.device]
  BY <1>1, WrapsTyped
<1>4. /\ keyEpoch + 1 \in Nat /\ keyEpoch + 1 \in 1 .. MaxEpoch
      /\ <<keyEpoch + 1, d>> \in Key
  BY Numbers DEF AskRotate, Key
<1>5. Send(d, q)
  BY <1>2
<1> HIDE DEF wraps
<1>6. /\ q \in Request /\ q.op = "rotate" /\ q.epoch = keyEpoch + 1
      /\ q.key = <<keyEpoch + 1, d>> /\ q.wraps = wraps
  BY <1>3, <1>4, Messages DEF Ops
<1>7. keyEpoch # 0
  BY ServedCopies DEF AskRotate, Reads, Served
<1> HIDE DEF q
<1> QED
  BY <1>3, <1>4, <1>5, <1>6, <1>7, SendsHolds

LEMMA AskGrantHolds ==
    ASSUME IInv, NEW d \in Devices, NEW w \in Gaps, AskGrant(d, w)
    PROVE  IInv'
<1>1. /\ w \in Wrap
      /\ w.device # Recovery => w.user = DeviceOwner[w.device]
  BY WrapsTyped DEF IInv, TypeOK, Gaps
<1>2. PICK r \in Served(d) : Send(d, Message("grant", None, r.epoch, r.key, {w}))
  BY DEF AskGrant
<1> DEFINE q == Message("grant", None, r.epoch, r.key, {w})
<1>3. Copied(r.epoch, r.key) /\ r.epoch \in Nat /\ r.key \in Key
  BY ServedCopies DEF Served
<1>4. /\ q \in Request /\ q.op = "grant" /\ q.epoch = r.epoch
      /\ q.key = r.key /\ q.wraps = {w}
  BY <1>1, <1>3, Messages DEF Ops
<1>5. Send(d, q)
  BY <1>2
<1> HIDE DEF q
<1> QED
  BY <1>1, <1>3, <1>4, <1>5, SendsHolds

(* What lets a device in carries copies for it only.                       *)
LEMMA LettingIn ==
    ASSUME IInv, NEW d \in Devices, NEW op \in {"approve", "admit"}, NEW t \in Devices,
           NEW epoch \in Nat, NEW key \in Key \cup {None}, NEW wraps \in SUBSET {DeviceWrap(t)},
           wraps # {} => Copied(epoch, key),
           Send(d, Message(op, t, epoch, key, wraps))
    PROVE  IInv'
<1> DEFINE q == Message(op, t, epoch, key, wraps)
<1>1. /\ wraps \in SUBSET Wrap
      /\ \A w \in wraps : w.user = DeviceOwner[w.device]
  BY WrapsTyped
<1>2. /\ q \in Request /\ q.op = op /\ q.target = t /\ q.epoch = epoch
      /\ q.key = key /\ q.wraps = wraps
  BY <1>1, Messages DEF Ops
<1>3. Send(d, q)
  OBVIOUS
<1> HIDE DEF q
<1> QED
  BY <1>1, <1>2, <1>3, SendsHolds

LEMMA AskApproveHolds ==
    ASSUME IInv, NEW d \in Devices, NEW t \in Devices, AskApprove(d, t)
    PROVE  IInv'
<1>1. PICK r \in Served(d) :
        Send(d, Message("approve", t, r.epoch, r.key, {DeviceWrap(t)}))
  BY DEF AskApprove
<1>2. Copied(r.epoch, r.key) /\ r.epoch \in Nat /\ r.key \in Key
  BY ServedCopies DEF Served
<1> QED
  BY <1>1, <1>2, LettingIn

LEMMA AskAdmitHolds ==
    ASSUME IInv, NEW d \in Devices, AskAdmit(d)
    PROVE  IInv'
<1>1. CASE Send(d, Message("admit", d, 0, None, {}))
  BY <1>1, LettingIn
<1>2. ASSUME NEW r \in Rewrapped(DeviceOwner[d]),
             Send(d, Message("admit", d, r.epoch, r.key, {DeviceWrap(d)}))
      PROVE  IInv'
  <2>1. Copied(r.epoch, r.key) /\ r.epoch \in Nat /\ r.key \in Key
    BY ServedCopies DEF Rewrapped, EscrowCopies
  <2> QED
    BY <1>2, <2>1, LettingIn
<1> QED
  BY <1>1, <1>2 DEF AskAdmit

-----------------------------------------------------------------------------
(* The server, up to the commit.                                           *)

(* A request that would write something has a key to write.                *)
LEMMA KeyIsKey ==
    ASSUME IInv, NEW d \in Devices, Active(d), request[d].wraps # {}
    PROVE  request[d].key \in Key
<1>1. RequestSound(d) /\ request[d].op \in Ops /\ MaxEpoch \in Nat
  BY Numbers, RequestFields DEF IInv, RequestsSound, InOrder, RequestSound
<1>2. CASE request[d].op \in {"create", "rotate"}
  <2>1. request[d].epoch \in Nat /\ request[d].key = <<request[d].epoch, d>>
    BY <1>1, <1>2, RequestFields DEF RequestSound
  <2> QED
    BY <2>1 DEF Key
<1>3. CASE request[d].op \in {"add", "grant", "approve", "admit"}
  <2>1. Copied(request[d].epoch, request[d].key)
    BY <1>3 DEF Carries, Copied
  <2> QED
    BY <2>1 DEF IInv, OneKey
<1> QED
  BY <1>1, <1>2, <1>3 DEF Ops

(* The rows that insertWrappedKeys makes of a request.                     *)
LEMMA RowsMade ==
    ASSUME IInv, NEW d \in Devices, Active(d), NEW epoch \in Nat,
           NEW r \in RowsFor(request[d], epoch)
    PROVE  /\ r \in Row /\ RowSound(r)
           /\ r.epoch = epoch /\ r.key = request[d].key /\ request[d].wraps # {}
           /\ r.device # Recovery => status[r.device] = "active"
           /\ r.device = Recovery => r.recorded = escrow[r.user]
<1>1. PICK w \in request[d].wraps :
        /\ IF w.device = Recovery THEN escrow[w.user] # "none" ELSE status[w.device] = "active"
        /\ r = [user |-> w.user, device |-> w.device, epoch |-> epoch,
                key |-> request[d].key, sealed |-> w.sealed,
                recorded |-> IF w.device = Recovery THEN escrow[w.user] ELSE "none"]
  BY DEF RowsFor
<1>2. /\ w \in Wrap /\ (w.device # Recovery => w.user = DeviceOwner[w.device])
      /\ request[d].key \in Key
  BY KeyIsKey, RequestFields DEF IInv, RequestsSound, InOrder, RequestSound
<1>3. /\ w.user \in Users /\ w.device \in Devices \cup {Recovery}
      /\ w.sealed \in {"device", "phrase", "minted"}
      /\ escrow[w.user] \in {"none", "phrase", "minted"}
  BY <1>2 DEF Wrap, IInv, TypeOK
<1>4. r \in Row
  BY <1>1, <1>2, <1>3 DEF Row
<1>5. /\ r.user = w.user /\ r.device = w.device /\ r.epoch = epoch
      /\ r.key = request[d].key
      /\ r.recorded = IF w.device = Recovery THEN escrow[w.user] ELSE "none"
  BY <1>1
<1>6. RowSound(r)
  BY <1>1, <1>2, <1>5 DEF RowSound
<1> QED
  BY <1>1, <1>4, <1>5, <1>6

(* An escrow copy gives way only to one that is recorded for another key.  *)
LEMMA LandingReplaces ==
    ASSUME IInv, NEW rs, NEW r \in Landing(rs), NEW k \in keys, SameSlot(r, k),
           r.device = Recovery => r.recorded = escrow[r.user]
    PROVE  r \in rs /\ r.device = Recovery /\ k.recorded # "minted"
<1>1. r \in rs /\ SameSlot(k, r)
  BY DEF Landing, SameSlot
<1>2. r.device = Recovery /\ r.recorded # k.recorded
  BY <1>1 DEF Landing
<1>3. k.recorded = "minted" => escrow[k.user] = "minted"
  BY <1>2 DEF IInv, RowsSound, RowSound, SameSlot
<1> QED
  BY <1>1, <1>2, <1>3 DEF SameSlot

LEMMA LockSpaceHolds ==
    ASSUME IInv, NEW d \in Devices, LockSpace(d)
    PROVE  IInv'
<1>1. CASE Refuse(d)
  BY <1>1, RefuseHolds
<1>2. CASE request[d].epoch = EpochExpected(request[d].op) /\ Continue(d, "locked", {})
  <2>1. /\ stage[d] = "sent" /\ request[d].op \in {"add", "rotate"} /\ SpaceFree
        /\ request[d] \in Request /\ RequestSound(d)
    BY DEF LockSpace, IInv, RequestsSound, InOrder, RequestSound, Active
  <2>2. /\ request' = [request EXCEPT ![d] = request[d]]
        /\ stage' = [stage EXCEPT ![d] = "locked"] /\ rows' = [rows EXCEPT ![d] = {}]
    BY <1>2 DEF Continue, IInv, TypeOK
  <2> request[d] \in Request \cup {None} /\ {} \in SUBSET Row
      /\ "locked" \in {"idle", "sent", "locked", "inserted"}
    BY <2>1
  <2>3. /\ request'[d] = request[d] /\ stage'[d] = "locked" /\ rows'[d] = {}
        /\ \A e \in Devices \ {d} : /\ request'[e] = request[e]
                                    /\ stage'[e] = stage[e]
                                    /\ rows'[e] = rows[e]
        /\ request' \in [Devices -> Request \cup {None}]
        /\ stage' \in [Devices -> {"idle", "sent", "locked", "inserted"}]
        /\ rows' \in [Devices -> SUBSET Row]
    BY <2>1, <2>2, Others
  <2>4. /\ keyEpoch' = keyEpoch /\ members' = members /\ status' = status
        /\ escrow' = escrow /\ keys' = keys /\ failures' = failures
        /\ failures \in 0 .. MaxFailures
    BY <1>2 DEF Continue, IInv, TypeOK
  <2>5. (\A e \in Devices : ~Locks(e)) /\ \A t : ~Approving(d, t)'
    BY <2>1, <2>3 DEF SpaceFree, Locks, Approving
  <2>6. InOrder(d)'
    BY <1>2, <2>1, <2>3, <2>4 DEF InOrder, RequestSound, Locks, EpochExpected
  <2>7. Carries(d)' => Copied(request'[d].epoch, request'[d].key)
    BY <2>1, <2>3 DEF Carries, Copied, Active
  <2> QED
    BY <2>1, <2>3, <2>4, <2>5, <2>6, <2>7, Frame
<1> QED
  BY <1>1, <1>2 DEF LockSpace

(* A request whose rows are inserted, all but committed.                   *)
LEMMA InsertsHolds ==
    ASSUME IInv, NEW d \in Devices, stage[d] \in {"sent", "locked"},
           request[d].op # "create",
           stage[d] = "sent" => request[d].op \notin {"add", "rotate"},
           NEW R \in SUBSET Row, Continue(d, "inserted", R), SlotsFree(d, R),
           \A r \in R : /\ RowSound(r)
                        /\ r.epoch = request[d].epoch /\ r.key = request[d].key
                        /\ request[d].wraps # {}
                        /\ r.device # Recovery => \/ status[r.device] \in {"active", "revoked"}
                                                  \/ /\ request[d].op \in {"approve", "admit"}
                                                     /\ request[d].target = r.device
                        /\ \A k \in keys :
                             SameSlot(r, k) => r.device = Recovery /\ k.recorded # "minted",
           request[d].op \in {"approve", "admit"}
             => DeviceFree(request[d].target) /\ status[request[d].target] # "revoked",
           request[d].op = "rotate" =>
             \A x \in Devices : Reads(x) => \E r \in R : r.device = x
    PROVE  IInv'
<1>1. Active(d) /\ request[d] \in Request /\ RequestSound(d)
  BY DEF IInv, RequestsSound, InOrder, RequestSound, Active
<1>2. /\ request' = [request EXCEPT ![d] = request[d]]
      /\ stage' = [stage EXCEPT ![d] = "inserted"] /\ rows' = [rows EXCEPT ![d] = R]
  BY DEF Continue, IInv, TypeOK
<1>3. /\ request'[d] = request[d] /\ stage'[d] = "inserted" /\ rows'[d] = R
      /\ \A e \in Devices \ {d} : /\ request'[e] = request[e]
                                  /\ stage'[e] = stage[e]
                                  /\ rows'[e] = rows[e]
      /\ request' \in [Devices -> Request \cup {None}]
      /\ stage' \in [Devices -> {"idle", "sent", "locked", "inserted"}]
      /\ rows' \in [Devices -> SUBSET Row]
  BY <1>1, <1>2, Others
<1>4. /\ keyEpoch' = keyEpoch /\ members' = members /\ status' = status
      /\ escrow' = escrow /\ keys' = keys /\ failures' = failures
      /\ failures \in 0 .. MaxFailures
  BY DEF Continue, IInv, TypeOK
<1>5. Locks(d)' => Locks(d)
  BY <1>3 DEF Locks
<1>6. Locks(d)' => \A e \in Devices \ {d} : ~Locks(e)
  BY <1>5 DEF IInv, Exclusive
<1>7. InOrder(d)'
  BY <1>1, <1>3, <1>4, <1>5 DEF InOrder, RequestSound, EpochExpected
<1>8. Carries(d)' => Copied(request'[d].epoch, request'[d].key)
  BY <1>1, <1>3 DEF Carries, Copied
<1>9. \A t \in Devices : Approving(d, t)' =>
        status[t] # "revoked" /\ \A e \in Devices \ {d} : ~Approving(e, t)
  BY <1>3 DEF Approving, DeviceFree
<1>10. \A r \in R : r.device # Recovery =>
         status[r.device] \in {"active", "revoked"} \/ Approving(d, r.device)'
  BY <1>3 DEF Approving
<1>11. \A e \in Devices \ {d} : \A r \in R, s \in rows[e] : ~SameSlot(r, s)
  BY DEF SlotsFree
<1> QED
  BY <1>3, <1>4, <1>6, <1>7, <1>8, <1>9, <1>10, <1>11, Frame

LEMMA InsertLockedHolds ==
    ASSUME IInv, NEW d \in Devices, InsertLocked(d)
    PROVE  IInv'
<1> DEFINE R == Landing(RowsOf(request[d]))
<1>1. CASE Refuse(d)
  BY <1>1, RefuseHolds
<1>2. CASE Accepted(request[d], R) /\ Continue(d, "inserted", R)
  <2>1. /\ stage[d] = "locked" /\ Active(d) /\ Locks(d) /\ RequestSound(d)
        /\ request[d].op \in {"add", "rotate"}
        /\ request[d].epoch = EpochExpected(request[d].op) /\ request[d].epoch \in Nat
    BY RequestFields
       DEF InsertLocked, IInv, RequestsSound, InOrder, RequestSound, Active, Locks
  <2>2. RowsOf(request[d]) = RowsFor(request[d], request[d].epoch)
    BY <2>1 DEF RowsOf, EpochExpected
  <2>3. \A r \in R : r \in RowsFor(request[d], request[d].epoch)
    BY <2>2 DEF Landing
  <2>4. \A r \in R : \A k \in keys :
          SameSlot(r, k) => r.device = Recovery /\ k.recorded # "minted"
    BY <2>1, <2>3, RowsMade, LandingReplaces
  <2>5. SlotsFree(d, R)
    BY DEF InsertLocked
  <2>6. request[d].op = "rotate" =>
          \A x \in Devices : Reads(x) => \E r \in R : r.device = x
    <3> SUFFICES ASSUME request[d].op = "rotate", NEW x \in Devices, Reads(x)
                 PROVE  \E r \in R : r.device = x
      OBVIOUS
    <3>1. DeviceOwner[x] \in members /\ status[x] = "active"
      BY DEF Reads, Served
    <3>2. PICK r \in keys \cup R : r.device = x /\ r.epoch = request[d].epoch
      BY <1>2, <3>1 DEF Accepted
    <3>3. r \notin keys
      BY <2>1, <3>2, ServedCopies, Numbers DEF EpochExpected
    <3> QED
      BY <3>2, <3>3
  <2> HIDE DEF R
  <2> QED
    BY <1>2, <2>1, <2>3, <2>4, <2>5, <2>6, RowsMade, InsertsHolds
<1> QED
  BY <1>1, <1>2 DEF InsertLocked

LEMMA InsertGrantHolds ==
    ASSUME IInv, NEW d \in Devices, InsertGrant(d)
    PROVE  IInv'
<1> DEFINE R == Landing(RowsOf(request[d]))
<1>1. CASE Refuse(d)
  BY <1>1, RefuseHolds
<1>2. CASE Continue(d, "inserted", R)
  <2>1. /\ stage[d] = "sent" /\ Active(d) /\ request[d].op = "grant"
        /\ request[d].epoch \in Nat
    BY RequestFields DEF InsertGrant, IInv, RequestsSound, InOrder, RequestSound, Active
  <2>2. \A r \in R : r \in RowsFor(request[d], request[d].epoch)
    BY <2>1 DEF Landing, RowsOf
  <2>3. \A r \in R : \A k \in keys :
          SameSlot(r, k) => r.device = Recovery /\ k.recorded # "minted"
    BY <2>1, <2>2, RowsMade, LandingReplaces
  <2>4. SlotsFree(d, R)
    BY DEF InsertGrant
  <2> HIDE DEF R
  <2> QED
    BY <1>2, <2>1, <2>2, <2>3, <2>4, RowsMade, InsertsHolds
<1> QED
  BY <1>1, <1>2 DEF InsertGrant

LEMMA InsertApprovedHolds ==
    ASSUME IInv, NEW d \in Devices, InsertApproved(d)
    PROVE  IInv'
<1> DEFINE req == request[d]
           made == {[user |-> w.user, device |-> w.device, epoch |-> req.epoch,
                     key |-> req.key, sealed |-> w.sealed, recorded |-> "none"] :
                         w \in {x \in req.wraps : /\ req.epoch = keyEpoch
                                                  /\ x.user \in members}}
           R == Landing(made)
<1>1. CASE Refuse(d)
  BY <1>1, RefuseHolds
<1>2. CASE status[req.target] # "revoked" /\ Continue(d, "inserted", R)
  <2>1. /\ stage[d] = "sent" /\ Active(d) /\ req.op \in {"approve", "admit"}
        /\ req.epoch \in Nat /\ req.target \in Devices /\ req.target # Recovery
        /\ req.wraps \subseteq {DeviceWrap(req.target)}
        /\ DeviceFree(req.target) /\ SlotsFree(d, R)
    BY RequestFields, SpaceAssumption
       DEF InsertApproved, IInv, RequestsSound, InOrder, RequestSound, Active
  <2>2. ASSUME NEW r \in made
        PROVE  /\ r \in Row /\ RowSound(r) /\ r.device = req.target /\ req.wraps # {}
               /\ r.epoch = req.epoch /\ r.key = req.key
    <3>1. /\ req.wraps # {}
          /\ r = [user |-> DeviceOwner[req.target], device |-> req.target,
                  epoch |-> req.epoch, key |-> req.key, sealed |-> "device",
                  recorded |-> "none"]
      BY <2>1, <2>2 DEF DeviceWrap
    <3>2. req.key \in Key /\ DeviceOwner[req.target] \in Users
      BY <2>1, <3>1, KeyIsKey, SpaceAssumption
    <3>3. r \in Row
      BY <2>1, <3>1, <3>2 DEF Row
    <3> QED
      BY <2>1, <3>1, <3>3 DEF RowSound
  <2> HIDE DEF made
  <2>3. ASSUME NEW r \in R
        PROVE  r \in made /\ \A k \in keys : ~SameSlot(r, k)
    BY <2>1, <2>2, <2>3, LandingReplaces DEF Landing
  <2> HIDE DEF R, req
  <2>4. R \in SUBSET Row
    BY <2>2, <2>3
  <2> QED
    BY <1>2, <2>1, <2>2, <2>3, <2>4, InsertsHolds DEF req
<1> QED
  BY <1>1, <1>2 DEF InsertApproved

LEMMA BreakDeadlockHolds ==
    ASSUME IInv, NEW d \in Devices, NEW e \in Devices, BreakDeadlock(d, e)
    PROVE  IInv'
BY RefuseHolds DEF BreakDeadlock

-----------------------------------------------------------------------------
(* Accounts and devices.                                                   *)

(* Steps that leave the requests alone.                                    *)
LEMMA Aside ==
    ASSUME UNCHANGED <<request, stage, rows>>
    PROVE  \A d : /\ Active(d)' <=> Active(d)
                  /\ Locks(d)' <=> Locks(d)
                  /\ Carries(d)' <=> Carries(d)
                  /\ \A t : Approving(d, t)' <=> Approving(d, t)
BY DEF Active, Locks, Carries, Approving

(* The copies become fewer, the members too, and the devices that can read. *)
LEMMA FewerHolds ==
    ASSUME IInv, UNCHANGED <<keyEpoch, request, stage, rows, failures>>, TypeOK',
           keys' \subseteq keys, members' \subseteq members,
           \A u \in Users : escrow[u] = "minted" => escrow'[u] = "minted",
           \A x \in Devices :
             /\ status[x] \in {"active", "revoked"} => status'[x] \in {"active", "revoked"}
             /\ status'[x] = "revoked" => status[x] = "revoked" \/ DeviceFree(x)
             /\ status'[x] = "active" => status[x] \in {"active", "absent"}
    PROVE  IInv'
<1>1. RequestsSound'
  BY Aside DEF IInv, RequestsSound, InOrder, RequestSound, EpochExpected
<1>2. Exclusive'
  BY Aside DEF IInv, Exclusive
<1>3. OneKey'
  <2>1. \A e, k : Copied(e, k)' => Copied(e, k)
    BY Aside DEF Copied
  <2> QED
    BY <2>1 DEF IInv, OneKey
<1>4. RowsSound'
  <2>1. \A r \in Row : RowSound(r) => RowSound(r)'
    BY RowFields DEF RowSound
  <2> QED
    BY <2>1 DEF IInv, TypeOK, RowsSound
<1>5. HolderActive'
  BY Aside, RowFields DEF IInv, TypeOK, HolderActive
<1>6. ApprovingSound'
  BY Aside DEF IInv, ApprovingSound, DeviceFree
<1>7. Slots'
  BY DEF IInv, Slots, SameSlot
<1>8. \A x \in Devices : Reads(x)' => Reads(x)
  <2> SUFFICES ASSUME NEW x \in Devices, NEW r \in Served(x)'
               PROVE  Reads(x)
    BY DEF Reads
  <2>1. /\ r \in keys /\ r.user = DeviceOwner[x] /\ r.user \in members
        /\ r.device = x /\ r.epoch = keyEpoch /\ status'[x] = "active" /\ x # Recovery
    BY SpaceAssumption DEF Served
  <2>2. status[x] = "active"
    BY <2>1 DEF IInv, HolderActive
  <2> QED
    BY <2>1, <2>2 DEF Reads, Served
<1>9. Covered'
  BY <1>8, Aside DEF IInv, Covered
<1> QED
  BY <1>1, <1>2, <1>3, <1>4, <1>5, <1>6, <1>7, <1>9 DEF IInv

LEMMA RegisterHolds ==
    ASSUME IInv, NEW d \in Devices, Register(d)
    PROVE  IInv'
<1>1. TypeOK'
  BY DEF Register, IInv, TypeOK
<1>2. \A x \in Devices : status'[x] = IF x = d THEN "active" ELSE status[x]
  BY DEF Register, IInv, TypeOK
<1> QED
  BY <1>1, <1>2, FewerHolds DEF Register

LEMMA MintEscrowHolds ==
    ASSUME IInv, NEW u \in Users, MintEscrow(u)
    PROVE  IInv'
<1>1. TypeOK'
  BY DEF MintEscrow, IInv, TypeOK
<1>2. \A v \in Users : escrow'[v] = IF v = u THEN "minted" ELSE escrow[v]
  BY DEF MintEscrow, IInv, TypeOK
<1> QED
  BY <1>1, <1>2, FewerHolds DEF MintEscrow

LEMMA RevokeHolds ==
    ASSUME IInv, NEW d \in Devices, Revoke(d)
    PROVE  IInv'
<1>1. TypeOK'
  BY DEF Revoke, IInv, TypeOK
<1>2. \A x \in Devices : status'[x] = IF x = d THEN "revoked" ELSE status[x]
  BY DEF Revoke, IInv, TypeOK
<1> QED
  BY <1>1, <1>2, FewerHolds DEF Revoke

LEMMA RemoveMemberHolds ==
    ASSUME IInv, NEW u \in Users, RemoveMember(u)
    PROVE  IInv'
<1>1. TypeOK'
  BY DEF RemoveMember, IInv, TypeOK
<1> QED
  BY <1>1, FewerHolds DEF RemoveMember

-----------------------------------------------------------------------------
(* The commits.                                                            *)

(* What is left of the requests after the one of d is over.                *)
LEMMA Over ==
    ASSUME IInv, NEW d \in Devices, Finish(d)
    PROVE  /\ request'[d] = None /\ stage'[d] = "idle" /\ rows'[d] = {}
           /\ \A e \in Devices \ {d} : /\ request'[e] = request[e]
                                       /\ stage'[e] = stage[e]
                                       /\ rows'[e] = rows[e]
           /\ request' \in [Devices -> Request \cup {None}]
           /\ stage' \in [Devices -> {"idle", "sent", "locked", "inserted"}]
           /\ rows' \in [Devices -> SUBSET Row]
           /\ ~Active(d)' /\ ~Locks(d)' /\ ~Carries(d)' /\ \A t : ~Approving(d, t)'
           /\ \A e \in Devices \ {d} : /\ Active(e)' <=> Active(e)
                                       /\ Locks(e)' <=> Locks(e)
                                       /\ Carries(e)' <=> Carries(e)
                                       /\ \A t : Approving(e, t)' <=> Approving(e, t)
<1>1. /\ request'[d] = None /\ stage'[d] = "idle" /\ rows'[d] = {}
      /\ \A e \in Devices \ {d} : /\ request'[e] = request[e]
                                  /\ stage'[e] = stage[e]
                                  /\ rows'[e] = rows[e]
      /\ request' \in [Devices -> Request \cup {None}]
      /\ stage' \in [Devices -> {"idle", "sent", "locked", "inserted"}]
      /\ rows' \in [Devices -> SUBSET Row]
  BY Others DEF Finish
<1> QED
  BY <1>1 DEF Active, Locks, Carries, Approving

LEMMA CreateHolds ==
    ASSUME IInv, NEW d \in Devices, Create(d)
    PROVE  IInv'
<1> DEFINE R == RowsFor(request[d], 1)
<1>1. CASE Refuse(d)
  BY <1>1, RefuseHolds
<1>2. CASE /\ keyEpoch' = 1 /\ members' = {Owner} /\ keys' = R /\ Finish(d)
           /\ UNCHANGED <<status, escrow, failures>>
  <2>1. /\ Active(d) /\ RequestSound(d) /\ request[d].op = "create"
        /\ keyEpoch = 0 /\ request[d].epoch = 1 /\ request[d].key = <<1, d>>
    BY DEF Create, Active, IInv, RequestsSound, InOrder, RequestSound
  <2>2. \A r \in R : /\ r \in Row /\ RowSound(r) /\ r.epoch = 1 /\ r.key = <<1, d>>
                     /\ r.device # Recovery => status[r.device] = "active"
    BY <2>1, RowsMade
  <2> HIDE DEF R
  <2>3. \A e, k : ~Copied(e, k)
    BY <2>1 DEF IInv, OneKey
  <2>4. \A e \in Devices \ {d} :
          /\ Active(e) => request[e].op \in {"grant", "approve", "admit"} /\ RequestSound(e)
          /\ ~Locks(e) /\ ~Carries(e) /\ rows[e] = {}
    <3> TAKE e \in Devices \ {d}
    <3>1. Active(e) => request[e].op \in {"grant", "approve", "admit"} /\ RequestSound(e)
      BY <2>1, RequestFields
         DEF IInv, RequestsSound, InOrder, RequestSound, Exclusive, Ops
    <3>2. ~Carries(e)
      BY <2>3 DEF Copied
    <3>3. rows[e] = {}
      BY <3>1, <3>2 DEF IInv, RequestsSound, InOrder, Carries, Active
    <3> QED
      BY <3>1, <3>2, <3>3 DEF Locks, Active
  <2>5. TypeOK'
    BY <1>2, <2>2, Over, SpaceAssumption DEF IInv, TypeOK
  <2>6. RequestsSound'
    <3>1. \A e \in Devices \ {d} : InOrder(e)'
      BY <2>4, Over, <1>2 DEF InOrder, RequestSound
    <3>2. InOrder(d)'
      BY Over, <1>2 DEF InOrder, Active
    <3> QED
      BY <3>1, <3>2 DEF RequestsSound
  <2>7. Exclusive' /\ Covered'
    BY <1>2, <2>4, Over DEF Exclusive, Covered
  <2>8. OneKey'
    <3>1. \A e, k : Copied(e, k)' => e = 1 /\ k = <<1, d>>
      BY <1>2, <2>2, <2>4, Over DEF Copied
    <3>2. <<1, d>> \in Key /\ <<1, d>>[1] = 1
      BY DEF Key
    <3> QED
      BY <1>2, <3>1, <3>2 DEF OneKey
  <2>9. RowsSound'
    BY <1>2, <2>2, <2>4, Over DEF RowsSound, RowSound
  <2>10. HolderActive' /\ Slots'
    BY <1>2, <2>2, <2>4, Over DEF HolderActive, Slots
  <2>11. ApprovingSound'
    BY <1>2, Over DEF IInv, ApprovingSound
  <2> QED
    BY <2>5, <2>6, <2>7, <2>8, <2>9, <2>10, <2>11 DEF IInv
<1> QED
  BY <1>1, <1>2 DEF Create

(* Rows that land on the epoch they were made for.                         *)
LEMMA LandsHolds ==
    ASSUME IInv, NEW d \in Devices, stage[d] = "inserted",
           request[d].op \in {"add", "grant", "approve", "admit"},
           Finish(d), keys' = Written(rows[d]),
           UNCHANGED <<keyEpoch, escrow, failures>>,
           members \subseteq members', members' \subseteq Users,
           status' \in [Devices -> {"absent", "pending", "active", "revoked"}],
           \A x \in Devices : status'[x] = IF Approving(d, x) THEN "active" ELSE status[x],
           \A e \in Devices \ {d} : Locks(e) =>
             members' = members /\ \A r \in rows[d] : r.device = Recovery
    PROVE  IInv'
<1>1. /\ RequestSound(d) /\ Active(d) /\ InOrder(d)
      /\ rows[d] \subseteq Row /\ keys \subseteq Row
  BY DEF IInv, TypeOK, RequestsSound, InOrder, Active
<1>2. keys' \subseteq keys \cup rows[d]
  BY DEF Written
<1>3. \A r : RowSound(r)' <=> RowSound(r)
  BY DEF RowSound
<1>4. TypeOK'
  BY <1>1, <1>2, Over DEF IInv, TypeOK
<1>5. RequestsSound'
  <2>1. \A e \in Devices \ {d} : InOrder(e)'
    BY Over DEF IInv, RequestsSound, InOrder, RequestSound, EpochExpected
  <2>2. InOrder(d)'
    BY Over DEF InOrder
  <2> QED
    BY <2>1, <2>2 DEF RequestsSound
<1>6. Exclusive'
  BY Over DEF IInv, Exclusive
<1>7. OneKey'
  <2>1. \A r \in rows[d] : Copied(r.epoch, r.key)
    BY <1>1 DEF InOrder, Copied, Carries
  <2>2. \A e, k : Copied(e, k)' => Copied(e, k)
    BY <1>2, <2>1, Over DEF Copied
  <2> QED
    BY <2>2 DEF IInv, OneKey
<1>8. RowsSound'
  BY <1>2, <1>3, Over DEF IInv, RowsSound
<1>9. HolderActive'
  <2>1. \A x \in Devices : status[x] \in {"active", "revoked"} \/ Approving(d, x)
          => status'[x] \in {"active", "revoked"}
    OBVIOUS
  <2>2. \A r \in keys' : r.device # Recovery => r.device \in Devices
    BY <1>1, <1>2, RowFields
  <2>3. \A e \in Devices : \A r \in rows[e] : r.device # Recovery => r.device \in Devices
    BY RowFields DEF IInv, TypeOK
  <2>4. \A r \in keys' : r.device # Recovery => status'[r.device] \in {"active", "revoked"}
    BY <1>2, <2>1, <2>2 DEF IInv, HolderActive
  <2>5. ASSUME NEW e \in Devices \ {d}, NEW r \in rows[e], r.device # Recovery
        PROVE  status'[r.device] \in {"active", "revoked"} \/ Approving(e, r.device)'
    BY <2>1, <2>3, <2>5, Over DEF IInv, HolderActive
  <2> QED
    BY <2>4, <2>5, Over DEF HolderActive
<1>10. ApprovingSound'
  <2>1. \A x \in Devices : status'[x] = "revoked" => status[x] = "revoked"
    OBVIOUS
  <2> QED
    BY <2>1, Over DEF IInv, ApprovingSound
<1>11. Slots'
  <2>1. \A e \in Devices \ {d} : \A r \in rows[e] : \A k \in rows[d] : ~SameSlot(r, k)
    BY DEF IInv, Slots
  <2> QED
    BY <1>2, <2>1, Over DEF IInv, Slots, SameSlot
<1>12. Covered'
  <2> SUFFICES ASSUME NEW e \in Devices, Locks(e)', stage'[e] = "inserted",
                      request'[e].op = "rotate", NEW x \in Devices, Reads(x)'
               PROVE  \E r \in rows'[e] : r.device = x
    BY DEF Covered
  <2>1. e # d /\ Locks(e) /\ stage[e] = "inserted" /\ request[e].op = "rotate"
        /\ rows'[e] = rows[e]
    BY Over
  <2>2. PICK r \in keys' : /\ r.user = DeviceOwner[x] /\ r.user \in members'
                           /\ r.device = x /\ r.epoch = keyEpoch /\ status'[x] = "active"
    BY DEF Reads, Served
  <2>3. r \in keys /\ r.user \in members
    BY <1>2, <2>1, <2>2, SpaceAssumption
  <2>4. status[x] = "active"
    BY <2>2, <2>3, SpaceAssumption DEF IInv, HolderActive, ApprovingSound
  <2>5. Reads(x)
    BY <2>2, <2>3, <2>4 DEF Reads, Served
  <2> QED
    BY <2>1, <2>5 DEF IInv, Covered
<1> QED
  BY <1>4, <1>5, <1>6, <1>7, <1>8, <1>9, <1>10, <1>11, <1>12 DEF IInv

LEMMA CommitAddHolds ==
    ASSUME IInv, NEW d \in Devices, Commit(d), CommitAdd(d)
    PROVE  IInv'
<1>1. stage[d] = "inserted" /\ request[d].op = "add" /\ Locks(d) /\ request[d].target \in Users
  BY DEF Commit, CommitAdd, Locks, Active, IInv, RequestsSound, InOrder, RequestSound
<1>2. (\A x : ~Approving(d, x)) /\ \A e \in Devices \ {d} : ~Locks(e)
  BY <1>1 DEF Approving, IInv, Exclusive
<1>3. members' = members \cup {request[d].target} /\ members \subseteq Users
      /\ status' = status /\ status \in [Devices -> {"absent", "pending", "active", "revoked"}]
  BY DEF CommitAdd, IInv, TypeOK
<1> QED
  BY <1>1, <1>2, <1>3, LandsHolds DEF Commit, CommitAdd

LEMMA CommitGrantHolds ==
    ASSUME IInv, NEW d \in Devices, Commit(d), CommitGrant(d)
    PROVE  IInv'
<1>1. stage[d] = "inserted" /\ request[d].op = "grant" /\ \A x : ~Approving(d, x)
  BY DEF Commit, CommitGrant, Approving
<1>2. members \subseteq Users
      /\ status' = status /\ status \in [Devices -> {"absent", "pending", "active", "revoked"}]
  BY DEF CommitGrant, IInv, TypeOK
<1>3. ASSUME NEW e \in Devices \ {d}, Locks(e)
      PROVE  \A r \in rows[d] : r.device = Recovery
  <2>1. rows[d] = Replacing(d)
    BY <1>3 DEF CommitGrant, SpaceFree, Locks
  <2>2. \A r \in rows[d] : \E k \in keys : SameSlot(r, k)
    BY <2>1 DEF Replacing, SameSlot
  <2> QED
    BY <2>2 DEF IInv, Slots
<1> QED
  BY <1>1, <1>2, <1>3, LandsHolds DEF Commit, CommitGrant

LEMMA CommitApproveHolds ==
    ASSUME IInv, NEW d \in Devices, Commit(d), CommitApprove(d)
    PROVE  IInv'
<1>1. /\ stage[d] = "inserted" /\ request[d].op \in {"approve", "admit"}
      /\ \A x : Approving(d, x) <=> x = request[d].target
  BY DEF Commit, CommitApprove, Approving
<1>2. /\ members \subseteq Users /\ members' = members
      /\ status' = [status EXCEPT ![request[d].target] = "active"]
      /\ status \in [Devices -> {"absent", "pending", "active", "revoked"}]
  BY DEF CommitApprove, IInv, TypeOK
<1>3. /\ status' \in [Devices -> {"absent", "pending", "active", "revoked"}]
      /\ \A x \in Devices : status'[x] = IF Approving(d, x) THEN "active" ELSE status[x]
  BY <1>1, <1>2
<1>4. \A e \in Devices \ {d} : Locks(e) => rows[d] = {}
  BY DEF CommitApprove, SpaceFree, Locks
<1> QED
  BY <1>1, <1>2, <1>3, <1>4, LandsHolds DEF Commit, CommitApprove

(* The new epoch begins with the key of the one rotation that is let       *)
(* through.                                                                *)
LEMMA CommitRotateHolds ==
    ASSUME IInv, NEW d \in Devices, Commit(d), CommitRotate(d)
    PROVE  IInv'
<1>1. /\ stage[d] = "inserted" /\ request[d].op = "rotate" /\ Locks(d)
      /\ RequestSound(d) /\ InOrder(d) /\ keyEpoch # 0
      /\ request[d].epoch = keyEpoch + 1 /\ request[d].epoch \in 1 .. MaxEpoch
      /\ request[d].key = <<request[d].epoch, d>>
      /\ rows[d] \subseteq Row /\ keys \subseteq Row
  BY DEF Commit, CommitRotate, Locks, Active, IInv, TypeOK, RequestsSound, InOrder,
         RequestSound, EpochExpected
<1>2. PICK E \in Nat : E = keyEpoch + 1 /\ request[d].epoch = E
  BY <1>1, Numbers
<1>3. /\ Finish(d) /\ keyEpoch' = E
      /\ escrow' = escrow /\ failures' = failures /\ members' = members /\ status' = status
      /\ keys' \subseteq keys \cup rows[d] /\ \A r \in keys' : r.epoch >= E
  BY <1>2 DEF Commit, CommitRotate, Written
<1>4. \A r \in keys' : r \in rows[d] /\ r.epoch = E /\ r.key = <<E, d>>
  BY <1>1, <1>2, <1>3, ServedCopies, Numbers DEF InOrder
<1>5. /\ \A e \in Devices \ {d} : ~Locks(e) /\ (Active(e) => request[e].op # "create")
      /\ \A x : ~Approving(d, x)
  BY <1>1 DEF IInv, Exclusive, RequestsSound, InOrder, RequestSound, Approving
<1>6. \A r : RowSound(r)' <=> RowSound(r)
  BY <1>3 DEF RowSound
<1>7. TypeOK'
  BY <1>1, <1>2, <1>3, <1>4, Over, Numbers DEF IInv, TypeOK
<1>8. RequestsSound'
  <2>1. \A e \in Devices \ {d} : InOrder(e)'
    BY <1>2, <1>3, <1>5, Over, Numbers
       DEF IInv, RequestsSound, InOrder, RequestSound
  <2>2. InOrder(d)'
    BY <1>3, Over DEF InOrder
  <2> QED
    BY <2>1, <2>2 DEF RequestsSound
<1>9. Exclusive' /\ Covered'
  BY <1>3, <1>5, Over DEF IInv, Exclusive, Covered
<1>10. OneKey'
  <2>1. \A e, k : Copied(e, k)' => \/ e = E /\ k = <<E, d>>
                                   \/ Copied(e, k)
    BY <1>3, <1>4, Over DEF Copied
  <2>2. \A e, k : Copied(e, k) => e \in 1 .. E /\ e # E
    BY <1>2, Numbers DEF IInv, OneKey
  <2>3. <<E, d>> \in Key /\ <<E, d>>[1] = E /\ E \in 1 .. E
    BY <1>1, <1>2 DEF Key
  <2> QED
    BY <1>3, <2>1, <2>2, <2>3 DEF IInv, OneKey
<1>11. RowsSound'
  BY <1>3, <1>6, Over DEF IInv, RowsSound
<1>12. HolderActive' /\ ApprovingSound'
  BY <1>3, <1>5, Over DEF IInv, HolderActive, ApprovingSound
<1>13. Slots'
  <2>1. \A e \in Devices \ {d} : \A r \in rows[e] : \A k \in rows[d] : ~SameSlot(r, k)
    BY DEF IInv, Slots
  <2> QED
    BY <1>3, <1>4, <2>1, Over DEF IInv, Slots, SameSlot
<1> QED
  BY <1>7, <1>8, <1>9, <1>10, <1>11, <1>12, <1>13 DEF IInv

-----------------------------------------------------------------------------

LEMMA NextHolds == IInv /\ [Next]_vars => IInv'
<1> SUFFICES ASSUME IInv, [Next]_vars PROVE IInv'
  OBVIOUS
<1>1. CASE UNCHANGED vars
  <2>1. TypeOK' /\ UNCHANGED vars
    BY <1>1 DEF vars, IInv, TypeOK
  <2> QED
    BY <2>1, FewerHolds DEF vars
<1>2. ASSUME NEW u \in Users, MintEscrow(u) \/ RemoveMember(u) PROVE IInv'
  BY <1>2, MintEscrowHolds, RemoveMemberHolds
<1>3. ASSUME NEW d \in Devices, Register(d) \/ Revoke(d) PROVE IInv'
  BY <1>3, RegisterHolds, RevokeHolds
<1>4. ASSUME NEW d \in Devices, \/ AskCreate(d) \/ AskRotate(d) \/ AskAdmit(d)
                                \/ \E u \in Users : AskAdd(d, u)
                                \/ \E w \in Gaps : AskGrant(d, w)
                                \/ \E e \in Devices : AskApprove(d, e)
      PROVE  IInv'
  BY <1>4, AskCreateHolds, AskRotateHolds, AskAdmitHolds, AskAddHolds, AskGrantHolds,
     AskApproveHolds
<1>5. ASSUME NEW d \in Devices, Commit(d) PROVE IInv'
  BY <1>5, CommitAddHolds, CommitRotateHolds, CommitGrantHolds, CommitApproveHolds DEF Commit
<1>6. ASSUME NEW d \in Devices, \/ Create(d) \/ LockSpace(d) \/ InsertLocked(d)
                                \/ InsertGrant(d) \/ InsertApproved(d) \/ Fail(d)
                                \/ \E e \in Devices : BreakDeadlock(d, e)
      PROVE  IInv'
  BY <1>6, CreateHolds, LockSpaceHolds, InsertLockedHolds, InsertGrantHolds,
     InsertApprovedHolds, FailHolds, BreakDeadlockHolds
<1> QED
  BY <1>1, <1>2, <1>3, <1>4, <1>5, <1>6 DEF Next

LEMMA InvariantHolds == Spec => []IInv
BY InitHolds, NextHolds, PTL DEF Spec

(* Every reachable state of the space, its copies and the requests about   *)
(* them is well typed.                                                     *)
THEOREM TypeCorrect == Spec => []TypeOK
<1>1. IInv => TypeOK
  BY DEF IInv
<1> QED
  BY <1>1, InvariantHolds, PTL

(* All stored copies of an epoch are of one key, and no key serves two     *)
(* epochs, whatever is sealed while the key rotates (RotateSpaceKey,       *)
(* AddMember, GrantSpaceKeys, ApproveDevice).                              *)
THEOREM OneKeyPerEpochHolds == Spec => []OneKeyPerEpoch
<1>1. IInv => OneKeyPerEpoch
  <2> SUFFICES ASSUME IInv, NEW r \in keys, NEW s \in keys
               PROVE  r.epoch = s.epoch <=> r.key = s.key
    BY DEF OneKeyPerEpoch
  <2>1. Copied(r.epoch, r.key) /\ Copied(s.epoch, s.key)
    BY DEF Copied
  <2> QED
    BY <2>1 DEF IInv, OneKey
<1> QED
  BY <1>1, InvariantHolds, PTL

-----------------------------------------------------------------------------
(* What a step may never do.                                               *)

\* What steps do to the copies and their epoch.
KeysAlone == keys' = keys /\ keyEpoch' = keyEpoch
Lands(d) == keys' = Written(rows[d]) /\ keyEpoch' = keyEpoch
Rotates(d) == Commit(d) /\ CommitRotate(d)

LEMMA StepsOnKeys ==
    ASSUME IInv, Next
    PROVE  \/ KeysAlone
           \/ \E u \in Users : RemoveMember(u)
           \/ \E d \in Devices : Revoke(d) \/ Lands(d) \/ Rotates(d) \/ Create(d)
<1>1. ASSUME NEW u \in Users, MintEscrow(u) PROVE KeysAlone
  BY <1>1 DEF MintEscrow, KeysAlone
<1>2. ASSUME NEW d \in Devices, Register(d) \/ Fail(d) \/ Refuse(d) PROVE KeysAlone
  BY <1>2 DEF Register, Fail, Refuse, KeysAlone
<1>3. ASSUME NEW d \in Devices, NEW q, Send(d, q) PROVE KeysAlone
  BY <1>3 DEF Send, KeysAlone
<1>4. ASSUME NEW d \in Devices, NEW to, NEW R, Continue(d, to, R) PROVE KeysAlone
  BY <1>4 DEF Continue, KeysAlone
<1>5. ASSUME NEW d \in Devices, \/ AskCreate(d) \/ AskRotate(d) \/ AskAdmit(d)
                                \/ \E u \in Users : AskAdd(d, u)
                                \/ \E w \in Gaps : AskGrant(d, w)
                                \/ \E e \in Devices : AskApprove(d, e)
      PROVE  KeysAlone
  BY <1>3, <1>5 DEF AskCreate, AskRotate, AskAdmit, AskAdd, AskGrant, AskApprove
<1>6. ASSUME NEW d \in Devices, \/ LockSpace(d) \/ InsertLocked(d) \/ InsertGrant(d)
                                \/ InsertApproved(d)
                                \/ \E e \in Devices : BreakDeadlock(d, e)
      PROVE  KeysAlone
  BY <1>2, <1>4, <1>6 DEF LockSpace, InsertLocked, InsertGrant, InsertApproved, BreakDeadlock
<1>7. ASSUME NEW d \in Devices, Commit(d) PROVE Lands(d) \/ Rotates(d)
  BY <1>7 DEF Commit, CommitAdd, CommitGrant, CommitApprove, Lands, Rotates
<1> QED
  BY <1>1, <1>2, <1>5, <1>6, <1>7 DEF Next

\* A copy is gone only with its device or member, with its epoch, or for another
\* in its place, when it was not recorded as sealed to the minted key.
Kept(r) ==
    \/ r \in keys'
    \/ r.user \notin members'
    \/ r.device \in Devices /\ status'[r.device] = "revoked"
    \/ keyEpoch' # keyEpoch
    \/ r.device = Recovery /\ r.recorded # "minted"

LEMMA CopiesKept ==
    ASSUME IInv, Next, NEW r \in keys, r.user \in members
    PROVE  Kept(r)
<1>1. ASSUME NEW d \in Devices, Lands(d) PROVE Kept(r)
  <2>1. CASE \E s \in rows[d] : SameSlot(r, s)
    BY <2>1 DEF IInv, Slots, SameSlot, Kept
  <2>2. CASE ~\E s \in rows[d] : SameSlot(r, s)
    BY <1>1, <2>2 DEF Lands, Written, SameSlot, Kept
  <2> QED
    BY <2>1, <2>2
<1>2. ASSUME NEW d \in Devices, Rotates(d) PROVE Kept(r)
  <2>1. request[d].epoch = keyEpoch + 1 /\ keyEpoch' = request[d].epoch
    BY <1>2 DEF Rotates, Commit, CommitRotate, Locks, Active, IInv, RequestsSound, InOrder,
                RequestSound, EpochExpected
  <2> QED
    BY <2>1, Numbers DEF Kept
<1>3. ASSUME NEW d \in Devices, Revoke(d) PROVE Kept(r)
  BY <1>3 DEF Revoke, Kept, IInv, TypeOK
<1>4. ASSUME NEW u \in Users, RemoveMember(u) PROVE Kept(r)
  BY <1>4 DEF RemoveMember, Kept
<1>5. ASSUME NEW d \in Devices, Create(d) PROVE Kept(r)
  <2>1. CASE Refuse(d)
    BY <2>1 DEF Refuse, Kept
  <2>2. CASE ~Refuse(d)
    BY <1>5, <2>2, ServedCopies
       DEF Create, Active, IInv, RequestsSound, InOrder, RequestSound
  <2> QED
    BY <2>1, <2>2
<1>6. CASE KeysAlone
  BY <1>6 DEF KeysAlone, Kept
<1> QED
  BY <1>1, <1>2, <1>3, <1>4, <1>5, <1>6, StepsOnKeys

(* An epoch after the first begins with a rotation.                        *)
LEMMA EpochMoves ==
    ASSUME IInv, Next, keyEpoch # 0, keyEpoch' # keyEpoch
    PROVE  \E d \in Devices : Rotates(d)
<1>1. ASSUME NEW d \in Devices, Create(d) PROVE FALSE
  BY <1>1 DEF Create, Refuse, Active, IInv, RequestsSound, InOrder, RequestSound
<1> QED
  BY <1>1, StepsOnKeys DEF KeysAlone, RemoveMember, Revoke, Lands

(* A device that opens the space goes on opening it, as long as it is      *)
(* active and its account a member: "a partial rotation can never lock     *)
(* members out" (RotateSpaceKey).                                          *)
THEOREM NobodyLockedOutHolds == Spec => NobodyLockedOut
<1> DEFINE Open == \A d \in Devices : Reads(d) /\ status'[d] = "active" /\ DeviceOwner[d] \in members'
                                        => Reads(d)'
<1>1. IInv /\ [Next]_vars => [Open]_vars
  <2> SUFFICES ASSUME IInv, Next, NEW x \in Devices, Reads(x),
                      status'[x] = "active", DeviceOwner[x] \in members'
               PROVE  Reads(x)'
    OBVIOUS
  <2>1. PICK r \in keys : /\ r.user = DeviceOwner[x] /\ r.user \in members
                          /\ r.device = x /\ r.epoch = keyEpoch
    BY DEF Reads, Served
  <2>2. keyEpoch # 0 /\ x # Recovery
    BY ServedCopies, SpaceAssumption
  <2>3. CASE keyEpoch' = keyEpoch
    BY <2>1, <2>2, <2>3, CopiesKept DEF Kept, Reads, Served
  <2>4. CASE keyEpoch' # keyEpoch
    <3>1. PICK d \in Devices : Rotates(d)
      BY <2>2, <2>4, EpochMoves
    <3>2. /\ stage[d] = "inserted" /\ request[d].op = "rotate" /\ Locks(d) /\ InOrder(d)
          /\ keyEpoch' = request[d].epoch /\ request[d].epoch \in Nat
          /\ keys' = {k \in Written(rows[d]) : k.epoch >= request[d].epoch}
      BY <3>1, RequestFields DEF Rotates, Commit, CommitRotate, Locks, Active, IInv,
                                 RequestsSound, InOrder, RequestSound
    <3>3. PICK s \in rows[d] : s.device = x
      BY <3>2 DEF IInv, Covered
    <3>4. s.user = DeviceOwner[x] /\ s.epoch = keyEpoch'
      BY <2>2, <3>2, <3>3 DEF IInv, RowsSound, RowSound, InOrder
    <3>5. s \in keys'
      BY <3>2, <3>4 DEF Written
    <3> QED
      BY <3>3, <3>4, <3>5 DEF Reads, Served
  <2> QED
    BY <2>3, <2>4
<1> QED
  BY <1>1, InvariantHolds, PTL DEF Spec, NobodyLockedOut

(* An escrow copy that opens is not replaced by one that does not, however *)
(* late a copy sealed to the retired phrase key arrives (insertWrappedKeys). *)
THEOREM EscrowNotSpoiltHolds == Spec => EscrowNotSpoilt
<1> DEFINE Unspoilt == \A u \in members' : Rewrapped(u) # {} /\ keyEpoch' = keyEpoch
                                             => Rewrapped(u)' # {}
<1>1. IInv /\ [Next]_vars => [Unspoilt]_vars
  <2> SUFFICES ASSUME IInv, Next, NEW u \in members', NEW r \in Rewrapped(u),
                      keyEpoch' = keyEpoch
               PROVE  r \in Rewrapped(u)'
    OBVIOUS
  <2>1. /\ r \in keys /\ r.user = u /\ u \in members /\ r.device = Recovery
        /\ r.epoch = keyEpoch /\ r.recorded \in {"none", "minted"}
        /\ escrow[u] = "minted" /\ r.sealed = "minted" /\ Recovery \notin Devices
    BY SpaceAssumption DEF Rewrapped, EscrowCopies
  <2>2. r.recorded = "minted"
    BY <2>1 DEF IInv, RowsSound, RowSound
  <2>3. r \in keys'
    BY <2>1, <2>2, CopiesKept DEF Kept
  <2>4. escrow'[u] = "minted"
    <3>1. \A v \in Users : MintEscrow(v) => v # u /\ escrow'[u] = escrow[u]
      BY <2>1 DEF MintEscrow, IInv, TypeOK
    <3>2. (\A v \in Users : ~MintEscrow(v)) => escrow' = escrow
      BY DEF Next, RemoveMember, Register, Revoke, AskCreate, AskRotate, AskAdmit, AskAdd,
             AskGrant, AskApprove, Send, BreakDeadlock, Create, LockSpace, InsertLocked,
             InsertGrant, InsertApproved, Continue, Refuse, Commit, Fail
    <3> QED
      BY <2>1, <3>1, <3>2
  <2> QED
    BY <2>1, <2>2, <2>3, <2>4 DEF Rewrapped, EscrowCopies
<1> QED
  BY <1>1, InvariantHolds, PTL DEF Spec, EscrowNotSpoilt
=============================================================================
