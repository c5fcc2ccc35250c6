------------------------------ MODULE SpaceKeys ------------------------------
(***************************************************************************)
(* Who holds the key of one space: its members, their devices, the wrapped *)
(* copies in space_keys and the account escrow copies, as pkg/store/       *)
(* spaces.go, devices.go and GrantSpaceKeys of money_vault.go keep them.   *)
(*                                                                         *)
(* AddMember and RotateSpaceKey hold the row of the space FOR UPDATE.      *)
(* Every other insert into space_keys takes a KEY SHARE lock on that row   *)
(* through its foreign key, so it commits outside those transactions, yet  *)
(* it read the epoch, the members and the devices before it waited.  (The  *)
(* rest of a statement, its reading and its ON CONFLICT, is one step.)     *)
(* ApproveDevice holds the row of its device FOR UPDATE, which the foreign *)
(* key of a rotation's row for that device waits for: the two can block    *)
(* each other, and Postgres then fails one of them.                        *)
(***************************************************************************)
EXTENDS Integers, FiniteSets

CONSTANTS
    Users,        \* accounts
    Owner,        \* the account that creates the space
    Devices,      \* devices ever registered
    DeviceOwner,  \* the account of each device
    FirstEscrow,  \* the escrow key of each account to begin with
    FirstStatus,  \* the status of each device to begin with
    Recovery,     \* stands for device_id NULL, the account escrow copy
    None,         \* no request
    MaxEpoch,     \* bound: key epochs
    MaxRequests,  \* bound: requests in progress at once
    MaxFailures   \* bound: requests lost, cut off or chosen as a deadlock victim

ASSUME SpaceAssumption ==
    /\ Owner \in Users
    /\ DeviceOwner \in [Devices -> Users]
    /\ FirstEscrow \in [Users -> {"none", "phrase", "minted"}]
    /\ FirstStatus \in [Devices -> {"absent", "pending", "active"}]
    /\ Recovery \notin Devices
    /\ MaxEpoch \in Nat \ {0}
    /\ MaxRequests \in Nat \ {0}
    /\ MaxFailures \in Nat

VARIABLES
    keyEpoch,   \* spaces.key_epoch, 0 while there is no space
    members,    \* space_members
    status,     \* devices.status, "absent" before registration
    escrow,     \* users.recovery_public_key: none, of a phrase, or minted here
    keys,       \* the rows of space_keys
    request,    \* per device: the request it has in progress, or None
    stage,      \* per device: how far that request is
    rows,       \* per device: the rows its transaction is about to insert
    failures    \* requests that failed for no reason of their own

vars == <<keyEpoch, members, status, escrow, keys, request, stage, rows, failures>>

-----------------------------------------------------------------------------

\* The key that a device made for an epoch.
Key == Nat \X Devices

\* `sealed` is the key a wrap really opens under, which the server cannot see;
\* `recorded` is escrow_public_key, what the server believes of it.
Row == [user : Users, device : Devices \cup {Recovery}, epoch : Nat, key : Key,
        sealed : {"device", "phrase", "minted"},
        recorded : {"none", "phrase", "minted"}]

Wrap == [user : Users, device : Devices \cup {Recovery},
         sealed : {"device", "phrase", "minted"}]

Ops == {"create", "add", "rotate", "grant", "approve", "admit"}

\* `target` is the account to add or the device to let in.
Request == [op : Ops, target : Users \cup Devices \cup {None}, epoch : Nat,
            key : Key \cup {None}, wraps : SUBSET Wrap]

TypeOK ==
    /\ keyEpoch \in 0 .. MaxEpoch
    /\ members \subseteq Users
    /\ status \in [Devices -> {"absent", "pending", "active", "revoked"}]
    /\ escrow \in [Users -> {"none", "phrase", "minted"}]
    /\ keys \subseteq Row
    /\ request \in [Devices -> Request \cup {None}]
    /\ stage \in [Devices -> {"idle", "sent", "locked", "inserted"}]
    /\ rows \in [Devices -> SUBSET Row]
    /\ failures \in 0 .. MaxFailures

DevicesOf(u) == {d \in Devices : DeviceOwner[d] = u}

SameSlot(r, s) == r.user = s.user /\ r.device = s.device /\ r.epoch = s.epoch

\* ListSpaces: the copy of the current key the device is served.
Served(d) == {r \in keys : /\ r.user = DeviceOwner[d]
                           /\ r.user \in members
                           /\ r.device = d
                           /\ r.epoch = keyEpoch
                           /\ status[d] = "active"}

\* The device can open the space.
Reads(d) == Served(d) # {}

\* ListEscrowWraps: the account's copies thought to open under its escrow key.
EscrowCopies(u) == {r \in keys : /\ r.user = u
                                 /\ r.user \in members
                                 /\ r.device = Recovery
                                 /\ r.epoch = keyEpoch
                                 /\ r.recorded \in {"none", escrow[u]}}

\* RewrapTo: those that do open, for an account that has an escrow key.
Rewrapped(u) == {r \in EscrowCopies(u) : escrow[u] = "minted" /\ r.sealed = "minted"}

-----------------------------------------------------------------------------
(* A space made before escrow existed has an escrow copy sealed to the     *)
(* phrase key of its owner, with no recorded recipient.                    *)

DeviceWrap(d) == [user |-> DeviceOwner[d], device |-> d, sealed |-> "device"]

OldRows(d) ==
    {[user |-> Owner, device |-> d, epoch |-> 1, key |-> <<1, d>>,
      sealed |-> "device", recorded |-> "none"],
     [user |-> Owner, device |-> Recovery, epoch |-> 1, key |-> <<1, d>>,
      sealed |-> "phrase", recorded |-> "none"]}

Init ==
    /\ escrow = FirstEscrow
    /\ request = [d \in Devices |-> None]
    /\ stage = [d \in Devices |-> "idle"]
    /\ rows = [d \in Devices |-> {}]
    /\ failures = 0
    /\ \/ /\ keyEpoch = 0
          /\ members = {}
          /\ keys = {}
          /\ status = FirstStatus
       \/ \E d \in DevicesOf(Owner) :
            /\ FirstEscrow[Owner] = "phrase"
            /\ FirstStatus[d] # "pending"
            /\ keyEpoch = 1
            /\ members = {Owner}
            /\ keys = OldRows(d)
            /\ status = [FirstStatus EXCEPT ![d] = "active"]

-----------------------------------------------------------------------------
(* Accounts and devices.  Each of these is one transaction.                *)

\* RegisterDevice: signing in is the whole gate.
Register(d) ==
    /\ status[d] = "absent"
    /\ status' = [status EXCEPT ![d] = "active"]
    /\ UNCHANGED <<keyEpoch, members, escrow, keys, request, stage, rows, failures>>

\* ensureEscrowKey, on a sign-in: an account gets its escrow key once.
MintEscrow(u) ==
    /\ escrow[u] # "minted"
    /\ escrow' = [escrow EXCEPT ![u] = "minted"]
    /\ UNCHANGED <<keyEpoch, members, status, keys, request, stage, rows, failures>>

\* An ApproveDevice in progress holds the row of the device.
Approving(d, target) == /\ stage[d] = "inserted"
                        /\ request[d].op \in {"approve", "admit"}
                        /\ request[d].target = target

DeviceFree(target) == \A d \in Devices : ~Approving(d, target)

\* The rows of the transaction that replace one: whoever deletes that one waits.
\* Only an insert takes the lock of the foreign key.
Replacing(d) == {r \in rows[d] : \E k \in keys : SameSlot(k, r)}

\* RevokeDevice.
Revoke(d) ==
    /\ status[d] \in {"pending", "active"}
    /\ DeviceFree(d)
    /\ status' = [status EXCEPT ![d] = "revoked"]
    /\ keys' = {r \in keys : r.device # d}
    /\ UNCHANGED <<keyEpoch, members, escrow, request, stage, rows, failures>>

\* RemoveMember: by the owner or by the member; no lock on the space.
RemoveMember(u) ==
    /\ u \in members \ {Owner}
    /\ \A d \in Devices : \A r \in Replacing(d) : r.user # u
    /\ keys' = {r \in keys : r.user # u}
    /\ members' = members \ {u}
    /\ UNCHANGED <<keyEpoch, status, escrow, request, stage, rows, failures>>

-----------------------------------------------------------------------------
(* Requests.  A device seals the key it reads now, to recipients as they   *)
(* are now; the request may arrive much later.                             *)

Send(d, req) ==
    /\ stage[d] = "idle"
    /\ Cardinality({x \in Devices : stage[x] # "idle"}) < MaxRequests
    /\ request' = [request EXCEPT ![d] = req]
    /\ stage' = [stage EXCEPT ![d] = "sent"]
    /\ UNCHANGED <<keyEpoch, members, status, escrow, keys, rows, failures>>

Message(op, target, epoch, key, wraps) ==
    [op |-> op, target |-> target, epoch |-> epoch, key |-> key, wraps |-> wraps]

ActiveWraps(us) == {DeviceWrap(d) : d \in {x \in Devices : /\ DeviceOwner[x] \in us
                                                           /\ status[x] = "active"}}

EscrowWraps(us) == {[user |-> u, device |-> Recovery, sealed |-> escrow[u]] :
                        u \in {v \in us : escrow[v] # "none"}}

OwnerDevice(d) == DeviceOwner[d] = Owner

\* POST /spaces: the key for this device and, where there is one, for escrow.
AskCreate(d) ==
    /\ keyEpoch = 0
    /\ \A x \in Devices : stage[x] = "sent" => request[x].op # "create"
    /\ OwnerDevice(d)
    /\ status[d] = "active"
    /\ Send(d, Message("create", None, 1, <<1, d>>,
                       {DeviceWrap(d)} \cup EscrowWraps({Owner})))

\* POST /spaces/{id}/members, from the key directory of the invitee.
AskAdd(d, u) ==
    /\ OwnerDevice(d)
    /\ u \notin members
    /\ \E r \in Served(d) :
         Send(d, Message("add", u, r.epoch, r.key,
                         ActiveWraps({u}) \cup EscrowWraps({u})))

\* POST /spaces/{id}/keys: a fresh key for the devices of all members.  The
\* client may leave out the escrow copies of the others.
AskRotate(d) ==
    /\ OwnerDevice(d)
    /\ keyEpoch < MaxEpoch
    /\ Reads(d)
    /\ \E us \in {{Owner}, members} :
         Send(d, Message("rotate", None, keyEpoch + 1, <<keyEpoch + 1, d>>,
                         ActiveWraps(members) \cup EscrowWraps(us)))

\* MoneyKeyGaps and PendingKeySpaces: recipients that lack a copy.
Gaps == {w \in ActiveWraps(members) : ~Reads(w.device)}
        \cup {w \in EscrowWraps(members) :
                ~\E r \in EscrowCopies(w.user) : r.recorded = escrow[w.user]}

\* handleGrantKeys by the owner for anybody, handleFileEscrow by a member for
\* its own account.
AskGrant(d, w) ==
    /\ w \in Gaps
    /\ OwnerDevice(d) \/ (w.device = Recovery /\ w.user = DeviceOwner[d])
    /\ \E r \in Served(d) : Send(d, Message("grant", None, r.epoch, r.key, {w}))

\* handleApproveDevice by another device of the account.
AskApprove(d, target) ==
    /\ d # target
    /\ DeviceOwner[d] = DeviceOwner[target]
    /\ status[target] \in {"pending", "active"}
    /\ ~Reads(target)
    /\ \E r \in Served(d) :
         Send(d, Message("approve", target, r.epoch, r.key, {DeviceWrap(target)}))

\* admitDevice, at sign-in or on a list: the server itself rewraps what escrow
\* holds and the device lacks.
AskAdmit(d) ==
    /\ status[d] \in {"pending", "active"}
    /\ ~\E r \in keys : r.user = DeviceOwner[d] /\ r.device = d /\ r.epoch = keyEpoch
    /\ \/ \E r \in Rewrapped(DeviceOwner[d]) :
            Send(d, Message("admit", d, r.epoch, r.key, {DeviceWrap(d)}))
       \/ /\ Rewrapped(DeviceOwner[d]) = {}
          /\ status[d] = "pending"
          /\ Send(d, Message("admit", d, 0, None, {}))

-----------------------------------------------------------------------------
(* The server.                                                             *)

Finish(d) ==
    /\ request' = [request EXCEPT ![d] = None]
    /\ stage' = [stage EXCEPT ![d] = "idle"]
    /\ rows' = [rows EXCEPT ![d] = {}]

\* Mutant: an early return that leaves the transaction open.
RefuseOpen(d) == /\ rows' = [rows EXCEPT ![d] = {}]
                 /\ UNCHANGED <<keyEpoch, members, status, escrow, keys, request, stage, failures>>

Refuse(d) == Finish(d) /\ UNCHANGED <<keyEpoch, members, status, escrow, keys, failures>>

\* Lost on its way, cut off, or the victim of a deadlock: rolled back.
Fail(d) ==
    /\ stage[d] # "idle"
    /\ failures < MaxFailures
    /\ failures' = failures + 1
    /\ Finish(d)
    /\ UNCHANGED <<keyEpoch, members, status, escrow, keys>>

Continue(d, to, rs) ==
    /\ stage' = [stage EXCEPT ![d] = to]
    /\ rows' = [rows EXCEPT ![d] = rs]
    /\ UNCHANGED <<keyEpoch, members, status, escrow, keys, request, failures>>

SpaceFree == \A d \in Devices : stage[d] \in {"locked", "inserted"}
                                    => request[d].op \notin {"add", "rotate"}

\* insertWrappedKeys: rows for active devices of the account and for accounts
\* that have an escrow key, recorded as sealed to the key the account has now.
RowsFor(req, epoch) ==
    {[user |-> w.user, device |-> w.device, epoch |-> epoch, key |-> req.key,
      sealed |-> w.sealed,
      recorded |-> IF w.device = Recovery THEN escrow[w.user] ELSE "none"] :
        w \in {x \in req.wraps : IF x.device = Recovery THEN escrow[x.user] # "none"
                                                        ELSE status[x.device] = "active"}}

\* Mutant: an escrow copy gives way to any other.
LandingAlways(rs) == {r \in rs : \A k \in keys : SameSlot(k, r) => r.device = Recovery /\ r # k}

\* ON CONFLICT: a device's row stays, an escrow copy gives way to one that is
\* recorded differently.
Landing(rs) == {r \in rs : \A k \in keys : SameSlot(k, r)
                             => r.device = Recovery /\ r.recorded # k.recorded}

\* The unique index makes an insert wait for another of the same slot.
SlotsFree(d, rs) == \A e \in Devices \ {d} : \A r \in rs, s \in rows[e] : ~SameSlot(r, s)

Written(rs) == {k \in keys : ~\E r \in rs : SameSlot(k, r)} \cup rs

\* CreateSpace.  Nothing else knows the new space, so it is one step.
Create(d) ==
    LET rs == RowsFor(request[d], 1)
    IN  /\ stage[d] = "sent"
        /\ request[d].op = "create"
        /\ IF rs = {}
           THEN Refuse(d)
           ELSE /\ keyEpoch' = 1
                /\ members' = {Owner}
                /\ keys' = rs
                /\ Finish(d)
                /\ UNCHANGED <<status, escrow, failures>>

\* AddMember and RotateSpaceKey: FOR UPDATE on the space, then the epoch.
EpochExpected(op) == IF op = "rotate" THEN keyEpoch + 1 ELSE keyEpoch

\* Mutant: the epoch an invite was sealed at is not compared.
LockSpaceOnly(d) ==
    /\ stage[d] = "sent"
    /\ request[d].op \in {"add", "rotate"}
    /\ SpaceFree
    /\ IF request[d].op = "add" \/ request[d].epoch = EpochExpected(request[d].op)
       THEN Continue(d, "locked", {})
       ELSE Refuse(d)

LockSpace(d) ==
    /\ stage[d] = "sent"
    /\ request[d].op \in {"add", "rotate"}
    /\ SpaceFree
    /\ IF request[d].epoch = EpochExpected(request[d].op)
       THEN Continue(d, "locked", {})
       ELSE Refuse(d)

\* The rows wait, through their foreign key, for devices being approved.
DevicesFree(rs) == \A r \in rs : r.device # Recovery => DeviceFree(r.device)

\* Mutant: a rotation need not cover the devices.
AcceptedUncovered(req, rs) ==
    rs # {} /\ (req.op = "add" => req.target \notin members)

\* AddMember: the membership is new and at least one row lands.
\* RotateSpaceKey: every active device of a member is covered.
Accepted(req, rs) ==
    IF req.op = "add"
    THEN req.target \notin members /\ rs # {}
    ELSE \A d \in Devices : DeviceOwner[d] \in members /\ status[d] = "active"
            => \E r \in keys \cup rs : r.device = d /\ r.epoch = req.epoch

RowsOf(req) == RowsFor(req, IF req.op = "add" THEN keyEpoch ELSE req.epoch)

InsertLocked(d) ==
    LET rs == Landing(RowsOf(request[d]))
    IN  /\ stage[d] = "locked"
        /\ DevicesFree(rs)
        /\ SlotsFree(d, rs)
        /\ IF Accepted(request[d], rs)
           THEN Continue(d, "inserted", rs)
           ELSE Refuse(d)

\* Each waits for the other: Postgres fails one of the two.
BreakDeadlock(d, e) ==
    /\ stage[d] = "locked"
    /\ \E r \in RowsOf(request[d]) : Approving(e, r.device)
    /\ rows[e] # {}
    /\ Refuse(d) \/ Refuse(e)

\* GrantSpaceKeys reads the epoch and the members without a lock.
InsertGrant(d) ==
    LET rs == Landing(RowsOf(request[d]))
    IN  /\ stage[d] = "sent"
        /\ request[d].op = "grant"
        /\ SlotsFree(d, rs)
        /\ IF /\ request[d].epoch = keyEpoch
              /\ \A w \in request[d].wraps : w.user \in members
           THEN Continue(d, "inserted", rs)
           ELSE Refuse(d)

\* ApproveDevice locks the device; keys of another epoch or of a space the
\* user left are skipped, the device is let in all the same.
InsertApproved(d) ==
    LET req == request[d]
        rs == Landing({[user |-> w.user, device |-> w.device, epoch |-> req.epoch,
                        key |-> req.key, sealed |-> w.sealed, recorded |-> "none"] :
                            w \in {x \in req.wraps : /\ req.epoch = keyEpoch
                                                     /\ x.user \in members}})
    IN  /\ stage[d] = "sent"
        /\ req.op \in {"approve", "admit"}
        /\ DeviceFree(req.target)
        /\ SlotsFree(d, rs)
        /\ IF status[req.target] = "revoked"
           THEN Refuse(d)
           ELSE Continue(d, "inserted", rs)

CommitAdd(d) ==
    /\ request[d].op = "add"
    /\ members' = members \cup {request[d].target}
    /\ keys' = Written(rows[d])
    /\ UNCHANGED <<keyEpoch, status>>

CommitRotate(d) ==
    /\ request[d].op = "rotate"
    /\ \A e \in Devices : Replacing(e) = {}
    /\ keyEpoch' = request[d].epoch
    /\ keys' = {r \in Written(rows[d]) : r.epoch >= request[d].epoch}
    /\ UNCHANGED <<members, status>>

CommitGrant(d) ==
    /\ request[d].op = "grant"
    /\ rows[d] = Replacing(d) \/ SpaceFree
    /\ keys' = Written(rows[d])
    /\ UNCHANGED <<keyEpoch, members, status>>

CommitApprove(d) ==
    /\ request[d].op \in {"approve", "admit"}
    /\ rows[d] # {} => SpaceFree
    /\ keys' = Written(rows[d])
    /\ status' = [status EXCEPT ![request[d].target] = "active"]
    /\ UNCHANGED <<keyEpoch, members>>

Commit(d) ==
    /\ stage[d] = "inserted"
    /\ CommitAdd(d) \/ CommitRotate(d) \/ CommitGrant(d) \/ CommitApprove(d)
    /\ Finish(d)
    /\ UNCHANGED <<escrow, failures>>

Next ==
    \/ \E u \in Users : MintEscrow(u) \/ RemoveMember(u)
    \/ \E d \in Devices :
         \/ Register(d) \/ Revoke(d)
         \/ AskCreate(d) \/ AskRotate(d) \/ AskAdmit(d)
         \/ \E u \in Users : AskAdd(d, u)
         \/ \E w \in Gaps : AskGrant(d, w)
         \/ \E e \in Devices : AskApprove(d, e) \/ BreakDeadlock(d, e)
         \/ Create(d) \/ LockSpace(d) \/ InsertLocked(d) \/ InsertGrant(d)
         \/ InsertApproved(d) \/ Commit(d) \/ Fail(d)

Spec == Init /\ [][Next]_vars

\* The server finishes what it starts; Postgres queues the locks of a row and
\* breaks deadlocks; clients list their spaces and fill gaps again and again,
\* between whatever else they do.
Fairness ==
    \A d \in Devices :
        /\ SF_vars(LockSpace(d))
        /\ SF_vars(InsertLocked(d))
        /\ WF_vars(Create(d) \/ InsertGrant(d) \/ InsertApproved(d) \/ Commit(d))
        /\ WF_vars(\E e \in Devices : BreakDeadlock(d, e))
        /\ SF_vars(AskAdmit(d))
        /\ \A e \in Devices : SF_vars(AskGrant(d, DeviceWrap(e)))

FairSpec == Spec /\ Fairness

-----------------------------------------------------------------------------
(* Properties.                                                             *)

(* All copies of an epoch are of one key, and no key serves two epochs:    *)
(* whatever was sealed while the key rotated is refused, or is filed under *)
(* the epoch it was made for (RotateSpaceKey, AddMember, GrantSpaceKeys,   *)
(* ApproveDevice).                                                         *)
OneKeyPerEpoch == \A r, s \in keys : r.epoch = s.epoch <=> r.key = s.key

(* A device that can open the space can still open it after every step     *)
(* that leaves it active and its account a member: "a partial rotation can *)
(* never lock members out" (RotateSpaceKey).                               *)
NobodyLockedOut ==
    [][\A d \in Devices : Reads(d) /\ status'[d] = "active" /\ DeviceOwner[d] \in members'
                              => Reads(d)']_vars

(* An escrow copy that opens is not replaced by one that does not, however *)
(* late a copy sealed to the retired phrase key arrives (insertWrappedKeys *)
(* replaces a copy only by one with another recorded key).                 *)
EscrowNotSpoilt ==
    [][\A u \in members' : Rewrapped(u) # {} /\ keyEpoch' = keyEpoch
                               => Rewrapped(u)' # {}]_vars

(* An active device of a member comes to open the space, as long as a      *)
(* device of the owner opens it or the account's escrow copy does: whatever *)
(* races with its admission, a later list or grant lets it in.             *)
Wants(d) == status[d] = "active" /\ DeviceOwner[d] \in members /\ ~Reads(d)

Helped(d) == \/ Rewrapped(DeviceOwner[d]) # {}
             \/ \E h \in Devices : OwnerDevice(h) /\ Reads(h)

LetIn == \A d \in Devices : Wants(d) /\ Helped(d) ~> ~Wants(d) \/ ~Helped(d)

(* "A recovery wrap (nil DeviceID) records the escrow public key it was    *)
(* sealed to" (insertWrappedKeys): it records the key the account has when *)
(* the row is inserted, which may have been minted since.                  *)
EscrowHonest ==
    \A r \in keys : r.device = Recovery /\ r.recorded # "none" => r.recorded = r.sealed
=============================================================================
