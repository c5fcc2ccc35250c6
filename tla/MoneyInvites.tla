---------------------------- MODULE MoneyInvites ----------------------------
(***************************************************************************)
(* MoneyInvites: invitations to a household (pkg/store/money_invites.go,   *)
(* pkg/httpapi/money.go).  The owner invites an address; the answer lets   *)
(* the owner's client seal the household key to the account of the         *)
(* address, and filing that key makes the account a member.  The link in   *)
(* the mail can be followed by anybody who has it, before or after.        *)
(*                                                                         *)
(* A transaction is a step: filing and following a link lock the row of    *)
(* the invitation first, revoking writes it, and filing and a rotation     *)
(* lock the row of the space.  Whatever the owner's client has sealed may  *)
(* arrive late, or more than once.                                         *)
(***************************************************************************)
EXTENDS Integers, Sequences, FiniteSets

CONSTANTS
    People,        \* accounts, each with an address of its own
    MaxInvites,    \* bound: invitations ever created
    MaxKeys,       \* bound: epochs of the household key
    MaxRemovals,   \* bound: members removed
    None           \* NULL

VARIABLES
    epoch,      \* spaces.key_epoch
    joined,     \* space_members but the owner
    wraps,      \* space_keys: the epoch of each account's escrow copy, 0 without one
    invites,    \* money_invites
    sealed,     \* the keys the owner's client has sealed: an invitation and an epoch
    removals,   \* members removed so far
    guests,     \* per invitation: whom it let in
    filed       \* members by a filed key, whom no rotation has left out

inviteVars == <<epoch, joined, wraps, invites, sealed, removals, guests, filed>>

\* invitee is invitee_user_id, by is accepted_by; told is whether the request that
\* created the row has read the epoch.
Invite == [email : People, invitee : People \cup {None}, by : People \cup {None},
           keyed : BOOLEAN, revoked : BOOLEAN, expired : BOOLEAN, told : BOOLEAN]

InvitesTypeOK ==
    /\ epoch \in 1..MaxKeys
    /\ joined \subseteq People
    /\ wraps \in [People -> 0..MaxKeys]
    /\ invites \in Seq(Invite)
    /\ Len(invites) <= MaxInvites
    /\ sealed \subseteq (1..MaxInvites) \X (1..MaxKeys)
    /\ removals \in 0..MaxRemovals
    /\ guests \in [1..MaxInvites -> SUBSET People]
    /\ filed \subseteq People

Init ==
    /\ epoch = 1
    /\ joined = {}
    /\ wraps = [p \in People |-> 0]
    /\ invites = <<>>
    /\ sealed = {}
    /\ removals = 0
    /\ guests = [i \in 1..MaxInvites |-> {}]
    /\ filed = {}

-----------------------------------------------------------------------------

Unaccepted(i) == invites[i].by = None /\ ~invites[i].revoked

\* provisionInvitee: the account of the address, None while there is no escrow.
Provisioned(p) == {p, None}

\* The insert of CreateMoneyInvite; uq_money_invites_open does not ask for the
\* expiry.
CreateInvite(p) ==
    /\ Len(invites) < MaxInvites
    /\ \A i \in DOMAIN invites : ~(invites[i].email = p /\ Unaccepted(i))
    /\ \E invitee \in Provisioned(p) :
         invites' = Append(invites, [email |-> p, invitee |-> invitee, by |-> None,
                                     keyed |-> FALSE, revoked |-> FALSE,
                                     expired |-> FALSE, told |-> FALSE])
    /\ UNCHANGED <<epoch, joined, wraps, sealed, removals, guests, filed>>

\* SpaceMeta, the rest of handleCreateInvite: the client seals the key of the epoch
\* it is told, if there is an account to seal to.
TellEpoch(i) ==
    /\ ~invites[i].told
    /\ invites' = [invites EXCEPT ![i].told = TRUE]
    /\ sealed' = IF invites[i].invitee = None THEN sealed ELSE sealed \cup {<<i, epoch>>}
    /\ UNCHANGED <<epoch, joined, wraps, removals, guests, filed>>

\* Mutant: filing asks only that the invitation was not revoked.
FileableAgain(i) == ~invites[i].revoked /\ ~invites[i].expired

\* The row FileMoneyInviteKey locks, and handleFileInviteKey's.
Fileable(i) == Unaccepted(i) /\ ~invites[i].keyed /\ ~invites[i].expired

\* Mutant: the epoch is the caller's word.
EpochTaken(e) == TRUE

\* Against the epoch of the locked space.
EpochIs(e) == e = epoch

\* handleFileInviteKey: membership, key and stamp; refused when the account has a
\* copy that is current, since then no key is inserted.
FileKey(i, e) ==
    /\ <<i, e>> \in sealed
    /\ Fileable(i)
    /\ EpochIs(e)
    /\ wraps[invites[i].invitee] # e
    /\ LET p == invites[i].invitee IN
         /\ joined' = joined \cup {p}
         /\ wraps' = [wraps EXCEPT ![p] = e]
         /\ invites' = [invites EXCEPT ![i].keyed = TRUE, ![i].by = p]
         /\ guests' = [guests EXCEPT ![i] = @ \cup {p}]
         /\ filed' = filed \cup {p}
    /\ UNCHANGED <<epoch, sealed, removals>>

\* handleRevokeInvite.
RevokeInvite(i) ==
    /\ Unaccepted(i)
    /\ invites' = [invites EXCEPT ![i].revoked = TRUE]
    /\ UNCHANGED <<epoch, joined, wraps, sealed, removals, guests, filed>>

\* Nobody followed the link yet, or it was p.
Redeemable(i, p) ==
    /\ ~invites[i].revoked
    /\ ~invites[i].expired
    /\ invites[i].by \in {None, p}

\* handleAcceptInvite, of somebody who has the link.
AcceptInvite(i, p) ==
    /\ Redeemable(i, p)
    /\ joined' = joined \cup {p}
    /\ invites' = [invites EXCEPT ![i].by = p]
    /\ guests' = [guests EXCEPT ![i] = @ \cup {p}]
    /\ UNCHANGED <<epoch, wraps, sealed, removals, filed>>

-----------------------------------------------------------------------------
(* What else happens to the household; the races of grants and rotations   *)
(* are those of SpaceKeys.                                                 *)

\* handleGrantKeys, for a member handleKeyGaps lists.
GrantKey(p) ==
    /\ p \in joined
    /\ wraps[p] # epoch
    /\ wraps' = [wraps EXCEPT ![p] = epoch]
    /\ UNCHANGED <<epoch, joined, invites, sealed, removals, guests, filed>>

\* RemoveMember takes the keys along.
RemoveMember(p) ==
    /\ p \in joined
    /\ removals < MaxRemovals
    /\ removals' = removals + 1
    /\ joined' = joined \ {p}
    /\ wraps' = [wraps EXCEPT ![p] = 0]
    /\ filed' = filed \ {p}
    /\ UNCHANGED <<epoch, invites, sealed, guests>>

\* RotateSpaceKey: the escrow copies that came with it, and no others.
RotateKey(S) ==
    /\ epoch < MaxKeys
    /\ epoch' = epoch + 1
    /\ wraps' = [p \in People |-> IF p \in S THEN epoch + 1 ELSE 0]
    /\ filed' = filed \cap S
    /\ UNCHANGED <<joined, invites, sealed, removals, guests>>

\* Fourteen days.
Expires(i) ==
    /\ ~invites[i].expired
    /\ invites' = [invites EXCEPT ![i].expired = TRUE]
    /\ UNCHANGED <<epoch, joined, wraps, sealed, removals, guests, filed>>

Next ==
    \/ \E p \in People : CreateInvite(p) \/ GrantKey(p) \/ RemoveMember(p)
    \/ \E i \in DOMAIN invites :
         \/ TellEpoch(i) \/ RevokeInvite(i) \/ Expires(i)
         \/ \E e \in 1..MaxKeys : FileKey(i, e)
         \/ \E p \in People : AcceptInvite(i, p)
    \/ \E S \in SUBSET joined : RotateKey(S)

Spec == Init /\ [][Next]_inviteVars

-----------------------------------------------------------------------------
(* Properties.                                                             *)

\* A member a filed key let in can read the ledger: the copy is of the key the
\* household has, however late the filing came, until a rotation leaves it out
\* (store/money_invites.go:97).
FiledReads == \A p \in filed : p \in joined /\ wraps[p] = epoch

\* An invitation lets in one person: not both the account its key was filed for and
\* somebody else with the link, whatever is sent again after a removal.
OneGuest == \A i \in 1..MaxInvites : Cardinality(guests[i]) <= 1
=============================================================================
