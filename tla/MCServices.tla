----------------------------- MODULE MCServices -----------------------------
(***************************************************************************)
(* Five services that share no state (Accounts, Pages, MoneyLedger,        *)
(* MoneyInvites and Home), for TLC: a behaviour is one of one of them,     *)
(* while the others stay where they began.                                 *)
(***************************************************************************)
EXTENDS Pages

CONSTANTS
    Handlers, Providers, MaxPerHour, MaxAttempts, MaxCodes,
    Members, Entries, Clearable, Lasting, Days, PageSize, MaxWrites, MaxEpoch,
    People, MaxInvites, MaxKeys, MaxRemovals,
    Callers, MaxFailures, Windows, Rows, MaxCopies, MaxByHand

VARIABLES
    service,    \* the one the behaviour is of
    codes, account, work,
    keyEpoch, vault, saved, records, task, writes, scroll,
    epoch, joined, wraps, invites, sealed, removals, guests, filed,
    window, failures, guesses, signedIn, entries, byHand, sent, request

AccountsOf == INSTANCE Accounts
LedgerOf == INSTANCE MoneyLedger
InvitesOf == INSTANCE MoneyInvites
HomeOf == INSTANCE Home

\* The markers are no values of what they mark, and what is counted is finite.
ASSUME ServicesAssumption ==
    /\ None \notin LedgerOf!Vault \cup LedgerOf!Place
    /\ IsFiniteSet(Entries) /\ Entries \subseteq Int /\ PageSize \in Nat \ {0}
    /\ Days \subseteq Int /\ Days # {}
    /\ None \notin People
    /\ IsFiniteSet(Callers) /\ MaxFailures \in Nat \ {0}
    /\ 1 \in Windows /\ MaxCopies \in Nat
    /\ IsFiniteSet(Handlers) /\ MaxPerHour \in Nat \ {0}
    /\ MaxAttempts \in Nat /\ MaxCodes \in Nat /\ MaxInvites \in Nat
    /\ MaxEpoch \in Nat \ {0} /\ MaxKeys \in Nat \ {0}
    /\ MaxWrites \in Nat /\ MaxRemovals \in Nat /\ MaxByHand \in Nat

accounts == <<codes, account, work>>
ledger == <<keyEpoch, vault, saved, records, task, writes, scroll>>
household == <<epoch, joined, wraps, invites, sealed, removals, guests, filed>>
home == <<window, failures, guesses, signedIn, entries, byHand, sent, request>>

ServicesInit ==
    /\ service \in {"accounts", "pages", "ledger", "invites", "home"}
    /\ Init
    /\ AccountsOf!Init
    /\ LedgerOf!Init
    /\ InvitesOf!Init
    /\ HomeOf!Init

ServicesNext ==
    /\ UNCHANGED service
    /\ \/ /\ service = "accounts"
          /\ AccountsOf!Next
          /\ UNCHANGED <<pageVars, ledger, household, home>>
       \/ /\ service = "pages"
          /\ Next
          /\ UNCHANGED <<accounts, ledger, household, home>>
       \/ /\ service = "ledger"
          /\ LedgerOf!Next
          /\ UNCHANGED <<accounts, pageVars, household, home>>
       \/ /\ service = "invites"
          /\ InvitesOf!Next
          /\ UNCHANGED <<accounts, pageVars, ledger, home>>
       \/ /\ service = "home"
          /\ HomeOf!Next
          /\ UNCHANGED <<accounts, pageVars, ledger, household>>

ServicesSpec ==
    ServicesInit /\ [][ServicesNext]_<<service, accounts, pageVars, ledger, household, home>>

-----------------------------------------------------------------------------

\* Every variable of the five has its type.
ServicesTypeOK ==
    CASE service = "accounts" -> AccountsOf!TypeOK
      [] service = "pages"    -> PagesTypeOK
      [] service = "ledger"   -> LedgerOf!LedgerTypeOK
      [] service = "invites"  -> InvitesOf!InvitesTypeOK
      [] service = "home"     -> HomeOf!HomeTypeOK

\* Accounts: a mailed code is one session.
OneSignInPerCode == AccountsOf!OneSignInPerCode

\* Accounts: a code is compared with a bounded number of wrong guesses.
GuessesBounded == AccountsOf!GuessesBounded

\* Accounts: an address is sent a bounded number of codes an hour.
FloodBounded == AccountsOf!FloodBounded

\* MoneyLedger: an edit of the settings that was answered with success is kept.
VaultEditsKept == LedgerOf!VaultEditsKept

\* MoneyLedger: a scroll sees every entry that kept its place, once.
ScrollComplete == LedgerOf!ScrollComplete

\* MoneyLedger: the key that opens a record is the label's or an older one.
LabelBounds == LedgerOf!LabelBounds

\* MoneyInvites: whoever a filed key let in can read the ledger.
FiledReads == InvitesOf!FiledReads

\* MoneyInvites: an invitation lets in one person.
OneGuest == InvitesOf!OneGuest

\* Home: a window answers a bounded number of wrong passwords.
ThrottleHolds == HomeOf!ThrottleHolds

\* Home: an import that is repeated or overlaps another adds its rows once.
ImportOnce == HomeOf!ImportOnce
=============================================================================
