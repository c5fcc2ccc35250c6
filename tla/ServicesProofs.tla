--------------------------- MODULE ServicesProofs ---------------------------
(***************************************************************************)
(* That the services keep what their callers are promised, for any number  *)
(* of members, handlers, callers, codes, invitations and rows.  They share *)
(* no state, so each has an invariant of its own.                          *)
(***************************************************************************)
EXTENDS MCServices, Sequences, FiniteSetTheorems, WellFoundedInduction, TLAPS

\* What a service does in a step of the composition: one of its own, or nothing.
LedgerStep == LedgerOf!Next \/ UNCHANGED ledger
InvitesStep == InvitesOf!Next \/ UNCHANGED household
HomeStep == HomeOf!Next \/ UNCHANGED home
AccountsStep == AccountsOf!Next \/ UNCHANGED accounts

LEMMA StepsApart ==
    [ServicesNext]_<<service, accounts, pageVars, ledger, household, home>>
      => LedgerStep /\ InvitesStep /\ HomeStep /\ AccountsStep
BY DEF ServicesNext, LedgerStep, InvitesStep, HomeStep, AccountsStep,
       accounts, ledger, household, home

-----------------------------------------------------------------------------
(* MoneyLedger: the settings.                                              *)

\* Whoever edits the current version has all its edits.
VaultInv ==
    /\ vault = None \/ vault \in LedgerOf!Vault
    /\ vault = None => saved = {}
    /\ vault # None => saved \subseteq vault.edits
    /\ DOMAIN task = Members
    /\ \A m \in Members : "pc" \in DOMAIN task[m]
    /\ \A m \in Members : task[m].pc = "edit" =>
         /\ vault # None
         /\ task[m].base \in Nat /\ task[m].base <= vault.version
         /\ task[m].edits \subseteq Members
         /\ task[m].base = vault.version => vault.edits \cup {m} \subseteq task[m].edits

LEMMA VaultInitHolds == LedgerOf!Init => VaultInv
BY DEF LedgerOf!Init, LedgerOf!Idle, VaultInv

\* A step of the ledger that leaves the settings alone begins no edit of them.
LEMMA OtherTask ==
    ASSUME VaultInv, NEW m \in Members, NEW t, "pc" \in DOMAIN t, t.pc # "edit", LedgerOf!To(m, t),
           UNCHANGED <<vault, saved>>
    PROVE  VaultInv'
BY DEF VaultInv, LedgerOf!To

LEMMA GetVaultHolds ==
    ASSUME VaultInv, NEW m \in Members, LedgerOf!GetVault(m)
    PROVE  VaultInv'
<1> DEFINE t == [LedgerOf!Idle EXCEPT !.pc = "edit", !.base = vault.version,
                                      !.edits = vault.edits \cup {m}]
<1>1. /\ vault \in LedgerOf!Vault /\ vault # None /\ vault' = vault /\ saved' = saved
      /\ task' = [task EXCEPT ![m] = t]
  BY DEF VaultInv, LedgerOf!GetVault, LedgerOf!MoneyEnabled, LedgerOf!To
<1>2. vault.version \in Nat /\ vault.edits \subseteq Members
  BY <1>1 DEF LedgerOf!Vault
<1>3. t.base = vault.version /\ t.edits = vault.edits \cup {m} /\ "pc" \in DOMAIN t
  BY DEF LedgerOf!Idle
<1> HIDE DEF t
<1> QED
  BY <1>1, <1>2, <1>3 DEF VaultInv

LEMMA PutVaultHolds ==
    ASSUME VaultInv, NEW m \in Members, LedgerOf!PutVault(m)
    PROVE  VaultInv'
<1>1. /\ vault \in LedgerOf!Vault /\ vault # None
      /\ vault.version \in Nat /\ vault.edits \subseteq Members
      /\ task[m].pc = "edit" /\ task' = [task EXCEPT ![m] = LedgerOf!Idle]
      /\ LedgerOf!Idle.pc # "edit" /\ "pc" \in DOMAIN LedgerOf!Idle
  BY DEF VaultInv, LedgerOf!PutVault, LedgerOf!To, LedgerOf!Vault, LedgerOf!Idle
<1>2. CASE LedgerOf!VersionIs(m)
  <2>1. /\ vault' = [version |-> vault.version + 1, edits |-> task[m].edits]
        /\ saved' = saved \cup {m} /\ task[m].base = vault.version
    BY <1>2 DEF LedgerOf!PutVault, LedgerOf!VersionIs
  <2>2. /\ task[m].edits \subseteq Members /\ vault.edits \cup {m} \subseteq task[m].edits
        /\ saved \subseteq vault.edits
    BY <1>1, <2>1 DEF VaultInv
  <2>3. vault' \in LedgerOf!Vault
    BY <1>1, <2>1, <2>2 DEF LedgerOf!Vault
  <2>4. vault' # None /\ vault'.version = vault.version + 1 /\ vault'.edits = task[m].edits
    BY <2>1, <2>3, ServicesAssumption
  <2>5. \A n \in Members \ {m} : task'[n] = task[n]
    BY <1>1 DEF VaultInv
  <2> QED
    BY <1>1, <2>1, <2>2, <2>3, <2>4, <2>5 DEF VaultInv
<1>3. CASE ~LedgerOf!VersionIs(m)
  BY <1>1, <1>3 DEF LedgerOf!PutVault, VaultInv
<1> QED
  BY <1>2, <1>3

LEMMA EnableHolds ==
    ASSUME VaultInv, LedgerOf!Enable
    PROVE  VaultInv'
<1>1. LedgerOf!FirstVault \in LedgerOf!Vault
  BY DEF LedgerOf!FirstVault, LedgerOf!Vault
<1> QED
  BY <1>1, ServicesAssumption DEF LedgerOf!Enable, VaultInv

\* The rest of the ledger changes neither settings nor the edits of them.
LEMMA RestHolds ==
    ASSUME VaultInv, NEW m \in Members,
           \/ \E batch \in SUBSET Entries, day \in Days : LedgerOf!SendEntries(m, batch, day)
           \/ \E batch \in SUBSET LedgerOf!Objects : LedgerOf!SendObjects(m, batch)
           \/ LedgerOf!ReadEpoch(m) \/ LedgerOf!PutEntries(m) \/ LedgerOf!PutObjects(m)
           \/ LedgerOf!BeginClear(m) \/ LedgerOf!ClearEntries(m)
           \/ LedgerOf!CommitClear(m) \/ LedgerOf!Abort(m)
    PROVE  VaultInv'
<1>1. UNCHANGED <<vault, saved>>
  BY DEF LedgerOf!SendEntries, LedgerOf!SendObjects, LedgerOf!SendBatch,
         LedgerOf!ReadEpoch, LedgerOf!PutEntries, LedgerOf!PutObjects,
         LedgerOf!PutBatch, LedgerOf!BeginClear, LedgerOf!ClearEntries,
         LedgerOf!CommitClear, LedgerOf!Abort
<1>2. LedgerOf!To(m, LedgerOf!Idle) => VaultInv'
  <2>1. "pc" \in DOMAIN LedgerOf!Idle /\ LedgerOf!Idle.pc # "edit"
    BY DEF LedgerOf!Idle
  <2> QED
    BY <1>1, <2>1, OtherTask
<1>3. ASSUME NEW b, NEW d,
             LedgerOf!To(m, [LedgerOf!Idle EXCEPT !.pc = "epoch", !.batch = b, !.day = d,
                                                  !.sealed = keyEpoch])
      PROVE  VaultInv'
  <2> DEFINE t == [LedgerOf!Idle EXCEPT !.pc = "epoch", !.batch = b, !.day = d,
                                        !.sealed = keyEpoch]
  <2>1. "pc" \in DOMAIN t /\ t.pc # "edit"
    BY DEF LedgerOf!Idle
  <2> QED
    BY <1>1, <1>3, <2>1, OtherTask
<1>4. CASE LedgerOf!ReadEpoch(m)
  <2> DEFINE t == [task[m] EXCEPT !.pc = "rows", !.label = keyEpoch]
  <2>1. "pc" \in DOMAIN t /\ t.pc # "edit" /\ LedgerOf!To(m, t)
    BY <1>4 DEF LedgerOf!ReadEpoch, LedgerOf!CurrentEpoch, VaultInv
  <2> QED
    BY <1>1, <2>1, OtherTask
<1>5. CASE LedgerOf!BeginClear(m)
  <2> DEFINE t == [LedgerOf!Idle EXCEPT !.pc = "entries",
                                        !.found = LedgerOf!Live \cap Entries]
  <2>1. "pc" \in DOMAIN t /\ t.pc # "edit" /\ LedgerOf!To(m, t)
    BY <1>5 DEF LedgerOf!BeginClear, LedgerOf!Idle
  <2> QED
    BY <1>1, <2>1, OtherTask
<1>6. CASE LedgerOf!ClearEntries(m)
  <2> DEFINE t == [task[m] EXCEPT !.pc = "objects",
                     !.found = (@ \cap LedgerOf!Live) \cup (LedgerOf!Live \cap Clearable)]
  <2>1. "pc" \in DOMAIN t /\ t.pc # "edit" /\ LedgerOf!To(m, t)
    BY <1>6 DEF LedgerOf!ClearEntries, VaultInv
  <2> QED
    BY <1>1, <2>1, OtherTask
<1> QED
  BY <1>2, <1>3, <1>4, <1>5, <1>6
     DEF LedgerOf!SendEntries, LedgerOf!SendObjects, LedgerOf!SendBatch,
         LedgerOf!PutEntries, LedgerOf!PutObjects, LedgerOf!PutBatch,
         LedgerOf!CommitClear, LedgerOf!Abort

LEMMA LedgerHolds == VaultInv /\ LedgerStep => VaultInv'
<1> SUFFICES ASSUME VaultInv, LedgerStep PROVE VaultInv'
  OBVIOUS
<1>1. CASE UNCHANGED <<vault, saved, task>>
  BY <1>1 DEF VaultInv
<1>2. CASE LedgerOf!Enable
  BY <1>2, EnableHolds
<1>3. LedgerOf!Next =>
        \/ UNCHANGED <<vault, saved, task>>
        \/ LedgerOf!Enable
        \/ \E m \in Members :
             \/ LedgerOf!GetVault(m) \/ LedgerOf!PutVault(m)
             \/ \E batch \in SUBSET Entries, day \in Days :
                  LedgerOf!SendEntries(m, batch, day)
             \/ \E batch \in SUBSET LedgerOf!Objects : LedgerOf!SendObjects(m, batch)
             \/ LedgerOf!ReadEpoch(m) \/ LedgerOf!PutEntries(m) \/ LedgerOf!PutObjects(m)
             \/ LedgerOf!BeginClear(m) \/ LedgerOf!ClearEntries(m)
             \/ LedgerOf!CommitClear(m) \/ LedgerOf!Abort(m)
  BY DEF LedgerOf!Next, LedgerOf!Rotate, LedgerOf!CreateHousehold, LedgerOf!EnableMoney,
         LedgerOf!DeleteEntry, LedgerOf!DeleteObject, LedgerOf!Delete, LedgerOf!ReadPage
<1> QED
  BY <1>1, <1>2, <1>3, GetVaultHolds, PutVaultHolds, RestHolds DEF LedgerStep, ledger

\* An edit of the settings of the ledger that was answered with success stays in
\* them, whoever else edits (UpdateMoneyVault, store/money_vault.go).
THEOREM VaultEditsKeptHolds == ServicesSpec => []VaultEditsKept
<1>1. ServicesInit => VaultInv
  BY VaultInitHolds DEF ServicesInit
<1>2. VaultInv /\ [ServicesNext]_<<service, accounts, pageVars, ledger, household, home>>
        => VaultInv'
  BY StepsApart, LedgerHolds
<1>3. VaultInv => VaultEditsKept
  BY DEF VaultInv, VaultEditsKept, LedgerOf!VaultEditsKept
<1> QED
  BY <1>1, <1>2, <1>3, PTL DEF ServicesSpec

-----------------------------------------------------------------------------
(* MoneyLedger: the pages.                                                 *)

\* A set of numbers that is not empty and has a bound has a greatest.
LEMMA Greatest ==
    ASSUME NEW n \in Nat, NEW S \in SUBSET (0..n), S # {}
    PROVE  \E m \in S : \A i \in S : m >= i
<1> DEFINE T == {t \in Nat : \E i \in S : t = n - i}
<1>1. T \subseteq Nat /\ T # {}
  <2>1. \A i \in S : n - i \in Nat
    OBVIOUS
  <2>2. \A i \in S : n - i \in T
    BY <2>1
  <2> QED
    BY <2>2
<1>2. PICK x \in T : \A y \in T : <<y, x>> \notin OpToRel(<, Nat)
  BY <1>1, WFMin, NatLessThanWellFounded, Zenon
<1>3. \A y \in T : ~(y < x)
  BY <1>1, <1>2, Zenon DEF OpToRel
<1>4. PICK m \in S : x = n - m
  OBVIOUS
<1>5. ASSUME NEW i \in S PROVE m >= i
  <2>1. i \in Int /\ m \in Int /\ n - i \in Nat
    OBVIOUS
  <2>2. n - i \in T
    BY <2>1
  <2>3. ~(n - i < x)
    BY <1>3, <2>2
  <2> HIDE DEF T
  <2> QED
    BY <1>4, <2>1, <2>3
<1> QED
  BY <1>5

Precedes(e, f) == LedgerOf!Before(LedgerOf!PlaceOf(e), LedgerOf!PlaceOf(f))

Earlier(e) == {f \in LedgerOf!Rest : Precedes(f, e)}

IsLive(e) == records[e] # None /\ records[e].live

\* Rows and batches have a day.
DaysKnown ==
    /\ DOMAIN records = LedgerOf!Ids
    /\ \A i \in LedgerOf!Ids : records[i] # None =>
         "day" \in DOMAIN records[i] /\ "live" \in DOMAIN records[i] /\ records[i].day \in Days
    /\ DOMAIN task = Members
    /\ \A m \in Members : "day" \in DOMAIN task[m] /\ task[m].day \in Days

\* An entry that kept its place was read if it is not after the cursor, and only then.
ScrollInv ==
    /\ DaysKnown
    /\ scroll \in [pc : {"idle", "reading", "done"}, cursor : LedgerOf!Place \cup {None},
                   read : [Entries -> Nat], moved : SUBSET Entries]
    /\ scroll.pc = "idle" => scroll.cursor = None /\ \A e \in Entries : scroll.read[e] = 0
    /\ \A e \in Entries \ scroll.moved : scroll.read[e] <= 1
    /\ scroll.pc = "reading" => \A e \in Entries \ scroll.moved :
         IsLive(e) => (scroll.read[e] = IF LedgerOf!AfterCursor(e) THEN 0 ELSE 1)
    /\ scroll.pc = "done" => \A e \in Entries \ scroll.moved :
         IsLive(e) => scroll.read[e] = 1

\* The order of the ledger is a total order of places.
LEMMA PlacesOrdered ==
    ASSUME NEW p \in Int \X Int, NEW q \in Int \X Int, NEW r \in Int \X Int
    PROVE  /\ ~LedgerOf!Before(p, p)
           /\ LedgerOf!Before(p, q) => ~LedgerOf!Before(q, p)
           /\ LedgerOf!Before(p, q) /\ LedgerOf!Before(q, r) => LedgerOf!Before(p, r)
           /\ p # q => LedgerOf!Before(p, q) \/ LedgerOf!Before(q, p)
BY DEF LedgerOf!Before

LEMMA RestPlaces ==
    ASSUME DaysKnown
    PROVE  /\ LedgerOf!Rest \subseteq Entries /\ IsFiniteSet(LedgerOf!Rest)
           /\ \A e \in LedgerOf!Rest : LedgerOf!PlaceOf(e) \in Days \X Entries
           /\ \A e \in LedgerOf!Rest : LedgerOf!PlaceOf(e) \in Int \X Int
           /\ \A e, f \in LedgerOf!Rest : e # f => LedgerOf!PlaceOf(e) # LedgerOf!PlaceOf(f)
           /\ \A e \in LedgerOf!Rest : IsFiniteSet(Earlier(e)) /\ Cardinality(Earlier(e)) \in Nat
<1>1. LedgerOf!Rest \subseteq Entries /\ IsFiniteSet(LedgerOf!Rest)
  BY ServicesAssumption, FS_Subset DEF LedgerOf!Rest
<1>2. \A e \in LedgerOf!Rest : records[e].day \in Days /\ e \in Entries
  BY DEF LedgerOf!Rest, LedgerOf!Live, DaysKnown
<1>3. \A e \in LedgerOf!Rest : IsFiniteSet(Earlier(e)) /\ Cardinality(Earlier(e)) \in Nat
  BY <1>1, FS_Subset, FS_CardinalityType DEF Earlier
<1> QED
  BY <1>1, <1>2, <1>3, ServicesAssumption DEF LedgerOf!PlaceOf

LEMMA PrecedesOrder ==
    ASSUME DaysKnown, NEW e \in LedgerOf!Rest, NEW f \in LedgerOf!Rest, NEW g \in LedgerOf!Rest
    PROVE  /\ ~Precedes(e, e)
           /\ Precedes(e, f) => ~Precedes(f, e)
           /\ Precedes(e, f) /\ Precedes(f, g) => Precedes(e, g)
           /\ e # f => Precedes(e, f) \/ Precedes(f, e)
BY RestPlaces, PlacesOrdered DEF Precedes

\* What precedes has fewer before it.
LEMMA FewerBefore ==
    ASSUME DaysKnown, NEW e \in LedgerOf!Rest, NEW f \in LedgerOf!Rest, Precedes(f, e)
    PROVE  Cardinality(Earlier(f)) < Cardinality(Earlier(e))
<1>1. f \notin Earlier(f) /\ Earlier(f) \cup {f} \subseteq Earlier(e)
  BY PrecedesOrder DEF Earlier
<1>2. /\ IsFiniteSet(Earlier(f)) /\ Cardinality(Earlier(f)) \in Nat
      /\ IsFiniteSet(Earlier(e)) /\ Cardinality(Earlier(e)) \in Nat
  BY RestPlaces
<1>3. Cardinality(Earlier(f) \cup {f}) = Cardinality(Earlier(f)) + 1
  BY <1>1, <1>2, FS_AddElement
<1>4. Cardinality(Earlier(f) \cup {f}) <= Cardinality(Earlier(e))
  BY <1>1, <1>2, FS_Subset
<1> QED
  BY <1>2, <1>3, <1>4

\* The instance counts as FiniteSets does.
LEMMA LedgerCardinality == \A S : LedgerOf!Cardinality(S) = Cardinality(S)
BY DEF Cardinality, LedgerOf!Cardinality

LEMMA FirstIs ==
    ASSUME NEW n
    PROVE  LedgerOf!First(n) = {e \in LedgerOf!Rest : Cardinality(Earlier(e)) < n}
BY LedgerCardinality DEF LedgerOf!First, Earlier, Precedes

\* A page of what fits is all of it.
LEMMA WholePage ==
    ASSUME DaysKnown, NEW n \in Nat, Cardinality(LedgerOf!Rest) <= n
    PROVE  LedgerOf!First(n) = LedgerOf!Rest
<1>1. ASSUME NEW e \in LedgerOf!Rest PROVE Cardinality(Earlier(e)) < n
  <2>1. Earlier(e) \subseteq LedgerOf!Rest \ {e}
    BY PrecedesOrder DEF Earlier
  <2>2. /\ IsFiniteSet(LedgerOf!Rest \ {e})
        /\ Cardinality(LedgerOf!Rest \ {e}) = Cardinality(LedgerOf!Rest) - 1
    BY RestPlaces, FS_RemoveElement
  <2>3. Cardinality(Earlier(e)) <= Cardinality(LedgerOf!Rest \ {e})
    BY <2>1, <2>2, FS_Subset
  <2>4. Cardinality(LedgerOf!Rest) \in Nat /\ Cardinality(Earlier(e)) \in Nat
    BY RestPlaces, FS_CardinalityType
  <2> QED
    BY <2>2, <2>3, <2>4
<1> QED
  BY <1>1, FirstIs

\* A page that is not empty has a last entry, and what is not on it comes after.
LEMMA LastOfPage ==
    ASSUME DaysKnown, NEW n \in Nat \ {0}, LedgerOf!Rest # {}
    PROVE  \E l \in LedgerOf!First(n) :
             /\ \A f \in LedgerOf!First(n) \ {l} : Precedes(f, l)
             /\ \A f \in LedgerOf!Rest \ LedgerOf!First(n) : Precedes(l, f)
<1> DEFINE P == LedgerOf!First(n)
           R == {k \in 0..n : \E e \in P : k = Cardinality(Earlier(e))}
           all == {Cardinality(Earlier(e)) : e \in LedgerOf!Rest}
<1>1. P = {e \in LedgerOf!Rest : Cardinality(Earlier(e)) < n}
  BY FirstIs
<1>2. P # {}
  <2>1. all \subseteq Nat /\ all # {}
    BY RestPlaces
  <2>2. PICK x \in all : \A y \in all : <<y, x>> \notin OpToRel(<, Nat)
    BY <2>1, WFMin, NatLessThanWellFounded, Zenon
  <2>3. \A y \in all : ~(y < x)
    BY <2>1, <2>2, Zenon DEF OpToRel
  <2>4. PICK e \in LedgerOf!Rest : x = Cardinality(Earlier(e))
    OBVIOUS
  <2>5. Earlier(e) = {}
    <3>1. ASSUME NEW f \in Earlier(e) PROVE FALSE
      <4>1. f \in LedgerOf!Rest /\ Precedes(f, e)
        BY DEF Earlier
      <4>2. Cardinality(Earlier(f)) < x
        BY <2>4, <4>1, FewerBefore
      <4> QED
        BY <2>3, <4>1, <4>2
    <3> QED
      BY <3>1
  <2>6. Cardinality(Earlier(e)) = 0
    BY <2>5, FS_EmptySet
  <2> QED
    BY <1>1, <2>6
<1> HIDE DEF P, all
<1>3. R # {} /\ R \in SUBSET (0..n)
  <2>1. PICK e \in P : TRUE
    BY <1>2
  <2>2. Cardinality(Earlier(e)) \in 0..n
    BY <1>1, <2>1, RestPlaces
  <2> QED
    BY <2>1, <2>2
<1>4. PICK k \in R : \A i \in R : k >= i
  BY <1>3, Greatest
<1>5. PICK l \in P : k = Cardinality(Earlier(l))
  OBVIOUS
<1>6. l \in LedgerOf!Rest /\ Cardinality(Earlier(l)) < n /\ Cardinality(Earlier(l)) \in Nat
  BY <1>1, <1>5, RestPlaces
<1>7. ASSUME NEW f \in P \ {l} PROVE Precedes(f, l)
  <2>1. f \in LedgerOf!Rest /\ Cardinality(Earlier(f)) < n /\ Cardinality(Earlier(f)) \in Nat
    BY <1>1, RestPlaces
  <2>2. Cardinality(Earlier(f)) \in R
    BY <2>1
  <2>3. Cardinality(Earlier(l)) >= Cardinality(Earlier(f))
    BY <1>4, <1>5, <2>2
  <2> HIDE DEF R
  <2>4. ~Precedes(l, f)
    BY <1>6, <2>1, <2>3, FewerBefore
  <2> QED
    BY <1>6, <2>1, <2>4, PrecedesOrder
<1>8. ASSUME NEW f \in LedgerOf!Rest \ P PROVE Precedes(l, f)
  <2>1. Cardinality(Earlier(f)) \in Nat /\ ~(Cardinality(Earlier(f)) < n)
    BY <1>1, RestPlaces
  <2> HIDE DEF R
  <2>2. ~Precedes(f, l)
    BY <1>6, <2>1, FewerBefore
  <2> QED
    BY <1>5, <1>6, <2>2, PrecedesOrder
<1> QED
  BY <1>5, <1>7, <1>8 DEF P

LEMMA ScrollInitHolds == LedgerOf!Init => ScrollInv
<1> SUFFICES ASSUME LedgerOf!Init PROVE ScrollInv
  OBVIOUS
<1>1. LedgerOf!AnyDay \in Days
  BY ServicesAssumption DEF LedgerOf!AnyDay
<1>2. "day" \in DOMAIN LedgerOf!Idle /\ LedgerOf!Idle.day \in Days
  BY <1>1 DEF LedgerOf!Idle
<1>3. DaysKnown
  BY <1>2 DEF LedgerOf!Init, DaysKnown
<1> QED
  BY <1>3 DEF LedgerOf!Init, ScrollInv

LEMMA ReadPageHolds ==
    ASSUME ScrollInv, LedgerOf!ReadPage
    PROVE  ScrollInv'
<1> DEFINE page == LedgerOf!First(PageSize)
           more == Cardinality(LedgerOf!Rest) > PageSize
           l == CHOOSE e \in page : \A f \in page \ {e} :
                  LedgerOf!Before(LedgerOf!PlaceOf(f), LedgerOf!PlaceOf(e))
           read == [e \in Entries |-> IF e \in page THEN scroll.read[e] + 1 ELSE scroll.read[e]]
<1>1. DaysKnown /\ UNCHANGED <<records, task>> /\ scroll.pc \in {"idle", "reading"}
  BY DEF ScrollInv, LedgerOf!ReadPage
<1>2. scroll' = [scroll EXCEPT !.pc = IF more THEN "reading" ELSE "done",
                               !.cursor = IF more THEN LedgerOf!PlaceOf(l) ELSE None,
                               !.read = read]
  <2>1. LedgerOf!Cardinality(LedgerOf!Rest) = Cardinality(LedgerOf!Rest)
    BY LedgerCardinality
  <2> QED
    BY <2>1 DEF LedgerOf!ReadPage
<1>3. page \subseteq LedgerOf!Rest /\ LedgerOf!Rest \subseteq Entries
      /\ \A e \in LedgerOf!Rest : IsLive(e) /\ LedgerOf!AfterCursor(e)
  BY <1>1, FirstIs, RestPlaces DEF LedgerOf!Rest, LedgerOf!Live, IsLive
<1>4. \A e \in Entries : IsLive(e) /\ LedgerOf!AfterCursor(e) => e \in LedgerOf!Rest
  BY DEF LedgerOf!Rest, LedgerOf!Live, IsLive, LedgerOf!Ids
<1>5. ASSUME NEW e \in Entries \ scroll.moved
      PROVE  /\ scroll.read[e] \in Nat /\ scroll.read[e] <= 1
             /\ IsLive(e) => (scroll.read[e] = IF LedgerOf!AfterCursor(e) THEN 0 ELSE 1)
  BY <1>1 DEF ScrollInv, LedgerOf!AfterCursor
<1> HIDE DEF page, l, more
<1>6. /\ read \in [Entries -> Nat]
      /\ \A e \in Entries : read[e] = IF e \in page THEN scroll.read[e] + 1 ELSE scroll.read[e]
  BY DEF ScrollInv
<1> HIDE DEF read
<1>7. \A e \in Entries \ scroll.moved : read[e] <= 1
  BY <1>3, <1>5, <1>6
<1>8. DaysKnown'
  BY <1>1 DEF DaysKnown
<1>9. \A e : IsLive(e)' = IsLive(e) /\ LedgerOf!PlaceOf(e)' = LedgerOf!PlaceOf(e)
  BY <1>1 DEF IsLive, LedgerOf!PlaceOf
<1>10. CASE ~more
  <2>1. page = LedgerOf!Rest
    <3>1. Cardinality(LedgerOf!Rest) <= PageSize
      <4>1. Cardinality(LedgerOf!Rest) \in Nat
        BY <1>1, RestPlaces, FS_CardinalityType
      <4> QED
        BY <1>10, <4>1, ServicesAssumption DEF more
    <3> QED
      BY <1>1, <3>1, WholePage, ServicesAssumption DEF page
  <2>2. /\ scroll' \in [pc : {"idle", "reading", "done"}, cursor : LedgerOf!Place \cup {None},
                        read : [Entries -> Nat], moved : SUBSET Entries]
        /\ scroll'.pc = "done" /\ scroll'.read = read /\ scroll'.moved = scroll.moved
    BY <1>2, <1>6, <1>10 DEF ScrollInv
  <2>3. \A e \in Entries \ scroll.moved : IsLive(e) => read[e] = 1
    BY <1>3, <1>4, <1>5, <1>6, <2>1
  <2> QED
    BY <1>7, <1>8, <1>9, <2>2, <2>3 DEF ScrollInv
<1>11. CASE more
  <2>1. PICK k \in page : /\ \A f \in page \ {k} : Precedes(f, k)
                          /\ \A f \in LedgerOf!Rest \ page : Precedes(k, f)
    <3>1. LedgerOf!Rest # {}
      BY <1>11, FS_EmptySet, ServicesAssumption DEF more
    <3> QED
      BY <1>1, <3>1, LastOfPage, ServicesAssumption DEF page
  <2>2. l \in page /\ \A f \in page \ {l} : Precedes(f, l)
    BY <2>1 DEF l, Precedes
  <2>3. l = k
    BY <1>1, <1>3, <2>1, <2>2, PrecedesOrder
  <2>4. LedgerOf!PlaceOf(l) \in LedgerOf!Place /\ LedgerOf!PlaceOf(l) # None
        /\ LedgerOf!PlaceOf(l) \in Int \X Int
    BY <1>1, <1>3, <2>2, RestPlaces, ServicesAssumption DEF LedgerOf!Place
  <2>5. /\ scroll' \in [pc : {"idle", "reading", "done"}, cursor : LedgerOf!Place \cup {None},
                        read : [Entries -> Nat], moved : SUBSET Entries]
        /\ scroll'.pc = "reading" /\ scroll'.read = read /\ scroll'.moved = scroll.moved
        /\ scroll'.cursor = LedgerOf!PlaceOf(l)
    BY <1>2, <1>6, <1>11, <2>4 DEF ScrollInv
  <2>6. \A e : LedgerOf!AfterCursor(e)' <=> Precedes(l, e)
    BY <1>1, <2>4, <2>5 DEF LedgerOf!AfterCursor, Precedes, LedgerOf!PlaceOf
  <2>7. ASSUME NEW e \in Entries \ scroll.moved, IsLive(e)
        PROVE  read[e] = IF LedgerOf!AfterCursor(e)' THEN 0 ELSE 1
    <3>1. CASE e \in page
      <4>1. ~Precedes(l, e)
        BY <1>1, <1>3, <2>2, <3>1, PrecedesOrder
      <4> QED
        BY <1>3, <1>5, <1>6, <2>6, <3>1, <4>1
    <3>2. CASE e \in LedgerOf!Rest \ page
      BY <1>3, <1>5, <1>6, <2>1, <2>3, <2>6, <3>2
    <3>3. CASE e \notin LedgerOf!Rest
      <4>1. ~LedgerOf!AfterCursor(e)
        BY <1>4, <2>7, <3>3
      <4>2. /\ scroll.cursor \in Int \X Int /\ ~LedgerOf!Before(scroll.cursor, LedgerOf!PlaceOf(e))
            /\ LedgerOf!PlaceOf(e) \in Int \X Int
        <5>1. records[e].day \in Days
          BY <1>1, <2>7 DEF DaysKnown, IsLive, LedgerOf!Ids
        <5>2. scroll.cursor \in Days \X Entries
          BY <4>1 DEF ScrollInv, LedgerOf!AfterCursor, LedgerOf!Place
        <5> QED
          BY <4>1, <5>1, <5>2, ServicesAssumption DEF LedgerOf!AfterCursor, LedgerOf!PlaceOf
      <4>3. LedgerOf!Before(scroll.cursor, LedgerOf!PlaceOf(l))
        <5>1. LedgerOf!AfterCursor(l)
          BY <1>3, <2>2
        <5> QED
          BY <4>1, <5>1 DEF LedgerOf!AfterCursor
      <4>4. ~Precedes(l, e)
        BY <2>4, <4>2, <4>3, PlacesOrdered DEF Precedes
      <4> QED
        <5>1. e \notin page /\ e \in Entries
          BY <1>3, <3>3
        <5>2. scroll.read[e] = 1
          BY <1>5, <2>7, <4>1
        <5> QED
          BY <1>6, <2>6, <4>4, <5>1, <5>2
    <3> QED
      BY <3>1, <3>2, <3>3
  <2> QED
    BY <1>7, <1>8, <1>9, <2>5, <2>7 DEF ScrollInv
<1> QED
  BY <1>10, <1>11

\* A write: what keeps its place keeps it, and the rest is recorded as moved.
LEMMA WriteHolds ==
    ASSUME ScrollInv, NEW r, records' = r, LedgerOf!Moves(r), DaysKnown'
    PROVE  ScrollInv'
<1>1. CASE scroll.pc = "idle"
  <2>1. scroll' = scroll
    BY <1>1 DEF LedgerOf!Moves
  <2> QED
    BY <1>1, <2>1 DEF ScrollInv
<1>2. CASE scroll.pc # "idle"
  <2> DEFINE moved == {e \in Entries : r[e] # records[e] /\
                         (records[e] = None \/ r[e].live # records[e].live
                                            \/ r[e].day # records[e].day)}
  <2>1. scroll' = [scroll EXCEPT !.moved = scroll.moved \cup moved]
    BY <1>2 DEF LedgerOf!Moves, ScrollInv
  <2>2. /\ scroll' \in [pc : {"idle", "reading", "done"}, cursor : LedgerOf!Place \cup {None},
                        read : [Entries -> Nat], moved : SUBSET Entries]
        /\ scroll'.pc = scroll.pc /\ scroll'.cursor = scroll.cursor
        /\ scroll'.read = scroll.read /\ scroll'.moved = scroll.moved \cup moved
    BY <2>1 DEF ScrollInv
  <2>3. ASSUME NEW e \in Entries \ scroll'.moved, IsLive(e)'
        PROVE  IsLive(e) /\ records'[e].day = records[e].day
    BY <2>2, <2>3 DEF IsLive
  <2> HIDE DEF moved
  <2>4. \A e \in Entries \ scroll'.moved :
          IsLive(e)' => IsLive(e) /\ LedgerOf!AfterCursor(e)' = LedgerOf!AfterCursor(e)
    BY <2>2, <2>3 DEF LedgerOf!AfterCursor, LedgerOf!PlaceOf
  <2> QED
    BY <1>2, <2>2, <2>4 DEF ScrollInv
<1> QED
  BY <1>1, <1>2

\* What a member does without a write is nothing to who scrolls.
LEMMA NoWriteHolds ==
    ASSUME ScrollInv, UNCHANGED <<records, scroll>>, DaysKnown'
    PROVE  ScrollInv'
<1>1. \A e : IsLive(e)' = IsLive(e) /\ LedgerOf!AfterCursor(e)' = LedgerOf!AfterCursor(e)
  BY DEF IsLive, LedgerOf!AfterCursor, LedgerOf!PlaceOf
<1> QED
  BY <1>1 DEF ScrollInv

LEMMA TaskDay ==
    ASSUME DaysKnown, NEW m \in Members, NEW t, "day" \in DOMAIN t, t.day \in Days,
           LedgerOf!To(m, t)
    PROVE  /\ DOMAIN task' = Members
           /\ \A n \in Members : "day" \in DOMAIN task'[n] /\ task'[n].day \in Days
BY DEF DaysKnown, LedgerOf!To

LEMMA IdleDay == "day" \in DOMAIN LedgerOf!Idle /\ LedgerOf!Idle.day \in Days
<1>1. LedgerOf!AnyDay \in Days
  BY ServicesAssumption DEF LedgerOf!AnyDay
<1> QED
  BY <1>1 DEF LedgerOf!Idle

LEMMA PutBatchHolds ==
    ASSUME ScrollInv, NEW m \in Members, LedgerOf!PutBatch(m)
    PROVE  ScrollInv'
<1> DEFINE r == [i \in LedgerOf!Ids |-> IF i \in task[m].batch THEN LedgerOf!Upserted(m)
                                        ELSE records[i]]
<1>1. records' = r /\ LedgerOf!Moves(r) /\ LedgerOf!To(m, LedgerOf!Idle)
  BY DEF LedgerOf!PutBatch
<1>2. /\ "day" \in DOMAIN LedgerOf!Upserted(m) /\ "live" \in DOMAIN LedgerOf!Upserted(m)
      /\ LedgerOf!Upserted(m).day \in Days
  BY DEF LedgerOf!Upserted, ScrollInv, DaysKnown
<1>3. DaysKnown'
  BY <1>1, <1>2, TaskDay, IdleDay DEF ScrollInv, DaysKnown
<1> QED
  BY <1>1, <1>3, WriteHolds

LEMMA TombstonedHolds ==
    ASSUME ScrollInv, NEW S, records' = LedgerOf!Tombstoned(S),
           LedgerOf!Moves(LedgerOf!Tombstoned(S)),
           \/ UNCHANGED task
           \/ \E m \in Members : LedgerOf!To(m, LedgerOf!Idle)
    PROVE  ScrollInv'
<1>1. /\ DOMAIN task' = Members
      /\ \A n \in Members : "day" \in DOMAIN task'[n] /\ task'[n].day \in Days
  BY TaskDay, IdleDay DEF ScrollInv, DaysKnown
<1>2. DOMAIN records' = LedgerOf!Ids
  BY DEF LedgerOf!Tombstoned
<1>3. ASSUME NEW i \in LedgerOf!Ids, records'[i] # None
      PROVE  "day" \in DOMAIN records'[i] /\ "live" \in DOMAIN records'[i] /\ records'[i].day \in Days
  <2>1. CASE i \in S \cap LedgerOf!Live
    <3>1. records'[i] = [records[i] EXCEPT !.live = FALSE]
      BY <2>1 DEF LedgerOf!Tombstoned
    <3>2. "day" \in DOMAIN records[i] /\ "live" \in DOMAIN records[i] /\ records[i].day \in Days
      BY <2>1 DEF LedgerOf!Live, ScrollInv, DaysKnown
    <3> QED
      BY <3>1, <3>2
  <2>2. CASE i \notin S \cap LedgerOf!Live
    BY <1>3, <2>2 DEF LedgerOf!Tombstoned, ScrollInv, DaysKnown
  <2> QED
    BY <2>1, <2>2
<1>4. DaysKnown'
  BY <1>1, <1>2, <1>3 DEF DaysKnown
<1> QED
  BY <1>4, WriteHolds

\* The steps that write no record.
LEMMA RequestHolds ==
    ASSUME ScrollInv, NEW m \in Members,
           \/ LedgerOf!GetVault(m) \/ LedgerOf!PutVault(m)
           \/ \E batch \in SUBSET Entries, day \in Days : LedgerOf!SendEntries(m, batch, day)
           \/ \E batch \in SUBSET LedgerOf!Objects : LedgerOf!SendObjects(m, batch)
           \/ LedgerOf!ReadEpoch(m) \/ LedgerOf!BeginClear(m) \/ LedgerOf!ClearEntries(m)
           \/ LedgerOf!Abort(m)
    PROVE  ScrollInv'
<1>1. UNCHANGED <<records, scroll>>
  BY DEF LedgerOf!GetVault, LedgerOf!PutVault, LedgerOf!SendEntries, LedgerOf!SendObjects,
         LedgerOf!SendBatch, LedgerOf!ReadEpoch, LedgerOf!BeginClear, LedgerOf!ClearEntries,
         LedgerOf!Abort
<1>2. ASSUME NEW t, "day" \in DOMAIN t, t.day \in Days, LedgerOf!To(m, t) PROVE ScrollInv'
  <2>1. DaysKnown'
    BY <1>1, <1>2, TaskDay DEF ScrollInv, DaysKnown
  <2> QED
    BY <1>1, <2>1, NoWriteHolds
<1>3. "day" \in DOMAIN task[m] /\ task[m].day \in Days
  BY DEF ScrollInv, DaysKnown
<1>4. CASE LedgerOf!GetVault(m)
  <2> DEFINE t == [LedgerOf!Idle EXCEPT !.pc = "edit", !.base = vault.version,
                                        !.edits = vault.edits \cup {m}]
  <2>1. LedgerOf!To(m, t)
    BY <1>4 DEF LedgerOf!GetVault
  <2>2. "day" \in DOMAIN t /\ t.day = LedgerOf!Idle.day
    BY DEF LedgerOf!Idle
  <2> HIDE DEF t
  <2> QED
    BY <1>2, <2>1, <2>2, IdleDay
<1>5. CASE LedgerOf!PutVault(m) \/ LedgerOf!Abort(m)
  BY <1>2, <1>5, IdleDay DEF LedgerOf!PutVault, LedgerOf!Abort
<1>6. ASSUME NEW batch, NEW day \in Days, LedgerOf!SendBatch(m, batch, day) PROVE ScrollInv'
  <2> DEFINE t == [LedgerOf!Idle EXCEPT !.pc = "epoch", !.batch = batch, !.day = day,
                                        !.sealed = keyEpoch]
  <2>1. LedgerOf!To(m, t)
    BY <1>6 DEF LedgerOf!SendBatch
  <2>2. "day" \in DOMAIN t /\ t.day = day
    BY DEF LedgerOf!Idle
  <2> HIDE DEF t
  <2> QED
    BY <1>2, <2>1, <2>2
<1>7. LedgerOf!AnyDay \in Days
  BY ServicesAssumption DEF LedgerOf!AnyDay
<1>8. CASE LedgerOf!ReadEpoch(m)
  <2> DEFINE t == [task[m] EXCEPT !.pc = "rows", !.label = keyEpoch]
  <2>1. LedgerOf!To(m, t)
    BY <1>8 DEF LedgerOf!ReadEpoch, LedgerOf!CurrentEpoch
  <2>2. "day" \in DOMAIN t /\ t.day = task[m].day
    BY <1>3
  <2> HIDE DEF t
  <2> QED
    BY <1>2, <1>3, <2>1, <2>2
<1>9. CASE LedgerOf!BeginClear(m)
  <2> DEFINE t == [LedgerOf!Idle EXCEPT !.pc = "entries",
                                        !.found = LedgerOf!Live \cap Entries]
  <2>1. LedgerOf!To(m, t)
    BY <1>9 DEF LedgerOf!BeginClear
  <2>2. "day" \in DOMAIN t /\ t.day = LedgerOf!Idle.day
    BY DEF LedgerOf!Idle
  <2> HIDE DEF t
  <2> QED
    BY <1>2, <2>1, <2>2, IdleDay
<1>10. CASE LedgerOf!ClearEntries(m)
  <2> DEFINE t == [task[m] EXCEPT !.pc = "objects",
                     !.found = (@ \cap LedgerOf!Live) \cup (LedgerOf!Live \cap Clearable)]
  <2>1. LedgerOf!To(m, t)
    BY <1>10 DEF LedgerOf!ClearEntries
  <2>2. "day" \in DOMAIN t /\ t.day = task[m].day
    BY <1>3
  <2> HIDE DEF t
  <2> QED
    BY <1>2, <1>3, <2>1, <2>2
<1> QED
  BY <1>4, <1>5, <1>6, <1>7, <1>8, <1>9, <1>10 DEF LedgerOf!SendEntries, LedgerOf!SendObjects

LEMMA ScrollStep == ScrollInv /\ LedgerStep => ScrollInv'
<1> SUFFICES ASSUME ScrollInv, LedgerStep PROVE ScrollInv'
  OBVIOUS
<1>1. CASE UNCHANGED <<records, scroll, task>>
  <2>1. DaysKnown'
    BY <1>1 DEF ScrollInv, DaysKnown
  <2> QED
    BY <1>1, <2>1, NoWriteHolds
<1>2. LedgerOf!Rotate \/ LedgerOf!CreateHousehold \/ LedgerOf!EnableMoney \/ UNCHANGED ledger
      => UNCHANGED <<records, scroll, task>>
  BY DEF LedgerOf!Rotate, LedgerOf!CreateHousehold, LedgerOf!EnableMoney, LedgerOf!Enable, ledger
<1>3. ASSUME NEW m \in Members, LedgerOf!PutEntries(m) \/ LedgerOf!PutObjects(m)
      PROVE  ScrollInv'
  BY <1>3, PutBatchHolds DEF LedgerOf!PutEntries, LedgerOf!PutObjects
<1>4. ASSUME NEW m \in Members, NEW i, LedgerOf!DeleteEntry(m, i) \/ LedgerOf!DeleteObject(m, i)
      PROVE  ScrollInv'
  BY <1>4, TombstonedHolds DEF LedgerOf!DeleteEntry, LedgerOf!DeleteObject, LedgerOf!Delete
<1>5. ASSUME NEW m \in Members, LedgerOf!CommitClear(m) PROVE ScrollInv'
  BY <1>5, TombstonedHolds DEF LedgerOf!CommitClear
<1> QED
  BY <1>1, <1>2, <1>3, <1>4, <1>5, RequestHolds, ReadPageHolds DEF LedgerStep, LedgerOf!Next

\* Whoever scrolls to the end sees every entry that kept its place once, while any
\* number of others log, move, delete and clear (ListMoneyEntries,
\* store/money_vault.go).
THEOREM ScrollCompleteHolds == ServicesSpec => []ScrollComplete
<1>1. ServicesInit => ScrollInv
  BY ScrollInitHolds DEF ServicesInit
<1>2. ScrollInv /\ [ServicesNext]_<<service, accounts, pageVars, ledger, household, home>>
        => ScrollInv'
  BY StepsApart, ScrollStep
<1>3. ScrollInv => ScrollComplete
  BY DEF ScrollInv, IsLive, ScrollComplete, LedgerOf!ScrollComplete
<1> QED
  BY <1>1, <1>2, <1>3, PTL DEF ServicesSpec

-----------------------------------------------------------------------------
(* MoneyInvites: who is let in.                                            *)

\* An invitation that let somebody in says whom; a key is filed for an account.
GuestsInv ==
    /\ \A p \in filed : p \in joined /\ wraps[p] = epoch
    /\ DOMAIN wraps = People /\ filed \subseteq People
    /\ DOMAIN guests = 1..MaxInvites
    /\ invites \in Seq(InvitesOf!Invite) /\ Len(invites) <= MaxInvites
    /\ \A i \in DOMAIN invites :
         guests[i] \subseteq ({invites[i].by} \cap People)
    /\ \A i \in 1..MaxInvites : i \notin DOMAIN invites => guests[i] = {}
    /\ \A s \in sealed : s[1] \in DOMAIN invites /\ invites[s[1]].invitee # None

LEMMA InvitesInitHolds == InvitesOf!Init => GuestsInv
BY ServicesAssumption DEF InvitesOf!Init, GuestsInv

\* The last conjuncts, while nobody is let in and no invitee changes.
LEMMA SameGuests ==
    ASSUME GuestsInv, NEW i \in DOMAIN invites, NEW v \in InvitesOf!Invite,
           v.by = invites[i].by, v.invitee = invites[i].invitee,
           invites' = [invites EXCEPT ![i] = v],
           UNCHANGED <<epoch, joined, wraps, guests, filed>>,
           \A s \in sealed' \ sealed : s[1] = i /\ v.invitee # None
    PROVE  GuestsInv'
<1>1. invites' \in Seq(InvitesOf!Invite) /\ Len(invites') = Len(invites)
      /\ DOMAIN invites' = DOMAIN invites
  BY DEF GuestsInv
<1>2. /\ invites'[i] = v
      /\ \A j \in DOMAIN invites : j # i => invites'[j] = invites[j]
  BY DEF GuestsInv
<1>3. \A j \in DOMAIN invites : /\ invites'[j].by = invites[j].by
                                /\ invites'[j].invitee = invites[j].invitee
  BY <1>2
<1>4. \A s \in sealed' : s[1] \in DOMAIN invites' /\ invites'[s[1]].invitee # None
  BY <1>1, <1>2, <1>3 DEF GuestsInv
<1> QED
  BY <1>1, <1>3, <1>4 DEF GuestsInv

LEMMA CreateInviteHolds ==
    ASSUME GuestsInv, NEW p \in People, InvitesOf!CreateInvite(p)
    PROVE  GuestsInv'
<1>1. PICK invitee \in InvitesOf!Provisioned(p) :
        invites' = Append(invites, [email |-> p, invitee |-> invitee, by |-> None,
                                    keyed |-> FALSE, revoked |-> FALSE,
                                    expired |-> FALSE, told |-> FALSE])
  BY DEF InvitesOf!CreateInvite
<1> DEFINE v == [email |-> p, invitee |-> invitee, by |-> None, keyed |-> FALSE,
                 revoked |-> FALSE, expired |-> FALSE, told |-> FALSE]
<1>2. v \in InvitesOf!Invite
  BY DEF InvitesOf!Invite, InvitesOf!Provisioned
<1> HIDE DEF v
<1>3. /\ invites' = Append(invites, v) /\ Len(invites) < MaxInvites
      /\ UNCHANGED <<epoch, joined, wraps, sealed, guests, filed>>
  BY <1>1 DEF InvitesOf!CreateInvite, v
<1>4. /\ invites' \in Seq(InvitesOf!Invite) /\ Len(invites') = Len(invites) + 1
      /\ \A j \in DOMAIN invites : j \in DOMAIN invites' /\ invites'[j] = invites[j]
      /\ \A j \in DOMAIN invites' \ DOMAIN invites : j \in 1..MaxInvites
      /\ DOMAIN invites \subseteq DOMAIN invites'
  BY <1>2, <1>3, ServicesAssumption DEF GuestsInv
<1>5. Len(invites') <= MaxInvites
  BY <1>3, <1>4, ServicesAssumption DEF GuestsInv
<1> QED
  BY <1>3, <1>4, <1>5 DEF GuestsInv

LEMMA TellEpochHolds ==
    ASSUME GuestsInv, NEW i \in DOMAIN invites, InvitesOf!TellEpoch(i)
    PROVE  GuestsInv'
<1> DEFINE v == [invites[i] EXCEPT !.told = TRUE]
<1>1. invites[i] \in InvitesOf!Invite
  BY DEF GuestsInv
<1>2. v \in InvitesOf!Invite /\ v.by = invites[i].by /\ v.invitee = invites[i].invitee
  BY <1>1 DEF InvitesOf!Invite
<1>3. /\ invites' = [invites EXCEPT ![i] = v]
      /\ UNCHANGED <<epoch, joined, wraps, guests, filed>>
      /\ sealed' = IF invites[i].invitee = None THEN sealed ELSE sealed \cup {<<i, epoch>>}
  BY DEF InvitesOf!TellEpoch
<1> HIDE DEF v
<1>4. \A s \in sealed' \ sealed : s[1] = i /\ v.invitee # None
  BY <1>2, <1>3
<1> QED
  BY <1>2, <1>3, <1>4, SameGuests

LEMMA StampHolds ==
    ASSUME GuestsInv, NEW i \in DOMAIN invites,
           InvitesOf!RevokeInvite(i) \/ InvitesOf!Expires(i)
    PROVE  GuestsInv'
<1>1. invites[i] \in InvitesOf!Invite
  BY DEF GuestsInv
<1>2. PICK v \in {[invites[i] EXCEPT !.revoked = TRUE], [invites[i] EXCEPT !.expired = TRUE]} :
        /\ invites' = [invites EXCEPT ![i] = v]
        /\ UNCHANGED <<epoch, joined, wraps, sealed, guests, filed>>
  BY DEF InvitesOf!RevokeInvite, InvitesOf!Expires
<1>3. v \in InvitesOf!Invite /\ v.by = invites[i].by /\ v.invitee = invites[i].invitee
  BY <1>1, <1>2 DEF InvitesOf!Invite
<1> QED
  BY <1>2, <1>3, SameGuests

\* A person is let in by an invitation nobody else was let in by.
LEMMA LetIn ==
    ASSUME GuestsInv, NEW i \in DOMAIN invites, NEW p \in People, NEW v \in InvitesOf!Invite,
           invites[i].by \in {None, p}, v.by = p, v.invitee = invites[i].invitee,
           invites' = [invites EXCEPT ![i] = v],
           guests' = [guests EXCEPT ![i] = guests[i] \cup {p}],
           joined' = joined \cup {p},
           wraps' \in {wraps, [wraps EXCEPT ![p] = epoch]},
           filed' \in {filed, filed \cup {p}},
           p \in filed' \ filed => wraps' = [wraps EXCEPT ![p] = epoch],
           UNCHANGED <<epoch, sealed>>
    PROVE  GuestsInv'
<1>1. invites' \in Seq(InvitesOf!Invite) /\ Len(invites') = Len(invites)
      /\ DOMAIN invites' = DOMAIN invites /\ DOMAIN invites \subseteq 1..MaxInvites
  BY ServicesAssumption DEF GuestsInv
<1>2. /\ invites'[i] = v
      /\ \A j \in DOMAIN invites : j # i => invites'[j] = invites[j]
  BY DEF GuestsInv
<1>3. /\ DOMAIN guests' = 1..MaxInvites
      /\ guests'[i] = guests[i] \cup {p}
      /\ \A j \in 1..MaxInvites : j # i => guests'[j] = guests[j]
  BY <1>1 DEF GuestsInv
<1>4. guests[i] \subseteq {p}
  BY ServicesAssumption DEF GuestsInv
<1>5. \A j \in DOMAIN invites' : guests'[j] \subseteq ({invites'[j].by} \cap People)
  BY <1>1, <1>2, <1>3, <1>4 DEF GuestsInv
<1>6. \A s \in sealed' : s[1] \in DOMAIN invites' /\ invites'[s[1]].invitee # None
  BY <1>1, <1>2 DEF GuestsInv
<1>7. \A j \in 1..MaxInvites : j \notin DOMAIN invites' => guests'[j] = {}
  BY <1>1, <1>3 DEF GuestsInv
<1>8. /\ DOMAIN wraps' = People /\ filed' \subseteq People
      /\ \A q \in filed' : q \in joined' /\ wraps'[q] = epoch'
  BY DEF GuestsInv
<1> QED
  BY <1>1, <1>3, <1>5, <1>6, <1>7, <1>8 DEF GuestsInv

LEMMA FileKeyHolds ==
    ASSUME GuestsInv, NEW i \in DOMAIN invites, NEW e, InvitesOf!FileKey(i, e)
    PROVE  GuestsInv'
<1> DEFINE p == invites[i].invitee
           v == [invites[i] EXCEPT !.keyed = TRUE, !.by = p]
<1>1. invites[i] \in InvitesOf!Invite /\ <<i, e>> \in sealed /\ p # None
  BY DEF GuestsInv, InvitesOf!FileKey
<1>2. p \in People
  BY <1>1 DEF InvitesOf!Invite
<1>3. v \in InvitesOf!Invite /\ v.by = p /\ v.invitee = invites[i].invitee
  BY <1>1 DEF InvitesOf!Invite
<1>4. invites[i].by = None /\ e = epoch
  BY DEF InvitesOf!FileKey, InvitesOf!Fileable, InvitesOf!Unaccepted, InvitesOf!EpochIs
<1>5. /\ invites' = [invites EXCEPT ![i] = v]
      /\ guests' = [guests EXCEPT ![i] = guests[i] \cup {p}]
      /\ joined' = joined \cup {p} /\ wraps' = [wraps EXCEPT ![p] = epoch]
      /\ filed' = filed \cup {p} /\ UNCHANGED <<epoch, sealed>>
  BY <1>4 DEF InvitesOf!FileKey, GuestsInv
<1> HIDE DEF p, v
<1> QED
  BY <1>2, <1>3, <1>4, <1>5, LetIn

LEMMA AcceptInviteHolds ==
    ASSUME GuestsInv, NEW i \in DOMAIN invites, NEW p \in People, InvitesOf!AcceptInvite(i, p)
    PROVE  GuestsInv'
<1> DEFINE v == [invites[i] EXCEPT !.by = p]
<1>1. invites[i] \in InvitesOf!Invite
  BY DEF GuestsInv
<1>2. v \in InvitesOf!Invite /\ v.by = p /\ v.invitee = invites[i].invitee
  BY <1>1 DEF InvitesOf!Invite
<1>3. /\ invites[i].by \in {None, p}
      /\ invites' = [invites EXCEPT ![i] = v]
      /\ guests' = [guests EXCEPT ![i] = guests[i] \cup {p}]
      /\ joined' = joined \cup {p}
      /\ UNCHANGED <<epoch, wraps, sealed, filed>>
  BY DEF InvitesOf!AcceptInvite, InvitesOf!Redeemable, GuestsInv
<1> HIDE DEF v
<1> QED
  BY <1>2, <1>3, LetIn

\* What else happens to the household lets nobody in.
LEMMA HouseholdHolds ==
    ASSUME GuestsInv,
           \/ \E p \in People : InvitesOf!GrantKey(p) \/ InvitesOf!RemoveMember(p)
           \/ \E S \in SUBSET joined : InvitesOf!RotateKey(S)
    PROVE  GuestsInv'
<1>1. UNCHANGED <<invites, sealed, guests>>
  BY DEF InvitesOf!GrantKey, InvitesOf!RemoveMember, InvitesOf!RotateKey
<1>2. /\ DOMAIN wraps' = People /\ filed' \subseteq People
      /\ \A q \in filed' : q \in joined' /\ wraps'[q] = epoch'
  BY DEF GuestsInv, InvitesOf!GrantKey, InvitesOf!RemoveMember, InvitesOf!RotateKey
<1> QED
  BY <1>1, <1>2 DEF GuestsInv

LEMMA InvitesHolds == GuestsInv /\ InvitesStep => GuestsInv'
<1> SUFFICES ASSUME GuestsInv, InvitesStep PROVE GuestsInv'
  OBVIOUS
<1>1. CASE UNCHANGED household
  BY <1>1 DEF GuestsInv, household
<1>2. CASE InvitesOf!Next
  BY <1>2, CreateInviteHolds, TellEpochHolds, StampHolds, FileKeyHolds, AcceptInviteHolds,
     HouseholdHolds DEF InvitesOf!Next
<1> QED
  BY <1>1, <1>2 DEF InvitesStep

LEMMA GuestsAlways == ServicesSpec => []GuestsInv
<1>1. ServicesInit => GuestsInv
  BY InvitesInitHolds DEF ServicesInit
<1>2. GuestsInv /\ [ServicesNext]_<<service, accounts, pageVars, ledger, household, home>>
        => GuestsInv'
  BY StepsApart, InvitesHolds
<1> QED
  BY <1>1, <1>2, PTL DEF ServicesSpec

\* A member a filed key let in can read the ledger until a rotation leaves it out,
\* however late or often its key was filed (FileMoneyInviteKey,
\* store/money_invites.go).
THEOREM FiledReadsHolds == ServicesSpec => []FiledReads
<1>1. GuestsInv => FiledReads
  BY DEF GuestsInv, FiledReads, InvitesOf!FiledReads
<1> QED
  BY <1>1, GuestsAlways, PTL

\* The instance counts as FiniteSets does.
LEMMA SameCardinality == \A S : InvitesOf!Cardinality(S) = Cardinality(S)
BY DEF Cardinality, InvitesOf!Cardinality

\* An invitation lets in one person, whatever is sent again and whoever was removed
\* meanwhile (handleAcceptInvite, httpapi/money.go).
THEOREM OneGuestHolds == ServicesSpec => []OneGuest
<1>1. GuestsInv => OneGuest
  <2> SUFFICES ASSUME GuestsInv, NEW i \in 1..MaxInvites
               PROVE  Cardinality(guests[i]) <= 1
    BY SameCardinality DEF OneGuest, InvitesOf!OneGuest
  <2>1. PICK x : guests[i] \subseteq {x}
    BY DEF GuestsInv
  <2>2. IsFiniteSet({x}) /\ Cardinality({x}) = 1
    BY FS_Singleton
  <2> QED
    BY <2>1, <2>2, FS_Subset, FS_CardinalityType
<1> QED
  BY <1>1, GuestsAlways, PTL

-----------------------------------------------------------------------------
(* Home: the ledger, and the throttle of the sign-in.                      *)

InImport(c) == request[c].pc \in {"match", "insert"}

\* What an import would leave of a row, were it to insert now.
AfterImport(c, r) == entries[r] + HomeOf!Missing(request[c].file, request[c].held)[r]

HomeTypes ==
    /\ window \in Windows
    /\ entries \in [Rows -> Nat]
    /\ byHand \in [Rows -> Nat]
    /\ sent \in [Rows -> Nat]
    /\ failures \in [Windows -> Nat]
    /\ request \in [Callers -> HomeOf!Request]

\* One import at a time, of a file that was sent, and what it is about to insert
\* is accounted for.
ImportInv ==
    /\ HomeTypes
    /\ \A r \in Rows : entries[r] <= sent[r] + byHand[r]
    /\ \A c, d \in Callers : InImport(c) /\ InImport(d) => c = d
    /\ \A c \in Callers : InImport(c) => \A r \in Rows : request[c].file[r] <= sent[r]
    /\ \A c \in Callers : request[c].pc = "insert" =>
         \A r \in Rows : AfterImport(c, r) <= sent[r] + byHand[r]

LEMMA MissingType ==
    ASSUME NEW f \in [Rows -> Nat], NEW h \in [Rows -> Nat]
    PROVE  /\ HomeOf!Missing(f, h) \in [Rows -> Nat]
           /\ \A r \in Rows : h[r] + HomeOf!Missing(f, h)[r] \in {h[r], f[r]}
BY DEF HomeOf!Missing

LEMMA RequestType ==
    ASSUME NEW q \in HomeOf!Request
    PROVE  /\ q.file \in [Rows -> Nat] /\ q.held \in [Rows -> Nat] /\ q.window \in Windows
           /\ "pc" \in DOMAIN q
BY ServicesAssumption DEF HomeOf!Request

LEMMA NothingType == HomeOf!Nothing \in HomeOf!Request /\ HomeOf!Nothing.pc = "idle"
BY ServicesAssumption DEF HomeOf!Nothing, HomeOf!Request, HomeOf!NoRows

LEMMA HomeInitHolds == HomeOf!Init => ImportInv
<1> SUFFICES ASSUME HomeOf!Init PROVE ImportInv
  OBVIOUS
<1>1. HomeTypes
  BY ServicesAssumption, NothingType DEF HomeOf!Init, HomeOf!NoRows, HomeTypes
<1>2. \A c \in Callers : request[c].pc = "idle"
  BY NothingType DEF HomeOf!Init
<1>3. \A r \in Rows : entries[r] <= sent[r] + byHand[r]
  BY DEF HomeOf!Init, HomeOf!NoRows
<1> QED
  BY <1>1, <1>2, <1>3 DEF ImportInv, InImport

\* A request that goes on to something else than an import.
LEMMA OutsideImports ==
    ASSUME ImportInv, NEW c \in Callers, NEW q \in HomeOf!Request,
           q.pc \notin {"match", "insert"},
           request' = [request EXCEPT ![c] = q],
           failures' \in [Windows -> Nat],
           UNCHANGED <<window, entries, byHand, sent>>
    PROVE  ImportInv'
<1>1. HomeTypes'
  BY DEF ImportInv, HomeTypes
<1>2. /\ request'[c] = q
      /\ \A d \in Callers : d # c => request'[d] = request[d]
  BY DEF ImportInv, HomeTypes
<1>3. ~InImport(c)' /\ \A d \in Callers : d # c => InImport(d)' = InImport(d)
  BY <1>2 DEF InImport
<1>4. \A d \in Callers, r \in Rows : d # c => AfterImport(d, r)' = AfterImport(d, r)
  BY <1>2 DEF AfterImport, HomeOf!Missing
<1>5. \A d \in Callers : InImport(d)' => d # c /\ request'[d] = request[d] /\ InImport(d)
  BY <1>2, <1>3
<1>6. \A d, e \in Callers : InImport(d)' /\ InImport(e)' => d = e
  BY <1>5 DEF ImportInv
<1>7. \A d \in Callers : InImport(d)' => \A r \in Rows : request'[d].file[r] <= sent'[r]
  BY <1>5 DEF ImportInv
<1>8. \A d \in Callers : request'[d].pc = "insert" =>
        \A r \in Rows : AfterImport(d, r)' <= sent'[r] + byHand'[r]
  BY <1>2, <1>4 DEF ImportInv
<1>9. \A r \in Rows : entries'[r] <= sent'[r] + byHand'[r]
  BY DEF ImportInv
<1> QED
  BY <1>1, <1>6, <1>7, <1>8, <1>9 DEF ImportInv

LEMMA LoginHolds ==
    ASSUME ImportInv, NEW c \in Callers,
           \/ HomeOf!BeginLogin(c) \/ HomeOf!Compare(c) \/ HomeOf!RecordLoginFailure(c)
           \/ HomeOf!ClearLoginFailures(c) \/ HomeOf!CreateSession(c) \/ HomeOf!Fails(c)
    PROVE  ImportInv'
<1> USE DEF HomeOf!To, HomeOf!Goes, HomeOf!Ends, HomeOf!At, HomeOf!loginOf, HomeOf!ledgerOf
<1>1. request[c] \in HomeOf!Request /\ failures \in [Windows -> Nat] /\ window \in Windows
  BY DEF ImportInv, HomeTypes
<1>2. /\ UNCHANGED <<window, entries, byHand, sent>>
      /\ failures' \in [Windows -> Nat]
  BY <1>1, RequestType DEF HomeOf!BeginLogin, HomeOf!Compare, HomeOf!RecordLoginFailure,
     HomeOf!ClearLoginFailures, HomeOf!CreateSession, HomeOf!Fails
<1>3. PICK q \in {HomeOf!Nothing, [HomeOf!Nothing EXCEPT !.pc = "compare", !.window = window],
                  [request[c] EXCEPT !.pc = "record"], [request[c] EXCEPT !.pc = "clear"],
                  [request[c] EXCEPT !.pc = "session"]} :
        request' = [request EXCEPT ![c] = q]
  BY DEF HomeOf!BeginLogin, HomeOf!Compare, HomeOf!RecordLoginFailure,
     HomeOf!ClearLoginFailures, HomeOf!CreateSession, HomeOf!Fails
<1>4. q \in HomeOf!Request /\ q.pc \notin {"match", "insert"}
  BY <1>1, <1>3, NothingType DEF HomeOf!Request
<1> QED
  BY <1>2, <1>3, <1>4, OutsideImports

\* Rows entered, changed and removed by hand.
LEMMA ByHandHolds ==
    ASSUME ImportInv,
           \E c \in Callers : \/ \E r \in Rows : HomeOf!CreateEntry(c, r) \/ HomeOf!RemoveEntry(c, r)
                              \/ \E old, r \in Rows : HomeOf!ReplaceEntry(c, old, r)
    PROVE  ImportInv'
<1>1. UNCHANGED <<sent, window, failures, request>>
  BY DEF HomeOf!CreateEntry, HomeOf!RemoveEntry, HomeOf!ReplaceEntry, HomeOf!loginOf
<1>2. /\ entries' \in [Rows -> Nat] /\ byHand' \in [Rows -> Nat]
      /\ \A s \in Rows : entries'[s] - entries[s] <= byHand'[s] - byHand[s]
  <2>1. entries \in [Rows -> Nat] /\ byHand \in [Rows -> Nat]
    BY DEF ImportInv, HomeTypes
  <2>2. \A r \in Rows : HomeOf!Enters(r) => byHand' = [byHand EXCEPT ![r] = @ + 1]
    BY DEF HomeOf!Enters
  <2>3. CASE \E c \in Callers, r \in Rows : HomeOf!CreateEntry(c, r)
    BY <2>1, <2>2, <2>3 DEF HomeOf!CreateEntry
  <2>4. CASE \E c \in Callers, r \in Rows : HomeOf!RemoveEntry(c, r)
    BY <2>1, <2>4 DEF HomeOf!RemoveEntry
  <2>5. CASE \E c \in Callers, old, r \in Rows : HomeOf!ReplaceEntry(c, old, r)
    BY <2>1, <2>2, <2>5 DEF HomeOf!ReplaceEntry
  <2> QED
    BY <2>3, <2>4, <2>5
<1>3. HomeTypes'
  BY <1>1, <1>2 DEF ImportInv, HomeTypes
<1>4. \A c \in Callers : /\ InImport(c)' = InImport(c) /\ request'[c] = request[c]
                         /\ request[c] \in HomeOf!Request
  BY <1>1 DEF InImport, ImportInv, HomeTypes
<1>5. \A s \in Rows : entries'[s] <= sent'[s] + byHand'[s]
  BY <1>1, <1>2 DEF ImportInv, HomeTypes
<1>6. ASSUME NEW c \in Callers, request[c].pc = "insert", NEW s \in Rows
      PROVE  AfterImport(c, s)' <= sent'[s] + byHand'[s]
  <2> DEFINE m == HomeOf!Missing(request[c].file, request[c].held)
  <2>1. m[s] \in Nat
    BY <1>4, RequestType, MissingType
  <2>2. entries[s] + m[s] <= sent[s] + byHand[s]
    BY <1>6 DEF ImportInv, AfterImport
  <2>3. AfterImport(c, s)' = entries'[s] + m[s]
    BY <1>1 DEF AfterImport, HomeOf!Missing
  <2> HIDE DEF m
  <2> QED
    BY <1>1, <1>2, <2>1, <2>2, <2>3 DEF ImportInv, HomeTypes
<1> QED
  BY <1>1, <1>3, <1>4, <1>5, <1>6 DEF ImportInv

LEMMA BeginImportHolds ==
    ASSUME ImportInv, NEW c \in Callers, NEW file \in HomeOf!Sheets, HomeOf!BeginImport(c, file)
    PROVE  ImportInv'
<1> DEFINE q == [HomeOf!Nothing EXCEPT !.pc = "match", !.file = file]
<1>1. file \in [Rows -> Nat] /\ q \in HomeOf!Request /\ q.pc = "match" /\ q.file = file
  <2>1. file \in [Rows -> 0..MaxCopies]
    BY DEF HomeOf!Sheets
  <2>2. q \in HomeOf!Request /\ q.pc = "match" /\ q.file = file
    BY <2>1, NothingType DEF HomeOf!Request
  <2> QED
    BY <2>1, <2>2, ServicesAssumption
<1>2. /\ request' = [request EXCEPT ![c] = q] /\ UNCHANGED <<window, failures, entries, byHand>>
      /\ sent' = [r \in Rows |-> IF file[r] > sent[r] THEN file[r] ELSE sent[r]]
      /\ \A d \in Callers : ~InImport(d)
  BY DEF HomeOf!BeginImport, HomeOf!To, HomeOf!loginOf, HomeOf!ImportLockFree, HomeOf!At, InImport
<1> HIDE DEF q
<1>3. /\ sent' \in [Rows -> Nat]
      /\ \A r \in Rows : sent[r] <= sent'[r] /\ file[r] <= sent'[r]
  BY <1>1, <1>2 DEF ImportInv, HomeTypes
<1>4. HomeTypes'
  BY <1>1, <1>2, <1>3 DEF ImportInv, HomeTypes
<1>5. /\ request'[c] = q
      /\ \A d \in Callers : d # c => request'[d] = request[d] /\ ~InImport(d)'
  BY <1>2 DEF ImportInv, HomeTypes, InImport
<1>6. \A d \in Callers : InImport(d)' => d = c
  BY <1>5
<1>7. \A d \in Callers : request'[d].pc # "insert"
  BY <1>1, <1>5 DEF InImport
<1>8. \A r \in Rows : entries'[r] <= sent'[r] + byHand'[r]
  BY <1>2, <1>3 DEF ImportInv, HomeTypes
<1> QED
  BY <1>1, <1>3, <1>4, <1>5, <1>6, <1>7, <1>8 DEF ImportInv

LEMMA MatchEntriesHolds ==
    ASSUME ImportInv, NEW c \in Callers, HomeOf!MatchEntries(c)
    PROVE  ImportInv'
<1> DEFINE q == [request[c] EXCEPT !.pc = "insert", !.held = entries]
<1>1. /\ request' = [request EXCEPT ![c] = q]
      /\ UNCHANGED <<window, failures, entries, byHand, sent>>
      /\ InImport(c) /\ request[c] \in HomeOf!Request
  BY DEF HomeOf!MatchEntries, HomeOf!To, HomeOf!loginOf, HomeOf!ledgerOf, HomeOf!At, InImport,
         ImportInv, HomeTypes
<1>2. /\ q \in HomeOf!Request /\ q.pc = "insert" /\ q.file = request[c].file
      /\ q.held = entries /\ q.file \in [Rows -> Nat]
  BY <1>1, RequestType DEF HomeOf!Request, ImportInv, HomeTypes
<1> HIDE DEF q
<1>3. HomeTypes'
  BY <1>1, <1>2 DEF ImportInv, HomeTypes
<1>4. /\ request'[c] = q
      /\ \A d \in Callers : d # c => request'[d] = request[d] /\ ~InImport(d)
  BY <1>1 DEF ImportInv, HomeTypes
<1>5. \A d \in Callers : InImport(d)' => d = c
  BY <1>4 DEF InImport
<1>6. \A r \in Rows : request[c].file[r] <= sent[r] /\ entries[r] <= sent[r] + byHand[r]
  BY <1>1 DEF ImportInv
<1>7. \A r \in Rows : AfterImport(c, r)' \in {entries[r], request[c].file[r]}
  BY <1>1, <1>2, <1>4, MissingType DEF AfterImport, HomeOf!Missing, ImportInv, HomeTypes
<1>8. \A r \in Rows : AfterImport(c, r)' <= sent'[r] + byHand'[r]
  BY <1>1, <1>2, <1>6, <1>7 DEF ImportInv, HomeTypes
<1>9. \A d \in Callers : request'[d].pc = "insert" => d = c
  BY <1>5 DEF InImport
<1> QED
  BY <1>1, <1>2, <1>3, <1>4, <1>5, <1>6, <1>8, <1>9 DEF ImportInv

LEMMA InsertMissingHolds ==
    ASSUME ImportInv, NEW c \in Callers, HomeOf!InsertMissing(c)
    PROVE  ImportInv'
<1> DEFINE m == HomeOf!Missing(request[c].file, request[c].held)
<1>1. /\ request' = [request EXCEPT ![c] = HomeOf!Nothing]
      /\ UNCHANGED <<window, failures, byHand, sent>>
      /\ InImport(c) /\ request[c].pc = "insert" /\ request[c] \in HomeOf!Request
      /\ entries' = entries \/ entries' = [r \in Rows |-> entries[r] + m[r]]
  BY DEF HomeOf!InsertMissing, HomeOf!Ends, HomeOf!To, HomeOf!loginOf, HomeOf!At, InImport,
         ImportInv, HomeTypes
<1>2. m \in [Rows -> Nat]
  BY <1>1, RequestType, MissingType
<1>3. \A r \in Rows : entries[r] + m[r] <= sent[r] + byHand[r]
  BY <1>1 DEF ImportInv, AfterImport
<1> HIDE DEF m
<1>4. /\ HomeTypes'
      /\ \A r \in Rows : entries'[r] <= sent'[r] + byHand'[r]
  BY <1>1, <1>2, <1>3, NothingType DEF ImportInv, HomeTypes
<1>5. \A d \in Callers : ~InImport(d)'
  BY <1>1, NothingType DEF ImportInv, HomeTypes, InImport
<1>6. \A d \in Callers : request'[d].pc # "insert"
  BY <1>5 DEF InImport
<1> QED
  BY <1>4, <1>5, <1>6 DEF ImportInv

LEMMA HomeHolds == ImportInv /\ HomeStep => ImportInv'
<1> SUFFICES ASSUME ImportInv, HomeStep PROVE ImportInv'
  OBVIOUS
<1>1. CASE window' \in Windows /\ UNCHANGED <<failures, entries, byHand, sent, request>>
  BY <1>1 DEF ImportInv, HomeTypes, InImport, AfterImport, HomeOf!Missing
<1>2. HomeOf!NextWindow \/ HomeOf!SetPassword
        \/ (\E c \in Callers : HomeOf!EndSession(c)) \/ UNCHANGED home
      => window' \in Windows /\ UNCHANGED <<failures, entries, byHand, sent, request>>
  BY DEF HomeOf!NextWindow, HomeOf!SetPassword, HomeOf!EndSession, home, HomeOf!ledgerOf,
         ImportInv, HomeTypes
<1> QED
  BY <1>1, <1>2, LoginHolds, ByHandHolds, BeginImportHolds, MatchEntriesHolds,
     InsertMissingHolds DEF HomeStep, HomeOf!Next

LEMMA ImportAlways == ServicesSpec => []ImportInv
<1>1. ServicesInit => ImportInv
  BY HomeInitHolds DEF ServicesInit
<1>2. ImportInv /\ [ServicesNext]_<<service, accounts, pageVars, ledger, household, home>>
        => ImportInv'
  BY StepsApart, HomeHolds
<1> QED
  BY <1>1, <1>2, PTL DEF ServicesSpec

\* An import that is repeated, or runs with others and with rows entered by hand,
\* adds no row more often than a file named it (ImportEntries, home/store.go).
THEOREM ImportOnceHolds == ServicesSpec => []ImportOnce
<1>1. ImportInv => ImportOnce
  BY DEF ImportInv, ImportOnce, HomeOf!ImportOnce
<1> QED
  BY <1>1, ImportAlways, PTL

\* The sign-ins of a window that may still be answered with a failure.
Waiting(w) == {c \in Callers : /\ request[c].pc \in {"compare", "record"}
                               /\ request[c].window = w}

\* A sign-in that has passed the throttle is counted before its answer is.
ThrottleInv ==
    /\ guesses = failures
    /\ \A w \in Windows :
         failures[w] + Cardinality(Waiting(w)) <= MaxFailures + Cardinality(Callers) - 1

LEMMA WaitingCount ==
    \A w : /\ IsFiniteSet(Waiting(w))
           /\ Cardinality(Waiting(w)) \in Nat
           /\ Cardinality(Waiting(w)) <= Cardinality(Callers)
           /\ Cardinality(Callers) \in Nat
BY ServicesAssumption, FS_Subset, FS_CardinalityType DEF Waiting

\* Fewer wait, and no failure is counted.
LEMMA FewerWait ==
    ASSUME HomeTypes, ThrottleInv, UNCHANGED <<failures, guesses>>,
           \A w \in Windows : Waiting(w)' \subseteq Waiting(w)
    PROVE  ThrottleInv'
<1>1. ASSUME NEW w \in Windows
      PROVE  /\ Cardinality(Waiting(w)') <= Cardinality(Waiting(w))
             /\ Cardinality(Waiting(w)') \in Nat
  BY WaitingCount, FS_Subset, FS_CardinalityType
<1>2. ASSUME NEW w \in Windows
      PROVE  failures'[w] + Cardinality(Waiting(w)') <= MaxFailures + Cardinality(Callers) - 1
  <2>1. failures[w] + Cardinality(Waiting(w)) <= MaxFailures + Cardinality(Callers) - 1
    BY DEF ThrottleInv
  <2> QED
    BY <1>1, <2>1, WaitingCount, ServicesAssumption DEF HomeTypes
<1> QED
  BY <1>2 DEF ThrottleInv

LEMMA BeginLoginCounted ==
    ASSUME HomeTypes, ThrottleInv, NEW c \in Callers, HomeOf!BeginLogin(c)
    PROVE  ThrottleInv'
<1> DEFINE q == [HomeOf!Nothing EXCEPT !.pc = "compare", !.window = window]
<1>1. /\ request' = [request EXCEPT ![c] = q] /\ UNCHANGED <<failures, guesses>>
      /\ failures[window] < MaxFailures /\ request[c].pc = "idle"
  BY DEF HomeOf!BeginLogin, HomeOf!To, HomeOf!At, HomeOf!Unthrottled, HomeOf!loginOf
<1>2. q.window = window
  BY DEF HomeOf!Nothing
<1> HIDE DEF q
<1>3. /\ request'[c] = q
      /\ \A d \in Callers : d # c => request'[d] = request[d]
  BY <1>1 DEF HomeTypes
<1>4. \A w : IsFiniteSet(Waiting(w)') /\ Cardinality(Waiting(w)') \in Nat
             /\ Cardinality(Waiting(w)') <= Cardinality(Callers)
  BY ServicesAssumption, FS_Subset, FS_CardinalityType DEF Waiting
<1>5. ASSUME NEW w \in Windows
      PROVE  failures'[w] + Cardinality(Waiting(w)') <= MaxFailures + Cardinality(Callers) - 1
  <2>1. CASE w = window
    <3>1. failures'[w] \in Nat /\ failures'[w] < MaxFailures /\ MaxFailures \in Nat
      BY <1>1, <2>1, ServicesAssumption DEF HomeTypes
    <3>2. /\ Cardinality(Waiting(w)') \in Nat /\ Cardinality(Callers) \in Nat
          /\ Cardinality(Waiting(w)') <= Cardinality(Callers)
      BY <1>4, WaitingCount
    <3> QED
      BY <3>1, <3>2
  <2>2. CASE w # window
    <3>1. Waiting(w)' = Waiting(w)
      BY <1>1, <1>2, <1>3, <2>2 DEF Waiting
    <3> QED
      BY <1>1, <3>1 DEF ThrottleInv
  <2> QED
    BY <2>1, <2>2
<1> QED
  BY <1>1, <1>5 DEF ThrottleInv

LEMMA FailureCounted ==
    ASSUME HomeTypes, ThrottleInv, NEW c \in Callers, HomeOf!RecordLoginFailure(c)
    PROVE  ThrottleInv'
<1> DEFINE v == request[c].window
<1>1. /\ request' = [request EXCEPT ![c] = HomeOf!Nothing] /\ request[c].pc = "record"
      /\ failures' = [failures EXCEPT ![v] = @ + 1]
      /\ guesses' = [guesses EXCEPT ![v] = @ + 1]
  BY DEF HomeOf!RecordLoginFailure, HomeOf!Ends, HomeOf!To, HomeOf!At
<1>2. v \in Windows
  BY RequestType DEF HomeTypes
<1>3. /\ request'[c] = HomeOf!Nothing
      /\ \A d \in Callers : d # c => request'[d] = request[d]
  BY <1>1 DEF HomeTypes
<1>4. \A w : Waiting(w)' = Waiting(w) \ {c}
  BY <1>3, NothingType DEF Waiting
<1>5. c \in Waiting(v)
  BY <1>1 DEF Waiting
<1> HIDE DEF v
<1>6. ASSUME NEW w \in Windows
      PROVE  failures'[w] + Cardinality(Waiting(w)') <= MaxFailures + Cardinality(Callers) - 1
  <2>1. failures[w] + Cardinality(Waiting(w)) <= MaxFailures + Cardinality(Callers) - 1
    BY DEF ThrottleInv
  <2>2. CASE w = v
    <3>1. Cardinality(Waiting(w)') = Cardinality(Waiting(w)) - 1
      BY <1>4, <1>5, <2>2, WaitingCount, FS_RemoveElement
    <3>2. failures'[w] = failures[w] + 1
      BY <1>1, <1>2, <2>2 DEF HomeTypes
    <3> QED
      BY <2>1, <3>1, <3>2, WaitingCount, ServicesAssumption DEF HomeTypes
  <2>3. CASE w # v
    <3>1. /\ Cardinality(Waiting(w)') <= Cardinality(Waiting(w))
          /\ Cardinality(Waiting(w)') \in Nat
      BY <1>4, WaitingCount, FS_Subset, FS_CardinalityType
    <3>2. failures'[w] = failures[w]
      BY <1>1, <2>3 DEF HomeTypes
    <3> QED
      BY <2>1, <3>1, <3>2, WaitingCount, ServicesAssumption DEF HomeTypes
  <2> QED
    BY <2>2, <2>3
<1> QED
  BY <1>1, <1>6 DEF ThrottleInv

\* Whoever clears the failures does not wait.
LEMMA ClearCounted ==
    ASSUME HomeTypes, ThrottleInv, NEW c \in Callers, HomeOf!ClearLoginFailures(c)
    PROVE  ThrottleInv'
<1>1. /\ failures' = [w \in Windows |-> 0] /\ guesses' = failures'
      /\ request' = [request EXCEPT ![c] = [request[c] EXCEPT !.pc = "session"]]
      /\ request[c].pc = "clear"
  BY DEF HomeOf!ClearLoginFailures, HomeOf!Goes, HomeOf!To, HomeOf!At
<1>2. /\ request'[c].pc = "session"
  BY <1>1, RequestType DEF HomeTypes
<1>3. \A w : Waiting(w)' \subseteq Callers
  BY DEF Waiting
<1>4. \A w : IsFiniteSet(Waiting(w)') /\ Cardinality(Waiting(w)') \in Nat
             /\ Cardinality(Waiting(w)') <= Cardinality(Callers)
  BY <1>3, ServicesAssumption, FS_Subset, FS_CardinalityType
<1> QED
  BY <1>1, <1>4, WaitingCount, ServicesAssumption DEF ThrottleInv

\* What else a caller does is not a sign-in, or ends one.
LEMMA RestCounted ==
    ASSUME HomeTypes, ThrottleInv,
           \/ HomeOf!NextWindow \/ HomeOf!SetPassword \/ UNCHANGED home
           \/ \E c \in Callers :
                \/ HomeOf!Compare(c) \/ HomeOf!CreateSession(c) \/ HomeOf!EndSession(c)
                \/ \E r \in Rows : HomeOf!CreateEntry(c, r) \/ HomeOf!RemoveEntry(c, r)
                \/ \E old, r \in Rows : HomeOf!ReplaceEntry(c, old, r)
                \/ \E file \in HomeOf!Sheets : HomeOf!BeginImport(c, file)
                \/ HomeOf!MatchEntries(c) \/ HomeOf!InsertMissing(c) \/ HomeOf!Fails(c)
    PROVE  ThrottleInv'
<1>1. UNCHANGED <<failures, guesses>>
  BY DEF HomeOf!NextWindow, HomeOf!SetPassword, home, HomeOf!Compare, HomeOf!CreateSession,
         HomeOf!EndSession, HomeOf!CreateEntry, HomeOf!RemoveEntry, HomeOf!ReplaceEntry,
         HomeOf!BeginImport, HomeOf!MatchEntries, HomeOf!InsertMissing, HomeOf!Fails,
         HomeOf!loginOf
<1>2. ASSUME NEW c \in Callers, NEW q, request' = [request EXCEPT ![c] = q],
             \/ q.pc \notin {"compare", "record"}
             \/ request[c].pc = "compare" /\ q.window = request[c].window
      PROVE  \A w \in Windows : Waiting(w)' \subseteq Waiting(w)
  BY <1>2 DEF Waiting, HomeTypes
<1>3. CASE UNCHANGED request
  BY <1>1, <1>3, FewerWait DEF Waiting
<1>4. ASSUME NEW c \in Callers, HomeOf!Compare(c) PROVE ThrottleInv'
  <2>1. PICK pc \in {"record", "clear"} :
          request' = [request EXCEPT ![c] = [request[c] EXCEPT !.pc = pc]]
    BY <1>4 DEF HomeOf!Compare, HomeOf!Goes, HomeOf!To
  <2> DEFINE q == [request[c] EXCEPT !.pc = pc]
  <2>2. request[c].pc = "compare" /\ q.window = request[c].window
    BY <1>4 DEF HomeOf!Compare, HomeOf!At
  <2> QED
    BY <1>1, <1>2, <2>1, <2>2, FewerWait
<1>5. ASSUME NEW c \in Callers,
             HomeOf!CreateSession(c) \/ HomeOf!InsertMissing(c) \/ HomeOf!Fails(c)
      PROVE  ThrottleInv'
  <2>1. request' = [request EXCEPT ![c] = HomeOf!Nothing]
    BY <1>5 DEF HomeOf!CreateSession, HomeOf!InsertMissing, HomeOf!Fails, HomeOf!Ends, HomeOf!To
  <2> QED
    BY <1>1, <1>2, <2>1, NothingType, FewerWait
<1>6. ASSUME NEW c \in Callers, NEW file, HomeOf!BeginImport(c, file) PROVE ThrottleInv'
  <2> DEFINE q == [HomeOf!Nothing EXCEPT !.pc = "match", !.file = file]
  <2>1. request' = [request EXCEPT ![c] = q] /\ q.pc = "match"
    BY <1>6 DEF HomeOf!BeginImport, HomeOf!To, HomeOf!Nothing
  <2> HIDE DEF q
  <2> QED
    BY <1>1, <1>2, <2>1, FewerWait
<1>7. ASSUME NEW c \in Callers, HomeOf!MatchEntries(c) PROVE ThrottleInv'
  <2> DEFINE q == [request[c] EXCEPT !.pc = "insert", !.held = entries]
  <2>1. request' = [request EXCEPT ![c] = q] /\ q.pc = "insert"
    BY <1>7, RequestType DEF HomeOf!MatchEntries, HomeOf!To, HomeTypes
  <2> HIDE DEF q
  <2> QED
    BY <1>1, <1>2, <2>1, FewerWait
<1>8. HomeOf!NextWindow \/ HomeOf!SetPassword \/ UNCHANGED home
        \/ (\E c \in Callers :
              \/ HomeOf!EndSession(c)
              \/ \E r \in Rows : HomeOf!CreateEntry(c, r) \/ HomeOf!RemoveEntry(c, r)
              \/ \E old, r \in Rows : HomeOf!ReplaceEntry(c, old, r))
      => UNCHANGED request
  BY DEF HomeOf!NextWindow, HomeOf!SetPassword, HomeOf!EndSession, HomeOf!CreateEntry,
         HomeOf!RemoveEntry, HomeOf!ReplaceEntry, home
<1> QED
  BY <1>3, <1>4, <1>5, <1>6, <1>7, <1>8

LEMMA ThrottleStep == HomeTypes /\ ThrottleInv /\ HomeStep => ThrottleInv'
BY BeginLoginCounted, FailureCounted, ClearCounted, RestCounted DEF HomeStep, HomeOf!Next

LEMMA ThrottleInitHolds == HomeOf!Init => ThrottleInv
<1> SUFFICES ASSUME HomeOf!Init PROVE ThrottleInv
  OBVIOUS
<1>1. \A w : Waiting(w) = {}
  BY NothingType DEF Waiting, HomeOf!Init
<1>2. Cardinality({}) = 0 /\ Cardinality(Callers) \in Nat
  BY FS_EmptySet, WaitingCount
<1>3. \A w \in Windows : failures[w] = 0 /\ Cardinality(Waiting(w)) = 0
  BY <1>1, <1>2 DEF HomeOf!Init
<1>4. 0 <= MaxFailures + Cardinality(Callers) - 1
  BY <1>2, ServicesAssumption
<1>5. guesses = failures
  BY DEF HomeOf!Init
<1> QED
  BY <1>3, <1>4, <1>5 DEF ThrottleInv

\* The instance counts as FiniteSets does.
LEMMA HomeCardinality == \A S : HomeOf!Cardinality(S) = Cardinality(S)
BY DEF Cardinality, HomeOf!Cardinality

\* However many sign-ins overlap, a window answers loginFailures wrong passwords and
\* those that were being compared, until one succeeds (login, home/server.go).
THEOREM ThrottleAlwaysHolds == ServicesSpec => []ThrottleHolds
<1>1. ServicesInit => ThrottleInv
  BY ThrottleInitHolds DEF ServicesInit
<1>2. ImportInv /\ ThrottleInv
        /\ [ServicesNext]_<<service, accounts, pageVars, ledger, household, home>>
        => ThrottleInv'
  BY StepsApart, ThrottleStep DEF ImportInv
<1>3. ImportInv /\ ThrottleInv => ThrottleHolds
  <2> SUFFICES ASSUME ImportInv, ThrottleInv, NEW w \in Windows
               PROVE  guesses[w] <= MaxFailures + Cardinality(Callers) - 1
    BY HomeCardinality DEF ThrottleHolds, HomeOf!ThrottleHolds
  <2> QED
    BY WaitingCount, ServicesAssumption DEF ImportInv, HomeTypes, ThrottleInv
<1> QED
  BY <1>1, <1>2, <1>3, ImportAlways, PTL DEF ServicesSpec

-----------------------------------------------------------------------------
(* Accounts: the mailed codes.                                             *)

\* Every wrong guess is counted, and a code that can still be used was not.
Sound(c) ==
    /\ c.guesses = c.attempts
    /\ c.signIns <= 1
    /\ c.state \in {"begun", "live"} => c.signIns = 0

Issuing(h) == work[h].pc \in {"retire", "issue"}

\* Each handler that issues a code has one of its own, which nobody else can see.
CodesInv ==
    /\ codes \in Seq(AccountsOf!Code) /\ Len(codes) <= MaxCodes
    /\ work \in [Handlers -> AccountsOf!Work]
    /\ \A i \in DOMAIN codes : Sound(codes[i])
    /\ \A h \in Handlers : Issuing(h) =>
         work[h].code \in DOMAIN codes /\ codes[work[h].code].state = "begun"
    /\ \A h, g \in Handlers :
         Issuing(h) /\ Issuing(g) /\ work[h].code = work[g].code => h = g

LEMMA IdleType == AccountsOf!Idle \in AccountsOf!Work /\ AccountsOf!Idle.pc = "idle"
BY ServicesAssumption DEF AccountsOf!Idle, AccountsOf!Work

\* What becomes of a code that is tried, and of one that ages.
LEMMA CodeChanges ==
    ASSUME NEW c \in AccountsOf!Code, Sound(c)
    PROVE  /\ \A age \in {"expired", "hour"} :
                /\ [c EXCEPT !.age = age] \in AccountsOf!Code
                /\ Sound([c EXCEPT !.age = age])
                /\ [c EXCEPT !.age = age].state = c.state
           /\ [c EXCEPT !.state = "consumed"] \in AccountsOf!Code
           /\ Sound([c EXCEPT !.state = "consumed"])
           /\ c.state = "live" =>
                /\ [c EXCEPT !.state = "consumed", !.signIns = @ + 1] \in AccountsOf!Code
                /\ Sound([c EXCEPT !.state = "consumed", !.signIns = @ + 1])
           /\ ~AccountsOf!Exhausted(c) =>
                AccountsOf!WrongGuess(c) \in AccountsOf!Code /\ Sound(AccountsOf!WrongGuess(c))
<1>1. \A age \in {"expired", "hour"} :
        /\ [c EXCEPT !.age = age] \in AccountsOf!Code
        /\ Sound([c EXCEPT !.age = age])
        /\ [c EXCEPT !.age = age].state = c.state
  BY DEF AccountsOf!Code, Sound
<1>2. [c EXCEPT !.state = "consumed"] \in AccountsOf!Code /\ Sound([c EXCEPT !.state = "consumed"])
  BY DEF AccountsOf!Code, Sound
<1>3. ASSUME c.state = "live"
      PROVE  /\ [c EXCEPT !.state = "consumed", !.signIns = @ + 1] \in AccountsOf!Code
             /\ Sound([c EXCEPT !.state = "consumed", !.signIns = @ + 1])
  <2> DEFINE d == [c EXCEPT !.state = "consumed"]
             e == [d EXCEPT !.signIns = 1]
  <2>1. c.signIns = 0 /\ c.guesses = c.attempts
    BY <1>3 DEF Sound
  <2>2. d \in AccountsOf!Code /\ d.state = "consumed" /\ d.guesses = d.attempts
    BY <2>1 DEF AccountsOf!Code
  <2>3. e = [c EXCEPT !.state = "consumed", !.signIns = @ + 1]
    BY <2>1
  <2> HIDE DEF d
  <2>4. /\ e \in AccountsOf!Code
        /\ e.state = "consumed" /\ e.guesses = e.attempts /\ e.signIns = 1
    BY <2>2 DEF AccountsOf!Code
  <2> HIDE DEF e
  <2> QED
    BY <2>3, <2>4 DEF Sound
<1>4. ASSUME ~AccountsOf!Exhausted(c)
      PROVE  AccountsOf!WrongGuess(c) \in AccountsOf!Code /\ Sound(AccountsOf!WrongGuess(c))
  <2>1. /\ c.attempts \in Nat /\ c.attempts < MaxAttempts /\ c.guesses = c.attempts
        /\ c.attempts + 1 \in 0..MaxAttempts /\ c.attempts + 1 \in 0..(MaxAttempts + 1)
    BY <1>4, ServicesAssumption DEF AccountsOf!Code, AccountsOf!Exhausted, Sound
  <2> QED
    BY <2>1 DEF AccountsOf!Code, Sound, AccountsOf!WrongGuess
<1> QED
  BY <1>1, <1>2, <1>3, <1>4

LEMMA AccountsInitHolds == AccountsOf!Init => CodesInv
BY IdleType, ServicesAssumption DEF AccountsOf!Init, CodesInv, Issuing

\* The newest code of some is one of them.
LEMMA MaxIn ==
    ASSUME NEW n \in Nat, NEW S \in SUBSET (1..n), S # {}
    PROVE  AccountsOf!Max(S) \in S
<1>1. PICK m \in S : \A i \in S : m >= i
  <2>1. S \in SUBSET (0..n)
    OBVIOUS
  <2> QED
    BY <2>1, Greatest
<1> QED
  BY <1>1 DEF AccountsOf!Max

\* A handler issues no code, or no longer.
LEMMA CodesGoOn ==
    ASSUME CodesInv, NEW h \in Handlers, NEW w \in AccountsOf!Work,
           w.pc \notin {"retire", "issue"},
           work' = [work EXCEPT ![h] = w],
           codes' \in Seq(AccountsOf!Code), Len(codes') = Len(codes),
           \A i \in DOMAIN codes : Sound(codes'[i]),
           \A i \in DOMAIN codes :
             codes[i].state = "begun" /\ ~(Issuing(h) /\ i = work[h].code)
               => codes'[i].state = "begun"
    PROVE  CodesInv'
<1>1. /\ work' \in [Handlers -> AccountsOf!Work] /\ work'[h] = w
      /\ \A g \in Handlers : g # h => work'[g] = work[g]
  BY DEF CodesInv
<1>2. \A g \in Handlers : Issuing(g)' => g # h /\ Issuing(g) /\ work'[g] = work[g]
  BY <1>1 DEF Issuing
<1>3. DOMAIN codes' = DOMAIN codes
  BY DEF CodesInv
<1>4. \A g \in Handlers : Issuing(g)' =>
        work'[g].code \in DOMAIN codes' /\ codes'[work'[g].code].state = "begun"
  BY <1>2, <1>3 DEF CodesInv
<1>5. \A f, g \in Handlers :
        Issuing(f)' /\ Issuing(g)' /\ work'[f].code = work'[g].code => f = g
  BY <1>2 DEF CodesInv
<1>6. \A i \in DOMAIN codes' : Sound(codes[i])'
  BY <1>3 DEF Sound
<1>7. codes' \in Seq(AccountsOf!Code) /\ Len(codes') <= MaxCodes
  BY DEF CodesInv
<1> QED
  BY <1>1, <1>4, <1>5, <1>6, <1>7 DEF CodesInv

LEMMA CountCodesHolds ==
    ASSUME CodesInv, NEW h \in Handlers, AccountsOf!CountCodes(h)
    PROVE  CodesInv'
<1> DEFINE c == [state |-> "begun", age |-> "fresh", attempts |-> 0, guesses |-> 0, signIns |-> 0]
           w == [AccountsOf!Idle EXCEPT !.pc = "retire", !.code = Len(codes) + 1]
<1>1. /\ codes' = Append(codes, c) /\ Len(codes) < MaxCodes
      /\ work' = [work EXCEPT ![h] = w]
  BY DEF AccountsOf!CountCodes
<1>2. c \in AccountsOf!Code /\ Sound(c) /\ c.state = "begun"
  BY ServicesAssumption DEF AccountsOf!Code, Sound
<1>3. w \in AccountsOf!Work /\ w.code = Len(codes) + 1
  <2>1. Len(codes) + 1 \in 0..MaxCodes
    BY <1>1, ServicesAssumption DEF CodesInv
  <2> QED
    BY <2>1 DEF AccountsOf!Idle, AccountsOf!Work
<1> HIDE DEF c, w
<1>4. /\ codes' \in Seq(AccountsOf!Code) /\ Len(codes') = Len(codes) + 1
      /\ \A i \in DOMAIN codes : i \in DOMAIN codes' /\ codes'[i] = codes[i]
      /\ Len(codes) + 1 \in DOMAIN codes' /\ codes'[Len(codes) + 1] = c
      /\ Len(codes) + 1 \notin DOMAIN codes
      /\ \A i \in DOMAIN codes' : i \in DOMAIN codes \/ i = Len(codes) + 1
  BY <1>1, <1>2 DEF CodesInv
<1>5. Len(codes') <= MaxCodes
  BY <1>1, <1>4, ServicesAssumption DEF CodesInv
<1>6. /\ work' \in [Handlers -> AccountsOf!Work] /\ work'[h] = w
      /\ \A g \in Handlers : g # h => work'[g] = work[g] /\ Issuing(g)' = Issuing(g)
  BY <1>1, <1>3 DEF CodesInv, Issuing
<1>7. \A i \in DOMAIN codes' : Sound(codes[i])'
  BY <1>2, <1>4 DEF Sound, CodesInv
<1>8. \A g \in Handlers : Issuing(g)' =>
        work'[g].code \in DOMAIN codes' /\ codes'[work'[g].code].state = "begun"
  BY <1>2, <1>3, <1>4, <1>6 DEF CodesInv
<1>9. \A f, g \in Handlers :
        Issuing(f)' /\ Issuing(g)' /\ work'[f].code = work'[g].code => f = g
  BY <1>3, <1>4, <1>6 DEF CodesInv
<1> QED
  BY <1>4, <1>5, <1>6, <1>7, <1>8, <1>9 DEF CodesInv

LEMMA SeeCodesHolds ==
    ASSUME CodesInv, NEW h \in Handlers, AccountsOf!SeeCodes(h)
    PROVE  CodesInv'
<1> DEFINE w == [work[h] EXCEPT !.pc = "issue", !.found = AccountsOf!Live]
<1>1. work' = [work EXCEPT ![h] = w] /\ codes' = codes /\ Issuing(h)
  BY DEF AccountsOf!SeeCodes, Issuing, CodesInv
<1>2. AccountsOf!Live \subseteq 1..MaxCodes
  BY ServicesAssumption DEF AccountsOf!Live, CodesInv
<1>3. w \in AccountsOf!Work /\ w.code = work[h].code
  BY <1>2 DEF CodesInv, AccountsOf!Work
<1> HIDE DEF w
<1>4. /\ work' \in [Handlers -> AccountsOf!Work]
      /\ \A g \in Handlers : work'[g].code = work[g].code /\ (Issuing(g)' => Issuing(g))
  BY <1>1, <1>3 DEF CodesInv, Issuing
<1> QED
  BY <1>1, <1>4 DEF CodesInv, Sound

LEMMA IssueCodeHolds ==
    ASSUME CodesInv, NEW h \in Handlers, AccountsOf!IssueCode(h)
    PROVE  CodesInv'
<1> DEFINE live(c) == [c EXCEPT !.state = "live"]
           used(c) == [c EXCEPT !.state = "consumed"]
<1>1. /\ Issuing(h) /\ work' = [work EXCEPT ![h] = AccountsOf!Idle]
      /\ codes' = [i \in DOMAIN codes |->
           IF i = work[h].code THEN live(codes[i])
           ELSE IF i \in work[h].found \cap AccountsOf!Live THEN used(codes[i])
           ELSE codes[i]]
  BY DEF AccountsOf!IssueCode, AccountsOf!Done, Issuing
<1>2. \A c \in AccountsOf!Code :
        /\ live(c) \in AccountsOf!Code /\ used(c) \in AccountsOf!Code
        /\ Sound(c) => Sound(used(c))
        /\ Sound(c) /\ c.state = "begun" => Sound(live(c))
  BY DEF AccountsOf!Code, Sound
<1>3. codes[work[h].code].state = "begun"
  BY <1>1 DEF CodesInv
<1> HIDE DEF live, used
<1>4. ASSUME NEW i \in DOMAIN codes
      PROVE  /\ codes'[i] \in AccountsOf!Code /\ Sound(codes'[i])
             /\ codes[i].state = "begun" /\ i # work[h].code => codes'[i].state = "begun"
  <2>1. codes[i] \in AccountsOf!Code /\ Sound(codes[i])
    BY DEF CodesInv
  <2>2. i \in AccountsOf!Live => codes[i].state = "live"
    BY DEF AccountsOf!Live
  <2> QED
    BY <1>1, <1>2, <1>3, <2>1, <2>2
<1>5. codes' \in Seq(AccountsOf!Code) /\ Len(codes') = Len(codes)
  <2>1. DOMAIN codes = 1..Len(codes) /\ Len(codes) \in Nat
    BY DEF CodesInv
  <2>2. codes' \in [1..Len(codes) -> AccountsOf!Code]
    BY <1>1, <1>4, <2>1
  <2> QED
    BY <2>1, <2>2
<1> QED
  BY <1>1, <1>4, <1>5, IdleType, CodesGoOn

LEMMA AbortIssueHolds ==
    ASSUME CodesInv, NEW h \in Handlers, AccountsOf!AbortIssue(h)
    PROVE  CodesInv'
<1> DEFINE j == work[h].code
           v == [codes[j] EXCEPT !.state = "void"]
<1>1. /\ Issuing(h) /\ work' = [work EXCEPT ![h] = AccountsOf!Idle]
      /\ codes' = [codes EXCEPT ![j] = v]
  BY DEF AccountsOf!AbortIssue, AccountsOf!Done, Issuing
<1>2. j \in DOMAIN codes /\ codes[j] \in AccountsOf!Code /\ Sound(codes[j])
  BY <1>1 DEF CodesInv
<1>3. v \in AccountsOf!Code /\ Sound(v)
  BY <1>2 DEF AccountsOf!Code, Sound
<1>4. j = work[h].code
  OBVIOUS
<1> HIDE DEF j, v
<1>5. codes' \in Seq(AccountsOf!Code) /\ Len(codes') = Len(codes)
  BY <1>1, <1>2, <1>3 DEF CodesInv
<1>6. \A i \in DOMAIN codes : codes'[i] = IF i = j THEN v ELSE codes[i]
  BY <1>1, <1>2 DEF CodesInv
<1>7. \A i \in DOMAIN codes : Sound(codes'[i])
  BY <1>3, <1>6 DEF CodesInv
<1> QED
  BY <1>1, <1>4, <1>5, <1>6, <1>7, IdleType, CodesGoOn

LEMMA ConsumeCodeHolds ==
    ASSUME CodesInv, NEW h \in Handlers, AccountsOf!ConsumeCode(h)
    PROVE  CodesInv'
<1> DEFINE j == AccountsOf!Max(AccountsOf!Open(h))
           used(c) == [c EXCEPT !.state = "consumed"]
           opened(c) == [c EXCEPT !.state = "consumed", !.signIns = @ + 1]
           find == [AccountsOf!Idle EXCEPT !.pc = "find"]
<1>1. \/ codes' = codes
      \/ /\ AccountsOf!Open(h) # {}
         /\ \/ codes' = [codes EXCEPT ![j] = used(codes[j])]
            \/ /\ codes' = [codes EXCEPT ![j] = AccountsOf!WrongGuess(codes[j])]
               /\ ~AccountsOf!Exhausted(codes[j])
            \/ codes' = [codes EXCEPT ![j] = opened(codes[j])]
  BY DEF AccountsOf!ConsumeCode
<1>2. PICK w \in {AccountsOf!Idle, find} : work' = [work EXCEPT ![h] = w]
  BY DEF AccountsOf!ConsumeCode, AccountsOf!Done
<1>3. w \in AccountsOf!Work /\ w.pc \notin {"retire", "issue"}
  BY <1>2, IdleType DEF AccountsOf!Work
<1>4. CASE codes' = codes
  <2>1. \A i \in DOMAIN codes : Sound(codes'[i])
    BY <1>4 DEF CodesInv
  <2>2. codes' \in Seq(AccountsOf!Code) /\ Len(codes') = Len(codes)
    BY <1>4 DEF CodesInv
  <2>3. \A i \in DOMAIN codes : codes[i].state = "begun" => codes'[i].state = "begun"
    BY <1>4
  <2> QED
    BY <1>2, <1>3, <2>1, <2>2, <2>3, CodesGoOn
<1>5. CASE codes' # codes
  <2>1. AccountsOf!Open(h) # {} /\ AccountsOf!Open(h) \in SUBSET (1..Len(codes))
    BY <1>1, <1>5 DEF AccountsOf!Open, AccountsOf!Live, CodesInv
  <2>2. j \in AccountsOf!Open(h)
    <3>1. Len(codes) \in Nat
      BY DEF CodesInv
    <3> QED
      BY <2>1, <3>1, MaxIn
  <2>3. /\ j \in DOMAIN codes /\ codes[j].state = "live"
        /\ codes[j] \in AccountsOf!Code /\ Sound(codes[j])
    BY <2>2 DEF AccountsOf!Open, AccountsOf!Live, CodesInv
  <2>4. /\ used(codes[j]) \in AccountsOf!Code /\ Sound(used(codes[j]))
        /\ opened(codes[j]) \in AccountsOf!Code /\ Sound(opened(codes[j]))
    BY <2>3, CodeChanges
  <2>5. ~AccountsOf!Exhausted(codes[j]) =>
          /\ AccountsOf!WrongGuess(codes[j]) \in AccountsOf!Code
          /\ Sound(AccountsOf!WrongGuess(codes[j]))
    BY <2>3, CodeChanges
  <2> HIDE DEF j, used, opened
  <2>6. PICK v \in AccountsOf!Code : Sound(v) /\ codes' = [codes EXCEPT ![j] = v]
    BY <1>1, <1>5, <2>4, <2>5
  <2>7. codes' \in Seq(AccountsOf!Code) /\ Len(codes') = Len(codes)
    BY <2>3, <2>6 DEF CodesInv
  <2>8. \A i \in DOMAIN codes : codes'[i] = IF i = j THEN v ELSE codes[i]
    BY <2>3, <2>6 DEF CodesInv
  <2>9. \A i \in DOMAIN codes :
          Sound(codes'[i]) /\ (codes[i].state = "begun" => codes'[i].state = "begun")
    BY <2>3, <2>6, <2>8 DEF CodesInv
  <2> QED
    BY <1>2, <1>3, <2>7, <2>9, CodesGoOn
<1> QED
  BY <1>4, <1>5

\* The steps that touch no code.
LEMMA UserHolds ==
    ASSUME CodesInv, NEW h \in Handlers,
           \/ \E i \in {0} \cup DOMAIN codes : AccountsOf!SubmitCode(h, i)
           \/ AccountsOf!FindUser(h) \/ AccountsOf!InsertUser(h) \/ AccountsOf!LinkSubject(h)
           \/ \E p \in Providers : AccountsOf!FindSubject(h, p)
    PROVE  CodesInv'
<1>1. codes' = codes
  BY DEF AccountsOf!SubmitCode, AccountsOf!FindUser, AccountsOf!InsertUser,
         AccountsOf!LinkSubject, AccountsOf!FindSubject
<1>2. work[h] \in AccountsOf!Work /\ AccountsOf!Live \subseteq 1..MaxCodes
      /\ {0} \cup DOMAIN codes \subseteq 0..MaxCodes
  BY ServicesAssumption DEF CodesInv, AccountsOf!Live
<1>3. ASSUME NEW w \in AccountsOf!Work, w.pc \notin {"retire", "issue"},
             work' = [work EXCEPT ![h] = w]
      PROVE  CodesInv'
  <2>1. /\ codes' \in Seq(AccountsOf!Code) /\ Len(codes') = Len(codes)
        /\ \A i \in DOMAIN codes : Sound(codes'[i])
        /\ \A i \in DOMAIN codes : codes[i].state = "begun" => codes'[i].state = "begun"
    BY <1>1 DEF CodesInv
  <2> QED
    BY <1>3, <2>1, CodesGoOn
<1>4. CASE \E i \in {0} \cup DOMAIN codes : AccountsOf!SubmitCode(h, i)
  <2>1. PICK i \in {0} \cup DOMAIN codes : AccountsOf!SubmitCode(h, i)
    BY <1>4
  <2> DEFINE w == [AccountsOf!Idle EXCEPT !.pc = "consume", !.code = i,
                                          !.found = AccountsOf!Live]
  <2>2. w \in AccountsOf!Work /\ w.pc = "consume"
    BY <1>2, IdleType DEF AccountsOf!Work
  <2>3. work' = [work EXCEPT ![h] = w]
    BY <2>1 DEF AccountsOf!SubmitCode
  <2> HIDE DEF w
  <2> QED
    BY <1>3, <2>2, <2>3
<1>5. CASE work' = [work EXCEPT ![h] = AccountsOf!Idle]
  BY <1>3, <1>5, IdleType
<1>6. CASE work' = [work EXCEPT ![h].pc = "insert"]
  <2> DEFINE w == [work[h] EXCEPT !.pc = "insert"]
  <2>1. w \in AccountsOf!Work /\ w.pc = "insert" /\ work' = [work EXCEPT ![h] = w]
    BY <1>2, <1>6 DEF AccountsOf!Work
  <2> HIDE DEF w
  <2> QED
    BY <1>3, <2>1
<1>7. CASE \E p \in Providers : AccountsOf!FindSubject(h, p)
  <2>1. PICK p \in Providers : AccountsOf!FindSubject(h, p)
    BY <1>7
  <2> DEFINE w == [AccountsOf!Idle EXCEPT !.pc = "link", !.by = p]
  <2>2. w \in AccountsOf!Work /\ w.pc = "link"
    BY IdleType DEF AccountsOf!Work
  <2>3. work' = [work EXCEPT ![h] = w]
    BY <2>1 DEF AccountsOf!FindSubject
  <2> HIDE DEF w
  <2> QED
    BY <1>3, <2>2, <2>3
<1> QED
  BY <1>4, <1>5, <1>6, <1>7
     DEF AccountsOf!FindUser, AccountsOf!InsertUser, AccountsOf!LinkSubject,
         AccountsOf!Done, AccountsOf!To

LEMMA AgesHolds ==
    ASSUME CodesInv, NEW j \in DOMAIN codes, NEW age \in {"expired", "hour"},
           AccountsOf!Ages(j, age)
    PROVE  CodesInv'
<1> DEFINE v == [codes[j] EXCEPT !.age = age]
<1>1. codes' = [codes EXCEPT ![j] = v] /\ work' = work
  BY DEF AccountsOf!Ages
<1>2. v \in AccountsOf!Code /\ Sound(v) /\ v.state = codes[j].state
  <2>1. codes[j] \in AccountsOf!Code /\ Sound(codes[j])
    BY DEF CodesInv
  <2> QED
    BY <2>1, CodeChanges
<1> HIDE DEF v
<1>3. /\ codes' \in Seq(AccountsOf!Code) /\ Len(codes') = Len(codes)
      /\ DOMAIN codes' = DOMAIN codes
      /\ \A i \in DOMAIN codes : codes'[i] = IF i = j THEN v ELSE codes[i]
  BY <1>1, <1>2 DEF CodesInv
<1>4. \A i \in DOMAIN codes' : Sound(codes[i])'
  BY <1>2, <1>3 DEF CodesInv, Sound
<1>5. \A i \in DOMAIN codes : codes'[i].state = codes[i].state
  BY <1>2, <1>3
<1> QED
  BY <1>1, <1>3, <1>4, <1>5 DEF CodesInv, Issuing

LEMMA AccountsHolds == CodesInv /\ AccountsStep => CodesInv'
<1>1. CodesInv /\ UNCHANGED accounts => CodesInv'
  BY DEF accounts, CodesInv, Issuing, Sound
<1> QED
  BY <1>1, CountCodesHolds, SeeCodesHolds, IssueCodeHolds, AbortIssueHolds,
     ConsumeCodeHolds, UserHolds, AgesHolds DEF AccountsStep, AccountsOf!Next

LEMMA CodesAlways == ServicesSpec => []CodesInv
<1>1. ServicesInit => CodesInv
  BY AccountsInitHolds DEF ServicesInit
<1>2. CodesInv /\ [ServicesNext]_<<service, accounts, pageVars, ledger, household, home>>
        => CodesInv'
  BY StepsApart, AccountsHolds
<1> QED
  BY <1>1, <1>2, PTL DEF ServicesSpec

\* One mail is one session: a code proves its address once, however many requests
\* submit it and whichever code is newest meanwhile (ConsumeEmailCode,
\* store/email_codes.go).
THEOREM OneSignInPerCodeHolds == ServicesSpec => []OneSignInPerCode
<1>1. CodesInv => OneSignInPerCode
  BY DEF CodesInv, Sound, OneSignInPerCode, AccountsOf!OneSignInPerCode
<1> QED
  BY <1>1, CodesAlways, PTL

\* A code is compared with at most emailCodeMaxAttempts wrong guesses, overlapping
\* ones included (ConsumeEmailCode, store/email_codes.go).
THEOREM GuessesBoundedHolds == ServicesSpec => []GuessesBounded
<1>1. CodesInv => GuessesBounded
  <2> SUFFICES ASSUME CodesInv, NEW i \in DOMAIN codes
               PROVE  codes[i].guesses <= MaxAttempts
    BY DEF GuessesBounded, AccountsOf!GuessesBounded
  <2>1. codes[i] \in AccountsOf!Code /\ codes[i].guesses = codes[i].attempts
    BY DEF CodesInv, Sound
  <2> QED
    BY <2>1, ServicesAssumption DEF AccountsOf!Code
<1> QED
  BY <1>1, CodesAlways, PTL

\* The handlers that have counted the codes of the hour and are to add one.
Adding == {h \in Handlers : Issuing(h)}

\* A code is counted against the limit before it is there.
FloodInv ==
    Cardinality(AccountsOf!Recent) + Cardinality(Adding) <= MaxPerHour + Cardinality(Handlers) - 1

LEMMA AddingCount ==
    /\ IsFiniteSet(Adding) /\ Cardinality(Adding) \in Nat
    /\ Cardinality(Adding) <= Cardinality(Handlers) /\ Cardinality(Handlers) \in Nat
BY ServicesAssumption, FS_Subset, FS_CardinalityType DEF Adding

LEMMA RecentCount ==
    ASSUME CodesInv
    PROVE  IsFiniteSet(AccountsOf!Recent) /\ Cardinality(AccountsOf!Recent) \in Nat
<1>1. AccountsOf!Recent \subseteq 1..Len(codes) /\ Len(codes) \in Nat
  BY DEF AccountsOf!Recent, AccountsOf!Stored, CodesInv
<1>2. IsFiniteSet(1..Len(codes))
  BY <1>1, FS_Interval
<1> QED
  BY <1>1, <1>2, FS_Subset, FS_CardinalityType

\* No code is added, and nobody begins to.
LEMMA NoneAdded ==
    ASSUME CodesInv, FloodInv, AccountsOf!Recent' \subseteq AccountsOf!Recent,
           Adding' \subseteq Adding
    PROVE  FloodInv'
<1>1. /\ Cardinality(AccountsOf!Recent') <= Cardinality(AccountsOf!Recent)
      /\ Cardinality(AccountsOf!Recent') \in Nat
  BY RecentCount, FS_Subset, FS_CardinalityType
<1>2. Cardinality(Adding') <= Cardinality(Adding) /\ Cardinality(Adding') \in Nat
  BY AddingCount, FS_Subset, FS_CardinalityType
<1> QED
  BY <1>1, <1>2, AddingCount, RecentCount, ServicesAssumption DEF FloodInv

\* The instance counts as FiniteSets does.
LEMMA AccountsCardinality == \A S : AccountsOf!Cardinality(S) = Cardinality(S)
BY DEF Cardinality, AccountsOf!Cardinality

LEMMA CountCodesCounted ==
    ASSUME CodesInv, FloodInv, NEW h \in Handlers, AccountsOf!CountCodes(h)
    PROVE  FloodInv'
<1> DEFINE c == [state |-> "begun", age |-> "fresh", attempts |-> 0, guesses |-> 0, signIns |-> 0]
<1>1. codes' = Append(codes, c) /\ c.state = "begun"
  BY DEF AccountsOf!CountCodes
<1> HIDE DEF c
<1>2. /\ \A i \in DOMAIN codes : codes'[i] = codes[i]
      /\ \A i \in DOMAIN codes' : i \in DOMAIN codes \/ codes'[i].state = "begun"
      /\ DOMAIN codes \subseteq DOMAIN codes'
  BY <1>1 DEF CodesInv
<1>3. AccountsOf!Recent' = AccountsOf!Recent
  BY <1>2 DEF AccountsOf!Recent, AccountsOf!Stored
<1>4. Cardinality(AccountsOf!Recent) < MaxPerHour
  <2>1. AccountsOf!Cardinality(AccountsOf!Recent) < MaxPerHour
    BY DEF AccountsOf!CountCodes
  <2> QED
    BY <2>1, AccountsCardinality
<1>5. Cardinality(Adding') <= Cardinality(Handlers) /\ Cardinality(Adding') \in Nat
  BY ServicesAssumption, FS_Subset, FS_CardinalityType DEF Adding
<1> QED
  BY <1>3, <1>4, <1>5, RecentCount, AddingCount, ServicesAssumption DEF FloodInv

LEMMA IssueCodeCounted ==
    ASSUME CodesInv, FloodInv, NEW h \in Handlers, AccountsOf!IssueCode(h)
    PROVE  FloodInv'
<1> DEFINE j == work[h].code
<1>1. /\ Issuing(h) /\ work' = [work EXCEPT ![h] = AccountsOf!Idle]
      /\ DOMAIN codes' = DOMAIN codes
      /\ \A i \in DOMAIN codes : i = j \/ codes'[i] = codes[i]
           \/ (i \in AccountsOf!Live /\ codes'[i] = [codes[i] EXCEPT !.state = "consumed"])
  BY DEF AccountsOf!IssueCode, AccountsOf!Done, Issuing
<1>2. \A c \in AccountsOf!Code : [c EXCEPT !.state = "consumed"].age = c.age
  BY DEF AccountsOf!Code
<1>3. ASSUME NEW i \in DOMAIN codes, i # j PROVE codes'[i].age = codes[i].age
  <2>1. codes[i] \in AccountsOf!Code
    BY DEF CodesInv
  <2>2. CASE codes'[i] = codes[i]
    BY <2>2
  <2>3. CASE codes'[i] = [codes[i] EXCEPT !.state = "consumed"]
    BY <1>2, <2>1, <2>3
  <2> HIDE DEF j
  <2> QED
    BY <1>1, <1>3, <2>2, <2>3
<1>4. AccountsOf!Recent' \subseteq AccountsOf!Recent \cup {j}
  BY <1>1, <1>3 DEF AccountsOf!Recent, AccountsOf!Stored, AccountsOf!Live
<1>5. Adding' = Adding \ {h} /\ h \in Adding
  BY <1>1, IdleType DEF Adding, Issuing, CodesInv
<1>6. Cardinality(Adding') = Cardinality(Adding) - 1
  BY <1>5, AddingCount, FS_RemoveElement
<1> HIDE DEF j
<1>7. /\ IsFiniteSet(AccountsOf!Recent \cup {j})
      /\ Cardinality(AccountsOf!Recent \cup {j}) <= Cardinality(AccountsOf!Recent) + 1
      /\ Cardinality(AccountsOf!Recent \cup {j}) \in Nat
  <2>1. IsFiniteSet(AccountsOf!Recent) /\ Cardinality(AccountsOf!Recent) \in Nat
    BY RecentCount
  <2>2. /\ IsFiniteSet(AccountsOf!Recent \cup {j})
        /\ Cardinality(AccountsOf!Recent \cup {j}) =
             IF j \in AccountsOf!Recent THEN Cardinality(AccountsOf!Recent)
             ELSE Cardinality(AccountsOf!Recent) + 1
    BY <2>1, FS_AddElement
  <2> QED
    BY <2>1, <2>2
<1>8. /\ Cardinality(AccountsOf!Recent') <= Cardinality(AccountsOf!Recent) + 1
      /\ Cardinality(AccountsOf!Recent') \in Nat
  BY <1>4, <1>7, RecentCount, FS_Subset, FS_CardinalityType
<1> QED
  BY <1>6, <1>8, RecentCount, AddingCount, ServicesAssumption DEF FloodInv

LEMMA ConsumeCodeCounted ==
    ASSUME CodesInv, FloodInv, NEW h \in Handlers, AccountsOf!ConsumeCode(h)
    PROVE  FloodInv'
<1>1. PICK w \in {AccountsOf!Idle, [AccountsOf!Idle EXCEPT !.pc = "find"]} :
        work' = [work EXCEPT ![h] = w]
  BY DEF AccountsOf!ConsumeCode, AccountsOf!Done
<1>2. w.pc \notin {"retire", "issue"}
  BY <1>1, IdleType DEF AccountsOf!Work
<1>3. Adding' \subseteq Adding
  BY <1>1, <1>2 DEF Adding, Issuing, CodesInv
<1>4. CASE codes' = codes
  BY <1>3, <1>4, NoneAdded DEF AccountsOf!Recent, AccountsOf!Stored
<1>5. CASE codes' # codes
  <2>1. PICK j \in AccountsOf!Live :
          \/ codes' = [codes EXCEPT ![j] = [codes[j] EXCEPT !.state = "consumed"]]
          \/ codes' = [codes EXCEPT ![j] = AccountsOf!WrongGuess(codes[j])]
          \/ codes' = [codes EXCEPT ![j] = [codes[j] EXCEPT !.state = "consumed",
                                                            !.signIns = @ + 1]]
    <3>1. AccountsOf!Open(h) # {}
      BY <1>5 DEF AccountsOf!ConsumeCode
    <3>2. AccountsOf!Max(AccountsOf!Open(h)) \in AccountsOf!Live
      <4>1. AccountsOf!Open(h) \in SUBSET (1..Len(codes)) /\ Len(codes) \in Nat
        BY DEF AccountsOf!Open, AccountsOf!Live, CodesInv
      <4>2. AccountsOf!Max(AccountsOf!Open(h)) \in AccountsOf!Open(h)
        BY <3>1, <4>1, MaxIn
      <4> QED
        BY <4>2 DEF AccountsOf!Open
    <3> DEFINE j == AccountsOf!Max(AccountsOf!Open(h))
    <3>3. \/ codes' = [codes EXCEPT ![j] = [codes[j] EXCEPT !.state = "consumed"]]
          \/ codes' = [codes EXCEPT ![j] = AccountsOf!WrongGuess(codes[j])]
          \/ codes' = [codes EXCEPT ![j] = [codes[j] EXCEPT !.state = "consumed",
                                                            !.signIns = @ + 1]]
      BY <1>5, <3>1 DEF AccountsOf!ConsumeCode
    <3> HIDE DEF j
    <3> QED
      BY <3>2, <3>3 DEF j
  <2>2. j \in AccountsOf!Stored /\ codes[j] \in AccountsOf!Code
    BY DEF AccountsOf!Live, AccountsOf!Stored, CodesInv
  <2>3. DOMAIN codes' = DOMAIN codes /\ codes'[j].age = codes[j].age
        /\ \A i \in DOMAIN codes : i # j => codes'[i] = codes[i]
    <3>1. /\ [codes[j] EXCEPT !.state = "consumed"].age = codes[j].age
          /\ AccountsOf!WrongGuess(codes[j]).age = codes[j].age
          /\ [codes[j] EXCEPT !.state = "consumed", !.signIns = @ + 1].age = codes[j].age
      BY <2>2 DEF AccountsOf!WrongGuess, AccountsOf!Code
    <3>2. PICK v : codes' = [codes EXCEPT ![j] = v] /\ v.age = codes[j].age
      BY <2>1, <3>1
    <3>3. j \in DOMAIN codes
      BY <2>2 DEF AccountsOf!Stored
    <3> QED
      BY <3>2, <3>3
  <2>4. AccountsOf!Recent' \subseteq AccountsOf!Recent
    BY <2>2, <2>3 DEF AccountsOf!Recent, AccountsOf!Stored
  <2> QED
    BY <1>3, <2>4, NoneAdded
<1> QED
  BY <1>4, <1>5

\* A step of a handler that adds no code.
LEMMA RestOfAccountsCounted ==
    ASSUME CodesInv, FloodInv,
           \/ UNCHANGED accounts
           \/ \E i \in DOMAIN codes, age \in {"expired", "hour"} : AccountsOf!Ages(i, age)
           \/ \E h \in Handlers :
                \/ AccountsOf!SeeCodes(h) \/ AccountsOf!AbortIssue(h)
                \/ \E i \in {0} \cup DOMAIN codes : AccountsOf!SubmitCode(h, i)
                \/ AccountsOf!FindUser(h) \/ AccountsOf!InsertUser(h)
                \/ AccountsOf!LinkSubject(h)
                \/ \E p \in Providers : AccountsOf!FindSubject(h, p)
    PROVE  FloodInv'
<1>1. AccountsOf!Recent' \subseteq AccountsOf!Recent
  <2>1. CASE codes' = codes
    BY <2>1 DEF AccountsOf!Recent, AccountsOf!Stored
  <2>2. ASSUME NEW i \in DOMAIN codes, NEW age \in {"expired", "hour"}, AccountsOf!Ages(i, age)
        PROVE  AccountsOf!Recent' \subseteq AccountsOf!Recent
    <3> DEFINE v == [codes[i] EXCEPT !.age = age]
    <3>1. codes' = [codes EXCEPT ![i] = v] /\ codes[i].state \in {"live", "consumed"}
          /\ codes[i].age # "hour"
      BY <2>2 DEF AccountsOf!Ages
    <3> HIDE DEF v
    <3>2. /\ DOMAIN codes' = DOMAIN codes
          /\ \A k \in DOMAIN codes : k # i => codes'[k] = codes[k]
      BY <3>1
    <3>3. i \in AccountsOf!Recent
      BY <3>1 DEF AccountsOf!Recent, AccountsOf!Stored
    <3> QED
      BY <3>2, <3>3 DEF AccountsOf!Recent, AccountsOf!Stored
  <2>3. ASSUME NEW h \in Handlers, AccountsOf!AbortIssue(h)
        PROVE  AccountsOf!Recent' \subseteq AccountsOf!Recent
    <3> DEFINE j == work[h].code
               v == [codes[j] EXCEPT !.state = "void"]
    <3>1. codes' = [codes EXCEPT ![j] = v] /\ Issuing(h)
      BY <2>3 DEF AccountsOf!AbortIssue, Issuing
    <3>2. j \in DOMAIN codes /\ codes[j] \in AccountsOf!Code
      BY <3>1 DEF CodesInv
    <3>3. v.state = "void"
      BY <3>2 DEF AccountsOf!Code
    <3> HIDE DEF j, v
    <3>4. /\ DOMAIN codes' = DOMAIN codes /\ codes'[j] = v
          /\ \A k \in DOMAIN codes : k # j => codes'[k] = codes[k]
      BY <3>1, <3>2
    <3> QED
      BY <3>3, <3>4 DEF AccountsOf!Recent, AccountsOf!Stored
  <2> QED
    BY <2>1, <2>2, <2>3
       DEF accounts, AccountsOf!SeeCodes, AccountsOf!SubmitCode, AccountsOf!FindUser,
           AccountsOf!InsertUser, AccountsOf!LinkSubject, AccountsOf!FindSubject
<1>2. Adding' \subseteq Adding
  <2>1. CASE work' = work
    BY <2>1 DEF Adding, Issuing
  <2>2. ASSUME NEW h \in Handlers, NEW w, work' = [work EXCEPT ![h] = w],
               w.pc \in {"retire", "issue"} => Issuing(h)
        PROVE  Adding' \subseteq Adding
    BY <2>2 DEF Adding, Issuing, CodesInv
  <2>3. ASSUME NEW h \in Handlers, AccountsOf!SeeCodes(h) PROVE Adding' \subseteq Adding
    <3>1. work' = [work EXCEPT ![h] = [work[h] EXCEPT !.pc = "issue", !.found = AccountsOf!Live]]
          /\ Issuing(h)
      BY <2>3 DEF AccountsOf!SeeCodes, Issuing, CodesInv
    <3> QED
      BY <2>2, <3>1
  <2>4. ASSUME NEW h \in Handlers, work' = [work EXCEPT ![h] = AccountsOf!Idle]
        PROVE  Adding' \subseteq Adding
    BY <2>2, <2>4, IdleType
  <2>5. ASSUME NEW h \in Handlers, work' = [work EXCEPT ![h].pc = "insert"]
        PROVE  Adding' \subseteq Adding
    <3> DEFINE w == [work[h] EXCEPT !.pc = "insert"]
    <3>1. work' = [work EXCEPT ![h] = w] /\ w.pc = "insert"
      BY <2>5 DEF CodesInv, AccountsOf!Work
    <3> HIDE DEF w
    <3> QED
      BY <2>2, <3>1
  <2>6. ASSUME NEW h \in Handlers,
               \/ \E i \in {0} \cup DOMAIN codes : AccountsOf!SubmitCode(h, i)
               \/ \E p \in Providers : AccountsOf!FindSubject(h, p)
        PROVE  Adding' \subseteq Adding
    <3>1. CASE \E i \in {0} \cup DOMAIN codes : AccountsOf!SubmitCode(h, i)
      <4>1. PICK i \in {0} \cup DOMAIN codes : AccountsOf!SubmitCode(h, i)
        BY <3>1
      <4> DEFINE w == [AccountsOf!Idle EXCEPT !.pc = "consume", !.code = i,
                                              !.found = AccountsOf!Live]
      <4>2. work' = [work EXCEPT ![h] = w] /\ w.pc = "consume"
        BY <4>1 DEF AccountsOf!SubmitCode, AccountsOf!Idle
      <4> HIDE DEF w
      <4> QED
        BY <2>2, <4>2
    <3>2. CASE \E p \in Providers : AccountsOf!FindSubject(h, p)
      <4>1. PICK p \in Providers : AccountsOf!FindSubject(h, p)
        BY <3>2
      <4> DEFINE w == [AccountsOf!Idle EXCEPT !.pc = "link", !.by = p]
      <4>2. work' = [work EXCEPT ![h] = w] /\ w.pc = "link"
        BY <4>1 DEF AccountsOf!FindSubject, AccountsOf!Idle
      <4> HIDE DEF w
      <4> QED
        BY <2>2, <4>2
    <3> QED
      BY <2>6, <3>1, <3>2
  <2> QED
    BY <2>1, <2>3, <2>4, <2>5, <2>6
       DEF accounts, AccountsOf!Ages, AccountsOf!AbortIssue, AccountsOf!FindUser,
           AccountsOf!InsertUser, AccountsOf!LinkSubject, AccountsOf!Done, AccountsOf!To
<1> QED
  BY <1>1, <1>2, NoneAdded

LEMMA FloodStep == CodesInv /\ FloodInv /\ AccountsStep => FloodInv'
BY CountCodesCounted, IssueCodeCounted, ConsumeCodeCounted, RestOfAccountsCounted
   DEF AccountsStep, AccountsOf!Next

LEMMA FloodInitHolds == AccountsOf!Init => FloodInv
<1> SUFFICES ASSUME AccountsOf!Init PROVE FloodInv
  OBVIOUS
<1>1. AccountsOf!Recent = {} /\ Adding = {}
  BY IdleType DEF AccountsOf!Init, AccountsOf!Recent, AccountsOf!Stored, Adding, Issuing
<1>2. Cardinality({}) = 0 /\ Cardinality(Handlers) \in Nat
  BY FS_EmptySet, AddingCount
<1> QED
  BY <1>1, <1>2, ServicesAssumption DEF FloodInv

\* An address is sent emailCodeMaxPerHour codes in an hour, and one more for each
\* request that counts them at the same time (IssueEmailCode, store/email_codes.go).
THEOREM FloodBoundedHolds == ServicesSpec => []FloodBounded
<1>1. ServicesInit => FloodInv
  BY FloodInitHolds DEF ServicesInit
<1>2. CodesInv /\ FloodInv
        /\ [ServicesNext]_<<service, accounts, pageVars, ledger, household, home>>
        => FloodInv'
  BY StepsApart, FloodStep
<1>3. CodesInv /\ FloodInv => FloodBounded
  <2> SUFFICES ASSUME CodesInv, FloodInv
               PROVE  Cardinality(AccountsOf!Recent) <= MaxPerHour + Cardinality(Handlers) - 1
    BY AccountsCardinality DEF FloodBounded, AccountsOf!FloodBounded, AccountsOf!Recent
  <2> QED
    BY RecentCount, AddingCount, ServicesAssumption DEF FloodInv
<1> QED
  BY <1>1, <1>2, <1>3, CodesAlways, PTL DEF ServicesSpec

=============================================================================
