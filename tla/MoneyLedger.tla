---------------------------- MODULE MoneyLedger ----------------------------
(***************************************************************************)
(* MoneyLedger: the sealed records of one household (pkg/store/            *)
(* money_vault.go, pkg/httpapi/money.go): the settings document under      *)
(* optimistic concurrency, ledger entries and objects put in batches,      *)
(* deleted one by one and cleared at once, and a member who scrolls        *)
(* through the entries while the others write.                             *)
(*                                                                         *)
(* A batch reads the epoch in a statement of its own.  The rows it writes  *)
(* stay locked until it commits, so it is a step; a clear locks what its   *)
(* first statement found before the second begins.                         *)
(***************************************************************************)
EXTENDS Integers, FiniteSets, FiniteSetsExt

CONSTANTS
    Members,
    Entries,     \* client ids of entries, numbered in the order of their row ids
    Clearable,   \* objects a clear takes along: budgets, bills and holdings
    Lasting,     \* objects it leaves: categories and accounts
    Days,        \* dates of entries, an interval of numbers
    PageSize,    \* limit
    MaxWrites,   \* bound: batches, deletions and clears
    MaxEpoch,    \* bound: epochs of the space key
    None

VARIABLES
    keyEpoch,   \* spaces.key_epoch
    vault,      \* money_vaults: version and settings, None until money is enabled
    saved,      \* the edits of the settings that were answered with success
    records,    \* money_entries and money_objects, None without a row
    task,       \* what each member's request is at
    writes,     \* batches, deletions and clears so far
    scroll      \* the pages a member has read

ledgerVars == <<keyEpoch, vault, saved, records, task, writes, scroll>>

Objects == Clearable \cup Lasting
Ids == Entries \cup Objects

\* day is occurred_on, label is key_epoch, and sealed the epoch of the key that
\* opens the record, which the server cannot see.
Record == [live : BOOLEAN, day : Days, label : 1..MaxEpoch, sealed : 1..MaxEpoch]

\* The settings are the edits that went into them; each member makes one.
Vault == [version : Nat, edits : SUBSET Members]

Task == [pc : {"idle", "edit", "epoch", "rows", "entries", "objects"},
         base : Nat, edits : SUBSET Members, batch : SUBSET Ids, day : Days,
         sealed : 0..MaxEpoch, label : 0..MaxEpoch, found : SUBSET Ids]

AnyDay == CHOOSE d \in Days : TRUE

Idle == [pc |-> "idle", base |-> 0, edits |-> {}, batch |-> {}, day |-> AnyDay,
         sealed |-> 0, label |-> 0, found |-> {}]

\* A place in the ledger: a day and an entry.
Place == Days \X Entries

LedgerTypeOK ==
    /\ keyEpoch \in 1..MaxEpoch
    /\ vault = None \/ vault \in Vault
    /\ saved \subseteq Members
    /\ records \in [Ids -> Record \cup {None}]
    /\ task \in [Members -> Task]
    /\ writes \in 0..MaxWrites
    /\ scroll \in [pc : {"idle", "reading", "done"}, cursor : Place \cup {None},
                   read : [Entries -> Nat], moved : SUBSET Entries]

Init ==
    /\ keyEpoch = 1
    /\ vault = None
    /\ saved = {}
    /\ records = [i \in Ids |-> None]
    /\ task = [m \in Members |-> Idle]
    /\ writes = 0
    /\ scroll = [pc |-> "idle", cursor |-> None, read |-> [e \in Entries |-> 0], moved |-> {}]

-----------------------------------------------------------------------------

Live == {i \in Ids : records[i] # None /\ records[i].live}

To(m, t) == task' = [task EXCEPT ![m] = t]

Writes ==
    /\ writes < MaxWrites
    /\ writes' = writes + 1

\* The space key is rotated; the clients seal what they send next with the new one.
Rotate ==
    /\ keyEpoch < MaxEpoch
    /\ keyEpoch' = keyEpoch + 1
    /\ UNCHANGED <<vault, saved, records, task, writes, scroll>>

-----------------------------------------------------------------------------
(* The settings.                                                           *)

\* requireMoneyRole: there is a vault, and the caller is a member.
MoneyEnabled == vault # None

\* The row of money_vaults a household begins with.
FirstVault == [version |-> 1, edits |-> {}]

\* handleCreateHousehold, for a space that is not there yet, and handleEnableMoney,
\* for one that is: the first of them inserts.
Enable ==
    /\ vault = None
    /\ vault' = FirstVault
    /\ UNCHANGED <<keyEpoch, saved, records, task, writes, scroll>>

CreateHousehold ==
    /\ keyEpoch = 1
    /\ Enable

\* The document was sealed against the epoch the space still has.
EnableMoney == Enable

\* handleGetVault, to edit what it answers.
GetVault(m) ==
    /\ task[m].pc = "idle"
    /\ MoneyEnabled
    /\ m \notin saved
    /\ To(m, [Idle EXCEPT !.pc = "edit", !.base = vault.version,
                !.edits = vault.edits \cup {m}])
    /\ UNCHANGED <<keyEpoch, vault, saved, records, writes, scroll>>

\* Mutant: the version is not compared.
VersionIgnored(m) == TRUE

\* The WHERE clause of the update.
VersionIs(m) == vault.version = task[m].base

\* handlePutVault: stored, or a conflict.  The answer may be lost.
PutVault(m) ==
    /\ task[m].pc = "edit"
    /\ IF VersionIs(m)
         THEN /\ vault' = [version |-> vault.version + 1, edits |-> task[m].edits]
              /\ saved' = saved \cup {m}
         ELSE UNCHANGED <<vault, saved>>
    /\ To(m, Idle)
    /\ UNCHANGED <<keyEpoch, records, writes, scroll>>

-----------------------------------------------------------------------------
(* Entries and objects.                                                    *)

\* A member sends a batch, sealed with today's key.
SendBatch(m, batch, day) ==
    /\ task[m].pc = "idle"
    /\ MoneyEnabled
    /\ batch # {}
    /\ Writes
    /\ To(m, [Idle EXCEPT !.pc = "epoch", !.batch = batch, !.day = day, !.sealed = keyEpoch])
    /\ UNCHANGED <<keyEpoch, vault, saved, records, scroll>>

\* handlePutEntries and handlePutObjects, up to the transaction.
SendEntries(m, batch, day) == batch \subseteq Entries /\ SendBatch(m, batch, day)
SendObjects(m, batch) == batch \subseteq Objects /\ SendBatch(m, batch, AnyDay)

\* Mutant: the epoch of a space is read once and remembered.
RememberedEpoch == 1

CurrentEpoch == keyEpoch

\* currentEpoch, without a lock.
ReadEpoch(m) ==
    /\ task[m].pc = "epoch"
    /\ To(m, [task[m] EXCEPT !.pc = "rows", !.label = CurrentEpoch])
    /\ UNCHANGED <<keyEpoch, vault, saved, records, writes, scroll>>

\* The rows a clear has locked.
LockedBy(m) == IF task[m].pc = "objects" THEN task[m].found \cap Entries ELSE {}
Locked == UNION {LockedBy(m) : m \in Members}

\* A member who scrolls is not promised the rows whose place changed meanwhile.
Moves(r) ==
    scroll' = IF scroll.pc = "idle" THEN scroll
              ELSE [scroll EXCEPT !.moved = @ \cup
                      {e \in Entries : r[e] # records[e] /\
                         (records[e] = None \/ r[e].live # records[e].live
                                            \/ r[e].day # records[e].day)}]

\* What an upsert leaves of a row: all of it is new, and it is live again.
Upserted(m) == [live |-> TRUE, day |-> task[m].day, label |-> task[m].label,
                sealed |-> task[m].sealed]

\* The upserts and the commit.
PutBatch(m) ==
    /\ task[m].pc = "rows"
    /\ task[m].batch \cap Locked = {}
    /\ LET r == [i \in Ids |-> IF i \in task[m].batch THEN Upserted(m) ELSE records[i]] IN
         /\ records' = r
         /\ Moves(r)
    /\ To(m, Idle)
    /\ UNCHANGED <<keyEpoch, vault, saved, writes>>

PutEntries(m) == task[m].batch \subseteq Entries /\ PutBatch(m)
PutObjects(m) == task[m].batch \subseteq Objects /\ PutBatch(m)

Tombstoned(S) == [i \in Ids |-> IF i \in S \cap Live THEN [records[i] EXCEPT !.live = FALSE]
                                ELSE records[i]]

\* A row that is not live is left alone, and the answer is the same.
Delete(m, i) ==
    /\ task[m].pc = "idle"
    /\ i \in Live \ Locked
    /\ Writes
    /\ records' = Tombstoned({i})
    /\ Moves(Tombstoned({i}))
    /\ UNCHANGED <<keyEpoch, vault, saved, task>>

DeleteEntry(m, i) == i \in Entries /\ Delete(m, i)
DeleteObject(m, i) == i \in Objects /\ Delete(m, i)

\* handleClearLedger; the first statement finds the entries.
BeginClear(m) ==
    /\ task[m].pc = "idle"
    /\ MoneyEnabled
    /\ Writes
    /\ To(m, [Idle EXCEPT !.pc = "entries", !.found = Live \cap Entries])
    /\ UNCHANGED <<keyEpoch, vault, saved, records, scroll>>

\* It has locked those that are still live, and the second finds the objects.
ClearEntries(m) ==
    /\ task[m].pc = "entries"
    /\ task[m].found \cap Locked = {}
    /\ To(m, [task[m] EXCEPT !.pc = "objects",
                !.found = (@ \cap Live) \cup (Live \cap Clearable)])
    /\ UNCHANGED <<keyEpoch, vault, saved, records, writes, scroll>>

CommitClear(m) ==
    /\ task[m].pc = "objects"
    /\ records' = Tombstoned(task[m].found)
    /\ Moves(Tombstoned(task[m].found))
    /\ To(m, Idle)
    /\ UNCHANGED <<keyEpoch, vault, saved, writes>>

\* A statement fails, the batch is a deadlock victim, or the server stops.
Abort(m) ==
    /\ task[m].pc \in {"epoch", "rows", "entries", "objects"}
    /\ To(m, Idle)
    /\ UNCHANGED <<keyEpoch, vault, saved, records, writes, scroll>>

-----------------------------------------------------------------------------
(* Paging.                                                                 *)

\* The order of the ledger: the later day first, then the greater id.
Before(p, q) == p[1] > q[1] \/ (p[1] = q[1] /\ p[2] > q[2])

PlaceOf(e) == <<records[e].day, e>>

\* Mutant: the cursor is a day.
AfterDay(e) == scroll.cursor = None \/ scroll.cursor[1] > records[e].day

\* The condition of the cursor.
AfterCursor(e) == scroll.cursor = None \/ Before(scroll.cursor, PlaceOf(e))

Rest == {e \in Live \cap Entries : AfterCursor(e)}

\* The first n of the rest.
First(n) == {e \in Rest : Cardinality({f \in Rest : Before(PlaceOf(f), PlaceOf(e))}) < n}

\* handleListEntries: the row past the page only tells that there is one.
ReadPage ==
    /\ scroll.pc # "done"
    /\ MoneyEnabled
    /\ LET page == First(PageSize) IN
         scroll' = [scroll EXCEPT
             !.pc = IF Cardinality(Rest) > PageSize THEN "reading" ELSE "done",
             !.cursor = IF Cardinality(Rest) > PageSize
                          THEN PlaceOf(CHOOSE e \in page : \A f \in page \ {e} :
                                         Before(PlaceOf(f), PlaceOf(e)))
                          ELSE None,
             !.read = [e \in Entries |-> IF e \in page THEN @[e] + 1 ELSE @[e]]]
    /\ UNCHANGED <<keyEpoch, vault, saved, records, task, writes>>

-----------------------------------------------------------------------------

Next ==
    \/ Rotate \/ CreateHousehold \/ EnableMoney
    \/ \E m \in Members :
         \/ GetVault(m) \/ PutVault(m)
         \/ \E batch \in SUBSET Entries, day \in Days : SendEntries(m, batch, day)
         \/ \E batch \in SUBSET Objects : SendObjects(m, batch)
         \/ ReadEpoch(m) \/ PutEntries(m) \/ PutObjects(m)
         \/ \E i \in Ids : DeleteEntry(m, i) \/ DeleteObject(m, i)
         \/ BeginClear(m) \/ ClearEntries(m) \/ CommitClear(m)
         \/ Abort(m)
    \/ ReadPage

Spec == Init /\ [][Next]_ledgerVars

-----------------------------------------------------------------------------
(* Properties.                                                             *)

\* Two members who edit the settings at once do not silently overwrite each other:
\* an edit that was answered with success is in the settings.
VaultEditsKept == vault # None => saved \subseteq vault.edits

\* A member who scrolls to the end while others log, move, delete and clear entries
\* sees every entry that kept its place once.
ScrollComplete ==
    \A e \in Entries \ scroll.moved :
        /\ scroll.read[e] <= 1
        /\ scroll.pc = "done" /\ records[e] # None /\ records[e].live => scroll.read[e] = 1

\* A label errs to one side only: it names no key yet to come, and where it does not
\* open a record the key that does is an older one, however rotations and batches
\* overlap.
LabelBounds ==
    \A i \in Ids : records[i] # None =>
        records[i].sealed <= records[i].label /\ records[i].label <= keyEpoch

-----------------------------------------------------------------------------
(* What the comments of the repository say, and the code does not keep.    *)

\* store/money_vault.go:21: a row holds "the key epoch that says which space key
\* opens it".
LabelOpens == \A i \in Ids : records[i] # None => records[i].label = records[i].sealed
=============================================================================
