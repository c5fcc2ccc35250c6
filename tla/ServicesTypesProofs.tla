------------------------ MODULE ServicesTypesProofs ------------------------
(***************************************************************************)
(* That every service keeps the types of its variables, for any number of  *)
(* members, handlers, callers, codes, invitations and rows; and what a     *)
(* label of the ledger is good for.                                        *)
(***************************************************************************)
EXTENDS ServicesProofs, PagesProofs

-----------------------------------------------------------------------------
(* Accounts: the account and the providers linked to it.                   *)

\* Only a sign-in by a provider links one.
AccountInv ==
    /\ account \in [exists : BOOLEAN, linked : SUBSET Providers]
    /\ \A h \in Handlers : work[h].pc = "link" => work[h].by \in Providers

LEMMA AccountInitHolds == AccountsOf!Init => AccountInv
<1> SUFFICES ASSUME AccountsOf!Init PROVE AccountInv
  OBVIOUS
<1>1. \A h \in Handlers : work[h].pc = "idle"
  BY IdleType DEF AccountsOf!Init
<1>2. account \in [exists : BOOLEAN, linked : SUBSET Providers]
  BY DEF AccountsOf!Init
<1> QED
  BY <1>1, <1>2 DEF AccountInv

\* A handler goes on to something else than linking.
LEMMA NoLink ==
    ASSUME CodesInv, AccountInv, NEW h \in Handlers, NEW w, w.pc # "link",
           work' = [work EXCEPT ![h] = w],
           account' \in [exists : BOOLEAN, linked : SUBSET Providers]
    PROVE  AccountInv'
<1>1. work'[h] = w /\ \A g \in Handlers \ {h} : work'[g] = work[g]
  BY DEF CodesInv
<1> QED
  BY <1>1 DEF AccountInv

LEMMA AccountStep == CodesInv /\ AccountInv /\ AccountsStep => AccountInv'
<1> SUFFICES ASSUME CodesInv, AccountInv, AccountsStep PROVE AccountInv'
  OBVIOUS
<1>1. CASE UNCHANGED <<account, work>>
  BY <1>1 DEF AccountInv
<1>2. UNCHANGED accounts \/ (\E i \in DOMAIN codes, age \in {"expired", "hour"} :
                               AccountsOf!Ages(i, age))
      => UNCHANGED <<account, work>>
  BY DEF accounts, AccountsOf!Ages
<1>3. ASSUME NEW h \in Handlers, NEW pc, pc # "link",
             AccountsOf!To(h, pc) \/ AccountsOf!Done(h),
             account' \in [exists : BOOLEAN, linked : SUBSET Providers]
      PROVE  AccountInv'
  <2>1. CASE AccountsOf!Done(h)
    BY <1>3, <2>1, IdleType, NoLink DEF AccountsOf!Done
  <2>2. CASE AccountsOf!To(h, pc)
    <3> DEFINE w == [work[h] EXCEPT !.pc = pc]
    <3>1. work' = [work EXCEPT ![h] = w]
      BY <2>2 DEF AccountsOf!To
    <3>2. w.pc = pc
      BY DEF CodesInv, AccountsOf!Work
    <3> HIDE DEF w
    <3> QED
      BY <1>3, <3>1, <3>2, NoLink
  <2> QED
    BY <1>3, <2>1, <2>2
<1>4. account \in [exists : BOOLEAN, linked : SUBSET Providers]
  BY DEF AccountInv
<1>5. ASSUME NEW h \in Handlers, AccountsOf!CountCodes(h) PROVE AccountInv'
  <2> DEFINE w == [AccountsOf!Idle EXCEPT !.pc = "retire", !.code = Len(codes) + 1]
  <2>1. work' = [work EXCEPT ![h] = w] /\ account' = account
    BY <1>5 DEF AccountsOf!CountCodes
  <2>2. w.pc = "retire"
    BY DEF AccountsOf!Idle
  <2> HIDE DEF w
  <2> QED
    BY <1>4, <2>1, <2>2, NoLink
<1>6. ASSUME NEW h \in Handlers, AccountsOf!SeeCodes(h) PROVE AccountInv'
  <2> DEFINE w == [work[h] EXCEPT !.pc = "issue", !.found = AccountsOf!Live]
  <2>1. work' = [work EXCEPT ![h] = w] /\ account' = account
    BY <1>6 DEF AccountsOf!SeeCodes, CodesInv
  <2>2. w.pc = "issue"
    BY DEF CodesInv, AccountsOf!Work
  <2> HIDE DEF w
  <2> QED
    BY <1>4, <2>1, <2>2, NoLink
<1>7. ASSUME NEW h \in Handlers, AccountsOf!IssueCode(h) \/ AccountsOf!AbortIssue(h)
      PROVE  AccountInv'
  BY <1>3, <1>4, <1>7 DEF AccountsOf!IssueCode, AccountsOf!AbortIssue
<1>8. ASSUME NEW h \in Handlers, NEW i, AccountsOf!SubmitCode(h, i) PROVE AccountInv'
  <2> DEFINE w == [AccountsOf!Idle EXCEPT !.pc = "consume", !.code = i,
                                          !.found = AccountsOf!Live]
  <2>1. work' = [work EXCEPT ![h] = w] /\ account' = account
    BY <1>8 DEF AccountsOf!SubmitCode
  <2>2. w.pc = "consume"
    BY DEF AccountsOf!Idle
  <2> HIDE DEF w
  <2> QED
    BY <1>4, <2>1, <2>2, NoLink
<1>9. ASSUME NEW h \in Handlers, AccountsOf!ConsumeCode(h) PROVE AccountInv'
  <2> DEFINE w == [AccountsOf!Idle EXCEPT !.pc = "find"]
  <2>1. AccountsOf!Done(h) \/ work' = [work EXCEPT ![h] = w]
    BY <1>9 DEF AccountsOf!ConsumeCode
  <2>2. account' = account
    BY <1>9 DEF AccountsOf!ConsumeCode
  <2>3. w.pc = "find"
    BY DEF AccountsOf!Idle
  <2> HIDE DEF w
  <2> QED
    BY <1>3, <1>4, <2>1, <2>2, <2>3, NoLink
<1>10. ASSUME NEW h \in Handlers, AccountsOf!FindUser(h) PROVE AccountInv'
  BY <1>3, <1>4, <1>10 DEF AccountsOf!FindUser
<1>11. ASSUME NEW h \in Handlers, AccountsOf!InsertUser(h) PROVE AccountInv'
  <2>1. AccountsOf!Inserted(h) \in [exists : BOOLEAN, linked : SUBSET Providers]
    BY <1>4 DEF AccountsOf!Inserted
  <2> QED
    BY <1>3, <1>11, <2>1 DEF AccountsOf!InsertUser
<1>12. ASSUME NEW h \in Handlers, AccountsOf!LinkSubject(h) PROVE AccountInv'
  <2>1. work[h].by \in Providers
    BY <1>12 DEF AccountInv, AccountsOf!LinkSubject
  <2>2. [account EXCEPT !.linked = @ \cup {work[h].by}]
          \in [exists : BOOLEAN, linked : SUBSET Providers]
    BY <1>4, <2>1
  <2> QED
    BY <1>3, <1>4, <1>12, <2>2 DEF AccountsOf!LinkSubject
<1>13. ASSUME NEW h \in Handlers, NEW p \in Providers, AccountsOf!FindSubject(h, p)
       PROVE  AccountInv'
  <2> DEFINE w == [AccountsOf!Idle EXCEPT !.pc = "link", !.by = p]
  <2>1. work' = [work EXCEPT ![h] = w] /\ account' = account
    BY <1>13 DEF AccountsOf!FindSubject
  <2>2. w.by = p
    BY DEF AccountsOf!Idle
  <2> HIDE DEF w
  <2>3. work'[h] = w /\ \A g \in Handlers \ {h} : work'[g] = work[g]
    BY <2>1 DEF CodesInv
  <2> QED
    BY <2>1, <2>2, <2>3 DEF AccountInv
<1> QED
  BY <1>1, <1>2, <1>5, <1>6, <1>7, <1>8, <1>9, <1>10, <1>11, <1>12, <1>13
     DEF AccountsStep, AccountsOf!Next

LEMMA AccountsTyped == CodesInv /\ AccountInv => AccountsOf!TypeOK
BY DEF CodesInv, AccountInv, AccountsOf!TypeOK

-----------------------------------------------------------------------------
(* MoneyLedger: the records, their labels and the requests.                *)

\* What is written is sealed with a key that was current before the label was read.
Labelled(r) == r.sealed <= r.label /\ r.label <= keyEpoch

TaskSound(t) ==
    /\ t \in LedgerOf!Task
    /\ t.pc \in {"epoch", "rows"} => t.sealed \in 1..keyEpoch
    /\ t.pc = "rows" => Labelled(t)

LedgerInv ==
    /\ keyEpoch \in 1..MaxEpoch
    /\ writes \in 0..MaxWrites
    /\ records \in [LedgerOf!Ids -> LedgerOf!Record \cup {None}]
    /\ task \in [Members -> LedgerOf!Task]
    /\ \A m \in Members : TaskSound(task[m])
    /\ \A i \in LedgerOf!Ids : records[i] # None => Labelled(records[i])

\* A request that waits for nothing is sound.
LEMMA AtRest ==
    /\ LedgerOf!Idle \in LedgerOf!Task /\ LedgerOf!Idle.pc = "idle"
    /\ TaskSound(LedgerOf!Idle) /\ TaskSound(LedgerOf!Idle)'
<1>1. LedgerOf!AnyDay \in Days /\ 0 \in 0..MaxEpoch
  BY ServicesAssumption DEF LedgerOf!AnyDay
<1>2. LedgerOf!Idle \in LedgerOf!Task /\ LedgerOf!Idle.pc = "idle"
  BY <1>1 DEF LedgerOf!Idle, LedgerOf!Task
<1> QED
  BY <1>2 DEF TaskSound

LEMMA LedgerInitHolds == LedgerOf!Init => LedgerInv
<1> SUFFICES ASSUME LedgerOf!Init PROVE LedgerInv
  OBVIOUS
<1>1. keyEpoch \in 1..MaxEpoch /\ writes \in 0..MaxWrites
  BY ServicesAssumption DEF LedgerOf!Init
<1>2. task \in [Members -> LedgerOf!Task] /\ \A m \in Members : TaskSound(task[m])
  BY AtRest DEF LedgerOf!Init
<1>3. /\ records \in [LedgerOf!Ids -> LedgerOf!Record \cup {None}]
      /\ \A i \in LedgerOf!Ids : records[i] = None
  BY DEF LedgerOf!Init
<1> QED
  BY <1>1, <1>2, <1>3 DEF LedgerInv

\* One request goes on, and no record is written.
LEMMA AsksHolds ==
    ASSUME LedgerInv, NEW m \in Members, NEW t, LedgerOf!To(m, t), TaskSound(t),
           UNCHANGED <<keyEpoch, records>>, writes' \in 0..MaxWrites
    PROVE  LedgerInv'
<1>1. /\ task' \in [Members -> LedgerOf!Task] /\ task'[m] = t
      /\ \A n \in Members \ {m} : task'[n] = task[n]
  BY DEF LedgerInv, LedgerOf!To, TaskSound
<1>2. \A n \in Members : TaskSound(task[n])'
  BY <1>1 DEF LedgerInv, TaskSound, Labelled
<1> QED
  BY <1>1, <1>2 DEF LedgerInv, Labelled

\* Records are written, by a request that ends or by none.
LEMMA WritesHolds ==
    ASSUME LedgerInv, UNCHANGED keyEpoch, writes' \in 0..MaxWrites,
           task' = task \/ \E m \in Members : LedgerOf!To(m, LedgerOf!Idle),
           records' \in [LedgerOf!Ids -> LedgerOf!Record \cup {None}],
           \A i \in LedgerOf!Ids : records'[i] # None => Labelled(records'[i])
    PROVE  LedgerInv'
<1>1. /\ task' \in [Members -> LedgerOf!Task]
      /\ \A n \in Members : task'[n] \in {task[n], LedgerOf!Idle}
  BY AtRest DEF LedgerInv, LedgerOf!To
<1>2. \A n \in Members : TaskSound(task[n])'
  BY <1>1, AtRest DEF LedgerInv, TaskSound, Labelled
<1>3. \A i \in LedgerOf!Ids : records'[i] # None => Labelled(records[i])'
  BY DEF Labelled
<1> QED
  BY <1>1, <1>2, <1>3 DEF LedgerInv

LEMMA SendBatchLabelled ==
    ASSUME LedgerInv, NEW m \in Members, NEW batch \in SUBSET LedgerOf!Ids, NEW day \in Days,
           LedgerOf!SendBatch(m, batch, day)
    PROVE  LedgerInv'
<1> DEFINE t == [LedgerOf!Idle EXCEPT !.pc = "epoch", !.batch = batch, !.day = day,
                                      !.sealed = keyEpoch]
<1>1. /\ LedgerOf!To(m, t) /\ UNCHANGED <<keyEpoch, records>>
      /\ writes < MaxWrites /\ writes' = writes + 1
  BY DEF LedgerOf!SendBatch, LedgerOf!Writes
<1>2. writes' \in 0..MaxWrites /\ keyEpoch \in 0..MaxEpoch /\ keyEpoch \in 1..keyEpoch
  BY <1>1, ServicesAssumption DEF LedgerInv
<1>3. t \in LedgerOf!Task /\ t.pc = "epoch" /\ t.sealed = keyEpoch
  BY <1>2, AtRest DEF LedgerOf!Task
<1> HIDE DEF t
<1>4. TaskSound(t)
  BY <1>2, <1>3 DEF TaskSound
<1> QED
  BY <1>1, <1>2, <1>4, AsksHolds

LEMMA GetVaultLabelled ==
    ASSUME LedgerInv, VaultInv, NEW m \in Members, LedgerOf!GetVault(m)
    PROVE  LedgerInv'
<1> DEFINE t == [LedgerOf!Idle EXCEPT !.pc = "edit", !.base = vault.version,
                                      !.edits = vault.edits \cup {m}]
<1>1. /\ LedgerOf!To(m, t) /\ UNCHANGED <<keyEpoch, records, writes>> /\ vault \in LedgerOf!Vault
  BY DEF LedgerOf!GetVault, LedgerOf!MoneyEnabled, VaultInv
<1>2. vault.version \in Nat /\ vault.edits \cup {m} \in SUBSET Members
  BY <1>1 DEF LedgerOf!Vault
<1>3. t \in LedgerOf!Task /\ t.pc = "edit"
  BY <1>2, AtRest DEF LedgerOf!Task
<1> HIDE DEF t
<1>4. TaskSound(t) /\ writes' \in 0..MaxWrites
  BY <1>1, <1>3 DEF TaskSound, LedgerInv
<1> QED
  BY <1>1, <1>4, AsksHolds

LEMMA ReadEpochLabelled ==
    ASSUME LedgerInv, NEW m \in Members, LedgerOf!ReadEpoch(m)
    PROVE  LedgerInv'
<1> DEFINE t == [task[m] EXCEPT !.pc = "rows", !.label = keyEpoch]
<1>1. /\ LedgerOf!To(m, t) /\ UNCHANGED <<keyEpoch, records>> /\ writes' \in 0..MaxWrites
      /\ task[m] \in LedgerOf!Task /\ task[m].sealed \in 1..keyEpoch /\ keyEpoch \in 1..MaxEpoch
  BY DEF LedgerOf!ReadEpoch, LedgerOf!CurrentEpoch, LedgerInv, TaskSound
<1>2. keyEpoch \in 0..MaxEpoch
  BY <1>1, ServicesAssumption
<1>3. t \in LedgerOf!Task /\ t.sealed = task[m].sealed /\ t.label = keyEpoch
  BY <1>1, <1>2 DEF LedgerOf!Task
<1> HIDE DEF t
<1>4. TaskSound(t)
  BY <1>1, <1>3 DEF TaskSound, Labelled
<1> QED
  BY <1>1, <1>4, AsksHolds

LEMMA PutBatchLabelled ==
    ASSUME LedgerInv, NEW m \in Members, LedgerOf!PutBatch(m)
    PROVE  LedgerInv'
<1> DEFINE new == LedgerOf!Upserted(m)
<1>1. /\ LedgerOf!To(m, LedgerOf!Idle) /\ UNCHANGED <<keyEpoch, writes>>
      /\ records' = [i \in LedgerOf!Ids |-> IF i \in task[m].batch THEN new ELSE records[i]]
      /\ task[m].pc = "rows" /\ TaskSound(task[m])
  BY DEF LedgerOf!PutBatch, LedgerInv
<1>2. /\ task[m].day \in Days /\ task[m].sealed \in 1..keyEpoch /\ task[m].label \in 0..MaxEpoch
      /\ Labelled(task[m]) /\ keyEpoch \in 1..MaxEpoch
  BY <1>1 DEF LedgerInv, TaskSound, LedgerOf!Task
<1>3. task[m].sealed \in 1..MaxEpoch /\ task[m].label \in 1..MaxEpoch
  BY <1>2, ServicesAssumption DEF Labelled
<1>4. new \in LedgerOf!Record /\ Labelled(new)
  BY <1>2, <1>3 DEF LedgerOf!Upserted, LedgerOf!Record, Labelled
<1> HIDE DEF new
<1>5. \A i \in LedgerOf!Ids : records'[i] \in {new, records[i]}
  BY <1>1
<1>6. /\ records' \in [LedgerOf!Ids -> LedgerOf!Record \cup {None}]
      /\ \A i \in LedgerOf!Ids : records'[i] # None => Labelled(records'[i])
  BY <1>1, <1>4, <1>5 DEF LedgerInv
<1>7. writes' \in 0..MaxWrites
  BY <1>1 DEF LedgerInv
<1> QED
  BY <1>1, <1>6, <1>7, WritesHolds

\* A tombstone keeps the label of the record.
LEMMA TombstonedLabelled ==
    ASSUME LedgerInv, NEW S, records' = LedgerOf!Tombstoned(S), UNCHANGED keyEpoch,
           writes' \in 0..MaxWrites,
           task' = task \/ \E m \in Members : LedgerOf!To(m, LedgerOf!Idle)
    PROVE  LedgerInv'
<1>1. ASSUME NEW i \in LedgerOf!Ids
      PROVE  /\ records'[i] \in LedgerOf!Record \cup {None}
             /\ records'[i] # None => Labelled(records'[i])
  <2>1. CASE i \in S \cap LedgerOf!Live
    <3> DEFINE r == [records[i] EXCEPT !.live = FALSE]
    <3>1. records'[i] = r /\ records[i] \in LedgerOf!Record /\ Labelled(records[i])
      BY <2>1 DEF LedgerOf!Tombstoned, LedgerOf!Live, LedgerInv
    <3>2. r \in LedgerOf!Record /\ r.label = records[i].label /\ r.sealed = records[i].sealed
      BY <3>1 DEF LedgerOf!Record
    <3> HIDE DEF r
    <3> QED
      BY <3>1, <3>2 DEF Labelled
  <2>2. CASE i \notin S \cap LedgerOf!Live
    BY <2>2 DEF LedgerOf!Tombstoned, LedgerInv
  <2> QED
    BY <2>1, <2>2
<1>2. records' \in [LedgerOf!Ids -> LedgerOf!Record \cup {None}]
  BY <1>1 DEF LedgerOf!Tombstoned
<1> QED
  BY <1>1, <1>2, WritesHolds

LEMMA ClearLabelled ==
    ASSUME LedgerInv, NEW m \in Members, LedgerOf!BeginClear(m) \/ LedgerOf!ClearEntries(m)
    PROVE  LedgerInv'
<1> DEFINE b == [LedgerOf!Idle EXCEPT !.pc = "entries", !.found = LedgerOf!Live \cap Entries]
           c == [task[m] EXCEPT !.pc = "objects",
                   !.found = (@ \cap LedgerOf!Live) \cup (LedgerOf!Live \cap Clearable)]
<1>1. /\ LedgerOf!Live \cap Entries \in SUBSET LedgerOf!Ids
      /\ LedgerOf!Live \in SUBSET LedgerOf!Ids
  BY DEF LedgerOf!Live
<1>2. task[m] \in LedgerOf!Task
  BY DEF LedgerInv, TaskSound
<1>3. b \in LedgerOf!Task /\ b.pc = "entries" /\ c \in LedgerOf!Task /\ c.pc = "objects"
  BY <1>1, <1>2, AtRest DEF LedgerOf!Task
<1>4. /\ LedgerOf!To(m, b) \/ LedgerOf!To(m, c)
      /\ UNCHANGED <<keyEpoch, records>> /\ writes' \in 0..MaxWrites
  <2>1. writes' \in 0..MaxWrites
    BY ServicesAssumption DEF LedgerOf!BeginClear, LedgerOf!ClearEntries, LedgerOf!Writes, LedgerInv
  <2> QED
    BY <2>1 DEF LedgerOf!BeginClear, LedgerOf!ClearEntries
<1> HIDE DEF b, c
<1>5. TaskSound(b) /\ TaskSound(c)
  BY <1>3 DEF TaskSound
<1> QED
  BY <1>4, <1>5, AsksHolds

LEMMA LedgerTypesStep == VaultInv /\ LedgerInv /\ LedgerStep => LedgerInv'
<1> SUFFICES ASSUME VaultInv, LedgerInv, LedgerStep PROVE LedgerInv'
  OBVIOUS
<1>1. writes \in 0..MaxWrites
  BY DEF LedgerInv
<1>2. CASE UNCHANGED <<keyEpoch, records, task, writes>>
  BY <1>2 DEF LedgerInv, TaskSound, Labelled
<1>3. LedgerOf!CreateHousehold \/ LedgerOf!EnableMoney \/ LedgerOf!ReadPage \/ UNCHANGED ledger
      => UNCHANGED <<keyEpoch, records, task, writes>>
  BY DEF LedgerOf!CreateHousehold, LedgerOf!EnableMoney, LedgerOf!Enable, LedgerOf!ReadPage, ledger
<1>4. CASE LedgerOf!Rotate
  <2>1. /\ UNCHANGED <<records, task, writes>>
        /\ keyEpoch' = keyEpoch + 1 /\ keyEpoch \in Nat /\ keyEpoch' \in 1..MaxEpoch
    BY <1>4, ServicesAssumption DEF LedgerOf!Rotate, LedgerInv
  <2>2. \A m \in Members : TaskSound(task[m])'
    BY <2>1 DEF LedgerInv, TaskSound, Labelled, LedgerOf!Task
  <2>3. \A i \in LedgerOf!Ids : records[i] # None => Labelled(records[i])'
    BY <2>1 DEF LedgerInv, Labelled, LedgerOf!Record
  <2> QED
    BY <2>1, <2>2, <2>3 DEF LedgerInv
<1>5. ASSUME NEW m \in Members, LedgerOf!PutVault(m) \/ LedgerOf!Abort(m) PROVE LedgerInv'
  BY <1>1, <1>5, AtRest, AsksHolds DEF LedgerOf!PutVault, LedgerOf!Abort
<1>6. ASSUME NEW m \in Members, NEW batch \in SUBSET Entries, NEW day \in Days,
             LedgerOf!SendEntries(m, batch, day)
      PROVE  LedgerInv'
  BY <1>6, SendBatchLabelled DEF LedgerOf!SendEntries, LedgerOf!Ids
<1>7. ASSUME NEW m \in Members, NEW batch \in SUBSET LedgerOf!Objects,
             LedgerOf!SendObjects(m, batch)
      PROVE  LedgerInv'
  BY <1>7, SendBatchLabelled, ServicesAssumption
     DEF LedgerOf!SendObjects, LedgerOf!Ids, LedgerOf!AnyDay
<1>8. ASSUME NEW m \in Members, LedgerOf!PutEntries(m) \/ LedgerOf!PutObjects(m)
      PROVE  LedgerInv'
  BY <1>8, PutBatchLabelled DEF LedgerOf!PutEntries, LedgerOf!PutObjects
<1>9. ASSUME NEW m \in Members, NEW i, LedgerOf!DeleteEntry(m, i) \/ LedgerOf!DeleteObject(m, i)
      PROVE  LedgerInv'
  <2>1. /\ records' = LedgerOf!Tombstoned({i}) /\ UNCHANGED <<keyEpoch, task>>
        /\ writes < MaxWrites /\ writes' = writes + 1
    BY <1>9 DEF LedgerOf!DeleteEntry, LedgerOf!DeleteObject, LedgerOf!Delete, LedgerOf!Writes
  <2>2. writes' \in 0..MaxWrites
    BY <1>1, <2>1, ServicesAssumption
  <2> QED
    BY <2>1, <2>2, TombstonedLabelled
<1>10. ASSUME NEW m \in Members, LedgerOf!CommitClear(m) PROVE LedgerInv'
  BY <1>1, <1>10, TombstonedLabelled DEF LedgerOf!CommitClear
<1> QED
  BY <1>2, <1>3, <1>4, <1>5, <1>6, <1>7, <1>8, <1>9, <1>10, GetVaultLabelled,
     ReadEpochLabelled, ClearLabelled DEF LedgerStep, LedgerOf!Next

\* The invariants of the settings, the pages and the records together.
LEMMA LedgerTyped == VaultInv /\ ScrollInv /\ LedgerInv => LedgerOf!LedgerTypeOK
<1> SUFFICES ASSUME VaultInv, ScrollInv, LedgerInv PROVE LedgerOf!LedgerTypeOK
  OBVIOUS
<1>1. saved \subseteq Members
  BY DEF VaultInv, LedgerOf!Vault
<1>2. scroll \in [pc : {"idle", "reading", "done"}, cursor : LedgerOf!Place \cup {None},
                  read : [Entries -> Nat], moved : SUBSET Entries]
  BY DEF ScrollInv
<1> QED
  BY <1>1, <1>2 DEF VaultInv, LedgerInv, LedgerOf!LedgerTypeOK

LEMMA LedgerAlways == ServicesSpec => [](VaultInv /\ ScrollInv /\ LedgerInv)
<1>1. ServicesInit => VaultInv /\ ScrollInv /\ LedgerInv
  BY VaultInitHolds, ScrollInitHolds, LedgerInitHolds DEF ServicesInit
<1>2. VaultInv /\ ScrollInv /\ LedgerInv
        /\ [ServicesNext]_<<service, accounts, pageVars, ledger, household, home>>
        => (VaultInv /\ ScrollInv /\ LedgerInv)'
  BY StepsApart, LedgerHolds, ScrollStep, LedgerTypesStep
<1> QED
  BY <1>1, <1>2, PTL DEF ServicesSpec

\* A label of the ledger errs to one side only: the key that opens a record is the
\* label's or an older one, and no label is of a key yet to come, whatever rotations
\* and batches overlap (currentEpoch and PutMoneyEntries, store/money_vault.go).
THEOREM LabelBoundsHolds == ServicesSpec => []LabelBounds
<1>1. LedgerInv => LabelBounds
  BY DEF LedgerInv, Labelled, LabelBounds, LedgerOf!LabelBounds
<1> QED
  BY <1>1, LedgerAlways, PTL

-----------------------------------------------------------------------------
(* MoneyInvites: the household.                                            *)

HouseholdInv ==
    /\ epoch \in 1..MaxKeys
    /\ joined \subseteq People
    /\ wraps \in [People -> 0..MaxKeys]
    /\ sealed \subseteq (1..MaxInvites) \X (1..MaxKeys)
    /\ removals \in 0..MaxRemovals
    /\ guests \in [1..MaxInvites -> SUBSET People]

LEMMA HouseholdInitHolds == InvitesOf!Init => HouseholdInv
BY ServicesAssumption DEF InvitesOf!Init, HouseholdInv

LEMMA HouseholdStep == GuestsInv /\ HouseholdInv /\ InvitesStep => HouseholdInv'
<1> SUFFICES ASSUME GuestsInv, HouseholdInv, InvitesStep PROVE HouseholdInv'
  OBVIOUS
<1>1. epoch \in 0..MaxKeys /\ 0 \in 0..MaxKeys /\ epoch \in Nat
  BY ServicesAssumption DEF HouseholdInv
<1>2. CASE UNCHANGED <<epoch, joined, wraps, sealed, removals, guests>>
  BY <1>2 DEF HouseholdInv
<1>3. UNCHANGED household
        \/ (\E p \in People : InvitesOf!CreateInvite(p))
        \/ (\E i \in DOMAIN invites : InvitesOf!RevokeInvite(i) \/ InvitesOf!Expires(i))
      => UNCHANGED <<epoch, joined, wraps, sealed, removals, guests>>
  BY DEF household, InvitesOf!CreateInvite, InvitesOf!RevokeInvite, InvitesOf!Expires
<1>4. ASSUME NEW i \in DOMAIN invites, InvitesOf!TellEpoch(i) PROVE HouseholdInv'
  <2>1. i \in 1..MaxInvites
    BY ServicesAssumption DEF GuestsInv
  <2>2. <<i, epoch>> \in (1..MaxInvites) \X (1..MaxKeys)
    BY <2>1 DEF HouseholdInv
  <2> QED
    BY <1>4, <2>2 DEF InvitesOf!TellEpoch, HouseholdInv
<1>5. ASSUME NEW i \in DOMAIN invites, NEW e \in 1..MaxKeys, InvitesOf!FileKey(i, e)
      PROVE  HouseholdInv'
  <2> DEFINE p == invites[i].invitee
  <2>1. p \in People
    <3>1. invites[i] \in InvitesOf!Invite
      BY DEF GuestsInv
    <3>2. <<i, e>> \in sealed /\ <<i, e>>[1] = i
      BY <1>5 DEF InvitesOf!FileKey
    <3>3. p # None
      BY <3>2 DEF GuestsInv
    <3> QED
      BY <3>1, <3>3 DEF InvitesOf!Invite
  <2>2. e \in 0..MaxKeys
    BY ServicesAssumption
  <2> QED
    BY <1>5, <2>1, <2>2 DEF InvitesOf!FileKey, HouseholdInv
<1>6. ASSUME NEW i \in DOMAIN invites, NEW p \in People, InvitesOf!AcceptInvite(i, p)
      PROVE  HouseholdInv'
  BY <1>6 DEF InvitesOf!AcceptInvite, HouseholdInv
<1>7. ASSUME NEW p \in People, InvitesOf!GrantKey(p) PROVE HouseholdInv'
  BY <1>1, <1>7 DEF InvitesOf!GrantKey, HouseholdInv
<1>8. ASSUME NEW p \in People, InvitesOf!RemoveMember(p) PROVE HouseholdInv'
  <2>1. removals' \in 0..MaxRemovals
    BY <1>8, ServicesAssumption DEF InvitesOf!RemoveMember, HouseholdInv
  <2> QED
    BY <1>1, <1>8, <2>1 DEF InvitesOf!RemoveMember, HouseholdInv
<1>9. ASSUME NEW S \in SUBSET joined, InvitesOf!RotateKey(S) PROVE HouseholdInv'
  <2>1. /\ epoch' = epoch + 1 /\ epoch < MaxKeys
        /\ wraps' = [p \in People |-> IF p \in S THEN epoch + 1 ELSE 0]
        /\ UNCHANGED <<joined, sealed, removals, guests>>
    BY <1>9 DEF InvitesOf!RotateKey
  <2>2. epoch + 1 \in 1..MaxKeys /\ epoch + 1 \in 0..MaxKeys
    BY <1>1, <2>1, ServicesAssumption
  <2> QED
    BY <1>1, <2>1, <2>2 DEF HouseholdInv
<1> QED
  BY <1>2, <1>3, <1>4, <1>5, <1>6, <1>7, <1>8, <1>9 DEF InvitesStep, InvitesOf!Next

LEMMA InvitesTyped == GuestsInv /\ HouseholdInv => InvitesOf!InvitesTypeOK
BY DEF GuestsInv, HouseholdInv, InvitesOf!InvitesTypeOK

-----------------------------------------------------------------------------
(* Home: sessions, and the bounds of what is entered and sent.             *)

SheetsInv ==
    /\ signedIn \subseteq Callers
    /\ byHand \in [Rows -> 0..MaxByHand]
    /\ sent \in [Rows -> 0..MaxCopies]

LEMMA SheetsInitHolds == HomeOf!Init => SheetsInv
BY ServicesAssumption DEF HomeOf!Init, HomeOf!NoRows, SheetsInv

LEMMA SheetsStep == SheetsInv /\ HomeStep => SheetsInv'
<1> SUFFICES ASSUME SheetsInv, HomeStep PROVE SheetsInv'
  OBVIOUS
<1>1. CASE UNCHANGED <<byHand, sent>> /\ signedIn' \in SUBSET Callers
  BY <1>1 DEF SheetsInv
<1>2. UNCHANGED home \/ HomeOf!NextWindow \/ HomeOf!SetPassword
        \/ (\E c \in Callers :
              \/ HomeOf!BeginLogin(c) \/ HomeOf!Compare(c) \/ HomeOf!RecordLoginFailure(c)
              \/ HomeOf!ClearLoginFailures(c) \/ HomeOf!CreateSession(c) \/ HomeOf!EndSession(c)
              \/ \E r \in Rows : HomeOf!RemoveEntry(c, r)
              \/ HomeOf!MatchEntries(c) \/ HomeOf!InsertMissing(c) \/ HomeOf!Fails(c))
      => UNCHANGED <<byHand, sent>> /\ signedIn' \in SUBSET Callers
  BY DEF home, HomeOf!NextWindow, HomeOf!SetPassword, HomeOf!BeginLogin, HomeOf!Compare,
         HomeOf!RecordLoginFailure, HomeOf!ClearLoginFailures, HomeOf!CreateSession,
         HomeOf!EndSession, HomeOf!RemoveEntry, HomeOf!MatchEntries, HomeOf!InsertMissing,
         HomeOf!Fails, HomeOf!ledgerOf, HomeOf!loginOf, SheetsInv
<1>3. ASSUME NEW r \in Rows, HomeOf!Enters(r), UNCHANGED <<sent, signedIn>> PROVE SheetsInv'
  <2>1. byHand[r] + 1 \in 0..MaxByHand /\ byHand' = [byHand EXCEPT ![r] = byHand[r] + 1]
    BY <1>3, ServicesAssumption DEF HomeOf!Enters, SheetsInv
  <2> QED
    BY <1>3, <2>1 DEF SheetsInv
<1>4. ASSUME NEW c \in Callers, NEW r \in Rows,
             HomeOf!CreateEntry(c, r) \/ \E old \in Rows : HomeOf!ReplaceEntry(c, old, r)
      PROVE  SheetsInv'
  BY <1>3, <1>4 DEF HomeOf!CreateEntry, HomeOf!ReplaceEntry, HomeOf!loginOf
<1>5. ASSUME NEW c \in Callers, NEW file \in HomeOf!Sheets, HomeOf!BeginImport(c, file)
      PROVE  SheetsInv'
  <2>1. /\ file \in [Rows -> 0..MaxCopies] /\ UNCHANGED <<signedIn, byHand>>
        /\ sent' = [r \in Rows |-> IF file[r] > sent[r] THEN file[r] ELSE sent[r]]
    BY <1>5 DEF HomeOf!Sheets, HomeOf!BeginImport, HomeOf!loginOf
  <2> QED
    BY <2>1 DEF SheetsInv
<1> QED
  BY <1>1, <1>2, <1>4, <1>5 DEF HomeStep, HomeOf!Next

LEMMA HomeTyped == ImportInv /\ ThrottleInv /\ SheetsInv => HomeOf!HomeTypeOK
BY DEF ImportInv, HomeTypes, ThrottleInv, SheetsInv, HomeOf!HomeTypeOK

-----------------------------------------------------------------------------
(* The five together.                                                      *)

\* A step of the composition is one of Pages or leaves it alone.
LEMMA PagesApart ==
    [ServicesNext]_<<service, accounts, pageVars, ledger, household, home>> => [Next]_pageVars
BY DEF ServicesNext

Kinds == service \in {"accounts", "pages", "ledger", "invites", "home"}

LEMMA AccountsAlways == ServicesSpec => [](CodesInv /\ AccountInv)
<1>1. ServicesInit => CodesInv /\ AccountInv
  BY AccountsInitHolds, AccountInitHolds DEF ServicesInit
<1>2. CodesInv /\ AccountInv
        /\ [ServicesNext]_<<service, accounts, pageVars, ledger, household, home>>
        => (CodesInv /\ AccountInv)'
  BY StepsApart, AccountsHolds, AccountStep
<1> QED
  BY <1>1, <1>2, PTL DEF ServicesSpec

LEMMA HouseholdAlways == ServicesSpec => [](GuestsInv /\ HouseholdInv)
<1>1. ServicesInit => GuestsInv /\ HouseholdInv
  BY InvitesInitHolds, HouseholdInitHolds DEF ServicesInit
<1>2. GuestsInv /\ HouseholdInv
        /\ [ServicesNext]_<<service, accounts, pageVars, ledger, household, home>>
        => (GuestsInv /\ HouseholdInv)'
  BY StepsApart, InvitesHolds, HouseholdStep
<1> QED
  BY <1>1, <1>2, PTL DEF ServicesSpec

LEMMA HomeAlways == ServicesSpec => [](ImportInv /\ ThrottleInv /\ SheetsInv)
<1>1. ServicesInit => ImportInv /\ ThrottleInv /\ SheetsInv
  BY HomeInitHolds, ThrottleInitHolds, SheetsInitHolds DEF ServicesInit
<1>2. ImportInv /\ ThrottleInv /\ SheetsInv
        /\ [ServicesNext]_<<service, accounts, pageVars, ledger, household, home>>
        => (ImportInv /\ ThrottleInv /\ SheetsInv)'
  BY StepsApart, HomeHolds, ThrottleStep, SheetsStep DEF ImportInv
<1> QED
  BY <1>1, <1>2, PTL DEF ServicesSpec

LEMMA PagesAlways == ServicesSpec => []IInv
<1>1. ServicesInit => IInv
  BY InitHolds DEF ServicesInit
<1>2. IInv /\ [ServicesNext]_<<service, accounts, pageVars, ledger, household, home>> => IInv'
  BY PagesApart, NextHolds
<1> QED
  BY <1>1, <1>2, PTL DEF ServicesSpec

\* Every service keeps the types of its rows and requests, for any number of them:
\* counters stay within what limits them, what is linked is a provider, what is
\* sealed is of an epoch there is.
THEOREM ServicesTypesHold == ServicesSpec => []ServicesTypeOK
<1>1. ServicesInit => Kinds
  BY DEF ServicesInit, Kinds
<1>2. Kinds /\ [ServicesNext]_<<service, accounts, pageVars, ledger, household, home>> => Kinds'
  BY DEF ServicesNext, Kinds
<1>3. /\ Kinds /\ CodesInv /\ AccountInv /\ IInv /\ VaultInv /\ ScrollInv /\ LedgerInv
      /\ GuestsInv /\ HouseholdInv /\ ImportInv /\ ThrottleInv /\ SheetsInv
      => ServicesTypeOK
  <2> SUFFICES ASSUME Kinds, AccountsOf!TypeOK, PagesTypeOK, LedgerOf!LedgerTypeOK,
                      InvitesOf!InvitesTypeOK, HomeOf!HomeTypeOK
               PROVE  ServicesTypeOK
    BY AccountsTyped, LedgerTyped, InvitesTyped, HomeTyped DEF IInv
  <2> QED
    BY DEF Kinds, ServicesTypeOK
<1> QED
  BY <1>1, <1>2, <1>3, AccountsAlways, PagesAlways, LedgerAlways, HouseholdAlways, HomeAlways, PTL
     DEF ServicesSpec

=============================================================================
