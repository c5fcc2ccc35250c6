-------------------------------- MODULE Home --------------------------------
(***************************************************************************)
(* Home: the plain household ledger (pkg/home): signing in to one account  *)
(* under a throttle that counts failures, and a ledger whose rows are      *)
(* entered by hand, changed, removed, and imported from a spreadsheet.     *)
(*                                                                         *)
(* Every statement of a sign-in is a step.  An import is a transaction     *)
(* under an advisory lock whose statements each see what is committed, and *)
(* entering a row by hand does not ask for that lock.  Settings, budgets,  *)
(* holdings and profiles are single statements and are left out, as are    *)
(* the categories and payers of entries, which are taken as valid.         *)
(***************************************************************************)
EXTENDS Integers, FiniteSets

CONSTANTS
    Callers,        \* clients of the account, with a request each
    MaxFailures,    \* loginFailures
    Windows,        \* bound: the windows of loginWindow, 1..n
    Rows,           \* what an import compares: day, type, category, amount, note
    MaxCopies,      \* bound: copies of a row in a file
    MaxByHand       \* bound: times a row is entered or changed to by hand

VARIABLES
    window,     \* the window the clock is in
    failures,   \* home_login_failures, per window
    guesses,    \* wrong passwords answered per window, since the last sign-in
    signedIn,   \* callers whose session is in home_sessions
    entries,    \* home_entries: how many of each row
    byHand,     \* rows entered or changed by hand so far
    sent,       \* the most copies of a row in a file sent so far
    request     \* what each caller's request is at

homeVars == <<window, failures, guesses, signedIn, entries, byHand, sent, request>>

\* A file names at least one row.
Sheets == {f \in [Rows -> 0..MaxCopies] : \E r \in Rows : f[r] > 0}

NoRows == [r \in Rows |-> 0]

\* window is the one a sign-in began in; file and held are an import's.
Request == [pc : {"idle", "compare", "record", "clear", "session", "match", "insert"},
            window : Windows, file : [Rows -> 0..MaxCopies], held : [Rows -> Nat]]

Nothing == [pc |-> "idle", window |-> 1, file |-> NoRows, held |-> NoRows]

HomeTypeOK ==
    /\ window \in Windows
    /\ failures \in [Windows -> Nat]
    /\ guesses \in [Windows -> Nat]
    /\ signedIn \subseteq Callers
    /\ entries \in [Rows -> Nat]
    /\ byHand \in [Rows -> 0..MaxByHand]
    /\ sent \in [Rows -> 0..MaxCopies]
    /\ request \in [Callers -> Request]

Init ==
    /\ window = 1
    /\ failures = [w \in Windows |-> 0]
    /\ guesses = [w \in Windows |-> 0]
    /\ signedIn = {}
    /\ entries = NoRows
    /\ byHand = NoRows
    /\ sent = NoRows
    /\ request = [c \in Callers |-> Nothing]

-----------------------------------------------------------------------------

At(c, pc) == request[c].pc = pc
To(c, r) == request' = [request EXCEPT ![c] = r]
Goes(c, pc) == To(c, [request[c] EXCEPT !.pc = pc])
Ends(c) == To(c, Nothing)

ledgerOf == <<entries, byHand, sent>>
loginOf == <<window, failures, guesses, signedIn>>

\* The next fifteen minutes.
NextWindow ==
    /\ window + 1 \in Windows
    /\ window' = window + 1
    /\ UNCHANGED <<failures, guesses, signedIn, ledgerOf, request>>

-----------------------------------------------------------------------------
(* login.                                                                  *)

\* Mutant: one failure more than the limit.
OneMoreTry(w) == failures[w] <= MaxFailures

Unthrottled(w) == failures[w] < MaxFailures

\* LoginFailures of the window of the clock.
BeginLogin(c) ==
    /\ At(c, "idle")
    /\ Unthrottled(window)
    /\ To(c, [Nothing EXCEPT !.pc = "compare", !.window = window])
    /\ UNCHANGED <<loginOf, ledgerOf>>

\* The hash is read and compared with the password.
Compare(c) ==
    /\ At(c, "compare")
    /\ \/ Goes(c, "record")
       \/ Goes(c, "clear")
    /\ UNCHANGED <<loginOf, ledgerOf>>

\* RecordLoginFailure, in the window the sign-in began in; then the answer.
RecordLoginFailure(c) ==
    /\ At(c, "record")
    /\ failures' = [failures EXCEPT ![request[c].window] = @ + 1]
    /\ guesses' = [guesses EXCEPT ![request[c].window] = @ + 1]
    /\ Ends(c)
    /\ UNCHANGED <<window, signedIn, ledgerOf>>

\* ClearLoginFailures, of every window.
ClearLoginFailures(c) ==
    /\ At(c, "clear")
    /\ failures' = [w \in Windows |-> 0]
    /\ guesses' = [w \in Windows |-> 0]
    /\ Goes(c, "session")
    /\ UNCHANGED <<window, signedIn, ledgerOf>>

CreateSession(c) ==
    /\ At(c, "session")
    /\ signedIn' = signedIn \cup {c}
    /\ Ends(c)
    /\ UNCHANGED <<window, failures, guesses, ledgerOf>>

\* logout, or the ninety days are over.
EndSession(c) ==
    /\ At(c, "idle")
    /\ c \in signedIn
    /\ signedIn' = signedIn \ {c}
    /\ UNCHANGED <<window, failures, guesses, ledgerOf, request>>

\* On the command line; a sign-in whose password was compared before it goes on.
SetPassword ==
    /\ signedIn # {}
    /\ signedIn' = {}
    /\ UNCHANGED <<window, failures, guesses, ledgerOf, request>>

-----------------------------------------------------------------------------
(* The ledger.                                                             *)

\* authenticate.
Authenticated(c) == At(c, "idle") /\ c \in signedIn

Enters(r) ==
    /\ byHand[r] < MaxByHand
    /\ byHand' = [byHand EXCEPT ![r] = @ + 1]

\* SaveEntry: a new row.
CreateEntry(c, r) ==
    /\ Authenticated(c)
    /\ Enters(r)
    /\ entries' = [entries EXCEPT ![r] = @ + 1]
    /\ UNCHANGED <<sent, loginOf, request>>

\* SaveEntry of a row that is there.
ReplaceEntry(c, old, r) ==
    /\ Authenticated(c)
    /\ old # r
    /\ entries[old] > 0
    /\ Enters(r)
    /\ entries' = [entries EXCEPT ![old] = @ - 1, ![r] = @ + 1]
    /\ UNCHANGED <<sent, loginOf, request>>

RemoveEntry(c, r) ==
    /\ Authenticated(c)
    /\ entries[r] > 0
    /\ entries' = [entries EXCEPT ![r] = @ - 1]
    /\ UNCHANGED <<byHand, sent, loginOf, request>>

\* Mutant: imports do not wait for each other.
Unserialised == TRUE

\* pg_advisory_xact_lock(7340102), held to the end of the transaction.
ImportLockFree == \A c \in Callers : ~At(c, "match") /\ ~At(c, "insert")

\* importEntries, up to the lock.
BeginImport(c, file) ==
    /\ Authenticated(c)
    /\ ImportLockFree
    /\ To(c, [Nothing EXCEPT !.pc = "match", !.file = file])
    /\ sent' = [r \in Rows |-> IF file[r] > sent[r] THEN file[r] ELSE sent[r]]
    /\ UNCHANGED <<loginOf, entries, byHand>>

\* The ledger's rows that are in the file.
MatchEntries(c) ==
    /\ At(c, "match")
    /\ To(c, [request[c] EXCEPT !.pc = "insert", !.held = entries])
    /\ UNCHANGED <<loginOf, ledgerOf>>

\* One for one, a row that is held is left out.
Missing(file, held) == [r \in Rows |-> IF file[r] > held[r] THEN file[r] - held[r] ELSE 0]

\* What is missing is inserted and committed; a dry run inserts nothing.
InsertMissing(c) ==
    /\ At(c, "insert")
    /\ \/ UNCHANGED entries
       \/ entries' = [r \in Rows |-> entries[r] + Missing(request[c].file, request[c].held)[r]]
    /\ Ends(c)
    /\ UNCHANGED <<byHand, sent, loginOf>>

\* A statement fails, a row of the file is invalid, or the server stops: what the
\* transaction did is undone, and what a sign-in did stays.
Fails(c) ==
    /\ ~At(c, "idle")
    /\ Ends(c)
    /\ UNCHANGED <<loginOf, ledgerOf>>

-----------------------------------------------------------------------------

Next ==
    \/ NextWindow
    \/ SetPassword
    \/ \E c \in Callers :
         \/ BeginLogin(c) \/ Compare(c) \/ RecordLoginFailure(c)
         \/ ClearLoginFailures(c) \/ CreateSession(c) \/ EndSession(c)
         \/ \E r \in Rows : CreateEntry(c, r) \/ RemoveEntry(c, r)
         \/ \E old, r \in Rows : ReplaceEntry(c, old, r)
         \/ \E file \in Sheets : BeginImport(c, file)
         \/ MatchEntries(c) \/ InsertMissing(c)
         \/ Fails(c)

Spec == Init /\ [][Next]_homeVars

-----------------------------------------------------------------------------
(* Properties.                                                             *)

\* Guessing is slowed down: between two successful sign-ins, a window answers
\* loginFailures wrong passwords, and what was being compared at that moment.
ThrottleHolds == \A w \in Windows : guesses[w] <= MaxFailures + Cardinality(Callers) - 1

\* A file that is sent twice, or by two people at once, is in the ledger once: but
\* for what was entered by hand, no row is there more often than in one of the files.
ImportOnce == \A r \in Rows : entries[r] <= sent[r] + byHand[r]
=============================================================================
