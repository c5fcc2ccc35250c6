------------------------------ MODULE Accounts ------------------------------
(***************************************************************************)
(* Accounts: mailed sign-in codes and the account of an address            *)
(* (pkg/store/email_codes.go, the two upserts of pkg/store/users.go, and   *)
(* handleEmailCode, userFromEmailCode and userFromIDToken of               *)
(* pkg/httpapi/auth.go), for one address and the purpose of signing in.    *)
(*                                                                         *)
(* A statement reads the rows that were there when it began, and changes   *)
(* what is left of them once the transactions that lock them are over: its *)
(* two halves are steps, and the second is the commit where the locks last *)
(* until then.  A row goes by its place in the order of created_at, which  *)
(* is when its transaction began.                                          *)
(***************************************************************************)
EXTENDS Integers, Sequences, FiniteSets, FiniteSetsExt

CONSTANTS
    Handlers,     \* requests in progress at a time
    Providers,
    MaxPerHour,   \* emailCodeMaxPerHour
    MaxAttempts,  \* emailCodeMaxAttempts
    MaxCodes      \* bound: codes ever begun

VARIABLES
    codes,    \* rows of email_codes, oldest first
    account,  \* the row of users: whether there is one, and the providers linked
    work      \* what each handler is at

vars == <<codes, account, work>>

\* The state "begun" is a row its transaction has not committed, and "void" one it
\* never will.  attempts is the column; guesses and signIns count what happened.
Code == [state : {"begun", "live", "consumed", "void"},
         age : {"fresh", "expired", "hour"},
         attempts : 0..MaxAttempts, guesses : 0..(MaxAttempts + 1), signIns : 0..2]

\* code is the row a handler is at, or the one whose digits it was given, 0 for
\* digits that are wrong; found are the rows its statement has seen.
Work == [pc : {"idle", "retire", "issue", "consume", "find", "insert",
               "subject", "link"},
         code : 0..MaxCodes, found : SUBSET (1..MaxCodes), by : Providers \cup {"email"}]

Idle == [pc |-> "idle", code |-> 0, found |-> {}, by |-> "email"]

TypeOK ==
    /\ codes \in Seq(Code)
    /\ Len(codes) <= MaxCodes
    /\ account \in [exists : BOOLEAN, linked : SUBSET Providers]
    /\ work \in [Handlers -> Work]

Init ==
    /\ codes = <<>>
    /\ account = [exists |-> FALSE, linked |-> {}]
    /\ work = [h \in Handlers |-> Idle]

-----------------------------------------------------------------------------

Live == {i \in DOMAIN codes : codes[i].state = "live"}
Stored == {i \in DOMAIN codes : codes[i].state \in {"live", "consumed"}}

\* Mutant: a code that was used no longer counts.
RecentUnused == {i \in Live : codes[i].age # "hour"}

\* The rows the count of the last hour finds.
Recent == {i \in Stored : codes[i].age # "hour"}

To(h, pc) == work' = [work EXCEPT ![h].pc = pc]
Done(h) == work' = [work EXCEPT ![h] = Idle]

-----------------------------------------------------------------------------
(* handleEmailCode and IssueEmailCode.                                     *)

\* The transaction begins and counts; a throttled one ends here.
CountCodes(h) ==
    /\ work[h].pc = "idle"
    /\ Len(codes) < MaxCodes
    /\ Cardinality(Recent) < MaxPerHour
    /\ codes' = Append(codes, [state |-> "begun", age |-> "fresh",
                               attempts |-> 0, guesses |-> 0, signIns |-> 0])
    /\ work' = [work EXCEPT ![h] = [Idle EXCEPT !.pc = "retire", !.code = Len(codes) + 1]]
    /\ UNCHANGED account

\* The UPDATE sees the codes that are live.
SeeCodes(h) ==
    /\ work[h].pc = "retire"
    /\ work' = [work EXCEPT ![h].pc = "issue", ![h].found = Live]
    /\ UNCHANGED <<codes, account>>

\* It consumes them, and the new row is inserted and committed; the rows a day past
\* their expiry are left in place.  A code whose mail fails is one nobody submits.
IssueCode(h) ==
    /\ work[h].pc = "issue"
    /\ codes' = [i \in DOMAIN codes |->
         IF i = work[h].code THEN [codes[i] EXCEPT !.state = "live"]
         ELSE IF i \in work[h].found \cap Live THEN [codes[i] EXCEPT !.state = "consumed"]
         ELSE codes[i]]
    /\ Done(h)
    /\ UNCHANGED account

\* A statement fails, or the server stops: nothing is committed.
AbortIssue(h) ==
    /\ work[h].pc \in {"retire", "issue"}
    /\ codes' = [codes EXCEPT ![work[h].code].state = "void"]
    /\ Done(h)
    /\ UNCHANGED account

-----------------------------------------------------------------------------
(* userFromEmailCode: ConsumeEmailCode, and UpsertUserByEmail.             *)

\* The SELECT ... FOR UPDATE begins.  The digits are those of a code that was
\* issued, or wrong.
SubmitCode(h, i) ==
    /\ work[h].pc = "idle"
    /\ i # 0 => i \in Recent
    /\ work' = [work EXCEPT ![h] = [Idle EXCEPT !.pc = "consume", !.code = i, !.found = Live]]
    /\ UNCHANGED <<codes, account>>

\* Mutant: the rows are read without FOR UPDATE.
OpenUnlocked(h) == work[h].found

\* A row that was consumed while the SELECT waited for its lock is passed over.
Open(h) == work[h].found \cap Live

\* Mutant: the count of a wrong guess is rolled back with the refusal.
WrongUncounted(c) == [c EXCEPT !.guesses = @ + 1]

WrongGuess(c) == [c EXCEPT !.attempts = @ + 1, !.guesses = @ + 1]

\* Mutant: the limit itself is let through.
ExhaustedLate(c) == c.attempts > MaxAttempts

Exhausted(c) == c.attempts >= MaxAttempts

\* The newest row is locked, judged, and let go with the commit.
ConsumeCode(h) ==
    /\ work[h].pc = "consume"
    /\ IF Open(h) = {} THEN Done(h) /\ UNCHANGED codes
       ELSE LET i == Max(Open(h)) IN
         \/ /\ codes[i].age # "fresh"
            /\ codes' = [codes EXCEPT ![i].state = "consumed"]
            /\ Done(h)
         \/ /\ codes[i].age = "fresh" /\ Exhausted(codes[i])
            /\ Done(h)
            /\ UNCHANGED codes
         \/ /\ codes[i].age = "fresh" /\ ~Exhausted(codes[i])
            /\ i # work[h].code
            /\ codes' = [codes EXCEPT ![i] = WrongGuess(@)]
            /\ Done(h)
         \/ /\ codes[i].age = "fresh" /\ ~Exhausted(codes[i])
            /\ i = work[h].code
            /\ codes' = [codes EXCEPT ![i].state = "consumed", ![i].signIns = @ + 1]
            /\ work' = [work EXCEPT ![h] = [Idle EXCEPT !.pc = "find"]]
    /\ UNCHANGED account

\* The account of the address is there, or is about to be inserted.
FindUser(h) ==
    /\ work[h].pc = "find"
    /\ IF account.exists THEN Done(h) ELSE To(h, "insert")
    /\ UNCHANGED <<codes, account>>

\* The account after the INSERT; the loser of a race reads the row of the winner.
Inserted(h) ==
    IF account.exists THEN account
    ELSE [exists |-> TRUE, linked |-> {work[h].by} \cap Providers]

InsertUser(h) ==
    /\ work[h].pc = "insert"
    /\ account' = Inserted(h)
    /\ Done(h)
    /\ UNCHANGED codes

-----------------------------------------------------------------------------
(* userFromIDToken: UpsertUserByProvider, of the person's one subject.     *)

\* By the subject.
FindSubject(h, p) ==
    /\ work[h].pc = "idle"
    /\ p \notin account.linked
    /\ work' = [work EXCEPT ![h] = [Idle EXCEPT !.pc = "link", !.by = p]]
    /\ UNCHANGED <<codes, account>>

\* By the address, linking the subject to an account that has none of p.
LinkSubject(h) ==
    /\ work[h].pc = "link"
    /\ IF account.exists /\ work[h].by \notin account.linked
         THEN /\ account' = [account EXCEPT !.linked = @ \cup {work[h].by}]
              /\ Done(h)
         ELSE /\ To(h, "insert")
              /\ UNCHANGED account
    /\ UNCHANGED codes

-----------------------------------------------------------------------------

\* Ten minutes, or an hour, since a code and all before it.
Ages(i, age) ==
    /\ codes[i].state \in {"live", "consumed"}
    /\ codes[i].age = IF age = "expired" THEN "fresh" ELSE "expired"
    /\ \A j \in 1..(i - 1) : codes[j].age \in {age, "hour"} \/ codes[j].state = "void"
    /\ codes' = [codes EXCEPT ![i].age = age]
    /\ UNCHANGED <<account, work>>

Next ==
    \/ \E h \in Handlers :
         \/ CountCodes(h) \/ SeeCodes(h) \/ IssueCode(h) \/ AbortIssue(h)
         \/ \E i \in {0} \cup DOMAIN codes : SubmitCode(h, i)
         \/ ConsumeCode(h) \/ FindUser(h) \/ InsertUser(h) \/ LinkSubject(h)
         \/ \E p \in Providers : FindSubject(h, p)
    \/ \E i \in DOMAIN codes, age \in {"expired", "hour"} : Ages(i, age)

Spec == Init /\ [][Next]_vars

-----------------------------------------------------------------------------
(* Properties.                                                             *)

\* One mail is one session: a code proves its address once, however many requests
\* submit it at the same time.
OneSignInPerCode == \A i \in DOMAIN codes : codes[i].signIns <= 1

\* Guesses that overlap are all counted: none is compared with a code once
\* emailCodeMaxAttempts of them were wrong.
GuessesBounded == \A i \in DOMAIN codes : codes[i].guesses <= MaxAttempts

\* An address is not flooded: the count is not under a lock, so handlers that count
\* together may each add a code, and no more than that.
FloodBounded ==
    Cardinality({i \in Stored : codes[i].age # "hour"}) <= MaxPerHour + Cardinality(Handlers) - 1
=============================================================================
