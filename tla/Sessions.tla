------------------------------ MODULE Sessions ------------------------------
(***************************************************************************)
(* Sessions: refresh tokens and the cookie that carries a session between  *)
(* the surfaces of a browser (pkg/store/tokens.go, pkg/httpapi/auth.go and *)
(* cookie.go).  A surface signs in, refreshes, continues a session it      *)
(* finds in the cookie jar, and logs out; answers are late or lost, a      *)
(* request is cut off between any two statements, time passes meanwhile.   *)
(*                                                                         *)
(* A statement of the store is a step, and so is the transaction of a      *)
(* rotation.  A revoking UPDATE is two: it revokes the rows that were      *)
(* there when it began, once the rotations that lock them are over.  Rows  *)
(* that nobody can present any more are dropped, so that their numbers can *)
(* be used again.  Expiry is left out: a token past its window is refused  *)
(* by the statement that refuses one of a revoked device.                  *)
(***************************************************************************)
EXTENDS Integers, FiniteSets

CONSTANTS
    Users,
    Surfaces,     \* an origin, or an installed app, with a keypair of its own
    Browsers,
    BrowserOf,    \* the browser of a surface, None for an installed app
    Devices,      \* bound: numbers of the rows of devices
    Numbers,      \* bound: numbers for the tokens of one kind, and their families
    MaxRequests,  \* bound: requests in progress
    MaxTrouble,   \* bound: losses, logouts, revocations and minutes gone by
    None

VARIABLES
    devices,    \* rows of devices, None when there is none
    rows,       \* rows of refresh_tokens, None when there is none
    sessions,   \* per surface: the device and the refresh token it holds, or None
    jar,        \* per browser: the value of os_session, or None
    requests,   \* requests in progress
    late,       \* whether a token outlived its time while somebody held it
    trouble     \* losses, logouts, revocations and minutes gone by so far

vars == <<devices, rows, sessions, jar, requests, late, trouble>>

\* A token goes by whose it is, a surface or a cookie jar, and a number.
Tokens == (Surfaces \cup Browsers) \X Numbers

\* surface is who has the private key of the row, None once it is discarded.
Device == [surface : Surfaces \cup {None}, owner : Users, status : {"active", "revoked"}]

\* used is used_at: NULL, within the last sixty seconds, or longer ago.
Row == [device : Devices, family : Numbers, used : {"no", "grace", "long"},
        revoked : BOOLEAN]

\* own and cookie are what the request presents, got and carried what it will
\* answer; seen are the rows its revoking statement has found.
Request == [kind : {"session", "refresh", "continue", "logout"},
            pc : {"look", "rotate", "replayed", "register", "issue",
                  "reload", "revoke", "drop", "answer", "refuse"},
            surface : Surfaces, user : Users \cup {None},
            device : Devices \cup {None},
            own : Tokens \cup {None}, cookie : Tokens \cup {None},
            got : Tokens \cup {None}, carried : Tokens \cup {None},
            seen : (SUBSET Tokens) \cup {None}]

\* Surfaces and cookie jars are different holders, None is no value of what it
\* marks as absent, and numbers begin at the bottom.
ASSUME SessionsAssumption ==
    /\ BrowserOf \in [Surfaces -> Browsers \cup {None}]
    /\ Surfaces \cap Browsers = {}
    /\ Numbers \subseteq Nat
    /\ \A n \in Numbers : 0..n \subseteq Numbers
    /\ MaxRequests \in Nat
    /\ MaxTrouble \in Nat
    /\ None \notin Users \cup Surfaces \cup Browsers \cup Devices \cup Device \cup Row
    /\ None \notin Tokens \cup [device : Devices, token : Tokens]

TypeOK ==
    /\ devices \in [Devices -> Device \cup {None}]
    /\ rows \in [Tokens -> Row \cup {None}]
    /\ sessions \in [Surfaces -> [device : Devices, token : Tokens] \cup {None}]
    /\ jar \in [Browsers -> Tokens \cup {None}]
    /\ requests \subseteq Request
    /\ late \in BOOLEAN
    /\ trouble \in 0..MaxTrouble

Init ==
    /\ devices = [d \in Devices |-> None]
    /\ rows = [t \in Tokens |-> None]
    /\ sessions = [s \in Surfaces |-> None]
    /\ jar = [b \in Browsers |-> None]
    /\ requests = {}
    /\ late = FALSE
    /\ trouble = 0

-----------------------------------------------------------------------------

\* What somebody can present or act on: a surface, a jar, a request.
Held(ss, j, rs) ==
    (    {ss[s].token : s \in {x \in Surfaces : ss[x] # None}}
    \cup {j[b] : b \in Browsers}
    \cup (UNION {{r.own, r.cookie, r.got, r.carried} : r \in rs})
    \cup (UNION {r.seen : r \in {q \in rs : q.seen # None}})) \ {None}

HeldNow == Held(sessions, jar, requests)

Live(d) == devices[d].status # "revoked"

Usable(t) ==
    /\ ~rows[t].revoked
    /\ rows[t].used # "long"
    /\ Live(rows[t].device)

\* The token a request is rotating.
TurnOf(r) == IF r.kind = "refresh" /\ r.got = None THEN r.own ELSE r.cookie

\* A request goes on as s; one that is about to answer is done with the cookie.
To(r, s) ==
    requests' = (requests \ {r}) \cup
        {IF s.pc \in {"answer", "refuse"} THEN [s EXCEPT !.cookie = None] ELSE s}

Some(S) == CHOOSE n \in S : TRUE

\* uuid.New(): a number nothing that is held has.
Free(x) == {n \in Numbers : <<x, n>> \notin HeldNow}
NewToken(x) == <<x, Some(Free(x))>>
FreeFamilies(x) ==
    {n \in Numbers : \A t \in Tokens : t[1] = x /\ rows[t] # None => rows[t].family # n}

Revoke(S) ==
    rows' = [t \in Tokens |-> IF t \in S THEN [rows[t] EXCEPT !.revoked = TRUE]
                                         ELSE rows[t]]

Unrevoked == {t \in Tokens : rows[t] # None /\ ~rows[t].revoked}
OfDevice(d) == {t \in Unrevoked : rows[t].device = d}
OfFamily(t) == {u \in Unrevoked : u[1] = t[1] /\ rows[u].family = rows[t].family}

-----------------------------------------------------------------------------
(* Clients send.                                                           *)

Cookie(s) == IF BrowserOf[s] = None THEN None ELSE jar[BrowserOf[s]]

Blank(s) ==
    [kind |-> "session", pc |-> "register", surface |-> s, user |-> None,
     device |-> None, own |-> None, cookie |-> Cookie(s), got |-> None,
     carried |-> None, seen |-> None]

Trouble ==
    /\ trouble < MaxTrouble
    /\ trouble' = trouble + 1

Send(r) ==
    /\ Cardinality(requests) < MaxRequests
    /\ requests' = requests \cup {r}

\* A surface waits for its request, or gives it up, before it asks again; giving
\* up cuts the request off.
Idle(s) == \A r \in requests : r.surface = s => r.kind = "logout"

\* POST /auth/session: somebody has proved to be u.
SendSession(s, u) ==
    /\ Idle(s)
    /\ sessions[s] = None
    /\ Send([Blank(s) EXCEPT !.user = u])
    /\ UNCHANGED <<devices, rows, sessions, jar, late, trouble>>

\* POST /auth/refresh, the first time or again.
SendRefresh(s) ==
    /\ Idle(s)
    /\ sessions[s] # None
    /\ Send([Blank(s) EXCEPT !.kind = "refresh", !.pc = "look",
               !.own = sessions[s].token, !.device = sessions[s].device])
    /\ UNCHANGED <<devices, rows, sessions, jar, late, trouble>>

\* POST /auth/continue, from a surface that has no session.
SendContinue(s) ==
    /\ Idle(s)
    /\ sessions[s] = None
    /\ Cookie(s) # None
    /\ Send([Blank(s) EXCEPT !.kind = "continue", !.pc = "look"])
    /\ UNCHANGED <<devices, rows, sessions, jar, late, trouble>>

\* POST /auth/logout, let through by requireAuth; the client discards its session
\* and its keys.
SendLogout(s) ==
    /\ sessions[s] # None
    /\ Live(sessions[s].device)
    /\ Trouble
    /\ Send([Blank(s) EXCEPT !.kind = "logout", !.pc = "revoke",
               !.device = sessions[s].device])
    /\ sessions' = [sessions EXCEPT ![s] = None]
    /\ devices' = [devices EXCEPT ![sessions[s].device].surface = None]
    /\ UNCHANGED <<rows, jar, late>>

-----------------------------------------------------------------------------
(* RotateRefreshToken, of the surface's own token or of the cookie's.      *)

\* Mutant: a cookie that cannot be rotated is left as it is.
UnrotatedLeft(r) ==
    IF TurnOf(r) = r.cookie /\ r.kind # "continue" THEN [r EXCEPT !.pc = "answer"]
    ELSE [r EXCEPT !.pc = "refuse"]

\* A rotation that fails is the end of a refresh or a continue; carrySession
\* starts a new family.
Unrotated(r) ==
    IF TurnOf(r) = r.cookie /\ r.kind # "continue" THEN [r EXCEPT !.pc = "issue"]
    ELSE [r EXCEPT !.pc = "refuse"]

\* The first statement, outside the transaction.
Look(r) ==
    /\ r.pc = "look"
    /\ LET t == TurnOf(r) IN
         IF ~Live(rows[t].device) THEN To(r, Unrotated(r))
         ELSE To(r, [r EXCEPT !.pc = "rotate"])
    /\ UNCHANGED <<devices, rows, sessions, jar, late, trouble>>

\* Mutant: a token is good for one rotation, whatever became of the answer.
ClaimedUnused(t) == ~rows[t].revoked /\ rows[t].used = "no"

\* The condition of the claim.
Claimed(t) == ~rows[t].revoked /\ rows[t].used # "long"

\* The transaction: the claim, and the successor in the family of the token.
Rotate(r) ==
    /\ r.pc = "rotate"
    /\ LET t == TurnOf(r)
           next == NewToken(t[1])
           spent == IF rows[t].used = "no" THEN "grace" ELSE rows[t].used IN
         \/ /\ ~Claimed(t)
            /\ To(r, [r EXCEPT !.pc = "replayed"])
            /\ UNCHANGED rows
         \/ /\ Claimed(t)
            /\ Free(t[1]) # {}
            /\ rows' = [rows EXCEPT ![t].used = spent,
                          ![next] = [rows[t] EXCEPT !.used = "no", !.revoked = FALSE]]
            /\ IF t = r.own THEN To(r, [r EXCEPT !.got = next, !.pc = "reload"])
               ELSE To(r, [r EXCEPT !.carried = next,
                             !.pc = IF r.kind = "continue" THEN "register" ELSE "answer"])
    /\ UNCHANGED <<devices, sessions, jar, late, trouble>>

\* revokeFamily, after the transaction: what is found of the family, then its end.
RevokeFamily(r) ==
    /\ r.pc = "replayed"
    /\ IF r.seen = None
         THEN /\ To(r, [r EXCEPT !.seen = OfFamily(TurnOf(r))])
              /\ UNCHANGED rows
         ELSE /\ Revoke(r.seen)
              /\ To(r, [Unrotated(r) EXCEPT !.seen = None])
    /\ UNCHANGED <<devices, sessions, jar, late, trouble>>

-----------------------------------------------------------------------------
(* The rest of the handlers.                                               *)

\* Mutant: a person has one device, whichever keys it was registered with.
RegisteredToAnybody(s, u) ==
    {d \in Devices : devices[d] # None /\ devices[d].owner = u /\ Live(d)}

\* The live row of this key and account.
Registered(s, u) ==
    {d \in Devices : /\ devices[d] # None
                     /\ devices[d].surface = s /\ devices[d].owner = u /\ Live(d)}

\* RegisterDevice: that row, or a new one.
Register(r) ==
    /\ r.pc = "register"
    /\ LET u == IF r.kind = "session" THEN r.user ELSE devices[rows[r.cookie].device].owner
           unknown == {d \in Devices : devices[d] = None}
           mine == Registered(r.surface, u)
       IN \E d \in IF mine # {} THEN mine ELSE {x \in unknown : x = Some(unknown)} :
            /\ devices' = [devices EXCEPT ![d] =
                 [surface |-> r.surface, owner |-> u, status |-> "active"]]
            /\ To(r, [r EXCEPT !.device = d, !.user = u, !.pc = "issue"])
    /\ UNCHANGED <<rows, sessions, jar, late, trouble>>

\* carrySession: rotate the cookie the request came with, whoever it names, or
\* issue a new one; nothing for an installed app.
Carry(r) ==
    IF BrowserOf[r.surface] = None THEN "answer"
    ELSE IF r.cookie = None THEN "issue" ELSE "look"

\* The device's own token, in a family of its own; or the cookie's, likewise.
Issue(r) ==
    /\ r.pc = "issue"
    /\ LET x == IF r.got = None THEN r.surface ELSE BrowserOf[r.surface] IN
         /\ Free(x) # {}
         /\ FreeFamilies(x) # {}
         /\ rows' = [rows EXCEPT ![NewToken(x)] =
              [device |-> r.device, family |-> Some(FreeFamilies(x)), used |-> "no",
               revoked |-> FALSE]]
         /\ IF r.got = None
              THEN To(r, [r EXCEPT !.got = NewToken(x),
                            !.pc = IF r.kind = "continue" THEN "answer" ELSE Carry(r)])
              ELSE To(r, [r EXCEPT !.carried = NewToken(x), !.pc = "answer"])
    /\ UNCHANGED <<devices, sessions, jar, late, trouble>>

\* LiveDevice, after the rotation of a refresh.
Reload(r) ==
    /\ r.pc = "reload"
    /\ To(r, [r EXCEPT !.pc = IF Live(r.device) THEN Carry(r) ELSE "refuse"])
    /\ UNCHANGED <<devices, rows, sessions, jar, late, trouble>>

\* handleAuthLogout: RevokeDeviceTokens, then RevokeTokenFamily of the cookie,
\* each finding its rows before it gets at them.
Logout(r) ==
    /\ r.pc \in {"revoke", "drop"}
    /\ LET found == IF r.pc = "revoke" THEN OfDevice(r.device) ELSE OfFamily(r.cookie)
           next == IF r.pc = "revoke" /\ r.cookie # None THEN "drop" ELSE "answer" IN
         IF r.seen = None
           THEN To(r, [r EXCEPT !.seen = found]) /\ UNCHANGED rows
           ELSE /\ Revoke(r.seen)
                /\ To(r, [r EXCEPT !.seen = None, !.pc = next])
    /\ UNCHANGED <<devices, sessions, jar, late, trouble>>

-----------------------------------------------------------------------------
(* Answers, losses and time.                                               *)

\* Place of n among S from the bottom.
Rank(n, S) == Cardinality({m \in S : m < n})

\* What t is called once only kept is left, and the family of a kept token.
Name(t, kept) ==
    IF t = None THEN None
    ELSE <<t[1], Rank(t[2], {u[2] : u \in {v \in kept : v[1] = t[1]}})>>
FamilyName(t, kept) ==
    Rank(rows[t].family, {rows[u].family : u \in {v \in kept : v[1] = t[1]}})

Renamed(r, kept) ==
    [r EXCEPT !.own = Name(@, kept), !.cookie = Name(@, kept),
              !.got = Name(@, kept), !.carried = Name(@, kept),
              !.seen = IF @ = None THEN None ELSE {Name(t, kept) : t \in @}]

\* The state once ss, j and rs are what is held: the other rows are dropped, and
\* what is left is numbered from the bottom.
Settle(ss, j, rs) ==
    LET kept == Held(ss, j, rs)
        known == {rows[t].device : t \in kept} \cup {r.device : r \in rs}
    IN
    /\ rows' = [t \in Tokens |->
         IF \E u \in kept : Name(u, kept) = t
           THEN LET u == CHOOSE u \in kept : Name(u, kept) = t IN
                [rows[u] EXCEPT !.family = FamilyName(u, kept)]
           ELSE None]
    /\ sessions' = [s \in Surfaces |->
         IF ss[s] = None THEN None ELSE [ss[s] EXCEPT !.token = Name(@, kept)]]
    /\ jar' = [b \in Browsers |-> Name(j[b], kept)]
    /\ requests' = {Renamed(r, kept) : r \in rs}
    /\ devices' = [d \in Devices |->
         IF devices[d] # None /\ devices[d].surface = None /\ d \notin known
           THEN None ELSE devices[d]]

\* What the answer leaves in the jar: carrySession and a continue write their
\* token, a logout and a continue that was refused clear the cookie.
NewCookie(r) ==
    IF r.carried # None /\ r.pc = "answer" THEN r.carried
    ELSE IF r.kind = "logout" \/ (r.kind = "continue" /\ r.pc = "refuse") THEN None
    ELSE jar[BrowserOf[r.surface]]

\* Mutant: a refusal is taken for a session.
RefusalTaken(r) ==
    LET s == r.surface
        took == [device |-> r.device, token |-> r.got] IN
    IF r.kind # "refresh" /\ sessions[s] = None THEN took ELSE sessions[s]

\* The client takes a session when it has none, and a successor of the token
\* it still holds; a refusal of that token signs it out.
NewSession(r) ==
    LET s == r.surface
        took == [device |-> r.device, token |-> r.got] IN
    CASE r.kind = "refresh" ->
           IF sessions[s] = None \/ sessions[s].token # r.own THEN sessions[s]
           ELSE IF r.pc = "answer" THEN took ELSE None
      [] r.kind \in {"session", "continue"} ->
           IF r.pc = "answer" /\ sessions[s] = None THEN took ELSE sessions[s]
      [] r.kind = "logout" -> sessions[s]

Answer(r) ==
    /\ r.pc \in {"answer", "refuse"}
    /\ LET b == BrowserOf[r.surface] IN
       Settle([sessions EXCEPT ![r.surface] = NewSession(r)],
              IF b = None THEN jar ELSE [jar EXCEPT ![b] = NewCookie(r)],
              requests \ {r})
    /\ UNCHANGED <<late, trouble>>

\* The answer is lost, or the request is cut off and what it has not committed
\* is rolled back.
Lose(r) ==
    /\ Trouble
    /\ Settle(sessions, jar, requests \ {r})
    /\ UNCHANGED late

\* Sixty seconds since the first use of a token.
GraceEnds(t) ==
    /\ Trouble
    /\ rows[t] # None
    /\ rows[t].used = "grace"
    /\ rows' = [rows EXCEPT ![t].used = "long"]
    /\ late' = (late \/ t \in HeldNow)
    /\ UNCHANGED <<devices, sessions, jar, requests>>

\* RevokeDevice: a rotation for the device updates the row of the device last, so
\* it is over before this transaction begins, or one of the two is aborted.
RevokeDevice(d) ==
    /\ Trouble
    /\ devices[d] # None
    /\ Live(d)
    /\ devices' = [devices EXCEPT ![d].status = "revoked"]
    /\ Revoke(OfDevice(d))
    /\ UNCHANGED <<sessions, jar, requests, late>>

-----------------------------------------------------------------------------

Serve(r) ==
    \/ Look(r) \/ Rotate(r) \/ RevokeFamily(r)
    \/ Register(r) \/ Issue(r) \/ Reload(r) \/ Logout(r)

Next ==
    \/ \E s \in Surfaces :
         \/ \E u \in Users : SendSession(s, u)
         \/ SendRefresh(s) \/ SendContinue(s) \/ SendLogout(s)
    \/ \E r \in requests : Serve(r) \/ Answer(r) \/ Lose(r)
    \/ \E t \in Tokens : GraceEnds(t)
    \/ \E d \in Devices : RevokeDevice(d)

Spec == Init /\ [][Next]_vars

\* A surface that is signed in asks for a refresh again and again, and the server
\* ends every request it is sent.
Fairness ==
    \A s \in Surfaces :
        /\ SF_vars(SendRefresh(s))
        /\ []<>(\A r \in requests : r.surface # s)

FairSpec == Spec /\ Fairness

-----------------------------------------------------------------------------
(* Properties.                                                             *)

\* A client that asks again in time is never signed out, whatever answers are
\* lost and however its requests overlap: what a surface holds stays good, and no
\* refresh of it is refused, as long as its device is live, unless a token outlived
\* its time in somebody's hands.
PromptClientsStayIn ==
    \A s \in Surfaces :
        sessions[s] # None /\ Live(sessions[s].device) /\ ~late =>
            /\ Usable(sessions[s].token)
            /\ \A r \in requests :
                 r.surface = s /\ r.kind = "refresh" => r.pc # "refuse"

\* A session is of the surface's own device, whose private key it has: whoever signs
\* in, continues and rotates beside it, the token it holds is never one of another
\* surface's device, nor its device registered to another.
OwnSession ==
    \A s \in Surfaces : sessions[s] # None =>
        /\ devices[sessions[s].device].surface = s
        /\ rows[sessions[s].token].device = sessions[s].device

\* The cookie heals: a browser that somebody is signed in on does not go on with
\* no cookie, or with one that is revoked or spent.
SignedIn(b) == \E s \in Surfaces : BrowserOf[s] = b /\ sessions[s] # None

CookieHeals ==
    \A b \in Browsers :
        SignedIn(b) ~> (~SignedIn(b) \/ (jar[b] # None /\ Usable(jar[b])))

=============================================================================
