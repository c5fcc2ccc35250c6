---------------------------- MODULE SessionsProofs ----------------------------
(***************************************************************************)
(* That a client which asks again in time is never signed out, for any     *)
(* number of surfaces, browsers, devices, tokens, requests and troubles.   *)
(***************************************************************************)
EXTENDS Sessions, FiniteSetTheorems, TLAPS

-----------------------------------------------------------------------------
(* The inductive invariant.                                                *)

\* What may end the sessions of a device: its revocation, the logout of its
\* surface, a token that outlived its time.
Excused(d) == late \/ ~Live(d) \/ devices[d].surface = None

\* Every row names a device; a surface's token is revoked for a reason.
RowsSound ==
    \A t \in Tokens : rows[t] # None =>
        /\ devices[rows[t].device] # None
        /\ t[1] \in Surfaces /\ rows[t].revoked => Excused(rows[t].device)

\* A family of a surface's tokens is of one device: the end of a family never
\* reaches another.
FamiliesApart ==
    \A t, u \in Tokens :
        /\ rows[t] # None /\ rows[u] # None
        /\ t[1] \in Surfaces /\ u[1] = t[1] /\ rows[u].family = rows[t].family
        => rows[u].device = rows[t].device

\* t is a token of surface s for device d that s can go on with.
Serves(t, s, d) ==
    /\ t[1] = s
    /\ rows[t] # None
    /\ rows[t].device = d
    /\ rows[t].used = "long" => late

\* t is a token in the hands of browser b.
Carried(t, b) == t[1] = b /\ rows[t] # None

SessionsSound(ss) ==
    \A s \in Surfaces : ss[s] # None =>
        /\ Serves(ss[s].token, s, ss[s].device)
        /\ devices[ss[s].device].surface = s

JarSound(j) == \A b \in Browsers : j[b] # None => Carried(j[b], b)

TokensSound(r) ==
    /\ r.device # None => devices[r.device] # None
    /\ r.own # None => Serves(r.own, r.surface, r.device)
    /\ r.got # None => Serves(r.got, r.surface, r.device)
    /\ r.cookie # None => Carried(r.cookie, BrowserOf[r.surface])
    /\ r.carried # None => Carried(r.carried, BrowserOf[r.surface])
    /\ r.seen # None => \A t \in r.seen :
         /\ rows[t] # None
         /\ t[1] \in Surfaces => Excused(rows[t].device)

\* What a request has by the time it is where it is.
StageSound(r) ==
    /\ r.pc \in {"look", "rotate", "replayed"} =>
         (r.kind = "refresh" /\ r.got = None) \/ r.cookie # None
    /\ r.pc \in {"issue", "reload", "answer"} => r.device # None
    /\ r.pc = "issue" /\ r.got # None => BrowserOf[r.surface] # None
    /\ r.kind # "logout" /\ r.pc = "answer" => r.got # None
    /\ r.pc \in {"revoke", "drop"} => r.kind = "logout"
    /\ r.pc \in {"reload", "replayed"} => r.kind # "logout"

\* A refresh is of the session its surface has, unless that has ended.
RefreshSound(r, ss) ==
    r.kind = "refresh" =>
        /\ r.own # None /\ r.device # None
        /\ ss[r.surface] # None => ss[r.surface].device = r.device
        /\ r.pc # "register"
        /\ r.pc \in {"reload", "issue"} => r.got # None
        /\ r.pc = "refuse" \/ (r.pc = "replayed" /\ r.got = None) => Excused(r.device)

\* A surface that signs in has no session yet, and the device it gets is its own.
SignInSound(r, ss) ==
    r.kind \in {"session", "continue"} =>
        /\ ss[r.surface] = None
        /\ r.own = None
        /\ r.device # None => devices[r.device].surface = r.surface
        /\ r.kind = "session" => r.user # None
        /\ r.kind = "session" /\ r.pc \in {"look", "rotate", "replayed"} => r.got # None
        /\ r.kind = "continue" => r.got = None \/ r.pc \in {"answer", "refuse"}
        /\ r.kind = "continue" /\ r.pc = "register" => r.cookie # None
        /\ r.got # None => r.device # None
        /\ r.pc = "register" => r.got = None
        /\ r.pc # "reload"

\* A logout is of a device whose keys are gone.
LogoutSound(r) ==
    r.kind = "logout" =>
        /\ r.device # None /\ devices[r.device].surface = None
        /\ r.own = None
        /\ r.pc \in {"revoke", "drop", "answer"}
        /\ r.pc = "drop" => r.cookie # None

RequestSound(r, ss) ==
    TokensSound(r) /\ StageSound(r) /\ RefreshSound(r, ss) /\ SignInSound(r, ss) /\ LogoutSound(r)

RequestsSound(rs, ss) == \A r \in rs : RequestSound(r, ss)

\* A surface waits for one request at a time.
OneAtATime(rs) ==
    \A r, q \in rs :
        r.kind # "logout" /\ q.kind # "logout" /\ r.surface = q.surface => r = q

IInv ==
    /\ TypeOK
    /\ RowsSound
    /\ FamiliesApart
    /\ SessionsSound(sessions)
    /\ JarSound(jar)
    /\ RequestsSound(requests, sessions)
    /\ OneAtATime(requests)

-----------------------------------------------------------------------------
(* Numbering from the bottom.                                              *)

\* The place of a number among numbers is one of the numbers up to it.
LEMMA RankType ==
    ASSUME NEW S, S \subseteq Numbers, NEW n \in S
    PROVE  Rank(n, S) \in 0..n /\ Rank(n, S) \in Numbers /\ IsFiniteSet({m \in S : m < n})
<1>1. n \in Nat /\ 0..n \subseteq Numbers /\ S \subseteq Nat
  BY SessionsAssumption
<1>2. IsFiniteSet(0..n-1) /\ Cardinality(0..n-1) = n
  <2>1. 0 \in Int /\ n-1 \in Int /\ ~(0 > n-1 /\ n # 0) /\ (n-1)-0+1 = n
    BY <1>1
  <2>2. /\ IsFiniteSet(0..n-1)
        /\ Cardinality(0..n-1) = IF 0 > n-1 THEN 0 ELSE (n-1)-0+1
    BY <2>1, FS_Interval
  <2> QED
    BY <1>1, <2>1, <2>2
<1>3. {m \in S : m < n} \in SUBSET (0..n-1)
  <2>1. \A m \in S : m < n => m \in 0..n-1
    BY <1>1
  <2> QED
    BY <2>1
<1>4. /\ IsFiniteSet({m \in S : m < n})
      /\ Cardinality({m \in S : m < n}) <= n
  BY <1>2, <1>3, FS_Subset
<1>5. Cardinality({m \in S : m < n}) \in Nat
  BY <1>4, FS_CardinalityType
<1> QED
  BY <1>1, <1>4, <1>5 DEF Rank

\* Different numbers have different places.
LEMMA RankApart ==
    ASSUME NEW S, S \subseteq Numbers, NEW m \in S, NEW n \in S, Rank(m, S) = Rank(n, S)
    PROVE  m = n
<1>1. m \in Nat /\ n \in Nat /\ S \subseteq Nat
  BY SessionsAssumption
<1>2. ASSUME NEW a \in S, NEW b \in S, a < b
      PROVE  Rank(a, S) # Rank(b, S)
  <2>1. IsFiniteSet({x \in S : x < b})
    BY RankType
  <2>2. {x \in S : x < a} \in SUBSET {x \in S : x < b}
    <3>1. \A x \in S : x < a => x < b
      BY <1>1, <1>2
    <3> QED
      BY <3>1
  <2>3. a \in {x \in S : x < b} /\ a \notin {x \in S : x < a}
    BY <1>1, <1>2
  <2> QED
    BY <2>1, <2>2, <2>3, FS_Subset DEF Rank
<1> QED
  BY <1>1, <1>2

\* Kept tokens go by a name of their own, of the same holder.
LEMMA NameType ==
    ASSUME NEW kept, kept \subseteq Tokens, NEW t \in kept
    PROVE  Name(t, kept) \in Tokens /\ Name(t, kept)[1] = t[1] /\ Name(t, kept) # None
<1> DEFINE S == {u[2] : u \in {v \in kept : v[1] = t[1]}}
<1>1. t \in Tokens /\ t # None
  BY SessionsAssumption
<1>2. S \subseteq Numbers /\ t[2] \in S
  BY DEF Tokens
<1>3. Rank(t[2], S) \in Numbers
  BY <1>2, RankType
<1>4. Name(t, kept) = <<t[1], Rank(t[2], S)>>
  BY <1>1 DEF Name
<1> HIDE DEF S
<1>5. Name(t, kept) \in Tokens
  BY <1>1, <1>3, <1>4 DEF Tokens
<1> QED
  BY <1>4, <1>5, SessionsAssumption

LEMMA NameApart ==
    ASSUME NEW kept, kept \subseteq Tokens, NEW t \in kept, NEW u \in kept,
           Name(t, kept) = Name(u, kept)
    PROVE  t = u
<1> DEFINE S(x) == {y[2] : y \in {v \in kept : v[1] = x}}
<1>1. t \in Tokens /\ u \in Tokens /\ t # None /\ u # None
  BY SessionsAssumption
<1>2. /\ Name(t, kept) = <<t[1], Rank(t[2], S(t[1]))>>
      /\ Name(u, kept) = <<u[1], Rank(u[2], S(u[1]))>>
  BY <1>1 DEF Name
<1>3. S(t[1]) \subseteq Numbers /\ t[2] \in S(t[1]) /\ u[2] \in S(u[1])
  BY DEF Tokens
<1> HIDE DEF S
<1>4. t[1] = u[1] /\ Rank(t[2], S(t[1])) = Rank(u[2], S(u[1]))
  <2>1. \A a, b, c, d : <<a, b>> = <<c, d>> => a = c /\ b = d
    OBVIOUS
  <2>2. <<t[1], Rank(t[2], S(t[1]))>> = <<u[1], Rank(u[2], S(u[1]))>>
    BY <1>2
  <2> QED
    BY <2>1, <2>2, Zenon
<1>5. t[2] = u[2]
  <2>1. Rank(t[2], S(t[1])) = Rank(u[2], S(t[1])) /\ u[2] \in S(t[1])
    BY <1>3, <1>4
  <2> QED
    BY <1>3, <2>1, RankApart
<1> QED
  BY <1>1, <1>4, <1>5 DEF Tokens

\* Families keep apart under their new names.
LEMMA FamilyNameApart ==
    ASSUME TypeOK, NEW kept, kept \subseteq Tokens, \A v \in kept : rows[v] # None,
           NEW t \in kept
    PROVE  /\ FamilyName(t, kept) \in Numbers
           /\ \A u \in kept : u[1] = t[1] /\ FamilyName(u, kept) = FamilyName(t, kept)
                => rows[u].family = rows[t].family
<1> DEFINE S(x) == {rows[y].family : y \in {v \in kept : v[1] = x}}
<1>1. \A v \in kept : rows[v].family \in Numbers
  BY DEF TypeOK, Row
<1>2. /\ FamilyName(t, kept) = Rank(rows[t].family, S(t[1]))
      /\ \A u \in kept : FamilyName(u, kept) = Rank(rows[u].family, S(u[1]))
  BY DEF FamilyName
<1>3. S(t[1]) \subseteq Numbers /\ \A u \in kept : rows[u].family \in S(u[1])
  BY <1>1
<1>4. rows[t].family \in S(t[1])
  BY <1>3
<1> HIDE DEF S
<1>5. FamilyName(t, kept) \in Numbers
  BY <1>2, <1>3, <1>4, RankType
<1>6. ASSUME NEW u \in kept, u[1] = t[1], FamilyName(u, kept) = FamilyName(t, kept)
      PROVE  rows[u].family = rows[t].family
  <2>1. /\ Rank(rows[u].family, S(t[1])) = Rank(rows[t].family, S(t[1]))
        /\ rows[u].family \in S(t[1])
    BY <1>2, <1>3, <1>6
  <2> QED
    BY <1>3, <1>4, <2>1, RankApart
<1> QED
  BY <1>5, <1>6

-----------------------------------------------------------------------------
(* What a step leaves to the requests it does not serve.                   *)

\* The row of t lives on as the row of u.
Follows(t, u) ==
    /\ u[1] = t[1]
    /\ rows'[u] # None
    /\ rows'[u].device = rows[t].device
    /\ rows'[u].used = "long" => rows[t].used = "long" \/ late'

ExcusedNext(d) == late' \/ devices'[d].status = "revoked" \/ devices'[d].surface = None

\* Device d is still there; nothing that excused it is undone.
DeviceLives(d) ==
    /\ devices'[d] # None
    /\ devices[d].surface = None => devices'[d].surface = None
    /\ Excused(d) => ExcusedNext(d)

\* And its surface has its keys, if it had.
DeviceKept(d) == DeviceLives(d) /\ devices'[d].surface = devices[d].surface

BecomesToken(t, u) == (t = None <=> u = None) /\ (t # None => Follows(t, u))

\* p is request r after the step.
Becomes(r, p) ==
    /\ p.kind = r.kind /\ p.pc = r.pc /\ p.surface = r.surface
    /\ p.user = r.user /\ p.device = r.device
    /\ BecomesToken(r.own, p.own) /\ BecomesToken(r.cookie, p.cookie)
    /\ BecomesToken(r.got, p.got) /\ BecomesToken(r.carried, p.carried)
    /\ p.seen # None =>
         /\ r.seen # None
         /\ \A u \in p.seen : \E t \in r.seen : Follows(t, u) /\ DeviceLives(rows[t].device)
    /\ r.device # None => DeviceLives(r.device)
    /\ r.kind \in {"session", "continue"} /\ r.device # None => DeviceKept(r.device)

LEMMA TokensKept ==
    ASSUME NEW r, TokensSound(r), NEW p, Becomes(r, p), late => late'
    PROVE  TokensSound(p)'
<1>1. p.device # None => devices'[p.device] # None
  BY DEF Becomes, DeviceKept, DeviceLives
<1>2. ASSUME NEW t, NEW u, NEW x, NEW d, Serves(t, x, d), Follows(t, u)
      PROVE  Serves(u, x, d)'
  BY <1>2 DEF Serves, Follows
<1>3. ASSUME NEW t, NEW u, NEW b, Carried(t, b), Follows(t, u)
      PROVE  Carried(u, b)'
  BY <1>3 DEF Carried, Follows
<1>4. /\ p.own # None => Serves(p.own, p.surface, p.device)'
      /\ p.got # None => Serves(p.got, p.surface, p.device)'
  BY <1>2 DEF TokensSound, Becomes, BecomesToken
<1>5. /\ p.cookie # None => Carried(p.cookie, BrowserOf[p.surface])'
      /\ p.carried # None => Carried(p.carried, BrowserOf[p.surface])'
  BY <1>3 DEF TokensSound, Becomes, BecomesToken
<1>6. ASSUME p.seen # None, NEW u \in p.seen
      PROVE  rows'[u] # None /\ (u[1] \in Surfaces => Excused(rows[u].device)')
  <2>1. PICK t \in r.seen : Follows(t, u) /\ DeviceLives(rows[t].device)
    BY <1>6 DEF Becomes
  <2>2. rows[t] # None /\ (t[1] \in Surfaces => Excused(rows[t].device))
    BY <1>6 DEF TokensSound, Becomes
  <2>3. rows'[u] # None /\ u[1] = t[1] /\ rows'[u].device = rows[t].device
    BY <2>1 DEF Follows
  <2>4. t[1] \in Surfaces => ExcusedNext(rows[t].device)
    BY <2>1, <2>2 DEF DeviceKept, DeviceLives
  <2> QED
    BY <2>3, <2>4 DEF Excused, ExcusedNext, Live
<1> QED
  BY <1>1, <1>4, <1>5, <1>6 DEF TokensSound

LEMMA RequestKept ==
    ASSUME NEW r, NEW ss, RequestSound(r, ss), NEW p, Becomes(r, p), late => late',
           ss[r.surface] = None => sessions'[r.surface] = None,
           sessions'[r.surface] # None => sessions'[r.surface].device = ss[r.surface].device
    PROVE  RequestSound(p, sessions)'
<1>1. TokensSound(p)'
  BY TokensKept DEF RequestSound
<1>2. StageSound(p)'
  BY DEF RequestSound, StageSound, Becomes, BecomesToken
<1>3. RefreshSound(p, sessions)'
  BY DEF RequestSound, RefreshSound, Becomes, BecomesToken, DeviceKept, DeviceLives, Excused,
         ExcusedNext, Live
<1>4. SignInSound(p, sessions)'
  BY DEF RequestSound, SignInSound, Becomes, BecomesToken, DeviceKept, DeviceLives
<1>5. LogoutSound(p)'
  BY DEF RequestSound, LogoutSound, Becomes, BecomesToken, DeviceKept, DeviceLives
<1> QED
  BY <1>1, <1>2, <1>3, <1>4, <1>5 DEF RequestSound

\* What is held is what anybody has, and all of it is tokens.
LEMMA HeldBy ==
    ASSUME NEW ss, NEW j, NEW rs, NEW t
    PROVE  t \in Held(ss, j, rs) <=>
             /\ t # None
             /\ \/ \E s \in Surfaces : ss[s] # None /\ t = ss[s].token
                \/ \E b \in Browsers : t = j[b]
                \/ \E r \in rs : t \in {r.own, r.cookie, r.got, r.carried}
                \/ \E r \in rs : r.seen # None /\ t \in r.seen
<1> DEFINE A == {ss[s].token : s \in {x \in Surfaces : ss[x] # None}}
           B == {j[b] : b \in Browsers}
           C == UNION {{r.own, r.cookie, r.got, r.carried} : r \in rs}
           D == UNION {r.seen : r \in {q \in rs : q.seen # None}}
<1>1. t \in A <=> \E s \in Surfaces : ss[s] # None /\ t = ss[s].token
  OBVIOUS
<1>2. t \in B <=> \E b \in Browsers : t = j[b]
  OBVIOUS
<1>3. t \in C <=> \E r \in rs : t \in {r.own, r.cookie, r.got, r.carried}
  BY Zenon
<1>4. t \in D <=> \E r \in rs : r.seen # None /\ t \in r.seen
  BY Zenon
<1>6. t \in Held(ss, j, rs) <=> t # None /\ (t \in A \/ t \in B \/ t \in C \/ t \in D)
  BY Zenon DEF Held
<1> QED
  BY <1>1, <1>2, <1>3, <1>4, <1>6, Zenon

LEMMA HeldTokens ==
    ASSUME NEW ss \in [Surfaces -> [device : Devices, token : Tokens] \cup {None}],
           NEW j \in [Browsers -> Tokens \cup {None}],
           NEW rs \in SUBSET Request
    PROVE  /\ Held(ss, j, rs) \subseteq Tokens
           /\ \A s \in Surfaces : ss[s] # None => ss[s].token \in Held(ss, j, rs)
           /\ \A b \in Browsers : j[b] # None => j[b] \in Held(ss, j, rs)
           /\ \A r \in rs :
                /\ \A t \in {r.own, r.cookie, r.got, r.carried} :
                     t # None => t \in Held(ss, j, rs)
                /\ r.seen # None => r.seen \subseteq Held(ss, j, rs)
<1>1. \A s \in Surfaces : ss[s] # None => ss[s].token \in Tokens
  OBVIOUS
<1>2. \A b \in Browsers : j[b] \in Tokens \cup {None}
  OBVIOUS
<1>3. \A r \in rs : /\ {r.own, r.cookie, r.got, r.carried} \subseteq Tokens \cup {None}
                    /\ r.seen # None => r.seen \subseteq Tokens
  BY DEF Request
<1>4. None \notin Tokens
  BY SessionsAssumption
<1>5. ASSUME NEW t \in Held(ss, j, rs)
      PROVE  t \in Tokens
  BY <1>1, <1>2, <1>3, HeldBy
<1>6. \A s \in Surfaces : ss[s] # None => ss[s].token \in Held(ss, j, rs)
  BY <1>1, <1>4, HeldBy
<1>7. \A b \in Browsers : j[b] # None => j[b] \in Held(ss, j, rs)
  BY HeldBy
<1>8. ASSUME NEW r \in rs
      PROVE  /\ \A t \in {r.own, r.cookie, r.got, r.carried} :
                  t # None => t \in Held(ss, j, rs)
             /\ r.seen # None => r.seen \subseteq Held(ss, j, rs)
  <2>1. \A t \in {r.own, r.cookie, r.got, r.carried} : t # None => t \in Held(ss, j, rs)
    BY HeldBy
  <2>2. r.seen # None => \A t \in r.seen : t \in Held(ss, j, rs)
    BY <1>3, <1>4, HeldBy
  <2> QED
    BY <2>1, <2>2
<1> QED
  BY <1>5, <1>6, <1>7, <1>8

\* A step that takes nothing from what is held.
WorldKept ==
    /\ late => late'
    /\ \A t \in HeldNow : Follows(t, t)
    /\ \A d \in Devices : devices[d] # None => DeviceKept(d)

\* s is r somewhere else in its handler, with the same tokens.
Goes(r, s) ==
    /\ s \in Request
    /\ s.kind = r.kind /\ s.surface = r.surface /\ s.user = r.user /\ s.device = r.device
    /\ s.own = r.own /\ s.cookie = r.cookie /\ s.got = r.got /\ s.carried = r.carried

LEMMA GoesKept ==
    ASSUME IInv, WorldKept, sessions' = sessions,
           NEW r \in requests, NEW s, Goes(r, s), s.seen \in {None, r.seen},
           RequestSound(s, sessions)
    PROVE  RequestSound(s, sessions)'
<1>1. /\ \A t \in {r.own, r.cookie, r.got, r.carried} : t # None => t \in HeldNow
      /\ r.seen # None => r.seen \subseteq HeldNow
      /\ HeldNow \subseteq Tokens
  BY HeldTokens DEF IInv, TypeOK, HeldNow
<1>2. \A t \in Tokens : rows[t] # None => rows[t].device \in Devices /\ devices[rows[t].device] # None
  BY DEF IInv, TypeOK, RowsSound, Row
<1>3. /\ BecomesToken(s.own, s.own) /\ BecomesToken(s.cookie, s.cookie)
      /\ BecomesToken(s.got, s.got) /\ BecomesToken(s.carried, s.carried)
  BY <1>1 DEF BecomesToken, WorldKept, Goes
<1>4. ASSUME s.seen # None, NEW t \in s.seen
      PROVE  Follows(t, t) /\ DeviceKept(rows[t].device)
  BY <1>1, <1>2, <1>4 DEF WorldKept, RequestSound, TokensSound
<1>5. s.device # None => DeviceKept(s.device)
  BY DEF Goes, Request, RequestSound, TokensSound, WorldKept
<1>6. Becomes(s, s)
  BY <1>3, <1>4, <1>5 DEF Becomes, DeviceKept
<1> QED
  BY <1>6, RequestKept DEF WorldKept

LEMMA OthersKept ==
    ASSUME IInv, WorldKept, sessions' = sessions, jar' = jar
    PROVE  /\ SessionsSound(sessions)'
           /\ JarSound(jar)'
           /\ \A r \in requests : RequestSound(r, sessions)'
<1>1. /\ \A s \in Surfaces : sessions[s] # None => sessions[s].token \in HeldNow
      /\ \A b \in Browsers : jar[b] # None => jar[b] \in HeldNow
  BY HeldTokens DEF IInv, TypeOK, HeldNow
<1>2. HeldNow \subseteq Tokens
  BY HeldTokens DEF IInv, TypeOK, HeldNow
<1>3. \A t \in Tokens : rows[t] # None => rows[t].device \in Devices /\ devices[rows[t].device] # None
  BY DEF IInv, TypeOK, RowsSound, Row
<1>4. ASSUME NEW s \in Surfaces, sessions[s] # None
      PROVE  /\ Serves(sessions[s].token, s, sessions[s].device)'
             /\ devices'[sessions[s].device].surface = s
  <2>1. /\ Serves(sessions[s].token, s, sessions[s].device)
        /\ devices[sessions[s].device].surface = s
        /\ sessions[s].token \in HeldNow /\ sessions[s].token \in Tokens
    BY <1>1, <1>2, <1>4 DEF IInv, SessionsSound
  <2>2. Follows(sessions[s].token, sessions[s].token) /\ DeviceKept(sessions[s].device)
    BY <1>3, <2>1 DEF WorldKept, Serves
  <2> QED
    BY <2>1, <2>2 DEF Serves, Follows, DeviceKept, DeviceLives, WorldKept
<1>5. ASSUME NEW b \in Browsers, jar[b] # None
      PROVE  Carried(jar[b], b)'
  BY <1>1, <1>5 DEF IInv, JarSound, Carried, WorldKept, Follows
<1>6. ASSUME NEW r \in requests
      PROVE  RequestSound(r, sessions)'
  <2>1. RequestSound(r, sessions) /\ Goes(r, r)
    BY DEF IInv, TypeOK, RequestsSound, Goes
  <2> QED
    BY <2>1, GoesKept
<1> QED
  BY <1>4, <1>5, <1>6 DEF SessionsSound, JarSound

-----------------------------------------------------------------------------
(* One request goes on.                                                    *)

Done(s) == IF s.pc \in {"answer", "refuse"} THEN [s EXCEPT !.cookie = None] ELSE s

LEMMA ServedHolds ==
    ASSUME IInv, NEW r \in requests, NEW s \in Request, To(r, s),
           s.kind = r.kind, s.surface = r.surface, RequestSound(s, sessions)',
           WorldKept, RowsSound', FamiliesApart',
           sessions' = sessions, jar' = jar, trouble' = trouble, late' = late,
           devices' \in [Devices -> Device \cup {None}],
           rows' \in [Tokens -> Row \cup {None}]
    PROVE  IInv'
<1>1. requests' = (requests \ {r}) \cup {Done(s)}
  BY DEF To, Done
<1>2. /\ Done(s) \in Request
      /\ Done(s).kind = r.kind /\ Done(s).surface = r.surface
      /\ RequestSound(Done(s), sessions)'
  <2>1. CASE s.pc \in {"answer", "refuse"}
    <3> DEFINE p == [s EXCEPT !.cookie = None]
    <3>1. /\ p \in Request /\ p.cookie = None /\ p.kind = s.kind /\ p.pc = s.pc
          /\ p.surface = s.surface /\ p.user = s.user /\ p.device = s.device
          /\ p.own = s.own /\ p.got = s.got /\ p.carried = s.carried /\ p.seen = s.seen
      BY DEF Request
    <3> HIDE DEF p
    <3>2. RequestSound(p, sessions)'
      BY <2>1, <3>1 DEF RequestSound, TokensSound, StageSound, RefreshSound, SignInSound,
                        LogoutSound
    <3> QED
      BY <2>1, <3>1, <3>2 DEF Done, p
  <2>2. CASE s.pc \notin {"answer", "refuse"}
    BY <2>2 DEF Done
  <2> QED
    BY <2>1, <2>2
<1>3. SessionsSound(sessions)' /\ JarSound(jar)' /\ \A q \in requests : RequestSound(q, sessions)'
  BY OthersKept
<1>4. TypeOK'
  BY <1>1, <1>2 DEF IInv, TypeOK
<1>5. RequestsSound(requests, sessions)'
  <2>1. \A q \in requests' : RequestSound(q, sessions)'
    BY <1>1, <1>2, <1>3
  <2> QED
    BY <2>1 DEF RequestsSound
<1>6. OneAtATime(requests)'
  BY <1>1, <1>2 DEF IInv, OneAtATime
<1> QED
  BY <1>3, <1>4, <1>5, <1>6 DEF IInv

LEMMA HeldRows ==
    ASSUME IInv
    PROVE  \A t \in HeldNow : t \in Tokens /\ rows[t] # None
<1>1. /\ \A t \in HeldNow : t \in Tokens
      /\ \A s \in Surfaces : sessions[s] # None => Serves(sessions[s].token, s, sessions[s].device)
      /\ \A b \in Browsers : jar[b] # None => Carried(jar[b], b)
      /\ \A r \in requests : TokensSound(r)
  BY HeldTokens DEF IInv, TypeOK, HeldNow, SessionsSound, JarSound, RequestsSound, RequestSound
<1> QED
  BY <1>1, HeldBy DEF HeldNow, TokensSound, Serves, Carried

\* Nothing happens to the rows.
LEMMA RowsStillSound ==
    ASSUME IInv, rows' = rows,
           \A d \in Devices : devices[d] # None => DeviceLives(d)
    PROVE  RowsSound' /\ FamiliesApart'
<1>1. ASSUME NEW t \in Tokens, rows[t] # None
      PROVE  /\ devices'[rows[t].device] # None
             /\ t[1] \in Surfaces /\ rows[t].revoked => ExcusedNext(rows[t].device)
  <2>1. /\ rows[t].device \in Devices /\ devices[rows[t].device] # None
        /\ t[1] \in Surfaces /\ rows[t].revoked => Excused(rows[t].device)
    BY <1>1 DEF IInv, TypeOK, RowsSound, Row
  <2> QED
    BY <2>1 DEF DeviceLives
<1>2. RowsSound'
  BY <1>1 DEF RowsSound, Excused, ExcusedNext, Live
<1>3. FamiliesApart'
  BY DEF IInv, FamiliesApart
<1> QED
  BY <1>2, <1>3

LEMMA RowsStay ==
    ASSUME IInv, rows' = rows, late => late',
           \A d \in Devices : devices[d] # None => DeviceKept(d)
    PROVE  WorldKept /\ RowsSound' /\ FamiliesApart'
<1>1. \A t \in HeldNow : Follows(t, t)
  BY HeldRows DEF Follows
<1>2. RowsSound' /\ FamiliesApart'
  BY RowsStillSound DEF DeviceKept
<1> QED
  BY <1>1, <1>2 DEF WorldKept

\* A statement that leaves the devices alone keeps them.
LEMMA DevicesStay ==
    ASSUME UNCHANGED <<devices, late>>
    PROVE  \A d \in Devices : /\ devices[d] # None => DeviceKept(d)
                              /\ ExcusedNext(d) <=> Excused(d)
BY DEF DeviceKept, DeviceLives, Excused, ExcusedNext, Live

LEMMA StillHolds ==
    ASSUME IInv, UNCHANGED <<devices, rows, late>>
    PROVE  WorldKept /\ RowsSound' /\ FamiliesApart'
BY RowsStay, DevicesStay

\* Whose turn it is, and that a surface's token is no browser's.
LEMMA TurnIs ==
    ASSUME IInv, NEW r \in requests, r.pc \in {"look", "rotate", "replayed"}
    PROVE  /\ TurnOf(r) \in Tokens /\ TurnOf(r) \in HeldNow /\ rows[TurnOf(r)] \in Row
           /\ r.kind = "refresh" /\ r.got = None =>
                /\ TurnOf(r) = r.own /\ r.own # r.cookie
                /\ r.own[1] = r.surface /\ rows[r.own].device = r.device
                /\ r.device \in Devices
           /\ ~(r.kind = "refresh" /\ r.got = None) =>
                /\ TurnOf(r) = r.cookie /\ r.own # r.cookie
                /\ r.cookie[1] = BrowserOf[r.surface] /\ r.cookie[1] \in Browsers
                /\ BrowserOf[r.surface] # None
<1>1. /\ r \in Request /\ TokensSound(r) /\ StageSound(r) /\ RefreshSound(r, sessions)
      /\ SignInSound(r, sessions) /\ LogoutSound(r)
  BY DEF IInv, TypeOK, RequestsSound, RequestSound
<1>2. r.own # None => r.own[1] \in Surfaces
  BY <1>1 DEF TokensSound, Serves, Request
<1>3. r.cookie # None => /\ r.cookie[1] = BrowserOf[r.surface] /\ r.cookie[1] \in Browsers
                         /\ BrowserOf[r.surface] # None
  BY <1>1, SessionsAssumption DEF TokensSound, Carried, Request, Tokens
<1>4. TurnOf(r) # None /\ TurnOf(r) \in {r.own, r.cookie, r.got, r.carried}
  BY <1>1 DEF TurnOf, StageSound, RefreshSound
<1>5. TurnOf(r) \in Tokens /\ TurnOf(r) \in HeldNow /\ rows[TurnOf(r)] \in Row
  <2>1. TurnOf(r) \in HeldNow
    BY <1>4, HeldBy DEF HeldNow
  <2> QED
    BY <2>1, HeldRows DEF IInv, TypeOK
<1>6. r.own # None \/ r.cookie # None => r.own # r.cookie
  BY <1>2, <1>3, SessionsAssumption
<1>7. CASE r.kind = "refresh" /\ r.got = None
  BY <1>1, <1>5, <1>6, <1>7 DEF TurnOf, RefreshSound, TokensSound, Serves, Request
<1>8. CASE ~(r.kind = "refresh" /\ r.got = None)
  BY <1>1, <1>3, <1>5, <1>6, <1>8 DEF TurnOf, StageSound
<1> QED
  BY <1>7, <1>8

LEMMA UnrotatedIs ==
    ASSUME IInv, NEW r \in requests, r.pc \in {"look", "rotate", "replayed"}
    PROVE  /\ Goes(r, Unrotated(r)) /\ Unrotated(r).seen = r.seen
           /\ Unrotated(r).pc = IF r.kind = "continue" \/ (r.kind = "refresh" /\ r.got = None)
                                THEN "refuse" ELSE "issue"
<1>1. r \in Request
  BY DEF IInv, TypeOK
<1>2. /\ Goes(r, [r EXCEPT !.pc = "issue"]) /\ Goes(r, [r EXCEPT !.pc = "refuse"])
      /\ [r EXCEPT !.pc = "issue"].pc = "issue" /\ [r EXCEPT !.pc = "refuse"].pc = "refuse"
      /\ [r EXCEPT !.pc = "issue"].seen = r.seen /\ [r EXCEPT !.pc = "refuse"].seen = r.seen
  BY <1>1 DEF Goes, Request
<1> QED
  BY <1>2, TurnIs DEF Unrotated

\* A request whose rotation has failed is sound.
LEMMA UnrotatedSound ==
    ASSUME IInv, NEW r \in requests, r.pc \in {"look", "rotate", "replayed"},
           NEW s, Goes(r, s), s.pc = Unrotated(r).pc, s.seen \in {None, r.seen},
           RequestSound(r, sessions),
           r.kind = "refresh" /\ r.got = None => Excused(r.device)
    PROVE  RequestSound(s, sessions)
<1>1. /\ s.pc = IF r.kind = "continue" \/ (r.kind = "refresh" /\ r.got = None)
                THEN "refuse" ELSE "issue"
      /\ r.kind # "logout"
  BY UnrotatedIs DEF RequestSound, LogoutSound
<1>2. TokensSound(s)
  BY DEF RequestSound, TokensSound, Goes
<1>3. s.pc = "issue" => BrowserOf[r.surface] # None /\ r.got # None /\ r.device # None
  BY <1>1, TurnIs DEF Goes, RequestSound, RefreshSound, SignInSound, Request
<1>4. StageSound(s)
  BY <1>1, <1>3 DEF StageSound, Goes
<1>5. RefreshSound(s, sessions)
  BY <1>1, <1>3 DEF RequestSound, RefreshSound, Goes
<1>6. SignInSound(s, sessions)
  BY <1>1, <1>3 DEF RequestSound, SignInSound, Goes
<1>7. LogoutSound(s)
  BY <1>1 DEF LogoutSound, Goes
<1> QED
  BY <1>2, <1>4, <1>5, <1>6, <1>7 DEF RequestSound

LEMMA LookHolds ==
    ASSUME IInv, NEW r \in requests, Look(r)
    PROVE  IInv'
<1>1. /\ r \in Request /\ RequestSound(r, sessions) /\ r.pc = "look"
      /\ UNCHANGED <<devices, rows, sessions, jar, late, trouble>>
  BY DEF IInv, TypeOK, RequestsSound, Look
<1>2. WorldKept /\ RowsSound' /\ FamiliesApart'
  BY <1>1, StillHolds
<1>3. \A s : RequestSound(s, sessions)' <=> RequestSound(s, sessions)
  BY <1>1 DEF RequestSound, TokensSound, StageSound, RefreshSound, SignInSound,
              LogoutSound, Serves, Carried, Excused, Live
<1>4. CASE ~Live(rows[TurnOf(r)].device)
  <2> DEFINE s == Unrotated(r)
  <2>1. Goes(r, s) /\ s.seen = r.seen
    BY <1>1, UnrotatedIs
  <2>2. To(r, s)
    BY <1>4 DEF Look
  <2>3. RequestSound(s, sessions)
    <3>1. r.kind = "refresh" /\ r.got = None => Excused(r.device)
      BY <1>1, <1>4, TurnIs DEF Excused
    <3> QED
      BY <1>1, <2>1, <3>1, UnrotatedSound
  <2> HIDE DEF s
  <2> QED
    BY <1>1, <1>2, <1>3, <2>1, <2>2, <2>3, ServedHolds DEF Goes, IInv, TypeOK
<1>5. CASE Live(rows[TurnOf(r)].device)
  <2> DEFINE s == [r EXCEPT !.pc = "rotate"]
  <2>1. Goes(r, s) /\ s.seen = r.seen /\ s.pc = "rotate"
    BY <1>1 DEF Goes, Request
  <2>2. To(r, s)
    BY <1>5 DEF Look
  <2> HIDE DEF s
  <2>3. RequestSound(s, sessions)
    BY <1>1, <2>1 DEF RequestSound, TokensSound, StageSound, RefreshSound, SignInSound,
                      LogoutSound, Goes
  <2> QED
    BY <1>1, <1>2, <1>3, <2>1, <2>2, <2>3, ServedHolds DEF Goes, IInv, TypeOK
<1> QED
  BY <1>4, <1>5

LEMMA ReloadHolds ==
    ASSUME IInv, NEW r \in requests, Reload(r)
    PROVE  IInv'
<1> DEFINE s == [r EXCEPT !.pc = IF Live(r.device) THEN Carry(r) ELSE "refuse"]
<1>1. /\ r \in Request /\ RequestSound(r, sessions) /\ r.pc = "reload" /\ To(r, s)
      /\ UNCHANGED <<devices, rows, sessions, jar, late, trouble>>
  BY DEF IInv, TypeOK, RequestsSound, Reload
<1>2. WorldKept /\ RowsSound' /\ FamiliesApart'
  BY <1>1, StillHolds
<1>3. \A q : RequestSound(q, sessions)' <=> RequestSound(q, sessions)
  BY <1>1 DEF RequestSound, TokensSound, StageSound, RefreshSound, SignInSound,
              LogoutSound, Serves, Carried, Excused, Live
<1>4. Goes(r, s) /\ s.seen = r.seen /\ s.pc = IF Live(r.device) THEN Carry(r) ELSE "refuse"
  BY <1>1 DEF Goes, Request, Carry
<1>5. r.kind = "refresh" /\ r.got # None /\ r.device # None
  BY <1>1 DEF RequestSound, StageSound, RefreshSound, SignInSound, Request
<1>6. /\ s.pc \in {"answer", "issue", "look", "refuse"}
      /\ s.pc = "issue" => BrowserOf[r.surface] # None
      /\ s.pc = "look" => r.cookie # None
      /\ s.pc = "refuse" => Excused(r.device)
  BY <1>4 DEF Carry, Excused
<1> HIDE DEF s
<1>7. RequestSound(s, sessions)
  BY <1>1, <1>4, <1>5, <1>6 DEF RequestSound, TokensSound, StageSound, RefreshSound,
                                SignInSound, LogoutSound, Goes
<1> QED
  BY <1>1, <1>2, <1>3, <1>4, <1>7, ServedHolds DEF Goes, IInv, TypeOK

-----------------------------------------------------------------------------
(* What is revoked.                                                        *)

\* Revoking surfaces' tokens only for a reason leaves everything as it should be.
LEMMA RevokeSound ==
    ASSUME IInv, NEW S \in SUBSET Tokens, Revoke(S),
           \A t \in S : rows[t] # None /\ (t[1] \in Surfaces => ExcusedNext(rows[t].device)),
           \A d \in Devices : devices[d] # None => DeviceKept(d),
           late' = late
    PROVE  WorldKept /\ RowsSound' /\ FamiliesApart' /\ rows' \in [Tokens -> Row \cup {None}]
<1>1. /\ rows \in [Tokens -> Row \cup {None}] /\ None \notin Row
      /\ rows' = [t \in Tokens |-> IF t \in S THEN [rows[t] EXCEPT !.revoked = TRUE]
                                              ELSE rows[t]]
  BY SessionsAssumption DEF IInv, TypeOK, Revoke
<1>2. ASSUME NEW t \in Tokens
      PROVE  /\ rows'[t] \in Row \cup {None}
             /\ rows'[t] = None <=> rows[t] = None
             /\ rows[t] # None => /\ rows'[t].device = rows[t].device
                                  /\ rows'[t].family = rows[t].family
                                  /\ rows'[t].used = rows[t].used
             /\ t \notin S => rows'[t] = rows[t]
  <2>1. CASE t \in S
    <3> DEFINE x == [rows[t] EXCEPT !.revoked = TRUE]
    <3>1. rows[t] \in Row /\ rows'[t] = x
      BY <1>1, <2>1
    <3>2. /\ x \in Row /\ x.device = rows[t].device /\ x.family = rows[t].family
          /\ x.used = rows[t].used
      BY <3>1 DEF Row
    <3> QED
      BY <1>1, <2>1, <3>1, <3>2
  <2>2. CASE t \notin S
    BY <1>1, <2>2
  <2> QED
    BY <2>1, <2>2
<1>3. rows' \in [Tokens -> Row \cup {None}]
  BY <1>1, <1>2
<1>4. \A t \in HeldNow : Follows(t, t)
  BY <1>2, HeldRows DEF Follows
<1>5. ASSUME NEW t \in Tokens, rows'[t] # None
      PROVE  /\ devices'[rows'[t].device] # None
             /\ t[1] \in Surfaces /\ rows'[t].revoked => ExcusedNext(rows'[t].device)
  <2>1. /\ rows[t] \in Row /\ rows'[t].device = rows[t].device
        /\ devices[rows[t].device] # None /\ rows[t].device \in Devices
        /\ t[1] \in Surfaces /\ rows[t].revoked => Excused(rows[t].device)
    BY <1>1, <1>2, <1>5 DEF IInv, RowsSound, Row
  <2>2. DeviceKept(rows[t].device)
    BY <2>1
  <2>3. CASE t \in S
    BY <2>1, <2>2, <2>3 DEF DeviceKept, DeviceLives
  <2>4. CASE t \notin S
    BY <1>2, <2>1, <2>2, <2>4 DEF DeviceKept, DeviceLives
  <2> QED
    BY <2>3, <2>4
<1>6. RowsSound'
  BY <1>5 DEF RowsSound, Excused, ExcusedNext, Live
<1>7. FamiliesApart'
  BY <1>2 DEF IInv, FamiliesApart
<1> QED
  BY <1>3, <1>4, <1>6, <1>7 DEF WorldKept

LEMMA RevokeFamilyHolds ==
    ASSUME IInv, NEW r \in requests, RevokeFamily(r)
    PROVE  IInv'
<1>1. /\ r \in Request /\ RequestSound(r, sessions) /\ r.pc = "replayed"
      /\ UNCHANGED <<devices, sessions, jar, late, trouble>>
      /\ None \notin Row
  BY SessionsAssumption DEF IInv, TypeOK, RequestsSound, RevokeFamily
<1>2. \A d \in Devices : /\ devices[d] # None => DeviceKept(d)
                         /\ ExcusedNext(d) <=> Excused(d)
  BY <1>1, DevicesStay
<1>3. r.kind = "refresh" /\ r.got = None => Excused(r.device)
  BY <1>1 DEF RequestSound, RefreshSound
<1>4. CASE r.seen = None
  <2> DEFINE t == TurnOf(r)
             s == [r EXCEPT !.seen = OfFamily(t)]
  <2>1. To(r, s) /\ UNCHANGED rows
    BY <1>1, <1>4 DEF RevokeFamily
  <2>2. OfFamily(t) \in SUBSET Tokens
    BY DEF OfFamily, Unrevoked
  <2>3. Goes(r, s) /\ s.pc = r.pc /\ s.seen = OfFamily(t)
    BY <1>1, <2>2 DEF Goes, Request
  <2>4. WorldKept /\ RowsSound' /\ FamiliesApart'
    BY <1>1, <2>1, StillHolds
  <2>5. \A q : RequestSound(q, sessions)' <=> RequestSound(q, sessions)
    BY <1>1, <2>1 DEF RequestSound, TokensSound, StageSound, RefreshSound, SignInSound,
                      LogoutSound, Serves, Carried, Excused, Live
  <2>6. ASSUME NEW u \in OfFamily(t)
        PROVE  rows[u] # None /\ (u[1] \in Surfaces => Excused(rows[u].device))
    <3>1. /\ u \in Tokens /\ rows[u] # None
          /\ u[1] = t[1] /\ rows[u].family = rows[t].family
      BY DEF OfFamily, Unrevoked
    <3>2. t \in Tokens /\ rows[t] # None
      BY <1>1, TurnIs
    <3>3. u[1] \in Surfaces => rows[u].device = rows[t].device
      BY <3>1, <3>2 DEF IInv, FamiliesApart
    <3>4. t[1] \in Surfaces => Excused(rows[t].device)
      <4>1. CASE r.kind = "refresh" /\ r.got = None
        BY <1>1, <1>3, <4>1, TurnIs
      <4>2. CASE ~(r.kind = "refresh" /\ r.got = None)
        BY <1>1, <4>2, TurnIs, SessionsAssumption
      <4> QED
        BY <4>1, <4>2
    <3> QED
      BY <3>1, <3>3, <3>4
  <2> HIDE DEF t, s
  <2>7. TokensSound(s)
    BY <1>1, <2>3, <2>6 DEF RequestSound, TokensSound, Goes
  <2>8. RequestSound(s, sessions)
    BY <1>1, <2>3, <2>7 DEF RequestSound, StageSound, RefreshSound, SignInSound,
                            LogoutSound, Goes
  <2> QED
    BY <1>1, <2>1, <2>3, <2>4, <2>5, <2>8, ServedHolds DEF Goes, IInv, TypeOK
<1>5. CASE r.seen # None
  <2> DEFINE s == [Unrotated(r) EXCEPT !.seen = None]
  <2>1. To(r, s) /\ Revoke(r.seen)
    BY <1>1, <1>5 DEF RevokeFamily
  <2>2. Goes(r, Unrotated(r))
    BY <1>1, UnrotatedIs
  <2>3. Goes(r, s) /\ s.pc = Unrotated(r).pc /\ s.seen = None
    BY <2>2 DEF Goes, Request
  <2>4. r.seen \in SUBSET Tokens
    BY <1>1, <1>5 DEF Request
  <2>5. \A t \in r.seen : rows[t] # None /\ (t[1] \in Surfaces => ExcusedNext(rows[t].device))
    <3>1. \A t \in r.seen : /\ rows[t] # None /\ rows[t].device \in Devices
                            /\ t[1] \in Surfaces => Excused(rows[t].device)
      BY <1>1, <1>5, <2>4 DEF IInv, TypeOK, Row, RequestSound, TokensSound
    <3> QED
      BY <1>2, <3>1
  <2>6. WorldKept /\ RowsSound' /\ FamiliesApart' /\ rows' \in [Tokens -> Row \cup {None}]
    BY <1>1, <1>2, <2>1, <2>4, <2>5, RevokeSound
  <2> HIDE DEF s
  <2>7. RequestSound(s, sessions)
    BY <1>1, <1>3, <2>3, UnrotatedSound
  <2>8. RequestSound(s, sessions)'
    BY <1>1, <2>3, <2>6, <2>7, GoesKept
  <2> QED
    BY <1>1, <2>1, <2>3, <2>6, <2>8, ServedHolds DEF Goes, IInv, TypeOK
<1> QED
  BY <1>4, <1>5

LEMMA LogoutHolds ==
    ASSUME IInv, NEW r \in requests, Logout(r)
    PROVE  IInv'
<1> DEFINE found == IF r.pc = "revoke" THEN OfDevice(r.device) ELSE OfFamily(r.cookie)
           next == IF r.pc = "revoke" /\ r.cookie # None THEN "drop" ELSE "answer"
<1>1. /\ r \in Request /\ RequestSound(r, sessions) /\ r.pc \in {"revoke", "drop"}
      /\ UNCHANGED <<devices, sessions, jar, late, trouble>>
  BY DEF IInv, TypeOK, RequestsSound, Logout
<1>2. /\ r.kind = "logout" /\ r.device # None /\ devices[r.device].surface = None
      /\ r.own = None
      /\ r.pc = "drop" => r.cookie # None
  BY <1>1 DEF RequestSound, StageSound, LogoutSound
<1>3. \A d \in Devices : /\ devices[d] # None => DeviceKept(d)
                         /\ ExcusedNext(d) <=> Excused(d)
  BY <1>1, DevicesStay
<1>4. CASE r.seen = None
  <2> DEFINE s == [r EXCEPT !.seen = found]
  <2>1. To(r, s) /\ UNCHANGED rows
    BY <1>1, <1>4 DEF Logout
  <2>2. found \in SUBSET Tokens
    BY DEF OfFamily, OfDevice, Unrevoked
  <2>3. Goes(r, s) /\ s.pc = r.pc /\ s.seen = found
    BY <1>1, <2>2 DEF Goes, Request
  <2>4. WorldKept /\ RowsSound' /\ FamiliesApart'
    BY <1>1, <2>1, StillHolds
  <2>5. \A q : RequestSound(q, sessions)' <=> RequestSound(q, sessions)
    BY <1>1, <2>1 DEF RequestSound, TokensSound, StageSound, RefreshSound, SignInSound,
                      LogoutSound, Serves, Carried, Excused, Live
  <2>6. ASSUME NEW u \in found
        PROVE  rows[u] # None /\ (u[1] \in Surfaces => Excused(rows[u].device))
    <3>1. u \in Tokens /\ rows[u] # None
      BY DEF OfFamily, OfDevice, Unrevoked
    <3>2. CASE r.pc = "revoke"
      BY <1>2, <3>1, <3>2 DEF OfDevice, Excused
    <3>3. CASE r.pc = "drop"
      <4>1. u[1] = r.cookie[1]
        BY <1>1, <3>3 DEF OfFamily
      <4>2. r.cookie[1] = BrowserOf[r.surface] /\ r.cookie \in Tokens
        BY <1>1, <1>2, <3>3 DEF RequestSound, TokensSound, Carried, Request
      <4>3. u[1] \notin Surfaces
        BY <1>1, <4>1, <4>2, SessionsAssumption DEF Request, Tokens
      <4> QED
        BY <3>1, <4>3
    <3> QED
      BY <1>1, <3>2, <3>3
  <2> HIDE DEF s, found
  <2>7. TokensSound(s)
    BY <1>1, <2>3, <2>6 DEF RequestSound, TokensSound, Goes
  <2>8. RequestSound(s, sessions)
    BY <1>1, <2>3, <2>7 DEF RequestSound, StageSound, RefreshSound, SignInSound,
                            LogoutSound, Goes
  <2> QED
    BY <1>1, <2>1, <2>3, <2>4, <2>5, <2>8, ServedHolds DEF Goes, IInv, TypeOK
<1>5. CASE r.seen # None
  <2> DEFINE s == [r EXCEPT !.seen = None, !.pc = next]
  <2>1. To(r, s) /\ Revoke(r.seen)
    BY <1>1, <1>5 DEF Logout
  <2>2. Goes(r, s) /\ s.pc = next /\ s.seen = None
    BY <1>1 DEF Goes, Request
  <2>3. r.seen \in SUBSET Tokens
    BY <1>1, <1>5 DEF Request
  <2>4. \A t \in r.seen : rows[t] # None /\ (t[1] \in Surfaces => ExcusedNext(rows[t].device))
    <3>1. \A t \in r.seen : /\ rows[t] # None /\ rows[t].device \in Devices
                            /\ t[1] \in Surfaces => Excused(rows[t].device)
      BY <1>1, <1>5, <2>3 DEF IInv, TypeOK, Row, RequestSound, TokensSound
    <3> QED
      BY <1>3, <3>1
  <2>5. WorldKept /\ RowsSound' /\ FamiliesApart' /\ rows' \in [Tokens -> Row \cup {None}]
    BY <1>1, <1>3, <2>1, <2>3, <2>4, RevokeSound
  <2>6. next = "answer" \/ (next = "drop" /\ r.cookie # None)
    OBVIOUS
  <2> HIDE DEF s, next
  <2>7. RequestSound(s, sessions)
    BY <1>1, <1>2, <2>2, <2>6 DEF RequestSound, TokensSound, StageSound, RefreshSound,
                                  SignInSound, LogoutSound, Goes
  <2>8. RequestSound(s, sessions)'
    BY <1>1, <2>2, <2>5, <2>7, GoesKept
  <2> QED
    BY <1>1, <2>1, <2>2, <2>5, <2>8, ServedHolds DEF Goes, IInv, TypeOK
<1> QED
  BY <1>4, <1>5

-----------------------------------------------------------------------------
(* What is registered and issued.                                          *)

LEMMA RegisterHolds ==
    ASSUME IInv, NEW r \in requests, Register(r)
    PROVE  IInv'
<1> DEFINE u == IF r.kind = "session" THEN r.user ELSE devices[rows[r.cookie].device].owner
           unknown == {d \in Devices : devices[d] = None}
           mine == Registered(r.surface, u)
<1>1. /\ r \in Request /\ RequestSound(r, sessions) /\ r.pc = "register"
      /\ UNCHANGED <<rows, sessions, jar, late, trouble>>
  BY DEF IInv, TypeOK, RequestsSound, Register
<1>2. /\ r.kind \in {"session", "continue"} /\ r.got = None
      /\ sessions[r.surface] = None /\ r.own = None
      /\ r.kind = "continue" => r.cookie # None
      /\ r.kind = "session" => r.user # None
  BY <1>1 DEF RequestSound, RefreshSound, SignInSound, LogoutSound, Request
<1>3. u \in Users
  <2>1. CASE r.kind = "session"
    BY <1>1, <1>2, <2>1 DEF Request
  <2>2. CASE r.kind = "continue"
    <3>1. r.cookie \in Tokens /\ rows[r.cookie] # None
      BY <1>1, <1>2, <2>2 DEF Request, RequestSound, TokensSound, Carried
    <3>2. /\ rows[r.cookie].device \in Devices
          /\ devices[rows[r.cookie].device] # None
      BY <3>1 DEF IInv, TypeOK, RowsSound, Row
    <3> QED
      BY <2>2, <3>2 DEF IInv, TypeOK, Device
  <2> QED
    BY <1>2, <2>1, <2>2
<1>4. PICK d \in Devices :
        /\ devices[d] = None \/ (devices[d] # None /\ devices[d].surface = r.surface /\ Live(d))
        /\ devices' = [devices EXCEPT ![d] =
             [surface |-> r.surface, owner |-> u, status |-> "active"]]
        /\ To(r, [r EXCEPT !.device = d, !.user = u, !.pc = "issue"])
  BY <1>1 DEF Register, Registered
<1>5. PICK s \in Request :
        /\ To(r, s)
        /\ s.kind = r.kind /\ s.surface = r.surface /\ s.user \in Users
        /\ s.device = d /\ s.pc = "issue" /\ s.own = r.own /\ s.cookie = r.cookie
        /\ s.got = r.got /\ s.carried = r.carried /\ s.seen = r.seen
  <2> DEFINE s == [r EXCEPT !.device = d, !.user = u, !.pc = "issue"]
  <2> HIDE DEF u
  <2>1. /\ s \in Request
        /\ s.kind = r.kind /\ s.surface = r.surface /\ s.user \in Users
        /\ s.device = d /\ s.pc = "issue" /\ s.own = r.own /\ s.cookie = r.cookie
        /\ s.got = r.got /\ s.carried = r.carried /\ s.seen = r.seen
    BY <1>1, <1>3 DEF Request
  <2>2. To(r, s)
    BY <1>4
  <2> HIDE DEF s
  <2> QED
    BY <2>1, <2>2
<1> DEFINE x == [surface |-> r.surface, owner |-> u, status |-> "active"]
<1> HIDE DEF u
<1>6. x \in Device /\ x # None /\ x.surface = r.surface
  BY <1>1, <1>3, SessionsAssumption DEF Device, Request
<1>7. devices' \in [Devices -> Device \cup {None}] /\ devices'[d] = x
      /\ \A e \in Devices \ {d} : devices'[e] = devices[e]
  BY <1>4, <1>6 DEF IInv, TypeOK
<1>8. r.surface # None
  BY <1>1, SessionsAssumption DEF Request
<1> HIDE DEF x
<1>9. \A e \in Devices : devices[e] # None => DeviceKept(e)
  <2>1. ASSUME devices[d] # None PROVE DeviceKept(d)
    BY <1>1, <1>4, <1>6, <1>7, <1>8, <2>1 DEF DeviceKept, DeviceLives, Excused, ExcusedNext
  <2>2. ASSUME NEW e \in Devices \ {d}, devices[e] # None PROVE DeviceKept(e)
    BY <1>1, <1>7, <2>2 DEF DeviceKept, DeviceLives, Excused, ExcusedNext, Live
  <2> QED
    BY <2>1, <2>2
<1>10. WorldKept /\ RowsSound' /\ FamiliesApart'
  BY <1>1, <1>9, RowsStay
<1>11. RequestSound(r, sessions)'
  BY <1>1, <1>10, OthersKept
<1>12. RequestSound(s, sessions)'
  <2>1. s.device # None /\ devices'[s.device] # None /\ devices'[s.device].surface = s.surface
    BY <1>5, <1>6, <1>7, SessionsAssumption
  <2>2. TokensSound(s)'
    BY <1>2, <1>5, <1>11, <2>1 DEF RequestSound, TokensSound
  <2>3. StageSound(s)' /\ RefreshSound(s, sessions)' /\ LogoutSound(s)'
    BY <1>2, <1>5, <2>1 DEF StageSound, RefreshSound, LogoutSound
  <2>4. s.user # None
    BY <1>5, SessionsAssumption
  <2>5. SignInSound(s, sessions)'
    BY <1>1, <1>2, <1>5, <2>1, <2>4 DEF SignInSound
  <2> QED
    BY <2>2, <2>3, <2>5 DEF RequestSound
<1> QED
  BY <1>1, <1>4, <1>5, <1>7, <1>10, <1>12, ServedHolds DEF IInv, TypeOK

\* The number of a new token is nobody's.
LEMMA NewTokenIs ==
    ASSUME NEW x \in Surfaces \cup Browsers, Free(x) # {}
    PROVE  NewToken(x) \in Tokens /\ NewToken(x)[1] = x /\ NewToken(x) \notin HeldNow
<1>1. Some(Free(x)) \in Free(x)
  BY DEF Some
<1>2. Some(Free(x)) \in Numbers /\ <<x, Some(Free(x))>> \notin HeldNow
  BY <1>1 DEF Free
<1> QED
  BY <1>2 DEF NewToken, Tokens

\* A row is added for a device that is there, maybe in the place of one nobody
\* holds, while another is marked as used.
LEMMA NewRowSound ==
    ASSUME IInv, UNCHANGED <<devices, late>>,
           NEW next \in Tokens, next \notin HeldNow, NEW new \in Row,
           devices[new.device] # None, ~new.revoked,
           \A u \in Tokens \ {next} :
             /\ next[1] \in Surfaces /\ rows[u] # None
             /\ u[1] = next[1] /\ rows[u].family = new.family
             => rows[u].device = new.device,
           rows' \in [Tokens -> Row \cup {None}],
           rows'[next] = new,
           \A u \in Tokens \ {next} :
             /\ rows'[u] = None <=> rows[u] = None
             /\ rows[u] # None =>
                  /\ rows'[u].device = rows[u].device /\ rows'[u].family = rows[u].family
                  /\ rows'[u].revoked = rows[u].revoked
                  /\ rows'[u].used = "long" => rows[u].used = "long"
    PROVE  WorldKept /\ RowsSound' /\ FamiliesApart'
<1>1. \A t \in HeldNow : Follows(t, t)
  BY HeldRows DEF Follows
<1>2. \A d \in Devices : devices[d] # None => DeviceKept(d)
  BY DevicesStay
<1>3. new # None
  BY SessionsAssumption
<1>4. RowsSound'
  <2>1. ASSUME NEW t \in Tokens, rows'[t] # None
        PROVE  /\ devices[rows'[t].device] # None
               /\ t[1] \in Surfaces /\ rows'[t].revoked => ExcusedNext(rows'[t].device)
    <3>1. CASE t = next
      BY <3>1
    <3>2. CASE t # next
      <4>1. /\ rows[t] # None /\ rows'[t].device = rows[t].device
            /\ rows'[t].revoked = rows[t].revoked
        BY <2>1, <3>2
      <4> QED
        BY <4>1 DEF IInv, RowsSound, Excused, ExcusedNext, Live
    <3> QED
      BY <3>1, <3>2
  <2> QED
    BY <2>1 DEF RowsSound, Excused, ExcusedNext, Live
<1>5. FamiliesApart'
  <2>1. ASSUME NEW t \in Tokens, NEW u \in Tokens, rows'[t] # None, rows'[u] # None,
               t[1] \in Surfaces, u[1] = t[1], rows'[u].family = rows'[t].family
        PROVE  rows'[u].device = rows'[t].device
    <3>1. CASE t # next /\ u # next
      BY <2>1, <3>1 DEF IInv, FamiliesApart
    <3>2. CASE t = next /\ u # next
      BY <2>1, <3>2
    <3>3. CASE t # next /\ u = next
      BY <2>1, <3>3
    <3> QED
      BY <3>1, <3>2, <3>3
  <2> QED
    BY <2>1 DEF FamiliesApart
<1> QED
  BY <1>1, <1>2, <1>4, <1>5 DEF WorldKept

LEMMA RotateHolds ==
    ASSUME IInv, NEW r \in requests, Rotate(r)
    PROVE  IInv'
<1> DEFINE t == TurnOf(r)
           next == NewToken(t[1])
           spent == IF rows[t].used = "no" THEN "grace" ELSE rows[t].used
<1>1. /\ r \in Request /\ RequestSound(r, sessions) /\ r.pc = "rotate"
      /\ UNCHANGED <<devices, sessions, jar, late, trouble>>
  BY DEF IInv, TypeOK, RequestsSound, Rotate
<1>2. t \in Tokens /\ t \in HeldNow /\ rows[t] \in Row /\ rows[t] # None
  BY <1>1, TurnIs, SessionsAssumption
<1>3. devices[rows[t].device] # None
  BY <1>2 DEF IInv, RowsSound
<1>4. CASE ~Claimed(t)
  <2> DEFINE s == [r EXCEPT !.pc = "replayed"]
  <2>1. To(r, s) /\ UNCHANGED rows
    BY <1>4 DEF Rotate
  <2>2. Goes(r, s) /\ s.seen = r.seen /\ s.pc = "replayed"
    BY <1>1 DEF Goes, Request
  <2>3. WorldKept /\ RowsSound' /\ FamiliesApart'
    BY <1>1, <2>1, StillHolds
  <2>4. r.kind = "refresh" /\ r.got = None => Excused(r.device)
    <3> SUFFICES ASSUME r.kind = "refresh", r.got = None PROVE Excused(r.device)
      OBVIOUS
    <3>1. t = r.own /\ t[1] \in Surfaces /\ rows[t].device = r.device
      BY <1>1, TurnIs DEF Request
    <3>2. rows[t].revoked \/ rows[t].used = "long"
      BY <1>4 DEF Claimed
    <3>3. CASE rows[t].revoked
      BY <1>2, <3>1, <3>3 DEF IInv, RowsSound
    <3>4. CASE rows[t].used = "long"
      BY <1>1, <1>2, <3>1, <3>4, SessionsAssumption
         DEF RequestSound, TokensSound, Serves, Excused
    <3> QED
      BY <3>2, <3>3, <3>4
  <2> HIDE DEF s, t
  <2>5. r.kind # "logout"
    BY <1>1 DEF RequestSound, LogoutSound
  <2>6. RequestSound(s, sessions)
    BY <1>1, <2>2, <2>4, <2>5 DEF RequestSound, TokensSound, StageSound, RefreshSound,
                                  SignInSound, LogoutSound, Goes
  <2>7. RequestSound(s, sessions)'
    BY <1>1, <2>2, <2>3, <2>6, GoesKept
  <2> QED
    BY <1>1, <2>1, <2>2, <2>3, <2>7, ServedHolds DEF Goes, IInv, TypeOK
<1>5. CASE Claimed(t)
  <2> DEFINE new == [rows[t] EXCEPT !.used = "no", !.revoked = FALSE]
             old == [rows[t] EXCEPT !.used = spent]
             n == IF t = r.own THEN [r EXCEPT !.got = next, !.pc = "reload"]
                  ELSE [r EXCEPT !.carried = next,
                          !.pc = IF r.kind = "continue" THEN "register" ELSE "answer"]
  <2>1. /\ Free(t[1]) # {} /\ To(r, n)
        /\ rows' = [rows EXCEPT ![t].used = spent, ![next] = new]
    BY <1>5 DEF Rotate
  <2>2. next \in Tokens /\ next[1] = t[1] /\ next \notin HeldNow /\ next # t
    BY <1>2, <2>1, NewTokenIs DEF Tokens
  <2>3. /\ new \in Row /\ new.device = rows[t].device /\ new.family = rows[t].family
        /\ ~new.revoked
        /\ old \in Row /\ old.device = rows[t].device /\ old.family = rows[t].family
        /\ old.revoked = rows[t].revoked
        /\ old.used = "long" => rows[t].used = "long"
    BY <1>2 DEF Row
  <2> HIDE DEF next, spent, t
  <2>4. /\ rows' = [rows EXCEPT ![t] = old, ![next] = new]
        /\ None \notin Row /\ rows \in [Tokens -> Row \cup {None}]
    BY <2>1, SessionsAssumption DEF IInv, TypeOK
  <2> HIDE DEF new, old
  <2>5. /\ rows' \in [Tokens -> Row \cup {None}]
        /\ rows'[next] = new /\ rows'[t] = old
        /\ \A u \in Tokens \ {next, t} : rows'[u] = rows[u]
    BY <1>2, <2>2, <2>3, <2>4
  <2>6. \A u \in Tokens \ {next} :
          /\ rows'[u] = None <=> rows[u] = None
          /\ rows[u] # None =>
               /\ rows'[u].device = rows[u].device /\ rows'[u].family = rows[u].family
               /\ rows'[u].revoked = rows[u].revoked
               /\ rows'[u].used = "long" => rows[u].used = "long"
    BY <1>2, <2>3, <2>4, <2>5
  <2>7. \A u \in Tokens \ {next} :
          /\ next[1] \in Surfaces /\ rows[u] # None
          /\ u[1] = next[1] /\ rows[u].family = new.family
          => rows[u].device = new.device
    BY <1>2, <2>2, <2>3 DEF IInv, FamiliesApart
  <2>8. WorldKept /\ RowsSound' /\ FamiliesApart'
    BY <1>1, <1>3, <2>2, <2>3, <2>5, <2>6, <2>7, NewRowSound
  <2>9. RequestSound(r, sessions)'
    BY <1>1, <2>8, OthersKept
  <2>10. CASE r.kind = "refresh" /\ r.got = None
    <3>1. t = r.own /\ t[1] = r.surface /\ rows[t].device = r.device
      BY <1>1, <2>10, TurnIs DEF t
    <3>2. PICK s \in Request :
            /\ To(r, s) /\ s.pc = "reload" /\ s.got = next /\ s.seen = r.seen
            /\ s.kind = r.kind /\ s.surface = r.surface /\ s.user = r.user
            /\ s.device = r.device /\ s.own = r.own /\ s.cookie = r.cookie
            /\ s.carried = r.carried
      <4> DEFINE p == [r EXCEPT !.got = next, !.pc = "reload"]
      <4>1. /\ p \in Request /\ p.pc = "reload" /\ p.got = next /\ p.seen = r.seen
            /\ p.kind = r.kind /\ p.surface = r.surface /\ p.user = r.user
            /\ p.device = r.device /\ p.own = r.own /\ p.cookie = r.cookie
            /\ p.carried = r.carried
        BY <1>1, <2>2 DEF Request
      <4>2. To(r, p)
        BY <2>1, <3>1
      <4> HIDE DEF p
      <4> QED
        BY <4>1, <4>2
    <3>3. next # None /\ Serves(s.got, s.surface, s.device)'
      BY <2>2, <2>3, <2>5, <3>1, <3>2, SessionsAssumption DEF Serves, Row, new
    <3>4. TokensSound(s)'
      BY <2>9, <3>2, <3>3 DEF RequestSound, TokensSound
    <3>5. RequestSound(s, sessions)'
      BY <2>9, <2>10, <3>2, <3>3, <3>4 DEF RequestSound, StageSound, RefreshSound,
                                           SignInSound, LogoutSound
    <3> QED
      BY <1>1, <2>5, <2>8, <3>2, <3>5, ServedHolds DEF IInv, TypeOK
  <2>11. CASE ~(r.kind = "refresh" /\ r.got = None)
    <3>1. t = r.cookie /\ t # r.own /\ t[1] = BrowserOf[r.surface]
      BY <1>1, <2>11, TurnIs DEF t
    <3>2. PICK s \in Request :
            /\ To(r, s) /\ s.carried = next /\ s.seen = r.seen
            /\ s.pc = IF r.kind = "continue" THEN "register" ELSE "answer"
            /\ s.kind = r.kind /\ s.surface = r.surface /\ s.user = r.user
            /\ s.device = r.device /\ s.own = r.own /\ s.cookie = r.cookie
            /\ s.got = r.got
      <4> DEFINE c == IF r.kind = "continue" THEN "register" ELSE "answer"
                 p == [r EXCEPT !.carried = next, !.pc = c]
      <4>0. c \in {"register", "answer"}
        OBVIOUS
      <4>2. To(r, p)
        BY <2>1, <3>1
      <4> HIDE DEF c
      <4>1. /\ p \in Request /\ p.carried = next /\ p.seen = r.seen /\ p.pc = c
            /\ p.kind = r.kind /\ p.surface = r.surface /\ p.user = r.user
            /\ p.device = r.device /\ p.own = r.own /\ p.cookie = r.cookie
            /\ p.got = r.got
        BY <1>1, <2>2, <4>0 DEF Request
      <4> HIDE DEF p
      <4> QED
        BY <4>1, <4>2 DEF c
    <3>3. Carried(s.carried, BrowserOf[s.surface])' /\ r.cookie # None
      BY <1>2, <2>2, <2>3, <2>5, <3>1, <3>2, SessionsAssumption DEF Carried
    <3>4. TokensSound(s)'
      BY <2>9, <3>2, <3>3 DEF RequestSound, TokensSound
    <3>5. r.kind # "logout" /\ (r.kind # "continue" => r.got # None /\ r.device # None)
      BY <1>1, <2>11 DEF RequestSound, RefreshSound, SignInSound, LogoutSound, Request
    <3>6. RequestSound(s, sessions)'
      BY <1>1, <2>9, <3>2, <3>3, <3>4, <3>5 DEF RequestSound, StageSound, RefreshSound,
                                                SignInSound, LogoutSound
    <3> QED
      BY <1>1, <2>5, <2>8, <3>2, <3>6, ServedHolds DEF IInv, TypeOK
  <2> QED
    BY <2>10, <2>11
<1> QED
  BY <1>4, <1>5

LEMMA IssueHolds ==
    ASSUME IInv, NEW r \in requests, Issue(r)
    PROVE  IInv'
<1> DEFINE x == IF r.got = None THEN r.surface ELSE BrowserOf[r.surface]
           next == NewToken(x)
           new == [device |-> r.device, family |-> Some(FreeFamilies(x)), used |-> "no",
                   revoked |-> FALSE]
<1>1. /\ r \in Request /\ RequestSound(r, sessions) /\ r.pc = "issue"
      /\ UNCHANGED <<devices, sessions, jar, late, trouble>>
  BY DEF IInv, TypeOK, RequestsSound, Issue
<1>2. /\ r.kind \in {"session", "refresh", "continue"}
      /\ r.device # None /\ r.device \in Devices /\ devices[r.device] # None
      /\ r.got # None => BrowserOf[r.surface] # None
      /\ r.got = None => r.kind # "refresh"
  BY <1>1 DEF RequestSound, TokensSound, StageSound, RefreshSound, LogoutSound, Request
<1>3. x \in Surfaces \cup Browsers
  BY <1>1, <1>2, SessionsAssumption DEF Request
<1>4. /\ Free(x) # {} /\ FreeFamilies(x) # {} /\ rows' = [rows EXCEPT ![next] = new]
      /\ IF r.got = None
           THEN To(r, [r EXCEPT !.got = next,
                         !.pc = IF r.kind = "continue" THEN "answer" ELSE Carry(r)])
           ELSE To(r, [r EXCEPT !.carried = next, !.pc = "answer"])
  BY DEF Issue
<1>5. next \in Tokens /\ next[1] = x /\ next \notin HeldNow /\ next # None
  BY <1>3, <1>4, NewTokenIs, SessionsAssumption
<1>6. Some(FreeFamilies(x)) \in FreeFamilies(x)
  BY <1>4 DEF Some
<1>7. /\ new \in Row /\ new.device = r.device /\ ~new.revoked /\ new.used = "no"
      /\ new.family = Some(FreeFamilies(x))
      /\ \A u \in Tokens : u[1] = x /\ rows[u] # None => rows[u].family # new.family
  BY <1>2, <1>6 DEF Row, FreeFamilies
<1> HIDE DEF next, new
<1>8. /\ rows' \in [Tokens -> Row \cup {None}] /\ rows'[next] = new
      /\ \A u \in Tokens \ {next} : rows'[u] = rows[u]
  BY <1>4, <1>5, <1>7 DEF IInv, TypeOK
<1>9. WorldKept /\ RowsSound' /\ FamiliesApart'
  BY <1>1, <1>2, <1>5, <1>7, <1>8, NewRowSound
<1>10. RequestSound(r, sessions)'
  BY <1>1, <1>9, OthersKept
<1>11. CASE r.got = None
  <2> DEFINE c == IF r.kind = "continue" THEN "answer" ELSE Carry(r)
             p == [r EXCEPT !.got = next, !.pc = c]
  <2>1. /\ c \in {"answer", "issue", "look"}
        /\ c = "issue" => BrowserOf[r.surface] # None
        /\ c = "look" => r.cookie # None
        /\ r.kind = "continue" => c = "answer"
    BY DEF Carry
  <2>2. To(r, p)
    BY <1>4, <1>11
  <2> HIDE DEF c
  <2>3. /\ p \in Request /\ p.pc = c /\ p.got = next /\ p.seen = r.seen
        /\ p.kind = r.kind /\ p.surface = r.surface /\ p.user = r.user
        /\ p.device = r.device /\ p.own = r.own /\ p.cookie = r.cookie
        /\ p.carried = r.carried
    BY <1>1, <1>5, <2>1 DEF Request
  <2> HIDE DEF p
  <2>4. PICK s \in Request :
          /\ To(r, s) /\ s.got = next /\ s.seen = r.seen
          /\ s.pc \in {"answer", "issue", "look"}
          /\ s.pc = "issue" => BrowserOf[r.surface] # None
          /\ s.pc = "look" => r.cookie # None
          /\ r.kind = "continue" => s.pc = "answer"
          /\ s.kind = r.kind /\ s.surface = r.surface /\ s.user = r.user
          /\ s.device = r.device /\ s.own = r.own /\ s.cookie = r.cookie
          /\ s.carried = r.carried
    BY <2>1, <2>2, <2>3
  <2>5. Serves(s.got, s.surface, s.device)'
    BY <1>5, <1>7, <1>8, <1>11, <2>4, SessionsAssumption DEF Serves
  <2>6. TokensSound(s)'
    BY <1>10, <2>4, <2>5 DEF RequestSound, TokensSound
  <2>7. RequestSound(s, sessions)'
    BY <1>1, <1>2, <1>5, <1>10, <1>11, <2>4, <2>6
       DEF RequestSound, StageSound, RefreshSound, SignInSound, LogoutSound
  <2> QED
    BY <1>1, <1>8, <1>9, <2>4, <2>7, ServedHolds DEF IInv, TypeOK
<1>12. CASE r.got # None
  <2> DEFINE p == [r EXCEPT !.carried = next, !.pc = "answer"]
  <2>1. To(r, p)
    BY <1>4, <1>12
  <2>2. /\ p \in Request /\ p.pc = "answer" /\ p.carried = next /\ p.seen = r.seen
        /\ p.kind = r.kind /\ p.surface = r.surface /\ p.user = r.user
        /\ p.device = r.device /\ p.own = r.own /\ p.cookie = r.cookie
        /\ p.got = r.got
    BY <1>1, <1>5 DEF Request
  <2> HIDE DEF p
  <2>3. PICK s \in Request :
          /\ To(r, s) /\ s.carried = next /\ s.seen = r.seen /\ s.pc = "answer"
          /\ s.kind = r.kind /\ s.surface = r.surface /\ s.user = r.user
          /\ s.device = r.device /\ s.own = r.own /\ s.cookie = r.cookie
          /\ s.got = r.got
    BY <2>1, <2>2
  <2>4. Carried(s.carried, BrowserOf[s.surface])'
    BY <1>5, <1>7, <1>8, <1>12, <2>3, SessionsAssumption DEF Carried
  <2>5. TokensSound(s)'
    BY <1>10, <2>3, <2>4 DEF RequestSound, TokensSound
  <2>6. RequestSound(s, sessions)'
    BY <1>1, <1>2, <1>10, <1>12, <2>3, <2>5
       DEF RequestSound, StageSound, RefreshSound, SignInSound, LogoutSound
  <2> QED
    BY <1>1, <1>8, <1>9, <2>3, <2>6, ServedHolds DEF IInv, TypeOK
<1> QED
  BY <1>11, <1>12

-----------------------------------------------------------------------------
(* Time, and a device that is revoked.                                     *)

LEMMA GraceEndsHolds ==
    ASSUME IInv, NEW t \in Tokens, GraceEnds(t)
    PROVE  IInv'
<1>1. /\ UNCHANGED <<devices, sessions, jar, requests>>
      /\ rows[t] # None /\ rows[t] \in Row /\ rows' = [rows EXCEPT ![t].used = "long"]
      /\ late' = (late \/ t \in HeldNow)
      /\ trouble < MaxTrouble /\ trouble' = trouble + 1
      /\ None \notin Row
  BY SessionsAssumption DEF IInv, TypeOK, GraceEnds, Trouble
<1> DEFINE x == [rows[t] EXCEPT !.used = "long"]
<1>2. /\ x \in Row /\ x.device = rows[t].device /\ x.family = rows[t].family
      /\ x.revoked = rows[t].revoked
  BY <1>1 DEF Row
<1>3. /\ rows' \in [Tokens -> Row \cup {None}] /\ rows'[t] = x
      /\ \A u \in Tokens \ {t} : rows'[u] = rows[u]
  BY <1>1, <1>2 DEF IInv, TypeOK
<1> HIDE DEF x
<1>4. \A u \in Tokens :
        /\ rows'[u] = None <=> rows[u] = None
        /\ rows[u] # None =>
             /\ rows'[u].device = rows[u].device /\ rows'[u].family = rows[u].family
             /\ rows'[u].revoked = rows[u].revoked
  BY <1>1, <1>2, <1>3
<1>5. \A u \in HeldNow : Follows(u, u)
  BY <1>1, <1>3, <1>4, HeldRows DEF Follows
<1>6. \A d \in Devices : /\ devices[d] # None => DeviceKept(d)
                         /\ Excused(d) => ExcusedNext(d)
  BY <1>1 DEF DeviceKept, DeviceLives, Excused, ExcusedNext, Live
<1>7. WorldKept
  BY <1>1, <1>5, <1>6 DEF WorldKept
<1>8. RowsSound'
  <2>1. ASSUME NEW u \in Tokens, rows'[u] # None
        PROVE  /\ devices'[rows'[u].device] # None
               /\ u[1] \in Surfaces /\ rows'[u].revoked => ExcusedNext(rows'[u].device)
    <3>1. /\ rows[u].device \in Devices /\ devices[rows[u].device] # None
          /\ u[1] \in Surfaces /\ rows[u].revoked => Excused(rows[u].device)
      BY <1>4, <2>1 DEF IInv, TypeOK, RowsSound, Row
    <3> QED
      BY <1>1, <1>4, <1>6, <2>1, <3>1
  <2> QED
    BY <2>1 DEF RowsSound, Excused, ExcusedNext, Live
<1>9. FamiliesApart'
  BY <1>4 DEF IInv, FamiliesApart
<1>10. SessionsSound(sessions)' /\ JarSound(jar)' /\ \A r \in requests : RequestSound(r, sessions)'
  BY <1>1, <1>7, OthersKept
<1>11. RequestsSound(requests, sessions)' /\ OneAtATime(requests)'
  BY <1>1, <1>10 DEF IInv, RequestsSound, OneAtATime
<1>12. TypeOK'
  BY <1>1, <1>3, SessionsAssumption DEF IInv, TypeOK
<1> QED
  BY <1>8, <1>9, <1>10, <1>11, <1>12 DEF IInv

LEMMA RevokeDeviceHolds ==
    ASSUME IInv, NEW d \in Devices, RevokeDevice(d)
    PROVE  IInv'
<1>1. /\ UNCHANGED <<sessions, jar, requests, late>>
      /\ devices[d] # None /\ devices[d] \in Device
      /\ devices' = [devices EXCEPT ![d].status = "revoked"]
      /\ Revoke(OfDevice(d))
      /\ trouble < MaxTrouble /\ trouble' = trouble + 1
      /\ None \notin Device
  BY SessionsAssumption DEF IInv, TypeOK, RevokeDevice, Trouble
<1> DEFINE x == [devices[d] EXCEPT !.status = "revoked"]
<1>2. x \in Device /\ x.surface = devices[d].surface /\ x.status = "revoked"
  BY <1>1 DEF Device
<1>3. /\ devices' \in [Devices -> Device \cup {None}] /\ devices'[d] = x
      /\ \A e \in Devices \ {d} : devices'[e] = devices[e]
  BY <1>1, <1>2 DEF IInv, TypeOK
<1> HIDE DEF x
<1>4. \A e \in Devices : devices[e] # None => DeviceKept(e)
  <2>1. DeviceKept(d)
    BY <1>1, <1>2, <1>3 DEF DeviceKept, DeviceLives, ExcusedNext
  <2>2. ASSUME NEW e \in Devices \ {d}, devices[e] # None
        PROVE  DeviceKept(e)
    BY <1>1, <1>3, <2>2 DEF DeviceKept, DeviceLives, Excused, ExcusedNext, Live
  <2> QED
    BY <2>1, <2>2
<1>5. /\ OfDevice(d) \in SUBSET Tokens
      /\ \A t \in OfDevice(d) : rows[t] # None /\ ExcusedNext(rows[t].device)
  BY <1>2, <1>3 DEF OfDevice, Unrevoked, ExcusedNext
<1>6. WorldKept /\ RowsSound' /\ FamiliesApart' /\ rows' \in [Tokens -> Row \cup {None}]
  BY <1>1, <1>4, <1>5, RevokeSound
<1>7. SessionsSound(sessions)' /\ JarSound(jar)' /\ \A r \in requests : RequestSound(r, sessions)'
  BY <1>1, <1>6, OthersKept
<1>8. RequestsSound(requests, sessions)' /\ OneAtATime(requests)'
  BY <1>1, <1>7 DEF IInv, RequestsSound, OneAtATime
<1>9. TypeOK'
  BY <1>1, <1>3, <1>6, SessionsAssumption DEF IInv, TypeOK
<1> QED
  BY <1>6, <1>7, <1>8, <1>9 DEF IInv

-----------------------------------------------------------------------------
(* A surface asks.                                                         *)

LEMMA SentHolds ==
    ASSUME IInv, NEW r \in Request, r.kind # "logout", Idle(r.surface),
           RequestSound(r, sessions), requests' = requests \cup {r},
           UNCHANGED <<devices, rows, sessions, jar, late, trouble>>
    PROVE  IInv'
<1>1. WorldKept /\ RowsSound' /\ FamiliesApart'
  BY StillHolds
<1>2. SessionsSound(sessions)' /\ JarSound(jar)'
  BY <1>1, OthersKept
<1>3. \A q \in requests' : RequestSound(q, sessions)'
  BY DEF IInv, RequestsSound, RequestSound, TokensSound, StageSound, RefreshSound,
         SignInSound, LogoutSound, Serves, Carried, Excused, Live
<1>4. RequestsSound(requests, sessions)'
  BY <1>3 DEF RequestsSound
<1>5. OneAtATime(requests)'
  BY DEF IInv, OneAtATime, Idle
<1>6. TypeOK'
  BY DEF IInv, TypeOK
<1> QED
  BY <1>1, <1>2, <1>4, <1>5, <1>6 DEF IInv

\* What a surface sends along is a token its browser has.
LEMMA CookieSound ==
    ASSUME IInv, NEW s \in Surfaces
    PROVE  /\ Cookie(s) \in Tokens \cup {None}
           /\ Cookie(s) # None => Carried(Cookie(s), BrowserOf[s])
BY SessionsAssumption DEF IInv, TypeOK, JarSound, Cookie

LEMMA SendSessionHolds ==
    ASSUME IInv, NEW s \in Surfaces, NEW u \in Users, SendSession(s, u)
    PROVE  IInv'
<1> DEFINE r == [Blank(s) EXCEPT !.user = u]
<1>1. /\ r.kind = "session" /\ r.pc = "register" /\ r.surface = s /\ r.user = u
      /\ r.device = None /\ r.own = None /\ r.cookie = Cookie(s) /\ r.got = None
      /\ r.carried = None /\ r.seen = None
  BY DEF Blank
<1>2. r \in Request
  BY CookieSound DEF Request, Blank
<1>3. u # None
  BY SessionsAssumption
<1> HIDE DEF r
<1>4. RequestSound(r, sessions)
  BY <1>1, <1>3, CookieSound DEF SendSession, RequestSound, TokensSound, StageSound,
                                 RefreshSound, SignInSound, LogoutSound
<1> QED
  BY <1>1, <1>2, <1>4, SentHolds DEF SendSession, Send, r

LEMMA SendRefreshHolds ==
    ASSUME IInv, NEW s \in Surfaces, SendRefresh(s)
    PROVE  IInv'
<1> DEFINE r == [Blank(s) EXCEPT !.kind = "refresh", !.pc = "look",
                   !.own = sessions[s].token, !.device = sessions[s].device]
<1>1. /\ sessions[s] # None /\ sessions[s].token \in Tokens /\ sessions[s].device \in Devices
      /\ sessions[s].token # None /\ sessions[s].device # None
  BY SessionsAssumption DEF IInv, TypeOK, SendRefresh
<1>2. /\ r.kind = "refresh" /\ r.pc = "look" /\ r.surface = s /\ r.user = None
      /\ r.device = sessions[s].device /\ r.own = sessions[s].token
      /\ r.cookie = Cookie(s) /\ r.got = None /\ r.carried = None /\ r.seen = None
  BY DEF Blank
<1>3. r \in Request
  BY <1>1, CookieSound DEF Request, Blank
<1>4. Serves(sessions[s].token, s, sessions[s].device)
  BY <1>1 DEF IInv, SessionsSound
<1>5. devices[sessions[s].device] # None
  BY <1>1, <1>4 DEF IInv, RowsSound, Serves
<1> HIDE DEF r
<1>6. RequestSound(r, sessions)
  BY <1>1, <1>2, <1>4, <1>5, CookieSound DEF RequestSound, TokensSound, StageSound,
                                             RefreshSound, SignInSound, LogoutSound
<1> QED
  BY <1>2, <1>3, <1>6, SentHolds DEF SendRefresh, Send, r

LEMMA SendContinueHolds ==
    ASSUME IInv, NEW s \in Surfaces, SendContinue(s)
    PROVE  IInv'
<1> DEFINE r == [Blank(s) EXCEPT !.kind = "continue", !.pc = "look"]
<1>1. /\ r.kind = "continue" /\ r.pc = "look" /\ r.surface = s /\ r.user = None
      /\ r.device = None /\ r.own = None /\ r.cookie = Cookie(s) /\ r.got = None
      /\ r.carried = None /\ r.seen = None
  BY DEF Blank
<1>2. r \in Request
  BY CookieSound DEF Request, Blank
<1> HIDE DEF r
<1>3. RequestSound(r, sessions)
  BY <1>1, CookieSound DEF SendContinue, RequestSound, TokensSound, StageSound,
                           RefreshSound, SignInSound, LogoutSound
<1> QED
  BY <1>1, <1>2, <1>3, SentHolds DEF SendContinue, Send, r

\* A logout takes the keys of one device; no other session and no sign-in has it.
LEMMA SendLogoutHolds ==
    ASSUME IInv, NEW s \in Surfaces, SendLogout(s)
    PROVE  IInv'
<1> DEFINE d == sessions[s].device
           n == [Blank(s) EXCEPT !.kind = "logout", !.pc = "revoke", !.device = d]
           x == [devices[d] EXCEPT !.surface = None]
<1>1. /\ sessions[s] # None /\ d \in Devices /\ d # None
      /\ Serves(sessions[s].token, s, d) /\ devices[d].surface = s
      /\ s # None /\ None \notin Device
  BY SessionsAssumption DEF IInv, TypeOK, SessionsSound, SendLogout
<1>2. devices[d] # None /\ devices[d] \in Device
  BY <1>1 DEF IInv, TypeOK, RowsSound, Serves
<1>3. /\ requests' = requests \cup {n}
      /\ sessions' = [sessions EXCEPT ![s] = None]
      /\ devices' = [devices EXCEPT ![d] = x]
      /\ UNCHANGED <<rows, jar, late>>
      /\ trouble < MaxTrouble /\ trouble' = trouble + 1
  BY DEF SendLogout, Send, Trouble
<1>4. x \in Device /\ x.surface = None /\ x.status = devices[d].status
  BY <1>2 DEF Device
<1>5. /\ n \in Request /\ n.kind = "logout" /\ n.pc = "revoke" /\ n.surface = s
      /\ n.user = None /\ n.device = d /\ n.own = None /\ n.cookie = Cookie(s)
      /\ n.got = None /\ n.carried = None /\ n.seen = None
  BY <1>1, CookieSound DEF Request, Blank
<1> HIDE DEF d, n, x
<1>6. /\ devices' \in [Devices -> Device \cup {None}] /\ devices'[d] = x
      /\ \A e \in Devices \ {d} : devices'[e] = devices[e]
      /\ sessions' \in [Surfaces -> [device : Devices, token : Tokens] \cup {None}]
      /\ sessions'[s] = None
      /\ \A z \in Surfaces \ {s} : sessions'[z] = sessions[z]
  BY <1>1, <1>3, <1>4 DEF IInv, TypeOK
<1>7. \A e \in Devices : devices[e] # None => DeviceLives(e)
  <2>1. DeviceLives(d)
    BY <1>1, <1>4, <1>6 DEF DeviceLives, ExcusedNext
  <2>2. ASSUME NEW e \in Devices \ {d}, devices[e] # None
        PROVE  DeviceLives(e)
    BY <1>3, <1>6, <2>2 DEF DeviceLives, Excused, ExcusedNext, Live
  <2> QED
    BY <2>1, <2>2
<1>8. \A e \in Devices : devices[e] # None /\ devices[e].surface # s => DeviceKept(e)
  BY <1>1, <1>6, <1>7 DEF DeviceKept
<1>9. RowsSound' /\ FamiliesApart'
  BY <1>3, <1>7, RowsStillSound
<1>10. \A t \in HeldNow : Follows(t, t)
  BY <1>3, HeldRows DEF Follows
<1>11. SessionsSound(sessions)'
  <2>1. ASSUME NEW z \in Surfaces, sessions'[z] # None
        PROVE  /\ Serves(sessions'[z].token, z, sessions'[z].device)
               /\ devices'[sessions'[z].device].surface = z
    <3>1. /\ z # s /\ sessions'[z] = sessions[z] /\ sessions[z].device \in Devices
          /\ Serves(sessions[z].token, z, sessions[z].device)
          /\ devices[sessions[z].device].surface = z
      BY <1>6, <2>1 DEF IInv, TypeOK, SessionsSound
    <3> QED
      BY <1>1, <1>6, <3>1
  <2> QED
    BY <1>3, <2>1 DEF SessionsSound, Serves
<1>12. JarSound(jar)'
  BY <1>3 DEF IInv, JarSound, Carried
<1>13. ASSUME NEW r \in requests
       PROVE  RequestSound(r, sessions)'
  <2>1. /\ \A t \in {r.own, r.cookie, r.got, r.carried} : t # None => t \in HeldNow
        /\ r.seen # None => r.seen \subseteq HeldNow
        /\ HeldNow \subseteq Tokens
    BY HeldTokens DEF IInv, TypeOK, HeldNow
  <2>2. r \in Request /\ RequestSound(r, sessions)
    BY DEF IInv, TypeOK, RequestsSound
  <2>3. /\ BecomesToken(r.own, r.own) /\ BecomesToken(r.cookie, r.cookie)
        /\ BecomesToken(r.got, r.got) /\ BecomesToken(r.carried, r.carried)
    BY <1>10, <2>1 DEF BecomesToken
  <2>4. ASSUME r.seen # None, NEW t \in r.seen
        PROVE  Follows(t, t) /\ DeviceLives(rows[t].device)
    BY <1>7, <1>10, <2>1, <2>4, HeldRows DEF IInv, TypeOK, RowsSound, Row
  <2>5. r.device # None => r.device \in Devices /\ DeviceLives(r.device)
    BY <1>7, <2>2 DEF Request, RequestSound, TokensSound
  <2>6. r.kind \in {"session", "continue"} /\ r.device # None => DeviceKept(r.device)
    BY <1>1, <1>8, <2>2, <2>5 DEF RequestSound, TokensSound, SignInSound
  <2>7. Becomes(r, r)
    BY <2>3, <2>4, <2>5, <2>6 DEF Becomes
  <2>8. r.surface \in Surfaces
    BY <2>2 DEF Request
  <2>9. /\ sessions[r.surface] = None => sessions'[r.surface] = None
        /\ sessions'[r.surface] # None =>
             sessions'[r.surface].device = sessions[r.surface].device
    BY <1>6, <2>8
  <2> QED
    BY <1>3, <2>2, <2>7, <2>9, RequestKept
<1>14. PICK m \in Request :
         /\ m = n /\ m.kind = "logout" /\ m.pc = "revoke" /\ m.surface = s
         /\ m.device \in Devices /\ m.device # None /\ devices'[m.device] = x
         /\ m.own = None /\ m.got = None /\ m.carried = None /\ m.seen = None
         /\ m.cookie # None => Carried(m.cookie, BrowserOf[s])
  BY <1>1, <1>5, <1>6, CookieSound
<1>15. RequestSound(m, sessions)'
  BY <1>3, <1>4, <1>14, SessionsAssumption
     DEF RequestSound, TokensSound, StageSound, RefreshSound, SignInSound, LogoutSound, Carried
<1>16. RequestsSound(requests, sessions)'
  <2>1. \A r \in requests' : RequestSound(r, sessions)'
    BY <1>3, <1>13, <1>14, <1>15
  <2> QED
    BY <2>1 DEF RequestsSound
<1>17. OneAtATime(requests)'
  BY <1>3, <1>5 DEF IInv, OneAtATime
<1>18. TypeOK'
  BY <1>3, <1>5, <1>6, SessionsAssumption DEF IInv, TypeOK
<1> QED
  BY <1>9, <1>11, <1>12, <1>16, <1>17, <1>18 DEF IInv

-----------------------------------------------------------------------------
(* Answers and losses: what is not held any more is dropped.               *)

\* Every kept token lives on as the row of its new name, and no other row does.
LEMMA SettledRows ==
    ASSUME TypeOK, NEW ss, NEW j, NEW rs, Settle(ss, j, rs),
           NEW kept, kept = Held(ss, j, rs), kept \subseteq Tokens,
           \A v \in kept : rows[v] # None
    PROVE  /\ rows' \in [Tokens -> Row \cup {None}]
           /\ \A t \in kept :
                /\ rows'[Name(t, kept)] # None
                /\ rows'[Name(t, kept)].device = rows[t].device
                /\ rows'[Name(t, kept)].used = rows[t].used
                /\ rows'[Name(t, kept)].revoked = rows[t].revoked
                /\ rows'[Name(t, kept)].family = FamilyName(t, kept)
           /\ \A u \in Tokens : rows'[u] # None => \E t \in kept : u = Name(t, kept)
<1> DEFINE Moved(u) == [rows[u] EXCEPT !.family = FamilyName(u, kept)]
           At(t) == CHOOSE u \in kept : Name(u, kept) = t
<1>1. rows' = [t \in Tokens |-> IF \E u \in kept : Name(u, kept) = t
                                THEN Moved(At(t)) ELSE None]
  BY DEF Settle
<1>2. ASSUME NEW u \in kept
      PROVE  /\ Moved(u) \in Row /\ Moved(u) # None
             /\ Moved(u).device = rows[u].device /\ Moved(u).used = rows[u].used
             /\ Moved(u).revoked = rows[u].revoked /\ Moved(u).family = FamilyName(u, kept)
  <2>1. rows[u] \in Row
    BY DEF TypeOK
  <2>2. FamilyName(u, kept) \in Numbers
    BY FamilyNameApart
  <2>3. None \notin Row
    BY SessionsAssumption
  <2> QED
    BY <2>1, <2>2, <2>3 DEF Row
<1> HIDE DEF Moved
<1>3. ASSUME NEW t \in Tokens, NEW u \in kept, Name(u, kept) = t
      PROVE  At(t) = u
  <2>1. At(t) \in kept /\ Name(At(t), kept) = t
    BY <1>3
  <2> HIDE DEF At
  <2> QED
    BY <1>3, <2>1, NameApart
<1> HIDE DEF At
<1>4. \A t \in kept : Name(t, kept) \in Tokens /\ rows'[Name(t, kept)] = Moved(t)
  <2>1. ASSUME NEW t \in kept
        PROVE  Name(t, kept) \in Tokens /\ rows'[Name(t, kept)] = Moved(t)
    <3>1. Name(t, kept) \in Tokens
      BY NameType
    <3>2. At(Name(t, kept)) = t
      BY <1>3, <3>1
    <3> QED
      BY <1>1, <3>1, <3>2
  <2> QED
    BY <2>1
<1>5. \A u \in Tokens : rows'[u] # None => \E t \in kept : u = Name(t, kept)
  BY <1>1
<1>6. ASSUME NEW u \in Tokens
      PROVE  rows'[u] \in Row \cup {None}
  BY <1>2, <1>4, <1>5
<1>7. rows' \in [Tokens -> Row \cup {None}]
  BY <1>1, <1>6
<1> QED
  BY <1>2, <1>4, <1>5, <1>7

LEMMA SettleHolds ==
    ASSUME IInv,
           NEW ss \in [Surfaces -> [device : Devices, token : Tokens] \cup {None}],
           NEW j \in [Browsers -> Tokens \cup {None}],
           NEW rs \in SUBSET requests,
           SessionsSound(ss), JarSound(j), RequestsSound(rs, ss),
           Settle(ss, j, rs), late' = late, trouble' \in 0..MaxTrouble
    PROVE  IInv'
<1> DEFINE kept == Held(ss, j, rs)
           known == {rows[t].device : t \in kept} \cup {r.device : r \in rs}
<1>1. /\ rs \in SUBSET Request /\ None \notin Tokens /\ None \notin Device
      /\ TypeOK /\ RowsSound /\ FamiliesApart
  BY SessionsAssumption DEF IInv, TypeOK
<1>2. /\ kept \subseteq Tokens
      /\ \A s \in Surfaces : ss[s] # None => ss[s].token \in kept
      /\ \A b \in Browsers : j[b] # None => j[b] \in kept
      /\ \A r \in rs :
           /\ \A t \in {r.own, r.cookie, r.got, r.carried} : t # None => t \in kept
           /\ r.seen # None => r.seen \subseteq kept
  BY <1>1, HeldTokens
<1>3. \A t \in kept : rows[t] # None
  BY HeldBy DEF SessionsSound, JarSound, RequestsSound, RequestSound, TokensSound, Serves, Carried
<1>4. /\ sessions' = [s \in Surfaces |->
           IF ss[s] = None THEN None ELSE [ss[s] EXCEPT !.token = Name(ss[s].token, kept)]]
      /\ jar' = [b \in Browsers |-> Name(j[b], kept)]
      /\ requests' = {Renamed(r, kept) : r \in rs}
      /\ devices' = [d \in Devices |->
           IF devices[d] # None /\ devices[d].surface = None /\ d \notin known
             THEN None ELSE devices[d]]
  BY DEF Settle
<1>5. /\ rows' \in [Tokens -> Row \cup {None}]
      /\ \A t \in kept :
           /\ rows'[Name(t, kept)] # None
           /\ rows'[Name(t, kept)].device = rows[t].device
           /\ rows'[Name(t, kept)].used = rows[t].used
           /\ rows'[Name(t, kept)].revoked = rows[t].revoked
           /\ rows'[Name(t, kept)].family = FamilyName(t, kept)
      /\ \A u \in Tokens : rows'[u] # None => \E t \in kept : u = Name(t, kept)
  BY <1>1, <1>2, <1>3, SettledRows
<1>6. \A t \in kept : /\ rows[t].device \in known /\ rows[t].device \in Devices
                      /\ devices[rows[t].device] # None
  BY <1>1, <1>2, <1>3 DEF TypeOK, RowsSound, Row
<1>7. \A r \in rs : r.device \in known
  OBVIOUS
<1> HIDE DEF kept, known
<1>8. Name(None, kept) = None
  BY DEF Name
<1>9. \A t \in kept : /\ Name(t, kept) \in Tokens /\ Name(t, kept)[1] = t[1]
                      /\ Name(t, kept) # None
  BY <1>2, NameType
<1>10. \A t \in kept : Follows(t, Name(t, kept))
  BY <1>5, <1>9 DEF Follows
<1>11. \A d \in Devices : d \in known \/ devices[d].surface # None => devices'[d] = devices[d]
  BY <1>4
<1>12. \A d \in Devices : devices[d] # None /\ (d \in known \/ devices[d].surface # None)
                          => DeviceKept(d)
  BY <1>11 DEF DeviceKept, DeviceLives, Excused, ExcusedNext, Live
<1>13. RowsSound'
  <2>1. ASSUME NEW u \in Tokens, rows'[u] # None
        PROVE  /\ devices'[rows'[u].device] # None
               /\ u[1] \in Surfaces /\ rows'[u].revoked => ExcusedNext(rows'[u].device)
    <3>1. PICK t \in kept : u = Name(t, kept)
      BY <1>5, <2>1
    <3>2. /\ rows'[u].device = rows[t].device /\ rows'[u].revoked = rows[t].revoked
          /\ u[1] = t[1] /\ t \in Tokens
      BY <1>2, <1>5, <1>9, <3>1
    <3>3. DeviceKept(rows[t].device)
      BY <1>6, <1>12
    <3>4. t[1] \in Surfaces /\ rows[t].revoked => Excused(rows[t].device)
      BY <1>1, <1>3, <3>2 DEF RowsSound
    <3> QED
      BY <3>2, <3>3, <3>4 DEF DeviceKept, DeviceLives
  <2> QED
    BY <2>1 DEF RowsSound, Excused, ExcusedNext, Live
<1>14. FamiliesApart'
  <2>1. ASSUME NEW t \in Tokens, NEW u \in Tokens, rows'[t] # None, rows'[u] # None,
               t[1] \in Surfaces, u[1] = t[1], rows'[u].family = rows'[t].family
        PROVE  rows'[u].device = rows'[t].device
    <3>1. PICK v \in kept, w \in kept : t = Name(v, kept) /\ u = Name(w, kept)
      BY <1>5, <2>1
    <3>2. /\ v \in Tokens /\ w \in Tokens /\ w[1] = v[1] /\ v[1] \in Surfaces
          /\ FamilyName(w, kept) = FamilyName(v, kept)
          /\ rows'[t].device = rows[v].device /\ rows'[u].device = rows[w].device
      BY <1>2, <1>5, <1>9, <2>1, <3>1
    <3>3. rows[w].family = rows[v].family
      BY <1>1, <1>2, <1>3, <3>2, FamilyNameApart
    <3> QED
      BY <1>1, <1>3, <3>2, <3>3 DEF FamiliesApart
  <2> QED
    BY <2>1 DEF FamiliesApart
<1>15. /\ sessions' \in [Surfaces -> [device : Devices, token : Tokens] \cup {None}]
       /\ \A s \in Surfaces :
            /\ ss[s] = None => sessions'[s] = None
            /\ ss[s] # None => /\ sessions'[s].device = ss[s].device
                               /\ sessions'[s].token = Name(ss[s].token, kept)
  <2>1. ASSUME NEW s \in Surfaces, ss[s] # None
        PROVE  /\ ss[s] \in [device : Devices, token : Tokens]
               /\ Name(ss[s].token, kept) \in Tokens
    BY <1>2, <1>9, <2>1
  <2> QED
    BY <1>4, <2>1
<1>16. SessionsSound(sessions)'
  <2>1. ASSUME NEW s \in Surfaces, sessions'[s] # None
        PROVE  /\ Serves(sessions[s].token, s, sessions[s].device)'
               /\ devices'[sessions'[s].device].surface = s
    <3>1. /\ ss[s] # None /\ ss[s].token \in kept
          /\ Serves(ss[s].token, s, ss[s].device) /\ devices[ss[s].device].surface = s
          /\ sessions'[s].device = ss[s].device
          /\ sessions'[s].token = Name(ss[s].token, kept)
      BY <1>2, <1>15, <2>1 DEF SessionsSound
    <3>2. /\ Follows(ss[s].token, sessions'[s].token)
          /\ ss[s].device \in known /\ ss[s].device \in Devices
      BY <1>6, <1>10, <3>1 DEF Serves
    <3>3. devices'[ss[s].device].surface = s
      BY <1>11, <3>1, <3>2
    <3> QED
      BY <3>1, <3>2, <3>3 DEF Serves, Follows
  <2> QED
    BY <2>1 DEF SessionsSound
<1>17. jar' \in [Browsers -> Tokens \cup {None}] /\ JarSound(jar)'
  <2>1. ASSUME NEW b \in Browsers
        PROVE  /\ jar'[b] \in Tokens \cup {None}
               /\ jar'[b] # None => Carried(jar[b], b)'
    <3>1. jar'[b] = Name(j[b], kept)
      BY <1>4
    <3>2. CASE j[b] = None
      BY <1>8, <3>1, <3>2
    <3>3. CASE j[b] # None
      <4>1. j[b] \in kept /\ Carried(j[b], b)
        BY <1>2, <3>3 DEF JarSound
      <4>2. jar'[b] \in Tokens /\ Follows(j[b], jar'[b])
        BY <1>9, <1>10, <3>1, <4>1
      <4> QED
        BY <4>1, <4>2 DEF Carried, Follows
    <3> QED
      BY <3>2, <3>3
  <2>2. JarSound(jar)'
    BY <2>1 DEF JarSound
  <2>3. jar' \in [Browsers -> Tokens \cup {None}]
    BY <1>4, <2>1, Zenon
  <2> QED
    BY <2>2, <2>3
<1>18. ASSUME NEW r \in rs
       PROVE  /\ Renamed(r, kept) \in Request
              /\ Becomes(r, Renamed(r, kept))
  <2> DEFINE p == Renamed(r, kept)
  <2>1. r \in Request /\ RequestSound(r, ss)
    BY <1>1 DEF RequestsSound
  <2>2. \A t \in {r.own, r.cookie, r.got, r.carried} :
          Name(t, kept) \in Tokens \cup {None} /\ BecomesToken(t, Name(t, kept))
    BY <1>2, <1>8, <1>9, <1>10 DEF BecomesToken
  <2>3. r.seen # None => {Name(t, kept) : t \in r.seen} \in SUBSET Tokens
    BY <1>2, <1>9
  <2>4. /\ p.kind = r.kind /\ p.pc = r.pc /\ p.surface = r.surface
        /\ p.user = r.user /\ p.device = r.device
        /\ p.own = Name(r.own, kept) /\ p.cookie = Name(r.cookie, kept)
        /\ p.got = Name(r.got, kept) /\ p.carried = Name(r.carried, kept)
        /\ p.seen = IF r.seen = None THEN None ELSE {Name(t, kept) : t \in r.seen}
    BY <2>1 DEF Renamed, Request
  <2>5. p \in Request
    <3> DEFINE seen == IF r.seen = None THEN None ELSE {Name(t, kept) : t \in r.seen}
    <3>1. /\ Name(r.own, kept) \in Tokens \cup {None}
          /\ Name(r.cookie, kept) \in Tokens \cup {None}
          /\ Name(r.got, kept) \in Tokens \cup {None}
          /\ Name(r.carried, kept) \in Tokens \cup {None}
          /\ seen \in (SUBSET Tokens) \cup {None}
      BY <2>2, <2>3
    <3>2. p = [r EXCEPT !.own = Name(r.own, kept), !.cookie = Name(r.cookie, kept),
                        !.got = Name(r.got, kept), !.carried = Name(r.carried, kept),
                        !.seen = seen]
      BY <2>1 DEF Renamed, Request
    <3> HIDE DEF p, seen
    <3> QED
      BY <2>1, <3>1, <3>2 DEF Request
  <2> HIDE DEF p
  <2>6. ASSUME p.seen # None, NEW u \in p.seen
        PROVE  r.seen # None /\ \E t \in r.seen : Follows(t, u) /\ DeviceLives(rows[t].device)
    <3>1. r.seen # None /\ \E t \in r.seen : u = Name(t, kept)
      BY <2>4, <2>6
    <3>2. PICK t \in r.seen : u = Name(t, kept)
      BY <3>1
    <3>3. t \in kept
      BY <1>2, <3>1
    <3> QED
      BY <1>6, <1>10, <1>12, <3>1, <3>2, <3>3 DEF DeviceKept
  <2>7. r.device # None => DeviceKept(r.device)
    BY <1>7, <1>12, <2>1 DEF RequestSound, TokensSound, Request
  <2>8. p.seen # None => r.seen # None
    BY <2>4
  <2>9. Becomes(r, p)
    BY <2>2, <2>4, <2>6, <2>7, <2>8 DEF Becomes, DeviceKept
  <2> QED
    BY <2>5, <2>9 DEF p
<1>19. RequestsSound(requests, sessions)'
  <2>1. ASSUME NEW r \in rs
        PROVE  RequestSound(Renamed(r, kept), sessions)'
    <3>1. r.surface \in Surfaces /\ RequestSound(r, ss)
      BY <1>1 DEF RequestsSound, Request
    <3>2. PICK p : p = Renamed(r, kept) /\ Becomes(r, p)
      BY <1>18
    <3>3. RequestSound(p, sessions)'
      BY <1>15, <3>1, <3>2, RequestKept
    <3> QED
      BY <3>2, <3>3
  <2>2. \A p \in requests' : RequestSound(p, sessions)'
    BY <1>4, <2>1
  <2> QED
    BY <2>2 DEF RequestsSound
<1>20. OneAtATime(requests)'
  <2>1. \A r \in rs : Renamed(r, kept).kind = r.kind /\ Renamed(r, kept).surface = r.surface
    BY <1>18 DEF Becomes
  <2>2. OneAtATime(rs)
    BY DEF IInv, OneAtATime
  <2> QED
    BY <1>4, <2>1, <2>2 DEF OneAtATime
<1>21. devices' \in [Devices -> Device \cup {None}]
  BY <1>1, <1>4 DEF TypeOK
<1>22. requests' \subseteq Request
  BY <1>4, <1>18
<1>23. TypeOK'
  BY <1>1, <1>5, <1>15, <1>17, <1>21, <1>22 DEF TypeOK
<1> QED
  BY <1>13, <1>14, <1>16, <1>17, <1>19, <1>20, <1>23 DEF IInv

\* A client takes what its own request got for it.
LEMMA NewSessionSound ==
    ASSUME IInv, NEW r \in requests, r.pc \in {"answer", "refuse"}
    PROVE  /\ NewSession(r) \in [device : Devices, token : Tokens] \cup {None}
           /\ NewSession(r) # None =>
                /\ Serves(NewSession(r).token, r.surface, NewSession(r).device)
                /\ devices[NewSession(r).device].surface = r.surface
           /\ r.kind = "logout" => NewSession(r) = sessions[r.surface]
<1> DEFINE s == r.surface
           took == [device |-> r.device, token |-> r.got]
<1>1. /\ r \in Request /\ s \in Surfaces /\ TokensSound(r) /\ StageSound(r)
      /\ RefreshSound(r, sessions) /\ SignInSound(r, sessions)
  BY DEF IInv, TypeOK, RequestsSound, RequestSound, Request
<1>2. /\ sessions[s] \in [device : Devices, token : Tokens] \cup {None}
      /\ sessions[s] # None => /\ Serves(sessions[s].token, s, sessions[s].device)
                               /\ devices[sessions[s].device].surface = s
  BY <1>1 DEF IInv, TypeOK, SessionsSound
<1>3. ASSUME r.pc = "answer", r.kind # "logout"
      PROVE  /\ took \in [device : Devices, token : Tokens]
             /\ Serves(took.token, s, took.device)
             /\ r.device # None
  BY <1>1, <1>3 DEF StageSound, TokensSound, Request
<1>4. CASE r.kind = "refresh"
  <2>1. CASE sessions[s] = None \/ sessions[s].token # r.own
    BY <1>2, <1>4, <2>1 DEF NewSession
  <2>2. CASE sessions[s] # None /\ sessions[s].token = r.own /\ r.pc = "answer"
    <3>1. NewSession(r) = took
      BY <1>4, <2>2 DEF NewSession
    <3>2. devices[r.device].surface = s
      BY <1>1, <1>2, <1>4, <2>2 DEF RefreshSound
    <3> QED
      BY <1>3, <1>4, <2>2, <3>1, <3>2
  <2>3. CASE sessions[s] # None /\ sessions[s].token = r.own /\ r.pc # "answer"
    BY <1>4, <2>3 DEF NewSession
  <2> QED
    BY <2>1, <2>2, <2>3
<1>5. CASE r.kind \in {"session", "continue"}
  <2>1. CASE r.pc = "answer" /\ sessions[s] = None
    <3>1. NewSession(r) = took
      BY <1>5, <2>1 DEF NewSession
    <3>2. devices[r.device].surface = s
      BY <1>1, <1>3, <1>5, <2>1 DEF SignInSound
    <3> QED
      BY <1>3, <1>5, <2>1, <3>1, <3>2
  <2>2. CASE ~(r.pc = "answer" /\ sessions[s] = None)
    <3>1. NewSession(r) = sessions[s]
      BY <1>5, <2>2 DEF NewSession
    <3> QED
      BY <1>2, <1>5, <3>1
  <2> QED
    BY <2>1, <2>2
<1>6. CASE r.kind = "logout"
  <2>1. NewSession(r) = sessions[s]
    BY <1>6 DEF NewSession
  <2> QED
    BY <1>2, <2>1
<1> QED
  BY <1>1, <1>4, <1>5, <1>6 DEF Request

LEMMA AnswerHolds ==
    ASSUME IInv, NEW r \in requests, Answer(r)
    PROVE  IInv'
<1> DEFINE s == r.surface
           b == BrowserOf[s]
           ss == [sessions EXCEPT ![s] = NewSession(r)]
           j == IF b = None THEN jar ELSE [jar EXCEPT ![b] = NewCookie(r)]
<1>1. /\ r.pc \in {"answer", "refuse"} /\ Settle(ss, j, requests \ {r})
      /\ late' = late /\ trouble' = trouble
      /\ r \in Request /\ s \in Surfaces /\ RequestSound(r, sessions)
      /\ b \in Browsers \cup {None}
  BY SessionsAssumption DEF Answer, IInv, TypeOK, RequestsSound, Request
<1>2. /\ NewSession(r) \in [device : Devices, token : Tokens] \cup {None}
      /\ NewSession(r) # None =>
           /\ Serves(NewSession(r).token, s, NewSession(r).device)
           /\ devices[NewSession(r).device].surface = s
      /\ r.kind = "logout" => NewSession(r) = sessions[s]
  BY <1>1, NewSessionSound
<1>3. /\ ss \in [Surfaces -> [device : Devices, token : Tokens] \cup {None}]
      /\ ss[s] = NewSession(r)
      /\ \A z \in Surfaces \ {s} : ss[z] = sessions[z]
  BY <1>1, <1>2 DEF IInv, TypeOK
<1> HIDE DEF ss
<1>4. SessionsSound(ss)
  BY <1>2, <1>3 DEF IInv, SessionsSound
<1>5. ASSUME b # None
      PROVE  /\ NewCookie(r) \in Tokens \cup {None}
             /\ NewCookie(r) # None => Carried(NewCookie(r), b)
  BY <1>1, <1>5 DEF NewCookie, IInv, TypeOK, JarSound, RequestSound, TokensSound, Request
<1>6. j \in [Browsers -> Tokens \cup {None}] /\ JarSound(j)
  <2>1. CASE b = None
    BY <2>1 DEF IInv, TypeOK
  <2>2. CASE b # None
    <3>1. b \in Browsers /\ j = [jar EXCEPT ![b] = NewCookie(r)]
      BY <1>1, <2>2
    <3>2. /\ j \in [Browsers -> Tokens \cup {None}] /\ j[b] = NewCookie(r)
          /\ \A c \in Browsers \ {b} : j[c] = jar[c]
      BY <1>5, <2>2, <3>1 DEF IInv, TypeOK
    <3> HIDE DEF j
    <3> QED
      BY <1>5, <2>2, <3>2 DEF IInv, JarSound
  <2> QED
    BY <2>1, <2>2
<1> HIDE DEF j
<1>7. ASSUME NEW q \in requests \ {r}
      PROVE  RequestSound(q, ss)
  <2>1. q \in Request /\ RequestSound(q, sessions)
    BY DEF IInv, TypeOK, RequestsSound
  <2>2. CASE q.surface # s \/ r.kind = "logout"
    <3>1. ss[q.surface] = sessions[q.surface]
      BY <1>2, <1>3, <2>1, <2>2 DEF Request
    <3> QED
      BY <2>1, <3>1 DEF RequestSound, RefreshSound, SignInSound
  <2>3. CASE q.surface = s /\ r.kind # "logout"
    <3>1. q.kind = "logout"
      BY <2>3 DEF IInv, OneAtATime
    <3> QED
      BY <2>1, <3>1 DEF RequestSound, RefreshSound, SignInSound
  <2> QED
    BY <2>2, <2>3
<1>8. RequestsSound(requests \ {r}, ss)
  BY <1>7 DEF RequestsSound
<1>9. trouble' \in 0..MaxTrouble
  BY <1>1 DEF IInv, TypeOK
<1> QED
  BY <1>1, <1>3, <1>4, <1>6, <1>8, <1>9, SettleHolds

LEMMA LoseHolds ==
    ASSUME IInv, NEW r \in requests, Lose(r)
    PROVE  IInv'
<1>1. /\ Settle(sessions, jar, requests \ {r}) /\ late' = late
      /\ trouble < MaxTrouble /\ trouble' = trouble + 1
  BY DEF Lose, Trouble
<1>2. trouble' \in 0..MaxTrouble
  BY <1>1, SessionsAssumption DEF IInv, TypeOK
<1>3. RequestsSound(requests \ {r}, sessions)
  BY DEF IInv, RequestsSound
<1> QED
  BY <1>1, <1>2, <1>3, SettleHolds DEF IInv, TypeOK

-----------------------------------------------------------------------------
(* The invariant holds, and with it what it was made for.                  *)

LEMMA InitHolds == Init => IInv
<1> SUFFICES ASSUME Init PROVE IInv
  OBVIOUS
<1>1. TypeOK
  <2>1. trouble \in 0..MaxTrouble
    BY SessionsAssumption DEF Init
  <2>2. /\ devices \in [Devices -> Device \cup {None}]
        /\ rows \in [Tokens -> Row \cup {None}]
        /\ sessions \in [Surfaces -> [device : Devices, token : Tokens] \cup {None}]
        /\ jar \in [Browsers -> Tokens \cup {None}]
    BY DEF Init
  <2>3. requests \subseteq Request /\ late \in BOOLEAN
    BY DEF Init
  <2> QED
    BY <2>1, <2>2, <2>3 DEF TypeOK
<1>2. RowsSound /\ FamiliesApart
  BY DEF Init, RowsSound, FamiliesApart
<1>3. SessionsSound(sessions) /\ JarSound(jar)
  BY DEF Init, SessionsSound, JarSound
<1>4. RequestsSound(requests, sessions) /\ OneAtATime(requests)
  BY DEF Init, RequestsSound, OneAtATime
<1> QED
  BY <1>1, <1>2, <1>3, <1>4 DEF IInv

LEMMA NextHolds == IInv /\ [Next]_vars => IInv'
<1> SUFFICES ASSUME IInv, [Next]_vars PROVE IInv'
  OBVIOUS
<1>1. ASSUME NEW s \in Surfaces, NEW u \in Users, SendSession(s, u) PROVE IInv'
  BY <1>1, SendSessionHolds
<1>2. ASSUME NEW s \in Surfaces, SendRefresh(s) PROVE IInv'
  BY <1>2, SendRefreshHolds
<1>3. ASSUME NEW s \in Surfaces, SendContinue(s) PROVE IInv'
  BY <1>3, SendContinueHolds
<1>4. ASSUME NEW s \in Surfaces, SendLogout(s) PROVE IInv'
  BY <1>4, SendLogoutHolds
<1>5. ASSUME NEW r \in requests, Serve(r) PROVE IInv'
  BY <1>5, LookHolds, RotateHolds, RevokeFamilyHolds, RegisterHolds, IssueHolds, ReloadHolds,
     LogoutHolds DEF Serve
<1>6. ASSUME NEW r \in requests, Answer(r) PROVE IInv'
  BY <1>6, AnswerHolds
<1>7. ASSUME NEW r \in requests, Lose(r) PROVE IInv'
  BY <1>7, LoseHolds
<1>8. ASSUME NEW t \in Tokens, GraceEnds(t) PROVE IInv'
  BY <1>8, GraceEndsHolds
<1>9. ASSUME NEW d \in Devices, RevokeDevice(d) PROVE IInv'
  BY <1>9, RevokeDeviceHolds
<1>10. CASE UNCHANGED vars
  <2>1. UNCHANGED <<devices, rows, sessions, jar, late>> /\ requests' = requests /\ trouble' = trouble
    BY <1>10 DEF vars
  <2>2. WorldKept /\ RowsSound' /\ FamiliesApart'
    BY <2>1, StillHolds
  <2>3. SessionsSound(sessions)' /\ JarSound(jar)' /\ \A r \in requests : RequestSound(r, sessions)'
    BY <2>1, <2>2, OthersKept
  <2>4. RequestsSound(requests, sessions)' /\ OneAtATime(requests)' /\ TypeOK'
    BY <2>1, <2>3 DEF IInv, RequestsSound, OneAtATime, TypeOK
  <2> QED
    BY <2>2, <2>3, <2>4 DEF IInv
<1> QED
  BY <1>1, <1>2, <1>3, <1>4, <1>5, <1>6, <1>7, <1>8, <1>9, <1>10 DEF Next

\* A surface's token is revoked, and a refresh is refused, only for a reason.
LEMMA StaysIn == IInv => PromptClientsStayIn
<1> SUFFICES ASSUME IInv, NEW s \in Surfaces,
                    sessions[s] # None, Live(sessions[s].device), ~late
             PROVE  /\ Usable(sessions[s].token)
                    /\ \A r \in requests :
                         r.surface = s /\ r.kind = "refresh" => r.pc # "refuse"
  BY DEF PromptClientsStayIn
<1>1. /\ Serves(sessions[s].token, s, sessions[s].device)
      /\ devices[sessions[s].device].surface = s /\ s # None
      /\ sessions[s].token \in Tokens
  BY SessionsAssumption DEF IInv, TypeOK, SessionsSound
<1>2. ~Excused(sessions[s].device)
  BY <1>1 DEF Excused
<1>3. Usable(sessions[s].token)
  BY <1>1, <1>2 DEF IInv, RowsSound, Serves, Usable
<1>4. ASSUME NEW r \in requests, r.surface = s, r.kind = "refresh"
      PROVE  r.pc # "refuse"
  BY <1>2, <1>4 DEF IInv, RequestsSound, RequestSound, RefreshSound
<1> QED
  BY <1>3, <1>4

LEMMA InvHolds == Spec => []IInv
BY InitHolds, NextHolds, PTL DEF Spec

\* The state keeps its type, for any number of clients, tokens and requests: what a
\* token is rotated into and what a settled state is renumbered to are tokens.
THEOREM TypeCorrect == Spec => []TypeOK
<1>1. IInv => TypeOK
  BY DEF IInv
<1> QED
  BY <1>1, InvHolds, PTL

\* A client that asks again in time stays signed in: while its device is live and no
\* held token has outlived its time, the token a surface holds can be rotated and none
\* of its refreshes is refused, whatever answers are lost, whoever logs out beside it
\* and whichever families and devices are revoked (RotateRefreshToken, revokeFamily,
\* handleAuthRefresh, handleAuthLogout).
THEOREM PromptClientsStayInHolds == Spec => []PromptClientsStayIn
BY StaysIn, InvHolds, PTL

\* A session is of the surface's own device, and its token is that device's, whoever
\* else signs in, continues, logs out and rotates meanwhile (RegisterDevice, and the
\* successor RotateRefreshToken leaves).
THEOREM OwnSessionHolds == Spec => []OwnSession
<1>1. IInv => OwnSession
  BY DEF IInv, SessionsSound, Serves, OwnSession
<1> QED
  BY <1>1, InvHolds, PTL

=============================================================================
