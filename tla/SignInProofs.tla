---------------------------- MODULE SignInProofs ----------------------------
(***************************************************************************)
(* Sign-in, for any number of browsers, addresses, provider accounts and   *)
(* links, and any clock: a link signs in once, an account stays with its   *)
(* user, nothing belongs to a user that is not there, an address is only   *)
(* verified by proof, and ending all sessions spares the caller's own.     *)
(***************************************************************************)
EXTENDS SignIn, TLAPS

\* The steps of each kind of request.
StepsOf == [register |-> {"insert", "commit", "grant"}, oauth |-> {"insert", "commit", "grant", "answer"},
            link |-> {"delete", "commit", "answer"}, password |-> {"answer"},
            change |-> {"cut", "write", "answer"}, end |-> {"cut", "write", "answer"},
            toggle |-> {"write"}]

\* A request that is not about to make a user has one; the account it is about
\* to commit has none yet.
ForUser(r) ==
    /\ r.step \in StepsOf[r.kind]
    /\ r.new => r.kind \in {"register", "oauth"}
    /\ r.kind = "register" => r.new
    /\ (r.new /\ r.step \in {"insert", "commit"}) \/ user[r.email] # None
    /\ r.account # None => r.kind = "oauth"
    /\ r.step = "commit" /\ r.account # None => linked[r.account] = None

\* The link a request has opened is there until a request deletes it, and then
\* it is among what this one deletes or it is gone.
ForLink(r) ==
    /\ ~r.late
    /\ r.kind = "link" =>
         /\ r.opened \in Links
         /\ r.step = "delete" => \/ link[r.opened] = Gone
                                 \/ link[r.opened] \notin {None, Gone} /\ link[r.opened].email = r.email
         /\ r.step = "commit" => link[r.opened] = Gone \/ r.opened \in r.deletes

ForCut(r) == r.kind \in {"change", "end"} /\ r.step = "write" => r.cut = Truncated(r.at)

RequestsOK == \A b \in Browsers : req[b] # None => ForUser(req[b]) /\ ForLink(req[b]) /\ ForCut(req[b])

\* Two requests never commit one account.
Committing(b, a) == req[b] # None /\ req[b].step = "commit" /\ req[b].account = a
OneCommits == \A a \in Accounts : \A b, c \in Browsers : Committing(b, a) /\ Committing(c, a) => b = c

UsersOK == \A e \in Emails : user[e] # None =>
    /\ ~user[e].byAdmin => user[e].cut = Truncated(user[e].cutAt)
    /\ user[e].verified => e \in proved

CookiesOK == \A b \in Browsers : cookie[b] # None =>
    user[cookie[b].user] # None /\ cookie[b].iat = cookie[b].at \div Second

LinksOK == NothingWithoutUser /\ \A l \in spent : link[l] = Gone

Inv == TypeOK /\ RequestsOK /\ OneCommits /\ UsersOK /\ CookiesOK /\ LinksOK
-----------------------------------------------------------------------------
(* Whole seconds *)

LEMMA Seconds ==
    ASSUME NEW t \in Nat
    PROVE  /\ t \div Second \in Nat /\ t \div Second <= t
           /\ Truncated(t) \in Nat /\ Truncated(t) <= t
BY TimeAssumption DEF Truncated

LEMMA LaterSecond ==
    ASSUME NEW t \in Nat, NEW u \in Nat, u <= t
    PROVE  Truncated(u) <= (t \div Second) * Second
BY TimeAssumption DEF Truncated

LEMMA InitHolds == Init => Inv
<1> SUFFICES ASSUME Init PROVE Inv
  OBVIOUS
<1>1. TypeOK
  BY TimeAssumption DEF Init, TypeOK
<1>2. RequestsOK /\ OneCommits /\ UsersOK /\ CookiesOK /\ LinksOK
  BY DEF Init, RequestsOK, OneCommits, Committing, UsersOK, CookiesOK, LinksOK, NothingWithoutUser
<1> QED
  BY <1>1, <1>2 DEF Inv
-----------------------------------------------------------------------------
(* What one request does to the others *)

\* Users stay, and nobody else commits the account a request is about to commit.
LEMMA ForUserKept ==
    ASSUME NEW r, ForUser(r), r.email \in Emails,
           \A e \in Emails : user[e] # None => user'[e] # None,
           r.step = "commit" /\ r.account # None => linked'[r.account] = linked[r.account]
    PROVE  ForUser(r)'
BY DEF ForUser

\* A link row is made once and deleted once.
LinksMove == \A l \in Links : link'[l] = link[l] \/ link[l] = None \/ link'[l] = Gone

LEMMA ForLinkKept ==
    ASSUME NEW r, ForLink(r), LinksMove
    PROVE  ForLink(r)'
BY UsersAssumption DEF ForLink, LinksMove

LEMMA ForCutKept ==
    ASSUME NEW r, ForCut(r)
    PROVE  ForCut(r)'
BY DEF ForCut, Truncated

\* The user of a request's own step.
LEMMA ReqFacts ==
    ASSUME Inv, NEW b \in Browsers, req[b] # None
    PROVE  /\ req[b] \in Request /\ req[b].email \in Emails /\ req[b].account \in Accounts \cup {None}
           /\ ForUser(req[b]) /\ ForLink(req[b]) /\ ForCut(req[b])
BY DEF Inv, TypeOK, RequestsOK, Request

\* A request that moves on, or ends, and changes no table but the grants.
LEMMA RequestMoves ==
    ASSUME Inv, NEW b \in Browsers, NEW r \in Request \cup {None}, req' = [req EXCEPT ![b] = r],
           r # None => ForUser(r) /\ ForLink(r) /\ ForCut(r),
           r # None /\ r.step = "commit" =>
               \A c \in Browsers \ {b}, a \in Accounts : Committing(c, a) => r.account # a,
           UNCHANGED <<user, linked, link, cookie, proved, spent, now>>,
           granted' \in [Emails -> 0..1],
           \A e \in Emails : granted'[e] = granted[e] \/ user[e] # None,
           requests' \in 0..MaxRequests, faults' \in 0..MaxFaults, missed' \in SUBSET Emails
    PROVE  Inv'
<1>1. TypeOK'
  BY DEF Inv, TypeOK
<1>2. \A c \in Browsers : req'[c] = IF c = b THEN r ELSE req[c]
  BY DEF Inv, TypeOK
<1>3. RequestsOK'
  BY <1>2 DEF Inv, RequestsOK, ForUser, ForLink, ForCut, Truncated
<1>4. OneCommits'
  BY <1>2 DEF Inv, OneCommits, Committing
<1>5. UsersOK' /\ CookiesOK' /\ LinksOK'
  BY DEF Inv, UsersOK, CookiesOK, LinksOK, NothingWithoutUser, Truncated
<1> QED
  BY <1>1, <1>3, <1>4, <1>5 DEF Inv

LEMMA StartKeeps ==
    ASSUME Inv, NEW b \in Browsers, NEW r \in Request, Start(b, r), r.step # "commit",
           ForUser(r), ForLink(r), ForCut(r),
           UNCHANGED <<now, faults, tables, cookie, history>>
    PROVE  Inv'
<1>1. requests' \in 0..MaxRequests /\ faults' \in 0..MaxFaults /\ missed' \in SUBSET Emails
  BY TimeAssumption DEF Inv, TypeOK, Start, history
<1>2. /\ UNCHANGED <<user, linked, link, granted, cookie, proved, spent, now>>
      /\ req' = [req EXCEPT ![b] = r]
  BY DEF history, tables, Start
<1>3. granted' \in [Emails -> 0..1]
  BY <1>2 DEF Inv, TypeOK
<1> QED
  BY <1>1, <1>2, <1>3, RequestMoves

LEMMA OpenedTyped ==
    ASSUME NEW kind \in Kinds, NEW step \in Steps, NEW e \in Emails
    PROVE  /\ Opened(kind, step, e) \in Request
           /\ Opened(kind, step, e).kind = kind /\ Opened(kind, step, e).step = step
           /\ Opened(kind, step, e).email = e /\ Opened(kind, step, e).account = None
           /\ ~Opened(kind, step, e).new /\ ~Opened(kind, step, e).late
BY TimeAssumption DEF Opened, Request

LEMMA RequestTyped ==
    ASSUME NEW r \in Request
    PROVE  /\ [r EXCEPT !.new = TRUE] \in Request
           /\ \A s \in Steps : [r EXCEPT !.step = s] \in Request
           /\ \A x \in BOOLEAN : [r EXCEPT !.admin = x] \in Request
           /\ \A a \in Accounts : [r EXCEPT !.account = a, !.new = TRUE] \in Request
           /\ \A a \in Accounts, x \in BOOLEAN : [r EXCEPT !.account = a, !.admin = x] \in Request
           /\ \A l \in Links, x \in BOOLEAN : [r EXCEPT !.opened = l, !.late = x] \in Request
           /\ \A ls \in SUBSET Links, x \in BOOLEAN :
                [r EXCEPT !.step = "commit", !.deletes = ls, !.admin = x] \in Request
           /\ \A t, u \in 0..MaxTime : [r EXCEPT !.step = "write", !.cut = t, !.at = u] \in Request
           /\ \A x \in BOOLEAN : [r EXCEPT !.step = "answer", !.admin = x] \in Request
BY DEF Request, Steps

LEMMA RegisterKeeps ==
    ASSUME Inv, NEW b \in Browsers, Register(b)
    PROVE  Inv'
<1>1. PICK e \in Emails : Start(b, [Opened("register", "insert", e) EXCEPT !.new = TRUE])
  BY DEF Register
<1> DEFINE r == [Opened("register", "insert", e) EXCEPT !.new = TRUE]
<1>2. r \in Request
  <2>1. Opened("register", "insert", e) \in Request
    BY OpenedTyped DEF Kinds, Steps
  <2> QED
    BY <2>1, RequestTyped
<1>3. r.step # "commit" /\ ForUser(r) /\ ForLink(r) /\ ForCut(r)
  BY DEF Opened, ForUser, ForLink, ForCut, StepsOf
<1>4. UNCHANGED <<now, faults, tables, cookie, history>>
  BY DEF Register
<1> HIDE DEF r
<1>5. Start(b, r)
  BY <1>1 DEF r
<1> QED
  BY <1>2, <1>3, <1>4, <1>5, StartKeeps

LEMMA CallbackKeeps ==
    ASSUME Inv, NEW b \in Browsers, Callback(b)
    PROVE  Inv'
<1>0. PICK a \in Accounts : \E e \in EmailsOf[a] :
        \/ /\ linked[a] # None
           /\ Start(b, [Opened("oauth", "answer", linked[a]) EXCEPT !.admin = user[linked[a]].admin])
        \/ /\ linked[a] = None /\ user[e] # None
           /\ a \in Vouched /\ user[e].verified
           /\ Start(b, [Opened("oauth", "insert", e) EXCEPT !.account = a, !.admin = user[e].admin])
        \/ /\ linked[a] = None /\ user[e] = None
           /\ Start(b, [Opened("oauth", "insert", e) EXCEPT !.account = a, !.new = TRUE])
  BY DEF Callback
<1>1. PICK e \in EmailsOf[a] :
        \/ /\ linked[a] # None
           /\ Start(b, [Opened("oauth", "answer", linked[a]) EXCEPT !.admin = user[linked[a]].admin])
        \/ /\ linked[a] = None /\ user[e] # None
           /\ a \in Vouched /\ user[e].verified
           /\ Start(b, [Opened("oauth", "insert", e) EXCEPT !.account = a, !.admin = user[e].admin])
        \/ /\ linked[a] = None /\ user[e] = None
           /\ Start(b, [Opened("oauth", "insert", e) EXCEPT !.account = a, !.new = TRUE])
  BY <1>0
<1>2. e \in Emails /\ a # None
  BY UsersAssumption
<1>4. UNCHANGED <<now, faults, tables, cookie, history>>
  BY DEF Callback
<1>5. CASE linked[a] # None
  <2> DEFINE r == [Opened("oauth", "answer", linked[a]) EXCEPT !.admin = user[linked[a]].admin]
  <2>1. linked[a] \in Emails /\ user[linked[a]] # None /\ user[linked[a]] \in User
    BY <1>5 DEF Inv, TypeOK, LinksOK, NothingWithoutUser
  <2>2. r \in Request
    <3>1. Opened("oauth", "answer", linked[a]) \in Request /\ user[linked[a]].admin \in BOOLEAN
      BY <2>1, OpenedTyped DEF Kinds, Steps, User
    <3> QED
      BY <3>1, RequestTyped
  <2>3. r.step # "commit" /\ ForUser(r) /\ ForLink(r) /\ ForCut(r)
    BY <2>1 DEF Opened, ForUser, ForLink, ForCut, StepsOf
  <2>4. Start(b, r)
    BY <1>1, <1>5
  <2> HIDE DEF r
  <2> QED
    BY <2>2, <2>3, <2>4, <1>4, StartKeeps
<1>6. CASE linked[a] = None /\ user[e] # None
  <2> DEFINE r == [Opened("oauth", "insert", e) EXCEPT !.account = a, !.admin = user[e].admin]
  <2>1. user[e] \in User
    BY <1>2, <1>6 DEF Inv, TypeOK
  <2>2. r \in Request
    <3>1. Opened("oauth", "insert", e) \in Request /\ user[e].admin \in BOOLEAN
      BY <1>2, <2>1, OpenedTyped DEF Kinds, Steps, User
    <3> QED
      BY <3>1, RequestTyped
  <2>3. r.step # "commit" /\ ForUser(r) /\ ForLink(r) /\ ForCut(r)
    BY <1>6 DEF Opened, ForUser, ForLink, ForCut, StepsOf
  <2>4. Start(b, r)
    BY <1>1, <1>6
  <2> HIDE DEF r
  <2> QED
    BY <2>2, <2>3, <2>4, <1>4, StartKeeps
<1>7. CASE linked[a] = None /\ user[e] = None
  <2> DEFINE r == [Opened("oauth", "insert", e) EXCEPT !.account = a, !.new = TRUE]
  <2>2. r \in Request
    <3>1. Opened("oauth", "insert", e) \in Request
      BY <1>2, OpenedTyped DEF Kinds, Steps, User
    <3> QED
      BY <3>1, RequestTyped
  <2>3. r.step # "commit" /\ ForUser(r) /\ ForLink(r) /\ ForCut(r)
    BY <1>7 DEF Opened, ForUser, ForLink, ForCut, StepsOf
  <2>4. Start(b, r)
    BY <1>1, <1>7
  <2> HIDE DEF r
  <2> QED
    BY <2>2, <2>3, <2>4, <1>4, StartKeeps
<1> QED
  BY <1>5, <1>6, <1>7

LEMMA PasswordKeeps ==
    ASSUME Inv, NEW b \in Browsers, SignInByPassword(b)
    PROVE  Inv'
<1>1. PICK e \in Emails :
        /\ user[e] # None
        /\ Start(b, [Opened("password", "answer", e) EXCEPT !.admin = user[e].admin])
  BY DEF SignInByPassword
<1> DEFINE r == [Opened("password", "answer", e) EXCEPT !.admin = user[e].admin]
<1>2. r \in Request
  <2>1. user[e] \in User
    BY <1>1 DEF Inv, TypeOK
  <2>2. Opened("password", "answer", e) \in Request /\ user[e].admin \in BOOLEAN
    BY <2>1, OpenedTyped DEF Kinds, Steps, User
  <2> QED
    BY <2>2, RequestTyped
<1>3. r.step # "commit" /\ ForUser(r) /\ ForLink(r) /\ ForCut(r)
  BY <1>1 DEF Opened, ForUser, ForLink, ForCut, StepsOf
<1>4. UNCHANGED <<now, faults, tables, cookie, history>> /\ Start(b, r)
  BY <1>1 DEF SignInByPassword
<1> HIDE DEF r
<1> QED
  BY <1>2, <1>3, <1>4, StartKeeps

LEMMA EndSessionsKeeps ==
    ASSUME Inv, NEW b \in Browsers, EndSessions(b)
    PROVE  Inv'
<1>1. PICK kind \in {"change", "end"} : Start(b, Opened(kind, "cut", cookie[b].user))
  BY DEF EndSessions
<1> DEFINE r == Opened(kind, "cut", cookie[b].user)
<1>2. cookie[b] # None /\ cookie[b].user \in Emails /\ user[cookie[b].user] # None
  BY DEF Inv, TypeOK, CookiesOK, EndSessions, Accepted, Session
<1>3. r \in Request
  BY <1>2, OpenedTyped DEF Kinds, Steps
<1>4. r.step # "commit" /\ ForUser(r) /\ ForLink(r) /\ ForCut(r)
  BY <1>2 DEF Opened, ForUser, ForLink, ForCut, StepsOf
<1>5. UNCHANGED <<now, faults, tables, cookie, history>> /\ Start(b, r)
  BY <1>1 DEF EndSessions
<1> HIDE DEF r
<1> QED
  BY <1>3, <1>4, <1>5, StartKeeps

LEMMA StartToggleKeeps ==
    ASSUME Inv, NEW b \in Browsers, StartToggle(b)
    PROVE  Inv'
<1>1. PICK e \in Emails : user[e] # None /\ Start(b, Opened("toggle", "write", e))
  BY DEF StartToggle
<1> DEFINE r == Opened("toggle", "write", e)
<1>3. r \in Request
  BY OpenedTyped DEF Kinds, Steps
<1>4. r.step # "commit" /\ ForUser(r) /\ ForLink(r) /\ ForCut(r)
  BY <1>1 DEF Opened, ForUser, ForLink, ForCut, StepsOf
<1>5. UNCHANGED <<now, faults, tables, cookie, history>> /\ Start(b, r)
  BY <1>1 DEF StartToggle
<1> HIDE DEF r
<1> QED
  BY <1>3, <1>4, <1>5, StartKeeps
-----------------------------------------------------------------------------
(* The steps that leave the tables alone, and the grant *)

LEMMA Unmoved ==
    ASSUME Inv
    PROVE  /\ requests \in 0..MaxRequests /\ faults \in 0..MaxFaults /\ missed \in SUBSET Emails
           /\ granted \in [Emails -> 0..1]
BY DEF Inv, TypeOK

LEMMA InsertKeeps ==
    ASSUME Inv, NEW b \in Browsers, Insert(b)
    PROVE  Inv'
<1>1. /\ req[b] # None /\ req[b].kind \in {"register", "oauth"} /\ req[b].step = "insert"
      /\ InsertFree(b)
      /\ UNCHANGED <<bounds, tables, cookie, history>>
  BY DEF Insert, At
<1>2. UNCHANGED <<user, linked, link, cookie, proved, spent, now, granted, requests, faults, missed>>
  BY <1>1 DEF bounds, tables, history
<1>3. CASE Refused(req[b])
  <2>1. req' = [req EXCEPT ![b] = None]
    BY <1>3 DEF Insert, Close
  <2> QED
    BY <1>2, <2>1, Unmoved, RequestMoves
<1>4. CASE ~Refused(req[b])
  <2> DEFINE r == [req[b] EXCEPT !.step = "commit"]
  <2>1. req' = [req EXCEPT ![b] = r]
    BY <1>4 DEF Insert, GoTo, Inv, TypeOK
  <2>2. r \in Request
    BY <1>1, ReqFacts, RequestTyped DEF Steps
  <2>3. ForUser(r) /\ ForLink(r) /\ ForCut(r)
    BY <1>1, <1>4, ReqFacts DEF ForUser, ForLink, ForCut, StepsOf, Refused, Request
  <2>4. \A c \in Browsers \ {b}, a \in Accounts : Committing(c, a) => r.account # a
    <3> SUFFICES ASSUME NEW c \in Browsers \ {b}, NEW a \in Accounts, Committing(c, a)
                 PROVE  req[b].account # a
      BY <1>1, ReqFacts DEF Request
    <3>1. c \in Uncommitted(b)
      BY ReqFacts DEF Committing, Uncommitted, At, Request
    <3> QED
      BY <1>1, <3>1, UsersAssumption DEF InsertFree, Committing
  <2> HIDE DEF r
  <2> QED
    BY <1>2, <2>1, <2>2, <2>3, <2>4, Unmoved, RequestMoves
<1> QED
  BY <1>3, <1>4

LEMMA AfterGrantKeeps ==
    ASSUME Inv, NEW b \in Browsers, At(b, {"register", "oauth"}, "grant"), AfterGrant(b),
           UNCHANGED <<user, linked, link, cookie, proved, spent, now>>,
           granted' = granted \/ granted' = [granted EXCEPT ![req[b].email] = 1],
           requests' \in 0..MaxRequests, faults' \in 0..MaxFaults, missed' \in SUBSET Emails
    PROVE  Inv'
<1>1. /\ req[b] # None /\ req[b].kind \in {"register", "oauth"} /\ req[b].step = "grant"
      /\ user[req[b].email] # None /\ req[b].email \in Emails
  BY ReqFacts DEF At, ForUser
<1>2. /\ granted' \in [Emails -> 0..1]
      /\ \A e \in Emails : granted'[e] = granted[e] \/ user[e] # None
  BY <1>1 DEF Inv, TypeOK
<1>3. CASE req[b].kind = "register"
  <2>1. req' = [req EXCEPT ![b] = None]
    BY <1>3 DEF AfterGrant, Close
  <2> QED
    BY <1>2, <2>1, RequestMoves
<1>4. CASE req[b].kind # "register"
  <2> DEFINE r == [req[b] EXCEPT !.step = "answer"]
  <2>1. req' = [req EXCEPT ![b] = r]
    BY <1>4 DEF AfterGrant, GoTo, Inv, TypeOK
  <2>2. r \in Request /\ r.step # "commit"
    <3>1. req[b] \in Request
      BY <1>1, ReqFacts
    <3>2. r.step = "answer"
      BY <3>1 DEF Request
    <3> QED
      BY <3>1, <3>2, RequestTyped DEF Steps
  <2>3. ForUser(r) /\ ForLink(r) /\ ForCut(r)
    BY <1>1, <1>4, ReqFacts DEF ForUser, ForLink, ForCut, StepsOf, Request
  <2> HIDE DEF r
  <2> QED
    BY <1>2, <2>1, <2>2, <2>3, RequestMoves
<1> QED
  BY <1>3, <1>4

LEMMA GrantKeeps ==
    ASSUME Inv, NEW b \in Browsers, Grant(b) \/ GrantFails(b)
    PROVE  Inv'
<1>1. req[b].email \in Emails
  BY ReqFacts DEF Grant, GrantFails, At
<1>2. CASE Grant(b)
  BY <1>2, Unmoved, AfterGrantKeeps DEF Grant, bounds, history
<1>3. CASE GrantFails(b)
  <2>1. faults' \in 0..MaxFaults /\ missed' \in SUBSET Emails
    BY <1>1, <1>3, Unmoved, TimeAssumption DEF GrantFails
  <2> QED
    BY <1>3, <2>1, Unmoved, AfterGrantKeeps DEF GrantFails, tables
<1> QED
  BY <1>2, <1>3

LEMMA DeleteLinksKeeps ==
    ASSUME Inv, NEW b \in Browsers, DeleteLinks(b)
    PROVE  Inv'
<1>1. /\ req[b] # None /\ req[b].kind = "link" /\ req[b].step = "delete"
      /\ UNCHANGED <<bounds, tables, cookie, history>>
  BY DEF DeleteLinks, At
<1> DEFINE r == [req[b] EXCEPT !.step = "commit", !.deletes = LinksOf(req[b].email),
                               !.admin = user[req[b].email].admin]
<1>2. UNCHANGED <<user, linked, link, cookie, proved, spent, now, granted, requests, faults, missed>>
  BY <1>1 DEF bounds, tables, history
<1>3. req' = [req EXCEPT ![b] = r]
  BY DEF DeleteLinks
<1>4. user[req[b].email].admin \in BOOLEAN /\ LinksOf(req[b].email) \in SUBSET Links
  BY <1>1, ReqFacts DEF ForUser, Inv, TypeOK, User, LinksOf
<1>5. r \in Request
  BY <1>1, <1>4, ReqFacts, RequestTyped
<1>6. ForUser(r) /\ ForLink(r) /\ ForCut(r)
  BY <1>1, ReqFacts DEF ForUser, ForLink, ForCut, StepsOf, LinksOf, Request
<1>7. \A a \in Accounts : r.account # a
  BY <1>1, ReqFacts, UsersAssumption DEF ForUser, Request
<1> HIDE DEF r
<1> QED
  BY <1>2, <1>3, <1>5, <1>6, <1>7, Unmoved, RequestMoves

LEMMA TakeCutKeeps ==
    ASSUME Inv, NEW b \in Browsers, TakeCut(b)
    PROVE  Inv'
<1>1. /\ req[b] # None /\ req[b].kind \in {"change", "end"} /\ req[b].step = "cut"
      /\ UNCHANGED <<bounds, tables, cookie, history>>
  BY DEF TakeCut, At
<1> DEFINE r == [req[b] EXCEPT !.step = "write", !.cut = Truncated(now), !.at = now]
<1>2. UNCHANGED <<user, linked, link, cookie, proved, spent, now, granted, requests, faults, missed>>
  BY <1>1 DEF bounds, tables, history
<1>3. req' = [req EXCEPT ![b] = r]
  BY DEF TakeCut
<1>4. now \in 0..MaxTime /\ Truncated(now) \in 0..MaxTime
  BY Seconds, TimeAssumption DEF Inv, TypeOK
<1>5. r \in Request
  BY <1>1, <1>4, ReqFacts, RequestTyped
<1>6. r.step # "commit" /\ ForUser(r) /\ ForLink(r) /\ ForCut(r)
  BY <1>1, ReqFacts DEF ForUser, ForLink, ForCut, StepsOf, Request
<1> HIDE DEF r
<1> QED
  BY <1>2, <1>3, <1>5, <1>6, Unmoved, RequestMoves

LEMMA FailKeeps ==
    ASSUME Inv, NEW b \in Browsers, Fail(b)
    PROVE  Inv'
<1>1. req[b].email \in Emails
  BY ReqFacts DEF Fail
<1>2. faults' \in 0..MaxFaults /\ missed' \in SUBSET Emails
  BY <1>1, Unmoved, TimeAssumption DEF Fail
<1>3. /\ req' = [req EXCEPT ![b] = None]
      /\ UNCHANGED <<user, linked, link, cookie, proved, spent, now, granted, requests>>
  BY DEF Fail, Close, tables
<1> QED
  BY <1>2, <1>3, Unmoved, RequestMoves

LEMMA TickLogoutKeeps ==
    ASSUME Inv, Tick \/ \E b \in Browsers : Logout(b)
    PROVE  Inv'
<1>1. TypeOK'
  BY TimeAssumption DEF Inv, TypeOK, Tick, Logout, tables, bounds, history
<1>2. UNCHANGED <<user, linked, link, granted, req, proved, spent>>
  BY DEF Tick, Logout, tables, bounds, history
<1>3. \A c \in Browsers : cookie'[c] = cookie[c] \/ cookie'[c] = None
  BY DEF Inv, TypeOK, Tick, Logout
<1>4. CookiesOK'
  BY <1>2, <1>3 DEF Inv, CookiesOK
<1>5. RequestsOK' /\ OneCommits' /\ UsersOK' /\ LinksOK'
  BY <1>2 DEF Inv, RequestsOK, ForUser, ForLink, ForCut, Truncated, OneCommits, Committing, UsersOK, LinksOK,
              NothingWithoutUser
<1> QED
  BY <1>1, <1>4, <1>5 DEF Inv
-----------------------------------------------------------------------------
(* The steps that change a table *)

\* A link that is made for a user, or deleted, while the requests go on.
LEMMA LinkMoves ==
    ASSUME Inv, requests' \in 0..MaxRequests,
           link' \in [Links -> Link \cup {None, Gone}], LinksMove,
           \A l \in Links : link'[l] \notin {None, Gone} => user[link'[l].email] # None,
           UNCHANGED <<now, faults, user, linked, granted, cookie, req, history>>
    PROVE  Inv'
<1>1. TypeOK'
  BY DEF Inv, TypeOK, history
<1>2. RequestsOK'
  <2> SUFFICES ASSUME NEW b \in Browsers, req[b] # None
               PROVE  ForUser(req[b])' /\ ForLink(req[b])' /\ ForCut(req[b])'
    BY DEF RequestsOK
  <2>1. req' = req
    OBVIOUS
  <2> QED
    BY <2>1, ReqFacts, UsersAssumption DEF ForUser, ForLink, ForCut, Truncated, LinksMove
<1>3. OneCommits' /\ UsersOK' /\ CookiesOK'
  BY DEF Inv, OneCommits, Committing, UsersOK, CookiesOK, Truncated, history
<1>4. LinksOK'
  BY UsersAssumption DEF Inv, TypeOK, LinksOK, NothingWithoutUser, LinksMove, history
<1> QED
  BY <1>1, <1>2, <1>3, <1>4 DEF Inv

LEMMA NewLinkTyped ==
    ASSUME Inv, NEW e \in Emails
    PROVE  NewLink(e) \in Link /\ NewLink(e).email = e
BY TimeAssumption DEF Inv, TypeOK, NewLink, Link

LEMMA RequestLinkKeeps ==
    ASSUME Inv, NEW b \in Browsers, RequestLink(b)
    PROVE  Inv'
<1>1. PICK e \in Emails, l \in Links :
        user[e] # None /\ link[l] = None /\ link' = [link EXCEPT ![l] = NewLink(e)]
  BY DEF RequestLink, Known, Sent
<1>2. link' \in [Links -> Link \cup {None, Gone}] /\ LinksMove
  BY <1>1, NewLinkTyped DEF Inv, TypeOK, LinksMove
<1>3. \A k \in Links : link'[k] \notin {None, Gone} => user[link'[k].email] # None
  BY <1>1, NewLinkTyped DEF Inv, TypeOK, LinksOK, NothingWithoutUser
<1>4. requests' \in 0..MaxRequests
  BY TimeAssumption DEF Inv, TypeOK, RequestLink
<1> QED
  BY <1>2, <1>3, <1>4, LinkMoves DEF RequestLink

LEMMA OpenLinkKeeps ==
    ASSUME Inv, NEW b \in Browsers, OpenLink(b)
    PROVE  Inv'
<1>1. PICK l \in Links :
        /\ link[l] \notin {None, Gone}
        /\ IF link[l].until < now
             THEN /\ req[b] = None /\ requests < MaxRequests /\ requests' = requests + 1
                  /\ link' = [link EXCEPT ![l] = Gone]
                  /\ UNCHANGED req
             ELSE /\ Start(b, [Opened("link", "delete", link[l].email) EXCEPT
                                  !.opened = l, !.late = (l \in spent)])
                  /\ UNCHANGED link
  BY DEF OpenLink
<1>2. UNCHANGED <<now, faults, user, linked, granted, cookie, history>>
  BY DEF OpenLink
<1>3. link[l] \in Link /\ link[l].email \in Emails /\ user[link[l].email] # None /\ l \notin spent
  BY <1>1 DEF Inv, TypeOK, LinksOK, NothingWithoutUser, Link
<1>4. CASE link[l].until < now
  <2>1. link' = [link EXCEPT ![l] = Gone] /\ requests' \in 0..MaxRequests /\ UNCHANGED req
    BY <1>1, <1>4, TimeAssumption DEF Inv, TypeOK
  <2>2. link' \in [Links -> Link \cup {None, Gone}] /\ LinksMove
    BY <2>1 DEF Inv, TypeOK, LinksMove
  <2>3. \A k \in Links : link'[k] \notin {None, Gone} => user[link'[k].email] # None
    BY <2>1 DEF Inv, TypeOK, LinksOK, NothingWithoutUser
  <2> QED
    BY <1>2, <2>1, <2>2, <2>3, LinkMoves
<1>5. CASE ~(link[l].until < now)
  <2> DEFINE r == [Opened("link", "delete", link[l].email) EXCEPT !.opened = l, !.late = FALSE]
  <2>1. Start(b, r) /\ UNCHANGED link
    <3>1. (l \in spent) = FALSE
      BY <1>3
    <3> QED
      BY <1>1, <1>5, <3>1
  <2>2. r \in Request
    <3>1. Opened("link", "delete", link[l].email) \in Request
      BY <1>3, OpenedTyped DEF Kinds, Steps
    <3> QED
      BY <3>1, RequestTyped
  <2>3. r.step # "commit" /\ ForUser(r) /\ ForLink(r) /\ ForCut(r)
    BY <1>1, <1>3 DEF Opened, ForUser, ForLink, ForCut, StepsOf
  <2>4. UNCHANGED <<now, faults, tables, cookie, history>>
    BY <1>2, <2>1 DEF tables
  <2> HIDE DEF r
  <2> QED
    BY <2>1, <2>2, <2>3, <2>4, StartKeeps
<1> QED
  BY <1>4, <1>5

\* A request that changes the row of a user, deletes links, answers.
LEMMA UserMoves ==
    ASSUME Inv, NEW b \in Browsers, NEW e \in Emails, NEW u \in User, NEW r \in Request \cup {None},
           user[e] # None, user' = [user EXCEPT ![e] = u],
           ~u.byAdmin => u.cut = Truncated(u.cutAt),
           u.verified => e \in proved',
           proved \subseteq proved', proved' \subseteq Emails,
           req' = [req EXCEPT ![b] = r],
           r # None => r.step # "commit" /\ ForUser(r) /\ ForLink(r) /\ ForCut(r),
           LinksMove, link' \in [Links -> Link \cup {None, Gone}],
           \A l \in Links : link'[l] \notin {None, Gone} => link'[l] = link[l],
           spent' \subseteq Links, \A l \in spent' : link'[l] = Gone,
           cookie' \in [Browsers -> Session \cup {None}],
           \A c \in Browsers : \/ cookie'[c] = cookie[c]
                               \/ /\ user[cookie'[c].user] # None
                                  /\ cookie'[c].iat = cookie'[c].at \div Second,
           UNCHANGED <<bounds, linked, granted, missed>>
    PROVE  Inv'
<1>1. TypeOK'
  BY DEF Inv, TypeOK, bounds
<1>2. \A f \in Emails : user'[f] = IF f = e THEN u ELSE user[f]
  BY DEF Inv, TypeOK
<1>3. u # None /\ \A f \in Emails : user[f] # None => user'[f] # None
  BY <1>2, NoneIsNoUser
<1>4. \A c \in Browsers : req'[c] = IF c = b THEN r ELSE req[c]
  BY DEF Inv, TypeOK
<1>5. RequestsOK'
  <2>1. ASSUME NEW s \in Request, ForUser(s), ForLink(s), ForCut(s)
        PROVE  ForUser(s)' /\ ForLink(s)' /\ ForCut(s)'
    <3>1. s.email \in Emails
      BY DEF Request
    <3> QED
      BY <2>1, <3>1, <1>3, ForUserKept, ForLinkKept, ForCutKept
  <2>2. ASSUME NEW c \in Browsers, req'[c] # None
        PROVE  /\ req'[c] \in Request /\ ForUser(req'[c]) /\ ForLink(req'[c]) /\ ForCut(req'[c])
    BY <2>2, <1>4, ReqFacts
  <2> QED
    BY <2>1, <2>2 DEF RequestsOK, ForUser, ForLink, ForCut, Truncated
<1>6. OneCommits'
  BY <1>4 DEF Inv, OneCommits, Committing
<1>7. UsersOK'
  BY <1>2 DEF Inv, UsersOK, Truncated
<1>8. CookiesOK'
  BY <1>3 DEF Inv, TypeOK, CookiesOK, Session
<1>9. LinksOK'
  BY <1>3 DEF Inv, TypeOK, LinksOK, NothingWithoutUser, Link
<1> QED
  BY <1>1, <1>5, <1>6, <1>7, <1>8, <1>9 DEF Inv

\* What UserMoves asks for where only the row and the request change.
LEMMA StillThere ==
    ASSUME Inv, UNCHANGED <<link, proved, spent>>
    PROVE  /\ proved \subseteq proved' /\ proved' \subseteq Emails
           /\ LinksMove /\ link' \in [Links -> Link \cup {None, Gone}]
           /\ \A l \in Links : link'[l] \notin {None, Gone} => link'[l] = link[l]
           /\ spent' \subseteq Links /\ \A l \in spent' : link'[l] = Gone
BY DEF Inv, TypeOK, LinksMove, LinksOK

LEMMA UserTyped ==
    ASSUME Inv, NEW e \in Emails, user[e] # None
    PROVE  /\ user[e] \in User
           /\ [user[e] EXCEPT !.verified = TRUE] \in User
           /\ [user[e] EXCEPT !.admin = TRUE] \in User
           /\ ~user[e].byAdmin => user[e].cut = Truncated(user[e].cutAt)
           /\ user[e].verified => e \in proved
BY DEF Inv, TypeOK, UsersOK, User

LEMMA CommitLinkKeeps ==
    ASSUME Inv, NEW b \in Browsers, CommitLink(b)
    PROVE  Inv'
<1> DEFINE e == req[b].email
           u == [user[e] EXCEPT !.verified = TRUE]
           r == [req[b] EXCEPT !.step = "answer"]
<1>1. /\ req[b] # None /\ req[b].kind = "link" /\ req[b].step = "commit"
      /\ link' = [l \in Links |-> IF l \in req[b].deletes THEN Gone ELSE link[l]]
      /\ proved' = proved \cup {e} /\ spent' = spent \cup {req[b].opened}
      /\ UNCHANGED <<bounds, linked, granted, cookie, missed>>
  BY DEF CommitLink, At
<1>2. /\ e \in Emails /\ user[e] # None /\ req[b] \in Request /\ req[b].opened \in Links
      /\ link[req[b].opened] = Gone \/ req[b].opened \in req[b].deletes
  BY <1>1, ReqFacts DEF ForUser, ForLink
<1>3. user' = [user EXCEPT ![e] = u] /\ req' = [req EXCEPT ![b] = r]
  BY DEF CommitLink, GoTo, Inv, TypeOK
<1>4. /\ u \in User /\ (~u.byAdmin => u.cut = Truncated(u.cutAt))
      /\ e \in proved' /\ proved \subseteq proved' /\ proved' \subseteq Emails
  <2>1. user[e] \in User /\ u \in User
    BY <1>2, UserTyped
  <2>2. u.byAdmin = user[e].byAdmin /\ u.cut = user[e].cut /\ u.cutAt = user[e].cutAt
    BY <2>1 DEF User
  <2>3. ~user[e].byAdmin => user[e].cut = Truncated(user[e].cutAt)
    BY <1>2, UserTyped
  <2>4. e \in proved' /\ proved \subseteq proved' /\ proved' \subseteq Emails
    BY <1>1, <1>2 DEF Inv, TypeOK
  <2> HIDE DEF e, u
  <2> QED
    BY <2>1, <2>2, <2>3, <2>4
<1>5. r \in Request
  BY <1>2, RequestTyped DEF Steps
<1>6. r.step # "commit" /\ ForUser(r) /\ ForLink(r) /\ ForCut(r)
  BY <1>1, <1>2, ReqFacts DEF ForUser, ForLink, ForCut, StepsOf, Request
<1>7. /\ LinksMove /\ link' \in [Links -> Link \cup {None, Gone}]
      /\ \A l \in Links : link'[l] \notin {None, Gone} => link'[l] = link[l]
  BY <1>1 DEF Inv, TypeOK, LinksMove
<1>8. spent' \subseteq Links /\ \A l \in spent' : link'[l] = Gone
  BY <1>1, <1>2 DEF Inv, TypeOK, LinksOK
<1>9. cookie' \in [Browsers -> Session \cup {None}] /\ \A c \in Browsers : cookie'[c] = cookie[c]
  BY <1>1 DEF Inv, TypeOK
<1> HIDE DEF e, u, r
<1> QED
  BY <1>1, <1>2, <1>3, <1>4, <1>5, <1>6, <1>7, <1>8, <1>9, UserMoves

LEMMA WriteCutKeeps ==
    ASSUME Inv, NEW b \in Browsers, WriteCut(b)
    PROVE  Inv'
<1> DEFINE e == req[b].email
           u == [user[e] EXCEPT !.cut = req[b].cut, !.cutAt = req[b].at, !.byAdmin = FALSE,
                                !.password = user[e].password \/ req[b].kind = "change"]
           r == [req[b] EXCEPT !.step = "answer", !.admin = user[e].admin]
<1>1. /\ req[b] # None /\ req[b].kind \in {"change", "end"} /\ req[b].step = "write"
      /\ UNCHANGED <<bounds, linked, link, granted, cookie, history>>
  BY DEF WriteCut, At
<1>2. /\ e \in Emails /\ user[e] # None /\ req[b] \in Request /\ user[e] \in User
      /\ req[b].cut = Truncated(req[b].at) /\ (user[e].verified => e \in proved)
  BY <1>1, ReqFacts, UserTyped DEF ForUser, ForCut
<1>3. user' = [user EXCEPT ![e] = u] /\ req' = [req EXCEPT ![b] = r]
  <2>1. user' = [user EXCEPT ![e] = [@ EXCEPT !.cut = req[b].cut, !.cutAt = req[b].at, !.byAdmin = FALSE,
                                              !.password = user[e].password \/ req[b].kind = "change"]]
    BY DEF WriteCut
  <2>2. req' = [req EXCEPT ![b] = r]
    BY DEF WriteCut
  <2> QED
    BY <2>1, <2>2
<1>4. u \in User /\ (~u.byAdmin => u.cut = Truncated(u.cutAt)) /\ (u.verified => e \in proved)
  <2>1. req[b].cut \in 0..MaxTime /\ req[b].at \in 0..MaxTime
    BY <1>2 DEF Request
  <2>2. (user[e].password \/ req[b].kind = "change") \in BOOLEAN
    OBVIOUS
  <2> HIDE DEF e
  <2> QED
    BY <1>2, <2>1, <2>2 DEF User
<1>5. r \in Request
  BY <1>2, RequestTyped DEF User
<1>6. r.step # "commit" /\ ForUser(r) /\ ForLink(r) /\ ForCut(r)
  BY <1>1, <1>2, ReqFacts DEF ForUser, ForLink, ForCut, StepsOf, Request
<1>7. cookie' \in [Browsers -> Session \cup {None}] /\ \A c \in Browsers : cookie'[c] = cookie[c]
  BY <1>1 DEF Inv, TypeOK
<1>8. UNCHANGED <<bounds, linked, granted, missed, link, proved, spent>>
  BY <1>1 DEF history
<1> HIDE DEF e, u, r
<1> QED
  BY <1>2, <1>3, <1>4, <1>5, <1>6, <1>7, <1>8, StillThere, UserMoves

LEMMA WriteToggleKeeps ==
    ASSUME Inv, NEW b \in Browsers, WriteToggle(b)
    PROVE  Inv'
<1> DEFINE e == req[b].email
<1>1. PICK value \in BOOLEAN :
        user' = [user EXCEPT ![e] = [@ EXCEPT !.admin = value, !.cut = now, !.cutAt = now, !.byAdmin = TRUE]]
  BY DEF WriteToggle
<1> DEFINE u == [user[e] EXCEPT !.admin = value, !.cut = now, !.cutAt = now, !.byAdmin = TRUE]
<1>2. /\ req[b] # None /\ UNCHANGED <<bounds, linked, link, granted, cookie, history>>
      /\ req[b].kind = "toggle" /\ req' = [req EXCEPT ![b] = None]
  BY DEF WriteToggle, At, Close
<1>3. /\ e \in Emails /\ user[e] # None /\ user[e] \in User /\ (user[e].verified => e \in proved)
  BY <1>2, ReqFacts, UserTyped DEF ForUser
<1>4. user' = [user EXCEPT ![e] = u]
  BY <1>1, <1>3 DEF Inv, TypeOK
<1>5. u \in User /\ u.byAdmin /\ (u.verified => e \in proved)
  <2>1. now \in 0..MaxTime
    BY DEF Inv, TypeOK
  <2> HIDE DEF e
  <2> QED
    BY <1>3, <2>1 DEF User
<1>7. cookie' \in [Browsers -> Session \cup {None}] /\ \A c \in Browsers : cookie'[c] = cookie[c]
  BY <1>2 DEF Inv, TypeOK
<1>8. UNCHANGED <<bounds, linked, granted, missed, link, proved, spent>>
  BY <1>2 DEF history
<1> HIDE DEF e, u
<1> QED
  BY <1>2, <1>3, <1>4, <1>5, <1>7, <1>8, StillThere, UserMoves

LEMMA AnswerKeeps ==
    ASSUME Inv, NEW b \in Browsers, Answer(b)
    PROVE  Inv'
<1> DEFINE e == req[b].email
<1>1. /\ req[b] # None /\ req' = [req EXCEPT ![b] = None]
      /\ UNCHANGED <<bounds, linked, link, granted, history>>
      /\ req[b].step = "answer"
  BY DEF Answer, At, Close
<1>2. /\ e \in Emails /\ user[e] # None /\ req[b] \in Request
  BY <1>1, ReqFacts DEF ForUser
<1>3. PICK adm \in BOOLEAN : cookie' = [cookie EXCEPT ![b] = NewSession(e, adm)]
  <2>1. (IF req[b].kind = "change" THEN user[e].admin ELSE req[b].admin) \in BOOLEAN
    BY <1>2, UserTyped DEF User, Request
  <2> QED
    BY <2>1 DEF Answer
<1>4. PICK u \in {user[e], [user[e] EXCEPT !.admin = TRUE]} : user' = [user EXCEPT ![e] = u]
  <2>1. user' \in {user, [user EXCEPT ![e] = [user[e] EXCEPT !.admin = TRUE]]}
    BY DEF Answer, Inv, TypeOK
  <2> QED
    BY <1>2, <2>1 DEF Inv, TypeOK
<1>5. u \in User /\ (~u.byAdmin => u.cut = Truncated(u.cutAt)) /\ (u.verified => e \in proved)
  <2>1. CASE u = user[e]
    BY <2>1, <1>2, UserTyped
  <2>2. CASE u = [user[e] EXCEPT !.admin = TRUE]
    <3>1. user[e] \in User /\ u \in User
      BY <2>2, <1>2, UserTyped
    <3>2. /\ u.byAdmin = user[e].byAdmin /\ u.cut = user[e].cut
          /\ u.cutAt = user[e].cutAt /\ u.verified = user[e].verified
      BY <2>2, <3>1 DEF User
    <3> QED
      BY <3>1, <3>2, <1>2, UserTyped
  <2> QED
    BY <2>1, <2>2
<1>6. /\ NewSession(e, adm) \in Session /\ NewSession(e, adm).user = e
      /\ NewSession(e, adm).iat = NewSession(e, adm).at \div Second
  <2>1. now \in 0..MaxTime /\ now \div Second \in 0..MaxTime
        /\ now \div Second + SessionTime \in 0..(MaxTime + SessionTime)
    BY Seconds, TimeAssumption DEF Inv, TypeOK
  <2> QED
    BY <1>2, <2>1 DEF NewSession, Session
<1>7. /\ cookie' \in [Browsers -> Session \cup {None}]
      /\ \A c \in Browsers : \/ cookie'[c] = cookie[c]
                             \/ /\ user[cookie'[c].user] # None
                                /\ cookie'[c].iat = cookie'[c].at \div Second
  BY <1>2, <1>3, <1>6 DEF Inv, TypeOK
<1>8. UNCHANGED <<bounds, linked, granted, missed, link, proved, spent>>
  BY <1>1 DEF history
<1> HIDE DEF e
<1> QED
  BY <1>1, <1>2, <1>4, <1>5, <1>7, <1>8, StillThere, UserMoves

\* The first commit of a request that makes a user or an account.
LEMMA CommitKeeps ==
    ASSUME Inv, NEW b \in Browsers, Commit(b)
    PROVE  Inv'
<1> DEFINE e == req[b].email
           r == [req[b] EXCEPT !.step = AfterCommit(req[b])]
<1>1. /\ req[b] # None /\ req[b].kind \in {"register", "oauth"} /\ req[b].step = "commit"
      /\ user' = IF req[b].new THEN [user EXCEPT ![e] = NewUser(req[b])] ELSE user
      /\ linked' = IF req[b].account = None THEN linked ELSE [linked EXCEPT ![req[b].account] = e]
      /\ proved' = IF req[b].account \in Vouched THEN proved \cup {e} ELSE proved
      /\ UNCHANGED <<bounds, granted, cookie, missed, spent>>
  BY DEF Commit, At
<1>2. /\ e \in Emails /\ req[b] \in Request /\ req[b].account \in Accounts \cup {None}
      /\ ForUser(req[b]) /\ ForLink(req[b])
  BY <1>1, ReqFacts
<1>3. req' = [req EXCEPT ![b] = r]
  BY DEF Commit, GoTo, Inv, TypeOK
<1>4. /\ NewUser(req[b]) \in User /\ NewUser(req[b]) # None
      /\ NewUser(req[b]).cut = Truncated(NewUser(req[b]).cutAt)
      /\ NewUser(req[b]).verified => req[b].account \in Vouched
  <2>1. NewUser(req[b]) \in User
    BY TimeAssumption DEF NewUser, User
  <2>2. Truncated(0) = 0
    BY Seconds
  <2> QED
    BY <2>1, <2>2, NoneIsNoUser DEF NewUser
<1>5. /\ \A f \in Emails : user'[f] = IF f = e /\ req[b].new THEN NewUser(req[b]) ELSE user[f]
      /\ user'[e] # None
      /\ \A f \in Emails : user[f] # None => user'[f] # None
  BY <1>1, <1>2, <1>4 DEF Inv, TypeOK, ForUser
<1>6. /\ link' \in [Links -> Link \cup {None, Gone}] /\ LinksMove
      /\ \A l \in Links : link'[l] \notin {None, Gone} => link'[l] = link[l] \/ link'[l].email = e
  <2>1. CASE req[b].kind = "register"
    <3>1. PICK l \in Links : link[l] = None /\ link' = [link EXCEPT ![l] = NewLink(e)]
      BY <2>1 DEF Commit, Sent
    <3> QED
      BY <1>2, <3>1, NewLinkTyped DEF Inv, TypeOK, LinksMove
  <2>2. CASE req[b].kind # "register"
    BY <2>2 DEF Commit, Inv, TypeOK, LinksMove
  <2> QED
    BY <2>1, <2>2
<1>7. r \in Request /\ r.step \in {"grant", "answer"}
  <2>1. AfterCommit(req[b]) \in {"grant", "answer"}
    BY DEF AfterCommit
  <2>2. r.step = AfterCommit(req[b])
    BY <1>2 DEF Request
  <2>3. AfterCommit(req[b]) \in Steps
    BY <2>1 DEF Steps
  <2> HIDE DEF r
  <2>4. r \in Request
    BY <1>2, <2>3, RequestTyped DEF r
  <2> QED
    BY <2>1, <2>2, <2>4
<1>8. TypeOK'
  BY <1>1, <1>2, <1>3, <1>4, <1>6, <1>7, UsersAssumption DEF Inv, TypeOK, bounds
<1>9. \A c \in Browsers : req'[c] = IF c = b THEN r ELSE req[c]
  BY <1>3 DEF Inv, TypeOK
<1>10. ForUser(req[b])' /\ ForLink(req[b])' /\ ForCut(req[b])'
  <2>1. /\ req'[b].kind = req[b].kind /\ req'[b].email = e /\ req'[b].new = req[b].new
        /\ req'[b].account = req[b].account /\ req'[b].late = req[b].late
        /\ req'[b].step = IF req[b].new THEN "grant" ELSE "answer"
    BY <1>2, <1>9 DEF Request, AfterCommit
  <2> HIDE DEF e, r
  <2> QED
    BY <1>1, <1>2, <1>5, <2>1 DEF ForUser, ForLink, ForCut, StepsOf
<1>11. RequestsOK'
  <2>1. ASSUME NEW c \in Browsers \ {b}, req[c] # None
        PROVE  ForUser(req[c])' /\ ForLink(req[c])' /\ ForCut(req[c])'
    <3>1. /\ req[c] \in Request /\ req[c].email \in Emails /\ req[c].account \in Accounts \cup {None}
          /\ ForUser(req[c]) /\ ForLink(req[c]) /\ ForCut(req[c])
      BY <2>1, ReqFacts
    <3>2. req[c].step = "commit" /\ req[c].account # None => linked'[req[c].account] = linked[req[c].account]
      <4>1. req[c].step = "commit" /\ req[c].account # None => req[b].account # req[c].account
        BY <1>1, <2>1, <3>1 DEF Inv, OneCommits, Committing
      <4> QED
        BY <1>1, <1>2, <3>1, <4>1 DEF Inv, TypeOK
    <3>3. req'[c] = req[c]
      BY <1>9
    <3> QED
      BY <1>5, <1>6, <3>1, <3>2, <3>3, UsersAssumption DEF ForUser, ForLink, ForCut, Truncated, LinksMove
  <2> HIDE DEF r
  <2>2. ASSUME NEW c \in Browsers, req'[c] # None
        PROVE  (ForUser(req[c]) /\ ForLink(req[c]) /\ ForCut(req[c]))'
    <3>1. CASE c = b
      BY <3>1, <1>10
    <3>2. CASE c # b
      <4>1. req'[c] = req[c]
        BY <3>2, <1>9
      <4> QED
        BY <3>2, <2>2, <4>1, <2>1
    <3> QED
      BY <3>1, <3>2
  <2> QED
    BY <2>2 DEF RequestsOK
<1>12. OneCommits'
  <2>1. \A c \in Browsers, a \in Accounts : Committing(c, a)' => Committing(c, a)
    BY <1>7, <1>9 DEF Committing
  <2> QED
    BY <2>1 DEF Inv, OneCommits
<1>13. UsersOK'
  BY <1>1, <1>2, <1>4, <1>5 DEF Inv, UsersOK, Truncated
<1>14. CookiesOK'
  BY <1>1, <1>5 DEF Inv, TypeOK, CookiesOK, Session
<1>15. LinksOK'
  <2>1. \A a \in Accounts : linked'[a] # None => user'[linked'[a]] # None
    BY <1>1, <1>2, <1>5 DEF Inv, TypeOK, LinksOK, NothingWithoutUser
  <2>2. \A l \in Links : link'[l] \notin {None, Gone} => user'[link'[l].email] # None
    BY <1>5, <1>6 DEF Inv, TypeOK, LinksOK, NothingWithoutUser, Link
  <2>3. \A f \in Emails : granted'[f] > 0 => user'[f] # None
    BY <1>1, <1>5 DEF Inv, LinksOK, NothingWithoutUser
  <2>4. \A l \in spent' : link'[l] = Gone
    BY <1>1, <1>6, UsersAssumption DEF Inv, TypeOK, LinksOK, LinksMove
  <2> QED
    BY <2>1, <2>2, <2>3, <2>4 DEF LinksOK, NothingWithoutUser
<1> QED
  BY <1>8, <1>11, <1>12, <1>13, <1>14, <1>15 DEF Inv
-----------------------------------------------------------------------------
(* The specification *)

LEMMA StutterKeeps == Inv /\ UNCHANGED vars => Inv'
<1> SUFFICES ASSUME Inv, UNCHANGED vars PROVE Inv'
  OBVIOUS
<1>1. UNCHANGED <<now, requests, faults, user, linked, link, granted, cookie, req, missed, proved, spent>>
  BY DEF vars, bounds, tables, history
<1>2. TypeOK'
  BY <1>1 DEF Inv, TypeOK
<1>3. RequestsOK'
  BY <1>1 DEF Inv, RequestsOK, ForUser, ForLink, ForCut, Truncated
<1>4. OneCommits' /\ UsersOK' /\ CookiesOK' /\ LinksOK'
  BY <1>1 DEF Inv, OneCommits, Committing, UsersOK, CookiesOK, LinksOK, NothingWithoutUser, Truncated
<1> QED
  BY <1>2, <1>3, <1>4 DEF Inv

LEMMA StepKeeps == Inv /\ [Next]_vars => Inv'
<1> SUFFICES ASSUME Inv, [Next]_vars PROVE Inv'
  OBVIOUS
<1>1. CASE Tick
  BY <1>1, TickLogoutKeeps
<1>2. ASSUME NEW b \in Browsers, Begin(b)
      PROVE  Inv'
  BY <1>2, RegisterKeeps, CallbackKeeps, RequestLinkKeeps, OpenLinkKeeps, PasswordKeeps, EndSessionsKeeps,
     StartToggleKeeps, TickLogoutKeeps DEF Begin
<1>3. ASSUME NEW b \in Browsers, Step(b)
      PROVE  Inv'
  BY <1>3, InsertKeeps, CommitKeeps, GrantKeeps, DeleteLinksKeeps, CommitLinkKeeps, TakeCutKeeps,
     WriteCutKeeps, WriteToggleKeeps, AnswerKeeps DEF Step
<1>4. ASSUME NEW b \in Browsers, GrantFails(b) \/ Fail(b)
      PROVE  Inv'
  BY <1>4, GrantKeeps, FailKeeps
<1>5. CASE UNCHANGED vars
  BY <1>5, StutterKeeps
<1> QED
  BY <1>1, <1>2, <1>3, <1>4, <1>5 DEF Next

LEMMA InvHolds == Spec => []Inv
BY InitHolds, StepKeeps, PTL DEF Spec

\* Every request of any number of browsers keeps users, accounts, links and
\* sessions what they are.
THEOREM SignInTyped == Spec => []TypeOK
BY InvHolds, PTL DEF Inv

\* Accounts, links and grants belong to users, however registrations and
\* callbacks of one address interleave.
THEOREM NothingIsOrphaned == Spec => []NothingWithoutUser
BY InvHolds, PTL DEF Inv, LinksOK

\* Nobody's address is marked verified without a link or a provider that
\* vouches for it.
THEOREM VerifiedMeansProved == Spec => []VerifiedByProof
<1>1. Inv => VerifiedByProof
  BY DEF Inv, UsersOK, VerifiedByProof
<1> QED
  BY <1>1, InvHolds, PTL

\* No request opens a link after somebody has signed in with it.
THEOREM LinksAreSpent == Spec => []LinkSignsInOnce
<1>1. Inv => LinkSignsInOnce
  BY DEF Inv, RequestsOK, ForLink, LinkSignsInOnce
<1> QED
  BY <1>1, InvHolds, PTL

\* A session handed out after the user's last "end all sessions" is accepted
\* until it expires, although the times are compared in whole seconds.
THEOREM CallersStay == Spec => []CallerStaysSignedIn
<1>1. Inv => CallerStaysSignedIn
  <2> SUFFICES ASSUME Inv, NEW b \in Browsers, cookie[b] # None, Outlives(cookie[b]),
                      ~user[cookie[b].user].byAdmin
               PROVE  Accepted(cookie[b])
    BY DEF CallerStaysSignedIn
  <2> DEFINE s == cookie[b]
  <2>1. s \in Session /\ user[s.user] \in User /\ user[s.user] # None /\ s.iat = s.at \div Second
    BY DEF Inv, TypeOK, CookiesOK, Session
  <2>2. s.at \in Nat /\ user[s.user].cutAt \in Nat /\ user[s.user].cutAt <= s.at
    BY <2>1, TimeAssumption DEF Session, User, Outlives
  <2>3. user[s.user].cut = Truncated(user[s.user].cutAt)
    <3>1. s.user \in Emails
      BY <2>1 DEF Session
    <3> QED
      BY <3>1, <2>1 DEF Inv, UsersOK
  <2>4. user[s.user].cut <= s.iat * Second
    <3>1. Truncated(user[s.user].cutAt) <= (s.at \div Second) * Second
      BY <2>2, LaterSecond, Zenon
    <3> QED
      BY <2>1, <2>3, <3>1, Zenon
  <2>5. s.iat * Second \in Nat /\ user[s.user].cut \in Nat
    BY <2>1, TimeAssumption DEF Session, User
  <2> QED
    BY <2>4, <2>5 DEF Accepted, Outlives
<1> QED
  BY <1>1, InvHolds, PTL

LEMMA CommitKeepsUser ==
    ASSUME Inv, NEW b \in Browsers, Commit(b)
    PROVE  KeepsUser
<1>1. /\ req[b] # None /\ req[b].step = "commit"
      /\ linked' = IF req[b].account = None THEN linked ELSE [linked EXCEPT ![req[b].account] = req[b].email]
  BY DEF Commit, At
<1>2. req[b].account # None => linked[req[b].account] = None
  BY <1>1, ReqFacts DEF ForUser
<1> QED
  BY <1>1, <1>2 DEF KeepsUser, Inv, TypeOK

\* Two callbacks at once, or a changed address, never move an account to
\* another user.
THEOREM AccountsStay == Spec => LinkedForGood
<1>1. Inv /\ [Next]_vars => [KeepsUser]_vars
  <2> SUFFICES ASSUME Inv, Next PROVE KeepsUser \/ UNCHANGED vars
    OBVIOUS
  <2>1. ASSUME linked' = linked
        PROVE  KeepsUser
    BY <2>1 DEF KeepsUser
  <2>2. ASSUME NEW b \in Browsers, Begin(b)
        PROVE  linked' = linked
    BY <2>2 DEF Begin, Register, Callback, RequestLink, OpenLink, SignInByPassword, EndSessions, StartToggle,
                Logout, tables
  <2>3. ASSUME NEW b \in Browsers, Step(b), ~Commit(b)
        PROVE  linked' = linked
    BY <2>3 DEF Step, Insert, Grant, DeleteLinks, CommitLink, TakeCut, WriteCut, WriteToggle, Answer, tables
  <2>4. ASSUME NEW b \in Browsers, GrantFails(b) \/ Fail(b)
        PROVE  linked' = linked
    BY <2>4 DEF GrantFails, Fail, tables
  <2>5. Tick => linked' = linked
    BY DEF Tick, tables
  <2> QED
    BY <2>1, <2>2, <2>3, <2>4, <2>5, CommitKeepsUser DEF Next
<1> QED
  BY <1>1, InvHolds, PTL DEF Spec, LinkedForGood
=============================================================================
