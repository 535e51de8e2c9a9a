------------------------------- MODULE SignIn -------------------------------
(***************************************************************************)
(* Users, verification links, provider accounts and sessions: the requests *)
(* that create a user, sign one in, change a password, end all sessions or *)
(* toggle the admin flag, step by step where a request of another browser  *)
(* may commit in between.                                                  *)
(*                                                                         *)
(* A user is named after its e-mail address (UNIQUE, never deleted).  A    *)
(* link is a row of verification_tokens; its purpose, the password and the *)
(* text of the tokens are left out: who presents the wrong one is refused  *)
(* and changes nothing.                                                    *)
(***************************************************************************)
EXTENDS Naturals, FiniteSets

CONSTANTS
    Browsers, Emails, Accounts, Links,
    EmailsOf,       \* the addresses a provider may report for an account
    Vouched,        \* accounts whose address the provider calls verified
    AdminEmails,    \* the setting ADMIN_EMAILS
    None, Gone,     \* no row yet, and a deleted one
    Second,         \* clock ticks in a second
    LinkTime,       \* lifetime of a link, in ticks
    SessionTime,    \* lifetime of a session, in seconds
    MaxTime, MaxRequests, MaxFaults     \* bounds

ASSUME UsersAssumption == /\ EmailsOf \in [Accounts -> SUBSET Emails]
                          /\ Vouched \subseteq Accounts /\ AdminEmails \subseteq Emails
                          /\ None \notin Emails \cup Accounts \cup Links /\ Gone # None
ASSUME TimeAssumption == /\ Second \in Nat \ {0} /\ SessionTime \in Nat \ {0}
                         /\ {LinkTime, MaxTime, MaxRequests, MaxFaults} \subseteq Nat

VARIABLES
    now,
    user,           \* users: the committed row of each address, or None
    linked,         \* accounts: the user of each provider account, or None
    link,           \* verification_tokens: the committed row of each link, None or Gone
    granted,        \* credit_transactions: signup grants of each user
    cookie,         \* the session each browser holds, or None
    req,            \* the open request of each browser
    requests, faults,
    missed,         \* history: users whose grant was hit by a fault
    proved,         \* history: addresses a link or a provider has confirmed
    spent           \* history: links that have signed somebody in

tables == <<user, linked, link, granted>>
bounds == <<now, requests, faults>>
history == <<missed, proved, spent>>
vars == <<bounds, tables, cookie, req, history>>

User == [password : BOOLEAN, verified : BOOLEAN, admin : BOOLEAN, cut : 0..MaxTime, cutAt : 0..MaxTime,
         byAdmin : BOOLEAN]
Link == [email : Emails, until : 0..(MaxTime + LinkTime)]
Session == [user : Emails, iat : 0..MaxTime, exp : 0..(MaxTime + SessionTime), adm : BOOLEAN, at : 0..MaxTime]
Kinds == {"register", "link", "oauth", "password", "change", "end", "toggle"}
Steps == {"insert", "delete", "commit", "grant", "cut", "write", "answer"}
Request == [kind : Kinds, step : Steps, email : Emails, account : Accounts \cup {None}, new : BOOLEAN,
            admin : BOOLEAN, deletes : SUBSET Links, opened : Links \cup {None}, late : BOOLEAN,
            cut : 0..MaxTime, at : 0..MaxTime]

ASSUME NoneIsNoUser == None \notin User

TypeOK ==
    /\ now \in 0..MaxTime /\ requests \in 0..MaxRequests /\ faults \in 0..MaxFaults
    /\ user \in [Emails -> User \cup {None}]
    /\ linked \in [Accounts -> Emails \cup {None}]
    /\ link \in [Links -> Link \cup {None, Gone}]
    /\ granted \in [Emails -> 0..1]
    /\ cookie \in [Browsers -> Session \cup {None}]
    /\ req \in [Browsers -> Request \cup {None}]
    /\ missed \subseteq Emails /\ proved \subseteq Emails /\ spent \subseteq Links

Init ==
    /\ now = 0 /\ requests = 0 /\ faults = 0
    /\ user = [e \in Emails |-> None] /\ linked = [a \in Accounts |-> None]
    /\ link = [l \in Links |-> None] /\ granted = [e \in Emails |-> 0]
    /\ cookie = [b \in Browsers |-> None] /\ req = [b \in Browsers |-> None]
    /\ missed = {} /\ proved = {} /\ spent = {}

-----------------------------------------------------------------------------
(* Sessions: create_jwt and get_current_user_id.  PyJWT keeps iat and exp as *)
(* whole seconds.                                                            *)

NewSession(e, adm) == [user |-> e, iat |-> now \div Second, exp |-> now \div Second + SessionTime,
                       adm |-> adm, at |-> now]
Expired(s) == now >= s.exp * Second
Accepted(s) == s # None /\ ~Expired(s) /\ ~(s.iat * Second < user[s.user].cut)

-----------------------------------------------------------------------------
(* The steps of a request *)

Opened(kind, step, e) ==
    [kind |-> kind, step |-> step, email |-> e, account |-> None, new |-> FALSE, admin |-> FALSE,
     deletes |-> {}, opened |-> None, late |-> FALSE, cut |-> 0, at |-> 0]

Start(b, r) == /\ req[b] = None /\ req' = [req EXCEPT ![b] = r]
               /\ requests < MaxRequests /\ requests' = requests + 1
Close(b) == req' = [req EXCEPT ![b] = None]
GoTo(b, step) == req' = [req EXCEPT ![b].step = step]
At(b, kinds, step) == req[b] # None /\ req[b].kind \in kinds /\ req[b].step = step

\* Rows the other open transactions have written.
Uncommitted(b) == {c \in Browsers \ {b} : At(c, Kinds, "commit")}
InsertFree(b) == \A c \in Uncommitted(b) :
    /\ ~(req[c].new /\ req[b].new /\ req[c].email = req[b].email)
    /\ req[c].account = None \/ req[c].account # req[b].account
DeleteFree(b) == \A c \in Uncommitted(b) :
    req[c].email = req[b].email => \A l \in req[c].deletes : link[l] = Gone
RowFree(b, e) == \A c \in Uncommitted(b) : ~(req[c].kind = "link" /\ req[c].email = e /\ ~user[e].verified)

-----------------------------------------------------------------------------
(* POST /auth/register, and the callback of a provider *)

Register(b) ==
    /\ \E e \in Emails : Start(b, [Opened("register", "insert", e) EXCEPT !.new = TRUE])
    /\ UNCHANGED <<now, faults, tables, cookie, history>>

\* find_or_create_user_for_oauth: a known account, an account to be joined to a
\* user when both sides have verified the address, or a new user.
Callback(b) ==
    /\ \E a \in Accounts : \E e \in EmailsOf[a] :
         \/ /\ linked[a] # None
            /\ Start(b, [Opened("oauth", "answer", linked[a]) EXCEPT !.admin = user[linked[a]].admin])
         \/ /\ linked[a] = None /\ user[e] # None
            /\ a \in Vouched /\ user[e].verified
            /\ Start(b, [Opened("oauth", "insert", e) EXCEPT !.account = a, !.admin = user[e].admin])
         \/ /\ linked[a] = None /\ user[e] = None
            /\ Start(b, [Opened("oauth", "insert", e) EXCEPT !.account = a, !.new = TRUE])
    /\ UNCHANGED <<now, faults, tables, cookie, history>>

\* A UNIQUE constraint: register answers 409, the callback fails.
RefusedUser(r) == r.new /\ user[r.email] # None
Refused(r) == RefusedUser(r) \/ (r.account # None /\ linked[r.account] # None)

Insert(b) ==
    /\ At(b, {"register", "oauth"}, "insert") /\ InsertFree(b)
    /\ IF Refused(req[b]) THEN Close(b) ELSE GoTo(b, "commit")
    /\ UNCHANGED <<bounds, tables, cookie, history>>

NewUserVerified(r) == [password |-> r.account = None, verified |-> r.account # None, admin |-> FALSE,
                       cut |-> 0, cutAt |-> 0, byAdmin |-> FALSE]
NewUser(r) == [password |-> r.account = None, verified |-> r.account \in Vouched, admin |-> FALSE,
               cut |-> 0, cutAt |-> 0, byAdmin |-> FALSE]

NewLink(e) == [email |-> e, until |-> now + LinkTime]
Sent(e) == \E l \in Links : link[l] = None /\ link' = [link EXCEPT ![l] = NewLink(e)]

\* Only who has created a user tries the grant, after the first commit.
AfterCommitRegistered(r) == IF r.kind = "register" THEN "grant" ELSE "answer"
AfterCommit(r) == IF r.new THEN "grant" ELSE "answer"

Commit(b) ==
    LET r == req[b] IN
    /\ At(b, {"register", "oauth"}, "commit")
    /\ user' = IF r.new THEN [user EXCEPT ![r.email] = NewUser(r)] ELSE user
    /\ linked' = IF r.account = None THEN linked ELSE [linked EXCEPT ![r.account] = r.email]
    /\ IF r.kind = "register" THEN Sent(r.email) ELSE UNCHANGED link
    /\ proved' = IF r.account \in Vouched THEN proved \cup {r.email} ELSE proved
    /\ GoTo(b, AfterCommit(r))
    /\ UNCHANGED <<bounds, granted, cookie, missed, spent>>

\* Registering does not sign in; a callback goes on to its answer.
AfterGrant(b) == IF req[b].kind = "register" THEN Close(b) ELSE GoTo(b, "answer")

Grant(b) ==
    /\ At(b, {"register", "oauth"}, "grant") /\ RowFree(b, req[b].email)
    /\ granted' = [granted EXCEPT ![req[b].email] = 1]
    /\ AfterGrant(b)
    /\ UNCHANGED <<bounds, user, linked, link, cookie, history>>

\* An error of the grant is rolled back to its savepoint and swallowed.
GrantFails(b) ==
    /\ At(b, {"register", "oauth"}, "grant")
    /\ faults < MaxFaults /\ faults' = faults + 1
    /\ missed' = missed \cup {req[b].email}
    /\ AfterGrant(b)
    /\ UNCHANGED <<now, requests, tables, cookie, proved, spent>>

-----------------------------------------------------------------------------
(* Links: POST /auth/magic-link and GET /auth/verify-magic-link *)

KnownOrNot(e) == TRUE
Known(e) == user[e] # None

RequestLink(b) ==
    /\ req[b] = None /\ requests < MaxRequests /\ requests' = requests + 1
    /\ \E e \in Emails : Known(e) /\ Sent(e)
    /\ UNCHANGED <<now, faults, user, linked, granted, cookie, req, history>>

\* An expired link is deleted at once.
OpenLink(b) ==
    /\ \E l \in Links :
         /\ link[l] \notin {None, Gone}
         /\ IF link[l].until < now
              THEN /\ req[b] = None /\ requests < MaxRequests /\ requests' = requests + 1
                   /\ link' = [link EXCEPT ![l] = Gone]
                   /\ UNCHANGED req
              ELSE /\ Start(b, [Opened("link", "delete", link[l].email) EXCEPT
                                   !.opened = l, !.late = (l \in spent)])
                   /\ UNCHANGED link
    /\ UNCHANGED <<now, faults, user, linked, granted, cookie, history>>

\* delete_all_for_identifier deletes every link of the address it can see.
NoLinks(e) == {}
LinksOf(e) == {l \in Links : link[l] \notin {None, Gone} /\ link[l].email = e}

DeleteLinks(b) ==
    LET r == req[b] IN
    /\ At(b, {"link"}, "delete") /\ DeleteFree(b)
    /\ req' = [req EXCEPT ![b] = [r EXCEPT !.step = "commit", !.deletes = LinksOf(r.email),
                                           !.admin = user[r.email].admin]]
    /\ UNCHANGED <<bounds, tables, cookie, history>>

CommitLink(b) ==
    LET r == req[b] IN
    /\ At(b, {"link"}, "commit")
    /\ link' = [l \in Links |-> IF l \in r.deletes THEN Gone ELSE link[l]]
    /\ user' = [user EXCEPT ![r.email].verified = TRUE]
    /\ proved' = proved \cup {r.email} /\ spent' = spent \cup {r.opened}
    /\ GoTo(b, "answer")
    /\ UNCHANGED <<bounds, linked, granted, cookie, missed>>

-----------------------------------------------------------------------------
(* Passwords, all sessions, the admin flag *)

SignInByPassword(b) ==
    /\ \E e \in Emails :
         /\ user[e] # None /\ user[e].password /\ user[e].verified
         /\ Start(b, [Opened("password", "answer", e) EXCEPT !.admin = user[e].admin])
    /\ UNCHANGED <<now, faults, tables, cookie, history>>

\* POST /auth/change-password and /auth/invalidate-sessions.
EndSessions(b) ==
    /\ Accepted(cookie[b])
    /\ \E kind \in {"change", "end"} : Start(b, Opened(kind, "cut", cookie[b].user))
    /\ UNCHANGED <<now, faults, tables, cookie, history>>

TruncatedUp(t) == (t \div Second + 1) * Second
NotTruncated(t) == t
Truncated(t) == (t \div Second) * Second

TakeCut(b) ==
    /\ At(b, {"change", "end"}, "cut")
    /\ req' = [req EXCEPT ![b] = [@ EXCEPT !.step = "write", !.cut = Truncated(now), !.at = now]]
    /\ UNCHANGED <<bounds, tables, cookie, history>>

WriteCut(b) ==
    LET r == req[b] IN
    /\ At(b, {"change", "end"}, "write") /\ RowFree(b, r.email)
    /\ user' = [user EXCEPT ![r.email] = [@ EXCEPT !.cut = r.cut, !.cutAt = r.at, !.byAdmin = FALSE,
                                                   !.password = user[r.email].password \/ r.kind = "change"]]
    /\ req' = [req EXCEPT ![b] = [@ EXCEPT !.step = "answer", !.admin = user[r.email].admin]]
    /\ UNCHANGED <<bounds, linked, link, granted, cookie, history>>

\* PATCH /admin/users/{id}: require_admin, then the update.
StartToggle(b) ==
    /\ Accepted(cookie[b]) /\ user[cookie[b].user].admin
    /\ \E e \in Emails : user[e] # None /\ Start(b, Opened("toggle", "write", e))
    /\ UNCHANGED <<now, faults, tables, cookie, history>>

WriteToggle(b) ==
    LET e == req[b].email IN
    /\ At(b, {"toggle"}, "write") /\ RowFree(b, e)
    /\ \E value \in BOOLEAN :
         /\ value \/ (e # cookie[b].user /\ e \notin AdminEmails)
         /\ user' = [user EXCEPT ![e] = [@ EXCEPT !.admin = value, !.cut = now, !.cutAt = now, !.byAdmin = TRUE]]
    /\ Close(b)
    /\ UNCHANGED <<bounds, linked, link, granted, cookie, history>>

-----------------------------------------------------------------------------
(* The end of a request that signs in *)

\* The user was read earlier in the request, save by change-password, which
\* refreshes it; an address on ADMIN_EMAILS is promoted if it was no admin then.
Answer(b) ==
    LET r == req[b]
        e == r.email
        promoted == r.kind \in {"link", "oauth", "password"} /\ e \in AdminEmails /\ ~r.admin
        admin == IF r.kind = "change" THEN user[e].admin ELSE r.admin IN
    /\ At(b, {"link", "oauth", "password", "change", "end"}, "answer")
    /\ promoted => RowFree(b, e)
    /\ user' = IF promoted THEN [user EXCEPT ![e].admin = TRUE] ELSE user
    /\ cookie' = [cookie EXCEPT ![b] = NewSession(e, admin \/ promoted)]
    /\ Close(b)
    /\ UNCHANGED <<bounds, linked, link, granted, history>>

Logout(b) ==
    /\ req[b] = None /\ cookie[b] # None
    /\ cookie' = [cookie EXCEPT ![b] = None]
    /\ UNCHANGED <<bounds, tables, req, history>>

\* A database error, a cancelled request or a crash: what is not committed is
\* lost, and a grant that was still due is not tried again.
Fail(b) ==
    /\ req[b] # None
    /\ faults < MaxFaults /\ faults' = faults + 1
    /\ missed' = IF req[b].step = "grant" THEN missed \cup {req[b].email} ELSE missed
    /\ Close(b)
    /\ UNCHANGED <<now, requests, tables, cookie, proved, spent>>

Tick ==
    /\ now < MaxTime /\ now' = now + 1
    /\ UNCHANGED <<requests, faults, tables, cookie, req, history>>

Begin(b) == \/ Register(b) \/ Callback(b) \/ RequestLink(b) \/ OpenLink(b) \/ SignInByPassword(b)
            \/ EndSessions(b) \/ StartToggle(b) \/ Logout(b)
Step(b) == \/ Insert(b) \/ Commit(b) \/ Grant(b) \/ DeleteLinks(b) \/ CommitLink(b)
           \/ TakeCut(b) \/ WriteCut(b) \/ WriteToggle(b) \/ Answer(b)

Next == Tick \/ \E b \in Browsers : Begin(b) \/ Step(b) \/ GrantFails(b) \/ Fail(b)

Spec == Init /\ [][Next]_vars

\* The server goes on with every request it has taken.
FairSpec == Spec /\ \A b \in Browsers : WF_vars(Step(b))
-----------------------------------------------------------------------------
(* Properties *)

\* Accounts, links and grants belong to users: a link is only stored for a user
\* that exists, so the branch of verify_magic_link that creates one is never taken.
NothingWithoutUser ==
    /\ \A a \in Accounts : linked[a] # None => user[linked[a]] # None
    /\ \A l \in Links : link[l] \notin {None, Gone} => user[link[l].email] # None
    /\ \A e \in Emails : granted[e] > 0 => user[e] # None

\* An address is only marked verified after a link sent to it was opened or a
\* provider vouched for it, whoever created the user and in which order.
VerifiedByProof == \A e \in Emails : user[e] # None /\ user[e].verified => e \in proved

\* A provider account signs in to one user for good, also when the provider
\* reports another address later or two callbacks run at once.
KeepsUser == \A a \in Accounts : linked[a] # None => linked'[a] = linked[a]
LinkedForGood == [][KeepsUser]_vars

\* No request that opens a link after somebody has signed in with it succeeds:
\* a second sign-in must have read the link before the first one committed.
LinkSignsInOnce == \A b \in Browsers : req[b] # None => ~req[b].late

\* A session that was issued after the last time its user ended all sessions is
\* accepted until it expires; so is the one such a request hands to its caller.
Outlives(s) == ~Expired(s) /\ s.at >= user[s.user].cutAt
CallerStaysSignedIn == \A b \in Browsers :
    cookie[b] # None /\ Outlives(cookie[b]) /\ ~user[cookie[b].user].byAdmin => Accepted(cookie[b])

\* A new user gets the signup grant unless a fault hits the request that made it.
NewUserIsGranted == \A e \in Emails : user[e] # None ~> (granted[e] = 1 \/ e \in missed)
=============================================================================
