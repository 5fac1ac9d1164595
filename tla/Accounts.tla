-------------------------------- MODULE Accounts --------------------------------
(***************************************************************************)
(* User accounts, their sessions, their organisations and API keys: the    *)
(* endpoints of /v1/auth, /v1/organizations and /v1/api-keys.  They run in *)
(* a thread pool on several instances, each reads what it checks and writes *)
(* in a later commit, and nothing but row locks and unique constraints     *)
(* stands between two of them (the sessions of SQLAlchemy do not flush     *)
(* before a commit, and Postgres reads what is committed).                 *)
(*                                                                         *)
(* A user is named by the e-mail address, which is unique, and an           *)
(* organisation by the user who founded it on signing up.                  *)
(***************************************************************************)
EXTENDS Integers, Sequences, FiniteSets

CONSTANTS
    Users,          \* e-mail addresses
    Founder,        \* whose organisation those who have an account at first own
    Calls,          \* the requests that clients make (a bound)
    MaxSessions     \* bound: refresh tokens ever issued

ASSUME AccountsAssumption ==
    /\ Founder \in Users
    /\ MaxSessions \in Nat \ {0} /\ IsFiniteSet(Calls)

VARIABLES
    account,    \* users (hashed_password set or not) and oauth_identities (linked or not);
                \* resets counts the password resets that were committed
    member,     \* organization_members.role, or "none"
    session,    \* refresh_tokens in order of issue; line: the sign-in it descends from;
                \* after: the resets of its user whose UPDATE ran before it was issued
    mail,       \* password_reset_tokens
    key,        \* api_keys; line: the key that was created, before rotations
    call,       \* the requests in flight: what they were asked and what they read
    forked,     \* history: lines refreshed with a token that ended after it was read
    ended,      \* history: lines that were logged out
    respawned   \* history: lines of which a key was rotated after it was revoked

vars == <<account, member, session, mail, key, call, forked, ended, respawned>>

Roles    == {"owner", "admin", "member"}
Managers == {"owner", "admin"}              \* _MANAGE_ROLES
NoRoles  == [u \in Users |-> "none"]
NoUser   == "none"
NoCall   == [pc |-> "idle", op |-> "none", user |-> NoUser, org |-> NoUser, id |-> 0,
             role |-> "none", roles |-> NoRoles, found |-> FALSE, gone |-> FALSE,
             rows |-> {}]

Sessions   == DOMAIN session
Active(s)  == session[s].state = "active"
Owners(o)  == {u \in Users : member[o][u] = "owner"}
HasHome(u) == \E o \in Users : member[o][u] # "none"     \* _primary_organization

Updating(c) == call[c].pc \in {"update", "locked"}

\* The resets of u's password that are done, and those whose UPDATE has begun.
ResetsBegun(u) ==
    account[u].resets + Cardinality({c \in Calls : Updating(c) /\ call[c].user = u})

\* The history starts with the accounts of some users.
Init ==
    /\ \E E \in SUBSET Users :
          /\ Founder \in E
          /\ account = [u \in Users |-> [here |-> u \in E, password |-> u \in E,
                                         linked |-> FALSE, resets |-> 0]]
          /\ member = [o \in Users |-> [u \in Users |->
                          IF u \in E /\ o \in {u, Founder} THEN "owner" ELSE "none"]]
    /\ session = <<[user |-> Founder, state |-> "active", line |-> 1, after |-> 0]>>
    /\ mail = <<[user |-> Founder, state |-> "active"]>>
    /\ key = <<[org |-> Founder, active |-> TRUE, line |-> 1]>>
    /\ call = [c \in Calls |-> NoCall]
    /\ forked = {} /\ ended = {}
    /\ respawned = {}

-----------------------------------------------------------------------------
(* The shape of a request: what it read, then what it commits. *)

Go(c, next) == call[c].pc = "idle" /\ call' = [call EXCEPT ![c] = next]
Done        == [NoCall EXCEPT !.pc = "done"]
End(c)      == call' = [call EXCEPT ![c] = Done]
At(c, pc, op) == call[c].pc = pc /\ call[c].op = op

tables  == <<account, member, session, mail, key>>
history == <<forked, ended, respawned>>

\* An exception: the transaction is rolled back.
Refuse(c) == End(c) /\ UNCHANGED <<tables, history>>
-----------------------------------------------------------------------------
(* Signing up and signing in. *)

\* get_by_email: no account has this address.
SignUp(c, u) ==
    /\ ~account[u].here
    /\ Go(c, [NoCall EXCEPT !.pc = "read", !.op = "signup", !.user = u])
    /\ UNCHANGED <<tables, history>>

\* The user, the organisation, its owner and its balance: one commit.
Found(u, password, linked) ==
    /\ account' = [account EXCEPT ![u].here = TRUE, ![u].password = password,
                                  ![u].linked = linked]
    /\ member' = [member EXCEPT ![u][u] = "owner"]

\* users.email is unique: the second of two commits fails.
CreateAccount(c) ==
    LET u == call[c].user IN
    /\ At(c, "read", "signup")
    /\ IF account[u].here THEN Refuse(c)
       ELSE /\ Found(u, TRUE, FALSE)
            /\ call' = [call EXCEPT ![c].pc = "issue"]
            /\ UNCHANGED <<session, mail, key, forked, ended, respawned>>

\* The password is right and there is an organisation to sign in to.
LogIn(c, u) ==
    /\ account[u].password /\ HasHome(u)
    /\ Go(c, [NoCall EXCEPT !.pc = "issue", !.op = "login", !.user = u])
    /\ UNCHANGED <<tables, history>>

\* Google has vouched for the identity whose e-mail is u.
SignInWithGoogle(c, u) ==
    /\ IF account[u].linked /\ HasHome(u)
       THEN Go(c, [NoCall EXCEPT !.pc = "issue", !.op = "oauth", !.user = u])
       ELSE /\ ~account[u].linked
            /\ Go(c, [NoCall EXCEPT !.pc = "read", !.op = "oauth", !.user = u,
                                    !.found = account[u].here])
    /\ UNCHANGED <<tables, history>>

\* Link the identity to the account that was found, or to a new one.  Both the
\* address and the identity are unique.  An account that was removed from its
\* last organisation is linked and refused.
LinkIdentity(c) ==
    LET u == call[c].user IN
    /\ At(c, "read", "oauth")
    /\ IF account[u].linked \/ (account[u].here /\ ~call[c].found) THEN Refuse(c)
       ELSE /\ IF call[c].found
               THEN /\ account' = [account EXCEPT ![u].linked = TRUE]
                    /\ UNCHANGED member
               ELSE Found(u, FALSE, TRUE)
            /\ IF call[c].found /\ ~HasHome(u) THEN End(c)
               ELSE call' = [call EXCEPT ![c].pc = "issue"]
            /\ UNCHANGED <<session, mail, key, forked, ended, respawned>>

\* POST /v1/auth/switch-organization: any access token will do, a JWT that
\* nothing ends before its time.
SwitchOrganization(c, u, o) ==
    /\ account[u].here /\ HasHome(u) /\ member[o][u] # "none"
    /\ Go(c, [NoCall EXCEPT !.pc = "issue", !.op = "switch", !.user = u])
    /\ UNCHANGED <<tables, history>>

Issued(u, line) == [user |-> u, state |-> "active", line |-> line, after |-> ResetsBegun(u)]

\* issue_tokens: a commit of its own.
IssueTokens(c) ==
    LET u == call[c].user IN
    /\ call[c].pc = "issue" /\ Len(session) < MaxSessions
    /\ session' = Append(session, Issued(u, Len(session) + 1))
    /\ End(c)
    /\ UNCHANGED <<account, member, mail, key, history>>

-----------------------------------------------------------------------------
(* Refreshing and ending a session. *)

\* The row is active when it is read.
Refresh(c, s) ==
    /\ Active(s)
    /\ Go(c, [NoCall EXCEPT !.pc = "read", !.op = "refresh", !.user = session[s].user,
                            !.id = s])
    /\ UNCHANGED <<tables, history>>

\* Another transaction holds the row until it commits.
Unlocked(s) == \A d \in Calls : ~(call[d].pc = "locked" /\ s \in call[d].rows)

\* Mutant: the presented token stays valid.
RotateUnrevoked(c) ==
    LET s == call[c].id IN
    /\ At(c, "read", "refresh") /\ Unlocked(s) /\ Len(session) < MaxSessions
    /\ session' = Append(session, Issued(session[s].user, session[s].line))
    /\ forked' = IF Active(s) THEN forked ELSE forked \cup {session[s].line}
    /\ End(c)
    /\ UNCHANGED <<account, member, mail, key, ended, respawned>>

\* Revoke the presented token (by its primary key) and insert the next one.
Rotate(c) ==
    LET s == call[c].id IN
    /\ At(c, "read", "refresh") /\ Unlocked(s) /\ Len(session) < MaxSessions
    /\ session' = Append([session EXCEPT ![s].state = "revoked"],
                         Issued(session[s].user, session[s].line))
    /\ forked' = IF Active(s) THEN forked ELSE forked \cup {session[s].line}
    /\ End(c)
    /\ UNCHANGED <<account, member, mail, key, ended, respawned>>

\* logout: a token that is revoked already is left as it is.
LogOut(c, s) ==
    /\ session[s].state # "revoked"
    /\ Go(c, [NoCall EXCEPT !.pc = "read", !.op = "logout", !.user = session[s].user,
                            !.id = s])
    /\ UNCHANGED <<tables, history>>

EndSession(c) ==
    LET s == call[c].id IN
    /\ At(c, "read", "logout") /\ Unlocked(s)
    /\ session' = [session EXCEPT ![s].state = "revoked"]
    /\ ended' = IF Active(s) THEN ended \cup {session[s].line} ELSE ended
    /\ End(c)
    /\ UNCHANGED <<account, member, mail, key, forked, respawned>>

\* expires_at passes.
ExpireSession(s) ==
    /\ Active(s)
    /\ session' = [session EXCEPT ![s].state = "expired"]
    /\ UNCHANGED <<account, member, mail, key, call, history>>

-----------------------------------------------------------------------------
(* A forgotten password. *)

\* forgot_password for an address that has an account.  A mail that gets lost
\* and a token that expires are those that nobody presents.
Forgot(c, u) ==
    /\ account[u].here
    /\ Go(c, Done)
    /\ mail' = Append(mail, [user |-> u, state |-> "active"])
    /\ UNCHANGED <<account, member, session, key, history>>

\* reset_password: the token is active when it is read.
ResetPassword(c, m) ==
    /\ mail[m].state = "active"
    /\ Go(c, [NoCall EXCEPT !.pc = "read", !.op = "reset", !.user = mail[m].user, !.id = m])
    /\ UNCHANGED <<tables, history>>

\* Rows that UPDATE ... WHERE user_id = u AND revoked_at IS NULL finds.
Unrevoked(u) == {s \in Sessions : session[s].user = u /\ session[s].state # "revoked"}

\* Mutant: the sessions to revoke are those of the token's issue, not of now.
RevokeFirst(c) ==
    LET u == call[c].user IN
    /\ At(c, "read", "reset")
    /\ call' = [call EXCEPT ![c].pc = "update", ![c].rows = Unrevoked(u) \cap {1}]
    /\ UNCHANGED <<tables, history>>

\* The UPDATE begins: it will touch the rows committed so far.
RevokeAll(c) ==
    LET u == call[c].user IN
    /\ At(c, "read", "reset")
    /\ call' = [call EXCEPT ![c].pc = "update", ![c].rows = Unrevoked(u)]
    /\ UNCHANGED <<tables, history>>

\* It waits for rows that another reset has locked, and passes over those
\* that were revoked meanwhile.
LockRows(c) ==
    LET live == call[c].rows \cap Unrevoked(call[c].user) IN
    /\ At(c, "update", "reset")
    /\ \A s \in live : Unlocked(s)
    /\ call' = [call EXCEPT ![c].pc = "locked", ![c].rows = live]
    /\ UNCHANGED <<tables, history>>

\* The commit also writes the token and the password.
CommitReset(c) ==
    LET u == call[c].user IN
    /\ At(c, "locked", "reset")
    /\ session' = [s \in Sessions |-> IF s \in call[c].rows
                                      THEN [session[s] EXCEPT !.state = "revoked"]
                                      ELSE session[s]]
    /\ ended' = ended \cup {session[s].line : s \in {t \in call[c].rows : Active(t)}}
    /\ mail' = [mail EXCEPT ![call[c].id].state = "used"]
    /\ account' = [account EXCEPT ![u].password = TRUE, ![u].resets = @ + 1]
    /\ End(c)
    /\ UNCHANGED <<member, key, forked, respawned>>

-----------------------------------------------------------------------------
(* Members.  The caller's role is read with the request (_require_manager), *)
(* the row of the user it is about in a second statement, and for the       *)
(* removal of an owner those of all members in a third.  A row that the     *)
(* request holds already keeps the role that was read first.                *)

Manages(u, o) == member[o][u] \in Managers

\* The caller is a manager.
Ask(c, op, o, u, role) ==
    /\ \E manager \in Users :
         /\ Manages(manager, o)
         /\ Go(c, [NoCall EXCEPT !.pc = "asked", !.op = op, !.org = o, !.user = u, !.role = role,
                                 !.roles[manager] = member[o][manager]])
    /\ UNCHANGED <<tables, history>>

AddMember(c, o, u, role)  == account[u].here /\ Ask(c, "add", o, u, role)
ChangeRole(c, o, u, role) == Ask(c, "role", o, u, role)
RemoveMember(c, o, u)     == Ask(c, "remove", o, u, "none")

\* The role of v that the request goes by.
Seen(c, v) ==
    LET now == member[call[c].org][v] IN
    IF now = "none" \/ call[c].roles[v] = "none" THEN now ELSE call[c].roles[v]

\* get_membership of the user: no row for an invitation, one otherwise.  Only
\* the removal of an owner goes on to read others.
ReadMember(c) ==
    LET u == call[c].user  role == Seen(c, u)
        lists == call[c].op = "remove" /\ role = "owner" IN
    /\ call[c].pc = "asked"
    /\ IF (role = "none") # (call[c].op = "add") THEN Refuse(c)
       ELSE /\ call' = [call EXCEPT
                    ![c].pc = IF lists THEN "list" ELSE "read",
                    ![c].roles = [IF lists THEN @ ELSE NoRoles EXCEPT ![u] = role]]
            /\ UNCHANGED <<tables, history>>

SetRole(o, u, role) == member' = [member EXCEPT ![o][u] = role]

\* (organization_id, user_id) is unique.
InsertMember(c) ==
    LET o == call[c].org  u == call[c].user IN
    /\ At(c, "read", "add")
    /\ IF member[o][u] # "none" THEN Refuse(c)
       ELSE /\ SetRole(o, u, call[c].role)
            /\ End(c)
            /\ UNCHANGED <<account, session, mail, key, history>>

\* The row is written by its primary key, if its role is not the one that was
\* read; a row that is gone raises StaleDataError.
WriteRole(c) ==
    LET o == call[c].org  u == call[c].user  changed == call[c].role # call[c].roles[u] IN
    /\ At(c, "read", "role")
    /\ IF call[c].gone \/ ~changed THEN Refuse(c)
       ELSE /\ SetRole(o, u, call[c].role)
            /\ End(c)
            /\ UNCHANGED <<account, session, mail, key, history>>

\* Mutant: the owner to remove counts as remaining.
OthersOwnOrSelf(c) == \E v \in Users : Seen(c, v) = "owner"

\* remaining_owners.
OthersOwn(c) == \E v \in Users \ {call[c].user} : Seen(c, v) = "owner"

\* list_members, for the removal of an owner.
ListMembers(c) ==
    /\ At(c, "list", "remove")
    /\ IF ~OthersOwn(c) THEN Refuse(c)
       ELSE /\ call' = [call EXCEPT
                    ![c].pc = "read",
                    ![c].roles = [v \in Users |-> IF v = call[c].user THEN @[v] ELSE Seen(c, v)]]
            /\ UNCHANGED <<tables, history>>

\* The row of u is gone: requests that are about it will find it gone, and a
\* request that has read it as another's will not take a new row for it.
Forget(r, o, u) ==
    IF r.op \notin {"role", "remove"} \/ r.org # o THEN r
    ELSE IF r.pc \in {"list", "read"} /\ r.user = u THEN [r EXCEPT !.gone = TRUE]
    ELSE IF r.pc \in {"asked", "list"} THEN [r EXCEPT !.roles[u] = "none"]
    ELSE r

\* DELETE by primary key; of a row that is gone it deletes nothing.
DeleteMember(c) ==
    LET o == call[c].org  u == call[c].user IN
    /\ At(c, "read", "remove")
    /\ IF call[c].gone THEN Refuse(c)
       ELSE /\ SetRole(o, u, "none")
            /\ call' = [d \in Calls |-> IF d = c THEN Done ELSE Forget(call[d], o, u)]
            /\ UNCHANGED <<account, session, mail, key, history>>

-----------------------------------------------------------------------------
(* API keys.  Their columns do not change but for revoked_at, so reading and *)
(* committing may be one step.                                              *)

CreateKey(c, o) ==
    /\ Owners(o) # {} \/ \E u \in Users : member[o][u] # "none"
    /\ Go(c, Done)
    /\ key' = Append(key, [org |-> o, active |-> TRUE, line |-> Len(key) + 1])
    /\ UNCHANGED <<account, member, session, mail, history>>

RevokeKey(c, k) ==
    /\ Go(c, Done)
    /\ key' = [key EXCEPT ![k].active = FALSE]
    /\ UNCHANGED <<account, member, session, mail, history>>

\* Revoke the key and mint its replacement; also of a key that is revoked.
RotateKey(c, k) ==
    /\ Go(c, Done)
    /\ key' = Append([key EXCEPT ![k].active = FALSE],
                     [org |-> key[k].org, active |-> TRUE, line |-> key[k].line])
    /\ respawned' = IF key[k].active THEN respawned ELSE respawned \cup {key[k].line}
    /\ UNCHANGED <<account, member, session, mail, forked, ended>>

-----------------------------------------------------------------------------
Begin(c) ==
    \/ \E u \in Users : SignUp(c, u) \/ LogIn(c, u) \/ SignInWithGoogle(c, u) \/ Forgot(c, u)
    \/ \E s \in Sessions : Refresh(c, s) \/ LogOut(c, s)
    \/ \E m \in DOMAIN mail : ResetPassword(c, m)
    \/ \E o, u \in Users :
        \/ SwitchOrganization(c, u, o) \/ RemoveMember(c, o, u)
        \/ \E role \in Roles : AddMember(c, o, u, role) \/ ChangeRole(c, o, u, role)
    \/ \E o \in Users : CreateKey(c, o)
    \/ \E k \in DOMAIN key : RevokeKey(c, k) \/ RotateKey(c, k)

Proceed(c) ==
    \/ CreateAccount(c) \/ LinkIdentity(c) \/ IssueTokens(c)
    \/ Rotate(c) \/ EndSession(c) \/ RevokeAll(c) \/ LockRows(c) \/ CommitReset(c)
    \/ ReadMember(c) \/ ListMembers(c) \/ InsertMember(c) \/ WriteRole(c) \/ DeleteMember(c)

Next ==
    \/ \E c \in Calls : Begin(c) \/ Proceed(c)
    \/ \E s \in Sessions : ExpireSession(s)

Spec == Init /\ [][Next]_vars

-----------------------------------------------------------------------------
(* Properties. *)

TypeOK ==
    /\ account \in [Users -> [here : BOOLEAN, password : BOOLEAN, linked : BOOLEAN,
                              resets : Nat]]
    /\ member \in [Users -> [Users -> Roles \cup {"none"}]]
    /\ session \in Seq([user : Users, state : {"active", "revoked", "expired"},
                        line : 1..MaxSessions, after : Nat])
    /\ Len(session) <= MaxSessions
    /\ mail \in Seq([user : Users, state : {"active", "used"}])
    /\ key \in Seq([org : Users, active : BOOLEAN, line : Nat \ {0}])
    /\ call \in [Calls ->
         [pc : {"idle", "asked", "list", "read", "issue", "update", "locked", "done"},
          op : {"none", "signup", "login", "oauth", "switch", "refresh", "logout", "reset",
                "add", "role", "remove"},
          user : Users \cup {NoUser}, org : Users \cup {NoUser}, id : Nat,
          role : Roles \cup {"none"}, roles : [Users -> Roles \cup {"none"}],
          found : BOOLEAN, gone : BOOLEAN, rows : SUBSET (1..MaxSessions)]]
    /\ forked \subseteq 1..MaxSessions /\ ended \subseteq 1..MaxSessions
    /\ respawned \subseteq Nat

LineSessions(l) == {s \in Sessions : session[s].line = l /\ Active(s)}
LineKeys(l) == {k \in DOMAIN key : key[k].line = l /\ key[k].active}

\* A password reset ends every session that was there when its UPDATE began,
\* however refreshes, logouts and other resets interleave with it
\* (auth_service.py, reset_password: "kick them all out rather than leaving a
\* session from before the reset").  It says nothing of the token that a
\* refresh mints after that, from one it had read or even revoked before.
ResetEndsSessions ==
    \A s \in Sessions : Active(s) => session[s].after >= account[session[s].user].resets

\* Refreshing never multiplies a session and rotating never multiplies a key,
\* however calls interleave; no session comes back after a logout or a reset.
\* The exceptions: a refresh that had read its token before somebody ended it,
\* and the rotation of a key that is revoked already (auth_service.py, refresh:
\* "detectably dead, not silently reusable").
OneCredentialPerLine ==
    /\ \A l \in Sessions \ forked :
          /\ Cardinality(LineSessions(l)) <= 1
          /\ l \in ended => LineSessions(l) = {}
    /\ \A l \in (DOMAIN key) \ respawned : Cardinality(LineKeys(l)) <= 1

\* The request took v for an owner who is none now, or the reverse.
Misjudges(c, v) ==
    /\ call[c].roles[v] # "none"
    /\ (call[c].roles[v] = "owner") # (member[call[c].org][v] = "owner")

\* An organisation loses its last owner only through a change of role, which
\* nothing checks, or through a removal that goes by a role that was changed
\* after it was read (routers/v1/organizations.py: "Cannot remove the last
\* owner").
OwnerStays ==
    [][\A o \in Users : Owners(o) # {} /\ Owners(o)' = {} =>
          \E c \in Calls :
             /\ call[c].org = o /\ call'[c].pc = "done"
             /\ \/ call[c].op = "role"
                \/ call[c].op = "remove" /\ \E v \in Users : Misjudges(c, v)]_vars
=============================================================================
